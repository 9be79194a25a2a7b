----------------------------- MODULE MCReaders ------------------------------
(* Instances of Readers for TLC. *)
EXTENDS Readers

Both == {[trust |-> FALSE, require |-> TRUE], [trust |-> TRUE, require |-> FALSE]}

First == {<<1, 1>>}

=============================================================================
