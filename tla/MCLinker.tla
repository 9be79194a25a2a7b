------------------------------ MODULE MCLinker ------------------------------
(* An instance of BoltStore for TLC: every call appends two entries that      *)
(* arrived together.                                                          *)
EXTENDS BoltStore

Two == {{[id |-> 2, at |-> 1], [id |-> 1, at |-> 1]}}

=============================================================================
