----------------------------- MODULE AppendLog ------------------------------
(***************************************************************************)
(* What the linker and its store promise together: every chain is a log    *)
(* that only grows, at its end, and one step extends any number of chains  *)
(* at once, all or none.                                                   *)
(***************************************************************************)
EXTENDS Naturals, Sequences

CONSTANTS Chains, Items

VARIABLE log

LogInit == log = [c \in Chains |-> <<>>]

Extends(old, new) ==
    /\ Len(old) <= Len(new)
    /\ \A i \in 1..Len(old) : new[i] = old[i]

Extend ==
    /\ log' \in [Chains -> Seq(Items)]
    /\ \A c \in Chains : Extends(log[c], log'[c])

LogSpec == LogInit /\ [][Extend]_log

=============================================================================
