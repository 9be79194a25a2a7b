----------------------------- MODULE BoltStore ------------------------------
(***************************************************************************)
(* A bbolt store from its two sides: the transactions of the linker on a   *)
(* file that works, and the handle under them on a file that is damaged.   *)
(* A behaviour is about one of the two: on a damaged file every call is an *)
(* error before it is a transaction.                                       *)
(***************************************************************************)
EXTENDS Linker, GuardedDb

VARIABLE damaged    \* which of the two

boltStoreVars == <<vars, guardVars, damaged>>

BoltInit == Init /\ GuardInit /\ damaged \in BOOLEAN

OnStore  == ~damaged /\ UNCHANGED <<guardVars, damaged>>
OnHandle == damaged /\ UNCHANGED <<vars, damaged>>

BoltNext == (OnStore /\ Next) \/ (OnHandle /\ GuardNext)

\* The fairness of Linker's LiveSpec and of GuardSpec.
BoltFairness ==
    /\ \A w \in Writers : WF_boltStoreVars(OnStore /\ Step(w))
    /\ WF_boltStoreVars(OnStore /\ Close) /\ WF_boltStoreVars(OnStore /\ Reopen)
    /\ \A c \in Callers :
          /\ WF_boltStoreVars(OnHandle /\ (GuardStep(c) \/ Rollback(c)))
          /\ SF_boltStoreVars(OnHandle /\ Resumes(c))

BoltSpec == BoltInit /\ [][BoltNext]_boltStoreVars /\ BoltFairness

=============================================================================
