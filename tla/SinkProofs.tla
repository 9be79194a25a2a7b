----------------------------- MODULE SinkProofs -----------------------------
(***************************************************************************)
(* Theorems about Sink, for every set of subjects, classes, chains,        *)
(* contents, sources and batches, and any number of faults: its state is   *)
(* well typed, and the content of every entry on a chain that was not      *)
(* erased is stored.                                                       *)
(***************************************************************************)
EXTENDS Sink, FiniteSetTheorems, TLAPS

-----------------------------------------------------------------------------
(* Facts about the operators *)

\* ReadTail returns -1 or a sequence number.
LEMMA TailSeqType ==
    ASSUME evidence \subseteq Entries, NEW c \in Chains
    PROVE  TailSeq(c) \in Nat \cup {-1}
<1>1. CASE \E e \in EntriesOf(c) : IsTail(e)
  <2>1. (CHOOSE e \in EntriesOf(c) : IsTail(e)) \in Entries
    BY <1>1 DEF EntriesOf
  <2> QED BY <1>1, <2>1 DEF TailSeq, Entries
<1>2. CASE ~ \E e \in EntriesOf(c) : IsTail(e)
  BY <1>2 DEF TailSeq
<1> QED BY <1>1, <1>2

\* The rows an entry is stored with are well formed.
LEMMA RowTypes ==
    ASSUME NEW e \in Entries
    PROVE  /\ SecretRow(e) \in SecretRows
           /\ SigRow(e) \in SigRows
           /\ e.origin # None /\ e.commits.about # None => PositionRow(e) \in PositionRows
BY DEF SecretRow, SigRow, PositionRow, Entries, SecretRows, SigRows, PositionRows, Values

\* The entries a commit prepares are well formed.
LEMMA PlannedType ==
    ASSUME FolderTypeOK, nextId \in Nat, NEW b \in Seq(Records),
           \A p \in PairsOf(b) : forward[p] # None
    PROVE  Planned(b) \subseteq Entries
<1> DEFINE kept == {i \in DOMAIN b : ~Duplicate(b, i)}
           before(i) == {j \in kept : j < i /\ b[j].pair = b[i].pair}
           entry(i) == [chain |-> forward[b[i].pair],
                        seq |-> TailSeq(forward[b[i].pair]) + 1 + Cardinality(before(i)),
                        id |-> nextId + i - 1, type |-> "event",
                        commits |-> ContentOf(b[i]), origin |-> b[i].source]
<1>1. ASSUME NEW i \in kept PROVE entry(i) \in Entries
  <2>1. i \in 1..Len(b) /\ b[i] \in Records /\ Len(b) \in Nat
    OBVIOUS
  <2>2. forward[b[i].pair] \in Chains
    BY <2>1 DEF PairsOf, Records, FolderTypeOK
  <2>3. TailSeq(forward[b[i].pair]) + 1 \in Nat
    BY <2>2, TailSeqType DEF FolderTypeOK
  <2>4. Cardinality(before(i)) \in Nat
    <3>1. before(i) \subseteq 1..Len(b)
      OBVIOUS
    <3>2. IsFiniteSet(1..Len(b))
      BY <2>1, FS_Interval
    <3> QED BY <3>1, <3>2, FS_Subset, FS_CardinalityType
  <2>5. ContentOf(b[i]) \in Values
    BY <2>1 DEF ContentOf, Content, Values, Records
  <2>6. nextId + i - 1 \in Nat
    BY <2>1
  <2>7. TailSeq(forward[b[i].pair]) + 1 + Cardinality(before(i)) \in Nat
    BY <2>3, <2>4
  <2>8. b[i].source \in Sources \cup {None}
    BY <2>1 DEF Records
  <2> HIDE DEF before
  <2> QED BY <2>2, <2>5, <2>6, <2>7, <2>8 DEF Entries
<1>2. Planned(b) = {entry(i) : i \in kept}
  BY DEF Planned
<1> QED BY <1>1, <1>2

\* What the entries a commit prepares say of the records they are made from.
LEMMA PlannedShape ==
    ASSUME NEW b, NEW e \in Planned(b)
    PROVE  \E i \in DOMAIN b :
              /\ ~Duplicate(b, i) /\ e.chain = forward[b[i].pair] /\ e.id = nextId + i - 1
              /\ e.type = "event" /\ e.commits = ContentOf(b[i]) /\ e.origin = b[i].source
<1> DEFINE kept == {i \in DOMAIN b : ~Duplicate(b, i)}
           before(i) == {j \in kept : j < i /\ b[j].pair = b[i].pair}
           place(i) == TailSeq(forward[b[i].pair]) + 1 + Cardinality(before(i))
           entry(i) == [chain |-> forward[b[i].pair], seq |-> place(i),
                        id |-> nextId + i - 1, type |-> "event",
                        commits |-> ContentOf(b[i]), origin |-> b[i].source]
<1>1. Planned(b) = {entry(i) : i \in kept}
  BY DEF Planned
<1> HIDE DEF place
<1>2. PICK i \in kept : e = entry(i)
  BY <1>1
<1> QED BY <1>2

\* The types of the call's registers.
LEMMA CallFields ==
    ASSUME call \in Calls
    PROVE  /\ call.todo \in SUBSET Chains /\ call.erased \in SUBSET Chains
           /\ call.cur \in Chains \cup {None} /\ call.who \in SUBSET Pairs
           /\ call.batch \in Seq(Records) /\ call.signer \in BOOLEAN
           /\ call.kind \in {"none", "commit", "erase", "resume", "repair"}
BY DEF Calls

\* The fields that an update leaves alone.
LEMMA CallFrame ==
    ASSUME call \in Calls
    PROVE  /\ \A o : /\ [call EXCEPT !.outcome = o].cur = call.cur
                    /\ [call EXCEPT !.outcome = o].batch = call.batch
           /\ [call EXCEPT !.clean = FALSE].cur = call.cur
           /\ \A t : [call EXCEPT !.todo = t].batch = call.batch
           /\ \A t, c : [call EXCEPT !.todo = t, !.cur = c].cur = c
BY DEF Calls

\* Every update the steps make of the call's registers keeps them well formed.
LEMMA CallUpdates ==
    ASSUME call \in Calls
    PROVE  /\ \A o \in Outcomes : [call EXCEPT !.outcome = o] \in Calls
           /\ [call EXCEPT !.clean = FALSE] \in Calls
           /\ [call EXCEPT !.clean = FALSE, !.compacted = FALSE] \in Calls
           /\ [call EXCEPT !.cur = None] \in Calls
           /\ \A t \in SUBSET Chains : [call EXCEPT !.todo = t] \in Calls
           /\ \A t \in SUBSET Chains : [call EXCEPT !.erased = t] \in Calls
           /\ \A t \in SUBSET Chains, c \in Chains \cup {None} :
                /\ [call EXCEPT !.todo = t, !.cur = c] \in Calls
                /\ [[call EXCEPT !.todo = t, !.cur = c] EXCEPT !.clean = FALSE] \in Calls
<1> USE DEF Calls
<1>1. \A o \in Outcomes : [call EXCEPT !.outcome = o] \in Calls
  OBVIOUS
<1>2. [call EXCEPT !.clean = FALSE] \in Calls
  OBVIOUS
<1>3. [call EXCEPT !.clean = FALSE, !.compacted = FALSE] \in Calls
  OBVIOUS
<1>4. [call EXCEPT !.cur = None] \in Calls
  OBVIOUS
<1>5. \A t \in SUBSET Chains : [call EXCEPT !.todo = t] \in Calls
  OBVIOUS
<1>6. \A t \in SUBSET Chains : [call EXCEPT !.erased = t] \in Calls
  OBVIOUS
<1>7. \A t \in SUBSET Chains, c \in Chains \cup {None} :
         /\ [call EXCEPT !.todo = t, !.cur = c] \in Calls
         /\ [[call EXCEPT !.todo = t, !.cur = c] EXCEPT !.clean = FALSE] \in Calls
  OBVIOUS
<1> HIDE DEF Calls
<1> QED BY <1>1, <1>2, <1>3, <1>4, <1>5, <1>6, <1>7

\* The registers a call starts with are well formed.
LEMMA CallStarts ==
    /\ NoCall \in Calls
    /\ \A b \in Seq(Records), s \in BOOLEAN :
         /\ [NoCall EXCEPT !.kind = "commit", !.batch = b, !.outcome = "refused"] \in Calls
         /\ [NoCall EXCEPT !.kind = "commit", !.signer = s, !.batch = b] \in Calls
    /\ \A w \in SUBSET Pairs, s \in BOOLEAN, k \in {"erase", "resume"} :
         /\ [NoCall EXCEPT !.kind = k, !.who = w, !.outcome = "refused"] \in Calls
         /\ [NoCall EXCEPT !.kind = k, !.who = w, !.signer = s] \in Calls
    /\ [NoCall EXCEPT !.kind = "repair", !.todo = Chains] \in Calls
<1>1. NoCall \in Calls
  <2>1. <<>> \in Seq(Records)
    OBVIOUS
  <2> QED BY <2>1 DEF NoCall, Calls, Outcomes
<1>2. ASSUME NEW b \in Seq(Records), NEW s \in BOOLEAN
      PROVE  /\ [NoCall EXCEPT !.kind = "commit", !.batch = b, !.outcome = "refused"] \in Calls
             /\ [NoCall EXCEPT !.kind = "commit", !.signer = s, !.batch = b] \in Calls
  BY <1>1 DEF Calls, Outcomes
<1>3. ASSUME NEW w \in SUBSET Pairs, NEW s \in BOOLEAN, NEW k \in {"erase", "resume"}
      PROVE  /\ [NoCall EXCEPT !.kind = k, !.who = w, !.outcome = "refused"] \in Calls
             /\ [NoCall EXCEPT !.kind = k, !.who = w, !.signer = s] \in Calls
  BY <1>1 DEF Calls, Outcomes
<1>4. [NoCall EXCEPT !.kind = "repair", !.todo = Chains] \in Calls
  BY <1>1 DEF Calls
<1> QED BY <1>1, <1>2, <1>3, <1>4

\* Whom the rows of a file are about are pairs.
LEMMA AboutType ==
    ASSUME FolderTypeOK
    PROVE  /\ \A rows \in SUBSET secrets : AboutSecrets(rows) \subseteq Pairs
           /\ \A rows \in SUBSET sources : AboutSources(rows) \subseteq Pairs
           /\ \A f \in Rewritten : LiveIn(f) \subseteq Pairs
<1>1. \A rows \in SUBSET secrets : AboutSecrets(rows) \subseteq Pairs
  BY DEF AboutSecrets, FolderTypeOK, SecretRows, Values
<1>2. \A rows \in SUBSET sources : AboutSources(rows) \subseteq Pairs
  BY DEF AboutSources, FolderTypeOK, PositionRows
<1>3. LiveIn("secrets") \subseteq Pairs
  BY <1>1 DEF LiveIn
<1>4. LiveIn("sources") \subseteq Pairs
  BY <1>2 DEF LiveIn
<1>5. LiveIn("subjects") \subseteq Pairs
  BY DEF LiveIn
<1> QED BY <1>1, <1>2, <1>3, <1>4, <1>5 DEF Rewritten

\* Deletes, rewrites and faults keep the page state and the budget well formed.
LEMMA FreedType ==
    ASSUME FolderTypeOK, NEW f \in Rewritten, NEW who \in SUBSET Pairs, Freed(f, who)
    PROVE  residue' \in [Rewritten -> SUBSET Pairs]
BY DEF Freed, FolderTypeOK

LEMMA RewriteType ==
    ASSUME FolderTypeOK, NEW f \in Rewritten, RewriteOK(f) \/ RewriteError(f) \/ RewriteCrash(f)
    PROVE  /\ residue' \in [Rewritten -> SUBSET Pairs] /\ temps' \in [Rewritten -> SUBSET Pairs]
           /\ NoFault \/ Fault
BY AboutType DEF RewriteOK, RewriteError, RewriteCrash, FolderTypeOK

LEMMA FaultType ==
    ASSUME FolderTypeOK, NoFault \/ Fault
    PROVE  faults' \in Nat /\ backup' \in Backups
BY DEF NoFault, Fault, envVars, FolderTypeOK
\* Every pair of the batch has a chain once the call's rows are bound.
BatchBound ==
    /\ pc = "bind" => \A p \in PairsOf(call.batch) :
                         forward[p] # None \/ \E b \in fresh : b.pair = p
    /\ pc = "plan" => \A p \in PairsOf(call.batch) : forward[p] # None

\* Prepared events are about a pair; prepared erasures are about nobody.
PlanShape ==
    \A e \in plan : IF e.type = "event" THEN e.commits.about # None
                    ELSE e.commits.about = None /\ e.origin = None

\* While a chain is being erased, cur is that chain.
CurSet ==
    pc \in {"putRecord", "putRecordSig", "appendErasure", "undoRecord", "undoSig",
            "eraseSecrets", "leftSecrets", "eraseSources", "leftSigs"} => call.cur # None

TypeInv == TypeOK /\ BatchBound /\ PlanShape /\ CurSet

\* The pairs of a batch, and the bindings drawn for those without a chain.
LEMMA PairsOfType == ASSUME NEW b \in Seq(Records) PROVE PairsOf(b) \subseteq Pairs
<1>1. \A i \in DOMAIN b : b[i] \in Records
  OBVIOUS
<1> QED BY <1>1 DEF PairsOf, Records

LEMMA FreshType ==
    ASSUME NEW b, PairsOf(b) \subseteq Pairs, NEW new \in FreshBindings(b)
    PROVE  /\ new \subseteq Bindings
           /\ \A p \in PairsOf(b) : forward[p] # None \/ \E x \in new : x.pair = p
<1> DEFINE need == {p \in PairsOf(b) : forward[p] = None}
<1>1. PICK f \in [need -> {c \in Chains : Unused(c)}] :
             new = {[pair |-> p, chain |-> f[p]] : p \in need}
  BY DEF FreshBindings
<1>2. new \subseteq Bindings
  BY <1>1 DEF Bindings
<1>3. ASSUME NEW p \in need PROVE \E x \in new : x.pair = p
  <2>1. [pair |-> p, chain |-> f[p]] \in new
    BY <1>1
  <2> QED BY <2>1
<1> QED BY <1>2, <1>3

\* Init and the steps that are not part of a commit, an erasure or a repair.
LEMMA TypeInit == Init => TypeInv
<1> SUFFICES ASSUME Init PROVE TypeInv
  OBVIOUS
<1> USE FolderAssumption DEF Init, FolderInit, CallInit
<1>1. NoBackup \in Backups
  BY DEF NoBackup, Backups
<1>2. FolderTypeOK
  BY <1>1 DEF FolderTypeOK
<1> QED BY <1>2, CallStarts DEF TypeInv, TypeOK, BatchBound, PlanShape, CurSet

LEMMA IdleType ==
    ASSUME TypeInv, CommitCall \/ EraseCall \/ ResumeCall \/ RepairStart \/ RequireRecordSigning
    PROVE  TypeInv'
<1> USE FolderAssumption DEF TypeInv
<1>1. CASE CommitCall
  <2>1. PICK b \in Batches, s \in SignerConfigs : CommitStart(b, s)
    BY <1>1 DEF CommitCall
  <2>2. b \in Seq(Records) /\ s \in BOOLEAN
    BY CommitAssumption
  <2>3. call' \in Calls
    BY <2>1, <2>2, CallStarts DEF CommitStart
  <2>4. fresh' \subseteq Bindings /\ (pc' = "return" \/ call'.batch = b)
    <3>1. CASE UNCHANGED fresh /\ pc' = "return"
      BY <3>1 DEF TypeOK
    <3>2. CASE fresh' \in FreshBindings(b) /\ call' = [NoCall EXCEPT !.kind = "commit", !.signer = s, !.batch = b]
      <4>1. PairsOf(b) \subseteq Pairs
        BY <2>2, PairsOfType
      <4>2. fresh' \subseteq Bindings
        BY <3>2, <4>1, FreshType
      <4> QED BY <3>2, <4>2 DEF NoCall
    <3> QED BY <2>1, <3>1, <3>2 DEF CommitStart
  <2>5. BatchBound'
    <3>1. CASE pc' = "return"
      BY <3>1 DEF BatchBound
    <3>2. CASE fresh' \in FreshBindings(b) /\ call'.batch = b /\ pc' = IF fresh' = {} THEN "plan" ELSE "bind"
      <4>1. \A p \in PairsOf(b) : forward[p] # None \/ \E x \in fresh' : x.pair = p
        BY <2>2, <3>2, PairsOfType, FreshType
      <4>2. UNCHANGED forward
        BY <2>1 DEF CommitStart, folderVars, indexVars
      <4> QED BY <3>2, <4>1, <4>2 DEF BatchBound
    <3> QED BY <2>1, <2>4, <3>1, <3>2 DEF CommitStart
  <2>6. faults' \in Nat /\ backup' \in Backups
    BY <2>1, FaultType DEF CommitStart, TypeOK
  <2>7. PlanShape' /\ CurSet' /\ gone' \subseteq Pairs
    BY <2>1 DEF CommitStart, PlanShape, CurSet, TypeOK
  <2> QED BY <2>1, <2>3, <2>4, <2>5, <2>6, <2>7
          DEF CommitStart, folderVars, indexVars, sigVars, pageVars, TypeOK, FolderTypeOK
<1>2. ASSUME NEW k \in {"erase", "resume"}, NEW w \in SUBSET Pairs, NEW s \in SignerConfigs,
             EraseStart(k, w, s)
      PROVE  TypeInv'
  <2>1. call' \in Calls
    <3>1. /\ [NoCall EXCEPT !.kind = k, !.who = w, !.outcome = "refused"] \in Calls
          /\ [NoCall EXCEPT !.kind = k, !.who = w, !.signer = s] \in Calls
      BY CallStarts
    <3>2. \/ call' = [NoCall EXCEPT !.kind = k, !.who = w, !.outcome = "refused"]
          \/ call' = [NoCall EXCEPT !.kind = k, !.who = w, !.signer = s]
      BY <1>2 DEF EraseStart
    <3> QED BY <3>1, <3>2
  <2>2. faults' \in Nat /\ backup' \in Backups
    BY <1>2, FaultType DEF EraseStart, TypeOK
  <2>3. pc' \in {"return", "relinked", "presign"}
    BY <1>2 DEF EraseStart
  <2> QED BY <1>2, <2>1, <2>2, <2>3 DEF EraseStart, folderVars, indexVars, sigVars, pageVars,
          TypeOK, FolderTypeOK, BatchBound, PlanShape, CurSet
<1>3. CASE EraseCall
  <2>1. \A w \in Scopes : w \in SUBSET Pairs
    BY DEF Scopes
  <2> QED BY <1>2, <1>3, <2>1 DEF EraseCall
<1>4. CASE ResumeCall
  BY <1>2, <1>4 DEF ResumeCall
<1>5. CASE RepairStart
  BY <1>5, CallStarts, FaultType DEF RepairStart, folderVars, indexVars, sigVars, pageVars,
      TypeOK, FolderTypeOK, BatchBound, PlanShape, CurSet
<1>6. CASE RequireRecordSigning
  BY <1>6, FaultType DEF RequireRecordSigning, indexVars, pageVars, callVars,
      TypeOK, FolderTypeOK, BatchBound, PlanShape, CurSet
<1> QED BY <1>1, <1>3, <1>4, <1>5, <1>6

LEMMA EnvironmentType ==
    ASSUME TypeInv, Return \/ Crash \/ TakeBackup \/ RestoreIndex PROVE TypeInv'
<1> USE FolderAssumption DEF TypeInv, folderVars, indexVars, sigVars, pageVars, callVars
<1>1. CASE Return \/ Crash
  BY <1>1, CallStarts, FaultType
     DEF Return, Crash, TypeOK, FolderTypeOK, BatchBound, PlanShape, CurSet
<1>2. CASE TakeBackup
  <2>1. backup' \in Backups
    BY <1>2 DEF TakeBackup, Backups, TypeOK, FolderTypeOK
  <2> QED BY <1>2, <2>1 DEF TakeBackup, TypeOK, FolderTypeOK, BatchBound, PlanShape, CurSet
<1>3. CASE RestoreIndex
  <2>1. /\ backup.forward \in [Pairs -> Chains \cup {None}]
        /\ backup.reverse \in [Chains -> Pairs \cup {None, Pending}]
    BY DEF Backups, TypeOK, FolderTypeOK
  <2>2. NoBackup \in Backups
    BY DEF NoBackup, Backups
  <2> QED BY <1>3, <2>1, <2>2 DEF RestoreIndex, TypeOK, FolderTypeOK, BatchBound, PlanShape, CurSet
<1> QED BY <1>1, <1>2, <1>3

LEMMA RewriteStepType == ASSUME TypeInv, RewriteStep \/ RewriteAgain PROVE TypeInv'
<1> USE FolderAssumption DEF TypeInv
<1>1. ASSUME NEW f \in Rewritten, NEW at, Rewrite(f, at, "finish") \/ Rewrite(f, at, "rewriteSources")
                \/ Rewrite(f, at, "rewriteSubjects") \/ Rewrite(f, at, "rewriteSigs")
      PROVE  TypeInv'
  <2>1. call' \in Calls
    BY <1>1, CallUpdates, CallStarts DEF Rewrite, TypeOK
  <2>2. /\ residue' \in [Rewritten -> SUBSET Pairs] /\ temps' \in [Rewritten -> SUBSET Pairs]
        /\ NoFault \/ Fault
    BY <1>1, RewriteType DEF Rewrite, TypeOK
  <2>3. faults' \in Nat /\ backup' \in Backups
    BY <2>2, FaultType DEF TypeOK
  <2>4. BatchBound' /\ CurSet' /\ PlanShape' /\ plan' \subseteq Entries
    BY <1>1 DEF Rewrite, BatchBound, CurSet, PlanShape, TypeOK
  <2>5. UNCHANGED <<evidence, indexVars, secrets, sources, sigVars, fresh, nextId, gone>>
    BY <1>1 DEF Rewrite
  <2> QED BY <2>1, <2>2, <2>3, <2>4, <2>5 DEF indexVars, sigVars, TypeOK, FolderTypeOK
<1>2. CASE RewriteSecrets \/ RewriteSources \/ RewriteSubjects \/ RewriteAgain
  BY <1>1, <1>2 DEF RewriteSecrets, RewriteSources, RewriteSubjects, RewriteAgain, Rewritten
<1>3. CASE RewriteSigs
  <2>1. call' \in Calls
    BY <1>3, CallUpdates DEF RewriteSigs, TypeOK
  <2>2. faults' \in Nat /\ backup' \in Backups
    BY <1>3, FaultType DEF RewriteSigs, TypeOK
  <2> QED BY <1>3, <2>1, <2>2 DEF RewriteSigs, folderVars, indexVars, sigVars, pageVars,
          TypeOK, FolderTypeOK, BatchBound, PlanShape, CurSet
<1>4. CASE Finish
  <2>1. call' \in Calls
    BY <1>4, CallUpdates DEF Finish, ReturnWith, Outcomes, TypeOK
  <2>2. gone' \subseteq Pairs
    BY <1>4, CallFields DEF Finish, TypeOK
  <2>3. faults' \in Nat /\ backup' \in Backups
    BY <1>4, FaultType DEF Finish, TypeOK
  <2> QED BY <1>4, <2>1, <2>2, <2>3 DEF Finish, ReturnWith, folderVars, indexVars, sigVars, pageVars,
          TypeOK, FolderTypeOK, BatchBound, PlanShape, CurSet
<1> QED BY <1>2, <1>3, <1>4 DEF RewriteStep

LEMMA BindType == ASSUME TypeInv, BindAll PROVE TypeInv'
<1> USE FolderAssumption DEF TypeInv
<1>1. \A b \in fresh : b.pair \in Pairs /\ b.chain \in Chains
  BY DEF TypeOK, Bindings
<1>2. Bound => /\ forward' \in [Pairs -> Chains \cup {None}]
               /\ reverse' \in [Chains -> Pairs \cup {None, Pending}]
  BY <1>1 DEF Bound, TypeOK, FolderTypeOK
<1>3. /\ forward' \in [Pairs -> Chains \cup {None}]
      /\ reverse' \in [Chains -> Pairs \cup {None, Pending}]
  BY <1>2 DEF BindAll, TxError, indexVars, TypeOK, FolderTypeOK
<1>4. pc' = "plan" => \A p \in PairsOf(call.batch) : forward'[p] # None
  <2> SUFFICES ASSUME pc' = "plan", NEW p \in PairsOf(call.batch) PROVE forward'[p] # None
    OBVIOUS
  <2>1. p \in Pairs
    BY CallFields, PairsOfType DEF TypeOK
  <2>2. Bound
    BY DEF BindAll, ReturnWith
  <2>3. forward[p] # None \/ \E b \in fresh : b.pair = p
    BY DEF BatchBound, BindAll
  <2> QED BY <1>1, <2>1, <2>2, <2>3 DEF Bound
<1>5. call' \in Calls
  BY CallUpdates DEF BindAll, TxError, ReturnWith, Outcomes, TypeOK
<1>6. faults' \in Nat /\ backup' \in Backups
  BY FaultType DEF BindAll, TxError, TypeOK
<1>7. BatchBound'
  BY <1>4 DEF BindAll, ReturnWith, BatchBound
<1> QED BY <1>3, <1>5, <1>6, <1>7 DEF BindAll, ReturnWith, sigVars, pageVars,
        TypeOK, FolderTypeOK, PlanShape, CurSet

LEMMA PlanType == ASSUME TypeInv, PlanCommit PROVE TypeInv'
<1> USE FolderAssumption DEF TypeInv
<1>1. call.batch \in Seq(Records) /\ Len(call.batch) \in Nat
  BY CallFields DEF TypeOK
<1>2. Planned(call.batch) \subseteq Entries
  BY <1>1, PlannedType DEF PlanCommit, BatchBound, TypeOK
<1>3. plan' \subseteq Entries /\ nextId' \in Nat
  BY <1>1, <1>2 DEF PlanCommit, TypeOK
<1>4. PlanShape'
  <2>1. \A e \in Planned(call.batch) : e.type = "event" /\ e.commits.about # None
    <3>1. \A i \in DOMAIN call.batch : call.batch[i] \in Records
      BY <1>1
    <3>2. \A i \in DOMAIN call.batch : ContentOf(call.batch[i]).about \in Pairs
      BY <3>1 DEF ContentOf, Content, Records
    <3>3. ASSUME NEW e \in Planned(call.batch)
          PROVE  \E i \in DOMAIN call.batch : e.type = "event" /\ e.commits = ContentOf(call.batch[i])
      BY PlannedShape
    <3> QED BY <3>2, <3>3
  <2> QED BY <2>1 DEF PlanCommit, PlanShape
<1>5. call' \in Calls
  BY CallUpdates DEF PlanCommit, ReturnWith, Outcomes, TypeOK
<1>6. faults' \in Nat /\ backup' \in Backups
  BY FaultType DEF PlanCommit, TypeOK
<1> QED BY <1>3, <1>4, <1>5, <1>6 DEF PlanCommit, ReturnWith, folderVars, indexVars, sigVars, pageVars,
        TypeOK, FolderTypeOK, BatchBound, CurSet

LEMMA ForgetRelinkedType == ASSUME TypeInv, ForgetRelinked PROVE TypeInv'
<1> USE FolderAssumption DEF TypeInv
<1>1. ASSUME NEW c \in RelinkedRows, ChainForgotten(c)
      PROVE  /\ forward' \in [Pairs -> Chains \cup {None}]
             /\ reverse' \in [Chains -> Pairs \cup {None, Pending}]
             /\ residue' \in [Rewritten -> SUBSET Pairs]
  <2>1. c \in Chains /\ reverse[c] \in Pairs
    BY DEF RelinkedRows, Live
  <2>2. Freed("subjects", {reverse[c]}) /\ "subjects" \in Rewritten
    BY <1>1 DEF ChainForgotten, Rewritten
  <2> QED BY <1>1, <2>1, <2>2, FreedType DEF ChainForgotten, TypeOK, FolderTypeOK
<1>2. /\ forward' \in [Pairs -> Chains \cup {None}]
      /\ reverse' \in [Chains -> Pairs \cup {None, Pending}]
      /\ residue' \in [Rewritten -> SUBSET Pairs]
  BY <1>1 DEF ForgetRelinked, TxError, indexVars, TypeOK, FolderTypeOK
<1>3. call' \in Calls
  BY CallUpdates DEF ForgetRelinked, TxError, ReturnWith, Outcomes, TypeOK
<1>4. faults' \in Nat /\ backup' \in Backups
  BY FaultType DEF ForgetRelinked, TxError, TypeOK
<1>5. pc' \in {"presign", "return", "relinked"}
  BY DEF ForgetRelinked, ReturnWith
<1>6. UNCHANGED <<evidence, secrets, sources, sigVars, temps, plan, fresh, nextId, gone>>
  BY DEF ForgetRelinked
<1> QED BY <1>2, <1>3, <1>4, <1>5, <1>6 DEF sigVars, TypeOK, FolderTypeOK, BatchBound, PlanShape, CurSet

LEMMA PresignType == ASSUME TypeInv, Presign PROVE TypeInv'
<1> USE FolderAssumption DEF TypeInv
<1>1. ASSUME NEW c \in Chains, NeedsErasure(c)
      PROVE  /\ ErasureEntry(c, nextId) \in Entries
             /\ ErasureEntry(c, nextId).type = "erasure"
             /\ ErasureEntry(c, nextId).commits.about = None /\ ErasureEntry(c, nextId).origin = None
  <2>1. TailSeq(c) \in Nat
    BY <1>1, TailSeqType DEF NeedsErasure, TypeOK, FolderTypeOK
  <2> QED BY <2>1 DEF ErasureEntry, ErasureRecord, Entries, Values, TypeOK
<1>2. PendingRows \subseteq Chains /\ ChainsOf(call.who) \subseteq Chains
  BY CallFields DEF PendingRows, ChainsOf, TypeOK, FolderTypeOK
<1>3. \A e \in plan' : e \in plan \/ \E c \in Chains : NeedsErasure(c) /\ e = ErasureEntry(c, nextId)
  BY <1>2 DEF Presign
<1>4. plan' \subseteq Entries
  BY <1>1, <1>3 DEF TypeOK
<1>5. PlanShape'
  BY <1>1, <1>3 DEF PlanShape
<1>6. call' \in Calls
  BY <1>2, CallUpdates DEF Presign, ReturnWith, Outcomes, TypeOK
<1>7. faults' \in Nat /\ backup' \in Backups
  BY FaultType DEF Presign, TypeOK
<1>8. nextId' \in Nat /\ pc' \in {"return", "nextChain", "forget"} /\ UNCHANGED <<folderVars, fresh, gone>>
  BY DEF Presign, ReturnWith, TypeOK
<1> QED BY <1>4, <1>5, <1>6, <1>7, <1>8 DEF folderVars, indexVars, sigVars, pageVars,
        TypeOK, FolderTypeOK, BatchBound, CurSet

LEMMA CommitStepType == ASSUME TypeInv, CommitStep PROVE TypeInv'
<1> USE FolderAssumption
<1>1. CASE PutSecrets
  <2>1. secrets' \subseteq SecretRows
    BY <1>1, RowTypes DEF PutSecrets, TxError, indexVars, sigVars, pageVars, TypeInv, TypeOK,
        FolderTypeOK
  <2>2. call' \in Calls
    BY <1>1, CallUpdates DEF PutSecrets, TxError, TypeInv, TypeOK
  <2>3. faults' \in Nat /\ backup' \in Backups
    BY <1>1, FaultType DEF PutSecrets, TxError, TypeInv, TypeOK
  <2> QED BY <1>1, <2>1, <2>2, <2>3 DEF PutSecrets, TxError, indexVars, sigVars, pageVars, TypeInv,
      TypeOK, FolderTypeOK, BatchBound, PlanShape, CurSet
<1>2. CASE PutSigs
  <2>1. sigs' \subseteq SigRows /\ signing' \in BOOLEAN
    <3>1. {SigRow(e) : e \in plan} \subseteq SigRows
      BY RowTypes DEF TypeInv, TypeOK
    <3>2. sigs \subseteq SigRows /\ signing \in BOOLEAN
      BY DEF TypeInv, TypeOK, FolderTypeOK
    <3>3. \/ sigs' = sigs \cup {SigRow(e) : e \in plan} /\ signing' = TRUE
          \/ sigs' = sigs /\ signing' = signing
      BY <1>2 DEF PutSigs, TxError, sigVars
    <3> QED BY <3>1, <3>2, <3>3
  <2>2. call' \in Calls
    BY <1>2, CallUpdates DEF PutSigs, TxError, TypeInv, TypeOK
  <2>3. faults' \in Nat /\ backup' \in Backups
    BY <1>2, FaultType DEF PutSigs, TxError, TypeInv, TypeOK
  <2> QED BY <1>2, <2>1, <2>2, <2>3 DEF PutSigs, TxError, indexVars, sigVars, pageVars, TypeInv, TypeOK,
      FolderTypeOK, BatchBound, PlanShape, CurSet
<1>3. CASE PutSources
  <2>1. Positions(plan) \subseteq PositionRows
    BY RowTypes DEF Positions, Entries, TypeInv, TypeOK, FolderTypeOK, PlanShape
  <2>2. ReplacedBy(Positions(plan)) \subseteq sources
    BY DEF ReplacedBy, TypeInv, TypeOK, FolderTypeOK, PlanShape
  <2>3. sources' \subseteq PositionRows
    BY <1>3, <2>1, <2>2 DEF PutSources, TxError, indexVars, sigVars, TypeInv, TypeOK,
        FolderTypeOK, PlanShape
  <2>4. residue' \in [Rewritten -> SUBSET Pairs]
    BY <1>3, <2>1, <2>2, <2>3, AboutType, FreedType DEF PutSources, TxError, Rewritten,
        indexVars, sigVars, TypeInv, TypeOK, FolderTypeOK, PlanShape
  <2>5. call' \in Calls
    BY <1>3, CallUpdates DEF PutSources, TxError, TypeInv, TypeOK
  <2>6. faults' \in Nat /\ backup' \in Backups
    BY <1>3, FaultType DEF PutSources, TxError, TypeInv, TypeOK
  <2> QED BY <1>3, <2>1, <2>2, <2>3, <2>4, <2>5, <2>6 DEF PutSources, TxError, indexVars, sigVars,
      TypeInv, TypeOK, FolderTypeOK, BatchBound, PlanShape, CurSet
<1>4. CASE AppendChains
  <2>1. evidence' \subseteq Entries
    BY <1>4 DEF AppendChains, TxError, indexVars, sigVars, pageVars, TypeInv, TypeOK,
        FolderTypeOK
  <2>2. call' \in Calls
    BY <1>4, CallUpdates DEF AppendChains, TxError, ReturnWith, Outcomes, TypeInv, TypeOK
  <2>3. faults' \in Nat /\ backup' \in Backups
    BY <1>4, FaultType DEF AppendChains, TxError, TypeInv, TypeOK
  <2> QED BY <1>4, <2>1, <2>2, <2>3 DEF AppendChains, TxError, ReturnWith, indexVars, sigVars, pageVars,
      TypeInv, TypeOK, FolderTypeOK, BatchBound, PlanShape, CurSet
<1>5. CASE CleanSecrets
  <2>1. SecretsAt(Keys(plan)) \subseteq secrets
    BY DEF SecretsAt, TypeInv, TypeOK, FolderTypeOK, PlanShape
  <2>2. secrets' \subseteq SecretRows
    BY <1>5, <2>1 DEF CleanSecrets, TxError, indexVars, sigVars, TypeInv, TypeOK, FolderTypeOK
  <2>3. residue' \in [Rewritten -> SUBSET Pairs]
    BY <1>5, <2>1, <2>2, AboutType, FreedType DEF CleanSecrets, TxError, Rewritten, indexVars,
        sigVars, TypeInv, TypeOK, FolderTypeOK
  <2>4. call' \in Calls
    BY <1>5, CallUpdates DEF CleanSecrets, TxError, TypeInv, TypeOK
  <2>5. faults' \in Nat /\ backup' \in Backups
    BY <1>5, FaultType DEF CleanSecrets, TxError, TypeInv, TypeOK
  <2> QED BY <1>5, <2>1, <2>2, <2>3, <2>4, <2>5 DEF CleanSecrets, TxError, indexVars, sigVars, TypeInv,
      TypeOK, FolderTypeOK, BatchBound, PlanShape, CurSet
<1>6. CASE CleanSigs
  <2>1. sigs' \subseteq SigRows
    BY <1>6 DEF CleanSigs, TxError, indexVars, pageVars, TypeInv, TypeOK, FolderTypeOK
  <2>2. call' \in Calls
    BY <1>6, CallUpdates DEF CleanSigs, TxError, TypeInv, TypeOK
  <2>3. faults' \in Nat /\ backup' \in Backups
    BY <1>6, FaultType DEF CleanSigs, TxError, TypeInv, TypeOK
  <2> QED BY <1>6, <2>1, <2>2, <2>3 DEF CleanSigs, TxError, indexVars, pageVars, TypeInv, TypeOK,
      FolderTypeOK, BatchBound, PlanShape, CurSet
<1>7. CASE CleanSources
  <2>1. sources' \subseteq PositionRows
    BY <1>7 DEF CleanSources, TxError, indexVars, sigVars, TypeInv, TypeOK, FolderTypeOK
  <2>2. residue' \in [Rewritten -> SUBSET Pairs]
    BY <1>7, <2>1, AboutType, FreedType DEF CleanSources, TxError, Rewritten, indexVars,
        sigVars, TypeInv, TypeOK, FolderTypeOK
  <2>3. call' \in Calls
    BY <1>7, CallUpdates DEF CleanSources, TxError, ReturnWith, Outcomes, TypeInv, TypeOK
  <2>4. faults' \in Nat /\ backup' \in Backups
    BY <1>7, FaultType DEF CleanSources, TxError, TypeInv, TypeOK
  <2> QED BY <1>7, <2>1, <2>2, <2>3, <2>4 DEF CleanSources, TxError, ReturnWith, indexVars, sigVars,
      TypeInv, TypeOK, FolderTypeOK, BatchBound, PlanShape, CurSet
<1>8. CASE ForgetSources
  <2>1. sources' \subseteq PositionRows
    BY <1>8 DEF ForgetSources, TxError, indexVars, sigVars, TypeInv, TypeOK, FolderTypeOK
  <2>2. residue' \in [Rewritten -> SUBSET Pairs]
    BY <1>8, <2>1, AboutType, FreedType DEF ForgetSources, TxError, Rewritten, indexVars,
        sigVars, TypeInv, TypeOK, FolderTypeOK
  <2>3. call' \in Calls
    BY <1>8, CallUpdates DEF ForgetSources, TxError, ReturnWith, Outcomes, TypeInv, TypeOK
  <2>4. faults' \in Nat /\ backup' \in Backups
    BY <1>8, FaultType DEF ForgetSources, TxError, TypeInv, TypeOK
  <2> QED BY <1>8, <2>1, <2>2, <2>3, <2>4 DEF ForgetSources, TxError, ReturnWith, indexVars, sigVars,
      TypeInv, TypeOK, FolderTypeOK, BatchBound, PlanShape, CurSet
<1>9. CASE UnbindAll
  <2>1. forward' \in [Pairs -> Chains \cup {None}]
    BY <1>9 DEF UnbindAll, TxError, Unbound, indexVars, sigVars, TypeInv, TypeOK, FolderTypeOK
  <2>2. reverse' \in [Chains -> Pairs \cup {None, Pending}]
    BY <1>9, <2>1 DEF UnbindAll, TxError, Unbound, indexVars, sigVars, TypeInv, TypeOK,
        FolderTypeOK
  <2>3. {b.pair : b \in fresh} \subseteq Pairs
    <3>1. \A b \in fresh : b.pair \in Pairs
      BY DEF TypeInv, TypeOK, Bindings
    <3> QED BY <3>1
  <2>4. residue' \in [Rewritten -> SUBSET Pairs]
    BY <1>9, <2>1, <2>2, <2>3, FreedType DEF UnbindAll, TxError, Unbound, Rewritten, indexVars,
        sigVars, TypeInv, TypeOK, FolderTypeOK
  <2>5. call' \in Calls
    BY <1>9, CallUpdates DEF UnbindAll, TxError, ReturnWith, Outcomes, TypeInv, TypeOK
  <2>6. faults' \in Nat /\ backup' \in Backups
    BY <1>9, FaultType DEF UnbindAll, TxError, TypeInv, TypeOK
  <2> QED BY <1>9, <2>1, <2>2, <2>3, <2>4, <2>5, <2>6 DEF UnbindAll, TxError, ReturnWith, indexVars,
      sigVars, TypeInv, TypeOK, FolderTypeOK, BatchBound, PlanShape, CurSet
<1> QED BY <1>1, <1>2, <1>3, <1>4, <1>5, <1>6, <1>7, <1>8, <1>9, BindType, PlanType DEF CommitStep

LEMMA EraseStepType == ASSUME TypeInv, EraseStep PROVE TypeInv'
<1> USE FolderAssumption
<1>1. CASE Forget
  <2>1. forward' \in [Pairs -> Chains \cup {None}]
    BY <1>1 DEF Forget, TxError, Forgotten, indexVars, sigVars, TypeInv, TypeOK, FolderTypeOK
  <2>2. reverse' \in [Chains -> Pairs \cup {None, Pending}]
    BY <1>1, <2>1 DEF Forget, TxError, Forgotten, indexVars, sigVars, TypeInv, TypeOK,
        FolderTypeOK
  <2>3. {p \in call.who : forward[p] # None} \subseteq Pairs
    BY CallFields DEF Forget, TypeInv, TypeOK, FolderTypeOK, PlanShape
  <2>4. residue' \in [Rewritten -> SUBSET Pairs]
    BY <1>1, <2>1, <2>2, <2>3, FreedType DEF Forget, TxError, Forgotten, Rewritten, indexVars,
        sigVars, TypeInv, TypeOK, FolderTypeOK
  <2>5. call' \in Calls
    <3>1. call.todo \cup ChainsOf(call.who) \in SUBSET Chains
      BY CallFields DEF ChainsOf, TypeInv, TypeOK, FolderTypeOK
    <3>2. [call EXCEPT !.todo = @ \cup ChainsOf(call.who)] \in Calls
      BY <3>1, CallUpdates DEF TypeInv, TypeOK
    <3> QED BY <1>1, <3>2, CallUpdates DEF Forget, TxError, ReturnWith, Outcomes, TypeInv, TypeOK
  <2>6. faults' \in Nat /\ backup' \in Backups
    BY <1>1, FaultType DEF Forget, TxError, TypeInv, TypeOK
  <2> QED BY <1>1, <2>1, <2>2, <2>3, <2>4, <2>5, <2>6 DEF Forget, TxError, ReturnWith, indexVars,
      sigVars, TypeInv, TypeOK, FolderTypeOK, BatchBound, PlanShape, CurSet
<1>2. CASE NextChain
  <2>1. call' \in Calls
    <3>1. ASSUME NEW c \in call.todo
          PROVE  LET taken == [call EXCEPT !.todo = @ \ {c}, !.cur = c]
                 IN  taken \in Calls /\ [taken EXCEPT !.clean = FALSE] \in Calls
      <4>1. call.todo \ {c} \in SUBSET Chains /\ c \in Chains
        BY CallFields DEF TypeInv, TypeOK
      <4> QED BY <4>1, CallUpdates DEF TypeInv, TypeOK
    <3> QED BY <1>2, <3>1, CallUpdates DEF NextChain, TypeInv, TypeOK
  <2>2. faults' \in Nat /\ backup' \in Backups
    BY <1>2, FaultType DEF NextChain, TypeInv, TypeOK
  <2>3. CurSet'
    <3>1. ASSUME NEW c \in call.todo PROVE [call EXCEPT !.todo = @ \ {c}, !.cur = c].cur # None
      BY CallFields, CallFrame DEF TypeInv, TypeOK
    <3> QED BY <1>2, <3>1 DEF NextChain, CurSet
  <2> QED BY <1>2, <2>1, <2>2, <2>3 DEF NextChain, folderVars, indexVars, sigVars, pageVars, TypeInv,
      TypeOK, FolderTypeOK, BatchBound, PlanShape
<1>3. CASE PutErasureRecord
  <2>1. secrets' \subseteq SecretRows
    BY <1>3, RowTypes DEF PutErasureRecord, TxError, Presigned, indexVars, sigVars, pageVars,
        TypeInv, TypeOK, FolderTypeOK
  <2>2. call' \in Calls
    BY <1>3, CallUpdates DEF PutErasureRecord, TxError, StaysPending, TypeInv, TypeOK
  <2>3. faults' \in Nat /\ backup' \in Backups
    BY <1>3, FaultType DEF PutErasureRecord, TxError, TypeInv, TypeOK
  <2> QED BY <1>3, <2>1, <2>2, <2>3 DEF PutErasureRecord, TxError, StaysPending, indexVars, sigVars,
      pageVars, TypeInv, TypeOK, FolderTypeOK, BatchBound, PlanShape, CurSet
<1>4. CASE PutErasureSig
  <2>1. sigs' \subseteq SigRows /\ signing' \in BOOLEAN
    <3>1. {SigRow(e) : e \in Presigned} \subseteq SigRows
      <4>1. Presigned \subseteq Entries
        BY DEF Presigned, TypeInv, TypeOK
      <4> QED BY <4>1, RowTypes
    <3>2. sigs \subseteq SigRows /\ signing \in BOOLEAN
      BY DEF TypeInv, TypeOK, FolderTypeOK
    <3>3. \/ sigs' = sigs \cup {SigRow(e) : e \in Presigned} /\ signing' = TRUE
          \/ sigs' = sigs /\ signing' = signing
      BY <1>4 DEF PutErasureSig, TxError, sigVars
    <3> QED BY <3>1, <3>2, <3>3
  <2>2. call' \in Calls
    BY <1>4, CallUpdates DEF PutErasureSig, TxError, TypeInv, TypeOK
  <2>3. faults' \in Nat /\ backup' \in Backups
    BY <1>4, FaultType DEF PutErasureSig, TxError, TypeInv, TypeOK
  <2> QED BY <1>4, <2>1, <2>2, <2>3 DEF PutErasureSig, TxError, indexVars, sigVars, pageVars, TypeInv,
      TypeOK, FolderTypeOK, BatchBound, PlanShape, CurSet
<1>5. CASE AppendErasure
  <2>1. evidence' \subseteq Entries
    BY <1>5 DEF AppendErasure, TxError, Presigned, indexVars, sigVars, pageVars, TypeInv,
        TypeOK, FolderTypeOK
  <2>2. call' \in Calls
    BY <1>5, CallUpdates DEF AppendErasure, TxError, StaysPending, TypeInv, TypeOK
  <2>3. faults' \in Nat /\ backup' \in Backups
    BY <1>5, FaultType DEF AppendErasure, TxError, TypeInv, TypeOK
  <2> QED BY <1>5, <2>1, <2>2, <2>3 DEF AppendErasure, TxError, StaysPending, indexVars, sigVars,
      pageVars, TypeInv, TypeOK, FolderTypeOK, BatchBound, PlanShape, CurSet
<1>6. CASE UndoRecord
  <2>1. secrets' \subseteq SecretRows
    BY <1>6 DEF UndoRecord, TxError, indexVars, sigVars, pageVars, TypeInv, TypeOK, FolderTypeOK
  <2>2. call' \in Calls
    BY <1>6, CallUpdates DEF UndoRecord, TxError, StaysPending, TypeInv, TypeOK
  <2>3. faults' \in Nat /\ backup' \in Backups
    BY <1>6, FaultType DEF UndoRecord, TxError, TypeInv, TypeOK
  <2> QED BY <1>6, <2>1, <2>2, <2>3 DEF UndoRecord, TxError, StaysPending, indexVars, sigVars, pageVars,
      TypeInv, TypeOK, FolderTypeOK, BatchBound, PlanShape, CurSet
<1>7. CASE UndoSig
  <2>1. sigs' \subseteq SigRows
    BY <1>7 DEF UndoSig, TxError, indexVars, pageVars, TypeInv, TypeOK, FolderTypeOK
  <2>2. call' \in Calls
    BY <1>7, CallUpdates DEF UndoSig, TxError, StaysPending, TypeInv, TypeOK
  <2>3. faults' \in Nat /\ backup' \in Backups
    BY <1>7, FaultType DEF UndoSig, TxError, TypeInv, TypeOK
  <2> QED BY <1>7, <2>1, <2>2, <2>3 DEF UndoSig, TxError, StaysPending, indexVars, pageVars, TypeInv,
      TypeOK, FolderTypeOK, BatchBound, PlanShape, CurSet
<1>8. CASE EraseSecrets
  <2>1. secrets' \subseteq SecretRows
    BY <1>8, RowTypes DEF EraseSecrets, TxError, EntriesOf, indexVars, sigVars, TypeInv, TypeOK,
        FolderTypeOK
  <2>2. residue' \in [Rewritten -> SUBSET Pairs]
    BY <1>8, <2>1, AboutType, FreedType DEF EraseSecrets, TxError, Rewritten, indexVars,
        sigVars, TypeInv, TypeOK, FolderTypeOK
  <2>3. call' \in Calls
    BY <1>8, CallUpdates DEF EraseSecrets, TxError, StaysPending, TypeInv, TypeOK
  <2>4. faults' \in Nat /\ backup' \in Backups
    BY <1>8, FaultType DEF EraseSecrets, TxError, TypeInv, TypeOK
  <2> QED BY <1>8, <2>1, <2>2, <2>3, <2>4 DEF EraseSecrets, TxError, StaysPending, indexVars, sigVars,
      TypeInv, TypeOK, FolderTypeOK, BatchBound, PlanShape, CurSet
<1>9. CASE LeftSecrets
  <2>1. secrets' \subseteq SecretRows
    BY <1>9 DEF LeftSecrets, TxError, indexVars, sigVars, TypeInv, TypeOK, FolderTypeOK
  <2>2. residue' \in [Rewritten -> SUBSET Pairs]
    BY <1>9, <2>1, AboutType, FreedType DEF LeftSecrets, TxError, Rewritten, indexVars, sigVars,
        TypeInv, TypeOK, FolderTypeOK
  <2>3. call' \in Calls
    BY <1>9, CallUpdates DEF LeftSecrets, TxError, StaysPending, TypeInv, TypeOK
  <2>4. faults' \in Nat /\ backup' \in Backups
    BY <1>9, FaultType DEF LeftSecrets, TxError, TypeInv, TypeOK
  <2> QED BY <1>9, <2>1, <2>2, <2>3, <2>4 DEF LeftSecrets, TxError, StaysPending, indexVars, sigVars,
      TypeInv, TypeOK, FolderTypeOK, BatchBound, PlanShape, CurSet
<1>10. CASE EraseSources
  <2>1. sources' \subseteq PositionRows
    BY <1>10 DEF EraseSources, TxError, indexVars, sigVars, TypeInv, TypeOK, FolderTypeOK
  <2>2. residue' \in [Rewritten -> SUBSET Pairs]
    BY <1>10, <2>1, AboutType, FreedType DEF EraseSources, TxError, Rewritten, indexVars,
        sigVars, TypeInv, TypeOK, FolderTypeOK
  <2>3. call' \in Calls
    <3>1. [call EXCEPT !.erased = @ \cup {call.cur}] \in Calls
      <4>1. call.erased \cup {call.cur} \in SUBSET Chains
        BY <1>10, CallFields DEF EraseSources, CurSet, TypeInv, TypeOK
      <4> QED BY <4>1, CallUpdates DEF TypeInv, TypeOK
    <3> QED BY <1>10, <3>1, CallUpdates DEF EraseSources, TxError, StaysPending, TypeInv, TypeOK
  <2>4. faults' \in Nat /\ backup' \in Backups
    BY <1>10, FaultType DEF EraseSources, TxError, TypeInv, TypeOK
  <2> QED BY <1>10, <2>1, <2>2, <2>3, <2>4 DEF EraseSources, TxError, StaysPending, indexVars, sigVars,
      TypeInv, TypeOK, FolderTypeOK, BatchBound, PlanShape, CurSet
<1>11. CASE LeftSigs
  <2>1. sigs' \subseteq SigRows
    BY <1>11 DEF LeftSigs, TxError, indexVars, pageVars, TypeInv, TypeOK, FolderTypeOK
  <2>2. call' \in Calls
    <3>1. [call EXCEPT !.erased = @ \cup {call.cur}] \in Calls
      <4>1. call.erased \cup {call.cur} \in SUBSET Chains
        BY <1>11, CallFields DEF LeftSigs, CurSet, TypeInv, TypeOK
      <4> QED BY <4>1, CallUpdates DEF TypeInv, TypeOK
    <3> QED BY <1>11, <3>1, CallUpdates DEF LeftSigs, TxError, StaysPending, TypeInv, TypeOK
  <2>3. faults' \in Nat /\ backup' \in Backups
    BY <1>11, FaultType DEF LeftSigs, TxError, TypeInv, TypeOK
  <2> QED BY <1>11, <2>1, <2>2, <2>3 DEF LeftSigs, TxError, StaysPending, indexVars, pageVars, TypeInv,
      TypeOK, FolderTypeOK, BatchBound, PlanShape, CurSet
<1>12. CASE ClearErased
  <2>1. reverse' \in [Chains -> Pairs \cup {None, Pending}]
    BY <1>12 DEF ClearErased, TxError, sigVars, pageVars, TypeInv, TypeOK, FolderTypeOK
  <2>2. call' \in Calls
    <3>1. ASSUME NEW c \in call.erased PROVE [call EXCEPT !.erased = @ \ {c}] \in Calls
      <4>1. call.erased \ {c} \in SUBSET Chains
        BY CallFields DEF TypeInv, TypeOK
      <4> QED BY <4>1, CallUpdates DEF TypeInv, TypeOK
    <3> QED BY <1>12, <3>1, CallUpdates DEF ClearErased, TxError, TypeInv, TypeOK
  <2>3. faults' \in Nat /\ backup' \in Backups
    BY <1>12, FaultType DEF ClearErased, TxError, TypeInv, TypeOK
  <2> QED BY <1>12, <2>1, <2>2, <2>3 DEF ClearErased, TxError, sigVars, pageVars, TypeInv, TypeOK,
      FolderTypeOK, BatchBound, PlanShape, CurSet
<1> QED BY <1>1, <1>2, <1>3, <1>4, <1>5, <1>6, <1>7, <1>8, <1>9, <1>10, <1>11, <1>12, ForgetRelinkedType, PresignType, RewriteStepType DEF EraseStep

LEMMA RepairStepType == ASSUME TypeInv, RepairStep PROVE TypeInv'
<1> USE FolderAssumption
<1>1. CASE RepairChain
  <2>1. call' \in Calls
    <3>1. ASSUME NEW c \in call.todo, NEW d \in {c, None}
          PROVE  [call EXCEPT !.todo = @ \ {c}, !.cur = d] \in Calls
      <4>1. call.todo \ {c} \in SUBSET Chains /\ d \in Chains \cup {None}
        BY CallFields DEF TypeInv, TypeOK
      <4> QED BY <4>1, CallUpdates DEF TypeInv, TypeOK
    <3> QED BY <1>1, <3>1, CallUpdates DEF RepairChain, RepairFails, TypeInv, TypeOK
  <2>2. faults' \in Nat /\ backup' \in Backups
    BY <1>1, FaultType DEF RepairChain, TypeInv, TypeOK
  <2> QED BY <1>1, <2>1, <2>2 DEF RepairChain, RepairFails, folderVars, indexVars, sigVars, pageVars,
      TypeInv, TypeOK, FolderTypeOK, BatchBound, PlanShape, CurSet
<1>2. CASE FixSecrets
  <2>1. secrets' \subseteq SecretRows
    BY <1>2 DEF FixSecrets, TxError, indexVars, sigVars, TypeInv, TypeOK, FolderTypeOK
  <2>2. UnmatchedSecrets(call.cur) \subseteq secrets
    BY DEF UnmatchedSecrets, TypeInv, TypeOK, FolderTypeOK, PlanShape
  <2>3. residue' \in [Rewritten -> SUBSET Pairs]
    BY <1>2, <2>1, <2>2, AboutType, FreedType DEF FixSecrets, TxError, Rewritten, indexVars,
        sigVars, TypeInv, TypeOK, FolderTypeOK
  <2>4. call' \in Calls
    BY <1>2, CallUpdates DEF FixSecrets, TxError, RepairFails, TypeInv, TypeOK
  <2>5. faults' \in Nat /\ backup' \in Backups
    BY <1>2, FaultType DEF FixSecrets, TxError, TypeInv, TypeOK
  <2> QED BY <1>2, <2>1, <2>2, <2>3, <2>4, <2>5 DEF FixSecrets, TxError, RepairFails, indexVars,
      sigVars, TypeInv, TypeOK, FolderTypeOK, BatchBound, PlanShape, CurSet
<1>3. CASE FixSources
  <2>1. sources' \subseteq PositionRows
    BY <1>3 DEF FixSources, TxError, indexVars, sigVars, TypeInv, TypeOK, FolderTypeOK
  <2>2. DanglingSources(call.cur) \subseteq sources
    BY DEF DanglingSources, TypeInv, TypeOK, FolderTypeOK, PlanShape
  <2>3. residue' \in [Rewritten -> SUBSET Pairs]
    BY <1>3, <2>1, <2>2, AboutType, FreedType DEF FixSources, TxError, Rewritten, indexVars,
        sigVars, TypeInv, TypeOK, FolderTypeOK
  <2>4. call' \in Calls
    BY <1>3, CallUpdates DEF FixSources, TxError, RepairFails, TypeInv, TypeOK
  <2>5. faults' \in Nat /\ backup' \in Backups
    BY <1>3, FaultType DEF FixSources, TxError, TypeInv, TypeOK
  <2> QED BY <1>3, <2>1, <2>2, <2>3, <2>4, <2>5 DEF FixSources, TxError, RepairFails, indexVars,
      sigVars, TypeInv, TypeOK, FolderTypeOK, BatchBound, PlanShape, CurSet
<1>4. CASE FixSigs
  <2>1. sigs' \subseteq SigRows
    BY <1>4 DEF FixSigs, TxError, indexVars, pageVars, TypeInv, TypeOK, FolderTypeOK
  <2>2. call' \in Calls
    BY <1>4, CallUpdates DEF FixSigs, TxError, RepairFails, TypeInv, TypeOK
  <2>3. faults' \in Nat /\ backup' \in Backups
    BY <1>4, FaultType DEF FixSigs, TxError, TypeInv, TypeOK
  <2> QED BY <1>4, <2>1, <2>2, <2>3 DEF FixSigs, TxError, RepairFails, indexVars, pageVars, TypeInv,
      TypeOK, FolderTypeOK, BatchBound, PlanShape, CurSet
<1> QED BY <1>1, <1>2, <1>3, <1>4 DEF RepairStep

\* A step changes no type.
LEMMA TypeNext == ASSUME TypeInv, [Next]_vars PROVE TypeInv'
<1>1. CASE UNCHANGED vars
  BY <1>1 DEF vars, folderVars, indexVars, sigVars, pageVars, envVars, callVars,
      TypeInv, TypeOK, FolderTypeOK, BatchBound, PlanShape, CurSet
<1> QED BY <1>1, IdleType, EnvironmentType, CommitStepType, EraseStepType, RepairStepType,
        RewriteStepType DEF Next, CallStep

\* In every reachable state the files hold rows of their types and the call's
\* registers are well formed: in particular no erasure entry is ever planned for a
\* chain with no entries (presignErasures), and every pair a commit works on has
\* its index row by the time it is planned (resolvePair, bindAll).
THEOREM TypeCorrect == Spec => []TypeOK
<1>1. TypeInv => TypeOK
  BY DEF TypeInv
<1> QED BY <1>1, TypeInit, TypeNext, PTL DEF Spec

-----------------------------------------------------------------------------
(* Committed entries open: the inductive invariant *)

\* Entry ids on the chains and in the plan were drawn.
IdsDrawn ==
    /\ \A d \in evidence : d.id < nextId
    /\ \A e \in plan : e.id < nextId

\* Until the call returns, a planned entry shares its id at most with an erasure:
\* cleaning up and undoing by entry id never touch a committed record.
FreshIds == pc # "return" => \A e \in plan, d \in evidence : e.id = d.id => d.type = "erasure"

\* Content is stored before the entries that commit to it are appended.
ContentFirst ==
    pc \in {"putSigs", "putSources", "append"} => \A e \in plan : SecretRow(e) \in secrets

\* What an erasure plans are erasures.
ErasurePlan ==
    pc \in {"forget", "nextChain", "putRecord", "putRecordSig", "appendErasure", "undoRecord", "undoSig",
            "eraseSecrets", "leftSecrets", "eraseSources", "leftSigs"} =>
        \A e \in plan : e.type = "erasure"

\* The chain being erased has its erasure entry ready ...
ErasureReady == pc \in {"putRecord", "putRecordSig", "appendErasure"} => Presigned # {}

\* ... and loses its content only when that entry stands, or when it has no entry.
ErasedFirst ==
    /\ pc = "eraseSecrets" => Erased(call.cur)
    /\ pc = "leftSecrets" => EntriesOf(call.cur) = {}

OpensInv ==
    /\ IdsDrawn /\ FreshIds /\ ContentFirst
    /\ ErasurePlan /\ ErasureReady /\ ErasedFirst /\ CommittedOpens

-----------------------------------------------------------------------------
(* Steps that change neither entries nor contents *)

CommitPcs == {"putSigs", "putSources", "append"}
ReadyPcs  == {"putRecord", "putRecordSig", "appendErasure"}
ErasePcs  == {"forget", "nextChain", "putRecord", "putRecordSig", "appendErasure", "undoRecord", "undoSig",
              "eraseSecrets", "leftSecrets", "eraseSources", "leftSigs"}

\* The planned erasure of the current chain depends on the entries, the plan and the chain.
LEMMA PresignedFrame ==
    ASSUME UNCHANGED <<evidence, plan>>, call'.cur = call.cur
    PROVE  Presigned' = Presigned
BY DEF Presigned, TailSeq, IsTail, EntriesOf

\* A step that changes neither entries nor contents and draws no id keeps the
\* invariant, if pc enters no new phase.
LEMMA OpensFrame ==
    ASSUME OpensInv, pc # "return", UNCHANGED <<evidence, secrets, nextId>>,
           plan' \in {plan, {}},
           pc' \in CommitPcs => pc \in CommitPcs,
           pc' \in ErasePcs => pc \in ErasePcs \/ plan' = {}
    PROVE  /\ IdsDrawn' /\ FreshIds' /\ ContentFirst' /\ ErasurePlan' /\ CommittedOpens'
           /\ /\ pc' \in ReadyPcs => pc \in ReadyPcs /\ plan' = plan /\ call'.cur = call.cur
              /\ pc' \notin {"eraseSecrets", "leftSecrets"}
              => OpensInv'
<1>1. IdsDrawn' /\ FreshIds'
  BY DEF OpensInv, IdsDrawn, FreshIds
<1>2. ContentFirst'
  BY DEF OpensInv, ContentFirst, CommitPcs, SecretRow
<1>3. ErasurePlan'
  BY DEF OpensInv, ErasurePlan, ErasePcs
<1>4. CommittedOpens'
  BY DEF OpensInv, CommittedOpens, SecretRow, Erased, EntriesOf
<1>5. ASSUME pc' \in ReadyPcs => pc \in ReadyPcs /\ plan' = plan /\ call'.cur = call.cur,
             pc' \notin {"eraseSecrets", "leftSecrets"}
      PROVE  ErasureReady' /\ ErasedFirst'
  BY <1>5, PresignedFrame DEF OpensInv, ErasureReady, ErasedFirst, ReadyPcs
<1> QED BY <1>1, <1>2, <1>3, <1>4, <1>5 DEF OpensInv

\* Binding, signatures, positions, and the cleanup of both.
LEMMA OpensQuietCommit ==
    ASSUME TypeInv, OpensInv,
           BindAll \/ PutSigs \/ PutSources \/ CleanSigs \/ CleanSources \/ ForgetSources \/ UnbindAll
    PROVE  OpensInv'
<1>1. UNCHANGED <<evidence, secrets, nextId, plan>>
  BY DEF BindAll, PutSigs, PutSources, CleanSigs, CleanSources, ForgetSources, UnbindAll
<1>2. /\ pc \in {"bind", "putSigs", "putSources", "cleanSigs", "cleanSources", "forgetSources", "unbind"}
      /\ pc' \in CommitPcs => pc \in CommitPcs
      /\ pc' \in {"plan", "return", "putSources", "append", "cleanSecrets", "cleanSources", "forgetSources", "unbind"}
  BY DEF BindAll, PutSigs, PutSources, CleanSigs, CleanSources, ForgetSources, UnbindAll, ReturnWith, CommitPcs
<1> QED BY <1>1, <1>2, OpensFrame DEF CommitPcs, ErasePcs, ReadyPcs

\* The steps of an erasure outside the evidence and secrets files.
LEMMA OpensQuietErase ==
    ASSUME TypeInv, OpensInv,
           ForgetRelinked \/ Forget \/ PutErasureSig \/ UndoSig \/ EraseSources \/ LeftSigs \/ ClearErased
    PROVE  OpensInv'
<1>1. UNCHANGED <<evidence, secrets, nextId, plan>>
  BY DEF ForgetRelinked, Forget, PutErasureSig, UndoSig, EraseSources, LeftSigs, ClearErased
<1>2. /\ pc \in {"relinked", "forget", "putRecordSig", "undoSig", "eraseSources", "leftSigs", "clear"}
      /\ pc' \in {"relinked", "presign", "return", "nextChain", "appendErasure", "undoRecord", "leftSigs",
                  "clear", "rewriteAgain", "finish"}
      /\ pc' \in ErasePcs => pc \in ErasePcs
      /\ pc' \in ReadyPcs => pc \in ReadyPcs /\ call' = call
  BY DEF ForgetRelinked, Forget, PutErasureSig, UndoSig, EraseSources, LeftSigs, ClearErased,
      ReturnWith, StaysPending, ErasePcs, ReadyPcs
<1> QED BY <1>1, <1>2, OpensFrame DEF CommitPcs, ErasePcs, ReadyPcs

\* Rewrites, calls, crashes, backups, and the repair of positions and signatures.
LEMMA OpensQuietRest ==
    ASSUME TypeInv, OpensInv,
           \/ RewriteStep \/ RewriteAgain \/ RepairChain \/ FixSources \/ FixSigs
           \/ CommitCall \/ EraseCall \/ ResumeCall \/ RepairStart \/ RequireRecordSigning
           \/ Crash \/ TakeBackup \/ RestoreIndex
    PROVE  OpensInv'
<1>1. ASSUME NEW f, NEW at, NEW next, Rewrite(f, at, next), at \notin CommitPcs \cup ErasePcs \cup {"return"},
             next \notin CommitPcs \cup ErasePcs
      PROVE  OpensInv'
  <2>1. UNCHANGED <<evidence, secrets, nextId>> /\ plan' \in {plan, {}} /\ pc = at /\ pc' \in {next, "idle"}
    BY <1>1 DEF Rewrite
  <2> QED BY <1>1, <2>1, OpensFrame DEF CommitPcs, ErasePcs, ReadyPcs
<1>2. CASE RewriteSecrets \/ RewriteSources \/ RewriteSubjects \/ RewriteAgain
  BY <1>1, <1>2 DEF RewriteSecrets, RewriteSources, RewriteSubjects, RewriteAgain, CommitPcs, ErasePcs
<1>3. CASE RewriteSigs \/ Finish \/ RepairChain \/ FixSources \/ FixSigs
  <2>1. UNCHANGED <<evidence, secrets, nextId, plan>>
    BY <1>3 DEF RewriteSigs, Finish, RepairChain, FixSources, FixSigs, folderVars
  <2>2. /\ pc \in {"rewriteSigs", "finish", "scan", "fixSources", "fixSigs"}
        /\ pc' \in {"clear", "finish", "return", "scan", "fixSecrets", "fixSigs", "rewriteSecrets"}
    BY <1>3 DEF RewriteSigs, Finish, RepairChain, FixSources, FixSigs, ReturnWith, RepairFails
  <2> QED BY <2>1, <2>2, OpensFrame DEF CommitPcs, ErasePcs, ReadyPcs
<1>4. CASE CommitCall \/ EraseCall \/ ResumeCall \/ RepairStart \/ RequireRecordSigning \/ TakeBackup \/ RestoreIndex
  <2>1. UNCHANGED <<evidence, secrets, nextId, plan>> /\ pc = "idle"
    BY <1>4 DEF CommitCall, CommitStart, EraseCall, ResumeCall, EraseStart, RepairStart,
        RequireRecordSigning, TakeBackup, RestoreIndex, folderVars, callVars
  <2>2. pc' \in {"return", "plan", "bind", "relinked", "presign", "scan", "idle"}
    BY <1>4 DEF CommitCall, CommitStart, EraseCall, ResumeCall, EraseStart, RepairStart,
        RequireRecordSigning, TakeBackup, RestoreIndex, callVars
  <2> QED BY <2>1, <2>2, OpensFrame DEF CommitPcs, ErasePcs, ReadyPcs
<1>5. CASE Crash
  BY <1>5, OpensFrame DEF Crash, folderVars, CommitPcs, ErasePcs, ReadyPcs
<1> QED BY <1>2, <1>3, <1>4, <1>5 DEF RewriteStep

-----------------------------------------------------------------------------
(* Steps of a commit *)

\* A commit's plan draws ids no chain has.
LEMMA OpensPlan == ASSUME TypeInv, OpensInv, PlanCommit PROVE OpensInv'
<1>1. UNCHANGED <<evidence, secrets>> /\ pc = "plan"
      /\ pc' \in {"forgetSources", "return", "putSecrets"}
  BY DEF PlanCommit, ReturnWith, folderVars
<1>2. CASE plan' = plan /\ nextId' = nextId
  BY <1>1, <1>2, OpensFrame DEF CommitPcs, ErasePcs, ReadyPcs
<1>3. CASE plan' = Planned(call.batch) /\ nextId' = nextId + Len(call.batch)
  <2>1. call.batch \in Seq(Records) /\ nextId \in Nat /\ evidence \subseteq Entries /\ Len(call.batch) \in Nat
    BY CallFields DEF TypeInv, TypeOK, FolderTypeOK
  <2>2. \A e \in plan' : nextId <= e.id /\ e.id < nextId'
    <3>1. ASSUME NEW e \in Planned(call.batch) PROVE nextId <= e.id /\ e.id < nextId + Len(call.batch)
      <4>1. PICK i \in DOMAIN call.batch : e.id = nextId + i - 1
        BY PlannedShape
      <4>2. i \in 1..Len(call.batch)
        BY <2>1
      <4> QED BY <2>1, <4>1, <4>2
    <3> QED BY <1>3, <3>1
  <2>3. \A d \in evidence : d.id \in Nat /\ d.id < nextId
    BY <2>1 DEF OpensInv, IdsDrawn, Entries
  <2>4. IdsDrawn' /\ FreshIds'
    <3>1. \A d \in evidence' : d.id < nextId'
      BY <1>1, <1>3, <2>1, <2>3
    <3>2. \A e \in plan', d \in evidence' : e.id # d.id
      BY <1>1, <2>1, <2>2, <2>3
    <3> QED BY <2>2, <3>1, <3>2 DEF IdsDrawn, FreshIds
  <2>5. CommittedOpens'
    BY <1>1 DEF OpensInv, CommittedOpens, SecretRow, Erased, EntriesOf
  <2> QED BY <1>1, <2>4, <2>5 DEF OpensInv, ContentFirst, ErasurePlan, ErasureReady, ErasedFirst
<1> QED BY <1>2, <1>3 DEF PlanCommit

\* Storing content, of records or of an erasure, only adds rows.
LEMMA OpensPut == ASSUME TypeInv, OpensInv, PutSecrets \/ PutErasureRecord PROVE OpensInv'
<1>1. UNCHANGED <<evidence, plan, nextId>> /\ secrets \subseteq secrets' /\ pc # "return"
  BY DEF PutSecrets, PutErasureRecord, TxError
<1>2. IdsDrawn' /\ FreshIds'
  BY <1>1 DEF OpensInv, IdsDrawn, FreshIds
<1>3. CommittedOpens'
  BY <1>1 DEF OpensInv, CommittedOpens, SecretRow, Erased, EntriesOf
<1>4. CASE PutSecrets
  <2>1. ContentFirst'
    BY <1>1, <1>4 DEF PutSecrets, ContentFirst, SecretRow
  <2>2. pc' \in {"putSigs", "putSources", "forgetSources"}
    BY <1>4 DEF PutSecrets
  <2> QED BY <1>2, <1>3, <2>1, <2>2 DEF OpensInv, ErasurePlan, ErasureReady, ErasedFirst
<1>5. CASE PutErasureRecord
  <2>1. pc = "putRecord" /\ pc' \in {"putRecordSig", "appendErasure", "nextChain"}
        /\ (pc' # "nextChain" => call' = call)
    BY <1>5 DEF PutErasureRecord, StaysPending
  <2>2. ErasureReady'
    BY <1>1, <2>1, PresignedFrame DEF OpensInv, ErasureReady
  <2> QED BY <1>1, <1>2, <1>3, <2>1, <2>2 DEF OpensInv, ContentFirst, ErasurePlan, ErasedFirst
<1> QED BY <1>4, <1>5

\* The entries appended have their content stored.
LEMMA OpensAppend == ASSUME TypeInv, OpensInv, AppendChains PROVE OpensInv'
<1>1. UNCHANGED <<secrets, plan, nextId>> /\ pc = "append"
      /\ (evidence' = evidence \/ (evidence' = evidence \cup plan /\ pc' = "return"))
      /\ pc' \in {"return", "cleanSecrets"}
  BY DEF AppendChains, TxError, ReturnWith
<1>2. CASE evidence' = evidence
  BY <1>1, <1>2, OpensFrame DEF CommitPcs, ErasePcs, ReadyPcs
<1>3. CASE evidence' = evidence \cup plan /\ pc' = "return"
  <2>1. \A e \in plan : SecretRow(e) \in secrets
    BY <1>1 DEF OpensInv, ContentFirst
  <2>2. CommittedOpens'
    BY <1>1, <1>3, <2>1 DEF OpensInv, CommittedOpens, SecretRow, Erased, EntriesOf
  <2>3. IdsDrawn'
    BY <1>1, <1>3 DEF OpensInv, IdsDrawn
  <2> QED BY <1>3, <2>2, <2>3 DEF OpensInv, FreshIds, ContentFirst, ErasurePlan, ErasureReady, ErasedFirst
<1> QED BY <1>1, <1>2, <1>3

\* Deleting by the ids of the plan keeps every record's content.
LEMMA OpensDeleteByPlan ==
    ASSUME OpensInv, pc # "return", UNCHANGED <<evidence, plan, nextId>>,
           NEW ks, ks \subseteq Keys(plan), secrets \ SecretsAt(ks) \subseteq secrets',
           pc' \notin CommitPcs, pc' \in ErasePcs => pc \in ErasePcs,
           pc' \notin ReadyPcs \cup {"eraseSecrets", "leftSecrets"}
    PROVE  OpensInv'
<1>1. IdsDrawn' /\ FreshIds'
  BY DEF OpensInv, IdsDrawn, FreshIds
<1>2. CommittedOpens'
  <2> SUFFICES ASSUME NEW d \in evidence, d.type = "event", ~Erased(d.chain)
               PROVE  SecretRow(d) \in secrets'
    BY DEF CommittedOpens, SecretRow, Erased, EntriesOf
  <2>1. SecretRow(d) \in secrets
    BY DEF OpensInv, CommittedOpens
  <2>2. SecretRow(d) \notin SecretsAt(ks)
    <3>1. SUFFICES ASSUME SecretRow(d) \in SecretsAt(ks) PROVE FALSE
      OBVIOUS
    <3>2. [chain |-> d.chain, id |-> d.id] \in Keys(plan)
      BY <3>1 DEF SecretsAt, SecretRow
    <3>3. PICK e \in plan : [chain |-> d.chain, id |-> d.id] = [chain |-> e.chain, id |-> e.id]
      BY <3>2 DEF Keys
    <3>4. e.id = d.id
      BY <3>3
    <3> QED BY <3>4 DEF OpensInv, FreshIds
  <2> QED BY <2>1, <2>2
<1> QED BY <1>1, <1>2 DEF OpensInv, ContentFirst, ErasurePlan, ErasureReady, ErasedFirst,
        CommitPcs, ErasePcs, ReadyPcs

\* A failed commit's cleanup and a failed erasure's undo delete by the ids of the plan.
LEMMA OpensClean == ASSUME TypeInv, OpensInv, CleanSecrets \/ UndoRecord PROVE OpensInv'
<1>1. CASE CleanSecrets
  <2>1. /\ UNCHANGED <<evidence, plan, nextId>> /\ pc = "cleanSecrets"
        /\ secrets \ SecretsAt(Keys(plan)) \subseteq secrets'
        /\ pc' \in {"cleanSigs", "cleanSources"}
    BY <1>1 DEF CleanSecrets, TxError
  <2> QED BY <2>1, OpensDeleteByPlan DEF CommitPcs, ErasePcs, ReadyPcs
<1>2. CASE UndoRecord
  <2>1. /\ UNCHANGED <<evidence, plan, nextId>> /\ pc = "undoRecord"
        /\ secrets \ SecretsAt(Keys(Presigned)) \subseteq secrets'
        /\ pc' \in {"undoSig", "nextChain"}
    BY <1>2 DEF UndoRecord, TxError, StaysPending
  <2>2. Keys(Presigned) \subseteq Keys(plan)
    BY DEF Keys, Presigned
  <2> QED BY <2>1, <2>2, OpensDeleteByPlan DEF CommitPcs, ErasePcs, ReadyPcs
<1> QED BY <1>1, <1>2

-----------------------------------------------------------------------------
(* Steps of an erasure and of a repair *)

\* Presigning draws one id for all erasure entries of the call.
LEMMA OpensPresign == ASSUME TypeInv, OpensInv, Presign PROVE OpensInv'
<1>1. UNCHANGED <<evidence, secrets>> /\ pc = "presign" /\ pc' \in {"return", "nextChain", "forget"}
  BY DEF Presign, ReturnWith, folderVars
<1>2. CASE plan' = plan /\ nextId' = nextId /\ pc' = "return"
  BY <1>1, <1>2, OpensFrame DEF CommitPcs, ErasePcs, ReadyPcs
<1>3. CASE nextId' = nextId + (IF {c \in PendingRows \cup ChainsOf(call.who) : NeedsErasure(c)} = {} THEN 0 ELSE 1)
           /\ \A e \in plan' : \E c \in {c \in PendingRows \cup ChainsOf(call.who) : NeedsErasure(c)} :
                                   e = ErasureEntry(c, nextId)
  <2>1. nextId \in Nat /\ \A d \in evidence : d.id \in Nat /\ d.id < nextId
    BY DEF TypeInv, TypeOK, FolderTypeOK, Entries, OpensInv, IdsDrawn
  <2>2. \A e \in plan' : e.id = nextId /\ e.type = "erasure" /\ nextId' = nextId + 1
    BY <1>3 DEF ErasureEntry
  <2>3. nextId' \in {nextId, nextId + 1}
    BY <1>3, <2>1
  <2>4. IdsDrawn' /\ FreshIds'
    <3>1. \A d \in evidence' : d.id < nextId'
      BY <1>1, <2>1, <2>3
    <3>2. \A e \in plan' : e.id < nextId'
      BY <2>1, <2>2
    <3>3. \A e \in plan', d \in evidence' : e.id # d.id
      BY <1>1, <2>1, <2>2
    <3> QED BY <3>1, <3>2, <3>3 DEF IdsDrawn, FreshIds
  <2>5. CommittedOpens'
    BY <1>1 DEF OpensInv, CommittedOpens, SecretRow, Erased, EntriesOf
  <2> QED BY <1>1, <2>2, <2>4, <2>5 DEF OpensInv, ContentFirst, ErasurePlan, ErasureReady, ErasedFirst
<1> QED BY <1>2, <1>3 DEF Presign, ReturnWith

\* The next chain of an erasure ends in its erasure entry, has no entry, or gets one.
LEMMA OpensNextChain == ASSUME TypeInv, OpensInv, NextChain PROVE OpensInv'
<1>1. /\ UNCHANGED <<evidence, secrets, nextId, plan>> /\ pc = "nextChain"
      /\ pc' \in {"rewriteSecrets", "nextChain", "leftSecrets", "eraseSecrets", "putRecord"}
  BY DEF NextChain, folderVars
<1>2. IdsDrawn' /\ FreshIds' /\ ContentFirst' /\ ErasurePlan' /\ CommittedOpens'
  BY <1>1, OpensFrame DEF CommitPcs, ErasePcs
<1>3. ASSUME NEW c \in call.todo PROVE [call EXCEPT !.todo = @ \ {c}, !.cur = c].cur = c
  BY CallFrame DEF TypeInv, TypeOK
<1>4. ErasedFirst'
  <2>1. pc' = "eraseSecrets" => EndsWithGenuineErasure(call'.cur)
    BY <1>1, <1>3 DEF NextChain
  <2>2. pc' = "leftSecrets" => EntriesOf(call'.cur) = {}
    BY <1>1, <1>3 DEF NextChain
  <2>3. EndsWithGenuineErasure(call'.cur) => \E e \in evidence : e.chain = call'.cur /\ e.type = "erasure"
    BY DEF EndsWithGenuineErasure, EntriesOf, Genuine
  <2> QED BY <1>1, <2>1, <2>2, <2>3 DEF ErasedFirst, Erased, EntriesOf
<1>5. ErasureReady'
  <2>1. pc' = "putRecord" => \E e \in plan : e.chain = call'.cur /\ e.seq = TailSeq(call'.cur) + 1
    BY <1>1, <1>3 DEF NextChain
  <2>2. pc' = "putRecord" => \E e \in plan' : e.chain = call'.cur /\ e.seq = TailSeq(call.cur)' + 1
    BY <1>1, <2>1 DEF TailSeq, IsTail, EntriesOf
  <2> QED BY <1>1, <2>2 DEF ErasureReady, Presigned
<1> QED BY <1>2, <1>4, <1>5 DEF OpensInv

\* The erasure entry is appended before the chain loses its content.
LEMMA OpensAppendErasure == ASSUME TypeInv, OpensInv, AppendErasure PROVE OpensInv'
<1>1. /\ UNCHANGED <<secrets, plan, nextId>> /\ pc = "appendErasure"
      /\ evidence' \in {evidence, evidence \cup Presigned}
      /\ pc' \in {"eraseSecrets", "nextChain", "undoRecord"}
      /\ pc' = "eraseSecrets" => evidence' = evidence \cup Presigned /\ call' = call
  BY DEF AppendErasure, TxError, StaysPending
<1>2. Presigned \subseteq plan /\ \A e \in Presigned : e.chain = call.cur /\ e.type = "erasure"
  BY <1>1 DEF Presigned, OpensInv, ErasurePlan
<1>3. IdsDrawn' /\ FreshIds'
  BY <1>1, <1>2 DEF OpensInv, IdsDrawn, FreshIds
<1>4. CommittedOpens'
  BY <1>1, <1>2 DEF OpensInv, CommittedOpens, SecretRow, Erased, EntriesOf
<1>5. ErasedFirst'
  <2>1. \E e \in Presigned : e.chain = call.cur /\ e.type = "erasure"
    BY <1>1, <1>2 DEF OpensInv, ErasureReady
  <2> QED BY <1>1, <2>1 DEF ErasedFirst, Erased, EntriesOf
<1> QED BY <1>1, <1>3, <1>4, <1>5 DEF OpensInv, ContentFirst, ErasurePlan, ErasureReady

\* Deleting the rows of a chain that has an erasure entry, or no entry, keeps the
\* contents of every other.
LEMMA OpensErase == ASSUME TypeInv, OpensInv, EraseSecrets \/ LeftSecrets PROVE OpensInv'
<1>1. /\ UNCHANGED <<evidence, plan, nextId>> /\ pc \in {"eraseSecrets", "leftSecrets"}
      /\ pc' \in {"eraseSources", "nextChain"}
      /\ {r \in secrets : r.chain # call.cur} \subseteq secrets'
  BY DEF EraseSecrets, LeftSecrets, TxError, StaysPending
<1>2. IdsDrawn' /\ FreshIds'
  BY <1>1 DEF OpensInv, IdsDrawn, FreshIds
<1>3. CommittedOpens'
  <2> SUFFICES ASSUME NEW d \in evidence, d.type = "event", ~Erased(d.chain)
               PROVE  SecretRow(d) \in secrets'
    BY <1>1 DEF CommittedOpens, SecretRow, Erased, EntriesOf
  <2>1. SecretRow(d) \in secrets
    BY DEF OpensInv, CommittedOpens
  <2>2. d.chain # call.cur
    BY <1>1 DEF OpensInv, ErasedFirst, EntriesOf
  <2>3. SecretRow(d).chain = d.chain
    BY DEF SecretRow
  <2> QED BY <1>1, <2>1, <2>2, <2>3
<1> QED BY <1>1, <1>2, <1>3 DEF OpensInv, ContentFirst, ErasurePlan, ErasureReady, ErasedFirst

\* A repair deletes content without an entry.
LEMMA OpensRepair == ASSUME TypeInv, OpensInv, FixSecrets PROVE OpensInv'
<1>1. /\ UNCHANGED <<evidence, plan, nextId>> /\ pc = "fixSecrets"
      /\ pc' \in {"fixSources", "rewriteSecrets"}
      /\ secrets \ UnmatchedSecrets(call.cur) \subseteq secrets'
  BY DEF FixSecrets, TxError, RepairFails
<1>2. IdsDrawn' /\ FreshIds'
  BY <1>1 DEF OpensInv, IdsDrawn, FreshIds
<1>3. CommittedOpens'
  <2> SUFFICES ASSUME NEW d \in evidence, d.type = "event", ~Erased(d.chain)
               PROVE  SecretRow(d) \in secrets'
    BY <1>1 DEF CommittedOpens, SecretRow, Erased, EntriesOf
  <2>1. SecretRow(d) \in secrets
    BY DEF OpensInv, CommittedOpens
  <2>2. IsEntry(SecretRow(d))
    BY DEF IsEntry, SecretRow
  <2> QED BY <1>1, <2>1, <2>2 DEF UnmatchedSecrets
<1> QED BY <1>1, <1>2, <1>3 DEF OpensInv, ContentFirst, ErasurePlan, ErasureReady, ErasedFirst

-----------------------------------------------------------------------------

\* A return drops the plan.
LEMMA OpensReturn == ASSUME OpensInv, Return PROVE OpensInv'
<1>1. UNCHANGED <<evidence, secrets, nextId>> /\ plan' = {} /\ pc' = "idle"
  BY DEF Return, folderVars
<1> QED BY <1>1 DEF OpensInv, IdsDrawn, FreshIds, ContentFirst, ErasurePlan, ErasureReady, ErasedFirst,
        CommittedOpens, SecretRow, Erased, EntriesOf

\* Every step keeps the invariant.
LEMMA OpensNext == ASSUME TypeInv, OpensInv, [Next]_vars PROVE OpensInv'
<1>1. CASE UNCHANGED vars
  BY <1>1, PresignedFrame DEF vars, folderVars, callVars, OpensInv, IdsDrawn, FreshIds, ContentFirst, ErasurePlan,
      ErasureReady, ErasedFirst, CommittedOpens, SecretRow, Erased, EntriesOf
<1>2. CASE CommitStep
  BY <1>2, OpensQuietCommit, OpensPlan, OpensPut, OpensAppend, OpensClean DEF CommitStep
<1>3. CASE EraseStep
  BY <1>3, OpensQuietErase, OpensPresign, OpensNextChain, OpensPut, OpensAppendErasure, OpensClean,
      OpensErase, OpensQuietRest DEF EraseStep
<1>4. CASE RepairStep
  BY <1>4, OpensQuietRest, OpensRepair DEF RepairStep
<1>5. CASE RewriteStep \/ Return
  BY <1>5, OpensQuietRest, OpensReturn
<1> QED BY <1>1, <1>2, <1>3, <1>4, <1>5, OpensQuietRest DEF Next, CallStep

LEMMA OpensInit == Init => OpensInv
BY DEF Init, FolderInit, CallInit, OpensInv, IdsDrawn, FreshIds, ContentFirst, ErasurePlan, ErasureReady,
    ErasedFirst, CommittedOpens

\* Whatever fails or crashes, in every file and at every step, an event entry on a
\* chain without an erasure has its content and nonce stored (commitPairs,
\* eraseChain, Repair).
THEOREM CommittedOpensAlways == Spec => []CommittedOpens
<1>1. Init => OpensInv
  BY OpensInit
<1>2. TypeInv /\ OpensInv /\ [Next]_vars => TypeInv' /\ OpensInv'
  BY TypeNext, OpensNext
<1>3. OpensInv => CommittedOpens
  BY DEF OpensInv
<1> QED BY <1>1, <1>2, <1>3, TypeInit, PTL DEF Spec

=============================================================================
