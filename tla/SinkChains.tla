----------------------------- MODULE SinkChains -----------------------------
(***************************************************************************)
(* What a sink folder promises, whatever fails: no chain has two owners,   *)
(* an erasure ends its chain, and an acknowledged record is on its chain   *)
(* once, with its content and its signature; and a failed commit or an     *)
(* erasure leaves nothing behind.                                          *)
(***************************************************************************)
EXTENDS SinkProofs, WellFoundedInduction, NaturalsInduction

-----------------------------------------------------------------------------
(* The index: its two halves agree *)

Agree(f, r) ==
    /\ \A p \in Pairs : f[p] # None => r[f[p]] = p
    /\ \A c \in Chains : r[c] \in Pairs => f[r[c]] = c

\* Bindings about to be written are for pairs and chains without a row, and distinct.
FreshRows ==
    /\ pc = "bind" => \A b \in fresh : forward[b.pair] = None /\ reverse[b.chain] = None
    /\ \A a, b \in fresh : a.pair = b.pair \/ a.chain = b.chain => a = b

\* The copy that may be put back agrees too.
IndexInv == Agree(forward, reverse) /\ Agree(backup.forward, backup.reverse) /\ FreshRows

LEMMA IndexFrame ==
    ASSUME IndexInv, UNCHANGED <<forward, reverse, backup>>, fresh' \in {fresh, {}}, pc' # "bind"
    PROVE  IndexInv'
BY DEF IndexInv, FreshRows, Agree

\* The steps that leave the index, its copy and the bindings alone.
LEMMA IndexQuietCommit ==
    ASSUME IndexInv, \/ PlanCommit \/ PutSecrets \/ PutSigs \/ PutSources \/ AppendChains
                     \/ CleanSecrets \/ CleanSigs \/ CleanSources \/ ForgetSources
    PROVE  IndexInv'
<1>1. UNCHANGED <<forward, reverse, backup, fresh>>
  BY DEF PlanCommit, PutSecrets, PutSigs, PutSources, AppendChains, CleanSecrets, CleanSigs, CleanSources,
      ForgetSources, TxError, NoFault, Fault, envVars, folderVars, indexVars
<1>2. pc' # "bind"
  BY DEF PlanCommit, PutSecrets, PutSigs, PutSources, AppendChains, CleanSecrets, CleanSigs, CleanSources,
      ForgetSources, ReturnWith
<1> QED BY <1>1, <1>2, IndexFrame

LEMMA IndexQuietErase ==
    ASSUME IndexInv, \/ Presign \/ NextChain \/ PutErasureRecord \/ PutErasureSig \/ AppendErasure
                     \/ UndoRecord \/ UndoSig \/ EraseSecrets \/ LeftSecrets \/ EraseSources \/ LeftSigs
    PROVE  IndexInv'
<1>1. UNCHANGED <<forward, reverse, backup, fresh>>
  BY DEF Presign, NextChain, PutErasureRecord, PutErasureSig, AppendErasure, UndoRecord, UndoSig, EraseSecrets,
      LeftSecrets, EraseSources, LeftSigs, TxError, NoFault, Fault, envVars, folderVars, indexVars
<1>2. pc' # "bind"
  BY DEF Presign, NextChain, PutErasureRecord, PutErasureSig, AppendErasure, UndoRecord, UndoSig, EraseSecrets,
      LeftSecrets, EraseSources, LeftSigs, ReturnWith, StaysPending
<1> QED BY <1>1, <1>2, IndexFrame

LEMMA IndexQuietRest ==
    ASSUME IndexInv, \/ RepairStep \/ RewriteStep \/ RewriteAgain \/ EraseCall \/ ResumeCall \/ RepairStart
                     \/ RequireRecordSigning \/ Return \/ Crash
    PROVE  IndexInv'
<1>1. ASSUME NEW f, NEW at, NEW next, Rewrite(f, at, next), next # "bind" PROVE IndexInv'
  <2>1. UNCHANGED <<forward, reverse, backup, fresh>> /\ pc' # "bind"
    BY <1>1 DEF Rewrite, RewriteOK, RewriteError, RewriteCrash, NoFault, Fault, envVars, indexVars
  <2> QED BY <2>1, IndexFrame
<1>2. CASE RewriteSecrets \/ RewriteSources \/ RewriteSubjects \/ RewriteAgain
  BY <1>1, <1>2 DEF RewriteSecrets, RewriteSources, RewriteSubjects, RewriteAgain
<1>3. CASE RepairStep \/ RewriteSigs \/ Finish
  <2>1. UNCHANGED <<forward, reverse, backup, fresh>>
    BY <1>3 DEF RepairStep, RepairChain, FixSecrets, FixSources, FixSigs, RewriteSigs, Finish,
        TxError, NoFault, Fault, envVars, folderVars, indexVars
  <2>2. pc' # "bind"
    BY <1>3 DEF RepairStep, RepairChain, FixSecrets, FixSources, FixSigs, RewriteSigs, Finish,
        RepairFails, ReturnWith
  <2> QED BY <2>1, <2>2, IndexFrame
<1>4. CASE EraseCall \/ ResumeCall \/ RepairStart \/ RequireRecordSigning \/ Return \/ Crash
  <2>1. UNCHANGED <<forward, reverse, backup>> /\ fresh' \in {fresh, {}}
    BY <1>4 DEF EraseCall, ResumeCall, EraseStart, RepairStart, RequireRecordSigning, Return, Crash,
        NoFault, Fault, envVars, folderVars, indexVars, callVars
  <2>2. pc' # "bind"
    BY <1>4 DEF EraseCall, ResumeCall, EraseStart, RepairStart, RequireRecordSigning, Return, Crash, callVars
  <2> QED BY <2>1, <2>2, IndexFrame
<1> QED BY <1>2, <1>3, <1>4 DEF RewriteStep

\* resolvePair draws chains no row names, one for each pair without a row.
LEMMA FreshBindingsUnused ==
    ASSUME NEW b, NEW new \in FreshBindings(b)
    PROVE  /\ \A x \in new : forward[x.pair] = None /\ Unused(x.chain)
           /\ \A x, y \in new : x.pair = y.pair \/ x.chain = y.chain => x = y
<1> DEFINE need == {p \in PairsOf(b) : forward[p] = None}
<1>1. PICK f \in [need -> {c \in Chains : Unused(c)}] :
             /\ \A p, q \in need : f[p] = f[q] => p = q
             /\ new = {[pair |-> p, chain |-> f[p]] : p \in need}
  BY DEF FreshBindings
<1>2. \A x \in new : x.pair \in need /\ x.chain = f[x.pair] /\ x = [pair |-> x.pair, chain |-> f[x.pair]]
  BY <1>1
<1>3. \A x \in new : forward[x.pair] = None /\ Unused(x.chain)
  BY <1>1, <1>2
<1>4. ASSUME NEW x \in new, NEW y \in new, x.pair = y.pair \/ x.chain = y.chain PROVE x = y
  <2>1. x.pair = y.pair
    BY <1>1, <1>2, <1>4
  <2> QED BY <1>2, <2>1
<1> QED BY <1>3, <1>4

LEMMA IndexCommitCall == ASSUME IndexInv, CommitCall PROVE IndexInv'
<1>1. PICK b \in Batches, s \in SignerConfigs : CommitStart(b, s)
  BY DEF CommitCall
<1>2. UNCHANGED <<forward, reverse, backup>>
  BY <1>1 DEF CommitStart, NoFault, envVars, folderVars, indexVars
<1>3. CASE fresh' = fresh /\ pc' = "return"
  BY <1>2, <1>3, IndexFrame
<1>4. CASE fresh' \in FreshBindings(b)
  BY <1>2, <1>4, FreshBindingsUnused DEF IndexInv, FreshRows, Agree, Unused
<1> QED BY <1>1, <1>3, <1>4 DEF CommitStart

LEMMA IndexBind == ASSUME TypeInv, IndexInv, BindAll PROVE IndexInv'
<1> USE FolderAssumption
<1>1. pc = "bind" /\ UNCHANGED <<backup, fresh>> /\ pc' # "bind"
  BY DEF BindAll, TxError, NoFault, Fault, envVars, ReturnWith
<1>2. CASE UNCHANGED <<forward, reverse>>
  BY <1>1, <1>2, IndexFrame
<1>3. CASE Bound
  <2>1. \A b \in fresh : b.pair \in Pairs /\ b.chain \in Chains
    BY DEF TypeInv, TypeOK, Bindings
  <2>2. /\ forward \in [Pairs -> Chains \cup {None}]
        /\ reverse \in [Chains -> Pairs \cup {None, Pending}]
    BY DEF TypeInv, TypeOK, FolderTypeOK
  <2>3. \A b \in fresh : forward'[b.pair] = b.chain /\ reverse'[b.chain] = b.pair
    BY <1>3, <2>1 DEF Bound, IndexInv, FreshRows
  <2>4. /\ \A p \in Pairs : (\E b \in fresh : b.pair = p) \/ forward'[p] = forward[p]
        /\ \A c \in Chains : (\E b \in fresh : b.chain = c) \/ reverse'[c] = reverse[c]
    BY <1>3 DEF Bound
  <2>5. ASSUME NEW p \in Pairs, forward'[p] # None PROVE reverse'[forward'[p]] = p
    <3>1. CASE \E b \in fresh : b.pair = p
      BY <2>3, <3>1
    <3>2. CASE ~ \E b \in fresh : b.pair = p
      <4>1. forward'[p] = forward[p] /\ forward[p] \in Chains /\ reverse[forward[p]] = p
        BY <2>2, <2>4, <2>5, <3>2 DEF IndexInv, Agree
      <4>2. ~ \E b \in fresh : b.chain = forward[p]
        BY <1>1, <4>1 DEF IndexInv, FreshRows
      <4> QED BY <2>4, <4>1, <4>2
    <3> QED BY <3>1, <3>2
  <2>6. ASSUME NEW c \in Chains, reverse'[c] \in Pairs PROVE forward'[reverse'[c]] = c
    <3>1. CASE \E b \in fresh : b.chain = c
      BY <2>3, <3>1
    <3>2. CASE ~ \E b \in fresh : b.chain = c
      <4>1. reverse'[c] = reverse[c] /\ forward[reverse[c]] = c /\ reverse[c] \in Pairs
        BY <2>4, <2>6, <3>2 DEF IndexInv, Agree
      <4>2. ~ \E b \in fresh : b.pair = reverse[c]
        BY <1>1, <4>1 DEF IndexInv, FreshRows
      <4> QED BY <2>4, <4>1, <4>2
    <3> QED BY <3>1, <3>2
  <2> QED BY <1>1, <2>5, <2>6 DEF IndexInv, Agree, FreshRows
<1> QED BY <1>2, <1>3 DEF BindAll, TxError, indexVars

LEMMA IndexUnbind == ASSUME TypeInv, IndexInv, UnbindAll PROVE IndexInv'
<1> USE FolderAssumption
<1>1. UNCHANGED <<backup, fresh>> /\ pc' # "bind"
  BY DEF UnbindAll, TxError, NoFault, Fault, envVars, ReturnWith
<1>2. CASE UNCHANGED <<forward, reverse>>
  BY <1>1, <1>2, IndexFrame
<1>3. CASE Unbound
  <2>1. /\ forward \in [Pairs -> Chains \cup {None}]
        /\ reverse \in [Chains -> Pairs \cup {None, Pending}]
    BY DEF TypeInv, TypeOK, FolderTypeOK
  <2>2. /\ \A p \in Pairs : forward'[p] = IF [pair |-> p, chain |-> forward[p]] \in fresh THEN None ELSE forward[p]
        /\ \A c \in Chains : reverse'[c] = IF [pair |-> reverse[c], chain |-> c] \in fresh THEN None ELSE reverse[c]
    BY <1>3 DEF Unbound
  <2>3. ASSUME NEW p \in Pairs, forward'[p] # None PROVE reverse'[forward'[p]] = p
    <3>1. forward'[p] = forward[p] /\ [pair |-> p, chain |-> forward[p]] \notin fresh
      BY <2>2, <2>3
    <3>2. forward[p] \in Chains /\ reverse[forward[p]] = p
      BY <2>1, <2>3, <3>1 DEF IndexInv, Agree
    <3> QED BY <2>2, <3>1, <3>2
  <2>4. ASSUME NEW c \in Chains, reverse'[c] \in Pairs PROVE forward'[reverse'[c]] = c
    <3>1. reverse'[c] = reverse[c] /\ [pair |-> reverse[c], chain |-> c] \notin fresh
      BY <2>2, <2>4
    <3>2. reverse[c] \in Pairs /\ forward[reverse[c]] = c
      BY <2>4, <3>1 DEF IndexInv, Agree
    <3> QED BY <2>2, <3>1, <3>2
  <2> QED BY <1>1, <2>3, <2>4 DEF IndexInv, Agree, FreshRows
<1> QED BY <1>2, <1>3 DEF UnbindAll, TxError, indexVars

\* Forgetting makes every chain of the forgotten pairs pending, and only those.
LEMMA IndexForget == ASSUME TypeInv, IndexInv, ForgetRelinked \/ Forget \/ ClearErased PROVE IndexInv'
<1> USE FolderAssumption
<1>1. UNCHANGED <<backup, fresh>> /\ pc' # "bind"
  BY DEF ForgetRelinked, Forget, ClearErased, TxError, NoFault, Fault, envVars, ReturnWith
<1>2. /\ forward \in [Pairs -> Chains \cup {None}]
      /\ reverse \in [Chains -> Pairs \cup {None, Pending}]
      /\ call.who \subseteq Pairs /\ call.erased \subseteq Chains
  BY CallFields DEF TypeInv, TypeOK, FolderTypeOK
<1>3. CASE UNCHANGED <<forward, reverse>>
  BY <1>1, <1>3, IndexFrame
<1>4. ASSUME NEW c \in RelinkedRows, ChainForgotten(c) PROVE Agree(forward', reverse')
  <2>1. c \in Chains /\ reverse[c] \in Pairs /\ forward[reverse[c]] = c
    BY DEF RelinkedRows, Live, IndexInv, Agree
  <2>2. /\ \A p \in Pairs : forward'[p] = IF p = reverse[c] THEN None ELSE forward[p]
        /\ \A d \in Chains : reverse'[d] = IF d = c THEN Pending ELSE reverse[d]
    BY <1>2, <1>4, <2>1 DEF ChainForgotten
  <2> QED BY <1>2, <2>1, <2>2 DEF IndexInv, Agree
<1>5. ASSUME Forgotten PROVE Agree(forward', reverse')
  <2>1. /\ \A p \in Pairs : forward'[p] = IF p \in call.who THEN None ELSE forward[p]
        /\ \A d \in Chains : reverse'[d] = IF d \in ChainsOf(call.who) THEN Pending ELSE reverse[d]
    BY <1>5 DEF Forgotten
  <2>2. ASSUME NEW p \in Pairs, p \notin call.who, forward[p] # None PROVE forward[p] \notin ChainsOf(call.who)
    BY <1>2, <2>2 DEF ChainsOf, IndexInv, Agree
  <2>3. ASSUME NEW d \in Chains, d \notin ChainsOf(call.who), reverse[d] \in Pairs PROVE reverse[d] \notin call.who
    BY <1>2, <2>3 DEF ChainsOf, IndexInv, Agree
  <2> QED BY <1>2, <2>1, <2>2, <2>3 DEF IndexInv, Agree
<1>6. ASSUME NEW c \in call.erased, reverse' = [reverse EXCEPT ![c] = IF @ = Pending THEN None ELSE @], forward' = forward
      PROVE  Agree(forward', reverse')
  BY <1>2, <1>6 DEF IndexInv, Agree
<1>7. CASE ForgetRelinked
  BY <1>1, <1>3, <1>4, <1>7 DEF ForgetRelinked, TxError, indexVars, IndexInv, Agree, FreshRows
<1>8. CASE Forget
  BY <1>1, <1>3, <1>5, <1>8 DEF Forget, TxError, indexVars, IndexInv, Agree, FreshRows
<1>9. CASE ClearErased
  BY <1>1, <1>3, <1>6, <1>9 DEF ClearErased, TxError, IndexInv, Agree, FreshRows
<1> QED BY <1>7, <1>8, <1>9

LEMMA IndexBackup == ASSUME IndexInv, TakeBackup \/ RestoreIndex PROVE IndexInv'
<1>1. pc' # "bind" /\ UNCHANGED fresh
  BY DEF TakeBackup, RestoreIndex, callVars
<1>2. CASE TakeBackup
  BY <1>1, <1>2 DEF TakeBackup, folderVars, indexVars, IndexInv, Agree, FreshRows
<1>3. CASE RestoreIndex
  <2>1. Agree(NoBackup.forward, NoBackup.reverse)
    BY FolderAssumption DEF NoBackup, Agree
  <2> QED BY <1>1, <1>3, <2>1 DEF RestoreIndex, IndexInv, Agree, FreshRows
<1> QED BY <1>2, <1>3

LEMMA IndexNext == ASSUME TypeInv, IndexInv, [Next]_vars PROVE IndexInv'
<1>1. CASE UNCHANGED vars
  BY <1>1 DEF vars, folderVars, indexVars, envVars, callVars, IndexInv, Agree, FreshRows
<1>2. CASE CommitStep
  BY <1>2, IndexQuietCommit, IndexBind, IndexUnbind DEF CommitStep
<1>3. CASE EraseStep
  BY <1>3, IndexQuietErase, IndexForget, IndexQuietRest DEF EraseStep
<1> QED BY <1>1, <1>2, <1>3, IndexQuietRest, IndexCommitCall, IndexBackup DEF Next, CallStep

LEMMA IndexInit == Init => IndexInv
BY FolderAssumption DEF Init, FolderInit, CallInit, IndexInv, Agree, FreshRows, NoBackup

\* The forward and reverse rows of the subject index agree after every transaction,
\* rolled back, landed or interrupted, and after an older copy is put back: no chain
\* has two owners (bindAll, unbindAll, forget, forgetRelinked, clearErased).
THEOREM IndexStaysConsistent == Spec => []IndexConsistent
<1>1. TypeInv /\ IndexInv /\ [Next]_vars => TypeInv' /\ IndexInv'
  BY TypeNext, IndexNext
<1>2. IndexInv => IndexConsistent
  BY DEF IndexInv, Agree, IndexConsistent
<1> QED BY <1>1, <1>2, TypeInit, IndexInit, PTL DEF Spec

-----------------------------------------------------------------------------
(* An erasure ends its chain: the inductive invariant *)

WritePcs   == {"putSecrets", "putSigs", "putSources", "append"}
CleanPcs   == {"cleanSecrets", "cleanSigs", "cleanSources", "forgetSources", "unbind"}
StartPcs   == {"bind", "plan"}
EntryPcs   == {"putRecord", "putRecordSig", "appendErasure", "undoRecord", "undoSig"}
WorkPcs    == EntryPcs \cup {"eraseSecrets", "leftSecrets", "eraseSources", "leftSigs"}
SettledPcs == {"presign", "rewriteSecrets", "rewriteSources", "rewriteSubjects", "rewriteSigs",
               "clear", "rewriteAgain", "finish"} \cup ErasePcs

\* The steps of a commit are a commit's, those of an erasure an erasure's or a resume's.
CallKinds ==
    /\ pc \in StartPcs \cup WritePcs \cup CleanPcs => call.kind = "commit"
    /\ pc \in {"relinked", "presign"} \cup ErasePcs => call.kind \in {"erase", "resume"}
    /\ pc \in {"scan", "fixSecrets", "fixSources", "fixSigs"} => call.kind = "repair"
    /\ pc \in SettledPcs => call.kind \in {"erase", "resume", "repair"}
    /\ pc \in {"idle"} \cup StartPcs => plan = {}

\* Every erasure entry on a chain commits to the erasure through the entry before it.
OnlyGenuine == \A e \in evidence : e.type = "erasure" => Genuine(e)

\* The chains a commit writes to have no erasure, those it draws have no entry.
OpenChains ==
    /\ pc \in StartPcs \cup WritePcs \cup CleanPcs => \A b \in fresh : EntriesOf(b.chain) = {}
    /\ pc \in StartPcs => \A p \in PairsOf(call.batch) : forward[p] # None => ~Erased(forward[p])
    /\ pc \in WritePcs \cup CleanPcs => \A e \in plan : e.type = "event" /\ ~Erased(e.chain)

\* What an erasure plans are records of an erasure through the entry just before.
ErasureShape ==
    pc \in ErasePcs => \A e \in plan : e.seq # 0 /\ e.commits = ErasureRecord(e.seq - 1)

\* The chains an erasure works on are pending, and the one that gets an entry has none yet.
Marked ==
    /\ pc \in ErasePcs => \A c \in call.todo : reverse[c] = Pending
    /\ pc \in WorkPcs => reverse[call.cur] = Pending
    /\ pc \in EntryPcs => ~Erased(call.cur)

\* Once a resume has forgotten the relinked rows none comes back.
Settled ==
    call.kind = "resume" /\ (pc \in SettledPcs \/ (pc = "return" /\ call.outcome = "ok")) => RelinkedRows = {}

EndInv ==
    /\ NothingFollowsErasure /\ OnlyGenuine
    /\ CallKinds /\ OpenChains /\ ErasureShape /\ Marked /\ Settled

-----------------------------------------------------------------------------
(* Facts about tails, erasures and the registers *)

\* A chain with an erasure ends with a genuine one.
LEMMA ErasedEnds ==
    ASSUME NothingFollowsErasure, OnlyGenuine, NEW c
    PROVE  Erased(c) <=> EndsWithGenuineErasure(c)
<1>1. ASSUME NEW e \in EntriesOf(c), e.type = "erasure" PROVE IsTail(e) /\ Genuine(e)
  BY <1>1 DEF NothingFollowsErasure, OnlyGenuine, IsTail, EntriesOf
<1> QED BY <1>1 DEF Erased, EndsWithGenuineErasure, Genuine

LEMMA TailIs ==
    ASSUME NEW c, TailSeq(c) # -1
    PROVE  \E t \in EntriesOf(c) : IsTail(t) /\ t.seq = TailSeq(c)
BY DEF TailSeq

\* Operators that depend on the entries only.
LEMMA SameEntries ==
    ASSUME UNCHANGED evidence
    PROVE  \A c : EntriesOf(c)' = EntriesOf(c) /\ Erased(c)' = Erased(c)
                  /\ EndsWithGenuineErasure(c)' = EndsWithGenuineErasure(c) /\ TailSeq(c)' = TailSeq(c)
BY DEF EntriesOf, Erased, EndsWithGenuineErasure, Genuine, IsTail, TailSeq

LEMMA SameEnds ==
    ASSUME NothingFollowsErasure, OnlyGenuine, UNCHANGED evidence
    PROVE  NothingFollowsErasure' /\ OnlyGenuine'
BY DEF NothingFollowsErasure, OnlyGenuine, Genuine, EntriesOf

\* Updates of the call's registers that keep what the call is, and how they arise.
SameCall(x) == x.kind = call.kind /\ x.batch = call.batch /\ x.signer = call.signer /\ x.who = call.who

Advanced ==
    \/ call' = call
    \/ call' = [call EXCEPT !.clean = FALSE]
    \/ call' = [call EXCEPT !.clean = FALSE, !.compacted = FALSE]
    \/ \E o : call' = [call EXCEPT !.outcome = o]
    \/ \E t : call' = [call EXCEPT !.erased = t]

LEMMA AdvancedKeeps ==
    ASSUME call \in Calls, Advanced
    PROVE  SameCall(call') /\ call'.todo = call.todo /\ call'.cur = call.cur
<1> DEFINE Kept(x) == SameCall(x) /\ x.todo = call.todo /\ x.cur = call.cur
<1>1. Kept(call) /\ Kept([call EXCEPT !.clean = FALSE]) /\ Kept([call EXCEPT !.clean = FALSE, !.compacted = FALSE])
  BY DEF SameCall, Calls
<1>2. \A o : Kept([call EXCEPT !.outcome = o])
  BY DEF SameCall, Calls
<1>3. \A t : Kept([call EXCEPT !.erased = t])
  BY DEF SameCall, Calls
<1> QED BY <1>1, <1>2, <1>3 DEF Advanced

\* A call that returns has the outcome it returns with.
LEMMA ReturnedOutcome ==
    ASSUME call \in Calls, NEW o, ReturnWith(o) PROVE call'.outcome = o /\ Advanced /\ pc' = "return"
BY DEF ReturnWith, Advanced, Calls

\* A chain taken from the ones to do.
Took(c) ==
    \/ call' = [call EXCEPT !.todo = @ \ {c}, !.cur = c]
    \/ call' = [[call EXCEPT !.todo = @ \ {c}, !.cur = c] EXCEPT !.clean = FALSE]

LEMMA TookKeeps ==
    ASSUME call \in Calls, NEW c, Took(c)
    PROVE  SameCall(call') /\ call'.todo = call.todo \ {c} /\ call'.cur = c
<1>1. CASE call' = [call EXCEPT !.todo = @ \ {c}, !.cur = c]
  BY <1>1 DEF SameCall, Calls
<1>2. CASE call' = [[call EXCEPT !.todo = @ \ {c}, !.cur = c] EXCEPT !.clean = FALSE]
  BY <1>2 DEF SameCall, Calls
<1> QED BY <1>1, <1>2 DEF Took

-----------------------------------------------------------------------------
(* An erasure ends its chain: the steps of a commit *)

\* A step of a commit that appends nothing and keeps its plan.
LEMMA EndCommitFrame ==
    ASSUME EndInv, UNCHANGED <<evidence, plan, fresh>>, pc \in WritePcs \cup CleanPcs,
           pc' \in WritePcs \cup CleanPcs \cup {"return"}, call'.kind = call.kind
    PROVE  EndInv'
<1>1. call.kind = "commit"
  BY DEF EndInv, CallKinds
<1>2. NothingFollowsErasure' /\ OnlyGenuine'
  BY SameEnds DEF EndInv
<1>3. OpenChains'
  BY SameEntries DEF EndInv, OpenChains, StartPcs, WritePcs, CleanPcs
<1> QED BY <1>1, <1>2, <1>3 DEF EndInv, CallKinds, ErasureShape, Marked, Settled,
        StartPcs, WritePcs, CleanPcs, ErasePcs, WorkPcs, EntryPcs, SettledPcs

LEMMA EndQuietCommit ==
    ASSUME TypeInv, EndInv,
           PutSecrets \/ PutSigs \/ PutSources \/ CleanSecrets \/ CleanSigs \/ CleanSources \/ ForgetSources \/ UnbindAll
    PROVE  EndInv'
<1>1. UNCHANGED <<evidence, plan, fresh>>
  BY DEF PutSecrets, PutSigs, PutSources, CleanSecrets, CleanSigs, CleanSources, ForgetSources, UnbindAll
<1>2. pc \in WritePcs \cup CleanPcs /\ pc' \in WritePcs \cup CleanPcs \cup {"return"}
  BY DEF PutSecrets, PutSigs, PutSources, CleanSecrets, CleanSigs, CleanSources, ForgetSources, UnbindAll,
      ReturnWith, WritePcs, CleanPcs
<1>3. Advanced
  BY DEF PutSecrets, PutSigs, PutSources, CleanSecrets, CleanSigs, CleanSources, ForgetSources, UnbindAll,
      ReturnWith, Advanced
<1>4. call'.kind = call.kind
  BY <1>3, AdvancedKeeps DEF SameCall, TypeInv, TypeOK
<1> QED BY <1>1, <1>2, <1>4, EndCommitFrame

\* Neither a row that was relinked nor a drawn chain is bound to an erased one.
LEMMA EndCommitCall == ASSUME TypeInv, EndInv, CommitCall PROVE EndInv'
<1>1. PICK b \in Batches, s \in SignerConfigs : CommitStart(b, s)
  BY DEF CommitCall
<1>2. UNCHANGED <<evidence, forward, plan>> /\ pc = "idle" /\ plan = {}
  BY <1>1 DEF CommitStart, folderVars, indexVars, EndInv, CallKinds
<1>3. NothingFollowsErasure' /\ OnlyGenuine'
  BY <1>2, SameEnds DEF EndInv
<1>4. call'.kind = "commit"
  BY <1>1 DEF CommitStart, NoCall
<1>5. CASE pc' = "return"
  BY <1>2, <1>3, <1>4, <1>5 DEF EndInv, CallKinds, OpenChains, ErasureShape, Marked, Settled,
      StartPcs, WritePcs, CleanPcs, ErasePcs, WorkPcs, EntryPcs, SettledPcs
<1>6. CASE ~Relinked(b) /\ fresh' \in FreshBindings(b) /\ pc' \in StartPcs
           /\ call' = [NoCall EXCEPT !.kind = "commit", !.signer = s, !.batch = b]
  <2>1. call'.batch = b
    BY <1>6 DEF NoCall
  <2>2. \A p \in PairsOf(b) : forward[p] # None => ~Erased(forward[p])
    BY <1>6, ErasedEnds DEF Relinked, EndInv
  <2>3. \A x \in fresh' : EntriesOf(x.chain) = {}
    BY <1>6, FreshBindingsUnused DEF Unused
  <2>4. OpenChains'
    BY <1>2, <1>6, <2>1, <2>2, <2>3, SameEntries DEF OpenChains, StartPcs, WritePcs, CleanPcs, PairsOf
  <2> QED BY <1>2, <1>3, <1>4, <1>6, <2>4 DEF EndInv, CallKinds, ErasureShape, Marked, Settled,
        StartPcs, WritePcs, CleanPcs, ErasePcs, WorkPcs, EntryPcs, SettledPcs
<1> QED BY <1>1, <1>5, <1>6 DEF CommitStart, StartPcs

LEMMA EndBind == ASSUME TypeInv, EndInv, BindAll PROVE EndInv'
<1>1. UNCHANGED <<evidence, plan, fresh>> /\ pc = "bind" /\ pc' \in {"plan", "return"}
  BY DEF BindAll, ReturnWith
<1>2. call'.kind = call.kind /\ call.kind = "commit" /\ call'.batch = call.batch
  <2>1. Advanced
    BY DEF BindAll, ReturnWith, Advanced
  <2> QED BY <1>1, <2>1, AdvancedKeeps DEF SameCall, EndInv, CallKinds, StartPcs, TypeInv, TypeOK
<1>3. NothingFollowsErasure' /\ OnlyGenuine'
  BY <1>1, SameEnds DEF EndInv
<1>4. ASSUME pc' = "plan", NEW p \in PairsOf(call.batch), forward'[p] # None PROVE ~Erased(forward'[p])
  <2>1. Bound /\ p \in Pairs
    BY <1>4, CallFields, PairsOfType DEF BindAll, ReturnWith, TypeInv, TypeOK
  <2>2. CASE \E b \in fresh : b.pair = p
    <3>1. PICK b \in fresh : forward'[p] = b.chain
      BY <2>1, <2>2 DEF Bound
    <3>2. EntriesOf(b.chain) = {}
      BY <1>1 DEF EndInv, OpenChains, StartPcs
    <3> QED BY <3>1, <3>2 DEF Erased
  <2>3. CASE ~ \E b \in fresh : b.pair = p
    <3>1. forward'[p] = forward[p]
      BY <2>1, <2>3 DEF Bound
    <3> QED BY <1>1, <1>4, <3>1 DEF EndInv, OpenChains, StartPcs
  <2> QED BY <2>2, <2>3
<1>5. OpenChains'
  BY <1>1, <1>2, <1>4, SameEntries DEF EndInv, OpenChains, StartPcs, WritePcs, CleanPcs, PairsOf
<1> QED BY <1>1, <1>2, <1>3, <1>5 DEF EndInv, CallKinds, ErasureShape, Marked, Settled,
        StartPcs, WritePcs, CleanPcs, ErasePcs, WorkPcs, EntryPcs, SettledPcs

LEMMA EndPlan == ASSUME TypeInv, EndInv, PlanCommit PROVE EndInv'
<1>1. UNCHANGED <<evidence, forward, fresh>> /\ pc = "plan" /\ pc' \in {"forgetSources", "putSecrets", "return"}
      /\ plan' \in {plan, Planned(call.batch)}
  BY DEF PlanCommit, ReturnWith, folderVars, indexVars
<1>2. call'.kind = call.kind /\ call.kind = "commit" /\ plan = {}
  <2>1. Advanced
    BY DEF PlanCommit, ReturnWith, Advanced
  <2> QED BY <1>1, <2>1, AdvancedKeeps DEF SameCall, EndInv, CallKinds, StartPcs, TypeInv, TypeOK
<1>3. NothingFollowsErasure' /\ OnlyGenuine'
  BY <1>1, SameEnds DEF EndInv
<1>4. ASSUME NEW e \in Planned(call.batch) PROVE e.type = "event" /\ ~Erased(e.chain)
  <2>1. PICK i \in DOMAIN call.batch : e.chain = forward[call.batch[i].pair] /\ e.type = "event"
    BY PlannedShape
  <2>2. call.batch[i].pair \in PairsOf(call.batch)
    BY DEF PairsOf
  <2> QED BY <1>1, <2>1, <2>2 DEF EndInv, OpenChains, StartPcs, TypeInv, BatchBound
<1>5. OpenChains'
  BY <1>1, <1>2, <1>4, SameEntries DEF EndInv, OpenChains, StartPcs, WritePcs, CleanPcs
<1> QED BY <1>1, <1>2, <1>3, <1>5 DEF EndInv, CallKinds, ErasureShape, Marked, Settled,
        StartPcs, WritePcs, CleanPcs, ErasePcs, WorkPcs, EntryPcs, SettledPcs

\* The entries appended are events, on chains without an erasure.
LEMMA EndAppend == ASSUME TypeInv, EndInv, AppendChains PROVE EndInv'
<1>1. UNCHANGED <<plan, fresh>> /\ pc = "append"
      /\ (evidence' = evidence \/ (evidence' = evidence \cup plan /\ pc' = "return"))
      /\ pc' \in {"return", "cleanSecrets"}
  BY DEF AppendChains, TxError, ReturnWith
<1>2. call'.kind = call.kind /\ call.kind = "commit"
  <2>1. Advanced
    BY DEF AppendChains, ReturnWith, Advanced
  <2> QED BY <1>1, <2>1, AdvancedKeeps DEF SameCall, EndInv, CallKinds, WritePcs, TypeInv, TypeOK
<1>3. CASE evidence' = evidence
  BY <1>1, <1>2, <1>3, EndCommitFrame DEF WritePcs, CleanPcs
<1>4. CASE evidence' = evidence \cup plan /\ pc' = "return"
  <2>1. \A e \in plan : e.type = "event" /\ ~Erased(e.chain)
    BY <1>1 DEF EndInv, OpenChains, WritePcs
  <2>2. NothingFollowsErasure'
    BY <1>4, <2>1 DEF EndInv, NothingFollowsErasure, Erased, EntriesOf
  <2>3. ASSUME NEW d \in evidence, d.type = "erasure" PROVE Genuine(d)'
    <3>1. EntriesOf(d.chain)' = EntriesOf(d.chain)
      BY <1>4, <2>1, <2>3 DEF Erased, EntriesOf
    <3> QED BY <2>3, <3>1 DEF EndInv, OnlyGenuine, Genuine
  <2>4. OnlyGenuine'
    BY <1>4, <2>1, <2>3 DEF OnlyGenuine
  <2> QED BY <1>1, <1>2, <1>4, <2>2, <2>4 DEF EndInv, CallKinds, OpenChains, ErasureShape, Marked, Settled,
        StartPcs, WritePcs, CleanPcs, ErasePcs, WorkPcs, EntryPcs, SettledPcs
<1> QED BY <1>1, <1>3, <1>4

-----------------------------------------------------------------------------
(* An erasure ends its chain: the steps of an erasure, a repair and the environment *)

\* No row becomes live on an erased chain while the entries stand and no row becomes live.
LEMMA NoneRelinked ==
    ASSUME UNCHANGED evidence, \A c \in Chains : reverse'[c] \in Pairs => reverse[c] \in Pairs
    PROVE  RelinkedRows' \subseteq RelinkedRows
BY SameEntries DEF RelinkedRows, Live

\* A step that appends nothing, enters no phase and drops no pending marker.
LEMMA EndFrame ==
    ASSUME EndInv, UNCHANGED <<evidence, reverse>>, plan' \in {plan, {}}, call'.kind = call.kind,
           pc' \notin {"idle", "relinked", "presign"} \cup StartPcs \cup WritePcs \cup CleanPcs,
           pc' \in {"scan", "fixSecrets", "fixSources", "fixSigs"} => call.kind = "repair",
           pc' \in ErasePcs => pc \in ErasePcs /\ call'.todo \subseteq call.todo,
           pc' \in WorkPcs => pc \in WorkPcs /\ call'.cur = call.cur,
           pc' \in EntryPcs => pc \in EntryPcs,
           pc' \in SettledPcs => pc \in SettledPcs \/ call.kind = "repair",
           pc' = "return" /\ call'.outcome = "ok" => pc \in SettledPcs
    PROVE  EndInv'
<1>1. NothingFollowsErasure' /\ OnlyGenuine'
  BY SameEnds DEF EndInv
<1>2. CallKinds' /\ OpenChains'
  BY DEF EndInv, CallKinds, OpenChains
<1>3. ErasureShape'
  BY DEF EndInv, ErasureShape
<1>4. Marked'
  <2>1. EntryPcs \subseteq WorkPcs
    BY DEF WorkPcs
  <2> QED BY <2>1, SameEntries DEF EndInv, Marked
<1>5. Settled'
  BY NoneRelinked DEF EndInv, Settled
<1> QED BY <1>1, <1>2, <1>3, <1>4, <1>5 DEF EndInv

\* The folder is free again, or a call starts, or is refused.
LEMMA EndRest ==
    ASSUME EndInv, UNCHANGED evidence,
           \/ pc' = "idle" /\ plan' = {}
           \/ pc' = "return" /\ ~(call'.kind = "resume" /\ call'.outcome = "ok")
           \/ pc' = "relinked" /\ call'.kind \in {"erase", "resume"}
           \/ pc' = "presign" /\ call'.kind = "erase"
           \/ pc' = "scan" /\ call'.kind = "repair"
    PROVE  EndInv'
<1>1. NothingFollowsErasure' /\ OnlyGenuine'
  BY SameEnds DEF EndInv
<1>2. CallKinds' /\ OpenChains'
  BY DEF CallKinds, OpenChains, StartPcs, WritePcs, CleanPcs, ErasePcs, SettledPcs
<1>3. ErasureShape' /\ Marked'
  BY DEF ErasureShape, Marked, ErasePcs, WorkPcs, EntryPcs
<1>4. Settled'
  BY DEF Settled, SettledPcs, ErasePcs
<1> QED BY <1>1, <1>2, <1>3, <1>4 DEF EndInv

LEMMA EndStarts ==
    ASSUME EndInv, EraseCall \/ ResumeCall \/ RepairStart \/ RequireRecordSigning \/ Return \/ Crash
                   \/ TakeBackup \/ RestoreIndex
    PROVE  EndInv'
<1>1. UNCHANGED evidence
  BY DEF EraseCall, ResumeCall, EraseStart, RepairStart, RequireRecordSigning, Return, Crash, TakeBackup,
      RestoreIndex, folderVars
<1>2. CASE RequireRecordSigning \/ TakeBackup \/ RestoreIndex \/ Return \/ Crash
  <2>1. pc' = "idle" /\ plan' = {}
    BY <1>2 DEF RequireRecordSigning, TakeBackup, RestoreIndex, Return, Crash, callVars, EndInv, CallKinds
  <2> QED BY <1>1, <2>1, EndRest
<1>3. ASSUME NEW k \in {"erase", "resume"}, NEW w, NEW s, EraseStart(k, w, s) PROVE EndInv'
  <2>1. \/ pc' = "return" /\ call'.outcome = "refused"
        \/ pc' = (IF k = "resume" THEN "relinked" ELSE "presign") /\ call'.kind = k
    BY <1>3 DEF EraseStart, NoCall
  <2> QED BY <1>1, <2>1, EndRest
<1>4. CASE RepairStart
  <2>1. pc' = "scan" /\ call'.kind = "repair"
    BY <1>4 DEF RepairStart, NoCall
  <2> QED BY <1>1, <2>1, EndRest
<1> QED BY <1>2, <1>3, <1>4 DEF EraseCall, ResumeCall

LEMMA EndRewrite == ASSUME TypeInv, EndInv, RewriteStep \/ RewriteAgain PROVE EndInv'
<1>1. ASSUME NEW f, NEW at \in SettledPcs, NEW next \in SettledPcs, Rewrite(f, at, next),
             next \notin {"presign"} \cup ErasePcs
      PROVE  EndInv'
  <2>1. UNCHANGED <<evidence, reverse>> /\ pc = at
    BY <1>1 DEF Rewrite, indexVars
  <2>2. CASE pc' = "idle" /\ plan' = {}
    BY <2>1, <2>2, EndRest
  <2>3. CASE pc' = next /\ UNCHANGED plan /\ Advanced
    <3>1. call'.kind = call.kind
      BY <2>3, AdvancedKeeps DEF SameCall, TypeInv, TypeOK
    <3> QED BY <1>1, <2>1, <2>3, <3>1, EndFrame DEF SettledPcs, ErasePcs, WorkPcs, EntryPcs, StartPcs, WritePcs, CleanPcs
  <2> QED BY <1>1, <2>2, <2>3 DEF Rewrite, Advanced
<1>2. CASE RewriteSecrets \/ RewriteSources \/ RewriteSubjects \/ RewriteAgain
  BY <1>1, <1>2 DEF RewriteSecrets, RewriteSources, RewriteSubjects, RewriteAgain, SettledPcs, ErasePcs
<1>3. CASE RewriteSigs \/ Finish
  <2>1. UNCHANGED <<evidence, reverse, plan>> /\ pc \in {"rewriteSigs", "finish"} /\ pc' \in {"clear", "finish", "return"}
    BY <1>3 DEF RewriteSigs, Finish, ReturnWith, folderVars, indexVars
  <2>2. Advanced
    BY <1>3 DEF RewriteSigs, Finish, ReturnWith, Advanced
  <2>3. call'.kind = call.kind
    BY <2>2, AdvancedKeeps DEF SameCall, TypeInv, TypeOK
  <2> QED BY <2>1, <2>3, EndFrame DEF SettledPcs, ErasePcs, WorkPcs, EntryPcs, StartPcs, WritePcs, CleanPcs
<1> QED BY <1>2, <1>3 DEF RewriteStep

LEMMA EndRepair == ASSUME TypeInv, EndInv, RepairStep PROVE EndInv'
<1>1. UNCHANGED <<evidence, reverse, plan>> /\ pc \in {"scan", "fixSecrets", "fixSources", "fixSigs"}
      /\ pc' \in {"scan", "fixSecrets", "fixSources", "fixSigs", "rewriteSecrets"}
  BY DEF RepairStep, RepairChain, FixSecrets, FixSources, FixSigs, RepairFails, folderVars, indexVars
<1>2. call'.kind = call.kind
  <2>1. CASE Advanced
    BY <2>1, AdvancedKeeps DEF SameCall, TypeInv, TypeOK
  <2>2. ASSUME NEW c, NEW d, call' = [call EXCEPT !.todo = @ \ {c}, !.cur = d] PROVE call'.kind = call.kind
    BY <2>2 DEF TypeInv, TypeOK, Calls
  <2> QED BY <2>1, <2>2 DEF RepairStep, RepairChain, FixSecrets, FixSources, FixSigs, RepairFails, Advanced
<1>3. call.kind = "repair"
  BY <1>1 DEF EndInv, CallKinds
<1> QED BY <1>1, <1>2, <1>3, EndFrame DEF ErasePcs, WorkPcs, EntryPcs, StartPcs, WritePcs, CleanPcs

\* Records, signatures and their removal, content and positions of the chain erased.
LEMMA EndQuietErase ==
    ASSUME TypeInv, EndInv,
           \/ PutErasureRecord \/ PutErasureSig \/ UndoRecord \/ UndoSig
           \/ EraseSecrets \/ LeftSecrets \/ EraseSources \/ LeftSigs
    PROVE  EndInv'
<1>1. UNCHANGED <<evidence, reverse, plan>>
  BY DEF PutErasureRecord, PutErasureSig, UndoRecord, UndoSig, EraseSecrets, LeftSecrets, EraseSources, LeftSigs, indexVars
<1>2. /\ pc \in WorkPcs /\ pc' \in {"putRecordSig", "appendErasure", "undoRecord", "undoSig", "eraseSources", "leftSigs", "nextChain"}
      /\ pc' \in EntryPcs => pc \in EntryPcs
  BY DEF PutErasureRecord, PutErasureSig, UndoRecord, UndoSig, EraseSecrets, LeftSecrets, EraseSources, LeftSigs,
      StaysPending, WorkPcs, EntryPcs
<1>3. Advanced
  BY DEF PutErasureRecord, PutErasureSig, UndoRecord, UndoSig, EraseSecrets, LeftSecrets, EraseSources, LeftSigs,
      StaysPending, Advanced
<1>4. call'.kind = call.kind /\ call'.todo = call.todo /\ call'.cur = call.cur
  BY <1>3, AdvancedKeeps DEF SameCall, TypeInv, TypeOK
<1>5. pc \in ErasePcs /\ pc \in SettledPcs
  BY <1>2 DEF WorkPcs, EntryPcs, ErasePcs, SettledPcs
<1> QED BY <1>1, <1>2, <1>4, <1>5, EndFrame DEF StartPcs, WritePcs, CleanPcs

LEMMA EndForgetRelinked == ASSUME TypeInv, EndInv, ForgetRelinked PROVE EndInv'
<1>1. UNCHANGED <<evidence, plan>> /\ pc = "relinked" /\ call.kind \in {"erase", "resume"}
  BY DEF ForgetRelinked, EndInv, CallKinds
<1>2. CASE pc' = "relinked" /\ UNCHANGED call
  BY <1>1, <1>2, EndRest
<1>3. CASE ReturnWith("failed")
  <2>1. call'.outcome = "failed" /\ pc' = "return"
    BY <1>3, ReturnedOutcome DEF TypeInv, TypeOK
  <2> QED BY <1>1, <2>1, EndRest
<1>4. CASE pc' = "presign" /\ RelinkedRows = {} /\ UNCHANGED <<reverse, call>>
  <2>1. NothingFollowsErasure' /\ OnlyGenuine' /\ RelinkedRows' = {}
    BY <1>1, <1>4, SameEnds, NoneRelinked DEF EndInv
  <2> QED BY <1>1, <1>4, <2>1 DEF EndInv, CallKinds, OpenChains, ErasureShape, Marked, Settled,
          StartPcs, WritePcs, CleanPcs, ErasePcs, WorkPcs, EntryPcs
<1> QED BY <1>1, <1>2, <1>3, <1>4 DEF ForgetRelinked, indexVars

\* The entries presigned commit to the tail they were predicted from.
LEMMA EndPresign == ASSUME TypeInv, EndInv, Presign PROVE EndInv'
<1>1. UNCHANGED <<evidence, reverse>> /\ pc = "presign" /\ call.kind \in {"erase", "resume"}
  BY DEF Presign, folderVars, indexVars, EndInv, CallKinds
<1>2. CASE ReturnWith("refused")
  <2>1. call'.outcome = "refused" /\ pc' = "return"
    BY <1>2, ReturnedOutcome DEF TypeInv, TypeOK
  <2> QED BY <1>1, <2>1, EndRest
<1>3. CASE /\ call' = [call EXCEPT !.todo = PendingRows] /\ pc' \in {"nextChain", "forget"}
           /\ \A e \in plan' : \E c \in PendingRows \cup ChainsOf(call.who) : NeedsErasure(c) /\ e = ErasureEntry(c, nextId)
  <2>1. call'.kind = call.kind /\ call'.todo = PendingRows
    BY <1>3 DEF TypeInv, TypeOK, Calls
  <2>2. NothingFollowsErasure' /\ OnlyGenuine' /\ RelinkedRows' \subseteq RelinkedRows
    BY <1>1, SameEnds, NoneRelinked DEF EndInv
  <2>3. ErasureShape'
    <3>1. ASSUME NEW c \in PendingRows \cup ChainsOf(call.who), NeedsErasure(c)
          PROVE  /\ ErasureEntry(c, nextId).seq # 0
                 /\ ErasureEntry(c, nextId).commits = ErasureRecord(ErasureEntry(c, nextId).seq - 1)
      <4>1. c \in Chains
        BY CallFields DEF PendingRows, ChainsOf, TypeInv, TypeOK, FolderTypeOK
      <4>2. TailSeq(c) \in Nat
        BY <3>1, <4>1, TailSeqType DEF NeedsErasure, TypeInv, TypeOK, FolderTypeOK
      <4>3. ErasureEntry(c, nextId).seq = TailSeq(c) + 1 /\ ErasureEntry(c, nextId).commits = ErasureRecord(TailSeq(c))
        BY DEF ErasureEntry
      <4>4. ErasureEntry(c, nextId).seq - 1 = TailSeq(c) /\ ErasureEntry(c, nextId).seq # 0
        BY <4>2, <4>3
      <4> QED BY <4>3, <4>4
    <3> QED BY <1>3, <3>1 DEF ErasureShape
  <2>4. Marked'
    BY <1>1, <1>3, <2>1 DEF Marked, PendingRows, WorkPcs, EntryPcs
  <2> QED BY <1>1, <1>3, <2>1, <2>2, <2>3, <2>4 DEF EndInv, CallKinds, OpenChains, Settled,
          StartPcs, WritePcs, CleanPcs, ErasePcs, SettledPcs
<1> QED BY <1>2, <1>3 DEF Presign

LEMMA EndForget == ASSUME TypeInv, EndInv, Forget PROVE EndInv'
<1>1. UNCHANGED <<evidence, plan>> /\ pc = "forget" /\ call.kind \in {"erase", "resume"}
  BY DEF Forget, EndInv, CallKinds, ErasePcs
<1>2. CASE ReturnWith("failed")
  <2>1. call'.outcome = "failed" /\ pc' = "return"
    BY <1>2, ReturnedOutcome DEF TypeInv, TypeOK
  <2> QED BY <1>1, <2>1, EndRest
<1>3. CASE Forgotten /\ pc' = "nextChain" /\ call' = [call EXCEPT !.todo = @ \cup ChainsOf(call.who)]
  <2>1. call'.kind = call.kind /\ call'.todo = call.todo \cup ChainsOf(call.who)
    BY <1>3 DEF TypeInv, TypeOK, Calls
  <2>2. \A c \in Chains : reverse'[c] = IF c \in ChainsOf(call.who) THEN Pending ELSE reverse[c]
    BY <1>3 DEF Forgotten
  <2>3. NothingFollowsErasure' /\ OnlyGenuine' /\ RelinkedRows' \subseteq RelinkedRows
    BY <1>1, <2>2, SameEnds, NoneRelinked, FolderAssumption DEF EndInv
  <2>4. call.todo \subseteq Chains /\ ChainsOf(call.who) \subseteq Chains
    BY CallFields DEF ChainsOf, TypeInv, TypeOK, FolderTypeOK
  <2>5. Marked'
    BY <1>1, <1>3, <2>1, <2>2, <2>4 DEF EndInv, Marked, ErasePcs, WorkPcs, EntryPcs
  <2> QED BY <1>1, <1>3, <2>1, <2>3, <2>5 DEF EndInv, CallKinds, OpenChains, ErasureShape, Settled,
          StartPcs, WritePcs, CleanPcs, ErasePcs, SettledPcs
<1> QED BY <1>2, <1>3 DEF Forget

LEMMA EndNextChain == ASSUME TypeInv, EndInv, NextChain PROVE EndInv'
<1>1. /\ UNCHANGED <<evidence, reverse, plan>> /\ pc = "nextChain" /\ call.kind \in {"erase", "resume"}
      /\ pc' \in {"rewriteSecrets", "nextChain", "leftSecrets", "eraseSecrets", "putRecord"}
  BY DEF NextChain, folderVars, indexVars, EndInv, CallKinds, ErasePcs
<1>2. NothingFollowsErasure' /\ OnlyGenuine' /\ RelinkedRows' \subseteq RelinkedRows
  BY <1>1, SameEnds, NoneRelinked DEF EndInv
<1>3. CASE pc' = "rewriteSecrets" /\ call' = [call EXCEPT !.cur = None]
  <2>1. call'.kind = call.kind
    BY <1>3 DEF TypeInv, TypeOK, Calls
  <2> QED BY <1>1, <1>3, <2>1, EndFrame DEF StartPcs, WritePcs, CleanPcs, ErasePcs, WorkPcs, EntryPcs, SettledPcs
<1>4. ASSUME NEW c \in call.todo, Took(c), pc' = "putRecord" => NeedsErasure(c), pc' # "rewriteSecrets" PROVE EndInv'
  <2>1. call'.kind = call.kind /\ call'.todo = call.todo \ {c} /\ call'.cur = c
    BY <1>4, TookKeeps DEF SameCall, TypeInv, TypeOK
  <2>2. reverse[c] = Pending
    BY <1>1 DEF EndInv, Marked, ErasePcs
  <2>3. pc' \in EntryPcs => ~Erased(c)
    BY <1>1, <1>4, ErasedEnds DEF EntryPcs, NeedsErasure, EndInv
  <2>4. Marked'
    BY <1>1, <2>1, <2>2, <2>3, SameEntries DEF EndInv, Marked, ErasePcs
  <2> QED BY <1>1, <1>2, <1>4, <2>1, <2>4 DEF EndInv, CallKinds, OpenChains, ErasureShape, Settled,
          StartPcs, WritePcs, CleanPcs, ErasePcs, SettledPcs
<1> QED BY <1>1, <1>3, <1>4 DEF NextChain, Took

\* The erasure entry goes behind the tail it was presigned for, on a chain without one.
LEMMA EndAppendErasure == ASSUME TypeInv, OpensInv, EndInv, AppendErasure PROVE EndInv'
<1>1. /\ UNCHANGED <<reverse, plan>> /\ pc = "appendErasure"
      /\ evidence' \in {evidence, evidence \cup Presigned}
      /\ pc' \in {"eraseSecrets", "nextChain", "undoRecord"}
      /\ pc' = "undoRecord" => evidence' = evidence
  BY DEF AppendErasure, TxError, StaysPending, indexVars
<1>2. call'.kind = call.kind /\ call'.todo = call.todo /\ call'.cur = call.cur
  <2>1. Advanced
    BY DEF AppendErasure, StaysPending, Advanced
  <2> QED BY <2>1, AdvancedKeeps DEF SameCall, TypeInv, TypeOK
<1>3. CASE evidence' = evidence
  BY <1>1, <1>2, <1>3, EndFrame DEF StartPcs, WritePcs, CleanPcs, ErasePcs, WorkPcs, EntryPcs, SettledPcs
<1>4. CASE evidence' = evidence \cup Presigned /\ pc' # "undoRecord"
  <2>0. PICK c \in Chains : c = call.cur
    BY <1>1, CallFields DEF TypeInv, TypeOK, CurSet
  <2>1. ~Erased(c) /\ reverse[c] = Pending
    BY <1>1, <2>0 DEF EndInv, Marked, WorkPcs, EntryPcs
  <2>2. \A e \in Presigned : /\ e.chain = c /\ e.type = "erasure" /\ e.seq = TailSeq(c) + 1
                             /\ e.seq # 0 /\ e.commits = ErasureRecord(e.seq - 1)
    BY <1>1, <2>0 DEF Presigned, EndInv, ErasureShape, OpensInv, ErasurePlan, ErasePcs
  <2>3. TailSeq(c) \in Nat \cup {-1} /\ evidence \subseteq Entries
    BY <2>1, TailSeqType DEF TypeInv, TypeOK, FolderTypeOK
  <2>4. Presigned # {}
    BY <1>1 DEF OpensInv, ErasureReady
  <2>5. TailSeq(c) \in Nat
    <3>1. PICK e \in Presigned : TRUE
      BY <2>4
    <3>2. TailSeq(c) + 1 # 0
      BY <2>2
    <3> QED BY <2>3, <3>2
  <2>6. PICK t \in EntriesOf(c) : IsTail(t) /\ t.seq = TailSeq(c)
    BY <2>5, TailIs
  <2>7. t.chain = c /\ t \in evidence /\ \A d \in EntriesOf(c) : d.seq <= TailSeq(c)
    BY <2>6 DEF IsTail, EntriesOf
  <2>8. \A d \in EntriesOf(c) : d.seq \in Nat
    BY <2>3 DEF EntriesOf, Entries
  <2>9. \A k : k # c => EntriesOf(k)' = EntriesOf(k)
    BY <1>4, <2>2 DEF EntriesOf
  <2>10. EntriesOf(c)' = EntriesOf(c) \cup Presigned
    BY <1>4, <2>2 DEF EntriesOf
  <2>11. \A d \in evidence : d.type = "erasure" => d.chain # c
    BY <2>1 DEF Erased, EntriesOf
  <2>12. NothingFollowsErasure'
    <3> SUFFICES ASSUME NEW d \in evidence', NEW e \in evidence', d.chain = e.chain, d.type = "erasure"
                 PROVE  e.seq <= d.seq
      BY DEF NothingFollowsErasure
    <3>1. CASE d \in evidence
      <4>1. e \in evidence
        BY <1>4, <2>2, <2>11, <3>1
      <4> QED BY <3>1, <4>1 DEF EndInv, NothingFollowsErasure
    <3>2. CASE d \in Presigned /\ e \in evidence
      <4>1. e \in EntriesOf(c) /\ d.seq = TailSeq(c) + 1
        BY <2>2, <3>2 DEF EntriesOf
      <4> QED BY <2>5, <2>7, <2>8, <4>1
    <3>3. CASE d \in Presigned /\ e \in Presigned
      <4>1. e.seq = TailSeq(c) + 1 /\ d.seq = TailSeq(c) + 1
        BY <2>2, <3>3
      <4> QED BY <2>5, <4>1
    <3> QED BY <1>4, <3>1, <3>2, <3>3
  <2>13. OnlyGenuine'
    <3> SUFFICES ASSUME NEW d \in evidence', d.type = "erasure" PROVE Genuine(d)'
      BY DEF OnlyGenuine
    <3>1. CASE d \in evidence
      <4>1. EntriesOf(d.chain)' = EntriesOf(d.chain)
        BY <2>9, <2>11, <3>1
      <4> QED BY <3>1, <4>1 DEF EndInv, OnlyGenuine, Genuine
    <3>2. CASE d \in Presigned
      <4>1. d.chain = c /\ d.seq = TailSeq(c) + 1 /\ d.commits = ErasureRecord(d.seq - 1)
        BY <2>2, <3>2
      <4>2. t.seq < d.seq /\ d.seq - 1 = t.seq
        BY <2>5, <2>6, <4>1
      <4>3. t \in EntriesOf(d.chain)'
        BY <2>6, <2>10, <4>1
      <4>4. ASSUME NEW x \in EntriesOf(d.chain)', x.seq < d.seq PROVE x.seq <= t.seq
        <5>1. x \notin Presigned
          BY <2>2, <2>5, <4>1, <4>4
        <5> QED BY <2>6, <2>7, <2>10, <4>1, <5>1
      <4> QED BY <4>1, <4>2, <4>3, <4>4 DEF Genuine
    <3> QED BY <1>4, <3>1, <3>2
  <2>14. RelinkedRows' \subseteq RelinkedRows
    <3>1. ASSUME NEW k \in Chains, reverse[k] \in Pairs
          PROVE  EndsWithGenuineErasure(k)' = EndsWithGenuineErasure(k)
      <4>1. k # c
        BY <2>1, <3>1, FolderAssumption
      <4>2. EntriesOf(k)' = EntriesOf(k) /\ \A e \in EntriesOf(k) : e.chain = k
        BY <2>9, <4>1 DEF EntriesOf
      <4> QED BY <4>2 DEF EndsWithGenuineErasure, IsTail, Genuine
    <3> QED BY <1>1, <3>1 DEF RelinkedRows, Live
  <2>15. Marked'
    BY <1>1, <1>2, <1>4 DEF EndInv, Marked, ErasePcs, WorkPcs, EntryPcs
  <2> QED BY <1>1, <1>2, <2>12, <2>13, <2>14, <2>15 DEF EndInv, CallKinds, OpenChains, ErasureShape, Settled,
          StartPcs, WritePcs, CleanPcs, ErasePcs, SettledPcs
<1> QED BY <1>1, <1>3, <1>4

LEMMA EndClear == ASSUME TypeInv, EndInv, ClearErased PROVE EndInv'
<1>1. UNCHANGED <<evidence, plan>> /\ pc = "clear" /\ pc' \in {"clear", "rewriteAgain", "finish"} /\ Advanced
  BY DEF ClearErased, Advanced
<1>2. call'.kind = call.kind
  BY <1>1, AdvancedKeeps DEF SameCall, TypeInv, TypeOK
<1>3. \A c \in Chains : reverse'[c] \in Pairs => reverse[c] \in Pairs
  BY FolderAssumption, CallFields DEF ClearErased, TxError, TypeInv, TypeOK, FolderTypeOK
<1>4. NothingFollowsErasure' /\ OnlyGenuine' /\ RelinkedRows' \subseteq RelinkedRows
  BY <1>1, <1>3, SameEnds, NoneRelinked DEF EndInv
<1> QED BY <1>1, <1>2, <1>4 DEF EndInv, CallKinds, OpenChains, ErasureShape, Marked, Settled,
        StartPcs, WritePcs, CleanPcs, ErasePcs, WorkPcs, EntryPcs, SettledPcs

LEMMA EndNext == ASSUME TypeInv, OpensInv, EndInv, [Next]_vars PROVE EndInv'
<1>1. CASE UNCHANGED vars
  <2>1. UNCHANGED <<evidence, reverse, forward, plan, fresh, pc, call>>
    BY <1>1 DEF vars, folderVars, indexVars, callVars
  <2>2. NothingFollowsErasure' /\ OnlyGenuine' /\ RelinkedRows' \subseteq RelinkedRows
    BY <2>1, SameEnds, NoneRelinked DEF EndInv
  <2>3. OpenChains' /\ Marked'
    BY <2>1, SameEntries DEF EndInv, OpenChains, Marked, PairsOf
  <2> QED BY <2>1, <2>2, <2>3 DEF EndInv, CallKinds, ErasureShape, Settled
<1>2. CASE CommitStep
  BY <1>2, EndQuietCommit, EndBind, EndPlan, EndAppend DEF CommitStep
<1>3. CASE EraseStep
  BY <1>3, EndForgetRelinked, EndPresign, EndForget, EndNextChain, EndQuietErase, EndAppendErasure, EndClear,
      EndRewrite DEF EraseStep
<1> QED BY <1>1, <1>2, <1>3, EndRepair, EndRewrite, EndStarts, EndCommitCall DEF Next, CallStep

LEMMA EndInit == Init => EndInv
BY DEF Init, FolderInit, CallInit, EndInv, NothingFollowsErasure, OnlyGenuine, CallKinds, OpenChains,
    ErasureShape, Marked, Settled, StartPcs, WritePcs, CleanPcs, ErasePcs, WorkPcs, EntryPcs, NoCall, SettledPcs

\* Nothing is appended behind an erasure entry, even under an index restored from
\* before the erasure, and a resume that returns nil leaves no live row on an erased
\* chain (resolvePair, presignErasures, eraseChain, forgetRelinked).
THEOREM ErasureEndsChain == Spec => []ErasureEnds
<1>1. Init => TypeInv /\ OpensInv /\ EndInv
  BY TypeInit, OpensInit, EndInit
<1>2. TypeInv /\ OpensInv /\ EndInv /\ [Next]_vars => TypeInv' /\ OpensInv' /\ EndInv'
  BY TypeNext, OpensNext, EndNext
<1>3. EndInv => ErasureEnds
  BY DEF EndInv, ErasureEnds, RelinkForgotten, Settled, RelinkedRows
<1> QED BY <1>1, <1>2, <1>3, PTL DEF Spec

-----------------------------------------------------------------------------
(* Entries of a signing sink are signed *)

ModePcs == {"relinked", "presign"} \cup StartPcs \cup WritePcs \cup ErasePcs

\* Signatures, and the signing mode, are stored before the entries are appended.
SignatureFirst ==
    /\ pc \in {"putSources", "append"} /\ call.signer => signing /\ \A e \in plan : SigRow(e) \in sigs
    /\ pc = "appendErasure" /\ call.signer => signing /\ \A e \in Presigned : SigRow(e) \in sigs

\* A call that may append signs if and only if the sink does, or the sink is empty.
SignerMode ==
    /\ pc \in ModePcs => (signing => call.signer) /\ (call.signer => signing \/ evidence = {})
    /\ pc \in {"putSigs", "putRecordSig"} => call.signer

\* Positions and signatures are deleted with the chain erased or without an entry.
ErasedSecond ==
    /\ pc = "eraseSources" => Erased(call.cur) \/ EntriesOf(call.cur) = {}
    /\ pc = "leftSigs" => EntriesOf(call.cur) = {}

SignInv == SignatureFirst /\ SignerMode /\ ErasedSecond /\ SignedEntries

LEMMA SignedKept ==
    ASSUME SignedEntries, UNCHANGED evidence, signing' => signing \/ evidence = {},
           \A d \in evidence : SigRow(d) \in sigs => SigRow(d) \in sigs'
    PROVE  SignedEntries'
BY DEF SignedEntries, SigRow

\* A step that touches neither entries nor signatures.
LEMMA SignFrame ==
    ASSUME SignInv, UNCHANGED <<evidence, sigs, signing>>, call'.signer = call.signer,
           pc' \in {"putSources", "append"} => ~call.signer \/ (pc \in {"putSources", "append"} /\ plan' = plan),
           pc' = "appendErasure" => ~call.signer,
           pc' \in ModePcs => pc \in ModePcs,
           pc' \in {"putSigs", "putRecordSig"} => call.signer,
           pc' \in {"eraseSources", "leftSigs"} => ErasedSecond'
    PROVE  SignInv'
<1>1. SignedEntries'
  BY SignedKept DEF SignInv
<1>2. SignatureFirst'
  BY DEF SignInv, SignatureFirst, SigRow
<1>3. SignerMode' /\ ErasedSecond'
  BY DEF SignInv, SignerMode, ErasedSecond
<1> QED BY <1>1, <1>2, <1>3 DEF SignInv

\* The folder is free, a call was refused, or a repair runs.
LEMMA SignRest ==
    ASSUME SignInv, UNCHANGED <<evidence, sigs>>, signing' => signing \/ evidence = {},
           pc' \in {"idle", "return", "scan", "fixSecrets", "fixSources", "fixSigs", "rewriteSecrets", "rewriteSources",
                   "rewriteSubjects", "rewriteSigs", "clear", "rewriteAgain", "finish", "cleanSources", "forgetSources", "unbind"}
    PROVE  SignInv'
<1>1. SignedEntries'
  BY SignedKept DEF SignInv
<1>2. SignatureFirst' /\ SignerMode' /\ ErasedSecond'
  BY DEF SignatureFirst, SignerMode, ErasedSecond, ModePcs, StartPcs, WritePcs, ErasePcs
<1> QED BY <1>1, <1>2 DEF SignInv

LEMMA SignQuiet ==
    ASSUME SignInv,
           \/ Return \/ Crash \/ TakeBackup \/ RestoreIndex \/ RequireRecordSigning \/ RepairStart
           \/ RepairChain \/ FixSecrets \/ FixSources \/ RewriteStep \/ RewriteAgain \/ ClearErased
           \/ CleanSources \/ ForgetSources \/ UnbindAll
    PROVE  SignInv'
<1>1. ASSUME NEW f, NEW at, NEW next, Rewrite(f, at, next), next \in {"rewriteSources", "rewriteSubjects", "rewriteSigs", "finish"}
      PROVE  SignInv'
  <2>1. UNCHANGED <<evidence, sigs, signing>> /\ pc' \in {next, "idle"}
    BY <1>1 DEF Rewrite, sigVars
  <2> QED BY <1>1, <2>1, SignRest
<1>2. CASE RewriteSecrets \/ RewriteSources \/ RewriteSubjects \/ RewriteAgain
  BY <1>1, <1>2 DEF RewriteSecrets, RewriteSources, RewriteSubjects, RewriteAgain
<1>3. CASE RewriteSigs \/ Finish \/ Return \/ Crash \/ RepairStart \/ RepairChain \/ FixSecrets \/ FixSources
           \/ ClearErased \/ CleanSources \/ ForgetSources \/ UnbindAll
  <2>1. UNCHANGED <<evidence, sigs, signing>>
    BY <1>3 DEF RewriteSigs, Finish, Return, Crash, RepairStart, RepairChain, FixSecrets, FixSources, ClearErased,
        CleanSources, ForgetSources, UnbindAll, folderVars, sigVars
  <2>2. pc' \in {"idle", "return", "scan", "fixSecrets", "fixSources", "fixSigs", "rewriteSecrets",
                "clear", "rewriteAgain", "finish", "forgetSources", "unbind"}
    BY <1>3 DEF RewriteSigs, Finish, Return, Crash, RepairStart, RepairChain, FixSecrets, FixSources, ClearErased,
        CleanSources, ForgetSources, UnbindAll, ReturnWith, RepairFails
  <2> QED BY <2>1, <2>2, SignRest
<1>4. CASE TakeBackup \/ RestoreIndex \/ RequireRecordSigning
  <2>1. UNCHANGED <<evidence, sigs>> /\ (signing' => signing \/ evidence = {}) /\ pc' = "idle"
    BY <1>4 DEF TakeBackup, RestoreIndex, RequireRecordSigning, folderVars, sigVars, callVars
  <2> QED BY <2>1, SignRest
<1> QED BY <1>2, <1>3, <1>4 DEF RewriteStep

\* openRecordSigning: a call's signer matches the sink's mode.
LEMMA SignStarts == ASSUME SignInv, CommitCall \/ EraseCall \/ ResumeCall PROVE SignInv'
<1>1. UNCHANGED <<evidence, sigs, signing>>
  BY DEF CommitCall, CommitStart, EraseCall, ResumeCall, EraseStart, folderVars, sigVars
<1>2. CASE pc' = "return"
  BY <1>1, <1>2, SignRest
<1>3. ASSUME NEW s, ~ModeMismatch(s), call'.signer = s, pc' \in {"plan", "bind", "relinked", "presign"} PROVE SignInv'
  <2>1. SignedEntries'
    BY <1>1, SignedKept DEF SignInv
  <2>2. SignerMode'
    BY <1>1, <1>3 DEF SignerMode, ModeMismatch
  <2> QED BY <1>3, <2>1, <2>2 DEF SignInv, SignatureFirst, ErasedSecond
<1>4. ASSUME NEW b, NEW s, CommitStart(b, s), pc' # "return" PROVE SignInv'
  <2>1. call'.signer = s /\ ~ModeMismatch(s) /\ pc' \in {"plan", "bind"}
    BY <1>4 DEF CommitStart, NoCall
  <2> QED BY <1>3, <2>1
<1>5. ASSUME NEW k, NEW w, NEW s, EraseStart(k, w, s), pc' # "return" PROVE SignInv'
  <2>1. call'.signer = s /\ ~ModeMismatch(s) /\ pc' \in {"relinked", "presign"}
    BY <1>5 DEF EraseStart, NoCall
  <2> QED BY <1>3, <2>1
<1> QED BY <1>2, <1>4, <1>5 DEF CommitCall, EraseCall, ResumeCall

\* The steps of a commit around the signatures.
LEMMA SignQuietCommit ==
    ASSUME TypeInv, SignInv, BindAll \/ PlanCommit \/ PutSecrets \/ PutSources \/ CleanSecrets
    PROVE  SignInv'
<1>1. UNCHANGED <<evidence, sigs, signing>>
  BY DEF BindAll, PlanCommit, PutSecrets, PutSources, CleanSecrets, folderVars, sigVars
<1>2. Advanced
  BY DEF BindAll, PlanCommit, PutSecrets, PutSources, CleanSecrets, ReturnWith, Advanced
<1>3. call'.signer = call.signer
  BY <1>2, AdvancedKeeps DEF SameCall, TypeInv, TypeOK
<1>4. /\ pc' \in {"putSources", "append"} => ~call.signer \/ (pc \in {"putSources", "append"} /\ plan' = plan)
      /\ pc' \in {"plan", "return", "forgetSources", "putSecrets", "putSigs", "putSources", "append", "cleanSecrets",
                  "cleanSigs", "cleanSources"}
      /\ pc' \in ModePcs => pc \in ModePcs
      /\ pc' = "putSigs" => call.signer
  BY DEF BindAll, PlanCommit, PutSecrets, PutSources, CleanSecrets, ReturnWith, ModePcs, StartPcs, WritePcs, ErasePcs
<1> QED BY <1>1, <1>3, <1>4, SignFrame

LEMMA SignPut == ASSUME TypeInv, SignInv, PutSigs PROVE SignInv'
<1>1. /\ UNCHANGED <<evidence, plan, call>> /\ pc = "putSigs" /\ call.signer /\ pc' \in {"putSources", "cleanSecrets"}
      /\ signing \/ evidence = {}
      /\ sigs \subseteq sigs'
      /\ pc' = "putSources" => signing' /\ \A e \in plan : SigRow(e) \in sigs'
  BY DEF PutSigs, TxError, sigVars, SignInv, SignerMode, ModePcs, WritePcs
<1>2. SignedEntries'
  BY <1>1, SignedKept DEF SignInv
<1>3. SignatureFirst'
  BY <1>1 DEF SignatureFirst, SigRow
<1> QED BY <1>1, <1>2, <1>3 DEF SignInv, SignerMode, ErasedSecond, ModePcs, WritePcs, StartPcs, ErasePcs

LEMMA SignAppend == ASSUME TypeInv, SignInv, AppendChains PROVE SignInv'
<1>1. UNCHANGED <<plan, sigs, signing>> /\ pc = "append"
      /\ (evidence' = evidence \/ (evidence' = evidence \cup plan /\ pc' = "return"))
      /\ pc' \in {"return", "cleanSecrets"}
  BY DEF AppendChains, TxError, ReturnWith, sigVars
<1>2. signing => \A e \in plan : SigRow(e) \in sigs
  BY <1>1 DEF SignInv, SignatureFirst, SignerMode, ModePcs, WritePcs
<1>3. SignedEntries'
  BY <1>1, <1>2 DEF SignInv, SignedEntries, SigRow
<1> QED BY <1>1, <1>3 DEF SignInv, SignatureFirst, SignerMode, ErasedSecond, ModePcs, WritePcs, StartPcs, ErasePcs

\* Deleting signatures by the ids of entries that are not on their chain.
LEMMA SignCut ==
    ASSUME SignedEntries, UNCHANGED <<evidence, signing>>, NEW ks, sigs \ ks \subseteq sigs',
           \A d \in evidence : SigRow(d) \notin ks
    PROVE  SignedEntries'
BY SignedKept

LEMMA SignClean == ASSUME TypeInv, OpensInv, EndInv, SignInv, CleanSigs PROVE SignInv'
<1>1. UNCHANGED <<evidence, plan, signing>> /\ pc = "cleanSigs" /\ pc' = "cleanSources" /\ sigs \ Keys(plan) \subseteq sigs'
  BY DEF CleanSigs, TxError
<1>2. ASSUME NEW d \in evidence, SigRow(d) \in Keys(plan) PROVE FALSE
  <2>1. PICK e \in plan : SigRow(d) = [chain |-> e.chain, id |-> e.id]
    BY <1>2 DEF Keys
  <2>2. d.chain = e.chain /\ d.id = e.id
    BY <2>1 DEF SigRow
  <2>3. d.type = "erasure"
    BY <1>1, <2>2 DEF OpensInv, FreshIds
  <2>4. ~Erased(e.chain)
    BY <1>1 DEF EndInv, OpenChains, CleanPcs
  <2> QED BY <2>2, <2>3, <2>4 DEF Erased, EntriesOf
<1>3. SignedEntries'
  BY <1>1, <1>2, SignCut DEF SignInv
<1> QED BY <1>1, <1>3 DEF SignInv, SignatureFirst, SignerMode, ErasedSecond, ModePcs, WritePcs, StartPcs, ErasePcs

\* The steps of an erasure around the signatures.
LEMMA SignQuietErase ==
    ASSUME TypeInv, OpensInv, SignInv,
           ForgetRelinked \/ Presign \/ Forget \/ PutErasureRecord \/ UndoRecord \/ EraseSecrets \/ LeftSecrets \/ EraseSources
    PROVE  SignInv'
<1>1. UNCHANGED <<evidence, sigs, signing>>
  BY DEF ForgetRelinked, Presign, Forget, PutErasureRecord, UndoRecord, EraseSecrets, LeftSecrets, EraseSources,
      folderVars, sigVars
<1>2. call'.signer = call.signer /\ (pc' \in {"eraseSources", "leftSigs"} => call'.cur = call.cur)
  <2>1. CASE Advanced
    BY <2>1, AdvancedKeeps DEF SameCall, TypeInv, TypeOK
  <2>2. ASSUME NEW t, call' = [call EXCEPT !.todo = t] PROVE call'.signer = call.signer /\ call'.cur = call.cur
    BY <2>2 DEF TypeInv, TypeOK, Calls
  <2> QED BY <2>1, <2>2 DEF ForgetRelinked, Presign, Forget, PutErasureRecord, UndoRecord, EraseSecrets, LeftSecrets,
          EraseSources, ReturnWith, StaysPending, Advanced
<1>3. /\ pc \in ModePcs
      /\ pc' \in {"relinked", "presign", "return", "nextChain", "forget", "putRecordSig", "appendErasure", "undoSig",
                  "eraseSources", "leftSigs"}
      /\ pc' = "appendErasure" => ~call.signer
      /\ pc' = "putRecordSig" => call.signer
      /\ pc' = "leftSigs" => EntriesOf(call.cur) = {}
      /\ pc' = "eraseSources" => pc \in {"eraseSecrets", "leftSecrets"}
  BY DEF ForgetRelinked, Presign, Forget, PutErasureRecord, UndoRecord, EraseSecrets, LeftSecrets, EraseSources,
      ReturnWith, StaysPending, ModePcs, ErasePcs
<1>4. pc' \in {"eraseSources", "leftSigs"} => ErasedSecond'
  BY <1>1, <1>2, <1>3, SameEntries DEF ErasedSecond, OpensInv, ErasedFirst
<1> QED BY <1>1, <1>2, <1>3, <1>4, SignFrame

LEMMA SignNextChain == ASSUME TypeInv, SignInv, NextChain PROVE SignInv'
<1>1. UNCHANGED <<evidence, sigs, signing>> /\ pc = "nextChain"
      /\ pc' \in {"rewriteSecrets", "nextChain", "leftSecrets", "eraseSecrets", "putRecord"}
  BY DEF NextChain, folderVars, sigVars
<1>2. call'.signer = call.signer
  <2>1. ASSUME NEW c, Took(c) PROVE call'.signer = call.signer
    BY <2>1, TookKeeps DEF SameCall, TypeInv, TypeOK
  <2>2. CASE call' = [call EXCEPT !.cur = None]
    BY <2>2 DEF TypeInv, TypeOK, Calls
  <2> QED BY <2>1, <2>2 DEF NextChain, Took
<1> QED BY <1>1, <1>2, SignFrame DEF ModePcs, ErasePcs

LEMMA SignPutErasure == ASSUME TypeInv, SignInv, PutErasureSig PROVE SignInv'
<1>1. /\ UNCHANGED <<evidence, plan, call>> /\ pc = "putRecordSig" /\ call.signer /\ pc' \in {"appendErasure", "undoRecord"}
      /\ signing \/ evidence = {}
      /\ signing => signing'
      /\ sigs \subseteq sigs'
      /\ pc' = "appendErasure" => signing' /\ \A e \in Presigned : SigRow(e) \in sigs'
  BY DEF PutErasureSig, TxError, sigVars, SignInv, SignerMode, ModePcs, ErasePcs
<1>2. SignedEntries'
  BY <1>1, SignedKept DEF SignInv
<1>3. SignatureFirst'
  BY <1>1, PresignedFrame DEF SignatureFirst, SigRow
<1> QED BY <1>1, <1>2, <1>3 DEF SignInv, SignerMode, ErasedSecond

LEMMA SignAppendErasure == ASSUME TypeInv, SignInv, AppendErasure PROVE SignInv'
<1>1. /\ UNCHANGED <<sigs, signing>> /\ pc = "appendErasure"
      /\ evidence' \in {evidence, evidence \cup Presigned}
      /\ pc' \in {"eraseSecrets", "nextChain", "undoRecord"}
      /\ Advanced
  BY DEF AppendErasure, TxError, StaysPending, sigVars, Advanced
<1>2. call'.signer = call.signer
  BY <1>1, AdvancedKeeps DEF SameCall, TypeInv, TypeOK
<1>3. /\ call.signer => signing
      /\ signing => call.signer /\ \A e \in Presigned : SigRow(e) \in sigs
  BY <1>1 DEF SignInv, SignatureFirst, SignerMode, ModePcs, ErasePcs
<1>4. SignedEntries'
  BY <1>1, <1>3 DEF SignInv, SignedEntries, SigRow
<1> QED BY <1>1, <1>2, <1>3, <1>4 DEF SignInv, SignatureFirst, SignerMode, ErasedSecond

LEMMA SignUndo == ASSUME TypeInv, OpensInv, EndInv, SignInv, UndoSig PROVE SignInv'
<1>1. /\ UNCHANGED <<evidence, signing>> /\ pc = "undoSig" /\ pc' = "nextChain" /\ sigs \ Keys(Presigned) \subseteq sigs'
      /\ Advanced
  BY DEF UndoSig, TxError, StaysPending, Advanced
<1>2. call'.signer = call.signer
  BY <1>1, AdvancedKeeps DEF SameCall, TypeInv, TypeOK
<1>3. ASSUME NEW d \in evidence, SigRow(d) \in Keys(Presigned) PROVE FALSE
  <2>1. PICK e \in Presigned : SigRow(d) = [chain |-> e.chain, id |-> e.id]
    BY <1>3 DEF Keys
  <2>2. d.chain = call.cur /\ d.id = e.id /\ e \in plan
    BY <2>1 DEF SigRow, Presigned
  <2>3. d.type = "erasure"
    BY <1>1, <2>2 DEF OpensInv, FreshIds
  <2>4. ~Erased(call.cur)
    BY <1>1 DEF EndInv, Marked, EntryPcs
  <2> QED BY <2>2, <2>3, <2>4 DEF Erased, EntriesOf
<1>4. SignedEntries'
  BY <1>1, <1>3, SignCut DEF SignInv
<1> QED BY <1>1, <1>2, <1>4 DEF SignInv, SignatureFirst, SignerMode, ErasedSecond, ModePcs, ErasePcs

LEMMA SignLeft == ASSUME TypeInv, SignInv, LeftSigs \/ FixSigs PROVE SignInv'
<1>1. UNCHANGED <<evidence, signing>> /\ Advanced
  BY DEF LeftSigs, FixSigs, TxError, StaysPending, RepairFails, Advanced
<1>2. call'.signer = call.signer
  BY <1>1, AdvancedKeeps DEF SameCall, TypeInv, TypeOK
<1>3. CASE LeftSigs
  <2>1. pc = "leftSigs" /\ pc' = "nextChain" /\ {r \in sigs : r.chain # call.cur} \subseteq sigs'
    BY <1>3 DEF LeftSigs, TxError, StaysPending
  <2>2. \A d \in evidence : d.chain # call.cur /\ SigRow(d).chain = d.chain
    BY <2>1 DEF SignInv, ErasedSecond, EntriesOf, SigRow
  <2>3. SignedEntries'
    BY <1>1, <2>1, <2>2, SignedKept DEF SignInv
  <2> QED BY <1>1, <1>2, <2>1, <2>3 DEF SignInv, SignatureFirst, SignerMode, ErasedSecond, ModePcs, ErasePcs
<1>4. CASE FixSigs
  <2>1. sigs \ UnmatchedSigs(call.cur) \subseteq sigs' /\ pc' \in {"scan", "rewriteSecrets"}
    BY <1>4 DEF FixSigs, TxError, RepairFails
  <2>2. \A d \in evidence : SigRow(d) \notin UnmatchedSigs(call.cur)
    BY DEF SigRow, UnmatchedSigs, IsEntry
  <2>3. SignedEntries'
    BY <1>1, <2>1, <2>2, SignCut DEF SignInv
  <2> QED BY <2>1, <2>3 DEF SignInv, SignatureFirst, SignerMode, ErasedSecond, ModePcs, WritePcs, StartPcs, ErasePcs
<1> QED BY <1>3, <1>4

LEMMA SignNext == ASSUME TypeInv, OpensInv, EndInv, SignInv, [Next]_vars PROVE SignInv'
<1>1. CASE UNCHANGED vars
  <2>1. UNCHANGED <<evidence, sigs, signing, plan, pc, call>>
    BY <1>1 DEF vars, folderVars, sigVars, callVars
  <2>2. SignatureFirst' /\ ErasedSecond' /\ SignerMode'
    BY <2>1, SameEntries, PresignedFrame DEF SignInv, SignatureFirst, ErasedSecond, SignerMode, SigRow
  <2> QED BY <2>1, <2>2, SignedKept DEF SignInv
<1>2. CASE CommitStep
  BY <1>2, SignQuiet, SignQuietCommit, SignPut, SignAppend, SignClean DEF CommitStep
<1>3. CASE EraseStep
  BY <1>3, SignQuiet, SignQuietErase, SignNextChain, SignPutErasure, SignAppendErasure, SignUndo, SignLeft DEF EraseStep
<1>4. CASE RepairStep
  BY <1>4, SignQuiet, SignLeft DEF RepairStep
<1> QED BY <1>1, <1>2, <1>3, <1>4, SignQuiet, SignStarts DEF Next, CallStep

LEMMA SignInit == Init => SignInv
BY DEF Init, FolderInit, CallInit, SignInv, SignatureFirst, SignerMode, ErasedSecond, SignedEntries,
    ModePcs, StartPcs, WritePcs, ErasePcs

-----------------------------------------------------------------------------
(* A source is committed once to a chain *)

Positioned(e) == e.origin # None => PositionRow(e) \in sources

\* The position of a sourced entry is kept until its chain is erased.
Placed == \A e \in evidence : ~Erased(e.chain) => Positioned(e)

\* A commit plans no source that its chain holds, and none twice.
NewSources ==
    /\ pc \in WritePcs \cup CleanPcs =>
          \A e \in plan, d \in evidence : d.chain = e.chain /\ d.origin = e.origin => d.origin = None
    /\ pc \in WritePcs =>
          \A d, e \in plan : d.chain = e.chain /\ d.origin = e.origin /\ d.origin # None => d = e

\* Positions are stored before the entries they point at are appended.
PositionFirst == pc = "append" => \A e \in plan : Positioned(e)

PlaceInv == Placed /\ NewSources /\ PositionFirst /\ SourceAtMostOnce

LEMMA PlacedKept ==
    ASSUME Placed, UNCHANGED evidence,
           \A d \in evidence : d.origin # None /\ ~Erased(d.chain) /\ PositionRow(d) \in sources => PositionRow(d) \in sources'
    PROVE  Placed'
<1> SUFFICES ASSUME NEW e \in evidence, ~Erased(e.chain), e.origin # None PROVE PositionRow(e) \in sources'
  BY SameEntries DEF Placed, Positioned, PositionRow
<1>1. PositionRow(e) \in sources
  BY DEF Placed, Positioned
<1> QED BY <1>1

\* A step that appends nothing and keeps the positions of the entries.
LEMMA PlaceFrame ==
    ASSUME PlaceInv, UNCHANGED evidence,
           \A d \in evidence : d.origin # None /\ ~Erased(d.chain) /\ PositionRow(d) \in sources => PositionRow(d) \in sources',
           pc' \in WritePcs \cup CleanPcs => pc \in WritePcs \cup CleanPcs /\ plan' = plan,
           pc' \in WritePcs => pc \in WritePcs,
           pc' = "append" => PositionFirst'
    PROVE  PlaceInv'
<1>1. Placed'
  BY PlacedKept DEF PlaceInv
<1>2. NewSources'
  BY DEF PlaceInv, NewSources
<1>3. PositionFirst' /\ SourceAtMostOnce'
  BY DEF PlaceInv, PositionFirst, SourceAtMostOnce
<1> QED BY <1>1, <1>2, <1>3 DEF PlaceInv

LEMMA PlaceQuiet ==
    ASSUME PlaceInv,
           \/ BindAll \/ PutSecrets \/ PutSigs \/ CleanSecrets \/ CleanSigs \/ UnbindAll
           \/ ForgetRelinked \/ Presign \/ Forget \/ NextChain \/ PutErasureRecord \/ PutErasureSig \/ UndoRecord
           \/ UndoSig \/ EraseSecrets \/ LeftSecrets \/ LeftSigs \/ ClearErased
           \/ RepairChain \/ FixSecrets \/ FixSigs \/ RewriteStep \/ RewriteAgain
           \/ CommitCall \/ EraseCall \/ ResumeCall \/ RepairStart \/ RequireRecordSigning
           \/ Return \/ Crash \/ TakeBackup \/ RestoreIndex
    PROVE  PlaceInv'
<1>1. CASE BindAll \/ PutSecrets \/ PutSigs \/ CleanSecrets \/ CleanSigs \/ UnbindAll
  <2>1. UNCHANGED <<evidence, sources, plan>>
    BY <1>1 DEF BindAll, PutSecrets, PutSigs, CleanSecrets, CleanSigs, UnbindAll
  <2>2. /\ pc' \in WritePcs \cup CleanPcs => pc \in WritePcs \cup CleanPcs
        /\ pc' \in WritePcs => pc \in WritePcs
        /\ pc' # "append"
    BY <1>1 DEF BindAll, PutSecrets, PutSigs, CleanSecrets, CleanSigs, UnbindAll, ReturnWith, WritePcs, CleanPcs
  <2> QED BY <2>1, <2>2, PlaceFrame
<1>2. CASE ForgetRelinked \/ Presign \/ Forget \/ NextChain \/ PutErasureRecord \/ PutErasureSig \/ UndoRecord
           \/ UndoSig \/ EraseSecrets \/ LeftSecrets \/ LeftSigs \/ ClearErased
  <2>1. UNCHANGED <<evidence, sources>>
    BY <1>2 DEF ForgetRelinked, Presign, Forget, NextChain, PutErasureRecord, PutErasureSig, UndoRecord, UndoSig,
        EraseSecrets, LeftSecrets, LeftSigs, ClearErased, folderVars
  <2>2. pc' \notin WritePcs \cup CleanPcs
    BY <1>2 DEF ForgetRelinked, Presign, Forget, NextChain, PutErasureRecord, PutErasureSig, UndoRecord, UndoSig,
        EraseSecrets, LeftSecrets, LeftSigs, ClearErased, ReturnWith, StaysPending, WritePcs, CleanPcs
  <2> QED BY <2>1, <2>2, PlaceFrame DEF WritePcs
<1>3. CASE RepairChain \/ FixSecrets \/ FixSigs \/ RewriteStep \/ RewriteAgain
  <2>1. UNCHANGED <<evidence, sources>>
    BY <1>3 DEF RepairChain, FixSecrets, FixSigs, RewriteStep, RewriteSecrets, RewriteSources, RewriteSubjects,
        RewriteSigs, Finish, RewriteAgain, Rewrite, folderVars
  <2>2. pc' \notin WritePcs \cup CleanPcs
    BY <1>3 DEF RepairChain, FixSecrets, FixSigs, RewriteStep, RewriteSecrets, RewriteSources, RewriteSubjects,
        RewriteSigs, Finish, RewriteAgain, Rewrite, RepairFails, ReturnWith, WritePcs, CleanPcs
  <2> QED BY <2>1, <2>2, PlaceFrame DEF WritePcs
<1>4. CASE CommitCall \/ EraseCall \/ ResumeCall \/ RepairStart \/ RequireRecordSigning \/ Return \/ Crash
           \/ TakeBackup \/ RestoreIndex
  <2>1. UNCHANGED <<evidence, sources>>
    BY <1>4 DEF CommitCall, CommitStart, EraseCall, ResumeCall, EraseStart, RepairStart, RequireRecordSigning, Return,
        Crash, TakeBackup, RestoreIndex, folderVars
  <2>2. pc' \notin WritePcs \cup CleanPcs
    BY <1>4 DEF CommitCall, CommitStart, EraseCall, ResumeCall, EraseStart, RepairStart, RequireRecordSigning, Return,
        Crash, TakeBackup, RestoreIndex, callVars, WritePcs, CleanPcs
  <2> QED BY <2>1, <2>2, PlaceFrame DEF WritePcs
<1> QED BY <1>1, <1>2, <1>3, <1>4

\* A record has one planned entry.
LEMMA PlannedOne ==
    ASSUME nextId \in Nat, NEW b \in Seq(Records), NEW d \in Planned(b), NEW e \in Planned(b), d.id = e.id
    PROVE  d = e
<1> DEFINE kept == {i \in DOMAIN b : ~Duplicate(b, i)}
           before(i) == {j \in kept : j < i /\ b[j].pair = b[i].pair}
           place(i) == TailSeq(forward[b[i].pair]) + 1 + Cardinality(before(i))
           entry(i) == [chain |-> forward[b[i].pair], seq |-> place(i),
                        id |-> nextId + i - 1, type |-> "event",
                        commits |-> ContentOf(b[i]), origin |-> b[i].source]
<1>1. Planned(b) = {entry(i) : i \in kept}
  BY DEF Planned
<1> HIDE DEF place
<1>2. PICK i \in kept, j \in kept : d = entry(i) /\ e = entry(j)
  BY <1>1
<1>3. i \in Nat /\ j \in Nat /\ nextId + i - 1 = nextId + j - 1
  BY <1>2
<1>4. i = j
  BY <1>3
<1> QED BY <1>2, <1>4

\* Every kept record has a planned entry.
LEMMA PlannedKept ==
    ASSUME NEW b, NEW i \in DOMAIN b, ~Duplicate(b, i)
    PROVE  \E e \in Planned(b) : e.chain = forward[b[i].pair] /\ e.commits = ContentOf(b[i]) /\ e.origin = b[i].source
<1> DEFINE kept == {k \in DOMAIN b : ~Duplicate(b, k)}
           before(k) == {j \in kept : j < k /\ b[j].pair = b[k].pair}
           place(k) == TailSeq(forward[b[k].pair]) + 1 + Cardinality(before(k))
           entry(k) == [chain |-> forward[b[k].pair], seq |-> place(k),
                        id |-> nextId + k - 1, type |-> "event",
                        commits |-> ContentOf(b[k]), origin |-> b[k].source]
<1>1. Planned(b) = {entry(k) : k \in kept}
  BY DEF Planned
<1> HIDE DEF place
<1>2. entry(i) \in Planned(b)
  BY <1>1
<1> QED BY <1>2

\* dropDuplicates: what is planned is not on the chain, and not planned twice.
LEMMA PlacePlan == ASSUME TypeInv, IndexInv, EndInv, PlaceInv, PlanCommit PROVE PlaceInv'
<1>1. UNCHANGED <<evidence, sources, forward>> /\ pc = "plan" /\ pc' \in {"forgetSources", "putSecrets", "return"}
      /\ plan' \in {plan, Planned(call.batch)} /\ plan = {}
  BY DEF PlanCommit, ReturnWith, folderVars, indexVars, EndInv, CallKinds, StartPcs
<1> DEFINE b == call.batch
<1>2. b \in Seq(Records) /\ nextId \in Nat /\ forward \in [Pairs -> Chains \cup {None}] /\ PairsOf(b) \subseteq Pairs
  BY CallFields, PairsOfType DEF TypeInv, TypeOK, FolderTypeOK
<1>3. \A p \in PairsOf(b) : forward[p] # None /\ ~Erased(forward[p]) /\ reverse[forward[p]] = p
  BY <1>1, <1>2 DEF TypeInv, BatchBound, EndInv, OpenChains, StartPcs, IndexInv, Agree
<1>4. \A i \in DOMAIN b : b[i].pair \in PairsOf(b)
  BY DEF PairsOf
<1> HIDE DEF b
<1>5. ASSUME NEW e \in Planned(b), NEW d \in evidence, d.chain = e.chain, d.origin = e.origin, d.origin # None PROVE FALSE
  <2>1. PICK i \in DOMAIN b : ~Duplicate(b, i) /\ e.chain = forward[b[i].pair] /\ e.origin = b[i].source
    BY PlannedShape
  <2>2. PositionRow(d) \in sources
    BY <1>3, <1>4, <1>5, <2>1 DEF PlaceInv, Placed, Positioned
  <2>3. PositionRow(d).chain = d.chain /\ PositionRow(d).source = d.origin /\ PositionRow(d).id = d.id /\ PositionRow(d).seq = d.seq
    BY DEF PositionRow
  <2>4. d \in CommittedAs(b[i])
    BY <1>5, <2>1, <2>2, <2>3 DEF CommittedAs, EntriesOf
  <2> QED BY <1>5, <2>1, <2>4 DEF Duplicate
<1>6. ASSUME NEW d \in Planned(b), NEW e \in Planned(b), d.chain = e.chain, d.origin = e.origin, d.origin # None PROVE d = e
  <2>1. PICK i \in DOMAIN b : ~Duplicate(b, i) /\ d.chain = forward[b[i].pair] /\ d.origin = b[i].source /\ d.id = nextId + i - 1
    BY PlannedShape
  <2>2. PICK j \in DOMAIN b : ~Duplicate(b, j) /\ e.chain = forward[b[j].pair] /\ e.origin = b[j].source /\ e.id = nextId + j - 1
    BY PlannedShape
  <2>3. b[i].pair = b[j].pair /\ b[i].source = b[j].source
    <3>1. reverse[forward[b[i].pair]] = b[i].pair /\ reverse[forward[b[j].pair]] = b[j].pair
      BY <1>3, <1>4
    <3>2. forward[b[i].pair] = forward[b[j].pair] /\ b[i].source = b[j].source
      BY <1>6, <2>1, <2>2
    <3> QED BY <3>1, <3>2
  <2>4. ~GivenBefore(b, i) /\ ~GivenBefore(b, j)
    BY <1>6, <2>1, <2>2 DEF Duplicate
  <2>5. ~(i < j) /\ ~(j < i)
    BY <2>3, <2>4 DEF GivenBefore
  <2>6. i \in Nat /\ j \in Nat
    BY <1>2
  <2>7. i = j
    BY <2>5, <2>6
  <2> QED BY <1>2, <2>1, <2>2, <2>7, PlannedOne
<1>7. Placed' /\ SourceAtMostOnce'
  BY <1>1, PlacedKept DEF PlaceInv, SourceAtMostOnce
<1>8. NewSources'
  BY <1>1, <1>5, <1>6 DEF NewSources, b
<1> QED BY <1>1, <1>7, <1>8 DEF PlaceInv, PositionFirst

\* src.putAll replaces positions of entries that are not on the chain.
LEMMA PlacePut == ASSUME PlaceInv, PutSources PROVE PlaceInv'
<1>1. UNCHANGED <<evidence, plan>> /\ pc = "putSources" /\ pc' \in {"append", "cleanSecrets"}
  BY DEF PutSources
<1>2. /\ sources' = sources \/ sources' = (sources \ ReplacedBy(Positions(plan))) \cup Positions(plan)
      /\ pc' = "append" => Positions(plan) \subseteq sources'
  BY DEF PutSources, TxError
<1>3. ASSUME NEW d \in evidence, d.origin # None PROVE PositionRow(d) \notin ReplacedBy(Positions(plan))
  <2>1. SUFFICES ASSUME NEW n \in Positions(plan), n.chain = PositionRow(d).chain, n.source = PositionRow(d).source PROVE FALSE
    BY DEF ReplacedBy
  <2>2. PICK e \in plan : n = PositionRow(e)
    BY DEF Positions
  <2>3. e.chain = d.chain /\ e.origin = d.origin
    BY <2>1, <2>2 DEF PositionRow
  <2> QED BY <1>1, <1>3, <2>3 DEF PlaceInv, NewSources, WritePcs
<1>4. pc' = "append" => PositionFirst'
  BY <1>1, <1>2 DEF PositionFirst, Positioned, Positions, PositionRow
<1> QED BY <1>1, <1>2, <1>3, <1>4, PlaceFrame DEF WritePcs, CleanPcs

\* A failed commit deletes its own positions, and those of chains it drew.
LEMMA PlaceClean == ASSUME EndInv, PlaceInv, CleanSources \/ ForgetSources PROVE PlaceInv'
<1>1. UNCHANGED <<evidence, plan>> /\ pc \in CleanPcs /\ pc' \in {"cleanSources", "forgetSources", "unbind", "return"}
  BY DEF CleanSources, ForgetSources, ReturnWith, CleanPcs
<1>2. ASSUME NEW d \in evidence, d.origin # None, PositionRow(d) \in sources PROVE PositionRow(d) \in sources'
  <2>1. PositionRow(d).chain = d.chain
    BY DEF PositionRow
  <2>2. PositionRow(d) \notin Positions(plan)
    <3>1. SUFFICES ASSUME NEW e \in plan, PositionRow(d) = PositionRow(e) PROVE FALSE
      BY DEF Positions
    <3>2. e.chain = d.chain /\ e.origin = d.origin
      BY <3>1 DEF PositionRow
    <3> QED BY <1>1, <1>2, <3>2 DEF PlaceInv, NewSources
  <2>3. \A x \in fresh : x.chain # d.chain
    BY <1>1 DEF EndInv, OpenChains, EntriesOf
  <2>4. CASE CleanSources
    BY <1>2, <2>2, <2>4 DEF CleanSources, TxError
  <2>5. CASE ForgetSources
    BY <1>2, <2>1, <2>3, <2>5 DEF ForgetSources, TxError
  <2> QED BY <2>4, <2>5
<1> QED BY <1>1, <1>2, PlaceFrame DEF WritePcs, CleanPcs

LEMMA PlaceErase == ASSUME EndInv, SignInv, PlaceInv, EraseSources \/ FixSources PROVE PlaceInv'
<1>1. UNCHANGED evidence /\ pc' \notin WritePcs \cup CleanPcs
  BY DEF EraseSources, FixSources, StaysPending, RepairFails, WritePcs, CleanPcs
<1>2. ASSUME NEW d \in evidence, d.origin # None, ~Erased(d.chain), PositionRow(d) \in sources PROVE PositionRow(d) \in sources'
  <2>1. PositionRow(d).chain = d.chain /\ PositionRow(d).id = d.id /\ PositionRow(d).seq = d.seq
    BY DEF PositionRow
  <2>2. CASE EraseSources
    <3>1. d.chain # call.cur
      BY <1>2, <2>2 DEF EraseSources, SignInv, ErasedSecond, EntriesOf
    <3> QED BY <1>2, <2>1, <2>2, <3>1 DEF EraseSources, TxError
  <2>3. CASE FixSources
    <3>1. Stands(PositionRow(d))
      BY <2>1 DEF Stands
    <3> QED BY <1>2, <2>3, <3>1 DEF FixSources, DanglingSources, TxError
  <2> QED BY <2>2, <2>3
<1> QED BY <1>1, <1>2, PlaceFrame DEF WritePcs

LEMMA PlaceAppend == ASSUME PlaceInv, AppendChains PROVE PlaceInv'
<1>1. UNCHANGED <<plan, sources>> /\ pc = "append"
      /\ (evidence' = evidence \/ (evidence' = evidence \cup plan /\ pc' = "return"))
      /\ pc' \in {"return", "cleanSecrets"}
  BY DEF AppendChains, TxError, ReturnWith
<1>2. CASE evidence' = evidence
  BY <1>1, <1>2, PlaceFrame DEF WritePcs, CleanPcs
<1>3. CASE evidence' = evidence \cup plan /\ pc' = "return"
  <2>1. Placed'
    BY <1>1, <1>3 DEF PlaceInv, Placed, PositionFirst, Positioned, PositionRow, Erased, EntriesOf
  <2>2. SourceAtMostOnce'
    <3> SUFFICES ASSUME NEW d \in evidence', NEW e \in evidence', d.chain = e.chain, d.origin = e.origin, d.origin # None
                 PROVE  d = e
      BY DEF SourceAtMostOnce
    <3>1. CASE d \in evidence /\ e \in evidence
      BY <3>1 DEF PlaceInv, SourceAtMostOnce
    <3>2. CASE d \in plan /\ e \in plan
      BY <1>1, <3>2 DEF PlaceInv, NewSources, WritePcs
    <3>3. CASE d \in plan /\ e \in evidence
      BY <1>1, <3>3 DEF PlaceInv, NewSources, WritePcs
    <3>4. CASE d \in evidence /\ e \in plan
      BY <1>1, <3>4 DEF PlaceInv, NewSources, WritePcs
    <3> QED BY <1>3, <3>1, <3>2, <3>3, <3>4
  <2> QED BY <1>3, <2>1, <2>2 DEF PlaceInv, NewSources, PositionFirst, WritePcs, CleanPcs
<1> QED BY <1>1, <1>2, <1>3

LEMMA PlaceAppendErasure == ASSUME TypeInv, OpensInv, PlaceInv, AppendErasure PROVE PlaceInv'
<1>1. /\ UNCHANGED sources /\ pc = "appendErasure" /\ pc' \in {"eraseSecrets", "nextChain", "undoRecord"}
      /\ evidence' \in {evidence, evidence \cup Presigned}
  BY DEF AppendErasure, TxError, StaysPending
<1>2. \A e \in Presigned : e.type = "erasure" /\ e.origin = None
  BY <1>1 DEF Presigned, OpensInv, ErasurePlan, TypeInv, PlanShape
<1>3. Placed'
  BY <1>1, <1>2 DEF PlaceInv, Placed, Positioned, PositionRow, Erased, EntriesOf
<1>4. SourceAtMostOnce'
  BY <1>1, <1>2 DEF PlaceInv, SourceAtMostOnce
<1> QED BY <1>1, <1>3, <1>4 DEF PlaceInv, NewSources, PositionFirst, WritePcs, CleanPcs

LEMMA PlaceNext == ASSUME TypeInv, OpensInv, IndexInv, EndInv, SignInv, PlaceInv, [Next]_vars PROVE PlaceInv'
<1>1. CASE UNCHANGED vars
  <2>1. UNCHANGED <<evidence, sources, plan, pc>>
    BY <1>1 DEF vars, folderVars, callVars
  <2>2. PositionFirst'
    BY <2>1 DEF PlaceInv, PositionFirst, Positioned, PositionRow
  <2> QED BY <2>1, <2>2, PlaceFrame
<1>2. CASE CommitStep
  BY <1>2, PlaceQuiet, PlacePlan, PlacePut, PlaceAppend, PlaceClean DEF CommitStep
<1>3. CASE EraseStep
  BY <1>3, PlaceQuiet, PlaceErase, PlaceAppendErasure DEF EraseStep
<1>4. CASE RepairStep
  BY <1>4, PlaceQuiet, PlaceErase DEF RepairStep
<1> QED BY <1>1, <1>2, <1>3, <1>4, PlaceQuiet DEF Next, CallStep

LEMMA PlaceInit == Init => PlaceInv
BY DEF Init, FolderInit, CallInit, PlaceInv, Placed, NewSources, PositionFirst, SourceAtMostOnce, WritePcs, CleanPcs

-----------------------------------------------------------------------------
(* A row belongs to one entry *)

Known == evidence \cup plan

\* No two entries share a chain and an id, and the content and the position stored
\* under an entry's chain and id are its own.
KeyInv ==
    /\ \A d, e \in Known : d.chain = e.chain /\ d.id = e.id => d = e
    /\ \A r \in secrets, e \in Known : r.chain = e.chain /\ r.id = e.id => r.value = e.commits
    /\ \A r \in sources, e \in Known : r.chain = e.chain /\ r.id = e.id => r.source = e.origin
    /\ \A r \in secrets : r.id < nextId
    /\ \A r \in sources : r.id < nextId

\* A step that plans nothing new stores only rows of entries it knows.
LEMMA KeyFrame ==
    ASSUME OpensInv, KeyInv, UNCHANGED nextId, Known' \subseteq Known,
           \A r \in secrets' : r \in secrets \/ \E e \in Known : r = SecretRow(e),
           \A r \in sources' : r \in sources \/ \E e \in Known : r = PositionRow(e)
    PROVE  KeyInv'
<1>1. \A e \in Known : /\ SecretRow(e).chain = e.chain /\ SecretRow(e).id = e.id /\ SecretRow(e).value = e.commits
                       /\ PositionRow(e).chain = e.chain /\ PositionRow(e).id = e.id /\ PositionRow(e).source = e.origin
                       /\ e.id < nextId
  BY DEF SecretRow, PositionRow, OpensInv, IdsDrawn, Known
<1>2. \A d, e \in Known' : d.chain = e.chain /\ d.id = e.id => d = e
  BY DEF KeyInv
<1>3. ASSUME NEW r \in secrets'
      PROVE  r.id < nextId /\ \A e \in Known : r.chain = e.chain /\ r.id = e.id => r.value = e.commits
  <2>1. CASE r \in secrets
    BY <2>1 DEF KeyInv
  <2>2. ASSUME NEW x \in Known, r = SecretRow(x)
        PROVE  r.id < nextId /\ \A e \in Known : r.chain = e.chain /\ r.id = e.id => r.value = e.commits
    BY <1>1, <2>2 DEF KeyInv
  <2> QED BY <2>1, <2>2
<1>4. ASSUME NEW r \in sources'
      PROVE  r.id < nextId /\ \A e \in Known : r.chain = e.chain /\ r.id = e.id => r.source = e.origin
  <2>1. CASE r \in sources
    BY <2>1 DEF KeyInv
  <2>2. ASSUME NEW x \in Known, r = PositionRow(x)
        PROVE  r.id < nextId /\ \A e \in Known : r.chain = e.chain /\ r.id = e.id => r.source = e.origin
    BY <1>1, <2>2 DEF KeyInv
  <2> QED BY <2>1, <2>2
<1> QED BY <1>2, <1>3, <1>4 DEF KeyInv

\* A plan whose ids are drawn now agrees with every row and entry.
LEMMA KeyPlanned ==
    ASSUME TypeInv, OpensInv, KeyInv, UNCHANGED <<evidence, secrets, sources>>, nextId' \in Nat, nextId <= nextId',
           \A e \in plan' : e.id \in Nat /\ nextId <= e.id,
           \A d, e \in plan' : d.chain = e.chain /\ d.id = e.id => d = e
    PROVE  KeyInv'
<1>1. nextId \in Nat
  BY DEF TypeInv, TypeOK
<1>2. \A d \in evidence : d.id \in Nat /\ d.id < nextId
  BY DEF TypeInv, TypeOK, FolderTypeOK, Entries, OpensInv, IdsDrawn
<1>3. \A r \in secrets : r.id \in Nat /\ r.id < nextId
  BY DEF TypeInv, TypeOK, FolderTypeOK, SecretRows, KeyInv
<1>4. \A r \in sources : r.id \in Nat /\ r.id < nextId
  BY DEF TypeInv, TypeOK, FolderTypeOK, PositionRows, KeyInv
<1>5. \A e \in plan' : /\ \A d \in evidence : d.id # e.id
                       /\ \A r \in secrets : r.id # e.id
                       /\ \A r \in sources : r.id # e.id
  BY <1>1, <1>2, <1>3, <1>4
<1>6. /\ \A r \in secrets : r.id < nextId'
      /\ \A r \in sources : r.id < nextId'
  BY <1>1, <1>3, <1>4
<1>7. \A d, e \in Known' : d.chain = e.chain /\ d.id = e.id => d = e
  BY <1>5 DEF KeyInv, Known
<1>8. /\ \A r \in secrets', e \in Known' : r.chain = e.chain /\ r.id = e.id => r.value = e.commits
      /\ \A r \in sources', e \in Known' : r.chain = e.chain /\ r.id = e.id => r.source = e.origin
  BY <1>5 DEF KeyInv, Known
<1> QED BY <1>6, <1>7, <1>8 DEF KeyInv

LEMMA KeyPlan == ASSUME TypeInv, OpensInv, KeyInv, PlanCommit PROVE KeyInv'
<1>1. UNCHANGED <<evidence, secrets, sources>>
  BY DEF PlanCommit, folderVars
<1>2. CASE UNCHANGED <<plan, nextId>>
  BY <1>1, <1>2, KeyFrame DEF Known
<1>3. CASE plan' = Planned(call.batch) /\ nextId' = nextId + Len(call.batch)
  <2>1. call.batch \in Seq(Records) /\ nextId \in Nat /\ Len(call.batch) \in Nat
    BY CallFields DEF TypeInv, TypeOK
  <2>2. ASSUME NEW e \in Planned(call.batch) PROVE e.id \in Nat /\ nextId <= e.id
    <3>1. PICK i \in DOMAIN call.batch : e.id = nextId + i - 1
      BY PlannedShape
    <3>2. i \in 1..Len(call.batch)
      BY <2>1
    <3> QED BY <2>1, <3>1, <3>2
  <2>3. \A d, e \in Planned(call.batch) : d.id = e.id => d = e
    BY <2>1, PlannedOne
  <2>4. nextId' \in Nat /\ nextId <= nextId'
    BY <1>3, <2>1
  <2> QED BY <1>1, <1>3, <2>2, <2>3, <2>4, KeyPlanned
<1> QED BY <1>2, <1>3 DEF PlanCommit

LEMMA KeyPresign == ASSUME TypeInv, OpensInv, KeyInv, Presign PROVE KeyInv'
<1>1. UNCHANGED <<evidence, secrets, sources>>
  BY DEF Presign, folderVars
<1>2. CASE UNCHANGED <<plan, nextId>>
  BY <1>1, <1>2, KeyFrame DEF Known
<1>3. CASE nextId' = nextId + (IF {c \in PendingRows \cup ChainsOf(call.who) : NeedsErasure(c)} = {} THEN 0 ELSE 1)
           /\ \A e \in plan' : \E c : e = ErasureEntry(c, nextId)
  <2>1. nextId \in Nat /\ nextId' \in Nat /\ nextId <= nextId'
    BY <1>3 DEF TypeInv, TypeOK
  <2>2. \A e \in plan' : e.id = nextId
    BY <1>3 DEF ErasureEntry
  <2>3. \A d, e \in plan' : d.chain = e.chain => d = e
    BY <1>3 DEF ErasureEntry
  <2> QED BY <1>1, <2>1, <2>2, <2>3, KeyPlanned
<1> QED BY <1>2, <1>3 DEF Presign

\* The steps that write content or positions store rows of planned or appended entries.
LEMMA KeyPut ==
    ASSUME TypeInv, OpensInv, KeyInv, PutSecrets \/ PutErasureRecord \/ EraseSecrets \/ PutSources
    PROVE  KeyInv'
<1>1. UNCHANGED <<evidence, plan, nextId>>
  BY DEF PutSecrets, PutErasureRecord, EraseSecrets, PutSources
<1>2. CASE PutSecrets \/ PutErasureRecord
  <2>1. UNCHANGED sources /\ Presigned \subseteq plan
    BY <1>2 DEF PutSecrets, PutErasureRecord, Presigned
  <2>2. \A r \in secrets' : r \in secrets \/ \E e \in Known : r = SecretRow(e)
    BY <1>2, <2>1 DEF PutSecrets, PutErasureRecord, TxError, Known
  <2> QED BY <1>1, <2>1, <2>2, KeyFrame DEF Known
<1>3. CASE EraseSecrets
  <2>1. UNCHANGED sources
    BY <1>3 DEF EraseSecrets
  <2>2. \A r \in secrets' : r \in secrets \/ \E e \in Known : r = SecretRow(e)
    BY <1>3 DEF EraseSecrets, TxError, Known, EntriesOf
  <2> QED BY <1>1, <2>1, <2>2, KeyFrame DEF Known
<1>4. CASE PutSources
  <2>1. UNCHANGED secrets
    BY <1>4 DEF PutSources
  <2>2. \A r \in sources' : r \in sources \/ \E e \in Known : r = PositionRow(e)
    BY <1>4 DEF PutSources, TxError, Positions, Known
  <2> QED BY <1>1, <2>1, <2>2, KeyFrame DEF Known
<1> QED BY <1>2, <1>3, <1>4

\* Every other step adds no row and no entry that was not planned.
LEMMA KeyRest ==
    ASSUME OpensInv, KeyInv, [Next]_vars,
           ~(PlanCommit \/ Presign \/ PutSecrets \/ PutErasureRecord \/ EraseSecrets \/ PutSources)
    PROVE  KeyInv'
<1>1. UNCHANGED nextId /\ Known' \subseteq Known /\ secrets' \subseteq secrets /\ sources' \subseteq sources
  <2>1. CASE UNCHANGED vars
    BY <2>1 DEF vars, folderVars, callVars, Known
  <2>2. CASE BindAll \/ PutSigs \/ AppendChains \/ CleanSecrets \/ CleanSigs \/ CleanSources \/ ForgetSources \/ UnbindAll
    BY <2>2 DEF BindAll, PutSigs, AppendChains, CleanSecrets, CleanSigs, CleanSources, ForgetSources, UnbindAll,
        TxError, Known
  <2>3. CASE ForgetRelinked \/ Forget \/ NextChain \/ PutErasureSig \/ UndoRecord
             \/ UndoSig \/ LeftSecrets \/ EraseSources \/ LeftSigs \/ ClearErased
    BY <2>3 DEF ForgetRelinked, Forget, NextChain, PutErasureSig, UndoRecord, UndoSig,
        LeftSecrets, EraseSources, LeftSigs, ClearErased, TxError, folderVars, Known
  <2>4. CASE AppendErasure
    BY <2>4 DEF AppendErasure, TxError, Known, Presigned
  <2>5. CASE RepairStep \/ RewriteStep \/ RewriteAgain
    BY <2>5 DEF RepairStep, RepairChain, FixSecrets, FixSources, FixSigs, RewriteStep, RewriteSecrets, RewriteSources,
        RewriteSubjects, RewriteSigs, Finish, RewriteAgain, Rewrite, TxError, folderVars, Known
  <2>6. CASE CommitCall \/ EraseCall \/ ResumeCall \/ RepairStart \/ RequireRecordSigning
             \/ Return \/ Crash \/ TakeBackup \/ RestoreIndex
    BY <2>6 DEF CommitCall, CommitStart, EraseCall, ResumeCall, EraseStart, RepairStart, RequireRecordSigning, Return,
        Crash, TakeBackup, RestoreIndex, folderVars, callVars, Known
  <2> QED BY <2>1, <2>2, <2>3, <2>4, <2>5, <2>6 DEF Next, CallStep, CommitStep, EraseStep
<1> QED BY <1>1, KeyFrame

LEMMA KeyNext == ASSUME TypeInv, OpensInv, KeyInv, [Next]_vars PROVE KeyInv'
BY KeyPlan, KeyPresign, KeyPut, KeyRest

LEMMA KeyInit == Init => KeyInv
BY DEF Init, FolderInit, CallInit, KeyInv, Known

-----------------------------------------------------------------------------
(* What a commit acknowledges is on the chain *)

\* Record i of batch b has an entry, on its chain or planned, whose content is stored
\* or is about to be.
HasEntry(b, i) ==
    \E e \in Known : /\ e.chain = forward[b[i].pair] /\ e.commits = ContentOf(b[i])
                     /\ b[i].source # None => e.origin = b[i].source
                     /\ e \in plan \/ SecretRow(e) \in secrets

AckInv ==
    /\ pc \in WritePcs => \A i \in DOMAIN call.batch : HasEntry(call.batch, i)
    /\ AcksAreOnChain

\* A nonempty set of numbers has a least one.
LEMMA LeastNumber == ASSUME NEW T, T \subseteq Nat, T # {} PROVE \E m \in T : \A n \in T : m <= n
<1> DEFINE R == OpToRel(<, Nat)
<1>1. \A m, n \in Nat : m < n => <<m, n>> \in R
  BY DEF OpToRel
<1>2. IsWellFoundedOn(R, Nat)
  BY NatLessThanWellFounded
<1>3. PICK m \in T : \A n \in T : ~ (<<n, m>> \in R)
  BY <1>2, WFMin
<1> HIDE DEF R
<1>4. \A n \in T : ~ (n < m)
  BY <1>1, <1>3
<1> QED BY <1>4

\* dropDuplicates drops a record only for one with its content: of the batch, or on the chain.
LEMMA DroppedHasEntry ==
    ASSUME KeyInv, NEW b \in Seq(Records), ~ \E k \in DOMAIN b : Conflict(b, k), NEW i \in DOMAIN b
    PROVE  \/ \E e \in Planned(b) : /\ e.chain = forward[b[i].pair] /\ e.commits = ContentOf(b[i])
                                    /\ e.origin = b[i].source
           \/ \E e \in evidence : /\ e.chain = forward[b[i].pair] /\ e.commits = ContentOf(b[i])
                                  /\ e.origin = b[i].source /\ SecretRow(e) \in secrets
<1>1. CASE b[i].source = None
  <2>1. ~Duplicate(b, i)
    BY <1>1 DEF Duplicate
  <2> QED BY <2>1, PlannedKept
<1>2. CASE b[i].source # None
  <2> DEFINE T == {k \in DOMAIN b : b[k].pair = b[i].pair /\ b[k].source = b[i].source}
  <2>1. T \subseteq Nat /\ i \in T
    OBVIOUS
  <2>2. PICK j \in T : \A n \in T : j <= n
    BY <2>1, LeastNumber
  <2>3. j \in DOMAIN b /\ b[j].pair = b[i].pair /\ b[j].source = b[i].source /\ j \in Nat /\ i \in Nat /\ j <= i
    BY <2>1, <2>2
  <2>4. ~GivenBefore(b, j)
    <3>1. SUFFICES ASSUME NEW k \in DOMAIN b, k < j, b[k].pair = b[j].pair, b[k].source = b[j].source PROVE FALSE
      BY DEF GivenBefore
    <3>2. k \in T /\ k \in Nat
      BY <2>3, <3>1
    <3> QED BY <2>2, <2>3, <3>1, <3>2
  <2>5. ContentOf(b[j]) = ContentOf(b[i])
    <3>1. CASE j = i
      BY <3>1
    <3>2. CASE j < i
      <4>1. b[j].text = b[i].text
        BY <1>2, <2>3, <3>2 DEF Conflict
      <4> QED BY <2>3, <4>1 DEF ContentOf
    <3> QED BY <2>3, <3>1, <3>2
  <2>6. CASE CommittedAs(b[j]) = {}
    <3>1. ~Duplicate(b, j)
      BY <2>4, <2>6 DEF Duplicate
    <3> QED BY <2>3, <2>5, <3>1, PlannedKept
  <2>7. ASSUME NEW e \in CommittedAs(b[j])
        PROVE  /\ e \in evidence /\ e.chain = forward[b[i].pair] /\ e.commits = ContentOf(b[i])
               /\ e.origin = b[i].source /\ SecretRow(e) \in secrets
    <3>1. e \in evidence /\ e.chain = forward[b[i].pair]
      BY <2>3 DEF CommittedAs, EntriesOf
    <3>2. [chain |-> e.chain, id |-> e.id, value |-> ContentOf(b[j])] \in secrets
      BY <1>2, <2>3, <2>4 DEF Conflict
    <3>3. ContentOf(b[j]) = e.commits
      BY <3>1, <3>2 DEF KeyInv, Known
    <3>4. PICK r \in sources : r.chain = e.chain /\ r.source = b[j].source /\ r.id = e.id
      BY DEF CommittedAs
    <3>5. e.origin = b[i].source
      BY <2>3, <3>1, <3>4 DEF KeyInv, Known
    <3> QED BY <2>5, <3>1, <3>2, <3>3, <3>5 DEF SecretRow
  <2> QED BY <2>6, <2>7
<1> QED BY <1>1, <1>2

\* The batch of a call that goes on, or returns, is the batch it was given.
LEMMA SameBatch == ASSUME call \in Calls, Advanced PROVE call'.batch = call.batch /\ call.batch \in Seq(Records)
<1>1. call.batch \in Seq(Records)
  BY CallFields
<1>2. SameCall(call')
  BY AdvancedKeeps
<1> QED BY <1>1, <1>2 DEF SameCall

LEMMA AckPlan == ASSUME TypeInv, EndInv, KeyInv, AckInv, PlanCommit PROVE AckInv'
<1>1. UNCHANGED <<evidence, secrets, forward>> /\ pc' \in {"forgetSources", "putSecrets", "return"}
  BY DEF PlanCommit, ReturnWith, folderVars, indexVars
<1>2. CASE pc' = "forgetSources"
  BY <1>2 DEF AckInv, AcksAreOnChain, WritePcs
<1>3. CASE pc' # "forgetSources"
  <2> DEFINE b == call.batch
  <2>1. plan' = Planned(b) /\ ~ (\E i \in DOMAIN b : Conflict(b, i)) /\ Advanced
    BY <1>3 DEF PlanCommit, ReturnWith, Advanced
  <2>2. call'.batch = b /\ b \in Seq(Records)
    BY <2>1, SameBatch DEF TypeInv, TypeOK
  <2>3. (plan' = {}) \/ (pc' = "putSecrets")
    BY <1>3 DEF PlanCommit
  <2> HIDE DEF b
  <2>4. ASSUME NEW i \in DOMAIN b
        PROVE  \/ \E e \in Planned(b) : /\ e.chain = forward[b[i].pair] /\ e.commits = ContentOf(b[i])
                                        /\ e.origin = b[i].source
               \/ \E e \in evidence : /\ e.chain = forward[b[i].pair] /\ e.commits = ContentOf(b[i])
                                      /\ e.origin = b[i].source /\ SecretRow(e) \in secrets
    BY <2>1, <2>2, DroppedHasEntry
  <2>5. \A i \in DOMAIN call'.batch :
           \/ \E e \in plan' : /\ e.chain = forward'[call'.batch[i].pair] /\ e.commits = ContentOf(call'.batch[i])
                               /\ e.origin = call'.batch[i].source
           \/ \E e \in evidence' : /\ e.chain = forward'[call'.batch[i].pair] /\ e.commits = ContentOf(call'.batch[i])
                                   /\ e.origin = call'.batch[i].source /\ SecretRow(e) \in secrets'
    BY <1>1, <2>1, <2>2, <2>4
  <2>6. (\A i \in DOMAIN call.batch : HasEntry(call.batch, i))'
    BY <2>5 DEF HasEntry, Known, ContentOf, SecretRow
  <2>7. CASE plan' = {}
    <3>1. \A i \in DOMAIN call'.batch :
             \E e \in evidence' : /\ e.chain = forward'[call'.batch[i].pair] /\ e.commits = ContentOf(call'.batch[i])
                                  /\ e.origin = call'.batch[i].source /\ SecretRow(e) \in secrets'
      BY <2>5, <2>7
    <3>2. AcksAreOnChain'
      BY <3>1 DEF AcksAreOnChain, ContentOf, SecretRow
    <3> QED BY <2>6, <3>2 DEF AckInv
  <2>8. CASE pc' = "putSecrets"
    BY <2>6, <2>8 DEF AckInv, AcksAreOnChain
  <2> QED BY <2>3, <2>7, <2>8
<1> QED BY <1>2, <1>3

LEMMA AckPut == ASSUME TypeInv, AckInv, PutSecrets \/ PutSigs \/ PutSources PROVE AckInv'
<1>1. /\ UNCHANGED <<evidence, plan, forward, call>> /\ secrets \subseteq secrets'
      /\ pc \in WritePcs /\ pc' # "return"
  BY DEF PutSecrets, PutSigs, PutSources, TxError, indexVars, WritePcs
<1>2. \A i \in DOMAIN call.batch : HasEntry(call.batch, i)'
  BY <1>1 DEF AckInv, HasEntry, Known, ContentOf, SecretRow
<1> QED BY <1>1, <1>2 DEF AckInv, AcksAreOnChain

LEMMA AckAppend == ASSUME TypeInv, OpensInv, AckInv, AppendChains PROVE AckInv'
<1>1. UNCHANGED <<plan, secrets, forward>> /\ pc = "append" /\ pc' \in {"return", "cleanSecrets"} /\ Advanced
  BY DEF AppendChains, ReturnWith, indexVars, Advanced
<1>2. CASE ReturnWith("ok") /\ evidence' = evidence \cup plan
  <2>1. call'.batch = call.batch
    BY <1>1, SameBatch DEF TypeInv, TypeOK
  <2>2. ASSUME NEW i \in DOMAIN call.batch
        PROVE  \E e \in evidence' : /\ e.chain = forward[call.batch[i].pair] /\ e.commits = ContentOf(call.batch[i])
                                    /\ call.batch[i].source # None => e.origin = call.batch[i].source
                                    /\ SecretRow(e) \in secrets
    <3>1. PICK e \in Known : /\ e.chain = forward[call.batch[i].pair] /\ e.commits = ContentOf(call.batch[i])
                             /\ call.batch[i].source # None => e.origin = call.batch[i].source
                             /\ e \in plan \/ SecretRow(e) \in secrets
      BY <1>1 DEF AckInv, HasEntry, WritePcs
    <3>2. SecretRow(e) \in secrets
      BY <1>1, <3>1 DEF OpensInv, ContentFirst
    <3> QED BY <1>2, <3>1, <3>2 DEF Known
  <2>3. \A i \in DOMAIN call'.batch :
           \E e \in evidence' : /\ e.chain = forward'[call'.batch[i].pair] /\ e.commits = ContentOf(call'.batch[i])
                                /\ call'.batch[i].source # None => e.origin = call'.batch[i].source
                                /\ SecretRow(e) \in secrets'
    BY <1>1, <2>1, <2>2
  <2>4. AcksAreOnChain'
    BY <2>3 DEF AcksAreOnChain
  <2> QED BY <1>2, <2>4 DEF AckInv, ReturnWith, WritePcs
<1>3. CASE ReturnWith("unknown")
  <2>1. call'.outcome = "unknown" /\ pc' = "return"
    BY <1>3, ReturnedOutcome DEF TypeInv, TypeOK
  <2> QED BY <2>1 DEF AckInv, AcksAreOnChain, WritePcs
<1>4. CASE pc' = "cleanSecrets"
  BY <1>4 DEF AckInv, AcksAreOnChain, WritePcs
<1> QED BY <1>2, <1>3, <1>4 DEF AppendChains

\* No other step enters the writing phase or reports a batch committed.
LEMMA AckRest ==
    ASSUME TypeInv, EndInv, AckInv, Next, ~(PlanCommit \/ PutSecrets \/ PutSigs \/ PutSources \/ AppendChains)
    PROVE  AckInv'
<1>1. SUFFICES pc' \notin WritePcs /\ ~(pc' = "return" /\ call'.kind = "commit" /\ call'.outcome = "ok")
  BY DEF AckInv, AcksAreOnChain
<1>2. ASSUME NEW o \in {"failed", "refused", "cleanup failed", "unknown"}, ReturnWith(o) PROVE pc' = "return" /\ call'.outcome # "ok"
  BY <1>2, ReturnedOutcome DEF TypeInv, TypeOK
<1>3. CASE BindAll \/ CleanSecrets \/ CleanSigs \/ CleanSources \/ ForgetSources \/ UnbindAll
  BY <1>2, <1>3 DEF BindAll, CleanSecrets, CleanSigs, CleanSources, ForgetSources, UnbindAll, WritePcs
<1>4. CASE ForgetRelinked \/ Presign \/ Forget \/ NextChain \/ PutErasureRecord \/ PutErasureSig \/ AppendErasure
           \/ UndoRecord \/ UndoSig \/ EraseSecrets \/ LeftSecrets \/ EraseSources \/ LeftSigs \/ ClearErased
  BY <1>2, <1>4 DEF ForgetRelinked, Presign, Forget, NextChain, PutErasureRecord, PutErasureSig, AppendErasure,
      UndoRecord, UndoSig, EraseSecrets, LeftSecrets, EraseSources, LeftSigs, ClearErased, StaysPending, WritePcs
<1>5. CASE RepairStep \/ RewriteSecrets \/ RewriteSources \/ RewriteSubjects \/ RewriteSigs \/ RewriteAgain
  BY <1>5 DEF RepairStep, RepairChain, FixSecrets, FixSources, FixSigs, RewriteSecrets, RewriteSources,
      RewriteSubjects, RewriteSigs, RewriteAgain, Rewrite, RepairFails, WritePcs
<1>6. CASE Finish
  <2>1. pc = "finish" /\ pc' = "return" /\ Advanced
    BY <1>6 DEF Finish, ReturnWith, Advanced
  <2>2. call'.kind = call.kind /\ call.kind # "commit"
    BY <2>1, AdvancedKeeps DEF SameCall, TypeInv, TypeOK, EndInv, CallKinds, SettledPcs
  <2> QED BY <2>1, <2>2 DEF WritePcs
<1>7. CASE CommitCall
  <2>1. pc' \in {"return", "plan", "bind"} /\ (pc' = "return" => call'.outcome = "refused")
    BY <1>7 DEF CommitCall, CommitStart, NoCall
  <2> QED BY <2>1 DEF WritePcs
<1>8. CASE EraseCall \/ ResumeCall
  <2>1. pc' \in {"return", "relinked", "presign"} /\ (pc' = "return" => call'.outcome = "refused")
    BY <1>8 DEF EraseCall, ResumeCall, EraseStart, NoCall
  <2> QED BY <2>1 DEF WritePcs
<1>9. CASE RepairStart \/ RequireRecordSigning \/ Return \/ Crash \/ TakeBackup \/ RestoreIndex
  BY <1>9 DEF RepairStart, RequireRecordSigning, Return, Crash, TakeBackup, RestoreIndex, callVars, WritePcs
<1> QED BY <1>3, <1>4, <1>5, <1>6, <1>7, <1>8, <1>9 DEF Next, CallStep, CommitStep, EraseStep, RewriteStep

LEMMA AckNext == ASSUME TypeInv, OpensInv, EndInv, KeyInv, AckInv, [Next]_vars PROVE AckInv'
<1>1. CASE UNCHANGED vars
  BY <1>1 DEF vars, folderVars, indexVars, callVars, AckInv, AcksAreOnChain, HasEntry, Known, ContentOf, SecretRow
<1> QED BY <1>1, AckPlan, AckPut, AckAppend, AckRest

\* Together.
CommitInv == TypeInv /\ OpensInv /\ IndexInv /\ EndInv /\ SignInv /\ PlaceInv /\ KeyInv /\ AckInv

LEMMA CommitInit == Init => CommitInv
<1>1. Init => AckInv
  BY DEF Init, FolderInit, CallInit, AckInv, AcksAreOnChain, WritePcs
<1> QED BY <1>1, TypeInit, OpensInit, IndexInit, EndInit, SignInit, PlaceInit, KeyInit DEF CommitInv

LEMMA CommitNext == CommitInv /\ [Next]_vars => CommitInv'
BY TypeNext, OpensNext, IndexNext, EndNext, SignNext, PlaceNext, KeyNext, AckNext DEF CommitInv

\* What Commit reports committed is on its pair's chain and opens to the record's
\* content, a source is committed at most once to a chain, and an entry of a signing
\* sink has its signature, across retries, failed and landed transactions, crashes,
\* erasures and repairs (commitPairs, dropDuplicates, appendLanded, cleanup, Repair).
THEOREM CommitsAlwaysStand == Spec => []CommitsStand
<1>1. CommitInv => CommitsStand
  BY DEF CommitInv, CommitsStand, AckInv, PlaceInv, SignInv
<1> QED BY <1>1, CommitInit, CommitNext, PTL DEF Spec

-----------------------------------------------------------------------------
(* What a folder no longer holds: nothing of a commit that failed, and nothing of a   *)
(* subject that was erased.  Both depend on which transactions may report an error    *)
(* after they reached the disk.                                                       *)

OpenPcs == StartPcs \cup WritePcs \cup CleanPcs

-----------------------------------------------------------------------------
(* A failed commit leaves nothing behind: the inductive invariant *)

\* The bindings drawn are for pairs of the batch, and stand once they are written.
FreshBound ==
    /\ pc \notin OpenPcs \cup {"return"} => fresh = {}
    /\ pc \in OpenPcs => \A b \in fresh : b.pair \in PairsOf(call.batch)
    /\ pc \in OpenPcs \ {"bind"} => \A b \in fresh : forward[b.pair] = b.chain /\ reverse[b.chain] = b.pair

\* No content row, signature row and position of the planned entries.
NoContent   == SecretsAt(Keys(plan)) = {}
NoSigs      == sigs \cap Keys(plan) = {}
NoPositions == sources \cap Positions(plan) = {}

\* What a commit has not written yet, or has taken back.
NotWritten ==
    /\ pc \in {"putSecrets", "forgetSources", "unbind"} => NoContent
    /\ pc \in {"cleanSigs", "cleanSources"} /\ call.clean => NoContent
    /\ pc \in {"putSecrets", "putSigs", "forgetSources", "unbind"} => NoSigs
    /\ pc = "cleanSources" /\ call.clean => NoSigs
    /\ pc \in WritePcs \cup CleanPcs /\ ~call.signer => NoSigs
    /\ pc \in {"putSecrets", "putSigs", "putSources", "forgetSources", "unbind"} => NoPositions
    /\ pc \in WritePcs \cup CleanPcs => evidence \cap plan = {}

\* Every signature row has an id that was drawn.
SigIds == \A r \in sigs : r.id < nextId

HeldBack == FreshBound /\ NotWritten /\ SigIds

-----------------------------------------------------------------------------
(* Content stays within reach of its subject's erasure: the inductive invariant *)

\* What a commit writes is about the pairs of its batch, on their own chains.
AboutBatch ==
    pc \in WritePcs \cup CleanPcs =>
        \A e \in plan : /\ e.commits.about \in PairsOf(call.batch) /\ reverse[e.chain] = e.commits.about
                        /\ ~Sourced(call.batch) => e.origin = None

\* The rows of a chain that are about somebody.
ContentOn(c)   == {r \in secrets : r.chain = c /\ r.value.about # None}
PositionsOn(c) == {r \in sources : r.chain = c}

\* A chain drawn by a commit holds only what that commit wrote.
FreshRowsOwn ==
    /\ pc \in OpenPcs => \A b \in fresh : ContentOn(b.chain) \subseteq SecretsAt(Keys(plan))
    /\ pc \in OpenPcs /\ ~Sourced(call.batch) => \A b \in fresh : PositionsOn(b.chain) = {}
    /\ pc = "unbind" => \A b \in fresh : PositionsOn(b.chain) = {}

\* A chain an erasure is done with holds nobody's values.
DoneRows ==
    /\ pc \in OpenPcs => call.erased = {}
    /\ pc \in {"eraseSources", "leftSigs"} => ContentOn(call.cur) = {}
    /\ pc = "leftSigs" => PositionsOn(call.cur) = {}
    /\ \A c \in call.erased : ContentOn(c) = {} /\ PositionsOn(c) = {}

ReachInv == ReachableByErasure /\ AboutBatch /\ FreshRowsOwn /\ DoneRows /\ ~backup.taken

-----------------------------------------------------------------------------
(* What was erased is gone: the inductive invariant *)

\* Somewhere in the rewritten files, their free pages or left-over copies.
Holds(p) == \E f \in Rewritten : p \in LiveIn(f) \cup residue[f] \cup temps[f]

RewritePcs   == {"rewriteSecrets", "rewriteSources", "rewriteSubjects", "rewriteSigs"}
ClosePcs     == {"clear", "rewriteAgain", "finish"}
ForgottenPcs == (ErasePcs \ {"forget"}) \cup RewritePcs \cup ClosePcs

Cleanly == call.kind = "erase" /\ call.clean

\* Nobody in scope has a chain any more.
ScopeForgotten == call.kind = "erase" /\ pc \in ForgottenPcs => \A p \in call.who : forward[p] = None

\* An erasure with no error so far has every pending chain to do, in hand, or done.
AllAccounted ==
    /\ call.kind = "erase" /\ pc \in RewritePcs \cup ClosePcs => call.todo = {}
    /\ Cleanly /\ pc \in ErasePcs \cup RewritePcs \cup ClosePcs =>
          PendingRows \subseteq call.todo \cup call.erased \cup (IF pc \in WorkPcs THEN {call.cur} ELSE {})
    /\ Cleanly /\ pc \in {"rewriteAgain", "finish"} => PendingRows = {}

\* A file an erasure rewrote with no error so far has no free page and no copy left.
Swept(f) == residue[f] = {} /\ temps[f] = {}
SweptSoFar ==
    /\ call.clean => call.compacted
    /\ Cleanly /\ pc \in (RewritePcs \ {"rewriteSecrets"}) \cup ClosePcs => Swept("secrets")
    /\ Cleanly /\ pc \in {"rewriteSubjects", "rewriteSigs"} \cup ClosePcs => Swept("sources")
    /\ Cleanly /\ pc \in {"rewriteSigs"} \cup ClosePcs => Swept("subjects")

\* Nothing of a pair that is gone is held, and none is in the batch being committed.
GoneStays == /\ \A p \in gone : ~Holds(p)
             /\ pc \in OpenPcs => gone \cap PairsOf(call.batch) = {}

Books   == ScopeForgotten /\ AllAccounted /\ SweptSoFar
GoneInv == GoneStays /\ Books

-----------------------------------------------------------------------------
(* A failed commit leaves nothing behind: the steps *)

\* A call that is not a commit, or is over, has no bindings and nothing to take back.
LEMMA HeldOut ==
    ASSUME pc' \notin OpenPcs, fresh' = {} \/ pc' = "return", \A r \in sigs' : r.id < nextId'
    PROVE  HeldBack'
BY DEF HeldBack, FreshBound, NotWritten, SigIds, OpenPcs, WritePcs, CleanPcs

\* The bindings of a commit that goes on, once they are written.
LEMMA BoundKept ==
    ASSUME FreshBound, UNCHANGED <<fresh, forward, reverse>>, call'.batch = call.batch,
           pc \in OpenPcs \ {"bind"}, pc' \in OpenPcs
    PROVE  FreshBound'
BY DEF FreshBound

\* The drawn ids are above every stored one.
LEMMA PlannedNew ==
    ASSUME TypeInv, OpensInv, KeyInv, SigIds, NEW b \in Seq(Records), NEW e \in Planned(b)
    PROVE  /\ e \notin evidence
           /\ \A r \in secrets \cup sigs : ~(r.id = e.id)
           /\ \A r \in sources : r # PositionRow(e)
<1>1. PICK i \in DOMAIN b : e.id = nextId + i - 1
  BY PlannedShape
<1>2. nextId \in Nat /\ i \in Nat /\ i >= 1
  BY DEF TypeInv, TypeOK
<1>3. /\ \A d \in evidence : d.id \in Nat /\ d.id < nextId
      /\ \A r \in secrets \cup sources \cup sigs : r.id \in Nat /\ r.id < nextId
  BY DEF TypeInv, TypeOK, FolderTypeOK, Entries, SecretRows, PositionRows, SigRows, OpensInv, IdsDrawn, KeyInv, SigIds
<1>4. \A n \in Nat : n < nextId => n # e.id
  BY <1>1, <1>2
<1>5. PositionRow(e).id = e.id
  BY DEF PositionRow
<1> QED BY <1>3, <1>4, <1>5

LEMMA BackPlan == ASSUME TypeInv, OpensInv, EndInv, KeyInv, HeldBack, PlanCommit PROVE HeldBack'
<1>1. /\ UNCHANGED <<evidence, secrets, sources, sigs, forward, reverse, fresh>> /\ pc = "plan" /\ Advanced
      /\ pc' \in {"forgetSources", "putSecrets", "return"}
  BY DEF PlanCommit, ReturnWith, Advanced, folderVars, indexVars, sigVars
<1>2. call'.batch = call.batch /\ call.batch \in Seq(Records)
  BY <1>1, SameBatch DEF TypeInv, TypeOK
<1>3. /\ nextId \in Nat /\ nextId' \in Nat /\ nextId <= nextId'
      /\ \A r \in sigs : r.id \in Nat
  <2>1. Len(call.batch) \in Nat /\ nextId \in Nat
    BY <1>2 DEF TypeInv, TypeOK
  <2>2. nextId' = nextId \/ nextId' = nextId + Len(call.batch)
    BY DEF PlanCommit
  <2>3. \A r \in sigs : r.id \in Nat
    BY DEF TypeInv, TypeOK, FolderTypeOK, SigRows
  <2> QED BY <2>1, <2>2, <2>3
<1>4. SigIds'
  BY <1>1, <1>3 DEF HeldBack, SigIds
<1>5. CASE pc' = "return"
  BY <1>1, <1>4, <1>5, HeldOut DEF SigIds, OpenPcs, StartPcs, WritePcs, CleanPcs
<1>6. CASE pc' # "return"
  <2>1. FreshBound'
    BY <1>1, <1>2, <1>6, BoundKept DEF HeldBack, OpenPcs, StartPcs, WritePcs, CleanPcs
  <2>2. plan = {}
    BY <1>1 DEF EndInv, CallKinds, StartPcs
  <2>3. \A e \in plan' : /\ e \notin evidence
                         /\ \A r \in secrets \cup sigs : ~(r.id = e.id)
                         /\ \A r \in sources : r # PositionRow(e)
    <3>1. plan' = plan \/ plan' = Planned(call.batch)
      BY DEF PlanCommit
    <3> QED BY <1>2, <2>2, <3>1, PlannedNew DEF HeldBack
  <2>4. NoContent' /\ NoSigs' /\ NoPositions' /\ (evidence \cap plan = {})'
    <3>1. \A k \in Keys(plan') : \E e \in plan' : k.id = e.id
      BY DEF Keys
    <3>2. NoContent'
      <4>1. \A r \in secrets : [chain |-> r.chain, id |-> r.id] \notin Keys(plan')
        BY <2>3, <3>1
      <4> QED BY <1>1, <4>1 DEF NoContent, SecretsAt
    <3>3. NoSigs'
      BY <1>1, <2>3, <3>1 DEF NoSigs
    <3>4. NoPositions'
      BY <1>1, <2>3 DEF NoPositions, Positions
    <3>5. (evidence \cap plan = {})'
      BY <1>1, <2>3
    <3> QED BY <3>2, <3>3, <3>4, <3>5
  <2>5. NotWritten'
    BY <2>4 DEF NotWritten
  <2> QED BY <1>4, <2>1, <2>5 DEF HeldBack
<1> QED BY <1>5, <1>6

LEMMA BackPut ==
    ASSUME "secrets" \notin LandedErrors, TypeInv, OpensInv, SignInv, HeldBack, PutSecrets \/ PutSigs \/ PutSources
    PROVE  HeldBack'
<1>1. /\ UNCHANGED <<evidence, forward, reverse, fresh, plan, call, nextId>>
      /\ pc \in {"putSecrets", "putSigs", "putSources"}
      /\ pc' \in {"putSigs", "putSources", "append", "forgetSources", "cleanSecrets"}
  BY DEF PutSecrets, PutSigs, PutSources, indexVars
<1>2. FreshBound'
  BY <1>1, BoundKept DEF HeldBack, OpenPcs, StartPcs, WritePcs, CleanPcs
<1>3. (evidence \cap plan = {})'
  BY <1>1 DEF HeldBack, NotWritten, WritePcs
<1>4. SigIds'
  <2>1. \A e \in plan : SigRow(e).id = e.id /\ e.id < nextId
    BY DEF SigRow, OpensInv, IdsDrawn
  <2>2. sigs' \subseteq sigs \cup {SigRow(e) : e \in plan}
    BY DEF PutSecrets, PutSigs, PutSources, TxError, sigVars
  <2> QED BY <1>1, <2>1, <2>2 DEF HeldBack, SigIds
<1>5. CASE PutSecrets
  <2>0. pc = "putSecrets" /\ UNCHANGED <<sigs, sources, plan>>
    BY <1>5 DEF PutSecrets, sigVars
  <2>1. NoSigs' /\ NoPositions'
    BY <2>0 DEF HeldBack, NotWritten, NoSigs, NoPositions
  <2>2. CASE pc' = "forgetSources"
    <3>1. NoContent'
      BY <1>5, <2>2 DEF PutSecrets, TxError, HeldBack, NotWritten, NoContent, SecretsAt
    <3> QED BY <1>2, <1>3, <1>4, <2>1, <2>2, <3>1 DEF HeldBack, NotWritten
  <2>3. CASE pc' \in {"putSigs", "putSources"}
    BY <1>2, <1>3, <1>4, <2>1, <2>3 DEF HeldBack, NotWritten
  <2> QED BY <1>5, <2>2, <2>3 DEF PutSecrets
<1>6. CASE PutSigs
  <2>1. call.signer /\ pc' \in {"putSources", "cleanSecrets"}
    BY <1>6 DEF PutSigs, SignInv, SignerMode
  <2>2. NoPositions'
    BY <1>6 DEF PutSigs, HeldBack, NotWritten, NoPositions
  <2> QED BY <1>1, <1>2, <1>3, <1>4, <2>1, <2>2 DEF HeldBack, NotWritten
<1>7. CASE PutSources
  <2>1. pc = "putSources" /\ pc' \in {"append", "cleanSecrets"} /\ UNCHANGED sigs
    BY <1>7 DEF PutSources, sigVars
  <2>2. ~call.signer => NoSigs'
    BY <1>1, <2>1 DEF HeldBack, NotWritten, NoSigs, WritePcs
  <2> QED BY <1>1, <1>2, <1>3, <1>4, <2>1, <2>2 DEF HeldBack, NotWritten
<1> QED BY <1>5, <1>6, <1>7

LEMMA BackClean ==
    ASSUME TypeInv, HeldBack, CleanSecrets \/ CleanSigs \/ CleanSources \/ ForgetSources
    PROVE  HeldBack'
<1>1. /\ UNCHANGED <<evidence, forward, reverse, fresh, plan, nextId>> /\ Advanced
      /\ pc \in {"cleanSecrets", "cleanSigs", "cleanSources", "forgetSources"}
      /\ pc' \in {"cleanSigs", "cleanSources", "forgetSources", "unbind", "return"}
      /\ secrets' \subseteq secrets /\ sigs' \subseteq sigs /\ sources' \subseteq sources
  BY DEF CleanSecrets, CleanSigs, CleanSources, ForgetSources, ReturnWith, Advanced, TxError, indexVars, sigVars
<1>2. call'.batch = call.batch /\ call'.signer = call.signer
  BY <1>1, AdvancedKeeps DEF SameCall, TypeInv, TypeOK
<1>3. SigIds'
  BY <1>1 DEF HeldBack, SigIds
<1>4. CASE pc' = "return"
  BY <1>3, <1>4, HeldOut DEF SigIds, OpenPcs, StartPcs, WritePcs, CleanPcs
<1>5. CASE pc' # "return"
  <2>1. FreshBound'
    BY <1>1, <1>2, <1>5, BoundKept DEF HeldBack, OpenPcs, StartPcs, WritePcs, CleanPcs
  <2>2. (evidence \cap plan = {})' /\ (~call'.signer => NoSigs')
    BY <1>1, <1>2 DEF HeldBack, NotWritten, NoSigs, CleanPcs
  <2>3. (NoContent => NoContent') /\ (NoSigs => NoSigs') /\ (NoPositions => NoPositions')
    BY <1>1 DEF NoContent, NoSigs, NoPositions, SecretsAt
  <2>4. call.clean \in BOOLEAN /\ [call EXCEPT !.clean = FALSE].clean = FALSE
    BY DEF TypeInv, TypeOK, Calls
  <2>5. CASE CleanSecrets
    <3>1. call'.clean => NoContent'
      BY <1>1, <2>4, <2>5 DEF CleanSecrets, NoContent, SecretsAt
    <3>2. pc' = "cleanSigs" \/ (pc' = "cleanSources" /\ ~call'.signer)
      BY <1>2, <2>5 DEF CleanSecrets
    <3> QED BY <1>3, <2>1, <2>2, <3>1, <3>2 DEF HeldBack, NotWritten
  <2>6. CASE CleanSigs
    <3>1. call'.clean => call.clean /\ NoSigs' /\ pc = "cleanSigs"
      BY <1>1, <2>4, <2>6 DEF CleanSigs, NoSigs
    <3>2. call'.clean => NoContent'
      BY <2>3, <3>1 DEF HeldBack, NotWritten
    <3>3. pc' = "cleanSources"
      BY <2>6 DEF CleanSigs
    <3> QED BY <1>3, <2>1, <2>2, <3>1, <3>2, <3>3 DEF HeldBack, NotWritten
  <2>7. CASE CleanSources
    <3>1. call.clean /\ pc = "cleanSources" /\ pc' = "forgetSources" /\ NoPositions'
      BY <1>1, <1>5, <2>7 DEF CleanSources, ReturnWith, NoPositions
    <3>2. NoContent' /\ NoSigs'
      BY <2>3, <3>1 DEF HeldBack, NotWritten
    <3> QED BY <1>3, <2>1, <2>2, <3>1, <3>2 DEF HeldBack, NotWritten
  <2>8. CASE ForgetSources
    <3>1. pc = "forgetSources" /\ pc' \in {"forgetSources", "unbind"}
      BY <1>1, <1>5, <2>8 DEF ForgetSources, ReturnWith
    <3>2. NoContent' /\ NoSigs' /\ NoPositions'
      BY <2>3, <3>1 DEF HeldBack, NotWritten
    <3> QED BY <1>3, <2>1, <2>2, <3>1, <3>2 DEF HeldBack, NotWritten
  <2> QED BY <2>5, <2>6, <2>7, <2>8
<1> QED BY <1>4, <1>5

LEMMA BackBind == ASSUME TypeInv, EndInv, IndexInv, HeldBack, BindAll PROVE HeldBack'
<1>1. /\ UNCHANGED <<evidence, secrets, sources, sigs, fresh, plan, nextId>> /\ pc = "bind"
      /\ pc' \in {"plan", "return"}
  BY DEF BindAll, ReturnWith, sigVars
<1>2. SigIds'
  BY <1>1 DEF HeldBack, SigIds
<1>3. CASE pc' = "return"
  BY <1>2, <1>3, HeldOut DEF SigIds, OpenPcs, StartPcs, WritePcs, CleanPcs
<1>4. CASE pc' = "plan"
  <2>1. Bound /\ UNCHANGED call
    BY <1>4 DEF BindAll, ReturnWith
  <2>2. \A b \in fresh : b.pair \in Pairs /\ b.chain \in Chains
    BY DEF TypeInv, TypeOK, Bindings
  <2>3. \A b \in fresh : forward'[b.pair] = b.chain /\ reverse'[b.chain] = b.pair
    BY <2>1, <2>2 DEF Bound, IndexInv, FreshRows
  <2>4. FreshBound'
    BY <1>1, <1>4, <2>1, <2>3 DEF HeldBack, FreshBound, OpenPcs, StartPcs
  <2> QED BY <1>2, <1>4, <2>4 DEF HeldBack, NotWritten, WritePcs, CleanPcs
<1> QED BY <1>1, <1>3, <1>4

\* The pairs that get a binding are pairs of the batch.
LEMMA FreshOfBatch == ASSUME NEW b, NEW new \in FreshBindings(b) PROVE \A x \in new : x.pair \in PairsOf(b)
<1> DEFINE need == {p \in PairsOf(b) : forward[p] = None}
<1>1. PICK f \in [need -> {c \in Chains : Unused(c)}] : new = {[pair |-> p, chain |-> f[p]] : p \in need}
  BY DEF FreshBindings
<1> QED BY <1>1

LEMMA BackCommitCall == ASSUME TypeInv, HeldBack, CommitCall PROVE HeldBack'
<1>1. PICK b \in Batches, s \in SignerConfigs : CommitStart(b, s)
  BY DEF CommitCall
<1>2. pc = "idle" /\ UNCHANGED <<sigs, nextId>>
  BY <1>1 DEF CommitStart, folderVars, sigVars
<1>3. SigIds'
  BY <1>2 DEF HeldBack, SigIds
<1>4. CASE pc' = "return"
  BY <1>3, <1>4, HeldOut DEF SigIds, OpenPcs, StartPcs, WritePcs, CleanPcs
<1>5. CASE pc' # "return"
  <2>1. /\ fresh' \in FreshBindings(b) /\ pc' = (IF fresh' = {} THEN "plan" ELSE "bind")
        /\ call' = [NoCall EXCEPT !.kind = "commit", !.signer = s, !.batch = b]
    BY <1>1, <1>5 DEF CommitStart
  <2>2. call'.batch = b
    BY <2>1 DEF NoCall
  <2>3. FreshBound'
    BY <2>1, <2>2, FreshOfBatch DEF FreshBound, OpenPcs, StartPcs, PairsOf
  <2> QED BY <1>3, <2>1, <2>3 DEF HeldBack, NotWritten, WritePcs, CleanPcs
<1> QED BY <1>4, <1>5

LEMMA BackAppend == ASSUME TypeInv, HeldBack, AppendChains PROVE HeldBack'
<1>1. /\ UNCHANGED <<secrets, sources, sigs, forward, reverse, fresh, plan, nextId>> /\ pc = "append"
      /\ pc' \in {"return", "cleanSecrets"}
  BY DEF AppendChains, ReturnWith, indexVars, sigVars
<1>2. SigIds'
  BY <1>1 DEF HeldBack, SigIds
<1>3. CASE pc' = "return"
  BY <1>2, <1>3, HeldOut DEF SigIds, OpenPcs, StartPcs, WritePcs, CleanPcs
<1>4. CASE pc' = "cleanSecrets"
  <2>1. UNCHANGED <<evidence, call>>
    BY <1>4 DEF AppendChains, ReturnWith
  <2>2. FreshBound'
    BY <1>1, <1>4, <2>1, BoundKept DEF HeldBack, OpenPcs, StartPcs, WritePcs, CleanPcs
  <2>3. (evidence \cap plan = {})' /\ (~call'.signer => NoSigs')
    BY <1>1, <2>1 DEF HeldBack, NotWritten, NoSigs, WritePcs
  <2> QED BY <1>2, <1>4, <2>2, <2>3 DEF HeldBack, NotWritten
<1> QED BY <1>1, <1>3, <1>4

LEMMA BackRest ==
    ASSUME TypeInv, OpensInv, HeldBack, Next,
           ~(\/ CommitCall \/ BindAll \/ PlanCommit \/ PutSecrets \/ PutSigs \/ PutSources \/ AppendChains
             \/ CleanSecrets \/ CleanSigs \/ CleanSources \/ ForgetSources)
    PROVE  HeldBack'
<1>1. /\ pc' \notin OpenPcs
      /\ fresh' = {} \/ pc' = "return" \/ (UNCHANGED fresh /\ pc \notin OpenPcs \cup {"return"})
  <2> USE DEF OpenPcs, StartPcs, WritePcs, CleanPcs
  <2>1. CASE UnbindAll \/ RepairStep \/ RewriteStep \/ RewriteAgain
    BY <2>1 DEF UnbindAll, RepairStep, RepairChain, FixSecrets, FixSources, FixSigs, RepairFails, RewriteStep,
        RewriteSecrets, RewriteSources, RewriteSubjects, RewriteSigs, RewriteAgain, Rewrite, Finish, ReturnWith
  <2>2. CASE ForgetRelinked \/ Presign \/ Forget \/ NextChain \/ PutErasureRecord \/ PutErasureSig \/ AppendErasure
             \/ UndoRecord \/ UndoSig \/ EraseSecrets \/ LeftSecrets \/ EraseSources \/ LeftSigs \/ ClearErased
    BY <2>2 DEF ForgetRelinked, Presign, Forget, NextChain, PutErasureRecord, PutErasureSig, AppendErasure, UndoRecord,
        UndoSig, EraseSecrets, LeftSecrets, EraseSources, LeftSigs, ClearErased, StaysPending, ReturnWith
  <2>3. CASE EraseCall \/ ResumeCall \/ RepairStart \/ RequireRecordSigning \/ Return \/ Crash
             \/ TakeBackup \/ RestoreIndex
    BY <2>3 DEF EraseCall, ResumeCall, EraseStart, RepairStart, RequireRecordSigning, Return, Crash,
        TakeBackup, RestoreIndex, callVars
  <2> QED BY <2>1, <2>2, <2>3 DEF Next, CallStep, CommitStep, EraseStep
<1>2. \A r \in sigs' : r.id < nextId'
  <2>1. nextId' = nextId \/ (nextId \in Nat /\ nextId' = nextId + 1)
    <3>1. CASE Presign
      BY <3>1 DEF Presign, TypeInv, TypeOK
    <3>2. CASE ~Presign
      BY <3>2 DEF Next, CallStep, CommitStep, EraseStep, UnbindAll, RepairStep, RepairChain, FixSecrets, FixSources,
          FixSigs, RewriteStep, RewriteSecrets, RewriteSources, RewriteSubjects, RewriteSigs, RewriteAgain, Rewrite,
          Finish, ForgetRelinked, Forget, NextChain, PutErasureRecord, PutErasureSig, AppendErasure, UndoRecord,
          UndoSig, EraseSecrets, LeftSecrets, EraseSources, LeftSigs, ClearErased, EraseCall, ResumeCall, EraseStart,
          RepairStart, RequireRecordSigning, Return, Crash, TakeBackup, RestoreIndex, callVars
    <3> QED BY <3>1, <3>2
  <2>2. sigs' \subseteq sigs \cup {SigRow(e) : e \in plan}
    BY DEF Next, CallStep, CommitStep, EraseStep, UnbindAll, RepairStep, RepairChain, FixSecrets, FixSources, FixSigs,
        RewriteStep, RewriteSecrets, RewriteSources, RewriteSubjects, RewriteSigs, RewriteAgain, Rewrite, Finish,
        ForgetRelinked, Presign, Forget, NextChain, PutErasureRecord, PutErasureSig, AppendErasure, UndoRecord,
        UndoSig, EraseSecrets, LeftSecrets, EraseSources, LeftSigs, ClearErased, EraseCall, ResumeCall, EraseStart,
        RepairStart, RequireRecordSigning, Return, Crash, TakeBackup, RestoreIndex, folderVars, sigVars, TxError, Presigned
  <2>3. nextId \in Nat /\ \A r \in sigs \cup {SigRow(e) : e \in plan} : r.id \in Nat /\ r.id < nextId
    BY DEF TypeInv, TypeOK, FolderTypeOK, Entries, SigRows, SigRow, HeldBack, SigIds, OpensInv, IdsDrawn
  <2> QED BY <2>1, <2>2, <2>3
<1> QED BY <1>1, <1>2, HeldOut DEF HeldBack, FreshBound

LEMMA BackNext ==
    ASSUME "secrets" \notin LandedErrors, CommitInv, HeldBack, [Next]_vars
    PROVE  HeldBack'
<1>1. CASE UNCHANGED vars
  BY <1>1 DEF vars, folderVars, indexVars, sigVars, callVars, HeldBack, FreshBound, NotWritten, SigIds,
      NoContent, NoSigs, NoPositions, SecretsAt
<1> QED BY <1>1, BackPlan, BackPut, BackClean, BackBind, BackCommitCall, BackAppend, BackRest DEF CommitInv

LEMMA BackInit == Init => HeldBack
BY DEF Init, FolderInit, CallInit, HeldBack, FreshBound, NotWritten, SigIds, OpenPcs, StartPcs, WritePcs, CleanPcs

\* The steps that report a commit failed, or refused.
LEMMA BehindReturns ==
    ASSUME "subjects" \notin LandedErrors, CommitInv, HeldBack, CommitCall \/ BindAll \/ UnbindAll
    PROVE  NothingNewBehind'
<1>1. SUFFICES ASSUME pc' = "return", call'.outcome \in {"refused", "failed"}
               PROVE  /\ (evidence \cap plan = {})' /\ NoContent' /\ NoSigs' /\ NoPositions'
                      /\ \A b \in fresh' : forward'[b.pair] = None /\ reverse'[b.chain] = None
  BY DEF NothingNewBehind, NoContent, NoSigs, NoPositions
<1> USE DEF CommitInv
<1>2. CASE CommitCall
  <2>1. pc = "idle" /\ UNCHANGED <<plan, fresh>>
    BY <1>1, <1>2 DEF CommitCall, CommitStart
  <2>2. plan' = {} /\ fresh' = {}
    BY <2>1 DEF EndInv, CallKinds, HeldBack, FreshBound, OpenPcs, StartPcs, WritePcs, CleanPcs
  <2> QED BY <2>2 DEF NoContent, NoSigs, NoPositions, Keys, Positions, SecretsAt
<1>3. CASE BindAll
  <2>1. pc = "bind" /\ UNCHANGED <<plan, fresh, forward, reverse>>
    BY <1>1, <1>3 DEF BindAll, TxError, indexVars
  <2>2. plan' = {} /\ \A b \in fresh : forward[b.pair] = None /\ reverse[b.chain] = None
    BY <2>1 DEF EndInv, CallKinds, StartPcs, IndexInv, FreshRows
  <2> QED BY <2>1, <2>2 DEF NoContent, NoSigs, NoPositions, Keys, Positions, SecretsAt
<1>4. CASE UnbindAll
  <2>1. /\ pc = "unbind" /\ UNCHANGED <<evidence, secrets, sources, sigs, plan, fresh>>
    BY <1>4 DEF UnbindAll, sigVars
  <2>2. NoContent' /\ NoSigs' /\ NoPositions' /\ (evidence \cap plan = {})'
    BY <2>1 DEF HeldBack, NotWritten, NoContent, NoSigs, NoPositions, SecretsAt, CleanPcs
  <2>3. (fresh = {}) \/ Unbound
    <3>1. call'.outcome # "cleanup failed"
      BY <1>1
    <3> QED BY <1>4, <3>1, ReturnedOutcome DEF UnbindAll, TypeInv, TypeOK
  <2>4. ASSUME NEW b \in fresh, Unbound PROVE forward'[b.pair] = None /\ reverse'[b.chain] = None
    <3>1. b \in Bindings /\ forward[b.pair] = b.chain /\ reverse[b.chain] = b.pair
      BY <2>1 DEF TypeInv, TypeOK, HeldBack, FreshBound, OpenPcs, CleanPcs
    <3>2. [pair |-> b.pair, chain |-> b.chain] = b /\ b.pair \in Pairs /\ b.chain \in Chains
      BY <3>1 DEF Bindings
    <3> QED BY <2>4, <3>1, <3>2 DEF Unbound
  <2> QED BY <2>1, <2>2, <2>3, <2>4
<1> QED BY <1>2, <1>3, <1>4

\* No other step does.
LEMMA BehindRest ==
    ASSUME TypeInv, EndInv, Next, ~(CommitCall \/ BindAll \/ UnbindAll)
    PROVE  NothingNewBehind'
<1>1. SUFFICES ~(pc' = "return" /\ call'.kind = "commit" /\ call'.outcome \in {"refused", "failed"})
  BY DEF NothingNewBehind
<1>2. ASSUME NEW o \in {"ok", "unknown", "cleanup failed"}, ReturnWith(o)
      PROVE  ~(call'.outcome \in {"refused", "failed"})
  BY <1>2, ReturnedOutcome DEF TypeInv, TypeOK
<1>3. CASE PlanCommit \/ PutSecrets \/ PutSigs \/ PutSources \/ AppendChains \/ CleanSecrets \/ CleanSigs
           \/ CleanSources \/ ForgetSources
  BY <1>2, <1>3 DEF PlanCommit, PutSecrets, PutSigs, PutSources, AppendChains, CleanSecrets, CleanSigs,
      CleanSources, ForgetSources
<1>4. ASSUME NEW o, ReturnWith(o), pc \in {"relinked", "presign", "finish"} \cup ErasePcs
      PROVE  call'.kind # "commit"
  <2>1. call'.kind = call.kind
    BY <1>4, ReturnedOutcome, AdvancedKeeps DEF SameCall, TypeInv, TypeOK
  <2>2. call.kind # "commit"
    BY <1>4 DEF EndInv, CallKinds, SettledPcs
  <2> QED BY <2>1, <2>2
<1>5. CASE ForgetRelinked \/ Presign \/ Forget \/ Finish
  BY <1>4, <1>5 DEF ForgetRelinked, Presign, Forget, Finish, ErasePcs
<1>6. CASE NextChain \/ PutErasureRecord \/ PutErasureSig \/ AppendErasure \/ UndoRecord \/ UndoSig
           \/ EraseSecrets \/ LeftSecrets \/ EraseSources \/ LeftSigs \/ ClearErased
  BY <1>6 DEF NextChain, PutErasureRecord, PutErasureSig, AppendErasure, UndoRecord, UndoSig,
      EraseSecrets, LeftSecrets, EraseSources, LeftSigs, ClearErased, StaysPending
<1>7. CASE RepairStep \/ RewriteSecrets \/ RewriteSources \/ RewriteSubjects \/ RewriteSigs \/ RewriteAgain
  BY <1>7 DEF RepairStep, RepairChain, FixSecrets, FixSources, FixSigs, RepairFails, RewriteSecrets, RewriteSources,
      RewriteSubjects, RewriteSigs, RewriteAgain, Rewrite
<1>8. CASE EraseCall \/ ResumeCall
  <2>1. call'.kind \in {"erase", "resume"}
    BY <1>8 DEF EraseCall, ResumeCall, EraseStart, NoCall
  <2> QED BY <2>1
<1>9. CASE RepairStart \/ RequireRecordSigning \/ Return \/ Crash \/ TakeBackup \/ RestoreIndex
  BY <1>9 DEF RepairStart, RequireRecordSigning, Return, Crash, TakeBackup, RestoreIndex, callVars
<1> QED BY <1>3, <1>5, <1>6, <1>7, <1>8, <1>9 DEF Next, CallStep, CommitStep, EraseStep, RewriteStep

LEMMA BehindNext ==
    ASSUME "subjects" \notin LandedErrors, CommitInv, HeldBack, NothingNewBehind, [Next]_vars
    PROVE  NothingNewBehind'
<1>1. CASE UNCHANGED vars
  BY <1>1 DEF vars, folderVars, indexVars, sigVars, callVars, NothingNewBehind, SecretsAt
<1> QED BY <1>1, BehindReturns, BehindRest DEF CommitInv

\* Where a transaction on the secrets file or on the index that reports an error has
\* changed nothing, a commit that returned an error and does not say "outcome unknown"
\* or "cleanup failed" leaves no entry, content, signature, position or index row of
\* the call in any of the five files (commitPairs, cleanup, forgetFresh, unbindAll).
THEOREM FailedLeavesNothing ==
    ASSUME "secrets" \notin LandedErrors, "subjects" \notin LandedErrors
    PROVE  Spec => []NothingNewBehind
<1> DEFINE I == CommitInv /\ HeldBack /\ NothingNewBehind
<1>1. Init => I
  <2>1. Init => NothingNewBehind
    BY DEF Init, CallInit, NothingNewBehind
  <2> QED BY <2>1, CommitInit, BackInit
<1>2. I /\ [Next]_vars => I'
  BY CommitNext, BackNext, BehindNext
<1>3. I => NothingNewBehind
  OBVIOUS
<1> QED BY <1>1, <1>2, <1>3, PTL DEF Spec

-----------------------------------------------------------------------------
(* Content stays within reach of its subject's erasure: the steps *)

\* The registers that an update which clears no chain leaves alone.
Onward ==
    \/ call' = call
    \/ call' = [call EXCEPT !.clean = FALSE]
    \/ call' = [call EXCEPT !.clean = FALSE, !.compacted = FALSE]
    \/ \E o : call' = [call EXCEPT !.outcome = o]
    \/ \E t : call' = [call EXCEPT !.todo = t]
    \/ \E c : call' = [call EXCEPT !.cur = c]
    \/ \E t, c : call' = [call EXCEPT !.todo = t, !.cur = c]
    \/ \E t, c : call' = [[call EXCEPT !.todo = t, !.cur = c] EXCEPT !.clean = FALSE]

LEMMA OnwardKeeps == ASSUME call \in Calls, Onward PROVE call'.erased = call.erased
<1>1. \A o : [call EXCEPT !.outcome = o].erased = call.erased
  BY DEF Calls
<1>2. \A t, c : /\ [call EXCEPT !.todo = t].erased = call.erased /\ [call EXCEPT !.cur = c].erased = call.erased
                /\ [call EXCEPT !.todo = t, !.cur = c].erased = call.erased
                /\ [[call EXCEPT !.todo = t, !.cur = c] EXCEPT !.clean = FALSE].erased = call.erased
  BY DEF Calls
<1>3. /\ [call EXCEPT !.clean = FALSE].erased = call.erased
      /\ [call EXCEPT !.clean = FALSE, !.compacted = FALSE].erased = call.erased
  BY DEF Calls
<1>4. CASE \E o : call' = [call EXCEPT !.outcome = o]
  BY <1>1, <1>4
<1>5. CASE \E t : call' = [call EXCEPT !.todo = t]
  BY <1>2, <1>5
<1>6. CASE \E c : call' = [call EXCEPT !.cur = c]
  BY <1>2, <1>6
<1>7. CASE \E t, c : call' = [call EXCEPT !.todo = t, !.cur = c]
  BY <1>2, <1>7
<1>8. CASE \E t, c : call' = [[call EXCEPT !.todo = t, !.cur = c] EXCEPT !.clean = FALSE]
  BY <1>2, <1>8
<1> QED BY <1>3, <1>4, <1>5, <1>6, <1>7, <1>8 DEF Onward

\* Rows stay within reach when none appears away from its pair's chain, and no chain
\* with rows changes hands.
ReverseKept ==
    \A c \in Chains : \/ reverse'[c] = reverse[c] \/ reverse'[c] = Pending
                      \/ ContentOn(c) = {} /\ PositionsOn(c) = {}

LEMMA ReachKept ==
    ASSUME TypeInv, ReachableByErasure, ReverseKept,
           \A r \in secrets' : r \in secrets \/ r.value.about = None \/ reverse'[r.chain] = r.value.about,
           \A r \in sources' : r \in sources \/ reverse'[r.chain] = r.about
    PROVE  ReachableByErasure'
<1>1. \A r \in secrets \cup sources : r.chain \in Chains
  BY DEF TypeInv, TypeOK, FolderTypeOK, SecretRows, PositionRows
<1>2. ASSUME NEW r \in secrets, r.value.about # None PROVE reverse'[r.chain] \in {r.value.about, Pending}
  <2>1. r \in ContentOn(r.chain)
    BY <1>2 DEF ContentOn
  <2> QED BY <1>1, <1>2, <2>1 DEF ReverseKept, ReachableByErasure
<1>3. ASSUME NEW r \in sources PROVE reverse'[r.chain] \in {r.about, Pending}
  <2>1. r \in PositionsOn(r.chain)
    BY DEF PositionsOn
  <2> QED BY <1>1, <2>1 DEF ReverseKept, ReachableByErasure
<1> QED BY <1>2, <1>3 DEF ReachableByErasure

\* A chain that no row names holds nobody's values.
LEMMA UnownedEmpty ==
    ASSUME TypeInv, ReachableByErasure, NEW c \in Chains, reverse[c] = None
    PROVE  ContentOn(c) = {} /\ PositionsOn(c) = {}
<1>1. None \notin Pairs /\ None # Pending
  BY FolderAssumption
<1>2. \A r \in sources : r.about \in Pairs
  BY DEF TypeInv, TypeOK, FolderTypeOK, PositionRows
<1> QED BY <1>1, <1>2 DEF ReachableByErasure, ContentOn, PositionsOn

\* Steps outside a commit: they add nobody's values.
NoneAdded == (\A r \in secrets' : r.value.about # None => r \in secrets) /\ sources' \subseteq sources

LEMMA FewerRows ==
    ASSUME NoneAdded, NEW c PROVE ContentOn(c)' \subseteq ContentOn(c) /\ PositionsOn(c)' \subseteq PositionsOn(c)
BY DEF NoneAdded, ContentOn, PositionsOn

LEMMA ReachFrame ==
    ASSUME TypeInv, ReachInv, NoneAdded, ReverseKept, UNCHANGED backup, pc' \notin OpenPcs, DoneRows'
    PROVE  ReachInv'
<1>1. ReachableByErasure'
  BY ReachKept DEF ReachInv, NoneAdded
<1> QED BY <1>1 DEF ReachInv, AboutBatch, FreshRowsOwn, OpenPcs, CleanPcs

LEMMA DoneFrame ==
    ASSUME DoneRows, NoneAdded, pc' \notin OpenPcs \cup {"eraseSources", "leftSigs"}, call'.erased \subseteq call.erased
    PROVE  DoneRows'
BY FewerRows DEF DoneRows

\* The record of an erasure is about nobody.
LEMMA RecordsOfNobody ==
    ASSUME EndInv, PutErasureRecord PROVE \A e \in Presigned : SecretRow(e).value.about = None
<1>1. pc \in ErasePcs /\ Presigned \subseteq plan
  BY DEF PutErasureRecord, Presigned, ErasePcs
<1>2. \A e \in plan : e.commits.about = None
  <2>1. \A n : ErasureRecord(n).about = None
    BY DEF ErasureRecord
  <2>2. \A e \in plan : e.commits = ErasureRecord(e.seq - 1)
    BY <1>1 DEF EndInv, ErasureShape
  <2> QED BY <2>1, <2>2
<1> QED BY <1>1, <1>2 DEF SecretRow

LEMMA ReachQuietErase ==
    ASSUME TypeInv, EndInv, ReachInv,
           \/ ForgetRelinked \/ Presign \/ Forget \/ NextChain \/ PutErasureRecord \/ PutErasureSig
           \/ AppendErasure \/ UndoRecord \/ UndoSig
    PROVE  ReachInv'
<1>1. pc' \notin OpenPcs \cup {"eraseSources", "leftSigs"}
  BY DEF ForgetRelinked, Presign, Forget, NextChain, PutErasureRecord, PutErasureSig, AppendErasure, UndoRecord,
      UndoSig, StaysPending, ReturnWith, OpenPcs, StartPcs, WritePcs, CleanPcs
<1>2. UNCHANGED <<sources, backup>>
  BY DEF ForgetRelinked, Presign, Forget, NextChain, PutErasureRecord, PutErasureSig, AppendErasure, UndoRecord,
      UndoSig, folderVars, TxError, NoFault, Fault, envVars
<1>3. \A r \in secrets' : r.value.about # None => r \in secrets
  <2>1. CASE PutErasureRecord
    <3>1. \A e \in Presigned : SecretRow(e).value.about = None
      BY <2>1, RecordsOfNobody
    <3> QED BY <2>1, <3>1 DEF PutErasureRecord, TxError
  <2>2. CASE ~PutErasureRecord
    BY <2>2 DEF ForgetRelinked, Presign, Forget, NextChain, PutErasureSig, AppendErasure, UndoRecord,
        UndoSig, folderVars, TxError
  <2> QED BY <2>1, <2>2
<1>4. \A c \in Chains : reverse'[c] = reverse[c] \/ reverse'[c] = Pending
  <2>1. reverse \in [Chains -> Pairs \cup {None, Pending}]
    BY DEF TypeInv, TypeOK, FolderTypeOK
  <2> QED BY <2>1 DEF ForgetRelinked, Presign, Forget, NextChain, PutErasureRecord, PutErasureSig, AppendErasure,
        UndoRecord, UndoSig, folderVars, indexVars, TxError, ChainForgotten, Forgotten
<1>5. Onward
  <2>1. CASE NextChain
    <3>1. CASE call' = [call EXCEPT !.cur = None]
      BY <3>1 DEF Onward
    <3>2. ASSUME NEW c, call' = [call EXCEPT !.todo = @ \ {c}, !.cur = c]
                        \/ call' = [[call EXCEPT !.todo = @ \ {c}, !.cur = c] EXCEPT !.clean = FALSE]
          PROVE  Onward
      BY <3>2 DEF Onward
    <3> QED BY <2>1, <3>1, <3>2 DEF NextChain
  <2>2. ASSUME NEW o, ReturnWith(o) PROVE Onward
    BY <2>2 DEF ReturnWith, Onward
  <2>3. ASSUME NEW t, call' = [call EXCEPT !.todo = t] PROVE Onward
    BY <2>3 DEF Onward
  <2>4. (call' = call \/ StaysPending) => Onward
    BY DEF StaysPending, Onward
  <2>5. CASE Forget \/ Presign
    BY <2>2, <2>3, <2>5 DEF Forget, Presign
  <2>6. CASE ForgetRelinked \/ PutErasureRecord \/ PutErasureSig \/ AppendErasure \/ UndoRecord \/ UndoSig
    BY <2>2, <2>4, <2>6 DEF ForgetRelinked, PutErasureRecord, PutErasureSig, AppendErasure, UndoRecord, UndoSig
  <2> QED BY <2>1, <2>5, <2>6
<1>6. call'.erased = call.erased
  BY <1>5, OnwardKeeps DEF TypeInv, TypeOK
<1>7. NoneAdded /\ ReverseKept
  BY <1>2, <1>3, <1>4 DEF NoneAdded, ReverseKept
<1> QED BY <1>1, <1>2, <1>6, <1>7, DoneFrame, ReachFrame DEF ReachInv

\* Repairs, rewrites, and what starts and ends a call.
LEMMA ReachQuietRest ==
    ASSUME ~Restores, TypeInv, ReachInv,
           \/ RepairStep \/ RewriteStep \/ RewriteAgain \/ EraseCall \/ ResumeCall \/ RepairStart
           \/ RequireRecordSigning \/ Return \/ Crash \/ TakeBackup \/ RestoreIndex
    PROVE  ReachInv'
<1>1. /\ pc' \notin OpenPcs \cup {"eraseSources", "leftSigs"} /\ UNCHANGED <<reverse, backup>>
      /\ secrets' \subseteq secrets /\ sources' \subseteq sources
      /\ call'.erased \in {call.erased, {}}
  <2> USE DEF OpenPcs, StartPcs, WritePcs, CleanPcs
  <2>1. call' = NoCall => call'.erased = {}
    BY DEF NoCall
  <2>2. Onward => call'.erased = call.erased
    BY OnwardKeeps DEF TypeInv, TypeOK
  <2>3. ASSUME NEW f, NEW at, NEW next, Rewrite(f, at, next)
        PROVE  /\ UNCHANGED <<reverse, backup, secrets, sources>> /\ pc' \in {next, "idle"}
               /\ call'.erased \in {call.erased, {}}
    <3>1. Onward \/ call' = NoCall
      BY <2>3 DEF Rewrite, Onward
    <3> QED BY <2>1, <2>2, <2>3, <3>1 DEF Rewrite, RewriteOK, RewriteError, RewriteCrash, NoFault, Fault, envVars, indexVars
  <2>4. CASE RewriteSecrets \/ RewriteSources \/ RewriteSubjects \/ RewriteAgain
    BY <2>3, <2>4 DEF RewriteSecrets, RewriteSources, RewriteSubjects, RewriteAgain
  <2>5. CASE RewriteSigs \/ Finish
    <3>1. Onward
      BY <2>5 DEF RewriteSigs, Finish, ReturnWith, Onward
    <3> QED BY <2>2, <2>5, <3>1 DEF RewriteSigs, Finish, ReturnWith, NoFault, Fault, envVars, folderVars, indexVars
  <2>6. CASE RepairStep
    <3>1. Onward
      <4>1. ASSUME NEW c, NEW t, call' = [call EXCEPT !.todo = t, !.cur = c] PROVE Onward
        BY <4>1 DEF Onward
      <4>2. (call' = call \/ RepairFails) => Onward
        BY DEF RepairFails, Onward
      <4> QED BY <2>6, <4>1, <4>2 DEF RepairStep, RepairChain, FixSecrets, FixSources, FixSigs
    <3> QED BY <2>2, <2>6, <3>1 DEF RepairStep, RepairChain, FixSecrets, FixSources, FixSigs, RepairFails, TxError,
          NoFault, Fault, envVars, folderVars, indexVars
  <2>7. CASE EraseCall \/ ResumeCall \/ RepairStart
    <3>1. call'.erased = {}
      BY <2>7 DEF EraseCall, ResumeCall, RepairStart, EraseStart, NoCall
    <3> QED BY <2>7, <3>1 DEF EraseCall, ResumeCall, RepairStart, EraseStart, NoFault, envVars, folderVars, indexVars
  <2>8. CASE RequireRecordSigning \/ Return \/ Crash
    BY <2>1, <2>8 DEF RequireRecordSigning, Return, Crash, NoFault, Fault, envVars, folderVars, indexVars, callVars
  <2>9. CASE TakeBackup \/ RestoreIndex
    BY <2>9 DEF TakeBackup, RestoreIndex, ReachInv
  <2> QED BY <2>4, <2>5, <2>6, <2>7, <2>8, <2>9 DEF RewriteStep
<1>2. NoneAdded /\ ReverseKept
  BY <1>1 DEF NoneAdded, ReverseKept
<1> QED BY <1>1, <1>2, DoneFrame, ReachFrame DEF ReachInv

\* A chain's rows go: first its content, then its positions, and it is done with.
LEMMA ReachEraseRows == ASSUME TypeInv, ReachInv, EraseSecrets \/ LeftSecrets PROVE ReachInv'
<1>1. /\ UNCHANGED <<sources, reverse, backup>> /\ pc' \in {"eraseSources", "nextChain"}
      /\ pc' = "eraseSources" => call' = call
  BY DEF EraseSecrets, LeftSecrets, StaysPending, TxError, NoFault, Fault, envVars, indexVars
<1>2. \A e : Genuine(e) => SecretRow(e).value.about = None
  BY DEF Genuine, SecretRow, ErasureRecord
<1>3. \A r \in secrets' : r.value.about # None => r \in secrets /\ (pc' = "eraseSources" => r.chain # call.cur)
  BY <1>2 DEF EraseSecrets, LeftSecrets, StaysPending, TxError
<1>4. NoneAdded /\ ReverseKept
  BY <1>1, <1>3 DEF NoneAdded, ReverseKept
<1>5. call'.erased = call.erased
  <2>1. Onward
    BY DEF EraseSecrets, LeftSecrets, StaysPending, Onward
  <2> QED BY <2>1, OnwardKeeps DEF TypeInv, TypeOK
<1>6. pc' = "eraseSources" => ContentOn(call.cur)' = {}
  BY <1>1, <1>3 DEF ContentOn
<1>7. pc' \notin OpenPcs
  BY <1>1 DEF OpenPcs, StartPcs, WritePcs, CleanPcs
<1>8. \A d \in call'.erased : ContentOn(d)' = {} /\ PositionsOn(d)' = {}
  BY <1>4, <1>5, FewerRows DEF ReachInv, DoneRows
<1>9. DoneRows'
  BY <1>1, <1>6, <1>7, <1>8 DEF DoneRows
<1> QED BY <1>1, <1>4, <1>7, <1>9, ReachFrame

LEMMA ReachEraseRest == ASSUME TypeInv, ReachInv, EraseSources \/ LeftSigs PROVE ReachInv'
<1>1. /\ UNCHANGED <<secrets, reverse, backup>> /\ pc' \in {"leftSigs", "nextChain"}
      /\ sources' \subseteq sources /\ pc \in {"eraseSources", "leftSigs"}
  BY DEF EraseSources, LeftSigs, StaysPending, TxError, NoFault, Fault, envVars, indexVars
<1>2. NoneAdded /\ ReverseKept /\ pc' \notin OpenPcs
  BY <1>1 DEF NoneAdded, ReverseKept, OpenPcs, StartPcs, WritePcs, CleanPcs
<1>3. ContentOn(call.cur) = {} /\ (pc = "leftSigs" => PositionsOn(call.cur) = {})
  BY <1>1 DEF ReachInv, DoneRows
<1>4. CASE StaysPending
  <2>1. Onward
    BY <1>4 DEF StaysPending, Onward
  <2>2. call'.erased = call.erased
    BY <2>1, OnwardKeeps DEF TypeInv, TypeOK
  <2>3. pc' = "nextChain"
    BY <1>4 DEF StaysPending
  <2> QED BY <1>1, <1>2, <2>2, <2>3, DoneFrame, ReachFrame DEF ReachInv
<1>5. CASE ~StaysPending
  <2>2. \/ pc' = "leftSigs" /\ call' = call
        \/ pc' = "nextChain" /\ call' = [call EXCEPT !.erased = @ \cup {call.cur}]
    BY <1>5 DEF EraseSources, LeftSigs
  <2>3. call' = [call EXCEPT !.erased = @ \cup {call.cur}] => call'.erased = call.erased \cup {call.cur}
    BY DEF TypeInv, TypeOK, Calls
  <2>6. \A d : d = call.cur => {r \in sources' : r.chain = d} = {}
    BY <1>1, <1>3, <1>5 DEF EraseSources, LeftSigs, PositionsOn
  <2>7. \A d : d = call.cur => {r \in secrets' : r.chain = d /\ r.value.about # None} = {}
    BY <1>1, <1>3 DEF ContentOn
  <2>8. \A d \in call.erased : {r \in secrets' : r.chain = d /\ r.value.about # None} = {}
                               /\ {r \in sources' : r.chain = d} = {}
    BY <1>1 DEF ReachInv, DoneRows, ContentOn, PositionsOn
  <2>9. DoneRows'
    BY <1>2, <2>2, <2>3, <2>6, <2>7, <2>8 DEF DoneRows, ContentOn, PositionsOn
  <2> QED BY <1>1, <1>2, <2>9, ReachFrame
<1> QED BY <1>4, <1>5

LEMMA ReachClear == ASSUME TypeInv, ReachInv, ClearErased PROVE ReachInv'
<1>1. /\ UNCHANGED <<secrets, sources, backup>> /\ pc' \in {"clear", "rewriteAgain", "finish"}
  BY DEF ClearErased, TxError, NoFault, Fault, envVars
<1>2. call'.erased \subseteq call.erased
  <2>1. \A c : [call EXCEPT !.erased = @ \ {c}].erased = call.erased \ {c}
    BY DEF TypeInv, TypeOK, Calls
  <2>2. [call EXCEPT !.clean = FALSE].erased = call.erased
    BY DEF TypeInv, TypeOK, Calls
  <2> QED BY <2>1, <2>2 DEF ClearErased
<1>3. ReverseKept
  <2>1. reverse' = reverse \/ \E c \in call.erased : reverse' = [reverse EXCEPT ![c] = IF @ = Pending THEN None ELSE @]
    BY DEF ClearErased, TxError
  <2>2. \A c \in call.erased : ContentOn(c) = {} /\ PositionsOn(c) = {}
    BY DEF ReachInv, DoneRows
  <2>3. reverse \in [Chains -> Pairs \cup {None, Pending}]
    BY DEF TypeInv, TypeOK, FolderTypeOK
  <2> QED BY <2>1, <2>2, <2>3 DEF ReverseKept
<1>4. NoneAdded /\ pc' \notin OpenPcs \cup {"eraseSources", "leftSigs"}
  BY <1>1 DEF NoneAdded, OpenPcs, StartPcs, WritePcs, CleanPcs
<1> QED BY <1>1, <1>2, <1>3, <1>4, DoneFrame, ReachFrame DEF ReachInv

LEMMA ReachUnbind == ASSUME TypeInv, HeldBack, ReachInv, UnbindAll PROVE ReachInv'
<1>1. /\ UNCHANGED <<secrets, sources, backup>> /\ pc = "unbind" /\ pc' = "return"
  BY DEF UnbindAll, ReturnWith, TxError, NoFault, Fault, envVars
<1>2. call'.erased = call.erased
  <2>1. Onward
    BY DEF UnbindAll, ReturnWith, Onward
  <2> QED BY <2>1, OnwardKeeps DEF TypeInv, TypeOK
<1>3. ReverseKept
  <2>1. NoContent
    BY <1>1 DEF HeldBack, NotWritten
  <2>2. \A b \in fresh : ContentOn(b.chain) = {} /\ PositionsOn(b.chain) = {}
    BY <1>1, <2>1 DEF NoContent, ReachInv, FreshRowsOwn, OpenPcs, CleanPcs
  <2>3. \A c \in Chains : reverse'[c] = reverse[c] \/ \E b \in fresh : b.chain = c
    BY DEF UnbindAll, Unbound, TxError, indexVars
  <2> QED BY <2>2, <2>3 DEF ReverseKept
<1>4. NoneAdded /\ pc' \notin OpenPcs \cup {"eraseSources", "leftSigs"}
  BY <1>1 DEF NoneAdded, OpenPcs, StartPcs, WritePcs, CleanPcs
<1> QED BY <1>1, <1>2, <1>3, <1>4, DoneFrame, ReachFrame DEF ReachInv

\* A step of a commit that keeps the index and the bindings.
OwnRows ==
    /\ pc' \in OpenPcs => \A b \in fresh : ContentOn(b.chain)' \subseteq SecretsAt(Keys(plan))'
    /\ pc' \in OpenPcs /\ ~Sourced(call.batch) => \A b \in fresh : PositionsOn(b.chain)' = {}
    /\ pc' = "unbind" => \A b \in fresh : PositionsOn(b.chain)' = {}

LEMMA ReachCommitFrame ==
    ASSUME TypeInv, ReachInv, pc \in OpenPcs, UNCHANGED <<backup, fresh>>, Advanced, Onward,
           ReachableByErasure', AboutBatch', OwnRows, pc' \notin {"eraseSources", "leftSigs"}
    PROVE  ReachInv'
<1>1. call'.erased = {} /\ call'.batch = call.batch
  BY OnwardKeeps, SameBatch DEF TypeInv, TypeOK, ReachInv, DoneRows
<1>2. DoneRows'
  BY <1>1 DEF DoneRows
<1>3. Sourced(call.batch)' <=> Sourced(call.batch)
  BY <1>1 DEF Sourced
<1>4. FreshRowsOwn'
  BY <1>3 DEF FreshRowsOwn, OwnRows
<1> QED BY <1>2, <1>4 DEF ReachInv

\* What is planned goes on being about the batch's pairs.
LEMMA AboutKept ==
    ASSUME AboutBatch, UNCHANGED <<plan, reverse>>, call'.batch = call.batch, pc \in WritePcs \cup CleanPcs
    PROVE  AboutBatch'
BY DEF AboutBatch, Sourced

LEMMA ReachCommitCall == ASSUME TypeInv, ReachInv, CommitCall PROVE ReachInv'
<1>1. PICK b \in Batches, s \in SignerConfigs : CommitStart(b, s)
  BY DEF CommitCall
<1>2. UNCHANGED <<secrets, sources, reverse, backup>> /\ pc' \in {"return", "plan", "bind"}
  BY <1>1 DEF CommitStart, NoFault, envVars, folderVars, indexVars
<1>3. ReachableByErasure'
  BY <1>2 DEF ReachInv, ReachableByErasure
<1>4. call'.erased = {}
  BY <1>1 DEF CommitStart, NoCall
<1>5. DoneRows'
  BY <1>2, <1>4 DEF DoneRows
<1>6. FreshRowsOwn'
  <2>1. CASE pc' = "return"
    BY <2>1 DEF FreshRowsOwn, OpenPcs, StartPcs, WritePcs, CleanPcs
  <2>2. CASE pc' # "return"
    <3>1. fresh' \in FreshBindings(b)
      BY <1>1, <2>2 DEF CommitStart
    <3>2. ASSUME NEW x \in fresh' PROVE ContentOn(x.chain) = {} /\ PositionsOn(x.chain) = {}
      <4>1. reverse[x.chain] = None
        BY <3>1, FreshBindingsUnused DEF Unused
      <4>2. x.chain \in Chains
        <5>1. PairsOf(b) \subseteq Pairs
          BY PairsOfType, CommitAssumption
        <5> QED BY <3>1, <5>1, FreshType DEF Bindings
      <4> QED BY <4>1, <4>2, UnownedEmpty DEF ReachInv
    <3>3. \A x \in fresh' : ContentOn(x.chain)' = {} /\ PositionsOn(x.chain)' = {}
      BY <1>2, <3>2 DEF ContentOn, PositionsOn
    <3> QED BY <3>3 DEF FreshRowsOwn, ContentOn, PositionsOn
  <2> QED BY <2>1, <2>2
<1> QED BY <1>2, <1>3, <1>5, <1>6 DEF ReachInv, AboutBatch, WritePcs, CleanPcs

LEMMA ReachBind == ASSUME TypeInv, IndexInv, EndInv, ReachInv, BindAll PROVE ReachInv'
<1>1. /\ UNCHANGED <<secrets, sources, fresh, plan, backup>> /\ pc = "bind" /\ pc' \in {"plan", "return"}
      /\ Advanced /\ Onward
  BY DEF BindAll, ReturnWith, TxError, NoFault, Fault, envVars, Advanced, Onward
<1>2. \A b \in fresh : ContentOn(b.chain) = {} /\ PositionsOn(b.chain) = {}
  BY <1>1, UnownedEmpty DEF IndexInv, FreshRows, ReachInv, TypeInv, TypeOK, Bindings
<1>3. \A c \in Chains : reverse'[c] = reverse[c] \/ \E b \in fresh : b.chain = c
  BY DEF BindAll, Bound, TxError, indexVars
<1>4. ReverseKept
  BY <1>2, <1>3 DEF ReverseKept
<1>5. ReachableByErasure'
  BY <1>1, <1>4, ReachKept DEF ReachInv
<1>6. OwnRows
  BY <1>1, <1>2 DEF OwnRows, ContentOn, PositionsOn
<1> QED BY <1>1, <1>5, <1>6, ReachCommitFrame DEF AboutBatch, WritePcs, CleanPcs, OpenPcs, StartPcs

LEMMA ReachPlan == ASSUME TypeInv, IndexInv, EndInv, ReachInv, PlanCommit PROVE ReachInv'
<1>1. /\ UNCHANGED <<secrets, sources, forward, reverse, fresh, backup>> /\ pc = "plan" /\ Advanced /\ Onward
      /\ pc' \in {"forgetSources", "putSecrets", "return"}
  BY DEF PlanCommit, ReturnWith, NoFault, Fault, envVars, Advanced, Onward, folderVars, indexVars
<1>2. call'.batch = call.batch /\ call.batch \in Seq(Records)
  BY <1>1, SameBatch DEF TypeInv, TypeOK
<1>3. plan = {}
  BY <1>1 DEF EndInv, CallKinds, StartPcs
<1>4. ReachableByErasure'
  BY <1>1 DEF ReachInv, ReachableByErasure
<1>5. AboutBatch'
  <2> DEFINE b == call.batch
  <2>1. ASSUME NEW e \in Planned(b)
        PROVE  /\ e.commits.about \in PairsOf(b) /\ reverse[e.chain] = e.commits.about
               /\ ~Sourced(b) => e.origin = None
    <3>1. PICK i \in DOMAIN b : e.chain = forward[b[i].pair] /\ e.commits = ContentOf(b[i]) /\ e.origin = b[i].source
      BY PlannedShape
    <3>2. b[i].pair \in PairsOf(b) /\ b[i].pair \in Pairs
      BY <1>2, PairsOfType DEF PairsOf
    <3>3. forward[b[i].pair] # None
      BY <1>1, <3>2 DEF TypeInv, BatchBound
    <3>4. reverse[e.chain] = b[i].pair
      BY <3>1, <3>2, <3>3 DEF IndexInv, Agree
    <3>5. e.commits.about = b[i].pair
      BY <3>1 DEF ContentOf, Content
    <3> QED BY <3>1, <3>2, <3>4, <3>5 DEF Sourced
  <2>2. plan' = plan \/ plan' = Planned(b)
    BY DEF PlanCommit
  <2> HIDE DEF b
  <2>3. \A e \in plan' : /\ e.commits.about \in PairsOf(b) /\ reverse[e.chain] = e.commits.about
                         /\ ~Sourced(b) => e.origin = None
    BY <1>3, <2>1, <2>2
  <2>4. call'.batch = b
    BY <1>2 DEF b
  <2> QED BY <1>1, <2>3, <2>4 DEF AboutBatch, PairsOf, Sourced
<1>6. OwnRows
  <2>1. \A b \in fresh : ContentOn(b.chain) = {}
    BY <1>1, <1>3 DEF ReachInv, FreshRowsOwn, SecretsAt, Keys, OpenPcs, StartPcs
  <2>2. ~Sourced(call.batch) => \A b \in fresh : PositionsOn(b.chain) = {}
    BY <1>1 DEF ReachInv, FreshRowsOwn, OpenPcs, StartPcs
  <2> QED BY <1>1, <2>1, <2>2 DEF OwnRows, ContentOn, PositionsOn
<1> QED BY <1>1, <1>4, <1>5, <1>6, ReachCommitFrame DEF OpenPcs, StartPcs

LEMMA ReachPut == ASSUME TypeInv, ReachInv, PutSecrets \/ PutSigs \/ PutSources \/ AppendChains PROVE ReachInv'
<1>1. /\ UNCHANGED <<reverse, fresh, backup, plan>> /\ Advanced /\ Onward /\ pc \in WritePcs
      /\ pc' \in {"putSigs", "putSources", "append", "forgetSources", "cleanSecrets", "return"}
  BY DEF PutSecrets, PutSigs, PutSources, AppendChains, ReturnWith, TxError, NoFault, Fault, envVars, Advanced, Onward,
      indexVars, WritePcs
<1>2. call'.batch = call.batch
  BY <1>1, SameBatch DEF TypeInv, TypeOK
<1>3. AboutBatch'
  BY <1>1, <1>2, AboutKept DEF ReachInv
<1>4. \A e \in plan : /\ reverse[e.chain] = e.commits.about
                      /\ ~Sourced(call.batch) => e.origin = None
  BY <1>1 DEF ReachInv, AboutBatch
<1>5. \A r \in secrets' : r \in secrets \/ \E e \in plan : r = SecretRow(e)
  BY DEF PutSecrets, PutSigs, PutSources, AppendChains, TxError
<1>6. \A r \in sources' : r \in sources \/ \E e \in plan : e.origin # None /\ r = PositionRow(e)
  BY DEF PutSecrets, PutSigs, PutSources, AppendChains, TxError, Positions
<1>7. \A e : /\ SecretRow(e).chain = e.chain /\ SecretRow(e).id = e.id /\ SecretRow(e).value.about = e.commits.about
             /\ PositionRow(e).chain = e.chain /\ PositionRow(e).about = e.commits.about
  BY DEF SecretRow, PositionRow
<1>8. ReachableByErasure'
  <2>1. ReverseKept
    BY <1>1 DEF ReverseKept
  <2>2. \A r \in secrets' : r \in secrets \/ r.value.about = None \/ reverse'[r.chain] = r.value.about
    <3>1. ASSUME NEW e \in plan PROVE reverse'[SecretRow(e).chain] = SecretRow(e).value.about
      BY <1>1, <1>4, <1>7
    <3> QED BY <1>5, <3>1
  <2>3. \A r \in sources' : r \in sources \/ reverse'[r.chain] = r.about
    <3>1. ASSUME NEW e \in plan PROVE reverse'[PositionRow(e).chain] = PositionRow(e).about
      BY <1>1, <1>4, <1>7
    <3> QED BY <1>6, <3>1
  <2> QED BY <2>1, <2>2, <2>3, ReachKept DEF ReachInv
<1>9. OwnRows
  <2>1. \A e \in plan : [chain |-> e.chain, id |-> e.id] \in Keys(plan)
    BY DEF Keys
  <2>2. ASSUME NEW b \in fresh PROVE ContentOn(b.chain)' \subseteq SecretsAt(Keys(plan))'
    <3>1. ContentOn(b.chain) \subseteq SecretsAt(Keys(plan))
      BY <1>1 DEF ReachInv, FreshRowsOwn, OpenPcs
    <3>2. SUFFICES ASSUME NEW r \in secrets', r.chain = b.chain, r.value.about # None
                   PROVE  [chain |-> r.chain, id |-> r.id] \in Keys(plan)
      BY <1>1 DEF ContentOn, SecretsAt
    <3>3. CASE r \in secrets
      BY <3>1, <3>2, <3>3 DEF ContentOn, SecretsAt
    <3>4. CASE \E e \in plan : r = SecretRow(e)
      BY <1>7, <2>1, <3>4
    <3> QED BY <1>5, <3>3, <3>4
  <2>3. ASSUME ~Sourced(call.batch), NEW b \in fresh PROVE PositionsOn(b.chain)' = {}
    <3>1. PositionsOn(b.chain) = {}
      BY <1>1, <2>3 DEF ReachInv, FreshRowsOwn, OpenPcs
    <3> QED BY <1>4, <1>6, <2>3, <3>1 DEF PositionsOn
  <2> QED BY <1>1, <2>2, <2>3 DEF OwnRows
<1> QED BY <1>1, <1>3, <1>8, <1>9, ReachCommitFrame DEF OpenPcs

LEMMA ReachClean ==
    ASSUME TypeInv, ReachInv, CleanSecrets \/ CleanSigs \/ CleanSources \/ ForgetSources PROVE ReachInv'
<1>1. /\ UNCHANGED <<reverse, fresh, backup, plan>> /\ Advanced /\ Onward /\ pc \in CleanPcs
      /\ pc' \in {"cleanSigs", "cleanSources", "forgetSources", "unbind", "return"}
      /\ secrets' \subseteq secrets /\ sources' \subseteq sources
  BY DEF CleanSecrets, CleanSigs, CleanSources, ForgetSources, ReturnWith, TxError, NoFault, Fault, envVars, Advanced,
      Onward, indexVars, CleanPcs
<1>2. call'.batch = call.batch
  BY <1>1, SameBatch DEF TypeInv, TypeOK
<1>3. AboutBatch'
  BY <1>1, <1>2, AboutKept DEF ReachInv
<1>4. ReachableByErasure'
  <2>1. ReverseKept
    BY <1>1 DEF ReverseKept
  <2> QED BY <1>1, <2>1, ReachKept DEF ReachInv
<1>5. \A b \in fresh : ContentOn(b.chain)' \subseteq SecretsAt(Keys(plan))'
  BY <1>1 DEF ReachInv, FreshRowsOwn, ContentOn, SecretsAt, OpenPcs
<1>6. ~Sourced(call.batch) => \A b \in fresh : PositionsOn(b.chain)' = {}
  BY <1>1 DEF ReachInv, FreshRowsOwn, PositionsOn, OpenPcs
<1>7. ASSUME pc' = "unbind", NEW b \in fresh PROVE PositionsOn(b.chain)' = {}
  <2>1. UNCHANGED sources /\ (~Sourced(call.batch) \/ {r \in sources : \E x \in fresh : x.chain = r.chain} = {})
    BY <1>1, <1>7 DEF ForgetSources, CleanSecrets, CleanSigs, CleanSources, ReturnWith
  <2> QED BY <1>6, <2>1 DEF PositionsOn
<1>8. OwnRows
  BY <1>5, <1>6, <1>7 DEF OwnRows
<1> QED BY <1>1, <1>3, <1>4, <1>8, ReachCommitFrame DEF OpenPcs

LEMMA ReachNext ==
    ASSUME ~Restores, CommitInv, HeldBack, ReachInv, [Next]_vars PROVE ReachInv'
<1>1. CASE UNCHANGED vars
  BY <1>1 DEF vars, folderVars, indexVars, envVars, callVars, ReachInv, ReachableByErasure, AboutBatch, FreshRowsOwn,
      DoneRows, ContentOn, PositionsOn, SecretsAt
<1>2. CASE CommitStep
  BY <1>2, ReachBind, ReachPlan, ReachPut, ReachClean, ReachUnbind DEF CommitStep, CommitInv
<1>3. CASE EraseStep
  BY <1>3, ReachQuietErase, ReachEraseRows, ReachEraseRest, ReachClear, ReachQuietRest DEF EraseStep, CommitInv
<1> QED BY <1>1, <1>2, <1>3, ReachCommitCall, ReachQuietRest DEF Next, CallStep, CommitInv

LEMMA ReachInit == Init => ReachInv
BY DEF Init, FolderInit, CallInit, NoBackup, NoCall, ReachInv, ReachableByErasure, AboutBatch, FreshRowsOwn, DoneRows,
    OpenPcs, StartPcs, WritePcs, CleanPcs

\* Content and source positions stay within reach of their subject's erasure, whatever
\* fails or crashes, where the index is not put back from an older copy and a
\* transaction on the secrets file that reports an error has changed nothing: no index
\* row is taken back, or cleared, while its chain still holds somebody's values
\* (commitPairs, cleanup, forgetFresh, eraseChain, clearErased).
THEOREM AlwaysReachable ==
    ASSUME ~Restores, "secrets" \notin LandedErrors
    PROVE  Spec => []ReachableByErasure
<1> DEFINE I == CommitInv /\ HeldBack /\ ReachInv
<1>1. Init => I
  BY CommitInit, BackInit, ReachInit
<1>2. I /\ [Next]_vars => I'
  BY CommitNext, BackNext, ReachNext
<1>3. I => ReachableByErasure
  BY DEF ReachInv
<1> QED BY <1>1, <1>2, <1>3, PTL DEF Spec

-----------------------------------------------------------------------------
(* What was erased is gone: what steps do to the values in the files *)

\* Free pages and left-over copies hold only values the file held.
PagesKept == \A f \in Rewritten : /\ residue'[f] \subseteq residue[f] \cup LiveIn(f)
                                  /\ temps'[f] \subseteq temps[f] \cup LiveIn(f)

\* The rows hold no values but those they held and those about A.
LiveKept(A) == \A f \in Rewritten : LiveIn(f)' \subseteq LiveIn(f) \cup A

LEMMA GoneKept ==
    ASSUME \A p \in gone : ~Holds(p), PagesKept, NEW A, LiveKept(A), A \cap gone = {}, gone' \subseteq gone
    PROVE  \A p \in gone' : ~Holds(p)'
<1> SUFFICES ASSUME NEW p \in gone', NEW f \in Rewritten, p \in (LiveIn(f) \cup residue[f] \cup temps[f])' PROVE FALSE
  BY DEF Holds
<1>1. p \in gone /\ p \notin A /\ p \notin LiveIn(f) \cup residue[f] \cup temps[f]
  BY DEF Holds
<1> QED BY <1>1 DEF PagesKept, LiveKept

LEMMA LiveFiles ==
    /\ LiveIn("secrets") = AboutSecrets(secrets) /\ LiveIn("sources") = AboutSources(sources)
    /\ LiveIn("subjects") = {p \in Pairs : forward[p] # None}
BY DEF LiveIn

\* Rows added are about A, and pairs bound are in A.
LEMMA LiveRows ==
    ASSUME NEW A,
           \A r \in secrets' : r \in secrets \/ r.value.about = None \/ r.value.about \in A,
           \A r \in sources' : r \in sources \/ r.about \in A,
           \A p \in Pairs : forward'[p] # None => forward[p] # None \/ p \in A
    PROVE  LiveKept(A)
<1>1. AboutSecrets(secrets') \subseteq AboutSecrets(secrets) \cup A
  BY DEF AboutSecrets
<1>2. AboutSources(sources') \subseteq AboutSources(sources) \cup A
  BY DEF AboutSources
<1>3. {p \in Pairs : forward'[p] # None} \subseteq {p \in Pairs : forward[p] # None} \cup A
  OBVIOUS
<1>4. /\ LiveIn("secrets")' = AboutSecrets(secrets') /\ LiveIn("sources")' = AboutSources(sources')
      /\ LiveIn("subjects")' = {p \in Pairs : forward'[p] # None}
  BY DEF LiveIn
<1> QED BY <1>1, <1>2, <1>3, <1>4, LiveFiles DEF LiveKept, Rewritten

\* Deleting or replacing rows frees values the file held.
LEMMA FreedPages ==
    ASSUME TypeInv, NEW f \in Rewritten, NEW who, who \subseteq LiveIn(f), Freed(f, who), UNCHANGED temps
    PROVE  PagesKept
<1>1. residue \in [Rewritten -> SUBSET Pairs]
  BY DEF TypeInv, TypeOK, FolderTypeOK
<1> QED BY <1>1 DEF Freed, PagesKept

LEMMA FreedRows ==
    ASSUME TypeInv, UNCHANGED temps, NEW rows,
           \/ rows \subseteq secrets /\ Freed("secrets", AboutSecrets(rows))
           \/ rows \subseteq sources /\ Freed("sources", AboutSources(rows))
    PROVE  PagesKept
<1>1. CASE rows \subseteq secrets /\ Freed("secrets", AboutSecrets(rows))
  <2>1. AboutSecrets(rows) \subseteq LiveIn("secrets")
    BY <1>1, LiveFiles DEF AboutSecrets
  <2> QED BY <1>1, <2>1, FreedPages DEF Rewritten
<1>2. CASE rows \subseteq sources /\ Freed("sources", AboutSources(rows))
  <2>1. AboutSources(rows) \subseteq LiveIn("sources")
    BY <1>2, LiveFiles DEF AboutSources
  <2> QED BY <1>2, <2>1, FreedPages DEF Rewritten
<1> QED BY <1>1, <1>2

LEMMA SamePages == ASSUME UNCHANGED <<residue, temps>> PROVE PagesKept
BY DEF PagesKept

\* A rewrite copies live values only.
LEMMA RewrittenPages ==
    ASSUME TypeInv, NEW f \in Rewritten, RewriteOK(f) \/ RewriteError(f) \/ RewriteCrash(f)
    PROVE  PagesKept
<1>1. residue \in [Rewritten -> SUBSET Pairs] /\ temps \in [Rewritten -> SUBSET Pairs]
  BY DEF TypeInv, TypeOK, FolderTypeOK
<1>2. CASE RewriteOK(f)
  BY <1>1, <1>2 DEF RewriteOK, PagesKept
<1>3. CASE RewriteError(f)
  BY <1>1, <1>3 DEF RewriteError, PagesKept
<1>4. CASE RewriteCrash(f)
  BY <1>1, <1>4 DEF RewriteCrash, PagesKept
<1> QED BY <1>2, <1>3, <1>4

\* A successful one leaves nothing else in its file, and no rewrite disturbs another.
LEMMA RewrittenSwept ==
    ASSUME TypeInv, NEW f \in Rewritten, RewriteOK(f)
    PROVE  Swept(f)' /\ \A g \in Rewritten : Swept(g) => Swept(g)'
<1>1. residue \in [Rewritten -> SUBSET Pairs] /\ temps \in [Rewritten -> SUBSET Pairs]
  BY DEF TypeInv, TypeOK, FolderTypeOK
<1> QED BY <1>1 DEF RewriteOK, Swept

\* Every step frees and copies only what a file held.
LEMMA PagesCommit ==
    ASSUME TypeInv, HeldBack, CommitCall \/ CommitStep PROVE PagesKept
<1>1. CASE CommitCall \/ BindAll \/ PlanCommit \/ PutSecrets \/ PutSigs \/ AppendChains \/ CleanSigs
  BY <1>1, SamePages DEF CommitCall, CommitStart, BindAll, PlanCommit, PutSecrets, PutSigs, AppendChains, CleanSigs,
      folderVars, pageVars
<1>2. CASE PutSources \/ CleanSources \/ ForgetSources
  <2>1. \A new : ReplacedBy(new) \subseteq sources
    BY DEF ReplacedBy
  <2>2. UNCHANGED temps
    BY <1>2 DEF PutSources, CleanSources, ForgetSources
  <2>3. \/ UNCHANGED residue
        \/ \E rows : rows \subseteq sources /\ Freed("sources", AboutSources(rows))
    BY <1>2, <2>1 DEF PutSources, CleanSources, ForgetSources, TxError
  <2> QED BY <2>2, <2>3, FreedRows, SamePages
<1>3. CASE CleanSecrets
  <2>1. UNCHANGED temps /\ SecretsAt(Keys(plan)) \subseteq secrets
    BY <1>3 DEF CleanSecrets, SecretsAt
  <2>2. UNCHANGED residue \/ Freed("secrets", AboutSecrets(SecretsAt(Keys(plan))))
    BY <1>3 DEF CleanSecrets, TxError
  <2> QED BY <2>1, <2>2, FreedRows, SamePages
<1>4. CASE UnbindAll
  <2>1. UNCHANGED temps /\ pc = "unbind" /\ (UNCHANGED residue \/ Freed("subjects", {b.pair : b \in fresh}))
    BY <1>4 DEF UnbindAll, Unbound, TxError
  <2>2. {b.pair : b \in fresh} \subseteq LiveIn("subjects")
    <3>1. \A b \in fresh : b.pair \in Pairs /\ b.chain \in Chains /\ forward[b.pair] = b.chain
      BY <2>1 DEF TypeInv, TypeOK, Bindings, HeldBack, FreshBound, OpenPcs, CleanPcs
    <3>2. None \notin Chains
      BY FolderAssumption
    <3> QED BY <3>1, <3>2, LiveFiles
  <2> QED BY <2>1, <2>2, FreedPages, SamePages DEF Rewritten
<1> QED BY <1>1, <1>2, <1>3, <1>4 DEF CommitStep

LEMMA PagesErase ==
    ASSUME TypeInv, IndexInv, EraseStep PROVE PagesKept
<1>1. CASE Presign \/ NextChain \/ PutErasureRecord \/ PutErasureSig \/ AppendErasure \/ UndoRecord \/ UndoSig
           \/ LeftSigs \/ ClearErased
  BY <1>1, SamePages DEF Presign, NextChain, PutErasureRecord, PutErasureSig, AppendErasure, UndoRecord, UndoSig,
      LeftSigs, ClearErased, folderVars, pageVars
<1>2. CASE EraseSecrets \/ LeftSecrets
  <2>1. UNCHANGED temps /\ {r \in secrets : r.chain = call.cur} \subseteq secrets
    BY <1>2 DEF EraseSecrets, LeftSecrets
  <2>2. UNCHANGED residue \/ Freed("secrets", AboutSecrets({r \in secrets : r.chain = call.cur}))
    BY <1>2 DEF EraseSecrets, LeftSecrets, TxError
  <2> QED BY <2>1, <2>2, FreedRows, SamePages
<1>3. CASE EraseSources
  <2>1. UNCHANGED temps /\ {r \in sources : r.chain = call.cur} \subseteq sources
    BY <1>3 DEF EraseSources
  <2>2. UNCHANGED residue \/ Freed("sources", AboutSources({r \in sources : r.chain = call.cur}))
    BY <1>3 DEF EraseSources, TxError
  <2> QED BY <2>1, <2>2, FreedRows, SamePages
<1>4. CASE ForgetRelinked
  <2>1. UNCHANGED temps /\ (UNCHANGED residue \/ \E c \in RelinkedRows : Freed("subjects", {reverse[c]}))
    BY <1>4 DEF ForgetRelinked, ChainForgotten, TxError
  <2>2. \A c \in RelinkedRows : {reverse[c]} \subseteq LiveIn("subjects")
    <3>1. \A c \in RelinkedRows : c \in Chains /\ reverse[c] \in Pairs /\ forward[reverse[c]] = c
      BY DEF RelinkedRows, Live, IndexInv, Agree
    <3>2. None \notin Chains
      BY FolderAssumption
    <3> QED BY <3>1, <3>2, LiveFiles
  <2> QED BY <2>1, <2>2, FreedPages, SamePages DEF Rewritten
<1>5. CASE Forget
  <2>1. UNCHANGED temps /\ (UNCHANGED residue \/ Freed("subjects", {p \in call.who : forward[p] # None}))
    BY <1>5 DEF Forget, Forgotten, TxError
  <2>2. {p \in call.who : forward[p] # None} \subseteq LiveIn("subjects")
    BY CallFields, LiveFiles DEF TypeInv, TypeOK
  <2> QED BY <2>1, <2>2, FreedPages, SamePages DEF Rewritten
<1>6. CASE RewriteAgain
  BY <1>6, RewrittenPages DEF RewriteAgain, Rewrite, Rewritten
<1> QED BY <1>1, <1>2, <1>3, <1>4, <1>5, <1>6 DEF EraseStep

LEMMA PagesRest ==
    ASSUME ~Restores, TypeInv, ReachInv,
           \/ RepairStep \/ RewriteStep \/ EraseCall \/ ResumeCall \/ RepairStart
           \/ RequireRecordSigning \/ Return \/ Crash \/ TakeBackup \/ RestoreIndex
    PROVE  PagesKept
<1>1. CASE RewriteSecrets \/ RewriteSources \/ RewriteSubjects
  BY <1>1, RewrittenPages DEF RewriteSecrets, RewriteSources, RewriteSubjects, Rewrite, Rewritten
<1>2. CASE FixSecrets
  <2>1. UNCHANGED temps /\ UnmatchedSecrets(call.cur) \subseteq secrets
    BY <1>2 DEF FixSecrets, UnmatchedSecrets
  <2>2. UNCHANGED residue \/ Freed("secrets", AboutSecrets(UnmatchedSecrets(call.cur)))
    BY <1>2 DEF FixSecrets, TxError
  <2> QED BY <2>1, <2>2, FreedRows, SamePages
<1>3. CASE FixSources
  <2>1. UNCHANGED temps /\ DanglingSources(call.cur) \subseteq sources
    BY <1>3 DEF FixSources, DanglingSources
  <2>2. UNCHANGED residue \/ Freed("sources", AboutSources(DanglingSources(call.cur)))
    BY <1>3 DEF FixSources, TxError
  <2> QED BY <2>1, <2>2, FreedRows, SamePages
<1>4. CASE RepairChain \/ FixSigs \/ RewriteSigs \/ Finish \/ EraseCall \/ ResumeCall \/ RepairStart
           \/ RequireRecordSigning \/ Return \/ Crash
  BY <1>4, SamePages DEF RepairChain, FixSigs, RewriteSigs, Finish, EraseCall, ResumeCall, EraseStart, RepairStart,
      RequireRecordSigning, Return, Crash, folderVars, pageVars
<1>5. ~TakeBackup /\ ~RestoreIndex
  BY DEF TakeBackup, RestoreIndex, ReachInv
<1> QED BY <1>1, <1>2, <1>3, <1>4, <1>5 DEF RepairStep, RewriteStep

\* A commit adds values of its pairs.
LEMMA LiveCommit ==
    ASSUME HeldBack, ReachInv, CommitStep PROVE LiveKept(PairsOf(call.batch))
<1> DEFINE A == PairsOf(call.batch)
<1>1. \A r \in secrets' : r \in secrets \/ r.value.about = None \/ r.value.about \in A
  <2>1. CASE PutSecrets
    <3>1. \A e \in plan : SecretRow(e).value.about \in A
      BY <2>1 DEF PutSecrets, ReachInv, AboutBatch, WritePcs, SecretRow
    <3> QED BY <2>1, <3>1 DEF PutSecrets, TxError
  <2>2. CASE ~PutSecrets
    BY <2>2 DEF CommitStep, BindAll, PlanCommit, PutSigs, PutSources, AppendChains, CleanSecrets, CleanSigs,
        CleanSources, ForgetSources, UnbindAll, TxError, folderVars
  <2> QED BY <2>1, <2>2
<1>2. \A r \in sources' : r \in sources \/ r.about \in A
  <2>1. CASE PutSources
    <3>1. \A e \in plan : PositionRow(e).about \in A
      BY <2>1 DEF PutSources, ReachInv, AboutBatch, WritePcs, PositionRow
    <3>2. \A r \in Positions(plan) : r.about \in A
      BY <3>1 DEF Positions
    <3> QED BY <2>1, <3>2 DEF PutSources, TxError
  <2>2. CASE ~PutSources
    BY <2>2 DEF CommitStep, BindAll, PlanCommit, PutSecrets, PutSigs, AppendChains, CleanSecrets, CleanSigs,
        CleanSources, ForgetSources, UnbindAll, TxError, folderVars
  <2> QED BY <2>1, <2>2
<1>3. \A p \in Pairs : forward'[p] # None => forward[p] # None \/ p \in A
  <2>1. CASE BindAll
    <3>1. \A b \in fresh : b.pair \in A
      BY <2>1 DEF BindAll, HeldBack, FreshBound, OpenPcs, StartPcs
    <3> QED BY <2>1, <3>1 DEF BindAll, Bound, TxError, indexVars
  <2>2. CASE UnbindAll
    BY <2>2 DEF UnbindAll, Unbound, TxError, indexVars
  <2>3. CASE ~BindAll /\ ~UnbindAll
    BY <2>3 DEF CommitStep, PlanCommit, PutSecrets, PutSigs, PutSources, AppendChains, CleanSecrets, CleanSigs,
        CleanSources, ForgetSources, folderVars, indexVars
  <2> QED BY <2>1, <2>2, <2>3
<1> HIDE DEF A
<1> QED BY <1>1, <1>2, <1>3, LiveRows DEF A

\* Every other step adds nobody's.
LEMMA LiveErase == ASSUME TypeInv, EndInv, EraseStep PROVE LiveKept({})
<1>1. \A r \in secrets' : r \in secrets \/ r.value.about = None
  <2>1. CASE PutErasureRecord
    BY <2>1, RecordsOfNobody DEF PutErasureRecord, TxError
  <2>2. CASE EraseSecrets
    <3>1. \A e : Genuine(e) => SecretRow(e).value.about = None
      BY DEF Genuine, SecretRow, ErasureRecord
    <3> QED BY <2>2, <3>1 DEF EraseSecrets, TxError
  <2>3. CASE ~PutErasureRecord /\ ~EraseSecrets
    BY <2>3 DEF EraseStep, ForgetRelinked, Presign, Forget, NextChain, PutErasureSig, AppendErasure, UndoRecord, UndoSig,
        LeftSecrets, EraseSources, LeftSigs, ClearErased, RewriteAgain, Rewrite, TxError, folderVars
  <2> QED BY <2>1, <2>2, <2>3
<1>2. sources' \subseteq sources
  BY DEF EraseStep, ForgetRelinked, Presign, Forget, NextChain, PutErasureRecord, PutErasureSig, AppendErasure,
      UndoRecord, UndoSig, EraseSecrets, LeftSecrets, EraseSources, LeftSigs, ClearErased, RewriteAgain, Rewrite,
      TxError, folderVars
<1>3. \A p \in Pairs : forward'[p] # None => forward[p] # None
  <2>1. forward \in [Pairs -> Chains \cup {None}]
    BY DEF TypeInv, TypeOK, FolderTypeOK
  <2>2. CASE ForgetRelinked \/ Forget
    BY <2>1, <2>2 DEF ForgetRelinked, Forget, ChainForgotten, Forgotten, TxError, indexVars
  <2>3. CASE ~(ForgetRelinked \/ Forget)
    BY <2>3 DEF EraseStep, Presign, NextChain, PutErasureRecord, PutErasureSig, AppendErasure, UndoRecord, UndoSig,
        EraseSecrets, LeftSecrets, EraseSources, LeftSigs, ClearErased, RewriteAgain, Rewrite, folderVars, indexVars
  <2> QED BY <2>2, <2>3
<1> QED BY <1>1, <1>2, <1>3, LiveRows

LEMMA LiveRest ==
    ASSUME ~Restores, ReachInv,
           \/ RepairStep \/ RewriteStep \/ EraseCall \/ ResumeCall \/ RepairStart \/ CommitCall
           \/ RequireRecordSigning \/ Return \/ Crash \/ TakeBackup \/ RestoreIndex
    PROVE  LiveKept({})
<1>1. ~TakeBackup /\ ~RestoreIndex
  BY DEF TakeBackup, RestoreIndex, ReachInv
<1>2. secrets' \subseteq secrets /\ sources' \subseteq sources /\ UNCHANGED forward
  BY <1>1 DEF RepairStep, RepairChain, FixSecrets, FixSources, FixSigs, RewriteStep, RewriteSecrets, RewriteSources,
      RewriteSubjects, RewriteSigs, Rewrite, Finish, EraseCall, ResumeCall, EraseStart, RepairStart, CommitCall,
      CommitStart, RequireRecordSigning, Return, Crash, TxError, folderVars, indexVars
<1> QED BY <1>2, LiveRows

\* Nothing of a pair that is gone comes back before its next commit.
LEMMA GoneCommit == ASSUME TypeInv, EndInv, HeldBack, ReachInv, GoneStays, CommitStep PROVE GoneStays'
<1>1. UNCHANGED gone /\ pc \in OpenPcs /\ Advanced
  BY DEF CommitStep, BindAll, PlanCommit, PutSecrets, PutSigs, PutSources, AppendChains, CleanSecrets, CleanSigs,
      CleanSources, ForgetSources, UnbindAll, ReturnWith, Advanced, OpenPcs, StartPcs, WritePcs, CleanPcs
<1>2. call'.batch = call.batch
  BY <1>1, SameBatch DEF TypeInv, TypeOK
<1>3. (gone \cap PairsOf(call.batch) = {})'
  BY <1>1, <1>2 DEF GoneStays, PairsOf
<1>4. PairsOf(call.batch) \cap gone = {}
  BY <1>1 DEF GoneStays
<1>5. \A p \in gone' : ~Holds(p)'
  BY <1>1, <1>4, PagesCommit, LiveCommit, GoneKept DEF GoneStays
<1> QED BY <1>3, <1>5 DEF GoneStays

LEMMA GoneOther ==
    ASSUME GoneStays, PagesKept, LiveKept({}), gone' \subseteq gone, pc' \notin OpenPcs
    PROVE  GoneStays'
<1>1. \A p \in gone' : ~Holds(p)'
  BY GoneKept DEF GoneStays
<1> QED BY <1>1 DEF GoneStays

LEMMA GoneCommitCall == ASSUME ~Restores, TypeInv, HeldBack, ReachInv, GoneStays, CommitCall PROVE GoneStays'
<1>1. PICK b \in Batches, s \in SignerConfigs : CommitStart(b, s)
  BY DEF CommitCall
<1>2. gone' = gone \ PairsOf(b) /\ call'.batch = b
  BY <1>1 DEF CommitStart, NoCall
<1>3. \A p \in gone' : ~Holds(p)'
  BY <1>2, PagesCommit, LiveRest, GoneKept DEF GoneStays
<1>4. (gone \cap PairsOf(call.batch) = {})'
  BY <1>2 DEF PairsOf
<1> QED BY <1>3, <1>4 DEF GoneStays

-----------------------------------------------------------------------------
(* What was erased is gone: what an erasure has accounted for *)

\* The registers an erasure accounts with.
Regs(x, todo, cur, erased, clean, compacted) ==
    /\ x.kind = call.kind /\ x.who = call.who /\ x.todo = todo /\ x.cur = cur
    /\ x.erased = erased /\ x.clean = clean /\ x.compacted = compacted

LEMMA Registers ==
    ASSUME call \in Calls
    PROVE  /\ Regs(call, call.todo, call.cur, call.erased, call.clean, call.compacted)
           /\ Regs([call EXCEPT !.clean = FALSE], call.todo, call.cur, call.erased, FALSE, call.compacted)
           /\ Regs([call EXCEPT !.clean = FALSE, !.compacted = FALSE], call.todo, call.cur, call.erased, FALSE, FALSE)
           /\ \A o : Regs([call EXCEPT !.outcome = o], call.todo, call.cur, call.erased, call.clean, call.compacted)
           /\ \A t : Regs([call EXCEPT !.todo = t], t, call.cur, call.erased, call.clean, call.compacted)
           /\ \A c : Regs([call EXCEPT !.cur = c], call.todo, c, call.erased, call.clean, call.compacted)
           /\ \A e : Regs([call EXCEPT !.erased = e], call.todo, call.cur, e, call.clean, call.compacted)
           /\ \A t, c : Regs([call EXCEPT !.todo = t, !.cur = c], t, c, call.erased, call.clean, call.compacted)
           /\ \A t, c : Regs([[call EXCEPT !.todo = t, !.cur = c] EXCEPT !.clean = FALSE], t, c, call.erased, FALSE,
                             call.compacted)
<1>1. /\ Regs(call, call.todo, call.cur, call.erased, call.clean, call.compacted)
      /\ Regs([call EXCEPT !.clean = FALSE], call.todo, call.cur, call.erased, FALSE, call.compacted)
      /\ Regs([call EXCEPT !.clean = FALSE, !.compacted = FALSE], call.todo, call.cur, call.erased, FALSE, FALSE)
  BY DEF Regs, Calls
<1>2. /\ \A o : Regs([call EXCEPT !.outcome = o], call.todo, call.cur, call.erased, call.clean, call.compacted)
      /\ \A t : Regs([call EXCEPT !.todo = t], t, call.cur, call.erased, call.clean, call.compacted)
      /\ \A c : Regs([call EXCEPT !.cur = c], call.todo, c, call.erased, call.clean, call.compacted)
      /\ \A e : Regs([call EXCEPT !.erased = e], call.todo, call.cur, e, call.clean, call.compacted)
  BY DEF Regs, Calls
<1>3. \A t, c : Regs([call EXCEPT !.todo = t, !.cur = c], t, c, call.erased, call.clean, call.compacted)
  BY DEF Regs, Calls
<1>4. \A t, c : Regs([[call EXCEPT !.todo = t, !.cur = c] EXCEPT !.clean = FALSE], t, c, call.erased, FALSE,
                     call.compacted)
  BY DEF Regs, Calls
<1> QED BY <1>1, <1>2, <1>3, <1>4

\* An erasure with no error so far had every rewrite succeed.
CleanCompacted == call.clean => call.compacted

\* An update of the registers, or a call begun or over.
Updated == Onward \/ (\E e : call' = [call EXCEPT !.erased = e]) \/ call' = NoCall

LEMMA UpdatedKeeps ==
    ASSUME call \in Calls, CleanCompacted, Updated
    PROVE  CleanCompacted' /\ call'.kind \in {call.kind, "none"}
<1>1. CASE call' = NoCall
  BY <1>1 DEF NoCall, CleanCompacted
<1>2. CASE \E e : call' = [call EXCEPT !.erased = e]
  BY <1>2, Registers DEF Regs, CleanCompacted
<1>3. CASE Onward
  <2>1. CASE call' = call \/ call' = [call EXCEPT !.clean = FALSE]
              \/ call' = [call EXCEPT !.clean = FALSE, !.compacted = FALSE]
    BY <2>1, Registers DEF Regs, CleanCompacted
  <2>2. CASE \E o : call' = [call EXCEPT !.outcome = o]
    BY <2>2, Registers DEF Regs, CleanCompacted
  <2>3. CASE \E t : call' = [call EXCEPT !.todo = t]
    BY <2>3, Registers DEF Regs, CleanCompacted
  <2>4. CASE \E c : call' = [call EXCEPT !.cur = c]
    BY <2>4, Registers DEF Regs, CleanCompacted
  <2>5. CASE \E t, c : call' = [call EXCEPT !.todo = t, !.cur = c]
    BY <2>5, Registers DEF Regs, CleanCompacted
  <2>6. CASE \E t, c : call' = [[call EXCEPT !.todo = t, !.cur = c] EXCEPT !.clean = FALSE]
    BY <2>6, Registers DEF Regs, CleanCompacted
  <2> QED BY <1>3, <2>1, <2>2, <2>3, <2>4, <2>5, <2>6 DEF Onward
<1> QED BY <1>1, <1>2, <1>3 DEF Updated

\* Away from an erasure's own steps only the errors are kept count of.
LEMMA BooksOther ==
    ASSUME CleanCompacted', call'.kind # "erase" \/ pc' \notin ErasePcs \cup RewritePcs \cup ClosePcs
    PROVE  Books'
<1>1. /\ ForgottenPcs \subseteq ErasePcs \cup RewritePcs \cup ClosePcs
      /\ {"rewriteAgain", "finish"} \subseteq ClosePcs /\ {"rewriteSubjects", "rewriteSigs"} \subseteq RewritePcs
  BY DEF ForgottenPcs, RewritePcs, ClosePcs
<1> QED BY <1>1 DEF Books, CleanCompacted, ScopeForgotten, AllAccounted, SweptSoFar, Cleanly

LEMMA BooksAside ==
    ASSUME TypeInv, EndInv, Books,
           \/ CommitCall \/ CommitStep \/ EraseCall \/ ResumeCall \/ RepairStart \/ RepairStep
           \/ RequireRecordSigning \/ Return \/ Crash
    PROVE  Books'
<1>1. call \in Calls /\ CleanCompacted
  BY DEF TypeInv, TypeOK, Books, SweptSoFar, CleanCompacted
<1>2. CASE CommitCall
  <2>1. pc' \in StartPcs \cup {"return"} /\ CleanCompacted'
    BY <1>2 DEF CommitCall, CommitStart, NoCall, CleanCompacted, StartPcs
  <2> QED BY <2>1, BooksOther DEF StartPcs, ErasePcs, RewritePcs, ClosePcs
<1>3. CASE CommitStep
  <2>1. pc' \in OpenPcs \cup {"return"} /\ Updated
    BY <1>3 DEF CommitStep, BindAll, PlanCommit, PutSecrets, PutSigs, PutSources, AppendChains, CleanSecrets, CleanSigs,
        CleanSources, ForgetSources, UnbindAll, ReturnWith, Updated, Onward, OpenPcs, StartPcs, WritePcs, CleanPcs
  <2> QED BY <1>1, <2>1, UpdatedKeeps, BooksOther
        DEF OpenPcs, StartPcs, WritePcs, CleanPcs, ErasePcs, RewritePcs, ClosePcs
<1>4. CASE EraseCall \/ ResumeCall
  <2>1. pc' \in {"relinked", "presign", "return"} /\ CleanCompacted'
    BY <1>4 DEF EraseCall, ResumeCall, EraseStart, NoCall, CleanCompacted
  <2> QED BY <2>1, BooksOther DEF ErasePcs, RewritePcs, ClosePcs
<1>5. CASE RepairStart
  <2>1. pc' = "scan" /\ CleanCompacted'
    BY <1>5 DEF RepairStart, NoCall, CleanCompacted
  <2> QED BY <2>1, BooksOther DEF ErasePcs, RewritePcs, ClosePcs
<1>6. CASE RepairStep
  <2>1. pc \in {"scan", "fixSecrets", "fixSources", "fixSigs"}
    BY <1>6 DEF RepairStep, RepairChain, FixSecrets, FixSources, FixSigs
  <2>2. call.kind = "repair"
    BY <2>1 DEF EndInv, CallKinds
  <2>3. Updated
    <3>1. CASE RepairChain
      BY <3>1 DEF RepairChain, RepairFails, Updated, Onward
    <3>2. CASE FixSecrets \/ FixSources \/ FixSigs
      BY <3>2 DEF FixSecrets, FixSources, FixSigs, RepairFails, Updated, Onward
    <3> QED BY <1>6, <3>1, <3>2 DEF RepairStep
  <2> QED BY <1>1, <2>2, <2>3, UpdatedKeeps, BooksOther
<1>7. CASE RequireRecordSigning
  <2>1. UNCHANGED <<pc, call, forward, reverse, residue, temps>>
    BY <1>7 DEF RequireRecordSigning, callVars, indexVars, pageVars
  <2> QED BY <2>1 DEF Books, ScopeForgotten, AllAccounted, SweptSoFar, Cleanly, Swept, PendingRows
<1>8. CASE Return \/ Crash
  <2>1. pc' = "idle" /\ call' = NoCall
    BY <1>8 DEF Return, Crash
  <2> QED BY <1>1, <2>1, UpdatedKeeps, BooksOther DEF Updated, ErasePcs, RewritePcs, ClosePcs
<1> QED BY <1>2, <1>3, <1>4, <1>5, <1>6, <1>7, <1>8

\* The steps on one chain after the other: what is to do, in hand or done stays accounted for.
ChainMoves ==
    /\ call'.kind = call.kind /\ call'.who = call.who
    /\ \/ ~call'.clean /\ pc' \in ErasePcs \ {"forget"}
       \/ /\ call'.clean = call.clean
          /\ \/ /\ pc = "nextChain" /\ pc' = "rewriteSecrets" /\ call.todo = {}
                /\ call'.todo = call.todo /\ call'.erased = call.erased
             \/ /\ pc = "nextChain" /\ pc' \in WorkPcs /\ call'.erased = call.erased
                /\ \E c \in call.todo : call'.todo = call.todo \ {c} /\ call'.cur = c
             \/ pc \in WorkPcs /\ pc' \in WorkPcs /\ call' = call
             \/ /\ pc \in WorkPcs /\ pc' = "nextChain"
                /\ call'.todo = call.todo /\ call'.erased = call.erased \cup {call.cur}

LEMMA BooksMove ==
    ASSUME Books, UNCHANGED indexVars, pc \in ErasePcs \ {"forget"}, CleanCompacted', ChainMoves
    PROVE  Books'
<1>1. pc' \in ErasePcs \ {"forget"} \/ (pc' = "rewriteSecrets" /\ call.todo = {} /\ call'.todo = {})
  BY DEF ChainMoves, WorkPcs, EntryPcs, ErasePcs
<1>2. pc \in ForgottenPcs /\ pc' \notin ClosePcs /\ pc' \notin RewritePcs \ {"rewriteSecrets"}
  BY <1>1 DEF ForgottenPcs, ErasePcs, RewritePcs, ClosePcs
<1>3. ScopeForgotten'
  BY <1>2 DEF ChainMoves, Books, ScopeForgotten, indexVars
<1>4. SweptSoFar'
  BY <1>2 DEF SweptSoFar, CleanCompacted, RewritePcs
<1>5. PendingRows' = PendingRows
  BY DEF PendingRows, indexVars
<1>6. ASSUME Cleanly', pc' \in ErasePcs \cup RewritePcs \cup ClosePcs
      PROVE  PendingRows' \subseteq call'.todo \cup call'.erased \cup (IF pc' \in WorkPcs THEN {call'.cur} ELSE {})
  <2>1. Cleanly /\ call'.clean
    BY <1>6 DEF Cleanly, ChainMoves
  <2>2. PendingRows \subseteq call.todo \cup call.erased \cup (IF pc \in WorkPcs THEN {call.cur} ELSE {})
    BY <2>1 DEF Books, AllAccounted
  <2>3. "nextChain" \notin WorkPcs /\ "rewriteSecrets" \notin WorkPcs
    BY DEF WorkPcs, EntryPcs
  <2>4. CASE pc \in WorkPcs /\ pc' \in WorkPcs /\ call' = call
    BY <1>5, <2>2, <2>4
  <2>5. CASE pc = "nextChain"
    BY <1>5, <2>1, <2>2, <2>3, <2>5 DEF ChainMoves
  <2>6. CASE pc' = "nextChain" /\ pc \in WorkPcs
    BY <1>5, <2>1, <2>2, <2>3, <2>6 DEF ChainMoves
  <2> QED BY <2>1, <2>3, <2>4, <2>5, <2>6 DEF ChainMoves
<1>7. AllAccounted'
  <2>1. pc' \in RewritePcs \cup ClosePcs => call'.todo = {}
    BY <1>1 DEF ErasePcs, RewritePcs, ClosePcs
  <2>2. pc' \notin {"rewriteAgain", "finish"}
    BY <1>2 DEF ClosePcs
  <2> QED BY <1>6, <2>1, <2>2 DEF AllAccounted
<1> QED BY <1>3, <1>4, <1>7 DEF Books

LEMMA BooksChain ==
    ASSUME TypeInv, Books,
           \/ NextChain \/ PutErasureRecord \/ PutErasureSig \/ AppendErasure \/ UndoRecord \/ UndoSig
           \/ EraseSecrets \/ LeftSecrets \/ EraseSources \/ LeftSigs
    PROVE  Books'
<1>1. call \in Calls /\ CleanCompacted
  BY DEF TypeInv, TypeOK, Books, SweptSoFar, CleanCompacted
<1>2. UNCHANGED indexVars /\ pc \in ErasePcs \ {"forget"}
  BY DEF NextChain, PutErasureRecord, PutErasureSig, AppendErasure, UndoRecord, UndoSig, EraseSecrets, LeftSecrets,
      EraseSources, LeftSigs, folderVars, indexVars, ErasePcs
<1>3. StaysPending => ChainMoves
  BY <1>1, Registers DEF StaysPending, ChainMoves, Regs, ErasePcs
<1>4. ChainMoves
  <2>1. CASE NextChain
    <3>1. CASE call.todo = {} /\ pc' = "rewriteSecrets" /\ call' = [call EXCEPT !.cur = None]
      BY <1>1, <2>1, <3>1, Registers DEF NextChain, ChainMoves, Regs
    <3>2. ASSUME NEW c \in call.todo, pc' \in {"leftSecrets", "eraseSecrets", "putRecord"},
                 call' = [call EXCEPT !.todo = @ \ {c}, !.cur = c]
          PROVE  ChainMoves
      <4>1. Regs(call', call.todo \ {c}, c, call.erased, call.clean, call.compacted)
        BY <1>1, <3>2 DEF Regs, Calls
      <4>2. pc = "nextChain" /\ pc' \in WorkPcs
        BY <2>1, <3>2 DEF NextChain, WorkPcs, EntryPcs
      <4> QED BY <4>1, <4>2 DEF ChainMoves, Regs
    <3>3. ASSUME NEW c \in call.todo, pc' = "nextChain",
                 call' = [[call EXCEPT !.todo = @ \ {c}, !.cur = c] EXCEPT !.clean = FALSE]
          PROVE  ChainMoves
      BY <1>1, <3>3, Registers DEF ChainMoves, Regs, ErasePcs
    <3> QED BY <2>1, <3>1, <3>2, <3>3 DEF NextChain
  <2>2. CASE PutErasureRecord \/ PutErasureSig \/ AppendErasure
    <3>1. StaysPending \/ (pc \in WorkPcs /\ pc' \in WorkPcs /\ call' = call)
      BY <2>2 DEF PutErasureRecord, PutErasureSig, AppendErasure, WorkPcs, EntryPcs
    <3> QED BY <1>1, <1>3, <3>1, Registers DEF ChainMoves, Regs
  <2>3. CASE UndoRecord \/ UndoSig \/ EraseSecrets \/ LeftSecrets
    <3>1. StaysPending \/ (pc \in WorkPcs /\ pc' \in WorkPcs /\ call' = call)
      BY <2>3 DEF UndoRecord, UndoSig, EraseSecrets, LeftSecrets, WorkPcs, EntryPcs
    <3> QED BY <1>1, <1>3, <3>1, Registers DEF ChainMoves, Regs
  <2>4. CASE EraseSources \/ LeftSigs
    <3>1. \/ StaysPending \/ (pc \in WorkPcs /\ pc' \in WorkPcs /\ call' = call)
          \/ pc \in WorkPcs /\ pc' = "nextChain" /\ call' = [call EXCEPT !.erased = @ \cup {call.cur}]
      BY <2>4 DEF EraseSources, LeftSigs, WorkPcs
    <3>2. CASE pc \in WorkPcs /\ pc' = "nextChain" /\ call' = [call EXCEPT !.erased = @ \cup {call.cur}]
      BY <1>1, <3>2, Registers DEF ChainMoves, Regs
    <3> QED BY <1>1, <1>3, <3>1, <3>2, Registers DEF ChainMoves, Regs
  <2> QED BY <2>1, <2>2, <2>3, <2>4
<1>5. Updated
  <2>1. CASE NextChain
    BY <2>1 DEF NextChain, Updated, Onward
  <2>2. CASE PutErasureRecord \/ PutErasureSig \/ AppendErasure \/ UndoRecord \/ UndoSig \/ EraseSecrets \/ LeftSecrets
    BY <2>2 DEF PutErasureRecord, PutErasureSig, AppendErasure, UndoRecord, UndoSig, EraseSecrets, LeftSecrets,
        StaysPending, Updated, Onward
  <2>3. CASE EraseSources \/ LeftSigs
    BY <2>3 DEF EraseSources, LeftSigs, StaysPending, Updated, Onward
  <2> QED BY <2>1, <2>2, <2>3
<1>6. CleanCompacted'
  BY <1>1, <1>5, UpdatedKeeps
<1> QED BY <1>2, <1>4, <1>6, BooksMove

\* Before the chains: what is decided, and the one step that forgets.
LEMMA BooksPresign == ASSUME TypeInv, EndInv, Books, Presign \/ ForgetRelinked PROVE Books'
<1>1. call \in Calls /\ CleanCompacted
  BY DEF TypeInv, TypeOK, Books, SweptSoFar, CleanCompacted
<1>2. Updated
  BY DEF Presign, ForgetRelinked, ReturnWith, Updated, Onward
<1>3. CleanCompacted' /\ call'.kind \in {call.kind, "none"}
  BY <1>1, <1>2, UpdatedKeeps
<1>4. CASE pc' \notin ErasePcs \cup RewritePcs \cup ClosePcs
  BY <1>3, <1>4, BooksOther
<1>5. CASE call.kind # "erase"
  BY <1>3, <1>5, BooksOther
<1>6. CASE pc' \in ErasePcs \cup RewritePcs \cup ClosePcs /\ call.kind = "erase"
  <2>1. pc' = "forget" /\ call' = [call EXCEPT !.todo = PendingRows] /\ UNCHANGED indexVars
    BY <1>6 DEF Presign, ForgetRelinked, ReturnWith, folderVars, ErasePcs, RewritePcs, ClosePcs
  <2>2. call'.todo = PendingRows /\ PendingRows' = PendingRows
    BY <1>1, <2>1, Registers DEF Regs, PendingRows, indexVars
  <2>3. "forget" \notin RewritePcs \cup ClosePcs \cup ForgottenPcs
    BY DEF RewritePcs, ClosePcs, ForgottenPcs
  <2> QED BY <1>3, <2>1, <2>2, <2>3 DEF Books, ScopeForgotten, AllAccounted, SweptSoFar, CleanCompacted, ClosePcs, RewritePcs
<1> QED BY <1>4, <1>5, <1>6

LEMMA BooksForget == ASSUME TypeInv, EndInv, Books, Forget PROVE Books'
<1>1. call \in Calls /\ CleanCompacted
  BY DEF TypeInv, TypeOK, Books, SweptSoFar, CleanCompacted
<1>2. Updated
  BY DEF Forget, ReturnWith, Updated, Onward
<1>3. CleanCompacted' /\ call'.kind \in {call.kind, "none"}
  BY <1>1, <1>2, UpdatedKeeps
<1>4. CASE pc' = "return"
  BY <1>3, <1>4, BooksOther DEF ErasePcs, RewritePcs, ClosePcs
<1>5. CASE call.kind # "erase"
  BY <1>3, <1>5, BooksOther
<1>6. CASE pc' # "return" /\ call.kind = "erase"
  <2>1. /\ Forgotten /\ pc = "forget" /\ pc' = "nextChain"
        /\ call' = [call EXCEPT !.todo = @ \cup ChainsOf(call.who)]
    BY <1>6 DEF Forget, ReturnWith
  <2>2. Regs(call', call.todo \cup ChainsOf(call.who), call.cur, call.erased, call.clean, call.compacted)
    BY <1>1, <2>1, Registers
  <2>3. call.who \subseteq Pairs
    BY <1>1, CallFields
  <2>4. \A p \in call'.who : forward'[p] = None
    BY <2>1, <2>2, <2>3 DEF Forgotten, Regs
  <2>5. PendingRows' \subseteq PendingRows \cup ChainsOf(call.who)
    BY <2>1 DEF PendingRows, Forgotten
  <2>6. Cleanly' => PendingRows' \subseteq call'.todo \cup call'.erased
    <3>1. Cleanly' => PendingRows \subseteq call.todo \cup call.erased
      BY <2>1, <2>2 DEF Books, AllAccounted, Cleanly, Regs, ErasePcs, WorkPcs, EntryPcs
    <3> QED BY <2>2, <2>5, <3>1 DEF Regs
  <2>7. "nextChain" \notin RewritePcs \cup ClosePcs
    BY DEF RewritePcs, ClosePcs
  <2> QED BY <1>3, <2>1, <2>4, <2>6, <2>7
        DEF Books, ScopeForgotten, AllAccounted, SweptSoFar, CleanCompacted, ClosePcs, RewritePcs
<1> QED BY <1>4, <1>5, <1>6

\* The rewrites: an error is remembered, and a file rewritten stays swept.
LEMMA BooksRewrite ==
    ASSUME TypeInv, Books, RewriteSecrets \/ RewriteSources \/ RewriteSubjects \/ RewriteAgain
    PROVE  Books'
<1>1. call \in Calls /\ CleanCompacted
  BY DEF TypeInv, TypeOK, Books, SweptSoFar, CleanCompacted
<1>2. PICK f, at, next : /\ f \in Rewritten /\ Rewrite(f, at, next)
                         /\ \/ f = "secrets" /\ at = "rewriteSecrets" /\ next = "rewriteSources"
                            \/ f = "sources" /\ at = "rewriteSources" /\ call.kind = "erase"
                               /\ next = "rewriteSubjects"
                            \/ call.kind # "erase"
                            \/ f = "subjects" /\ at = "rewriteSubjects" /\ next = "rewriteSigs"
                            \/ f = "subjects" /\ at = "rewriteAgain" /\ next = "finish"
  <2> DEFINE G(f, at, next) == /\ f \in Rewritten /\ Rewrite(f, at, next)
                               /\ \/ f = "secrets" /\ at = "rewriteSecrets" /\ next = "rewriteSources"
                                  \/ f = "sources" /\ at = "rewriteSources" /\ call.kind = "erase"
                                     /\ next = "rewriteSubjects"
                                  \/ call.kind # "erase"
                                  \/ f = "subjects" /\ at = "rewriteSubjects" /\ next = "rewriteSigs"
                                  \/ f = "subjects" /\ at = "rewriteAgain" /\ next = "finish"
  <2>1. CASE RewriteSecrets
    <3>1. G("secrets", "rewriteSecrets", "rewriteSources")
      BY <2>1 DEF RewriteSecrets, Rewritten
    <3> QED BY <3>1
  <2>2. CASE RewriteSources
    <3>1. PICK next : Rewrite("sources", "rewriteSources", next) /\ (Erasing => next = "rewriteSubjects")
      BY <2>2 DEF RewriteSources
    <3>2. G("sources", "rewriteSources", next)
      BY <3>1 DEF Rewritten, Erasing
    <3> QED BY <3>2
  <2>3. CASE RewriteSubjects
    <3>1. PICK next : Rewrite("subjects", "rewriteSubjects", next) /\ (call.kind = "erase" => next = "rewriteSigs")
      BY <2>3 DEF RewriteSubjects, Erasing
    <3>2. G("subjects", "rewriteSubjects", next)
      BY <3>1 DEF Rewritten
    <3> QED BY <3>2
  <2>4. CASE RewriteAgain
    <3>1. G("subjects", "rewriteAgain", "finish")
      BY <2>4 DEF RewriteAgain, Rewritten
    <3> QED BY <3>1
  <2> QED BY <2>1, <2>2, <2>3, <2>4
<1>3. Updated
  BY <1>2 DEF Rewrite, Updated, Onward
<1>4. CleanCompacted' /\ call'.kind \in {call.kind, "none"}
  BY <1>1, <1>3, UpdatedKeeps
<1>5. CASE call.kind # "erase" \/ pc' = "idle"
  BY <1>4, <1>5, BooksOther DEF ErasePcs, RewritePcs, ClosePcs
<1>6. CASE call.kind = "erase" /\ pc' # "idle"
  <2>1. /\ UNCHANGED indexVars /\ pc = at /\ pc' = next
        /\ \/ RewriteOK(f) /\ call' = call
           \/ call' = [call EXCEPT !.clean = FALSE, !.compacted = FALSE]
    BY <1>2, <1>6 DEF Rewrite
  <2>2. /\ call'.kind = call.kind /\ call'.who = call.who /\ call'.todo = call.todo /\ call'.erased = call.erased
        /\ call'.clean => RewriteOK(f) /\ call.clean
    BY <1>1, <2>1, Registers DEF Regs
  <2>3. /\ pc \in RewritePcs \cup {"rewriteAgain"} /\ pc' \in (RewritePcs \ {"rewriteSecrets"}) \cup {"finish"}
        /\ pc' = "finish" => pc = "rewriteAgain"
    BY <1>2, <1>6, <2>1 DEF RewritePcs
  <2>4. PendingRows' = PendingRows
    BY <2>1 DEF PendingRows, indexVars
  <2>5. ScopeForgotten'
    BY <1>6, <2>1, <2>2, <2>3 DEF Books, ScopeForgotten, ForgottenPcs, ClosePcs, indexVars
  <2>6. AllAccounted'
    BY <1>6, <2>2, <2>3, <2>4 DEF Books, AllAccounted, Cleanly, RewritePcs, ClosePcs, WorkPcs, EntryPcs
  <2>7. ASSUME call'.clean PROVE Swept(f)' /\ \A g \in Rewritten : Swept(g) => Swept(g)'
    <3>1. f \in Rewritten
      BY <1>2
    <3> QED BY <2>2, <2>7, <3>1, RewrittenSwept
  <2>8. SweptSoFar'
    <3>1. CASE f = "secrets" /\ pc' = "rewriteSources"
      BY <1>4, <2>7, <3>1 DEF SweptSoFar, CleanCompacted, Cleanly, ClosePcs
    <3>2. CASE f = "sources" /\ pc = "rewriteSources" /\ pc' = "rewriteSubjects"
      BY <1>4, <1>6, <2>2, <2>7, <3>2
          DEF Books, SweptSoFar, CleanCompacted, Cleanly, ClosePcs, RewritePcs, Rewritten
    <3>3. CASE f = "subjects" /\ pc = "rewriteSubjects"
      BY <1>4, <1>6, <2>2, <2>7, <3>3
          DEF Books, SweptSoFar, CleanCompacted, Cleanly, ClosePcs, RewritePcs, Rewritten
    <3>4. CASE f = "subjects" /\ pc = "rewriteAgain"
      BY <1>4, <1>6, <2>2, <2>7, <3>4
          DEF Books, SweptSoFar, CleanCompacted, Cleanly, ClosePcs, RewritePcs, Rewritten
    <3> QED BY <1>2, <1>6, <2>1, <3>1, <3>2, <3>3, <3>4
  <2> QED BY <2>5, <2>6, <2>8 DEF Books
<1> QED BY <1>5, <1>6

LEMMA BooksSigs == ASSUME TypeInv, Books, RewriteSigs PROVE Books'
<1>1. call \in Calls /\ CleanCompacted
  BY DEF TypeInv, TypeOK, Books, SweptSoFar, CleanCompacted
<1>2. call' = call \/ call' = [call EXCEPT !.clean = FALSE]
  BY DEF RewriteSigs
<1>3. /\ call'.kind = call.kind /\ call'.who = call.who /\ call'.todo = call.todo /\ call'.erased = call.erased
      /\ call'.clean => call.clean
  BY <1>1, <1>2, Registers DEF Regs
<1>4. Updated
  BY <1>2 DEF Updated, Onward
<1>5. CleanCompacted' /\ call'.kind \in {call.kind, "none"}
  BY <1>1, <1>4, UpdatedKeeps
<1>6. CASE call.kind # "erase"
  BY <1>5, <1>6, BooksOther
<1>7. CASE call.kind = "erase"
  <2>1. /\ UNCHANGED <<indexVars, pageVars>> /\ pc = "rewriteSigs" /\ pc' \in {"clear", "finish"}
        /\ pc' = "finish" => ~call.compacted \/ call.erased = {}
    BY <1>7 DEF RewriteSigs, folderVars, Erasing
  <2>2. PendingRows' = PendingRows /\ \A f \in Rewritten : Swept(f)' = Swept(f)
    BY <2>1 DEF PendingRows, Swept, indexVars, pageVars
  <2>3. ScopeForgotten'
    BY <1>3, <1>7, <2>1 DEF Books, ScopeForgotten, ForgottenPcs, ClosePcs, RewritePcs, indexVars
  <2>4. /\ call.todo = {}
        /\ call.clean => PendingRows \subseteq call.erased
    BY <1>7, <2>1 DEF Books, AllAccounted, Cleanly, RewritePcs, WorkPcs, EntryPcs
  <2>5. call.clean /\ pc' = "finish" => PendingRows = {}
    BY <1>1, <2>1, <2>4 DEF CleanCompacted
  <2>6. AllAccounted'
    BY <1>3, <2>1, <2>2, <2>4, <2>5 DEF AllAccounted, Cleanly, RewritePcs, ClosePcs, WorkPcs, EntryPcs
  <2>7. SweptSoFar'
    BY <1>3, <1>5, <1>7, <2>1, <2>2 DEF Books, SweptSoFar, CleanCompacted, Cleanly, ClosePcs, RewritePcs, Rewritten
  <2> QED BY <2>3, <2>6, <2>7 DEF Books
<1> QED BY <1>6, <1>7

\* What is done is cleared, chain by chain; after the last no pending row is left.
Cleared ==
    /\ call'.kind = call.kind /\ call'.who = call.who /\ call'.todo = {}
    /\ call'.clean => call.clean /\ PendingRows' \subseteq call'.erased /\ pc' # "finish"
    /\ call'.clean /\ pc' = "rewriteAgain" => PendingRows' = {}

LEMMA BooksClear == ASSUME TypeInv, Books, ClearErased PROVE Books'
<1>1. call \in Calls /\ CleanCompacted
  BY DEF TypeInv, TypeOK, Books, SweptSoFar, CleanCompacted
<1>2. Updated
  BY DEF ClearErased, Updated, Onward
<1>3. CleanCompacted' /\ call'.kind \in {call.kind, "none"}
  BY <1>1, <1>2, UpdatedKeeps
<1>4. CASE call.kind # "erase"
  BY <1>3, <1>4, BooksOther
<1>5. CASE call.kind = "erase"
  <2>1. UNCHANGED <<forward, pageVars>> /\ pc = "clear" /\ pc' \in {"clear", "rewriteAgain", "finish"}
    BY DEF ClearErased
  <2>2. /\ call.todo = {}
        /\ call.clean => PendingRows \subseteq call.erased
    BY <1>5, <2>1 DEF Books, AllAccounted, Cleanly, ClosePcs, WorkPcs, EntryPcs
  <2>3. None # Pending
    BY FolderAssumption
  <2>4. Cleared
    <3>1. CASE call.erased = {} /\ pc' = "rewriteAgain" /\ UNCHANGED <<reverse, call>>
      <4>1. PendingRows' = PendingRows
        BY <3>1 DEF PendingRows
      <4> QED BY <2>2, <3>1, <4>1 DEF Cleared
    <3>2. ASSUME NEW c \in call.erased, reverse' = [reverse EXCEPT ![c] = IF @ = Pending THEN None ELSE @],
                 call' = [call EXCEPT !.erased = @ \ {c}], pc' = pc
          PROVE  Cleared
      <4>1. Regs(call', call.todo, call.cur, call.erased \ {c}, call.clean, call.compacted)
        BY <1>1, <3>2, Registers
      <4>2. reverse \in [Chains -> Pairs \cup {None, Pending}]
        BY DEF TypeInv, TypeOK, FolderTypeOK
      <4>3. PendingRows' \subseteq PendingRows \ {c}
        BY <2>3, <3>2, <4>2 DEF PendingRows
      <4> QED BY <2>1, <2>2, <3>2, <4>1, <4>3 DEF Regs, Cleared
    <3>3. CASE pc' = "finish" /\ call' = [call EXCEPT !.clean = FALSE]
      BY <1>1, <2>2, <3>3, Registers DEF Regs, Cleared
    <3> QED BY <2>1, <3>1, <3>2, <3>3 DEF ClearErased
  <2>5. ScopeForgotten'
    BY <1>5, <2>1, <2>4 DEF Cleared, Books, ScopeForgotten, ForgottenPcs, ClosePcs
  <2>6. AllAccounted'
    BY <2>1, <2>4 DEF Cleared, AllAccounted, Cleanly, ClosePcs, WorkPcs, EntryPcs
  <2>7. \A f \in Rewritten : Swept(f)' = Swept(f)
    BY <2>1 DEF Swept, pageVars
  <2>8. SweptSoFar'
    BY <1>3, <1>5, <2>1, <2>4, <2>7 DEF Cleared, Books, SweptSoFar, CleanCompacted, Cleanly, ClosePcs, RewritePcs, Rewritten
  <2> QED BY <2>5, <2>6, <2>8 DEF Books
<1> QED BY <1>4, <1>5

LEMMA BooksNext == ASSUME ~Restores, TypeInv, EndInv, ReachInv, Books, [Next]_vars PROVE Books'
<1>1. CASE UNCHANGED vars
  BY <1>1 DEF Books, ScopeForgotten, AllAccounted, SweptSoFar, Cleanly, Swept, PendingRows, vars, folderVars, indexVars,
      pageVars, callVars
<1>2. ~TakeBackup /\ ~RestoreIndex
  BY DEF TakeBackup, RestoreIndex, ReachInv
<1>3. CASE EraseStep
  BY <1>3, BooksPresign, BooksForget, BooksChain, BooksClear, BooksRewrite DEF EraseStep
<1>4. CASE RewriteStep
  <2>1. CASE Finish
    <3>1. pc' = "return" /\ Updated
      BY <2>1 DEF Finish, ReturnWith, Updated, Onward
    <3>2. call \in Calls /\ CleanCompacted
      BY DEF TypeInv, TypeOK, Books, SweptSoFar, CleanCompacted
    <3> QED BY <3>1, <3>2, UpdatedKeeps, BooksOther DEF ErasePcs, RewritePcs, ClosePcs
  <2> QED BY <1>4, <2>1, BooksRewrite, BooksSigs DEF RewriteStep
<1> QED BY <1>1, <1>2, <1>3, <1>4, BooksAside DEF Next, CallStep

-----------------------------------------------------------------------------
(* What was erased is gone: the theorem *)

\* An erasure that ends with no error leaves nothing of the pairs in its scope.
LEMMA NothingLeft ==
    ASSUME TypeInv, IndexInv, ReachInv, Books, pc = "finish", Cleanly, NEW p \in call.who
    PROVE  ~Holds(p)
<1>1. p \in Pairs
  BY CallFields DEF TypeInv, TypeOK
<1>2. forward[p] = None
  BY <1>1 DEF Books, ScopeForgotten, Cleanly, ForgottenPcs, ClosePcs
<1>3. PendingRows = {}
  BY DEF Books, AllAccounted
<1>4. \A f \in Rewritten : residue[f] = {} /\ temps[f] = {}
  BY DEF Books, SweptSoFar, Swept, Rewritten, ClosePcs
<1>5. None \notin Chains /\ None # Pending
  BY FolderAssumption
<1>6. \A c \in Chains : reverse[c] # p /\ reverse[c] # Pending
  BY <1>1, <1>2, <1>3, <1>5 DEF IndexInv, Agree, PendingRows
<1>7. \A r \in secrets : r.chain \in Chains /\ r.value.about # p
  <2>1. \A r \in secrets : r.chain \in Chains
    BY DEF TypeInv, TypeOK, FolderTypeOK, SecretRows
  <2>2. p # None
    BY <1>1, FolderAssumption
  <2> QED BY <1>6, <2>1, <2>2 DEF ReachInv, ReachableByErasure
<1>8. \A r \in sources : r.about # p
  <2>1. \A r \in sources : r.chain \in Chains
    BY DEF TypeInv, TypeOK, FolderTypeOK, PositionRows
  <2> QED BY <1>6, <2>1 DEF ReachInv, ReachableByErasure
<1>9. p \notin LiveIn("secrets") /\ p \notin LiveIn("sources") /\ p \notin LiveIn("subjects")
  BY <1>2, <1>7, <1>8, LiveFiles DEF AboutSecrets, AboutSources
<1> QED BY <1>4, <1>9 DEF Holds, Rewritten

LEMMA GoneFinish ==
    ASSUME ~Restores, TypeInv, IndexInv, ReachInv, GoneInv, Finish PROVE GoneStays'
<1>1. UNCHANGED folderVars /\ pc = "finish" /\ pc' = "return"
  BY DEF Finish, ReturnWith
<1>2. \A p : Holds(p)' = Holds(p)
  BY <1>1 DEF Holds, LiveIn, AboutSecrets, AboutSources, folderVars, indexVars, pageVars
<1>3. gone' = gone \/ (Cleanly /\ gone' = gone \cup call.who)
  BY DEF Finish, Cleanly
<1>4. \A p \in gone' : ~Holds(p)
  BY <1>1, <1>3, NothingLeft DEF GoneInv, GoneStays
<1> QED BY <1>1, <1>2, <1>4 DEF GoneStays, OpenPcs, StartPcs, WritePcs, CleanPcs

LEMMA GoneNext ==
    ASSUME ~Restores, TypeInv, IndexInv, EndInv, HeldBack, ReachInv, GoneInv, [Next]_vars PROVE GoneInv'
<1>1. Books'
  BY BooksNext DEF GoneInv
<1>2. CASE UNCHANGED vars
  <2>1. \A p : Holds(p)' = Holds(p)
    BY <1>2 DEF Holds, LiveIn, AboutSecrets, AboutSources, vars, folderVars, indexVars, pageVars
  <2>2. GoneStays'
    BY <1>2, <2>1 DEF GoneInv, GoneStays, PairsOf, vars, callVars
  <2> QED BY <1>1, <2>2 DEF GoneInv
<1>3. ~TakeBackup /\ ~RestoreIndex
  BY DEF TakeBackup, RestoreIndex, ReachInv
<1>4. CASE CommitCall
  BY <1>1, <1>4, GoneCommitCall DEF GoneInv
<1>5. CASE CommitStep
  BY <1>1, <1>5, GoneCommit DEF GoneInv
<1>6. CASE Finish
  BY <1>1, <1>6, GoneFinish DEF GoneInv
<1>7. CASE EraseStep
  <2>1. UNCHANGED gone /\ pc' \notin OpenPcs
    <3>1. CASE ForgetRelinked \/ Presign \/ Forget \/ NextChain
      BY <3>1 DEF ForgetRelinked, Presign, Forget, NextChain, ReturnWith, OpenPcs, StartPcs, WritePcs, CleanPcs
    <3>2. CASE PutErasureRecord \/ PutErasureSig \/ AppendErasure \/ UndoRecord \/ UndoSig
      BY <3>2 DEF PutErasureRecord, PutErasureSig, AppendErasure, UndoRecord, UndoSig, StaysPending, OpenPcs, StartPcs,
          WritePcs, CleanPcs
    <3>3. CASE EraseSecrets \/ LeftSecrets \/ EraseSources \/ LeftSigs \/ ClearErased \/ RewriteAgain
      BY <3>3 DEF EraseSecrets, LeftSecrets, EraseSources, LeftSigs, ClearErased, RewriteAgain, Rewrite, StaysPending,
          OpenPcs, StartPcs, WritePcs, CleanPcs
    <3> QED BY <1>7, <3>1, <3>2, <3>3 DEF EraseStep
  <2> QED BY <1>1, <1>7, <2>1, PagesErase, LiveErase, GoneOther DEF GoneInv
<1>8. CASE \/ RepairStep \/ RewriteSecrets \/ RewriteSources \/ RewriteSubjects \/ RewriteSigs \/ EraseCall \/ ResumeCall
           \/ RepairStart \/ Return \/ Crash
  <2>1. UNCHANGED gone /\ pc' \notin OpenPcs
    <3>1. CASE RepairStep
      BY <3>1 DEF RepairStep, RepairChain, FixSecrets, FixSources, FixSigs, RepairFails, OpenPcs, StartPcs, WritePcs,
          CleanPcs
    <3>2. CASE RewriteSecrets \/ RewriteSources \/ RewriteSubjects \/ RewriteSigs
      BY <3>2 DEF RewriteSecrets, RewriteSources, RewriteSubjects, RewriteSigs, Rewrite, OpenPcs, StartPcs, WritePcs,
          CleanPcs
    <3>3. CASE EraseCall \/ ResumeCall \/ RepairStart \/ Return \/ Crash
      BY <3>3 DEF EraseCall, ResumeCall, EraseStart, RepairStart, Return, Crash, OpenPcs, StartPcs, WritePcs, CleanPcs
    <3> QED BY <1>8, <3>1, <3>2, <3>3
  <2> QED BY <1>1, <1>8, <2>1, PagesRest, LiveRest, GoneOther DEF GoneInv, RewriteStep
<1>9. CASE RequireRecordSigning
  <2>1. UNCHANGED <<gone, pc, call>>
    BY <1>9 DEF RequireRecordSigning, callVars
  <2>2. \A p \in gone' : ~Holds(p)'
    BY <1>9, <2>1, PagesRest, LiveRest, GoneKept DEF GoneInv, GoneStays
  <2> QED BY <1>1, <2>1, <2>2 DEF GoneInv, GoneStays, PairsOf
<1> QED BY <1>2, <1>3, <1>4, <1>5, <1>6, <1>7, <1>8, <1>9 DEF Next, CallStep, RewriteStep

LEMMA GoneInit == Init => GoneInv
<1> SUFFICES ASSUME Init PROVE GoneInv
  OBVIOUS
<1>1. gone = {} /\ pc = "idle" /\ call.kind = "none" /\ call.clean /\ call.compacted
  BY DEF Init, CallInit, NoCall
<1>2. GoneStays
  BY <1>1 DEF GoneStays, OpenPcs, StartPcs, WritePcs, CleanPcs
<1>3. Books
  BY <1>1 DEF Books, ScopeForgotten, AllAccounted, SweptSoFar, Cleanly
<1> QED BY <1>2, <1>3 DEF GoneInv

LEMMA GoneMeans == TypeInv /\ IndexInv /\ GoneInv => GoneIsGone
<1> SUFFICES ASSUME TypeInv, IndexInv, GoneInv, NEW p \in gone
             PROVE  /\ forward[p] = None /\ \A c \in Chains : reverse[c] # p
                    /\ \A f \in Rewritten : p \notin LiveIn(f) \cup residue[f] \cup temps[f]
  BY DEF GoneIsGone
<1>1. p \in Pairs /\ ~Holds(p)
  BY DEF TypeInv, TypeOK, GoneInv, GoneStays
<1>2. \A f \in Rewritten : p \notin LiveIn(f) \cup residue[f] \cup temps[f]
  BY <1>1 DEF Holds
<1>3. forward[p] = None
  BY <1>1, <1>2, LiveFiles DEF Rewritten
<1>4. None \notin Chains
  BY FolderAssumption
<1>5. \A c \in Chains : reverse[c] # p
  BY <1>1, <1>3, <1>4 DEF IndexInv, Agree
<1> QED BY <1>2, <1>3, <1>5

\* GoneIsGone for every folder, batch and number of faults: once an erasure has returned nil,
\* and until a commit of one of its pairs, no row, free page or left-over copy is about it.
\* Like AlwaysReachable it needs that the index is not put back from an older copy and that a
\* transaction on the secrets file that reports an error has changed nothing: content an
\* erasure cannot reach stays behind it (commitPairs, forget, eraseChain, compactChecked).
THEOREM ErasedIsGone ==
    ASSUME ~Restores, "secrets" \notin LandedErrors
    PROVE  Spec => []GoneIsGone
<1> DEFINE I == CommitInv /\ HeldBack /\ ReachInv /\ GoneInv
<1>1. Init => I
  BY CommitInit, BackInit, ReachInit, GoneInit
<1>2. I /\ [Next]_vars => I'
  BY CommitNext, BackNext, ReachNext, GoneNext DEF CommitInv
<1>3. I => GoneIsGone
  BY GoneMeans DEF CommitInv
<1> QED BY <1>1, <1>2, <1>3, PTL DEF Spec

=============================================================================
