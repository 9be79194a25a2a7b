---------------------------- MODULE LocalProofs -----------------------------
(***************************************************************************)
(* What an evidence database and its nonce file promise, for any programs  *)
(* on them, any calls and any number of faults: an acknowledged nonce      *)
(* stays until it is to be forgotten, every salted entry opens until then, *)
(* of a forgotten nonce nothing is left on the disk; the chain stays       *)
(* linked, holds no id twice and stays within its quota, and what the      *)
(* commit calls answer is what they wrote.                                 *)
(***************************************************************************)
EXTENDS LocalDb, TLAPS, FiniteSetTheorems

-----------------------------------------------------------------------------
(* Who holds what *)

McpSteps    == {"mcp.open", "mcp.nonces", "mcp.put", "mcp.append", "mcp.forget", "mcp.delete"}
ForgetSteps == {"forget", "forget.open", "forget.delete", "forget.compact", "forget.copy", "forget.rename"}
Labels      == McpSteps \cup ForgetSteps \cup
               {"idle", "ready", "answer", "cli.append", "disclose", "disclose.get", "other.put"}

\* The steps of a process that holds the database, the nonce file's lock, the file open.
HoldsDb == (McpSteps \cup ForgetSteps \cup {"cli.append", "answer"}) \ {"mcp.open", "forget"}
HoldsEx == {"mcp.put", "mcp.delete", "other.put", "forget.delete", "forget.copy", "forget.rename"}
HasFile == {"mcp.put", "mcp.delete", "other.put", "forget.delete", "disclose.get"}

Rewriting == {"forget.copy", "forget.rename"}
NeedsFile == HasFile \cup Rewriting \cup {"forget.compact"}

Nonces == McpIds \cup OtherIds
File   == [live : SUBSET Nonces, free : SUBSET Nonces]
Job    == [ids : Seq(Nat), salted : SUBSET Nat, prev : {<<>>}, done : Nat, ok : BOOLEAN, first : Nat]

\* One process writes the nonce file at a time, through the inode its name leads to;
\* the copy it makes of it is the file's until it is renamed.
HoldsInv ==
    /\ at \in [Procs -> Labels] /\ DOMAIN job = Procs
    /\ nlock \in [ex : Procs \cup {None}, sh : SUBSET Procs] /\ (nlock.ex # None => nlock.sh = {})
    /\ \A p \in Procs : /\ dblock = p <=> at[p] \in HoldsDb
                        /\ nlock.ex = p <=> at[p] \in HoldsEx
                        /\ p \in nlock.sh <=> at[p] = "disclose.get"
    /\ handle = [p \in Procs |-> IF at[p] \in HasFile THEN "current" ELSE None]
    /\ dblock \in Procs \cup {None}

FileInv ==
    /\ nfile \in File \cup {None} /\ left \subseteq Nonces
    /\ nfile = None => left = {} /\ \A p \in Procs : at[p] \notin NeedsFile
    /\ copy = [q \in Procs |-> copy[q]]
    /\ \A p \in Procs : /\ at[p] \notin Rewriting => copy[p] = None
                        /\ at[p] \in Rewriting => left = {}
                        /\ at[p] = "forget.copy" => copy[p] = {}
                        /\ at[p] = "forget.rename" => copy[p] = nfile.live

-----------------------------------------------------------------------------
LEMMA HoldsInit == LocalInit => HoldsInv /\ FileInv
BY LocalAssumption DEF LocalInit, NonceInit, HoldsInv, FileInv, Labels, HoldsDb, HoldsEx, HasFile, NeedsFile,
    Rewriting, McpSteps, ForgetSteps, File

\* What a step to a label does to the locks.
DbMoves(p, l) ==
    \/ dblock' = dblock /\ (l \in HoldsDb <=> at[p] \in HoldsDb)
    \/ dblock = None /\ dblock' = p /\ l \in HoldsDb
    \/ CloseDb(p) /\ l \notin HoldsDb

LockMoves(p, l) ==
    \/ /\ UNCHANGED <<nlock, handle>>
       /\ (l \in HoldsEx <=> at[p] \in HoldsEx) /\ (l \in HasFile <=> at[p] \in HasFile)
    \/ LockEx(p) /\ l \in HoldsEx /\ handle' = [handle EXCEPT ![p] = IF l \in HasFile THEN "current" ELSE None]
    \/ LockSh(p) /\ l = "disclose.get" /\ handle' = [handle EXCEPT ![p] = "current"]
    \/ Unlock(p) /\ l \notin HoldsEx \cup HasFile /\ handle' = [handle EXCEPT ![p] = None]

LEMMA HoldsStep ==
    ASSUME HoldsInv, NEW p \in Procs, NEW l \in Labels, at' = [at EXCEPT ![p] = l], DOMAIN job' = Procs,
           DbMoves(p, l), LockMoves(p, l)
    PROVE  HoldsInv'
<1>1. /\ at' \in [Procs -> Labels] /\ at'[p] = l /\ \A q \in Procs : q # p => at'[q] = at[q]
  BY DEF HoldsInv
<1>2. dblock' \in Procs \cup {None} /\ \A q \in Procs : dblock' = q <=> at'[q] \in HoldsDb
  BY <1>1, LocalAssumption DEF HoldsInv, DbMoves, CloseDb
<1>3. PICK e, h : nlock = [ex |-> e, sh |-> h] /\ e \in Procs \cup {None} /\ h \subseteq Procs /\ (e # None => h = {})
                  /\ \A q \in Procs : (e = q <=> at[q] \in HoldsEx) /\ (q \in h <=> at[q] = "disclose.get")
  BY DEF HoldsInv
<1>4. /\ nlock' \in [ex : Procs \cup {None}, sh : SUBSET Procs] /\ (nlock'.ex # None => nlock'.sh = {})
      /\ \A q \in Procs : (nlock'.ex = q <=> at'[q] \in HoldsEx) /\ (q \in nlock'.sh <=> at'[q] = "disclose.get")
  <2>0. "disclose.get" \notin HoldsEx /\ "disclose.get" \in HasFile /\ HasFile \subseteq HoldsEx \cup {"disclose.get"}
    BY DEF HoldsEx, HasFile
  <2>1. CASE UNCHANGED nlock /\ (l \in HoldsEx <=> at[p] \in HoldsEx) /\ (l \in HasFile <=> at[p] \in HasFile)
    BY <1>1, <1>3, <2>0, <2>1
  <2>2. CASE LockEx(p) /\ l \in HoldsEx
    <3>1. e = None /\ h = {} /\ nlock' = [ex |-> p, sh |-> {}]
      BY <1>3, <2>2 DEF LockEx
    <3> QED BY <1>1, <1>3, <2>0, <2>2, <3>1, LocalAssumption
  <2>3. CASE LockSh(p) /\ l = "disclose.get"
    <3>1. e = None /\ nlock' = [ex |-> None, sh |-> h \cup {p}]
      BY <1>3, <2>3 DEF LockSh
    <3> QED BY <1>1, <1>3, <2>0, <2>3, <3>1, LocalAssumption
  <2>4. CASE Unlock(p) /\ l \notin HoldsEx \cup HasFile
    <3>1. nlock' = [ex |-> IF e = p THEN None ELSE e, sh |-> h \ {p}]
      BY <1>3, <2>4 DEF Unlock, Unlocked
    <3> QED BY <1>1, <1>3, <2>0, <2>4, <3>1, LocalAssumption
  <2> QED BY <2>1, <2>2, <2>3, <2>4 DEF LockMoves
<1>5. handle' = [q \in Procs |-> IF at'[q] \in HasFile THEN "current" ELSE None]
  <2>1. handle = [q \in Procs |-> IF at[q] \in HasFile THEN "current" ELSE None]
    BY DEF HoldsInv
  <2>2. "disclose.get" \in HasFile
    BY DEF HasFile
  <2> QED BY <1>1, <2>1, <2>2 DEF LockMoves
<1> QED BY <1>1, <1>2, <1>4, <1>5 DEF HoldsInv

\* A process that rewrites the file is alone: nobody has the file open.
LEMMA RewritesAlone ==
    ASSUME HoldsInv, NEW p \in Procs, at[p] \in Rewriting
    PROVE  /\ \A q \in Procs : at[q] \notin HasFile /\ handle[q] = None /\ (q # p => at[q] \notin HoldsEx)
<1>1. at[p] \in HoldsEx /\ nlock.ex = p /\ nlock.sh = {} /\ "current" # None
  BY LocalAssumption DEF HoldsInv, Rewriting, HoldsEx
<1>2. \A q \in Procs : at[q] \in HasFile => q = p \/ q \in nlock.sh
  BY <1>1 DEF HoldsInv, HasFile, HoldsEx
<1>3. at[p] \notin HasFile
  BY DEF Rewriting, HasFile
<1> QED BY <1>1, <1>2, <1>3 DEF HoldsInv

LEMMA HoldsMcp ==
    ASSUME HoldsInv, NEW p \in Procs,
           \/ Launch(p) \/ McpCall(p) \/ McpOpen(p) \/ McpNonces(p) \/ McpPut(p)
           \/ McpAppend(p) \/ McpForget(p) \/ McpDelete(p)
    PROVE  HoldsInv'
<1> USE DEF Goto, Answer, DbMoves, LockMoves, HoldsDb, HoldsEx, HasFile, McpSteps, ForgetSteps, Labels, nonceVars, dbVars
<1>0. DOMAIN job = Procs
  BY DEF HoldsInv
<1>1. CASE Launch(p) BY <1>0, <1>1, HoldsStep DEF Launch
<1>2. CASE McpCall(p) BY <1>0, <1>2, HoldsStep DEF McpCall
<1>3. CASE McpOpen(p)
  <2>1. CASE OpenDb(p) /\ Goto(p, AfterOpen(job[p])) BY <1>0, <1>3, <2>1, HoldsStep DEF McpOpen, OpenDb, AfterOpen
  <2>2. CASE Goto(p, "ready") /\ UNCHANGED dblock BY <1>0, <1>3, <2>2, HoldsStep DEF McpOpen
  <2> QED BY <1>3, <2>1, <2>2 DEF McpOpen
<1>4. CASE McpNonces(p)
  <2>1. CASE Open(p) /\ Goto(p, "mcp.put") BY <1>0, <1>4, <2>1, HoldsStep DEF McpNonces, Open
  <2>2. CASE Answer(p, job[p], 0, FALSE) /\ UNCHANGED nonceVars BY <1>0, <1>4, <2>2, HoldsStep DEF McpNonces
  <2> QED BY <1>4, <2>1, <2>2 DEF McpNonces
<1>5. CASE McpPut(p)
  <2>1. Close(p) BY <1>5 DEF McpPut, PutBatch
  <2>2. CASE Goto(p, "mcp.append") /\ UNCHANGED job BY <1>0, <1>5, <2>1, <2>2, HoldsStep DEF McpPut, Close
  <2>3. CASE Answer(p, job[p], 0, FALSE) BY <1>0, <1>5, <2>1, <2>3, HoldsStep DEF McpPut, Close
  <2> QED BY <1>5, <2>2, <2>3 DEF McpPut
<1>6. CASE McpAppend(p)
  <2>1. ASSUME NEW n, NEW ok, Answer(p, job[p], n, ok) PROVE HoldsInv'
    BY <1>0, <1>6, <2>1, HoldsStep DEF McpAppend
  <2>2. CASE Goto(p, "mcp.forget") /\ UNCHANGED job BY <1>0, <1>6, <2>2, HoldsStep DEF McpAppend
  <2> QED BY <1>6, <2>1, <2>2 DEF McpAppend
<1>7. CASE McpForget(p)
  <2>1. CASE Open(p) /\ Goto(p, "mcp.delete") BY <1>0, <1>7, <2>1, HoldsStep DEF McpForget, Open
  <2>2. CASE Answer(p, job[p], 0, FALSE) /\ UNCHANGED nonceVars BY <1>0, <1>7, <2>2, HoldsStep DEF McpForget
  <2> QED BY <1>7, <2>1, <2>2 DEF McpForget
<1>8. CASE McpDelete(p)
  <2>1. Close(p) BY <1>8 DEF McpDelete, DeleteAll
  <2> QED BY <1>0, <1>8, <2>1, HoldsStep DEF McpDelete, Close
<1> QED BY <1>1, <1>2, <1>3, <1>4, <1>5, <1>6, <1>7, <1>8

LEMMA HoldsOther ==
    ASSUME HoldsInv, NEW p \in Procs,
           \/ CliCommit(p) \/ CliAppend(p) \/ CliImport(p) \/ OtherOpen(p) \/ OtherPut(p)
           \/ GiveAnswer(p) \/ Stop(p) \/ Kill(p)
    PROVE  HoldsInv'
<1> USE DEF Goto, Answer, DbMoves, LockMoves, HoldsDb, HoldsEx, HasFile, McpSteps, ForgetSteps, Labels, nonceVars, dbVars
<1>0. DOMAIN job = Procs
  BY DEF HoldsInv
<1>1. CASE CliCommit(p)
  <2>1. ASSUME NEW j, Answer(p, j, 0, FALSE) PROVE HoldsInv'
    BY <1>0, <1>1, <2>1, HoldsStep DEF CliCommit, OpenDb
  <2>2. ASSUME NEW j, Goto(p, "cli.append"), job' = [job EXCEPT ![p] = j] PROVE HoldsInv'
    BY <1>0, <1>1, <2>2, HoldsStep DEF CliCommit, OpenDb
  <2> QED BY <1>1, <2>1, <2>2 DEF CliCommit
<1>2. CASE CliAppend(p)
  <2>1. ASSUME NEW n, NEW ok, Answer(p, job[p], n, ok) PROVE HoldsInv'
    BY <1>0, <1>2, <2>1, HoldsStep DEF CliAppend
  <2>2. ASSUME NEW n, job' = [job EXCEPT ![p].done = n], UNCHANGED at PROVE HoldsInv'
    <3>1. at' = [at EXCEPT ![p] = "cli.append"]
      BY <1>2, <2>2 DEF CliAppend, HoldsInv
    <3> QED BY <1>0, <1>2, <2>2, <3>1, HoldsStep DEF CliAppend
  <2> QED BY <1>2, <2>1, <2>2 DEF CliAppend
<1>3. CASE CliImport(p)
  BY <1>3 DEF CliImport, HoldsInv
<1>4. CASE OtherOpen(p) BY <1>0, <1>4, HoldsStep DEF OtherOpen, Open
<1>5. CASE OtherPut(p)
  <2>1. Close(p) BY <1>5 DEF OtherPut, PutBatch
  <2> QED BY <1>0, <1>5, <2>1, HoldsStep DEF OtherPut, Close
<1>6. CASE GiveAnswer(p)
  <2>1. PICK l \in {"ready", "idle"} : at' = [at EXCEPT ![p] = l]
    BY <1>6 DEF GiveAnswer
  <2> QED BY <1>0, <1>6, <2>1, HoldsStep DEF GiveAnswer
<1>7. CASE Stop(p) BY <1>0, <1>7, HoldsStep DEF Stop
<1>8. CASE Kill(p) BY <1>0, <1>8, HoldsStep DEF Kill, Killed
<1> QED BY <1>1, <1>2, <1>3, <1>4, <1>5, <1>6, <1>7, <1>8

LEMMA HoldsRead ==
    ASSUME HoldsInv, NEW p \in Procs,
           \/ DiscloseOpen(p) \/ DiscloseGet(p) \/ \E id \in Targets : DiscloseRead(p, id) \/ ForgetRead(p, id)
    PROVE  HoldsInv'
<1> USE DEF Goto, DbMoves, LockMoves, HoldsDb, HoldsEx, HasFile, McpSteps, ForgetSteps, Labels, nonceVars, dbVars
<1>0. DOMAIN job = Procs
  BY DEF HoldsInv
<1>1. CASE DiscloseOpen(p)
  <2>1. CASE OpenReadOnly(p) /\ Goto(p, "disclose.get") /\ UNCHANGED <<job, faults>>
    BY <1>0, <1>1, <2>1, HoldsStep DEF DiscloseOpen, OpenReadOnly
  <2>2. CASE Goto(p, "idle") /\ job' = [job EXCEPT ![p] = NoJob] /\ UNCHANGED nonceVars
    BY <1>0, <1>1, <2>2, HoldsStep DEF DiscloseOpen
  <2> QED BY <1>1, <2>1, <2>2 DEF DiscloseOpen
<1>2. CASE DiscloseGet(p) BY <1>0, <1>2, HoldsStep DEF DiscloseGet, Close
<1>3. ASSUME NEW id, DiscloseRead(p, id) PROVE HoldsInv' BY <1>0, <1>3, HoldsStep DEF DiscloseRead
<1>4. ASSUME NEW id, ForgetRead(p, id) PROVE HoldsInv' BY <1>0, <1>4, HoldsStep DEF ForgetRead
<1> QED BY <1>1, <1>2, <1>3, <1>4

LEMMA RenameHandles == ASSUME HoldsInv, NEW p \in Procs, at[p] \in Rewriting, CompactRename(p) PROVE handle' = handle
<1>1. \A q \in Procs : handle[q] = None
  BY RewritesAlone
<1> QED BY <1>1, LocalAssumption DEF CompactRename, HoldsInv

LEMMA HoldsForget ==
    ASSUME HoldsInv, NEW p \in Procs,
           \/ ForgetOpenDb(p) \/ ForgetOpen(p) \/ ForgetDelete(p)
           \/ ForgetCompact(p) \/ ForgetCopy(p) \/ ForgetRename(p)
    PROVE  HoldsInv'
<1> USE DEF Goto, DbMoves, LockMoves, HoldsDb, HoldsEx, HasFile, McpSteps, ForgetSteps, Labels, nonceVars, dbVars
<1>0. DOMAIN job = Procs
  BY DEF HoldsInv
<1>1. ASSUME at[p] \in ForgetSteps, ForgetEnds(p, TRUE) \/ ForgetEnds(p, FALSE), LockMoves(p, "idle") PROVE HoldsInv'
  BY <1>0, <1>1, HoldsStep DEF ForgetEnds
<1>2. CASE ForgetOpenDb(p)
  <2>1. CASE OpenDb(p) /\ Goto(p, "forget.open") /\ UNCHANGED <<rows, head, job, told>>
    BY <1>0, <1>2, <2>1, HoldsStep DEF ForgetOpenDb, OpenDb
  <2> QED BY <1>1, <1>2, <2>1 DEF ForgetOpenDb
<1>3. CASE ForgetOpen(p)
  <2>1. CASE Open(p) /\ Goto(p, "forget.delete") /\ UNCHANGED <<dbVars, job, faults, told>>
    BY <1>0, <1>3, <2>1, HoldsStep DEF ForgetOpen, Open
  <2> QED BY <1>1, <1>3, <2>1 DEF ForgetOpen
<1>4. CASE ForgetDelete(p)
  <2>1. Close(p)
    BY <1>4 DEF ForgetDelete, DeleteAll
  <2>2. CASE Goto(p, "forget.compact") /\ UNCHANGED <<dbVars, job, drawn, kept, forgot>>
    BY <1>0, <1>4, <2>1, <2>2, HoldsStep DEF ForgetDelete, Close
  <2> QED BY <1>1, <1>4, <2>1, <2>2 DEF ForgetDelete, Close
<1>5. CASE ForgetCompact(p)
  <2>1. CASE CompactBegin(p) /\ Goto(p, "forget.copy") /\ UNCHANGED <<dbVars, job, faults, told>>
    <3>1. handle' = [handle EXCEPT ![p] = IF "forget.copy" \in HasFile THEN "current" ELSE None]
      BY <1>5, <2>1 DEF ForgetCompact, CompactBegin, HoldsInv
    <3> QED BY <1>0, <1>5, <2>1, <3>1, HoldsStep DEF ForgetCompact, CompactBegin, CompactLock
  <2> QED BY <1>1, <1>5, <2>1 DEF ForgetCompact
<1>6. CASE ForgetCopy(p)
  <2>1. CASE CompactCopy(p) /\ Goto(p, "forget.rename") /\ UNCHANGED <<dbVars, job, faults, told>>
    BY <1>0, <1>6, <2>1, HoldsStep DEF ForgetCopy, CompactCopy
  <2>2. CASE CompactFails(p) /\ ForgetEnds(p, FALSE)
    <3>1. handle' = [handle EXCEPT ![p] = None]
      BY <1>6, <2>2 DEF ForgetCopy, CompactFails, HoldsInv
    <3> QED BY <1>1, <1>6, <2>2, <3>1 DEF ForgetCopy, CompactFails
  <2> QED BY <1>6, <2>1, <2>2 DEF ForgetCopy
<1>7. CASE ForgetRename(p)
  <2>1. at[p] = "forget.rename" /\ (CompactRename(p) \/ CompactFails(p))
    BY <1>7 DEF ForgetRename
  <2>2. handle' = handle
    BY <2>1, RenameHandles DEF Rewriting, CompactFails
  <2>3. handle' = [handle EXCEPT ![p] = None]
    BY <2>1, <2>2 DEF HoldsInv
  <2>4. Unlock(p)
    BY <2>1 DEF CompactRename, CompactFails
  <2> QED BY <1>1, <1>7, <2>1, <2>3, <2>4 DEF ForgetRename
<1> QED BY <1>2, <1>3, <1>4, <1>5, <1>6, <1>7

LEMMA HoldsNext == HoldsInv /\ [LocalNext]_localVars => HoldsInv'
<1> SUFFICES ASSUME HoldsInv, [LocalNext]_localVars PROVE HoldsInv'
  OBVIOUS
<1>1. CASE UNCHANGED localVars
  BY <1>1 DEF HoldsInv, localVars, nonceVars, dbVars
<1> QED BY <1>1, HoldsMcp, HoldsOther, HoldsRead, HoldsForget DEF LocalNext

-----------------------------------------------------------------------------
(* Ids in arrival order *)

\* Every id of a batch has its place, the earlier before the later.
LEMMA InOrderIds ==
    ASSUME NEW S, IsFiniteSet(S), S \subseteq Nat
    PROVE  /\ InOrder(S) \in Seq(S) /\ Len(InOrder(S)) = Cardinality(S) /\ Cardinality(S) \in Nat
           /\ ToSet(InOrder(S)) = S
           /\ \A i, j \in 1..Cardinality(S) : i < j => InOrder(S)[i] < InOrder(S)[j]
<1> DEFINE N == Cardinality(S)
           Pre(d) == {e \in S : e < d}
           T == 0..(N - 1)
           f == [d \in S |-> Cardinality(Pre(d))]
           s == InOrder(S)
<1>1. N \in Nat
  BY FS_CardinalityType
<1>2. ASSUME NEW d \in S
      PROVE  IsFiniteSet(Pre(d)) /\ Cardinality(Pre(d)) \in 0..(N - 1)
  <2>1. Pre(d) \in SUBSET S /\ d \notin Pre(d)
    OBVIOUS
  <2>2. /\ IsFiniteSet(Pre(d)) /\ Cardinality(Pre(d)) <= N
        /\ (N = Cardinality(Pre(d)) => S = Pre(d))
    BY <2>1, FS_Subset
  <2>3. Cardinality(Pre(d)) \in Nat
    BY <2>2, FS_CardinalityType
  <2> QED BY <1>1, <2>1, <2>2, <2>3
<1>3. ASSUME NEW d \in S, NEW e \in S, d < e
      PROVE  Cardinality(Pre(d)) < Cardinality(Pre(e))
  <2>0. d \in Nat /\ e \in Nat /\ \A x \in S : x \in Nat
    OBVIOUS
  <2>1. Pre(d) \in SUBSET Pre(e) /\ d \in Pre(e) /\ d \notin Pre(d)
    <3>1. \A x \in S : x < d => x < e
      BY <1>3, <2>0
    <3>2. d \in Pre(e) /\ ~(d < d)
      BY <1>3, <2>0
    <3> QED BY <3>1, <3>2
  <2>2. Cardinality(Pre(d)) <= Cardinality(Pre(e)) /\ Cardinality(Pre(e)) # Cardinality(Pre(d))
    BY <1>2, <2>1, FS_Subset
  <2> QED BY <1>2, <2>2
<1>4. \A d, e \in S : Cardinality(Pre(d)) = Cardinality(Pre(e)) => d = e
  <2> SUFFICES ASSUME NEW d \in S, NEW e \in S, d # e PROVE Cardinality(Pre(d)) # Cardinality(Pre(e))
    OBVIOUS
  <2>1. d < e \/ e < d
    OBVIOUS
  <2> QED BY <1>2, <1>3, <2>1
<1> HIDE DEF N, Pre
<1>5. f \in [S -> T] /\ \A d, e \in S : f[d] = f[e] => d = e
  BY <1>2, <1>4
<1>6. IsFiniteSet(T) /\ Cardinality(T) = N
  BY <1>1, FS_Interval
<1>7. f \in Surjection(S, T)
  <2>1. f \in Injection(S, T)
    BY <1>5 DEF Injection, IsInjective
  <2> QED BY <1>6, <2>1, FS_Injection DEF N
<1>8. \A k \in 1..N : \E d \in S : Cardinality(Pre(d)) = k - 1
  <2>1. \A t \in T : \E d \in S : f[d] = t
    BY <1>7 DEF Surjection
  <2>2. \A k \in 1..N : k - 1 \in T
    BY <1>1
  <2> QED BY <2>1, <2>2
<1>9. s = [k \in 1..N |-> CHOOSE d \in S : Cardinality(Pre(d)) = k - 1]
  BY DEF InOrder, N, Pre
<1> HIDE DEF s
<1>10. \A k \in 1..N : s[k] \in S /\ Cardinality(Pre(s[k])) = k - 1
  BY <1>8, <1>9
<1>11. s \in Seq(S) /\ Len(s) = N /\ DOMAIN s = 1..N
  BY <1>1, <1>9, <1>10
<1>12. ToSet(s) = S
  <2>1. ASSUME NEW d \in S PROVE \E k \in 1..N : s[k] = d
    <3>1. PICK k \in 1..N : k = Cardinality(Pre(d)) + 1
      BY <1>1, <1>2
    <3>2. Cardinality(Pre(s[k])) = Cardinality(Pre(d))
      BY <1>2, <1>10, <3>1
    <3> QED BY <1>4, <1>10, <3>2
  <2> QED BY <1>10, <1>11, <2>1 DEF ToSet
<1>13. ASSUME NEW i \in 1..N, NEW j \in 1..N, i < j PROVE s[i] < s[j]
  <2>1. s[i] \in S /\ s[j] \in S /\ Cardinality(Pre(s[i])) = i - 1 /\ Cardinality(Pre(s[j])) = j - 1
    BY <1>10
  <2>2. i \in Nat /\ j \in Nat /\ i - 1 < j - 1
    BY <1>1, <1>13
  <2>3. s[i] # s[j]
    BY <2>1, <2>2
  <2>4. ~(s[j] < s[i])
    <3>1. s[j] < s[i] => j - 1 < i - 1
      BY <1>3, <2>1
    <3> QED BY <2>2, <3>1
  <2>5. s[i] \in Nat /\ s[j] \in Nat
    BY <2>1
  <2> QED BY <2>3, <2>4, <2>5
<1> QED BY <1>1, <1>11, <1>12, <1>13 DEF s, N

\* Ids that increase are in order as they are.
LEMMA InOrderAlready ==
    ASSUME NEW t, t \in Seq(Nat), \A i, j \in 1..Len(t) : i < j => t[i] < t[j]
    PROVE  /\ InOrder(ToSet(t)) = t /\ IsFiniteSet(ToSet(t)) /\ Cardinality(ToSet(t)) = Len(t)
<1> DEFINE S == ToSet(t)
<1>1. Len(t) \in Nat /\ DOMAIN t = 1..Len(t) /\ \A i \in 1..Len(t) : t[i] \in Nat
  OBVIOUS
<1>2. ASSUME NEW k \in Nat, k <= Len(t)
      PROVE  IsFiniteSet({t[i] : i \in 1..k}) /\ Cardinality({t[i] : i \in 1..k}) = k
  <2> DEFINE R == {t[i] : i \in 1..k}
             g == [i \in 1..k |-> t[i]]
  <2>1. \A i, j \in 1..k : t[i] = t[j] => i = j
    BY <1>1, <1>2
  <2>2. g \in Bijection(1..k, R)
    <3>1. g \in [1..k -> R] /\ \A i, j \in 1..k : g[i] = g[j] => i = j
      BY <2>1
    <3>2. \A r \in R : \E i \in 1..k : g[i] = r
      OBVIOUS
    <3> QED BY <3>1, <3>2 DEF Bijection, Injection, Surjection, IsInjective
  <2>3. IsFiniteSet(1..k) /\ Cardinality(1..k) = k
    BY <1>2, FS_Interval
  <2> QED BY <2>2, <2>3, FS_Bijection DEF ExistsBijection
<1>3. S = {t[i] : i \in 1..Len(t)}
  BY <1>1 DEF ToSet
<1>4. IsFiniteSet(S) /\ Cardinality(S) = Len(t) /\ S \subseteq Nat
  <2>1. Len(t) \in Nat /\ Len(t) <= Len(t)
    BY <1>1
  <2>2. IsFiniteSet({t[i] : i \in 1..Len(t)}) /\ Cardinality({t[i] : i \in 1..Len(t)}) = Len(t)
    BY <1>2, <2>1
  <2> QED BY <1>1, <1>3, <2>2
<1>5. ASSUME NEW k \in 1..Len(t) PROVE InOrder(S)[k] = t[k]
  <2>1. \A i \in 1..Len(t) : {e \in S : e < t[i]} = {t[j] : j \in 1..(i - 1)}
    <3> TAKE i \in 1..Len(t)
    <3>1. \A j \in 1..Len(t) : t[j] < t[i] <=> j < i
      BY <1>1
    <3> QED BY <1>1, <1>3, <3>1
  <2>2. \A i \in 1..Len(t) : Cardinality({e \in S : e < t[i]}) = i - 1
    <3> TAKE i \in 1..Len(t)
    <3>1. i - 1 \in Nat /\ i - 1 <= Len(t)
      BY <1>1
    <3>2. Cardinality({t[j] : j \in 1..(i - 1)}) = i - 1
      BY <1>2, <3>1
    <3> QED BY <2>1, <3>2
  <2>3. \A d \in S : Cardinality({e \in S : e < d}) = k - 1 <=> d = t[k]
    <3> TAKE d \in S
    <3>1. PICK i \in 1..Len(t) : d = t[i]
      BY <1>3
    <3>2. Cardinality({e \in S : e < d}) = i - 1 /\ Cardinality({e \in S : e < t[k]}) = k - 1
      BY <2>2, <3>1
    <3>3. t[i] = t[k] => i = k
      BY <1>1
    <3>4. i - 1 = k - 1 <=> i = k
      BY <1>1
    <3> HIDE DEF S
    <3> QED BY <3>1, <3>2, <3>3, <3>4
  <2>4. t[k] \in S
    BY <1>3
  <2> HIDE DEF S
  <2>5. (CHOOSE d \in S : Cardinality({e \in S : e < d}) = k - 1) = t[k]
    BY <2>3, <2>4
  <2> QED BY <1>4, <2>5 DEF InOrder
<1>6. InOrder(S) \in Seq(S) /\ Len(InOrder(S)) = Len(t)
  BY <1>4, InOrderIds
<1> QED BY <1>1, <1>4, <1>5, <1>6

-----------------------------------------------------------------------------
(* The chain *)

Row == [id : Nat, prev : Seq(Nat), salted : BOOLEAN, by : {"mcp", "cli", "import"}]

\* Entries at every position from the first to the last, each with the hash of the one
\* before it, which is as long as its position.
ChainInv ==
    /\ rows \in [Seqs -> Row]
    /\ NextSeq \in Nat /\ \E m \in 0..NextSeq : Seqs = m..(NextSeq - 1)
    /\ TailHash \in Seq(Nat) /\ Len(TailHash) = NextSeq
    /\ \A s \in Seqs : Len(rows[s].prev) = s
    /\ \A s \in Seqs : s - 1 \in Seqs => rows[s].prev = HashOf(rows[s - 1])

LEMMA LastAppended ==
    ASSUME NEW p \in Seq(Nat), NEW q \in Seq(Nat), NEW a \in Nat
    PROVE  p \o Append(q, a) = Append(p \o q, a)
<1> DEFINE x == p \o Append(q, a)
           y == Append(p \o q, a)
<1>1. x \in Seq(Nat) /\ Len(x) = Len(p) + Len(q) + 1
  OBVIOUS
<1>2. y \in Seq(Nat) /\ Len(y) = Len(p) + Len(q) + 1
  OBVIOUS
<1>3. ASSUME NEW i \in 1..Len(x) PROVE x[i] = y[i]
  <2>1. CASE i <= Len(p) BY <2>1, <1>1
  <2>2. CASE i > Len(p) /\ i <= Len(p) + Len(q) BY <2>2, <1>1
  <2>3. CASE i = Len(p) + Len(q) + 1 BY <2>3, <1>1
  <2> QED BY <2>1, <2>2, <2>3, <1>1
<1> HIDE DEF x, y
<1>4. x = y BY <1>1, <1>2, <1>3
<1> QED BY <1>4 DEF x, y

\* What link makes of a batch.
RowsOf(new, seq, prev, ids, salted, by) ==
    /\ DOMAIN new = seq..(seq + Len(ids) - 1)
    /\ \A s \in DOMAIN new : /\ new[s] \in Row /\ new[s].id \in ToSet(ids) /\ new[s].by = by
                             /\ new[s].id = ids[s - seq + 1]
                             /\ (new[s].salted => new[s].id \in salted)
                             /\ Len(new[s].prev) = s
                             /\ s = seq => new[s].prev = prev
                             /\ s # seq => new[s].prev = HashOf(new[s - 1])
                             /\ s = seq + Len(ids) - 1 => HashOf(new[s]) = prev \o ids
    /\ {new[s].id : s \in DOMAIN new} = ToSet(ids)

LEMMA LinkedRows ==
    ASSUME NEW prev \in Seq(Nat), NEW ids \in Seq(Nat), NEW salted, NEW by \in {"mcp", "cli", "import"},
           NEW seq \in Nat, seq = Len(prev), NEW new, new = Linked(seq, prev, ids, salted, by)
    PROVE  RowsOf(new, seq, prev, ids, salted, by)
<1> DEFINE L == Len(ids)
           P(k) == prev \o SubSeq(ids, 1, k)
<1>1. L \in Nat /\ DOMAIN ids = 1..L /\ \A i \in 1..L : ids[i] \in Nat
  OBVIOUS
<1>2. DOMAIN new = seq..(seq + L - 1)
  BY DEF Linked
<1>3. ASSUME NEW k \in 0..L PROVE P(k) \in Seq(Nat) /\ Len(P(k)) = seq + k
  <2>1. SubSeq(ids, 1, k) \in Seq(Nat) /\ Len(SubSeq(ids, 1, k)) = k
    BY <1>1
  <2> QED BY <2>1
<1>4. ASSUME NEW k \in 0..(L - 1) PROVE P(k + 1) = Append(P(k), ids[k + 1])
  <2>1. SubSeq(ids, 1, k + 1) = Append(SubSeq(ids, 1, k), ids[k + 1])
    BY <1>1
  <2>2. SubSeq(ids, 1, k) \in Seq(Nat) /\ ids[k + 1] \in Nat
    BY <1>1
  <2>3. prev \o Append(SubSeq(ids, 1, k), ids[k + 1]) = Append(prev \o SubSeq(ids, 1, k), ids[k + 1])
    BY <2>2, LastAppended, Zenon
  <2> QED BY <2>1, <2>3, Zenon
<1>5. P(0) = prev /\ P(L) = prev \o ids
  <2>1. SubSeq(ids, 1, 0) = <<>> /\ SubSeq(ids, 1, L) = ids
    BY <1>1
  <2> QED BY <2>1
<1>6. ASSUME NEW k \in 0..(L - 1)
      PROVE  /\ seq + k \in DOMAIN new /\ k + 1 \in 1..L
             /\ new[seq + k] \in Row /\ new[seq + k].id = ids[k + 1] /\ new[seq + k].by = by
             /\ (new[seq + k].salted => new[seq + k].id \in salted)
             /\ Len(new[seq + k].prev) = seq + k /\ new[seq + k].prev = P(k) /\ HashOf(new[seq + k]) = P(k + 1)
  <2>1. seq + k \in DOMAIN new /\ k + 1 \in 1..L /\ k \in 0..L /\ (seq + k) - seq = k
    BY <1>1, <1>2
  <2>2. new[seq + k] = [id |-> ids[k + 1], prev |-> P(k), salted |-> ids[k + 1] \in salted, by |-> by]
    BY <1>2, <2>1 DEF Linked
  <2> HIDE DEF P
  <2>3. P(k) \in Seq(Nat) /\ Len(P(k)) = seq + k /\ ids[k + 1] \in Nat /\ P(k + 1) = Append(P(k), ids[k + 1])
    BY <1>1, <1>3, <1>4, <2>1
  <2>4. PICK b \in BOOLEAN : b = (ids[k + 1] \in salted)
    <3>1. (ids[k + 1] \in salted) \in BOOLEAN
      OBVIOUS
    <3> QED BY <3>1, Zenon
  <2>5. new[seq + k] = [id |-> ids[k + 1], prev |-> P(k), salted |-> b, by |-> by]
    BY <2>2, <2>4
  <2>6. new[seq + k].salted => new[seq + k].id \in salted
    <3>1. b => ids[k + 1] \in salted
      BY <2>4
    <3>2. new[seq + k].salted = b /\ new[seq + k].id = ids[k + 1]
      BY <2>5
    <3> QED BY <3>1, <3>2, Zenon
  <2>7. new[seq + k] \in Row
    BY <2>3, <2>5 DEF Row
  <2> QED BY <2>1, <2>3, <2>5, <2>6, <2>7 DEF HashOf
<1> HIDE DEF P, L
<1>7. ASSUME NEW s \in DOMAIN new PROVE \E k \in 0..(L - 1) : s = seq + k
  <2>1. s - seq \in 0..(L - 1) /\ s = seq + (s - seq)
    BY <1>1, <1>2
  <2> QED BY <2>1
<1>8. ASSUME NEW s \in DOMAIN new
      PROVE  /\ new[s] \in Row /\ new[s].id \in ToSet(ids) /\ new[s].by = by
             /\ new[s].id = ids[s - seq + 1]
             /\ (new[s].salted => new[s].id \in salted)
             /\ Len(new[s].prev) = s
             /\ s = seq => new[s].prev = prev
             /\ s # seq => new[s].prev = HashOf(new[s - 1])
             /\ s = seq + Len(ids) - 1 => HashOf(new[s]) = prev \o ids
  <2>1. PICK k \in 0..(L - 1) : s = seq + k
    BY <1>7
  <2>2. ids[k + 1] \in ToSet(ids) /\ s - seq + 1 = k + 1
    <3>1. k + 1 \in DOMAIN ids
      BY <1>1, <2>1
    <3>2. ids[k + 1] \in ToSet(ids)
      BY <3>1, Zenon DEF ToSet
    <3>3. s - seq + 1 = k + 1
      BY <1>1, <2>1
    <3> QED BY <3>2, <3>3
  <2>3. s = seq => k = 0
    BY <1>1, <2>1
  <2>4. s = seq + L - 1 => k + 1 = L
    BY <1>1, <2>1
  <2>5. ASSUME s # seq PROVE new[s].prev = HashOf(new[s - 1])
    <3>1. k - 1 \in 0..(L - 1) /\ s - 1 = seq + (k - 1) /\ (k - 1) + 1 = k
      BY <1>1, <2>1, <2>5
    <3>2. HashOf(new[seq + (k - 1)]) = P((k - 1) + 1)
      BY <1>6, <3>1
    <3> QED BY <1>6, <2>1, <3>1, <3>2
  <2>6. /\ new[s] \in Row /\ new[s].id = ids[k + 1] /\ new[s].by = by
        /\ (new[s].salted => new[s].id \in salted)
        /\ Len(new[s].prev) = seq + k /\ new[s].prev = P(k) /\ HashOf(new[s]) = P(k + 1)
    BY <1>6, <2>1, Zenon
  <2>7. new[s].id \in ToSet(ids) /\ new[s].id = ids[s - seq + 1] /\ Len(new[s].prev) = s
    BY <2>1, <2>2, <2>6
  <2>8. s = seq => new[s].prev = prev
    BY <1>5, <2>3, <2>6, Zenon
  <2>9. s = seq + Len(ids) - 1 => HashOf(new[s]) = prev \o ids
    BY <1>5, <2>4, <2>6, Zenon DEF L
  <2> QED BY <2>5, <2>6, <2>7, <2>8, <2>9, Zenon
<1>9. ASSUME NEW i \in 1..L PROVE \E s \in DOMAIN new : new[s].id = ids[i]
  <2>1. i - 1 \in 0..(L - 1) /\ (i - 1) + 1 = i
    BY <1>1
  <2>2. seq + (i - 1) \in DOMAIN new /\ new[seq + (i - 1)].id = ids[(i - 1) + 1]
    BY <1>6, <2>1
  <2> QED BY <2>1, <2>2
<1>10. {new[s].id : s \in DOMAIN new} = ToSet(ids)
  <2>1. \A x \in ToSet(ids) : \E i \in 1..L : x = ids[i]
    BY <1>1 DEF ToSet
  <2>2. \A s \in DOMAIN new : new[s].id \in ToSet(ids)
    BY <1>8, Zenon
  <2> QED BY <1>9, <2>1, <2>2
<1> QED BY <1>1, <1>2, <1>8, <1>10, Zenon DEF L, RowsOf

LEMMA LastOf == ASSUME NEW m \in Nat, NEW n \in Nat, m <= n PROVE (CHOOSE s \in m..n : \A t \in m..n : t <= s) = n
<1>1. n \in m..n /\ \A t \in m..n : t <= n
  OBVIOUS
<1>2. \A s \in m..n : (\A t \in m..n : t <= s) => s = n
  BY <1>1
<1> QED BY <1>1, <1>2

\* What a batch of entries adds, behind a hash: the others stay as they are.
Extended(prev, ids, salted, by) ==
    /\ Seqs \subseteq Seqs' /\ \A s \in Seqs : rows'[s] = rows[s]
    /\ \A s \in Seqs' : s \notin Seqs =>
          /\ rows'[s].by = by /\ rows'[s].id \in ToSet(ids) /\ rows'[s].id = ids[s - Len(prev) + 1]
          /\ (rows'[s].salted => rows'[s].id \in salted)
          /\ \A t \in Seqs : t < s
    /\ Seqs' = Seqs \cup (Len(prev)..(Len(prev) + Len(ids) - 1))
    /\ Seqs \cap (Len(prev)..(Len(prev) + Len(ids) - 1)) = {}
    /\ OnChain' = OnChain \cup ToSet(ids)
    /\ prev = TailHash => NextSeq' = NextSeq + Len(ids)
    /\ ids # <<>> => \E s \in Seqs' : HashOf(rows'[s]) = prev \o ids

\* A batch goes behind the last entry, or is a chain's first.
LEMMA BatchExtends ==
    ASSUME ChainInv, NEW prev \in Seq(Nat), NEW ids \in Seq(Nat), NEW salted, NEW by \in {"mcp", "cli", "import"},
           prev = TailHash \/ Seqs = {},
           WriteBatch(Linked(Len(prev), prev, ids, salted, by))
    PROVE  ChainInv' /\ Extended(prev, ids, salted, by)
<1>0. PICK q, L, new : q = Len(prev) /\ L = Len(ids) /\ new = Linked(q, prev, ids, salted, by)
  OBVIOUS
<1>1. q \in Nat /\ L \in Nat /\ (L = 0 <=> ids = <<>>)
  BY <1>0
<1>2. /\ DOMAIN new = q..(q + L - 1)
      /\ \A s \in DOMAIN new : /\ new[s] \in Row /\ new[s].id \in ToSet(ids) /\ new[s].by = by
                               /\ new[s].id = ids[s - q + 1]
                               /\ (new[s].salted => new[s].id \in salted)
                               /\ Len(new[s].prev) = s
                               /\ s = q => new[s].prev = prev
                               /\ s # q => new[s].prev = HashOf(new[s - 1])
                               /\ s = q + L - 1 => HashOf(new[s]) = prev \o ids
      /\ {new[s].id : s \in DOMAIN new} = ToSet(ids)
  <2>1. RowsOf(new, q, prev, ids, salted, by)
    BY <1>0, <1>1, LinkedRows
  <2> QED BY <1>0, <2>1, Zenon DEF RowsOf
<1>3. rows' = [s \in Seqs \cup DOMAIN new |-> IF s \in DOMAIN new THEN new[s] ELSE rows[s]]
  BY <1>0 DEF WriteBatch
<1>4. PICK N \in Nat : N = NextSeq
  BY DEF ChainInv
<1>5. PICK m \in 0..N : Seqs = m..(N - 1)
  BY <1>4 DEF ChainInv
<1>6. prev = TailHash => q = N
  BY <1>0, <1>4 DEF ChainInv
<1>7. DOMAIN new = q..(q + L - 1) /\ (q = N \/ Seqs = {})
  BY <1>2, <1>6
<1>m. m \in Nat /\ m <= N /\ \A t : t \in Seqs <=> t \in Int /\ m <= t /\ t < N
  BY <1>5
<1>d. \A t : t \in DOMAIN new <=> t \in Int /\ q <= t /\ t < q + L
  BY <1>1, <1>7
<1>8. ASSUME NEW s \in DOMAIN new PROVE s \notin Seqs /\ \A t \in Seqs : t < s
  <2>1. s \in Int /\ q <= s /\ s < q + L
    BY <1>d
  <2>2. CASE Seqs = {}
    BY <2>2
  <2>3. CASE q = N
    BY <1>m, <2>1, <2>3
  <2> QED BY <1>7, <2>2, <2>3
<1>9. /\ Seqs' = Seqs \cup DOMAIN new
      /\ \A s \in Seqs : rows'[s] = rows[s]
      /\ \A s \in DOMAIN new : rows'[s] = new[s]
      /\ \A s \in Seqs' : s \notin Seqs => s \in DOMAIN new
  BY <1>3, <1>8 DEF Seqs
<1>10. CASE DOMAIN new = {}
  <2>1. rows' = rows
    BY <1>3, <1>10 DEF ChainInv, Seqs
  <2>2. L = 0 /\ ids = <<>>
    <3>1. L # 0 => q \in q..(q + L - 1)
      BY <1>1
    <3> QED BY <1>1, <1>7, <1>10, <3>1
  <2>3. Seqs' = Seqs /\ NextSeq' = NextSeq /\ OnChain' = OnChain
    BY <2>1 DEF Seqs, NextSeq, TailSeq, OnChain
  <2>4. ChainInv'
    <3>1. TailHash' = TailHash
      BY <2>1 DEF Seqs, TailSeq, TailHash
    <3> QED BY <2>1, <2>3, <3>1 DEF ChainInv
  <2>5. ToSet(ids) = {}
    BY <2>2 DEF ToSet
  <2>6. NextSeq' = NextSeq + Len(ids)
    BY <1>0, <1>4, <2>2, <2>3
  <2> QED BY <1>0, <1>7, <1>9, <1>10, <2>2, <2>3, <2>4, <2>5, <2>6 DEF Extended
<1>11. CASE DOMAIN new # {}
  <2>0. L # 0 /\ ids # <<>>
    <3>1. L = 0 => q..(q + L - 1) = {}
      BY <1>1
    <3> QED BY <1>1, <1>7, <1>11, <3>1
  <2>1. PICK n \in Nat, f \in Nat : n = q + L - 1 /\ (Seqs = {} => f = q) /\ (Seqs # {} => f = m)
    <3>1. q + L - 1 \in Nat
      BY <1>1, <2>0
    <3> QED BY <1>1, <1>m, <3>1
  <2>1b. q <= n /\ n + 1 = q + L /\ n - q + 1 = L
    BY <1>1, <2>0, <2>1
  <2>1c. DOMAIN new = q..n /\ n \in DOMAIN new
    BY <1>1, <1>7, <2>1, <2>1b
  <2>1d. f <= n /\ f \in 0..(n + 1) /\ (Seqs # {} => q = N /\ m <= N)
    BY <1>1, <1>7, <1>m, <2>1, <2>1b
  <2>1a. /\ q <= n /\ n + 1 = q + L /\ f <= n /\ f \in 0..(n + 1)
         /\ DOMAIN new = q..n /\ n \in DOMAIN new /\ (Seqs # {} => q = N /\ m <= N)
    BY <2>1b, <2>1c, <2>1d
  <2>2. Seqs' = f..n
    <3>1. CASE Seqs = {}
      BY <1>9, <2>1, <2>1a, <3>1
    <3>2. CASE Seqs # {}
      <4>1. m..(N - 1) \cup q..n = m..n
        BY <1>5, <2>1, <2>1a, <3>2
      <4> QED BY <1>5, <1>9, <2>1, <2>1a, <3>2, <4>1
    <3> QED BY <3>1, <3>2
  <2>3. TailSeq' = n
    BY <2>1a, <2>2, LastOf DEF TailSeq, Seqs
  <2>4. n \in DOMAIN new /\ n \in Seqs' /\ Seqs' # {}
    BY <1>9, <2>1a
  <2>5. NextSeq' = n + 1 /\ TailHash' = HashOf(rows'[n])
    BY <2>3, <2>4 DEF NextSeq, TailHash, Seqs
  <2>6. rows'[n] = new[n] /\ HashOf(new[n]) = prev \o ids
    <3>1. n = q + L - 1
      BY <2>1
    <3> QED BY <1>2, <1>9, <2>4, <3>1
  <2>7. TailHash' \in Seq(Nat) /\ Len(TailHash') = n + 1
    <3>1. prev \o ids \in Seq(Nat) /\ Len(prev \o ids) = q + L
      BY <1>0
    <3> QED BY <2>1a, <2>5, <2>6, <3>1
  <2>8. ASSUME NEW s \in Seqs' PROVE rows'[s] \in Row /\ Len(rows'[s].prev) = s
    BY <1>2, <1>9, <2>8 DEF ChainInv
  <2>9. ASSUME NEW s \in Seqs', s - 1 \in Seqs' PROVE rows'[s].prev = HashOf(rows'[s - 1])
    <3>1. CASE s \in Seqs
      <4>1. s - 1 \in Seqs
        <5>1. s \in Int /\ s < N /\ q = N
          BY <1>m, <2>1a, <3>1
        <5>2. s - 1 \notin DOMAIN new
          BY <1>d, <5>1
        <5> QED BY <1>9, <2>9, <5>2
      <4> QED BY <1>9, <3>1, <4>1 DEF ChainInv
    <3>2. CASE s \in DOMAIN new /\ s # q
      <4>1. s - 1 \in DOMAIN new
        BY <1>1, <2>1a, <3>2
      <4> QED BY <1>2, <1>9, <3>2, <4>1
    <3>3. CASE s = q
      <4>1. q \in DOMAIN new /\ q - 1 \notin DOMAIN new
        BY <1>1, <2>1a
      <4>2. q - 1 \in Seqs /\ prev = TailHash /\ Seqs # {} /\ q = N
        BY <1>6, <1>9, <2>9, <3>3, <4>1
      <4>3. TailHash = HashOf(rows[q - 1])
        <5>1. N = TailSeq + 1 /\ TailHash = HashOf(rows[TailSeq])
          BY <1>4, <4>2 DEF NextSeq, TailHash
        <5>2. TailSeq = N - 1
          <6>1. m \in Nat /\ N - 1 \in Nat /\ m <= N - 1
            BY <1>5, <4>2
          <6> QED BY <1>5, <6>1, LastOf DEF TailSeq
        <5> QED BY <4>2, <5>1, <5>2
      <4> QED BY <1>2, <1>9, <3>3, <4>1, <4>2, <4>3
    <3> QED BY <1>9, <3>1, <3>2, <3>3
  <2>10. rows' \in [Seqs' -> Row]
    BY <1>3, <1>9, <2>8 DEF Seqs
  <2>11. ChainInv'
    <3>1. NextSeq' \in Nat /\ Seqs' = f..(NextSeq' - 1) /\ f \in 0..NextSeq'
      BY <2>1, <2>1a, <2>2, <2>5
    <3>2. Len(TailHash') = NextSeq'
      BY <2>5, <2>7
    <3> QED BY <2>7, <2>8, <2>9, <2>10, <3>1, <3>2 DEF ChainInv
  <2>12. OnChain' = OnChain \cup ToSet(ids)
    <3>1. \A s \in Seqs' : rows'[s].id \in OnChain \cup ToSet(ids)
      BY <1>2, <1>9 DEF OnChain
    <3>2. \A s \in Seqs : rows[s].id \in OnChain'
      BY <1>9 DEF OnChain
    <3>3. \A s \in DOMAIN new : new[s].id \in OnChain'
      BY <1>9 DEF OnChain
    <3>4. OnChain' \subseteq OnChain \cup ToSet(ids)
      <4>1. OnChain' = {rows'[s].id : s \in Seqs'}
        BY DEF OnChain
      <4> QED BY <3>1, <4>1, Zenon
    <3>5. OnChain \subseteq OnChain'
      <4>1. OnChain = {rows[s].id : s \in Seqs}
        BY DEF OnChain
      <4> QED BY <3>2, <4>1, Zenon
    <3>6. ToSet(ids) \subseteq OnChain'
      <4>1. ToSet(ids) = {new[s].id : s \in DOMAIN new}
        BY <1>2, Zenon
      <4> QED BY <3>3, <4>1, Zenon
    <3> HIDE DEF OnChain
    <3> QED BY <3>4, <3>5, <3>6, Zenon
  <2>13. prev = TailHash => NextSeq' = NextSeq + L
    BY <1>4, <1>6, <2>1a, <2>5
  <2>14. \A s \in Seqs' : s \notin Seqs =>
            /\ rows'[s].by = by /\ rows'[s].id \in ToSet(ids) /\ rows'[s].id = ids[s - q + 1]
            /\ (rows'[s].salted => rows'[s].id \in salted)
            /\ \A t \in Seqs : t < s
    BY <1>2, <1>8, <1>9, Zenon
  <2>15. Seqs' = Seqs \cup (q..(q + L - 1)) /\ Seqs \cap (q..(q + L - 1)) = {}
    BY <1>7, <1>8, <1>9
  <2>16. \E s \in Seqs' : HashOf(rows'[s]) = prev \o ids
    BY <2>4, <2>6
  <2> QED BY <1>0, <1>9, <2>11, <2>12, <2>13, <2>14, <2>15, <2>16 DEF Extended
<1> QED BY <1>10, <1>11

Rising(ids) == \A i, k \in 1..Len(ids) : i < k => ids[i] < ids[k]

\* The database after a step: as it was, or with a batch; the head is saved last.
Same == rows' = rows /\ head' = head

Adds(prev, ids, salted, by) ==
    Extended(prev, ids, salted, by) /\ (head' = head \/ head' = prev \o ids)

\* The linker's order of a batch that comes in order is its own.
LEMMA AppendExtends ==
    ASSUME ChainInv, NEW ids \in Seq(Nat), Rising(ids), NEW salted, NEW by \in {"mcp", "cli"},
           Appended(ids, salted, by) \/ AppendLands(ids, salted, by)
    PROVE  ChainInv' /\ Adds(TailHash, ids, salted, by)
<1>1. InOrder(ToSet(ids)) = ids
  BY InOrderAlready DEF Rising
<1>2. TailHash \in Seq(Nat) /\ Len(TailHash) = NextSeq
  BY DEF ChainInv
<1>3. WriteBatch(Linked(Len(TailHash), TailHash, ids, salted, by))
  BY <1>1, <1>2, Zenon DEF Appended, AppendLands
<1>4. head' = head \/ head' = TailHash \o ids
  BY <1>1, Zenon DEF Appended, AppendLands
<1> QED BY <1>2, <1>3, <1>4, BatchExtends DEF Adds

LEMMA Part ==
    ASSUME NEW s \in Seq(Nat), NEW m \in Nat, NEW n \in Nat, 1 <= m, m <= n + 1, n <= Len(s)
    PROVE  /\ SubSeq(s, m, n) \in Seq(Nat) /\ Len(SubSeq(s, m, n)) = n - m + 1
           /\ \A i \in 1..(n - m + 1) : SubSeq(s, m, n)[i] = s[m + i - 1]
<1>1. /\ Len(s) \in Nat /\ \A i \in 1..Len(s) : s[i] \in Nat
  OBVIOUS
<1>2. SubSeq(s, m, n) = [i \in 1..(n - m + 1) |-> s[m + i - 1]]
  OBVIOUS
<1>3. \A i \in 1..(n - m + 1) : s[m + i - 1] \in Nat
  BY <1>1
<1>4. n - m + 1 \in Nat
  OBVIOUS
<1> QED BY <1>2, <1>3, <1>4

\* An import continues the chain, or makes one, with entries that were made elsewhere.
LEMMA ImportExtends ==
    ASSUME ChainInv, NEW p \in Procs, CliImport(p)
    PROVE  \E prev, ids \in Seq(Nat) :
              /\ ids # <<>> /\ ToSet(ids) \cap Nonces = {} /\ \E e \in Elsewhere : ToSet(ids) \subseteq ToSet(e)
              /\ Len(prev) + Len(ids) - 1 <= MaxSeq
              /\ ChainInv' /\ Adds(prev, ids, {}, "import")
<1>1. PICK s \in Segments :
         /\ Len(s.prev) + Len(s.ids) - 1 <= MaxSeq /\ ~Detached(s)
         /\ WriteBatch(Linked(Len(s.prev), s.prev, s.ids, {}, "import"))
         /\ head' = head \/ head' = s.prev \o s.ids
  BY DEF CliImport
<1>2. PICK T \in Seq(Nat) : T = TailHash /\ (Seqs = {} => T = <<>>)
  BY DEF ChainInv, TailHash
<1>h. PICK h \in Histories :
         \E k \in 0..(Len(h) - 1) : s = [prev |-> SubSeq(h, 1, k), ids |-> SubSeq(h, k + 1, Len(h))]
  BY DEF Segments
<1>3. PICK n \in 0..Len(T), e \in Elsewhere \cup {<<>>} : h = SubSeq(T, 1, n) \o e
  BY <1>2 DEF Histories
<1>4. e \in Seq(Nat) /\ ToSet(e) \cap Nonces = {}
  <2>1. CASE e \in Elsewhere
    BY <2>1, LocalAssumption DEF Nonces
  <2>2. CASE e = <<>>
    BY <2>2 DEF ToSet
  <2> QED BY <2>1, <2>2
<1>5. h \in Seq(Nat) /\ Len(h) = n + Len(e) /\ Len(e) \in Nat /\ \A i \in 1..Len(e) : h[n + i] = e[i]
  <2>1. SubSeq(T, 1, n) \in Seq(Nat) /\ Len(SubSeq(T, 1, n)) = n
    OBVIOUS
  <2>2. PICK t \in Seq(Nat) : t = SubSeq(T, 1, n)
    BY <2>1
  <2>3. h = t \o e /\ Len(t) = n /\ n \in Nat
    BY <1>3, <2>1, <2>2
  <2>4. \A i \in 1..Len(e) : (t \o e)[Len(t) + i] = e[i]
    BY <1>4
  <2>5. t \o e \in Seq(Nat) /\ Len(t \o e) = Len(t) + Len(e) /\ Len(e) \in Nat
    BY <1>4
  <2> QED BY <2>3, <2>4, <2>5
<1>6. PICK k \in 0..(Len(h) - 1) : s = [prev |-> SubSeq(h, 1, k), ids |-> SubSeq(h, k + 1, Len(h))]
  BY <1>h
<1>7. /\ SubSeq(h, 1, k) \in Seq(Nat) /\ Len(SubSeq(h, 1, k)) = k
      /\ SubSeq(h, k + 1, Len(h)) \in Seq(Nat) /\ Len(SubSeq(h, k + 1, Len(h))) = Len(h) - k
      /\ \A i \in 1..(Len(h) - k) : SubSeq(h, k + 1, Len(h))[i] = h[k + i]
  <2>1. /\ h \in Seq(Nat) /\ k \in Nat /\ k + 1 \in Nat /\ Len(h) \in Nat /\ 1 <= k + 1 /\ k + 1 <= Len(h) + 1
        /\ k <= Len(h) /\ Len(h) - (k + 1) + 1 = Len(h) - k /\ k - 1 + 1 = k /\ 1 <= k + 1
        /\ 1 \in Nat /\ 1 <= 1 /\ Len(h) <= Len(h)
    BY <1>5
  <2>2. SubSeq(h, 1, k) \in Seq(Nat) /\ Len(SubSeq(h, 1, k)) = k - 1 + 1
    BY <2>1, Part
  <2>3. /\ SubSeq(h, k + 1, Len(h)) \in Seq(Nat) /\ Len(SubSeq(h, k + 1, Len(h))) = Len(h) - (k + 1) + 1
        /\ \A i \in 1..(Len(h) - (k + 1) + 1) : SubSeq(h, k + 1, Len(h))[i] = h[k + 1 + i - 1]
    BY <2>1, Part
  <2>4. \A i \in 1..(Len(h) - k) : k + 1 + i - 1 = k + i
    BY <2>1
  <2> QED BY <2>1, <2>2, <2>3, <2>4
<1>8. n <= k /\ (s.prev = TailHash \/ Seqs = {})
  <2>1. CASE Seqs = {}
    BY <1>2, <1>5, <2>1
  <2>2. CASE Seqs # {}
    <3>1. s.prev = TailHash
      BY <1>1, <2>2 DEF Detached
    <3>2. k = Len(T)
      BY <1>2, <1>6, <1>7, <3>1
    <3> QED BY <3>1, <3>2
  <2> QED BY <2>1, <2>2
<1>d. PICK d \in Seq(Nat) : d = s.ids /\ Len(d) = Len(h) - k /\ \A i \in 1..(Len(h) - k) : d[i] = h[k + i]
  <2>1. s.ids = SubSeq(h, k + 1, Len(h))
    BY <1>6
  <2> QED BY <1>7, <2>1
<1>9. ToSet(d) \subseteq ToSet(e)
  <2>1. ASSUME NEW i \in 1..(Len(h) - k) PROVE \E o \in 1..Len(e) : d[i] = e[o]
    <3>1. k + i - n \in 1..Len(e) /\ n + (k + i - n) = k + i
      BY <1>5, <1>8
    <3>2. d[i] = h[k + i] /\ h[n + (k + i - n)] = e[k + i - n]
      BY <1>5, <1>d, <3>1
    <3> QED BY <3>1, <3>2
  <2>2. DOMAIN d = 1..(Len(h) - k) /\ DOMAIN e = 1..Len(e)
    BY <1>4, <1>d
  <2>3. \A x \in ToSet(d) : \E i \in 1..(Len(h) - k) : x = d[i]
    BY <2>2, Zenon DEF ToSet
  <2>4. \A o \in 1..Len(e) : e[o] \in ToSet(e)
    BY <2>2, Zenon DEF ToSet
  <2>5. ASSUME NEW x \in ToSet(d) PROVE x \in ToSet(e)
    <3>1. PICK i \in 1..(Len(h) - k) : x = d[i]
      BY <2>3
    <3>2. PICK o \in 1..Len(e) : d[i] = e[o]
      BY <2>1
    <3> QED BY <2>4, <3>1, <3>2, Zenon
  <2> QED BY <2>5, Zenon
<1>10. s.ids # <<>> /\ s.prev \in Seq(Nat) /\ s.ids \in Seq(Nat) /\ e \in Elsewhere
  <2>1. Len(h) - k # 0 /\ Len(e) # 0
    <3>1. Len(h) \in Nat /\ Len(e) \in Nat /\ n \in Nat /\ k \in Nat /\ k < Len(h) /\ n <= k /\ Len(h) = n + Len(e)
      BY <1>5, <1>8
    <3> QED BY <3>1
  <2>2. e # <<>> /\ d # <<>>
    BY <1>d, <2>1
  <2>3. s.prev \in Seq(Nat)
    BY <1>6, <1>7
  <2> QED BY <1>d, <2>2, <2>3
<1>11. ChainInv' /\ Extended(s.prev, s.ids, {}, "import")
  BY <1>1, <1>8, <1>10, BatchExtends
<1>12. ToSet(s.ids) \cap Nonces = {} /\ ToSet(s.ids) \subseteq ToSet(e)
  BY <1>4, <1>9, <1>d
<1> HIDE DEF ToSet
<1> QED BY <1>1, <1>10, <1>11, <1>12 DEF Adds

-----------------------------------------------------------------------------
(* The nonce file *)

\* What a step to a label does to the file: some nonces may be added to those that are
\* stored, some taken out, and nothing else gets onto the disk.
Writes(p, add, del) ==
    /\ at[p] \in HasFile /\ nfile' \in File
    /\ nfile.live \ del \subseteq nfile'.live /\ nfile'.live \subseteq nfile.live \cup add
    /\ nfile'.free \subseteq nfile.live \cup nfile.free

FileMoves(p, l, add, del) ==
    \/ /\ at[p] \notin Rewriting /\ l \notin Rewriting /\ UNCHANGED <<copy, left>>
       /\ \/ UNCHANGED nfile /\ (l \in NeedsFile /\ at[p] \notin NeedsFile => nfile # None)
          \/ nfile' = IF nfile = None THEN [live |-> {}, free |-> {}] ELSE nfile
          \/ Writes(p, add, del)
    \/ at[p] = "forget.compact" /\ l = "forget.copy" /\ CompactBegin(p)
    \/ at[p] = "forget.copy" /\ l = "forget.rename" /\ CompactCopy(p)
    \/ at[p] = "forget.rename" /\ l \notin NeedsFile /\ CompactRename(p)
    \/ at[p] \in Rewriting /\ l \notin NeedsFile /\ CompactFails(p)
    \/ l \notin NeedsFile /\ Killed(p)

FileKeeps(add, del) ==
    /\ FileInv'
    /\ Stored \ del \subseteq Stored' /\ Stored' \subseteq Stored \cup add
    /\ OnDisk' \subseteq OnDisk \cup add

LEMMA OneRewrites ==
    ASSUME HoldsInv, NEW p \in Procs, NEW q \in Procs, at[p] \in Rewriting, at[q] \in Rewriting PROVE p = q
<1>1. at[q] \in HoldsEx
  BY DEF Rewriting, HoldsEx
<1> QED BY <1>1, RewritesAlone

LEMMA FileStep ==
    ASSUME HoldsInv, FileInv, NEW p \in Procs, NEW l \in Labels, at' = [at EXCEPT ![p] = l],
           NEW add \in SUBSET Nonces, NEW del, FileMoves(p, l, add, del)
    PROVE  FileKeeps(add, del)
<1>0. /\ at'[p] = l /\ \A q \in Procs : q # p => at'[q] = at[q]
      /\ Rewriting \subseteq NeedsFile /\ "forget.compact" \in NeedsFile /\ HasFile \subseteq NeedsFile
      /\ "forget.copy" \in Rewriting /\ "forget.rename" \in Rewriting /\ "forget.compact" \notin Rewriting
  BY DEF HoldsInv, NeedsFile, Rewriting
<1>1. /\ nfile \in File \cup {None} /\ left \subseteq Nonces /\ copy = [q \in Procs |-> copy[q]]
      /\ nfile = None => left = {} /\ \A q \in Procs : at[q] \notin NeedsFile
      /\ \A q \in Procs : /\ at[q] \notin Rewriting => copy[q] = None
                          /\ at[q] \in Rewriting => left = {}
                          /\ at[q] = "forget.copy" => copy[q] = {}
                          /\ at[q] = "forget.rename" => copy[q] = nfile.live
  BY DEF FileInv
<1>2. None \notin File
  <2>1. Nonces \subseteq Nat /\ None \notin [live : SUBSET Nat, free : SUBSET Nat]
    BY LocalAssumption DEF Nonces
  <2>2. \A f \in File : f \in [live : SUBSET Nat, free : SUBSET Nat]
    BY <2>1 DEF File
  <2> QED BY <2>1, <2>2
\* A step that leaves copies, what is left and who rewrites as they are.
<1>3. ASSUME at[p] \notin Rewriting, l \notin Rewriting, UNCHANGED <<copy, left>>, nfile' \in File \cup {None},
             nfile' = None => nfile = None /\ l \notin NeedsFile,
             nfile' = nfile \/ \A q \in Procs : at[q] \notin Rewriting,
             Stored \ del \subseteq Stored', Stored' \subseteq Stored \cup add,
             nfile' # None => nfile'.live \cup nfile'.free \subseteq
                                 (IF nfile = None THEN {} ELSE nfile.live \cup nfile.free) \cup add
      PROVE  FileKeeps(add, del)
  <2>1. FileInv'
    BY <1>0, <1>1, <1>3 DEF FileInv
  <2>2. OnDisk' \subseteq OnDisk \cup add
    BY <1>3 DEF OnDisk
  <2> QED BY <1>3, <2>1, <2>2 DEF FileKeeps
<1>4. CASE /\ at[p] \notin Rewriting /\ l \notin Rewriting /\ UNCHANGED <<copy, left>>
           /\ UNCHANGED nfile /\ (l \in NeedsFile /\ at[p] \notin NeedsFile => nfile # None)
  BY <1>1, <1>3, <1>4 DEF Stored
<1>5. CASE /\ at[p] \notin Rewriting /\ l \notin Rewriting /\ UNCHANGED <<copy, left>>
           /\ nfile' = IF nfile = None THEN [live |-> {}, free |-> {}] ELSE nfile
  <2>1. nfile' \in File /\ Stored' = Stored
    BY <1>1, <1>2, <1>5 DEF File, Stored
  <2>2. nfile' = nfile \/ \A q \in Procs : at[q] \notin Rewriting
    BY <1>0, <1>1, <1>5
  <2>3. nfile' # None => nfile'.live \cup nfile'.free \subseteq (IF nfile = None THEN {} ELSE nfile.live \cup nfile.free)
    BY <1>5
  <2> QED BY <1>2, <1>3, <1>5, <2>1, <2>2, <2>3
<1>6. CASE at[p] \notin Rewriting /\ l \notin Rewriting /\ UNCHANGED <<copy, left>> /\ Writes(p, add, del)
  <2>1. nfile # None /\ nfile \in File /\ nfile' \in File /\ nfile' # None
    BY <1>0, <1>1, <1>2, <1>6 DEF Writes
  <2>2. \A q \in Procs : at[q] \notin Rewriting
    BY <1>6, RewritesAlone DEF Writes
  <2>3. Stored \ del \subseteq Stored' /\ Stored' \subseteq Stored \cup add
    BY <1>6, <2>1 DEF Writes, Stored
  <2>4. nfile'.live \cup nfile'.free \subseteq (nfile.live \cup nfile.free) \cup add
    BY <1>6 DEF Writes
  <2> QED BY <1>3, <1>6, <2>1, <2>2, <2>3, <2>4
\* The rewrite.
<1>7. CASE at[p] = "forget.compact" /\ l = "forget.copy" /\ CompactBegin(p)
  <2>1. \A q \in Procs : at[q] \notin HoldsEx
    BY <1>7, LocalAssumption DEF CompactBegin, CompactLock, LockEx, HoldsInv
  <2>2. \A q \in Procs : at[q] \notin Rewriting
    BY <2>1 DEF Rewriting, HoldsEx
  <2>3. left' = {} /\ copy' = [q \in Procs |-> IF q = p THEN {} ELSE None] /\ nfile' = nfile /\ nfile # None
    BY <1>0, <1>1, <1>7 DEF CompactBegin, Cleared
  <2>4. FileInv'
    BY <1>0, <1>1, <1>7, <2>2, <2>3 DEF FileInv
  <2>5. OnDisk' \subseteq OnDisk /\ Stored' = Stored
    BY <2>3 DEF OnDisk, Stored
  <2> QED BY <2>4, <2>5 DEF FileKeeps
<1>8. CASE at[p] = "forget.copy" /\ l = "forget.rename" /\ CompactCopy(p)
  <2>1. copy' = [copy EXCEPT ![p] = nfile.live] /\ nfile' = nfile /\ left' = left /\ nfile # None
    BY <1>0, <1>1, <1>8 DEF CompactCopy, Copied
  <2>2. FileInv'
    BY <1>0, <1>1, <1>8, <2>1 DEF FileInv
  <2>3. OnDisk' \subseteq OnDisk /\ Stored' = Stored
    BY <1>1, <2>1 DEF OnDisk, Stored
  <2> QED BY <2>2, <2>3 DEF FileKeeps
<1>9. CASE at[p] = "forget.rename" /\ l \notin NeedsFile /\ CompactRename(p)
  <2>1. /\ copy' = [copy EXCEPT ![p] = None] /\ nfile' = [live |-> nfile.live, free |-> {}] /\ left' = left
        /\ nfile # None /\ nfile \in File
    BY <1>0, <1>1, <1>9 DEF CompactRename
  <2>2. nfile' \in File /\ nfile' # None
    BY <1>2, <2>1 DEF File
  <2>3. \A q \in Procs : q # p => at[q] \notin Rewriting
    BY <1>0, <1>9, OneRewrites
  <2>4. FileInv'
    BY <1>0, <1>1, <1>9, <2>1, <2>2, <2>3 DEF FileInv
  <2>5. OnDisk' \subseteq OnDisk /\ Stored' = Stored
    BY <1>1, <2>1, <2>2 DEF OnDisk, Stored
  <2> QED BY <2>4, <2>5 DEF FileKeeps
<1>10. CASE at[p] \in Rewriting /\ l \notin NeedsFile /\ CompactFails(p)
  <2>1. copy' = [copy EXCEPT ![p] = None] /\ nfile' = nfile /\ left' = left
    BY <1>10 DEF CompactFails
  <2>2. FileInv'
    BY <1>0, <1>1, <1>10, <2>1 DEF FileInv
  <2>3. OnDisk' \subseteq OnDisk /\ Stored' = Stored
    BY <1>1, <2>1 DEF OnDisk, Stored
  <2> QED BY <2>2, <2>3 DEF FileKeeps
<1>11. CASE l \notin NeedsFile /\ Killed(p)
  <2>1. /\ copy' = [copy EXCEPT ![p] = None] /\ nfile' = nfile
        /\ left' = left \cup (IF copy[p] = None THEN {} ELSE copy[p])
    BY <1>11 DEF Killed
  <2>2. CASE at[p] \notin Rewriting
    <3>1. copy[p] = None /\ left' = left /\ copy' = copy
      BY <1>1, <2>1, <2>2
    <3> QED BY <1>0, <1>1, <1>3, <1>11, <2>1, <2>2, <3>1 DEF Stored
  <2>3. CASE at[p] \in Rewriting
    <3>1. nfile \in File /\ nfile # None
      BY <1>0, <1>1, <2>3
    <3>2. copy[p] \subseteq Nonces
      BY <1>1, <2>3, <3>1 DEF Rewriting, File
    <3>3. \A q \in Procs : q # p => at[q] \notin Rewriting
      BY <2>3, OneRewrites
    <3>4. FileInv'
      <4>1. \A q \in Procs : at'[q] \notin Rewriting /\ copy'[q] = None
        BY <1>0, <1>1, <1>11, <2>1, <3>3
      <4>2. left' \subseteq Nonces /\ copy' = [q \in Procs |-> copy'[q]] /\ nfile' \in File \cup {None} /\ nfile' # None
        BY <1>1, <2>1, <3>1, <3>2
      <4> QED BY <4>1, <4>2 DEF FileInv, Rewriting
    <3>5. OnDisk' \subseteq OnDisk /\ Stored' = Stored
      BY <1>1, <2>1 DEF OnDisk, Stored
    <3> QED BY <3>4, <3>5 DEF FileKeeps
  <2> QED BY <2>2, <2>3
<1> QED BY <1>4, <1>5, <1>6, <1>7, <1>8, <1>9, <1>10, <1>11 DEF FileMoves

-----------------------------------------------------------------------------
(* What processes work on *)

\* A server's ids are on no chain before its append, nor after one that failed.
Unwritten == {"mcp.open", "mcp.nonces", "mcp.put", "mcp.append"}
             \cup (IF Landed THEN {} ELSE {"mcp.forget", "mcp.delete"})

JobOk(p) ==
    LET j == job[p] IN
    /\ j \in Job /\ j.done <= Len(j.ids)
    /\ at[p] \in McpSteps => ToSet(j.ids) \subseteq drawn \cap McpIds /\ j.salted \subseteq ToSet(j.ids) /\ Rising(j.ids)
    /\ at[p] \in Unwritten => ToSet(j.ids) \cap OnChain = {}
    /\ at[p] = "mcp.append" => j.salted \subseteq kept
    /\ at[p] = "cli.append" => /\ Rising(j.ids) /\ ToSet(j.ids) \cap Nonces = {}
                               /\ \A i \in 1..Len(j.ids) : i > j.done => j.ids[i] \notin OnChain
    /\ at[p] \in ForgetSteps => Target(p) \in OnChain
    /\ at[p] = "other.put" => ~(OtherIds \subseteq drawn)

\* Only drawn ids get onto the chain, each server's are its own, and what a forget is
\* asked for stays on the chain.
JobInv ==
    /\ drawn \subseteq Nonces /\ kept \subseteq drawn
    /\ OnChain \cap Nonces \subseteq drawn \cap McpIds
    /\ \A p \in Procs : JobOk(p)
    /\ \A p, q \in Procs : p # q /\ at[p] \in McpSteps /\ at[q] \in McpSteps =>
                              ToSet(job[p].ids) \cap ToSet(job[q].ids) = {}
    /\ job \in [Procs -> Job]

LEMMA JobInit == LocalInit => JobInv /\ ChainInv
<1> SUFFICES ASSUME LocalInit PROVE JobInv /\ ChainInv
  OBVIOUS
<1>1. /\ rows = <<>> /\ at = [p \in Procs |-> "idle"] /\ job = [p \in Procs |-> NoJob] /\ drawn = {} /\ kept = {}
  BY DEF LocalInit
<1>2. Seqs = {} /\ OnChain = {} /\ TailHash = <<>> /\ NextSeq = 0
  BY <1>1 DEF Seqs, OnChain, TailHash, NextSeq
<1>3. ChainInv
  <2>1. rows \in [Seqs -> Row] /\ 0 \in 0..0 /\ Seqs = 0..(0 - 1) /\ <<>> \in Seq(Nat) /\ Len(<<>>) = 0
    BY <1>1, <1>2 DEF Seqs
  <2> QED BY <1>2, <2>1 DEF ChainInv
<1>4. NoJob \in Job /\ NoJob.done <= Len(NoJob.ids)
  BY DEF NoJob, Job
<1>5. \A p \in Procs : JobOk(p)
  BY <1>1, <1>4 DEF JobOk, McpSteps, ForgetSteps, Unwritten
<1> QED BY <1>1, <1>2, <1>3, <1>4, <1>5 DEF JobInv, McpSteps

\* A step's own work is sound after it, and the others' when new entries are not theirs.
LEMMA JobStep ==
    ASSUME HoldsInv, JobInv, NEW p \in Procs, NEW l \in Labels, at' = [at EXCEPT ![p] = l],
           NEW j, job' = [job EXCEPT ![p] = j], JobOk(p)',
           NEW new, OnChain' = OnChain \cup new, new \cap Nonces \subseteq drawn \cap McpIds,
           new # {} => dblock \in {p, None},
           \A q \in Procs : q # p /\ at[q] \in McpSteps => ToSet(job[q].ids) \cap new = {},
           l \in McpSteps => \A q \in Procs : q # p /\ at[q] \in McpSteps => ToSet(job[q].ids) \cap ToSet(j.ids) = {},
           drawn \subseteq drawn', drawn' \subseteq Nonces, kept' \subseteq drawn',
           ~(kept \subseteq kept') => dblock = p,
           ~(drawn' \subseteq drawn \cup McpIds) => nlock.ex = p
    PROVE  JobInv'
<1>1. /\ at'[p] = l /\ job'[p] = j
      /\ \A q \in Procs : q # p => at'[q] = at[q] /\ job'[q] = job[q]
  BY DEF HoldsInv
<1>2. ASSUME NEW q \in Procs, q # p PROVE JobOk(q)'
  <2>1. JobOk(q)
    BY DEF JobInv
  <2>2. at[q] \in {"mcp.append", "cli.append"} => dblock \notin {p, None}
    BY <1>2, LocalAssumption DEF HoldsInv, HoldsDb, McpSteps
  <2>3. at[q] = "mcp.append" => kept \subseteq kept'
    BY <2>2
  <2>4. at[q] = "cli.append" => OnChain' = OnChain
    BY <2>2
  <2>5. at[q] \in Unwritten => ToSet(job[q].ids) \cap new = {}
    BY <1>2 DEF Unwritten, McpSteps
  <2>6. Target(q)' = Target(q)
    BY <1>1, <1>2 DEF Target
  <2>7. at[q] = "other.put" => nlock.ex = q
    BY DEF HoldsInv, HoldsEx
  <2>8. at[q] = "other.put" => drawn' \subseteq drawn \cup McpIds
    BY <1>2, <2>7
  <2>9. McpIds \cap OtherIds = {}
    BY LocalAssumption
  <2> HIDE DEF ToSet
  <2> QED BY <1>1, <1>2, <2>1, <2>3, <2>4, <2>5, <2>6, <2>8, <2>9 DEF JobOk
<1>3. \A q \in Procs : JobOk(q)'
  BY <1>2
<1>4. OnChain' \cap Nonces \subseteq drawn' \cap McpIds
  BY DEF JobInv
<1>5. \A q, r \in Procs : q # r /\ at'[q] \in McpSteps /\ at'[r] \in McpSteps =>
                             ToSet(job'[q].ids) \cap ToSet(job'[r].ids) = {}
  BY <1>1 DEF JobInv
<1>6. job' \in [Procs -> Job]
  <2>1. j \in Job
    BY <1>1 DEF JobOk
  <2> QED BY <2>1 DEF JobInv
<1> QED BY <1>3, <1>4, <1>5, <1>6 DEF JobInv

\* A step of p that leaves the chain and what was told as they are.
LEMMA JobQuiet ==
    ASSUME HoldsInv, JobInv, NEW p \in Procs, NEW l \in Labels, at' = [at EXCEPT ![p] = l],
           NEW j, job' = [job EXCEPT ![p] = j], JobOk(p)', rows' = rows, drawn' = drawn, kept' = kept,
           l \in McpSteps => at[p] \in McpSteps /\ j.ids = job[p].ids
    PROVE  JobInv'
<1>1. PICK new : new = {}
  OBVIOUS
<1>4. /\ OnChain' = OnChain \cup new /\ new \cap Nonces \subseteq drawn \cap McpIds
      /\ \A q \in Procs : ToSet(job[q].ids) \cap new = {}
  BY <1>1 DEF OnChain, Seqs
<1>2. l \in McpSteps => \A q \in Procs : q # p /\ at[q] \in McpSteps => ToSet(job[q].ids) \cap ToSet(j.ids) = {}
  BY DEF JobInv
<1>3. drawn \subseteq Nonces /\ kept \subseteq drawn
  BY DEF JobInv
<1> HIDE DEF ToSet
<1> QED BY <1>1, <1>2, <1>3, <1>4, JobStep

\* A process that works on nothing, gives an answer, or discloses.
Resting == {"idle", "ready", "answer", "disclose", "disclose.get"}

LEMMA JobRests ==
    ASSUME HoldsInv, NEW p \in Procs, NEW l \in Resting, at' = [at EXCEPT ![p] = l],
           job'[p] \in Job, job'[p].done <= Len(job'[p].ids)
    PROVE  JobOk(p)'
BY DEF HoldsInv, JobOk, Resting, McpSteps, ForgetSteps, Unwritten

LEMMA ChainSame == ChainInv /\ rows' = rows => ChainInv'
<1> SUFFICES ASSUME ChainInv, rows' = rows PROVE ChainInv'
  OBVIOUS
<1>1. Seqs' = Seqs /\ NextSeq' = NextSeq /\ TailHash' = TailHash
  BY DEF Seqs, NextSeq, TailSeq, TailHash
<1> QED BY <1>1 DEF ChainInv

\* newEntryID: the ids of a call are its own.
LEMMA NewIdsFresh ==
    ASSUME NEW n \in Nat, n <= Cardinality(McpIds \ drawn)
    PROVE  /\ NewIds(n) \in Seq(Nat) /\ Len(NewIds(n)) = n /\ Rising(NewIds(n))
           /\ ToSet(NewIds(n)) \subseteq McpIds \ drawn
<1> DEFINE S == McpIds \ drawn
<1>1. IsFiniteSet(S) /\ S \subseteq Nat
  BY LocalAssumption, FS_Subset
<1> HIDE DEF S
<1>2. PICK s : s = InOrder(S)
  OBVIOUS
<1>3. /\ s \in Seq(S) /\ Len(s) = Cardinality(S) /\ Cardinality(S) \in Nat
      /\ \A i, j \in 1..Cardinality(S) : i < j => s[i] < s[j]
  BY <1>1, <1>2, InOrderIds
<1>4. PICK t : t = SubSeq(s, 1, n)
  OBVIOUS
<1>5. n <= Cardinality(S)
  BY DEF S
<1>6. t \in Seq(S) /\ Len(t) = n /\ \A i \in 1..n : t[i] = s[i]
  <2>1. t = [i \in 1..n |-> s[i]]
    BY <1>3, <1>4
  <2>2. \A i \in 1..n : s[i] \in S
    BY <1>3, <1>5
  <2> QED BY <2>1, <2>2
<1>7. Rising(t)
  <2>1. \A i \in 1..n : i \in 1..Cardinality(S)
    BY <1>3, <1>5
  <2> QED BY <1>3, <1>6, <2>1 DEF Rising
<1>8. ToSet(t) \subseteq S /\ t \in Seq(Nat)
  <2>1. DOMAIN t = 1..n /\ \A i \in 1..n : t[i] \in S
    BY <1>6
  <2>2. ToSet(t) \subseteq S
    BY <2>1, Zenon DEF ToSet
  <2>3. \A i \in 1..n : t[i] \in Nat
    BY <1>1, <2>1
  <2> QED BY <1>6, <2>2, <2>3
<1> QED BY <1>2, <1>4, <1>6, <1>7, <1>8 DEF NewIds, S

LEMMA JobCall == ASSUME HoldsInv, JobInv, NEW p \in Procs, McpCall(p) PROVE JobInv'
<1>1. PICK c \in Calls : /\ Len(c) <= Cardinality(McpIds \ drawn)
                         /\ drawn' = drawn \cup ToSet(NewIds(Len(c)))
                         /\ job' = [job EXCEPT ![p] = Prepared(c, NewIds(Len(c)))]
  BY DEF McpCall
<1>2. PICK ids : ids = NewIds(Len(c))
  OBVIOUS
<1>3. PICK j : j = Prepared(c, ids)
  OBVIOUS
<1>4. ids \in Seq(Nat) /\ Len(ids) = Len(c) /\ Rising(ids) /\ ToSet(ids) \subseteq McpIds \ drawn /\ c \in Seq(BOOLEAN)
  <2>1. c \in Seq(BOOLEAN) /\ Len(c) \in Nat
    BY LocalAssumption
  <2> QED BY <1>1, <1>2, <2>1, NewIdsFresh
<1>5. j.salted \subseteq ToSet(ids) /\ j.ids = ids /\ j.done = 0 /\ j \in Job
  <2>1. DOMAIN c = 1..Len(c) /\ DOMAIN ids = 1..Len(ids) /\ Len(ids) = Len(c)
    BY <1>4
  <2>2. j = [ids |-> ids, salted |-> {ids[i] : i \in {k \in DOMAIN c : c[k]}}, prev |-> <<>>, done |-> 0,
             ok |-> FALSE, first |-> 0]
    BY <1>3 DEF Prepared, NoJob
  <2>3. {ids[i] : i \in {k \in DOMAIN c : c[k]}} \subseteq ToSet(ids)
    BY <2>1 DEF ToSet
  <2>4. ToSet(ids) \subseteq Nat
    BY <1>4, LocalAssumption
  <2> QED BY <1>4, <2>2, <2>3, <2>4 DEF Job
<1>6. /\ at' = [at EXCEPT ![p] = "mcp.open"] /\ rows' = rows /\ kept' = kept
      /\ job' = [job EXCEPT ![p] = j] /\ drawn' = drawn \cup ToSet(ids)
  BY <1>1, <1>2, <1>3 DEF McpCall, Goto, dbVars
<1>7. at'[p] = "mcp.open" /\ job'[p] = j /\ OnChain' = OnChain
  BY <1>6 DEF HoldsInv, JobInv, OnChain, Seqs
<1>8. ToSet(ids) \cap OnChain = {}
  BY <1>4 DEF JobInv, Nonces
<1>9. JobOk(p)'
  <2> HIDE DEF ToSet
  <2> QED BY <1>4, <1>5, <1>6, <1>7, <1>8 DEF JobOk, McpSteps, ForgetSteps
<1>10. PICK new : new = {}
  OBVIOUS
<1>11. ASSUME NEW q \in Procs, q # p, at[q] \in McpSteps PROVE ToSet(job[q].ids) \cap ToSet(j.ids) = {}
  <2>1. ToSet(job[q].ids) \subseteq drawn
    BY <1>11 DEF JobInv, JobOk
  <2> QED BY <1>4, <1>5, <2>1
<1>12. drawn \subseteq Nonces /\ kept \subseteq drawn /\ "mcp.open" \in Labels
  BY DEF JobInv, Labels, McpSteps
<1>13. /\ OnChain' = OnChain \cup new /\ new \cap Nonces \subseteq drawn \cap McpIds
       /\ \A q \in Procs : ToSet(job[q].ids) \cap new = {}
       /\ drawn \subseteq drawn' /\ drawn' \subseteq Nonces /\ kept' \subseteq drawn'
       /\ drawn' \subseteq drawn \cup McpIds /\ kept \subseteq kept'
  BY <1>4, <1>6, <1>7, <1>10, <1>12 DEF Nonces
<1> HIDE DEF ToSet
<1> QED BY <1>6, <1>9, <1>10, <1>11, <1>12, <1>13, JobStep

LEMMA JobAnswers ==
    ASSUME HoldsInv, JobInv, NEW p \in Procs, NEW n \in Nat, n <= Len(job[p].ids), NEW ok \in BOOLEAN,
           Answer(p, job[p], n, ok)
    PROVE  \E j : j.ids = job[p].ids /\ job' = [job EXCEPT ![p] = j] /\ at' = [at EXCEPT ![p] = "answer"] /\ JobOk(p)'
<1>1. PICK j : j = [job[p] EXCEPT !.done = n, !.ok = ok]
  OBVIOUS
<1>2. job[p] \in Job /\ job \in [Procs -> Job]
  BY DEF JobInv
<1>3. j \in Job /\ j.done <= Len(j.ids) /\ j.ids = job[p].ids
  BY <1>1, <1>2 DEF Job
<1>4. job' = [job EXCEPT ![p] = j] /\ at' = [at EXCEPT ![p] = "answer"]
  BY <1>1 DEF Answer, Goto
<1>5. job'[p] = j /\ "answer" \in Resting
  BY <1>2, <1>4 DEF Resting
<1>6. JobOk(p)'
  BY <1>3, <1>4, <1>5, JobRests
<1> QED BY <1>3, <1>4, <1>6

LEMMA JobAnswersQuiet ==
    ASSUME HoldsInv, JobInv, NEW p \in Procs, NEW ok \in BOOLEAN, NEW n \in Nat, n <= Len(job[p].ids),
           Answer(p, job[p], n, ok), rows' = rows, drawn' = drawn, kept' = kept
    PROVE  JobInv'
<1>1. PICK j : j.ids = job[p].ids /\ job' = [job EXCEPT ![p] = j] /\ at' = [at EXCEPT ![p] = "answer"] /\ JobOk(p)'
  BY JobAnswers
<1>2. "answer" \in Labels /\ "answer" \notin McpSteps
  BY DEF Labels, McpSteps
<1> QED BY <1>1, <1>2, JobQuiet

\* A process goes on, or stops working, beside the chain.
LEMMA JobGoes ==
    ASSUME HoldsInv, JobInv, NEW p \in Procs, NEW l \in Labels, at' = [at EXCEPT ![p] = l],
           rows' = rows, drawn' = drawn, kept' = kept,
           \/ job' = job /\ (l \in McpSteps => at[p] \in McpSteps) /\ (l \in Unwritten => at[p] \in Unwritten)
                         /\ (l = "mcp.append" => job[p].salted \subseteq kept)
                         /\ l \notin {"cli.append", "other.put"} /\ (l \in ForgetSteps => at[p] \in ForgetSteps)
           \/ job' = [job EXCEPT ![p] = NoJob] /\ l \in Resting
    PROVE  JobInv'
<1>1. at'[p] = l /\ OnChain' = OnChain
  BY DEF HoldsInv, OnChain, Seqs
<1>2. CASE /\ job' = job /\ (l \in McpSteps => at[p] \in McpSteps) /\ (l \in Unwritten => at[p] \in Unwritten)
           /\ (l = "mcp.append" => job[p].salted \subseteq kept)
           /\ l \notin {"cli.append", "other.put"} /\ (l \in ForgetSteps => at[p] \in ForgetSteps)
  <2>1. job' = [job EXCEPT ![p] = job[p]]
    BY <1>2 DEF JobInv
  <2>2. JobOk(p)'
    BY <1>1, <1>2 DEF JobInv, JobOk, Target
  <2> QED BY <1>2, <2>1, <2>2, JobQuiet
<1>3. CASE job' = [job EXCEPT ![p] = NoJob] /\ l \in Resting
  <2>1. job'[p] = NoJob /\ NoJob \in Job /\ NoJob.done <= Len(NoJob.ids)
    BY <1>3 DEF JobInv, NoJob, Job
  <2>2. JobOk(p)' /\ l \notin McpSteps
    BY <1>3, <2>1, JobRests DEF Resting, McpSteps
  <2> QED BY <1>3, <2>2, JobQuiet
<1> QED BY <1>2, <1>3

LEMMA JobMcp ==
    ASSUME HoldsInv, ChainInv, JobInv, NEW p \in Procs, Launch(p) \/ McpOpen(p) \/ McpNonces(p) \/ McpForget(p) PROVE JobInv'
<1> USE DEF Goto, McpSteps, ForgetSteps, Labels, Unwritten, Resting, told, dbVars
<1>0. 0 \in Nat /\ 0 <= Len(job[p].ids) /\ FALSE \in BOOLEAN
  BY DEF JobInv, Job
<1>1. CASE Launch(p) BY <1>1, JobGoes DEF Launch
<1>2. CASE McpOpen(p)
  <2>1. CASE Goto(p, AfterOpen(job[p])) /\ job' = [job EXCEPT ![p].first = NextSeq] /\ OpenDb(p)
    <3>1. PICK l, j : l = AfterOpen(job[p]) /\ j = [job[p] EXCEPT !.first = NextSeq]
      OBVIOUS
    <3>2. job' = [job EXCEPT ![p] = j] /\ at' = [at EXCEPT ![p] = l] /\ at[p] = "mcp.open" /\ rows' = rows
          /\ drawn' = drawn /\ kept' = kept
      BY <1>2, <2>1, <3>1 DEF McpOpen
    <3>3. JobOk(p) /\ job[p] \in Job /\ NextSeq \in Nat
      BY DEF JobInv, ChainInv
    <3>4. j \in Job /\ j.ids = job[p].ids /\ j.salted = job[p].salted /\ j.done = job[p].done
      BY <3>1, <3>3 DEF Job
    <3>5. l = "mcp.nonces" \/ (l = "mcp.append" /\ j.salted = {})
      BY <3>1, <3>4 DEF AfterOpen
    <3>6. job'[p] = j /\ at'[p] = l /\ OnChain' = OnChain
      BY <3>2 DEF HoldsInv, JobInv, OnChain, Seqs
    <3>7. JobOk(p)'
      BY <3>2, <3>3, <3>4, <3>5, <3>6 DEF JobOk
    <3> QED BY <3>2, <3>4, <3>5, <3>7, JobQuiet
  <2>2. CASE Goto(p, "ready") /\ job' = [job EXCEPT ![p] = NoJob] BY <1>2, <2>2, JobGoes DEF McpOpen
  <2> QED BY <1>2, <2>1, <2>2 DEF McpOpen
<1>3. CASE McpNonces(p)
  <2>1. CASE Goto(p, "mcp.put") /\ job' = job BY <1>3, <2>1, JobGoes DEF McpNonces
  <2>2. CASE Answer(p, job[p], 0, FALSE) BY <1>0, <1>3, <2>2, JobAnswersQuiet DEF McpNonces
  <2> QED BY <1>3, <2>1, <2>2 DEF McpNonces
<1>4. CASE McpForget(p)
  <2>1. CASE Goto(p, "mcp.delete") /\ job' = job
    <3>1. "mcp.delete" \in Unwritten => at[p] \in Unwritten
      BY <1>4 DEF McpForget
    <3> QED BY <1>4, <2>1, <3>1, JobGoes DEF McpForget
  <2>2. CASE Answer(p, job[p], 0, FALSE) BY <1>0, <1>4, <2>2, JobAnswersQuiet DEF McpForget
  <2> QED BY <1>4, <2>1, <2>2 DEF McpForget
<1> QED BY <1>1, <1>2, <1>3, <1>4

\* A batch in order behind the chain: what p writes is new, and p's alone.
LEMMA JobAppends ==
    ASSUME HoldsInv, JobInv, NEW p \in Procs, NEW l \in Labels, at' = [at EXCEPT ![p] = l],
           NEW j, job' = [job EXCEPT ![p] = j], JobOk(p)', dblock \in {p, None},
           NEW new, OnChain' = OnChain \cup new, new \cap Nonces \subseteq drawn \cap McpIds,
           \A q \in Procs : q # p /\ at[q] \in McpSteps => ToSet(job[q].ids) \cap new = {},
           l \in McpSteps => at[p] \in McpSteps /\ j.ids = job[p].ids,
           drawn' = drawn, kept' = kept
    PROVE  JobInv'
<1>1. l \in McpSteps => \A q \in Procs : q # p /\ at[q] \in McpSteps => ToSet(job[q].ids) \cap ToSet(j.ids) = {}
  BY DEF JobInv
<1>2. drawn \subseteq Nonces /\ kept \subseteq drawn
  BY DEF JobInv
<1> HIDE DEF ToSet
<1> QED BY <1>1, <1>2, JobStep

LEMMA JobMcpAppend ==
    ASSUME HoldsInv, ChainInv, JobInv, NEW p \in Procs, McpAppend(p)
    PROVE  /\ JobInv' /\ ChainInv'
           /\ Same \/ Adds(TailHash, job[p].ids, job[p].salted, "mcp")
<1> DEFINE j == job[p]
<1>1. at[p] = "mcp.append" /\ drawn' = drawn /\ kept' = kept /\ asked' = asked /\ forgot' = forgot /\ dblock = p
  BY DEF McpAppend, told, HoldsInv, HoldsDb, McpSteps
<1>2. /\ j \in Job /\ Rising(j.ids) /\ ToSet(j.ids) \subseteq drawn \cap McpIds /\ j.salted \subseteq kept
      /\ j.ids \in Seq(Nat) /\ Len(j.ids) \in Nat
  BY <1>1 DEF JobInv, JobOk, McpSteps, Job
<1> HIDE DEF j
<1>3. ASSUME NEW q \in Procs, q # p, at[q] \in McpSteps PROVE ToSet(job[q].ids) \cap ToSet(j.ids) = {}
  BY <1>1, <1>3 DEF JobInv, McpSteps, j
<1>4. ChainInv' /\ (Same \/ Adds(TailHash, j.ids, j.salted, "mcp"))
  <2>1. CASE AppendFails
    BY <2>1, ChainSame DEF AppendFails, Same
  <2>2. CASE Appended(j.ids, j.salted, "mcp") \/ AppendLands(j.ids, j.salted, "mcp")
    BY <1>2, <2>2, AppendExtends
  <2> QED BY <2>1, <2>2 DEF McpAppend, j
<1>5. ASSUME NEW l \in Labels, at' = [at EXCEPT ![p] = l], NEW k, k.ids = j.ids, job' = [job EXCEPT ![p] = k], JobOk(p)'
      PROVE  JobInv'
  <2>1. at[p] \in McpSteps /\ k.ids = job[p].ids
    BY <1>1, <1>5 DEF McpSteps, j
  <2>2. CASE Same
    BY <1>1, <1>5, <2>1, <2>2, JobQuiet DEF Same
  <2>3. CASE Adds(TailHash, j.ids, j.salted, "mcp")
    <3>1. PICK new : new = ToSet(j.ids)
      OBVIOUS
    <3>2. OnChain' = OnChain \cup new
      BY <2>3, <3>1 DEF Adds, Extended
    <3>3. \A q \in Procs : q # p /\ at[q] \in McpSteps => ToSet(job[q].ids) \cap new = {}
      BY <1>3, <3>1
    <3>4. new \cap Nonces \subseteq drawn \cap McpIds
      BY <1>2, <3>1
    <3> QED BY <1>1, <1>5, <2>1, <3>2, <3>3, <3>4, JobAppends
  <2> QED BY <1>4, <2>2, <2>3
<1>6. ASSUME NEW n \in {0, Len(j.ids)}, NEW ok \in BOOLEAN, Answer(p, j, n, ok) PROVE JobInv'
  <2>1. n \in Nat /\ n <= Len(j.ids)
    BY <1>2
  <2>2. PICK k : k.ids = j.ids /\ job' = [job EXCEPT ![p] = k] /\ at' = [at EXCEPT ![p] = "answer"] /\ JobOk(p)'
    BY <1>6, <2>1, JobAnswers DEF j
  <2>3. "answer" \in Labels
    BY DEF Labels
  <2> QED BY <1>5, <2>2, <2>3
<1>7. ASSUME AppendFails \/ AppendLands(j.ids, j.salted, "mcp"), Goto(p, "mcp.forget"), UNCHANGED job
      PROVE  JobInv'
  <2>1. /\ at' = [at EXCEPT ![p] = "mcp.forget"] /\ job' = [job EXCEPT ![p] = j] /\ at'[p] = "mcp.forget"
        /\ job'[p] = j /\ "mcp.forget" \in Labels /\ "mcp.forget" \in McpSteps /\ at[p] \in McpSteps
    BY <1>1, <1>7 DEF Goto, JobInv, HoldsInv, Labels, McpSteps, j
  <2>2. Landed \/ OnChain' = OnChain
    BY <1>7 DEF AppendFails, AppendLands, OnChain, Seqs
  <2>3. JobOk(p)
    BY DEF JobInv
  <2>4. JobOk(p)'
    BY <1>1, <2>1, <2>2, <2>3 DEF JobOk, Unwritten, McpSteps, ForgetSteps, j
  <2> QED BY <1>5, <2>1, <2>4
<1>8. JobInv'
  <2>1. CASE Appended(j.ids, j.salted, "mcp") /\ Answer(p, j, Len(j.ids), TRUE)
    BY <1>6, <2>1
  <2>2. CASE Answer(p, j, 0, FALSE)
    BY <1>6, <2>2
  <2> QED BY <1>7, <2>1, <2>2 DEF McpAppend, j
<1> QED BY <1>4, <1>8 DEF j

\* The nonces of a call are stored, or taken back, while its server holds the database.
LEMMA JobPut ==
    ASSUME HoldsInv, JobInv, NEW p \in Procs, McpPut(p) \/ McpDelete(p)
    PROVE  JobInv'
<1> DEFINE j == job[p]
<1>1. /\ dblock = p /\ rows' = rows /\ drawn' = drawn /\ OnChain' = OnChain /\ at[p] \in McpSteps
      /\ j \in Job /\ JobOk(p)
  <2>1. at[p] \in {"mcp.put", "mcp.delete"} /\ rows' = rows /\ drawn' = drawn
    BY DEF McpPut, McpDelete, dbVars
  <2>2. dblock = p /\ at[p] \in McpSteps
    BY <2>1 DEF HoldsInv, HoldsDb, McpSteps
  <2>3. OnChain' = OnChain /\ j \in Job /\ JobOk(p)
    BY <2>1 DEF JobInv, OnChain, Seqs
  <2> QED BY <2>1, <2>2, <2>3
<1>2. j.salted \subseteq drawn /\ drawn \subseteq Nonces /\ kept \subseteq drawn
  BY <1>1 DEF JobOk, JobInv
<1>3. PICK new : new = {}
  OBVIOUS
<1>4. /\ OnChain' = OnChain \cup new /\ new \cap Nonces \subseteq drawn \cap McpIds
      /\ \A q \in Procs : ToSet(job[q].ids) \cap new = {}
  BY <1>1, <1>3
<1>5. ASSUME NEW l \in Labels, at' = [at EXCEPT ![p] = l], NEW k, k.ids = j.ids, job' = [job EXCEPT ![p] = k],
             JobOk(p)', kept' \subseteq drawn
      PROVE  JobInv'
  <2>1. l \in McpSteps => \A q \in Procs : q # p /\ at[q] \in McpSteps => ToSet(job[q].ids) \cap ToSet(k.ids) = {}
    BY <1>1, <1>5 DEF JobInv
  <2> HIDE DEF ToSet
  <2> QED BY <1>1, <1>2, <1>3, <1>4, <1>5, <2>1, JobStep
<1>6. ASSUME Answer(p, j, 0, FALSE), kept' \subseteq drawn PROVE JobInv'
  <2>1. 0 \in Nat /\ 0 <= Len(j.ids) /\ FALSE \in BOOLEAN /\ "answer" \in Labels
    BY <1>1 DEF Job, Labels
  <2>2. PICK k : k.ids = j.ids /\ job' = [job EXCEPT ![p] = k] /\ at' = [at EXCEPT ![p] = "answer"] /\ JobOk(p)'
    BY <1>6, <2>1, JobAnswers
  <2> QED BY <1>5, <1>6, <2>1, <2>2
<1>7. CASE McpDelete(p)
  BY <1>2, <1>6, <1>7 DEF McpDelete
<1>8. CASE McpPut(p)
  <2>1. CASE kept' = kept \cup j.salted /\ Goto(p, "mcp.append") /\ UNCHANGED <<job, faults>>
    <3>1. /\ at' = [at EXCEPT ![p] = "mcp.append"] /\ job' = [job EXCEPT ![p] = j] /\ at'[p] = "mcp.append"
          /\ job'[p] = j /\ "mcp.append" \in Labels /\ at[p] \in Unwritten
      BY <1>8, <2>1 DEF McpPut, Goto, JobInv, HoldsInv, Labels, McpSteps, Unwritten
    <3>2. JobOk(p)'
      BY <1>1, <2>1, <3>1 DEF JobOk, McpSteps, ForgetSteps
    <3> QED BY <1>2, <1>5, <2>1, <3>1, <3>2
  <2>2. CASE Answer(p, j, 0, FALSE) /\ UNCHANGED kept
    BY <1>2, <1>6, <2>2
  <2> QED BY <1>8, <2>1, <2>2 DEF McpPut
<1> QED BY <1>7, <1>8

LEMMA JobEnds ==
    ASSUME HoldsInv, JobInv, NEW p \in Procs,
           GiveAnswer(p) \/ Stop(p) \/ Kill(p) \/ DiscloseOpen(p) \/ DiscloseGet(p)
    PROVE  JobInv'
<1> USE DEF Goto, McpSteps, ForgetSteps, Labels, Unwritten, Resting, told, dbVars
<1>1. CASE GiveAnswer(p)
  <2>1. PICK l \in {"ready", "idle"} : at' = [at EXCEPT ![p] = l]
    BY <1>1 DEF GiveAnswer
  <2> QED BY <1>1, <2>1, JobGoes DEF GiveAnswer
<1>2. CASE Stop(p) BY <1>2, JobGoes DEF Stop
<1>3. CASE Kill(p) BY <1>3, JobGoes DEF Kill
<1>4. CASE DiscloseOpen(p)
  <2>1. CASE Goto(p, "disclose.get") /\ UNCHANGED <<job, faults>> BY <1>4, <2>1, JobGoes DEF DiscloseOpen
  <2>2. CASE Goto(p, "idle") /\ job' = [job EXCEPT ![p] = NoJob] BY <1>4, <2>2, JobGoes DEF DiscloseOpen
  <2> QED BY <1>4, <2>1, <2>2 DEF DiscloseOpen
<1>5. CASE DiscloseGet(p) BY <1>5, JobGoes DEF DiscloseGet
<1> QED BY <1>1, <1>2, <1>3, <1>4, <1>5

\* disclose and forget read the chain: what they are asked for is on it.
LEMMA JobReads ==
    ASSUME HoldsInv, ChainInv, JobInv, NEW p \in Procs, NEW id, DiscloseRead(p, id) \/ ForgetRead(p, id)
    PROVE  JobInv'
<1>1. PICK j : j = [NoJob EXCEPT !.ids = <<id>>]
  OBVIOUS
<1>2. id \in Nat
  <2>1. id \in OnChain
    BY DEF DiscloseRead, ForgetRead
  <2> QED BY <2>1 DEF OnChain, ChainInv, Row
<1>3. j \in Job /\ j.done <= Len(j.ids) /\ j.ids = <<id>> /\ j.ids[1] = id
  <2>1. j = [ids |-> <<id>>, salted |-> {}, prev |-> <<>>, done |-> 0, ok |-> FALSE, first |-> 0]
    BY <1>1 DEF NoJob
  <2>2. <<id>> \in Seq(Nat) /\ Len(<<id>>) = 1 /\ <<id>>[1] = id
    BY <1>2
  <2>3. j \in Job
    BY <2>1, <2>2 DEF Job
  <2> QED BY <2>1, <2>2, <2>3
<1>4. PICK l \in {"disclose", "forget"} : at' = [at EXCEPT ![p] = l]
  BY DEF DiscloseRead, ForgetRead, Goto
<1>5. /\ job' = [job EXCEPT ![p] = j] /\ at'[p] = l /\ job'[p] = j /\ rows' = rows /\ drawn' = drawn /\ kept' = kept
      /\ id \in OnChain'
  BY <1>1, <1>4 DEF DiscloseRead, ForgetRead, told, dbVars, HoldsInv, JobInv, OnChain, Seqs
<1>6. JobOk(p)' /\ l \in Labels /\ l \notin McpSteps
  <2>1. l \in Labels /\ l \notin McpSteps /\ l \notin Unwritten /\ l \notin {"mcp.append", "cli.append", "other.put"}
    BY <1>4 DEF Labels, McpSteps, ForgetSteps, Unwritten
  <2>2. Target(p)' = id
    BY <1>3, <1>5 DEF Target
  <2> QED BY <1>3, <1>5, <2>1, <2>2 DEF JobOk
<1> QED BY <1>4, <1>5, <1>6, JobQuiet

LEMMA JobForgets ==
    ASSUME HoldsInv, JobInv, NEW p \in Procs,
           \/ ForgetOpenDb(p) \/ ForgetOpen(p) \/ ForgetDelete(p)
           \/ ForgetCompact(p) \/ ForgetCopy(p) \/ ForgetRename(p)
    PROVE  JobInv'
<1>1. ASSUME ForgetEnds(p, TRUE) \/ ForgetEnds(p, FALSE) PROVE JobInv'
  <2>1. /\ at' = [at EXCEPT ![p] = "idle"] /\ job' = [job EXCEPT ![p] = NoJob] /\ rows' = rows /\ drawn' = drawn
        /\ kept' = kept
    BY <1>1 DEF ForgetEnds, Goto
  <2> QED BY <2>1, JobGoes DEF Resting, Labels
<1>2. ASSUME NEW l \in ForgetSteps, Goto(p, l), UNCHANGED <<rows, job, drawn, kept>>, at[p] \in ForgetSteps PROVE JobInv'
  BY <1>2, JobGoes DEF Goto, Labels, McpSteps, ForgetSteps, Unwritten
<1> USE DEF told, dbVars
<1>3. CASE ForgetOpenDb(p) BY <1>1, <1>2, <1>3 DEF ForgetOpenDb, ForgetSteps
<1>4. CASE ForgetOpen(p) BY <1>1, <1>2, <1>4 DEF ForgetOpen, ForgetSteps
<1>5. CASE ForgetDelete(p) BY <1>1, <1>2, <1>5 DEF ForgetDelete, ForgetSteps
<1>6. CASE ForgetCompact(p) BY <1>1, <1>2, <1>6 DEF ForgetCompact, ForgetSteps
<1>7. CASE ForgetCopy(p) BY <1>1, <1>2, <1>7 DEF ForgetCopy, ForgetSteps
<1>8. CASE ForgetRename(p) BY <1>1, <1>8 DEF ForgetRename
<1> QED BY <1>3, <1>4, <1>5, <1>6, <1>7, <1>8

\* Another caller stores a nonce of its own, which it drew.
LEMMA JobOther == ASSUME HoldsInv, JobInv, NEW p \in Procs, OtherOpen(p) \/ OtherPut(p) PROVE JobInv'
<1>1. CASE OtherOpen(p)
  <2>1. /\ at' = [at EXCEPT ![p] = "other.put"] /\ job' = [job EXCEPT ![p] = job[p]] /\ job' = job
        /\ rows' = rows /\ drawn' = drawn /\ kept' = kept /\ ~(OtherIds \subseteq drawn)
    BY <1>1 DEF OtherOpen, Goto, told, dbVars, JobInv
  <2>2. at'[p] = "other.put" /\ job[p] \in Job /\ job[p].done <= Len(job[p].ids)
    BY <2>1 DEF HoldsInv, JobInv, JobOk
  <2>3. JobOk(p)' /\ "other.put" \in Labels /\ "other.put" \notin McpSteps
    BY <2>1, <2>2 DEF JobOk, Labels, McpSteps, ForgetSteps, Unwritten
  <2> QED BY <2>1, <2>3, JobQuiet
<1>2. CASE OtherPut(p)
  <2>1. PICK id : id = CHOOSE i \in OtherIds \ drawn : TRUE
    OBVIOUS
  <2>2. /\ at' = [at EXCEPT ![p] = "idle"] /\ job' = [job EXCEPT ![p] = job[p]] /\ job' = job /\ rows' = rows
        /\ kept' = kept \cup {id} /\ drawn' = drawn \cup {id} /\ at[p] = "other.put"
    BY <1>2, <2>1 DEF OtherPut, Goto, dbVars, JobInv
  <2>3. nlock.ex = p /\ job[p] \in Job /\ job[p].done <= Len(job[p].ids) /\ ~(OtherIds \subseteq drawn)
    BY <2>2 DEF HoldsInv, HoldsEx, JobInv, JobOk
  <2>4. id \in OtherIds
    BY <2>1, <2>3
  <2>5. JobOk(p)' /\ "idle" \in Labels /\ "idle" \notin McpSteps
    BY <2>2, <2>3, JobRests DEF Labels, McpSteps, Resting
  <2>6. PICK new : new = {}
    OBVIOUS
  <2>7. /\ OnChain' = OnChain \cup new /\ new \cap Nonces \subseteq drawn \cap McpIds
        /\ \A q \in Procs : ToSet(job[q].ids) \cap new = {}
    BY <2>2, <2>6 DEF OnChain, Seqs
  <2>8. drawn \subseteq drawn' /\ drawn' \subseteq Nonces /\ kept' \subseteq drawn' /\ kept \subseteq kept'
    BY <2>2, <2>4 DEF JobInv, Nonces
  <2> HIDE DEF ToSet
  <2> QED BY <2>2, <2>3, <2>5, <2>6, <2>7, <2>8, JobStep
<1> QED BY <1>1, <1>2

LEMMA MinOfTwo == ASSUME NEW m \in Nat, NEW n \in Nat PROVE Min({m, n}) \in {m, n} /\ Min({m, n}) <= m /\ Min({m, n}) <= n
<1>1. \E x \in {m, n} : \A y \in {m, n} : x <= y
  OBVIOUS
<1> QED BY <1>1 DEF Min

\* Inputs in arrival order are no more than the inputs, and the same ids.
LEMMA OrderedIds ==
    ASSUME NEW ids \in Seq(Nat)
    PROVE  /\ Ordered(ids) \in Seq(Nat) /\ Rising(Ordered(ids)) /\ ToSet(Ordered(ids)) = ToSet(ids)
           /\ Len(Ordered(ids)) <= Len(ids)
<1> DEFINE S == ToSet(ids)
           f == [i \in 1..Len(ids) |-> ids[i]]
<1>1. Len(ids) \in Nat /\ DOMAIN ids = 1..Len(ids) /\ \A i \in 1..Len(ids) : ids[i] \in Nat
  OBVIOUS
<1>2. S = {ids[i] : i \in 1..Len(ids)} /\ S \subseteq Nat
  BY <1>1 DEF ToSet
<1>3. f \in Surjection(1..Len(ids), S)
  <2>1. f \in [1..Len(ids) -> S] /\ \A x \in S : \E i \in 1..Len(ids) : f[i] = x
    BY <1>2
  <2> QED BY <2>1 DEF Surjection
<1>4. IsFiniteSet(1..Len(ids)) /\ Cardinality(1..Len(ids)) = Len(ids)
  BY <1>1, FS_Interval
<1> HIDE DEF S, f
<1>5. IsFiniteSet(S) /\ Cardinality(S) <= Len(ids)
  BY <1>3, <1>4, FS_Surjection
<1>6. /\ InOrder(S) \in Seq(S) /\ Len(InOrder(S)) = Cardinality(S) /\ ToSet(InOrder(S)) = S
      /\ \A i, j \in 1..Cardinality(S) : i < j => InOrder(S)[i] < InOrder(S)[j]
  BY <1>2, <1>5, InOrderIds
<1>7. InOrder(S) \in Seq(Nat)
  <2>1. PICK s : s = InOrder(S)
    OBVIOUS
  <2> QED BY <1>2, <1>6, <2>1
<1> QED BY <1>5, <1>6, <1>7 DEF Ordered, Rising, S

LEMMA JobCommit == ASSUME HoldsInv, ChainInv, JobInv, NEW p \in Procs, CliCommit(p) PROVE JobInv'
<1>1. PICK ids \in Inputs :
         LET j == [NoJob EXCEPT !.ids = Ordered(ids), !.first = NextSeq] IN
         /\ Readable(ids) /\ Room(ids)
         /\ IF Held(ids) THEN Answer(p, [j EXCEPT !.ids = <<>>], 0, FALSE)
            ELSE Goto(p, "cli.append") /\ job' = [job EXCEPT ![p] = j]
  BY Zenon DEF CliCommit
<1>2. rows' = rows /\ drawn' = drawn /\ kept' = kept /\ OnChain' = OnChain
  BY DEF CliCommit, told, OnChain, Seqs
<1>o. PICK o : o = Ordered(ids)
  OBVIOUS
<1>3. PICK j : j = [NoJob EXCEPT !.ids = o, !.first = NextSeq]
  OBVIOUS
<1>4. /\ o \in Seq(Nat) /\ Rising(o) /\ ToSet(o) = ToSet(ids) /\ ToSet(ids) \cap Nonces = {} /\ NextSeq \in Nat
  <2>1. ids \in Seq(Nat) /\ ToSet(ids) \cap Nonces = {}
    BY LocalAssumption DEF Nonces
  <2> QED BY <1>o, <2>1, OrderedIds DEF ChainInv
<1>5. j = [ids |-> o, salted |-> {}, prev |-> <<>>, done |-> 0, ok |-> FALSE, first |-> NextSeq]
  BY <1>3 DEF NoJob
<1>6. j \in Job /\ j.done = 0 /\ j.ids = o /\ Len(o) \in Nat
  BY <1>4, <1>5 DEF Job
<1>7. CASE Answer(p, [j EXCEPT !.ids = <<>>], 0, FALSE)
  <2>1. PICK k : k = [[j EXCEPT !.ids = <<>>] EXCEPT !.done = 0, !.ok = FALSE]
    OBVIOUS
  <2>2. k = [ids |-> <<>>, salted |-> {}, prev |-> <<>>, done |-> 0, ok |-> FALSE, first |-> NextSeq]
    BY <1>5, <2>1
  <2>3. k \in Job /\ k.done <= Len(k.ids)
    BY <1>4, <2>2 DEF Job
  <2>4. at' = [at EXCEPT ![p] = "answer"] /\ job' = [job EXCEPT ![p] = k] /\ job'[p] = k
    BY <1>7, <2>1 DEF Answer, Goto, JobInv
  <2>5. JobOk(p)' /\ "answer" \in Labels /\ "answer" \notin McpSteps
    BY <2>3, <2>4, JobRests DEF Labels, McpSteps, Resting
  <2> QED BY <1>2, <2>4, <2>5, JobQuiet
<1>8. CASE ~Held(ids) /\ Goto(p, "cli.append") /\ job' = [job EXCEPT ![p] = j]
  <2>1. at' = [at EXCEPT ![p] = "cli.append"] /\ job'[p] = j /\ at'[p] = "cli.append"
    BY <1>8 DEF Goto, JobInv, HoldsInv
  <2>2. \A i \in 1..Len(o) : o[i] \notin OnChain
    <3>1. \A i \in 1..Len(o) : o[i] \in ToSet(o)
      BY <1>4 DEF ToSet
    <3> QED BY <1>4, <1>8, <3>1 DEF Held
  <2>3. JobOk(p)' /\ "cli.append" \in Labels /\ "cli.append" \notin McpSteps
    <3>1. "cli.append" \in Labels /\ "cli.append" \notin McpSteps \cup ForgetSteps \cup Unwritten
      BY DEF Labels, McpSteps, ForgetSteps, Unwritten
    <3> HIDE DEF ToSet
    <3> QED BY <1>2, <1>4, <1>6, <2>1, <2>2, <3>1 DEF JobOk
  <2> QED BY <1>2, <1>8, <2>1, <2>3, JobQuiet
<1> QED BY <1>1, <1>o, <1>3, <1>7, <1>8, Zenon

\* A batch of a commit, from its ids in order.
LEMMA BatchIs ==
    ASSUME NEW p \in Procs, job[p] \in Job, job[p].done <= Len(job[p].ids), Rising(job[p].ids)
    PROVE  \E b \in Seq(Nat), n \in Nat :
              /\ b = NextBatch(job[p]) /\ n = job[p].done + Len(b) /\ n <= Len(job[p].ids) /\ job[p].done <= n
              /\ Rising(b) /\ ToSet(b) \subseteq ToSet(job[p].ids)
              /\ \A i \in 1..Len(b) : b[i] = job[p].ids[job[p].done + i]
              /\ \A i \in 1..Len(job[p].ids) : i > n => job[p].ids[i] \notin ToSet(b)
              /\ job[p].done < Len(job[p].ids) => b # <<>>
<1>1. PICK ids \in Seq(Nat), d \in Nat : ids = job[p].ids /\ d = job[p].done
  BY DEF Job
<1>2. PICK L \in Nat : L = Len(ids) /\ d <= L
  BY <1>1
<1>3. PICK n \in Nat : n = Min({d + commitBatch, L}) /\ d <= n /\ n <= L /\ (d < L => d < n)
  <2>1. d + commitBatch \in Nat /\ d < d + commitBatch
    BY LocalAssumption
  <2> QED BY <1>2, <2>1, MinOfTwo
<1>b. PICK b : b = SubSeq(ids, d + 1, n)
  OBVIOUS
<1>4. b \in Seq(Nat) /\ Len(b) = n - d /\ \A i \in 1..(n - d) : b[i] = ids[d + i]
  <2>1. /\ d + 1 \in Nat /\ 1 <= d + 1 /\ d + 1 <= n + 1 /\ n <= Len(ids)
        /\ \A i \in 1..(n - d) : d + 1 + i - 1 = d + i
    BY <1>2, <1>3
  <2>2. n - (d + 1) + 1 = n - d
    BY <1>2, <1>3
  <2>3. /\ b \in Seq(Nat) /\ Len(b) = n - (d + 1) + 1
        /\ \A i \in 1..(n - (d + 1) + 1) : b[i] = ids[d + 1 + i - 1]
    BY <1>b, <2>1, Part
  <2>4. /\ b \in Seq(Nat) /\ Len(b) = n - d
        /\ \A i \in 1..(n - d) : b[i] = ids[d + 1 + i - 1]
    BY <2>2, <2>3
  <2> QED BY <2>1, <2>4
<1>5. \A i, k \in 1..L : i < k => ids[i] < ids[k]
  BY <1>1, <1>2 DEF Rising
<1>6. DOMAIN b = 1..(n - d) /\ n - d \in Nat /\ DOMAIN ids = 1..L /\ \A i \in 1..L : ids[i] \in Nat
  <2>1. DOMAIN ids = 1..L /\ \A i \in 1..L : ids[i] \in Nat
    BY <1>2
  <2>2. n - d \in Nat
    BY <1>3
  <2>3. DOMAIN b = 1..Len(b)
    BY <1>4
  <2> QED BY <1>4, <2>1, <2>2, <2>3
<1>7. \A i \in 1..(n - d) : d + i \in 1..L /\ d + i <= n
  BY <1>2, <1>3
<1>8. Rising(b)
  <2>1. ASSUME NEW i \in 1..(n - d), NEW k \in 1..(n - d), i < k PROVE b[i] < b[k]
    <3>0. i \in Nat /\ k \in Nat /\ d + i < d + k
      BY <1>6, <2>1
    <3>1. d + i \in 1..L /\ d + k \in 1..L /\ d + i < d + k
      BY <1>7, <3>0
    <3> QED BY <1>4, <1>5, <3>1
  <2> QED BY <1>4, <2>1 DEF Rising
<1>9. ASSUME NEW x \in ToSet(b) PROVE \E i \in 1..(n - d) : x = ids[d + i]
  BY <1>4, <1>6 DEF ToSet
<1>10. ToSet(b) \subseteq ToSet(ids)
  <2>1. \A i \in 1..(n - d) : ids[d + i] \in ToSet(ids)
    BY <1>6, <1>7, Zenon DEF ToSet
  <2> QED BY <1>9, <2>1
<1>11. ASSUME NEW i \in 1..L, i > n PROVE ids[i] \notin ToSet(b)
  <2>1. ASSUME NEW k \in 1..(n - d) PROVE ids[i] # ids[d + k]
    <3>1. d + k \in 1..L /\ d + k < i
      BY <1>3, <1>7, <1>11
    <3>2. ids[d + k] < ids[i] /\ ids[d + k] \in Nat /\ ids[i] \in Nat
      BY <1>5, <1>6, <3>1
    <3> QED BY <3>2
  <2> QED BY <1>9, <2>1
<1>12. b = NextBatch(job[p]) /\ n = d + Len(b)
  BY <1>1, <1>2, <1>3, <1>b, <1>4 DEF NextBatch
<1>13. d < L => b # <<>>
  <2>1. d < L => n - d # 0
    BY <1>3
  <2> QED BY <1>4, <2>1
<1> QED BY <1>1, <1>2, <1>3, <1>4, <1>8, <1>10, <1>11, <1>12, <1>13

\* One batch of a commit: its ids are off the chain, and those of later batches stay off it.
LEMMA JobCliAppend ==
    ASSUME HoldsInv, ChainInv, JobInv, NEW p \in Procs, CliAppend(p)
    PROVE  /\ JobInv' /\ ChainInv'
           /\ Same \/ (ToSet(NextBatch(job[p])) \cap OnChain = {} /\ Adds(TailHash, NextBatch(job[p]), {}, "cli"))
<1>1. at[p] = "cli.append" /\ drawn' = drawn /\ kept' = kept /\ asked' = asked /\ forgot' = forgot /\ dblock = p
  BY DEF CliAppend, told, HoldsInv, HoldsDb, McpSteps
<1>j. PICK j : j = job[p]
  OBVIOUS
<1>2. /\ j \in Job /\ j.done <= Len(j.ids) /\ j.done \in Nat /\ j.ids \in Seq(Nat) /\ Len(j.ids) \in Nat /\ Rising(j.ids)
      /\ ToSet(j.ids) \cap Nonces = {} /\ \A i \in 1..Len(j.ids) : i > j.done => j.ids[i] \notin OnChain
  BY <1>1, <1>j DEF JobInv, JobOk, Job
<1>3. PICK b \in Seq(Nat), n \in Nat :
         /\ b = NextBatch(j) /\ n = j.done + Len(b) /\ n <= Len(j.ids) /\ j.done <= n
         /\ Rising(b) /\ ToSet(b) \subseteq ToSet(j.ids)
         /\ \A i \in 1..Len(b) : b[i] = j.ids[j.done + i]
         /\ \A i \in 1..Len(j.ids) : i > n => j.ids[i] \notin ToSet(b)
  BY <1>2, <1>j, BatchIs
<1>4. ToSet(b) \cap OnChain = {}
  <2>1. ASSUME NEW i \in 1..Len(b) PROVE b[i] \notin OnChain
    <3>0. \A d, L, m \in Nat : d + m <= L /\ i \in 1..m => d + i \in 1..L /\ d + i > d
      OBVIOUS
    <3>a. j.done \in Nat /\ Len(j.ids) \in Nat /\ Len(b) \in Nat /\ j.done + Len(b) <= Len(j.ids)
      BY <1>2, <1>3
    <3>1. j.done + i \in 1..Len(j.ids) /\ j.done + i > j.done
      BY <3>0, <3>a
    <3> QED BY <1>2, <1>3, <3>1
  <2>2. DOMAIN b = 1..Len(b)
    OBVIOUS
  <2>3. \A x \in ToSet(b) : \E i \in 1..Len(b) : x = b[i]
    BY <2>2, Zenon DEF ToSet
  <2> QED BY <2>1, <2>3
<1>5. \/ AppendFails /\ Answer(p, j, j.done, FALSE)
      \/ AppendLands(b, {}, "cli") /\ Answer(p, j, j.done, FALSE)
      \/ Appended(b, {}, "cli") /\ Answer(p, j, n, TRUE)
      \/ Appended(b, {}, "cli") /\ job' = [job EXCEPT ![p].done = n] /\ UNCHANGED at
  BY <1>3, <1>j, Zenon DEF CliAppend
<1>6. ChainInv' /\ (Same \/ Adds(TailHash, b, {}, "cli"))
  <2>1. CASE AppendFails
    BY <2>1, ChainSame DEF AppendFails, Same
  <2>2. CASE Appended(b, {}, "cli") \/ AppendLands(b, {}, "cli")
    BY <1>3, <2>2, AppendExtends
  <2> QED BY <1>5, <2>1, <2>2
<1>7. ASSUME NEW l \in Labels \ McpSteps, at' = [at EXCEPT ![p] = l], NEW k, job' = [job EXCEPT ![p] = k], JobOk(p)'
      PROVE  JobInv'
  <2>2. CASE Same
    BY <1>1, <1>7, <2>2, JobQuiet DEF Same
  <2>3. CASE Adds(TailHash, b, {}, "cli")
    <3>1. PICK new : new = ToSet(b)
      OBVIOUS
    <3>2. OnChain' = OnChain \cup new
      BY <2>3, <3>1 DEF Adds, Extended
    <3>3. new \cap Nonces = {}
      BY <1>2, <1>3, <3>1
    <3>4. \A q \in Procs : at[q] \in McpSteps => ToSet(job[q].ids) \subseteq Nonces
      BY DEF JobInv, JobOk, Nonces
    <3>5. \A q \in Procs : q # p /\ at[q] \in McpSteps => ToSet(job[q].ids) \cap new = {}
      BY <3>3, <3>4
    <3>6. new \cap Nonces \subseteq drawn \cap McpIds
      BY <3>3
    <3> HIDE DEF ToSet
    <3> QED BY <1>1, <1>7, <3>2, <3>5, <3>6, JobAppends
  <2> QED BY <1>6, <2>2, <2>3
<1>8. ASSUME NEW m \in {j.done, n}, NEW ok \in BOOLEAN, Answer(p, j, m, ok) PROVE JobInv'
  <2>1. m \in Nat /\ m <= Len(j.ids)
    BY <1>2, <1>3
  <2>2. PICK k : k.ids = j.ids /\ job' = [job EXCEPT ![p] = k] /\ at' = [at EXCEPT ![p] = "answer"] /\ JobOk(p)'
    BY <1>8, <1>j, <2>1, JobAnswers
  <2>3. "answer" \in Labels \ McpSteps
    BY DEF Labels, McpSteps
  <2> QED BY <1>7, <2>2, <2>3
<1>9. ASSUME Appended(b, {}, "cli"), job' = [job EXCEPT ![p].done = n], UNCHANGED at PROVE JobInv'
  <2>1. PICK k : k = [j EXCEPT !.done = n]
    OBVIOUS
  <2>2. k \in Job /\ k.done = n /\ k.ids = j.ids
    BY <1>2, <1>3, <2>1 DEF Job
  <2>3. at' = [at EXCEPT ![p] = "cli.append"] /\ job' = [job EXCEPT ![p] = k] /\ job'[p] = k /\ at'[p] = "cli.append"
    BY <1>1, <1>9, <1>j, <2>1 DEF HoldsInv, JobInv
  <2>4. OnChain' = OnChain \cup ToSet(b)
    <3>1. Adds(TailHash, b, {}, "cli")
      BY <1>3, <1>9, AppendExtends
    <3> QED BY <3>1 DEF Adds, Extended
  <2>5. \A i \in 1..Len(k.ids) : i > k.done => k.ids[i] \notin OnChain'
    <3>1. ASSUME NEW i \in 1..Len(j.ids), i > n PROVE j.ids[i] \notin OnChain'
      <4>1. i \in Nat /\ i > j.done
        BY <1>2, <1>3, <3>1
      <4>2. j.ids[i] \notin OnChain
        BY <1>2, <4>1
      <4>3. j.ids[i] \notin ToSet(b)
        BY <1>3, <3>1
      <4> QED BY <2>4, <4>2, <4>3
    <3> QED BY <2>2, <3>1
  <2>6. JobOk(p)'
    <3>1. "cli.append" \notin McpSteps \cup ForgetSteps \cup Unwritten
      BY DEF McpSteps, ForgetSteps, Unwritten
    <3> HIDE DEF ToSet
    <3> QED BY <1>2, <1>3, <2>2, <2>3, <2>5, <3>1 DEF JobOk
  <2>7. "cli.append" \in Labels \ McpSteps
    BY DEF Labels, McpSteps
  <2> QED BY <1>7, <2>3, <2>6, <2>7
<1>10. JobInv'
  BY <1>5, <1>8, <1>9
<1>11. b = NextBatch(job[p])
  BY <1>3, <1>j
<1> QED BY <1>4, <1>6, <1>10, <1>11

\* An import's own ids are no server's.
LEMMA JobImport ==
    ASSUME HoldsInv, ChainInv, JobInv, NEW p \in Procs, CliImport(p)
    PROVE  /\ JobInv' /\ ChainInv'
           /\ \E prev, ids \in Seq(Nat) :
                 /\ ids # <<>> /\ ToSet(ids) \cap Nonces = {} /\ \E e \in Elsewhere : ToSet(ids) \subseteq ToSet(e)
                 /\ Len(prev) + Len(ids) - 1 <= MaxSeq
                 /\ Adds(prev, ids, {}, "import")
<1>1. at[p] = "idle" /\ dblock = None /\ at' = at /\ job' = job /\ drawn' = drawn /\ kept' = kept
  BY DEF CliImport, told
<1>2. PICK prev \in Seq(Nat), ids \in Seq(Nat) :
         /\ ids # <<>> /\ ToSet(ids) \cap Nonces = {} /\ \E e \in Elsewhere : ToSet(ids) \subseteq ToSet(e)
         /\ Len(prev) + Len(ids) - 1 <= MaxSeq
         /\ ChainInv' /\ Adds(prev, ids, {}, "import")
  BY ImportExtends
<1>3. PICK new : new = ToSet(ids)
  OBVIOUS
<1>4. OnChain' = OnChain \cup new /\ new \cap Nonces = {}
  BY <1>2, <1>3 DEF Adds, Extended
<1>5. \A q \in Procs : q # p /\ at[q] \in McpSteps => ToSet(job[q].ids) \cap new = {}
  <2>1. \A q \in Procs : at[q] \in McpSteps => ToSet(job[q].ids) \subseteq Nonces
    BY DEF JobInv, JobOk, Nonces
  <2> QED BY <1>4, <2>1
<1>6. at' = [at EXCEPT ![p] = "idle"] /\ job' = [job EXCEPT ![p] = job[p]] /\ "idle" \in Labels \ McpSteps
  BY <1>1 DEF HoldsInv, JobInv, Labels, McpSteps
<1>7. JobOk(p)'
  <2>1. "idle" \in Resting /\ job'[p] \in Job /\ job'[p].done <= Len(job'[p].ids)
    BY <1>1 DEF JobInv, JobOk, Resting
  <2> QED BY <1>6, <2>1, JobRests
<1>8. new \cap Nonces \subseteq drawn \cap McpIds
  BY <1>4
<1>9. JobInv'
  <2> HIDE DEF ToSet
  <2> QED BY <1>1, <1>4, <1>5, <1>6, <1>7, <1>8, JobAppends
<1> QED BY <1>2, <1>9

\* The entries stay as they are but for the three appends.
LEMMA RowsStay ==
    ASSUME NEW p \in Procs,
           \/ Launch(p) \/ McpCall(p) \/ McpOpen(p) \/ McpNonces(p) \/ McpPut(p) \/ McpForget(p) \/ McpDelete(p)
           \/ CliCommit(p) \/ DiscloseOpen(p) \/ DiscloseGet(p)
           \/ ForgetOpenDb(p) \/ ForgetOpen(p) \/ ForgetDelete(p)
           \/ ForgetCompact(p) \/ ForgetCopy(p) \/ ForgetRename(p)
           \/ (\E id \in Targets : DiscloseRead(p, id) \/ ForgetRead(p, id))
           \/ OtherOpen(p) \/ OtherPut(p) \/ GiveAnswer(p) \/ Stop(p) \/ Kill(p)
    PROVE  rows' = rows /\ head' = head
<1> USE DEF dbVars
<1>1. CASE Launch(p) \/ McpCall(p) \/ McpOpen(p) BY <1>1 DEF Launch, McpCall, McpOpen
<1>2. CASE McpNonces(p) \/ McpPut(p) \/ McpForget(p)
  <2>1. CASE McpNonces(p) BY <2>1 DEF McpNonces
  <2>2. CASE McpPut(p) BY <2>2 DEF McpPut
  <2>3. CASE McpForget(p) BY <2>3 DEF McpForget
  <2> QED BY <1>2, <2>1, <2>2, <2>3
<1>3. CASE McpDelete(p) \/ CliCommit(p) \/ DiscloseOpen(p)
  <2>1. CASE McpDelete(p) BY <2>1 DEF McpDelete
  <2>2. CASE CliCommit(p)
    <3>1. UNCHANGED <<nonceVars, faults, rows, head, told>>
      BY <2>2, Zenon DEF CliCommit
    <3> QED BY <3>1
  <2>3. CASE DiscloseOpen(p) BY <2>3 DEF DiscloseOpen
  <2> QED BY <1>3, <2>1, <2>2, <2>3
<1>4. CASE DiscloseGet(p) \/ OtherOpen(p) \/ OtherPut(p) BY <1>4 DEF DiscloseGet, OtherOpen, OtherPut
<1>5. CASE GiveAnswer(p) \/ Stop(p) \/ Kill(p) BY <1>5 DEF GiveAnswer, Stop, Kill
<1>6. CASE ForgetOpenDb(p) \/ ForgetOpen(p) \/ ForgetDelete(p) BY <1>6 DEF ForgetOpenDb, ForgetOpen, ForgetDelete, ForgetEnds
<1>7. CASE ForgetCompact(p) \/ ForgetCopy(p) \/ ForgetRename(p) BY <1>7 DEF ForgetCompact, ForgetCopy, ForgetRename, ForgetEnds
<1>8. CASE \E id \in Targets : DiscloseRead(p, id) \/ ForgetRead(p, id) BY <1>8 DEF DiscloseRead, ForgetRead
<1> QED BY <1>1, <1>2, <1>3, <1>4, <1>5, <1>6, <1>7, <1>8

\* A step of one process.
LocalStep(p) ==
    \/ Launch(p) \/ McpCall(p) \/ McpOpen(p) \/ McpNonces(p) \/ McpPut(p)
    \/ McpAppend(p) \/ McpForget(p) \/ McpDelete(p)
    \/ CliCommit(p) \/ CliAppend(p) \/ CliImport(p)
    \/ DiscloseOpen(p) \/ DiscloseGet(p)
    \/ ForgetOpenDb(p) \/ ForgetOpen(p) \/ ForgetDelete(p)
    \/ ForgetCompact(p) \/ ForgetCopy(p) \/ ForgetRename(p)
    \/ (\E id \in Targets : DiscloseRead(p, id) \/ ForgetRead(p, id))
    \/ OtherOpen(p) \/ OtherPut(p) \/ GiveAnswer(p) \/ Stop(p) \/ Kill(p)

LEMMA JobNext == HoldsInv /\ ChainInv /\ JobInv /\ [LocalNext]_localVars => ChainInv' /\ JobInv'
<1> SUFFICES ASSUME HoldsInv, ChainInv, JobInv, [LocalNext]_localVars PROVE ChainInv' /\ JobInv'
  OBVIOUS
<1>1. CASE UNCHANGED localVars
  <2>1. rows' = rows /\ at' = at /\ job' = job /\ drawn' = drawn /\ kept' = kept
    BY <1>1 DEF localVars, dbVars, told
  <2>2. OnChain' = OnChain
    BY <2>1 DEF OnChain, Seqs
  <2>3. \A p \in Procs : JobOk(p)'
    BY <2>1, <2>2 DEF JobInv, JobOk, Target
  <2>4. JobInv'
    BY <2>1, <2>2, <2>3 DEF JobInv
  <2> QED BY <2>1, <2>4, ChainSame
<1>2. CASE LocalNext
  <2>1. PICK p \in Procs : LocalStep(p)
    BY <1>2 DEF LocalNext, LocalStep
  <2>2. CASE McpAppend(p) BY <2>2, JobMcpAppend
  <2>3. CASE CliAppend(p) BY <2>3, JobCliAppend
  <2>4. CASE CliImport(p) BY <2>4, JobImport
  <2>5. CASE ~(McpAppend(p) \/ CliAppend(p) \/ CliImport(p))
    <3>1. JobInv'
      BY <2>1, <2>5, JobCall, JobMcp, JobPut, JobCommit, JobEnds, JobReads, JobForgets, JobOther DEF LocalStep
    <3>2. rows' = rows
      BY <2>1, <2>5, RowsStay DEF LocalStep
    <3> QED BY <3>1, <3>2, ChainSame
  <2> QED BY <2>2, <2>3, <2>4, <2>5
<1> QED BY <1>1, <1>2

-----------------------------------------------------------------------------
(* What is stored, acknowledged and forgotten *)

Forgetting == {"forget.compact", "forget.copy", "forget.rename"}

\* Stored nonces of acknowledged ids stay until a forget sets out to delete them; a forget
\* that rewrites has deleted its nonce; nothing on the disk holds a forgotten one.
NonceInv ==
    /\ NoncesKept
    /\ \A p \in Procs : at[p] \in Forgetting => Target(p) \notin Stored /\ Target(p) \in asked
    /\ forgot \subseteq OnChain /\ forgot \cap OnDisk = {} /\ forgot \cap kept \subseteq asked

\* What a step of p adds to the stored nonces, what it deletes, and what it says of them.
Tells(p, add, del) ==
    /\ FileKeeps(add, del) /\ add \cap OnChain = {}
    /\ asked \subseteq asked' /\ kept' \subseteq kept \cup (add \cap Stored') /\ kept' \cap del \subseteq asked'
    /\ Landed \/ (kept \ kept') \cap OnChain = {}
    /\ at'[p] \in Forgetting => Target(p)' \notin Stored' /\ Target(p)' \in asked'
    /\ \A id \in forgot' : id \in forgot \/ (id \in OnChain /\ id \notin OnDisk' /\ (id \in kept' => id \in asked'))

Told == kept' = kept /\ asked' = asked /\ forgot' = forgot

\* A step that says nothing and deletes nothing.
LEMMA TellsNothing ==
    ASSUME HoldsInv, FileInv, NonceInv, NEW p \in Procs, NEW l \in Labels, at' = [at EXCEPT ![p] = l],
           FileMoves(p, l, {}, {}), Told, l \in Forgetting => at[p] \in Forgetting /\ job' = job
    PROVE  Tells(p, {}, {})
<1>1. FileKeeps({}, {})
  BY FileStep
<1>2. at'[p] = l /\ Stored' \subseteq Stored
  BY <1>1 DEF HoldsInv, FileKeeps
<1>3. l \in Forgetting => Target(p)' = Target(p) /\ at[p] \in Forgetting
  BY DEF Target
<1> QED BY <1>1, <1>2, <1>3 DEF Tells, Told, NonceInv

\* Steps that leave the nonce file, its copies and what is left of them alone.
LEMMA TellsBeside ==
    ASSUME HoldsInv, FileInv, NonceInv, NEW p \in Procs, NEW l \in Labels \ NeedsFile, at' = [at EXCEPT ![p] = l],
           at[p] \notin Rewriting, UNCHANGED <<nfile, copy, left>>, Told
    PROVE  Tells(p, {}, {})
<1>1. FileMoves(p, l, {}, {})
  BY DEF FileMoves, NeedsFile
<1>2. l \notin Forgetting
  BY DEF NeedsFile, Forgetting, Rewriting
<1> QED BY <1>1, <1>2, TellsNothing

\* Steps that open the file for a write.
LEMMA TellsOpens ==
    ASSUME HoldsInv, FileInv, NonceInv, NEW p \in Procs, NEW l \in HasFile \cup {"ready"}, at' = [at EXCEPT ![p] = l],
           at[p] \notin Rewriting, UNCHANGED <<copy, left>>, Told,
           nfile' = IF nfile = None THEN [live |-> {}, free |-> {}] ELSE nfile
    PROVE  Tells(p, {}, {})
<1>1. l \notin Rewriting /\ l \notin Forgetting /\ l \in Labels
  BY DEF Rewriting, HasFile, Forgetting, Labels, McpSteps, ForgetSteps
<1>2. FileMoves(p, l, {}, {})
  BY <1>1 DEF FileMoves
<1> QED BY <1>1, <1>2, TellsNothing

LEMMA TellsMcp ==
    ASSUME HoldsInv, FileInv, NonceInv, NEW p \in Procs,
           \/ Launch(p) \/ McpCall(p) \/ McpOpen(p) \/ McpNonces(p) \/ McpAppend(p) \/ McpForget(p)
    PROVE  Tells(p, {}, {})
<1> USE DEF Goto, Answer, HasFile, NeedsFile, Rewriting, Labels, McpSteps, ForgetSteps, nonceVars, told, Told
<1>1. CASE Launch(p) BY <1>1, TellsOpens DEF Launch
<1>2. CASE McpCall(p) BY <1>2, TellsBeside DEF McpCall
<1>3. CASE McpOpen(p) BY <1>3, TellsBeside DEF McpOpen, AfterOpen
<1>4. CASE McpNonces(p)
  <2>1. CASE Open(p) /\ Goto(p, "mcp.put") BY <1>4, <2>1, TellsOpens DEF McpNonces, Open
  <2>2. CASE Answer(p, job[p], 0, FALSE) /\ UNCHANGED nonceVars BY <1>4, <2>2, TellsBeside DEF McpNonces
  <2> QED BY <1>4, <2>1, <2>2 DEF McpNonces
<1>5. CASE McpAppend(p)
  <2>1. at' = [at EXCEPT ![p] = "answer"] \/ at' = [at EXCEPT ![p] = "mcp.forget"]
    BY <1>5 DEF McpAppend
  <2> QED BY <1>5, <2>1, TellsBeside DEF McpAppend
<1>6. CASE McpForget(p)
  <2>1. CASE Open(p) /\ Goto(p, "mcp.delete") BY <1>6, <2>1, TellsOpens DEF McpForget, Open
  <2>2. CASE Answer(p, job[p], 0, FALSE) /\ UNCHANGED nonceVars BY <1>6, <2>2, TellsBeside DEF McpForget
  <2> QED BY <1>6, <2>1, <2>2 DEF McpForget
<1> QED BY <1>1, <1>2, <1>3, <1>4, <1>5, <1>6

LEMMA TellsOther ==
    ASSUME HoldsInv, FileInv, NonceInv, NEW p \in Procs,
           \/ CliCommit(p) \/ CliAppend(p) \/ CliImport(p) \/ OtherOpen(p)
           \/ DiscloseOpen(p) \/ DiscloseGet(p) \/ GiveAnswer(p) \/ Stop(p) \/ Kill(p)
           \/ (\E id \in Targets : DiscloseRead(p, id) \/ ForgetRead(p, id))
    PROVE  Tells(p, {}, {})
<1> USE DEF Goto, HasFile, NeedsFile, Rewriting, Labels, McpSteps, ForgetSteps, nonceVars, told, Told
<1>1. CASE CliCommit(p)
  <2>1. UNCHANGED <<nonceVars, faults, rows, head, told>> /\ at[p] = "idle"
    BY <1>1, Zenon DEF CliCommit
  <2>2. at' = [at EXCEPT ![p] = "answer"] \/ at' = [at EXCEPT ![p] = "cli.append"]
    BY <1>1, Zenon DEF CliCommit, Answer
  <2> QED BY <2>1, <2>2, TellsBeside
<1>2. CASE CliAppend(p)
  <2>1. UNCHANGED <<nonceVars, dblock, told>> /\ at[p] = "cli.append"
    BY <1>2, Zenon DEF CliAppend
  <2>2. at' = [at EXCEPT ![p] = "answer"] \/ at' = at
    BY <1>2, Zenon DEF CliAppend, Answer
  <2>3. at' = [at EXCEPT ![p] = "answer"] \/ at' = [at EXCEPT ![p] = "cli.append"]
    BY <2>1, <2>2 DEF HoldsInv
  <2> QED BY <2>1, <2>3, TellsBeside
<1>3. CASE CliImport(p)
  <2>1. UNCHANGED <<nonceVars, dblock, at, job, told>> /\ at[p] = "idle"
    BY <1>3 DEF CliImport
  <2>2. at' = [at EXCEPT ![p] = "idle"]
    BY <2>1 DEF HoldsInv
  <2> QED BY <2>1, <2>2, TellsBeside
<1>4. CASE OtherOpen(p) BY <1>4, TellsOpens DEF OtherOpen, Open
<1>5. CASE DiscloseOpen(p)
  <2>1. CASE OpenReadOnly(p) /\ Goto(p, "disclose.get")
    <3>1. nfile # None /\ UNCHANGED <<nfile, copy, left>> /\ at[p] = "disclose"
      BY <1>5, <2>1 DEF DiscloseOpen, OpenReadOnly
    <3>2. nfile' = IF nfile = None THEN [live |-> {}, free |-> {}] ELSE nfile
      BY <3>1
    <3> QED BY <1>5, <2>1, <3>1, <3>2, TellsOpens DEF DiscloseOpen
  <2>2. CASE Goto(p, "idle") /\ UNCHANGED nonceVars BY <1>5, <2>2, TellsBeside DEF DiscloseOpen
  <2> QED BY <1>5, <2>1, <2>2 DEF DiscloseOpen
<1>6. CASE DiscloseGet(p) BY <1>6, TellsBeside DEF DiscloseGet, Close
<1>7. CASE GiveAnswer(p)
  <2>1. PICK l \in {"ready", "idle"} : at' = [at EXCEPT ![p] = l]
    BY <1>7 DEF GiveAnswer
  <2> QED BY <1>7, <2>1, TellsBeside DEF GiveAnswer
<1>8. CASE Stop(p) BY <1>8, TellsBeside DEF Stop
<1>9. CASE Kill(p)
  <2>1. FileMoves(p, "idle", {}, {})
    BY <1>9 DEF Kill, FileMoves
  <2> QED BY <1>9, <2>1, TellsNothing DEF Kill, Forgetting
<1>10. ASSUME NEW id, DiscloseRead(p, id) PROVE Tells(p, {}, {}) BY <1>10, TellsBeside DEF DiscloseRead
<1>11. ASSUME NEW id, ForgetRead(p, id) PROVE Tells(p, {}, {}) BY <1>11, TellsBeside DEF ForgetRead
<1> QED BY <1>1, <1>2, <1>3, <1>4, <1>5, <1>6, <1>7, <1>8, <1>9, <1>10, <1>11

\* A transaction reaches the file that its name leads to.
LEMMA WritesFile ==
    ASSUME HoldsInv, FileInv, NEW p \in Procs, at[p] \in HasFile, NEW ids,
           (PutBatch(p, ids) /\ ids \subseteq Nonces) \/ DeleteAll(p, ids)
    PROVE  /\ nfile \in File /\ nfile # None /\ UNCHANGED <<copy, left>> /\ nfile' \in File /\ nfile' # None
           /\ PutBatch(p, ids) => nfile'.live = nfile.live \cup ids /\ nfile'.free = nfile.free
           /\ DeleteAll(p, ids) => nfile'.live = nfile.live \ ids /\ nfile'.free = nfile.free \cup (nfile.live \cap ids)
<1>1. handle[p] = "current" /\ nfile # None /\ nfile \in File
  BY DEF HoldsInv, FileInv, NeedsFile
<1>2. None \notin File
  <2>1. Nonces \subseteq Nat /\ None \notin [live : SUBSET Nat, free : SUBSET Nat]
    BY LocalAssumption DEF Nonces
  <2>2. \A f \in File : f \in [live : SUBSET Nat, free : SUBSET Nat]
    BY <2>1 DEF File
  <2> QED BY <2>1, <2>2
<1>3. UNCHANGED <<copy, left>>
  BY DEF PutBatch, DeleteAll, Close
<1>4. CASE PutBatch(p, ids) /\ ids \subseteq Nonces
  <2>1. nfile' = [nfile EXCEPT !.live = @ \cup ids]
    BY <1>1, <1>4 DEF PutBatch, Write
  <2>2. nfile' = [live |-> nfile.live \cup ids, free |-> nfile.free]
    BY <1>1, <2>1 DEF File
  <2>3. nfile' \in File /\ nfile'.live = nfile.live \cup ids /\ nfile'.free = nfile.free
    BY <1>1, <1>4, <2>2 DEF File
  <2>4. DeleteAll(p, ids) => nfile' = [live |-> nfile.live \ ids, free |-> nfile.free \cup (nfile.live \cap ids)]
    BY <1>1 DEF DeleteAll, Write
  <2> QED BY <1>1, <1>2, <1>3, <2>3, <2>4
<1>5. CASE DeleteAll(p, ids)
  <2>1. nfile' = [live |-> nfile.live \ ids, free |-> nfile.free \cup (nfile.live \cap ids)]
    BY <1>1, <1>5 DEF DeleteAll, Write
  <2>2. nfile' \in File /\ nfile'.live = nfile.live \ ids /\ nfile'.free = nfile.free \cup (nfile.live \cap ids)
    BY <1>1, <2>1 DEF File
  <2>4. PutBatch(p, ids) => nfile' = [live |-> nfile.live \cup ids, free |-> nfile.free]
    BY <1>1 DEF PutBatch, Write, File
  <2> QED BY <1>1, <1>2, <1>3, <2>2, <2>4
<1> QED BY <1>4, <1>5

LEMMA TellsPut == ASSUME HoldsInv, JobInv, FileInv, NonceInv, NEW p \in Procs, McpPut(p) PROVE Tells(p, job[p].salted, {})
<1>s. PICK ids : ids = job[p].salted
  OBVIOUS
<1>1. /\ at[p] = "mcp.put" /\ at[p] \in HasFile /\ at[p] \notin Rewriting /\ asked' = asked /\ forgot' = forgot
      /\ UNCHANGED <<dbVars, drawn, asked, forgot>>
  BY DEF McpPut, HasFile, Rewriting
<1>2. ids \in SUBSET Nonces /\ ids \cap OnChain = {}
  <2>1. JobOk(p) /\ drawn \subseteq Nonces
    BY DEF JobInv
  <2>2. ids \subseteq ToSet(job[p].ids) /\ ToSet(job[p].ids) \subseteq drawn /\ ToSet(job[p].ids) \cap OnChain = {}
    BY <1>s, <1>1, <2>1 DEF JobOk, McpSteps, Unwritten
  <2> HIDE DEF ToSet
  <2> QED BY <2>1, <2>2
<1>3. \/ PutBatch(p, ids) /\ kept' = kept \cup ids
      \/ (PutBatch(p, ids) \/ PutBatch(p, {})) /\ kept' = kept
  BY <1>s DEF McpPut
<1>4. PICK l \in {"mcp.append", "answer"} : at' = [at EXCEPT ![p] = l]
  BY DEF McpPut, Goto, Answer
<1>5. /\ nfile \in File /\ nfile # None /\ UNCHANGED <<copy, left>> /\ nfile' \in File /\ nfile' # None
      /\ nfile.live \subseteq nfile'.live /\ nfile'.live \subseteq nfile.live \cup ids /\ nfile'.free = nfile.free
      /\ PutBatch(p, ids) => ids \subseteq nfile'.live
  <2>1. {} \in SUBSET Nonces
    OBVIOUS
  <2> QED BY <1>1, <1>2, <1>3, <2>1, WritesFile
<1>6. FileMoves(p, l, ids, {})
  BY <1>1, <1>5 DEF FileMoves, Writes, Rewriting
<1>7. l \in Labels /\ l \notin Forgetting
  BY DEF Labels, McpSteps, ForgetSteps, Forgetting
<1>8. FileKeeps(ids, {})
  BY <1>2, <1>4, <1>6, <1>7, FileStep
<1>9. kept' \subseteq kept \cup (ids \cap Stored') /\ kept \subseteq kept' /\ at'[p] = l
  BY <1>3, <1>4, <1>5 DEF Stored, HoldsInv
<1> QED BY <1>s, <1>1, <1>2, <1>7, <1>8, <1>9 DEF Tells

\* The nonces of a call that is not on the chain are taken back.
LEMMA TellsDelete == ASSUME HoldsInv, JobInv, FileInv, NonceInv, NEW p \in Procs, McpDelete(p) PROVE Tells(p, {}, job[p].salted)
<1>s. PICK ids : ids = job[p].salted
  OBVIOUS
<1>1. /\ at[p] = "mcp.delete" /\ at[p] \in HasFile /\ at[p] \notin Rewriting /\ asked' = asked /\ forgot' = forgot
      /\ kept' = kept \ ids /\ at' = [at EXCEPT ![p] = "answer"] /\ UNCHANGED dbVars
  BY <1>s DEF McpDelete, HasFile, Rewriting, Answer, Goto
<1>2. ids \in SUBSET Nonces /\ (Landed \/ ids \cap OnChain = {})
  <2>1. JobOk(p) /\ drawn \subseteq Nonces
    BY DEF JobInv
  <2>2. ids \subseteq ToSet(job[p].ids) /\ ToSet(job[p].ids) \subseteq drawn /\ (Landed \/ ToSet(job[p].ids) \cap OnChain = {})
    BY <1>s, <1>1, <2>1 DEF JobOk, McpSteps, Unwritten
  <2> HIDE DEF ToSet
  <2> QED BY <2>1, <2>2
<1>3. PICK gone \in SUBSET ids : DeleteAll(p, gone)
  BY <1>s DEF McpDelete
<1>5. /\ nfile \in File /\ nfile # None /\ UNCHANGED <<copy, left>> /\ nfile' \in File /\ nfile' # None
      /\ nfile'.live = nfile.live \ gone /\ nfile'.free = nfile.free \cup (nfile.live \cap gone)
  <2>1. gone \in SUBSET Nonces
    BY <1>2
  <2> QED BY <1>1, <1>3, <2>1, WritesFile
<1>6. FileMoves(p, "answer", {}, ids)
  BY <1>1, <1>5 DEF FileMoves, Writes, Rewriting
<1>7. "answer" \in Labels /\ "answer" \notin Forgetting
  BY DEF Labels, Forgetting
<1>8. FileKeeps({}, ids)
  BY <1>1, <1>6, <1>7, FileStep
<1>9. at'[p] = "answer"
  BY <1>1 DEF HoldsInv
<1> QED BY <1>s, <1>1, <1>2, <1>7, <1>8, <1>9 DEF Tells

LEMMA TellsOtherPut ==
    ASSUME HoldsInv, JobInv, FileInv, NonceInv, NEW p \in Procs, OtherPut(p)
    PROVE  \E ids \in SUBSET Nonces : Tells(p, ids, {})
<1>s. PICK id : id = CHOOSE i \in OtherIds \ drawn : TRUE
  OBVIOUS
<1>1. /\ at[p] = "other.put" /\ at[p] \in HasFile /\ at[p] \notin Rewriting /\ asked' = asked /\ forgot' = forgot
      /\ kept' = kept \cup {id} /\ at' = [at EXCEPT ![p] = "idle"] /\ UNCHANGED dbVars /\ PutBatch(p, {id})
  BY <1>s DEF OtherPut, HasFile, Rewriting, Goto
<1>2. {id} \in SUBSET Nonces /\ {id} \cap OnChain = {}
  <2>1. ~(OtherIds \subseteq drawn)
    BY <1>1 DEF JobInv, JobOk
  <2>2. id \in OtherIds
    BY <1>s, <2>1
  <2>3. OtherIds \cap McpIds = {} /\ OnChain \cap Nonces \subseteq McpIds
    BY LocalAssumption DEF JobInv
  <2> QED BY <2>2, <2>3 DEF Nonces
<1>5. /\ nfile \in File /\ nfile # None /\ UNCHANGED <<copy, left>> /\ nfile' \in File /\ nfile' # None
      /\ nfile'.live = nfile.live \cup {id} /\ nfile'.free = nfile.free
  BY <1>1, <1>2, WritesFile
<1>6. FileMoves(p, "idle", {id}, {})
  BY <1>1, <1>5 DEF FileMoves, Writes, Rewriting
<1>7. "idle" \in Labels /\ "idle" \notin Forgetting
  BY DEF Labels, Forgetting
<1>8. FileKeeps({id}, {})
  BY <1>1, <1>2, <1>6, <1>7, FileStep
<1>9. at'[p] = "idle" /\ id \in Stored'
  BY <1>1, <1>5 DEF HoldsInv, Stored
<1> QED BY <1>1, <1>2, <1>7, <1>8, <1>9 DEF Tells

\* A forget that has said nothing yet, or ends with an error.
LEMMA TellsForget ==
    ASSUME HoldsInv, FileInv, JobInv, NonceInv, NEW p \in Procs,
           ForgetOpenDb(p) \/ ForgetOpen(p) \/ ForgetCompact(p) \/ ForgetCopy(p)
    PROVE  Tells(p, {}, {})
<1> USE DEF Goto, HasFile, NeedsFile, Rewriting, Labels, McpSteps, ForgetSteps, nonceVars, told, Told
<1>1. ASSUME ForgetEnds(p, FALSE) PROVE at' = [at EXCEPT ![p] = "idle"] /\ forgot' = forgot /\ kept' = kept
  BY <1>1 DEF ForgetEnds
<1>2. CASE ForgetOpenDb(p)
  <2>1. CASE OpenDb(p) /\ Goto(p, "forget.open") /\ UNCHANGED <<rows, head, job, told>>
    BY <1>2, <2>1, TellsBeside DEF ForgetOpenDb
  <2>2. CASE ForgetEnds(p, FALSE) /\ UNCHANGED asked
    BY <1>1, <1>2, <2>2, TellsBeside DEF ForgetOpenDb
  <2> QED BY <1>2, <2>1, <2>2 DEF ForgetOpenDb
<1>3. CASE ForgetOpen(p)
  <2>1. CASE nfile = None /\ ForgetEnds(p, TRUE) /\ UNCHANGED <<nonceVars, faults, asked>>
    <3>1. /\ at' = [at EXCEPT ![p] = "idle"] /\ forgot' = forgot \cup {Target(p)} /\ kept' = kept /\ asked' = asked
          /\ at[p] = "forget.open" /\ UNCHANGED <<nfile, copy, left>>
      BY <1>3, <2>1 DEF ForgetOpen, ForgetEnds
    <3>2. FileKeeps({}, {})
      <4>1. FileMoves(p, "idle", {}, {})
        BY <3>1 DEF FileMoves
      <4> QED BY <3>1, <4>1, FileStep
    <3>3. OnDisk = {} /\ Stored = {} /\ OnDisk' = {}
      <4>1. left = {} /\ \A q \in Procs : copy[q] = None
        BY <2>1 DEF FileInv
      <4>2. OnDisk = {} /\ Stored = {}
        BY <2>1, <4>1 DEF OnDisk, Stored
      <4> QED BY <3>1, <4>2 DEF OnDisk
    <3>4. Target(p) \in OnChain /\ (Target(p) \in kept => Target(p) \in asked)
      BY <3>1, <3>3 DEF JobInv, JobOk, NonceInv, NoncesKept
    <3>5. at'[p] = "idle"
      BY <3>1 DEF HoldsInv
    <3> QED BY <3>1, <3>2, <3>3, <3>4, <3>5 DEF Tells, Forgetting
  <2>2. CASE nfile # None /\ Open(p) /\ Goto(p, "forget.delete") /\ UNCHANGED <<dbVars, job, faults, told>>
    BY <1>3, <2>2, TellsOpens DEF ForgetOpen, Open
  <2>3. CASE nfile # None /\ CannotOpen(p) /\ ForgetEnds(p, FALSE) /\ UNCHANGED <<nonceVars, asked>>
    BY <1>1, <1>3, <2>3, TellsBeside DEF ForgetOpen
  <2> QED BY <1>3, <2>1, <2>2, <2>3 DEF ForgetOpen
<1>4. CASE ForgetCompact(p)
  <2>1. CASE CompactBegin(p) /\ Goto(p, "forget.copy") /\ UNCHANGED <<dbVars, job, faults, told>>
    <3>1. at[p] = "forget.compact" /\ FileMoves(p, "forget.copy", {}, {})
      BY <1>4, <2>1 DEF ForgetCompact, FileMoves
    <3> QED BY <2>1, <3>1, TellsNothing DEF Forgetting
  <2>2. CASE ForgetEnds(p, FALSE) /\ UNCHANGED <<nonceVars, asked>>
    BY <1>1, <1>4, <2>2, TellsBeside DEF ForgetCompact
  <2> QED BY <1>4, <2>1, <2>2 DEF ForgetCompact
<1>5. CASE ForgetCopy(p)
  <2>1. CASE CompactCopy(p) /\ Goto(p, "forget.rename") /\ UNCHANGED <<dbVars, job, faults, told>>
    <3>1. at[p] = "forget.copy" /\ FileMoves(p, "forget.rename", {}, {})
      BY <1>5, <2>1 DEF ForgetCopy, FileMoves
    <3> QED BY <2>1, <3>1, TellsNothing DEF Forgetting
  <2>2. CASE CompactFails(p) /\ ForgetEnds(p, FALSE) /\ UNCHANGED asked
    <3>1. at[p] = "forget.copy" /\ FileMoves(p, "idle", {}, {})
      BY <1>5, <2>2 DEF ForgetCopy, FileMoves
    <3> QED BY <1>1, <2>2, <3>1, TellsNothing DEF Forgetting
  <2> QED BY <1>5, <2>1, <2>2 DEF ForgetCopy
<1> QED BY <1>2, <1>3, <1>4, <1>5

\* The delete of a forget: the nonce was asked for, and is stored no more when it goes on.
LEMMA TellsForgetDelete ==
    ASSUME HoldsInv, FileInv, JobInv, NonceInv, NEW p \in Procs, ForgetDelete(p) PROVE Tells(p, {}, {Target(p)})
<1>t. PICK t : t = Target(p)
  OBVIOUS
<1>1. at[p] = "forget.delete" /\ at[p] \in HasFile /\ at[p] \notin Rewriting /\ asked' = asked \cup {t}
  BY <1>t DEF ForgetDelete, HasFile, Rewriting
<1>2. \/ DeleteAll(p, {t}) /\ Goto(p, "forget.compact") /\ UNCHANGED <<job, kept, forgot>>
      \/ (DeleteAll(p, {t}) \/ DeleteAll(p, {})) /\ Goto(p, "idle") /\ UNCHANGED <<kept, forgot>>
  BY <1>t DEF ForgetDelete, Rewrites, ForgetEnds
<1>3. PICK l \in {"forget.compact", "idle"} :
         /\ at' = [at EXCEPT ![p] = l] /\ (l = "forget.compact" => DeleteAll(p, {t}) /\ UNCHANGED job)
  BY <1>2 DEF Goto
<1>5. /\ nfile \in File /\ nfile # None /\ UNCHANGED <<copy, left>> /\ nfile' \in File /\ nfile' # None
      /\ nfile.live \ {t} \subseteq nfile'.live /\ nfile'.live \subseteq nfile.live /\ nfile'.free \subseteq nfile.live \cup nfile.free
      /\ DeleteAll(p, {t}) => t \notin nfile'.live
  BY <1>1, <1>2, WritesFile
<1>6. FileMoves(p, l, {}, {t})
  BY <1>1, <1>5 DEF FileMoves, Writes, Rewriting
<1>7. l \in Labels
  BY DEF Labels, McpSteps, ForgetSteps
<1>8. FileKeeps({}, {t})
  BY <1>3, <1>6, <1>7, FileStep
<1>9. at'[p] = l /\ (l \in Forgetting => Target(p)' = t /\ t \notin Stored')
  BY <1>t, <1>3, <1>5 DEF HoldsInv, Forgetting, Target, Stored
<1>10. kept' = kept /\ forgot' = forgot /\ OnChain \subseteq OnChain
  BY <1>2
<1> QED BY <1>t, <1>1, <1>8, <1>9, <1>10 DEF Tells

\* The rename: the disk holds what is stored, and nothing else.
LEMMA TellsRename ==
    ASSUME HoldsInv, FileInv, JobInv, NonceInv, NEW p \in Procs, ForgetRename(p) PROVE Tells(p, {}, {})
<1>1. at[p] = "forget.rename" /\ at[p] \in Forgetting /\ at[p] \in Rewriting /\ asked' = asked
  BY DEF ForgetRename, Forgetting, Rewriting
<1>2. "idle" \in Labels /\ "idle" \notin Forgetting /\ "idle" \notin NeedsFile
  BY DEF Labels, Forgetting, NeedsFile, HasFile, Rewriting
<1>3. CASE (CompactRename(p) \/ CompactFails(p)) /\ ForgetEnds(p, FALSE)
  <2>1. at' = [at EXCEPT ![p] = "idle"] /\ Told
    BY <1>1, <1>3 DEF ForgetEnds, Goto, Told
  <2>2. FileMoves(p, "idle", {}, {})
    BY <1>1, <1>2, <1>3 DEF FileMoves
  <2> QED BY <1>2, <2>1, <2>2, TellsNothing
<1>4. CASE CompactRename(p) /\ ForgetEnds(p, TRUE)
  <2>1. at' = [at EXCEPT ![p] = "idle"] /\ kept' = kept /\ forgot' = forgot \cup {Target(p)} /\ at'[p] = "idle"
    BY <1>4 DEF ForgetEnds, Goto, HoldsInv
  <2>2. FileMoves(p, "idle", {}, {})
    BY <1>1, <1>2, <1>4 DEF FileMoves
  <2>3. FileKeeps({}, {})
    BY <1>2, <2>1, <2>2, FileStep
  <2>4. Target(p) \in OnChain /\ Target(p) \notin Stored /\ Target(p) \in asked
    BY <1>1 DEF NonceInv, JobInv, JobOk, ForgetSteps
  <2>5. Target(p) \notin OnDisk'
    <3>1. /\ copy' = [copy EXCEPT ![p] = None] /\ nfile' = [live |-> copy[p], free |-> {}] /\ left' = left
      BY <1>4 DEF CompactRename
    <3>2. copy[p] = nfile.live /\ left = {} /\ nfile # None
      BY <1>1 DEF FileInv, NeedsFile, Rewriting
    <3>3. \A q \in Procs : q # p => copy[q] = None
      BY <1>1, OneRewrites DEF FileInv
    <3>4. \A q \in Procs : copy'[q] = None
      BY <3>1, <3>3 DEF FileInv
    <3>5. OnDisk' \subseteq nfile.live
      BY <3>1, <3>2, <3>4 DEF OnDisk
    <3> QED BY <2>4, <3>2, <3>5 DEF Stored
  <2> QED BY <1>1, <1>2, <2>1, <2>3, <2>4, <2>5 DEF Tells
<1> QED BY <1>3, <1>4 DEF ForgetRename

\* Every step adds, deletes and says what keeps the promises.
LEMMA TellsNext ==
    ASSUME HoldsInv, JobInv, FileInv, NonceInv, NEW p \in Procs, LocalStep(p)
    PROVE  \E add, del : Tells(p, add, del)
BY TellsMcp, TellsOther, TellsPut, TellsDelete, TellsOtherPut, TellsForget, TellsForgetDelete, TellsRename DEF LocalStep

\* A step leaves what the other processes are at.
LEMMA OthersStay ==
    ASSUME HoldsInv, JobInv, NEW p \in Procs, LocalStep(p)
    PROVE  \A q \in Procs : q # p => at'[q] = at[q] /\ job'[q] = job[q]
<1> USE DEF Goto, Answer, HoldsInv, JobInv
<1>1. CASE Launch(p) \/ McpCall(p) \/ McpOpen(p) BY <1>1 DEF Launch, McpCall, McpOpen
<1>2. CASE McpNonces(p) \/ McpForget(p) BY <1>2 DEF McpNonces, McpForget
<1>3. CASE McpPut(p) BY <1>3 DEF McpPut
<1>4. CASE McpDelete(p) BY <1>4 DEF McpDelete
<1>5. CASE McpAppend(p) BY <1>5 DEF McpAppend
<1>6. CASE CliCommit(p)
  <2>1. PICK l, j : at' = [at EXCEPT ![p] = l] /\ job' = [job EXCEPT ![p] = j]
    BY <1>6, Zenon DEF CliCommit
  <2> QED BY <2>1
<1>7. CASE CliAppend(p)
  <2>1. at' = [at EXCEPT ![p] = "answer"] \/ at' = at
    BY <1>7, Zenon DEF CliAppend
  <2>2. \E j : job' = [job EXCEPT ![p] = j]
    BY <1>7, Zenon DEF CliAppend
  <2> QED BY <2>1, <2>2
<1>8. CASE CliImport(p) BY <1>8 DEF CliImport
<1>9. CASE DiscloseOpen(p) \/ DiscloseGet(p) BY <1>9 DEF DiscloseOpen, DiscloseGet
<1>10. CASE \E id \in Targets : DiscloseRead(p, id) \/ ForgetRead(p, id) BY <1>10 DEF DiscloseRead, ForgetRead
<1>11. CASE ForgetOpenDb(p) \/ ForgetOpen(p) BY <1>11 DEF ForgetOpenDb, ForgetOpen, ForgetEnds
<1>12. CASE ForgetDelete(p) BY <1>12 DEF ForgetDelete, ForgetEnds
<1>13. CASE ForgetCompact(p) \/ ForgetCopy(p) BY <1>13 DEF ForgetCompact, ForgetCopy, ForgetEnds
<1>14. CASE ForgetRename(p) BY <1>14 DEF ForgetRename, ForgetEnds
<1>15. CASE OtherOpen(p) \/ OtherPut(p) BY <1>15 DEF OtherOpen, OtherPut
<1>16. CASE GiveAnswer(p) BY <1>16 DEF GiveAnswer
<1>17. CASE Stop(p) \/ Kill(p) BY <1>17 DEF Stop, Kill
<1> QED BY <1>1, <1>2, <1>3, <1>4, <1>5, <1>6, <1>7, <1>8, <1>9, <1>10, <1>11, <1>12, <1>13, <1>14, <1>15, <1>16,
    <1>17 DEF LocalStep

\* What a step adds to the chain, and to whose call.
LEMMA StepAdds ==
    ASSUME HoldsInv, ChainInv, JobInv, NEW p \in Procs, LocalStep(p)
    PROVE  \/ Same
           \/ McpAppend(p) /\ Adds(TailHash, job[p].ids, job[p].salted, "mcp")
           \/ CliAppend(p) /\ ToSet(NextBatch(job[p])) \cap OnChain = {} /\ Adds(TailHash, NextBatch(job[p]), {}, "cli")
           \/ CliImport(p) /\ \E prev, ids \in Seq(Nat) :
                 /\ ids # <<>> /\ ToSet(ids) \cap Nonces = {} /\ \E e \in Elsewhere : ToSet(ids) \subseteq ToSet(e)
                 /\ Len(prev) + Len(ids) - 1 <= MaxSeq
                 /\ Adds(prev, ids, {}, "import")
<1>1. CASE McpAppend(p) BY <1>1, JobMcpAppend
<1>2. CASE CliAppend(p) BY <1>2, JobCliAppend
<1>3. CASE CliImport(p) BY <1>3, JobImport
<1>4. CASE ~(McpAppend(p) \/ CliAppend(p) \/ CliImport(p))
  BY <1>4, RowsStay DEF LocalStep, Same
<1> QED BY <1>1, <1>2, <1>3, <1>4

LEMMA NonceStep ==
    ASSUME HoldsInv, ChainInv, JobInv, FileInv, NonceInv, NEW p \in Procs, LocalStep(p)
    PROVE  FileInv' /\ NonceInv'
<1>1. PICK add, del : Tells(p, add, del)
  BY TellsNext
<1>2. /\ FileInv' /\ Stored \ del \subseteq Stored' /\ Stored' \subseteq Stored \cup add /\ OnDisk' \subseteq OnDisk \cup add
      /\ add \cap OnChain = {} /\ asked \subseteq asked' /\ kept' \subseteq kept \cup (add \cap Stored')
      /\ kept' \cap del \subseteq asked'
  BY <1>1 DEF Tells, FileKeeps
<1>3. OnChain \subseteq OnChain'
  <2>1. rows' = rows => OnChain' = OnChain
    BY DEF OnChain, Seqs
  <2> QED BY <2>1, StepAdds DEF Same, Adds, Extended
<1>4. NoncesKept'
  BY <1>2 DEF NonceInv, NoncesKept
<1>5. ASSUME NEW q \in Procs, at'[q] \in Forgetting PROVE Target(q)' \notin Stored' /\ Target(q)' \in asked'
  <2>1. CASE q = p
    BY <1>1, <1>5, <2>1 DEF Tells
  <2>2. CASE q # p
    <3>1. at[q] \in Forgetting /\ Target(q)' = Target(q)
      BY <1>5, <2>2, OthersStay DEF Target
    <3>2. Target(q) \in OnChain /\ Target(q) \notin Stored /\ Target(q) \in asked
      BY <3>1 DEF JobInv, JobOk, NonceInv, Forgetting, ForgetSteps
    <3> QED BY <1>2, <3>1, <3>2
  <2> QED BY <2>1, <2>2
<1>6. ASSUME NEW id \in forgot' PROVE id \in OnChain' /\ id \notin OnDisk' /\ (id \in kept' => id \in asked')
  <2>1. CASE id \in forgot
    BY <1>2, <1>3, <2>1 DEF NonceInv
  <2>2. CASE id \in OnChain /\ id \notin OnDisk' /\ (id \in kept' => id \in asked')
    BY <1>3, <2>2
  <2> QED BY <1>1, <2>1, <2>2 DEF Tells
<1> QED BY <1>2, <1>4, <1>5, <1>6 DEF NonceInv

\* Every salted entry's nonce was acknowledged before it was appended.
SaltedInv == Landed \/ \A s \in Seqs : rows[s].salted => rows[s].id \in kept

LEMMA SaltedStep ==
    ASSUME HoldsInv, ChainInv, JobInv, FileInv, NonceInv, SaltedInv, NEW p \in Procs, LocalStep(p)
    PROVE  SaltedInv'
<1> SUFFICES ASSUME ~Landed, NEW s \in Seqs', rows'[s].salted PROVE rows'[s].id \in kept'
  BY DEF SaltedInv
<1>1. PICK add, del : Tells(p, add, del)
  BY TellsNext
<1>2. (kept \ kept') \cap OnChain = {}
  BY <1>1 DEF Tells
<1>3. ASSUME s \in Seqs, rows'[s] = rows[s] PROVE rows'[s].id \in kept'
  <2>1. rows[s].id \in OnChain /\ rows[s].id \in kept
    BY <1>3 DEF OnChain, SaltedInv
  <2> QED BY <1>2, <1>3, <2>1
<1>4. CASE Same
  BY <1>3, <1>4 DEF Same, Seqs
<1>5. ASSUME NEW prev, NEW ids, NEW salted, NEW by, Adds(prev, ids, salted, by), salted \subseteq kept'
      PROVE  rows'[s].id \in kept'
  BY <1>3, <1>5 DEF Adds, Extended
<1>6. McpAppend(p) => job[p].salted \subseteq kept'
  BY DEF McpAppend, told, JobInv, JobOk
<1> QED BY <1>4, <1>5, <1>6, StepAdds

LocalInv == HoldsInv /\ ChainInv /\ JobInv /\ FileInv /\ NonceInv /\ SaltedInv

LEMMA LocalInvInit == LocalInit => LocalInv
<1> SUFFICES ASSUME LocalInit PROVE LocalInv
  OBVIOUS
<1>1. HoldsInv /\ FileInv /\ JobInv /\ ChainInv
  BY HoldsInit, JobInit
<1>2. kept = {} /\ forgot = {} /\ rows = <<>> /\ at = [p \in Procs |-> "idle"]
  BY DEF LocalInit
<1>3. NonceInv /\ SaltedInv
  BY <1>2 DEF NonceInv, NoncesKept, SaltedInv, Seqs, Forgetting
<1> QED BY <1>1, <1>3 DEF LocalInv

LEMMA LocalInvNext == LocalInv /\ [LocalNext]_localVars => LocalInv'
<1> SUFFICES ASSUME LocalInv, [LocalNext]_localVars PROVE LocalInv'
  OBVIOUS
<1>1. HoldsInv' /\ ChainInv' /\ JobInv'
  BY HoldsNext, JobNext DEF LocalInv
<1>2. CASE UNCHANGED localVars
  <2>1. /\ nfile' = nfile /\ left' = left /\ copy' = copy /\ at' = at /\ job' = job /\ kept' = kept /\ asked' = asked
        /\ forgot' = forgot /\ rows' = rows
    BY <1>2 DEF localVars, nonceVars, dbVars, told
  <2>2. Stored' = Stored /\ OnDisk' = OnDisk /\ OnChain' = OnChain /\ Seqs' = Seqs
    BY <2>1 DEF Stored, OnDisk, OnChain, Seqs
  <2>3. FileInv' /\ NonceInv' /\ SaltedInv'
    BY <2>1, <2>2 DEF LocalInv, FileInv, NonceInv, NoncesKept, Target, SaltedInv
  <2> QED BY <1>1, <2>3 DEF LocalInv
<1>3. CASE LocalNext
  <2>1. PICK p \in Procs : LocalStep(p)
    BY <1>3 DEF LocalNext, LocalStep
  <2> QED BY <1>1, <2>1, NonceStep, SaltedStep DEF LocalInv
<1> QED BY <1>2, <1>3

LEMMA LocalAlways == LocalSpec => []LocalInv
<1> QED BY LocalInvInit, LocalInvNext, PTL DEF LocalSpec

\* commitTool and forget: a nonce whose storing was acknowledged stays stored, and every
\* salted entry on the chain has its own, until a forget of it was asked for - while an
\* append that reports an error has added nothing.
THEOREM NoncesAlwaysStand ==
    ASSUME ~Landed
    PROVE  LocalSpec => []NoncesStand
<1>1. LocalInv => NoncesStand
  BY DEF LocalInv, NonceInv, SaltedInv, NoncesStand, NoncesKept, SaltedOpens
<1> QED BY <1>1, LocalAlways, PTL

\* Forget: once it has said that no nonce is stored for an entry, none of its bytes are in
\* the file, in its free pages, or in a copy that a rewrite left.
THEOREM ForgottenStaysGone == LocalSpec => []ForgottenGone
<1>1. LocalInv => ForgottenGone
  BY DEF LocalInv, NonceInv, ForgottenGone
<1> QED BY <1>1, LocalAlways, PTL

-----------------------------------------------------------------------------
(* What a call has still to write, and what it wrote *)

\* Calls that passed the quota and are not on the chain yet; of these, who holds the database.
Holding == {"mcp.nonces", "mcp.put", "mcp.append"}
Pending == {"mcp.open"} \cup Holding

\* The entries a call wrote are the first of its ids, from where the chain ended.
Wrote(j) ==
    /\ NextSeq = j.first + j.done
    /\ \A i \in 1..j.done : j.first + i - 1 \in Seqs /\ rows[j.first + i - 1].id = j.ids[i]

WorkOk(p) ==
    LET j == job[p] IN
    /\ at[p] \in Pending => j.ids # <<>> /\ Len(j.ids) <= maxCommitEntries
    /\ at[p] \in Holding => NextSeq + Len(j.ids) - 1 <= MaxSeq /\ j.first = NextSeq
    /\ at[p] \in {"mcp.forget", "mcp.delete"} => Landed \/ j.first = NextSeq
    /\ at[p] = "cli.append" => /\ j.done < Len(j.ids) /\ NextSeq + Len(j.ids) - j.done - 1 <= MaxSeq
                               /\ ToSet(j.ids) \subseteq Ids /\ Wrote(j)
    /\ at[p] = "answer" => Landed \/ (Wrote(j) /\ Rising(j.ids) /\ (j.ok => j.done = Len(j.ids)))

WorkInv == \A p \in Procs : WorkOk(p)

\* Labels at which nothing is to be written.
Idling == Labels \ (Pending \cup {"mcp.forget", "mcp.delete", "cli.append", "answer"})

LEMMA WorkIdles ==
    ASSUME NEW p \in Procs, at'[p] \in Idling
    PROVE  WorkOk(p)'
BY DEF WorkOk, Idling, Pending, Holding

\* A call that answers that it wrote nothing.
LEMMA WorkAnswersNone ==
    ASSUME HoldsInv, JobInv, NEW p \in Procs, Answer(p, job[p], 0, FALSE), rows' = rows,
           Landed \/ (job[p].first = NextSeq /\ Rising(job[p].ids))
    PROVE  WorkOk(p)'
<1>1. PICK j : j = [job[p] EXCEPT !.done = 0, !.ok = FALSE]
  OBVIOUS
<1>2. job[p] \in Job /\ job \in [Procs -> Job]
  BY DEF JobInv
<1>3. j.done = 0 /\ ~j.ok /\ j.ids = job[p].ids /\ j.first = job[p].first /\ j.first \in Nat
  BY <1>1, <1>2 DEF Job
<1>4. job' = [job EXCEPT ![p] = j] /\ at' = [at EXCEPT ![p] = "answer"]
  BY <1>1 DEF Answer, Goto
<1>5. job'[p] = j /\ at'[p] = "answer"
  BY <1>2, <1>4 DEF HoldsInv
<1>6. NextSeq' = NextSeq
  BY DEF NextSeq, TailSeq, Seqs
<1>7. Landed \/ (NextSeq' = j.first + j.done /\ 1..j.done = {} /\ Rising(j.ids))
  BY <1>3, <1>6
<1>8. "answer" \notin Pending \cup Holding
  BY DEF Pending, Holding
<1> QED BY <1>3, <1>5, <1>7, <1>8 DEF WorkOk, Wrote

\* A call that goes on with the chain as it was.
LEMMA WorkGoes ==
    ASSUME HoldsInv, WorkInv, NEW p \in Procs, NEW l \in Holding \cup {"mcp.delete"}, at' = [at EXCEPT ![p] = l],
           job' = job, rows' = rows,
           l \in Holding => at[p] \in Holding, l = "mcp.delete" => at[p] = "mcp.forget"
    PROVE  WorkOk(p)'
<1>1. at'[p] = l /\ NextSeq' = NextSeq /\ l \notin {"cli.append", "answer", "mcp.forget", "mcp.open"}
  BY DEF HoldsInv, NextSeq, TailSeq, Seqs, Labels, McpSteps, Holding
<1>2. WorkOk(p)
  BY DEF WorkInv
<1> QED BY <1>1, <1>2 DEF WorkOk, Pending

\* The other calls' work stays as it is: who holds the database is alone on the chain.
LEMMA WorkOthers ==
    ASSUME HoldsInv, ChainInv, JobInv, WorkInv, NEW p \in Procs, LocalStep(p), NEW q \in Procs, q # p
    PROVE  WorkOk(q)'
<1>1. at'[q] = at[q] /\ job'[q] = job[q]
  BY OthersStay
<1>2. at[q] \in HoldsDb => rows' = rows
  <2>1. McpAppend(p) \/ CliAppend(p) => dblock = p
    BY DEF McpAppend, CliAppend, HoldsInv, HoldsDb, McpSteps
  <2>2. CliImport(p) => dblock = None
    BY DEF CliImport
  <2>3. at[q] \in HoldsDb => dblock = q
    BY DEF HoldsInv
  <2>4. rows' = rows \/ McpAppend(p) \/ CliAppend(p) \/ CliImport(p)
    BY StepAdds DEF Same
  <2> QED BY <2>1, <2>2, <2>3, <2>4, LocalAssumption
<1>3. rows' = rows => NextSeq' = NextSeq /\ Seqs' = Seqs
  BY DEF NextSeq, TailSeq, Seqs
<1>4. WorkOk(q)
  BY DEF WorkInv
<1>5. CASE at[q] \in HoldsDb
  BY <1>1, <1>2, <1>3, <1>4, <1>5 DEF WorkOk, Wrote
<1>6. CASE at[q] \notin HoldsDb
  <2>1. at[q] \notin Holding \cup {"mcp.forget", "mcp.delete", "cli.append", "answer"}
    BY <1>6 DEF HoldsDb, Holding, McpSteps, ForgetSteps
  <2> QED BY <1>1, <1>4, <2>1 DEF WorkOk
<1> QED BY <1>5, <1>6

LEMMA WorkCall == ASSUME HoldsInv, JobInv, NEW p \in Procs, McpCall(p) PROVE WorkOk(p)'
<1>1. PICK c \in Calls : Len(c) <= Cardinality(McpIds \ drawn) /\ job' = [job EXCEPT ![p] = Prepared(c, NewIds(Len(c)))]
  BY DEF McpCall
<1>2. c \in Seq(BOOLEAN) /\ c # <<>> /\ Len(c) <= maxCommitEntries /\ Len(c) \in Nat
  BY LocalAssumption
<1>3. PICK ids : ids = NewIds(Len(c))
  OBVIOUS
<1>4. ids \in Seq(Nat) /\ Len(ids) = Len(c)
  BY <1>1, <1>2, <1>3, NewIdsFresh
<1>5. PICK j : j = Prepared(c, ids)
  OBVIOUS
<1>6. j.ids = ids
  BY <1>5 DEF Prepared, NoJob
<1>7. job'[p] = j /\ at'[p] = "mcp.open"
  BY <1>1, <1>3, <1>5 DEF McpCall, Goto, HoldsInv
<1>8. ids # <<>> /\ Len(ids) <= maxCommitEntries
  BY <1>2, <1>4
<1> QED BY <1>6, <1>7, <1>8 DEF WorkOk, Pending, Holding

LEMMA WorkOpen == ASSUME HoldsInv, ChainInv, JobInv, WorkInv, NEW p \in Procs, McpOpen(p) PROVE WorkOk(p)'
<1>1. CASE Goto(p, "ready")
  <2>1. at'[p] \in Idling
    BY <1>1 DEF Goto, HoldsInv, Idling, Labels, Pending, Holding
  <2> QED BY <2>1, WorkIdles
<1>2. CASE Room(job[p].ids) /\ Goto(p, AfterOpen(job[p])) /\ job' = [job EXCEPT ![p].first = NextSeq]
  <2>1. PICK j : j = [job[p] EXCEPT !.first = NextSeq]
    OBVIOUS
  <2>2. j.ids = job[p].ids /\ j.first = NextSeq
    BY <2>1 DEF JobInv, Job
  <2>3. PICK l \in {"mcp.append", "mcp.nonces"} : at' = [at EXCEPT ![p] = l]
    BY <1>2 DEF Goto, AfterOpen
  <2>4. job'[p] = j /\ at'[p] = l
    BY <1>2, <2>1, <2>3 DEF HoldsInv
  <2>5. NextSeq' = NextSeq /\ at[p] = "mcp.open"
    BY DEF McpOpen, NextSeq, TailSeq, Seqs
  <2>6. job[p].ids # <<>> /\ Len(job[p].ids) <= maxCommitEntries
    BY <2>5 DEF WorkInv, WorkOk, Pending
  <2>7. NextSeq + Len(job[p].ids) - 1 <= MaxSeq
    BY <1>2 DEF Room
  <2> QED BY <2>2, <2>4, <2>5, <2>6, <2>7 DEF WorkOk
<1> QED BY <1>1, <1>2 DEF McpOpen

LEMMA WorkNonces ==
    ASSUME HoldsInv, ChainInv, JobInv, WorkInv, NEW p \in Procs,
           McpNonces(p) \/ McpPut(p) \/ McpForget(p) \/ McpDelete(p)
    PROVE  WorkOk(p)'
<1>1. rows' = rows /\ at[p] \in {"mcp.nonces", "mcp.put", "mcp.forget", "mcp.delete"}
  BY RowsStay DEF McpNonces, McpPut, McpForget, McpDelete
<1>2. Landed \/ (job[p].first = NextSeq /\ Rising(job[p].ids))
  <2>1. WorkOk(p) /\ JobOk(p)
    BY DEF WorkInv, JobInv
  <2> QED BY <1>1, <2>1 DEF WorkOk, JobOk, Holding, McpSteps
<1>3. Answer(p, job[p], 0, FALSE) => WorkOk(p)'
  BY <1>1, <1>2, WorkAnswersNone
<1>4. CASE McpNonces(p)
  <2>1. Answer(p, job[p], 0, FALSE) \/ (Goto(p, "mcp.put") /\ job' = job)
    BY <1>4 DEF McpNonces
  <2> QED BY <1>1, <1>3, <1>4, <2>1, WorkGoes DEF Goto, Holding, McpNonces
<1>5. CASE McpPut(p)
  <2>1. Answer(p, job[p], 0, FALSE) \/ (Goto(p, "mcp.append") /\ job' = job)
    BY <1>5 DEF McpPut
  <2> QED BY <1>1, <1>3, <1>5, <2>1, WorkGoes DEF Goto, Holding, McpPut
<1>6. CASE McpForget(p)
  <2>1. Answer(p, job[p], 0, FALSE) \/ (Goto(p, "mcp.delete") /\ job' = job)
    BY <1>6 DEF McpForget
  <2>2. at[p] = "mcp.forget"
    BY <1>6 DEF McpForget
  <2> QED BY <1>1, <1>3, <2>1, <2>2, WorkGoes DEF Goto, Holding
<1>7. CASE McpDelete(p)
  BY <1>3, <1>7 DEF McpDelete
<1> QED BY <1>4, <1>5, <1>6, <1>7

\* The append of a call: with its entries, the first of them where the chain ended.
LEMMA WorkAppend == ASSUME HoldsInv, ChainInv, JobInv, WorkInv, NEW p \in Procs, McpAppend(p) PROVE WorkOk(p)'
<1>j. PICK j : j = job[p]
  OBVIOUS
<1>1. at[p] = "mcp.append" /\ j \in Job /\ Rising(j.ids) /\ j.first = NextSeq
  BY <1>j DEF McpAppend, JobInv, JobOk, McpSteps, WorkInv, WorkOk, Holding
<1>2. CASE AppendFails /\ Answer(p, j, 0, FALSE)
  BY <1>j, <1>1, <1>2, WorkAnswersNone DEF AppendFails
<1>3. CASE AppendLands(j.ids, j.salted, "mcp") /\ Answer(p, j, 0, FALSE)
  <2>1. at'[p] = "answer"
    BY <1>3 DEF Answer, Goto, HoldsInv
  <2> QED BY <1>3, <2>1 DEF WorkOk, AppendLands, Pending, Holding
<1>4. CASE (AppendFails \/ AppendLands(j.ids, j.salted, "mcp")) /\ Goto(p, "mcp.forget") /\ UNCHANGED job
  <2>1. at'[p] = "mcp.forget" /\ job'[p] = j
    BY <1>j, <1>4 DEF Goto, HoldsInv
  <2>2. Landed \/ NextSeq' = NextSeq
    <3>1. Landed \/ rows' = rows
      BY <1>4 DEF AppendFails, AppendLands
    <3>2. ASSUME rows' = rows PROVE NextSeq' = NextSeq
      BY <3>2 DEF NextSeq, TailSeq, Seqs
    <3> QED BY <3>1, <3>2
  <2> QED BY <1>1, <2>1, <2>2 DEF WorkOk, Pending, Holding
<1>5. CASE Appended(j.ids, j.salted, "mcp") /\ Answer(p, j, Len(j.ids), TRUE)
  <2>1. PICK ids \in Seq(Nat), first \in Nat, len \in Nat : ids = j.ids /\ first = NextSeq /\ len = Len(ids)
    <3>1. j.ids \in Seq(Nat) /\ NextSeq \in Nat /\ Len(j.ids) \in Nat
      BY <1>1 DEF Job, ChainInv
    <3> QED BY <3>1
  <2>2. PICK k : k = [j EXCEPT !.done = len, !.ok = TRUE]
    OBVIOUS
  <2>3. k.done = len /\ k.ids = ids /\ k.first = first
    BY <1>1, <2>1, <2>2 DEF Job
  <2>4. job'[p] = k /\ at'[p] = "answer"
    BY <1>5, <1>j, <2>1, <2>2 DEF Answer, Goto, HoldsInv
  <2>5. ChainInv' /\ Adds(TailHash, ids, j.salted, "mcp")
    BY <1>1, <1>5, <2>1, AppendExtends
  <2>6. /\ NextSeq' = first + len /\ Len(TailHash) = first
        /\ Seqs' = Seqs \cup (first..(first + len - 1)) /\ Seqs \cap (first..(first + len - 1)) = {}
        /\ \A s \in Seqs' : s \notin Seqs => rows'[s].id = ids[s - first + 1]
    BY <2>1, <2>5 DEF Adds, Extended, ChainInv
  <2>7. ASSUME NEW i \in 1..len PROVE first + i - 1 \in Seqs' /\ rows'[first + i - 1].id = ids[i]
    <3>1. first + i - 1 \in first..(first + len - 1) /\ first + i - 1 - first + 1 = i
      OBVIOUS
    <3> QED BY <2>6, <3>1
  <2>8. Wrote(k)'
    BY <2>3, <2>6, <2>7 DEF Wrote
  <2> QED BY <1>1, <2>1, <2>3, <2>4, <2>8 DEF WorkOk, Pending, Holding
<1> QED BY <1>j, <1>2, <1>3, <1>4, <1>5 DEF McpAppend

-----------------------------------------------------------------------------
(* proof commit *)

LEMMA WorkCommit == ASSUME HoldsInv, ChainInv, JobInv, WorkInv, NEW p \in Procs, CliCommit(p) PROVE WorkOk(p)'
<1>1. PICK ids \in Inputs :
         LET j == [NoJob EXCEPT !.ids = Ordered(ids), !.first = NextSeq] IN
         /\ Readable(ids) /\ Room(ids)
         /\ IF Held(ids) THEN Answer(p, [j EXCEPT !.ids = <<>>], 0, FALSE)
            ELSE Goto(p, "cli.append") /\ job' = [job EXCEPT ![p] = j]
  BY Zenon DEF CliCommit
<1>2. rows' = rows /\ NextSeq \in Nat
  BY DEF CliCommit, ChainInv
<1>0. NextSeq' = NextSeq
  BY <1>2 DEF NextSeq, TailSeq, Seqs
<1>o. PICK o : o = Ordered(ids)
  OBVIOUS
<1>f. PICK first \in Nat : first = NextSeq
  BY <1>2
<1>3. PICK j : j = [NoJob EXCEPT !.ids = o, !.first = first]
  OBVIOUS
<1>4. /\ o \in Seq(Nat) /\ Rising(o) /\ ToSet(o) = ToSet(ids) /\ Len(o) <= Len(ids) /\ ids \in Seq(Nat)
  <2>1. ids \in Seq(Nat)
    BY LocalAssumption
  <2> QED BY <1>o, <2>1, OrderedIds
<1>5. j = [ids |-> o, salted |-> {}, prev |-> <<>>, done |-> 0, ok |-> FALSE, first |-> first]
  BY <1>3 DEF NoJob
<1>6. CASE Answer(p, [j EXCEPT !.ids = <<>>], 0, FALSE)
  <2>1. PICK k : k = [[j EXCEPT !.ids = <<>>] EXCEPT !.done = 0, !.ok = FALSE]
    OBVIOUS
  <2>2. k = [ids |-> <<>>, salted |-> {}, prev |-> <<>>, done |-> 0, ok |-> FALSE, first |-> first]
    BY <1>5, <2>1
  <2>3. k.ids = <<>> /\ k.done = 0 /\ k.first = first /\ ~k.ok
    BY <2>2
  <2>4. job'[p] = k /\ at'[p] = "answer"
    BY <1>6, <2>1 DEF Answer, Goto, JobInv, HoldsInv
  <2>5. Wrote(k)'
    BY <1>0, <1>f, <2>3 DEF Wrote
  <2>6. Rising(<<>>)
    BY DEF Rising
  <2> QED BY <2>3, <2>4, <2>5, <2>6 DEF WorkOk, Pending, Holding
<1>7. CASE ~Held(ids) /\ Readable(ids) /\ Room(ids) /\ Goto(p, "cli.append") /\ job' = [job EXCEPT ![p] = j]
  <2>1. job'[p] = j /\ at'[p] = "cli.append"
    BY <1>7 DEF Goto, JobInv, HoldsInv
  <2>2. j.ids = o /\ j.done = 0 /\ j.first = first
    BY <1>5
  <2>3. Len(o) > 0
    <3>1. ids # <<>> /\ Len(ids) \in Nat /\ DOMAIN ids = 1..Len(ids)
      BY <1>4, <1>7 DEF Readable
    <3>2. Len(ids) # 0
      BY <1>4, <3>1
    <3>3. ids[1] \in ToSet(ids)
      BY <3>1, <3>2 DEF ToSet
    <3>4. o # <<>>
      <4>1. ToSet(<<>>) = {}
        BY DEF ToSet
      <4> QED BY <1>4, <3>3, <4>1, Zenon
    <3> QED BY <1>4, <3>4
  <2>4. first + Len(o) - 0 - 1 <= MaxSeq
    <3>1. first + Len(ids) - 1 <= MaxSeq /\ Len(o) \in Nat /\ Len(ids) \in Nat /\ MaxSeq \in Nat
      BY <1>f, <1>4, <1>7, LocalAssumption DEF Room
    <3> QED BY <1>4, <3>1
  <2>5. ToSet(o) \subseteq Ids
    BY <1>4 DEF Ids
  <2>6. Wrote(j)'
    BY <1>0, <1>f, <2>2 DEF Wrote
  <2> HIDE DEF ToSet
  <2> QED BY <1>0, <1>f, <2>1, <2>2, <2>3, <2>4, <2>5, <2>6 DEF WorkOk, Pending, Holding
<1> QED BY <1>1, <1>o, <1>f, <1>3, <1>6, <1>7, Zenon

\* A batch that is on the chain is counted, and the rest still fits.
LEMMA WorkBatch ==
    ASSUME ChainInv, NEW j \in Job, Wrote(j), NEW k \in Job, NEW b \in Seq(Nat), Rising(b),
           Appended(b, {}, "cli"), k.ids = j.ids, k.first = j.first, k.done = j.done + Len(b),
           k.done <= Len(j.ids), \A i \in 1..Len(b) : b[i] = j.ids[j.done + i]
    PROVE  Wrote(k)' /\ NextSeq' = NextSeq + Len(b)
<1>1. PICK first \in Nat, d \in Nat, len \in Nat : first = j.first /\ d = j.done /\ len = Len(b)
  <2>1. j.first \in Nat /\ j.done \in Nat /\ Len(b) \in Nat
    BY DEF Job
  <2> QED BY <2>1
<1>2. NextSeq = first + d /\ \A i \in 1..d : first + i - 1 \in Seqs /\ rows[first + i - 1].id = j.ids[i]
  BY <1>1 DEF Wrote
<1>3. Adds(TailHash, b, {}, "cli")
  BY AppendExtends
<1>4. /\ NextSeq' = first + d + len /\ Len(TailHash) = first + d
      /\ Seqs' = Seqs \cup ((first + d)..(first + d + len - 1)) /\ Seqs \cap ((first + d)..(first + d + len - 1)) = {}
      /\ \A s \in Seqs : rows'[s] = rows[s]
      /\ \A s \in Seqs' : s \notin Seqs => rows'[s].id = b[s - (first + d) + 1]
  BY <1>1, <1>2, <1>3 DEF Adds, Extended, ChainInv
<1>5. ASSUME NEW i \in 1..(d + len) PROVE first + i - 1 \in Seqs' /\ rows'[first + i - 1].id = j.ids[i]
  <2>1. CASE i <= d
    <3>1. i \in 1..d
      BY <2>1
    <3> QED BY <1>2, <1>4, <3>1
  <2>2. CASE i > d
    <3>1. PICK m \in 1..len : i = d + m
      <4>1. i - d \in 1..len /\ i = d + (i - d)
        BY <2>2
      <4> QED BY <4>1
    <3>2. first + i - 1 \in (first + d)..(first + d + len - 1) /\ first + i - 1 - (first + d) + 1 = m
      BY <3>1
    <3>3. first + i - 1 \in Seqs' /\ rows'[first + i - 1].id = b[m]
      BY <1>4, <3>2
    <3>4. b[m] = j.ids[d + m]
      BY <1>1, <3>1
    <3> QED BY <3>1, <3>3, <3>4
  <2> QED BY <2>1, <2>2
<1> QED BY <1>1, <1>2, <1>4, <1>5 DEF Wrote

LEMMA WorkCliAppend == ASSUME HoldsInv, ChainInv, JobInv, WorkInv, NEW p \in Procs, CliAppend(p) PROVE WorkOk(p)'
<1>j. PICK j \in Job : j = job[p]
  BY DEF JobInv
<1>1. /\ at[p] = "cli.append" /\ Rising(j.ids) /\ j.done < Len(j.ids) /\ NextSeq + Len(j.ids) - j.done - 1 <= MaxSeq
      /\ ToSet(j.ids) \subseteq Ids /\ Wrote(j) /\ j.done \in Nat /\ Len(j.ids) \in Nat /\ NextSeq \in Nat
  BY <1>j DEF CliAppend, JobInv, JobOk, WorkInv, WorkOk, Job, ChainInv
<1>2. PICK b \in Seq(Nat), n \in Nat :
         /\ b = NextBatch(j) /\ n = j.done + Len(b) /\ n <= Len(j.ids)
         /\ Rising(b) /\ \A i \in 1..Len(b) : b[i] = j.ids[j.done + i]
  <2>1. j.done <= Len(j.ids)
    BY <1>1
  <2> QED BY <1>1, <1>j, <2>1, BatchIs
<1>3. \/ AppendFails /\ Answer(p, j, j.done, FALSE)
      \/ AppendLands(b, {}, "cli") /\ Answer(p, j, j.done, FALSE)
      \/ Appended(b, {}, "cli") /\ n >= Len(j.ids) /\ Answer(p, j, n, TRUE)
      \/ Appended(b, {}, "cli") /\ ~(n >= Len(j.ids)) /\ job' = [job EXCEPT ![p].done = n] /\ UNCHANGED at
  BY <1>2, <1>j, Zenon DEF CliAppend
<1>4. CASE AppendFails /\ Answer(p, j, j.done, FALSE)
  <2>1. PICK k : k = [j EXCEPT !.done = j.done, !.ok = FALSE]
    OBVIOUS
  <2>2. k.done = j.done /\ k.ids = j.ids /\ k.first = j.first /\ ~k.ok
    BY <2>1 DEF Job
  <2>3. job'[p] = k /\ at'[p] = "answer"
    BY <1>4, <1>j, <2>1 DEF Answer, Goto, HoldsInv
  <2>4. rows' = rows
    BY <1>4 DEF AppendFails
  <2>5. NextSeq' = NextSeq /\ Seqs' = Seqs
    BY <2>4 DEF NextSeq, TailSeq, Seqs
  <2>6. Wrote(k)'
    BY <1>1, <2>2, <2>4, <2>5 DEF Wrote
  <2> QED BY <1>1, <2>2, <2>3, <2>6 DEF WorkOk, Pending, Holding
<1>5. CASE AppendLands(b, {}, "cli") /\ Answer(p, j, j.done, FALSE)
  <2>1. at'[p] = "answer"
    BY <1>5 DEF Answer, Goto, HoldsInv
  <2> QED BY <1>5, <2>1 DEF WorkOk, AppendLands, Pending, Holding
<1>6. ASSUME NEW k, k = [j EXCEPT !.done = n] \/ k = [j EXCEPT !.done = n, !.ok = TRUE], Appended(b, {}, "cli")
      PROVE  k.ids = j.ids /\ k.done = n /\ Wrote(k)' /\ NextSeq' = NextSeq + Len(b)
  <2>1. k \in Job /\ k.ids = j.ids /\ k.done = n /\ k.first = j.first
    BY <1>6 DEF Job
  <2> QED BY <1>1, <1>2, <1>6, <2>1, WorkBatch
<1>7. CASE Appended(b, {}, "cli") /\ n >= Len(j.ids) /\ Answer(p, j, n, TRUE)
  <2>1. PICK k : k = [j EXCEPT !.done = n, !.ok = TRUE]
    OBVIOUS
  <2>2. k.ids = j.ids /\ k.done = n /\ Wrote(k)'
    BY <1>6, <1>7, <2>1
  <2>3. job'[p] = k /\ at'[p] = "answer"
    BY <1>7, <1>j, <2>1 DEF Answer, Goto, HoldsInv
  <2>4. n = Len(j.ids)
    BY <1>1, <1>2, <1>7
  <2> QED BY <1>1, <2>2, <2>3, <2>4 DEF WorkOk, Pending, Holding
<1>8. CASE Appended(b, {}, "cli") /\ ~(n >= Len(j.ids)) /\ job' = [job EXCEPT ![p].done = n] /\ UNCHANGED at
  <2>1. PICK k : k = [j EXCEPT !.done = n]
    OBVIOUS
  <2>2. k.ids = j.ids /\ k.done = n /\ Wrote(k)' /\ NextSeq' = NextSeq + Len(b)
    BY <1>6, <1>8, <2>1
  <2>3. job'[p] = k /\ at'[p] = "cli.append"
    BY <1>1, <1>8, <1>j, <2>1 DEF HoldsInv
  <2>4. n < Len(j.ids) /\ NextSeq' + Len(j.ids) - n - 1 <= MaxSeq
    <3>1. Len(b) \in Nat /\ MaxSeq \in Nat
      BY LocalAssumption
    <3> QED BY <1>1, <1>2, <1>8, <2>2, <3>1
  <2> HIDE DEF ToSet
  <2> QED BY <1>1, <2>2, <2>3, <2>4 DEF WorkOk, Pending, Holding
<1> QED BY <1>3, <1>4, <1>5, <1>7, <1>8

LEMMA WorkStep ==
    ASSUME HoldsInv, ChainInv, JobInv, WorkInv, NEW p \in Procs, LocalStep(p)
    PROVE  WorkInv'
<1>1. WorkOk(p)'
  <2> USE DEF Goto, HoldsInv, Idling, Labels, McpSteps, ForgetSteps, Pending, Holding
  <2>1. CASE Launch(p) \/ Stop(p) \/ Kill(p) BY <2>1, WorkIdles DEF Launch, Stop, Kill
  <2>2. CASE DiscloseOpen(p) \/ DiscloseGet(p) BY <2>2, WorkIdles DEF DiscloseOpen, DiscloseGet
  <2>3. CASE \E id \in Targets : DiscloseRead(p, id) \/ ForgetRead(p, id) BY <2>3, WorkIdles DEF DiscloseRead, ForgetRead
  <2>4. CASE ForgetOpenDb(p) \/ ForgetOpen(p) BY <2>4, WorkIdles DEF ForgetOpenDb, ForgetOpen, ForgetEnds
  <2>5. CASE ForgetDelete(p) BY <2>5, WorkIdles DEF ForgetDelete, ForgetEnds
  <2>6. CASE ForgetCompact(p) \/ ForgetCopy(p) BY <2>6, WorkIdles DEF ForgetCompact, ForgetCopy, ForgetEnds
  <2>7. CASE ForgetRename(p) BY <2>7, WorkIdles DEF ForgetRename, ForgetEnds
  <2>8. CASE OtherOpen(p) \/ OtherPut(p) BY <2>8, WorkIdles DEF OtherOpen, OtherPut
  <2>9. CASE GiveAnswer(p) BY <2>9, WorkIdles DEF GiveAnswer
  <2>10. CASE CliImport(p) BY <2>10, WorkIdles DEF CliImport
  <2> QED BY <2>1, <2>2, <2>3, <2>4, <2>5, <2>6, <2>7, <2>8, <2>9, <2>10, WorkCall, WorkOpen, WorkNonces, WorkAppend,
             WorkCommit, WorkCliAppend DEF LocalStep
<1> QED BY <1>1, WorkOthers DEF WorkInv

-----------------------------------------------------------------------------
(* The chain *)

ChainSound ==
    /\ OnChain \subseteq Ids /\ IdsOnce /\ \A s \in Seqs : s <= MaxSeq
    /\ head # None => \E s \in Seqs : head = HashOf(rows[s])

\* A batch is behind every entry, and holds no id of theirs or one twice, unless it is imported.
LEMMA SoundAdds ==
    ASSUME ChainInv, ChainSound, NEW prev \in Seq(Nat), NEW ids \in Seq(Nat), NEW salted, NEW by,
           Adds(prev, ids, salted, by), ids # <<>>, ToSet(ids) \subseteq Ids, Len(prev) + Len(ids) - 1 <= MaxSeq,
           by = "import" \/ (Rising(ids) /\ ToSet(ids) \cap OnChain = {})
    PROVE  ChainSound'
<1>1. PICK at0 \in Nat, len \in Nat : at0 = Len(prev) /\ len = Len(ids)
  OBVIOUS
<1>2. /\ Seqs' = Seqs \cup (at0..(at0 + len - 1)) /\ Seqs \cap (at0..(at0 + len - 1)) = {}
      /\ \A s \in Seqs : rows'[s] = rows[s]
      /\ \A s \in Seqs' : s \notin Seqs =>
            /\ rows'[s].by = by /\ rows'[s].id \in ToSet(ids) /\ rows'[s].id = ids[s - at0 + 1] /\ \A t \in Seqs : t < s
      /\ OnChain' = OnChain \cup ToSet(ids) /\ \E s \in Seqs' : HashOf(rows'[s]) = prev \o ids
      /\ head' = head \/ head' = prev \o ids
  BY <1>1 DEF Adds, Extended
<1>3. (\A s \in Seqs' : s \in Nat) /\ (\A s \in Seqs : s \in Nat)
  <2>1. \A s \in Seqs : s \in Nat
    BY DEF ChainInv
  <2> QED BY <1>2, <2>1
<1>4. \A s \in Seqs' : s <= MaxSeq
  BY <1>1, <1>2, LocalAssumption DEF ChainSound
<1>5. ASSUME NEW s \in Seqs', NEW t \in Seqs', s < t, rows'[s].id = rows'[t].id, rows'[t].by # "import" PROVE FALSE
  <2>1. CASE t \in Seqs
    <3>1. s \in Seqs
      BY <1>2, <1>3, <1>5, <2>1
    <3> QED BY <1>2, <1>5, <2>1, <3>1 DEF ChainSound, IdsOnce
  <2>2. CASE t \notin Seqs
    <3>1. rows'[t].by = by /\ rows'[t].id \in ToSet(ids) /\ rows'[t].id = ids[t - at0 + 1] /\ t \in at0..(at0 + len - 1)
      BY <1>2, <2>2
    <3>2. Rising(ids) /\ ToSet(ids) \cap OnChain = {}
      BY <1>5, <3>1
    <3>3. CASE s \in Seqs
      <4>1. rows[s].id \in OnChain /\ rows'[s] = rows[s]
        BY <1>2, <3>3 DEF OnChain
      <4> QED BY <1>5, <3>1, <3>2, <4>1
    <3>4. CASE s \notin Seqs
      <4>1. rows'[s].id = ids[s - at0 + 1] /\ s \in at0..(at0 + len - 1)
        BY <1>2, <3>4
      <4>2. s - at0 + 1 \in 1..len /\ t - at0 + 1 \in 1..len /\ s - at0 + 1 < t - at0 + 1
        <5>1. s \in Nat /\ t \in Nat /\ s < t /\ at0 <= s /\ at0 <= t /\ s <= at0 + len - 1 /\ t <= at0 + len - 1
          BY <1>3, <1>5, <3>1, <4>1
        <5> QED BY <5>1
      <4>3. ids[s - at0 + 1] < ids[t - at0 + 1] /\ ids[s - at0 + 1] \in Nat /\ ids[t - at0 + 1] \in Nat
        BY <1>1, <3>2, <4>2 DEF Rising
      <4> QED BY <1>5, <3>1, <4>1, <4>3
    <3> QED BY <3>3, <3>4
  <2> QED BY <2>1, <2>2
<1>6. IdsOnce'
  BY <1>5 DEF IdsOnce
<1>7. head' # None => \E s \in Seqs' : head' = HashOf(rows'[s])
  <2>1. CASE head' = head
    BY <1>2, <2>1 DEF ChainSound, HashOf
  <2>2. CASE head' = prev \o ids
    BY <1>2, <2>2
  <2> QED BY <1>2, <2>1, <2>2
<1>8. OnChain' \subseteq Ids
  BY <1>2 DEF ChainSound
<1> QED BY <1>4, <1>6, <1>7, <1>8 DEF ChainSound, HashOf

LEMMA SoundStep ==
    ASSUME HoldsInv, ChainInv, JobInv, WorkInv, ChainSound, NEW p \in Procs, LocalStep(p)
    PROVE  ChainSound'
<1>1. CASE Same
  <2>1. rows' = rows /\ head' = head
    BY <1>1 DEF Same
  <2> QED BY <2>1 DEF ChainSound, OnChain, IdsOnce, Seqs, HashOf
<1>2. CASE McpAppend(p) /\ Adds(TailHash, job[p].ids, job[p].salted, "mcp")
  <2>1. PICK ids \in Seq(Nat) : ids = job[p].ids
    BY DEF JobInv, Job
  <2>2. /\ at[p] = "mcp.append" /\ ToSet(ids) \subseteq McpIds /\ ToSet(ids) \cap OnChain = {} /\ Rising(ids)
        /\ ids # <<>> /\ NextSeq + Len(ids) - 1 <= MaxSeq
    BY <1>2, <2>1 DEF McpAppend, JobInv, JobOk, McpSteps, Unwritten, WorkInv, WorkOk, Pending, Holding
  <2>3. ToSet(ids) \subseteq Ids /\ TailHash \in Seq(Nat) /\ Len(TailHash) = NextSeq
    BY <2>2 DEF Ids, ChainInv
  <2> QED BY <1>2, <2>1, <2>2, <2>3, SoundAdds
<1>3. CASE CliAppend(p) /\ ToSet(NextBatch(job[p])) \cap OnChain = {} /\ Adds(TailHash, NextBatch(job[p]), {}, "cli")
  <2>1. PICK j \in Job : j = job[p]
    BY DEF JobInv
  <2>2. /\ at[p] = "cli.append" /\ Rising(j.ids) /\ ToSet(j.ids) \subseteq Ids /\ j.done < Len(j.ids)
        /\ NextSeq + Len(j.ids) - j.done - 1 <= MaxSeq /\ j.done \in Nat /\ Len(j.ids) \in Nat /\ NextSeq \in Nat
    BY <1>3, <2>1 DEF CliAppend, JobInv, JobOk, WorkInv, WorkOk, Job, ChainInv
  <2>3. PICK b \in Seq(Nat), n \in Nat :
           /\ b = NextBatch(j) /\ n = j.done + Len(b) /\ n <= Len(j.ids) /\ Rising(b)
           /\ ToSet(b) \subseteq ToSet(j.ids) /\ b # <<>>
    <3>1. j.done <= Len(j.ids)
      BY <2>2
    <3> QED BY <2>1, <2>2, <3>1, BatchIs
  <2>4. TailHash \in Seq(Nat) /\ Len(TailHash) + Len(b) - 1 <= MaxSeq
    <3>1. TailHash \in Seq(Nat) /\ Len(TailHash) = NextSeq /\ Len(b) \in Nat /\ MaxSeq \in Nat
      BY LocalAssumption DEF ChainInv
    <3> QED BY <2>2, <2>3, <3>1
  <2>5. ToSet(b) \subseteq Ids /\ ToSet(b) \cap OnChain = {} /\ Adds(TailHash, b, {}, "cli")
    BY <1>3, <2>1, <2>2, <2>3
  <2> HIDE DEF ToSet
  <2> QED BY <2>3, <2>4, <2>5, SoundAdds
<1>4. CASE \E prev, ids \in Seq(Nat) :
              /\ ids # <<>> /\ ToSet(ids) \cap Nonces = {} /\ \E e \in Elsewhere : ToSet(ids) \subseteq ToSet(e)
              /\ Len(prev) + Len(ids) - 1 <= MaxSeq
              /\ Adds(prev, ids, {}, "import")
  <2>1. PICK prev \in Seq(Nat), ids \in Seq(Nat) :
              /\ ids # <<>> /\ \E e \in Elsewhere : ToSet(ids) \subseteq ToSet(e)
              /\ Len(prev) + Len(ids) - 1 <= MaxSeq
              /\ Adds(prev, ids, {}, "import")
    BY <1>4
  <2>2. PICK e \in Elsewhere : ToSet(ids) \subseteq ToSet(e)
    BY <2>1
  <2>3. ToSet(e) \subseteq Ids
    BY DEF Ids
  <2> HIDE DEF ToSet
  <2>4. ToSet(ids) \subseteq Ids
    BY <2>2, <2>3
  <2> QED BY <2>1, <2>4, SoundAdds
<1> QED BY <1>1, <1>2, <1>3, <1>4, StepAdds

-----------------------------------------------------------------------------
(* The quota *)

McpRows == {s \in Seqs : rows[s].by = "mcp"}
Pend    == {p \in Procs : at[p] \in Pending}

\* A call that passed the quota has its entries still to come.
QuotaInv == Cardinality(McpRows) + maxCommitEntries * Cardinality(Pend)
                <= maxDB - 1 + maxCommitEntries * Cardinality(Procs)

LEMMA TimesLess ==
    ASSUME NEW m \in Nat, NEW a \in Nat, NEW b \in Nat, a <= b
    PROVE  m * a <= m * b /\ m * a \in Nat /\ m * (a + 1) = m * a + m
<1>1. PICK c \in Nat : b = a + c
  <2>1. b - a \in Nat /\ b = a + (b - a)
    OBVIOUS
  <2> QED BY <2>1
<1>2. m * c \in Nat /\ m * (a + c) = m * a + m * c /\ m * a \in Nat
  OBVIOUS
<1> QED BY <1>1, <1>2

LEMMA Counted ==
    ASSUME ChainInv
    PROVE  /\ IsFiniteSet(Seqs) /\ IsFiniteSet(McpRows) /\ IsFiniteSet(Pend) /\ Cardinality(McpRows) \in Nat
           /\ Cardinality(Pend) \in Nat /\ Cardinality(Procs) \in Nat /\ Cardinality(Pend) <= Cardinality(Procs)
           /\ Cardinality(McpRows) <= Cardinality(Seqs) /\ Cardinality(Seqs) \in Nat
<1>1. PICK m \in Nat, n \in Nat : Seqs = m..(n - 1)
  BY DEF ChainInv
<1>2. IsFiniteSet(Seqs)
  BY <1>1, FS_Interval
<1>3. IsFiniteSet(Procs) /\ Pend \in SUBSET Procs /\ McpRows \in SUBSET Seqs
  BY LocalAssumption DEF Pend, McpRows
<1>4. IsFiniteSet(McpRows) /\ Cardinality(McpRows) <= Cardinality(Seqs)
  BY <1>2, <1>3, FS_Subset
<1>5. IsFiniteSet(Pend) /\ Cardinality(Pend) <= Cardinality(Procs)
  BY <1>3, FS_Subset
<1> QED BY <1>2, <1>3, <1>4, <1>5, FS_CardinalityType

\* The steps that let a call pass, and that write its entries.
LEMMA PendStep ==
    ASSUME HoldsInv, NEW p \in Procs, LocalStep(p), ~McpCall(p), at'[p] \in Pending
    PROVE  at[p] \in Pending /\ ~McpAppend(p)
<1> USE DEF Goto, Answer, HoldsInv, Pending, Holding
<1>1. CASE Launch(p) \/ McpOpen(p) \/ McpNonces(p) BY <1>1 DEF Launch, McpOpen, McpNonces, McpAppend
<1>2. CASE McpPut(p) \/ McpForget(p) \/ McpDelete(p) BY <1>2 DEF McpPut, McpForget, McpDelete, McpAppend
<1>3. CASE McpAppend(p)
  <2>1. at' = [at EXCEPT ![p] = "answer"] \/ at' = [at EXCEPT ![p] = "mcp.forget"]
    BY <1>3 DEF McpAppend
  <2> QED BY <2>1
<1>4. CASE CliCommit(p)
  <2>1. at' = [at EXCEPT ![p] = "answer"] \/ at' = [at EXCEPT ![p] = "cli.append"]
    BY <1>4, Zenon DEF CliCommit, Answer
  <2> QED BY <2>1
<1>5. CASE CliAppend(p)
  <2>1. at[p] = "cli.append" /\ (at' = [at EXCEPT ![p] = "answer"] \/ at' = at)
    BY <1>5, Zenon DEF CliAppend, Answer
  <2> QED BY <2>1
<1>6. CASE CliImport(p) \/ DiscloseOpen(p) \/ DiscloseGet(p) BY <1>6 DEF CliImport, DiscloseOpen, DiscloseGet
<1>7. CASE \E id \in Targets : DiscloseRead(p, id) \/ ForgetRead(p, id) BY <1>7 DEF DiscloseRead, ForgetRead
<1>8. CASE ForgetOpenDb(p) \/ ForgetOpen(p) BY <1>8 DEF ForgetOpenDb, ForgetOpen, ForgetEnds
<1>9. CASE ForgetDelete(p) BY <1>9 DEF ForgetDelete, ForgetEnds
<1>10. CASE ForgetCompact(p) \/ ForgetCopy(p) BY <1>10 DEF ForgetCompact, ForgetCopy, ForgetEnds
<1>11. CASE ForgetRename(p) BY <1>11 DEF ForgetRename, ForgetEnds
<1>12. CASE OtherOpen(p) \/ OtherPut(p) BY <1>12 DEF OtherOpen, OtherPut
<1>13. CASE GiveAnswer(p) BY <1>13 DEF GiveAnswer
<1>14. CASE Stop(p) \/ Kill(p) BY <1>14 DEF Stop, Kill
<1> QED BY <1>1, <1>2, <1>3, <1>4, <1>5, <1>6, <1>7, <1>8, <1>9, <1>10, <1>11, <1>12, <1>13, <1>14 DEF LocalStep

LEMMA QuotaStep ==
    ASSUME HoldsInv, ChainInv, ChainInv', JobInv, WorkInv, QuotaInv, NEW p \in Procs, LocalStep(p)
    PROVE  QuotaInv'
<1> DEFINE M == maxCommitEntries
           R == Cardinality(McpRows)
           P == Cardinality(Pend)
           N == Cardinality(Procs)
<1>1. M \in Nat /\ maxDB \in Nat \ {0} /\ R \in Nat /\ P \in Nat /\ N \in Nat /\ P <= N
  BY Counted, LocalAssumption
<1>2. Cardinality(McpRows)' \in Nat /\ Cardinality(Pend)' \in Nat /\ Cardinality(Pend)' <= N /\ Cardinality(Procs)' = N
  <2>1. IsFiniteSet(Pend') /\ IsFiniteSet(McpRows') /\ Pend' \in SUBSET Procs /\ IsFiniteSet(Procs)
    <3>1. PICK m \in Nat, n \in Nat : Seqs' = m..(n - 1)
      BY DEF ChainInv
    <3>2. McpRows' \in SUBSET Seqs' /\ Pend' \in SUBSET Procs /\ IsFiniteSet(Procs)
      BY LocalAssumption DEF McpRows, Pend
    <3>3. IsFiniteSet(Seqs')
      BY <3>1, FS_Interval
    <3> QED BY <3>2, <3>3, FS_Subset
  <2>2. Cardinality(Pend') <= Cardinality(Procs)
    BY <2>1, FS_Subset
  <2> QED BY <1>1, <2>1, <2>2, FS_CardinalityType
<1>q. R + M * P <= maxDB - 1 + M * N
  BY DEF QuotaInv
<1>3. McpCall(p) => R <= maxDB - 1 /\ McpRows' = McpRows
  <2>1. McpCall(p) => ~(Cardinality(Seqs) >= maxDB) /\ rows' = rows
    BY RowsStay DEF McpCall, OverQuota
  <2>2. rows' = rows => McpRows' = McpRows
    BY DEF McpRows, Seqs
  <2> QED BY <1>1, <2>1, <2>2, Counted
<1>4. ~McpCall(p) => Pend' \subseteq Pend
  BY PendStep, OthersStay DEF Pend
<1>5. McpAppend(p) => p \in Pend /\ Pend' \subseteq Pend \ {p}
  <2>1. McpAppend(p) => at[p] \in Pending /\ ~McpCall(p)
    BY DEF McpAppend, McpCall, Pending, Holding
  <2> QED BY <2>1, PendStep, OthersStay DEF Pend
<1>6. McpRows' = McpRows \/ (McpAppend(p) /\ Cardinality(McpRows') <= R + M)
  <2>1. CASE Same
    BY <2>1 DEF Same, McpRows, Seqs
  <2>2. ASSUME NEW prev, NEW ids, NEW by, by # "mcp", Adds(prev, ids, {}, by) PROVE McpRows' = McpRows
    BY <2>2 DEF Adds, Extended, McpRows
  <2>3. CASE McpAppend(p) /\ Adds(TailHash, job[p].ids, job[p].salted, "mcp")
    <3>1. PICK ids \in Seq(Nat), len \in Nat, first \in Nat : ids = job[p].ids /\ len = Len(ids) /\ first = Len(TailHash)
      <4>1. job[p].ids \in Seq(Nat) /\ Len(job[p].ids) \in Nat /\ Len(TailHash) \in Nat
        BY DEF JobInv, Job, ChainInv
      <4> QED BY <4>1
    <3>2. len <= M
      BY <2>3, <3>1 DEF McpAppend, WorkInv, WorkOk, Pending, Holding
    <3>t. PICK T : T = first..(first + len - 1)
      OBVIOUS
    <3>3. McpRows' = McpRows \cup T /\ McpRows \cap T = {}
      BY <2>3, <3>1, <3>t DEF Adds, Extended, McpRows
    <3>4. IsFiniteSet(T) /\ Cardinality(T) = len
      <4>1. first + len - 1 \in Int /\ (first > first + len - 1 => len = 0) /\ first + len - 1 - first + 1 = len
        OBVIOUS
      <4>2. /\ IsFiniteSet(T)
            /\ Cardinality(T) = IF first > first + len - 1 THEN 0 ELSE first + len - 1 - first + 1
        BY <3>t, <4>1, FS_Interval
      <4> QED BY <4>1, <4>2
    <3>5. Cardinality(McpRows') = R + len
      <4>1. IsFiniteSet(McpRows)
        BY Counted
      <4>2. Cardinality(McpRows \cap T) = 0
        BY <3>3, FS_EmptySet
      <4>3. Cardinality(McpRows \cup T) = Cardinality(McpRows) + Cardinality(T) - Cardinality(McpRows \cap T)
        BY <3>4, <4>1, FS_Union
      <4> QED BY <1>1, <3>3, <3>4, <4>2, <4>3
    <3> QED BY <1>1, <2>3, <3>1, <3>2, <3>5
  <2> QED BY <2>1, <2>2, <2>3, StepAdds
<1>7. CASE McpCall(p)
  <2>1. M * Cardinality(Pend') <= M * N /\ M * Cardinality(Pend') \in Nat
    BY <1>1, <1>2, TimesLess
  <2>2. M * N \in Nat
    BY <1>1
  <2> QED BY <1>1, <1>2, <1>3, <1>7, <2>1, <2>2 DEF QuotaInv
<1>8. CASE ~McpCall(p) /\ McpRows' = McpRows
  <2>1. Cardinality(Pend') <= P
    BY <1>4, <1>8, Counted, FS_Subset
  <2>2. M * Cardinality(Pend') <= M * P /\ M * P \in Nat /\ M * N \in Nat /\ M * Cardinality(Pend') \in Nat
    BY <1>1, <1>2, <2>1, TimesLess
  <2> QED BY <1>1, <1>2, <1>8, <1>q, <2>2 DEF QuotaInv
<1>9. CASE McpAppend(p) /\ Cardinality(McpRows') <= R + M
  <2>1. Cardinality(Pend') + 1 <= P
    <3>1. IsFiniteSet(Pend) /\ IsFiniteSet(Pend \ {p}) /\ Cardinality(Pend \ {p}) = P - 1
      BY <1>5, <1>9, Counted, FS_RemoveElement
    <3>2. Cardinality(Pend') <= Cardinality(Pend \ {p})
      BY <1>5, <1>9, <3>1, FS_Subset
    <3> QED BY <1>1, <1>2, <3>1, <3>2
  <2>2. M * (Cardinality(Pend') + 1) <= M * P /\ M * P \in Nat /\ M * N \in Nat /\ M * Cardinality(Pend') \in Nat
    <3>1. Cardinality(Pend') + 1 \in Nat
      BY <1>2
    <3> QED BY <1>1, <1>2, <2>1, <3>1, TimesLess
  <2>3. M * (Cardinality(Pend') + 1) = M * Cardinality(Pend') + M
    BY <1>1, <1>2, TimesLess
  <2> QED BY <1>1, <1>2, <1>9, <1>q, <2>2, <2>3 DEF QuotaInv
<1> QED BY <1>6, <1>7, <1>8, <1>9

-----------------------------------------------------------------------------
(* What was asked for, and the faults left *)

CountInv == faults \in 0..MaxFaults /\ asked \subseteq Ids

LEMMA CountMoves ==
    ASSUME JobInv, NEW p \in Procs, LocalStep(p)
    PROVE  (faults' = faults \/ Fault) /\ asked' \subseteq asked \cup OnChain
<1> USE DEF CannotOpen, nonceVars, told
<1>1. CASE Launch(p) \/ McpCall(p) \/ McpOpen(p) BY <1>1 DEF Launch, McpCall, McpOpen
<1>2. CASE McpNonces(p) \/ McpForget(p) BY <1>2 DEF McpNonces, McpForget
<1>3. CASE McpPut(p) \/ McpDelete(p) BY <1>3 DEF McpPut, McpDelete
<1>4. CASE McpAppend(p) BY <1>4 DEF McpAppend, Appended, AppendFails, AppendLands
<1>5. CASE CliCommit(p)
  <2>1. UNCHANGED <<nonceVars, faults, rows, head, told>>
    BY <1>5, Zenon DEF CliCommit
  <2> QED BY <2>1
<1>6. CASE CliAppend(p)
  <2>1. UNCHANGED <<nonceVars, dblock, told>>
    BY <1>6, Zenon DEF CliAppend
  <2>2. Appended(NextBatch(job[p]), {}, "cli") \/ AppendFails \/ AppendLands(NextBatch(job[p]), {}, "cli")
    BY <1>6, Zenon DEF CliAppend
  <2> QED BY <2>1, <2>2 DEF Appended, AppendFails, AppendLands
<1>7. CASE CliImport(p) BY <1>7 DEF CliImport
<1>8. CASE DiscloseOpen(p) \/ DiscloseGet(p) BY <1>8 DEF DiscloseOpen, DiscloseGet
<1>9. CASE \E id \in Targets : DiscloseRead(p, id) \/ ForgetRead(p, id) BY <1>9 DEF DiscloseRead, ForgetRead
<1>10. CASE ForgetOpenDb(p) \/ ForgetOpen(p) BY <1>10 DEF ForgetOpenDb, ForgetOpen
<1>11. CASE ForgetDelete(p)
  <2>1. Target(p) \in OnChain
    BY <1>11 DEF ForgetDelete, JobInv, JobOk, ForgetSteps
  <2> QED BY <1>11, <2>1 DEF ForgetDelete
<1>12. CASE ForgetCompact(p) \/ ForgetCopy(p) BY <1>12 DEF ForgetCompact, ForgetCopy
<1>13. CASE ForgetRename(p) BY <1>13 DEF ForgetRename
<1>14. CASE OtherOpen(p) \/ OtherPut(p) BY <1>14 DEF OtherOpen, OtherPut
<1>15. CASE GiveAnswer(p) \/ Stop(p) \/ Kill(p) BY <1>15 DEF GiveAnswer, Stop, Kill
<1> QED BY <1>1, <1>2, <1>3, <1>4, <1>5, <1>6, <1>7, <1>8, <1>9, <1>10, <1>11, <1>12, <1>13, <1>14, <1>15 DEF LocalStep

LEMMA CountStep == ASSUME JobInv, ChainSound, CountInv, NEW p \in Procs, LocalStep(p) PROVE CountInv'
<1>1. faults' \in 0..MaxFaults
  <2>1. faults' = faults \/ Fault
    BY CountMoves
  <2> QED BY <2>1, LocalAssumption DEF CountInv, Fault
<1>2. asked' \subseteq Ids
  BY CountMoves DEF ChainSound, CountInv
<1> QED BY <1>1, <1>2 DEF CountInv

-----------------------------------------------------------------------------
(* The invariant *)

SoundInv == LocalInv /\ WorkInv /\ ChainSound /\ QuotaInv /\ CountInv

LEMMA SoundInit == LocalInit => SoundInv
<1> SUFFICES ASSUME LocalInit PROVE SoundInv
  OBVIOUS
<1>1. LocalInv
  BY LocalInvInit
<1>2. /\ rows = <<>> /\ head = None /\ at = [p \in Procs |-> "idle"] /\ asked = {} /\ faults = MaxFaults
  BY DEF LocalInit, NonceInit
<1>3. Seqs = {} /\ OnChain = {}
  BY <1>2 DEF Seqs, OnChain
<1>4. WorkInv
  BY <1>2 DEF WorkInv, WorkOk, Pending, Holding
<1>5. ChainSound
  BY <1>2, <1>3 DEF ChainSound, IdsOnce
<1>6. QuotaInv
  <2>1. McpRows = {} /\ Pend = {}
    BY <1>2, <1>3 DEF McpRows, Pend, Pending, Holding
  <2>2. Cardinality({}) = 0 /\ Cardinality(Procs) \in Nat /\ maxDB \in Nat \ {0} /\ maxCommitEntries \in Nat
    BY FS_EmptySet, FS_CardinalityType, LocalAssumption
  <2>3. maxCommitEntries * Cardinality(Procs) \in Nat /\ maxCommitEntries * 0 = 0
    BY <2>2
  <2> QED BY <2>1, <2>2, <2>3 DEF QuotaInv
<1>7. CountInv
  BY <1>2, LocalAssumption DEF CountInv
<1> QED BY <1>1, <1>4, <1>5, <1>6, <1>7 DEF SoundInv

LEMMA SoundNext == SoundInv /\ [LocalNext]_localVars => SoundInv'
<1> SUFFICES ASSUME SoundInv, [LocalNext]_localVars PROVE SoundInv'
  OBVIOUS
<1>1. LocalInv'
  BY LocalInvNext DEF SoundInv
<1>2. CASE UNCHANGED localVars
  <2>1. rows' = rows /\ head' = head /\ at' = at /\ job' = job /\ asked' = asked /\ faults' = faults
    BY <1>2 DEF localVars, dbVars, told
  <2>2. Seqs' = Seqs /\ OnChain' = OnChain /\ NextSeq' = NextSeq /\ McpRows' = McpRows /\ Pend' = Pend
    BY <2>1 DEF Seqs, OnChain, NextSeq, TailSeq, McpRows, Pend
  <2>3. WorkInv'
    BY <2>1, <2>2 DEF SoundInv, WorkInv, WorkOk, Wrote
  <2>4. ChainSound' /\ QuotaInv' /\ CountInv'
    BY <2>1, <2>2 DEF SoundInv, ChainSound, IdsOnce, HashOf, QuotaInv, CountInv
  <2> QED BY <1>1, <2>3, <2>4 DEF SoundInv
<1>3. CASE LocalNext
  <2>1. PICK p \in Procs : LocalStep(p)
    BY <1>3 DEF LocalNext, LocalStep
  <2>2. HoldsInv /\ ChainInv /\ JobInv /\ ChainInv'
    BY <1>1 DEF SoundInv, LocalInv
  <2> QED BY <1>1, <2>1, <2>2, WorkStep, SoundStep, QuotaStep, CountStep DEF SoundInv
<1> QED BY <1>2, <1>3

LEMMA SoundAlways == LocalSpec => []SoundInv
<1> QED BY SoundInit, SoundNext, PTL DEF LocalSpec

LEMMA SoundTypes == SoundInv => TypeOK
<1> SUFFICES ASSUME SoundInv PROVE TypeOK
  OBVIOUS
<1>1. HoldsInv /\ ChainInv /\ JobInv /\ FileInv /\ NonceInv /\ ChainSound /\ CountInv
  BY DEF SoundInv, LocalInv
<1>2. Nonces \subseteq Ids
  BY DEF Nonces, Ids
<1>3. (nfile = None \/ nfile \in [live : SUBSET Ids, free : SUBSET Ids]) /\ left \subseteq Ids
  BY <1>1, <1>2 DEF FileInv, File
<1>4. nlock.ex \in Procs \cup {None} /\ nlock.sh \subseteq Procs /\ dblock \in Procs \cup {None}
  BY <1>1 DEF HoldsInv
<1>5. ASSUME NEW p \in Procs
      PROVE  /\ handle[p] \in {None, "current", "replaced"} /\ (copy[p] = None \/ copy[p] \subseteq Ids)
             /\ job[p].done \in 0..Len(job[p].ids) /\ (at[p] = "answer" => dblock = p)
  <2>1. handle[p] \in {None, "current", "replaced"} /\ (at[p] = "answer" => dblock = p)
    BY <1>1 DEF HoldsInv, HoldsDb, McpSteps
  <2>2. copy[p] = None \/ copy[p] \subseteq Ids
    <3>1. CASE at[p] = "forget.rename"
      <4>1. copy[p] = nfile.live /\ nfile # None
        BY <1>1, <3>1 DEF FileInv, NeedsFile, Rewriting
      <4> QED BY <1>3, <4>1
    <3>2. CASE at[p] # "forget.rename"
      BY <1>1, <3>2 DEF FileInv, Rewriting
    <3> QED BY <3>1, <3>2
  <2>3. job[p].done \in Nat /\ Len(job[p].ids) \in Nat /\ job[p].done <= Len(job[p].ids)
    BY <1>1 DEF JobInv, JobOk, Job
  <2> QED BY <2>1, <2>2, <2>3
<1>6. Seqs \subseteq 0..MaxSeq
  <2>1. \A s \in Seqs : s \in Nat /\ s <= MaxSeq
    BY <1>1 DEF ChainInv, ChainSound
  <2> QED BY <2>1, LocalAssumption
<1>7. drawn \subseteq McpIds \cup OtherIds /\ kept \subseteq drawn
  BY <1>1 DEF JobInv, Nonces
<1>8. forgot \subseteq asked \cup (Ids \ kept)
  BY <1>1 DEF NonceInv, ChainSound
<1> QED BY <1>1, <1>3, <1>4, <1>5, <1>6, <1>7, <1>8 DEF TypeOK, CountInv

LEMMA SoundLinks == SoundInv => ChainLinked /\ IdsOnce /\ QuotaHolds
<1> SUFFICES ASSUME SoundInv PROVE ChainLinked /\ IdsOnce /\ QuotaHolds
  OBVIOUS
<1>1. ChainInv /\ ChainSound /\ QuotaInv
  BY DEF SoundInv, LocalInv
<1>2. PICK m \in Nat, n \in Nat : Seqs = m..(n - 1)
  BY <1>1 DEF ChainInv
<1>3. ASSUME NEW s \in Seqs, s # 0, NEW t \in Seqs, t < s PROVE s - 1 \in Seqs
  BY <1>2, <1>3
<1>4. ChainLinked
  BY <1>1, <1>3 DEF ChainInv, ChainSound, ChainLinked
<1>5. QuotaHolds
  <2>1. /\ maxCommitEntries \in Nat /\ maxDB \in Nat /\ Cardinality(McpRows) \in Nat /\ Cardinality(Pend) \in Nat
        /\ Cardinality(Procs) \in Nat
    BY <1>1, Counted, LocalAssumption
  <2>2. maxCommitEntries * Cardinality(Pend) \in Nat /\ maxCommitEntries * Cardinality(Procs) \in Nat
    BY <2>1
  <2>3. Cardinality(McpRows) <= maxDB - 1 + maxCommitEntries * Cardinality(Procs)
    BY <1>1, <2>1, <2>2 DEF QuotaInv
  <2> QED BY <2>3 DEF QuotaHolds, McpRows
<1> QED BY <1>1, <1>4, <1>5 DEF ChainSound

\* commit, import and the tool on one chain: it stays linked and without a gap, its saved
\* head is the hash of one of its entries, only an import repeats an id, and the servers
\* take the database past its limit by at most one call each.
THEOREM DatabaseStaysSound == LocalSpec => []DatabaseSound
<1>1. SoundInv => DatabaseSound
  BY SoundTypes, SoundLinks DEF DatabaseSound
<1> QED BY <1>1, SoundAlways, PTL

\* commitTool and cmdCommit: the entries they say were committed are on the chain, in
\* arrival order and from where it ended, and no other was added - while an append that
\* reports an error has added nothing.
THEOREM AnswersAreTrue ==
    ASSUME ~Landed
    PROVE  LocalSpec => []AnswerTrue
<1>1. SoundInv => AnswerTrue
  <2> SUFFICES ASSUME SoundInv, NEW p \in Procs, at[p] = "answer"
               PROVE  LET j == job[p] IN
                      /\ j.ok => j.done = Len(j.ids)
                      /\ NextSeq = j.first + j.done
                      /\ \A i \in 1..j.done : rows[j.first + i - 1].id = InOrder(ToSet(j.ids))[i]
    BY DEF AnswerTrue
  <2>1. PICK j \in Job : j = job[p]
    BY DEF SoundInv, LocalInv, JobInv
  <2>2. Wrote(j) /\ Rising(j.ids) /\ (j.ok => j.done = Len(j.ids))
    BY <2>1 DEF SoundInv, WorkInv, WorkOk
  <2>3. InOrder(ToSet(j.ids)) = j.ids
    BY <2>2, InOrderAlready DEF Rising, Job
  <2> QED BY <2>1, <2>2, <2>3 DEF Wrote
<1> QED BY <1>1, SoundAlways, PTL

=============================================================================
