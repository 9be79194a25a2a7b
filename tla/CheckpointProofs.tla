-------------------------- MODULE CheckpointProofs --------------------------
(***************************************************************************)
(* Theorems about Checkpoint.                                              *)
(*                                                                         *)
(* Every step of a call is first reduced to what it does to the files and  *)
(* to the call's own state (Moves); each theorem then has one inductive    *)
(* invariant, preserved by each kind of move and each environment action.  *)
(***************************************************************************)
EXTENDS Checkpoint, FiniteSetTheorems, SequenceTheorems, TLAPS

-----------------------------------------------------------------------------
(* The shapes of the state *)

Numbers  == Nat \ {0}
Cps      == [id : Nat, previous : Nat, covers : Nat, hash : Seq(Nat), made : Nat, confirmed : BOOLEAN]
Files    == {f \in UNION {[D -> Cps] : D \in SUBSET Numbers} : IsFiniteSet(DOMAIN f)}
Heads    == [count : Numbers, hash : Seq(Nat)]
Updates  == [chain : Chains, count : Numbers, hash : Seq(Nat)]
HeadMaps == [Chains -> Heads \cup {None}]

\* Where a call says nothing of a chain, where it is at one, where it has heads to write.
Resting == {"idle", "gap", "next", "flush", "batch"}
AtChain == {"series", "head", "verify", "create", "write", "sync"}
Saving  == {"batchWrite", "flushWrite"}

Calls ==
    [at : Resting \cup AtChain \cup Saving, serial : Nat, made : Nat, scope : SUBSET Chains, tracks : BOOLEAN,
     confirmed : SUBSET Chains, cursor : Chains \cup {0}, seen : Seq(Cps), recorded : BOOLEAN,
     pending : SUBSET Updates, next : HeadMaps \cup {<<>>}]

CallType(r) ==
    /\ r \in Calls
    /\ r.at \in AtChain => r.cursor \in Chains
    /\ r.at \in Saving => r.next \in HeadMaps

FolderType ==
    /\ entries \in [Chains -> Nat] /\ erasedAt \in [Chains -> Nat]
    /\ index \in [Chains -> {"live", "pending", "gone"}]

SeriesType == series = [c \in Chains |-> series[c]] /\ \A c \in Chains : series[c] \in Files
HeadsType  == heads \in HeadMaps /\ kept \in HeadMaps
RunType    == run = [p \in Runs |-> run[p]] /\ \A p \in Runs : CallType(run[p])
CountsType == faults \in Nat /\ signed \in Nat /\ clock \in {0, 1}

Shapes == FolderType /\ SeriesType /\ HeadsType /\ RunType /\ CountsType

-----------------------------------------------------------------------------
(* What a move of a call does: r is the call before it, s after it. *)

\* Set back, or gone on to something that is not about a chain.
Rests(r, s) == s.at \in Resting /\ s.pending \subseteq r.pending /\ s.made \in {0, r.made}

Turns(r, s) ==
    /\ r.at = "next" /\ s.at = "series" /\ entries[s.cursor] > 0
    /\ s.pending = r.pending /\ s.made = r.made

SameCall(r, s) ==
    /\ s.cursor = r.cursor /\ s.tracks = r.tracks /\ s.confirmed = r.confirmed /\ s.pending = r.pending

Same(r, s) == SameCall(r, s) /\ s.seen = r.seen /\ s.serial = r.serial /\ s.made = r.made

SeesSeries(r, s) ==
    /\ r.at = "series" /\ WellFormed(series[r.cursor]) /\ SameCall(r, s)
    /\ s.at \in {"head", "verify"} /\ (s.at = "verify" => ~r.tracks)
    /\ s.seen = series[r.cursor] /\ s.made = r.made

SeesHead(r, s) ==
    /\ r.at = "head" /\ s.at = "verify" /\ Same(r, s)
    /\ ~HeadProblem(r.seen, heads[r.cursor])

Good(r) ==
    LET c == r.cursor
        f == series[c] IN
    /\ WellFormed(f) /\ SeriesVerifies(f, entries[c]) /\ index[c] # "pending"
    /\ ~Unconfirmed(c, f, r.confirmed) /\ SeriesVerifies(r.seen, entries[c])

Signs(r, s) ==
    /\ r.at = "verify" /\ s.at = "create" /\ SameCall(r, s) /\ s.seen = r.seen
    /\ Good(r) /\ Covered(r.seen) # entries[r.cursor]
    /\ s.serial = signed + 1 /\ s.made = clock

Notes(r, s, count, hash) ==
    /\ r.tracks /\ s.at \in Resting /\ s.made = r.made
    /\ s.pending = r.pending \cup {[chain |-> r.cursor, count |-> count, hash |-> hash]}

NotesSeen(r, s) ==
    r.at = "verify" /\ Good(r) /\ r.seen # <<>> /\ Notes(r, s, Len(r.seen), Last(r.seen).hash)

HeadOf(r, c) ==
    IF \E u \in r.pending : u.chain = c
    THEN LET u == CHOOSE u \in r.pending : u.chain = c
         IN  [count |-> u.count, hash |-> u.hash]
    ELSE heads[c]

Loads(r, s) ==
    /\ s.at \in Saving /\ s.pending = r.pending /\ s.made = r.made
    /\ \A u \in r.pending : ~Backwards(u)
    /\ s.next = [c \in Chains |-> HeadOf(r, c)]

\* The moves that leave the files alone.
Reads(r, s) ==
    \/ Rests(r, s) \/ Turns(r, s) \/ SeesSeries(r, s) \/ SeesHead(r, s)
    \/ Signs(r, s) \/ NotesSeen(r, s) \/ Loads(r, s)

Creates(r, s) ==
    /\ r.at = "create" /\ s.at = "write" /\ Same(r, s) /\ ~Taken(r.cursor, Number(r))
    /\ SetFile(r, File(series[r.cursor], Number(r), Torn)) /\ UNCHANGED <<durable, heads, kept>>

Writes(r, s) ==
    /\ r.at = "write" /\ s.at = "sync" /\ Same(r, s)
    /\ SetFile(r, File(series[r.cursor], Number(r), Signed(r))) /\ UNCHANGED <<durable, heads, kept>>

Syncs(r, s) ==
    /\ r.at = "sync"
    /\ Rests(r, s) \/ Notes(r, s, Number(r), Signed(r).hash)
    /\ durable' = durable \cup {<<r.cursor, Number(r)>>} /\ UNCHANGED <<series, heads, kept>>

Removes(r, s) ==
    /\ r.at \in {"write", "sync"} /\ Rests(r, s) /\ "error" \in FaultKinds
    /\ SetFile(r, Without(series[r.cursor], Number(r))) /\ UNCHANGED <<durable, heads, kept>>

Saves(r, s) ==
    /\ r.at \in Saving /\ s.at \in Resting /\ s.pending = {} /\ s.made \in {0, r.made}
    /\ \/ heads' = r.next /\ kept' = r.next
       \/ heads' \in {heads, r.next} /\ UNCHANGED kept
    /\ UNCHANGED <<series, durable>>

Effect(r, s) ==
    \/ Reads(r, s) /\ UNCHANGED fileVars
    \/ Creates(r, s) \/ Writes(r, s) \/ Syncs(r, s) \/ Removes(r, s) \/ Saves(r, s)

Moves(p, s) ==
    /\ p \in Runs /\ CallType(s)
    /\ run' = [run EXCEPT ![p] = s] /\ UNCHANGED <<folderVars, clock>>
    /\ signed' \in Nat /\ faults' \in Nat
    /\ Effect(run[p], s)

-----------------------------------------------------------------------------
(* The operators of the model *)

LEMMA TornType == Torn \in Cps /\ Seed = Torn
BY EmptySeq DEF Torn, Cps, Seed

\* What it is to be the files of a series.
LEMMA FilesDef ==
    ASSUME NEW f
    PROVE  f \in Files <=> /\ DOMAIN f \subseteq Numbers /\ IsFiniteSet(DOMAIN f)
                           /\ f = [n \in DOMAIN f |-> f[n]] /\ \A n \in DOMAIN f : f[n] \in Cps
<1>1. ASSUME f \in Files
      PROVE  /\ DOMAIN f \subseteq Numbers /\ IsFiniteSet(DOMAIN f)
             /\ f = [n \in DOMAIN f |-> f[n]] /\ \A n \in DOMAIN f : f[n] \in Cps
  <2>1. PICK D \in SUBSET Numbers : f \in [D -> Cps]
    BY <1>1 DEF Files
  <2> QED BY <1>1, <2>1 DEF Files
<1>2. ASSUME DOMAIN f \subseteq Numbers, IsFiniteSet(DOMAIN f), f = [n \in DOMAIN f |-> f[n]], \A n \in DOMAIN f : f[n] \in Cps
      PROVE  f \in Files
  <2>1. f \in [DOMAIN f -> Cps]
    BY <1>2
  <2> QED BY <1>2, <2>1 DEF Files
<1> QED BY <1>1, <1>2

\* A series without a gap or a torn file is a sequence.
LEMMA WellFormedSeq ==
    ASSUME NEW f \in Files, WellFormed(f)
    PROVE  f \in Seq(Cps) /\ DOMAIN f = 1..Len(f) /\ Len(f) \in Nat /\ \A n \in DOMAIN f : f[n] # Torn
<1>1. Cardinality(DOMAIN f) \in Nat
  BY FilesDef, FS_CardinalityType
<1>2. f = [n \in 1..Cardinality(DOMAIN f) |-> f[n]] /\ \A n \in 1..Cardinality(DOMAIN f) : f[n] \in Cps
  BY FilesDef DEF WellFormed
<1>3. f \in Seq(Cps)
  BY <1>1, <1>2, IsASeq
<1> QED BY <1>3, LenProperties DEF WellFormed

LEMMA LastType == ASSUME NEW f \in Seq(Cps) PROVE Last(f) \in Cps /\ Covered(f) \in Nat /\ Last(f).hash \in Seq(Nat)
<1>1. Last(f) \in Cps
  <2>1. CASE Len(f) = 0
    BY <2>1, TornType DEF Last, At
  <2>2. CASE Len(f) # 0
    <3>1. Len(f) \in 1..Len(f) /\ DOMAIN f = 1..Len(f)
      BY <2>2, LenProperties
    <3> QED BY <2>2, <3>1, ElementOfSeq DEF Last, At
  <2> QED BY <2>1, <2>2
<1> QED BY <1>1 DEF Covered, Cps

LEMMA FileSet ==
    ASSUME NEW f \in Files, NEW n \in Numbers, NEW a \in Cps
    PROVE  /\ File(f, n, a) \in Files /\ DOMAIN File(f, n, a) = DOMAIN f \cup {n}
           /\ File(f, n, a)[n] = a /\ \A m \in DOMAIN f : m # n => File(f, n, a)[m] = f[m]
<1>1. IsFiniteSet(DOMAIN f \cup {n})
  BY FilesDef, FS_AddElement
<1>2. /\ DOMAIN File(f, n, a) = DOMAIN f \cup {n} /\ File(f, n, a)[n] = a
      /\ \A m \in DOMAIN f : m # n => File(f, n, a)[m] = f[m]
  BY DEF File
<1>3. \A m \in DOMAIN f \cup {n} : File(f, n, a)[m] \in Cps
  BY <1>2, FilesDef
<1>4. File(f, n, a) = [m \in DOMAIN File(f, n, a) |-> File(f, n, a)[m]]
  BY DEF File
<1>5. DOMAIN f \cup {n} \subseteq Numbers
  BY FilesDef
<1> QED BY <1>1, <1>2, <1>3, <1>4, <1>5, FilesDef

LEMMA FileRemoved ==
    ASSUME NEW f \in Files, NEW n
    PROVE  /\ Without(f, n) \in Files /\ DOMAIN Without(f, n) = DOMAIN f \ {n}
           /\ \A m \in DOMAIN f : m # n => Without(f, n)[m] = f[m]
<1>1. IsFiniteSet(DOMAIN f \ {n})
  BY FilesDef, FS_RemoveElement
<1>2. DOMAIN Without(f, n) = DOMAIN f \ {n} /\ \A m \in DOMAIN f : m # n => Without(f, n)[m] = f[m]
  BY DEF Without
<1>3. \A m \in DOMAIN f \ {n} : Without(f, n)[m] \in Cps
  BY <1>2, FilesDef
<1>4. Without(f, n) = [m \in DOMAIN Without(f, n) |-> Without(f, n)[m]]
  BY DEF Without
<1>5. DOMAIN f \ {n} \subseteq Numbers
  BY FilesDef
<1> QED BY <1>1, <1>2, <1>3, <1>4, <1>5, FilesDef

LEMMA FileNamed == ASSUME NEW s, NEW c, NEW n PROVE <<c, n>> \in FilesOf(s) <=> c \in Chains /\ n \in DOMAIN s[c]
BY DEF FilesOf

LEMMA FilePair == ASSUME NEW s, NEW x \in FilesOf(s) PROVE x = <<x[1], x[2]>> /\ x[1] \in Chains /\ x[2] \in DOMAIN s[x[1]]
BY DEF FilesOf

LEMMA CallFields ==
    ASSUME NEW r, CallType(r)
    PROVE  /\ r.seen \in Seq(Cps) /\ r.confirmed \subseteq Chains /\ r.tracks \in BOOLEAN /\ r.pending \subseteq Updates
           /\ r.serial \in Nat /\ r.made \in Nat /\ Number(r) \in Numbers /\ r.cursor \in Chains \cup {0}
           /\ r.at \in Resting \cup AtChain \cup Saving
<1>1. r \in Calls
  BY DEF CallType
<1>2. r.seen \in Seq(Cps)
  BY <1>1 DEF Calls
<1>3. Number(r) \in Numbers
  BY <1>2, LenProperties DEF Number, Numbers
<1> QED BY <1>1, <1>2, <1>3 DEF Calls

\* The chain hash grows by one part with each checkpoint.
LEMMA HashGrows == ASSUME NEW a \in Cps, NEW k \in Nat PROVE ChainHash(a, k) \in Seq(Nat) /\ ChainHash(a, k) # <<>>
<1>1. a.hash \in Seq(Nat)
  BY DEF Cps
<1>2. Len(Append(a.hash, k)) = Len(a.hash) + 1 /\ Append(a.hash, k) \in Seq(Nat) /\ Len(a.hash) \in Nat
  BY <1>1, AppendProperties, LenProperties
<1>3. Append(a.hash, k) # <<>>
  BY <1>2, EmptySeq
<1> QED BY <1>2, <1>3 DEF ChainHash

LEMMA SignedType ==
    ASSUME FolderType, NEW r, CallType(r), r.cursor \in Chains
    PROVE  Signed(r) \in Cps /\ Signed(r) # Torn /\ Signed(r).hash = ChainHash(Last(r.seen), entries[r.cursor])
<1>1. Last(r.seen) \in Cps /\ r.serial \in Nat /\ r.made \in Nat /\ entries[r.cursor] \in Nat
  BY CallFields, LastType DEF FolderType
<1>2. ChainHash(Last(r.seen), entries[r.cursor]) \in Seq(Nat) /\ ChainHash(Last(r.seen), entries[r.cursor]) # <<>>
  BY <1>1, HashGrows
<1>3. Last(r.seen).id \in Nat /\ (r.cursor \in r.confirmed) \in BOOLEAN
  BY <1>1 DEF Cps
<1>4. Signed(r) \in Cps
  BY <1>1, <1>2, <1>3 DEF Signed, Cps
<1> QED BY <1>2, <1>4 DEF Signed, Torn

-----------------------------------------------------------------------------
(* Each step of a call is a move. *)

LEMMA CallRests ==
    ASSUME NEW r, CallType(r), NEW at \in Resting
    PROVE  CallType([r EXCEPT !.at = at]) /\ Rests(r, [r EXCEPT !.at = at])
BY DEF CallType, Calls, Rests, Resting, AtChain, Saving

LEMMA CallEnds == ASSUME NEW r PROVE CallType(NoRun) /\ Rests(r, NoRun)
<1>1. <<>> \in Seq(Cps)
  BY EmptySeq
<1>2. NoRun \in Calls
  BY <1>1 DEF Calls, NoRun, Resting
<1> QED BY <1>2 DEF CallType, Rests, NoRun, Resting, AtChain, Saving

LEMMA CallTurns ==
    ASSUME NEW r, CallType(r), r.at = "next", NEW c \in Chains, entries[c] > 0
    PROVE  LET s == [r EXCEPT !.cursor = c, !.at = "series"] IN CallType(s) /\ Turns(r, s)
BY DEF CallType, Calls, Turns, Resting, AtChain, Saving

LEMMA CallSeesSeries ==
    ASSUME NEW r, CallType(r), r.at = "series", NEW f \in Seq(Cps), NEW at \in {"head", "verify"} \cup Resting,
           f = series[r.cursor], WellFormed(series[r.cursor]), at = "verify" => ~r.tracks
    PROVE  LET s == [[r EXCEPT !.seen = f, !.recorded = TRUE] EXCEPT !.at = at] IN
           CallType(s) /\ (SeesSeries(r, s) \/ Rests(r, s))
BY DEF CallType, Calls, SeesSeries, SameCall, Rests, Resting, AtChain, Saving

LEMMA CallSeesHead ==
    ASSUME NEW r, CallType(r), r.at = "head", NEW b \in BOOLEAN, NEW at \in {"verify"} \cup Resting,
           ~HeadProblem(r.seen, heads[r.cursor])
    PROVE  LET s == [[r EXCEPT !.recorded = b] EXCEPT !.at = at] IN
           CallType(s) /\ (SeesHead(r, s) \/ Rests(r, s))
BY DEF CallType, Calls, SeesHead, Same, SameCall, Rests, Resting, AtChain, Saving

LEMMA CallSigns ==
    ASSUME NEW r, CallType(r), r.at = "verify", Good(r), Covered(r.seen) # entries[r.cursor],
           NEW n \in Nat, n = signed + 1, clock \in Nat
    PROVE  LET s == [r EXCEPT !.at = "create", !.serial = n, !.made = clock] IN CallType(s) /\ Signs(r, s)
BY DEF CallType, Calls, Signs, SameCall, Resting, AtChain, Saving

LEMMA CallNotes ==
    ASSUME NEW r, CallType(r), r.cursor \in Chains, r.tracks, NEW n \in Numbers, NEW h \in Seq(Nat), NEW at \in Resting
    PROVE  LET s == [[r EXCEPT !.pending = @ \cup {[chain |-> r.cursor, count |-> n, hash |-> h]}] EXCEPT !.at = at] IN
           CallType(s) /\ Notes(r, s, n, h)
<1>1. [chain |-> r.cursor, count |-> n, hash |-> h] \in Updates
  BY DEF Updates
<1> QED BY <1>1 DEF CallType, Calls, Notes, Resting, AtChain, Saving

LEMMA CallFlushed ==
    ASSUME NEW r, CallType(r), NEW at \in Resting
    PROVE  LET s == [[r EXCEPT !.pending = {}, !.next = <<>>] EXCEPT !.at = at] IN
           CallType(s) /\ Rests(r, s) /\ s.pending = {}
BY DEF CallType, Calls, Rests, Resting, AtChain, Saving

LEMMA CallLoads ==
    ASSUME NEW r, CallType(r), NEW at \in Saving, NEW next \in HeadMaps, next = [c \in Chains |-> HeadOf(r, c)],
           \A u \in r.pending : ~Backwards(u)
    PROVE  LET s == [r EXCEPT !.next = next, !.at = at] IN CallType(s) /\ Loads(r, s)
BY DEF CallType, Calls, Loads, Resting, AtChain, Saving

LEMMA CallWrites ==
    ASSUME NEW r, CallType(r), r.at \in {"create", "write"}, NEW at \in {"write", "sync"}
    PROVE  LET s == [r EXCEPT !.at = at] IN CallType(s) /\ Same(r, s) /\ s.at = at
BY DEF CallType, Calls, Same, SameCall, Resting, AtChain, Saving

\* Adding a head to the batch, or going on without one.
LEMMA AddedEffect ==
    ASSUME NEW p, NEW r, CallType(r), r.cursor \in Chains, NEW n \in Numbers, NEW h \in Seq(Nat), Added(p, r, n, h)
    PROVE  \E s : Update(p, s) /\ CallType(s) /\ (Rests(r, s) \/ Notes(r, s, n, h))
<1> DEFINE added == [r EXCEPT !.pending = @ \cup {[chain |-> r.cursor, count |-> n, hash |-> h]}]
<1>1. CASE ~r.tracks
  <2>1. PICK at \in {"next", "gap"} : Update(p, [r EXCEPT !.at = at])
    BY <1>1 DEF Added, ChainDone
  <2> QED BY <2>1, CallRests DEF Resting
<1>2. CASE r.tracks
  <2>1. \E at \in {"batch", "next", "gap"} : Update(p, [added EXCEPT !.at = at])
    BY <1>2 DEF Added, ChainDone
  <2>2. PICK at \in Resting : Update(p, [added EXCEPT !.at = at])
    BY <2>1 DEF Resting
  <2> QED BY <1>2, <2>2, CallNotes
<1> QED BY <1>1, <1>2

LEMMA FaultCounts == ASSUME faults \in Nat, NEW k, Fault(k) \/ NoFault PROVE faults' \in Nat
BY DEF Fault, NoFault

LEMMA StartMoves == ASSUME Shapes, NEW p \in Runs, StartAny(p) PROVE \E s : Moves(p, s)
<1> USE DEF Shapes
<1>1. PICK confirmed \in SUBSET Chains, tracks \in Tracking, scope \in SUBSET Chains : Start(p, scope, confirmed, tracks)
  BY DEF StartAny
<1> DEFINE s == [NoRun EXCEPT !.at = "gap", !.scope = scope, !.confirmed = confirmed, !.tracks = tracks]
<1>2. CallType(NoRun) /\ tracks \in BOOLEAN /\ scope \in SUBSET Chains
  BY CallEnds, CheckpointAssumption
<1>3. CallType(s)
  BY <1>2 DEF CallType, Calls, Resting, AtChain, Saving
<1>4. Rests(run[p], s)
  BY DEF Rests, NoRun, Resting
<1>5. Update(p, s) /\ UNCHANGED <<folderVars, fileVars, signed, clock, faults>>
  BY <1>1 DEF Start
<1> QED BY <1>3, <1>4, <1>5 DEF Moves, Update, Effect, Reads, CountsType

LEMMA KillMoves == ASSUME Shapes, NEW p \in Runs, Kill(p) PROVE \E s : Moves(p, s)
<1>1. CallType(NoRun) /\ Rests(run[p], NoRun)
  BY CallEnds
<1>2. faults' \in Nat
  BY FaultCounts DEF Kill, Shapes, CountsType
<1> QED BY <1>1, <1>2 DEF Kill, Moves, Update, Effect, Reads, Shapes, CountsType

\* A step that leaves the folder, the clock and the number signed alone.
LEMMA Settles ==
    ASSUME Shapes, NEW p \in Runs, NEW s, CallType(s), Update(p, s), Effect(run[p], s),
           UNCHANGED <<folderVars, signed, clock>>, NEW k, Fault(k) \/ NoFault
    PROVE  Moves(p, s)
<1>1. faults' \in Nat /\ signed' \in Nat
  BY FaultCounts DEF Shapes, CountsType
<1> QED BY <1>1 DEF Moves, Update

LEMMA OpenPageMoves == ASSUME Shapes, NEW p \in Runs, OpenPage(p) PROVE \E s : Moves(p, s)
<1>1. PICK at \in Resting : Update(p, [run[p] EXCEPT !.at = at])
  BY DEF OpenPage, Fails, Resting
<1>2. CallType(run[p])
  BY DEF Shapes, RunType
<1>3. CallType([run[p] EXCEPT !.at = at]) /\ Rests(run[p], [run[p] EXCEPT !.at = at])
  BY <1>2, CallRests
<1>4. Effect(run[p], [run[p] EXCEPT !.at = at])
  BY <1>3 DEF OpenPage, Effect, Reads
<1>5. Fault("error") \/ NoFault
  BY DEF OpenPage
<1> QED BY <1>1, <1>3, <1>4, <1>5, Settles DEF OpenPage

LEMMA NextChainMoves == ASSUME Shapes, NEW p \in Runs, NextChain(p) PROVE \E s : Moves(p, s)
<1>1. CallType(run[p])
  BY DEF Shapes, RunType
<1>2. NoFault /\ UNCHANGED <<folderVars, fileVars, signed, clock>> /\ run[p].at = "next"
  BY DEF NextChain, NoFault
<1>3. CASE Update(p, [run[p] EXCEPT !.at = "flush"])
  <2>1. CallType([run[p] EXCEPT !.at = "flush"]) /\ Rests(run[p], [run[p] EXCEPT !.at = "flush"])
    BY <1>1, CallRests DEF Resting
  <2> QED BY <1>2, <1>3, <2>1, Settles DEF Effect, Reads
<1>4. CASE \E c \in Chains : entries[c] > 0 /\ Update(p, [run[p] EXCEPT !.cursor = c, !.at = "series"])
  <2>1. PICK c \in Chains : entries[c] > 0 /\ Update(p, [run[p] EXCEPT !.cursor = c, !.at = "series"])
    BY <1>4
  <2>2. CallType([run[p] EXCEPT !.cursor = c, !.at = "series"]) /\ Turns(run[p], [run[p] EXCEPT !.cursor = c, !.at = "series"])
    BY <1>1, <1>2, <2>1, CallTurns
  <2> QED BY <1>2, <2>1, <2>2, Settles DEF Effect, Reads
<1>5. run[p].scope \subseteq Chains
  BY <1>1 DEF CallType, Calls
<1> QED BY <1>3, <1>4, <1>5 DEF NextChain

LEMMA ReadSeriesMoves == ASSUME Shapes, NEW p \in Runs, ReadSeries(p) PROVE \E s : Moves(p, s)
<1> DEFINE r == run[p]
           f == series[r.cursor]
           read == [r EXCEPT !.seen = f, !.recorded = TRUE]
<1>1. CallType(r) /\ r.at = "series" /\ r.cursor \in Chains
  BY DEF ReadSeries, Shapes, RunType, CallType, AtChain
<1>2. UNCHANGED <<folderVars, fileVars, signed, clock>> /\ (Fault("error") \/ NoFault)
  BY DEF ReadSeries
<1>3. CASE \E at \in Resting : Update(p, [r EXCEPT !.at = at])
  <2>1. PICK at \in Resting : Update(p, [r EXCEPT !.at = at])
    BY <1>3
  <2>2. CallType([r EXCEPT !.at = at]) /\ Rests(r, [r EXCEPT !.at = at])
    BY <1>1, CallRests
  <2> QED BY <1>2, <2>1, <2>2, Settles DEF Effect, Reads
<1>4. CASE /\ WellFormed(f)
           /\ \E at \in {"head", "verify"} \cup Resting : Update(p, [read EXCEPT !.at = at]) /\ (at = "verify" => ~r.tracks)
  <2>1. PICK at \in {"head", "verify"} \cup Resting : Update(p, [read EXCEPT !.at = at]) /\ (at = "verify" => ~r.tracks)
    BY <1>4
  <2>2. f \in Seq(Cps)
    BY <1>1, <1>4, WellFormedSeq DEF Shapes, SeriesType
  <2>3. CallType([read EXCEPT !.at = at]) /\ (SeesSeries(r, [read EXCEPT !.at = at]) \/ Rests(r, [read EXCEPT !.at = at]))
    BY <1>1, <1>4, <2>1, <2>2, CallSeesSeries
  <2> QED BY <1>2, <2>1, <2>3, Settles DEF Effect, Reads
<1>5. Sized(p, read) => \E at \in {"verify", "next", "gap"} : Update(p, [read EXCEPT !.at = at])
  BY DEF Sized, ChainDone
<1> HIDE DEF read
<1>6. \/ ChainDone(p, r) \/ Fails(p, r)
      \/ WellFormed(f) /\ r.tracks /\ Update(p, [read EXCEPT !.at = "head"])
      \/ WellFormed(f) /\ ~r.tracks /\ Sized(p, read)
  BY DEF ReadSeries, read
<1>7. CASE ChainDone(p, r) \/ Fails(p, r)
  BY <1>3, <1>7 DEF ChainDone, Fails, Resting
<1>8. CASE WellFormed(f) /\ r.tracks /\ Update(p, [read EXCEPT !.at = "head"])
  BY <1>4, <1>8
<1>9. CASE WellFormed(f) /\ ~r.tracks /\ Sized(p, read)
  <2>1. {"verify", "next", "gap"} \subseteq {"head", "verify"} \cup Resting
    BY DEF Resting
  <2> QED BY <1>4, <1>5, <1>9, <2>1
<1> QED BY <1>6, <1>7, <1>8, <1>9

LEMMA ReadHeadMoves == ASSUME Shapes, NEW p \in Runs, ReadHead(p) PROVE \E s : Moves(p, s)
<1> DEFINE r == run[p]
           b == Recorded(r.seen, heads[r.cursor])
           read == [r EXCEPT !.recorded = b]
<1>1. CallType(r) /\ r.at = "head"
  BY DEF ReadHead, Shapes, RunType
<1>2. UNCHANGED <<folderVars, fileVars, signed, clock>> /\ (Fault("error") \/ NoFault)
  BY DEF ReadHead
<1>3. CASE \E at \in Resting : Update(p, [r EXCEPT !.at = at])
  <2>1. PICK at \in Resting : Update(p, [r EXCEPT !.at = at])
    BY <1>3
  <2>2. CallType([r EXCEPT !.at = at]) /\ Rests(r, [r EXCEPT !.at = at])
    BY <1>1, CallRests
  <2> QED BY <1>2, <2>1, <2>2, Settles DEF Effect, Reads
<1>4. CASE /\ ~HeadProblem(r.seen, heads[r.cursor])
           /\ \E at \in {"verify"} \cup Resting : Update(p, [read EXCEPT !.at = at])
  <2>1. PICK at \in {"verify"} \cup Resting : Update(p, [read EXCEPT !.at = at])
    BY <1>4
  <2>2. b \in BOOLEAN
    BY DEF Recorded
  <2>3. CallType([read EXCEPT !.at = at]) /\ (SeesHead(r, [read EXCEPT !.at = at]) \/ Rests(r, [read EXCEPT !.at = at]))
    BY <1>1, <1>4, <2>2, CallSeesHead
  <2> QED BY <1>2, <2>1, <2>3, Settles DEF Effect, Reads
<1>5. Sized(p, read) => \E at \in {"verify", "next", "gap"} : Update(p, [read EXCEPT !.at = at])
  BY DEF Sized, ChainDone
<1> HIDE DEF read
<1>6. ChainDone(p, r) \/ Fails(p, r) \/ (~HeadProblem(r.seen, heads[r.cursor]) /\ Sized(p, read))
  BY DEF ReadHead, read
<1>7. CASE ChainDone(p, r) \/ Fails(p, r)
  BY <1>3, <1>7 DEF ChainDone, Fails, Resting
<1>8. CASE ~HeadProblem(r.seen, heads[r.cursor]) /\ Sized(p, read)
  <2>1. {"verify", "next", "gap"} \subseteq {"verify"} \cup Resting
    BY DEF Resting
  <2> QED BY <1>4, <1>5, <1>8, <2>1
<1> QED BY <1>6, <1>7, <1>8

LEMMA VerifyChainMoves == ASSUME Shapes, NEW p \in Runs, VerifyChain(p) PROVE \E s : Moves(p, s)
<1> DEFINE r == run[p]
<1>1. CallType(r) /\ r.at = "verify" /\ r.cursor \in Chains /\ signed \in Nat /\ clock \in Nat
  BY DEF VerifyChain, Shapes, RunType, CallType, AtChain, CountsType
<1>2. UNCHANGED <<folderVars, fileVars, clock>> /\ (Fault("error") \/ NoFault)
  BY DEF VerifyChain
<1>3. CASE UNCHANGED signed /\ \E at \in Resting : Update(p, [r EXCEPT !.at = at])
  <2>1. PICK at \in Resting : Update(p, [r EXCEPT !.at = at])
    BY <1>3
  <2>2. CallType([r EXCEPT !.at = at]) /\ Rests(r, [r EXCEPT !.at = at])
    BY <1>1, CallRests
  <2> QED BY <1>2, <1>3, <2>1, <2>2, Settles DEF Effect, Reads
<1>4. CASE UNCHANGED signed /\ Good(r) /\ r.seen # <<>> /\ Added(p, r, Len(r.seen), Last(r.seen).hash)
  <2>1. Len(r.seen) \in Numbers /\ Last(r.seen).hash \in Seq(Nat)
    <3>1. r.seen \in Seq(Cps)
      BY <1>1, CallFields
    <3> QED BY <1>4, <3>1, LastType, LenProperties, EmptySeq DEF Numbers
  <2>2. PICK s : Update(p, s) /\ CallType(s) /\ (Rests(r, s) \/ Notes(r, s, Len(r.seen), Last(r.seen).hash))
    BY <1>1, <1>4, <2>1, AddedEffect
  <2>3. Rests(r, s) \/ NotesSeen(r, s)
    BY <1>1, <1>4, <2>2 DEF NotesSeen
  <2> QED BY <1>2, <1>4, <2>2, <2>3, Settles DEF Effect, Reads
<1>5. CASE /\ Good(r) /\ Covered(r.seen) # entries[r.cursor]
           /\ Update(p, [r EXCEPT !.at = "create", !.serial = signed + 1, !.made = clock]) /\ signed' = signed + 1
  <2>0. PICK n \in Nat : n = signed + 1
    BY <1>1
  <2> DEFINE s == [r EXCEPT !.at = "create", !.serial = n, !.made = clock]
  <2>1. CallType(s) /\ Signs(r, s)
    BY <1>1, <1>5, <2>0, CallSigns
  <2>2. signed' \in Nat /\ faults' \in Nat
    BY <1>1, <1>2, <1>5, FaultCounts DEF Shapes, CountsType
  <2>3. Update(p, s)
    BY <1>5, <2>0
  <2> HIDE DEF s
  <2>4. Effect(r, s)
    BY <1>2, <2>1 DEF Effect, Reads
  <2>5. run' = [run EXCEPT ![p] = s] /\ UNCHANGED <<folderVars, clock>>
    BY <1>2, <2>3 DEF Update
  <2> QED BY <2>1, <2>2, <2>4, <2>5 DEF Moves
<1>6. CASE ~Good(r) /\ ChainDone(p, r) /\ UNCHANGED signed
  BY <1>3, <1>6 DEF ChainDone, Resting
<1>7. CASE Good(r) /\ r.seen # <<>> /\ Covered(r.seen) = entries[r.cursor] /\ UNCHANGED signed
           /\ (IF r.recorded THEN ChainDone(p, r) ELSE Added(p, r, Len(r.seen), Last(r.seen).hash))
  <2>1. CASE r.recorded
    BY <1>3, <1>7, <2>1 DEF ChainDone, Resting
  <2>2. CASE ~r.recorded
    BY <1>4, <1>7, <2>2
  <2> QED BY <2>1, <2>2
<1>8. CASE Fails(p, r) /\ UNCHANGED signed
  BY <1>3, <1>8 DEF Fails, Resting
<1> QED BY <1>5, <1>6, <1>7, <1>8 DEF VerifyChain, Good

\* An error after the file is there removes it, or not.
LEMMA WriteFailsMoves ==
    ASSUME Shapes, NEW p \in Runs, run[p].at \in {"write", "sync"}, WriteFails(p, run[p]),
           UNCHANGED <<folderVars, durable, heads, kept, signed, clock>>
    PROVE  \E s : Moves(p, s)
<1> DEFINE r == run[p]
           s == [r EXCEPT !.at = "flush"]
<1>1. CallType(r)
  BY DEF Shapes, RunType
<1>2. CallType(s) /\ Rests(r, s)
  BY <1>1, CallRests DEF Resting
<1>3. Update(p, s) /\ Fault("error") /\ "error" \in FaultKinds
  BY DEF WriteFails, Fails, Fault
<1> HIDE DEF s
<1>4. CASE SetFile(r, Without(series[r.cursor], Number(r)))
  <2>1. Removes(r, s)
    BY <1>2, <1>3, <1>4 DEF Removes
  <2> QED BY <1>2, <1>3, <2>1, Settles DEF Effect
<1>5. CASE UNCHANGED series
  BY <1>2, <1>3, <1>5, Settles DEF Effect, Reads, fileVars
<1> QED BY <1>4, <1>5 DEF WriteFails

LEMMA CreateMoves == ASSUME Shapes, NEW p \in Runs, Create(p) PROVE \E s : Moves(p, s)
<1> DEFINE r == run[p]
<1>1. CallType(r) /\ r.at = "create"
  BY DEF Create, Shapes, RunType
<1>2. UNCHANGED <<folderVars, durable, heads, kept, signed, clock>> /\ (Fault("error") \/ NoFault)
  BY DEF Create
<1>3. CASE Fails(p, r) /\ UNCHANGED series
  <2>1. CallType([r EXCEPT !.at = "flush"]) /\ Rests(r, [r EXCEPT !.at = "flush"])
    BY <1>1, CallRests DEF Resting
  <2> QED BY <1>2, <1>3, <2>1, Settles DEF Effect, Reads, Fails, fileVars
<1>4. CASE /\ ~Taken(r.cursor, Number(r)) /\ SetFile(r, File(series[r.cursor], Number(r), Torn))
           /\ Update(p, [r EXCEPT !.at = "write"])
  <2> DEFINE s == [r EXCEPT !.at = "write"]
  <2>1. CallType(s) /\ Same(r, s) /\ s.at = "write"
    BY <1>1, CallWrites
  <2>2. Update(p, s)
    BY <1>4
  <2> HIDE DEF s
  <2>3. Creates(r, s)
    BY <1>1, <1>2, <1>4, <2>1 DEF Creates
  <2> QED BY <1>2, <2>1, <2>2, <2>3, Settles DEF Effect
<1> QED BY <1>3, <1>4 DEF Create

LEMMA WriteFileMoves == ASSUME Shapes, NEW p \in Runs, WriteFile(p) PROVE \E s : Moves(p, s)
<1> DEFINE r == run[p]
           s == [r EXCEPT !.at = "sync"]
<1>1. CallType(r) /\ r.at = "write" /\ UNCHANGED <<folderVars, durable, heads, kept, signed, clock>>
  BY DEF WriteFile, Shapes, RunType
<1>2. CASE WriteFails(p, r)
  BY <1>1, <1>2, WriteFailsMoves
<1>3. CASE SetFile(r, File(series[r.cursor], Number(r), Signed(r))) /\ NoFault /\ Update(p, s)
  <2>1. CallType(s) /\ Same(r, s) /\ s.at = "sync"
    BY <1>1, CallWrites
  <2>2. Update(p, s) /\ NoFault
    BY <1>3
  <2> HIDE DEF s
  <2>3. Writes(r, s)
    BY <1>1, <1>3, <2>1 DEF Writes
  <2> QED BY <1>1, <2>1, <2>2, <2>3, Settles DEF Effect
<1> QED BY <1>2, <1>3 DEF WriteFile

LEMMA SyncFileMoves == ASSUME Shapes, NEW p \in Runs, SyncFile(p) PROVE \E s : Moves(p, s)
<1> DEFINE r == run[p]
<1>1. CallType(r) /\ r.at = "sync" /\ r.cursor \in Chains /\ UNCHANGED <<folderVars, heads, kept, signed, clock>>
  BY DEF SyncFile, Shapes, RunType, CallType, AtChain
<1>2. CASE WriteFails(p, r) /\ UNCHANGED durable
  BY <1>1, <1>2, WriteFailsMoves
<1>3. CASE durable' = durable \cup {<<r.cursor, Number(r)>>} /\ NoFault /\ AfterSync(p, r) /\ UNCHANGED series
  <2>1. Number(r) \in Numbers /\ Signed(r).hash \in Seq(Nat)
    <3>1. Signed(r) \in Cps
      BY <1>1, SignedType DEF Shapes
    <3> QED BY <1>1, <3>1, CallFields DEF Cps
  <2>2. PICK s : Update(p, s) /\ CallType(s) /\ (Rests(r, s) \/ Notes(r, s, Number(r), Signed(r).hash))
    BY <1>1, <1>3, <2>1, AddedEffect DEF AfterSync
  <2>3. Syncs(r, s)
    BY <1>1, <1>3, <2>2 DEF Syncs
  <2> QED BY <1>1, <1>3, <2>2, <2>3, Settles DEF Effect
<1> QED BY <1>2, <1>3 DEF SyncFile

\* Where a flush goes on, a batch or the last one, the heads pending are dropped.
LEMMA FlushedRests ==
    ASSUME NEW p, NEW r, CallType(r), NEW ok, Flushed(p, r, ok)
    PROVE  \E s : Update(p, s) /\ CallType(s) /\ Rests(r, s) /\ s.pending = {}
<1>1. CASE r.at \notin {"batch", "batchWrite"}
  <2>1. Update(p, NoRun)
    BY <1>1 DEF Flushed
  <2> QED BY <2>1, CallEnds DEF NoRun
<1>2. CASE r.at \in {"batch", "batchWrite"}
  <2> DEFINE done == [r EXCEPT !.pending = {}, !.next = <<>>]
  <2>1. ChainDone(p, done) \/ Fails(p, done)
    BY <1>2 DEF Flushed
  <2>2. PICK at \in Resting : Update(p, [done EXCEPT !.at = at])
    BY <2>1 DEF ChainDone, Fails, Resting
  <2> QED BY <2>2, CallFlushed
<1> QED BY <1>1, <1>2

LEMMA HeadOfType == ASSUME HeadsType, NEW r, CallType(r) PROVE [c \in Chains |-> HeadOf(r, c)] \in HeadMaps
<1>1. r.pending \subseteq Updates
  BY CallFields
<1>2. \A c \in Chains : HeadOf(r, c) \in Heads \cup {None}
  <2> TAKE c \in Chains
  <2>1. CASE \E u \in r.pending : u.chain = c
    <3> DEFINE u == CHOOSE u \in r.pending : u.chain = c
    <3>1. u \in Updates
      BY <1>1, <2>1
    <3>2. HeadOf(r, c) = [count |-> u.count, hash |-> u.hash]
      BY <2>1 DEF HeadOf
    <3> HIDE DEF u
    <3> QED BY <3>1, <3>2 DEF Updates, Heads
  <2>2. CASE ~ \E u \in r.pending : u.chain = c
    BY <2>2 DEF HeadOf, HeadsType, HeadMaps
  <2> QED BY <2>1, <2>2
<1> QED BY <1>2 DEF HeadMaps

LEMMA LoadHeadsMoves == ASSUME Shapes, NEW p \in Runs, LoadHeads(p) PROVE \E s : Moves(p, s)
<1> DEFINE r == run[p]
<1>1. CallType(r)
  BY DEF Shapes, RunType
<1>2. UNCHANGED <<folderVars, fileVars, signed, clock>> /\ (Fault("error") \/ NoFault)
  BY DEF LoadHeads
<1>3. PICK next \in HeadMaps : next = [c \in Chains |-> HeadOf(r, c)]
  BY <1>1, HeadOfType DEF Shapes
<1>4. CASE \E ok \in BOOLEAN : Flushed(p, r, ok)
  <2>1. PICK s : Update(p, s) /\ CallType(s) /\ Rests(r, s)
    BY <1>1, <1>4, FlushedRests
  <2> QED BY <1>2, <2>1, Settles DEF Effect, Reads
<1>5. CASE \E at \in Saving : Update(p, [r EXCEPT !.next = next, !.at = at]) /\ (\A u \in r.pending : ~Backwards(u))
  <2>1. PICK at \in Saving : Update(p, [r EXCEPT !.next = next, !.at = at])
    BY <1>5
  <2> DEFINE s == [r EXCEPT !.next = next, !.at = at]
  <2>2. CallType(s) /\ Loads(r, s)
    BY <1>1, <1>3, <1>5, CallLoads
  <2>3. Update(p, s)
    BY <2>1
  <2> HIDE DEF s
  <2> QED BY <1>2, <2>2, <2>3, Settles DEF Effect, Reads
<1>6. \/ Flushed(p, r, TRUE) \/ Flushed(p, r, FALSE)
      \/ /\ Update(p, [r EXCEPT !.next = next, !.at = IF r.at = "batch" THEN "batchWrite" ELSE "flushWrite"])
         /\ \A u \in r.pending : ~Backwards(u)
  BY <1>3 DEF LoadHeads, HeadOf
<1> QED BY <1>4, <1>5, <1>6 DEF Saving

LEMMA WriteHeadsMoves == ASSUME Shapes, NEW p \in Runs, WriteHeads(p) PROVE \E s : Moves(p, s)
<1> DEFINE r == run[p]
<1>1. CallType(r)
  BY DEF Shapes, RunType
<1>2. r.at \in Saving /\ UNCHANGED <<folderVars, series, durable, signed, clock>> /\ (Fault("error") \/ NoFault)
  BY DEF WriteHeads, Saving
<1>3. PICK ok \in BOOLEAN : Flushed(p, r, ok)
  BY DEF WriteHeads
<1>4. PICK s : Update(p, s) /\ CallType(s) /\ Rests(r, s) /\ s.pending = {}
  BY <1>1, <1>3, FlushedRests
<1>5. Saves(r, s)
  BY <1>2, <1>4 DEF WriteHeads, Saves, Rests
<1> QED BY <1>2, <1>4, <1>5, Settles DEF Effect

\* A step of a call, whatever it is.
LEMMA CallMoves ==
    ASSUME Shapes, NEW p \in Runs, StartAny(p) \/ Step(p) \/ Kill(p)
    PROVE  \E s : Moves(p, s)
BY StartMoves, KillMoves, OpenPageMoves, NextChainMoves, ReadSeriesMoves, ReadHeadMoves, VerifyChainMoves,
   CreateMoves, WriteFileMoves, SyncFileMoves, LoadHeadsMoves, WriteHeadsMoves DEF Step

-----------------------------------------------------------------------------
(* The other steps *)

\* A commit or an erasure: outside every page, and a chain only grows.
FolderMoves ==
    /\ Exclusive /\ UNCHANGED <<fileVars, run, clock, signed>> /\ faults' \in Nat
    /\ FolderType' /\ \A c \in Chains : entries[c] <= entries'[c]
    /\ \A c \in Chains : \/ erasedAt'[c] = erasedAt[c]
                         \/ erasedAt'[c] = entries[c] + 1 /\ entries'[c] = entries[c] + 1
    /\ \A c \in Chains : index'[c] = "live" =>
          erasedAt'[c] = 0 \/ (index[c] = "live" /\ erasedAt'[c] = erasedAt[c])

LEMMA FolderSteps == ASSUME Shapes, NEW c \in Chains, Commit(c) \/ Erase(c) PROVE FolderMoves
<1>1. faults' \in Nat
  BY FaultCounts DEF Commit, Erase, Shapes, CountsType
<1>2. CASE Commit(c)
  BY <1>1, <1>2 DEF Commit, FolderMoves, Shapes, FolderType
<1>3. CASE Erase(c)
  <2>1. EntryAppended(c) \/ UNCHANGED <<entries, erasedAt>>
    BY <1>3 DEF Erase
  <2>2. index' = [index EXCEPT ![c] = "gone"] \/ index' = [index EXCEPT ![c] = "pending"]
    BY <1>3 DEF Erase
  <2>3. Exclusive /\ UNCHANGED <<fileVars, run, clock, signed>>
    BY <1>3 DEF Erase
  <2> QED BY <1>1, <2>1, <2>2, <2>3 DEF EntryAppended, FolderMoves, Shapes, FolderType
<1> QED BY <1>2, <1>3

\* Files are lost, torn or taken away, and no call is in progress after it; those
\* on the disk that are in stay remain as they are.
FilesTaken(stay) ==
    /\ Shapes' /\ \A p \in Runs : run'[p].at = "idle" /\ run'[p] \in {run[p], NoRun}
    /\ \A c \in Chains : \A n \in DOMAIN series'[c] :
          n \in DOMAIN series[c] /\ series'[c][n] \in {series[c][n], Torn}
    /\ \A x \in durable \cap stay : x[2] \in DOMAIN series'[x[1]] /\ series'[x[1]][x[2]] = series[x[1]][x[2]]
    /\ durable' \subseteq FilesOf(series')
    /\ UNCHANGED <<folderVars, clock>>

LEMMA PowerLossTakes ==
    ASSUME Shapes, durable \subseteq FilesOf(series), PowerLoss
    PROVE  FilesTaken(durable) /\ (\A p \in Runs : run'[p] = NoRun) /\ heads' \in {heads, kept} /\ kept' = heads'
<1>1. PICK lost \in SUBSET (FilesOf(series) \ durable), torn \in SUBSET (FilesOf(series) \ durable) :
          series' = [c \in Chains |->
                       [n \in {m \in DOMAIN series[c] : <<c, m>> \notin lost} |->
                           IF <<c, n>> \in torn THEN Torn ELSE series[c][n]]]
  BY DEF PowerLoss
<1>2. \A c \in Chains : series'[c] \in Files
  <2> TAKE c \in Chains
  <2> DEFINE D == {m \in DOMAIN series[c] : <<c, m>> \notin lost}
             f == [n \in D |-> IF <<c, n>> \in torn THEN Torn ELSE series[c][n]]
  <2>1. series[c] \in Files
    BY DEF Shapes, SeriesType
  <2>2. IsFiniteSet(D) /\ D \subseteq Numbers
    <3>1. D \in SUBSET (DOMAIN series[c]) /\ IsFiniteSet(DOMAIN series[c]) /\ DOMAIN series[c] \subseteq Numbers
      BY <2>1, FilesDef
    <3> QED BY <3>1, FS_Subset
  <2>3. DOMAIN f = D /\ (\A n \in D : f[n] \in Cps) /\ f = [n \in DOMAIN f |-> f[n]]
    BY <2>1, FilesDef, TornType
  <2>4. series'[c] = f
    BY <1>1
  <2> HIDE DEF f
  <2> QED BY <2>2, <2>3, <2>4, FilesDef
<1>3. SeriesType'
  BY <1>1, <1>2 DEF SeriesType
<1>4. run' = [p \in Runs |-> NoRun] /\ NoRun.at = "idle" /\ RunType'
  <2>1. CallType(NoRun)
    BY CallEnds
  <2> QED BY <2>1 DEF PowerLoss, RunType, NoRun
<1>5. heads' \in {heads, kept} /\ kept' = heads' /\ HeadsType'
  BY DEF PowerLoss, Shapes, HeadsType
<1>6. faults' \in Nat /\ UNCHANGED <<folderVars, signed, clock>>
  BY FaultCounts DEF PowerLoss, Shapes, CountsType
<1>7. Shapes'
  BY <1>3, <1>4, <1>5, <1>6 DEF Shapes, FolderType, CountsType, folderVars
<1>8. \A c \in Chains : \A n \in DOMAIN series'[c] : n \in DOMAIN series[c] /\ series'[c][n] \in {series[c][n], Torn}
  BY <1>1
<1>9. \A x \in durable : x[2] \in DOMAIN series'[x[1]] /\ series'[x[1]][x[2]] = series[x[1]][x[2]]
  <2> TAKE x \in durable
  <2>1. x = <<x[1], x[2]>> /\ x[1] \in Chains /\ x[2] \in DOMAIN series[x[1]]
    BY FilePair
  <2>2. <<x[1], x[2]>> \notin lost /\ <<x[1], x[2]>> \notin torn
    BY <2>1
  <2> QED BY <1>1, <2>1, <2>2
<1>10. durable' \subseteq FilesOf(series')
  BY DEF PowerLoss
<1>11. FilesTaken(durable)
  BY <1>4, <1>6, <1>7, <1>8, <1>9, <1>10 DEF FilesTaken
<1> QED BY <1>4, <1>5, <1>11

LEMMA RestoreTakes ==
    ASSUME Shapes, durable \subseteq FilesOf(series), NEW c \in Chains, Restore(c)
    PROVE  FilesTaken({}) /\ UNCHANGED <<heads, kept, run>> /\ "restore" \in FaultKinds
<1>1. PICK n \in 0..(Len(series[c]) - 1) :
          /\ series' = [series EXCEPT ![c] = SubSeq(@, 1, n)]
          /\ durable' = {x \in durable : x[1] # c \/ x[2] <= n}
  BY DEF Restore
<1>2. series[c] \in Files /\ WellFormed(series[c])
  BY DEF Restore, Shapes, SeriesType
<1>3. series[c] \in Seq(Cps) /\ DOMAIN series[c] = 1..Len(series[c]) /\ Len(series[c]) \in Nat
  BY <1>2, WellFormedSeq
<1> DEFINE f == SubSeq(series[c], 1, n)
<1>4. f \in Seq(Cps) /\ Len(f) = n /\ DOMAIN f = 1..n /\ \A m \in 1..n : m \in DOMAIN series[c] /\ f[m] = series[c][m]
  <2>1. n \in Nat /\ n <= Len(series[c])
    BY <1>3
  <2>2. f \in Seq(Cps) /\ Len(f) = n
    BY <1>3, <2>1, SubSeqProperties
  <2>3. \A m \in 1..n : f[m] = series[c][m]
    BY <1>3, <2>1, SubSeqProperties
  <2> QED BY <1>3, <2>1, <2>2, <2>3, LenProperties
<1> HIDE DEF f
<1>5. f \in Files
  <2>1. IsFiniteSet(1..n) /\ 1..n \subseteq Numbers
    BY FS_Interval DEF Numbers
  <2>2. (\A m \in DOMAIN f : f[m] \in Cps) /\ f = [m \in DOMAIN f |-> f[m]]
    BY <1>4, ElementOfSeq, LenProperties
  <2> QED BY <1>4, <2>1, <2>2, FilesDef
<1>6. series' = [series EXCEPT ![c] = f]
  BY <1>1 DEF f
<1>7. SeriesType'
  BY <1>5, <1>6 DEF Shapes, SeriesType
<1>8. faults' \in Nat /\ UNCHANGED <<folderVars, heads, kept, run, signed, clock>> /\ "restore" \in FaultKinds
  BY FaultCounts DEF Restore, Fault, Shapes, CountsType
<1>9. Shapes'
  BY <1>7, <1>8 DEF Shapes, FolderType, HeadsType, RunType, CountsType, folderVars
<1>10. series = [d \in Chains |-> series[d]]
  BY DEF Shapes, SeriesType
<1>11. \A d \in Chains : \A m \in DOMAIN series'[d] : m \in DOMAIN series[d] /\ series'[d][m] \in {series[d][m], Torn}
  BY <1>4, <1>6, <1>10
<1>12. durable' \subseteq FilesOf(series')
  <2> SUFFICES ASSUME NEW x \in durable' PROVE x \in FilesOf(series')
    OBVIOUS
  <2>1. x \in durable /\ (x[1] # c \/ x[2] <= n)
    BY <1>1
  <2>2. x = <<x[1], x[2]>> /\ x[1] \in Chains /\ x[2] \in DOMAIN series[x[1]]
    BY <2>1, FilePair
  <2>3. x[2] \in DOMAIN series'[x[1]]
    BY <1>3, <1>4, <1>6, <1>10, <2>1, <2>2
  <2> QED BY <2>2, <2>3, FileNamed
<1>13. \A p \in Runs : run'[p].at = "idle" /\ run'[p] \in {run[p], NoRun}
  BY <1>8 DEF Restore
<1> QED BY <1>8, <1>9, <1>11, <1>12, <1>13 DEF FilesTaken

LEMMA RemoveTornTakes ==
    ASSUME Shapes, durable \subseteq FilesOf(series), NEW c \in Chains, RemoveTorn(c)
    PROVE  /\ FilesTaken({x \in FilesOf(series) : series[x[1]][x[2]] # Torn}) /\ UNCHANGED <<heads, kept, run>>
           /\ \E n \in DOMAIN series[c] : series[c][n] = Torn /\ series' = [series EXCEPT ![c] = Without(series[c], n)]
<1>1. PICK n \in DOMAIN series[c] :
          /\ series[c][n] = Torn
          /\ series' = [series EXCEPT ![c] = Without(series[c], n)]
          /\ durable' = durable \ {<<c, n>>}
  BY DEF RemoveTorn
<1>2. series[c] \in Files /\ series = [d \in Chains |-> series[d]]
  BY DEF Shapes, SeriesType
<1>3. /\ Without(series[c], n) \in Files /\ DOMAIN Without(series[c], n) = DOMAIN series[c] \ {n}
      /\ \A m \in DOMAIN series[c] : m # n => Without(series[c], n)[m] = series[c][m]
  BY <1>2, FileRemoved
<1>4. SeriesType'
  BY <1>1, <1>3 DEF Shapes, SeriesType
<1>5. UNCHANGED <<folderVars, heads, kept, run, signed, clock, faults>>
  BY DEF RemoveTorn
<1>6. Shapes'
  BY <1>4, <1>5 DEF Shapes, FolderType, HeadsType, RunType, CountsType, folderVars
<1>7. \A d \in Chains : \A m \in DOMAIN series'[d] : m \in DOMAIN series[d] /\ series'[d][m] \in {series[d][m], Torn}
  BY <1>1, <1>2, <1>3
<1>8. \A x \in durable : x # <<c, n>> =>
          x \in FilesOf(series') /\ x[2] \in DOMAIN series'[x[1]] /\ series'[x[1]][x[2]] = series[x[1]][x[2]]
  <2> SUFFICES ASSUME NEW x \in durable, x # <<c, n>>
               PROVE  x \in FilesOf(series') /\ x[2] \in DOMAIN series'[x[1]] /\ series'[x[1]][x[2]] = series[x[1]][x[2]]
    OBVIOUS
  <2>1. x = <<x[1], x[2]>> /\ x[1] \in Chains /\ x[2] \in DOMAIN series[x[1]]
    BY FilePair
  <2>2. x[1] # c \/ x[2] # n
    BY <2>1
  <2>3. x[2] \in DOMAIN series'[x[1]] /\ series'[x[1]][x[2]] = series[x[1]][x[2]]
    BY <1>1, <1>2, <1>3, <2>1, <2>2
  <2> QED BY <2>1, <2>3, FileNamed
<1>9. durable' \subseteq FilesOf(series')
  BY <1>1, <1>8
<1>10. \A x \in durable \cap {x \in FilesOf(series) : series[x[1]][x[2]] # Torn} :
          x[2] \in DOMAIN series'[x[1]] /\ series'[x[1]][x[2]] = series[x[1]][x[2]]
  BY <1>1, <1>8
<1>11. \A p \in Runs : run'[p].at = "idle" /\ run'[p] \in {run[p], NoRun}
  BY <1>5 DEF RemoveTorn
<1>12. FilesTaken({x \in FilesOf(series) : series[x[1]][x[2]] # Torn})
  BY <1>5, <1>6, <1>7, <1>9, <1>10, <1>11 DEF FilesTaken
<1> QED BY <1>1, <1>5, <1>12

-----------------------------------------------------------------------------
(* What the moves leave *)

LEMMA MovedRuns ==
    ASSUME RunType, NEW p, NEW s, Moves(p, s)
    PROVE  run'[p] = s /\ (\A q \in Runs : q # p => run'[q] = run[q]) /\ RunType'
<1>1. run' = [run EXCEPT ![p] = s] /\ CallType(s) /\ p \in Runs
  BY DEF Moves
<1>2. run = [q \in Runs |-> run[q]] /\ \A q \in Runs : CallType(run[q])
  BY DEF RunType
<1>3. run' = [q \in Runs |-> run'[q]] /\ run'[p] = s /\ \A q \in Runs : q # p => run'[q] = run[q]
  BY <1>1, <1>2
<1>4. \A q \in Runs : CallType(run'[q])
  BY <1>1, <1>2, <1>3
<1> QED BY <1>3, <1>4 DEF RunType

\* One file of one chain changes.
LEMMA OneChain ==
    ASSUME SeriesType, NEW c \in Chains, NEW f \in Files, series' = [series EXCEPT ![c] = f]
    PROVE  SeriesType' /\ series'[c] = f /\ \A d \in Chains : d # c => series'[d] = series[d]
BY DEF SeriesType

\* The file a call is at: it is made, written or removed, and no other file changes.
PlaceOf(r) == <<r.cursor, Number(r)>>
Place(p)   == PlaceOf(run[p])

Touches(r, s) == Creates(r, s) \/ Writes(r, s) \/ Removes(r, s)

LEMMA TouchedFiles ==
    ASSUME Shapes, NEW r, CallType(r), NEW s, Touches(r, s)
    PROVE  /\ SeriesType' /\ r.cursor \in Chains /\ Number(r) \in Numbers
           /\ \A c \in Chains, n \in Numbers : <<c, n>> # PlaceOf(r) =>
                 (n \in DOMAIN series'[c] <=> n \in DOMAIN series[c]) /\ (n \in DOMAIN series[c] => series'[c][n] = series[c][n])
           /\ Number(r) \in DOMAIN series'[r.cursor] <=> ~Removes(r, s)
           /\ Creates(r, s) => series'[r.cursor][Number(r)] = Torn
           /\ Writes(r, s) => series'[r.cursor][Number(r)] = Signed(r)
           /\ \A c \in Chains : c # r.cursor => series'[c] = series[c]
           /\ ~Removes(r, s) => DOMAIN series'[r.cursor] = DOMAIN series[r.cursor] \cup {Number(r)}
<1> DEFINE c == r.cursor
           n == Number(r)
<1>1. c \in Chains /\ n \in Numbers /\ series[c] \in Files
  <2>1. r.at \in AtChain
    BY DEF Touches, Creates, Writes, Removes, AtChain
  <2> QED BY <2>1, CallFields DEF CallType, Shapes, SeriesType
<1>2. \A d \in Chains : DOMAIN series[d] \subseteq Numbers
  BY FilesDef DEF Shapes, SeriesType
<1>3. CASE ~Removes(r, s)
  <2>1. PICK a \in Cps : /\ series' = [series EXCEPT ![c] = File(series[c], n, a)]
                         /\ Creates(r, s) => a = Torn
                         /\ Writes(r, s) => a = Signed(r)
    <3>1. CASE Creates(r, s)
      BY <3>1, TornType DEF Creates, Writes, SetFile
    <3>2. CASE Writes(r, s)
      BY <1>1, <3>2, SignedType DEF Writes, Creates, SetFile, Shapes
    <3> QED BY <1>3, <3>1, <3>2 DEF Touches
  <2> DEFINE f == File(series[c], n, a)
  <2>2. f \in Files /\ DOMAIN f = DOMAIN series[c] \cup {n} /\ f[n] = a /\ \A m \in DOMAIN series[c] : m # n => f[m] = series[c][m]
    BY <1>1, FileSet
  <2> HIDE DEF f
  <2>3. SeriesType' /\ series'[c] = f /\ \A d \in Chains : d # c => series'[d] = series[d]
    BY <1>1, <2>1, <2>2, OneChain DEF Shapes, f
  <2> QED BY <1>1, <1>2, <1>3, <2>1, <2>2, <2>3 DEF PlaceOf
<1>4. CASE Removes(r, s)
  <2> DEFINE f == Without(series[c], n)
  <2>1. f \in Files /\ DOMAIN f = DOMAIN series[c] \ {n} /\ \A m \in DOMAIN series[c] : m # n => f[m] = series[c][m]
    BY <1>1, FileRemoved
  <2>2. series' = [series EXCEPT ![c] = f]
    BY <1>4 DEF Removes, SetFile
  <2> HIDE DEF f
  <2>3. SeriesType' /\ series'[c] = f /\ \A d \in Chains : d # c => series'[d] = series[d]
    BY <1>1, <2>1, <2>2, OneChain DEF Shapes
  <2>4. ~Creates(r, s) /\ ~Writes(r, s)
    BY <1>4 DEF Removes, Creates, Writes, Rests, Resting
  <2> QED BY <1>1, <1>2, <1>4, <2>1, <2>3, <2>4 DEF PlaceOf
<1> QED BY <1>3, <1>4

LEMMA MoveShapes == ASSUME Shapes, NEW p, NEW s, Moves(p, s) PROVE Shapes'
<1>1. CallType(run[p]) /\ p \in Runs
  BY DEF Shapes, RunType, Moves
<1>2. RunType'
  BY MovedRuns DEF Shapes
<1>3. CountsType' /\ FolderType'
  BY DEF Shapes, CountsType, FolderType, folderVars, Moves
<1>4. CASE Touches(run[p], s)
  <2>1. SeriesType'
    BY <1>1, <1>4, TouchedFiles
  <2>2. HeadsType'
    BY <1>4 DEF Touches, Creates, Writes, Removes, Shapes, HeadsType
  <2> QED BY <1>2, <1>3, <2>1, <2>2 DEF Shapes
<1>5. CASE UNCHANGED fileVars \/ Syncs(run[p], s)
  BY <1>2, <1>3, <1>5 DEF Shapes, SeriesType, HeadsType, fileVars, Syncs
<1>6. CASE Saves(run[p], s)
  <2>1. HeadsType'
    BY <1>1, <1>6 DEF Saves, CallType, Shapes, HeadsType
  <2> QED BY <1>2, <1>3, <1>6, <2>1 DEF Shapes, SeriesType, Saves
<1> QED BY <1>4, <1>5, <1>6 DEF Moves, Effect, Touches

\* What happens beside the calls, the folder and the files.
Idles == UNCHANGED <<folderVars, fileVars, run>> /\ Shapes' /\ (UNCHANGED clock \/ "clock" \in FaultKinds)

LEMMA Steps ==
    ASSUME Shapes, [Next]_vars
    PROVE  \/ \E p \in Runs : \E s : Moves(p, s)
           \/ FolderMoves \/ Idles \/ PowerLoss
           \/ \E c \in Chains : Restore(c) \/ RemoveTorn(c)
<1>1. CASE \E p \in Runs : StartAny(p) \/ Step(p) \/ Kill(p)
  BY <1>1, CallMoves
<1>2. CASE \E c \in Chains : Commit(c) \/ Erase(c)
  BY <1>2, FolderSteps
<1>3. CASE (\E c \in Chains : VerifySeries(c)) \/ VerifyHead \/ UNCHANGED vars
  <2>1. UNCHANGED <<folderVars, fileVars, run, signed, clock, faults>>
    BY <1>3 DEF VerifySeries, VerifyHead, vars
  <2> QED BY <2>1 DEF Idles, Shapes, FolderType, SeriesType, HeadsType, RunType, CountsType, folderVars, fileVars
<1>4. CASE Tick \/ ClockBack
  <2>1. UNCHANGED <<folderVars, fileVars, run, signed>> /\ faults' \in Nat /\ clock' \in {0, 1} /\ "clock" \in FaultKinds
    BY <1>4, FaultCounts DEF Tick, ClockBack, Fault, Shapes, CountsType
  <2> QED BY <2>1 DEF Idles, Shapes, FolderType, SeriesType, HeadsType, RunType, CountsType, folderVars, fileVars
<1> QED BY <1>1, <1>2, <1>3, <1>4 DEF Next

LEMMA InitShapes == ASSUME Init PROVE Shapes
<1>1. <<>> \in Files
  <2>1. <<>> \in Seq(Cps) /\ Len(<<>>) = 0
    BY EmptySeq
  <2>2. DOMAIN <<>> = {}
    BY <2>1, LenProperties
  <2>3. IsFiniteSet({})
    BY FS_EmptySet
  <2>4. <<>> = [n \in DOMAIN <<>> |-> <<>>[n]]
    BY <2>2
  <2> QED BY <2>2, <2>3, <2>4, FilesDef
<1>2. CallType(NoRun)
  BY CallEnds
<1>3. SeriesType
  BY <1>1 DEF Init, SeriesType
<1>4. HeadsType /\ FolderType
  BY DEF Init, HeadsType, HeadMaps, FolderType
<1>5. RunType
  BY <1>2 DEF Init, RunType
<1>6. CountsType
  BY CheckpointAssumption DEF Init, CountsType
<1> QED BY <1>3, <1>4, <1>5, <1>6 DEF Shapes

-----------------------------------------------------------------------------
(* CheckpointsKept.  A call touches one file: the one it made itself, which no  *)
(* other call is at and which is not on the disk yet.                           *)

Placing(p) == run[p].at \in {"write", "sync"}

Places ==
    /\ durable \subseteq FilesOf(series)
    /\ \A p \in Runs : Placing(p) => Place(p) \in FilesOf(series) \ durable
    /\ \A p, q \in Runs : p # q /\ Placing(p) /\ Placing(q) => Place(p) # Place(q)

\* A file stays where no call that is at it changes it.
LEMMA MoveKeeps ==
    ASSUME Shapes, NEW p, NEW s, Moves(p, s), NEW x \in FilesOf(series), x # Place(p) \/ ~Touches(run[p], s)
    PROVE  x \in FilesOf(series') /\ x[2] \in DOMAIN series'[x[1]] /\ series'[x[1]][x[2]] = series[x[1]][x[2]]
<1>1. x = <<x[1], x[2]>> /\ x[1] \in Chains /\ x[2] \in DOMAIN series[x[1]]
  BY FilePair
<1>2. x[2] \in Numbers
  BY <1>1, FilesDef DEF Shapes, SeriesType
<1>3. CASE Touches(run[p], s)
  <2>1. CallType(run[p])
    BY DEF Shapes, RunType, Moves
  <2>2. <<x[1], x[2]>> # PlaceOf(run[p])
    BY <1>1, <1>3 DEF Place
  <2>3. x[2] \in DOMAIN series'[x[1]] /\ series'[x[1]][x[2]] = series[x[1]][x[2]]
    BY <1>1, <1>2, <1>3, <2>1, <2>2, TouchedFiles
  <2> QED BY <1>1, <2>3, FileNamed
<1>4. CASE ~Touches(run[p], s)
  <2>1. UNCHANGED series
    BY <1>4 DEF Moves, Effect, Touches, Syncs, Saves, fileVars
  <2> QED BY <1>1, <2>1
<1> QED BY <1>3, <1>4

LEMMA MovePlaces == ASSUME Shapes, Places, NEW p, NEW s, Moves(p, s) PROVE Places'
<1> DEFINE r == run[p]
<1>0. p \in Runs /\ CallType(r) /\ CallType(s) /\ run'[p] = s /\ \A q \in Runs : q # p => run'[q] = run[q]
  BY MovedRuns DEF Shapes, RunType, Moves
<1>1. \A q \in Runs : q # p => Place(q)' = Place(q) /\ Placing(q)' = Placing(q)
  BY <1>0 DEF Place, PlaceOf, Number, Placing
<1>2. Place(p)' = PlaceOf(s) /\ Placing(p)' = (s.at \in {"write", "sync"})
  BY <1>0 DEF Place, PlaceOf, Number, Placing
<1>3. \A q \in Runs : q # p /\ Placing(q) /\ Placing(p) => Place(q) # Place(p)
  BY <1>0 DEF Places
<1>4. CASE Creates(r, s)
  <2>1. s.at = "write" /\ PlaceOf(s) = Place(p) /\ UNCHANGED durable /\ Touches(r, s) /\ ~Removes(r, s)
    BY <1>4 DEF Creates, Same, SameCall, Place, PlaceOf, Number, Touches, Removes
  <2>2. Place(p) \notin FilesOf(series)
    BY <1>4, FileNamed DEF Creates, Taken, Place, PlaceOf
  <2>3. Place(p) \in FilesOf(series')
    BY <1>0, <2>1, TouchedFiles, FileNamed DEF Place, PlaceOf
  <2>4. \A x \in FilesOf(series) : x \in FilesOf(series')
    BY <2>2, MoveKeeps
  <2>5. durable' \subseteq FilesOf(series') /\ Place(p) \notin durable'
    BY <2>1, <2>2, <2>4 DEF Places
  <2>6. \A q \in Runs : Placing(q)' => Place(q)' \in FilesOf(series') \ durable'
    BY <1>0, <1>1, <1>2, <2>1, <2>3, <2>4, <2>5 DEF Places
  <2>7. \A q \in Runs : q # p /\ Placing(q)' => Place(q)' # Place(p)'
    BY <1>1, <1>2, <2>1, <2>2 DEF Places
  <2> QED BY <1>0, <1>1, <2>5, <2>6, <2>7 DEF Places
<1>5. CASE Writes(r, s)
  <2>1. s.at = "sync" /\ r.at = "write" /\ PlaceOf(s) = Place(p) /\ UNCHANGED durable /\ Touches(r, s) /\ ~Removes(r, s)
    BY <1>5 DEF Writes, Same, SameCall, Place, PlaceOf, Number, Touches, Removes, Rests, Resting
  <2>2. Place(p) \in FilesOf(series')
    BY <1>0, <2>1, TouchedFiles, FileNamed DEF Place, PlaceOf
  <2>3. \A x \in FilesOf(series) : x \in FilesOf(series')
    BY <2>2, MoveKeeps
  <2>4. Placing(p) /\ Place(p)' = Place(p)
    BY <1>2, <2>1 DEF Placing
  <2> QED BY <1>0, <1>1, <2>1, <2>3, <2>4 DEF Places
<1>6. CASE Removes(r, s)
  <2>1. s.at \notin {"write", "sync"} /\ Placing(p) /\ UNCHANGED durable
    BY <1>6 DEF Removes, Rests, Resting, Placing
  <2>2. \A x \in FilesOf(series) : x # Place(p) => x \in FilesOf(series')
    BY MoveKeeps
  <2>3. durable' \subseteq FilesOf(series')
    BY <1>0, <2>1, <2>2 DEF Places
  <2> QED BY <1>0, <1>1, <1>2, <1>3, <2>1, <2>2, <2>3 DEF Places
<1>7. CASE Syncs(r, s)
  <2>1. s.at \notin {"write", "sync"} /\ Placing(p) /\ UNCHANGED series /\ durable' = durable \cup {Place(p)}
    BY <1>7 DEF Syncs, Rests, Notes, Resting, Placing, Place, PlaceOf
  <2>2. FilesOf(series') = FilesOf(series)
    BY <2>1
  <2>3. durable' \subseteq FilesOf(series')
    BY <1>0, <2>1, <2>2 DEF Places
  <2>4. \A q \in Runs : Placing(q)' => q # p /\ Place(q)' \in FilesOf(series') \ durable'
    BY <1>0, <1>1, <1>2, <1>3, <2>1, <2>2 DEF Places
  <2>5. \A q, o \in Runs : q # o /\ Placing(q)' /\ Placing(o)' => Place(q)' # Place(o)'
    BY <1>1, <2>4 DEF Places
  <2> QED BY <2>3, <2>4, <2>5 DEF Places
<1>8. CASE UNCHANGED <<series, durable>> /\ s.at \notin {"write", "sync"}
  BY <1>0, <1>1, <1>2, <1>8 DEF Places
<1>9. CASE Reads(r, s) /\ UNCHANGED fileVars
  BY <1>8, <1>9 DEF Reads, Rests, Turns, SeesSeries, SeesHead, Signs, NotesSeen, Notes, Loads, Resting, Saving, fileVars
<1>10. CASE Saves(r, s)
  BY <1>8, <1>10 DEF Saves, Resting
<1> QED BY <1>4, <1>5, <1>6, <1>7, <1>9, <1>10 DEF Moves, Effect

LEMMA TakenPlaces == ASSUME NEW stay, FilesTaken(stay) PROVE Places'
BY DEF FilesTaken, Places, Placing

LEMMA InitPlaces == ASSUME Init PROVE Shapes /\ Places
<1>1. Shapes
  BY InitShapes
<1>2. \A p \in Runs : ~Placing(p)
  BY DEF Init, Placing, NoRun
<1> QED BY <1>1, <1>2 DEF Init, Places

LEMMA PlacesStep == ASSUME Shapes, Places, [Next]_vars PROVE Shapes' /\ Places'
<1>1. ASSUME NEW p \in Runs, NEW s, Moves(p, s) PROVE Shapes' /\ Places'
  BY <1>1, MoveShapes, MovePlaces
<1>2. CASE FolderMoves
  <2>1. Shapes'
    BY <1>2 DEF FolderMoves, Shapes, SeriesType, HeadsType, RunType, CountsType, fileVars
  <2> QED BY <1>2, <2>1 DEF FolderMoves, Places, Place, Placing, fileVars
<1>3. CASE Idles
  BY <1>3 DEF Idles, Places, Place, Placing, fileVars
<1>4. ASSUME NEW stay, FilesTaken(stay) PROVE Shapes' /\ Places'
  BY <1>4, TakenPlaces DEF FilesTaken
<1>5. durable \subseteq FilesOf(series)
  BY DEF Places
<1>6. CASE PowerLoss
  BY <1>4, <1>5, <1>6, PowerLossTakes
<1>7. ASSUME NEW c \in Chains, Restore(c) \/ RemoveTorn(c) PROVE Shapes' /\ Places'
  BY <1>4, <1>5, <1>7, RestoreTakes, RemoveTornTakes
<1> QED BY <1>1, <1>2, <1>3, <1>6, <1>7, Steps

\* What a step does to a checkpoint that is on the disk.
CheckpointStays(x) ==
    LET a == series[x[1]][x[2]] IN
    a # Torn => x[2] \in DOMAIN series'[x[1]] /\ series'[x[1]][x[2]] = a

LEMMA StaysStep ==
    ASSUME "restore" \notin FaultKinds, Shapes, Places, [Next]_vars, NEW x \in durable
    PROVE  CheckpointStays(x)
<1>1. x \in FilesOf(series)
  BY DEF Places
<1>2. ASSUME NEW p \in Runs, NEW s, Moves(p, s) PROVE CheckpointStays(x)
  <2>1. CASE ~Touches(run[p], s) \/ x # Place(p)
    BY <1>1, <1>2, <2>1, MoveKeeps DEF CheckpointStays
  <2>2. CASE Touches(run[p], s) /\ x = Place(p)
    <3>1. CASE Creates(run[p], s)
      BY <1>1, <2>2, <3>1, FileNamed DEF Creates, Taken, Place, PlaceOf
    <3>2. CASE Writes(run[p], s) \/ Removes(run[p], s)
      BY <2>2, <3>2 DEF Writes, Removes, Places, Placing
    <3> QED BY <2>2, <3>1, <3>2 DEF Touches
  <2> QED BY <2>1, <2>2
<1>3. CASE FolderMoves \/ Idles
  <2>1. UNCHANGED series
    BY <1>3 DEF FolderMoves, Idles, fileVars
  <2>2. x[2] \in DOMAIN series[x[1]]
    BY <1>1, FilePair
  <2> QED BY <2>1, <2>2 DEF CheckpointStays
<1>4. CASE PowerLoss
  BY <1>4, PowerLossTakes DEF FilesTaken, CheckpointStays, Places
<1>5. ASSUME NEW c \in Chains, RemoveTorn(c) PROVE CheckpointStays(x)
  BY <1>1, <1>5, RemoveTornTakes DEF FilesTaken, CheckpointStays, Places
<1>6. ASSUME NEW c \in Chains, Restore(c) PROVE FALSE
  BY <1>6 DEF Restore, Fault
<1> QED BY <1>2, <1>3, <1>4, <1>5, <1>6, Steps

\* Whatever errors, kills and power losses there are, and however many processes
\* checkpoint side by side, a checkpoint that is on the disk stays as it is: a call
\* writes and removes only the file it made itself and has not synced.
THEOREM DurableKept == ASSUME "restore" \notin FaultKinds PROVE Spec => CheckpointsKept
<1>1. Init => Shapes /\ Places
  BY InitPlaces
<1>2. Shapes /\ Places /\ [Next]_vars => (Shapes /\ Places)'
  BY PlacesStep
<1>3. Shapes /\ Places /\ [Next]_vars =>
         [\A x \in durable : LET a == series[x[1]][x[2]] IN
             a # Torn => x[2] \in DOMAIN series'[x[1]] /\ series'[x[1]][x[2]] = a]_vars
  BY StaysStep DEF CheckpointStays
<1> QED BY <1>1, <1>2, <1>3, PTL DEF Spec, CheckpointsKept

-----------------------------------------------------------------------------
(* ErasureConfirmed.  A call decides by the series it read; that the file it then *)
(* creates is the next one of that series is what tells it nobody signed in       *)
(* between.  Only a call that removes a file another one has read breaks this.    *)

Erasures == \A c \in Chains : erasedAt[c] # 0 => erasedAt[c] <= entries[c] /\ index[c] # "live"

CoversWithin == \A c \in Chains : \A n \in DOMAIN series[c] : series[c][n].covers <= entries[c]

\* What a call read is still there, and its own file is as it left it.
Prefix(s, f) == \A n \in DOMAIN s : n \in DOMAIN f /\ f[n] = s[n] /\ s[n] # Torn
SeenStands(r) ==
    /\ r.at \in {"head", "verify", "create", "write", "sync"} => Prefix(r.seen, series[r.cursor])
    /\ r.at = "write" => series[r.cursor][Number(r)] = Torn
    /\ r.at = "sync" => series[r.cursor][Number(r)] = Signed(r)
SeenStand == \A p \in Runs : SeenStands(run[p])

\* No two calls of which one may remove a file.
Undisturbed == "error" \notin FaultKinds \/ \A p, q \in Runs : p = q

LEMMA MovedFile ==
    ASSUME Shapes, NEW p, NEW s, Moves(p, s), NEW c \in Chains, NEW n \in DOMAIN series'[c]
    PROVE  \/ n \in DOMAIN series[c] /\ series'[c][n] = series[c][n]
           \/ /\ <<c, n>> = Place(p)
              /\ \/ Creates(run[p], s) /\ series'[c][n] = Torn
                 \/ Writes(run[p], s) /\ series'[c][n] = Signed(run[p])
<1>1. n \in Numbers
  <2>1. series'[c] \in Files
    BY MoveShapes DEF Shapes, SeriesType
  <2> QED BY <2>1, FilesDef
<1>2. CASE Touches(run[p], s)
  <2>1. CallType(run[p])
    BY DEF Shapes, RunType, Moves
  <2>2. CASE <<c, n>> # Place(p)
    BY <1>1, <1>2, <2>1, <2>2, TouchedFiles DEF Place
  <2>3. CASE <<c, n>> = Place(p)
    <3>1. c = run[p].cursor /\ n = Number(run[p])
      BY <2>3 DEF Place, PlaceOf
    <3> QED BY <1>2, <2>1, <2>3, <3>1, TouchedFiles DEF Touches
  <2> QED BY <2>2, <2>3
<1>3. CASE ~Touches(run[p], s)
  BY <1>3 DEF Moves, Effect, Touches, Syncs, Saves, fileVars
<1> QED BY <1>2, <1>3

\* A checkpoint that is there stays where no file is removed.
LEMMA CheckpointsStay ==
    ASSUME Shapes, Places, SeenStand, NEW p, NEW s, Moves(p, s), ~Removes(run[p], s),
           NEW c \in Chains, NEW n \in DOMAIN series[c], series[c][n] # Torn
    PROVE  n \in DOMAIN series'[c] /\ series'[c][n] = series[c][n]
<1>1. p \in Runs
  BY DEF Moves
<1>2. PICK x \in FilesOf(series) : x = <<c, n>> /\ x[1] = c /\ x[2] = n
  <2>1. <<c, n>> \in FilesOf(series)
    BY FileNamed
  <2> QED BY <2>1
<1>3. CASE x # Place(p) \/ ~Touches(run[p], s)
  BY <1>2, <1>3, MoveKeeps
<1>4. CASE x = Place(p) /\ Touches(run[p], s)
  <2>1. c = run[p].cursor /\ n = Number(run[p])
    BY <1>2, <1>4 DEF Place, PlaceOf
  <2>2. CASE Creates(run[p], s)
    BY <2>1, <2>2 DEF Creates, Taken
  <2>3. CASE Writes(run[p], s)
    BY <1>1, <2>1, <2>3 DEF Writes, SeenStand, SeenStands
  <2> QED BY <1>4, <2>2, <2>3 DEF Touches
<1> QED BY <1>3, <1>4

\* Files that a call has read, or another has made, are not touched.
LEMMA OthersSeenStand ==
    ASSUME Undisturbed, Shapes, Places, SeenStand, NEW p, NEW s, Moves(p, s), NEW q \in Runs, q # p
    PROVE  SeenStands(run[q])'
<1> DEFINE t == run[q]
<1>1. p \in Runs /\ run'[q] = run[q] /\ UNCHANGED <<entries, index, erasedAt>> /\ ~Removes(run[p], s) /\ CallType(t)
  BY MovedRuns DEF Undisturbed, Shapes, RunType, Moves, Removes, folderVars
<1>2. ASSUME t.at \in {"head", "verify", "create", "write", "sync"} PROVE Prefix(t.seen, series'[t.cursor])
  <2>1. t.cursor \in Chains /\ Prefix(t.seen, series[t.cursor])
    BY <1>1, <1>2 DEF CallType, AtChain, SeenStand, SeenStands
  <2> QED BY <1>1, <2>1, CheckpointsStay DEF Prefix
<1>3. ASSUME t.at \in {"write", "sync"} PROVE series'[t.cursor][Number(t)] = series[t.cursor][Number(t)]
  <2>1. Placing(q) /\ Place(q) \in FilesOf(series)
    BY <1>3 DEF Placing, Places
  <2>2. Place(q) # Place(p) \/ ~Touches(run[p], s)
    <3>1. CASE Creates(run[p], s)
      BY <2>1, <3>1, FileNamed DEF Creates, Taken, Place, PlaceOf
    <3>2. CASE Writes(run[p], s)
      <4>1. Placing(p)
        BY <3>2 DEF Writes, Placing
      <4> QED BY <1>1, <2>1, <4>1 DEF Places
    <3> QED BY <1>1, <3>1, <3>2 DEF Touches
  <2>3. Place(q)[1] = t.cursor /\ Place(q)[2] = Number(t)
    BY DEF Place, PlaceOf
  <2> QED BY <2>1, <2>2, <2>3, MoveKeeps
<1>4. Signed(t)' = Signed(t) /\ Number(t)' = Number(t) /\ t' = t
  BY <1>1 DEF Signed, Number
<1> QED BY <1>1, <1>2, <1>3, <1>4 DEF SeenStand, SeenStands, Number, Signed, Prefix

LEMMA OwnSeenStands ==
    ASSUME Shapes, Places, SeenStand, NEW p, NEW s, Moves(p, s)
    PROVE  SeenStands(run[p])'
<1> DEFINE r == run[p]
<1>1. p \in Runs /\ run'[p] = s /\ UNCHANGED <<entries, index, erasedAt>> /\ CallType(r) /\ CallType(s)
  BY MovedRuns DEF Shapes, RunType, Moves, folderVars
<1>2. SeenStands(run[p])' <=>
         /\ s.at \in {"head", "verify", "create", "write", "sync"} => Prefix(s.seen, series'[s.cursor])
         /\ s.at = "write" => series'[s.cursor][Number(s)] = Torn
         /\ s.at = "sync" => series'[s.cursor][Number(s)] = Signed(s)
  BY <1>1 DEF SeenStands, Prefix, Number, Signed
<1>3. r.at \in {"head", "verify", "create", "write", "sync"} => r.cursor \in Chains /\ Prefix(r.seen, series[r.cursor])
  BY <1>1 DEF CallType, AtChain, SeenStand, SeenStands
<1>4. CASE s.at \notin {"head", "verify", "create", "write", "sync"}
  BY <1>2, <1>4
<1>5. CASE SeesSeries(r, s) /\ UNCHANGED fileVars
  <2>1. s.at \notin {"write", "sync"} /\ s.cursor = r.cursor /\ s.seen = series[r.cursor] /\ WellFormed(series[r.cursor])
    BY <1>5 DEF SeesSeries, SameCall
  <2>2. Prefix(s.seen, series[s.cursor])
    BY <2>1 DEF WellFormed, Prefix
  <2> QED BY <1>2, <1>5, <2>1, <2>2 DEF fileVars
<1>6. CASE (SeesHead(r, s) \/ Signs(r, s)) /\ UNCHANGED fileVars
  <2>1. s.at \notin {"write", "sync"} /\ s.cursor = r.cursor /\ s.seen = r.seen /\ r.at \in {"head", "verify"}
    BY <1>6 DEF SeesHead, Signs, Same, SameCall
  <2> QED BY <1>2, <1>3, <1>6, <2>1 DEF fileVars
<1>7. CASE Creates(r, s) \/ Writes(r, s)
  <2>1. s.cursor = r.cursor /\ s.seen = r.seen /\ Number(s) = Number(r) /\ r.at \in {"create", "write"} /\ Touches(r, s)
    BY <1>7 DEF Creates, Writes, Same, SameCall, Number, Touches
  <2>2. \A n \in DOMAIN r.seen : n \in Numbers /\ <<r.cursor, n>> # PlaceOf(r)
    <3>1. r.seen \in Seq(Cps)
      BY <1>1, CallFields
    <3>2. DOMAIN r.seen = 1..Len(r.seen) /\ Len(r.seen) \in Nat
      BY <3>1, LenProperties
    <3> QED BY <3>2 DEF PlaceOf, Number, Numbers
  <2>3. Prefix(s.seen, series'[s.cursor])
    BY <1>1, <1>3, <2>1, <2>2, TouchedFiles DEF Prefix
  <2>4. CASE Creates(r, s)
    <3>1. s.at = "write" /\ series'[r.cursor][Number(r)] = Torn
      BY <1>1, <2>1, <2>4, TouchedFiles DEF Creates
    <3> QED BY <1>2, <2>1, <2>3, <3>1
  <2>5. CASE Writes(r, s)
    <3>1. s.at = "sync" /\ series'[r.cursor][Number(r)] = Signed(r)
      BY <1>1, <2>1, <2>5, TouchedFiles DEF Writes
    <3>2. Signed(s) = Signed(r)
      BY <2>5 DEF Writes, Same, SameCall, Signed
    <3> QED BY <1>2, <2>1, <2>3, <3>1, <3>2
  <2> QED BY <1>7, <2>4, <2>5
<1>8. CASE Rests(r, s) \/ Turns(r, s) \/ NotesSeen(r, s) \/ Loads(r, s)
  BY <1>4, <1>8 DEF Rests, Turns, NotesSeen, Notes, Loads, Resting, Saving
<1>9. CASE Syncs(r, s) \/ Removes(r, s) \/ Saves(r, s)
  BY <1>4, <1>9 DEF Syncs, Removes, Saves, Rests, Notes, Resting
<1> QED BY <1>5, <1>6, <1>7, <1>8, <1>9 DEF Moves, Effect, Reads

LEMMA InPages == ASSUME NEW p \in Runs, ~InPage(p) PROVE run[p].at \notin AtChain \cup {"batch", "batchWrite"}
BY DEF InPage, AtChain

LEMMA SeenStandStep ==
    ASSUME Undisturbed, Shapes, Places, SeenStand, [Next]_vars
    PROVE  SeenStand'
<1>1. ASSUME NEW p \in Runs, NEW s, Moves(p, s) PROVE SeenStand'
  <2>1. \A q \in Runs : SeenStands(run[q])'
    BY <1>1, OthersSeenStand, OwnSeenStands
  <2> QED BY <2>1 DEF SeenStand
<1>2. CASE FolderMoves
  <2>1. \A p \in Runs : run'[p].at \notin {"head", "verify", "create", "write", "sync"}
    BY <1>2, InPages DEF FolderMoves, Exclusive, AtChain
  <2> QED BY <2>1 DEF SeenStand, SeenStands
<1>3. CASE Idles
  BY <1>3 DEF Idles, SeenStand, SeenStands, Prefix, Number, Signed, folderVars, fileVars
<1>4. ASSUME NEW stay, FilesTaken(stay) PROVE SeenStand'
  BY <1>4 DEF FilesTaken, SeenStand, SeenStands
<1>5. durable \subseteq FilesOf(series)
  BY DEF Places
<1>6. CASE PowerLoss
  BY <1>4, <1>5, <1>6, PowerLossTakes
<1>7. ASSUME NEW c \in Chains, Restore(c) \/ RemoveTorn(c) PROVE SeenStand'
  BY <1>4, <1>5, <1>7, RestoreTakes, RemoveTornTakes
<1> QED BY <1>1, <1>2, <1>3, <1>6, <1>7, Steps

\* Who signs a checkpoint over an erasure was told of it, or will find the number taken.
Told(r) == r.cursor \in r.confirmed \/ erasedAt[r.cursor] = 0
Asked(r) ==
    /\ r.at = "create" => Told(r) \/ Taken(r.cursor, Number(r))
    /\ r.at \in {"write", "sync"} => Told(r)
Asks == \A p \in Runs : Asked(run[p])

ErasureInv == Shapes /\ Places /\ SeenStand /\ Erasures /\ CoversWithin /\ Asks /\ ErasureConfirmed

LEMMA MoveAsks ==
    ASSUME Undisturbed, Shapes, Places, SeenStand, Erasures, Asks, NEW p, NEW s, Moves(p, s)
    PROVE  Asks'
<1> DEFINE r == run[p]
<1>1. /\ p \in Runs /\ run'[p] = s /\ (\A q \in Runs : q # p => run'[q] = run[q])
      /\ UNCHANGED <<entries, index, erasedAt>> /\ CallType(r) /\ \A q \in Runs : CallType(run[q])
  BY MovedRuns DEF Shapes, RunType, Moves, folderVars
<1>2. ASSUME NEW q \in Runs, q # p PROVE Asked(run[q])'
  <2> DEFINE t == run[q]
  <2>1. ~Removes(r, s)
    BY <1>1, <1>2 DEF Undisturbed, Removes
  <2>2. ASSUME t.at = "create", Taken(t.cursor, Number(t)) PROVE Number(t) \in DOMAIN series'[t.cursor]
    <3>1. t.cursor \in Chains /\ Number(t) \in DOMAIN series[t.cursor] /\ Number(t) \in Numbers
      BY <1>1, <2>2, CallFields DEF CallType, AtChain, Taken
    <3>2. CASE Touches(r, s)
      <4>1. CASE <<t.cursor, Number(t)>> # PlaceOf(r)
        BY <1>1, <3>1, <3>2, <4>1, TouchedFiles
      <4>2. CASE <<t.cursor, Number(t)>> = PlaceOf(r)
        <5>1. t.cursor = r.cursor /\ Number(t) = Number(r)
          BY <4>2 DEF PlaceOf
        <5> QED BY <1>1, <2>1, <3>2, <5>1, TouchedFiles
      <4> QED BY <4>1, <4>2
    <3>3. CASE ~Touches(r, s)
      BY <3>1, <3>3 DEF Moves, Effect, Touches, Syncs, Saves, fileVars
    <3> QED BY <3>2, <3>3
  <2>3. Asked(t)
    BY DEF Asks
  <2>4. Asked(t)' <=> /\ t.at = "create" => Told(t) \/ Number(t) \in DOMAIN series'[t.cursor]
                      /\ t.at \in {"write", "sync"} => Told(t)
    BY <1>1, <1>2 DEF Asked, Told, Taken, Number
  <2> QED BY <2>2, <2>3, <2>4 DEF Asked
<1>3. Asked(run[p])' <=> /\ s.at = "create" => Told(s) \/ Number(s) \in DOMAIN series'[s.cursor]
                         /\ s.at \in {"write", "sync"} => Told(s)
  BY <1>1 DEF Asked, Told, Taken, Number
<1>4. Asked(run[p])'
  <2>1. CASE s.at \notin {"create", "write", "sync"}
    BY <1>3, <2>1
  <2>2. CASE Creates(r, s) \/ Writes(r, s)
    <3>1. Told(r)
      BY <1>1, <2>2 DEF Creates, Writes, Asks, Asked
    <3>2. Told(s) /\ s.at \in {"write", "sync"}
      BY <2>2, <3>1 DEF Creates, Writes, Same, SameCall, Told
    <3> QED BY <1>3, <3>2
  <2>3. CASE Signs(r, s) /\ UNCHANGED fileVars
    <3> DEFINE c == r.cursor
               f == series[c]
    <3>1. r.at = "verify" /\ s.at = "create" /\ s.cursor = c /\ s.seen = r.seen /\ s.confirmed = r.confirmed /\ Good(r)
      BY <2>3 DEF Signs, SameCall
    <3>2. c \in Chains /\ Prefix(r.seen, f) /\ r.seen \in Seq(Cps)
      BY <1>1, <3>1, CallFields DEF CallType, AtChain, SeenStand, SeenStands
    <3>3. Told(r) \/ Number(r) \in DOMAIN f
      <4>1. SUFFICES ASSUME ~Told(r), Number(r) \notin DOMAIN f PROVE FALSE
        OBVIOUS
      <4>2. index[c] = "gone" /\ c \notin r.confirmed
        BY <3>1, <3>2, <4>1 DEF Told, Erasures, Good, Shapes, FolderType
      <4>3. Covered(f) = entries[c] /\ WellFormed(f)
        BY <3>1, <4>2 DEF Good, Unconfirmed
      <4>4. f \in Seq(Cps) /\ DOMAIN f = 1..Len(f) /\ Len(f) \in Nat
        BY <3>2, <4>3, WellFormedSeq DEF Shapes, SeriesType
      <4>5. DOMAIN r.seen = 1..Len(r.seen) /\ Len(r.seen) \in Nat
        BY <3>2, LenProperties
      <4>6. Len(f) = Len(r.seen)
        <5>1. Len(f) <= Len(r.seen)
          BY <4>1, <4>4, <4>5 DEF Number
        <5>2. Len(r.seen) = 0 \/ Len(r.seen) \in DOMAIN f
          BY <3>2, <4>5 DEF Prefix
        <5> QED BY <4>4, <4>5, <5>1, <5>2
      <4>7. f = r.seen
        BY <3>2, <4>4, <4>5, <4>6, SeqEqual DEF Prefix
      <4> QED BY <2>3, <4>3, <4>7 DEF Signs
    <3>4. Told(s) = Told(r) /\ Number(s) = Number(r)
      BY <3>1 DEF Told, Number
    <3> QED BY <1>3, <2>3, <3>1, <3>3, <3>4 DEF fileVars
  <2>4. CASE Reads(r, s) /\ UNCHANGED fileVars
    <3>1. ~Signs(r, s) => s.at \notin {"create", "write", "sync"}
      BY <2>4 DEF Reads, Rests, Turns, SeesSeries, SeesHead, NotesSeen, Notes, Loads, Resting, Saving
    <3> QED BY <2>1, <2>3, <2>4, <3>1
  <2>5. CASE Syncs(r, s) \/ Removes(r, s) \/ Saves(r, s)
    BY <2>1, <2>5 DEF Syncs, Removes, Saves, Rests, Notes, Resting
  <2> QED BY <2>2, <2>4, <2>5 DEF Moves, Effect
<1> QED BY <1>2, <1>4 DEF Asks

LEMMA MoveConfirmed ==
    ASSUME Shapes, CoversWithin, Asks, ErasureConfirmed, NEW p, NEW s, Moves(p, s)
    PROVE  CoversWithin' /\ ErasureConfirmed'
<1> DEFINE r == run[p]
<1>1. p \in Runs /\ CallType(r) /\ UNCHANGED <<entries, index, erasedAt>>
  BY DEF Shapes, RunType, Moves, folderVars
<1>2. ASSUME NEW c \in Chains, NEW n \in DOMAIN series'[c]
      PROVE  /\ series'[c][n].covers <= entries[c]
             /\ erasedAt[c] # 0 /\ series'[c][n].covers >= erasedAt[c] => series'[c][n].confirmed
  <2>1. entries[c] \in Nat /\ erasedAt[c] \in Nat
    BY DEF Shapes, FolderType
  <2>2. CASE n \in DOMAIN series[c] /\ series'[c][n] = series[c][n]
    BY <2>2 DEF CoversWithin, ErasureConfirmed
  <2>3. CASE series'[c][n] = Torn
    BY <2>1, <2>3 DEF Torn
  <2>4. CASE <<c, n>> = Place(p) /\ Writes(r, s) /\ series'[c][n] = Signed(r)
    <3>1. c = r.cursor /\ r.at = "write"
      BY <2>4 DEF Place, PlaceOf, Writes
    <3>2. Told(r)
      BY <1>1, <3>1 DEF Asks, Asked
    <3>3. Signed(r).covers = entries[c] /\ Signed(r).confirmed = (c \in r.confirmed)
      BY <3>1 DEF Signed
    <3>4. series'[c][n].covers <= entries[c]
      BY <2>1, <2>4, <3>3
    <3>5. erasedAt[c] # 0 => c \in r.confirmed
      BY <3>1, <3>2 DEF Told
    <3> QED BY <2>4, <3>3, <3>4, <3>5
  <2> QED BY <1>2, <2>2, <2>3, <2>4, MovedFile
<1> QED BY <1>1, <1>2 DEF CoversWithin, ErasureConfirmed

LEMMA TakenConfirmed ==
    ASSUME Shapes, Erasures, CoversWithin, ErasureConfirmed, NEW stay, FilesTaken(stay)
    PROVE  Erasures' /\ CoversWithin' /\ ErasureConfirmed' /\ Asks'
<1>1. UNCHANGED <<entries, index, erasedAt>>
  BY DEF FilesTaken, folderVars
<1>2. \A c \in Chains : \A n \in DOMAIN series'[c] : n \in DOMAIN series[c] /\ series'[c][n] \in {series[c][n], Torn}
  BY DEF FilesTaken
<1>3. Asks'
  BY DEF FilesTaken, Asks, Asked
<1>4. Torn.covers = 0 /\ \A c \in Chains : entries[c] \in Nat /\ erasedAt[c] \in Nat
  BY DEF Torn, Shapes, FolderType
<1>5. CoversWithin'
  BY <1>1, <1>2, <1>4 DEF CoversWithin
<1>6. ErasureConfirmed'
  BY <1>1, <1>2, <1>4 DEF ErasureConfirmed
<1> QED BY <1>1, <1>3, <1>5, <1>6 DEF Erasures

LEMMA FolderConfirmed ==
    ASSUME Shapes, Erasures, CoversWithin, ErasureConfirmed, FolderMoves
    PROVE  Erasures' /\ CoversWithin' /\ ErasureConfirmed' /\ Asks'
<1>1. /\ UNCHANGED <<series, run>> /\ FolderType /\ FolderType' /\ \A c \in Chains : entries[c] <= entries'[c]
      /\ \A c \in Chains : \/ erasedAt'[c] = erasedAt[c]
                           \/ erasedAt'[c] = entries[c] + 1 /\ entries'[c] = entries[c] + 1
  BY DEF FolderMoves, fileVars, Shapes
<1>2. \A p \in Runs : run[p].at \notin {"create", "write", "sync"}
  BY InPages DEF FolderMoves, Exclusive, AtChain
<1>3. Asks'
  BY <1>1, <1>2 DEF Asks, Asked
<1>4. \A c \in Chains : \A n \in DOMAIN series[c] : series[c][n].covers \in Nat /\ series[c][n].covers <= entries[c]
  BY FilesDef DEF Shapes, SeriesType, CoversWithin, Cps
<1>5. CoversWithin'
  BY <1>1, <1>4 DEF CoversWithin, FolderType
<1>6. ErasureConfirmed'
  <2> SUFFICES ASSUME NEW c \in Chains, NEW n \in DOMAIN series[c], erasedAt'[c] # 0, series[c][n].covers >= erasedAt'[c]
               PROVE  series[c][n].confirmed
    BY <1>1 DEF ErasureConfirmed
  <2>1. erasedAt'[c] = erasedAt[c]
    BY <1>1, <1>4 DEF FolderType
  <2> QED BY <2>1 DEF ErasureConfirmed
<1>7. Erasures'
  <2> SUFFICES ASSUME NEW c \in Chains, erasedAt'[c] # 0 PROVE erasedAt'[c] <= entries'[c] /\ index'[c] # "live"
    BY DEF Erasures
  <2>1. erasedAt'[c] <= entries'[c]
    BY <1>1 DEF Erasures, FolderType
  <2>2. index'[c] = "live" => erasedAt'[c] = 0 \/ (index[c] = "live" /\ erasedAt'[c] = erasedAt[c])
    BY DEF FolderMoves
  <2> QED BY <2>1, <2>2 DEF Erasures
<1> QED BY <1>3, <1>5, <1>6, <1>7

LEMMA ErasureInvStep == ASSUME Undisturbed, ErasureInv, [Next]_vars PROVE ErasureInv'
<1> USE DEF ErasureInv
<1>1. Shapes' /\ Places' /\ SeenStand'
  BY PlacesStep, SeenStandStep
<1>2. ASSUME NEW p \in Runs, NEW s, Moves(p, s) PROVE Erasures' /\ CoversWithin' /\ ErasureConfirmed' /\ Asks'
  <2>1. Erasures'
    BY <1>2 DEF Moves, folderVars, Erasures
  <2> QED BY <1>2, <2>1, MoveAsks, MoveConfirmed
<1>3. CASE Idles
  <2>1. UNCHANGED <<entries, index, erasedAt, series, run>>
    BY <1>3 DEF Idles, folderVars, fileVars
  <2>2. Erasures' /\ CoversWithin'
    BY <2>1 DEF Erasures, CoversWithin
  <2>3. ErasureConfirmed'
    BY <2>1 DEF ErasureConfirmed
  <2>4. Asks'
    BY <2>1 DEF Asks, Asked, Told, Taken, Number
  <2> QED BY <1>1, <2>2, <2>3, <2>4
<1>4. ASSUME NEW stay, FilesTaken(stay) PROVE Erasures' /\ CoversWithin' /\ ErasureConfirmed' /\ Asks'
  BY <1>4, TakenConfirmed
<1>5. durable \subseteq FilesOf(series)
  BY DEF Places
<1>6. CASE PowerLoss
  BY <1>1, <1>4, <1>5, <1>6, PowerLossTakes
<1>7. ASSUME NEW c \in Chains, Restore(c) \/ RemoveTorn(c) PROVE Erasures' /\ CoversWithin' /\ ErasureConfirmed' /\ Asks'
  BY <1>4, <1>5, <1>7, RestoreTakes, RemoveTornTakes
<1>8. CASE FolderMoves
  BY <1>1, <1>8, FolderConfirmed
<1> QED BY <1>1, <1>2, <1>3, <1>6, <1>7, <1>8, Steps

\* Whatever is killed, lost or put back, a checkpoint that covers an erasure was made
\* by a call that was told of it: of one process that may meet errors, or of any
\* number that meet none.
THEOREM ErasuresConfirmed == ASSUME Undisturbed PROVE Spec => []ErasureConfirmed
<1>1. Init => ErasureInv
  <2> SUFFICES ASSUME Init PROVE ErasureInv
    OBVIOUS
  <2>1. Shapes /\ Places
    BY InitPlaces
  <2>2. \A p \in Runs : run[p].at = "idle"
    BY DEF Init, NoRun
  <2>3. \A c \in Chains : DOMAIN series[c] = {}
    <3>1. DOMAIN <<>> = {}
      OBVIOUS
    <3> QED BY <3>1 DEF Init
  <2>4. SeenStand /\ Asks
    BY <2>2 DEF SeenStand, SeenStands, Asks, Asked
  <2>5. Erasures /\ CoversWithin /\ ErasureConfirmed
    BY <2>3 DEF Init, Erasures, CoversWithin, ErasureConfirmed
  <2> QED BY <2>1, <2>4, <2>5 DEF ErasureInv
<1>2. ErasureInv /\ [Next]_vars => ErasureInv'
  BY ErasureInvStep
<1>3. ErasureInv => ErasureConfirmed
  BY DEF ErasureInv
<1> QED BY <1>1, <1>2, <1>3, PTL DEF Spec

-----------------------------------------------------------------------------
(* SeriesInv, of processes that may be killed and meet no errors.  Who created a *)
(* chain's next file is the only one at that chain's end until it has written it. *)

Linked(f, n, total) ==
    LET before == At(f, n - 1) IN
    /\ f[n].previous = before.id /\ f[n].hash = ChainHash(before, f[n].covers)
    /\ before.covers < f[n].covers /\ f[n].covers <= total

RunsTo(f, n, total) ==
    /\ DOMAIN f = 1..n
    /\ \A m \in 1..n : /\ f[m].made = 0 /\ (m < n => f[m] # Torn)
                       /\ f[m] # Torn => Linked(f, m, total)
Sound(f, total) == \E n \in Nat : RunsTo(f, n, total)
AllSound == \A c \in Chains : Sound(series[c], entries[c])

\* Nothing has been made at another time than the clock's.
Timeless == clock = 0 /\ \A p \in Runs : run[p].made = 0

\* What a head, recorded or to be recorded, names is a checkpoint of its series.
Names(u, f) == u.count \in DOMAIN f /\ f[u.count] # Torn /\ f[u.count].hash = u.hash
NamedMap(m) == \A c \in Chains : m[c] # None => Names(m[c], series[c])
NamedCall(r) ==
    /\ \A u \in r.pending : Names(u, series[u.chain])
    /\ r.at \in Saving => NamedMap(r.next)
Named == NamedMap(heads) /\ \A p \in Runs : NamedCall(run[p])

\* A call at a chain has something to sign, and signs it once.
ReadyCall(r) ==
    /\ r.at \in AtChain => entries[r.cursor] > 0
    /\ r.at \in {"create", "write"} => Covered(r.seen) < entries[r.cursor]
    /\ r.at \in {"create", "write", "sync"} => r.serial # 0
Ready == \A p \in Runs : ReadyCall(run[p])

SoundInv == Shapes /\ Places /\ SeenStand /\ AllSound /\ Timeless /\ Named /\ Ready

\* A series that is sound by these is sound as the runs check it.
LEMMA SoundSeries == ASSUME Shapes, AllSound PROVE SeriesSound
<1> SUFFICES ASSUME NEW c \in Chains, NEW f, f = series[c], NEW n, n = Cardinality(DOMAIN f)
             PROVE  /\ DOMAIN f = 1..n
                    /\ \A m \in 1..(n - 1) : f[m] # Torn
                    /\ SeriesVerifies([m \in {m \in 1..n : f[m] # Torn} |-> f[m]], entries[c])
  BY DEF SeriesSound
<1>1. PICK k \in Nat : RunsTo(f, k, entries[c])
  BY DEF AllSound, Sound
<1>2. n = k
  BY <1>1, FS_Interval DEF RunsTo
<1> DEFINE D == {m \in 1..n : f[m] # Torn}
           g == [m \in D |-> f[m]]
<1>3. \A m \in D : Linked(f, m, entries[c]) /\ f[m].made = 0
  BY <1>1, <1>2 DEF RunsTo
<1>4. \A m \in D : At(g, m - 1) = At(f, m - 1) /\ At(f, m - 1).made = 0
  <2> TAKE m \in D
  <2>1. CASE m = 1
    BY <2>1 DEF At, Seed, Torn
  <2>2. CASE m # 1
    <3>1. m - 1 \in 1..n /\ m - 1 < n /\ m - 1 # 0
      BY <1>2, <2>2
    <3>2. m - 1 \in D /\ f[m - 1].made = 0
      BY <1>1, <1>2, <3>1 DEF RunsTo
    <3> QED BY <3>1, <3>2 DEF At
  <2> QED BY <2>1, <2>2
<1>5. SeriesVerifies(g, entries[c])
  <2> SUFFICES ASSUME NEW m \in D
               PROVE  LET before == At(g, m - 1) IN
                      /\ g[m].previous = before.id /\ g[m].hash = ChainHash(before, g[m].covers)
                      /\ before.covers < g[m].covers /\ g[m].covers <= entries[c]
                      /\ before.made <= g[m].made
    BY DEF SeriesVerifies
  <2>1. g[m] = f[m]
    OBVIOUS
  <2> HIDE DEF g
  <2> QED BY <1>3, <1>4, <2>1 DEF Linked
<1>6. DOMAIN f = 1..n /\ \A m \in 1..(n - 1) : f[m] # Torn
  BY <1>1, <1>2 DEF RunsTo
<1> QED BY <1>5, <1>6

\* The file at the end of a sound series, created, written or removed.
LEMMA LinkedSame ==
    ASSUME NEW f, NEW g, NEW m \in Numbers, NEW total, f[m] = g[m], m # 1 => f[m - 1] = g[m - 1], Linked(f, m, total)
    PROVE  Linked(g, m, total)
<1>1. At(f, m - 1) = At(g, m - 1)
  BY DEF At, Numbers
<1> QED BY <1>1 DEF Linked

LEMMA RunsOn ==
    ASSUME NEW f, NEW g, NEW n \in Nat, NEW total, RunsTo(f, n, total), \A m \in 1..n : f[m] # Torn,
           DOMAIN g = 1..(n + 1), \A m \in 1..n : g[m] = f[m], g[n + 1] = Torn
    PROVE  RunsTo(g, n + 1, total)
<1>1. \A m \in 1..(n + 1) : m \in 1..n \/ m = n + 1
  OBVIOUS
<1>2. Torn.made = 0
  BY DEF Torn
<1>3. ASSUME NEW m \in 1..n PROVE g[m].made = 0 /\ g[m] # Torn /\ Linked(g, m, total)
  <2>1. Linked(f, m, total) /\ f[m].made = 0 /\ f[m] # Torn
    BY DEF RunsTo
  <2>2. g[m] = f[m] /\ (m # 1 => g[m - 1] = f[m - 1]) /\ m \in Numbers
    BY DEF Numbers
  <2> QED BY <2>1, <2>2, LinkedSame
<1> QED BY <1>1, <1>2, <1>3 DEF RunsTo

LEMMA RunsWritten ==
    ASSUME NEW f, NEW g, NEW n \in Numbers, NEW total, RunsTo(f, n, total),
           DOMAIN g = 1..n, \A m \in 1..(n - 1) : g[m] = f[m], g[n].made = 0, Linked(g, n, total)
    PROVE  RunsTo(g, n, total)
<1>1. \A m \in 1..n : m \in 1..(n - 1) \/ m = n
  BY DEF Numbers
<1>2. ASSUME NEW m \in 1..(n - 1) PROVE g[m].made = 0 /\ g[m] # Torn /\ Linked(g, m, total)
  <2>1. m \in 1..n /\ m < n
    BY DEF Numbers
  <2>2. Linked(f, m, total) /\ f[m].made = 0 /\ f[m] # Torn
    BY <2>1 DEF RunsTo
  <2>3. g[m] = f[m] /\ (m # 1 => g[m - 1] = f[m - 1]) /\ m \in Numbers
    BY <2>1 DEF Numbers
  <2> QED BY <2>2, <2>3, LinkedSame
<1> QED BY <1>1, <1>2 DEF RunsTo, Numbers

LEMMA RunsCut ==
    ASSUME NEW f, NEW g, NEW n \in Numbers, NEW total, RunsTo(f, n, total),
           DOMAIN g = 1..(n - 1), \A m \in 1..(n - 1) : g[m] = f[m]
    PROVE  RunsTo(g, n - 1, total)
<1>1. ASSUME NEW m \in 1..(n - 1) PROVE g[m].made = 0 /\ g[m] # Torn /\ Linked(g, m, total)
  <2>1. m \in 1..n /\ m < n
    BY DEF Numbers
  <2>2. Linked(f, m, total) /\ f[m].made = 0 /\ f[m] # Torn
    BY <2>1 DEF RunsTo
  <2>3. g[m] = f[m] /\ (m # 1 => g[m - 1] = f[m - 1]) /\ m \in Numbers
    BY <2>1 DEF Numbers
  <2> QED BY <2>2, <2>3, LinkedSame
<1> QED BY <1>1 DEF RunsTo, Numbers

Killed == FaultKinds \subseteq {"kill"}

LEMMA MoveTimeless == ASSUME Killed, Shapes, Timeless, NEW p, NEW s, Moves(p, s) PROVE Timeless'
<1>1. p \in Runs /\ run'[p] = s /\ (\A q \in Runs : q # p => run'[q] = run[q]) /\ clock' = clock
  BY MovedRuns DEF Shapes, Moves
<1>2. run[p].made = 0 /\ clock = 0
  BY <1>1 DEF Timeless
<1>3. s.made = 0
  BY <1>2 DEF Moves, Effect, Reads, Rests, Turns, SeesSeries, SeesHead, Signs, NotesSeen, Notes, Loads, Creates,
              Writes, Syncs, Removes, Saves, Same, SameCall
<1> QED BY <1>1, <1>3 DEF Timeless

\* The files as a call that is about to create, or has created, its own left them.
LEMMA AtEnd ==
    ASSUME Shapes, AllSound, SeenStand, NEW p \in Runs, NEW r, r = run[p],
           \/ r.at = "create" /\ ~Taken(r.cursor, Number(r))
           \/ r.at = "write" /\ Number(r) \in DOMAIN series[r.cursor]
    PROVE  /\ r.cursor \in Chains /\ r.seen \in Seq(Cps) /\ DOMAIN r.seen = 1..Len(r.seen) /\ Len(r.seen) \in Nat
           /\ \A m \in 1..Len(r.seen) : series[r.cursor][m] = r.seen[m] /\ r.seen[m] # Torn
           /\ r.at = "create" => RunsTo(series[r.cursor], Len(r.seen), entries[r.cursor])
           /\ r.at = "write" => RunsTo(series[r.cursor], Number(r), entries[r.cursor])
<1>1. r.cursor \in Chains /\ r.seen \in Seq(Cps)
  BY CallFields DEF Shapes, RunType, CallType, AtChain
<1>2. DOMAIN r.seen = 1..Len(r.seen) /\ Len(r.seen) \in Nat
  BY <1>1, LenProperties
<1>3. Prefix(r.seen, series[r.cursor])
  BY DEF SeenStand, SeenStands
<1>4. \A m \in 1..Len(r.seen) : m \in DOMAIN series[r.cursor] /\ series[r.cursor][m] = r.seen[m] /\ r.seen[m] # Torn
  BY <1>2, <1>3 DEF Prefix
<1>5. PICK n \in Nat : RunsTo(series[r.cursor], n, entries[r.cursor])
  BY <1>1 DEF AllSound, Sound
<1>6. DOMAIN series[r.cursor] = 1..n
  BY <1>5 DEF RunsTo
<1>7. Len(r.seen) <= n
  <2>1. Len(r.seen) = 0 \/ Len(r.seen) \in 1..n
    BY <1>2, <1>4, <1>6
  <2> QED BY <1>2, <2>1
<1>8. CASE r.at = "create"
  <2>1. Len(r.seen) + 1 \notin 1..n
    BY <1>6, <1>8 DEF Taken, Number
  <2>2. n = Len(r.seen)
    BY <1>2, <1>7, <2>1
  <2> QED BY <1>1, <1>2, <1>4, <1>5, <1>8, <2>2
<1>9. CASE r.at = "write"
  <2>1. Number(r) \in 1..n /\ series[r.cursor][Number(r)] = Torn
    BY <1>6, <1>9 DEF SeenStand, SeenStands
  <2>2. Number(r) = n
    BY <1>5, <2>1 DEF RunsTo
  <2> QED BY <1>1, <1>2, <1>4, <1>5, <1>9, <2>2
<1> QED BY <1>8, <1>9

LEMMA MoveSound ==
    ASSUME Killed, Shapes, Places, SeenStand, AllSound, Timeless, Ready, NEW p, NEW s, Moves(p, s)
    PROVE  AllSound'
<1> DEFINE r == run[p]
           c == r.cursor
           f == series[c]
<1>1. p \in Runs /\ CallType(r) /\ UNCHANGED entries /\ ~Removes(r, s)
  BY DEF Shapes, RunType, Moves, folderVars, Killed, Removes
<1>2. CASE ~Touches(r, s)
  <2>1. UNCHANGED series
    BY <1>2 DEF Moves, Effect, Touches, Syncs, Saves, fileVars
  <2> QED BY <1>1, <2>1 DEF AllSound, Sound, RunsTo, Linked
<1>3. ASSUME Touches(r, s), Sound(series'[c], entries[c]) PROVE AllSound'
  <2>1. \A d \in Chains : d # c => series'[d] = series[d]
    BY <1>1, <1>3, TouchedFiles
  <2>2. \A d \in Chains : Sound(series'[d], entries[d])
    BY <1>3, <2>1 DEF AllSound
  <2> QED BY <1>1, <2>2 DEF AllSound, Sound, RunsTo, Linked
<1>4. Number(r) \in DOMAIN series[c] \/ ~Writes(r, s)
  <2>1. Writes(r, s) => Place(p) \in FilesOf(series)
    BY <1>1 DEF Writes, Places, Placing
  <2> QED BY <2>1, FileNamed DEF Place, PlaceOf
<1>5. CASE Creates(r, s)
  <2>1. Touches(r, s) /\ r.at = "create" /\ ~Taken(c, Number(r))
    BY <1>5 DEF Touches, Creates
  <2>2. /\ c \in Chains /\ Len(r.seen) \in Nat /\ RunsTo(f, Len(r.seen), entries[c])
        /\ \A m \in 1..Len(r.seen) : f[m] = r.seen[m] /\ r.seen[m] # Torn
    BY <1>1, <2>1, AtEnd
  <2>3. /\ DOMAIN series'[c] = DOMAIN f \cup {Number(r)} /\ series'[c][Number(r)] = Torn
        /\ \A m \in Numbers : m # Number(r) /\ m \in DOMAIN f => series'[c][m] = f[m]
    BY <1>1, <1>5, <2>1, TouchedFiles DEF PlaceOf
  <2>4. PICK n \in Nat : n = Len(r.seen)
    BY <2>2
  <2>5. DOMAIN f = 1..n /\ Number(r) = n + 1
    BY <2>2, <2>4 DEF RunsTo, Number
  <2>6. DOMAIN series'[c] = 1..(n + 1) /\ \A m \in 1..n : series'[c][m] = f[m]
    BY <2>3, <2>5 DEF Numbers
  <2>7. RunsTo(series'[c], n + 1, entries[c])
    <3>1. RunsTo(f, n, entries[c]) /\ \A m \in 1..n : f[m] # Torn
      BY <2>2, <2>4
    <3>2. series'[c][n + 1] = Torn
      BY <2>3, <2>5
    <3>3. PICK g : g = series'[c]
      OBVIOUS
    <3>4. RunsTo(g, n + 1, entries[c])
      BY <2>6, <3>1, <3>2, <3>3, RunsOn
    <3> QED BY <3>3, <3>4
  <2>8. n + 1 \in Nat
    OBVIOUS
  <2> QED BY <1>3, <2>1, <2>7, <2>8 DEF Sound
<1>6. CASE Writes(r, s)
  <2>1. Touches(r, s) /\ r.at = "write" /\ Number(r) \in DOMAIN f
    BY <1>4, <1>6 DEF Touches, Writes
  <2>2. /\ c \in Chains /\ r.seen \in Seq(Cps) /\ Len(r.seen) \in Nat /\ RunsTo(f, Number(r), entries[c])
        /\ \A m \in 1..Len(r.seen) : f[m] = r.seen[m] /\ r.seen[m] # Torn
    BY <1>1, <2>1, AtEnd
  <2>3. /\ DOMAIN series'[c] = DOMAIN f \cup {Number(r)} /\ series'[c][Number(r)] = Signed(r)
        /\ \A m \in Numbers : m # Number(r) /\ m \in DOMAIN f => series'[c][m] = f[m]
    BY <1>1, <1>6, <2>1, TouchedFiles DEF PlaceOf
  <2>4. PICK n \in Numbers : n = Number(r) /\ n = Len(r.seen) + 1
    BY <2>2 DEF Number, Numbers
  <2>5. DOMAIN series'[c] = 1..n /\ \A m \in 1..(n - 1) : series'[c][m] = f[m] /\ f[m] = r.seen[m]
    <3>1. DOMAIN f = 1..n
      BY <2>2, <2>4 DEF RunsTo
    <3>2. \A m \in 1..(n - 1) : m \in 1..Len(r.seen) /\ m \in Numbers /\ m # Number(r) /\ m \in 1..n
      BY <2>2, <2>4 DEF Numbers
    <3> QED BY <2>2, <2>3, <2>4, <3>1, <3>2
  <2>6. At(series'[c], n - 1) = Last(r.seen)
    <3>1. n - 1 = Len(r.seen)
      BY <2>2, <2>4
    <3>2. Len(r.seen) # 0 => Len(r.seen) \in 1..(n - 1)
      BY <2>2, <3>1
    <3> QED BY <2>5, <3>1, <3>2 DEF Last, At
  <2>7. Covered(r.seen) < entries[c] /\ r.made = 0 /\ entries[c] \in Nat
    BY <1>1, <2>1, <2>2 DEF Ready, ReadyCall, Timeless, Shapes, FolderType
  <2>8. series'[c][n] = Signed(r)
    BY <2>3, <2>4
  <2>9. Linked(series'[c], n, entries[c]) /\ series'[c][n].made = 0
    <3>1. /\ Signed(r).previous = Last(r.seen).id /\ Signed(r).covers = entries[c] /\ Signed(r).made = 0
          /\ Signed(r).hash = ChainHash(Last(r.seen), entries[c])
      BY <2>7 DEF Signed
    <3>2. PICK g : g = series'[c]
      OBVIOUS
    <3>3. g[n] = Signed(r) /\ At(g, n - 1) = Last(r.seen)
      BY <2>6, <2>8, <3>2
    <3>4. Linked(g, n, entries[c]) /\ g[n].made = 0
      BY <2>7, <3>1, <3>3 DEF Linked, Covered
    <3> QED BY <3>2, <3>4
  <2>10. RunsTo(series'[c], n, entries[c])
    <3>1. PICK g : g = series'[c]
      OBVIOUS
    <3>2. RunsTo(f, n, entries[c]) /\ DOMAIN g = 1..n /\ (\A m \in 1..(n - 1) : g[m] = f[m]) /\ g[n].made = 0
          /\ Linked(g, n, entries[c])
      BY <2>2, <2>4, <2>5, <2>9, <3>1
    <3>3. RunsTo(g, n, entries[c])
      BY <3>2, RunsWritten
    <3> QED BY <3>1, <3>3
  <2>11. n \in Nat
    BY DEF Numbers
  <2> QED BY <1>3, <2>1, <2>10, <2>11 DEF Sound
<1> QED BY <1>1, <1>2, <1>5, <1>6 DEF Touches

LEMMA NamesStay ==
    ASSUME Killed, Shapes, Places, SeenStand, NEW p, NEW s, Moves(p, s), NEW c \in Chains, NEW u, Names(u, series[c])
    PROVE  Names(u, series'[c])
<1>1. ~Removes(run[p], s)
  BY DEF Killed, Removes
<1> QED BY <1>1, CheckpointsStay DEF Names

LEMMA HeadOfNamed ==
    ASSUME RunType, Named, NEW p \in Runs, NEW c \in Chains, HeadOf(run[p], c) # None
    PROVE  Names(HeadOf(run[p], c), series[c])
<1> DEFINE r == run[p]
<1>1. CASE \E u \in r.pending : u.chain = c
  <2> DEFINE v == CHOOSE u \in r.pending : u.chain = c
  <2>1. v \in r.pending /\ v.chain = c
    BY <1>1
  <2>2. HeadOf(r, c) = [count |-> v.count, hash |-> v.hash]
    BY <1>1 DEF HeadOf
  <2> HIDE DEF v
  <2>3. Names(v, series[c])
    BY <2>1 DEF Named, NamedCall
  <2> QED BY <2>2, <2>3 DEF Names
<1>2. CASE ~ \E u \in r.pending : u.chain = c
  BY <1>2 DEF HeadOf, Named, NamedMap
<1> QED BY <1>1, <1>2

\* A head is put into a batch once its checkpoint is there.
LEMMA NotedNamed ==
    ASSUME Shapes, Places, SeenStand, Ready, NEW p \in Runs, NEW s,
           \/ NotesSeen(run[p], s)
           \/ run[p].at = "sync" /\ Notes(run[p], s, Number(run[p]), Signed(run[p]).hash)
    PROVE  \A u \in s.pending : u \in run[p].pending \/ (u.chain \in Chains /\ Names(u, series[u.chain]))
<1> DEFINE r == run[p]
           c == r.cursor
<1>1. r.at \in {"verify", "sync"} /\ CallType(r) /\ c \in Chains /\ r.seen \in Seq(Cps) /\ Prefix(r.seen, series[c])
  <2>1. r.at \in {"verify", "sync"}
    BY DEF NotesSeen
  <2>2. CallType(r) /\ c \in Chains
    BY <2>1 DEF Shapes, RunType, CallType, AtChain
  <2> QED BY <2>1, <2>2, CallFields DEF SeenStand, SeenStands
<1>2. CASE NotesSeen(r, s)
  <2>1. Len(r.seen) \in DOMAIN r.seen /\ Last(r.seen) = r.seen[Len(r.seen)]
    <3>1. r.seen # <<>> /\ DOMAIN r.seen = 1..Len(r.seen) /\ Len(r.seen) \in Nat
      BY <1>1, <1>2, LenProperties DEF NotesSeen
    <3>2. Len(r.seen) # 0
      BY <1>1, <3>1, EmptySeq
    <3> QED BY <3>1, <3>2 DEF Last, At
  <2>2. Names([chain |-> c, count |-> Len(r.seen), hash |-> Last(r.seen).hash], series[c])
    BY <1>1, <2>1 DEF Names, Prefix
  <2> QED BY <1>1, <1>2, <2>2 DEF NotesSeen, Notes
<1>3. CASE r.at = "sync" /\ Notes(r, s, Number(r), Signed(r).hash)
  <2>1. Number(r) \in DOMAIN series[c] /\ series[c][Number(r)] = Signed(r)
    <3>1. Place(p) \in FilesOf(series)
      BY <1>3 DEF Places, Placing
    <3> QED BY <1>3, <3>1, FileNamed DEF Place, PlaceOf, SeenStand, SeenStands
  <2>2. Signed(r) # Torn
    BY <1>1, SignedType DEF Shapes
  <2>3. Names([chain |-> c, count |-> Number(r), hash |-> Signed(r).hash], series[c])
    BY <2>1, <2>2 DEF Names
  <2> QED BY <1>1, <1>3, <2>3 DEF Notes
<1> QED BY <1>2, <1>3

LEMMA MoveNamed ==
    ASSUME Killed, Shapes, Places, SeenStand, Ready, Named, NEW p, NEW s, Moves(p, s)
    PROVE  Named'
<1> DEFINE r == run[p]
<1>1. p \in Runs /\ run'[p] = s /\ (\A q \in Runs : q # p => run'[q] = run[q]) /\ \A q \in Runs : CallType(run[q])
  BY MovedRuns DEF Shapes, RunType, Moves
<1>2. \A c \in Chains : \A u : Names(u, series[c]) => Names(u, series'[c])
  BY NamesStay
<1>3. \A q \in Runs : \A u \in run[q].pending : u.chain \in Chains /\ Names(u, series[u.chain])
  <2>1. \A q \in Runs : run[q].pending \subseteq Updates
    BY <1>1, CallFields
  <2> QED BY <2>1 DEF Named, NamedCall, Updates
<1>4. ASSUME NEW q \in Runs, q # p PROVE NamedCall(run[q])'
  <2>1. NamedCall(run[q])
    BY DEF Named
  <2>2. \A u \in run[q].pending : Names(u, series'[u.chain])
    BY <1>2, <1>3
  <2>3. run[q].at \in Saving => \A c \in Chains : run[q].next[c] # None => Names(run[q].next[c], series'[c])
    BY <1>2, <2>1 DEF NamedCall, NamedMap
  <2> QED BY <1>1, <1>4, <2>2, <2>3 DEF NamedCall, NamedMap, Names
<1>5. \A u \in s.pending : u \in r.pending \/ (u.chain \in Chains /\ Names(u, series[u.chain]))
  <2>1. CASE NotesSeen(r, s) \/ (r.at = "sync" /\ Notes(r, s, Number(r), Signed(r).hash))
    BY <1>1, <2>1, NotedNamed
  <2>2. CASE s.pending \subseteq r.pending
    BY <2>2
  <2>3. CASE s.pending = {}
    BY <2>3
  <2> QED BY <2>1, <2>2, <2>3 DEF Moves, Effect, Reads, Rests, Turns, SeesSeries, SeesHead, Signs, Loads, Creates,
             Writes, Syncs, Removes, Saves, Same, SameCall
<1>6. \A u \in s.pending : Names(u, series'[u.chain])
  BY <1>1, <1>2, <1>3, <1>5
<1>7. ASSUME s.at \in Saving, NEW c \in Chains, s.next[c] # None PROVE Names(s.next[c], series[c])
  <2>1. Loads(r, s)
    BY <1>7 DEF Moves, Effect, Reads, Rests, Turns, SeesSeries, SeesHead, Signs, NotesSeen, Notes, Creates,
             Writes, Syncs, Removes, Saves, Resting, Saving
  <2>2. s.next[c] = HeadOf(r, c)
    BY <2>1 DEF Loads
  <2> QED BY <1>1, <1>7, <2>2, HeadOfNamed DEF Shapes
<1>8. NamedCall(run[p])'
  <2>1. s.at \in Saving => \A c \in Chains : s.next[c] # None => Names(s.next[c], series'[c])
    BY <1>2, <1>7
  <2> QED BY <1>1, <1>6, <2>1 DEF NamedCall, NamedMap, Names
<1>9. NamedMap(heads)'
  <2>1. ASSUME NEW c \in Chains, heads'[c] # None PROVE Names(heads'[c], series[c])
    <3>1. CASE UNCHANGED heads
      BY <2>1, <3>1 DEF Named, NamedMap
    <3>2. CASE r.at \in Saving /\ heads' = r.next
      BY <1>1, <2>1, <3>2 DEF Named, NamedCall, NamedMap
    <3>3. UNCHANGED heads \/ (r.at \in Saving /\ heads' = r.next)
      BY DEF Moves, Effect, fileVars, Creates, Writes, Syncs, Removes, Saves
    <3> QED BY <3>1, <3>2, <3>3
  <2>2. \A c \in Chains : heads'[c] # None => Names(heads'[c], series'[c])
    BY <1>2, <2>1
  <2> QED BY <2>2 DEF NamedMap, Names
<1> QED BY <1>4, <1>8, <1>9 DEF Named

\* What a call signs covers more than what it read.
LEMMA SignsMore ==
    ASSUME Shapes, NEW r, CallType(r), r.cursor \in Chains, entries[r.cursor] > 0,
           SeriesVerifies(r.seen, entries[r.cursor]), Covered(r.seen) # entries[r.cursor]
    PROVE  Covered(r.seen) < entries[r.cursor]
<1>1. r.seen \in Seq(Cps) /\ entries[r.cursor] \in Nat
  BY CallFields DEF Shapes, FolderType
<1>2. Len(r.seen) \in Nat /\ DOMAIN r.seen = 1..Len(r.seen) /\ Covered(r.seen) \in Nat
  BY <1>1, LenProperties, LastType
<1>3. CASE Len(r.seen) = 0
  BY <1>1, <1>3 DEF Covered, Last, At, Seed, Torn
<1>4. CASE Len(r.seen) # 0
  <2>1. Len(r.seen) \in DOMAIN r.seen
    BY <1>2, <1>4
  <2>2. r.seen[Len(r.seen)].covers <= entries[r.cursor]
    BY <2>1 DEF SeriesVerifies
  <2>3. Covered(r.seen) <= entries[r.cursor]
    BY <1>4, <2>2 DEF Covered, Last, At
  <2> QED BY <1>1, <1>2, <2>3
<1> QED BY <1>3, <1>4

LEMMA MoveReady == ASSUME Shapes, Ready, NEW p, NEW s, Moves(p, s) PROVE Ready'
<1> DEFINE r == run[p]
<1>1. /\ p \in Runs /\ run'[p] = s /\ (\A q \in Runs : q # p => run'[q] = run[q])
      /\ UNCHANGED entries /\ CallType(r) /\ CallType(s) /\ signed \in Nat
  BY MovedRuns DEF Shapes, RunType, CountsType, Moves, folderVars
<1>2. ReadyCall(r) /\ (r.at \in AtChain => r.cursor \in Chains)
  BY <1>1 DEF Ready, CallType
<1>3. ReadyCall(s)
  <2>1. CASE s.at \notin AtChain
    BY <2>1 DEF ReadyCall, AtChain
  <2>2. CASE Turns(r, s)
    BY <2>2 DEF Turns, ReadyCall
  <2>3. CASE SeesSeries(r, s) \/ SeesHead(r, s)
    BY <1>2, <2>3 DEF SeesSeries, SeesHead, Same, SameCall, ReadyCall, AtChain
  <2>4. CASE Creates(r, s) \/ Writes(r, s)
    BY <1>2, <2>4 DEF Creates, Writes, Same, SameCall, ReadyCall, AtChain
  <2>5. CASE Signs(r, s)
    <3>1. s.at = "create" /\ s.cursor = r.cursor /\ s.seen = r.seen /\ s.serial = signed + 1
      BY <2>5 DEF Signs, SameCall
    <3>2. entries[r.cursor] > 0 /\ r.cursor \in Chains
      BY <1>2, <2>5 DEF Signs, ReadyCall, AtChain
    <3>3. Covered(r.seen) < entries[r.cursor]
      BY <1>1, <2>5, <3>2, SignsMore DEF Signs, Good
    <3>4. s.serial # 0
      BY <1>1, <3>1
    <3> QED BY <3>1, <3>2, <3>3, <3>4 DEF ReadyCall
  <2>6. CASE Rests(r, s) \/ NotesSeen(r, s) \/ Loads(r, s) \/ Syncs(r, s) \/ Removes(r, s) \/ Saves(r, s)
    BY <2>1, <2>6 DEF Rests, NotesSeen, Notes, Loads, Syncs, Removes, Saves, Resting, Saving, AtChain
  <2> QED BY <2>2, <2>3, <2>4, <2>5, <2>6 DEF Moves, Effect, Reads
<1>4. \A q \in Runs : ReadyCall(run'[q])
  BY <1>1, <1>3 DEF Ready
<1> QED BY <1>1, <1>4 DEF Ready, ReadyCall

LEMMA FolderSound ==
    ASSUME Killed, SoundInv, FolderMoves
    PROVE  AllSound' /\ Timeless' /\ Named' /\ Ready'
<1> USE DEF SoundInv
<1>1. /\ UNCHANGED <<series, heads, run, clock>> /\ FolderType' /\ \A c \in Chains : entries[c] <= entries'[c]
      /\ \A c \in Chains : entries[c] \in Nat /\ entries'[c] \in Nat
  BY DEF FolderMoves, fileVars, Shapes, FolderType
<1>2. \A p \in Runs : run[p].at \notin AtChain
  BY InPages DEF FolderMoves, Exclusive
<1>3. Timeless' /\ Named' /\ Ready'
  BY <1>1, <1>2 DEF Timeless, Named, NamedMap, NamedCall, Names, Ready, ReadyCall, AtChain
<1>4. \A c \in Chains : Sound(series[c], entries'[c])
  <2> TAKE c \in Chains
  <2>1. PICK n \in Nat : RunsTo(series[c], n, entries[c])
    BY DEF AllSound, Sound
  <2>2. \A m \in 1..n : series[c][m].covers \in Nat
    BY <2>1, FilesDef DEF RunsTo, Shapes, SeriesType, Cps
  <2>3. \A m \in 1..n : Linked(series[c], m, entries[c]) => Linked(series[c], m, entries'[c])
    BY <1>1, <2>2 DEF Linked
  <2>4. RunsTo(series[c], n, entries'[c])
    BY <2>1, <2>3 DEF RunsTo
  <2> QED BY <2>4 DEF Sound
<1>5. AllSound'
  BY <1>1, <1>4 DEF AllSound, Sound, RunsTo, Linked
<1> QED BY <1>3, <1>5

LEMMA RemovedSound ==
    ASSUME Killed, SoundInv, NEW c \in Chains, RemoveTorn(c)
    PROVE  AllSound' /\ Timeless' /\ Named' /\ Ready'
<1> USE DEF SoundInv
<1>1. PICK k \in DOMAIN series[c] : series[c][k] = Torn /\ series' = [series EXCEPT ![c] = Without(series[c], k)]
  BY RemoveTornTakes DEF Places
<1>2. UNCHANGED <<entries, heads, run, clock>> /\ \A p \in Runs : run[p].at = "idle"
  BY DEF RemoveTorn, folderVars
<1>3. series[c] \in Files /\ series = [d \in Chains |-> series[d]]
  BY DEF Shapes, SeriesType
<1>4. /\ DOMAIN Without(series[c], k) = DOMAIN series[c] \ {k}
      /\ \A m \in DOMAIN series[c] : m # k => Without(series[c], k)[m] = series[c][m]
  BY <1>3, FileRemoved
<1>5. series'[c] = Without(series[c], k) /\ \A d \in Chains : d # c => series'[d] = series[d]
  BY <1>1, <1>3
<1>6. \A d \in Chains : \A u : Names(u, series[d]) => Names(u, series'[d])
  BY <1>1, <1>4, <1>5 DEF Names
<1>7. \A p \in Runs : \A u \in run[p].pending : u.chain \in Chains
  <2>1. \A p \in Runs : run[p].pending \subseteq Updates
    BY CallFields DEF Shapes, RunType
  <2> QED BY <2>1 DEF Updates
<1>8. Named'
  <2>1. NamedMap(heads)'
    BY <1>2, <1>6 DEF Named, NamedMap, Names
  <2>2. \A p \in Runs : NamedCall(run[p])'
    BY <1>2, <1>6, <1>7 DEF Named, NamedCall, Names, Saving
  <2> QED BY <2>1, <2>2 DEF Named
<1>9. Timeless' /\ Ready'
  BY <1>2 DEF Timeless, Ready, ReadyCall, AtChain
<1>10. Sound(series'[c], entries[c])
  <2>1. PICK n \in Nat : RunsTo(series[c], n, entries[c])
    BY DEF AllSound, Sound
  <2>2. DOMAIN series[c] = 1..n
    BY <2>1 DEF RunsTo
  <2>3. k = n /\ n \in Numbers
    BY <1>1, <2>1, <2>2 DEF RunsTo, Numbers
  <2>4. DOMAIN series'[c] = 1..(n - 1) /\ \A m \in 1..(n - 1) : series'[c][m] = series[c][m]
    <3>1. (1..n) \ {n} = 1..(n - 1)
      BY <2>3 DEF Numbers
    <3>2. \A m \in 1..(n - 1) : m \in DOMAIN series[c] /\ m # k
      BY <2>2, <2>3 DEF Numbers
    <3> QED BY <1>4, <1>5, <2>2, <2>3, <3>1, <3>2
  <2>5. PICK g : g = series'[c]
    OBVIOUS
  <2>6. RunsTo(g, n - 1, entries[c])
    BY <2>1, <2>3, <2>4, <2>5, RunsCut
  <2>7. n - 1 \in Nat
    BY <2>3 DEF Numbers
  <2> QED BY <2>5, <2>6, <2>7 DEF Sound
<1>11. \A d \in Chains : Sound(series'[d], entries[d])
  BY <1>5, <1>10 DEF AllSound
<1>12. AllSound'
  BY <1>2, <1>11 DEF AllSound, Sound, RunsTo, Linked
<1> QED BY <1>8, <1>9, <1>12

LEMMA SoundInvStep == ASSUME Killed, SoundInv, [Next]_vars PROVE SoundInv'
<1> USE DEF SoundInv
<1>1. Shapes' /\ Places' /\ SeenStand'
  BY PlacesStep, SeenStandStep DEF Undisturbed, Killed
<1>2. ASSUME NEW p \in Runs, NEW s, Moves(p, s) PROVE AllSound' /\ Timeless' /\ Named' /\ Ready'
  BY <1>2, MoveSound, MoveTimeless, MoveNamed, MoveReady
<1>3. CASE FolderMoves
  BY <1>1, <1>3, FolderSound
<1>4. CASE Idles
  <2>1. UNCHANGED <<entries, series, heads, run, clock>>
    BY <1>4 DEF Idles, folderVars, fileVars, Killed
  <2>2. AllSound' /\ Timeless'
    BY <2>1 DEF AllSound, Sound, RunsTo, Linked, Timeless
  <2>3. Named' /\ Ready'
    BY <2>1 DEF Named, NamedMap, NamedCall, Names, Ready, ReadyCall
  <2> QED BY <1>1, <2>2, <2>3
<1>5. ASSUME NEW c \in Chains, RemoveTorn(c) PROVE AllSound' /\ Timeless' /\ Named' /\ Ready'
  BY <1>5, RemovedSound
<1>6. ~PowerLoss /\ \A c \in Chains : ~Restore(c)
  BY DEF PowerLoss, Restore, Fault, Killed
<1> QED BY <1>1, <1>2, <1>3, <1>4, <1>5, <1>6, Steps

LEMMA SoundInvHolds == ASSUME SoundInv PROVE SeriesInv
<1> USE DEF SoundInv
<1>1. SeriesSound
  BY SoundSeries
<1>2. HeadsBehind
  BY DEF HeadsBehind, HeadProblem, Named, NamedMap, Names
<1>3. \A c \in Chains : DOMAIN series[c] \subseteq Nat \ {0}
  BY FilesDef DEF Shapes, SeriesType, Numbers
<1>4. \A c \in Chains : heads[c] = None \/ heads[c].count \in Nat \ {0}
  BY DEF Shapes, HeadsType, HeadMaps, Heads, Numbers
<1>5. \A p \in Runs : run[p].cursor \in Chains \cup {0}
  BY CallFields DEF Shapes, RunType
<1>6. TypeOK
  BY <1>3, <1>4, <1>5 DEF TypeOK, Shapes, FolderType, CountsType
<1> QED BY <1>1, <1>2, <1>6 DEF SeriesInv

\* However many processes checkpoint side by side, and whichever of them die where,
\* every series runs 1..n, each checkpoint linked to the one before it and no longer
\* than its chain, and no head names what its series does not hold.
THEOREM SeriesStaySound == ASSUME FaultKinds \subseteq {"kill"} PROVE Spec => []SeriesInv
<1>1. Init => SoundInv
  <2> SUFFICES ASSUME Init PROVE SoundInv
    OBVIOUS
  <2>1. Shapes /\ Places
    BY InitPlaces
  <2>2. \A p \in Runs : run[p].at = "idle" /\ run[p].made = 0 /\ run[p].pending = {}
    BY DEF Init, NoRun
  <2>3. SeenStand /\ Ready /\ Timeless
    BY <2>2 DEF Init, SeenStand, SeenStands, Ready, ReadyCall, AtChain, Timeless
  <2>4. Named
    BY <2>2 DEF Init, Named, NamedMap, NamedCall, Saving
  <2>5. \A c \in Chains : RunsTo(series[c], 0, entries[c])
    <3>1. DOMAIN <<>> = {}
      OBVIOUS
    <3>2. 1..0 = {}
      OBVIOUS
    <3> QED BY <3>1, <3>2 DEF Init, RunsTo
  <2>6. AllSound
    BY <2>5 DEF AllSound, Sound
  <2> QED BY <2>1, <2>3, <2>4, <2>6 DEF SoundInv
<1>2. SoundInv /\ [Next]_vars => SoundInv'
  BY SoundInvStep DEF Killed
<1>3. SoundInv => SeriesInv
  BY SoundInvHolds
<1> QED BY <1>1, <1>2, <1>3, PTL DEF Spec

-----------------------------------------------------------------------------
(* HeadsExtend, of one checkpointing process, whatever else goes wrong.  Two that *)
(* record heads without a lock may overwrite a later head by an earlier one.      *)

\* A chain hash grows into another; as long as its head counts, it is its beginning.
Grows(h, g) == Len(h) <= Len(g) /\ \A i \in 1..Len(h) : g[i] = h[i]
Whole(head) == head # None => Len(head.hash) = head.count
HeadGrows(old, new) == old # None => new # None /\ Grows(old.hash, new.hash)

LEMMA GrowsOn == ASSUME NEW a \in Seq(Nat), NEW b \in Seq(Nat), NEW c \in Seq(Nat), Grows(a, b), Grows(b, c) PROVE Grows(a, c)
<1>1. Len(a) \in Nat /\ Len(b) \in Nat /\ Len(c) \in Nat
  BY LenProperties
<1>2. \A i \in 1..Len(a) : i \in 1..Len(b)
  BY <1>1 DEF Grows
<1> QED BY <1>1, <1>2 DEF Grows

LEMMA HeadGrowsExtends ==
    ASSUME NEW old \in Heads \cup {None}, NEW new \in Heads \cup {None}, Whole(old), Whole(new), HeadGrows(old, new)
    PROVE  Extends(old, new)
<1> SUFFICES ASSUME old # None PROVE Extends(old, new)
  BY DEF Extends
<1>1. old \in Heads /\ new \in Heads /\ new # None /\ Grows(old.hash, new.hash)
  BY DEF HeadGrows
<1>2. old.hash \in Seq(Nat) /\ new.hash \in Seq(Nat) /\ old.count = Len(old.hash) /\ new.count = Len(new.hash)
  BY <1>1 DEF Heads, Whole
<1>3. PICK h \in Seq(Nat), g \in Seq(Nat) : h = old.hash /\ g = new.hash /\ Grows(h, g)
  BY <1>1, <1>2
<1>4. Len(h) \in Nat /\ Len(g) \in Nat /\ Len(h) <= Len(g)
  BY <1>3, LenProperties DEF Grows
<1>5. SubSeq(g, 1, Len(h)) = h
  <2>1. \A i \in 1..Len(h) : g[i] \in Nat
    BY <1>4, ElementOfSeq
  <2>2. /\ SubSeq(g, 1, Len(h)) \in Seq(Nat) /\ Len(SubSeq(g, 1, Len(h))) = Len(h)
        /\ \A i \in 1..Len(h) : SubSeq(g, 1, Len(h))[i] = g[i]
    BY <1>4, <2>1, SubSeqProperties
  <2>3. \A i \in 1..Len(h) : SubSeq(g, 1, Len(h))[i] = h[i]
    BY <1>3, <2>2 DEF Grows
  <2> QED BY <2>2, <2>3, SeqEqual
<1> QED BY <1>1, <1>2, <1>3, <1>4, <1>5 DEF Extends

LEMMA LeastNumber == ASSUME NEW T, T \subseteq Nat, T # {} PROVE \E m \in T : \A n \in T : m <= n
<1> DEFINE R == OpToRel(<, Nat)
<1>1. \A m, n \in Nat : m < n => <<m, n>> \in R
  BY DEF OpToRel
<1>2. IsWellFoundedOn(R, Nat)
  BY NatLessThanWellFounded
<1>3. PICK m \in T : \A n \in T : ~ (<<n, m>> \in R)
  BY <1>2, WFMin
<1> HIDE DEF R
<1>4. \A n \in T : ~(n < m)
  BY <1>1, <1>3
<1> QED BY <1>4

HashLinked(f) == \A n \in DOMAIN f : f[n].hash = ChainHash(At(f, n - 1), f[n].covers)

\* Along a linked series the chain hash counts the checkpoints, and only grows.
LEMMA HashesGrow ==
    ASSUME NEW f \in Seq(Cps), HashLinked(f)
    PROVE  \A n \in 0..Len(f) : /\ At(f, n) \in Cps /\ Len(At(f, n).hash) = n
                                /\ \A m \in 0..n : Grows(At(f, m).hash, At(f, n).hash)
<1>1. Len(f) \in Nat /\ DOMAIN f = 1..Len(f)
  BY LenProperties
<1>2. \A n \in 0..Len(f) : At(f, n) \in Cps /\ At(f, n).hash \in Seq(Nat)
  <2> TAKE n \in 0..Len(f)
  <2>1. At(f, n) \in Cps
    BY <1>1, TornType, ElementOfSeq DEF At
  <2> QED BY <2>1 DEF Cps
<1> DEFINE P(n) == Len(At(f, n).hash) = n /\ \A m \in 0..n : Grows(At(f, m).hash, At(f, n).hash)
           T == {n \in 0..Len(f) : ~P(n)}
<1>3. SUFFICES ASSUME T # {} PROVE FALSE
  BY <1>2
<1>4. PICK n \in T : \A m \in T : n <= m
  <2>1. T \subseteq Nat
    BY <1>1
  <2> QED BY <1>3, <2>1, LeastNumber
<1>5. n \in 0..Len(f) /\ ~P(n)
  OBVIOUS
<1>6. CASE n = 0
  <2>1. At(f, 0).hash = <<>>
    BY DEF At, Seed, Torn
  <2>2. Len(<<>>) = 0
    BY EmptySeq
  <2>3. Grows(<<>>, <<>>)
    BY <2>2 DEF Grows
  <2> QED BY <1>5, <1>6, <2>1, <2>2, <2>3
<1>7. CASE n # 0
  <2>1. n - 1 \in 0..Len(f) /\ n - 1 \notin T /\ n \in DOMAIN f
    BY <1>1, <1>4, <1>5, <1>7
  <2>2. P(n - 1)
    BY <2>1
  <2>3. PICK h \in Seq(Nat) : h = At(f, n - 1).hash
    BY <1>2, <2>1
  <2>4. PICK g \in Seq(Nat) : g = At(f, n).hash
    BY <1>2, <1>5
  <2>5. g = Append(h, f[n].covers) /\ f[n].covers \in Nat
    <3>1. f[n] \in Cps
      BY <1>1, <2>1, ElementOfSeq
    <3>2. f[n].hash = Append(At(f, n - 1).hash, f[n].covers)
      BY <2>1 DEF HashLinked, ChainHash
    <3>3. At(f, n) = f[n]
      BY <1>7 DEF At
    <3> QED BY <2>3, <2>4, <3>1, <3>2, <3>3 DEF Cps
  <2>6. Len(h) = n - 1
    BY <2>2, <2>3
  <2>7. Len(g) = n /\ Grows(h, g)
    BY <1>5, <2>5, <2>6, AppendProperties DEF Grows
  <2>8. Grows(g, g)
    BY <1>5, <2>7 DEF Grows
  <2>9. \A m \in 0..n : Grows(At(f, m).hash, g)
    <3> TAKE m \in 0..n
    <3>1. CASE m = n
      BY <2>4, <2>8, <3>1
    <3>2. CASE m # n
      <4>1. m \in 0..(n - 1) /\ m \in 0..Len(f)
        BY <1>5, <3>2
      <4>2. Grows(At(f, m).hash, h) /\ At(f, m).hash \in Seq(Nat)
        BY <1>2, <2>2, <2>3, <4>1
      <4> QED BY <2>7, <4>2, GrowsOn
    <3> QED BY <3>1, <3>2
  <2> QED BY <1>5, <2>4, <2>7, <2>9
<1> QED BY <1>6, <1>7

\* The record a pending head becomes in the heads file.
HeadIn(u) == [count |-> u.count, hash |-> u.hash]

CallHeads(r) ==
    /\ r.at \in {"verify", "create", "write", "sync"} /\ r.tracks => ~HeadProblem(r.seen, heads[r.cursor])
    /\ r.at \in {"create", "write", "sync"} => HashLinked(r.seen)
    /\ \A u \in r.pending : Whole(HeadIn(u)) /\ HeadGrows(heads[u.chain], HeadIn(u))
    /\ r.at \in Saving => \A c \in Chains : Whole(r.next[c]) /\ HeadGrows(heads[c], r.next[c])

FileHeads == \A c \in Chains : Whole(heads[c]) /\ Whole(kept[c]) /\ HeadGrows(kept[c], heads[c])

HeadsInv == Shapes /\ Places /\ FileHeads /\ \A p \in Runs : CallHeads(run[p])

\* What a step does to the heads files.
HeadsMove(c) ==
    /\ HeadGrows(kept[c], kept'[c])
    /\ heads' # kept => HeadGrows(heads[c], heads'[c])

LEMMA HeadGrowsSelf == ASSUME NEW h \in Heads \cup {None} PROVE HeadGrows(h, h)
<1> SUFFICES ASSUME h # None PROVE Grows(h.hash, h.hash)
  BY DEF HeadGrows
<1>1. h.hash \in Seq(Nat)
  BY DEF Heads
<1> QED BY <1>1, LenProperties DEF Grows

LEMMA HeadGrowsOn ==
    ASSUME NEW a \in Heads \cup {None}, NEW b \in Heads \cup {None}, NEW c \in Heads \cup {None}, HeadGrows(a, b), HeadGrows(b, c)
    PROVE  HeadGrows(a, c)
<1> SUFFICES ASSUME a # None PROVE c # None /\ Grows(a.hash, c.hash)
  BY DEF HeadGrows
<1>1. b # None /\ c # None /\ Grows(a.hash, b.hash) /\ Grows(b.hash, c.hash)
  BY DEF HeadGrows
<1>2. a.hash \in Seq(Nat) /\ b.hash \in Seq(Nat) /\ c.hash \in Seq(Nat)
  BY <1>1 DEF Heads
<1> QED BY <1>1, <1>2, GrowsOn

\* A head that is found in the series that was read grows into the one it ends in.
LEMMA SeenHeadGrows ==
    ASSUME NEW f \in Seq(Cps), HashLinked(f), NEW head \in Heads \cup {None}, ~HeadProblem(f, head),
           NEW n \in Numbers, NEW h \in Seq(Nat), n = Len(h), Grows(Last(f).hash, h)
    PROVE  LET new == [count |-> n, hash |-> h] IN Whole(new) /\ HeadGrows(head, new)
<1>1. [count |-> n, hash |-> h] # None
  BY CheckpointAssumption DEF Numbers
<1>2. ASSUME head # None PROVE Grows(head.hash, h)
  <2>1. head.count \in DOMAIN f /\ f[head.count].hash = head.hash
    BY <1>2 DEF HeadProblem
  <2>2. Len(f) \in Nat /\ DOMAIN f = 1..Len(f)
    BY LenProperties
  <2>3. Len(f) \in 0..Len(f) /\ head.count \in 0..Len(f) /\ head.count # 0
    BY <2>1, <2>2
  <2>4. Grows(At(f, head.count).hash, At(f, Len(f)).hash) /\ At(f, head.count) \in Cps /\ At(f, Len(f)) \in Cps
    BY <2>3, HashesGrow
  <2>5. At(f, head.count).hash = head.hash /\ At(f, Len(f)) = Last(f)
    BY <2>1, <2>3 DEF At, Last
  <2> QED BY <2>4, <2>5, GrowsOn DEF Cps
<1> QED BY <1>1, <1>2 DEF Whole, HeadGrows

\* A head added to a batch is that of a series its call has read and linked on.
LEMMA NotedGrows ==
    ASSUME Shapes, NEW p \in Runs, CallHeads(run[p]), NEW s,
           \/ NotesSeen(run[p], s)
           \/ run[p].at = "sync" /\ Notes(run[p], s, Number(run[p]), Signed(run[p]).hash)
    PROVE  \A u \in s.pending : u \in run[p].pending \/ (Whole(HeadIn(u)) /\ HeadGrows(heads[u.chain], HeadIn(u)))
<1> DEFINE r == run[p]
           c == r.cursor
<1>1. r.at \in {"verify", "sync"} /\ r.tracks /\ CallType(r)
  BY DEF NotesSeen, Notes, Shapes, RunType
<1>2. c \in Chains /\ r.seen \in Seq(Cps) /\ ~HeadProblem(r.seen, heads[c]) /\ heads[c] \in Heads \cup {None}
  BY <1>1, CallFields DEF CallType, AtChain, CallHeads, Shapes, HeadsType, HeadMaps
<1>3. PICK f \in Seq(Cps), head \in Heads \cup {None} : f = r.seen /\ head = heads[c] /\ ~HeadProblem(f, head)
  BY <1>2
<1>4. HashLinked(f)
  <2>1. CASE NotesSeen(r, s)
    BY <1>3, <2>1 DEF NotesSeen, Good, SeriesVerifies, HashLinked
  <2>2. CASE r.at = "sync"
    BY <1>3, <2>2 DEF CallHeads
  <2> QED BY <2>1, <2>2
<1>5. Len(f) \in Nat /\ Last(f) \in Cps /\ Last(f).hash \in Seq(Nat) /\ Len(Last(f).hash) = Len(f)
  <2>1. Len(f) \in Nat
    BY LenProperties
  <2>2. Len(f) \in 0..Len(f)
    BY <2>1
  <2>3. Len(At(f, Len(f)).hash) = Len(f)
    BY <1>4, <2>2, HashesGrow
  <2> QED BY <2>1, <2>3, LastType DEF Last
<1>6. PICK g \in Seq(Nat) : g = Last(f).hash
  BY <1>5
<1>7. CASE NotesSeen(r, s)
  <2>1. Len(f) \in Numbers
    BY <1>3, <1>7, EmptySeq DEF NotesSeen, Numbers
  <2>2. Grows(g, g)
    BY <1>5, <1>6 DEF Grows
  <2>3. PICK n \in Numbers : n = Len(f) /\ n = Len(g)
    BY <1>5, <1>6, <2>1
  <2>4. Whole([count |-> n, hash |-> g]) /\ HeadGrows(head, [count |-> n, hash |-> g])
    BY <1>3, <1>4, <1>6, <2>2, <2>3, SeenHeadGrows
  <2>5. s.pending = r.pending \cup {[chain |-> c, count |-> n, hash |-> g]}
    BY <1>3, <1>6, <1>7, <2>3 DEF NotesSeen, Notes
  <2> QED BY <1>3, <2>4, <2>5 DEF HeadIn
<1>8. CASE r.at = "sync" /\ Notes(r, s, Number(r), Signed(r).hash)
  <2>1. Signed(r).hash = Append(g, entries[c]) /\ entries[c] \in Nat
    BY <1>2, <1>3, <1>6 DEF Signed, ChainHash, Shapes, FolderType
  <2>2. PICK h \in Seq(Nat) : h = Append(g, entries[c])
    BY <2>1, AppendProperties
  <2>3. Len(h) = Len(g) + 1 /\ Grows(g, h)
    BY <1>5, <1>6, <2>1, <2>2, AppendProperties DEF Grows
  <2>4. PICK n \in Numbers : n = Number(r) /\ n = Len(h)
    BY <1>3, <1>5, <1>6, <2>3 DEF Number, Numbers
  <2>5. Whole([count |-> n, hash |-> h]) /\ HeadGrows(head, [count |-> n, hash |-> h])
    BY <1>3, <1>4, <1>6, <2>3, <2>4, SeenHeadGrows
  <2>6. s.pending = r.pending \cup {[chain |-> c, count |-> n, hash |-> h]}
    BY <1>8, <2>1, <2>2, <2>4 DEF Notes
  <2> QED BY <1>3, <2>5, <2>6 DEF HeadIn
<1> QED BY <1>7, <1>8

LEMMA MoveCallHeads ==
    ASSUME Shapes, FileHeads, NEW p, CallHeads(run[p]), NEW s, Moves(p, s), UNCHANGED heads
    PROVE  CallHeads(s)
<1> DEFINE r == run[p]
<1>1. p \in Runs /\ CallType(r) /\ CallType(s)
  BY DEF Shapes, RunType, Moves
<1>2. \A u \in s.pending : Whole(HeadIn(u)) /\ HeadGrows(heads[u.chain], HeadIn(u))
  <2>1. CASE NotesSeen(r, s) \/ (r.at = "sync" /\ Notes(r, s, Number(r), Signed(r).hash))
    <3>1. \A u \in s.pending : u \in r.pending \/ (Whole(HeadIn(u)) /\ HeadGrows(heads[u.chain], HeadIn(u)))
      BY <1>1, <2>1, NotedGrows
    <3> QED BY <3>1 DEF CallHeads
  <2>2. CASE s.pending \subseteq r.pending
    BY <2>2 DEF CallHeads
  <2> QED BY <2>1, <2>2 DEF Moves, Effect, Reads, Rests, Turns, SeesSeries, SeesHead, Signs, Loads, Creates,
             Writes, Syncs, Removes, Saves, Same, SameCall
<1>3. ASSUME s.at \in Saving, NEW c \in Chains PROVE Whole(s.next[c]) /\ HeadGrows(heads[c], s.next[c])
  <2>1. Loads(r, s)
    BY <1>3 DEF Moves, Effect, Reads, Rests, Turns, SeesSeries, SeesHead, Signs, NotesSeen, Notes, Creates,
             Writes, Syncs, Removes, Saves, Resting, Saving
  <2>2. s.next[c] = HeadOf(r, c)
    BY <2>1 DEF Loads
  <2>3. CASE \E u \in r.pending : u.chain = c
    <3> DEFINE v == CHOOSE u \in r.pending : u.chain = c
    <3>1. v \in r.pending /\ v.chain = c
      BY <2>3
    <3>2. HeadOf(r, c) = HeadIn(v)
      BY <2>3 DEF HeadOf, HeadIn
    <3> HIDE DEF v
    <3> QED BY <2>2, <3>1, <3>2 DEF CallHeads
  <2>4. CASE ~ \E u \in r.pending : u.chain = c
    <3>1. s.next[c] = heads[c] /\ heads[c] \in Heads \cup {None}
      BY <2>2, <2>4 DEF HeadOf, Shapes, HeadsType, HeadMaps
    <3> QED BY <3>1, HeadGrowsSelf DEF FileHeads
  <2> QED BY <2>3, <2>4
<1>4. CASE s.at \notin {"verify", "create", "write", "sync"}
  BY <1>2, <1>3, <1>4 DEF CallHeads
<1>5. CASE SeesSeries(r, s)
  BY <1>2, <1>3, <1>5 DEF CallHeads, SeesSeries, SameCall
<1>6. CASE SeesHead(r, s)
  BY <1>2, <1>3, <1>6 DEF CallHeads, SeesHead, Same, SameCall
<1>7. CASE Signs(r, s)
  <2>1. s.at = "create" /\ s.seen = r.seen /\ s.cursor = r.cursor /\ s.tracks = r.tracks /\ r.at = "verify"
    BY <1>7 DEF Signs, SameCall
  <2>2. HashLinked(r.seen)
    BY <1>7 DEF Signs, Good, SeriesVerifies, HashLinked
  <2>3. r.tracks => ~HeadProblem(r.seen, heads[r.cursor])
    BY <2>1 DEF CallHeads
  <2>4. s.at \notin Saving
    BY <2>1 DEF Saving
  <2> QED BY <1>2, <2>1, <2>2, <2>3, <2>4 DEF CallHeads
<1>8. CASE Creates(r, s) \/ Writes(r, s)
  <2>1. s.at \in {"write", "sync"} /\ s.seen = r.seen /\ s.cursor = r.cursor /\ s.tracks = r.tracks /\ r.at \in {"create", "write"}
    BY <1>8 DEF Creates, Writes, Same, SameCall
  <2>2. HashLinked(r.seen) /\ (r.tracks => ~HeadProblem(r.seen, heads[r.cursor]))
    BY <2>1 DEF CallHeads
  <2>3. s.at \notin Saving
    BY <2>1 DEF Saving
  <2> QED BY <1>2, <2>1, <2>2, <2>3 DEF CallHeads
<1>9. CASE Rests(r, s) \/ Turns(r, s) \/ NotesSeen(r, s) \/ Loads(r, s) \/ Syncs(r, s) \/ Removes(r, s) \/ Saves(r, s)
  BY <1>4, <1>9 DEF Rests, Turns, NotesSeen, Notes, Loads, Syncs, Removes, Saves, Resting, Saving
<1> QED BY <1>5, <1>6, <1>7, <1>8, <1>9 DEF Moves, Effect, Reads

LEMMA SavedHeads ==
    ASSUME Shapes, FileHeads, NEW p, CallHeads(run[p]), NEW s, Moves(p, s), Saves(run[p], s)
    PROVE  FileHeads' /\ CallHeads(s)' /\ \A c \in Chains : HeadsMove(c)
<1> DEFINE r == run[p]
<1>1. r.at \in Saving /\ CallType(r) /\ s.at \in Resting /\ s.pending = {}
  BY DEF Saves, Shapes, RunType, Moves
<1>2. \A c \in Chains : heads[c] \in Heads \cup {None} /\ kept[c] \in Heads \cup {None} /\ r.next[c] \in Heads \cup {None}
  BY <1>1 DEF CallType, Shapes, HeadsType, HeadMaps
<1>3. \A c \in Chains : HeadGrows(heads[c], r.next[c]) /\ Whole(r.next[c])
  BY <1>1 DEF CallHeads
<1>4. \A c \in Chains : HeadGrows(kept[c], heads[c]) /\ Whole(heads[c]) /\ Whole(kept[c])
  BY DEF FileHeads
<1>5. \A c \in Chains : HeadGrows(kept[c], r.next[c])
  BY <1>2, <1>3, <1>4, HeadGrowsOn
<1>6. \A c \in Chains : HeadGrows(heads[c], heads[c]) /\ HeadGrows(kept[c], kept[c]) /\ HeadGrows(r.next[c], r.next[c])
  BY <1>2, HeadGrowsSelf
<1>7. CallHeads(s)'
  BY <1>1 DEF CallHeads, Resting, Saving
<1>8. CASE heads' = r.next /\ kept' = r.next
  BY <1>3, <1>5, <1>6, <1>7, <1>8 DEF FileHeads, HeadsMove, HeadGrows, Whole
<1>9. CASE heads' \in {heads, r.next} /\ UNCHANGED kept
  BY <1>3, <1>4, <1>5, <1>6, <1>7, <1>9 DEF FileHeads, HeadsMove, HeadGrows, Whole
<1> QED BY <1>8, <1>9 DEF Saves

LEMMA HeadsInvStep ==
    ASSUME \A p, q \in Runs : p = q, HeadsInv, [Next]_vars
    PROVE  HeadsInv' /\ \A c \in Chains : HeadsMove(c)
<1> USE DEF HeadsInv
<1>1. Shapes' /\ Places'
  BY PlacesStep
<1>2. \A c \in Chains : heads[c] \in Heads \cup {None} /\ kept[c] \in Heads \cup {None}
  BY DEF Shapes, HeadsType, HeadMaps
<1>3. \A c \in Chains : HeadGrows(heads[c], heads[c]) /\ HeadGrows(kept[c], kept[c])
  BY <1>2, HeadGrowsSelf
<1>4. ASSUME UNCHANGED <<heads, kept>> PROVE FileHeads' /\ \A c \in Chains : HeadsMove(c)
  BY <1>3, <1>4 DEF FileHeads, HeadsMove, HeadGrows, Whole
<1>5. ASSUME UNCHANGED <<heads, kept, run>> PROVE HeadsInv' /\ \A c \in Chains : HeadsMove(c)
  <2>1. \A p \in Runs : CallHeads(run[p])'
    BY <1>5 DEF CallHeads, HeadProblem, HashLinked, HeadGrows, Whole, HeadIn
  <2> QED BY <1>1, <1>4, <1>5, <2>1
<1>6. ASSUME NEW p \in Runs, NEW s, Moves(p, s) PROVE HeadsInv' /\ \A c \in Chains : HeadsMove(c)
  <2>1. run'[p] = s
    BY <1>6, MovedRuns DEF Shapes
  <2>2. CASE Saves(run[p], s)
    <3>1. FileHeads' /\ CallHeads(s)' /\ \A c \in Chains : HeadsMove(c)
      BY <1>6, <2>2, SavedHeads
    <3>2. CallHeads(run[p])'
      BY <2>1, <3>1 DEF CallHeads, HeadProblem, HashLinked, HeadGrows, Whole, HeadIn
    <3> QED BY <1>1, <3>1, <3>2
  <2>3. CASE ~Saves(run[p], s)
    <3>1. UNCHANGED <<heads, kept>>
      BY <1>6, <2>3 DEF Moves, Effect, Creates, Writes, Syncs, Removes, fileVars
    <3>2. CallHeads(s)
      BY <1>6, <3>1, MoveCallHeads
    <3>3. CallHeads(run[p])'
      BY <2>1, <3>1, <3>2 DEF CallHeads, HeadProblem, HashLinked, HeadGrows, Whole, HeadIn
    <3> QED BY <1>1, <1>4, <3>1, <3>3
  <2> QED BY <2>2, <2>3
<1>7. CASE FolderMoves \/ Idles
  BY <1>5, <1>7 DEF FolderMoves, Idles, fileVars
<1>8. durable \subseteq FilesOf(series)
  BY DEF Places
<1>9. CASE PowerLoss
  <2>1. (\A p \in Runs : run'[p] = NoRun) /\ heads' \in {heads, kept} /\ kept' = heads'
    BY <1>8, <1>9, PowerLossTakes
  <2>2. \A p \in Runs : CallHeads(run[p])'
    BY <2>1 DEF CallHeads, NoRun, Saving
  <2>3. \A c \in Chains : HeadGrows(kept[c], heads[c]) /\ Whole(heads[c]) /\ Whole(kept[c])
    BY DEF FileHeads
  <2>4. CASE heads' = heads
    BY <1>1, <1>3, <2>1, <2>2, <2>3, <2>4 DEF FileHeads, HeadsMove, HeadGrows, Whole
  <2>5. CASE heads' = kept
    BY <1>1, <1>3, <2>1, <2>2, <2>3, <2>5 DEF FileHeads, HeadsMove, HeadGrows, Whole
  <2> QED BY <2>1, <2>4, <2>5
<1>10. ASSUME NEW c \in Chains, Restore(c) \/ RemoveTorn(c) PROVE HeadsInv' /\ \A d \in Chains : HeadsMove(d)
  BY <1>5, <1>8, <1>10, RestoreTakes, RemoveTornTakes
<1> QED BY <1>6, <1>7, <1>9, <1>10, Steps

LEMMA HeadsMoveExtends ==
    ASSUME HeadsInv, HeadsInv', NEW c \in Chains, HeadsMove(c)
    PROVE  Extends(kept[c], kept'[c]) /\ (heads' # kept => Extends(heads[c], heads'[c]))
<1>1. /\ heads[c] \in Heads \cup {None} /\ kept[c] \in Heads \cup {None}
      /\ heads'[c] \in Heads \cup {None} /\ kept'[c] \in Heads \cup {None}
  BY DEF HeadsInv, Shapes, HeadsType, HeadMaps
<1>2. Whole(heads[c]) /\ Whole(kept[c]) /\ Whole(heads'[c]) /\ Whole(kept'[c])
  BY DEF HeadsInv, FileHeads, Whole
<1> QED BY <1>1, <1>2, HeadGrowsExtends DEF HeadsMove

\* Whatever a checkpointing process meets - errors, kills, power losses, older
\* checkpoints put back, a clock set back - a head it records extends the one before
\* it: no series is restarted or forked behind a head.
THEOREM HeadsOnlyExtend == ASSUME \A p, q \in Runs : p = q PROVE Spec => HeadsExtend
<1>1. Init => HeadsInv
  <2> SUFFICES ASSUME Init PROVE HeadsInv
    OBVIOUS
  <2>1. Shapes /\ Places
    BY InitPlaces
  <2>2. FileHeads
    BY DEF Init, FileHeads, Whole, HeadGrows
  <2>3. \A p \in Runs : CallHeads(run[p])
    BY DEF Init, NoRun, CallHeads, Saving
  <2> QED BY <2>1, <2>2, <2>3 DEF HeadsInv
<1>2. HeadsInv /\ [Next]_vars => HeadsInv'
  BY HeadsInvStep
<1>3. HeadsInv /\ HeadsInv' /\ [Next]_vars =>
         [\A c \in Chains : /\ Extends(kept[c], kept'[c])
                            /\ heads' # kept => Extends(heads[c], heads'[c])]_vars
  BY HeadsInvStep, HeadsMoveExtends
<1> QED BY <1>1, <1>2, <1>3, PTL DEF Spec, HeadsExtend

=============================================================================
