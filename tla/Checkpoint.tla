----------------------------- MODULE Checkpoint -----------------------------
(***************************************************************************)
(* Sink.Checkpoint: signed checkpoints anchors/<chain>/NNNN.json over the  *)
(* chains of one sink folder, and the heads file kept outside it.          *)
(*                                                                         *)
(* A checkpointing process reads page by page under a SHARED lock of the   *)
(* evidence file: commits and erasures stay out of a page, other           *)
(* checkpointing processes and verifiers do not.  Heads are recorded when  *)
(* the batch is full and at the end of the run, with no lock at all.       *)
(***************************************************************************)
EXTENDS Naturals, Sequences, FiniteSets

CONSTANTS
    Chains,      \* chain ids, in the order ChainsAfter lists them
    Runs,        \* processes that checkpoint
    Tracking,    \* whether they are given heads (TrackHeads)
    HeadBatch,   \* headBatchSize
    None,
    Verifies,    \* whether a verifier reads the folder beside them
    FaultKinds,  \* the faults injected: "error", "kill", "power", "restore", "clock"
    MaxEntries,  \* bound: entries committed to a chain
    MaxFaults    \* bound: faults in one behaviour

ASSUME CheckpointAssumption ==
    /\ Chains \subseteq Nat \ {0}
    /\ Tracking \subseteq BOOLEAN /\ Verifies \in BOOLEAN
    /\ FaultKinds \subseteq {"error", "kill", "power", "restore", "clock"}
    /\ HeadBatch \in Nat \ {0}
    /\ MaxEntries \in Nat /\ MaxFaults \in Nat
    /\ None \notin [count : Nat, hash : Seq(Nat)]

VARIABLES
    entries,   \* per chain, how many entries it has
    index,     \* per chain, the index row: "live", "pending", or "gone"
    erasedAt,  \* per chain, the position of its erasure entry, 0 for none
    series,    \* per chain, the checkpoint files: number -> contents
    durable,   \* <<chain, number>>: the files synced by the process that made them
    heads,     \* the heads file: per chain [count, hash], or None
    kept,      \* the heads file that survives a power loss
    run,       \* per process, the Checkpoint call it is in
    look,      \* the verifier: the chain it is at, and whether it reported a cut series
    signed,    \* history: checkpoints signed so far
    clock,     \* the wall clock
    faults     \* faults left to inject

folderVars == <<entries, index, erasedAt>>
fileVars   == <<series, durable, heads, kept>>
vars == <<folderVars, fileVars, run, look, signed, clock, faults>>

\* A file created and not written yet.
Torn == [id |-> 0, previous |-> 0, covers |-> 0, hash |-> <<>>, made |-> 0, confirmed |-> FALSE]

NoRun == [at |-> "idle", serial |-> 0, made |-> 0, scope |-> {}, tracks |-> FALSE, confirmed |-> {}, cursor |-> 0,
          seen |-> <<>>, recorded |-> TRUE, pending |-> {}, next |-> <<>>]
NoLook == [at |-> "idle", chain |-> 0, seen |-> <<>>, cut |-> FALSE]

Init ==
    /\ entries = [c \in Chains |-> 0]
    /\ index = [c \in Chains |-> "gone"]
    /\ erasedAt = [c \in Chains |-> 0]
    /\ series = [c \in Chains |-> <<>>] /\ durable = {}
    /\ heads = [c \in Chains |-> None] /\ kept = heads
    /\ run = [p \in Runs |-> NoRun] /\ look = NoLook
    /\ signed = 0 /\ clock = 0 /\ faults = MaxFaults

Fault(kind) == kind \in FaultKinds /\ faults > 0 /\ faults' = faults - 1
NoFault     == UNCHANGED faults

-----------------------------------------------------------------------------
(* Writers: they need the exclusive lock, so no page is open. *)

InPage(p) == run[p].at \in {"next", "series", "head", "verify", "create", "write", "sync", "batch", "batchWrite"}
Exclusive == look.at = "idle" /\ \A p \in Runs : ~InPage(p)

Commit(c) ==
    /\ Exclusive /\ index[c] # "pending" /\ erasedAt[c] = 0 /\ entries[c] < MaxEntries
    /\ entries' = [entries EXCEPT ![c] = @ + 1]
    /\ index' = [index EXCEPT ![c] = "live"]
    /\ UNCHANGED <<erasedAt, fileVars, run, look, signed, clock, faults>>

\* An erasure, or a resume of one, appends the erasure entry if it is not there;
\* one that fails leaves the chain pending, before or after that.
EntryAppended(c) ==
    IF erasedAt[c] # 0 THEN UNCHANGED <<entries, erasedAt>>
    ELSE /\ entries' = [entries EXCEPT ![c] = @ + 1]
         /\ erasedAt' = [erasedAt EXCEPT ![c] = entries[c] + 1]

Erase(c) ==
    /\ Exclusive /\ index[c] # "gone"
    /\ \/ EntryAppended(c) /\ index' = [index EXCEPT ![c] = "gone"] /\ NoFault
       \/ /\ Fault("error") /\ index' = [index EXCEPT ![c] = "pending"]
          /\ EntryAppended(c) \/ UNCHANGED <<entries, erasedAt>>
    /\ UNCHANGED <<fileVars, run, look, signed, clock>>

-----------------------------------------------------------------------------
(* A series of checkpoints *)

\* readAnchors: 0001.json ... NNNN.json, no gap, each one a checkpoint.
WellFormed(f) ==
    /\ DOMAIN f = 1..Cardinality(DOMAIN f)
    /\ \A n \in DOMAIN f : f[n] # Torn

\* The checkpoint before the first: SeedAnchorID and SeedAnchorHash.
Seed == Torn
At(f, n) == IF n = 0 THEN Seed ELSE f[n]
Last(f)  == At(f, Len(f))

\* anchor.ChainHash: over the previous hash and the entries, which an append-only
\* chain's length stands for, and not over the checkpoint's own id or time.
ChainHash(previous, covers) == Append(previous.hash, covers)

\* verify.Series: each names the one before by id and by hash, covers more, was
\* made no earlier, and covers no more than the chain holds.
SeriesVerifies(f, total) ==
    \A n \in DOMAIN f :
        LET before == At(f, n - 1) IN
        /\ f[n].previous = before.id /\ f[n].hash = ChainHash(before, f[n].covers)
        /\ before.covers < f[n].covers /\ f[n].covers <= total
        /\ before.made <= f[n].made

Covered(f) == Last(f).covers

\* Mutant of HeadProblem: a series that was restarted and grew again is not noticed.
CutOnly(f, head) == head # None /\ Len(f) < head.count

\* headProblem: the series was cut or restarted.
HeadProblem(f, head) ==
    head # None /\ ~(head.count \in DOMAIN f /\ f[head.count].hash = head.hash)

\* Mutant of Recorded: a head behind its series is taken for recorded.
RecordedOnce(f, head) == Len(f) = 0 \/ head # None

Recorded(f, head) == Len(f) = 0 \/ (head # None /\ head.count = Len(f))

-----------------------------------------------------------------------------
(* One call *)

Update(p, r) == run' = [run EXCEPT ![p] = r]

\* The caller passes the erasures it made (ConfirmErasures), vouches for them, or
\* trusts the key that signed their records, and checkpoints every chain or only
\* those.
Start(p, scope, confirmed, tracks) ==
    /\ run[p].at = "idle"
    /\ Update(p, [NoRun EXCEPT !.at = "gap", !.scope = scope, !.confirmed = confirmed, !.tracks = tracks])
    /\ UNCHANGED <<folderVars, fileVars, look, signed, clock, faults>>

StartAny(p) ==
    \E confirmed \in SUBSET {c \in Chains : erasedAt[c] # 0}, tracks \in Tracking :
        \E scope \in {Chains, confirmed} : Start(p, scope, confirmed, tracks)

\* An error ends the call; the heads pending are still recorded.
Fails(p, r) == Update(p, [r EXCEPT !.at = "flush"])

\* A chain done, or skipped with a Problem: the next one, or the page ends.
ChainDone(p, r) == \E at \in {"next", "gap"} : Update(p, [r EXCEPT !.at = at])

OpenPage(p) ==
    /\ run[p].at = "gap"
    /\ \/ NoFault /\ Update(p, [run[p] EXCEPT !.at = "next"])
       \/ Fault("error") /\ Fails(p, run[p])
    /\ UNCHANGED <<folderVars, fileVars, look, signed, clock>>

NextChain(p) ==
    LET r == run[p]
        left == {c \in r.scope : c > r.cursor /\ entries[c] > 0} IN
    /\ r.at = "next"
    /\ \/ left = {} /\ Update(p, [r EXCEPT !.at = "flush"])
       \/ \E c \in left : /\ \A d \in left : c <= d
                          /\ Update(p, [r EXCEPT !.cursor = c, !.at = "series"])
    /\ UNCHANGED <<folderVars, fileVars, look, signed, clock, faults>>

\* Nothing new since the last checkpoint is known from the tail alone.
Sized(p, r) ==
    IF r.seen # <<>> /\ Covered(r.seen) = entries[r.cursor] /\ r.recorded
    THEN ChainDone(p, r) ELSE Update(p, [r EXCEPT !.at = "verify"])

ReadSeries(p) ==
    LET r == run[p]
        f == series[r.cursor]
        read == [r EXCEPT !.seen = f, !.recorded = TRUE] IN
    /\ r.at = "series"
    /\ \/ ~WellFormed(f) /\ NoFault /\ ChainDone(p, r)
       \/ WellFormed(f) /\ r.tracks /\ NoFault /\ Update(p, [read EXCEPT !.at = "head"])
       \/ WellFormed(f) /\ ~r.tracks /\ NoFault /\ Sized(p, read)
       \/ Fault("error") /\ Fails(p, r)
    /\ UNCHANGED <<folderVars, fileVars, look, signed, clock>>

\* The recorded head, before anything else: a series that was cut back has "new"
\* entries to sign, and signing them is the restart.
ReadHead(p) ==
    LET r == run[p]
        head == heads[r.cursor] IN
    /\ r.at = "head"
    /\ \/ HeadProblem(r.seen, head) /\ NoFault /\ ChainDone(p, r)
       \/ /\ ~HeadProblem(r.seen, head) /\ NoFault
          /\ Sized(p, [r EXCEPT !.recorded = Recorded(r.seen, head)])
       \/ Fault("error") /\ Fails(p, r)
    /\ UNCHANGED <<folderVars, fileVars, look, signed, clock>>

\* Mutant of Unconfirmed: a chain with a checkpoint needs no confirmation.
UnconfirmedFirst(c, f, confirmed) == index[c] = "gone" /\ f = <<>> /\ c \notin confirmed

\* IndexErasedUnanchored, and nothing shows who made the erasure.
Unconfirmed(c, f, confirmed) == index[c] = "gone" /\ Covered(f) # entries[c] /\ c \notin confirmed

\* headRecorder.add, which writes when the batch is full.
Added(p, r, count, hash) ==
    LET added == [r EXCEPT !.pending = @ \cup {[chain |-> r.cursor, count |-> count, hash |-> hash]}] IN
    IF ~r.tracks THEN ChainDone(p, r)
    ELSE IF Cardinality(added.pending) >= HeadBatch THEN Update(p, [added EXCEPT !.at = "batch"])
    ELSE ChainDone(p, added)

\* verifyChain reads the series again; then the walk with the series read first.
VerifyChain(p) ==
    LET r == run[p]
        c == r.cursor
        f == series[c]
        good == /\ WellFormed(f) /\ SeriesVerifies(f, entries[c]) /\ index[c] # "pending"
                /\ ~Unconfirmed(c, f, r.confirmed) /\ SeriesVerifies(r.seen, entries[c]) IN
    /\ r.at = "verify"
    /\ \/ ~good /\ NoFault /\ ChainDone(p, r) /\ UNCHANGED signed
       \/ /\ good /\ r.seen # <<>> /\ Covered(r.seen) = entries[c] /\ NoFault
          /\ IF r.recorded THEN ChainDone(p, r) ELSE Added(p, r, Len(r.seen), Last(r.seen).hash)
          /\ UNCHANGED signed
       \/ /\ good /\ Covered(r.seen) # entries[c] /\ NoFault
          /\ Update(p, [r EXCEPT !.at = "create", !.serial = signed + 1, !.made = clock]) /\ signed' = signed + 1
       \/ Fault("error") /\ Fails(p, r) /\ UNCHANGED signed      \* a read, or the signer
    /\ UNCHANGED <<folderVars, fileVars, look, clock>>

-----------------------------------------------------------------------------
(* writeNew *)

\* Mutant of Signed: the previous checkpoint is not linked.
SignedAlone(r) ==
    [id |-> r.serial, previous |-> Seed.id, covers |-> entries[r.cursor],
     hash |-> ChainHash(Seed, entries[r.cursor]),
     made |-> r.made, confirmed |-> r.cursor \in r.confirmed]

\* The checkpoint the call signs: over the whole chain, linked to the last it read.
Signed(r) ==
    [id |-> r.serial, previous |-> Last(r.seen).id, covers |-> entries[r.cursor],
     hash |-> ChainHash(Last(r.seen), entries[r.cursor]),
     made |-> r.made, confirmed |-> r.cursor \in r.confirmed]

Number(r) == Len(r.seen) + 1
File(f, n, a) == [m \in DOMAIN f \cup {n} |-> IF m = n THEN a ELSE f[m]]
Without(f, n) == [m \in DOMAIN f \ {n} |-> f[m]]
SetFile(r, f) == series' = [series EXCEPT ![r.cursor] = f]

\* Mutant of Taken: the file is opened without O_EXCL.
TakenNever(c, n) == FALSE

Taken(c, n) == n \in DOMAIN series[c]

\* O_CREATE|O_EXCL, after the chain's directory.
Create(p) ==
    LET r == run[p]
        c == r.cursor IN
    /\ r.at = "create"
    /\ \/ Taken(c, Number(r)) /\ NoFault /\ Fails(p, r) /\ UNCHANGED series
       \/ /\ ~Taken(c, Number(r)) /\ NoFault
          /\ SetFile(r, File(series[c], Number(r), Torn))
          /\ Update(p, [r EXCEPT !.at = "write"])
       \/ Fault("error") /\ Fails(p, r) /\ UNCHANGED series
    /\ UNCHANGED <<folderVars, durable, heads, kept, look, signed, clock>>

\* After an error the file is removed, or its removal fails too.
WriteFails(p, r) ==
    /\ Fault("error") /\ Fails(p, r)
    /\ \/ SetFile(r, Without(series[r.cursor], Number(r)))
       \/ UNCHANGED series

WriteFile(p) ==
    LET r == run[p] IN
    /\ r.at = "write"
    /\ \/ /\ SetFile(r, File(series[r.cursor], Number(r), Signed(r))) /\ NoFault
          /\ Update(p, [r EXCEPT !.at = "sync"])
       \/ WriteFails(p, r)
    /\ UNCHANGED <<folderVars, durable, heads, kept, look, signed, clock>>

AfterSync(p, r) == Added(p, r, Number(r), Signed(r).hash)

\* The file, then its directory; the file stays when only the latter fails.
SyncFile(p) ==
    LET r == run[p] IN
    /\ r.at = "sync"
    /\ \/ /\ durable' = durable \cup {<<r.cursor, Number(r)>>} /\ NoFault
          /\ AfterSync(p, r) /\ UNCHANGED series
       \/ WriteFails(p, r) /\ UNCHANGED durable
    /\ UNCHANGED <<folderVars, heads, kept, look, signed, clock>>

-----------------------------------------------------------------------------
(* HeadsFile.setHeads: read the file, then replace it as a whole.           *)

\* A head only grows.
Backwards(u) ==
    LET old == heads[u.chain] IN
    old # None /\ (old.count > u.count \/ (old.count = u.count /\ old.hash # u.hash))

\* Where a flush goes on: a full batch back to its page, the last one to the return.
Flushed(p, r, ok) ==
    LET done == [r EXCEPT !.pending = {}, !.next = <<>>] IN
    CASE r.at \in {"batch", "batchWrite"} -> IF ok THEN ChainDone(p, done) ELSE Fails(p, done)
      [] OTHER -> Update(p, NoRun)

LoadHeads(p) ==
    LET r == run[p]
        next == [c \in Chains |->
                    IF \E u \in r.pending : u.chain = c
                    THEN LET u == CHOOSE u \in r.pending : u.chain = c
                         IN  [count |-> u.count, hash |-> u.hash]
                    ELSE heads[c]] IN
    /\ r.at \in {"batch", "flush"}
    /\ \/ r.pending = {} /\ NoFault /\ Flushed(p, r, TRUE)
       \/ r.pending # {} /\ (\E u \in r.pending : Backwards(u)) /\ NoFault /\ Flushed(p, r, FALSE)
       \/ /\ r.pending # {} /\ (\A u \in r.pending : ~Backwards(u)) /\ NoFault
          /\ Update(p, [r EXCEPT !.next = next, !.at = IF r.at = "batch" THEN "batchWrite" ELSE "flushWrite"])
       \/ r.pending # {} /\ Fault("error") /\ Flushed(p, r, FALSE)
    /\ UNCHANGED <<folderVars, fileVars, look, signed, clock>>

\* Temporary file, sync, rename, sync of the folder: an error after the rename
\* leaves the new heads.
WriteHeads(p) ==
    LET r == run[p] IN
    /\ r.at \in {"batchWrite", "flushWrite"}
    /\ \/ heads' = r.next /\ kept' = r.next /\ NoFault /\ Flushed(p, r, TRUE)
       \/ heads' \in {heads, r.next} /\ UNCHANGED kept /\ Fault("error") /\ Flushed(p, r, FALSE)
    /\ UNCHANGED <<folderVars, series, durable, look, signed, clock>>

-----------------------------------------------------------------------------
(* A verifier with heads: one chain under one hold of the shared lock. *)

Idle == look.at = "idle"

VerifySeries(c) ==
    /\ Verifies /\ Idle /\ ~look.cut /\ entries[c] > 0
    /\ WellFormed(series[c])
    /\ look' = [at |-> "head", chain |-> c, seen |-> series[c], cut |-> FALSE]
    /\ UNCHANGED <<folderVars, fileVars, run, signed, clock, faults>>

VerifyHead ==
    /\ look.at = "head"
    /\ look' = [NoLook EXCEPT !.cut = HeadProblem(look.seen, heads[look.chain])]
    /\ UNCHANGED <<folderVars, fileVars, run, signed, clock, faults>>

-----------------------------------------------------------------------------
(* The environment *)

\* A process dies; what it wrote stays in the page cache.
Kill(p) ==
    /\ run[p].at # "idle" /\ Fault("kill")
    /\ Update(p, NoRun)
    /\ UNCHANGED <<folderVars, fileVars, look, signed, clock>>

FilesOf(s) == UNION {{<<c, n>> : n \in DOMAIN s[c]} : c \in Chains}

\* Every process dies; any file not synced is lost, or empty, or there, and a heads
\* file whose folder was not synced may be the one before it.
PowerLoss ==
    /\ Fault("power")
    /\ run' = [p \in Runs |-> NoRun] /\ look' = NoLook
    /\ \E lost, torn \in SUBSET (FilesOf(series) \ durable) :
          series' = [c \in Chains |->
                       [n \in {m \in DOMAIN series[c] : <<c, m>> \notin lost} |->
                           IF <<c, n>> \in torn THEN Torn ELSE series[c][n]]]
    /\ durable' = FilesOf(series')
    /\ heads' \in {heads, kept} /\ kept' = heads'
    /\ UNCHANGED <<folderVars, signed, clock>>

\* An older copy of a chain's checkpoints is put back.
Restore(c) ==
    /\ Fault("restore") /\ \A p \in Runs : run[p].at = "idle"
    /\ WellFormed(series[c])
    /\ \E n \in 0..(Len(series[c]) - 1) :
          /\ series' = [series EXCEPT ![c] = SubSeq(@, 1, n)]
          /\ durable' = {x \in durable : x[1] # c \/ x[2] <= n}
    /\ UNCHANGED <<folderVars, heads, kept, run, look, signed, clock>>

\* Time passes, or the wall clock is set back.
Tick ==
    /\ "clock" \in FaultKinds /\ clock = 0 /\ clock' = 1
    /\ UNCHANGED <<folderVars, fileVars, run, look, signed, faults>>

ClockBack ==
    /\ Fault("clock") /\ clock = 1 /\ clock' = 0
    /\ UNCHANGED <<folderVars, fileVars, run, look, signed>>

\* The operator deletes a file that holds no checkpoint, with no run in progress.
RemoveTorn(c) ==
    /\ \A p \in Runs : run[p].at = "idle"
    /\ \E n \in DOMAIN series[c] :
          /\ series[c][n] = Torn
          /\ series' = [series EXCEPT ![c] = Without(@, n)]
          /\ durable' = durable \ {<<c, n>>}
    /\ UNCHANGED <<folderVars, heads, kept, run, look, signed, clock, faults>>

-----------------------------------------------------------------------------

Step(p) ==
    \/ OpenPage(p) \/ NextChain(p) \/ ReadSeries(p) \/ ReadHead(p) \/ VerifyChain(p)
    \/ Create(p) \/ WriteFile(p) \/ SyncFile(p) \/ LoadHeads(p) \/ WriteHeads(p)

Next ==
    \/ \E p \in Runs : StartAny(p) \/ Step(p) \/ Kill(p)
    \/ \E c \in Chains : Commit(c) \/ Erase(c) \/ Restore(c) \/ RemoveTorn(c) \/ VerifySeries(c)
    \/ VerifyHead \/ PowerLoss \/ Tick \/ ClockBack

Spec == Init /\ [][Next]_vars

\* Every chain, with the heads and with the erasures of the operator confirmed.
FullRun(p) == Start(p, Chains, {c \in Chains : erasedAt[c] # 0}, TRUE)

\* Runs go on, erasures that failed are resumed, files that are no checkpoint are
\* deleted, and full runs are made again and again, whatever others are made.
LiveSpec ==
    /\ Spec
    /\ \A p \in Runs : WF_vars(Step(p)) /\ SF_vars(FullRun(p))
    /\ \A c \in Chains : SF_vars(RemoveTorn(c)) /\ SF_vars(index[c] = "pending" /\ Erase(c))

-----------------------------------------------------------------------------
(* Properties *)

(* The checkpoint files, the heads file and what a run of Checkpoint keeps
   between its steps have the shapes the code gives them. *)
TypeOK ==
    /\ entries \in [Chains -> Nat] /\ erasedAt \in [Chains -> Nat]
    /\ index \in [Chains -> {"live", "pending", "gone"}]
    /\ \A c \in Chains : DOMAIN series[c] \subseteq Nat \ {0}
    /\ \A c \in Chains : heads[c] = None \/ heads[c].count \in Nat \ {0}
    /\ \A p \in Runs : run[p].cursor \in Chains \cup {0}
    /\ faults \in Nat /\ signed \in Nat /\ clock \in {0, 1}

\* Whatever runs side by side or dies, a series runs 1..n, is linked, grows, and
\* covers no more than its chain; only its last file can be one that is not a
\* checkpoint.
SeriesSound ==
    \A c \in Chains :
        LET f == series[c]
            n == Cardinality(DOMAIN f) IN
        /\ DOMAIN f = 1..n
        /\ \A m \in 1..(n - 1) : f[m] # Torn
        /\ SeriesVerifies([m \in {m \in 1..n : f[m] # Torn} |-> f[m]], entries[c])

\* A checkpoint that is on the disk stays as it is.
CheckpointsKept ==
    [][\A x \in durable :
          LET a == series[x[1]][x[2]] IN
          a # Torn => x[2] \in DOMAIN series'[x[1]] /\ series'[x[1]][x[2]] = a]_vars

\* A recorded head is only ever replaced by the head of a series that extends it,
\* also when older checkpoints were put back: no series is restarted or forked
\* behind a head.  A power loss may bring back the head that was on the disk.
Extends(old, new) ==
    old # None => /\ new # None /\ old.count <= new.count
                  /\ SubSeq(new.hash, 1, old.count) = old.hash
HeadsExtend ==
    [][\A c \in Chains : /\ Extends(kept[c], kept'[c])
                         /\ heads' # kept => Extends(heads[c], heads'[c])]_vars

\* A recorded head names a checkpoint of its series: with nothing taken away, no
\* run and no verifier finds the series cut.
HeadsBehind == \A c \in Chains : ~HeadProblem(series[c], heads[c])

\* A checkpoint that covers an erasure was made by a call that was told of it.
ErasureConfirmed ==
    \A c \in Chains : \A n \in DOMAIN series[c] :
        erasedAt[c] # 0 /\ series[c][n].covers >= erasedAt[c] => series[c][n].confirmed

\* What the sink signs, it verifies (Checkpoint: "Nothing is signed that Verify
\* would not pass").
SignedVerifies == \A c \in Chains : WellFormed(series[c]) => SeriesVerifies(series[c], entries[c])

\* A recorded head names checkpoints that survive a power loss (SetHead: "The
\* checkpoint the head names is already durable").
HeadsNameDurable ==
    \A c \in Chains : heads[c] # None => \A n \in 1..heads[c].count : <<c, n>> \in durable

\* Every chain ends up covered by a checkpoint to its last entry, and that
\* checkpoint recorded as its head.
Caught(c) ==
    /\ WellFormed(series[c]) /\ series[c] # <<>> /\ Covered(series[c]) = entries[c]
    /\ heads[c] # None /\ heads[c].count = Len(series[c])
CatchesUp == \A c \in Chains : entries[c] > 0 ~> Caught(c)

\* A verifier reports a cut series only when one was cut.
VerdictConsistent == ~look.cut

\* Series stay sound and no head runs ahead of its series, whoever checkpoints.
SeriesInv == TypeOK /\ SeriesSound /\ HeadsBehind

=============================================================================
