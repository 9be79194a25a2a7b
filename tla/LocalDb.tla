------------------------------ MODULE LocalDb -------------------------------
(***************************************************************************)
(* One chain of an evidence database and the programs that share its file: *)
(* MCP servers with their commit tool, and the commands proof commit,      *)
(* import, disclose and forget.  Each opens the file for one call and      *)
(* holds its lock until the call ends.  Beside the database is the nonce   *)
(* file (NonceFile).  linker.Append is taken by what it returns: entries   *)
(* written and the head saved, entries written and the head not, nothing   *)
(* written, or (Landed) an error although they were written.               *)
(***************************************************************************)
EXTENDS NonceFile, Integers, Sequences, SequencesExt, FiniteSetsExt

CONSTANTS
    McpIds,     \* entry ids the servers draw, each once
    OtherIds,   \* ids of nonces another caller of noncestore stores, each once
    Calls,      \* commit tool calls: sequences of BOOLEAN, whether an entry is salted
    Inputs,     \* stdin of proof commit: sequences of entry ids, which are arrival times, or 0
    Targets,    \* entry ids that disclose and forget are asked for
    Elsewhere,  \* what chains made elsewhere go on with: sequences of entry ids
    commitBatch, maxCommitEntries,
    maxDB,      \* --max-db-bytes, with an entry as the unit
    MaxSeq,     \* bound: the highest position
    Landed      \* whether an append may report an error after it reached the disk

\* Ids that servers draw, and those of another caller's nonces, are nobody else's.
ASSUME LocalAssumption ==
    /\ commitBatch \in Nat \ {0} /\ maxDB \in Nat \ {0} /\ MaxSeq \in Nat /\ MaxFaults \in Nat
    /\ Landed \in BOOLEAN
    /\ maxCommitEntries \in Nat
    /\ \A c \in Calls : c \in Seq(BOOLEAN) /\ c # <<>> /\ Len(c) <= maxCommitEntries
    /\ IsFiniteSet(Procs) /\ None \notin Procs \cup {"current"}
    /\ None \notin [live : SUBSET Nat, free : SUBSET Nat]
    /\ IsFiniteSet(McpIds) /\ McpIds \cup OtherIds \subseteq Nat /\ OtherIds \cap McpIds = {}
    /\ \A i \in Inputs \cup Elsewhere :
          i \in Seq(Nat) /\ ToSet(i) \cap (McpIds \cup OtherIds) = {}

VARIABLES
    rows,    \* the entries, by global_seq
    head,    \* the saved head state: an entry's chain hash, or None
    dblock,  \* the process that holds the database's lock, or None
    at,      \* per process, the step it is at
    job,     \* per process, what it works on
    drawn,   \* ids drawn so far
    kept,    \* ids of the nonces whose storing was acknowledged
    asked,   \* ids a forget has set out to delete
    forgot   \* ids of which a forget said that no nonce is stored

dbVars   == <<rows, head, dblock>>
told     == <<drawn, kept, asked, forgot>>
localVars == <<nonceVars, faults, dbVars, at, job, told>>

NoJob == [ids |-> <<>>, salted |-> {}, prev |-> <<>>, done |-> 0, ok |-> FALSE, first |-> 0]

LocalInit ==
    /\ NonceInit
    /\ rows = <<>> /\ head = None /\ dblock = None
    /\ at = [p \in Procs |-> "idle"] /\ job = [p \in Procs |-> NoJob]
    /\ drawn = {} /\ kept = {} /\ asked = {} /\ forgot = {}

-----------------------------------------------------------------------------
(* The chain.  A chain hash is the sequence of the ids of every entry up to *)
(* its own, so an entry's global_seq is the length of its previous hash.    *)

HashOf(e) == Append(e.prev, e.id)
Seqs      == DOMAIN rows
OnChain   == {rows[s].id : s \in Seqs}
TailSeq   == CHOOSE s \in Seqs : \A t \in Seqs : t <= s

\* continuation: the saved head is not asked.
TailHash == IF Seqs = {} THEN <<>> ELSE HashOf(rows[TailSeq])
NextSeq  == IF Seqs = {} THEN 0 ELSE TailSeq + 1

\* A batch in arrival order, which is the linker's (sortInputs).  Its ids differ.
InOrder(ids) == [k \in 1..Cardinality(ids) |->
                    CHOOSE d \in ids : Cardinality({e \in ids : e < d}) = k - 1]

\* link, for entries in order from a previous hash.
Linked(seq, prev, ids, salted, by) ==
    [s \in seq .. seq + Len(ids) - 1 |->
        [id |-> ids[s - seq + 1], prev |-> prev \o SubSeq(ids, 1, s - seq),
         salted |-> ids[s - seq + 1] \in salted, by |-> by]]

\* WriteBatch replaces what is at a position.
WriteBatch(new) == rows' = [s \in Seqs \cup DOMAIN new |-> IF s \in DOMAIN new THEN new[s] ELSE rows[s]]

\* What linker.Append may do with ids, sorted by arrival: the outcomes "ok" (also
\* when the head was not saved), "failed", and "landed".
Appended(ids, salted, by) ==
    LET sorted == InOrder(ToSet(ids)) IN
    /\ WriteBatch(Linked(NextSeq, TailHash, sorted, salted, by))
    /\ \/ head' = TailHash \o sorted /\ UNCHANGED faults
       \/ Fault /\ UNCHANGED head
AppendFails == Fault /\ UNCHANGED <<rows, head>>
AppendLands(ids, salted, by) ==
    /\ Landed /\ Fault /\ UNCHANGED head
    /\ WriteBatch(Linked(NextSeq, TailHash, InOrder(ToSet(ids)), salted, by))

Room(ids) == NextSeq + Len(ids) - 1 <= MaxSeq   \* bound

-----------------------------------------------------------------------------
(* Steps of a process *)

Goto(p, l) == at' = [at EXCEPT ![p] = l]
OpenDb(p)  == dblock = None /\ dblock' = p
CloseDb(p) == dblock' = IF dblock = p THEN None ELSE dblock

\* The call ends with an answer; the database is closed once it is given.
Answer(p, j, n, ok) ==
    /\ Goto(p, "answer")
    /\ job' = [job EXCEPT ![p] = [j EXCEPT !.done = n, !.ok = ok]]

\* A read-only open waits for the holder of the lock, and fails after a while.
CanRead == dblock = None

-----------------------------------------------------------------------------
(* proof-mcp *)

\* parseFlags opens and closes both files, which creates the nonce file.
Launch(p) ==
    /\ at[p] = "idle" /\ dblock = None /\ nlock.ex = None /\ nlock.sh = {}
    /\ nfile' = IF nfile = None THEN [live |-> {}, free |-> {}] ELSE nfile
    /\ Goto(p, "ready")
    /\ UNCHANGED <<nlock, handle, copy, left, faults, dbVars, job, told>>

\* checkDBQuota, before the database is opened.
OverQuota == Cardinality(Seqs) >= maxDB

\* newEntryID: ids no entry has.
NewIds(n) == SubSeq(InOrder(McpIds \ drawn), 1, n)

\* prepare: an id for every entry, and a nonce for those that came with content.
Prepared(c, ids) == [NoJob EXCEPT !.ids = ids, !.salted = {ids[i] : i \in {k \in DOMAIN c : c[k]}}]

\* commitTool up to the database.
McpCall(p) ==
    /\ at[p] = "ready" /\ ~OverQuota
    /\ \E c \in Calls :
          LET ids == NewIds(Len(c)) IN
          /\ Len(c) <= Cardinality(McpIds \ drawn)
          /\ drawn' = drawn \cup ToSet(ids)
          /\ job' = [job EXCEPT ![p] = Prepared(c, ids)]
    /\ Goto(p, "mcp.open")
    /\ UNCHANGED <<nonceVars, faults, dbVars, kept, asked, forgot>>

\* Mutant of AfterOpen: the entries are appended first.
AfterOpenAppend(j) == "mcp.append"

\* The nonces are stored before the append.
AfterOpen(j) == IF j.salted = {} THEN "mcp.append" ELSE "mcp.nonces"

McpOpen(p) ==
    /\ at[p] = "mcp.open"
    /\ \/ Room(job[p].ids) /\ OpenDb(p) /\ Goto(p, AfterOpen(job[p]))
          /\ job' = [job EXCEPT ![p].first = NextSeq]
       \/ /\ dblock # None \/ ~Room(job[p].ids)
          /\ Goto(p, "ready") /\ job' = [job EXCEPT ![p] = NoJob] /\ UNCHANGED dblock
    /\ UNCHANGED <<nonceVars, faults, rows, head, told>>

\* storeNonces: the nonce file is opened ...
McpNonces(p) ==
    /\ at[p] = "mcp.nonces"
    /\ \/ Open(p) /\ Goto(p, "mcp.put") /\ UNCHANGED <<job, faults>>
       \/ CannotOpen(p) /\ Answer(p, job[p], 0, FALSE) /\ UNCHANGED nonceVars
    /\ UNCHANGED <<dbVars, told>>

\* ... and written.  A failed PutBatch may have landed.
McpPut(p) ==
    /\ at[p] = "mcp.put"
    /\ \/ /\ PutBatch(p, job[p].salted)
          /\ kept' = kept \cup job[p].salted
          /\ Goto(p, "mcp.append") /\ UNCHANGED <<job, faults>>
       \/ /\ Fault
          /\ (PutBatch(p, job[p].salted) \/ PutBatch(p, {}))
          /\ Answer(p, job[p], 0, FALSE) /\ UNCHANGED kept
    /\ UNCHANGED <<dbVars, drawn, asked, forgot>>

\* The append.  After an error the nonces are taken back.
McpAppend(p) ==
    LET j == job[p] IN
    /\ at[p] = "mcp.append"
    /\ \/ Appended(j.ids, j.salted, "mcp") /\ Answer(p, j, Len(j.ids), TRUE)
       \/ /\ AppendFails \/ AppendLands(j.ids, j.salted, "mcp")
          /\ IF j.salted = {} THEN Answer(p, j, 0, FALSE)
             ELSE Goto(p, "mcp.forget") /\ UNCHANGED job
    /\ UNCHANGED <<nonceVars, dblock, told>>

\* forgetNonces, best effort: an open that fails ends it.
McpForget(p) ==
    /\ at[p] = "mcp.forget"
    /\ \/ Open(p) /\ Goto(p, "mcp.delete") /\ UNCHANGED <<job, faults>>
       \/ CannotOpen(p) /\ Answer(p, job[p], 0, FALSE) /\ UNCHANGED nonceVars
    /\ UNCHANGED <<dbVars, told>>

\* One transaction for each nonce, errors ignored.
McpDelete(p) ==
    /\ at[p] = "mcp.delete"
    /\ \/ DeleteAll(p, job[p].salted) /\ UNCHANGED faults
       \/ Fault /\ \E ids \in SUBSET job[p].salted : DeleteAll(p, ids)
    /\ kept' = kept \ job[p].salted
    /\ Answer(p, job[p], 0, FALSE)
    /\ UNCHANGED <<dbVars, drawn, asked, forgot>>

-----------------------------------------------------------------------------
(* proof commit *)

\* toLinkerInput: 0 stands for a line that is not an entry to be committed.
WellFormed(id) == id # 0

\* readAppendInputs: every line is read first; an id given twice is refused.
Readable(ids) == ids # <<>> /\ IsInjective(ids) /\ \A i \in DOMAIN ids : WellFormed(ids[i])

\* Mutant of Ordered: only the linker sorts, batch by batch.
OrderedAsRead(ids) == ids

\* appendBatched sorts all inputs once.
Ordered(ids) == InOrder(ToSet(ids))

\* heldEntryID
Held(ids) == ToSet(ids) \cap OnChain # {}

\* cmdCommit up to its first batch.
CliCommit(p) ==
    /\ at[p] = "idle" /\ OpenDb(p)
    /\ \E ids \in Inputs :
          LET j == [NoJob EXCEPT !.ids = Ordered(ids), !.first = NextSeq] IN
          /\ Readable(ids) /\ Room(ids)
          /\ IF Held(ids) THEN Answer(p, [j EXCEPT !.ids = <<>>], 0, FALSE)
             ELSE Goto(p, "cli.append") /\ job' = [job EXCEPT ![p] = j]
    /\ UNCHANGED <<nonceVars, faults, rows, head, told>>

NextBatch(j) == SubSeq(j.ids, j.done + 1, Min({j.done + commitBatch, Len(j.ids)}))

\* One batch of appendBatched.  A chain still leased (a release that failed)
\* is one of the errors.
CliAppend(p) ==
    LET j == job[p] b == NextBatch(j) n == j.done + Len(b) IN
    /\ at[p] = "cli.append"
    /\ \/ /\ Appended(b, {}, "cli")
          /\ IF n >= Len(j.ids) THEN Answer(p, j, n, TRUE)
             ELSE job' = [job EXCEPT ![p].done = n] /\ UNCHANGED at
       \/ (AppendFails \/ AppendLands(b, {}, "cli")) /\ Answer(p, j, j.done, FALSE)
    /\ UNCHANGED <<nonceVars, dblock, told>>

-----------------------------------------------------------------------------
(* proof import *)

\* Exported chains and segments of them, which verify: chains made elsewhere share
\* some of this chain's history, or none, and may go on with entries of their own.
Histories == {SubSeq(TailHash, 1, n) \o e : n \in 0 .. Len(TailHash), e \in Elsewhere \cup {<<>>}}
Segments  == UNION {{[prev |-> SubSeq(h, 1, n), ids |-> SubSeq(h, n + 1, Len(h))] :
                        n \in 0 .. Len(h) - 1} : h \in Histories}

\* refuseOccupiedRange
Occupied(s) == \E q \in Len(s.prev) .. Len(s.prev) + Len(s.ids) - 1 : q \in Seqs

\* Mutant of Detached: a free range is enough.
DetachedNever(s) == FALSE

\* refuseDetachedImport
Detached(s) == Seqs # {} /\ (Len(s.prev) # TailSeq + 1 \/ s.prev # TailHash)

\* cmdImport: verified entries are written as they are.  Its calls are made under
\* the database's lock and the chain's lease, and only the write and the head
\* have an effect.
CliImport(p) ==
    /\ at[p] = "idle" /\ dblock = None
    /\ \E s \in Segments :
          /\ Len(s.prev) + Len(s.ids) - 1 <= MaxSeq
          /\ ~Occupied(s) /\ ~Detached(s)
          /\ WriteBatch(Linked(Len(s.prev), s.prev, s.ids, {}, "import"))
          /\ \/ head' = s.prev \o s.ids /\ UNCHANGED faults
             \/ Fault /\ UNCHANGED head
    /\ UNCHANGED <<nonceVars, dblock, at, job, told>>

-----------------------------------------------------------------------------
(* proof disclose *)

\* The chain is read under a shared lock of the database that ends before the
\* nonce file is opened.
DiscloseRead(p, id) ==
    /\ at[p] = "idle" /\ CanRead /\ id \in OnChain /\ nfile # None
    /\ Goto(p, "disclose") /\ job' = [job EXCEPT ![p] = [NoJob EXCEPT !.ids = <<id>>]]
    /\ UNCHANGED <<nonceVars, faults, dbVars, told>>

DiscloseOpen(p) ==
    /\ at[p] = "disclose"
    /\ \/ OpenReadOnly(p) /\ Goto(p, "disclose.get") /\ UNCHANGED <<job, faults>>
       \/ /\ CannotOpen(p) /\ Goto(p, "idle")
          /\ job' = [job EXCEPT ![p] = NoJob] /\ UNCHANGED nonceVars
    /\ UNCHANGED <<dbVars, told>>

DiscloseGet(p) ==
    /\ at[p] = "disclose.get" /\ Close(p)
    /\ Goto(p, "idle") /\ job' = [job EXCEPT ![p] = NoJob]
    /\ UNCHANGED <<nfile, faults, dbVars, told>>

-----------------------------------------------------------------------------
(* proof forget *)

Target(p) == job[p].ids[1]

\* The end of a forget: what it says, and the database closed.
ForgetEnds(p, says) ==
    /\ Goto(p, "idle") /\ job' = [job EXCEPT ![p] = NoJob] /\ CloseDb(p)
    /\ forgot' = IF says THEN forgot \cup {Target(p)} ELSE forgot
    /\ UNCHANGED <<rows, head, drawn, kept>>

\* The chain is read, and its lock given back.
ForgetRead(p, id) ==
    /\ at[p] = "idle" /\ CanRead /\ id \in OnChain
    /\ Goto(p, "forget") /\ job' = [job EXCEPT ![p] = [NoJob EXCEPT !.ids = <<id>>]]
    /\ UNCHANGED <<nonceVars, faults, dbVars, told>>

\* The database is opened again, and held to the end.
ForgetOpenDb(p) ==
    /\ at[p] = "forget"
    /\ \/ OpenDb(p) /\ Goto(p, "forget.open") /\ UNCHANGED <<rows, head, job, told>>
       \/ dblock # None /\ ForgetEnds(p, FALSE) /\ UNCHANGED asked
    /\ UNCHANGED <<nonceVars, faults>>

\* Forget opens the nonce file; there may be none.
ForgetOpen(p) ==
    /\ at[p] = "forget.open"
    /\ \/ nfile = None /\ ForgetEnds(p, TRUE) /\ UNCHANGED <<nonceVars, faults, asked>>
       \/ /\ nfile # None /\ Open(p)
          /\ Goto(p, "forget.delete") /\ UNCHANGED <<dbVars, job, faults, told>>
       \/ /\ nfile # None /\ CannotOpen(p)
          /\ ForgetEnds(p, FALSE) /\ UNCHANGED <<nonceVars, asked>>

\* Mutant of Rewrites: only a file that held the nonce is rewritten.
RewritesIfStored(p) == Target(p) \in nfile.live

\* The file is rewritten also when it held no such nonce.
Rewrites(p) == TRUE

\* The nonce is deleted and the file closed.  A failed transaction may have landed.
ForgetDelete(p) ==
    /\ at[p] = "forget.delete"
    /\ asked' = asked \cup {Target(p)}
    /\ \/ /\ DeleteAll(p, {Target(p)})
          /\ IF Rewrites(p)
             THEN Goto(p, "forget.compact") /\ UNCHANGED <<dbVars, job, drawn, kept, forgot>>
             ELSE ForgetEnds(p, TRUE)
          /\ UNCHANGED faults
       \/ /\ Fault /\ (DeleteAll(p, {Target(p)}) \/ DeleteAll(p, {}))
          /\ ForgetEnds(p, FALSE)

\* Compact, with its lock taken anew.
ForgetCompact(p) ==
    /\ at[p] = "forget.compact"
    /\ \/ CompactBegin(p) /\ Goto(p, "forget.copy") /\ UNCHANGED <<dbVars, job, faults, told>>
       \/ CannotOpen(p) /\ ForgetEnds(p, FALSE) /\ UNCHANGED <<nonceVars, asked>>

ForgetCopy(p) ==
    /\ at[p] = "forget.copy"
    /\ \/ /\ CompactCopy(p) /\ Goto(p, "forget.rename")
          /\ UNCHANGED <<dbVars, job, faults, told>>
       \/ Fault /\ CompactFails(p) /\ ForgetEnds(p, FALSE) /\ UNCHANGED asked

\* The rename fails, or the sync of the directory after it.
ForgetRename(p) ==
    /\ at[p] = "forget.rename"
    /\ \/ CompactRename(p) /\ ForgetEnds(p, TRUE) /\ UNCHANGED faults
       \/ Fault /\ (CompactRename(p) \/ CompactFails(p)) /\ ForgetEnds(p, FALSE)
    /\ UNCHANGED asked

-----------------------------------------------------------------------------
(* Another caller of noncestore: it holds nothing but what the package takes. *)

OtherOpen(p) ==
    /\ at[p] = "idle" /\ OtherIds \ drawn # {} /\ Open(p)
    /\ Goto(p, "other.put") /\ UNCHANGED <<faults, dbVars, job, told>>

OtherPut(p) ==
    /\ at[p] = "other.put"
    /\ LET id == CHOOSE i \in OtherIds \ drawn : TRUE IN
       PutBatch(p, {id}) /\ kept' = kept \cup {id} /\ drawn' = drawn \cup {id}
    /\ Goto(p, "idle") /\ UNCHANGED <<faults, dbVars, job, asked, forgot>>

-----------------------------------------------------------------------------
\* The answer is given and the database closed.
GiveAnswer(p) ==
    /\ at[p] = "answer" /\ CloseDb(p)
    /\ Goto(p, IF job[p].ids # <<>> /\ ToSet(job[p].ids) \subseteq McpIds THEN "ready" ELSE "idle")
    /\ job' = [job EXCEPT ![p] = NoJob]
    /\ UNCHANGED <<nonceVars, faults, rows, head, told>>

\* A server is stopped between calls.
Stop(p) == at[p] = "ready" /\ Goto(p, "idle") /\ UNCHANGED <<nonceVars, faults, dbVars, job, told>>

Kill(p) ==
    /\ at[p] \notin {"idle", "ready"} /\ Fault /\ Killed(p) /\ CloseDb(p)
    /\ Goto(p, "idle") /\ job' = [job EXCEPT ![p] = NoJob]
    /\ UNCHANGED <<rows, head, told>>

LocalNext ==
    \E p \in Procs :
       \/ Launch(p) \/ McpCall(p) \/ McpOpen(p) \/ McpNonces(p) \/ McpPut(p)
       \/ McpAppend(p) \/ McpForget(p) \/ McpDelete(p)
       \/ CliCommit(p) \/ CliAppend(p) \/ CliImport(p)
       \/ DiscloseOpen(p) \/ DiscloseGet(p)
       \/ ForgetOpenDb(p) \/ ForgetOpen(p) \/ ForgetDelete(p)
       \/ ForgetCompact(p) \/ ForgetCopy(p) \/ ForgetRename(p)
       \/ \E id \in Targets : DiscloseRead(p, id) \/ ForgetRead(p, id)
       \/ OtherOpen(p) \/ OtherPut(p) \/ GiveAnswer(p) \/ Stop(p) \/ Kill(p)

LocalSpec == LocalInit /\ [][LocalNext]_localVars

-----------------------------------------------------------------------------
(* Properties *)

Ids == McpIds \cup OtherIds \cup UNION {ToSet(i) : i \in Inputs \cup Elsewhere}

\* One writer of the nonce file and one holder of the database; nonces are of ids
\* that were drawn.
TypeOK ==
    /\ nfile = None \/ nfile \in [live : SUBSET Ids, free : SUBSET Ids]
    /\ nlock.ex \in Procs \cup {None} /\ nlock.sh \subseteq Procs
    /\ \A p \in Procs : /\ handle[p] \in {None, "current", "replaced"}
                        /\ copy[p] = None \/ copy[p] \subseteq Ids
                        /\ job[p].done \in 0 .. Len(job[p].ids)
                        /\ at[p] = "answer" => dblock = p
    /\ left \subseteq Ids /\ faults \in 0 .. MaxFaults
    /\ Seqs \subseteq 0 .. MaxSeq /\ dblock \in Procs \cup {None}
    /\ drawn \subseteq McpIds \cup OtherIds /\ kept \subseteq drawn
    /\ asked \subseteq Ids /\ forgot \subseteq asked \cup (Ids \ kept)

\* What Open's callers rely on (noncestore.lockFile: "nothing can open the nonce
\* file while it is replaced"): a nonce whose storing was acknowledged is in the
\* file until it is asked for to be forgotten, whatever rewrites run beside it.
NoncesKept == \A id \in kept : id \in Stored \cup asked

\* commitTool stores nonces before the append: every salted entry on the chain can
\* be opened until a forget of it was asked for.
SaltedOpens == \A s \in Seqs : rows[s].salted => rows[s].id \in Stored \cup asked

\* Forget, its earlier calls cut off anywhere: once it has said that no nonce is
\* stored for an entry, its bytes are in no page of the file and in no copy.
ForgottenGone == forgot \cap OnDisk = {}

\* commit, import and the tool on one chain: every entry continues the one before
\* it, without a gap, and the saved head is the hash of one of them.
ChainLinked ==
    /\ \A s \in Seqs : Len(rows[s].prev) = s
    /\ \A s \in Seqs : s # 0 /\ (\E t \in Seqs : t < s) =>
          s - 1 \in Seqs /\ rows[s].prev = HashOf(rows[s - 1])
    /\ head # None => \E s \in Seqs : head = HashOf(rows[s])

\* cmdCommit: an input piped twice, or again after a run that stopped part way,
\* adds no entry under an id the chain holds.  (import does not look at ids.)
IdsOnce == \A s, t \in Seqs : s < t /\ rows[s].id = rows[t].id => rows[t].by = "import"

\* What commitTool and cmdCommit answer is what they wrote: the entries they say
\* were committed, in arrival order, and no other.
AnswerTrue ==
    \A p \in Procs : at[p] = "answer" =>
        LET j == job[p] IN
        /\ j.ok => j.done = Len(j.ids)
        /\ NextSeq = j.first + j.done
        /\ \A i \in 1 .. j.done : rows[j.first + i - 1].id = InOrder(ToSet(j.ids))[i]

\* checkDBQuota: the tool takes the database past its limit by at most one call
\* of each server.
QuotaHolds ==
    Cardinality({s \in Seqs : rows[s].by = "mcp"})
        <= maxDB - 1 + maxCommitEntries * Cardinality(Procs)

\* A nonce that was stored stays stored, and every salted entry has its own, until a
\* forget of it was asked for.
NoncesStand == NoncesKept /\ SaltedOpens

\* The chain stays linked, holds no id twice, and stays within its quota, whichever
\* programs append to it.
DatabaseSound == TypeOK /\ ChainLinked /\ IdsOnce /\ QuotaHolds

=============================================================================
