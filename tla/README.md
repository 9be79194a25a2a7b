# A TLA+ development for `proof`

`proof` keeps tamper-evident logs. Records are committed to hash-linked chains, the chains are
anchored by signed checkpoints, and a person's records can be erased without breaking a chain.
This directory models the parts of it whose correctness depends on the order of steps or on what
somebody else did to the data: the sink and everything that writes or reads its folder, the linker
and its store down to the bbolt handle, the verifiers of what is handed over, the consumers that
feed a sink from a stream, and the local commands with their nonce file.

## 1. Inventory of the system

| Part | State it keeps | Operations | Talks to |
|---|---|---|---|
| `sink` commit (`commit.go`) | none of its own; writes the five files of a sink folder | `Commit` | subject index, secrets, signatures, sources, linker |
| `sink` erasure (`erase.go`) | the index's pending rows | `EraseSubject`, `EraseSubjectClass`, `ResumeErasures` | the same files, and their rewriting (`files.go`) |
| `sink` repair (`repair.go`) | none | `Repair`, `RequireRecordSigning` | the same files, checkpoints and heads (read) |
| `sink` checkpoints and heads (`checkpoint.go`, `heads.go`, `folder.go`) | anchor files, heads file | `Checkpoint`, `SetHead` | evidence file (read), signer |
| `sink` readers (`verify.go`, `export.go`, `paging.go`) | what a call has collected so far | `Verify`, `VerifyEach`, `Export` | all files, page by page, writers in between |
| `linker` | leases and heads kept in the store | `Append`, `AppendChains` | store |
| `store`, `store/bolt`, `store/memory` | entries, head states, leases | `WriteBatch`, `UpdateChains`, `PutState`, `Acquire`, `Release`, reads, `Open`, `Close` | bbolt |
| `internal/safebolt`, `internal/fault` | the poisoned mark and the write lock of a handle | `View`, `Update`, `Begin`, `Close`, `Guard.Run`, `RunWrite` | bbolt |
| `verify`, `anchor`, `chainformat`, `commitment` | the walker's running hash and breaks | walk a chain, bind an anchor, check a series | |
| `merkle` | a frontier, saved and restored | append, root, inclusion and consistency proofs | |
| `exportbundle` | the reader's stack and findings | read a bundle's text in one pass, verify it | verify, anchor |
| `bundle` | none | `VerifyDir`, `ManifestRoot` | a directory others may change |
| `internal/noncestore` | nonce file, lock file | `PutBatch`, `Get`, `Delete`, `Forget`, `Compact` | bbolt, the file system |
| `cmd/proof` commit, import, disclose, forget; `cmd/proof-mcp` commit | none beside the files | one call each on a database and its nonce file | linker, noncestore |
| `examples/integrations` kafka, nats, redis, otel | positions, pending messages, open requests | consume, commit, acknowledge | broker, `sink.Commit` |
| `keyfile`, `keywrap`, `mldsa`, `mlkem`, `xwing`, `canonical` | none | keys, primitives, encodings | |

What is hard here:

- **Five files, no common transaction.** A commit writes index rows, contents, signatures, source
  positions and entries in five databases, one after the other. A failed step, a failed cleanup or a
  crash stops it anywhere, and one process's leftovers are met by the next one's calls.
- **Errors that did happen.** bbolt can report an error after its commit reached the disk.
- **Erasure is a promise about bytes**, not rows: deleted values stay in free pages and in left-over
  compaction copies until the file is rewritten, and the promise has to survive a crash. The nonce
  file makes the same promise beside readers that hold the file a rewrite replaces.
- **Restored files.** The subject index may be put back from before an erasure.
- **Two ways to append.** `Append` reads the tail and writes in separate transactions under a lease;
  `AppendChains` takes no lease. A write at an occupied position replaces the entry.
- **Checkpoints share a lock.** A checkpointing process and a verifier hold the evidence file only
  shared, the checkpoint files and the heads file have no lock, and a checkpoint whose head is not
  recorded yet must not be mistaken for one that never was.
- **Readers let writers in.** `Verify` and `Export` release the lock between pages and combine what
  they read under different holds; a chain that is being committed, erased or repaired must not
  become a false alarm, and damage must not hide behind one.
- **Verdicts about altered input.** Each of three verifiers reports the first of many checks that
  fails; they must agree with each other, and no alteration may pass for the author's work.
- **At-least-once delivery.** The consumers see every message possibly again, from positions whose
  meaning changes when the stream is made anew, and must acknowledge no message before its commit.
- **A panic inside bbolt** leaves a lock held for good; everyone after it must get an error instead
  of a wait.

`PROJECT.json` lists the hazards one by one, with the line where each bites and the property that
would show it going wrong.

## 2. Modules

| Module | Models |
|---|---|
| `SinkFolder` | the five files, their rows, free pages and left-over copies, transactions that fail, compaction, the registers of the call in progress, the rewriting at the end of an erasure or repair |
| `SinkCommit`, `SinkErase`, `SinkRepair` | the calls that write the folder, one transaction a step |
| `Sink` | composition: one folder under all of these, crashes, an index put back; the properties |
| `SinkProofs`, `SinkChains` | theorems about `Sink`: types and contents; the index, erased chains and what was committed; what a failed commit or an erasure leaves |
| `ChainVerdict` | what `verifyChain` says of one chain, as operators |
| `ReadFolder` | the folder as readers meet it: calls that finish or stop half-way, a checkpoint being written, rows changed from outside |
| `SinkVerify`, `SinkExport` | `VerifyEach` with its cross-chain sweep; `Export` with its selection and disclosure |
| `Readers`, `ReaderProofs` | composition of folder and readers; the properties; the theorems |
| `ChainStore` | the store port as bbolt implements it: entries by position, heads, leases, `Open`, `Close` |
| `Linker`, `AppendLog`, `LinkerProofs` | `Append` and `AppendChains` by concurrent writers; what the two promise: chains that only grow at their end; the theorems, with the refinement, and those of the handle |
| `GuardedDb` | a bbolt handle under goroutines that may panic; its theorems are in `LinkerProofs` |
| `BoltStore` | composition of the linker's store and of the handle |
| `Checkpoint`, `CheckpointProofs` | `Checkpoint` and the heads file: series of checkpoint files, competing processes, a verifier beside them; its theorems |
| `ChainWalk`, `AnchorBind` | `verify.Walker`, format versions and hashes; anchors, `bind`, `VerifyAnchor`, `Series` |
| `BundleVerdict` | `exportbundle.Verify` on a bundle that was read |
| `Evidence` | a chain on its way from its author to the verifiers, altered by somebody without a key |
| `BundleReader`, `BundleText` | the one-pass reader with its limits; texts with something wrong, and the reason the format gives them |
| `MerkleLog` | trees, proofs, verifiers, the frontier |
| `BundleDir` | `VerifyDir` beside a process that changes the directory; its theorem |
| `Handed` | composition of the four kinds of evidence |
| `FeedSink` | what the consumers share: messages, and `sink.Commit` by its contract |
| `KafkaFeed`, `NatsFeed`, `RedisFeed`, `OtelFeed` | the four consumers and the brokers (external) they face |
| `Feeders`, `FeedProofs` | composition, fairness, properties; the theorems |
| `NonceFile` | `noncestore`: the file, its lock file, its rewriting |
| `LocalDb`, `LocalProofs` | the commands and the MCP server's commit on one database and its nonce file; their theorems |
| `MCSink`, `MCLinker`, `MCCheckpoint`, `MCReaders`, `MCIngest`, `MCLocal` | batches, messages and symmetry for TLC |

### The sink modules

*State.* `evidence` is the set of entries, `forward` and `reverse` the two halves of the subject
index (`reverse[c] = Pending` is the pending marker), `secrets`, `sources`, `sigs` sets of rows,
`signing` the signing mode. `residue[f]` and `temps[f]` say whose deleted values the free pages of file
`f`, or a compaction copy left beside it, still hold. `pc`, `plan`, `fresh`, `call` are the registers
of the call that holds the folder; `nextId` and `gone` are history variables.

*Steps.* A call writes only while it holds `Sink.mu` and the evidence file's exclusive lock, which it
takes before its first read and keeps until it returns; so at most one call is part-way, and each of
its bbolt transactions is one step. Between two steps the process may die (`Crash`). `TxError` gives
every transaction its failures: rolled back, or, for the files in `LandedErrors`, applied although an
error is returned. `RewriteError` and `RewriteCrash` are the ways `compactFile` can stop.

*Abstractions.* Content and nonce of an entry are one row: the code writes and deletes them together,
in one transaction. Contents are values that name the pair they are about. Entry ids are numbers that
are never drawn twice (the code draws 128 random bits). Chains are erased in any order. Whether a
checkpoint or a recorded head says that a chain held more (`heldMore`) is a free choice in `Repair`.
Not modelled: files damaged or edited by hand, invalid ids, a missing folder, the preflight read of
the files, free pages of the signatures file (it holds nothing that is erased).

### The linker modules

*State.* `rows[c]` maps positions to entries (position n is `GlobalSeq` n - 1), `heads[c]` is the saved
head, `leases[c]` the token of the appender. A chain hash is the sequence of everything linked up to
it, which is injective, as the hash is assumed to be. `open` says whether a process has the file;
`stale` holds the writers whose `Store` was closed while they were in a call: each of their later
transactions fails.

*Steps.* Each transaction of `Append` (acquire, read the tail, write, save the head, release) is a
step of its writer, and `AppendChains` is one step. A caller may give the hashes it expects
(`ExpectChainHash`), and may repeat a call that returned an error. `Open` clears the leases. The
memory store is the instance without faults, `Close` and `Open`. Left out: format v2's run ids.

### The checkpoint module

*State.* `series[c]` maps numbers to the contents of `anchors/<c>/NNNN.json`, `Torn` for a file that
is created and not written; `durable` are the files synced by the process that made them. A checkpoint
has an id, the id of the one before it, how many entries it covers, the time it was made, and its anchor chain
hash: as in `anchor.ChainHash`, over the previous hash and the entries, not over its own id or time.
`heads` is the heads file, `kept` the one on the disk. A chain is its length (`entries`), its row in
the subject index (`index`) and the position of its erasure entry (`erasedAt`); that entries link and
contents open is what the sink modules are about. `run[p]` is the call of process `p`, `look` the
verifier's.

*Steps.* A page (`inPages`) begins with `OpenPage` and ends after any chain; inside it the process
reads the series, the head, verifies the chain, and creates, writes and syncs the new file. These are
separate steps, since another checkpointing process or a verifier may run between any two. Commits
and erasures need the exclusive lock (`Exclusive`) and come only between pages. Heads are collected
and written when the batch is full and when the call ends, however it ends; `LoadHeads` and
`WriteHeads` are the two halves of `setHeads`, with no lock between processes. Faults are errors of any file
operation or of the signer, a process killed anywhere, a power loss (files not synced are lost,
empty or whole), older checkpoints put back, and a clock set back. `confirmed` stands for the three
ways a call is told of an erasure: its entry id, vouching, or a record signature it trusts.

Two processes that checkpoint at once are outside what the code promises for the heads
(`heads.go:135`, `checkpoint.go:269`): one may lose the other's head. What still holds is in
`checkpoint_two`. With errors too it would not: a process whose sync fails removes a file another
may already have built on.

### The reader modules

*State.* `folder[c]` is everything the files hold for chain `c`: its log, the ids that have contents
and signatures, its source rows, its index row, its checkpoints. `writing` is the chain whose
checkpoint file is created and not written. A checkpoint is the log it covers, which is what the hash in
it is of: it agrees with a chain that starts with that log, and an empty file covers nothing (`Torn`).
`harm`, `struck` and `erased` are history: what befell a chain and still stands, the last change behind
the sink's back, what the sink itself erased. `run` and `export` are the two calls with everything they
have collected.

*Steps.* A writer holds the exclusive lock for its whole call, so a call is one step, which may stop
after any of its transactions. A reader's step is one unit of its work: a chain walked, a row of a
sweep's stage, a chain exported. A page of the code is one or more units under one hold, so letting a
writer in between any two units covers every way the code can cut its pages. Left out: limits on
size, ids the sink never writes, files that cannot be opened, the texts of the report.

*What is excepted.* `ForgottenWithheld` excepts a chain whose erasure somebody undid behind the sink's
back (`Undone`): an event added after it, or the index row put back and the erasure entry cut off.
What is left is the chain of a subject that was never erased. `DamageFound` is about the last change of a
chain: a second one may restore what the first took.

### The evidence modules

*State.* `log`, `anchors` and `signed` are the author's; `given` is the copy that was handed over,
`altered` counts the changes made to it. A hash is what it was computed over, so equal hashes have
equal preimages; the alterer can compute every hash and has no signing key. `BundleText` reads the
tokens of a text one a step; `MerkleLog` appends leaves, hands over proofs and edits them; `BundleDir`
checks a manifest row by row while names of the directory are swapped.

*Operators against references.* The verifiers are translated as operators; the properties compare
them with what the author wrote, with each other, and with a declarative reading of the format: the
reader's one pass against the lowest-numbered reason that applies to the text, the frontier against
the tree over all leaves. Left out: scanning bytes into tokens, timestamps beyond whether their
spelling is exact, key files.

### The consumer modules

*State.* `chain` is what has been committed, in order. `coming` and `sent` are the messages. Each
consumer keeps what its process keeps (positions, the batch in hand, the token or creation time that
names the stream's life) and what its broker is taken to keep (offsets, delivery states, pending
entries). `stuck` are subjects on which every commit fails until an operator repairs them.

*Steps.* Each call to the broker and each `Commit` is a step. `Commit` may succeed, fail, fail with an
unknown outcome, or succeed with its process dying before it acknowledges. Partitions move, topics,
streams and groups are made anew, ack deadlines pass while the first delivery is worked on, entries
are claimed from a consumer that still runs, a collector posts again what it gave up waiting for. The
brokers are external: modelled from how the consumers use them.

### The local modules

*State.* `rows`, `head`, `dblock` are the database with one chain; `nfile`, `nlock`, `left`, `copy` the
nonce file with its free pages, its lock, and copies that rewrites left behind; `handle[p]` says
whether the file process `p` has open is the current one or one that has been replaced.

*Steps.* The transactions and file operations of the MCP server's commit and of the commands commit,
import, disclose and forget, interleaved over two processes, each of which may be killed between any
two. `linker.Append` is taken by what it returns. Left out: loss of power between a rename and its
sync.

### The handle

*State.* Where each goroutine is (`at`), `Guard.write` and bbolt's writer lock with their holders, the
poisoned mark, the kept read transactions (`txs` as bbolt sees them, `mine` as their owners do).

*Steps.* The lock operations of `Guard.RunWrite`, `Guard.Run`, `WaitForWriter` and of bbolt, one each;
a panic may end any call inside bbolt. Assumed of bbolt: one writer; a write that remaps the file and
`Close` wait for open read transactions; a waiting one keeps new readers out; a panicking read lets
go of its lock, a panicking write does not.

## 3. Runs

| Run | Instance | Shows |
|---|---|---|
| `sink_faults` | two subjects, two chains, three ids, two faults; every file but the secrets file may land with an error | `ReachableByErasure`, `GoneIsGone`, `IndexConsistent`, `TypeOK` |
| `sink_landed` | one subject in two classes, signing and unsigned processes, every file may land with an error, the index may be put back from an older copy (one of the two faults) | `ErasureEnds` (`NothingFollowsErasure`, `RelinkForgotten`), `CommittedOpens`, `CommitsStand` (`AcksAreOnChain`, `SourceAtMostOnce`, `SignedEntries`) |
| `sink_resume` | signing and unsigned processes, two faults; only the evidence file may land with an error | `NothingNewBehind`, liveness `PendingClears` |
| `linker` | on a sound file: two writers, two chains, two calls or retries, one fault. On a damaged one: two goroutines, one of which keeps read transactions, two panics | `LinkerInv` (`TypeOK`, `ChainsLinked`, `HeadsAreEntries`), `CallsStand` (`ResultsStand`, `ExpectedOnce`), `HeadsAdvance`, refinement `AppendOnly`, liveness `LeaseFreed`; `LostNotAwaited`, `ReleasedQuiet`, liveness `CallsReturn` |
| `checkpoint` | one chain of up to four entries, one process with or without heads, two faults of any kind; a head per batch | `ErasureConfirmed`, `HeadsExtend` |
| `checkpoint_two` | two processes and a verifier on one chain, one of them killed; symmetric | `SeriesInv` (`TypeOK`, `SeriesSound`, `HeadsBehind`), `CheckpointsKept` |
| `checkpoint_catches_up` | two chains, one error or kill; batches of two heads | liveness `CatchesUp` |
| `checkpoint_clock` | a clock set back once | `SignedVerifies` is **violated** (section 5) |
| `readers` | two chains, two sources, two ids a chain, three operations of which one may be damage; both ways to trust | `VerdictsTrue` (`TypeOK`, `NoFalseAlarm`, `RemovedWasRemoved`, `ErasedByTheSink`), `DamageFound`, `ForgottenWithheld`, `BundleConsistent` |
| `evidence` | both formats, two entries and two alterations; texts with up to two things wrong; five leaves and two edits of a proof; two swaps in a directory | `AcceptedIsAuthors` (`TypeOK`, `AnchoredIsAuthors`, `OkIsAuthors`, `ErasureIsAuthors`), `HonestAccepted`, `VerifiersAgree`; `ReaderExact` (`LowestReason`, `HeldWithinLimits`, `CheckpointExact`); `TreesSound` (`FrontierIsTree`, `ProofsSound`); `DirectoryRead` (`IntactIsListed`, `ReadsInside`) |
| `ingest` | two processes, two partitions, up to four messages of two subjects with one that is refused, batches of two, requests of three in chunks of two; two faults (redis: one) | `CommittedOnce`, `NothingLost` (`TypeOK`, `KafkaKept`, `KafkaOrder`, `NatsKept`, `RedisKept`, `OtelKept`), liveness `Delivered` and `OthersGoOn` |
| `local` | two processes (symmetric), two faults, a quota of one entry, calls of one entry, batches of two, three positions | `NoncesStand` (`NoncesKept`, `SaltedOpens`), `ForgottenGone`, `DatabaseSound` (`TypeOK`, `ChainLinked`, `IdsOnce`, `QuotaHolds`), `AnswerTrue` |

A property with others in parentheses is their conjunction.

*Bounds.* `MaxId` bounds the entries of a behaviour and `MaxFaults` the faults; calls of the sink
are not bounded. Two faults reach a failed step followed by a failed cleanup, an unknown outcome
followed by a crash of the retry, and a failed rewrite followed by a crash in the next one; three ids
reach a commit, its redelivery and an erasure entry, or a batch over two chains and an erasure. Two
chains are what it takes for a new chain to meet an old one's leftovers. In `linker`, two calls are
two competing appends, or one and its retry. `MaxEntries` bounds the entries committed to a chain (an
erasure adds one): a restarted series is only noticed by its hash once it has grown past the recorded
head, which takes three. `HeadBatch` is 1024 in the code; 1 and 2 make full and partly filled batches.
In `readers`, three operations reach a commit, its erasure and a further commit, repair or change
between pages, and a second chain is one the sweep meets before or after the damaged one. In
`evidence`, two alterations are a change and the hash that hides it, and a second entry is one after
an erasure or under a second checkpoint; five leaves make trees of every shape up to two full levels
and a rest. In `ingest` two messages of the same subject and content make a reused position
dangerous; a request of two chunks holds records before and after a stuck subject. In `local` the
quota is passed by the first entry, and a batch of two splits an input of three.

*Fairness.* `Sink!LiveSpec`: weak fairness of the steps of the call that holds the folder (nothing in
it waits for anything but the file system), strong fairness of starting a resume that is not refused for
its signing mode (the documented remedy is to run it again until it returns nil, with the signer the
sink calls for; the folder's lock is free between calls, but other calls may take it first).
`BoltStore!BoltFairness`: weak fairness of each writer's steps, of `Close` (every command, tool call
and sink call of the repository opens the store and closes it) and of `Reopen`; of each goroutine's
steps and of ending the read transaction it kept; strong fairness of getting a Go mutex others also
want, since Go's mutex hands over to a waiter that starves.
`Checkpoint!LiveSpec`: weak fairness of a call's steps (pages wait only for writers, which take one
step here), strong fairness of starting a run over every chain with the heads and the erasures told,
of resuming a failed erasure, and of deleting by hand a file that is no checkpoint, which is the way out that
`folder.go:151-152` names; others may take their turn first.
`Feeders!Fairness`: producers publish; a process that ended is started again and takes its steps; an
ack deadline passes; an operator repairs a stuck subject, except for the receiver, which has to get
past one without; a collector posts again what it still keeps, and its request gets the receiver's
mutex in the end (strong, as above).
The fault budget is finite, so "eventually" means "once faults stop".

## 4. Proofs

TLAPS checks the theorems for every value of the constants that satisfies the named assumptions
(`FolderAssumption` of the sink and of the readers, `CommitAssumption`, `StoreAssumption`, `LinkerAssumption`, `CheckpointAssumption`,
`GuardAssumption`, `LocalAssumption`, `KafkaAssumption`, `NatsAssumption`, `RedisAssumption`, `OtelAssumption`,
`FeedersAssumption`, `VerifyAssumption`, `ExportAssumption`, `DirAssumption`): any sets of subjects, classes, chains, writers, processes, partitions and sources, any batches
and messages, any number of calls, entries, faults, goroutines and panics. Each theorem below follows from an
inductive invariant: `Init` implies it, every step keeps it (a lemma for each action or group of
actions), and it implies the property. Where a theorem has a hypothesis beyond the assumptions, the
property is false without it, and why is said.

### The sink

- `TypeCorrect` (`SinkProofs`): `TypeOK` is not inductive: that a planned entry has
  a chain needs `BatchBound` (each pair of the batch has an index row, or is about to get one), that a
  source position names a pair needs `PlanShape`, that an erased chain is a chain needs `CurSet`.
- `CommittedOpensAlways` (`SinkProofs`): the inductive invariant `OpensInv` adds that
  ids are never drawn twice, that a planned entry shares its id with a stored one only if that is an
  erasure (so cleaning up and undoing never hit a committed record), that contents are stored before the
  append, and that whole-chain deletions happen only to chains with an erasure entry or no entry.
- `IndexStaysConsistent` (`SinkChains`): `IndexInv` follows the rows a commit made (`FreshRows`) until
  they are kept or taken back, and the copy of the index that may be put back.
- `ErasureEndsChain` (`SinkChains`): `EndInv` says that the chains a commit plans for have no erasure, that the
  chain an erasure is about to end has none yet and is marked pending, what a planned erasure looks like,
  and that a resume which has forgotten the relinked rows finds none again.
- `CommitsAlwaysStand` (`SinkChains`): `CommitInv` is `OpensInv`, `IndexInv` and `EndInv` with `SignInv`
  (signatures), `PlaceInv` (an entry's source row is stored before the entry and outlives it), `KeyInv` (no
  two entries share a chain and an id, and rows under them are their own) and `AckInv` (every record of
  the batch has an entry, planned or on its chain).
- `FailedLeavesNothing` (`SinkChains`), if neither the secrets nor the index transaction may land with an
  error. Where they may, content is left behind (section 5, "Secrets that landed").
- `AlwaysReachable` and `ErasedIsGone` (`SinkChains`), if the secrets transaction may not land with an error
  and nobody puts an older index back (which forgets which chains hold a subject's values). `ReachInv` says
  that what a commit writes is about the pairs of its batch on their own chains, and that a chain whose
  rows are taken back or cleared holds nobody's values; `GoneInv` says for every step of an erasure which
  files no longer hold anything about it, free pages and copies included.

### The linker and its store

- `ChainsStayLinked`, `ResultsAreKept`, `HeadsOnlyAdvance` (`LinkerProofs`): the common invariant `LinkInv`
  relates each writer's step to the chain: what it read of the tail still is the tail while its lease
  stands, a hash is as long as its chain, and a retry with expected hashes can match one tail only.
- `ImplementsLog` (`LinkerProofs`): `Spec => AppendOnly`, where `AppendOnly` is `AppendLog`'s specification
  under the mapping of `Linker`. The initial logs are empty; every step either leaves each chain's rows
  alone (head and lease steps, failures, crashes, `Open`) or appends to them (`StepGrows`).

### Checkpoints

- `DurableKept` (`CheckpointProofs`), where older files are not put back: `Places` says that a call at
  its write or sync holds a file of its own that is not yet durable, so what it writes over or removes
  was never a durable checkpoint, whoever else runs.
- `ErasuresConfirmed`, for one process that meets any faults, or any number of processes that meet no
  errors (`Undisturbed`). `ErasureInv` says that what a call has read still is a prefix of the
  series, or that it will not sign, and which erasures it has asked about. Two processes with errors
  break it: one removes the file it could not sync, the other has already read it as confirmed.
- `SeriesStaySound`, for any number of processes, any of which may be killed anywhere. `SoundInv` says
  that every series is linked and only its last file may be unwritten, that what a call has read is a
  prefix of it, and that heads, also those about to be recorded, name checkpoints it holds. Errors, power
  losses, restored files and a clock set back do break a series (section 5 has two of these).
- `HeadsOnlyExtend`, for one process and all faults: `HeadsInv` says that the heads a call holds, pending or
  prepared, grow from the recorded ones. `HashesGrow` is the lemma behind it: of two hashes that the same
  series gives, one extends the other. Two processes record heads with no lock between them
  (`sink/heads.go:135`), so a later head may be overwritten by an earlier one.

### The handle

- `GuardLocksHeld`, `LostNeverAwaited`, `ReleasedWhenQuiet` (`LinkerProofs`): `GuardSpec` keeps `LocksHeld`,
  `LostNotAwaited`, `ReleasedQuiet`. Neither of the last two is inductive alone: that nobody is on the way
  to a lost lock needs that the lock is lost only on a poisoned handle, and that whoever has looked at
  the mark since holds `Guard.write` (`LocksHeld`); that a released file has no write inside needs that an
  abandoned handle stays poisoned and its writers have left (`Gone`). `GuardInv` is their
  conjunction, with the types of the variables (`Places`).

### The local database

The four theorems (`LocalProofs`) rest on `LocalInv` and `SoundInv`, which follow each process of
`LocalSpec` through its calls:

- `HoldsInv` and `FileInv`: the database and the nonce file's lock are held by exactly the processes whose
  step says so; one process writes the nonce file at a time, and through the inode its name leads to; the
  copy that a rewrite makes is the file's stored nonces until it is renamed over it.
- `ChainInv` and `JobInv`: the chain runs without gap, each hash as long as its position; what a call is
  working on: ids of its own that nobody else drew, entries that are not on the chain before it appends
  them, and what a forget is asked for is on the chain.
- `NonceInv` and `SaltedInv`: stored nonces of acknowledged ids stay until a forget sets out to delete them,
  every salted entry's was acknowledged before the entry was appended, and of a forgotten one nothing is on
  the disk. `NonceStep` shows it of every step from what the step adds, deletes and says (`Tells`).
- `WorkInv`: of a call that wrote, the entries are the first of its ids from where the chain ended, and the
  rest still fits; `ChainSound`: ids that no import brought are on the chain once; `QuotaInv`: the
  servers' entries together with those that calls past the quota check have still to write.

From these follow:

- `ForgottenStaysGone` and `DatabaseStaysSound`, for any sets of processes, ids, inputs and imports, any
  number of kills and errors.
- `NoncesAlwaysStand` and `AnswersAreTrue`, if an append that reports an error has added nothing
  (`~Landed`). Where it may have landed, both are false: the tool then deletes the nonces of entries that
  stand, and says that nothing was committed (section 5).

`InOrderIds` and `LinkedRows` are the lemmas they share: what the linker's order makes of a set of ids, and
what `link` makes of a batch. The order is a rank (`InOrder`), since sorting by a recursive operator could
not be reasoned about; `LocalAssumption` says of the constants that processes and a server's ids are
finitely many, that nobody else uses ids that a server draws, and that a call has at most
`maxCommitEntries` entries.

### The consumers

`IngestOnce` and `IngestNothingLost` (`FeedProofs`) state `CommittedOnce` and `NothingLost` for any sets of
processes and connections, any number of partitions, any messages and faults; what `FeedersAssumption` asks of
the constants is that messages have a number for a subject and that faults are bounded by a number. Both
follow from `IngestInv`: `FeedInv`, which says of the chains that each message is there once (`Once`), with the
invariant of the consumer the behaviour is about, while the others stay as they started. Neither property is
inductive: that a redelivered message is recognised depends on everything that may name it.

- *Positions.* A mark is a message's number with the position it would be committed under. Each consumer's
  marks are those of the chain, of what upstream holds and of what its processes have in hand, and they are one
  to one (`OneToOne`): a message has one position and a position one message. From that follows, whatever
  `Commit` returns, that it appends no message twice (`LandedOnce`), and that the chain's marks stay among the
  consumer's (`LandedEntries`). The lemmas are about `sink.Commit` alone and serve all four.
- *Kafka* (`KafkaInv`). `KafkaNamed`: a position of this topic and of the leader's epoch is within its log, so
  that an offset that is used again after a truncation comes with a later epoch. `Safe` says of a position that
  what a consumer which resumes there does not meet again is on its chain or can never be; `SafeAppend` and
  `SafeFront` show that it stays so when the log grows or loses its end. `MemberSafe` is that of the position a
  member would commit behind any record of its batch, with the records up to it (`BatchTo`) as its debt, and
  `HandledSafe` settles the debt for the prefix that was handled. The order of a partition (`KafkaOrder`)
  needs `InTurn`: no record is on a chain before those ahead of it that can be.
- *NATS* (`NatsInv`). What a process holds is what the stream holds at those sequences while it is of the same
  life, named after the creation time that the process read (`ProcessInv`); a message in the state "acked" was
  on its chain when it was answered for. Until a process attaches to another stream than it has looked up
  (`stale`).
- *Redis* (`RedisInv`). An entry of the chain under a token was committed in a life that goes by that token
  (`ChainNamed`): of the life at hand, it is the stream's entry of that id, of an earlier one, no entry is its
  message. A process works under a token of its life (`ReaderInv`), and an id once given is pending, deleted, refused or
  on its chain. Until a life goes by two tokens or two lives by one (`Misnamed`).
- *OpenTelemetry* (`OtelInv`). A record of the request that is being served is on its chain, in the chunk, in
  what is left, or the answer will not be 200 (`Served`); one request is served at a time, and the requests cut the
  log into pieces that later records do not change.

`OnlyAt` and `InOrderIds` are lemmas about the loops that keep some of a sequence (`Only`), again as a rank and
not by recursion.

### The readers

`VerdictsAlwaysTrue`, `ForgottenAlwaysWithheld` and `BundlesConsistent` (`ReaderProofs`) hold for any finite or
infinite set of chains and sources, any options, any listed entries, and any number of calls and of changes behind
the sink's back. `FolderAssumption` asks that chains and sources are numbers (their key order) and that the
bounds are; `VerifyAssumption` and `ExportAssumption` are types.

- *The folder* (`FolderInv`). `ChainInv` says of each chain what its rows can be, given what befell it and whether
  the sink began to erase it: ids are given out in order and each entry has its own (`Below`, `Own`);
  what each kind of change leaves in the index row, and that nothing else does (`Marked`); a checkpoint is of the
  entries there are unless some were taken away (`Checkpointed`); an erasure that is not the sink's has no signature
  and no checkpoint (`Unsealed`); a chain that is being erased is marked, or has no content left (`Hidden`); and
  where nobody changed it, all its rows agree (`Sound`). Every writer, every place it may stop at, and every
  kind of change has a lemma.
- *A step between two pages* (`AllMoved`). `Moved` says what a step leaves of a chain that a reader has passed: an
  entry, an anchor, an index row does not go away unless something befell the chain, and a chain without any
  row gets its first ones from a commit.
- *Verify* (`RunOf`, `ChainSeen`). Of every chain: what has befallen it since the call began is noted
  (`felt`), what was reported of it is so (`Judged`), and once the sweep's first stage is past it, a chain that the
  index rows do not explain has entries or nothing at all (`Accounted`), which is why content or signatures met
  later may be called a removal. `Pointed` is about the sources sweep, which keeps for one chain at a time
  whether the evidence file holds it and which entries were pointed at. Neither of the properties is inductive: a
  verdict at the end rests on reads of several stages with writers between each two. `Good` is what each stage's step
  has to show of the one chain it looks at.
- *Export* (`ExportInv`). `Fits` says of a chain that was written out what `ForgottenWithheld` and `BundleConsistent`
  say at the end, relative to what has befallen the chain since the call began; it is shown from `ChainInv` at the
  moment the chain is read, and nothing later can undo it (`FitsLonger`).

The run has one change behind the sink's back; the theorems allow any number, and two of the statements
that the run had passed were false of more: a checkpoint's length alone does not tell a chain that was cut and
forged to the same length (hence a checkpoint is the log it covers), and an erasure that was undone is
no erasure any more (`Undone`).

### The directory

`DirectoryReadAlways` (`BundleDir`): `DirSpec` keeps `DirectoryRead` for any number of changes. `DirInv` follows a call
that has found no problem, in a directory not changed meanwhile: the rows so far have each a path of their own and
the content on the disk (`SoFar`); `Unchanged` says that before the first change everything is as it was written.

### Only model-checked

- *Liveness*: `PendingClears`, `LeaseFreed`, `CallsReturn`, `CatchesUp`, `Delivered`, `OthersGoOn`. Fairness and `ENABLED` are
  out of the prover's reach.
- *Induction over data*: `AcceptedIsAuthors`, `HonestAccepted` and `VerifiersAgree` (`Evidence`) are about
  what a walk folds over all entries of a chain, `ReaderExact` (`BundleText`) about what a reader's stack holds after all
  tokens of a text, `TreesSound` (`MerkleLog`, the only module with `RECURSIVE` operators) about trees over
  all leaves. The provers cannot instantiate an induction over these.
- `DamageFound` (`Readers`) is checked for one change in a behaviour, which is what it means to say: a second
  change may hide the first.
- `SignedVerifies` (`Checkpoint`) is violated, see below.

## 5. Where the code and what is said of it differ

One of these is a run of its own; the others were met the same way and can be met again by giving the
named instance the named values.

- **Clock set back** (`checkpoint_clock`). A checkpoint is given the time of the wall clock, whatever the
  one before says, and `verify.Series` refuses a series whose times go back. After the clock is set back
  a checkpoint is signed that no verification passes ("Nothing is signed that Verify would not pass",
  `sink/checkpoint.go:500`), and nothing can be added to the series any more.
- **Secrets that landed.** `sec.putAll` returning an error makes `commitPairs` return with the comment
  "One transaction: nothing was written." (`sink/commit.go:621`), and `Commit` forgets the new index rows
  (`:642`). The same function treats an error of the evidence file as one that may have landed. If the
  secrets transaction did land, its content is on a chain that no index row names, and the subject's
  erasure does not reach it. (`SinkFaults.cfg` with `"secrets"` in `LandedErrors`: `ReachableByErasure`.)
- **Head of an unsynced checkpoint.** A run is killed after a checkpoint file is written and before it is
  synced. The next run finds the series whole and its head unrecorded, and records it; nothing syncs
  the file, which `SetHead` assumes durable (`sink/heads.go:213`). After a power loss the head names a
  checkpoint that is not there. (`Checkpoint.cfg` with `FaultKinds = {"kill", "power"}`, `HeadBatch = 2`,
  `Tracking = {TRUE}`, `MaxEntries = 1`: `HeadsNameDurable`.)
- **A verdict read in two parts.** `verifyChain` reads the files of a series, then its head
  (`sink/verify.go:915`). In between a checkpointing process, under the same shared lock, may add a
  checkpoint and record it, and the verifier reports an intact series as cut, while
  `docs/sink-format.md:466-467` wants every chain's verdict consistent. (`Checkpoint.cfg` with `Verifies =
  TRUE`, `FaultKinds = {}`, `Tracking = {TRUE}`: `VerdictConsistent`.)
- **A nonce forgotten too early.** After an append that returned an error, `proof-mcp`'s commit
  forgets the nonces and answers "nothing was committed" (`cmd/proof-mcp/commit.go:256-257`). If the append
  had landed, a salted entry can never be opened. (`Local.cfg` with `Landed = TRUE`: `SaltedOpens`.)
- **A transaction kept over a panic.** `Rollback` on a poisoned handle does not reach bbolt
  (`internal/safebolt/safebolt.go:346-351`), so a write that is already inside bbolt and has to remap the
  file waits for good, and with it every write behind it, against "never a crash or a hang" (`:4-5`).
  `CallsReturn` excepts exactly this.
- **Sources sweep.** `sink/verify.go:743-749` keeps what it learned of a chain's sources across pages,
  while `docs/sink-format.md:467-472` reads it anew; a first commit cut while the sweep runs is called
  removed (`RemovedWasRemoved` names this case). `Export` and `Verify` beside a checkpointing process can
  read a checkpoint file that is created and not written; `Export` then embeds an empty text.
- **The two verifiers of a bundle.** The sink does not report repeated entry ids and `exportbundle` does;
  an event that holds an erasure hash before a later erasure is erased for one and invalid for the
  other. `VerifiersAgree` is about everything else.
- **Names of a stream's life.** NATS: the creation time is read before the consumer is made, so a stream
  made anew in between is read under the old name (`stale`). Redis: a crash between making the group
  and setting the token leaves the old token, two consumers that start at once may hold different ones,
  and a running consumer keeps its token over a recreation (`Misnamed`). `CommittedOnce` and `Delivered`
  except these states. Kafka's offset commit to a recreated topic fails and the process starts again.
- **Receiver.** A subject that is stuck holds back the later chunks of its own request (`Held`), though
  not the other records of its chunk.
- **Local database.** `proof import` does not look at entry ids, so `IdsOnce` excepts imported entries.
  `checkDBQuota` runs before the database is locked, so the bound is the limit plus one call of each
  server that runs, which is what `QuotaHolds` says.

## 6. Not modelled, and what is next

Not modelled: cryptography, byte formats and key files (an injective hash and model values stand for
them); the capture encoding and canonical JSON; the template language of routes; the commands of
`cmd/proof` that only call a package above, and the reading tools of `cmd/proof-mcp`, whose steps are
those of the packages; loss of power for the nonce file. These are pure functions of bytes or strings,
or text around calls that are modelled.

Worth doing next: power loss for the nonce file, so that `NoncesAlwaysStand` covers the sync of a renamed
copy's directory; and `AcceptedIsAuthors` for chains of a fixed length, where the fold over the entries can be
unrolled into finitely many steps.
