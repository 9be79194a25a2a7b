----------------------------- MODULE SinkFolder -----------------------------
(***************************************************************************)
(* The files of one sink folder and the transactions the sink runs on      *)
(* them: the evidence file (the chains), the subject index, the secrets    *)
(* file (content and nonces), the sources file (where sourced records      *)
(* landed) and the signatures file.  The five are separate databases: each *)
(* transaction is atomic and durable, nothing makes two of them atomic.    *)
(*                                                                         *)
(* Every call that writes holds Sink.mu and the exclusive lock of the      *)
(* evidence file from before its first read to after its last write, so at *)
(* most one call is part-way; what can come between two of its steps is a  *)
(* failed transaction or a crash.                                          *)
(***************************************************************************)
EXTENDS Integers, Sequences, FiniteSets

CONSTANTS
    Subjects, Classes,  \* who a record is about, and its kind
    Chains,             \* the chain ids mintChainID can draw
    Texts,              \* record contents
    Sources,            \* upstream positions (Record.Source)
    None,               \* no row, no chain, no source, nobody
    Pending,            \* the index's pendingMarker
    LandedErrors,       \* files whose transaction may report an error after it reached the disk
    SignerConfigs,      \* whether the Sinks that open the folder hold a record signer
    MaxId,              \* bound: entry ids drawn in one behaviour
    MaxFaults,          \* bound: faults (failed steps and crashes) in one behaviour
    Restores            \* whether the subject index may be replaced by an older copy of it

Files == {"evidence", "subjects", "secrets", "sources", "sigs"}

Pairs == [subject: Subjects, class: Classes]

ASSUME FolderAssumption ==
    /\ None \notin Pairs \cup Chains \cup Sources
    /\ Pending \notin Pairs \cup {None}
    /\ LandedErrors \subseteq Files
    /\ SignerConfigs \subseteq BOOLEAN
    /\ MaxId \in Nat /\ MaxFaults \in Nat
    /\ Restores \in BOOLEAN

VARIABLES
    evidence,  \* evidence.db: the entries of every chain
    forward,   \* the index's forward rows: pair -> chain
    reverse,   \* the index's reverse rows: chain -> pair or the pending marker
    secrets,   \* content and nonce rows, by chain and entry id
    sources,   \* source positions, by chain and source
    sigs,      \* record signature rows, by chain and entry id
    signing,   \* the signatures file's signing mode
    residue,   \* per rewritten file: whose deleted values its free pages still hold
    temps,     \* per rewritten file: whose values a left-over compaction copy holds
    faults,    \* faults left to inject
    backup     \* the copy of the subject index kept outside the folder, if one was taken

indexVars == <<forward, reverse>>
sigVars   == <<sigs, signing>>
pageVars  == <<residue, temps>>
folderVars == <<evidence, indexVars, secrets, sources, sigVars, pageVars>>

-----------------------------------------------------------------------------
(* Data *)

\* A secrets row's value: a record's content (which is about its pair), or the
\* fixed public record of an erasure through a sequence number.
Content(p, t)    == [about |-> p, text |-> t]
ErasureRecord(n) == [about |-> None, text |-> n]
Values == [about: Pairs \cup {None}, text: Texts \cup Nat]

\* An entry commits to its value (content hash and nonce, or the erasure hash).
\* origin is a history field: the Source of the record it was committed from.
Entries == [chain: Chains, seq: Nat, id: Nat, type: {"event", "erasure"},
            commits: Values, origin: Sources \cup {None}]
SecretRows   == [chain: Chains, id: Nat, value: Values]
\* about: whom the upstream message a position points at is about.
PositionRows == [chain: Chains, source: Sources, id: Nat, seq: Nat, about: Pairs]
SigRows      == [chain: Chains, id: Nat]
Rewritten == {"secrets", "sources", "subjects"}

Backups == [taken: BOOLEAN, forward: [Pairs -> Chains \cup {None}],
            reverse: [Chains -> Pairs \cup {None, Pending}]]

FolderTypeOK ==
    /\ evidence \subseteq Entries
    /\ forward \in [Pairs -> Chains \cup {None}]
    /\ reverse \in [Chains -> Pairs \cup {None, Pending}]
    /\ secrets \subseteq SecretRows
    /\ sources \subseteq PositionRows
    /\ sigs \subseteq SigRows
    /\ signing \in BOOLEAN
    /\ residue \in [Rewritten -> SUBSET Pairs]
    /\ temps \in [Rewritten -> SUBSET Pairs]
    /\ faults \in Nat
    /\ backup \in Backups

NoBackup == [taken |-> FALSE, forward |-> [p \in Pairs |-> None],
             reverse |-> [c \in Chains |-> None]]

FolderInit ==
    /\ evidence = {}
    /\ forward = [p \in Pairs |-> None]
    /\ reverse = [c \in Chains |-> None]
    /\ secrets = {} /\ sources = {} /\ sigs = {}
    /\ signing = FALSE
    /\ residue = [f \in Rewritten |-> {}]
    /\ temps = [f \in Rewritten |-> {}]
    /\ faults = MaxFaults /\ backup = NoBackup

-----------------------------------------------------------------------------
(* The evidence file *)

EntriesOf(c) == {e \in evidence : e.chain = c}

\* e is the tail of its chain.
IsTail(e) == \A d \in EntriesOf(e.chain) : d.seq <= e.seq

\* ReadTail: the last sequence number of a chain, -1 for a chain with no entries.
TailSeq(c) ==
    IF \E e \in EntriesOf(c) : IsTail(e) THEN (CHOOSE e \in EntriesOf(c) : IsTail(e)).seq ELSE -1

\* An erasure entry is genuine when it commits to the record of an erasure
\* through the sequence number just before it.
Genuine(e) ==
    /\ e.type = "erasure"
    /\ \E d \in EntriesOf(e.chain) :
          /\ d.seq < e.seq
          /\ \A x \in EntriesOf(e.chain) : x.seq < e.seq => x.seq <= d.seq
          /\ e.commits = ErasureRecord(d.seq)

EndsWithGenuineErasure(c) == \E e \in EntriesOf(c) : IsTail(e) /\ Genuine(e)

\* The erasure entry presignErasures decides for a chain.
ErasureEntry(c, i) ==
    [chain |-> c, seq |-> TailSeq(c) + 1, id |-> i, type |-> "erasure",
     commits |-> ErasureRecord(TailSeq(c)), origin |-> None]

-----------------------------------------------------------------------------
(* Rows of the side files *)

SecretRow(e)   == [chain |-> e.chain, id |-> e.id, value |-> e.commits]
PositionRow(e) == [chain |-> e.chain, source |-> e.origin, id |-> e.id, seq |-> e.seq,
                   about |-> e.commits.about]
SigRow(e)      == [chain |-> e.chain, id |-> e.id]

Keys(rows) == {[chain |-> r.chain, id |-> r.id] : r \in rows}

\* Mutant of SecretsAt: every row of the chains, not only the given entries'.
SecretsOfChains(keys) == {r \in secrets : \E k \in keys : k.chain = r.chain}

\* Content and nonce rows are written and deleted together, by the same keys.
SecretsAt(keys) == {r \in secrets : [chain |-> r.chain, id |-> r.id] \in keys}

Positions(rows) == {PositionRow(e) : e \in {x \in rows : x.origin # None}}

\* sources.putAll: one row per (chain, source), the new one replaces the old.
ReplacedBy(new) == {r \in sources : \E n \in new : n.chain = r.chain /\ n.source = r.source}

\* Whom rows are about.
AboutSecrets(rows) == {r.value.about : r \in rows} \ {None}
AboutSources(rows) == {r.about : r \in rows}

\* Deleting or replacing values leaves their bytes in the file's free pages.
Freed(f, who) == residue' = [residue EXCEPT ![f] = @ \cup who]

\* Whose values a file's live rows hold: what a compaction copies.
LiveIn(f) ==
    CASE f = "secrets"  -> AboutSecrets(secrets)
      [] f = "sources"  -> AboutSources(sources)
      [] f = "subjects" -> {p \in Pairs : forward[p] # None}

-----------------------------------------------------------------------------
(* Faults *)

envVars == <<faults, backup>>

NoFault == UNCHANGED envVars
Fault   == faults > 0 /\ faults' = faults - 1 /\ UNCHANGED backup

\* A transaction that returns an error: rolled back, or, where the store can
\* report an error after its commit reached the disk, applied all the same.
TxError(f, landed, rolledBack) ==
    /\ Fault
    /\ \/ rolledBack
       \/ f \in LandedErrors /\ landed

-----------------------------------------------------------------------------
(* compactFile: remove left-over copies, copy the live rows to a new file,  *)
(* sync it and rename it over the old one.                                  *)

\* Mutant of RewriteOK: an earlier rewrite's copy is not removed.
RewriteKeepsCopies(f) ==
    /\ residue' = [residue EXCEPT ![f] = {}]
    /\ UNCHANGED temps
    /\ NoFault

RewriteOK(f) ==
    /\ residue' = [residue EXCEPT ![f] = {}]
    /\ temps' = [temps EXCEPT ![f] = {}]
    /\ NoFault

\* It fails: before the leftovers are removed, after (its own copy removed, or
\* the removal failed too), or syncing the folder after the rename.
RewriteError(f) ==
    /\ Fault
    /\ \/ /\ \E t \in {temps[f], {}, LiveIn(f)} : temps' = [temps EXCEPT ![f] = t]
          /\ UNCHANGED residue
       \/ /\ residue' = [residue EXCEPT ![f] = {}]
          /\ temps' = [temps EXCEPT ![f] = {}]

\* The process dies while copying: the copy is left behind.
RewriteCrash(f) ==
    /\ Fault
    /\ temps' = [temps EXCEPT ![f] = LiveIn(f)]
    /\ UNCHANGED residue

-----------------------------------------------------------------------------
(* The call that holds the folder: pc is where it is, plan the entries it    *)
(* will append, fresh the new index rows it binds.                           *)

VARIABLES pc, plan, fresh, call,
    nextId,  \* history: entry ids below it were drawn (newEntryID never repeats one)
    gone     \* history: pairs whose erasure returned nil, with no commit of them since

Records == [pair: Pairs, source: Sources \cup {None}, text: Texts]
Bindings == [pair: Pairs, chain: Chains]
Outcomes == {"none", "ok", "refused", "failed", "unknown", "cleanup failed", "incomplete"}
Calls == [kind: {"none", "commit", "erase", "resume", "repair"},
          signer: BOOLEAN,                \* the Sink was opened WithRecordSigner
          batch: Seq(Records),            \* Commit: its records
          who: SUBSET Pairs,              \* EraseSubject(Class): the pairs in scope
          todo: SUBSET Chains,            \* chains still to be worked on
          cur: Chains \cup {None},        \* the chain being worked on
          erased: SUBSET Chains,          \* erased in this call, their pending rows still set
          clean: BOOLEAN,                 \* no error so far
          compacted: BOOLEAN,             \* every rewrite so far succeeded
          outcome: Outcomes]

NoCall == [kind |-> "none", signer |-> FALSE, batch |-> <<>>, who |-> {}, todo |-> {}, cur |-> None,
           erased |-> {}, clean |-> TRUE, compacted |-> TRUE, outcome |-> "none"]

callVars == <<pc, plan, fresh, call, nextId, gone>>
vars == <<folderVars, envVars, callVars>>

CallInit ==
    /\ pc = "idle" /\ plan = {} /\ fresh = {} /\ call = NoCall
    /\ nextId = 0 /\ gone = {}

\* Return to the caller; the deferred closes release every file.
ReturnWith(o) ==
    /\ pc' = "return"
    /\ call' = [call EXCEPT !.outcome = o]

\* openRecordSigning refuses a call whose signing does not match the sink's mode.
ModeMismatch(signer) ==
    \/ signing /\ ~signer
    \/ signer /\ ~signing /\ evidence # {}

-----------------------------------------------------------------------------
(* The end of an erasure and of a repair: rewrite the files, then return.    *)

\* compactChecked(f): an error is kept for the return, and the next file follows.
Rewrite(f, at, next) ==
    /\ pc = at
    /\ \/ RewriteOK(f) /\ pc' = next /\ UNCHANGED <<plan, call>>
       \/ /\ RewriteError(f)
          /\ pc' = next /\ call' = [call EXCEPT !.clean = FALSE, !.compacted = FALSE]
          /\ UNCHANGED plan
       \/ RewriteCrash(f) /\ pc' = "idle" /\ plan' = {} /\ call' = NoCall
    /\ UNCHANGED <<evidence, indexVars, secrets, sources, sigVars, fresh, nextId, gone>>

Erasing == call.kind \in {"erase", "resume"}

RewriteSecrets  == Rewrite("secrets", "rewriteSecrets", "rewriteSources")
RewriteSources  == Rewrite("sources", "rewriteSources",
                           IF Erasing THEN "rewriteSubjects" ELSE "rewriteSigs")
RewriteSubjects == Rewrite("subjects", "rewriteSubjects", "rewriteSigs")

\* The signatures file holds no erased values: its rewrite failing is only reported.
RewriteSigs ==
    /\ pc = "rewriteSigs"
    /\ \/ NoFault /\ UNCHANGED call
       \/ Fault /\ call' = [call EXCEPT !.clean = FALSE]
    /\ pc' = IF Erasing /\ call.compacted /\ call.erased # {} THEN "clear" ELSE "finish"
    /\ UNCHANGED <<folderVars, plan, fresh, nextId, gone>>

\* nil when nothing failed; then nothing of the subject is left in the folder.
Finish ==
    /\ pc = "finish"
    /\ ReturnWith(IF call.clean THEN "ok" ELSE "incomplete")
    /\ gone' = IF call.clean /\ call.kind = "erase" THEN gone \cup call.who ELSE gone
    /\ NoFault
    /\ UNCHANGED <<folderVars, plan, fresh, nextId>>

RewriteStep == RewriteSecrets \/ RewriteSources \/ RewriteSubjects \/ RewriteSigs \/ Finish

=============================================================================
