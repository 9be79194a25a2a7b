-------------------------------- MODULE Sink --------------------------------
(***************************************************************************)
(* One sink folder under commits, erasures, resumes and repairs, by any    *)
(* number of processes, with failing transactions, crashes and restarts,   *)
(* and (when Restores) a subject index put back from an older copy.        *)
(***************************************************************************)
EXTENDS SinkCommit, SinkErase, SinkRepair

Init == FolderInit /\ CallInit

-----------------------------------------------------------------------------
(* The environment *)

Return ==
    /\ pc = "return"
    /\ pc' = "idle" /\ plan' = {} /\ fresh' = {} /\ call' = NoCall
    /\ NoFault
    /\ UNCHANGED <<folderVars, nextId, gone>>

\* The process dies; its locks go with it and the next open clears its leases.
Crash ==
    /\ pc \notin {"idle", "return"}
    /\ Fault
    /\ pc' = "idle" /\ plan' = {} /\ fresh' = {} /\ call' = NoCall
    /\ UNCHANGED <<folderVars, nextId, gone>>

\* The copy that is put back later; this counts as one of the faults.
TakeBackup ==
    /\ Restores /\ pc = "idle" /\ ~backup.taken
    /\ faults > 0 /\ faults' = faults - 1
    /\ backup' = [taken |-> TRUE, forward |-> forward, reverse |-> reverse]
    /\ UNCHANGED <<folderVars, callVars>>

RestoreIndex ==
    /\ backup.taken /\ pc = "idle"
    /\ forward' = backup.forward /\ reverse' = backup.reverse
    /\ backup' = NoBackup
    /\ gone' = {}
    /\ UNCHANGED <<evidence, secrets, sources, sigVars, pageVars, faults, pc, plan, fresh, call, nextId>>

-----------------------------------------------------------------------------

CommitCall == \E b \in Batches, s \in SignerConfigs : CommitStart(b, s)
EraseCall  == \E w \in Scopes, s \in SignerConfigs : EraseStart("erase", w, s)
ResumeCall == \E s \in SignerConfigs : EraseStart("resume", {}, s)

CallStep == CommitStep \/ EraseStep \/ RepairStep \/ RewriteStep \/ Return

Next ==
    \/ CommitCall \/ EraseCall \/ ResumeCall \/ RepairStart \/ RequireRecordSigning
    \/ CallStep \/ Crash \/ TakeBackup \/ RestoreIndex

Spec == Init /\ [][Next]_vars

\* The process that holds the folder goes on; resumes are run again and again, with
\* the signer the sink's mode calls for, and one gets the folder's lock although
\* other calls compete for it.
AcceptedResume == ResumeCall /\ pc' # "return"
LiveSpec == Spec /\ WF_vars(CallStep) /\ SF_vars(AcceptedResume)

-----------------------------------------------------------------------------
(* Properties *)

(* The rows of the five files, the free pages and left-over copies, and the
   registers of the call that holds the folder have the shapes the sink
   package gives them. *)
TypeOK ==
    /\ FolderTypeOK
    /\ plan \subseteq Entries
    /\ fresh \subseteq Bindings
    /\ call \in Calls
    /\ nextId \in Nat
    /\ gone \subseteq Pairs

Erased(c) == \E e \in EntriesOf(c) : e.type = "erasure"

\* Every event entry of a chain with no erasure opens: its content and nonce
\* are stored, whatever call failed or crashed, wherever it was (commitPairs:
\* "durable BEFORE the entries that commit to them").
CommittedOpens ==
    \A e \in evidence : e.type = "event" /\ ~Erased(e.chain) => SecretRow(e) \in secrets

\* Content and source positions are always within reach of their subject's
\* erasure: their chain's index row names the pair they are about, or is pending.
ReachableByErasure ==
    /\ \A r \in secrets : r.value.about # None => reverse[r.chain] \in {r.value.about, Pending}
    /\ \A r \in sources : reverse[r.chain] \in {r.about, Pending}

\* A source is committed at most once to a chain, across retries, failed calls,
\* crashes and repairs.
SourceAtMostOnce ==
    \A d, e \in evidence : d.chain = e.chain /\ d.origin = e.origin /\ d.origin # None => d = e

\* Nothing follows an erasure entry on its chain, even under an index restored
\* from before the erasure.
NothingFollowsErasure ==
    \A d, e \in evidence : d.chain = e.chain /\ d.type = "erasure" => e.seq <= d.seq

\* A returned commit error leaves nothing of the call behind, but where it says so.
NothingNewBehind ==
    pc = "return" /\ call.kind = "commit" /\ call.outcome \in {"refused", "failed"} =>
        /\ evidence \cap plan = {}
        /\ SecretsAt(Keys(plan)) = {} /\ sigs \cap Keys(plan) = {}
        /\ sources \cap Positions(plan) = {}
        /\ \A b \in fresh : forward[b.pair] = None /\ reverse[b.chain] = None

\* Every record of a batch Commit reports committed is an entry of its pair's
\* chain that opens to that record's content, duplicates included.
AcksAreOnChain ==
    pc = "return" /\ call.kind = "commit" /\ call.outcome = "ok" =>
        \A i \in DOMAIN call.batch :
            LET r == call.batch[i] IN
            \E e \in evidence : /\ e.chain = forward[r.pair] /\ e.commits = ContentOf(r)
                                /\ r.source # None => e.origin = r.source
                                /\ SecretRow(e) \in secrets

\* After an erasure that returned nil, and until the next commit of the pair, no
\* file of the folder holds anything of it: no row, no free page, no left-over copy.
GoneIsGone ==
    \A p \in gone :
        /\ forward[p] = None /\ \A c \in Chains : reverse[c] # p
        /\ \A f \in Rewritten : p \notin LiveIn(f) \cup residue[f] \cup temps[f]

\* An entry stands in a signing sink only with its signature.
SignedEntries == signing => \A e \in evidence : SigRow(e) \in sigs

\* The two halves of the index agree, so no chain has two owners.
IndexConsistent ==
    /\ \A p \in Pairs : forward[p] # None => reverse[forward[p]] = p
    /\ \A c \in Chains : reverse[c] \in Pairs => forward[reverse[c]] = c

\* A resume that returned nil leaves no live index row on an erased chain.
RelinkForgotten ==
    pc = "return" /\ call.kind = "resume" /\ call.outcome = "ok" =>
        \A c \in Chains : Live(c) => ~EndsWithGenuineErasure(c)

\* Every pending erasure is completed once faults stop and resumes are run.
PendingClears == \A c \in Chains : reverse[c] = Pending ~> reverse[c] # Pending

\* An erasure is the end of its chain: nothing is appended behind it, and a resume
\* that returned nil has taken back every row a restored index had for it.
ErasureEnds == NothingFollowsErasure /\ RelinkForgotten

\* A commit that was acknowledged is on its chain, once, and with its signature where
\* the sink signs, however often it was redelivered.
CommitsStand == AcksAreOnChain /\ SourceAtMostOnce /\ SignedEntries

=============================================================================
