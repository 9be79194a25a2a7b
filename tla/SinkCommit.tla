----------------------------- MODULE SinkCommit -----------------------------
(***************************************************************************)
(* Sink.Commit: one batch of records, over all their (class, subject)      *)
(* pairs.  Index rows first, then content and nonces, signatures, source   *)
(* positions, and last the entries of every chain in one transaction, the  *)
(* commit point.  An error takes the steps back in the order the code does.*)
(***************************************************************************)
EXTENDS SinkFolder

CONSTANT Batches  \* the batches of records committed

ASSUME CommitAssumption == \A b \in Batches : b \in Seq(Records) /\ b # <<>>

-----------------------------------------------------------------------------
(* Reading the folder for a batch *)

PairsOf(batch) == {batch[i].pair : i \in DOMAIN batch}

ContentOf(r) == Content(r.pair, r.text)

\* Mutant of Unused: the index is not asked whether the id is taken.
UnusedByEntries(c) == EntriesOf(c) = {}

\* A chain id mintChainID may return: no entries, and no index row, live or pending.
Unused(c) == EntriesOf(c) = {} /\ reverse[c] = None

\* Mutant of Relinked: the chain of an existing row is not looked at.
NeverRelinked(batch) == FALSE

\* resolvePair refuses a pair whose row was restored from before an erasure.
Relinked(batch) ==
    \E p \in PairsOf(batch) : forward[p] # None /\ EndsWithGenuineErasure(forward[p])

\* The bindings resolvePair may draw for the pairs with no row: unused ids, all distinct.
FreshBindings(batch) ==
    LET new == {p \in PairsOf(batch) : forward[p] = None}
    IN  {{[pair |-> p, chain |-> f[p]] : p \in new} :
            f \in {g \in [new -> {c \in Chains : Unused(c)}] :
                      \A p, q \in new : g[p] = g[q] => p = q}}

\* The entry a sourced record was committed as, if its position stands on the chain.
CommittedAs(r) ==
    {e \in EntriesOf(forward[r.pair]) :
        \E p \in sources : /\ p.chain = e.chain /\ p.source = r.source
                           /\ p.id = e.id /\ p.seq = e.seq}

\* dropDuplicates: an earlier record of the batch has the same pair and source,
\* or the chain already holds the record.
GivenBefore(b, i) ==
    \E j \in DOMAIN b : j < i /\ b[j].pair = b[i].pair /\ b[j].source = b[i].source

\* Mutant of Duplicate: a position counts, whether or not its entry is on the chain.
DuplicateByPosition(b, i) ==
    /\ b[i].source # None
    /\ \/ GivenBefore(b, i)
       \/ \E p \in sources : p.chain = forward[b[i].pair] /\ p.source = b[i].source

Duplicate(b, i) ==
    b[i].source # None /\ (GivenBefore(b, i) \/ CommittedAs(b[i]) # {})

\* A source given again with other content, or whose committed content cannot be
\* shown to be the same.
Conflict(b, i) ==
    /\ b[i].source # None
    /\ \/ \E j \in DOMAIN b : /\ j < i /\ b[j].pair = b[i].pair /\ b[j].source = b[i].source
                              /\ b[j].text # b[i].text
       \/ /\ ~GivenBefore(b, i)
          /\ \E e \in CommittedAs(b[i]) :
                [chain |-> e.chain, id |-> e.id, value |-> ContentOf(b[i])] \notin secrets

\* The entries commitPairs prepares: each kept record of a pair, in order, after
\* the tail of the pair's chain.
Planned(b) ==
    LET kept == {i \in DOMAIN b : ~Duplicate(b, i)}
        before(i) == {j \in kept : j < i /\ b[j].pair = b[i].pair}
    IN  {[chain |-> forward[b[i].pair],
          seq |-> TailSeq(forward[b[i].pair]) + 1 + Cardinality(before(i)),
          id |-> nextId + i - 1, type |-> "event",
          commits |-> ContentOf(b[i]), origin |-> b[i].source] : i \in kept}

\* Two pairs resolved to one chain: the index is inconsistent.
OneChainTwice(b) ==
    \E p, q \in PairsOf(b) : p # q /\ forward[p] = forward[q]

Sourced(b) == \E i \in DOMAIN b : b[i].source # None

-----------------------------------------------------------------------------
(* Steps *)

\* Open the files, check the signing mode, resolve every pair.
CommitStart(b, signer) ==
    /\ pc = "idle"
    /\ nextId + Len(b) <= MaxId
    /\ gone' = gone \ PairsOf(b)
    /\ \/ /\ ModeMismatch(signer) \/ Relinked(b) \/ FreshBindings(b) = {}
          /\ pc' = "return"
          /\ call' = [NoCall EXCEPT !.kind = "commit", !.batch = b, !.outcome = "refused"]
          /\ UNCHANGED fresh
       \/ /\ ~ModeMismatch(signer) /\ ~Relinked(b)
          /\ fresh' \in FreshBindings(b)
          /\ call' = [NoCall EXCEPT !.kind = "commit", !.signer = signer, !.batch = b]
          /\ pc' = IF fresh' = {} THEN "plan" ELSE "bind"
    /\ NoFault
    /\ UNCHANGED <<folderVars, plan, nextId>>

\* subj.bindAll: every new pair's forward and reverse row, in one transaction.
Bound ==
    /\ forward' = [p \in Pairs |-> IF \E b \in fresh : b.pair = p
                                   THEN (CHOOSE b \in fresh : b.pair = p).chain ELSE forward[p]]
    /\ reverse' = [c \in Chains |-> IF \E b \in fresh : b.chain = c
                                    THEN (CHOOSE b \in fresh : b.chain = c).pair ELSE reverse[c]]

BindAll ==
    /\ pc = "bind"
    /\ \/ Bound /\ pc' = "plan" /\ NoFault /\ UNCHANGED call
       \/ TxError("subjects", Bound, UNCHANGED indexVars) /\ ReturnWith("failed")
    /\ UNCHANGED <<evidence, secrets, sources, sigVars, pageVars, plan, fresh, nextId, gone>>

\* dropDuplicates, then the reads and the signing commitPairs does before it writes.
PlanCommit ==
    /\ pc = "plan"
    /\ \/ /\ \/ /\ \E i \in DOMAIN call.batch : Conflict(call.batch, i)
                /\ NoFault
             \/ Fault                    \* a read failed, or the record signer
          /\ pc' = "forgetSources"
          /\ UNCHANGED <<plan, nextId, call>>
       \/ /\ ~ \E i \in DOMAIN call.batch : Conflict(call.batch, i)
          /\ NoFault
          /\ plan' = Planned(call.batch)
          /\ nextId' = nextId + Len(call.batch)
          /\ \/ plan' = {} /\ ReturnWith("ok")
             \/ /\ plan' # {}
                /\ pc' = IF OneChainTwice(call.batch) THEN "forgetSources" ELSE "putSecrets"
                /\ UNCHANGED call
    /\ UNCHANGED <<folderVars, fresh, gone>>

\* sec.putAll: content and nonces, in one transaction.  On an error the code
\* takes nothing of it back: one transaction, nothing was written.
PutSecrets ==
    LET put == secrets' = secrets \cup {SecretRow(e) : e \in plan} IN
    /\ pc = "putSecrets"
    /\ \/ /\ put /\ NoFault
          /\ pc' = IF call.signer THEN "putSigs" ELSE "putSources"
       \/ TxError("secrets", put, UNCHANGED secrets) /\ pc' = "forgetSources"
    /\ UNCHANGED <<evidence, indexVars, sources, sigVars, pageVars, plan, fresh, call, nextId, gone>>

\* sigs.putAll: the signatures; the same transaction sets the signing mode.
PutSigs ==
    LET put == sigs' = sigs \cup {SigRow(e) : e \in plan} /\ signing' = TRUE IN
    /\ pc = "putSigs"
    /\ \/ put /\ NoFault /\ pc' = "putSources"
       \/ TxError("sigs", put, UNCHANGED sigVars) /\ pc' = "cleanSecrets"
    /\ UNCHANGED <<evidence, indexVars, secrets, sources, pageVars, plan, fresh, call, nextId, gone>>

\* src.putAll: where every sourced record is about to land.
PutSources ==
    LET new == Positions(plan)
        put == /\ sources' = (sources \ ReplacedBy(new)) \cup new
               /\ Freed("sources", AboutSources(ReplacedBy(new)))
    IN
    /\ pc = "putSources"
    /\ \/ new = {} /\ pc' = "append" /\ NoFault /\ UNCHANGED <<sources, residue>>
       \/ new # {} /\ put /\ pc' = "append" /\ NoFault
       \/ new # {} /\ TxError("sources", put, UNCHANGED <<sources, residue>>) /\ pc' = "cleanSecrets"
    /\ UNCHANGED <<evidence, indexVars, secrets, sigVars, temps, plan, fresh, call, nextId, gone>>

\* AppendChains, the commit point.  After an error appendLanded looks for the
\* call's entries, and may fail to find out.
AppendChains ==
    LET append == evidence' = evidence \cup plan IN
    /\ pc = "append"
    /\ \/ append /\ NoFault /\ ReturnWith("ok")
       \/ Fault /\ "evidence" \in LandedErrors /\ append /\ ReturnWith("ok")
       \/ TxError("evidence", append, UNCHANGED evidence) /\ ReturnWith("unknown")
       \/ Fault /\ UNCHANGED <<evidence, call>> /\ pc' = "cleanSecrets"
    /\ UNCHANGED <<indexVars, secrets, sources, sigVars, pageVars, plan, fresh, nextId, gone>>

\* cleanup: every file is tried, and an error of any keeps the index rows.
CleanSecrets ==
    LET doomed == SecretsAt(Keys(plan))
        del == secrets' = secrets \ doomed /\ Freed("secrets", AboutSecrets(doomed)) IN
    /\ pc = "cleanSecrets"
    /\ pc' = IF call.signer THEN "cleanSigs" ELSE "cleanSources"
    /\ \/ del /\ NoFault /\ UNCHANGED call
       \/ /\ TxError("secrets", del, UNCHANGED <<secrets, residue>>)
          /\ call' = [call EXCEPT !.clean = FALSE]
    /\ UNCHANGED <<evidence, indexVars, sources, sigVars, temps, plan, fresh, nextId, gone>>

CleanSigs ==
    LET del == sigs' = sigs \ Keys(plan) IN
    /\ pc = "cleanSigs"
    /\ pc' = "cleanSources"
    /\ \/ del /\ NoFault /\ UNCHANGED call
       \/ /\ TxError("sigs", del, UNCHANGED sigs)
          /\ call' = [call EXCEPT !.clean = FALSE]
    /\ UNCHANGED <<evidence, indexVars, secrets, sources, signing, pageVars, plan, fresh, nextId, gone>>

\* Only positions that still hold what this call wrote are deleted.
CleanSources ==
    LET doomed == sources \cap Positions(plan)
        del == sources' = sources \ doomed /\ Freed("sources", AboutSources(doomed)) IN
    /\ pc = "cleanSources"
    /\ \/ /\ Positions(plan) = {} /\ NoFault /\ UNCHANGED <<sources, residue>>
          /\ \/ call.clean /\ pc' = "forgetSources" /\ UNCHANGED call
             \/ ~call.clean /\ ReturnWith("cleanup failed")
       \/ /\ Positions(plan) # {} /\ del /\ NoFault
          /\ \/ call.clean /\ pc' = "forgetSources" /\ UNCHANGED call
             \/ ~call.clean /\ ReturnWith("cleanup failed")
       \/ /\ Positions(plan) # {} /\ TxError("sources", del, UNCHANGED <<sources, residue>>)
          /\ ReturnWith("cleanup failed")
    /\ UNCHANGED <<evidence, indexVars, secrets, sigVars, temps, plan, fresh, nextId, gone>>

\* forgetFresh: the new chains' source positions, one transaction per chain ...
ForgetSources ==
    LET left == {r \in sources : \E b \in fresh : b.chain = r.chain}
        open == fresh # {} /\ Sourced(call.batch) IN
    /\ pc = "forgetSources"
    /\ \/ /\ ~open \/ left = {}
          /\ NoFault /\ UNCHANGED <<sources, residue, call>>
          /\ pc' = "unbind"
       \/ /\ open
          /\ \E b \in fresh :
                LET doomed == {r \in sources : r.chain = b.chain}
                    del == sources' = sources \ doomed /\ Freed("sources", AboutSources(doomed)) IN
                \/ doomed # {} /\ del /\ NoFault /\ UNCHANGED <<pc, call>>
                \/ TxError("sources", del, UNCHANGED <<sources, residue>>) /\ ReturnWith("cleanup failed")
    /\ UNCHANGED <<evidence, indexVars, secrets, sigVars, temps, plan, fresh, nextId, gone>>

\* ... then the index rows, in one transaction.
\* Mutant of Unbound: the reverse rows stay.
UnboundForward ==
    /\ forward' = [p \in Pairs |-> IF [pair |-> p, chain |-> forward[p]] \in fresh
                                   THEN None ELSE forward[p]]
    /\ UNCHANGED reverse
    /\ Freed("subjects", {b.pair : b \in fresh})

Unbound ==
    /\ forward' = [p \in Pairs |-> IF [pair |-> p, chain |-> forward[p]] \in fresh
                                   THEN None ELSE forward[p]]
    /\ reverse' = [c \in Chains |-> IF [pair |-> reverse[c], chain |-> c] \in fresh
                                    THEN None ELSE reverse[c]]
    /\ Freed("subjects", {b.pair : b \in fresh})

UnbindAll ==
    /\ pc = "unbind"
    /\ \/ fresh = {} /\ NoFault /\ UNCHANGED <<indexVars, residue>> /\ ReturnWith("failed")
       \/ fresh # {} /\ Unbound /\ NoFault /\ ReturnWith("failed")
       \/ /\ fresh # {} /\ TxError("subjects", Unbound, UNCHANGED <<indexVars, residue>>)
          /\ ReturnWith("cleanup failed")
    /\ UNCHANGED <<evidence, secrets, sources, sigVars, temps, plan, fresh, nextId, gone>>

CommitStep ==
    \/ BindAll \/ PlanCommit \/ PutSecrets \/ PutSigs \/ PutSources \/ AppendChains
    \/ CleanSecrets \/ CleanSigs \/ CleanSources \/ ForgetSources \/ UnbindAll

=============================================================================
