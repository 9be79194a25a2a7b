----------------------------- MODULE SinkRepair -----------------------------
(***************************************************************************)
(* Repair removes the rows a commit that stopped before its append left,   *)
(* and rewrites the files.  RequireRecordSigning sets the signing mode of  *)
(* a sink that holds no chain yet.                                         *)
(***************************************************************************)
EXTENDS SinkFolder

IsEntry(r) == \E e \in evidence : e.chain = r.chain /\ e.id = r.id
Stands(r)  == \E e \in evidence : e.chain = r.chain /\ e.id = r.id /\ e.seq = r.seq

UnmatchedSecrets(c) == {r \in secrets : r.chain = c /\ ~IsEntry(r)}
DanglingSources(c)  == {r \in sources : r.chain = c /\ ~Stands(r)}
UnmatchedSigs(c)    == {r \in sigs : r.chain = c /\ ~IsEntry(r)}

Leftovers(c) == UnmatchedSecrets(c) # {} \/ DanglingSources(c) # {} \/ UnmatchedSigs(c) # {}

\* Repair leaves a chain alone while its erasure is pending, and, if it has no
\* entries, unless the index binds it and no signature row says it had some.
LeftAlone(c) ==
    \/ reverse[c] = Pending
    \/ EntriesOf(c) = {} /\ (reverse[c] = None \/ \E r \in sigs : r.chain = c)

RepairStart ==
    /\ pc = "idle"
    /\ pc' = "scan"
    /\ call' = [NoCall EXCEPT !.kind = "repair", !.todo = Chains]
    /\ NoFault
    /\ UNCHANGED <<folderVars, plan, fresh, nextId, gone>>

\* An error ends the scan; what was removed stays removed, and the files are rewritten.
RepairFails ==
    /\ pc' = "rewriteSecrets"
    /\ call' = [call EXCEPT !.clean = FALSE]

\* One chain: nothing to remove, left alone (by the index, or because a checkpoint
\* or a recorded head says it held more: held), or repaired.
RepairChain ==
    /\ pc = "scan"
    /\ \/ call.todo = {} /\ pc' = "rewriteSecrets" /\ NoFault /\ UNCHANGED call
       \/ Fault /\ call.todo # {} /\ RepairFails
       \/ \E c \in call.todo, held \in BOOLEAN :
             LET repaired == Leftovers(c) /\ ~LeftAlone(c) /\ ~held IN
             /\ NoFault
             /\ pc' = IF repaired THEN "fixSecrets" ELSE "scan"
             /\ call' = [call EXCEPT !.todo = @ \ {c}, !.cur = IF repaired THEN c ELSE None]
    /\ UNCHANGED <<folderVars, plan, fresh, nextId, gone>>

FixSecrets ==
    LET doomed == UnmatchedSecrets(call.cur)
        del == secrets' = secrets \ doomed /\ Freed("secrets", AboutSecrets(doomed)) IN
    /\ pc = "fixSecrets"
    /\ \/ del /\ NoFault /\ pc' = "fixSources" /\ UNCHANGED call
       \/ TxError("secrets", del, UNCHANGED <<secrets, residue>>) /\ RepairFails
    /\ UNCHANGED <<evidence, indexVars, sources, sigVars, temps, plan, fresh, nextId, gone>>

FixSources ==
    LET doomed == DanglingSources(call.cur)
        del == sources' = sources \ doomed /\ Freed("sources", AboutSources(doomed)) IN
    /\ pc = "fixSources"
    /\ \/ del /\ NoFault /\ pc' = "fixSigs" /\ UNCHANGED call
       \/ TxError("sources", del, UNCHANGED <<sources, residue>>) /\ RepairFails
    /\ UNCHANGED <<evidence, indexVars, secrets, sigVars, temps, plan, fresh, nextId, gone>>

FixSigs ==
    LET del == sigs' = sigs \ UnmatchedSigs(call.cur) IN
    /\ pc = "fixSigs"
    /\ \/ del /\ NoFault /\ pc' = "scan" /\ UNCHANGED call
       \/ TxError("sigs", del, UNCHANGED sigs) /\ RepairFails
    /\ UNCHANGED <<evidence, indexVars, secrets, sources, signing, pageVars, plan, fresh, nextId, gone>>

RepairStep == RepairChain \/ FixSecrets \/ FixSources \/ FixSigs

\* Refused on a sink that already holds chains without signatures.
RequireRecordSigning ==
    /\ pc = "idle"
    /\ ~signing /\ evidence = {}
    /\ signing' = TRUE
    /\ NoFault
    /\ UNCHANGED <<evidence, indexVars, secrets, sources, sigs, pageVars, callVars>>

=============================================================================
