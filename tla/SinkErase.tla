----------------------------- MODULE SinkErase ------------------------------
(***************************************************************************)
(* EraseSubject, EraseSubjectClass and ResumeErasures: decide and sign the *)
(* erasure entries, forget the subject in one index transaction, complete  *)
(* every pending chain (one that fails stays pending, the others go on),   *)
(* rewrite the files, and only then clear the pending markers.             *)
(***************************************************************************)
EXTENDS SinkFolder

Live(c)      == reverse[c] \in Pairs
\* Mutant of PendingRows: a pending chain with no entries is passed over.
PendingWithEntries == {c \in Chains : reverse[c] = Pending /\ EntriesOf(c) # {}}
PendingRows  == {c \in Chains : reverse[c] = Pending}
ChainsOf(ps) == {forward[p] : p \in ps} \ {None}

\* The scopes of an erasure: a subject in one class, or in every class.
Scopes == {{p} : p \in Pairs} \cup {{p \in Pairs : p.subject = s} : s \in Subjects}

\* Mutant of NeedsErasure: a chain with no entries gets an erasure entry too.
NotErased(c) == ~EndsWithGenuineErasure(c)

\* presignErasures skips a chain with no entries, or one already erased.
NeedsErasure(c) == TailSeq(c) # -1 /\ ~EndsWithGenuineErasure(c)

\* Live rows on a chain that ends with an erasure: the index was put back.
RelinkedRows == {c \in Chains : Live(c) /\ EndsWithGenuineErasure(c)}

\* The erasure entry presigned for the chain being erased.
Presigned == {e \in plan : e.chain = call.cur /\ e.seq = TailSeq(call.cur) + 1}

\* An error of this chain's work: it stays pending and the others go on.
StaysPending ==
    /\ pc' = "nextChain"
    /\ call' = [call EXCEPT !.clean = FALSE]

-----------------------------------------------------------------------------
(* Before anything is forgotten *)

EraseStart(kind, who, signer) ==
    /\ pc = "idle"
    /\ \/ /\ ModeMismatch(signer)
          /\ pc' = "return"
          /\ call' = [NoCall EXCEPT !.kind = kind, !.who = who, !.outcome = "refused"]
       \/ /\ ~ModeMismatch(signer)
          /\ pc' = IF kind = "resume" THEN "relinked" ELSE "presign"
          /\ call' = [NoCall EXCEPT !.kind = kind, !.who = who, !.signer = signer]
    /\ NoFault
    /\ UNCHANGED <<folderVars, plan, fresh, nextId, gone>>

\* forgetChain: a live row becomes the pending marker, its forward row goes.
ChainForgotten(c) ==
    /\ forward' = [forward EXCEPT ![reverse[c]] = None]
    /\ reverse' = [reverse EXCEPT ![c] = Pending]
    /\ Freed("subjects", {reverse[c]})

\* Resume first: forgetRelinked, one transaction per live row on an erased chain.
ForgetRelinked ==
    /\ pc = "relinked"
    /\ \/ RelinkedRows = {} /\ pc' = "presign" /\ NoFault /\ UNCHANGED <<indexVars, residue, call>>
       \/ \E c \in RelinkedRows :
             \/ ChainForgotten(c) /\ NoFault /\ UNCHANGED <<pc, call>>
             \/ /\ TxError("subjects", ChainForgotten(c), UNCHANGED <<indexVars, residue>>)
                /\ ReturnWith("failed")
    /\ UNCHANGED <<evidence, secrets, sources, sigVars, temps, plan, fresh, nextId, gone>>

\* Read the pending rows and the subject's chains, check each can be erased, and
\* decide and sign one erasure entry per chain that needs one.  A pending chain
\* that cannot be read gets none.
Presign ==
    LET chains == PendingRows \cup ChainsOf(call.who)
        due == {c \in chains : NeedsErasure(c)} IN
    /\ pc = "presign"
    /\ \/ Fault /\ ReturnWith("refused") /\ UNCHANGED <<plan, nextId>>
       \/ /\ \/ NoFault /\ plan' = {ErasureEntry(c, nextId) : c \in due}
             \/ Fault /\ \E u \in PendingRows \cap due :
                            plan' = {ErasureEntry(c, nextId) : c \in due \ {u}}
          /\ nextId' = nextId + (IF due = {} THEN 0 ELSE 1)
          /\ call' = [call EXCEPT !.todo = PendingRows]
          /\ pc' = IF call.kind = "resume" THEN "nextChain" ELSE "forget"
    /\ UNCHANGED <<folderVars, fresh, gone>>

\* Mutant of Forgotten: the forward rows stay.
ForgottenReverse ==
    /\ UNCHANGED forward
    /\ reverse' = [c \in Chains |-> IF c \in ChainsOf(call.who) THEN Pending ELSE reverse[c]]
    /\ Freed("subjects", {p \in call.who : forward[p] # None})

\* subj.forget: the forward rows in scope go, their chains become pending.
Forgotten ==
    /\ forward' = [p \in Pairs |-> IF p \in call.who THEN None ELSE forward[p]]
    /\ reverse' = [c \in Chains |-> IF c \in ChainsOf(call.who) THEN Pending ELSE reverse[c]]
    /\ Freed("subjects", {p \in call.who : forward[p] # None})

Forget ==
    /\ pc = "forget"
    /\ \/ /\ Forgotten /\ NoFault
          /\ pc' = "nextChain"
          /\ call' = [call EXCEPT !.todo = @ \cup ChainsOf(call.who)]
       \/ TxError("subjects", Forgotten, UNCHANGED <<indexVars, residue>>) /\ ReturnWith("failed")
    /\ UNCHANGED <<evidence, secrets, sources, sigVars, temps, plan, fresh, nextId, gone>>

-----------------------------------------------------------------------------
(* eraseChain *)

\* Take the next pending chain and scan it.
NextChain ==
    /\ pc = "nextChain"
    /\ \/ /\ call.todo = {} /\ NoFault
          /\ pc' = "rewriteSecrets" /\ call' = [call EXCEPT !.cur = None]
       \/ \E c \in call.todo :
             LET taken == [call EXCEPT !.todo = @ \ {c}, !.cur = c] IN
             \/ /\ Fault                                   \* it cannot be read
                /\ pc' = "nextChain" /\ call' = [taken EXCEPT !.clean = FALSE]
             \/ /\ EntriesOf(c) = {} /\ NoFault
                /\ pc' = "leftSecrets" /\ call' = taken
             \/ /\ EndsWithGenuineErasure(c) /\ NoFault
                /\ pc' = "eraseSecrets" /\ call' = taken
             \/ /\ NeedsErasure(c) /\ NoFault
                /\ \/ /\ \E e \in plan : e.chain = c /\ e.seq = TailSeq(c) + 1
                      /\ pc' = "putRecord" /\ call' = taken
                   \/ /\ ~ \E e \in plan : e.chain = c /\ e.seq = TailSeq(c) + 1
                      /\ pc' = "nextChain" /\ call' = [taken EXCEPT !.clean = FALSE]
    /\ UNCHANGED <<folderVars, plan, fresh, nextId, gone>>

\* The erasure record, then its signature, both before the entry.
PutErasureRecord ==
    LET put == secrets' = secrets \cup {SecretRow(e) : e \in Presigned} IN
    /\ pc = "putRecord"
    /\ \/ /\ put /\ NoFault /\ UNCHANGED call
          /\ pc' = IF call.signer THEN "putRecordSig" ELSE "appendErasure"
       \/ TxError("secrets", put, UNCHANGED secrets) /\ StaysPending
    /\ UNCHANGED <<evidence, indexVars, sources, sigVars, pageVars, plan, fresh, nextId, gone>>

PutErasureSig ==
    LET put == sigs' = sigs \cup {SigRow(e) : e \in Presigned} /\ signing' = TRUE IN
    /\ pc = "putRecordSig"
    /\ \/ put /\ NoFault /\ pc' = "appendErasure"
       \/ TxError("sigs", put, UNCHANGED sigVars) /\ pc' = "undoRecord"
    /\ UNCHANGED <<evidence, indexVars, secrets, sources, pageVars, plan, fresh, call, nextId, gone>>

\* The erasure entry, pinned to its predicted place.  A head state left stale is
\* a success.  After an error: landed, not landed (undo), or it cannot be told.
AppendErasure ==
    LET append == evidence' = evidence \cup Presigned IN
    /\ pc = "appendErasure"
    /\ \/ append /\ NoFault /\ pc' = "eraseSecrets" /\ UNCHANGED call
       \/ /\ Fault /\ "evidence" \in LandedErrors /\ append
          /\ pc' = "eraseSecrets" /\ UNCHANGED call
       \/ TxError("evidence", append, UNCHANGED evidence) /\ StaysPending
       \/ Fault /\ UNCHANGED <<evidence, call>> /\ pc' = "undoRecord"
    /\ UNCHANGED <<indexVars, secrets, sources, sigVars, pageVars, plan, fresh, nextId, gone>>

\* undo: both removals are tried, whatever the first returns.
UndoRecord ==
    LET del == secrets' = secrets \ SecretsAt(Keys(Presigned)) IN
    /\ pc = "undoRecord"
    /\ \/ del /\ NoFault
       \/ TxError("secrets", del, UNCHANGED secrets)
    /\ \/ call.signer /\ pc' = "undoSig" /\ UNCHANGED call
       \/ ~call.signer /\ StaysPending
    /\ UNCHANGED <<evidence, indexVars, sources, sigVars, pageVars, plan, fresh, nextId, gone>>

UndoSig ==
    LET del == sigs' = sigs \ Keys(Presigned) IN
    /\ pc = "undoSig"
    /\ \/ del /\ NoFault
       \/ TxError("sigs", del, UNCHANGED sigs)
    /\ StaysPending
    /\ UNCHANGED <<evidence, indexVars, secrets, sources, signing, pageVars, plan, fresh, nextId, gone>>

\* sec.eraseChain: every content and nonce row of the chain but the records of its
\* genuine erasure entries; a missing record is put back.
EraseSecrets ==
    LET doomed == {r \in secrets : r.chain = call.cur}
        keep == {SecretRow(e) : e \in {x \in EntriesOf(call.cur) : Genuine(x)}}
        del == /\ secrets' = (secrets \ doomed) \cup keep
               /\ Freed("secrets", AboutSecrets(doomed)) IN
    /\ pc = "eraseSecrets"
    /\ \/ del /\ NoFault /\ pc' = "eraseSources" /\ UNCHANGED call
       \/ TxError("secrets", del, UNCHANGED <<secrets, residue>>) /\ StaysPending
    /\ UNCHANGED <<evidence, indexVars, sources, sigVars, temps, plan, fresh, nextId, gone>>

\* A chain with no entries: a first commit that never reached it left these rows.
LeftSecrets ==
    LET doomed == {r \in secrets : r.chain = call.cur}
        del == secrets' = secrets \ doomed /\ Freed("secrets", AboutSecrets(doomed)) IN
    /\ pc = "leftSecrets"
    /\ \/ del /\ NoFault /\ pc' = "eraseSources" /\ UNCHANGED call
       \/ TxError("secrets", del, UNCHANGED <<secrets, residue>>) /\ StaysPending
    /\ UNCHANGED <<evidence, indexVars, sources, sigVars, temps, plan, fresh, nextId, gone>>

\* deleteSources, the last step of a chain with entries; a signing sink's chain
\* without entries has its signatures to lose too.
EraseSources ==
    LET doomed == {r \in sources : r.chain = call.cur}
        del == sources' = sources \ doomed /\ Freed("sources", AboutSources(doomed)) IN
    /\ pc = "eraseSources"
    /\ \/ /\ del /\ NoFault
          /\ \/ /\ call.signer /\ EntriesOf(call.cur) = {}
                /\ pc' = "leftSigs" /\ UNCHANGED call
             \/ /\ ~call.signer \/ EntriesOf(call.cur) # {}
                /\ pc' = "nextChain" /\ call' = [call EXCEPT !.erased = @ \cup {call.cur}]
       \/ TxError("sources", del, UNCHANGED <<sources, residue>>) /\ StaysPending
    /\ UNCHANGED <<evidence, indexVars, secrets, sigVars, temps, plan, fresh, nextId, gone>>

LeftSigs ==
    LET del == sigs' = {r \in sigs : r.chain # call.cur} IN
    /\ pc = "leftSigs"
    /\ \/ /\ del /\ NoFault
          /\ pc' = "nextChain" /\ call' = [call EXCEPT !.erased = @ \cup {call.cur}]
       \/ TxError("sigs", del, UNCHANGED sigs) /\ StaysPending
    /\ UNCHANGED <<evidence, indexVars, secrets, sources, signing, pageVars, plan, fresh, nextId, gone>>

-----------------------------------------------------------------------------
(* Clearing, after the rewrites *)

\* clearErased: one transaction per chain, stopping at the first error.
ClearErased ==
    /\ pc = "clear"
    /\ \/ /\ call.erased = {} /\ NoFault
          /\ pc' = "rewriteAgain" /\ UNCHANGED <<reverse, call>>
       \/ \E c \in call.erased :
             LET cleared == reverse' = [reverse EXCEPT ![c] = IF @ = Pending THEN None ELSE @] IN
             \/ /\ cleared /\ NoFault
                /\ call' = [call EXCEPT !.erased = @ \ {c}] /\ UNCHANGED pc
             \/ /\ TxError("subjects", cleared, UNCHANGED reverse)
                /\ pc' = "finish" /\ call' = [call EXCEPT !.clean = FALSE]
    /\ UNCHANGED <<evidence, forward, secrets, sources, sigVars, pageVars, plan, fresh, nextId, gone>>

RewriteAgain == Rewrite("subjects", "rewriteAgain", "finish")

EraseStep ==
    \/ ForgetRelinked \/ Presign \/ Forget \/ NextChain
    \/ PutErasureRecord \/ PutErasureSig \/ AppendErasure \/ UndoRecord \/ UndoSig
    \/ EraseSecrets \/ LeftSecrets \/ EraseSources \/ LeftSigs
    \/ ClearErased \/ RewriteAgain

=============================================================================
