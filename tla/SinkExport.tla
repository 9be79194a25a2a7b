----------------------------- MODULE SinkExport -----------------------------
(***************************************************************************)
(* Sink.Export: the chains are selected first, then each is read whole in a *)
(* page of its own and written to the bundle; writers get in between.       *)
(* Limits on size, ids the sink never writes and encodings are left out.    *)
(***************************************************************************)
EXTENDS ReadFolder

CONSTANT Listed     \* <<chain, id>>: the events DiscloseListed may name

ASSUME ExportAssumption == Listed \subseteq Chains \X Nat

VARIABLE export     \* the Export call, and the bundle it has written so far

Selections == {"all", "subject", "chains"}
\* DiscloseNone, DiscloseAll, or the one event listed.
Policies == [all : BOOLEAN, ids : {{}}] \cup [all : {FALSE}, ids : {{x} : x \in Listed}]

NoExport == [at |-> "idle", sel |-> "all", policy |-> [all |-> FALSE, ids |-> {}], cursor |-> 0,
             chains |-> {}, found |-> {}, bundle |-> {}, incomplete |-> {}, pending |-> {}, felt |-> [c \in Chains |-> {}]]

Smallest(S) == CHOOSE c \in S : \A d \in S : c <= d

\* checkSelection; then the subject's chains in one page, or the chains as given.
ExportStart(sel, policy) ==
    /\ export.at = "idle"
    /\ LET ex == [NoExport EXCEPT !.sel = sel, !.policy = policy, !.felt = harm]
           chosen == CASE sel = "subject" -> {c \in Chains : folder[c].index = "live"}
                       [] sel = "chains"  -> Chains
                       [] OTHER           -> {} IN
       export' = IF sel = "all" THEN [ex EXCEPT !.at = "list"]
                 ELSE IF chosen = {} THEN [ex EXCEPT !.at = "failed"]
                 ELSE [ex EXCEPT !.at = "chains", !.chains = chosen]

\* exportChains, for all: the evidence file's chains, page by page.
ListChains ==
    /\ export.at = "list"
    /\ LET left == {c \in Chains : Held(folder[c]) /\ c > export.cursor} IN
       export' = CASE left # {} -> [export EXCEPT !.cursor = Smallest(left), !.chains = @ \cup {Smallest(left)}]
                   [] left = {} /\ export.chains = {} -> [export EXCEPT !.at = "failed"]
                   [] OTHER -> [export EXCEPT !.at = "chains"]

-----------------------------------------------------------------------------
(* exporter.chain *)

Wanted(ex, c, id) == ex.policy.all \/ <<c, id>> \in ex.policy.ids

\* Mutant of Disclosable: only the erasure entry counts, not the pending row.
DisclosableUnlessErased(f, i) == f.log[i].type = "event" /\ i > LastErasure(f)

\* Never an erasure record, an event before one, or an event of a chain whose
\* erasure is pending.
Disclosable(f, i) == f.log[i].type = "event" /\ i > LastErasure(f) /\ f.index # "pending"

\* A listed entry that is not disclosable, or a live event asked for whose content
\* is missing, fails the export; the chains written before it stay written.
Refused(ex, c, f) ==
    \E i \in DOMAIN f.log :
        LET id == f.log[i].id IN
        \/ <<c, id>> \in ex.policy.ids /\ ~Disclosable(f, i)
        \/ Wanted(ex, c, id) /\ Disclosable(f, i) /\ id \notin f.secrets

Disclosed(ex, c, f) == {f.log[i].id : i \in {i \in DOMAIN f.log : Disclosable(f, i) /\ Wanted(ex, c, f.log[i].id)}}

\* Mutant of ChainOut: the checkpoint files are those of the last chain written.
ChainOutStale(ex, c) ==
    LET f == folder[c] IN
    [chain |-> c, log |-> f.log, sigs |-> f.sigs \cap Ids(f),
     anchors |-> IF ex.bundle = {} THEN f.anchors ELSE (CHOOSE x \in ex.bundle : TRUE).anchors,
     disclosed |-> Disclosed(ex, c, f), forgotten |-> c \in erased]

\* Entries, signatures and checkpoint files exactly as stored.
ChainOut(ex, c) ==
    LET f == folder[c] IN
    [chain |-> c, log |-> f.log, sigs |-> f.sigs \cap Ids(f), anchors |-> f.anchors,
     disclosed |-> Disclosed(ex, c, f), forgotten |-> c \in erased]

ExportChain ==
    LET c == Smallest(export.chains)
        f == folder[c] IN
    /\ export.at = "chains" /\ export.chains # {}
    /\ export' =
         IF ~Held(f) \/ Refused(export, c, f) THEN [export EXCEPT !.at = "failed"]
         ELSE [export EXCEPT
                 !.chains = @ \ {c}, !.bundle = @ \cup {ChainOut(export, c)},
                 !.found = @ \cup {<<c, id>> : id \in Disclosed(export, c, f)},
                 !.incomplete = @ \cup (IF \E i \in 1..(LastErasure(f) - 1) : f.log[i].id \in f.secrets THEN {c} ELSE {}),
                 !.pending = @ \cup (IF f.index = "pending" /\ export.policy.all
                                        /\ \E i \in DOMAIN f.log : f.log[i].type = "event" /\ i > LastErasure(f)
                                     THEN {c} ELSE {})]

\* Every listed event must have been written.
ExportDone ==
    /\ export.at = "chains" /\ export.chains = {}
    /\ export' = IF export.policy.ids \subseteq export.found THEN [export EXCEPT !.at = "done"]
                 ELSE [export EXCEPT !.at = "failed"]

ExportStep ==
    \/ \E sel \in Selections, policy \in Policies : ExportStart(sel, policy)
    \/ ListChains \/ ExportChain \/ ExportDone

=============================================================================
