----------------------------- MODULE SinkVerify -----------------------------
(***************************************************************************)
(* Sink.VerifyEach: the chains one by one, then a cross-chain sweep in      *)
(* stages.  Every step here is one unit of work; a page of the code is one  *)
(* or more units under one hold of the lock, and between any two units a    *)
(* page may end and writers get in.  Rows keyed off the layout, ids the     *)
(* sink never writes and files that cannot be opened are left out.          *)
(***************************************************************************)
EXTENDS ReadFolder

CONSTANT Trusts    \* the options Verify is called with

ASSUME VerifyAssumption == Trusts \subseteq Options

VARIABLE run       \* the VerifyEach call: where it is, and what it has to report

\* rows are the sweep's reports for chains the evidence file does not hold: the
\* index state each was given, or "none" for no row.
NoRun == [at |-> "idle", opts |-> [trust |-> FALSE, require |-> FALSE], cursor |-> 0,
          rows |-> [c \in Chains |-> "none"], problems |-> [c \in Chains |-> {}],
          reported |-> {}, removed |-> {}, erased |-> {}, invalid |-> FALSE,
          todo |-> {}, source |-> 0, srcChain |-> 0, srcHeld |-> FALSE, srcIds |-> {},
          noChain |-> [c \in Chains |-> 0],
          began |-> [c \in Chains |-> {}], felt |-> [c \in Chains |-> {}], since |-> [c \in Chains |-> "nothing"]]

Least(S) == CHOOSE c \in S : \A d \in S : c <= d

VerifyStart(opts) ==
    /\ run.at = "idle"
    /\ run' = [NoRun EXCEPT !.at = "walk", !.opts = opts, !.began = harm, !.felt = harm, !.since = struck]

\* The next stage starts at its first key.
Stage(r, next) == [r EXCEPT !.at = next, !.cursor = 0]

\* A stage that goes through the chains that have a row, in key order, and looks at
\* the evidence file for each.  looked[c] is the report after c's row.
Sweep(stage, next, having, looked) ==
    /\ run.at = stage
    /\ LET left == {c \in having : c > run.cursor} IN
       run' = IF left = {} THEN Stage(run, next)
              ELSE [looked[Least(left)] EXCEPT !.cursor = Least(left)]

AddProblems(r, c, ps) == [r EXCEPT !.problems[c] = @ \cup ps]
RowFor(r, c) == IF r.rows[c] = "none" THEN [r EXCEPT !.rows[c] = "absent"] ELSE r

-----------------------------------------------------------------------------
(* 1. The chains *)

Walked(r, c) == [AddProblems(r, c, Problems(folder[c], r.opts)) EXCEPT
                   !.reported = @ \cup {c},
                   !.erased = IF ReportsErased(folder[c], r.opts) THEN @ \cup {c} ELSE @]
WalkChain == Sweep("walk", "index", {c \in Chains : Held(folder[c])}, [c \in Chains |-> Walked(run, c)])

-----------------------------------------------------------------------------
(* 2. The sweep *)

\* Mutant of InStore: the evidence file is not looked at again, once a chain was
\* walked.
InStoreAtWalk(r, c) == c \in r.reported

\* The evidence file, at this moment.
InStore(r, c) == Held(folder[c])

\* Stage 0: reverse rows.
IndexSeen(r, c) ==
    CASE InStore(r, c) -> r
      [] ~InStore(r, c) /\ folder[c].index = "live"    -> [r EXCEPT !.rows[c] = "index-only"]
      [] ~InStore(r, c) /\ folder[c].index = "pending" -> AddProblems([r EXCEPT !.rows[c] = "pending"], c, {"pending"})
      [] OTHER -> AddProblems([r EXCEPT !.rows[c] = "malformed"], c, {"malformed"})
SweepIndex ==
    Sweep("index", "forward", {c \in Chains : folder[c].index # "absent"}, [c \in Chains |-> IndexSeen(run, c)])

\* Stage 1: forward rows that disagree; one that names no chain known is not shown.
ForwardSeen(r, c) ==
    CASE InStore(r, c) -> AddProblems(r, c, {"malformed"})
      [] ~InStore(r, c) /\ r.rows[c] # "none" -> AddProblems([r EXCEPT !.rows[c] = "malformed"], c, {"malformed"})
      [] OTHER -> [r EXCEPT !.invalid = TRUE]
SweepForward ==
    Sweep("forward", "open anchors", {c \in Chains : ~folder[c].forward}, [c \in Chains |-> ForwardSeen(run, c)])

\* Stage 2: the handle of anchors/ is kept across pages, and lists the folders that
\* were there when it was opened, in any order.
OpenAnchors ==
    /\ run.at = "open anchors"
    /\ run' = [run EXCEPT !.at = "anchors", !.todo = {c \in Chains : folder[c].anchors # <<>>}]

Removed(r, c) == [r EXCEPT !.removed = @ \cup {c}]

SweepAnchors ==
    /\ run.at = "anchors"
    /\ \/ run.todo = {} /\ run' = Stage(run, "content")
       \/ \E c \in run.todo :
             LET r == [run EXCEPT !.todo = @ \ {c}] IN
             run' = IF InStore(r, c) THEN r ELSE AddProblems(Removed(RowFor(r, c), c), c, {"checkpoints"})

\* The index binds the chain, or an erasure of it is not finished.
Explained(r, c) == r.rows[c] \in {"index-only", "pending"}

\* Stage 4: content and nonces.
ContentSeen(r, c) ==
    LET row == AddProblems(RowFor(r, c), c, {"content"}) IN
    CASE InStore(r, c) -> r
      [] ~InStore(r, c) /\ Explained(row, c) -> row
      [] OTHER -> Removed(row, c)
SweepContent ==
    Sweep("content", "signatures", {c \in Chains : folder[c].secrets # {}}, [c \in Chains |-> ContentSeen(run, c)])

\* Stage 7: signatures; beside an index row they are only counted.
SignaturesSeen(r, c) ==
    LET row == RowFor(r, c) IN
    CASE InStore(r, c) -> r
      [] ~InStore(r, c) /\ Explained(row, c) -> row
      [] OTHER -> AddProblems(Removed(row, c), c, {"signatures"})
SweepSignatures ==
    Sweep("signatures", "sources", {c \in Chains : folder[c].sigs # {}}, [c \in Chains |-> SignaturesSeen(run, c)])

-----------------------------------------------------------------------------
(* Stage 8: source positions.  A chain's rows are together; whether the         *)
(* evidence file holds the chain, and the entries pointed at so far, are kept   *)
(* for one chain at a time.                                                     *)

\* Mutant of SameChain: the entries pointed at are forgotten at every row.
NeverSameChain(r, c) == FALSE

SameChain(r, c) == r.srcChain = c

\* Positions after the cursor, in key order: the chain, then the source.
RowsLeft == {x \in Chains \X Sources :
                /\ folder[x[1]].sources[x[2]] # 0
                /\ x[1] > run.cursor \/ (x[1] = run.cursor /\ x[2] > run.source)}
FirstRow(S) == CHOOSE x \in S : \A y \in S : x[1] < y[1] \/ (x[1] = y[1] /\ x[2] <= y[2])

SweepSources ==
    /\ run.at = "sources" /\ RowsLeft # {}
    /\ LET c  == FirstRow(RowsLeft)[1]
           s  == FirstRow(RowsLeft)[2]
           id == folder[c].sources[s]
           r  == [run EXCEPT !.cursor = c, !.source = s, !.srcChain = c,
                             !.srcHeld = IF SameChain(run, c) THEN @ ELSE InStore(run, c),
                             !.srcIds = IF SameChain(run, c) THEN @ ELSE {}] IN
       run' = CASE ~r.srcHeld -> [r EXCEPT !.noChain[c] = @ + 1]
                [] r.srcHeld /\ id \notin Ids(folder[c]) -> AddProblems(r, c, {"dangling"})
                [] r.srcHeld /\ id \in Ids(folder[c]) /\ id \in r.srcIds -> AddProblems(r, c, {"shared"})
                [] OTHER -> [r EXCEPT !.srcIds = @ \cup {id}]

\* sourceRows, and the reports of the sweep.
SweepDone ==
    /\ run.at = "sources" /\ RowsLeft = {}
    /\ LET none == {c \in Chains : run.noChain[c] > 0} IN
       run' = [run EXCEPT !.at = "done",
                 !.rows = [c \in Chains |-> IF c \in none /\ run.rows[c] = "none" THEN "absent" ELSE run.rows[c]],
                 !.removed = @ \cup {c \in none : ~Explained(run, c)},
                 !.problems = [c \in Chains |-> run.problems[c] \cup {"no chain" : d \in none \cap {c}}]]

\* A page that cannot be opened (ErrBusy), or a reader who has enough: the call ends
\* with what was reported so far.
VerifyStops == run.at \notin {"idle", "done"} /\ run' = NoRun

VerifyStep ==
    \/ \E opts \in Trusts : VerifyStart(opts)
    \/ WalkChain \/ SweepIndex \/ SweepForward \/ OpenAnchors \/ SweepAnchors
    \/ SweepContent \/ SweepSignatures \/ SweepSources \/ SweepDone \/ VerifyStops

=============================================================================
