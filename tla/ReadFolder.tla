----------------------------- MODULE ReadFolder -----------------------------
(***************************************************************************)
(* The sink folder as Verify and Export read it: one record per chain, with *)
(* what each of the files holds for it.  Writers hold the evidence file's   *)
(* exclusive lock for a whole call, so a call is one step here, and may stop *)
(* after any of its transactions; the Sink modules model what is inside.    *)
(* A checkpointing process shares the readers' lock: its file may be seen   *)
(* before it is written.                                                    *)
(*                                                                          *)
(* Somebody who can write the folder may change it behind the sink's back:  *)
(* that is what verification is for.                                        *)
(***************************************************************************)
EXTENDS ChainVerdict

CONSTANTS
    Chains,     \* chain ids, in the order the store lists them; one pair each
    Sources,    \* source positions a record can carry, in key order
    MaxIds,     \* bound: entry ids assigned on a chain
    MaxOps,     \* bound: calls and changes in one behaviour
    MaxDamage   \* bound: changes behind the sink's back

ASSUME FolderAssumption ==
    /\ Chains \subseteq Nat \ {0} /\ Sources \subseteq Nat \ {0}
    /\ MaxIds \in Nat /\ MaxOps \in Nat /\ MaxDamage \in Nat

VARIABLES
    folder,    \* per chain, its rows in every file
    writing,   \* the chain whose checkpoint file is created and not written, or 0
    harm,      \* history: per chain, what befell it and still stands
    struck,    \* history: per chain, the last change behind the sink's back, with
               \* no call on the chain since, or "nothing"
    erased,    \* history: chains the sink itself erased or began to erase
    ops,       \* calls and changes left
    damage     \* changes behind the sink's back left

folderVars == <<folder, writing, harm, struck, erased, ops, damage>>

NoChain == [log |-> <<>>, secrets |-> {}, sigs |-> {}, sources |-> [s \in Sources |-> 0],
            index |-> "absent", forward |-> TRUE, anchors |-> <<>>, next |-> 1]

FolderInit ==
    /\ folder = [c \in Chains |-> NoChain] /\ writing = 0
    /\ harm = [c \in Chains |-> {}] /\ struck = [c \in Chains |-> "nothing"]
    /\ erased = {} /\ ops = MaxOps /\ damage = MaxDamage

Positions(f) == {s \in Sources : f.sources[s] # 0}

-----------------------------------------------------------------------------
(* Writers *)

Op == ops > 0 /\ ops' = ops - 1

Set(c, f)      == folder' = [folder EXCEPT ![c] = f]
Befalls(c, h)  == harm' = [harm EXCEPT ![c] = @ \cup h]
Heals(c, h)    == harm' = [harm EXCEPT ![c] = @ \ h]
Called(c)      == struck' = [struck EXCEPT ![c] = "nothing"]

\* A pair's live chain, or an id never used before (resolvePair).
Usable(c) == LET f == folder[c] IN
             /\ \/ f.index = "live" /\ Erasures(f) = {}
                \/ f = NoChain /\ c \notin erased
             /\ f.forward /\ f.next <= MaxIds

\* The rows of one commit, transaction by transaction.
Bind(f)        == [f EXCEPT !.index = "live"]

PutContent(f)  == [Bind(f) EXCEPT !.secrets = @ \cup {f.next}, !.next = @ + 1]
PutSigs(f)     == [PutContent(f) EXCEPT !.sigs = @ \cup {f.next}]
PutSource(f, s) == [PutSigs(f) EXCEPT !.sources[s] = f.next]
Committed(f, s) == [PutSource(f, s) EXCEPT !.log = Append(@, Event(f.next))]

\* A record whose position stands is a duplicate: nothing is written.
Commit(c, s) ==
    LET f == folder[c] IN
    /\ Op /\ writing = 0 /\ Usable(c) /\ f.sources[s] \notin Ids(f)
    /\ \/ Set(c, Committed(f, s)) /\ UNCHANGED harm
       \/ /\ folder' \in {[folder EXCEPT ![c] = g] : g \in {Bind(f), PutContent(f), PutSigs(f), PutSource(f, s)}}
          /\ Befalls(c, {"cut"})
    /\ Called(c) /\ UNCHANGED <<writing, erased, damage>>

\* eraseChain on a chain with entries: record and signature, then the entry; then the
\* content; then the positions; then the index row.  A chain without entries loses
\* its rows.
Prepared(f) == IF EndsErased(f) THEN f
               ELSE [f EXCEPT !.secrets = @ \cup {f.next}, !.sigs = @ \cup {f.next}, !.next = @ + 1]
Recorded(f) == IF EndsErased(f) THEN f
               ELSE [Prepared(f) EXCEPT !.log = Append(@, Erasure(f.next))]
Unopenable(f) == [Recorded(f) EXCEPT !.secrets = {Recorded(f).log[i].id : i \in Erasures(Recorded(f))}]
Emptied(f)  == [f EXCEPT !.secrets = {}, !.sigs = {}]
NoSources(f) == [f EXCEPT !.sources = [s \in Sources |-> 0]]
Wiped(f)    == NoSources(IF Held(f) THEN Unopenable(f) ELSE Emptied(f))
Gone(f)     == [Wiped(f) EXCEPT !.index = "absent"]
Forgotten(f) == [f EXCEPT !.index = "pending"]

\* A new erasure, or the resume of one that stopped.
Erase(c) ==
    LET f == folder[c] IN
    /\ Op /\ writing = 0 /\ f.index \in {"live", "pending"} /\ f.forward
    /\ erased' = erased \cup {c}
    /\ \/ Set(c, Gone(f)) /\ Heals(c, {"cut", "stopped", "relink"})
       \/ /\ \E g \in {f, Wiped(f)} \cup (IF Held(f) THEN {Prepared(f), Recorded(f), Unopenable(f)} ELSE {Emptied(f)}) :
                Set(c, Forgotten(g))
          /\ Befalls(c, {"stopped"})
    /\ Called(c) /\ UNCHANGED <<writing, damage>>

\* Repair removes what matches no entry, and leaves a pending chain alone, and one
\* without entries that the index does not bind or that has signatures.
NoLeftovers(f) == [f EXCEPT !.secrets = @ \cap Ids(f)]
Repaired(f) == [NoLeftovers(f) EXCEPT !.sigs = @ \cap Ids(f),
                         !.sources = [s \in Sources |-> IF @[s] \in Ids(f) THEN @[s] ELSE 0]]
Repair(c) ==
    LET f == folder[c] IN
    /\ Op /\ writing = 0 /\ f # Repaired(f) /\ ~SeriesFails(f)
    /\ f.index # "pending" /\ (Held(f) \/ (f.index = "live" /\ f.sigs = {}))
    /\ \/ Set(c, Repaired(f)) /\ Heals(c, {"cut"})
       \/ Set(c, NoLeftovers(f)) /\ UNCHANGED harm      \* it stops after the secrets file
    /\ Called(c) /\ UNCHANGED <<writing, erased, damage>>

-----------------------------------------------------------------------------
(* A checkpointing process, under the readers' lock *)

\* Verification finds nothing wrong, and an erasure is one the operator confirms.
CreateCheckpoint(c) ==
    LET f == folder[c] IN
    /\ Op /\ writing = 0 /\ Held(f) /\ CoveredBy(f) < Len(f.log)
    /\ Problems(f, [trust |-> FALSE, require |-> FALSE]) = {} /\ (EndsErased(f) => c \in erased)
    /\ Set(c, [f EXCEPT !.anchors = Append(@, Torn)])
    /\ writing' = c /\ Befalls(c, {"torn"}) /\ Called(c) /\ UNCHANGED <<erased, damage>>

WriteCheckpoint ==
    /\ writing # 0
    /\ LET f == folder[writing] IN
       Set(writing, [f EXCEPT !.anchors[Len(f.anchors)] = f.log])
    /\ Heals(writing, {"torn"})
    /\ writing' = 0 /\ UNCHANGED <<struck, erased, ops, damage>>

\* The process dies: the empty file stays, the lock is free.
KillCheckpoint ==
    /\ writing # 0 /\ writing' = 0
    /\ UNCHANGED <<folder, harm, struck, erased, ops, damage>>

-----------------------------------------------------------------------------
(* Changes behind the sink's back *)

\* What may be done to the rows of one chain, and what that is called.
Damages(f) ==
    (IF Held(f)
     THEN {<<"remove", [f EXCEPT !.log = <<>>]>>,
           <<"truncate", [f EXCEPT !.log = SubSeq(@, 1, Len(@) - 1)]>>,
           <<"forge", [f EXCEPT !.log = Append(@, Erasure(f.next)), !.secrets = {f.next}, !.index = "absent", !.next = @ + 1]>>}
          \cup {<<"content", [f EXCEPT !.secrets = @ \ {i}]>> : i \in f.secrets \cap Ids(f)}
          \cup {<<"unsign", [f EXCEPT !.sigs = @ \ {i}]>> : i \in f.sigs \cap Ids(f)}
          \cup {<<"share", [f EXCEPT !.sources[s] = f.sources[t]]>> :
                     s \in Sources, t \in {t \in Sources : f.sources[t] \in Ids(f)}}
     ELSE {})
    \cup (IF f.index = "live"
          THEN {<<"unbind", [f EXCEPT !.index = "absent"]>>,                          \* both index rows
                <<"reverse", [f EXCEPT !.index = "absent", !.forward = FALSE]>>,      \* one of them
                <<"forward", [f EXCEPT !.index = "malformed"]>>}
          ELSE {})
    \cup (IF EndsErased(f)
          THEN {<<"relink", [f EXCEPT !.index = "live"]>>,
                <<"follow", [f EXCEPT !.log = Append(@, Event(f.next)), !.secrets = @ \cup {f.next}, !.next = @ + 1]>>}
          ELSE {})

Damage(c) ==
    /\ Op /\ writing = 0 /\ damage > 0 /\ damage' = damage - 1
    /\ \E d \in Damages(folder[c]) :
          d[2] # folder[c] /\ Set(c, d[2]) /\ Befalls(c, {d[1]}) /\ struck' = [struck EXCEPT ![c] = d[1]]
    /\ UNCHANGED <<writing, erased>>

FolderStep ==
    \/ \E c \in Chains : \/ \E s \in Sources : Commit(c, s)
                         \/ Erase(c) \/ Repair(c) \/ CreateCheckpoint(c) \/ Damage(c)
    \/ WriteCheckpoint \/ KillCheckpoint

=============================================================================
