---------------------------- MODULE ChainVerdict ----------------------------
(***************************************************************************)
(* What verification says of one chain, from what the folder holds for it: *)
(* Sink.verifyChain, read under one hold of the lock.                      *)
(*                                                                         *)
(* A chain is a record: its log of events and erasures, the ids it has     *)
(* content (with a nonce) and signatures for, the entry id each source     *)
(* position points at (0: no row), its reverse index row, whether its      *)
(* forward row agrees, and the entries each checkpoint covers (what the hash *)
(* in it is of).  Links are the Walker module's matter.                    *)
(***************************************************************************)
EXTENDS Naturals, Sequences, SequencesExt, FiniteSets

Event(i)   == [id |-> i, type |-> "event"]
Erasure(i) == [id |-> i, type |-> "erasure"]

\* A checkpoint file created and not written.
Torn == <<>>

Held(f) == f.log # <<>>
Ids(f)  == {f.log[i].id : i \in DOMAIN f.log}

\* Where the genuine erasures are: never the first entry.
Erasures(f)    == {i \in DOMAIN f.log : i > 1 /\ f.log[i].type = "erasure"}
LastErasure(f) == IF Erasures(f) = {} THEN 0 ELSE CHOOSE i \in Erasures(f) : \A j \in Erasures(f) : j <= i
EndsErased(f)  == Held(f) /\ LastErasure(f) = Len(f.log)

\* readAnchors and verify.Series: a file that is no checkpoint, or one of other entries
\* than the chain has, or of more.
SeriesFails(f) == \E n \in DOMAIN f.anchors : f.anchors[n] = Torn \/ ~IsPrefix(f.anchors[n], f.log)
CoveredBy(f)   == IF f.anchors = <<>> \/ SeriesFails(f) THEN 0 ELSE Len(f.anchors[Len(f.anchors)])

\* The index row against the log.
IndexProblems(f) ==
    CASE f.index = "live" /\ Erasures(f) # {} -> {"relinked"}
      [] f.index = "live"      -> {}
      [] f.index = "pending"   -> {"pending"}
      [] f.index = "malformed" -> {"malformed"}
      [] EndsErased(f)         -> {}
      [] OTHER                 -> {"unaccounted"}

HasContent(f, i) == f.log[i].id \in f.secrets

\* An erasure has its record, an event before the last erasure nothing, and any
\* other event its content.
CheckEntry(f, i) ==
    CASE f.log[i].type = "erasure" /\ i = 1 -> {"first"}
      [] f.log[i].type = "erasure" /\ i # 1 -> IF HasContent(f, i) THEN {} ELSE {"record"}
      [] f.log[i].type = "event" /\ i < LastErasure(f) -> IF HasContent(f, i) THEN {"still here"} ELSE {}
      [] OTHER -> IF HasContent(f, i) THEN {} ELSE {"missing"}

EntryProblems(f) == UNION {CheckEntry(f, i) : i \in DOMAIN f.log}

\* How Verify was called: WithRecordTrust, RequireCheckpoints.
Options == [trust : BOOLEAN, require : BOOLEAN]

Problems(f, opts) ==
    IndexProblems(f)
    \cup (IF Erasures(f) # {} /\ ~EndsErased(f) THEN {"follows"} ELSE {})
    \cup EntryProblems(f)
    \cup (IF SeriesFails(f) THEN {"series"} ELSE {})
    \cup (IF opts.require /\ CoveredBy(f) = 0 THEN {"no checkpoint"} ELSE {})
    \cup (IF f.secrets \subseteq Ids(f) THEN {} ELSE {"leftover"})
    \cup (IF opts.trust /\ ~(Ids(f) \subseteq f.sigs) THEN {"unsigned"} ELSE {})

OrphanSignatures(f) == f.sigs \ Ids(f)

\* IndexErased: a checkpoint covers the erasure, or its own signature verifies and
\* nothing else is wrong.
ReportsErased(f, opts) ==
    /\ f.index = "absent" /\ EndsErased(f)
    /\ \/ ~SeriesFails(f) /\ CoveredBy(f) = Len(f.log)
       \/ opts.trust /\ Problems(f, opts) = {} /\ OrphanSignatures(f) = {}

=============================================================================
