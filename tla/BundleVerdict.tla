--------------------------- MODULE BundleVerdict ----------------------------
(***************************************************************************)
(* exportbundle.Verify on the chains of a bundle that was read: the checks  *)
(* of one chain, its checkpoints and record signatures, and the verdicts.   *)
(* Problems are counted per code in the program; here they are the set of   *)
(* codes.                                                                   *)
(***************************************************************************)
EXTENDS AnchorBind, FiniteSets

\* An entry also has the previous_hash it was stored with, what was disclosed of it
\* (0: nothing, -1: no valid content and nonce) and its record signature.
\* Chain ids the sink mints are positive.
ValidChain(c) == c.chain > 0

Event(e)   == e.type = "event"
Erasure(e) == e.type = "erasure"

\* entryShape: ids the sink assigns are positive.
WellFormed(e) ==
    e.stamp = "exact" /\ e.seq >= 0 /\ e.id > 0 /\ e.prev # BadHash /\ IsDigest(e.content) /\ e.hash # BadHash

DisclosedBad(e) == e.disclosed # 0 /\ (~Event(e) \/ e.disclosed < 0)
Opens(e) == e.content = Commitment(e.disclosed)

\* Linked to a predecessor that can be read.
Linked(es, i) == i > 1 /\ WellFormed(es[i]) /\ WellFormed(es[i - 1])

HoldsErasure(es) == {i \in DOMAIN es : Linked(es, i) /\ es[i].content = ErasureHash(es[i - 1].seq)}
LastErasureOf(es) == Max({0} \cup HoldsErasure(es))

\* First pass: shapes, repeated ids, links and the chain hash.
LinkCodes(es, i) ==
    LET e == es[i] IN
    (IF ~WellFormed(e) \/ DisclosedBad(e) THEN {"field-shape"} ELSE {})
    \cup (IF \E j \in 1..(i - 1) : es[j].id = e.id /\ WellFormed(es[j]) THEN {"duplicate-entry-id"} ELSE {})
    \cup (IF i = 1 /\ WellFormed(e) /\ (e.seq # 0 \/ e.prev # NoHash) THEN {"first-entry"} ELSE {})
    \cup (IF Linked(es, i) /\ e.seq # es[i - 1].seq + 1 THEN {"sequence"} ELSE {})
    \cup (IF Linked(es, i) /\ e.prev # es[i - 1].hash THEN {"link"} ELSE {})
    \cup (IF WellFormed(e) /\ Append(e.prev, <<FormatV3, e.seq, e.content>>) # e.hash THEN {"chain-hash"} ELSE {})

\* Second pass: the first matching row decides each well-formed entry.
Outcome(es, i) ==
    LET e == es[i]
        last == LastErasureOf(es)
        holds == i \in HoldsErasure(es) IN
    CASE last > 0 /\ i > last      -> "after-erasure"
      [] DisclosedBad(e)           -> "field-shape"
      [] holds /\ Erasure(e)       -> "erasure"
      [] holds \/ Erasure(e)       -> "erasure-invalid"
      [] ~Event(e)                 -> "entry-type"
      [] last > 0 /\ e.disclosed = 0 -> "erased"
      [] last > 0                  -> "erased-event-disclosed"
      [] e.disclosed = 0           -> "committed"
      [] Opens(e)                  -> "opened"
      [] OTHER                     -> "modified"

Good == {"erasure", "erased", "committed", "opened"}

EntryCodes(es, i) ==
    LinkCodes(es, i) \cup (IF WellFormed(es[i]) THEN {Outcome(es, i)} \ Good ELSE {})

-----------------------------------------------------------------------------
(* Checkpoints: the first that fails ends the series *)

FirstMalformed(es) == CHOOSE n \in 1..(Len(es) + 1) :
    /\ n <= Len(es) => ~WellFormed(es[n])
    /\ \A i \in 1..(n - 1) : WellFormed(es[i])

KeyCode(a, keys, signed) ==
    CASE keys = {} -> ""
      [] keys # {} /\ a.key \notin keys -> "checkpoint-unknown-key"
      [] keys # {} /\ a.key \in keys /\ (a.sig # "made" \/ Canonical(a) \notin signed) -> "checkpoint-bad-signature"
      [] OTHER -> ""

CheckCheckpoint(c, a, s, keys, signed) ==
    CASE a.version # MaxVersion \/ ~ValidVersion(a) -> "checkpoint-malformed"
      [] ~ValidChain(c) \/ a.subject # c.chain         -> "checkpoint-subject"
      [] a.prev # s.prevId \/ a.count <= s.covered  -> "checkpoint-sequence"
      [] a.count > Len(c.entries)                   -> "checkpoint-overreach"
      [] \/ a.count >= FirstMalformed(c.entries)
         \/ a.start # c.entries[1].id
         \/ a.end # c.entries[a.count].id           -> "checkpoint-binding"
      [] AnchorHash(s.prevHash, c.chain, a.start, a.end, c.entries[a.count].hash) # a.hash -> "checkpoint-binding"
      [] OTHER -> KeyCode(a, keys, signed)

CheckCheckpoints(c, keys, signed) ==
    LET Step(s, a) ==
            IF s.code # "" THEN s
            ELSE LET code == CheckCheckpoint(c, a, s, keys, signed) IN
                 IF code # "" THEN [s EXCEPT !.code = code]
                 ELSE [s EXCEPT !.prevId = a.id, !.prevHash = a.hash, !.covered = a.count] IN
    FoldLeft(Step, [code |-> "", prevId |-> SeedID, prevHash |-> SeedHash, covered |-> 0], c.anchors)

-----------------------------------------------------------------------------
(* Record signatures *)

\* What a record signature covers.
RecordEnvelope(chain, e) == <<chain, e.id, e.type, e.seq, e.prev, e.content>>

CheckRecordSignature(c, e, keys, signed) ==
    CASE e.sig = "none"      -> "unsigned"
      [] e.sig = "malformed" -> "malformed-signature"
      [] e.sig \notin keys \cup {"none", "malformed"} -> "unknown-key"
      [] \/ ~ValidChain(c) \/ ~WellFormed(e) \/ ~(Event(e) \/ Erasure(e)) \/ (e.prev = NoHash) # (e.seq = 0)
         \/ RecordEnvelope(c.chain, e) \notin signed -> "bad-signature"
      [] OTHER -> ""

-----------------------------------------------------------------------------
(* The chain, and the bundle *)

\* trust: the keys given for checkpoints and for records; signed: what was signed.
CheckChain(c, trust, signed) ==
    LET es == c.entries
        ck == CheckCheckpoints(c, trust.checkpoint, signed.anchors)
        Record(i) == IF trust.record = {} THEN {} ELSE {CheckRecordSignature(c, es[i], trust.record, signed.records)} \ {""}
        byRecord == {i \in DOMAIN es : trust.record # {} /\ Record(i) = {}}
        byCheckpoint == {i \in DOMAIN es : trust.checkpoint # {} /\ i <= ck.covered /\ WellFormed(es[i])}
        problems == UNION {EntryCodes(es, i) \cup Record(i) : i \in DOMAIN es} \cup ({ck.code} \ {""})
                    \cup (IF ValidChain(c) THEN {} ELSE {"invalid-chain-id"})
        last == LastErasureOf(es) IN
    [problems |-> problems,
     opened   |-> {i \in DOMAIN es : WellFormed(es[i]) /\ Outcome(es, i) = "opened"},
     covered  |-> ck.covered, authenticated |-> byRecord \cup byCheckpoint,
     erasure  |-> CASE last = 0 \/ Outcome(es, last) # "erasure" -> "none"
                    [] problems = {} /\ trust.checkpoint # {} /\ last <= ck.covered -> "anchored"
                    [] problems = {} /\ last \in byRecord -> "signed"
                    [] OTHER -> "recorded",
     verdict  |-> CASE problems # {} -> "failed"
                    [] problems = {} /\ DOMAIN es # byRecord \cup byCheckpoint -> "unauthenticated"
                    [] OTHER -> "ok"]

Worse(a, b) == CASE "failed" \in {a, b} -> "failed"
                 [] "failed" \notin {a, b} /\ "unauthenticated" \in {a, b} -> "unauthenticated"
                 [] OTHER -> "ok"

\* A bundle with two copies of a chain fails, one without chains authenticates nothing.
Verify(chains, trust, signed) ==
    LET Step(v, c) == Worse(v, CheckChain(c, trust, signed).verdict) IN
    IF \E i, j \in DOMAIN chains : i # j /\ chains[i].chain = chains[j].chain THEN "failed"
    ELSE FoldLeft(Step, IF chains = <<>> THEN "unauthenticated" ELSE "ok", chains)

=============================================================================
