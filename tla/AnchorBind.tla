----------------------------- MODULE AnchorBind -----------------------------
(***************************************************************************)
(* Anchors against a chain: anchor.ChainHash, VerifySignature,              *)
(* Walker.bind, VerifyAnchor and verify.Series.                             *)
(*                                                                          *)
(* An anchor's chain hash is what it was computed over; a signature verifies *)
(* exactly over the anchors the key's holder signed.                        *)
(***************************************************************************)
EXTENDS ChainWalk

SeedID   == 0
SeedHash == <<>>
AnchorHash(prev, subject, start, end, head) == <<prev, subject, start, end, head>>

MaxVersion == 6
ValidCounts(a) == a.count >= 1 /\ a.through <= a.count /\ a.time >= 0
\* v5 is withdrawn; verified_through exists from v4 on; v6 names its subject.
ValidVersion(a) ==
    CASE a.version \in 1..3  -> a.through = 0
      [] a.version \in {4, 6} -> a.through > 0 /\ ValidCounts(a) /\ (a.version = 6 => a.subject # 0)
      [] OTHER -> FALSE

\* What is signed: every field the version has, the key id among them, not the signature.
Canonical(a) == [a EXCEPT !.sig = "none", !.through = IF a.version \in 1..3 THEN 0 ELSE @]

\* The key id is stamped before the canonical form is made.
SignAnchor(a, key) == [a EXCEPT !.key = key, !.sig = "made"]

\* keys: key ids the verifier holds; signed: the canonical forms their holders signed.
SignatureOK(a, keys, signed) == ValidVersion(a) /\ a.key \in keys /\ a.sig = "made" /\ Canonical(a) \in signed

\* Mutant of Bind: the anchor is bound to its head alone.
BindHeadOnly(w, a, prevHash) ==
    IF Intact(w) /\ AnchorHash(prevHash, a.subject, a.start, a.end, w.head) = a.hash THEN "bound" ELSE "head_mismatch"

\* The first thing in which the chain walked differs from what the anchor says.
Bind(w, a, prevHash) ==
    CASE w.start # NoHash \/ w.count = 0 \/ ~ValidVersion(a) -> "error"
      [] ~Intact(w) /\ w.breaks[1][2] \in {"unknown_format", "format_field_misuse"} -> "error"
      [] ~Intact(w)             -> "chain_broken"
      [] w.firstId # a.start    -> "range_start_mismatch"
      [] w.lastId # a.end       -> "range_end_mismatch"
      [] w.count # a.count      -> "height_mismatch"
      [] (prevHash = SeedHash) # (a.prev = SeedID) -> "predecessor_mismatch"
      [] AnchorHash(prevHash, a.subject, w.firstId, w.lastId, w.head) # a.hash -> "head_mismatch"
      [] OTHER -> "bound"

\* Checked even where the bind failed; nothing is bound beside a bad signature.
VerifyAnchor(w, a, prevHash, keys, signed) ==
    LET b == Bind(w, a, prevHash) IN
    CASE b = "error" -> "error"
      [] b # "error" /\ ~SignatureOK(a, keys, signed) -> "signature_invalid"
      [] OTHER -> b

\* The entries an anchor says nothing about.
NotBound(w) == w.lastTombstone

-----------------------------------------------------------------------------
(* Series *)

NewSeries == [next |-> 1, prevHash |-> SeedHash, prevId |-> SeedID, prevTime |-> 0, covered |-> 0, stopped |-> FALSE]

InOrder(s, a, subject) ==
    a.subject = subject /\ a.prev = s.prevId /\ a.count > s.covered /\ a.time >= s.prevTime

CheckNext(s, anchors, subject) ==
    IF ~s.stopped /\ s.next <= Len(anchors) /\ ~InOrder(s, anchors[s.next], subject) THEN [s EXCEPT !.stopped = TRUE] ELSE s

\* After every entry; the next anchor is bound once the walk is as long as it.
Reached(s, w, anchors, subject, keys, signed) ==
    IF s.stopped \/ s.next > Len(anchors) \/ anchors[s.next].count # w.count THEN s
    ELSE LET a == anchors[s.next] IN
         IF VerifyAnchor(w, a, s.prevHash, keys, signed) # "bound" THEN [s EXCEPT !.stopped = TRUE]
         ELSE CheckNext([s EXCEPT !.next = @ + 1, !.prevHash = a.hash, !.prevId = a.id, !.prevTime = a.time,
                                  !.covered = a.count], anchors, subject)

Finish(s, anchors) == IF ~s.stopped /\ s.next <= Len(anchors) THEN [s EXCEPT !.stopped = TRUE] ELSE s

\* VerifyAnchorSeries: the walk and the series, in one pass.
VerifyAnchorSeries(subject, entries, anchors, keys, signed) ==
    LET Step(acc, e) == LET w == Add(acc.walk, e) IN
                        [walk |-> w, series |-> Reached(acc.series, w, anchors, subject, keys, signed)]
        begin == [walk |-> NewWalker(NoHash), series |-> CheckNext(NewSeries, anchors, subject)]
        end == FoldLeft(Step, begin, entries) IN
    [end EXCEPT !.series = Finish(@, anchors)]

=============================================================================
