----------------------------- MODULE ChainWalk ------------------------------
(***************************************************************************)
(* verify.Walker: a chain's entries, read one by one, each hash derived from *)
(* the one before it.                                                       *)
(*                                                                          *)
(* A hash is what it was computed over: the sequence of <<version, number,  *)
(* content>> of the entries up to it, so two hashes are equal exactly when  *)
(* their preimages are.  An instant is part of the content; how a timestamp *)
(* is spelled is a field of its own.  v2's run id goes with its number.     *)
(***************************************************************************)
EXTENDS Integers, Sequences, SequencesExt

\* Content hashes: a commitment to a value, the record of an erasure up to a
\* sequence number, a tombstone's random value, and something that is no digest.
Commitment(v)  == <<"event", v>>
ErasureHash(n) == <<"erasure", n>>
TombstoneHash  == <<"tombstone", 0>>
NoDigest       == <<"malformed", 0>>
IsDigest(h)    == h[1] \in {"event", "erasure"}

\* Chain hashes: none, one that is no digest, and one nobody knows a preimage of.
NoHash    == <<>>
BadHash   == <<<<0, 0, NoDigest>>>>
OtherHash == <<<<1, 0, NoDigest>>>>

FormatV2 == 2
FormatV3 == 3
NormalizeFormatVersion(v) == IF v = 0 THEN FormatV2 ELSE v

\* v3 binds the chain-wide sequence, v2 the run's own number.
ComputeChainHash(prev, e) ==
    LET v == NormalizeFormatVersion(e.version) IN
    Append(prev, <<v, IF v = FormatV3 THEN e.seq ELSE e.num, e.content>>)

ValidHashInputs(prev, e) ==
    /\ prev # BadHash /\ IsDigest(e.content) /\ e.seq >= 0
    /\ NormalizeFormatVersion(e.version) = FormatV2 => e.num >= 0 /\ e.run

\* By its type and its id; ids below zero are the tombstones' own.
IsTombstone(e) == e.type = "tombstone" /\ e.id < 0

-----------------------------------------------------------------------------
(* Walker.Add *)

NewWalker(previous) ==
    [previous |-> previous, start |-> previous, seq |-> 0, count |-> 0, firstId |-> 0, lastId |-> 0, head |-> NoHash,
     breaks |-> <<>>, lastTombstone |-> 0, tombstones |-> 0]

\* What an entry declares beside its hash.
FormatBreaks(e) ==
    CASE NormalizeFormatVersion(e.version) = FormatV2 -> <<>>
      [] NormalizeFormatVersion(e.version) = FormatV3 -> IF e.run \/ e.num # 0 THEN <<"format_field_misuse">> ELSE <<>>
      [] OTHER -> <<"unknown_format">>

\* Format only: a tombstone's hash cannot be derived from what is left of it.
TombstoneBreaks(e) ==
    FormatBreaks(e)
    \o (IF e.seq < 0 THEN <<"invalid_field">> ELSE <<>>)
    \o (IF e.content # TombstoneHash THEN <<"invalid_tombstone">> ELSE <<>>)

Recomputable(w, e) ==
    ~IsTombstone(e) /\ e.hash # BadHash /\ e.stamp # "unreadable" /\ FormatBreaks(e) = <<>> /\ ValidHashInputs(w.previous, e)

\* Mutant of EntryBreaks: a respelled timestamp is taken for a broken one, and the
\* hash is not looked at.
EntryBreaksNoHash(w, e) ==
    CASE e.hash = BadHash -> <<"invalid_field">>
      [] IsTombstone(e)   -> TombstoneBreaks(e)
      [] e.stamp # "exact" -> <<"invalid_timestamp">>
      [] OTHER -> FormatBreaks(e)

EntryBreaks(w, e) ==
    CASE e.hash = BadHash -> <<"invalid_field">>
      [] e.hash # BadHash /\ IsTombstone(e) -> TombstoneBreaks(e)
      [] e.hash # BadHash /\ ~IsTombstone(e) /\ e.stamp = "unreadable" -> <<"invalid_timestamp">>
      [] OTHER ->
           (IF e.stamp = "exact" THEN <<>> ELSE <<"invalid_timestamp">>)
           \o CASE FormatBreaks(e) # <<>> -> FormatBreaks(e)
                [] FormatBreaks(e) = <<>> /\ ~ValidHashInputs(w.previous, e) -> <<"invalid_field">>
                [] OTHER -> IF ComputeChainHash(w.previous, e) = e.hash THEN <<>> ELSE <<"hash_mismatch">>

\* Mutant of Advance: a tombstone is linked from like any other entry.
AdvanceRecomputed(w, e) == ComputeChainHash(w.previous, e)

\* The next entry links from the hash derived here, or from the stored one where
\* none can be.
Advance(w, e) == IF Recomputable(w, e) THEN ComputeChainHash(w.previous, e) ELSE e.hash

Add(w, e) ==
    LET i == w.count + 1
        found == (IF i = 1 /\ w.start = BadHash THEN <<"invalid_field">> ELSE <<>>)
                 \o (IF i > 1 /\ e.seq # w.seq + 1 THEN <<"sequence_gap">> ELSE <<>>)
                 \o EntryBreaks(w, e) IN
    [w EXCEPT !.count = i, !.seq = e.seq, !.previous = Advance(w, e),
              !.firstId = IF i = 1 THEN e.id ELSE @, !.lastId = e.id, !.head = e.hash,
              !.breaks = @ \o [k \in DOMAIN found |-> <<i, found[k]>>],
              !.tombstones = IF e.hash # BadHash /\ IsTombstone(e) THEN @ + 1 ELSE @,
              !.lastTombstone = IF e.hash # BadHash /\ IsTombstone(e) THEN i ELSE @]

\* Chain, for entries that link from previous (none for a whole chain).
Chain(entries, previous) == FoldLeft(Add, NewWalker(previous), entries)

Intact(w)     == w.breaks = <<>>
FirstBreak(w) == IF Intact(w) THEN 0 ELSE w.breaks[1][1]

=============================================================================
