------------------------------ MODULE Evidence ------------------------------
(***************************************************************************)
(* A chain from its author to whoever verifies it.  The author writes        *)
(* entries, checkpoints and erasures and hands a copy over; on its way the   *)
(* copy may be altered by somebody who has no signing key, and who can       *)
(* compute every hash.  What the verifiers then say is a function of what    *)
(* they are handed, of the keys they trust and of what those keys signed.    *)
(***************************************************************************)
EXTENDS BundleVerdict

CONSTANTS
    MaxEntries,    \* bound: entries the author writes
    MaxAlter       \* bound: alterations on the way

ASSUME EvidenceAssumption == MaxEntries \in Nat /\ MaxAlter \in Nat

VARIABLES
    version,    \* the chain's format
    log,        \* the author's entries
    wrote,      \* history: the content hashes they were written with
    anchors,    \* the author's anchors
    signed,     \* what the author's key signed
    given,      \* the copy handed over, or Nothing
    altered     \* alterations made

vars == <<version, log, wrote, anchors, signed, given, altered>>

This   == 1
Author == "author"
Nothing == [chain |-> 0, entries |-> <<>>, anchors |-> <<>>]

Init ==
    /\ version \in {FormatV2, FormatV3}
    /\ log = <<>> /\ wrote = <<>> /\ anchors = <<>>
    /\ signed = [anchors |-> {}, records |-> {}]
    /\ given = Nothing /\ altered = 0

-----------------------------------------------------------------------------
(* The author *)

LastEntry == log[Len(log)]
Ended == log # <<>> /\ LastEntry.type = "erasure"

\* The linker: the entry after the tail.
Link(es, type, content) ==
    LET prev == IF es = <<>> THEN NoHash ELSE es[Len(es)].hash
        e == [id |-> Len(es) + 1, type |-> type, version |-> version, stamp |-> "exact", run |-> version = FormatV2,
              num |-> IF version = FormatV2 THEN Len(es) ELSE 0,
              seq |-> IF es = <<>> THEN 0 ELSE es[Len(es)].seq + 1,
              content |-> content, prev |-> prev, hash |-> NoHash, disclosed |-> 0, sig |-> Author] IN
    [e EXCEPT !.hash = ComputeChainHash(prev, e)]

Written(e) ==
    /\ log' = Append(log, e) /\ wrote' = Append(wrote, e.content)
    /\ signed' = [signed EXCEPT !.records = @ \cup {RecordEnvelope(This, e)}]
    /\ UNCHANGED <<version, anchors, given, altered>>

WriteEvent ==
    /\ given = Nothing /\ ~Ended /\ Len(log) < MaxEntries
    /\ Written(Link(log, "event", Commitment(Len(log) + 1)))

\* The sink's, in its own format.
WriteErasure ==
    /\ given = Nothing /\ version = FormatV3 /\ log # <<>> /\ ~Ended /\ \A i \in DOMAIN log : ~IsTombstone(log[i])
    /\ Written(Link(log, "erasure", ErasureHash(LastEntry.seq)))

\* A platform's erasure of one entry: its hash stays.
WriteTombstone(i) ==
    /\ given = Nothing /\ i \in DOMAIN log /\ ~Ended /\ ~IsTombstone(log[i])
    /\ log' = [log EXCEPT ![i] = [@ EXCEPT !.type = "tombstone", !.id = -@, !.content = TombstoneHash, !.disclosed = 0]]
    /\ UNCHANGED <<version, wrote, anchors, signed, given, altered>>

Covered(as) == IF as = <<>> THEN 0 ELSE as[Len(as)].count

AnchorOf(es, as) ==
    LET prevHash == IF as = <<>> THEN SeedHash ELSE as[Len(as)].hash
        start == es[1].id
        end == es[Len(es)].id IN
    [id |-> Len(as) + 1, prev |-> Len(as), subject |-> This, version |-> MaxVersion, through |-> Len(es),
     start |-> start, end |-> end, count |-> Len(es), time |-> Len(as), key |-> "", sig |-> "none",
     hash |-> AnchorHash(prevHash, This, start, end, es[Len(es)].hash)]

\* build.Build and anchor.SignAnchor.
MakeAnchor ==
    /\ given = Nothing /\ Len(log) > Covered(anchors)
    /\ LET a == SignAnchor(AnchorOf(log, anchors), Author) IN
       anchors' = Append(anchors, a) /\ signed' = [signed EXCEPT !.anchors = @ \cup {Canonical(a)}]
    /\ UNCHANGED <<version, log, wrote, given, altered>>

\* With the content of every live event, or of none; only the sink has it, whose chains
\* have no tombstones.
HandOver ==
    /\ given = Nothing /\ log # <<>>
    /\ \E all \in {FALSE, version = FormatV3 /\ \A i \in DOMAIN log : ~IsTombstone(log[i])} :
         given' = [chain |-> This, anchors |-> anchors,
                   entries |-> [i \in DOMAIN log |->
                       [log[i] EXCEPT !.disclosed = IF all /\ ~Ended /\ Event(log[i]) THEN i ELSE 0]]]
    /\ UNCHANGED <<version, log, wrote, anchors, signed, altered>>

-----------------------------------------------------------------------------
(* On the way *)

\* One field of an entry.
EntryEdits(e) ==
    {[e EXCEPT !.id = x] : x \in {9, -9}} \cup {[e EXCEPT !.type = x] : x \in {"event", "erasure", "tombstone"}}
    \cup {[e EXCEPT !.version = x] : x \in {3, 9}} \cup {[e EXCEPT !.stamp = x] : x \in {"respelled", "unreadable"}}
    \cup {[e EXCEPT !.seq = e.seq + x] : x \in {-1, 1}} \cup {[e EXCEPT !.num = e.num + 1]}
    \cup {[e EXCEPT !.content = x] : x \in {Commitment(9), ErasureHash(e.seq - 1), TombstoneHash}}
    \cup {[e EXCEPT !.hash = x] : x \in {BadHash, OtherHash}}
    \cup (IF version = FormatV2 THEN {}    \* only the sink's entries have these
          ELSE {[e EXCEPT !.prev = x] : x \in {NoHash, OtherHash}} \cup {[e EXCEPT !.disclosed = x] : x \in {-1, 9}}
               \cup {[e EXCEPT !.sig = x] : x \in {"none", "malformed", "unknown"}})

AnchorEdits(a) ==
    {[a EXCEPT !.count = a.count + x, !.through = a.count + x] : x \in {-1, 1}} \cup {[a EXCEPT !.subject = 2]}
    \cup {[a EXCEPT !.version = x] : x \in {3, 5}} \cup {[a EXCEPT !.key = "unknown"]} \cup {[a EXCEPT !.sig = "altered"]}
    \cup {[a EXCEPT !.prev = SeedID]} \cup {[a EXCEPT !.hash = AnchorHash(SeedHash, This, a.start, a.end, OtherHash)]}
    \cup {[a EXCEPT !.time = a.time - 1]}

\* Hashes, links and numbers computed again over the contents there are.
Relinked(es) ==
    LET Step(acc, e) == Append(acc, [Link(acc, e.type, e.content) EXCEPT !.id = e.id, !.disclosed = e.disclosed, !.sig = e.sig]) IN
    FoldLeft(Step, <<>>, es)

\* Anchors made again for the entries there are, without the key.
Reanchored(c) == [AnchorOf(c.entries, <<>>) EXCEPT !.key = Author, !.sig = "altered"]

Alterations(c) ==
    LET es == c.entries
        as == c.anchors IN
    UNION {{[c EXCEPT !.entries[i] = e] : e \in EntryEdits(es[i])} : i \in DOMAIN es}
    \cup {[c EXCEPT !.entries = RemoveAt(es, i)] : i \in DOMAIN es}
    \cup {[c EXCEPT !.entries = Append(es, es[i])] : i \in DOMAIN es}
    \cup {[c EXCEPT !.entries = Append(es, Link(es, "erasure", ErasureHash(es[Len(es)].seq)))]}
    \cup {[c EXCEPT !.entries = Relinked(es)]}
    \cup UNION {{[c EXCEPT !.anchors[i] = a] : a \in AnchorEdits(as[i])} : i \in DOMAIN as}
    \cup {[c EXCEPT !.anchors = RemoveAt(as, i)] : i \in DOMAIN as}
    \cup {[c EXCEPT !.anchors = <<Reanchored(c)>>]}
    \cup {[c EXCEPT !.chain = x] : x \in {0, 2}}

Alter ==
    /\ given # Nothing /\ given.entries # <<>> /\ altered < MaxAlter
    /\ given' \in Alterations(given) \ {given} /\ altered' = altered + 1
    /\ UNCHANGED <<version, log, wrote, anchors, signed>>

Next ==
    \/ WriteEvent \/ WriteErasure \/ MakeAnchor \/ HandOver \/ Alter
    \/ \E i \in 1..MaxEntries : WriteTombstone(i)

Spec == Init /\ [][Next]_vars

-----------------------------------------------------------------------------
(* Properties *)

\* An anchor counts entries that exist, and a walk counts every entry it was given.
TypeOK ==
    /\ Len(wrote) = Len(log) /\ altered \in 0..MaxAlter
    /\ \A i \in DOMAIN anchors : anchors[i].count \in 1..Len(log)
    /\ Chain(given.entries, NoHash).count = Len(given.entries)

Handed == given # Nothing /\ given.entries # <<>>
Keys == {Author}
Trusts == [checkpoint : {{}, Keys}, record : {{}, Keys}]
NoKeys == [checkpoint |-> {}, record |-> {}]

\* Entry i of the copy is, in everything its hash covers, the one the author wrote.
Genuine(c, i) ==
    /\ i \in DOMAIN log
    /\ c.entries[i].content = wrote[i] /\ c.entries[i].hash = log[i].hash
    /\ version = FormatV3 => c.entries[i].seq = log[i].seq

\* Whatever was done to the copy, and whatever else is wrong with it: the entries up
\* to the last anchor that verified in the series are the author's, one for one,
\* from the last tombstone on.
AnchoredIsAuthors ==
    Handed =>
        LET r == VerifyAnchorSeries(This, given.entries, given.anchors, Keys, signed.anchors)
            k == r.series.covered IN
        /\ k <= Len(log)
        /\ \A i \in 1..k : (\A j \in i..k : ~IsTombstone(given.entries[j])) => Genuine(given, i)

\* A bundle is called ok only if every entry of every chain in it is the author's,
\* and what is disclosed is what the author committed to; also where the altered copy
\* comes with a good one.
Original == [chain |-> This, entries |-> log, anchors |-> anchors]
OkIsAuthors ==
    Handed => \A t \in Trusts \ {NoKeys}, bundle \in {<<given>>, <<Original, given>>} :
        Verify(bundle, t, signed) = "ok" =>
            \A n \in DOMAIN bundle :
                LET c == bundle[n] IN
                /\ c.chain = This
                /\ \A i \in DOMAIN c.entries : Genuine(c, i)
                /\ \A i \in CheckChain(c, t, signed).opened : Commitment(c.entries[i].disclosed) = wrote[i]

\* A bundle shows an erasure as anchored or signed only if the author erased the
\* chain there.
ErasureIsAuthors ==
    Handed /\ ~(Ended /\ Len(given.entries) = Len(log)) =>
        \A t \in Trusts \ {NoKeys} : CheckChain(given, t, signed).erasure \notin {"anchored", "signed"}

\* What the author handed over is never called broken, modified or forged: tombstones
\* and erasures are not breaks.  (An anchor names its first and last entry by id, which
\* a tombstone changes; a bundle holds the sink's format only.)
HonestAccepted ==
    Handed /\ altered = 0 =>
        /\ Intact(Chain(given.entries, NoHash))
        /\ \A k \in 1..(Len(log) - 1) : Intact(Chain(SubSeq(log, k + 1, Len(log)), log[k].hash))
        /\ (\A n \in DOMAIN anchors : \A i \in {1, anchors[n].count} : ~IsTombstone(log[i])) =>
              /\ ~VerifyAnchorSeries(This, given.entries, given.anchors, Keys, signed.anchors).series.stopped
              /\ (version = FormatV3 /\ \A i \in DOMAIN log : ~IsTombstone(log[i])) =>
                    \A t \in Trusts :
                        LET r == CheckChain(given, t, signed) IN
                        /\ r.problems = {}
                        /\ r.verdict = "ok" <=> (t.record # {} \/ (t.checkpoint # {} /\ r.covered = Len(log)))

\* The sink's own verification of the same rows (verifyChain): stored links, format,
\* walk, series, entry types and record signatures.
SinkProblems(c, t) ==
    LET es == c.entries
        r == VerifyAnchorSeries(c.chain, es, c.anchors, t.checkpoint, signed.anchors)
        genuine == {i \in DOMAIN es : i > 1 /\ Erasure(es[i]) /\ es[i].content = ErasureHash(es[i - 1].seq)} IN
    \/ es[1].seq # 0 \/ es[1].prev # NoHash
    \/ \E i \in 2..Len(es) : es[i].prev # es[i - 1].hash
    \/ ~Intact(r.walk) \/ r.series.stopped \/ (genuine # {} /\ Len(es) \notin genuine)
    \/ \E i \in DOMAIN es :
         \/ es[i].id <= 0 \/ ~(Event(es[i]) \/ Erasure(es[i])) \/ (Erasure(es[i]) /\ i \notin genuine)
         \/ (t.record # {} /\ CheckRecordSignature(c, es[i], t.record, signed.records) # "")

\* Two implementations of the same rules, one over a folder and one over a bundle,
\* agree on every chain that both can be handed: in the sink's format, with ids that
\* do not repeat (only the bundle's reader asks for that), nothing disclosed, and no
\* event with an erasure's hash (which the sink finds out from the content).
Comparable(c) ==
    /\ c.chain > 0 /\ \A i, j \in DOMAIN c.entries : c.entries[i].id = c.entries[j].id => i = j
    /\ \A n \in DOMAIN c.anchors : c.anchors[n].version = MaxVersion
    /\ \A i \in DOMAIN c.entries :
          LET e == c.entries[i] IN
          /\ e.version = FormatV3 /\ ~e.run /\ e.num = 0 /\ e.stamp = "exact" /\ e.disclosed = 0
          /\ ~(Event(e) /\ e.content[1] = "erasure")
VerifiersAgree ==
    Handed /\ Comparable(given) =>
        \A t \in [checkpoint : {Keys}, record : {{}, Keys}] :
            SinkProblems(given, t) <=> CheckChain(given, t, signed).problems # {}

\* Whatever a verifier accepts of a copy (anchored entries, a bundle, an erasure) is
\* the author's.
AcceptedIsAuthors == TypeOK /\ AnchoredIsAuthors /\ OkIsAuthors /\ ErasureIsAuthors

=============================================================================
