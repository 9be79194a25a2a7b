------------------------------- MODULE MCSink -------------------------------
(* Instances of Sink for TLC: the batches of records that are committed. *)
EXTENDS Sink

CONSTANTS alice, bob, k1, k2, x, y, s1

Pair(s, k) == [subject |-> s, class |-> k]
Record(p, s, t) == [pair |-> p, source |-> s, text |-> t]

\* A sourced record and its redelivery, the same source with other content, and a
\* batch over two subjects, half of it without a source.
TwoSubjects ==
    {<<Record(Pair(alice, k1), s1, x)>>,
     <<Record(Pair(alice, k1), s1, y)>>,
     <<Record(Pair(alice, k1), s1, x), Record(Pair(bob, k1), None, x)>>}

\* A record, and a batch over two subjects.
PlainBatches ==
    {<<Record(Pair(alice, k1), s1, x)>>,
     <<Record(Pair(alice, k1), s1, x), Record(Pair(bob, k1), None, x)>>}

\* One subject in two classes: a batch over both, a batch that gives one record
\* twice, and the same source with other content.
TwoClasses ==
    {<<Record(Pair(alice, k1), s1, x), Record(Pair(alice, k2), None, x)>>,
     <<Record(Pair(alice, k1), s1, x), Record(Pair(alice, k1), s1, x)>>,
     <<Record(Pair(alice, k1), s1, y)>>}

=============================================================================
