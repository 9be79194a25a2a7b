------------------------------ MODULE MCIngest ------------------------------
(* Instances of Feeders for TLC. *)
EXTENDS Feeders

M(s) == [subject |-> s, content |-> "x"]
Bad == M(0)

\* The same subject and content twice, so that a reused position could hide the second;
\* a message that is refused, beside one of its own partition.
AllPublished ==
    [kafka |-> {<<M(2), Bad, M(1)>>, <<M(1), M(1)>>},
     nats  |-> {<<M(1), Bad, M(1)>>},
     redis |-> {<<M(1), Bad, M(1)>>},
     otel  |-> {<<M(1), M(2), M(1), Bad>>, <<M(1), Bad, M(2), M(1)>>}]

AllFaults == [kafka |-> 2, nats |-> 2, redis |-> 1, otel |-> 2]

=============================================================================
