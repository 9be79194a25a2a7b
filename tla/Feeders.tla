------------------------------- MODULE Feeders ------------------------------
(***************************************************************************)
(* The streaming consumers beside the sink they feed.  A behaviour is about  *)
(* one of them: they share sink.Commit, not each other's state.              *)
(***************************************************************************)
EXTENDS KafkaFeed, NatsFeed, RedisFeed, OtelFeed

CONSTANTS
    Feeds,      \* which of "kafka", "nats", "redis", "otel"
    Published,  \* for each, the message sequences to try
    MaxFaults   \* bound, for each: errors, lost answers, deaths, moves

\* What is in the messages.
Payloads == UNION {UNION {{ms[i] : i \in DOMAIN ms} : ms \in Published[f]} : f \in Feeds}
Subjects == {m.subject : m \in Payloads} \ {0}

ASSUME FeedersAssumption ==
    /\ Feeds \subseteq {"kafka", "nats", "redis", "otel"}
    /\ \A f \in Feeds : MaxFaults[f] \in Nat
    /\ \A f \in Feeds : \A ms \in Published[f] : ms \in Seq(Payloads)
    /\ \A m \in Payloads : m.subject \in Nat

VARIABLE feed

ingestVars == <<feedVars, kafkaVars, natsVars, redisVars, otelVars, feed>>

IngestInit ==
    /\ feed \in Feeds
    /\ \E ms \in Published[feed] : FeedInit(ms, MaxFaults[feed])
    /\ KafkaInit /\ NatsInit /\ RedisInit /\ OtelInit
    /\ feed # "kafka" => topic = 1 /\ owner = CHOOSE o \in [Partitions -> Procs] : \A p, q \in Partitions : o[p] = o[q]

OnKafka == feed = "kafka" /\ UNCHANGED <<natsVars, redisVars, otelVars, feed>>
OnNats == feed = "nats" /\ UNCHANGED <<kafkaVars, redisVars, otelVars, feed>>
OnRedis == feed = "redis" /\ UNCHANGED <<kafkaVars, natsVars, otelVars, feed>>
OnOtel == feed = "otel" /\ UNCHANGED <<kafkaVars, natsVars, redisVars, feed>>

\* A subject's stored state goes bad, and an operator repairs it.
Breaks(s) == GetStuck(s) /\ UNCHANGED <<kafkaVars, natsVars, redisVars, otelVars, feed>>
Mends(s) == Repair(s) /\ UNCHANGED <<kafkaVars, natsVars, redisVars, otelVars, feed>>

IngestNext ==
    \/ OnKafka /\ KafkaNext
    \/ OnNats /\ NatsNext
    \/ OnRedis /\ RedisNext
    \/ OnOtel /\ OtelNext
    \/ \E s \in Subjects : Breaks(s) \/ Mends(s)

Produce == (OnKafka /\ KProduce) \/ (OnNats /\ ~stale /\ NPublish) \/ (OnRedis /\ ~Misnamed /\ RPublish) \/ (OnOtel /\ OLog)
Step(c) == (OnKafka /\ KStep(c)) \/ (OnNats /\ ~stale /\ NStep(c)) \/ (OnRedis /\ ~Misnamed /\ RStep(c))

\* Producers publish, a process that ended is started again and takes its next step, a
\* deadline passes, an operator repairs; only the receiver is not promised a repair.  A
\* request the collector keeps is posted again, and gets the mutex in the end (Go's
\* mutex hands over to a waiter that starves).
Fairness ==
    /\ WF_ingestVars(Produce) /\ \A c \in Procs : WF_ingestVars(Step(c))
    /\ \A s \in Subjects : WF_ingestVars(feed # "otel" /\ Mends(s))
    /\ WF_ingestVars(OnNats /\ ~stale /\ \E i \in DOMAIN stream : NDeadline(i))
    /\ WF_ingestVars(OnOtel /\ OLife)
    /\ \A q \in 1..2 : SF_ingestVars(OnOtel /\ OPosts(q))
    /\ \A k \in Slots : SF_ingestVars(OnOtel /\ OWork(k))

IngestSpec == IngestInit /\ [][IngestNext]_ingestVars /\ Fairness

-----------------------------------------------------------------------------
(* Properties *)

\* Offsets, ids and positions name what was published.
TypeOK ==
    /\ \A i \in DOMAIN chain : chain[i].n \in 1..sent /\ chain[i].subject \in Subjects
    /\ stuck \subseteq Subjects /\ spare \in 0..MaxFaults[feed]
    /\ \A p \in Partitions : offsets[p].off \in 0..sent /\ offsets[p].epoch \in Nat
    /\ \A c \in Procs : member[c].handled \subseteq DOMAIN member[c].ms
    /\ \A c \in Procs : \A k \in DOMAIN nats[c].ms : nats[c].ms[k].seq \in 1..sent
    /\ given \in 0..Len(entries) /\ DOMAIN pending \subseteq 1..given
    /\ \A k \in Slots : conn[k].req \in 0..Len(request)

\* A message is on its chain at most once, however often it is delivered, claimed,
\* posted or retried: its position names it, as long as the position's life is named.
CommittedOnce == stale \/ Misnamed \/ \A n \in 1..sent : Copies(n) <= 1

\* Whatever is still upstream is on its chain, or can never be.
Settled ==
    /\ coming = <<>>
    /\ \A p \in Partitions : \A i \in DOMAIN klog[p] : LET m == klog[p][i].m IN topic = 0 \/ ~Valid(m) \/ OnChain(m.n)
    /\ \A i \in DOMAIN stream : ~Valid(stream[i].m) \/ OnChain(stream[i].m.n)
    /\ \A i \in DOMAIN entries : entries[i].gone \/ ~Valid(entries[i].m) \/ OnChain(entries[i].m.n)

\* Every message that upstream still has reaches its chain in the end, through errors,
\* unknown outcomes, deaths, moves and redelivery.
Delivered == <>[](feed = "otel" \/ stale \/ Misnamed \/ Settled)

\* One stuck subject, never repaired, holds back no record of another subject that shares
\* its chunk: the receiver sets it aside and commits the rest.
OthersGoOn == <>[](feed # "otel" \/ (coming = <<>> /\ OtelSettled))

\* Nothing is acknowledged upstream (an offset, an ack, a pending entry removed, a 200)
\* that is not on its chain, and a partition's records are there in its order.
NothingLost == TypeOK /\ KafkaKept /\ KafkaOrder /\ NatsKept /\ RedisKept /\ OtelKept

=============================================================================
