----------------------------- MODULE KafkaFeed ------------------------------
(***************************************************************************)
(* examples/integrations/kafka: members of one consumer group read the       *)
(* partitions they own, commit a batch to the sink, then the offsets.        *)
(*                                                                          *)
(* The broker and its client library are external: partition logs whose      *)
(* records carry a leader epoch, the group's offsets, partitions that move.   *)
(***************************************************************************)
EXTENDS FeedSink

CONSTANTS
    NPartitions,
    MaxBatch    \* records of one poll

ASSUME KafkaAssumption == NPartitions \in Nat \ {0} /\ MaxBatch \in Nat \ {0}

Partitions == 1..NPartitions

\* The default partitioner: records of one key go to one partition.
PartitionOf(m) == (m.subject % NPartitions) + 1

VARIABLES
    topic,      \* the topic's id: which life of it; 0, a broker that sends none
    klog,       \* the partitions: sequences of [m, epoch]
    kepoch,     \* the leader epoch of each partition
    offsets,    \* the group's committed offset of a partition, [off, epoch]
    owner,      \* the member a partition is assigned to
    member      \* each member's process

kafkaVars == <<topic, klog, kepoch, offsets, owner, member>>

Start == [off |-> 0, epoch |-> 0]
Stopped == [phase |-> "stopped", topic |-> 0, pos |-> [p \in Partitions |-> Start], ms |-> <<>>, handled |-> {}, err |-> FALSE]

KafkaInit ==
    /\ topic \in {0, 1} /\ klog = [p \in Partitions |-> <<>>] /\ kepoch = [p \in Partitions |-> 0] /\ offsets = [p \in Partitions |-> Start]
    /\ \E c \in Procs : owner = [p \in Partitions |-> c]
    /\ member = [c \in Procs |-> Stopped]

-----------------------------------------------------------------------------
(* The broker *)

KProduce ==
    /\ Publish
    /\ LET p == PartitionOf(Latest) IN klog' = [klog EXCEPT ![p] = Append(@, [m |-> Latest, epoch |-> kepoch[p]])]
    /\ UNCHANGED <<topic, kepoch, offsets, owner, member>>

\* An unclean leader election: the end of the log is gone, its offsets are used again
\* under a later epoch.
KTruncate(p) ==
    /\ klog[p] # <<>> /\ Fault /\ klog' = [klog EXCEPT ![p] = Front(@)] /\ kepoch' = [kepoch EXCEPT ![p] = @ + 1]
    /\ UNCHANGED <<chain, coming, sent, stuck, topic, offsets, owner, member>>

\* The topic is deleted and made again: the group's offsets go with it.
KRecreate ==
    /\ topic > 0 /\ Fault /\ topic' = topic + 1
    /\ klog' = [p \in Partitions |-> <<>>] /\ kepoch' = [p \in Partitions |-> 0] /\ offsets' = [p \in Partitions |-> Start]
    /\ UNCHANGED <<chain, coming, sent, stuck, owner, member>>

\* Where a position stands in the log: no further than the end of its epoch (the client
\* resets a position that was truncated away).
Resume(p, pos) ==
    LET end == Cardinality({i \in DOMAIN klog[p] : klog[p][i].epoch <= pos.epoch}) IN
    IF pos.off > end THEN end ELSE pos.off

\* A partition moves: not while its owner is between a poll and its offset commit,
\* unless that member is taken for dead.
KMove(p, c) ==
    /\ owner[p] # c /\ Fault
    /\ owner' = [owner EXCEPT ![p] = c]
    /\ member' = [member EXCEPT ![c].pos[p] = offsets[p]]
    /\ member[c].phase \in {"stopped", "ready"}
    /\ UNCHANGED <<chain, coming, sent, stuck, topic, klog, kepoch, offsets>>

-----------------------------------------------------------------------------
(* A member *)

\* consume: joined, and assigned its partitions.
KJoin(c) ==
    /\ member[c].phase = "stopped"
    /\ member' = [member EXCEPT ![c] = [Stopped EXCEPT !.phase = "ready", !.topic = topic, !.pos = offsets]]
    /\ UNCHANGED <<feedVars, topic, klog, kepoch, offsets, owner>>

KStop(c) == member' = [member EXCEPT ![c] = Stopped]

\* The i-th record of partition p as a poll returns it.
Polled(p, i) == [p |-> p, off |-> i - 1, epoch |-> klog[p][i].epoch, m |-> klog[p][i].m, topic |-> topic]

\* The orders in which the fetches of a poll may bring records <<p, k>>: those of a
\* partition in its own.
Orders(slots) ==
    {order \in [1..Cardinality(slots) -> slots] :
        /\ \A x \in slots : \E i \in DOMAIN order : order[i] = x
        /\ \A i, j \in DOMAIN order : (i < j /\ order[i][1] = order[j][1]) => order[i][2] < order[j][2]}

NextOffset(x) == [off |-> x.off + 1, epoch |-> x.epoch]

\* poll: some of the next records of each partition it owns, in offset order; an error
\* when the topic is not the one it joined.  A run that does not follow stops when there
\* are none.
KPoll(c) ==
    /\ member[c].phase = "ready"
    /\ LET from(p) == Resume(p, member[c].pos[p]) IN
       \/ (member[c].topic # topic \/ \A p \in Partitions : owner[p] = c => from(p) = Len(klog[p])) /\ KStop(c)
       \/ /\ member[c].topic = topic
          /\ \E take \in [Partitions -> 0..MaxBatch] :
               /\ \A p \in Partitions : take[p] <= IF owner[p] = c THEN Len(klog[p]) - from(p) ELSE 0
               /\ \E order \in Orders({x \in Partitions \X (1..MaxBatch) : x[2] <= take[x[1]]}) :
                    /\ Len(order) \in 1..MaxBatch
                    /\ member' = [member EXCEPT ![c].phase = "batch",
                                    ![c].ms = [i \in DOMAIN order |-> Polled(order[i][1], from(order[i][1]) + order[i][2])],
                                    ![c].pos = [p \in Partitions |-> IF take[p] = 0 THEN [member[c].pos[p] EXCEPT !.off = from(p)]
                                                  ELSE NextOffset(Polled(p, from(p) + take[p]))]]
    /\ UNCHANGED <<feedVars, topic, klog, kepoch, offsets, owner>>

\* source: topic, topic id, partition, offset and leader epoch.
Source(x) == <<x.topic, x.p, x.off, x.epoch>>

\* processBatch up to the sink: refused records count as handled; a configuration error,
\* or a broker that sends no topic id, ends the run with no offset committed.
KCommit(c) ==
    /\ member[c].phase = "batch"
    /\ LET ms == member[c].ms
           refused == {i \in DOMAIN ms : ~Valid(ms[i].m)}
           recs == Only([i \in DOMAIN ms |-> Record(ms[i].m, Source(ms[i]))], DOMAIN ms \ refused)
           after(handled, err) == member' = [member EXCEPT ![c].phase = "offsets", ![c].handled = handled, ![c].err = err] IN
       \/ ms[1].topic = 0 /\ KStop(c) /\ UNCHANGED feedVars
       \/ ms[1].topic # 0 /\ recs = <<>> /\ after(refused, FALSE) /\ UNCHANGED feedVars
       \/ /\ ms[1].topic # 0 /\ recs # <<>>
          /\ \E r \in CommitResults(recs) :
               /\ Returned(r)
               /\ CASE r.out = "config" -> KStop(c)
                    [] r.out = "ok" -> after(DOMAIN ms, FALSE)
                    [] OTHER -> after(refused, TRUE)
    /\ UNCHANGED <<topic, klog, kepoch, offsets, owner>>

\* Mutant of HandledPrefix: the last handled record of each partition.
HandledLast(ms, handled) == {i \in handled : \A j \in handled : ms[j].p = ms[i].p => j <= i}

\* handledPrefix: per partition, the last record before the first one not handled.
HandledPrefix(ms, handled) ==
    LET before(i) == {j \in DOMAIN ms : ms[j].p = ms[i].p /\ j <= i}
        prefix == {i \in DOMAIN ms : before(i) \subseteq handled} IN
    {i \in prefix : \A j \in prefix : ms[j].p = ms[i].p => j <= i}

\* The offset commit, and what the run does then; it fails for a member whose partition
\* was given to another, or whose topic is gone.
KOffsets(c) ==
    /\ member[c].phase = "offsets"
    /\ LET ms == member[c].ms
           last == HandledPrefix(ms, member[c].handled)
           held == member[c].topic = topic /\ \A i \in last : owner[ms[i].p] = c
           committed == [p \in Partitions |->
                IF \E i \in last : ms[i].p = p
                THEN LET x == ms[CHOOSE i \in last : ms[i].p = p] IN NextOffset(x)
                ELSE offsets[p]]
           goOn == IF member[c].err THEN KStop(c)
                   ELSE member' = [member EXCEPT ![c].phase = "ready", ![c].ms = <<>>, ![c].handled = {}] IN
       \/ last = {} /\ goOn /\ UNCHANGED <<feedVars, offsets>>
       \/ last # {} /\ held /\ offsets' = committed /\ goOn /\ UNCHANGED feedVars
       \/ last # {} /\ ~held /\ KStop(c) /\ UNCHANGED <<feedVars, offsets>>
       \/ last # {} /\ held /\ Fault /\ offsets' \in {offsets, committed} /\ KStop(c) /\ UNCHANGED <<chain, coming, sent, stuck>>
    /\ UNCHANGED <<topic, klog, kepoch, owner>>

\* The process dies, or is interrupted between batches.
KDie(c) ==
    /\ member[c].phase # "stopped" /\ Fault /\ KStop(c)
    /\ UNCHANGED <<chain, coming, sent, stuck, topic, klog, kepoch, offsets, owner>>

KStep(c) == KJoin(c) \/ KPoll(c) \/ KCommit(c) \/ KOffsets(c)

KafkaNext ==
    \/ KProduce \/ KRecreate
    \/ \E p \in Partitions : KTruncate(p) \/ \E c \in Procs : KMove(p, c)
    \/ \E c \in Procs : KStep(c) \/ KDie(c)

-----------------------------------------------------------------------------
(* Properties *)

\* No offset is committed past a record that is neither on its chain nor refused: what
\* the next run would start behind is safe, whatever was truncated, moved or retried.
KafkaKept ==
    \A p \in Partitions : \A i \in 1..Resume(p, offsets[p]) :
        LET m == klog[p][i].m IN Valid(m) => OnChain(m.n)

\* The records of a partition are on their chain in the partition's order.
KafkaOrder ==
    \A p \in Partitions : \A i, j \in DOMAIN klog[p] : \A a, b \in DOMAIN chain :
        (i < j /\ chain[a].n = klog[p][i].m.n /\ chain[b].n = klog[p][j].m.n) => a < b

=============================================================================
