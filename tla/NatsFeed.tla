------------------------------ MODULE NatsFeed ------------------------------
(***************************************************************************)
(* examples/integrations/nats: processes that share one durable consumer of  *)
(* a JetStream stream.  The server is external: it hands out messages that   *)
(* wait, and hands them out again when their ack deadline passes or they are *)
(* NAKed, also while the first process still works on them.                  *)
(***************************************************************************)
EXTENDS FeedSink

CONSTANT FetchBatch

ASSUME NatsAssumption == FetchBatch \in Nat \ {0}

VARIABLES
    life,       \* the stream's creation time
    stream,     \* the messages of this life, by sequence: [m, state]
    nats,       \* each process
    stale       \* history: a process took its position names from an earlier life

natsVars == <<life, stream, nats, stale>>

Down == [phase |-> "stopped", created |-> 0, cons |-> 0, ms |-> <<>>, ok |-> FALSE]

NatsInit == life = 1 /\ stream = <<>> /\ nats = [c \in Procs |-> Down] /\ stale = FALSE

-----------------------------------------------------------------------------
(* The server *)

NPublish ==
    /\ Publish /\ stream' = Append(stream, [m |-> Latest, state |-> "waiting"])
    /\ UNCHANGED <<life, nats, stale>>

\* Deleted and made again, its consumer with it; sequences start at 1.
NRecreate ==
    /\ Fault /\ life' = life + 1 /\ stream' = <<>>
    /\ UNCHANGED <<chain, coming, sent, stuck, nats, stale>>

\* An ack deadline passes.
NDeadline(i) ==
    /\ i \in DOMAIN stream /\ stream[i].state = "out"
    /\ stream' = [stream EXCEPT ![i].state = "waiting"]
    /\ UNCHANGED <<feedVars, life, nats, stale>>

\* The stream after the messages in S, of the life they came from, were answered so.
Answered(c, S, state) ==
    IF nats[c].cons # life THEN stream
    ELSE [i \in DOMAIN stream |->
            IF i \in S /\ (state = "waiting" => stream[i].state = "out") THEN [stream[i] EXCEPT !.state = state] ELSE stream[i]]

-----------------------------------------------------------------------------
(* A process *)

NStop(c) == nats' = [nats EXCEPT ![c] = Down]

\* consume: the stream's creation time is read, then the consumer is made.
NInfo(c) ==
    /\ nats[c].phase = "stopped" /\ nats' = [nats EXCEPT ![c].phase = "opening", ![c].created = life]
    /\ UNCHANGED <<feedVars, life, stream, stale>>

NAttach(c) ==
    /\ nats[c].phase = "opening" /\ nats' = [nats EXCEPT ![c].phase = "ready", ![c].cons = life]
    /\ stale' = (stale \/ nats[c].created # life)
    /\ UNCHANGED <<feedVars, life, stream>>

\* fetch: what waits, in order; an error when the consumer is gone; drained, the run ends.
NFetch(c) ==
    /\ nats[c].phase = "ready"
    /\ LET waiting == InOrder({i \in DOMAIN stream : stream[i].state = "waiting"})
           got == [k \in 1..Least(Len(waiting), FetchBatch) |-> waiting[k]] IN
       \/ (nats[c].cons # life \/ got = <<>>) /\ NStop(c) /\ UNCHANGED stream
       \/ /\ nats[c].cons = life /\ got # <<>>
          /\ nats' = [nats EXCEPT ![c].phase = "batch", ![c].ms = [k \in DOMAIN got |-> [seq |-> got[k], m |-> stream[got[k]].m]]]
          /\ stream' = [i \in DOMAIN stream |-> IF i \in Range(got) THEN [stream[i] EXCEPT !.state = "out"] ELSE stream[i]]
    /\ UNCHANGED <<feedVars, life, stale>>

Position(c, x) == <<"EVIDENCE", nats[c].created, x.seq>>

\* processBatch: what can never be committed is terminated, before anything else.
NRoute(c) ==
    /\ nats[c].phase = "batch"
    /\ LET ms == nats[c].ms
           kept == Only(ms, {k \in DOMAIN ms : Valid(ms[k].m)}) IN
       /\ stream' = Answered(c, {ms[k].seq : k \in {k \in DOMAIN ms : ~Valid(ms[k].m)}}, "term")
       /\ nats' = [nats EXCEPT ![c].phase = IF kept = <<>> THEN "ready" ELSE "routed", ![c].ms = kept]
    /\ UNCHANGED <<feedVars, life, stale>>

\* A configuration error ends the run with nothing answered.
NCommit(c) ==
    /\ nats[c].phase = "routed"
    /\ LET ms == nats[c].ms IN
       \E r \in CommitResults([k \in DOMAIN ms |-> Record(ms[k].m, Position(c, ms[k]))]) :
         /\ Returned(r)
         /\ IF r.out = "config" THEN NStop(c) ELSE nats' = [nats EXCEPT ![c].phase = "answer", ![c].ok = r.out = "ok"]
    /\ UNCHANGED <<life, stream, stale>>

\* Acked when on their chain, else NAKed; an answer may be lost on the way.
NAnswer(c) ==
    /\ nats[c].phase = "answer"
    /\ LET all == {nats[c].ms[k].seq : k \in DOMAIN nats[c].ms}
           state == IF nats[c].ok THEN "acked" ELSE "waiting" IN
       \/ stream' = Answered(c, all, state) /\ UNCHANGED feedVars
       \/ Fault /\ (\E S \in SUBSET all \ {all} : stream' = Answered(c, S, state)) /\ UNCHANGED <<chain, coming, sent, stuck>>
    /\ IF nats[c].ok THEN nats' = [nats EXCEPT ![c].phase = "ready", ![c].ms = <<>>, ![c].ok = FALSE] ELSE NStop(c)
    /\ UNCHANGED <<life, stale>>

NDie(c) ==
    /\ nats[c].phase # "stopped" /\ Fault /\ NStop(c)
    /\ UNCHANGED <<chain, coming, sent, stuck, life, stream, stale>>

NStep(c) == NInfo(c) \/ NAttach(c) \/ NFetch(c) \/ NRoute(c) \/ NCommit(c) \/ NAnswer(c)

\* Bound: what follows stale position names is not explored.
NatsNext ==
    /\ ~stale
    /\ \/ NPublish \/ NRecreate \/ \E i \in DOMAIN stream : NDeadline(i)
       \/ \E c \in Procs : NStep(c) \/ NDie(c)

-----------------------------------------------------------------------------
(* Properties *)

\* A message is acknowledged only when it is itself on its chain, and terminated only
\* when it can never be; unless a process started while the stream was made again.
NatsKept ==
    \A i \in DOMAIN stream :
        /\ stream[i].state = "acked" => (OnChain(stream[i].m.n) \/ stale)
        /\ stream[i].state = "term" => ~Valid(stream[i].m)

=============================================================================
