------------------------------ MODULE OtelFeed ------------------------------
(***************************************************************************)
(* examples/integrations/otel: an OTLP/HTTP receiver.  A collector           *)
(* (external) posts requests and posts one again until it is answered 200 or *)
(* it drops it; it may stop waiting while the receiver still works on it.    *)
(***************************************************************************)
EXTENDS FeedSink

CONSTANTS
    Slots,          \* the connections that may be open at once
    RequestSize,    \* log records of a request, the last one may be shorter
    ChunkSize       \* sink.MaxBatch

ASSUME OtelAssumption == RequestSize \in Nat \ {0} /\ ChunkSize \in Nat \ {0}

VARIABLES
    logs,       \* the records, in the order the collector got them
    request,    \* the collector's requests, in order: "queued", "out", "answered", "dropped"
    conn,       \* the connections: [state, req, alive]; alive, the collector still waits
    rv          \* the receiver: [up, open, dead, recs, live, aside]; recs, still to commit

otelVars == <<logs, request, conn, rv>>

Free == [state |-> "free", req |-> 0, alive |-> FALSE]
Receiver == [up |-> TRUE, open |-> TRUE, dead |-> FALSE, recs |-> <<>>, live |-> <<>>, aside |-> FALSE]
Off == [Receiver EXCEPT !.up = FALSE, !.open = FALSE]

OtelInit == logs = <<>> /\ request = <<>> /\ conn = [k \in Slots |-> Free] /\ rv = Off

\* The records of the q-th request.
Body(q) == Only(logs, {i \in DOMAIN logs : (logs[i].n - 1) \div RequestSize = q - 1})

\* Those of some records that can be committed.
Valids(recs) == Only(recs, {i \in DOMAIN recs : Valid(recs[i])})

-----------------------------------------------------------------------------
(* The collector *)

\* A record arrives; a request is ready once it is full, or there is no more.
OLog ==
    /\ Publish /\ logs' = Append(logs, Latest)
    /\ request' = IF Len(logs') % RequestSize = 0 \/ coming' = <<>> THEN Append(request, "queued") ELSE request
    /\ UNCHANGED <<conn, rv>>

OPost(k, q) ==
    /\ rv.open /\ conn[k] = Free /\ q \in DOMAIN request /\ request[q] = "queued"
    /\ conn' = [conn EXCEPT ![k] = [state |-> "waiting", req |-> q, alive |-> TRUE]]
    /\ request' = [request EXCEPT ![q] = "out"]
    /\ UNCHANGED <<feedVars, logs, rv>>

\* It stops waiting for this answer, and will post the request again.
OTimeout(k) ==
    /\ conn[k].alive /\ Fault
    /\ conn' = [conn EXCEPT ![k].alive = FALSE]
    /\ request' = [request EXCEPT ![conn[k].req] = "queued"]
    /\ UNCHANGED <<chain, coming, sent, stuck, logs, rv>>

\* It has tried for too long.
ODrop(q) ==
    /\ request[q] = "queued" /\ Fault /\ request' = [request EXCEPT ![q] = "dropped"]
    /\ UNCHANGED <<chain, coming, sent, stuck, logs, conn, rv>>

\* The connection ends with an answer, if anyone still waits for it.
Answer(k, state) ==
    /\ conn' = [conn EXCEPT ![k] = Free]
    /\ request' = IF conn[k].alive THEN [request EXCEPT ![conn[k].req] = state] ELSE request

-----------------------------------------------------------------------------
(* The receiver *)

Serving == \E k \in Slots : conn[k].state = "serving"

\* The next chunk of what is left.
NextChunk(recs) ==
    [rv EXCEPT !.live = SubSeq(recs, 1, IF Len(recs) < ChunkSize THEN Len(recs) ELSE ChunkSize),
               !.recs = SubSeq(recs, ChunkSize + 1, Len(recs)), !.aside = FALSE]
Done == [rv EXCEPT !.recs = <<>>, !.live = <<>>, !.aside = FALSE]

\* ServeHTTP up to the first Commit, under the mutex: 503 once the receiver is dead, or
\* when nobody waits any more; records that can never be committed are refused; a
\* request of nothing else is answered.
OServe(k) ==
    /\ conn[k].state = "waiting" /\ ~Serving
    /\ LET recs == Valids(Body(conn[k].req)) IN
       \/ (rv.dead \/ ~conn[k].alive) /\ Answer(k, "queued") /\ UNCHANGED rv
       \/ ~rv.dead /\ conn[k].alive /\ recs = <<>> /\ Answer(k, "answered") /\ UNCHANGED rv
       \/ /\ ~rv.dead /\ conn[k].alive /\ recs # <<>>
          /\ conn' = [conn EXCEPT ![k].state = "serving"] /\ rv' = NextChunk(recs) /\ UNCHANGED request
    /\ UNCHANGED <<feedVars, logs>>

\* record: the uid the client gave is the source.
Uid(m) == <<"otel", m.n>>

\* without: the stuck pair's records are set aside.
SansSubject(recs, s) == Only(recs, {i \in DOMAIN recs : recs[i].subject # s})

\* After a chunk: the next one, or the answer; the first chunk that failed or set
\* records aside ends the request with 503.
Finish(k, ok) ==
    IF rv.recs # <<>> /\ ok /\ ~rv.aside THEN rv' = NextChunk(rv.recs) /\ UNCHANGED <<conn, request>>
    ELSE Answer(k, IF ok /\ ~rv.aside THEN "answered" ELSE "queued") /\ rv' = Done

\* Mutant of SetAside: one stuck subject fails the whole chunk.
SetAsideNever(r) == FALSE

\* A pair failed and it is not all there is.
SetAside(r) == r.out = "pair" /\ SansSubject(rv.live, r.pair) # <<>>

\* commitChunk: one Commit, and what follows from its result.
OCommit(k) ==
    /\ conn[k].state = "serving"
    /\ \E r \in CommitResults([i \in DOMAIN rv.live |-> Record(rv.live[i], Uid(rv.live[i]))]) :
         /\ Returned(r)
         /\ \/ r.out = "config" /\ Answer(k, "queued") /\ rv' = [Done EXCEPT !.dead = TRUE]
            \/ SetAside(r) /\ rv' = [rv EXCEPT !.live = SansSubject(@, r.pair), !.aside = TRUE] /\ UNCHANGED <<conn, request>>
            \/ r.out # "config" /\ ~SetAside(r) /\ Finish(k, r.out = "ok")
    /\ UNCHANGED logs

\* run: after a fatal error, or interrupted, the server takes no more connections,
OClose ==
    /\ rv.open /\ rv' = [rv EXCEPT !.open = FALSE]
    /\ IF rv.dead THEN UNCHANGED spare ELSE Fault
    /\ UNCHANGED <<chain, coming, sent, stuck, logs, request, conn>>

\* finishes the ones it has, and exits.
OExit ==
    /\ rv.up /\ ~rv.open /\ (\A k \in Slots : conn[k] = Free) /\ rv' = Off
    /\ UNCHANGED <<feedVars, logs, request, conn>>

\* The process dies; nobody gets an answer.
ODie ==
    /\ rv.up /\ Fault /\ rv' = Off
    /\ conn' = [k \in Slots |-> Free]
    /\ request' = [q \in DOMAIN request |-> IF request[q] = "out" THEN "queued" ELSE request[q]]
    /\ UNCHANGED <<chain, coming, sent, stuck, logs>>

OStart == ~rv.up /\ rv' = Receiver /\ UNCHANGED <<feedVars, logs, request, conn>>

OPosts(q) == \E k \in Slots : OPost(k, q)
OWork(k) == OServe(k) \/ OCommit(k)

OLife == OExit \/ OStart \/ (rv.dead /\ OClose)

OtelNext ==
    \/ OLog \/ OClose \/ OExit \/ OStart \/ ODie
    \/ \E q \in DOMAIN request : OPosts(q) \/ ODrop(q)
    \/ \E k \in Slots : OTimeout(k) \/ OWork(k)

-----------------------------------------------------------------------------
(* Properties *)

\* A request answered 200 has every record on its chain that can be there: the answer
\* follows the commit, also after records were set aside or the collector gave up once.
OtelKept ==
    \A q \in DOMAIN request : request[q] = "answered" =>
        \A i \in DOMAIN Body(q) : LET m == Body(q)[i] IN Valid(m) => OnChain(m.n)

\* Whether the i-th record of the q-th request waits behind a stuck subject: its own, or
\* one of an earlier chunk.
Held(q, i) ==
    LET valid == Valids(Body(q)) IN
    \E j \in DOMAIN valid :
        /\ valid[j].subject \in stuck
        /\ \/ valid[j].subject = Body(q)[i].subject
           \/ \E a \in DOMAIN valid : valid[a] = Body(q)[i] /\ (j - 1) \div ChunkSize < (a - 1) \div ChunkSize

\* Every record is on its chain, dropped by the collector, or held so.
OtelSettled ==
    \A q \in DOMAIN request : request[q] # "dropped" =>
        \A i \in DOMAIN Body(q) : LET m == Body(q)[i] IN Valid(m) => (OnChain(m.n) \/ Held(q, i))

=============================================================================
