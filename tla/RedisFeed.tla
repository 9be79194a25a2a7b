----------------------------- MODULE RedisFeed ------------------------------
(***************************************************************************)
(* examples/integrations/redis: consumers of one group of a stream.  Redis   *)
(* does not redeliver: what was read and not acknowledged stays pending, so  *)
(* a run first reads its own pending entries, then claims those others left, *)
(* then reads new ones.  The server is external; entry ids restart with the  *)
(* stream, so a token beside it names the stream's life.                     *)
(***************************************************************************)
EXTENDS FeedSink

CONSTANT ReadBatch

ASSUME RedisAssumption == ReadBatch \in Nat \ {0}

VARIABLES
    age,        \* which life of the stream
    entries,    \* its entries, by id: [m, gone]
    group,      \* whether the consumer group exists; it dies with the stream
    given,      \* the last id delivered as new
    pending,    \* read and not acknowledged: a function from ids to the consumer that read them
    token,      \* the key beside the stream, 0 when missing; it survives the stream
    minted,     \* tokens made so far, each one random and new
    reader,     \* each process
    named,      \* history: <<life, token>> of every process that started
    crossed     \* history: the stream was made again under a running process

serverVars == <<age, entries, group, given, pending, token, minted>>
redisVars == <<serverVars, reader, named, crossed>>

Idle == [phase |-> "stopped", token |-> 0, created |-> FALSE, ms |-> <<>>, first |-> 0, cursor |-> 0, back |-> "own"]

RedisInit ==
    /\ age = 1 /\ entries = <<>> /\ group = FALSE /\ given = 0 /\ pending = << >> /\ token = 0 /\ minted = 0
    /\ reader = [c \in Procs |-> Idle] /\ named = {} /\ crossed = FALSE

Set(c, r) == reader' = [reader EXCEPT ![c] = r]
RStop(c) == Set(c, Idle)

\* The ids of S in order, at most ReadBatch of them.
FirstOf(S) ==
    LET all == InOrder(S) IN [k \in 1..Least(Len(all), ReadBatch) |-> all[k]]

Without(S) == [i \in DOMAIN pending \ S |-> pending[i]]
Owned(c, S) == [i \in DOMAIN pending \cup S |-> IF i \in S THEN c ELSE pending[i]]

-----------------------------------------------------------------------------
(* The stream *)

RPublish ==
    /\ Publish /\ entries' = Append(entries, [m |-> Latest, gone |-> FALSE])
    /\ UNCHANGED <<age, group, given, pending, token, minted, reader, named, crossed>>

\* XDEL, or trimming: the entry goes, its place in a pending list does not.
RDelete(i) ==
    /\ i \in DOMAIN entries /\ ~entries[i].gone /\ Fault /\ entries' = [entries EXCEPT ![i].gone = TRUE]
    /\ UNCHANGED <<chain, coming, sent, stuck, age, group, given, pending, token, minted, reader, named, crossed>>

\* The stream is deleted and comes back with the next entry or the next start.
RRecreate ==
    /\ Fault /\ age' = age + 1 /\ entries' = <<>> /\ group' = FALSE /\ given' = 0 /\ pending' = << >>
    /\ crossed' = (crossed \/ \E c \in Procs : reader[c].phase # "stopped")
    /\ UNCHANGED <<chain, coming, sent, stuck, token, minted, reader, named>>

-----------------------------------------------------------------------------
(* Starting *)

\* run: XGROUP CREATE MKSTREAM; BUSYGROUP means it is there already.
RGroup(c) ==
    /\ reader[c].phase = "stopped" /\ Set(c, [Idle EXCEPT !.phase = "token", !.created = ~group])
    /\ group' = TRUE
    /\ UNCHANGED <<feedVars, age, entries, given, pending, token, minted, named, crossed>>

Begin(c, t) == Set(c, [Idle EXCEPT !.phase = "own", !.token = t]) /\ named' = named \cup {<<age, t>>}
Fresh == minted + 1

\* streamIncarnation: a new token exactly when this process created the group, else the
\* one that is there.
RToken(c) ==
    /\ reader[c].phase = "token"
    /\ \/ reader[c].created /\ token' = Fresh /\ minted' = Fresh /\ Begin(c, Fresh)
       \/ ~reader[c].created /\ token # 0 /\ Begin(c, token) /\ UNCHANGED <<token, minted>>
       \/ ~reader[c].created /\ token = 0 /\ Set(c, [reader[c] EXCEPT !.phase = "setnx"]) /\ UNCHANGED <<token, minted, named>>
    /\ UNCHANGED <<feedVars, age, entries, group, given, pending, crossed>>

\* The key is missing: set unless another process was first, whose token it then reads.
RSetNX(c) ==
    /\ reader[c].phase = "setnx"
    /\ \/ token = 0 /\ token' = Fresh /\ minted' = Fresh /\ Begin(c, Fresh)
       \/ token # 0 /\ Set(c, [reader[c] EXCEPT !.phase = "token"]) /\ UNCHANGED <<token, minted, named>>
    /\ UNCHANGED <<feedVars, age, entries, group, given, pending, crossed>>

-----------------------------------------------------------------------------
(* Reading *)

\* A batch: the entries as they were when they were read, and where the run goes on.
Take(r, ids, back) ==
    [r EXCEPT !.phase = "refuse", !.back = back,
              !.ms = [k \in DOMAIN ids |-> [id |-> ids[k], m |-> entries[ids[k]].m, gone |-> entries[ids[k]].gone]]]

OwnPending(c) == {i \in DOMAIN pending : pending[i] = c}

\* XREADGROUP 0: its own pending entries, until there are none; it stops when a pass
\* begins with the entry the last one began with.  No group is an error.
ROwn(c) ==
    /\ reader[c].phase = "own"
    /\ LET ids == FirstOf(OwnPending(c)) IN
       Set(c, IF ~group THEN Idle
              ELSE IF ids = <<>> THEN [reader[c] EXCEPT !.phase = "claim", !.first = 0]
              ELSE IF ids[1] = reader[c].first THEN Idle
              ELSE Take([reader[c] EXCEPT !.first = ids[1]], ids, "own"))
    /\ UNCHANGED <<feedVars, serverVars, named, crossed>>

\* XAUTOCLAIM from the cursor: entries idle long enough, on any consumer's list; those
\* no longer in the stream are dropped from the list.
RClaim(c) ==
    /\ reader[c].phase = "claim"
    /\ \/ ~group /\ RStop(c) /\ UNCHANGED pending
       \/ /\ group
          /\ \E idle \in SUBSET {i \in DOMAIN pending : i > reader[c].cursor} :
               LET ids == FirstOf(idle)
                   live == Only(ids, {k \in DOMAIN ids : ~entries[ids[k]].gone})
                   more == \E i \in idle : i \notin Range(ids)
                   r == [reader[c] EXCEPT !.cursor = IF more THEN Last(ids) ELSE 0,
                                          !.phase = IF more THEN "claim" ELSE "read"] IN
               /\ pending' = [i \in DOMAIN pending \ {i \in Range(ids) : entries[i].gone} |->
                                IF i \in Range(ids) THEN c ELSE pending[i]]
               /\ Set(c, IF live = <<>> THEN r ELSE Take(r, live, r.phase))
    /\ UNCHANGED <<feedVars, age, entries, group, given, token, minted, named, crossed>>

\* With -follow: long enough after the last claim, claim again.
RAgain(c) ==
    /\ reader[c].phase = "new" /\ Set(c, [reader[c] EXCEPT !.phase = "claim"])
    /\ UNCHANGED <<feedVars, serverVars, named, crossed>>

\* XREADGROUP >: new entries; when there are none the run ends, or with -follow goes on.
RNew(c) ==
    /\ reader[c].phase \in {"new", "read"}
    /\ LET new == {i \in (given + 1)..Len(entries) : ~entries[i].gone}
           ids == FirstOf(new) IN
       \/ ~group /\ RStop(c) /\ UNCHANGED <<given, pending>>
       \/ group /\ ids = <<>> /\ (RStop(c) \/ Set(c, [reader[c] EXCEPT !.phase = "new"])) /\ UNCHANGED <<given, pending>>
       \/ /\ group /\ ids # <<>>
          /\ given' = Last(ids) /\ pending' = Owned(c, Range(ids))
          /\ Set(c, Take(reader[c], ids, "new"))
    /\ UNCHANGED <<feedVars, age, entries, group, token, minted, named, crossed>>

-----------------------------------------------------------------------------
(* processBatch *)

Refused(x) == x.gone \/ ~Valid(x.m)
GoOn(c) == [reader[c] EXCEPT !.phase = reader[c].back, !.ms = <<>>, !.back = "own"]

\* XACK of S: done; or an error, with or without effect, that ends the run.
Ack(c, S, next) ==
    \/ pending' = Without(S) /\ Set(c, next) /\ UNCHANGED feedVars
    \/ S # {} /\ Fault /\ pending' \in {pending, Without(S)} /\ RStop(c) /\ UNCHANGED <<chain, coming, sent, stuck>>

\* What can never be committed, or is gone, is acknowledged first.
RRefuse(c) ==
    /\ reader[c].phase = "refuse"
    /\ LET ms == reader[c].ms
           kept == Only(ms, {k \in DOMAIN ms : ~Refused(ms[k])}) IN
       Ack(c, {ms[k].id : k \in {k \in DOMAIN ms : Refused(ms[k])}},
           IF kept = <<>> THEN GoOn(c) ELSE [reader[c] EXCEPT !.phase = "commit", !.ms = kept])
    /\ UNCHANGED <<age, entries, group, given, token, minted, named, crossed>>

SourceOf(c, x) == <<"evidence", reader[c].token, x.id>>

\* Any failure ends the run, nothing acknowledged.
RCommit(c) ==
    /\ reader[c].phase = "commit"
    /\ LET ms == reader[c].ms IN
       \E r \in CommitResults([k \in DOMAIN ms |-> Record(ms[k].m, SourceOf(c, ms[k]))]) :
         /\ Returned(r)
         /\ IF r.out = "ok" THEN Set(c, [reader[c] EXCEPT !.phase = "ack"]) ELSE RStop(c)
    /\ UNCHANGED <<serverVars, named, crossed>>

RAck(c) ==
    /\ reader[c].phase = "ack" /\ Ack(c, {reader[c].ms[k].id : k \in DOMAIN reader[c].ms}, GoOn(c))
    /\ UNCHANGED <<age, entries, group, given, token, minted, named, crossed>>

RDie(c) ==
    /\ reader[c].phase # "stopped" /\ Fault /\ RStop(c)
    /\ UNCHANGED <<chain, coming, sent, stuck, serverVars, named, crossed>>

RStep(c) ==
    \/ RGroup(c) \/ RToken(c) \/ RSetNX(c) \/ ROwn(c) \/ RClaim(c) \/ RNew(c)
    \/ RRefuse(c) \/ RCommit(c) \/ RAck(c)

\* The token failed to name the life: two in one life, one in two lives, or a process
\* that ran on with the token of a life that is over.
Misnamed ==
    \/ crossed
    \/ \E x, y \in named : x # y /\ (x[1] = y[1] \/ x[2] = y[2])

\* Bound: what follows a misnaming is not explored.
RedisNext ==
    /\ ~Misnamed
    /\ \/ RPublish \/ RRecreate \/ \E i \in DOMAIN entries : RDelete(i)
       \/ \E c \in Procs : RStep(c) \/ RAgain(c) \/ RDie(c)

-----------------------------------------------------------------------------
(* Properties *)

\* An entry that was delivered is pending, or on its chain itself, or could never be
\* there: nothing is acknowledged away, whoever read, claimed or retried it.
RedisKept ==
    \A i \in 1..given :
        \/ i \in DOMAIN pending \/ entries[i].gone \/ ~Valid(entries[i].m)
        \/ OnChain(entries[i].m.n) \/ Misnamed

=============================================================================
