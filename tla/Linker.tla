------------------------------- MODULE Linker -------------------------------
(***************************************************************************)
(* Linker.Append and Linker.AppendChains, by concurrent writers on one     *)
(* store, with failing transactions, a Store closed under its writers,     *)
(* crashes and reopens, and callers that retry what returned an error.     *)
(***************************************************************************)
EXTENDS ChainStore, FiniteSets

CONSTANTS
    Batches,   \* the batches of inputs: sets of [id, at], an entry id and its arrival time
    MaxCalls   \* bound: calls made in one behaviour, retries included

\* validateBatchOrdering: no batch is empty, no entry id appears twice.
ASSUME LinkerAssumption ==
    /\ \A b \in Batches : /\ IsFiniteSet(b) /\ b # {}
                          /\ \A x \in b : x.id \in Nat /\ x.at \in Nat
                          /\ \A x, y \in b : x.id = y.id => x = y
    /\ MaxCalls \in Nat

VARIABLES
    pc,      \* where each writer is in its call
    job,     \* its arguments: chains, batch, expected hash, and the number of the call
    tail,    \* the tail Append read
    calls,   \* history: calls made
    acked    \* history: <<chain, call>> for which a call returned a Result

callVars == <<pc, job, tail, calls, acked>>
vars == <<storeVars, callVars>>

NoJob == [chains |-> {}, batch |-> {}, expect |-> FALSE, at |-> <<>>, call |-> 0]
NoTail == [pos |-> 0, hash |-> <<>>]

Init ==
    /\ StoreInit
    /\ pc = [w \in Writers |-> "idle"]
    /\ job = [w \in Writers |-> NoJob]
    /\ tail = [w \in Writers |-> NoTail]
    /\ calls = 0 /\ acked = {}

-----------------------------------------------------------------------------
(* Linking *)

\* sortInputs: by arrival, then by entry id.
Before(x, y) == x.at < y.at \/ (x.at = y.at /\ x.id < y.id)

Rank(b, x) == Cardinality({y \in b : Before(y, x)})
Sorted(b) == [k \in 1..Cardinality(b) |-> CHOOSE x \in b : Rank(b, x) = k - 1]

\* link: the batch's entries from a position on, each linked to the one before it.
Linked(j, pos, hash) ==
    LET s == Sorted(j.batch)
        upTo(k) == hash \o [i \in 1..k |-> <<j.call, s[i].id>>]
    IN  [n \in pos..(pos + Len(s) - 1) |->
            [id |-> s[n - pos + 1].id, call |-> j.call,
             prev |-> upTo(n - pos), hash |-> upTo(n - pos + 1)]]

\* Mutant of AsExpected: the caller's hash is not compared.
ExpectIgnored(j, c, hash) == TRUE

\* ExpectChainHash, when given: the hash the caller predicted is the one linking gives.
AsExpected(j, c, hash) == j.expect => j.at[c] = hash

-----------------------------------------------------------------------------
(* The callers *)

\* A caller that predicts hashes reads the tails when it prepares the call.
Call(w, cs, b, expect, next) ==
    /\ pc[w] = "idle" /\ Usable(w)
    /\ calls < MaxCalls /\ calls' = calls + 1
    /\ pc' = [pc EXCEPT ![w] = next]
    /\ job' = [job EXCEPT ![w] = [chains |-> cs, batch |-> b, call |-> calls + 1, expect |-> expect,
                                  at |-> [c \in IF expect THEN cs ELSE {} |-> TailHash(c)]]]
    /\ UNCHANGED <<storeVars, tail, acked>>

CallAppend(w) ==
    \E c \in Chains, b \in Batches, expect \in BOOLEAN : Call(w, {c}, b, expect, "acquire")

CallAppendChains(w) ==
    \E cs \in (SUBSET Chains) \ {{}}, b \in Batches, expect \in BOOLEAN : Call(w, cs, b, expect, "update")

\* After an error or ErrChainBusy the caller gives up, or makes the same call again.
Give(w) ==
    /\ pc[w] \in {"done", "failed", "refused"}
    /\ pc' = [pc EXCEPT ![w] = "idle"]
    /\ job' = [job EXCEPT ![w] = NoJob]
    /\ tail' = [tail EXCEPT ![w] = NoTail]
    /\ stale' = stale \ {w}
    /\ UNCHANGED <<fileVars, open, faults, calls, acked>>

Retry(w) ==
    /\ pc[w] = "failed" /\ open
    /\ calls < MaxCalls /\ calls' = calls + 1
    /\ stale' = stale \ {w}
    /\ \E next \in {"acquire", "update"} :
          /\ next = "acquire" => \E c \in Chains : job[w].chains = {c}
          /\ pc' = [pc EXCEPT ![w] = next]
    /\ UNCHANGED <<fileVars, open, faults, job, tail, acked>>

-----------------------------------------------------------------------------
(* Append: five transactions under the chain's lease *)

Chain(w) == CHOOSE c \in job[w].chains : TRUE

Goto(w, l) == pc' = [pc EXCEPT ![w] = l]

AcquireLease(w) ==
    LET c == Chain(w) IN
    /\ pc[w] = "acquire"
    /\ \/ /\ Usable(w) /\ Acquire(w, c) /\ NoFault /\ UNCHANGED <<rows, heads>>
          /\ Goto(w, "tail")
       \/ /\ Usable(w) /\ leases[c] # None                  \* ErrChainBusy
          /\ Goto(w, "failed") /\ UNCHANGED storeVars
       \/ /\ TxError(w, Acquire(w, c) /\ UNCHANGED <<rows, heads>>)
          /\ Goto(w, "failed")
    /\ UNCHANGED <<job, tail, calls, acked>>

\* continuation: the chain itself says where to go on, never the saved head.
ReadTail(w) ==
    LET c == Chain(w) IN
    /\ pc[w] = "tail"
    /\ \/ /\ Usable(w) /\ NoFault
          /\ tail' = [tail EXCEPT ![w] = [pos |-> NextPos(c), hash |-> TailHash(c)]]
          /\ Goto(w, IF AsExpected(job[w], c, TailHash(c)) THEN "write" ELSE "releaseRefused")
       \/ TxError(w, FALSE) /\ Goto(w, "releaseFailed") /\ UNCHANGED tail
    /\ UNCHANGED <<fileVars, job, calls, acked>>

Write(w) ==
    LET c == Chain(w)
        write == WriteBatch(c, Linked(job[w], tail[w].pos, tail[w].hash)) /\ UNCHANGED <<heads, leases>>
    IN
    /\ pc[w] = "write"
    /\ \/ Usable(w) /\ write /\ NoFault /\ Goto(w, "head")
       \/ TxError(w, write) /\ Goto(w, "releaseFailed")
    /\ UNCHANGED <<job, tail, calls, acked>>

\* A failed PutState is ErrHeadStateStale: the Result is returned with it.
SaveHead(w) ==
    LET c == Chain(w)
        save == /\ PutState(c, HeadOf(Linked(job[w], tail[w].pos, tail[w].hash)))
                /\ UNCHANGED <<rows, leases>>
    IN
    /\ pc[w] = "head"
    /\ \/ Usable(w) /\ save /\ NoFault
       \/ TxError(w, save)
    /\ Goto(w, "releaseDone")
    /\ acked' = acked \cup {<<c, job[w].call>>}
    /\ UNCHANGED <<job, tail, calls>>

\* The deferred Release, whose error is dropped.
ReleaseLease(w) ==
    LET c == Chain(w)
        release == Release(w, c) /\ UNCHANGED <<rows, heads>>
    IN
    /\ pc[w] \in {"releaseDone", "releaseRefused", "releaseFailed"}
    /\ \/ Usable(w) /\ release /\ NoFault
       \/ Usable(w) /\ leases[c] # w /\ UNCHANGED storeVars
       \/ TxError(w, release)
    /\ Goto(w, CASE pc[w] = "releaseDone" -> "done"
                 [] pc[w] = "releaseRefused" -> "refused"
                 [] pc[w] = "releaseFailed" -> "failed")
    /\ UNCHANGED <<job, tail, calls, acked>>

-----------------------------------------------------------------------------
(* AppendChains: one transaction, no lease *)

Update(w) ==
    LET cs == job[w].chains
        update == /\ Unleased(cs) /\ \A c \in cs : AsExpected(job[w], c, TailHash(c))
                  /\ UpdateChains([c \in cs |-> Linked(job[w], NextPos(c), TailHash(c))])
                  /\ UNCHANGED leases
    IN
    /\ pc[w] = "update"
    /\ \/ /\ Usable(w) /\ update /\ NoFault
          /\ Goto(w, "done") /\ acked' = acked \cup {<<c, job[w].call>> : c \in cs}
       \/ /\ Usable(w) /\ ~Unleased(cs)                     \* ErrChainBusy
          /\ Goto(w, "failed") /\ UNCHANGED <<storeVars, acked>>
       \/ /\ Usable(w) /\ Unleased(cs) /\ \E c \in cs : ~AsExpected(job[w], c, TailHash(c))
          /\ Goto(w, "refused") /\ UNCHANGED <<storeVars, acked>>
       \/ TxError(w, update) /\ Goto(w, "failed") /\ UNCHANGED acked
    /\ UNCHANGED <<job, tail, calls>>

-----------------------------------------------------------------------------

\* The Store is closed; calls in progress go on with a handle that only fails.
Close ==
    /\ open /\ open' = FALSE
    /\ stale' = stale \cup {w \in Writers : pc[w] # "idle"}
    /\ UNCHANGED <<fileVars, faults, callVars>>

\* The process dies with all its writers.
Crash ==
    /\ open /\ faults > 0 /\ faults' = faults - 1
    /\ open' = FALSE /\ stale' = {}
    /\ pc' = [w \in Writers |-> "idle"]
    /\ job' = [w \in Writers |-> NoJob]
    /\ tail' = [w \in Writers |-> NoTail]
    /\ UNCHANGED <<fileVars, calls, acked>>

Reopen == Open /\ UNCHANGED callVars

Step(w) ==
    \/ AcquireLease(w) \/ ReadTail(w) \/ Write(w) \/ SaveHead(w) \/ ReleaseLease(w)
    \/ Update(w) \/ Give(w)

Next ==
    \/ \E w \in Writers : CallAppend(w) \/ CallAppendChains(w) \/ Retry(w) \/ Step(w)
    \/ Close \/ Crash \/ Reopen

Spec == Init /\ [][Next]_vars

\* Writers run on; the Store is closed some day, and opened again.
LiveSpec == Spec /\ (\A w \in Writers : WF_vars(Step(w))) /\ WF_vars(Close) /\ WF_vars(Reopen)

-----------------------------------------------------------------------------
(* Properties *)

Positions(c) == DOMAIN rows[c]

(* Stored entries, heads and leases (store/bolt) and what each writer keeps
   between the transactions of Append have the shapes the code gives them. *)
TypeOK ==
    /\ \A c \in Chains : Positions(c) \subseteq Nat \ {0}
    /\ leases \in [Chains -> Writers \cup {None}]
    /\ open \in BOOLEAN /\ stale \subseteq Writers /\ faults \in Nat /\ calls \in Nat
    /\ pc \in [Writers -> {"idle", "acquire", "tail", "write", "head", "update",
                           "releaseDone", "releaseRefused", "releaseFailed",
                           "done", "refused", "failed"}]

\* Every chain is what a verifier accepts: no gap, no fork, every entry linked to
\* the hash of the one before it, whatever appends ran side by side.
ChainsLinked ==
    \A c \in Chains :
        /\ Positions(c) = 1..Cardinality(Positions(c))
        /\ \A n \in Positions(c) :
              /\ rows[c][n].prev = IF n = 1 THEN <<>> ELSE rows[c][n - 1].hash
              /\ rows[c][n].hash = Append(rows[c][n].prev, <<rows[c][n].call, rows[c][n].id>>)

\* A saved head names an entry of its chain: late, never ahead and never a fork.
HeadsAreEntries ==
    \A c \in Chains : heads[c] # None =>
        heads[c].pos \in Positions(c) /\ rows[c][heads[c].pos].hash = heads[c].hash

\* A saved head never goes back to an earlier entry.
HeadsAdvance ==
    [][\A c \in Chains : heads[c] # None => heads'[c] # None /\ heads[c].pos <= heads'[c].pos]_vars

\* A call that returned a Result has every entry of its batch on each of its
\* chains, side by side and in arrival order, for good.
ResultsStand ==
    \A r \in acked : \E b \in Batches :
        LET s == Sorted(b) IN
        \E n \in Positions(r[1]) : \A i \in 1..Len(s) :
            /\ n + i - 1 \in Positions(r[1])
            /\ rows[r[1]][n + i - 1].call = r[2] /\ rows[r[1]][n + i - 1].id = s[i].id

\* A call that gives its expected hashes is on a chain at most once, however often
\* it is retried after errors that may have landed.
ExpectedOnce ==
    \A w \in Writers : job[w].expect =>
        \A c \in job[w].chains : \A m, n \in Positions(c) :
            /\ rows[c][m].call = job[w].call /\ rows[c][n].call = job[w].call
            /\ rows[c][m].id = rows[c][n].id
            => m = n

\* No chain stays leased: not by a writer that failed to release it, nor by one
\* that died with it.
LeaseFreed == \A c \in Chains : leases[c] # None ~> leases[c] = None

\* The chains are append-only logs, extended all or none.
Items == Nat \X Nat
Logs  == [c \in Chains |-> [n \in Positions(c) |-> <<rows[c][n].call, rows[c][n].id>>]]
Log == INSTANCE AppendLog WITH log <- Logs
AppendOnly == Log!LogSpec

\* Chains are linked and heads are entries of them, whatever appends ran side by side.
LinkerInv == TypeOK /\ ChainsLinked /\ HeadsAreEntries

\* What a call returned stays true, and a retry that names the expected hashes does
\* not append twice.
CallsStand == ResultsStand /\ ExpectedOnce

=============================================================================
