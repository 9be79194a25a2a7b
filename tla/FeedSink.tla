------------------------------ MODULE FeedSink ------------------------------
(***************************************************************************)
(* What the streaming consumers of examples/integrations share: the          *)
(* messages upstream, and sink.Commit as a consumer meets it, one record per *)
(* message under the message's position as Source.  What Commit does to the  *)
(* sink's files is the Sink modules' matter; here it is its contract.        *)
(***************************************************************************)
EXTENDS Integers, Sequences, SequencesExt, FiniteSets

CONSTANT Procs      \* the processes that consume at once

VARIABLES
    chain,      \* the entries of all chains, in the order they were appended
    coming,     \* the messages still to be published: [subject, content]; 0 is no valid subject
    sent,       \* how many messages are published
    stuck,      \* subjects whose stored state fails every Commit until repaired
    spare       \* bound: how many more errors, lost answers, deaths and moves there may be

feedVars == <<chain, coming, sent, stuck, spare>>

FeedInit(messages, most) == chain = <<>> /\ coming = messages /\ sent = 0 /\ stuck = {} /\ spare = most

Fault == spare > 0 /\ spare' = spare - 1

\* A set of positions in order, and what a sequence has at them: a loop over it that
\* keeps some.
InOrder(S) == [k \in 1..Cardinality(S) |-> CHOOSE i \in S : Cardinality({j \in S : j < i}) = k - 1]
Only(s, S) == LET at == InOrder(S) IN [k \in DOMAIN at |-> s[at[k]]]

Least(a, b) == IF a < b THEN a ELSE b

\* Record.Validate, as every consumer applies it before Commit.
Valid(m) == m.subject # 0

\* A message at a position.
Record(m, source) == [n |-> m.n, subject |-> m.subject, content |-> m.content, source |-> source]

Entries == {chain[i] : i \in DOMAIN chain}
OnChain(n) == \E e \in Entries : e.n = n
Copies(n) == Cardinality({i \in DOMAIN chain : chain[i].n = n})

SameSource(r, e) == r.subject = e.subject /\ r.source = e.source

\* A source that stands for other content, on the chain or in the call itself.
Conflict(recs) ==
    \E i \in DOMAIN recs :
        \/ \E e \in Entries : SameSource(recs[i], e) /\ e.content # recs[i].content
        \/ \E j \in 1..(i - 1) : SameSource(recs[i], recs[j]) /\ recs[j].content # recs[i].content

\* Mutant of Duplicate: only the call's own records are looked at.
DuplicateInCall(recs, i) == \E j \in 1..(i - 1) : SameSource(recs[i], recs[j])

\* Mutant of Duplicate: a record is known by what it says, not by where it is from.
DuplicateByContent(recs, i) ==
    LET same(r, e) == r.subject = e.subject /\ r.content = e.content IN
    (\E e \in Entries : same(recs[i], e)) \/ \E j \in 1..(i - 1) : same(recs[i], recs[j])

Duplicate(recs, i) ==
    \/ \E e \in Entries : SameSource(recs[i], e)
    \/ \E j \in 1..(i - 1) : SameSource(recs[i], recs[j])

\* The records of a call that are new.
New(recs) == {i \in DOMAIN recs : ~Duplicate(recs, i)}

\* The chains once the call's own transaction has landed.
Landed(recs) == chain \o Only(recs, New(recs))

StuckIn(recs) == {i \in DOMAIN recs : recs[i].subject \in stuck}

\* What a call may return: every record committed; an error that names the first
\* pair that is stuck; any other error, nothing committed, or (the unknown outcome)
\* committed all the same; or, before anything is tried, a signing mode that does not
\* match, which every call would meet.
CommitResults(recs) ==
    LET error(c, f) == [out |-> "error", pair |-> 0, chain |-> c, cost |-> f] IN
    (IF StuckIn(recs) # {}
     THEN LET first == CHOOSE i \in StuckIn(recs) : \A j \in StuckIn(recs) : i <= j IN
          {[out |-> "pair", pair |-> recs[first].subject, chain |-> chain, cost |-> 0]}
     ELSE IF Conflict(recs) THEN {error(chain, 0)}
     ELSE {[out |-> "ok", pair |-> 0, chain |-> Landed(recs), cost |-> 0]}
          \cup (IF spare > 0 THEN {error(Landed(recs), 1)} ELSE {}))
    \cup (IF spare > 0 THEN {error(chain, 1), [out |-> "config", pair |-> 0, chain |-> chain, cost |-> 1]} ELSE {})

Returned(r) == chain' = r.chain /\ spare' = spare - r.cost /\ UNCHANGED <<coming, sent, stuck>>

-----------------------------------------------------------------------------
(* Upstream and the operator *)

\* The next message, numbered.
Latest == [n |-> sent + 1, subject |-> Head(coming).subject, content |-> Head(coming).content]
Publish == coming # <<>> /\ coming' = Tail(coming) /\ sent' = sent + 1 /\ UNCHANGED <<chain, stuck, spare>>

\* The stored state of a subject with entries, or with a message still to come, goes bad;
\* an operator repairs it.
GetStuck(s) ==
    /\ s \in {e.subject : e \in Entries} \cup {coming[i].subject : i \in DOMAIN coming}
    /\ s > 0 /\ Fault /\ stuck' = stuck \cup {s} /\ UNCHANGED <<chain, coming, sent>>
Repair(s) == s \in stuck /\ stuck' = stuck \ {s} /\ UNCHANGED <<chain, coming, sent, spare>>

=============================================================================
