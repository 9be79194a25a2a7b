------------------------------ MODULE FeedProofs -----------------------------
(***************************************************************************)
(* The streaming consumers, for any number of processes, partitions,         *)
(* connections, messages and faults: no message twice on its chain, nothing   *)
(* acknowledged upstream that is not there.  One invariant per consumer, on   *)
(* top of one for the chains; it is the positions in use that name a message. *)
(***************************************************************************)
EXTENDS Feeders, TLAPS, FiniteSetTheorems, SequenceTheorems, NaturalsInduction, WellFoundedInduction

-----------------------------------------------------------------------------
(* Positions in order *)

LEMMA OfSeq ==
    ASSUME NEW T, NEW s \in Seq(T)
    PROVE  Len(s) \in Nat /\ DOMAIN s = 1..Len(s) /\ \A k \in 1..Len(s) : s[k] \in T
OBVIOUS

LEMMA IsSeq ==
    ASSUME NEW T, NEW n \in Nat, NEW w, \A k \in 1..n : w[k] \in T
    PROVE  [k \in 1..n |-> w[k]] \in Seq(T)
OBVIOUS

LEMMA UpTo == ASSUME NEW n \in Nat PROVE IsFiniteSet(1..n) /\ Cardinality(1..n) = n
BY FS_Interval

\* Among numbers there is a least one.
LEMMA LeastNumber == ASSUME NEW T, T \subseteq Nat, T # {} PROVE \E m \in T : \A n \in T : m <= n
<1> DEFINE R == OpToRel(<, Nat)
<1>1. \A m, n \in Nat : m < n => <<m, n>> \in R
  BY DEF OpToRel
<1>2. IsWellFoundedOn(R, Nat)
  BY NatLessThanWellFounded
<1>3. PICK m \in T : \A n \in T : ~ (<<n, m>> \in R)
  BY <1>2, WFMin
<1> HIDE DEF R
<1>4. \A n \in T : ~ (n < m)
  BY <1>1, <1>3
<1> QED BY <1>4

\* A set of positions in order has each of them once, the lower before the higher.
LEMMA InOrderIds ==
    ASSUME NEW S, IsFiniteSet(S), S \subseteq Nat
    PROVE  /\ InOrder(S) \in Seq(S) /\ Len(InOrder(S)) = Cardinality(S) /\ Cardinality(S) \in Nat
           /\ (\A x \in S : \E k \in 1..Cardinality(S) : InOrder(S)[k] = x)
           /\ \A i, j \in 1..Cardinality(S) : i < j => InOrder(S)[i] < InOrder(S)[j]
<1> DEFINE N == Cardinality(S)
           Pre(d) == {e \in S : e < d}
           T == 0..(N - 1)
           f == [d \in S |-> Cardinality(Pre(d))]
           s == InOrder(S)
<1>1. N \in Nat
  BY FS_CardinalityType
<1>2. ASSUME NEW d \in S
      PROVE  IsFiniteSet(Pre(d)) /\ Cardinality(Pre(d)) \in 0..(N - 1)
  <2>1. Pre(d) \in SUBSET S /\ d \notin Pre(d)
    OBVIOUS
  <2>2. /\ IsFiniteSet(Pre(d)) /\ Cardinality(Pre(d)) <= N
        /\ (N = Cardinality(Pre(d)) => S = Pre(d))
    BY <2>1, FS_Subset
  <2>3. Cardinality(Pre(d)) \in Nat
    BY <2>2, FS_CardinalityType
  <2> QED BY <1>1, <2>1, <2>2, <2>3
<1>3. ASSUME NEW d \in S, NEW e \in S, d < e
      PROVE  Cardinality(Pre(d)) < Cardinality(Pre(e))
  <2>0. d \in Nat /\ e \in Nat /\ \A x \in S : x \in Nat
    OBVIOUS
  <2>1. Pre(d) \in SUBSET Pre(e) /\ d \in Pre(e) /\ d \notin Pre(d)
    <3>1. \A x \in S : x < d => x < e
      BY <1>3, <2>0
    <3>2. d \in Pre(e) /\ ~(d < d)
      BY <1>3, <2>0
    <3> QED BY <3>1, <3>2
  <2>2. Cardinality(Pre(d)) <= Cardinality(Pre(e)) /\ Cardinality(Pre(e)) # Cardinality(Pre(d))
    BY <1>2, <2>1, FS_Subset
  <2> QED BY <1>2, <2>2
<1>4. \A d, e \in S : Cardinality(Pre(d)) = Cardinality(Pre(e)) => d = e
  <2> SUFFICES ASSUME NEW d \in S, NEW e \in S, d # e PROVE Cardinality(Pre(d)) # Cardinality(Pre(e))
    OBVIOUS
  <2>1. d < e \/ e < d
    OBVIOUS
  <2> QED BY <1>2, <1>3, <2>1
<1> HIDE DEF N, Pre
<1>5. f \in [S -> T] /\ \A d, e \in S : f[d] = f[e] => d = e
  BY <1>2, <1>4
<1>6. IsFiniteSet(T) /\ Cardinality(T) = N
  BY <1>1, FS_Interval
<1>7. f \in Surjection(S, T)
  <2>1. f \in Injection(S, T)
    BY <1>5 DEF Injection, IsInjective
  <2> QED BY <1>6, <2>1, FS_Injection DEF N
<1>8. \A k \in 1..N : \E d \in S : Cardinality(Pre(d)) = k - 1
  <2>1. \A t \in T : \E d \in S : f[d] = t
    BY <1>7 DEF Surjection
  <2>2. \A k \in 1..N : k - 1 \in T
    BY <1>1
  <2> QED BY <2>1, <2>2
<1>9. s = [k \in 1..N |-> CHOOSE d \in S : Cardinality(Pre(d)) = k - 1]
  BY DEF InOrder, N, Pre
<1> HIDE DEF s
<1>10. \A k \in 1..N : s[k] \in S /\ Cardinality(Pre(s[k])) = k - 1
  BY <1>8, <1>9
<1>11. s \in Seq(S) /\ Len(s) = N /\ DOMAIN s = 1..N
  BY <1>1, <1>9, <1>10
<1>12. ASSUME NEW d \in S PROVE \E k \in 1..N : s[k] = d
  <2>1. PICK k \in 1..N : k = Cardinality(Pre(d)) + 1
    BY <1>1, <1>2
  <2>2. Cardinality(Pre(s[k])) = Cardinality(Pre(d))
    BY <1>2, <1>10, <2>1
  <2> QED BY <1>4, <1>10, <2>2
<1>13. ASSUME NEW i \in 1..N, NEW j \in 1..N, i < j PROVE s[i] < s[j]
  <2>1. s[i] \in S /\ s[j] \in S /\ Cardinality(Pre(s[i])) = i - 1 /\ Cardinality(Pre(s[j])) = j - 1
    BY <1>10
  <2>2. i \in Nat /\ j \in Nat /\ i - 1 < j - 1
    BY <1>1, <1>13
  <2>3. s[i] # s[j]
    BY <2>1, <2>2
  <2>4. ~(s[j] < s[i])
    <3>1. s[j] < s[i] => j - 1 < i - 1
      BY <1>3, <2>1
    <3> QED BY <2>2, <3>1
  <2>5. s[i] \in Nat /\ s[j] \in Nat
    BY <2>1
  <2> QED BY <2>3, <2>4, <2>5
<1> QED BY <1>1, <1>11, <1>12, <1>13 DEF s, N

\* o has what s has at the positions S, in their order.
Selects(o, s, S) ==
    \E at \in Seq(S) :
        /\ Len(o) = Len(at) /\ DOMAIN o = 1..Len(at) /\ DOMAIN at = 1..Len(at)
        /\ \A k \in 1..Len(at) : o[k] = s[at[k]]
        /\ \A x \in S : \E k \in 1..Len(at) : at[k] = x
        /\ \A i, j \in 1..Len(at) : i < j => at[i] < at[j]

\* What a sequence has at some positions, in their order.
LEMMA OnlyAt ==
    ASSUME NEW T, NEW s \in Seq(T), NEW S, S \subseteq DOMAIN s
    PROVE  Only(s, S) \in Seq(T) /\ Selects(Only(s, S), s, S)
<1> DEFINE at == InOrder(S)
<1>1. IsFiniteSet(S) /\ S \subseteq Nat
  <2>1. Len(s) \in Nat /\ DOMAIN s = 1..Len(s) /\ 1 \in Int /\ Len(s) \in Int
    OBVIOUS
  <2>2. IsFiniteSet(1..Len(s))
    BY <2>1, UpTo
  <2>3. S \in SUBSET (1..Len(s))
    BY <2>1
  <2>4. IsFiniteSet(S)
    BY <2>2, <2>3, FS_Subset
  <2> QED BY <2>1, <2>4
<1>2. /\ at \in Seq(S) /\ Len(at) = Cardinality(S) /\ Cardinality(S) \in Nat
      /\ (\A x \in S : \E k \in 1..Cardinality(S) : at[k] = x)
      /\ \A i, j \in 1..Cardinality(S) : i < j => at[i] < at[j]
  BY <1>1, InOrderIds
<1>3. DOMAIN at = 1..Len(at)
  BY <1>2
<1>4. Only(s, S) = [k \in DOMAIN at |-> s[at[k]]]
  BY DEF Only
<1> HIDE DEF at
<1>5. \A k \in 1..Len(at) : at[k] \in DOMAIN s /\ s[at[k]] \in T
  BY <1>2
<1> DEFINE o == Only(s, S)
           e == Len(at)
<1>6. o = [k \in 1..e |-> s[at[k]]] /\ e \in Nat
  BY <1>2, <1>3, <1>4
<1> HIDE DEF o, e
<1>7. o \in Seq(T) /\ Len(o) = e /\ DOMAIN o = 1..e
  <2>1. \A k \in 1..e : s[at[k]] \in T
    BY <1>5 DEF e
  <2> QED BY <1>6, <2>1
<1>8. \A k \in 1..e : o[k] = s[at[k]]
  BY <1>6
<1> QED BY <1>2, <1>3, <1>7, <1>8 DEF o, e, Selects

-----------------------------------------------------------------------------
(* Commit, as the consumers meet it *)

Contents == {m.content : m \in Payloads}
Message  == [n : Nat, subject : Subjects \cup {0}, content : Contents]
Sources  == (Nat \X Nat \X Nat \X Nat) \cup ({"EVIDENCE", "evidence"} \X Nat \X Nat) \cup ({"otel"} \X Nat)
Recs     == [n : Nat, subject : Subjects, content : Contents, source : Sources]

\* What names a message: its number here, its subject and source for Commit.
Mark(m, source) == [n |-> m.n, subject |-> m.subject, source |-> source]
ChainMarks   == {Mark(chain[i], chain[i].source) : i \in DOMAIN chain}
MarksOf(recs) == {Mark(recs[i], recs[i].source) : i \in DOMAIN recs}

\* No two messages under one source, no message under two.
OneToOne(M) == \A s, t \in M : (s.n = t.n \/ s.source = t.source) => s = t

Once == \A i, j \in DOMAIN chain : chain[i].n = chain[j].n => i = j

\* The chain only grew, by some of these records in their order.
GrowsBy(recs) ==
    /\ chain' \in Seq(Recs) /\ Len(chain) <= Len(chain')
    /\ \A i \in DOMAIN chain : chain'[i] = chain[i]
    /\ \E g : /\ \A b \in (Len(chain) + 1)..Len(chain') : g[b] \in DOMAIN recs /\ chain'[b] = recs[g[b]]
              /\ \A a, b \in (Len(chain) + 1)..Len(chain') : a < b => g[a] < g[b]

\* c is the chains with those of the records appended that are new, in their order.
Landing(c, recs) ==
    /\ c \in Seq(Recs) /\ Len(chain) <= Len(c)
    /\ \A i \in DOMAIN chain : c[i] = chain[i]
    /\ \E g : /\ \A b \in (Len(chain) + 1)..Len(c) : g[b] \in New(recs) /\ c[b] = recs[g[b]]
              /\ \A a, b \in (Len(chain) + 1)..Len(c) : a < b => g[a] < g[b]
              /\ \A x \in New(recs) : \E b \in (Len(chain) + 1)..Len(c) : g[b] = x

\* The transaction appends the records that are no duplicates, and of every record there
\* is an entry.
LEMMA LandedEntries ==
    ASSUME chain \in Seq(Recs), NEW recs \in Seq(Recs)
    PROVE  Landing(Landed(recs), recs)
<1> DEFINE S == New(recs)
           o == Only(recs, S)
           L == Len(chain)
<1>1. S \subseteq DOMAIN recs
  BY DEF New
<1>2. PICK at \in Seq(S) :
             /\ Len(o) = Len(at) /\ DOMAIN o = 1..Len(at) /\ DOMAIN at = 1..Len(at)
             /\ \A k \in 1..Len(at) : o[k] = recs[at[k]]
             /\ \A x \in S : \E k \in 1..Len(at) : at[k] = x
             /\ \A i, j \in 1..Len(at) : i < j => at[i] < at[j]
  <2>1. Selects(o, recs, S)
    BY <1>1, OnlyAt
  <2> QED BY <2>1 DEF Selects
<1>o. o \in Seq(Recs)
  BY <1>1, OnlyAt
<1>3. Landed(recs) = chain \o o
  BY DEF Landed
<1> HIDE DEF S, o
<1>4. Len(at) \in Nat /\ L \in Nat /\ DOMAIN chain = 1..L
  BY <1>2
<1> DEFINE c == Landed(recs)
           g == [b \in (L + 1)..(L + Len(at)) |-> at[b - L]]
<1>5. c \in Seq(Recs) /\ Len(c) = L + Len(at) /\ \A i \in 1..L : c[i] = chain[i]
  <2>1. Len(o) = Len(at) /\ c = chain \o o
    BY <1>2, <1>3
  <2>2. /\ chain \o o \in Seq(Recs) /\ Len(chain \o o) = Len(chain) + Len(o)
        /\ \A i \in 1..(Len(chain) + Len(o)) : (chain \o o)[i] = IF i <= Len(chain) THEN chain[i] ELSE o[i - Len(chain)]
    BY <1>o, ConcatProperties
  <2>3. \A i \in 1..L : i \in 1..(Len(chain) + Len(o)) /\ i <= Len(chain)
    BY <1>4, <2>1
  <2>4. \A i \in 1..L : (chain \o o)[i] = chain[i]
    BY <2>2, <2>3
  <2> HIDE DEF c
  <2> QED BY <2>1, <2>2, <2>4
<1>6. \A b \in (L + 1)..(L + Len(at)) : b - L \in 1..Len(at) /\ c[b] = o[b - L]
  <2> SUFFICES ASSUME NEW b \in (L + 1)..(L + Len(at)) PROVE b - L \in 1..Len(at) /\ c[b] = o[b - L]
    OBVIOUS
  <2>1. Len(o) = Len(at) /\ c = chain \o o
    BY <1>2, <1>3
  <2>2. b \in 1..(Len(chain) + Len(o)) /\ ~(b <= Len(chain)) /\ b - L \in 1..Len(at)
    BY <1>4, <2>1
  <2> QED BY <1>o, <2>1, <2>2, ConcatProperties
<1> HIDE DEF c
<1>7. \A b \in (L + 1)..(L + Len(at)) : g[b] \in S /\ c[b] = recs[g[b]]
  <2> SUFFICES ASSUME NEW b \in (L + 1)..(L + Len(at)) PROVE g[b] \in S /\ c[b] = recs[g[b]]
    OBVIOUS
  <2>1. g[b] = at[b - L] /\ b - L \in 1..Len(at) /\ c[b] = o[b - L]
    BY <1>6
  <2>2. at[b - L] \in S
    BY <1>2, <2>1
  <2>3. o[b - L] = recs[at[b - L]]
    BY <1>2, <1>4, <2>1
  <2> QED BY <2>1, <2>2, <2>3
<1>8. \A a, b \in (L + 1)..(L + Len(at)) : a < b => g[a] < g[b]
  <2> SUFFICES ASSUME NEW a \in (L + 1)..(L + Len(at)), NEW b \in (L + 1)..(L + Len(at)), a < b PROVE g[a] < g[b]
    OBVIOUS
  <2>1. a - L \in DOMAIN at /\ b - L \in DOMAIN at /\ a - L < b - L
    BY <1>4
  <2> QED BY <1>2, <2>1
<1>9. \A x \in S : \E b \in (L + 1)..(L + Len(at)) : g[b] = x
  <2> SUFFICES ASSUME NEW x \in S PROVE \E b \in (L + 1)..(L + Len(at)) : g[b] = x
    OBVIOUS
  <2>1. PICK k \in DOMAIN at : at[k] = x
    BY <1>2
  <2>2. L + k \in (L + 1)..(L + Len(at)) /\ (L + k) - L = k
    BY <1>4
  <2>3. g[L + k] = at[k]
    BY <2>2
  <2> QED BY <2>1, <2>2, <2>3
<1> HIDE DEF g
<1>10. Len(c) = L + Len(at) /\ L <= Len(c)
  BY <1>4, <1>5
<1>11. (L + 1)..(L + Len(at)) = (Len(chain) + 1)..Len(c) /\ \A i \in DOMAIN chain : c[i] = chain[i]
  BY <1>4, <1>5, <1>10
<1>12. /\ \A b \in (Len(chain) + 1)..Len(c) : g[b] \in S /\ c[b] = recs[g[b]]
       /\ \A a, b \in (Len(chain) + 1)..Len(c) : a < b => g[a] < g[b]
       /\ \A x \in S : \E b \in (Len(chain) + 1)..Len(c) : g[b] = x
  BY <1>7, <1>8, <1>9, <1>11, Zenon
<1> QED BY <1>5, <1>10, <1>11, <1>12, Zenon DEF c, S, Landing

\* Every record of a call has an entry once the transaction landed: the first of those
\* that share its subject and source, unless there was one before.
LEMMA LandedHas ==
    ASSUME chain \in Seq(Recs), NEW recs \in Seq(Recs), NEW i \in DOMAIN recs
    PROVE  \E k \in DOMAIN Landed(recs) : SameSource(recs[i], Landed(recs)[k])
<1> DEFINE c == Landed(recs)
           T == {j \in DOMAIN recs : SameSource(recs[i], recs[j])}
<1>0. /\ c \in Seq(Recs) /\ Len(chain) <= Len(c)
      /\ \A x \in DOMAIN chain : c[x] = chain[x]
      /\ \E g : /\ \A b \in (Len(chain) + 1)..Len(c) : g[b] \in New(recs) /\ c[b] = recs[g[b]]
                /\ \A a, b \in (Len(chain) + 1)..Len(c) : a < b => g[a] < g[b]
                /\ \A x \in New(recs) : \E b \in (Len(chain) + 1)..Len(c) : g[b] = x
  BY LandedEntries DEF Landing
<1>a. Len(chain) \in Nat /\ DOMAIN chain = 1..Len(chain)
  OBVIOUS
<1>b. Len(c) \in Nat /\ DOMAIN c = 1..Len(c)
  BY <1>0
<1> HIDE DEF c
<1>1. CASE \E x \in DOMAIN chain : SameSource(recs[i], chain[x])
  <2>1. PICK x \in DOMAIN chain : SameSource(recs[i], chain[x])
    BY <1>1
  <2>2. x \in DOMAIN c /\ c[x] = chain[x]
    BY <1>0, <1>a, <1>b
  <2> QED BY <2>1, <2>2 DEF c
<1>2. CASE ~ \E x \in DOMAIN chain : SameSource(recs[i], chain[x])
  <2>1. T \subseteq Nat /\ i \in T
    BY DEF SameSource
  <2>2. PICK f \in T : \A n \in T : f <= n
    BY <2>1, LeastNumber
  <2>3. f \in New(recs)
    <3>1. SUFFICES Duplicate(recs, f) => FALSE
      BY <2>2 DEF New
    <3>2. ~ \E e \in Entries : SameSource(recs[f], e)
      BY <1>2, <2>2 DEF Entries, SameSource
    <3>3. \A j \in 1..(f - 1) : ~SameSource(recs[f], recs[j])
      <4> SUFFICES ASSUME NEW j \in 1..(f - 1), SameSource(recs[f], recs[j]) PROVE FALSE
        OBVIOUS
      <4>1. f \in DOMAIN recs /\ SameSource(recs[i], recs[f]) /\ f \in Nat
        BY <2>1, <2>2
      <4>2. j \in DOMAIN recs /\ ~(f <= j)
        BY <4>1
      <4>3. SameSource(recs[i], recs[j])
        BY <4>1 DEF SameSource
      <4> QED BY <2>2, <4>2, <4>3
    <3> QED BY <3>2, <3>3 DEF Duplicate
  <2>4. PICK g : /\ \A b \in (Len(chain) + 1)..Len(c) : g[b] \in New(recs) /\ c[b] = recs[g[b]]
                 /\ \A a, b \in (Len(chain) + 1)..Len(c) : a < b => g[a] < g[b]
                 /\ \A x \in New(recs) : \E b \in (Len(chain) + 1)..Len(c) : g[b] = x
    BY <1>0
  <2>5. PICK b \in (Len(chain) + 1)..Len(c) : g[b] = f
    BY <2>3, <2>4
  <2>6. c[b] = recs[f] /\ b \in DOMAIN c
    BY <1>a, <1>b, <2>4, <2>5
  <2> QED BY <2>2, <2>6 DEF c
<1> QED BY <1>1, <1>2

\* While sources and messages go together, Commit appends a message at most once and
\* leaves none of the call's out.
LEMMA LandedOnce ==
    ASSUME chain \in Seq(Recs), Once, NEW recs \in Seq(Recs), NEW M, OneToOne(M),
           ChainMarks \subseteq M, MarksOf(recs) \subseteq M, chain' = Landed(recs)
    PROVE  /\ GrowsBy(recs) /\ Once' /\ ChainMarks' \subseteq M
           /\ \A i \in DOMAIN recs : OnChain(recs[i].n)'
<1>1. /\ chain' \in Seq(Recs) /\ Len(chain) <= Len(chain')
      /\ \A i \in DOMAIN chain : chain'[i] = chain[i]
      /\ \E g : /\ \A b \in (Len(chain) + 1)..Len(chain') : g[b] \in New(recs) /\ chain'[b] = recs[g[b]]
                /\ \A a, b \in (Len(chain) + 1)..Len(chain') : a < b => g[a] < g[b]
                /\ \A x \in New(recs) : \E b \in (Len(chain) + 1)..Len(chain') : g[b] = x
  <2>1. Landing(Landed(recs), recs)
    BY LandedEntries
  <2>2. Landing(chain', recs)
    BY <2>1
  <2> QED BY <2>2 DEF Landing
<1>2. PICK g : /\ \A b \in (Len(chain) + 1)..Len(chain') : g[b] \in New(recs) /\ chain'[b] = recs[g[b]]
               /\ \A a, b \in (Len(chain) + 1)..Len(chain') : a < b => g[a] < g[b]
  BY <1>1
<1> DEFINE L == Len(chain)
<1>3. /\ L \in Nat /\ Len(chain') \in Nat /\ DOMAIN chain = 1..L /\ DOMAIN chain' = 1..Len(chain')
      /\ \A b \in DOMAIN chain' : b \in DOMAIN chain \/ b \in (L + 1)..Len(chain')
      /\ \A b \in DOMAIN chain : b \in DOMAIN chain'
      /\ \A b \in (L + 1)..Len(chain') : b \in DOMAIN chain' /\ b \notin DOMAIN chain
  BY <1>1
<1>4. \A x \in New(recs) : x \in DOMAIN recs /\ ~Duplicate(recs, x)
  BY DEF New
<1>5. GrowsBy(recs)
  <2>1. \A b \in (L + 1)..Len(chain') : g[b] \in DOMAIN recs /\ chain'[b] = recs[g[b]]
    BY <1>2, <1>4
  <2>2. \E h : /\ \A b \in (L + 1)..Len(chain') : h[b] \in DOMAIN recs /\ chain'[b] = recs[h[b]]
               /\ \A a, b \in (L + 1)..Len(chain') : a < b => h[a] < h[b]
    BY <1>2, <2>1, Zenon
  <2> QED BY <1>1, <2>2, Zenon DEF GrowsBy
\* An entry of a call has a mark; equal numbers mean equal subject and source.
<1>6. \A i \in DOMAIN recs : Mark(recs[i], recs[i].source) \in M
  BY DEF MarksOf
<1>7. \A i \in DOMAIN chain : Mark(chain[i], chain[i].source) \in M
  BY DEF ChainMarks
<1>8. ASSUME NEW r, NEW e, Mark(r, r.source) \in M, Mark(e, e.source) \in M
      PROVE  (r.n = e.n \/ r.source = e.source) => SameSource(r, e) /\ r.n = e.n
  <2> DEFINE s == Mark(r, r.source)
             u == Mark(e, e.source)
  <2>1. s.n = r.n /\ s.subject = r.subject /\ s.source = r.source
    BY DEF Mark
  <2>2. u.n = e.n /\ u.subject = e.subject /\ u.source = e.source
    BY DEF Mark
  <2> HIDE DEF s, u
  <2>3. (s.n = u.n \/ s.source = u.source) => s = u
    BY <1>8 DEF OneToOne, s, u
  <2> QED BY <2>1, <2>2, <2>3 DEF SameSource
<1>9. ChainMarks' \subseteq M
  <2> SUFFICES ASSUME NEW b \in DOMAIN chain' PROVE Mark(chain'[b], chain'[b].source) \in M
    BY DEF ChainMarks, Mark
  <2>1. CASE b \in DOMAIN chain
    BY <1>1, <1>7, <2>1
  <2>2. CASE b \in (L + 1)..Len(chain')
    <3>1. g[b] \in DOMAIN recs /\ chain'[b] = recs[g[b]]
      BY <1>2, <1>4, <2>2
    <3> QED BY <1>6, <3>1
  <2> QED BY <1>3, <2>1, <2>2
<1>10. ASSUME NEW a \in DOMAIN chain, NEW b \in (L + 1)..Len(chain') PROVE chain[a].n # chain'[b].n
  <2>1. g[b] \in DOMAIN recs /\ chain'[b] = recs[g[b]] /\ ~Duplicate(recs, g[b])
    BY <1>2, <1>4
  <2>2. ~SameSource(recs[g[b]], chain[a])
    BY <2>1 DEF Duplicate, Entries
  <2>3. recs[g[b]].n = chain[a].n => SameSource(recs[g[b]], chain[a])
    BY <1>6, <1>7, <1>8, <2>1
  <2> QED BY <2>1, <2>2, <2>3
<1>11. ASSUME NEW a \in (L + 1)..Len(chain'), NEW b \in (L + 1)..Len(chain'), a < b PROVE chain'[a].n # chain'[b].n
  <2>1. g[a] \in DOMAIN recs /\ g[b] \in DOMAIN recs /\ chain'[a] = recs[g[a]] /\ chain'[b] = recs[g[b]]
        /\ ~Duplicate(recs, g[b]) /\ g[a] < g[b]
    BY <1>2, <1>4, <1>11
  <2>2. g[a] \in 1..(g[b] - 1)
    BY <2>1
  <2>3. ~SameSource(recs[g[b]], recs[g[a]])
    BY <2>1, <2>2 DEF Duplicate
  <2>4. recs[g[b]].n = recs[g[a]].n => SameSource(recs[g[b]], recs[g[a]])
    BY <1>6, <1>8, <2>1
  <2> QED BY <2>1, <2>3, <2>4
<1>12. Once'
  <2> SUFFICES ASSUME NEW a \in DOMAIN chain', NEW b \in DOMAIN chain', chain'[a].n = chain'[b].n PROVE a = b
    BY DEF Once
  <2>1. CASE a \in DOMAIN chain /\ b \in DOMAIN chain
    BY <1>1, <2>1 DEF Once
  <2>2. CASE a \in DOMAIN chain /\ b \in (L + 1)..Len(chain')
    BY <1>1, <1>10, <2>2
  <2>3. CASE b \in DOMAIN chain /\ a \in (L + 1)..Len(chain')
    BY <1>1, <1>10, <2>3
  <2>4. CASE a \in (L + 1)..Len(chain') /\ b \in (L + 1)..Len(chain')
    <3>1. ~(a < b)
      BY <1>11, <2>4
    <3>2. ~(b < a)
      BY <1>11, <2>4
    <3> QED BY <2>4, <3>1, <3>2
  <2> QED BY <1>3, <2>1, <2>2, <2>3, <2>4
<1>13. ASSUME NEW i \in DOMAIN recs PROVE OnChain(recs[i].n)'
  <2>1. PICK k \in DOMAIN chain' : SameSource(recs[i], chain'[k])
    BY LandedHas
  <2>2. Mark(chain'[k], chain'[k].source) \in M
    BY <1>9 DEF ChainMarks, Mark
  <2>3. recs[i].n = chain'[k].n
    BY <1>6, <1>8, <2>1, <2>2 DEF SameSource
  <2> QED BY <2>3 DEF OnChain, Entries
<1> QED BY <1>5, <1>9, <1>12, <1>13

\* What a call may return, and what it did to the chains.
LEMMA CommitReturns ==
    ASSUME chain \in Seq(Recs), Once, spare \in Nat, NEW recs \in Seq(Recs), NEW M, OneToOne(M),
           ChainMarks \subseteq M, MarksOf(recs) \subseteq M, NEW r \in CommitResults(recs), Returned(r)
    PROVE  /\ GrowsBy(recs) /\ Once' /\ ChainMarks' \subseteq M
           /\ r.out = "ok" => \A i \in DOMAIN recs : OnChain(recs[i].n)'
           /\ r.out \in {"ok", "error", "pair", "config"}
           /\ r.out \in {"pair", "config"} => chain' = chain
           /\ spare' \in 0..spare /\ UNCHANGED <<coming, sent, stuck>>
<1>1. /\ r.chain \in {chain, Landed(recs)} /\ (r.out = "ok" => r.chain = Landed(recs))
      /\ r.out \in {"ok", "error", "pair", "config"} /\ (r.out \in {"pair", "config"} => r.chain = chain)
      /\ r.cost \in {0, 1} /\ (r.cost = 1 => spare > 0)
  BY DEF CommitResults
<1>2. chain' = r.chain /\ spare' = spare - r.cost /\ UNCHANGED <<coming, sent, stuck>>
  BY DEF Returned
<1>3. spare' \in 0..spare
  BY <1>1, <1>2
<1>4. CASE chain' = chain
  <2>1. Len(chain) \in Nat /\ (Len(chain) + 1)..Len(chain) = {}
    OBVIOUS
  <2>2. GrowsBy(recs)
    BY <1>4, <2>1 DEF GrowsBy
  <2>3. Once' /\ ChainMarks' \subseteq M
    BY <1>4 DEF Once, ChainMarks, Mark
  <2>4. r.out = "ok" => \A i \in DOMAIN recs : OnChain(recs[i].n)'
    <3>1. SUFFICES ASSUME r.out = "ok" PROVE \A i \in DOMAIN recs : OnChain(recs[i].n)'
      OBVIOUS
    <3>2. chain' = Landed(recs)
      BY <1>1, <1>2, <3>1
    <3> QED BY <3>2, LandedOnce
  <2> QED BY <1>1, <1>2, <1>3, <2>2, <2>3, <2>4
<1>5. CASE chain' = Landed(recs)
  <2>1. /\ GrowsBy(recs) /\ Once' /\ ChainMarks' \subseteq M
        /\ \A i \in DOMAIN recs : OnChain(recs[i].n)'
    BY <1>5, LandedOnce
  <2> QED BY <1>1, <1>2, <1>3, <2>1
<1> QED BY <1>1, <1>2, <1>4, <1>5

\* What is on the chain stays there, and what is new is of the call.
LEMMA Grown ==
    ASSUME NEW recs, chain \in Seq(Recs), GrowsBy(recs)
    PROVE  /\ \A n : OnChain(n) => OnChain(n)'
           /\ \A b \in DOMAIN chain' : \/ b \in DOMAIN chain /\ chain'[b] = chain[b]
                                       \/ \E i \in DOMAIN recs : chain'[b] = recs[i]
<1>1. Len(chain) \in Nat /\ DOMAIN chain = 1..Len(chain) /\ Len(chain') \in Nat /\ DOMAIN chain' = 1..Len(chain')
      /\ \A i \in DOMAIN chain : chain'[i] = chain[i] /\ i \in DOMAIN chain'
  BY DEF GrowsBy
<1>2. \A n : OnChain(n) => OnChain(n)'
  BY <1>1 DEF OnChain, Entries
<1>3. PICK g : \A b \in (Len(chain) + 1)..Len(chain') : g[b] \in DOMAIN recs /\ chain'[b] = recs[g[b]]
  BY DEF GrowsBy
<1>4. \A b \in DOMAIN chain' : b \in DOMAIN chain \/ b \in (Len(chain) + 1)..Len(chain')
  BY <1>1
<1> QED BY <1>1, <1>2, <1>3, <1>4

-----------------------------------------------------------------------------
(* Chain and upstream *)

FeedInv ==
    /\ feed \in Feeds
    /\ chain \in Seq(Recs) /\ (\A i \in DOMAIN chain : chain[i].n \in 1..sent) /\ Once
    /\ coming \in Seq(Payloads) /\ sent \in Nat /\ stuck \subseteq Subjects /\ spare \in 0..MaxFaults[feed]

\* Nothing of it changes, but the faults left.
Quiet == UNCHANGED <<chain, coming, sent, stuck, feed>> /\ spare' \in 0..spare

LEMMA FeedQuiet == FeedInv /\ Quiet => FeedInv'
<1> SUFFICES ASSUME FeedInv, Quiet PROVE FeedInv'
  OBVIOUS
<1>1. MaxFaults[feed] \in Nat
  BY FeedersAssumption DEF FeedInv
<1>2. spare' \in 0..MaxFaults[feed]
  BY <1>1 DEF FeedInv, Quiet
<1> QED BY <1>2 DEF FeedInv, Quiet, Once

LEMMA FaultQuiet == FeedInv /\ Fault /\ UNCHANGED <<chain, coming, sent, stuck, feed>> => Quiet
<1> SUFFICES ASSUME FeedInv, Fault, UNCHANGED <<chain, coming, sent, stuck, feed>> PROVE Quiet
  OBVIOUS
<1>1. MaxFaults[feed] \in Nat
  BY FeedersAssumption DEF FeedInv
<1> QED BY <1>1 DEF FeedInv, Quiet, Fault

LEMMA SameQuiet == FeedInv /\ UNCHANGED <<feedVars, feed>> => Quiet
<1> SUFFICES ASSUME FeedInv, UNCHANGED <<feedVars, feed>> PROVE Quiet
  OBVIOUS
<1>1. MaxFaults[feed] \in Nat
  BY FeedersAssumption DEF FeedInv
<1> QED BY <1>1 DEF FeedInv, Quiet, feedVars

LEMMA FeedPublish ==
    ASSUME FeedInv, Publish, feed' = feed
    PROVE  FeedInv' /\ Latest \in Message /\ Latest.n = sent + 1 /\ sent' = sent + 1 /\ chain' = chain
<1>1. coming # <<>> /\ coming' = Tail(coming) /\ sent' = sent + 1 /\ UNCHANGED <<chain, stuck, spare, feed>>
  BY DEF Publish
<1>2. Head(coming) \in Payloads /\ coming' \in Seq(Payloads)
  BY <1>1 DEF FeedInv
<1>3. Head(coming).subject \in Subjects \cup {0} /\ Head(coming).content \in Contents
  BY <1>2 DEF Subjects, Contents
<1>4. Latest \in Message /\ Latest.n = sent + 1
  BY <1>3 DEF Latest, Message, FeedInv
<1>5. \A i \in DOMAIN chain' : chain'[i].n \in 1..sent'
  <2> SUFFICES ASSUME NEW i \in DOMAIN chain' PROVE chain'[i].n \in 1..sent'
    OBVIOUS
  <2>1. chain'[i].n \in 1..sent /\ sent \in Nat
    BY <1>1 DEF FeedInv
  <2> QED BY <1>1, <2>1
<1>6. FeedInv'
  BY <1>1, <1>2, <1>5 DEF FeedInv, Once
<1> QED BY <1>1, <1>4, <1>6

\* A call's records are of published messages.
OfPublished(recs) == recs \in Seq(Recs) /\ \A i \in DOMAIN recs : recs[i].n \in 1..sent

LEMMA FeedGrown ==
    ASSUME FeedInv, NEW recs, OfPublished(recs), GrowsBy(recs), Once', spare' \in 0..spare,
           UNCHANGED <<coming, sent, stuck, feed>>
    PROVE  FeedInv'
<1>1. \A i \in DOMAIN chain' : chain'[i].n \in 1..sent'
  <2> SUFFICES ASSUME NEW b \in DOMAIN chain' PROVE chain'[b].n \in 1..sent
    OBVIOUS
  <2>1. \/ b \in DOMAIN chain /\ chain'[b] = chain[b]
        \/ \E i \in DOMAIN recs : chain'[b] = recs[i]
    BY Grown DEF FeedInv
  <2> QED BY <2>1 DEF FeedInv, OfPublished
<1>2. spare' \in 0..MaxFaults[feed]
  <2>1. MaxFaults[feed] \in Nat
    BY FeedersAssumption DEF FeedInv
  <2> QED BY <2>1 DEF FeedInv
<1>3. chain' \in Seq(Recs)
  BY DEF GrowsBy
<1> QED BY <1>1, <1>2, <1>3 DEF FeedInv

\* A valid message under a source is a record for Commit.
LEMMA RecordType ==
    ASSUME NEW m \in Message, Valid(m), NEW s \in Sources
    PROVE  /\ Record(m, s) \in Recs /\ Mark(Record(m, s), Record(m, s).source) = Mark(m, s)
           /\ Record(m, s).n = m.n
BY DEF Message, Valid, Record, Recs, Mark
\* What is on its chain stays there.
Stays == \A n : OnChain(n) => OnChain(n)'

LEMMA StaysSame == UNCHANGED chain => Stays /\ ChainMarks' = ChainMarks
BY DEF Stays, OnChain, Entries, ChainMarks, Mark

-----------------------------------------------------------------------------
(* NATS *)

Attached == {"ready", "batch", "routed", "answer"}
Batch    == Seq([seq : Nat, m : Message])
Process  == [phase : Attached \cup {"stopped", "opening"}, created : Nat, cons : Nat, ms : Batch, ok : BOOLEAN]

\* What a process holds: messages of its consumer's life, as that stream has or had them;
\* on their chain once it means to acknowledge them.
ProcessInv(c) ==
    /\ nats[c].phase \notin {"batch", "routed", "answer"} => nats[c].ms = <<>>
    /\ \A k \in DOMAIN nats[c].ms : nats[c].ms[k].seq \in 1..sent
    /\ nats[c].phase \in {"routed", "answer"} => \A k \in DOMAIN nats[c].ms : Valid(nats[c].ms[k].m)
    /\ (nats[c].phase = "answer" /\ nats[c].ok) => \A k \in DOMAIN nats[c].ms : OnChain(nats[c].ms[k].m.n)
    /\ (~stale /\ nats[c].phase \in Attached) => (nats[c].created = nats[c].cons /\ nats[c].cons <= life)
    /\ (~stale /\ nats[c].phase \in Attached /\ nats[c].cons = life) =>
         \A k \in DOMAIN nats[c].ms :
            nats[c].ms[k].seq \in DOMAIN stream /\ stream[nats[c].ms[k].seq].m = nats[c].ms[k].m

\* Every position in use: of the chain's entries, of the stream's messages, of what a
\* process still holds.
StreamMarks  == {Mark(stream[i].m, <<"EVIDENCE", life, i>>) : i \in DOMAIN stream}
ProcessMarks(c) == {Mark(nats[c].ms[k].m, Position(c, nats[c].ms[k])) : k \in DOMAIN nats[c].ms}
NatsMarks    == ChainMarks \cup StreamMarks \cup UNION {ProcessMarks(c) : c \in Procs}

\* Each names one message, and those of this life are within its stream.
NatsNamed ==
    /\ OneToOne(NatsMarks)
    /\ \A s \in NatsMarks :
         /\ s.n \in 1..sent
         /\ s.source \in {"EVIDENCE"} \X (0..life) \X Nat
         /\ s.source[2] = life => s.source[3] \in DOMAIN stream

NatsInv ==
    /\ life \in Nat /\ stale \in BOOLEAN /\ nats \in [Procs -> Process]
    /\ stream \in Seq([m : Message, state : {"waiting", "out", "acked", "term"}]) /\ Len(stream) <= sent
    /\ \A c \in Procs : ProcessInv(c)
    /\ ~stale => NatsNamed
    /\ NatsKept


StreamType == Seq([m : Message, state : {"waiting", "out", "acked", "term"}])

\* The stream's messages stay, whatever happens to their states.
SameStream ==
    /\ stream' \in StreamType /\ Len(stream') = Len(stream)
    /\ \A i \in DOMAIN stream : stream'[i].m = stream[i].m
    /\ life' = life

LEMMA StreamIndices ==
    ASSUME stream \in StreamType, SameStream
    PROVE  Len(stream) \in Nat /\ DOMAIN stream = 1..Len(stream) /\ DOMAIN stream' = DOMAIN stream
BY DEF StreamType, SameStream

LEMMA SameMarks ==
    ASSUME stream \in StreamType, SameStream
    PROVE  StreamMarks' = StreamMarks
<1>1. DOMAIN stream' = DOMAIN stream /\ life' = life /\ \A i \in DOMAIN stream : stream'[i].m = stream[i].m
  BY StreamIndices DEF SameStream
<1> QED BY <1>1 DEF StreamMarks, Mark

\* No position is new.
LEMMA NamedSame ==
    ASSUME NatsNamed, stream \in StreamType, SameStream, sent' = sent, NatsMarks' \subseteq NatsMarks
    PROVE  NatsNamed'
<1>1. DOMAIN stream' = DOMAIN stream /\ life' = life
  BY StreamIndices DEF SameStream
<1> HIDE DEF NatsMarks
<1>2. OneToOne(NatsMarks')
  BY DEF OneToOne, NatsNamed
<1>3. \A s \in NatsMarks' : s.n \in 1..sent' /\ s.source \in {"EVIDENCE"} \X (0..life') \X Nat
                            /\ (s.source[2] = life' => s.source[3] \in DOMAIN stream')
  BY <1>1 DEF NatsNamed
<1> QED BY <1>2, <1>3 DEF NatsNamed, OneToOne

\* The others are not concerned by what one process does.
LEMMA OthersInv ==
    ASSUME NatsInv, NEW c \in Procs, NEW d \in Procs, d # c, nats'[d] = nats[d], SameStream,
           \A n : OnChain(n) => OnChain(n)', sent' = sent, stale' \in {stale, TRUE}
    PROVE  ProcessInv(d)'
<1>1. ProcessInv(d) /\ stale \in BOOLEAN /\ stream \in StreamType
  BY DEF NatsInv, StreamType
<1>2. DOMAIN stream' = DOMAIN stream /\ life' = life /\ \A i \in DOMAIN stream : stream'[i].m = stream[i].m
  BY <1>1, StreamIndices DEF SameStream
<1>3. ~stale' => ~stale
  BY <1>1
<1>4. (nats'[d].phase = "answer" /\ nats'[d].ok) => \A k \in DOMAIN nats'[d].ms : OnChain(nats[d].ms[k].m.n)'
  <2> SUFFICES ASSUME nats'[d].phase = "answer", nats'[d].ok, NEW k \in DOMAIN nats[d].ms
               PROVE  OnChain(nats[d].ms[k].m.n)'
    OBVIOUS
  <2>1. PICK n : n = nats[d].ms[k].m.n
    OBVIOUS
  <2>2. OnChain(n)
    BY <1>1, <2>1 DEF ProcessInv
  <2>3. OnChain(n)' /\ n = nats'[d].ms[k].m.n
    BY <2>1, <2>2
  <2> QED BY <2>3 DEF OnChain
<1> QED BY <1>1, <1>2, <1>3, <1>4 DEF ProcessInv

\* No message is settled by a step but one that is on its chain, or can never be.
Settles ==
    \A i \in DOMAIN stream :
        \/ stream'[i].state = stream[i].state \/ stream'[i].state \in {"waiting", "out"}
        \/ stream'[i].state = "acked" /\ \E n : n = stream[i].m.n /\ OnChain(n)'
        \/ stream'[i].state = "term" /\ ~Valid(stream[i].m)

LEMMA KeptStep ==
    ASSUME NatsInv, SameStream, Settles, Stays, stale' \in {stale, TRUE}
    PROVE  NatsKept'
<1>1. stream \in StreamType /\ stale \in BOOLEAN
  BY DEF NatsInv, StreamType
<1>2. DOMAIN stream' = DOMAIN stream /\ \A i \in DOMAIN stream : stream'[i].m = stream[i].m
  BY <1>1, StreamIndices DEF SameStream
<1> SUFFICES ASSUME NEW i \in DOMAIN stream
             PROVE  /\ stream'[i].state = "acked" => (OnChain(stream[i].m.n)' \/ stale')
                    /\ stream'[i].state = "term" => ~Valid(stream'[i].m)
  BY <1>2 DEF NatsKept
<1>3. PICK n : n = stream[i].m.n
  OBVIOUS
<1>4. n = stream'[i].m.n
  BY <1>2, <1>3
<1>5. stream[i].state = "acked" => OnChain(n) \/ stale
  BY <1>3 DEF NatsInv, NatsKept
<1>6. stream[i].state = "term" => ~Valid(stream[i].m)
  BY DEF NatsInv, NatsKept
<1>7. stream'[i].state = "acked" => OnChain(n)' \/ stale'
  BY <1>1, <1>3, <1>5 DEF Settles, Stays
<1>8. stream'[i].state = "term" => ~Valid(stream'[i].m)
  BY <1>2, <1>6 DEF Settles
<1>9. OnChain(n)' => OnChain(stream[i].m.n)'
  BY <1>4 DEF OnChain
<1> QED BY <1>7, <1>8, <1>9

\* What one process does with what it holds.
LEMMA ProcessStep ==
    ASSUME NatsInv, ~stale, NEW c \in Procs, NEW r \in Process, nats' = [nats EXCEPT ![c] = r],
           SameStream, Settles, Stays, sent' = sent, stale' \in {stale, TRUE},
           ProcessInv(c)', ~stale' => ChainMarks' \cup ProcessMarks(c)' \subseteq NatsMarks
    PROVE  NatsInv'
<1>1. nats' \in [Procs -> Process] /\ \A d \in Procs : d # c => nats'[d] = nats[d]
  BY DEF NatsInv
<1>2. ASSUME NEW d \in Procs PROVE ProcessInv(d)'
  <2>1. CASE d = c
    BY <2>1
  <2>2. CASE d # c
    BY <1>1, <2>2, OthersInv DEF Stays
  <2> QED BY <2>1, <2>2
<1>3. stream \in StreamType /\ stream' \in StreamType /\ Len(stream') <= sent'
  BY DEF NatsInv, StreamType, SameStream
<1>4. ASSUME ~stale' PROVE NatsNamed'
  <2>1. ASSUME NEW d \in Procs, d # c PROVE ProcessMarks(d)' = ProcessMarks(d)
    BY <1>1, <2>1 DEF ProcessMarks, Mark, Position
  <2>2. StreamMarks' = StreamMarks
    BY <1>3, SameMarks
  <2>3. \A d \in Procs : ProcessMarks(d)' \subseteq NatsMarks
    BY <1>4, <2>1 DEF NatsMarks
  <2>4. NatsMarks' \subseteq NatsMarks
    BY <1>4, <2>2, <2>3 DEF NatsMarks
  <2> QED BY <1>3, <2>4, NamedSame DEF NatsInv
<1>5. NatsKept' /\ life' \in Nat /\ stale' \in BOOLEAN
  BY KeptStep DEF NatsInv, SameStream
<1> QED BY <1>1, <1>2, <1>3, <1>4, <1>5 DEF NatsInv, StreamType

\* A run ends.
LEMMA ProcessStops ==
    ASSUME NatsInv, ~stale, NEW c \in Procs, NStop(c), SameStream, Settles, Stays, sent' = sent, stale' = stale,
           ChainMarks' \subseteq NatsMarks
    PROVE  NatsInv'
<1>1. Down \in Process
  BY DEF Down, Process, Batch, Attached
<1>2. nats' = [nats EXCEPT ![c] = Down] /\ nats'[c] = Down
  BY DEF NStop, NatsInv
<1>3. Down.ms = <<>> /\ Down.phase = "stopped" /\ DOMAIN Down.ms = {}
  BY DEF Down
<1>4. ProcessInv(c)' /\ ProcessMarks(c)' = {}
  BY <1>2, <1>3 DEF ProcessInv, ProcessMarks, Attached
<1> QED BY <1>1, <1>2, <1>4, ProcessStep

\* The stream and the chains as they are.
LEMMA StreamUnchanged ==
    ASSUME NatsInv, UNCHANGED <<life, stream>>
    PROVE  SameStream /\ Settles
BY DEF NatsInv, SameStream, Settles, StreamType

LEMMA ChainUnchanged ==
    ASSUME UNCHANGED chain
    PROVE  Stays /\ ChainMarks' = ChainMarks /\ ChainMarks \subseteq NatsMarks
BY DEF Stays, OnChain, Entries, ChainMarks, Mark, NatsMarks

LEMMA NatsPublish ==
    ASSUME FeedInv, NatsInv, ~stale, NPublish, feed' = feed
    PROVE  FeedInv' /\ NatsInv'
<1>1. FeedInv' /\ Latest \in Message /\ Latest.n = sent + 1 /\ sent' = sent + 1 /\ chain' = chain /\ sent \in Nat
  BY FeedPublish DEF NPublish, FeedInv
<1>2. stream' = Append(stream, [m |-> Latest, state |-> "waiting"]) /\ UNCHANGED <<life, nats, stale>>
  BY DEF NPublish
<1> DEFINE e == [m |-> Latest, state |-> "waiting"]
           L == Len(stream)
           new == Mark(Latest, <<"EVIDENCE", life, L + 1>>)
<1>3. stream \in StreamType /\ L \in Nat /\ DOMAIN stream = 1..L /\ L <= sent
  BY DEF NatsInv, StreamType
<1>4. /\ stream' \in StreamType /\ Len(stream') = L + 1 /\ DOMAIN stream' = 1..(L + 1)
      /\ stream'[L + 1] = e /\ \A i \in 1..L : stream'[i] = stream[i]
  <2>1. e \in [m : Message, state : {"waiting", "out", "acked", "term"}]
    BY <1>1
  <2> HIDE DEF e
  <2> QED BY <1>2, <1>3, <2>1 DEF StreamType, e
<1>5. Len(stream') <= sent'
  BY <1>1, <1>3, <1>4
<1>6. \A c \in Procs : ProcessInv(c)'
  <2> SUFFICES ASSUME NEW c \in Procs PROVE ProcessInv(c)'
    OBVIOUS
  <2>1. ProcessInv(c)
    BY DEF NatsInv
  <2>2. 1..sent \subseteq 1..sent' /\ DOMAIN stream \subseteq DOMAIN stream'
    BY <1>1, <1>3, <1>4
  <2>3. \A i \in DOMAIN stream : stream'[i].m = stream[i].m
    BY <1>3, <1>4
  <2>4. Entries' = Entries
    BY <1>1 DEF Entries
  <2> QED BY <1>2, <2>1, <2>2, <2>3, <2>4 DEF ProcessInv, OnChain
<1>7. NatsMarks' \subseteq NatsMarks \cup {new}
  <2>1. ChainMarks' = ChainMarks
    BY <1>1 DEF ChainMarks, Mark
  <2>2. \A c \in Procs : ProcessMarks(c)' = ProcessMarks(c)
    BY <1>2 DEF ProcessMarks, Mark, Position
  <2>3. StreamMarks' \subseteq StreamMarks \cup {new}
    <3> SUFFICES ASSUME NEW i \in 1..(L + 1) PROVE Mark(stream'[i].m, <<"EVIDENCE", life, i>>) \in StreamMarks \cup {new}
      BY <1>2, <1>4 DEF StreamMarks, Mark
    <3>1. CASE i \in 1..L
      BY <1>3, <1>4, <3>1 DEF StreamMarks
    <3>2. CASE i = L + 1
      BY <1>4, <3>2
    <3> QED BY <1>3, <3>1, <3>2
  <2> QED BY <2>1, <2>2, <2>3 DEF NatsMarks
<1>8. new.n = sent + 1 /\ new.source = <<"EVIDENCE", life, L + 1>>
  BY <1>1 DEF Mark
<1>9. NatsNamed
  BY DEF NatsInv
<1>10. \A s \in NatsMarks : s.n # new.n /\ s.source # new.source
  <2> SUFFICES ASSUME NEW s \in NatsMarks PROVE s.n # new.n /\ s.source # new.source
    OBVIOUS
  <2>1. s.n \in 1..sent /\ s.source \in {"EVIDENCE"} \X (0..life) \X Nat /\ (s.source[2] = life => s.source[3] \in 1..L)
    BY <1>3, <1>9 DEF NatsNamed
  <2>2. s.n # sent + 1
    BY <1>1, <2>1
  <2>3. s.source = <<"EVIDENCE", life, L + 1>> => L + 1 \in 1..L
    BY <2>1
  <2> QED BY <1>3, <1>8, <2>2, <2>3
<1> HIDE DEF new
<1>11. OneToOne(NatsMarks')
  <2> SUFFICES ASSUME NEW s \in NatsMarks \cup {new}, NEW u \in NatsMarks \cup {new}, s.n = u.n \/ s.source = u.source
               PROVE  s = u
    BY <1>7, Zenon DEF OneToOne
  <2> QED BY <1>9, <1>10 DEF NatsNamed, OneToOne
<1>12. \A s \in NatsMarks' : s.n \in 1..sent' /\ s.source \in {"EVIDENCE"} \X (0..life') \X Nat
                             /\ (s.source[2] = life' => s.source[3] \in DOMAIN stream')
  <2> SUFFICES ASSUME NEW s \in NatsMarks \cup {new}
               PROVE  s.n \in 1..sent' /\ s.source \in {"EVIDENCE"} \X (0..life) \X Nat
                      /\ (s.source[2] = life => s.source[3] \in 1..(L + 1))
    BY <1>2, <1>4, <1>7
  <2>1. CASE s \in NatsMarks
    <3>1. s.n \in 1..sent /\ s.source \in {"EVIDENCE"} \X (0..life) \X Nat /\ (s.source[2] = life => s.source[3] \in 1..L)
      BY <1>3, <1>9, <2>1 DEF NatsNamed
    <3> QED BY <1>1, <1>3, <3>1
  <2>2. CASE s = new
    <3>1. life \in Nat
      BY DEF NatsInv
    <3>2. <<"EVIDENCE", life, L + 1>> \in {"EVIDENCE"} \X (0..life) \X Nat /\ L + 1 \in 1..(L + 1) /\ sent + 1 \in 1..sent'
      BY <1>1, <1>3, <3>1
    <3>3. s.n = sent + 1 /\ s.source = <<"EVIDENCE", life, L + 1>>
      BY <1>8, <2>2
    <3>4. s.source[3] = L + 1
      BY <3>3
    <3> QED BY <3>2, <3>3, <3>4
  <2> QED BY <2>1, <2>2
<1>13. NatsNamed'
  BY <1>11, <1>12 DEF NatsNamed, OneToOne
<1>14. NatsKept'
  <2>1. Entries' = Entries
    BY <1>1 DEF Entries
  <2>2. \A i \in DOMAIN stream' : i \in 1..L \/ (i = L + 1 /\ stream'[i] = e)
    BY <1>3, <1>4
  <2>3. \A i \in DOMAIN stream' : stream'[i].state # "waiting" => i \in DOMAIN stream /\ stream'[i] = stream[i]
    BY <1>3, <1>4, <2>2
  <2>4. NatsKept
    BY DEF NatsInv
  <2> QED BY <1>2, <2>1, <2>3, <2>4 DEF NatsKept, OnChain
<1> QED BY <1>1, <1>2, <1>4, <1>5, <1>6, <1>13, <1>14 DEF NatsInv, StreamType

LEMMA NatsRecreate ==
    ASSUME FeedInv, NatsInv, ~stale, NRecreate, feed' = feed
    PROVE  FeedInv' /\ NatsInv'
<1>1. UNCHANGED <<chain, coming, sent, stuck, nats, stale>> /\ life' = life + 1 /\ stream' = <<>> /\ Fault
  BY DEF NRecreate
<1>2. FeedInv'
  BY <1>1, FaultQuiet, FeedQuiet
<1>3. DOMAIN stream' = {} /\ stream' \in StreamType /\ Len(stream') = 0 /\ sent \in Nat /\ life \in Nat
  BY <1>1 DEF StreamType, FeedInv, NatsInv
<1>4. \A c \in Procs : ProcessInv(c)'
  <2> SUFFICES ASSUME NEW c \in Procs PROVE ProcessInv(c)'
    OBVIOUS
  <2>1. ProcessInv(c) /\ nats \in [Procs -> Process]
    BY DEF NatsInv
  <2>2. nats[c].cons \in Nat
    BY <2>1 DEF Process
  <2>3. nats[c].cons <= life => nats[c].cons <= life' /\ nats[c].cons # life'
    BY <1>1, <1>3, <2>2
  <2>4. Entries' = Entries
    BY <1>1 DEF Entries
  <2> QED BY <1>1, <2>1, <2>3, <2>4 DEF ProcessInv, OnChain
<1>5. NatsMarks' \subseteq NatsMarks
  <2>1. ChainMarks' = ChainMarks /\ StreamMarks' = {}
    BY <1>1, <1>3 DEF ChainMarks, Mark, StreamMarks
  <2>2. \A c \in Procs : ProcessMarks(c)' = ProcessMarks(c)
    BY <1>1 DEF ProcessMarks, Mark, Position
  <2> QED BY <2>1, <2>2 DEF NatsMarks
<1>6. NatsNamed
  BY DEF NatsInv
<1>7. \A s \in NatsMarks : s.n \in 1..sent /\ s.source \in {"EVIDENCE"} \X (0..(life + 1)) \X Nat /\ s.source[2] # life + 1
  <2> SUFFICES ASSUME NEW s \in NatsMarks
               PROVE  s.n \in 1..sent /\ s.source \in {"EVIDENCE"} \X (0..(life + 1)) \X Nat /\ s.source[2] # life + 1
    OBVIOUS
  <2>1. s.n \in 1..sent /\ s.source \in {"EVIDENCE"} \X (0..life) \X Nat
    BY <1>6 DEF NatsNamed
  <2> QED BY <1>3, <2>1
<1>8. OneToOne(NatsMarks')
  BY <1>5, <1>6, Zenon DEF OneToOne, NatsNamed
<1>9. \A s \in NatsMarks' : s.n \in 1..sent' /\ s.source \in {"EVIDENCE"} \X (0..life') \X Nat
                             /\ (s.source[2] = life' => s.source[3] \in DOMAIN stream')
  <2> HIDE DEF NatsMarks
  <2> QED BY <1>1, <1>5, <1>7
<1>10. NatsNamed' /\ NatsKept'
  BY <1>3, <1>8, <1>9 DEF NatsNamed, OneToOne, NatsKept
<1> QED BY <1>1, <1>2, <1>3, <1>4, <1>10 DEF NatsInv, StreamType

LEMMA NatsDeadline ==
    ASSUME FeedInv, NatsInv, ~stale, NEW i \in DOMAIN stream, NDeadline(i), feed' = feed
    PROVE  FeedInv' /\ NatsInv'
<1>1. stream' = [stream EXCEPT ![i].state = "waiting"] /\ UNCHANGED <<feedVars, life, nats, stale>>
  BY DEF NDeadline
<1>2. FeedInv'
  BY <1>1, SameQuiet, FeedQuiet
<1>3. stream \in StreamType
  BY DEF NatsInv, StreamType
<1>4. SameStream /\ Settles
  <2> DEFINE E == [m : Message, state : {"waiting", "out", "acked", "term"}]
  <2>0. stream \in Seq(E)
    BY <1>3 DEF StreamType
  <2>1. stream \in Seq(E) /\ i \in DOMAIN stream /\ stream[i] \in E
    <3> HIDE DEF E
    <3> QED BY <2>0
  <2>2. [stream[i] EXCEPT !.state = "waiting"] \in E /\ [stream[i] EXCEPT !.state = "waiting"].m = stream[i].m
        /\ [stream[i] EXCEPT !.state = "waiting"].state = "waiting"
    BY <2>1
  <2>3. stream' = [stream EXCEPT ![i] = [stream[i] EXCEPT !.state = "waiting"]]
    BY <1>1
  <2> HIDE DEF E
  <2>4. stream' \in Seq(E) /\ Len(stream') = Len(stream) /\ \A j \in DOMAIN stream : j # i => stream'[j] = stream[j]
    BY <2>1, <2>2, <2>3
  <2>5. stream'[i] = [stream[i] EXCEPT !.state = "waiting"]
    BY <2>1, <2>3
  <2>6. \A j \in DOMAIN stream : stream'[j].m = stream[j].m
                                 /\ (stream'[j].state = stream[j].state \/ stream'[j].state = "waiting")
    BY <2>2, <2>4, <2>5
  <2> QED BY <1>1, <2>4, <2>6 DEF SameStream, Settles, StreamType, E
<1>5. chain' = chain /\ sent' = sent
  BY <1>1 DEF feedVars
<1>6. Stays /\ ChainMarks' = ChainMarks /\ StreamMarks' = StreamMarks
  BY <1>3, <1>4, <1>5, ChainUnchanged, SameMarks
<1>7. ASSUME NEW d \in Procs PROVE ProcessInv(d)' /\ ProcessMarks(d)' = ProcessMarks(d)
  <2>1. ProcessMarks(d)' = ProcessMarks(d)
    BY <1>1 DEF ProcessMarks, Mark, Position
  <2>2. DOMAIN stream' = DOMAIN stream /\ \A j \in DOMAIN stream : stream'[j].m = stream[j].m
    BY <1>3, <1>4, StreamIndices DEF SameStream
  <2>3. Entries' = Entries
    BY <1>5 DEF Entries
  <2>4. ProcessInv(d)
    BY DEF NatsInv
  <2>5. ProcessInv(d)'
    <3> HIDE DEF NatsMarks
    <3> QED BY <1>1, <1>5, <2>2, <2>3, <2>4 DEF ProcessInv, OnChain
  <2> QED BY <2>1, <2>5
<1>8. NatsMarks' \subseteq NatsMarks
  BY <1>6, <1>7 DEF NatsMarks
<1>9. NatsNamed' /\ NatsKept'
  BY <1>1, <1>3, <1>4, <1>5, <1>6, <1>8, NamedSame, KeptStep DEF NatsInv
<1>10. stream' \in StreamType /\ Len(stream') <= sent'
  BY <1>4, <1>5 DEF SameStream, NatsInv
<1> QED BY <1>1, <1>2, <1>7, <1>9, <1>10 DEF NatsInv, StreamType

LEMMA NatsInfo ==
    ASSUME FeedInv, NatsInv, ~stale, NEW c \in Procs, NInfo(c), feed' = feed
    PROVE  FeedInv' /\ NatsInv'
<1> DEFINE r == [nats[c] EXCEPT !.phase = "opening", !.created = life]
<1>1. nats[c].phase = "stopped" /\ nats' = [nats EXCEPT ![c] = r] /\ UNCHANGED <<feedVars, life, stream, stale>>
  BY DEF NInfo
<1>2. FeedInv' /\ chain' = chain /\ sent' = sent
  BY <1>1, SameQuiet, FeedQuiet DEF feedVars
<1>3. nats[c] \in Process /\ nats[c].ms = <<>> /\ life \in Nat /\ stale \in BOOLEAN
  BY <1>1 DEF NatsInv, ProcessInv
<1>4. r \in Process /\ r.phase = "opening" /\ r.ms = nats[c].ms
  BY <1>3 DEF Process
<1> HIDE DEF r
<1>5. nats'[c] = r
  BY <1>1 DEF NatsInv
<1>a. r.ms = <<>> /\ DOMAIN r.ms = {}
  BY <1>3, <1>4
<1>6. ProcessInv(c)' /\ ProcessMarks(c)' = {}
  BY <1>4, <1>5, <1>a DEF ProcessInv, ProcessMarks, Attached
<1> QED BY <1>1, <1>2, <1>3, <1>4, <1>6, ProcessStep, StreamUnchanged, ChainUnchanged

LEMMA NatsAttach ==
    ASSUME FeedInv, NatsInv, ~stale, NEW c \in Procs, NAttach(c), feed' = feed
    PROVE  FeedInv' /\ NatsInv'
<1> DEFINE r == [nats[c] EXCEPT !.phase = "ready", !.cons = life]
<1>1. nats[c].phase = "opening" /\ nats' = [nats EXCEPT ![c] = r] /\ UNCHANGED <<feedVars, life, stream>>
      /\ stale' = (stale \/ nats[c].created # life)
  BY DEF NAttach
<1>2. FeedInv' /\ chain' = chain /\ sent' = sent
  BY <1>1, SameQuiet, FeedQuiet DEF feedVars
<1>3. nats[c] \in Process /\ nats[c].ms = <<>> /\ life \in Nat /\ stale \in BOOLEAN
  BY <1>1 DEF NatsInv, ProcessInv
<1>4. r \in Process /\ r.phase = "ready" /\ r.ms = nats[c].ms /\ r.created = nats[c].created /\ r.cons = life
  BY <1>3 DEF Process, Attached
<1> HIDE DEF r
<1>5. nats'[c] = r
  BY <1>1 DEF NatsInv
<1>6. ~stale' => r.created = r.cons
  BY <1>1, <1>4
<1>a. r.ms = <<>> /\ DOMAIN r.ms = {}
  BY <1>3, <1>4
<1>7. ProcessInv(c)' /\ ProcessMarks(c)' = {}
  BY <1>1, <1>3, <1>4, <1>5, <1>6, <1>a DEF ProcessInv, ProcessMarks, Attached
<1> QED BY <1>1, <1>2, <1>3, <1>4, <1>7, ProcessStep, StreamUnchanged, ChainUnchanged

LEMMA NatsDie ==
    ASSUME FeedInv, NatsInv, ~stale, NEW c \in Procs, NDie(c), feed' = feed
    PROVE  FeedInv' /\ NatsInv'
<1>1. NStop(c) /\ Fault /\ UNCHANGED <<chain, coming, sent, stuck, life, stream, stale>>
  BY DEF NDie
<1>2. FeedInv'
  BY <1>1, FaultQuiet, FeedQuiet
<1> QED BY <1>1, <1>2, ProcessStops, StreamUnchanged, ChainUnchanged

\* What a fetch takes is, in order, of what waits.
LEMMA Fetched2 ==
    ASSUME stream \in StreamType, FetchBatch \in Nat,
           NEW waiting, waiting = InOrder({i \in DOMAIN stream : stream[i].state = "waiting"}),
           NEW got, got = [k \in 1..Least(Len(waiting), FetchBatch) |-> waiting[k]]
    PROVE  got \in Seq(DOMAIN stream)
<1> DEFINE S == {i \in DOMAIN stream : stream[i].state = "waiting"}
<1>1. Len(stream) \in Nat /\ DOMAIN stream = 1..Len(stream)
  BY OfSeq DEF StreamType
<1>2. IsFiniteSet(1..Len(stream))
  <2>1. PICK n \in Nat : n = Len(stream)
    BY <1>1
  <2> QED BY <2>1, UpTo
<1>3. S \in SUBSET (1..Len(stream))
  <2>1. \A i \in S : i \in DOMAIN stream
    OBVIOUS
  <2> HIDE DEF S
  <2> QED BY <1>1, <2>1, Zenon
<1>4. IsFiniteSet(S) /\ S \subseteq Nat
  BY <1>1, <1>2, <1>3, FS_Subset
<1> HIDE DEF S
<1>5. InOrder(S) \in Seq(S)
  BY <1>4, InOrderIds
<1>6. waiting \in Seq(S) /\ Len(waiting) \in Nat /\ \A k \in 1..Len(waiting) : waiting[k] \in DOMAIN stream
  <2>1. waiting = InOrder(S)
    BY DEF S
  <2>2. waiting \in Seq(S)
    BY <1>5, <2>1
  <2>3. Len(waiting) \in Nat /\ \A k \in 1..Len(waiting) : waiting[k] \in S
    BY <2>2, OfSeq
  <2> QED BY <1>1, <1>3, <2>2, <2>3
<1>7. Least(Len(waiting), FetchBatch) \in 0..Len(waiting)
  BY <1>6 DEF Least
<1> DEFINE e == Least(Len(waiting), FetchBatch)
<1> HIDE DEF e
<1>8. got = [k \in 1..e |-> waiting[k]] /\ e \in 0..Len(waiting)
  BY <1>7 DEF e
<1>9. \A k \in 1..e : waiting[k] \in DOMAIN stream
  BY <1>6, <1>8
<1>10. e \in Nat
  BY <1>6, <1>8
<1>11. [k \in 1..e |-> waiting[k]] \in Seq(DOMAIN stream)
  BY <1>9, <1>10, IsSeq
<1> QED BY <1>8, <1>11

LEMMA NatsFetch ==
    ASSUME FeedInv, NatsInv, ~stale, NEW c \in Procs, NFetch(c), feed' = feed
    PROVE  FeedInv' /\ NatsInv'
<1>1. nats[c].phase = "ready" /\ UNCHANGED <<feedVars, life, stale>>
  BY DEF NFetch
<1>2. PICK waiting : waiting = InOrder({i \in DOMAIN stream : stream[i].state = "waiting"})
  OBVIOUS
<1>3. PICK got : got = [k \in 1..Least(Len(waiting), FetchBatch) |-> waiting[k]]
  OBVIOUS
<1> DEFINE ms == [k \in DOMAIN got |-> [seq |-> got[k], m |-> stream[got[k]].m]]
           r == [nats[c] EXCEPT !.phase = "batch", !.ms = ms]
<1>4. \/ NStop(c) /\ UNCHANGED stream
      \/ /\ nats[c].cons = life /\ nats' = [nats EXCEPT ![c] = r]
         /\ stream' = [i \in DOMAIN stream |-> IF i \in Range(got) THEN [stream[i] EXCEPT !.state = "out"] ELSE stream[i]]
  BY <1>2, <1>3 DEF NFetch
<1>5. FeedInv' /\ chain' = chain /\ sent' = sent
  BY <1>1, SameQuiet, FeedQuiet DEF feedVars
<1>6. CASE NStop(c) /\ UNCHANGED stream
  BY <1>1, <1>5, <1>6, ProcessStops, StreamUnchanged, ChainUnchanged
<1>7. CASE /\ nats[c].cons = life /\ nats' = [nats EXCEPT ![c] = r]
           /\ stream' = [i \in DOMAIN stream |-> IF i \in Range(got) THEN [stream[i] EXCEPT !.state = "out"] ELSE stream[i]]
  <2>1. stream \in StreamType /\ FetchBatch \in Nat
    BY NatsAssumption DEF NatsInv, StreamType
  <2>2. got \in Seq(DOMAIN stream)
    BY <1>2, <1>3, <2>1, Fetched2
  <2>3. Len(stream) \in Nat /\ DOMAIN stream = 1..Len(stream) /\ Len(stream) <= sent /\ sent \in Nat
    BY <2>1 DEF StreamType, NatsInv, FeedInv
  <2>4. Len(got) \in Nat /\ DOMAIN got = 1..Len(got) /\ \A k \in DOMAIN got : got[k] \in DOMAIN stream
    BY <2>2
  <2> DEFINE E == [m : Message, state : {"waiting", "out", "acked", "term"}]
  <2>a. ASSUME NEW e \in E
        PROVE  /\ e.m \in Message /\ [e EXCEPT !.state = "out"] \in E
               /\ [e EXCEPT !.state = "out"].m = e.m /\ [e EXCEPT !.state = "out"].state = "out"
    OBVIOUS
  <2>b. stream \in Seq(E)
    BY <2>1 DEF StreamType
  <2>5. \A i \in DOMAIN stream : /\ stream[i].m \in Message /\ [stream[i] EXCEPT !.state = "out"] \in E
                                 /\ [stream[i] EXCEPT !.state = "out"].m = stream[i].m
                                 /\ [stream[i] EXCEPT !.state = "out"].state = "out" /\ stream[i] \in E
    <3> HIDE DEF E
    <3>1. \A i \in DOMAIN stream : stream[i] \in E
      BY <2>b
    <3> QED BY <2>a, <3>1
  <2> HIDE DEF E
  <2>c. \A i \in DOMAIN stream : stream[i].m \in Message
    BY <2>5
  <2>6. /\ \A i \in DOMAIN stream : /\ stream'[i] \in E /\ stream'[i].m = stream[i].m
                                    /\ (stream'[i].state = stream[i].state \/ stream'[i].state = "out")
    BY <1>7, <2>5
  <2>7. stream' \in Seq(E) /\ Len(stream') = Len(stream)
    <3>1. stream' = [i \in 1..Len(stream) |-> stream'[i]]
      BY <1>7, <2>3
    <3> QED BY <2>3, <2>6, <3>1
  <2>8. SameStream /\ Settles
    BY <1>1, <2>6, <2>7 DEF SameStream, Settles, StreamType, E
  <2>9. ms \in Batch /\ Len(ms) = Len(got) /\ DOMAIN ms = DOMAIN got
        /\ \A k \in DOMAIN got : ms[k].seq = got[k] /\ ms[k].m = stream[got[k]].m
    <3>1. ASSUME NEW k \in DOMAIN got PROVE got[k] \in Nat /\ stream[got[k]].m \in Message
      <4>1. got[k] \in DOMAIN stream
        BY <2>4
      <4> QED BY <2>3, <2>c, <4>1
    <3>2. \A k \in DOMAIN got : [seq |-> got[k], m |-> stream[got[k]].m] \in [seq : Nat, m : Message]
      BY <3>1
    <3>3. ms = [k \in 1..Len(got) |-> [seq |-> got[k], m |-> stream[got[k]].m]]
      BY <2>4
    <3> QED BY <2>4, <3>2, <3>3 DEF Batch
  <2> HIDE DEF ms
  <2>10. nats[c] \in Process /\ nats[c].created = life
    BY <1>1, <1>7 DEF NatsInv, ProcessInv, Attached
  <2>11. r \in Process /\ r.phase = "batch" /\ r.ms = ms /\ r.created = life /\ r.cons = life
    BY <1>7, <2>9, <2>10 DEF Process, Attached
  <2> HIDE DEF r
  <2>12. nats'[c] = r
    BY <1>7 DEF NatsInv
  <2>13. ProcessInv(c)'
    <3>1. \A k \in DOMAIN ms : ms[k].seq \in 1..sent /\ ms[k].seq \in DOMAIN stream'
                               /\ stream'[ms[k].seq].m = ms[k].m
      BY <2>3, <2>4, <2>6, <2>7, <2>9
    <3>2. life \in Nat /\ life <= life
      BY DEF NatsInv
    <3> QED BY <1>1, <1>5, <2>11, <2>12, <3>1, <3>2 DEF ProcessInv
  <2>14. ProcessMarks(c)' \subseteq StreamMarks
    <3> SUFFICES ASSUME NEW k \in DOMAIN ms PROVE Mark(ms[k].m, <<"EVIDENCE", life, ms[k].seq>>) \in StreamMarks
      BY <2>11, <2>12 DEF ProcessMarks, Position, Mark
    <3>1. ms[k].seq \in DOMAIN stream /\ ms[k].m = stream[ms[k].seq].m
      BY <2>4, <2>9
    <3> QED BY <3>1 DEF StreamMarks
  <2>15. Stays /\ ChainMarks' \cup ProcessMarks(c)' \subseteq NatsMarks
    BY <1>5, <2>14, ChainUnchanged DEF NatsMarks
  <2>16. NatsInv'
    BY <1>1, <1>5, <1>7, <2>8, <2>11, <2>13, <2>15, ProcessStep
  <2> QED BY <1>5, <2>16
<1> QED BY <1>4, <1>6, <1>7

\* An answer changes the states of its messages, of the life they came from.
LEMMA AnsweredSame ==
    ASSUME stream \in StreamType, NEW c \in Procs, NEW S, NEW state \in {"acked", "waiting", "term"},
           stream' = Answered(c, S, state), life' = life
    PROVE  /\ SameStream
           /\ \A i \in DOMAIN stream : \/ stream'[i].state = stream[i].state
                                       \/ nats[c].cons = life /\ i \in S /\ stream'[i].state = state
<1> DEFINE E == [m : Message, state : {"waiting", "out", "acked", "term"}]
           on(i) == IF i \in S /\ (state = "waiting" => stream[i].state = "out")
                    THEN [stream[i] EXCEPT !.state = state] ELSE stream[i]
<1>1. ASSUME NEW e \in E
      PROVE  [e EXCEPT !.state = state] \in E /\ [e EXCEPT !.state = state].m = e.m
             /\ [e EXCEPT !.state = state].state = state
  OBVIOUS
<1>2. stream \in Seq(E)
  BY DEF StreamType
<1> HIDE DEF E
<1>3. Len(stream) \in Nat /\ DOMAIN stream = 1..Len(stream) /\ \A i \in 1..Len(stream) : stream[i] \in E
  BY <1>2, OfSeq
<1>4. CASE nats[c].cons # life
  <2>1. stream' = stream
    BY <1>4 DEF Answered
  <2> QED BY <2>1 DEF SameStream
<1>5. CASE nats[c].cons = life
  <2>1. stream' = [i \in DOMAIN stream |-> on(i)]
    BY <1>5 DEF Answered
  <2>2. ASSUME NEW i \in DOMAIN stream
        PROVE  /\ on(i) \in E /\ on(i).m = stream[i].m
               /\ on(i).state = stream[i].state \/ (i \in S /\ on(i).state = state)
    <3>1. stream[i] \in E
      BY <1>3
    <3> QED BY <1>1, <3>1
  <2> HIDE DEF on
  <2> DEFINE w == [i \in 1..Len(stream) |-> on(i)]
  <2>3. stream' = w /\ \A i \in 1..Len(stream) : w[i] = on(i)
    BY <1>3, <2>1
  <2>4. w \in Seq(E) /\ Len(w) = Len(stream)
    BY <1>3, <2>2
  <2> HIDE DEF w
  <2> QED BY <1>3, <1>5, <2>2, <2>3, <2>4 DEF SameStream, StreamType, E
<1> QED BY <1>4, <1>5

LEMMA NatsRoute ==
    ASSUME FeedInv, NatsInv, ~stale, NEW c \in Procs, NRoute(c), feed' = feed
    PROVE  FeedInv' /\ NatsInv'
<1> DEFINE ms == nats[c].ms
           S == {k \in DOMAIN ms : Valid(ms[k].m)}
           kept == Only(ms, S)
           out == {ms[k].seq : k \in {k \in DOMAIN ms : ~Valid(ms[k].m)}}
           r == [nats[c] EXCEPT !.phase = IF kept = <<>> THEN "ready" ELSE "routed", !.ms = kept]
<1>1. /\ nats[c].phase = "batch" /\ stream' = Answered(c, out, "term") /\ nats' = [nats EXCEPT ![c] = r]
      /\ UNCHANGED <<feedVars, life, stale>>
  BY DEF NRoute
<1>2. FeedInv' /\ chain' = chain /\ sent' = sent
  BY <1>1, SameQuiet, FeedQuiet DEF feedVars
<1>3. stream \in StreamType /\ nats[c] \in Process /\ ProcessInv(c)
  BY DEF NatsInv, StreamType
<1>4. ms \in Batch /\ nats[c].created = nats[c].cons /\ nats[c].cons <= life
  BY <1>1, <1>3 DEF Process, ProcessInv, Attached
<1>5. kept \in Batch /\ Selects(kept, ms, S)
  BY <1>4, OnlyAt DEF Batch
<1>6. Len(kept) \in Nat /\ DOMAIN kept = 1..Len(kept)
      /\ \A k \in DOMAIN kept : \E j \in DOMAIN ms : kept[k] = ms[j] /\ Valid(ms[j].m)
  <2>1. PICK at \in Seq(S) : Len(kept) = Len(at) /\ DOMAIN kept = 1..Len(at) /\ \A k \in 1..Len(at) : kept[k] = ms[at[k]]
    BY <1>5, Zenon DEF Selects
  <2>2. Len(at) \in Nat /\ \A k \in 1..Len(at) : at[k] \in S
    BY OfSeq
  <2>3. \A i \in S : i \in DOMAIN ms /\ Valid(ms[i].m)
    OBVIOUS
  <2> HIDE DEF S
  <2>4. \A k \in 1..Len(at) : kept[k] = ms[at[k]] /\ at[k] \in DOMAIN ms /\ Valid(ms[at[k]].m)
    BY <2>1, <2>2, <2>3
  <2>5. \A k \in DOMAIN kept : \E j \in DOMAIN ms : kept[k] = ms[j] /\ Valid(ms[j].m)
    BY <2>1, <2>4, Zenon
  <2> QED BY <2>1, <2>2, <2>5, Zenon
<1>7. /\ SameStream
      /\ \A i \in DOMAIN stream : \/ stream'[i].state = stream[i].state
                                  \/ nats[c].cons = life /\ i \in out /\ stream'[i].state = "term"
  BY <1>1, <1>3, AnsweredSame
<1>8. Settles
  <2> SUFFICES ASSUME NEW i \in DOMAIN stream, nats[c].cons = life, i \in out PROVE ~Valid(stream[i].m)
    BY <1>7 DEF Settles
  <2>1. PICK k \in DOMAIN ms : ~Valid(ms[k].m) /\ i = ms[k].seq
    OBVIOUS
  <2>2. stream[i].m = ms[k].m
    BY <1>1, <1>3, <2>1 DEF ProcessInv, Attached
  <2> QED BY <2>1, <2>2
<1> HIDE DEF kept
<1>9. r \in Process /\ r.phase \in {"ready", "routed"} /\ (r.phase = "ready" => kept = <<>>)
      /\ r.ms = kept /\ r.created = nats[c].created /\ r.cons = nats[c].cons
  BY <1>3, <1>5 DEF Process, Attached
<1> HIDE DEF r
<1>10. nats'[c] = r
  BY <1>1 DEF NatsInv
<1>11. \A k \in DOMAIN kept : kept[k].seq \in 1..sent /\ Valid(kept[k].m)
         /\ (nats[c].cons = life => kept[k].seq \in DOMAIN stream' /\ stream'[kept[k].seq].m = kept[k].m)
  <2> SUFFICES ASSUME NEW k \in DOMAIN kept
               PROVE  kept[k].seq \in 1..sent /\ Valid(kept[k].m)
                      /\ (nats[c].cons = life => kept[k].seq \in DOMAIN stream' /\ stream'[kept[k].seq].m = kept[k].m)
    OBVIOUS
  <2>1. PICK j \in DOMAIN ms : kept[k] = ms[j] /\ Valid(ms[j].m)
    BY <1>6
  <2>2. ms[j].seq \in 1..sent /\ (nats[c].cons = life => ms[j].seq \in DOMAIN stream /\ stream[ms[j].seq].m = ms[j].m)
    BY <1>1, <1>3 DEF ProcessInv, Attached
  <2>3. DOMAIN stream' = DOMAIN stream /\ \A i \in DOMAIN stream : stream'[i].m = stream[i].m
    BY <1>3, <1>7, StreamIndices DEF SameStream
  <2> QED BY <2>1, <2>2, <2>3
<1>12. ProcessInv(c)'
  BY <1>1, <1>2, <1>4, <1>9, <1>10, <1>11 DEF ProcessInv
<1>13. ProcessMarks(c)' \subseteq ProcessMarks(c)
  <2>0. ProcessMarks(c)' = {Mark(r.ms[k].m, <<"EVIDENCE", r.created, r.ms[k].seq>>) : k \in DOMAIN r.ms}
    BY <1>10 DEF ProcessMarks, Position, Mark
  <2> SUFFICES ASSUME NEW k \in DOMAIN kept
               PROVE  Mark(kept[k].m, <<"EVIDENCE", nats[c].created, kept[k].seq>>) \in ProcessMarks(c)
    BY <1>9, <2>0
  <2>1. PICK j \in DOMAIN ms : kept[k] = ms[j]
    BY <1>6
  <2> QED BY <2>1 DEF ProcessMarks, Position
<1>14. Stays /\ ChainMarks' \cup ProcessMarks(c)' \subseteq NatsMarks
  BY <1>2, <1>13, ChainUnchanged DEF NatsMarks
<1> QED BY <1>1, <1>2, <1>7, <1>8, <1>9, <1>12, <1>14, ProcessStep

\* The records a process commits, and what Commit may make of them.
LEMMA NatsCommit ==
    ASSUME FeedInv, NatsInv, ~stale, NEW c \in Procs, NCommit(c), feed' = feed
    PROVE  FeedInv' /\ NatsInv'
<1> DEFINE ms == nats[c].ms
<1>1. nats[c].phase = "routed" /\ UNCHANGED <<life, stream, stale>>
  BY DEF NCommit
<1>0. PICK recs : recs = [k \in DOMAIN ms |-> Record(ms[k].m, Position(c, ms[k]))]
  OBVIOUS
<1>2. PICK r \in CommitResults(recs) :
         /\ Returned(r)
         /\ IF r.out = "config" THEN NStop(c) ELSE nats' = [nats EXCEPT ![c].phase = "answer", ![c].ok = r.out = "ok"]
  BY <1>0 DEF NCommit
<1>3. nats[c] \in Process /\ ProcessInv(c) /\ life \in Nat /\ NatsNamed
  BY DEF NatsInv
<1>4. ms \in Batch /\ Len(ms) \in Nat /\ DOMAIN ms = 1..Len(ms) /\ nats[c].created \in Nat
      /\ \A k \in DOMAIN ms : ms[k].seq \in Nat /\ ms[k].m \in Message /\ Valid(ms[k].m)
  <2>1. ms \in Batch /\ nats[c].created \in Nat
    BY <1>3 DEF Process
  <2>2. Len(ms) \in Nat /\ DOMAIN ms = 1..Len(ms) /\ \A k \in 1..Len(ms) : ms[k] \in [seq : Nat, m : Message]
    BY <2>1, OfSeq DEF Batch
  <2> QED BY <1>1, <1>3, <2>1, <2>2 DEF ProcessInv
<1>5. \A k \in DOMAIN ms : Record(ms[k].m, Position(c, ms[k])) \in Recs /\ Record(ms[k].m, Position(c, ms[k])).n = ms[k].m.n
         /\ Mark(Record(ms[k].m, Position(c, ms[k])), Record(ms[k].m, Position(c, ms[k])).source) = Mark(ms[k].m, Position(c, ms[k]))
  <2> SUFFICES ASSUME NEW k \in DOMAIN ms, NEW s, s = Position(c, ms[k])
               PROVE  Record(ms[k].m, s) \in Recs /\ Record(ms[k].m, s).n = ms[k].m.n
                      /\ Mark(Record(ms[k].m, s), Record(ms[k].m, s).source) = Mark(ms[k].m, s)
    OBVIOUS
  <2>0. <<"EVIDENCE", nats[c].created, ms[k].seq>> \in {"EVIDENCE", "evidence"} \X Nat \X Nat
    BY <1>4
  <2>1. s \in Sources
    BY <2>0 DEF Position, Sources
  <2> QED BY <1>4, <2>1, RecordType
<1>6. recs \in Seq(Recs) /\ DOMAIN recs = DOMAIN ms /\ \A k \in DOMAIN ms : recs[k] = Record(ms[k].m, Position(c, ms[k]))
  BY <1>0, <1>4, <1>5
<1>7. MarksOf(recs) \subseteq NatsMarks
  <2>1. MarksOf(recs) \subseteq ProcessMarks(c)
    <3> SUFFICES ASSUME NEW k \in DOMAIN recs PROVE Mark(recs[k], recs[k].source) \in ProcessMarks(c)
      BY DEF MarksOf
    <3>1. Mark(recs[k], recs[k].source) = Mark(ms[k].m, Position(c, ms[k])) /\ k \in DOMAIN ms
      BY <1>5, <1>6
    <3> QED BY <3>1 DEF ProcessMarks
  <2> QED BY <2>1 DEF NatsMarks
<1>8. OfPublished(recs)
  <2> SUFFICES ASSUME NEW k \in DOMAIN recs PROVE recs[k].n \in 1..sent
    BY <1>6 DEF OfPublished
  <2>1. Mark(recs[k], recs[k].source) \in NatsMarks
    BY <1>7 DEF MarksOf
  <2>2. Mark(recs[k], recs[k].source).n \in 1..sent
    BY <1>3, <2>1 DEF NatsNamed
  <2> QED BY <2>2 DEF Mark
<1>9. /\ GrowsBy(recs) /\ Once' /\ ChainMarks' \subseteq NatsMarks
      /\ r.out = "ok" => \A i \in DOMAIN recs : OnChain(recs[i].n)'
      /\ spare' \in 0..spare /\ UNCHANGED <<coming, sent, stuck>>
  <2>1. chain \in Seq(Recs) /\ Once /\ spare \in Nat /\ OneToOne(NatsMarks) /\ ChainMarks \subseteq NatsMarks
    <3>1. MaxFaults[feed] \in Nat
      BY FeedersAssumption DEF FeedInv
    <3> QED BY <1>3, <3>1 DEF FeedInv, NatsNamed, NatsMarks
  <2> QED BY <1>2, <1>6, <1>7, <2>1, CommitReturns
<1>10. FeedInv'
  BY <1>8, <1>9, FeedGrown
<1>11. Stays
  BY <1>9, Grown DEF FeedInv, Stays
<1>12. CASE r.out = "config"
  <2>1. NStop(c)
    BY <1>2, <1>12
  <2> QED BY <1>1, <1>9, <1>10, <1>11, <2>1, ProcessStops, StreamUnchanged
<1>13. CASE r.out # "config"
  <2> DEFINE q == [nats[c] EXCEPT !.phase = "answer", !.ok = r.out = "ok"]
  <2>1. nats' = [nats EXCEPT ![c] = q]
    BY <1>2, <1>13
  <2>2. q \in Process /\ q.phase = "answer" /\ q.ms = ms /\ (q.ok => r.out = "ok")
        /\ q.created = nats[c].created /\ q.cons = nats[c].cons
    BY <1>3 DEF Process, Attached
  <2> HIDE DEF q
  <2>3. nats'[c] = q
    BY <2>1 DEF NatsInv
  <2>4. q.ok => \A k \in DOMAIN ms : \E n : n = ms[k].m.n /\ OnChain(n)'
    <3> SUFFICES ASSUME q.ok, NEW k \in DOMAIN ms PROVE \E n : n = ms[k].m.n /\ OnChain(n)'
      OBVIOUS
    <3>1. PICK n : n = recs[k].n
      OBVIOUS
    <3>2. OnChain(n)'
      BY <1>6, <1>9, <2>2, <3>1 DEF OnChain
    <3>3. n = ms[k].m.n
      BY <1>5, <1>6, <3>1
    <3> QED BY <3>2, <3>3
  <2>5. q.ok => \A k \in DOMAIN nats'[c].ms : OnChain(nats[c].ms[k].m.n)'
    <3> SUFFICES ASSUME q.ok, NEW k \in DOMAIN ms PROVE OnChain(nats[c].ms[k].m.n)'
      BY <2>2, <2>3
    <3>1. PICK n : n = ms[k].m.n /\ OnChain(n)'
      BY <2>4
    <3>2. n = nats'[c].ms[k].m.n
      BY <2>2, <2>3, <3>1
    <3> QED BY <3>1, <3>2 DEF OnChain
  <2>6. ProcessInv(c)'
    BY <1>1, <1>3, <1>9, <2>2, <2>3, <2>5 DEF ProcessInv, Attached
  <2>7. ProcessMarks(c)' = ProcessMarks(c)
    BY <2>2, <2>3 DEF ProcessMarks, Position, Mark
  <2>8. ChainMarks' \cup ProcessMarks(c)' \subseteq NatsMarks
    BY <1>9, <2>7 DEF NatsMarks
  <2> QED BY <1>1, <1>9, <1>10, <1>11, <2>1, <2>2, <2>6, <2>8, ProcessStep, StreamUnchanged
<1> QED BY <1>12, <1>13

LEMMA NatsAnswer ==
    ASSUME FeedInv, NatsInv, ~stale, NEW c \in Procs, NAnswer(c), feed' = feed
    PROVE  FeedInv' /\ NatsInv'
<1> DEFINE ms == nats[c].ms
           all == {ms[k].seq : k \in DOMAIN ms}
           state == IF nats[c].ok THEN "acked" ELSE "waiting"
<1>1. /\ nats[c].phase = "answer" /\ UNCHANGED <<life, stale>>
      /\ \/ stream' = Answered(c, all, state) /\ UNCHANGED feedVars
         \/ Fault /\ (\E S \in SUBSET all \ {all} : stream' = Answered(c, S, state)) /\ UNCHANGED <<chain, coming, sent, stuck>>
      /\ IF nats[c].ok THEN nats' = [nats EXCEPT ![c].phase = "ready", ![c].ms = <<>>, ![c].ok = FALSE] ELSE NStop(c)
  BY DEF NAnswer
<1>2. FeedInv' /\ chain' = chain /\ sent' = sent
  <2>1. CASE UNCHANGED feedVars
    BY <2>1, SameQuiet, FeedQuiet DEF feedVars
  <2>2. CASE Fault /\ UNCHANGED <<chain, coming, sent, stuck>>
    BY <2>2, FaultQuiet, FeedQuiet
  <2> QED BY <1>1, <2>1, <2>2
<1>3. stream \in StreamType /\ nats[c] \in Process /\ ProcessInv(c)
  BY DEF NatsInv, StreamType
<1>4. PICK S \in SUBSET all : stream' = Answered(c, S, state)
  BY <1>1
<1>5. state \in {"acked", "waiting"} /\ (state = "acked" => nats[c].ok)
  OBVIOUS
<1>6. /\ SameStream
      /\ \A i \in DOMAIN stream : \/ stream'[i].state = stream[i].state
                                  \/ nats[c].cons = life /\ i \in S /\ stream'[i].state = state
  <2> HIDE DEF state
  <2> QED BY <1>1, <1>3, <1>4, <1>5, AnsweredSame
<1>7. Stays /\ ChainMarks' = ChainMarks /\ ChainMarks \subseteq NatsMarks
  BY <1>2, ChainUnchanged
<1>8. Settles
  <2> SUFFICES ASSUME NEW i \in DOMAIN stream, nats[c].cons = life, i \in S, nats[c].ok
               PROVE  \E n : n = stream[i].m.n /\ OnChain(n)'
    BY <1>5, <1>6 DEF Settles
  <2>1. PICK k \in DOMAIN ms : i = ms[k].seq
    OBVIOUS
  <2>2. stream[i].m = ms[k].m /\ OnChain(ms[k].m.n)
    BY <1>1, <1>3, <2>1 DEF ProcessInv, Attached
  <2>3. PICK n : n = ms[k].m.n
    OBVIOUS
  <2>4. OnChain(n)'
    BY <1>7, <2>2, <2>3 DEF Stays
  <2> QED BY <2>2, <2>3, <2>4
<1>9. CASE nats[c].ok
  <2> DEFINE r == [nats[c] EXCEPT !.phase = "ready", !.ms = <<>>, !.ok = FALSE]
  <2>1. nats' = [nats EXCEPT ![c] = r]
    BY <1>1, <1>9
  <2>2. r \in Process /\ r.phase = "ready" /\ r.ms = <<>> /\ r.created = nats[c].created /\ r.cons = nats[c].cons
    <3>1. <<>> \in Batch
      BY DEF Batch
    <3> QED BY <1>3, <3>1 DEF Process, Attached
  <2> HIDE DEF r
  <2>3. nats'[c] = r /\ DOMAIN r.ms = {}
    BY <2>1, <2>2 DEF NatsInv
  <2>4. ProcessInv(c)' /\ ProcessMarks(c)' = {}
    BY <1>1, <1>3, <2>2, <2>3 DEF ProcessInv, ProcessMarks, Attached
  <2> QED BY <1>1, <1>2, <1>6, <1>7, <1>8, <2>1, <2>2, <2>4, ProcessStep
<1>10. CASE ~nats[c].ok
  BY <1>1, <1>2, <1>6, <1>7, <1>8, <1>10, ProcessStops
<1> QED BY <1>9, <1>10

\* Whatever the server or a process does, until one attaches under a stale name.
LEMMA NatsSteps ==
    ASSUME FeedInv, NatsInv, NatsNext, feed' = feed
    PROVE  FeedInv' /\ NatsInv'
<1>1. ~stale
  BY DEF NatsNext
<1>2. ASSUME NEW c \in Procs, NStep(c) PROVE FeedInv' /\ NatsInv'
  BY <1>1, <1>2, NatsInfo, NatsAttach, NatsFetch, NatsRoute, NatsCommit, NatsAnswer DEF NStep
<1> QED BY <1>1, <1>2, NatsPublish, NatsRecreate, NatsDeadline, NatsDie DEF NatsNext

-----------------------------------------------------------------------------
(* Redis *)

Working == {"own", "claim", "new", "read", "refuse", "commit", "ack"}
Reads   == Seq([id : Nat, m : Message, gone : BOOLEAN])
Reader  == [phase : Working \cup {"stopped", "token", "setnx"}, token : Nat, created : BOOLEAN,
            ms : Reads, first : Nat, cursor : Nat, back : {"own", "claim", "new", "read"}]
Item    == [m : Message, gone : BOOLEAN]
Stored  == Seq(Item)

\* A process works under the token of this life, on entries as they are in the stream,
\* perhaps deleted since; those it commits can be, those it acknowledges are on their chain.
ReaderInv(r) ==
    /\ r.phase \notin {"refuse", "commit", "ack"} => r.ms = <<>>
    /\ r.phase \in Working => <<age, r.token>> \in named
    /\ \A k \in DOMAIN r.ms :
         /\ r.ms[k].id \in DOMAIN entries /\ entries[r.ms[k].id].m = r.ms[k].m
         /\ r.ms[k].gone => entries[r.ms[k].id].gone
         /\ r.phase # "refuse" => Valid(r.ms[k].m)
         /\ r.phase = "ack" => OnChain(r.ms[k].m.n)

\* An entry of the chain was committed under a token of its life: of this one, it is the
\* stream's entry of that id, of an earlier one, no entry is its message.
ChainNamed(e) ==
    /\ e.source \in {"evidence"} \X Nat \X Nat
    /\ \E a \in 0..age :
        /\ <<a, e.source[2]>> \in named
        /\ a = age => /\ e.source[3] \in DOMAIN entries
                      /\ entries[e.source[3]].m.n = e.n /\ entries[e.source[3]].m.subject = e.subject
        /\ a # age => \A j \in DOMAIN entries : entries[j].m.n # e.n

OnceStored == \A i, j \in DOMAIN entries : entries[i].m.n = entries[j].m.n => i = j

RedisNamed ==
    /\ \A i \in DOMAIN chain : ChainNamed(chain[i])
    /\ OneToOne(ChainMarks) /\ OnceStored
    /\ \A c \in Procs : ReaderInv(reader[c])

RedisTypes ==
    /\ age \in Nat /\ group \in BOOLEAN /\ token \in 0..minted /\ minted \in Nat
    /\ named \subseteq (0..age) \X (1..minted)
    /\ entries \in Stored /\ (\A i \in DOMAIN entries : entries[i].m.n \in 1..sent)
    /\ given \in 0..Len(entries) /\ DOMAIN pending \subseteq 1..given
    /\ reader \in [Procs -> Reader]

RedisInv == RedisTypes /\ (~Misnamed => RedisNamed) /\ RedisKept

-----------------------------------------------------------------------------

LEMMA NoReads == <<>> \in Reads
BY DEF Reads

LEMMA IdleReader == Idle \in Reader /\ Idle.phase = "stopped" /\ Idle.ms = <<>> /\ ReaderInv(Idle)
<1>1. Idle.phase = "stopped" /\ Idle.ms = <<>> /\ Idle \in Reader
  BY NoReads DEF Idle, Reader
<1>2. DOMAIN <<>> = {}
  OBVIOUS
<1> QED BY <1>1, <1>2 DEF ReaderInv, Working

\* The stream only grew, its messages as they were.
Later ==
    /\ age' = age /\ named \subseteq named'
    /\ \A i \in DOMAIN entries : i \in DOMAIN entries' /\ entries'[i].m = entries[i].m
                                 /\ (entries[i].gone => entries'[i].gone)

LEMMA ReaderStays ==
    ASSUME NEW r, ReaderInv(r), Later, Stays
    PROVE  ReaderInv(r)'
<1>1. \A k \in DOMAIN r.ms : r.phase = "ack" => OnChain(r.ms[k].m.n)'
  <2> SUFFICES ASSUME NEW k \in DOMAIN r.ms, r.phase = "ack" PROVE OnChain(r.ms[k].m.n)'
    OBVIOUS
  <2> QED BY DEF ReaderInv, Stays
<1> QED BY <1>1 DEF ReaderInv, Later, Valid

\* What is delivered stays kept as long as pending entries do, or go for a reason.
LEMMA KeptStays ==
    ASSUME RedisInv, ~Misnamed, Later, Stays, given' \in Nat,
           \A i \in DOMAIN pending : \/ i \in DOMAIN pending'
                                     \/ entries[i].gone \/ ~Valid(entries[i].m) \/ \E n : n = entries[i].m.n /\ OnChain(n)',
           \A i \in (given + 1)..given' : i \in DOMAIN pending' \/ entries'[i].gone
    PROVE  RedisKept'
<1>1. given \in Nat /\ Len(entries) \in Nat /\ DOMAIN entries = 1..Len(entries) /\ given <= Len(entries)
  BY OfSeq DEF RedisInv, RedisTypes, Stored
<1> SUFFICES ASSUME NEW i \in 1..given'
             PROVE  i \in DOMAIN pending' \/ entries'[i].gone \/ ~Valid(entries'[i].m) \/ OnChain(entries[i].m.n)'
  BY DEF RedisKept, Valid
<1>2. CASE i \in (given + 1)..given'
  BY <1>2
<1>3. CASE i \in 1..given
  <2>1. i \in DOMAIN entries /\ entries'[i].m = entries[i].m /\ (entries[i].gone => entries'[i].gone)
    BY <1>1, <1>3 DEF Later
  <2>2. i \in DOMAIN pending \/ entries[i].gone \/ ~Valid(entries[i].m) \/ OnChain(entries[i].m.n)
    BY <1>3 DEF RedisInv, RedisKept
  <2>3. PICK n : n = entries[i].m.n
    OBVIOUS
  <2>4. OnChain(entries[i].m.n) => OnChain(n)'
    BY <2>3 DEF Stays
  <2>5. OnChain(n)' => OnChain(entries[i].m.n)'
    BY <2>1, <2>3 DEF OnChain
  <2> QED BY <2>1, <2>2, <2>3, <2>4, <2>5
<1>4. i \in (given + 1)..given' \/ i \in 1..given
  BY <1>1
<1> QED BY <1>2, <1>3, <1>4

\* A process takes a step that leaves chain and stream alone.
LEMMA RedisStep ==
    ASSUME RedisInv, ~Misnamed, UNCHANGED <<chain, sent, age, entries, token, minted, named, crossed>>,
           group' \in BOOLEAN, given' \in 0..Len(entries), DOMAIN pending' \subseteq 1..given',
           NEW c \in Procs, NEW r \in Reader, Set(c, r), ReaderInv(r), RedisKept'
    PROVE  RedisInv'
<1>1. reader' \in [Procs -> Reader] /\ reader'[c] = r /\ \A d \in Procs : d # c => reader'[d] = reader[d]
  BY DEF Set, RedisInv, RedisTypes
<1>2. RedisTypes'
  BY <1>1 DEF RedisInv, RedisTypes
<1>3. Later
  BY DEF Later
<1>4. Stays /\ ChainMarks' = ChainMarks
  BY StaysSame
<1>5. RedisNamed
  BY DEF RedisInv
<1>6. \A d \in Procs : ReaderInv(reader[d])'
  <2> SUFFICES ASSUME NEW d \in Procs PROVE ReaderInv(reader[d])'
    OBVIOUS
  <2>1. PICK s : s = IF d = c THEN r ELSE reader[d]
    OBVIOUS
  <2>2. ReaderInv(s)
    BY <1>5, <2>1 DEF RedisNamed
  <2>3. ReaderInv(s)'
    BY <1>3, <1>4, <2>2, ReaderStays
  <2>4. reader'[d] = s
    BY <1>1, <2>1
  <2> QED BY <2>3, <2>4 DEF ReaderInv, OnChain
<1>7. RedisNamed'
  <2>1. \A x \in DOMAIN chain' : ChainNamed(chain[x])'
    BY <1>5 DEF RedisNamed, ChainNamed
  <2>2. OneToOne(ChainMarks)'
    BY <1>4, <1>5 DEF RedisNamed, OneToOne
  <2>3. OnceStored'
    BY <1>5 DEF RedisNamed, OnceStored
  <2> QED BY <1>6, <2>1, <2>2, <2>3 DEF RedisNamed
<1> QED BY <1>2, <1>7 DEF RedisInv

LEMMA KeptSame ==
    ASSUME RedisInv, ~Misnamed, UNCHANGED <<chain, entries, given, pending, named, crossed, age>>
    PROVE  RedisKept'
<1>1. Later /\ Stays
  BY StaysSame DEF Later
<1>2. given' = given /\ given \in Nat
  BY OfSeq DEF RedisInv, RedisTypes, Stored
<1> QED BY <1>1, <1>2, KeptStays

-----------------------------------------------------------------------------
(* The stream *)

LEMMA RedisPublish ==
    ASSUME FeedInv, RedisInv, ~Misnamed, RPublish, feed' = feed
    PROVE  FeedInv' /\ RedisInv'
<1>1. Publish /\ entries' = Append(entries, [m |-> Latest, gone |-> FALSE])
      /\ UNCHANGED <<age, group, given, pending, token, minted, reader, named, crossed>>
  BY DEF RPublish
<1>2. FeedInv' /\ Latest \in Message /\ Latest.n = sent + 1 /\ sent' = sent + 1 /\ chain' = chain /\ sent \in Nat
  BY <1>1, FeedPublish DEF FeedInv
<1>3. RedisTypes /\ RedisNamed /\ entries \in Stored
  BY DEF RedisInv, RedisTypes
<1>4. Len(entries) \in Nat /\ DOMAIN entries = 1..Len(entries)
  BY <1>3, OfSeq DEF Stored
<1>5. PICK e : e = [m |-> Latest, gone |-> FALSE]
  OBVIOUS
<1>6. e \in Item /\ e.m.n = sent + 1
  BY <1>2, <1>5 DEF Item
<1>7. /\ entries' \in Stored /\ Len(entries') = Len(entries) + 1 /\ DOMAIN entries' = 1..(Len(entries) + 1)
      /\ entries'[Len(entries) + 1] = e /\ \A i \in 1..Len(entries) : entries'[i] = entries[i]
  BY <1>1, <1>3, <1>4, <1>5, <1>6 DEF Stored
<1>8. \A i \in DOMAIN entries' : i \in DOMAIN entries \/ i = Len(entries) + 1
  BY <1>4, <1>7
<1>9. \A i \in DOMAIN entries : i \in DOMAIN entries' /\ entries'[i] = entries[i] /\ entries[i].m.n \in 1..sent
  BY <1>3, <1>4, <1>7 DEF RedisTypes
<1>10. RedisTypes'
  <2>1. \A i \in DOMAIN entries' : entries'[i].m.n \in 1..sent'
    BY <1>2, <1>6, <1>7, <1>8, <1>9
  <2>2. given' \in 0..Len(entries')
    BY <1>1, <1>3, <1>4, <1>7 DEF RedisTypes
  <2> QED BY <1>1, <1>3, <1>7, <2>1, <2>2 DEF RedisTypes
<1>11. Later
  BY <1>1, <1>9 DEF Later
<1>12. Stays /\ ChainMarks' = ChainMarks
  BY <1>2, StaysSame
<1>13. ASSUME NEW x \in DOMAIN chain PROVE ChainNamed(chain[x])'
  <2>1. ChainNamed(chain[x]) /\ chain[x].n \in 1..sent
    BY <1>3 DEF RedisNamed, FeedInv
  <2>2. PICK a \in 0..age :
          /\ <<a, chain[x].source[2]>> \in named
          /\ a = age => /\ chain[x].source[3] \in DOMAIN entries
                        /\ entries[chain[x].source[3]].m.n = chain[x].n /\ entries[chain[x].source[3]].m.subject = chain[x].subject
          /\ a # age => \A j \in DOMAIN entries : entries[j].m.n # chain[x].n
    BY <2>1 DEF ChainNamed
  <2>3. a = age => /\ chain[x].source[3] \in DOMAIN entries'
                   /\ entries'[chain[x].source[3]].m.n = chain[x].n /\ entries'[chain[x].source[3]].m.subject = chain[x].subject
    BY <1>9, <2>2
  <2>4. a # age => \A j \in DOMAIN entries' : entries'[j].m.n # chain[x].n
    BY <1>2, <1>6, <1>7, <1>8, <1>9, <2>1, <2>2
  <2> QED BY <1>1, <1>2, <2>1, <2>2, <2>3, <2>4 DEF ChainNamed
<1>14. OnceStored'
  <2> SUFFICES ASSUME NEW i \in DOMAIN entries', NEW j \in DOMAIN entries', entries'[i].m.n = entries'[j].m.n PROVE i = j
    BY DEF OnceStored
  <2>1. \A h \in DOMAIN entries : entries'[h].m.n # sent + 1
    BY <1>2, <1>9
  <2>2. entries'[Len(entries) + 1].m.n = sent + 1
    BY <1>6, <1>7
  <2>3. CASE i \in DOMAIN entries /\ j \in DOMAIN entries
    BY <1>3, <1>9, <2>3 DEF RedisNamed, OnceStored
  <2> QED BY <1>8, <2>1, <2>2, <2>3
<1>15. RedisNamed'
  <2>1. \A x \in DOMAIN chain' : ChainNamed(chain[x])'
    BY <1>2, <1>13
  <2>2. OneToOne(ChainMarks)'
    BY <1>3, <1>12 DEF RedisNamed, OneToOne
  <2>3. \A c \in Procs : ReaderInv(reader[c])'
    <3> SUFFICES ASSUME NEW c \in Procs PROVE ReaderInv(reader[c])'
      OBVIOUS
    <3>1. PICK r : r = reader[c]
      OBVIOUS
    <3>2. ReaderInv(r)
      BY <1>3, <3>1 DEF RedisNamed
    <3>3. ReaderInv(r)'
      BY <1>11, <1>12, <3>2, ReaderStays
    <3> QED BY <1>1, <3>1, <3>3 DEF ReaderInv, OnChain
  <2> QED BY <1>14, <2>1, <2>2, <2>3 DEF RedisNamed
<1>16. RedisKept'
  <2>1. given' = given /\ given \in Nat /\ pending' = pending
    BY <1>1, <1>3 DEF RedisTypes
  <2> QED BY <1>11, <1>12, <2>1, KeptStays
<1> QED BY <1>2, <1>10, <1>15, <1>16 DEF RedisInv

\* An entry goes; its place in a pending list does not.
LEMMA RedisDelete ==
    ASSUME FeedInv, RedisInv, ~Misnamed, NEW i, RDelete(i), feed' = feed
    PROVE  FeedInv' /\ RedisInv'
<1>1. /\ i \in DOMAIN entries /\ Fault /\ entries' = [entries EXCEPT ![i].gone = TRUE]
      /\ UNCHANGED <<chain, coming, sent, stuck, age, group, given, pending, token, minted, reader, named, crossed>>
  BY DEF RDelete
<1>2. FeedInv'
  BY <1>1, FeedQuiet, FaultQuiet
<1>3. RedisTypes /\ RedisNamed /\ entries \in Stored
  BY DEF RedisInv, RedisTypes
<1>4. Len(entries) \in Nat /\ DOMAIN entries = 1..Len(entries) /\ \A j \in 1..Len(entries) : entries[j] \in Item
  BY <1>3, OfSeq DEF Stored
<1>5. PICK e : e = [entries[i] EXCEPT !.gone = TRUE]
  OBVIOUS
<1>6. e \in Item /\ e.m = entries[i].m /\ e.gone
  BY <1>1, <1>4, <1>5 DEF Item
<1>7. entries' = [entries EXCEPT ![i] = e]
  BY <1>1, <1>5
<1>8. /\ entries' \in Stored /\ Len(entries') = Len(entries)
      /\ \A j \in 1..Len(entries) : entries'[j] = IF j = i THEN e ELSE entries[j]
  <2>1. i \in 1..Len(entries) /\ entries \in Seq(Item)
    BY <1>1, <1>3, <1>4 DEF Stored
  <2>2. /\ [entries EXCEPT ![i] = e] \in Seq(Item) /\ Len([entries EXCEPT ![i] = e]) = Len(entries)
        /\ \A j \in 1..Len(entries) : [entries EXCEPT ![i] = e][j] = IF j = i THEN e ELSE entries[j]
    BY <1>6, <2>1, ExceptSeq
  <2> QED BY <1>7, <2>2 DEF Stored
<1>9. DOMAIN entries' = DOMAIN entries
      /\ \A j \in DOMAIN entries : entries'[j].m = entries[j].m /\ (entries[j].gone => entries'[j].gone)
  BY <1>4, <1>6, <1>7, <1>8
<1>10. RedisTypes'
  BY <1>1, <1>3, <1>8, <1>9 DEF RedisTypes
<1>11. Later /\ Stays /\ ChainMarks' = ChainMarks
  BY <1>1, <1>9, StaysSame DEF Later
<1>12. \A c \in Procs : ReaderInv(reader[c])'
  <2> SUFFICES ASSUME NEW c \in Procs PROVE ReaderInv(reader[c])'
    OBVIOUS
  <2>1. PICK r : r = reader[c]
    OBVIOUS
  <2>2. ReaderInv(r)
    BY <1>3, <2>1 DEF RedisNamed
  <2>3. ReaderInv(r)'
    BY <1>11, <2>2, ReaderStays
  <2> QED BY <1>1, <2>1, <2>3 DEF ReaderInv, OnChain
<1>13. ASSUME NEW x \in DOMAIN chain PROVE ChainNamed(chain[x])'
  <2>1. ChainNamed(chain[x])
    BY <1>3 DEF RedisNamed
  <2>2. PICK a \in 0..age :
          /\ <<a, chain[x].source[2]>> \in named
          /\ a = age => /\ chain[x].source[3] \in DOMAIN entries
                        /\ entries[chain[x].source[3]].m.n = chain[x].n /\ entries[chain[x].source[3]].m.subject = chain[x].subject
          /\ a # age => \A j \in DOMAIN entries : entries[j].m.n # chain[x].n
    BY <2>1 DEF ChainNamed
  <2>3. a = age => /\ chain[x].source[3] \in DOMAIN entries'
                   /\ entries'[chain[x].source[3]].m.n = chain[x].n /\ entries'[chain[x].source[3]].m.subject = chain[x].subject
    BY <1>9, <2>2
  <2>4. a # age => \A j \in DOMAIN entries' : entries'[j].m.n # chain[x].n
    BY <1>9, <2>2
  <2> QED BY <1>1, <2>1, <2>2, <2>3, <2>4 DEF ChainNamed
<1>14. RedisNamed'
  <2>2. OneToOne(ChainMarks)'
    BY <1>3, <1>11 DEF RedisNamed, OneToOne
  <2>3. OnceStored'
    BY <1>3, <1>9 DEF RedisNamed, OnceStored
  <2> QED BY <1>1, <1>12, <1>13, <2>2, <2>3 DEF RedisNamed
<1>15. RedisKept'
  <2>1. given' = given /\ given \in Nat /\ pending' = pending
    BY <1>1, <1>3 DEF RedisTypes
  <2> QED BY <1>11, <2>1, KeptStays
<1> QED BY <1>2, <1>10, <1>14, <1>15 DEF RedisInv

\* The stream's life ends; no process that runs is left with its token.
LEMMA RedisRecreate ==
    ASSUME FeedInv, RedisInv, ~Misnamed, RRecreate, feed' = feed
    PROVE  FeedInv' /\ RedisInv'
<1>1. /\ Fault /\ age' = age + 1 /\ entries' = <<>> /\ group' = FALSE /\ given' = 0 /\ pending' = << >>
      /\ crossed' = (crossed \/ \E c \in Procs : reader[c].phase # "stopped")
      /\ UNCHANGED <<chain, coming, sent, stuck, token, minted, reader, named>>
  BY DEF RRecreate
<1>2. FeedInv'
  BY <1>1, FeedQuiet, FaultQuiet
<1>3. RedisTypes /\ RedisNamed /\ age \in Nat
  BY DEF RedisInv, RedisTypes
<1>4. RedisTypes'
  <2>1. <<>> \in Stored /\ Len(<<>>) = 0 /\ DOMAIN <<>> = {}
    BY DEF Stored
  <2>2. \A a \in 0..age : a \in 0..(age + 1)
    BY <1>3
  <2>3. named' \subseteq (0..age') \X (1..minted')
    BY <1>1, <1>3, <2>2 DEF RedisTypes
  <2>4. age' \in Nat /\ group' \in BOOLEAN /\ token' \in 0..minted' /\ minted' \in Nat /\ reader' \in [Procs -> Reader]
    <3>1. token \in 0..minted /\ minted \in Nat /\ reader \in [Procs -> Reader]
      BY <1>3 DEF RedisTypes
    <3>2. age' \in Nat
      BY <1>1, <1>3
    <3> QED BY <1>1, <3>1, <3>2
  <2>5. entries' \in Stored /\ (\A i \in DOMAIN entries' : entries'[i].m.n \in 1..sent')
    BY <1>1, <2>1
  <2>6. given' \in 0..Len(entries') /\ DOMAIN pending' \subseteq 1..given'
    BY <1>1, <2>1
  <2> QED BY <2>3, <2>4, <2>5, <2>6 DEF RedisTypes
<1>5. RedisKept'
  <2>1. 1..given' = {}
    BY <1>1
  <2> QED BY <2>1 DEF RedisKept
<1>6. ASSUME ~Misnamed' PROVE RedisNamed'
  <2>1. \A c \in Procs : reader[c].phase = "stopped"
    BY <1>1, <1>6 DEF Misnamed
  <2>2. \A c \in Procs : ReaderInv(reader[c])'
    <3> SUFFICES ASSUME NEW c \in Procs PROVE ReaderInv(reader[c])'
      OBVIOUS
    <3>1. reader'[c].phase = "stopped" /\ reader'[c].ms = <<>>
      BY <1>1, <1>3, <2>1 DEF RedisNamed, ReaderInv
    <3> QED BY <3>1 DEF ReaderInv, Working
  <2>3. DOMAIN entries' = {}
    BY <1>1
  <2>4. ASSUME NEW x \in DOMAIN chain PROVE ChainNamed(chain[x])'
    <3>1. PICK a \in 0..age : <<a, chain[x].source[2]>> \in named /\ chain[x].source \in {"evidence"} \X Nat \X Nat
      BY <1>3 DEF RedisNamed, ChainNamed
    <3>2. a \in 0..age' /\ a # age'
      BY <1>1, <1>3
    <3> QED BY <1>1, <2>3, <3>1, <3>2 DEF ChainNamed
  <2>5. OneToOne(ChainMarks)'
    BY <1>1, <1>3, StaysSame DEF RedisNamed, OneToOne
  <2>6. OnceStored'
    BY <2>3 DEF OnceStored
  <2> QED BY <1>1, <2>2, <2>4, <2>5, <2>6 DEF RedisNamed
<1> QED BY <1>2, <1>4, <1>5, <1>6 DEF RedisInv

-----------------------------------------------------------------------------
(* Starting *)

\* A process stops, or goes on with no batch.
LEMMA ReaderOf ==
    ASSUME NEW r, r \in Reader, r.ms = <<>>, r.phase \in Working => <<age, r.token>> \in named,
           r.phase \notin {"refuse", "commit", "ack"}
    PROVE  ReaderInv(r)
<1>1. DOMAIN <<>> = {}
  OBVIOUS
<1> QED BY <1>1 DEF ReaderInv

LEMMA RedisGroup ==
    ASSUME FeedInv, RedisInv, ~Misnamed, NEW c \in Procs, RGroup(c), feed' = feed
    PROVE  FeedInv' /\ RedisInv'
<1>1. /\ Set(c, [Idle EXCEPT !.phase = "token", !.created = ~group]) /\ group' = TRUE
      /\ UNCHANGED <<feedVars, age, entries, given, pending, token, minted, named, crossed>>
  BY DEF RGroup
<1>2. FeedInv' /\ UNCHANGED <<chain, sent>>
  BY <1>1, FeedQuiet, SameQuiet DEF feedVars
<1>3. RedisTypes
  BY DEF RedisInv
<1>4. PICK r : r = [Idle EXCEPT !.phase = "token", !.created = ~group]
  OBVIOUS
<1>5. r \in Reader /\ r.phase = "token" /\ r.ms = <<>>
  <2>1. group \in BOOLEAN
    BY <1>3 DEF RedisTypes
  <2> QED BY <1>4, <2>1, NoReads DEF Idle, Reader
<1>6. ReaderInv(r)
  BY <1>5, ReaderOf DEF Working
<1>7. RedisKept'
  BY <1>1, <1>2, KeptSame
<1>8. given' \in 0..Len(entries) /\ DOMAIN pending' \subseteq 1..given'
  BY <1>1, <1>3 DEF RedisTypes
<1> QED BY <1>1, <1>2, <1>4, <1>5, <1>6, <1>7, <1>8, RedisStep

\* A process begins to work under a token of this life.
LEMMA RedisBegin ==
    ASSUME FeedInv, RedisInv, ~Misnamed, NEW c \in Procs, NEW t \in 1..minted', Begin(c, t),
           token' \in 0..minted', minted' \in Nat, minted <= minted',
           UNCHANGED <<feedVars, age, entries, group, given, pending, crossed, feed>>
    PROVE  FeedInv' /\ RedisInv'
<1>1. /\ Set(c, [Idle EXCEPT !.phase = "own", !.token = t]) /\ named' = named \cup {<<age, t>>}
  BY DEF Begin
<1>2. FeedInv' /\ UNCHANGED <<chain, sent>>
  BY FeedQuiet, SameQuiet DEF feedVars
<1>3. RedisTypes /\ RedisNamed /\ age \in Nat /\ minted \in Nat
  BY DEF RedisInv, RedisTypes
<1>4. PICK r : r = [Idle EXCEPT !.phase = "own", !.token = t]
  OBVIOUS
<1>5. r \in Reader /\ r.phase = "own" /\ r.ms = <<>> /\ r.token = t
  <2>1. t \in Nat
    OBVIOUS
  <2> QED BY <1>4, <2>1, NoReads DEF Idle, Reader, Working
<1>6. reader' \in [Procs -> Reader] /\ reader'[c] = r /\ \A d \in Procs : d # c => reader'[d] = reader[d]
  BY <1>1, <1>3, <1>4, <1>5 DEF Set, RedisTypes
<1>7. RedisTypes'
  <2>1. named' \subseteq (0..age') \X (1..minted')
    <3>1. \A h \in 1..minted : h \in 1..minted'
      BY <1>3
    <3>2. age \in 0..age
      BY <1>3
    <3> QED BY <1>1, <1>3, <3>1, <3>2 DEF RedisTypes
  <2>2. given' \in 0..Len(entries') /\ DOMAIN pending' \subseteq 1..given' /\ entries' \in Stored
        /\ (\A i \in DOMAIN entries' : entries'[i].m.n \in 1..sent') /\ group' \in BOOLEAN /\ age' \in Nat
    BY <1>2, <1>3 DEF RedisTypes
  <2> QED BY <1>6, <2>1, <2>2 DEF RedisTypes
<1>8. Later /\ Stays /\ ChainMarks' = ChainMarks
  BY <1>1, <1>2, StaysSame DEF Later
<1>9. RedisKept'
  <2>1. given' = given /\ given \in Nat /\ pending' = pending
    BY <1>3 DEF RedisTypes
  <2> QED BY <1>8, <2>1, KeptStays
<1>10. \A d \in Procs : ReaderInv(reader[d])'
  <2> SUFFICES ASSUME NEW d \in Procs PROVE ReaderInv(reader[d])'
    OBVIOUS
  <2>1. CASE d = c
    <3>1. reader'[d] = r /\ <<age', r.token>> \in named' /\ DOMAIN <<>> = {}
      BY <1>1, <1>5, <1>6, <2>1
    <3> QED BY <1>5, <3>1 DEF ReaderInv
  <2>2. CASE d # c
    <3>1. PICK s : s = reader[d]
      OBVIOUS
    <3>2. ReaderInv(s)
      BY <1>3, <3>1 DEF RedisNamed
    <3>3. ReaderInv(s)'
      BY <1>8, <3>2, ReaderStays
    <3>4. reader'[d] = s
      BY <1>6, <2>2, <3>1
    <3> QED BY <3>3, <3>4 DEF ReaderInv, OnChain
  <2> QED BY <2>1, <2>2
<1>11. \A x \in DOMAIN chain' : ChainNamed(chain[x])'
  BY <1>1, <1>2, <1>3 DEF RedisNamed, ChainNamed
<1>12. OneToOne(ChainMarks)' /\ OnceStored'
  BY <1>2, <1>3, <1>8 DEF RedisNamed, OneToOne, OnceStored
<1>13. RedisNamed'
  BY <1>10, <1>11, <1>12 DEF RedisNamed
<1> QED BY <1>2, <1>7, <1>9, <1>13 DEF RedisInv

\* Finding the token, or that it is missing.
LEMMA RedisToken ==
    ASSUME FeedInv, RedisInv, ~Misnamed, NEW c \in Procs, RToken(c) \/ RSetNX(c), feed' = feed
    PROVE  FeedInv' /\ RedisInv'
<1>1. UNCHANGED <<feedVars, age, entries, group, given, pending, crossed>> /\ UNCHANGED <<chain, sent>>
  BY DEF RToken, RSetNX, feedVars
<1>2. RedisTypes /\ minted \in Nat /\ token \in 0..minted /\ reader[c] \in Reader
  BY DEF RedisInv, RedisTypes
<1>3. CASE token' = Fresh /\ minted' = Fresh /\ Begin(c, Fresh)
  <2>1. Fresh \in 1..minted' /\ token' \in 0..minted' /\ minted' \in Nat /\ minted <= minted'
    BY <1>2, <1>3 DEF Fresh
  <2>2. PICK t \in 1..minted' : t = Fresh
    BY <2>1
  <2>3. Begin(c, t)
    BY <1>3, <2>2
  <2> QED BY <1>1, <2>1, <2>3, RedisBegin
<1>4. CASE token # 0 /\ Begin(c, token) /\ UNCHANGED <<token, minted>>
  <2>1. PICK t \in 1..minted' : t = token
    BY <1>2, <1>4
  <2>2. Begin(c, t) /\ token' \in 0..minted' /\ minted' \in Nat /\ minted <= minted'
    BY <1>2, <1>4, <2>1
  <2> QED BY <1>1, <2>2, RedisBegin
<1>5. ASSUME NEW p \in {"token", "setnx"}, Set(c, [reader[c] EXCEPT !.phase = p]), UNCHANGED <<token, minted, named>>,
             reader[c].phase \in {"token", "setnx"}
      PROVE  FeedInv' /\ RedisInv'
  <2>1. FeedInv'
    BY <1>1, FeedQuiet, SameQuiet
  <2>2. reader[c].ms = <<>>
    BY <1>5 DEF RedisInv, RedisNamed, ReaderInv
  <2>3. PICK r : r = [reader[c] EXCEPT !.phase = p]
    OBVIOUS
  <2>4. r \in Reader /\ r.phase = p /\ r.ms = <<>>
    BY <1>2, <2>2, <2>3 DEF Reader
  <2>5. ReaderInv(r)
    BY <2>4, ReaderOf DEF Working
  <2>6. RedisKept'
    BY <1>1, <1>5, KeptSame
  <2>7. given' \in 0..Len(entries) /\ DOMAIN pending' \subseteq 1..given' /\ group' \in BOOLEAN
    BY <1>1, <1>2 DEF RedisTypes
  <2> QED BY <1>1, <1>5, <2>1, <2>3, <2>4, <2>5, <2>6, <2>7, RedisStep
<1> QED BY <1>3, <1>4, <1>5 DEF RToken, RSetNX

-----------------------------------------------------------------------------
(* Reading *)

\* The first of some ids: in order, all up to the last of them, none only if there is none.
Firsts(ids, S) ==
    /\ ids \in Seq(S) /\ DOMAIN ids = 1..Len(ids) /\ Len(ids) \in Nat
    /\ S # {} => Len(ids) > 0
    /\ Len(ids) > 0 => /\ Last(ids) \in S /\ (\A k \in 1..Len(ids) : ids[k] <= Last(ids))
                       /\ \A x \in S : x <= Last(ids) => \E k \in 1..Len(ids) : ids[k] = x

LEMMA FirstIds == ASSUME NEW n \in Nat, NEW S, S \subseteq 1..n PROVE Firsts(FirstOf(S), S)
<1>1. IsFiniteSet(S) /\ S \subseteq Nat
  <2>1. IsFiniteSet(1..n) /\ S \in SUBSET (1..n)
    BY UpTo
  <2>2. IsFiniteSet(S)
    BY <2>1, FS_Subset
  <2> QED BY <2>2
<1>2. PICK all : all = InOrder(S)
  OBVIOUS
<1>3. PICK c : c = Cardinality(S)
  OBVIOUS
<1>4. /\ all \in Seq(S) /\ Len(all) = c /\ c \in Nat
      /\ (\A x \in S : \E k \in 1..c : all[k] = x)
      /\ \A i, j \in 1..c : i < j => all[i] < all[j]
  BY <1>1, <1>2, <1>3, InOrderIds
<1>5. PICK e : e = Least(c, ReadBatch)
  OBVIOUS
<1>6. e \in 0..c /\ (c > 0 => e > 0)
  BY <1>4, <1>5, RedisAssumption DEF Least
<1>7. PICK ids : ids = FirstOf(S)
  OBVIOUS
<1>8. ids = [k \in 1..e |-> all[k]]
  BY <1>2, <1>4, <1>5, <1>7 DEF FirstOf
<1>9. \A k \in 1..e : k \in 1..c /\ all[k] \in S /\ all[k] \in Nat
  <2>1. \A k \in 1..c : all[k] \in S
    BY <1>4, OfSeq
  <2>2. \A k \in 1..e : k \in 1..c
    BY <1>4, <1>6
  <2> QED BY <1>1, <2>1, <2>2
<1>10. ids \in Seq(S) /\ Len(ids) = e /\ DOMAIN ids = 1..e /\ \A k \in 1..e : ids[k] = all[k]
  <2>1. ids \in Seq(S)
    BY <1>6, <1>8, <1>9, IsSeq
  <2> QED BY <1>6, <1>8, <2>1
<1>11. S # {} => c > 0
  <2>1. \A x \in S : c > 0
    <3> SUFFICES ASSUME NEW x \in S PROVE c > 0
      OBVIOUS
    <3>1. PICK k \in 1..c : all[k] = x
      BY <1>4
    <3> QED BY <1>4, <3>1
  <2> QED BY <2>1
<1>12. ASSUME e > 0
       PROVE  /\ Last(ids) \in S /\ (\A k \in 1..e : ids[k] <= Last(ids))
              /\ \A x \in S : x <= Last(ids) => \E k \in 1..e : ids[k] = x
  <2>1. Last(ids) = all[e] /\ e \in 1..e /\ e \in 1..c
    BY <1>6, <1>10, <1>12 DEF Last
  <2>2. ASSUME NEW k \in 1..e PROVE ids[k] <= all[e]
    <3>1. k \in 1..c /\ all[k] \in Nat /\ all[e] \in Nat /\ (k < e \/ k = e)
      BY <1>6, <1>9, <2>1
    <3>2. k < e => all[k] < all[e]
      BY <1>4, <2>1, <3>1
    <3> QED BY <1>10, <3>1, <3>2
  <2>3. ASSUME NEW x \in S, x <= all[e] PROVE \E k \in 1..e : ids[k] = x
    <3>1. PICK k \in 1..c : all[k] = x
      BY <1>4
    <3>2. e < k => all[e] < x
      BY <1>4, <2>1, <3>1
    <3>3. x \in Nat /\ all[e] \in Nat
      BY <1>1, <1>9, <2>1
    <3>4. k \in 1..e
      BY <1>6, <2>3, <3>2, <3>3
    <3> QED BY <1>10, <3>1, <3>4
  <2> QED BY <1>9, <2>1, <2>2, <2>3
<1> QED BY <1>6, <1>7, <1>10, <1>11, <1>12 DEF Firsts

\* A batch of delivered entries, as they are now.
LEMMA TakeReader ==
    ASSUME RedisInv, ~Misnamed, NEW r \in Reader, <<age, r.token>> \in named, NEW ids \in Seq(DOMAIN entries),
           NEW back \in {"own", "claim", "new", "read"}
    PROVE  Take(r, ids, back) \in Reader /\ ReaderInv(Take(r, ids, back))
<1>1. PICK ms : ms = [k \in DOMAIN ids |-> [id |-> ids[k], m |-> entries[ids[k]].m, gone |-> entries[ids[k]].gone]]
  OBVIOUS
<1>2. entries \in Stored /\ DOMAIN ids = 1..Len(ids) /\ Len(ids) \in Nat
  BY OfSeq DEF RedisInv, RedisTypes
<1>3. \A k \in DOMAIN ids : ids[k] \in DOMAIN entries
  BY <1>2, OfSeq
<1>4. \A i \in DOMAIN entries : i \in Nat /\ entries[i].m \in Message /\ entries[i].gone \in BOOLEAN
  <2>1. Len(entries) \in Nat /\ DOMAIN entries = 1..Len(entries) /\ \A i \in 1..Len(entries) : entries[i] \in Item
    BY <1>2, OfSeq DEF Stored
  <2> QED BY <2>1 DEF Item
<1>5. ms \in Reads
  <2>1. \A k \in 1..Len(ids) : [id |-> ids[k], m |-> entries[ids[k]].m, gone |-> entries[ids[k]].gone] \in [id : Nat, m : Message, gone : BOOLEAN]
    BY <1>2, <1>3, <1>4
  <2>2. [k \in 1..Len(ids) |-> [id |-> ids[k], m |-> entries[ids[k]].m, gone |-> entries[ids[k]].gone]] \in Reads
    BY <1>2, <2>1, IsSeq DEF Reads
  <2> QED BY <1>1, <1>2, <2>2
<1>6. PICK t : t = Take(r, ids, back)
  OBVIOUS
<1>7. t = [r EXCEPT !.phase = "refuse", !.back = back, !.ms = ms]
  BY <1>1, <1>6 DEF Take
<1>8. t \in Reader /\ t.phase = "refuse" /\ t.ms = ms /\ t.token = r.token
  BY <1>5, <1>7 DEF Reader, Working
<1>9. \A k \in DOMAIN ms : ms[k].id \in DOMAIN entries /\ entries[ms[k].id].m = ms[k].m /\ (ms[k].gone => entries[ms[k].id].gone)
  BY <1>1, <1>3
<1>10. ReaderInv(t)
  BY <1>8, <1>9 DEF ReaderInv
<1> QED BY <1>6, <1>8, <1>10

LEMMA DeliveredIds ==
    ASSUME RedisInv, NEW S, NEW ids, ids \in Seq(S), S \subseteq DOMAIN entries
    PROVE  ids \in Seq(DOMAIN entries)
BY DEF RedisInv

LEMMA PendingIds == RedisInv => /\ given \in Nat /\ DOMAIN pending \subseteq 1..given /\ DOMAIN pending \subseteq DOMAIN entries
                                /\ DOMAIN entries = 1..Len(entries) /\ Len(entries) \in Nat /\ given <= Len(entries)
<1> SUFFICES ASSUME RedisInv
             PROVE  /\ given \in Nat /\ DOMAIN pending \subseteq 1..given /\ DOMAIN pending \subseteq DOMAIN entries
                    /\ DOMAIN entries = 1..Len(entries) /\ Len(entries) \in Nat /\ given <= Len(entries)
  OBVIOUS
<1>1. DOMAIN entries = 1..Len(entries) /\ Len(entries) \in Nat /\ given \in 0..Len(entries) /\ DOMAIN pending \subseteq 1..given
  BY OfSeq DEF RedisInv, RedisTypes, Stored
<1>2. \A i \in 1..given : i \in 1..Len(entries)
  BY <1>1
<1> QED BY <1>1, <1>2

LEMMA RedisOwn ==
    ASSUME FeedInv, RedisInv, ~Misnamed, NEW c \in Procs, ROwn(c), feed' = feed
    PROVE  FeedInv' /\ RedisInv'
<1>0. PICK ids : ids = FirstOf(OwnPending(c))
  OBVIOUS
<1>1. /\ reader[c].phase = "own" /\ UNCHANGED <<feedVars, serverVars, named, crossed>>
      /\ Set(c, IF ~group THEN Idle
                ELSE IF ids = <<>> THEN [reader[c] EXCEPT !.phase = "claim", !.first = 0]
                ELSE IF ids[1] = reader[c].first THEN Idle
                ELSE Take([reader[c] EXCEPT !.first = ids[1]], ids, "own"))
  BY <1>0, Zenon DEF ROwn
<1>2. FeedInv' /\ UNCHANGED <<chain, sent, age, entries, group, given, pending, token, minted, named, crossed>>
  BY <1>1, FeedQuiet, SameQuiet DEF feedVars, serverVars
<1>3. RedisTypes /\ RedisNamed /\ group \in BOOLEAN /\ reader[c] \in Reader
  BY DEF RedisInv, RedisTypes
<1>4. reader[c].ms = <<>> /\ <<age, reader[c].token>> \in named
  BY <1>1, <1>3 DEF RedisNamed, ReaderInv, Working
<1>5. RedisKept' /\ given' \in 0..Len(entries) /\ DOMAIN pending' \subseteq 1..given' /\ group' \in BOOLEAN
  BY <1>2, <1>3, KeptSame DEF RedisTypes
<1>6. ASSUME NEW r \in Reader, Set(c, r), ReaderInv(r) PROVE RedisInv'
  BY <1>2, <1>5, <1>6, RedisStep
<1>7. CASE Set(c, Idle)
  BY <1>2, <1>6, <1>7, IdleReader
<1>8. CASE Set(c, [reader[c] EXCEPT !.phase = "claim", !.first = 0])
  <2>1. PICK r : r = [reader[c] EXCEPT !.phase = "claim", !.first = 0]
    OBVIOUS
  <2>2. r \in Reader /\ r.phase = "claim" /\ r.ms = <<>> /\ r.token = reader[c].token
    BY <1>3, <1>4, <2>1 DEF Reader, Working
  <2>3. ReaderInv(r)
    BY <1>4, <2>2, ReaderOf
  <2> QED BY <1>2, <1>6, <1>8, <2>1, <2>2, <2>3
<1>9. CASE ids # <<>> /\ Set(c, Take([reader[c] EXCEPT !.first = ids[1]], ids, "own"))
  <2>1. OwnPending(c) \subseteq DOMAIN entries /\ OwnPending(c) \subseteq 1..Len(entries) /\ Len(entries) \in Nat
    BY PendingIds DEF OwnPending
  <2>2. Firsts(ids, OwnPending(c))
    BY <1>0, <2>1, FirstIds
  <2>3. ids \in Seq(OwnPending(c)) /\ DOMAIN ids = 1..Len(ids) /\ Len(ids) \in Nat /\ Len(ids) > 0
    BY <1>9, <2>2 DEF Firsts
  <2>4. ids \in Seq(DOMAIN entries) /\ ids[1] \in Nat
    <3>1. ids \in Seq(DOMAIN entries)
      BY <2>1, <2>3, DeliveredIds
    <3>2. ids[1] \in OwnPending(c)
      BY <2>3
    <3> QED BY <2>1, <3>1, <3>2
  <2>5. PICK r : r = [reader[c] EXCEPT !.first = ids[1]]
    OBVIOUS
  <2>6. r \in Reader /\ r.token = reader[c].token
    BY <1>3, <2>4, <2>5 DEF Reader
  <2>7. PICK t : t = Take(r, ids, "own")
    OBVIOUS
  <2>8. t \in Reader /\ ReaderInv(t)
    BY <1>4, <2>4, <2>6, <2>7, TakeReader
  <2>9. Set(c, t)
    BY <1>9, <2>5, <2>7
  <2> QED BY <1>2, <1>6, <2>8, <2>9
<1> QED BY <1>1, <1>7, <1>8, <1>9

LEMMA RedisAgain ==
    ASSUME FeedInv, RedisInv, ~Misnamed, NEW c \in Procs, RAgain(c) \/ RDie(c), feed' = feed
    PROVE  FeedInv' /\ RedisInv'
<1>1. /\ UNCHANGED <<chain, coming, sent, stuck, serverVars, named, crossed>> /\ Quiet
      /\ \/ RStop(c)
         \/ reader[c].phase = "new" /\ Set(c, [reader[c] EXCEPT !.phase = "claim"])
  BY FaultQuiet, SameQuiet DEF RAgain, RDie, feedVars
<1>2. FeedInv' /\ UNCHANGED <<chain, sent, age, entries, group, given, pending, token, minted, named, crossed>>
  BY <1>1, FeedQuiet DEF serverVars
<1>3. RedisTypes /\ RedisNamed /\ group \in BOOLEAN /\ reader[c] \in Reader
  BY DEF RedisInv, RedisTypes
<1>5. RedisKept' /\ given' \in 0..Len(entries) /\ DOMAIN pending' \subseteq 1..given' /\ group' \in BOOLEAN
  BY <1>2, <1>3, KeptSame DEF RedisTypes
<1>6. ASSUME NEW r \in Reader, Set(c, r), ReaderInv(r) PROVE RedisInv'
  BY <1>2, <1>5, <1>6, RedisStep
<1>7. CASE RStop(c)
  BY <1>2, <1>6, <1>7, IdleReader DEF RStop
<1>8. CASE reader[c].phase = "new" /\ Set(c, [reader[c] EXCEPT !.phase = "claim"])
  <2>0. reader[c].ms = <<>> /\ <<age, reader[c].token>> \in named
    BY <1>3, <1>8 DEF RedisNamed, ReaderInv, Working
  <2>1. PICK r : r = [reader[c] EXCEPT !.phase = "claim"]
    OBVIOUS
  <2>2. r \in Reader /\ r.phase = "claim" /\ r.ms = <<>> /\ r.token = reader[c].token
    BY <1>3, <2>0, <2>1 DEF Reader, Working
  <2>3. ReaderInv(r)
    BY <2>0, <2>2, ReaderOf
  <2> QED BY <1>2, <1>6, <1>8, <2>1, <2>2, <2>3
<1> QED BY <1>1, <1>7, <1>8

\* Claimed entries stay pending, but those that are gone.
LEMMA RedisClaim ==
    ASSUME FeedInv, RedisInv, ~Misnamed, NEW c \in Procs, RClaim(c), feed' = feed
    PROVE  FeedInv' /\ RedisInv'
<1>1. reader[c].phase = "claim" /\ UNCHANGED <<feedVars, age, entries, group, given, token, minted, named, crossed>>
  BY DEF RClaim
<1>2. FeedInv' /\ UNCHANGED <<chain, sent>>
  BY <1>1, FeedQuiet, SameQuiet DEF feedVars
<1>3. RedisTypes /\ RedisNamed /\ group \in BOOLEAN /\ reader[c] \in Reader
  BY DEF RedisInv, RedisTypes
<1>4. reader[c].ms = <<>> /\ <<age, reader[c].token>> \in named
  BY <1>1, <1>3 DEF RedisNamed, ReaderInv, Working
<1>5. Later /\ Stays
  BY <1>1, <1>2, StaysSame DEF Later
<1>6. /\ given \in Nat /\ DOMAIN pending \subseteq 1..given /\ DOMAIN pending \subseteq DOMAIN entries
      /\ DOMAIN entries = 1..Len(entries) /\ Len(entries) \in Nat /\ given <= Len(entries)
  BY PendingIds
<1>7. given' \in 0..Len(entries) /\ group' \in BOOLEAN
  BY <1>1, <1>3, <1>6
<1>8. ASSUME DOMAIN pending' \subseteq DOMAIN pending, \A i \in DOMAIN pending : i \in DOMAIN pending' \/ entries[i].gone,
             NEW r \in Reader, Set(c, r), ReaderInv(r)
      PROVE  RedisInv'
  <2>1. RedisKept'
    <3>1. (given + 1)..given' = {} /\ given' \in Nat
      BY <1>1, <1>6
    <3> QED BY <1>5, <1>8, <3>1, KeptStays
  <2>2. DOMAIN pending' \subseteq 1..given'
    BY <1>1, <1>6, <1>8
  <2> QED BY <1>1, <1>2, <1>7, <1>8, <2>1, <2>2, RedisStep
<1>9. CASE RStop(c) /\ UNCHANGED pending
  BY <1>2, <1>8, <1>9, IdleReader DEF RStop
<1>10. CASE \E idle \in SUBSET {i \in DOMAIN pending : i > reader[c].cursor} :
               LET ids == FirstOf(idle)
                   live == Only(ids, {k \in DOMAIN ids : ~entries[ids[k]].gone})
                   more == \E i \in idle : i \notin Range(ids)
                   r == [reader[c] EXCEPT !.cursor = IF more THEN Last(ids) ELSE 0,
                                          !.phase = IF more THEN "claim" ELSE "read"] IN
               /\ pending' = [i \in DOMAIN pending \ {i \in Range(ids) : entries[i].gone} |->
                                IF i \in Range(ids) THEN c ELSE pending[i]]
               /\ Set(c, IF live = <<>> THEN r ELSE Take(r, live, r.phase))
  <2>1. PICK idle \in SUBSET {i \in DOMAIN pending : i > reader[c].cursor} :
               LET ids == FirstOf(idle)
                   live == Only(ids, {k \in DOMAIN ids : ~entries[ids[k]].gone})
                   more == \E i \in idle : i \notin Range(ids)
                   r == [reader[c] EXCEPT !.cursor = IF more THEN Last(ids) ELSE 0,
                                          !.phase = IF more THEN "claim" ELSE "read"] IN
               /\ pending' = [i \in DOMAIN pending \ {i \in Range(ids) : entries[i].gone} |->
                                IF i \in Range(ids) THEN c ELSE pending[i]]
               /\ Set(c, IF live = <<>> THEN r ELSE Take(r, live, r.phase))
    BY <1>10
  <2>2. PICK ids : ids = FirstOf(idle)
    OBVIOUS
  <2>3. PICK S : S = {k \in DOMAIN ids : ~entries[ids[k]].gone}
    OBVIOUS
  <2>4. PICK live : live = Only(ids, S)
    OBVIOUS
  <2>5. PICK more : more = \E i \in idle : i \notin Range(ids)
    OBVIOUS
  <2>6. PICK r : r = [reader[c] EXCEPT !.cursor = IF more THEN Last(ids) ELSE 0, !.phase = IF more THEN "claim" ELSE "read"]
    OBVIOUS
  <2>7. /\ pending' = [i \in DOMAIN pending \ {i \in Range(ids) : entries[i].gone} |-> IF i \in Range(ids) THEN c ELSE pending[i]]
        /\ Set(c, IF live = <<>> THEN r ELSE Take(r, live, r.phase))
    BY <2>1, <2>2, <2>3, <2>4, <2>5, <2>6, Zenon
  <2>8. idle \subseteq 1..Len(entries) /\ idle \subseteq DOMAIN pending
    BY <1>6
  <2>9. Firsts(ids, idle)
    BY <1>6, <2>2, <2>8, FirstIds
  <2>10. ids \in Seq(idle) /\ DOMAIN ids = 1..Len(ids) /\ (idle # {} => Last(ids) \in idle)
    BY <2>9 DEF Firsts
  <2>11. more => idle # {}
    BY <2>5
  <2>12. more => Last(ids) \in Nat
    BY <2>8, <2>10, <2>11
  <2>13. r \in Reader /\ r.phase \in {"claim", "read"} /\ r.ms = <<>> /\ r.token = reader[c].token
    BY <1>3, <1>4, <2>6, <2>12 DEF Reader, Working
  <2>14. ids \in Seq(DOMAIN entries) /\ S \subseteq DOMAIN ids
    BY <1>6, <2>3, <2>8, <2>10, DeliveredIds
  <2>15. live \in Seq(DOMAIN entries)
    BY <2>4, <2>14, OnlyAt
  <2>16. PICK t : t = IF live = <<>> THEN r ELSE Take(r, live, r.phase)
    OBVIOUS
  <2>17. t \in Reader /\ ReaderInv(t)
    <3>1. r.phase \notin {"refuse", "commit", "ack"} /\ <<age, r.token>> \in named
      BY <1>4, <2>13
    <3>2. CASE live = <<>>
      BY <2>13, <2>16, <3>1, <3>2, ReaderOf
    <3>3. CASE live # <<>>
      <4>1. PICK b \in {"own", "claim", "new", "read"} : b = r.phase
        BY <2>13
      <4>2. t = Take(r, live, b)
        BY <2>16, <3>3, <4>1
      <4> QED BY <2>13, <2>15, <3>1, <4>2, TakeReader
    <3> QED BY <3>2, <3>3
  <2>18. DOMAIN pending' = DOMAIN pending \ {i \in Range(ids) : entries[i].gone}
    BY <2>7
  <2>19. DOMAIN pending' \subseteq DOMAIN pending /\ \A i \in DOMAIN pending : i \in DOMAIN pending' \/ entries[i].gone
    BY <2>18
  <2>20. Set(c, t)
    BY <2>7, <2>16
  <2> QED BY <1>2, <1>8, <2>17, <2>19, <2>20
<1> QED BY <1>9, <1>10 DEF RClaim

\* All new entries up to the last that was read are pending, or gone.
LEMMA RedisNew ==
    ASSUME FeedInv, RedisInv, ~Misnamed, NEW c \in Procs, RNew(c), feed' = feed
    PROVE  FeedInv' /\ RedisInv'
<1>0. PICK new : new = {i \in (given + 1)..Len(entries) : ~entries[i].gone}
  OBVIOUS
<1>x. PICK ids : ids = FirstOf(new)
  OBVIOUS
<1>1. /\ reader[c].phase \in {"new", "read"} /\ UNCHANGED <<feedVars, age, entries, group, token, minted, named, crossed>>
      /\ \/ ~group /\ RStop(c) /\ UNCHANGED <<given, pending>>
         \/ group /\ ids = <<>> /\ (RStop(c) \/ Set(c, [reader[c] EXCEPT !.phase = "new"])) /\ UNCHANGED <<given, pending>>
         \/ /\ group /\ ids # <<>>
            /\ given' = Last(ids) /\ pending' = Owned(c, Range(ids))
            /\ Set(c, Take(reader[c], ids, "new"))
  BY <1>0, <1>x, Zenon DEF RNew
<1>2. FeedInv' /\ UNCHANGED <<chain, sent>>
  BY <1>1, FeedQuiet, SameQuiet DEF feedVars
<1>3. RedisTypes /\ RedisNamed /\ group \in BOOLEAN /\ reader[c] \in Reader
  BY DEF RedisInv, RedisTypes
<1>4. reader[c].ms = <<>> /\ <<age, reader[c].token>> \in named
  BY <1>1, <1>3 DEF RedisNamed, ReaderInv, Working
<1>5. Later /\ Stays
  BY <1>1, <1>2, StaysSame DEF Later
<1>6. /\ given \in Nat /\ DOMAIN pending \subseteq 1..given /\ DOMAIN pending \subseteq DOMAIN entries
      /\ DOMAIN entries = 1..Len(entries) /\ Len(entries) \in Nat /\ given <= Len(entries)
  BY PendingIds
<1>7. CASE UNCHANGED <<given, pending>> /\ (RStop(c) \/ Set(c, [reader[c] EXCEPT !.phase = "new"]))
  <2>1. RedisKept' /\ given' \in 0..Len(entries) /\ DOMAIN pending' \subseteq 1..given' /\ group' \in BOOLEAN
    BY <1>1, <1>2, <1>3, <1>7, KeptSame DEF RedisTypes
  <2>2. PICK r : (r = Idle \/ r = [reader[c] EXCEPT !.phase = "new"]) /\ Set(c, r)
    BY <1>7 DEF RStop
  <2>3. r \in Reader /\ ReaderInv(r)
    <3>1. CASE r = Idle
      BY <3>1, IdleReader
    <3>2. CASE r = [reader[c] EXCEPT !.phase = "new"]
      <4>1. r \in Reader /\ r.phase = "new" /\ r.ms = <<>> /\ r.token = reader[c].token
        BY <1>3, <1>4, <3>2 DEF Reader, Working
      <4> QED BY <1>4, <4>1, ReaderOf
    <3> QED BY <2>2, <3>1, <3>2
  <2> QED BY <1>1, <1>2, <2>1, <2>2, <2>3, RedisStep
<1>8. CASE ids # <<>> /\ given' = Last(ids) /\ pending' = Owned(c, Range(ids)) /\ Set(c, Take(reader[c], ids, "new"))
  <2>1. new \subseteq 1..Len(entries) /\ \A i \in new : given < i
    BY <1>0, <1>6
  <2>2. Firsts(ids, new)
    BY <1>6, <1>x, <2>1, FirstIds
  <2>3. /\ ids \in Seq(new) /\ DOMAIN ids = 1..Len(ids) /\ Len(ids) \in Nat /\ Len(ids) > 0
        /\ Last(ids) \in new /\ (\A k \in 1..Len(ids) : ids[k] <= Last(ids))
        /\ \A x \in new : x <= Last(ids) => \E k \in 1..Len(ids) : ids[k] = x
    BY <1>8, <2>2 DEF Firsts
  <2>4. ids \in Seq(DOMAIN entries) /\ \A k \in 1..Len(ids) : ids[k] \in new
    <3>1. ids \in Seq(DOMAIN entries)
      BY <1>6, <2>1, <2>3, DeliveredIds
    <3> QED BY <2>3, <3>1, OfSeq
  <2>5. PICK last \in new : last = Last(ids)
    BY <2>3
  <2>6. last \in 1..Len(entries) /\ given < last /\ given' = last /\ last \in Nat
    BY <1>6, <1>8, <2>1, <2>5
  <2>7. DOMAIN pending' = DOMAIN pending \cup Range(ids)
    BY <1>8 DEF Owned
  <2>8. \A i \in Range(ids) : i \in 1..last
    <3> SUFFICES ASSUME NEW k \in 1..Len(ids) PROVE ids[k] \in 1..last
      BY <2>3 DEF Range
    <3>1. ids[k] \in 1..Len(entries) /\ ids[k] <= last
      BY <2>1, <2>3, <2>4, <2>5
    <3> QED BY <1>6, <2>6, <3>1
  <2>9. DOMAIN pending' \subseteq 1..given'
    <3>1. \A i \in DOMAIN pending : i \in 1..last
      BY <1>6, <2>6
    <3> QED BY <2>6, <2>7, <2>8, <3>1
  <2>10. ASSUME NEW i \in (given + 1)..given' PROVE i \in DOMAIN pending' \/ entries'[i].gone
    <3>1. i \in (given + 1)..Len(entries) /\ i <= last
      BY <1>6, <2>6
    <3>2. CASE entries[i].gone
      BY <1>1, <3>2
    <3>3. CASE ~entries[i].gone
      <4>1. i \in new
        BY <1>0, <3>1, <3>3
      <4>2. PICK k \in 1..Len(ids) : ids[k] = i
        BY <2>3, <2>5, <3>1, <4>1
      <4> QED BY <2>3, <2>7, <4>2 DEF Range
    <3> QED BY <3>2, <3>3
  <2>11. RedisKept'
    <3>1. given' \in Nat /\ \A i \in DOMAIN pending : i \in DOMAIN pending'
      BY <2>6, <2>7
    <3> QED BY <1>5, <2>10, <3>1, KeptStays
  <2>12. PICK t : t = Take(reader[c], ids, "new")
    OBVIOUS
  <2>13. t \in Reader /\ ReaderInv(t)
    <3>1. "new" \in {"own", "claim", "new", "read"}
      OBVIOUS
    <3>2. PICK r \in Reader : r = reader[c]
      BY <1>3
    <3>3. <<age, r.token>> \in named /\ t = Take(r, ids, "new")
      BY <1>4, <2>12, <3>2
    <3> QED BY <2>4, <3>1, <3>3, TakeReader
  <2>14. given' \in 0..Len(entries) /\ group' \in BOOLEAN
    BY <1>1, <1>3, <1>6, <2>6
  <2>15. RedisInv'
    BY <1>1, <1>2, <1>8, <2>9, <2>11, <2>12, <2>13, <2>14, RedisStep
  <2> QED BY <1>2, <2>15
<1> QED BY <1>1, <1>7, <1>8

-----------------------------------------------------------------------------
(* A batch *)

\* Pending entries are acknowledged for a reason.
LEMMA RedisAcks ==
    ASSUME FeedInv, RedisInv, ~Misnamed, NEW c \in Procs, NEW S, NEW next \in Reader, ReaderInv(next), Ack(c, S, next),
           UNCHANGED <<age, entries, group, given, token, minted, named, crossed, feed>>,
           \A i \in S : entries[i].gone \/ ~Valid(entries[i].m) \/ \E n : n = entries[i].m.n /\ OnChain(n)
    PROVE  FeedInv' /\ RedisInv'
<1>1. /\ UNCHANGED <<chain, coming, sent, stuck>> /\ Quiet
      /\ pending' = pending \/ pending' = Without(S)
      /\ Set(c, next) \/ RStop(c)
  <2>1. CASE pending' = Without(S) /\ Set(c, next) /\ UNCHANGED feedVars
    BY <2>1, SameQuiet DEF feedVars
  <2>2. CASE S # {} /\ Fault /\ pending' \in {pending, Without(S)} /\ RStop(c) /\ UNCHANGED <<chain, coming, sent, stuck>>
    BY <2>2, FaultQuiet
  <2> QED BY <2>1, <2>2 DEF Ack
<1>2. FeedInv'
  BY <1>1, FeedQuiet
<1>3. /\ given \in Nat /\ DOMAIN pending \subseteq 1..given /\ Len(entries) \in Nat /\ given <= Len(entries)
  BY PendingIds
<1>4. \A i \in DOMAIN pending : i \in DOMAIN pending' \/ i \in S
  BY <1>1 DEF Without
<1>5. DOMAIN pending' \subseteq DOMAIN pending
  BY <1>1 DEF Without
<1>6. Later /\ Stays
  BY <1>1, StaysSame DEF Later
<1>7. RedisKept'
  <2>1. (given + 1)..given' = {} /\ given' \in Nat
    BY <1>3
  <2>2. \A i \in DOMAIN pending : \/ i \in DOMAIN pending'
                                  \/ entries[i].gone \/ ~Valid(entries[i].m) \/ \E n : n = entries[i].m.n /\ OnChain(n)'
    BY <1>4, <1>6 DEF Stays
  <2> QED BY <1>6, <2>1, <2>2, KeptStays
<1>8. PICK r \in Reader : Set(c, r) /\ ReaderInv(r)
  BY <1>1, IdleReader DEF RStop
<1>9. given' \in 0..Len(entries) /\ DOMAIN pending' \subseteq 1..given' /\ group' \in BOOLEAN
  BY <1>3, <1>5 DEF RedisInv, RedisTypes
<1> QED BY <1>1, <1>2, <1>7, <1>8, <1>9, RedisStep

\* The run goes on with no batch.
LEMMA GoesOn ==
    ASSUME RedisInv, ~Misnamed, NEW c \in Procs, reader[c].phase \in Working
    PROVE  GoOn(c) \in Reader /\ ReaderInv(GoOn(c))
<1>1. reader[c] \in Reader /\ <<age, reader[c].token>> \in named
  BY DEF RedisInv, RedisTypes, RedisNamed, ReaderInv
<1>2. PICK r : r = GoOn(c)
  OBVIOUS
<1>3. r \in Reader /\ r.phase \in {"own", "claim", "new", "read"} /\ r.ms = <<>> /\ r.token = reader[c].token
  BY <1>1, <1>2, NoReads DEF GoOn, Reader, Working
<1>4. ReaderInv(r)
  BY <1>1, <1>3, ReaderOf
<1> QED BY <1>2, <1>3, <1>4

LEMMA RedisRefuse ==
    ASSUME FeedInv, RedisInv, ~Misnamed, NEW c \in Procs, RRefuse(c), feed' = feed
    PROVE  FeedInv' /\ RedisInv'
<1>0. PICK ms : ms = reader[c].ms
  OBVIOUS
<1>x. PICK S : S = {k \in DOMAIN ms : ~Refused(ms[k])}
  OBVIOUS
<1>y. PICK kept : kept = Only(ms, S)
  OBVIOUS
<1>z. PICK next : next = IF kept = <<>> THEN GoOn(c) ELSE [reader[c] EXCEPT !.phase = "commit", !.ms = kept]
  OBVIOUS
<1>w. PICK A : A = {ms[k].id : k \in {k \in DOMAIN ms : Refused(ms[k])}}
  OBVIOUS
<1>1. /\ reader[c].phase = "refuse" /\ Ack(c, A, next)
      /\ UNCHANGED <<age, entries, group, given, token, minted, named, crossed>>
  BY <1>0, <1>x, <1>y, <1>z, <1>w, Zenon DEF RRefuse
<1>2. reader[c] \in Reader /\ <<age, reader[c].token>> \in named
      /\ \A k \in DOMAIN ms : /\ ms[k].id \in DOMAIN entries /\ entries[ms[k].id].m = ms[k].m
                              /\ ms[k].gone => entries[ms[k].id].gone
  BY <1>0, <1>1 DEF RedisInv, RedisTypes, RedisNamed, ReaderInv, Working
<1>3. ms \in Reads
  BY <1>0, <1>2 DEF Reader
<1>4. kept \in Reads /\ \A k \in DOMAIN kept : \E j \in S : kept[k] = ms[j]
  <2>1. S \subseteq DOMAIN ms
    BY <1>x
  <2>2. kept \in Seq([id : Nat, m : Message, gone : BOOLEAN]) /\ Selects(kept, ms, S)
    BY <1>3, <1>y, <2>1, OnlyAt DEF Reads
  <2>3. PICK at \in Seq(S) : DOMAIN kept = 1..Len(at) /\ \A k \in 1..Len(at) : kept[k] = ms[at[k]]
    BY <2>2, Zenon DEF Selects
  <2>4. \A k \in 1..Len(at) : at[k] \in S
    BY OfSeq
  <2> QED BY <2>2, <2>3, <2>4 DEF Reads
<1>5. next \in Reader /\ ReaderInv(next)
  <2>1. CASE kept = <<>>
    BY <1>1, <1>z, <2>1, GoesOn DEF Working
  <2>2. CASE kept # <<>>
    <3>1. next \in Reader /\ next.phase = "commit" /\ next.ms = kept /\ next.token = reader[c].token
      BY <1>2, <1>4, <1>z, <2>2 DEF Reader, Working
    <3>2. ASSUME NEW k \in DOMAIN kept
          PROVE  /\ kept[k].id \in DOMAIN entries /\ entries[kept[k].id].m = kept[k].m
                 /\ kept[k].gone => entries[kept[k].id].gone
                 /\ Valid(kept[k].m)
      <4>1. PICK j \in S : kept[k] = ms[j]
        BY <1>4
      <4>2. j \in DOMAIN ms /\ ~Refused(ms[j])
        BY <1>x
      <4> QED BY <1>2, <4>1, <4>2 DEF Refused
    <3> QED BY <1>2, <3>1, <3>2 DEF ReaderInv, Working
  <2> QED BY <2>1, <2>2
<1>6. ASSUME NEW i \in A PROVE entries[i].gone \/ ~Valid(entries[i].m)
  <2>1. PICK k \in DOMAIN ms : Refused(ms[k]) /\ i = ms[k].id
    BY <1>w
  <2> QED BY <1>2, <2>1 DEF Refused
<1> QED BY <1>1, <1>5, <1>6, RedisAcks

LEMMA RedisAckStep ==
    ASSUME FeedInv, RedisInv, ~Misnamed, NEW c \in Procs, RAck(c), feed' = feed
    PROVE  FeedInv' /\ RedisInv'
<1>1. PICK A : A = {reader[c].ms[k].id : k \in DOMAIN reader[c].ms}
  OBVIOUS
<1>2. PICK next : next = GoOn(c)
  OBVIOUS
<1>3. /\ reader[c].phase = "ack" /\ Ack(c, A, next)
      /\ UNCHANGED <<age, entries, group, given, token, minted, named, crossed>>
  BY <1>1, <1>2 DEF RAck
<1>4. next \in Reader /\ ReaderInv(next)
  BY <1>2, <1>3, GoesOn DEF Working
<1>5. ASSUME NEW i \in A PROVE \E n : n = entries[i].m.n /\ OnChain(n)
  <2>1. PICK k \in DOMAIN reader[c].ms : i = reader[c].ms[k].id
    BY <1>1
  <2>2. entries[i].m = reader[c].ms[k].m /\ OnChain(reader[c].ms[k].m.n)
    BY <1>3, <2>1 DEF RedisInv, RedisNamed, ReaderInv
  <2> QED BY <2>2
<1> QED BY <1>3, <1>4, <1>5, RedisAcks

\* The marks of this life's entries under its token, and those of the chains.
StoredMarks(t) == {Mark(entries[i].m, <<"evidence", t, i>>) : i \in DOMAIN entries}

LEMMA StoredOnce ==
    ASSUME RedisInv, ~Misnamed, NEW t, <<age, t>> \in named
    PROVE  OneToOne(ChainMarks \cup StoredMarks(t))
<1>1. RedisNamed /\ age \in Nat
  BY DEF RedisInv, RedisTypes
<1>2. \A x, y \in named : (x[1] = y[1] \/ x[2] = y[2]) => x = y
  BY DEF Misnamed
<1>3. ASSUME NEW p \in ChainMarks, NEW s \in StoredMarks(t), p.n = s.n \/ p.source = s.source PROVE p = s
  <2>1. PICK x \in DOMAIN chain : p = Mark(chain[x], chain[x].source)
    BY DEF ChainMarks
  <2>2. PICK i \in DOMAIN entries : s = Mark(entries[i].m, <<"evidence", t, i>>)
    BY DEF StoredMarks
  <2>3. PICK e : e = chain[x]
    OBVIOUS
  <2>4. e.source \in {"evidence"} \X Nat \X Nat
        /\ \E a \in 0..age :
             /\ <<a, e.source[2]>> \in named
             /\ a = age => /\ e.source[3] \in DOMAIN entries
                           /\ entries[e.source[3]].m.n = e.n /\ entries[e.source[3]].m.subject = e.subject
             /\ a # age => \A j \in DOMAIN entries : entries[j].m.n # e.n
    BY <1>1, <2>3 DEF RedisNamed, ChainNamed
  <2>5. PICK a \in 0..age :
             /\ <<a, e.source[2]>> \in named
             /\ a = age => /\ e.source[3] \in DOMAIN entries
                           /\ entries[e.source[3]].m.n = e.n /\ entries[e.source[3]].m.subject = e.subject
             /\ a # age => \A j \in DOMAIN entries : entries[j].m.n # e.n
    BY <2>4
  <2>6. p.n = e.n /\ p.subject = e.subject /\ p.source = e.source
    BY <2>1, <2>3 DEF Mark
  <2>7. s.n = entries[i].m.n /\ s.subject = entries[i].m.subject /\ s.source = <<"evidence", t, i>>
    BY <2>2 DEF Mark
  <2>8. a = age
    <3>1. CASE p.n = s.n
      BY <2>5, <2>6, <2>7, <3>1
    <3>2. CASE p.source = s.source
      <4>1. e.source[2] = t
        BY <2>6, <2>7, <3>2
      <4>2. PICK u : u = <<a, e.source[2]>>
        OBVIOUS
      <4>3. PICK v : v = <<age, t>>
        OBVIOUS
      <4>4. u \in named /\ v \in named /\ u[2] = v[2] /\ u[1] = a /\ v[1] = age
        BY <2>5, <4>1, <4>2, <4>3
      <4> QED BY <1>2, <4>4
    <3> QED BY <1>3, <3>1, <3>2
  <2>9. e.source[2] = t
    <3>1. PICK u : u = <<a, e.source[2]>>
      OBVIOUS
    <3>2. PICK v : v = <<age, t>>
      OBVIOUS
    <3>3. u \in named /\ v \in named /\ u[1] = v[1] /\ u[2] = e.source[2] /\ v[2] = t
      BY <2>5, <2>8, <3>1, <3>2
    <3> QED BY <1>2, <3>3
  <2>10. e.source[3] \in DOMAIN entries /\ entries[e.source[3]].m.n = e.n /\ entries[e.source[3]].m.subject = e.subject
    BY <2>5, <2>8
  <2>11. e.source[3] = i
    <3>1. CASE p.n = s.n
      BY <1>1, <2>6, <2>7, <2>10, <3>1 DEF RedisNamed, OnceStored
    <3>2. CASE p.source = s.source
      BY <2>6, <2>7, <3>2
    <3> QED BY <1>3, <3>1, <3>2
  <2>12. e.source = <<"evidence", t, i>>
    BY <2>4, <2>9, <2>11
  <2>13. e.n = entries[i].m.n /\ e.subject = entries[i].m.subject
    BY <2>10, <2>11
  <2> QED BY <2>1, <2>2, <2>3, <2>12, <2>13 DEF Mark
<1>4. ASSUME NEW s \in StoredMarks(t), NEW u \in StoredMarks(t), s.n = u.n \/ s.source = u.source PROVE s = u
  <2>1. PICK i \in DOMAIN entries : s = Mark(entries[i].m, <<"evidence", t, i>>)
    BY DEF StoredMarks
  <2>2. PICK j \in DOMAIN entries : u = Mark(entries[j].m, <<"evidence", t, j>>)
    BY DEF StoredMarks
  <2>3. s.n = entries[i].m.n /\ s.source = <<"evidence", t, i>> /\ u.n = entries[j].m.n /\ u.source = <<"evidence", t, j>>
    BY <2>1, <2>2 DEF Mark
  <2>4. i = j
    <3>1. CASE s.n = u.n
      BY <1>1, <2>3, <3>1 DEF RedisNamed, OnceStored
    <3>2. CASE s.source = u.source
      BY <2>3, <3>2
    <3> QED BY <1>4, <3>1, <3>2
  <2> QED BY <2>1, <2>2, <2>4
<1>5. \A p, s \in ChainMarks : (p.n = s.n \/ p.source = s.source) => p = s
  BY <1>1 DEF RedisNamed, OneToOne
<1> QED BY <1>3, <1>4, <1>5 DEF OneToOne

\* The records of a call are of entries of this life, under its token.
LEMMA StoredRecords ==
    ASSUME FeedInv, RedisInv, ~Misnamed, NEW c \in Procs, reader[c].phase = "commit",
           NEW ms, ms = reader[c].ms, NEW t, t = reader[c].token,
           NEW recs, recs = [k \in DOMAIN ms |-> Record(ms[k].m, SourceOf(c, ms[k]))]
    PROVE  /\ OfPublished(recs) /\ MarksOf(recs) \subseteq StoredMarks(t) /\ DOMAIN recs = DOMAIN ms
           /\ \A k \in DOMAIN ms : recs[k] = Record(entries[ms[k].id].m, <<"evidence", t, ms[k].id>>)
                                   /\ ms[k].id \in DOMAIN entries /\ recs[k].n = ms[k].m.n
<1>1. reader[c] \in Reader /\ entries \in Stored /\ \A i \in DOMAIN entries : entries[i].m.n \in 1..sent
  BY DEF RedisInv, RedisTypes
<1>2. ms \in Reads /\ t \in Nat
  BY <1>1 DEF Reader
<1>3. Len(ms) \in Nat /\ DOMAIN ms = 1..Len(ms)
  BY <1>2, OfSeq DEF Reads
<1>4. \A k \in 1..Len(ms) : ms[k].id \in DOMAIN entries /\ entries[ms[k].id].m = ms[k].m /\ Valid(ms[k].m)
  <2>1. ReaderInv(reader[c])
    BY DEF RedisInv, RedisNamed
  <2>2. PICK r : r = reader[c]
    OBVIOUS
  <2>3. ReaderInv(r) /\ r.phase = "commit" /\ r.ms = ms
    BY <2>1, <2>2
  <2> QED BY <1>3, <2>3 DEF ReaderInv
<1>5. \A i \in DOMAIN entries : i \in Nat /\ entries[i].m \in Message
  <2>1. Len(entries) \in Nat /\ DOMAIN entries = 1..Len(entries) /\ \A i \in 1..Len(entries) : entries[i] \in Item
    BY <1>1, OfSeq DEF Stored
  <2> QED BY <2>1 DEF Item
<1>6. ASSUME NEW k \in 1..Len(ms)
      PROVE  /\ recs[k] = Record(entries[ms[k].id].m, <<"evidence", t, ms[k].id>>)
             /\ recs[k] \in Recs /\ recs[k].n = ms[k].m.n /\ recs[k].n \in 1..sent
             /\ Mark(recs[k], recs[k].source) \in StoredMarks(t)
  <2>1. PICK i \in DOMAIN entries : i = ms[k].id
    BY <1>4
  <2>2. PICK m \in Message : m = entries[i].m /\ m = ms[k].m
    BY <1>4, <1>5, <2>1
  <2>3. PICK s : s = <<"evidence", t, i>>
    OBVIOUS
  <2>4. s \in Sources
    <3>1. i \in Nat /\ "evidence" \in {"EVIDENCE", "evidence"}
      BY <1>5
    <3> QED BY <1>2, <2>3, <3>1 DEF Sources
  <2>5. recs[k] = Record(m, s)
    BY <1>3, <2>1, <2>2, <2>3 DEF SourceOf
  <2>6. Valid(m)
    BY <1>4, <2>2
  <2>7. Record(m, s) \in Recs /\ Mark(Record(m, s), Record(m, s).source) = Mark(m, s) /\ Record(m, s).n = m.n
    BY <2>4, <2>6, RecordType
  <2>8. Mark(m, s) \in StoredMarks(t)
    BY <2>2, <2>3 DEF StoredMarks
  <2>9. m.n \in 1..sent
    BY <1>1, <2>2
  <2> QED BY <2>1, <2>2, <2>3, <2>5, <2>7, <2>8, <2>9
<1>7. recs = [k \in 1..Len(ms) |-> recs[k]] /\ DOMAIN recs = 1..Len(ms)
  BY <1>3
<1>8. recs \in Seq(Recs)
  <2>1. [k \in 1..Len(ms) |-> recs[k]] \in Seq(Recs)
    BY <1>3, <1>6, IsSeq
  <2> QED BY <1>7, <2>1
<1>9. OfPublished(recs) /\ MarksOf(recs) \subseteq StoredMarks(t)
  <2>1. DOMAIN recs = 1..Len(ms)
    BY <1>7
  <2>2. \A k \in DOMAIN recs : recs[k].n \in 1..sent /\ Mark(recs[k], recs[k].source) \in StoredMarks(t)
    BY <1>6, <2>1
  <2>3. MarksOf(recs) \subseteq StoredMarks(t)
    BY <2>2 DEF MarksOf
  <2> QED BY <1>8, <2>2, <2>3 DEF OfPublished
<1> QED BY <1>3, <1>4, <1>6, <1>7, <1>9

LEMMA RedisCommit ==
    ASSUME FeedInv, RedisInv, ~Misnamed, NEW c \in Procs, RCommit(c), feed' = feed
    PROVE  FeedInv' /\ RedisInv'
<1>0. PICK ms : ms = reader[c].ms
  OBVIOUS
<1>x. PICK recs : recs = [k \in DOMAIN ms |-> Record(ms[k].m, SourceOf(c, ms[k]))]
  OBVIOUS
<1>1. PICK r \in CommitResults(recs) :
        /\ reader[c].phase = "commit" /\ Returned(r)
        /\ IF r.out = "ok" THEN Set(c, [reader[c] EXCEPT !.phase = "ack"]) ELSE RStop(c)
        /\ UNCHANGED <<serverVars, named, crossed>>
  BY <1>0, <1>x, Zenon DEF RCommit
<1>2. RedisTypes /\ RedisNamed /\ reader[c] \in Reader /\ reader \in [Procs -> Reader]
  BY DEF RedisInv, RedisTypes
<1>3. UNCHANGED <<age, entries, group, given, pending, token, minted, named, crossed>>
  BY <1>1 DEF serverVars
<1>4. chain \in Seq(Recs) /\ Once /\ spare \in Nat
  <2>1. MaxFaults[feed] \in Nat
    BY FeedersAssumption DEF FeedInv
  <2> QED BY <2>1 DEF FeedInv
<1>5. PICK t : t = reader[c].token
  OBVIOUS
<1>6. <<age, t>> \in named /\ age \in Nat
      /\ \A k \in DOMAIN ms : ms[k].id \in DOMAIN entries /\ entries[ms[k].id].m = ms[k].m /\ Valid(ms[k].m)
  BY <1>0, <1>1, <1>2, <1>5 DEF RedisTypes, RedisNamed, ReaderInv, Working
<1>7. /\ OfPublished(recs) /\ MarksOf(recs) \subseteq StoredMarks(t) /\ DOMAIN recs = DOMAIN ms
      /\ \A k \in DOMAIN ms : recs[k] = Record(entries[ms[k].id].m, <<"evidence", t, ms[k].id>>)
                              /\ ms[k].id \in DOMAIN entries /\ recs[k].n = ms[k].m.n
  BY <1>0, <1>1, <1>5, <1>x, StoredRecords
<1>8. PICK M : M = ChainMarks \cup StoredMarks(t)
  OBVIOUS
<1>9. OneToOne(M) /\ ChainMarks \subseteq M /\ MarksOf(recs) \subseteq M
  <2>1. OneToOne(ChainMarks \cup StoredMarks(t))
    BY <1>6, StoredOnce
  <2> QED BY <1>7, <1>8, <2>1
<1>10. /\ GrowsBy(recs) /\ Once' /\ ChainMarks' \subseteq M
       /\ r.out = "ok" => \A i \in DOMAIN recs : OnChain(recs[i].n)'
       /\ spare' \in 0..spare /\ UNCHANGED <<coming, sent, stuck>>
  BY <1>1, <1>4, <1>7, <1>9, CommitReturns DEF OfPublished
<1>11. FeedInv'
  BY <1>7, <1>10, FeedGrown
<1>12. /\ Stays
       /\ \A b \in DOMAIN chain' : \/ b \in DOMAIN chain /\ chain'[b] = chain[b]
                                   \/ \E i \in DOMAIN recs : chain'[b] = recs[i]
  BY <1>4, <1>10, Grown DEF Stays
<1>13. Later
  BY <1>3 DEF Later
<1>14. PICK s : s = IF r.out = "ok" THEN [reader[c] EXCEPT !.phase = "ack"] ELSE Idle
  OBVIOUS
<1>15. s \in Reader /\ Set(c, s)
  <2>1. CASE r.out = "ok"
    <3>1. s = [reader[c] EXCEPT !.phase = "ack"]
      BY <1>14, <2>1
    <3>2. s \in Reader
      BY <1>2, <3>1 DEF Reader, Working
    <3> QED BY <1>1, <2>1, <3>1, <3>2
  <2>2. CASE r.out # "ok"
    BY <1>1, <1>14, <2>2, IdleReader DEF RStop
  <2> QED BY <2>1, <2>2
<1>16. ReaderInv(s)'
  <2>1. CASE r.out = "ok"
    <3>1. s.phase = "ack" /\ s.ms = ms /\ s.token = t
      BY <1>0, <1>2, <1>5, <1>14, <2>1 DEF Reader
    <3>2. ASSUME NEW k \in DOMAIN ms PROVE OnChain(ms[k].m.n)'
      <4>1. PICK n : n = recs[k].n
        OBVIOUS
      <4>2. OnChain(n)'
        BY <1>7, <1>10, <2>1, <4>1 DEF OnChain
      <4>3. n = ms[k].m.n
        BY <1>7, <4>1
      <4> QED BY <4>2, <4>3 DEF OnChain
    <3>3. \A k \in DOMAIN ms : ms[k].gone => entries[ms[k].id].gone
      BY <1>0, <1>2 DEF RedisNamed, ReaderInv
    <3> QED BY <1>3, <1>6, <3>1, <3>2, <3>3 DEF ReaderInv, Valid
  <2>2. CASE r.out # "ok"
    <3>1. ReaderInv(Idle)
      BY IdleReader
    <3>2. ReaderInv(Idle)'
      BY <1>12, <1>13, <3>1, ReaderStays
    <3> QED BY <1>14, <2>2, <3>2
  <2> QED BY <2>1, <2>2
<1>17. reader' \in [Procs -> Reader] /\ reader'[c] = s /\ \A d \in Procs : d # c => reader'[d] = reader[d]
  BY <1>2, <1>15 DEF Set
<1>18. RedisTypes'
  BY <1>2, <1>3, <1>10, <1>17 DEF RedisTypes
<1>19. \A d \in Procs : ReaderInv(reader[d])'
  <2> SUFFICES ASSUME NEW d \in Procs PROVE ReaderInv(reader[d])'
    OBVIOUS
  <2>1. CASE d = c
    <3>1. reader'[d] = s
      BY <1>17, <2>1
    <3> QED BY <1>16, <3>1 DEF ReaderInv, OnChain
  <2>2. CASE d # c
    <3>1. PICK u : u = reader[d]
      OBVIOUS
    <3>2. ReaderInv(u)
      BY <1>2, <3>1 DEF RedisNamed
    <3>3. ReaderInv(u)'
      BY <1>12, <1>13, <3>2, ReaderStays
    <3>4. reader'[d] = u
      BY <1>17, <2>2, <3>1
    <3> QED BY <3>3, <3>4 DEF ReaderInv, OnChain
  <2> QED BY <2>1, <2>2
<1>20. ASSUME NEW b \in DOMAIN chain' PROVE ChainNamed(chain[b])'
  <2>1. PICK e : e = chain'[b]
    OBVIOUS
  <2>2. ChainNamed(e)
    <3>1. CASE b \in DOMAIN chain /\ chain'[b] = chain[b]
      BY <1>2, <2>1, <3>1 DEF RedisNamed
    <3>2. CASE \E i \in DOMAIN recs : chain'[b] = recs[i]
      <4>1. PICK k \in DOMAIN ms : e = Record(entries[ms[k].id].m, <<"evidence", t, ms[k].id>>) /\ ms[k].id \in DOMAIN entries
        BY <1>7, <2>1, <3>2
      <4>2. PICK i \in DOMAIN entries : i = ms[k].id
        BY <4>1
      <4>3. e.source = <<"evidence", t, i>> /\ e.n = entries[i].m.n /\ e.subject = entries[i].m.subject
        BY <4>1, <4>2 DEF Record
      <4>4. t \in Nat /\ i \in Nat /\ age \in 0..age
        <5>1. t \in Nat
          BY <1>2, <1>5 DEF Reader
        <5>2. i \in Nat
          BY PendingIds
        <5> QED BY <1>6, <5>1, <5>2
      <4>5. e.source \in {"evidence"} \X Nat \X Nat /\ e.source[2] = t /\ e.source[3] = i
        BY <4>3, <4>4
      <4> QED BY <1>6, <4>3, <4>4, <4>5 DEF ChainNamed
    <3> QED BY <1>12, <3>1, <3>2
  <2> QED BY <1>3, <2>1, <2>2 DEF ChainNamed
<1>21. OneToOne(ChainMarks)'
  BY <1>9, <1>10 DEF OneToOne
<1>22. OnceStored'
  BY <1>2, <1>3 DEF RedisNamed, OnceStored
<1>23. RedisKept'
  <2>1. given' = given /\ given \in Nat /\ pending' = pending
    BY <1>3, PendingIds
  <2> QED BY <1>12, <1>13, <2>1, KeptStays
<1> QED BY <1>11, <1>18, <1>19, <1>20, <1>21, <1>22, <1>23 DEF RedisInv, RedisNamed

\* Every step keeps them.
LEMMA RedisSteps ==
    ASSUME FeedInv, RedisInv, RedisNext, feed' = feed
    PROVE  FeedInv' /\ RedisInv'
<1>0. ~Misnamed
  BY DEF RedisNext
<1>1. CASE RPublish
  BY <1>0, <1>1, RedisPublish
<1>2. CASE RRecreate
  BY <1>0, <1>2, RedisRecreate
<1>3. CASE \E i \in DOMAIN entries : RDelete(i)
  BY <1>0, <1>3, RedisDelete
<1>4. ASSUME NEW c \in Procs, RStep(c) \/ RAgain(c) \/ RDie(c)
      PROVE  FeedInv' /\ RedisInv'
  <2>1. CASE RGroup(c)
    BY <1>0, <2>1, RedisGroup
  <2>2. CASE RToken(c) \/ RSetNX(c)
    BY <1>0, <2>2, RedisToken
  <2>3. CASE ROwn(c)
    BY <1>0, <2>3, RedisOwn
  <2>4. CASE RClaim(c)
    BY <1>0, <2>4, RedisClaim
  <2>5. CASE RNew(c)
    BY <1>0, <2>5, RedisNew
  <2>6. CASE RRefuse(c)
    BY <1>0, <2>6, RedisRefuse
  <2>7. CASE RCommit(c)
    BY <1>0, <2>7, RedisCommit
  <2>8. CASE RAck(c)
    BY <1>0, <2>8, RedisAckStep
  <2>9. CASE RAgain(c) \/ RDie(c)
    BY <1>0, <2>9, RedisAgain
  <2> QED BY <1>4, <2>1, <2>2, <2>3, <2>4, <2>5, <2>6, <2>7, <2>8, <2>9 DEF RStep
<1> QED BY <1>1, <1>2, <1>3, <1>4 DEF RedisNext

-----------------------------------------------------------------------------
(* OpenTelemetry *)

Requests  == Seq({"queued", "out", "answered", "dropped"})
Batches   == Seq(Message)
Conn      == [state : {"free", "waiting", "serving"}, req : Nat, alive : BOOLEAN]
ReceiverT == [up : BOOLEAN, open : BOOLEAN, dead : BOOLEAN, recs : Batches, live : Batches, aside : BOOLEAN]

\* The records of a request that can be committed.
Wanted(q) == {m \in {Body(q)[i] : i \in DOMAIN Body(q)} : Valid(m)}

\* What the receiver that works on a request does with one: it is on its chain, in this
\* chunk, in what is left, or the request will fail.
Served(m) ==
    \/ OnChain(m.n) \/ rv.aside
    \/ \E i \in DOMAIN rv.live : rv.live[i] = m
    \/ \E i \in DOMAIN rv.recs : rv.recs[i] = m

UidMarks == {Mark(logs[i], Uid(logs[i])) : i \in DOMAIN logs}
OfLogs(recs) == \A i \in DOMAIN recs : Valid(recs[i]) /\ \E j \in DOMAIN logs : recs[i] = logs[j]

LogsInv ==
    /\ logs \in Batches /\ Len(logs) = sent /\ (\A i \in DOMAIN logs : logs[i].n = i)
    /\ request \in Requests
    /\ coming # <<>> => Len(request) = sent \div RequestSize
    /\ ChainMarks \subseteq UidMarks

\* One request is worked on at a time.
ConnsInv ==
    /\ conn \in [Slots -> Conn]
    /\ \A k \in Slots : /\ conn[k].req \in 0..Len(request)
                        /\ conn[k].state # "free" => conn[k].req \in 1..Len(request)
                        /\ conn[k].state = "free" => ~conn[k].alive
    /\ \A j, k \in Slots : (conn[j].state = "serving" /\ conn[k].state = "serving") => j = k

ReceiverInv == rv \in ReceiverT /\ OfLogs(rv.live) /\ OfLogs(rv.recs)

ServingInv == \A k \in Slots : conn[k].state = "serving" => \A m \in Wanted(conn[k].req) : Served(m)

\* Connections are to a process that runs.
UpInv == (rv.open => rv.up) /\ (~rv.up => \A k \in Slots : conn[k].state = "free")

OtelInv == LogsInv /\ ConnsInv /\ UpInv /\ ReceiverInv /\ ServingInv /\ OtelKept

-----------------------------------------------------------------------------

\* The records of a request are of the log.
LEMMA BodyOf ==
    ASSUME logs \in Batches, NEW q
    PROVE  /\ Body(q) \in Batches /\ \A i \in DOMAIN Body(q) : \E j \in DOMAIN logs : Body(q)[i] = logs[j]
<1> DEFINE S == {i \in DOMAIN logs : (logs[i].n - 1) \div RequestSize = q - 1}
<1>1. Body(q) = Only(logs, S) /\ S \subseteq DOMAIN logs
  BY DEF Body
<1> HIDE DEF S
<1>2. Body(q) \in Seq(Message) /\ Selects(Body(q), logs, S)
  BY <1>1, OnlyAt DEF Batches
<1>3. PICK at \in Seq(S) : DOMAIN Body(q) = 1..Len(at) /\ \A k \in 1..Len(at) : Body(q)[k] = logs[at[k]]
  BY <1>2, Zenon DEF Selects
<1>4. \A k \in 1..Len(at) : at[k] \in S
  BY OfSeq
<1> QED BY <1>1, <1>2, <1>3, <1>4 DEF Batches

\* Those of some records that can be committed, all of them.
LEMMA ValidsAre ==
    ASSUME NEW recs \in Batches
    PROVE  /\ Valids(recs) \in Batches
           /\ \A i \in DOMAIN Valids(recs) : \E j \in DOMAIN recs : Valids(recs)[i] = recs[j] /\ Valid(recs[j])
           /\ \A j \in DOMAIN recs : Valid(recs[j]) => \E i \in DOMAIN Valids(recs) : Valids(recs)[i] = recs[j]
<1> DEFINE S == {i \in DOMAIN recs : Valid(recs[i])}
<1>1. Valids(recs) = Only(recs, S) /\ S \subseteq DOMAIN recs
  BY DEF Valids
<1>2. \A i : i \in S <=> (i \in DOMAIN recs /\ Valid(recs[i]))
  OBVIOUS
<1> HIDE DEF S
<1>3. Valids(recs) \in Seq(Message) /\ Selects(Valids(recs), recs, S)
  BY <1>1, OnlyAt DEF Batches
<1>4. PICK at \in Seq(S) : /\ DOMAIN Valids(recs) = 1..Len(at)
                           /\ \A k \in 1..Len(at) : Valids(recs)[k] = recs[at[k]]
                           /\ \A x \in S : \E k \in 1..Len(at) : at[k] = x
  BY <1>3, Zenon DEF Selects
<1>5. \A k \in 1..Len(at) : at[k] \in S
  BY OfSeq
<1>6. ASSUME NEW j \in S PROVE \E i \in DOMAIN Valids(recs) : Valids(recs)[i] = recs[j]
  BY <1>4
<1> QED BY <1>1, <1>2, <1>3, <1>4, <1>5, <1>6 DEF Batches

LEMMA SansSubjectOf ==
    ASSUME NEW recs \in Batches, NEW s
    PROVE  /\ SansSubject(recs, s) \in Batches
           /\ \A i \in DOMAIN SansSubject(recs, s) : \E j \in DOMAIN recs : SansSubject(recs, s)[i] = recs[j]
<1> DEFINE S == {i \in DOMAIN recs : recs[i].subject # s}
           o == SansSubject(recs, s)
<1>1. o = Only(recs, S) /\ S \subseteq DOMAIN recs
  BY DEF SansSubject
<1> HIDE DEF S, o
<1>2. o \in Seq(Message) /\ Selects(o, recs, S)
  BY <1>1, OnlyAt DEF Batches
<1>3. PICK at \in Seq(S) : DOMAIN o = 1..Len(at) /\ \A k \in 1..Len(at) : o[k] = recs[at[k]]
  BY <1>2, Zenon DEF Selects
<1>4. \A k \in 1..Len(at) : at[k] \in S
  BY OfSeq
<1> QED BY <1>1, <1>2, <1>3, <1>4 DEF Batches, o

\* One more moves the quotient just when the remainder is none.
LEMMA NextQuotient ==
    ASSUME NEW n \in Nat, NEW d \in Nat \ {0}
    PROVE  /\ (n + 1) % d = 0 => (n + 1) \div d = (n \div d) + 1
           /\ (n + 1) % d # 0 => (n + 1) \div d = n \div d
           /\ n \div d \in Nat
OBVIOUS

LEMMA WantedSame == logs' = logs => \A q : Body(q)' = Body(q) /\ Wanted(q)' = Wanted(q)
BY DEF Wanted, Body, Only, InOrder, Valid

\* A step that leaves the log alone.
LEMMA OtelStep ==
    ASSUME OtelInv, logs' = logs, sent' = sent, coming' = coming, Stays, ChainMarks' \subseteq UidMarks,
           request' \in Requests, Len(request') = Len(request), ConnsInv', UpInv', ReceiverInv', ServingInv',
           \A q \in 1..Len(request) : request'[q] = "answered" =>
               (request[q] = "answered" \/ \A m \in Wanted(q) : OnChain(m.n)')
    PROVE  OtelInv'
<1>1. LogsInv'
  BY DEF OtelInv, LogsInv, UidMarks, Mark, Uid
<1>2. DOMAIN request' = 1..Len(request) /\ DOMAIN request = 1..Len(request)
  BY OfSeq DEF OtelInv, LogsInv, Requests
<1>3. OtelKept'
  <2> SUFFICES ASSUME NEW q \in DOMAIN request', request'[q] = "answered", NEW m \in Wanted(q)
               PROVE  OnChain(m.n)'
    <3>1. \A q : Body(q)' = Body(q)
      BY WantedSame
    <3> SUFFICES ASSUME NEW q \in DOMAIN request', request'[q] = "answered", NEW i \in DOMAIN Body(q), Valid(Body(q)[i]),
                        \A m \in Wanted(q) : OnChain(m.n)'
                 PROVE  \E n : n = Body(q)[i].n /\ OnChain(n)'
      BY <3>1 DEF OtelKept, OnChain, Valid
    <3>2. PICK m : m = Body(q)[i]
      OBVIOUS
    <3>3. m \in Wanted(q)
      BY <3>2 DEF Wanted
    <3>4. PICK n : n = m.n
      OBVIOUS
    <3>5. OnChain(n)'
      BY <3>3, <3>4 DEF OnChain
    <3> QED BY <3>2, <3>4, <3>5
  <2>1. CASE request[q] = "answered"
    <3>1. PICK i \in DOMAIN Body(q) : m = Body(q)[i] /\ Valid(m)
      BY DEF Wanted
    <3>2. PICK n : n = m.n
      OBVIOUS
    <3>3. OnChain(n)
      BY <1>2, <2>1, <3>1, <3>2 DEF OtelInv, OtelKept
    <3>4. OnChain(n)'
      BY <3>3 DEF Stays
    <3> QED BY <3>2, <3>4 DEF OnChain
  <2>2. CASE request[q] # "answered"
    BY <1>2, <2>2
  <2> QED BY <2>1, <2>2
<1> QED BY <1>1, <1>3 DEF OtelInv

\* A step that does not touch the chains either.
LEMMA OtelQuiet ==
    ASSUME OtelInv, logs' = logs, chain' = chain, sent' = sent, coming' = coming, request' \in Requests,
           Len(request') = Len(request), ConnsInv', UpInv', ReceiverInv', ServingInv',
           \A q \in 1..Len(request) : request'[q] = "answered" =>
               (request[q] = "answered" \/ \A m \in Wanted(q) : OnChain(m.n))
    PROVE  OtelInv'
<1>1. Stays /\ ChainMarks' = ChainMarks
  BY StaysSame
<1>2. ASSUME NEW m, OnChain(m.n) PROVE OnChain(m.n)'
  BY <1>2 DEF OnChain, Entries
<1> QED BY <1>1, <1>2, OtelStep DEF OtelInv, LogsInv

\* As long as a serving connection stays as it is and so does the receiver.
LEMMA ServingSame ==
    ASSUME ServingInv, logs' = logs, chain' = chain, rv'.live = rv.live, rv'.recs = rv.recs, rv'.aside = rv.aside,
           \A k \in Slots : conn'[k].state = "serving" => conn[k].state = "serving" /\ conn'[k].req = conn[k].req
    PROVE  ServingInv'
<1>1. \A q : Wanted(q)' = Wanted(q)
  BY WantedSame
<1> SUFFICES ASSUME NEW k \in Slots, conn'[k].state = "serving", NEW m \in Wanted(conn[k].req) PROVE Served(m)'
  BY <1>1 DEF ServingInv
<1>2. Served(m)
  BY DEF ServingInv
<1> QED BY <1>2 DEF Served, OnChain, Entries

LEMMA RequestSet ==
    ASSUME request \in Requests, NEW q \in 1..Len(request), NEW v \in {"queued", "out", "answered", "dropped"}
    PROVE  /\ [request EXCEPT ![q] = v] \in Requests /\ Len([request EXCEPT ![q] = v]) = Len(request)
           /\ \A p \in 1..Len(request) : [request EXCEPT ![q] = v][p] = IF p = q THEN v ELSE request[p]
BY ExceptSeq DEF Requests

\* A connection ends.
LEMMA AnswerConns ==
    ASSUME request \in Requests, ConnsInv, NEW k \in Slots, NEW state \in {"queued", "answered"}, Answer(k, state)
    PROVE  /\ request' \in Requests /\ Len(request') = Len(request) /\ ConnsInv'
           /\ \A q \in 1..Len(request) : request'[q] = "answered" =>
                (request[q] = "answered" \/ (state = "answered" /\ q = conn[k].req))
           /\ \A j \in Slots : conn'[j].state # "free" => j # k /\ conn'[j] = conn[j]
<1>1. conn' = [conn EXCEPT ![k] = Free]
      /\ request' = IF conn[k].alive THEN [request EXCEPT ![conn[k].req] = state] ELSE request
  BY DEF Answer
<1>2. conn \in [Slots -> Conn] /\ Len(request) \in Nat
  BY OfSeq DEF ConnsInv, Requests
<1>3. Free \in Conn /\ Free.state = "free" /\ Free.req = 0 /\ Free.alive = FALSE
  BY DEF Free, Conn
<1>4. conn' \in [Slots -> Conn] /\ conn'[k] = Free /\ \A j \in Slots : j # k => conn'[j] = conn[j]
  BY <1>1, <1>2, <1>3
<1>5. conn[k].alive => conn[k].req \in 1..Len(request)
  BY DEF ConnsInv
<1>6. /\ request' \in Requests /\ Len(request') = Len(request)
      /\ \A q \in 1..Len(request) : request'[q] = "answered" =>
                (request[q] = "answered" \/ (state = "answered" /\ q = conn[k].req))
  <2>1. CASE conn[k].alive
    <3>1. PICK p \in 1..Len(request) : p = conn[k].req
      BY <1>5, <2>1
    <3>2. state \in {"queued", "out", "answered", "dropped"}
      OBVIOUS
    <3>3. /\ [request EXCEPT ![p] = state] \in Requests /\ Len([request EXCEPT ![p] = state]) = Len(request)
          /\ \A q \in 1..Len(request) : [request EXCEPT ![p] = state][q] = IF q = p THEN state ELSE request[q]
      BY <3>2, RequestSet
    <3>4. request' = [request EXCEPT ![p] = state]
      BY <1>1, <2>1, <3>1
    <3> QED BY <3>1, <3>3, <3>4
  <2>2. CASE ~conn[k].alive
    BY <1>1, <2>2
  <2> QED BY <2>1, <2>2
<1>7. ConnsInv'
  BY <1>2, <1>3, <1>4, <1>6 DEF ConnsInv
<1> QED BY <1>3, <1>4, <1>6, <1>7

LEMMA OtelLog ==
    ASSUME FeedInv, OtelInv, OLog, feed' = feed
    PROVE  FeedInv' /\ OtelInv'
<1>1. /\ Publish /\ logs' = Append(logs, Latest)
      /\ request' = IF Len(logs') % RequestSize = 0 \/ coming' = <<>> THEN Append(request, "queued") ELSE request
      /\ UNCHANGED <<conn, rv>>
  BY DEF OLog
<1>2. FeedInv' /\ Latest \in Message /\ Latest.n = sent + 1 /\ sent' = sent + 1 /\ chain' = chain /\ sent \in Nat
  BY <1>1, FeedPublish DEF FeedInv
<1>3. logs \in Batches /\ Len(logs) = sent /\ request \in Requests /\ coming # <<>>
  BY <1>1 DEF OtelInv, LogsInv, Publish
<1>4. Len(request) \in Nat /\ DOMAIN request = 1..Len(request) /\ DOMAIN logs = 1..sent
  BY <1>3, OfSeq DEF Requests, Batches
<1>5. /\ logs' \in Batches /\ Len(logs') = sent + 1 /\ DOMAIN logs' = 1..(sent + 1)
      /\ logs'[sent + 1] = Latest /\ \A i \in 1..sent : logs'[i] = logs[i]
  BY <1>1, <1>2, <1>3 DEF Batches
<1>6. Len(request) = sent \div RequestSize /\ RequestSize \in Nat \ {0}
  BY <1>3, OtelAssumption DEF OtelInv, LogsInv
<1>7. /\ request' \in Requests /\ Len(request') \in {Len(request), Len(request) + 1}
      /\ \A q \in DOMAIN request' : request'[q] = "queued" \/ (q \in DOMAIN request /\ request'[q] = request[q])
      /\ (Len(logs') % RequestSize = 0 => Len(request') = Len(request) + 1)
      /\ (Len(logs') % RequestSize # 0 /\ coming' # <<>>) => Len(request') = Len(request)
      /\ 1..Len(request) \subseteq 1..Len(request')
  <2>1. CASE request' = Append(request, "queued") /\ (Len(logs') % RequestSize = 0 \/ coming' = <<>>)
    <3>1. request' \in Requests /\ Len(request') = Len(request) + 1
          /\ \A q \in 1..(Len(request) + 1) : request'[q] = IF q = Len(request) + 1 THEN "queued" ELSE request[q]
      BY <1>3, <1>4, <2>1 DEF Requests
    <3>2. DOMAIN request' = 1..(Len(request) + 1)
      BY <3>1, OfSeq DEF Requests
    <3>3. \A q \in DOMAIN request' : request'[q] = "queued" \/ (q \in DOMAIN request /\ request'[q] = request[q])
      BY <1>4, <3>1, <3>2
    <3>4. 1..Len(request) \subseteq 1..Len(request')
      BY <1>4, <3>1
    <3> QED BY <2>1, <3>1, <3>3, <3>4, Zenon
  <2>2. CASE request' = request /\ ~(Len(logs') % RequestSize = 0 \/ coming' = <<>>)
    BY <1>3, <1>4, <2>2
  <2> QED BY <1>1, <2>1, <2>2
<1>8. coming' # <<>> => Len(request') = sent' \div RequestSize
  BY <1>2, <1>5, <1>6, <1>7, NextQuotient
<1>9. \A i \in DOMAIN logs' : logs'[i].n = i
  <2>1. \A i \in 1..sent : logs[i].n = i
    BY <1>4 DEF OtelInv, LogsInv
  <2> QED BY <1>2, <1>5, <2>1
<1>10. ChainMarks' \subseteq UidMarks'
  <2>1. ChainMarks' = ChainMarks /\ ChainMarks \subseteq UidMarks
    BY <1>2, StaysSame DEF OtelInv, LogsInv
  <2>2. UidMarks \subseteq UidMarks'
    <3> SUFFICES ASSUME NEW i \in DOMAIN logs PROVE Mark(logs[i], Uid(logs[i])) \in UidMarks'
      BY DEF UidMarks
    <3>1. i \in DOMAIN logs' /\ logs'[i] = logs[i]
      BY <1>2, <1>4, <1>5
    <3> QED BY <3>1 DEF UidMarks, Mark, Uid
  <2> QED BY <2>1, <2>2
<1>11. LogsInv'
  BY <1>2, <1>5, <1>7, <1>8, <1>9, <1>10 DEF LogsInv
\* The requests that are ready have the records they had.
<1>12. ASSUME NEW q \in 1..Len(request) PROVE Body(q)' = Body(q) /\ Wanted(q)' = Wanted(q)
  <2> DEFINE S == {i \in DOMAIN logs : (logs[i].n - 1) \div RequestSize = q - 1}
             T == {i \in DOMAIN logs' : (logs'[i].n - 1) \div RequestSize = q - 1}
  <2>1. T = S
    <3>1. (logs'[sent + 1].n - 1) \div RequestSize # q - 1
      <4>1. logs'[sent + 1].n - 1 = sent
        BY <1>2, <1>5
      <4>2. sent \div RequestSize # q - 1
        BY <1>4, <1>6
      <4> QED BY <4>1, <4>2
    <3>2. \A i : i \in 1..(sent + 1) <=> (i \in 1..sent \/ i = sent + 1)
      BY <1>2
    <3> QED BY <1>4, <1>5, <3>1, <3>2
  <2>2. IsFiniteSet(1..sent) /\ S \in SUBSET (1..sent)
    BY <1>2, <1>4, UpTo
  <2>3. IsFiniteSet(S) /\ S \subseteq Nat
    BY <1>2, <2>2, FS_Subset
  <2>4. Body(q) = Only(logs, S) /\ Body(q)' = Only(logs', T)
    BY DEF Body
  <2> HIDE DEF S, T
  <2>5. InOrder(S) \in Seq(S)
    BY <2>3, InOrderIds
  <2>6. \A k \in DOMAIN InOrder(S) : InOrder(S)[k] \in 1..sent
    BY <2>2, <2>5, OfSeq
  <2>7. \A k \in DOMAIN InOrder(S) : logs'[InOrder(S)[k]] = logs[InOrder(S)[k]]
    BY <1>5, <2>6
  <2>8. Only(logs', S) = Only(logs, S)
    BY <2>7 DEF Only
  <2>9. Body(q)' = Body(q)
    BY <2>1, <2>4, <2>8
  <2> QED BY <2>9 DEF Wanted, Valid
<1>13. ConnsInv'
  <2>1. \A n : n \in 0..Len(request) => n \in 0..Len(request')
    BY <1>4, <1>7
  <2> QED BY <1>1, <1>7, <2>1 DEF OtelInv, ConnsInv
<1>14. ReceiverInv'
  <2>1. \A j \in DOMAIN logs : j \in DOMAIN logs' /\ logs'[j] = logs[j]
    BY <1>2, <1>4, <1>5
  <2>2. rv \in ReceiverT /\ OfLogs(rv.live) /\ OfLogs(rv.recs)
    BY DEF OtelInv, ReceiverInv
  <2>3. OfLogs(rv.live)' /\ OfLogs(rv.recs)'
    BY <1>1, <2>1, <2>2 DEF OfLogs, Valid
  <2> QED BY <1>1, <2>2, <2>3 DEF ReceiverInv
<1>15. ServingInv'
  <2> SUFFICES ASSUME NEW k \in Slots, conn[k].state = "serving" PROVE (\A m \in Wanted(conn[k].req) : Served(m))'
    BY <1>1 DEF ServingInv
  <2>1. PICK q : q = conn[k].req
    OBVIOUS
  <2>2. q \in 1..Len(request)
    BY <2>1 DEF OtelInv, ConnsInv
  <2>3. Wanted(conn[k].req)' = Wanted(q)
    <3>1. Wanted(q)' = Wanted(q)
      BY <1>12, <2>2
    <3>2. Wanted(conn[k].req)' = Wanted(q)'
      BY <1>1, <2>1 DEF Wanted, Body
    <3> QED BY <3>1, <3>2
  <2>4. ASSUME NEW m \in Wanted(q) PROVE Served(m)'
    <3>1. Served(m)
      BY <2>1 DEF OtelInv, ServingInv
    <3> QED BY <1>1, <1>2, <3>1 DEF Served, OnChain, Entries
  <2> QED BY <2>3, <2>4
<1>16. OtelKept'
  <2> SUFFICES ASSUME NEW q \in DOMAIN request', request'[q] = "answered"
               PROVE  (\A i \in DOMAIN Body(q) : Valid(Body(q)[i]) => OnChain(Body(q)[i].n))'
    BY DEF OtelKept
  <2>1. q \in 1..Len(request) /\ request[q] = "answered"
    BY <1>4, <1>7
  <2>2. Body(q)' = Body(q)
    BY <1>12, <2>1
  <2>3. \A i \in DOMAIN Body(q) : Valid(Body(q)[i]) => OnChain(Body(q)[i].n)
    BY <1>4, <2>1 DEF OtelInv, OtelKept
  <2> QED BY <1>2, <2>2, <2>3 DEF OnChain, Entries, Valid
<1>17. UpInv'
  BY <1>1 DEF OtelInv, UpInv
<1> QED BY <1>2, <1>11, <1>13, <1>14, <1>15, <1>16, <1>17 DEF OtelInv

\* One connection changes.
LEMMA ConnsSet ==
    ASSUME ConnsInv, NEW k \in Slots, NEW c \in Conn, conn' = [conn EXCEPT ![k] = c],
           Len(request) \in Nat, Len(request') = Len(request), c.req \in 1..Len(request), c.state # "free",
           c.state = "serving" => \A j \in Slots : conn[j].state # "serving" \/ j = k
    PROVE  ConnsInv' /\ conn'[k] = c /\ \A j \in Slots : j # k => conn'[j] = conn[j]
<1>1. conn \in [Slots -> Conn]
  BY DEF ConnsInv
<1>2. conn' \in [Slots -> Conn] /\ conn'[k] = c /\ \A j \in Slots : j # k => conn'[j] = conn[j]
  BY <1>1
<1>3. \A j \in Slots : /\ conn'[j].req \in 0..Len(request')
                       /\ conn'[j].state # "free" => conn'[j].req \in 1..Len(request')
                       /\ conn'[j].state = "free" => ~conn'[j].alive
  BY <1>2 DEF ConnsInv
<1>4. \A j, h \in Slots : (conn'[j].state = "serving" /\ conn'[h].state = "serving") => j = h
  BY <1>2 DEF ConnsInv
<1> QED BY <1>2, <1>3, <1>4 DEF ConnsInv

LEMMA ReceiverTo ==
    ASSUME logs' = logs, rv' \in ReceiverT, NEW live, NEW recs, rv'.live = live, rv'.recs = recs, OfLogs(live), OfLogs(recs)
    PROVE  ReceiverInv'
BY DEF ReceiverInv, OfLogs, Valid

LEMMA ReceiverSame == ReceiverInv /\ UNCHANGED <<logs, rv>> => ReceiverInv'
BY DEF ReceiverInv, OfLogs, Valid

LEMMA UpSame == (OtelInv /\ rv.up /\ rv'.up) => UpInv'
BY DEF UpInv

\* A connection that is open has a process.
LEMMA UpWith == ASSUME OtelInv, NEW k \in Slots, conn[k].state # "free" PROVE rv.up
BY DEF OtelInv, UpInv

LEMMA NoRecords == <<>> \in Batches /\ OfLogs(<<>>)
BY DEF Batches, OfLogs

\* A sequence cut in two is what it was.
Parts(T, s, a, b) ==
    /\ a \in Seq(T) /\ \A j \in DOMAIN a : \E i \in DOMAIN s : a[j] = s[i]
    /\ b \in Seq(T) /\ \A j \in DOMAIN b : \E i \in DOMAIN s : b[j] = s[i]
    /\ \A i \in DOMAIN s : (\E j \in DOMAIN a : a[j] = s[i]) \/ (\E j \in DOMAIN b : b[j] = s[i])

LEMMA Cut ==
    ASSUME NEW T, NEW s \in Seq(T), NEW c \in Nat
    PROVE  Parts(T, s, SubSeq(s, 1, IF Len(s) < c THEN Len(s) ELSE c), SubSeq(s, c + 1, Len(s)))
<1>n. PICK n : n = IF Len(s) < c THEN Len(s) ELSE c
  OBVIOUS
<1>a. PICK a : a = SubSeq(s, 1, n)
  OBVIOUS
<1>b. PICK b : b = SubSeq(s, c + 1, Len(s))
  OBVIOUS
<1> DEFINE l == Len(s)
<1>0. l \in Nat /\ DOMAIN s = 1..l
  OBVIOUS
<1> HIDE DEF l
<1>1. n \in Nat /\ n <= l /\ n <= c /\ (n = c \/ n = l)
  BY <1>0, <1>n DEF l
<1>2. a \in Seq(T) /\ DOMAIN a = 1..n /\ \A j \in 1..n : a[j] = s[j]
  <2>1. 1 \in Int /\ n \in Int /\ \A j \in 1..n : j \in 1..l
    BY <1>0, <1>1
  <2>2. \A j \in 1..n : s[j] \in T
    BY <1>0, <2>1
  <2>3. /\ a \in Seq(T) /\ Len(a) = IF 1 <= n THEN n - 1 + 1 ELSE 0
        /\ \A j \in 1..(n - 1 + 1) : a[j] = s[1 + j - 1]
    BY <1>a, <2>1, <2>2, SubSeqProperties
  <2>4. n - 1 + 1 = n /\ (~(1 <= n) => n = 0) /\ \A j \in 1..n : 1 + j - 1 = j
    BY <1>1
  <2> QED BY <2>3, <2>4, OfSeq
<1>3. b \in Seq(T) /\ DOMAIN b = 1..Len(b) /\ Len(b) = (IF c < l THEN l - c ELSE 0) /\ \A j \in 1..Len(b) : b[j] = s[c + j]
  <2>1. c + 1 \in Int /\ l \in Int /\ \A j \in (c + 1)..l : j \in 1..l
    BY <1>0
  <2>2. \A j \in (c + 1)..l : s[j] \in T
    BY <1>0, <2>1
  <2>3. /\ b \in Seq(T) /\ Len(b) = IF c + 1 <= l THEN l - (c + 1) + 1 ELSE 0
        /\ \A j \in 1..(l - (c + 1) + 1) : b[j] = s[c + 1 + j - 1]
    BY <1>b, <2>1, <2>2, SubSeqProperties DEF l
  <2>4. (c + 1 <= l <=> c < l) /\ l - (c + 1) + 1 = l - c /\ \A j \in 1..(l - c) : c + 1 + j - 1 = c + j
    BY <1>0
  <2>5. Len(b) = IF c < l THEN l - c ELSE 0
    BY <2>3, <2>4
  <2>6. \A j \in 1..Len(b) : j \in 1..(l - c)
    BY <1>0, <2>5
  <2> QED BY <2>3, <2>4, <2>5, <2>6, OfSeq
<1> HIDE DEF l
<1>4. \A j \in DOMAIN a : j \in DOMAIN s
  BY <1>0, <1>1, <1>2
<1>5. \A j \in DOMAIN b : c + j \in DOMAIN s
  BY <1>0, <1>3
<1>6. ASSUME NEW i \in DOMAIN s PROVE (\E j \in DOMAIN a : a[j] = s[i]) \/ \E j \in DOMAIN b : b[j] = s[i]
  <2>0. i \in 1..l
    BY <1>0
  <2>1. CASE i <= n
    <3>1. i \in DOMAIN a
      BY <1>1, <1>2, <2>0, <2>1
    <3> QED BY <1>2, <3>1
  <2>2. CASE n < i
    <3>1. n = c /\ c < l
      BY <1>0, <1>1, <2>0, <2>2
    <3>0. l \in Int /\ i \in Int /\ c \in Int /\ c < i /\ i <= l
      BY <1>0, <2>0, <2>2, <3>1
    <3>2. i - c \in 1..(l - c) /\ c + (i - c) = i
      BY <3>0
    <3>3. Len(b) = l - c /\ DOMAIN b = 1..Len(b)
      BY <1>3, <3>1
    <3>4. i - c \in 1..Len(b)
      BY <3>2, <3>3
    <3> QED BY <1>3, <3>2, <3>3, <3>4
  <2>3. i <= n \/ n < i
    BY <1>1, <2>0
  <2> QED BY <2>1, <2>2, <2>3
<1>7. \A j \in DOMAIN a : a[j] = s[j]
  BY <1>2
<1>8. \A j \in DOMAIN b : b[j] = s[c + j]
  BY <1>3
<1>9. Parts(T, s, a, b)
  BY <1>2, <1>3, <1>4, <1>5, <1>6, <1>7, <1>8 DEF Parts
<1> QED BY <1>n, <1>a, <1>b, <1>9

\* The next chunk and what is left after it are the records, all of them.
LEMMA Chunks ==
    ASSUME rv \in ReceiverT, NEW recs \in Batches, OfLogs(recs)
    PROVE  /\ NextChunk(recs) \in ReceiverT
           /\ OfLogs(NextChunk(recs).live) /\ OfLogs(NextChunk(recs).recs)
           /\ \A i \in DOMAIN recs :
                \/ \E j \in DOMAIN NextChunk(recs).live : NextChunk(recs).live[j] = recs[i]
                \/ \E j \in DOMAIN NextChunk(recs).recs : NextChunk(recs).recs[j] = recs[i]
<1>1. PICK n : n = IF Len(recs) < ChunkSize THEN Len(recs) ELSE ChunkSize
  OBVIOUS
<1>2. PICK a : a = SubSeq(recs, 1, n)
  OBVIOUS
<1>3. PICK b : b = SubSeq(recs, ChunkSize + 1, Len(recs))
  OBVIOUS
<1>4. /\ a \in Seq(Message) /\ \A j \in DOMAIN a : \E i \in DOMAIN recs : a[j] = recs[i]
      /\ b \in Seq(Message) /\ \A j \in DOMAIN b : \E i \in DOMAIN recs : b[j] = recs[i]
      /\ \A i \in DOMAIN recs : (\E j \in DOMAIN a : a[j] = recs[i]) \/ (\E j \in DOMAIN b : b[j] = recs[i])
  <2>1. ChunkSize \in Nat /\ recs \in Seq(Message)
    BY OtelAssumption DEF Batches
  <2>2. Parts(Message, recs, a, b)
    BY <1>1, <1>2, <1>3, <2>1, Cut
  <2> QED BY <2>2 DEF Parts
<1>5. OfLogs(a) /\ OfLogs(b)
  BY <1>4 DEF OfLogs
<1>6. NextChunk(recs) = [rv EXCEPT !.live = a, !.recs = b, !.aside = FALSE]
  BY <1>1, <1>2, <1>3 DEF NextChunk
<1>7. NextChunk(recs) \in ReceiverT /\ NextChunk(recs).live = a /\ NextChunk(recs).recs = b
  BY <1>4, <1>6 DEF ReceiverT, Batches
<1> QED BY <1>4, <1>5, <1>7

-----------------------------------------------------------------------------

LEMMA OtelPost ==
    ASSUME FeedInv, OtelInv, NEW k \in Slots, NEW q, OPost(k, q), feed' = feed
    PROVE  FeedInv' /\ OtelInv'
<1>1. /\ q \in DOMAIN request /\ conn[k] = Free
      /\ conn' = [conn EXCEPT ![k] = [state |-> "waiting", req |-> q, alive |-> TRUE]]
      /\ request' = [request EXCEPT ![q] = "out"]
      /\ UNCHANGED <<feedVars, logs, rv>>
  BY DEF OPost
<1>2. FeedInv' /\ chain' = chain /\ sent' = sent /\ coming' = coming
  BY <1>1, FeedQuiet, SameQuiet DEF feedVars
<1>3. request \in Requests /\ ConnsInv /\ ReceiverInv /\ ServingInv
  BY DEF OtelInv, LogsInv
<1>4. q \in 1..Len(request) /\ Len(request) \in Nat
  BY <1>1, <1>3, OfSeq DEF Requests
<1>5. request' \in Requests /\ Len(request') = Len(request) /\ \A p \in 1..Len(request) : request'[p] = "answered" => request[p] = "answered"
  BY <1>1, <1>3, <1>4, RequestSet
<1>6. PICK c \in Conn : c = [state |-> "waiting", req |-> q, alive |-> TRUE]
  <2>1. [state |-> "waiting", req |-> q, alive |-> TRUE] \in Conn
    BY <1>4 DEF Conn
  <2> QED BY <2>1
<1>7. ConnsInv' /\ conn'[k] = c /\ \A j \in Slots : j # k => conn'[j] = conn[j]
  BY <1>1, <1>3, <1>4, <1>5, <1>6, ConnsSet
<1>8. \A j \in Slots : conn'[j].state = "serving" => conn[j].state = "serving" /\ conn'[j].req = conn[j].req
  BY <1>6, <1>7
<1>9. ServingInv'
  BY <1>1, <1>2, <1>3, <1>8, ServingSame
<1>10. ReceiverInv'
  BY <1>1, <1>3, ReceiverSame
<1>11. UpInv'
  BY <1>1, UpSame DEF OPost, OtelInv, UpInv
<1> QED BY <1>1, <1>2, <1>5, <1>7, <1>9, <1>10, <1>11, OtelQuiet

LEMMA OtelTimeout ==
    ASSUME FeedInv, OtelInv, NEW k \in Slots, OTimeout(k), feed' = feed
    PROVE  FeedInv' /\ OtelInv'
<1>1. /\ conn[k].alive /\ Fault
      /\ conn' = [conn EXCEPT ![k].alive = FALSE]
      /\ request' = [request EXCEPT ![conn[k].req] = "queued"]
      /\ UNCHANGED <<chain, coming, sent, stuck, logs, rv>>
  BY DEF OTimeout
<1>2. FeedInv'
  BY <1>1, FeedQuiet, FaultQuiet
<1>3. request \in Requests /\ ConnsInv /\ ReceiverInv /\ ServingInv
  BY DEF OtelInv, LogsInv
<1>4. Len(request) \in Nat /\ conn \in [Slots -> Conn]
  BY <1>3, OfSeq DEF Requests, ConnsInv
<1>5. conn[k].state # "free" /\ conn[k].req \in 1..Len(request)
  BY <1>1, <1>3 DEF ConnsInv
<1>6. PICK q \in 1..Len(request) : q = conn[k].req
  BY <1>5
<1>7. request' \in Requests /\ Len(request') = Len(request) /\ \A p \in 1..Len(request) : request'[p] = "answered" => request[p] = "answered"
  <2>1. request' = [request EXCEPT ![q] = "queued"]
    BY <1>1, <1>6
  <2>2. /\ [request EXCEPT ![q] = "queued"] \in Requests /\ Len([request EXCEPT ![q] = "queued"]) = Len(request)
        /\ \A p \in 1..Len(request) : [request EXCEPT ![q] = "queued"][p] = IF p = q THEN "queued" ELSE request[p]
    BY <1>3, RequestSet
  <2> QED BY <2>1, <2>2
<1>8. PICK c \in Conn : c = [conn[k] EXCEPT !.alive = FALSE]
  BY <1>4 DEF Conn
<1>9. c.req = q /\ c.state = conn[k].state /\ conn' = [conn EXCEPT ![k] = c]
  BY <1>1, <1>4, <1>6, <1>8 DEF Conn
<1>10. c.state = "serving" => \A j \in Slots : conn[j].state # "serving" \/ j = k
  BY <1>3, <1>9 DEF ConnsInv
<1>11. ConnsInv' /\ conn'[k] = c /\ \A j \in Slots : j # k => conn'[j] = conn[j]
  BY <1>3, <1>4, <1>5, <1>6, <1>7, <1>9, <1>10, ConnsSet
<1>12. \A j \in Slots : conn'[j].state = "serving" => conn[j].state = "serving" /\ conn'[j].req = conn[j].req
  BY <1>6, <1>9, <1>11
<1>13. ServingInv'
  BY <1>1, <1>3, <1>12, ServingSame
<1>14. ReceiverInv'
  BY <1>1, <1>3, ReceiverSame
<1>15. UpInv'
  BY <1>1, <1>5, UpWith, UpSame
<1> QED BY <1>1, <1>2, <1>7, <1>11, <1>13, <1>14, <1>15, OtelQuiet

\* The collector gives a request up.
LEMMA OtelDrop ==
    ASSUME FeedInv, OtelInv, NEW q \in DOMAIN request, ODrop(q), feed' = feed
    PROVE  FeedInv' /\ OtelInv'
<1>1. /\ Fault /\ request' = [request EXCEPT ![q] = "dropped"]
      /\ UNCHANGED <<chain, coming, sent, stuck, logs, conn, rv>>
  BY DEF ODrop
<1>2. FeedInv'
  BY <1>1, FeedQuiet, FaultQuiet
<1>3. request \in Requests /\ ConnsInv /\ ReceiverInv /\ ServingInv
  BY DEF OtelInv, LogsInv
<1>4. q \in 1..Len(request)
  BY <1>3, OfSeq DEF Requests
<1>5. request' \in Requests /\ Len(request') = Len(request) /\ \A p \in 1..Len(request) : request'[p] = "answered" => request[p] = "answered"
  BY <1>1, <1>3, <1>4, RequestSet
<1>6. ConnsInv'
  BY <1>1, <1>3, <1>5 DEF ConnsInv
<1>7. ServingInv'
  BY <1>1, <1>3, ServingSame
<1>8. ReceiverInv'
  BY <1>1, <1>3, ReceiverSame
<1>9. UpInv'
  BY <1>1 DEF OtelInv, UpInv
<1> QED BY <1>1, <1>2, <1>5, <1>6, <1>7, <1>8, <1>9, OtelQuiet

LEMMA OtelServe ==
    ASSUME FeedInv, OtelInv, NEW k \in Slots, OServe(k), feed' = feed
    PROVE  FeedInv' /\ OtelInv'
<1>0. PICK recs : recs = Valids(Body(conn[k].req))
  OBVIOUS
<1>1. /\ conn[k].state = "waiting" /\ ~Serving /\ UNCHANGED <<feedVars, logs>>
      /\ \/ (rv.dead \/ ~conn[k].alive) /\ Answer(k, "queued") /\ UNCHANGED rv
         \/ ~rv.dead /\ conn[k].alive /\ recs = <<>> /\ Answer(k, "answered") /\ UNCHANGED rv
         \/ /\ conn' = [conn EXCEPT ![k].state = "serving"] /\ rv' = NextChunk(recs) /\ UNCHANGED request
  BY <1>0, Zenon DEF OServe
<1>2. FeedInv' /\ chain' = chain /\ sent' = sent /\ coming' = coming /\ logs' = logs
  BY <1>1, FeedQuiet, SameQuiet DEF feedVars
<1>3. request \in Requests /\ ConnsInv /\ ReceiverInv /\ ServingInv /\ logs \in Batches
  BY DEF OtelInv, LogsInv
<1>4. Len(request) \in Nat /\ conn \in [Slots -> Conn] /\ conn[k].req \in 1..Len(request)
  BY <1>1, <1>3, OfSeq DEF Requests, ConnsInv
<1>5. PICK q \in 1..Len(request) : q = conn[k].req
  BY <1>4
<1>6. /\ Body(q) \in Batches /\ \A i \in DOMAIN Body(q) : \E j \in DOMAIN logs : Body(q)[i] = logs[j]
  BY <1>3, BodyOf
<1>7. /\ recs \in Batches
      /\ \A i \in DOMAIN recs : \E j \in DOMAIN Body(q) : recs[i] = Body(q)[j] /\ Valid(Body(q)[j])
      /\ \A j \in DOMAIN Body(q) : Valid(Body(q)[j]) => \E i \in DOMAIN recs : recs[i] = Body(q)[j]
  <2>1. recs = Valids(Body(q))
    BY <1>0, <1>5
  <2> QED BY <1>6, <2>1, ValidsAre
<1>13. rv.up
  BY <1>1, UpWith
\* An answer.
<1>8. ASSUME NEW state \in {"queued", "answered"}, Answer(k, state), UNCHANGED rv, state = "answered" => recs = <<>>
      PROVE  OtelInv'
  <2>1. /\ request' \in Requests /\ Len(request') = Len(request) /\ ConnsInv'
        /\ \A p \in 1..Len(request) : request'[p] = "answered" =>
             (request[p] = "answered" \/ (state = "answered" /\ p = q))
        /\ \A j \in Slots : conn'[j].state # "free" => j # k /\ conn'[j] = conn[j]
    BY <1>3, <1>5, <1>8, AnswerConns
  <2>2. state = "answered" => Wanted(q) = {}
    BY <1>7, <1>8 DEF Wanted
  <2>3. \A p \in 1..Len(request) : request'[p] = "answered" => (request[p] = "answered" \/ \A m \in Wanted(p) : OnChain(m.n))
    BY <2>1, <2>2
  <2>4. ServingInv'
    BY <1>2, <1>3, <1>8, <2>1, ServingSame
  <2>5. ReceiverInv'
    BY <1>2, <1>3, <1>8, ReceiverSame
  <2>6. UpInv'
    BY <1>8, <1>13, UpSame
  <2> QED BY <1>2, <2>1, <2>3, <2>4, <2>5, <2>6, OtelQuiet
<1>9. ASSUME conn' = [conn EXCEPT ![k].state = "serving"], rv' = NextChunk(recs), UNCHANGED request
      PROVE  OtelInv'
  <2>1. PICK c : c = [conn[k] EXCEPT !.state = "serving"]
    OBVIOUS
  <2>2. c \in Conn /\ c.req = q /\ c.state = "serving" /\ conn' = [conn EXCEPT ![k] = c]
    BY <1>4, <1>5, <1>9, <2>1 DEF Conn
  <2>3. \A j \in Slots : conn[j].state # "serving"
    BY <1>1 DEF Serving
  <2>4. ConnsInv' /\ conn'[k] = c /\ \A j \in Slots : j # k => conn'[j] = conn[j]
    BY <1>3, <1>4, <1>9, <2>2, <2>3, ConnsSet
  <2>5. OfLogs(recs)
    <3> SUFFICES ASSUME NEW i \in DOMAIN recs PROVE Valid(recs[i]) /\ \E j \in DOMAIN logs : recs[i] = logs[j]
      BY DEF OfLogs
    <3>1. PICK j \in DOMAIN Body(q) : recs[i] = Body(q)[j] /\ Valid(Body(q)[j])
      BY <1>7
    <3> QED BY <1>6, <3>1
  <2>6. rv \in ReceiverT
    BY <1>3 DEF ReceiverInv
  <2>7. PICK next : next = NextChunk(recs)
    OBVIOUS
  <2>8. /\ next \in ReceiverT /\ OfLogs(next.live) /\ OfLogs(next.recs)
        /\ \A i \in DOMAIN recs : (\E j \in DOMAIN next.live : next.live[j] = recs[i])
                                  \/ (\E j \in DOMAIN next.recs : next.recs[j] = recs[i])
    BY <1>7, <2>5, <2>6, <2>7, Chunks
  <2>9. rv' = next
    BY <1>9, <2>7
  <2>10. ReceiverInv'
    BY <1>2, <2>8, <2>9, ReceiverTo
  <2>11. ServingInv'
    <3>1. \A j \in Slots : conn'[j].state = "serving" => j = k
      BY <2>2, <2>3, <2>4
    <3>2. \A p : Wanted(p)' = Wanted(p)
      BY <1>2, WantedSame
    <3>3. ASSUME NEW m \in Wanted(q) PROVE Served(m)'
      <4>1. PICK i \in DOMAIN recs : recs[i] = m
        BY <1>7 DEF Wanted
      <4> QED BY <2>8, <2>9, <4>1 DEF Served
    <3>4. conn'[k].req = q
      BY <2>2, <2>4
    <3> SUFFICES ASSUME NEW j \in Slots, conn'[j].state = "serving" PROVE (\A m \in Wanted(conn[j].req) : Served(m))'
      BY DEF ServingInv
    <3>5. conn'[j].req = q
      BY <3>1, <3>4
    <3>6. Wanted(conn[j].req)' = Wanted(q)'
      BY <3>5 DEF Wanted, Body
    <3> QED BY <3>2, <3>3, <3>6
  <2>12. request' \in Requests /\ Len(request') = Len(request) /\ \A p \in 1..Len(request) : request'[p] = "answered" => request[p] = "answered"
    BY <1>3, <1>9
  <2>13. UpInv'
    <3>1. rv'.up = rv.up
      BY <1>9, <2>6 DEF NextChunk, ReceiverT
    <3> QED BY <1>13, <3>1, UpSame
  <2> QED BY <1>2, <2>4, <2>10, <2>11, <2>12, <2>13, OtelQuiet
<1>10. "queued" \in {"queued", "answered"} /\ "answered" \in {"queued", "answered"} /\ "queued" # "answered"
  OBVIOUS
<1>11. CASE Answer(k, "queued") /\ UNCHANGED rv
  BY <1>2, <1>8, <1>10, <1>11
<1>12. CASE recs = <<>> /\ Answer(k, "answered") /\ UNCHANGED rv
  BY <1>2, <1>8, <1>10, <1>12
<1> QED BY <1>1, <1>2, <1>9, <1>11, <1>12

\* The receiver closes, goes or comes back: what it keeps is as it was, or nothing is
\* served.
LEMMA OtelLife ==
    ASSUME FeedInv, OtelInv, OClose \/ OExit \/ OStart, feed' = feed
    PROVE  FeedInv' /\ OtelInv'
<1>1. UNCHANGED <<chain, coming, sent, stuck, logs, request, conn>> /\ Quiet
  BY FaultQuiet, SameQuiet DEF OClose, OExit, OStart, feedVars, Fault
<1>2. FeedInv'
  BY <1>1, FeedQuiet
<1>3. request \in Requests /\ ConnsInv /\ ReceiverInv /\ ServingInv
  BY DEF OtelInv, LogsInv
<1>4. ConnsInv'
  BY <1>1, <1>3 DEF ConnsInv
<1>5. rv \in ReceiverT
  BY <1>3 DEF ReceiverInv
<1>6. Receiver \in ReceiverT /\ Off \in ReceiverT /\ Receiver.live = <<>> /\ Receiver.recs = <<>> /\ Off.live = <<>> /\ Off.recs = <<>>
  BY NoRecords DEF Receiver, Off, ReceiverT
<1>7. CASE OClose
  <2>1. rv' = [rv EXCEPT !.open = FALSE]
    BY <1>7 DEF OClose
  <2>2. rv' \in ReceiverT /\ rv'.live = rv.live /\ rv'.recs = rv.recs /\ rv'.aside = rv.aside
    BY <1>5, <2>1 DEF ReceiverT
  <2>3. ReceiverInv'
    BY <1>1, <1>3, <2>2, ReceiverTo DEF ReceiverInv
  <2>4. ServingInv'
    BY <1>1, <1>3, <2>2, ServingSame
  <2>5. UpInv'
    <3>1. rv'.up = rv.up /\ ~rv'.open
      BY <1>5, <2>1 DEF ReceiverT
    <3> QED BY <1>1, <3>1 DEF OtelInv, UpInv
  <2> QED BY <1>1, <1>2, <1>3, <1>4, <2>3, <2>4, <2>5, OtelQuiet
<1>8. CASE OExit \/ OStart
  <2>1. rv' \in {Receiver, Off}
    BY <1>8 DEF OExit, OStart
  <2>2. ReceiverInv'
    BY <1>1, <1>6, <2>1, NoRecords, ReceiverTo
  <2>4. \A k \in Slots : conn[k].state = "free"
    BY <1>8 DEF OExit, OStart, OtelInv, UpInv, Free
  <2>3. ServingInv'
    BY <1>1, <2>4 DEF ServingInv
  <2>5. UpInv'
    <3>1. Receiver.up /\ ~Off.open
      BY DEF Receiver, Off
    <3> QED BY <1>1, <2>1, <2>4, <3>1 DEF UpInv
  <2> QED BY <1>1, <1>2, <1>3, <1>4, <2>2, <2>3, <2>5, OtelQuiet
<1> QED BY <1>7, <1>8

LEMMA OtelDie ==
    ASSUME FeedInv, OtelInv, ODie, feed' = feed
    PROVE  FeedInv' /\ OtelInv'
<1>1. /\ Fault /\ rv' = Off /\ conn' = [k \in Slots |-> Free]
      /\ request' = [q \in DOMAIN request |-> IF request[q] = "out" THEN "queued" ELSE request[q]]
      /\ UNCHANGED <<chain, coming, sent, stuck, logs>>
  BY DEF ODie
<1>2. FeedInv'
  BY <1>1, FeedQuiet, FaultQuiet
<1>3. request \in Requests /\ ReceiverInv
  BY DEF OtelInv, LogsInv
<1>4. Len(request) \in Nat /\ DOMAIN request = 1..Len(request)
      /\ \A q \in 1..Len(request) : request[q] \in {"queued", "out", "answered", "dropped"}
  BY <1>3, OfSeq DEF Requests
<1>5. /\ request' \in Requests /\ Len(request') = Len(request)
      /\ \A p \in 1..Len(request) : request'[p] = "answered" => request[p] = "answered"
  <2>1. request' = [q \in 1..Len(request) |-> IF request[q] = "out" THEN "queued" ELSE request[q]]
    BY <1>1, <1>4
  <2> QED BY <1>4, <2>1 DEF Requests
<1>6. Free \in Conn /\ Free.state = "free" /\ Free.req = 0 /\ ~Free.alive
  BY DEF Free, Conn
<1>7. conn' \in [Slots -> Conn] /\ \A k \in Slots : conn'[k] = Free
  BY <1>1, <1>6
<1>8. ConnsInv'
  BY <1>4, <1>5, <1>6, <1>7 DEF ConnsInv
<1>9. UpInv' /\ ServingInv'
  BY <1>1, <1>6, <1>7 DEF UpInv, ServingInv, Off, Receiver
<1>10. Off \in ReceiverT /\ Off.live = <<>> /\ Off.recs = <<>>
  BY NoRecords DEF Receiver, Off, ReceiverT
<1>11. ReceiverInv'
  BY <1>1, <1>10, NoRecords, ReceiverTo
<1> QED BY <1>1, <1>2, <1>5, <1>8, <1>9, <1>11, OtelQuiet

\* The records of a call, each under its uid.
LEMMA UidRecords ==
    ASSUME FeedInv, OtelInv, NEW recs, recs = [i \in DOMAIN rv.live |-> Record(rv.live[i], Uid(rv.live[i]))]
    PROVE  /\ OfPublished(recs) /\ MarksOf(recs) \subseteq UidMarks /\ OneToOne(UidMarks)
           /\ DOMAIN recs = DOMAIN rv.live /\ \A i \in DOMAIN rv.live : recs[i].n = rv.live[i].n
<1>1. logs \in Batches /\ Len(logs) = sent /\ (\A i \in DOMAIN logs : logs[i].n = i) /\ OfLogs(rv.live) /\ rv \in ReceiverT
  BY DEF OtelInv, LogsInv, ReceiverInv
<1>2. DOMAIN logs = 1..sent /\ \A j \in DOMAIN logs : logs[j] \in Message
  BY <1>1, OfSeq DEF Batches
<1>3. PICK live \in Batches : live = rv.live
  BY <1>1 DEF ReceiverT
<1>4. Len(live) \in Nat /\ DOMAIN live = 1..Len(live)
  BY OfSeq DEF Batches
<1>5. ASSUME NEW i \in 1..Len(live)
      PROVE  /\ recs[i] \in Recs /\ recs[i].n \in 1..sent /\ recs[i].n = live[i].n
             /\ Mark(recs[i], recs[i].source) \in UidMarks
  <2>1. Valid(live[i]) /\ \E j \in DOMAIN logs : live[i] = logs[j]
    BY <1>1, <1>3, <1>4 DEF OfLogs
  <2>2. PICK j \in DOMAIN logs : live[i] = logs[j]
    BY <2>1
  <2>3. recs[i] = Record(logs[j], Uid(logs[j])) /\ Valid(logs[j]) /\ logs[j] \in Message /\ logs[j].n = j /\ j \in 1..sent
    BY <1>1, <1>2, <1>3, <1>4, <2>1, <2>2
  <2>4. Uid(logs[j]) \in Sources
    BY <2>3 DEF Uid, Sources
  <2>5. PICK m \in Message : m = logs[j]
    BY <2>3
  <2>6. PICK u \in Sources : u = Uid(logs[j])
    BY <2>4
  <2>7. /\ Record(m, u) \in Recs /\ Mark(Record(m, u), Record(m, u).source) = Mark(m, u)
        /\ Record(m, u).n = m.n
    BY <2>3, <2>5, RecordType
  <2>8. Mark(m, u) \in UidMarks
    BY <2>5, <2>6 DEF UidMarks
  <2> QED BY <2>2, <2>3, <2>5, <2>6, <2>7, <2>8
<1>6. recs = [i \in 1..Len(live) |-> Record(live[i], Uid(live[i]))]
  BY <1>3, <1>4
<1>7. DOMAIN recs = 1..Len(live) /\ Len(recs) = Len(live)
  BY <1>4, <1>6
<1>8. recs \in Seq(Recs)
  <2>1. [i \in 1..Len(live) |-> recs[i]] \in Seq(Recs)
    BY <1>4, <1>5, IsSeq
  <2>2. recs = [i \in 1..Len(live) |-> recs[i]]
    BY <1>6
  <2> QED BY <2>1, <2>2
<1>9. OneToOne(UidMarks)
  <2> SUFFICES ASSUME NEW s \in UidMarks, NEW t \in UidMarks, s.n = t.n \/ s.source = t.source PROVE s = t
    BY DEF OneToOne
  <2>3. PICK i \in DOMAIN logs : s = Mark(logs[i], Uid(logs[i]))
    BY DEF UidMarks
  <2>4. PICK j \in DOMAIN logs : t = Mark(logs[j], Uid(logs[j]))
    BY DEF UidMarks
  <2>1. s.n = i /\ s.source = <<"otel", i>> /\ t.n = j /\ t.source = <<"otel", j>>
    BY <1>1, <2>3, <2>4 DEF Mark, Uid
  <2>2. i = j
    BY <2>1
  <2> QED BY <2>2, <2>3, <2>4
<1>10. OfPublished(recs) /\ MarksOf(recs) \subseteq UidMarks
  BY <1>5, <1>7, <1>8 DEF OfPublished, MarksOf
<1> QED BY <1>3, <1>4, <1>5, <1>7, <1>9, <1>10

\* One Commit, and what the receiver does with its result.
LEMMA OtelCommit ==
    ASSUME FeedInv, OtelInv, NEW k \in Slots, OCommit(k), feed' = feed
    PROVE  FeedInv' /\ OtelInv'
<1>0. PICK recs : recs = [i \in DOMAIN rv.live |-> Record(rv.live[i], Uid(rv.live[i]))]
  OBVIOUS
<1>1. PICK r \in CommitResults(recs) :
        /\ conn[k].state = "serving" /\ Returned(r) /\ logs' = logs
        /\ \/ r.out = "config" /\ Answer(k, "queued") /\ rv' = [Done EXCEPT !.dead = TRUE]
           \/ SetAside(r) /\ rv' = [rv EXCEPT !.live = SansSubject(@, r.pair), !.aside = TRUE] /\ UNCHANGED <<conn, request>>
           \/ r.out # "config" /\ ~SetAside(r) /\ Finish(k, r.out = "ok")
  BY <1>0, Zenon DEF OCommit
<1>2. request \in Requests /\ ConnsInv /\ ReceiverInv /\ ServingInv /\ logs \in Batches /\ ChainMarks \subseteq UidMarks
  BY DEF OtelInv, LogsInv
<1>3. rv \in ReceiverT /\ OfLogs(rv.live) /\ OfLogs(rv.recs)
  BY <1>2 DEF ReceiverInv
<1>4. chain \in Seq(Recs) /\ Once /\ spare \in Nat
  <2>1. MaxFaults[feed] \in Nat
    BY FeedersAssumption DEF FeedInv
  <2> QED BY <2>1 DEF FeedInv
<1>5. /\ OfPublished(recs) /\ MarksOf(recs) \subseteq UidMarks /\ OneToOne(UidMarks)
      /\ DOMAIN recs = DOMAIN rv.live /\ \A i \in DOMAIN rv.live : recs[i].n = rv.live[i].n
  BY <1>0, UidRecords
<1>6. /\ GrowsBy(recs) /\ Once' /\ ChainMarks' \subseteq UidMarks
      /\ r.out = "ok" => \A i \in DOMAIN recs : OnChain(recs[i].n)'
      /\ spare' \in 0..spare /\ UNCHANGED <<coming, sent, stuck>>
  BY <1>1, <1>2, <1>4, <1>5, CommitReturns DEF OfPublished
<1>7. FeedInv'
  BY <1>5, <1>6, FeedGrown
<1>8. Stays
  BY <1>4, <1>6, Grown DEF Stays
<1>9. ASSUME r.out = "ok", NEW i \in DOMAIN rv.live, NEW m, m = rv.live[i] PROVE OnChain(m.n)'
  <2>1. PICK n : n = recs[i].n
    OBVIOUS
  <2>2. OnChain(recs[i].n)'
    BY <1>5, <1>6, <1>9
  <2>3. OnChain(n)'
    <3>1. recs[i].n = n
      BY <2>1
    <3> QED BY <2>2, <3>1 DEF OnChain
  <2>4. n = m.n
    BY <1>5, <1>9, <2>1
  <2> QED BY <2>3, <2>4 DEF OnChain
<1>10. rv.up
  BY <1>1, UpWith
<1>11. PICK q \in 1..Len(request) : q = conn[k].req
  BY <1>1, <1>2 DEF ConnsInv
<1>12. \A p : Wanted(p)' = Wanted(p)
  BY <1>1, WantedSame
\* After an answer nothing is served.
<1>13. ASSUME NEW state \in {"queued", "answered"}, Answer(k, state), NEW after, rv' = after, after \in {Done, [Done EXCEPT !.dead = TRUE]},
              state = "answered" => \A m \in Wanted(q) : OnChain(m.n)'
       PROVE  OtelInv'
  <2>1. /\ request' \in Requests /\ Len(request') = Len(request) /\ ConnsInv'
        /\ \A p \in 1..Len(request) : request'[p] = "answered" =>
             (request[p] = "answered" \/ (state = "answered" /\ p = conn[k].req))
        /\ \A j \in Slots : conn'[j].state # "free" => j # k /\ conn'[j] = conn[j]
    BY <1>2, <1>13, AnswerConns
  <2>2. \A p \in 1..Len(request) : request'[p] = "answered" =>
             (request[p] = "answered" \/ \A m \in Wanted(p) : OnChain(m.n)')
    BY <1>11, <1>13, <2>1
  <2>3. \A j \in Slots : conn'[j].state # "serving"
    BY <1>1, <1>2, <2>1 DEF ConnsInv
  <2>4. ServingInv'
    BY <2>3 DEF ServingInv
  <2>5. after \in ReceiverT /\ after.live = <<>> /\ after.recs = <<>> /\ after.up = rv.up
    BY <1>3, <1>13, NoRecords DEF Done, ReceiverT
  <2>6. ReceiverInv'
    BY <1>1, <1>13, <2>5, NoRecords, ReceiverTo
  <2>7. UpInv'
    BY <1>10, <1>13, <2>5, UpSame
  <2> QED BY <1>1, <1>6, <1>8, <2>1, <2>2, <2>4, <2>6, <2>7, OtelStep
\* While the request is worked on.
<1>14. ASSUME UNCHANGED <<conn, request>>, NEW after \in ReceiverT, rv' = after, after.up = rv.up, OfLogs(after.live), OfLogs(after.recs),
              \A m \in Wanted(q) : Served(m)'
       PROVE  OtelInv'
  <2>1. ReceiverInv'
    BY <1>1, <1>14, ReceiverTo
  <2>2. UpInv'
    BY <1>10, <1>14, UpSame
  <2>3. ConnsInv'
    BY <1>2, <1>14 DEF ConnsInv
  <2>4. ServingInv'
    <3> SUFFICES ASSUME NEW j \in Slots, conn[j].state = "serving" PROVE (\A m \in Wanted(conn[j].req) : Served(m))'
      BY <1>14 DEF ServingInv
    <3>1. j = k
      BY <1>1, <1>2 DEF ConnsInv
    <3>2. conn'[j].req = q
      BY <1>11, <1>14, <3>1
    <3>3. Wanted(conn[j].req)' = Wanted(q)'
      BY <3>2 DEF Wanted, Body
    <3> QED BY <1>12, <1>14, <3>3
  <2> QED BY <1>1, <1>2, <1>6, <1>8, <1>14, <2>1, <2>2, <2>3, <2>4, OtelStep
<1>15. ASSUME NEW m \in Wanted(q) PROVE Served(m)
  BY <1>1, <1>2, <1>11 DEF ServingInv
<1>16. CASE r.out = "config" /\ Answer(k, "queued") /\ rv' = [Done EXCEPT !.dead = TRUE]
  <2>1. "queued" \in {"queued", "answered"} /\ "queued" # "answered"
    OBVIOUS
  <2> QED BY <1>7, <1>13, <1>16, <2>1
<1>17. CASE SetAside(r) /\ rv' = [rv EXCEPT !.live = SansSubject(@, r.pair), !.aside = TRUE] /\ UNCHANGED <<conn, request>>
  <2>1. PICK live : live = SansSubject(rv.live, r.pair)
    OBVIOUS
  <2>2. rv.live \in Batches
    BY <1>3 DEF ReceiverT
  <2>3. /\ live \in Batches /\ \A i \in DOMAIN live : \E j \in DOMAIN rv.live : live[i] = rv.live[j]
    BY <2>1, <2>2, SansSubjectOf
  <2>4. OfLogs(live)
    BY <1>3, <2>3 DEF OfLogs
  <2>5. PICK after : after = [rv EXCEPT !.live = live, !.aside = TRUE]
    OBVIOUS
  <2>6. after \in ReceiverT /\ after.up = rv.up /\ after.live = live /\ after.recs = rv.recs /\ after.aside = TRUE
    BY <1>3, <2>3, <2>5 DEF ReceiverT
  <2>7. rv' = after
    BY <1>17, <2>1, <2>5
  <2>8. \A m \in Wanted(q) : Served(m)'
    BY <2>6, <2>7 DEF Served
  <2> QED BY <1>3, <1>7, <1>14, <1>17, <2>4, <2>6, <2>7, <2>8
<1>18. CASE Finish(k, r.out = "ok")
  <2>1. CASE rv.recs # <<>> /\ r.out = "ok" /\ ~rv.aside /\ rv' = NextChunk(rv.recs) /\ UNCHANGED <<conn, request>>
    <3>1. PICK next : next = NextChunk(rv.recs)
      OBVIOUS
    <3>2. PICK left \in Batches : left = rv.recs
      BY <1>3 DEF ReceiverT
    <3>3. /\ next \in ReceiverT /\ OfLogs(next.live) /\ OfLogs(next.recs)
          /\ \A i \in DOMAIN left : (\E j \in DOMAIN next.live : next.live[j] = left[i])
                                    \/ (\E j \in DOMAIN next.recs : next.recs[j] = left[i])
      BY <1>3, <3>1, <3>2, Chunks
    <3>4. rv' = next /\ next.up = rv.up
      BY <1>3, <2>1, <3>1 DEF NextChunk, ReceiverT
    <3>5. ASSUME NEW m \in Wanted(q) PROVE Served(m)'
      <4>1. CASE OnChain(m.n)
        <5>1. PICK n : n = m.n
          OBVIOUS
        <5>2. OnChain(n)'
          BY <1>8, <4>1, <5>1 DEF Stays
        <5> QED BY <5>1, <5>2 DEF Served, OnChain
      <4>2. CASE \E i \in DOMAIN rv.live : rv.live[i] = m
        BY <1>9, <2>1, <4>2 DEF Served
      <4>3. CASE \E i \in DOMAIN rv.recs : rv.recs[i] = m
        BY <3>2, <3>3, <3>4, <4>3 DEF Served
      <4> QED BY <1>15, <2>1, <4>1, <4>2, <4>3 DEF Served
    <3> QED BY <1>7, <1>14, <2>1, <3>3, <3>4, <3>5
  <2>2. CASE /\ ~(rv.recs # <<>> /\ r.out = "ok" /\ ~rv.aside)
             /\ Answer(k, IF r.out = "ok" /\ ~rv.aside THEN "answered" ELSE "queued") /\ rv' = Done
    <3>1. PICK state : state = IF r.out = "ok" /\ ~rv.aside THEN "answered" ELSE "queued"
      OBVIOUS
    <3>2. state \in {"queued", "answered"} /\ (state = "answered" => r.out = "ok" /\ ~rv.aside)
      BY <3>1
    <3>3. Answer(k, state)
      BY <2>2, <3>1
    <3>4. ASSUME state = "answered", NEW m \in Wanted(q) PROVE OnChain(m.n)'
      <4>0. r.out = "ok" /\ ~rv.aside /\ rv.recs = <<>>
        BY <2>2, <3>2, <3>4
      <4>1. CASE OnChain(m.n)
        <5>1. PICK n : n = m.n
          OBVIOUS
        <5>2. OnChain(n)'
          BY <1>8, <4>1, <5>1 DEF Stays
        <5> QED BY <5>1, <5>2 DEF OnChain
      <4>2. CASE \E i \in DOMAIN rv.live : rv.live[i] = m
        BY <1>9, <4>0, <4>2
      <4> QED BY <1>15, <4>0, <4>1, <4>2 DEF Served
    <3> QED BY <1>7, <1>13, <2>2, <3>2, <3>3, <3>4
  <2> QED BY <1>18, <2>1, <2>2 DEF Finish
<1> QED BY <1>1, <1>16, <1>17, <1>18

\* Every step keeps them.
LEMMA OtelSteps ==
    ASSUME FeedInv, OtelInv, OtelNext, feed' = feed
    PROVE  FeedInv' /\ OtelInv'
<1>1. CASE OLog
  BY <1>1, OtelLog
<1>2. CASE OClose \/ OExit \/ OStart
  BY <1>2, OtelLife
<1>3. CASE ODie
  BY <1>3, OtelDie
<1>4. CASE \E q \in DOMAIN request : OPosts(q) \/ ODrop(q)
  BY <1>4, OtelPost, OtelDrop DEF OPosts
<1>5. CASE \E k \in Slots : OTimeout(k) \/ OWork(k)
  BY <1>5, OtelTimeout, OtelServe, OtelCommit DEF OWork
<1> QED BY <1>1, <1>2, <1>3, <1>4, <1>5 DEF OtelNext

-----------------------------------------------------------------------------
(* Kafka: logs and positions *)

Place   == [off : Nat, epoch : Nat]
Places  == [Partitions -> Place]
Slot    == [m : Message, epoch : Nat]
Log     == Seq(Slot)
Fetched == [p : Partitions, off : Nat, epoch : Nat, m : Message, topic : Nat]
Polls   == Seq(Fetched)
Member  == [phase : {"stopped", "ready", "batch", "offsets"}, topic : Nat, pos : Places,
            ms : Polls, handled : SUBSET Nat, err : BOOLEAN]

\* Where an epoch ends in a log, and where a consumer at a position goes on in it.
EndOf(l, e) == Cardinality({i \in DOMAIN l : l[i].epoch <= e})
ResumeIn(l, pos) == IF pos.off > EndOf(l, pos.epoch) THEN EndOf(l, pos.epoch) ELSE pos.off

LEMMA ResumeIs == ASSUME NEW p, NEW pos PROVE Resume(p, pos) = ResumeIn(klog[p], pos)
BY DEF Resume, ResumeIn, EndOf

\* A log's epochs only grow, none beyond the leader's.
Graded(l, e) ==
    /\ \A i \in DOMAIN l : l[i].epoch <= e
    /\ \A i, j \in DOMAIN l : i <= j => l[i].epoch <= l[j].epoch

LEMMA OfLog ==
    ASSUME NEW l \in Log
    PROVE  /\ Len(l) \in Nat /\ DOMAIN l = 1..Len(l)
           /\ \A i \in 1..Len(l) : l[i] \in Slot /\ l[i].epoch \in Nat /\ l[i].m \in Message
<1>1. l \in Seq(Slot)
  BY DEF Log
<1>2. Len(l) \in Nat /\ DOMAIN l = 1..Len(l) /\ \A i \in 1..Len(l) : l[i] \in Slot
  BY <1>1, OfSeq
<1>3. \A x \in Slot : x.epoch \in Nat /\ x.m \in Message
  BY DEF Slot
<1> QED BY <1>2, <1>3

LEMMA EndIs ==
    ASSUME NEW l \in Log, NEW top, Graded(l, top), NEW e \in Nat
    PROVE  EndOf(l, e) \in 0..Len(l) /\ \A i \in DOMAIN l : l[i].epoch <= e <=> i <= EndOf(l, e)
<1> DEFINE S == {i \in DOMAIN l : l[i].epoch <= e}
           T == {k \in Nat : k + 1 \notin S}
           L == Len(l)
<1>1. L \in Nat /\ DOMAIN l = 1..L /\ \A i \in 1..L : l[i].epoch \in Nat
  BY OfLog
<1>2. L \in T /\ T \subseteq Nat
  <2>1. L + 1 \notin DOMAIN l
    BY <1>1
  <2> QED BY <1>1, <2>1
<1>3. PICK k \in T : \A n \in T : k <= n
  BY <1>2, LeastNumber
<1>4. k \in 0..L /\ k + 1 \notin S
  BY <1>1, <1>2, <1>3
<1>5. ASSUME NEW i \in 1..L, i <= k PROVE i \in S
  <2>1. i - 1 \in Nat /\ ~(k <= i - 1) /\ (i - 1) + 1 = i
    BY <1>1, <1>4, <1>5
  <2>2. i - 1 \notin T
    BY <1>3, <2>1
  <2> QED BY <2>1, <2>2
<1>6. ASSUME NEW i \in 1..L, ~(i <= k) PROVE i \notin S
  <2>1. k + 1 \in 1..L /\ k + 1 <= i
    BY <1>1, <1>4, <1>6
  <2>2. ~(l[k + 1].epoch <= e)
    BY <1>1, <1>4, <2>1
  <2>3. l[k + 1].epoch <= l[i].epoch
    BY <1>1, <2>1 DEF Graded
  <2>4. l[k + 1].epoch \in Nat /\ l[i].epoch \in Nat
    BY <1>1, <2>1
  <2> QED BY <2>2, <2>3, <2>4
<1>7. S = 1..k
  <2>1. \A i \in S : i \in 1..k
    BY <1>1, <1>4, <1>6
  <2>2. \A i \in 1..k : i \in S
    BY <1>1, <1>4, <1>5
  <2> QED BY <2>1, <2>2
<1>8. EndOf(l, e) = k
  <2>1. Cardinality(1..k) = k
    BY <1>4, UpTo
  <2> QED BY <1>7, <2>1 DEF EndOf
<1> QED BY <1>1, <1>4, <1>5, <1>6, <1>8

LEMMA ResumeType ==
    ASSUME NEW l \in Log, NEW top, Graded(l, top), NEW pos \in Place
    PROVE  ResumeIn(l, pos) \in 0..Len(l) /\ ResumeIn(l, pos) <= pos.off
<1>1. pos.epoch \in Nat /\ pos.off \in Nat
  BY DEF Place
<1>2. EndOf(l, pos.epoch) \in 0..Len(l) /\ Len(l) \in Nat
  BY <1>1, EndIs, OfLog
<1> HIDE DEF EndOf
<1> QED BY <1>1, <1>2 DEF ResumeIn

\* Behind one of its records a consumer goes on with the next.
LEMMA ResumeNext ==
    ASSUME NEW l \in Log, NEW top, Graded(l, top), NEW i \in DOMAIN l, NEW pos, pos = [off |-> i, epoch |-> l[i].epoch]
    PROVE  ResumeIn(l, pos) = i
<1>1. Len(l) \in Nat /\ DOMAIN l = 1..Len(l) /\ l[i].epoch \in Nat /\ i \in Nat
  BY OfLog
<1>2. EndOf(l, l[i].epoch) \in 0..Len(l) /\ i <= EndOf(l, l[i].epoch)
  <2>1. PICK e \in Nat : e = l[i].epoch
    BY <1>1
  <2>2. EndOf(l, e) \in 0..Len(l) /\ \A j \in DOMAIN l : l[j].epoch <= e <=> j <= EndOf(l, e)
    BY EndIs
  <2>3. l[i].epoch <= e
    BY <2>1
  <2> QED BY <2>1, <2>2, <2>3
<1>3. pos.off = i /\ pos.epoch = l[i].epoch
  OBVIOUS
<1> HIDE DEF EndOf
<1> QED BY <1>1, <1>2, <1>3 DEF ResumeIn

-----------------------------------------------------------------------------
(* Positions that lose nothing *)

\* Not beyond what was there in its epoch.
Sound(l, e, pos) == pos.off <= sent /\ pos.epoch <= e /\ (pos.epoch = e => pos.off <= Len(l))

\* What a consumer that resumes there does not meet again is on its chain, could never
\* be, or is one of these.
Covered(l, pos, M) == \A i \in 1..ResumeIn(l, pos) : Valid(l[i].m) => (OnChain(l[i].m.n) \/ l[i].m.n \in M)

Safe(l, e, pos, M) == Sound(l, e, pos) /\ Covered(l, pos, M)

LEMMA SafeStays ==
    ASSUME NEW l, NEW e, NEW pos \in Place, NEW M, Safe(l, e, pos, M), Stays, sent \in Nat, sent' \in Nat, sent <= sent'
    PROVE  Safe(l, e, pos, M)'
<1>1. pos.off \in Nat
  BY DEF Place
<1>2. Sound(l, e, pos)'
  BY <1>1 DEF Safe, Sound
<1>3. Covered(l, pos, M)'
  BY DEF Safe, Covered, Stays, Valid
<1> QED BY <1>2, <1>3 DEF Safe

LEMMA SafeStart ==
    ASSUME NEW l \in Log, NEW e \in Nat, Graded(l, e), NEW M, sent \in Nat
    PROVE  Safe(l, e, Start, M) /\ Start \in Place
<1>1. Start \in Place /\ Start.off = 0 /\ Start.epoch = 0
  BY DEF Start, Place
<1>2. ResumeIn(l, Start) \in 0..Len(l) /\ ResumeIn(l, Start) <= 0 /\ Len(l) \in Nat
  BY <1>1, ResumeType, OfLog
<1>3. 1..ResumeIn(l, Start) = {}
  BY <1>2
<1> QED BY <1>1, <1>2, <1>3 DEF Safe, Sound, Covered

\* A position safe in one log is in another.
SafeIn(l, e, d, f) == \A pos \in Place : \A M : Safe(l, e, pos, M) => Safe(d, f, pos, M)

\* A record more, in the leader's epoch.
Appended(l, e, x, d) ==
    /\ d \in Log /\ Len(d) = Len(l) + 1 /\ DOMAIN d = 1..(Len(l) + 1) /\ Graded(d, e)
    /\ d[Len(l) + 1] = x /\ \A i \in DOMAIN l : i \in DOMAIN d /\ d[i] = l[i]
    /\ SafeIn(l, e, d, e)

LEMMA SafeAppend ==
    ASSUME NEW l \in Log, NEW e \in Nat, Graded(l, e), NEW x \in Slot, x.epoch = e, NEW d, d = Append(l, x)
    PROVE  Appended(l, e, x, d)
<1> DEFINE L == Len(l)
<1>1. L \in Nat /\ DOMAIN l = 1..L /\ \A i \in 1..L : l[i] \in Slot
  BY OfLog
<1>2. d \in Log /\ Len(d) = L + 1 /\ DOMAIN d = 1..(L + 1) /\ d[L + 1] = x /\ \A i \in 1..L : d[i] = l[i]
  BY DEF Log
<1>3. \A i \in 1..L : i \in DOMAIN l /\ i \in DOMAIN d /\ d[i] = l[i]
  BY <1>1, <1>2
<1>4. \A i \in DOMAIN d : i \in 1..L \/ i = L + 1
  BY <1>1, <1>2
<1>5. Graded(d, e)
  <2>1. \A i \in DOMAIN d : d[i].epoch <= e
    BY <1>2, <1>3, <1>4 DEF Graded
  <2>2. ASSUME NEW i \in DOMAIN d, NEW j \in DOMAIN d, i <= j PROVE d[i].epoch <= d[j].epoch
    <3>1. CASE j \in 1..L
      <4>1. i \in 1..L
        BY <1>1, <1>2, <2>2, <3>1
      <4> QED BY <1>3, <2>2, <3>1, <4>1 DEF Graded
    <3>2. CASE j = L + 1
      BY <1>2, <2>1, <3>2
    <3> QED BY <1>4, <3>1, <3>2
  <2> QED BY <2>1, <2>2 DEF Graded
<1>6. ASSUME NEW pos \in Place, NEW M, Safe(l, e, pos, M) PROVE Safe(d, e, pos, M)
  <2>1. pos.off \in Nat /\ pos.epoch \in Nat /\ pos.epoch <= e /\ (pos.epoch = e => pos.off <= L) /\ pos.off <= sent
    BY <1>6 DEF Place, Safe, Sound
  <2>2. EndOf(l, pos.epoch) \in 0..L /\ \A i \in DOMAIN l : l[i].epoch <= pos.epoch <=> i <= EndOf(l, pos.epoch)
    BY <2>1, EndIs
  <2>3. EndOf(d, pos.epoch) \in 0..(L + 1) /\ \A i \in DOMAIN d : d[i].epoch <= pos.epoch <=> i <= EndOf(d, pos.epoch)
    BY <1>2, <1>5, <2>1, EndIs
  <2> HIDE DEF EndOf
  <2>4. ResumeIn(d, pos) = ResumeIn(l, pos)
    <3>1. CASE pos.epoch = e
      <4>1. L <= EndOf(l, pos.epoch)
        <5>1. CASE L = 0
          BY <2>2, <5>1
        <5>2. CASE L # 0
          <6>1. L \in DOMAIN l /\ l[L].epoch <= pos.epoch
            BY <1>1, <3>1, <5>2 DEF Graded
          <6> QED BY <2>2, <6>1
        <5> QED BY <5>1, <5>2
      <4>2. L + 1 <= EndOf(d, pos.epoch)
        <5>1. L + 1 \in DOMAIN d /\ d[L + 1].epoch <= pos.epoch
          BY <1>1, <1>2, <3>1
        <5> QED BY <2>3, <5>1
      <4> QED BY <1>1, <2>1, <2>2, <2>3, <3>1, <4>1, <4>2 DEF ResumeIn
    <3>2. CASE pos.epoch # e
      <4>1. EndOf(d, pos.epoch) <= L
        <5>1. L + 1 \in DOMAIN d /\ ~(d[L + 1].epoch <= pos.epoch)
          BY <1>1, <1>2, <2>1, <3>2
        <5> QED BY <1>1, <2>3, <5>1
      <4>2. EndOf(d, pos.epoch) <= EndOf(l, pos.epoch)
        <5>1. CASE EndOf(d, pos.epoch) = 0
          BY <1>1, <2>2, <5>1
        <5>2. CASE EndOf(d, pos.epoch) # 0
          <6>1. EndOf(d, pos.epoch) \in 1..L
            BY <1>1, <2>3, <4>1, <5>2
          <6> QED BY <1>1, <1>3, <2>2, <2>3, <6>1
        <5> QED BY <5>1, <5>2
      <4>3. EndOf(l, pos.epoch) <= EndOf(d, pos.epoch)
        <5>1. CASE EndOf(l, pos.epoch) = 0
          BY <1>1, <2>3, <5>1
        <5>2. CASE EndOf(l, pos.epoch) # 0
          <6>1. EndOf(l, pos.epoch) \in 1..L
            BY <1>1, <2>2, <5>2
          <6> QED BY <1>1, <1>3, <2>2, <2>3, <6>1
        <5> QED BY <5>1, <5>2
      <4>4. EndOf(l, pos.epoch) = EndOf(d, pos.epoch)
        BY <1>1, <2>2, <2>3, <4>2, <4>3
      <4> QED BY <4>4 DEF ResumeIn
    <3> QED BY <3>1, <3>2
  <2>5. ResumeIn(l, pos) \in 0..L
    BY ResumeType
  <2> HIDE DEF ResumeIn
  <2>6. \A i \in 1..ResumeIn(l, pos) : d[i] = l[i]
    BY <1>1, <1>3, <2>5
  <2>7. Covered(d, pos, M)
    BY <1>6, <2>4, <2>6 DEF Safe, Covered
  <2>8. Sound(d, e, pos)
    BY <1>1, <1>2, <2>1 DEF Sound
  <2> QED BY <2>7, <2>8 DEF Safe
<1>7. SafeIn(l, e, d, e)
  BY <1>6 DEF SafeIn
<1> QED BY <1>1, <1>2, <1>3, <1>5, <1>7 DEF Appended

\* The last record gone, and a leader that starts an epoch.
LEMMA SafeFront ==
    ASSUME NEW l \in Log, l # <<>>, NEW e \in Nat, Graded(l, e), NEW d, d = Front(l), NEW f, f = e + 1
    PROVE  /\ d \in Log /\ Len(d) = Len(l) - 1 /\ DOMAIN d = 1..(Len(l) - 1) /\ Graded(d, f)
           /\ \A i \in DOMAIN d : i \in DOMAIN l /\ d[i] = l[i]
           /\ SafeIn(l, e, d, f)
<1> DEFINE L == Len(l)
<1>1. L \in Nat /\ L > 0 /\ DOMAIN l = 1..L /\ \A i \in 1..L : l[i] \in Slot
  BY OfLog
<1>2. d \in Log /\ Len(d) = L - 1 /\ DOMAIN d = 1..(L - 1) /\ \A i \in 1..(L - 1) : d[i] = l[i]
  <2>1. d = SubSeq(l, 1, L - 1)
    BY DEF Front
  <2> QED BY <1>1, <2>1 DEF Log
<1>3. \A i \in DOMAIN d : i \in DOMAIN l /\ d[i] = l[i] /\ l[i].epoch \in Nat
  BY <1>1, <1>2 DEF Slot
<1>4. Graded(d, f)
  <2>1. \A i \in DOMAIN d : d[i].epoch <= e /\ d[i].epoch \in Nat
    BY <1>3 DEF Graded
  <2>2. \A i \in DOMAIN d : d[i].epoch <= f
    BY <2>1
  <2>3. \A i, j \in DOMAIN d : i <= j => d[i].epoch <= d[j].epoch
    BY <1>3 DEF Graded
  <2> QED BY <2>2, <2>3 DEF Graded
<1>5. ASSUME NEW pos \in Place, NEW M, Safe(l, e, pos, M) PROVE Safe(d, f, pos, M)
  <2>1. pos.off \in Nat /\ pos.epoch \in Nat /\ pos.epoch <= e /\ pos.off <= sent
    BY <1>5 DEF Place, Safe, Sound
  <2>2. EndOf(l, pos.epoch) \in 0..L /\ \A i \in DOMAIN l : l[i].epoch <= pos.epoch <=> i <= EndOf(l, pos.epoch)
    BY <2>1, EndIs
  <2>3. EndOf(d, pos.epoch) \in 0..(L - 1) /\ \A i \in DOMAIN d : d[i].epoch <= pos.epoch <=> i <= EndOf(d, pos.epoch)
    BY <1>2, <1>4, <2>1, EndIs
  <2> HIDE DEF EndOf
  <2>4. EndOf(d, pos.epoch) <= EndOf(l, pos.epoch)
    <3>1. CASE EndOf(d, pos.epoch) = 0
      BY <1>1, <2>2, <3>1
    <3>2. CASE EndOf(d, pos.epoch) # 0
      <4>1. EndOf(d, pos.epoch) \in DOMAIN d /\ EndOf(d, pos.epoch) <= EndOf(d, pos.epoch)
        BY <1>1, <1>2, <2>3, <3>2
      <4> QED BY <1>3, <2>2, <2>3, <4>1
    <3> QED BY <3>1, <3>2
  <2>5. ResumeIn(d, pos) <= ResumeIn(l, pos)
    BY <1>1, <2>1, <2>2, <2>3, <2>4 DEF ResumeIn
  <2>6. ResumeIn(l, pos) \in 0..L /\ ResumeIn(d, pos) \in 0..(L - 1)
    BY <1>2, <1>4, ResumeType
  <2> HIDE DEF ResumeIn
  <2>7. \A i \in 1..ResumeIn(d, pos) : i \in 1..ResumeIn(l, pos) /\ i \in DOMAIN d
    BY <1>1, <1>2, <2>5, <2>6
  <2>8. Covered(d, pos, M)
    BY <1>3, <1>5, <2>7 DEF Safe, Covered
  <2>9. Sound(d, f, pos)
    BY <2>1 DEF Sound
  <2> QED BY <2>8, <2>9 DEF Safe
<1>6. SafeIn(l, e, d, f)
  BY <1>5 DEF SafeIn
<1> QED BY <1>1, <1>2, <1>3, <1>4, <1>6

-----------------------------------------------------------------------------
(* Kafka: the invariant *)

\* The records of a batch up to the k-th.
BatchTo(ms, k) == {ms[j].m.n : j \in {j \in DOMAIN ms : j <= k}}

\* A member's batch is of its topic, each partition's records in their order; the handled
\* ones are safe, and all are when no error stopped it.
MemberInv(r) ==
    /\ r.topic <= topic
    /\ r.phase \in {"stopped", "ready"} => r.ms = <<>>
    /\ r.handled \subseteq DOMAIN r.ms /\ (r.phase # "offsets" => r.handled = {})
    /\ \A k \in DOMAIN r.ms : r.ms[k].topic = r.topic
    /\ \A k \in r.handled : Valid(r.ms[k].m) => OnChain(r.ms[k].m.n)
    /\ (r.phase = "offsets" /\ ~r.err) => r.handled = DOMAIN r.ms
    /\ \A j, k \in DOMAIN r.ms : (j < k /\ r.ms[j].p = r.ms[k].p) => r.ms[j].off < r.ms[k].off

\* Unless its topic is gone, where it goes on, and where it would with the batch up to
\* any record committed.
MemberSafe(r) ==
    (r.phase # "stopped" /\ r.topic = topic) =>
        /\ \A p \in Partitions : Safe(klog[p], kepoch[p], r.pos[p], BatchTo(r.ms, Len(r.ms)))
        /\ \A k \in DOMAIN r.ms :
             Safe(klog[r.ms[k].p], kepoch[r.ms[k].p], NextOffset(r.ms[k]), BatchTo(r.ms, k))

LogMarks(p) == {Mark(klog[p][i].m, <<topic, p, i - 1, klog[p][i].epoch>>) : i \in DOMAIN klog[p]}
PollMarks(ms) == {Mark(ms[k].m, Source(ms[k])) : k \in DOMAIN ms}
KafkaMarks  ==
    ChainMarks \cup (UNION {LogMarks(p) : p \in Partitions}) \cup (UNION {PollMarks(member[c].ms) : c \in Procs})

\* A position in use names one message, and one of this topic and epoch is within its log.
InLog(s) ==
    /\ s.n \in 1..sent
    /\ s.source \in (0..topic) \X Partitions \X Nat \X Nat
    /\ s.source[1] = topic => s.source[4] <= kepoch[s.source[2]]
    /\ (s.source[1] = topic /\ s.source[4] = kepoch[s.source[2]]) => s.source[3] < Len(klog[s.source[2]])

KafkaNamed == OneToOne(KafkaMarks) /\ \A s \in KafkaMarks : InLog(s)

\* A record is on its chain only behind those of its partition that can be.
InTurn ==
    \A p \in Partitions : \A i, j \in DOMAIN klog[p] :
        (i < j /\ Valid(klog[p][i].m) /\ OnChain(klog[p][j].m.n)) => OnChain(klog[p][i].m.n)

KafkaTypes ==
    /\ topic \in Nat /\ klog \in [Partitions -> Log] /\ kepoch \in [Partitions -> Nat]
    /\ offsets \in Places /\ member \in [Procs -> Member]

PartitionsInv == \A p \in Partitions : Len(klog[p]) <= sent /\ Graded(klog[p], kepoch[p])
OffsetsSafe == \A p \in Partitions : Safe(klog[p], kepoch[p], offsets[p], {})
MembersInv == \A c \in Procs : MemberInv(member[c]) /\ MemberSafe(member[c])

KafkaInv == KafkaTypes /\ PartitionsInv /\ KafkaNamed /\ InTurn /\ KafkaOrder /\ OffsetsSafe /\ MembersInv

-----------------------------------------------------------------------------
(* Kafka: what stays *)

\* A safe position stays one.
PlacesStay ==
    \A p \in Partitions : \A pos \in Place : \A M : Safe(klog[p], kepoch[p], pos, M) => Safe(klog[p], kepoch[p], pos, M)'

LEMMA OfPolls ==
    ASSUME NEW ms \in Polls
    PROVE  /\ Len(ms) \in Nat /\ DOMAIN ms = 1..Len(ms)
           /\ \A k \in DOMAIN ms : /\ ms[k] \in Fetched /\ ms[k].p \in Partitions /\ ms[k].off \in Nat
                                   /\ ms[k].epoch \in Nat /\ ms[k].m \in Message /\ ms[k].topic \in Nat
                                   /\ NextOffset(ms[k]) \in Place
<1>1. ms \in Seq(Fetched)
  BY DEF Polls
<1>2. Len(ms) \in Nat /\ DOMAIN ms = 1..Len(ms) /\ \A k \in 1..Len(ms) : ms[k] \in Fetched
  BY <1>1, OfSeq
<1>3. \A x \in Fetched : /\ x.p \in Partitions /\ x.off \in Nat /\ x.epoch \in Nat /\ x.m \in Message /\ x.topic \in Nat
                         /\ NextOffset(x) \in Place
  BY DEF Fetched, NextOffset, Place
<1> QED BY <1>2, <1>3

LEMMA OfMember ==
    ASSUME NEW r \in Member
    PROVE  /\ r.ms \in Polls /\ r.topic \in Nat /\ r.pos \in Places /\ r.handled \in SUBSET Nat /\ r.err \in BOOLEAN
           /\ \A p \in Partitions : r.pos[p] \in Place
BY DEF Member, Places

LEMMA SamePlaces ==
    ASSUME FeedInv, KafkaTypes, UNCHANGED <<klog, kepoch>>, Stays, sent' \in Nat, sent <= sent'
    PROVE  PlacesStay
<1> SUFFICES ASSUME NEW p \in Partitions, NEW pos \in Place, NEW M, Safe(klog[p], kepoch[p], pos, M)
             PROVE  Safe(klog[p], kepoch[p], pos, M)'
  BY DEF PlacesStay
<1>1. PICK l : l = klog[p]
  OBVIOUS
<1>2. PICK e : e = kepoch[p]
  OBVIOUS
<1>3. Safe(l, e, pos, M)'
  <2>1. Safe(l, e, pos, M) /\ sent \in Nat
    BY <1>1, <1>2 DEF FeedInv
  <2> QED BY <2>1, SafeStays
<1>4. l = klog'[p] /\ e = kepoch'[p]
  BY <1>1, <1>2
<1> QED BY <1>3, <1>4 DEF Safe, Sound, Covered, ResumeIn, EndOf, OnChain

LEMMA PlacesHold ==
    ASSUME NEW r \in Member, MemberSafe(r), topic' = topic, PlacesStay
    PROVE  MemberSafe(r)'
<1>t. r.ms \in Polls /\ (\A p \in Partitions : r.pos[p] \in Place)
      /\ \A k \in DOMAIN r.ms : r.ms[k].p \in Partitions /\ NextOffset(r.ms[k]) \in Place
  BY OfMember, OfPolls
<1> SUFFICES ASSUME r.phase # "stopped", r.topic = topic
             PROVE  /\ \A p \in Partitions : Safe(klog[p], kepoch[p], r.pos[p], BatchTo(r.ms, Len(r.ms)))'
                    /\ \A k \in DOMAIN r.ms :
                         Safe(klog[r.ms[k].p], kepoch[r.ms[k].p], NextOffset(r.ms[k]), BatchTo(r.ms, k))'
  BY DEF MemberSafe
<1>1. ASSUME NEW p \in Partitions PROVE Safe(klog[p], kepoch[p], r.pos[p], BatchTo(r.ms, Len(r.ms)))'
  <2>1. PICK M : M = BatchTo(r.ms, Len(r.ms))
    OBVIOUS
  <2>2. Safe(klog[p], kepoch[p], r.pos[p], M)'
    BY <1>t, <2>1 DEF MemberSafe, PlacesStay
  <2> QED BY <2>1, <2>2
<1>2. ASSUME NEW k \in DOMAIN r.ms
      PROVE  Safe(klog[r.ms[k].p], kepoch[r.ms[k].p], NextOffset(r.ms[k]), BatchTo(r.ms, k))'
  <2>1. PICK M : M = BatchTo(r.ms, k)
    OBVIOUS
  <2>2. PICK p \in Partitions : p = r.ms[k].p
    BY <1>t
  <2>3. PICK pos \in Place : pos = NextOffset(r.ms[k])
    BY <1>t
  <2>4. Safe(klog[p], kepoch[p], pos, M)'
    BY <2>1, <2>2, <2>3 DEF MemberSafe, PlacesStay
  <2> QED BY <2>1, <2>2, <2>3, <2>4
<1> QED BY <1>1, <1>2

LEMMA MemberStays ==
    ASSUME NEW r \in Member, MemberInv(r), MemberSafe(r), Stays, topic' = topic, PlacesStay
    PROVE  MemberInv(r)' /\ MemberSafe(r)'
<1>1. MemberInv(r)'
  <2>1. \A k \in r.handled : Valid(r.ms[k].m)' => OnChain(r.ms[k].m.n)'
    BY DEF MemberInv, Stays, Valid
  <2> QED BY <2>1 DEF MemberInv
<1>2. MemberSafe(r)'
  BY PlacesHold
<1> QED BY <1>1, <1>2

\* The logs hold what they did, and perhaps at an end what no chain has.
LogsOnly ==
    \A p \in Partitions : \A i \in DOMAIN klog'[p] :
        \/ i \in DOMAIN klog[p] /\ klog'[p][i] = klog[p][i]
        \/ klog'[p][i].m.n \notin 1..sent /\ \A j \in DOMAIN klog'[p] : ~(i < j)

LEMMA OrderStays ==
    ASSUME FeedInv, InTurn, KafkaOrder, chain' = chain, LogsOnly
    PROVE  InTurn' /\ KafkaOrder'
<1>1. Entries' = Entries
  BY DEF Entries
<1>2. ASSUME NEW n, OnChain(n)' PROVE OnChain(n) /\ n \in 1..sent
  BY <1>1, <1>2 DEF OnChain, Entries, FeedInv
<1>3. InTurn'
  <2> SUFFICES ASSUME NEW p \in Partitions, NEW i \in DOMAIN klog'[p], NEW j \in DOMAIN klog'[p],
                      i < j, Valid(klog[p][i].m)', OnChain(klog[p][j].m.n)'
               PROVE  OnChain(klog[p][i].m.n)'
    BY DEF InTurn
  <2>1. PICK n : n = klog'[p][j].m.n
    OBVIOUS
  <2>2. OnChain(n) /\ n \in 1..sent
    <3>1. OnChain(n)'
      BY <2>1 DEF OnChain
    <3> QED BY <1>2, <3>1
  <2>3. j \in DOMAIN klog[p] /\ klog[p][j].m.n = n
    BY <2>1, <2>2 DEF LogsOnly
  <2>4. i \in DOMAIN klog[p] /\ klog'[p][i] = klog[p][i]
    BY DEF LogsOnly
  <2>5. OnChain(klog[p][i].m.n)
    BY <2>2, <2>3, <2>4 DEF InTurn, Valid
  <2> QED BY <1>1, <2>4, <2>5 DEF OnChain
<1>4. KafkaOrder'
  <2> SUFFICES ASSUME NEW p \in Partitions, NEW i \in DOMAIN klog'[p], NEW j \in DOMAIN klog'[p],
                      NEW a \in DOMAIN chain, NEW b \in DOMAIN chain,
                      i < j, chain[a].n = klog'[p][i].m.n, chain[b].n = klog'[p][j].m.n
               PROVE  a < b
    BY DEF KafkaOrder
  <2>1. chain[a].n \in 1..sent /\ chain[b].n \in 1..sent
    BY DEF FeedInv
  <2>2. i \in DOMAIN klog[p] /\ klog'[p][i] = klog[p][i] /\ j \in DOMAIN klog[p] /\ klog'[p][j] = klog[p][j]
    BY <2>1 DEF LogsOnly
  <2> QED BY <2>2 DEF KafkaOrder
<1> QED BY <1>3, <1>4


\* A member takes a step, and perhaps the chains grow or the offsets move.
LEMMA MemberStep ==
    ASSUME FeedInv, KafkaInv, UNCHANGED <<topic, klog, kepoch, sent>>, Stays, InTurn', KafkaOrder',
           offsets' \in Places, OffsetsSafe', ChainMarks' \subseteq KafkaMarks,
           NEW c \in Procs, NEW r \in Member, member' = [member EXCEPT ![c] = r], PollMarks(r.ms) \subseteq KafkaMarks,
           MemberInv(r)', MemberSafe(r)'
    PROVE  KafkaInv'
<1>1. member' \in [Procs -> Member] /\ member'[c] = r /\ \A d \in Procs : d # c => member'[d] = member[d]
  BY DEF KafkaInv, KafkaTypes
<1>2. KafkaTypes'
  BY <1>1 DEF KafkaInv, KafkaTypes
<1>3. PartitionsInv'
  BY DEF KafkaInv, PartitionsInv, Graded
<1>4. PlacesStay
  BY SamePlaces DEF KafkaInv, FeedInv
<1>5. MembersInv'
  <2> SUFFICES ASSUME NEW d \in Procs PROVE MemberInv(member[d])' /\ MemberSafe(member[d])'
    BY DEF MembersInv
  <2>1. PICK s : s = IF d = c THEN r ELSE member[d]
    OBVIOUS
  <2>2. CASE d = c
    <3>1. MemberInv(s)' /\ MemberSafe(s)' /\ member'[d] = s
      BY <1>1, <2>1, <2>2
    <3> QED BY <3>1
  <2>3. CASE d # c
    <3>1. s \in Member /\ MemberInv(s) /\ MemberSafe(s) /\ member'[d] = s
      BY <1>1, <2>1, <2>3 DEF KafkaInv, KafkaTypes, MembersInv
    <3>2. MemberInv(s)' /\ MemberSafe(s)'
      BY <1>4, <3>1, MemberStays
    <3> QED BY <3>1, <3>2
  <2> QED BY <2>2, <2>3
<1>6. KafkaMarks' \subseteq KafkaMarks
  <2>1. \A p \in Partitions : LogMarks(p)' = LogMarks(p)
    BY DEF LogMarks, Mark
  <2>2. \A p \in Partitions : LogMarks(p) \subseteq KafkaMarks
    BY DEF KafkaMarks
  <2>3. ASSUME NEW d \in Procs PROVE PollMarks(member[d].ms)' \subseteq KafkaMarks
    <3>1. CASE d = c
      BY <1>1, <3>1 DEF PollMarks, Mark, Source
    <3>2. CASE d # c
      <4>1. PollMarks(member[d].ms)' = PollMarks(member[d].ms)
        BY <1>1, <3>2 DEF PollMarks, Mark, Source
      <4> QED BY <4>1 DEF KafkaMarks
    <3> QED BY <3>1, <3>2
  <2>4. KafkaMarks' = ChainMarks' \cup (UNION {LogMarks(p)' : p \in Partitions}) \cup (UNION {PollMarks(member[d].ms)' : d \in Procs})
    BY DEF KafkaMarks
  <2> HIDE DEF KafkaMarks
  <2> QED BY <2>1, <2>2, <2>3, <2>4
<1>7. KafkaNamed'
  <2>1. OneToOne(KafkaMarks')
    BY <1>6 DEF KafkaInv, KafkaNamed, OneToOne
  <2>2. \A s \in KafkaMarks' : InLog(s)'
    BY <1>6 DEF KafkaInv, KafkaNamed, InLog
  <2> QED BY <2>1, <2>2 DEF KafkaNamed, OneToOne
<1> QED BY <1>2, <1>3, <1>5, <1>7 DEF KafkaInv


-----------------------------------------------------------------------------
(* Kafka: the broker *)

\* The logs change; members and offsets are as before.
LEMMA LogStep ==
    ASSUME FeedInv, KafkaInv, UNCHANGED <<topic, offsets, member, chain>>,
           klog' \in [Partitions -> Log], kepoch' \in [Partitions -> Nat], PartitionsInv', KafkaNamed', LogsOnly, PlacesStay
    PROVE  KafkaInv'
<1>1. Stays
  BY StaysSame
<1>2. KafkaTypes'
  BY DEF KafkaInv, KafkaTypes
<1>3. InTurn' /\ KafkaOrder'
  BY OrderStays DEF KafkaInv
<1>4. OffsetsSafe'
  <2> SUFFICES ASSUME NEW p \in Partitions PROVE Safe(klog[p], kepoch[p], offsets[p], {})'
    BY DEF OffsetsSafe
  <2>1. PICK pos \in Place : pos = offsets[p]
    BY DEF KafkaInv, KafkaTypes, Places
  <2>2. Safe(klog[p], kepoch[p], pos, {})'
    BY <2>1 DEF KafkaInv, OffsetsSafe, PlacesStay
  <2>3. pos = offsets'[p]
    BY <2>1
  <2> QED BY <2>2, <2>3
<1>5. MembersInv'
  <2> SUFFICES ASSUME NEW c \in Procs PROVE MemberInv(member[c])' /\ MemberSafe(member[c])'
    BY DEF MembersInv
  <2>1. PICK r \in Member : r = member[c]
    BY DEF KafkaInv, KafkaTypes
  <2>2. MemberInv(r) /\ MemberSafe(r)
    BY <2>1 DEF KafkaInv, MembersInv
  <2>3. MemberInv(r)' /\ MemberSafe(r)'
    BY <1>1, <2>2, MemberStays
  <2>4. r = member'[c]
    BY <2>1
  <2> QED BY <2>3, <2>4
<1> QED BY <1>2, <1>3, <1>4, <1>5 DEF KafkaInv

LEMMA PartitionType == ASSUME NEW m \in Message PROVE PartitionOf(m) \in Partitions
<1>1. m.subject \in Nat
  <2>1. \A s \in Subjects : s \in Nat
    BY FeedersAssumption DEF Subjects
  <2> QED BY <2>1 DEF Message
<1>2. NPartitions \in Nat /\ NPartitions > 0
  BY KafkaAssumption
<1>3. m.subject % NPartitions \in 0..(NPartitions - 1)
  BY <1>1, <1>2
<1> QED BY <1>2, <1>3 DEF PartitionOf, Partitions

LEMMA KafkaProduce ==
    ASSUME FeedInv, KafkaInv, KProduce, feed' = feed
    PROVE  FeedInv' /\ KafkaInv'
<1>1. FeedInv' /\ Latest \in Message /\ Latest.n = sent + 1 /\ sent' = sent + 1 /\ chain' = chain /\ sent \in Nat
  BY FeedPublish DEF KProduce, FeedInv
<1>2. PICK q \in Partitions : q = PartitionOf(Latest)
  BY <1>1, PartitionType
<1>3. PICK x : x = [m |-> Latest, epoch |-> kepoch[q]]
  OBVIOUS
<1>4. klog' = [klog EXCEPT ![q] = Append(klog[q], x)] /\ UNCHANGED <<topic, kepoch, offsets, member>>
  BY <1>2, <1>3 DEF KProduce
<1>5. KafkaTypes /\ PartitionsInv /\ KafkaNamed
  BY DEF KafkaInv
<1>6. PICK l \in Log : l = klog[q]
  BY <1>5 DEF KafkaTypes
<1>7. PICK e \in Nat : e = kepoch[q]
  BY <1>5 DEF KafkaTypes
<1>8. x \in Slot /\ x.epoch = e /\ x.m = Latest /\ Graded(l, e) /\ Len(l) <= sent
  BY <1>1, <1>3, <1>5, <1>6, <1>7 DEF Slot, PartitionsInv
<1>9. PICK d : d = Append(l, x)
  OBVIOUS
<1>10. /\ d \in Log /\ Len(d) = Len(l) + 1 /\ DOMAIN d = 1..(Len(l) + 1) /\ Graded(d, e)
       /\ d[Len(l) + 1] = x /\ \A i \in DOMAIN l : i \in DOMAIN d /\ d[i] = l[i]
       /\ SafeIn(l, e, d, e)
  <2>1. Appended(l, e, x, d)
    BY <1>8, <1>9, SafeAppend
  <2> QED BY <2>1 DEF Appended
<1>11. Len(l) \in Nat /\ DOMAIN l = 1..Len(l)
  BY OfLog
<1>12. klog' \in [Partitions -> Log] /\ klog'[q] = d /\ \A p \in Partitions : p # q => klog'[p] = klog[p]
  BY <1>4, <1>5, <1>6, <1>9, <1>10 DEF KafkaTypes
<1>13. PartitionsInv'
  <2> SUFFICES ASSUME NEW p \in Partitions PROVE Len(klog'[p]) <= sent' /\ Graded(klog'[p], kepoch[p])
    BY <1>4 DEF PartitionsInv, Graded
  <2>1. CASE p = q
    BY <1>1, <1>7, <1>8, <1>10, <1>11, <1>12, <2>1
  <2>2. CASE p # q
    <3>1. Len(klog[p]) <= sent /\ Graded(klog[p], kepoch[p]) /\ klog'[p] = klog[p] /\ klog[p] \in Log
      BY <1>5, <1>12, <2>2 DEF PartitionsInv, KafkaTypes
    <3>2. Len(klog[p]) \in Nat
      BY <3>1, OfLog
    <3>3. Len(klog[p]) <= sent'
      BY <1>1, <3>1, <3>2
    <3> QED BY <3>1, <3>3
  <2> QED BY <2>1, <2>2
<1>14. LogsOnly
  <2> SUFFICES ASSUME NEW p \in Partitions, NEW i \in DOMAIN klog'[p]
               PROVE  \/ i \in DOMAIN klog[p] /\ klog'[p][i] = klog[p][i]
                      \/ klog'[p][i].m.n \notin 1..sent /\ \A j \in DOMAIN klog'[p] : ~(i < j)
    BY DEF LogsOnly
  <2>1. CASE p # q
    BY <1>12, <2>1
  <2>2. CASE p = q /\ i \in DOMAIN l
    BY <1>6, <1>10, <1>12, <2>2
  <2>3. CASE p = q /\ i = Len(l) + 1
    <3>1. klog'[p][i].m.n = sent + 1
      BY <1>1, <1>8, <1>10, <1>12, <2>3
    <3>2. \A j \in 1..(Len(l) + 1) : ~(i < j)
      BY <1>11, <2>3
    <3> QED BY <1>1, <1>10, <1>12, <2>3, <3>1, <3>2
  <2> QED BY <1>10, <1>11, <1>12, <2>1, <2>2, <2>3
<1>15. PlacesStay
  <2>1. Stays
    BY <1>1, StaysSame
  <2> SUFFICES ASSUME NEW p \in Partitions, NEW pos \in Place, NEW M, Safe(klog[p], kepoch[p], pos, M)
               PROVE  Safe(klog[p], kepoch[p], pos, M)'
    BY DEF PlacesStay
  <2>2. PICK k : k = klog'[p]
    OBVIOUS
  <2>3. PICK f : f = kepoch[p]
    OBVIOUS
  <2>4. Safe(k, f, pos, M)
    <3>1. CASE p = q
      BY <1>6, <1>7, <1>10, <1>12, <2>2, <2>3, <3>1 DEF SafeIn
    <3>2. CASE p # q
      BY <1>12, <2>2, <2>3, <3>2
    <3> QED BY <3>1, <3>2
  <2>5. Safe(k, f, pos, M)'
    BY <1>1, <2>1, <2>4, SafeStays
  <2>6. k = klog'[p] /\ f = kepoch'[p]
    BY <1>4, <2>2, <2>3
  <2> QED BY <2>5, <2>6
<1>16. PICK new : new = Mark(Latest, <<topic, q, Len(l), e>>)
  OBVIOUS
<1>17. KafkaMarks' \subseteq KafkaMarks \cup {new}
  <2>1. ChainMarks' = ChainMarks
    BY <1>1 DEF ChainMarks, Mark
  <2>2. \A c \in Procs : PollMarks(member[c].ms)' = PollMarks(member[c].ms)
    BY <1>4 DEF PollMarks, Mark, Source
  <2>3. ASSUME NEW p \in Partitions PROVE LogMarks(p)' \subseteq KafkaMarks \cup {new}
    <3>1. LogMarks(p) \subseteq KafkaMarks
      BY DEF KafkaMarks
    <3>2. CASE p # q
      <4>1. LogMarks(p)' = LogMarks(p)
        BY <1>4, <1>12, <3>2 DEF LogMarks, Mark
      <4> QED BY <3>1, <4>1
    <3>3. CASE p = q
      <4>0. LogMarks(p)' = {Mark(d[i].m, <<topic, p, i - 1, d[i].epoch>>) : i \in DOMAIN d}
        BY <1>4, <1>12, <3>3 DEF LogMarks, Mark
      <4> SUFFICES ASSUME NEW i \in DOMAIN d PROVE Mark(d[i].m, <<topic, p, i - 1, d[i].epoch>>) \in KafkaMarks \cup {new}
        BY <4>0
      <4>1. CASE i \in DOMAIN l
        <5>1. Mark(d[i].m, <<topic, p, i - 1, d[i].epoch>>) \in LogMarks(p)
          BY <1>6, <1>10, <3>3, <4>1 DEF LogMarks
        <5> QED BY <3>1, <5>1
      <4>2. CASE i = Len(l) + 1
        <5>1. i - 1 = Len(l) /\ d[i].m = Latest /\ d[i].epoch = e
          BY <1>8, <1>10, <1>11, <4>2
        <5> QED BY <1>16, <3>3, <5>1
      <4> QED BY <1>10, <1>11, <4>1, <4>2
    <3> QED BY <3>2, <3>3
  <2>4. KafkaMarks' = ChainMarks' \cup (UNION {LogMarks(p)' : p \in Partitions}) \cup (UNION {PollMarks(member[c].ms)' : c \in Procs})
    BY DEF KafkaMarks
  <2>5. ChainMarks \subseteq KafkaMarks /\ \A c \in Procs : PollMarks(member[c].ms) \subseteq KafkaMarks
    BY DEF KafkaMarks
  <2> HIDE DEF KafkaMarks
  <2> QED BY <2>1, <2>2, <2>3, <2>4, <2>5
<1>18. new.n = sent + 1 /\ new.source = <<topic, q, Len(l), e>>
  BY <1>1, <1>16 DEF Mark
<1>19. KafkaNamed'
  <2> HIDE DEF KafkaMarks
  <2>1. ASSUME NEW s \in KafkaMarks PROVE s.n # new.n /\ s.source # new.source /\ InLog(s)'
    <3>1. InLog(s)
      BY <1>5 DEF KafkaNamed
    <3>2. s.n \in 1..sent /\ s.n # sent + 1
      BY <1>1, <3>1 DEF InLog
    <3>3. s.source # <<topic, q, Len(l), e>>
      <4> SUFFICES ASSUME s.source = <<topic, q, Len(l), e>> PROVE FALSE
        OBVIOUS
      <4>1. s.source[1] = topic /\ s.source[2] = q /\ s.source[3] = Len(l) /\ s.source[4] = e
        OBVIOUS
      <4>2. Len(l) < Len(l)
        BY <1>6, <1>7, <3>1, <4>1 DEF InLog
      <4> QED BY <1>11, <4>2
    <3>4. InLog(s)'
      <4>1. /\ s.source \in (0..topic) \X Partitions \X Nat \X Nat
            /\ s.source[1] = topic => s.source[4] <= kepoch[s.source[2]]
            /\ (s.source[1] = topic /\ s.source[4] = kepoch[s.source[2]]) => s.source[3] < Len(klog[s.source[2]])
        BY <3>1 DEF InLog
      <4>2. PICK p \in Partitions : p = s.source[2]
        BY <4>1
      <4>3. PICK o \in Nat : o = s.source[3]
        BY <4>1
      <4>4. o < Len(klog[p]) => o < Len(klog'[p])
        <5>1. CASE p # q
          BY <1>12, <5>1
        <5>2. CASE p = q
          BY <1>6, <1>10, <1>11, <1>12, <5>2
        <5> QED BY <5>1, <5>2
      <4>5. s.n \in 1..sent'
        BY <1>1, <3>2
      <4> QED BY <1>4, <4>1, <4>2, <4>3, <4>4, <4>5 DEF InLog
    <3> QED BY <1>18, <3>2, <3>3, <3>4
  <2>2. InLog(new)'
    <3>1. topic \in Nat /\ topic' = topic /\ kepoch' = kepoch
      BY <1>4, <1>5 DEF KafkaTypes
    <3>2. new.source[1] = topic /\ new.source[2] = q /\ new.source[3] = Len(l) /\ new.source[4] = e
      BY <1>18
    <3>3. new.source \in (0..topic) \X Partitions \X Nat \X Nat
      BY <1>11, <1>18, <3>1
    <3>4. Len(l) < Len(klog'[q])
      BY <1>10, <1>11, <1>12
    <3>5. sent + 1 \in 1..sent' /\ e <= kepoch[q]
      BY <1>1, <1>7
    <3> QED BY <1>18, <3>1, <3>2, <3>3, <3>4, <3>5 DEF InLog
  <2>3. \A s \in KafkaMarks' : InLog(s)'
    BY <1>17, <2>1, <2>2
  <2>4. OneToOne(KafkaMarks')
    <3> SUFFICES ASSUME NEW s \in KafkaMarks \cup {new}, NEW u \in KafkaMarks \cup {new}, s.n = u.n \/ s.source = u.source
                 PROVE  s = u
      BY <1>17, Zenon DEF OneToOne
    <3>1. OneToOne(KafkaMarks)
      BY <1>5 DEF KafkaNamed
    <3> QED BY <2>1, <3>1 DEF OneToOne
  <2> QED BY <2>3, <2>4 DEF KafkaNamed, OneToOne
<1>20. UNCHANGED <<topic, offsets, member, chain>> /\ kepoch' \in [Partitions -> Nat]
  BY <1>1, <1>4, <1>5 DEF KafkaTypes
<1> QED BY <1>1, <1>12, <1>13, <1>14, <1>15, <1>19, <1>20, LogStep


\* No position in use is new, and a log that lost one has another leader's epoch.
LEMMA NamedFewer ==
    ASSUME KafkaNamed, topic \in Nat, topic' \in Nat, topic <= topic', sent' = sent, KafkaMarks' \subseteq KafkaMarks,
           topic' = topic => \A p \in Partitions : kepoch[p] \in Nat /\ \/ kepoch'[p] = kepoch[p] + 1
                                                                        \/ kepoch'[p] = kepoch[p] /\ klog'[p] = klog[p]
    PROVE  KafkaNamed'
<1> HIDE DEF KafkaMarks
<1>1. OneToOne(KafkaMarks')
  BY DEF KafkaNamed, OneToOne
<1>2. ASSUME NEW s \in KafkaMarks PROVE InLog(s)'
  <2>1. /\ s.n \in 1..sent /\ s.source \in (0..topic) \X Partitions \X Nat \X Nat
        /\ s.source[1] = topic => s.source[4] <= kepoch[s.source[2]]
        /\ (s.source[1] = topic /\ s.source[4] = kepoch[s.source[2]]) => s.source[3] < Len(klog[s.source[2]])
    BY DEF KafkaNamed, InLog
  <2>2. PICK p \in Partitions : p = s.source[2]
    BY <2>1
  <2>3. s.source[1] \in 0..topic /\ s.source[3] \in Nat /\ s.source[4] \in Nat
    BY <2>1
  <2>4. s.source \in (0..topic') \X Partitions \X Nat \X Nat
    <3>1. \A t \in 0..topic : t \in 0..topic'
      OBVIOUS
    <3> QED BY <2>1, <3>1
  <2>5. s.source[1] = topic' => s.source[1] = topic /\ topic' = topic
    BY <2>3
  <2>6. s.source[1] = topic' => /\ s.source[4] <= kepoch'[p]
                                /\ s.source[4] = kepoch'[p] => s.source[3] < Len(klog'[p])
    <3> SUFFICES ASSUME s.source[1] = topic'
                 PROVE  s.source[4] <= kepoch'[p] /\ (s.source[4] = kepoch'[p] => s.source[3] < Len(klog'[p]))
      OBVIOUS
    <3>1. s.source[4] <= kepoch[p] /\ (s.source[4] = kepoch[p] => s.source[3] < Len(klog[p]))
      BY <2>1, <2>2, <2>5
    <3>2. kepoch[p] \in Nat /\ (kepoch'[p] = kepoch[p] + 1 \/ (kepoch'[p] = kepoch[p] /\ klog'[p] = klog[p]))
      BY <2>5
    <3>3. CASE kepoch'[p] = kepoch[p] + 1
      <4>1. s.source[4] <= kepoch'[p] /\ s.source[4] # kepoch'[p]
        BY <2>3, <3>1, <3>2, <3>3
      <4> QED BY <4>1
    <3>4. CASE kepoch'[p] = kepoch[p] /\ klog'[p] = klog[p]
      BY <3>1, <3>4
    <3> QED BY <3>2, <3>3, <3>4
  <2> QED BY <2>1, <2>2, <2>4, <2>6 DEF InLog
<1> QED BY <1>1, <1>2 DEF KafkaNamed, OneToOne

LEMMA KafkaTruncate ==
    ASSUME FeedInv, KafkaInv, NEW q \in Partitions, KTruncate(q), feed' = feed
    PROVE  FeedInv' /\ KafkaInv'
<1>1. /\ klog[q] # <<>> /\ Fault /\ klog' = [klog EXCEPT ![q] = Front(klog[q])] /\ kepoch' = [kepoch EXCEPT ![q] = kepoch[q] + 1]
      /\ UNCHANGED <<chain, coming, sent, stuck, topic, offsets, owner, member>>
  BY DEF KTruncate
<1>2. FeedInv' /\ sent \in Nat
  BY <1>1, FaultQuiet, FeedQuiet DEF FeedInv
<1>3. KafkaTypes /\ PartitionsInv /\ KafkaNamed
  BY DEF KafkaInv
<1>4. PICK l \in Log : l = klog[q]
  BY <1>3 DEF KafkaTypes
<1>5. PICK e \in Nat : e = kepoch[q]
  BY <1>3 DEF KafkaTypes
<1>6. PICK f : f = e + 1
  OBVIOUS
<1>7. PICK d : d = Front(l)
  OBVIOUS
<1>8. l # <<>> /\ Graded(l, e) /\ Len(l) <= sent
  BY <1>1, <1>3, <1>4, <1>5 DEF PartitionsInv
<1>9. /\ d \in Log /\ Len(d) = Len(l) - 1 /\ DOMAIN d = 1..(Len(l) - 1) /\ Graded(d, f)
      /\ \A i \in DOMAIN d : i \in DOMAIN l /\ d[i] = l[i]
      /\ SafeIn(l, e, d, f)
  BY <1>6, <1>7, <1>8, SafeFront
<1>10. klog' \in [Partitions -> Log] /\ klog'[q] = d /\ \A p \in Partitions : p # q => klog'[p] = klog[p]
  BY <1>1, <1>3, <1>4, <1>7, <1>9 DEF KafkaTypes
<1>11. kepoch' \in [Partitions -> Nat] /\ kepoch'[q] = f /\ \A p \in Partitions : p # q => kepoch'[p] = kepoch[p]
  BY <1>1, <1>3, <1>5, <1>6 DEF KafkaTypes
<1>12. PartitionsInv'
  <2> SUFFICES ASSUME NEW p \in Partitions PROVE Len(klog'[p]) <= sent /\ Graded(klog'[p], kepoch'[p])
    BY <1>1 DEF PartitionsInv, Graded
  <2>1. CASE p = q
    <3>1. Len(l) \in Nat /\ Len(d) <= sent
      BY <1>2, <1>8, <1>9, OfLog
    <3> QED BY <1>9, <1>10, <1>11, <2>1, <3>1
  <2>2. CASE p # q
    BY <1>3, <1>10, <1>11, <2>2 DEF PartitionsInv
  <2> QED BY <2>1, <2>2
<1>13. LogsOnly
  <2>1. \A p \in Partitions : \A i \in DOMAIN klog'[p] : i \in DOMAIN klog[p] /\ klog'[p][i] = klog[p][i]
    BY <1>4, <1>9, <1>10
  <2> QED BY <2>1 DEF LogsOnly
<1>14. PlacesStay
  <2>1. Stays
    BY <1>1, StaysSame
  <2> SUFFICES ASSUME NEW p \in Partitions, NEW pos \in Place, NEW M, Safe(klog[p], kepoch[p], pos, M)
               PROVE  Safe(klog[p], kepoch[p], pos, M)'
    BY DEF PlacesStay
  <2>2. PICK k : k = klog'[p]
    OBVIOUS
  <2>3. PICK g : g = kepoch'[p]
    OBVIOUS
  <2>4. Safe(k, g, pos, M)
    <3>1. CASE p = q
      BY <1>4, <1>5, <1>9, <1>10, <1>11, <2>2, <2>3, <3>1 DEF SafeIn
    <3>2. CASE p # q
      BY <1>10, <1>11, <2>2, <2>3, <3>2
    <3> QED BY <3>1, <3>2
  <2>5. Safe(k, g, pos, M)'
    BY <1>1, <1>2, <2>1, <2>4, SafeStays
  <2> QED BY <2>2, <2>3, <2>5
<1>15. KafkaMarks' \subseteq KafkaMarks
  <2>1. ChainMarks' = ChainMarks
    BY <1>1 DEF ChainMarks, Mark
  <2>2. \A c \in Procs : PollMarks(member[c].ms)' = PollMarks(member[c].ms)
    BY <1>1 DEF PollMarks, Mark, Source
  <2>3. ASSUME NEW p \in Partitions PROVE LogMarks(p)' \subseteq LogMarks(p)
    <3>1. CASE p # q
      BY <1>1, <1>10, <3>1 DEF LogMarks, Mark
    <3>2. CASE p = q
      <4>1. LogMarks(p)' = {Mark(d[i].m, <<topic, p, i - 1, d[i].epoch>>) : i \in DOMAIN d}
        BY <1>1, <1>10, <3>2 DEF LogMarks, Mark
      <4>2. LogMarks(p) = {Mark(l[i].m, <<topic, p, i - 1, l[i].epoch>>) : i \in DOMAIN l}
        BY <1>4, <3>2 DEF LogMarks
      <4> QED BY <1>9, <4>1, <4>2
    <3> QED BY <3>1, <3>2
  <2>4. KafkaMarks' = ChainMarks' \cup (UNION {LogMarks(p)' : p \in Partitions}) \cup (UNION {PollMarks(member[c].ms)' : c \in Procs})
    BY DEF KafkaMarks
  <2> QED BY <2>1, <2>2, <2>3, <2>4 DEF KafkaMarks
<1>16. KafkaNamed'
  <2>1. \A p \in Partitions : kepoch[p] \in Nat /\ (kepoch'[p] = kepoch[p] + 1 \/ (kepoch'[p] = kepoch[p] /\ klog'[p] = klog[p]))
    BY <1>3, <1>5, <1>6, <1>10, <1>11 DEF KafkaTypes
  <2>2. topic \in Nat /\ topic' = topic /\ topic <= topic' /\ sent' = sent
    BY <1>1, <1>3 DEF KafkaTypes
  <2> QED BY <1>3, <1>15, <2>1, <2>2, NamedFewer
<1> QED BY <1>1, <1>2, <1>10, <1>11, <1>12, <1>13, <1>14, <1>16, LogStep

LEMMA KafkaRecreate ==
    ASSUME FeedInv, KafkaInv, KRecreate, feed' = feed
    PROVE  FeedInv' /\ KafkaInv'
<1>1. /\ Fault /\ topic' = topic + 1
      /\ klog' = [p \in Partitions |-> <<>>] /\ kepoch' = [p \in Partitions |-> 0] /\ offsets' = [p \in Partitions |-> Start]
      /\ UNCHANGED <<chain, coming, sent, stuck, owner, member>>
  BY DEF KRecreate
<1>2. FeedInv' /\ sent \in Nat
  BY <1>1, FaultQuiet, FeedQuiet DEF FeedInv
<1>3. KafkaTypes /\ KafkaNamed /\ topic \in Nat
  BY DEF KafkaInv, KafkaTypes
<1>4. <<>> \in Log /\ Len(<<>>) = 0 /\ DOMAIN <<>> = {} /\ Graded(<<>>, 0)
  BY DEF Log, Graded
<1>5. Start \in Place
  BY DEF Start, Place
<1>6. KafkaTypes'
  BY <1>1, <1>3, <1>4, <1>5 DEF KafkaTypes, Places
<1>7. \A p \in Partitions : klog'[p] = <<>> /\ kepoch'[p] = 0 /\ offsets'[p] = Start
  BY <1>1
<1>8. PartitionsInv'
  BY <1>1, <1>2, <1>4, <1>7 DEF PartitionsInv, Graded
<1>9. InTurn' /\ KafkaOrder'
  <2>1. LogsOnly
    BY <1>4, <1>7 DEF LogsOnly
  <2> QED BY <1>1, <2>1, OrderStays DEF KafkaInv
<1>10. OffsetsSafe'
  <2> SUFFICES ASSUME NEW p \in Partitions PROVE Safe(klog[p], kepoch[p], offsets[p], {})'
    BY DEF OffsetsSafe
  <2>1. PICK l \in Log : l = <<>>
    BY <1>4
  <2>2. PICK e \in Nat : e = 0
    OBVIOUS
  <2>3. PICK pos \in Place : pos = Start
    BY <1>5
  <2>4. Safe(l, e, pos, {})
    BY <1>2, <1>4, <2>1, <2>2, <2>3, SafeStart
  <2>5. Stays
    BY <1>1, StaysSame
  <2>6. Safe(l, e, pos, {})'
    BY <1>1, <1>2, <2>4, <2>5, SafeStays
  <2> QED BY <1>7, <2>1, <2>2, <2>3, <2>6
<1>11. MembersInv'
  <2> SUFFICES ASSUME NEW c \in Procs PROVE MemberInv(member[c])' /\ MemberSafe(member[c])'
    BY DEF MembersInv
  <2>1. PICK r \in Member : r = member[c]
    BY <1>3 DEF KafkaTypes
  <2>2. MemberInv(r) /\ r.topic \in Nat
    BY <2>1, OfMember DEF KafkaInv, MembersInv
  <2>3. r.topic <= topic' /\ r.topic # topic'
    BY <1>1, <1>3, <2>2 DEF MemberInv
  <2>4. MemberSafe(r)'
    BY <2>3 DEF MemberSafe
  <2>5. MemberInv(r)'
    <3>1. \A k \in r.handled : Valid(r.ms[k].m)' => OnChain(r.ms[k].m.n)'
      BY <1>1, <2>2, StaysSame DEF MemberInv, Stays, Valid
    <3> QED BY <2>2, <2>3, <3>1 DEF MemberInv
  <2>6. r = member'[c]
    BY <1>1, <2>1
  <2> QED BY <2>4, <2>5, <2>6
<1>12. KafkaNamed'
  <2>1. ChainMarks' = ChainMarks
    BY <1>1 DEF ChainMarks, Mark
  <2>2. \A c \in Procs : PollMarks(member[c].ms)' = PollMarks(member[c].ms)
    BY <1>1 DEF PollMarks, Mark, Source
  <2>3. \A p \in Partitions : LogMarks(p)' = {}
    BY <1>4, <1>7 DEF LogMarks
  <2>4. KafkaMarks' = ChainMarks' \cup (UNION {LogMarks(p)' : p \in Partitions}) \cup (UNION {PollMarks(member[c].ms)' : c \in Procs})
    BY DEF KafkaMarks
  <2>5. KafkaMarks' \subseteq KafkaMarks
    BY <2>1, <2>2, <2>3, <2>4 DEF KafkaMarks
  <2>6. topic' \in Nat /\ topic <= topic' /\ topic' # topic /\ sent' = sent
    BY <1>1, <1>3
  <2> QED BY <1>3, <2>5, <2>6, NamedFewer
<1> QED BY <1>2, <1>6, <1>8, <1>9, <1>10, <1>11, <1>12 DEF KafkaInv


-----------------------------------------------------------------------------
(* Kafka: a member *)

LEMMA MemberQuiet ==
    ASSUME FeedInv, KafkaInv, UNCHANGED <<chain, sent, topic, klog, kepoch, offsets>>,
           NEW c \in Procs, NEW r \in Member, member' = [member EXCEPT ![c] = r], PollMarks(r.ms) \subseteq KafkaMarks,
           MemberInv(r), MemberSafe(r)
    PROVE  KafkaInv'
<1>1. Stays /\ ChainMarks' = ChainMarks /\ sent \in Nat
  BY StaysSame DEF FeedInv
<1>2. LogsOnly
  BY DEF LogsOnly
<1>3. InTurn' /\ KafkaOrder'
  BY <1>2, OrderStays DEF KafkaInv
<1>4. PlacesStay
  BY <1>1, SamePlaces DEF KafkaInv
<1>5. MemberInv(r)' /\ MemberSafe(r)'
  BY <1>1, <1>4, MemberStays
<1>6. offsets' \in Places /\ ChainMarks' \subseteq KafkaMarks
  BY <1>1 DEF KafkaInv, KafkaTypes, KafkaMarks
<1>7. OffsetsSafe'
  <2> SUFFICES ASSUME NEW p \in Partitions PROVE Safe(klog[p], kepoch[p], offsets[p], {})'
    BY DEF OffsetsSafe
  <2>1. PICK pos \in Place : pos = offsets[p]
    BY DEF KafkaInv, KafkaTypes, Places
  <2>2. Safe(klog[p], kepoch[p], pos, {})'
    BY <1>4, <2>1 DEF KafkaInv, OffsetsSafe, PlacesStay
  <2>3. pos = offsets'[p]
    BY <2>1
  <2> QED BY <2>2, <2>3
<1> QED BY <1>1, <1>3, <1>5, <1>6, <1>7, MemberStep

LEMMA NoPolls == <<>> \in Polls /\ DOMAIN <<>> = {} /\ Len(<<>>) = 0 /\ PollMarks(<<>>) = {} /\ \A k : BatchTo(<<>>, k) = {}
BY DEF Polls, PollMarks, BatchTo

LEMMA StoppedMember ==
    /\ Stopped \in Member /\ Stopped.phase = "stopped" /\ Stopped.ms = <<>> /\ Stopped.handled = {}
    /\ (topic \in Nat => MemberInv(Stopped)) /\ MemberSafe(Stopped)
<1>1. Start \in Place
  BY DEF Start, Place
<1>2. Stopped.phase = "stopped" /\ Stopped.ms = <<>> /\ Stopped.handled = {} /\ Stopped.topic = 0
  BY DEF Stopped
<1>3. Stopped \in Member
  BY <1>1, NoPolls DEF Stopped, Member, Places
<1> QED BY <1>2, <1>3, NoPolls DEF MemberInv, MemberSafe

\* A process ends, whatever became of the chains and offsets.
LEMMA MemberStops ==
    ASSUME FeedInv, KafkaInv, UNCHANGED <<topic, klog, kepoch, sent>>, Stays, InTurn', KafkaOrder',
           offsets' \in Places, OffsetsSafe', ChainMarks' \subseteq KafkaMarks, NEW c \in Procs, KStop(c)
    PROVE  KafkaInv'
<1>1. PICK r : r = Stopped
  OBVIOUS
<1>2. r \in Member /\ r.phase = "stopped" /\ r.ms = <<>> /\ r.handled = {} /\ r.topic = 0
  BY <1>1, StoppedMember DEF Stopped
<1>3. topic' \in Nat
  BY DEF KafkaInv, KafkaTypes
<1>4. MemberInv(r)' /\ MemberSafe(r)'
  BY <1>2, <1>3, NoPolls DEF MemberInv, MemberSafe
<1>5. member' = [member EXCEPT ![c] = r] /\ PollMarks(r.ms) \subseteq KafkaMarks
  BY <1>1, <1>2, NoPolls DEF KStop
<1> QED BY <1>2, <1>4, <1>5, MemberStep

LEMMA MemberDown ==
    ASSUME FeedInv, KafkaInv, UNCHANGED <<chain, sent, topic, klog, kepoch, offsets>>, NEW c \in Procs, KStop(c)
    PROVE  KafkaInv'
<1>1. PICK r : r = Stopped
  OBVIOUS
<1>2. r \in Member /\ MemberInv(r) /\ MemberSafe(r) /\ r.ms = <<>>
  BY <1>1, StoppedMember DEF KafkaInv, KafkaTypes
<1>3. member' = [member EXCEPT ![c] = r] /\ PollMarks(r.ms) \subseteq KafkaMarks
  BY <1>1, <1>2, NoPolls DEF KStop
<1> QED BY <1>2, <1>3, MemberQuiet

LEMMA KafkaDie ==
    ASSUME FeedInv, KafkaInv, NEW c \in Procs, KDie(c), feed' = feed
    PROVE  FeedInv' /\ KafkaInv'
<1>1. Fault /\ KStop(c) /\ UNCHANGED <<chain, coming, sent, stuck, topic, klog, kepoch, offsets, owner>>
  BY DEF KDie
<1>2. FeedInv'
  BY <1>1, FaultQuiet, FeedQuiet
<1> QED BY <1>1, <1>2, MemberDown

LEMMA KafkaJoin ==
    ASSUME FeedInv, KafkaInv, NEW c \in Procs, KJoin(c), feed' = feed
    PROVE  FeedInv' /\ KafkaInv'
<1>1. /\ member' = [member EXCEPT ![c] = [Stopped EXCEPT !.phase = "ready", !.topic = topic, !.pos = offsets]]
      /\ UNCHANGED <<feedVars, topic, klog, kepoch, offsets, owner>>
  BY DEF KJoin
<1>2. FeedInv' /\ UNCHANGED <<chain, sent>>
  BY <1>1, SameQuiet, FeedQuiet DEF feedVars
<1>3. PICK r : r = [Stopped EXCEPT !.phase = "ready", !.topic = topic, !.pos = offsets]
  OBVIOUS
<1>4. topic \in Nat /\ offsets \in Places
  BY DEF KafkaInv, KafkaTypes
<1>5. r \in Member /\ r.phase = "ready" /\ r.topic = topic /\ r.pos = offsets /\ r.ms = <<>> /\ r.handled = {}
  BY <1>3, <1>4, StoppedMember DEF Stopped, Member
<1>6. MemberInv(r)
  BY <1>4, <1>5, NoPolls DEF MemberInv
<1>7. MemberSafe(r)
  BY <1>5, NoPolls DEF MemberSafe, KafkaInv, OffsetsSafe
<1>8. PollMarks(r.ms) \subseteq KafkaMarks
  BY <1>5, NoPolls
<1> QED BY <1>1, <1>2, <1>3, <1>5, <1>6, <1>7, <1>8, MemberQuiet

LEMMA KafkaMove ==
    ASSUME FeedInv, KafkaInv, NEW q \in Partitions, NEW c \in Procs, KMove(q, c), feed' = feed
    PROVE  FeedInv' /\ KafkaInv'
<1>1. /\ Fault /\ member' = [member EXCEPT ![c].pos[q] = offsets[q]] /\ member[c].phase \in {"stopped", "ready"}
      /\ UNCHANGED <<chain, coming, sent, stuck, topic, klog, kepoch, offsets>>
  BY DEF KMove
<1>2. FeedInv'
  BY <1>1, FaultQuiet, FeedQuiet
<1>3. PICK s \in Member : s = member[c]
  BY DEF KafkaInv, KafkaTypes
<1>4. MemberInv(s) /\ MemberSafe(s) /\ s.ms = <<>>
  BY <1>1, <1>3 DEF KafkaInv, MembersInv, MemberInv
<1>5. PICK pos : pos = [s.pos EXCEPT ![q] = offsets[q]]
  OBVIOUS
<1>6. pos \in Places /\ \A p \in Partitions : pos[p] = IF p = q THEN offsets[p] ELSE s.pos[p]
  <2>1. s.pos \in Places /\ offsets \in Places
    BY OfMember DEF KafkaInv, KafkaTypes
  <2> QED BY <1>5, <2>1 DEF Places
<1>7. PICK r : r = [s EXCEPT !.pos = pos]
  OBVIOUS
<1>8. /\ r \in Member /\ r.phase = s.phase /\ r.topic = s.topic /\ r.pos = pos /\ r.ms = s.ms
      /\ r.handled = s.handled /\ r.err = s.err
  BY <1>6, <1>7 DEF Member
<1>9. member' = [member EXCEPT ![c] = r]
  BY <1>1, <1>3, <1>5, <1>7
<1>10. MemberInv(r)
  BY <1>4, <1>8 DEF MemberInv
<1>11. MemberSafe(r)
  <2>1. \A p \in Partitions : Safe(klog[p], kepoch[p], offsets[p], {})
    BY DEF KafkaInv, OffsetsSafe
  <2>2. s.phase # "stopped" /\ s.topic = topic => \A p \in Partitions : Safe(klog[p], kepoch[p], s.pos[p], {})
    BY <1>4, NoPolls DEF MemberSafe
  <2> QED BY <1>4, <1>6, <1>8, <2>1, <2>2, NoPolls DEF MemberSafe
<1>12. PollMarks(r.ms) \subseteq KafkaMarks
  BY <1>4, <1>8, NoPolls
<1> QED BY <1>1, <1>2, <1>8, <1>9, <1>10, <1>11, <1>12, MemberQuiet

-----------------------------------------------------------------------------
(* Kafka: a poll *)

\* Behind a record, when all up to it is taken care of.
LEMMA SafeBehind ==
    ASSUME NEW l \in Log, NEW e \in Nat, Graded(l, e), sent \in Nat, Len(l) <= sent, NEW i \in DOMAIN l, NEW M,
           \A k \in 1..i : Valid(l[k].m) => (OnChain(l[k].m.n) \/ l[k].m.n \in M),
           NEW pos, pos = [off |-> i, epoch |-> l[i].epoch]
    PROVE  Safe(l, e, pos, M) /\ pos \in Place
<1>1. Len(l) \in Nat /\ DOMAIN l = 1..Len(l) /\ l[i].epoch \in Nat /\ i \in Nat /\ i <= Len(l)
  BY OfLog
<1>2. pos \in Place /\ pos.off = i /\ pos.epoch = l[i].epoch
  BY <1>1 DEF Place
<1>3. ResumeIn(l, pos) = i
  BY ResumeNext
<1>4. l[i].epoch <= e
  BY DEF Graded
<1>5. Sound(l, e, pos)
  BY <1>1, <1>2, <1>4 DEF Sound
<1> QED BY <1>2, <1>3, <1>5 DEF Safe, Covered

\* Where it goes on is as safe as the position.
LEMMA SafeBack ==
    ASSUME NEW l \in Log, NEW e \in Nat, Graded(l, e), sent \in Nat, Len(l) <= sent, NEW pos \in Place, NEW M,
           Safe(l, e, pos, M), NEW back, back = [pos EXCEPT !.off = ResumeIn(l, pos)]
    PROVE  Safe(l, e, back, M) /\ back \in Place
<1>1. ResumeIn(l, pos) \in 0..Len(l) /\ Len(l) \in Nat /\ pos.epoch \in Nat /\ pos.off \in Nat
  BY ResumeType, OfLog DEF Place
<1>2. EndOf(l, pos.epoch) \in 0..Len(l)
  BY <1>1, EndIs
<1>3. back \in Place /\ back.off = ResumeIn(l, pos) /\ back.epoch = pos.epoch
  BY <1>1 DEF Place
<1> HIDE DEF EndOf
<1>4. ResumeIn(l, back) = ResumeIn(l, pos)
  BY <1>1, <1>2, <1>3 DEF ResumeIn
<1> HIDE DEF ResumeIn
<1>5. Sound(l, e, back)
  BY <1>1, <1>3 DEF Safe, Sound
<1> QED BY <1>3, <1>4, <1>5 DEF Safe, Covered

\* The order in which a poll's records come: all of them, a partition's in its own.
LEMMA OrdersOf ==
    ASSUME NEW take \in [Partitions -> 0..MaxBatch],
           NEW slots, slots = {x \in Partitions \X (1..MaxBatch) : x[2] <= take[x[1]]}, NEW order \in Orders(slots)
    PROVE  \E n \in Nat :
             /\ DOMAIN order = 1..n
             /\ \A i \in 1..n : order[i][1] \in Partitions /\ order[i][2] \in 1..take[order[i][1]]
             /\ \A p \in Partitions : \A k \in 1..take[p] : \E i \in 1..n : order[i][1] = p /\ order[i][2] = k
             /\ \A i, h \in 1..n : (i < h /\ order[i][1] = order[h][1]) => order[i][2] < order[h][2]
<1>1. MaxBatch \in Nat /\ NPartitions \in Nat
  BY KafkaAssumption
<1>2. IsFiniteSet(slots)
  <2>1. IsFiniteSet(1..MaxBatch) /\ IsFiniteSet(Partitions)
    BY <1>1, UpTo DEF Partitions
  <2>2. IsFiniteSet(Partitions \X (1..MaxBatch))
    BY <2>1, FS_Product
  <2>3. slots \in SUBSET (Partitions \X (1..MaxBatch))
    OBVIOUS
  <2> QED BY <2>2, <2>3, FS_Subset
<1>3. PICK n \in Nat : n = Cardinality(slots)
  BY <1>2, FS_CardinalityType
<1>4. /\ order \in [1..n -> slots] /\ (\A x \in slots : \E i \in 1..n : order[i] = x)
      /\ \A i, h \in 1..n : (i < h /\ order[i][1] = order[h][1]) => order[i][2] < order[h][2]
  <2>1. /\ order \in [1..n -> slots] /\ (\A x \in slots : \E i \in DOMAIN order : order[i] = x)
        /\ \A i, h \in DOMAIN order : (i < h /\ order[i][1] = order[h][1]) => order[i][2] < order[h][2]
    <3>1. order \in Orders(slots)
      OBVIOUS
    <3> QED BY <1>3, <3>1, Zenon DEF Orders
  <2>2. DOMAIN order = 1..n
    BY <2>1
  <2> QED BY <2>1, <2>2, Zenon
<1>5. \A i \in 1..n : order[i][1] \in Partitions /\ order[i][2] \in 1..take[order[i][1]]
  <2> SUFFICES ASSUME NEW i \in 1..n PROVE order[i][1] \in Partitions /\ order[i][2] \in 1..take[order[i][1]]
    OBVIOUS
  <2>1. order[i] \in Partitions \X (1..MaxBatch) /\ order[i][2] <= take[order[i][1]]
    BY <1>4
  <2>2. order[i][1] \in Partitions /\ order[i][2] \in 1..MaxBatch
    BY <2>1
  <2>3. take[order[i][1]] \in 0..MaxBatch
    BY <2>2
  <2> QED BY <1>1, <2>1, <2>2, <2>3
<1>6. ASSUME NEW p \in Partitions, NEW k \in 1..take[p] PROVE \E i \in 1..n : order[i][1] = p /\ order[i][2] = k
  <2>1. k \in 1..MaxBatch /\ k <= take[p]
    <3>1. take[p] \in 0..MaxBatch
      OBVIOUS
    <3> QED BY <1>1, <3>1
  <2>2. <<p, k>> \in slots
    BY <2>1
  <2>3. PICK i \in 1..n : order[i] = <<p, k>>
    BY <1>4, <2>2
  <2> QED BY <2>3
<1>7. DOMAIN order = 1..n
  BY <1>4
<1> QED BY <1>4, <1>5, <1>6, <1>7


\* The n records of a poll: the i-th is partition q[i]'s at j[i].  Of each partition they
\* are the next ones, take[p] from where it goes on, at[p], in their order.
Taken(old, at, take, n, q, j) ==
    /\ \A p \in Partitions : /\ Safe(klog[p], kepoch[p], old[p], {}) /\ at[p] = ResumeIn(klog[p], old[p])
                             /\ take[p] \in Nat /\ at[p] + take[p] <= Len(klog[p])
    /\ \A i \in 1..n : q[i] \in Partitions /\ j[i] \in (at[q[i]] + 1)..(at[q[i]] + take[q[i]])
    /\ \A p \in Partitions : \A k \in (at[p] + 1)..(at[p] + take[p]) : \E i \in 1..n : q[i] = p /\ j[i] = k
    /\ \A i, h \in 1..n : (i < h /\ q[i] = q[h]) => j[i] < j[h]

\* A batch and the position behind it as they have to be.
Batched(ms, pos) ==
    /\ ms \in Polls /\ pos \in Places /\ PollMarks(ms) \subseteq KafkaMarks
    /\ \A i \in DOMAIN ms : ms[i].topic = topic
    /\ \A i, h \in DOMAIN ms : (i < h /\ ms[i].p = ms[h].p) => ms[i].off < ms[h].off
    /\ \A p \in Partitions : Safe(klog[p], kepoch[p], pos[p], BatchTo(ms, Len(ms)))
    /\ \A i \in DOMAIN ms : Safe(klog[ms[i].p], kepoch[ms[i].p], NextOffset(ms[i]), BatchTo(ms, i))

Behind(old, at, take, p) ==
    IF take[p] = 0 THEN [old[p] EXCEPT !.off = at[p]] ELSE NextOffset(Polled(p, at[p] + take[p]))

LEMMA BatchSafe ==
    ASSUME FeedInv, KafkaInv, NEW old \in Places, NEW at, NEW take, NEW n \in Nat, NEW q, NEW j,
           Taken(old, at, take, n, q, j),
           NEW ms, ms = [i \in 1..n |-> Polled(q[i], j[i])],
           NEW pos, pos = [p \in Partitions |-> Behind(old, at, take, p)]
    PROVE  Batched(ms, pos)
<1>a. /\ \A p \in Partitions : /\ Safe(klog[p], kepoch[p], old[p], {}) /\ at[p] = ResumeIn(klog[p], old[p])
                               /\ take[p] \in Nat /\ at[p] + take[p] <= Len(klog[p])
      /\ \A i \in 1..n : q[i] \in Partitions /\ j[i] \in (at[q[i]] + 1)..(at[q[i]] + take[q[i]])
      /\ \A p \in Partitions : \A k \in (at[p] + 1)..(at[p] + take[p]) : \E i \in 1..n : q[i] = p /\ j[i] = k
      /\ \A i, h \in 1..n : (i < h /\ q[i] = q[h]) => j[i] < j[h]
  BY DEF Taken
<1>1. KafkaTypes /\ sent \in Nat /\ topic \in Nat
  BY DEF KafkaInv, KafkaTypes, FeedInv
<1>2. ASSUME NEW p \in Partitions
      PROVE  /\ klog[p] \in Log /\ kepoch[p] \in Nat /\ Graded(klog[p], kepoch[p]) /\ Len(klog[p]) <= sent
             /\ Len(klog[p]) \in Nat /\ DOMAIN klog[p] = 1..Len(klog[p]) /\ at[p] \in 0..Len(klog[p]) /\ old[p] \in Place
  <2>1. klog[p] \in Log /\ kepoch[p] \in Nat /\ Graded(klog[p], kepoch[p]) /\ Len(klog[p]) <= sent
    BY <1>1 DEF KafkaInv, KafkaTypes, PartitionsInv
  <2>2. Len(klog[p]) \in Nat /\ DOMAIN klog[p] = 1..Len(klog[p])
    BY <2>1, OfLog
  <2>3. old[p] \in Place
    BY DEF Places
  <2>4. ResumeIn(klog[p], old[p]) \in 0..Len(klog[p])
    BY <2>1, <2>3, ResumeType
  <2> QED BY <1>a, <2>1, <2>2, <2>3, <2>4
\* A place within a log, and the record a poll returns for it.
<1>3. ASSUME NEW p \in Partitions, NEW k \in (at[p] + 1)..(at[p] + take[p])
      PROVE  k \in DOMAIN klog[p] /\ k \in Nat
  <2>1. at[p] \in 0..Len(klog[p]) /\ Len(klog[p]) \in Nat /\ take[p] \in Nat /\ at[p] + take[p] <= Len(klog[p])
        /\ DOMAIN klog[p] = 1..Len(klog[p])
    BY <1>a, <1>2
  <2> QED BY <2>1
<1>4. ASSUME NEW p \in Partitions, NEW k \in DOMAIN klog[p]
      PROVE  /\ Polled(p, k) \in Fetched /\ Polled(p, k).p = p /\ Polled(p, k).off = k - 1 /\ Polled(p, k).m = klog[p][k].m
             /\ Polled(p, k).topic = topic /\ Polled(p, k).epoch = klog[p][k].epoch
             /\ NextOffset(Polled(p, k)) = [off |-> k, epoch |-> klog[p][k].epoch]
  <2>1. k \in Nat /\ k - 1 \in Nat /\ klog[p][k].epoch \in Nat /\ klog[p][k].m \in Message
    BY <1>2, OfLog
  <2>2. (k - 1) + 1 = k
    BY <2>1
  <2> QED BY <1>1, <2>1, <2>2 DEF Polled, Fetched, NextOffset
<1>5. \A i \in 1..n : q[i] \in Partitions /\ j[i] \in DOMAIN klog[q[i]] /\ j[i] \in Nat
  BY <1>a, <1>3
<1>6. ms \in Polls /\ DOMAIN ms = 1..n /\ Len(ms) = n /\ \A i \in 1..n : ms[i] = Polled(q[i], j[i])
  <2>1. PICK w : w = [i \in 1..n |-> Polled(q[i], j[i])]
    OBVIOUS
  <2>2. \A i \in 1..n : w[i] \in Fetched /\ w[i] = Polled(q[i], j[i])
    BY <1>4, <1>5, <2>1
  <2>3. [i \in 1..n |-> w[i]] \in Seq(Fetched)
    BY <2>2, IsSeq
  <2>4. ms = [i \in 1..n |-> w[i]]
    BY <2>1
  <2>5. DOMAIN ms = 1..n /\ ms \in Seq(Fetched)
    BY <2>3, <2>4
  <2>6. Len(ms) = n
    BY <2>5
  <2> QED BY <2>1, <2>2, <2>4, <2>5, <2>6 DEF Polls
<1>7. \A i \in 1..n : /\ ms[i].p = q[i] /\ ms[i].off = j[i] - 1 /\ ms[i].m = klog[q[i]][j[i]].m /\ ms[i].topic = topic
                      /\ ms[i].epoch = klog[q[i]][j[i]].epoch
                      /\ NextOffset(ms[i]) = [off |-> j[i], epoch |-> klog[q[i]][j[i]].epoch]
  BY <1>4, <1>5, <1>6
<1>8. ASSUME NEW i \in 1..n, NEW h \in 1..n, i < h, ms[i].p = ms[h].p PROVE ms[i].off < ms[h].off
  <2>1. j[i] < j[h] /\ j[i] \in Nat /\ j[h] \in Nat
    BY <1>a, <1>5, <1>7, <1>8
  <2>2. ms[i].off = j[i] - 1 /\ ms[h].off = j[h] - 1
    BY <1>7
  <2> QED BY <2>1, <2>2
<1>9. PollMarks(ms) \subseteq KafkaMarks
  <2> SUFFICES ASSUME NEW i \in 1..n PROVE Mark(ms[i].m, Source(ms[i])) \in KafkaMarks
    BY <1>6 DEF PollMarks
  <2>1. Mark(ms[i].m, Source(ms[i])) = Mark(klog[q[i]][j[i]].m, <<topic, q[i], j[i] - 1, klog[q[i]][j[i]].epoch>>)
    BY <1>7 DEF Source
  <2>2. Mark(klog[q[i]][j[i]].m, <<topic, q[i], j[i] - 1, klog[q[i]][j[i]].epoch>>) \in LogMarks(q[i])
    BY <1>5 DEF LogMarks
  <2> QED BY <1>5, <2>1, <2>2 DEF KafkaMarks
\* What is up to a place that the batch reaches is on its chain, or of the batch so far.
<1>10. ASSUME NEW p \in Partitions, NEW k \in 1..at[p] PROVE Valid(klog[p][k].m) => OnChain(klog[p][k].m.n)
  BY <1>a DEF Safe, Covered
<1>11. ASSUME NEW p \in Partitions, NEW h \in 1..n, NEW g \in 1..n, q[g] = p, j[h] <= j[g], q[h] = p PROVE h <= g
  <2>1. g < h => j[g] < j[h]
    BY <1>a, <1>11
  <2>2. j[g] \in Nat /\ j[h] \in Nat /\ g \in Nat /\ h \in Nat
    BY <1>5
  <2> QED BY <1>11, <2>1, <2>2
<1>12. ASSUME NEW p \in Partitions, NEW top \in (at[p] + 1)..(at[p] + take[p]), NEW g \in 1..n,
              (q[g] = p /\ j[g] = top) \/ g = n
       PROVE  Safe(klog[p], kepoch[p], [off |-> top, epoch |-> klog[p][top].epoch], BatchTo(ms, g))
              /\ [off |-> top, epoch |-> klog[p][top].epoch] \in Place
  <2>1. \A k \in 1..top : Valid(klog[p][k].m) => (OnChain(klog[p][k].m.n) \/ klog[p][k].m.n \in BatchTo(ms, g))
    <3> SUFFICES ASSUME NEW k \in 1..top, ~(k \in 1..at[p]) PROVE klog[p][k].m.n \in BatchTo(ms, g)
      BY <1>10
    <3>0. at[p] \in Nat /\ take[p] \in Nat /\ top \in Nat
      BY <1>a, <1>2
    <3>1. k \in (at[p] + 1)..(at[p] + take[p]) /\ k <= top
      BY <3>0
    <3>2. PICK h \in 1..n : q[h] = p /\ j[h] = k
      BY <1>a, <3>1
    <3>3. h <= g
      <4>1. CASE q[g] = p /\ j[g] = top
        BY <1>11, <3>1, <3>2, <4>1
      <4>2. CASE g = n
        BY <4>2
      <4> QED BY <1>12, <4>1, <4>2
    <3>4. ms[h].m = klog[p][k].m
      BY <1>7, <3>2
    <3> QED BY <1>6, <3>3, <3>4 DEF BatchTo
  <2>2. top \in DOMAIN klog[p]
    BY <1>3
  <2>3. PICK M : M = BatchTo(ms, g)
    OBVIOUS
  <2>4. PICK to : to = [off |-> top, epoch |-> klog[p][top].epoch]
    OBVIOUS
  <2>5. PICK l \in Log : l = klog[p]
    BY <1>2
  <2>6. PICK e \in Nat : e = kepoch[p]
    BY <1>2
  <2>7. Graded(l, e) /\ Len(l) <= sent /\ top \in DOMAIN l /\ to = [off |-> top, epoch |-> l[top].epoch]
    BY <1>2, <2>2, <2>4, <2>5, <2>6
  <2>8. \A k \in 1..top : Valid(l[k].m) => (OnChain(l[k].m.n) \/ l[k].m.n \in M)
    BY <2>1, <2>3, <2>5
  <2>9. Safe(l, e, to, M) /\ to \in Place
    BY <1>1, <2>7, <2>8, SafeBehind
  <2> QED BY <2>3, <2>4, <2>5, <2>6, <2>9
<1>13. ASSUME NEW p \in Partitions PROVE pos[p] \in Place /\ Safe(klog[p], kepoch[p], pos[p], BatchTo(ms, Len(ms)))
  <2>0. at[p] \in Nat /\ take[p] \in Nat
    BY <1>a, <1>2
  <2>1. CASE take[p] = 0
    <3>1. PICK back : back = [old[p] EXCEPT !.off = ResumeIn(klog[p], old[p])]
      OBVIOUS
    <3>2. pos[p] = back
      BY <1>a, <2>1, <3>1 DEF Behind
    <3>3. PICK M : M = BatchTo(ms, Len(ms))
      OBVIOUS
    <3>4. Safe(klog[p], kepoch[p], old[p], M)
      BY <1>a DEF Safe, Covered
    <3>5. Safe(klog[p], kepoch[p], back, M) /\ back \in Place
      BY <1>1, <1>2, <3>1, <3>4, SafeBack
    <3> QED BY <3>2, <3>3, <3>5
  <2>2. CASE take[p] # 0
    <3>1. PICK top : top = at[p] + take[p]
      OBVIOUS
    <3>2. top \in (at[p] + 1)..(at[p] + take[p])
      BY <2>0, <2>2, <3>1
    <3>3. pos[p] = [off |-> top, epoch |-> klog[p][top].epoch]
      BY <1>3, <1>4, <2>2, <3>1, <3>2 DEF Behind
    <3>4. \E i \in 1..n : TRUE
      BY <1>a, <3>2
    <3>5. n \in 1..n /\ Len(ms) = n
      BY <1>6, <3>4
    <3>6. Safe(klog[p], kepoch[p], [off |-> top, epoch |-> klog[p][top].epoch], BatchTo(ms, n))
          /\ [off |-> top, epoch |-> klog[p][top].epoch] \in Place
      BY <1>12, <3>2, <3>5
    <3> QED BY <3>3, <3>5, <3>6
  <2> QED BY <2>1, <2>2
<1>14. ASSUME NEW i \in 1..n PROVE Safe(klog[ms[i].p], kepoch[ms[i].p], NextOffset(ms[i]), BatchTo(ms, i))
  <2>1. PICK p \in Partitions : p = q[i]
    BY <1>a
  <2>2. PICK top : top = j[i]
    OBVIOUS
  <2>3. top \in (at[p] + 1)..(at[p] + take[p]) /\ q[i] = p /\ j[i] = top
    BY <1>a, <2>1, <2>2
  <2>4. Safe(klog[p], kepoch[p], [off |-> top, epoch |-> klog[p][top].epoch], BatchTo(ms, i))
    BY <1>12, <2>3
  <2> QED BY <1>7, <2>3, <2>4
<1>15. pos \in Places
  <2>1. DOMAIN pos = Partitions /\ pos = [p \in Partitions |-> pos[p]]
    OBVIOUS
  <2> QED BY <1>13, <2>1 DEF Places
<1>16. \A i, h \in DOMAIN ms : (i < h /\ ms[i].p = ms[h].p) => ms[i].off < ms[h].off
  BY <1>6, <1>8
<1>17. \A i \in DOMAIN ms : ms[i].topic = topic
  BY <1>6, <1>7
<1> QED BY <1>6, <1>9, <1>13, <1>14, <1>15, <1>16, <1>17 DEF Batched


LEMMA KafkaPoll ==
    ASSUME FeedInv, KafkaInv, NEW c \in Procs, KPoll(c), feed' = feed
    PROVE  FeedInv' /\ KafkaInv'
<1> DEFINE from(p) == Resume(p, member[c].pos[p])
<1>1. /\ member[c].phase = "ready"
      /\ UNCHANGED <<feedVars, topic, klog, kepoch, offsets, owner>>
      /\ \/ KStop(c)
         \/ /\ member[c].topic = topic
            /\ \E take \in [Partitions -> 0..MaxBatch] :
                 /\ \A p \in Partitions : take[p] <= IF owner[p] = c THEN Len(klog[p]) - from(p) ELSE 0
                 /\ \E order \in Orders({x \in Partitions \X (1..MaxBatch) : x[2] <= take[x[1]]}) :
                      member' = [member EXCEPT ![c].phase = "batch",
                                    ![c].ms = [i \in DOMAIN order |-> Polled(order[i][1], from(order[i][1]) + order[i][2])],
                                    ![c].pos = [p \in Partitions |-> IF take[p] = 0 THEN [member[c].pos[p] EXCEPT !.off = from(p)]
                                                  ELSE NextOffset(Polled(p, from(p) + take[p]))]]
  BY Zenon DEF KPoll
<1>2. FeedInv' /\ UNCHANGED <<chain, sent>>
  BY <1>1, SameQuiet, FeedQuiet DEF feedVars
<1>3. CASE KStop(c)
  BY <1>1, <1>2, <1>3, MemberDown
<1>4. CASE ~KStop(c)
  <2>1. PICK take \in [Partitions -> 0..MaxBatch] :
                 /\ \A p \in Partitions : take[p] <= IF owner[p] = c THEN Len(klog[p]) - from(p) ELSE 0
                 /\ \E order \in Orders({x \in Partitions \X (1..MaxBatch) : x[2] <= take[x[1]]}) :
                      member' = [member EXCEPT ![c].phase = "batch",
                                    ![c].ms = [i \in DOMAIN order |-> Polled(order[i][1], from(order[i][1]) + order[i][2])],
                                    ![c].pos = [p \in Partitions |-> IF take[p] = 0 THEN [member[c].pos[p] EXCEPT !.off = from(p)]
                                                  ELSE NextOffset(Polled(p, from(p) + take[p]))]]
    BY <1>1, <1>4, Zenon
  <2>2. PICK slots : slots = {x \in Partitions \X (1..MaxBatch) : x[2] <= take[x[1]]}
    OBVIOUS
  <2>3. PICK order \in Orders(slots) :
                      member' = [member EXCEPT ![c].phase = "batch",
                                    ![c].ms = [i \in DOMAIN order |-> Polled(order[i][1], from(order[i][1]) + order[i][2])],
                                    ![c].pos = [p \in Partitions |-> IF take[p] = 0 THEN [member[c].pos[p] EXCEPT !.off = from(p)]
                                                  ELSE NextOffset(Polled(p, from(p) + take[p]))]]
    BY <2>1, <2>2, Zenon
  <2>4. PICK r \in Member : r = member[c]
    BY DEF KafkaInv, KafkaTypes
  <2>5. MemberInv(r) /\ MemberSafe(r) /\ r.phase = "ready" /\ r.topic = topic /\ r.ms = <<>> /\ r.handled = {}
    BY <1>1, <1>4, <2>4 DEF KafkaInv, MembersInv, MemberInv
  <2>6. PICK old \in Places : old = r.pos
    BY OfMember
  <2>7. \A p \in Partitions : Safe(klog[p], kepoch[p], old[p], {})
    BY <2>5, <2>6, NoPolls DEF MemberSafe
  <2>8. PICK at : at = [p \in Partitions |-> ResumeIn(klog[p], old[p])]
    OBVIOUS
  <2>9. \A p \in Partitions : from(p) = at[p] /\ at[p] = ResumeIn(klog[p], old[p])
    BY <2>4, <2>6, <2>8, ResumeIs
  <2>10. ASSUME NEW p \in Partitions PROVE at[p] \in Nat /\ take[p] \in Nat /\ at[p] + take[p] <= Len(klog[p])
    <3>1. klog[p] \in Log /\ Graded(klog[p], kepoch[p])
      BY DEF KafkaInv, KafkaTypes, PartitionsInv
    <3>2. at[p] \in 0..Len(klog[p]) /\ Len(klog[p]) \in Nat
      BY <2>9, <3>1, ResumeType, OfLog DEF Places
    <3>3. take[p] \in 0..MaxBatch /\ MaxBatch \in Nat
      BY KafkaAssumption
    <3>4. take[p] <= Len(klog[p]) - at[p] \/ take[p] <= 0
      BY <2>1, <2>9
    <3> QED BY <3>2, <3>3, <3>4
  <2>11. PICK n \in Nat :
             /\ DOMAIN order = 1..n
             /\ \A i \in 1..n : order[i][1] \in Partitions /\ order[i][2] \in 1..take[order[i][1]]
             /\ \A p \in Partitions : \A k \in 1..take[p] : \E i \in 1..n : order[i][1] = p /\ order[i][2] = k
             /\ \A i, h \in 1..n : (i < h /\ order[i][1] = order[h][1]) => order[i][2] < order[h][2]
    BY <2>2, OrdersOf
  <2>12. PICK q : q = [i \in 1..n |-> order[i][1]]
    OBVIOUS
  <2>13. PICK j : j = [i \in 1..n |-> at[order[i][1]] + order[i][2]]
    OBVIOUS
  <2>14. \A i \in 1..n : q[i] \in Partitions /\ j[i] \in (at[q[i]] + 1)..(at[q[i]] + take[q[i]])
    <3> SUFFICES ASSUME NEW i \in 1..n PROVE q[i] \in Partitions /\ j[i] \in (at[q[i]] + 1)..(at[q[i]] + take[q[i]])
      OBVIOUS
    <3>1. q[i] \in Partitions /\ order[i][2] \in 1..take[q[i]] /\ j[i] = at[q[i]] + order[i][2]
      BY <2>11, <2>12, <2>13
    <3>2. at[q[i]] \in Nat /\ take[q[i]] \in Nat
      BY <2>10, <3>1
    <3> QED BY <3>1, <3>2
  <2>15. \A p \in Partitions : \A k \in (at[p] + 1)..(at[p] + take[p]) : \E i \in 1..n : q[i] = p /\ j[i] = k
    <3> SUFFICES ASSUME NEW p \in Partitions, NEW k \in (at[p] + 1)..(at[p] + take[p]) PROVE \E i \in 1..n : q[i] = p /\ j[i] = k
      OBVIOUS
    <3>1. at[p] \in Nat /\ take[p] \in Nat
      BY <2>10
    <3>2. k - at[p] \in 1..take[p] /\ at[p] + (k - at[p]) = k
      BY <3>1
    <3>3. PICK i \in 1..n : order[i][1] = p /\ order[i][2] = k - at[p]
      BY <2>11, <3>2
    <3> QED BY <2>12, <2>13, <3>2, <3>3
  <2>16. \A i, h \in 1..n : (i < h /\ q[i] = q[h]) => j[i] < j[h]
    <3> SUFFICES ASSUME NEW i \in 1..n, NEW h \in 1..n, i < h, q[i] = q[h] PROVE j[i] < j[h]
      OBVIOUS
    <3>1. order[i][1] = q[i] /\ order[h][1] = q[i] /\ order[i][2] < order[h][2] /\ order[i][2] \in 1..take[q[i]] /\ order[h][2] \in 1..take[q[i]]
      BY <2>11, <2>12
    <3>2. j[i] = at[q[i]] + order[i][2] /\ j[h] = at[q[i]] + order[h][2]
      BY <2>13, <3>1
    <3>3. at[q[i]] \in Nat /\ take[q[i]] \in Nat
      BY <2>10, <2>14
    <3> QED BY <3>1, <3>2, <3>3
  <2>17. PICK ms : ms = [i \in 1..n |-> Polled(q[i], j[i])]
    OBVIOUS
  <2>18. PICK pos : pos = [p \in Partitions |-> Behind(old, at, take, p)]
    OBVIOUS
  <2>19. /\ ms \in Polls /\ pos \in Places /\ PollMarks(ms) \subseteq KafkaMarks
         /\ \A i \in DOMAIN ms : ms[i].topic = topic
         /\ \A i, h \in DOMAIN ms : (i < h /\ ms[i].p = ms[h].p) => ms[i].off < ms[h].off
         /\ \A p \in Partitions : Safe(klog[p], kepoch[p], pos[p], BatchTo(ms, Len(ms)))
         /\ \A i \in DOMAIN ms : Safe(klog[ms[i].p], kepoch[ms[i].p], NextOffset(ms[i]), BatchTo(ms, i))
    <3>1. Taken(old, at, take, n, q, j)
      BY <2>7, <2>9, <2>10, <2>14, <2>15, <2>16 DEF Taken
    <3>2. Batched(ms, pos)
      BY <2>17, <2>18, <3>1, BatchSafe
    <3> QED BY <3>2 DEF Batched
  <2>20. [i \in DOMAIN order |-> Polled(order[i][1], from(order[i][1]) + order[i][2])] = ms
    <3>1. \A i \in 1..n : order[i][1] = q[i] /\ from(order[i][1]) = at[q[i]] /\ at[q[i]] + order[i][2] = j[i]
      BY <2>9, <2>11, <2>12, <2>13
    <3> HIDE DEF from
    <3>2. \A i \in 1..n : Polled(order[i][1], from(order[i][1]) + order[i][2]) = Polled(q[i], j[i])
      BY <3>1
    <3> QED BY <2>11, <2>17, <3>2
  <2>21. [p \in Partitions |-> IF take[p] = 0 THEN [member[c].pos[p] EXCEPT !.off = from(p)]
                                                  ELSE NextOffset(Polled(p, from(p) + take[p]))] = pos
    <3>1. \A p \in Partitions : from(p) = at[p] /\ member[c].pos[p] = old[p]
      BY <2>4, <2>6, <2>9
    <3> HIDE DEF from
    <3> QED BY <2>18, <3>1 DEF Behind
  <2>22. PICK s : s = [r EXCEPT !.phase = "batch", !.ms = ms, !.pos = pos]
    OBVIOUS
  <2>23. member' = [member EXCEPT ![c] = s]
    <3>1. member' = [member EXCEPT ![c].phase = "batch", ![c].ms = ms, ![c].pos = pos]
      BY <2>3, <2>20, <2>21
    <3> QED BY <2>4, <2>22, <3>1
  <2>24. /\ s \in Member /\ s.phase = "batch" /\ s.topic = topic /\ s.ms = ms /\ s.pos = pos /\ s.handled = {}
    BY <2>5, <2>19, <2>22 DEF Member
  <2>25. MemberInv(s)
    <3>1. topic \in Nat /\ DOMAIN ms = DOMAIN s.ms
      BY <2>24 DEF KafkaInv, KafkaTypes
    <3> QED BY <2>19, <2>24, <3>1 DEF MemberInv
  <2>26. MemberSafe(s)
    BY <2>19, <2>24 DEF MemberSafe
  <2> QED BY <1>1, <1>2, <2>19, <2>23, <2>24, <2>25, <2>26, MemberQuiet
<1> QED BY <1>3, <1>4


-----------------------------------------------------------------------------
(* Kafka: a batch is committed *)

\* recs are the records of ms that can be committed, from the places at, in their order.
RecordsAt(ms, recs, at) ==
    /\ recs \in Seq(Recs)
    /\ \A k \in DOMAIN recs : /\ at[k] \in DOMAIN ms /\ Valid(ms[at[k]].m)
                              /\ recs[k] = Record(ms[at[k]].m, Source(ms[at[k]]))
    /\ \A x \in DOMAIN ms : Valid(ms[x].m) => \E k \in DOMAIN recs : at[k] = x
    /\ \A i, k \in DOMAIN recs : i < k => at[i] < at[k]

LEMMA SourceType ==
    ASSUME NEW x \in Fetched PROVE Source(x) \in Sources /\ x.m \in Message
<1>1. x.topic \in Nat /\ x.p \in Partitions /\ x.off \in Nat /\ x.epoch \in Nat /\ x.m \in Message
  BY DEF Fetched
<1>2. x.p \in Nat
  <2>1. Partitions \subseteq Nat
    BY KafkaAssumption DEF Partitions
  <2> QED BY <1>1, <2>1
<1>3. Source(x) \in Nat \X Nat \X Nat \X Nat
  BY <1>1, <1>2 DEF Source
<1> QED BY <1>1, <1>3 DEF Sources

LEMMA BatchRecords ==
    ASSUME NEW ms \in Polls, NEW refused, refused = {i \in DOMAIN ms : ~Valid(ms[i].m)},
           NEW recs, recs = Only([i \in DOMAIN ms |-> Record(ms[i].m, Source(ms[i]))], DOMAIN ms \ refused)
    PROVE  (recs = <<>> => refused = DOMAIN ms) /\ \E at : RecordsAt(ms, recs, at)
<1> DEFINE T == {Record(ms[i].m, Source(ms[i])) : i \in DOMAIN ms}
<1>1. PICK w : w = [i \in DOMAIN ms |-> Record(ms[i].m, Source(ms[i]))]
  OBVIOUS
<1>2. Len(ms) \in Nat /\ DOMAIN ms = 1..Len(ms) /\ \A i \in DOMAIN ms : ms[i] \in Fetched
  BY OfPolls
<1>3. DOMAIN w = DOMAIN ms /\ \A i \in DOMAIN ms : w[i] = Record(ms[i].m, Source(ms[i])) /\ w[i] \in T
  BY <1>1
<1> HIDE DEF T
<1>4. w \in Seq(T)
  <2>1. [i \in 1..Len(ms) |-> w[i]] \in Seq(T)
    BY <1>2, <1>3, IsSeq
  <2>2. w = [i \in 1..Len(ms) |-> w[i]]
    BY <1>1, <1>2
  <2> QED BY <2>1, <2>2
<1>5. PICK S : S = DOMAIN ms \ refused
  OBVIOUS
<1>6. S \subseteq DOMAIN w /\ \A x : x \in S <=> x \in DOMAIN ms /\ Valid(ms[x].m)
  BY <1>3, <1>5
<1>7. Selects(recs, w, S)
  <2>1. Selects(Only(w, S), w, S)
    BY <1>4, <1>6, OnlyAt
  <2>2. recs = Only(w, S)
    BY <1>1, <1>5
  <2> QED BY <2>1, <2>2
<1>r. recs \in Seq(T)
  <2>1. Only(w, S) \in Seq(T)
    BY <1>4, <1>6, OnlyAt
  <2>2. recs = Only(w, S)
    BY <1>1, <1>5
  <2> QED BY <2>1, <2>2
<1>8. PICK at \in Seq(S) :
        /\ Len(recs) = Len(at) /\ DOMAIN recs = 1..Len(at) /\ DOMAIN at = 1..Len(at)
        /\ \A k \in 1..Len(at) : recs[k] = w[at[k]]
        /\ \A x \in S : \E k \in 1..Len(at) : at[k] = x
        /\ \A i, j \in 1..Len(at) : i < j => at[i] < at[j]
  BY <1>7 DEF Selects
<1>9. \A k \in DOMAIN recs : at[k] \in S
  BY <1>8
<1>10. \A k \in DOMAIN recs : at[k] \in DOMAIN ms /\ Valid(ms[at[k]].m) /\ recs[k] = Record(ms[at[k]].m, Source(ms[at[k]]))
  BY <1>3, <1>6, <1>8, <1>9
<1>11. \A k \in DOMAIN recs : recs[k] \in Recs
  BY <1>2, <1>10, SourceType, RecordType
<1>12. recs \in Seq(Recs)
  <2>0. Len(at) \in Nat
    OBVIOUS
  <2>1. PICK n \in Nat : n = Len(at)
    BY <2>0
  <2>2. DOMAIN recs = 1..n /\ \A k \in 1..n : recs[k] \in Recs
    BY <1>8, <1>11, <2>1
  <2>3. [k \in 1..n |-> recs[k]] \in Seq(Recs)
    BY <2>2, IsSeq
  <2>4. recs = [k \in 1..n |-> recs[k]]
    BY <1>r, <2>2
  <2> QED BY <2>3, <2>4
<1>13. recs = <<>> => refused = DOMAIN ms
  <2> SUFFICES ASSUME recs = <<>> PROVE refused = DOMAIN ms
    OBVIOUS
  <2>1. DOMAIN recs = {}
    OBVIOUS
  <2>2. S = {}
    BY <1>8, <2>1
  <2> QED BY <1>5, <2>2
<1>14. RecordsAt(ms, recs, at)
  <2>1. \A x \in DOMAIN ms : Valid(ms[x].m) => \E k \in DOMAIN recs : at[k] = x
    BY <1>6, <1>8
  <2>2. \A i, k \in DOMAIN recs : i < k => at[i] < at[k]
    BY <1>8
  <2> QED BY <1>10, <1>12, <2>1, <2>2 DEF RecordsAt
<1> QED BY <1>13, <1>14

\* A record that a member holds and a log has is at its position there.
LEMMA SamePosition ==
    ASSUME KafkaInv, NEW c \in Procs, NEW k \in DOMAIN member[c].ms, NEW p \in Partitions, NEW i \in DOMAIN klog[p],
           NEW x, x = member[c].ms[k], x.m.n = klog[p][i].m.n
    PROVE  x.topic = topic /\ x.p = p /\ x.off = i - 1 /\ x.epoch = klog[p][i].epoch /\ x.m.subject = klog[p][i].m.subject
<1>1. PICK s : s = Mark(x.m, Source(x))
  OBVIOUS
<1>2. PICK t : t = Mark(klog[p][i].m, <<topic, p, i - 1, klog[p][i].epoch>>)
  OBVIOUS
<1>3. s \in KafkaMarks
  BY <1>1 DEF KafkaMarks, PollMarks
<1>4. t \in KafkaMarks
  BY <1>2 DEF KafkaMarks, LogMarks
<1>5. s.n = x.m.n /\ s.subject = x.m.subject /\ s.source = <<x.topic, x.p, x.off, x.epoch>>
  BY <1>1 DEF Mark, Source
<1>6. t.n = klog[p][i].m.n /\ t.subject = klog[p][i].m.subject /\ t.source = <<topic, p, i - 1, klog[p][i].epoch>>
  BY <1>2 DEF Mark
<1>7. s = t
  BY <1>3, <1>4, <1>5, <1>6 DEF KafkaInv, KafkaNamed, OneToOne
<1>8. <<x.topic, x.p, x.off, x.epoch>> = <<topic, p, i - 1, klog[p][i].epoch>>
  BY <1>5, <1>6, <1>7
<1> QED BY <1>5, <1>6, <1>7, <1>8

\* A commit puts a partition's records behind the earlier ones.
LEMMA BatchInTurn ==
    ASSUME FeedInv, KafkaInv, NEW c \in Procs, member[c].phase = "batch", NEW recs, NEW at,
           RecordsAt(member[c].ms, recs, at), GrowsBy(recs), Once', klog' = klog,
           chain' = chain \/ \A k \in DOMAIN recs : OnChain(recs[k].n)'
    PROVE  InTurn' /\ KafkaOrder'
<1> DEFINE ms == member[c].ms
<1>1. chain \in Seq(Recs) /\ Stays /\ InTurn /\ KafkaOrder
  BY Grown DEF FeedInv, KafkaInv, Stays
<1>2. member[c] \in Member /\ ms \in Polls /\ MemberInv(member[c]) /\ MemberSafe(member[c])
  BY OfMember DEF KafkaInv, KafkaTypes, MembersInv
<1>3. PICK g : /\ \A b \in (Len(chain) + 1)..Len(chain') : g[b] \in DOMAIN recs /\ chain'[b] = recs[g[b]]
               /\ \A a, b \in (Len(chain) + 1)..Len(chain') : a < b => g[a] < g[b]
  BY DEF GrowsBy
<1>4. /\ Len(chain) \in Nat /\ Len(chain') \in Nat /\ DOMAIN chain = 1..Len(chain) /\ DOMAIN chain' = 1..Len(chain')
      /\ Len(chain) <= Len(chain') /\ \A b \in DOMAIN chain : chain'[b] = chain[b]
  BY <1>1 DEF GrowsBy
<1> DEFINE New1 == (Len(chain) + 1)..Len(chain')
<1>5. /\ \A b \in DOMAIN chain' : b \in DOMAIN chain \/ b \in New1
      /\ \A b \in New1 : b \in DOMAIN chain' /\ b \notin DOMAIN chain /\ b \in Nat
      /\ \A b \in DOMAIN chain : b \in DOMAIN chain' /\ b \in Nat
  BY <1>4
<1>6. \A a \in DOMAIN chain, b \in New1 : a < b
  BY <1>4
<1> HIDE DEF New1, ms
\* A new entry is of a record of the batch that can be.
<1>7. ASSUME NEW b \in New1
      PROVE  /\ g[b] \in DOMAIN recs /\ at[g[b]] \in DOMAIN ms /\ Valid(ms[at[g[b]]].m) /\ chain'[b].n = ms[at[g[b]]].m.n
  <2>1. g[b] \in DOMAIN recs /\ chain'[b] = recs[g[b]]
    BY <1>3 DEF New1
  <2>2. at[g[b]] \in DOMAIN ms /\ Valid(ms[at[g[b]]].m) /\ recs[g[b]] = Record(ms[at[g[b]]].m, Source(ms[at[g[b]]]))
    BY <2>1 DEF RecordsAt, ms
  <2> QED BY <2>1, <2>2 DEF Record
\* One that is a log's: where it is there.
<1>8. ASSUME NEW p \in Partitions, NEW j \in DOMAIN klog[p], NEW b \in New1, chain'[b].n = klog[p][j].m.n
      PROVE  LET x == ms[at[g[b]]] IN
             x.topic = topic /\ x.p = p /\ x.off = j - 1 /\ x.epoch = klog[p][j].epoch /\ Valid(klog[p][j].m)
  <2>1. PICK x : x = ms[at[g[b]]]
    OBVIOUS
  <2>2. at[g[b]] \in DOMAIN ms /\ Valid(x.m) /\ x.m.n = klog[p][j].m.n
    BY <1>7, <1>8, <2>1
  <2>3. x.topic = topic /\ x.p = p /\ x.off = j - 1 /\ x.epoch = klog[p][j].epoch /\ x.m.subject = klog[p][j].m.subject
    BY <2>1, <2>2, SamePosition DEF ms
  <2> QED BY <2>1, <2>2, <2>3 DEF Valid
<1>9. ASSUME NEW p \in Partitions
      PROVE  /\ klog[p] \in Log /\ Graded(klog[p], kepoch[p]) /\ Len(klog[p]) \in Nat /\ DOMAIN klog[p] = 1..Len(klog[p])
             /\ \A j \in DOMAIN klog[p] : klog[p][j].epoch \in Nat
  <2>1. klog[p] \in Log /\ Graded(klog[p], kepoch[p])
    BY DEF KafkaInv, KafkaTypes, PartitionsInv
  <2> QED BY <2>1, OfLog
<1>10. InTurn'
  <2> SUFFICES ASSUME NEW p \in Partitions, NEW i \in DOMAIN klog[p], NEW j \in DOMAIN klog[p],
                      i < j, Valid(klog[p][i].m), OnChain(klog[p][j].m.n)'
               PROVE  OnChain(klog[p][i].m.n)'
    BY DEF InTurn, Valid
  <2>1. PICK m : m = klog[p][i].m.n
    OBVIOUS
  <2>2. OnChain(m) => OnChain(klog[p][i].m.n)'
    <3>1. OnChain(m) => OnChain(m)'
      BY <1>1 DEF Stays
    <3>2. m = klog'[p][i].m.n
      BY <2>1
    <3> QED BY <3>1, <3>2
  <2>3. PICK b \in DOMAIN chain' : chain'[b].n = klog[p][j].m.n
    BY DEF OnChain, Entries
  <2>4. CASE b \in DOMAIN chain
    <3>1. OnChain(klog[p][j].m.n)
      BY <1>4, <2>3, <2>4 DEF OnChain, Entries
    <3>2. OnChain(klog[p][i].m.n)
      BY <1>1, <3>1 DEF InTurn
    <3> QED BY <2>1, <2>2, <3>2
  <2>5. CASE b \in New1
    <3>1. PICK k \in DOMAIN ms : k = at[g[b]]
      BY <1>7, <2>5
    <3>2. PICK x : x = ms[k]
      OBVIOUS
    <3>3. x.topic = topic /\ x.p = p /\ x.off = j - 1 /\ x.epoch = klog[p][j].epoch
      BY <1>8, <2>3, <2>5, <3>1, <3>2
    <3>4. NextOffset(x) = [off |-> j, epoch |-> klog[p][j].epoch]
      <4>1. j \in Nat /\ (j - 1) + 1 = j
        BY <1>9
      <4> QED BY <3>3, <4>1 DEF NextOffset
    <3>5. member[c].topic = topic /\ member[c].phase = "batch"
      BY <1>2, <3>2, <3>3 DEF MemberInv, ms
    <3>6. Safe(klog[x.p], kepoch[x.p], NextOffset(x), BatchTo(ms, k))
      BY <1>2, <3>2, <3>5 DEF MemberSafe, ms
    <3>7. ResumeIn(klog[p], NextOffset(x)) = j
      BY <1>9, <3>4, ResumeNext
    <3>8. i \in 1..j
      BY <1>9
    <3>9. OnChain(m) \/ m \in BatchTo(ms, k)
      BY <2>1, <3>3, <3>6, <3>7, <3>8 DEF Safe, Covered
    <3>10. CASE m \in BatchTo(ms, k)
      <4>1. PICK y \in DOMAIN ms : ms[y].m.n = m
        BY <3>10 DEF BatchTo
      <4>2. Valid(ms[y].m)
        <5>1. PICK z : z = ms[y]
          OBVIOUS
        <5>2. z.m.n = klog[p][i].m.n
          BY <2>1, <4>1, <5>1
        <5>3. z.m.subject = klog[p][i].m.subject
          BY <5>1, <5>2, SamePosition DEF ms
        <5> QED BY <5>1, <5>3 DEF Valid
      <4>3. PICK h \in DOMAIN recs : at[h] = y
        BY <4>2 DEF RecordsAt, ms
      <4>4. recs[h].n = m
        BY <4>1, <4>3 DEF RecordsAt, Record, ms
      <4>5. chain' # chain
        <5>1. b \in DOMAIN chain' /\ b \notin DOMAIN chain
          BY <1>5, <2>5
        <5> QED BY <5>1
      <4>6. OnChain(recs[h].n)'
        BY <4>5
      <4>7. recs[h].n = klog'[p][i].m.n
        BY <2>1, <4>4
      <4> QED BY <4>6, <4>7 DEF OnChain
    <3> QED BY <2>2, <3>9, <3>10
  <2> QED BY <1>5, <2>4, <2>5
<1>11. KafkaOrder'
  <2> SUFFICES ASSUME NEW p \in Partitions, NEW i \in DOMAIN klog[p], NEW j \in DOMAIN klog[p],
                      NEW a \in DOMAIN chain', NEW b \in DOMAIN chain',
                      i < j, chain'[a].n = klog[p][i].m.n, chain'[b].n = klog[p][j].m.n
               PROVE  a < b
    BY DEF KafkaOrder
  <2>1. CASE a \in DOMAIN chain /\ b \in DOMAIN chain
    BY <1>1, <1>4, <2>1 DEF KafkaOrder
  <2>2. CASE a \in DOMAIN chain /\ b \in New1
    BY <1>6, <2>2
  <2>3. CASE a \in New1 /\ b \in DOMAIN chain
    <3>1. Valid(klog[p][i].m)
      BY <1>8, <2>3
    <3>2. OnChain(klog[p][j].m.n)
      BY <1>4, <2>3 DEF OnChain, Entries
    <3>3. OnChain(klog[p][i].m.n)
      BY <1>1, <3>1, <3>2 DEF InTurn
    <3>4. PICK d \in DOMAIN chain : chain[d].n = klog[p][i].m.n
      BY <3>3 DEF OnChain, Entries
    <3>5. chain'[d].n = chain'[a].n /\ d \in DOMAIN chain'
      BY <1>4, <1>5, <3>4
    <3>6. d = a
      BY <3>5 DEF Once
    <3> QED BY <1>5, <2>3, <3>4, <3>6
  <2>4. CASE a \in New1 /\ b \in New1
    <3>1. PICK x \in DOMAIN ms : x = at[g[a]]
      BY <1>7, <2>4
    <3>2. PICK y \in DOMAIN ms : y = at[g[b]]
      BY <1>7, <2>4
    <3>3. ms[x].p = p /\ ms[x].off = i - 1 /\ ms[y].p = p /\ ms[y].off = j - 1
      BY <1>8, <2>4, <3>1, <3>2
    <3>4. i \in Nat /\ j \in Nat /\ i - 1 < j - 1
      BY <1>9
    <3>5. x # y
      BY <3>3, <3>4
    <3>6. ~(y < x)
      <4>1. y < x => ms[y].off < ms[x].off
        BY <1>2, <3>3 DEF MemberInv, ms
      <4> QED BY <3>3, <3>4, <4>1
    <3>7. x \in Nat /\ y \in Nat
      BY <1>2, OfPolls DEF ms
    <3>8. x < y
      BY <3>5, <3>6, <3>7
    <3>9. g[a] \in DOMAIN recs /\ g[b] \in DOMAIN recs /\ g[a] \in Nat /\ g[b] \in Nat
      <4>1. g[a] \in DOMAIN recs /\ g[b] \in DOMAIN recs /\ recs \in Seq(Recs)
        BY <1>7, <2>4 DEF RecordsAt
      <4>2. DOMAIN recs \subseteq Nat
        BY <4>1
      <4> QED BY <4>1, <4>2
    <3>10. ~(g[b] < g[a])
      <4>1. g[b] < g[a] => y < x
        BY <3>1, <3>2, <3>9 DEF RecordsAt
      <4> QED BY <3>6, <4>1
    <3>11. g[a] # g[b]
      BY <3>1, <3>2, <3>5
    <3>12. g[a] < g[b]
      BY <3>9, <3>10, <3>11
    <3>13. ~(b < a)
      <4>1. b < a => g[b] < g[a]
        BY <1>3, <2>4 DEF New1
      <4> QED BY <3>9, <3>12, <4>1
    <3>14. a # b
      BY <3>11
    <3> QED BY <1>5, <2>4, <3>13, <3>14
  <2> QED BY <1>5, <2>1, <2>2, <2>3, <2>4
<1> QED BY <1>10, <1>11


\* The member that goes on to the offsets, these records handled.
With(r, handled, err) == [r EXCEPT !.phase = "offsets", !.handled = handled, !.err = err]

LEMMA HandledMember ==
    ASSUME NEW r \in Member, MemberInv(r), MemberSafe(r), r.phase = "batch", topic' = topic,
           NEW handled \in SUBSET DOMAIN r.ms, NEW err \in BOOLEAN, err \/ handled = DOMAIN r.ms
    PROVE  /\ With(r, handled, err) \in Member /\ With(r, handled, err).ms = r.ms /\ MemberSafe(With(r, handled, err))
           /\ (\A k \in handled : Valid(r.ms[k].m) => OnChain(r.ms[k].m.n)) => MemberInv(With(r, handled, err))
           /\ (\A k \in handled : Valid(r.ms[k].m) => OnChain(r.ms[k].m.n)') => MemberInv(With(r, handled, err))'
<1>1. PICK s : s = With(r, handled, err)
  OBVIOUS
<1>2. handled \subseteq Nat
  BY OfMember, OfPolls
<1>3. /\ s \in Member /\ s.phase = "offsets" /\ s.topic = r.topic /\ s.pos = r.pos /\ s.ms = r.ms
      /\ s.handled = handled /\ s.err = err
  BY <1>1, <1>2 DEF Member, With
<1>4. MemberSafe(s)
  BY <1>3 DEF MemberSafe
<1>5. (\A k \in handled : Valid(r.ms[k].m) => OnChain(r.ms[k].m.n)) => MemberInv(s)
  BY <1>3 DEF MemberInv
<1>6. (\A k \in handled : Valid(r.ms[k].m) => OnChain(r.ms[k].m.n)') => MemberInv(s)'
  BY <1>3 DEF MemberInv, Valid
<1>7. MemberInv(s)' => MemberInv(With(r, handled, err))'
  BY <1>1
<1> QED BY <1>1, <1>3, <1>4, <1>5, <1>6, <1>7

LEMMA KafkaCommit ==
    ASSUME FeedInv, KafkaInv, NEW c \in Procs, KCommit(c), feed' = feed
    PROVE  FeedInv' /\ KafkaInv'
<1>1. PICK r \in Member : r = member[c]
  BY DEF KafkaInv, KafkaTypes
<1>2. PICK ms \in Polls : ms = r.ms
  BY OfMember
<1>3. PICK refused : refused = {i \in DOMAIN ms : ~Valid(ms[i].m)}
  OBVIOUS
<1>4. PICK recs : recs = Only([i \in DOMAIN ms |-> Record(ms[i].m, Source(ms[i]))], DOMAIN ms \ refused)
  OBVIOUS
<1> DEFINE After(handled, err) == member' = [member EXCEPT ![c] = With(member[c], handled, err)]
<1>5. /\ r.phase = "batch" /\ UNCHANGED <<topic, klog, kepoch, offsets, owner>>
      /\ \/ KStop(c) /\ UNCHANGED feedVars
         \/ recs = <<>> /\ After(refused, FALSE) /\ UNCHANGED feedVars
         \/ \E t \in CommitResults(recs) :
               /\ Returned(t)
               /\ \/ KStop(c)
                  \/ t.out = "ok" /\ After(DOMAIN ms, FALSE)
                  \/ After(refused, TRUE)
  <2>1. /\ member[c].phase = "batch" /\ UNCHANGED <<topic, klog, kepoch, offsets, owner>>
        /\ \/ ms[1].topic = 0 /\ KStop(c) /\ UNCHANGED feedVars
           \/ ms[1].topic # 0 /\ recs = <<>> /\ UNCHANGED feedVars
              /\ member' = [member EXCEPT ![c].phase = "offsets", ![c].handled = refused, ![c].err = FALSE]
           \/ /\ ms[1].topic # 0 /\ recs # <<>>
              /\ \E t \in CommitResults(recs) :
                   /\ Returned(t)
                   /\ CASE t.out = "config" -> KStop(c)
                        [] t.out = "ok" -> member' = [member EXCEPT ![c].phase = "offsets", ![c].handled = DOMAIN ms, ![c].err = FALSE]
                        [] OTHER -> member' = [member EXCEPT ![c].phase = "offsets", ![c].handled = refused, ![c].err = TRUE]
    BY <1>1, <1>2, <1>3, <1>4 DEF KCommit
  <2>2. ASSUME NEW handled, NEW err,
               member' = [member EXCEPT ![c].phase = "offsets", ![c].handled = handled, ![c].err = err]
        PROVE  After(handled, err)
    BY <2>2 DEF With
  <2> HIDE DEF After
  <2>3. CASE ms[1].topic = 0 /\ KStop(c) /\ UNCHANGED feedVars
    BY <1>1, <2>1, <2>3
  <2>4. CASE recs = <<>> /\ UNCHANGED feedVars
              /\ member' = [member EXCEPT ![c].phase = "offsets", ![c].handled = refused, ![c].err = FALSE]
    BY <1>1, <2>1, <2>2, <2>4
  <2>5. CASE \E t \in CommitResults(recs) :
                   /\ Returned(t)
                   /\ CASE t.out = "config" -> KStop(c)
                        [] t.out = "ok" -> member' = [member EXCEPT ![c].phase = "offsets", ![c].handled = DOMAIN ms, ![c].err = FALSE]
                        [] OTHER -> member' = [member EXCEPT ![c].phase = "offsets", ![c].handled = refused, ![c].err = TRUE]
    <3>1. PICK t \in CommitResults(recs) :
                   /\ Returned(t)
                   /\ CASE t.out = "config" -> KStop(c)
                        [] t.out = "ok" -> member' = [member EXCEPT ![c].phase = "offsets", ![c].handled = DOMAIN ms, ![c].err = FALSE]
                        [] OTHER -> member' = [member EXCEPT ![c].phase = "offsets", ![c].handled = refused, ![c].err = TRUE]
      BY <2>5
    <3>2. \/ KStop(c)
          \/ t.out = "ok" /\ After(DOMAIN ms, FALSE)
          \/ After(refused, TRUE)
      BY <2>2, <3>1
    <3> QED BY <1>1, <2>1, <3>1, <3>2
  <2> QED BY <2>1, <2>3, <2>4, <2>5
<1>6. MemberInv(r) /\ MemberSafe(r) /\ KafkaTypes /\ topic \in Nat /\ DOMAIN ms = DOMAIN r.ms /\ PollMarks(ms) \subseteq KafkaMarks
  BY <1>1, <1>2 DEF KafkaInv, MembersInv, KafkaTypes, KafkaMarks
<1>7. (recs = <<>> => refused = DOMAIN ms) /\ \E at : RecordsAt(ms, recs, at)
  BY <1>3, <1>4, BatchRecords
<1>8. PICK at : RecordsAt(ms, recs, at)
  BY <1>7
<1>10. CASE KStop(c) /\ UNCHANGED feedVars
  <2>1. FeedInv' /\ UNCHANGED <<chain, sent>>
    BY <1>10, SameQuiet, FeedQuiet DEF feedVars
  <2> QED BY <1>5, <1>10, <2>1, MemberDown
<1>11. CASE recs = <<>> /\ After(refused, FALSE) /\ UNCHANGED feedVars
  <2>1. FeedInv' /\ UNCHANGED <<chain, sent>>
    BY <1>11, SameQuiet, FeedQuiet DEF feedVars
  <2>2. PICK s : s = With(r, refused, FALSE)
    OBVIOUS
  <2>3. refused \in SUBSET DOMAIN ms /\ refused = DOMAIN ms /\ \A k \in refused : ~Valid(ms[k].m)
    BY <1>3, <1>7, <1>11
  <2>4. s \in Member /\ s.ms = ms /\ MemberInv(s) /\ MemberSafe(s)
    BY <1>2, <1>5, <1>6, <2>2, <2>3, HandledMember
  <2>5. member' = [member EXCEPT ![c] = s]
    BY <1>1, <1>11, <2>2
  <2> QED BY <1>5, <1>6, <2>1, <2>4, <2>5, MemberQuiet
<1>12. ASSUME NEW t \in CommitResults(recs), Returned(t),
              KStop(c) \/ (t.out = "ok" /\ After(DOMAIN ms, FALSE)) \/ After(refused, TRUE)
       PROVE  FeedInv' /\ KafkaInv'
  <2>1. chain \in Seq(Recs) /\ Once /\ spare \in Nat /\ sent \in Nat
    <3>1. MaxFaults[feed] \in Nat
      BY FeedersAssumption DEF FeedInv
    <3> QED BY <3>1 DEF FeedInv
  <2>2. recs \in Seq(Recs)
    BY <1>8 DEF RecordsAt
  <2>3. MarksOf(recs) \subseteq KafkaMarks /\ \A k \in DOMAIN recs : recs[k].n \in 1..sent
    <3> SUFFICES ASSUME NEW k \in DOMAIN recs PROVE Mark(recs[k], recs[k].source) \in KafkaMarks /\ recs[k].n \in 1..sent
      BY DEF MarksOf
    <3>1. at[k] \in DOMAIN ms /\ Valid(ms[at[k]].m) /\ recs[k] = Record(ms[at[k]].m, Source(ms[at[k]]))
      BY <1>8 DEF RecordsAt
    <3>2. PICK x \in Fetched : x = ms[at[k]]
      BY <3>1, OfPolls
    <3>3. Mark(recs[k], recs[k].source) = Mark(x.m, Source(x))
      BY <3>1, <3>2, SourceType, RecordType
    <3>4. Mark(x.m, Source(x)) \in KafkaMarks
      BY <1>6, <3>1, <3>2 DEF PollMarks
    <3>5. Mark(x.m, Source(x)).n \in 1..sent /\ Mark(x.m, Source(x)).n = x.m.n
      BY <3>4 DEF KafkaInv, KafkaNamed, InLog, Mark
    <3>6. recs[k].n = x.m.n
      BY <3>1, <3>2 DEF Record
    <3> QED BY <3>3, <3>4, <3>5, <3>6
  <2>4. OneToOne(KafkaMarks) /\ ChainMarks \subseteq KafkaMarks
    BY DEF KafkaInv, KafkaNamed, KafkaMarks
  <2>5. PICK M : M = KafkaMarks
    OBVIOUS
  <2>6. /\ GrowsBy(recs) /\ Once' /\ ChainMarks' \subseteq M
        /\ t.out = "ok" => \A i \in DOMAIN recs : OnChain(recs[i].n)'
        /\ spare' \in 0..spare /\ UNCHANGED <<coming, sent, stuck>>
    BY <1>12, <2>1, <2>2, <2>3, <2>4, <2>5, CommitReturns
  <2>7. chain' = chain \/ \A i \in DOMAIN recs : OnChain(recs[i].n)'
    <3>1. chain' = chain \/ chain' = Landed(recs)
      BY <1>12 DEF Returned, CommitResults
    <3>2. CASE chain' = Landed(recs)
      BY <2>1, <2>2, <2>3, <2>4, <2>5, <3>2, LandedOnce
    <3> QED BY <3>1, <3>2
  <2>8. FeedInv'
    BY <2>2, <2>3, <2>6, FeedGrown DEF OfPublished
  <2>9. Stays
    BY <2>1, <2>6, Grown DEF Stays
  <2>10. InTurn' /\ KafkaOrder'
    BY <1>1, <1>2, <1>5, <1>8, <2>6, <2>7, BatchInTurn
  <2>11. PlacesStay
    BY <1>5, <1>6, <2>1, <2>6, <2>9, SamePlaces
  <2>12. offsets' \in Places /\ OffsetsSafe'
    <3>1. offsets' \in Places
      BY <1>5, <1>6 DEF KafkaTypes
    <3> SUFFICES ASSUME NEW p \in Partitions PROVE Safe(klog[p], kepoch[p], offsets[p], {})'
      BY <3>1 DEF OffsetsSafe
    <3>2. PICK pos \in Place : pos = offsets[p]
      BY DEF KafkaInv, KafkaTypes, Places
    <3>3. Safe(klog[p], kepoch[p], pos, {})'
      BY <2>11, <3>2 DEF KafkaInv, OffsetsSafe, PlacesStay
    <3>4. pos = offsets'[p]
      BY <1>5, <3>2
    <3> QED BY <3>3, <3>4
  <2>13. UNCHANGED <<topic, klog, kepoch, sent>> /\ ChainMarks' \subseteq KafkaMarks
    BY <1>5, <2>5, <2>6
  <2>14. ASSUME NEW handled \in SUBSET DOMAIN ms, NEW err \in BOOLEAN, After(handled, err),
                err \/ handled = DOMAIN ms, \A k \in handled : Valid(ms[k].m) => OnChain(ms[k].m.n)'
         PROVE  KafkaInv'
    <3>1. PICK s : s = With(r, handled, err)
      OBVIOUS
    <3>2. s \in Member /\ s.ms = ms /\ MemberSafe(s) /\ MemberInv(s)'
      <4>1. /\ With(r, handled, err) \in Member /\ With(r, handled, err).ms = r.ms /\ MemberSafe(With(r, handled, err))
            /\ MemberInv(With(r, handled, err))'
        BY <1>2, <1>5, <1>6, <2>14, HandledMember
      <4> QED BY <1>2, <3>1, <4>1
    <3>3. MemberSafe(s)'
      BY <1>5, <2>11, <3>2, PlacesHold
    <3>4. member' = [member EXCEPT ![c] = s]
      BY <1>1, <2>14, <3>1
    <3>5. PollMarks(s.ms) \subseteq KafkaMarks
      BY <1>6, <3>2
    <3> QED BY <2>9, <2>10, <2>12, <2>13, <3>2, <3>3, <3>4, <3>5, MemberStep
  <2>15. CASE KStop(c)
    <3>1. KafkaInv'
      BY <2>9, <2>10, <2>12, <2>13, <2>15, MemberStops
    <3> QED BY <2>8, <3>1
  <2>16. CASE t.out = "ok" /\ After(DOMAIN ms, FALSE)
    <3>1. ASSUME NEW x \in DOMAIN ms, Valid(ms[x].m) PROVE OnChain(ms[x].m.n)'
      <4>1. PICK k \in DOMAIN recs : at[k] = x
        BY <1>8, <3>1 DEF RecordsAt
      <4>2. recs[k].n = ms[x].m.n
        BY <1>8, <4>1 DEF RecordsAt, Record
      <4>3. OnChain(recs[k].n)'
        BY <2>6, <2>16
      <4> QED BY <4>2, <4>3
    <3>2. KafkaInv'
      BY <2>14, <2>16, <3>1
    <3> QED BY <2>8, <3>2
  <2>17. CASE After(refused, TRUE)
    <3>1. refused \in SUBSET DOMAIN ms /\ \A k \in refused : Valid(ms[k].m) => OnChain(ms[k].m.n)'
      BY <1>3
    <3>2. KafkaInv'
      BY <2>14, <2>17, <3>1
    <3> QED BY <2>8, <3>2
  <2> QED BY <1>12, <2>15, <2>16, <2>17
<1> QED BY <1>5, <1>10, <1>11, <1>12


-----------------------------------------------------------------------------
(* Kafka: the offsets *)

\* A position that was safe with a batch is without it, once its partition's are handled.
LEMMA HandledSafe ==
    ASSUME FeedInv, KafkaInv, NEW c \in Procs, NEW r, r = member[c], NEW p \in Partitions, NEW pos \in Place, NEW k,
           Safe(klog[p], kepoch[p], pos, BatchTo(r.ms, k)),
           \A j \in DOMAIN r.ms : (j <= k /\ r.ms[j].p = p) => j \in r.handled
    PROVE  Safe(klog[p], kepoch[p], pos, {})
<1>1. klog[p] \in Log /\ Graded(klog[p], kepoch[p]) /\ MemberInv(r)
  BY DEF KafkaInv, KafkaTypes, PartitionsInv, MembersInv
<1>2. ResumeIn(klog[p], pos) \in 0..Len(klog[p]) /\ Len(klog[p]) \in Nat /\ DOMAIN klog[p] = 1..Len(klog[p])
  BY <1>1, ResumeType, OfLog
<1>3. ASSUME NEW i \in 1..ResumeIn(klog[p], pos), Valid(klog[p][i].m) PROVE OnChain(klog[p][i].m.n)
  <2>1. i \in DOMAIN klog[p]
    BY <1>2
  <2>2. CASE klog[p][i].m.n \in BatchTo(r.ms, k)
    <3>1. PICK j \in DOMAIN r.ms : j <= k /\ r.ms[j].m.n = klog[p][i].m.n
      BY <2>2 DEF BatchTo
    <3>2. PICK x : x = r.ms[j]
      OBVIOUS
    <3>3. x.p = p /\ x.m.subject = klog[p][i].m.subject
      BY <2>1, <3>1, <3>2, SamePosition
    <3>4. j \in r.handled /\ Valid(x.m)
      BY <1>3, <3>1, <3>2, <3>3 DEF Valid
    <3> QED BY <1>1, <3>1, <3>2, <3>4 DEF MemberInv
  <2> QED BY <1>3, <2>2 DEF Safe, Covered
<1> QED BY <1>3 DEF Safe, Covered

\* The offsets a member means to commit.
Committed(ms, last) ==
    [p \in Partitions |->
        IF \E i \in last : ms[i].p = p
        THEN LET x == ms[CHOOSE i \in last : ms[i].p = p] IN NextOffset(x)
        ELSE offsets[p]]

LEMMA CommittedSafe ==
    ASSUME FeedInv, KafkaInv, NEW c \in Procs, NEW r \in Member, r = member[c], r.phase = "offsets", r.topic = topic,
           NEW last, last = HandledPrefix(r.ms, r.handled), NEW o, o = Committed(r.ms, last)
    PROVE  o \in Places /\ \A p \in Partitions : Safe(klog[p], kepoch[p], o[p], {})
<1> DEFINE ms == r.ms
<1>1. MemberInv(r) /\ MemberSafe(r) /\ ms \in Polls /\ offsets \in Places
  BY OfMember DEF KafkaInv, KafkaTypes, MembersInv
<1>2. ASSUME NEW i \in last PROVE i \in DOMAIN ms /\ \A j \in DOMAIN ms : (j <= i /\ ms[j].p = ms[i].p) => j \in r.handled
  BY DEF HandledPrefix
<1>3. ASSUME NEW p \in Partitions PROVE o[p] \in Place /\ Safe(klog[p], kepoch[p], o[p], {})
  <2>1. CASE \E i \in last : ms[i].p = p
    <3>1. PICK i : i = CHOOSE h \in last : ms[h].p = p
      OBVIOUS
    <3>2. i \in last /\ ms[i].p = p
      BY <2>1, <3>1
    <3>3. o[p] = NextOffset(ms[i])
      BY <2>1, <3>1 DEF Committed
    <3>4. PICK pos \in Place : pos = NextOffset(ms[i])
      BY <1>1, <1>2, <3>2, OfPolls
    <3>5. Safe(klog[p], kepoch[p], pos, BatchTo(ms, i))
      BY <1>1, <1>2, <3>2, <3>4 DEF MemberSafe
    <3>6. Safe(klog[p], kepoch[p], pos, {})
      BY <1>2, <3>2, <3>5, HandledSafe
    <3> QED BY <3>3, <3>4, <3>6
  <2>2. CASE ~ \E i \in last : ms[i].p = p
    <3>1. o[p] = offsets[p]
      BY <2>2 DEF Committed
    <3> QED BY <1>1, <3>1 DEF KafkaInv, OffsetsSafe, Places
  <2> QED BY <2>1, <2>2
<1>4. o \in Places
  <2>1. DOMAIN o = Partitions /\ o = [p \in Partitions |-> o[p]]
    BY DEF Committed
  <2> QED BY <1>3, <2>1 DEF Places
<1> QED BY <1>3, <1>4

LEMMA KafkaOffsets ==
    ASSUME FeedInv, KafkaInv, NEW c \in Procs, KOffsets(c), feed' = feed
    PROVE  FeedInv' /\ KafkaInv'
<1>1. PICK r \in Member : r = member[c]
  BY DEF KafkaInv, KafkaTypes
<1>2. PICK last : last = HandledPrefix(r.ms, r.handled)
  OBVIOUS
<1>3. PICK o : o = Committed(r.ms, last)
  OBVIOUS
<1>4. PICK s : s = [r EXCEPT !.phase = "ready", !.ms = <<>>, !.handled = {}]
  OBVIOUS
<1>5. /\ r.phase = "offsets" /\ UNCHANGED <<chain, coming, sent, stuck, topic, klog, kepoch, owner>>
      /\ UNCHANGED feedVars \/ Fault
      /\ offsets' = offsets \/ (r.topic = topic /\ offsets' = o)
      /\ KStop(c) \/ (~r.err /\ member' = [member EXCEPT ![c] = s])
  <2> DEFINE goOn == IF r.err THEN KStop(c)
                     ELSE member' = [member EXCEPT ![c].phase = "ready", ![c].ms = <<>>, ![c].handled = {}]
  <2>1. /\ r.phase = "offsets" /\ UNCHANGED <<topic, klog, kepoch, owner>>
        /\ \/ goOn /\ UNCHANGED <<feedVars, offsets>>
           \/ r.topic = topic /\ offsets' = o /\ goOn /\ UNCHANGED feedVars
           \/ KStop(c) /\ UNCHANGED <<feedVars, offsets>>
           \/ r.topic = topic /\ Fault /\ offsets' \in {offsets, o} /\ KStop(c) /\ UNCHANGED <<chain, coming, sent, stuck>>
    <3> DEFINE l == HandledPrefix(member[c].ms, member[c].handled)
               go == IF member[c].err THEN KStop(c)
                     ELSE member' = [member EXCEPT ![c].phase = "ready", ![c].ms = <<>>, ![c].handled = {}]
    <3>1. /\ member[c].phase = "offsets" /\ UNCHANGED <<topic, klog, kepoch, owner>>
          /\ \/ go /\ UNCHANGED <<feedVars, offsets>>
             \/ member[c].topic = topic /\ offsets' = Committed(member[c].ms, l) /\ go /\ UNCHANGED feedVars
             \/ KStop(c) /\ UNCHANGED <<feedVars, offsets>>
             \/ member[c].topic = topic /\ Fault /\ offsets' \in {offsets, Committed(member[c].ms, l)} /\ KStop(c) /\ UNCHANGED <<chain, coming, sent, stuck>>
      BY Zenon DEF KOffsets, Committed
    <3>2. last = l /\ o = Committed(member[c].ms, l)
      BY <1>1, <1>2, <1>3, Zenon
    <3> HIDE DEF l
    <3> QED BY <1>1, <3>1, <3>2, Zenon
  <2>2. goOn => KStop(c) \/ (~r.err /\ member' = [member EXCEPT ![c] = s])
    <3>1. (member' = [member EXCEPT ![c].phase = "ready", ![c].ms = <<>>, ![c].handled = {}]) => member' = [member EXCEPT ![c] = s]
      BY <1>1, <1>4
    <3> QED BY <3>1
  <2> HIDE DEF goOn
  <2> QED BY <2>1, <2>2 DEF feedVars
<1>6. FeedInv'
  <2>1. CASE UNCHANGED feedVars
    BY <2>1, SameQuiet, FeedQuiet
  <2>2. CASE Fault
    BY <1>5, <2>2, FaultQuiet, FeedQuiet
  <2> QED BY <1>5, <2>1, <2>2
<1>7. Stays /\ ChainMarks' = ChainMarks /\ ChainMarks \subseteq KafkaMarks /\ sent \in Nat
  BY <1>5, StaysSame DEF FeedInv, KafkaMarks
<1>8. InTurn' /\ KafkaOrder'
  <2>1. LogsOnly
    BY <1>5 DEF LogsOnly
  <2> QED BY <1>5, <2>1, OrderStays DEF KafkaInv
<1>9. PlacesStay
  BY <1>5, <1>7, SamePlaces DEF KafkaInv
<1>10. MemberInv(r) /\ MemberSafe(r) /\ r.ms \in Polls
  BY <1>1, OfMember DEF KafkaInv, MembersInv
<1>11. PICK d \in Places : d = offsets' /\ \A p \in Partitions : Safe(klog[p], kepoch[p], d[p], {})
  <2>1. CASE offsets' = offsets
    BY <2>1 DEF KafkaInv, KafkaTypes, OffsetsSafe
  <2>2. CASE r.topic = topic /\ offsets' = o
    <3>1. o \in Places /\ \A p \in Partitions : Safe(klog[p], kepoch[p], o[p], {})
      BY <1>1, <1>2, <1>3, <1>5, <2>2, CommittedSafe
    <3> QED BY <2>2, <3>1
  <2> QED BY <1>5, <2>1, <2>2
<1>12. offsets' \in Places /\ OffsetsSafe'
  <2> SUFFICES ASSUME NEW p \in Partitions PROVE Safe(klog[p], kepoch[p], offsets[p], {})'
    BY <1>11 DEF OffsetsSafe
  <2>1. PICK pos \in Place : pos = d[p]
    BY DEF Places
  <2>2. Safe(klog[p], kepoch[p], pos, {})'
    BY <1>9, <1>11, <2>1 DEF PlacesStay
  <2>3. pos = offsets'[p]
    BY <1>11, <2>1
  <2> QED BY <2>2, <2>3
<1>13. CASE KStop(c)
  <2>1. KafkaInv'
    BY <1>5, <1>7, <1>8, <1>12, <1>13, MemberStops
  <2> QED BY <1>6, <2>1
<1>14. CASE ~r.err /\ member' = [member EXCEPT ![c] = s]
  <2>1. s \in Member /\ s.phase = "ready" /\ s.topic = r.topic /\ s.pos = r.pos /\ s.ms = <<>> /\ s.handled = {}
    BY <1>4, NoPolls DEF Member
  <2>2. MemberInv(s)
    BY <1>10, <2>1, NoPolls DEF MemberInv
  <2>3. MemberSafe(s)
    <3> SUFFICES ASSUME s.topic = topic PROVE \A p \in Partitions : Safe(klog[p], kepoch[p], s.pos[p], {})
      BY <2>1, NoPolls DEF MemberSafe
    <3> SUFFICES ASSUME NEW p \in Partitions PROVE Safe(klog[p], kepoch[p], s.pos[p], {})
      OBVIOUS
    <3>1. PICK pos \in Place : pos = s.pos[p]
      BY <2>1, OfMember
    <3>2. PICK k : k = Len(r.ms)
      OBVIOUS
    <3>3. Safe(klog[p], kepoch[p], pos, BatchTo(r.ms, k))
      BY <1>5, <1>10, <2>1, <3>1, <3>2 DEF MemberSafe
    <3>4. \A j \in DOMAIN r.ms : j \in r.handled
      BY <1>5, <1>10, <1>14 DEF MemberInv
    <3>5. Safe(klog[p], kepoch[p], pos, {})
      BY <1>1, <3>3, <3>4, HandledSafe
    <3> QED BY <3>1, <3>5
  <2>4. MemberInv(s)' /\ MemberSafe(s)'
    BY <1>5, <1>7, <1>9, <2>1, <2>2, <2>3, MemberStays
  <2>5. PollMarks(s.ms) \subseteq KafkaMarks
    BY <2>1, NoPolls
  <2>6. KafkaInv'
    BY <1>5, <1>7, <1>8, <1>12, <1>14, <2>1, <2>4, <2>5, MemberStep
  <2> QED BY <1>6, <2>6
<1> QED BY <1>5, <1>13, <1>14

\* Every step of the group and its broker.
LEMMA KafkaSteps ==
    ASSUME FeedInv, KafkaInv, KafkaNext, feed' = feed
    PROVE  FeedInv' /\ KafkaInv'
<1>1. CASE KProduce
  BY <1>1, KafkaProduce
<1>2. CASE KRecreate
  BY <1>2, KafkaRecreate
<1>3. ASSUME NEW p \in Partitions, KTruncate(p) PROVE FeedInv' /\ KafkaInv'
  BY <1>3, KafkaTruncate
<1>4. ASSUME NEW p \in Partitions, NEW c \in Procs, KMove(p, c) PROVE FeedInv' /\ KafkaInv'
  BY <1>4, KafkaMove
<1>5. ASSUME NEW c \in Procs, KJoin(c) PROVE FeedInv' /\ KafkaInv'
  BY <1>5, KafkaJoin
<1>6. ASSUME NEW c \in Procs, KPoll(c) PROVE FeedInv' /\ KafkaInv'
  BY <1>6, KafkaPoll
<1>7. ASSUME NEW c \in Procs, KCommit(c) PROVE FeedInv' /\ KafkaInv'
  BY <1>7, KafkaCommit
<1>8. ASSUME NEW c \in Procs, KOffsets(c) PROVE FeedInv' /\ KafkaInv'
  BY <1>8, KafkaOffsets
<1>9. ASSUME NEW c \in Procs, KDie(c) PROVE FeedInv' /\ KafkaInv'
  BY <1>9, KafkaDie
<1> QED BY <1>1, <1>2, <1>3, <1>4, <1>5, <1>6, <1>7, <1>8, <1>9 DEF KafkaNext, KStep

-----------------------------------------------------------------------------
(* The consumers together *)

\* A consumer a behaviour is not about.
KafkaIdle == klog = [p \in Partitions |-> <<>>] /\ offsets = [p \in Partitions |-> Start] /\ member = [c \in Procs |-> Stopped]
NatsIdle  == stream = <<>> /\ nats = [c \in Procs |-> Down] /\ stale = FALSE
RedisIdle == entries = <<>> /\ given = 0 /\ pending = <<>> /\ named = {} /\ crossed = FALSE
OtelIdle  == request = <<>> /\ conn = [k \in Slots |-> Free]

IngestInv ==
    /\ FeedInv
    /\ IF feed = "kafka" THEN KafkaInv ELSE KafkaIdle
    /\ IF feed = "nats" THEN NatsInv ELSE NatsIdle
    /\ IF feed = "redis" THEN RedisInv ELSE RedisIdle
    /\ IF feed = "otel" THEN OtelInv ELSE OtelIdle

\* What the other consumers and the operator change, a consumer's invariant does not
\* speak of.
LEMMA KafkaUntouched ==
    ASSUME UNCHANGED <<chain, sent, kafkaVars>>
    PROVE  (KafkaInv => KafkaInv') /\ (KafkaIdle => KafkaIdle')
<1>1. UNCHANGED <<topic, klog, kepoch, offsets, member>>
  BY DEF kafkaVars
<1>2. KafkaIdle => KafkaIdle'
  BY <1>1 DEF KafkaIdle
<1>3. (KafkaTypes => KafkaTypes') /\ (PartitionsInv => PartitionsInv') /\ ((InTurn /\ KafkaOrder) => (InTurn /\ KafkaOrder)')
  BY <1>1 DEF KafkaTypes, PartitionsInv, Graded, InTurn, KafkaOrder, OnChain, Entries, Valid
<1>4. KafkaNamed => KafkaNamed'
  <2>1. KafkaMarks' = KafkaMarks
    BY <1>1 DEF KafkaMarks, ChainMarks, LogMarks, PollMarks, Mark, Source
  <2>2. ASSUME NEW s, InLog(s) PROVE InLog(s)'
    BY <1>1, <2>2 DEF InLog
  <2> QED BY <2>1, <2>2 DEF KafkaNamed, OneToOne
<1>5. ASSUME NEW l, NEW e, NEW pos, NEW M, Safe(l, e, pos, M) PROVE Safe(l, e, pos, M)'
  BY <1>5 DEF Safe, Sound, Covered, ResumeIn, EndOf, OnChain, Entries, Valid
<1>6. OffsetsSafe => OffsetsSafe'
  BY <1>1, <1>5 DEF OffsetsSafe
<1>7. MembersInv => MembersInv'
  <2>1. ASSUME NEW r, MemberInv(r) PROVE MemberInv(r)'
    BY <1>1, <2>1 DEF MemberInv, OnChain, Entries, Valid
  <2>2. ASSUME NEW r, MemberSafe(r) PROVE MemberSafe(r)'
    BY <1>1, <1>5, <2>2 DEF MemberSafe, NextOffset, BatchTo
  <2> QED BY <1>1, <2>1, <2>2 DEF MembersInv
<1> QED BY <1>2, <1>3, <1>4, <1>6, <1>7 DEF KafkaInv

LEMMA NatsUntouched ==
    ASSUME UNCHANGED <<chain, sent, natsVars>>
    PROVE  (NatsInv => NatsInv') /\ (NatsIdle => NatsIdle')
<1>1. UNCHANGED <<life, stream, nats, stale>>
  BY DEF natsVars
<1>2. NatsIdle => NatsIdle'
  BY <1>1 DEF NatsIdle
<1>3. NatsMarks' = NatsMarks
  BY <1>1 DEF NatsMarks, ChainMarks, StreamMarks, ProcessMarks, Position, Mark
<1>4. NatsNamed => NatsNamed'
  BY <1>1, <1>3 DEF NatsNamed, OneToOne
<1>5. ASSUME NEW c \in Procs, ProcessInv(c) PROVE ProcessInv(c)'
  BY <1>1, <1>5 DEF ProcessInv, OnChain, Entries, Valid
<1>6. NatsKept => NatsKept'
  BY <1>1 DEF NatsKept, OnChain, Entries, Valid
<1> QED BY <1>1, <1>2, <1>4, <1>5, <1>6 DEF NatsInv

LEMMA RedisUntouched ==
    ASSUME UNCHANGED <<chain, sent, redisVars>>
    PROVE  (RedisInv => RedisInv') /\ (RedisIdle => RedisIdle')
<1>1. UNCHANGED <<age, entries, group, given, pending, token, minted, reader, named, crossed>>
  BY DEF redisVars, serverVars
<1>2. RedisIdle => RedisIdle'
  BY <1>1 DEF RedisIdle
<1>3. RedisTypes => RedisTypes'
  BY <1>1 DEF RedisTypes
<1>4. Misnamed' = Misnamed
  BY <1>1 DEF Misnamed
<1>5. RedisKept => RedisKept'
  BY <1>1, <1>4 DEF RedisKept, OnChain, Entries, Valid
<1>6. RedisNamed => RedisNamed'
  <2>1. ASSUME NEW r, ReaderInv(r) PROVE ReaderInv(r)'
    BY <1>1, <2>1 DEF ReaderInv, OnChain, Entries, Valid
  <2>2. ASSUME NEW e, ChainNamed(e) PROVE ChainNamed(e)'
    BY <1>1, <2>2 DEF ChainNamed
  <2>3. ChainMarks' = ChainMarks /\ (OnceStored => OnceStored')
    BY <1>1 DEF ChainMarks, Mark, OnceStored
  <2> QED BY <1>1, <2>1, <2>2, <2>3 DEF RedisNamed, OneToOne
<1> QED BY <1>2, <1>3, <1>4, <1>5, <1>6 DEF RedisInv

LEMMA OtelUntouched ==
    ASSUME UNCHANGED <<chain, sent, coming, otelVars>>
    PROVE  (OtelInv => OtelInv') /\ (OtelIdle => OtelIdle')
<1>1. UNCHANGED <<logs, request, conn, rv>>
  BY DEF otelVars
<1>2. OtelIdle => OtelIdle'
  BY <1>1 DEF OtelIdle
<1>3. \A q : Body(q)' = Body(q) /\ Wanted(q)' = Wanted(q)
  BY <1>1 DEF Wanted, Body, Valid
<1>4. (LogsInv => LogsInv') /\ (ConnsInv => ConnsInv') /\ (UpInv => UpInv')
  BY <1>1 DEF LogsInv, ConnsInv, UpInv, ChainMarks, UidMarks, Uid, Mark
<1>5. ReceiverInv => ReceiverInv'
  BY <1>1 DEF ReceiverInv, OfLogs, Valid
<1>6. ServingInv => ServingInv'
  BY <1>1, <1>3 DEF ServingInv, Served, OnChain, Entries
<1>7. OtelKept => OtelKept'
  BY <1>1, <1>3 DEF OtelKept, OnChain, Entries, Valid
<1> QED BY <1>2, <1>4, <1>5, <1>6, <1>7 DEF OtelInv

-----------------------------------------------------------------------------
(* The start *)

LEMMA FeedStarts == IngestInit => FeedInv
<1> SUFFICES ASSUME IngestInit PROVE FeedInv
  OBVIOUS
<1>1. PICK ms \in Published[feed] : FeedInit(ms, MaxFaults[feed])
  BY DEF IngestInit
<1>2. feed \in Feeds /\ MaxFaults[feed] \in Nat /\ ms \in Seq(Payloads)
  BY FeedersAssumption DEF IngestInit
<1>3. chain = <<>> /\ coming = ms /\ sent = 0 /\ stuck = {} /\ spare = MaxFaults[feed]
  BY <1>1 DEF FeedInit
<1> QED BY <1>2, <1>3 DEF FeedInv, Once

LEMMA Empty == IngestInit => chain = <<>> /\ sent = 0 /\ ChainMarks = {} /\ \A n : ~OnChain(n)
<1> SUFFICES ASSUME IngestInit PROVE chain = <<>> /\ sent = 0 /\ ChainMarks = {} /\ \A n : ~OnChain(n)
  OBVIOUS
<1>1. chain = <<>> /\ sent = 0
  BY DEF IngestInit, FeedInit
<1>2. DOMAIN chain = {}
  BY <1>1
<1> QED BY <1>1, <1>2 DEF ChainMarks, OnChain, Entries

LEMMA KafkaStarts == IngestInit => KafkaInv /\ KafkaIdle
<1> SUFFICES ASSUME IngestInit PROVE KafkaInv /\ KafkaIdle
  OBVIOUS
<1>1. /\ topic \in {0, 1} /\ klog = [p \in Partitions |-> <<>>] /\ kepoch = [p \in Partitions |-> 0]
      /\ offsets = [p \in Partitions |-> Start] /\ member = [c \in Procs |-> Stopped]
  BY DEF IngestInit, KafkaInit
<1>2. <<>> \in Log /\ Len(<<>>) = 0 /\ Graded(<<>>, 0) /\ DOMAIN <<>> = {}
  BY DEF Log, Graded
<1>3. \A M : Safe(<<>>, 0, Start, M) /\ Start \in Place
  <2>1. PICK l \in Log : l = <<>>
    BY <1>2
  <2>2. sent \in Nat /\ Graded(l, 0)
    BY <1>2, <2>1, Empty
  <2>3. ASSUME NEW M PROVE Safe(l, 0, Start, M) /\ Start \in Place
    BY <2>2, SafeStart
  <2> QED BY <2>1, <2>3
<1>4. /\ Stopped \in Member /\ Stopped.ms = <<>> /\ Stopped.phase = "stopped" /\ Stopped.handled = {} /\ Stopped.topic = 0
      /\ Stopped.err = FALSE
  BY <1>3, NoPolls DEF Stopped, Member, Places
<1>5. KafkaTypes
  BY <1>1, <1>2, <1>3, <1>4 DEF KafkaTypes, Places
<1>6. PartitionsInv /\ InTurn /\ KafkaOrder
  BY <1>1, <1>2, Empty DEF PartitionsInv, InTurn, KafkaOrder
<1>7. KafkaNamed
  <2>1. \A p \in Partitions : LogMarks(p) = {}
    BY <1>1, <1>2 DEF LogMarks
  <2>2. \A c \in Procs : PollMarks(member[c].ms) = {}
    BY <1>1, <1>4, NoPolls
  <2>3. KafkaMarks = {}
    BY <2>1, <2>2, Empty DEF KafkaMarks
  <2> QED BY <2>3 DEF KafkaNamed, OneToOne
<1>8. OffsetsSafe
  BY <1>1, <1>3 DEF OffsetsSafe
<1>9. MembersInv
  <2>1. \A c \in Procs : member[c] = Stopped
    BY <1>1
  <2>2. MemberInv(Stopped) /\ MemberSafe(Stopped)
    BY <1>1, <1>4, NoPolls DEF MemberInv, MemberSafe
  <2> QED BY <2>1, <2>2 DEF MembersInv
<1> QED BY <1>1, <1>5, <1>6, <1>7, <1>8, <1>9 DEF KafkaInv, KafkaIdle

LEMMA NatsStarts == IngestInit => NatsInv /\ NatsIdle
<1> SUFFICES ASSUME IngestInit PROVE NatsInv /\ NatsIdle
  OBVIOUS
<1>1. life = 1 /\ stream = <<>> /\ nats = [c \in Procs |-> Down] /\ stale = FALSE
  BY DEF IngestInit, NatsInit
<1>2. Down \in Process /\ Down.phase = "stopped" /\ Down.ms = <<>> /\ DOMAIN Down.ms = {} /\ Down.ok = FALSE
  BY DEF Down, Process, Batch
<1>3. DOMAIN stream = {} /\ Len(stream) = 0 /\ stream \in Seq([m : Message, state : {"waiting", "out", "acked", "term"}])
  BY <1>1
<1>4. \A c \in Procs : nats[c] = Down
  BY <1>1
<1>5. \A c \in Procs : ProcessInv(c)
  BY <1>2, <1>4 DEF ProcessInv, Attached
<1>6. NatsMarks = {}
  <2>1. \A c \in Procs : ProcessMarks(c) = {}
    BY <1>2, <1>4 DEF ProcessMarks
  <2>2. StreamMarks = {}
    BY <1>3 DEF StreamMarks
  <2> QED BY <2>1, <2>2, Empty DEF NatsMarks
<1>7. NatsNamed /\ NatsKept
  BY <1>3, <1>6 DEF NatsNamed, OneToOne, NatsKept
<1>8. nats \in [Procs -> Process]
  BY <1>1, <1>2
<1>9. life \in Nat /\ stale \in BOOLEAN /\ Len(stream) <= sent
  <2>1. life = 1 /\ Len(stream) = 0 /\ sent = 0
    BY <1>1, <1>3, Empty, Zenon
  <2>2. stale \in BOOLEAN
    BY <1>1, Zenon
  <2> QED BY <2>1, <2>2
<1>10. NatsInv
  BY <1>3, <1>5, <1>7, <1>8, <1>9 DEF NatsInv
<1> QED BY <1>1, <1>10 DEF NatsIdle

LEMMA RedisStarts == IngestInit => RedisInv /\ RedisIdle
<1> SUFFICES ASSUME IngestInit PROVE RedisInv /\ RedisIdle
  OBVIOUS
<1>1. /\ age = 1 /\ entries = <<>> /\ group = FALSE /\ given = 0 /\ pending = <<>> /\ token = 0 /\ minted = 0
      /\ reader = [c \in Procs |-> Idle] /\ named = {} /\ crossed = FALSE
  BY DEF IngestInit, RedisInit
<1>2. Idle \in Reader /\ Idle.phase = "stopped" /\ Idle.ms = <<>> /\ DOMAIN Idle.ms = {}
  BY DEF Idle, Reader, Reads
<1>3. DOMAIN entries = {} /\ Len(entries) = 0 /\ entries \in Stored /\ DOMAIN pending = {}
  BY <1>1 DEF Stored
<1>4. RedisTypes
  <2>1. reader \in [Procs -> Reader]
    BY <1>1, <1>2
  <2>2. age \in Nat /\ group \in BOOLEAN /\ token \in 0..minted /\ minted \in Nat /\ named \subseteq (0..age) \X (1..minted)
    <3>1. age = 1 /\ token = 0 /\ minted = 0 /\ named = {}
      BY <1>1, Zenon
    <3>2. group \in BOOLEAN
      BY <1>1, Zenon
    <3> QED BY <3>1, <3>2
  <2>3. (\A i \in DOMAIN entries : entries[i].m.n \in 1..sent) /\ given \in 0..Len(entries) /\ DOMAIN pending \subseteq 1..given
    BY <1>1, <1>3
  <2> QED BY <1>3, <2>1, <2>2, <2>3 DEF RedisTypes
<1>5. RedisNamed
  <2>1. \A c \in Procs : reader[c] = Idle
    BY <1>1
  <2>2. ReaderInv(Idle)
    BY <1>2 DEF ReaderInv, Working
  <2>3. DOMAIN chain = {}
    BY Empty
  <2> QED BY <1>3, <2>1, <2>2, <2>3, Empty DEF RedisNamed, OnceStored, OneToOne
<1>6. RedisKept
  BY <1>1 DEF RedisKept
<1> QED BY <1>1, <1>4, <1>5, <1>6 DEF RedisInv, RedisIdle

LEMMA OtelStarts == IngestInit => OtelInv /\ OtelIdle
<1> SUFFICES ASSUME IngestInit PROVE OtelInv /\ OtelIdle
  OBVIOUS
<1>1. logs = <<>> /\ request = <<>> /\ conn = [k \in Slots |-> Free] /\ rv = Off
  BY DEF IngestInit, OtelInit
<1>2. DOMAIN logs = {} /\ Len(logs) = 0 /\ logs \in Batches /\ request \in Requests /\ Len(request) = 0 /\ DOMAIN request = {}
  BY <1>1 DEF Batches, Requests
<1>3. Free \in Conn /\ Free.state = "free" /\ Free.req = 0 /\ Free.alive = FALSE
  BY DEF Free, Conn
<1>4. Off \in ReceiverT /\ Off.up = FALSE /\ Off.open = FALSE /\ DOMAIN Off.recs = {} /\ DOMAIN Off.live = {}
  <2>1. <<>> \in Batches /\ DOMAIN <<>> = {}
    BY DEF Batches
  <2>2. PICK r \in ReceiverT : r = Receiver
    BY <2>1 DEF Receiver, ReceiverT
  <2>3. DOMAIN r.recs = {} /\ DOMAIN r.live = {}
    BY <2>1, <2>2 DEF Receiver
  <2>4. PICK o \in ReceiverT : o = [r EXCEPT !.up = FALSE, !.open = FALSE]
    BY DEF ReceiverT
  <2>5. o.up = FALSE /\ o.open = FALSE /\ o.recs = r.recs /\ o.live = r.live
    BY <2>4 DEF ReceiverT
  <2>6. Off = o
    BY <2>2, <2>4, Zenon DEF Off
  <2> QED BY <2>3, <2>5, <2>6
<1>5. 0 \div RequestSize = 0
  BY OtelAssumption
<1>6. LogsInv
  BY <1>2, <1>5, Empty DEF LogsInv
<1>7. ConnsInv /\ UpInv /\ ServingInv
  BY <1>1, <1>2, <1>3, <1>4 DEF ConnsInv, UpInv, ServingInv
<1>8. ReceiverInv /\ OtelKept
  BY <1>1, <1>2, <1>4 DEF ReceiverInv, OfLogs, OtelKept
<1> QED BY <1>1, <1>6, <1>7, <1>8 DEF OtelInv, OtelIdle

-----------------------------------------------------------------------------
(* The steps *)

\* An operator, and what an operator repairs.
LEMMA StuckSteps ==
    ASSUME IngestInv, NEW s \in Subjects, Breaks(s) \/ Mends(s)
    PROVE  IngestInv'
<1>1. UNCHANGED <<chain, coming, sent, feed, kafkaVars, natsVars, redisVars, otelVars>>
  BY DEF Breaks, Mends, GetStuck, Repair
<1>2. stuck' \subseteq Subjects /\ spare' \in 0..MaxFaults[feed]
  <2>1. FeedInv /\ MaxFaults[feed] \in Nat
    BY FeedersAssumption DEF IngestInv, FeedInv
  <2> QED BY <2>1 DEF Breaks, Mends, GetStuck, Repair, Fault, FeedInv
<1>3. FeedInv'
  BY <1>1, <1>2 DEF IngestInv, FeedInv, Once
<1> QED BY <1>1, <1>3, KafkaUntouched, NatsUntouched, RedisUntouched, OtelUntouched DEF IngestInv

LEMMA IngestSteps == IngestInv /\ [IngestNext]_ingestVars => IngestInv'
<1> SUFFICES ASSUME IngestInv, [IngestNext]_ingestVars PROVE IngestInv'
  OBVIOUS
<1>i. FeedInv
  BY DEF IngestInv
<1>1. CASE OnKafka /\ KafkaNext
  <2>1. feed = "kafka" /\ feed' = feed /\ UNCHANGED <<natsVars, redisVars, otelVars>>
    BY <1>1 DEF OnKafka
  <2>2. FeedInv' /\ KafkaInv'
    BY <1>i, <1>1, <2>1, KafkaSteps DEF IngestInv
  <2>3. NatsIdle' /\ RedisIdle' /\ OtelIdle'
    BY <2>1 DEF IngestInv, NatsIdle, RedisIdle, OtelIdle, natsVars, redisVars, serverVars, otelVars
  <2> QED BY <2>1, <2>2, <2>3 DEF IngestInv
<1>2. CASE OnNats /\ NatsNext
  <2>1. feed = "nats" /\ feed' = feed /\ UNCHANGED <<kafkaVars, redisVars, otelVars>>
    BY <1>2 DEF OnNats
  <2>2. FeedInv' /\ NatsInv'
    BY <1>i, <1>2, <2>1, NatsSteps DEF IngestInv
  <2>3. KafkaIdle' /\ RedisIdle' /\ OtelIdle'
    BY <2>1 DEF IngestInv, KafkaIdle, RedisIdle, OtelIdle, kafkaVars, redisVars, serverVars, otelVars
  <2> QED BY <2>1, <2>2, <2>3 DEF IngestInv
<1>3. CASE OnRedis /\ RedisNext
  <2>1. feed = "redis" /\ feed' = feed /\ UNCHANGED <<kafkaVars, natsVars, otelVars>>
    BY <1>3 DEF OnRedis
  <2>2. FeedInv' /\ RedisInv'
    BY <1>i, <1>3, <2>1, RedisSteps DEF IngestInv
  <2>3. KafkaIdle' /\ NatsIdle' /\ OtelIdle'
    BY <2>1 DEF IngestInv, KafkaIdle, NatsIdle, OtelIdle, kafkaVars, natsVars, otelVars
  <2> QED BY <2>1, <2>2, <2>3 DEF IngestInv
<1>4. CASE OnOtel /\ OtelNext
  <2>1. feed = "otel" /\ feed' = feed /\ UNCHANGED <<kafkaVars, natsVars, redisVars>>
    BY <1>4 DEF OnOtel
  <2>2. FeedInv' /\ OtelInv'
    BY <1>i, <1>4, <2>1, OtelSteps DEF IngestInv
  <2>3. KafkaIdle' /\ NatsIdle' /\ RedisIdle'
    BY <2>1 DEF IngestInv, KafkaIdle, NatsIdle, RedisIdle, kafkaVars, natsVars, redisVars, serverVars
  <2> QED BY <2>1, <2>2, <2>3 DEF IngestInv
<1>5. CASE \E s \in Subjects : Breaks(s) \/ Mends(s)
  BY <1>5, StuckSteps
<1>6. CASE UNCHANGED ingestVars
  <2>1. UNCHANGED <<feedVars, feed, chain, sent, coming, kafkaVars, natsVars, redisVars, otelVars>>
    BY <1>6 DEF ingestVars, feedVars
  <2>2. FeedInv'
    BY <1>i, <2>1, SameQuiet, FeedQuiet
  <2> QED BY <2>1, <2>2, KafkaUntouched, NatsUntouched, RedisUntouched, OtelUntouched DEF IngestInv
<1> QED BY <1>1, <1>2, <1>3, <1>4, <1>5, <1>6 DEF IngestNext

-----------------------------------------------------------------------------
(* What the consumers promise *)

\* An entry names a message that was published, for one of its subjects.
LEMMA KafkaTyped ==
    ASSUME FeedInv, KafkaInv
    PROVE  /\ \A p \in Partitions : offsets[p].off \in 0..sent /\ offsets[p].epoch \in Nat
           /\ \A c \in Procs : member[c].handled \subseteq DOMAIN member[c].ms
           /\ KafkaKept /\ KafkaOrder
<1>1. ASSUME NEW p \in Partitions PROVE offsets[p].off \in 0..sent /\ offsets[p].epoch \in Nat
  <2>1. offsets[p] \in Place /\ sent \in Nat /\ offsets[p].off <= sent
    BY DEF KafkaInv, KafkaTypes, Places, FeedInv, OffsetsSafe, Safe, Sound
  <2> QED BY <2>1 DEF Place
<1>2. KafkaKept
  <2> SUFFICES ASSUME NEW p \in Partitions, NEW i \in 1..Resume(p, offsets[p]), Valid(klog[p][i].m)
               PROVE  OnChain(klog[p][i].m.n)
    BY DEF KafkaKept
  <2>1. Covered(klog[p], offsets[p], {}) /\ i \in 1..ResumeIn(klog[p], offsets[p])
    BY ResumeIs DEF KafkaInv, OffsetsSafe, Safe
  <2> QED BY <2>1 DEF Covered
<1>3. \A c \in Procs : member[c].handled \subseteq DOMAIN member[c].ms
  BY DEF KafkaInv, MembersInv, MemberInv
<1> QED BY <1>1, <1>2, <1>3 DEF KafkaInv

LEMMA KafkaIdles ==
    ASSUME FeedInv, KafkaIdle
    PROVE  /\ \A p \in Partitions : offsets[p].off \in 0..sent /\ offsets[p].epoch \in Nat
           /\ \A c \in Procs : member[c].handled \subseteq DOMAIN member[c].ms
           /\ KafkaKept /\ KafkaOrder
<1>1. \A p \in Partitions : klog[p] = <<>> /\ DOMAIN klog[p] = {} /\ Len(klog[p]) = 0 /\ offsets[p] = Start
  BY DEF KafkaIdle
<1>2. Start.off = 0 /\ Start.epoch = 0 /\ sent \in Nat
  BY DEF Start, FeedInv
<1>3. \A c \in Procs : member[c].handled \subseteq DOMAIN member[c].ms
  BY DEF KafkaIdle, Stopped
<1>4. KafkaKept
  <2> SUFFICES ASSUME NEW p \in Partitions, NEW i \in 1..Resume(p, offsets[p]) PROVE FALSE
    BY DEF KafkaKept
  <2>1. Resume(p, offsets[p]) = 0
    <3>1. {k \in DOMAIN klog[p] : klog[p][k].epoch <= offsets[p].epoch} = {} /\ offsets[p].off = 0
      BY <1>1, <1>2
    <3> QED BY <3>1, FS_EmptySet DEF Resume
  <2> QED BY <2>1
<1>5. KafkaOrder
  BY <1>1 DEF KafkaOrder
<1> QED BY <1>1, <1>2, <1>3, <1>4, <1>5

LEMMA InvGives == IngestInv => CommittedOnce /\ NothingLost
<1> SUFFICES ASSUME IngestInv PROVE CommittedOnce /\ NothingLost
  OBVIOUS
<1>i. FeedInv /\ sent \in Nat
  BY DEF IngestInv, FeedInv
<1>1. CommittedOnce
  <2> SUFFICES ASSUME NEW n \in 1..sent PROVE Copies(n) <= 1
    BY DEF CommittedOnce
  <2> DEFINE at == {i \in DOMAIN chain : chain[i].n = n}
  <2>1. Copies(n) = Cardinality(at)
    BY DEF Copies
  <2>2. CASE at = {}
    BY <2>1, <2>2, FS_EmptySet
  <2>3. CASE at # {}
    <3>1. PICK a \in at : TRUE
      BY <2>3
    <3>2. \A i \in at : i = a
      BY <1>i, <3>1 DEF FeedInv, Once
    <3>3. at = {a}
      BY <3>1, <3>2
    <3>4. Cardinality({a}) = 1
      BY FS_Singleton, Zenon
    <3>5. Copies(n) = 1
      BY <2>1, <3>3, <3>4, Zenon
    <3> QED BY <3>5
  <2> QED BY <2>2, <2>3
<1>2. \A i \in DOMAIN chain : chain[i].n \in 1..sent /\ chain[i].subject \in Subjects
  <2>1. \A i \in DOMAIN chain : chain[i] \in Recs
    BY <1>i DEF FeedInv
  <2> QED BY <1>i, <2>1 DEF FeedInv, Recs
<1>3. stuck \subseteq Subjects /\ spare \in 0..MaxFaults[feed]
  BY <1>i DEF FeedInv
<1>4. /\ \A p \in Partitions : offsets[p].off \in 0..sent /\ offsets[p].epoch \in Nat
      /\ \A c \in Procs : member[c].handled \subseteq DOMAIN member[c].ms
      /\ KafkaKept /\ KafkaOrder
  <2>1. KafkaInv \/ KafkaIdle
    BY DEF IngestInv
  <2> QED BY <1>i, <2>1, KafkaTyped, KafkaIdles
<1>5. (\A c \in Procs : \A k \in DOMAIN nats[c].ms : nats[c].ms[k].seq \in 1..sent) /\ NatsKept
  <2>1. CASE NatsInv
    BY <2>1 DEF NatsInv, ProcessInv
  <2>2. CASE NatsIdle
    <3>1. DOMAIN stream = {} /\ \A c \in Procs : DOMAIN nats[c].ms = {}
      BY <2>2 DEF NatsIdle, Down
    <3> QED BY <3>1 DEF NatsKept
  <2> QED BY <2>1, <2>2 DEF IngestInv
<1>6. given \in 0..Len(entries) /\ DOMAIN pending \subseteq 1..given /\ RedisKept
  <2>1. CASE RedisInv
    BY <2>1 DEF RedisInv, RedisTypes
  <2>2. CASE RedisIdle
    <3>1. given = 0 /\ Len(entries) = 0 /\ DOMAIN pending = {}
      BY <2>2 DEF RedisIdle
    <3> QED BY <3>1 DEF RedisKept
  <2> QED BY <2>1, <2>2 DEF IngestInv
<1>7. (\A k \in Slots : conn[k].req \in 0..Len(request)) /\ OtelKept
  <2>1. CASE OtelInv
    BY <2>1 DEF OtelInv, ConnsInv
  <2>2. CASE OtelIdle
    <3>1. DOMAIN request = {} /\ Len(request) = 0 /\ \A k \in Slots : conn[k].req = 0
      BY <2>2 DEF OtelIdle, Free
    <3> QED BY <3>1 DEF OtelKept
  <2> QED BY <2>1, <2>2 DEF IngestInv
<1>8. TypeOK
  BY <1>2, <1>3, <1>4, <1>5, <1>6, <1>7 DEF TypeOK
<1> QED BY <1>1, <1>4, <1>5, <1>6, <1>7, <1>8 DEF NothingLost

\* The consumers' invariant holds of everything any of them can do.
LEMMA IngestAlways == IngestSpec => []IngestInv
<1>1. IngestInit => IngestInv
  BY FeedStarts, KafkaStarts, NatsStarts, RedisStarts, OtelStarts DEF IngestInv
<1>2. IngestInv /\ [IngestNext]_ingestVars => IngestInv'
  BY IngestSteps
<1> QED BY <1>1, <1>2, PTL DEF IngestSpec

\* Whichever consumer runs, with any number of processes, partitions, messages and faults:
\* a message is on its chain at most once, as long as its position's life is named.
THEOREM IngestOnce == IngestSpec => []CommittedOnce
<1>1. IngestInv => CommittedOnce
  BY InvGives
<1> QED BY <1>1, IngestAlways, PTL

\* And nothing it acknowledged upstream is missing from its chain, nor is a partition's
\* order lost: committed offsets, acks, removed pending entries and answered requests.
THEOREM IngestNothingLost == IngestSpec => []NothingLost
<1>1. IngestInv => NothingLost
  BY InvGives
<1> QED BY <1>1, IngestAlways, PTL

=============================================================================
