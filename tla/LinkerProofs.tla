---------------------------- MODULE LinkerProofs ----------------------------
(***************************************************************************)
(* Linker and its store for any chains, writers, batches, faults and       *)
(* calls: what every chain, head and returned Result is, that a saved head *)
(* never goes back, and that the chains implement append-only logs.        *)
(*                                                                         *)
(* What makes the properties inductive: a writer whose handle works holds  *)
(* the lease of its chain from AcquireLease to ReleaseLease, so the tail   *)
(* it read is the tail it writes at; a caller's predicted hash is as long  *)
(* as the chain was, so it is the tail's hash at most once.                *)
(*                                                                         *)
(* Last, the handle under the store, on a file that is damaged.            *)
(***************************************************************************)
EXTENDS BoltStore, FiniteSetTheorems, TLAPS

Hash      == Seq(Items)
Entry     == [id : Nat, call : Nat, prev : Hash, hash : Hash]
HeadState == [pos : Nat, hash : Hash]

\* Where Append is between AcquireLease and ReleaseLease.
Leased == {"tail", "write", "head", "releaseDone", "releaseRefused", "releaseFailed"}

\* A chain is a sequence of entries of calls made, each with the hash of all up to it.
IsChain(r) ==
    /\ r \in Seq(Entry)
    /\ \A n \in 1..Len(r) :
          /\ r[n].prev = IF n = 1 THEN <<>> ELSE r[n - 1].hash
          /\ r[n].hash = Append(r[n].prev, <<r[n].call, r[n].id>>)
          /\ Len(r[n].hash) = n

\* A batch linked from a position and a hash on.
Continues(new, j, pos, h) ==
    /\ DOMAIN new = pos..(pos + Cardinality(j.batch) - 1)
    /\ \A n \in pos..(pos + Cardinality(j.batch) - 1) :
          /\ new[n] \in Entry /\ Len(new[n].hash) = n
          /\ new[n].call = j.call /\ new[n].id = Sorted(j.batch)[n - pos + 1].id
          /\ new[n].prev = IF n = pos THEN h ELSE new[n - 1].hash
          /\ new[n].hash = Append(new[n].prev, <<new[n].call, new[n].id>>)

\* The chains, and whose entries they hold.
ChainsSound ==
    /\ rows \in [Chains -> Seq(Entry)]
    /\ \A c \in Chains : IsChain(rows[c]) /\ \A n \in 1..Len(rows[c]) : rows[c][n].call <= calls

\* What a writer was called with; once the Store is closed its handle is of no use.
JobOK(w) ==
    /\ pc[w] = "idle" => job[w] = NoJob
    /\ pc[w] # "idle" => /\ job[w].chains \subseteq Chains /\ job[w].batch \in Batches
                         /\ job[w].expect \in BOOLEAN /\ job[w].call \in 1..calls
                         /\ open \/ w \in stale
    /\ pc[w] \in Leased \cup {"acquire"} => \E c \in Chains : job[w].chains = {c}

\* The lease is held by whoever can still write under it.
LeaseOK(w) == pc[w] \in Leased /\ Usable(w) => leases[Chain(w)] = w

\* Before Write the tail is the chain's; after it the batch is on the chain, and its end
\* for as long as the lease is held.
TailOK(w) ==
    LET c   == Chain(w)
        new == Linked(job[w], tail[w].pos, tail[w].hash)
    IN
    /\ pc[w] = "write" =>
          /\ job[w].expect => job[w].at[c] = tail[w].hash
          /\ Usable(w) => tail[w].pos = NextPos(c) /\ tail[w].hash = TailHash(c)
    /\ pc[w] = "head" =>
          /\ \A n \in DOMAIN new : n \in 1..Len(rows[c]) /\ rows[c][n] = new[n]
          /\ Continues(new, job[w], tail[w].pos, tail[w].hash) /\ tail[w].pos \in Nat \ {0}
          /\ Usable(w) => tail[w].pos + Cardinality(job[w].batch) - 1 = Len(rows[c])

\* Entries of a call on a chain follow the tail it predicted, in the batch's order.
InPlace(j, h, r) ==
    /\ h \in Hash
    /\ \A n \in 1..Len(r) : r[n].call = j.call =>
          n - Len(h) \in 1..Cardinality(j.batch) /\ r[n].id = Sorted(j.batch)[n - Len(h)].id

PredictedOK(w) ==
    job[w].expect => \A c \in job[w].chains : InPlace(job[w], job[w].at[c], rows[c])

\* No two writers work for one call.
OwnCalls ==
    \A v, w \in Writers : v # w /\ pc[v] # "idle" /\ pc[w] # "idle" => job[v].call # job[w].call

WriterOK(w) == JobOK(w) /\ LeaseOK(w) /\ TailOK(w) /\ PredictedOK(w)

LinkInv ==
    /\ TypeOK /\ ChainsSound /\ OwnCalls
    /\ heads \in [Chains -> HeadState \cup {None}] /\ acked \subseteq Chains \X Nat
    /\ DOMAIN job = Writers /\ DOMAIN tail = Writers
    /\ \A w \in Writers : WriterOK(w)
    /\ HeadsAreEntries /\ ResultsStand

-----------------------------------------------------------------------------
(* sortInputs puts every input of a batch at one place. *)

\* Before is a strict order of a batch: inputs with one arrival time differ in their id.
LEMMA BeforeOrders ==
    ASSUME NEW b \in Batches
    PROVE  /\ \A x \in b : x.id \in Nat /\ x.at \in Nat /\ ~Before(x, x)
           /\ \A x, y \in b : x # y => Before(x, y) \/ Before(y, x)
           /\ \A x, y, z \in b : Before(x, y) /\ Before(y, z) => Before(x, z)
<1>1. \A x \in b : x.id \in Nat /\ x.at \in Nat BY LinkerAssumption
<1>2. \A x, y \in b : x # y => x.id # y.id BY LinkerAssumption
<1>3. QED BY <1>1, <1>2 DEF Before

\* An input has as many before it as its place says: fewer than the batch has, and more
\* than any input before it.
LEMMA RankBounds ==
    ASSUME NEW b \in Batches, NEW x \in b
    PROVE  /\ Rank(b, x) \in 0..(Cardinality(b) - 1)
           /\ \A y \in b : Rank(b, y) = Rank(b, x) => y = x
<1> DEFINE Pre(z) == {y \in b : Before(y, z)}
<1>1. IsFiniteSet(b) /\ Cardinality(b) \in Nat BY LinkerAssumption, FS_CardinalityType
<1>2. ASSUME NEW z \in b
      PROVE  /\ IsFiniteSet(Pre(z)) /\ Cardinality(Pre(z)) \in Nat
             /\ Cardinality(Pre(z)) < Cardinality(b)
  <2>1. Pre(z) \in SUBSET b /\ z \notin Pre(z) BY BeforeOrders
  <2>2. IsFiniteSet(Pre(z)) /\ Cardinality(Pre(z)) <= Cardinality(b)
        /\ (Cardinality(b) = Cardinality(Pre(z)) => b = Pre(z))
        BY <1>1, <2>1, FS_Subset
  <2>3. Cardinality(Pre(z)) \in Nat BY <2>2, FS_CardinalityType
  <2>4. QED BY <1>1, <2>1, <2>2, <2>3
<1>3. ASSUME NEW y \in b, NEW z \in b, Before(y, z) PROVE Cardinality(Pre(y)) < Cardinality(Pre(z))
  <2>1. Pre(y) \in SUBSET Pre(z) /\ y \in Pre(z) /\ y \notin Pre(y) BY <1>3, BeforeOrders
  <2>2. Cardinality(Pre(y)) <= Cardinality(Pre(z)) /\ Cardinality(Pre(z)) # Cardinality(Pre(y))
        BY <1>2, <2>1, FS_Subset
  <2>3. QED BY <1>2, <2>2
<1>4. \A y \in b : Cardinality(Pre(y)) = Cardinality(Pre(x)) => y = x
  <2> SUFFICES ASSUME NEW y \in b, y # x PROVE Cardinality(Pre(y)) # Cardinality(Pre(x)) OBVIOUS
  <2>1. Before(y, x) \/ Before(x, y) BY BeforeOrders
  <2>2. QED BY <2>1, <1>2, <1>3
<1>5. QED BY <1>1, <1>2, <1>4 DEF Rank

\* Every place of a batch is taken by an input, and by one.
LEMMA SortedIsBatch ==
    ASSUME NEW b \in Batches
    PROVE  /\ Cardinality(b) \in Nat \ {0}
           /\ Len(Sorted(b)) = Cardinality(b)
           /\ \A k \in 1..Cardinality(b) : Sorted(b)[k] \in b /\ Rank(b, Sorted(b)[k]) = k - 1
           /\ \A k \in 1..Cardinality(b) : Sorted(b)[k].id \in Nat
           /\ \A j, k \in 1..Cardinality(b) : Sorted(b)[j].id = Sorted(b)[k].id => j = k
<1> DEFINE N == Cardinality(b)
           S == 0..(N - 1)
           f == [x \in b |-> Rank(b, x)]
<1>1. IsFiniteSet(b) /\ N \in Nat \ {0} BY LinkerAssumption, FS_CardinalityType, FS_EmptySet
<1>2. IsFiniteSet(S) /\ Cardinality(S) = N BY <1>1, FS_Interval
<1> HIDE DEF N
<1>3. f \in [b -> S] /\ \A x, y \in b : f[x] = f[y] => x = y BY RankBounds DEF N
<1>4. f \in Injection(b, S) BY <1>3 DEF Injection, IsInjective
<1>5. f \in Surjection(b, S) BY <1>1, <1>2, <1>4, FS_Injection DEF N
<1>6. \A k \in 1..N : \E x \in b : Rank(b, x) = k - 1
  <2>1. \A t \in S : \E x \in b : f[x] = t BY <1>5 DEF Surjection
  <2>2. \A k \in 1..N : k - 1 \in S BY <1>1
  <2>3. QED BY <2>1, <2>2
<1>7. \A k \in 1..N : Sorted(b)[k] \in b /\ Rank(b, Sorted(b)[k]) = k - 1
      BY <1>6 DEF Sorted, N
<1>8. Len(Sorted(b)) = N BY <1>1 DEF Sorted, N
<1>9. \A j, k \in 1..N : Sorted(b)[j].id = Sorted(b)[k].id => j = k
  <2> SUFFICES ASSUME NEW j \in 1..N, NEW k \in 1..N, Sorted(b)[j].id = Sorted(b)[k].id PROVE j = k
      OBVIOUS
  <2>1. Sorted(b)[j] = Sorted(b)[k] BY <1>7, LinkerAssumption
  <2>2. QED BY <1>1, <1>7, <2>1
<1>10. QED BY <1>1, <1>7, <1>8, <1>9, BeforeOrders DEF N

-----------------------------------------------------------------------------
(* link and putEntries *)

\* link: the batch's entries are a chain that goes on from the given position and hash.
LEMMA LinkedEntries ==
    ASSUME NEW j, j.batch \in Batches, j.call \in Nat,
           NEW pos \in Nat \ {0}, NEW h \in Hash, Len(h) = pos - 1
    PROVE  Continues(Linked(j, pos, h), j, pos, h)
<1> DEFINE N   == Cardinality(j.batch)
           s   == Sorted(j.batch)
           new == Linked(j, pos, h)
           upTo(k) == h \o [i \in 1..k |-> <<j.call, s[i].id>>]
<1>1. N \in Nat \ {0} /\ Len(s) = N /\ \A i \in 1..N : s[i].id \in Nat BY SortedIsBatch
<1>2. /\ DOMAIN new = pos..(pos + N - 1)
      /\ \A n \in pos..(pos + N - 1) :
            new[n] = [id |-> s[n - pos + 1].id, call |-> j.call, prev |-> upTo(n - pos), hash |-> upTo(n - pos + 1)]
      BY <1>1 DEF Linked
<1> HIDE DEF N, s, new
<1>3. ASSUME NEW k \in 0..N PROVE upTo(k) \in Hash /\ Len(upTo(k)) = pos - 1 + k
  <2>1. [i \in 1..k |-> <<j.call, s[i].id>>] \in Seq(Items) /\ Len([i \in 1..k |-> <<j.call, s[i].id>>]) = k
        BY <1>1 DEF Items
  <2>2. QED BY <2>1 DEF Hash
<1>4. ASSUME NEW k \in 0..(N - 1) PROVE upTo(k + 1) = Append(upTo(k), <<j.call, s[k + 1].id>>)
  <2> DEFINE q(m) == [i \in 1..m |-> <<j.call, s[i].id>>]
  <2>1. q(k) \in Seq(Items) /\ q(k + 1) \in Seq(Items) /\ <<j.call, s[k + 1].id>> \in Items
        BY <1>1 DEF Items
  <2>2. q(k + 1) = Append(q(k), <<j.call, s[k + 1].id>>) BY <1>1, <2>1
  <2> HIDE DEF q
  <2>3. h \o Append(q(k), <<j.call, s[k + 1].id>>) = Append(h \o q(k), <<j.call, s[k + 1].id>>)
        BY <2>1 DEF Hash
  <2>4. QED BY <2>2, <2>3 DEF q
<1>5. upTo(0) = h BY DEF Hash
<1> HIDE DEF upTo
<1>6. ASSUME NEW n \in pos..(pos + N - 1)
      PROVE  /\ new[n] \in Entry /\ Len(new[n].hash) = n
             /\ new[n].call = j.call /\ new[n].id = s[n - pos + 1].id
             /\ new[n].prev = IF n = pos THEN h ELSE new[n - 1].hash
             /\ new[n].hash = Append(new[n].prev, <<new[n].call, new[n].id>>)
  <2>1. n - pos \in 0..(N - 1) /\ n - pos + 1 \in 1..N BY <1>1
  <2>2. new[n] = [id |-> s[n - pos + 1].id, call |-> j.call, prev |-> upTo(n - pos), hash |-> upTo(n - pos + 1)]
        BY <1>2
  <2>3. new[n] \in Entry /\ Len(new[n].hash) = n
    <3>1. upTo(n - pos) \in Hash /\ upTo(n - pos + 1) \in Hash /\ Len(upTo(n - pos + 1)) = n
          BY <1>1, <1>3, <2>1
    <3>2. s[n - pos + 1].id \in Nat BY <1>1, <2>1
    <3>3. QED BY <2>2, <3>1, <3>2 DEF Entry
  <2>4. new[n].hash = Append(new[n].prev, <<new[n].call, new[n].id>>) BY <2>1, <2>2, <1>4
  <2>5. new[n].prev = IF n = pos THEN h ELSE new[n - 1].hash
    <3>1. CASE n = pos BY <3>1, <2>2, <1>5
    <3>2. CASE n # pos
      <4>1. n - 1 \in pos..(pos + N - 1) /\ n - 1 - pos + 1 = n - pos BY <3>2, <1>1
      <4>2. new[n - 1].hash = upTo(n - pos) BY <4>1, <1>2
      <4>3. QED BY <3>2, <4>2, <2>2
    <3>3. QED BY <3>1, <3>2
  <2>6. new[n].call = j.call /\ new[n].id = s[n - pos + 1].id BY <2>2
  <2>7. QED BY <2>3, <2>4, <2>5, <2>6
<1>7. QED BY <1>2, <1>6 DEF N, s, new, Continues

\* tailOf: a chain's last entry.
LEMMA TailOfChain ==
    ASSUME NEW c \in Chains, IsChain(rows[c])
    PROVE  /\ NextPos(c) = Len(rows[c]) + 1
           /\ TailHash(c) = IF Len(rows[c]) = 0 THEN <<>> ELSE rows[c][Len(rows[c])].hash
           /\ TailHash(c) \in Hash /\ Len(TailHash(c)) = Len(rows[c])
<1> DEFINE r == rows[c]
           L == Len(r)
<1>1. L \in Nat /\ DOMAIN r = 1..L /\ \A n \in 1..L : r[n] \in Entry BY DEF IsChain
<1>2. CASE L = 0
  <2>1. DOMAIN r = {} BY <1>1, <1>2
  <2>2. NextPos(c) = 1 /\ TailHash(c) = <<>> BY <2>1 DEF NextPos, TailHash
  <2>3. QED BY <1>2, <2>2 DEF Hash
<1>3. CASE L # 0
  <2>1. DOMAIN r # {} /\ L \in DOMAIN r BY <1>1, <1>3
  <2>2. LastAt(r) = L BY <1>1, <2>1 DEF LastAt
  <2>3. NextPos(c) = L + 1 /\ TailHash(c) = r[L].hash BY <2>1, <2>2 DEF NextPos, TailHash
  <2>4. r[L].hash \in Hash /\ Len(r[L].hash) = L BY <1>1, <2>1 DEF IsChain, Entry
  <2>5. QED BY <1>3, <2>3, <2>4
<1>4. QED BY <1>2, <1>3

\* A chain longer by the batch of a call.
Grown(r, old, j) ==
    /\ IsChain(r) /\ Len(r) = Len(old) + Cardinality(j.batch)
    /\ \A n \in 1..Len(old) : r[n] = old[n]
    /\ \A n \in (Len(old) + 1)..Len(r) : r[n].call = j.call /\ r[n].id = Sorted(j.batch)[n - Len(old)].id

\* putEntries of a linked batch at the tail: the chain, longer by the batch.
LEMMA PutLinked ==
    ASSUME NEW c \in Chains, IsChain(rows[c]), NEW j, j.batch \in Batches, j.call \in Nat
    PROVE  LET new == Linked(j, NextPos(c), TailHash(c))
               L   == Len(rows[c])
               N   == Cardinality(j.batch)
               r   == Put(rows[c], new)
           IN  /\ Grown(r, rows[c], j)
               /\ Continues(new, j, L + 1, TailHash(c))
               /\ \A n \in (L + 1)..(L + N) : r[n] = new[n]
               /\ LastAt(new) = L + N
<1> DEFINE L == Len(rows[c])
           N == Cardinality(j.batch)
           h == TailHash(c)
           new == Linked(j, L + 1, h)
           r == Put(rows[c], new)
<1>1. /\ L \in Nat /\ DOMAIN rows[c] = 1..L /\ N \in Nat \ {0}
      /\ NextPos(c) = L + 1 /\ h \in Hash /\ Len(h) = L
      /\ h = IF L = 0 THEN <<>> ELSE rows[c][L].hash
      /\ \A n \in 1..L : rows[c][n] \in Entry
      BY TailOfChain, SortedIsBatch DEF IsChain
<1> HIDE DEF L, N, h, new
<1>2. Continues(new, j, L + 1, h)
  <2>1. L + 1 \in Nat \ {0} /\ h \in Hash /\ Len(h) = (L + 1) - 1 BY <1>1
  <2>2. QED BY <2>1, LinkedEntries DEF new
<1>3. /\ DOMAIN new = (L + 1)..(L + N)
      /\ \A n \in (L + 1)..(L + N) :
             /\ new[n] \in Entry /\ Len(new[n].hash) = n
             /\ new[n].call = j.call /\ new[n].id = Sorted(j.batch)[n - L].id
             /\ new[n].prev = IF n = L + 1 THEN h ELSE new[n - 1].hash
             /\ new[n].hash = Append(new[n].prev, <<new[n].call, new[n].id>>)
  <2>1. (L + 1) + N - 1 = L + N /\ \A n \in (L + 1)..(L + N) : n - (L + 1) + 1 = n - L BY <1>1
  <2>2. QED BY <2>1, <1>2 DEF Continues, N
<1>4. /\ DOMAIN r = 1..(L + N)
      /\ \A n \in 1..L : r[n] = rows[c][n]
      /\ \A n \in (L + 1)..(L + N) : r[n] = new[n]
      BY <1>1, <1>3 DEF Put
<1> HIDE DEF r
<1>5. r \in Seq(Entry) /\ Len(r) = L + N
  <2>1. ASSUME NEW n \in 1..(L + N) PROVE r[n] \in Entry
    <3>1. n \in 1..L \/ n \in (L + 1)..(L + N) BY <1>1
    <3>2. QED BY <3>1, <1>1, <1>3, <1>4
  <2>2. r = [n \in 1..(L + N) |-> r[n]] BY <1>4 DEF r, Put
  <2>3. QED BY <1>1, <2>1, <2>2
<1>6. ASSUME NEW n \in 1..(L + N)
      PROVE  /\ r[n].prev = IF n = 1 THEN <<>> ELSE r[n - 1].hash
             /\ r[n].hash = Append(r[n].prev, <<r[n].call, r[n].id>>)
             /\ Len(r[n].hash) = n
  <2>1. CASE n \in 1..L
    <3>1. r[n] = rows[c][n] /\ (n # 1 => r[n - 1] = rows[c][n - 1]) BY <1>1, <1>4, <2>1
    <3>2. QED BY <3>1, <2>1 DEF IsChain, L
  <2>2. CASE n = L + 1
    <3>1. r[n] = new[n] /\ (L # 0 => r[n - 1] = rows[c][L]) BY <1>1, <1>4, <2>2
    <3>2. n \in (L + 1)..(L + N) /\ n - 1 = L /\ (n = 1 <=> L = 0) BY <1>1, <2>2
    <3>3. r[n].prev = h /\ r[n].hash = Append(r[n].prev, <<r[n].call, r[n].id>>) /\ Len(r[n].hash) = n
          BY <1>3, <2>2, <3>1, <3>2
    <3>4. h = IF n = 1 THEN <<>> ELSE r[n - 1].hash BY <1>1, <3>1, <3>2
    <3>5. QED BY <3>3, <3>4
  <2>3. CASE n > L + 1
    <3>1. n \in (L + 1)..(L + N) /\ n - 1 \in (L + 1)..(L + N) BY <1>1, <2>3
    <3>2. r[n] = new[n] /\ r[n - 1] = new[n - 1] /\ n # 1 /\ n # L + 1 BY <1>1, <1>4, <2>3, <3>1
    <3>3. QED BY <1>3, <3>1, <3>2
  <2>4. n \in 1..L \/ n = L + 1 \/ n > L + 1 BY <1>1
  <2>5. QED BY <2>1, <2>2, <2>3, <2>4
<1>7. LastAt(new) = L + N BY <1>1, <1>3 DEF LastAt
<1>8. IsChain(r) BY <1>1, <1>5, <1>6 DEF IsChain
<1>9. Grown(r, rows[c], j) BY <1>1, <1>3, <1>4, <1>5, <1>8 DEF L, N, Grown
<1>10. QED BY <1>1, <1>2, <1>4, <1>7, <1>9 DEF L, N, h, new, r

-----------------------------------------------------------------------------
(* What one step does to the chains *)

\* A transaction of writer w extends the chains cs by its batch, at their tails.
Grow(w, cs) ==
    /\ pc[w] # "idle" /\ cs \subseteq job[w].chains
    /\ \A c \in cs : leases[c] \in {None, w} /\ (job[w].expect => job[w].at[c] = TailHash(c))
    /\ rows' = [c \in Chains |-> IF c \in cs THEN Put(rows[c], Linked(job[w], NextPos(c), TailHash(c))) ELSE rows[c]]

\* Each chain is longer by the batch or as it was.
LEMMA GrowRows ==
    ASSUME LinkInv, NEW w \in Writers, NEW cs, Grow(w, cs)
    PROVE  /\ cs \subseteq Chains
           /\ \A c \in cs : Grown(rows'[c], rows[c], job[w])
           /\ \A c \in Chains \ cs : rows'[c] = rows[c]
           /\ rows' \in [Chains -> Seq(Entry)]
           /\ \A c \in Chains : Len(rows[c]) \in Nat /\ Len(rows'[c]) \in Nat /\ Len(rows[c]) <= Len(rows'[c])
                                /\ \A n \in 1..Len(rows[c]) : rows'[c][n] = rows[c][n]
<1>1. JobOK(w) /\ ChainsSound /\ TypeOK BY DEF LinkInv, WriterOK
<1>2. cs \subseteq Chains /\ job[w].batch \in Batches /\ job[w].call \in Nat
      BY <1>1 DEF JobOK, Grow, TypeOK
<1>3. Cardinality(job[w].batch) \in Nat BY <1>2, SortedIsBatch
<1>4. ASSUME NEW c \in cs PROVE Grown(rows'[c], rows[c], job[w])
  <2>1. c \in Chains /\ IsChain(rows[c]) BY <1>1, <1>2 DEF ChainsSound
  <2>2. rows'[c] = Put(rows[c], Linked(job[w], NextPos(c), TailHash(c))) BY <2>1 DEF Grow
  <2>3. QED BY <1>2, <2>1, <2>2, PutLinked
<1>5. ASSUME NEW c \in Chains \ cs PROVE rows'[c] = rows[c] BY DEF Grow
<1>6. ASSUME NEW c \in Chains
      PROVE  /\ rows'[c] \in Seq(Entry) /\ Len(rows[c]) \in Nat /\ Len(rows'[c]) \in Nat
             /\ Len(rows[c]) <= Len(rows'[c]) /\ \A n \in 1..Len(rows[c]) : rows'[c][n] = rows[c][n]
  <2>1. rows[c] \in Seq(Entry) /\ Len(rows[c]) \in Nat BY <1>1 DEF ChainsSound
  <2>2. CASE c \in cs BY <1>3, <1>4, <2>1, <2>2 DEF Grown, IsChain
  <2>3. CASE c \notin cs BY <1>5, <2>1, <2>3
  <2>4. QED BY <2>2, <2>3
<1>7. rows' \in [Chains -> Seq(Entry)] BY <1>6 DEF Grow
<1>8. QED BY <1>2, <1>4, <1>5, <1>6, <1>7

\* The chains stay chains.
LEMMA GrowSound ==
    ASSUME LinkInv, NEW w \in Writers, NEW cs, Grow(w, cs), calls' = calls
    PROVE  ChainsSound'
<1>1. JobOK(w) /\ ChainsSound /\ TypeOK BY DEF LinkInv, WriterOK
<1>2. job[w].call <= calls /\ calls \in Nat /\ job[w].call \in Nat BY <1>1 DEF JobOK, Grow, TypeOK
<1>3. ASSUME NEW c \in Chains
      PROVE  IsChain(rows'[c]) /\ \A n \in 1..Len(rows'[c]) : rows'[c][n].call <= calls
  <2>1. IsChain(rows[c]) /\ \A n \in 1..Len(rows[c]) : rows[c][n].call <= calls BY <1>1 DEF ChainsSound
  <2>2. CASE c \in cs
    <3>1. Grown(rows'[c], rows[c], job[w]) BY <2>2, GrowRows
    <3>2. IsChain(rows'[c]) BY <3>1 DEF Grown
    <3>3. ASSUME NEW n \in 1..Len(rows'[c]) PROVE rows'[c][n].call <= calls
      <4>1. Len(rows[c]) \in Nat /\ Len(rows'[c]) \in Nat BY GrowRows
      <4>2. n \in 1..Len(rows[c]) \/ n \in (Len(rows[c]) + 1)..Len(rows'[c]) BY <4>1
      <4>3. QED BY <1>2, <2>1, <3>1, <4>2 DEF Grown
    <3>4. QED BY <3>2, <3>3
  <2>3. CASE c \notin cs BY <2>1, <2>3, GrowRows
  <2>4. QED BY <2>2, <2>3
<1>4. QED BY <1>3, GrowRows DEF ChainsSound, IsChain

\* The entries of a call's batch, side by side on a chain.
Stands(call, r) ==
    \E b \in Batches : \E n \in DOMAIN r : \A i \in 1..Len(Sorted(b)) :
        n + i - 1 \in DOMAIN r /\ r[n + i - 1].call = call /\ r[n + i - 1].id = Sorted(b)[i].id

\* What ResultsStand says.
LEMMA ResultsStandEach == ResultsStand <=> \A r \in acked : Stands(r[2], rows[r[1]])
BY DEF ResultsStand, Stands, Positions

\* A longer chain has the entries of the one it extends.
LEMMA StandsOn ==
    ASSUME NEW call, NEW r, NEW q, Stands(call, r), \A n \in DOMAIN r : n \in DOMAIN q /\ q[n] = r[n]
    PROVE  Stands(call, q)
<1>1. PICK b \in Batches : \E n \in DOMAIN r : \A i \in 1..Len(Sorted(b)) :
          n + i - 1 \in DOMAIN r /\ r[n + i - 1].call = call /\ r[n + i - 1].id = Sorted(b)[i].id
      BY DEF Stands
<1>2. PICK n \in DOMAIN r : \A i \in 1..Len(Sorted(b)) :
          n + i - 1 \in DOMAIN r /\ r[n + i - 1].call = call /\ r[n + i - 1].id = Sorted(b)[i].id
      BY <1>1
<1>3. n \in DOMAIN q OBVIOUS
<1>4. ASSUME NEW i \in 1..Len(Sorted(b))
      PROVE  n + i - 1 \in DOMAIN q /\ q[n + i - 1].call = call /\ q[n + i - 1].id = Sorted(b)[i].id
      BY <1>2
<1>5. QED BY <1>3, <1>4 DEF Stands

\* What a call returned stays on its chains.
LEMMA ResultsKept ==
    ASSUME LinkInv, NEW w \in Writers, NEW cs, Grow(w, cs)
    PROVE  \A r \in acked : Stands(r[2], rows'[r[1]])
<1> SUFFICES ASSUME NEW r \in acked PROVE Stands(r[2], rows'[r[1]]) OBVIOUS
<1> DEFINE c == r[1]
<1>1. c \in Chains /\ Stands(r[2], rows[c]) BY ResultsStandEach DEF LinkInv
<1>2. /\ Len(rows[c]) \in Nat /\ Len(rows'[c]) \in Nat /\ Len(rows[c]) <= Len(rows'[c])
      /\ \A n \in 1..Len(rows[c]) : rows'[c][n] = rows[c][n]
      BY <1>1, GrowRows
<1>3. DOMAIN rows[c] = 1..Len(rows[c]) BY <1>1 DEF LinkInv, ChainsSound
<1>4. DOMAIN rows'[c] = 1..Len(rows'[c]) BY <1>1, GrowRows
<1>5. \A n \in DOMAIN rows[c] : n \in DOMAIN rows'[c] /\ rows'[c][n] = rows[c][n] BY <1>2, <1>3, <1>4
<1>6. QED BY <1>1, <1>5, StandsOn

\* A head that was an entry stays one.
LEMMA HeadsKept ==
    ASSUME LinkInv, NEW w \in Writers, NEW cs, Grow(w, cs), NEW c \in Chains, heads'[c] = heads[c], heads[c] # None
    PROVE  heads'[c].pos \in DOMAIN rows'[c] /\ rows'[c][heads'[c].pos].hash = heads'[c].hash
<1>1. heads[c].pos \in DOMAIN rows[c] /\ rows[c][heads[c].pos].hash = heads[c].hash
      BY DEF LinkInv, HeadsAreEntries, Positions
<1>2. DOMAIN rows[c] = 1..Len(rows[c]) BY DEF LinkInv, ChainsSound
<1>3. DOMAIN rows'[c] = 1..Len(rows'[c]) BY GrowRows
<1>4. Len(rows[c]) \in Nat /\ Len(rows'[c]) \in Nat /\ Len(rows[c]) <= Len(rows'[c])
      /\ \A n \in 1..Len(rows[c]) : rows'[c][n] = rows[c][n]
      BY GrowRows
<1>5. QED BY <1>1, <1>2, <1>3, <1>4

-----------------------------------------------------------------------------
(* Writers a step is not about *)

\* A writer none of whose state, chains or leases changed.
LEMMA Bystander ==
    ASSUME NEW v \in Writers, WriterOK(v), calls \in Nat, calls' \in Nat, calls <= calls',
           pc'[v] = pc[v], job'[v] = job[v], tail'[v] = tail[v], rows' = rows,
           open' \/ v \in stale' \/ pc[v] = "idle", Usable(v)' => Usable(v) \/ pc[v] = "idle",
           pc[v] \in Leased /\ Usable(v)' => leases'[Chain(v)] = leases[Chain(v)]
    PROVE  WriterOK(v)'
<1>1. Chain(v)' = Chain(v) BY DEF Chain
<1>2. JobOK(v)' BY DEF WriterOK, JobOK
<1>3. LeaseOK(v)' BY <1>1 DEF WriterOK, LeaseOK, Leased
<1>4. TailOK(v)'
  <2> SUFFICES ASSUME pc[v] \in {"write", "head"} PROVE TailOK(v)' BY DEF TailOK
  <2>1. Usable(v)' => Usable(v) OBVIOUS
  <2>2. NextPos(Chain(v))' = NextPos(Chain(v)) /\ TailHash(Chain(v))' = TailHash(Chain(v))
        BY <1>1 DEF NextPos, TailHash
  <2>3. QED BY <1>1, <2>1, <2>2 DEF WriterOK, TailOK
<1>5. PredictedOK(v)' BY DEF WriterOK, PredictedOK
<1>6. QED BY <1>2, <1>3, <1>4, <1>5 DEF WriterOK

\* A writer beside the one whose transaction extended the chains.
LEMMA BesideGrow ==
    ASSUME LinkInv, NEW w \in Writers, NEW cs, Grow(w, cs), Usable(w), NEW v \in Writers, v # w,
           pc'[v] = pc[v], job'[v] = job[v], tail'[v] = tail[v], calls' = calls,
           open' = open, stale' = stale, leases' = leases
    PROVE  WriterOK(v)'
<1>1. WriterOK(v) /\ ChainsSound /\ TypeOK /\ OwnCalls BY DEF LinkInv
<1>2. Chain(v)' = Chain(v) /\ (Usable(v)' <=> Usable(v)) BY DEF Chain, Usable
<1>3. JobOK(v)' /\ LeaseOK(v)' BY <1>1, <1>2 DEF WriterOK, JobOK, LeaseOK
<1>4. TailOK(v)'
  <2> SUFFICES ASSUME pc[v] \in {"write", "head"} PROVE TailOK(v)' BY DEF TailOK
  <2> DEFINE c == Chain(v)
  <2>1. c \in Chains BY <1>1 DEF WriterOK, JobOK, Leased, Chain
  <2>2. Usable(v) => rows'[c] = rows[c]
    <3>1. Usable(v) => leases[c] = v BY <1>1 DEF WriterOK, LeaseOK, Leased
    <3>2. Usable(v) => c \notin cs BY <3>1, StoreAssumption DEF Grow
    <3>3. QED BY <2>1, <3>2, GrowRows
  <2>3. /\ Len(rows[c]) \in Nat /\ Len(rows'[c]) \in Nat /\ Len(rows[c]) <= Len(rows'[c])
        /\ \A n \in 1..Len(rows[c]) : rows'[c][n] = rows[c][n]
        BY <2>1, GrowRows
  <2>4. CASE pc[v] = "write"
    <3>1. Usable(v) => NextPos(c)' = NextPos(c) /\ TailHash(c)' = TailHash(c)
          BY <2>2, <1>2 DEF NextPos, TailHash
    <3>2. QED BY <1>1, <1>2, <2>4, <3>1 DEF TailOK, WriterOK
  <2>5. CASE pc[v] = "head"
    <3> DEFINE new == Linked(job[v], tail[v].pos, tail[v].hash)
    <3>1. /\ \A n \in DOMAIN new : n \in 1..Len(rows[c]) /\ rows[c][n] = new[n]
          /\ Continues(new, job[v], tail[v].pos, tail[v].hash) /\ tail[v].pos \in Nat \ {0}
          /\ Usable(v) => tail[v].pos + Cardinality(job[v].batch) - 1 = Len(rows[c])
          BY <1>1, <2>5 DEF WriterOK, TailOK
    <3> HIDE DEF new
    <3>2. \A n \in DOMAIN new : n \in 1..Len(rows'[c]) /\ rows'[c][n] = new[n] BY <2>3, <3>1
    <3>3. Usable(v) => tail[v].pos + Cardinality(job[v].batch) - 1 = Len(rows'[c]) BY <2>2, <3>1
    <3>4. QED BY <1>2, <2>5, <3>1, <3>2, <3>3 DEF TailOK, new
  <2>6. QED BY <2>4, <2>5
<1>5. PredictedOK(v)'
  <2> SUFFICES ASSUME job[v].expect, NEW c \in job[v].chains PROVE InPlace(job[v], job[v].at[c], rows'[c])
      BY DEF PredictedOK
  <2>1. pc[v] # "idle" /\ c \in Chains BY <1>1 DEF WriterOK, JobOK, NoJob
  <2>2. job[v].call # job[w].call BY <1>1, <2>1 DEF OwnCalls, Grow
  <2>3. CASE c \notin cs
    <3>1. rows'[c] = rows[c] BY <2>1, <2>3, GrowRows
    <3>2. QED BY <1>1, <3>1 DEF WriterOK, PredictedOK
  <2>4. CASE c \in cs
    <3>1. Grown(rows'[c], rows[c], job[w]) BY <2>4, GrowRows
    <3>2. Len(rows[c]) \in Nat /\ Len(rows'[c]) \in Nat BY <2>1, GrowRows
    <3>3. ASSUME NEW n \in 1..Len(rows'[c]), rows'[c][n].call = job[v].call
          PROVE  n \in 1..Len(rows[c]) /\ rows'[c][n] = rows[c][n]
          BY <2>2, <3>1, <3>2, <3>3 DEF Grown
    <3>4. QED BY <1>1, <3>3 DEF WriterOK, PredictedOK, InPlace
  <2>5. QED BY <2>3, <2>4
<1>6. QED BY <1>3, <1>4, <1>5 DEF WriterOK

\* The writer whose transaction extended the chains: its predicted hashes were the tails',
\* so none of its entries was there before.
LEMMA GrowPredicted ==
    ASSUME LinkInv, NEW w \in Writers, NEW cs, Grow(w, cs), job' = job
    PROVE  PredictedOK(w)'
<1> SUFFICES ASSUME job[w].expect, NEW c \in job[w].chains PROVE InPlace(job[w], job[w].at[c], rows'[c])
    BY DEF PredictedOK
<1>1. WriterOK(w) /\ ChainsSound BY DEF LinkInv
<1>2. c \in Chains /\ job[w].batch \in Batches BY <1>1 DEF WriterOK, JobOK, NoJob, Grow
<1>3. CASE c \notin cs
  <2>1. rows'[c] = rows[c] BY <1>2, <1>3, GrowRows
  <2>2. QED BY <1>1, <2>1 DEF WriterOK, PredictedOK
<1>4. CASE c \in cs
  <2> DEFINE L == Len(rows[c])
             N == Cardinality(job[w].batch)
  <2>1. Grown(rows'[c], rows[c], job[w]) BY <1>4, GrowRows
  <2>2. job[w].at[c] = TailHash(c) /\ Len(TailHash(c)) = L
        BY <1>1, <1>2, <1>4, TailOfChain DEF Grow, ChainsSound
  <2>3. L \in Nat /\ N \in Nat /\ Len(rows'[c]) = L + N BY <1>2, <2>1, GrowRows, SortedIsBatch DEF Grown
  <2>4. ASSUME NEW n \in 1..L PROVE rows'[c][n].call # job[w].call
    <3>1. rows'[c][n] = rows[c][n] BY <2>1 DEF Grown
    <3>2. n - Len(job[w].at[c]) < 1 BY <2>2, <2>3
    <3>3. rows[c][n].call = job[w].call => n - Len(job[w].at[c]) \in 1..N BY <1>1 DEF WriterOK, PredictedOK, InPlace
    <3>4. QED BY <2>2, <2>3, <3>1, <3>2, <3>3
  <2>5. ASSUME NEW n \in (L + 1)..(L + N)
        PROVE  n - Len(job[w].at[c]) \in 1..N /\ rows'[c][n].id = Sorted(job[w].batch)[n - Len(job[w].at[c])].id
        BY <2>1, <2>2, <2>3 DEF Grown
  <2>6. job[w].at[c] \in Hash BY <1>1 DEF WriterOK, PredictedOK, InPlace
  <2>7. \A n \in 1..Len(rows'[c]) : n \in 1..L \/ n \in (L + 1)..(L + N) BY <2>3
  <2>8. QED BY <2>4, <2>5, <2>6, <2>7 DEF InPlace
<1>5. QED BY <1>3, <1>4

\* A step that leaves the chains, the heads and the Results alone.
LEMMA SameRows ==
    ASSUME LinkInv, rows' = rows, heads' = heads, acked' = acked, calls' \in Nat, calls <= calls'
    PROVE  /\ ChainsSound' /\ HeadsAreEntries' /\ ResultsStand'
           /\ (heads \in [Chains -> HeadState \cup {None}])' /\ (acked \subseteq Chains \X Nat)'
           /\ \A c \in Chains : Positions(c)' \subseteq Nat \ {0}
<1>1. ChainsSound'
  <2>1. calls \in Nat /\ \A c \in Chains : \A n \in 1..Len(rows[c]) : rows[c][n] \in Entry /\ rows[c][n].call <= calls
        BY DEF LinkInv, TypeOK, ChainsSound
  <2>2. \A c \in Chains : \A n \in 1..Len(rows[c]) : rows[c][n].call <= calls' BY <2>1 DEF Entry
  <2>3. QED BY <2>2 DEF LinkInv, ChainsSound
<1>2. HeadsAreEntries' BY DEF LinkInv, HeadsAreEntries, Positions
<1>3. ResultsStand' BY DEF LinkInv, ResultsStand, Positions
<1>4. \A c \in Chains : Positions(c)' \subseteq Nat \ {0} BY DEF LinkInv, TypeOK, Positions
<1>5. QED BY <1>1, <1>2, <1>3, <1>4 DEF LinkInv

\* A writer that goes on with its call, on chains as they were.
LEMMA GoesOn ==
    ASSUME LinkInv, NEW w \in Writers, pc[w] # "idle", pc'[w] # "idle",
           pc'[w] \in Leased \cup {"acquire"} => pc[w] \in Leased \cup {"acquire"},
           job' = job, rows' = rows, calls' = calls, open' = open, stale' = stale
    PROVE  JobOK(w)' /\ PredictedOK(w)'
<1>1. WriterOK(w) BY DEF LinkInv
<1>2. JobOK(w)' BY <1>1 DEF WriterOK, JobOK
<1>3. PredictedOK(w)' BY <1>1 DEF WriterOK, PredictedOK
<1>4. QED BY <1>2, <1>3

-----------------------------------------------------------------------------
(* The steps *)

\* The store is empty and no call is made.
LEMMA LinkInitInv == Init => LinkInv
<1> SUFFICES ASSUME Init PROVE LinkInv OBVIOUS
<1> USE DEF Init, StoreInit
<1>1. ChainsSound
  <2>1. \A c \in Chains : rows[c] = <<>> /\ Len(rows[c]) = 0 OBVIOUS
  <2>2. QED BY <2>1 DEF ChainsSound, IsChain
<1>2. TypeOK BY StoreAssumption DEF TypeOK, Positions
<1>3. OwnCalls /\ HeadsAreEntries /\ ResultsStand /\ heads \in [Chains -> HeadState \cup {None}]
      /\ acked \subseteq Chains \X Nat /\ DOMAIN job = Writers /\ DOMAIN tail = Writers
      BY DEF OwnCalls, HeadsAreEntries, ResultsStand
<1>4. \A w \in Writers : WriterOK(w)
      BY DEF WriterOK, JobOK, LeaseOK, TailOK, PredictedOK, Leased, NoJob
<1>5. QED BY <1>1, <1>2, <1>3, <1>4 DEF LinkInv

\* Append or AppendChains is called.
LEMMA CallInv ==
    ASSUME LinkInv, NEW w \in Writers, CallAppend(w) \/ CallAppendChains(w)
    PROVE  LinkInv'
<1>1. PICK cs \in SUBSET Chains, b \in Batches, expect \in BOOLEAN, next \in {"acquire", "update"} :
          Call(w, cs, b, expect, next) /\ (next = "acquire" => \E c \in Chains : cs = {c})
      BY DEF CallAppend, CallAppendChains
<1> DEFINE j == [chains |-> cs, batch |-> b, call |-> calls + 1, expect |-> expect,
                 at |-> [c \in IF expect THEN cs ELSE {} |-> TailHash(c)]]
<1>2. /\ pc[w] = "idle" /\ Usable(w) /\ calls' = calls + 1 /\ pc' = [pc EXCEPT ![w] = next]
      /\ job' = [job EXCEPT ![w] = j] /\ UNCHANGED <<rows, heads, leases, open, stale, faults, tail, acked>>
      BY <1>1 DEF Call, storeVars, fileVars
<1>3. TypeOK /\ calls \in Nat /\ ChainsSound /\ DOMAIN job = Writers /\ \A v \in Writers : WriterOK(v)
      BY DEF LinkInv, TypeOK
<1>4. pc'[w] = next /\ job'[w] = j /\ \A v \in Writers \ {w} : pc'[v] = pc[v] /\ job'[v] = job[v]
      BY <1>2, <1>3 DEF TypeOK
<1>5. WriterOK(w)'
  <2>1. JobOK(w)' BY <1>1, <1>2, <1>3, <1>4 DEF JobOK, Usable, Leased
  <2>2. LeaseOK(w)' /\ TailOK(w)' BY <1>4 DEF LeaseOK, TailOK, Leased
  <2>3. PredictedOK(w)'
    <3> SUFFICES ASSUME expect, NEW c \in cs PROVE InPlace(j, j.at[c], rows[c])
        BY <1>2, <1>4 DEF PredictedOK
    <3>1. j.at[c] = TailHash(c) OBVIOUS
    <3>2. TailHash(c) \in Hash BY <1>3, TailOfChain DEF ChainsSound
    <3>3. \A n \in 1..Len(rows[c]) : rows[c][n].call <= calls /\ rows[c][n] \in Entry BY <1>3 DEF ChainsSound
    <3>4. \A n \in 1..Len(rows[c]) : rows[c][n].call # j.call BY <1>3, <3>3 DEF Entry
    <3> HIDE DEF j
    <3>5. QED BY <3>1, <3>2, <3>4 DEF InPlace
  <2>4. QED BY <2>1, <2>2, <2>3 DEF WriterOK
<1>6. ASSUME NEW v \in Writers, v # w PROVE WriterOK(v)'
  <2>1. open' \/ v \in stale' \/ pc[v] = "idle" BY <1>2, <1>3 DEF WriterOK, JobOK
  <2>2. Usable(v)' => Usable(v) BY <1>2 DEF Usable
  <2>3. calls' \in Nat /\ calls <= calls' BY <1>2, <1>3
  <2>4. QED BY <1>2, <1>3, <1>4, <1>6, <2>1, <2>2, <2>3, Bystander
<1>7. OwnCalls'
  <2>1. \A v \in Writers : pc[v] # "idle" => job[v].call \in 1..calls BY <1>3 DEF WriterOK, JobOK
  <2>2. QED BY <1>2, <1>3, <1>4, <2>1 DEF OwnCalls, LinkInv
<1>8. TypeOK' BY <1>2, <1>3, SameRows DEF TypeOK, Positions
<1>9. calls' \in Nat /\ calls <= calls' BY <1>2, <1>3
<1>10. QED BY <1>2, <1>5, <1>6, <1>7, <1>8, <1>9, SameRows DEF LinkInv

\* The caller gives up, or calls again.
LEMMA AgainInv ==
    ASSUME LinkInv, NEW w \in Writers, Give(w) \/ Retry(w)
    PROVE  LinkInv'
<1>1. TypeOK /\ calls \in Nat /\ DOMAIN job = Writers /\ DOMAIN tail = Writers /\ \A v \in Writers : WriterOK(v)
      BY DEF LinkInv, TypeOK
<1>2. /\ UNCHANGED <<rows, heads, leases, open, faults, acked>> /\ stale' = stale \ {w}
      /\ calls' \in Nat /\ calls <= calls'
      /\ pc'[w] \in {"idle", "acquire", "update"} /\ pc' = [pc EXCEPT ![w] = pc'[w]]
      /\ pc'[w] = "idle" => job'[w] = NoJob
      /\ pc'[w] # "idle" => job'[w] = job[w] /\ pc[w] # "idle" /\ open
      /\ pc'[w] = "acquire" => \E c \in Chains : job[w].chains = {c}
      /\ \A v \in Writers \ {w} : pc'[v] = pc[v] /\ job'[v] = job[v] /\ tail'[v] = tail[v]
      /\ DOMAIN job' = Writers /\ DOMAIN tail' = Writers
  <2>1. CASE Give(w) BY <1>1, <2>1 DEF Give, TypeOK, fileVars
  <2>2. CASE Retry(w) BY <1>1, <2>2 DEF Retry, TypeOK, fileVars
  <2>3. QED BY <2>1, <2>2
<1>3. WriterOK(w)'
  <2>1. JobOK(w)'
    <3>1. CASE pc'[w] = "idle" BY <1>2, <3>1 DEF JobOK, Leased
    <3>2. CASE pc'[w] # "idle" BY <1>1, <1>2, <3>2 DEF JobOK, Leased, WriterOK
    <3>3. QED BY <3>1, <3>2
  <2>2. LeaseOK(w)' /\ TailOK(w)' BY <1>2 DEF LeaseOK, TailOK, Leased
  <2>3. PredictedOK(w)'
    <3>1. CASE pc'[w] = "idle" BY <1>2, <3>1 DEF PredictedOK, NoJob
    <3>2. CASE pc'[w] # "idle" BY <1>1, <1>2, <3>2 DEF PredictedOK, WriterOK
    <3>3. QED BY <3>1, <3>2
  <2>4. QED BY <2>1, <2>2, <2>3 DEF WriterOK
<1>4. ASSUME NEW v \in Writers, v # w PROVE WriterOK(v)'
  <2>1. open' \/ v \in stale' \/ pc[v] = "idle" BY <1>1, <1>2, <1>4 DEF WriterOK, JobOK
  <2>2. Usable(v)' => Usable(v) BY <1>2, <1>4 DEF Usable
  <2>3. QED BY <1>1, <1>2, <1>4, <2>1, <2>2, Bystander
<1>5. OwnCalls'
  <2>1. \A v \in Writers : pc'[v] # "idle" => pc[v] # "idle" /\ job'[v] = job[v] BY <1>2
  <2>2. QED BY <2>1 DEF OwnCalls, LinkInv
<1>6. TypeOK' BY <1>1, <1>2, SameRows DEF TypeOK
<1>7. QED BY <1>2, <1>3, <1>4, <1>5, <1>6, SameRows DEF LinkInv

\* A step of writer w in its call that leaves the chains alone.
Moves(w) ==
    /\ pc' = [pc EXCEPT ![w] = pc'[w]] /\ pc[w] # "idle" /\ pc'[w] # "idle"
    /\ UNCHANGED <<rows, open, stale, job, calls>>
    /\ faults' \in Nat

\* Such a step is right for every writer when it is right for w and keeps what others lease.
LEMMA MovesWriters ==
    ASSUME LinkInv, NEW w \in Writers, Moves(w), LeaseOK(w)', TailOK(w)', DOMAIN tail' = Writers,
           pc'[w] \in {"acquire", "tail", "write", "head", "update", "releaseDone", "releaseRefused",
                       "releaseFailed", "done", "refused", "failed"},
           pc'[w] \in Leased \cup {"acquire"} => pc[w] \in Leased \cup {"acquire"},
           leases' \in [Chains -> Writers \cup {None}],
           \A c \in Chains : leases'[c] # leases[c] => leases[c] \in {None, w},
           \A v \in Writers \ {w} : tail'[v] = tail[v]
    PROVE  /\ TypeOK' /\ ChainsSound' /\ OwnCalls' /\ \A v \in Writers : WriterOK(v)'
           /\ DOMAIN job' = Writers /\ DOMAIN tail' = Writers
<1>1. TypeOK /\ calls \in Nat /\ \A v \in Writers : WriterOK(v) BY DEF LinkInv, TypeOK
<1>2. \A v \in Writers \ {w} : pc'[v] = pc[v] BY <1>1 DEF Moves, TypeOK
<1>3. WriterOK(w)' BY GoesOn DEF Moves, WriterOK
<1>4. ASSUME NEW v \in Writers, v # w PROVE WriterOK(v)'
  <2>1. open' \/ v \in stale' \/ pc[v] = "idle" BY <1>1 DEF WriterOK, JobOK, Moves
  <2>2. Usable(v)' => Usable(v) BY DEF Usable, Moves
  <2>3. pc[v] \in Leased /\ Usable(v)' => leases'[Chain(v)] = leases[Chain(v)]
    <3> SUFFICES ASSUME pc[v] \in Leased, Usable(v) PROVE leases'[Chain(v)] = leases[Chain(v)] BY <2>2
    <3>1. leases[Chain(v)] = v /\ Chain(v) \in Chains BY <1>1 DEF WriterOK, LeaseOK, JobOK, Chain
    <3>2. QED BY <3>1, <1>4, StoreAssumption
  <2>4. QED BY <1>1, <1>2, <1>4, <2>1, <2>2, <2>3, Bystander DEF Moves
<1>5. OwnCalls'
  <2>1. \A v \in Writers : pc'[v] # "idle" => pc[v] # "idle" BY <1>2 DEF Moves
  <2>2. QED BY <2>1 DEF OwnCalls, LinkInv, Moves
<1>6. calls' \in Nat /\ calls <= calls' BY <1>1 DEF Moves
<1>7. ChainsSound' BY DEF Moves, LinkInv, ChainsSound
<1>8. TypeOK' BY <1>1, <1>6 DEF TypeOK, Moves, Positions
<1>9. QED BY <1>3, <1>4, <1>5, <1>7, <1>8 DEF LinkInv, Moves

\* The same, when it leaves the heads and the Results alone too.
LEMMA MovesInv ==
    ASSUME LinkInv, NEW w \in Writers, Moves(w), heads' = heads, acked' = acked,
           LeaseOK(w)', TailOK(w)', DOMAIN tail' = Writers,
           pc'[w] \in {"acquire", "tail", "write", "head", "update", "releaseDone", "releaseRefused",
                       "releaseFailed", "done", "refused", "failed"},
           pc'[w] \in Leased \cup {"acquire"} => pc[w] \in Leased \cup {"acquire"},
           leases' \in [Chains -> Writers \cup {None}],
           \A c \in Chains : leases'[c] # leases[c] => leases[c] \in {None, w},
           \A v \in Writers \ {w} : tail'[v] = tail[v]
    PROVE  LinkInv'
<1>1. calls' \in Nat /\ calls <= calls' /\ rows' = rows BY DEF LinkInv, TypeOK, Moves
<1>2. QED BY <1>1, MovesWriters, SameRows DEF LinkInv

\* What a writer in its call was called with.
LEMMA InCall ==
    ASSUME LinkInv, NEW w \in Writers, pc[w] # "idle"
    PROVE  /\ job[w].batch \in Batches /\ job[w].call \in Nat /\ job[w].chains \subseteq Chains
           /\ job[w].expect \in BOOLEAN /\ Cardinality(job[w].batch) \in Nat \ {0}
           /\ pc[w] \in Leased \cup {"acquire"} => job[w].chains = {Chain(w)} /\ Chain(w) \in Chains
<1>1. JobOK(w) /\ TypeOK BY DEF LinkInv, WriterOK
<1>2. QED BY <1>1, SortedIsBatch DEF JobOK, TypeOK, Chain

\* A failed transaction changes nothing else than the transaction would.
LEMMA TxErrorFrame ==
    ASSUME LinkInv, NEW w \in Writers, NEW landed \in BOOLEAN, TxError(w, landed)
    PROVE  /\ UNCHANGED <<open, stale>> /\ faults' \in Nat
           /\ UNCHANGED <<rows, heads, leases>> \/ (landed /\ Usable(w))
BY DEF LinkInv, TypeOK, TxError, Fault, NoFault, fileVars

\* AcquireLease takes a free lease or none.
LEMMA AcquireInv == ASSUME LinkInv, NEW w \in Writers, AcquireLease(w) PROVE LinkInv'
<1> DEFINE c == Chain(w)
<1>1. TypeOK /\ DOMAIN tail = Writers BY DEF LinkInv
<1>2. pc[w] = "acquire" /\ c \in Chains /\ UNCHANGED <<job, tail, calls, acked>>
      BY InCall DEF AcquireLease, Leased
<1>3. CASE Usable(w) /\ Acquire(w, c) /\ NoFault /\ UNCHANGED <<rows, heads>> /\ Goto(w, "tail")
  <2>1. Moves(w) /\ pc'[w] = "tail" BY <1>1, <1>2, <1>3 DEF Moves, Goto, NoFault, TypeOK
  <2>2. LeaseOK(w)' /\ TailOK(w)'
    <3>1. Chain(w)' = c /\ leases'[c] = w BY <1>1, <1>2, <1>3 DEF Chain, Acquire, TypeOK
    <3>2. QED BY <2>1, <3>1 DEF LeaseOK, TailOK
  <2>3. leases' \in [Chains -> Writers \cup {None}] /\ \A d \in Chains : leases'[d] # leases[d] => leases[d] \in {None, w}
        BY <1>1, <1>3 DEF Acquire, TypeOK
  <2>4. QED BY <1>1, <1>2, <1>3, <2>1, <2>2, <2>3, MovesInv DEF Leased
<1>4. CASE \/ Usable(w) /\ leases[c] # None /\ Goto(w, "failed") /\ UNCHANGED storeVars
           \/ TxError(w, Acquire(w, c) /\ UNCHANGED <<rows, heads>>) /\ Goto(w, "failed")
  <2>1. /\ UNCHANGED <<open, stale>> /\ faults' \in Nat
        /\ UNCHANGED <<rows, heads, leases>> \/ (Acquire(w, c) /\ UNCHANGED <<rows, heads>>)
    <3>1. CASE UNCHANGED storeVars BY <1>1, <3>1 DEF storeVars, fileVars, TypeOK
    <3>2. CASE TxError(w, Acquire(w, c) /\ UNCHANGED <<rows, heads>>)
          BY <3>2, <1>1 DEF TxError, Fault, NoFault, fileVars, TypeOK
    <3>3. QED BY <1>4, <3>1, <3>2
  <2>2. Moves(w) /\ pc'[w] = "failed" BY <1>1, <1>2, <1>4, <2>1 DEF Moves, Goto, TypeOK
  <2>3. LeaseOK(w)' /\ TailOK(w)' BY <2>2 DEF LeaseOK, TailOK, Leased
  <2>4. leases' \in [Chains -> Writers \cup {None}] /\ \A d \in Chains : leases'[d] # leases[d] => leases[d] \in {None, w}
        BY <1>1, <2>1 DEF Acquire, TypeOK
  <2>5. QED BY <1>1, <1>2, <2>1, <2>2, <2>3, <2>4, MovesInv DEF Leased
<1>5. QED BY <1>3, <1>4 DEF AcquireLease

\* continuation reads the tail of a chain nobody else can write.
LEMMA ReadTailInv == ASSUME LinkInv, NEW w \in Writers, ReadTail(w) PROVE LinkInv'
<1> DEFINE c == Chain(w)
<1>1. TypeOK /\ DOMAIN tail = Writers /\ WriterOK(w) BY DEF LinkInv
<1>2. pc[w] = "tail" /\ c \in Chains /\ UNCHANGED <<rows, heads, leases, job, calls, acked>>
      BY InCall DEF ReadTail, Leased, fileVars
<1>3. Chain(w)' = c /\ NextPos(c)' = NextPos(c) /\ TailHash(c)' = TailHash(c)
      BY <1>2 DEF Chain, NextPos, TailHash
<1>4. CASE /\ Usable(w) /\ NoFault
           /\ tail' = [tail EXCEPT ![w] = [pos |-> NextPos(c), hash |-> TailHash(c)]]
           /\ Goto(w, IF AsExpected(job[w], c, TailHash(c)) THEN "write" ELSE "releaseRefused")
  <2>1. Moves(w) /\ pc'[w] \in {"write", "releaseRefused"} BY <1>1, <1>2, <1>4 DEF Moves, Goto, NoFault, TypeOK
  <2>2. LeaseOK(w)' BY <1>1, <1>2, <1>3, <1>4 DEF LeaseOK, WriterOK, Leased
  <2>3. TailOK(w)'
    <3>1. pc'[w] = "write" => AsExpected(job[w], c, TailHash(c)) BY <1>1, <1>4 DEF Goto, TypeOK
    <3>2. tail'[w].pos = NextPos(c) /\ tail'[w].hash = TailHash(c) BY <1>1, <1>4
    <3>3. QED BY <1>2, <1>3, <2>1, <3>1, <3>2 DEF TailOK, AsExpected
  <2>4. DOMAIN tail' = Writers /\ \A v \in Writers \ {w} : tail'[v] = tail[v] BY <1>1, <1>4
  <2>5. QED BY <1>1, <1>2, <2>1, <2>2, <2>3, <2>4, MovesInv DEF Leased, TypeOK
<1>5. CASE TxError(w, FALSE) /\ Goto(w, "releaseFailed") /\ UNCHANGED tail
  <2>1. UNCHANGED <<open, stale>> /\ faults' \in Nat BY <1>5, TxErrorFrame
  <2>2. Moves(w) /\ pc'[w] = "releaseFailed" BY <1>1, <1>2, <1>5, <2>1 DEF Moves, Goto, TypeOK
  <2>3. LeaseOK(w)' /\ TailOK(w)' BY <1>1, <1>2, <1>3, <2>1, <2>2 DEF LeaseOK, TailOK, WriterOK, Leased, Usable
  <2>4. QED BY <1>1, <1>2, <1>5, <2>2, <2>3, MovesInv DEF Leased, TypeOK
<1>6. QED BY <1>4, <1>5 DEF ReadTail

\* The deferred Release frees the writer's own lease or none.
LEMMA ReleaseInv == ASSUME LinkInv, NEW w \in Writers, ReleaseLease(w) PROVE LinkInv'
<1> DEFINE c == Chain(w)
<1>1. TypeOK /\ DOMAIN tail = Writers BY DEF LinkInv
<1>2. /\ pc[w] \in {"releaseDone", "releaseRefused", "releaseFailed"} /\ c \in Chains
      /\ UNCHANGED <<job, tail, calls, acked>>
      BY InCall DEF ReleaseLease, Leased
<1>3. /\ UNCHANGED <<open, stale, rows, heads>> /\ faults' \in Nat
      /\ UNCHANGED leases \/ Release(w, c)
  <2>1. CASE Usable(w) /\ Release(w, c) /\ UNCHANGED <<rows, heads>> /\ NoFault
        BY <1>1, <2>1 DEF NoFault, TypeOK
  <2>2. CASE UNCHANGED storeVars BY <1>1, <2>2 DEF storeVars, fileVars, TypeOK
  <2>3. CASE TxError(w, Release(w, c) /\ UNCHANGED <<rows, heads>>)
        BY <1>1, <2>3 DEF TxError, Fault, NoFault, fileVars, TypeOK
  <2>4. QED BY <2>1, <2>2, <2>3 DEF ReleaseLease
<1>4. pc' = [pc EXCEPT ![w] = pc'[w]] /\ pc'[w] \in {"done", "refused", "failed"}
      BY <1>1, <1>2 DEF ReleaseLease, Goto, TypeOK
<1>5. Moves(w) BY <1>2, <1>3, <1>4 DEF Moves
<1>6. LeaseOK(w)' /\ TailOK(w)' BY <1>4 DEF LeaseOK, TailOK, Leased
<1>7. leases' \in [Chains -> Writers \cup {None}] /\ \A d \in Chains : leases'[d] # leases[d] => leases[d] \in {None, w}
      BY <1>1, <1>3 DEF Release, TypeOK
<1>8. QED BY <1>1, <1>2, <1>3, <1>4, <1>5, <1>6, <1>7, MovesInv DEF Leased

\* A transaction that extended the chains is right when it is right for its writer and
\* its heads.
LEMMA GrowInv ==
    ASSUME LinkInv, NEW w \in Writers, NEW cs, Grow(w, cs), Usable(w),
           UNCHANGED <<leases, open, stale, job, tail, calls>>, faults' \in Nat,
           pc' = [pc EXCEPT ![w] = pc'[w]],
           pc'[w] \in {"head", "releaseFailed", "done", "failed"},
           pc'[w] \in Leased => pc[w] \in Leased, TailOK(w)',
           heads' \in [Chains -> HeadState \cup {None}],
           \A c \in Chains : heads'[c] # heads[c] =>
               heads'[c].pos \in DOMAIN rows'[c] /\ rows'[c][heads'[c].pos].hash = heads'[c].hash,
           (acked \subseteq Chains \X Nat)', ResultsStand'
    PROVE  LinkInv'
<1>1. TypeOK /\ OwnCalls /\ WriterOK(w) BY DEF LinkInv
<1>2. \A v \in Writers \ {w} : pc'[v] = pc[v] BY <1>1 DEF TypeOK
<1>3. WriterOK(w)'
  <2>1. Chain(w)' = Chain(w) /\ (Usable(w)' <=> Usable(w)) BY DEF Chain, Usable
  <2>2. JobOK(w)' BY <1>1, <2>1 DEF WriterOK, JobOK, Grow, Leased
  <2>3. LeaseOK(w)' BY <1>1, <2>1 DEF WriterOK, LeaseOK
  <2>4. QED BY <2>2, <2>3, GrowPredicted DEF WriterOK
<1>4. ASSUME NEW v \in Writers, v # w PROVE WriterOK(v)' BY <1>2, <1>4, BesideGrow
<1>5. OwnCalls'
  <2>1. \A v \in Writers : pc'[v] # "idle" => pc[v] # "idle" BY <1>2 DEF Grow
  <2>2. QED BY <1>1, <2>1 DEF OwnCalls
<1>6. ChainsSound' BY GrowSound
<1>7. HeadsAreEntries'
  <2> SUFFICES ASSUME NEW c \in Chains, heads'[c] # None
               PROVE  heads'[c].pos \in DOMAIN rows'[c] /\ rows'[c][heads'[c].pos].hash = heads'[c].hash
      BY DEF HeadsAreEntries, Positions
  <2>1. CASE heads'[c] = heads[c] BY <2>1, HeadsKept
  <2>2. QED BY <2>1
<1>8. TypeOK'
  <2>1. \A c \in Chains : Positions(c)' \subseteq Nat \ {0} BY <1>6 DEF ChainsSound, Positions
  <2>2. QED BY <1>1, <2>1 DEF TypeOK
<1>9. QED BY <1>3, <1>4, <1>5, <1>6, <1>7, <1>8 DEF LinkInv

\* WriteBatch under the lease is at the tail.
LEMMA WriteGrows ==
    ASSUME LinkInv, NEW w \in Writers, pc[w] = "write", Usable(w),
           WriteBatch(Chain(w), Linked(job[w], tail[w].pos, tail[w].hash))
    PROVE  /\ Grow(w, {Chain(w)})
           /\ tail[w].pos = Len(rows[Chain(w)]) + 1 /\ tail[w].hash = TailHash(Chain(w))
<1> DEFINE c == Chain(w)
<1>1. WriterOK(w) /\ ChainsSound BY DEF LinkInv
<1>2. c \in Chains /\ job[w].chains = {c} BY InCall DEF Leased
<1>3. tail[w].pos = NextPos(c) /\ tail[w].hash = TailHash(c) /\ (job[w].expect => job[w].at[c] = tail[w].hash)
      BY <1>1 DEF WriterOK, TailOK
<1>4. leases[c] = w BY <1>1 DEF WriterOK, LeaseOK, Leased
<1>5. rows' = [d \in Chains |-> IF d \in {c} THEN Put(rows[d], Linked(job[w], NextPos(d), TailHash(d))) ELSE rows[d]]
  <2>1. DOMAIN rows = Chains BY <1>1 DEF ChainsSound
  <2>2. QED BY <1>2, <1>3, <2>1 DEF WriteBatch
<1>6. Grow(w, {c}) BY <1>2, <1>3, <1>4, <1>5 DEF Grow
<1>7. QED BY <1>1, <1>2, <1>3, <1>6, TailOfChain DEF ChainsSound

\* Write puts the batch on the chain, and a failed one may.
LEMMA WriteInv == ASSUME LinkInv, NEW w \in Writers, Write(w) PROVE LinkInv'
<1> DEFINE c     == Chain(w)
           new   == Linked(job[w], tail[w].pos, tail[w].hash)
           writes == WriteBatch(c, new) /\ UNCHANGED <<heads, leases>>
<1>1. TypeOK /\ DOMAIN tail = Writers /\ WriterOK(w) /\ ChainsSound BY DEF LinkInv
<1>2. pc[w] = "write" /\ c \in Chains /\ UNCHANGED <<job, tail, calls, acked>> BY InCall DEF Write, Leased
<1>3. job[w].batch \in Batches /\ job[w].call \in Nat /\ Cardinality(job[w].batch) \in Nat \ {0} BY <1>2, InCall
<1>4. Chain(w)' = c BY <1>2 DEF Chain
<1>5. ASSUME Usable(w), WriteBatch(c, new), UNCHANGED <<heads, leases, open, stale>>, faults' \in Nat,
             Goto(w, "head") \/ Goto(w, "releaseFailed")
      PROVE  LinkInv'
  <2>1. Grow(w, {c}) /\ tail[w].pos = Len(rows[c]) + 1 /\ tail[w].hash = TailHash(c) BY <1>2, <1>5, WriteGrows
  <2>2. pc'[w] \in {"head", "releaseFailed"} /\ pc' = [pc EXCEPT ![w] = pc'[w]] BY <1>1, <1>5 DEF Goto, TypeOK
  <2>3. TailOK(w)'
    <3> DEFINE L == Len(rows[c])
               N == Cardinality(job[w].batch)
    <3>1. IsChain(rows[c]) /\ L \in Nat /\ NextPos(c) = L + 1 BY <1>1, <1>2, TailOfChain DEF ChainsSound
    <3>2. new = Linked(job[w], NextPos(c), TailHash(c)) BY <2>1, <3>1
    <3>3. rows'[c] = Put(rows[c], new) BY <1>1, <1>2, <1>5 DEF WriteBatch, ChainsSound
    <3> HIDE DEF L, N, new
    <3>4. /\ Grown(rows'[c], rows[c], job[w])
          /\ Continues(new, job[w], L + 1, TailHash(c))
          /\ \A n \in (L + 1)..(L + N) : rows'[c][n] = new[n]
          BY <1>2, <1>3, <3>1, <3>2, <3>3, PutLinked DEF L, N
    <3>5. Len(rows'[c]) = L + N /\ DOMAIN new = (L + 1)..(L + 1 + N - 1) BY <3>4 DEF Grown, Continues, L, N
    <3>6. L + 1 + N - 1 = L + N /\ \A n \in (L + 1)..(L + N) : n \in 1..(L + N) BY <1>3, <3>1 DEF N
    <3>7. /\ \A n \in DOMAIN new : n \in 1..Len(rows'[c]) /\ rows'[c][n] = new[n]
          /\ Continues(new, job[w], tail[w].pos, tail[w].hash) /\ tail[w].pos \in Nat \ {0}
          /\ tail[w].pos + Cardinality(job[w].batch) - 1 = Len(rows'[c])
          BY <2>1, <3>1, <3>4, <3>5, <3>6 DEF L, N
    <3>8. new = Linked(job'[w], tail'[w].pos, tail'[w].hash) BY <1>2 DEF new
    <3>9. QED BY <1>2, <1>4, <2>2, <3>7, <3>8 DEF TailOK
  <2>4. ResultsStand'
    <3>1. \A r \in acked' : Stands(r[2], rows'[r[1]]) BY <1>2, <2>1, ResultsKept
    <3>2. QED BY <3>1 DEF ResultsStand, Stands, Positions
  <2>5. QED BY <1>2, <1>5, <2>1, <2>2, <2>3, <2>4, GrowInv DEF Leased, LinkInv
<1>6. ASSUME UNCHANGED <<rows, heads, leases, open, stale>>, faults' \in Nat, Goto(w, "releaseFailed") PROVE LinkInv'
  <2>1. Moves(w) /\ pc'[w] = "releaseFailed" BY <1>1, <1>2, <1>6 DEF Moves, Goto, TypeOK
  <2>2. LeaseOK(w)' /\ TailOK(w)' BY <1>1, <1>2, <1>4, <1>6, <2>1 DEF LeaseOK, TailOK, WriterOK, Leased, Usable
  <2>3. QED BY <1>1, <1>2, <1>6, <2>1, <2>2, MovesInv DEF Leased, TypeOK
<1>7. CASE Usable(w) /\ writes /\ NoFault /\ Goto(w, "head") BY <1>1, <1>5, <1>7 DEF NoFault, TypeOK
<1>8. CASE TxError(w, writes) /\ Goto(w, "releaseFailed")
  <2>1. UNCHANGED <<open, stale>> /\ faults' \in Nat
        /\ (UNCHANGED <<rows, heads, leases>> \/ (Usable(w) /\ WriteBatch(c, new) /\ UNCHANGED <<heads, leases>>))
        BY <1>1, <1>8 DEF TxError, Fault, NoFault, fileVars, TypeOK
  <2>2. QED BY <1>5, <1>6, <1>8, <2>1
<1>9. QED BY <1>7, <1>8 DEF Write

\* The last entry of a linked batch.
LEMMA HeadOfLinked ==
    ASSUME NEW new, NEW j, NEW pos \in Nat \ {0}, NEW h, Continues(new, j, pos, h), j.batch \in Batches
    PROVE  /\ LastAt(new) = pos + Cardinality(j.batch) - 1 /\ LastAt(new) \in DOMAIN new
           /\ HeadOf(new) \in HeadState
           /\ HeadOf(new).pos = LastAt(new) /\ HeadOf(new).hash = new[LastAt(new)].hash
<1> DEFINE N == Cardinality(j.batch)
<1>1. N \in Nat \ {0} BY SortedIsBatch
<1> HIDE DEF N
<1>2. DOMAIN new = pos..(pos + N - 1) /\ \A n \in DOMAIN new : new[n] \in Entry BY DEF Continues, N
<1>3. LastAt(new) = pos + N - 1 /\ LastAt(new) \in DOMAIN new /\ LastAt(new) \in Nat
  <2> DEFINE e == pos + N - 1
  <2>1. e \in DOMAIN new /\ e \in Nat BY <1>1, <1>2
  <2>2. \A m \in DOMAIN new : m <= e /\ m \in Nat BY <1>1, <1>2
  <2>3. \A n \in DOMAIN new : (\A m \in DOMAIN new : m <= n) => n = e BY <2>1, <2>2
  <2>4. LastAt(new) = e BY <2>1, <2>2, <2>3 DEF LastAt
  <2>5. QED BY <2>1, <2>4
<1>4. QED BY <1>2, <1>3 DEF HeadOf, HeadState, Entry, N

Has(r, new) == \A n \in DOMAIN new : n \in DOMAIN r /\ r[n] = new[n]

\* A chain that holds a linked batch.
LEMMA LinkedStands ==
    ASSUME NEW new, NEW j, NEW pos \in Nat \ {0}, NEW h, Continues(new, j, pos, h), j.batch \in Batches,
           NEW r, Has(r, new)
    PROVE  Stands(j.call, r)
<1> DEFINE N == Cardinality(j.batch)
<1>1. N \in Nat \ {0} /\ Len(Sorted(j.batch)) = N BY SortedIsBatch
<1> HIDE DEF N
<1>2. DOMAIN new = pos..(pos + N - 1) BY DEF Continues, N
<1>3. pos \in DOMAIN r BY <1>1, <1>2 DEF Has
<1>4. ASSUME NEW i \in 1..N
      PROVE  pos + i - 1 \in DOMAIN r /\ r[pos + i - 1].call = j.call /\ r[pos + i - 1].id = Sorted(j.batch)[i].id
  <2>1. pos + i - 1 \in pos..(pos + N - 1) /\ pos + i - 1 - pos + 1 = i BY <1>1
  <2>2. new[pos + i - 1].call = j.call /\ new[pos + i - 1].id = Sorted(j.batch)[pos + i - 1 - pos + 1].id
        BY <2>1 DEF Continues, N
  <2>3. QED BY <1>2, <2>1, <2>2 DEF Has
<1>5. QED BY <1>1, <1>3, <1>4 DEF Stands

\* PutState saves the batch's last entry, which is the chain's, and the Result is returned.
LEMMA SaveHeadInv == ASSUME LinkInv, NEW w \in Writers, SaveHead(w) PROVE LinkInv'
<1> DEFINE c    == Chain(w)
           new  == Linked(job[w], tail[w].pos, tail[w].hash)
           save == PutState(c, HeadOf(new)) /\ UNCHANGED <<rows, leases>>
<1>1. TypeOK /\ DOMAIN tail = Writers /\ WriterOK(w) /\ ChainsSound BY DEF LinkInv
<1>2. pc[w] = "head" /\ c \in Chains /\ UNCHANGED <<job, tail, calls>> /\ Goto(w, "releaseDone")
      /\ acked' = acked \cup {<<c, job[w].call>>}
      BY InCall DEF SaveHead, Leased
<1>3. job[w].batch \in Batches /\ job[w].call \in Nat BY <1>2, InCall
<1>4. /\ UNCHANGED <<rows, leases, open, stale>> /\ faults' \in Nat
      /\ heads' = heads \/ (Usable(w) /\ PutState(c, HeadOf(new)))
  <2>1. CASE Usable(w) /\ save /\ NoFault BY <1>1, <2>1 DEF NoFault, TypeOK
  <2>2. CASE TxError(w, save) BY <1>1, <2>2 DEF TxError, Fault, NoFault, fileVars, TypeOK
  <2>3. QED BY <2>1, <2>2 DEF SaveHead
<1>5. Moves(w) /\ pc'[w] = "releaseDone" BY <1>1, <1>2, <1>4 DEF Moves, Goto, TypeOK
<1>6. LeaseOK(w)' /\ TailOK(w)'
      BY <1>1, <1>2, <1>4, <1>5 DEF LeaseOK, TailOK, WriterOK, Leased, Usable, Chain
<1>7. /\ TypeOK' /\ ChainsSound' /\ OwnCalls' /\ \A v \in Writers : WriterOK(v)'
      /\ DOMAIN job' = Writers /\ DOMAIN tail' = Writers
      BY <1>1, <1>2, <1>4, <1>5, <1>6, MovesWriters DEF Leased, TypeOK
<1>8. /\ \A n \in DOMAIN new : n \in 1..Len(rows[c]) /\ rows[c][n] = new[n]
      /\ Continues(new, job[w], tail[w].pos, tail[w].hash) /\ tail[w].pos \in Nat \ {0}
      BY <1>1, <1>2 DEF WriterOK, TailOK
<1> HIDE DEF new
<1>9. DOMAIN rows[c] = 1..Len(rows[c]) BY <1>1, <1>2 DEF ChainsSound
<1>10. heads' \in [Chains -> HeadState \cup {None}] /\ HeadsAreEntries'
  <2>1. HeadOf(new) \in HeadState /\ HeadOf(new).pos \in DOMAIN rows[c]
        /\ rows[c][HeadOf(new).pos].hash = HeadOf(new).hash
    <3>1. LastAt(new) \in DOMAIN new /\ HeadOf(new) \in HeadState
          /\ HeadOf(new).pos = LastAt(new) /\ HeadOf(new).hash = new[LastAt(new)].hash
          BY <1>3, <1>8, HeadOfLinked
    <3>2. QED BY <1>8, <1>9, <3>1
  <2>2. heads' \in [Chains -> HeadState \cup {None}] BY <1>4, <2>1 DEF PutState, LinkInv
  <2>3. \A d \in Chains : heads'[d] = heads[d] \/ (d = c /\ heads'[d] = HeadOf(new))
        BY <1>4 DEF PutState, LinkInv
  <2>4. HeadsAreEntries' BY <1>4, <2>1, <2>3 DEF LinkInv, HeadsAreEntries, Positions
  <2>5. QED BY <2>2, <2>4
<1>11. ResultsStand' /\ (acked \subseteq Chains \X Nat)'
  <2>1. Stands(job[w].call, rows[c])
    <3>1. Has(rows[c], new) BY <1>8, <1>9 DEF Has
    <3>2. QED BY <1>3, <1>8, <3>1, LinkedStands
  <2>2. \A r \in acked : Stands(r[2], rows[r[1]]) BY ResultsStandEach DEF LinkInv
  <2>3. \A r \in acked' : Stands(r[2], rows'[r[1]]) BY <1>2, <1>4, <2>1, <2>2
  <2>4. ResultsStand' BY <2>3 DEF ResultsStand, Stands, Positions
  <2>5. QED BY <1>2, <1>3, <2>4 DEF LinkInv
<1>12. QED BY <1>7, <1>10, <1>11 DEF LinkInv

\* The chains and heads after UpdateChains.
Updates(w) ==
    LET cs == job[w].chains IN
    /\ Unleased(cs) /\ \A c \in cs : AsExpected(job[w], c, TailHash(c))
    /\ UpdateChains([c \in cs |-> Linked(job[w], NextPos(c), TailHash(c))])
    /\ UNCHANGED leases

\* Each of its chains is extended at its tail, and its head saved.
LEMMA UpdateGrows ==
    ASSUME LinkInv, NEW w \in Writers, pc[w] = "update", Updates(w)
    PROVE  /\ Grow(w, job[w].chains)
           /\ heads' \in [Chains -> HeadState \cup {None}]
           /\ \A c \in Chains : c \notin job[w].chains => heads'[c] = heads[c]
           /\ \A c \in job[w].chains :
                 LET new == Linked(job[w], NextPos(c), TailHash(c)) IN
                 /\ Continues(new, job[w], Len(rows[c]) + 1, TailHash(c))
                 /\ \A n \in DOMAIN new : n \in DOMAIN rows'[c] /\ rows'[c][n] = new[n]
                 /\ heads'[c] = HeadOf(new) /\ LastAt(new) = Len(rows'[c]) /\ LastAt(new) \in DOMAIN new
                 /\ heads'[c].pos = LastAt(new) /\ heads'[c].hash = new[LastAt(new)].hash
<1> DEFINE cs == job[w].chains
<1>1. TypeOK /\ ChainsSound BY DEF LinkInv
<1>2. cs \subseteq Chains /\ job[w].batch \in Batches /\ job[w].call \in Nat BY InCall
<1>3. rows' = [c \in Chains |-> IF c \in cs THEN Put(rows[c], Linked(job[w], NextPos(c), TailHash(c))) ELSE rows[c]]
  <2>1. rows' = [c \in Chains |-> IF c \in cs
                                  THEN Put(rows[c], [d \in cs |-> Linked(job[w], NextPos(d), TailHash(d))][c])
                                  ELSE rows[c]]
        BY DEF Updates, UpdateChains
  <2>2. QED BY <2>1
<1>4. heads' = [c \in Chains |-> IF c \in cs THEN HeadOf(Linked(job[w], NextPos(c), TailHash(c))) ELSE heads[c]]
  <2>1. heads' = [c \in Chains |-> IF c \in cs
                                   THEN HeadOf([d \in cs |-> Linked(job[w], NextPos(d), TailHash(d))][c])
                                   ELSE heads[c]]
        BY DEF Updates, UpdateChains
  <2>2. QED BY <2>1
<1>5. Grow(w, cs) BY <1>3 DEF Grow, Updates, Unleased, AsExpected
<1>6. ASSUME NEW c \in cs
      PROVE  LET new == Linked(job[w], NextPos(c), TailHash(c)) IN
             /\ Continues(new, job[w], Len(rows[c]) + 1, TailHash(c))
             /\ \A n \in DOMAIN new : n \in DOMAIN rows'[c] /\ rows'[c][n] = new[n]
             /\ heads'[c] = HeadOf(new) /\ LastAt(new) = Len(rows'[c]) /\ LastAt(new) \in DOMAIN new
             /\ heads'[c].pos = LastAt(new) /\ heads'[c].hash = new[LastAt(new)].hash
             /\ HeadOf(new) \in HeadState
  <2> DEFINE new == Linked(job[w], NextPos(c), TailHash(c))
             L   == Len(rows[c])
             N   == Cardinality(job[w].batch)
  <2>1. c \in Chains /\ IsChain(rows[c]) /\ L \in Nat BY <1>1, <1>2 DEF ChainsSound
  <2>2. rows'[c] = Put(rows[c], new) /\ heads'[c] = HeadOf(new) BY <1>3, <1>4, <2>1
  <2> HIDE DEF new, L, N
  <2>3. /\ Grown(rows'[c], rows[c], job[w]) /\ Continues(new, job[w], L + 1, TailHash(c))
        /\ \A n \in (L + 1)..(L + N) : rows'[c][n] = new[n]
        /\ LastAt(new) = L + N
        BY <1>2, <2>1, <2>2, PutLinked DEF new, L, N
  <2>4. N \in Nat \ {0} BY <1>2, SortedIsBatch DEF N
  <2>5. Len(rows'[c]) = L + N /\ rows'[c] \in Seq(Entry) BY <2>3 DEF Grown, IsChain, L, N
  <2>6. DOMAIN new = (L + 1)..(L + 1 + N - 1) BY <2>3 DEF Continues, N
  <2>7. L + 1 + N - 1 = L + N /\ \A n \in (L + 1)..(L + N) : n \in 1..(L + N) BY <2>1, <2>4
  <2>8. DOMAIN rows'[c] = 1..(L + N) BY <2>5
  <2>9. L + 1 \in Nat \ {0} BY <2>1
  <2>10. LastAt(new) \in DOMAIN new /\ HeadOf(new) \in HeadState
         /\ HeadOf(new).pos = LastAt(new) /\ HeadOf(new).hash = new[LastAt(new)].hash
         BY <1>2, <2>3, <2>9, HeadOfLinked
  <2>11. \A n \in DOMAIN new : n \in DOMAIN rows'[c] /\ rows'[c][n] = new[n] BY <2>3, <2>6, <2>7, <2>8
  <2>12. QED BY <2>2, <2>3, <2>5, <2>10, <2>11 DEF new, L
<1>7. heads' \in [Chains -> HeadState \cup {None}]
  <2>1. \A c \in cs : HeadOf(Linked(job[w], NextPos(c), TailHash(c))) \in HeadState BY <1>6
  <2>2. QED BY <1>4, <2>1 DEF LinkInv
<1>8. QED BY <1>4, <1>5, <1>6, <1>7

\* AppendChains: one transaction for all its chains, or none of it.
LEMMA UpdateInv == ASSUME LinkInv, NEW w \in Writers, Update(w) PROVE LinkInv'
<1> DEFINE cs == job[w].chains
<1>1. TypeOK /\ DOMAIN tail = Writers /\ WriterOK(w) /\ ChainsSound BY DEF LinkInv
<1>2. pc[w] = "update" /\ UNCHANGED <<job, tail, calls>> BY DEF Update
<1>3. cs \subseteq Chains /\ job[w].batch \in Batches /\ job[w].call \in Nat BY <1>2, InCall
<1>4. ASSUME Updates(w), Usable(w), UNCHANGED <<open, stale>>, faults' \in Nat,
             \/ Goto(w, "done") /\ acked' = acked \cup {<<c, job[w].call>> : c \in cs}
             \/ Goto(w, "failed") /\ acked' = acked
      PROVE  LinkInv'
  <2>1. pc'[w] \in {"done", "failed"} /\ pc' = [pc EXCEPT ![w] = pc'[w]] BY <1>1, <1>4 DEF Goto, TypeOK
  <2>2. Grow(w, cs) /\ heads' \in [Chains -> HeadState \cup {None}] BY <1>2, <1>4, UpdateGrows
  <2>3. TailOK(w)' BY <2>1 DEF TailOK
  <2>4. \A c \in Chains : heads'[c] # heads[c] =>
            heads'[c].pos \in DOMAIN rows'[c] /\ rows'[c][heads'[c].pos].hash = heads'[c].hash
        BY <1>2, <1>4, UpdateGrows
  <2>5. (acked \subseteq Chains \X Nat)' BY <1>3, <1>4 DEF LinkInv
  <2>6. ASSUME NEW c \in cs PROVE Stands(job[w].call, rows'[c])
    <3> DEFINE new == Linked(job[w], NextPos(c), TailHash(c))
               pos == Len(rows[c]) + 1
    <3>1. /\ Continues(new, job[w], pos, TailHash(c))
          /\ Has(rows'[c], new)
          BY <1>2, <1>4, UpdateGrows DEF Has
    <3>2. pos \in Nat \ {0} BY <1>1, <1>3 DEF ChainsSound
    <3> HIDE DEF new, pos
    <3>3. QED BY <1>3, <3>1, <3>2, LinkedStands
  <2>7. \A r \in acked : Stands(r[2], rows'[r[1]]) BY <2>2, ResultsKept
  <2>8. \A r \in acked' : Stands(r[2], rows'[r[1]]) BY <1>4, <2>6, <2>7
  <2>9. ResultsStand' BY <2>8 DEF ResultsStand, Stands, Positions
  <2>10. QED BY <1>2, <1>4, <2>1, <2>2, <2>3, <2>4, <2>5, <2>9, GrowInv DEF Leased, Updates
<1>5. ASSUME UNCHANGED <<rows, heads, leases, open, stale, acked>>, faults' \in Nat,
             Goto(w, "failed") \/ Goto(w, "refused")
      PROVE  LinkInv'
  <2>1. Moves(w) /\ pc'[w] \in {"failed", "refused"} BY <1>1, <1>2, <1>5 DEF Moves, Goto, TypeOK
  <2>2. LeaseOK(w)' /\ TailOK(w)' BY <2>1 DEF LeaseOK, TailOK, Leased
  <2>3. QED BY <1>1, <1>2, <1>5, <2>1, <2>2, MovesInv DEF Leased, TypeOK
<1>6. CASE /\ Usable(w) /\ Updates(w) /\ NoFault
           /\ Goto(w, "done") /\ acked' = acked \cup {<<c, job[w].call>> : c \in cs}
      BY <1>1, <1>4, <1>6 DEF NoFault, TypeOK
<1>7. CASE (Goto(w, "failed") \/ Goto(w, "refused")) /\ UNCHANGED <<storeVars, acked>>
      BY <1>1, <1>5, <1>7 DEF storeVars, fileVars, TypeOK
<1>8. CASE TxError(w, Updates(w)) /\ Goto(w, "failed") /\ UNCHANGED acked
  <2>1. UNCHANGED <<open, stale>> /\ faults' \in Nat /\ (UNCHANGED <<rows, heads, leases>> \/ (Usable(w) /\ Updates(w)))
        BY <1>1, <1>8 DEF TxError, Fault, NoFault, fileVars, TypeOK
  <2>2. QED BY <1>4, <1>5, <1>8, <2>1
<1>9. QED BY <1>6, <1>7, <1>8 DEF Update, Updates

\* The Store is closed, its process dies, or it is opened again.
LEMMA StoreStepInv == ASSUME LinkInv, Close \/ Crash \/ Reopen PROVE LinkInv'
<1>1. TypeOK /\ calls \in Nat /\ \A v \in Writers : WriterOK(v) BY DEF LinkInv, TypeOK
<1>2. CASE Close
  <2>1. /\ UNCHANGED <<rows, heads, leases, faults, pc, job, tail, calls, acked>> /\ open' = FALSE
        /\ stale' = stale \cup {w \in Writers : pc[w] # "idle"}
        BY <1>2 DEF Close, fileVars, callVars
  <2>2. ASSUME NEW v \in Writers PROVE WriterOK(v)' BY <1>1, <2>1, Bystander DEF Usable
  <2>3. TypeOK' /\ OwnCalls' BY <1>1, <2>1 DEF TypeOK, OwnCalls, LinkInv, Positions
  <2>4. QED BY <1>1, <2>1, <2>2, <2>3, SameRows DEF LinkInv
<1>3. CASE Crash
  <2>1. /\ UNCHANGED <<rows, heads, leases, calls, acked>> /\ open' = FALSE /\ stale' = {} /\ faults' \in Nat
        /\ pc' = [w \in Writers |-> "idle"] /\ job' = [w \in Writers |-> NoJob]
        /\ tail' = [w \in Writers |-> NoTail]
        BY <1>1, <1>3 DEF Crash, fileVars, TypeOK
  <2>2. \A v \in Writers : WriterOK(v)' BY <2>1 DEF WriterOK, JobOK, LeaseOK, TailOK, PredictedOK, Leased, NoJob
  <2>3. TypeOK' /\ OwnCalls' BY <1>1, <2>1 DEF TypeOK, OwnCalls, Positions
  <2>4. QED BY <1>1, <2>1, <2>2, <2>3, SameRows DEF LinkInv
<1>4. CASE Reopen
  <2>1. /\ UNCHANGED <<rows, heads, stale, faults, pc, job, tail, calls, acked>> /\ ~open /\ open' = TRUE
        /\ leases' = [c \in Chains |-> None]
        BY <1>4 DEF Reopen, Open, Cleared, callVars
  <2>2. ASSUME NEW v \in Writers PROVE WriterOK(v)'
    <3>1. pc[v] # "idle" => v \in stale BY <1>1, <2>1 DEF WriterOK, JobOK
    <3>2. pc[v] # "idle" => ~Usable(v)' BY <2>1, <3>1 DEF Usable
    <3>3. QED BY <1>1, <2>1, <3>2, Bystander DEF Leased
  <2>3. TypeOK' /\ OwnCalls' BY <1>1, <2>1 DEF TypeOK, OwnCalls, LinkInv, Positions
  <2>4. QED BY <1>1, <2>1, <2>2, <2>3, SameRows DEF LinkInv
<1>5. QED BY <1>2, <1>3, <1>4

\* Every step keeps the invariant.
LEMMA LinkNextInv == LinkInv /\ [Next]_vars => LinkInv'
<1> SUFFICES ASSUME LinkInv, [Next]_vars PROVE LinkInv' OBVIOUS
<1>1. CASE UNCHANGED vars
  <2>1. UNCHANGED <<rows, heads, leases, open, stale, faults, pc, job, tail, calls, acked>>
        BY <1>1 DEF vars, storeVars, fileVars, callVars
  <2>2. TypeOK /\ calls \in Nat /\ \A v \in Writers : WriterOK(v) BY DEF LinkInv, TypeOK
  <2>3. ASSUME NEW v \in Writers PROVE WriterOK(v)' BY <2>1, <2>2, Bystander DEF Usable, WriterOK, JobOK
  <2>4. TypeOK' /\ OwnCalls' BY <2>1, <2>2 DEF TypeOK, OwnCalls, LinkInv, Positions
  <2>5. QED BY <2>1, <2>2, <2>3, <2>4, SameRows DEF LinkInv
<1>2. CASE \E w \in Writers : CallAppend(w) \/ CallAppendChains(w) \/ Retry(w) \/ Step(w)
      BY <1>2, CallInv, AgainInv, AcquireInv, ReadTailInv, WriteInv, SaveHeadInv, ReleaseInv, UpdateInv DEF Step
<1>3. CASE Close \/ Crash \/ Reopen BY <1>3, StoreStepInv
<1>4. QED BY <1>1, <1>2, <1>3 DEF Next

\* Whatever writers, faults, crashes and retries there are, the inductive invariant holds.
LEMMA LinkInvAlways == Spec => []LinkInv
BY LinkInitInv, LinkNextInv, PTL DEF Spec

-----------------------------------------------------------------------------
(* The theorems *)

\* Linker.Append and AppendChains: whatever appends ran side by side, failed, landed
\* or were retried, every chain is linked without gap or fork and every head is an entry.
THEOREM ChainsStayLinked == Spec => []LinkerInv
<1>1. LinkInv => LinkerInv
  <2> SUFFICES ASSUME LinkInv PROVE LinkerInv OBVIOUS
  <2>1. ChainsLinked
    <3> SUFFICES ASSUME NEW c \in Chains
                 PROVE  /\ Positions(c) = 1..Cardinality(Positions(c))
                        /\ \A n \in Positions(c) :
                              /\ rows[c][n].prev = IF n = 1 THEN <<>> ELSE rows[c][n - 1].hash
                              /\ rows[c][n].hash = Append(rows[c][n].prev, <<rows[c][n].call, rows[c][n].id>>)
        BY DEF ChainsLinked
    <3>1. IsChain(rows[c]) BY DEF LinkInv, ChainsSound
    <3>2. Len(rows[c]) \in Nat /\ Positions(c) = 1..Len(rows[c]) BY <3>1 DEF IsChain, Positions
    <3>3. Cardinality(1..Len(rows[c])) = Len(rows[c]) BY <3>2, FS_Interval
    <3>4. QED BY <3>1, <3>2, <3>3 DEF IsChain
  <2>2. QED BY <2>1 DEF LinkInv, LinkerInv
<1>2. QED BY <1>1, LinkInvAlways, PTL

\* A returned Result stays true for good, and a retry that names the expected hashes never
\* appends twice: a hash is as long as its chain, so it is the tail's at most once.
THEOREM ResultsAreKept == Spec => []CallsStand
<1>1. LinkInv => CallsStand
  <2> SUFFICES ASSUME LinkInv PROVE CallsStand OBVIOUS
  <2>1. ExpectedOnce
    <3> SUFFICES ASSUME NEW w \in Writers, job[w].expect, NEW c \in job[w].chains,
                        NEW m \in Positions(c), NEW n \in Positions(c),
                        rows[c][m].call = job[w].call, rows[c][n].call = job[w].call,
                        rows[c][m].id = rows[c][n].id
                 PROVE  m = n
        BY DEF ExpectedOnce
    <3> DEFINE h == job[w].at[c]
               b == job[w].batch
    <3>1. JobOK(w) /\ InPlace(job[w], h, rows[c]) BY DEF LinkInv, WriterOK, PredictedOK
    <3>2. pc[w] # "idle" BY <3>1 DEF JobOK, NoJob
    <3>3. b \in Batches /\ c \in Chains BY <3>1, <3>2 DEF JobOK
    <3>4. Len(rows[c]) \in Nat /\ Positions(c) = 1..Len(rows[c]) BY <3>3 DEF LinkInv, ChainsSound, Positions
    <3> HIDE DEF h, b
    <3>5. /\ Len(h) \in Nat
          /\ m - Len(h) \in 1..Cardinality(b) /\ rows[c][m].id = Sorted(b)[m - Len(h)].id
          /\ n - Len(h) \in 1..Cardinality(b) /\ rows[c][n].id = Sorted(b)[n - Len(h)].id
          BY <3>1, <3>4 DEF InPlace, Hash, b
    <3>6. \A i, k \in 1..Cardinality(b) : Sorted(b)[i].id = Sorted(b)[k].id => i = k BY <3>3, SortedIsBatch
    <3>7. m - Len(h) = n - Len(h) BY <3>5, <3>6
    <3>8. QED BY <3>4, <3>5, <3>7
  <2>2. QED BY <2>1 DEF LinkInv, CallsStand
<1>2. QED BY <1>1, LinkInvAlways, PTL

\* What a step does to the chains and their heads.
LEMMA StepGrows ==
    ASSUME LinkInv, Next
    PROVE  /\ rows' = rows \/ \E w \in Writers : \E cs \in SUBSET Chains : Grow(w, cs)
           /\ \A c \in Chains : heads'[c] = heads[c] \/ (heads'[c] \in HeadState /\ Len(rows[c]) <= heads'[c].pos)
<1>1. TypeOK /\ ChainsSound /\ heads \in [Chains -> HeadState \cup {None}] /\ \A v \in Writers : WriterOK(v)
      BY DEF LinkInv
<1>2. CASE rows' = rows /\ heads' = heads BY <1>2
<1>3. ASSUME NEW w \in Writers, Write(w)
      PROVE  heads' = heads /\ (rows' = rows \/ \E cs \in SUBSET Chains : Grow(w, cs))
  <2>1. pc[w] = "write" /\ Chain(w) \in Chains BY <1>3, InCall DEF Write, Leased
  <2>2. heads' = heads /\ (rows' = rows \/ (Usable(w) /\ WriteBatch(Chain(w), Linked(job[w], tail[w].pos, tail[w].hash))))
        BY <1>3 DEF Write, TxError, fileVars
  <2>3. QED BY <2>1, <2>2, WriteGrows
<1>4. ASSUME NEW w \in Writers, SaveHead(w)
      PROVE  rows' = rows /\ \A c \in Chains : heads'[c] = heads[c] \/ (heads'[c] \in HeadState /\ Len(rows[c]) <= heads'[c].pos)
  <2> DEFINE d   == Chain(w)
             new == Linked(job[w], tail[w].pos, tail[w].hash)
  <2>1. pc[w] = "head" /\ d \in Chains /\ job[w].batch \in Batches BY <1>4, InCall DEF SaveHead, Leased
  <2>2. rows' = rows /\ (heads' = heads \/ (Usable(w) /\ PutState(d, HeadOf(new))))
        BY <1>4 DEF SaveHead, TxError, fileVars
  <2>3. /\ Continues(new, job[w], tail[w].pos, tail[w].hash) /\ tail[w].pos \in Nat \ {0}
        /\ Usable(w) => tail[w].pos + Cardinality(job[w].batch) - 1 = Len(rows[d])
        BY <1>1, <2>1 DEF WriterOK, TailOK
  <2> HIDE DEF new
  <2>4. HeadOf(new) \in HeadState /\ HeadOf(new).pos = tail[w].pos + Cardinality(job[w].batch) - 1
        BY <2>1, <2>3, HeadOfLinked
  <2>5. Usable(w) => Len(rows[d]) <= HeadOf(new).pos BY <2>3, <2>4 DEF HeadState
  <2>6. QED BY <1>1, <2>2, <2>4, <2>5 DEF PutState
<1>5. ASSUME NEW w \in Writers, Update(w)
      PROVE  \/ rows' = rows /\ heads' = heads
             \/ pc[w] = "update" /\ Updates(w)
  <2>1. /\ pc[w] = "update"
        /\ \/ Usable(w) /\ Updates(w) /\ NoFault
           \/ UNCHANGED storeVars
           \/ TxError(w, Updates(w))
    <3>1. CASE Usable(w) /\ Updates(w) /\ NoFault BY <1>5, <3>1 DEF Update
    <3>2. CASE UNCHANGED storeVars BY <1>5, <3>2 DEF Update
    <3>3. CASE TxError(w, Updates(w)) BY <1>5, <3>3 DEF Update
    <3>4. QED BY <1>5, <3>1, <3>2, <3>3 DEF Update, Updates
  <2>2. CASE UNCHANGED storeVars BY <2>2 DEF storeVars, fileVars
  <2>3. CASE TxError(w, Updates(w)) BY <2>1, <2>3 DEF TxError, fileVars
  <2>4. QED BY <2>1, <2>2, <2>3
<1>6. ASSUME NEW w \in Writers, pc[w] = "update", Updates(w)
      PROVE  /\ \E cs \in SUBSET Chains : Grow(w, cs)
             /\ \A c \in Chains : heads'[c] = heads[c] \/ (heads'[c] \in HeadState /\ Len(rows[c]) <= heads'[c].pos)
  <2>1. job[w].chains \in SUBSET Chains /\ Grow(w, job[w].chains) BY <1>6, InCall, UpdateGrows
  <2>2. ASSUME NEW c \in Chains PROVE heads'[c] = heads[c] \/ (heads'[c] \in HeadState /\ Len(rows[c]) <= heads'[c].pos)
    <3>1. CASE c \notin job[w].chains BY <1>6, <3>1, UpdateGrows
    <3>2. CASE c \in job[w].chains
      <4>1. heads'[c].pos = Len(rows'[c]) /\ heads'[c] = HeadOf(Linked(job[w], NextPos(c), TailHash(c)))
            BY <1>6, <3>2, UpdateGrows
      <4>2. Len(rows[c]) <= Len(rows'[c]) BY <2>1, GrowRows
      <4>3. job[w].batch \in Batches /\ Len(rows[c]) + 1 \in Nat \ {0} BY <1>1, <1>6, InCall DEF ChainsSound
      <4>4. Continues(Linked(job[w], NextPos(c), TailHash(c)), job[w], Len(rows[c]) + 1, TailHash(c))
            BY <1>6, <3>2, UpdateGrows
      <4>5. HeadOf(Linked(job[w], NextPos(c), TailHash(c))) \in HeadState BY <4>3, <4>4, HeadOfLinked
      <4>6. QED BY <4>1, <4>2, <4>5
    <3>3. QED BY <3>1, <3>2
  <2>3. QED BY <2>1, <2>2
<1>7. ASSUME NEW w \in Writers, CallAppend(w) \/ CallAppendChains(w) \/ Retry(w) \/ Give(w)
      PROVE  rows' = rows /\ heads' = heads
      BY <1>7 DEF CallAppend, CallAppendChains, Call, Retry, Give, storeVars, fileVars
<1>8. ASSUME NEW w \in Writers, AcquireLease(w) \/ ReadTail(w) \/ ReleaseLease(w)
      PROVE  rows' = rows /\ heads' = heads
      BY <1>8 DEF AcquireLease, ReadTail, ReleaseLease, TxError, storeVars, fileVars
<1>9. ASSUME Close \/ Crash \/ Reopen PROVE rows' = rows /\ heads' = heads
      BY <1>9 DEF Close, Crash, Reopen, Open, fileVars
<1>10. QED BY <1>3, <1>4, <1>5, <1>6, <1>7, <1>8, <1>9 DEF Next, Step

\* PutState and UpdateChains: no step saves a head behind the one saved before it.
THEOREM HeadsOnlyAdvance == Spec => HeadsAdvance
<1>1. LinkInv /\ [Next]_vars =>
          [\A c \in Chains : heads[c] # None => heads'[c] # None /\ heads[c].pos <= heads'[c].pos]_vars
  <2> SUFFICES ASSUME LinkInv, Next, NEW c \in Chains, heads[c] # None
               PROVE  heads'[c] # None /\ heads[c].pos <= heads'[c].pos
      OBVIOUS
  <2>1. /\ heads[c].pos \in 1..Len(rows[c]) /\ Len(rows[c]) \in Nat
        BY DEF LinkInv, HeadsAreEntries, ChainsSound, Positions
  <2>2. HeadState = [pos : Nat, hash : Seq(Nat \X Nat)] BY DEF HeadState, Hash, Items
  <2>3. CASE heads'[c] = heads[c] BY <2>1, <2>3
  <2>4. CASE heads'[c] \in HeadState /\ Len(rows[c]) <= heads'[c].pos
        BY <2>1, <2>2, <2>4, StoreAssumption
  <2>5. QED BY <2>3, <2>4, StepGrows
<1>2. QED BY <1>1, LinkInvAlways, PTL DEF Spec, HeadsAdvance

\* The linker and its store implement AppendLog: every step leaves the logs alone, or extends
\* any number of them at their ends, all or none.
THEOREM ImplementsLog == Spec => AppendOnly
<1> DEFINE LogOf(r) == [n \in DOMAIN r |-> <<r[n].call, r[n].id>>]
<1>1. ASSUME NEW r \in Seq(Entry)
      PROVE  /\ LogOf(r) \in Seq(Items) /\ Len(LogOf(r)) = Len(r) /\ Len(r) \in Nat
             /\ \A n \in 1..Len(r) : LogOf(r)[n] = <<r[n].call, r[n].id>>
  <2>1. DOMAIN r = 1..Len(r) /\ Len(r) \in Nat OBVIOUS
  <2>2. ASSUME NEW n \in 1..Len(r) PROVE <<r[n].call, r[n].id>> \in Items
    <3>1. r[n] \in Entry OBVIOUS
    <3>2. r[n].call \in Nat /\ r[n].id \in Nat BY <3>1 DEF Entry
    <3>3. QED BY <3>2 DEF Items
  <2>3. LogOf(r) = [n \in 1..Len(r) |-> <<r[n].call, r[n].id>>] BY <2>1
  <2>4. QED BY <2>1, <2>2, <2>3
<1>2. Init => Log!LogInit
  <2> SUFFICES ASSUME Init PROVE Logs = [c \in Chains |-> <<>>] BY DEF Log!LogInit
  <2>1. \A c \in Chains : rows[c] = <<>> BY DEF Init, StoreInit
  <2>2. Logs = [c \in Chains |-> LogOf(rows[c])] BY DEF Logs, Positions
  <2> HIDE DEF LogOf
  <2>3. LogOf(<<>>) \in Seq(Items) /\ Len(LogOf(<<>>)) = 0
    <3>1. <<>> \in Seq(Entry) /\ Len(<<>>) = 0 OBVIOUS
    <3>2. QED BY <1>1, <3>1
  <2>4. LogOf(<<>>) = <<>> BY <2>3
  <2>5. QED BY <2>1, <2>2, <2>4
<1>3. LinkInv /\ LinkInv' /\ [Next]_vars => [Log!Extend]_Logs
  <2> SUFFICES ASSUME LinkInv, LinkInv', [Next]_vars PROVE Log!Extend \/ UNCHANGED Logs OBVIOUS
  <2>1. CASE UNCHANGED vars BY <2>1 DEF vars, storeVars, fileVars, Logs, Positions
  <2>2. CASE Next
    <3>1. /\ Logs = [c \in Chains |-> LogOf(rows[c])] /\ Logs' = [c \in Chains |-> LogOf(rows'[c])]
          BY DEF Logs, Positions
    <3>2. CASE rows' = rows BY <3>1, <3>2
    <3>3. CASE \E w \in Writers : \E cs \in SUBSET Chains : Grow(w, cs)
      <4>1. \A c \in Chains : /\ rows[c] \in Seq(Entry) /\ rows'[c] \in Seq(Entry)
                              /\ Len(rows[c]) <= Len(rows'[c])
                              /\ \A n \in 1..Len(rows[c]) : rows'[c][n] = rows[c][n]
            BY <3>3, GrowRows DEF LinkInv, ChainsSound
      <4> HIDE DEF LogOf
      <4>2. Logs' \in [Chains -> Seq(Items)] BY <1>1, <3>1, <4>1
      <4>3. ASSUME NEW c \in Chains PROVE Log!Extends(Logs[c], Logs'[c])
        <5>1. /\ Logs[c] = LogOf(rows[c]) /\ Logs'[c] = LogOf(rows'[c]) BY <3>1
        <5>2. /\ Len(LogOf(rows[c])) = Len(rows[c]) /\ Len(LogOf(rows'[c])) = Len(rows'[c])
              /\ Len(rows[c]) \in Nat /\ Len(rows'[c]) \in Nat
              BY <1>1, <4>1
        <5>3. ASSUME NEW i \in 1..Len(rows[c]) PROVE LogOf(rows'[c])[i] = LogOf(rows[c])[i]
          <6>1. i \in 1..Len(rows'[c]) /\ rows'[c][i] = rows[c][i] BY <4>1, <5>2
          <6>2. QED BY <1>1, <4>1, <6>1
        <5>4. QED BY <4>1, <5>1, <5>2, <5>3 DEF Log!Extends
      <4>4. QED BY <4>2, <4>3 DEF Log!Extend
    <3>4. QED BY <2>2, <3>2, <3>3, StepGrows
  <2>3. QED BY <2>1, <2>2
<1>4. QED BY <1>2, <1>3, LinkInvAlways, PTL DEF Spec, AppendOnly, Log!LogSpec

-----------------------------------------------------------------------------
(* The safety invariants for any goroutines and any number of panics.  What *)
(* makes them inductive: a lost writer lock and an abandoning Close mean a  *)
(* poisoned handle, a released file lock a poisoned or closed one.          *)

Labels == GuardSteps \cup {"idle", "Update", "View", "Close", "Begin", "view.begin", "view",
                           "begin", "close.lock", "abandon"}

\* Who is where, and who keeps a transaction.
Places ==
    /\ at \in [Callers -> Labels]
    /\ poisoned \in BOOLEAN /\ opened \in BOOLEAN /\ flock \in BOOLEAN /\ gaveUp \in BOOLEAN
    /\ \A c \in Callers : at[c] \in {"Begin", "begin"} => c \in Keepers /\ c \notin mine

\* What a lock that is gone says of the handle.
Gone ==
    /\ rwlock = Lost => poisoned
    /\ ~flock => poisoned \/ ~opened
    /\ \A c \in Callers : at[c] = "abandon" => poisoned

GuardInv == Places /\ LocksHeld /\ Gone /\ LostNotAwaited /\ ReleasedQuiet

-----------------------------------------------------------------------------
\* GuardInit: the handle as safebolt.Open returns it.
LEMMA GuardInitInv == GuardInit => GuardInv
<1> SUFFICES ASSUME GuardInit PROVE GuardInv OBVIOUS
<1> USE GuardAssumption DEF GuardInit
<1>1. Places BY DEF Places, Labels
<1>2. LocksHeld BY DEF LocksHeld, GuardSteps
<1>3. Gone /\ LostNotAwaited /\ ReleasedQuiet BY DEF Gone, LostNotAwaited, ReleasedQuiet, At
<1>4. QED BY <1>1, <1>2, <1>3 DEF GuardInv

USE DEF GoOn, Alone, LetGo, Refused, Panic, boltVars

\* The steps of Update and of the transaction it runs.
LEMMA GuardUpdateInv ==
    ASSUME GuardInv, NEW c \in Callers,
           UpdateLock(c) \/ UpdateCheck(c) \/ UpdateBegin(c) \/ UpdateRemap(c) \/ UpdateEnd(c) \/ UpdatePanic(c)
    PROVE  GuardInv'
<1> USE GuardAssumption DEF GuardInv, Places, Labels, GuardSteps, LocksHeld, Gone, LostNotAwaited, ReleasedQuiet, At
<1>1. CASE UpdateLock(c) BY <1>1 DEF UpdateLock
<1>2. CASE UpdateCheck(c) BY <1>2 DEF UpdateCheck
<1>3. CASE UpdateBegin(c) BY <1>3 DEF UpdateBegin
<1>4. CASE UpdateRemap(c) BY <1>4 DEF UpdateRemap
<1>5. CASE UpdateEnd(c) BY <1>5 DEF UpdateEnd
<1>6. CASE UpdatePanic(c) BY <1>6 DEF UpdatePanic
<1>7. QED BY <1>1, <1>2, <1>3, <1>4, <1>5, <1>6

\* The steps of View, and of Begin, Do and Rollback.
LEMMA GuardReadInv ==
    ASSUME GuardInv, NEW c \in Callers,
           ViewCheck(c) \/ ViewBegin(c) \/ ViewEnd(c) \/ BeginCheck(c) \/ BeginTx(c) \/ DoPanic(c) \/ Rollback(c)
    PROVE  GuardInv'
<1> USE GuardAssumption DEF GuardInv, Places, Labels, GuardSteps, LocksHeld, Gone, LostNotAwaited, ReleasedQuiet, At
<1>1. CASE ViewCheck(c) BY <1>1 DEF ViewCheck, ReadCheck
<1>2. CASE ViewBegin(c) BY <1>2 DEF ViewBegin
<1>3. CASE ViewEnd(c)
  <2>1. CASE Panic BY <1>3, <2>1 DEF ViewEnd
  <2>2. CASE UNCHANGED <<poisoned, panics>> BY <1>3, <2>2 DEF ViewEnd
  <2>3. QED BY <1>3, <2>1, <2>2 DEF ViewEnd
<1>4. CASE BeginCheck(c) BY <1>4 DEF BeginCheck, ReadCheck
<1>5. CASE BeginTx(c) BY <1>5 DEF BeginTx
<1>6. CASE DoPanic(c) BY <1>6 DEF DoPanic
<1>7. CASE Rollback(c) BY <1>7 DEF Rollback
<1>8. QED BY <1>1, <1>2, <1>3, <1>4, <1>5, <1>6, <1>7

\* The steps of Close.
LEMMA GuardCloseInv ==
    ASSUME GuardInv, NEW c \in Callers,
           CloseCheck(c) \/ CloseLock(c) \/ CloseRun(c) \/ CloseBegin(c) \/ CloseEnd(c) \/ Abandon(c)
    PROVE  GuardInv'
<1> USE GuardAssumption DEF GuardInv, Places, Labels, GuardSteps, LocksHeld, Gone, LostNotAwaited, ReleasedQuiet, At
<1>1. CASE CloseCheck(c) BY <1>1 DEF CloseCheck
<1>2. CASE CloseLock(c) BY <1>2 DEF CloseLock
<1>3. CASE CloseRun(c) BY <1>3 DEF CloseRun
<1>4. CASE CloseBegin(c) BY <1>4 DEF CloseBegin
<1>5. CASE CloseEnd(c)
  <2>1. CASE Panic /\ rwlock' \in {Nobody, Lost} /\ GoOn(c, "abandon") /\ UNCHANGED <<opened, flock>>
        BY <1>5, <2>1 DEF CloseEnd
  <2>2. CASE opened' = FALSE /\ flock' = FALSE /\ rwlock' = Nobody /\ UNCHANGED <<poisoned, panics>>
             /\ GoOn(c, IF poisoned THEN "abandon" ELSE "idle")
        BY <1>5, <2>2 DEF CloseEnd
  <2>3. QED BY <1>5, <2>1, <2>2 DEF CloseEnd
<1>6. CASE Abandon(c) BY <1>6 DEF Abandon, NoWriter
<1>7. QED BY <1>1, <1>2, <1>3, <1>4, <1>5, <1>6

\* A goroutine makes a call.
LEMMA GuardCallInv == ASSUME GuardInv, NEW c \in Callers, Enter(c) PROVE GuardInv'
BY GuardAssumption DEF Enter, GuardInv, Places, Labels, GuardSteps, LocksHeld, Gone, LostNotAwaited, ReleasedQuiet, At

\* Every step of every goroutine keeps the invariant.
LEMMA GuardNextInv == GuardInv /\ [GuardNext]_guardVars => GuardInv'
<1> SUFFICES ASSUME GuardInv, [GuardNext]_guardVars PROVE GuardInv' OBVIOUS
<1>1. CASE UNCHANGED guardVars
      BY <1>1 DEF guardVars, GuardInv, Places, Labels, GuardSteps, LocksHeld, Gone, LostNotAwaited, ReleasedQuiet, At
<1>2. CASE Restart
  <2>1. Places' BY <1>2 DEF Restart, Places, Labels
  <2>2. LocksHeld' BY <1>2, GuardAssumption DEF Restart, LocksHeld, GuardSteps, GuardInv
  <2>3. Gone' /\ LostNotAwaited' /\ ReleasedQuiet'
        BY <1>2, GuardAssumption DEF Restart, Gone, LostNotAwaited, ReleasedQuiet, At
  <2>4. QED BY <2>1, <2>2, <2>3 DEF GuardInv
<1>3. CASE GuardNext /\ ~Restart
  <2>1. PICK c \in Callers :
            Enter(c) \/ UpdateLock(c) \/ UpdateRemap(c) \/ CloseLock(c) \/ GuardStep(c) \/ DoPanic(c) \/ Rollback(c)
        BY <1>3 DEF GuardNext
  <2>2. QED BY <2>1, GuardCallInv, GuardUpdateInv, GuardReadInv, GuardCloseInv DEF GuardStep
<1>4. QED BY <1>1, <1>2, <1>3

-----------------------------------------------------------------------------
\* Whoever panics where, the inductive invariant holds.
LEMMA GuardInvAlways == GuardSpec => []GuardInv
BY GuardInitInv, GuardNextInv, PTL DEF GuardSpec

\* Guard.write and bbolt's writer lock are where RunWrite and bbolt put them, for any
\* goroutines and any number of panics.
THEOREM GuardLocksHeld == GuardSpec => []LocksHeld
<1>1. GuardInv => LocksHeld BY DEF GuardInv
<1>2. QED BY <1>1, GuardInvAlways, PTL

\* Guard.RunWrite: no writer and no Close is ever on its way to a writer lock that a
\* panicking write has kept.
THEOREM LostNeverAwaited == GuardSpec => []LostNotAwaited
<1>1. GuardInv => LostNotAwaited BY DEF GuardInv
<1>2. QED BY <1>1, GuardInvAlways, PTL

\* DB.Close: an abandoned handle's file lock is not released under a running write,
\* unless the wait for it ran out.
THEOREM ReleasedWhenQuiet == GuardSpec => []ReleasedQuiet
<1>1. GuardInv => ReleasedQuiet BY DEF GuardInv
<1>2. QED BY <1>1, GuardInvAlways, PTL

=============================================================================
