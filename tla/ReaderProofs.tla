---------------------------- MODULE ReaderProofs ----------------------------
(***************************************************************************)
(* Verify and Export for any chains, sources, calls and changes behind the *)
(* sink's back: what Verify reports is true of the folder, and what Export *)
(* writes of one chain fits together and shows nothing forgotten.          *)
(*                                                                         *)
(* What is known of a chain depends on what befell it and still stands: an *)
(* invariant of every chain's rows says which rows each kind of harm can   *)
(* have led to, and the readers' invariants relate what they have seen to  *)
(* what befell the chain since their call began.                           *)
(***************************************************************************)
EXTENDS Readers, WellFoundedInduction, TLAPS

Entries     == [id : Nat \ {0}, type : {"event", "erasure"}]
IndexStates == {"absent", "live", "pending", "malformed"}
ChainRows   == [log : Seq(Entries), secrets : SUBSET Nat, sigs : SUBSET Nat, sources : [Sources -> Nat],
                index : IndexStates, forward : BOOLEAN, anchors : Seq(Seq(Entries)), next : Nat \ {0}]

-----------------------------------------------------------------------------
(* Facts about numbers and sequences *)

LEMMA LeastNumber == ASSUME NEW T, T \subseteq Nat, T # {} PROVE \E m \in T : \A n \in T : m <= n
<1> DEFINE R == OpToRel(<, Nat)
<1>1. \A m, n \in Nat : m < n => <<m, n>> \in R
  BY DEF OpToRel
<1>2. IsWellFoundedOn(R, Nat)
  BY NatLessThanWellFounded
<1>3. PICK m \in T : \A n \in T : ~ (<<n, m>> \in R)
  BY <1>2, WFMin
<1> HIDE DEF R
<1>4. \A n \in T : ~ (n < m)
  BY <1>1, <1>3
<1> QED BY <1>4

\* A set of places in a sequence has a last one.
LEMMA LastPlace ==
    ASSUME NEW n \in Nat, NEW S \in SUBSET (1..n), S # {}
    PROVE  \E m \in S : \A k \in S : k <= m
<1> DEFINE T == {k \in Nat : \E i \in S : k = n - i}
<1>1. T \subseteq Nat /\ T # {}
  <2>1. PICK i : i \in S OBVIOUS
  <2>2. n - i \in Nat BY <2>1
  <2> QED BY <2>1, <2>2
<1>2. PICK t \in T : \A u \in T : t <= u
  <2> HIDE DEF T
  <2> QED BY <1>1, LeastNumber
<1>3. PICK m \in S : t = n - m BY <1>2
<1>4. ASSUME NEW k \in S PROVE k <= m
  <2>1. n - k \in T BY <1>4
  <2>2. n - m <= n - k BY <1>2, <1>3, <2>1
  <2> QED BY <1>3, <1>4, <2>2
<1> QED BY <1>3, <1>4

\* l is k with x after it.
After(l, k, x) ==
    /\ l \in Seq(Entries) /\ Len(l) = Len(k) + 1 /\ DOMAIN l = 1..(Len(k) + 1)
    /\ \A i \in 1..Len(k) : l[i] = k[i]
    /\ l[Len(k) + 1] = x

LEMMA Appended == ASSUME NEW k \in Seq(Entries), NEW x \in Entries PROVE After(Append(k, x), k, x)
BY DEF After

\* A prefix of a sequence is one of whatever follows it.
LEMMA PrefixAfter ==
    ASSUME NEW k \in Seq(Entries), NEW x \in Entries, NEW l, After(l, k, x), NEW a \in Seq(Entries), IsPrefix(a, k)
    PROVE  IsPrefix(a, l)
<1>1. DOMAIN k = 1..Len(k) /\ Len(k) \in Nat OBVIOUS
<1>2. DOMAIN a \subseteq DOMAIN k /\ \A i \in DOMAIN a : a[i] = k[i] BY DEF IsPrefix
<1>3. DOMAIN l = 1..(Len(k) + 1) /\ \A i \in 1..Len(k) : l[i] = k[i] BY DEF After
<1>4. DOMAIN a \subseteq DOMAIN l /\ \A i \in DOMAIN a : a[i] = l[i] BY <1>1, <1>2, <1>3
<1> QED BY <1>4 DEF IsPrefix

-----------------------------------------------------------------------------
(* The rows of a chain *)

\* A log ends with an erasure.
Ends(l) == Len(l) > 1 /\ l[Len(l)].type = "erasure"

LEMMA IdsOf == ASSUME NEW f \in ChainRows PROVE
    /\ f.log \in Seq(Entries) /\ Len(f.log) \in Nat /\ DOMAIN f.log = 1..Len(f.log)
    /\ \A i \in DOMAIN f.log : f.log[i] \in Entries /\ f.log[i].id \in Nat \ {0}
    /\ Held(f) <=> Len(f.log) > 0
<1>1. f.log \in Seq(Entries) BY DEF ChainRows
<1>2. Len(f.log) \in Nat /\ DOMAIN f.log = 1..Len(f.log) BY <1>1
<1>3. \A i \in DOMAIN f.log : f.log[i] \in Entries BY <1>1, <1>2
<1>4. \A x \in Entries : x.id \in Nat \ {0} BY DEF Entries
<1>5. f.log = <<>> <=> Len(f.log) = 0 BY <1>1
<1> QED BY <1>1, <1>2, <1>3, <1>4, <1>5 DEF Held

LEMMA LastErasureIs ==
    ASSUME NEW f \in ChainRows, Erasures(f) # {}
    PROVE  LastErasure(f) \in Erasures(f) /\ \A j \in Erasures(f) : j <= LastErasure(f)
<1>1. PICK n \in Nat : n = Len(f.log) /\ DOMAIN f.log = 1..n BY IdsOf
<1>2. Erasures(f) \in SUBSET (1..n) BY <1>1 DEF Erasures
<1>3. \E m \in Erasures(f) : \A k \in Erasures(f) : k <= m BY <1>2, LastPlace
<1> QED BY <1>3, Zenon DEF LastErasure

LEMMA EndsErasedIs == ASSUME NEW f \in ChainRows PROVE EndsErased(f) <=> Ends(f.log)
<1>1. PICK n \in Nat : n = Len(f.log) /\ DOMAIN f.log = 1..n /\ (Held(f) <=> n > 0) BY IdsOf
<1>2. ASSUME EndsErased(f) PROVE Ends(f.log)
  <2>1. n > 0 /\ LastErasure(f) = n BY <1>1, <1>2 DEF EndsErased
  <2>2. Erasures(f) # {} BY <2>1 DEF LastErasure
  <2>3. n \in Erasures(f) BY <2>1, <2>2, LastErasureIs
  <2> QED BY <1>1, <2>3 DEF Erasures, Ends
<1>3. ASSUME Ends(f.log) PROVE EndsErased(f)
  <2>1. n \in Erasures(f) BY <1>1, <1>3 DEF Ends, Erasures
  <2>2. LastErasure(f) \in 1..n /\ n <= LastErasure(f) BY <1>1, <2>1, LastErasureIs DEF Erasures
  <2>3. LastErasure(f) = n /\ n > 0 BY <2>1, <2>2
  <2> QED BY <1>1, <2>3 DEF EndsErased
<1> QED BY <1>2, <1>3

LEMMA LastErasureType == ASSUME NEW f \in ChainRows PROVE LastErasure(f) \in 0..Len(f.log)
<1>1. CASE Erasures(f) = {} BY <1>1, IdsOf DEF LastErasure
<1>2. CASE Erasures(f) # {} BY <1>2, IdsOf, LastErasureIs DEF Erasures
<1> QED BY <1>1, <1>2

-----------------------------------------------------------------------------
(* What is known of a chain: f are its rows, h what befell it, and e is    *)
(* empty unless the sink began to erase it                                 *)

\* Ids are given out in order.
Below(f) ==
    /\ \A i \in DOMAIN f.log : f.log[i].id < f.next
    /\ \A x \in f.secrets : 0 < x /\ x < f.next
    /\ \A x \in f.sigs : 0 < x /\ x < f.next
    /\ \A s \in Sources : f.sources[s] < f.next

\* Every entry has an id of its own, and the first is an event.
Own(f) ==
    /\ \A i, j \in DOMAIN f.log : f.log[i].id = f.log[j].id => i = j
    /\ 1 \in DOMAIN f.log => f.log[1].type = "event"

Lost(h) == h \cap {"remove", "truncate"} # {}

\* Unless entries were taken away, a checkpoint is of the entries there are.
Checkpointed(f, h) ==
    /\ ~Lost(h) /\ "torn" \notin h => ~SeriesFails(f)
    /\ f.anchors # <<>> /\ ~Held(f) => Lost(h)

Blank(f) == f.secrets = {} /\ f.sigs = {} /\ \A s \in Sources : f.sources[s] = 0

\* What each kind of harm leaves in the index rows, and nothing else does.
Marked(f, h, e) ==
    /\ f.index = "malformed" => "forward" \in h
    /\ ~f.forward => "reverse" \in h
    /\ f.index = "pending" => "stopped" \in h
    /\ "cut" \in h => f.index # "absent" \/ f.next > 1 \/ e # {} \/ h \cap {"unbind", "reverse"} # {}
    /\ f.index = "absent" /\ ~Held(f) /\ ~Lost(h) /\ h \cap {"unbind", "reverse"} = {} => Blank(f)

\* An erasure that is not the sink's has no signature and no checkpoint.
Unsealed(f, e) ==
    e = {} =>
          /\ \A i \in DOMAIN f.log : f.log[i].type = "erasure" => f.log[i].id \notin f.sigs
          /\ \A n \in DOMAIN f.anchors : f.anchors[n] # Torn => f.anchors[n][Len(f.anchors[n])].type = "event"

\* No event has content.
NoContent(f) == \A i \in DOMAIN f.log : f.log[i].type = "event" => f.log[i].id \notin f.secrets

\* A chain being erased is marked, or has no content, or its index row was put back.
Hidden(f, h, e) ==
    e # {} =>
         /\ f.index = "live" => "relink" \in h
         /\ "relink" \in h /\ ~Undone(h) /\ f.index # "pending" => Ends(f.log)
         /\ "relink" \notin h /\ ~Undone(h) /\ f.index # "pending" => NoContent(f)

Lasting == {"remove", "truncate", "forge", "content", "unsign", "share", "unbind", "reverse", "forward", "follow"}

\* Each entry has its content, an erased one none.
Stored(f, h) ==
    /\ Ends(f.log) =>
          /\ f.log[Len(f.log)].id \in f.secrets
          /\ \A i \in DOMAIN f.log : i < Len(f.log) => f.log[i].id \notin f.secrets \/ "stopped" \in h
    /\ ~Ends(f.log) => \A i \in DOMAIN f.log : f.log[i].id \in f.secrets

\* The rows agree, as far as nobody changed them behind the sink's back (putting an
\* erased chain's index row back is undone by erasing it again).
Sound(f, h) ==
    h \cap Lasting = {} =>
        /\ \A i \in DOMAIN f.log : f.log[i].type = "erasure" => i = Len(f.log) /\ i > 1
        /\ f.index = "live" => "relink" \in h \/ ~Ends(f.log)
        /\ "relink" \in h => Ends(f.log)
        /\ f.index = "absent" /\ Held(f) => Ends(f.log)
        /\ Stored(f, h)
        /\ f.secrets \subseteq Ids(f) \/ "cut" \in h \/ "stopped" \in h
        /\ Ids(f) \subseteq f.sigs
        /\ ~Held(f) => Blank(f) \/ "cut" \in h \/ "stopped" \in h
        /\ \A s \in Sources : f.sources[s] = 0 \/ f.sources[s] \in Ids(f) \/ "cut" \in h
        /\ \A s, t \in Sources : f.sources[s] = f.sources[t] => s = t \/ f.sources[s] = 0

ChainInv(f, h, e) ==
    /\ f \in ChainRows /\ Below(f) /\ Own(f)
    /\ Checkpointed(f, h) /\ Marked(f, h, e) /\ Unsealed(f, e) /\ Hidden(f, h, e) /\ Sound(f, h)

LEMMA NoChainInv == ChainInv(NoChain, {}, {})
<1>1. PICK none : none = <<>> /\ none \in Seq(Entries) /\ none \in Seq(Seq(Entries)) /\ DOMAIN none = {} /\ Len(none) = 0
  <2>1. <<>> \in Seq(Entries) /\ <<>> \in Seq(Seq(Entries)) /\ DOMAIN <<>> = {} /\ Len(<<>>) = 0 OBVIOUS
  <2> QED BY <2>1
<1>2. PICK src \in [Sources -> Nat] : src = [s \in Sources |-> 0] OBVIOUS
<1>3. PICK f : f = NoChain OBVIOUS
<1>4. f = [log |-> none, secrets |-> {}, sigs |-> {}, sources |-> src, index |-> "absent", forward |-> TRUE,
           anchors |-> none, next |-> 1]
  BY <1>1, <1>2, <1>3 DEF NoChain
<1>5. f \in ChainRows BY <1>1, <1>2, <1>4 DEF ChainRows, IndexStates
<1>6. f.log = none /\ f.secrets = {} /\ f.sigs = {} /\ f.index = "absent" /\ f.anchors = none /\ f.next = 1 /\ f.forward BY <1>4
<1>7. \A s \in Sources : f.sources[s] = 0 BY <1>2, <1>4
<1>8. Ids(f) = {} /\ ~Held(f) /\ ~Ends(f.log) BY <1>1, <1>6 DEF Ids, Held, Ends
<1>9. Below(f) /\ Own(f) BY <1>1, <1>6, <1>7 DEF Below, Own
<1>10. Checkpointed(f, {}) BY <1>1, <1>6 DEF Checkpointed, SeriesFails
<1>11. Marked(f, {}, {}) BY <1>6, <1>7, <1>8 DEF Marked, Blank
<1>12. Unsealed(f, {}) BY <1>1, <1>6 DEF Unsealed
<1>13. Hidden(f, {}, {}) BY DEF Hidden
<1>14. Sound(f, {}) BY <1>1, <1>6, <1>7, <1>8 DEF Sound, Stored, Blank
<1> QED BY <1>3, <1>5, <1>9, <1>10, <1>11, <1>12, <1>13, <1>14 DEF ChainInv

-----------------------------------------------------------------------------
(* The rows after each transaction of a call *)

\* Fields that are as they were.
SameBut(g, f, fields) ==
    /\ "log" \notin fields => g.log = f.log
    /\ "secrets" \notin fields => g.secrets = f.secrets
    /\ "sigs" \notin fields => g.sigs = f.sigs
    /\ "sources" \notin fields => g.sources = f.sources
    /\ "index" \notin fields => g.index = f.index
    /\ "forward" \notin fields => g.forward = f.forward
    /\ "anchors" \notin fields => g.anchors = f.anchors
    /\ "next" \notin fields => g.next = f.next

LEMMA BindRows ==
    ASSUME NEW f \in ChainRows, NEW g, g = Bind(f)
    PROVE  g \in ChainRows /\ SameBut(g, f, {"index"}) /\ g.index = "live"
BY DEF Bind, ChainRows, IndexStates, SameBut

LEMMA ContentRows ==
    ASSUME NEW f \in ChainRows, NEW g, g = PutContent(f)
    PROVE  /\ g \in ChainRows /\ SameBut(g, f, {"index", "secrets", "next"})
           /\ g.index = "live" /\ g.secrets = f.secrets \cup {f.next} /\ g.next = f.next + 1
<1>1. PICK b : b = Bind(f) OBVIOUS
<1>2. b \in ChainRows /\ SameBut(b, f, {"index"}) /\ b.index = "live" BY <1>1, BindRows
<1>3. PICK secrets \in SUBSET Nat : secrets = f.secrets \cup {f.next} BY DEF ChainRows
<1>4. PICK next \in Nat \ {0} : next = f.next + 1 BY DEF ChainRows
<1>5. g = [b EXCEPT !.secrets = secrets, !.next = next] BY <1>1, <1>2, <1>3, <1>4 DEF PutContent, SameBut
<1>6. g \in ChainRows /\ SameBut(g, b, {"secrets", "next"}) /\ g.secrets = secrets /\ g.next = next
  BY <1>2, <1>3, <1>4, <1>5 DEF ChainRows, SameBut
<1> QED BY <1>2, <1>3, <1>4, <1>6 DEF SameBut

LEMMA SigRows ==
    ASSUME NEW f \in ChainRows, NEW g, g = PutSigs(f)
    PROVE  /\ g \in ChainRows /\ SameBut(g, f, {"index", "secrets", "sigs", "next"})
           /\ g.index = "live" /\ g.secrets = f.secrets \cup {f.next} /\ g.sigs = f.sigs \cup {f.next} /\ g.next = f.next + 1
<1>1. PICK b : b = PutContent(f) OBVIOUS
<1>2. /\ b \in ChainRows /\ SameBut(b, f, {"index", "secrets", "next"})
      /\ b.index = "live" /\ b.secrets = f.secrets \cup {f.next} /\ b.next = f.next + 1
  BY <1>1, ContentRows
<1>3. PICK sigs \in SUBSET Nat : sigs = b.sigs \cup {f.next} BY <1>2 DEF ChainRows
<1>4. g = [b EXCEPT !.sigs = sigs] BY <1>1, <1>3 DEF PutSigs
<1>5. g \in ChainRows /\ SameBut(g, b, {"sigs"}) /\ g.sigs = sigs BY <1>2, <1>3, <1>4 DEF ChainRows, SameBut
<1> QED BY <1>2, <1>3, <1>5 DEF SameBut

LEMMA SourceRows ==
    ASSUME NEW f \in ChainRows, NEW s \in Sources, NEW g, g = PutSource(f, s)
    PROVE  /\ g \in ChainRows /\ SameBut(g, f, {"index", "secrets", "sigs", "sources", "next"})
           /\ g.index = "live" /\ g.secrets = f.secrets \cup {f.next} /\ g.sigs = f.sigs \cup {f.next} /\ g.next = f.next + 1
           /\ g.sources = [f.sources EXCEPT ![s] = f.next]
<1>1. PICK b : b = PutSigs(f) OBVIOUS
<1>2. /\ b \in ChainRows /\ SameBut(b, f, {"index", "secrets", "sigs", "next"}) /\ b.sigs = f.sigs \cup {f.next}
      /\ b.index = "live" /\ b.secrets = f.secrets \cup {f.next} /\ b.next = f.next + 1
  BY <1>1, SigRows
<1>3. PICK src \in [Sources -> Nat] : src = [f.sources EXCEPT ![s] = f.next] BY DEF ChainRows
<1>4. b.sources = f.sources BY <1>2 DEF SameBut
<1>5. g = [b EXCEPT !.sources = src] BY <1>1, <1>3, <1>4 DEF PutSource
<1>6. g \in ChainRows /\ SameBut(g, b, {"sources"}) /\ g.sources = src BY <1>2, <1>3, <1>5 DEF ChainRows, SameBut
<1> QED BY <1>2, <1>3, <1>6 DEF SameBut

\* An entry put at the end of a log.
AddEntry(g, f, x) == After(g.log, f.log, x) /\ g.log \in Seq(Entries)

LEMMA LogPut ==
    ASSUME NEW f \in ChainRows, NEW x \in Entries, NEW g, g = [f EXCEPT !.log = Append(@, x)]
    PROVE  g \in ChainRows /\ SameBut(g, f, {"log"}) /\ After(g.log, f.log, x)
<1>1. PICK l \in Seq(Entries) : l = Append(f.log, x)
  <2>1. f.log \in Seq(Entries) BY DEF ChainRows
  <2>2. Append(f.log, x) \in Seq(Entries) BY <2>1
  <2> QED BY <2>2
<1>2. After(l, f.log, x)
  <2>1. f.log \in Seq(Entries) BY DEF ChainRows
  <2> QED BY <1>1, <2>1, Appended
<1>3. g = [f EXCEPT !.log = l] BY <1>1
<1> QED BY <1>2, <1>3 DEF ChainRows, SameBut

LEMMA EntryTypes == ASSUME NEW f \in ChainRows PROVE Event(f.next) \in Entries /\ Erasure(f.next) \in Entries
BY DEF ChainRows, Entries, Event, Erasure

LEMMA CommittedRows ==
    ASSUME NEW f \in ChainRows, NEW s \in Sources, NEW g, g = Committed(f, s)
    PROVE  /\ g \in ChainRows /\ SameBut(g, f, {"log", "index", "secrets", "sigs", "sources", "next"})
           /\ g.index = "live" /\ g.secrets = f.secrets \cup {f.next} /\ g.sigs = f.sigs \cup {f.next} /\ g.next = f.next + 1
           /\ g.sources = [f.sources EXCEPT ![s] = f.next] /\ After(g.log, f.log, Event(f.next))
<1>1. PICK b : b = PutSource(f, s) OBVIOUS
<1>2. /\ b \in ChainRows /\ SameBut(b, f, {"index", "secrets", "sigs", "sources", "next"})
      /\ b.index = "live" /\ b.secrets = f.secrets \cup {f.next} /\ b.sigs = f.sigs \cup {f.next} /\ b.next = f.next + 1
      /\ b.sources = [f.sources EXCEPT ![s] = f.next]
  BY <1>1, SourceRows
<1>3. g = [b EXCEPT !.log = Append(@, Event(f.next))] BY <1>1 DEF Committed
<1>4. g \in ChainRows /\ SameBut(g, b, {"log"}) /\ After(g.log, b.log, Event(f.next)) BY <1>2, <1>3, LogPut, EntryTypes
<1> QED BY <1>2, <1>4 DEF SameBut

LEMMA PreparedRows ==
    ASSUME NEW f \in ChainRows, ~Ends(f.log), NEW g, g = Prepared(f)
    PROVE  /\ g \in ChainRows /\ SameBut(g, f, {"secrets", "sigs", "next"})
           /\ g.secrets = f.secrets \cup {f.next} /\ g.sigs = f.sigs \cup {f.next} /\ g.next = f.next + 1
<1>1. PICK secrets \in SUBSET Nat : secrets = f.secrets \cup {f.next} BY DEF ChainRows
<1>2. PICK sigs \in SUBSET Nat : sigs = f.sigs \cup {f.next} BY DEF ChainRows
<1>3. PICK next \in Nat \ {0} : next = f.next + 1 BY DEF ChainRows
<1>4. g = [f EXCEPT !.secrets = secrets, !.sigs = sigs, !.next = next] BY <1>1, <1>2, <1>3, EndsErasedIs DEF Prepared
<1> QED BY <1>1, <1>2, <1>3, <1>4 DEF ChainRows, SameBut

LEMMA RecordedRows ==
    ASSUME NEW f \in ChainRows, ~Ends(f.log), NEW g, g = Recorded(f)
    PROVE  /\ g \in ChainRows /\ SameBut(g, f, {"log", "secrets", "sigs", "next"})
           /\ g.secrets = f.secrets \cup {f.next} /\ g.sigs = f.sigs \cup {f.next} /\ g.next = f.next + 1
           /\ After(g.log, f.log, Erasure(f.next))
<1>1. PICK b : b = Prepared(f) OBVIOUS
<1>2. /\ b \in ChainRows /\ SameBut(b, f, {"secrets", "sigs", "next"})
      /\ b.secrets = f.secrets \cup {f.next} /\ b.sigs = f.sigs \cup {f.next} /\ b.next = f.next + 1
  BY <1>1, PreparedRows
<1>3. g = [b EXCEPT !.log = Append(@, Erasure(f.next))] BY <1>1, EndsErasedIs DEF Recorded
<1>4. g \in ChainRows /\ SameBut(g, b, {"log"}) /\ After(g.log, b.log, Erasure(f.next)) BY <1>2, <1>3, LogPut, EntryTypes
<1> QED BY <1>2, <1>4 DEF SameBut

\* The ids of the genuine erasures.
ErasureIds(f) == {f.log[i].id : i \in Erasures(f)}

LEMMA ErasureIdsType == ASSUME NEW f \in ChainRows PROVE ErasureIds(f) \in SUBSET Nat
BY IdsOf DEF ErasureIds, Erasures

LEMMA UnopenableRows ==
    ASSUME NEW f \in ChainRows, NEW r \in ChainRows, r = Recorded(f), NEW g, g = Unopenable(f)
    PROVE  g \in ChainRows /\ SameBut(g, r, {"secrets"}) /\ g.secrets = ErasureIds(r)
<1>1. PICK secrets \in SUBSET Nat : secrets = ErasureIds(r) BY ErasureIdsType
<1>2. g = [r EXCEPT !.secrets = secrets] BY <1>1 DEF Unopenable, ErasureIds
<1> QED BY <1>1, <1>2 DEF ChainRows, SameBut

LEMMA EmptiedRows ==
    ASSUME NEW f \in ChainRows, NEW g, g = Emptied(f)
    PROVE  g \in ChainRows /\ SameBut(g, f, {"secrets", "sigs"}) /\ g.secrets = {} /\ g.sigs = {}
<1>1. PICK none \in SUBSET Nat : none = {} OBVIOUS
<1>2. g = [f EXCEPT !.secrets = none, !.sigs = none] BY <1>1 DEF Emptied
<1> QED BY <1>1, <1>2 DEF ChainRows, SameBut

LEMMA NoSourcesRows ==
    ASSUME NEW f \in ChainRows, NEW g, g = NoSources(f)
    PROVE  g \in ChainRows /\ SameBut(g, f, {"sources"}) /\ \A s \in Sources : g.sources[s] = 0
<1>1. PICK src \in [Sources -> Nat] : src = [s \in Sources |-> 0] OBVIOUS
<1>2. g = [f EXCEPT !.sources = src] BY <1>1 DEF NoSources
<1>3. g \in ChainRows /\ SameBut(g, f, {"sources"}) /\ g.sources = src BY <1>1, <1>2 DEF ChainRows, SameBut
<1> QED BY <1>1, <1>3

LEMMA IndexRows ==
    ASSUME NEW f \in ChainRows, NEW x \in IndexStates, NEW g, g = [f EXCEPT !.index = x]
    PROVE  g \in ChainRows /\ SameBut(g, f, {"index"}) /\ g.index = x
BY DEF ChainRows, SameBut

LEMMA NoLeftoversRows ==
    ASSUME NEW f \in ChainRows, NEW g, g = NoLeftovers(f)
    PROVE  g \in ChainRows /\ SameBut(g, f, {"secrets"}) /\ g.secrets = f.secrets \cap Ids(f)
<1>1. PICK secrets \in SUBSET Nat : secrets = f.secrets \cap Ids(f) BY DEF ChainRows
<1>2. g = [f EXCEPT !.secrets = secrets] BY <1>1 DEF NoLeftovers
<1> QED BY <1>1, <1>2 DEF ChainRows, SameBut

LEMMA RepairedRows ==
    ASSUME NEW f \in ChainRows, NEW g, g = Repaired(f)
    PROVE  /\ g \in ChainRows /\ SameBut(g, f, {"secrets", "sigs", "sources"})
           /\ g.secrets = f.secrets \cap Ids(f) /\ g.sigs = f.sigs \cap Ids(f)
           /\ \A s \in Sources : g.sources[s] = IF f.sources[s] \in Ids(f) THEN f.sources[s] ELSE 0
<1>1. PICK b : b = NoLeftovers(f) OBVIOUS
<1>2. b \in ChainRows /\ SameBut(b, f, {"secrets"}) /\ b.secrets = f.secrets \cap Ids(f) BY <1>1, NoLeftoversRows
<1>3. PICK src \in [Sources -> Nat] : src = [s \in Sources |-> IF f.sources[s] \in Ids(f) THEN f.sources[s] ELSE 0]
  <2>1. \A s \in Sources : f.sources[s] \in Nat BY DEF ChainRows
  <2>2. [s \in Sources |-> IF f.sources[s] \in Ids(f) THEN f.sources[s] ELSE 0] \in [Sources -> Nat] BY <2>1
  <2> QED BY <2>2
<1>4. PICK sigs \in SUBSET Nat : sigs = f.sigs \cap Ids(f) BY DEF ChainRows
<1>5. b.sources = f.sources /\ b.sigs = f.sigs BY <1>2 DEF SameBut
<1>6. g = [b EXCEPT !.sigs = sigs, !.sources = src] BY <1>1, <1>3, <1>4, <1>5 DEF Repaired
<1>7. g \in ChainRows /\ SameBut(g, b, {"sigs", "sources"}) /\ g.sigs = sigs /\ g.sources = src
  BY <1>2, <1>3, <1>4, <1>6 DEF ChainRows, SameBut
<1> QED BY <1>2, <1>3, <1>4, <1>7 DEF SameBut

LEMMA AnchorRows ==
    ASSUME NEW f \in ChainRows, NEW a \in Seq(Entries), NEW g, g = [f EXCEPT !.anchors = Append(@, a)]
    PROVE  /\ g \in ChainRows /\ SameBut(g, f, {"anchors"}) /\ Len(g.anchors) = Len(f.anchors) + 1
           /\ DOMAIN g.anchors = 1..(Len(f.anchors) + 1) /\ g.anchors[Len(f.anchors) + 1] = a
           /\ \A n \in 1..Len(f.anchors) : g.anchors[n] = f.anchors[n]
<1>1. f.anchors \in Seq(Seq(Entries)) BY DEF ChainRows
<1>2. PICK as \in Seq(Seq(Entries)) : as = Append(f.anchors, a)
  <2>1. Append(f.anchors, a) \in Seq(Seq(Entries)) BY <1>1
  <2> QED BY <2>1
<1>3. /\ Len(as) = Len(f.anchors) + 1 /\ DOMAIN as = 1..(Len(f.anchors) + 1) /\ as[Len(f.anchors) + 1] = a
      /\ \A n \in 1..Len(f.anchors) : as[n] = f.anchors[n]
  BY <1>1, <1>2
<1>4. g = [f EXCEPT !.anchors = as] BY <1>2
<1>5. g \in ChainRows /\ SameBut(g, f, {"anchors"}) /\ g.anchors = as BY <1>2, <1>4 DEF ChainRows, SameBut
<1> QED BY <1>3, <1>5

LEMMA SealedRows ==
    ASSUME NEW f \in ChainRows, f.anchors # <<>>, NEW g, g = [f EXCEPT !.anchors[Len(f.anchors)] = f.log]
    PROVE  /\ g \in ChainRows /\ SameBut(g, f, {"anchors"}) /\ Len(g.anchors) = Len(f.anchors) /\ g.anchors # <<>>
           /\ DOMAIN g.anchors = 1..Len(f.anchors) /\ g.anchors[Len(f.anchors)] = f.log
           /\ \A n \in 1..Len(f.anchors) : n # Len(f.anchors) => g.anchors[n] = f.anchors[n]
<1>1. f.anchors \in Seq(Seq(Entries)) /\ f.log \in Seq(Entries) BY DEF ChainRows
<1>2. PICK k \in 1..Len(f.anchors) : k = Len(f.anchors)
  <2>1. Len(f.anchors) \in 1..Len(f.anchors) BY <1>1
  <2> QED BY <2>1
<1>3. PICK as : as = [f.anchors EXCEPT ![k] = f.log] OBVIOUS
<1>4. as \in Seq(Seq(Entries)) /\ Len(as) = Len(f.anchors) /\ DOMAIN as = 1..Len(f.anchors) BY <1>1, <1>2, <1>3
<1>5. as[k] = f.log /\ \A n \in 1..Len(f.anchors) : n # k => as[n] = f.anchors[n] BY <1>1, <1>2, <1>3
<1>6. as # <<>>
  <2>1. Len(as) # 0 BY <1>1, <1>2, <1>4
  <2>2. \A y : y = <<>> => Len(y) = 0 OBVIOUS
  <2> QED BY <2>1, <2>2
<1>7. g = [f EXCEPT !.anchors = as] BY <1>2, <1>3
<1>8. g \in ChainRows /\ SameBut(g, f, {"anchors"}) /\ g.anchors = as BY <1>4, <1>7 DEF ChainRows, SameBut
<1> QED BY <1>2, <1>4, <1>5, <1>6, <1>8

-----------------------------------------------------------------------------
(* Every transaction keeps what is known of the chain *)

\* An entry with the next id at the end of a log.
LEMMA Grown ==
    ASSUME NEW f \in ChainRows, Below(f), Own(f), NEW x \in Entries, x.id = f.next, Held(f) \/ x.type = "event",
           NEW g \in ChainRows, After(g.log, f.log, x)
    PROVE  /\ Held(g) /\ Ids(g) = Ids(f) \cup {f.next} /\ Own(g) /\ f.next \notin Ids(f)
           /\ Ends(g.log) <=> x.type = "erasure"
           /\ g.anchors = f.anchors /\ ~SeriesFails(f) => ~SeriesFails(g)
           /\ DOMAIN g.log = DOMAIN f.log \cup {Len(g.log)} /\ g.log[Len(g.log)] = x /\ Len(g.log) = Len(f.log) + 1
           /\ \A i \in DOMAIN f.log : g.log[i] = f.log[i] /\ i < Len(g.log)
<1>1. PICK n \in Nat : n = Len(f.log) /\ DOMAIN f.log = 1..n /\ (Held(f) <=> n > 0) BY IdsOf
<1>2. /\ Len(g.log) = n + 1 /\ DOMAIN g.log = 1..(n + 1) /\ g.log[n + 1] = x /\ \A i \in 1..n : g.log[i] = f.log[i]
  BY <1>1 DEF After
<1>3. 1..(n + 1) = (1..n) \cup {n + 1} BY <1>1
<1>4. Held(g) BY <1>2, IdsOf
<1>5. Ids(g) = Ids(f) \cup {f.next} BY <1>1, <1>2, <1>3 DEF Ids
<1>6. \A i \in 1..n : f.log[i].id # f.next
  <2>1. f.next \in Nat BY DEF ChainRows
  <2>2. \A i \in 1..n : f.log[i].id \in Nat /\ f.log[i].id < f.next BY <1>1, IdsOf DEF Below
  <2> QED BY <2>1, <2>2
<1>7. f.next \notin Ids(f) BY <1>1, <1>6 DEF Ids
<1>8. Own(g)
  <2>1. \A i, j \in 1..(n + 1) : g.log[i].id = g.log[j].id => i = j
    <3>1. \A i, j \in 1..n : f.log[i].id = f.log[j].id => i = j BY <1>1 DEF Own
    <3>2. \A i \in 1..n : g.log[i].id # g.log[n + 1].id BY <1>2, <1>6
    <3>3. \A i \in 1..n : g.log[i] = f.log[i] BY <1>2
    <3> QED BY <1>3, <3>1, <3>2, <3>3
  <2>2. g.log[1].type = "event" BY <1>1, <1>2 DEF Own
  <2> QED BY <1>2, <2>1, <2>2 DEF Own
<1>9. Ends(g.log) <=> x.type = "erasure" BY <1>1, <1>2 DEF Ends, Entries
<1>10. ASSUME g.anchors = f.anchors, ~SeriesFails(f) PROVE ~SeriesFails(g)
  <2> SUFFICES ASSUME NEW m \in DOMAIN g.anchors PROVE g.anchors[m] # Torn /\ IsPrefix(g.anchors[m], g.log)
    BY DEF SeriesFails
  <2>1. f.anchors[m] # Torn /\ IsPrefix(f.anchors[m], f.log) BY <1>10 DEF SeriesFails
  <2>2. f.anchors[m] \in Seq(Entries) /\ f.log \in Seq(Entries) BY <1>10 DEF ChainRows
  <2> QED BY <1>10, <2>1, <2>2, PrefixAfter
<1> QED BY <1>1, <1>2, <1>3, <1>4, <1>5, <1>7, <1>8, <1>9, <1>10

\* A usable chain that was erased had its index row put back.
LEMMA UsableIs ==
    ASSUME NEW f \in ChainRows, NEW h, NEW e, ChainInv(f, h, e),
           (f.index = "live" /\ Erasures(f) = {}) \/ (f = NoChain /\ e = {})
    PROVE  /\ ~Ends(f.log)
           /\ e # {} => "relink" \in h /\ Undone(h)
           /\ h \cap Lasting = {} => "relink" \notin h
           /\ "cut" \in h => f.index # "absent" \/ f.next > 1 \/ h \cap {"unbind", "reverse"} # {}
           /\ f.index \in {"live", "absent"}
<1>1. ~Ends(f.log)
  <2>1. CASE Erasures(f) = {}
    <3>1. PICK n \in Nat : n = Len(f.log) /\ DOMAIN f.log = 1..n BY IdsOf
    <3> QED BY <2>1, <3>1 DEF Erasures, Ends
  <2>2. CASE f = NoChain
    <3>1. f.log = <<>> BY <2>2 DEF NoChain
    <3> QED BY <3>1, IdsOf DEF Ends, Held
  <2> QED BY <2>1, <2>2
<1>2. e # {} => "relink" \in h /\ Undone(h) BY <1>1 DEF ChainInv, Hidden
<1>3. h \cap Lasting = {} => "relink" \notin h BY <1>1 DEF ChainInv, Sound
<1>4. f.index \in {"live", "absent"} BY DEF NoChain
<1> QED BY <1>1, <1>2, <1>3, <1>4 DEF ChainInv, Marked

LEMMA CommitKeeps ==
    ASSUME NEW f, NEW h, NEW e, ChainInv(f, h, e),
           (f.index = "live" /\ Erasures(f) = {}) \/ (f = NoChain /\ e = {}),
           NEW s \in Sources, f.sources[s] \notin Ids(f), NEW g, g = Committed(f, s)
    PROVE  ChainInv(g, h, e)
<1>1. f \in ChainRows /\ Below(f) /\ Own(f) BY DEF ChainInv
<1>2. /\ g \in ChainRows /\ SameBut(g, f, {"log", "index", "secrets", "sigs", "sources", "next"})
      /\ g.index = "live" /\ g.secrets = f.secrets \cup {f.next} /\ g.sigs = f.sigs \cup {f.next} /\ g.next = f.next + 1
      /\ g.sources = [f.sources EXCEPT ![s] = f.next] /\ After(g.log, f.log, Event(f.next))
  BY <1>1, CommittedRows
<1>3. Event(f.next) \in Entries /\ Event(f.next).id = f.next /\ Event(f.next).type = "event" BY <1>1, EntryTypes DEF Event
<1>4. /\ Held(g) /\ Ids(g) = Ids(f) \cup {f.next} /\ Own(g) /\ f.next \notin Ids(f) /\ ~Ends(g.log)
      /\ g.anchors = f.anchors /\ ~SeriesFails(f) => ~SeriesFails(g)
      /\ DOMAIN g.log = DOMAIN f.log \cup {Len(g.log)} /\ g.log[Len(g.log)] = Event(f.next)
      /\ \A i \in DOMAIN f.log : g.log[i] = f.log[i]
  BY <1>1, <1>2, <1>3, Grown
<1>5. g.anchors = f.anchors /\ g.forward = f.forward BY <1>2 DEF SameBut
<1>6. f.next \in Nat \ {0} BY <1>1 DEF ChainRows
<1>7. \A t \in Sources : f.sources[t] \in Nat /\ g.sources[t] = IF t = s THEN f.next ELSE f.sources[t] BY <1>1, <1>2 DEF ChainRows
<1>8. /\ ~Ends(f.log)
      /\ e # {} => "relink" \in h /\ Undone(h)
      /\ h \cap Lasting = {} => "relink" \notin h
      /\ f.index \in {"live", "absent"}
  BY <1>1, UsableIs
<1>9. Below(g)
  <2>1. \A i \in DOMAIN g.log : g.log[i].id < g.next
    <3>1. \A i \in DOMAIN f.log : f.log[i].id \in Nat /\ f.log[i].id < f.next BY <1>1, IdsOf DEF Below
    <3> QED BY <1>2, <1>3, <1>4, <1>6, <3>1
  <2>2. f.secrets \subseteq Nat /\ f.sigs \subseteq Nat BY <1>1 DEF ChainRows
  <2>3. \A x \in g.secrets : 0 < x /\ x < g.next BY <1>1, <1>2, <1>6, <2>2 DEF Below
  <2>4. \A x \in g.sigs : 0 < x /\ x < g.next BY <1>1, <1>2, <1>6, <2>2 DEF Below
  <2>5. \A t \in Sources : g.sources[t] < g.next BY <1>1, <1>2, <1>6, <1>7 DEF Below
  <2> QED BY <2>1, <2>3, <2>4, <2>5 DEF Below
<1>10. Checkpointed(g, h) BY <1>4, <1>5 DEF ChainInv, Checkpointed
<1>11. Marked(g, h, e) BY <1>2, <1>4, <1>5 DEF ChainInv, Marked
<1>12. Unsealed(g, e)
  <2> SUFFICES ASSUME e = {} PROVE Unsealed(g, e) BY DEF Unsealed
  <2>1. \A i \in DOMAIN f.log : f.log[i].type = "erasure" => f.log[i].id \notin f.sigs BY DEF ChainInv, Unsealed
  <2>2. \A i \in DOMAIN f.log : f.log[i].id # f.next BY <1>4 DEF Ids
  <2>3. \A i \in DOMAIN g.log : g.log[i].type = "erasure" => g.log[i].id \notin g.sigs BY <1>2, <1>3, <1>4, <2>1, <2>2
  <2> QED BY <1>5, <2>3 DEF ChainInv, Unsealed
<1>13. Hidden(g, h, e) BY <1>8 DEF Hidden
<1>14. Sound(g, h)
  <2> SUFFICES ASSUME h \cap Lasting = {} PROVE Sound(g, h) BY DEF Sound
  <2>1. \A i \in DOMAIN g.log : g.log[i].type # "erasure"
    <3>1. \A i \in DOMAIN f.log : f.log[i].type = "erasure" => i = Len(f.log) /\ i > 1 BY DEF ChainInv, Sound
    <3>2. \A i \in DOMAIN f.log : f.log[i].type # "erasure" BY <1>8, <3>1 DEF Ends
    <3> QED BY <1>3, <1>4, <3>2
  <2>2. \A i \in DOMAIN f.log : f.log[i].id \in f.secrets BY <1>8 DEF ChainInv, Sound, Stored
  <2>3. Stored(g, h) BY <1>2, <1>3, <1>4, <2>2 DEF Stored
  <2>4. g.secrets \subseteq Ids(g) \/ "cut" \in h \/ "stopped" \in h BY <1>2, <1>4 DEF ChainInv, Sound
  <2>5. Ids(g) \subseteq g.sigs BY <1>2, <1>4 DEF ChainInv, Sound
  <2>6. \A t \in Sources : g.sources[t] = 0 \/ g.sources[t] \in Ids(g) \/ "cut" \in h BY <1>4, <1>7 DEF ChainInv, Sound
  <2>7. \A t, u \in Sources : g.sources[t] = g.sources[u] => t = u \/ g.sources[t] = 0
    <3>1. \A t \in Sources : f.sources[t] # f.next BY <1>1, <1>6, <1>7 DEF Below
    <3> QED BY <1>7, <3>1 DEF ChainInv, Sound
  <2> QED BY <1>2, <1>4, <1>8, <2>1, <2>3, <2>4, <2>5, <2>6, <2>7 DEF Sound
<1> QED BY <1>2, <1>4, <1>9, <1>10, <1>11, <1>12, <1>13, <1>14 DEF ChainInv

\* What only the entries decide.
LEMMA SameLogIs ==
    ASSUME NEW f, NEW g, g.log = f.log
    PROVE  /\ Held(g) <=> Held(f)
           /\ Ids(g) = Ids(f) /\ (Own(f) => Own(g)) /\ (Ends(g.log) <=> Ends(f.log))
           /\ g.anchors = f.anchors => (SeriesFails(g) <=> SeriesFails(f))
BY DEF Held, Ids, Own, SeriesFails

\* A commit that stopped before its entry.
CutOf(g, f, s) ==
    /\ g \in ChainRows /\ g.log = f.log /\ g.anchors = f.anchors /\ g.forward = f.forward /\ g.index = "live"
    /\ g.next \in {f.next, f.next + 1}
    /\ f.secrets \subseteq g.secrets /\ f.sigs \subseteq g.sigs
    /\ g.secrets \cup g.sigs \subseteq f.secrets \cup f.sigs \cup {f.next}
    /\ g.secrets \subseteq f.secrets \cup {f.next} /\ g.sigs \subseteq f.sigs \cup {f.next}
    /\ \A t \in Sources : t # s => g.sources[t] = f.sources[t]
    /\ g.sources[s] \in {f.sources[s], f.next}
    /\ g.next = f.next => g.secrets = f.secrets /\ g.sigs = f.sigs /\ g.sources = f.sources

LEMMA CutRows ==
    ASSUME NEW f \in ChainRows, NEW s \in Sources, NEW g \in {Bind(f), PutContent(f), PutSigs(f), PutSource(f, s)}
    PROVE  CutOf(g, f, s)
<1>1. f.next \in Nat BY DEF ChainRows
<1>2. CASE g = Bind(f) BY <1>2, BindRows DEF CutOf, SameBut
<1>3. CASE g = PutContent(f)
  <2>1. /\ g \in ChainRows /\ SameBut(g, f, {"index", "secrets", "next"})
        /\ g.index = "live" /\ g.secrets = f.secrets \cup {f.next} /\ g.next = f.next + 1
    BY <1>3, ContentRows
  <2> QED BY <1>1, <2>1 DEF CutOf, SameBut
<1>4. CASE g = PutSigs(f)
  <2>1. /\ g \in ChainRows /\ SameBut(g, f, {"index", "secrets", "sigs", "next"})
        /\ g.index = "live" /\ g.secrets = f.secrets \cup {f.next} /\ g.sigs = f.sigs \cup {f.next} /\ g.next = f.next + 1
    BY <1>4, SigRows
  <2> QED BY <1>1, <2>1 DEF CutOf, SameBut
<1>5. CASE g = PutSource(f, s)
  <2>1. /\ g \in ChainRows /\ SameBut(g, f, {"index", "secrets", "sigs", "sources", "next"})
        /\ g.index = "live" /\ g.secrets = f.secrets \cup {f.next} /\ g.sigs = f.sigs \cup {f.next} /\ g.next = f.next + 1
        /\ g.sources = [f.sources EXCEPT ![s] = f.next]
    BY <1>5, SourceRows
  <2>2. g.sources[s] = f.next /\ \A t \in Sources : t # s => g.sources[t] = f.sources[t] BY <2>1 DEF ChainRows
  <2> QED BY <1>1, <2>1, <2>2 DEF CutOf, SameBut
<1> QED BY <1>2, <1>3, <1>4, <1>5

LEMMA CutKeeps ==
    ASSUME NEW f, NEW h, NEW e, ChainInv(f, h, e),
           (f.index = "live" /\ Erasures(f) = {}) \/ (f = NoChain /\ e = {}),
           NEW s \in Sources, NEW g \in {Bind(f), PutContent(f), PutSigs(f), PutSource(f, s)}
    PROVE  ChainInv(g, h \cup {"cut"}, e)
<1>1. f \in ChainRows /\ Below(f) /\ Own(f) BY DEF ChainInv
<1>2. CutOf(g, f, s) BY <1>1, CutRows
<1>3. /\ Held(g) <=> Held(f)
      /\ Ids(g) = Ids(f) /\ Own(g) /\ (Ends(g.log) <=> Ends(f.log)) /\ (SeriesFails(g) <=> SeriesFails(f))
  BY <1>1, <1>2, SameLogIs DEF CutOf
<1>4. /\ ~Ends(f.log)
      /\ e # {} => "relink" \in h /\ Undone(h)
      /\ h \cap Lasting = {} => "relink" \notin h
      /\ f.index \in {"live", "absent"}
  BY <1>1, UsableIs
<1>5. f.next \in Nat \ {0} /\ g.next \in Nat \ {0} /\ f.next <= g.next BY <1>1, <1>2 DEF ChainRows, CutOf
<1>6. \A t \in Sources : f.sources[t] \in Nat /\ g.sources[t] \in Nat BY <1>1, <1>2 DEF ChainRows, CutOf
<1>7. \A i \in DOMAIN f.log : f.log[i].id \in Nat /\ f.log[i].id < f.next BY <1>1, IdsOf DEF Below
<1>8. Below(g)
  <2>1. \A i \in DOMAIN g.log : g.log[i].id < g.next BY <1>2, <1>5, <1>7 DEF CutOf
  <2>2. f.secrets \subseteq Nat /\ f.sigs \subseteq Nat BY <1>1 DEF ChainRows
  <2>3. \A x \in g.secrets : 0 < x /\ x < g.next BY <1>1, <1>2, <1>5, <2>2 DEF Below, CutOf
  <2>4. \A x \in g.sigs : 0 < x /\ x < g.next BY <1>1, <1>2, <1>5, <2>2 DEF Below, CutOf
  <2>5. \A t \in Sources : g.sources[t] < g.next
    <3> SUFFICES ASSUME NEW t \in Sources PROVE g.sources[t] < g.next OBVIOUS
    <3>1. f.sources[t] < f.next BY <1>1 DEF Below
    <3>2. g.sources[t] \in {f.sources[t], f.next} BY <1>2 DEF CutOf
    <3>3. g.next = f.next => g.sources[t] = f.sources[t] BY <1>2 DEF CutOf
    <3>4. g.next \in {f.next, f.next + 1} BY <1>2 DEF CutOf
    <3> QED BY <1>5, <1>6, <3>1, <3>2, <3>3, <3>4
  <2> QED BY <2>1, <2>3, <2>4, <2>5 DEF Below
<1>9. Checkpointed(g, h \cup {"cut"}) BY <1>2, <1>3 DEF ChainInv, Checkpointed, CutOf, Lost
<1>10. Marked(g, h \cup {"cut"}, e) BY <1>2 DEF ChainInv, Marked, CutOf
<1>11. Unsealed(g, e)
  <2> SUFFICES ASSUME e = {} PROVE Unsealed(g, e) BY DEF Unsealed
  <2>1. \A i \in DOMAIN f.log : f.log[i].type = "erasure" => f.log[i].id \notin f.sigs BY DEF ChainInv, Unsealed
  <2>2. \A i \in DOMAIN f.log : f.log[i].id # f.next BY <1>5, <1>7
  <2>3. \A i \in DOMAIN g.log : g.log[i].type = "erasure" => g.log[i].id \notin g.sigs BY <1>2, <2>1, <2>2 DEF CutOf
  <2>4. g.anchors = f.anchors BY <1>2 DEF CutOf
  <2> QED BY <2>3, <2>4 DEF ChainInv, Unsealed
<1>12. Hidden(g, h \cup {"cut"}, e) BY <1>4 DEF Hidden, Undone
<1>13. Sound(g, h \cup {"cut"})
  <2> SUFFICES ASSUME (h \cup {"cut"}) \cap Lasting = {} PROVE Sound(g, h \cup {"cut"}) BY DEF Sound
  <2>0. h \cap Lasting = {} OBVIOUS
  <2>1. \A i \in DOMAIN g.log : g.log[i].type = "erasure" => i = Len(g.log) /\ i > 1 BY <1>2, <2>0 DEF ChainInv, Sound, CutOf
  <2>2. \A i \in DOMAIN f.log : f.log[i].id \in f.secrets BY <1>4, <2>0 DEF ChainInv, Sound, Stored
  <2>3. Stored(g, h \cup {"cut"}) BY <1>2, <1>3, <1>4, <2>2 DEF Stored, CutOf
  <2>4. Ids(g) \subseteq g.sigs BY <1>2, <1>3, <2>0 DEF ChainInv, Sound, CutOf
  <2>5. \A t, u \in Sources : g.sources[t] = g.sources[u] => t = u \/ g.sources[t] = 0
    <3>1. \A t \in Sources : f.sources[t] # f.next BY <1>1, <1>5, <1>6 DEF Below
    <3>2. \A t, u \in Sources : f.sources[t] = f.sources[u] => t = u \/ f.sources[t] = 0 BY <2>0 DEF ChainInv, Sound
    <3> QED BY <1>2, <3>1, <3>2 DEF CutOf
  <2>6. g.index = "live" BY <1>2 DEF CutOf
  <2> QED BY <1>3, <1>4, <2>0, <2>1, <2>3, <2>4, <2>5, <2>6 DEF Sound
<1> QED BY <1>2, <1>3, <1>8, <1>9, <1>10, <1>11, <1>12, <1>13 DEF ChainInv, CutOf

\* The erasure is the last entry.
LEMMA RecordedIs ==
    ASSUME NEW f \in ChainRows, Below(f), Own(f), Held(f), NEW r, r = Recorded(f)
    PROVE  /\ r \in ChainRows /\ Below(r) /\ Own(r) /\ Held(r) /\ Ends(r.log)
           /\ SameBut(r, f, {"log", "secrets", "sigs", "next"})
           /\ ~SeriesFails(f) => ~SeriesFails(r)
           /\ Ids(f) \subseteq Ids(r) /\ (Ids(f) \subseteq f.sigs => Ids(r) \subseteq r.sigs)
           /\ r.log[Len(r.log)].id \in r.secrets \/ Ends(f.log)
           /\ Ends(f.log) => r = f
           /\ (\A i \in DOMAIN f.log : f.log[i].type = "erasure" => i = Len(f.log) /\ i > 1) =>
                  \A i \in DOMAIN r.log : r.log[i].type = "erasure" => i = Len(r.log) /\ i > 1
<1>1. CASE Ends(f.log)
  <2>1. r = f BY <1>1, EndsErasedIs DEF Recorded
  <2> QED BY <1>1, <2>1 DEF SameBut
<1>2. CASE ~Ends(f.log)
  <2>1. /\ r \in ChainRows /\ SameBut(r, f, {"log", "secrets", "sigs", "next"})
        /\ r.secrets = f.secrets \cup {f.next} /\ r.sigs = f.sigs \cup {f.next} /\ r.next = f.next + 1
        /\ After(r.log, f.log, Erasure(f.next))
    BY <1>2, RecordedRows
  <2>2. Erasure(f.next) \in Entries /\ Erasure(f.next).id = f.next /\ Erasure(f.next).type = "erasure" BY EntryTypes DEF Erasure
  <2>3. /\ Held(r) /\ Ids(r) = Ids(f) \cup {f.next} /\ Own(r) /\ Ends(r.log)
        /\ r.anchors = f.anchors /\ ~SeriesFails(f) => ~SeriesFails(r)
        /\ DOMAIN r.log = DOMAIN f.log \cup {Len(r.log)} /\ r.log[Len(r.log)] = Erasure(f.next)
        /\ \A i \in DOMAIN f.log : r.log[i] = f.log[i] /\ i < Len(r.log)
    BY <2>1, <2>2, Grown
  <2>4. f.next \in Nat \ {0} BY DEF ChainRows
  <2>5. Below(r)
    <3>1. \A i \in DOMAIN f.log : f.log[i].id \in Nat /\ f.log[i].id < f.next BY IdsOf DEF Below
    <3>2. \A i \in DOMAIN r.log : r.log[i].id < r.next BY <2>1, <2>2, <2>3, <2>4, <3>1
    <3>3. f.secrets \subseteq Nat /\ f.sigs \subseteq Nat BY DEF ChainRows
    <3>4. \A x \in r.secrets : 0 < x /\ x < r.next BY <2>1, <2>4, <3>3 DEF Below
    <3>5. \A x \in r.sigs : 0 < x /\ x < r.next BY <2>1, <2>4, <3>3 DEF Below
    <3>6. \A t \in Sources : f.sources[t] \in Nat BY DEF ChainRows
    <3>7. \A t \in Sources : r.sources[t] < r.next BY <2>1, <2>4, <3>6 DEF Below, SameBut
    <3> QED BY <3>2, <3>4, <3>5, <3>7 DEF Below
  <2>6. r.log[Len(r.log)].id \in r.secrets BY <2>1, <2>2, <2>3
  <2>7. ASSUME \A i \in DOMAIN f.log : f.log[i].type = "erasure" => i = Len(f.log) /\ i > 1
        PROVE  \A i \in DOMAIN r.log : r.log[i].type = "erasure" => i = Len(r.log) /\ i > 1
    <3>1. \A i \in DOMAIN f.log : f.log[i].type # "erasure" BY <1>2, <2>7 DEF Ends
    <3>2. Len(r.log) > 1 BY <2>3 DEF Ends
    <3> QED BY <2>3, <3>1, <3>2
  <2> QED BY <1>2, <2>1, <2>3, <2>5, <2>6, <2>7 DEF SameBut
<1> QED BY <1>1, <1>2

\* The content of an erased chain is its erasures' records.
LEMMA ErasureIdsIs ==
    ASSUME NEW r \in ChainRows, Below(r), Own(r), Ends(r.log)
    PROVE  /\ ErasureIds(r) \subseteq Ids(r) /\ r.log[Len(r.log)].id \in ErasureIds(r)
           /\ \A x \in ErasureIds(r) : 0 < x /\ x < r.next
           /\ \A i \in DOMAIN r.log : r.log[i].id \in ErasureIds(r) => i \in Erasures(r)
<1>1. DOMAIN r.log = 1..Len(r.log) /\ Len(r.log) \in Nat BY IdsOf
<1>2. Len(r.log) \in Erasures(r) BY <1>1 DEF Ends, Erasures
<1>3. ErasureIds(r) \subseteq Ids(r) BY DEF ErasureIds, Ids, Erasures
<1>4. r.log[Len(r.log)].id \in ErasureIds(r) BY <1>2 DEF ErasureIds
<1>5. \A x \in Ids(r) : x \in Nat /\ 0 < x /\ x < r.next
  <2>1. \A i \in DOMAIN r.log : r.log[i].id \in Nat \ {0} /\ r.log[i].id < r.next BY IdsOf DEF Below
  <2>2. \A x \in Nat \ {0} : 0 < x OBVIOUS
  <2> QED BY <2>1, <2>2 DEF Ids
<1>6. \A i \in DOMAIN r.log : r.log[i].id \in ErasureIds(r) => i \in Erasures(r)
  <2> SUFFICES ASSUME NEW i \in DOMAIN r.log, r.log[i].id \in ErasureIds(r) PROVE i \in Erasures(r) OBVIOUS
  <2>1. PICK j \in Erasures(r) : r.log[i].id = r.log[j].id BY DEF ErasureIds
  <2>2. j \in DOMAIN r.log BY <2>1 DEF Erasures
  <2>3. i = j BY <2>1, <2>2 DEF Own
  <2> QED BY <2>1, <2>3
<1> QED BY <1>3, <1>4, <1>5, <1>6

\* The rows of an erased chain with entries, its index row apart.
LEMMA WipedHeld ==
    ASSUME NEW f \in ChainRows, Below(f), Own(f), Held(f), NEW g, g = Wiped(f) \/ g = Unopenable(f)
    PROVE  /\ g \in ChainRows /\ Below(g) /\ Own(g) /\ Held(g) /\ Ends(g.log) /\ NoContent(g)
           /\ SameBut(g, f, {"log", "secrets", "sigs", "sources", "next"})
           /\ ~SeriesFails(f) => ~SeriesFails(g)
           /\ Ids(f) \subseteq Ids(g) /\ (Ids(f) \subseteq f.sigs => Ids(g) \subseteq g.sigs)
           /\ \A s \in Sources : g.sources[s] \in {0, f.sources[s]}
           /\ g = Wiped(f) => \A s \in Sources : g.sources[s] = 0
           /\ g.secrets \subseteq Ids(g)
           /\ (\A i \in DOMAIN f.log : f.log[i].type = "erasure" => i = Len(f.log) /\ i > 1) =>
                  /\ \A i \in DOMAIN g.log : g.log[i].type = "erasure" => i = Len(g.log) /\ i > 1
                  /\ Stored(g, {})
<1>1. PICK r : r = Recorded(f) OBVIOUS
<1>2. /\ r \in ChainRows /\ Below(r) /\ Own(r) /\ Held(r) /\ Ends(r.log)
      /\ SameBut(r, f, {"log", "secrets", "sigs", "next"})
      /\ ~SeriesFails(f) => ~SeriesFails(r)
      /\ Ids(f) \subseteq Ids(r) /\ (Ids(f) \subseteq f.sigs => Ids(r) \subseteq r.sigs)
      /\ (\A i \in DOMAIN f.log : f.log[i].type = "erasure" => i = Len(f.log) /\ i > 1) =>
             \A i \in DOMAIN r.log : r.log[i].type = "erasure" => i = Len(r.log) /\ i > 1
  BY <1>1, RecordedIs
<1>3. PICK u : u = Unopenable(f) OBVIOUS
<1>4. u \in ChainRows /\ SameBut(u, r, {"secrets"}) /\ u.secrets = ErasureIds(r) BY <1>1, <1>2, <1>3, UnopenableRows
<1>5. /\ g \in ChainRows /\ SameBut(g, u, {"sources"}) /\ (\A s \in Sources : g.sources[s] \in {0, u.sources[s]})
      /\ g = Wiped(f) => \A s \in Sources : g.sources[s] = 0
  <2>1. CASE g = Wiped(f) 
    <3>1. g = NoSources(u) BY <1>3, <2>1 DEF Wiped
    <3> QED BY <1>4, <3>1, NoSourcesRows
  <2>2. CASE g = u /\ g # Wiped(f) BY <1>4, <2>2 DEF SameBut
  <2> QED BY <1>3, <2>1, <2>2
<1>6. g.log = r.log /\ g.secrets = ErasureIds(r) /\ g.sigs = r.sigs /\ g.next = r.next /\ g.anchors = r.anchors
  BY <1>4, <1>5 DEF SameBut
<1>7. u.sources = r.sources /\ r.sources = f.sources BY <1>2, <1>4 DEF SameBut
<1>8. SameBut(g, f, {"log", "secrets", "sigs", "sources", "next"}) BY <1>2, <1>4, <1>5 DEF SameBut
<1>9. /\ ErasureIds(r) \subseteq Ids(r) /\ r.log[Len(r.log)].id \in ErasureIds(r)
      /\ \A x \in ErasureIds(r) : 0 < x /\ x < r.next
      /\ \A i \in DOMAIN r.log : r.log[i].id \in ErasureIds(r) => i \in Erasures(r)
  BY <1>2, ErasureIdsIs
<1>10. Held(g) /\ Ids(g) = Ids(r) /\ Own(g) /\ Ends(g.log) /\ (SeriesFails(g) <=> SeriesFails(r)) BY <1>2, <1>6, SameLogIs
<1>11. Below(g)
  <2>1. \A s \in Sources : g.sources[s] < g.next
    <3>1. \A s \in Sources : r.sources[s] < r.next /\ 0 < r.next BY <1>2 DEF Below, ChainRows
    <3> QED BY <1>5, <1>6, <1>7, <3>1
  <2> QED BY <1>2, <1>6, <1>9, <2>1 DEF Below
<1>12. NoContent(g) BY <1>6, <1>9 DEF NoContent, Erasures
<1>13. ASSUME \A i \in DOMAIN f.log : f.log[i].type = "erasure" => i = Len(f.log) /\ i > 1
       PROVE  /\ \A i \in DOMAIN g.log : g.log[i].type = "erasure" => i = Len(g.log) /\ i > 1
              /\ Stored(g, {})
  <2>1. \A i \in DOMAIN r.log : r.log[i].type = "erasure" => i = Len(r.log) /\ i > 1 BY <1>2, <1>13
  <2>2. \A i \in DOMAIN r.log : i < Len(r.log) => r.log[i].id \notin ErasureIds(r)
    <3>1. DOMAIN r.log = 1..Len(r.log) /\ Len(r.log) \in Nat BY <1>2, IdsOf
    <3>2. \A i \in Erasures(r) : i = Len(r.log) BY <2>1 DEF Erasures
    <3> QED BY <1>9, <3>1, <3>2
  <2> QED BY <1>6, <1>9, <1>10, <2>1, <2>2 DEF Stored
<1> QED BY <1>2, <1>5, <1>6, <1>7, <1>8, <1>9, <1>10, <1>11, <1>12, <1>13

\* The rows of an erased chain without entries.
LEMMA WipedEmpty ==
    ASSUME NEW f \in ChainRows, Below(f), Own(f), ~Held(f), NEW g, g = Wiped(f) \/ g = Emptied(f)
    PROVE  /\ g \in ChainRows /\ SameBut(g, f, {"secrets", "sigs", "sources"}) /\ g.secrets = {} /\ g.sigs = {}
           /\ \A s \in Sources : g.sources[s] \in {0, f.sources[s]}
           /\ g = Wiped(f) => Blank(g)
<1>1. PICK u : u = Emptied(f) OBVIOUS
<1>2. u \in ChainRows /\ SameBut(u, f, {"secrets", "sigs"}) /\ u.secrets = {} /\ u.sigs = {} BY <1>1, EmptiedRows
<1>3. CASE g = Wiped(f)
  <2>1. g = NoSources(u) BY <1>1, <1>3 DEF Wiped
  <2>2. g \in ChainRows /\ SameBut(g, u, {"sources"}) /\ \A s \in Sources : g.sources[s] = 0 BY <1>2, <2>1, NoSourcesRows
  <2> QED BY <1>2, <2>2 DEF SameBut, Blank
<1>4. CASE g = u /\ g # Wiped(f) BY <1>2, <1>4 DEF SameBut
<1> QED BY <1>1, <1>3, <1>4

\* An erasure that is done: the chain is not bound any more.
LEMMA GoneKeeps ==
    ASSUME NEW f, NEW h, NEW e, ChainInv(f, h, e), f.forward, NEW d, d # {}, NEW g, g = Gone(f)
    PROVE  ChainInv(g, h \ {"cut", "stopped", "relink"}, d)
<1> DEFINE k == h \ {"cut", "stopped", "relink"}
<1>1. f \in ChainRows /\ Below(f) /\ Own(f) BY DEF ChainInv
<1>2. PICK w : w = Wiped(f) OBVIOUS
<1>3. w \in ChainRows
  <2>1. CASE Held(f) BY <1>1, <1>2, <2>1, WipedHeld
  <2>2. CASE ~Held(f) BY <1>1, <1>2, <2>2, WipedEmpty
  <2> QED BY <2>1, <2>2
<1>4. g \in ChainRows /\ SameBut(g, w, {"index"}) /\ g.index = "absent"
  <2>1. g = [w EXCEPT !.index = "absent"] BY <1>2 DEF Gone
  <2> QED BY <1>3, <2>1, IndexRows DEF IndexStates
<1>5. g.log = w.log /\ g.secrets = w.secrets /\ g.sigs = w.sigs /\ g.sources = w.sources /\ g.forward = w.forward /\ g.anchors = w.anchors /\ g.next = w.next
  BY <1>4 DEF SameBut
<1>6. /\ Held(g) <=> Held(w)
      /\ Ids(g) = Ids(w) /\ (Own(w) => Own(g)) /\ (Ends(g.log) <=> Ends(w.log)) /\ (SeriesFails(g) <=> SeriesFails(w))
  BY <1>5, SameLogIs
<1>7. Lost(k) <=> Lost(h) BY DEF Lost
<1>8. Unsealed(g, d) BY DEF Unsealed
<1>9. CASE Held(f)
  <2>0. /\ Below(w) /\ Own(w) /\ Held(w) /\ Ends(w.log) /\ NoContent(w)
        /\ SameBut(w, f, {"log", "secrets", "sigs", "sources", "next"})
        /\ ~SeriesFails(f) => ~SeriesFails(w)
        /\ Ids(f) \subseteq f.sigs => Ids(w) \subseteq w.sigs
        /\ \A s \in Sources : w.sources[s] = 0
        /\ w.secrets \subseteq Ids(w)
        /\ (\A i \in DOMAIN f.log : f.log[i].type = "erasure" => i = Len(f.log) /\ i > 1) =>
               /\ \A i \in DOMAIN w.log : w.log[i].type = "erasure" => i = Len(w.log) /\ i > 1
               /\ Stored(w, {})
    BY <1>1, <1>2, <1>9, WipedHeld
  <2>1. /\ Below(w) /\ Own(w) /\ Held(w) /\ Ends(w.log) /\ NoContent(w)
        /\ w.anchors = f.anchors /\ w.forward = f.forward
        /\ ~SeriesFails(f) => ~SeriesFails(w)
        /\ Ids(f) \subseteq f.sigs => Ids(w) \subseteq w.sigs
        /\ \A s \in Sources : w.sources[s] = 0
        /\ w.secrets \subseteq Ids(w)
        /\ (\A i \in DOMAIN f.log : f.log[i].type = "erasure" => i = Len(f.log) /\ i > 1) =>
               /\ \A i \in DOMAIN w.log : w.log[i].type = "erasure" => i = Len(w.log) /\ i > 1
               /\ Stored(w, {})
    BY <2>0 DEF SameBut
  <2>2. Below(g) BY <1>5, <2>1 DEF Below
  <2>3. Checkpointed(g, k) BY <1>5, <1>6, <1>7, <2>1 DEF ChainInv, Checkpointed
  <2>4. Marked(g, k, d) BY <1>4, <1>5, <1>6, <2>1 DEF Marked
  <2>5. NoContent(g) BY <1>5, <2>1 DEF NoContent
  <2>6. Hidden(g, k, d) BY <1>4, <2>5 DEF Hidden
  <2>7. Sound(g, k)
    <3> SUFFICES ASSUME k \cap Lasting = {} PROVE Sound(g, k) BY DEF Sound
    <3>1. h \cap Lasting = {} BY DEF Lasting
    <3>2. \A i \in DOMAIN f.log : f.log[i].type = "erasure" => i = Len(f.log) /\ i > 1 BY <3>1 DEF ChainInv, Sound
    <3>3. \A i \in DOMAIN g.log : g.log[i].type = "erasure" => i = Len(g.log) /\ i > 1 BY <1>5, <2>1, <3>2
    <3>4. Stored(w, {}) BY <2>1, <3>2
    <3>5. Stored(g, k) BY <1>5, <3>4 DEF Stored
    <3>6. Ids(f) \subseteq f.sigs BY <3>1 DEF ChainInv, Sound
    <3>7. Ids(g) \subseteq g.sigs BY <1>5, <1>6, <2>1, <3>6
    <3>8. \A s \in Sources : g.sources[s] = 0 BY <1>5, <2>1
    <3> QED BY <1>4, <1>5, <1>6, <2>1, <3>3, <3>5, <3>7, <3>8 DEF Sound
  <2> QED BY <1>4, <1>6, <1>8, <2>1, <2>2, <2>3, <2>4, <2>6, <2>7 DEF ChainInv
<1>10. CASE ~Held(f)
  <2>1. /\ w.log = f.log /\ w.anchors = f.anchors /\ w.forward = f.forward /\ w.next = f.next
        /\ w.secrets = {} /\ w.sigs = {} /\ Blank(w)
    BY <1>1, <1>2, <1>10, WipedEmpty DEF SameBut
  <2>2. Own(g) /\ ~Held(g) /\ ~Ends(g.log) /\ (SeriesFails(g) <=> SeriesFails(f)) /\ Ids(g) = {} /\ DOMAIN g.log = {}
    <3>1. /\ Held(g) <=> Held(f)
          /\ Ids(g) = Ids(f) /\ Own(g) /\ (SeriesFails(g) <=> SeriesFails(f))
      BY <1>1, <1>5, <2>1, SameLogIs
    <3>2. Len(f.log) = 0 /\ DOMAIN f.log = {} BY <1>1, <1>10, IdsOf
    <3> QED BY <1>5, <1>10, <2>1, <3>1, <3>2 DEF Ends, Ids
  <2>3. \A s \in Sources : g.sources[s] = 0 BY <1>5, <2>1 DEF Blank
  <2>4. Below(g) BY <1>1, <1>5, <2>1, <2>2, <2>3 DEF Below, ChainRows
  <2>5. Checkpointed(g, k) BY <1>5, <1>7, <1>10, <2>1, <2>2 DEF ChainInv, Checkpointed
  <2>6. Blank(g) BY <1>5, <2>1, <2>3 DEF Blank
  <2>7. Marked(g, k, d) BY <1>4, <1>5, <2>1, <2>6 DEF Marked
  <2>8. Hidden(g, k, d) BY <1>4, <1>5, <2>1 DEF Hidden, NoContent
  <2>9. Sound(g, k) BY <1>4, <1>5, <2>1, <2>2, <2>3, <2>6 DEF Sound, Stored
  <2> QED BY <1>4, <1>8, <2>2, <2>4, <2>5, <2>7, <2>8, <2>9 DEF ChainInv
<1> QED BY <1>9, <1>10

\* An erasure that stopped.
StopOf(g, f) ==
    /\ g \in ChainRows /\ Below(g) /\ Own(g) /\ g.anchors = f.anchors /\ g.forward = f.forward
    /\ ~SeriesFails(f) => ~SeriesFails(g)
    /\ Held(g) <=> Held(f)
    /\ Ends(f.log) => Ends(g.log)
    /\ \A s \in Sources : g.sources[s] \in {0, f.sources[s]}
    /\ Ids(f) \subseteq Ids(g)
    /\ Ids(f) \subseteq f.sigs => Ids(g) \subseteq g.sigs
    /\ (\A i \in DOMAIN f.log : f.log[i].type = "erasure" => i = Len(f.log) /\ i > 1) /\ Stored(f, {"stopped"}) =>
           /\ \A i \in DOMAIN g.log : g.log[i].type = "erasure" => i = Len(g.log) /\ i > 1
           /\ Stored(g, {"stopped"})

LEMMA StopRows ==
    ASSUME NEW f \in ChainRows, Below(f), Own(f),
           NEW g \in {f, Wiped(f)} \cup (IF Held(f) THEN {Prepared(f), Recorded(f), Unopenable(f)} ELSE {Emptied(f)})
    PROVE  StopOf(g, f)
<1>1. CASE g = f BY <1>1 DEF StopOf
<1>2. CASE Held(f) /\ (g = Wiped(f) \/ g = Unopenable(f))
  <2>1. /\ g \in ChainRows /\ Below(g) /\ Own(g) /\ Held(g) /\ Ends(g.log) /\ NoContent(g)
        /\ SameBut(g, f, {"log", "secrets", "sigs", "sources", "next"})
        /\ ~SeriesFails(f) => ~SeriesFails(g)
        /\ Ids(f) \subseteq Ids(g) /\ (Ids(f) \subseteq f.sigs => Ids(g) \subseteq g.sigs)
        /\ \A s \in Sources : g.sources[s] \in {0, f.sources[s]}
        /\ (\A i \in DOMAIN f.log : f.log[i].type = "erasure" => i = Len(f.log) /\ i > 1) =>
               /\ \A i \in DOMAIN g.log : g.log[i].type = "erasure" => i = Len(g.log) /\ i > 1
               /\ Stored(g, {})
    BY <1>2, WipedHeld
  <2>2. Stored(g, {}) => Stored(g, {"stopped"}) BY DEF Stored
  <2> QED BY <1>2, <2>1, <2>2 DEF StopOf, SameBut
<1>3. CASE Held(f) /\ g = Recorded(f)
  <2>1. /\ g \in ChainRows /\ Below(g) /\ Own(g) /\ Held(g) /\ Ends(g.log)
        /\ SameBut(g, f, {"log", "secrets", "sigs", "next"})
        /\ ~SeriesFails(f) => ~SeriesFails(g)
        /\ Ids(f) \subseteq Ids(g) /\ (Ids(f) \subseteq f.sigs => Ids(g) \subseteq g.sigs)
        /\ g.log[Len(g.log)].id \in g.secrets \/ Ends(f.log)
        /\ Ends(f.log) => g = f
        /\ (\A i \in DOMAIN f.log : f.log[i].type = "erasure" => i = Len(f.log) /\ i > 1) =>
               \A i \in DOMAIN g.log : g.log[i].type = "erasure" => i = Len(g.log) /\ i > 1
    BY <1>3, RecordedIs
  <2>2. Stored(f, {"stopped"}) => Stored(g, {"stopped"}) BY <2>1 DEF Stored
  <2> QED BY <1>3, <2>1, <2>2 DEF StopOf, SameBut
<1>4. CASE Held(f) /\ g = Prepared(f)
  <2>1. CASE Ends(f.log)
    <3>1. g = f BY <1>4, <2>1, EndsErasedIs DEF Prepared
    <3> QED BY <3>1, <1>1
  <2>2. CASE ~Ends(f.log)
    <3>1. /\ g \in ChainRows /\ SameBut(g, f, {"secrets", "sigs", "next"})
          /\ g.secrets = f.secrets \cup {f.next} /\ g.sigs = f.sigs \cup {f.next} /\ g.next = f.next + 1
      BY <1>4, <2>2, PreparedRows
    <3>2. g.log = f.log /\ g.sources = f.sources /\ g.anchors = f.anchors /\ g.forward = f.forward BY <3>1 DEF SameBut
    <3>3. /\ Held(g) <=> Held(f)
          /\ Ids(g) = Ids(f) /\ Own(g) /\ (Ends(g.log) <=> Ends(f.log)) /\ (SeriesFails(g) <=> SeriesFails(f))
      BY <3>2, SameLogIs
    <3>4. Below(g)
      <4>1. f.next \in Nat \ {0} BY DEF ChainRows
      <4>2. \A i \in DOMAIN f.log : f.log[i].id \in Nat /\ f.log[i].id < f.next BY IdsOf DEF Below
      <4>3. \A i \in DOMAIN g.log : g.log[i].id < g.next BY <3>1, <3>2, <4>1, <4>2
      <4>4. f.secrets \subseteq Nat /\ f.sigs \subseteq Nat BY DEF ChainRows
      <4>5. \A x \in g.secrets : 0 < x /\ x < g.next BY <3>1, <4>1, <4>4 DEF Below
      <4>6. \A x \in g.sigs : 0 < x /\ x < g.next BY <3>1, <4>1, <4>4 DEF Below
      <4>7. \A t \in Sources : f.sources[t] \in Nat BY DEF ChainRows
      <4>8. \A t \in Sources : g.sources[t] < g.next BY <3>1, <3>2, <4>1, <4>7 DEF Below
      <4> QED BY <4>3, <4>5, <4>6, <4>8 DEF Below
    <3>5. Stored(f, {"stopped"}) => Stored(g, {"stopped"}) BY <2>2, <3>1, <3>2 DEF Stored
    <3> QED BY <3>1, <3>2, <3>3, <3>4, <3>5 DEF StopOf
  <2> QED BY <2>1, <2>2
<1>5. CASE ~Held(f) /\ (g = Wiped(f) \/ g = Emptied(f))
  <2>1. /\ g \in ChainRows /\ SameBut(g, f, {"secrets", "sigs", "sources"}) /\ g.secrets = {} /\ g.sigs = {}
        /\ \A s \in Sources : g.sources[s] \in {0, f.sources[s]}
    BY <1>5, WipedEmpty
  <2>2. g.log = f.log /\ g.next = f.next /\ g.anchors = f.anchors /\ g.forward = f.forward BY <2>1 DEF SameBut
  <2>3. /\ Held(g) <=> Held(f)
        /\ Ids(g) = Ids(f) /\ Own(g) /\ (Ends(g.log) <=> Ends(f.log)) /\ (SeriesFails(g) <=> SeriesFails(f))
    BY <2>2, SameLogIs
  <2>4. Len(f.log) = 0 /\ DOMAIN f.log = {} /\ Ids(f) = {}
    <3>1. Len(f.log) = 0 /\ DOMAIN f.log = {} BY <1>5, IdsOf
    <3> QED BY <3>1 DEF Ids
  <2>5. Below(g)
    <3>1. \A s \in Sources : g.sources[s] < g.next
      <4>1. \A s \in Sources : f.sources[s] < f.next /\ 0 < f.next BY DEF Below, ChainRows
      <4> QED BY <2>1, <2>2, <4>1
    <3> QED BY <2>1, <2>2, <2>4, <3>1 DEF Below
  <2>6. ~Ends(g.log) /\ Stored(g, {"stopped"}) BY <2>2, <2>4 DEF Stored, Ends
  <2> QED BY <2>1, <2>2, <2>3, <2>4, <2>5, <2>6 DEF StopOf
<1>6. CASE Held(f) BY <1>1, <1>2, <1>3, <1>4, <1>6
<1>7. CASE ~Held(f) BY <1>1, <1>5, <1>7
<1> QED BY <1>6, <1>7

LEMMA StopKeeps ==
    ASSUME NEW f, NEW h, NEW e, ChainInv(f, h, e), NEW d, d # {}, NEW b, StopOf(b, f), NEW g, g = Forgotten(b)
    PROVE  ChainInv(g, h \cup {"stopped"}, d)
<1> DEFINE k == h \cup {"stopped"}
<1>1. g \in ChainRows /\ SameBut(g, b, {"index"}) /\ g.index = "pending"
  <2>1. b \in ChainRows /\ g = [b EXCEPT !.index = "pending"] BY DEF StopOf, Forgotten
  <2> QED BY <2>1, IndexRows DEF IndexStates
<1>2. g.log = b.log /\ g.secrets = b.secrets /\ g.sigs = b.sigs /\ g.sources = b.sources /\ g.forward = b.forward /\ g.anchors = b.anchors /\ g.next = b.next
  BY <1>1 DEF SameBut
<1>3. /\ Held(g) <=> Held(b)
      /\ Ids(g) = Ids(b) /\ Own(g) /\ (Ends(g.log) <=> Ends(b.log)) /\ (SeriesFails(g) <=> SeriesFails(b))
  BY <1>2, SameLogIs DEF StopOf
<1>4. Below(g) BY <1>2 DEF Below, StopOf
<1>5. Checkpointed(g, k) BY <1>2, <1>3 DEF ChainInv, Checkpointed, StopOf, Lost
<1>6. Marked(g, k, d) BY <1>1, <1>2 DEF ChainInv, Marked, StopOf
<1>7. Unsealed(g, d) BY DEF Unsealed
<1>8. Hidden(g, k, d) BY <1>1 DEF Hidden
<1>9. Sound(g, k)
  <2> SUFFICES ASSUME k \cap Lasting = {} PROVE Sound(g, k) BY DEF Sound
  <2>1. h \cap Lasting = {} OBVIOUS
  <2>2. Stored(f, {"stopped"})
    <3>1. Stored(f, h) BY <2>1 DEF ChainInv, Sound
    <3> QED BY <3>1 DEF Stored
  <2>3. \A i \in DOMAIN f.log : f.log[i].type = "erasure" => i = Len(f.log) /\ i > 1 BY <2>1 DEF ChainInv, Sound
  <2>4. /\ \A i \in DOMAIN g.log : g.log[i].type = "erasure" => i = Len(g.log) /\ i > 1
        /\ Stored(b, {"stopped"})
    BY <1>2, <2>2, <2>3 DEF StopOf
  <2>5. Stored(g, k) BY <1>2, <2>4 DEF Stored
  <2>6. Ids(g) \subseteq g.sigs BY <1>2, <1>3, <2>1 DEF ChainInv, Sound, StopOf
  <2>7. "relink" \in h => Ends(g.log) BY <1>3, <2>1 DEF ChainInv, Sound, StopOf
  <2>8. \A s \in Sources : g.sources[s] = 0 \/ g.sources[s] \in Ids(g) \/ "cut" \in h
    <3>1. \A s \in Sources : f.sources[s] = 0 \/ f.sources[s] \in Ids(f) \/ "cut" \in h BY <2>1 DEF ChainInv, Sound
    <3> QED BY <1>2, <1>3, <3>1 DEF StopOf
  <2>9. \A s, t \in Sources : g.sources[s] = g.sources[t] => s = t \/ g.sources[s] = 0
    <3>1. \A s, t \in Sources : f.sources[s] = f.sources[t] => s = t \/ f.sources[s] = 0 BY <2>1 DEF ChainInv, Sound
    <3> QED BY <1>2, <3>1 DEF StopOf
  <2> QED BY <1>1, <2>4, <2>5, <2>6, <2>7, <2>8, <2>9 DEF Sound
<1> QED BY <1>1, <1>3, <1>4, <1>5, <1>6, <1>7, <1>8, <1>9 DEF ChainInv

\* Repair takes away what matches no entry.
LessOf(g, f) ==
    /\ g \in ChainRows /\ g.log = f.log /\ g.index = f.index /\ g.forward = f.forward /\ g.anchors = f.anchors /\ g.next = f.next
    /\ g.secrets = f.secrets \cap Ids(f) /\ g.sigs \subseteq f.sigs /\ f.sigs \cap Ids(f) \subseteq g.sigs
    /\ \A s \in Sources : g.sources[s] \in {0, f.sources[s]}

\* k is what is left of the harm h.
LEMMA LessKeeps ==
    ASSUME NEW f, NEW h, NEW e, ChainInv(f, h, e), NEW g, LessOf(g, f), NEW k \in {h, h \ {"cut"}},
           k = h \/ \A s \in Sources : g.sources[s] = 0 \/ g.sources[s] \in Ids(f),
           k = h \/ (~Held(f) => Blank(g))
    PROVE  ChainInv(g, k, e)
<1>1. f \in ChainRows /\ Below(f) /\ Own(f) /\ g \in ChainRows BY DEF ChainInv, LessOf
<1>2. /\ Held(g) <=> Held(f)
      /\ Ids(g) = Ids(f) /\ Own(g) /\ (Ends(g.log) <=> Ends(f.log)) /\ (SeriesFails(g) <=> SeriesFails(f))
  BY <1>1, SameLogIs DEF LessOf
<1>3. /\ Lost(k) <=> Lost(h) 
      /\ Undone(k) <=> Undone(h)
      /\ k \cap Lasting = h \cap Lasting
      /\ \A x \in {"torn", "stopped", "relink", "forward", "reverse", "unbind"} : x \in k <=> x \in h
      /\ "cut" \in k => k = h
  BY DEF Lost, Undone, Lasting
<1>4. Below(g)
  <2>1. \A s \in Sources : g.sources[s] < g.next
    <3>1. \A s \in Sources : f.sources[s] < f.next /\ 0 < f.next BY <1>1 DEF Below, ChainRows
    <3> QED BY <3>1 DEF LessOf
  <2> QED BY <1>1, <2>1 DEF Below, LessOf
<1>5. Checkpointed(g, k) BY <1>2, <1>3 DEF ChainInv, Checkpointed, LessOf
<1>6. Blank(f) => Blank(g) BY DEF Blank, LessOf
<1>7. Marked(g, k, e)
  <2>1. Marked(f, h, e) BY DEF ChainInv
  <2>2. h \cap {"unbind", "reverse"} = k \cap {"unbind", "reverse"} BY DEF LessOf
  <2>3. g.index = f.index /\ g.forward = f.forward /\ g.next = f.next BY DEF LessOf
  <2> QED BY <1>2, <1>3, <1>6, <2>1, <2>2, <2>3 DEF Marked
<1>8. Unsealed(g, e) BY DEF ChainInv, Unsealed, LessOf
<1>9. Hidden(g, k, e) BY <1>2, <1>3 DEF ChainInv, Hidden, NoContent, LessOf
<1>10. Sound(g, k)
  <2> SUFFICES ASSUME k \cap Lasting = {} PROVE Sound(g, k) BY DEF Sound
  <2>1. h \cap Lasting = {} BY <1>3
  <2>2. g.log = f.log /\ g.index = f.index BY DEF LessOf
  <2>3. /\ \A i \in DOMAIN f.log : f.log[i].type = "erasure" => i = Len(f.log) /\ i > 1
        /\ f.index = "live" => "relink" \in h \/ ~Ends(f.log)
        /\ "relink" \in h => Ends(f.log)
        /\ f.index = "absent" /\ Held(f) => Ends(f.log)
    BY <2>1 DEF ChainInv, Sound
  <2>4. Stored(g, k)
    <3>1. Stored(f, h) BY <2>1 DEF ChainInv, Sound
    <3>2. \A i \in DOMAIN f.log : f.log[i].id \in Ids(f) BY DEF Ids
    <3>3. g.secrets = f.secrets \cap Ids(f) BY DEF LessOf
    <3>4. Ends(f.log) => Len(f.log) \in DOMAIN f.log BY <1>1, IdsOf DEF Ends
    <3> QED BY <1>2, <1>3, <2>2, <3>1, <3>2, <3>3, <3>4 DEF Stored
  <2>5. g.secrets \subseteq Ids(g) BY <1>2 DEF LessOf
  <2>6. Ids(g) \subseteq g.sigs BY <1>2, <2>1 DEF ChainInv, Sound, LessOf
  <2>7. ~Held(g) => Blank(g) \/ "cut" \in k \/ "stopped" \in k BY <1>2, <1>3, <1>6, <2>1 DEF ChainInv, Sound
  <2>8. \A s \in Sources : g.sources[s] = 0 \/ g.sources[s] \in Ids(g) \/ "cut" \in k
    <3>1. \A s \in Sources : f.sources[s] = 0 \/ f.sources[s] \in Ids(f) \/ "cut" \in h BY <2>1 DEF ChainInv, Sound
    <3>2. k = h => \A s \in Sources : g.sources[s] = 0 \/ g.sources[s] \in Ids(f) \/ "cut" \in k BY <3>1 DEF LessOf
    <3> QED BY <1>2, <3>2
  <2>9. \A s, t \in Sources : g.sources[s] = g.sources[t] => s = t \/ g.sources[s] = 0
    <3>1. \A s, t \in Sources : f.sources[s] = f.sources[t] => s = t \/ f.sources[s] = 0 BY <2>1 DEF ChainInv, Sound
    <3> QED BY <3>1 DEF LessOf
  <2> QED BY <1>2, <1>3, <2>2, <2>3, <2>4, <2>5, <2>6, <2>7, <2>8, <2>9 DEF Sound
<1> QED BY <1>1, <1>2, <1>4, <1>5, <1>7, <1>8, <1>9, <1>10 DEF ChainInv

LEMMA RepairKeeps ==
    ASSUME NEW f, NEW h, NEW e, ChainInv(f, h, e), NEW g, g = Repaired(f)
    PROVE  ChainInv(g, h \ {"cut"}, e)
<1>1. f \in ChainRows BY DEF ChainInv
<1>2. /\ g \in ChainRows /\ SameBut(g, f, {"secrets", "sigs", "sources"})
      /\ g.secrets = f.secrets \cap Ids(f) /\ g.sigs = f.sigs \cap Ids(f)
      /\ \A s \in Sources : g.sources[s] = IF f.sources[s] \in Ids(f) THEN f.sources[s] ELSE 0
  BY <1>1, RepairedRows
<1>3. LessOf(g, f) BY <1>2 DEF SameBut, LessOf
<1>4. ~Held(f) => Blank(g)
  <2> SUFFICES ASSUME ~Held(f) PROVE Blank(g) OBVIOUS
  <2>1. Ids(f) = {}
    <3>1. DOMAIN f.log = {} BY <1>1, IdsOf
    <3> QED BY <3>1 DEF Ids
  <2> QED BY <1>2, <2>1 DEF Blank
<1> QED BY <1>2, <1>3, <1>4, LessKeeps

LEMMA RepairStopKeeps ==
    ASSUME NEW f, NEW h, NEW e, ChainInv(f, h, e), NEW g, g = NoLeftovers(f)
    PROVE  ChainInv(g, h, e)
<1>1. f \in ChainRows BY DEF ChainInv
<1>2. g \in ChainRows /\ SameBut(g, f, {"secrets"}) /\ g.secrets = f.secrets \cap Ids(f) BY <1>1, NoLeftoversRows
<1>3. LessOf(g, f) BY <1>2 DEF SameBut, LessOf
<1> QED BY <1>3, LessKeeps

-----------------------------------------------------------------------------
(* Checkpoints *)

\* While a checkpoint is being written, all the others are good.
Writing(f, e) ==
    /\ Held(f) /\ f.anchors # <<>>
    /\ \A n \in DOMAIN f.anchors : n # Len(f.anchors) => f.anchors[n] # Torn /\ IsPrefix(f.anchors[n], f.log)
    /\ Ends(f.log) => e # {}

LEMMA TornIs == Torn \in Seq(Entries)
BY DEF Torn

\* Only the checkpoints are other than they were.
LEMMA AnchorKeeps ==
    ASSUME NEW f, NEW h, NEW e, ChainInv(f, h, e), NEW k \in {h \cup {"torn"}, h \ {"torn"}},
           NEW g \in ChainRows, SameBut(g, f, {"anchors"}), Checkpointed(g, k), Unsealed(g, e)
    PROVE  ChainInv(g, k, e)
<1>1. f \in ChainRows /\ Below(f) /\ Own(f) BY DEF ChainInv
<1>2. /\ g.log = f.log /\ g.secrets = f.secrets /\ g.sigs = f.sigs /\ g.sources = f.sources /\ g.index = f.index
      /\ g.forward = f.forward /\ g.next = f.next
  BY DEF SameBut
<1>3. (Held(g) <=> Held(f)) /\ Ids(g) = Ids(f) /\ Own(g) BY <1>1, <1>2, SameLogIs
<1>4. Below(g) BY <1>1, <1>2 DEF Below
<1>5. /\ Undone(k) <=> Undone(h)
      /\ Lost(k) <=> Lost(h)
      /\ k \cap Lasting = h \cap Lasting
      /\ k \cap {"unbind", "reverse"} = h \cap {"unbind", "reverse"}
      /\ \A x \in {"cut", "stopped", "relink", "forward", "reverse", "unbind"} : x \in k <=> x \in h
  BY DEF Undone, Lost, Lasting
<1>6. Blank(g) <=> Blank(f) BY <1>2 DEF Blank
<1>7. Marked(g, k, e) BY <1>2, <1>3, <1>5, <1>6 DEF ChainInv, Marked
<1>8. Hidden(g, k, e) BY <1>2, <1>5 DEF ChainInv, Hidden, NoContent
<1>9. Sound(g, k)
  <2> SUFFICES ASSUME k \cap Lasting = {} PROVE Sound(g, k) BY DEF Sound
  <2>1. Sound(f, h) /\ h \cap Lasting = {} BY <1>5 DEF ChainInv
  <2>2. Stored(g, k) BY <1>2, <1>5, <2>1 DEF Sound, Stored
  <2> QED BY <1>2, <1>3, <1>5, <1>6, <2>1, <2>2 DEF Sound
<1> QED BY <1>3, <1>4, <1>7, <1>8, <1>9 DEF ChainInv

LEMMA CreatedKeeps ==
    ASSUME NEW f, NEW h, NEW e, ChainInv(f, h, e), Held(f), ~SeriesFails(f), EndsErased(f) => e # {},
           NEW g, g = [f EXCEPT !.anchors = Append(@, Torn)]
    PROVE  ChainInv(g, h \cup {"torn"}, e) /\ Writing(g, e)
<1>1. f \in ChainRows BY DEF ChainInv
<1>2. /\ g \in ChainRows /\ SameBut(g, f, {"anchors"}) /\ Len(g.anchors) = Len(f.anchors) + 1
      /\ DOMAIN g.anchors = 1..(Len(f.anchors) + 1) /\ g.anchors[Len(f.anchors) + 1] = Torn
      /\ \A n \in 1..Len(f.anchors) : g.anchors[n] = f.anchors[n]
  BY <1>1, TornIs, AnchorRows
<1>3. PICK m \in Nat : m = Len(f.anchors) /\ DOMAIN f.anchors = 1..m
  <2>1. f.anchors \in Seq(Seq(Entries)) BY <1>1 DEF ChainRows
  <2> QED BY <2>1
<1>4. 1..(m + 1) = (1..m) \cup {m + 1} BY <1>3
<1>5. g.log = f.log /\ g.sigs = f.sigs BY <1>2 DEF SameBut
<1>6. Held(g) BY <1>5 DEF Held
<1>7. Checkpointed(g, h \cup {"torn"}) BY <1>6 DEF Checkpointed
<1>8. Unsealed(g, e)
  <2> SUFFICES ASSUME e = {} PROVE Unsealed(g, e) BY DEF Unsealed
  <2>1. \A n \in DOMAIN f.anchors : f.anchors[n] # Torn => f.anchors[n][Len(f.anchors[n])].type = "event" BY DEF ChainInv, Unsealed
  <2>2. \A n \in DOMAIN g.anchors : g.anchors[n] # Torn => g.anchors[n][Len(g.anchors[n])].type = "event"
    BY <1>2, <1>3, <1>4, <2>1
  <2>3. \A i \in DOMAIN g.log : g.log[i].type = "erasure" => g.log[i].id \notin g.sigs BY <1>5 DEF ChainInv, Unsealed
  <2> QED BY <2>2, <2>3 DEF Unsealed
<1>9. ChainInv(g, h \cup {"torn"}, e) BY <1>2, <1>7, <1>8, AnchorKeeps
<1>10. Writing(g, e)
  <2>1. g.anchors # <<>>
    <3>1. Len(g.anchors) # 0 BY <1>2, <1>3
    <3>2. \A y : y = <<>> => Len(y) = 0 OBVIOUS
    <3> QED BY <3>1, <3>2
  <2>2. \A n \in 1..m : g.anchors[n] # Torn /\ IsPrefix(g.anchors[n], g.log) BY <1>2, <1>3, <1>5 DEF SeriesFails
  <2>3. \A n \in DOMAIN g.anchors : n # Len(g.anchors) => g.anchors[n] # Torn /\ IsPrefix(g.anchors[n], g.log)
    BY <1>2, <1>3, <1>4, <2>2
  <2>4. Ends(g.log) => e # {} BY <1>1, <1>5, EndsErasedIs
  <2> QED BY <1>6, <2>1, <2>3, <2>4 DEF Writing
<1> QED BY <1>9, <1>10

LEMMA SealedKeeps ==
    ASSUME NEW f, NEW h, NEW e, ChainInv(f, h, e), Writing(f, e), NEW g, g = [f EXCEPT !.anchors[Len(f.anchors)] = f.log]
    PROVE  ChainInv(g, h \ {"torn"}, e)
<1>1. f \in ChainRows /\ Own(f) /\ f.anchors # <<>> BY DEF ChainInv, Writing
<1>2. /\ g \in ChainRows /\ SameBut(g, f, {"anchors"}) /\ Len(g.anchors) = Len(f.anchors) /\ g.anchors # <<>>
      /\ DOMAIN g.anchors = 1..Len(f.anchors) /\ g.anchors[Len(f.anchors)] = f.log
      /\ \A n \in 1..Len(f.anchors) : n # Len(f.anchors) => g.anchors[n] = f.anchors[n]
  BY <1>1, SealedRows
<1>3. g.log = f.log /\ g.sigs = f.sigs BY <1>2 DEF SameBut
<1>4. Held(g) BY <1>3 DEF Held, Writing
<1>5. DOMAIN f.anchors = 1..Len(f.anchors)
  <2>1. f.anchors \in Seq(Seq(Entries)) BY <1>1 DEF ChainRows
  <2> QED BY <2>1
<1>6. IsPrefix(f.log, f.log)
  <2>1. f.log \in Seq(Entries) BY <1>1 DEF ChainRows
  <2> QED BY <2>1 DEF IsPrefix
<1>7. ~SeriesFails(g)
  <2> SUFFICES ASSUME NEW n \in DOMAIN g.anchors PROVE g.anchors[n] # Torn /\ IsPrefix(g.anchors[n], g.log)
    BY DEF SeriesFails
  <2>1. CASE n = Len(f.anchors) BY <1>2, <1>3, <1>4, <1>6, <2>1 DEF Held, Torn
  <2>2. CASE n # Len(f.anchors) BY <1>2, <1>3, <1>5, <2>2 DEF Writing
  <2> QED BY <2>1, <2>2
<1>8. Checkpointed(g, h \ {"torn"}) BY <1>4, <1>7 DEF Checkpointed
<1>9. Unsealed(g, e)
  <2> SUFFICES ASSUME e = {} PROVE Unsealed(g, e) BY DEF Unsealed
  <2>1. \A n \in DOMAIN f.anchors : f.anchors[n] # Torn => f.anchors[n][Len(f.anchors[n])].type = "event" BY DEF ChainInv, Unsealed
  <2>2. f.log[Len(f.log)].type = "event"
    <3>1. ~Ends(f.log) BY DEF Writing
    <3>2. Len(f.log) \in DOMAIN f.log /\ Len(f.log) \in Nat BY <1>1, IdsOf DEF Writing
    <3>3. f.log[Len(f.log)] \in Entries BY <1>1, <3>2, IdsOf
    <3>4. Len(f.log) = 1 => f.log[Len(f.log)].type = "event" BY <1>1, <3>2 DEF Own
    <3>5. Len(f.log) > 1 => f.log[Len(f.log)].type # "erasure" BY <3>1 DEF Ends
    <3>6. Len(f.log) = 1 \/ Len(f.log) > 1
      <4>1. PICK n \in Nat : n = Len(f.log) BY <3>2
      <4>2. n > 0 BY <1>1, <4>1, IdsOf DEF Writing
      <4>3. n = 1 \/ n > 1 BY <4>2
      <4> QED BY <4>1, <4>3
    <3> QED BY <3>3, <3>4, <3>5, <3>6 DEF Entries
  <2>3. \A n \in DOMAIN g.anchors : g.anchors[n] # Torn => g.anchors[n][Len(g.anchors[n])].type = "event"
    BY <1>2, <1>5, <2>1, <2>2
  <2>4. \A i \in DOMAIN g.log : g.log[i].type = "erasure" => g.log[i].id \notin g.sigs BY <1>3 DEF ChainInv, Unsealed
  <2> QED BY <2>3, <2>4 DEF Unsealed
<1> QED BY <1>2, <1>8, <1>9, AnchorKeeps

-----------------------------------------------------------------------------
(* Changes behind the sink's back *)

\* What each of them does to the rows.
DamageOf(k, g, f) ==
    \/ k = "remove" /\ Held(f) /\ SameBut(g, f, {"log"}) /\ DOMAIN g.log = {}
    \/ /\ k = "truncate" /\ Held(f) /\ SameBut(g, f, {"log"})
       /\ DOMAIN g.log \subseteq DOMAIN f.log /\ \A i \in DOMAIN g.log : g.log[i] = f.log[i]
    \/ /\ k = "forge" /\ Held(f) /\ SameBut(g, f, {"log", "secrets", "index", "next"})
       /\ After(g.log, f.log, Erasure(f.next)) /\ g.secrets = {f.next} /\ g.index = "absent" /\ g.next = f.next + 1
    \/ k = "content" /\ Held(f) /\ SameBut(g, f, {"secrets"}) /\ g.secrets \subseteq f.secrets
    \/ k = "unsign" /\ Held(f) /\ SameBut(g, f, {"sigs"}) /\ g.sigs \subseteq f.sigs
    \/ /\ k = "share" /\ Held(f) /\ SameBut(g, f, {"sources"})
       /\ \A s \in Sources : \E t \in Sources : g.sources[s] = f.sources[t]
    \/ k = "unbind" /\ f.index = "live" /\ SameBut(g, f, {"index"}) /\ g.index = "absent"
    \/ k = "reverse" /\ f.index = "live" /\ SameBut(g, f, {"index", "forward"}) /\ g.index = "absent" /\ ~g.forward
    \/ k = "forward" /\ f.index = "live" /\ SameBut(g, f, {"index"}) /\ g.index = "malformed"
    \/ k = "relink" /\ Held(f) /\ Ends(f.log) /\ SameBut(g, f, {"index"}) /\ g.index = "live"
    \/ /\ k = "follow" /\ Held(f) /\ Ends(f.log) /\ SameBut(g, f, {"log", "secrets", "next"})
       /\ After(g.log, f.log, Event(f.next)) /\ g.secrets = f.secrets \cup {f.next} /\ g.next = f.next + 1

LEMMA RemoveRows ==
    ASSUME NEW f \in ChainRows, Held(f), NEW g, g = [f EXCEPT !.log = <<>>]
    PROVE  g \in ChainRows /\ DamageOf("remove", g, f)
<1>1. PICK l \in Seq(Entries) : l = <<>> /\ DOMAIN l = {}
  <2>1. <<>> \in Seq(Entries) /\ DOMAIN <<>> = {} OBVIOUS
  <2> QED BY <2>1
<1>2. g = [f EXCEPT !.log = l] BY <1>1
<1>3. g \in ChainRows /\ SameBut(g, f, {"log"}) /\ g.log = l BY <1>2 DEF ChainRows, SameBut
<1> QED BY <1>1, <1>3 DEF DamageOf

LEMMA TruncateRows ==
    ASSUME NEW f \in ChainRows, Held(f), NEW g, g = [f EXCEPT !.log = SubSeq(@, 1, Len(@) - 1)]
    PROVE  g \in ChainRows /\ DamageOf("truncate", g, f)
<1>1. PICK n \in Nat : n = Len(f.log) /\ n > 0 /\ f.log \in Seq(Entries) /\ DOMAIN f.log = 1..n BY IdsOf
<1>2. PICK l : l = SubSeq(f.log, 1, n - 1) OBVIOUS
<1>3. n - 1 \in Nat /\ 1..(n - 1) \subseteq 1..n BY <1>1
<1>4. l \in Seq(Entries) /\ DOMAIN l = 1..(n - 1) /\ \A i \in 1..(n - 1) : l[i] = f.log[i]
  <2>1. CASE n = 1
    <3>1. l = <<>> BY <1>1, <1>2, <2>1
    <3>2. 1..(n - 1) = {} BY <2>1
    <3> QED BY <3>1, <3>2
  <2>2. CASE n > 1
    <3>1. \A i \in 1..(n - 1) : i \in 1..n BY <1>3
    <3> QED BY <1>1, <1>2, <2>2, <3>1
  <2>3. n > 0 BY <1>1
  <2>4. n = 1 \/ n > 1 BY <2>3
  <2> QED BY <2>1, <2>2, <2>4
<1>5. g = [f EXCEPT !.log = l] BY <1>1, <1>2
<1>6. g \in ChainRows /\ SameBut(g, f, {"log"}) /\ g.log = l BY <1>4, <1>5 DEF ChainRows, SameBut
<1> QED BY <1>1, <1>3, <1>4, <1>6 DEF DamageOf

LEMMA ForgeRows ==
    ASSUME NEW f \in ChainRows, Held(f),
           NEW g, g = [f EXCEPT !.log = Append(@, Erasure(f.next)), !.secrets = {f.next}, !.index = "absent", !.next = @ + 1]
    PROVE  g \in ChainRows /\ DamageOf("forge", g, f)
<1>1. PICK b : b = [f EXCEPT !.log = Append(@, Erasure(f.next))] OBVIOUS
<1>2. b \in ChainRows /\ SameBut(b, f, {"log"}) /\ After(b.log, f.log, Erasure(f.next)) BY <1>1, LogPut, EntryTypes
<1>3. PICK secrets \in SUBSET Nat : secrets = {f.next} BY DEF ChainRows
<1>4. PICK next \in Nat \ {0} : next = f.next + 1 BY DEF ChainRows
<1>5. g = [b EXCEPT !.secrets = secrets, !.index = "absent", !.next = next] BY <1>1, <1>3, <1>4
<1>6. /\ g \in ChainRows /\ SameBut(g, b, {"secrets", "index", "next"})
      /\ g.secrets = secrets /\ g.index = "absent" /\ g.next = next
  BY <1>2, <1>5 DEF ChainRows, SameBut, IndexStates
<1>7. g.log = b.log /\ SameBut(g, f, {"log", "secrets", "index", "next"}) BY <1>2, <1>6 DEF SameBut
<1> QED BY <1>2, <1>3, <1>4, <1>6, <1>7 DEF DamageOf

LEMMA FollowRows ==
    ASSUME NEW f \in ChainRows, EndsErased(f),
           NEW g, g = [f EXCEPT !.log = Append(@, Event(f.next)), !.secrets = @ \cup {f.next}, !.next = @ + 1]
    PROVE  g \in ChainRows /\ DamageOf("follow", g, f)
<1>1. PICK b : b = [f EXCEPT !.log = Append(@, Event(f.next))] OBVIOUS
<1>2. b \in ChainRows /\ SameBut(b, f, {"log"}) /\ After(b.log, f.log, Event(f.next)) BY <1>1, LogPut, EntryTypes
<1>3. PICK secrets \in SUBSET Nat : secrets = f.secrets \cup {f.next} BY DEF ChainRows
<1>4. PICK next \in Nat \ {0} : next = f.next + 1 BY DEF ChainRows
<1>5. g = [b EXCEPT !.secrets = secrets, !.next = next] BY <1>1, <1>3, <1>4
<1>6. g \in ChainRows /\ SameBut(g, b, {"secrets", "next"}) /\ g.secrets = secrets /\ g.next = next
  BY <1>2, <1>5 DEF ChainRows, SameBut
<1>7. g.log = b.log /\ SameBut(g, f, {"log", "secrets", "next"}) BY <1>2, <1>6 DEF SameBut
<1>8. Held(f) /\ Ends(f.log) BY EndsErasedIs DEF EndsErased
<1> QED BY <1>2, <1>3, <1>4, <1>6, <1>7, <1>8 DEF DamageOf

LEMMA RowsTaken ==
    ASSUME NEW f \in ChainRows, Held(f), NEW g
    PROVE  /\ \A x : g = [f EXCEPT !.secrets = @ \ {x}] => g \in ChainRows /\ DamageOf("content", g, f)
           /\ \A x : g = [f EXCEPT !.sigs = @ \ {x}] => g \in ChainRows /\ DamageOf("unsign", g, f)
           /\ \A s, t \in Sources : g = [f EXCEPT !.sources[s] = f.sources[t]] => g \in ChainRows /\ DamageOf("share", g, f)
<1>1. ASSUME NEW x, g = [f EXCEPT !.secrets = @ \ {x}] PROVE g \in ChainRows /\ DamageOf("content", g, f)
  <2>1. PICK y \in SUBSET Nat : y = f.secrets \ {x} BY DEF ChainRows
  <2>2. g = [f EXCEPT !.secrets = y] BY <1>1, <2>1
  <2>3. g \in ChainRows /\ SameBut(g, f, {"secrets"}) /\ g.secrets = y BY <2>2 DEF ChainRows, SameBut
  <2> QED BY <2>1, <2>3 DEF DamageOf
<1>2. ASSUME NEW x, g = [f EXCEPT !.sigs = @ \ {x}] PROVE g \in ChainRows /\ DamageOf("unsign", g, f)
  <2>1. PICK y \in SUBSET Nat : y = f.sigs \ {x} BY DEF ChainRows
  <2>2. g = [f EXCEPT !.sigs = y] BY <1>2, <2>1
  <2>3. g \in ChainRows /\ SameBut(g, f, {"sigs"}) /\ g.sigs = y BY <2>2 DEF ChainRows, SameBut
  <2> QED BY <2>1, <2>3 DEF DamageOf
<1>3. ASSUME NEW s \in Sources, NEW t \in Sources, g = [f EXCEPT !.sources[s] = f.sources[t]]
      PROVE  g \in ChainRows /\ DamageOf("share", g, f)
  <2>1. PICK y \in [Sources -> Nat] : y = [f.sources EXCEPT ![s] = f.sources[t]] BY DEF ChainRows
  <2>2. g = [f EXCEPT !.sources = y] BY <1>3, <2>1
  <2>3. g \in ChainRows /\ SameBut(g, f, {"sources"}) /\ g.sources = y BY <2>2 DEF ChainRows, SameBut
  <2>4. f.sources \in [Sources -> Nat] BY DEF ChainRows
  <2>5. \A u \in Sources : g.sources[u] = IF u = s THEN f.sources[t] ELSE f.sources[u] BY <2>1, <2>3, <2>4
  <2>6. \A u \in Sources : \E v \in Sources : g.sources[u] = f.sources[v]
    <3> SUFFICES ASSUME NEW u \in Sources PROVE \E v \in Sources : g.sources[u] = f.sources[v] OBVIOUS
    <3>1. CASE u = s BY <2>5, <3>1
    <3>2. CASE u # s BY <2>5, <3>2
    <3> QED BY <3>1, <3>2
  <2> QED BY <2>3, <2>6 DEF DamageOf
<1> QED BY <1>1, <1>2, <1>3

LEMMA IndexTaken ==
    ASSUME NEW f \in ChainRows, f.index = "live", NEW g
    PROVE  /\ g = [f EXCEPT !.index = "absent"] => g \in ChainRows /\ DamageOf("unbind", g, f)
           /\ g = [f EXCEPT !.index = "absent", !.forward = FALSE] => g \in ChainRows /\ DamageOf("reverse", g, f)
           /\ g = [f EXCEPT !.index = "malformed"] => g \in ChainRows /\ DamageOf("forward", g, f)
<1>1. ASSUME g = [f EXCEPT !.index = "absent"] PROVE g \in ChainRows /\ DamageOf("unbind", g, f)
  BY <1>1, IndexRows DEF DamageOf, IndexStates
<1>2. ASSUME g = [f EXCEPT !.index = "malformed"] PROVE g \in ChainRows /\ DamageOf("forward", g, f)
  BY <1>2, IndexRows DEF DamageOf, IndexStates
<1>3. ASSUME g = [f EXCEPT !.index = "absent", !.forward = FALSE] PROVE g \in ChainRows /\ DamageOf("reverse", g, f)
  <2>1. g \in ChainRows /\ SameBut(g, f, {"index", "forward"}) /\ g.index = "absent" /\ ~g.forward
    BY <1>3 DEF ChainRows, SameBut, IndexStates
  <2> QED BY <2>1 DEF DamageOf
<1> QED BY <1>1, <1>2, <1>3

LEMMA RelinkRows ==
    ASSUME NEW f \in ChainRows, EndsErased(f), NEW g, g = [f EXCEPT !.index = "live"]
    PROVE  g \in ChainRows /\ DamageOf("relink", g, f)
<1>1. Held(f) /\ Ends(f.log) BY EndsErasedIs DEF EndsErased
<1>2. g \in ChainRows /\ SameBut(g, f, {"index"}) /\ g.index = "live" BY IndexRows DEF IndexStates
<1> QED BY <1>1, <1>2 DEF DamageOf

LEMMA DamageRows ==
    ASSUME NEW f \in ChainRows, NEW d \in Damages(f)
    PROVE  d[2] \in ChainRows /\ DamageOf(d[1], d[2], f)
<1>1. CASE Held(f) /\ d \in {<<"remove", [f EXCEPT !.log = <<>>]>>,
           <<"truncate", [f EXCEPT !.log = SubSeq(@, 1, Len(@) - 1)]>>,
           <<"forge", [f EXCEPT !.log = Append(@, Erasure(f.next)), !.secrets = {f.next}, !.index = "absent", !.next = @ + 1]>>}
  <2>1. CASE d = <<"remove", [f EXCEPT !.log = <<>>]>> BY <1>1, <2>1, RemoveRows
  <2>2. CASE d = <<"truncate", [f EXCEPT !.log = SubSeq(@, 1, Len(@) - 1)]>> BY <1>1, <2>2, TruncateRows
  <2>3. CASE d = <<"forge", [f EXCEPT !.log = Append(@, Erasure(f.next)), !.secrets = {f.next}, !.index = "absent", !.next = @ + 1]>>
    BY <1>1, <2>3, ForgeRows
  <2> QED BY <1>1, <2>1, <2>2, <2>3
<1>2. CASE Held(f) /\ d \in {<<"content", [f EXCEPT !.secrets = @ \ {i}]>> : i \in f.secrets \cap Ids(f)}
  <2>1. PICK i : d = <<"content", [f EXCEPT !.secrets = @ \ {i}]>> BY <1>2
  <2>2. d[1] = "content" /\ d[2] = [f EXCEPT !.secrets = @ \ {i}] BY <2>1
  <2> QED BY <1>2, <2>2, RowsTaken
<1>3. CASE Held(f) /\ d \in {<<"unsign", [f EXCEPT !.sigs = @ \ {i}]>> : i \in f.sigs \cap Ids(f)}
  <2>1. PICK i : d = <<"unsign", [f EXCEPT !.sigs = @ \ {i}]>> BY <1>3
  <2>2. d[1] = "unsign" /\ d[2] = [f EXCEPT !.sigs = @ \ {i}] BY <2>1
  <2> QED BY <1>3, <2>2, RowsTaken
<1>4. CASE Held(f) /\ d \in {<<"share", [f EXCEPT !.sources[s] = f.sources[t]]>> :
                     s \in Sources, t \in {t \in Sources : f.sources[t] \in Ids(f)}}
  <2>1. PICK s \in Sources, t \in Sources : d = <<"share", [f EXCEPT !.sources[s] = f.sources[t]]>> BY <1>4
  <2>2. d[1] = "share" /\ d[2] = [f EXCEPT !.sources[s] = f.sources[t]] BY <2>1
  <2> QED BY <1>4, <2>2, RowsTaken
<1>5. CASE f.index = "live" /\ d \in {<<"unbind", [f EXCEPT !.index = "absent"]>>,
            <<"reverse", [f EXCEPT !.index = "absent", !.forward = FALSE]>>,
            <<"forward", [f EXCEPT !.index = "malformed"]>>}
  <2>1. \/ d[1] = "unbind" /\ d[2] = [f EXCEPT !.index = "absent"]
        \/ d[1] = "reverse" /\ d[2] = [f EXCEPT !.index = "absent", !.forward = FALSE]
        \/ d[1] = "forward" /\ d[2] = [f EXCEPT !.index = "malformed"]
    BY <1>5
  <2> QED BY <1>5, <2>1, IndexTaken
<1>6. CASE EndsErased(f) /\ d \in {<<"relink", [f EXCEPT !.index = "live"]>>,
                <<"follow", [f EXCEPT !.log = Append(@, Event(f.next)), !.secrets = @ \cup {f.next}, !.next = @ + 1]>>}
  <2>1. \/ d[1] = "relink" /\ d[2] = [f EXCEPT !.index = "live"]
        \/ d[1] = "follow" /\ d[2] = [f EXCEPT !.log = Append(@, Event(f.next)), !.secrets = @ \cup {f.next}, !.next = @ + 1]
    BY <1>6
  <2>2. CASE d[1] = "relink" /\ d[2] = [f EXCEPT !.index = "live"] BY <1>6, <2>2, RelinkRows
  <2>3. CASE d[1] = "follow" /\ d[2] = [f EXCEPT !.log = Append(@, Event(f.next)), !.secrets = @ \cup {f.next}, !.next = @ + 1]
    BY <1>6, <2>3, FollowRows
  <2> QED BY <2>1, <2>2, <2>3
<1> QED BY <1>1, <1>2, <1>3, <1>4, <1>5, <1>6 DEF Damages

\* A change that lasts says nothing of whether the rows agree.
LEMMA LastingIs == ASSUME NEW g, NEW h, NEW k \in Lasting PROVE Sound(g, h \cup {k})
BY DEF Sound

\* The entries are fewer, and the rest is as it was.
LEMMA FewerKeeps ==
    ASSUME NEW f, NEW h, NEW e, ChainInv(f, h, e), NEW g \in ChainRows, NEW k \in {"remove", "truncate"},
           SameBut(g, f, {"log"}), DOMAIN g.log \subseteq DOMAIN f.log, \A i \in DOMAIN g.log : g.log[i] = f.log[i]
    PROVE  ChainInv(g, h \cup {k}, e)
<1>1. f \in ChainRows /\ Below(f) /\ Own(f) BY DEF ChainInv
<1>2. /\ g.secrets = f.secrets /\ g.sigs = f.sigs /\ g.sources = f.sources /\ g.index = f.index
      /\ g.forward = f.forward /\ g.anchors = f.anchors /\ g.next = f.next
  BY DEF SameBut
<1>3. Below(g) BY <1>1, <1>2 DEF Below
<1>4. Own(g) BY <1>1 DEF Own
<1>5. Lost(h \cup {k}) BY DEF Lost
<1>6. Checkpointed(g, h \cup {k}) BY <1>5 DEF Checkpointed
<1>7. Marked(g, h \cup {k}, e) BY <1>2, <1>5 DEF ChainInv, Marked
<1>8. Unsealed(g, e) BY <1>2 DEF ChainInv, Unsealed
<1>9. Hidden(g, h \cup {k}, e)
  <2>1. "relink" \in h \cup {k} => "relink" \in h /\ Undone(h \cup {k}) BY DEF Undone
  <2>2. "relink" \notin h => (Undone(h) => Undone(h \cup {k})) BY DEF Undone
  <2>3. NoContent(f) => NoContent(g) BY <1>2 DEF NoContent
  <2> QED BY <1>2, <2>1, <2>2, <2>3 DEF ChainInv, Hidden
<1>10. Sound(g, h \cup {k}) BY LastingIs DEF Lasting
<1> QED BY <1>3, <1>4, <1>6, <1>7, <1>8, <1>9, <1>10 DEF ChainInv

\* An entry more, by another hand.
LEMMA MoreKeeps ==
    ASSUME NEW f, NEW h, NEW e, ChainInv(f, h, e), NEW g \in ChainRows, NEW k \in {"forge", "follow"}, DamageOf(k, g, f)
    PROVE  ChainInv(g, h \cup {k}, e)
<1> DEFINE x == IF k = "forge" THEN Erasure(f.next) ELSE Event(f.next)
<1>1. f \in ChainRows /\ Below(f) /\ Own(f) /\ Held(f) BY DEF ChainInv, DamageOf
<1>2. x \in Entries /\ x.id = f.next /\ x.type = IF k = "forge" THEN "erasure" ELSE "event"
  BY <1>1, EntryTypes DEF Erasure, Event
<1>3. /\ After(g.log, f.log, x) /\ g.next = f.next + 1 /\ g.secrets \subseteq f.secrets \cup {f.next}
      /\ k = "forge" => g.secrets = {f.next} /\ g.index = "absent"
      /\ k = "follow" => g.index = f.index
  BY DEF DamageOf, SameBut
<1>4. g.sigs = f.sigs /\ g.sources = f.sources /\ g.forward = f.forward /\ g.anchors = f.anchors BY DEF DamageOf, SameBut
<1> HIDE DEF x
<1>5. /\ Held(g) /\ Own(g) /\ f.next \notin Ids(f)
      /\ Ends(g.log) <=> x.type = "erasure"
      /\ g.anchors = f.anchors /\ ~SeriesFails(f) => ~SeriesFails(g)
      /\ DOMAIN g.log = DOMAIN f.log \cup {Len(g.log)} /\ g.log[Len(g.log)] = x
      /\ \A i \in DOMAIN f.log : g.log[i] = f.log[i] /\ i < Len(g.log)
  BY <1>1, <1>2, <1>3, Grown
<1>6. f.next \in Nat \ {0} BY <1>1 DEF ChainRows
<1>7. \A i \in DOMAIN f.log : f.log[i].id \in Nat /\ f.log[i].id < f.next BY <1>1, IdsOf DEF Below
<1>8. Below(g)
  <2>1. \A i \in DOMAIN g.log : g.log[i].id < g.next BY <1>2, <1>3, <1>5, <1>6, <1>7
  <2>2. f.secrets \subseteq Nat /\ f.sigs \subseteq Nat BY <1>1 DEF ChainRows
  <2>3. \A y \in g.secrets : 0 < y /\ y < g.next BY <1>1, <1>3, <1>6, <2>2 DEF Below
  <2>4. \A y \in g.sigs : 0 < y /\ y < g.next BY <1>1, <1>3, <1>4, <1>6, <2>2 DEF Below
  <2>5. \A t \in Sources : f.sources[t] \in Nat BY <1>1 DEF ChainRows
  <2>6. \A t \in Sources : g.sources[t] < g.next BY <1>1, <1>3, <1>4, <1>6, <2>5 DEF Below
  <2> QED BY <2>1, <2>3, <2>4, <2>6 DEF Below
<1>9. Checkpointed(g, h \cup {k}) BY <1>4, <1>5 DEF ChainInv, Checkpointed, Lost
<1>10. Marked(g, h \cup {k}, e)
  <2>1. g.next > 1 BY <1>3, <1>6
  <2>2. g.index = "malformed" => f.index = "malformed" BY <1>3
  <2>3. g.index = "pending" => f.index = "pending" BY <1>3
  <2> QED BY <1>4, <1>5, <2>1, <2>2, <2>3 DEF ChainInv, Marked
<1>11. Unsealed(g, e)
  <2> SUFFICES ASSUME e = {} PROVE Unsealed(g, e) BY DEF Unsealed
  <2>1. \A i \in DOMAIN f.log : f.log[i].type = "erasure" => f.log[i].id \notin f.sigs BY DEF ChainInv, Unsealed
  <2>2. f.next \notin f.sigs BY <1>1, <1>6 DEF Below
  <2>3. \A i \in DOMAIN g.log : g.log[i].type = "erasure" => g.log[i].id \notin g.sigs BY <1>2, <1>4, <1>5, <2>1, <2>2
  <2> QED BY <1>4, <2>3 DEF ChainInv, Unsealed
<1>12. Hidden(g, h \cup {k}, e)
  <2>1. CASE k = "follow"
    <3>1. Undone(h \cup {k}) BY <2>1 DEF Undone
    <3> QED BY <1>3, <2>1, <3>1 DEF ChainInv, Hidden
  <2>2. CASE k = "forge"
    <3>1. Ends(g.log) BY <1>2, <1>5, <2>2
    <3>2. \A i \in DOMAIN f.log : f.log[i].id # f.next BY <1>5 DEF Ids
    <3>3. NoContent(g) BY <1>2, <1>3, <1>5, <2>2, <3>2 DEF NoContent
    <3> QED BY <1>3, <2>2, <3>1, <3>3 DEF Hidden
  <2> QED BY <2>1, <2>2
<1>13. Sound(g, h \cup {k}) BY LastingIs DEF Lasting
<1> QED BY <1>5, <1>8, <1>9, <1>10, <1>11, <1>12, <1>13 DEF ChainInv

\* The entries and checkpoints are as they were, the rest is less or elsewhere.
LEMMA OtherKeeps ==
    ASSUME NEW f, NEW h, NEW e, ChainInv(f, h, e), NEW g \in ChainRows,
           NEW k \in {"content", "unsign", "share", "unbind", "reverse", "forward"}, DamageOf(k, g, f)
    PROVE  ChainInv(g, h \cup {k}, e)
<1>1. f \in ChainRows /\ Below(f) /\ Own(f) BY DEF ChainInv
<1>2. /\ g.log = f.log /\ g.anchors = f.anchors /\ g.next = f.next /\ g.secrets \subseteq f.secrets /\ g.sigs \subseteq f.sigs
      /\ \A s \in Sources : \E t \in Sources : g.sources[s] = f.sources[t]
  BY DEF DamageOf, SameBut
<1>3. /\ k \in {"content", "unsign", "share"} => Held(f) /\ g.index = f.index /\ g.forward = f.forward
      /\ k = "unbind" => f.index = "live" /\ g.index = "absent" /\ g.forward = f.forward
      /\ k = "reverse" => f.index = "live" /\ g.index = "absent"
      /\ k = "forward" => f.index = "live" /\ g.index = "malformed" /\ g.forward = f.forward
  BY DEF DamageOf, SameBut
<1>4. (Held(g) <=> Held(f)) /\ Ids(g) = Ids(f) /\ Own(g) /\ (Ends(g.log) <=> Ends(f.log)) /\ (SeriesFails(g) <=> SeriesFails(f))
  BY <1>1, <1>2, SameLogIs
<1>5. Below(g)
  <2>1. \A s \in Sources : g.sources[s] < g.next BY <1>1, <1>2 DEF Below
  <2> QED BY <1>1, <1>2, <2>1 DEF Below
<1>6. Checkpointed(g, h \cup {k}) BY <1>2, <1>4 DEF ChainInv, Checkpointed, Lost
<1>7. Marked(g, h \cup {k}, e)
  <2>1. CASE k \in {"content", "unsign", "share"} BY <1>2, <1>3, <1>4, <2>1 DEF ChainInv, Marked
  <2>2. CASE k = "unbind" BY <1>2, <1>3, <1>4, <2>2 DEF ChainInv, Marked
  <2>3. CASE k = "reverse" BY <1>2, <1>3, <1>4, <2>3 DEF ChainInv, Marked
  <2>4. CASE k = "forward" BY <1>2, <1>3, <1>4, <2>4 DEF ChainInv, Marked
  <2> QED BY <2>1, <2>2, <2>3, <2>4
<1>8. Unsealed(g, e) BY <1>2 DEF ChainInv, Unsealed
<1>9. Hidden(g, h \cup {k}, e)
  <2>1. Undone(h \cup {k}) <=> Undone(h) BY DEF Undone
  <2>2. "relink" \in h \cup {k} <=> "relink" \in h OBVIOUS
  <2>3. g.index = f.index \/ (f.index = "live" /\ g.index # "live")
    <3>1. CASE k \in {"content", "unsign", "share"} BY <1>3, <3>1
    <3>2. CASE k \in {"unbind", "reverse", "forward"} BY <1>3, <3>2
    <3> QED BY <3>1, <3>2
  <2>4. NoContent(f) => NoContent(g) BY <1>2 DEF NoContent
  <2> QED BY <1>4, <2>1, <2>2, <2>3, <2>4 DEF ChainInv, Hidden
<1>10. Sound(g, h \cup {k}) BY LastingIs DEF Lasting
<1> QED BY <1>4, <1>5, <1>6, <1>7, <1>8, <1>9, <1>10 DEF ChainInv

LEMMA RelinkKeeps ==
    ASSUME NEW f, NEW h, NEW e, ChainInv(f, h, e), NEW g \in ChainRows, DamageOf("relink", g, f)
    PROVE  ChainInv(g, h \cup {"relink"}, e)
<1> DEFINE k == h \cup {"relink"}
<1>1. f \in ChainRows /\ Below(f) /\ Own(f) BY DEF ChainInv
<1>2. Held(f) /\ Ends(f.log) /\ SameBut(g, f, {"index"}) /\ g.index = "live" BY DEF DamageOf
<1>3. /\ g.log = f.log /\ g.secrets = f.secrets /\ g.sigs = f.sigs /\ g.sources = f.sources
      /\ g.forward = f.forward /\ g.anchors = f.anchors /\ g.next = f.next
  BY <1>2 DEF SameBut
<1>4. (Held(g) <=> Held(f)) /\ Ids(g) = Ids(f) /\ Own(g) /\ (Ends(g.log) <=> Ends(f.log)) /\ (SeriesFails(g) <=> SeriesFails(f))
  BY <1>1, <1>3, SameLogIs
<1>5. Below(g) BY <1>1, <1>3 DEF Below
<1>6. Checkpointed(g, k) BY <1>3, <1>4 DEF ChainInv, Checkpointed, Lost
<1>7. Marked(g, k, e) BY <1>2, <1>3 DEF ChainInv, Marked
<1>8. Unsealed(g, e) BY <1>3 DEF ChainInv, Unsealed
<1>9. Hidden(g, k, e) BY <1>2, <1>4 DEF Hidden
<1>10. Sound(g, k)
  <2> SUFFICES ASSUME k \cap Lasting = {} PROVE Sound(g, k) BY DEF Sound
  <2>1. h \cap Lasting = {} OBVIOUS
  <2>2. Sound(f, h) BY DEF ChainInv
  <2>3. Stored(g, k) BY <1>3, <2>1, <2>2 DEF Sound, Stored
  <2> QED BY <1>2, <1>3, <1>4, <2>1, <2>2, <2>3 DEF Sound, Blank
<1> QED BY <1>4, <1>5, <1>6, <1>7, <1>8, <1>9, <1>10 DEF ChainInv

LEMMA DamageKeeps ==
    ASSUME NEW f, NEW h, NEW e, ChainInv(f, h, e), NEW d \in Damages(f)
    PROVE  ChainInv(d[2], h \cup {d[1]}, e)
<1>1. PICK k, g : k = d[1] /\ g = d[2] OBVIOUS
<1>2. f \in ChainRows BY DEF ChainInv
<1>3. g \in ChainRows /\ DamageOf(k, g, f) BY <1>1, <1>2, DamageRows
<1>4. CASE k \in {"remove", "truncate"}
  <2>1. SameBut(g, f, {"log"}) /\ DOMAIN g.log \subseteq DOMAIN f.log /\ \A i \in DOMAIN g.log : g.log[i] = f.log[i]
    BY <1>3, <1>4 DEF DamageOf
  <2> QED BY <1>1, <1>3, <1>4, <2>1, FewerKeeps
<1>5. CASE k \in {"forge", "follow"} BY <1>1, <1>3, <1>5, MoreKeeps
<1>6. CASE k \in {"content", "unsign", "share", "unbind", "reverse", "forward"} BY <1>1, <1>3, <1>6, OtherKeeps
<1>7. CASE k = "relink" BY <1>1, <1>3, <1>7, RelinkKeeps
<1>8. k \in {"remove", "truncate"} \/ k \in {"forge", "follow"} \/ k = "relink"
      \/ k \in {"content", "unsign", "share", "unbind", "reverse", "forward"}
  BY <1>3 DEF DamageOf
<1> QED BY <1>4, <1>5, <1>6, <1>7, <1>8

-----------------------------------------------------------------------------
(* What a step of a writer, a checkpointing process or somebody else leaves *)
(* of a chain that a reader may have looked at already: f before, g after,  *)
(* k the harm and d the erasures after                                      *)

Moved(f, g, k, d) ==
    /\ f.next <= g.next
    /\ f.anchors # <<>> => g.anchors # <<>>
    /\ Held(f) => Held(g) \/ Lost(k)
    /\ "share" \in k \/ \A s \in Sources : g.sources[s] \in {f.sources[s], 0, f.next}
    /\ f.index # "absent" => g.index # "absent" \/ g.next > 1 \/ d # {} \/ k \cap {"unbind", "reverse"} # {}
    /\ f.index = "absent" /\ ~Held(f) => g = f \/ ((Held(g) \/ "cut" \in k) /\ f.next = 1 /\ d = {})

LEMMA StillMoved == ASSUME NEW f \in ChainRows, NEW k, NEW d PROVE Moved(f, f, k, d)
BY DEF Moved, ChainRows

LEMMA NoChainIs == NoChain.next = 1
BY DEF NoChain

LEMMA CommitMoves ==
    ASSUME NEW f \in ChainRows, NEW k, NEW e, (f.index = "live" /\ Erasures(f) = {}) \/ (f = NoChain /\ e = {}),
           NEW s \in Sources, NEW g, g = Committed(f, s)
    PROVE  Moved(f, g, k, e)
<1>1. /\ g \in ChainRows /\ SameBut(g, f, {"log", "index", "secrets", "sigs", "sources", "next"})
      /\ g.index = "live" /\ g.next = f.next + 1
      /\ g.sources = [f.sources EXCEPT ![s] = f.next] /\ After(g.log, f.log, Event(f.next))
  BY CommittedRows
<1>2. Len(g.log) > 0
  <2>1. PICK n \in Nat : n = Len(f.log) BY IdsOf
  <2>2. Len(g.log) = n + 1 BY <1>1, <2>1 DEF After
  <2> QED BY <2>2
<1>3. Held(g) BY <1>1, <1>2, IdsOf
<1>4. \A t \in Sources : g.sources[t] \in {f.sources[t], 0, f.next}
  <2>1. f.sources \in [Sources -> Nat] BY DEF ChainRows
  <2> QED BY <1>1, <2>1
<1>5. f.next \in Nat BY DEF ChainRows
<1>6. f.next <= g.next BY <1>1, <1>5
<1>7. g.anchors = f.anchors BY <1>1 DEF SameBut
<1>8. f.index = "absent" => f.next = 1 /\ e = {} BY NoChainIs
<1> QED BY <1>1, <1>3, <1>4, <1>6, <1>7, <1>8 DEF Moved

LEMMA CutMoves ==
    ASSUME NEW f \in ChainRows, NEW h, NEW e, (f.index = "live" /\ Erasures(f) = {}) \/ (f = NoChain /\ e = {}),
           NEW s \in Sources, NEW g, CutOf(g, f, s)
    PROVE  Moved(f, g, h \cup {"cut"}, e)
<1>1. /\ g.log = f.log /\ g.anchors = f.anchors /\ g.index = "live" /\ g.next \in {f.next, f.next + 1}
      /\ \A t \in Sources : g.sources[t] \in {f.sources[t], 0, f.next}
  BY DEF CutOf
<1>2. Held(g) <=> Held(f) BY <1>1, SameLogIs
<1>3. f.next \in Nat BY DEF ChainRows
<1>4. f.next <= g.next BY <1>1, <1>3
<1>5. f.index = "absent" => f.next = 1 /\ e = {} BY NoChainIs
<1> QED BY <1>1, <1>2, <1>4, <1>5 DEF Moved

LEMMA ErasedMoves ==
    ASSUME NEW f \in ChainRows, Below(f), Own(f), f.index # "absent", NEW k, NEW d, d # {},
           NEW b \in {f, Wiped(f)} \cup (IF Held(f) THEN {Prepared(f), Recorded(f), Unopenable(f)} ELSE {Emptied(f)}),
           NEW x \in IndexStates, NEW g, g = [b EXCEPT !.index = x]
    PROVE  Moved(f, g, k, d)
<1>1. StopOf(b, f) BY StopRows
<1>2. g \in ChainRows /\ SameBut(g, b, {"index"}) BY <1>1, IndexRows DEF StopOf
<1>3. g.log = b.log /\ g.anchors = b.anchors /\ g.sources = b.sources /\ g.next = b.next BY <1>2 DEF SameBut
<1>4. /\ b.anchors = f.anchors /\ (Held(b) <=> Held(f)) /\ \A s \in Sources : b.sources[s] \in {0, f.sources[s]}
  BY <1>1 DEF StopOf
<1>5. Held(g) <=> Held(f) BY <1>3, <1>4, SameLogIs
<1>6. f.next \in Nat /\ b.next \in Nat BY <1>1 DEF ChainRows, StopOf
<1>7. f.next <= b.next
  <2>1. Recorded(f).next \in {f.next, f.next + 1} /\ Prepared(f).next \in {f.next, f.next + 1}
    <3>1. CASE Ends(f.log)
      <4>1. Recorded(f) = f /\ Prepared(f) = f BY <3>1, EndsErasedIs DEF Recorded, Prepared
      <4> QED BY <4>1
    <3>2. CASE ~Ends(f.log) BY <3>2, RecordedRows, PreparedRows
    <3> QED BY <3>1, <3>2
  <2>2. Held(f) => Unopenable(f).next = Recorded(f).next
    <3>1. Held(f) => Recorded(f) \in ChainRows BY RecordedIs
    <3>2. Recorded(f) \in ChainRows => SameBut(Unopenable(f), Recorded(f), {"secrets"}) BY UnopenableRows
    <3> QED BY <3>1, <3>2 DEF SameBut
  <2>3. Held(f) => Wiped(f).next = Unopenable(f).next
    <3>1. Held(f) => Wiped(f) = NoSources(Unopenable(f)) BY DEF Wiped
    <3>2. Held(f) => Unopenable(f) \in ChainRows BY WipedHeld
    <3>3. Unopenable(f) \in ChainRows => SameBut(NoSources(Unopenable(f)), Unopenable(f), {"sources"}) BY NoSourcesRows
    <3> QED BY <3>1, <3>2, <3>3 DEF SameBut
  <2>4. ~Held(f) => Wiped(f).next = f.next /\ Emptied(f).next = f.next
    <3>1. ~Held(f) => SameBut(Wiped(f), f, {"secrets", "sigs", "sources"}) /\ SameBut(Emptied(f), f, {"secrets", "sigs", "sources"})
      BY WipedEmpty
    <3> QED BY <3>1 DEF SameBut
  <2>5. b.next \in {f.next, f.next + 1}
    <3>1. CASE Held(f) BY <2>1, <2>2, <2>3, <3>1
    <3>2. CASE ~Held(f) BY <2>4, <3>2
    <3> QED BY <3>1, <3>2
  <2> QED BY <1>6, <2>5
<1> QED BY <1>3, <1>4, <1>5, <1>7 DEF Moved

LEMMA RepairMoves ==
    ASSUME NEW f \in ChainRows, NEW k, NEW d, NEW g, g = Repaired(f) \/ g = NoLeftovers(f), Held(f) \/ f.index = "live"
    PROVE  Moved(f, g, k, d)
<1>1. SameBut(g, f, {"secrets", "sigs", "sources"}) /\ \A s \in Sources : g.sources[s] \in {f.sources[s], 0}
  <2>1. CASE g = Repaired(f) BY <2>1, RepairedRows
  <2>2. CASE g = NoLeftovers(f) BY <2>2, NoLeftoversRows DEF SameBut
  <2> QED BY <2>1, <2>2
<1>2. g.log = f.log /\ g.anchors = f.anchors /\ g.index = f.index /\ g.next = f.next BY <1>1 DEF SameBut
<1>3. Held(g) <=> Held(f) BY <1>2, SameLogIs
<1>4. f.next <= g.next BY <1>2 DEF ChainRows
<1> QED BY <1>1, <1>2, <1>3, <1>4 DEF Moved

LEMMA AnchorMoves ==
    ASSUME NEW f \in ChainRows, NEW k, NEW d, NEW g \in ChainRows, SameBut(g, f, {"anchors"}), g.anchors # <<>>, Held(f)
    PROVE  Moved(f, g, k, d)
<1>1. g.log = f.log /\ g.sources = f.sources /\ g.index = f.index /\ g.next = f.next BY DEF SameBut
<1>2. Held(g) <=> Held(f) BY <1>1, SameLogIs
<1>3. f.next <= g.next BY <1>1 DEF ChainRows
<1> QED BY <1>1, <1>2, <1>3 DEF Moved

LEMMA DamageMoves ==
    ASSUME NEW f \in ChainRows, NEW h, NEW d, NEW g \in ChainRows, NEW k, DamageOf(k, g, f)
    PROVE  Moved(f, g, h \cup {k}, d)
<1>1. f.next \in Nat \ {0} BY DEF ChainRows
<1>2. g.next \in {f.next, f.next + 1} /\ (k = "forge" => g.next = f.next + 1) BY DEF DamageOf, SameBut
<1>3. f.next <= g.next /\ (k = "forge" => g.next > 1) BY <1>1, <1>2
<1>4. g.anchors = f.anchors BY DEF DamageOf, SameBut
<1>5. Held(f) => Held(g) \/ Lost(h \cup {k})
  <2>1. CASE k \in {"remove", "truncate"} BY <2>1 DEF Lost
  <2>2. CASE k \in {"forge", "follow"}
    <3>1. PICK n \in Nat : n = Len(f.log) BY IdsOf
    <3>2. Len(g.log) = n + 1 BY <2>2, <3>1 DEF DamageOf, After
    <3>3. n + 1 > 0 OBVIOUS
    <3> QED BY <3>2, <3>3, IdsOf
  <2>3. CASE k \in {"content", "unsign", "share", "unbind", "reverse", "forward", "relink"}
    <3>1. g.log = f.log BY <2>3 DEF DamageOf, SameBut
    <3> QED BY <3>1, SameLogIs
  <2> QED BY <2>1, <2>2, <2>3 DEF DamageOf
<1>6. k # "share" => \A s \in Sources : g.sources[s] = f.sources[s] BY DEF DamageOf, SameBut
<1>7. f.index # "absent" => g.index # "absent" \/ g.next > 1 \/ (h \cup {k}) \cap {"unbind", "reverse"} # {}
  <2>1. CASE k \in {"unbind", "reverse"} BY <2>1
  <2>2. CASE k = "forge" BY <1>3, <2>2
  <2>3. CASE k \notin {"unbind", "reverse", "forge"}
    <3>1. g.index \in {f.index, "live", "malformed"} BY <2>3 DEF DamageOf, SameBut
    <3> QED BY <3>1
  <2> QED BY <2>1, <2>2, <2>3
<1>8. Held(f) \/ f.index = "live" BY DEF DamageOf
<1> QED BY <1>3, <1>4, <1>5, <1>6, <1>7, <1>8 DEF Moved

-----------------------------------------------------------------------------
(* The folder *)

FolderInv ==
    /\ folder = [c \in Chains |-> folder[c]] /\ harm = [c \in Chains |-> harm[c]]
    /\ erased \subseteq Chains /\ ops \in 0..MaxOps
    /\ \A c \in Chains : ChainInv(folder[c], harm[c], erased \cap {c})
    /\ writing # 0 => writing \in Chains /\ Writing(folder[writing], erased \cap {writing})

AllMoved == \A c \in Chains : Moved(folder[c], folder'[c], harm'[c], erased' \cap {c})

LEMMA FolderInitInv == ASSUME FolderInit PROVE FolderInv
<1>1. /\ folder = [c \in Chains |-> NoChain] /\ writing = 0 /\ harm = [c \in Chains |-> {}] /\ erased = {} /\ ops = MaxOps
  BY DEF FolderInit
<1>2. \A c \in Chains : folder[c] = NoChain /\ harm[c] = {} BY <1>1
<1>3. folder = [c \in Chains |-> folder[c]] /\ harm = [c \in Chains |-> harm[c]] BY <1>1
<1>4. \A c \in Chains : ChainInv(folder[c], harm[c], erased \cap {c}) BY <1>1, <1>2, NoChainInv
<1>5. ops \in 0..MaxOps BY <1>1, FolderAssumption
<1> QED BY <1>1, <1>3, <1>4, <1>5 DEF FolderInv

\* One chain is other than it was.
LEMMA Replaced ==
    ASSUME FolderInv, NEW c \in Chains, NEW g, NEW k, NEW d,
           Set(c, g), harm' = [harm EXCEPT ![c] = k], erased' \in {erased, erased \cup {c}}, d = erased' \cap {c},
           ops' \in 0..MaxOps, writing' = 0 \/ (writing' = c /\ Writing(g, d)),
           ChainInv(g, k, d), Moved(folder[c], g, k, d)
    PROVE  FolderInv' /\ AllMoved
<1>1. folder = [b \in Chains |-> folder[b]] /\ harm = [b \in Chains |-> harm[b]] /\ erased \subseteq Chains BY DEF FolderInv
<1>2. PICK newFolder, newHarm, newErased : newFolder = folder' /\ newHarm = harm' /\ newErased = erased' OBVIOUS
<1>3. newFolder = [folder EXCEPT ![c] = g] /\ newHarm = [harm EXCEPT ![c] = k] /\ newErased \in {erased, erased \cup {c}}
  BY <1>2 DEF Set
<1>4. newFolder = [b \in Chains |-> newFolder[b]] /\ newHarm = [b \in Chains |-> newHarm[b]] BY <1>1, <1>3
<1>5. newFolder[c] = g /\ newHarm[c] = k BY <1>1, <1>3
<1>6. \A b \in Chains : b # c => newFolder[b] = folder[b] /\ newHarm[b] = harm[b] /\ newErased \cap {b} = erased \cap {b}
  <2>1. \A b \in Chains : b # c => newFolder[b] = folder[b] /\ newHarm[b] = harm[b] BY <1>1, <1>3
  <2>2. \A b \in Chains : b # c => newErased \cap {b} = erased \cap {b} BY <1>3
  <2> QED BY <2>1, <2>2
<1>7. \A b \in Chains : ChainInv(newFolder[b], newHarm[b], newErased \cap {b})
  <2> SUFFICES ASSUME NEW b \in Chains PROVE ChainInv(newFolder[b], newHarm[b], newErased \cap {b}) OBVIOUS
  <2>1. CASE b = c BY <1>2, <1>5, <2>1
  <2>2. CASE b # c
    <3>1. ChainInv(folder[b], harm[b], erased \cap {b}) BY DEF FolderInv
    <3> QED BY <1>6, <2>2, <3>1
  <2> QED BY <2>1, <2>2
<1>8. \A b \in Chains : Moved(folder[b], newFolder[b], newHarm[b], newErased \cap {b})
  <2> SUFFICES ASSUME NEW b \in Chains PROVE Moved(folder[b], newFolder[b], newHarm[b], newErased \cap {b}) OBVIOUS
  <2>1. CASE b = c BY <1>2, <1>5, <2>1
  <2>2. CASE b # c
    <3>1. folder[b] \in ChainRows BY DEF FolderInv, ChainInv
    <3>2. newFolder[b] = folder[b] BY <1>6, <2>2
    <3> QED BY <3>1, <3>2, StillMoved
  <2> QED BY <2>1, <2>2
<1>9. newErased \subseteq Chains BY <1>1, <1>3
<1>10. writing' # 0 => writing' \in Chains /\ Writing(newFolder[writing'], newErased \cap {writing'}) BY <1>2, <1>5
<1>11. FolderInv' BY <1>2, <1>4, <1>7, <1>9, <1>10 DEF FolderInv
<1>12. AllMoved BY <1>2, <1>8 DEF AllMoved
<1> QED BY <1>11, <1>12

LEMMA OpIs == ASSUME FolderInv, Op PROVE ops' \in 0..MaxOps
BY FolderAssumption DEF FolderInv, Op

LEMMA HarmSame == ASSUME FolderInv, NEW c \in Chains, UNCHANGED harm PROVE harm' = [harm EXCEPT ![c] = harm[c]]
BY DEF FolderInv

LEMMA CommitFolder == ASSUME FolderInv, NEW c \in Chains, NEW s \in Sources, Commit(c, s) PROVE FolderInv' /\ AllMoved
<1>1. PICK f : f = folder[c] OBVIOUS
<1>2. PICK e : e = erased \cap {c} OBVIOUS
<1>3. ChainInv(f, harm[c], e) /\ f \in ChainRows BY <1>1, <1>2 DEF FolderInv, ChainInv
<1>4. /\ Op /\ writing = 0 /\ writing' = 0 /\ erased' = erased /\ f.sources[s] \notin Ids(f)
      /\ \/ Set(c, Committed(f, s)) /\ UNCHANGED harm
         \/ /\ folder' \in {[folder EXCEPT ![c] = g] : g \in {Bind(f), PutContent(f), PutSigs(f), PutSource(f, s)}}
            /\ Befalls(c, {"cut"})
  BY <1>1 DEF Commit
<1>5. (f.index = "live" /\ Erasures(f) = {}) \/ (f = NoChain /\ e = {}) BY <1>1, <1>2 DEF Commit, Usable
<1>6. ops' \in 0..MaxOps BY <1>4, OpIs
<1>7. CASE Set(c, Committed(f, s)) /\ UNCHANGED harm
  <2>1. PICK g : g = Committed(f, s) OBVIOUS
  <2>2. ChainInv(g, harm[c], e) BY <1>3, <1>4, <1>5, <2>1, CommitKeeps
  <2>3. Moved(f, g, harm[c], e) BY <1>3, <1>5, <2>1, CommitMoves
  <2>4. harm' = [harm EXCEPT ![c] = harm[c]] BY <1>7, HarmSame
  <2> QED BY <1>1, <1>2, <1>4, <1>6, <1>7, <2>1, <2>2, <2>3, <2>4, Replaced
<1>8. CASE /\ folder' \in {[folder EXCEPT ![c] = g] : g \in {Bind(f), PutContent(f), PutSigs(f), PutSource(f, s)}}
           /\ Befalls(c, {"cut"})
  <2>1. PICK g \in {Bind(f), PutContent(f), PutSigs(f), PutSource(f, s)} : Set(c, g) BY <1>8 DEF Set
  <2>2. ChainInv(g, harm[c] \cup {"cut"}, e) BY <1>3, <1>5, CutKeeps
  <2>3. CutOf(g, f, s) BY <1>3, CutRows
  <2>4. Moved(f, g, harm[c] \cup {"cut"}, e) BY <1>3, <1>5, <2>3, CutMoves
  <2>5. harm' = [harm EXCEPT ![c] = harm[c] \cup {"cut"}] BY <1>8 DEF Befalls
  <2> QED BY <1>1, <1>2, <1>4, <1>6, <2>1, <2>2, <2>4, <2>5, Replaced
<1> QED BY <1>4, <1>7, <1>8

LEMMA EraseFolder == ASSUME FolderInv, NEW c \in Chains, Erase(c) PROVE FolderInv' /\ AllMoved
<1>1. PICK f : f = folder[c] OBVIOUS
<1>2. PICK d : d = erased' \cap {c} OBVIOUS
<1>3. ChainInv(f, harm[c], erased \cap {c}) /\ f \in ChainRows /\ Below(f) /\ Own(f) BY <1>1 DEF FolderInv, ChainInv
<1>4. /\ Op /\ writing' = 0 /\ f.index \in {"live", "pending"} /\ f.forward /\ erased' = erased \cup {c}
      /\ \/ Set(c, Gone(f)) /\ Heals(c, {"cut", "stopped", "relink"})
         \/ /\ \E b \in {f, Wiped(f)} \cup (IF Held(f) THEN {Prepared(f), Recorded(f), Unopenable(f)} ELSE {Emptied(f)}) :
                  Set(c, Forgotten(b))
            /\ Befalls(c, {"stopped"})
  BY <1>1 DEF Erase
<1>5. d # {} BY <1>2, <1>4
<1>6. ops' \in 0..MaxOps BY <1>4, OpIs
<1>7. CASE Set(c, Gone(f)) /\ Heals(c, {"cut", "stopped", "relink"})
  <2>1. PICK g : g = Gone(f) OBVIOUS
  <2>2. PICK k : k = harm[c] \ {"cut", "stopped", "relink"} OBVIOUS
  <2>3. ChainInv(g, k, d) BY <1>3, <1>4, <1>5, <2>1, <2>2, GoneKeeps
  <2>4. g = [Wiped(f) EXCEPT !.index = "absent"] BY <2>1 DEF Gone
  <2>5. Moved(f, g, k, d) BY <1>3, <1>4, <1>5, <2>4, ErasedMoves DEF IndexStates
  <2>6. harm' = [harm EXCEPT ![c] = k] BY <1>7, <2>2 DEF Heals
  <2> QED BY <1>1, <1>2, <1>4, <1>6, <1>7, <2>1, <2>3, <2>5, <2>6, Replaced
<1>8. CASE /\ \E b \in {f, Wiped(f)} \cup (IF Held(f) THEN {Prepared(f), Recorded(f), Unopenable(f)} ELSE {Emptied(f)}) :
                  Set(c, Forgotten(b))
           /\ Befalls(c, {"stopped"})
  <2>1. PICK b \in {f, Wiped(f)} \cup (IF Held(f) THEN {Prepared(f), Recorded(f), Unopenable(f)} ELSE {Emptied(f)}) : Set(c, Forgotten(b))
    BY <1>8
  <2>2. PICK g : g = Forgotten(b) OBVIOUS
  <2>3. PICK k : k = harm[c] \cup {"stopped"} OBVIOUS
  <2>4. StopOf(b, f) BY <1>3, StopRows
  <2>5. ChainInv(g, k, d) BY <1>3, <1>5, <2>2, <2>3, <2>4, StopKeeps
  <2>6. g = [b EXCEPT !.index = "pending"] BY <2>2 DEF Forgotten
  <2>7. Moved(f, g, k, d) BY <1>3, <1>4, <1>5, <2>6, ErasedMoves DEF IndexStates
  <2>8. harm' = [harm EXCEPT ![c] = k] BY <1>8, <2>3 DEF Befalls
  <2> QED BY <1>1, <1>2, <1>4, <1>6, <2>1, <2>2, <2>5, <2>7, <2>8, Replaced
<1> QED BY <1>4, <1>7, <1>8

LEMMA RepairFolder == ASSUME FolderInv, NEW c \in Chains, Repair(c) PROVE FolderInv' /\ AllMoved
<1>1. PICK f : f = folder[c] OBVIOUS
<1>2. PICK e : e = erased \cap {c} OBVIOUS
<1>3. ChainInv(f, harm[c], e) /\ f \in ChainRows BY <1>1, <1>2 DEF FolderInv, ChainInv
<1>4. /\ Op /\ writing' = 0 /\ erased' = erased /\ (Held(f) \/ f.index = "live")
      /\ \/ Set(c, Repaired(f)) /\ Heals(c, {"cut"})
         \/ Set(c, NoLeftovers(f)) /\ UNCHANGED harm
  BY <1>1 DEF Repair
<1>5. ops' \in 0..MaxOps BY <1>4, OpIs
<1>6. CASE Set(c, Repaired(f)) /\ Heals(c, {"cut"})
  <2>1. PICK g : g = Repaired(f) OBVIOUS
  <2>2. ChainInv(g, harm[c] \ {"cut"}, e) BY <1>3, <2>1, RepairKeeps
  <2>3. Moved(f, g, harm[c] \ {"cut"}, e) BY <1>3, <1>4, <2>1, RepairMoves
  <2>4. harm' = [harm EXCEPT ![c] = harm[c] \ {"cut"}] BY <1>6 DEF Heals
  <2> QED BY <1>1, <1>2, <1>4, <1>5, <1>6, <2>1, <2>2, <2>3, <2>4, Replaced
<1>7. CASE Set(c, NoLeftovers(f)) /\ UNCHANGED harm
  <2>1. PICK g : g = NoLeftovers(f) OBVIOUS
  <2>2. ChainInv(g, harm[c], e) BY <1>3, <2>1, RepairStopKeeps
  <2>3. Moved(f, g, harm[c], e) BY <1>3, <1>4, <2>1, RepairMoves
  <2>4. harm' = [harm EXCEPT ![c] = harm[c]] BY <1>7, HarmSame
  <2> QED BY <1>1, <1>2, <1>4, <1>5, <1>7, <2>1, <2>2, <2>3, <2>4, Replaced
<1> QED BY <1>4, <1>6, <1>7

LEMMA SeriesIs == ASSUME NEW f, NEW o, SeriesFails(f) PROVE "series" \in Problems(f, o)
BY DEF Problems

LEMMA CheckpointFolder == ASSUME FolderInv, NEW c \in Chains, CreateCheckpoint(c) PROVE FolderInv' /\ AllMoved
<1>1. PICK f : f = folder[c] OBVIOUS
<1>2. PICK e : e = erased \cap {c} OBVIOUS
<1>3. ChainInv(f, harm[c], e) /\ f \in ChainRows BY <1>1, <1>2 DEF FolderInv, ChainInv
<1>4. /\ Op /\ writing' = c /\ erased' = erased /\ Held(f) /\ (EndsErased(f) => e # {})
      /\ Problems(f, [trust |-> FALSE, require |-> FALSE]) = {}
      /\ Set(c, [f EXCEPT !.anchors = Append(@, Torn)]) /\ Befalls(c, {"torn"})
  BY <1>1, <1>2 DEF CreateCheckpoint
<1>5. ops' \in 0..MaxOps BY <1>4, OpIs
<1>6. ~SeriesFails(f)
  <2>1. PICK o : o = [trust |-> FALSE, require |-> FALSE] OBVIOUS
  <2>2. SeriesFails(f) => "series" \in Problems(f, o) BY SeriesIs
  <2> QED BY <1>4, <2>1, <2>2
<1>7. PICK g : g = [f EXCEPT !.anchors = Append(@, Torn)] OBVIOUS
<1>8. ChainInv(g, harm[c] \cup {"torn"}, e) /\ Writing(g, e) BY <1>3, <1>4, <1>6, <1>7, CreatedKeeps
<1>9. g \in ChainRows /\ SameBut(g, f, {"anchors"}) BY <1>3, <1>7, TornIs, AnchorRows
<1>10. Moved(f, g, harm[c] \cup {"torn"}, e) BY <1>3, <1>4, <1>8, <1>9, AnchorMoves DEF Writing
<1>11. harm' = [harm EXCEPT ![c] = harm[c] \cup {"torn"}] BY <1>4 DEF Befalls
<1> QED BY <1>1, <1>2, <1>4, <1>5, <1>7, <1>8, <1>10, <1>11, Replaced

LEMMA WriteFolder == ASSUME FolderInv, WriteCheckpoint PROVE FolderInv' /\ AllMoved
<1>1. PICK c \in Chains : c = writing BY DEF FolderInv, WriteCheckpoint
<1>2. PICK f : f = folder[c] OBVIOUS
<1>3. PICK e : e = erased \cap {c} OBVIOUS
<1>4. ChainInv(f, harm[c], e) /\ f \in ChainRows /\ Writing(f, e) BY <1>1, <1>2, <1>3 DEF FolderInv, ChainInv, WriteCheckpoint
<1>5. PICK g : g = [f EXCEPT !.anchors[Len(f.anchors)] = f.log] OBVIOUS
<1>6. /\ Set(c, g) /\ Heals(c, {"torn"}) /\ writing' = 0 /\ erased' = erased /\ ops' = ops
  BY <1>1, <1>2, <1>5 DEF WriteCheckpoint
<1>7. ChainInv(g, harm[c] \ {"torn"}, e) BY <1>4, <1>5, SealedKeeps
<1>8. g \in ChainRows /\ SameBut(g, f, {"anchors"}) /\ g.anchors # <<>> /\ Held(f) BY <1>4, <1>5, SealedRows DEF Writing
<1>9. Moved(f, g, harm[c] \ {"torn"}, e) BY <1>4, <1>8, AnchorMoves
<1>10. harm' = [harm EXCEPT ![c] = harm[c] \ {"torn"}] BY <1>6 DEF Heals
<1>11. ops' \in 0..MaxOps BY <1>6 DEF FolderInv
<1> QED BY <1>2, <1>3, <1>6, <1>7, <1>9, <1>10, <1>11, Replaced

LEMMA DamageFolder == ASSUME FolderInv, NEW c \in Chains, Damage(c) PROVE FolderInv' /\ AllMoved
<1>1. PICK f : f = folder[c] OBVIOUS
<1>2. PICK e : e = erased \cap {c} OBVIOUS
<1>3. ChainInv(f, harm[c], e) /\ f \in ChainRows BY <1>1, <1>2 DEF FolderInv, ChainInv
<1>4. PICK x \in Damages(f) : Set(c, x[2]) /\ Befalls(c, {x[1]}) BY <1>1 DEF Damage
<1>5. Op /\ writing' = 0 /\ erased' = erased BY DEF Damage
<1>6. ops' \in 0..MaxOps BY <1>5, OpIs
<1>7. PICK g : g = x[2] OBVIOUS
<1>8. PICK k : k = harm[c] \cup {x[1]} OBVIOUS
<1>9. ChainInv(g, k, e) BY <1>3, <1>7, <1>8, DamageKeeps
<1>10. g \in ChainRows /\ DamageOf(x[1], g, f) BY <1>3, <1>7, DamageRows
<1>11. Moved(f, g, k, e) BY <1>3, <1>8, <1>10, DamageMoves
<1>12. harm' = [harm EXCEPT ![c] = k] BY <1>4, <1>8 DEF Befalls
<1> QED BY <1>1, <1>2, <1>4, <1>5, <1>6, <1>7, <1>9, <1>11, <1>12, Replaced

LEMMA FolderSame == ASSUME FolderInv, UNCHANGED <<folder, harm, erased, ops>>, writing' \in {0, writing} PROVE FolderInv' /\ AllMoved
<1>1. \A c \in Chains : folder[c] \in ChainRows BY DEF FolderInv, ChainInv
<1>2. AllMoved BY <1>1, StillMoved DEF AllMoved
<1>3. FolderInv' BY DEF FolderInv
<1> QED BY <1>2, <1>3

LEMMA FolderKeeps == ASSUME FolderInv, FolderStep PROVE FolderInv' /\ AllMoved
<1>1. ASSUME NEW c \in Chains, NEW s \in Sources, Commit(c, s) PROVE FolderInv' /\ AllMoved BY <1>1, CommitFolder
<1>2. ASSUME NEW c \in Chains, Erase(c) PROVE FolderInv' /\ AllMoved BY <1>2, EraseFolder
<1>3. ASSUME NEW c \in Chains, Repair(c) PROVE FolderInv' /\ AllMoved BY <1>3, RepairFolder
<1>4. ASSUME NEW c \in Chains, CreateCheckpoint(c) PROVE FolderInv' /\ AllMoved BY <1>4, CheckpointFolder
<1>5. ASSUME NEW c \in Chains, Damage(c) PROVE FolderInv' /\ AllMoved BY <1>5, DamageFolder
<1>6. CASE WriteCheckpoint BY <1>6, WriteFolder
<1>7. CASE KillCheckpoint BY <1>7, FolderSame DEF KillCheckpoint
<1> QED BY <1>1, <1>2, <1>3, <1>4, <1>5, <1>6, <1>7 DEF FolderStep

-----------------------------------------------------------------------------
(* Export *)

\* What a bundle says of a chain, beside everything that befell the chain since the
\* call began.
Fits(x, felt) ==
    /\ x.forgotten /\ ~Undone(felt) => x.disclosed = {}
    /\ x.disclosed \subseteq Ids(x)
    /\ felt = {} => ~SeriesFails(x) /\ x.sigs = Ids(x) /\ (EndsErased(x) => x.disclosed = {})

LEMMA FitsLonger == ASSUME NEW x, NEW felt, NEW more, Fits(x, felt), felt \subseteq more PROVE Fits(x, more)
<1>1. Undone(felt) => Undone(more) BY DEF Undone
<1>2. more = {} => felt = {} OBVIOUS
<1> QED BY <1>1, <1>2 DEF Fits

\* A chain as it is read at this moment.
LEMMA OutFits ==
    ASSUME NEW c \in Chains, NEW f, f = folder[c], NEW h, ChainInv(f, h, erased \cap {c}), NEW ex, ~Refused(ex, c, f),
           NEW felt, h \subseteq felt, NEW x, x = ChainOut(ex, c)
    PROVE  x.chain = c /\ Fits(x, felt)
<1>1. f \in ChainRows BY DEF ChainInv
<1>2. /\ x.chain = c /\ x.log = f.log /\ x.sigs = f.sigs \cap Ids(f) /\ x.anchors = f.anchors
      /\ x.disclosed = Disclosed(ex, c, f) /\ x.forgotten = (c \in erased)
  BY DEF ChainOut
<1>3. Ids(x) = Ids(f) /\ (SeriesFails(x) <=> SeriesFails(f)) BY <1>2, SameLogIs
<1>4. EndsErased(x) <=> EndsErased(f)
  <2>1. Erasures(x) = Erasures(f) BY <1>2 DEF Erasures
  <2>2. LastErasure(x) = LastErasure(f) BY <2>1 DEF LastErasure
  <2> QED BY <1>2, <2>2 DEF EndsErased, Held
<1>5. EndsErased(f) => x.disclosed = {}
  <2> SUFFICES ASSUME EndsErased(f), NEW i \in DOMAIN f.log, Disclosable(f, i) PROVE FALSE BY <1>2 DEF Disclosed
  <2>1. PICK n \in Nat : n = Len(f.log) /\ DOMAIN f.log = 1..n BY <1>1, IdsOf
  <2>2. i > n BY <2>1 DEF Disclosable, EndsErased
  <2> QED BY <2>1, <2>2
<1>6. x.disclosed \subseteq Ids(x) BY <1>2, <1>3 DEF Disclosed, Ids
<1>7. ASSUME c \in erased, ~Undone(felt) PROVE x.disclosed = {}
  <2> SUFFICES ASSUME NEW i \in DOMAIN f.log, Disclosable(f, i), Wanted(ex, c, f.log[i].id) PROVE FALSE
    BY <1>2 DEF Disclosed
  <2>1. f.index # "pending" /\ f.log[i].type = "event" BY DEF Disclosable
  <2>2. ~Undone(h) BY <1>7 DEF Undone
  <2>3. Hidden(f, h, erased \cap {c}) /\ erased \cap {c} # {} BY <1>7 DEF ChainInv
  <2>4. CASE "relink" \in h
    <3>1. EndsErased(f) BY <1>1, <2>1, <2>2, <2>3, <2>4, EndsErasedIs DEF Hidden
    <3>2. f.log[i].id \in x.disclosed BY <1>2 DEF Disclosed
    <3> QED BY <1>5, <3>1, <3>2
  <2>5. CASE "relink" \notin h
    <3>1. f.log[i].id \notin f.secrets BY <2>1, <2>2, <2>3, <2>5 DEF Hidden, NoContent
    <3> QED BY <3>1 DEF Refused
  <2> QED BY <2>4, <2>5
<1>8. ASSUME felt = {} PROVE ~SeriesFails(x) /\ x.sigs = Ids(x)
  <2>1. h = {} BY <1>8
  <2>2. ~SeriesFails(f) BY <2>1 DEF ChainInv, Checkpointed, Lost
  <2>3. Ids(f) \subseteq f.sigs BY <2>1 DEF ChainInv, Sound
  <2> QED BY <1>2, <1>3, <2>2, <2>3
<1> QED BY <1>2, <1>4, <1>5, <1>6, <1>7, <1>8 DEF Fits

ExportShape(ex) ==
    ex = [at |-> ex.at, sel |-> ex.sel, policy |-> ex.policy, cursor |-> ex.cursor, chains |-> ex.chains,
          found |-> ex.found, bundle |-> ex.bundle, incomplete |-> ex.incomplete, pending |-> ex.pending, felt |-> ex.felt]

ExportOf(ex) ==
    /\ ExportShape(ex) /\ ex.at \in {"idle", "list", "chains", "done", "failed"}
    /\ ex.felt = [c \in Chains |-> ex.felt[c]]
    /\ ex.chains \subseteq Chains
    /\ \A x \in ex.bundle : x.chain \in Chains /\ Fits(x, ex.felt[x.chain])

Feeling(ex) == Busy(ex) => \A c \in Chains : harm[c] \subseteq ex.felt[c]

ExportInv == ExportOf(export) /\ Feeling(export)

LEMMA NoExportOf == ExportOf(NoExport) /\ NoExport.at = "idle"
<1>1. PICK ex : ex = NoExport OBVIOUS
<1>2. ex.at = "idle" /\ ex.chains = {} /\ ex.bundle = {} /\ ex.felt = [c \in Chains |-> {}] BY <1>1 DEF NoExport
<1>3. ExportShape(ex) BY <1>1 DEF ExportShape, NoExport
<1>4. ex.felt = [c \in Chains |-> ex.felt[c]] BY <1>2
<1> QED BY <1>1, <1>2, <1>3, <1>4 DEF ExportOf

LEMMA SmallestIs == ASSUME NEW S \in SUBSET Chains, S # {} PROVE Smallest(S) \in S
<1>1. S \subseteq Nat BY FolderAssumption
<1>2. \E m \in S : \A n \in S : m <= n BY <1>1, LeastNumber
<1> QED BY <1>2 DEF Smallest

\* Fields that are as they were.
LEMMA ExportNext ==
    ASSUME NEW ex, ExportOf(ex), NEW ey, ExportShape(ey), ey.at \in {"list", "chains", "done", "failed"},
           ey.felt = ex.felt, ey.chains \subseteq Chains,
           \A x \in ey.bundle : x \in ex.bundle \/ (x.chain \in Chains /\ Fits(x, ex.felt[x.chain])),
           Busy(ey) => Feeling(ex) /\ Busy(ex)
    PROVE  ExportOf(ey) /\ Feeling(ey)
<1>1. ExportOf(ey) BY DEF ExportOf
<1>2. Feeling(ey) BY DEF Feeling
<1> QED BY <1>1, <1>2

LEMMA ExportStartKeeps ==
    ASSUME FolderInv, NEW sel \in Selections, NEW policy \in Policies, ExportStart(sel, policy), UNCHANGED folderVars
    PROVE  ExportInv'
<1>1. PICK ex : ex = [NoExport EXCEPT !.sel = sel, !.policy = policy, !.felt = harm] OBVIOUS
<1>2. PICK chosen : chosen = CASE sel = "subject" -> {c \in Chains : folder[c].index = "live"}
                               [] sel = "chains"  -> Chains
                               [] OTHER           -> {}
  OBVIOUS
<1>3. chosen \subseteq Chains BY <1>2
<1>4. ex = [at |-> "idle", sel |-> sel, policy |-> policy, cursor |-> 0, chains |-> {}, found |-> {}, bundle |-> {},
            incomplete |-> {}, pending |-> {}, felt |-> harm]
  BY <1>1 DEF NoExport
<1>5. PICK ey : ey = export' OBVIOUS
<1>6. ey = IF sel = "all" THEN [ex EXCEPT !.at = "list"]
           ELSE IF chosen = {} THEN [ex EXCEPT !.at = "failed"]
           ELSE [ex EXCEPT !.at = "chains", !.chains = chosen]
  BY <1>1, <1>2, <1>5 DEF ExportStart
<1>7. ExportShape(ey) /\ ey.at \in {"list", "failed", "chains"} /\ ey.felt = harm /\ ey.bundle = {} /\ ey.chains \in {{}, chosen}
  <2>1. CASE ey = [ex EXCEPT !.at = "list"] BY <1>4, <2>1 DEF ExportShape
  <2>2. CASE ey = [ex EXCEPT !.at = "failed"] BY <1>4, <2>2 DEF ExportShape
  <2>3. CASE ey = [ex EXCEPT !.at = "chains", !.chains = chosen] BY <1>4, <2>3 DEF ExportShape
  <2> QED BY <1>6, <2>1, <2>2, <2>3
<1>8. harm' = harm /\ harm = [c \in Chains |-> harm[c]] BY DEF FolderInv, folderVars
<1>9. ExportOf(ey) BY <1>3, <1>7, <1>8 DEF ExportOf
<1>10. ExportOf(export)' BY <1>5, <1>9 DEF ExportOf, ExportShape, Fits
<1>11. Feeling(export)' BY <1>5, <1>7, <1>8 DEF Feeling
<1> QED BY <1>10, <1>11 DEF ExportInv

LEMMA ListChainsKeeps == ASSUME ExportInv, ListChains, UNCHANGED folderVars PROVE ExportInv'
<1>1. PICK ex : ex = export OBVIOUS
<1>2. ExportOf(ex) /\ Feeling(ex) /\ ex.at = "list" BY <1>1 DEF ExportInv, ListChains
<1>3. PICK left : left = {c \in Chains : Held(folder[c]) /\ c > ex.cursor} OBVIOUS
<1>4. PICK ey : ey = export' OBVIOUS
<1>5. ey = CASE left # {} -> [ex EXCEPT !.cursor = Smallest(left), !.chains = @ \cup {Smallest(left)}]
             [] left = {} /\ ex.chains = {} -> [ex EXCEPT !.at = "failed"]
             [] OTHER -> [ex EXCEPT !.at = "chains"]
  BY <1>1, <1>3, <1>4 DEF ListChains
<1>6. ExportShape(ex) BY <1>2 DEF ExportOf
<1>7. /\ ExportShape(ey) /\ ey.at \in {"list", "failed", "chains"} /\ ey.felt = ex.felt /\ ey.bundle = ex.bundle
      /\ ey.chains \subseteq Chains
  <2>1. CASE left # {}
    <3>1. PICK c \in Chains : c = Smallest(left) BY <1>3, <2>1, SmallestIs
    <3>2. ey = [ex EXCEPT !.cursor = c, !.chains = @ \cup {c}] BY <1>5, <2>1, <3>1
    <3>3. ey.chains = ex.chains \cup {c} BY <1>6, <3>2 DEF ExportShape
    <3>4. ex.chains \subseteq Chains BY <1>2 DEF ExportOf
    <3> QED BY <1>2, <1>6, <3>2, <3>3, <3>4 DEF ExportShape
  <2>2. CASE left = {}
    <3>1. PICK at \in {"failed", "chains"} : ey = [ex EXCEPT !.at = at] BY <1>5, <2>2
    <3>2. ex.chains \subseteq Chains BY <1>2 DEF ExportOf
    <3> QED BY <1>6, <3>1, <3>2 DEF ExportShape
  <2> QED BY <2>1, <2>2
<1>8. Busy(ex) BY <1>2 DEF Busy
<1>9. ExportOf(ey) /\ Feeling(ey) BY <1>2, <1>7, <1>8, ExportNext
<1>10. harm' = harm BY DEF folderVars
<1>11. ExportOf(export)' BY <1>4, <1>9 DEF ExportOf, ExportShape, Fits
<1>12. Feeling(export)' BY <1>4, <1>9, <1>10 DEF Feeling
<1> QED BY <1>11, <1>12 DEF ExportInv

LEMMA ExportChainKeeps == ASSUME FolderInv, ExportInv, ExportChain, UNCHANGED folderVars PROVE ExportInv'
<1>1. PICK ex : ex = export OBVIOUS
<1>2. ExportOf(ex) /\ Feeling(ex) /\ ex.at = "chains" /\ ex.chains # {} BY <1>1 DEF ExportInv, ExportChain
<1>3. PICK c \in Chains : c = Smallest(ex.chains)
  <2>1. ex.chains \in SUBSET Chains BY <1>2 DEF ExportOf
  <2> QED BY <1>2, <2>1, SmallestIs
<1>4. PICK f : f = folder[c] OBVIOUS
<1>5. PICK ey : ey = export' OBVIOUS
<1>6. PICK incomplete, pending, found, chains :
        /\ chains = ex.chains \ {c}
        /\ ey = IF ~Held(f) \/ Refused(ex, c, f) THEN [ex EXCEPT !.at = "failed"]
                ELSE [ex EXCEPT !.chains = chains, !.bundle = @ \cup {ChainOut(ex, c)}, !.found = found,
                                !.incomplete = incomplete, !.pending = pending]
  BY <1>1, <1>3, <1>4, <1>5 DEF ExportChain
<1>7. ExportShape(ex) BY <1>2 DEF ExportOf
<1>8. Busy(ex) /\ harm[c] \subseteq ex.felt[c] BY <1>2 DEF Busy, Feeling
<1>9. ExportOf(ey) /\ Feeling(ey)
  <2>1. CASE ~Held(f) \/ Refused(ex, c, f)
    <3>1. ey = [ex EXCEPT !.at = "failed"] BY <1>6, <2>1
    <3>2. ExportShape(ey) /\ ey.at = "failed" /\ ey.felt = ex.felt /\ ey.bundle = ex.bundle /\ ey.chains = ex.chains
      BY <1>7, <3>1 DEF ExportShape
    <3>3. ~Busy(ey) BY <3>2 DEF Busy
    <3>4. ex.chains \subseteq Chains BY <1>2 DEF ExportOf
    <3> QED BY <1>2, <3>2, <3>3, <3>4, ExportNext
  <2>2. CASE ~(~Held(f) \/ Refused(ex, c, f))
    <3>1. PICK x : x = ChainOut(ex, c) OBVIOUS
    <3>2. x.chain = c /\ Fits(x, ex.felt[c])
      <4>1. ChainInv(f, harm[c], erased \cap {c}) BY <1>4 DEF FolderInv
      <4> QED BY <1>4, <1>8, <2>2, <3>1, <4>1, OutFits
    <3>3. ey = [ex EXCEPT !.chains = chains, !.bundle = @ \cup {x}, !.found = found, !.incomplete = incomplete, !.pending = pending]
      BY <1>6, <2>2, <3>1
    <3>4. ExportShape(ey) /\ ey.at = "chains" /\ ey.felt = ex.felt /\ ey.bundle = ex.bundle \cup {x} /\ ey.chains = chains
      BY <1>2, <1>7, <3>3 DEF ExportShape
    <3>5. chains \subseteq Chains BY <1>2, <1>6 DEF ExportOf
    <3>6. \A y \in ey.bundle : y \in ex.bundle \/ (y.chain \in Chains /\ Fits(y, ex.felt[y.chain])) BY <3>2, <3>4
    <3> QED BY <1>2, <1>8, <3>4, <3>5, <3>6, ExportNext
  <2> QED BY <2>1, <2>2
<1>10. harm' = harm BY DEF folderVars
<1>11. ExportOf(export)' BY <1>5, <1>9 DEF ExportOf, ExportShape, Fits
<1>12. Feeling(export)' BY <1>5, <1>9, <1>10 DEF Feeling
<1> QED BY <1>11, <1>12 DEF ExportInv

LEMMA ExportDoneKeeps == ASSUME ExportInv, ExportDone, UNCHANGED folderVars PROVE ExportInv'
<1>1. PICK ex : ex = export OBVIOUS
<1>2. ExportOf(ex) /\ Feeling(ex) BY <1>1 DEF ExportInv
<1>3. PICK ey : ey = export' OBVIOUS
<1>4. PICK at \in {"done", "failed"} : ey = [ex EXCEPT !.at = at] BY <1>1, <1>3 DEF ExportDone
<1>5. ExportShape(ex) /\ ex.chains \subseteq Chains BY <1>2 DEF ExportOf
<1>6. ExportShape(ey) /\ ey.at = at /\ ey.felt = ex.felt /\ ey.bundle = ex.bundle /\ ey.chains = ex.chains
  BY <1>4, <1>5 DEF ExportShape
<1>7. ~Busy(ey) BY <1>6 DEF Busy
<1>8. ExportOf(ey) /\ Feeling(ey) BY <1>2, <1>5, <1>6, <1>7, ExportNext
<1>9. ExportOf(export)' BY <1>3, <1>8 DEF ExportOf, ExportShape, Fits
<1>10. Feeling(export)' BY <1>3, <1>6 DEF Feeling, Busy
<1> QED BY <1>9, <1>10 DEF ExportInv

\* Writers work between the chains.
LEMMA ExportFeels ==
    ASSUME FolderInv, ExportInv, export.at \notin {"done", "failed"}, export' = Feels(export) PROVE ExportInv'
<1>1. PICK ex : ex = export OBVIOUS
<1>2. ExportOf(ex) /\ Feeling(ex) /\ ExportShape(ex) BY <1>1 DEF ExportInv, ExportOf
<1>3. PICK ey : ey = export' OBVIOUS
<1>4. CASE Busy(ex)
  <2>1. PICK felt : felt = [c \in Chains |-> ex.felt[c] \cup harm'[c]] OBVIOUS
  <2>2. ey = [ex EXCEPT !.felt = felt] BY <1>1, <1>3, <1>4, <2>1 DEF Feels
  <2>3. ExportShape(ey) /\ ey.at = ex.at /\ ey.felt = felt /\ ey.bundle = ex.bundle /\ ey.chains = ex.chains
    BY <1>2, <2>2 DEF ExportShape
  <2>4. felt = [c \in Chains |-> felt[c]] /\ \A c \in Chains : ex.felt[c] \subseteq felt[c] /\ harm'[c] \subseteq felt[c] BY <2>1
  <2>5. \A x \in ey.bundle : x.chain \in Chains /\ Fits(x, felt[x.chain])
    <3> SUFFICES ASSUME NEW x \in ex.bundle PROVE x.chain \in Chains /\ Fits(x, felt[x.chain]) BY <2>3
    <3>1. x.chain \in Chains /\ Fits(x, ex.felt[x.chain]) BY <1>2 DEF ExportOf
    <3>2. ex.felt[x.chain] \subseteq felt[x.chain] BY <2>4, <3>1
    <3> QED BY <3>1, <3>2, FitsLonger
  <2>6. ExportOf(ey) BY <1>2, <2>3, <2>4, <2>5 DEF ExportOf
  <2>7. ExportOf(export)' BY <1>3, <2>6 DEF ExportOf, ExportShape, Fits
  <2>8. Feeling(export)' BY <1>3, <2>3, <2>4 DEF Feeling
  <2> QED BY <2>7, <2>8 DEF ExportInv
<1>5. CASE ~Busy(ex)
  <2>1. ey = ex BY <1>1, <1>3, <1>5 DEF Feels
  <2>2. ExportOf(export)' BY <1>2, <1>3, <2>1 DEF ExportOf, ExportShape, Fits
  <2>3. ~Busy(export)' BY <1>3, <1>5, <2>1 DEF Busy
  <2> QED BY <2>2, <2>3 DEF ExportInv, Feeling
<1> QED BY <1>4, <1>5

LEMMA ExportSame == ASSUME ExportInv, UNCHANGED <<folderVars, export>> PROVE ExportInv'
<1>1. ExportOf(export)' BY DEF ExportInv, ExportOf, ExportShape, Fits
<1>2. Feeling(export)' BY DEF ExportInv, Feeling, folderVars
<1> QED BY <1>1, <1>2 DEF ExportInv

ReadInv == FolderInv /\ ExportInv

LEMMA ReadInit == ASSUME Init PROVE ReadInv
<1>1. FolderInv BY FolderInitInv DEF Init
<1>2. ExportInv BY NoExportOf DEF Init, ExportInv, Feeling, Busy
<1> QED BY <1>1, <1>2 DEF ReadInv

LEMMA ReadStep == ASSUME ReadInv, [Next]_vars PROVE ReadInv'
<1>1. FolderInv /\ ExportInv BY DEF ReadInv
<1>2. CASE FolderStep /\ run.at # "done" /\ export.at \notin {"done", "failed"} /\ run' = Feels(run) /\ export' = Feels(export)
  BY <1>1, <1>2, FolderKeeps, ExportFeels DEF ReadInv
<1>3. CASE UNCHANGED <<folderVars, export>>
  <2>1. FolderInv' BY <1>1, <1>3, FolderSame DEF folderVars
  <2> QED BY <1>1, <1>3, <2>1, ExportSame DEF ReadInv
<1>4. CASE ExportStep /\ UNCHANGED <<folderVars, run>>
  <2>1. FolderInv' BY <1>1, <1>4, FolderSame DEF folderVars
  <2>2. ExportInv' BY <1>1, <1>4, ExportStartKeeps, ListChainsKeeps, ExportChainKeeps, ExportDoneKeeps DEF ExportStep
  <2> QED BY <2>1, <2>2 DEF ReadInv
<1> QED BY <1>2, <1>3, <1>4 DEF Next, vars, folderVars

\* Every chain's rows are what befell it can have led to, and a bundle holds of each
\* chain what it had when it was read (the writers of the sink package, Sink.Export).
THEOREM ReadInvAlways == Spec => []ReadInv
<1>1. Init => ReadInv BY ReadInit
<1>2. ReadInv /\ [Next]_vars => ReadInv' BY ReadStep
<1> QED BY <1>1, <1>2, PTL DEF Spec

\* Export never writes content of a chain whose erasure had begun (exporter.chain,
\* checkDisclosable).
THEOREM ForgottenAlwaysWithheld == Spec => []ForgottenWithheld
<1>1. ReadInv => ForgottenWithheld BY DEF ReadInv, ExportInv, ExportOf, ForgottenWithheld, Fits
<1> QED BY <1>1, ReadInvAlways, PTL

\* What a finished bundle says of each chain fits together (Sink.Export).
THEOREM BundlesConsistent == Spec => []BundleConsistent
<1>1. ReadInv => BundleConsistent BY DEF ReadInv, ExportInv, ExportOf, BundleConsistent, Fits
<1> QED BY <1>1, ReadInvAlways, PTL

-----------------------------------------------------------------------------
(* Verify *)

\* A chain whose rows agree has no problem but a checkpoint that is asked for.
LEMMA CleanIs ==
    ASSUME NEW f, NEW e, ChainInv(f, {}, e), Held(f), NEW opts PROVE Problems(f, opts) \subseteq {"no checkpoint"}
<1>1. f \in ChainRows /\ Own(f) BY DEF ChainInv
<1>2. PICK n \in Nat : n = Len(f.log) /\ DOMAIN f.log = 1..n /\ n > 0 BY <1>1, IdsOf
<1>3. /\ \A i \in DOMAIN f.log : f.log[i].type = "erasure" => i = n /\ i > 1
      /\ f.index = "live" => ~Ends(f.log)
      /\ f.index = "absent" => Ends(f.log)
      /\ Stored(f, {})
      /\ f.secrets \subseteq Ids(f)
      /\ Ids(f) \subseteq f.sigs
  BY <1>2 DEF ChainInv, Sound
<1>4. f.index \in {"absent", "live"}
  <2>1. f.index \in IndexStates BY <1>1 DEF ChainRows
  <2> QED BY <2>1 DEF ChainInv, Marked, IndexStates
<1>5. ~SeriesFails(f) BY DEF ChainInv, Checkpointed, Lost
<1>6. EndsErased(f) <=> Ends(f.log) BY <1>1, EndsErasedIs
<1>7. Erasures(f) # {} => Ends(f.log)
  <2>1. ASSUME NEW i \in Erasures(f) PROVE Ends(f.log) BY <1>2, <1>3 DEF Erasures, Ends
  <2> QED BY <2>1
<1>8. IndexProblems(f) = {}
  <2>1. CASE f.index = "live"
    <3>1. Erasures(f) = {} BY <1>3, <1>7, <2>1
    <3> QED BY <2>1, <3>1 DEF IndexProblems
  <2>2. CASE f.index = "absent" BY <1>3, <1>6, <2>2 DEF IndexProblems
  <2> QED BY <1>4, <2>1, <2>2
<1>9. EntryProblems(f) = {}
  <2> SUFFICES ASSUME NEW i \in DOMAIN f.log PROVE CheckEntry(f, i) = {} BY Zenon DEF EntryProblems
  <2>1. PICK x \in Entries : x = f.log[i] BY <1>1, IdsOf
  <2>2. CASE x.type = "erasure"
    <3>1. i = n /\ i # 1 /\ Ends(f.log) BY <1>2, <1>3, <2>1, <2>2 DEF Ends
    <3>2. x.id \in f.secrets BY <1>2, <1>3, <2>1, <3>1 DEF Stored
    <3> QED BY <2>1, <2>2, <3>1, <3>2 DEF CheckEntry, HasContent
  <2>3. CASE x.type = "event"
    <3>1. CASE Ends(f.log)
      <4>1. LastErasure(f) = n BY <1>2, <1>6, <3>1 DEF EndsErased
      <4>2. i # n BY <1>2, <2>1, <2>3, <3>1 DEF Ends
      <4>3. i < n BY <1>2, <4>2
      <4>4. x.id \notin f.secrets BY <1>2, <1>3, <2>1, <3>1, <4>3 DEF Stored
      <4> QED BY <2>1, <2>3, <4>1, <4>3, <4>4 DEF CheckEntry, HasContent
    <3>2. CASE ~Ends(f.log)
      <4>1. Erasures(f) = {} BY <1>7, <3>2
      <4>2. LastErasure(f) = 0 BY <4>1 DEF LastErasure
      <4>3. ~(i < 0) BY <1>2
      <4>4. x.id \in f.secrets BY <1>3, <2>1, <3>2 DEF Stored
      <4> QED BY <2>1, <2>3, <4>2, <4>3, <4>4 DEF CheckEntry, HasContent
    <3> QED BY <3>1, <3>2
  <2> QED BY <2>2, <2>3 DEF Entries
<1> QED BY <1>3, <1>5, <1>6, <1>7, <1>8, <1>9 DEF Problems

LEMMA UnsignedIs == ASSUME NEW f, NEW o, o.trust, ~(Ids(f) \subseteq f.sigs) PROVE "unsigned" \in Problems(f, o)
BY DEF Problems

\* What is reported erased was erased by the sink.
LEMMA ReportedErasedIs ==
    ASSUME NEW f, NEW h, NEW e, ChainInv(f, h, e), NEW opts, ReportsErased(f, opts) PROVE e # {}
<1> SUFFICES ASSUME e = {} PROVE FALSE OBVIOUS
<1>1. f \in ChainRows BY DEF ChainInv
<1>2. EndsErased(f) /\ Ends(f.log) BY <1>1, EndsErasedIs DEF ReportsErased
<1>3. PICK n \in Nat : n = Len(f.log) /\ DOMAIN f.log = 1..n /\ n > 1 /\ f.log[n].type = "erasure" BY <1>1, <1>2, IdsOf DEF Ends
<1>4. CASE ~SeriesFails(f) /\ CoveredBy(f) = Len(f.log)
  <2>1. PICK m \in Nat : m = Len(f.anchors) /\ DOMAIN f.anchors = 1..m
    <3>1. f.anchors \in Seq(Seq(Entries)) BY <1>1 DEF ChainRows
    <3> QED BY <3>1
  <2>2. f.anchors # <<>> BY <1>3, <1>4 DEF CoveredBy
  <2>3. m > 0
    <3>1. f.anchors \in Seq(Seq(Entries)) BY <1>1 DEF ChainRows
    <3>2. Len(f.anchors) # 0 BY <2>2, <3>1
    <3> QED BY <2>1, <3>2
  <2>4. PICK a \in Seq(Entries) : a = f.anchors[m]
    <3>1. f.anchors \in Seq(Seq(Entries)) /\ m \in 1..m BY <1>1, <2>3 DEF ChainRows
    <3>2. f.anchors[m] \in Seq(Entries) BY <2>1, <3>1
    <3> QED BY <3>2
  <2>5. Len(a) = n BY <1>3, <1>4, <2>1, <2>2, <2>4 DEF CoveredBy
  <2>6. m \in DOMAIN f.anchors /\ a # Torn /\ IsPrefix(a, f.log) BY <1>4, <2>1, <2>3, <2>4 DEF SeriesFails
  <2>7. a[n] = f.log[n]
    <3>1. DOMAIN a = 1..n /\ n \in 1..n BY <1>3, <2>4, <2>5
    <3> QED BY <2>6, <3>1 DEF IsPrefix
  <2>8. a[Len(a)].type = "event" BY <2>4, <2>6 DEF ChainInv, Unsealed
  <2> QED BY <1>3, <2>5, <2>7, <2>8
<1>5. CASE opts.trust /\ Problems(f, opts) = {}
  <2>1. Ids(f) \subseteq f.sigs BY <1>5, UnsignedIs
  <2>2. n \in DOMAIN f.log BY <1>3
  <2>3. f.log[n].id \in f.sigs BY <2>1, <2>2 DEF Ids
  <2> QED BY <1>3, <2>2, <2>3 DEF ChainInv, Unsealed
<1> QED BY <1>4, <1>5 DEF ReportsErased

-----------------------------------------------------------------------------
(* What a verification has seen of a chain: r is the call, f the chain's    *)
(* rows, h what befell it and e empty unless the sink began to erase it     *)

Stages == {"idle", "walk", "index", "forward", "open anchors", "anchors", "content", "signatures", "sources", "done"}

RunShape(r) ==
    /\ r = [at |-> r.at, opts |-> r.opts, cursor |-> r.cursor, rows |-> r.rows, problems |-> r.problems,
            reported |-> r.reported, removed |-> r.removed, erased |-> r.erased, invalid |-> r.invalid,
            todo |-> r.todo, source |-> r.source, srcChain |-> r.srcChain, srcHeld |-> r.srcHeld, srcIds |-> r.srcIds,
            noChain |-> r.noChain, began |-> r.began, felt |-> r.felt, since |-> r.since]
    /\ r.rows = [c \in Chains |-> r.rows[c]] /\ r.problems = [c \in Chains |-> r.problems[c]]
    /\ r.noChain = [c \in Chains |-> r.noChain[c]] /\ r.felt = [c \in Chains |-> r.felt[c]]

RunTypes(r) ==
    /\ r.at \in Stages /\ r.cursor \in Nat /\ r.source \in Nat /\ r.srcChain \in Nat /\ r.srcHeld \in BOOLEAN
    /\ r.reported \subseteq Chains /\ r.removed \subseteq Chains /\ r.erased \subseteq Chains /\ r.todo \subseteq Chains
    /\ \A c \in Chains : r.noChain[c] \in Nat
    /\ r.at = "sources" => r.cursor = r.srcChain
    /\ r.at \notin {"sources", "done"} => r.srcChain = 0 /\ r.source = 0 /\ \A c \in Chains : r.noChain[c] = 0

\* Why a chain may be called removed.
Taken(felt, began) ==
    felt \cap {"remove", "truncate", "unbind", "reverse", "forward"} # {} \/ "cut" \in felt \ began
Excused(r, c) == Taken(r.felt[c], r.began[c])

\* The sweep's first stage has gone by the chain.
Past(r, c) ==
    \/ r.at = "index" /\ c <= r.cursor
    \/ r.at \in {"forward", "open anchors", "anchors", "content", "signatures", "sources", "done"}

\* A chain that the index rows do not explain has its entries or nothing at all.
Accounted(r, c, f) == ~Explained(r, c) /\ ~Excused(r, c) => Held(f) \/ (Blank(f) /\ f.index = "absent")

\* The entries pointed at so far.
Pointed(r, c, f) ==
    /\ ~r.srcHeld => r.felt[c] # {} /\ (~Explained(r, c) => Excused(r, c))
    /\ r.felt[c] = {} => /\ \A x \in r.srcIds : x \in Nat /\ 0 < x /\ x < f.next
                         /\ \A s \in Sources : s > r.source => f.sources[s] \notin r.srcIds

\* What was reported of it.
Judged(r, c, e) ==
    /\ r.felt[c] = {} => r.problems[c] \subseteq {"no checkpoint"} /\ r.noChain[c] = 0
    /\ c \in r.removed => Excused(r, c)
    /\ r.noChain[c] > 0 /\ ~Explained(r, c) => Excused(r, c)
    /\ c \in r.erased => e # {}

ChainSeen(r, c, f, h, e) ==
    /\ Busy(r) => h \subseteq r.felt[c]
    /\ Judged(r, c, e)
    /\ r.at = "anchors" /\ c \in r.todo => f.anchors # <<>>
    /\ Past(r, c) => Accounted(r, c, f)
    /\ Busy(r) /\ "cut" \in r.began[c] => f.index # "absent" \/ f.next > 1 \/ e # {} \/ Excused(r, c)
    /\ r.at = "sources" /\ r.srcChain = c => Pointed(r, c, f)

RunOf(r, fs, hs, es) ==
    /\ RunShape(r) /\ RunTypes(r)
    /\ \A c \in Chains : ChainSeen(r, c, fs[c], hs[c], es \cap {c})

LEMMA TakenLonger == ASSUME NEW felt, NEW began, NEW more, felt \subseteq more, Taken(felt, began) PROVE Taken(more, began)
BY DEF Taken

\* A call that has not begun.
LEMMA NoRunOf == ASSUME NEW fs, NEW hs, NEW es PROVE RunOf(NoRun, fs, hs, es)
<1>1. PICK r : r = NoRun OBVIOUS
<1>2. /\ r.at = "idle" /\ r.cursor = 0 /\ r.source = 0 /\ r.srcChain = 0 /\ r.srcHeld = FALSE
      /\ r.reported = {} /\ r.removed = {} /\ r.erased = {} /\ r.todo = {}
      /\ r.noChain = [c \in Chains |-> 0] /\ r.felt = [c \in Chains |-> {}]
      /\ r.problems = [c \in Chains |-> {}] /\ r.rows = [c \in Chains |-> "none"]
  BY <1>1 DEF NoRun
<1>3. RunShape(r)
  <2>1. r.rows = [c \in Chains |-> r.rows[c]] /\ r.problems = [c \in Chains |-> r.problems[c]]
        /\ r.noChain = [c \in Chains |-> r.noChain[c]] /\ r.felt = [c \in Chains |-> r.felt[c]]
    BY <1>2
  <2> QED BY <1>1, <2>1 DEF RunShape, NoRun
<1>4. \A c \in Chains : r.noChain[c] = 0 /\ r.problems[c] = {} BY <1>2
<1>5. RunTypes(r)
  <2>1. r.at \in Stages BY <1>2 DEF Stages
  <2>2. r.srcHeld \in BOOLEAN BY <1>2, Zenon
  <2>3. r.cursor \in Nat /\ r.source \in Nat /\ r.srcChain \in Nat BY <1>2
  <2>4. \A c \in Chains : r.noChain[c] \in Nat BY <1>4
  <2>5. r.reported \subseteq Chains /\ r.removed \subseteq Chains /\ r.erased \subseteq Chains /\ r.todo \subseteq Chains BY <1>2
  <2>6. r.at # "sources" BY <1>2
  <2>7. r.srcChain = 0 /\ r.source = 0 BY <1>2
  <2> QED BY <1>4, <2>1, <2>2, <2>3, <2>4, <2>5, <2>6, <2>7, Zenon DEF RunTypes
<1>6. ASSUME NEW c \in Chains PROVE ChainSeen(r, c, fs[c], hs[c], es \cap {c})
  <2>1. Judged(r, c, es \cap {c}) BY <1>2, <1>4 DEF Judged
  <2>2. ~Busy(r) /\ ~Past(r, c) /\ r.at # "anchors" /\ r.at # "sources" BY <1>2 DEF Busy, Past
  <2> QED BY <2>1, <2>2 DEF ChainSeen
<1> QED BY <1>1, <1>3, <1>5, <1>6 DEF RunOf

\* A step of somebody else while the call goes on.
LEMMA SeenFeels ==
    ASSUME NEW r, NEW c, NEW f \in ChainRows, NEW h, NEW e, ChainSeen(r, c, f, h, e), Busy(r),
           NEW g \in ChainRows, NEW k, NEW d, e \subseteq d, Moved(f, g, k, d),
           NEW q, q.felt[c] = r.felt[c] \cup k, q.began = r.began, q.at = r.at, q.cursor = r.cursor, q.rows = r.rows,
           q.problems = r.problems, q.removed = r.removed, q.erased = r.erased, q.todo = r.todo, q.noChain = r.noChain,
           q.source = r.source, q.srcChain = r.srcChain, q.srcHeld = r.srcHeld, q.srcIds = r.srcIds
    PROVE  ChainSeen(q, c, g, k, d)
<1>1. Excused(r, c) => Excused(q, c) BY TakenLonger DEF Excused
<1>2. Explained(q, c) <=> Explained(r, c) BY DEF Explained
<1>3. q.felt[c] = {} => r.felt[c] = {} /\ k = {} OBVIOUS
<1>4. Lost(k) \/ k \cap {"unbind", "reverse"} # {} => Excused(q, c) BY DEF Excused, Taken, Lost
<1>5. Judged(q, c, d) BY <1>1, <1>2, <1>3 DEF ChainSeen, Judged
<1>6. q.at = "anchors" /\ c \in q.todo => g.anchors # <<>> BY DEF ChainSeen, Moved
<1>7. "cut" \in q.began[c] => g.index # "absent" \/ g.next > 1 \/ d # {} \/ Excused(q, c)
  <2> SUFFICES ASSUME "cut" \in r.began[c] PROVE g.index # "absent" \/ g.next > 1 \/ d # {} \/ Excused(q, c) OBVIOUS
  <2>1. f.index # "absent" \/ f.next > 1 \/ e # {} \/ Excused(r, c) BY DEF ChainSeen
  <2>2. f.next \in Nat /\ g.next \in Nat BY DEF ChainRows
  <2>3. f.next > 1 => g.next > 1 BY <2>2 DEF Moved
  <2>4. f.index # "absent" => g.index # "absent" \/ g.next > 1 \/ d # {} \/ k \cap {"unbind", "reverse"} # {} BY DEF Moved
  <2> QED BY <1>1, <1>4, <2>1, <2>3, <2>4
<1>8. Past(q, c) => Accounted(q, c, g)
  <2> SUFFICES ASSUME Past(r, c), ~Explained(r, c), ~Excused(q, c) PROVE Held(g) \/ (Blank(g) /\ g.index = "absent")
    BY <1>2 DEF Past, Accounted
  <2>1. Held(f) \/ (Blank(f) /\ f.index = "absent") BY <1>1 DEF ChainSeen, Accounted
  <2>2. CASE Held(f) BY <1>4, <2>2 DEF Moved
  <2>3. CASE ~Held(f)
    <3>1. g = f \/ ((Held(g) \/ "cut" \in k) /\ f.next = 1 /\ d = {}) BY <2>1, <2>3 DEF Moved
    <3>2. "cut" \notin k \/ "cut" \in r.began[c] BY DEF Excused, Taken
    <3>3. "cut" \in r.began[c] => f.next # 1 \/ d # {}
      <4>1. "cut" \in r.began[c] => f.index # "absent" \/ f.next > 1 \/ e # {} \/ Excused(r, c) BY DEF ChainSeen
      <4>2. f.next > 1 => f.next # 1 OBVIOUS
      <4> QED BY <1>1, <2>1, <2>3, <4>1, <4>2
    <3> QED BY <2>1, <2>3, <3>1, <3>2, <3>3
  <2> QED BY <2>2, <2>3
<1>9. q.at = "sources" /\ q.srcChain = c => Pointed(q, c, g)
  <2> SUFFICES ASSUME r.at = "sources", r.srcChain = c PROVE Pointed(q, c, g) OBVIOUS
  <2>1. Pointed(r, c, f) BY DEF ChainSeen
  <2>2. ~q.srcHeld => q.felt[c] # {} /\ (~Explained(q, c) => Excused(q, c)) BY <1>1, <1>2, <1>3, <2>1 DEF Pointed
  <2>3. ASSUME q.felt[c] = {}, NEW x \in r.srcIds
        PROVE  x \in Nat /\ 0 < x /\ x < g.next /\ \A s \in Sources : s > r.source => g.sources[s] # x
    <3>1. x \in Nat /\ 0 < x /\ x < f.next BY <1>3, <2>1, <2>3 DEF Pointed
    <3>2. f.next \in Nat /\ g.next \in Nat /\ f.next <= g.next BY DEF ChainRows, Moved
    <3>3. x < g.next BY <3>1, <3>2
    <3>4. \A s \in Sources : g.sources[s] \in {f.sources[s], 0, f.next} BY <1>3, <2>3 DEF Moved
    <3>5. \A s \in Sources : s > r.source => f.sources[s] # x BY <1>3, <2>1, <2>3 DEF Pointed
    <3>6. x # 0 /\ x # f.next BY <3>1, <3>2
    <3> QED BY <3>1, <3>3, <3>4, <3>5, <3>6
  <2> QED BY <2>2, <2>3 DEF Pointed
<1>10. Busy(q) BY DEF Busy
<1> QED BY <1>5, <1>6, <1>7, <1>8, <1>9, <1>10 DEF ChainSeen

-----------------------------------------------------------------------------
(* A verification looks at a chain: q is what it has to report after, r    *)
(* before                                                                  *)

Looked(q, r, c) ==
    /\ RunShape(q)
    /\ q.at = r.at /\ q.began = r.began /\ q.felt = r.felt /\ q.noChain = r.noChain /\ q.todo = r.todo
    /\ q.cursor = r.cursor /\ q.source = r.source /\ q.srcChain = r.srcChain /\ q.srcHeld = r.srcHeld /\ q.srcIds = r.srcIds
    /\ \A b \in Chains : b # c => q.rows[b] = r.rows[b] /\ q.problems[b] = r.problems[b]
    /\ r.removed \subseteq q.removed /\ q.removed \subseteq r.removed \cup {c}
    /\ r.erased \subseteq q.erased /\ q.erased \subseteq r.erased \cup {c}
    /\ q.reported \subseteq r.reported \cup {c}

LEMMA LookedSame == ASSUME NEW r, RunShape(r), NEW c PROVE Looked(r, r, c)
BY DEF Looked

\* q and p agree on what was found, except for a field.
Besides(q, p, field) ==
    /\ field # "rows" => q.rows = p.rows
    /\ field # "problems" => q.problems = p.problems
    /\ field # "removed" => q.removed = p.removed
    /\ field # "erased" => q.erased = p.erased

WithRow(p, c, row) == [p EXCEPT !.rows[c] = row]
WithReport(p, c, gone) == [p EXCEPT !.reported = p.reported \cup {c}, !.erased = p.erased \cup gone]
Invalid(p) == [p EXCEPT !.invalid = TRUE]

LEMMA AddLooked ==
    ASSUME NEW r, NEW c \in Chains, NEW p, Looked(p, r, c), NEW ps
    PROVE  /\ Looked(AddProblems(p, c, ps), r, c) /\ AddProblems(p, c, ps).problems[c] = p.problems[c] \cup ps
           /\ Besides(AddProblems(p, c, ps), p, "problems")
<1>0. PICK q : q = AddProblems(p, c, ps) OBVIOUS
<1>1. RunShape(p) BY DEF Looked
<1>2. PICK new : new = [p.problems EXCEPT ![c] = @ \cup ps] OBVIOUS
<1>3. q = [p EXCEPT !.problems = new] BY <1>0, <1>2 DEF AddProblems
<1>4. p.problems = [b \in Chains |-> p.problems[b]] BY <1>1 DEF RunShape
<1>5. new = [b \in Chains |-> new[b]] /\ new[c] = p.problems[c] \cup ps BY <1>2, <1>4
<1>6. \A b \in Chains : b # c => new[b] = p.problems[b] BY <1>2, <1>4
<1>7. RunShape(q) /\ q.problems = new BY <1>1, <1>3, <1>5 DEF RunShape
<1>8. /\ q.at = p.at /\ q.began = p.began /\ q.felt = p.felt /\ q.noChain = p.noChain /\ q.todo = p.todo
      /\ q.cursor = p.cursor /\ q.source = p.source /\ q.srcChain = p.srcChain /\ q.srcHeld = p.srcHeld /\ q.srcIds = p.srcIds
      /\ q.rows = p.rows /\ q.removed = p.removed /\ q.erased = p.erased /\ q.reported = p.reported
  BY <1>1, <1>3 DEF RunShape
<1> QED BY <1>0, <1>5, <1>6, <1>7, <1>8 DEF Looked, Besides

LEMMA RowLooked ==
    ASSUME NEW r, NEW c \in Chains, NEW p, Looked(p, r, c), NEW row
    PROVE  Looked(WithRow(p, c, row), r, c) /\ WithRow(p, c, row).rows[c] = row /\ Besides(WithRow(p, c, row), p, "rows")
<1>0. PICK q : q = WithRow(p, c, row) OBVIOUS
<1>1. RunShape(p) BY DEF Looked
<1>2. PICK new : new = [p.rows EXCEPT ![c] = row] OBVIOUS
<1>3. q = [p EXCEPT !.rows = new] BY <1>0, <1>2 DEF WithRow
<1>4. p.rows = [b \in Chains |-> p.rows[b]] BY <1>1 DEF RunShape
<1>5. new = [b \in Chains |-> new[b]] /\ new[c] = row BY <1>2, <1>4
<1>6. \A b \in Chains : b # c => new[b] = p.rows[b] BY <1>2, <1>4
<1>7. RunShape(q) /\ q.rows = new BY <1>1, <1>3, <1>5 DEF RunShape
<1>8. /\ q.at = p.at /\ q.began = p.began /\ q.felt = p.felt /\ q.noChain = p.noChain /\ q.todo = p.todo
      /\ q.cursor = p.cursor /\ q.source = p.source /\ q.srcChain = p.srcChain /\ q.srcHeld = p.srcHeld /\ q.srcIds = p.srcIds
      /\ q.problems = p.problems /\ q.removed = p.removed /\ q.erased = p.erased /\ q.reported = p.reported
  BY <1>1, <1>3 DEF RunShape
<1> QED BY <1>0, <1>5, <1>6, <1>7, <1>8 DEF Looked, Besides

\* A row for a chain that has none explains nothing.
LEMMA RowForLooked ==
    ASSUME NEW r, NEW c \in Chains, NEW p, Looked(p, r, c)
    PROVE  /\ Looked(RowFor(p, c), r, c) /\ (Explained(RowFor(p, c), c) <=> Explained(p, c))
           /\ Besides(RowFor(p, c), p, "rows")
<1>0. PICK q : q = RowFor(p, c) OBVIOUS
<1>1. CASE p.rows[c] = "none"
  <2>1. PICK row : row = "absent" OBVIOUS
  <2>2. q = WithRow(p, c, row) BY <1>0, <1>1, <2>1 DEF RowFor, WithRow
  <2>3. Looked(q, r, c) /\ q.rows[c] = row /\ Besides(q, p, "rows") BY <2>2, RowLooked
  <2>4. ~Explained(q, c) /\ ~Explained(p, c) BY <1>1, <2>1, <2>3 DEF Explained
  <2> QED BY <1>0, <2>3, <2>4
<1>2. CASE p.rows[c] # "none"
  <2>1. q = p BY <1>0, <1>2 DEF RowFor
  <2> QED BY <1>0, <2>1 DEF Besides
<1> QED BY <1>1, <1>2

LEMMA RemovedLooked ==
    ASSUME NEW r, NEW c \in Chains, NEW p, Looked(p, r, c)
    PROVE  Looked(Removed(p, c), r, c) /\ Besides(Removed(p, c), p, "removed")
<1>0. PICK q : q = Removed(p, c) OBVIOUS
<1>1. RunShape(p) BY DEF Looked
<1>2. q = [p EXCEPT !.removed = p.removed \cup {c}] BY <1>0 DEF Removed
<1>3. RunShape(q) /\ q.removed = p.removed \cup {c} BY <1>1, <1>2 DEF RunShape
<1>4. /\ q.at = p.at /\ q.began = p.began /\ q.felt = p.felt /\ q.noChain = p.noChain /\ q.todo = p.todo
      /\ q.cursor = p.cursor /\ q.source = p.source /\ q.srcChain = p.srcChain /\ q.srcHeld = p.srcHeld /\ q.srcIds = p.srcIds
      /\ q.rows = p.rows /\ q.problems = p.problems /\ q.erased = p.erased /\ q.reported = p.reported
  BY <1>1, <1>2 DEF RunShape
<1> QED BY <1>0, <1>3, <1>4 DEF Looked, Besides

LEMMA InvalidLooked ==
    ASSUME NEW r, NEW c \in Chains, NEW p, Looked(p, r, c)
    PROVE  Looked(Invalid(p), r, c) /\ Besides(Invalid(p), p, "invalid")
<1>0. PICK q : q = Invalid(p) OBVIOUS
<1>1. RunShape(p) BY DEF Looked
<1>2. RunShape(q) BY <1>0, <1>1 DEF RunShape, Invalid
<1>3. /\ q.at = p.at /\ q.began = p.began /\ q.felt = p.felt /\ q.noChain = p.noChain /\ q.todo = p.todo
      /\ q.cursor = p.cursor /\ q.source = p.source /\ q.srcChain = p.srcChain /\ q.srcHeld = p.srcHeld /\ q.srcIds = p.srcIds
      /\ q.rows = p.rows /\ q.problems = p.problems /\ q.erased = p.erased /\ q.reported = p.reported /\ q.removed = p.removed
  BY <1>0, <1>1 DEF RunShape, Invalid
<1> QED BY <1>0, <1>2, <1>3 DEF Looked, Besides

LEMMA ReportLooked ==
    ASSUME NEW r, NEW c \in Chains, NEW p, Looked(p, r, c), NEW more \in SUBSET {c}
    PROVE  /\ Looked(WithReport(p, c, more), r, c) /\ WithReport(p, c, more).erased = p.erased \cup more
           /\ Besides(WithReport(p, c, more), p, "erased")
<1>0. PICK q : q = WithReport(p, c, more) OBVIOUS
<1>1. RunShape(p) BY DEF Looked
<1>2. PICK reported, gone : reported = p.reported \cup {c} /\ gone = p.erased \cup more OBVIOUS
<1>3. q = [p EXCEPT !.reported = reported, !.erased = gone] BY <1>0, <1>2 DEF WithReport
<1>4. RunShape(q) /\ q.reported = reported /\ q.erased = gone BY <1>1, <1>3 DEF RunShape
<1>5. /\ q.at = p.at /\ q.began = p.began /\ q.felt = p.felt /\ q.noChain = p.noChain /\ q.todo = p.todo
      /\ q.cursor = p.cursor /\ q.source = p.source /\ q.srcChain = p.srcChain /\ q.srcHeld = p.srcHeld /\ q.srcIds = p.srcIds
      /\ q.rows = p.rows /\ q.problems = p.problems /\ q.removed = p.removed
  BY <1>1, <1>3 DEF RunShape
<1> QED BY <1>0, <1>2, <1>4, <1>5 DEF Looked, Besides

-----------------------------------------------------------------------------
(* What each stage says of a chain is so                                   *)

\* f are the chain's rows and e is empty unless the sink began to erase it.
Good(q, r, c, f, e) ==
    /\ Looked(q, r, c) /\ Judged(q, c, e)
    /\ Explained(r, c) => Explained(q, c) \/ Excused(r, c)
    /\ r.at = "index" => Accounted(q, c, f)

\* A problem of a chain something befell, and a chain called removed that was.
LEMMA GoodIs ==
    ASSUME NEW r, NEW c \in Chains, NEW f, NEW e, Judged(r, c, e), r.at # "index",
           NEW q, Looked(q, r, c), q.erased = r.erased,
           q.problems[c] = r.problems[c] \/ r.felt[c] # {},
           q.removed = r.removed \/ Excused(r, c),
           Explained(r, c) => Explained(q, c) \/ Excused(r, c)
    PROVE  Good(q, r, c, f, e)
<1>1. q.felt = r.felt /\ q.began = r.began /\ q.noChain = r.noChain /\ (Excused(q, c) <=> Excused(r, c)) BY DEF Looked, Excused
<1>2. q.felt[c] = {} => q.problems[c] \subseteq {"no checkpoint"} /\ q.noChain[c] = 0 BY <1>1 DEF Judged
<1>3. c \in q.removed => Excused(q, c) BY <1>1 DEF Judged
<1>4. q.noChain[c] > 0 /\ ~Explained(q, c) => Excused(q, c) BY <1>1 DEF Judged
<1>5. c \in q.erased => e # {} BY DEF Judged
<1> QED BY <1>2, <1>3, <1>4, <1>5 DEF Good, Judged

LEMMA FeltIs ==
    ASSUME NEW r, NEW c, NEW f, NEW h, NEW e, ChainSeen(r, c, f, h, e), Busy(r)
    PROVE  /\ h \subseteq r.felt[c] /\ Judged(r, c, e)
           /\ h \cap {"remove", "truncate", "unbind", "reverse", "forward"} # {} => Excused(r, c)
           /\ h # {} => r.felt[c] # {}
BY DEF ChainSeen, Excused, Taken

LEMMA WalkGood ==
    ASSUME NEW r, NEW c \in Chains, NEW h, NEW e, ChainInv(folder[c], h, e), ChainSeen(r, c, folder[c], h, e),
           RunShape(r), r.at = "walk", Held(folder[c])
    PROVE  Good(Walked(r, c), r, c, folder[c], e)
<1>1. PICK f : f = folder[c] OBVIOUS
<1>2. ChainInv(f, h, e) /\ Held(f) /\ Busy(r) BY <1>1 DEF Busy
<1>3. h \subseteq r.felt[c] /\ Judged(r, c, e) BY <1>2, FeltIs
<1>4. PICK more \in SUBSET {c} : more = IF ReportsErased(f, r.opts) THEN {c} ELSE {} OBVIOUS
<1>5. PICK ps : ps = Problems(f, r.opts) OBVIOUS
<1>16. PICK p : p = AddProblems(r, c, ps) OBVIOUS
<1>17. Looked(r, r, c) BY LookedSame
<1>19. /\ Looked(AddProblems(r, c, ps), r, c) /\ AddProblems(r, c, ps).problems[c] = r.problems[c] \cup ps
       /\ Besides(AddProblems(r, c, ps), r, "problems")
  BY <1>17, AddLooked, Zenon
<1>6. Looked(p, r, c) /\ p.problems[c] = r.problems[c] \cup ps /\ Besides(p, r, "problems") BY <1>16, <1>19, Zenon
<1>7. PICK q : q = Walked(r, c) OBVIOUS
<1>8. q = WithReport(p, c, more)
  <2>1. RunShape(p) BY <1>6 DEF Looked
  <2>2. q = [p EXCEPT !.reported = @ \cup {c}, !.erased = IF ReportsErased(f, r.opts) THEN @ \cup {c} ELSE @]
    BY <1>1, <1>5, <1>7, <1>16 DEF Walked
  <2> QED BY <1>4, <2>1, <2>2 DEF RunShape, WithReport
<1>18. Looked(q, r, c) /\ q.erased = p.erased \cup more /\ Besides(q, p, "erased") BY <1>6, <1>8, ReportLooked
<1>9. /\ Looked(q, r, c) /\ q.erased = r.erased \cup more /\ q.rows = r.rows /\ q.problems[c] = r.problems[c] \cup ps
      /\ q.removed = r.removed
  BY <1>6, <1>18 DEF Besides
<1>10. q.felt = r.felt /\ q.began = r.began /\ q.noChain = r.noChain /\ q.rows = r.rows BY <1>9 DEF Looked
<1>11. (Excused(q, c) <=> Excused(r, c)) /\ (Explained(q, c) <=> Explained(r, c)) BY <1>10 DEF Excused, Explained
<1>12. r.felt[c] = {} => ps \subseteq {"no checkpoint"}
  <2>1. r.felt[c] = {} => h = {} BY <1>3
  <2>2. r.felt[c] = {} => ChainInv(f, {}, e) BY <1>2, <2>1
  <2>3. r.felt[c] = {} => Problems(f, r.opts) \subseteq {"no checkpoint"} BY <1>2, <2>2, CleanIs
  <2> QED BY <1>5, <2>3
<1>13. more # {} => e # {} BY <1>2, <1>4, ReportedErasedIs
<1>14. q.felt[c] = {} => q.problems[c] \subseteq {"no checkpoint"} /\ q.noChain[c] = 0
  BY <1>3, <1>9, <1>10, <1>12 DEF Judged
<1>15. Judged(q, c, e) BY <1>3, <1>9, <1>10, <1>11, <1>13, <1>14 DEF Judged
<1> QED BY <1>1, <1>7, <1>9, <1>11, <1>15 DEF Good

LEMMA IndexGood ==
    ASSUME NEW r, NEW c \in Chains, NEW h, NEW e, ChainInv(folder[c], h, e), ChainSeen(r, c, folder[c], h, e),
           RunShape(r), r.at = "index", folder[c].index # "absent"
    PROVE  Good(IndexSeen(r, c), r, c, folder[c], e)
<1>1. PICK f : f = folder[c] OBVIOUS
<1>2. ChainInv(f, h, e) /\ f.index # "absent" /\ Busy(r) /\ f \in ChainRows BY <1>1 DEF Busy, ChainInv
<1>3. /\ h \subseteq r.felt[c] /\ Judged(r, c, e)
      /\ h \cap {"remove", "truncate", "unbind", "reverse", "forward"} # {} => Excused(r, c)
  BY <1>2, FeltIs
<1>4. PICK q : q = IndexSeen(r, c) OBVIOUS
<1>5. Looked(r, r, c) BY LookedSame
<1>6. SUFFICES /\ Looked(q, r, c) /\ q.erased = r.erased /\ q.removed = r.removed
               /\ q.problems[c] = r.problems[c] \/ r.felt[c] # {}
               /\ (Held(f) /\ q.rows = r.rows) \/ Explained(q, c) \/ Excused(r, c)
  <2>1. q.felt = r.felt /\ q.began = r.began /\ q.noChain = r.noChain /\ (Excused(q, c) <=> Excused(r, c)) BY <1>6 DEF Looked, Excused
  <2>2. Explained(r, c) => Explained(q, c) \/ Excused(r, c) BY <1>6 DEF Explained
  <2>3. Accounted(q, c, f) BY <1>6, <2>1 DEF Accounted
  <2>4. q.felt[c] = {} => q.problems[c] \subseteq {"no checkpoint"} /\ q.noChain[c] = 0 BY <1>3, <1>6, <2>1 DEF Judged
  <2>5. q.noChain[c] > 0 /\ ~Explained(q, c) => Excused(q, c) BY <1>3, <2>1, <2>2 DEF Judged
  <2>6. Judged(q, c, e) BY <1>3, <1>6, <2>1, <2>4, <2>5 DEF Judged
  <2> QED BY <1>1, <1>4, <1>6, <2>2, <2>3, <2>6 DEF Good
<1>7. f.index \in {"live", "pending", "malformed"} BY <1>2 DEF ChainRows, IndexStates
<1>8. CASE Held(f)
  <2>1. q = r BY <1>1, <1>4, <1>8, Zenon DEF IndexSeen, InStore
  <2> QED BY <1>5, <1>8, <2>1
<1>9. CASE ~Held(f) /\ f.index = "live"
  <2>1. PICK row : row = "index-only" OBVIOUS
  <2>2. q = WithRow(r, c, row) BY <1>1, <1>4, <1>9, <2>1 DEF IndexSeen, InStore, WithRow
  <2>3. Looked(q, r, c) /\ q.rows[c] = row /\ Besides(q, r, "rows") BY <1>5, <2>2, RowLooked
  <2> QED BY <2>1, <2>3 DEF Explained, Besides
<1>10. CASE ~Held(f) /\ f.index = "pending"
  <2>1. PICK row : row = "pending" OBVIOUS
  <2>2. PICK p : p = WithRow(r, c, row) OBVIOUS
  <2>8. PICK ps : ps = {"pending"} OBVIOUS
  <2>3. q = AddProblems(p, c, ps) BY <2>8, <1>1, <1>4, <1>10, <2>1, <2>2 DEF IndexSeen, InStore, WithRow
  <2>4. Looked(p, r, c) /\ p.rows[c] = row /\ Besides(p, r, "rows") BY <1>5, <2>2, RowLooked
  <2>5. Looked(q, r, c) /\ Besides(q, p, "problems") BY <2>3, <2>4, AddLooked
  <2>6. "stopped" \in h BY <1>2, <1>10 DEF ChainInv, Marked
  <2>7. r.felt[c] # {} BY <1>3, <2>6
  <2> QED BY <2>1, <2>4, <2>5, <2>7 DEF Explained, Besides
<1>11. CASE ~Held(f) /\ f.index = "malformed"
  <2>1. PICK row : row = "malformed" OBVIOUS
  <2>2. PICK p : p = WithRow(r, c, row) OBVIOUS
  <2>8. PICK ps : ps = {"malformed"} OBVIOUS
  <2>3. q = AddProblems(p, c, ps) BY <2>8, <1>1, <1>4, <1>11, <2>1, <2>2 DEF IndexSeen, InStore, WithRow
  <2>4. Looked(p, r, c) /\ p.rows[c] = row /\ Besides(p, r, "rows") BY <1>5, <2>2, RowLooked
  <2>5. Looked(q, r, c) /\ Besides(q, p, "problems") BY <2>3, <2>4, AddLooked
  <2>6. "forward" \in h BY <1>2, <1>11 DEF ChainInv, Marked
  <2>7. r.felt[c] # {} /\ Excused(r, c) BY <1>3, <2>6
  <2> QED BY <2>4, <2>5, <2>7 DEF Besides
<1> QED BY <1>7, <1>8, <1>9, <1>10, <1>11

LEMMA ForwardGood ==
    ASSUME NEW r, NEW c \in Chains, NEW h, NEW e, ChainInv(folder[c], h, e), ChainSeen(r, c, folder[c], h, e),
           RunShape(r), r.at = "forward", ~folder[c].forward
    PROVE  Good(ForwardSeen(r, c), r, c, folder[c], e)
<1>1. PICK f : f = folder[c] OBVIOUS
<1>2. Busy(r) BY DEF Busy
<1>3. "reverse" \in h BY DEF ChainInv, Marked
<1>4. Judged(r, c, e) /\ Excused(r, c) /\ r.felt[c] # {} BY <1>2, <1>3, FeltIs
<1>5. Looked(r, r, c) BY LookedSame
<1>6. PICK q : q = ForwardSeen(r, c) OBVIOUS
<1>7. Looked(q, r, c) /\ q.erased = r.erased
  <2>1. CASE InStore(r, c)
    <3>1. PICK ps : ps = {"malformed"} OBVIOUS
    <3>2. q = AddProblems(r, c, ps) BY <1>6, <2>1, <3>1, Zenon DEF ForwardSeen
    <3>3. Looked(q, r, c) /\ Besides(q, r, "problems") BY <1>5, <3>2, AddLooked
    <3> QED BY <3>3 DEF Besides
  <2>2. CASE ~InStore(r, c) /\ r.rows[c] # "none"
    <3>1. PICK row : row = "malformed" OBVIOUS
    <3>2. PICK p : p = WithRow(r, c, row) OBVIOUS
    <3>5. PICK ps : ps = {"malformed"} OBVIOUS
    <3>3. q = AddProblems(p, c, ps) BY <1>6, <2>2, <3>1, <3>2, <3>5 DEF ForwardSeen, WithRow
    <3>4. Looked(p, r, c) /\ Besides(p, r, "rows") BY <1>5, <3>2, RowLooked
    <3>6. Looked(q, r, c) /\ Besides(q, p, "problems") BY <3>3, <3>4, AddLooked
    <3> QED BY <3>4, <3>6 DEF Besides
  <2>3. CASE ~InStore(r, c) /\ ~(r.rows[c] # "none")
    <3>1. q = Invalid(r) BY <1>6, <2>3 DEF ForwardSeen, Invalid
    <3>2. Looked(q, r, c) /\ Besides(q, r, "invalid") BY <1>5, <3>1, InvalidLooked
    <3> QED BY <3>2 DEF Besides
  <2> QED BY <2>1, <2>2, <2>3
<1>8. r.at # "index" OBVIOUS
<1>9. Good(q, r, c, f, e) BY <1>4, <1>7, <1>8, GoodIs
<1> QED BY <1>1, <1>6, <1>9

\* What there is of a chain that neither the evidence file nor the index knows was
\* left behind when something was taken away.
LEMMA NotHeld ==
    ASSUME NEW r, NEW c, NEW f, NEW h, NEW e, ChainInv(f, h, e), ChainSeen(r, c, f, h, e), Past(r, c), Busy(r),
           ~Held(f), ~Blank(f)
    PROVE  r.felt[c] # {} /\ (~Explained(r, c) => Excused(r, c))
<1>1. h # {} BY DEF ChainInv, Sound
<1>2. r.felt[c] # {} BY <1>1, FeltIs
<1>3. ~Explained(r, c) => Excused(r, c) BY DEF ChainSeen, Accounted
<1> QED BY <1>2, <1>3

LEMMA ContentGood ==
    ASSUME NEW r, NEW c \in Chains, NEW h, NEW e, ChainInv(folder[c], h, e), ChainSeen(r, c, folder[c], h, e),
           RunShape(r), r.at = "content", folder[c].secrets # {}
    PROVE  Good(ContentSeen(r, c), r, c, folder[c], e)
<1>1. PICK f : f = folder[c] OBVIOUS
<1>2. Busy(r) /\ Past(r, c) BY DEF Busy, Past
<1>3. Judged(r, c, e) BY <1>2, FeltIs
<1>4. Looked(r, r, c) BY LookedSame
<1>5. PICK q : q = ContentSeen(r, c) OBVIOUS
<1>6. r.at # "index" OBVIOUS
<1>7. CASE Held(f)
  <2>1. q = r BY <1>1, <1>5, <1>7, Zenon DEF ContentSeen, InStore
  <2>2. Good(q, r, c, f, e) BY <1>3, <1>4, <1>6, <2>1, GoodIs
  <2> QED BY <1>1, <1>5, <2>2
<1>8. CASE ~Held(f)
  <2>1. ~Blank(f) BY <1>1 DEF Blank
  <2>2. r.felt[c] # {} /\ (~Explained(r, c) => Excused(r, c)) BY <1>1, <1>2, <1>8, <2>1, NotHeld
  <2>3. PICK a : a = RowFor(r, c) OBVIOUS
  <2>11. PICK ps : ps = {"content"} OBVIOUS
  <2>4. PICK b : b = AddProblems(a, c, ps) OBVIOUS
  <2>5. Looked(a, r, c) /\ (Explained(a, c) <=> Explained(r, c)) /\ Besides(a, r, "rows") BY <1>4, <2>3, RowForLooked
  <2>12. Looked(b, r, c) /\ Besides(b, a, "problems") BY <2>4, <2>5, AddLooked
  <2>6. b.rows = a.rows /\ b.removed = r.removed /\ b.erased = r.erased BY <2>5, <2>12 DEF Besides
  <2>7. Explained(b, c) <=> Explained(r, c) BY <2>5, <2>6 DEF Explained
  <2>8. q = IF Explained(b, c) THEN b ELSE Removed(b, c) BY <1>1, <1>5, <1>8, <2>3, <2>4, <2>11, Zenon DEF ContentSeen, InStore
  <2>9. CASE Explained(b, c)
    <3>1. q = b BY <2>8, <2>9
    <3>2. Good(q, r, c, f, e) BY <1>3, <1>6, <2>2, <2>6, <2>7, <2>12, <3>1, GoodIs
    <3> QED BY <1>1, <1>5, <3>2
  <2>10. CASE ~Explained(b, c)
    <3>1. q = Removed(b, c) BY <2>8, <2>10
    <3>5. Looked(q, r, c) /\ Besides(q, b, "removed") BY <2>12, <3>1, RemovedLooked
    <3>2. q.erased = r.erased BY <2>6, <3>5 DEF Besides
    <3>3. Excused(r, c) /\ ~Explained(r, c) BY <2>2, <2>7, <2>10
    <3>4. Good(q, r, c, f, e) BY <1>3, <1>6, <2>2, <3>2, <3>3, <3>5, GoodIs
    <3> QED BY <1>1, <1>5, <3>4
  <2> QED BY <2>9, <2>10
<1> QED BY <1>7, <1>8

LEMMA SignaturesGood ==
    ASSUME NEW r, NEW c \in Chains, NEW h, NEW e, ChainInv(folder[c], h, e), ChainSeen(r, c, folder[c], h, e),
           RunShape(r), r.at = "signatures", folder[c].sigs # {}
    PROVE  Good(SignaturesSeen(r, c), r, c, folder[c], e)
<1>1. PICK f : f = folder[c] OBVIOUS
<1>2. Busy(r) /\ Past(r, c) BY DEF Busy, Past
<1>3. Judged(r, c, e) BY <1>2, FeltIs
<1>4. Looked(r, r, c) BY LookedSame
<1>5. PICK q : q = SignaturesSeen(r, c) OBVIOUS
<1>6. r.at # "index" OBVIOUS
<1>7. CASE Held(f)
  <2>1. q = r BY <1>1, <1>5, <1>7, Zenon DEF SignaturesSeen, InStore
  <2>2. Good(q, r, c, f, e) BY <1>3, <1>4, <1>6, <2>1, GoodIs
  <2> QED BY <1>1, <1>5, <2>2
<1>8. CASE ~Held(f)
  <2>1. ~Blank(f) BY <1>1 DEF Blank
  <2>2. r.felt[c] # {} /\ (~Explained(r, c) => Excused(r, c)) BY <1>1, <1>2, <1>8, <2>1, NotHeld
  <2>3. PICK a : a = RowFor(r, c) OBVIOUS
  <2>8. Looked(a, r, c) /\ (Explained(a, c) <=> Explained(r, c)) /\ Besides(a, r, "rows") BY <1>4, <2>3, RowForLooked
  <2>4. a.problems = r.problems /\ a.removed = r.removed /\ a.erased = r.erased BY <2>8 DEF Besides
  <2>5. q = IF Explained(a, c) THEN a ELSE AddProblems(Removed(a, c), c, {"signatures"})
    BY <1>1, <1>5, <1>8, <2>3, Zenon DEF SignaturesSeen, InStore
  <2>6. CASE Explained(a, c)
    <3>1. q = a BY <2>5, <2>6
    <3>2. Good(q, r, c, f, e) BY <1>3, <1>6, <2>2, <2>4, <2>8, <3>1, GoodIs
    <3> QED BY <1>1, <1>5, <3>2
  <2>7. CASE ~Explained(a, c)
    <3>1. PICK b : b = Removed(a, c) OBVIOUS
    <3>7. PICK ps : ps = {"signatures"} OBVIOUS
    <3>2. q = AddProblems(b, c, ps) BY <2>5, <2>7, <3>1, <3>7
    <3>3. Looked(b, r, c) /\ Besides(b, a, "removed") BY <2>8, <3>1, RemovedLooked
    <3>4. Looked(q, r, c) /\ Besides(q, b, "problems") BY <3>2, <3>3, AddLooked
    <3>8. q.erased = r.erased BY <2>4, <3>3, <3>4 DEF Besides
    <3>5. Excused(r, c) /\ ~Explained(r, c) BY <2>2, <2>7, <2>8
    <3>6. Good(q, r, c, f, e) BY <1>3, <1>6, <2>2, <3>4, <3>5, <3>8, GoodIs
    <3> QED BY <1>1, <1>5, <3>6
  <2> QED BY <2>6, <2>7
<1> QED BY <1>7, <1>8

-----------------------------------------------------------------------------
(* A stage of the sweep *)

LEMMA LeastIs ==
    ASSUME NEW S \in SUBSET Chains, S # {} PROVE Least(S) \in S /\ \A c \in S : Least(S) <= c
<1>1. S \subseteq Nat BY FolderAssumption
<1>2. \E m \in S : \A n \in S : m <= n BY <1>1, LeastNumber
<1> QED BY <1>2, Zenon DEF Least

\* The reports of one chain are as they were.
Steady(q, r, c) ==
    /\ q.rows[c] = r.rows[c] /\ q.problems[c] = r.problems[c] /\ q.noChain[c] = r.noChain[c]
    /\ q.felt[c] = r.felt[c] /\ q.began[c] = r.began[c]
    /\ (c \in q.removed <=> c \in r.removed) /\ (c \in q.erased <=> c \in r.erased)

LEMMA SteadyIs ==
    ASSUME NEW q, NEW r, NEW c, Steady(q, r, c), NEW e, Judged(r, c, e)
    PROVE  Judged(q, c, e) /\ (Explained(q, c) <=> Explained(r, c)) /\ (Excused(q, c) <=> Excused(r, c))
<1>1. (Explained(q, c) <=> Explained(r, c)) /\ (Excused(q, c) <=> Excused(r, c)) BY DEF Steady, Explained, Excused
<1> QED BY <1>1 DEF Steady, Judged

LEMMA SeenSteady ==
    ASSUME NEW r, NEW c, NEW f, NEW h, NEW e, ChainSeen(r, c, f, h, e), Busy(r), NEW q, Steady(q, r, c),
           q.at = "anchors" /\ c \in q.todo => f.anchors # <<>>,
           Past(q, c) => Past(r, c) \/ Accounted(r, c, f),
           q.at = "sources" /\ q.srcChain = c => Pointed(q, c, f)
    PROVE  ChainSeen(q, c, f, h, e)
<1>1. Judged(r, c, e) /\ h \subseteq r.felt[c] /\ (Past(r, c) => Accounted(r, c, f)) BY DEF ChainSeen
<1>2. Judged(q, c, e) /\ (Explained(q, c) <=> Explained(r, c)) /\ (Excused(q, c) <=> Excused(r, c)) BY <1>1, SteadyIs
<1>3. Past(q, c) => Accounted(q, c, f) BY <1>1, <1>2 DEF Accounted
<1>4. h \subseteq q.felt[c] BY <1>1 DEF Steady
<1>5. "cut" \in q.began[c] => f.index # "absent" \/ f.next > 1 \/ e # {} \/ Excused(q, c)
  <2>1. q.began[c] = r.began[c] BY DEF Steady
  <2> QED BY <1>2, <2>1 DEF ChainSeen
<1> QED BY <1>2, <1>3, <1>4, <1>5 DEF ChainSeen

SweepStages == {"walk", "index", "forward", "content", "signatures"}
NextStages  == {"index", "forward", "open anchors", "signatures", "sources"}

LEMMA SeenGood ==
    ASSUME NEW r, NEW c, NEW f, NEW h, NEW e, ChainSeen(r, c, f, h, e), Busy(r), r.at \in SweepStages,
           NEW p, Good(p, r, c, f, e), NEW q, Steady(q, p, c), q.at = r.at
    PROVE  ChainSeen(q, c, f, h, e)
<1>1. h \subseteq r.felt[c] /\ (Past(r, c) => Accounted(r, c, f)) BY DEF ChainSeen
<1>2. /\ Judged(p, c, e) /\ (Explained(r, c) => Explained(p, c) \/ Excused(r, c)) /\ (r.at = "index" => Accounted(p, c, f))
      /\ p.felt = r.felt /\ p.began = r.began
  BY DEF Good, Looked
<1>3. Judged(q, c, e) /\ (Explained(q, c) <=> Explained(p, c)) /\ (Excused(q, c) <=> Excused(p, c)) BY <1>2, SteadyIs
<1>4. Excused(p, c) <=> Excused(r, c) BY <1>2 DEF Excused
<1>5. Past(q, c) => Accounted(q, c, f)
  <2>1. CASE r.at = "index" BY <1>2, <1>3, <2>1 DEF Accounted
  <2>2. CASE r.at = "walk" BY <2>2 DEF Past
  <2>3. CASE r.at \notin {"index", "walk"}
    <3>1. Past(r, c) BY <2>3 DEF SweepStages, Past
    <3> QED BY <1>1, <1>2, <1>3, <1>4, <3>1 DEF Accounted
  <2> QED BY <2>1, <2>2, <2>3
<1>6. h \subseteq q.felt[c] /\ q.began[c] = r.began[c] BY <1>1, <1>2 DEF Steady
<1>7. "cut" \in q.began[c] => f.index # "absent" \/ f.next > 1 \/ e # {} \/ Excused(q, c)
  BY <1>3, <1>4, <1>6 DEF ChainSeen
<1>8. q.at # "anchors" /\ q.at # "sources" BY DEF SweepStages
<1> QED BY <1>3, <1>5, <1>6, <1>7, <1>8 DEF ChainSeen

\* A chain without an index row is passed over by the sweep's first stage.
LEMMA AbsentAccounted ==
    ASSUME NEW r, NEW c, NEW f, NEW h, NEW e, ChainInv(f, h, e), ChainSeen(r, c, f, h, e), Busy(r), f.index = "absent"
    PROVE  Accounted(r, c, f)
<1>1. Held(f) \/ Lost(h) \/ h \cap {"unbind", "reverse"} # {} \/ Blank(f) BY DEF ChainInv, Marked
<1>2. h \subseteq r.felt[c] BY DEF ChainSeen
<1>3. Lost(h) \/ h \cap {"unbind", "reverse"} # {} => Excused(r, c) BY <1>2 DEF Lost, Excused, Taken
<1> QED BY <1>1, <1>3 DEF Accounted

LEMMA SweepKeeps ==
    ASSUME FolderInv, NEW r, r = run, RunOf(r, folder, harm, erased),
           NEW stage \in SweepStages, NEW next \in NextStages,
           stage = "walk" <=> next = "index",
           NEW having \in SUBSET Chains, NEW looked,
           r.at = stage => \A c \in having : Good(looked[c], r, c, folder[c], erased \cap {c}),
           stage = "index" => \A c \in Chains \ having : folder[c].index = "absent",
           Sweep(stage, next, having, looked), NEW q, q = run'
    PROVE  RunOf(q, folder, harm, erased)
<1>1. PICK left : left = {c \in having : c > r.cursor} OBVIOUS
<1>2. r.at = stage /\ q = IF left = {} THEN Stage(r, next) ELSE [looked[Least(left)] EXCEPT !.cursor = Least(left)]
  BY <1>1, Zenon DEF Sweep
<1>3. RunShape(r) /\ RunTypes(r) /\ \A c \in Chains : ChainSeen(r, c, folder[c], harm[c], erased \cap {c}) BY DEF RunOf
<1>4. \A c \in Chains : ChainInv(folder[c], harm[c], erased \cap {c}) BY DEF FolderInv
<1>5. /\ Busy(r) /\ r.srcChain = 0 /\ r.source = 0 /\ r.cursor \in Nat /\ r.todo \subseteq Chains
      /\ r.removed \subseteq Chains /\ r.erased \subseteq Chains /\ r.reported \subseteq Chains
      /\ \A c \in Chains : r.noChain[c] = 0
  BY <1>2, <1>3 DEF RunTypes, Busy, SweepStages
<1>10. r.srcHeld \in BOOLEAN BY <1>3, Zenon DEF RunTypes
<1>6. \A c \in Chains : c \in Nat /\ c # 0 BY FolderAssumption
<1>7. ASSUME NEW c \in Chains, stage = "index", c \notin left, c > r.cursor PROVE Accounted(r, c, folder[c])
  <2>1. folder[c].index = "absent" BY <1>1, <1>7
  <2>2. ChainInv(folder[c], harm[c], erased \cap {c}) /\ ChainSeen(r, c, folder[c], harm[c], erased \cap {c}) BY <1>3, <1>4
  <2> QED BY <1>5, <2>1, <2>2, AbsentAccounted
<1>8. CASE left = {}
  <2>1. q = [r EXCEPT !.at = next, !.cursor = 0] BY <1>2, <1>8 DEF Stage
  <2>2. RunShape(q) /\ q.at = next /\ q.cursor = 0 BY <1>3, <2>1 DEF RunShape
  <2>3. /\ q.rows = r.rows /\ q.problems = r.problems /\ q.noChain = r.noChain /\ q.felt = r.felt /\ q.began = r.began
        /\ q.removed = r.removed /\ q.erased = r.erased /\ q.reported = r.reported /\ q.todo = r.todo
        /\ q.source = r.source /\ q.srcChain = r.srcChain /\ q.srcHeld = r.srcHeld
    BY <1>3, <2>1 DEF RunShape
  <2>4. RunTypes(q)
    <3>1. q.at \in Stages /\ q.at # "done" BY <2>2 DEF Stages, NextStages
    <3>2. \A c \in Chains : q.noChain[c] = 0 /\ q.noChain[c] \in Nat BY <1>5, <2>3
    <3>3. q.cursor \in Nat /\ q.source \in Nat /\ q.srcChain \in Nat /\ q.cursor = q.srcChain /\ q.srcChain = 0 /\ q.source = 0
      BY <1>5, <2>2, <2>3
    <3>4. q.srcHeld \in BOOLEAN BY <1>10, <2>3, Zenon
    <3>5. q.reported \subseteq Chains /\ q.removed \subseteq Chains /\ q.erased \subseteq Chains /\ q.todo \subseteq Chains
      BY <1>5, <2>3
    <3> QED BY <3>1, <3>2, <3>3, <3>4, <3>5, Zenon DEF RunTypes
  <2>5. ASSUME NEW c \in Chains PROVE ChainSeen(q, c, folder[c], harm[c], erased \cap {c})
    <3>1. Steady(q, r, c) BY <2>3 DEF Steady
    <3>2. q.at # "anchors" /\ q.srcChain # c BY <1>5, <1>6, <2>2, <2>3 DEF NextStages
    <3>3. Past(q, c) => Past(r, c) \/ Accounted(r, c, folder[c])
      <4>1. CASE stage = "walk"
        <5>1. ~(c <= q.cursor) BY <1>6, <2>2
        <5>2. q.at = "index" BY <2>2, <4>1
        <5> QED BY <5>1, <5>2 DEF Past
      <4>2. CASE stage = "index"
        <5>1. c <= r.cursor \/ c > r.cursor BY <1>5, <1>6
        <5> QED BY <1>2, <1>7, <1>8, <4>2, <5>1 DEF Past
      <4>3. CASE stage \notin {"walk", "index"} BY <1>2, <4>3 DEF Past, SweepStages
      <4> QED BY <4>1, <4>2, <4>3
    <3>4. ChainSeen(r, c, folder[c], harm[c], erased \cap {c}) BY <1>3
    <3> QED BY <1>5, <3>1, <3>2, <3>3, <3>4, SeenSteady
  <2> QED BY <2>2, <2>4, <2>5 DEF RunOf
<1>9. CASE left # {}
  <2>1. PICK b \in Chains : b = Least(left) /\ b \in left /\ \A c \in left : b <= c
    <3>1. left \in SUBSET Chains BY <1>1
    <3> QED BY <1>9, <3>1, LeastIs
  <2>2. PICK p : p = looked[b] OBVIOUS
  <2>3. q = [p EXCEPT !.cursor = b] BY <1>2, <1>9, <2>1, <2>2
  <2>4. Good(p, r, b, folder[b], erased \cap {b}) BY <1>1, <1>2, <2>1, <2>2
  <2>5. Looked(p, r, b) BY <2>4 DEF Good
  <2>6. RunShape(q) /\ q.cursor = b
    <3>1. RunShape(p) BY <2>5 DEF Looked
    <3> QED BY <2>3, <3>1 DEF RunShape
  <2>7. /\ q.at = p.at /\ q.rows = p.rows /\ q.problems = p.problems /\ q.noChain = p.noChain /\ q.felt = p.felt
        /\ q.began = p.began /\ q.removed = p.removed /\ q.erased = p.erased /\ q.reported = p.reported /\ q.todo = p.todo
        /\ q.source = p.source /\ q.srcChain = p.srcChain /\ q.srcHeld = p.srcHeld
    <3>1. RunShape(p) BY <2>5 DEF Looked
    <3> QED BY <2>3, <3>1 DEF RunShape
  <2>8. /\ q.at = r.at /\ q.began = r.began /\ q.felt = r.felt /\ q.noChain = r.noChain /\ q.todo = r.todo
        /\ q.source = r.source /\ q.srcChain = r.srcChain /\ q.srcHeld = r.srcHeld
        /\ q.removed \subseteq Chains /\ q.erased \subseteq Chains /\ q.reported \subseteq Chains
    BY <1>5, <2>5, <2>7 DEF Looked
  <2>9. RunTypes(q)
    <3>1. q.at \in Stages /\ q.at \notin {"sources", "done"} BY <1>2, <2>8 DEF SweepStages, Stages
    <3>2. \A c \in Chains : q.noChain[c] = 0 /\ q.noChain[c] \in Nat BY <1>5, <2>8
    <3>3. q.cursor \in Nat /\ q.source \in Nat /\ q.srcChain \in Nat /\ q.srcChain = 0 /\ q.source = 0
      BY <1>5, <1>6, <2>6, <2>8
    <3>4. q.srcHeld \in BOOLEAN BY <1>10, <2>8, Zenon
    <3>5. q.todo \subseteq Chains BY <1>5, <2>8
    <3> QED BY <2>8, <3>1, <3>2, <3>3, <3>4, <3>5, Zenon DEF RunTypes
  <2>10. ASSUME NEW c \in Chains PROVE ChainSeen(q, c, folder[c], harm[c], erased \cap {c})
    <3>1. ChainSeen(r, c, folder[c], harm[c], erased \cap {c}) BY <1>3
    <3>2. CASE c = b
      <4>1. Steady(q, p, c) BY <2>7 DEF Steady
      <4> QED BY <1>2, <1>5, <2>4, <2>8, <3>1, <3>2, <4>1, SeenGood
    <3>3. CASE c # b
      <4>1. Steady(q, r, c) BY <2>5, <2>7, <3>3 DEF Looked, Steady
      <4>2. q.at # "anchors" /\ q.srcChain # c BY <1>2, <1>5, <1>6, <2>8 DEF SweepStages
      <4>3. Past(q, c) => Past(r, c) \/ Accounted(r, c, folder[c])
        <5>1. CASE stage = "walk" BY <1>2, <2>8, <5>1 DEF Past
        <5>2. CASE stage = "index"
          <6>1. c <= r.cursor \/ c > r.cursor BY <1>5, <1>6
          <6>2. c \in left => ~(c <= b) BY <1>6, <2>1, <3>3
          <6> QED BY <1>2, <1>7, <2>6, <2>8, <5>2, <6>1, <6>2 DEF Past
        <5>3. CASE stage \notin {"walk", "index"} BY <1>2, <5>3 DEF Past, SweepStages
        <5> QED BY <5>1, <5>2, <5>3
      <4> QED BY <1>5, <3>1, <4>1, <4>2, <4>3, SeenSteady
    <3> QED BY <3>2, <3>3
  <2> QED BY <2>6, <2>9, <2>10 DEF RunOf
<1> QED BY <1>8, <1>9

-----------------------------------------------------------------------------
(* The anchors folder *)

\* A chain the call looks at is seen as before, with what the look adds.
LEMMA SeenLooked ==
    ASSUME NEW p, NEW c, NEW f, NEW h, NEW e, ChainSeen(p, c, f, h, e), Busy(p), p.at \in {"anchors", "sources"},
           NEW q, Good(q, p, c, f, e)
    PROVE  ChainSeen(q, c, f, h, e)
<1>1. /\ Judged(q, c, e) /\ (Explained(p, c) => Explained(q, c) \/ Excused(p, c))
      /\ q.at = p.at /\ q.felt = p.felt /\ q.began = p.began /\ q.todo = p.todo
      /\ q.source = p.source /\ q.srcChain = p.srcChain /\ q.srcHeld = p.srcHeld /\ q.srcIds = p.srcIds
  BY DEF Good, Looked
<1>2. (Excused(q, c) <=> Excused(p, c)) /\ (Busy(q) <=> Busy(p)) BY <1>1 DEF Excused, Busy
<1>3. h \subseteq q.felt[c] /\ (q.at = "anchors" /\ c \in q.todo => f.anchors # <<>>) BY <1>1 DEF ChainSeen
<1>4. Past(q, c) => Accounted(q, c, f)
  <2>1. Past(p, c) BY DEF Past
  <2>2. Accounted(p, c, f) BY <2>1 DEF ChainSeen
  <2> QED BY <1>1, <1>2, <2>2 DEF Accounted
<1>5. "cut" \in q.began[c] => f.index # "absent" \/ f.next > 1 \/ e # {} \/ Excused(q, c)
  BY <1>1, <1>2 DEF ChainSeen
<1>6. q.at = "sources" /\ q.srcChain = c => Pointed(q, c, f)
  <2> SUFFICES ASSUME p.at = "sources", p.srcChain = c PROVE Pointed(q, c, f) BY <1>1
  <2>1. Pointed(p, c, f) BY DEF ChainSeen
  <2>2. ~q.srcHeld => q.felt[c] # {} /\ (~Explained(q, c) => Excused(q, c)) BY <1>1, <1>2, <2>1 DEF Pointed
  <2>3. q.felt[c] = {} => /\ \A x \in q.srcIds : x \in Nat /\ 0 < x /\ x < f.next
                          /\ \A s \in Sources : s > q.source => f.sources[s] \notin q.srcIds
    BY <1>1, <2>1 DEF Pointed
  <2> QED BY <2>2, <2>3 DEF Pointed
<1> QED BY <1>1, <1>3, <1>4, <1>5, <1>6 DEF ChainSeen

LEMMA LookedRun ==
    ASSUME NEW fs, NEW hs, NEW es, NEW p, RunOf(p, fs, hs, es), p.at \in {"anchors", "sources"}, NEW c \in Chains,
           p.at = "sources" => p.srcChain = c, NEW q, Good(q, p, c, fs[c], es \cap {c})
    PROVE  RunOf(q, fs, hs, es)
<1>1. RunTypes(p) /\ \A b \in Chains : ChainSeen(p, b, fs[b], hs[b], es \cap {b}) BY DEF RunOf
<1>2. Busy(p) BY DEF Busy
<1>3. Looked(q, p, c) BY DEF Good
<1>4. /\ q.at = p.at /\ q.felt = p.felt /\ q.began = p.began /\ q.todo = p.todo /\ q.cursor = p.cursor /\ q.noChain = p.noChain
      /\ q.source = p.source /\ q.srcChain = p.srcChain /\ q.srcHeld = p.srcHeld
      /\ \A b \in Chains : b # c => q.rows[b] = p.rows[b] /\ q.problems[b] = p.problems[b]
      /\ p.removed \subseteq q.removed /\ q.removed \subseteq p.removed \cup {c}
      /\ p.erased \subseteq q.erased /\ q.erased \subseteq p.erased \cup {c}
      /\ q.reported \subseteq p.reported \cup {c}
  BY <1>3 DEF Looked
<1>5. RunTypes(q)
  <2>1. p.reported \subseteq Chains /\ p.removed \subseteq Chains /\ p.erased \subseteq Chains BY <1>1 DEF RunTypes
  <2>2. q.reported \subseteq Chains /\ q.removed \subseteq Chains /\ q.erased \subseteq Chains BY <1>4, <2>1
  <2> QED BY <1>1, <1>4, <2>2, Zenon DEF RunTypes
<1>6. ASSUME NEW b \in Chains PROVE ChainSeen(q, b, fs[b], hs[b], es \cap {b})
  <2>1. ChainSeen(p, b, fs[b], hs[b], es \cap {b}) BY <1>1
  <2>2. CASE b = c BY <1>2, <2>1, <2>2, SeenLooked
  <2>3. CASE b # c
    <3>1. Steady(q, p, b) BY <1>4, <2>3 DEF Steady
    <3>2. q.at = "anchors" /\ b \in q.todo => fs[b].anchors # <<>> BY <1>4, <2>1 DEF ChainSeen
    <3>3. Past(p, b) BY DEF Past
    <3>4. ~(q.at = "sources" /\ q.srcChain = b) BY <1>4, <2>3
    <3> QED BY <1>2, <2>1, <3>1, <3>2, <3>3, <3>4, SeenSteady
  <2> QED BY <2>2, <2>3
<1>7. RunShape(q) BY <1>3 DEF Looked
<1> QED BY <1>5, <1>6, <1>7 DEF RunOf

\* Which folders are left is all that changes.
WithTodo(r, at, todo, cursor) == [r EXCEPT !.at = at, !.todo = todo, !.cursor = cursor]

LEMMA TodoKeeps ==
    ASSUME NEW fs, NEW hs, NEW es, NEW r, RunOf(r, fs, hs, es), r.at \in {"open anchors", "anchors"},
           NEW todo \in SUBSET Chains, \A c \in todo : fs[c].anchors # <<>>,
           NEW at \in {"anchors", "content"}, NEW cursor \in Nat
    PROVE  RunOf(WithTodo(r, at, todo, cursor), fs, hs, es)
<1>0. PICK q : q = WithTodo(r, at, todo, cursor) OBVIOUS
<1>1. RunShape(r) /\ RunTypes(r) /\ \A c \in Chains : ChainSeen(r, c, fs[c], hs[c], es \cap {c}) BY DEF RunOf
<1>2. RunShape(q) /\ q.at = at /\ q.todo = todo /\ q.cursor = cursor BY <1>0, <1>1 DEF RunShape, WithTodo
<1>3. /\ q.rows = r.rows /\ q.problems = r.problems /\ q.noChain = r.noChain /\ q.felt = r.felt /\ q.began = r.began
      /\ q.removed = r.removed /\ q.erased = r.erased /\ q.reported = r.reported
      /\ q.source = r.source /\ q.srcChain = r.srcChain /\ q.srcHeld = r.srcHeld
  BY <1>0, <1>1 DEF RunShape, WithTodo
<1>4. RunTypes(q)
  <2>1. q.at \in Stages /\ q.at # "sources" BY <1>2 DEF Stages
  <2>2. r.at \notin {"sources", "done"} OBVIOUS
  <2> QED BY <1>1, <1>2, <1>3, <2>1, <2>2, Zenon DEF RunTypes
<1>5. ASSUME NEW c \in Chains PROVE ChainSeen(q, c, fs[c], hs[c], es \cap {c})
  <2>1. Steady(q, r, c) BY <1>3 DEF Steady
  <2>2. Busy(r) /\ Past(r, c) BY DEF Busy, Past
  <2>3. c \in q.todo => fs[c].anchors # <<>> BY <1>2
  <2>4. q.at # "sources" BY <1>2
  <2>5. ChainSeen(r, c, fs[c], hs[c], es \cap {c}) BY <1>1
  <2> QED BY <2>1, <2>2, <2>3, <2>4, <2>5, SeenSteady
<1> QED BY <1>0, <1>2, <1>4, <1>5 DEF RunOf

LEMMA OpenKeeps ==
    ASSUME NEW r, r = run, RunOf(r, folder, harm, erased), OpenAnchors, NEW q, q = run' PROVE RunOf(q, folder, harm, erased)
<1>1. PICK todo : todo = {c \in Chains : folder[c].anchors # <<>>} OBVIOUS
<1>2. r.at = "open anchors" /\ q = [r EXCEPT !.at = "anchors", !.todo = todo] BY <1>1 DEF OpenAnchors
<1>3. RunShape(r) /\ r.cursor \in Nat BY DEF RunOf, RunTypes
<1>4. q = [r EXCEPT !.at = "anchors", !.todo = todo, !.cursor = r.cursor] BY <1>2, <1>3 DEF RunShape
<1>5. PICK at \in {"anchors", "content"} : at = "anchors" OBVIOUS
<1>6. q = WithTodo(r, at, todo, r.cursor) BY <1>4, <1>5 DEF WithTodo
<1>7. todo \in SUBSET Chains /\ \A c \in todo : folder[c].anchors # <<>> BY <1>1
<1>8. r.at \in {"open anchors", "anchors"} BY <1>2
<1> QED BY <1>3, <1>6, <1>7, <1>8, TodoKeeps

\* A chain whose checkpoints are there and its entries are not lost them.
LEMMA AnchorGood ==
    ASSUME NEW p, NEW c \in Chains, NEW h, NEW e, ChainInv(folder[c], h, e), ChainSeen(p, c, folder[c], h, e),
           RunShape(p), p.at = "anchors", folder[c].anchors # <<>>,
           NEW q, q = IF InStore(p, c) THEN p ELSE AddProblems(Removed(RowFor(p, c), c), c, {"checkpoints"})
    PROVE  Good(q, p, c, folder[c], e)
<1>1. PICK f : f = folder[c] OBVIOUS
<1>2. Busy(p) BY DEF Busy
<1>3. Judged(p, c, e) BY <1>2, FeltIs
<1>4. Looked(p, p, c) BY LookedSame
<1>5. p.at # "index" OBVIOUS
<1>6. CASE InStore(p, c)
  <2>1. q = p BY <1>6
  <2>2. Good(q, p, c, f, e) BY <1>3, <1>4, <1>5, <2>1, GoodIs
  <2> QED BY <1>1, <2>2
<1>7. CASE ~InStore(p, c)
  <2>1. Lost(h) BY <1>7 DEF ChainInv, Checkpointed, InStore
  <2>2. h \cap {"remove", "truncate", "unbind", "reverse", "forward"} # {} /\ h # {} BY <2>1 DEF Lost
  <2>3. Excused(p, c) /\ p.felt[c] # {} BY <1>2, <2>2, FeltIs
  <2>4. PICK a : a = RowFor(p, c) OBVIOUS
  <2>5. PICK b : b = Removed(a, c) OBVIOUS
  <2>6. PICK ps : ps = {"checkpoints"} OBVIOUS
  <2>7. q = AddProblems(b, c, ps) BY <1>7, <2>4, <2>5, <2>6
  <2>8. Looked(a, p, c) /\ Besides(a, p, "rows") BY <1>4, <2>4, RowForLooked
  <2>9. Looked(b, p, c) /\ Besides(b, a, "removed") BY <2>5, <2>8, RemovedLooked
  <2>13. Looked(AddProblems(b, c, ps), p, c) /\ Besides(AddProblems(b, c, ps), b, "problems") BY <2>9, AddLooked, Zenon
  <2>10. Looked(q, p, c) /\ Besides(q, b, "problems") BY <2>7, <2>13, Zenon
  <2>11. q.erased = p.erased BY <2>8, <2>9, <2>10 DEF Besides
  <2>12. Good(q, p, c, f, e) BY <1>3, <1>5, <2>3, <2>10, <2>11, GoodIs
  <2> QED BY <1>1, <2>12
<1> QED BY <1>6, <1>7

LEMMA AnchorsKeep ==
    ASSUME FolderInv, NEW r, r = run, RunOf(r, folder, harm, erased), SweepAnchors, NEW q, q = run'
    PROVE  RunOf(q, folder, harm, erased)
<1>1. RunShape(r) /\ RunTypes(r) /\ r.cursor \in Nat /\ r.todo \subseteq Chains BY DEF RunOf, RunTypes
<1>2. r.at = "anchors" BY DEF SweepAnchors
<1>3. \A c \in Chains : ChainSeen(r, c, folder[c], harm[c], erased \cap {c}) BY DEF RunOf
<1>4. \A c \in r.todo : folder[c].anchors # <<>> BY <1>1, <1>2, <1>3 DEF ChainSeen
<1>5. CASE r.todo = {} /\ q = Stage(r, "content")
  <2>1. PICK at, todo, cursor : at = "content" /\ todo = r.todo /\ cursor = 0 OBVIOUS
  <2>2. q = WithTodo(r, at, todo, cursor) BY <1>1, <1>5, <2>1 DEF Stage, RunShape, WithTodo
  <2>3. todo \in SUBSET Chains /\ \A c \in todo : folder[c].anchors # <<>> BY <1>1, <1>4, <2>1
  <2>4. r.at \in {"open anchors", "anchors"} /\ at \in {"anchors", "content"} /\ cursor \in Nat BY <1>2, <2>1
  <2> QED BY <2>2, <2>3, <2>4, TodoKeeps
<1>6. ASSUME NEW c \in r.todo, NEW p, p = [r EXCEPT !.todo = r.todo \ {c}],
             q = IF InStore(p, c) THEN p ELSE AddProblems(Removed(RowFor(p, c), c), c, {"checkpoints"})
      PROVE  RunOf(q, folder, harm, erased)
  <2>1. PICK at, todo : at = "anchors" /\ todo = r.todo \ {c} OBVIOUS
  <2>2. p = WithTodo(r, at, todo, r.cursor) BY <1>1, <1>2, <1>6, <2>1 DEF RunShape, WithTodo
  <2>3. todo \in SUBSET Chains /\ \A b \in todo : folder[b].anchors # <<>> BY <1>1, <1>4, <2>1
  <2>4. RunOf(p, folder, harm, erased) BY <1>1, <1>2, <2>1, <2>2, <2>3, TodoKeeps
  <2>5. p.at = "anchors" BY <1>1, <1>2, <1>6 DEF RunShape
  <2>6. c \in Chains /\ folder[c].anchors # <<>> BY <1>1, <1>4, <1>6
  <2>7. ChainInv(folder[c], harm[c], erased \cap {c}) BY <2>6 DEF FolderInv
  <2>8. RunShape(p) /\ ChainSeen(p, c, folder[c], harm[c], erased \cap {c}) BY <2>4, <2>6 DEF RunOf
  <2>9. Good(q, p, c, folder[c], erased \cap {c}) BY <1>6, <2>5, <2>6, <2>7, <2>8, AnchorGood
  <2> QED BY <2>4, <2>5, <2>6, <2>9, LookedRun
<1>7. \/ r.todo = {} /\ q = Stage(r, "content")
      \/ \E c \in r.todo : \E p : /\ p = [r EXCEPT !.todo = r.todo \ {c}]
                                  /\ q = IF InStore(p, c) THEN p ELSE AddProblems(Removed(RowFor(p, c), c), c, {"checkpoints"})
  BY Zenon DEF SweepAnchors
<1> QED BY <1>5, <1>6, <1>7

-----------------------------------------------------------------------------
(* The source positions *)

LEMMA FirstRowIs ==
    ASSUME NEW S, S \subseteq Chains \X Sources, S # {} PROVE FirstRow(S) \in S
<1>1. PICK T : T = {c \in Chains : \E s \in Sources : <<c, s>> \in S} OBVIOUS
<1>2. T \subseteq Nat /\ T # {}
  <2>1. PICK x : x \in S OBVIOUS
  <2>2. PICK c \in Chains, s \in Sources : x = <<c, s>> BY <2>1
  <2> QED BY <1>1, <2>1, <2>2, FolderAssumption
<1>3. PICK c \in T : \A d \in T : c <= d BY <1>2, LeastNumber
<1>4. PICK U : U = {s \in Sources : <<c, s>> \in S} OBVIOUS
<1>5. U \subseteq Nat /\ U # {} BY <1>1, <1>3, <1>4, FolderAssumption
<1>6. PICK s \in U : \A t \in U : s <= t BY <1>5, LeastNumber
<1>7. PICK x : x = <<c, s>> OBVIOUS
<1>8. x \in S /\ x[1] = c /\ x[2] = s BY <1>4, <1>6, <1>7
<1>9. ASSUME NEW y \in S PROVE x[1] < y[1] \/ (x[1] = y[1] /\ x[2] <= y[2])
  <2>1. PICK d \in Chains, t \in Sources : y = <<d, t>> BY <1>9
  <2>2. y[1] = d /\ y[2] = t BY <2>1
  <2>3. d \in T /\ c <= d BY <1>1, <1>3, <1>9, <2>1
  <2>4. c \in Nat /\ d \in Nat BY <1>2, <1>3, <2>3
  <2>5. CASE c < d BY <1>8, <2>2, <2>5
  <2>6. CASE c = d
    <3>1. t \in U BY <1>4, <1>9, <2>1, <2>6
    <3>2. s <= t BY <1>6, <3>1
    <3> QED BY <1>8, <2>2, <2>6, <3>2
  <2>7. c < d \/ c = d BY <2>3, <2>4
  <2> QED BY <2>5, <2>6, <2>7
<1>10. \E z \in S : \A y \in S : z[1] < y[1] \/ (z[1] = y[1] /\ z[2] <= y[2]) BY <1>8, <1>9
<1> QED BY <1>10, Zenon DEF FirstRow

\* The call is at a position of chain c: p is what it knows before it looks at it.
At(p, r, c, s) ==
    p = [r EXCEPT !.cursor = c, !.source = s, !.srcChain = c,
                  !.srcHeld = IF r.srcChain = c THEN r.srcHeld ELSE Held(folder[c]),
                  !.srcIds = IF r.srcChain = c THEN r.srcIds ELSE {}]

LEMMA AtKeeps ==
    ASSUME FolderInv, NEW r, RunOf(r, folder, harm, erased), r.at = "sources", NEW c \in Chains, NEW s \in Sources,
           folder[c].sources[s] # 0, c > r.cursor \/ (c = r.cursor /\ s > r.source), NEW p, At(p, r, c, s)
    PROVE  /\ RunOf(p, folder, harm, erased) /\ p.at = "sources" /\ p.srcChain = c /\ p.source = s
           /\ p.felt[c] = {} => folder[c].sources[s] \notin p.srcIds
<1>1. RunShape(r) /\ RunTypes(r) /\ \A b \in Chains : ChainSeen(r, b, folder[b], harm[b], erased \cap {b}) BY DEF RunOf
<1>2. PICK f : f = folder[c] OBVIOUS
<1>3. ChainInv(f, harm[c], erased \cap {c}) /\ ChainSeen(r, c, f, harm[c], erased \cap {c}) BY <1>1, <1>2 DEF FolderInv
<1>4. Busy(r) /\ \A b \in Chains : Past(r, b) BY DEF Busy, Past
<1>5. PICK held : held = IF r.srcChain = c THEN r.srcHeld ELSE Held(f) OBVIOUS
<1>6. PICK ids : ids = IF r.srcChain = c THEN r.srcIds ELSE {} OBVIOUS
<1>7. p = [r EXCEPT !.cursor = c, !.source = s, !.srcChain = c, !.srcHeld = held, !.srcIds = ids]
  BY <1>2, <1>5, <1>6, Zenon DEF At
<1>8. /\ RunShape(p) /\ p.at = r.at /\ p.cursor = c /\ p.source = s /\ p.srcChain = c /\ p.srcIds = ids
      /\ p.rows = r.rows /\ p.problems = r.problems /\ p.noChain = r.noChain /\ p.felt = r.felt /\ p.began = r.began
      /\ p.removed = r.removed /\ p.erased = r.erased /\ p.reported = r.reported /\ p.todo = r.todo
  BY <1>1, <1>7 DEF RunShape
<1>9. p.srcHeld = held BY <1>1, <1>7 DEF RunShape
<1>10. c \in Nat /\ s \in Nat BY FolderAssumption
<1>11. r.srcChain = c => s > r.source
  <2>1. r.cursor = r.srcChain /\ r.cursor \in Nat BY <1>1 DEF RunTypes
  <2>2. r.srcChain = c => ~(c > r.cursor) BY <1>10, <2>1
  <2> QED BY <2>2
<1>12. held \in BOOLEAN
  <2>1. r.srcHeld \in BOOLEAN BY <1>1, Zenon DEF RunTypes
  <2>2. Held(f) \in BOOLEAN BY Zenon DEF Held
  <2> QED BY <1>5, <2>1, <2>2, Zenon
<1>13. RunTypes(p)
  <2>1. p.srcHeld \in BOOLEAN BY <1>9, <1>12, Zenon
  <2>2. p.cursor \in Nat /\ p.source \in Nat /\ p.srcChain \in Nat /\ p.cursor = p.srcChain BY <1>8, <1>10
  <2>3. p.at = "sources" BY <1>8
  <2> QED BY <1>1, <1>8, <2>1, <2>2, <2>3, Zenon DEF RunTypes
<1>14. Steady(p, r, c) /\ \A b \in Chains : Steady(p, r, b) BY <1>8 DEF Steady
<1>15. (Explained(p, c) <=> Explained(r, c)) /\ (Excused(p, c) <=> Excused(r, c))
  BY <1>8 DEF Explained, Excused
<1>16. ~Held(f) => r.felt[c] # {} /\ (~Explained(r, c) => Excused(r, c))
  <2>1. ~Blank(f) BY <1>2 DEF Blank
  <2> QED BY <1>3, <1>4, <2>1, NotHeld
<1>17. r.srcChain = c => Pointed(r, c, f) BY <1>3 DEF ChainSeen
<1>18. ~held => r.felt[c] # {} /\ (~Explained(r, c) => Excused(r, c))
  <2>1. CASE r.srcChain = c
    <3>1. held <=> r.srcHeld BY <1>5, <2>1, Zenon
    <3> QED BY <1>17, <2>1, <3>1 DEF Pointed
  <2>2. CASE r.srcChain # c
    <3>1. held <=> Held(f) BY <1>5, <2>2, Zenon
    <3> QED BY <1>16, <3>1
  <2> QED BY <2>1, <2>2
<1>19. r.felt[c] = {} => /\ \A x \in ids : x \in Nat /\ 0 < x /\ x < f.next
                         /\ \A t \in Sources : t > s => f.sources[t] \notin ids
                         /\ f.sources[s] \notin ids
  <2>1. CASE r.srcChain = c
    <3>1. r.felt[c] = {} => /\ \A x \in r.srcIds : x \in Nat /\ 0 < x /\ x < f.next
                            /\ \A t \in Sources : t > r.source => f.sources[t] \notin r.srcIds
      BY <1>17, <2>1 DEF Pointed
    <3>2. s > r.source BY <1>11, <2>1
    <3>3. r.source \in Nat /\ \A t \in Sources : t \in Nat BY <1>1, FolderAssumption DEF RunTypes
    <3>4. \A t \in Sources : t > s => t > r.source BY <1>10, <3>2, <3>3
    <3>5. ids = r.srcIds BY <1>6, <2>1
    <3> QED BY <3>1, <3>2, <3>4, <3>5
  <2>2. CASE r.srcChain # c BY <1>6, <2>2
  <2> QED BY <2>1, <2>2
<1>20. Pointed(p, c, f)
  <2>1. ~p.srcHeld => p.felt[c] # {} /\ (~Explained(p, c) => Excused(p, c)) BY <1>8, <1>9, <1>15, <1>18
  <2>2. p.felt[c] = {} => /\ \A x \in p.srcIds : x \in Nat /\ 0 < x /\ x < f.next
                          /\ \A t \in Sources : t > p.source => f.sources[t] \notin p.srcIds
    BY <1>8, <1>19
  <2> QED BY <2>1, <2>2 DEF Pointed
<1>21. ASSUME NEW b \in Chains PROVE ChainSeen(p, b, folder[b], harm[b], erased \cap {b})
  <2>1. ChainSeen(r, b, folder[b], harm[b], erased \cap {b}) BY <1>1
  <2>2. p.at # "anchors" BY <1>8
  <2>3. p.at = "sources" /\ p.srcChain = b => Pointed(p, b, folder[b]) BY <1>2, <1>8, <1>20
  <2> QED BY <1>4, <1>14, <2>1, <2>2, <2>3, SeenSteady
<1>22. RunOf(p, folder, harm, erased) BY <1>8, <1>13, <1>21 DEF RunOf
<1> QED BY <1>2, <1>8, <1>19, <1>22

\* A position of a chain that is not there is counted.
LEMMA CountKeeps ==
    ASSUME NEW fs, NEW hs, NEW es, NEW p, RunOf(p, fs, hs, es), p.at = "sources", NEW c \in Chains, p.srcChain = c, ~p.srcHeld,
           NEW q, q = [p EXCEPT !.noChain[c] = @ + 1]
    PROVE  RunOf(q, fs, hs, es)
<1>1. RunShape(p) /\ RunTypes(p) /\ \A b \in Chains : ChainSeen(p, b, fs[b], hs[b], es \cap {b}) BY DEF RunOf
<1>2. PICK new : new = [p.noChain EXCEPT ![c] = @ + 1] OBVIOUS
<1>3. q = [p EXCEPT !.noChain = new] BY <1>2
<1>4. p.noChain = [b \in Chains |-> p.noChain[b]] /\ \A b \in Chains : p.noChain[b] \in Nat BY <1>1 DEF RunShape, RunTypes
<1>5. /\ new = [b \in Chains |-> new[b]] /\ (\A b \in Chains : b # c => new[b] = p.noChain[b])
      /\ \A b \in Chains : new[b] \in Nat
  BY <1>2, <1>4
<1>6. /\ RunShape(q) /\ q.noChain = new
      /\ q.at = p.at /\ q.cursor = p.cursor /\ q.source = p.source /\ q.srcChain = p.srcChain /\ q.srcIds = p.srcIds
      /\ q.rows = p.rows /\ q.problems = p.problems /\ q.felt = p.felt /\ q.began = p.began
      /\ q.removed = p.removed /\ q.erased = p.erased /\ q.reported = p.reported /\ q.todo = p.todo
  BY <1>1, <1>3, <1>5 DEF RunShape
<1>7. q.srcHeld = p.srcHeld BY <1>1, <1>3 DEF RunShape
<1>8. RunTypes(q)
  <2>1. q.srcHeld \in BOOLEAN BY <1>1, <1>7, Zenon DEF RunTypes
  <2>2. \A b \in Chains : q.noChain[b] \in Nat BY <1>5, <1>6
  <2> QED BY <1>1, <1>6, <2>1, <2>2, Zenon DEF RunTypes
<1>9. ASSUME NEW b \in Chains PROVE ChainSeen(q, b, fs[b], hs[b], es \cap {b})
  <2>1. ChainSeen(p, b, fs[b], hs[b], es \cap {b}) BY <1>1
  <2>2. Busy(p) /\ Past(p, b) /\ Busy(q) BY <1>6 DEF Busy, Past
  <2>3. CASE b # c
    <3>1. Steady(q, p, b) BY <1>5, <1>6, <2>3 DEF Steady
    <3>2. q.at # "anchors" /\ q.srcChain # b BY <1>6, <2>3
    <3> QED BY <2>1, <2>2, <3>1, <3>2, SeenSteady
  <2>4. CASE b = c
    <3>1. (Explained(q, c) <=> Explained(p, c)) /\ (Excused(q, c) <=> Excused(p, c)) BY <1>6 DEF Explained, Excused
    <3>2. Pointed(p, c, fs[c]) /\ Judged(p, c, es \cap {c}) BY <2>1, <2>4 DEF ChainSeen
    <3>3. p.felt[c] # {} /\ (~Explained(p, c) => Excused(p, c)) BY <3>2 DEF Pointed
    <3>4. Judged(q, c, es \cap {c}) BY <1>6, <3>1, <3>2, <3>3 DEF Judged
    <3>5. Pointed(q, c, fs[c])
      <4>1. ~q.srcHeld => q.felt[c] # {} /\ (~Explained(q, c) => Excused(q, c)) BY <1>6, <3>1, <3>3
      <4>2. q.felt[c] # {} BY <1>6, <3>3
      <4> QED BY <4>1, <4>2 DEF Pointed
    <3>6. Accounted(q, c, fs[c])
      <4>1. Accounted(p, c, fs[c]) BY <2>1, <2>2, <2>4 DEF ChainSeen
      <4> QED BY <3>1, <4>1 DEF Accounted
    <3>7. "cut" \in q.began[c] => fs[c].index # "absent" \/ fs[c].next > 1 \/ es \cap {c} # {} \/ Excused(q, c)
      BY <1>6, <2>1, <2>2, <2>4, <3>1 DEF ChainSeen
    <3>8. hs[c] \subseteq q.felt[c] BY <1>6, <2>1, <2>2, <2>4 DEF ChainSeen
    <3>9. q.at # "anchors" BY <1>6
    <3> QED BY <2>4, <3>4, <3>5, <3>6, <3>7, <3>8, <3>9 DEF ChainSeen
  <2> QED BY <2>3, <2>4
<1> QED BY <1>6, <1>8, <1>9 DEF RunOf

\* An entry pointed at for the first time.
LEMMA PointKeeps ==
    ASSUME FolderInv, NEW p, RunOf(p, folder, harm, erased), p.at = "sources", NEW c \in Chains, p.srcChain = c,
           NEW s \in Sources, p.source = s, folder[c].sources[s] # 0,
           NEW q, q = [p EXCEPT !.srcIds = p.srcIds \cup {folder[c].sources[s]}]
    PROVE  RunOf(q, folder, harm, erased)
<1>1. RunShape(p) /\ RunTypes(p) /\ \A b \in Chains : ChainSeen(p, b, folder[b], harm[b], erased \cap {b}) BY DEF RunOf
<1>2. PICK f, h : f = folder[c] /\ h = harm[c] OBVIOUS
<1>3. ChainInv(f, h, erased \cap {c}) /\ ChainSeen(p, c, f, h, erased \cap {c}) /\ f \in ChainRows
  BY <1>1, <1>2 DEF FolderInv, ChainInv
<1>4. PICK id : id = f.sources[s] OBVIOUS
<1>5. id \in Nat /\ 0 < id /\ id < f.next
  <2>1. f.sources \in [Sources -> Nat] BY <1>3 DEF ChainRows
  <2>2. id \in Nat /\ id # 0 BY <1>2, <1>4, <2>1
  <2>3. id < f.next BY <1>3, <1>4 DEF ChainInv, Below
  <2> QED BY <2>2, <2>3
<1>6. PICK ids : ids = p.srcIds \cup {id} OBVIOUS
<1>7. q = [p EXCEPT !.srcIds = ids] BY <1>2, <1>4, <1>6
<1>8. /\ RunShape(q) /\ q.srcIds = ids
      /\ q.at = p.at /\ q.cursor = p.cursor /\ q.source = p.source /\ q.srcChain = p.srcChain /\ q.noChain = p.noChain
      /\ q.rows = p.rows /\ q.problems = p.problems /\ q.felt = p.felt /\ q.began = p.began
      /\ q.removed = p.removed /\ q.erased = p.erased /\ q.reported = p.reported /\ q.todo = p.todo
  BY <1>1, <1>7 DEF RunShape
<1>9. q.srcHeld = p.srcHeld BY <1>1, <1>7 DEF RunShape
<1>10. RunTypes(q)
  <2>1. q.srcHeld \in BOOLEAN BY <1>1, <1>9, Zenon DEF RunTypes
  <2> QED BY <1>1, <1>8, <2>1, Zenon DEF RunTypes
<1>11. (Explained(q, c) <=> Explained(p, c)) /\ (Excused(q, c) <=> Excused(p, c)) BY <1>8 DEF Explained, Excused
<1>12. Busy(p) BY DEF Busy
<1>13. Pointed(p, c, f) BY <1>3 DEF ChainSeen
<1>14. q.felt[c] = {} => /\ \A x \in q.srcIds : x \in Nat /\ 0 < x /\ x < f.next
                         /\ \A t \in Sources : t > q.source => f.sources[t] \notin q.srcIds
  <2> SUFFICES ASSUME p.felt[c] = {}
               PROVE  /\ \A x \in ids : x \in Nat /\ 0 < x /\ x < f.next
                      /\ \A t \in Sources : t > s => f.sources[t] \notin ids
    BY <1>8
  <2>1. /\ \A x \in p.srcIds : x \in Nat /\ 0 < x /\ x < f.next
        /\ \A t \in Sources : t > s => f.sources[t] \notin p.srcIds
    BY <1>13 DEF Pointed
  <2>2. h = {} BY <1>3, <1>12, FeltIs
  <2>3. \A t \in Sources : f.sources[t] = id => t = s
    <3>1. \A t, u \in Sources : f.sources[t] = f.sources[u] => t = u \/ f.sources[t] = 0 BY <1>3, <2>2 DEF ChainInv, Sound
    <3> QED BY <1>4, <1>5, <3>1
  <2>4. \A t \in Sources : t > s => t # s BY FolderAssumption
  <2> QED BY <1>5, <1>6, <2>1, <2>3, <2>4
<1>15. Pointed(q, c, f)
  <2>1. ~q.srcHeld => q.felt[c] # {} /\ (~Explained(q, c) => Excused(q, c)) BY <1>8, <1>9, <1>11, <1>13 DEF Pointed
  <2> QED BY <1>14, <2>1 DEF Pointed
<1>16. ASSUME NEW b \in Chains PROVE ChainSeen(q, b, folder[b], harm[b], erased \cap {b})
  <2>1. ChainSeen(p, b, folder[b], harm[b], erased \cap {b}) BY <1>1
  <2>2. Steady(q, p, b) BY <1>8 DEF Steady
  <2>3. q.at # "anchors" /\ Past(p, b) BY <1>8 DEF Past
  <2>4. q.at = "sources" /\ q.srcChain = b => Pointed(q, b, folder[b]) BY <1>2, <1>8, <1>15
  <2> QED BY <1>12, <2>1, <2>2, <2>3, <2>4, SeenSteady
<1> QED BY <1>8, <1>10, <1>16 DEF RunOf

LEMMA SourcesKeep ==
    ASSUME FolderInv, NEW r, r = run, RunOf(r, folder, harm, erased), SweepSources, NEW q, q = run'
    PROVE  RunOf(q, folder, harm, erased)
<1>1. r.at = "sources" /\ RowsLeft # {} BY DEF SweepSources
<1>2. FirstRow(RowsLeft) \in RowsLeft
  <2>1. RowsLeft \subseteq Chains \X Sources BY DEF RowsLeft
  <2> QED BY <1>1, <2>1, FirstRowIs
<1>3. PICK c \in Chains, s \in Sources : c = FirstRow(RowsLeft)[1] /\ s = FirstRow(RowsLeft)[2] BY <1>2 DEF RowsLeft
<1>4. folder[c].sources[s] # 0 /\ (c > r.cursor \/ (c = r.cursor /\ s > r.source)) BY <1>2, <1>3 DEF RowsLeft
<1>5. PICK id : id = folder[c].sources[s] OBVIOUS
<1>6. PICK p : p = [r EXCEPT !.cursor = c, !.source = s, !.srcChain = c,
                             !.srcHeld = IF SameChain(r, c) THEN @ ELSE InStore(r, c),
                             !.srcIds = IF SameChain(r, c) THEN @ ELSE {}]
  OBVIOUS
<1>7. q = CASE ~p.srcHeld -> [p EXCEPT !.noChain[c] = @ + 1]
            [] p.srcHeld /\ id \notin Ids(folder[c]) -> AddProblems(p, c, {"dangling"})
            [] p.srcHeld /\ id \in Ids(folder[c]) /\ id \in p.srcIds -> AddProblems(p, c, {"shared"})
            [] OTHER -> [p EXCEPT !.srcIds = @ \cup {id}]
  BY <1>3, <1>5, <1>6, Zenon DEF SweepSources
<1>8. At(p, r, c, s) BY <1>6 DEF At, SameChain, InStore
<1>9. /\ RunOf(p, folder, harm, erased) /\ p.at = "sources" /\ p.srcChain = c /\ p.source = s
      /\ p.felt[c] = {} => id \notin p.srcIds
  BY <1>1, <1>4, <1>5, <1>8, AtKeeps
<1>10. RunShape(p) /\ ChainSeen(p, c, folder[c], harm[c], erased \cap {c}) BY <1>9 DEF RunOf
<1>11. PICK f, h : f = folder[c] /\ h = harm[c] OBVIOUS
<1>12. ChainInv(f, h, erased \cap {c}) BY <1>11 DEF FolderInv
<1>13. Busy(p) BY <1>9 DEF Busy
<1>14. ASSUME p.felt[c] # {}, NEW ps, q = AddProblems(p, c, ps) PROVE RunOf(q, folder, harm, erased)
  <2>1. Looked(p, p, c) BY <1>10, LookedSame
  <2>2. Looked(AddProblems(p, c, ps), p, c) /\ Besides(AddProblems(p, c, ps), p, "problems") BY <2>1, AddLooked, Zenon
  <2>3. Looked(q, p, c) /\ Besides(q, p, "problems") BY <1>14, <2>2, Zenon
  <2>4. q.rows = p.rows /\ q.removed = p.removed /\ q.erased = p.erased BY <2>3 DEF Besides
  <2>5. Judged(p, c, erased \cap {c}) BY <1>10 DEF ChainSeen
  <2>6. Explained(p, c) => Explained(q, c) BY <2>4 DEF Explained
  <2>7. p.at # "index" BY <1>9
  <2>8. Good(q, p, c, folder[c], erased \cap {c}) BY <1>14, <2>3, <2>4, <2>5, <2>6, <2>7, GoodIs
  <2>9. p.at \in {"anchors", "sources"} BY <1>9
  <2> QED BY <1>9, <2>8, <2>9, LookedRun
<1>15. CASE ~p.srcHeld
  <2>1. q = [p EXCEPT !.noChain[c] = @ + 1] BY <1>7, <1>15, Zenon
  <2> QED BY <1>9, <1>15, <2>1, CountKeeps
<1>16. CASE p.srcHeld /\ id \notin Ids(folder[c])
  <2>1. PICK ps : ps = {"dangling"} OBVIOUS
  <2>2. q = AddProblems(p, c, ps) BY <1>7, <1>16, <2>1, Zenon
  <2>3. h # {}
    <3> SUFFICES ASSUME h = {} PROVE FALSE OBVIOUS
    <3>1. f.sources[s] = 0 \/ f.sources[s] \in Ids(f) BY <1>12 DEF ChainInv, Sound
    <3> QED BY <1>4, <1>5, <1>11, <1>16, <3>1
  <2>4. p.felt[c] # {} BY <1>10, <1>11, <1>13, <2>3, FeltIs
  <2> QED BY <1>14, <2>2, <2>4
<1>17. CASE p.srcHeld /\ id \in Ids(folder[c]) /\ id \in p.srcIds
  <2>1. PICK ps : ps = {"shared"} OBVIOUS
  <2>2. q = AddProblems(p, c, ps) BY <1>7, <1>17, <2>1, Zenon
  <2>3. p.felt[c] # {} BY <1>9, <1>17
  <2> QED BY <1>14, <2>2, <2>3
<1>18. CASE p.srcHeld /\ id \in Ids(folder[c]) /\ id \notin p.srcIds
  <2>1. q = [p EXCEPT !.srcIds = @ \cup {id}] BY <1>7, <1>18, Zenon
  <2>2. q = [p EXCEPT !.srcIds = p.srcIds \cup {folder[c].sources[s]}] BY <1>5, <1>10, <2>1 DEF RunShape
  <2> QED BY <1>4, <1>9, <2>2, PointKeeps
<1> QED BY <1>15, <1>16, <1>17, <1>18, Zenon

-----------------------------------------------------------------------------
(* A call ends, stops and begins *)

LEMMA DoneKeeps ==
    ASSUME NEW r, r = run, RunOf(r, folder, harm, erased), SweepDone, NEW q, q = run' PROVE RunOf(q, folder, harm, erased)
<1>1. RunShape(r) /\ RunTypes(r) /\ \A c \in Chains : ChainSeen(r, c, folder[c], harm[c], erased \cap {c}) BY DEF RunOf
<1>2. PICK none : none = {c \in Chains : r.noChain[c] > 0} OBVIOUS
<1>3. PICK rows : rows = [c \in Chains |-> IF c \in none /\ r.rows[c] = "none" THEN "absent" ELSE r.rows[c]] OBVIOUS
<1>4. PICK removed : removed = r.removed \cup {c \in none : ~Explained(r, c)} OBVIOUS
<1>5. PICK problems : problems = [c \in Chains |-> r.problems[c] \cup {"no chain" : d \in none \cap {c}}] OBVIOUS
<1>6. r.at = "sources" /\ q = [r EXCEPT !.at = "done", !.rows = rows, !.removed = removed, !.problems = problems]
  <2>1. r.at = "sources" BY DEF SweepDone
  <2>2. q = [r EXCEPT !.at = "done",
                 !.rows = [c \in Chains |-> IF c \in none /\ r.rows[c] = "none" THEN "absent" ELSE r.rows[c]],
                 !.removed = @ \cup {c \in none : ~Explained(r, c)},
                 !.problems = [c \in Chains |-> r.problems[c] \cup {"no chain" : d \in none \cap {c}}]]
    BY <1>2, Zenon DEF SweepDone
  <2>3. q = [r EXCEPT !.at = "done", !.rows = rows, !.removed = @ \cup {c \in none : ~Explained(r, c)}, !.problems = problems]
    BY <1>3, <1>5, <2>2, Zenon
  <2> QED BY <1>1, <1>4, <2>1, <2>3 DEF RunShape
<1>7. rows = [c \in Chains |-> rows[c]] BY <1>3
<1>8. problems = [c \in Chains |-> problems[c]] BY <1>5, Zenon
<1>13. RunShape(q) BY <1>1, <1>6, <1>7, <1>8 DEF RunShape
<1>14. q.at = "done" /\ q.rows = rows /\ q.removed = removed /\ q.problems = problems BY <1>1, <1>6 DEF RunShape
<1>15. /\ q.noChain = r.noChain /\ q.felt = r.felt /\ q.began = r.began /\ q.erased = r.erased /\ q.reported = r.reported
      /\ q.todo = r.todo /\ q.cursor = r.cursor /\ q.source = r.source /\ q.srcChain = r.srcChain
  BY <1>1, <1>6 DEF RunShape
<1>9. /\ RunShape(q) /\ q.at = "done" /\ q.rows = rows /\ q.removed = removed /\ q.problems = problems
      /\ q.noChain = r.noChain /\ q.felt = r.felt /\ q.began = r.began /\ q.erased = r.erased /\ q.reported = r.reported
      /\ q.todo = r.todo /\ q.cursor = r.cursor /\ q.source = r.source /\ q.srcChain = r.srcChain
  BY <1>13, <1>14, <1>15
<1>10. q.srcHeld = r.srcHeld BY <1>1, <1>6 DEF RunShape
<1>11. RunTypes(q)
  <2>1. q.srcHeld \in BOOLEAN BY <1>1, <1>10, Zenon DEF RunTypes
  <2>2. r.removed \subseteq Chains BY <1>1 DEF RunTypes
  <2>3. q.removed \subseteq Chains BY <1>2, <1>4, <1>9, <2>2
  <2>4. q.at \in Stages /\ q.at # "sources" /\ q.at \in {"sources", "done"} BY <1>9 DEF Stages
  <2> QED BY <1>1, <1>9, <2>1, <2>3, <2>4, Zenon DEF RunTypes
<1>12. ASSUME NEW c \in Chains PROVE ChainSeen(q, c, folder[c], harm[c], erased \cap {c})
  <2>1. ChainSeen(r, c, folder[c], harm[c], erased \cap {c}) BY <1>1
  <2>2. Judged(r, c, erased \cap {c}) /\ Accounted(r, c, folder[c]) BY <1>6, <2>1 DEF ChainSeen, Past
  <2>3. Explained(q, c) <=> Explained(r, c)
    <3>1. CASE c \in none /\ r.rows[c] = "none"
      <4>1. q.rows[c] = "absent" BY <1>3, <1>9, <3>1
      <4> QED BY <3>1, <4>1 DEF Explained
    <3>2. CASE ~(c \in none /\ r.rows[c] = "none")
      <4>1. q.rows[c] = r.rows[c] BY <1>3, <1>9, <3>2, Zenon
      <4> QED BY <4>1 DEF Explained
    <3> QED BY <3>1, <3>2
  <2>4. Excused(q, c) <=> Excused(r, c) BY <1>9 DEF Excused
  <2>5. c \notin none => q.problems[c] = r.problems[c]
    <3> SUFFICES ASSUME c \notin none PROVE problems[c] = r.problems[c] BY <1>9
    <3>1. {"no chain" : d \in none \cap {c}} = {} BY Zenon
    <3>2. problems[c] = r.problems[c] \cup {"no chain" : d \in none \cap {c}} BY <1>5, Zenon
    <3>3. r.problems[c] \cup {} = r.problems[c] OBVIOUS
    <3> QED BY <3>1, <3>2, <3>3, Zenon
  <2>6. r.felt[c] = {} => c \notin none
    <3>1. r.felt[c] = {} => r.noChain[c] = 0 BY <2>2 DEF Judged
    <3>2. r.noChain[c] = 0 => ~(r.noChain[c] > 0) OBVIOUS
    <3>3. c \in none => r.noChain[c] > 0 BY <1>2
    <3> QED BY <3>1, <3>2, <3>3
  <2>7. q.felt[c] = {} => q.problems[c] \subseteq {"no checkpoint"} /\ q.noChain[c] = 0 BY <1>9, <2>2, <2>5, <2>6 DEF Judged
  <2>8. c \in q.removed => Excused(q, c)
    <3>1. CASE c \in r.removed BY <2>2, <2>4, <3>1 DEF Judged
    <3>2. CASE c \in none /\ ~Explained(r, c) BY <1>2, <2>2, <2>4, <3>2 DEF Judged
    <3> QED BY <1>4, <1>9, <3>1, <3>2
  <2>9. q.noChain[c] > 0 /\ ~Explained(q, c) => Excused(q, c) BY <1>9, <2>2, <2>3, <2>4 DEF Judged
  <2>10. Judged(q, c, erased \cap {c}) BY <1>9, <2>2, <2>7, <2>8, <2>9 DEF Judged
  <2>11. Accounted(q, c, folder[c]) BY <2>2, <2>3, <2>4 DEF Accounted
  <2>12. ~Busy(q) /\ q.at # "anchors" /\ q.at # "sources" BY <1>9 DEF Busy
  <2> QED BY <2>10, <2>11, <2>12 DEF ChainSeen
<1> QED BY <1>9, <1>11, <1>12 DEF RunOf

LEMMA StartKeeps ==
    ASSUME FolderInv, NEW opts, VerifyStart(opts), NEW q, q = run' PROVE RunOf(q, folder, harm, erased)
<1>1. PICK n : n = NoRun OBVIOUS
<1>2. PICK hs : hs = harm OBVIOUS
<1>3. q = [n EXCEPT !.at = "walk", !.opts = opts, !.began = hs, !.felt = hs, !.since = struck] BY <1>1, <1>2 DEF VerifyStart
<1>4. RunOf(n, folder, harm, erased) BY <1>1, NoRunOf
<1>5. RunShape(n) /\ RunTypes(n) BY <1>4 DEF RunOf
<1>6. hs = [c \in Chains |-> hs[c]] BY <1>2 DEF FolderInv
<1>7. n.problems = [c \in Chains |-> {}] /\ n.noChain = [c \in Chains |-> 0] /\ n.removed = {} /\ n.erased = {} /\ n.at = "idle"
  BY <1>1 DEF NoRun
<1>8. /\ RunShape(q) /\ q.at = "walk" /\ q.felt = hs /\ q.began = hs
      /\ q.problems = n.problems /\ q.noChain = n.noChain /\ q.removed = n.removed /\ q.erased = n.erased
      /\ q.reported = n.reported /\ q.todo = n.todo /\ q.cursor = n.cursor /\ q.source = n.source /\ q.srcChain = n.srcChain
  BY <1>3, <1>5, <1>6 DEF RunShape
<1>9. q.srcHeld = n.srcHeld BY <1>3, <1>5 DEF RunShape
<1>10. RunTypes(q)
  <2>1. q.srcHeld \in BOOLEAN BY <1>5, <1>9, Zenon DEF RunTypes
  <2>2. q.at \in Stages /\ q.at \notin {"sources", "done"} /\ n.at \notin {"sources", "done"} BY <1>7, <1>8 DEF Stages
  <2>3. q.at # "sources" BY <1>8
  <2> QED BY <1>5, <1>8, <2>1, <2>2, <2>3, Zenon DEF RunTypes
<1>11. ASSUME NEW c \in Chains PROVE ChainSeen(q, c, folder[c], harm[c], erased \cap {c})
  <2>1. q.problems[c] = {} /\ q.noChain[c] = 0 /\ q.felt[c] = harm[c] /\ q.began[c] = harm[c] BY <1>2, <1>7, <1>8
  <2>2. c \notin q.removed /\ c \notin q.erased BY <1>7, <1>8
  <2>3. ~(q.noChain[c] > 0) BY <2>1
  <2>4. Judged(q, c, erased \cap {c}) BY <2>1, <2>2, <2>3 DEF Judged
  <2>5. q.at # "anchors" /\ q.at # "sources" /\ ~Past(q, c) BY <1>8 DEF Past
  <2>6. "cut" \in harm[c] => folder[c].index # "absent" \/ folder[c].next > 1 \/ erased \cap {c} # {} \/ Excused(q, c)
    <3>1. ChainInv(folder[c], harm[c], erased \cap {c}) BY DEF FolderInv
    <3>2. harm[c] \cap {"unbind", "reverse"} # {} => Excused(q, c) BY <2>1 DEF Excused, Taken
    <3> QED BY <3>1, <3>2 DEF ChainInv, Marked
  <2> QED BY <2>1, <2>4, <2>5, <2>6 DEF ChainSeen
<1> QED BY <1>8, <1>10, <1>11 DEF RunOf

-----------------------------------------------------------------------------
(* The stages, one by one *)

LEMMA WalkKeeps ==
    ASSUME FolderInv, NEW r, r = run, RunOf(r, folder, harm, erased), WalkChain, NEW q, q = run' PROVE RunOf(q, folder, harm, erased)
<1>1. RunShape(r) /\ \A c \in Chains : ChainSeen(r, c, folder[c], harm[c], erased \cap {c}) BY DEF RunOf
<1>2. PICK looked : looked = [c \in Chains |-> Walked(r, c)] OBVIOUS
<1>3. PICK having \in SUBSET Chains : having = {c \in Chains : Held(folder[c])} OBVIOUS
<1>4. PICK stage \in SweepStages, next \in NextStages : stage = "walk" /\ next = "index" BY DEF SweepStages, NextStages
<1>5. Sweep("walk", "index", having, looked) BY <1>2, <1>3, Zenon DEF WalkChain
<1>6. Sweep(stage, next, having, looked) BY <1>4, <1>5
<1>7. r.at = stage => \A c \in having : Good(looked[c], r, c, folder[c], erased \cap {c})
  <2> SUFFICES ASSUME r.at = "walk", NEW c \in having PROVE Good(looked[c], r, c, folder[c], erased \cap {c}) BY <1>4
  <2>1. c \in Chains /\ Held(folder[c]) BY <1>3
  <2>2. ChainInv(folder[c], harm[c], erased \cap {c}) BY <2>1 DEF FolderInv
  <2>3. Good(Walked(r, c), r, c, folder[c], erased \cap {c}) BY <1>1, <2>1, <2>2, WalkGood
  <2>4. looked[c] = Walked(r, c) BY <1>2, <2>1
  <2> QED BY <2>3, <2>4, Zenon
<1>8. (stage = "walk" <=> next = "index") /\ stage # "index" BY <1>4
<1> QED BY <1>4, <1>6, <1>7, <1>8, SweepKeeps

LEMMA IndexKeeps ==
    ASSUME FolderInv, NEW r, r = run, RunOf(r, folder, harm, erased), SweepIndex, NEW q, q = run' PROVE RunOf(q, folder, harm, erased)
<1>1. RunShape(r) /\ \A c \in Chains : ChainSeen(r, c, folder[c], harm[c], erased \cap {c}) BY DEF RunOf
<1>2. PICK looked : looked = [c \in Chains |-> IndexSeen(r, c)] OBVIOUS
<1>3. PICK having \in SUBSET Chains : having = {c \in Chains : folder[c].index # "absent"} OBVIOUS
<1>4. PICK stage \in SweepStages, next \in NextStages : stage = "index" /\ next = "forward" BY DEF SweepStages, NextStages
<1>5. Sweep("index", "forward", having, looked) BY <1>2, <1>3, Zenon DEF SweepIndex
<1>6. Sweep(stage, next, having, looked) BY <1>4, <1>5
<1>7. r.at = stage => \A c \in having : Good(looked[c], r, c, folder[c], erased \cap {c})
  <2> SUFFICES ASSUME r.at = "index", NEW c \in having PROVE Good(looked[c], r, c, folder[c], erased \cap {c}) BY <1>4
  <2>1. c \in Chains /\ folder[c].index # "absent" BY <1>3
  <2>2. ChainInv(folder[c], harm[c], erased \cap {c}) BY <2>1 DEF FolderInv
  <2>3. Good(IndexSeen(r, c), r, c, folder[c], erased \cap {c}) BY <1>1, <2>1, <2>2, IndexGood
  <2>4. looked[c] = IndexSeen(r, c) BY <1>2, <2>1
  <2> QED BY <2>3, <2>4, Zenon
<1>8. (stage = "walk" <=> next = "index") BY <1>4
<1>9. \A c \in Chains \ having : folder[c].index = "absent" BY <1>3
<1> QED BY <1>4, <1>6, <1>7, <1>8, <1>9, SweepKeeps

LEMMA ForwardKeeps ==
    ASSUME FolderInv, NEW r, r = run, RunOf(r, folder, harm, erased), SweepForward, NEW q, q = run' PROVE RunOf(q, folder, harm, erased)
<1>1. RunShape(r) /\ \A c \in Chains : ChainSeen(r, c, folder[c], harm[c], erased \cap {c}) BY DEF RunOf
<1>2. PICK looked : looked = [c \in Chains |-> ForwardSeen(r, c)] OBVIOUS
<1>3. PICK having \in SUBSET Chains : having = {c \in Chains : ~folder[c].forward} OBVIOUS
<1>4. PICK stage \in SweepStages, next \in NextStages : stage = "forward" /\ next = "open anchors" BY DEF SweepStages, NextStages
<1>5. Sweep("forward", "open anchors", having, looked) BY <1>2, <1>3, Zenon DEF SweepForward
<1>6. Sweep(stage, next, having, looked) BY <1>4, <1>5
<1>7. r.at = stage => \A c \in having : Good(looked[c], r, c, folder[c], erased \cap {c})
  <2> SUFFICES ASSUME r.at = "forward", NEW c \in having PROVE Good(looked[c], r, c, folder[c], erased \cap {c}) BY <1>4
  <2>1. c \in Chains /\ ~folder[c].forward BY <1>3
  <2>2. ChainInv(folder[c], harm[c], erased \cap {c}) BY <2>1 DEF FolderInv
  <2>3. Good(ForwardSeen(r, c), r, c, folder[c], erased \cap {c}) BY <1>1, <2>1, <2>2, ForwardGood
  <2>4. looked[c] = ForwardSeen(r, c) BY <1>2, <2>1
  <2> QED BY <2>3, <2>4, Zenon
<1>8. (stage = "walk" <=> next = "index") /\ stage # "index" BY <1>4
<1> QED BY <1>4, <1>6, <1>7, <1>8, SweepKeeps

LEMMA ContentKeeps ==
    ASSUME FolderInv, NEW r, r = run, RunOf(r, folder, harm, erased), SweepContent, NEW q, q = run' PROVE RunOf(q, folder, harm, erased)
<1>1. RunShape(r) /\ \A c \in Chains : ChainSeen(r, c, folder[c], harm[c], erased \cap {c}) BY DEF RunOf
<1>2. PICK looked : looked = [c \in Chains |-> ContentSeen(r, c)] OBVIOUS
<1>3. PICK having \in SUBSET Chains : having = {c \in Chains : folder[c].secrets # {}} OBVIOUS
<1>4. PICK stage \in SweepStages, next \in NextStages : stage = "content" /\ next = "signatures" BY DEF SweepStages, NextStages
<1>5. Sweep("content", "signatures", having, looked) BY <1>2, <1>3, Zenon DEF SweepContent
<1>6. Sweep(stage, next, having, looked) BY <1>4, <1>5
<1>7. r.at = stage => \A c \in having : Good(looked[c], r, c, folder[c], erased \cap {c})
  <2> SUFFICES ASSUME r.at = "content", NEW c \in having PROVE Good(looked[c], r, c, folder[c], erased \cap {c}) BY <1>4
  <2>1. c \in Chains /\ folder[c].secrets # {} BY <1>3
  <2>2. ChainInv(folder[c], harm[c], erased \cap {c}) BY <2>1 DEF FolderInv
  <2>3. Good(ContentSeen(r, c), r, c, folder[c], erased \cap {c}) BY <1>1, <2>1, <2>2, ContentGood
  <2>4. looked[c] = ContentSeen(r, c) BY <1>2, <2>1
  <2> QED BY <2>3, <2>4, Zenon
<1>8. (stage = "walk" <=> next = "index") /\ stage # "index" BY <1>4
<1> QED BY <1>4, <1>6, <1>7, <1>8, SweepKeeps

LEMMA SignaturesKeeps ==
    ASSUME FolderInv, NEW r, r = run, RunOf(r, folder, harm, erased), SweepSignatures, NEW q, q = run' PROVE RunOf(q, folder, harm, erased)
<1>1. RunShape(r) /\ \A c \in Chains : ChainSeen(r, c, folder[c], harm[c], erased \cap {c}) BY DEF RunOf
<1>2. PICK looked : looked = [c \in Chains |-> SignaturesSeen(r, c)] OBVIOUS
<1>3. PICK having \in SUBSET Chains : having = {c \in Chains : folder[c].sigs # {}} OBVIOUS
<1>4. PICK stage \in SweepStages, next \in NextStages : stage = "signatures" /\ next = "sources" BY DEF SweepStages, NextStages
<1>5. Sweep("signatures", "sources", having, looked) BY <1>2, <1>3, Zenon DEF SweepSignatures
<1>6. Sweep(stage, next, having, looked) BY <1>4, <1>5
<1>7. r.at = stage => \A c \in having : Good(looked[c], r, c, folder[c], erased \cap {c})
  <2> SUFFICES ASSUME r.at = "signatures", NEW c \in having PROVE Good(looked[c], r, c, folder[c], erased \cap {c}) BY <1>4
  <2>1. c \in Chains /\ folder[c].sigs # {} BY <1>3
  <2>2. ChainInv(folder[c], harm[c], erased \cap {c}) BY <2>1 DEF FolderInv
  <2>3. Good(SignaturesSeen(r, c), r, c, folder[c], erased \cap {c}) BY <1>1, <2>1, <2>2, SignaturesGood
  <2>4. looked[c] = SignaturesSeen(r, c) BY <1>2, <2>1
  <2> QED BY <2>3, <2>4, Zenon
<1>8. (stage = "walk" <=> next = "index") /\ stage # "index" BY <1>4
<1> QED BY <1>4, <1>6, <1>7, <1>8, SweepKeeps

\* Everything Verify does between two holds of the lock.
LEMMA VerifyKeeps ==
    ASSUME FolderInv, RunOf(run, folder, harm, erased), VerifyStep, NEW q, q = run' PROVE RunOf(q, folder, harm, erased)
<1>1. PICK r : r = run OBVIOUS
<1>2. RunOf(r, folder, harm, erased) BY <1>1
<1>3. ASSUME NEW opts, VerifyStart(opts) PROVE RunOf(q, folder, harm, erased) BY <1>3, StartKeeps
<1>4. CASE WalkChain BY <1>1, <1>2, <1>4, WalkKeeps
<1>5. CASE SweepIndex BY <1>1, <1>2, <1>5, IndexKeeps
<1>6. CASE SweepForward BY <1>1, <1>2, <1>6, ForwardKeeps
<1>7. CASE OpenAnchors BY <1>1, <1>2, <1>7, OpenKeeps
<1>8. CASE SweepAnchors BY <1>1, <1>2, <1>8, AnchorsKeep
<1>9. CASE SweepContent BY <1>1, <1>2, <1>9, ContentKeeps
<1>10. CASE SweepSignatures BY <1>1, <1>2, <1>10, SignaturesKeeps
<1>11. CASE SweepSources BY <1>1, <1>2, <1>11, SourcesKeep
<1>12. CASE SweepDone BY <1>1, <1>2, <1>12, DoneKeeps
<1>13. CASE VerifyStops BY <1>13, NoRunOf DEF VerifyStops
<1> QED BY <1>3, <1>4, <1>5, <1>6, <1>7, <1>8, <1>9, <1>10, <1>11, <1>12, <1>13 DEF VerifyStep

-----------------------------------------------------------------------------
(* Writers between the pages *)

LEMMA ErasedStays == ASSUME FolderStep PROVE erased \subseteq erased'
<1>1. ASSUME NEW c \in Chains, NEW s \in Sources, Commit(c, s) PROVE erased \subseteq erased' BY <1>1 DEF Commit
<1>2. ASSUME NEW c \in Chains, Erase(c) PROVE erased \subseteq erased' BY <1>2 DEF Erase
<1>3. ASSUME NEW c \in Chains, Repair(c) PROVE erased \subseteq erased' BY <1>3 DEF Repair
<1>4. ASSUME NEW c \in Chains, CreateCheckpoint(c) PROVE erased \subseteq erased' BY <1>4 DEF CreateCheckpoint
<1>5. ASSUME NEW c \in Chains, Damage(c) PROVE erased \subseteq erased' BY <1>5 DEF Damage
<1>6. CASE WriteCheckpoint BY <1>6 DEF WriteCheckpoint
<1>7. CASE KillCheckpoint BY <1>7 DEF KillCheckpoint
<1> QED BY <1>1, <1>2, <1>3, <1>4, <1>5, <1>6, <1>7 DEF FolderStep

LEMMA RunFeels ==
    ASSUME FolderInv, NEW r, r = run, RunOf(r, folder, harm, erased), r.at # "done", NEW q, q = Feels(r),
           NEW fs, fs = folder', NEW hs, hs = harm', NEW es, es = erased', erased \subseteq es,
           \A c \in Chains : fs[c] \in ChainRows, AllMoved
    PROVE  RunOf(q, fs, hs, es)
<1>1. RunShape(r) /\ RunTypes(r) /\ \A c \in Chains : ChainSeen(r, c, folder[c], harm[c], erased \cap {c}) BY DEF RunOf
<1>2. \A c \in Chains : folder[c] \in ChainRows /\ Moved(folder[c], fs[c], hs[c], es \cap {c})
  BY DEF FolderInv, ChainInv, AllMoved
<1>3. \A c \in Chains : erased \cap {c} \subseteq es \cap {c} OBVIOUS
<1>4. CASE Busy(r)
  <2>1. PICK felt : felt = [c \in Chains |-> r.felt[c] \cup hs[c]] OBVIOUS
  <2>2. q = [r EXCEPT !.felt = felt]
    <3>1. q = [r EXCEPT !.felt = [c \in Chains |-> @[c] \cup hs[c]]] BY <1>4 DEF Feels
    <3> QED BY <1>1, <2>1, <3>1 DEF RunShape
  <2>3. felt = [c \in Chains |-> felt[c]] /\ \A c \in Chains : felt[c] = r.felt[c] \cup hs[c] BY <2>1
  <2>4. /\ RunShape(q) /\ q.felt = felt /\ q.began = r.began /\ q.at = r.at /\ q.cursor = r.cursor /\ q.rows = r.rows
        /\ q.problems = r.problems /\ q.removed = r.removed /\ q.erased = r.erased /\ q.reported = r.reported
        /\ q.todo = r.todo /\ q.noChain = r.noChain /\ q.source = r.source /\ q.srcChain = r.srcChain /\ q.srcIds = r.srcIds
    BY <1>1, <2>2, <2>3 DEF RunShape
  <2>5. q.srcHeld = r.srcHeld BY <1>1, <2>2 DEF RunShape
  <2>6. RunTypes(q) BY <1>1, <2>4, <2>5, Zenon DEF RunTypes
  <2>7. ASSUME NEW c \in Chains PROVE ChainSeen(q, c, fs[c], hs[c], es \cap {c})
    <3>1. q.felt[c] = r.felt[c] \cup hs[c] BY <2>3, <2>4
    <3>2. PICK f, g, k, d : f = folder[c] /\ g = fs[c] /\ k = hs[c] /\ d = es \cap {c} OBVIOUS
    <3>3. f \in ChainRows /\ g \in ChainRows /\ Moved(f, g, k, d) /\ erased \cap {c} \subseteq d BY <1>2, <1>3, <3>2
    <3>4. ChainSeen(r, c, f, harm[c], erased \cap {c}) BY <1>1, <3>2
    <3>5. q.felt[c] = r.felt[c] \cup k BY <3>1, <3>2
    <3>6. ChainSeen(q, c, g, k, d) BY <1>4, <2>4, <2>5, <3>3, <3>4, <3>5, SeenFeels
    <3> QED BY <3>2, <3>6
  <2> QED BY <2>4, <2>6, <2>7 DEF RunOf
<1>5. CASE ~Busy(r)
  <2>1. q = r BY <1>5 DEF Feels
  <2>2. r.at = "idle" BY <1>1, <1>5 DEF Busy, RunTypes, Stages
  <2>3. ASSUME NEW c \in Chains PROVE ChainSeen(r, c, fs[c], hs[c], es \cap {c})
    <3>1. ChainSeen(r, c, folder[c], harm[c], erased \cap {c}) BY <1>1
    <3>2. Judged(r, c, es \cap {c}) BY <3>1 DEF ChainSeen, Judged
    <3>3. ~Past(r, c) /\ r.at # "anchors" /\ r.at # "sources" BY <2>2 DEF Past
    <3> QED BY <1>5, <3>2, <3>3 DEF ChainSeen
  <2> QED BY <1>1, <2>1, <2>3 DEF RunOf
<1> QED BY <1>4, <1>5

-----------------------------------------------------------------------------
(* What Verify reports is true *)

VerifyInv == ReadInv /\ RunOf(run, folder, harm, erased)

LEMMA VerifyInit == ASSUME Init PROVE VerifyInv
<1>1. run = NoRun BY DEF Init
<1> QED BY <1>1, ReadInit, NoRunOf DEF VerifyInv

LEMMA VerifyNext == ASSUME VerifyInv, [Next]_vars PROVE VerifyInv'
<1>1. ReadInv /\ FolderInv /\ RunOf(run, folder, harm, erased) BY DEF VerifyInv, ReadInv
<1>2. ReadInv' BY <1>1, ReadStep
<1>3. PICK q, fs, hs, es : q = run' /\ fs = folder' /\ hs = harm' /\ es = erased' OBVIOUS
<1>4. SUFFICES RunOf(q, fs, hs, es) BY <1>2, <1>3, <1>4 DEF VerifyInv
<1>5. CASE FolderStep /\ run.at # "done" /\ run' = Feels(run)
  <2>1. AllMoved /\ erased \subseteq es BY <1>1, <1>3, <1>5, FolderKeeps, ErasedStays
  <2>2. \A c \in Chains : fs[c] \in ChainRows
    <3>1. \A c \in Chains : ChainInv(fs[c], hs[c], es \cap {c}) BY <1>2, <1>3 DEF ReadInv, FolderInv
    <3> QED BY <3>1 DEF ChainInv
  <2>3. PICK r : r = run OBVIOUS
  <2>4. RunOf(r, folder, harm, erased) /\ r.at # "done" /\ q = Feels(r) BY <1>1, <1>3, <1>5, <2>3
  <2> QED BY <1>1, <1>3, <2>1, <2>2, <2>3, <2>4, RunFeels
<1>6. CASE UNCHANGED <<folderVars, run>>
  <2>1. q = run /\ fs = folder /\ hs = harm /\ es = erased BY <1>3, <1>6 DEF folderVars
  <2> QED BY <1>1, <2>1
<1>7. CASE VerifyStep /\ UNCHANGED folderVars
  <2>1. fs = folder /\ hs = harm /\ es = erased BY <1>3, <1>7 DEF folderVars
  <2>2. RunOf(q, folder, harm, erased) BY <1>1, <1>3, <1>7, VerifyKeeps
  <2> QED BY <2>1, <2>2
<1> QED BY <1>5, <1>6, <1>7 DEF Next, vars, folderVars

\* At every page of a verification its reports agree with what has befallen each chain
\* since it began (Sink.VerifyEach).
THEOREM VerifyInvAlways == Spec => []VerifyInv
<1>1. Init => VerifyInv BY VerifyInit
<1>2. VerifyInv /\ [Next]_vars => VerifyInv' BY VerifyNext
<1> QED BY <1>1, <1>2, PTL DEF Spec

LEMMA FolderTypes ==
    ASSUME FolderInv
    PROVE  /\ \A c \in Chains : folder[c].index \in {"absent", "live", "pending", "malformed"}
           /\ \A c \in Chains : folder[c].secrets \cup folder[c].sigs \cup Ids(folder[c]) \subseteq 1..(folder[c].next - 1)
<1> SUFFICES ASSUME NEW c \in Chains, NEW f, f = folder[c]
             PROVE  /\ f.index \in {"absent", "live", "pending", "malformed"}
                    /\ f.secrets \cup f.sigs \cup Ids(f) \subseteq 1..(f.next - 1)
  OBVIOUS
<1>1. f \in ChainRows /\ Below(f) BY DEF FolderInv, ChainInv
<1>2. f.index \in {"absent", "live", "pending", "malformed"} BY <1>1 DEF ChainRows, IndexStates
<1>3. f.next \in Nat /\ f.secrets \subseteq Nat /\ f.sigs \subseteq Nat BY <1>1 DEF ChainRows
<1>4. ASSUME NEW x \in Ids(f) PROVE x \in Nat /\ 0 < x /\ x < f.next
  <2>1. PICK i \in DOMAIN f.log : x = f.log[i].id BY DEF Ids
  <2>2. x \in Nat \ {0} BY <1>1, <2>1, IdsOf
  <2>3. x < f.next BY <1>1, <2>1 DEF Below
  <2> QED BY <2>2, <2>3
<1>5. ASSUME NEW x \in f.secrets \cup f.sigs \cup Ids(f) PROVE x \in 1..(f.next - 1)
  <2>1. x \in Nat /\ 0 < x /\ x < f.next BY <1>1, <1>3, <1>4 DEF Below
  <2> QED BY <1>3, <2>1
<1> QED BY <1>2, <1>5

\* What Verify reports at its end is true of the folder, whatever writers did between
\* its pages and whoever changed the folder behind the sink's back: rows have their
\* types, a chain with a problem had something befall it, a chain called removed was
\* taken away, one called erased was erased by the sink (Sink.VerifyEach).
THEOREM VerdictsAlwaysTrue == Spec => []VerdictsTrue
<1>1. VerifyInv => VerdictsTrue
  <2> SUFFICES ASSUME VerifyInv PROVE VerdictsTrue OBVIOUS
  <2>1. FolderInv /\ RunOf(run, folder, harm, erased) BY DEF VerifyInv, ReadInv
  <2>2. RunTypes(run) /\ \A c \in Chains : Judged(run, c, erased \cap {c}) BY <2>1 DEF RunOf, ChainSeen
  <2>3. run.removed \cup run.erased \cup run.reported \subseteq Chains BY <2>2 DEF RunTypes
  <2>4. ops \in 0..MaxOps BY <2>1 DEF FolderInv
  <2>5. TypeOK BY <2>1, <2>3, <2>4, FolderTypes, Zenon DEF TypeOK
  <2>6. NoFalseAlarm BY <2>2 DEF NoFalseAlarm, Judged
  <2>7. RemovedWasRemoved BY <2>2, <2>3 DEF RemovedWasRemoved, Judged, Excused, Taken
  <2>8. ErasedByTheSink
    <3>1. ASSUME NEW c \in run.erased PROVE c \in erased
      <4>1. c \in Chains BY <2>3, <3>1
      <4>2. erased \cap {c} # {} BY <2>2, <3>1, <4>1 DEF Judged
      <4> QED BY <4>2
    <3> QED BY <3>1 DEF ErasedByTheSink
  <2> QED BY <2>5, <2>6, <2>7, <2>8 DEF VerdictsTrue
<1> QED BY <1>1, VerifyInvAlways, PTL

=============================================================================
