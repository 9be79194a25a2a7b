----------------------------- MODULE MerkleLog ------------------------------
(***************************************************************************)
(* Package merkle: an RFC 9162 tree kept as a frontier, its inclusion and    *)
(* consistency proofs, and their verifiers.  A hash is the tree it was       *)
(* computed over: leaves and nodes are told apart, as the prefixes do.       *)
(***************************************************************************)
EXTENDS Integers, Sequences, SequencesExt

CONSTANTS
    MaxLeaves,        \* bound: leaves of the log
    MaxProofEdits     \* bound: changes of a proof on its way

ASSUME MerkleAssumption == MaxLeaves \in Nat /\ MaxProofEdits \in Nat

VARIABLES
    leaves,      \* the log
    frontier,    \* levels and size; 0 where a level is empty
    claim,       \* a proof handed over, or NoClaim
    edits        \* changes made to it

merkleVars == <<leaves, frontier, claim, edits>>

-----------------------------------------------------------------------------
(* The tree *)

LeafHash(x)    == [leaf |-> x]
NodeHash(l, r) == [left |-> l, right |-> r]
EmptyRoot      == [leaf |-> 0]

RECURSIVE PowerBelow(_, _)
\* largestPowerOfTwoLessThan, from k = 1.
PowerBelow(n, k) == IF k <= (n - 1) \div 2 THEN PowerBelow(n, 2 * k) ELSE k

RECURSIVE RootFromLeaves(_)
RootFromLeaves(ls) ==
    CASE ls = <<>> -> EmptyRoot
      [] Len(ls) = 1 -> LeafHash(ls[1])
      [] OTHER -> LET k == PowerBelow(Len(ls), 1) IN
                  NodeHash(RootFromLeaves(SubSeq(ls, 1, k)), RootFromLeaves(SubSeq(ls, k + 1, Len(ls))))

RECURSIVE InclusionPath(_, _)
InclusionPath(m, ls) ==
    LET k == PowerBelow(Len(ls), 1)
        left == SubSeq(ls, 1, k)
        right == SubSeq(ls, k + 1, Len(ls)) IN
    CASE Len(ls) = 1 -> <<>>
      [] Len(ls) # 1 /\ m < k -> Append(InclusionPath(m, left), RootFromLeaves(right))
      [] OTHER -> Append(InclusionPath(m - k, right), RootFromLeaves(left))

NoRoot == [leaf |-> -1]
RECURSIVE RootFromInclusion(_, _, _, _)
\* The siblings from the last to the first; NoRoot where there are too many or too few.
RootFromInclusion(h, m, n, proof) ==
    LET k == PowerBelow(n, 1)
        inner == IF m < k THEN RootFromInclusion(h, m, k, Front(proof)) ELSE RootFromInclusion(h, m - k, n - k, Front(proof)) IN
    CASE n = 1 -> IF proof = <<>> THEN h ELSE NoRoot
      [] n # 1 /\ proof = <<>> -> NoRoot
      [] OTHER -> CASE inner = NoRoot -> NoRoot
                    [] inner # NoRoot /\ m < k -> NodeHash(inner, Last(proof))
                    [] OTHER -> NodeHash(Last(proof), inner)

VerifyInclusion(h, m, n, proof, root) == m >= 0 /\ m < n /\ RootFromInclusion(h, m, n, proof) = root

RECURSIVE SubProof(_, _, _)
SubProof(m, ls, whole) ==
    LET k == PowerBelow(Len(ls), 1)
        left == SubSeq(ls, 1, k)
        right == SubSeq(ls, k + 1, Len(ls)) IN
    CASE m = Len(ls) -> IF whole THEN <<>> ELSE <<RootFromLeaves(ls)>>
      [] m # Len(ls) /\ m <= k -> Append(SubProof(m, left, whole), RootFromLeaves(right))
      [] OTHER -> Append(SubProof(m - k, right, FALSE), RootFromLeaves(left))

ConsistencyProof(m, ls) == IF m \in {0, Len(ls)} THEN <<>> ELSE SubProof(m, ls, TRUE)

-----------------------------------------------------------------------------
(* VerifyConsistency: both roots rebuilt on the way up from leaf m - 1 *)

RECURSIVE ClimbRight(_)
ClimbRight(w) == IF w.node % 2 = 1 THEN ClimbRight([w EXCEPT !.node = @ \div 2, !.last = @ \div 2]) ELSE w
RECURSIVE ClimbLeft(_)
ClimbLeft(w) == IF w.node % 2 = 0 /\ w.node # 0 THEN ClimbLeft([w EXCEPT !.node = @ \div 2, !.last = @ \div 2]) ELSE w

Climb(w, p) ==
    IF ~w.ok \/ w.last = 0 THEN [w EXCEPT !.ok = FALSE]
    ELSE LET s == IF w.node % 2 = 1 \/ w.node = w.last
                  THEN ClimbLeft([w EXCEPT !.hash1 = NodeHash(p, @), !.hash2 = NodeHash(p, @)])
                  ELSE [w EXCEPT !.hash2 = NodeHash(@, p)] IN
         [s EXCEPT !.node = @ \div 2, !.last = @ \div 2]

\* Mutant of WholeHeight: the final size check is left out.
AnyHeight(w) == TRUE

\* The walk has used the whole height of the new tree.
WholeHeight(w) == w.last = 0

VerifyConsistency(m, n, rootA, rootB, proof) ==
    LET up == ClimbRight([node |-> m - 1, last |-> n - 1])
        seeded == up.node > 0
        start == [node |-> up.node, last |-> up.last, ok |-> TRUE,
                  hash1 |-> IF seeded THEN proof[1] ELSE rootA, hash2 |-> IF seeded THEN proof[1] ELSE rootA]
        end == FoldLeft(Climb, start, IF seeded THEN Tail(proof) ELSE proof) IN
    /\ 0 <= m /\ m <= n
    /\ CASE m = n -> proof = <<>> /\ rootA = rootB
         [] m # n /\ m = 0 -> proof = <<>> /\ rootA = EmptyRoot
         [] OTHER -> proof # <<>> /\ end.ok /\ WholeHeight(end) /\ end.hash1 = rootA /\ end.hash2 = rootB

-----------------------------------------------------------------------------
(* The frontier *)

NoNode == [leaf |-> -2]
NewFrontier == [levels |-> <<>>, size |-> 0]

\* The carry runs up the occupied levels to the first free one.
FrontierAppend(f, h) ==
    LET free == CHOOSE l \in 1..(Len(f.levels) + 1) :
                    /\ l <= Len(f.levels) => f.levels[l] = NoNode
                    /\ \A j \in 1..(l - 1) : f.levels[j] # NoNode
        carry == FoldLeft(LAMBDA c, l : NodeHash(f.levels[l], c), h, [l \in 1..(free - 1) |-> l]) IN
    [size |-> f.size + 1,
     levels |-> [l \in 1..(IF free > Len(f.levels) THEN free ELSE Len(f.levels)) |->
                   IF l < free THEN NoNode ELSE IF l = free THEN carry ELSE f.levels[l]]]

FrontierRoot(f) ==
    IF f.size = 0 THEN EmptyRoot
    ELSE FoldLeft(LAMBDA acc, h : CASE h = NoNode -> acc
                                    [] h # NoNode /\ acc = NoNode -> h
                                    [] OTHER -> NodeHash(h, acc), NoNode, f.levels)

\* Marshal: the size and the occupied levels.
Marshal(f) == [size |-> f.size, nodes |-> SelectSeq([l \in DOMAIN f.levels |-> <<l, f.levels[l]>>], LAMBDA p : p[2] # NoNode)]

Bit(n, l) == (n \div 2^(l - 1)) % 2 = 1

\* UnmarshalFrontier: a level where the size has that bit, each once, and all of them.
Restorable(s) ==
    /\ \A i \in DOMAIN s.nodes : Bit(s.size, s.nodes[i][1])
    /\ \A i, j \in DOMAIN s.nodes : s.nodes[i][1] = s.nodes[j][1] => i = j
    /\ \A l \in 1..(MaxLeaves + 1) : Bit(s.size, l) => \E i \in DOMAIN s.nodes : s.nodes[i][1] = l
Unmarshal(s) ==
    LET top == FoldLeft(LAMBDA n, p : IF p[1] > n THEN p[1] ELSE n, 0, s.nodes) IN
    [size |-> s.size,
     levels |-> [l \in 1..top |-> IF \E i \in DOMAIN s.nodes : s.nodes[i][1] = l
                                  THEN s.nodes[CHOOSE i \in DOMAIN s.nodes : s.nodes[i][1] = l][2] ELSE NoNode]]

-----------------------------------------------------------------------------
(* The log, and proofs on their way *)

NoClaim == [kind |-> "none"]
MerkleInit == leaves = <<>> /\ frontier = NewFrontier /\ claim = NoClaim /\ edits = 0

\* The third leaf may be the first one again.
AppendLeaf ==
    /\ claim = NoClaim /\ Len(leaves) < MaxLeaves
    /\ \E x \in {Len(leaves) + 1} \cup {i \in {1} : Len(leaves) = 2} :
         leaves' = Append(leaves, x) /\ frontier' = FrontierAppend(frontier, LeafHash(x))
    /\ UNCHANGED <<claim, edits>>

\* Saved and loaded again, the saved form perhaps damaged: a node lost, a node at
\* another level, another size.
Saved == LET s == Marshal(frontier) IN
    {s} \cup {[s EXCEPT !.nodes = RemoveAt(@, i)] : i \in DOMAIN s.nodes} \cup {[s EXCEPT !.size = @ + x] : x \in {-1, 1}}
    \cup {[s EXCEPT !.nodes[i][1] = @ + 1] : i \in DOMAIN s.nodes}
Reload ==
    /\ claim = NoClaim /\ frontier.size > 0
    /\ \E s \in Saved : Restorable(s) /\ frontier' = Unmarshal(s)
    /\ UNCHANGED <<leaves, claim, edits>>

HandInclusion(m) ==
    /\ claim = NoClaim /\ m < Len(leaves)
    /\ claim' = [kind |-> "inclusion", m |-> m, n |-> Len(leaves), old |-> LeafHash(leaves[m + 1]), proof |-> InclusionPath(m, leaves)]
    /\ UNCHANGED <<leaves, frontier, edits>>

HandConsistency(m) ==
    /\ claim = NoClaim /\ leaves # <<>> /\ m <= Len(leaves)
    /\ claim' = [kind |-> "consistency", m |-> m, n |-> Len(leaves), old |-> RootFromLeaves(SubSeq(leaves, 1, m)),
                 proof |-> ConsistencyProof(m, leaves)]
    /\ UNCHANGED <<leaves, frontier, edits>>

Hashes == {RootFromLeaves(SubSeq(leaves, i, j)) : i, j \in 1..Len(leaves)} \cup {LeafHash(99)}
EditClaim ==
    /\ claim # NoClaim /\ edits < MaxProofEdits /\ edits' = edits + 1
    /\ LET p == claim.proof IN
       \/ \E i \in DOMAIN p, h \in Hashes : claim' = [claim EXCEPT !.proof[i] = h]
       \/ \E i \in DOMAIN p : claim' = [claim EXCEPT !.proof = RemoveAt(p, i)]
       \/ \E h \in Hashes : claim' = [claim EXCEPT !.proof = Append(p, h)]
       \/ \E m \in 0..claim.n : claim' = [claim EXCEPT !.m = m]
       \/ \E h \in Hashes : claim' = [claim EXCEPT !.old = h]
    /\ UNCHANGED <<leaves, frontier>>

MerkleNext ==
    \/ AppendLeaf \/ Reload \/ EditClaim
    \/ \E m \in 0..MaxLeaves : HandInclusion(m) \/ HandConsistency(m)

-----------------------------------------------------------------------------
(* Properties *)

\* The root of a frontier that was appended to, saved and loaded is the root of the
\* leaves, and what is loaded is never a frontier of another size.
FrontierIsTree == frontier.size = Len(leaves) /\ FrontierRoot(frontier) = RootFromLeaves(leaves)

\* A verifier that has the log's root and size accepts an inclusion proof for a leaf
\* and an index only if that leaf is there, and a consistency proof for an older root
\* and size only if that was the root of that prefix; and it accepts the log's own.
ProofsSound ==
    LET root == RootFromLeaves(leaves)
        c == claim IN
    /\ c.kind = "inclusion" =>
          LET ok == VerifyInclusion(c.old, c.m, c.n, c.proof, root) IN
          /\ (ok /\ "leaf" \in DOMAIN c.old) => c.old = LeafHash(leaves[c.m + 1])
          /\ edits = 0 => ok
    /\ c.kind = "consistency" =>
          LET ok == VerifyConsistency(c.m, c.n, c.old, root, c.proof) IN
          /\ ok => c.old = RootFromLeaves(SubSeq(leaves, 1, c.m))
          /\ edits = 0 => ok

\* The frontier is the tree over the leaves, and proofs say only what it holds.
TreesSound == FrontierIsTree /\ ProofsSound

=============================================================================
