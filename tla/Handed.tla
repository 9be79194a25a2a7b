------------------------------- MODULE Handed -------------------------------
(***************************************************************************)
(* What a verifier may be handed: a chain with its anchors, a bundle's text, *)
(* a Merkle proof, or a directory bundle.  The verifiers are independent of  *)
(* each other; a behaviour is about one of the four.                         *)
(***************************************************************************)
EXTENDS Evidence, BundleText, MerkleLog, BundleDir

VARIABLE about

handedVars == <<vars, textVars, merkleVars, dirVars, about>>

HandedInit ==
    /\ about \in {"chain", "text", "proof", "directory"}
    /\ Init /\ TextInit /\ MerkleInit /\ DirInit
    /\ about # "chain" => version = FormatV3

HandedNext ==
    \/ about = "chain" /\ Next /\ UNCHANGED <<textVars, merkleVars, dirVars, about>>
    \/ about = "text" /\ TextNext /\ UNCHANGED <<vars, merkleVars, dirVars, about>>
    \/ about = "proof" /\ MerkleNext /\ UNCHANGED <<vars, textVars, dirVars, about>>
    \/ about = "directory" /\ DirNext /\ UNCHANGED <<vars, textVars, merkleVars, about>>

HandedSpec == HandedInit /\ [][HandedNext]_handedVars

=============================================================================
