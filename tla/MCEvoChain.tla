----------------------------- MODULE MCEvoChain -----------------------------
(***************************************************************************)
(* Instances of EvoChain.  One quorum, of block g, and its session: blocks *)
(* 1 and 2 are in the mining window.                                       *)
(*                                                                         *)
(*   g -- a1(c1) -- a2                                                     *)
(*    |         \-- x2(c2)   a second commitment, not allowed              *)
(*    \-- b1(null) -- b2(c2)                                               *)
(*                \-- e2(c1) fails after its special transactions          *)
(***************************************************************************)
EXTENDS EvoChain, TLC

CONSTANTS r1, g, a1, a2, x2, b1, b2, e2, c1, c2

Ancestors == g :> {g} @@ a1 :> {g, a1} @@ a2 :> {g, a1, a2}
             @@ x2 :> {g, a1, x2} @@ b1 :> {g, b1} @@ b2 :> {g, b1, b2}
             @@ e2 :> {g, b1, e2}

Contents == g :> None @@ a1 :> c1 @@ a2 :> None @@ x2 :> c2
            @@ b1 :> NullQc @@ b2 :> c2 @@ e2 :> c1

MCChain == [b \in Block |-> Ancestors[b]]

MCHeight == [b \in Block |-> Cardinality(Ancestors[b]) - 1]

MCCommitment == [b \in Block |-> Contents[b]]

MCQuorumOf == c1 :> g @@ c2 :> g

MCCountSigners == c1 :> 3 @@ c2 :> 4
=============================================================================
