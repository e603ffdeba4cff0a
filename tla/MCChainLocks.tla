---------------------------- MODULE MCChainLocks ----------------------------
(***************************************************************************)
(* Small instances of ChainLocks: two branches from the genesis block.     *)
(***************************************************************************)
EXTENDS ChainLocks, TLC

CONSTANTS g, a1, a2, b1, b2

MCChain ==
  g :> {g} @@ a1 :> {g, a1} @@ a2 :> {g, a1, a2} @@ b1 :> {g, b1}
    @@ b2 :> {g, b1, b2}

MCHeight == g :> 0 @@ a1 :> 1 @@ a2 :> 2 @@ b1 :> 1 @@ b2 :> 2
=============================================================================
