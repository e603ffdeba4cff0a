--------------------------- MODULE MCInstantSend ---------------------------
(***************************************************************************)
(* Two transactions that spend the same coin, and a child of the first; a  *)
(* block that mines the first, and a longer branch that mines the other.   *)
(***************************************************************************)
EXTENDS InstantSend

CONSTANTS p, c, d, k, lp, lc, g, a1, b1, b2

MCSpends == [t \in Tx |-> IF t = c THEN {<<p, 0>>} ELSE {<<k, 0>>}]
MCTxidOf == [l \in ISLock |-> IF l = lp THEN p ELSE c]
MCChain == [b \in Block |-> CASE b = g -> {g} [] b = a1 -> {g, a1}
                              [] b = b1 -> {g, b1} [] b = b2 -> {g, b1, b2}]
MCHeight == [b \in Block |-> Cardinality(MCChain[b]) - 1]
MCBlockTxs == [b \in Block |-> CASE b = a1 -> <<p>> [] b = b1 -> <<d>> [] OTHER -> <<>>]
=============================================================================
