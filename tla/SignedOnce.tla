----------------------------- MODULE SignedOnce -----------------------------
(***************************************************************************)
(* What threshold signing promises its callers: a request id gets at most  *)
(* one signed msgHash, for as long as the votes on it are kept.  ChainLocks *)
(* and InstantSend rest on this: the id of a CLSIG is a height, the id of  *)
(* an input lock is an outpoint.                                           *)
(***************************************************************************)
CONSTANTS Id, Msg

VARIABLES
  signed,   \* signed[i]: the msgHashes for which a signature of i exists
  expired   \* ids on which some masternode's vote was cleaned up

Init ==
  /\ signed = [i \in Id |-> {}]
  /\ expired = {}

\* A signature of i on msg comes into being.
Decide(i, msg) ==
  /\ signed[i] \subseteq {msg} \/ i \in expired
  /\ signed' = [signed EXCEPT ![i] = @ \cup {msg}]
  /\ UNCHANGED expired

\* A vote on i is no longer kept.
Expire(i) ==
  /\ expired' = expired \cup {i}
  /\ UNCHANGED signed

Next == \E i \in Id : Expire(i) \/ \E msg \in Msg : Decide(i, msg)

Spec == Init /\ [][Next]_<<signed, expired>>
=============================================================================
