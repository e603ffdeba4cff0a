----------------------------- MODULE MCSigning -----------------------------
(* Small instances of Signing for TLC.                                     *)
EXTENDS Signing, TLC

CONSTANTS n1, n2, n3, q1, q2, i1

\* One quorum of three.
OneMembers == (q1 :> {n1, n2, n3})
OneMinedAt == (q1 :> 0)
OneScore == (q1 :> (i1 :> 1))

\* Two quorums, the second mined one block later: members whose tips differ by
\* that block select different quorums.
TwoMinedAt == (q1 :> 0) @@ (q2 :> 1)
TwoScore == (q1 :> (i1 :> 1)) @@ (q2 :> (i1 :> 2))
SameMembers == (q1 :> {n1, n2, n3}) @@ (q2 :> {n1, n2, n3})

Symmetry == Permutations(Node) \cup Permutations(Msg)
MsgSymmetry == Permutations(Node \ (Aging \cup ReSigning \cup Crashing)) \cup Permutations(Msg)
=============================================================================
