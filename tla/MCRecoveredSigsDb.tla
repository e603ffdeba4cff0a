------------------------- MODULE MCRecoveredSigsDb -------------------------
(***************************************************************************)
(* Small instances of RecoveredSigsDb.                                     *)
(***************************************************************************)
EXTENDS RecoveredSigsDb, TLC

CONSTANTS i1, s1

OneSig == s1 :> i1    \* the id has one signature

Symmetry == Permutations(Reader)
=============================================================================
