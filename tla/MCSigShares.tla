---------------------------- MODULE MCSigShares -----------------------------
(* Small instances of SigShares for TLC. *)
EXTENDS SigShares

CONSTANTS a, b, f, s1, s2

Pair == {{a, b}}
Line == {{a, b}, {b, f}}
NoLink == {}
=============================================================================
