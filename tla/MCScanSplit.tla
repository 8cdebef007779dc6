---------------------------- MODULE MCScanSplit -----------------------------
(* ScanSplit for TLC: two agents, and a directory of two subdirectories    *)
(* with a hard-linked file between them.                                   *)
EXTENDS ScanSplit, TLC

CONSTANTS a1, a2, d1, d2, f1

MCEntries == <<d1, f1, d2>>

Symm == Permutations({a1, a2})

(* The search stops where two runs have numbered differently: Renumbered   *)
(* is never false again, and the invariants say nothing of such a state.   *)
NumberedAlike == ~Renumbered
=============================================================================
