---------------------------- MODULE MCJournalAck ----------------------------
(* JournalAck for TLC: two shards, alike but for their names. *)
EXTENDS JournalAck, TLC

CONSTANTS s1, s2

Symm == Permutations({s1, s2})
=============================================================================
