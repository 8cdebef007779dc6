---------------------------- MODULE MCShardLease ----------------------------
(* ShardLease on two agents: the constants of its TLC runs. *)
EXTENDS ShardLease, TLC

CONSTANTS a1, a2

MCAgents == {a1, a2}

(* One shard: depth of the protocol rather than breadth of the queue.  A   *)
(* chunk has every outcome a walk shard has, and may be aborted.           *)
MCOne == {1}
MCKindChunk == [s \in MCOne |-> "chunk"]
MCTargetAnyOne == [s \in MCOne |-> NoAgent]

(***************************************************************************)
(* Two entry-list shards ahead of a walk shard, for one agent with a quota *)
(* of one: the second entry list must wait and the walk shard backfills.   *)
(***************************************************************************)
MCOneAgent == {a1}
MCThree == {1, 2, 3}
MCKindEntryList == (1 :> "entrylist") @@ (2 :> "entrylist") @@ (3 :> "dir")
MCTargetAnyThree == [s \in MCThree |-> NoAgent]

Symm == Permutations(MCAgents)
=============================================================================
