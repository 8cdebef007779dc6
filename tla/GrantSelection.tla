--------------------------- MODULE GrantSelection ---------------------------
(***************************************************************************)
(* The pure part of a grant: which queued shards an agent gets.            *)
(*                                                                         *)
(* Store.LeaseShards runs up to three index-ordered SELECTs over the       *)
(* QUEUED rows (fresh work, work this agent held last, backfill) and trims *)
(* entry-list shards to a per-agent quota between them; Scheduler.Grant    *)
(* first caps the agent's credits with fairShare.  Shards are identified   *)
(* by their row id, a natural number.                                      *)
(***************************************************************************)
EXTENDS Integers, FiniteSets

(* ShardKind.Priority: higher is granted first. *)
Priority(kind) ==
    CASE kind = "chunk"  -> 10
      [] kind = "delete" -> 15
      [] kind = "probe"  -> 20
      [] OTHER           -> 0

(* ORDER BY priority DESC, id over a function from shard ids to kinds. *)
Before(kindOf, s, t) ==
    \/ Priority(kindOf[s]) > Priority(kindOf[t])
    \/ Priority(kindOf[s]) = Priority(kindOf[t]) /\ s < t

(* SELECT ... ORDER BY priority DESC, id LIMIT n *)
TopN(kindOf, S, n) ==
    {s \in S : Cardinality({t \in S : Before(kindOf, t, s)}) < n}

(***************************************************************************)
(* The shards one LeaseShards call leases: queue is what the agent may     *)
(* lease, own \subseteq queue what it held last, elBudget the entry-list   *)
(* leases it may still take, n the size of the grant.                      *)
(***************************************************************************)
EntryLists(kindOf, S) == {s \in S : kindOf[s] = "entrylist"}

LeaseSet(kindOf, queue, own, elBudget, n) ==
    LET pool    == IF elBudget = 0 THEN queue \ EntryLists(kindOf, queue) ELSE queue
        tier1   == TopN(kindOf, pool \ own, n)
        tier2   == TopN(kindOf, pool \cap own, n - Cardinality(tier1))
        out     == tier1 \cup tier2
        el      == EntryLists(kindOf, out)
        ahead(t, s) == \/ t \in tier1 /\ s \in tier2
                       \/ (t \in tier1 <=> s \in tier1) /\ Before(kindOf, t, s)
        kept    == {s \in out : s \in el => Cardinality({t \in el : ahead(t, s)}) < elBudget}
        room    == n - Cardinality(kept)
        backfill == IF kept # out /\ room > 0
                    THEN TopN(kindOf, queue \ EntryLists(kindOf, queue), room)
                    ELSE {}
    IN  kept \cup backfill

(* fairShare: the cap on one grant while the queue is shallow. *)
CeilDiv(a, b) == (a + b - 1) \div b

fairShare(credits, queued, agents) ==
    IF agents < 2 \/ credits <= 0 \/ queued >= agents * credits
    THEN credits
    ELSE LET share == IF CeilDiv(queued, agents) < 1 THEN 1 ELSE CeilDiv(queued, agents)
         IN  IF share < credits THEN share ELSE credits
=============================================================================
