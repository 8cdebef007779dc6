-------------------------- MODULE ShardLeaseProofs --------------------------
(***************************************************************************)
(* Proofs about ShardLease, for any agents, shards, kinds and limits.      *)
(***************************************************************************)
EXTENDS ShardLease, TLAPS

(* LeaseShards only ever leases rows its SELECTs returned. *)
LEMMA GrantFromQueue ==
    ASSUME NEW kindOf, NEW queue, NEW own, NEW budget, NEW n
    PROVE  LeaseSet(kindOf, queue, own, budget, n) \subseteq queue
  <1> DEFINE pool == IF budget = 0 THEN queue \ EntryLists(kindOf, queue) ELSE queue
  <1>1. \A S, m : TopN(kindOf, S, m) \subseteq S
    BY DEF TopN
  <1>2. pool \subseteq queue
    OBVIOUS
  <1>3. QED
    BY <1>1, <1>2 DEF LeaseSet, EntryLists

(* The type invariant is inductive: every handler keeps its columns typed. *)
LEMMA TypeInit == Init => TypeOK
  BY LeaseAssumption DEF Init, TypeOK

LEMMA TypeStep == TypeOK /\ [Next]_vars => TypeOK'
  <1> SUFFICES ASSUME TypeOK, [Next]_vars PROVE TypeOK'
    OBVIOUS
  <1>1. ASSUME NEW a \in Agents, Grant(a) PROVE TypeOK'
    <2>1. PICK n \in 1..MaxCredits :
            LET S == LeaseSet(KindOf, Eligible(a), Eligible(a) \cap LastHeld(a), elBudget(a), n)
            IN  /\ S # {}
                /\ \A s \in S : issued[s] < MaxGrants
                /\ LeaseRows(a, S)
                /\ grants' = [grants EXCEPT ![a] =
                       @ \cup {{[shard |-> s, lease |-> newLeaseID(s)] : s \in S}}]
                /\ UNCHANGED <<folded, aborted, jobState, enabled, agent, outbox, beat>>
      BY Zenon, <1>1 DEF Grant
    <2> DEFINE S == LeaseSet(KindOf, Eligible(a), Eligible(a) \cap LastHeld(a), elBudget(a), n)
    <2>2. S \subseteq Shards
      BY GrantFromQueue DEF Eligible
    <2> HIDE DEF S
    <2>3. LeaseRows(a, S)
      BY <2>1 DEF S
    <2>4. {[shard |-> s, lease |-> newLeaseID(s)] : s \in S} \in SUBSET Item
      BY <2>2 DEF TypeOK, Item, newLeaseID
    <2>5. grants' \in [Agents -> SUBSET SUBSET Item]
      BY Zenon, <2>1, <2>4 DEF S, TypeOK
    <2>6. overdue' \in [Shards -> BOOLEAN]
      BY <2>3, Zenon DEF TypeOK, LeaseRows
    <2>7. /\ attempt' \in [Shards -> Nat]
          /\ issued' \in [Shards -> Nat]
          /\ leaseId' \in [Shards -> Nat]
      BY <2>3 DEF TypeOK, LeaseRows, newLeaseID
    <2>8. /\ state' \in [Shards -> {"QUEUED", "LEASED", "DONE", "PARKED", "GONE"}]
          /\ leaseAgent' \in [Shards -> Agents \cup {NoAgent}]
      BY <2>3 DEF TypeOK, LeaseRows
    <2>9. QED
      BY Zenon, <2>1, <2>5, <2>6, <2>7, <2>8 DEF TypeOK, agent
  <1>2. ASSUME NEW a \in Agents, NEW g \in grants[a], RecvGrant(a, g) PROVE TypeOK'
    BY <1>2 DEF TypeOK, RecvGrant, Report, rows, Item, Result, Status
  <1>3. ASSUME NEW a \in Agents, NEW i \in wq[a], StartItem(a, i) PROVE TypeOK'
    BY <1>3 DEF TypeOK, StartItem, rows, wire
  <1>4. ASSUME NEW a \in Agents, NEW i \in running[a], NEW st \in Status,
               FinishItem(a, i, st) PROVE TypeOK'
    BY <1>4 DEF TypeOK, FinishItem, Report, rows, Item, Result
  <1>5. ASSUME NEW a \in Agents, NEW want \in BOOLEAN, set_drain(a, want) PROVE TypeOK'
    BY <1>5 DEF TypeOK, set_drain, Report, rows, Item, Result, Status
  <1>6. ASSUME NEW a \in Agents, DropJob(a) PROVE TypeOK'
    BY <1>6 DEF TypeOK, DropJob, rows, wire
  <1>7. ASSUME NEW a \in Agents, SendHeartbeat(a) PROVE TypeOK'
    BY <1>7 DEF TypeOK, SendHeartbeat, Held, rows, agent
  <1>8. ASSUME NEW a \in Agents, AgentCrash(a) PROVE TypeOK'
    BY <1>8 DEF TypeOK, AgentCrash, LoseFrames, rows
  <1>9. ASSUME NEW a \in Agents, LoseSession(a) PROVE TypeOK'
    BY <1>9 DEF TypeOK, LoseSession, LoseFrames, rows, agent
  <1>10. ASSUME NEW a \in Agents, NEW r \in outbox[a], onShardResult(a, r) PROVE TypeOK'
    <2>1. r \in Result
      BY <1>10 DEF TypeOK
    <2>2. ResultState(r) \in {"QUEUED", "DONE", "PARKED"}
      BY <2>1 DEF Result, Status, ResultState, Aborts
    <2>3. outbox' \in [Agents -> SUBSET Result] /\ grants' \in [Agents -> SUBSET SUBSET Item]
              /\ beat' \in [Agents -> SUBSET Item]
      BY <1>10 DEF TypeOK, onShardResult, LoseFrames
    <2>4. CASE Accept(r)
      <3>1. aborted' \subseteq Shards
        BY <2>1, <2>4 DEF TypeOK, Accept, Result
      <3>2. QED
        BY <1>10, <2>1, <2>2, <2>3, <2>4, <3>1
           DEF TypeOK, onShardResult, Accept, Transition, Result, agent
    <2>5. CASE UNCHANGED rows
      BY <1>10, <2>3, <2>5 DEF TypeOK, onShardResult, rows, agent
    <2>6. QED
      BY <1>10, <2>4, <2>5 DEF onShardResult, DropStale
  <1>11. ASSUME NEW a \in Agents, onHeartbeat(a) PROVE TypeOK'
    BY Zenon, <1>11 DEF TypeOK, onHeartbeat, agent
  <1>12. ASSUME NEW a \in Agents, NEW v \in BOOLEAN, SetAgentEnabled(a, v) PROVE TypeOK'
    BY <1>12 DEF TypeOK, SetAgentEnabled, rows, wire, agent
  <1>13. CASE ExpireLeases
    BY <1>13 DEF TypeOK, ExpireLeases, wire, agent
  <1>14. ASSUME NEW kinds, ReapDoneShards(kinds) PROVE TypeOK'
    BY <1>14 DEF TypeOK, ReapDoneShards, wire, agent
  <1>15. ASSUME NEW s \in Shards, TTLPasses(s) PROVE TypeOK'
    BY <1>15 DEF TypeOK, TTLPasses, wire, agent
  <1>16. ASSUME NEW S \in ParkedTargets, RetryParked(S) PROVE TypeOK'
    <2>1. overdue' \in [Shards -> BOOLEAN]
      BY <1>16, Zenon DEF TypeOK, RetryParked
    <2>2. /\ attempt' \in [Shards -> Nat]
          /\ leaseId' \in [Shards -> Nat]
      BY <1>16 DEF TypeOK, RetryParked
    <2>3. /\ state' \in [Shards -> {"QUEUED", "LEASED", "DONE", "PARKED", "GONE"}]
          /\ leaseAgent' \in [Shards -> Agents \cup {NoAgent}]
      BY <1>16 DEF TypeOK, RetryParked
    <2>4. QED
      BY Zenon, <1>16, <2>1, <2>2, <2>3 DEF TypeOK, RetryParked, wire, agent
  <1>20. ASSUME NEW S \in ParkedTargets, DropParked(S) PROVE TypeOK'
    BY <1>20 DEF TypeOK, DropParked, wire, agent
  <1>17. ASSUME NEW to \in {"RUNNING", "PAUSED", "CANCELLED"}, SetJobState(to) PROVE TypeOK'
    BY <1>17 DEF TypeOK, SetJobState, rows, wire, agent
  <1>18. CASE UNCHANGED vars
    BY <1>18 DEF TypeOK, vars, rows, wire, agent
  <1>19. QED
    BY <1>1, <1>2, <1>3, <1>4, <1>5, <1>6, <1>7, <1>8, <1>9, <1>10, <1>11, <1>12,
       <1>13, <1>14, <1>15, <1>16, <1>17, <1>18, <1>20
       DEF Next, AgentStep, CoordinatorStep, StoreStep

(* Every column, queue and frame keeps its type in every behaviour. *)
THEOREM TypeCorrect == Spec => []TypeOK
  BY TypeInit, TypeStep, PTL DEF Spec
-----------------------------------------------------------------------------
(* Ownership of leases. *)

(* Lease ids are issued in order: no queue or frame holds one of the future. *)
TraceIssued ==
    \A a \in Agents : \A i \in Traces(a) : i.lease <= issued[i.shard]

OwnerInv == TypeOK /\ TraceIssued /\ LiveLeaseOwner

(* Membership in Traces, before and after a step. *)
LEMMA TracesMember ==
    ASSUME NEW a
    PROVE  /\ \A i : i \in Traces(a) <=>
                \/ \E g \in grants[a] : i \in g
                \/ i \in wq[a] \/ i \in running[a] \/ i \in beat[a]
                \/ \E r \in outbox[a] : i = [shard |-> r.shard, lease |-> r.lease]
           /\ \A i : i \in Traces(a)' <=>
                \/ \E g \in grants'[a] : i \in g
                \/ i \in wq'[a] \/ i \in running'[a] \/ i \in beat'[a]
                \/ \E r \in outbox'[a] : i = [shard |-> r.shard, lease |-> r.lease]
  <1>1. \A i : i \in Traces(a) <=>
          \/ \E g \in grants[a] : i \in g
          \/ i \in wq[a] \/ i \in running[a] \/ i \in beat[a]
          \/ \E r \in outbox[a] : i = [shard |-> r.shard, lease |-> r.lease]
    BY DEF Traces, Work, Held
  <1>2. \A i : i \in Traces(a)' <=>
          \/ \E g \in grants'[a] : i \in g
          \/ i \in wq'[a] \/ i \in running'[a] \/ i \in beat'[a]
          \/ \E r \in outbox'[a] : i = [shard |-> r.shard, lease |-> r.lease]
    BY DEF Traces, Work, Held
  <1>3. QED
    BY <1>1, <1>2

LEMMA TracesTyped ==
    ASSUME TypeOK, NEW a \in Agents
    PROVE  Traces(a) \subseteq Item
  <1>1. \A g \in grants[a] : g \subseteq Item
    BY DEF TypeOK
  <1>2. wq[a] \subseteq Item /\ running[a] \subseteq Item /\ beat[a] \subseteq Item
    BY DEF TypeOK
  <1>3. \A r \in outbox[a] : [shard |-> r.shard, lease |-> r.lease] \in Item
    BY DEF TypeOK, Item, Result
  <1>4. QED
    BY <1>1, <1>2, <1>3, TracesMember

(***************************************************************************)
(* Steps that issue no lease: traces only move within their agent, and a   *)
(* row that is still leased keeps its lease id and its agent.              *)
(***************************************************************************)
LEMMA OwnerKept ==
    ASSUME OwnerInv, TypeOK',
           \A a \in Agents : Traces(a)' \subseteq Traces(a),
           issued' = issued,
           \A s \in Shards : Leased(s)' => /\ Leased(s)
                                           /\ leaseId'[s] = leaseId[s]
                                           /\ leaseAgent'[s] = leaseAgent[s]
    PROVE  OwnerInv'
  <1>1. TraceIssued'
    BY DEF OwnerInv, TraceIssued
  <1>2. LiveLeaseOwner'
    <2> SUFFICES ASSUME NEW a \in Agents, NEW i \in Traces(a)', Match(i.shard, i.lease)'
                 PROVE  leaseAgent'[i.shard] = a
      BY DEF LiveLeaseOwner
    <2>1. i \in Traces(a) /\ i.shard \in Shards
      BY TracesTyped DEF OwnerInv, Item
    <2>2. Match(i.shard, i.lease) /\ leaseAgent'[i.shard] = leaseAgent[i.shard]
      BY <2>1 DEF Match
    <2>3. QED
      BY <2>1, <2>2 DEF OwnerInv, LiveLeaseOwner
  <1>3. QED
    BY <1>1, <1>2 DEF OwnerInv

(***************************************************************************)
(* A grant issues the ids issued[s] + 1, which no trace can carry yet, and *)
(* hands them to the agent it writes into the rows.                        *)
(***************************************************************************)
LEMMA OwnerGrant ==
    ASSUME OwnerInv, TypeOK', NEW a \in Agents, Grant(a)
    PROVE  OwnerInv'
  <1>1. PICK n \in 1..MaxCredits :
          LET S == LeaseSet(KindOf, Eligible(a), Eligible(a) \cap LastHeld(a), elBudget(a), n)
          IN  /\ LeaseRows(a, S)
              /\ grants' = [grants EXCEPT ![a] =
                     @ \cup {{[shard |-> s, lease |-> newLeaseID(s)] : s \in S}}]
              /\ UNCHANGED <<agent, outbox, beat>>
    BY Zenon DEF Grant
  <1> DEFINE S   == LeaseSet(KindOf, Eligible(a), Eligible(a) \cap LastHeld(a), elBudget(a), n)
             New == {[shard |-> s, lease |-> newLeaseID(s)] : s \in S}
  <1>2. S \subseteq Shards
    BY GrantFromQueue DEF Eligible
  <1>3. LeaseRows(a, S) /\ grants' = [grants EXCEPT ![a] = @ \cup {New}]
          /\ UNCHANGED <<agent, outbox, beat>>
    BY <1>1
  <1> HIDE DEF S
  <1>4. /\ Traces(a)' = Traces(a) \cup New
        /\ \A b \in Agents \ {a} : Traces(b)' = Traces(b)
    <2>1. UNCHANGED <<wq, running, beat, outbox>>
      BY <1>3 DEF agent
    <2>2. grants'[a] = grants[a] \cup {New}
      BY <1>3 DEF OwnerInv, TypeOK
    <2>3. \A b \in Agents \ {a} : grants'[b] = grants[b]
      BY <1>3 DEF OwnerInv, TypeOK
    <2> HIDE DEF New
    <2>4. \A i : i \in Traces(a)' <=> i \in Traces(a) \/ i \in New
      BY ZenonT(40), <2>1, <2>2, TracesMember
    <2>5. \A b \in Agents \ {a} : \A i : i \in Traces(b)' <=> i \in Traces(b)
      BY <2>1, <2>3, TracesMember
    <2>6. QED
      BY <2>4, <2>5
  <1>5. \A b \in Agents : \A i \in Traces(b) :
          /\ i.shard \in Shards /\ i.lease \in Nat
          /\ i.lease <= issued[i.shard]
    BY TracesTyped DEF OwnerInv, TraceIssued, Item
  <1>6. \A i \in New : /\ i.shard \in S
                       /\ i.lease = issued[i.shard] + 1
    BY DEF newLeaseID
  <1>7. TraceIssued'
    BY SMTT(30), <1>2, <1>3, <1>4, <1>5, <1>6 DEF TraceIssued, LeaseRows, OwnerInv, TypeOK
  <1>8. LiveLeaseOwner'
    <2> SUFFICES ASSUME NEW b \in Agents, NEW i \in Traces(b)', Match(i.shard, i.lease)'
                 PROVE  leaseAgent'[i.shard] = b
      BY DEF LiveLeaseOwner
    <2>1. CASE i \in Traces(b)
      <3>1. i.shard \notin S
        BY SMTT(30), <1>2, <1>3, <1>5, <2>1 DEF LeaseRows, newLeaseID, Match, OwnerInv, TypeOK
      <3>2. Match(i.shard, i.lease) /\ leaseAgent'[i.shard] = leaseAgent[i.shard]
        BY <1>3, <1>5, <2>1, <3>1 DEF LeaseRows, Match, Leased
      <3>3. QED
        BY SMTT(30), <2>1, <3>2 DEF OwnerInv, LiveLeaseOwner
    <2>2. CASE i \in New /\ b = a
      BY <1>2, <1>3, <1>6, <2>2 DEF LeaseRows
    <2>3. QED
      BY <1>4, <2>1, <2>2
  <1>9. QED
    BY <1>7, <1>8 DEF OwnerInv

LEMMA OwnerInit == Init => OwnerInv
  <1> SUFFICES ASSUME Init PROVE OwnerInv
    OBVIOUS
  <1>1. \A a \in Agents : Traces(a) = {}
    BY SMTT(30) DEF Init, Traces, Work, Held
  <1>2. QED
    BY <1>1, TypeInit DEF OwnerInv, TraceIssued, LiveLeaseOwner

LEMMA OwnerStep == OwnerInv /\ [Next]_vars => OwnerInv'
  <1> SUFFICES ASSUME OwnerInv, [Next]_vars PROVE OwnerInv'
    OBVIOUS
  <1> USE DEF Leased
  <1>0. TypeOK /\ TypeOK'
    BY TypeStep DEF OwnerInv
  <1>1. ASSUME NEW a \in Agents, Grant(a) PROVE OwnerInv'
    BY <1>0, <1>1, OwnerGrant
  <1>2. ASSUME NEW a \in Agents, AgentStep(a) PROVE OwnerInv'
    <2>1. UNCHANGED rows
      BY ZenonT(40), <1>2 DEF AgentStep, RecvGrant, StartItem, FinishItem, set_drain, DropJob,
                  SendHeartbeat, AgentCrash
    <2>2. ASSUME NEW b \in Agents PROVE Traces(b)' \subseteq Traces(b)
      <3>1. ASSUME NEW g \in grants[a], RecvGrant(a, g) PROVE Traces(b)' \subseteq Traces(b)
        <4>1. \A i \in g : i = [shard |-> i.shard, lease |-> i.lease]
          BY <1>0 DEF TypeOK, Item
        <4>2. UNCHANGED <<running, beat>> /\ grants'[b] \subseteq grants[b]
          BY <1>0, <3>1 DEF RecvGrant, TypeOK
        <4>3. \A i \in wq'[b] : i \in wq[b] \/ (b = a /\ i \in g)
          BY SMTT(30), <1>0, <3>1 DEF RecvGrant, TypeOK
        <4>4. \A r \in outbox'[b] :
                r \in outbox[b] \/ (b = a /\ [shard |-> r.shard, lease |-> r.lease] \in g)
          <5>1. CASE UNCHANGED outbox
            BY <5>1
          <5>2. CASE Report(a, g, "RELEASED")
            BY <1>0, <4>1, <5>2 DEF Report, TypeOK
          <5>3. QED
            BY Zenon, <3>1, <5>1, <5>2 DEF RecvGrant
        <4>5. QED
          BY <4>2, <4>3, <4>4, TracesMember
      <3>2. ASSUME NEW i \in wq[a], StartItem(a, i) PROVE Traces(b)' \subseteq Traces(b)
        BY SMTT(30), <1>0, <3>2, TracesMember DEF StartItem, wire, TypeOK
      <3>3. ASSUME NEW i \in running[a], NEW st, FinishItem(a, i, st)
            PROVE  Traces(b)' \subseteq Traces(b)
        <4>1. i \in Item
          BY <1>0 DEF TypeOK
        <4>2. i = [shard |-> i.shard, lease |-> i.lease]
          BY <4>1 DEF Item
        <4>3. QED
          BY SMTT(30), <1>0, <3>3, <4>2, TracesMember DEF FinishItem, Report, TypeOK
      <3>4. ASSUME NEW want \in BOOLEAN, set_drain(a, want)
            PROVE  Traces(b)' \subseteq Traces(b)
        <4>1. \A i \in wq[a] : i = [shard |-> i.shard, lease |-> i.lease]
          BY <1>0 DEF TypeOK, Item
        <4>2. QED
          <5>1. /\ UNCHANGED <<running, beat, grants>>
                /\ wq'[b] \subseteq wq[b]
                /\ \A r \in outbox'[b] :
                      \/ r \in outbox[b]
                      \/ b = a /\ [shard |-> r.shard, lease |-> r.lease] \in wq[a]
            BY <1>0, <3>4, <4>1 DEF set_drain, Report, TypeOK
          <5>2. QED
            BY <4>1, <5>1, TracesMember
      <3>5. ASSUME DropJob(a) PROVE Traces(b)' \subseteq Traces(b)
        BY <1>0, <3>5, TracesMember DEF DropJob, wire, TypeOK
      <3>6. ASSUME SendHeartbeat(a) PROVE Traces(b)' \subseteq Traces(b)
        BY ZenonT(40), <1>0, <3>6, TracesMember DEF SendHeartbeat, Held, agent, TypeOK
      <3>7. ASSUME AgentCrash(a) PROVE Traces(b)' \subseteq Traces(b)
        <4>1. /\ grants'[b] \subseteq grants[b]
              /\ wq'[b] \subseteq wq[b]
              /\ running'[b] \subseteq running[b]
              /\ beat'[b] \subseteq beat[b]
              /\ outbox'[b] \subseteq outbox[b]
          BY <1>0, <3>7 DEF AgentCrash, LoseFrames, TypeOK
        <4>2. QED
          BY <4>1, TracesMember
      <3>8. QED
        BY <1>2, <3>1, <3>2, <3>3, <3>4, <3>5, <3>6, <3>7 DEF AgentStep
    <2>3. QED
      BY <1>0, <2>1, <2>2, OwnerKept DEF rows
  <1>3. ASSUME NEW a \in Agents, NEW r \in outbox[a], onShardResult(a, r) PROVE OwnerInv'
    <2>1. ASSUME NEW b \in Agents PROVE Traces(b)' \subseteq Traces(b)
      <3>1. /\ UNCHANGED <<wq, running>>
            /\ grants'[b] \subseteq grants[b]
            /\ beat'[b] \subseteq beat[b]
            /\ outbox'[b] \subseteq outbox[b]
        BY <1>0, <1>3 DEF onShardResult, LoseFrames, agent, TypeOK
      <3>2. QED
        BY <3>1, TracesMember
    <2>2. issued' = issued /\ leaseAgent' = leaseAgent
      BY SMTT(30), <1>3 DEF onShardResult, Accept, DropStale, rows
    <2>3. ASSUME NEW s \in Shards, Leased(s)'
          PROVE  Leased(s) /\ leaseId'[s] = leaseId[s]
      <3>1. r.status \in Status /\ r.shard \in Shards
        BY <1>0 DEF TypeOK, Result
      <3>2. ResultState(r) # "LEASED"
        BY <3>1 DEF ResultState, Status, Aborts
      <3>3. CASE Accept(r)
        BY <1>0, <2>3, <3>1, <3>2, <3>3 DEF Accept, Transition, TypeOK
      <3>4. CASE UNCHANGED rows
        BY SMTT(30), <2>3, <3>4 DEF rows
      <3>5. QED
        BY Zenon, <1>3, <3>3, <3>4 DEF onShardResult, DropStale
    <2>4. QED
      BY <1>0, <2>1, <2>2, <2>3, OwnerKept
  <1>4. ASSUME NEW a \in Agents, onHeartbeat(a) \/ LoseSession(a) PROVE OwnerInv'
    <2>1. ASSUME NEW b \in Agents PROVE Traces(b)' \subseteq Traces(b)
      <3>1. /\ UNCHANGED <<wq, running>>
            /\ grants'[b] \subseteq grants[b]
            /\ beat'[b] \subseteq beat[b]
            /\ outbox'[b] \subseteq outbox[b]
        BY ZenonT(40), <1>0, <1>4 DEF onHeartbeat, LoseSession, LoseFrames, agent, TypeOK
      <3>2. QED
        BY <3>1, TracesMember
    <2>2. QED
      BY ZenonT(40), <1>0, <1>4, <2>1, OwnerKept DEF onHeartbeat, LoseSession, rows
  <1>5. ASSUME UNCHANGED <<wire, agent>>, issued' = issued,
               \A s \in Shards : Leased(s)' => /\ Leased(s)
                                               /\ leaseId'[s] = leaseId[s]
                                               /\ leaseAgent'[s] = leaseAgent[s]
        PROVE  OwnerInv'
    <2>1. ASSUME NEW b \in Agents PROVE Traces(b)' \subseteq Traces(b)
      BY <1>5, TracesMember DEF wire, agent
    <2>2. QED
      BY <1>0, <1>5, <2>1, OwnerKept
  <1>6. ASSUME NEW a \in Agents, NEW v \in BOOLEAN, SetAgentEnabled(a, v) PROVE OwnerInv'
    BY <1>5, <1>6 DEF SetAgentEnabled, rows
  <1>7. CASE ExpireLeases
    BY <1>0, <1>5, <1>7 DEF ExpireLeases, Expired, TypeOK
  <1>8. ASSUME NEW kinds, ReapDoneShards(kinds) PROVE OwnerInv'
    BY SMTT(30), <1>0, <1>5, <1>8 DEF ReapDoneShards, TypeOK
  <1>9. ASSUME NEW s \in Shards, TTLPasses(s) PROVE OwnerInv'
    BY <1>5, <1>9 DEF TTLPasses
  <1>10. ASSUME NEW S \in ParkedTargets, RetryParked(S) PROVE OwnerInv'
    BY <1>0, <1>5, <1>10 DEF RetryParked, TypeOK
  <1>11. ASSUME NEW S \in ParkedTargets, DropParked(S) PROVE OwnerInv'
    BY SMTT(30), <1>0, <1>5, <1>11 DEF DropParked, TypeOK
  <1>12. ASSUME NEW to, SetJobState(to) PROVE OwnerInv'
    BY <1>5, <1>12 DEF SetJobState, rows
  <1>13. CASE UNCHANGED vars
    BY <1>5, <1>13 DEF vars, rows
  <1>14. QED
    BY <1>1, <1>2, <1>3, <1>4, <1>6, <1>7, <1>8, <1>9, <1>10, <1>11, <1>12, <1>13
       DEF Next, CoordinatorStep, StoreStep

(***************************************************************************)
(* A live lease has one owner in every behaviour: the guard of             *)
(* shardTransition never accepts a result of an agent the row does not     *)
(* name, however leases expired, were granted again or frames were lost.   *)
(***************************************************************************)
THEOREM LeaseOwnership == Spec => []LiveLeaseOwner
  <1>1. OwnerInv => LiveLeaseOwner
    BY DEF OwnerInv
  <1>2. QED
    BY <1>1, OwnerInit, OwnerStep, PTL DEF Spec
-----------------------------------------------------------------------------
(* Counting. *)

CountInv == TypeOK /\ CountedOnce

(***************************************************************************)
(* What a step may do to the rows, action by action: either nothing the    *)
(* counters depend on, or the acceptance of one OK, or of one abort.        *)
(***************************************************************************)
Worked(s) == state[s] \in {"DONE", "GONE"}

FoldKept ==
    /\ folded' = folded /\ aborted' = aborted
    /\ \A s \in Shards : /\ Worked(s) => state'[s] \in {state[s], "GONE"}
                         /\ state'[s] = "DONE" => state[s] = "DONE"

FoldOne ==
    \E s \in Shards :
        /\ state[s] = "LEASED" /\ state' = [state EXCEPT ![s] = "DONE"]
        /\ folded' = [folded EXCEPT ![s] = @ + 1] /\ aborted' = aborted

AbortOne ==
    \E s \in Shards :
        /\ state[s] = "LEASED" /\ state' = [state EXCEPT ![s] = "DONE"]
        /\ folded' = folded /\ aborted' = aborted \cup {s}

LEMMA FoldStep ==
    ASSUME TypeOK, [Next]_vars
    PROVE  FoldKept \/ FoldOne \/ AbortOne
  <1> USE DEF Worked
  <1>1. ASSUME NEW a \in Agents, Grant(a) PROVE FoldKept
    <2>1. PICK n \in 1..MaxCredits :
            /\ LeaseRows(a, LeaseSet(KindOf, Eligible(a), Eligible(a) \cap LastHeld(a), elBudget(a), n))
            /\ folded' = folded /\ aborted' = aborted
      BY <1>1 DEF Grant
    <2> DEFINE S == LeaseSet(KindOf, Eligible(a), Eligible(a) \cap LastHeld(a), elBudget(a), n)
    <2>2. \A s \in S : state[s] = "QUEUED"
      BY GrantFromQueue DEF Eligible
    <2>3. LeaseRows(a, S) /\ folded' = folded /\ aborted' = aborted
      BY SMTT(30), <2>1
    <2> HIDE DEF S
    <2>4. QED
      BY SMTT(30), <2>2, <2>3 DEF FoldKept, LeaseRows, TypeOK
  <1>2. ASSUME NEW a \in Agents, AgentStep(a) PROVE FoldKept
    BY Zenon, <1>2 DEF AgentStep, RecvGrant, StartItem, FinishItem, set_drain, DropJob,
                SendHeartbeat, AgentCrash, rows, FoldKept
  <1>3. ASSUME NEW a \in Agents, NEW r \in outbox[a], onShardResult(a, r)
        PROVE  FoldKept \/ FoldOne \/ AbortOne
    <2>1. r.status \in Status /\ r.shard \in Shards
      BY DEF TypeOK, Result
    <2>2. CASE Accept(r) /\ r.status = "OK"
      BY Zenon, <2>1, <2>2 DEF Accept, Aborts, Match, Leased, Transition, ResultState, FoldOne
    <2>3. CASE Accept(r) /\ r.status # "OK"
      <3>1. folded' = folded
        BY <2>1, <2>3 DEF Accept, TypeOK
      <3>2. CASE Aborts(r)
        BY Zenon, <2>1, <2>3, <3>1, <3>2
           DEF Accept, Aborts, Match, Leased, Transition, ResultState, AbortOne
      <3>3. CASE ~Aborts(r)
        <4>1. ResultState(r) \in {"QUEUED", "PARKED"}
          BY SMTT(30), <2>1, <2>3, <3>3 DEF Status, Aborts, ResultState
        <4>2. QED
          BY <2>1, <2>3, <3>1, <3>3, <4>1
             DEF Accept, Match, Leased, Transition, FoldKept, TypeOK
      <3>4. QED
        BY Zenon, <3>2, <3>3
    <2>4. CASE UNCHANGED rows
      BY Zenon, <2>4 DEF rows, FoldKept
    <2>5. QED
      BY <1>3, <2>2, <2>3, <2>4 DEF onShardResult, DropStale
  <1>4. ASSUME NEW a \in Agents, onHeartbeat(a) \/ LoseSession(a) PROVE FoldKept
    BY Zenon, <1>4 DEF onHeartbeat, LoseSession, rows, FoldKept
  <1>5. ASSUME NEW a \in Agents, NEW v, SetAgentEnabled(a, v) PROVE FoldKept
    BY <1>5 DEF SetAgentEnabled, rows, FoldKept
  <1>6. CASE ExpireLeases
    BY <1>6 DEF ExpireLeases, Expired, Leased, FoldKept, TypeOK
  <1>7. ASSUME NEW kinds, ReapDoneShards(kinds) PROVE FoldKept
    BY <1>7 DEF ReapDoneShards, FoldKept, TypeOK
  <1>8. ASSUME NEW s \in Shards, TTLPasses(s) PROVE FoldKept
    BY <1>8 DEF TTLPasses, FoldKept
  <1>9. ASSUME NEW S \in ParkedTargets, RetryParked(S) \/ DropParked(S) PROVE FoldKept
    <2>1. \A s \in S : state[s] = "PARKED"
      BY DEF ParkedTargets, Parked
    <2>2. QED
      BY ZenonT(40), <1>9, <2>1 DEF RetryParked, DropParked, FoldKept, TypeOK
  <1>10. ASSUME NEW to, SetJobState(to) PROVE FoldKept
    BY <1>10 DEF SetJobState, rows, FoldKept
  <1>11. CASE UNCHANGED vars
    BY <1>11 DEF vars, rows, FoldKept
  <1>12. QED
    BY <1>1, <1>2, <1>3, <1>4, <1>5, <1>6, <1>7, <1>8, <1>9, <1>10, <1>11
       DEF Next, CoordinatorStep, StoreStep

(* What CountedOnce says of one row. *)
CountedRow(s) ==
    /\ folded[s] <= 1
    /\ state[s] = "DONE" => folded[s] = 1 \/ s \in aborted
    /\ folded[s] = 1 \/ s \in aborted => state[s] \in {"DONE", "GONE"}
    /\ ~(folded[s] = 1 /\ s \in aborted)

LEMMA CountedRows == ASSUME CountInv, NEW s \in Shards PROVE CountedRow(s)
  BY DEF CountInv, CountedOnce, CountedRow

LEMMA CountStep == CountInv /\ [Next]_vars => CountInv'
  <1> SUFFICES ASSUME CountInv, [Next]_vars PROVE CountInv'
    OBVIOUS
  <1>1. TypeOK /\ TypeOK'
    BY TypeStep DEF CountInv
  <1>2. CASE FoldKept
    BY SMTT(30), <1>1, <1>2 DEF CountInv, CountedOnce, FoldKept, Worked, TypeOK
  <1>3. CASE FoldOne
    <2>1. PICK s \in Shards : /\ state[s] = "LEASED" /\ state' = [state EXCEPT ![s] = "DONE"]
                              /\ folded' = [folded EXCEPT ![s] = @ + 1] /\ aborted' = aborted
      BY Zenon, <1>3 DEF FoldOne
    <2>2. folded[s] \in Nat /\ folded[s] <= 1 /\ folded[s] # 1 /\ s \notin aborted
      BY SMTT(30), <1>1, <2>1 DEF CountInv, CountedOnce, TypeOK
    <2>3. folded'[s] = folded[s] + 1
      BY <1>1, <2>1 DEF TypeOK
    <2>4. state'[s] = "DONE"
      BY <1>1, <2>1 DEF TypeOK
    <2>5. folded'[s] = 1 /\ state'[s] = "DONE" /\ s \notin aborted'
      BY <2>1, <2>2, <2>3, <2>4
    <2>6. \A t \in Shards \ {s} : folded'[t] = folded[t] /\ state'[t] = state[t]
                                  /\ (t \in aborted' <=> t \in aborted)
      BY <1>1, <2>1 DEF TypeOK
    <2>7. ASSUME NEW t \in Shards PROVE CountedRow(t)'
      <3>1. CASE t = s
        BY <2>5, <3>1 DEF CountedRow
      <3>2. CASE t # s
        BY CountedRows, <2>6, <3>2 DEF CountedRow
      <3>3. QED
        BY <3>1, <3>2
    <2>8. QED
      BY <1>1, <2>7 DEF CountInv, CountedOnce, CountedRow
  <1>4. CASE AbortOne
    <2>1. PICK s \in Shards : /\ state[s] = "LEASED" /\ state' = [state EXCEPT ![s] = "DONE"]
                              /\ folded' = folded /\ aborted' = aborted \cup {s}
      BY Zenon, <1>4 DEF AbortOne
    <2>2. folded'[s] = folded[s] /\ folded[s] <= 1 /\ folded[s] # 1
      BY <1>1, <2>1 DEF CountInv, CountedOnce, TypeOK
    <2>3. state'[s] = "DONE" /\ s \in aborted'
      BY <1>1, <2>1 DEF TypeOK
    <2>4. \A t \in Shards \ {s} : folded'[t] = folded[t] /\ state'[t] = state[t]
                                  /\ (t \in aborted' <=> t \in aborted)
      BY <1>1, <2>1 DEF TypeOK
    <2>5. ASSUME NEW t \in Shards PROVE CountedRow(t)'
      <3>1. CASE t = s
        BY <2>2, <2>3, <3>1 DEF CountedRow
      <3>2. CASE t # s
        BY CountedRows, <2>4, <3>2 DEF CountedRow
      <3>3. QED
        BY <3>1, <3>2
    <2>6. QED
      BY <1>1, <2>5 DEF CountInv, CountedOnce, CountedRow
  <1>5. QED
    BY <1>1, <1>2, <1>3, <1>4, FoldStep

LEMMA CountInit == Init => CountInv
  BY TypeInit DEF Init, CountInv, CountedOnce

(***************************************************************************)
(* A completed shard's counters enter the pass exactly once, unless its    *)
(* chunk group was aborted, and then never: a stale or repeated result     *)
(* neither folds again nor aborts what was counted.                        *)
(***************************************************************************)
THEOREM CountersFoldOnce == Spec => []CountedOnce
  <1>1. CountInv => CountedOnce
    BY DEF CountInv
  <1>2. QED
    BY <1>1, CountInit, CountStep, PTL DEF Spec

(***************************************************************************)
(* Completion is final: no expiry, retry, late result or grant reopens a   *)
(* DONE or deleted row.                                                    *)
(***************************************************************************)
THEOREM CompletionIsFinal == Spec => DoneIsFinal
  <1>1. ASSUME TypeOK, [Next]_vars
        PROVE  [\A s \in Shards : state[s] \in {"DONE", "GONE"}
                                     => state'[s] \in {state[s], "GONE"}]_vars
    <2>1. CASE FoldKept
      BY <2>1 DEF FoldKept, Worked
    <2>2. CASE FoldOne
      BY <1>1, <2>2 DEF FoldOne, TypeOK
    <2>3. CASE AbortOne
      BY SMTT(30), <1>1, <2>3 DEF AbortOne, TypeOK
    <2>4. QED
      BY <1>1, <2>1, <2>2, <2>3, FoldStep
  <1>2. QED
    BY <1>1, TypeCorrect, PTL DEF Spec, DoneIsFinal
-----------------------------------------------------------------------------
(* The lease protocol implements WorkLedger. *)

(* What StatusOf says of each row, before and after a step. *)
LEMMA StatusValues ==
    ASSUME CountInv, CountInv', NEW s \in Shards
    PROVE  /\ state[s] \in {"QUEUED", "LEASED"} => StatusOf(s) = "open"
           /\ state'[s] \in {"QUEUED", "LEASED"} => StatusOf(s)' = "open"
           /\ state[s] = "PARKED" => StatusOf(s) = "aside" /\ s \notin aborted
           /\ state'[s] = "PARKED" => StatusOf(s)' = "aside"
           /\ state'[s] = "DONE" /\ s \notin aborted' => StatusOf(s)' = "counted"
           /\ s \in aborted => StatusOf(s) = "discarded"
           /\ s \in aborted' => StatusOf(s)' = "discarded"
           /\ state'[s] = "GONE" /\ folded'[s] = 0 => StatusOf(s)' = "discarded"
           /\ state'[s] = "GONE" /\ folded'[s] = 1 => StatusOf(s)' = "counted"
           /\ state[s] = "DONE" /\ s \notin aborted => folded[s] = 1 /\ StatusOf(s) = "counted"
           /\ state[s] = "PARKED" => folded[s] = 0
  <1>0. /\ folded[s] \in Nat /\ folded'[s] \in Nat
        /\ folded[s] <= 1 /\ folded'[s] <= 1
        /\ folded[s] = 1 \/ s \in aborted => state[s] \in {"DONE", "GONE"}
        /\ folded'[s] = 1 \/ s \in aborted' => state'[s] \in {"DONE", "GONE"}
        /\ state[s] = "DONE" => folded[s] = 1 \/ s \in aborted
        /\ state'[s] = "DONE" => folded'[s] = 1 \/ s \in aborted'
        /\ ~(folded[s] = 1 /\ s \in aborted)
        /\ ~(folded'[s] = 1 /\ s \in aborted')
    BY DEF CountInv, CountedOnce, TypeOK
  <1>1. /\ state[s] \in {"QUEUED", "LEASED", "PARKED"} => folded[s] = 0 /\ s \notin aborted
        /\ state'[s] \in {"QUEUED", "LEASED", "PARKED"} => folded'[s] = 0 /\ s \notin aborted'
        /\ state[s] = "DONE" /\ s \notin aborted => folded[s] = 1
        /\ state'[s] = "DONE" /\ s \notin aborted' => folded'[s] = 1
        /\ s \in aborted => folded[s] = 0
        /\ s \in aborted' => folded'[s] = 0
    BY <1>0
  <1>2. /\ state[s] \in {"QUEUED", "LEASED"} => StatusOf(s) = "open"
        /\ state[s] = "PARKED" => StatusOf(s) = "aside"
        /\ state[s] = "DONE" /\ s \notin aborted => StatusOf(s) = "counted"
        /\ s \in aborted => StatusOf(s) = "discarded"
    BY <1>1 DEF StatusOf
  <1>3. /\ state'[s] \in {"QUEUED", "LEASED"} => StatusOf(s)' = "open"
        /\ state'[s] = "PARKED" => StatusOf(s)' = "aside"
        /\ state'[s] = "DONE" /\ s \notin aborted' => StatusOf(s)' = "counted"
        /\ s \in aborted' => StatusOf(s)' = "discarded"
    BY <1>1 DEF StatusOf
  <1>4. /\ state'[s] = "GONE" /\ folded'[s] = 0 => StatusOf(s)' = "discarded"
        /\ state'[s] = "GONE" /\ folded'[s] = 1 => StatusOf(s)' = "counted"
    BY DEF StatusOf
  <1>5. QED
    BY <1>1, <1>2, <1>3, <1>4

SameStatus == folded' = folded /\ \A s \in Shards : StatusOf(s)' = StatusOf(s)

LEMMA LedgerMove ==
    ASSUME NEW S \in SUBSET Shards, NEW from, NEW to, S # {},
           \A s \in S : StatusOf(s) = from /\ StatusOf(s)' = to,
           \A s \in Shards \ S : StatusOf(s)' = StatusOf(s)
    PROVE  Ledger!Move(S, from, to)
  BY DEF Ledger!Move

LEMMA SameRows ==
    ASSUME UNCHANGED <<state, folded, aborted>>
    PROVE  SameStatus
  BY DEF SameStatus, StatusOf

LEMMA LedgerStep ==
    ASSUME CountInv, CountInv', [Next]_vars
    PROVE  SameStatus \/ Ledger!Next
  <1> USE DEF CountInv
  <1>1. ASSUME NEW a \in Agents, Grant(a) PROVE SameStatus
    <2>1. PICK n \in 1..MaxCredits :
            /\ LeaseRows(a, LeaseSet(KindOf, Eligible(a), Eligible(a) \cap LastHeld(a), elBudget(a), n))
            /\ folded' = folded /\ aborted' = aborted
      BY ZenonT(40), <1>1 DEF Grant
    <2> DEFINE S == LeaseSet(KindOf, Eligible(a), Eligible(a) \cap LastHeld(a), elBudget(a), n)
    <2>2. \A s \in S : state[s] = "QUEUED"
      BY SMTT(30), GrantFromQueue DEF Eligible
    <2>3. \A s \in Shards : state'[s] = IF s \in S THEN "LEASED" ELSE state[s]
      BY <2>1 DEF LeaseRows
    <2> HIDE DEF S
    <2>4. ASSUME NEW s \in Shards PROVE StatusOf(s)' = StatusOf(s)
      <3>1. CASE s \in S
        BY <2>2, <2>3, <3>1, StatusValues
      <3>2. CASE s \notin S
        BY SMTT(30), <2>1, <2>3, <3>2 DEF StatusOf
      <3>3. QED
        BY SMTT(30), <3>1, <3>2
    <2>5. QED
      BY SMTT(30), <2>1, <2>4 DEF SameStatus
  <1>2. ASSUME NEW a \in Agents, AgentStep(a) PROVE SameStatus
    BY Zenon, <1>2, SameRows DEF AgentStep, RecvGrant, StartItem, FinishItem, set_drain, DropJob,
                SendHeartbeat, AgentCrash, rows
  <1>3. ASSUME NEW a \in Agents, NEW r \in outbox[a], onShardResult(a, r)
        PROVE  SameStatus \/ Ledger!Next
    <2>1. r.status \in Status /\ r.shard \in Shards
      BY DEF TypeOK, Result
    <2>2. CASE Accept(r)
      <3> DEFINE t == r.shard
      <3>1. /\ state[t] = "LEASED"
            /\ state' = [state EXCEPT ![t] = ResultState(r)]
            /\ folded' = [folded EXCEPT ![t] = IF r.status = "OK" THEN @ + 1 ELSE @]
            /\ aborted' = IF Aborts(r) THEN aborted \cup {t} ELSE aborted
        BY ZenonT(40), <2>2 DEF Accept, Match, Leased, Transition
      <3>2. \A s \in Shards \ {t} : state'[s] = state[s] /\ folded'[s] = folded[s]
                                    /\ (s \in aborted' <=> s \in aborted)
        BY <2>1, <3>1 DEF TypeOK
      <3>3. \A s \in Shards \ {t} : StatusOf(s)' = StatusOf(s)
        BY ZenonT(40), <3>2 DEF StatusOf
      <3>4. state'[t] = ResultState(r)
        BY <2>1, <3>1 DEF TypeOK
      <3>5. StatusOf(t) = "open" /\ t \notin aborted
        BY Zenon, <2>1, <3>1, StatusValues DEF CountedOnce
      <3>6. CASE r.status = "OK"
        <4>1. StatusOf(t)' = "counted"
          BY <2>1, <3>1, <3>4, <3>5, <3>6, StatusValues DEF ResultState, Aborts
        <4>2. Ledger!Move({t}, "open", "counted")
          BY <2>1, <3>3, <3>5, <4>1, LedgerMove
        <4>3. folded' = [folded EXCEPT ![t] = @ + 1]
          BY <3>1, <3>6
        <4>4. QED
          BY Zenon, <2>1, <4>2, <4>3 DEF Ledger!Next, Ledger!Count
      <3>7. CASE r.status # "OK"
        <4>1. folded' = folded
          BY ZenonT(40), <2>1, <3>1, <3>7 DEF TypeOK
        <4>2. CASE r.status = "ERROR"
          <5>1. StatusOf(t)' = "aside"
            BY <2>1, <3>4, <4>2, StatusValues DEF ResultState, Aborts
          <5>2. Ledger!Move({t}, "open", "aside")
            BY <2>1, <3>3, <3>5, <5>1, LedgerMove
          <5>3. QED
            BY Zenon, <2>1, <4>1, <5>2 DEF Ledger!Next, Ledger!SetAside
        <4>3. CASE Aborts(r)
          <5>1. StatusOf(t)' = "discarded"
            BY <2>1, <3>1, <4>3, StatusValues
          <5>2. Ledger!Move({t}, "open", "discarded")
            BY <2>1, <3>3, <3>5, <5>1, LedgerMove
          <5>3. t \in {s \in Shards : KindOf[s] = "chunk"}
            BY <2>1, <4>3 DEF Aborts
          <5>4. QED
            BY ZenonT(40), <2>1, <4>1, <5>2, <5>3 DEF Ledger!Next, Ledger!GiveUp
        <4>4. CASE r.status # "ERROR" /\ ~Aborts(r)
          <5>1. state'[t] = "QUEUED"
            BY <2>1, <3>4, <3>7, <4>4 DEF Status, ResultState, Aborts
          <5>2. StatusOf(t)' = "open"
            BY <2>1, <5>1, StatusValues
          <5>3. QED
            BY <3>3, <3>5, <4>1, <5>2 DEF SameStatus
        <4>5. QED
          BY SMTT(30), <4>2, <4>3, <4>4
      <3>8. QED
        BY SMTT(30), <3>6, <3>7
    <2>3. CASE UNCHANGED rows
      BY <2>3, SameRows DEF rows
    <2>4. QED
      BY <1>3, <2>2, <2>3 DEF onShardResult, DropStale
  <1>4. ASSUME NEW a \in Agents, onHeartbeat(a) \/ LoseSession(a) PROVE SameStatus
    BY Zenon, <1>4, SameRows DEF onHeartbeat, LoseSession, rows
  <1>5. ASSUME NEW a \in Agents, NEW v, SetAgentEnabled(a, v) PROVE SameStatus
    BY <1>5, SameRows DEF SetAgentEnabled, rows
  <1>6. CASE ExpireLeases
    <2> DEFINE S == {s \in Expired : ~(attempt[s] < MaxShardAttempts)}
    <2>1. folded' = folded /\ aborted' = aborted
      BY <1>6 DEF ExpireLeases
    <2>2. ASSUME NEW s \in S
          PROVE  StatusOf(s) = "open" /\ StatusOf(s)' = "aside"
      <3>1. s \in Shards /\ state[s] = "LEASED" /\ state'[s] = "PARKED"
        BY <1>6, <2>2 DEF ExpireLeases, Expired, Leased
      <3>2. QED
        BY <3>1, StatusValues
    <2>3. ASSUME NEW s \in Shards \ S PROVE StatusOf(s)' = StatusOf(s)
      <3>1. CASE s \in Expired
        <4>1. state[s] = "LEASED" /\ state'[s] = "QUEUED"
          BY <1>6, <3>1 DEF ExpireLeases, Expired, Leased
        <4>2. QED
          BY SMTT(30), <4>1, StatusValues
      <3>2. CASE s \notin Expired
        BY <1>6, <2>1, <3>2 DEF ExpireLeases, StatusOf
      <3>3. QED
        BY <3>1, <3>2
    <2>4. S \in SUBSET Shards
      BY DEF Expired
    <2> HIDE DEF S
    <2>5. CASE S = {}
      BY <2>1, <2>3, <2>5 DEF SameStatus
    <2>6. CASE S # {}
      <3>1. Ledger!Move(S, "open", "aside")
        BY <2>2, <2>3, <2>4, <2>6, LedgerMove
      <3>2. QED
        BY <2>1, <2>4, <3>1 DEF Ledger!Next, Ledger!SetAside
    <2>7. QED
      BY <2>5, <2>6
  <1>7. ASSUME NEW kinds, ReapDoneShards(kinds) PROVE SameStatus
    <2>1. folded' = folded /\ aborted' = aborted
      BY <1>7 DEF ReapDoneShards
    <2>2. ASSUME NEW s \in Shards PROVE StatusOf(s)' = StatusOf(s)
      <3>1. CASE state'[s] = state[s]
        BY <2>1, <3>1 DEF StatusOf
      <3>2. CASE state[s] = "DONE" /\ state'[s] = "GONE"
        BY <2>1, <3>2, StatusValues
      <3>3. QED
        BY <1>7, <3>1, <3>2 DEF ReapDoneShards
    <2>3. QED
      BY <2>1, <2>2 DEF SameStatus
  <1>8. ASSUME NEW s \in Shards, TTLPasses(s) PROVE SameStatus
    BY <1>8, SameRows DEF TTLPasses
  <1>9. ASSUME NEW S \in ParkedTargets, RetryParked(S) \/ DropParked(S) PROVE Ledger!Next
    <2>1. S \in SUBSET Shards /\ S # {} /\ \A s \in S : state[s] = "PARKED"
      BY DEF ParkedTargets, Parked
    <2>2. folded' = folded /\ aborted' = aborted
      BY Zenon, <1>9 DEF RetryParked, DropParked
    <2>3. \A s \in Shards \ S : StatusOf(s)' = StatusOf(s)
      BY <1>9, <2>2 DEF RetryParked, DropParked, StatusOf
    <2>4. CASE RetryParked(S)
      <3>1. \A s \in S : StatusOf(s) = "aside" /\ StatusOf(s)' = "open"
        BY <2>1, <2>4, StatusValues DEF RetryParked
      <3>2. Ledger!Move(S, "aside", "open")
        BY <2>1, <2>3, <3>1, LedgerMove
      <3>3. QED
        BY SMTT(30), <2>1, <2>2, <3>2 DEF Ledger!Next, Ledger!Reopen
    <2>5. CASE DropParked(S)
      <3>1. \A s \in S : StatusOf(s) = "aside" /\ StatusOf(s)' = "discarded"
        BY <2>1, <2>2, <2>5, StatusValues DEF DropParked
      <3>2. Ledger!Move(S, "aside", "discarded")
        BY <2>1, <2>3, <3>1, LedgerMove
      <3>3. QED
        BY SMTT(30), <2>1, <2>2, <3>2 DEF Ledger!Next, Ledger!Discard
    <2>6. QED
      BY <1>9, <2>4, <2>5
  <1>10. ASSUME NEW to, SetJobState(to) PROVE SameStatus
    BY <1>10, SameRows DEF SetJobState, rows
  <1>11. CASE UNCHANGED vars
    BY <1>11, SameRows DEF vars, rows
  <1>12. QED
    BY <1>1, <1>2, <1>3, <1>4, <1>5, <1>6, <1>7, <1>8, <1>9, <1>10, <1>11
       DEF Next, CoordinatorStep, StoreStep

(***************************************************************************)
(* The shard table with its leases, agents, losses, sweeper, reaper and    *)
(* operator implements the abstract ledger: every shard is worked off once.*)
(***************************************************************************)
THEOREM ImplementsLedger == Spec => WorkedOffOnce
  <1>1. Init => Ledger!Init
    BY DEF Init, Ledger!Init, StatusOf
  <1>2. CountInv /\ CountInv' /\ [Next]_vars
          => [Ledger!Next]_<<[s \in Shards |-> StatusOf(s)], folded>>
    BY LedgerStep DEF SameStatus
  <1>3. QED
    BY <1>1, <1>2, CountInit, CountStep, PTL DEF Spec, WorkedOffOnce, Ledger!Spec
=============================================================================
