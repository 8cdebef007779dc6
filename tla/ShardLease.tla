----------------------------- MODULE ShardLease -----------------------------
(***************************************************************************)
(* The lease protocol between the coordinator's shard table and the        *)
(* agents: the core of drsync.                                             *)
(*                                                                         *)
(* The store (store.go) keeps one row per shard.  A grant leases QUEUED    *)
(* rows to an agent under a fresh lease id; the agent queues, runs and     *)
(* reports them; heartbeats renew the leases the agent lists; the sweeper  *)
(* requeues (or parks) leases whose TTL passed.  Frames may be lost with   *)
(* the session that carries them, agents may crash, and an agent whose     *)
(* lease expired keeps running and reports late.                           *)
(*                                                                         *)
(* Abstractions.  A random 63-bit lease id is the pair of a shard and a    *)
(* per-shard grant number, so ids never collide.  Time is the overdue      *)
(* flag: a lease not renewed for a TTL may become overdue at any moment.   *)
(* Every frame of one direction is in a set: a lease has at most one       *)
(* result frame, and heartbeats use their own single-slot mailbox.  The    *)
(* work inside a shard (splits, chunk and delete groups) is left to other  *)
(* modules; a result here is only its status.                              *)
(***************************************************************************)
EXTENDS GrantSelection

CONSTANTS
    Agents,                \* agent ids
    NoAgent,               \* a NULL lease_agent or target_agent
    Shards,                \* row ids
    KindOf,                \* shards.kind
    Target,                \* shards.target_agent (probe shards), or NoAgent
    MaxShardAttempts,
    maxEntrylistPerAgent,
    Operator,              \* bound: what the operator does in this instance
    MaxCredits,            \* bound: credits of one WorkRequest
    MaxGrants              \* bound: grants of one shard

ASSUME LeaseAssumption ==
    /\ Shards \subseteq Nat
    /\ IsFiniteSet(Shards)
    /\ NoAgent \notin Agents
    /\ KindOf \in [Shards -> {"dir", "entrylist", "chunk", "dirfix", "verify",
                              "delete", "probe", "linkfix"}]
    /\ Target \in [Shards -> Agents \cup {NoAgent}]
    /\ MaxShardAttempts \in Nat \ {0}
    /\ maxEntrylistPerAgent \in Nat
    /\ Operator \subseteq {"retry", "drop", "pause", "cancel", "disable"}
    /\ MaxCredits \in Nat
    /\ MaxGrants \in Nat

VARIABLES
    state,       \* shards.state; "GONE" once the row is reaped or dropped
    leaseId,     \* shards.lease_id, 0 for NULL
    leaseAgent,  \* shards.lease_agent: kept after the lease ends
    attempt,     \* shards.attempt
    overdue,     \* lease_expiry has passed
    issued,      \* lease ids issued for the shard so far
    folded,      \* how often the shard's counters were added to the pass's
    aborted,     \* rows AbortChunkGroup ended
    jobState,    \* jobs.state
    enabled,     \* agents.enabled
    grants,      \* WORK_GRANT frames on their way to an agent
    wq,          \* items queued on an agent
    running,     \* items a worker of an agent is processing
    drain,       \* g_drain of an agent
    outbox,      \* SHARD_RESULT frames on their way to the coordinator
    beat         \* the held leases of a HEARTBEAT on its way, or {}

rows  == <<state, leaseId, leaseAgent, attempt, overdue, issued, folded, aborted>>
agent == <<wq, running, drain>>
wire  == <<grants, outbox, beat>>
vars  == <<rows, jobState, enabled, wire, agent>>

Item   == [shard : Shards, lease : Nat]
Status == {"OK", "TRANSIENT", "RELEASED", "ERROR", "SRC_CHANGED"}
Result == [shard : Shards, lease : Nat, status : Status]

ItemOf(s)   == [shard |-> s, lease |-> leaseId[s]]
Held(a)     == wq[a] \cup running[a]      \* the agent's lease table
Leased(s)   == state[s] = "LEASED"
Match(s, l) == Leased(s) /\ leaseId[s] = l  \* WHERE id AND state AND lease_id

TypeOK ==
    /\ state \in [Shards -> {"QUEUED", "LEASED", "DONE", "PARKED", "GONE"}]
    /\ leaseId \in [Shards -> Nat]
    /\ leaseAgent \in [Shards -> Agents \cup {NoAgent}]
    /\ attempt \in [Shards -> Nat]
    /\ overdue \in [Shards -> BOOLEAN]
    /\ issued \in [Shards -> Nat]
    /\ folded \in [Shards -> Nat]
    /\ aborted \subseteq Shards
    /\ jobState \in {"RUNNING", "PAUSED", "CANCELLED"}
    /\ enabled \in [Agents -> BOOLEAN]
    /\ grants \in [Agents -> SUBSET SUBSET Item]
    /\ wq \in [Agents -> SUBSET Item]
    /\ running \in [Agents -> SUBSET Item]
    /\ drain \in [Agents -> BOOLEAN]
    /\ outbox \in [Agents -> SUBSET Result]
    /\ beat \in [Agents -> SUBSET Item]

Init ==
    /\ state = [s \in Shards |-> "QUEUED"]
    /\ leaseId = [s \in Shards |-> 0]
    /\ leaseAgent = [s \in Shards |-> NoAgent]
    /\ attempt = [s \in Shards |-> 0]
    /\ overdue = [s \in Shards |-> FALSE]
    /\ issued = [s \in Shards |-> 0]
    /\ folded = [s \in Shards |-> 0]
    /\ aborted = {}
    /\ jobState = "RUNNING"
    /\ enabled = [a \in Agents |-> TRUE]
    /\ grants = [a \in Agents |-> {}]
    /\ wq = [a \in Agents |-> {}]
    /\ running = [a \in Agents |-> {}]
    /\ drain = [a \in Agents |-> FALSE]
    /\ outbox = [a \in Agents |-> {}]
    /\ beat = [a \in Agents |-> {}]
-----------------------------------------------------------------------------
(* Coordinator: granting.  LeaseShards and the WORK_GRANT that carries it. *)

Eligible(a) ==
    {s \in Shards : /\ enabled[a] /\ jobState = "RUNNING" /\ state[s] = "QUEUED"
                    /\ Target[s] \in {NoAgent, a}}

LastHeld(a) == {s \in Shards : attempt[s] > 0 /\ leaseAgent[s] = a}

EntrylistHeld(a) ==
    {s \in Shards : Leased(s) /\ leaseAgent[s] = a /\ KindOf[s] = "entrylist"}

elBudgetPerGrant(a) == maxEntrylistPerAgent  \* mutant
elBudget(a) ==
    LET n == maxEntrylistPerAgent - Cardinality(EntrylistHeld(a))
    IN  IF n < 0 THEN 0 ELSE n

(* newLeaseID: fresh for every grant, never one issued before. *)
LeaseIDFromAttempt(s) == attempt[s] + 1  \* mutant
newLeaseID(s) == issued[s] + 1

LeaseRows(a, S) ==
    /\ state'      = [s \in Shards |-> IF s \in S THEN "LEASED" ELSE state[s]]
    /\ attempt'    = [s \in Shards |-> IF s \in S THEN attempt[s] + 1 ELSE attempt[s]]
    /\ issued'     = [s \in Shards |-> IF s \in S THEN issued[s] + 1 ELSE issued[s]]
    /\ leaseId'    = [s \in Shards |-> IF s \in S THEN newLeaseID(s) ELSE leaseId[s]]
    /\ leaseAgent' = [s \in Shards |-> IF s \in S THEN a ELSE leaseAgent[s]]
    /\ overdue'    = [s \in Shards |-> IF s \in S THEN FALSE ELSE overdue[s]]

Grant(a) ==
    \E n \in 1..MaxCredits :
        LET S == LeaseSet(KindOf, Eligible(a), Eligible(a) \cap LastHeld(a), elBudget(a), n)
        IN  /\ S # {}
            /\ \A s \in S : issued[s] < MaxGrants
            /\ LeaseRows(a, S)
            /\ grants' = [grants EXCEPT ![a] =
                   @ \cup {{[shard |-> s, lease |-> newLeaseID(s)] : s \in S}}]
            /\ UNCHANGED <<folded, aborted, jobState, enabled, agent, outbox, beat>>
-----------------------------------------------------------------------------
(* Agent. *)

Report(a, I, st) ==
    outbox' = [outbox EXCEPT ![a] =
                   @ \cup {[shard |-> i.shard, lease |-> i.lease, status |-> st] : i \in I}]

(***************************************************************************)
(* dispatch, FR_WORK_GRANT: every item enters the lease table and the      *)
(* queue, or goes straight back if the grant raced the drain signal.       *)
(***************************************************************************)
RecvGrant(a, g) ==
    /\ g \in grants[a]
    /\ grants' = [grants EXCEPT ![a] = @ \ {g}]
    /\ \/ ~drain[a] /\ wq' = [wq EXCEPT ![a] = @ \cup g] /\ UNCHANGED outbox
       \/ drain[a] /\ Report(a, g, "RELEASED") /\ UNCHANGED wq
    /\ UNCHANGED <<rows, jobState, enabled, running, drain, beat>>

(* wq_pop, process_item, lease_start *)
StartItem(a, i) ==
    /\ i \in wq[a]
    /\ wq' = [wq EXCEPT ![a] = @ \ {i}]
    /\ running' = [running EXCEPT ![a] = @ \cup {i}]
    /\ UNCHANGED <<rows, jobState, enabled, wire, drain>>

(* The end of every process_*: out_push of the result, then lease_remove.  *)
(* Only process_chunk reports that the source changed.                     *)
FinishItem(a, i, st) ==
    /\ i \in running[a]
    /\ st # "RELEASED"
    /\ st = "SRC_CHANGED" => KindOf[i.shard] = "chunk"
    /\ Report(a, {i}, st)
    /\ running' = [running EXCEPT ![a] = @ \ {i}]
    /\ UNCHANGED <<rows, jobState, enabled, grants, wq, drain, beat>>

(***************************************************************************)
(* set_drain: a draining agent hands every queued shard back.  The signal  *)
(* (control frame or heartbeat ack) follows the operator's disable and     *)
(* enable with a delay, so it may disagree with agents.enabled.            *)
(***************************************************************************)
set_drain(a, want) ==
    /\ "disable" \in Operator
    /\ want # drain[a]
    /\ drain' = [drain EXCEPT ![a] = want]
    /\ \/ want /\ Report(a, wq[a], "RELEASED") /\ wq' = [wq EXCEPT ![a] = {}]
       \/ ~want /\ UNCHANGED <<outbox, wq>>
    /\ UNCHANGED <<rows, jobState, enabled, grants, running, beat>>

(* CMD_CANCEL_JOB: wq_drop_job with discard_shard, nothing is reported. *)
DropJob(a) ==
    /\ jobState = "CANCELLED"
    /\ wq[a] # {}
    /\ wq' = [wq EXCEPT ![a] = {}]
    /\ UNCHANGED <<rows, jobState, enabled, wire, running, drain>>

(* send_heartbeat: the snapshot replaces an unsent one in the mailbox. *)
SendHeartbeat(a) ==
    /\ Held(a) # {}
    /\ beat' = [beat EXCEPT ![a] = Held(a)]
    /\ UNCHANGED <<rows, jobState, enabled, agent, grants, outbox>>

LoseFrames(a) ==
    /\ grants' = [grants EXCEPT ![a] = {}]
    /\ outbox' = [outbox EXCEPT ![a] = {}]
    /\ beat' = [beat EXCEPT ![a] = {}]

(* The process dies: its queue, lease table and unsent frames are gone. *)
AgentCrash(a) ==
    /\ wq' = [wq EXCEPT ![a] = {}]
    /\ running' = [running EXCEPT ![a] = {}]
    /\ drain' = [drain EXCEPT ![a] = FALSE]
    /\ LoseFrames(a)
    /\ UNCHANGED <<rows, jobState, enabled>>

(* The session drops or the coordinator restarts: both keep the rows and   *)
(* the running work; the writer frees frames it failed to send.            *)
LoseSession(a) ==
    /\ LoseFrames(a)
    /\ UNCHANGED <<rows, jobState, enabled, agent>>
-----------------------------------------------------------------------------
(* Coordinator: frames from agents. *)

(* shardTransition and its relatives: the row must still carry the lease. *)
Transition(s, to) ==
    /\ state' = [state EXCEPT ![s] = to]
    /\ leaseId' = [leaseId EXCEPT ![s] = 0]

(* AbortChunkGroup: a chunk whose source drifted is DONE, its counters are *)
(* not folded and the file is left to the next pass's diff.                *)
Aborts(r) == r.status = "SRC_CHANGED" /\ KindOf[r.shard] = "chunk"

ResultStateFailed(r) ==  \* mutant
    CASE r.status = "OK" \/ Aborts(r) -> "DONE" [] r.status = "ERROR" -> "FAILED"
      [] OTHER -> "QUEUED"
ResultState(r) ==
    CASE r.status = "OK" \/ Aborts(r)                -> "DONE"
      [] r.status = "SRC_CHANGED" /\ ~Aborts(r)      -> "QUEUED"
      [] r.status \in {"TRANSIENT", "RELEASED"}      -> "QUEUED"
      [] r.status = "ERROR"                          -> "PARKED"

(* A result under the current lease; an OK folds the counters with it. *)
Accept(r) ==
    /\ Match(r.shard, r.lease)
    /\ Transition(r.shard, ResultState(r))
    /\ folded' = [folded EXCEPT ![r.shard] = IF r.status = "OK" THEN @ + 1 ELSE @]
    /\ aborted' = IF Aborts(r) THEN aborted \cup {r.shard} ELSE aborted
    /\ UNCHANGED <<leaseAgent, attempt, overdue, issued>>

(* ErrLeaseMismatch: the stale result is dropped. *)
DropStaleButFold(r) ==  \* mutant
    /\ ~Match(r.shard, r.lease)
    /\ folded' = [folded EXCEPT ![r.shard] = IF r.status = "OK" THEN @ + 1 ELSE @]
    /\ UNCHANGED <<state, leaseId, leaseAgent, attempt, overdue, issued, aborted>>
DropStale(r) ==
    /\ ~Match(r.shard, r.lease)
    /\ UNCHANGED rows

(* ShardMeta, which these two statuses read, finds no row: dispatch fails  *)
(* and the session closes.                                                 *)
NoSuchRow(r) == r.status \in {"OK", "SRC_CHANGED"} /\ state[r.shard] = "GONE"

onShardResult(a, r) ==
    /\ r \in outbox[a]
    /\ \/ /\ NoSuchRow(r)
          /\ LoseFrames(a)
          /\ UNCHANGED rows
       \/ /\ ~NoSuchRow(r)
          /\ Accept(r) \/ DropStale(r)
          /\ outbox' = [outbox EXCEPT ![a] = @ \ {r}]
          /\ UNCHANGED <<grants, beat>>
    /\ UNCHANGED <<jobState, enabled, agent>>

(* RenewLeasesByID: only listed leases, only rows leased to this agent. *)
RenewedByAgent(a) == {s \in Shards : Leased(s) /\ leaseAgent[s] = a}  \* mutant
Renewed(a) == {s \in Shards : Leased(s) /\ leaseAgent[s] = a /\ ItemOf(s) \in beat[a]}

onHeartbeat(a) ==
    /\ beat[a] # {}
    /\ overdue' = [s \in Shards |-> IF s \in Renewed(a) THEN FALSE ELSE overdue[s]]
    /\ beat' = [beat EXCEPT ![a] = {}]
    /\ UNCHANGED <<state, leaseId, leaseAgent, attempt, issued, folded, aborted,
                   jobState, enabled, agent, grants, outbox>>
-----------------------------------------------------------------------------
(* Coordinator: the clock, the sweeper, the reaper and the operator. *)

TTLPasses(s) ==
    /\ Leased(s) /\ ~overdue[s]
    /\ overdue' = [overdue EXCEPT ![s] = TRUE]
    /\ UNCHANGED <<state, leaseId, leaseAgent, attempt, issued, folded, aborted,
                   jobState, enabled, wire, agent>>

OverdueRows == {s \in Shards : overdue[s]}  \* mutant
Expired == {s \in Shards : Leased(s) /\ overdue[s]}

ExpireLeases ==
    /\ Expired # {}
    /\ state' = [s \in Shards |->
           IF s \notin Expired THEN state[s]
           ELSE IF attempt[s] < MaxShardAttempts THEN "QUEUED" ELSE "PARKED"]
    /\ leaseId' = [s \in Shards |-> IF s \in Expired THEN 0 ELSE leaseId[s]]
    /\ UNCHANGED <<leaseAgent, attempt, overdue, issued, folded, aborted,
                   jobState, enabled, wire, agent>>

(***************************************************************************)
(* ReapDoneShards deletes the DONE rows of the kinds it is given: the scan *)
(* kinds on every tick of a SCANNING pass (the eager reap), the others     *)
(* once their phase drained.  The instance fits in one ReapBatchSize.      *)
(***************************************************************************)
ScanKinds == {"probe", "dir", "entrylist", "chunk"}

Finished(s) == state[s] \in {"DONE", "GONE"}

ReapKinds(kinds) ==
    kinds = ScanKinds \/ \A s \in Shards : KindOf[s] \in kinds => Finished(s)

ReapDoneShards(kinds) ==
    /\ ReapKinds(kinds)
    /\ \E s \in Shards : state[s] = "DONE" /\ KindOf[s] \in kinds
    /\ state' = [s \in Shards |->
           IF state[s] = "DONE" /\ KindOf[s] \in kinds THEN "GONE" ELSE state[s]]
    /\ UNCHANGED <<leaseId, leaseAgent, attempt, overdue, issued, folded, aborted,
                   jobState, enabled, wire, agent>>

(* One parked shard by id, or every parked shard of the job. *)
ParkedOrDone == {s \in Shards : state[s] \in {"PARKED", "DONE"}}  \* mutant
Parked == {s \in Shards : state[s] = "PARKED"}
ParkedTargets == {{s} : s \in Parked} \cup ({Parked} \ {{}})

RetryParked(S) ==
    /\ "retry" \in Operator
    /\ state' = [s \in Shards |-> IF s \in S THEN "QUEUED" ELSE state[s]]
    /\ attempt' = [s \in Shards |-> IF s \in S THEN 0 ELSE attempt[s]]
    /\ leaseId' = [s \in Shards |-> IF s \in S THEN 0 ELSE leaseId[s]]
    /\ leaseAgent' = [s \in Shards |-> IF s \in S THEN NoAgent ELSE leaseAgent[s]]
    /\ overdue' = [s \in Shards |-> IF s \in S THEN FALSE ELSE overdue[s]]
    /\ UNCHANGED <<issued, folded, aborted, jobState, enabled, wire, agent>>

DropParked(S) ==
    /\ "drop" \in Operator
    /\ state' = [s \in Shards |-> IF s \in S THEN "GONE" ELSE state[s]]
    /\ UNCHANGED <<leaseId, leaseAgent, attempt, overdue, issued, folded, aborted,
                   jobState, enabled, wire, agent>>

(* jobAction: pause, resume (both guarded) and cancel (unconditional). *)
SetJobState(to) ==
    /\ \/ to = "PAUSED" /\ jobState = "RUNNING" /\ "pause" \in Operator
       \/ to = "RUNNING" /\ jobState = "PAUSED"
       \/ to = "CANCELLED" /\ "cancel" \in Operator
    /\ jobState' = to
    /\ UNCHANGED <<rows, enabled, wire, agent>>

SetAgentEnabled(a, v) ==
    /\ "disable" \in Operator
    /\ enabled' = [enabled EXCEPT ![a] = v]
    /\ UNCHANGED <<rows, jobState, wire, agent>>
-----------------------------------------------------------------------------
AgentStep(a) ==
    \/ \E g \in grants[a] : RecvGrant(a, g)
    \/ \E i \in wq[a] : StartItem(a, i)
    \/ \E want \in BOOLEAN : set_drain(a, want)
    \/ \E i \in running[a], st \in Status : FinishItem(a, i, st)
    \/ DropJob(a)
    \/ SendHeartbeat(a)
    \/ AgentCrash(a)

CoordinatorStep(a) ==
    \/ Grant(a)
    \/ \E r \in outbox[a] : onShardResult(a, r)
    \/ onHeartbeat(a)
    \/ LoseSession(a)
    \/ \E v \in BOOLEAN : SetAgentEnabled(a, v)

StoreStep ==
    \/ ExpireLeases
    \/ \E kinds \in {ScanKinds, {"dirfix"}, {"linkfix"}, {"verify"}, {"delete"}} :
           ReapDoneShards(kinds)
    \/ \E s \in Shards : TTLPasses(s)
    \/ \E S \in ParkedTargets : RetryParked(S) \/ DropParked(S)
    \/ \E to \in {"RUNNING", "PAUSED", "CANCELLED"} : SetJobState(to)

Next == StoreStep \/ \E a \in Agents : AgentStep(a) \/ CoordinatorStep(a)

Spec == Init /\ [][Next]_vars

(* The clock advances and the sweeper's ticker fires: RunSweeper runs for  *)
(* as long as the coordinator does.  Nothing is assumed of the agents.     *)
FairSpec ==
    /\ Spec
    /\ \A s \in Shards : WF_vars(TTLPasses(s))
    /\ WF_vars(ExpireLeases)
-----------------------------------------------------------------------------
(* Properties. *)

(***************************************************************************)
(* Every item an agent or a frame still refers to was issued by a grant,   *)
(* and one that is the row's current lease belongs to the agent the row    *)
(* names.  So whatever was lost, expired or granted again, at most one     *)
(* agent can complete a shard: the guard "state = LEASED AND lease_id" of  *)
(* shardTransition never accepts another agent's result.                   *)
(***************************************************************************)
Work(a) ==
    (UNION grants[a]) \cup Held(a)
        \cup {[shard |-> r.shard, lease |-> r.lease] : r \in outbox[a]}

Traces(a) == Work(a) \cup beat[a]

LiveLeaseOwner ==
    \A a \in Agents : \A i \in Traces(a) :
        Match(i.shard, i.lease) => leaseAgent[i.shard] = a

(***************************************************************************)
(* Every completed row is accounted for once and in one way: CompleteShard *)
(* folds its counters in the transaction that marks it DONE, and           *)
(* AbortChunkGroup marks a drifted chunk DONE and folds nothing.  A        *)
(* redelivered, late or repeated result never folds again, never folds     *)
(* what was aborted and never aborts what was counted; a dropped shard     *)
(* never folded.                                                           *)
(***************************************************************************)
CountedOnce ==
    \A s \in Shards :
        /\ folded[s] <= 1
        /\ state[s] = "DONE" => folded[s] = 1 \/ s \in aborted
        /\ folded[s] = 1 \/ s \in aborted => state[s] \in {"DONE", "GONE"}
        /\ ~(folded[s] = 1 /\ s \in aborted)

(***************************************************************************)
(* The lease protocol implements the abstract ledger of work: reading a    *)
(* row's state, its fold and its abort together, every step of any agent,  *)
(* frame, sweeper, reaper or operator is one step of WorkLedger or none.   *)
(***************************************************************************)
StatusOf(s) ==
    LET uncounted == folded[s] = 0 /\ s \notin aborted IN
    CASE folded[s] > 0                                   -> "counted"
      [] folded[s] = 0 /\ s \in aborted                  -> "discarded"
      [] uncounted /\ state[s] = "GONE"                  -> "discarded"
      [] uncounted /\ state[s] = "PARKED"                -> "aside"
      [] uncounted /\ state[s] \notin {"GONE", "PARKED"} -> "open"

Ledger == INSTANCE WorkLedger
              WITH status <- [s \in Shards |-> StatusOf(s)], counts <- folded,
                   Chunks <- {s \in Shards : KindOf[s] = "chunk"}

WorkedOffOnce == Ledger!Spec

(***************************************************************************)
(* LeaseShards never leaves an agent with more than maxEntrylistPerAgent   *)
(* entry-list leases, however its grants interleave with expiries.         *)
(***************************************************************************)
EntrylistCap ==
    \A a \in Agents : Cardinality(EntrylistHeld(a)) <= maxEntrylistPerAgent

(***************************************************************************)
(* Completion is final: no expiry, retry, late result or new grant takes a *)
(* DONE row back to the queue, only the reaper removes it.                 *)
(***************************************************************************)
DoneIsFinal ==
    [][\A s \in Shards : state[s] \in {"DONE", "GONE"} => state'[s] \in {state[s], "GONE"}]_vars

(***************************************************************************)
(* A lease nobody works under any more (the grant or the result was lost,  *)
(* or the agent crashed) does not stall its pass: it expires, because      *)
(* RenewLeasesByID renews only the leases a heartbeat lists.               *)
(***************************************************************************)
Orphaned(s) == Leased(s) /\ \A a \in Agents : ItemOf(s) \notin Work(a)

OrphanedLeaseExpires ==
    \A s \in Shards : Orphaned(s) ~> ~Leased(s)

(***************************************************************************)
(* "MaxShardAttempts parks a shard after this many lease grants (poison    *)
(* guard)": no row is leased more often than that.                         *)
(***************************************************************************)
PoisonGuard ==
    \A s \in Shards : attempt[s] <= MaxShardAttempts

(***************************************************************************)
(* "Stale results from an expired lease are rejected and the caller drops  *)
(* them": handling one result frame loses no other frame of the agent.     *)
(***************************************************************************)
StaleResultsDropped ==
    [][\A a \in Agents : \A r \in outbox[a] :
         onShardResult(a, r) => outbox'[a] = outbox[a] \ {r} /\ grants' = grants]_vars
=============================================================================
