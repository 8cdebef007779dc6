--------------------------- MODULE PassLifecycle ---------------------------
(***************************************************************************)
(* The life of one job: the pass controller's tick, the operator's API     *)
(* calls and the store they share.                                         *)
(*                                                                         *)
(* passctrl.Controller runs on one goroutine (tick); every API request has *)
(* its own.  Each call into the store is atomic (Store.mu, or one read),   *)
(* and nothing is atomic across two calls, so a thread here is a program   *)
(* counter with the values it has read, and every store call is one step.  *)
(* A coordinator crash forgets the threads and keeps the store.            *)
(*                                                                         *)
(* Abstractions.  One job.  A pass has one row per kind of work (one probe *)
(* row per probed agent); how a row is leased, requeued and parked is      *)
(* ShardLease, so here a leased row just finishes or parks.  What a walk   *)
(* puts in the journal and the counters is the set found[n].  Reaping DONE *)
(* rows changes no count advance() decides on and is left out.  A store    *)
(* call that fails ends its thread; Crash, which ends all, stands for it.  *)
(***************************************************************************)
EXTENDS Integers, Sequences, FiniteSets

CONSTANTS
    Agents,       \* agents that may serve the job
    Calls,        \* API requests that may be in progress at the same time
    Ops,          \* bound: what happens in this instance besides tick and work
    Schedule,     \* spec.passes.schedule: "auto" or "manual"
    MaxPasses,    \* spec.passes.max
    ConvergeWhen, \* whether spec.passes.converge_when has a threshold
    DryRun,       \* jobs.dry_run
    VerifyOn,     \* spec.verify.mode is not "off"
    Discoveries,  \* bound: what one walk of the tree may come across
    PassBound,    \* bound: number of passes
    CrashBound    \* bound: number of coordinator crashes

Things == {"small", "large", "dirs", "links", "temps", "orphans"}
AllOps == {"start", "pause", "resume", "cancel", "trigger", "delete",
           "retry", "drop", "park", "agents"}

ASSUME LifecycleAssumption ==
    /\ Ops \subseteq AllOps
    /\ Schedule \in {"auto", "manual"}
    /\ MaxPasses \in Nat \ {0}
    /\ ConvergeWhen \in BOOLEAN /\ DryRun \in BOOLEAN /\ VerifyOn \in BOOLEAN
    /\ Discoveries \subseteq SUBSET Things
    /\ PassBound \in Nat \ {0} /\ CrashBound \in Nat
    /\ "tick" \notin Calls

VARIABLES
    job,          \* jobs.state
    passes,       \* passes.state by pass_no
    rows,         \* shards.state by pass_no and task; "none" before, "gone" after
    found,        \* what the pass's journal and counters hold
    schedulable,  \* agents that are enabled and connected
    retried,      \* Controller.parkedAutoRetried
    thr,          \* the goroutines
    crashes,      \* number of coordinator crashes so far
    overtaken     \* passes a tick took for drained before their first rows were there

store == <<job, passes, rows, found>>
fleet == <<schedulable, crashes, overtaken>>
vars  == <<store, fleet, retried, thr>>

PassNos == 1..PassBound
NoAgent == "any"
Root    == <<"dir", NoAgent>>
Task(k) == <<k, NoAgent>>
Tasks   == ({"probe"} \X Agents)
             \cup ({"dir", "reclaim", "dirfix", "linkfix", "verify", "delete"} \X {NoAgent})

JobStates  == {"READY", "RUNNING", "PAUSED", "COMPLETED", "CANCELLED"}
PassStates == {"PROBING", "SCANNING", "DIRFIX", "LINKFIX", "VERIFY", "DELETE", "COMPLETE"}
RowStates  == {"none", "queued", "leased", "parked", "done", "gone"}
PCs == {"idle", "active", "prune", "counts", "autoretry", "reclaim", "seedphase", "flip",
        "decide", "seed", "create", "insert", "reopen", "checkactive", "latest",
        "run", "runseed", "pause", "cancel"}

Threads == {"tick"} \cup Calls
Idle    == [pc |-> "idle", n |-> 0, st |-> "none", who |-> {}]

TypeOK ==
    /\ job \in JobStates
    /\ passes \in Seq(PassStates) /\ Len(passes) <= PassBound
    /\ rows \in [PassNos -> [Tasks -> RowStates]]
    /\ found \in [PassNos -> SUBSET Things]
    /\ schedulable \subseteq Agents
    /\ retried \subseteq PassNos
    /\ crashes \in 0..CrashBound
    /\ overtaken \subseteq PassNos
    /\ thr \in [Threads -> [pc : PCs, n : 0..PassBound,
                            st : PassStates \cup {"none", "trigger", "delete"},
                            who : SUBSET Agents]]

(***************************************************************************)
(* Store calls                                                             *)
(***************************************************************************)
Active       == {n \in DOMAIN passes : passes[n] # "COMPLETE"}
CountOf(n, S) == {t \in Tasks : rows[n][t] \in S}

(* InsertShards: new QUEUED rows for the tasks T of pass n. *)
Inserted(n, T) ==
    [rows EXCEPT ![n] = [t \in Tasks |-> IF t \in T THEN "queued" ELSE rows[n][t]]]

(* CreatePass: UNIQUE (job_id, pass_no) refuses a number that is taken. *)
Created(n, st) == IF n \in DOMAIN passes THEN passes ELSE Append(passes, st)

(***************************************************************************)
(* Threads: t is at program counter p; step to the local state r.          *)
(***************************************************************************)
At(t, p)  == thr[t].pc = p
Become(t, r) == thr' = [thr EXCEPT ![t] = r]
Goto(t, p) == Become(t, [thr[t] EXCEPT !.pc = p])
Return(t)  == Become(t, Idle)

(***************************************************************************)
(* The tick: ListJobs, then advance() one store call at a time.            *)
(***************************************************************************)
ListJobs ==
    /\ At("tick", "idle")
    /\ job = "RUNNING"
    /\ Goto("tick", "active")
    /\ UNCHANGED <<store, fleet, retried>>

ActivePass ==
    /\ At("tick", "active")
    /\ IF Active = {}
       THEN Return("tick")
       ELSE \E n \in Active :
              /\ \A m \in Active : m <= n
              /\ Become("tick", [Idle EXCEPT !.n = n, !.st = passes[n],
                    !.pc = IF passes[n] = "PROBING" THEN "prune" ELSE "counts"])
    /\ UNCHANGED <<store, fleet, retried>>

PruneStaleProbes ==
    /\ At("tick", "prune")
    /\ LET n == thr["tick"].n IN
         rows' = [rows EXCEPT ![n] = [t \in Tasks |->
                    IF /\ t[1] = "probe" /\ t[2] \notin schedulable
                       /\ rows[n][t] \in {"queued", "leased"}
                    THEN "gone" ELSE rows[n][t]]]
    /\ Goto("tick", "counts")
    /\ UNCHANGED <<job, passes, found, fleet, retried>>

(* What holds the pass where it is: work in flight, or parked work. *)
IgnoreParked(n) == CountOf(n, {"queued", "leased"})  \* mutant
IgnoreLeased(n) ==  \* mutant
    CountOf(n, {"queued", "parked"}) \cup (CountOf(n, {"leased"}) \ {Root})
Holding(n) == CountOf(n, {"queued", "leased", "parked"})

(* parkedAutoRetried[pass.ID] = true *)
MarkForgotten(n) == retried  \* mutant
MarkRetried(n) == retried \cup {n}

(* advance() up to its phase switch.  Nothing in it tells a drained pass   *)
(* from one whose first shards are not inserted yet.                       *)
Unseeded(n) == Tasks = CountOf(n, {"none"})

ShardStateCounts ==
    /\ At("tick", "counts")
    /\ LET n  == thr["tick"].n
           st == thr["tick"].st
       IN  \/ /\ Holding(n) # {}
              /\ \/ CountOf(n, {"queued", "leased"}) # {}
                 \/ n \in retried
              /\ Return("tick")
              /\ UNCHANGED <<retried, overtaken>>
           \/ /\ Holding(n) # {}
              /\ CountOf(n, {"queued", "leased"}) = {}
              /\ n \notin retried
              /\ retried' = MarkRetried(n)
              /\ Goto("tick", "autoretry")
              /\ UNCHANGED overtaken
           \/ /\ Holding(n) = {}
              /\ Goto("tick", CASE st = "SCANNING" -> "reclaim"
                                [] st \in {"VERIFY", "DELETE"} -> "flip"
                                [] OTHER -> "seedphase")
              /\ overtaken' = overtaken \cup (IF Unseeded(n) THEN {n} ELSE {})
              /\ UNCHANGED retried
    /\ UNCHANGED <<store, schedulable, crashes>>

RetriedRows == [n \in PassNos |-> [t \in Tasks |->
                  IF rows[n][t] = "parked" THEN "queued" ELSE rows[n][t]]]

AutoRetry ==
    /\ At("tick", "autoretry")
    /\ rows' = RetriedRows
    /\ Return("tick")
    /\ UNCHANGED <<job, passes, found, fleet, retried>>

seedTempReclaim ==
    /\ At("tick", "reclaim")
    /\ LET n == thr["tick"].n IN
         rows' = Inserted(n, IF "temps" \in found[n] THEN {Task("reclaim")} ELSE {})
    /\ Goto("tick", "seedphase")
    /\ UNCHANGED <<job, passes, found, fleet, retried>>

(* The next phase's shards, read from the journal or the link registry. *)
Copied(n) == found[n] \cap {"small", "large"} # {}


PhaseSeed(n, st) ==
    CASE st = "PROBING"  -> {Root}
      [] st = "SCANNING" -> IF "dirs" \in found[n] THEN {Task("dirfix")} ELSE {}
      [] st = "DIRFIX"   -> IF "links" \in found[n] THEN {Task("linkfix")} ELSE {}
      [] st = "LINKFIX"  -> IF VerifyOn /\ Copied(n) THEN {Task("verify")} ELSE {}

SeedPhase ==
    /\ At("tick", "seedphase")
    /\ rows' = Inserted(thr["tick"].n, PhaseSeed(thr["tick"].n, thr["tick"].st))
    /\ Goto("tick", "flip")
    /\ UNCHANGED <<job, passes, found, fleet, retried>>

VerifyToPending(st) ==  \* mutant
    CASE st = "PROBING"  -> "SCANNING"
      [] st = "SCANNING" -> "DIRFIX"
      [] st = "DIRFIX"   -> "LINKFIX"
      [] st = "LINKFIX"  -> "VERIFY"
      [] OTHER           -> "PENDING"

NextPhase(st) ==
    CASE st = "PROBING"  -> "SCANNING"
      [] st = "SCANNING" -> "DIRFIX"
      [] st = "DIRFIX"   -> "LINKFIX"
      [] st = "LINKFIX"  -> "VERIFY"
      [] OTHER           -> "COMPLETE"

SetPassState ==
    /\ At("tick", "flip")
    /\ LET n == thr["tick"].n
           st == NextPhase(thr["tick"].st)
       IN  /\ passes' = [passes EXCEPT ![n] = st]
           /\ IF st = "COMPLETE" THEN Goto("tick", "decide") ELSE Return("tick")
    /\ UNCHANGED <<job, rows, found, fleet, retried>>

(* decideNextPass, and the unconditional end of a delete pass. *)
converged(n) ==
    \/ ~Copied(n)
    \/ ConvergeWhen /\ "large" \notin found[n]

maxPasses == IF DryRun THEN 1 ELSE MaxPasses

Done(n) == converged(n) \/ n >= maxPasses

decideNextPass ==
    /\ At("tick", "decide")
    /\ LET n == thr["tick"].n IN
         \/ /\ thr["tick"].st = "DELETE" \/ Done(n)
            /\ job' = "COMPLETED"
            /\ Return("tick")
         \/ /\ thr["tick"].st # "DELETE" /\ ~Done(n) /\ Schedule = "manual"
            /\ Return("tick")
            /\ UNCHANGED job
         \/ /\ thr["tick"].st # "DELETE" /\ ~Done(n) /\ Schedule # "manual"
            /\ n < PassBound
            /\ Become("tick", [Idle EXCEPT !.pc = "seed", !.n = n + 1])
            /\ UNCHANGED job
    /\ UNCHANGED <<passes, rows, found, fleet, retried>>

Tick == \/ ListJobs \/ ActivePass \/ PruneStaleProbes \/ ShardStateCounts \/ AutoRetry
        \/ seedTempReclaim \/ SeedPhase \/ SetPassState \/ decideNextPass

(***************************************************************************)
(* seedPass and seedDeletePass, on the tick or on an API thread.           *)
(***************************************************************************)
SchedulableAgents(t) ==
    /\ At(t, "seed")
    /\ Become(t, [thr[t] EXCEPT !.pc = "create", !.who = schedulable,
                 !.st = IF schedulable = {} THEN "SCANNING" ELSE "PROBING"])
    /\ UNCHANGED <<store, fleet, retried>>

CreatePass(t) ==
    /\ At(t, "create")
    /\ passes' = Created(thr[t].n, thr[t].st)
    /\ IF passes' # passes THEN Become(t, [thr[t] EXCEPT !.pc = "insert", !.n = Len(passes')])
                           ELSE Return(t)
    /\ UNCHANGED <<job, rows, found, fleet, retried>>

InsertFirst(t) ==
    /\ At(t, "insert")
    /\ rows' = Inserted(thr[t].n, CASE thr[t].st = "PROBING"  -> {"probe"} \X thr[t].who
                                    [] thr[t].st = "SCANNING" -> {Root}
                                    [] thr[t].st = "DELETE"   -> {Task("delete")})
    /\ IF thr[t].st = "DELETE" THEN Goto(t, "reopen") ELSE Return(t)
    /\ UNCHANGED <<job, passes, found, fleet, retried>>

SeedStep(t) == SchedulableAgents(t) \/ CreatePass(t) \/ InsertFirst(t)

(***************************************************************************)
(* API requests: the read that admits the request, then its writes.        *)
(***************************************************************************)
Request(c) ==
    /\ At(c, "idle")
    /\ \/ /\ "start" \in Ops /\ job = "READY"
          /\ Become(c, [Idle EXCEPT !.pc = "runseed", !.n = 1])
       \/ /\ ("resume" \in Ops \/ "start" \in Ops) /\ job = "PAUSED"
          /\ Goto(c, "run")
       \/ /\ "pause" \in Ops /\ job = "RUNNING"
          /\ Goto(c, "pause")
       \/ /\ "cancel" \in Ops
          /\ Goto(c, "cancel")
       \/ \E op \in {"trigger", "delete"} \cap Ops :
            /\ job \in {"RUNNING", "COMPLETED"}
            /\ Become(c, [Idle EXCEPT !.pc = "checkactive", !.st = op])
    /\ UNCHANGED <<store, fleet, retried>>

CheckActive(c) ==
    /\ At(c, "checkactive")
    /\ IF Active = {} THEN Goto(c, "latest") ELSE Return(c)
    /\ UNCHANGED <<store, fleet, retried>>

HasOrphans(n) == n \in DOMAIN passes /\ "orphans" \in found[n]

LatestPass(c) ==
    /\ At(c, "latest")
    /\ LET n == Len(passes) IN
         IF n = PassBound \/ (thr[c].st = "delete" /\ ~HasOrphans(n))
         THEN Return(c)
         ELSE Become(c, IF thr[c].st = "delete"
                        THEN [Idle EXCEPT !.pc = "create", !.n = n + 1, !.st = "DELETE"]
                        ELSE [Idle EXCEPT !.pc = "runseed", !.n = n + 1])
    /\ UNCHANGED <<store, fleet, retried>>

SetJobState(c) ==
    /\ \/ /\ At(c, "runseed")
          /\ job' = "RUNNING"
          /\ Goto(c, "seed")
       \/ /\ thr[c].pc \in {"run", "reopen"}
          /\ job' = "RUNNING"
          /\ Return(c)
       \/ /\ At(c, "pause")
          /\ job' = "PAUSED"
          /\ Return(c)
       \/ /\ At(c, "cancel")
          /\ job' = "CANCELLED"
          /\ Return(c)
    /\ UNCHANGED <<passes, rows, found, fleet, retried>>

CallStep(c) == CheckActive(c) \/ LatestPass(c) \/ SetJobState(c) \/ SeedStep(c)

(* Retry or drop every parked shard of the job: one store call each. *)
RetryParked ==
    /\ "retry" \in Ops
    /\ rows' = RetriedRows
    /\ UNCHANGED <<job, passes, found, fleet, retried, thr>>

DropParked ==
    /\ "drop" \in Ops
    /\ rows' = [n \in PassNos |-> [t \in Tasks |->
                  IF rows[n][t] = "parked" THEN "gone" ELSE rows[n][t]]]
    /\ UNCHANGED <<job, passes, found, fleet, retried, thr>>

(***************************************************************************)
(* The fleet, and failures.                                                *)
(***************************************************************************)
LeaseRow(n, t) ==
    /\ job = "RUNNING"
    /\ rows[n][t] = "queued"
    /\ IF t[1] = "probe" THEN t[2] \in schedulable ELSE schedulable # {}
    /\ rows' = [rows EXCEPT ![n][t] = "leased"]
    /\ UNCHANGED <<job, passes, found, fleet, retried, thr>>

FinishRow(n, t) ==
    /\ rows[n][t] = "leased"
    /\ \/ /\ rows' = [rows EXCEPT ![n][t] = "done"]
          /\ IF t = Root
             THEN \E d \in Discoveries : found' = [found EXCEPT ![n] = @ \cup d]
             ELSE UNCHANGED found
       \/ /\ "park" \in Ops
          /\ rows' = [rows EXCEPT ![n][t] = "parked"]
          /\ UNCHANGED found
    /\ UNCHANGED <<job, passes, fleet, retried, thr>>

AgentsChange ==
    /\ "agents" \in Ops
    /\ schedulable' \in SUBSET Agents
    /\ UNCHANGED <<store, crashes, overtaken, retried, thr>>

Crash ==
    /\ crashes < CrashBound
    /\ crashes' = crashes + 1
    /\ thr' = [t \in Threads |-> Idle]
    /\ retried' = {}
    /\ UNCHANGED <<store, schedulable, overtaken>>

Work == \E n \in PassNos, t \in Tasks : LeaseRow(n, t) \/ FinishRow(n, t)

Step ==
    \/ Tick \/ SeedStep("tick")
    \/ \E c \in Calls : Request(c) \/ CallStep(c)
    \/ RetryParked \/ DropParked
    \/ Work
    \/ AgentsChange \/ Crash

(* A submitted job. *)
Init ==
    /\ job = "READY"
    /\ passes = <<>>
    /\ rows = [n \in PassNos |-> [t \in Tasks |-> "none"]]
    /\ found = [n \in PassNos |-> {}]
    /\ schedulable \in SUBSET Agents
    /\ retried = {}
    /\ thr = [t \in Threads |-> Idle]
    /\ crashes = 0 /\ overtaken = {}

Spec == Init /\ [][Step]_vars

(* The ticker, the scheduler and a running request are never starved. *)
Fairness ==
    /\ WF_vars(Tick \/ SeedStep("tick"))
    /\ \A c \in Calls : WF_vars(CallStep(c))
    /\ WF_vars(Work)

FairSpec == Spec /\ Fairness

(***************************************************************************)
(* Properties                                                              *)
(***************************************************************************)

(* A job never has two passes that are not COMPLETE, whatever requests and *)
(* the controller's own next pass race: the pass number each of them read  *)
(* is only good for one CreatePass.                                        *)
OneActivePass == \A m, n \in Active : m = n

(* The root walk shard is withheld until every probe reported OK           *)
(* (seedPass): once pass n has its root shard, none of its probes is       *)
(* pending or parked, whatever crashes and requests come between.  The one *)
(* exception is a tick, or a crash and then a tick, between CreatePass and *)
(* the InsertShards that brings the probes.                                *)
RootWithheld ==
    \A n \in DOMAIN passes \ overtaken :
        rows[n][Root] # "none" =>
            \A a \in Agents : rows[n][<<"probe", a>>] \notin {"queued", "leased", "parked"}

(* A pass past SCANNING has walked its tree: advance() takes an empty      *)
(* queue for a finished walk only in that same gap, between the creation   *)
(* of a pass without agents to probe and the insertion of its root.        *)
WalkedBeforeDirfix ==
    \A n \in DOMAIN passes \ overtaken :
        passes[n] \in {"DIRFIX", "LINKFIX", "VERIFY"} => rows[n][Root] \in {"done", "gone"}


(* A COMPLETE pass has nothing in flight and nothing parked, and never     *)
(* will have, the passes of that gap excepted.                             *)
CompleteIsDrained ==
    \A n \in DOMAIN passes \ overtaken :
        passes[n] = "COMPLETE" => CountOf(n, {"queued", "leased", "parked"}) = {}

(* A COMPLETED job has no pass left open, but for the one whose delete     *)
(* request is about to reopen the job: nothing would ever advance it (tick *)
(* skips the job) and TriggerPass would refuse to start another.           *)
SettledWhenCompleted ==
    job = "COMPLETED" =>
        \/ Active = {}
        \/ \E c \in Calls : thr[c].pc \in {"insert", "reopen"} /\ Active = {thr[c].n}

(* Cancel ends the job: nothing brings a CANCELLED job back.               *)
CancelEnds == [][job = "CANCELLED" => job' = "CANCELLED"]_vars

(* A RUNNING job without an active pass, and without a thread that is      *)
(* about to give it one, waits for the operator's manual trigger.          *)
BetweenPassesDecided ==
    job = "RUNNING" /\ Active = {} /\ (\A t \in Threads : At(t, "idle"))
        => Schedule = "manual" /\ Len(passes) > 0 /\ ~Done(Len(passes))

(* A running job settles: it completes, or waits for its operator, who has *)
(* paused it, must trigger its next pass, or must look at shards that are  *)
(* parked after the controller's one automatic retry of their pass.        *)
Waits ==
    \/ job # "RUNNING"
    \/ Active = {} /\ Schedule = "manual"
    \/ \E n \in Active \cap retried : CountOf(n, {"parked"}) # {}
    \/ schedulable = {}
JobSettles == job = "RUNNING" ~> Waits
=============================================================================
