----------------------------- MODULE JournalAck -----------------------------
(***************************************************************************)
(* From a journal record to a DONE shard: the agent's journal buffer and   *)
(* its wait for the ack (jrn.c), the writer thread's outbox (main.c,       *)
(* state.c), the session, the coordinator's segment files (journal.go) and *)
(* the flusher that fsyncs and acks a high-water mark (agentsrv).          *)
(*                                                                         *)
(* One agent.  A run of a shard makes any number of batches: its buffer is *)
(* flushed whenever it holds JRN_FLUSH_RAW bytes, and at the end.  A       *)
(* segment is a sequence of entries, of which the first synced[i] survive  *)
(* a crash of the machine; an entry is a batch, or Torn: a header whose    *)
(* envelope was never (completely) written.                                *)
(***************************************************************************)
EXTENDS Integers, Sequences, FiniteSets, FiniteSetsExt, Functions

CONSTANTS
    Shards,        \* shards the agent runs
    WorkerCounts,  \* the values cfg.workers may have
    SegMax,        \* segmentMaxBytes, in batches
    Faults,        \* bound: the faults of this instance
    MaxSeq         \* bound: batches sent

ASSUME JournalAssumption ==
    /\ WorkerCounts \subseteq Nat \ {0} /\ SegMax \in Nat \ {0} /\ MaxSeq \in Nat
    /\ Faults \subseteq {"timeout", "drop", "kill", "torn", "power", "syncfail"}

VARIABLES
    workers,  \* cfg.workers, the number of worker threads
    task,     \* where each shard is
    made,     \* the batches of its current run
    gSeq,     \* g_seq: last assigned batch seq
    gAcked,   \* g_acked: high-water from JournalAck
    outbox,   \* frames waiting for the writer thread
    wire,     \* frames written to the session, not yet dispatched
    acks,     \* JournalAcks on their way to the agent
    disk,     \* segment files
    synced,   \* how much of each has been fsynced
    open,     \* index of the Writer's open segment, 0 if none
    pending,  \* ac.jrnPending
    acked,    \* ac.jrnAcked
    flusher,  \* the seq flushAndAck took before its fsync, 0 if idle
    adrift    \* batches that lost their place in the order of the acks

agentVars == <<workers, task, made, gSeq, gAcked>>
netVars   == <<outbox, wire, acks>>
fileVars  == <<disk, synced, open>>
ackVars   == <<pending, acked, flusher, adrift>>
vars      == <<agentVars, netVars, fileVars, ackVars>>

Torn == [shard |-> "torn", seq |-> 0]
Batch(s, q) == [shard |-> s, seq |-> q]
Entries == [shard : Shards, seq : 1..MaxSeq] \cup {Torn}
Result(s) == [shard |-> s, seq |-> 0]     \* a SHARD_RESULT frame: seq 0

TypeOK ==
    /\ workers \in WorkerCounts
    /\ task \in [Shards -> {"todo", "run", "push", "wait", "sent", "done"}]
    /\ made \in [Shards -> SUBSET (1..MaxSeq)]
    /\ gSeq \in 0..MaxSeq /\ gAcked \in 0..MaxSeq
    /\ \A f \in Range(outbox) \cup Range(wire) : f \in [shard : Shards, seq : 0..MaxSeq]
    /\ acks \in Seq(1..MaxSeq)
    /\ disk \in Seq(Seq(Entries)) /\ Len(synced) = Len(disk)
    /\ \A i \in DOMAIN disk : synced[i] \in 0..Len(disk[i])
    /\ open \in 0..Len(disk)
    /\ {pending, acked, flusher} \subseteq 0..MaxSeq
    /\ adrift \subseteq 1..MaxSeq

Init ==
    /\ workers \in WorkerCounts
    /\ task = [s \in Shards |-> "todo"]
    /\ made = [s \in Shards |-> {}]
    /\ gSeq = 0 /\ gAcked = 0
    /\ outbox = <<>> /\ wire = <<>> /\ acks = <<>>
    /\ disk = <<>> /\ synced = <<>> /\ open = 0
    /\ pending = 0 /\ acked = 0 /\ flusher = 0 /\ adrift = {}

(***************************************************************************)
(* The agent                                                               *)
(***************************************************************************)
Busy == {s \in Shards : task[s] \in {"run", "push", "wait"}}

StartShard(s) ==
    /\ task[s] = "todo"
    /\ Cardinality(Busy) < workers
    /\ task' = [task EXCEPT ![s] = "run"]
    /\ made' = [made EXCEPT ![s] = {}]
    /\ UNCHANGED <<workers, gSeq, gAcked, netVars, fileVars, ackVars>>

(* flush_locked takes the next seq; the frame is pushed a step later, and  *)
(* only the lock of the shard's own buffer is held in between.             *)
TakeSeq(s) ==
    /\ task[s] = "run"
    /\ gSeq < MaxSeq
    /\ gSeq' = gSeq + 1
    /\ made' = [made EXCEPT ![s] = @ \cup {gSeq + 1}]
    /\ task' = [task EXCEPT ![s] = "push"]
    /\ UNCHANGED <<workers, gAcked, netVars, fileVars, ackVars>>

max_seq(s) == Max(made[s] \cup {0})

(* A batch numbered before this one and not pushed yet comes after it. *)
Overtaken(s) == {max_seq(t) : t \in {u \in Shards : task[u] = "push" /\ max_seq(u) < max_seq(s)}}

PushBatch(s) ==
    /\ task[s] = "push"
    /\ outbox' = Append(outbox, Batch(s, max_seq(s)))
    /\ adrift' = adrift \cup Overtaken(s)
    /\ task' = [task EXCEPT ![s] = "run"]
    /\ UNCHANGED <<workers, made, gSeq, gAcked, wire, acks, fileVars, pending, acked, flusher>>

(* The work is over and the last records are flushed. *)
jrn_flush(s) ==
    /\ task[s] = "run"
    /\ task' = [task EXCEPT ![s] = "wait"]
    /\ UNCHANGED <<workers, made, gSeq, gAcked, netVars, fileVars, ackVars>>

(* jrn_wait_acked: until the high-water mark covers the run's last batch. *)
Acked(s) == gAcked >= max_seq(s)

ReportResult(s) ==
    /\ task[s] = "wait"
    /\ Acked(s)
    /\ outbox' = Append(outbox, Result(s))
    /\ task' = [task EXCEPT ![s] = "sent"]
    /\ UNCHANGED <<workers, made, gSeq, gAcked, wire, acks, fileVars, ackVars>>

(* JRN_ACK_TIMEOUT_S: the shard reports TRANSIENT and is run again. *)
AckTimeout(s) ==
    /\ "timeout" \in Faults
    /\ task[s] = "wait" /\ ~Acked(s)
    /\ task' = [task EXCEPT ![s] = "todo"]
    /\ UNCHANGED <<workers, made, gSeq, gAcked, netVars, fileVars, ackVars>>

WriteFrame ==
    /\ outbox # <<>>
    /\ wire' = Append(wire, Head(outbox))
    /\ outbox' = Tail(outbox)
    /\ UNCHANGED <<agentVars, acks, fileVars, ackVars>>

jrn_ack_update ==
    /\ acks # <<>>
    /\ gAcked' = IF Head(acks) > gAcked THEN Head(acks) ELSE gAcked
    /\ acks' = Tail(acks)
    /\ UNCHANGED <<workers, task, made, gSeq, outbox, wire, fileVars, ackVars>>

AgentStep ==
    \/ \E s \in Shards : \/ StartShard(s) \/ TakeSeq(s) \/ PushBatch(s)
                         \/ jrn_flush(s) \/ ReportResult(s) \/ AckTimeout(s)
    \/ WriteFrame \/ jrn_ack_update

(***************************************************************************)
(* The coordinator                                                         *)
(***************************************************************************)

(* Writer.Append picks the segment: the open one, the next one when that   *)
(* is full, segment 0 when none is open (first batch, or after a restart). *)
Rotates    == open # 0 /\ Len(disk[open]) >= SegMax
SkipIndex  == IF open = 0 THEN 1 ELSE IF Rotates THEN open + 2 ELSE open  \* mutant
SegmentFor == IF open = 0 THEN 1 ELSE IF Rotates THEN open + 1 ELSE open

Grown(i)       == IF i > Len(disk) THEN Append(disk, <<>>) ELSE disk
GrownSynced(i) == IF i > Len(disk) THEN Append(synced, 0) ELSE synced

(* Rotation syncs the segment it closes and ignores the error: what was    *)
(* not synced before is then left behind.                                  *)
RotateOutcomes == IF Rotates /\ "syncfail" \in Faults THEN BOOLEAN ELSE {TRUE}

SyncedAfter(ok) ==
    LET grown == GrownSynced(SegmentFor)
    IN  IF Rotates /\ ok THEN [grown EXCEPT ![open] = Len(disk[open])] ELSE grown

LeftBehind(ok) ==
    IF ok THEN {} ELSE {disk[open][j].seq : j \in (synced[open] + 1)..Len(disk[open])} \ {0}

AppendEntry(e, ok) ==
    /\ disk' = [Grown(SegmentFor) EXCEPT ![SegmentFor] = Append(@, e)]
    /\ synced' = SyncedAfter(ok)

onJournalBatch ==
    /\ wire # <<>> /\ Head(wire).seq > 0
    /\ \E ok \in RotateOutcomes :
         /\ AppendEntry(Head(wire), ok)
         /\ adrift' = adrift \cup LeftBehind(ok)
    /\ open' = SegmentFor
    /\ pending' = IF Head(wire).seq > pending THEN Head(wire).seq ELSE pending
    /\ wire' = Tail(wire)
    /\ UNCHANGED <<agentVars, outbox, acks, acked, flusher>>

(* The lease is alive: the agent renews it from the first grant to the     *)
(* result, across sessions.                                                *)
onShardResult ==
    /\ wire # <<>> /\ Head(wire).seq = 0
    /\ task' = [task EXCEPT ![Head(wire).shard] = "done"]
    /\ wire' = Tail(wire)
    /\ UNCHANGED <<workers, made, gSeq, gAcked, outbox, acks, fileVars, ackVars>>

(* A result that was lost: the lease is no longer renewed and expires. *)
LeaseExpires(s) ==
    /\ task[s] = "sent"
    /\ Result(s) \notin Range(outbox) \cup Range(wire)
    /\ task' = [task EXCEPT ![s] = "todo"]
    /\ UNCHANGED <<workers, made, gSeq, gAcked, netVars, fileVars, ackVars>>

(* flushAndAck: take the high-water mark, fsync, then ack it. *)
Snapshot ==
    /\ flusher = 0 /\ pending > acked
    /\ flusher' = pending
    /\ UNCHANGED <<agentVars, netVars, fileVars, pending, acked, adrift>>

Flushed == IF open = 0 THEN synced ELSE [synced EXCEPT ![open] = Len(disk[open])]

flushAndAck ==
    /\ flusher # 0
    /\ synced' = Flushed
    /\ acked' = IF flusher > acked THEN flusher ELSE acked
    /\ acks' = Append(acks, flusher)
    /\ flusher' = 0
    /\ UNCHANGED <<agentVars, outbox, wire, disk, open, pending, adrift>>

(* Flush failed: every ack is withheld. *)
FlushFails ==
    /\ "syncfail" \in Faults
    /\ flusher # 0
    /\ flusher' = 0
    /\ UNCHANGED <<agentVars, netVars, fileVars, pending, acked, adrift>>

CoordinatorStep ==
    \/ onJournalBatch \/ onShardResult \/ Snapshot \/ flushAndAck \/ FlushFails
    \/ \E s \in Shards : LeaseExpires(s)

(***************************************************************************)
(* Faults                                                                  *)
(***************************************************************************)

(* The session ends: what is on the wire is lost, and the writer frees the *)
(* k frames it had drained.  A new session starts with fresh counters, so  *)
(* its acks say nothing of a batch that was neither acked nor kept.        *)
Unsent(k) == {f.seq : f \in Range(SubSeq(outbox, k + 1, Len(outbox)))}
               \cup {max_seq(s) : s \in {t \in Shards : task[t] = "push"}}

NewSession(k) ==
    /\ outbox' = SubSeq(outbox, k + 1, Len(outbox))
    /\ wire' = <<>> /\ acks' = <<>>
    /\ pending' = 0 /\ acked' = 0 /\ flusher' = 0
    /\ adrift' = adrift \cup (((gAcked + 1)..gSeq) \ Unsent(k))

SessionDrop ==
    /\ "drop" \in Faults
    /\ \E k \in 0..Len(outbox) : NewSession(k)
    /\ UNCHANGED <<agentVars, fileVars>>

(* drsyncd dies and comes back; the page cache survives. *)
CoordinatorKill ==
    /\ "kill" \in Faults
    /\ open' = 0
    /\ NewSession(0)
    /\ UNCHANGED <<agentVars, disk, synced>>

(* ... in the middle of an Append; or a write error leaves the same torn   *)
(* envelope, closes the session, and the segment stays open.               *)
TornAppend ==
    /\ "torn" \in Faults
    /\ wire # <<>> /\ Head(wire).seq > 0
    /\ \E ok \in RotateOutcomes : AppendEntry(Torn, ok)
    /\ open' \in {0, SegmentFor}
    /\ NewSession(0)
    /\ UNCHANGED agentVars

(* The machine dies: a segment keeps what was synced, and maybe more. *)
OpenEnded == {i \in DOMAIN disk : synced[i] < Len(disk[i])}

PowerLoss ==
    /\ "power" \in Faults
    /\ \E keep \in [OpenEnded -> 0..MaxSeq] :
         /\ \A i \in OpenEnded : keep[i] \in synced[i]..Len(disk[i])
         /\ LET left(i) == IF i \in OpenEnded THEN keep[i] ELSE synced[i] IN
              /\ disk' = [i \in DOMAIN disk |-> SubSeq(disk[i], 1, left(i))]
              /\ synced' = [i \in DOMAIN disk |-> left(i)]
    /\ open' = 0
    /\ NewSession(0)
    /\ UNCHANGED agentVars

Fault == SessionDrop \/ CoordinatorKill \/ TornAppend \/ PowerLoss

Next == AgentStep \/ CoordinatorStep \/ Fault

Spec == Init /\ [][Next]_vars

(***************************************************************************)
(* Properties                                                              *)
(***************************************************************************)
(* readSegment: decoding stops, or goes wrong, at the first torn envelope. *)
Readable(seg) ==
    LET torn == {i \in DOMAIN seg : seg[i] = Torn}
    IN  {seg[i] : i \in {j \in DOMAIN seg : \A t \in torn : j < t}}

Durable(q) == \E i \in DOMAIN disk : \E j \in 1..synced[i] : disk[i][j].seq = q


(* "A shard's result waits until its highest seq is acked": every batch of *)
(* a DONE shard was appended, with no exception.                           *)
DoneIsJournaled ==
    \A s \in Shards : task[s] = "done" =>
        \A q \in made[s] : \E i \in DOMAIN disk : \E e \in Range(disk[i]) : e.seq = q

(* "Never ack an un-fsynced batch": whatever the session has acked is      *)
(* behind the synced mark of its segment.                                  *)
AckedIsSynced ==
    \A i \in DOMAIN disk : \A j \in DOMAIN disk[i] :
        disk[i][j] # Torn /\ disk[i][j].seq <= acked => j <= synced[i]

(* A torn write loses the batch being written and no other: everything     *)
(* that was appended completely is read back.                              *)
OnlyTailLost ==
    \A i \in DOMAIN disk : Range(disk[i]) \ {Torn} \subseteq Readable(disk[i])
=============================================================================
