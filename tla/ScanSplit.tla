----------------------------- MODULE ScanSplit ------------------------------
(***************************************************************************)
(* One walk shard and the subtrees it hands back: the walker's budget and  *)
(* split batches (walker.c), the split window and its acks (split.c), and  *)
(* RecordSplit's (parent, seq) deduplication (store.go).                   *)
(*                                                                         *)
(* A run is one execution of the shard under one lease.  A lease may       *)
(* expire while its run goes on, so several runs can overlap, on different *)
(* agents or on one.  Each walks the entries it lists in name order,       *)
(* descends into subdirectories while its budget lasts and ships the rest, *)
(* and the sightings of hard-linked files, in batches numbered from 1.     *)
(* Runs may differ: the budget comes with the grant (WalkOverrides or the  *)
(* job's tuning), an entry may fail, and the source may have changed.      *)
(*                                                                         *)
(* Abstractions.  The subdirectories are leaves; entry lists and big files *)
(* go through the same frames and the same deduplication.  The outbox and  *)
(* the session are one queue per agent.  Journal acks are JournalAck, the  *)
(* lease protocol is ShardLease.                                           *)
(***************************************************************************)
EXTENDS Integers, Sequences, FiniteSets, SequencesExt

CONSTANTS
    Agents,
    Dirs,         \* the entries of the directory, in name order
    Files,        \* those that are files with more than one link
    Budgets,      \* budgets a grant may carry
    SplitBatch,   \* SPLIT_BATCH and LINKSIGHTING_BATCH
    SplitWindow,  \* SPLIT_WINDOW
    Faults,       \* bound: the faults of this instance
    MaxRuns       \* bound: grants of the shard

ASSUME SplitAssumption ==
    /\ Budgets \subseteq Nat /\ Budgets # {} /\ Files \subseteq Range(Dirs)
    /\ SplitBatch \in Nat \ {0} /\ SplitWindow \in Nat \ {0} /\ MaxRuns \in Nat
    /\ Faults \subseteq {"expire", "timeout", "drop", "crash", "reap", "error", "drift"}

VARIABLES
    row,       \* the shard's state
    lease,     \* the run its lease belongs to, 0 if none
    runs,      \* the runs so far
    out,       \* frames on their way from an agent
    acks,      \* seqs of SHARD_SPLIT_ACKs on their way to an agent
    checked,   \* the split an agent's session goroutine has prechecked, or None
    splits,    \* seqs recorded for the shard
    children,  \* number of shards inserted for a subdirectory
    winner,    \* the run whose result completed the shard, 0 if none
    shipped    \* the splits ever shipped: <<seq, entries>>

coord == <<row, lease, splits, children, winner>>
vars  == <<coord, runs, out, acks, checked, shipped>>

DirSet  == Range(Dirs)
MaxSeq  == Len(Dirs)
RunNos  == DOMAIN runs
Kinds   == {"dirs", "files"}     \* ctx->split and ctx->linksightings
KindOf(d) == IF d \in Files THEN "files" ELSE "dirs"
NoBatch == [k \in Kinds |-> {}]
None    == [kind |-> "none", run |-> 0, seq |-> 0, dirs |-> {}]
Split(r, q, D) == [kind |-> "split", run |-> r, seq |-> q, dirs |-> D]
Result(r, st)  == [kind |-> st, run |-> r, seq |-> 0, dirs |-> {}]
Frames  == [kind : {"none", "split", "OK", "TRANSIENT"}, run : 0..MaxRuns,
            seq : 0..MaxSeq, dirs : SUBSET DirSet]

(* What a run may list: all of Dirs, or Dirs before its first entry was    *)
(* made or after it was deleted.                                           *)
Listings == {Dirs} \cup (IF "drift" \in Faults THEN {Tail(Dirs)} ELSE {})

Run == [agent : Agents, phase : {"walk", "drain", "over"}, budget : Nat,
        list : Listings, pos : 1..(MaxSeq + 1), walked : SUBSET DirSet, skipped : SUBSET DirSet,
        batch : [Kinds -> SUBSET DirSet], seq : 1..(MaxSeq + 1), infl : Seq(1..MaxSeq),
        got : SUBSET (1..MaxSeq), fatal : BOOLEAN]

TypeOK ==
    /\ row \in {"QUEUED", "LEASED", "DONE", "GONE"}
    /\ lease \in 0..Len(runs) /\ (row = "LEASED" <=> lease # 0)
    /\ runs \in Seq(Run) /\ Len(runs) <= MaxRuns
    /\ \A r \in RunNos : Len(runs[r].infl) <= SplitWindow
    /\ out \in [Agents -> Seq(Frames)]
    /\ acks \in [Agents -> Seq(1..MaxSeq)]
    /\ checked \in [Agents -> Frames]
    /\ splits \subseteq 1..MaxSeq
    /\ children \in [DirSet \ Files -> Nat]
    /\ winner \in 0..Len(runs)
    /\ shipped \subseteq (1..MaxSeq) \X SUBSET DirSet

Init ==
    /\ row = "QUEUED" /\ lease = 0
    /\ runs = <<>>
    /\ out = [a \in Agents |-> <<>>]
    /\ acks = [a \in Agents |-> <<>>]
    /\ checked = [a \in Agents |-> None]
    /\ splits = {}
    /\ children = [d \in DirSet \ Files |-> 0]
    /\ winner = 0
    /\ shipped = {}

(***************************************************************************)
(* The agent                                                               *)
(***************************************************************************)
Going(r, phase) == r \in RunNos /\ runs[r].phase = phase
Push(a, f)      == out' = [out EXCEPT ![a] = Append(@, f)]
agentOnly       == <<coord, acks, checked>>

(* handle_entry: the budget is charged, and decides about a subdirectory;  *)
(* a file is copied here and its sighting queued.  An entry that cannot be *)
(* handled (mkdir, a path too long, no memory for the queue) is skipped.   *)
(* The shard's error counter shows it, except for a failed strdup.         *)
Charged(r) == IF runs[r].budget > 0 THEN runs[r].budget - 1 ELSE 0

WalkEntry(r) ==
    /\ Going(r, "walk")
    /\ runs[r].pos <= Len(runs[r].list) /\ ~runs[r].fatal
    /\ \A k \in Kinds : Cardinality(runs[r].batch[k]) < SplitBatch
    /\ LET d    == runs[r].list[runs[r].pos]
           next == [runs[r] EXCEPT !.budget = Charged(r), !.pos = @ + 1]
       IN \/ /\ d \notin Files /\ Charged(r) > 0
             /\ runs' = [runs EXCEPT ![r] = [next EXCEPT !.walked = @ \cup {d}]]
          \/ /\ d \in Files \/ Charged(r) = 0
             /\ runs' = [runs EXCEPT ![r] = [next EXCEPT !.batch[KindOf(d)] = @ \cup {d}]]
          \/ /\ "error" \in Faults
             /\ runs' = [runs EXCEPT ![r] = [next EXCEPT !.skipped = @ \cup {d}]]
    /\ UNCHANGED <<agentOnly, out, shipped>>

(* flush_splits, flush_linksightings and ship_split: when the batch is     *)
(* full, or at the end, where the subdirectories go first.                 *)
WalkOver(r)  == runs[r].pos > Len(runs[r].list) \/ runs[r].fatal
Full(r, k)   == Cardinality(runs[r].batch[k]) >= SplitBatch
FlushDue(r)  == (\E k \in Kinds : Full(r, k)) \/ (WalkOver(r) /\ runs[r].batch # NoBatch)
FlushKind(r) == IF \E k \in Kinds : Full(r, k) THEN CHOOSE k \in Kinds : Full(r, k)
                ELSE IF runs[r].batch["dirs"] # {} THEN "dirs" ELSE "files"
Window(r)    == Len(runs[r].infl)

ship_unbounded(r) ==  \* mutant
    /\ Going(r, "walk")
    /\ FlushDue(r)
    /\ Push(runs[r].agent, Split(r, runs[r].seq, runs[r].batch[FlushKind(r)]))
    /\ shipped' = shipped \cup {<<runs[r].seq, runs[r].batch[FlushKind(r)]>>}
    /\ runs' = [runs EXCEPT ![r].infl = Append(@, runs[r].seq), ![r].seq = @ + 1,
                            ![r].batch[FlushKind(r)] = {}]
    /\ UNCHANGED agentOnly

ship_split(r) ==
    /\ Going(r, "walk")
    /\ FlushDue(r)
    /\ Window(r) < SplitWindow
    /\ Push(runs[r].agent, Split(r, runs[r].seq, runs[r].batch[FlushKind(r)]))
    /\ shipped' = shipped \cup {<<runs[r].seq, runs[r].batch[FlushKind(r)]>>}
    /\ runs' = [runs EXCEPT ![r].infl = Append(@, runs[r].seq), ![r].seq = @ + 1,
                            ![r].batch[FlushKind(r)] = {}]
    /\ UNCHANGED agentOnly

StartDrain(r) ==
    /\ Going(r, "walk")
    /\ WalkOver(r) /\ runs[r].batch = NoBatch
    /\ runs' = [runs EXCEPT ![r].phase = "drain"]
    /\ UNCHANGED <<agentOnly, out, shipped>>

(* await_split of the oldest ack: for room in the window, or to drain. *)
MustAwait(r) ==
    /\ runs[r].infl # <<>>
    /\ \/ Going(r, "drain")
       \/ Going(r, "walk") /\ FlushDue(r) /\ Window(r) = SplitWindow

await_split(r) ==
    /\ r \in RunNos /\ MustAwait(r)
    /\ \/ /\ Head(runs[r].infl) \in runs[r].got
          /\ runs' = [runs EXCEPT ![r].infl = Tail(@)]
       \/ /\ "timeout" \in Faults
          /\ Head(runs[r].infl) \notin runs[r].got
          /\ runs' = [runs EXCEPT ![r].infl = Tail(@), ![r].fatal = TRUE]
    /\ UNCHANGED <<agentOnly, out, shipped>>

(* split_resolve posts the newest waiter with that (parent, seq). *)
Waiters(a, q) == {r \in RunNos : runs[r].agent = a /\ q \in Range(runs[r].infl)}

split_resolve(a) ==
    /\ acks[a] # <<>>
    /\ acks' = [acks EXCEPT ![a] = Tail(@)]
    /\ LET W == Waiters(a, Head(acks[a])) IN
         \/ W = {} /\ UNCHANGED runs
         \/ \E r \in W : /\ \A w \in W : w <= r
                         /\ runs' = [runs EXCEPT ![r].got = @ \cup {Head(acks[a])}]
    /\ UNCHANGED <<coord, out, checked, shipped>>

(* The result, once every split is acked (drain_splits). *)
ReportAlwaysOK(r) ==  \* mutant
    /\ Going(r, "drain")
    /\ runs[r].infl = <<>>
    /\ Push(runs[r].agent, Result(r, "OK"))
    /\ runs' = [runs EXCEPT ![r].phase = "over"]
    /\ UNCHANGED <<agentOnly, shipped>>

ReportResult(r) ==
    /\ Going(r, "drain")
    /\ runs[r].infl = <<>>
    /\ Push(runs[r].agent, Result(r, IF runs[r].fatal THEN "TRANSIENT" ELSE "OK"))
    /\ runs' = [runs EXCEPT ![r].phase = "over"]
    /\ UNCHANGED <<agentOnly, shipped>>

AgentStep ==
    \/ \E r \in RunNos : \/ WalkEntry(r) \/ ship_split(r) \/ StartDrain(r)
                         \/ await_split(r) \/ ReportResult(r)
    \/ \E a \in Agents : split_resolve(a)

(***************************************************************************)
(* The coordinator: one goroutine per session handles its frames in order. *)
(***************************************************************************)
Grant(a, b, l) ==
    /\ row = "QUEUED" /\ Len(runs) < MaxRuns
    /\ row' = "LEASED"
    /\ lease' = Len(runs) + 1
    /\ runs' = Append(runs, [agent |-> a, phase |-> "walk", budget |-> b, list |-> l,
                             pos |-> 1, walked |-> {}, skipped |-> {},
                             batch |-> NoBatch, seq |-> 1, infl |-> <<>>, got |-> {},
                             fatal |-> FALSE])
    /\ UNCHANGED <<splits, children, winner, out, acks, checked, shipped>>

Idle(a)    == checked[a] = None
Next1(a)   == Head(out[a])
Frame(a, kinds) == Idle(a) /\ out[a] # <<>> /\ Next1(a).kind \in kinds
Consume(a) == out' = [out EXCEPT ![a] = Tail(@)]
Ack(a, q)  == acks' = [acks EXCEPT ![a] = Append(@, q)]

(* RecordSplit's two reads, outside the write lock. *)
PreCheck(a) ==
    /\ Frame(a, {"split"})
    /\ \/ /\ Next1(a).seq \in splits \/ row = "GONE"
          /\ Consume(a)
          /\ Ack(a, Next1(a).seq)
          /\ UNCHANGED checked
       \/ /\ Next1(a).seq \notin splits /\ row # "GONE"
          /\ checked' = [checked EXCEPT ![a] = Next1(a)]
          /\ UNCHANGED <<out, acks>>
    /\ UNCHANGED <<coord, runs, shipped>>

(* Its transaction: the children, and the (parent, seq) row that refuses a *)
(* second copy.                                                            *)
Conflict(q) == q \in splits
Inserted(D) == [d \in DirSet \ Files |-> IF d \in D THEN children[d] + 1 ELSE children[d]]

RecordUnnumbered(a) ==  \* mutant
    /\ ~Idle(a)
    /\ children' = Inserted(checked[a].dirs)
    /\ checked' = [checked EXCEPT ![a] = None]
    /\ Consume(a)
    /\ Ack(a, checked[a].seq)
    /\ UNCHANGED <<row, lease, winner, splits, runs, shipped>>

RecordSplit(a) ==
    /\ ~Idle(a)
    /\ ~Conflict(checked[a].seq)
    /\ children' = Inserted(checked[a].dirs)
    /\ splits' = splits \cup {checked[a].seq}
    /\ checked' = [checked EXCEPT ![a] = None]
    /\ Consume(a)
    /\ Ack(a, checked[a].seq)
    /\ UNCHANGED <<row, lease, winner, runs, shipped>>

(* The session ends: frames already written, the first k, are lost. *)
Hangup(a, k) ==
    /\ out' = [out EXCEPT ![a] = SubSeq(@, k + 1, Len(@))]
    /\ acks' = [acks EXCEPT ![a] = <<>>]
    /\ checked' = [checked EXCEPT ![a] = None]

RecordConflict(a) ==
    /\ ~Idle(a)
    /\ Conflict(checked[a].seq)
    /\ \E k \in 1..Len(out[a]) : Hangup(a, k)
    /\ UNCHANGED <<coord, runs, shipped>>

onShardResult(a) ==
    /\ Frame(a, {"OK", "TRANSIENT"})
    /\ LET f == Next1(a) IN
         \/ /\ f.run = lease /\ row = "LEASED"
            /\ row' = IF f.kind = "OK" THEN "DONE" ELSE "QUEUED"
            /\ winner' = IF f.kind = "OK" THEN f.run ELSE 0
            /\ lease' = 0
            /\ Consume(a)
            /\ UNCHANGED <<acks, checked>>
         \/ /\ ~(f.run = lease /\ row = "LEASED")
            /\ ~(f.kind = "OK" /\ row = "GONE")
            /\ Consume(a)
            /\ UNCHANGED <<row, lease, winner, acks, checked>>
         \/ /\ f.kind = "OK" /\ row = "GONE"
            /\ \E k \in 1..Len(out[a]) : Hangup(a, k)
            /\ UNCHANGED <<row, lease, winner>>
    /\ UNCHANGED <<splits, children, runs, shipped>>

(* The eager reap deletes the DONE row and its splits rows. *)
ReapDoneShards ==
    /\ "reap" \in Faults
    /\ row = "DONE"
    /\ row' = "GONE"
    /\ splits' = {}
    /\ UNCHANGED <<lease, winner, children, runs, out, acks, checked, shipped>>

CoordinatorStep ==
    \/ \E a \in Agents : \/ \E b \in Budgets, l \in Listings : Grant(a, b, l)
                         \/ PreCheck(a) \/ RecordSplit(a) \/ RecordConflict(a)
                         \/ onShardResult(a)
    \/ ReapDoneShards

(***************************************************************************)
(* Faults                                                                  *)
(***************************************************************************)
ExpireLease ==
    /\ "expire" \in Faults
    /\ row = "LEASED"
    /\ row' = "QUEUED"
    /\ lease' = 0
    /\ UNCHANGED <<splits, children, winner, runs, out, acks, checked, shipped>>

SessionDrop(a) ==
    /\ "drop" \in Faults
    /\ \E k \in 0..Len(out[a]) : Hangup(a, k)
    /\ UNCHANGED <<coord, runs, shipped>>

AgentCrash(a) ==
    /\ "crash" \in Faults
    /\ runs' = [r \in RunNos |-> IF runs[r].agent = a
                                 THEN [runs[r] EXCEPT !.phase = "over", !.infl = <<>>]
                                 ELSE runs[r]]
    /\ Hangup(a, Len(out[a]))
    /\ UNCHANGED <<coord, shipped>>

Fault == ExpireLease \/ \E a \in Agents : SessionDrop(a) \/ AgentCrash(a)

Next == AgentStep \/ CoordinatorStep \/ Fault

Spec == Init /\ [][Next]_vars

(***************************************************************************)
(* Properties                                                              *)
(***************************************************************************)

(* Two runs shipped different entries under one number: they had different *)
(* budgets, or an entry failed in one of them, or the source had changed.  *)
Renumbered == \E x, y \in shipped : x[1] = y[1] /\ x[2] # y[2]

(* The ordering invariant, "no lost work": once the shard is complete,     *)
(* every subdirectory the run that completed it listed was walked by that  *)
(* run, or skipped by it on an error, or has a shard of its own in the     *)
(* queue, whatever other runs did and whichever of the two shipped it.     *)
(* This needs the runs to number alike: RecordSplit takes the second split *)
(* of a number for a copy of the first.                                    *)
NoLostSubtree ==
    row \in {"DONE", "GONE"} /\ ~Renumbered =>
        LET run == runs[winner] IN
        \A d \in Range(run.list) \ Files : d \in run.walked \cup run.skipped \/ children[d] > 0

(* "RecordSplit persists a ShardSplit idempotently": however often a split *)
(* is sent, by however many runs that number alike, each subtree is queued *)
(* once.  The reap of a DONE parent forgets its numbers, so this is said   *)
(* while the row is there; QueuedOnceEver says it for good, and the code   *)
(* does not keep it.                                                       *)
QueuedOnceEver == ~Renumbered => \A d \in DirSet \ Files : children[d] <= 1
QueuedOnce     == row # "GONE" => QueuedOnceEver

(* RecordSplit's unlocked precheck: a second copy of a (parent, seq) is    *)
(* only read after the first has been recorded.                            *)
OneCheckedCopy ==
    \A a, b \in Agents : a # b /\ ~Idle(a) /\ ~Idle(b) => checked[a].seq # checked[b].seq
=============================================================================
