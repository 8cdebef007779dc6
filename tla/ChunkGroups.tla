---------------------------- MODULE ChunkGroups -----------------------------
(***************************************************************************)
(* One big file copied as chunk shards: the group's counters (store.go),   *)
(* the chunk executor (chunk.c), and the temp file the chunks share.       *)
(*                                                                         *)
(* A shard may be executed by several runs, since a lease can expire while *)
(* its run goes on; only the run that holds the lease may complete it.     *)
(* Files are inodes, so that a run keeps writing to the inode it opened    *)
(* after the name has moved.  Each range of an inode holds the version of  *)
(* the source it was copied from, 0 for a hole.  A version stands for a    *)
(* (size, mtime) pair: a source that changes gets a new one.               *)
(*                                                                         *)
(* Abstractions.  A range is written in one step.  Results and their       *)
(* handling are one step; a lost result is an expired lease.  Journals are *)
(* JournalAck, grants and attempts ShardLease, the phases PassLifecycle.   *)
(***************************************************************************)
EXTENDS Integers, Sequences, FiniteSets

CONSTANTS
    Scopes,     \* bound: the file's ranges, the executions, and what may happen
                \* besides copying, in each of the cases
    MaxVersion  \* bound: versions of the source

ASSUME ChunkAssumption ==
    /\ MaxVersion \in Nat \ {0}
    /\ \A s \in Scopes : /\ s.chunks \in Nat \ {0} /\ s.runs \in Nat
                         /\ s.faults \subseteq {"expire", "ioerror", "drift", "drop", "replan"}

VARIABLES
    scope,    \* the case of this behaviour
    src,      \* the source's version, 0 once it is gone
    shards,   \* the chunk shards, in order of insertion
    group,    \* the chunk_groups row
    drained,  \* the pass has left SCANNING
    runs,     \* the executions
    inodes,   \* the destination's inodes
    temp,     \* the inode the temp name is bound to, 0 if none
    file,     \* the inode the final name is bound to, 0 if none
    dropped   \* the operator dropped a shard

db   == <<scope, shards, group, drained, dropped>>
dst  == <<inodes, temp, file>>
vars == <<db, src, runs, dst>>

NChunks  == scope.chunks
MaxRuns  == scope.runs
Faults   == scope.faults
Ranges   == 1..NChunks
Versions == 1..MaxVersion
Data(c, g)  == [kind |-> "data", range |-> c, gen |-> g, state |-> "QUEUED", run |-> 0]
Finalize(g) == [kind |-> "finalize", range |-> 0, gen |-> g, state |-> "QUEUED", run |-> 0]
Reclaim     == [kind |-> "reclaim", range |-> 0, gen |-> 0, state |-> "QUEUED", run |-> 0]
Plan(g)     == [c \in Ranges |-> Data(c, g)]

Shard == [kind : {"data", "finalize", "reclaim"}, range : 0..NChunks, gen : 0..MaxVersion,
          state : {"QUEUED", "LEASED", "DONE", "PARKED", "GONE"}, run : 0..MaxRuns]
Inode == [data : [Ranges -> 0..MaxVersion], sized : BOOLEAN, times : 0..MaxVersion]
Run   == [shard : Nat, pc : {"start", "checked", "opened", "stamped", "report", "over"},
          fd : Nat, status : {"none", "OK", "ERROR", "SRC_CHANGED"}]

TypeOK ==
    /\ scope \in Scopes
    /\ src \in 0..MaxVersion
    /\ shards \in Seq(Shard)
    /\ \A i \in DOMAIN shards : shards[i].state = "LEASED" <=> shards[i].run # 0
    /\ group \in [nDone : Nat, state : {"copying", "done", "aborted"}]
    /\ drained \in BOOLEAN /\ dropped \in BOOLEAN
    /\ runs \in Seq(Run) /\ Len(runs) <= MaxRuns
    /\ \A r \in DOMAIN runs : runs[r].shard \in DOMAIN shards /\ runs[r].fd \in 0..Len(inodes)
    /\ inodes \in Seq(Inode)
    /\ temp \in 0..Len(inodes) /\ file \in 0..Len(inodes)

(* planBigFiles of the walk's first sighting. *)
Init ==
    /\ scope \in Scopes
    /\ src = 1
    /\ shards = Plan(1)
    /\ group = [nDone |-> 0, state |-> "copying"]
    /\ drained = FALSE /\ dropped = FALSE
    /\ runs = <<>>
    /\ inodes = <<>> /\ temp = 0 /\ file = 0

(***************************************************************************)
(* process_chunk                                                           *)
(***************************************************************************)
ShardOf(r)   == shards[runs[r].shard]
At(r, pc)    == r \in DOMAIN runs /\ runs[r].pc = pc
Is(r, kind)  == ShardOf(r).kind = kind
Goto(r, pc)  == [runs EXCEPT ![r].pc = pc]
Ends(r, st)  == [runs EXCEPT ![r].pc = "report", ![r].status = st]
Drifted(r)   == src # ShardOf(r).gen

(* Any I/O error ends the run with ERROR. *)
IOError(r) ==
    /\ "ioerror" \in Faults
    /\ r \in DOMAIN runs /\ runs[r].pc \in {"start", "checked", "opened", "stamped"}
    /\ runs' = Ends(r, "ERROR")
    /\ UNCHANGED <<db, src, dst>>

(* Open the source and compare its generation. *)
GenCheck(r) ==
    /\ At(r, "start") /\ ~Is(r, "reclaim")
    /\ \/ Drifted(r) /\ runs' = Ends(r, "SRC_CHANGED")
       \/ ~Drifted(r) /\ runs' = Goto(r, "checked")
    /\ UNCHANGED <<db, src, dst>>

(* A data chunk opens the temp with O_CREAT; the first one preallocates. *)
NewInode == [data |-> [c \in Ranges |-> 0], sized |-> FALSE, times |-> 0]

OpenTemp(r) ==
    /\ At(r, "checked") /\ Is(r, "data")
    /\ LET opened == IF temp = 0 THEN Append(inodes, NewInode) ELSE inodes
           i      == IF temp = 0 THEN Len(opened) ELSE temp
       IN /\ inodes' = [opened EXCEPT ![i].sized = @ \/ ShardOf(r).range = 1]
          /\ temp' = i
          /\ runs' = [runs EXCEPT ![r].pc = "opened", ![r].fd = i]
    /\ UNCHANGED <<db, src, file>>

(* copy_range: the bytes of the source as it is now. *)
Copied(x, c) == [x EXCEPT !.data[c] = src, !.sized = @ \/ c = NChunks, !.times = 0]

copy_range(r) ==
    /\ At(r, "opened") /\ Is(r, "data")
    /\ \/ /\ src # 0
          /\ inodes' = [inodes EXCEPT ![runs[r].fd] = Copied(@, ShardOf(r).range)]
          /\ runs' = Ends(r, "OK")
       \/ /\ Drifted(r)   \* the source is now shorter than the range
          /\ runs' = Ends(r, "SRC_CHANGED")
          /\ UNCHANGED inodes
    /\ UNCHANGED <<db, src, temp, file>>

(* Finalize: open the temp, stamp it, rename it. *)
MatchesGen(i, g) == i # 0 /\ inodes[i].sized /\ inodes[i].times = g

OpenFinalize(r) ==
    /\ At(r, "checked") /\ Is(r, "finalize")
    /\ \/ temp # 0 /\ runs' = [runs EXCEPT ![r].pc = "opened", ![r].fd = temp]
       \/ temp = 0 /\ runs' = Ends(r, IF MatchesGen(file, ShardOf(r).gen) THEN "OK" ELSE "ERROR")
    /\ UNCHANGED <<db, src, dst>>

apply_meta(r) ==
    /\ At(r, "opened") /\ Is(r, "finalize")
    /\ inodes' = [inodes EXCEPT ![runs[r].fd].times = ShardOf(r).gen]
    /\ runs' = Goto(r, "stamped")
    /\ UNCHANGED <<db, src, temp, file>>

Rename(r) ==
    /\ At(r, "stamped")
    /\ \/ temp # 0 /\ file' = temp /\ temp' = 0 /\ runs' = Ends(r, "OK")
       \/ temp = 0 /\ runs' = Ends(r, "ERROR") /\ UNCHANGED <<temp, file>>
    /\ UNCHANGED <<db, src, inodes>>

ReclaimTemp(r) ==
    /\ At(r, "start") /\ Is(r, "reclaim")
    /\ temp' = 0
    /\ runs' = Ends(r, "OK")
    /\ UNCHANGED <<db, src, inodes, file>>

process_chunk(r) ==
    \/ IOError(r) \/ GenCheck(r) \/ OpenTemp(r) \/ copy_range(r)
    \/ OpenFinalize(r) \/ apply_meta(r) \/ Rename(r) \/ ReclaimTemp(r)

(***************************************************************************)
(* The coordinator                                                         *)
(***************************************************************************)
Grant(i) ==
    /\ shards[i].state = "QUEUED" /\ Len(runs) < MaxRuns
    /\ shards' = [shards EXCEPT ![i].state = "LEASED", ![i].run = Len(runs) + 1]
    /\ runs' = Append(runs, [shard |-> i, pc |-> "start", fd |-> 0, status |-> "none"])
    /\ UNCHANGED <<scope, group, drained, dropped, src, dst>>

Reports(r, st) == At(r, "report") /\ runs[r].status = st
HoldsLease(r)  == ShardOf(r).state = "LEASED" /\ ShardOf(r).run = r
Settled(r, st) == [shards EXCEPT ![runs[r].shard].state = st, ![runs[r].shard].run = 0]
Handled(r)     == runs' = Goto(r, "over")

StaleResult(r) ==
    /\ At(r, "report") /\ ~HoldsLease(r)
    /\ Handled(r)
    /\ UNCHANGED <<db, src, dst>>

(* CompleteDataChunk: n_done, and the finalize shard in one transaction. *)
AllButLast(n) == n >= NChunks - 1  \* mutant
OneMore(n) == n > NChunks  \* mutant
AllLanded(n) == n >= NChunks

CompleteDataChunk(r) ==
    /\ Reports(r, "OK") /\ Is(r, "data") /\ HoldsLease(r)
    /\ LET n == group.nDone + 1 IN
         /\ group' = [group EXCEPT !.nDone = n]
         /\ shards' = IF group.state = "copying" /\ AllLanded(n)
                      THEN Append(Settled(r, "DONE"), Finalize(ShardOf(r).gen))
                      ELSE Settled(r, "DONE")
    /\ Handled(r)
    /\ UNCHANGED <<scope, drained, dropped, src, dst>>

CompleteFinalizeChunk(r) ==
    /\ Reports(r, "OK") /\ Is(r, "finalize") /\ HoldsLease(r)
    /\ group' = [group EXCEPT !.state = "done"]
    /\ shards' = Settled(r, "DONE")
    /\ Handled(r)
    /\ UNCHANGED <<scope, drained, dropped, src, dst>>

CompleteReclaim(r) ==
    /\ Reports(r, "OK") /\ Is(r, "reclaim") /\ HoldsLease(r)
    /\ shards' = Settled(r, "DONE")
    /\ Handled(r)
    /\ UNCHANGED <<scope, group, drained, dropped, src, dst>>

AbortChunkGroup(r) ==
    /\ Reports(r, "SRC_CHANGED") /\ HoldsLease(r)
    /\ group' = [group EXCEPT !.state = "aborted"]
    /\ shards' = Settled(r, "DONE")
    /\ Handled(r)
    /\ UNCHANGED <<scope, drained, dropped, src, dst>>

ParkShard(r) ==
    /\ Reports(r, "ERROR") /\ HoldsLease(r)
    /\ shards' = Settled(r, "PARKED")
    /\ Handled(r)
    /\ UNCHANGED <<scope, group, drained, dropped, src, dst>>

onShardResult(r) ==
    \/ StaleResult(r) \/ CompleteDataChunk(r) \/ CompleteFinalizeChunk(r)
    \/ CompleteReclaim(r) \/ AbortChunkGroup(r) \/ ParkShard(r)

(* advance at the end of SCANNING, and seedTempReclaim. *)
InState(st) == {i \in DOMAIN shards : shards[i].state \in st}

LeaveScanning ==
    /\ ~drained
    /\ InState({"QUEUED", "LEASED", "PARKED"}) = {}
    /\ drained' = TRUE
    /\ shards' = IF group.state = "done" THEN shards ELSE Append(shards, Reclaim)
    /\ UNCHANGED <<scope, group, dropped, src, runs, dst>>

RetryParked(i) ==
    /\ shards[i].state = "PARKED"
    /\ shards' = [shards EXCEPT ![i].state = "QUEUED"]
    /\ UNCHANGED <<scope, group, drained, dropped, src, runs, dst>>

DropParked(i) ==
    /\ "drop" \in Faults
    /\ shards[i].state = "PARKED"
    /\ shards' = [shards EXCEPT ![i].state = "GONE"]
    /\ dropped' = TRUE
    /\ UNCHANGED <<scope, group, drained, src, runs, dst>>

ExpireKeepsRun(i) ==  \* mutant
    /\ "expire" \in Faults
    /\ shards[i].state = "LEASED"
    /\ shards' = [shards EXCEPT ![i].state = "QUEUED"]
    /\ UNCHANGED <<scope, group, drained, dropped, src, runs, dst>>

ExpireLease(i) ==
    /\ "expire" \in Faults
    /\ shards[i].state = "LEASED"
    /\ shards' = [shards EXCEPT ![i].state = "QUEUED", ![i].run = 0]
    /\ UNCHANGED <<scope, group, drained, dropped, src, runs, dst>>

(* The parent walk re-runs and ships the file under another sequence       *)
(* number: RecordSplit inserts its chunk shards and keeps the group.       *)
RecordSplitAgain ==
    /\ "replan" \in Faults
    /\ ~drained /\ src # 0 /\ Len(shards) < 2 * NChunks
    /\ shards' = shards \o Plan(src)
    /\ UNCHANGED <<scope, group, drained, dropped, src, runs, dst>>

(* The source is rewritten, or removed. *)
SourceChanges ==
    /\ "drift" \in Faults
    /\ src # 0
    /\ \/ src < MaxVersion /\ src' = src + 1
       \/ src' = 0
    /\ UNCHANGED <<db, runs, dst>>

Next ==
    \/ \E i \in DOMAIN shards : Grant(i) \/ RetryParked(i) \/ DropParked(i) \/ ExpireLease(i)
    \/ \E r \in DOMAIN runs : process_chunk(r) \/ onShardResult(r)
    \/ LeaveScanning \/ RecordSplitAgain \/ SourceChanges

Spec == Init /\ [][Next]_vars

(***************************************************************************)
(* Properties                                                              *)
(***************************************************************************)

(* The file was shipped a second time, under another sequence number. *)
Replanned == Cardinality({i \in DOMAIN shards : shards[i].kind = "data"}) > NChunks

(* The installed file is not the temp the plan's chunks wrote: a run that  *)
(* outlived its lease made one again, O_CREAT, after the rename, and the   *)
(* finalize shard was executed a second time.                              *)
Recreated == file > 1

OneTemp == ~Replanned /\ ~Recreated

(* A file under its final name whose size and mtime match the source's,    *)
(* which the next pass's diff takes for up to date, holds the source's     *)
(* bytes in every range: no hole, no range of another version.  Excepted   *)
(* are two plans of one file, which share its temp, and a temp made anew.  *)
InstalledIsWhole ==
    OneTemp /\ src # 0 /\ MatchesGen(file, src) => \A c \in Ranges : inodes[file].data[c] = src

(* The finalize shard exists only once a shard of every range is DONE, and *)
(* there is one of it, if the file was planned once.                       *)
FinalizeAfterAll ==
    LET F == {i \in DOMAIN shards : shards[i].kind = "finalize"} IN
    ~Replanned =>
    /\ Cardinality(F) <= 1
    /\ F # {} => \A c \in Ranges : \E i \in InState({"DONE"}) :
                   shards[i].kind = "data" /\ shards[i].range = c

(* "A reader must never see every chunk done with no finalize queued": a   *)
(* pass leaves SCANNING only when the group was aborted, by any chunk of   *)
(* it and before or after the last one landed, or the file is in place     *)
(* with every range copied, unless an operator dropped one of its shards.  *)
(* A second plan or a temp made anew can still leave a hole in the file.   *)
DrainedIsSettled ==
    drained /\ ~dropped /\ group.state # "aborted" =>
        /\ group.state = "done" /\ file # 0
        /\ OneTemp => \A c \in Ranges : inodes[file].data[c] # 0

(* "Nothing is left running that could still be writing to one": once the  *)
(* reclaim of an unfinished group is done, its temp stays gone.            *)
ReclaimedStaysGone ==
    (\E i \in InState({"DONE"}) : shards[i].kind = "reclaim") => temp = 0
=============================================================================
