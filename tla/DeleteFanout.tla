---------------------------- MODULE DeleteFanout ----------------------------
(***************************************************************************)
(* The delete pass: an agent's recursive removal with its two ways of      *)
(* handing work back (delete.c), and the delete_groups rows that decide    *)
(* when an emptied directory gets a cleanup shard of its own (store.go).   *)
(*                                                                         *)
(* The destination is a tree of nodes.  A run is one execution of a delete *)
(* shard; its stack holds the directories it is inside.  A directory with  *)
(* more than Threshold entries is streamed out in batches of names; once   *)
(* the run has removed Budget objects, a subdirectory it meets is handed   *)
(* off unopened.  Either way the directories around it are not removed by  *)
(* the run but reported as deferred.                                       *)
(*                                                                         *)
(* Abstractions.  A path is a node.  A directory is listed in one step.    *)
(* Acks and the split window are ScanSplit, the lease protocol ShardLease: *)
(* here a run's frames arrive in order before its result, and a result and *)
(* its handling are one step.  I/O errors other than ENOENT and ENOTEMPTY  *)
(* are left out.                                                           *)
(***************************************************************************)
EXTENDS Integers, Sequences, FiniteSets, Functions

CONSTANTS
    Dirs, Files,  \* the destination's directories and files
    Ancestors,    \* the directories a node's path goes through, nearest first
    NoDir,
    Scopes        \* the cases: see Scope

Nodes == Dirs \cup Files

(* A case: the part of the tree that is there, the paths seedDeletePass    *)
(* puts in the first shard, tuning.delete_split_threshold,                 *)
(* delete_split_batch and delete_shard_budget, DELETE_SUBDIR_SPLIT_BATCH;  *)
(* and its bounds: executions at a time, all executions, and the faults.   *)
Scope == [tree : SUBSET Nodes, orphans : SUBSET Nodes, threshold : Nat \ {0},
          splitBatch : Nat \ {0}, budget : Nat \ {0}, subdirBatch : Nat \ {0},
          workers : Nat, runs : Nat, faults : SUBSET {"expire", "crash"}]

ASSUME DeleteAssumption ==
    /\ IsFiniteSet(Nodes) /\ NoDir \notin Nodes
    /\ Ancestors \in [Nodes -> Seq(Dirs)]
    /\ \A n \in Nodes :
         Ancestors[n] # <<>> => Ancestors[Head(Ancestors[n])] = Tail(Ancestors[n])
    /\ Scopes \subseteq Scope /\ \A s \in Scopes : s.orphans \subseteq s.tree

VARIABLES
    scope,    \* the case of this behaviour
    alive,    \* the nodes that exist
    shards,   \* the delete shards, in order of insertion
    groups,   \* the delete_groups rows
    splits,   \* (parent, seq) of the recorded splits
    runs      \* the executions

vars == <<scope, alive, shards, groups, splits, runs>>

Orphans     == scope.orphans
Threshold   == scope.threshold
SplitBatch  == scope.splitBatch
ShardBudget == scope.budget
SubdirBatch == scope.subdirBatch
MaxRuns     == scope.runs

deleteGroupParent(n) == IF Ancestors[n] = <<>> THEN NoDir ELSE Head(Ancestors[n])
Entries(d)  == {n \in alive : deleteGroupParent(n) = d}
Under(n, S) == n \in S \/ Range(Ancestors[n]) \cap S # {}

Row   == [row : BOOLEAN, nTotal : Nat, nDone : Nat, eof : BOOLEAN, pending : Nat, closed : BOOLEAN]
Shard == [paths : SUBSET Nodes, rel : Dirs \cup {NoDir}, cleanup : BOOLEAN,
          state : {"QUEUED", "LEASED", "DONE"}, run : 0..MaxRuns]
Frame == [seq : Nat, kind : {"rest", "subdirs"}, dir : Dirs \cup {NoDir}, names : Seq(Nodes),
          last : BOOLEAN]
Level == [dir : Dirs, left : SUBSET Nodes, deferred : BOOLEAN]
Run   == [shard : Nat, over : BOOLEAN, todo : SUBSET Nodes, stack : Seq(Level), budget : Nat,
          batch : Seq(Dirs), sent : Seq(Frame), seq : Nat, deferred : Seq(Dirs)]

TypeOK ==
    /\ scope \in Scopes
    /\ alive \subseteq scope.tree
    /\ shards \in Seq(Shard)
    /\ groups \in [Dirs -> Row]
    /\ splits \subseteq (DOMAIN shards) \X Nat
    /\ runs \in Seq(Run) /\ Len(runs) <= MaxRuns

NewShard(paths, rel, cleanup) ==
    [paths |-> paths, rel |-> rel, cleanup |-> cleanup, state |-> "QUEUED", run |-> 0]
NoRow == [row |-> FALSE, nTotal |-> 0, nDone |-> 0, eof |-> FALSE, pending |-> 0, closed |-> FALSE]

Init ==
    /\ scope \in Scopes
    /\ alive = scope.tree
    /\ shards = <<NewShard(Orphans, NoDir, FALSE)>>
    /\ groups = [d \in Dirs |-> NoRow]
    /\ splits = {}
    /\ runs = <<>>

(***************************************************************************)
(* delete_groups.  A transaction maps [g, new], the rows and the shards it *)
(* inserts.                                                                *)
(***************************************************************************)
Closeable(w) == w.row /\ ~w.closed /\ w.eof /\ w.nDone >= w.nTotal /\ w.pending <= 0

(* registerPendingChildTx: up to and including the first row there was. *)
ListedRow  == [NoRow EXCEPT !.row = TRUE]
BareRow    == [NoRow EXCEPT !.row = TRUE, !.eof = TRUE]  \* mutant
TrackedRow == [NoRow EXCEPT !.row = TRUE, !.nTotal = 1, !.eof = TRUE]

Climb(g, d) ==
    LET up == Ancestors[d]
    IN {up[i] : i \in {i \in DOMAIN up : \A j \in 1..(i - 1) : ~g[up[j]].row}}

registerPendingChildTx(g, d) ==
    [x \in Dirs |-> LET w == IF g[x].row THEN g[x] ELSE TrackedRow IN
        IF x \in Climb(g, d) THEN [w EXCEPT !.pending = IF w.closed THEN @ ELSE @ + 1]
                                  ELSE g[x]]

(* INSERT OR IGNORE of d's own row, registered above if it is new. *)
EnsureAlone(g, d) == IF g[d].row THEN g ELSE [g EXCEPT ![d] = ListedRow]  \* mutant
Ensure(g, d) ==
    IF g[d].row THEN g ELSE registerPendingChildTx([g EXCEPT ![d] = ListedRow], d)

(* closeDeleteGroupTx: d closes, and every directory above it that was     *)
(* waiting for that alone.                                                 *)
Unblocked(w) == Closeable([w EXCEPT !.pending = @ - 1])

closeDeleteGroupTx(t, d, seedCleanup) ==
    LET up     == Ancestors[d]
        closes == {i \in DOMAIN up : \A j \in 1..i : Unblocked(t.g[up[j]])}
        shut   == <<d>> \o SubSeq(up, 1, Cardinality(closes))
        clean  == IF seedCleanup THEN shut ELSE Tail(shut)
        waits(x) == \E i \in DOMAIN shut : deleteGroupParent(shut[i]) = x
    IN [g   |-> [x \in Dirs |->
                   [t.g[x] EXCEPT !.closed = @ \/ x \in Range(shut),
                                  !.pending = IF waits(x) /\ t.g[x].row /\ ~t.g[x].closed
                                              THEN @ - 1 ELSE @]],
        new |-> t.new \o [i \in DOMAIN clean |-> NewShard({clean[i]}, NoDir, TRUE)]]

MaybeClose(t, d, seedCleanup) ==
    IF Closeable(t.g[d]) THEN closeDeleteGroupTx(t, d, seedCleanup) ELSE t

bumpAndMaybeCloseDeleteGroupTx(t, d, seedCleanup) ==
    MaybeClose([t EXCEPT !.g[d].nDone = @ + 1], d, seedCleanup)

(* RecordSplit's deleteTotals: one shard more in d's group. *)
AddTotal(t, d, last, seedCleanup) ==
    LET g == Ensure(t.g, d) IN
    MaybeClose([t EXCEPT !.g = [g EXCEPT ![d].nTotal = @ + 1, ![d].eof = @ \/ last]],
               d, seedCleanup)

(***************************************************************************)
(* process_delete                                                          *)
(***************************************************************************)
Active(r)  == r \in DOMAIN runs /\ ~runs[r].over
Top(x)     == x.stack[Len(x.stack)]
(* *deferred_out of the directory the run is inside. *)
NotDeferred(x) == x  \* mutant
Deferred(x) == IF x.stack = <<>> THEN x ELSE [x EXCEPT !.stack[Len(x.stack)].deferred = TRUE]
Spent(x)    == [x EXCEPT !.budget = IF @ > 0 THEN @ - 1 ELSE 0]

Ship(x, kind, dir, names, last) ==
    [x EXCEPT !.sent = Append(@, [seq |-> x.seq, kind |-> kind, dir |-> dir, names |-> names,
                                  last |-> last]),
              !.seq = @ + 1]

Flushed(x) == IF x.batch = <<>> THEN x
              ELSE [Ship(x, "subdirs", NoDir, x.batch, FALSE) EXCEPT !.batch = <<>>]

queue_delete_subdir(x, d) ==
    LET y == [x EXCEPT !.batch = Append(@, d)]
    IN IF Len(y.batch) >= SubdirBatch THEN Flushed(y) ELSE y

(* readdir lists a directory in any order. *)
Listings(d) == {s \in [1..Cardinality(Entries(d)) -> Entries(d)] : Range(s) = Entries(d)}

(* stream_delete_split: full batches, then a last one, empty or not. *)
stream_delete_split(x, d, names) ==
    LET full     == Len(names) \div SplitBatch
        batch(k) == SubSeq(names, (k - 1) * SplitBatch + 1,
                           IF k <= full THEN k * SplitBatch ELSE Len(names))
    IN [x EXCEPT !.sent = @ \o [k \in 1..(full + 1) |->
                                   [seq |-> x.seq + k - 1, kind |-> "rest", dir |-> d,
                                    names |-> batch(k), last |-> k > full]],
                 !.seq = @ + full + 1]

(* remove_object of n; top for one of the shard's own paths. *)
remove_object(r, x, n, top) ==
    \/ /\ n \notin alive
       /\ runs' = [runs EXCEPT ![r] = x]
       /\ UNCHANGED alive
    \/ /\ n \in alive \cap Files
       /\ alive' = alive \ {n}
       /\ runs' = [runs EXCEPT ![r] = Spent(x)]
    \/ /\ n \in alive \cap Dirs /\ ~top /\ x.budget = 0
       /\ runs' = [runs EXCEPT ![r] = queue_delete_subdir(Deferred(x), n)]
       /\ UNCHANGED alive
    \/ /\ n \in alive \cap Dirs /\ (top \/ x.budget > 0)
       /\ Cardinality(Entries(n)) > Threshold
       /\ \E names \in Listings(n) :
            runs' = [runs EXCEPT ![r] = stream_delete_split(Deferred(x), n, names)]
       /\ UNCHANGED alive
    \/ /\ n \in alive \cap Dirs /\ (top \/ x.budget > 0)
       /\ Cardinality(Entries(n)) <= Threshold
       /\ runs' = [runs EXCEPT ![r].todo = x.todo,
                               ![r].stack = Append(x.stack, [dir |-> n, left |-> Entries(n),
                                                             deferred |-> FALSE])]
       /\ UNCHANGED alive

NextPath(r) ==
    /\ Active(r) /\ runs[r].stack = <<>>
    /\ \E n \in runs[r].todo : remove_object(r, [runs[r] EXCEPT !.todo = @ \ {n}], n, TRUE)
    /\ UNCHANGED <<shards, groups, splits>>

rm_dir_contents(r) ==
    /\ Active(r) /\ runs[r].stack # <<>>
    /\ \E n \in Top(runs[r]).left :
         remove_object(r, [runs[r] EXCEPT !.stack[Len(runs[r].stack)].left = @ \ {n}], n, FALSE)
    /\ UNCHANGED <<shards, groups, splits>>

(* rm_tree's end: the rmdir, or its deferral. *)
rm_tree(r) ==
    /\ Active(r) /\ runs[r].stack # <<>> /\ Top(runs[r]).left = {}
    /\ LET x == runs[r]  d == Top(x).dir  up == [x EXCEPT !.stack = SubSeq(@, 1, Len(@) - 1)] IN
         \/ /\ Top(x).deferred
            /\ runs' = [runs EXCEPT ![r] = Deferred([up EXCEPT !.deferred = Append(@, d)])]
            /\ UNCHANGED alive
         \/ /\ ~Top(x).deferred
            /\ alive' = IF Entries(d) = {} THEN alive \ {d} ELSE alive
            /\ runs' = [runs EXCEPT ![r] = IF Entries(d) = {} THEN Spent(up) ELSE up]
    /\ UNCHANGED <<shards, groups, splits>>

Walked(r) == Active(r) /\ runs[r].todo = {} /\ runs[r].stack = <<>>

FlushSubdirs(r) ==
    /\ Walked(r) /\ runs[r].batch # <<>>
    /\ runs' = [runs EXCEPT ![r] = Flushed(runs[r])]
    /\ UNCHANGED <<alive, shards, groups, splits>>

(***************************************************************************)
(* The coordinator                                                         *)
(***************************************************************************)
(* A grant, and the start of its execution: a granted item waits in an     *)
(* agent's queue, so shards may start in any order.                        *)
Grant(i) ==
    /\ shards[i].state = "QUEUED" /\ Len(runs) < MaxRuns
    /\ Cardinality({r \in DOMAIN runs : Active(r)}) < scope.workers
    /\ shards' = [shards EXCEPT ![i].state = "LEASED", ![i].run = Len(runs) + 1]
    /\ runs' = Append(runs, [shard |-> i, over |-> FALSE, todo |-> shards[i].paths,
                             stack |-> <<>>, budget |-> ShardBudget, batch |-> <<>>,
                             sent |-> <<>>, seq |-> 1, deferred |-> <<>>])
    /\ UNCHANGED <<alive, groups, splits>>

(* onShardSplit and RecordSplit of the oldest frame on its way. *)
SplitShards(f) ==
    IF f.kind = "rest" THEN <<NewShard(Range(f.names), f.dir, FALSE)>>
    ELSE [i \in DOMAIN f.names |-> NewShard({f.names[i]}, f.names[i], FALSE)]

AddTotals(t, ds) ==
    LET after[i \in 0..Len(ds)] ==
            IF i = 0 THEN t ELSE AddTotal(after[i - 1], ds[i], TRUE, FALSE)
    IN after[Len(ds)]

SplitTotals(t, f) ==
    IF f.kind = "rest" THEN AddTotal(t, f.dir, f.last, TRUE) ELSE AddTotals(t, f.names)

RecordSplit(r) ==
    /\ r \in DOMAIN runs /\ runs[r].sent # <<>>
    /\ LET f == Head(runs[r].sent)
           t == SplitTotals([g |-> groups, new |-> <<>>], f)
       IN \/ /\ <<runs[r].shard, f.seq>> \in splits
             /\ UNCHANGED <<shards, groups, splits>>
          \/ /\ <<runs[r].shard, f.seq>> \notin splits
             /\ shards' = shards \o SplitShards(f) \o t.new
             /\ groups' = t.g
             /\ splits' = splits \cup {<<runs[r].shard, f.seq>>}
    /\ runs' = [runs EXCEPT ![r].sent = Tail(@)]
    /\ UNCHANGED alive

(* The result, and CompleteDeleteRemainder in one transaction. *)
HoldsLease(r) == shards[runs[r].shard].run = r
IsHandoff(s)  == s.paths = {s.rel}

Contributed(t, s) ==
    IF s.rel = NoDir THEN t
    ELSE bumpAndMaybeCloseDeleteGroupTx([t EXCEPT !.g = Ensure(@, s.rel)], s.rel, ~IsHandoff(s))

DeferredRmdir(t, d) ==
    bumpAndMaybeCloseDeleteGroupTx([t EXCEPT !.g[d] = IF @.row THEN @ ELSE TrackedRow], d, TRUE)

Completed(t, s, deferred) ==
    LET after[i \in 0..Len(deferred)] ==
            IF i = 0 THEN Contributed(t, s) ELSE DeferredRmdir(after[i - 1], deferred[i])
    IN after[Len(deferred)]

CompleteDeleteRemainder(r) ==
    /\ Walked(r) /\ runs[r].batch = <<>> /\ runs[r].sent = <<>>
    /\ LET i == runs[r].shard
           t == Completed([g |-> groups, new |-> <<>>], shards[i], runs[r].deferred)
       IN \/ /\ HoldsLease(r)
             /\ shards' = [shards EXCEPT ![i].state = "DONE", ![i].run = 0] \o t.new
             /\ groups' = t.g
          \/ ~HoldsLease(r) /\ UNCHANGED <<shards, groups>>
    /\ runs' = [runs EXCEPT ![r].over = TRUE]
    /\ UNCHANGED <<alive, splits>>

ExpireLease(i) ==
    /\ "expire" \in scope.faults
    /\ shards[i].state = "LEASED"
    /\ shards' = [shards EXCEPT ![i].state = "QUEUED", ![i].run = 0]
    /\ UNCHANGED <<alive, groups, splits, runs>>

(* The agent dies: its frames still on the way may be lost. *)
AgentCrash(r) ==
    /\ "crash" \in scope.faults
    /\ Active(r)
    /\ \E k \in 0..Len(runs[r].sent) :
         runs' = [runs EXCEPT ![r].over = TRUE, ![r].sent = SubSeq(@, 1, k)]
    /\ UNCHANGED <<alive, shards, groups, splits>>

Next ==
    /\ \/ \E i \in DOMAIN shards : Grant(i) \/ ExpireLease(i)
       \/ \E r \in DOMAIN runs : \/ NextPath(r) \/ rm_dir_contents(r) \/ rm_tree(r)
                                 \/ FlushSubdirs(r) \/ RecordSplit(r)
                                 \/ CompleteDeleteRemainder(r) \/ AgentCrash(r)
    /\ UNCHANGED scope

Spec == Init /\ [][Next]_vars

(***************************************************************************)
(* Properties                                                              *)
(***************************************************************************)
Drained == \A i \in DOMAIN shards : shards[i].state = "DONE"

(* advance completes the delete pass once its shards have drained: by then *)
(* every orphan is gone, the directories whose rmdir was deferred too.     *)
(* Excepted are a shard that was run twice, which streams its directory    *)
(* again, and a cleanup that came before those of the directories below    *)
(* and met more of them than it removes itself: what it hands back goes to *)
(* a group that has closed, and nothing removes the directory after that.  *)
RanOnce    == \A q, r \in DOMAIN runs : runs[q].shard = runs[r].shard => q = r
Reopened   == \E i, j \in DOMAIN shards :
                 i < j /\ shards[i].cleanup /\ shards[j].rel \in shards[i].paths

(* The climb of registerPendingChildTx makes rows for the live directories *)
(* above an orphan: nothing outside the orphans is ever removed.           *)
SparesLive == \A n \in scope.tree \ alive : Under(n, Orphans)

(* "Nothing stops it from calling rmdir on ITS OWN directory before" a     *)
(* handed-off one is gone, but the deferral: a run that reaches the rmdir  *)
(* of a directory finds it empty.                                          *)
RmdirsEmpty ==
    \A r \in DOMAIN runs :
        Active(r) /\ runs[r].stack # <<>> /\ Top(runs[r]).left = {} /\ ~Top(runs[r]).deferred
            => Entries(Top(runs[r]).dir) = {}

(* "By the time this is granted, the directory is empty". *)
CleanupFindsEmpty ==
    \A i \in DOMAIN shards :
        shards[i].cleanup => \A d \in shards[i].paths : Entries(d) = {}
=============================================================================
