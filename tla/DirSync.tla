------------------------------ MODULE DirSync -------------------------------
(***************************************************************************)
(* What an agent does to one directory of the destination: the listing and *)
(* per-entry diff of the walker (walker.c), the copy of a file (copy.c),   *)
(* the directory fix-up (dirfix.c) and the verification (verify.c), over   *)
(* the passes of a job, while the source changes underneath.               *)
(*                                                                         *)
(* A run executes a shard: the directory, one entry-list shard of a        *)
(* directory that was split, the dirfix batch or the verify batch.  A run  *)
(* begins some time after its grant, and a lease may expire while its run  *)
(* goes on: two runs may work on the same names, and a walk of one pass    *)
(* may list the directory in the next.  A run works from the stats it took *)
(* when it listed the directory.                                           *)
(*                                                                         *)
(* Time is a count of source changes: a source object changed by the c-th  *)
(* one has the (even) stamp 2c as its mtime, and whatever is written to    *)
(* the destination after it, and not stamped yet, has the odd stamp 2c+1.  *)
(* The content of a file is the stamp of the version it is a copy of.      *)
(* Size follows content, so comparing (size, mtime) is comparing stamps.   *)
(* The walker takes mtimes within mtime_slop_ns (1 ms by default) for      *)
(* equal; here versions lie further apart than the slop.  A crash is the   *)
(* death of the agent process: what it wrote stays, in the order written   *)
(* (a power loss under fsync = batched is not modelled).                   *)
(*                                                                         *)
(* Abstractions.  Listing and stat are one step.  An entry list holds one  *)
(* name (how splits are numbered and deduplicated is ScanSplit), and the   *)
(* dirfix and verify records of the directory fit one batch each; chunked  *)
(* files are ChunkGroups; hard links are left out.  A result and its       *)
(* handling are one step; a lost result is an expired lease.  The copy     *)
(* engines differ in how they move bytes, not in what a step below does.   *)
(* Owner, mode and xattrs are one value, and all metadata is preserved.    *)
(***************************************************************************)
EXTENDS Integers, Sequences, FiniteSets, FiniteSetsExt

CONSTANTS
    Names,      \* the names of the directory, as numbers: walked in order
    Runs,       \* executions that may be under way at a time
    Options,    \* job options
    SrcInit,    \* objects a source name may start as
    DstInit,    \* objects a destination name may start as
    SrcTypes,   \* types a source name may change to
    MaxPasses,  \* passes.max
    MaxClock,   \* bound: source changes, plus one
    Faults,     \* bound: what may go wrong
    MaxFaults   \* bound: how often

(* dry_run, on_dest_newer: skip, direct_write, whether the directory is     *)
(* split into entry lists, metadata.specials, and the names the filters     *)
(* exclude.                                                                 *)
JobSpec == [dry : BOOLEAN, skip : BOOLEAN, direct : BOOLEAN, big : BOOLEAN,
            specials : BOOLEAN, filter : SUBSET Names]

ASSUME DirSyncAssumption ==
    /\ Options \subseteq JobSpec
    /\ Names \subseteq Nat \ {0} /\ IsFiniteSet(Names)
    /\ Runs \subseteq Nat \ {0}
    /\ MaxPasses \in Nat \ {0} /\ MaxClock \in Nat \ {0} /\ MaxFaults \in Nat
    /\ Faults \subseteq {"expire", "crash", "ioerror"}

VARIABLES
    clock,    \* source changes so far
    src,      \* the source directory: its mtime and its names
    fs,       \* the destination directory: mtime, names, temps, stale names
    opts,     \* the job's options
    pass,     \* the pass: number, phase, counters, the payloads it seeded
    shards,   \* its shards
    journal,  \* its journal, as far as later phases read it
    runs,     \* the executions
    faults,   \* faults so far
    calm,     \* since the pass began, no source change and no second writer
    synced    \* the trees agreed when the pass began

vars == <<clock, src, fs, opts, pass, shards, journal, runs, faults, calm, synced>>

DirShard    == 0
VerifyShard == -1
DirfixShard == -2
ShardIds    == {DirfixShard, VerifyShard, DirShard} \cup Names

Torn    == -1    \* content of a file still being written
Foreign == -2    \* content that never was the source's

Types == {"none", "file", "dir", "link", "node"}

(* An object; by is the run that has it open under its final name. *)
Obj(type, stamp, data, meta, full) ==
    [type |-> type, stamp |-> stamp, data |-> data, meta |-> meta, full |-> full, by |-> 0]
None   == Obj("none", 0, 0, 0, FALSE)
Stamps == 0..(2 * MaxClock + 1)
Object == [type : Types, stamp : Stamps, data : Stamps \cup {Torn, Foreign},
           meta : 0..2, full : BOOLEAN, by : {0} \cup Runs]

Private == 2     \* the owner and mode of a file just created, 0600
Now == 2 * clock + 1

(* A source object as the change number c leaves it. *)
SrcObj(type, c) ==
    CASE type = "none" -> None
      [] type = "dir"  -> Obj("dir", 0, 0, 0, TRUE)
      [] OTHER         -> Obj(type, 2 * c, 2 * c, 0, FALSE)

(* <job>-<pass>.<shard>.<seq> of a temp, without the job *)
Tag(r) == <<runs[r].pass, runs[r].shard, runs[r].seq>>

Task   == [st : {"none", "queued", "open", "checked"}, direct : BOOLEAN,
           tag : Seq(Int), in : Stamps, ss : Object]
NoTask == [st |-> "none", direct |-> FALSE, tag |-> <<>>, in |-> 0, ss |-> None]
Idle   == [pc |-> "idle", shard |-> 0, pass |-> 0, ss |-> [n \in Names |-> None],
           ds |-> [n \in Names |-> None], sdir |-> 0, old |-> {}, todo |-> {},
           tasks |-> [n \in Names |-> NoTask], seq |-> 0,
           copied |-> {}, fixed |-> {}, skipped |-> {}, delta |-> FALSE, err |-> FALSE]

EmptyJournal == [verify |-> {}, skipped |-> {}, orphans |-> {}, dirs |-> <<>>]

TypeOK ==
    /\ clock \in 1..MaxClock
    /\ src.dir \in Stamps /\ \A n \in Names : src.obj[n] \in Object /\ src.obj[n].by = 0
    /\ fs.dir \in Stamps /\ \A n \in Names : fs.obj[n] \in Object
    /\ opts \in Options
    /\ pass.no \in 1..MaxPasses
    /\ pass.phase \in {"SCAN", "DIRFIX", "VERIFY", "DECIDE", "DONE"}
    /\ pass.fix \in Seq(Stamps) /\ pass.check \subseteq Names
    /\ \A s \in ShardIds :
          /\ shards[s].state \in {"NONE", "QUEUED", "LEASED", "DONE"}
          /\ shards[s].run \in {0} \cup Runs
          /\ shards[s].state = "LEASED" <=> shards[s].run # 0
    /\ journal.verify \cup journal.skipped \cup journal.orphans \subseteq Names
    /\ \A r \in Runs :
          /\ runs[r].pc \in {"idle", "start", "sweep", "walk"}
          /\ runs[r].todo \subseteq Names
          /\ \A n \in Names : runs[r].tasks[n] \in Task
    /\ faults \in 0..MaxFaults
    /\ calm \in BOOLEAN /\ synced \in BOOLEAN

(***************************************************************************)
(* The two trees                                                           *)
(***************************************************************************)
Excluded(n) == n \in opts.filter

(* What the job is told to leave out: filtered, or a special file. *)
Ignored(n) == Excluded(n) \/ (src.obj[n].type = "node" /\ ~opts.specials)

(* What the diff compares, by type. *)
Same(s, d) ==
    /\ s.type = d.type
    /\ s.type = "file" => s.stamp = d.stamp /\ s.data = d.data /\ s.meta = d.meta
    /\ s.type \in {"link", "node"} => s.data = d.data
    /\ s.type = "dir" /\ s.full => d.full

Agree == \A n \in Names : ~Ignored(n) /\ src.obj[n].type # "none" => Same(src.obj[n], fs.obj[n])

(* An operation on a name of the destination moves the directory's mtime. *)
Put(f, n, o) == [f EXCEPT !.obj[n] = o, !.dir = Now]

(* remove_dst: on the name as it now is, not as it was listed.  A full      *)
(* directory is renamed aside; the tag of the stale name must be free.      *)
remove_dst(r, n, isDir) ==
    LET cur == fs.obj[n] IN
    CASE cur.type = "none"                  -> [fs |-> fs, err |-> FALSE, seq |-> 0]
      [] (cur.type = "dir") # isDir         -> [fs |-> fs, err |-> TRUE, seq |-> 0]
      [] isDir /\ cur.full /\ Tag(r) \in fs.stale -> [fs |-> fs, err |-> TRUE, seq |-> 1]
      [] isDir /\ cur.full                  -> [fs  |-> [Put(fs, n, None) EXCEPT !.stale = @ \cup {Tag(r)}],
                                                err |-> FALSE, seq |-> 1]
      [] OTHER                              -> [fs |-> Put(fs, n, None), err |-> FALSE, seq |-> 0]
Keep == [fs |-> fs, err |-> FALSE, seq |-> 0]

(***************************************************************************)
(* A run: grant, listing, sweep of old temps, then one entry at a time.    *)
(***************************************************************************)
Shard(state, run) == [state |-> state, run |-> run]
FirstShard == [s \in ShardIds |-> IF s = DirShard THEN Shard("QUEUED", 0) ELSE Shard("NONE", 0)]
NewPass(no) == [no |-> no, phase |-> "SCAN", delta |-> FALSE, err |-> FALSE,
                fix |-> <<>>, check |-> {}]

Init ==
    /\ clock = 1
    /\ opts \in Options
    /\ \E s \in [Names -> SrcInit] : src = [dir |-> 2, obj |-> s]
    /\ \E d \in [Names -> DstInit] : fs = [dir |-> 3, obj |-> d, temps |-> {}, stale |-> {}]
    /\ pass = NewPass(1)
    /\ shards = FirstShard
    /\ journal = EmptyJournal
    /\ runs = [r \in Runs |-> Idle]
    /\ faults = 0
    /\ calm = TRUE
    /\ synced = Agree

job   == <<opts, pass, shards, faults, calm, synced>>
world == <<clock, src>>

(* A lease is granted and the shard's payload sent: the name of an entry    *)
(* list, the last of the directory's dirfix records, or the names to verify. *)
Grant(r, s) ==
    /\ runs[r].pc = "idle" /\ shards[s].state = "QUEUED"
    /\ shards' = [shards EXCEPT ![s] = Shard("LEASED", r)]
    /\ runs' = [runs EXCEPT ![r] =
                  [Idle EXCEPT !.pc = "start", !.shard = s, !.pass = pass.no,
                               !.todo = CASE s \in Names     -> {s}
                                          [] s = VerifyShard -> pass.check
                                          [] OTHER           -> {},
                               !.sdir = IF s = DirfixShard THEN pass.fix[Len(pass.fix)] ELSE 0]]
    /\ UNCHANGED <<clock, src, fs, opts, pass, journal, faults, calm, synced>>

Begin(r, s) == runs[r].pc = "start" /\ runs[r].shard = s

Listed == {n \in Names : src.obj[n].type # "none"}

(* walk_dir up to prefetch_stats; a directory over the split threshold only *)
(* lists its names.                                                         *)
walk_dir(r) ==
    /\ Begin(r, DirShard)
    /\ runs' = [runs EXCEPT ![r].pc = "sweep", ![r].ss = src.obj, ![r].ds = fs.obj,
                            ![r].sdir = src.dir, ![r].old = fs.temps, ![r].todo = Listed]
    /\ UNCHANGED <<world, fs, job, journal>>

(* entrylist_walk: stat the names of the batch on both sides. *)
entrylist_walk(r) ==
    /\ \E n \in Names : Begin(r, n)
    /\ runs' = [runs EXCEPT ![r].pc = "walk", ![r].ss = src.obj, ![r].ds = fs.obj]
    /\ UNCHANGED <<world, fs, job, journal>>

(* handle_orphan for the names only the destination has: temps of other     *)
(* passes go, everything else is only reported.  A split directory ships    *)
(* its names before and stamps the directory after.                         *)
StampedAnyway(f, r) == [f EXCEPT !.dir = runs[r].sdir]  \* mutant
Stamped(f, r) == IF opts.dry THEN f ELSE [f EXCEPT !.dir = runs[r].sdir]

OldTemps(r) == {t \in runs[r].old : t[1] # runs[r].pass}

Swept(r) ==
    IF opts.dry \/ OldTemps(r) \cap fs.temps = {} THEN fs
    ELSE [fs EXCEPT !.temps = @ \ OldTemps(r), !.dir = Now]

ReportOrphans(r) ==
    [journal EXCEPT !.orphans = @ \cup {n \in Names : /\ runs[r].ss[n].type = "none"
                                                     /\ runs[r].ds[n].type # "none"}]

handle_orphan(r) ==
    /\ runs[r].pc = "sweep"
    /\ journal' = IF runs[r].pass = pass.no THEN ReportOrphans(r) ELSE journal
    /\ \/ /\ ~opts.big
          /\ fs' = Swept(r)
          /\ runs' = [runs EXCEPT ![r].pc = "walk"]
          /\ UNCHANGED shards
       \/ /\ opts.big
          /\ fs' = Stamped(Swept(r), r)
          /\ runs' = [runs EXCEPT ![r].pc = "walk", ![r].todo = {}]
          /\ shards' = [s \in ShardIds |->
                          IF /\ s \in runs[r].todo /\ shards[s].state = "NONE"
                             /\ runs[r].pass = pass.no /\ pass.phase # "DECIDE"
                          THEN Shard("QUEUED", 0) ELSE shards[s]]
    /\ UNCHANGED <<clock, src, opts, pass, faults, calm, synced>>

(***************************************************************************)
(* handle_entry, one action per outcome                                    *)
(***************************************************************************)
(* The next entry of a walk: as listed (s, d), and the run w once it is     *)
(* past it.                                                                 *)
NextEntry(r) == Min(runs[r].todo)
Walking(r) == runs[r].pc = "walk" /\ runs[r].todo # {} /\ runs[r].shard # VerifyShard
S(r) == runs[r].ss[NextEntry(r)]
D(r) == runs[r].ds[NextEntry(r)]
TypeMatch(r) == D(r).type = S(r).type
Conflict(r)  == D(r).type # "none" /\ ~TypeMatch(r)
Considered(r, type) == Walking(r) /\ ~Excluded(NextEntry(r)) /\ S(r).type = type
Past(r) == [runs[r] EXCEPT !.todo = @ \ {NextEntry(r)}]
Becomes(r, w) == runs' = [runs EXCEPT ![r] = w]

Copied(w, n) == [w EXCEPT !.copied = @ \cup {n}, !.delta = TRUE]
Failed(w, e) == [w EXCEPT !.err = @ \/ e]

(* Excluded by a filter, or gone from the source when stat'ed. *)
SkipEntry(r) ==
    /\ Walking(r)
    /\ Excluded(NextEntry(r)) \/ S(r).type = "none"
    /\ Becomes(r, Past(r))
    /\ UNCHANGED <<world, fs, job, journal>>

(* A conflicting object is removed first. *)
Cleared(r) == IF Conflict(r) /\ ~opts.dry THEN remove_dst(r, NextEntry(r), D(r).type = "dir") ELSE Keep

(* mkdir, and the walk of the subtree, which opens the directory or makes   *)
(* it.  S_IFDIR clears with unlink: whatever conflicts is no directory.     *)
DirEntry(r) ==
    /\ Considered(r, "dir")
    /\ LET n   == NextEntry(r)
           rm  == Cleared(r)
           cur == rm.fs.obj[n]
           new == Obj("dir", 0, 0, 0, S(r).full)
       IN \/ /\ opts.dry
             /\ Becomes(r, Past(r)) /\ UNCHANGED fs
          \/ /\ ~opts.dry
             /\ fs' = CASE cur.type = "none" -> Put(rm.fs, n, new)
                        [] cur.type = "dir"  -> [rm.fs EXCEPT !.obj[n].full = @ \/ new.full]
                        [] OTHER             -> rm.fs
             /\ Becomes(r, Failed([Past(r) EXCEPT !.seq = @ + rm.seq],
                                  rm.err \/ cur.type \notin {"none", "dir"}))
    /\ UNCHANGED <<world, job, journal>>

DestNewer(r) == opts.skip /\ TypeMatch(r) /\ D(r).stamp > S(r).stamp
AlsoIfEqual(r) == ~TypeMatch(r) \/ D(r).stamp <= S(r).stamp  \* mutant
NeedCopy(r)  == ~TypeMatch(r) \/ D(r).stamp # S(r).stamp

(* copy.on_dest_newer = skip: left entirely alone. *)
SkipNewer(r) ==
    /\ Considered(r, "file") /\ DestNewer(r)
    /\ Becomes(r, [Past(r) EXCEPT !.skipped = @ \cup {NextEntry(r)}])
    /\ UNCHANGED <<world, fs, job, journal>>

CleanFile(r) ==
    /\ Considered(r, "file") /\ ~DestNewer(r) /\ ~NeedCopy(r) /\ D(r).meta = S(r).meta
    /\ Becomes(r, Past(r))
    /\ UNCHANGED <<world, fs, job, journal>>

(* Owner, mode and xattrs, set on whatever now has the name. *)
FixMeta(r) ==
    /\ Considered(r, "file") /\ ~DestNewer(r) /\ ~NeedCopy(r) /\ D(r).meta # S(r).meta
    /\ LET n == NextEntry(r)
           w == [Past(r) EXCEPT !.delta = TRUE]
       IN \/ /\ opts.dry
             /\ Becomes(r, w) /\ UNCHANGED fs
          \/ /\ ~opts.dry
             /\ fs' = IF fs.obj[n].type = "file" THEN [fs EXCEPT !.obj[n].meta = S(r).meta] ELSE fs
             /\ Becomes(r, Failed([w EXCEPT !.fixed = @ \cup {n}], fs.obj[n].type = "none"))
    /\ UNCHANGED <<world, job, journal>>

WouldCopy(r) ==
    /\ Considered(r, "file") /\ ~DestNewer(r) /\ NeedCopy(r) /\ opts.dry
    /\ Becomes(r, [Past(r) EXCEPT !.delta = TRUE])
    /\ UNCHANGED <<world, fs, job, journal>>

(* cp_submit; only a name the destination did not have is written directly. *)
cp_submit(r) ==
    /\ Considered(r, "file") /\ ~DestNewer(r) /\ NeedCopy(r) /\ ~opts.dry
    /\ LET n  == NextEntry(r)
           rm == Cleared(r)
           t  == [NoTask EXCEPT !.st = "queued", !.ss = S(r),
                                !.direct = opts.direct /\ D(r).type = "none"]
       IN /\ fs' = rm.fs
          /\ Becomes(r, Failed([Past(r) EXCEPT !.seq = @ + rm.seq, !.tasks[n] = t], rm.err))
    /\ UNCHANGED <<world, job, journal>>

(* copy_symlink reads both targets anew. *)
copy_symlink(r) ==
    /\ Considered(r, "link")
    /\ LET n   == NextEntry(r)
           now == src.obj[n]
           rm  == Cleared(r)
           re  == IF TypeMatch(r) /\ ~opts.dry THEN remove_dst(r, n, FALSE) ELSE rm
           w   == [Past(r) EXCEPT !.seq = @ + rm.seq]
       IN \/ /\ now.type # "link"
             /\ fs' = rm.fs /\ Becomes(r, Failed(w, TRUE))
          \/ /\ now.type = "link" /\ TypeMatch(r)
             /\ fs.obj[n].type = "link" /\ fs.obj[n].data = now.data
             /\ Becomes(r, w) /\ UNCHANGED fs
          \/ /\ now.type = "link"
             /\ ~(TypeMatch(r) /\ fs.obj[n].type = "link" /\ fs.obj[n].data = now.data)
             /\ \/ opts.dry /\ Becomes(r, [w EXCEPT !.delta = TRUE]) /\ UNCHANGED fs
                \/ /\ ~opts.dry /\ re.fs.obj[n].type = "none"
                   /\ fs' = Put(re.fs, n, [now EXCEPT !.stamp = S(r).stamp])
                   /\ Becomes(r, Copied(Failed(w, re.err), n))
                \/ /\ ~opts.dry /\ re.fs.obj[n].type # "none"
                   /\ fs' = re.fs /\ Becomes(r, Failed(w, TRUE))
    /\ UNCHANGED <<world, job, journal>>

(* Devices, FIFOs and sockets: recreated when the device differs, left      *)
(* alone when the job does not preserve specials.                           *)
NodeEntry(r) ==
    /\ Considered(r, "node")
    /\ LET n  == NextEntry(r)
           rm == IF D(r).type # "none" THEN remove_dst(r, n, D(r).type = "dir") ELSE Keep
           w  == [Past(r) EXCEPT !.seq = @ + rm.seq]
           clean == ~opts.specials \/ (TypeMatch(r) /\ D(r).data = S(r).data)
       IN \/ /\ clean
             /\ Becomes(r, Past(r)) /\ UNCHANGED fs
          \/ /\ ~clean /\ opts.dry
             /\ Becomes(r, [Past(r) EXCEPT !.delta = TRUE]) /\ UNCHANGED fs
          \/ /\ ~clean /\ ~opts.dry
             /\ \/ /\ rm.fs.obj[n].type = "none"
                   /\ fs' = Put(rm.fs, n, S(r)) /\ Becomes(r, Copied(Failed(w, rm.err), n))
                \/ /\ rm.fs.obj[n].type # "none"
                   /\ fs' = rm.fs /\ Becomes(r, Failed(w, TRUE))
    /\ UNCHANGED <<world, job, journal>>

(***************************************************************************)
(* copy_file_task, by a thread of the copy pool                            *)
(***************************************************************************)
T(r, n) == runs[r].tasks[n]
Dropped(w, n) == [w EXCEPT !.tasks[n] = NoTask]
SetTask(r, n, t) == [runs[r] EXCEPT !.tasks[n] = t]

(* Only an unreadable source gets here without a file: a directory opens,   *)
(* and fails at the first read, when the target has come and gone.          *)
OpenFails(r, n) ==
    /\ T(r, n).st = "queued" /\ src.obj[n].type # "file"
    /\ fs' = IF src.obj[n].type = "dir" THEN [fs EXCEPT !.dir = Now] ELSE fs
    /\ Becomes(r, Failed(Dropped(runs[r], n), TRUE))
    /\ UNCHANGED <<world, job, journal>>

StampedFirst(r, n) == [Obj("file", T(r, n).ss.stamp, Torn, Private, FALSE) EXCEPT !.by = r]  \* mutant
TornFile(r, n) == [Obj("file", Now, Torn, Private, FALSE) EXCEPT !.by = r]

OpenDirect(r, n) ==
    /\ T(r, n).st = "queued" /\ src.obj[n].type = "file"
    /\ T(r, n).direct /\ fs.obj[n].type = "none"
    /\ fs' = Put(fs, n, TornFile(r, n))
    /\ Becomes(r, SetTask(r, n, [T(r, n) EXCEPT !.st = "open"]))
    /\ UNCHANGED <<world, job, journal>>

(* The temp is created exclusively.  A direct write that finds its name     *)
(* taken falls back to a temp.                                              *)
OpenTemp(r, n) ==
    /\ T(r, n).st = "queued" /\ src.obj[n].type = "file"
    /\ ~(T(r, n).direct /\ fs.obj[n].type = "none")
    /\ \/ /\ Tag(r) \in fs.temps
          /\ Becomes(r, [Failed(Dropped(runs[r], n), TRUE) EXCEPT !.seq = @ + 1])
          /\ UNCHANGED fs
       \/ /\ Tag(r) \notin fs.temps
          /\ fs' = [fs EXCEPT !.temps = @ \cup {Tag(r)}, !.dir = Now]
          /\ Becomes(r, [SetTask(r, n, [T(r, n) EXCEPT !.st = "open", !.direct = FALSE,
                                                      !.tag = Tag(r)]) EXCEPT !.seq = @ + 1])
    /\ UNCHANGED <<world, job, journal>>

(* drop: unlink the temp, or whatever has the final name. *)
Unlinked(r, n) ==
    IF T(r, n).direct
    THEN IF fs.obj[n].type \in {"none", "dir"} THEN fs ELSE Put(fs, n, None)
    ELSE IF T(r, n).tag \in fs.temps THEN [fs EXCEPT !.temps = @ \ {T(r, n).tag}, !.dir = Now] ELSE fs

Drop(r, n) ==
    /\ fs' = Unlinked(r, n)
    /\ Becomes(r, Failed(Dropped(runs[r], n), TRUE))

(* The open inode: the name's own, or the version it had when it was replaced. *)
InodeStamp(r, n) == IF T(r, n).in # 0 THEN T(r, n).in ELSE src.obj[n].stamp

(* The bytes are copied; fstat tells whether the source changed meanwhile. *)
GenCheck(r, n) ==
    /\ T(r, n).st = "open"
    /\ \/ InodeStamp(r, n) # T(r, n).ss.stamp /\ Drop(r, n)
       \/ /\ InodeStamp(r, n) = T(r, n).ss.stamp
          /\ fs' = IF T(r, n).direct /\ fs.obj[n].by = r
                   THEN [fs EXCEPT !.obj[n].data = T(r, n).ss.stamp] ELSE fs
          /\ Becomes(r, SetTask(r, n, [T(r, n) EXCEPT !.st = "checked"]))
    /\ UNCHANGED <<world, job, journal>>

(* Read, write, fsync or the size check fails. *)
CopyFails(r, n) ==
    /\ "ioerror" \in Faults /\ faults < MaxFaults /\ faults' = faults + 1
    /\ T(r, n).st \in {"open", "checked"}
    /\ Drop(r, n)
    /\ UNCHANGED <<world, opts, pass, shards, journal, calm, synced>>

(* apply_meta, then rename: the commit point.  A direct write has nothing   *)
(* left to rename.                                                          *)
CopyOf(ss) == Obj("file", ss.stamp, ss.stamp, ss.meta, FALSE)

Install(r, n) ==
    /\ T(r, n).st = "checked"
    /\ \/ /\ T(r, n).direct
          /\ fs' = IF fs.obj[n].by = r THEN [fs EXCEPT !.obj[n] = CopyOf(T(r, n).ss)] ELSE fs
          /\ Becomes(r, Copied(Dropped(runs[r], n), n))
       \/ /\ ~T(r, n).direct /\ T(r, n).tag \in fs.temps /\ fs.obj[n].type # "dir"
          /\ fs' = [Put(fs, n, CopyOf(T(r, n).ss)) EXCEPT !.temps = @ \ {T(r, n).tag}]
          /\ Becomes(r, Copied(Dropped(runs[r], n), n))
       \/ /\ ~T(r, n).direct /\ ~(T(r, n).tag \in fs.temps /\ fs.obj[n].type # "dir")
          /\ Drop(r, n)
    /\ UNCHANGED <<world, job, journal>>

(***************************************************************************)
(* The end of a run, and the phases of the pass                            *)
(***************************************************************************)
Quiescent(r) == \A n \in Names : T(r, n).st = "none"

(* The journal is acked before the result; the result counts only under     *)
(* the lease.                                                               *)
Journaled(r, dirs) ==
    IF runs[r].pass # pass.no THEN journal
    ELSE [journal EXCEPT !.verify  = @ \cup runs[r].copied \cup runs[r].fixed,
                         !.skipped = @ \cup runs[r].skipped,
                         !.dirs    = @ \o dirs]

Holds(r) == shards[runs[r].shard].run = r /\ runs[r].pass = pass.no

Report(r, dirs) ==
    /\ journal' = Journaled(r, dirs)
    /\ runs' = [runs EXCEPT ![r] = Idle]
    /\ IF Holds(r)
       THEN /\ shards' = [shards EXCEPT ![runs[r].shard] = Shard("DONE", 0)]
            /\ pass' = [pass EXCEPT !.delta = @ \/ runs[r].delta, !.err = @ \/ runs[r].err]
       ELSE UNCHANGED <<shards, pass>>
    /\ UNCHANGED <<world, opts, faults, calm, synced>>

(* dpend_wait, then the directory's own metadata and its DIR_META record;   *)
(* a split directory was stamped by its sweep.                              *)
FinishDir(r) ==
    /\ runs[r].pc = "walk" /\ runs[r].todo = {} /\ Quiescent(r)
    /\ runs[r].shard = DirShard
    /\ fs' = IF opts.big THEN fs ELSE Stamped(fs, r)
    /\ Report(r, <<runs[r].sdir>>)

FinishOther(r) ==
    /\ runs[r].pc = "walk" /\ runs[r].todo = {} /\ Quiescent(r)
    /\ runs[r].shard # DirShard
    /\ fs' = fs
    /\ Report(r, <<>>)

Drained == \A s \in ShardIds : shards[s].state \in {"NONE", "DONE"}

(* What the next phases are seeded from: every DIR_META record in journal   *)
(* order, repeated ones too, and every COPIED or META_FIXED name.  Without  *)
(* records there is no shard.                                               *)
seedNoDirfix == <<>>  \* mutant
seedDirfix == journal.dirs
seedVerify == journal.verify

Seed(s, empty) == IF empty THEN shards ELSE [shards EXCEPT ![s] = Shard("QUEUED", 0)]

ScanDone ==
    /\ pass.phase = "SCAN" /\ Drained
    /\ pass' = [pass EXCEPT !.phase = "DIRFIX", !.fix = seedDirfix]
    /\ shards' = Seed(DirfixShard, seedDirfix = <<>>)
    /\ UNCHANGED <<world, fs, opts, journal, runs, faults, calm, synced>>

(* process_dirfix stamps the directory, whatever is still written to it. *)
process_dirfix(r) ==
    /\ Begin(r, DirfixShard)
    /\ fs' = Stamped(fs, r)
    /\ runs' = [runs EXCEPT ![r].pc = "walk"]
    /\ UNCHANGED <<world, job, journal>>

DirfixDone ==
    /\ pass.phase = "DIRFIX" /\ Drained
    /\ pass' = [pass EXCEPT !.phase = "VERIFY", !.check = seedVerify]
    /\ shards' = Seed(VerifyShard, seedVerify = {})
    /\ UNCHANGED <<world, fs, opts, journal, runs, faults, calm, synced>>

(* process_verify: the next entry only after the recopy of the last. *)
process_verify(r) ==
    /\ Begin(r, VerifyShard)
    /\ runs' = [runs EXCEPT ![r].pc = "walk"]
    /\ UNCHANGED <<world, fs, job, journal>>

(* check_entry: type, mtime and metadata; the content only of the regular   *)
(* files the sample picks, a link's target never.                           *)
check_entry(n, checksum) ==
    LET s == src.obj[n]
        d == fs.obj[n]
    IN \/ s.type = "none"
       \/ /\ s.type = d.type /\ s.meta = d.meta
          /\ s.type # "dir" => s.stamp = d.stamp
          /\ checksum /\ s.type = "file" => s.data = d.data

VerifyEntry(r) ==
    /\ runs[r].pc = "walk" /\ runs[r].shard = VerifyShard /\ runs[r].todo # {} /\ Quiescent(r)
    /\ LET n == NextEntry(r)
           t == [NoTask EXCEPT !.st = "queued", !.ss = src.obj[n]]
       IN \E checksum \in BOOLEAN :
              Becomes(r, IF check_entry(n, checksum) \/ src.obj[n].type # "file" \/ opts.dry
                         THEN Past(r) ELSE [Past(r) EXCEPT !.tasks[n] = t])
    /\ UNCHANGED <<world, fs, job, journal>>

VerifyDone ==
    /\ pass.phase = "VERIFY" /\ Drained
    /\ pass' = [pass EXCEPT !.phase = "DECIDE"]
    /\ UNCHANGED <<world, fs, opts, shards, journal, runs, faults, calm, synced>>

(* decideNextPass: a pass that copied and fixed nothing ends the job. *)
Converged == ~pass.delta

decideNextPass ==
    /\ pass.phase = "DECIDE"
    /\ \/ /\ Converged \/ pass.no = MaxPasses \/ opts.dry
          /\ pass' = [pass EXCEPT !.phase = "DONE"]
          /\ UNCHANGED <<shards, journal, calm, synced>>
       \/ /\ ~(Converged \/ pass.no = MaxPasses \/ opts.dry)
          /\ pass' = NewPass(pass.no + 1)
          /\ shards' = FirstShard
          /\ journal' = EmptyJournal
          /\ calm' = \A r \in Runs : runs[r].pc = "idle"
          /\ synced' = Agree
    /\ UNCHANGED <<world, fs, opts, runs, faults>>

(***************************************************************************)
(* The source's users, and faults                                          *)
(***************************************************************************)
Change ==
    /\ clock < MaxClock /\ clock' = clock + 1
    /\ pass.phase # "DONE"
    /\ calm' = FALSE
    /\ UNCHANGED <<fs, opts, pass, shards, journal, faults, synced>>

(* A write in place: an open copy reads the same inode. *)
Write(n) ==
    /\ Change
    /\ src.obj[n].type = "file"
    /\ src' = [src EXCEPT !.obj[n].stamp = 2 * clock', !.obj[n].data = 2 * clock']
    /\ UNCHANGED runs

(* The name is removed, or bound to a new object: an open copy keeps the    *)
(* inode it has.                                                            *)
Replace(n, type) ==
    /\ Change
    /\ type # "none" \/ src.obj[n].type # "none"
    /\ src' = [dir |-> 2 * clock', obj |-> [src.obj EXCEPT ![n] = SrcObj(type, clock')]]
    /\ runs' = [r \in Runs |->
                  IF T(r, n).st \in {"open", "checked"} /\ T(r, n).in = 0
                  THEN [runs[r] EXCEPT !.tasks[n].in = src.obj[n].stamp] ELSE runs[r]]

(* chown, chmod or setxattr: the mtime stays. *)
Chmod(n) ==
    /\ Change
    /\ src.obj[n].type = "file"
    /\ src' = [src EXCEPT !.obj[n].meta = 1 - @]
    /\ UNCHANGED runs

Fault(f) == f \in Faults /\ faults < MaxFaults /\ faults' = faults + 1

ExpireKeepsRun(s) ==  \* mutant
    /\ Fault("expire")
    /\ shards[s].state = "LEASED"
    /\ shards' = [shards EXCEPT ![s].state = "QUEUED"]
    /\ calm' = FALSE
    /\ UNCHANGED <<world, fs, opts, pass, journal, runs, synced>>

(* The lease of a run at work expires; the shard is queued again. *)
Expire(s) ==
    /\ Fault("expire")
    /\ shards[s].state = "LEASED"
    /\ shards' = [shards EXCEPT ![s] = Shard("QUEUED", 0)]
    /\ calm' = FALSE
    /\ UNCHANGED <<world, fs, opts, pass, journal, runs, synced>>

(* The agent dies: what it had on disk stays there, its journal buffer is   *)
(* lost, and its lease expires.                                             *)
Crash(r) ==
    /\ Fault("crash")
    /\ runs[r].pc # "idle"
    /\ runs' = [runs EXCEPT ![r] = Idle]
    /\ fs' = [fs EXCEPT !.obj = [n \in Names |-> [@[n] EXCEPT !.by = IF @ = r THEN 0 ELSE @]]]
    /\ shards' = IF Holds(r) THEN [shards EXCEPT ![runs[r].shard] = Shard("QUEUED", 0)] ELSE shards
    /\ UNCHANGED <<world, opts, pass, journal, calm, synced>>

(***************************************************************************)
(* Specification                                                           *)
(***************************************************************************)
Walk(r) ==
    \/ \E s \in ShardIds : Grant(r, s)
    \/ walk_dir(r) \/ entrylist_walk(r) \/ handle_orphan(r)
    \/ SkipEntry(r) \/ DirEntry(r) \/ SkipNewer(r) \/ CleanFile(r) \/ FixMeta(r)
    \/ WouldCopy(r) \/ cp_submit(r) \/ copy_symlink(r) \/ NodeEntry(r)
    \/ FinishDir(r) \/ FinishOther(r)
    \/ process_dirfix(r) \/ process_verify(r) \/ VerifyEntry(r)

Copy(r, n) ==
    \/ OpenFails(r, n) \/ OpenDirect(r, n) \/ OpenTemp(r, n)
    \/ GenCheck(r, n) \/ CopyFails(r, n) \/ Install(r, n)

Control == ScanDone \/ DirfixDone \/ VerifyDone \/ decideNextPass

Users == \E n \in Names : Write(n) \/ Chmod(n) \/ \E type \in SrcTypes : Replace(n, type)

Next ==
    \/ \E r \in Runs : Walk(r) \/ Crash(r) \/ \E n \in Names : Copy(r, n)
    \/ Control \/ Users
    \/ \E s \in ShardIds : Expire(s)

Spec == Init /\ [][Next]_vars

(***************************************************************************)
(* Properties                                                              *)
(***************************************************************************)
(* The diff may trust a stamp: a destination file with the mtime (and size) *)
(* of the source's current version has its content, whatever crashed, was   *)
(* replaced or overlapped before.  This is what the order of copy_file_task *)
(* (data, generation check, utimens, rename) is for.                        *)
NoFalseClean ==
    \A n \in Names : /\ src.obj[n].type = "file" /\ fs.obj[n].type = "file"
                     /\ src.obj[n].stamp = fs.obj[n].stamp
                     => fs.obj[n].data = src.obj[n].data

(* A pass during which the source stood still and no lease expired, and     *)
(* that reports no error, leaves every name equal to the source's, or       *)
(* reported as skipped because newer; what the source does not have is      *)
(* reported as an orphan; and the directory has the source's mtime.  Agents *)
(* may have crashed in it.                                                  *)
Mirrored ==
    /\ \A n \in Names : ~Ignored(n) =>
          \/ Same(src.obj[n], fs.obj[n])
          \/ n \in journal.skipped
          \/ src.obj[n].type = "none" /\ n \in journal.orphans
    /\ fs.dir = src.dir

MirroredWhenClean == pass.phase = "DECIDE" /\ calm /\ ~pass.err /\ ~opts.dry => Mirrored

(* A pass over trees that agree changes no entry, copies and fixes nothing, *)
(* and so is the last one, as long as the source stands still and no lease  *)
(* expires.  It may reclaim temps, and it stamps the directory.             *)
IdempotentPass ==
    [][synced /\ calm /\ calm' => fs'.obj = fs.obj /\ ~pass'.delta]_vars

(* The temp of a copy under way disappears under it only when a walk of     *)
(* another pass sweeps it.  Runs of the same pass spare it, though it may   *)
(* be another run's: the pass in its name tells handle_orphan that it may   *)
(* be live.  The exception is real: a walk that outlived its lease may list *)
(* the directory in the next pass and takes that pass's temps for residue.  *)
InCopy(t) == t.st \in {"open", "checked"} /\ ~t.direct /\ t.tag \in fs.temps
SweptByOther(p) ==
    \E q \in Runs : runs[q].pc = "sweep" /\ runs'[q].pc = "walk" /\ runs[q].pass # p


(* A dry run leaves the destination as it is, in every phase. *)
DryRunWritesNothing == [][opts.dry => fs' = fs]_vars

(* A partial file at its final name, left by a crashed direct write, is     *)
(* copied again by the next undisturbed pass ("the next pass re-copies it   *)
(* -- the diff sees the size/mtime mismatch", copy.c).  Not kept by the     *)
(* code when copy.on_dest_newer is skip: the partial file is newer.         *)
TornRecopied ==
    pass.phase = "DECIDE" /\ calm /\ ~pass.err /\ ~opts.dry
    => \A n \in Names : fs.obj[n].type = "file" => fs.obj[n].data # Torn

(* A pass that copied and fixed nothing is a fixpoint: the trees agree      *)
(* (decideNextPass).  Not kept by the code when the pass had errors.        *)
FixpointAgrees == pass.phase = "DECIDE" /\ calm /\ Converged /\ ~opts.dry => Mirrored

=============================================================================
