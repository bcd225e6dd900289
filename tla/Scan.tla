---------------------------------- MODULE Scan ---------------------------------
(***************************************************************************)
(* The scan pipeline: core/scan/scanner.py walks one scope root with the   *)
(* thread pool of core/enum/batchwalk.py, stages what it reads, and folds  *)
(* the staged rows into the catalog with core/store/catalog.py.            *)
(*                                                                         *)
(* Each element of Proc is a program with a connection of its own (the     *)
(* command line, the window).  SQLite in WAL mode lets one of them write   *)
(* at a time: `tx' is the catalog as the holder of the write lock sees it, *)
(* `cat' is what is committed.  The world changes the drive under a scan.  *)
(***************************************************************************)
EXTENDS CatalogTables

CONSTANTS
    Proc,            \* connections that may run a scan
    NoProc,          \* nobody holds the write lock
    ExcludeChoices,  \* the exclusion sets a scan may be started with
    InitialDisk,     \* the tree on the drive at the start
    BatchRows,       \* BATCH_ROWS: rows held in memory before a flush
    CheckpointRows,  \* CHECKPOINT_ROWS: staged rows between two commits
    StatMayFail,     \* whether the drive can list entries it cannot stat
    MaxChanges,      \* bound: changes the world makes to the drive
    MaxCrashes       \* bound: crashes of a scanning program

Kind     == Stamp \cup {"absent", "dir", "link"}
Observed == Kind \cup {"unknown"}

ASSUME ProcAssumption == NoProc \notin Proc
ASSUME ExcludeAssumption == ExcludeChoices \subseteq SUBSET Entry
ASSUME DiskAssumption == InitialDisk \in [Entry -> Kind]
ASSUME BoundAssumption ==
    /\ BatchRows \in Nat \ {0}
    /\ CheckpointRows \in Nat \ {0}
    /\ StatMayFail \in BOOLEAN
    /\ MaxChanges \in Nat
    /\ MaxCrashes \in Nat

VARIABLES
    disk,     \* what each place holds
    nolist,   \* directories whose listing fails now
    nostat,   \* directories whose entries cannot be stat'ed now
    cat,      \* the committed catalog
    tx,       \* the catalog inside the open write transaction
    lock,     \* who holds the write lock
    proc,     \* the state of each scanning connection
    stale,    \* connections whose read snapshot another commit overtook
    changes, crashes

world == <<disk, nolist, nostat>>
vars  == <<disk, nolist, nostat, cat, tx, lock, proc, stale, changes, crashes>>

--------------------------------------------------------------------------------
ScanState == {"unused", "running", "done", "failed", "aborted"}

Catalog ==
    [dir    : [Dir -> DirRow],
     file   : [Entry -> FileRow],
     staged : [ScanId -> [Entry -> Facts \cup {"none"}]],   \* stage_file
     listed : [ScanId -> SUBSET Dir],                       \* stage_dir
     scan   : [ScanId -> ScanState],
     audit  : SUBSET ScanId,
     rollup : [Dir -> SUBSET Entry]]

EmptyCatalog ==
    [dir    |-> [d \in Dir |-> NoDirRow],
     file   |-> [n \in Entry |-> NoFileRow],
     staged |-> [i \in ScanId |-> [n \in Entry |-> "none"]],
     listed |-> [i \in ScanId |-> {}],
     scan   |-> [i \in ScanId |-> "unused"],
     audit  |-> {},
     rollup |-> [d \in Dir |-> {}]]

Step == {"idle", "begun", "walk", "merge", "merging", "rollup", "refuse", "finish", "audit"}

(***************************************************************************)
(* A directory is queued (submitted to the pool), listed or denied (its    *)
(* result waits), then read or unread (the scanner consumed the result),   *)
(* or unplaced (the scanner never interned it).                            *)
(***************************************************************************)
WalkState == {"none", "queued", "listed", "denied", "read", "unread", "unplaced"}

Local ==
    [pc      : Step,
     id      : 0 .. MaxScans,
     excl    : ExcludeChoices \cup {{}},
     walk    : [Dir -> WalkState],
     saw     : [Entry -> Observed],  \* the listings, as they were returned
     placed  : SUBSET Dir,           \* dir_ids: interned, listing not consumed
     cur     : SUBSET Dir,           \* the directory being recorded, if any
     left    : SUBSET Entry,         \* its entries not yet recorded
     pending : SUBSET Entry,         \* file rows not yet flushed
     fresh   : SUBSET Dir,           \* listed_dirs not yet flushed
     since   : Nat,                  \* since_checkpoint
     outcome : ScanState,
     calm    : BOOLEAN,              \* ghost: nothing interfered since Begin
     before  : SUBSET Dir]           \* ghost: live directories at Begin

Idle ==
    [pc |-> "idle", id |-> 0, excl |-> {},
     walk |-> [d \in Dir |-> "none"], saw |-> [n \in Entry |-> "absent"],
     placed |-> {}, cur |-> {}, left |-> {}, pending |-> {}, fresh |-> {},
     since |-> 0, outcome |-> "unused", calm |-> FALSE, before |-> {}]

Init ==
    /\ disk = InitialDisk
    /\ nolist = {}
    /\ nostat = {}
    /\ cat = EmptyCatalog
    /\ tx = EmptyCatalog
    /\ lock = NoProc
    /\ proc = [p \in Proc |-> Idle]
    /\ stale = {}
    /\ changes = 0
    /\ crashes = 0

--------------------------------------------------------------------------------
(***************************************************************************)
(* The write lock.  A statement outside a transaction commits by itself;   *)
(* inside one it takes the lock and keeps it until COMMIT or ROLLBACK.     *)
(* Every commit overtakes the read snapshots that are open.                *)
(***************************************************************************)
CanWrite(p) == lock \in {NoProc, p}

Overtaken(p) == {q \in Proc \ {p} : proc[q].pc = "merging"}

Commit(p, new) ==
    /\ CanWrite(p)
    /\ cat' = new
    /\ tx' = new
    /\ lock' = NoProc
    /\ stale' = stale \cup Overtaken(p)

Write(p, new) ==
    /\ CanWrite(p)
    /\ tx' = new
    /\ lock' = p
    /\ UNCHANGED <<cat, stale>>

NoWrite == UNCHANGED <<cat, tx, lock, stale>>

\* ROLLBACK, or the connection closing: uncommitted rows are as if never written.
Rollback(p) ==
    /\ IF lock = p THEN tx' = cat /\ lock' = NoProc ELSE UNCHANGED <<tx, lock>>
    /\ UNCHANGED <<cat, stale>>

Goto(p, l) == proc' = [proc EXCEPT ![p] = l]
Quiet == UNCHANGED <<disk, nolist, nostat, changes, crashes>>

--------------------------------------------------------------------------------
(* Enumeration *)

\* begin_scan.  A second scan that starts ends the calm of the first.
LiveDirs == {d \in Dir \ {Root} : cat.dir[d].st = "live"}

Begin(p, x) ==
    LET busy == \E q \in Proc \ {p} : proc[q].pc # "idle" IN
    /\ proc[p].pc = "idle"
    /\ \E id \in ScanId :
         /\ \A i \in ScanId : cat.scan[i] = "unused" <=> i >= id
         /\ Commit(p, [cat EXCEPT !.scan[id] = "running"])
         /\ proc' = [q \in Proc |->
                       IF q = p
                       THEN [Idle EXCEPT !.pc = "begun", !.id = id, !.excl = x,
                                         !.calm = ~busy, !.before = LiveDirs]
                       ELSE [proc[q] EXCEPT !.calm = FALSE]]
    /\ Quiet

\* The root directory's row is interned outside the transaction that follows.
InternRoot(p) ==
    LET l == proc[p] IN
    /\ l.pc = "begun"
    /\ Commit(p, [cat EXCEPT !.dir = InternDir(@, Root, l.id)])
    /\ Goto(p, [l EXCEPT !.pc = "walk", !.walk[Root] = "queued", !.placed = {Root}])
    /\ Quiet

\* A pool thread lists one directory; what it returns may be consumed much later.
IsThere(d) == d # Root => disk[d] = "dir"

\* An entry that cannot be stat'ed comes back as no directory, whatever it is;
\* a symbolic link is known from the listing itself.
Look(n) ==
    IF Parent[n] \in nostat /\ disk[n] \notin {"absent", "link"} THEN "unknown" ELSE disk[n]

List(p, d) ==
    LET l == proc[p] IN
    /\ l.pc = "walk"
    /\ l.walk[d] = "queued"
    /\ IF IsThere(d) /\ d \notin nolist
       THEN Goto(p, [l EXCEPT !.walk[d] = "listed",
                              !.saw = [n \in Entry |-> IF Parent[n] = d THEN Look(n) ELSE @[n]]])
       ELSE Goto(p, [l EXCEPT !.walk[d] = "denied"])
    /\ NoWrite
    /\ Quiet

(***************************************************************************)
(* The scanner consumes one result.  Listed directories are staged in      *)
(* batches, because the merge may tombstone only inside them.              *)
(***************************************************************************)
TakeUnusable(p, d) ==
    LET l == proc[p] IN
    /\ l.pc = "walk" /\ l.cur = {}
    /\ l.walk[d] = "denied" \/ (l.walk[d] = "listed" /\ d \notin l.placed)
    /\ Goto(p, [l EXCEPT !.walk[d] = IF d \in l.placed THEN "unread" ELSE "unplaced",
                         !.placed = @ \ {d}])
    /\ NoWrite
    /\ Quiet

TakeListed(p, d) ==
    LET l     == proc[p]
        fresh == l.fresh \cup {d}
        full  == Cardinality(fresh) >= BatchRows
    IN  /\ l.pc = "walk" /\ l.cur = {}
        /\ l.walk[d] = "listed"
        /\ d \in l.placed
        /\ IF full
           THEN Write(p, [tx EXCEPT !.listed[l.id] = @ \cup fresh])
           ELSE NoWrite
        /\ Goto(p, [l EXCEPT !.walk[d] = "read", !.placed = @ \ {d},
                             !.cur = {d},
                             !.left = {n \in Children(d) : l.saw[n] # "absent"},
                             !.fresh = IF full THEN {} ELSE fresh])
        /\ Quiet

\* The scanner's rules for one entry: what it skips, what it interns, what it stages.
Skipped(l, n)    == n \in l.excl \/ l.saw[n] = "link"
RecordedDir(l, n)  == ~Skipped(l, n) /\ l.saw[n] = "dir" /\ n \in Dir

RecordedFile(l, n) == ~Skipped(l, n) /\ l.saw[n] \in Facts

\* The walker's own rule for going down, which has to agree with the scanner's.
ShouldDescend(l, n) == n \in Dir /\ l.saw[n] = "dir" /\ n \notin l.excl

RecordSkip(p, n) ==
    LET l == proc[p] IN
    /\ l.pc = "walk" /\ n \in l.left
    /\ Skipped(l, n)
    /\ Goto(p, [l EXCEPT !.left = @ \ {n}])
    /\ NoWrite
    /\ Quiet

RecordDir(p, n) ==
    LET l == proc[p] IN
    /\ l.pc = "walk" /\ n \in l.left
    /\ RecordedDir(l, n)
    /\ Write(p, [tx EXCEPT !.dir = InternDir(@, n, l.id)])
    /\ Goto(p, [l EXCEPT !.left = @ \ {n}, !.placed = @ \cup {n}])
    /\ Quiet

Staged(t, l, ns) ==
    [t EXCEPT !.staged[l.id] = [n \in Entry |-> IF n \in ns THEN l.saw[n] ELSE @[n]]]

\* A full batch is flushed, and every CheckpointRows flushed rows are committed.
RecordFile(p, n) ==
    LET l       == proc[p]
        pending == l.pending \cup {n}
        full    == Cardinality(pending) >= BatchRows
        since   == l.since + Cardinality(pending)
        commit  == full /\ since >= CheckpointRows
    IN  /\ l.pc = "walk" /\ n \in l.left
        /\ RecordedFile(l, n)
        /\ CASE commit          -> Commit(p, Staged(tx, l, pending))
             [] full /\ ~commit -> Write(p, Staged(tx, l, pending))
             [] ~full           -> NoWrite
        /\ Goto(p, [l EXCEPT !.left = @ \ {n},
                             !.pending = IF full THEN {} ELSE pending,
                             !.since = IF commit THEN 0 ELSE IF full THEN since ELSE @])
        /\ Quiet

\* The generator resumes: the walker submits the children of the directory just recorded.
Descend(p) ==
    LET l == proc[p] IN
    /\ l.pc = "walk" /\ l.cur # {} /\ l.left = {}
    /\ Goto(p, [l EXCEPT !.cur = {},
                         !.walk = [d \in Dir |->
                             IF /\ d # Root
                                /\ Parent[d] \in l.cur
                                /\ ShouldDescend(l, d)
                             THEN "queued" ELSE @[d]]])
    /\ NoWrite
    /\ Quiet

WalkOver(l) ==
    /\ l.pc = "walk"
    /\ l.cur = {}
    /\ \A d \in Dir : l.walk[d] \notin {"queued", "listed", "denied"}

\* The last partial batches are flushed and the enumeration is committed.
EndWalk(p) ==
    LET l   == proc[p]
        new == [Staged(tx, l, l.pending) EXCEPT !.listed[l.id] = @ \cup l.fresh]
    IN  /\ WalkOver(l)
        /\ IF lock = p \/ l.pending # {} \/ l.fresh # {}
           THEN Commit(p, new)
           ELSE NoWrite
        /\ Goto(p, [l EXCEPT !.pc = IF l.walk[Root] = "read" THEN "merge" ELSE "refuse",
                             !.pending = {}, !.fresh = {}])
        /\ Quiet

\* Any exception inside the enumeration, or a cancel seen between two listings.
Abort(p, outcome) ==
    LET l == proc[p] IN
    /\ l.pc = "walk"
    /\ outcome = "aborted" => \E d \in Dir : l.walk[d] \in {"listed", "denied"} \/ d \in l.cur
    /\ Rollback(p)
    /\ Goto(p, [l EXCEPT !.pc = "finish", !.outcome = outcome])
    /\ Quiet

--------------------------------------------------------------------------------
(* Merge, rollups, bookkeeping *)

\* Mutated form: the staging table of directories is forgotten.
ClearStageFilesOnly(t, id) == [t EXCEPT !.staged[id] = [n \in Entry |-> "none"]]

ClearStage(t, id) ==
    [t EXCEPT !.staged[id] = [n \in Entry |-> "none"], !.listed[id] = {}]

\* _refuse_merge: the root was not listed, so nothing may be concluded from it.
Refuse(p) ==
    LET l == proc[p] IN
    /\ l.pc = "refuse"
    /\ Commit(p, ClearStage(cat, l.id))
    /\ Goto(p, [l EXCEPT !.pc = "finish", !.outcome = "failed"])
    /\ Quiet

\* merge_scan opens a deferred transaction whose first statement only reads.
MergeRead(p) ==
    /\ proc[p].pc = "merge"
    /\ stale' = stale \ {p}
    /\ Goto(p, [proc[p] EXCEPT !.pc = "merging"])
    /\ UNCHANGED <<cat, tx, lock>>
    /\ Quiet

Merged(t, id) ==
    LET files == Upsert(t.file, t.staged[id], id)
        L     == t.listed[id]
    IN  ClearStage([t EXCEPT
            !.file = TombstoneFiles(files, VanishedFiles(t.dir, files, L, id)),
            !.dir  = TombstoneDirs(t.dir, GoneDirs(t.dir, L, id))], id)

Merge(p) ==
    LET l == proc[p] IN
    /\ l.pc = "merging"
    /\ p \notin stale
    /\ Commit(p, Merged(cat, l.id))
    /\ Goto(p, [l EXCEPT !.pc = "rollup"])
    /\ Quiet

\* Mutated form: an overtaken merge starts over instead of raising.
MergeRetried(p) ==
    /\ proc[p].pc = "merging"
    /\ p \in stale
    /\ stale' = stale \ {p}
    /\ Goto(p, [proc[p] EXCEPT !.pc = "merge"])
    /\ UNCHANGED <<cat, tx, lock>>
    /\ Quiet

\* Its first write cannot follow a snapshot that was overtaken: SQLITE_BUSY_SNAPSHOT.
\* scan_root does not catch what merge_scan raises, so the scan row stays "running".
MergeOvertaken(p) ==
    /\ proc[p].pc = "merging"
    /\ p \in stale
    /\ stale' = stale \ {p}
    /\ Goto(p, Idle)
    /\ UNCHANGED <<cat, tx, lock>>
    /\ Quiet

\* Mutated form: the totals are not rebuilt after a merge.
RollupSkipped(p) ==
    LET l == proc[p] IN
    /\ l.pc = "rollup"
    /\ Commit(p, cat)
    /\ Goto(p, [l EXCEPT !.pc = "finish", !.outcome = "done"])
    /\ Quiet

\* rebuild_rollups, in a transaction of its own.
Rollup(p) ==
    LET l == proc[p] IN
    /\ l.pc = "rollup"
    /\ Commit(p, [cat EXCEPT !.rollup = LiveBeneath(cat.dir, cat.file)])
    /\ Goto(p, [l EXCEPT !.pc = "finish", !.outcome = "done"])
    /\ Quiet

\* finish_scan updates the scan's row, then appends to the audit log on its own.
Finish(p) ==
    LET l == proc[p] IN
    /\ l.pc = "finish"
    /\ Commit(p, [cat EXCEPT !.scan[l.id] = l.outcome])
    /\ Goto(p, [l EXCEPT !.pc = "audit"])
    /\ Quiet

Audit(p) ==
    LET l == proc[p] IN
    /\ l.pc = "audit"
    /\ Commit(p, [cat EXCEPT !.audit = @ \cup {l.id}])
    /\ Goto(p, Idle)
    /\ Quiet

--------------------------------------------------------------------------------
(* Failures and the world *)

\* The busy timeout runs out while another connection holds the lock.  Inside
\* the enumeration scan_root catches it (Abort); elsewhere it ends the call.
GiveUp(p) ==
    /\ proc[p].pc \in {"begun", "merging", "rollup", "refuse", "finish", "audit"}
    /\ ~CanWrite(p)
    /\ stale' = stale \ {p}
    /\ Goto(p, Idle)
    /\ UNCHANGED <<cat, tx, lock>>
    /\ Quiet

Crash(p) ==
    /\ proc[p].pc # "idle"
    /\ crashes < MaxCrashes
    /\ crashes' = crashes + 1
    /\ IF lock = p THEN tx' = cat /\ lock' = NoProc ELSE UNCHANGED <<tx, lock>>
    /\ stale' = stale \ {p}
    /\ Goto(p, Idle)
    /\ UNCHANGED <<cat, disk, nolist, nostat, changes>>

\* Any other connection to the catalog commits something of its own.
OtherWriter ==
    /\ lock = NoProc
    /\ stale' = stale \cup {q \in Proc : proc[q].pc = "merging"}
    /\ UNCHANGED <<cat, tx, lock, proc>>
    /\ Quiet

Change ==
    /\ changes < MaxChanges
    /\ changes' = changes + 1
    /\ proc' = [p \in Proc |-> [proc[p] EXCEPT !.calm = FALSE]]
    /\ UNCHANGED <<cat, tx, lock, stale, crashes>>

\* A file, a directory or a link appears, or takes the place of what was there.
Place(n, k) ==
    /\ Change
    /\ IsThere(Parent[n])
    /\ disk[n] # k
    /\ k = "dir" => n \in Dir
    /\ disk' = [m \in Entry |-> IF m = n THEN k
                                ELSE IF n \in Above[m] THEN "absent" ELSE disk[m]]
    /\ UNCHANGED <<nolist, nostat>>

\* A directory stops, or starts, being listable; for the root, the drive is unplugged.
ToggleList(d) ==
    /\ Change
    /\ nolist' = IF d \in nolist THEN nolist \ {d} ELSE nolist \cup {d}
    /\ UNCHANGED <<disk, nostat>>

\* A directory stops, or starts, letting its entries be stat'ed (POSIX search permission).
ToggleStat(d) ==
    /\ Change
    /\ StatMayFail
    /\ nostat' = IF d \in nostat THEN nostat \ {d} ELSE nostat \cup {d}
    /\ UNCHANGED <<disk, nolist>>

World ==
    \/ \E n \in Entry, k \in Kind : Place(n, k)
    \/ \E d \in Dir : ToggleList(d) \/ ToggleStat(d)

ScanStep(p) ==
    \/ InternRoot(p)
    \/ \E d \in Dir : List(p, d) \/ TakeUnusable(p, d) \/ TakeListed(p, d)
    \/ \E n \in Entry : RecordSkip(p, n) \/ RecordDir(p, n) \/ RecordFile(p, n)
    \/ Descend(p) \/ EndWalk(p)
    \/ Abort(p, "failed") \/ Abort(p, "aborted")
    \/ Refuse(p) \/ MergeRead(p) \/ Merge(p) \/ MergeOvertaken(p)
    \/ Rollup(p) \/ Finish(p) \/ Audit(p) \/ GiveUp(p)

Next ==
    \/ \E p \in Proc : \/ \E x \in ExcludeChoices : Begin(p, x)
                       \/ ScanStep(p)
                       \/ Crash(p)
    \/ OtherWriter
    \/ World

Spec == Init /\ [][Next]_vars

(***************************************************************************)
(* Every thread that can take a step is eventually run, and a lock that is *)
(* waited for is obtained or given up after the busy timeout.              *)
(***************************************************************************)
FairSpec == Spec /\ \A p \in Proc : WF_vars(ScanStep(p))

--------------------------------------------------------------------------------
(* Properties *)

\* Every variable has its type: in particular a place never holds a staged row
\* for a directory.
TypeOK ==
    /\ disk \in [Entry -> Kind]
    /\ nolist \subseteq Dir
    /\ nostat \subseteq Dir
    /\ cat \in Catalog
    /\ tx \in Catalog
    /\ lock \in Proc \cup {NoProc}
    /\ proc \in [Proc -> Local]
    /\ stale \subseteq Proc
    /\ changes \in 0 .. MaxChanges
    /\ crashes \in 0 .. MaxCrashes

\* A scan's staged rows and its merged rows are never both in the committed
\* catalog, and a scan recorded as done has left nothing staged: the merge and
\* the clearing of stage_file and stage_dir are one transaction, whatever fails.
StagedXorMerged ==
    \A i \in ScanId :
        (cat.listed[i] # {} \/ \E n \in Entry : cat.staged[i][n] # "none")
            => /\ cat.scan[i] # "done"
               /\ \A n \in Entry : cat.file[n].seen # i

\* Every listing the walker delivers has a directory row to go under: the
\* traversal and the recording rules agree (ScanCounters.unplaced stays zero).
NoUnplaced ==
    \A p \in Proc, d \in Dir : proc[p].walk[d] # "unplaced"

\* No live row hangs under a vanished directory: a later scan could never
\* reach such a row, neither to see it again nor to tombstone it.
LiveUnderLive ==
    /\ \A n \in Entry : cat.file[n].st = "live" => \A a \in Above[n] : cat.dir[a].st = "live"
    /\ \A d \in Dir : cat.dir[d].st = "live" => \A a \in Above[d] : cat.dir[a].st = "live"

\* The tree holds together: no listing without a row, no row without its parents.
TreeHolds == NoUnplaced /\ LiveUnderLive

(* An entry that the walk came to, and one that is not on the drive or is  *)
(* excluded, or is under such a directory.                                 *)
Reached(l, n) == \A a \in Above[n] : l.walk[a] = "read"

Absent(l, n) ==
    \E a \in (Above[n] \cup {n}) \ {Root} :
        /\ Reached(l, a) /\ Parent[a] \notin nostat
        /\ disk[a] # "dir" \/ a \in l.excl
        /\ a = n => disk[a] \notin Stamp

(***************************************************************************)
(* What a merged scan whose drive held still has established: under every  *)
(* directory it could list, the live file rows are the files on the drive  *)
(* with their current metadata, the live directory rows are the            *)
(* directories, and nothing lives under a directory that is not there.     *)
(***************************************************************************)
QuietScanExact ==
    \A p \in Proc :
        LET l == proc[p] IN
        l.calm /\ (l.pc = "rollup" \/ l.outcome = "done") =>
            \A n \in Entry :
                /\ Reached(l, n) /\ n \notin l.excl /\ Parent[n] \notin nostat =>
                     /\ (cat.file[n].st = "live") <=> (disk[n] \in Stamp)
                     /\ cat.file[n].st = "live" => cat.file[n].facts = disk[n]
                     /\ n \in Dir => ((cat.dir[n].st = "live") <=> (disk[n] = "dir"))
                /\ Absent(l, n) => /\ cat.file[n].st # "live"
                                   /\ n \in Dir => cat.dir[n].st # "live"

\* The newest scan, once recorded as done, leaves every directory's totals
\* counting exactly the live files beneath it.
RollupAgrees ==
    \A i \in ScanId :
        cat.scan[i] = "done" /\ (\A j \in ScanId : j > i => cat.scan[j] = "unused")
            => cat.rollup = LiveBeneath(cat.dir, cat.file)

\* A row is tombstoned only by a scan that listed the directory some entry on
\* the row's path belongs to and did not record that entry there: never on
\* account of a directory that was not listed, and never because another scan
\* overwrote what this one had recorded.
OnPath(n) == (Above[n] \cup {n}) \ {Root}

DirUnrecorded(l, a)  == l.walk[Parent[a]] = "read" /\ ~RecordedDir(l, a)
FileUnrecorded(l, n) == l.walk[Parent[n]] = "read" /\ ~RecordedFile(l, n)

FileGoes(n) == cat.file[n].st = "live" /\ cat'.file[n].st = "gone"
DirGoes(d)  == cat.dir[d].st = "live" /\ cat'.dir[d].st = "gone"

MergesNow(p) == proc[p].pc = "merging" /\ proc'[p].pc = "rollup"

TombstoneJustified ==
    [][/\ \A n \in Entry : FileGoes(n) =>
            \E p \in Proc : /\ MergesNow(p)
                            /\ \/ FileUnrecorded(proc[p], n)
                               \/ \E a \in Above[n] \ {Root} : DirUnrecorded(proc[p], a)
       /\ \A d \in Dir \ {Root} : DirGoes(d) =>
            \E p \in Proc : /\ MergesNow(p)
                            /\ \E a \in OnPath(d) : DirUnrecorded(proc[p], a)]_vars

\* However many scans overlap, a file row is tombstoned only if the merging scan
\* listed the file's directory and did not record the file there, or together
\* with a directory above it; and the topmost directory that goes is an entry of
\* a directory that scan listed.  What was not listed is unknown, not gone.
ListedGoes(p, a) == proc[p].walk[Parent[a]] = "read" /\ DirGoes(a)

UnlistedUntouched ==
    [][/\ \A n \in Entry : FileGoes(n) =>
            \E p \in Proc : /\ MergesNow(p)
                            /\ \/ FileUnrecorded(proc[p], n)
                               \/ \E a \in Above[n] \ {Root} : ListedGoes(p, a)
       /\ \A d \in Dir : DirGoes(d) =>
            \E p \in Proc : MergesNow(p) /\ \E a \in OnPath(d) : ListedGoes(p, a)]_vars

\* What the documentation promises of a tombstone: the listing of a directory
\* on the path did not contain the entry, or showed something else in its place.
Missing(l, e, kinds) == l.walk[Parent[e]] = "read" /\ l.saw[e] \in Kind \ kinds

GoneMeansMissing ==
    [][/\ \A n \in Entry : FileGoes(n) =>
            \E p \in Proc : /\ MergesNow(p)
                            /\ \/ Missing(proc[p], n, Stamp)
                               \/ \E a \in Above[n] \ {Root} : Missing(proc[p], a, {"dir"})
       /\ \A d \in Dir \ {Root} : DirGoes(d) =>
            \E p \in Proc : MergesNow(p) /\ \E a \in OnPath(d) : Missing(proc[p], a, {"dir"})]_vars

\* What the window tells the user of a cancelled scan: the catalog is as it
\* was before, here in which directories below the root it shows as present.
CancelKeepsCatalog ==
    \A p \in Proc : proc[p].outcome = "aborted" => LiveDirs = proc[p].before

\* Every scan's outcome is recorded: once no program is working on a scan, the
\* audit log has an entry for it.
OutcomeRecorded ==
    \A i \in ScanId :
        cat.scan[i] # "unused" /\ (\A p \in Proc : proc[p].id # i) => i \in cat.audit

\* Every scan that starts comes to an end, one way or another.
ScanEnds == \A p \in Proc : proc[p].pc # "idle" ~> proc[p].pc = "idle"

--------------------------------------------------------------------------------
(* The inductive invariant *)

Active(p) == proc[p].pc # "idle"

NothingStaged(t, i) == t.listed[i] = {} /\ \A n \in Entry : t.staged[i][n] = "none"

\* A directory is submitted only after its parent's entries were all recorded;
\* what waits to be recorded or flushed comes from a listing that was consumed;
\* nothing is walked before the root is interned, and a scan ends with an outcome.
WalkOK(l) ==
    /\ l.pc = "begun" => \A d \in Dir : l.walk[d] = "none"
    /\ l.pc = "finish" => l.outcome # "unused"
    /\ l.cur = {} => l.left = {}
    /\ \A d \in l.cur \cup l.fresh : l.walk[d] = "read"
    /\ \A n \in l.left \cup l.pending : l.walk[Parent[n]] = "read"
    /\ \A n \in l.pending : l.saw[n] \in Facts
    /\ \A d \in Dir \ {Root} :
          l.walk[d] # "none" => l.walk[Parent[d]] = "read" /\ Parent[d] \notin l.cur

WalkInv == \A p \in Proc : WalkOK(proc[p])

\* Scans in progress have rows of their own.
IdInv ==
    /\ \A p \in Proc : Active(p) => proc[p].id \in ScanId /\ cat.scan[proc[p].id] # "unused"
    /\ \A p, q \in Proc : Active(p) /\ Active(q) /\ p # q => proc[p].id # proc[q].id

\* Only a scan in its enumeration holds the lock, and inside its transaction it
\* touches neither file rows nor another scan's staging, and tombstones nothing.
TxInv ==
    /\ lock = NoProc => tx = cat
    /\ lock # NoProc =>
         /\ proc[lock].pc = "walk"
         /\ tx.file = cat.file
         /\ tx.scan = cat.scan
         /\ \A d \in Dir : cat.dir[d].st = "live" => tx.dir[d].st = "live"
         /\ \A i \in ScanId \ {proc[lock].id} :
              tx.staged[i] = cat.staged[i] /\ tx.listed[i] = cat.listed[i]

\* The directories staged for a scan are ones it listed and consumed.
ListedInv ==
    \A p \in Proc : Active(p) =>
        \A d \in cat.listed[proc[p].id] \cup tx.listed[proc[p].id] : proc[p].walk[d] = "read"

\* A scan that has not begun has no rows; one that has merged has nothing
\* staged and will stage nothing more.
MergeInv ==
    /\ \A i \in ScanId : cat.scan[i] = "unused" =>
         NothingStaged(cat, i) /\ \A n \in Entry : cat.file[n].seen # i
    /\ \A i \in ScanId : (cat.scan[i] = "done" \/ \E n \in Entry : cat.file[n].seen = i) =>
         /\ NothingStaged(cat, i)
         /\ \A p \in Proc : Active(p) /\ proc[p].id = i => proc[p].pc \in {"rollup", "finish", "audit"}
    /\ \A p \in Proc : (proc[p].pc = "rollup" \/ proc[p].outcome = "done") =>
         /\ Active(p)
         /\ proc[p].pc \in {"rollup", "finish", "audit"}
         /\ NothingStaged(cat, proc[p].id)

\* What every step of every program preserves.
StoreInv == TypeOK /\ WalkInv /\ IdInv /\ TxInv /\ ListedInv /\ MergeInv

\* No file is lost between a listing and the merge: whatever a scan has to record
\* of a directory it consumed is still to come, in the batch, or staged.
Kept(l, t) ==
    /\ l.pc \in {"merge", "merging"} => l.left = {} /\ l.pending = {}
    /\ l.pc \in {"walk", "merge", "merging"} =>
         \A n \in Entry : l.walk[Parent[n]] = "read" /\ RecordedFile(l, n) =>
            n \in l.left \cup l.pending \/ t.staged[l.id][n] # "none"

KeptInv == \A p \in Proc : Kept(proc[p], tx)

\* What the safety theorems of ScanProofs follow from.
ScanInv == StoreInv /\ KeptInv
=============================================================================
