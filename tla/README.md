# A verification project for Drive Fusion

Drive Fusion catalogues the files of many drives in one SQLite database, finds
what is duplicated or under-protected, plans consolidations and exports
manifests. It never writes to a drive. What it can get wrong is therefore what
it *says*: a file marked gone that is there, a copy counted that is not one, a
plan that gives a copy up, a scan reported as one thing that was another. The
modules here model the code that decides those statements, check it with TLC on
small instances, and prove what matters most with TLAPS.

Paths are relative to `src/` of the repository, and those without a top
directory to `src/drivefusion/`.

## 1. Inventory

| Component | State it keeps | Hard behaviour | What makes it correct | Modules |
|---|---|---|---|---|
| Scan pipeline (`core/scan/scanner.py`), walker (`core/enum/batchwalk.py`) | frontier, pending rows, listings in flight | hours long while the drive changes; checkpoints, cancellation, other programs on the catalog | a finished scan says what is on the drive; nothing unexamined is called gone | `Scan`, `CatalogTables` |
| Content identity (`core/identity`) | a pass in progress, content rows | files change between query, read and assignment; scans merge meanwhile | one identity, the same bytes; a mismatch means corruption | `Identity` |
| Gateway (`core/fsio.py`), readers (`core/identity/readers.py`) | queues and open files | objects change under a path; the caller stops | only what was checked is read; nothing is open afterwards | `Gateway` |
| Delta rescan (`core/enum/delta.py`, `journal.py`) | the journal's cursor | crashes between commits, failing listings, changes meanwhile | the cursor never passes what was not applied | `Delta` |
| Helper (`core/enum/helper`) | two processes and two pipes | death at any point, full pipes | a result is whole, a failure has its reason, nobody waits for ever | `Helper` |
| Schema (`core/store/schema.py`) | schema version, backup, search index | two programs migrating statement by statement, crashes | what says it is upgraded is; a backup is a catalog | `Migration` |
| Drives and volumes (`core/discovery`, `core/store/catalog.py`) | drive rows and how they were identified | serials that come and go behind bridges, clones, the user's word | copies are never over- or undercounted | `Drives`, `Redundancy` |
| Scope (`core/scope`) | roots and their bindings | letters change volumes; two programs | one root and one tree for a file; only the right volume is read | `Roots` |
| Planner (`core/planner`) | room, copies, what is short | greedy order, swaps, a second solver | no drive overfilled, no copy given up silently | `Units`, `Planner`, `PlanDocument` |
| Health, loss, coverage, scorecards (`core/health`, `core/fair`, `core/curate/coverage.py`, `core/analysis`) | none: queries over the catalog | the same question asked by different queries | one catalog, one answer; evidence never lowers a score | `Assessment`, `BenchReports` |
| Audit log, curation, plans (`core/store/audit.py`, `curation.py`, `plans.py`, `core/curate`) | chained entries, proposals, rules, plans | people decide at once, crashes, lock time-outs | one chain; a decision stands; what is done is logged | `Audit`, `Records`, `AppendOnly` |
| Exports (`core/export`) | folders being written | two exports in one second, failures | what looks finished is whole | `Bundles` |
| Window (`gui`) | tasks, signals, connections | late signals, closing, cancelling | one long task; no total beside the wrong folder | `Window` |
| Commands and the disclaimer (`cli/main.py`, `core/disclaimer.py`, `gui/app.py`) | acceptances, scope, where the catalog is | commands at once, a catalog that is moved, a root left in the log | nothing is read unaccepted or written in scope; exit 0 means it was done | `Commands` |
| Validation bench (`vv`) | datasets, plans of changes, campaigns | drives other people use, kills, interrupts | it leaves others' files alone; its verdicts mean what they say | `Dataset`, `Oracle`, `Judge`, `Campaign`, `BenchReports`, `PlanDocument` |

How they interact: the command line and the window are separate programs with a
connection each; the window runs a task in a worker thread with a connection of
its own. All of them meet in the SQLite file (`isolation_level=None`, WAL, a
busy time-out of ten seconds), in the folders exports go to, and nowhere else.
Within a scan, the walker's pool threads only list directories; the calling
thread consumes the results through a generator and is the only one that writes.
The bench drives the program from outside and judges its reports.

`PROJECT.json` lists every component with its status, and the hazards of this
code at the lines where they bite.

## 2. Plan and layout

The order was: the scan, because every other statement rests on its rows; then
identity; then what is counted and planned from them; then the records, the
protocols and the commands around them; then the bench that judges the whole.
All of it is written. Abstract specifications: an append-only log, which the
audit log of `Records` implements; the disks themselves, against which `Drives`
counts; the bench's own arithmetic and oracle, against which `Assessment`,
`Planner` and the generator's plans are compared.

What composes what:

```
CatalogTables -> Scan, Delta                Redundancy -> Drives, Units
Units -> Planner -> PlanDocument            Units -> Assessment -> BenchReports
Audit -> Records (-> AppendOnly)            Oracle -> Judge
MCScan, MCIdentity        Scan, Identity with their trees and files
MCRegistry                Drives + Roots + PlanDocument + BenchReports
MCRecords                 Records + Bundles + Delta (through MCDelta)
MCDesk                    Window + Helper + Migration + Gateway
MCBench                   Dataset + Judge + Campaign + Commands
```

The last four MC modules put components that share no variable side by side. A
behaviour moves one of them, named by the variable `topic`, and leaves the others
at an initial state: the states of a run are the sum of its components', and each
topic's states are those the component has alone. A component that runs in the
same transactions or over the same rows as another is composed in one module
(`Records` with `Audit`, `Delta` with the tables, `Assessment` with the counting
rules), not put beside it.

Modules that are proved about hold no RECURSIVE operator: trees are given by
their ancestor sets, sums by folds.

## 3. The scan core

### 3.1 `CatalogTables`

The rows of one scope root and the set-based SQL of `catalog.py` that rewrites
them, as functions from tables to tables.

* `Node` is a place in the tree. The unique keys of `dir` (volume, parent, name)
  and of `file` (directory, name) make a place determine at most one row in each
  table, so `dir` and `file` are functions of the place. A place may have a row in both.
* A row is `none`, `live` (`vanished_at IS NULL`) or `gone`, with `last_seen_scan`
  (`seen`). Of a file's metadata only equality matters: a `Stamp` is a (size, mtime)
  pair, `unknown` the zeroes of a failed stat.
* `InternDir`, `Upsert`, `VanishedFiles`/`GoneDirs` with `TombstoneFiles`/`TombstoneDirs`,
  and `LiveBeneath` are `intern_dir`, the upsert of `merge_scan`,
  `_mark_vanished_under_listed` and the result of `rebuild_rollups`.
  `LiveBeneath` gives a subtree total as the set of files it counts.
* `TreeAssumption` says that `Above` is the ancestor relation of a finite tree.

### 3.2 `Scan`

Each element of `Proc` is a program that may run `scan_root`. Its local record has
the variables of that function:

| Model | Code |
|---|---|
| `pc` | where `scan_root` is: `begun` after `begin_scan`, `walk` in the `try` block, `merge`/`merging` before and inside `merge_scan`'s transaction, then `rollup`, `finish`, `audit` |
| `walk`, `saw` | the walker's view of each directory and what the listings returned |
| `placed` | `dir_ids` |
| `cur`, `left` | the result being consumed and its entries still to come |
| `pending`, `fresh`, `since` | `pending`, `listed_dirs`, `since_checkpoint` |
| `calm`, `before` | ghosts: nothing interfered since the scan began; what was live then |

and the shared state is the catalog and the drive:

| Model | Code |
|---|---|
| `cat`, `tx`, `lock` | the committed database, the one inside the open write transaction, who holds SQLite's write lock |
| `stale` | connections in `merge_scan` whose read snapshot another commit overtook |
| `disk`, `nolist`, `nostat` | the tree, and the directories that fail to be listed or whose entries fail to be stat'ed |

Transactions are modelled as SQLite runs them. A statement outside a transaction
commits alone (`Begin`, `InternRoot`, `Finish`). `BEGIN` is deferred, so the
enumeration takes the lock at its first write (`Write`) and gives it up at a
checkpoint or at its end (`Commit`). `merge_scan` reads first: `MergeRead` takes
a snapshot, and a commit by anyone else before its first write makes that write
fail at once, whatever the busy time-out (`MergeOvertaken`). A program that waits
for the lock either gets it or gives up after the time-out (`GiveUp`, or `Abort`
inside the `try` block). `Crash` loses what was not committed.

The consumption of one directory is split at the granularity at which other
programs and the drive can intervene: a listing (`List`) is one step of a pool
thread; its consumption (`TakeListed`), each entry (`RecordSkip`, `RecordDir`,
`RecordFile`) and the walker's descent (`Descend`) are steps of the scanning
thread. `World` changes the drive between any two of them.

Left out: progress and counters, cloud placeholders (a row like any other for the
merge), `analyze`, hard links, and `content_id`, which belongs to `Identity`.
`begin_scan` and the interning of the root are each one step; `Roots` has the
double insertion two first scans could make of a root row.

### 3.3 Runs

All use `MCScan`, which gives the trees: *tiny* (root, a directory, a file in it)
and *small* (a file in the root as well).

| Run | Instance | Shows |
|---|---|---|
| `scan_alone` | small tree, two stamps, two scans that may differ in exclusions, batches of 2, one change, one crash, stats may fail | `QuietScanExact`, `RollupAgrees`, `TreeHolds` (`NoUnplaced`, `LiveUnderLive`), `TombstoneJustified` hold |
| `scan_concurrent` | tiny tree, two programs, one change, one crash, fairness | `StagedXorMerged`, `UnlistedUntouched` and `ScanEnds` hold however scans overlap |
| `scan_stat_failure` | tiny tree, one program, stats may fail | `GoneMeansMissing` is violated |

The bounds: `MaxScans` (scans begun), `MaxChanges` (changes of the drive),
`MaxCrashes`. Two scans are enough for a row of an earlier scan to be judged by a
later one; one change at any point of a scan is enough to fall between a listing
and its parent's. `BatchRows` and `CheckpointRows` stand for 10,000 and 50,000:
with 1 every row is a flush and a checkpoint, with 2 the last batch is partial.
Two programs give every overlap of two scans, and a third connection
(`OtherWriter`) stands for every other commit.

`ScanEnds` assumes weak fairness of each program's next step: the pool runs
listings that were submitted, a thread that can proceed is scheduled, and a
program waiting for the lock is, after the time-out, able to give up. Nothing is
assumed of the user, the drive, crashes or other writers.

## 4. Content identity: `Identity`

The hash and verify passes of `core/identity/pipeline.py`, run by the programs in
`Proc` over one catalog, while the drive changes and scans merge.

| Model | Code |
|---|---|
| a content `[size, quick, full]` | a row of `content`, known by its key; hashing is collision-free, so a digest is the bytes it covers |
| `Quick`, `Exact` | `quick_hash`: every byte up to `SMALL_FILE_BYTES`, three sampled blocks above; `is_quick_hash_exact` |
| `item`, `todo`, `got` | the rows as the pass queried them, results still to come, what a reader thread has read |
| `pending`, `done` | the assignments of the quick pass, the counter of the full pass |
| `cat`, `tx`, `lock`, `reading`, `stale` | the database in WAL mode, as in `Scan` |
| `List`, `Merge` | a scan, reduced to the moment it sees the files and the moment it merges |
| `fixity` | the last `fixity_check` of each file |
| `read`, `late`, `rotted`, `calm` | ghosts: the bytes an identity came from; that a scan changed the row before it was assigned; bytes changed under an unchanged time; nothing interfered |

A reader thread reads at any time before its result is taken (`Read`), in any
order. The quick pass assigns in batches of `CheckpointRows` and takes the write lock
at its first new content row; the full pass assigns one by one. `Stop` is
cancellation, a crash, a refused lock or an overtaken snapshot: the open
transaction is rolled back. `VerifyStat` and `VerifyHash` are two steps, because the
file may change between the comparison of times and the read.

Abstractions: a file is read in one step; placeholders and permission errors are
files that cannot be opened (`shut`), and every row's `read_state` is `ok`; the
queries that find colliding groups are one step; the statistics and the audit entry
that follow a pass are left out; a file that is edited gets a time it never had.

| Run | Instance | Shows |
|---|---|---|
| `identity_alone` | three files, large with the same samples or small; three passes over all or two of them, one change | `QuietHashExact`, `RotReported` hold |
| `identity_races` | two files, two programs, one change | `ExactMeansSame`, `IdentityIsCurrent` hold |
| `identity_merge` | a merge during a pass | `ChangedBytesDropIdentity` is violated |

Three files are the fewest for a third copy to arrive after two were separated;
two passes make an earlier pass's leftovers meet a later one, a third verifies; with bodies that
agree in every sampled block the quick hash alone is never enough. Files may be
away at the start and come back. `CheckpointRows` is 1 (every assignment commits)
or 2 (a batch is open while others act).

`IdentityIsCurrent` and `RotReported` state what holds with the cases of section
10 set apart. An edit between the comparison of times and the read of a verify
pass is reported as corruption; that window is inherent.

## 5. The registry (`MCRegistry`, run `registry`)

### 5.1 Drives and copies: `Redundancy`, `Drives`

`Redundancy` has the counting queries of `core/analysis/duplicates.py` as operators
on a set of live rows: physical copies (hard links count once), drives proven and
possible for a set of copies, reclaimable bytes, under-protected groups.

`Drives` has the matching of `catalog.py` (`record_discovered_volume`,
`upsert_drive` by serial, then by layout, `assign_volume_drive`,
`confirm_volume_drive`) while disks are discovered with their serial, by their
layout alone, or not at all. The commands that call these open no transaction
(`cli/main.py:429`, 948, 959), so each statement is a step, of two programs:

| Model | Code |
|---|---|
| `DiscoverVolume` | `record_discovered_volume` as far as the look by serial (`catalog.py:335-356`, 225-229) |
| `LookByLayout`, `LookForHolder`, `WriteDrive` | the look by layout, that for a row which holds the layout already (263-273), the insert or update (230-261); a row that the unique columns refuse ends the program (`WriterEnds`) |
| `LookForVolume`, `WriteVolume` | the volume's row (`upsert_volume`, 417-437) |
| `NameDriveOf`, `CreateDrive`, `WriteName` | the guard of `confirm_volume_drive` and `assign_volume_drive`, which is a SELECT (401-415), and their later writes (374-399) |

A look is `late` when the other program has written since what it looked for.
Disks are real here: `CountsAreSafe` compares the proven and possible counts with how
many disks hold a copy. It sets apart what discovery cannot tell, or was told too late:
disks whose layout another one shares (`Confusable`), disks seen by layout after their
serial was known (`relapsed`), disks recorded on a late look (`overtaken`), and volumes
whose drive the user said (`said`). `IdentityStands` says that a recorded serial is
replaced, and an identified volume goes to the user's drive, only by a write whose look
was late. Both are weaker than what the documents say: `NotOverruled` (the user's word
can overrule discovery through such a late look) and `DiskRecognised` (a disk which
hides its serial later is taken for a second one) do not hold (section 10). The instance has a disk, a clone with its layout, and a disk of two
volumes; two programs and `MaxActs = 3` acts give an act between another's statements
and one that came before.

### 5.2 Scope roots: `Roots`

Two programs validate, identify and insert roots, bind and scan them, while
`Mount` changes what is under a letter. The steps are the statements, because the
connection is in autocommit mode; `raced` and `abreast` record that an insert came
between another program's validation and insert, or between two look-ups of one
root row. `EverythingOnce` holds apart from these and from removals; the run
`registry_removal` is what a removal does. `BoundReads` is about the binding check:
whatever volumes were swapped, a scan whose letter kept its volume to the merge
records exactly that volume's files.

### 5.3 The planner: `Units`, `Planner`, `PlanDocument`

`Units` gives what the planner is handed, from a catalog and drives: placement
units cut from the folder tree or from collections, their holders, targets and
sizes in clusters, the destinations' room after reserve, and the chance of loss of
every set of drives as exact integers.

| Model | Code |
|---|---|
| `TakeUnit`, `AddCopy`, `LeaveUnit` | the greedy loop of `greedy.solve`: a unit, its best drive while it lacks copies, what it stays short of |
| `BeginSwaps`, `Move`, `Stay`, `EndSwaps` | its swap pass |
| `TakeOtherPlan` | `cpsat.solve`: any feasible plan that is better by its objective, or none |
| `MakeDocument` | `document.build` and `crowding` |
| `added`, `plan`, `short`, `room` | `Solution` and its running account |

`PlanIsSound` is three statements: no drive is filled beyond its room (recomputed
from the plan, not from the account), each unit meets its target or the plan says
how many copies it is short, and the plan is exactly what was added.
`BenchAcceptsPlan` is the bench's judgement (`PlanDocument`: `OnlyAdds`,
`RoomIsKept`, `TargetsAreMet`, `SharingIsSaid`), which counts file by file from the
steps, and what the summary says against the steps. The bench does not know the
planner's units: it gives a file to the unit with the deepest folder over it, which is
the planner's own but for a collection that has nothing but empty files, of which
`units.build` makes no unit. `EveryFileHasUnit` sets those catalogs apart;
`PlansPassTargets` does not, and TLC finds it violated on `MCHollowInputs` (section 10).
The inputs of the run are
72 catalogs (sizes, identities, rules, an unidentified drive) by 12 fleets (room,
clusters, rates, batches, zones, a retired drive).

### 5.4 Reports: `Assessment`, `BenchReports`

The same facts are counted by several queries: `duplicates`, `browse`, `coverage`,
`packages`, `scorecard`, `durability`, `afr`. `Assessment` has each of them over one
small catalog in which files come, go, are hashed and verified, users name drives and
record purchases and zones, SMART is read plainly or through a bridge, rate tables are
imported, and years pass. `OneAnswer` says that the queries agree with each other
(`ReportsAreOne`) and with the bench's arithmetic (`BenchAgrees`), where the bench
knows what was planted. `EvidenceOnlyRaises` says that identities, verify outcomes
and drives learned never lower a scorecard, storage 3b excepted.

Factors are integers in tenths and rates in hundredths. A rate is the base rate times
the factors of age, of duty (hours of a disk, remaining life of an SSD), of SMART and
of the bus, and `SmartFactor` is, as in `afr.py:203`, the worst sector sign times what
errors of the cable add; a drive of the instance shows both at once. The bench plants
no cable errors, so its own arithmetic (`ExpectedRate`) has the worst of the three
signs it plants, and the duty of disks alone. smartctl's JSON is a set of signs with
the two figures. In the run the duty factors change at two numbers of hours of a disk and at two
remaining lives of an SSD.

### 5.5 Run and bounds

`registry` runs the four topics and is symmetric in the programs of `Drives` and of
`Roots` (`Alike`). Two letters and two volumes are enough for a swap,
three drives for a copy to be moved from one target to another, five files for two
equal ones, one of their size, one of its own and an empty one. `MaxFacts = 2` facts
are learned in a row after an initial state that has every file and any drive naming.
`registry_removal` is `Roots` alone, with one program and one letter.

## 6. Records (`MCRecords`, run `records`)

### 6.1 Audit log and decisions: `Audit`, `Records`, `AppendOnly`

`Records` models what people decide in two programs: accept and reject proposals,
make and remove rules and collections, draft and supersede plans, make version sets.
An act's body is computed from what the program sees: in autocommit mode every
statement commits alone and the audit entry is a second commit (`ChangePlainly`,
`AppendEntry`); in a transaction the first statement takes a snapshot, the first
write takes the lock or fails when another has committed since, and change and entry
commit together (`BeginDeferred`, `WriteBody`, `Commit`). `TimeOut` is a lock held
for too long, `Crash` may come anywhere. `Audit` has the chain, with a digest as the
sequence of all that went into it.

`ChainIntact` (no fork), `LogOnlyGrows` (the refinement of `AppendOnly` through
`entries <- Trail`; its mutant writes an entry over the last one, as an `INSERT OR
REPLACE` past the triggers would), `Audited` (every committed change has its entry but those lost
between the two commits to a crash or a time-out, which are named and so tolerated, and no entry is of something that was not done),
`AcceptedIsHeld`, `DecisionStands`.

### 6.2 Exports: `Bundles`

Programs export in one second, so names collide and are numbered; the manifest is
written last; the catalog's row comes after. A write may fail, a folder be refused
because a root was added meanwhile, a program stop. `FinishedIsWhole` says that what
has a manifest has every file, whole, from the same program, and that only such
folders have rows. What a body says is not modelled, except that paths and rows are
read by separate queries between which a scan may commit (`ReadPaths`, `ReadRows`).

### 6.3 Delta rescans: `Delta`

`decide` on the cursor (journal recreated, wrapped, never read), the reading of
records, the mapping of reference numbers to directories, listing, interning, the
merge of what was listed, and the cursor, each commit a step; the drive changes
meanwhile, and a rename takes along everything beneath (`MayMove`). In a listing, that
of a new directory beneath may fail (`denied`), and so may the stat of any entry
(`blind`): the entry is then staged as a file of unknown facts, and a directory of that
name, with all beneath it, is marked vanished, while the cursor moves on
(`delta.py:97-105`, 240-253, 285). `CursorCovers`: while a delta would be used, every
directory whose number no unread record names is catalogued as it is. Set apart are the
root, directories whose row has another number, and those in `leftOut`, which section
10 explains; the directory that holds a blind entry is among them. `UnexaminedIsKept`,
that nothing unexamined is called gone, does not hold (section 10).

### 6.4 Bounds

Two programs and four acts give every overlap of two decisions with a third and
fourth to build on; two exporters, two kinds and three folders make a numbered name
collide; one growth falls between two queries. The delta's drive has a nested tree
of three directories, two records, three scans, one crash and one entry or directory
that cannot be read (`MaxUnread`).

## 7. Around one machine (`MCDesk`, run `desk`)

* **`Window`**: the UI thread, a pool of two threads, tasks whose signals are connected
  after they were handed to the pool (so an early end is missed), queued slots,
  cancellation, closing with its time-out. `WindowStandsFirm` is `OneLongTask`,
  `OpenWhileRunning` and `CaptionMatches`; `WindowFrees` is liveness.
* **`Helper`**: the child that reads a volume and its parent, with bounded pipes, frames,
  the terminator and the reason; `Die` at any point. `ResultIsComplete`, and in
  `EverythingAnswers` that the call ends and the helper's own reason wins.
* **`Migration`**: openers that back up, migrate statement by statement, run the DDL and
  build the search index, with a crash and each other. `UpgradeIsWhole` (catalog and
  backup), and in `EverythingAnswers` that everyone who opens it gets in. The run
  `desk_search` shows `SearchIsComplete` violated.
* **`Gateway`**: `open_read`'s check, open and re-check in three steps while objects are
  swapped or recalled to the cloud, under `read_all`'s queues, readers and caller.
  `ReadsAsAllowed` is `ReadsWhatWasChecked` and `QuietAfterReturn`.

Fairness, one condition per actor: the UI thread handles what is queued; a pool
thread takes a task; a task's body, a loop over finitely many things, ends; the
helper and its parent each take their steps, and nothing says that the helper dies;
a program that opens a catalog goes on, and a person starts it again when it failed.
`WindowFrees` is weaker than what the window says (section 10).

Two threads and three tasks give a long task, a count and one more; two buffers in a
pipe of two fill it; two openers and one crash; two swaps on three paths, one of them
to an object without identity.

## 8. The bench and the commands (`MCBench`, run `bench`)

* **`Dataset`**: generate, reset, clean and run over two drives and a folder outside them,
  while people put files anywhere (`Meddle`) and the command fails (`Raise`) or is
  killed (`Kill`). A generate makes the folders that are missing, one by one
  (`MakeFolder`), and where planning raises or the space does not do removes them with
  whatever is in them by then (`PlanFails`, `vv/__main__.py:102-104`, `fsops.py:54-71`).
  `PristineIsGenerated`; `ForeignKept` says that a drive's foreign files survive every
  wipe. Looking through a place and emptying it are a step each.
* **`Oracle`**: the generator's plans against what they do to the drives. The oracle
  replays the plan by rules of its own; `OracleAgrees` compares after every step,
  with hard links, unreadable files and links in the manifests.
* **`Judge`**: tests of `evaluate.py` on a report with one mistake in any part. They
  are those of a rescan's files, identities and copies and of the verify pass:
  VV-SC-02 and -03, VV-INC-01 to -03, VV-CAT-02, VV-ID-01 to -03, VV-RED-01 to -06,
  with all ten totals of VV-RED-05, and VV-FIX-01 to -04, with the least number of
  checked copies of -02 and the other copies of -03. Left out are the tests of the
  baseline alone (`evaluate.py:131-133`), of times, names, rates, plans and exports,
  and incidents of other kinds than a mismatch.
  `JudgeDecides`: a report that passes these tests says what is so (`WrongNeverPasses`),
  one without a mistake passes them (`RightAlwaysPasses`). The oracle counts an excluded entry whatever
  happened to its folder; one of the manifests has an excluded entry in a folder that
  could otherwise go, so that the generator's care for it (`Removable`) matters.
* **`Campaign`**: run after run, with errors, interrupts and a window that asks to stop.
  A run that raises is an error; of its `results.json` there is by then nothing in the
  campaign's folder, a part, or the whole (`campaign.py:169-177`), and the summary goes
  by a whole one. `RunsAccounted` relates entries, leftovers, the log and the summary,
  and says of a requirement that passed that every run that raised had left results
  that do not fail it. A part of the results makes the summary raise and ends the
  campaign (`CampaignGoesOn`, section 10). That writing `campaign.json`, the log or the summary fails
  of itself is left out.
* **`Commands`**: every command that reads a drive or writes outside the catalog, in two
  releases with texts of their own, with prompts that may be declined, roots that
  another command adds, volumes that are switched, a catalog that is moved with its
  write-ahead log, and kills. A check of a place may not be told on which volume it is,
  and then does not refuse (`Telling`, `catalog.py:188-192`), or not which drive is the
  system's, and then refuses more. `WritesOutsideScope`: never inside a root; on another
  drive than the roots' while every check could identify the volume. Without that
  proviso it is `UnseenIsElsewhere`, which does not hold (section 10).
  `ReadsAfterAcceptance`; `ExitTellsTruth`, where each root was on its volume when the
  pass began. "health read" is of `ReadsDrives` and has no handler in this release
  (`cli/main.py:178`), so the runs never start it.

The three planned changes, three commands, one kill and one meddling of `Dataset` reach
every half-made and half-wiped state; the manifests of `Oracle` have two contents of a
length, a length of its own, a large pair and an empty file, and two iterations of each
kind of change; two runs of a campaign are one that ends badly and one after it; three
commands over the life of a catalog are one to add a root, one that crashes and one
that meets what it left, with one check that is told nothing (`MaxUnseen`). The two
releases differ in their texts alone, so the run is symmetric in them (`Releases`); it has
1,395,600 distinct states.

Deadlock checking is off in every configuration because the bounds, or the end of a
protocol, end behaviours.

## 9. Proofs

Each is for every value of the constants under the assumptions its modules name, all of
which TLC evaluates in the runs.

| Module | Theorems | Argument |
|---|---|---|
| `ScanProofs` | `TypeCorrect`, `StagingIsAtomic`, `UnlistedNeverGone`, `InductiveInvariant`, `EveryListingPlaced`; for a program that scans alone `TreeAlwaysHolds`, `TombstonesJustified`, `QuietScansExact`, `RollupsAgree` | 9.1 |
| `IdentityProofs` | `ExactIdentity`, `CurrentIdentity`, `QuietHashing`, `RotComesToLight`, `TypeCorrect`, `InductiveInvariant` | 9.2 |
| `RecordsProofs` | `ChainStaysIntact`, `LogImplementsAppendOnly`, `RecordsTyped`, `EveryChangeAudited`, `AcceptanceGivesOneHolder`, `DecisionsStand`; `FinishedStaysWhole`, `WorksAlone` | 9.3 |
| `DeltaProofs` | `CursorAlwaysCovers` | 9.3 |
| `RegistryProofs` | `NoCopyGivenUp`, `PlanSaysWhatWasDecided`, `PlanStaysSound`, `RoundsComeOutTheSame`, `BenchAlwaysAccepts`; `DriveIdentityStands`, `CountsStaySafe`; `EverythingStaysOnce`, `ScansReadTheirVolume`; `EvidenceNeverLowers`, `OneAnswerStands` | 9.4 |
| `DeskProofs` | `WholeResult`; `OnlyCheckedIsRead`; `WindowAlwaysStandsFirm`; `UpgradeStaysWhole` | 9.5 |
| `BenchProofs` | `NothingReadUnaccepted`, `NothingWrittenInScope`, `ExitCodesTellTruth`; `PristineStaysGenerated`, `ForeignFilesKept`; `OracleStaysRight`, `NoWrongReportPasses`, `TestsDecide`; `EveryRunAccounted` | 9.6 |

`LogImplementsAppendOnly` is a refinement: initial states map to initial states, and
every step appends entries or stutters.

The library's induction theorems take an operator, which the provers cannot
instantiate. Where a statement needs induction it is proved from a least
counterexample instead: a set of numbers that is not empty has a least member, a set
of finite sets a smallest one, and both facts are of the library's well-founded
orders. The sums and products of plans and reports (9.4) and of the bench (9.6), whose lemmas
are in `SumProofs`, and
the statements of an upgrade (9.5) are proved so.

### 9.1 Scans

`StagedXorMerged` is not inductive: nothing in it keeps a scan that has merged
from staging more, and nothing in `UnlistedUntouched` says that what a scan listed
reaches its staging table. `ScanInv` is `StoreInv`, which is inductive by itself, and
`KeptInv`, which needs it:

* `WalkInv`: what waits to be recorded or flushed comes from a consumed listing,
  and a directory is submitted only after its parent has been recorded completely;
* `IdInv`: scans in progress have rows and different ids;
* `TxInv`: only a scan in its enumeration holds the lock between two steps, and its
  transaction touches neither file rows nor another scan's staging;
* `ListedInv`: a directory staged as listed was listed and consumed by that scan;
* `MergeInv`: a scan not begun has no rows, a scan that merged has nothing staged
  and is past its enumeration;
* `KeptInv`: a file of a consumed listing is still to be recorded, in the batch, or
  staged, and nothing is left over once the merge begins.

The proof groups the actions by what they do to the database: steps that write
nothing (`QuietStep`), that write inside the enumeration's transaction
(`WriteStep`), that commit it (`WalkCommitStep`), that withdraw (`WithdrawStep`),
that commit outside the enumeration (`SoloStep`), and those of the drive
(`SameStep`); each action then only shows what its new record looks like.
`KeptInv` is shown apart, with `StoreInv` to tell the scans' rows from each other:
`KeptFrame` reduces it to the scan that moves, `KeptCarry` to what a step takes from
the listing and the batch. `UnlistedNeverGone` then needs `TxInv` to know that an
enumeration's commit tombstones nothing, and for the merge `ListedInv` and `KeptInv`:
a live row of a listed directory that the upsert did not touch was not recorded.

`EveryListingPlaced` needs `PlacingInv`: a directory is walked only after its row was
interned, which holds for any number of programs because `placed` is the program's own.

The other four are the properties of `scan_alone`, and are proved under its hypothesis
`Alone`, that `Proc` has at most one element; crashes, cancelled scans, other writers
and changes of the drive stay. They are not claimed of two programs that scan
one root: the second to upsert a row overwrites the first's `last_seen_scan`, so
neither can tell from the rows what it recorded itself. Alone, it can, and `OwnInv` says
so: no scan is newer than the one at work, a row carries its number only if it recorded
it, and what it recorded is left over, pending, or live with that number (`Remembered`,
`Recorded`); with `LiveUnder` of both databases that is inductive relative to `ScanInv` and
`PlacingInv`. A merge is then described by a few lemmas (`MergeKnows`, `OlderRows`,
`MissingExactly`, `MergedDirs`, `MergedFileRows`): what it marks vanished is just what the
scan listed the place of and did not record, and what lies beneath. `CalmInv` adds that a
scan nothing interfered with has seen each place it read as the drive still is
(`Faithful`), and is exact once merged; `TotalInv` that a scan about to be recorded as done has
the totals of the tables as they are, and that no older scan is the newest.

### 9.2 Identity

`IdentityIsCurrent` speaks of committed rows only; it is not inductive because a
pass carries bytes it has read, and a scan times it has listed, into a later
commit. `IdentityInv` says of each of these carriers what is needed: nobody knows a
time later than the file's (`RowSound`, `ListingSound`, `LocalSound`), and bytes read
for a row whose time is still the file's are the file's bytes. An edit makes every
such premise false at once, because its time is new. The lemmas about one row
(`AssignedSound`, `MergedSound`, `EditedRowSound`) carry the argument; the rest of
the proof takes them through catalogs, transactions and passes, one lemma per
action. The assumptions are `BodyAssumption`, `FileAssumption` (the files are finitely
many), `DiskAssumption`, `ProcAssumption`, `ScopeAssumption` and `BoundAssumption`.

`QuietHashing` and `RotComesToLight` are about passes that nothing disturbs. A pass stays
calm only through its own steps (`CalmStep`), so what it knows of a drive at rest
(`VerifyInv` and `HashInv`) goes from phase to phase: the rows keep telling the
truth; until the quick phase ends each file whose size another shares is identified, or
its turn is to come; until the full phase ends, so is each file whose sampled
blocks another shares. Both rest on what every pass keeps, calm or not (`KeptInv`): only a
pass that writes holds the lock, and otherwise transaction and catalog are one; a row's identity is in
the content table, where `Ambiguous` finds the third copy (`AlikeCollide`); and no
full hash is ever added to a quick hash that covered every byte, without which two small
copies could end under two identities.

### 9.3 Records

`RecInv` is about the log alone: what an open transaction saw is still the catalog
when it commits, because its first write found no newer commit and it has had the lock
since; a log with increasing ids extended by one entry chained to its last verifies.
`DecInv` adds what each kind of transaction may change of the candidates, the
collections and the entries, compared with the catalog it saw (`ActOf`), that acts are
numbered once (`Numbered`), and that an act committed without its entry has a program
about to write it, or is lost. `Audited` and `AcceptedIsHeld` are conjuncts of it;
`DecisionsStand` follows for the steps that commit.

Exports. `BundlesInv`: a folder has one program that works in it, the one that made it; of
each body file it is true that it is whole or still to be written, until only the
manifest is left.

Deltas. `CursorCovers` says what holds of a directory at its row's place, and no
invariant about places is inductive, because a rename changes them. `DeltaInv` goes by
reference numbers: the file rows of a directory's row are right for the directory that has
the row's number, wherever it is now, unless the records from the cursor on name that
number or the row is left out (`AllRight`). A rename takes a directory's entries along
(`MoveRight`), and whatever else changes them names its number, so the drive keeps this
(`DriveKeepsRight`) of four things: the committed rows, for the stored cursor
(`Vouched`); what a delta has staged, and the rows it has not listed, for the cursor
it will store (`ListingVouched`, `MergeVouched`); and the merged rows (`CursorVouched`).
Until the cursor is stored the old one holds, because whatever the delta wrote is named
by the records that it read (`Gathered`, `Staging`). The steps of the delta then take
one to the next. `DeltaAssumption` says what a drive is: entries of one directory
have different names, what exists has a directory above it, and a rename keeps names
and what is beneath.

The attempt at this proof refuted an earlier form of `CursorCovers`, which spoke of
whatever directory is at a row's place and passed on the small tree. On a deeper
one, a directory renamed away before a delta and back after it escapes: its records are
dropped (section 10). The property now sets that apart, and speaks of the directory
that has the row's number.

### 9.4 The registry

The planner. `PlannerInv` is an account for each unit, settled when the unit is left
and kept by each move; the copies of a unit are the fewest any of its items has, and
the provers are told what a move does to each item. `BudgetInv` adds one for each
drive: what is left on it and the cost of the plan's copies onto it come to the room it
had. An added copy moves its cost from one to the other, a moved copy gives it back
where it was, and the other solver's plan is the list of a set whose sum was checked.
That a sum over a finite set is what an element adds to the sum of the rest, whichever
element is taken out, is `TotalWithout`, proved from the definition of the fold.

The document. `BenchInv` is `BudgetInv` with two more. `GainInv`: with the
greedy solver, a unit has exactly one copy more for each drive added (a copy is added
only where it makes one more, and a move keeps at least as many, `greedy.py:112,139`),
and whatever solver's plan it is, a unit is said to be short of what it lacks, no more.
`DocInv`: a document that was made is what `MakeDocument` makes of the plan. `BenchAlwaysAccepts` is then about one document:

* Order. `InOrderSorts`: putting a finite list in a total order loses and repeats
  nothing. `RoundsFit` and `RoundsAgain`: the rounds of the first order are a rule that
  gives each copy the first round its drives are free in, that rule has one solution
  (`OneFit`), and ordering by round keeps it one, so the rounds come out the same.
* Risk. A copy states what the loss falls by from the copies of its unit listed before
  it. Over one unit that telescopes (`LossFalls`), over all units it is the difference
  of two sums (`DeltasAdd`), and the order of the document does not matter (`StepsSum`).
* Units. The planner hands folders out from the top, the bench looks from a file up.
  `UnfiledCover` and `FiledDeepest` say the unit a folder is given is the deepest whose
  folder is over it, of the tree's chains of folders; `MembersAreFiles` that the bench
  finds the planner's files.
* Counting. `HoldersAre` and `CopiesGrow`: a unit's copies are the fewest of any of its
  files, now and with drives added, so the bench's deficit is the shortfall
  (`DeficitIs`); a step's own bytes in clusters are at most its footprint
  (`FootprintPart`). `JudgedRoom`, `JudgedTargets`, `JudgedSharing`, `JudgedSummary` and
  `JudgedBeyond` are the bench's tests, one by one.

`TreeAssumption` says that the folders above a folder are a chain, and
`DocumentAssumption` that the planner's input is the units of a catalog whose files lie in
folders, on the volume of the folders above, and that clusters have bytes.

Drives. `DrivesInv` holds between any two statements of any programs: a row that has a
serial has it from a disk that was seen; no two rows share one; what a program looked up
still stands unless it is marked late; a volume that discovery tied to a drive is on the
row with its disk's serial, or its layout while that serial was never read. The counts
then compare by injections from disks to rows and back. `CountsStaySafe` is the property
as it stands: of any history of discovery, about the volumes that it does not set apart. `DrivesAssumption` says no two disks
have one serial (two may have one layout), and that the volumes are finitely many.

Roots. `RootsInv`: whoever is about to insert a root was checked against the roots it
read, and those are all there are but for the races the property names; two scans that
look for the row of one root do so one after the other; each row's files are below its
root. Two roots above one file contain one another (`AboveOneFile`), which the
disjointness of the enabled ones forbids. `RootsAssumption` says paths begin with a
letter and are not empty.

Scorecards. A hash pass merges items, so the number that a criterion divides by falls
together with what it counts. `ItemsTold` makes the items a function of the files: each file
has one (`ItemOf`), before a step and after it, and a step that learns makes that item's files
and drives more (`ItemGrows`), so what held of every file's item still does (`ItemRises`), and
a share of items all of which pass cannot fall (`ShareRises`). `LearnInv` is only that
identified files are present and outcomes are of contents there may be;
`AssessmentAssumption` says the files are finitely many, that equal bytes have equal
sizes and are not the absence of an identity, and that drives are numbered from one.

Reports. `OneAnswerStands` needs no more of the state than `LearnInv` and the types of
what the reports read (`ReportsInv`): every report is a function of the catalog, and
the work is that the functions are one.

* Items. The program groups rows, the bench the files it planted. `ItemsPictured` says
  the items of the one are pictures of those of the other, with the same size
  (`ItemSize`) and devices (`PicIs`), none pictured twice.
* Sums. The expected loss is summed by sets of drives and the bench's by items: a sum
  is the sum of its parts' sums (`TotalGrouped`), scaled by what a part has in common
  (`TotalScaled`), which gives `ExposureSums` and `LossAsExpected`. `SummarySums` and
  `BucketSplits` split the same sums by one device and more; `InventoryAgrees` by volume.
* Products. `CorrelationIs`: the program raises a factor once to the drives less the
  batches, the bench once for each batch to its drives less one, and those agree
  (`ProductOfPowers`, `PowerOfCounts`). The batch is the key in force for the program and
  what was planted for the bench.
* Rates. `RateIs` goes through the factors one by one: the best table that knows a
  drive, the last age it reached (`BandIs`), the last range of hours (`DutyIs`), and the product of the
  worst sector sign with the cable's errors, which is the worst of what the bench plants
  (`SignsRate`).
* Scorecards. `CardsAsExpected` is the bench's reading of each criterion, and
  `CollectionsAgreeing` says that a collection passes exactly when its package has
  nothing under-protected and, when it is the only one, the planner finds two copies.

`RiskAssumption` says rates are counted in units and that a second drive of a batch
counts for more; `RateAssumption` that the tables have a rate for every class, that ages
begin at none and go up, that duty ranges begin at none and go up likewise, that no sign lowers a rate (the shipped
tables are so), and that drives of one batch are of one make and were bought at one
time; `EntryAssumption` that a description is of the known fields.

### 9.5 Around one machine

Helper. `HelperInv` numbers the writes to the pipe, headers and payloads alternating;
the reader is at one place of that stream and the pipe holds what follows, so the
terminator is met only after everything was collected.

Gateway. `GatewayInv`: an open file is the object that was checked; each drive's
queue is topped up at every answer, so when nothing is with the readers nothing waits
(which is why all that was asked for is read when the call returns). `GatewayAssumption`
says each drive has at least one reader and that an identity, when known, is one
object's.

Window. `WindowInv`: an event is of a task that has ended, only one may be the end of
the long operation, and the task being connected has not been heard of.

Upgrades. `MigrationInv`: the statements a program runs unfold to every statement of
every version after the catalog's; past its `ALTER`s a program has found or added each
column; at most one program is copying unless two crossed. `MigrationAssumption` says
that a table is dropped only for the DDL to make it again, and that not every part of
an old catalog ever is.

### 9.6 The commands and the bench

Commands. `GateInv`: the only way from the gate to a handler is an acceptance of that
release's text, and acceptances stay. `PlaceInv`: who has the catalog open found its
place clear or inherited that, since the catalog moves only when closed and a root is
checked against it before it joins. `TruthInv`: what a pass has read and has left make
up what it was asked for, unless it knows that it failed.

The dataset. `DatasetInv`: what is being written or removed is, at every path nobody
used, as far as `todo` says; and a run says that it changes the dataset before it does,
so a kill cannot leave a changed one that says pristine. `HostageInv`: a wipe that met
a stranger's file never gets to its removals (`StrangersStay`), a folder that is not
there is empty, and what is put anywhere has a name the dataset knows.

The oracle. `OracleAgrees` is not inductive: that a deleted file was a generated one,
and that the folders above a new one are known, follows from the plan. `PlanExplains`
says that until folders go what no step is about is there, that what was not
generated was made by a step, and that folders that went are in one that a step
removed; `Removable` and the choice of a new folder then keep the two accounts one.
`OracleAssumption` says of the generated datasets that no time is that of a change, no
name the one a moved file gets, and that every folder has the folders above it.

The judge. Where `OracleAgrees` holds, sharing of sizes, identities, groups, copies and
waste are the same over the oracle's account and over the drives (`IdentifiedIsTrue`,
`GroupsAreTrue`, `WasteIsTrue`), and `GroupsOf` shows that a report that passes the tests
of identities and copies has these groups and no other. `NoWrongReportPasses` is about
any report at all, not only those with a few mistakes.

`TestsDecide` adds that a faultless report passes, test by test (`TruthListsFiles`,
`TruthFollowsSteps`, `TruthIdentifies`, `TruthCounts`). The tests go by the plan and by
the manifest, so it needs more of the drives than that the oracle agrees with them
(`PlanStands`): what a step made or moved away is still as the step left it, because a
later step starts from what no step touched and a folder goes only without the others'
work in it (`StepsSeen`); nothing is where a right tool catalogs nothing, and the
folders of excluded entries stay (`NothingBarred`); no file is both corrupted and edited
(`HurtApart`). The totals are sums over different sets: the tool's over contents, the
oracle's over sets of files. `SumRenamed` (`SumProofs`) says that a sum does not depend
on what its terms are listed under, and `ScarceCount` that no group is counted as a
single file. `JudgeAssumption` says of the generated datasets that they are finite, that
an edit makes bytes no file had, that no name the plan can choose is taken, barred or
beneath what is barred (`free_name`), and that excluded entries lie in folders of the
dataset.

A campaign. `CampaignInv`: the entries are those of the runs behind it, one short while
a run is on, and none is without a verdict unless somebody interrupted it.
Results are there for each run that was judged, and for a run that raised only as a part
or the whole of what a judgement may be. `SummaryTellsRuns` says what the worst of many verdicts tells of each, for any runs.

Every invariant and action property of a passing run is stated by a theorem. Only
model-checked is liveness (`ScanEnds`, `WindowFrees`, `EverythingAnswers`), which is out
of the prover's reach. The `TypeOK` definitions of the other components say what their
variables hold and were checked as each was written; no run repeats them.

## 10. Where the documents and the code differ

Four runs end in a counterexample, and `PROJECT.json` has their findings:

* **A stat that fails tombstones a subtree** (`scan_stat_failure`). `fsio.scandir`
  reports an entry it cannot stat as not a directory; the scanner stages a file of that
  name, and the merge finds the directory unseen under a listed parent. REVIEW SR-10 says
  what was not examined is unknown, not gone. A new exclusion tombstones what it
  excludes under the same rule.
* **The identity of old bytes can land on a merged row** (`identity_merge`).
  `assign_content` writes by row id. The row then has the new time and the old identity;
  no later pass looks at it again, and `verify_pass` reports the file as corrupted.
* **A removed root's rows stay live** (`registry_removal`), so a wider root added
  afterwards, as the refusal of nested roots tells the user to do, catalogues every
  file below it twice.
* **A crash between making and filling the search index** leaves it empty for good
  (`desk_search`).

The modules also define properties that a document states and the code does not
satisfy, next to the weaker ones that the runs check. TLC finds each violated under
the MC module of its component:

| Definition | What is said | What happens |
|---|---|---|
| `Scan.GoneMeansMissing`, two programs | as above | `intern_dir` overwrites `last_seen_scan` with a lower scan id (`catalog.py:695`); the newer scan's merge (834) then tombstones directories that both saw |
| `Scan.CancelKeepsCatalog` | the window, `main_window.py:188`: the catalog is unchanged from before the scan started | directories interned before a checkpoint stay present |
| `Scan.OutcomeRecorded` | every scan ends with an outcome | a merge that is overtaken raises outside the `try` block; the scan's row stays `running` |
| `Drives.NotOverruled` | `catalog.py:370-372`: a drive identified by its serial or its partition table is a fact the user can't overrule here | the guard of `confirm_volume_drive` and `assign_volume_drive` is a read of its own; what another program finds out before the write is overwritten (382) |
| `Drives.DiskRecognised` | `base.py:22-25`: a disk that comes back is recognised | the look by layout skips a row that has a serial (`catalog.py:233`), so a disk with its serial first and its layout alone later gets a second row |
| `Delta.UnexaminedIsKept` | `docs/REVIEW.md:144` (SR-10): a path that was not examined is unknown, not gone | an entry whose stat fails is staged as a file; a directory of that name is marked vanished with its subtree, and the cursor moves on, so that no later delta looks there again |
| `Campaign.CampaignGoesOn` | `vv/campaign.py:174`: one bad run must not lose the campaign | a run that raises while its results are copied leaves a part that the summary cannot parse, outside of any handler (187) |
| `Commands.UnseenIsElsewhere` | `catalog.py:175-177`: a catalog whose volume can't be identified can't be on a root's | the failure may be a passing one, on a drive that was identified when its root was added (191); found with `MaxUnseen = 2`, a check of the root and one of the catalog |
| `Identity.SharedMeansSame` | a shared identity means the same bytes | members that could not be read in full stay on the quick-only row, and count as copies |
| `Delta.DeltaAgrees` | `tests/test_enum_delta.py:3`: the same state as a full rescan | see below |
| `Records.MembershipUnambiguous` | `curation.py:165`: one collection for a file | the rule refuses the same folder twice, not a folder inside another |
| `Planner.RiskNeverRises` | a copy lowers the risk | one more drive, likely to fail and of the same batch and zone, can raise the estimate of the drives before it |
| `Planner.StepsFit` | a step copies its folder | the room was reckoned for the unit's files; what a nested collection's unit or another unit has in the folder is not in it |
| `PlanDocument.PlansPassTargets` | `evaluate.py:1034`: each live file belongs to the unit with the deepest folder over it | `units.py:186` makes no unit of a collection that has nothing but empty files; the bench counts them with the unit of the folder around, and VV-PLAN-03 faults a plan in which every unit has its target |
| `Assessment.NoDataIsNoComfort` | `smart.py:127`: no data must not look like no problems | a later reading that answers nothing replaces a failing one, and the rate falls |
| `Helper.EndIsNotFailure` | `winio.py:173`: until no records come back | the end of the records may come as an error, which is taken for a failure |
| `Migration.OpenedIsWhole` | `schema.py:650`: what a crash leaves, the next run completes | two programs that migrate at once can drop a table that the other's DDL has made |
| `Window.WindowAlwaysFrees` | `main_window.py:167`: a working Cancel | a task that ends before its signals are connected leaves the window busy |
| `Commands.MismatchFails` | `main.py:852`: a mismatch does not look like success | where the reader of the output has gone, the exit code is that of the pipe |
| `Commands.NeverOpenedInScope` | `catalog.py:98`: opening is the write the check prevents | a root left in the write-ahead log by a crash is seen only after opening |
| `Dataset.RunStartsWhole` | the bench checks its own instrument | a missing `state.json` counts as pristine; links, excluded files and the folder outside the drives are not looked at |
| `Dataset.ForeignKeptOutside` | a dataset is removed after checking it | the folder outside the drives is removed without a look |
| `Campaign.CampaignReadable`, `PassedInEveryRun`, `RemovedAfterRun` | a bad run does not lose the campaign; passed in every run; removed after the run | an interrupt leaves a file that cannot be summarised; a run that did not judge a requirement does not count; a dataset that was not finished is not removed |

A delta differs from a full scan in these ways, all set apart in `CursorCovers`: the
scope root's row has no reference number (`scanner.py:123-131`), so changes directly
in it are not found; `intern_dir` never refreshes the number of an existing row; a
directory that was made again is not read (`delta.py:219-236`); the cursor advances
although a listing failed (170-177, 285), of a named directory or of a new one beneath it,
which is staged all the same (353, 372), or the stat of an entry did (97-105, 240-253); records about a directory that is no longer
at its row's place are dropped the same way, also when it comes back later; of two rows with one
number only one is read (154); after a crash between the two commits (258, 266) what was
interned is taken as known; and a file staged under a directory that vanished
meanwhile stays live.

Smaller observations made while modelling, which no property is about: a drive that
SMART itself calls failing keeps its rate unless a counted sign is bad; the serial of a
reading is not compared with the drive row's, and the device is located before a
prompt and again after it; a lone empty file without an identity is an item of the
scorecard, though `duplicates.py:54` says it has nothing to lose, so a collection with one
never passes storage 1a; an `ok` check within the year still counts as verified after a
later mismatch; a mapping of a package may give a file and a folder one name, and is not
one to one when two volumes were scanned under one path; reports read with several queries
without a transaction; a plan's step takes the first holder as its source (`document.py:126`)
while its folder is the unit's own, possibly on another drive; and `_destination_path` is built from a
drive's label and a path below the volume, so that two folders may share it.

Some hazards of `PROJECT.json` no run would catch. The walker's rule for what it enters
and the recorder's for what it interns are two definitions (`ShouldDescend`,
`RecordedDir`) that come to the same on the entries of the model. Roots added at
once, an edit between the comparison of times and the read of a verify pass, an
exchange of volumes in the middle of a scan, and a task that ends before its signals
are connected do happen in the models and are set apart by name in the properties
near them, which say what holds but for these.

## 11. Not modelled

* Presentation: the screens beyond the browser's counts and the scope's preview, wording,
  formats, what a report, package or plan says in text, argument parsing, and commands
  that only print what other components compute. They keep no state.
* Decoding: Win32 buffers, smartctl's JSON, Backblaze tables, rules of exclusion as patterns.
  Each is a choice over what it may yield.
* The numbers behind factors and rates are constants of a run; only how they are combined is
  modelled.
* How `infer.py` scores a folder: the proposals are any folders.
* Build, lint, packaging and release tools: no state of the program.
* The bench never judges extra files reported as modified, nor groups without members, so `Judge`
  makes no such mistakes.
