----------------------------- MODULE CatalogTables -----------------------------
(***************************************************************************)
(* The rows of one scope root in the catalog database, and the set-based   *)
(* statements of core/store/catalog.py that rewrite them.                  *)
(*                                                                         *)
(* A directory row is unique per (volume, parent, name) and a file row per *)
(* (directory, name), so both are keyed here by the entry's place in the   *)
(* tree: a Node.  One place can hold a directory row and a file row at the *)
(* same time, because the two tables know nothing of each other.           *)
(***************************************************************************)
EXTENDS Naturals, FiniteSets

CONSTANTS
    Node,       \* places in the tree: the scope root and everything below
    Root,       \* the scope root itself
    Dir,        \* the places that may ever hold a directory
    Parent,     \* Parent[n] is the directory that n is an entry of
    Above,      \* Above[n] is every directory n lies beneath
    Stamp,      \* what a readable file's metadata can be (size and mtime)
    MaxScans    \* bound: scans begun in one behaviour

Entry  == Node \ {Root}
ScanId == 1 .. MaxScans

ASSUME TreeAssumption ==
    /\ IsFiniteSet(Node)
    /\ Root \in Dir
    /\ Dir \subseteq Node
    /\ Parent \in [Entry -> Dir]
    /\ Above \in [Node -> SUBSET Dir]
    /\ Above[Root] = {}
    /\ \A n \in Entry : Above[n] = {Parent[n]} \cup Above[Parent[n]]
    /\ \A n \in Node : n \notin Above[n]
    /\ \A n \in Node : \A a \in Above[n] : Above[a] \subseteq Above[n]

ASSUME ScanAssumption == MaxScans \in Nat

ASSUME StampAssumption ==
    Stamp \cap {"absent", "dir", "link", "unknown", "none"} = {}

(***************************************************************************)
(* "unknown" is a file row whose stat failed: size 0, read_state           *)
(* "unreadable".  "none" stands for no row at all.                         *)
(***************************************************************************)
Facts     == Stamp \cup {"unknown"}
RowStatus == {"none", "live", "gone"}
DirRow    == [st : RowStatus, seen : 0 .. MaxScans]
FileRow   == [st : RowStatus, seen : 0 .. MaxScans, facts : Facts \cup {"none"}]

NoDirRow  == [st |-> "none", seen |-> 0]
NoFileRow == [st |-> "none", seen |-> 0, facts |-> "none"]

Children(d) == {n \in Entry : Parent[n] = d}
Beneath(d)  == {n \in Entry : d \in Above[n]}

\* Mutated form: a conflict does not refresh last_seen_scan.
InternDirUnseen(dirs, d, id) ==
    [dirs EXCEPT ![d] = [st |-> "live", seen |-> IF @.st = "none" THEN id ELSE @.seen]]

\* intern_dir: insert the row or, on conflict, mark it seen and not vanished.
InternDir(dirs, d, id) == [dirs EXCEPT ![d] = [st |-> "live", seen |-> id]]

\* Mutated form: a conflict refreshes the bookkeeping but not the metadata.
UpsertKeepsFacts(files, rows, id) ==
    [n \in Entry |->
        IF rows[n] = "none"
        THEN files[n]
        ELSE [st |-> "live", seen |-> id,
              facts |-> IF files[n].st = "none" THEN rows[n] ELSE files[n].facts]]

\* merge_scan's upsert: every staged entry becomes a live row with fresh facts.
Upsert(files, rows, id) ==
    [n \in Entry |->
        IF rows[n] = "none"
        THEN files[n]
        ELSE [st |-> "live", seen |-> id, facts |-> rows[n]]]

\* Mutated form: what went unseen anywhere under the root is gone.
MissingFilesUnderRoot(files, listed, id) ==
    {n \in Entry : files[n].st = "live" /\ files[n].seen < id}

\* Files of a listed directory that this scan did not see are gone.
MissingFiles(files, listed, id) ==
    {n \in Entry : /\ files[n].st = "live"
                   /\ files[n].seen < id
                   /\ Parent[n] \in listed}

\* Directories absent from a listed parent, with every row beneath them.
MissingDirs(dirs, listed, id) ==
    {d \in Dir \ {Root} : /\ dirs[d].st = "live"
                          /\ dirs[d].seen < id
                          /\ Parent[d] \in listed}

GoneDirs(dirs, listed, id) ==
    {d \in Dir \ {Root} : /\ dirs[d].st # "none"
                          /\ ({d} \cup Above[d]) \cap MissingDirs(dirs, listed, id) # {}}

TombstoneFiles(files, gone) ==
    [n \in Entry |-> IF n \in gone /\ files[n].st = "live"
                     THEN [files[n] EXCEPT !.st = "gone"]
                     ELSE files[n]]

TombstoneDirs(dirs, gone) ==
    [d \in Dir |-> IF d \in gone /\ dirs[d].st = "live"
                   THEN [dirs[d] EXCEPT !.st = "gone"]
                   ELSE dirs[d]]

\* Mutated form: the files of a vanished directory are left alone.
VanishedFilesShallow(dirs, files, listed, id) == MissingFiles(files, listed, id)

\* _mark_vanished_under_listed, applied to the rows the upsert has left.
VanishedFiles(dirs, files, listed, id) ==
    MissingFiles(files, listed, id)
        \cup {n \in Entry : Parent[n] \in GoneDirs(dirs, listed, id)}

\* rebuild_rollups: what each live directory's subtree total counts.
LiveBeneath(dirs, files) ==
    [d \in Dir |->
        IF dirs[d].st = "live"
        THEN {n \in Beneath(d) : /\ files[n].st = "live"
                                 /\ \A a \in Above[n] \cap Beneath(d) : dirs[a].st = "live"}
        ELSE {}]

=============================================================================
