--------------------------------- MODULE Delta --------------------------------
(***************************************************************************)
(* The delta rescan of an NTFS volume: core/enum/journal.py decides from   *)
(* the stored cursor whether the change journal can be used, and           *)
(* core/enum/delta.py re-reads the directories its records name.           *)
(*                                                                         *)
(* Every directory on the drive has a file reference number, and a record  *)
(* names the parent of what changed by it.  The catalog stores the number  *)
(* with the directory's row.  One program scans; the drive changes while   *)
(* it does.  A full scan is one step here: module Scan has its steps.      *)
(***************************************************************************)
EXTENDS CatalogTables, Sequences, FiniteSetsExt, Functions

CONSTANTS
    EntryName,      \* [Entry -> the name it has in its directory]
    Content0,       \* what is on the drive at first
    Moves,          \* [<<d, e>> -> [what can be beneath d -> its place beneath e]]
    OtherDirs,      \* live directory rows of other scope roots of the volume
    MaxFrn, MaxRecords, MaxDeltaCrashes,
    MaxUnread       \* bound: listings and stats that fail

VARIABLES
    content,        \* [Entry -> what the place holds]
    ident,          \* [Dir -> the reference number of the directory there, or 0]
    journal,        \* the change journal: its id, the records of each change, and
                    \* the lowest position that was not purged
    dirs, files,    \* the catalog's rows
    frnOf,          \* [Dir -> dir.frn]
    cursor,         \* usn_journal_id and usn_next of the volume
    scans,          \* scans begun
    delta,          \* what apply_delta is doing
    leftOut,        \* history: directories whose rows nothing vouches for, because
                    \* of one of the reasons named below
    deltaFaults

driveVars == <<content, ident, journal>>
rowVars   == <<dirs, files, frnOf>>
deltaVars == <<driveVars, rowVars, cursor, scans, delta, leftOut, deltaFaults>>

RootFrn == 1
Unset == [id |-> 0, next |-> 0]
Quiet == [at |-> "idle"]

NextUsn == Len(journal.records) + 1

(* A directory can be renamed to a place that has room for all that can be *)
(* beneath it, and everything keeps its name.                              *)
MayMove(d, e) ==
    LET to == Moves[<<d, e>>] IN
    /\ ({d} \cup Beneath(d)) \cap ({e} \cup Beneath(e)) = {}
    /\ to \in Bijection(Beneath(d), Beneath(e))
    /\ \A m \in Beneath(d) : /\ to[m] \in Dir <=> m \in Dir
                            /\ EntryName[to[m]] = EntryName[m]
                            /\ Parent[to[m]] = IF Parent[m] = d THEN e ELSE to[Parent[m]]

ASSUME DeltaAssumption ==
    /\ EntryName \in [Entry -> STRING]
    /\ \A n, m \in Entry : Parent[n] = Parent[m] /\ EntryName[n] = EntryName[m] => n = m
    /\ Content0 \in [Entry -> Stamp \cup {"absent", "dir"}]
    /\ \A n \in Entry : /\ Content0[n] \in (IF n \in Dir THEN {"dir"} ELSE Stamp) \cup {"absent"}
                        /\ Content0[n] # "absent" => Parent[n] = Root \/ Content0[Parent[n]] = "dir"
    /\ \A d, e \in Dir \ {Root} : <<d, e>> \in DOMAIN Moves => MayMove(d, e)
    /\ {MaxFrn, MaxRecords, MaxDeltaCrashes, MaxUnread, OtherDirs} \subseteq Nat

-----------------------------------------------------------------------------
(* The drive.  Only what the journal must show of a change is told apart.  *)
Present(n) == IF n = Root THEN TRUE ELSE content[n] # "absent"
IsDir(n) == IF n = Root THEN TRUE ELSE content[n] = "dir"

Noted(records) ==
    /\ Len(journal.records) < MaxRecords
    /\ journal' = [journal EXCEPT !.records = Append(@, records)]

JournalRecord(frn, d, isDir) == [frn |-> frn, parent |-> ident[d], dir |-> isDir]

PutFile(n, s) ==
    /\ IsDir(Parent[n]) /\ n \notin Dir /\ content[n] # s
    /\ content' = [content EXCEPT ![n] = s]
    /\ Noted({JournalRecord(0, Parent[n], FALSE)})
    /\ UNCHANGED ident

RemoveFile(n) ==
    /\ content[n] \in Stamp
    /\ content' = [content EXCEPT ![n] = "absent"]
    /\ Noted({JournalRecord(0, Parent[n], FALSE)})
    /\ UNCHANGED ident

MakeDir(d, frn) ==
    /\ content[d] = "absent" /\ IsDir(Parent[d])
    /\ content' = [content EXCEPT ![d] = "dir"]
    /\ ident' = [ident EXCEPT ![d] = frn]
    /\ Noted({JournalRecord(frn, Parent[d], TRUE)})

RemoveDir(d) ==
    /\ content[d] = "dir" /\ \A n \in Children(d) : ~Present(n)
    /\ content' = [content EXCEPT ![d] = "absent"]
    /\ ident' = [ident EXCEPT ![d] = 0]
    /\ Noted({JournalRecord(ident[d], Parent[d], TRUE)})

(* A renamed directory takes what is beneath it along; the journal names   *)
(* its old and its new parent, and nothing beneath.                        *)
MoveDir(d, e) ==
    /\ <<d, e>> \in DOMAIN Moves
    /\ content[d] = "dir" /\ content[e] = "absent" /\ IsDir(Parent[e])
    /\ LET to == Moves[<<d, e>>]
           from(n) == IF n = e THEN d ELSE CHOOSE m \in DOMAIN to : to[m] = n
           into == {e} \cup {to[m] : m \in DOMAIN to}
           outOf == {d} \cup DOMAIN to
       IN  /\ content' = [n \in Entry |-> IF n \in into THEN content[from(n)]
                                          ELSE IF n \in outOf THEN "absent" ELSE content[n]]
           /\ ident' = [x \in Dir |-> IF x \in into THEN ident[from(x)]
                                      ELSE IF x \in outOf THEN 0 ELSE ident[x]]
    /\ Noted({JournalRecord(ident[d], Parent[d], TRUE), JournalRecord(ident[d], Parent[e], TRUE)})

PurgeJournal ==
    /\ journal.low < NextUsn
    /\ journal' = [journal EXCEPT !.low = NextUsn]
    /\ UNCHANGED <<content, ident>>

RecreateJournal ==
    /\ journal.id = 1
    /\ journal' = [id |-> 2, records |-> <<>>, low |-> 1]
    /\ UNCHANGED <<content, ident>>

DriveChanges ==
    /\ \/ \E n \in Entry : RemoveFile(n) \/ \E s \in Stamp : PutFile(n, s)
       \/ \E d \in Dir \ {Root} :
            \/ RemoveDir(d)
            \/ \E frn \in (2 .. MaxFrn) \ ({ident[x] : x \in Dir} \cup {frnOf[x] : x \in Dir}) : MakeDir(d, frn)
            \/ \E e \in Dir \ {Root} : MoveDir(d, e)
       \/ PurgeJournal \/ RecreateJournal
    /\ UNCHANGED <<rowVars, cursor, scans, delta, leftOut, deltaFaults>>

-----------------------------------------------------------------------------
(* decide: a cursor that does not provably describe this journal is not    *)
(* used.                                                                   *)
Usable(c) ==
    /\ c # Unset
    /\ c.id = journal.id
    /\ c.next >= journal.low
    /\ c.next <= NextUsn

(* The file reference numbers that a set of records names: those of their  *)
(* parents, and of what changed itself if it is a directory.               *)
Touched(records) == {r.parent : r \in records} \cup {r.frn : r \in {q \in records : q.dir}}

Unread == UNION {journal.records[i] : i \in Max({cursor.next, journal.low}) .. Len(journal.records)}

LiveDirs == {d \in Dir : dirs[d].st = "live"}

(* Resolved: one row of the directory for each number that some row has.   *)
Resolutions(frns) ==
    LET known == {f \in frns : \E d \in Dir : frnOf[d] = f /\ f # 0}
    IN  {r \in [known -> Dir] : \A f \in known : frnOf[r[f]] = f}

BeginDelta ==
    /\ delta = Quiet /\ scans < MaxScans
    /\ Usable(cursor)
    /\ LET touched == Touched(Unread) IN
       /\ 2 * Cardinality(touched) <= Cardinality(LiveDirs) + OtherDirs
       /\ \E target \in Resolutions(touched) :
            delta' = [at |-> "listing", id |-> scans + 1,
                      target |-> target, journal |-> journal.id, next |-> NextUsn,
                      dirs |-> dirs, files |-> files, frnOf |-> frnOf,
                      staged |-> [n \in Entry |-> "none"],
                      listed |-> {}, walked |-> {},
                      doubtful |-> {d \in Dir : frnOf[d] \in DOMAIN target /\ target[frnOf[d]] # d}]
    /\ scans' = scans + 1
    /\ UNCHANGED <<driveVars, rowVars, cursor, leftOut, deltaFaults>>

(* One directory after the other, in the order of their numbers. *)
NextTarget == delta.target[Min(DOMAIN delta.target)]

LeftTargets ==
    LET first == Min(DOMAIN delta.target)
    IN  [f \in DOMAIN delta.target \ {first} |-> delta.target[f]]

(* A directory that cannot be listed, or is no longer in the place of its  *)
(* row, is left as it is.                                                  *)
Unlistable ==
    /\ delta.at = "listing" /\ DOMAIN delta.target # {}
    /\ delta' = [delta EXCEPT !.target = LeftTargets, !.doubtful = @ \cup {NextTarget}]
    /\ IF IsDir(NextTarget)
         THEN /\ deltaFaults.unlistable + deltaFaults.blind < MaxUnread
              /\ deltaFaults' = [deltaFaults EXCEPT !.unlistable = @ + 1]
         ELSE UNCHANGED deltaFaults
    /\ UNCHANGED <<driveVars, rowVars, cursor, scans, leftOut>>

(* What _walk_new_subtree finds: the directories from d down. *)
Subtree(d) == {x \in {d} \cup (Beneath(d) \cap Dir) : IsDir(x)}

(* A listing of d, when the directories of `denied' among the new ones     *)
(* beneath it cannot be listed and the stat of the entries of `blind'      *)
(* fails: the child directories that it shows, the ones without a row,     *)
(* what _walk_new_subtree walks of those, and the children and everything  *)
(* beneath them that are taken for gone.                                   *)
There(d, blind) == {k \in Children(d) : content[k] = "dir"} \ blind
Unseen(d, blind) == {k \in There(d, blind) : delta.dirs[k].st = "none"}

Walk(d, denied, blind) ==
    {x \in UNION {Subtree(k) : k \in Unseen(d, blind)} : /\ Above[x] \cap denied = {}
                                                        /\ ({x} \cup Above[x]) \cap blind = {}}

Read(d, denied, blind) == ({d} \cup Walk(d, denied, blind)) \ denied

Gone(d, blind) == {k \in Children(d) \cap Dir : delta.dirs[k].st = "live" /\ k \notin There(d, blind)}
Fallen(d, blind) == Gone(d, blind) \cup UNION {Beneath(k) : k \in Gone(d, blind)}

(* The rows after it.  A new directory gets a row when it cannot be listed *)
(* all the same.  An entry whose stat fails is staged as a file that could *)
(* not be read, whatever it is: a directory among them is not walked, and  *)
(* its row is gone with what is beneath it.  A row that is made live       *)
(* again, or given another number, is not read for that; and a listing of  *)
(* d may be of a directory that has taken its place.                       *)
Listing(d, denied, blind) ==
    LET there == There(d, blind)
        walk == Walk(d, denied, blind)
        read == Read(d, denied, blind)
        fallen == Fallen(d, blind)
        touched == {d} \cup there \cup walk
    IN  [delta EXCEPT
           !.target = LeftTargets,
           !.dirs = TombstoneDirs([x \in Dir |-> IF x \in touched THEN [st |-> "live", seen |-> delta.id]
                                                 ELSE @[x]], fallen),
           !.frnOf = [x \in Dir |-> IF x \in there \cup walk THEN ident[x] ELSE @[x]],
           !.files = TombstoneFiles(@, {n \in fallen : Parent[n] \in fallen}),
           !.staged = [n \in Entry |-> IF n \in blind THEN "unknown"
                                       ELSE IF Parent[n] \in read /\ content[n] \in Stamp
                                       THEN content[n] ELSE @[n]],
           !.listed = @ \cup {d} \cup walk,
           !.walked = @ \cup walk,
           !.doubtful = @ \cup denied \cup {Parent[n] : n \in blind} \cup {x \in {d} : delta.frnOf[x] # ident[x]}
                          \cup {k \in there \ Unseen(d, blind) : \/ delta.dirs[k].st = "gone"
                                                                \/ delta.frnOf[k] # ident[k]}]

ListTarget ==
    /\ delta.at = "listing" /\ DOMAIN delta.target # {} /\ IsDir(NextTarget)
    /\ LET reach == {NextTarget} \cup UNION {Subtree(k) : k \in Unseen(NextTarget, {})}
       IN \E denied \in SUBSET (reach \ {NextTarget}),
             blind \in SUBSET {n \in Entry : Parent[n] \in reach /\ Present(n)} :
           /\ denied \subseteq Walk(NextTarget, denied, blind)
           /\ \A n \in blind : Parent[n] \in Read(NextTarget, denied, blind)
           /\ deltaFaults' = [deltaFaults EXCEPT !.unlistable = @ + Cardinality(denied),
                                                 !.blind = @ + Cardinality(blind)]
           /\ deltaFaults'.unlistable + deltaFaults'.blind <= MaxUnread
           /\ delta' = Listing(NextTarget, denied, blind)
    /\ UNCHANGED <<driveVars, rowVars, cursor, scans, leftOut>>

CommitListing ==
    /\ delta.at = "listing" /\ DOMAIN delta.target = {}
    /\ dirs' = delta.dirs /\ files' = delta.files /\ frnOf' = delta.frnOf
    /\ delta' = [delta EXCEPT !.at = "merge"]
    /\ leftOut' = leftOut \cup delta.doubtful \cup delta.walked
    /\ UNCHANGED <<driveVars, cursor, scans, deltaFaults>>

(* merge_scan, for the directories that were listed.                       *)
Missed(rows) == MissingFiles(rows, delta.listed, delta.id)

MergeDelta ==
    /\ delta.at = "merge"
    /\ LET merged == Upsert(files, delta.staged, delta.id)
       IN  files' = TombstoneFiles(merged, Missed(merged))
    /\ delta' = [delta EXCEPT !.at = "cursor"]
    /\ leftOut' = leftOut \ (delta.listed \ delta.doubtful)
    /\ UNCHANGED <<driveVars, dirs, frnOf, cursor, scans, deltaFaults>>

(* The cursor is stored when the merge has been committed.  As a mutant:   *)
(* as soon as the listings have.                                           *)
StorableEarly == delta.at = "merge" /\ cursor.next # delta.next

Storable == delta.at = "cursor"

(* What is stored: where the next record will be. *)
Resume == delta.next

StoreCursor ==
    /\ Storable
    /\ cursor' = [id |-> delta.journal, next |-> Resume]
    /\ delta' = IF delta.at = "cursor" THEN Quiet ELSE delta
    /\ UNCHANGED <<driveVars, rowVars, scans, leftOut, deltaFaults>>

(* A crash loses what was not committed.  The directories it had walked    *)
(* have rows when it comes between the two commits, and their files none:  *)
(* they stay left out.                                                     *)
CrashDelta ==
    /\ delta # Quiet /\ deltaFaults.crashes < MaxDeltaCrashes
    /\ deltaFaults' = [deltaFaults EXCEPT !.crashes = @ + 1]
    /\ delta' = Quiet
    /\ UNCHANGED <<driveVars, rowVars, cursor, scans, leftOut>>

-----------------------------------------------------------------------------
(* A full scan of a drive at rest.  It keeps the number a row has, also    *)
(* when another directory is there now, and gives the root's row none.     *)
(* Who ran it may have stored where the journal was.                       *)
FullScan ==
    /\ delta = Quiet /\ scans < MaxScans
    /\ LET id == scans + 1
           there == {d \in Dir : IsDir(d)}
           rows == [n \in Entry |-> IF content[n] \in Stamp THEN content[n] ELSE "none"]
           interned == [d \in Dir |-> IF d \in there THEN [st |-> "live", seen |-> id] ELSE dirs[d]]
           merged == Upsert(files, rows, id)
       IN  /\ files' = TombstoneFiles(merged, VanishedFiles(interned, merged, there, id))
           /\ dirs' = TombstoneDirs(interned, GoneDirs(interned, there, id))
           /\ frnOf' = [d \in Dir |-> IF d \in there \ {Root} /\ dirs[d].st = "none"
                                      THEN ident[d] ELSE frnOf[d]]
    /\ scans' = scans + 1
    /\ cursor' \in {cursor, [id |-> journal.id, next |-> NextUsn]}
    /\ leftOut' = {d \in Dir \ {Root} : frnOf'[d] # ident[d]}
    /\ UNCHANGED <<driveVars, delta, deltaFaults>>

DeltaInit ==
    /\ content = Content0
    /\ \E number \in [{d \in Dir \ {Root} : Content0[d] = "dir"} -> 2 .. MaxFrn] :
         /\ \A x, y \in DOMAIN number : number[x] = number[y] => x = y
         /\ \A x, y \in DOMAIN number : x \in Above[y] => number[x] < number[y]
         /\ \A x \in DOMAIN number : number[x] <= Cardinality(DOMAIN number) + 1
         /\ ident = [d \in Dir |-> IF d = Root THEN RootFrn
                                   ELSE IF d \in DOMAIN number THEN number[d] ELSE 0]
    /\ journal = [id |-> 1, records |-> <<>>, low |-> 1]
    /\ dirs = [d \in Dir |-> NoDirRow] /\ files = [n \in Entry |-> NoFileRow]
    /\ frnOf = [d \in Dir |-> 0]
    /\ cursor = Unset /\ scans = 0 /\ delta = Quiet /\ leftOut = {}
    /\ deltaFaults = [crashes |-> 0, unlistable |-> 0, blind |-> 0]

DeltaNext ==
    \/ DriveChanges \/ FullScan
    \/ BeginDelta \/ Unlistable \/ ListTarget \/ CommitListing
    \/ MergeDelta \/ StoreCursor \/ CrashDelta

DeltaSpec == DeltaInit /\ [][DeltaNext]_deltaVars

-----------------------------------------------------------------------------
DeltaTypeOK ==
    /\ content \in [Entry -> Stamp \cup {"absent", "dir"}]
    /\ ident \in [Dir -> 0 .. MaxFrn] /\ frnOf \in [Dir -> 0 .. MaxFrn]
    /\ dirs \in [Dir -> DirRow] /\ files \in [Entry -> FileRow]
    /\ cursor.next \in 0 .. MaxRecords + 1
    /\ leftOut \subseteq Dir
    /\ delta.at \in {"idle", "listing", "merge", "cursor"}

Agrees(n) ==
    /\ content[n] \in Stamp <=> files[n].st = "live"
    /\ content[n] \in Stamp => files[n].facts = content[n]

(* Whenever a delta would be used, every directory whose number the unread *)
(* records do not name is catalogued as it is on the drive: a delta never  *)
(* makes the catalog confidently stale, wherever it was interrupted and    *)
(* whatever changed while it ran.  Left out are the scope root and every   *)
(* directory whose row does not have its number, every directory whose row *)
(* is not live, and those of `leftOut': the ones that were walked as new   *)
(* when a crash came before the merge, that could not be listed, or that   *)
(* hold an entry whose stat failed, whose row is wrong while the cursor    *)
(* moves on; and the ones whose row was made live again or given another   *)
(* number by the listing of their parent.                                  *)
CursorCovers ==
    Usable(cursor) =>
        \A d \in Dir \ {Root} :
            /\ IsDir(d) /\ dirs[d].st = "live" /\ frnOf[d] = ident[d]
            /\ ident[d] \notin Touched(Unread) /\ d \notin leftOut
            => \A n \in Children(d) : Agrees(n)

(* What tests/test_enum_delta.py:3-4 says: a delta leaves the catalog in   *)
(* the same state a full rescan would.  So when it is over, and nothing    *)
(* changed since it read the journal, every live file is on the drive and  *)
(* every file on the drive is live, if every listing and stat succeeded    *)
(* and no delta before it was interrupted.                                 *)
DeltaAgrees ==
    Usable(cursor) /\ cursor.next = NextUsn /\ delta = Quiet
        /\ deltaFaults = [crashes |-> 0, unlistable |-> 0, blind |-> 0]
      => \A n \in Entry : Agrees(n)

(* What docs/REVIEW.md:144 says: a path that was not examined is unknown,  *)
(* not gone.  So a delta during which nothing changed on the drive commits *)
(* no tombstone for a directory that is there.                             *)
UnexaminedIsKept ==
    [][delta.at = "listing" /\ delta.journal = journal.id /\ delta.next = NextUsn
         => \A d \in Dir : IsDir(d) /\ dirs[d].st = "live" => dirs'[d].st = "live"]_deltaVars
=============================================================================
