-------------------------------- MODULE Drives --------------------------------
(***************************************************************************)
(* Which physical drive a volume is on, as the catalog learns it           *)
(* (core/store/catalog.py) from what discovery can read of the disk        *)
(* (core/discovery) and from the user's word.                              *)
(*                                                                         *)
(* A disk has a serial and a partition-table identity, its layout.  A USB  *)
(* bridge may hide the serial, or the disk altogether, so one disk may be  *)
(* seen in several ways in the course of time.  Rows of the drive table    *)
(* are never deleted; their ids are the positions of the sequence drive.   *)
(* The connection is in autocommit mode, so each statement of an act is a  *)
(* step of its own, and another program may write between what an act      *)
(* looks at and what it writes.  The counting of copies over drives is     *)
(* module Redundancy's.                                                    *)
(***************************************************************************)
EXTENDS Integers, Sequences, Redundancy

CONSTANTS
    Volumes,        \* the volumes there are, each with its own GUID
    Disks,
    DiskOf,         \* [Volumes -> Disks]: where each volume really is
    Serial,         \* [Disks -> serials, or Absent]
    Layout,         \* [Disks -> layouts, or Absent]; a cloned disk shares one
    Absent,         \* SQL NULL
    Writers,        \* the programs that record volumes and drives
    MaxDrives,      \* bound on the rows of the drive table
    MaxActs         \* bound on the acts that are begun

ASSUME DrivesAssumption ==
    /\ IsFiniteSet(Volumes) /\ DiskOf \in [Volumes -> Disks]
    /\ DOMAIN Serial = Disks /\ DOMAIN Layout = Disks
    /\ \A d, e \in Disks : Serial[d] = Serial[e] /\ Serial[d] # Absent => d = e
    /\ MaxDrives \in Nat /\ MaxActs \in Nat

VARIABLES
    drive,          \* the drive table: a sequence of [serial, layout, identity]
    recorded,       \* the volumes the catalog knows
    driveOf,        \* [Volumes -> 0 .. Len(drive)], volume.drive_id or NoDrive
    doing,          \* [Writers -> the statement each program is at]
    acts,           \* the bound's counter
    docked,         \* history: the disks discovered with their serial
    hidden,         \* history: the disks discovered by their layout alone
    relapsed,       \* history: the disks discovered by layout after their serial
    said,           \* history: the volumes whose drive the user has named
    overtaken       \* history: the disks recorded on what another had made late

driveVars == <<drive, recorded, driveOf, doing, acts, docked, hidden, relapsed, said, overtaken>>

Ids == 1 .. Len(drive)

AtRest == [at |-> "rest"]

-----------------------------------------------------------------------------
(* What discovery can report of a disk: all it has, its layout behind a    *)
(* bridge that hides the serial, or nothing.                               *)
Reports(d) == {[serial |-> Serial[d], layout |-> Layout[d]],
               [serial |-> Absent, layout |-> Layout[d]],
               [serial |-> Absent, layout |-> Absent]}

(* A cloned disk shares its layout; the first to record it keeps it. *)
LayoutFree(layout, id) == \A i \in Ids : drive[i].layout = layout => i = id

BySerial(serial) == {i \in Ids : serial # Absent /\ drive[i].serial = serial}

ByLayout(serial, layout) ==
    {i \in Ids : /\ layout # Absent /\ drive[i].layout = layout
                 /\ drive[i].serial = Absent \/ (serial # Absent /\ drive[i].serial = serial)}

TheOne(found) == IF found = {} THEN NoDrive ELSE CHOOSE i \in found : TRUE

(* The row found gains what the report adds to it. *)
Updated(s) ==
    [drive[s.found] EXCEPT
        !.serial   = IF s.gains THEN s.report.serial ELSE @,
        !.identity = IF s.gains THEN "serial" ELSE @,
        !.layout   = IF s.keeps THEN s.report.layout ELSE @]

NewDrive(s) ==
    [serial   |-> s.report.serial,
     layout   |-> IF s.keeps THEN s.report.layout ELSE Absent,
     identity |-> IF s.report.serial # Absent THEN "serial" ELSE "disk-layout"]

(* Serials and layouts are unique in the table, which refuses a second one. *)
Clashes(id, row) ==
    \E i \in Ids \ {id} : \/ row.serial # Absent /\ drive[i].serial = row.serial
                          \/ row.layout # Absent /\ drive[i].layout = row.layout

-----------------------------------------------------------------------------
(* A program goes from one statement to the next; its write may make what  *)
(* another has looked at late.                                             *)
GoOn(p, s) == doing' = [doing EXCEPT ![p] = s]

Begin(p, s) == doing[p] = AtRest /\ GoOn(p, s) /\ acts < MaxActs /\ acts' = acts + 1

GoOnLate(p, s, Looked(_)) ==
    doing' = [q \in Writers |->
                IF q = p THEN s
                ELSE IF Looked(doing[q]) THEN [doing[q] EXCEPT !.late = TRUE] ELSE doing[q]]

Looking == {"layout", "holder", "drive"}
Naming  == {"create", "name"}

(* record_discovered_volume.  A disk that reports something has its row    *)
(* looked for, by its serial and else by its layout.                       *)
DiscoverVolume(p, v) ==
    /\ \E r \in Reports(DiskOf[v]) :
          LET found == BySerial(r.serial) IN
          Begin(p, [at |-> IF r.serial = Absent /\ r.layout = Absent THEN "volume"
                           ELSE IF r.layout = Absent THEN "drive"
                           ELSE IF found = {} THEN "layout" ELSE "holder",
                    vol |-> v, report |-> r, found |-> TheOne(found),
                    gains |-> FALSE, keeps |-> FALSE, late |-> FALSE])
    /\ UNCHANGED <<drive, recorded, driveOf, docked, hidden, relapsed, said, overtaken>>

LookByLayout(p) ==
    /\ doing[p].at = "layout"
    /\ LET r == doing[p].report
           found == ByLayout(r.serial, r.layout)
       IN  GoOn(p, [doing[p] EXCEPT !.at = "holder", !.found = TheOne(found),
                                    !.gains = found # {} /\ r.serial # Absent])
    /\ UNCHANGED <<drive, recorded, driveOf, acts, docked, hidden, relapsed, said, overtaken>>

LookForHolder(p) ==
    /\ doing[p].at = "holder"
    /\ GoOn(p, [doing[p] EXCEPT !.at = "drive",
                                !.keeps = LayoutFree(doing[p].report.layout, doing[p].found)])
    /\ UNCHANGED <<drive, recorded, driveOf, acts, docked, hidden, relapsed, said, overtaken>>

(* What a program looked for is late once another writes a row with the    *)
(* serial or the layout.                                                   *)
Touches(row, s) ==
    /\ s.at \in Looking
    /\ \/ row.serial # Absent /\ row.serial = s.report.serial
       \/ row.layout # Absent /\ row.layout = s.report.layout

WriteDrive(p) ==
    LET s == doing[p]
        d == DiskOf[s.vol]
        id == IF s.found = NoDrive THEN Len(drive) + 1 ELSE s.found
        row == IF s.found = NoDrive THEN NewDrive(s) ELSE Updated(s)
        behind == s.report.serial = Absent
    IN  /\ s.at = "drive" /\ id <= MaxDrives /\ ~Clashes(id, row)
        /\ drive' = IF s.found = NoDrive THEN Append(drive, row) ELSE [drive EXCEPT ![id] = row]
        /\ GoOnLate(p, [s EXCEPT !.at = "volume", !.found = id], LAMBDA t : Touches(row, t))
        /\ docked' = IF behind THEN docked ELSE docked \cup {d}
        /\ hidden' = IF behind THEN hidden \cup {d} ELSE hidden
        /\ relapsed' = IF behind /\ d \in docked THEN relapsed \cup {d} ELSE relapsed
        /\ overtaken' = IF s.late THEN overtaken \cup {d} ELSE overtaken
        /\ UNCHANGED <<recorded, driveOf, acts, said>>

LookForVolume(p) ==
    /\ doing[p].at = "volume"
    /\ GoOn(p, [doing[p] EXCEPT !.at = IF doing[p].vol \in recorded THEN "update" ELSE "insert"])
    /\ UNCHANGED <<drive, recorded, driveOf, acts, docked, hidden, relapsed, said, overtaken>>

(* A volume whose disk reports nothing keeps the drive it had. *)
WriteVolume(p) ==
    LET s == doing[p]
        OnIt(t) == s.found # NoDrive /\ t.at \in Naming /\ t.vol = s.vol
    IN  /\ s.at = "update" \/ (s.at = "insert" /\ s.vol \notin recorded)
        /\ recorded' = recorded \cup {s.vol}
        /\ driveOf' = [driveOf EXCEPT ![s.vol] = IF s.found = NoDrive THEN @ ELSE s.found]
        /\ said' = IF s.found = NoDrive THEN said ELSE said \ {s.vol}
        /\ GoOnLate(p, AtRest, OnIt)
        /\ UNCHANGED <<drive, acts, docked, hidden, relapsed, overtaken>>

(* A program ends at a row the table refuses, or is killed. *)
WriterEnds(p) ==
    /\ doing[p] # AtRest /\ GoOn(p, AtRest)
    /\ UNCHANGED <<drive, recorded, driveOf, acts, docked, hidden, relapsed, said, overtaken>>

(* As a mutant: the user may settle anything. *)
UnverifiedAny(v) == v \in recorded

(* The user may settle only what discovery could not. *)
Unverified(v) ==
    /\ v \in recorded
    /\ driveOf[v] # NoDrive => drive[driveOf[v]].identity = "user"

(* confirm_volume_drive, with a row made for the volume, and               *)
(* assign_volume_drive, to a row there is: rows are never deleted.         *)
NameDriveOf(p, v) ==
    /\ Unverified(v)
    /\ \E i \in Ids \cup {NoDrive} :
          Begin(p, [at |-> IF i = NoDrive THEN "create" ELSE "name", vol |-> v, found |-> i, late |-> FALSE])
    /\ UNCHANGED <<drive, recorded, driveOf, docked, hidden, relapsed, said, overtaken>>

CreateDrive(p) ==
    /\ doing[p].at = "create" /\ Len(drive) < MaxDrives
    /\ drive' = Append(drive, [serial |-> Absent, layout |-> Absent, identity |-> "user"])
    /\ GoOn(p, [doing[p] EXCEPT !.at = "name", !.found = Len(drive) + 1])
    /\ UNCHANGED <<recorded, driveOf, acts, docked, hidden, relapsed, said, overtaken>>

WriteName(p) ==
    LET s == doing[p] IN
    /\ s.at = "name"
    /\ driveOf' = [driveOf EXCEPT ![s.vol] = s.found]
    /\ said' = said \cup {s.vol}
    /\ GoOn(p, AtRest)
    /\ UNCHANGED <<drive, recorded, acts, docked, hidden, relapsed, overtaken>>

DrivesInit ==
    /\ drive = <<>>
    /\ recorded = {}
    /\ driveOf = [v \in Volumes |-> NoDrive]
    /\ doing = [p \in Writers |-> AtRest] /\ acts = 0
    /\ docked = {} /\ hidden = {} /\ relapsed = {} /\ said = {} /\ overtaken = {}

DrivesNext ==
    \E p \in Writers :
        \/ \E v \in Volumes : DiscoverVolume(p, v) \/ NameDriveOf(p, v)
        \/ LookByLayout(p) \/ LookForHolder(p) \/ WriteDrive(p)
        \/ LookForVolume(p) \/ WriteVolume(p)
        \/ CreateDrive(p) \/ WriteName(p) \/ WriterEnds(p)

DrivesSpec == DrivesInit /\ [][DrivesNext]_driveVars

-----------------------------------------------------------------------------
DriveRow == [serial   : {Serial[d] : d \in Disks} \cup {Absent},
             layout   : {Layout[d] : d \in Disks} \cup {Absent},
             identity : {"serial", "disk-layout", "user"}]

DrivesTypeOK ==
    /\ drive \in Seq(DriveRow)
    /\ recorded \subseteq Volumes
    /\ driveOf \in [Volumes -> 0 .. Len(drive)]
    /\ docked \subseteq Disks /\ hidden \subseteq Disks /\ relapsed \subseteq Disks
    /\ said \subseteq Volumes /\ overtaken \subseteq Disks
    /\ DOMAIN doing = Writers /\ acts \in 0 .. MaxActs

(* Clones of which one has been seen without its serial can be confused. *)
Confusable(d) ==
    \E e \in Disks \ {d} : Layout[d] = Layout[e] /\ Layout[d] # Absent /\ {d, e} \cap hidden # {}

(* The volumes whose drive row is discovery's own finding. *)
Identified(v) == driveOf[v] # NoDrive /\ v \notin said

(* What identifies a drive stays: a recorded serial is replaced, and a     *)
(* volume that discovery tied to a drive leaves it by the user's word,     *)
(* only by a program that another overtook between its look and its write; *)
(* the serial only by a clone's that was seen without its own.             *)
IdentityStands ==
    [][/\ \A i \in Ids : drive[i].serial \notin {Absent, drive'[i].serial} =>
             \E p \in Writers : /\ doing[p].at = "drive" /\ doing[p].late
                               /\ Confusable(DiskOf[doing[p].vol]) /\ doing'[p] # doing[p]
       /\ \A v \in Volumes : Identified(v) /\ driveOf'[v] # driveOf[v] /\ v \in said' =>
             \E p \in Writers : /\ doing[p].at = "name" /\ doing[p].late
                               /\ doing[p].vol = v /\ doing'[p] # doing[p]]_driveVars

(* What catalog.py:370-372 says of a drive identified by its serial or its *)
(* partition table: the user can't overrule it.                            *)
NotOverruled ==
    [][\A v \in Volumes : Identified(v) /\ driveOf'[v] # driveOf[v] => v \notin said']_driveVars

(* What core/analysis/duplicates.py:38 says of the proven count, and       *)
(* core/discovery/base.py:23-26 of the layout: a disk that comes back is   *)
(* recognised, so two volumes that discovery tied to drives are on         *)
(* different drives only if they are on different disks.                   *)
DiskRecognised ==
    \A v, w \in Volumes :
        /\ Identified(v) /\ Identified(w) /\ DiskOf[v] = DiskOf[w]
        /\ ~Confusable(DiskOf[v]) /\ DiskOf[v] \notin overtaken
        => driveOf[v] = driveOf[w]

-----------------------------------------------------------------------------
(* One live copy of one content on each recorded volume. *)
CopyOn(vs) == {[id |-> v, vol |-> v, frn |-> NoFrn, content |-> "c", size |-> 1] : v \in vs}

(* The figures the reports are built from, against the disks themselves:   *)
(* of copies on the volumes vs, no more drives are called proven, and no   *)
(* fewer possible, than there are disks that hold one.  Set apart are the  *)
(* volumes that the user named a drive for, and the disks that discovery   *)
(* lost sight of: seen without their serial after it, clones one of which  *)
(* was, or recorded by two programs at once.                               *)
CountsAreSafe ==
    \A vs \in SUBSET recorded :
        /\ vs # {} /\ vs \cap said = {}
        /\ \A v \in vs : DiskOf[v] \notin relapsed \cup overtaken /\ ~Confusable(DiskOf[v])
        => LET real == Cardinality({DiskOf[v] : v \in vs}) IN
           /\ DrivesProven(CopyOn(vs), driveOf) <= real
           /\ DrivesPossible(CopyOn(vs), driveOf) >= real
=============================================================================
