------------------------------- MODULE Migration ------------------------------
(***************************************************************************)
(* How a catalog of an older version is brought to the present one         *)
(* (core/store/schema.py, migrate), by every program that opens it, and    *)
(* the backup that is taken first.  Nothing is locked over the whole of    *)
(* it: each statement commits by itself, a program may crash after any of  *)
(* them, and several programs may open the catalog at once.                *)
(*                                                                         *)
(* The schema is a set of parts: the columns that ALTER statements add,    *)
(* the tables that DROP statements remove for the DDL to make again, and   *)
(* those the DDL alone creates.                                            *)
(***************************************************************************)
EXTENDS Integers, Sequences, FiniteSets

CONSTANTS
    Openers,        \* programs
    Present,        \* SCHEMA_VERSION
    Oldest,         \* the version the catalog has at first
    Steps,          \* MIGRATIONS: [Oldest + 1 .. Present -> Seq([op, part])]
    OldParts,       \* the parts a catalog of the oldest version has
    DdlParts,       \* the parts the DDL creates if they are not there
    MaxOpenCrashes

VARIABLES
    parts,          \* the parts the catalog file has
    versions,       \* the rows of schema_version
    backup,         \* the file that has the backup's name: who writes it, and
                    \* the parts it holds, none while it is incomplete
    partialFile,    \* the file that has its temporary name
    index,          \* what there is of the index over the names: its tables, the
                    \* triggers that keep it, the names the catalog had before
    opener,         \* [Openers -> what each is doing]
    doubled,        \* history: two programs made a backup at the same time
    undone,         \* history: a table was dropped after another program came to
                    \* the DDL that makes it again
    openCrashes

migrationVars == <<parts, versions, backup, partialFile, index, opener, doubled, undone, openCrashes>>

NoFile == [by |-> "nobody", holds |-> {}]
NewFile(o) == [by |-> o, holds |-> {}]
Shut == [at |-> "shut"]

(* All statements from a version to the present one, in order. *)
Statements(v) ==
    LET from[u \in v .. Present] == IF u = Present THEN <<>> ELSE Steps[u + 1] \o from[u + 1]
    IN  from[v]

AllSteps == UNION {{Steps[u][i] : i \in DOMAIN Steps[u]} : u \in DOMAIN Steps}

PresentParts == OldParts \cup DdlParts \cup {s.part : s \in AllSteps}

Dropped == {s.part : s \in {t \in AllSteps : t.op = "drop"}}

(* A table is dropped only for the DDL to make it again, and not every     *)
(* part of an old catalog ever is.                                         *)
ASSUME MigrationAssumption ==
    /\ Oldest \in Nat /\ Present \in Nat /\ Oldest < Present
    /\ Steps \in [Oldest + 1 .. Present -> Seq([op : {"add", "drop"}, part : PresentParts])]
    /\ Dropped \subseteq DdlParts /\ ~(OldParts \subseteq Dropped)
    /\ MaxOpenCrashes \in Nat

CurrentVersion == CHOOSE v \in versions : \A w \in versions : w <= v

Move(o, s) == opener' = [opener EXCEPT ![o] = s]

-----------------------------------------------------------------------------
OpenCatalog(o) ==
    /\ opener[o].at \in {"shut", "failed"}
    /\ Move(o, IF CurrentVersion = Present THEN [at |-> "open"]
               ELSE [at |-> "backup", from |-> CurrentVersion])
    /\ UNCHANGED <<index, parts, versions, backup, partialFile, doubled, undone, openCrashes>>

(* A backup of this second that is there already is kept.  Otherwise the   *)
(* temporary file is removed, if there is one, and made anew.              *)
StartBackup(o) ==
    /\ opener[o].at = "backup"
    /\ IF backup # NoFile
         THEN /\ Move(o, [at |-> "alter", left |-> Statements(opener[o].from)])
              /\ UNCHANGED <<partialFile, doubled>>
         ELSE /\ partialFile' = NewFile(o)
              /\ Move(o, [opener[o] EXCEPT !.at = "copy"])
              /\ doubled' = (doubled \/ \E q \in Openers \ {o} :
                                           opener[q].at \in {"copy", "rename"})
    /\ UNCHANGED <<index, parts, versions, backup, undone, openCrashes>>

(* The copy goes into the file it was begun in, whatever its name is now. *)
CopyCatalog(o) ==
    /\ opener[o].at = "copy"
    /\ partialFile' = IF partialFile.by = o THEN [partialFile EXCEPT !.holds = parts] ELSE partialFile
    /\ backup' = IF backup.by = o THEN [backup EXCEPT !.holds = parts] ELSE backup
    /\ Move(o, [opener[o] EXCEPT !.at = "rename"])
    /\ UNCHANGED <<index, parts, versions, doubled, undone, openCrashes>>

(* A backup gets its name once it is complete. *)
Nameable(o) == opener[o].at = "rename"

RenameBackup(o) ==
    /\ Nameable(o)
    /\ IF partialFile = NoFile
         THEN Move(o, [at |-> "failed"]) /\ UNCHANGED <<backup, partialFile>>
         ELSE /\ backup' = partialFile /\ partialFile' = NoFile
              /\ Move(o, [at |-> "alter", left |-> Statements(opener[o].from)])
    /\ UNCHANGED <<index, parts, versions, doubled, undone, openCrashes>>

(* An ADD COLUMN is skipped when the table has the column, or is not there *)
(* itself; the check and the statement are two.  As a mutant: it is never  *)
(* skipped.                                                                *)
SkippedNever(s) == FALSE

Skipped(s) == s.op = "add" /\ s.part \in parts

CheckColumn(o) ==
    /\ opener[o].at = "alter"
    /\ IF opener[o].left = <<>> THEN Move(o, [at |-> "ddl"])
       ELSE IF Skipped(Head(opener[o].left))
         THEN Move(o, [opener[o] EXCEPT !.left = Tail(@)])
         ELSE Move(o, [opener[o] EXCEPT !.at = "execute"])
    /\ UNCHANGED <<index, parts, versions, backup, partialFile, doubled, undone, openCrashes>>

(* Adding a column that is there is an error, and the opening fails. *)
Execute(o) ==
    /\ opener[o].at = "execute"
    /\ LET s == Head(opener[o].left) IN
       IF s.op = "add" /\ s.part \in parts
         THEN Move(o, [at |-> "failed"]) /\ UNCHANGED parts
         ELSE /\ parts' = IF s.op = "add" THEN parts \cup {s.part} ELSE parts \ {s.part}
              /\ Move(o, [at |-> "alter", left |-> Tail(opener[o].left)])
    /\ undone' = (undone \/ (/\ Head(opener[o].left).op = "drop"
                             /\ \/ Present \in versions
                                \/ \E q \in Openers : opener[q].at \in {"ddl", "tables", "triggers", "names", "stamp"}))
    /\ UNCHANGED <<index, versions, backup, partialFile, doubled, openCrashes>>

(* The DDL creates what is missing, one statement after the other. *)
Ddl(o) ==
    /\ opener[o].at = "ddl"
    /\ IF DdlParts \subseteq parts
         THEN Move(o, [at |-> "tables"]) /\ UNCHANGED parts
         ELSE \E part \in DdlParts \ parts : parts' = parts \cup {part} /\ UNCHANGED opener
    /\ UNCHANGED <<index, versions, backup, partialFile, doubled, undone, openCrashes>>

(* The index over file and folder names: a program that finds its tables   *)
(* takes it as made.  Otherwise the tables, the triggers and the names are *)
(* put in one after the other.                                             *)
MakeTables(o) ==
    /\ opener[o].at = "tables"
    /\ IF "tables" \in index
         THEN Move(o, [at |-> "stamp"]) /\ UNCHANGED index
         ELSE Move(o, [at |-> "triggers"]) /\ index' = index \cup {"tables"}
    /\ UNCHANGED <<parts, versions, backup, partialFile, doubled, undone, openCrashes>>

MakeTriggers(o) ==
    /\ opener[o].at = "triggers"
    /\ Move(o, [at |-> "names"]) /\ index' = index \cup {"triggers"}
    /\ UNCHANGED <<parts, versions, backup, partialFile, doubled, undone, openCrashes>>

FillIndex(o) ==
    /\ opener[o].at = "names"
    /\ Move(o, [at |-> "stamp"]) /\ index' = index \cup {"names"}
    /\ UNCHANGED <<parts, versions, backup, partialFile, doubled, undone, openCrashes>>

(* The version is recorded last.  As a mutant: before the DDL. *)
StampableEarly(o) == opener[o].at \in {"ddl", "stamp"}

Stampable(o) == opener[o].at = "stamp"

Recorded == Present

Stamp(o) ==
    /\ Stampable(o)
    /\ versions' = versions \cup {Recorded}
    /\ Move(o, [at |-> "open"])
    /\ UNCHANGED <<index, parts, backup, partialFile, doubled, undone, openCrashes>>

CrashOpening(o) ==
    /\ opener[o].at \notin {"shut", "failed"} /\ openCrashes < MaxOpenCrashes
    /\ openCrashes' = openCrashes + 1
    /\ Move(o, Shut)
    /\ UNCHANGED <<index, parts, versions, backup, partialFile, doubled, undone>>

(* Between two openings the second has passed and a new backup is taken. *)
LaterSecond ==
    /\ backup # NoFile /\ \A o \in Openers : opener[o].at \in {"shut", "failed", "open"}
    /\ CurrentVersion # Present
    /\ backup' = NoFile
    /\ UNCHANGED <<index, parts, versions, partialFile, opener, doubled, undone, openCrashes>>

OpenStep(o) ==
    \/ OpenCatalog(o) \/ StartBackup(o) \/ CopyCatalog(o) \/ RenameBackup(o)
    \/ CheckColumn(o) \/ Execute(o) \/ Ddl(o)
    \/ MakeTables(o) \/ MakeTriggers(o) \/ FillIndex(o) \/ Stamp(o)

MigrationInit ==
    /\ parts = OldParts /\ versions = {Oldest}
    /\ backup = NoFile /\ partialFile = NoFile /\ index = {}
    /\ doubled = FALSE /\ undone = FALSE
    /\ opener = [o \in Openers |-> Shut] /\ openCrashes = 0

MigrationNext ==
    \/ \E o \in Openers : OpenStep(o) \/ CrashOpening(o)
    \/ LaterSecond

(* A program that opens the catalog goes on, and a person whose program    *)
(* failed to open it starts it again.                                      *)
MigrationFairness == \A o \in Openers : WF_migrationVars(OpenStep(o))

MigrationSpec == MigrationInit /\ [][MigrationNext]_migrationVars

-----------------------------------------------------------------------------
MigrationTypeOK ==
    /\ OldParts \ Dropped \subseteq parts
    /\ parts \subseteq PresentParts
    /\ versions \subseteq {Oldest, Present}
    /\ \A f \in {backup, partialFile} :
          f.by \in Openers \cup {"nobody"} /\ f.holds \subseteq PresentParts
    /\ index \subseteq {"tables", "triggers", "names"}
    /\ \A o \in Openers : opener[o].at \in
          {"shut", "backup", "copy", "rename", "alter", "execute", "ddl", "tables", "triggers",
           "names", "stamp", "open", "failed"}

Migrating(o) == opener[o].at \in {"alter", "execute", "ddl", "tables", "triggers", "names", "stamp"}

(* A catalog whose upgrade is recorded is complete, wherever programs      *)
(* crashed on the way and however many upgraded it at once, unless one of  *)
(* them dropped a table that another had made, or was about to; and a file *)
(* that has the name of a backup is a complete catalog, unless two         *)
(* programs made the same backup at once.                                  *)
UpgradeIsWhole ==
    /\ Present \in versions /\ ~undone => parts = PresentParts
    /\ backup # NoFile /\ ~doubled => backup.holds # {}

(* Every program opens the catalog in the end. *)
CatalogOpens == \A o \in Openers : <>[](opener[o].at = "open")

(* What core/store/schema.py:650-653 says of a crash: what it leaves, the  *)
(* next run completes.  So when nobody is upgrading, a catalog that says   *)
(* it is at the present version is.                                        *)
OpenedIsWhole ==
    Present \in versions /\ (\A o \in Openers : ~Migrating(o)) => parts = PresentParts

(* What core/store/schema.py:523-525 says of the index over names, which   *)
(* every search uses once its tables are there: the catalog's names were   *)
(* put in when it was made.  A crash between the two leaves it empty.       *)
SearchIsComplete ==
    Present \in versions /\ "tables" \in index /\ (\A o \in Openers : ~Migrating(o))
        => {"triggers", "names"} \subseteq index
=============================================================================
