------------------------------- MODULE Bundles --------------------------------
(***************************************************************************)
(* Export bundles (core/export): new folders that programs fill with files *)
(* under a folder the user chose, next to the catalog row of each finished *)
(* one (core/store/exports.py).                                            *)
(*                                                                         *)
(* A bundle's folder is named for the second it was opened in and its      *)
(* kind, with a number when that is taken; here all of a kind fall into    *)
(* one second.  Nothing is locked: programs meet in the file system.  What *)
(* a body is built from is read from the catalog in several statements,    *)
(* between which a scan may commit.                                        *)
(***************************************************************************)
EXTENDS Integers, Sequences

CONSTANTS
    Exporters,      \* programs that make exports
    Kinds,          \* the kinds an export is made of, in order: a sequence
    FilesOf,        \* [kind -> the files of its body, in order]
    MaxFolders,     \* numbers tried for a folder's name
    MaxFaults,      \* bound on crashes and failing writes
    MaxScopings,    \* bound on the times a scope root is added or removed
    MaxGrowth       \* bound on scans that add folders and files

KindSet == {Kinds[i] : i \in DOMAIN Kinds}
BodyNames == UNION {{FilesOf[k][i] : i \in DOMAIN FilesOf[k]} : k \in KindSet}
Manifest == "_EXPORT.json"

ASSUME BundlesAssumption ==
    /\ Kinds \in Seq(KindSet) /\ Kinds # <<>>
    /\ FilesOf \in [KindSet -> Seq(BodyNames)] /\ Manifest \notin BodyNames
    /\ MaxFolders \in Nat \ {0}

VARIABLES
    folder,         \* [names -> what is in it], a name being <<kind, number>>
    exportRow,      \* the names the catalog records as exports
    scoped,         \* whether the chosen folder is inside an enabled scope root
    generation,     \* how often a scan has added folders with files to the catalog
    job,            \* [Exporters -> what each is doing]
    faults, scopings

bundleVars == <<folder, exportRow, scoped, generation, job, faults, scopings>>

Names == KindSet \X (1 .. MaxFolders)

Resting == [at |-> "resting"]

(* A file is written by one program and has all of its data, or not yet. *)
Partial(e) == [by |-> e, whole |-> FALSE]
Whole(e) == [by |-> e, whole |-> TRUE]

Turn(e, j) == job' = [job EXCEPT ![e] = j]

Kind(e) == Kinds[job[e].i]
Name(e) == <<Kind(e), job[e].number>>

-----------------------------------------------------------------------------
(* The folder is checked against the scope roots there are now; that the   *)
(* same holds later is not checked again.                                  *)
OpenBundle(e) ==
    /\ job[e].at \in {"resting", "next"}
    /\ ~scoped
    /\ Turn(e, [at |-> "mkdir", i |-> IF job[e] = Resting THEN 1 ELSE job[e].i, number |-> 1])
    /\ UNCHANGED <<folder, exportRow, scoped, generation, faults, scopings>>

(* A folder that exists is never used. *)
Taken(name) == name \in DOMAIN folder

MakeFolder(e) ==
    /\ job[e].at = "mkdir"
    /\ IF Taken(Name(e))
         THEN /\ Turn(e, IF job[e].number < MaxFolders
                           THEN [job[e] EXCEPT !.number = @ + 1] ELSE Resting)
              /\ UNCHANGED folder
         ELSE /\ folder' = [n \in DOMAIN folder \cup {Name(e)} |->
                              IF n = Name(e) THEN <<>> ELSE folder[n]]
              /\ Turn(e, [at |-> "paths", i |-> job[e].i, number |-> job[e].number])
    /\ UNCHANGED <<exportRow, scoped, generation, faults, scopings>>

(* The folders of the catalog are read, and the files after them; a file   *)
(* whose folder came in between has none, and the export fails.            *)
ReadPaths(e) ==
    /\ job[e].at = "paths"
    /\ Turn(e, [at |-> "rows", i |-> job[e].i, number |-> job[e].number, seen |-> generation])
    /\ UNCHANGED <<folder, exportRow, scoped, generation, faults, scopings>>

ReadRows(e) ==
    /\ job[e].at = "rows"
    /\ Turn(e, IF generation # job[e].seen THEN Resting
               ELSE [at |-> "write", i |-> job[e].i, number |-> job[e].number, left |-> FilesOf[Kind(e)]])
    /\ UNCHANGED <<folder, exportRow, scoped, generation, faults, scopings>>

(* A file is created exclusively, and filled after that. *)
Create(e, file) ==
    /\ file \notin DOMAIN folder[Name(e)]
    /\ folder' = [folder EXCEPT ![Name(e)] =
                    [f \in DOMAIN @ \cup {file} |-> IF f = file THEN Partial(e) ELSE @[f]]]

Write(e) ==
    /\ job[e].at = "write" /\ job[e].left # <<>>
    /\ Create(e, Head(job[e].left))
    /\ Turn(e, [job[e] EXCEPT !.at = "fill"])
    /\ UNCHANGED <<exportRow, scoped, generation, faults, scopings>>

Refused(e) ==
    /\ job[e].at = "write" /\ job[e].left # <<>>
    /\ Head(job[e].left) \in DOMAIN folder[Name(e)]
    /\ Turn(e, Resting)
    /\ UNCHANGED <<folder, exportRow, scoped, generation, faults, scopings>>

Fill(e) ==
    /\ job[e].at = "fill"
    /\ folder' = [folder EXCEPT ![Name(e)][Head(job[e].left)] = Whole(e)]
    /\ Turn(e, IF Head(job[e].left) = Manifest
                 THEN [at |-> "record", i |-> job[e].i, number |-> job[e].number]
                 ELSE [job[e] EXCEPT !.at = "write", !.left = Tail(@)])
    /\ UNCHANGED <<exportRow, scoped, generation, faults, scopings>>

(* Closing writes the manifest last.  As a mutant: before the last file. *)
ClosableEarly(e) == job[e].at = "write" /\ Len(job[e].left) <= 1

Closable(e) == job[e].at = "write" /\ job[e].left = <<>>

Close(e) ==
    /\ Closable(e)
    /\ Turn(e, [job[e] EXCEPT !.left = <<Manifest>>])
    /\ UNCHANGED <<folder, exportRow, scoped, generation, faults, scopings>>

(* The row and its audit entry are one transaction, and the next kind has  *)
(* its turn.                                                               *)
Record(e) ==
    /\ job[e].at = "record"
    /\ exportRow' = exportRow \cup {Name(e)}
    /\ Turn(e, IF job[e].i < Len(Kinds) THEN [at |-> "next", i |-> job[e].i + 1] ELSE Resting)
    /\ UNCHANGED <<folder, scoped, generation, faults, scopings>>

(* The program crashes, the drive is full, or the catalog stays locked:    *)
(* what was written stays as it is.                                        *)
Fail(e) ==
    /\ job[e] # Resting /\ faults < MaxFaults
    /\ faults' = faults + 1
    /\ Turn(e, Resting)
    /\ UNCHANGED <<folder, exportRow, scoped, generation, scopings>>

Rescope ==
    /\ scopings < MaxScopings
    /\ scoped' = ~scoped /\ scopings' = scopings + 1
    /\ UNCHANGED <<folder, exportRow, generation, job, faults>>

Grow ==
    /\ generation < MaxGrowth
    /\ generation' = generation + 1
    /\ UNCHANGED <<folder, exportRow, scoped, job, faults, scopings>>

BundlesInit ==
    /\ folder = <<>> /\ exportRow = {} /\ scoped = FALSE /\ generation = 0
    /\ job = [e \in Exporters |-> Resting]
    /\ faults = 0 /\ scopings = 0

BundlesNext ==
    \/ Rescope \/ Grow
    \/ \E e \in Exporters :
        \/ OpenBundle(e) \/ MakeFolder(e) \/ ReadPaths(e) \/ ReadRows(e)
        \/ Write(e) \/ Refused(e) \/ Fill(e) \/ Close(e) \/ Record(e) \/ Fail(e)

BundlesSpec == BundlesInit /\ [][BundlesNext]_bundleVars

-----------------------------------------------------------------------------
BundlesTypeOK ==
    /\ DOMAIN folder \subseteq Names
    /\ \A n \in DOMAIN folder : \A f \in DOMAIN folder[n] :
          folder[n][f] \in [by : Exporters, whole : BOOLEAN]
    /\ exportRow \subseteq Names
    /\ scoped \in BOOLEAN
    /\ \A e \in Exporters : job[e].at \in
          {"resting", "next", "mkdir", "paths", "rows", "write", "fill", "record"}

Finished(n) == Manifest \in DOMAIN folder[n] /\ folder[n][Manifest].whole

BodyFiles(n) == {FilesOf[n[1]][i] : i \in DOMAIN FilesOf[n[1]]}

(* An export that says it is finished is: every file that its manifest     *)
(* lists is there, whole, and written by the program that wrote the        *)
(* manifest; and the catalog records finished exports only, however many   *)
(* programs export in the same second and wherever one of them fails.      *)
FinishedIsWhole ==
    /\ exportRow \subseteq {n \in DOMAIN folder : Finished(n)}
    /\ \A n \in DOMAIN folder : Finished(n) =>
         \A f \in BodyFiles(n) :
           f \in DOMAIN folder[n] /\ folder[n][f] = Whole(folder[n][Manifest].by)
=============================================================================
