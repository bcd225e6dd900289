------------------------------ MODULE Redundancy ------------------------------
(***************************************************************************)
(* The counting rules of core/analysis/duplicates.py, as operators on a    *)
(* set of live file rows                                                   *)
(*   [id, vol, frn, content, size]                                         *)
(* and on driveOf, which gives each volume its drive row or NoDrive.  A    *)
(* row without a content identity has content NoContent; a file system     *)
(* without file reference numbers gives every row frn NoFrn.               *)
(***************************************************************************)
EXTENDS Integers, FiniteSets, FiniteSetsExt, Functions

CONSTANTS NoContent, NoFrn

NoDrive == 0

(* The drives that certainly hold a copy: identified ones, at least one. *)
DrivesProven(R, driveOf) ==
    Max({1, Cardinality({driveOf[r.vol] : r \in R} \ {NoDrive})})

(* As a mutant: volumes of unknown drive count as one drive. *)
DrivesPossibleLumped(R, driveOf) == Cardinality({driveOf[r.vol] : r \in R})

(* The drives that may hold a copy: a volume of unknown drive is its own. *)
DrivesPossible(R, driveOf) ==
    Cardinality({IF driveOf[r.vol] = NoDrive THEN <<"volume", r.vol>>
                                             ELSE <<"drive", driveOf[r.vol]>> : r \in R})

(* Hard links share a reference number on a volume and are one copy. *)
PhysicalCopies(R) ==
    Cardinality({<<r.vol, IF r.frn = NoFrn THEN <<"f", r.id>> ELSE <<"frn", r.frn>>>> : r \in R})

ReclaimableBytes(R, driveOf) ==
    Max({0, PhysicalCopies(R) - DrivesPossible(R, driveOf)}) * (CHOOSE r \in R : TRUE).size

-----------------------------------------------------------------------------
(* The groups of a catalog: the rows of each content identity, and each    *)
(* unread file whose size no other live row shares, which is a single copy *)
(* by its size alone.                                                      *)
Live(rows) == {r \in rows : r.content # NoContent}

ContentGroups(rows) ==
    {{r \in rows : r.content = c} : c \in {r.content : r \in Live(rows)}}

UniqueSize(rows, r) == \A q \in rows : q.size = r.size => q = r

SingleCopyFiles(rows) ==
    {r \in rows : r.content = NoContent /\ r.size > 0 /\ UniqueSize(rows, r)}

UnderProtected(rows, driveOf, minCopies) ==
    {g \in ContentGroups(rows) : DrivesProven(g, driveOf) < minCopies}
      \cup (IF minCopies > 1 THEN {{r} : r \in SingleCopyFiles(rows)} ELSE {})

ReclamationCandidates(rows, driveOf) ==
    {g \in ContentGroups(rows) : Cardinality(g) > 1 /\ ReclaimableBytes(g, driveOf) > 0}

(* The files whose protection is not known: no identity, and a size that   *)
(* some other live row shares.                                             *)
Unhashed(rows) == {r \in rows : r.content = NoContent /\ ~UniqueSize(rows, r)}

SizeSum(R) == SumFunction([r \in R |-> r.size])

Representative(g) == CHOOSE r \in g : TRUE

RedundancySummary(rows, driveOf, minCopies) ==
    LET single == SingleCopyFiles(rows)
        path   == SizeSum(Live(rows)) + SizeSum(single)
        unique == SizeSum({Representative(g) : g \in ContentGroups(rows)}) + SizeSum(single)
        exposed == UnderProtected(rows, driveOf, minCopies)
    IN  [distinct    |-> Cardinality(ContentGroups(rows)) + Cardinality(single),
         paths       |-> Cardinality(Live(rows)) + Cardinality(single),
         pathBytes   |-> path,
         uniqueBytes |-> unique,
         overhead    |-> path - unique,
         exposed     |-> Cardinality(exposed),
         uncertain   |-> Cardinality({g \in exposed :
                             DrivesPossible(g, driveOf) > DrivesProven(g, driveOf)}),
         reclaimable |-> SumFunction([g \in ReclamationCandidates(rows, driveOf) |->
                                         ReclaimableBytes(g, driveOf)]),
         unhashed    |-> Cardinality(Unhashed(rows))]
=============================================================================
