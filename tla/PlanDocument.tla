----------------------------- MODULE PlanDocument ------------------------------
(***************************************************************************)
(* What a plan document says besides its copies (core/planner/document.py, *)
(* greedy.crowding), and how the validation bench judges it: from the      *)
(* steps and the folders of the units alone, file by file                  *)
(* (vv/adapter.py plan, vv/evaluate.py plan_tests).                        *)
(***************************************************************************)
EXTENDS Planner

Made == phase = "made"

(* What a catalog says: files are in folders and have sizes, a folder is   *)
(* on the volume of those above it, and the rules name folders.            *)
IsCatalog(c) ==
    /\ IsFiniteSet(c.files) /\ \A f \in c.files : f.dir \in Tree /\ f.size \in Nat
    /\ c.driveOf \in [Tree -> DriveIds \cup {NoDrive}]
    /\ \A d \in Tree : \A a \in Over[d] : c.driveOf[a] = c.driveOf[d]
    /\ DOMAIN c.rules = 1 .. Len(c.rules) /\ Len(c.rules) \in Nat
    /\ \A i \in DOMAIN c.rules : c.rules[i].dir \in Tree

(* The units are those of a catalog.  A cluster has bytes. *)
ASSUME DocumentAssumption ==
    /\ Clusters \subseteq Nat \ {0}
    /\ \A input \in Inputs :
        /\ IsCatalog(input.catalog)
        /\ input.unit = UnitsOf(input.catalog, {input.dest[d].cluster : d \in DriveIds} \cup {DefaultCluster})

(* What a copy shares with more than target - 1 of its unit's copies.  As  *)
(* a mutant: of the copies there were when it was chosen.                  *)
SharedTraits(u, d, among) ==
    LET limit == Max({1, unit[u].target - 1})
        Alike(value(_)) == Cardinality({h \in among : value(dest[h]) = value(dest[d])}) > limit
        batch(row) == row.batch
        zone(row)  == row.zone
    IN  {trait \in {"batch", "zone"} :
            IF trait = "batch" THEN dest[d].batch # Unrecorded /\ Alike(batch)
            ELSE dest[d].zone # Unrecorded /\ Alike(zone)}

CrowdsWhenChosen(s) ==
    SharedTraits(s.unit, s.drive, unit[s.unit].holders \cup {s.drive})

Crowds(s) == SharedTraits(s.unit, s.drive, Holders(s.unit))

(* Copies that no drive can take are to be bought. *)
ShortUnits == {u \in Units : short[u] > 0}

Acquire ==
    [copies  |-> SumFunction([u \in ShortUnits |-> short[u]]),
     bytes   |-> SumFunction([u \in ShortUnits |-> short[u] * unit[u].bytes]),
     drives  |-> Max({0} \cup {short[u] : u \in ShortUnits}),
     largest |-> Max({0} \cup {unit[u].bytes : u \in ShortUnits})]

Nothing == [u \in Units |-> {}]

Summary ==
    [atTargetBefore |-> Cardinality({u \in Units : Copies(u, {}) >= unit[u].target}),
     atTargetAfter  |-> Cardinality(Units \ ShortUnits),
     bytesToCopy    |-> SumFunction([i \in DOMAIN plan |-> unit[plan[i].unit].bytes]),
     lossBefore     |-> ExpectedLoss(Nothing),
     lossAfter      |-> ExpectedLoss(added),
     connect        |-> Touched,
     sources        |-> UNION {unit[u].holders : u \in {v \in Units : added[v] # {}}},
     rounds         |-> Max({0} \cup {steps[i].round : i \in DOMAIN steps})]

(* What is extra then: units on more drives than they need, and bytes that *)
(* one drive has twice.                                                    *)
BeyondTarget(d) ==
    {u \in Units : Cardinality(Holders(u)) > unit[u].target /\ d \in Holders(u)}

-----------------------------------------------------------------------------
(* The bench.  A live file belongs to the unit with the deepest folder     *)
(* over it; a loose unit has the files directly in its folder.             *)
Covers(u, d) ==
    LET folder == FolderOf(given.catalog, u)
    IN  IF u[1] = "loose" THEN d = folder ELSE d \in Subtree(folder)

Deeper(u, v) ==
    LET Depth(w) == Cardinality(Over[FolderOf(given.catalog, w)])
    IN  Depth(u) > Depth(v) \/ (Depth(u) = Depth(v) /\ u[1] = "loose")

UnitMembers(u) ==
    {f \in given.catalog.files :
        /\ Covers(u, f.dir)
        /\ \A v \in Units \ {u} : Covers(v, f.dir) => Deeper(u, v)}

(* A collection that holds nothing but empty files makes no unit, and the  *)
(* bench counts its files with those of the folder around it.              *)
EveryFileHasUnit ==
    \A f \in given.catalog.files :
        Filed(given.catalog, f.dir) => UnitOf(given.catalog, f.dir) \in Units

(* The drives an item is on, by the manifest: those of every path with its *)
(* bytes, when it was hashed, and else its own.                            *)
ItemDevices(f) == Held(given.catalog, f)

AddedSteps(u) == {steps[i].drive : i \in {k \in DOMAIN steps : steps[k].unit = u}}

(* VV-PLAN-01: every copy names a unit, and goes to a drive other than the *)
(* one its folder is on.                                                   *)
OnlyAdds ==
    \A i \in DOMAIN steps :
        steps[i].unit \in Units /\ steps[i].drive # unit[steps[i].unit].home

(* VV-PLAN-02: a copy costs at least the clusters its members take, and    *)
(* what a drive gets is within its room.                                   *)
IndependentCost(u, d) == Footprint({f \in UnitMembers(u) : f.size > 0}, dest[d].cluster)

RoomIsKept ==
    /\ \A i \in DOMAIN steps : steps[i].cost >= IndependentCost(steps[i].unit, steps[i].drive)
    /\ \A d \in DriveIds :
        SumFunction([i \in {k \in DOMAIN steps : steps[k].drive = d} |->
                        IndependentCost(steps[i].unit, d)]) <= dest[d].room

(* VV-PLAN-03: the item of a unit with the fewest copies has as many as    *)
(* its target, but for those the plan says are short; and what is owed is  *)
(* to be bought.                                                           *)
Deficit(u) ==
    LET After(f) == Cardinality(ItemDevices(f) \cup AddedSteps(u))
                      + (IF ItemDevices(f) = {} THEN 1 ELSE 0)
    IN  IF UnitMembers(u) = {} THEN 0
        ELSE Max({0, unit[u].target - Min({After(f) : f \in UnitMembers(u)})})

TargetsAreMet ==
    /\ \A u \in Units : Deficit(u) <= short[u]
    /\ SumFunction([u \in Units |-> Deficit(u) * SizeSum(UnitMembers(u))]) <= Acquire.bytes

(* VV-PLAN-04: a copy says what it shares, and nothing it does not. *)
HoldsAll(u) ==
    IF UnitMembers(u) = {} THEN {}
    ELSE {d \in DriveIds : \A f \in UnitMembers(u) : d \in ItemDevices(f)}

SharingIsSaid ==
    \A i \in DOMAIN steps :
        LET u == steps[i].unit
        IN  Crowds(steps[i]) = SharedTraits(u, steps[i].drive, HoldsAll(u) \cup AddedSteps(u))

(* The bench's tests of a plan, which work from the steps and from what    *)
(* the manifest says of every file, pass on every plan; and the summary    *)
(* agrees with the steps: the expected loss after the plan is the one      *)
(* before with every step's change, the units that are not short are those *)
(* whose every file has its copies, and a unit on more drives than it      *)
(* needs keeps its copies when any one drive lets go of it.  Catalogs with *)
(* collections of empty files alone are set apart.                         *)
BenchAcceptsPlan ==
    Made /\ EveryFileHasUnit =>
        /\ OnlyAdds /\ RoomIsKept /\ TargetsAreMet /\ SharingIsSaid
        /\ DocumentAgrees
        /\ Summary.lossAfter =
             Summary.lossBefore + SumFunction([i \in DOMAIN steps |-> steps[i].delta])
        /\ Summary.atTargetAfter = Cardinality({u \in Units : Deficit(u) = 0})
        /\ Summary.atTargetAfter >= Summary.atTargetBefore
        /\ Summary.connect = UNION {AddedSteps(u) : u \in Units}
        /\ \A d \in DriveIds : \A u \in BeyondTarget(d) : \A f \in UnitMembers(u) :
             Cardinality((ItemDevices(f) \cup AddedSteps(u)) \ {d}) >= unit[u].target

(* What evaluate.py:1034 says, each live file belongs to the unit with the *)
(* deepest folder over it, and the test of targets, that goes by it.       *)
PlansPassTargets == Made => TargetsAreMet
=============================================================================
