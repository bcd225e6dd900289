------------------------------- MODULE Planner --------------------------------
(***************************************************************************)
(* The consolidation planner: which unit gets a copy on which drive        *)
(* (core/planner/greedy.py, and cpsat.py where that solver is installed),  *)
(* and the plan document made of it (core/planner/document.py).            *)
(*                                                                         *)
(* It is given units, destinations and the chance of loss of every set of  *)
(* drives (module Units), and none of them changes while it runs.  The     *)
(* planner is one program that calls nothing that waits; its steps are     *)
(* those of its loops.                                                     *)
(***************************************************************************)
EXTENDS Units, SequencesExt

CONSTANTS
    UnitKeys,       \* the keys units can have
    Clusters,       \* cluster sizes of the destinations
    Inputs          \* what it may be given, each made by PlannerInput

UnitType ==
    [bytes : Nat, cost : [Clusters -> Nat], holders : SUBSET DriveIds, anyhow : SUBSET DriveIds,
     copies : [SUBSET DriveIds -> Nat], target : Nat, home : DriveIds \cup {0}]

DestinationType == [excluded : BOOLEAN, room : Nat, cluster : Clusters, batch : STRING, zone : STRING]

NoUnit == <<>>

ASSUME PlannerAssumption ==
    /\ IsFiniteSet(DriveIds) /\ DriveIds \subseteq Nat \ {0}
    /\ NoUnit \notin UnitKeys
    /\ \A input \in Inputs :
        /\ DOMAIN input.unit \subseteq UnitKeys /\ IsFiniteSet(DOMAIN input.unit)
        /\ \A u \in DOMAIN input.unit : input.unit[u].holders \subseteq input.unit[u].anyhow
        /\ \A u \in DOMAIN input.unit : input.unit[u] \in UnitType
        /\ input.dest \in [DriveIds -> DestinationType]
        /\ input.loss \in [SUBSET DriveIds -> Nat]

VARIABLES
    given,          \* the input
    phase,          \* place, swap, solved, chosen or made
    left,           \* the units still to be taken
    current,        \* the unit that copies are being added for, if any
    room,           \* what each destination still has
    added,          \* [unit -> the drives it is to be copied to]
    plan,           \* Solution.added: a sequence of [unit, drive, cost]
    short,          \* [unit -> the copies it is short of]
    at,             \* the place in plan the swap pass has come to
    steps           \* the document's copies, in their order

plannerVars == <<given, phase, left, current, room, added, plan, short, at, steps>>

unit == given.unit
dest == given.dest
Units == DOMAIN unit

Cost(u, d) == unit[u].cost[dest[d].cluster]
Copies(u, A) == unit[u].copies[A]
Holders(u) == unit[u].holders \cup added[u]
Loss(S) == given.loss[S]
LossBefore(u) == Loss(unit[u].holders)

(* As a mutant: a copy takes as much as there are bytes. *)
AdmissibleBytes(u, held, d, roomNow) ==
    ~dest[d].excluded /\ d \notin held /\ unit[u].bytes <= roomNow[d]

Admissible(u, held, d, roomNow) ==
    /\ ~dest[d].excluded /\ d \notin held
    /\ Cost(u, d) <= roomNow[d]

-----------------------------------------------------------------------------
(* The riskiest bytes first. *)
AtRisk(u) == unit[u].bytes * LossBefore(u)

TakeUnit(u) ==
    /\ phase = "place" /\ current = NoUnit
    /\ u \in left /\ \A v \in left : AtRisk(v) <= AtRisk(u)
    /\ left' = left \ {u} /\ current' = u
    /\ UNCHANGED <<given, phase, room, added, plan, short, at, steps>>

(* A copy must fit, and give every item that has the fewest copies another.*)
Options(u) ==
    {d \in DriveIds : /\ Admissible(u, Holders(u), d, room)
                      /\ Copies(u, added[u] \cup {d}) > Copies(u, added[u])}

Touched == {plan[i].drive : i \in DOMAIN plan}

(* The safest place; of those, one to be connected anyhow; of those, the   *)
(* one with the most room; of those, the first.                            *)
Better(u, d, e) ==
    LET loss(x) == Loss(Holders(u) \cup {x})
        new(x)  == IF x \in Touched THEN 0 ELSE 1
    IN  \/ loss(d) < loss(e)
        \/ loss(d) = loss(e) /\ new(d) < new(e)
        \/ loss(d) = loss(e) /\ new(d) = new(e) /\ room[d] > room[e]
        \/ loss(d) = loss(e) /\ new(d) = new(e) /\ room[d] = room[e] /\ d < e

AddCopy(d) ==
    /\ phase = "place" /\ current # NoUnit
    /\ Copies(current, added[current]) < unit[current].target
    /\ d \in Options(current) /\ \A e \in Options(current) \ {d} : Better(current, d, e)
    /\ room' = [room EXCEPT ![d] = @ - Cost(current, d)]
    /\ added' = [added EXCEPT ![current] = @ \cup {d}]
    /\ plan' = Append(plan, [unit |-> current, drive |-> d, cost |-> Cost(current, d)])
    /\ UNCHANGED <<given, phase, left, current, short, at, steps>>

Missing(u, A) ==
    IF Copies(u, A) < unit[u].target THEN unit[u].target - Copies(u, A) ELSE 0

LeaveUnit ==
    /\ phase = "place" /\ current # NoUnit
    /\ Copies(current, added[current]) < unit[current].target => Options(current) = {}
    /\ short' = [short EXCEPT ![current] = Missing(current, added[current])]
    /\ current' = NoUnit
    /\ UNCHANGED <<given, phase, left, room, added, plan, at, steps>>

BeginSwaps ==
    /\ phase = "place" /\ current = NoUnit /\ left = {}
    /\ phase' = "swap" /\ at' = 1
    /\ UNCHANGED <<given, left, current, room, added, plan, short, steps>>

-----------------------------------------------------------------------------
(* The swap pass.  An added copy moves to a drive that leaves its unit     *)
(* safer, if it fits there and the unit keeps as many copies.              *)
Copy == plan[at]
Rest == added[Copy.unit] \ {Copy.drive}
Others == unit[Copy.unit].holders \cup Rest
RoomWithout == [room EXCEPT ![Copy.drive] = @ + Copy.cost]

Candidates ==
    {d \in DriveIds \ {Copy.drive} :
        /\ Admissible(Copy.unit, Others, d, RoomWithout)
        /\ Copies(Copy.unit, Rest \cup {d}) >= Copies(Copy.unit, added[Copy.unit])}

SafestFirst(d, e) ==
    LET loss(x) == Loss(Others \cup {x})
    IN  loss(d) < loss(e) \/ (loss(d) = loss(e) /\ d < e)

Improves(d) ==
    /\ d \in Candidates
    /\ Loss(Others \cup {d}) < Loss(Holders(Copy.unit))

Move(d) ==
    /\ phase = "swap" /\ at <= Len(plan)
    /\ Improves(d) /\ \A e \in Candidates \ {d} : SafestFirst(d, e)
    /\ added' = [added EXCEPT ![Copy.unit] = Rest \cup {d}]
    /\ plan' = [plan EXCEPT ![at].drive = d, ![at].cost = Cost(Copy.unit, d)]
    /\ room' = [RoomWithout EXCEPT ![d] = @ - Cost(Copy.unit, d)]
    /\ at' = at + 1
    /\ UNCHANGED <<given, phase, left, current, short, steps>>

Stay ==
    /\ phase = "swap" /\ at <= Len(plan)
    /\ \A d \in DriveIds : ~Improves(d)
    /\ at' = at + 1
    /\ UNCHANGED <<given, phase, left, current, room, added, plan, short, steps>>

EndSwaps ==
    /\ phase = "swap" /\ at > Len(plan)
    /\ phase' = "solved"
    /\ UNCHANGED <<given, left, current, room, added, plan, short, at, steps>>

-----------------------------------------------------------------------------
(* With the other solver installed, its plan is taken when it is better    *)
(* than this one.  What it may choose: drives with room that hold nothing  *)
(* of the unit, no more copies than the unit needs, all within the room.   *)
MayOpen(u, d) ==
    /\ Copies(u, {}) < unit[u].target
    /\ ~dest[d].excluded /\ dest[d].room > 0
    /\ d \notin unit[u].anyhow /\ Cost(u, d) <= dest[d].room

Openings == {x \in Units \X DriveIds : MayOpen(x[1], x[2])}

DrivesFor(X, u) == {d \in DriveIds : <<u, d>> \in X}

RoomAfter(X, d) ==
    dest[d].room - SumFunction([x \in {y \in X : y[2] = d} |-> Cost(x[1], d)])

Feasible(X) ==
    /\ \A u \in Units : Cardinality(DrivesFor(X, u)) <= Missing(u, {})
    /\ \A d \in DriveIds : RoomAfter(X, d) \in Nat

ShortCopies(A) == SumFunction([u \in Units |-> Missing(u, A[u])])
ExpectedLoss(A) ==
    SumFunction([u \in Units |-> unit[u].bytes * Loss(unit[u].holders \cup A[u])])
DrivesTouched(A) == Cardinality(UNION {A[u] : u \in Units})

IsBetterPlan(A, B) ==
    \/ ShortCopies(A) < ShortCopies(B)
    \/ /\ ShortCopies(A) = ShortCopies(B)
       /\ \/ ExpectedLoss(A) < ExpectedLoss(B)
          \/ ExpectedLoss(A) = ExpectedLoss(B) /\ DrivesTouched(A) < DrivesTouched(B)

TakeOtherPlan(X) ==
    /\ phase = "solved" /\ X # {} /\ Feasible(X)
    /\ LET A == [u \in Units |-> DrivesFor(X, u)] IN
       /\ IsBetterPlan(A, added)
       /\ added' = A
       /\ short' = [u \in Units |-> Missing(u, A[u])]
    /\ room' = [d \in DriveIds |-> RoomAfter(X, d)]
    /\ LET order == SetToSeq(X)
       IN  plan' = [i \in DOMAIN order |-> [unit |-> order[i][1], drive |-> order[i][2],
                                            cost |-> Cost(order[i][1], order[i][2])]]
    /\ phase' = "chosen"
    /\ UNCHANGED <<given, left, current, at, steps>>

-----------------------------------------------------------------------------
(* The document.  Copies come drive by drive, the drive with the most to   *)
(* take first, and on a drive the one that lowers the expected loss most.  *)
BytesOnto(d) ==
    SumFunction([i \in {k \in DOMAIN plan : plan[k].drive = d} |-> plan[i].cost])

(* Copies of a unit are credited in the order they were chosen. *)
HeldBefore(i) ==
    unit[plan[i].unit].holders \cup
        {plan[j].drive : j \in {k \in 1 .. i - 1 : plan[k].unit = plan[i].unit}}

RiskDelta(i) ==
    unit[plan[i].unit].bytes * (Loss(HeldBefore(i) \cup {plan[i].drive}) - Loss(HeldBefore(i)))

FirstOnto(d) == Min({i \in DOMAIN plan : plan[i].drive = d})

ComesBefore(i, j) ==
    LET d == plan[i].drive  e == plan[j].drive IN
    IF d = e THEN RiskDelta(i) < RiskDelta(j) \/ (RiskDelta(i) = RiskDelta(j) /\ i < j)
    ELSE BytesOnto(d) > BytesOnto(e) \/ (BytesOnto(d) = BytesOnto(e) /\ FirstOnto(d) < FirstOnto(e))

(* The drive read is the first that holds the unit, or the one its folder  *)
(* is on, if that is known.                                                *)
Source(u) ==
    IF unit[u].holders # {} THEN {Min(unit[u].holders)} ELSE {unit[u].home} \ {0}

Uses(i) == Source(plan[i].unit) \cup {plan[i].drive}

CopyStep(i, n) ==
    [unit |-> plan[i].unit, drive |-> plan[i].drive, uses |-> Uses(i),
     cost |-> plan[i].cost, delta |-> RiskDelta(i), round |-> n]

(* A list put in order; before[i] holds what comes before i. *)
InOrder(before) ==
    [n \in DOMAIN before |-> CHOOSE i \in DOMAIN before : Cardinality(before[i]) = n - 1]

DriveByDrive == InOrder([i \in DOMAIN plan |-> {j \in DOMAIN plan : ComesBefore(j, i)}])

(* A round for each copy: the first in which its drives are free. *)
Rounds(uses) ==
    LET f[i \in DOMAIN uses] ==
          Min({n \in 1 .. i : \A j \in 1 .. i - 1 : f[j] = n => uses[j] \cap uses[i] = {}})
    IN  f

ByRound(rounds) ==
    InOrder([i \in DOMAIN rounds |->
                {j \in DOMAIN rounds : rounds[j] < rounds[i] \/ (rounds[j] = rounds[i] /\ j < i)}])

MakeDocument ==
    /\ phase \in {"solved", "chosen"}
    /\ \E first \in {DriveByDrive} :
         \E rounds \in {Rounds([i \in DOMAIN plan |-> Uses(first[i])])} :
           \E then \in {ByRound(rounds)} :
             steps' = [i \in DOMAIN plan |-> CopyStep(first[then[i]], rounds[then[i]])]
    /\ phase' = "made"
    /\ UNCHANGED <<given, left, current, room, added, plan, short, at>>

InFolder(u) ==
    {f \in given.catalog.files : f.dir \in Subtree(FolderOf(given.catalog, u))}

PlannerInit ==
    /\ given \in Inputs
    /\ phase = "place" /\ left = Units /\ current = NoUnit
    /\ room = [d \in DriveIds |-> dest[d].room]
    /\ added = [u \in Units |-> {}]
    /\ plan = <<>> /\ short = [u \in Units |-> 0] /\ at = 1 /\ steps = <<>>

PlannerNext ==
    \/ \E u \in UnitKeys : TakeUnit(u)
    \/ \E d \in DriveIds : AddCopy(d) \/ Move(d)
    \/ LeaveUnit \/ BeginSwaps \/ Stay \/ EndSwaps
    \/ \E X \in SUBSET Openings : TakeOtherPlan(X)
    \/ MakeDocument

PlannerSpec == PlannerInit /\ [][PlannerNext]_plannerVars

-----------------------------------------------------------------------------
Solved == phase \in {"solved", "chosen", "made"}

PlannerTypeOK ==
    /\ phase \in {"place", "swap", "solved", "chosen", "made"}
    /\ left \subseteq Units /\ current \in Units \cup {NoUnit}
    /\ room \in [DriveIds -> Nat]
    /\ added \in [Units -> SUBSET DriveIds]
    /\ plan \in Seq([unit : Units, drive : DriveIds, cost : Nat])
    /\ short \in [Units -> Nat]
    /\ at \in Nat

(* No destination is planned over its room, by the clusters that files     *)
(* take on it, and none that is excluded is planned at all, however copies *)
(* were added, moved, or taken from the other solver's plan.               *)
NeverOverRoom ==
    \A d \in DriveIds :
        /\ SumFunction([i \in {k \in DOMAIN plan : plan[k].drive = d} |-> Cost(plan[i].unit, d)])
             <= dest[d].room
        /\ dest[d].excluded => d \notin Touched

(* Every unit meets its target, or the plan says how many copies it is     *)
(* short of, in the end as when the unit was left: moving copies for the   *)
(* sake of safety never costs one.                                         *)
TargetOrShort ==
    Solved => \A u \in Units : Copies(u, added[u]) + short[u] >= unit[u].target

(* The plan and what was added agree: every copy is on a drive that did    *)
(* not hold the unit, and no unit is copied to a drive twice.              *)
PlanIsWhatWasAdded ==
    /\ \A u \in Units :
        /\ added[u] = {plan[i].drive : i \in {k \in DOMAIN plan : plan[k].unit = u}}
        /\ added[u] \cap unit[u].holders = {}
    /\ \A i, j \in DOMAIN plan :
        plan[i].unit = plan[j].unit /\ plan[i].drive = plan[j].drive => i = j

(* However copies were added, moved, or taken from the other solver's plan: *)
(* no drive is overfilled, no copy is given up silently, and the plan says *)
(* what was decided.                                                       *)
PlanIsSound == NeverOverRoom /\ TargetOrShort /\ PlanIsWhatWasAdded

(* The rounds of a stored plan are computed again when it is shown.  They  *)
(* are the ones it was ordered by, no drive is used twice in one, and the  *)
(* changes of risk the steps state sum up to what the plan brings.         *)
DocumentAgrees ==
    phase = "made" =>
        /\ Rounds([i \in DOMAIN steps |-> steps[i].uses]) = [i \in DOMAIN steps |-> steps[i].round]
        /\ \A i, j \in DOMAIN steps :
             i # j /\ steps[i].round = steps[j].round => steps[i].uses \cap steps[j].uses = {}
        /\ ExpectedLoss(added) =
             ExpectedLoss([u \in Units |-> {}]) + SumFunction([i \in DOMAIN steps |-> steps[i].delta])

(* What tests/test_planner_greedy.py says of every plan: a unit is never   *)
(* likelier to be lost with the copies it gets than without them.          *)
RiskNeverRises ==
    Solved => \A u \in Units : Loss(Holders(u)) <= LossBefore(u)

(* A copy step says to copy a folder.  The folders a drive is to take, with *)
(* everything in them, fit in the room it has.                             *)
StepsFit ==
    phase = "made" =>
        \A d \in DriveIds :
            SumFunction([i \in {k \in DOMAIN steps : steps[k].drive = d} |->
                            Footprint(InFolder(steps[i].unit), dest[d].cluster)]) <= dest[d].room
=============================================================================
