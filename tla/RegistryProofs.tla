---------------------------- MODULE RegistryProofs ----------------------------
(***************************************************************************)
(* What is proved of what the catalog registers, plans and reports: the    *)
(* planner's decisions, the drive table with the counts that stand on it,  *)
(* the scope roots, and the scorecards.  The four share no state; each     *)
(* part states its inductive invariant first, a lemma for every action,    *)
(* and its theorems last.                                                  *)
(***************************************************************************)
EXTENDS PlanDocument, Drives, Roots, BenchReports, SumProofs, SequenceTheorems, WellFoundedInduction, TLAPS

-----------------------------------------------------------------------------
(* The planner: what it decides is whole, for units, drives, sizes and     *)
(* chances of loss of any number, and whichever solver's plan is taken:    *)
(* every unit meets its target or is said to be short, no drive's room is  *)
(* overdrawn, and the plan is exactly the copies that were added.          *)
(*                                                                         *)
(* The argument is an account for each unit, settled when the unit is left *)
(* and kept by every move, and an account for each drive, from which every *)
(* copy takes its cost when it is added and to which a move gives it back. *)
StepType == [unit : Units, drive : DriveIds, cost : Nat]

Typed ==
    /\ given \in Inputs
    /\ left \subseteq Units /\ current \in Units \cup {NoUnit}
    /\ room \in [DriveIds -> Nat]
    /\ added \in [Units -> SUBSET DriveIds]
    /\ plan \in Seq(StepType)
    /\ short \in [Units -> Nat]
    /\ at \in Nat \ {0}

Settled(u) == Copies(u, added[u]) + short[u] >= unit[u].target

(* Every unit's account is settled but that of those still to be left. *)
Accounted == \A u \in Units : (phase = "place" /\ u \in left \cup {current}) \/ Settled(u)

PlannerInv == Typed /\ Accounted /\ PlanIsWhatWasAdded

-----------------------------------------------------------------------------
LEMMA GivenFacts ==
    ASSUME given \in Inputs, NEW u \in Units
    PROVE  /\ unit[u].target \in Nat /\ unit[u].bytes \in Nat
           /\ unit[u].holders \subseteq DriveIds /\ unit[u].holders \subseteq unit[u].anyhow
           /\ u # NoUnit
           /\ \A A \in SUBSET DriveIds : Copies(u, A) \in Nat
           /\ \A d \in DriveIds : Cost(u, d) \in Nat /\ dest[d].room \in Nat
<1>1. /\ unit[u] \in UnitType /\ dest \in [DriveIds -> DestinationType] /\ u \in UnitKeys
      /\ unit[u].holders \subseteq unit[u].anyhow /\ NoUnit \notin UnitKeys
  BY PlannerAssumption DEF unit, dest, Units
<1>2. /\ unit[u].target \in Nat /\ unit[u].bytes \in Nat /\ unit[u].holders \subseteq DriveIds
      /\ unit[u].copies \in [SUBSET DriveIds -> Nat] /\ unit[u].cost \in [Clusters -> Nat]
  BY <1>1 DEF UnitType
<1>3. \A d \in DriveIds : dest[d].cluster \in Clusters /\ dest[d].room \in Nat
  BY <1>1 DEF DestinationType
<1> QED
  BY <1>1, <1>2, <1>3 DEF Copies, Cost

LEMMA MissingFills ==
    ASSUME given \in Inputs, NEW u \in Units, NEW A \in SUBSET DriveIds
    PROVE  Missing(u, A) \in Nat /\ Copies(u, A) + Missing(u, A) >= unit[u].target
<1>1. Copies(u, A) \in Nat /\ unit[u].target \in Nat
  BY GivenFacts
<1> QED
  BY <1>1 DEF Missing

LEMMA InitHolds == PlannerInit => PlannerInv
<1> SUFFICES ASSUME PlannerInit PROVE PlannerInv  OBVIOUS
<1>1. /\ given \in Inputs /\ phase = "place" /\ left = Units /\ current = NoUnit
      /\ room = [d \in DriveIds |-> dest[d].room] /\ added = [u \in Units |-> {}]
      /\ plan = <<>> /\ short = [u \in Units |-> 0] /\ at = 1
  BY DEF PlannerInit
<1>2. room \in [DriveIds -> Nat]
  <2>1. dest \in [DriveIds -> DestinationType]
    BY <1>1, PlannerAssumption DEF dest
  <2>2. \A d \in DriveIds : dest[d].room \in Nat
    BY <2>1 DEF DestinationType
  <2> QED
    BY <1>1, <2>2
<1>3. plan \in Seq(StepType) /\ DOMAIN plan = {}
  BY <1>1
<1>4. Typed
  BY <1>1, <1>2, <1>3 DEF Typed
<1>5. Accounted
  BY <1>1 DEF Accounted
<1>6. PlanIsWhatWasAdded
  BY <1>1, <1>3 DEF PlanIsWhatWasAdded
<1> QED
  BY <1>4, <1>5, <1>6 DEF PlannerInv

LEMMA TakeUnitHolds ==
    ASSUME PlannerInv, NEW u \in UnitKeys, TakeUnit(u) PROVE PlannerInv'
<1>1. /\ phase = "place" /\ phase' = phase /\ current = NoUnit /\ u \in left /\ left' = left \ {u}
      /\ current' = u /\ UNCHANGED <<given, room, added, plan, short, at>>
  BY DEF TakeUnit
<1>2. Typed'
  BY <1>1 DEF PlannerInv, Typed, Units, unit, StepType
<1>3. Accounted'
  <2>1. \A v \in Units : v # NoUnit
    BY GivenFacts DEF PlannerInv, Typed
  <2> QED
    BY <1>1, <2>1 DEF PlannerInv, Accounted, Settled, Units, unit, Copies
<1>4. PlanIsWhatWasAdded'
  BY <1>1 DEF PlannerInv, PlanIsWhatWasAdded, Units, unit
<1> QED
  BY <1>2, <1>3, <1>4 DEF PlannerInv

(* A step that decides nothing about copies. *)
LEMMA NothingDecided ==
    ASSUME PlannerInv, UNCHANGED <<given, left, current, room, added, plan, short>>,
           at' \in Nat \ {0}, Accounted'
    PROVE  PlannerInv'
<1>1. Typed'
  BY DEF PlannerInv, Typed, Units, unit, StepType
<1>2. PlanIsWhatWasAdded'
  BY DEF PlannerInv, PlanIsWhatWasAdded, Units, unit
<1> QED
  BY <1>1, <1>2 DEF PlannerInv

LEMMA BeginSwapsHolds == ASSUME PlannerInv, BeginSwaps PROVE PlannerInv'
<1>1. /\ left = {} /\ current = NoUnit /\ at' = 1
      /\ UNCHANGED <<given, left, current, room, added, plan, short>>
  BY DEF BeginSwaps
<1>2. \A v \in Units : v # NoUnit
  BY GivenFacts DEF PlannerInv, Typed
<1>3. Accounted'
  BY <1>1, <1>2 DEF PlannerInv, Accounted, Settled, Units, unit, Copies
<1> QED
  BY <1>1, <1>3, NothingDecided

LEMMA OthersHold ==
    ASSUME PlannerInv, Stay \/ EndSwaps \/ MakeDocument \/ UNCHANGED plannerVars
    PROVE  PlannerInv'
<1>1. /\ UNCHANGED <<given, left, current, room, added, plan, short>>
      /\ at' \in {at, at + 1} /\ (phase' = phase \/ phase # "place")
  BY DEF Stay, EndSwaps, MakeDocument, plannerVars
<1>2. at' \in Nat \ {0}
  BY <1>1 DEF PlannerInv, Typed
<1>3. Accounted'
  BY <1>1 DEF PlannerInv, Accounted, Settled, Units, unit, Copies
<1> QED
  BY <1>1, <1>2, <1>3, NothingDecided

LEMMA LeaveUnitHolds == ASSUME PlannerInv, LeaveUnit PROVE PlannerInv'
<1>1. /\ phase = "place" /\ phase' = phase /\ current \in Units /\ current' = NoUnit
      /\ short' = [short EXCEPT ![current] = Missing(current, added[current])]
      /\ UNCHANGED <<given, left, room, added, plan, at>>
  BY DEF LeaveUnit, PlannerInv, Typed
<1>2. /\ Missing(current, added[current]) \in Nat
      /\ Copies(current, added[current]) + Missing(current, added[current]) >= unit[current].target
  BY <1>1, MissingFills DEF PlannerInv, Typed
<1>3. Typed'
  BY <1>1, <1>2 DEF PlannerInv, Typed, Units, unit, StepType
<1>4. Accounted'
  <2> SUFFICES ASSUME NEW u \in Units PROVE (phase' = "place" /\ u \in left' \cup {current'}) \/ Settled(u)'
    BY <1>1 DEF Accounted, Units, unit
  <2>1. CASE u = current
    <3>1. short'[u] = Missing(u, added[u])
      BY <1>1, <2>1 DEF PlannerInv, Typed
    <3> QED
      BY <1>1, <1>2, <2>1, <3>1 DEF Settled, Copies, unit
  <2>2. CASE u # current
    <3>1. short'[u] = short[u]
      BY <1>1, <2>2 DEF PlannerInv, Typed
    <3> QED
      BY <1>1, <2>2, <3>1 DEF PlannerInv, Accounted, Settled, Copies, unit
  <2> QED
    BY <2>1, <2>2
<1>5. PlanIsWhatWasAdded'
  BY <1>1 DEF PlannerInv, PlanIsWhatWasAdded, Units, unit
<1> QED
  BY <1>3, <1>4, <1>5 DEF PlannerInv

-----------------------------------------------------------------------------
LEMMA AddCopyHolds == ASSUME PlannerInv, NEW d \in DriveIds, AddCopy(d) PROVE PlannerInv'
<1> DEFINE new == [unit |-> current, drive |-> d, cost |-> Cost(current, d)]
<1> DEFINE n == Len(plan) + 1
<1>1. /\ phase = "place" /\ phase' = phase /\ current \in Units
      /\ UNCHANGED <<given, left, current, short, at>>
      /\ room' = [room EXCEPT ![d] = room[d] - Cost(current, d)]
      /\ added' = [added EXCEPT ![current] = added[current] \cup {d}]
      /\ plan' = Append(plan, new)
  BY DEF AddCopy, PlannerInv, Typed
<1>2. Cost(current, d) <= room[d] /\ d \notin unit[current].holders /\ d \notin added[current]
  BY DEF AddCopy, Options, Admissible, Holders
<1>3. Cost(current, d) \in Nat
  BY <1>1, GivenFacts DEF PlannerInv, Typed
<1>4. Typed'
  <2>1. room' \in [DriveIds -> Nat]
    BY <1>1, <1>2, <1>3 DEF PlannerInv, Typed
  <2>2. added' \in [Units -> SUBSET DriveIds]
    BY <1>1 DEF PlannerInv, Typed
  <2>3. new \in StepType
    BY <1>1, <1>3 DEF StepType
  <2>4. plan' \in Seq(StepType)
    <3> HIDE DEF new
    <3> QED
      BY <1>1, <2>3 DEF PlannerInv, Typed
  <2> QED
    BY <1>1, <2>1, <2>2, <2>4 DEF PlannerInv, Typed, Units, unit, StepType
<1>5. Accounted'
  <2> SUFFICES ASSUME NEW u \in Units PROVE (phase' = "place" /\ u \in left' \cup {current'}) \/ Settled(u)'
    BY <1>1 DEF Accounted, Units, unit
  <2>1. CASE u = current
    BY <1>1, <2>1
  <2>2. CASE u # current
    <3>1. added'[u] = added[u]
      BY <1>1, <2>2 DEF PlannerInv, Typed
    <3> QED
      BY <1>1, <2>2, <3>1 DEF PlannerInv, Accounted, Settled, Copies, unit
  <2> QED
    BY <2>1, <2>2
<1>6. PlanIsWhatWasAdded'
  <2>1. /\ n \in Nat /\ DOMAIN plan = 1 .. n - 1 /\ DOMAIN plan' = 1 .. n
        /\ plan'[n] = new /\ \A i \in 1 .. n - 1 : plan'[i] = plan[i]
    <3> HIDE DEF new
    <3> QED
      BY <1>1 DEF PlannerInv, Typed
  <2>2. DOMAIN plan' = DOMAIN plan \cup {n} /\ n \notin DOMAIN plan
    BY <2>1
  <2>3. plan'[n].unit = current /\ plan'[n].drive = d
    BY <2>1
  <2>4. \A i \in DOMAIN plan : plan'[i] = plan[i]
    BY <2>1
  <2> HIDE DEF n, new
  <2>5. ASSUME NEW u \in Units
        PROVE  /\ added'[u] = {plan'[i].drive : i \in {k \in DOMAIN plan' : plan'[k].unit = u}}
               /\ added'[u] \cap unit[u].holders = {}
    <3>1. /\ added[u] = {plan[i].drive : i \in {k \in DOMAIN plan : plan[k].unit = u}}
          /\ added[u] \cap unit[u].holders = {}
      BY DEF PlannerInv, PlanIsWhatWasAdded
    <3>2. CASE u = current
      <4>1. added'[u] = added[u] \cup {d}
        BY <1>1, <3>2 DEF PlannerInv, Typed
      <4> QED
        BY <1>2, <2>2, <2>3, <2>4, <3>1, <3>2, <4>1
    <3>3. CASE u # current
      <4>1. added'[u] = added[u]
        BY <1>1, <3>3 DEF PlannerInv, Typed
      <4> QED
        BY <2>2, <2>3, <2>4, <3>1, <3>3, <4>1
    <3> QED
      BY <3>2, <3>3
  <2>6. ASSUME NEW i \in DOMAIN plan', NEW j \in DOMAIN plan',
               plan'[i].unit = plan'[j].unit, plan'[i].drive = plan'[j].drive
        PROVE  i = j
    <3>1. \A k \in DOMAIN plan : ~(plan[k].unit = current /\ plan[k].drive = d)
      BY <1>1, <1>2 DEF PlannerInv, PlanIsWhatWasAdded
    <3>2. \A k, l \in DOMAIN plan :
             plan[k].unit = plan[l].unit /\ plan[k].drive = plan[l].drive => k = l
      BY DEF PlannerInv, PlanIsWhatWasAdded
    <3> QED
      BY <2>2, <2>3, <2>4, <2>6, <3>1, <3>2
  <2> QED
    BY <1>1, <2>5, <2>6 DEF PlanIsWhatWasAdded, Units, unit
<1> QED
  BY <1>4, <1>5, <1>6 DEF PlannerInv

LEMMA MoveHolds == ASSUME PlannerInv, NEW d \in DriveIds, Move(d) PROVE PlannerInv'
<1> DEFINE c == plan[at]
<1> DEFINE kept == added[c.unit] \ {c.drive}
<1>1. /\ phase = "swap" /\ phase' = phase /\ at \in DOMAIN plan /\ c \in StepType /\ at' = at + 1
      /\ UNCHANGED <<given, left, current, short>>
      /\ added' = [added EXCEPT ![c.unit] = kept \cup {d}]
      /\ plan' = [plan EXCEPT ![at].drive = d, ![at].cost = Cost(c.unit, d)]
      /\ room' = [[room EXCEPT ![c.drive] = room[c.drive] + c.cost]
                     EXCEPT ![d] = [room EXCEPT ![c.drive] = room[c.drive] + c.cost][d] - Cost(c.unit, d)]
  BY DEF Move, Copy, Rest, RoomWithout, PlannerInv, Typed
<1>2. c.unit \in Units /\ c.drive \in DriveIds /\ c.cost \in Nat
  BY <1>1 DEF StepType
<1>3. /\ d # c.drive /\ d \notin unit[c.unit].holders /\ d \notin added[c.unit]
      /\ Cost(c.unit, d) <= [room EXCEPT ![c.drive] = room[c.drive] + c.cost][d]
      /\ Copies(c.unit, kept \cup {d}) >= Copies(c.unit, added[c.unit])
  BY DEF Move, Improves, Candidates, Admissible, Others, Rest, RoomWithout, Copy
<1>4. Cost(c.unit, d) \in Nat
  BY <1>2, GivenFacts DEF PlannerInv, Typed
<1>5. added[c.unit] \subseteq DriveIds
  BY <1>2 DEF PlannerInv, Typed
<1>6. \A u \in Units : added'[u] = IF u = c.unit THEN kept \cup {d} ELSE added[u]
  <2> HIDE DEF c, kept
  <2> QED
    BY <1>1 DEF PlannerInv, Typed
<1>7. /\ DOMAIN plan' = DOMAIN plan /\ plan'[at].unit = c.unit /\ plan'[at].drive = d
      /\ \A i \in DOMAIN plan : i # at => plan'[i] = plan[i]
  BY <1>1 DEF StepType
<1>8. Typed'
  <2>1. room' \in [DriveIds -> Nat]
    <3>1. /\ room \in [DriveIds -> Nat] /\ room[c.drive] \in Nat
          /\ room[c.drive] + c.cost \in Nat
      BY <1>2 DEF PlannerInv, Typed
    <3>2. Cost(c.unit, d) <= room[d] /\ room[d] \in Nat
      BY <1>3, <3>1
    <3>3. room' = [[room EXCEPT ![c.drive] = room[c.drive] + c.cost] EXCEPT ![d] = room[d] - Cost(c.unit, d)]
      BY <1>1, <1>3, <3>1
    <3>4. room[d] - Cost(c.unit, d) \in Nat
      BY <1>4, <3>2
    <3> HIDE DEF c
    <3> QED
      BY <3>1, <3>3, <3>4
  <2>2. added' \in [Units -> SUBSET DriveIds]
    <3> HIDE DEF c
    <3> QED
      BY <1>1, <1>5 DEF PlannerInv, Typed
  <2>3. plan' \in Seq(StepType)
    <3>1. plan' = [plan EXCEPT ![at] = [c EXCEPT !.drive = d, !.cost = Cost(c.unit, d)]]
      BY <1>1
    <3>2. [c EXCEPT !.drive = d, !.cost = Cost(c.unit, d)] \in StepType
      <4> HIDE DEF c
      <4> QED
        BY <1>1, <1>4 DEF StepType
    <3>3. \A e \in StepType : [plan EXCEPT ![at] = e] \in Seq(StepType)
      BY <1>1 DEF PlannerInv, Typed
    <3> HIDE DEF c
    <3> QED
      BY <3>1, <3>2, <3>3
  <2>4. at' \in Nat \ {0}
    BY <1>1 DEF PlannerInv, Typed
  <2> QED
    BY <1>1, <2>1, <2>2, <2>3, <2>4 DEF PlannerInv, Typed, Units, unit, StepType
<1>9. Accounted'
  <2> SUFFICES ASSUME NEW u \in Units PROVE Settled(u)'
    BY <1>1 DEF Accounted, Units, unit
  <2>1. Settled(u)
    BY <1>1 DEF PlannerInv, Accounted
  <2>2. CASE u = c.unit
    <3>1. /\ Copies(u, added[u]) \in Nat /\ Copies(u, kept \cup {d}) \in Nat
          /\ unit[u].target \in Nat /\ short[u] \in Nat
      BY <1>5, <2>2, GivenFacts DEF PlannerInv, Typed
    <3>2. Copies(u, kept \cup {d}) + short[u] >= unit[u].target
      BY <1>3, <2>1, <2>2, <3>1 DEF Settled
    <3>3. added'[u] = kept \cup {d}
      BY <1>6, <2>2
    <3> QED
      BY <1>1, <3>2, <3>3 DEF Settled, Copies, unit
  <2>3. CASE u # c.unit
    <3>1. added'[u] = added[u]
      BY <1>6, <2>3
    <3> QED
      BY <1>1, <2>1, <3>1 DEF Settled, Copies, unit
  <2> QED
    BY <2>2, <2>3
<1>10. PlanIsWhatWasAdded'
  <2>1. \A k, l \in DOMAIN plan :
           plan[k].unit = plan[l].unit /\ plan[k].drive = plan[l].drive => k = l
    BY DEF PlannerInv, PlanIsWhatWasAdded
  <2>2. \A k \in DOMAIN plan : k # at => ~(plan[k].unit = c.unit /\ plan[k].drive = c.drive)
    BY <1>1, <2>1
  <2>3. ASSUME NEW u \in Units
        PROVE  /\ added'[u] = {plan'[i].drive : i \in {k \in DOMAIN plan' : plan'[k].unit = u}}
               /\ added'[u] \cap unit[u].holders = {}
    <3>1. /\ added[u] = {plan[i].drive : i \in {k \in DOMAIN plan : plan[k].unit = u}}
          /\ added[u] \cap unit[u].holders = {}
      BY DEF PlannerInv, PlanIsWhatWasAdded
    <3>2. CASE u = c.unit
      <4>1. added'[u] = (added[u] \ {c.drive}) \cup {d}
        BY <1>6, <3>2
      <4>2. ASSUME NEW e \in added'[u]
            PROVE  e \in {plan'[i].drive : i \in {k \in DOMAIN plan' : plan'[k].unit = u}}
        BY <1>1, <1>7, <3>1, <3>2, <4>1
      <4>3. ASSUME NEW i \in DOMAIN plan, plan'[i].unit = u PROVE plan'[i].drive \in added'[u]
        <5>1. CASE i = at
          BY <1>7, <4>1, <5>1
        <5>2. CASE i # at
          BY <1>7, <2>2, <3>1, <3>2, <4>1, <4>3, <5>2
        <5> QED
          BY <5>1, <5>2
      <4>4. added'[u] = {plan'[i].drive : i \in {k \in DOMAIN plan' : plan'[k].unit = u}}
        BY <1>7, <4>2, <4>3
      <4> HIDE DEF c
      <4> QED
        BY <1>3, <3>1, <3>2, <4>1, <4>4
    <3>3. CASE u # c.unit
      <4>1. added'[u] = added[u]
        BY <1>6, <3>3
      <4>2. \A k \in DOMAIN plan : /\ plan'[k].unit = u <=> plan[k].unit = u
                                   /\ plan[k].unit = u => plan'[k] = plan[k]
        BY <1>1, <1>7, <3>3
      <4> HIDE DEF c
      <4> QED
        BY <1>7, <3>1, <4>1, <4>2
    <3> QED
      BY <3>2, <3>3
  <2>4. ASSUME NEW i \in DOMAIN plan', NEW j \in DOMAIN plan',
               plan'[i].unit = plan'[j].unit, plan'[i].drive = plan'[j].drive
        PROVE  i = j
    <3>1. \A k \in DOMAIN plan : ~(plan[k].unit = c.unit /\ plan[k].drive = d)
      BY <1>2, <1>3 DEF PlannerInv, PlanIsWhatWasAdded
    <3> HIDE DEF c
    <3> QED
      BY <1>7, <2>1, <2>4, <3>1
  <2> QED
    BY <1>1, <2>3, <2>4 DEF PlanIsWhatWasAdded, Units, unit
<1> QED
  BY <1>8, <1>9, <1>10 DEF PlannerInv

-----------------------------------------------------------------------------
(* SetToSeq lists every element of a finite set, and each one once. *)
LEMMA ListsEachOnce ==
    ASSUME NEW S, IsFiniteSet(S)
    PROVE  /\ SetToSeq(S) \in Seq(S)
           /\ \A x \in S : \E i \in DOMAIN SetToSeq(S) : SetToSeq(S)[i] = x
           /\ \A i, j \in DOMAIN SetToSeq(S) : SetToSeq(S)[i] = SetToSeq(S)[j] => i = j
<1> DEFINE n == Cardinality(S)
<1>1. n \in Nat /\ ExistsBijection(1 .. n, S)
  BY FS_CardinalityType
<1>2. \E f \in [1 .. n -> S] : IsInjective(f)
  BY <1>1 DEF ExistsBijection, Bijection, Injection
<1>3. SetToSeq(S) \in [1 .. n -> S] /\ IsInjective(SetToSeq(S))
  BY <1>2 DEF SetToSeq
<1>4. SetToSeq(S) \in Injection(1 .. n, S)
  BY <1>3 DEF Injection
<1>5. IsFiniteSet(1 .. n) /\ Cardinality(1 .. n) = n
  BY <1>1, FS_Interval
<1>6. SetToSeq(S) \in Surjection(1 .. n, S)
  BY <1>4, <1>5, FS_Injection
<1> HIDE DEF n
<1>7. SetToSeq(S) \in Seq(S) /\ DOMAIN SetToSeq(S) = 1 .. n
  BY <1>1, <1>3
<1> QED
  BY <1>3, <1>6, <1>7 DEF Surjection, IsInjective

LEMMA TakeOtherPlanHolds ==
    ASSUME PlannerInv, NEW X \in SUBSET Openings, TakeOtherPlan(X) PROVE PlannerInv'
<1> DEFINE order == SetToSeq(X)
<1> DEFINE step(i) == [unit |-> order[i][1], drive |-> order[i][2], cost |-> Cost(order[i][1], order[i][2])]
<1>1. /\ phase = "solved" /\ phase' = "chosen" /\ UNCHANGED <<given, left, current, at>>
      /\ added' = [u \in Units |-> DrivesFor(X, u)]
      /\ short' = [u \in Units |-> Missing(u, [v \in Units |-> DrivesFor(X, v)][u])]
      /\ room' = [d \in DriveIds |-> RoomAfter(X, d)]
      /\ plan' = [i \in DOMAIN order |-> step(i)]
      /\ \A d \in DriveIds : RoomAfter(X, d) \in Nat
  BY DEF TakeOtherPlan, Feasible
<1>2. IsFiniteSet(X)
  <2>1. IsFiniteSet(Units) /\ IsFiniteSet(DriveIds)
    BY PlannerAssumption DEF PlannerInv, Typed, Units, unit
  <2>2. X \in SUBSET (Units \X DriveIds)
    BY DEF Openings
  <2> QED
    BY <2>1, <2>2, FS_Product, FS_Subset
<1>3. /\ order \in Seq(X)
      /\ \A x \in X : \E i \in DOMAIN order : order[i] = x
      /\ \A i, j \in DOMAIN order : order[i] = order[j] => i = j
  BY <1>2, ListsEachOnce
<1>4. \A x \in X : /\ x = <<x[1], x[2]>> /\ x[1] \in Units /\ x[2] \in DriveIds
                   /\ x[2] \notin unit[x[1]].anyhow
  BY DEF Openings, MayOpen
<1> HIDE DEF order
<1>5. \A i \in DOMAIN order : order[i] \in X
  BY <1>3
<1>6. \A i \in DOMAIN order : step(i) \in StepType
  <2> SUFFICES ASSUME NEW i \in DOMAIN order PROVE step(i) \in StepType  OBVIOUS
  <2>1. order[i][1] \in Units /\ order[i][2] \in DriveIds
    BY <1>4, <1>5
  <2>2. Cost(order[i][1], order[i][2]) \in Nat
    BY <2>1, GivenFacts DEF PlannerInv, Typed
  <2> QED
    BY <2>1, <2>2 DEF StepType
<1>7. /\ DOMAIN plan' = DOMAIN order
      /\ \A i \in DOMAIN order : plan'[i].unit = order[i][1] /\ plan'[i].drive = order[i][2]
  BY <1>1
<1>8. \A u \in Units : added'[u] = DrivesFor(X, u) /\ DrivesFor(X, u) \in SUBSET DriveIds
  BY <1>1 DEF DrivesFor
<1>9. \A u \in Units : short'[u] = Missing(u, DrivesFor(X, u))
  BY <1>1
<1>10. Typed'
  <2>1. room' \in [DriveIds -> Nat]
    BY <1>1
  <2>2. added' \in [Units -> SUBSET DriveIds]
    BY <1>1, <1>8
  <2>3. short' \in [Units -> Nat]
    <3>1. \A u \in Units : Missing(u, DrivesFor(X, u)) \in Nat
      BY <1>8, MissingFills DEF PlannerInv, Typed
    <3>2. short' = [u \in Units |-> Missing(u, DrivesFor(X, u))]
      BY <1>1
    <3> QED
      BY <3>1, <3>2
  <2>4. plan' \in Seq(StepType)
    <3>1. \E n \in Nat : DOMAIN order = 1 .. n
      BY <1>3
    <3> HIDE DEF step
    <3> QED
      BY <1>1, <1>6, <3>1
  <2> QED
    BY <1>1, <2>1, <2>2, <2>3, <2>4 DEF PlannerInv, Typed, Units, unit, StepType
<1>11. Accounted'
  <2> SUFFICES ASSUME NEW u \in Units PROVE Settled(u)'
    BY <1>1 DEF Accounted, Units, unit
  <2>1. Copies(u, DrivesFor(X, u)) + Missing(u, DrivesFor(X, u)) >= unit[u].target
    BY <1>8, MissingFills DEF PlannerInv, Typed
  <2> QED
    BY <1>1, <1>8, <1>9, <2>1 DEF Settled, Copies, unit
<1>12. PlanIsWhatWasAdded'
  <2>1. ASSUME NEW u \in Units
        PROVE  /\ added'[u] = {plan'[i].drive : i \in {k \in DOMAIN plan' : plan'[k].unit = u}}
               /\ added'[u] \cap unit[u].holders = {}
    <3>1. added'[u] = {d \in DriveIds : <<u, d>> \in X}
      BY <1>8 DEF DrivesFor
    <3>2. ASSUME NEW d \in added'[u]
          PROVE  d \in {plan'[i].drive : i \in {k \in DOMAIN plan' : plan'[k].unit = u}}
      <4>1. PICK i \in DOMAIN order : order[i] = <<u, d>>
        BY <1>3, <3>1
      <4> QED
        BY <1>7, <4>1
    <3>3. ASSUME NEW i \in DOMAIN plan', plan'[i].unit = u PROVE plan'[i].drive \in added'[u]
      BY <1>4, <1>5, <1>7, <3>1, <3>3
    <3>4. unit[u].holders \subseteq unit[u].anyhow
      BY GivenFacts DEF PlannerInv, Typed
    <3>5. \A d \in added'[u] : d \notin unit[u].anyhow
      BY <1>4, <3>1
    <3> QED
      BY <3>2, <3>3, <3>4, <3>5
  <2>2. ASSUME NEW i \in DOMAIN plan', NEW j \in DOMAIN plan',
               plan'[i].unit = plan'[j].unit, plan'[i].drive = plan'[j].drive
        PROVE  i = j
    <3>1. order[i] = order[j]
      BY <1>4, <1>5, <1>7, <2>2
    <3> QED
      BY <1>3, <1>7, <3>1
  <2>3. Units' = Units /\ \A u \in Units : unit'[u].holders = unit[u].holders
    BY <1>1 DEF Units, unit
  <2> QED
    BY ONLY <2>1, <2>2, <2>3 DEF PlanIsWhatWasAdded
<1> QED
  BY <1>10, <1>11, <1>12 DEF PlannerInv

-----------------------------------------------------------------------------
LEMMA StepHolds == ASSUME PlannerInv, [PlannerNext]_plannerVars PROVE PlannerInv'
BY TakeUnitHolds, AddCopyHolds, LeaveUnitHolds, BeginSwapsHolds, MoveHolds, TakeOtherPlanHolds,
   OthersHold DEF PlannerNext

LEMMA AlwaysHolds == PlannerSpec => []PlannerInv
BY InitHolds, StepHolds, PTL DEF PlannerSpec

(* Every unit has the copies it should, or the plan says how many it is    *)
(* short of: no pass of either solver gives a copy up silently.            *)
THEOREM NoCopyGivenUp == PlannerSpec => []TargetOrShort
<1>1. PlannerInv => TargetOrShort
  BY DEF PlannerInv, Accounted, Settled, TargetOrShort, Solved
<1> QED
  BY <1>1, AlwaysHolds, PTL

(* The plan says what was decided: it lists the copies that were added and *)
(* no others, each once, and none to a drive that held its unit already.   *)
THEOREM PlanSaysWhatWasDecided == PlannerSpec => []PlanIsWhatWasAdded
<1>1. PlannerInv => PlanIsWhatWasAdded
  BY DEF PlannerInv
<1> QED
  BY <1>1, AlwaysHolds, PTL

-----------------------------------------------------------------------------
(* The account of each drive: what is left on it and what the plan's       *)
(* copies take of it come to the room it was given with.                   *)
Onto(p, d) == {i \in DOMAIN p : p[i].drive = d}
Taken(p, d) == Total([i \in DOMAIN p |-> p[i].cost], Onto(p, d))

Priced(p) ==
    \A i \in DOMAIN p : p[i].cost = Cost(p[i].unit, p[i].drive) /\ ~dest[p[i].drive].excluded

Balanced == \A d \in DriveIds : room[d] + Taken(plan, d) = dest[d].room

BudgetInv == PlannerInv /\ Priced(plan) /\ Balanced

LEMMA OntoFacts ==
    ASSUME NEW p \in Seq(StepType), NEW d
    PROVE  IsFiniteSet(Onto(p, d)) /\ Taken(p, d) \in Nat
<1>1. DOMAIN p = 1 .. Len(p) /\ Len(p) \in Nat
  OBVIOUS
<1>2. Onto(p, d) \in SUBSET (1 .. Len(p))
  BY <1>1 DEF Onto
<1>3. IsFiniteSet(Onto(p, d))
  <2>1. IsFiniteSet(1 .. Len(p))
    BY <1>1, FS_Interval
  <2> QED
    BY <1>2, <2>1, FS_Subset
<1>4. \A i \in Onto(p, d) : [j \in DOMAIN p |-> p[j].cost][i] \in Nat
  <2>1. \A i \in DOMAIN p : p[i] \in StepType
    OBVIOUS
  <2>2. \A i \in DOMAIN p : p[i].cost \in Nat
    BY <2>1 DEF StepType
  <2> QED
    BY <2>2 DEF Onto
<1> DEFINE costs == [j \in DOMAIN p |-> p[j].cost]
<1>5. \A i \in Onto(p, d) : costs[i] \in Nat
  BY <1>4
<1>6. Taken(p, d) = Total(costs, Onto(p, d))
  BY DEF Taken
<1> HIDE DEF costs
<1> QED
  BY <1>3, <1>5, <1>6, TotalNat

LEMMA TakenSame ==
    ASSUME NEW p \in Seq(StepType), NEW q \in Seq(StepType), NEW d, Onto(p, d) = Onto(q, d),
           \A i \in Onto(p, d) : p[i].cost = q[i].cost
    PROVE  Taken(p, d) = Taken(q, d)
<1> DEFINE f == [j \in DOMAIN p |-> p[j].cost]
           g == [j \in DOMAIN q |-> q[j].cost]
<1>1. \A i \in Onto(p, d) : f[i] = g[i]
  BY DEF Onto
<1>2. Taken(p, d) = Total(f, Onto(p, d)) /\ Taken(q, d) = Total(g, Onto(p, d))
  BY DEF Taken
<1>3. IsFiniteSet(Onto(p, d))
  BY OntoFacts
<1> HIDE DEF f, g
<1> QED
  BY <1>1, <1>2, <1>3, TotalSame

LEMMA TakenMore ==
    ASSUME NEW p \in Seq(StepType), NEW q \in Seq(StepType), NEW d, NEW n \in Onto(q, d),
           Onto(p, d) = Onto(q, d) \ {n}, \A i \in Onto(p, d) : p[i].cost = q[i].cost
    PROVE  Taken(q, d) = q[n].cost + Taken(p, d)
<1> DEFINE f == [j \in DOMAIN p |-> p[j].cost]
           g == [j \in DOMAIN q |-> q[j].cost]
<1>1. \A i \in Onto(p, d) : f[i] = g[i]
  BY DEF Onto
<1>2. Taken(p, d) = Total(f, Onto(p, d)) /\ Taken(q, d) = Total(g, Onto(q, d))
  BY DEF Taken
<1>3. IsFiniteSet(Onto(p, d)) /\ IsFiniteSet(Onto(q, d))
  BY OntoFacts
<1>4. g[n] = q[n].cost
  BY DEF Onto
<1>5. \A i \in Onto(q, d) : g[i] \in Nat
  <2>1. \A i \in DOMAIN q : q[i] \in StepType
    OBVIOUS
  <2>2. \A i \in DOMAIN q : q[i].cost \in Nat
    BY <2>1 DEF StepType
  <2> QED
    BY <2>2 DEF Onto
<1> HIDE DEF f, g
<1>6. Total(g, Onto(q, d)) = g[n] + Total(g, Onto(q, d) \ {n})
  BY <1>3, <1>5, TotalWithout
<1>7. Total(f, Onto(p, d)) = Total(g, Onto(p, d))
  BY <1>1, <1>3, TotalSame
<1> QED
  BY <1>2, <1>4, <1>6, <1>7

LEMMA BudgetBegins == PlannerInit => BudgetInv
<1> SUFFICES ASSUME PlannerInit PROVE BudgetInv  OBVIOUS
<1>1. PlannerInv
  BY InitHolds
<1>2. plan = <<>> /\ room = [d \in DriveIds |-> dest[d].room]
  BY DEF PlannerInit
<1>3. ASSUME NEW d \in DriveIds PROVE Taken(plan, d) = 0
  <2>1. Onto(plan, d) = {} /\ IsFiniteSet(Onto(plan, d))
    BY <1>2, FS_EmptySet DEF Onto
  <2> QED
    BY <2>1, TotalUnfold DEF Taken
<1>4. \A d \in DriveIds : dest[d].room \in Nat
  BY PlannerAssumption DEF PlannerInit, dest, DestinationType
<1> QED
  BY <1>1, <1>2, <1>3, <1>4 DEF BudgetInv, Priced, Balanced

LEMMA AddCopyPays == ASSUME BudgetInv, NEW d \in DriveIds, AddCopy(d) PROVE BudgetInv'
<1> DEFINE new == [unit |-> current, drive |-> d, cost |-> Cost(current, d)]
           n == Len(plan) + 1
<1>1. PlannerInv /\ PlannerInv' /\ plan \in Seq(StepType) /\ plan' \in Seq(StepType)
  <2>1. PlannerInv /\ PlannerInv'
    BY AddCopyHolds DEF BudgetInv
  <2>2. UNCHANGED given
    BY DEF AddCopy
  <2> QED
    BY <2>1, <2>2 DEF PlannerInv, Typed, StepType, Units, unit
<1>2. /\ current \in Units /\ given' = given /\ plan' = Append(plan, new)
      /\ room' = [room EXCEPT ![d] = room[d] - Cost(current, d)]
      /\ room \in [DriveIds -> Nat]
  BY <1>1 DEF AddCopy, PlannerInv, Typed
<1>3. ~dest[d].excluded
  BY DEF AddCopy, Options, Admissible
<1>4. Cost(current, d) \in Nat /\ dest[d].room \in Nat
  BY <1>1, <1>2, GivenFacts DEF PlannerInv, Typed
<1>5. /\ DOMAIN plan' = DOMAIN plan \cup {n} /\ n \notin DOMAIN plan
      /\ plan'[n] = new /\ \A i \in DOMAIN plan : plan'[i] = plan[i]
  <2> HIDE DEF new
  <2>1. /\ Len(plan) \in Nat /\ DOMAIN plan = 1 .. Len(plan) /\ DOMAIN plan' = 1 .. n
        /\ plan'[n] = new /\ \A i \in 1 .. Len(plan) : plan'[i] = plan[i]
    BY <1>1, <1>2
  <2> QED
    BY <2>1
<1>6. plan'[n].unit = current /\ plan'[n].drive = d /\ plan'[n].cost = Cost(current, d)
  BY <1>5
<1> HIDE DEF new, n
<1>7. Priced(plan)'
  <2>1. Priced(plan)
    BY DEF BudgetInv
  <2>2. \A i \in DOMAIN plan' : /\ plan'[i].cost = Cost(plan'[i].unit, plan'[i].drive)
                                /\ ~dest[plan'[i].drive].excluded
    BY <1>3, <1>5, <1>6, <2>1 DEF Priced
  <2> QED
    BY <1>2, <2>2 DEF Priced, Cost, unit, dest
<1>8. ASSUME NEW e \in DriveIds PROVE room'[e] + Taken(plan', e) = dest[e].room
  <2>1. room[e] + Taken(plan, e) = dest[e].room
    BY DEF BudgetInv, Balanced
  <2>2. CASE e = d
    <3>1. n \in Onto(plan', d) /\ Onto(plan, d) = Onto(plan', d) \ {n}
      BY <1>5, <1>6 DEF Onto
    <3>2. \A i \in Onto(plan, d) : plan[i].cost = plan'[i].cost
      BY <1>5 DEF Onto
    <3>3. Taken(plan', d) = plan'[n].cost + Taken(plan, d)
      BY <1>1, <3>1, <3>2, TakenMore
    <3>4. room'[d] = room[d] - Cost(current, d) /\ room[d] \in Nat
      BY <1>2
    <3>5. Taken(plan, d) \in Nat
      BY <1>1, OntoFacts
    <3> QED
      BY <1>4, <1>6, <2>1, <2>2, <3>3, <3>4, <3>5
  <2>3. CASE e # d
    <3>1. Onto(plan, e) = Onto(plan', e) /\ \A i \in Onto(plan, e) : plan[i].cost = plan'[i].cost
      BY <1>5, <1>6, <2>3 DEF Onto
    <3>2. Taken(plan, e) = Taken(plan', e)
      BY <1>1, <3>1, TakenSame
    <3>3. room'[e] = room[e]
      BY <1>2, <2>3
    <3> QED
      BY <2>1, <3>2, <3>3
  <2> QED
    BY <2>2, <2>3
<1> QED
  BY <1>1, <1>2, <1>7, <1>8 DEF BudgetInv, Balanced, dest

LEMMA MovePays == ASSUME BudgetInv, NEW d \in DriveIds, Move(d) PROVE BudgetInv'
<1> DEFINE c == plan[at]
<1>1. PlannerInv /\ PlannerInv' /\ plan \in Seq(StepType) /\ plan' \in Seq(StepType)
  <2>1. PlannerInv /\ PlannerInv'
    BY MoveHolds DEF BudgetInv
  <2>2. UNCHANGED given
    BY DEF Move
  <2> QED
    BY <2>1, <2>2 DEF PlannerInv, Typed, StepType, Units, unit
<1>2. /\ at \in DOMAIN plan /\ c \in StepType /\ given' = given
      /\ plan' = [plan EXCEPT ![at].drive = d, ![at].cost = Cost(c.unit, d)]
      /\ room' = [[room EXCEPT ![c.drive] = room[c.drive] + c.cost]
                     EXCEPT ![d] = [room EXCEPT ![c.drive] = room[c.drive] + c.cost][d] - Cost(c.unit, d)]
      /\ room \in [DriveIds -> Nat]
  BY <1>1 DEF Move, Copy, RoomWithout, PlannerInv, Typed
<1>3. c.unit \in Units /\ c.drive \in DriveIds /\ c.cost \in Nat
  BY <1>2 DEF StepType
<1>4. d # c.drive /\ ~dest[d].excluded
  BY DEF Move, Improves, Candidates, Admissible, Copy
<1>5. Cost(c.unit, d) \in Nat
  BY <1>1, <1>3, GivenFacts DEF PlannerInv, Typed
<1>6. /\ DOMAIN plan' = DOMAIN plan /\ \A i \in DOMAIN plan : i # at => plan'[i] = plan[i]
      /\ plan'[at].unit = c.unit /\ plan'[at].drive = d /\ plan'[at].cost = Cost(c.unit, d)
  <2>1. plan' = [plan EXCEPT ![at] = [c EXCEPT !.drive = d, !.cost = Cost(c.unit, d)]]
    BY <1>2
  <2>2. PICK e : e = [c EXCEPT !.drive = d, !.cost = Cost(c.unit, d)]
    OBVIOUS
  <2>3. e.unit = c.unit /\ e.drive = d /\ e.cost = Cost(c.unit, d)
    <3> HIDE DEF c
    <3> QED
      BY <1>2, <2>2 DEF StepType
  <2>4. plan' = [plan EXCEPT ![at] = e]
    BY <2>1, <2>2
  <2> HIDE DEF c
  <2> QED
    BY <1>1, <1>2, <2>3, <2>4
<1>7. /\ room'[d] = room[d] - Cost(c.unit, d) /\ room'[c.drive] = room[c.drive] + c.cost
      /\ \A e \in DriveIds : e # d /\ e # c.drive => room'[e] = room[e]
      /\ \A e \in DriveIds : room[e] \in Nat
  <2> HIDE DEF c
  <2> QED
    BY <1>2, <1>3, <1>4
<1>8. plan[at] = c
  OBVIOUS
<1> HIDE DEF c
<1>9. Priced(plan)'
  <2>1. Priced(plan)
    BY DEF BudgetInv
  <2>2. \A i \in DOMAIN plan' : /\ plan'[i].cost = Cost(plan'[i].unit, plan'[i].drive)
                                /\ ~dest[plan'[i].drive].excluded
    BY <1>2, <1>4, <1>6, <2>1 DEF Priced
  <2> QED
    BY <1>2, <2>2 DEF Priced, Cost, unit, dest
<1>10. ASSUME NEW e \in DriveIds PROVE room'[e] + Taken(plan', e) = dest[e].room
  <2>1. room[e] + Taken(plan, e) = dest[e].room
    BY DEF BudgetInv, Balanced
  <2>2. Taken(plan, e) \in Nat /\ Taken(plan', e) \in Nat
    BY <1>1, OntoFacts
  <2>3. CASE e = d
    <3>1. /\ at \in Onto(plan', d) /\ Onto(plan, d) = Onto(plan', d) \ {at}
          /\ \A i \in Onto(plan, d) : plan[i].cost = plan'[i].cost
      BY <1>2, <1>4, <1>6, <1>8 DEF Onto
    <3>2. Taken(plan', d) = plan'[at].cost + Taken(plan, d)
      BY <1>1, <3>1, TakenMore
    <3> QED
      BY <1>5, <1>6, <1>7, <2>1, <2>2, <2>3, <3>2
  <2>4. CASE e = c.drive
    <3>1. /\ at \in Onto(plan, e) /\ Onto(plan', e) = Onto(plan, e) \ {at}
          /\ \A i \in Onto(plan', e) : plan'[i].cost = plan[i].cost
      BY <1>2, <1>4, <1>6, <1>8, <2>4 DEF Onto
    <3>2. Taken(plan, e) = plan[at].cost + Taken(plan', e)
      BY <1>1, <3>1, TakenMore
    <3> QED
      BY <1>3, <1>7, <1>8, <2>1, <2>2, <2>4, <3>2
  <2>5. CASE e # d /\ e # c.drive
    <3>1. Onto(plan, e) = Onto(plan', e) /\ \A i \in Onto(plan, e) : plan[i].cost = plan'[i].cost
      BY <1>2, <1>6, <1>8, <2>5 DEF Onto
    <3>2. Taken(plan, e) = Taken(plan', e)
      BY <1>1, <3>1, TakenSame
    <3> QED
      BY <1>7, <2>1, <2>5, <3>2
  <2> QED
    BY <2>3, <2>4, <2>5
<1> QED
  BY <1>1, <1>2, <1>9, <1>10 DEF BudgetInv, Balanced, dest

(* The sum the other solver's plan is checked by is what the list of its   *)
(* copies takes.                                                           *)
TakenBy(X, d) == SumFunction([x \in {y \in X : y[2] = d} |-> Cost(x[1], d)])

LEMMA ListTakes ==
    ASSUME NEW X, IsFiniteSet(X), NEW p \in Seq(StepType), NEW order \in Seq(X), NEW d,
           \A x \in X : \E i \in DOMAIN order : order[i] = x,
           \A i, j \in DOMAIN order : order[i] = order[j] => i = j,
           DOMAIN p = DOMAIN order,
           \A i \in DOMAIN order : p[i].drive = order[i][2] /\ p[i].cost = Cost(order[i][1], order[i][2])
    PROVE  TakenBy(X, d) = Taken(p, d)
<1> DEFINE S == {x \in X : x[2] = d}
           h == [x \in S |-> Cost(x[1], d)]
           f == [i \in DOMAIN p |-> p[i].cost]
           I == Onto(p, d)
<1>1. TakenBy(X, d) = Total(h, S)
  BY SumIsTotal DEF TakenBy
<1>2. \A i \in DOMAIN order : order[i] \in X
  OBVIOUS
<1>3. S = {order[i] : i \in I}
  BY <1>2 DEF Onto
<1>4. IsFiniteSet(I) /\ Taken(p, d) = Total(f, I)
  BY OntoFacts DEF Taken
<1>5. \A i, j \in I : order[i] = order[j] => i = j
  BY DEF Onto
<1>6. \A i \in I : f[i] = h[order[i]]
  BY <1>2 DEF Onto
<1>7. \A i \in I : f[i] \in Int
  <2>1. \A i \in DOMAIN p : p[i] \in StepType
    OBVIOUS
  <2>2. \A i \in DOMAIN p : p[i].cost \in Int
    BY <2>1 DEF StepType
  <2> QED
    BY <2>2 DEF Onto
<1> HIDE DEF S, h, f, I
<1>8. Total(f, I) = Total(h, {order[i] : i \in I})
  BY <1>4, <1>5, <1>6, <1>7, TotalMapped
<1> QED
  BY <1>1, <1>3, <1>4, <1>8

LEMMA TakeOtherPlanPays ==
    ASSUME BudgetInv, NEW X \in SUBSET Openings, TakeOtherPlan(X) PROVE BudgetInv'
<1> DEFINE order == SetToSeq(X)
           step(i) == [unit |-> order[i][1], drive |-> order[i][2], cost |-> Cost(order[i][1], order[i][2])]
<1>1. PlannerInv /\ PlannerInv' /\ plan' \in Seq(StepType)
  <2>1. PlannerInv /\ PlannerInv'
    BY TakeOtherPlanHolds DEF BudgetInv
  <2>2. UNCHANGED given
    BY DEF TakeOtherPlan
  <2> QED
    BY <2>1, <2>2 DEF PlannerInv, Typed, StepType, Units, unit
<1>2. /\ given' = given /\ room' = [d \in DriveIds |-> RoomAfter(X, d)]
      /\ plan' = [i \in DOMAIN order |-> step(i)]
      /\ \A d \in DriveIds : RoomAfter(X, d) \in Nat
  BY DEF TakeOtherPlan, Feasible
<1>3. IsFiniteSet(X)
  <2>1. IsFiniteSet(Units) /\ IsFiniteSet(DriveIds)
    BY <1>1, PlannerAssumption DEF PlannerInv, Typed, Units, unit
  <2>2. X \in SUBSET (Units \X DriveIds)
    BY DEF Openings
  <2> QED
    BY <2>1, <2>2, FS_Product, FS_Subset
<1>4. /\ order \in Seq(X)
      /\ \A x \in X : \E i \in DOMAIN order : order[i] = x
      /\ \A i, j \in DOMAIN order : order[i] = order[j] => i = j
  BY <1>3, ListsEachOnce
<1>5. \A x \in X : ~dest[x[2]].excluded
  BY DEF Openings, MayOpen
<1> HIDE DEF order
<1>6. \A i \in DOMAIN order : order[i] \in X
  BY <1>4
<1>7. /\ DOMAIN plan' = DOMAIN order
      /\ \A i \in DOMAIN order : /\ plan'[i].unit = order[i][1] /\ plan'[i].drive = order[i][2]
                                 /\ plan'[i].cost = Cost(order[i][1], order[i][2])
  BY <1>2
<1>8. Priced(plan)'
  BY <1>2, <1>5, <1>6, <1>7 DEF Priced, Cost, unit, dest
<1>9. ASSUME NEW d \in DriveIds PROVE room'[d] + Taken(plan', d) = dest[d].room
  <2>1. TakenBy(X, d) = Taken(plan', d)
    <3>1. PICK p : p = plan'
      OBVIOUS
    <3>2. p \in Seq(StepType) /\ DOMAIN p = DOMAIN order
      BY <1>1, <1>7, <3>1
    <3>3. \A i \in DOMAIN order : p[i].drive = order[i][2] /\ p[i].cost = Cost(order[i][1], order[i][2])
      BY <1>7, <3>1
    <3>4. TakenBy(X, d) = Taken(p, d)
      BY <1>3, <1>4, <3>2, <3>3, ListTakes
    <3> QED
      BY <3>1, <3>4
  <2>2. room'[d] = dest[d].room - Taken(plan', d)
    BY <1>2, <2>1 DEF RoomAfter, TakenBy
  <2>3. dest[d].room \in Nat
    BY <1>1, PlannerAssumption DEF PlannerInv, Typed, dest, DestinationType
  <2>4. Taken(plan', d) \in Nat
    BY <1>1, OntoFacts
  <2> QED
    BY <2>2, <2>3, <2>4
<1> QED
  BY <1>1, <1>2, <1>8, <1>9 DEF BudgetInv, Balanced, dest

LEMMA BudgetHolds == ASSUME BudgetInv, [PlannerNext]_plannerVars PROVE BudgetInv'
<1>1. PlannerInv'
  BY StepHolds DEF BudgetInv
<1>2. ASSUME UNCHANGED <<given, room, plan>> PROVE BudgetInv'
  BY <1>1, <1>2 DEF BudgetInv, Priced, Balanced, Cost, unit, dest, Taken, Onto
<1>3. ASSUME NEW u \in UnitKeys, TakeUnit(u) PROVE BudgetInv'
  BY <1>2, <1>3 DEF TakeUnit
<1>4. ASSUME LeaveUnit \/ BeginSwaps \/ Stay \/ EndSwaps \/ MakeDocument \/ UNCHANGED plannerVars
      PROVE  BudgetInv'
  BY <1>2, <1>4 DEF LeaveUnit, BeginSwaps, Stay, EndSwaps, MakeDocument, plannerVars
<1> QED
  BY <1>3, <1>4, AddCopyPays, MovePays, TakeOtherPlanPays DEF PlannerNext

LEMMA AlwaysBudgeted == PlannerSpec => []BudgetInv
BY BudgetBegins, BudgetHolds, PTL DEF PlannerSpec

(* The sum of what a plan's copies cost is what they take. *)
LEMMA CostsAreTaken ==
    ASSUME BudgetInv, NEW d \in DriveIds
    PROVE  SumFunction([i \in {k \in DOMAIN plan : plan[k].drive = d} |-> Cost(plan[i].unit, d)])
             = Taken(plan, d)
<1> DEFINE S == {k \in DOMAIN plan : plan[k].drive = d}
           h == [i \in S |-> Cost(plan[i].unit, d)]
           f == [i \in DOMAIN plan |-> plan[i].cost]
<1>1. SumFunction([i \in S |-> Cost(plan[i].unit, d)]) = Total(h, S)
  BY SumIsTotal
<1>2. plan \in Seq(StepType)
  BY DEF BudgetInv, PlannerInv, Typed
<1>3. S = Onto(plan, d) /\ IsFiniteSet(S)
  BY <1>2, OntoFacts DEF Onto
<1>4. \A i \in S : h[i] = f[i]
  BY DEF BudgetInv, Priced
<1>5. Taken(plan, d) = Total(f, S)
  BY <1>3 DEF Taken
<1> HIDE DEF h, f, S
<1>6. Total(h, S) = Total(f, S)
  BY <1>3, <1>4, TotalSame
<1> QED
  BY <1>1, <1>5, <1>6 DEF S

(* No destination is planned over the room it has and none that is         *)
(* excluded is planned at all; no copy is given up silently; the plan is   *)
(* what was decided: however many copies are added and moved, and with     *)
(* either solver's plan.                                                   *)
THEOREM PlanStaysSound == PlannerSpec => []PlanIsSound
<1>1. BudgetInv => NeverOverRoom
  <2> SUFFICES ASSUME BudgetInv, NEW d \in DriveIds
               PROVE  /\ SumFunction([i \in {k \in DOMAIN plan : plan[k].drive = d} |-> Cost(plan[i].unit, d)])
                            <= dest[d].room
                      /\ dest[d].excluded => d \notin Touched
    BY DEF NeverOverRoom
  <2>1. room[d] + Taken(plan, d) = dest[d].room /\ room[d] \in Nat /\ Taken(plan, d) \in Nat
    BY OntoFacts DEF BudgetInv, Balanced, PlannerInv, Typed
  <2>2. Taken(plan, d) <= dest[d].room
    BY <2>1
  <2>3. dest[d].excluded => d \notin Touched
    BY DEF BudgetInv, Priced, Touched
  <2> QED
    BY <2>2, <2>3, CostsAreTaken
<1>2. BudgetInv => TargetOrShort /\ PlanIsWhatWasAdded
  BY DEF BudgetInv, PlannerInv, Accounted, Settled, TargetOrShort, Solved
<1>3. BudgetInv => PlanIsSound
  BY <1>1, <1>2 DEF PlanIsSound
<1> QED
  BY <1>3, AlwaysBudgeted, PTL

-----------------------------------------------------------------------------
(* The document.  A list is put in order by what comes before each of its  *)
(* elements: the places are taken once each.                               *)
Orders(before, n) ==
    /\ DOMAIN before = 1 .. n
    /\ \A i \in 1 .. n : before[i] \subseteq 1 .. n /\ i \notin before[i]
    /\ \A i, j \in 1 .. n : i # j => i \in before[j] \/ j \in before[i]
    /\ \A i \in 1 .. n : \A j \in before[i] : before[j] \subseteq before[i]

LEMMA InOrderIs ==
    ASSUME NEW n \in Nat, NEW before, Orders(before, n)
    PROVE  LET order == InOrder(before) IN
           /\ DOMAIN order = 1 .. n
           /\ \A m \in 1 .. n : order[m] \in 1 .. n /\ Cardinality(before[order[m]]) = m - 1
           /\ \A i \in 1 .. n : \E m \in 1 .. n : order[m] = i
<1>1. \A i \in 1 .. n : /\ IsFiniteSet(before[i]) /\ Cardinality(before[i]) \in Nat
                        /\ Cardinality(before[i]) < n
  <2> SUFFICES ASSUME NEW i \in 1 .. n
               PROVE  /\ IsFiniteSet(before[i]) /\ Cardinality(before[i]) \in Nat
                      /\ Cardinality(before[i]) < n
    OBVIOUS
  <2>1. before[i] \in SUBSET ((1 .. n) \ {i})
    BY DEF Orders
  <2>2. IsFiniteSet((1 .. n) \ {i}) /\ Cardinality((1 .. n) \ {i}) = n - 1
    <3>1. IsFiniteSet(1 .. n) /\ Cardinality(1 .. n) = n
      BY FS_Interval
    <3> QED
      BY <3>1, FS_RemoveElement
  <2> QED
    BY <2>1, <2>2, FS_Subset, FS_CardinalityType
<1>2. \A i \in 1 .. n : \A j \in before[i] : Cardinality(before[j]) < Cardinality(before[i])
  <2> SUFFICES ASSUME NEW i \in 1 .. n, NEW j \in before[i]
               PROVE  Cardinality(before[j]) < Cardinality(before[i])
    OBVIOUS
  <2>1. j \in 1 .. n /\ before[j] \in SUBSET before[i] /\ before[j] # before[i]
    BY DEF Orders
  <2>2. Cardinality(before[j]) <= Cardinality(before[i]) /\ Cardinality(before[j]) # Cardinality(before[i])
    BY <1>1, <2>1, FS_Subset
  <2> QED
    BY <1>1, <2>1, <2>2
<1> DEFINE place == [i \in 1 .. n |-> Cardinality(before[i]) + 1]
<1>3. place \in [1 .. n -> 1 .. n]
  BY <1>1
<1>4. \A i, j \in 1 .. n : place[i] = place[j] => i = j
  <2> SUFFICES ASSUME NEW i \in 1 .. n, NEW j \in 1 .. n, place[i] = place[j], i # j PROVE FALSE
    OBVIOUS
  <2>1. i \in before[j] \/ j \in before[i]
    BY DEF Orders
  <2> QED
    BY <1>1, <1>2, <2>1
<1>5. \A m \in 1 .. n : \E i \in 1 .. n : place[i] = m
  <2>1. place \in Injection(1 .. n, 1 .. n)
    BY <1>3, <1>4 DEF Injection, IsInjective
  <2>2. IsFiniteSet(1 .. n)
    BY FS_Interval
  <2> HIDE DEF place
  <2>3. place \in Surjection(1 .. n, 1 .. n)
    BY <2>1, <2>2, FS_Injection
  <2> QED
    BY <2>3 DEF Surjection
<1> DEFINE order == InOrder(before)
<1>6. DOMAIN order = 1 .. n /\ \A m \in 1 .. n : order[m] = CHOOSE i \in 1 .. n : Cardinality(before[i]) = m - 1
  BY DEF InOrder, Orders
<1>7. \A m \in 1 .. n : order[m] \in 1 .. n /\ Cardinality(before[order[m]]) = m - 1
  <2> SUFFICES ASSUME NEW m \in 1 .. n
               PROVE  order[m] \in 1 .. n /\ Cardinality(before[order[m]]) = m - 1
    OBVIOUS
  <2>1. \E i \in 1 .. n : Cardinality(before[i]) = m - 1
    <3>1. PICK i \in 1 .. n : place[i] = m
      BY <1>5
    <3> QED
      BY <1>1, <3>1
  <2> HIDE DEF order
  <2> QED
    BY <1>6, <2>1
<1>8. \A i \in 1 .. n : order[place[i]] = i
  <2> SUFFICES ASSUME NEW i \in 1 .. n PROVE order[place[i]] = i  OBVIOUS
  <2>1. place[i] \in 1 .. n /\ place[i] - 1 = Cardinality(before[i])
    BY <1>1, <1>3
  <2>2. order[place[i]] \in 1 .. n /\ Cardinality(before[order[place[i]]]) = Cardinality(before[i])
    BY <1>7, <2>1
  <2> HIDE DEF order
  <2>3. place[order[place[i]]] = place[i]
    BY <2>2
  <2> HIDE DEF place
  <2> QED
    BY <1>4, <2>2, <2>3
<1> HIDE DEF order
<1>9. \A i \in 1 .. n : \E m \in 1 .. n : order[m] = i
  BY <1>3, <1>8
<1> QED
  BY <1>6, <1>7, <1>9 DEF order

(* What comes before another in the order has an earlier place. *)
LEMMA InOrderSorts ==
    ASSUME NEW n \in Nat, NEW before, Orders(before, n), NEW l \in 1 .. n, NEW m \in 1 .. n
    PROVE  /\ InOrder(before)[l] \in before[InOrder(before)[m]] <=> l < m
           /\ InOrder(before)[l] = InOrder(before)[m] => l = m
<1> DEFINE order == InOrder(before)
           i == order[l]
           j == order[m]
<1>1. i \in 1 .. n /\ j \in 1 .. n /\ Cardinality(before[i]) = l - 1 /\ Cardinality(before[j]) = m - 1
  BY InOrderIs
<1>2. ASSUME NEW a \in 1 .. n, NEW b \in before[a] PROVE Cardinality(before[b]) < Cardinality(before[a])
  <2>1. b \in 1 .. n /\ before[b] \in SUBSET before[a] /\ before[b] # before[a] /\ before[a] \in SUBSET (1 .. n)
    BY DEF Orders
  <2>2. IsFiniteSet(before[a])
    <3>1. IsFiniteSet(1 .. n)
      BY FS_Interval
    <3> QED
      BY <2>1, <3>1, FS_Subset
  <2>3. /\ Cardinality(before[b]) <= Cardinality(before[a]) /\ Cardinality(before[b]) # Cardinality(before[a])
        /\ Cardinality(before[a]) \in Nat /\ Cardinality(before[b]) \in Nat
    BY <2>1, <2>2, FS_Subset, FS_CardinalityType
  <2> QED
    BY <2>3
<1> HIDE DEF i, j
<1>3. i = j => l = m
  BY <1>1
<1>4. i \in before[j] => l < m
  BY <1>1, <1>2
<1>5. l < m => i \in before[j]
  <2> SUFFICES ASSUME l < m PROVE i \in before[j]  OBVIOUS
  <2>1. i # j
    BY <1>1
  <2>2. j \notin before[i]
    <3> SUFFICES ASSUME j \in before[i] PROVE FALSE  OBVIOUS
    <3>1. Cardinality(before[j]) < Cardinality(before[i])
      BY <1>1, <1>2
    <3> QED
      BY <1>1, <3>1
  <2> QED
    BY <1>1, <2>1, <2>2 DEF Orders
<1> QED
  BY <1>3, <1>4, <1>5 DEF i, j

(* A round for each: the first that is free. *)
Free(f, uses, i, k) == \A j \in 1 .. i - 1 : f[j] = k => uses[j] \cap uses[i] = {}

FirstFit(f, uses) ==
    f = [i \in DOMAIN uses |-> Min({k \in 1 .. i : Free(f, uses, i, k)})]

LEMMA LeastOf ==
    ASSUME NEW S \in SUBSET Nat, S # {}
    PROVE  Min(S) \in S /\ \A x \in S : Min(S) <= x
<1>1. \E n \in S : \A m \in S : n <= m
  BY SmallestNat
<1> QED
  BY <1>1 DEF Min

(* There is a free one among as many as there are copies. *)
LEMMA SomeFree ==
    ASSUME NEW i \in Nat \ {0}, NEW f, NEW uses
    PROVE  \E k \in 1 .. i : Free(f, uses, i, k)
<1> SUFFICES ASSUME \A k \in 1 .. i : \E j \in 1 .. i - 1 : f[j] = k PROVE FALSE
  BY DEF Free
<1> DEFINE by == [k \in 1 .. i |-> CHOOSE j \in 1 .. i - 1 : f[j] = k]
<1>1. \A k \in 1 .. i : by[k] \in 1 .. i - 1 /\ f[by[k]] = k
  OBVIOUS
<1>2. by \in [1 .. i -> 1 .. i - 1] /\ \A k, l \in 1 .. i : by[k] = by[l] => k = l
  <2>1. \A k \in 1 .. i : by[k] \in 1 .. i - 1
    BY <1>1
  <2>2. DOMAIN by = 1 .. i
    OBVIOUS
  <2>3. \A k, l \in 1 .. i : by[k] = by[l] => k = l
    <3> HIDE DEF by
    <3> QED
      BY <1>1
  <2>4. by \in [1 .. i -> 1 .. i - 1]
    <3> HIDE DEF by
    <3>1. by = [k \in 1 .. i |-> by[k]]
      BY DEF by
    <3> QED
      BY <2>1, <3>1
  <2> QED
    BY <2>3, <2>4
<1>3. by \in Injection(1 .. i, 1 .. i - 1)
  BY <1>2 DEF Injection, IsInjective
<1>4. /\ IsFiniteSet(1 .. i) /\ Cardinality(1 .. i) = i
      /\ IsFiniteSet(1 .. i - 1) /\ Cardinality(1 .. i - 1) = i - 1
  <2>1. ASSUME NEW n \in Nat PROVE IsFiniteSet(1 .. n) /\ Cardinality(1 .. n) = n
    BY FS_Interval
  <2>2. i \in Nat /\ i - 1 \in Nat
    OBVIOUS
  <2> HIDE DEF by
  <2> QED
    BY <2>1, <2>2
<1> HIDE DEF by
<1>5. Cardinality(1 .. i) <= Cardinality(1 .. i - 1)
  BY <1>3, <1>4, FS_Injection
<1> QED
  BY <1>4, <1>5

(* What a round that fits first says. *)
LEMMA FitSays ==
    ASSUME NEW n \in Nat, NEW uses, DOMAIN uses = 1 .. n, NEW f, FirstFit(f, uses), NEW i \in 1 .. n
    PROVE  /\ f[i] \in 1 .. i /\ Free(f, uses, i, f[i])
           /\ \A k \in 1 .. f[i] - 1 : ~Free(f, uses, i, k)
<1> DEFINE S == {k \in 1 .. i : Free(f, uses, i, k)}
<1>1. f[i] = Min(S)
  BY DEF FirstFit
<1>2. S \in SUBSET Nat /\ S # {}
  <2>1. \E k \in 1 .. i : Free(f, uses, i, k)
    BY SomeFree
  <2> QED
    BY <2>1
<1>3. Min(S) \in S /\ \A x \in S : Min(S) <= x
  <2> HIDE DEF S
  <2> QED
    BY <1>2, LeastOf
<1>4. f[i] \in 1 .. i /\ Free(f, uses, i, f[i])
  BY <1>1, <1>3
<1>5. ASSUME NEW k \in 1 .. f[i] - 1, Free(f, uses, i, k) PROVE FALSE
  <2>1. k \in S /\ k < f[i]
    BY <1>4, <1>5
  <2> QED
    BY <1>1, <1>3, <1>4, <2>1
<1> QED
  BY <1>4, <1>5

(* What says that fits first. *)
LEMMA FitIs ==
    ASSUME NEW n \in Nat, NEW uses, DOMAIN uses = 1 .. n, NEW f, f = [i \in 1 .. n |-> f[i]],
           \A i \in 1 .. n : /\ f[i] \in 1 .. i /\ Free(f, uses, i, f[i])
                             /\ \A k \in 1 .. f[i] - 1 : ~Free(f, uses, i, k)
    PROVE  FirstFit(f, uses)
<1>1. ASSUME NEW i \in 1 .. n PROVE f[i] = Min({k \in 1 .. i : Free(f, uses, i, k)})
  <2> DEFINE S == {k \in 1 .. i : Free(f, uses, i, k)}
  <2>1. f[i] \in S /\ \A x \in S : f[i] <= x
    OBVIOUS
  <2>2. S \in SUBSET Nat
    OBVIOUS
  <2> HIDE DEF S
  <2>3. Min(S) \in S /\ \A x \in S : Min(S) <= x
    BY <2>1, <2>2, LeastOf
  <2>4. f[i] = Min(S)
    BY <2>1, <2>2, <2>3
  <2> QED
    BY <2>4 DEF S
<1> DEFINE g == [i \in DOMAIN uses |-> Min({k \in 1 .. i : Free(f, uses, i, k)})]
<1>2. DOMAIN g = 1 .. n /\ \A i \in 1 .. n : g[i] = f[i]
  BY <1>1
<1>3. g = [i \in 1 .. n |-> g[i]]
  OBVIOUS
<1>4. f = g
  <2> HIDE DEF g
  <2> QED
    BY <1>2, <1>3
<1> QED
  BY <1>4 DEF FirstFit

LEMMA OneFit ==
    ASSUME NEW n \in Nat, NEW uses, DOMAIN uses = 1 .. n, NEW f, NEW g,
           FirstFit(f, uses), FirstFit(g, uses)
    PROVE  f = g
<1> DEFINE Bad == {i \in 1 .. n : f[i] # g[i]}
<1>1. Bad = {}
  <2> SUFFICES ASSUME Bad # {} PROVE FALSE  OBVIOUS
  <2>1. Bad \in SUBSET Nat
    OBVIOUS
  <2>2. PICK i \in Bad : \A m \in Bad : i <= m
    <3> HIDE DEF Bad
    <3> QED
      BY <2>1, SmallestNat
  <2>3. i \in 1 .. n /\ f[i] # g[i] /\ \A j \in 1 .. i - 1 : f[j] = g[j]
    BY <2>2
  <2>4. \A k : Free(f, uses, i, k) <=> Free(g, uses, i, k)
    BY <2>3 DEF Free
  <2>5. /\ f[i] \in 1 .. i /\ Free(f, uses, i, f[i]) /\ \A k \in 1 .. f[i] - 1 : ~Free(f, uses, i, k)
        /\ g[i] \in 1 .. i /\ Free(g, uses, i, g[i]) /\ \A k \in 1 .. g[i] - 1 : ~Free(g, uses, i, k)
    BY <2>3, FitSays
  <2>6. ~(f[i] < g[i]) /\ ~(g[i] < f[i])
    BY <2>4, <2>5
  <2> QED
    BY <2>3, <2>5, <2>6
<1>2. \A i \in 1 .. n : f[i] = g[i]
  BY <1>1
<1>3. f = [i \in 1 .. n |-> f[i]] /\ g = [i \in 1 .. n |-> g[i]]
  BY DEF FirstFit
<1> QED
  BY <1>2, <1>3

(* Such rounds there are. *)
LEMMA FitExists ==
    ASSUME NEW n \in Nat, NEW uses, DOMAIN uses = 1 .. n
    PROVE  \E f : FirstFit(f, uses)
<1> DEFINE upto(m) == [i \in 1 .. m |-> uses[i]]
           Bad == {m \in 0 .. n : ~ \E f : FirstFit(f, upto(m))}
<1>1. Bad = {}
  <2> SUFFICES ASSUME Bad # {} PROVE FALSE  OBVIOUS
  <2>1. Bad \in SUBSET Nat
    OBVIOUS
  <2>2. PICK m \in Bad : \A l \in Bad : m <= l
    <3> HIDE DEF Bad
    <3> QED
      BY <2>1, SmallestNat
  <2>3. m \in 0 .. n /\ ~ \E f : FirstFit(f, upto(m))
    BY <2>2
  <2>4. CASE m = 0
    <3>1. FirstFit([i \in 1 .. 0 |-> 0], upto(m))
      BY <2>4 DEF FirstFit
    <3> QED
      BY <2>3, <3>1
  <2>5. CASE m # 0
    <3> DEFINE l == m - 1
    <3>1. l \in Nat /\ l < m /\ l \in 0 .. n /\ l \notin Bad
      <4>1. m \in Nat /\ m >= 1
        BY <2>3, <2>5
      <4>2. l \in Nat /\ l < m /\ l \in 0 .. n
        BY <2>3, <4>1
      <4>3. ~ (m <= l)
        BY <4>1
      <4> HIDE DEF Bad, l
      <4> QED
        BY <2>2, <4>2, <4>3
    <3>2. PICK f : FirstFit(f, upto(l))
      BY <3>1
    <3> DEFINE last == Min({k \in 1 .. m : Free(f, upto(m), m, k)})
               g == [i \in 1 .. m |-> IF i = m THEN last ELSE f[i]]
    <3>3. \A i \in 1 .. l : f[i] \in 1 .. i /\ Free(f, upto(l), i, f[i])
                              /\ \A k \in 1 .. f[i] - 1 : ~Free(f, upto(l), i, k)
      <4>1. DOMAIN upto(l) = 1 .. l
        OBVIOUS
      <4> HIDE DEF upto, l
      <4> QED
        BY <3>1, <3>2, <4>1, FitSays
    <3>4. \A i \in 1 .. l : g[i] = f[i]
      BY <3>1
    <3>5. g[m] = last /\ m \in 1 .. m
      BY <2>3, <2>5
    <3> HIDE DEF last
    <3>6. \A i \in 1 .. l : \A k : Free(g, upto(m), i, k) <=> Free(f, upto(l), i, k)
      <4> SUFFICES ASSUME NEW i \in 1 .. l, NEW k
                   PROVE  Free(g, upto(m), i, k) <=> Free(f, upto(l), i, k)
        OBVIOUS
      <4>1. i \in 1 .. m /\ \A j \in 1 .. i - 1 : j \in 1 .. l /\ j \in 1 .. m
        BY <2>3, <3>1
      <4>2. upto(m)[i] = upto(l)[i] /\ \A j \in 1 .. i - 1 : upto(m)[j] = upto(l)[j]
        BY <4>1
      <4> HIDE DEF upto, g, l
      <4> QED
        BY <3>4, <4>1, <4>2 DEF Free
    <3>7. \A k : Free(g, upto(m), m, k) <=> Free(f, upto(m), m, k)
      BY <3>1, <3>4 DEF Free
    <3>8. last \in 1 .. m /\ Free(f, upto(m), m, last) /\ \A k \in 1 .. last - 1 : ~Free(f, upto(m), m, k)
      <4> DEFINE S == {k \in 1 .. m : Free(f, upto(m), m, k)}
      <4>1. S \in SUBSET Nat /\ S # {}
        <5>1. m \in Nat \ {0}
          BY <2>3, <2>5
        <5>2. \E k \in 1 .. m : Free(f, upto(m), m, k)
          <6> HIDE DEF upto
          <6> QED
            BY ONLY <5>1, SomeFree
        <5> HIDE DEF upto
        <5> QED
          BY ONLY <5>2
      <4>2. Min(S) \in S /\ \A x \in S : Min(S) <= x
        <5> HIDE DEF S
        <5> QED
          BY <4>1, LeastOf
      <4>3. last = Min(S)
        BY DEF last
      <4>4. last \in S /\ \A x \in S : last <= x
        BY <4>2, <4>3
      <4> QED
        BY <2>3, <4>4
    <3>9. \A i \in 1 .. m : /\ g[i] \in 1 .. i /\ Free(g, upto(m), i, g[i])
                            /\ \A k \in 1 .. g[i] - 1 : ~Free(g, upto(m), i, k)
      <4> SUFFICES ASSUME NEW i \in 1 .. m
                   PROVE  /\ g[i] \in 1 .. i /\ Free(g, upto(m), i, g[i])
                          /\ \A k \in 1 .. g[i] - 1 : ~Free(g, upto(m), i, k)
        OBVIOUS
      <4> HIDE DEF g, upto
      <4>1. CASE i = m
        BY <3>5, <3>7, <3>8, <4>1
      <4>2. CASE i # m
        <5>1. i \in 1 .. l
          BY <2>3, <4>2
        <5> HIDE DEF l
        <5> QED
          BY <3>3, <3>4, <3>6, <5>1
      <4> QED
        BY <4>1, <4>2
    <3>10. g = [i \in 1 .. m |-> g[i]] /\ DOMAIN upto(m) = 1 .. m /\ m \in Nat
      BY <2>3
    <3>11. FirstFit(g, upto(m))
      <4> HIDE DEF g, upto
      <4> QED
        BY <3>9, <3>10, FitIs
    <3> QED
      BY <2>3, <3>11
  <2> QED
    BY <2>4, <2>5
<1>2. PICK f : FirstFit(f, upto(n))
  BY <1>1
<1>3. FirstFit(f, uses)
  <2>1. DOMAIN upto(n) = 1 .. n /\ \A i \in 1 .. n : upto(n)[i] = uses[i]
    OBVIOUS
  <2>2. \A i \in 1 .. n : \A k : Free(f, upto(n), i, k) <=> Free(f, uses, i, k)
    <3> SUFFICES ASSUME NEW i \in 1 .. n, NEW k
                 PROVE  Free(f, upto(n), i, k) <=> Free(f, uses, i, k)
      OBVIOUS
    <3>1. \A j \in 1 .. i - 1 : j \in 1 .. n
      OBVIOUS
    <3> HIDE DEF upto
    <3> QED
      BY <2>1, <3>1 DEF Free
  <2>3. \A i \in 1 .. n : f[i] \in 1 .. i /\ Free(f, upto(n), i, f[i])
                            /\ \A k \in 1 .. f[i] - 1 : ~Free(f, upto(n), i, k)
    <3> HIDE DEF upto
    <3> QED
      BY <1>2, <2>1, FitSays
  <2>4. f = [i \in 1 .. n |-> f[i]]
    BY <1>2 DEF FirstFit
  <2>5. \A i \in 1 .. n : f[i] \in 1 .. i /\ Free(f, uses, i, f[i])
                            /\ \A k \in 1 .. f[i] - 1 : ~Free(f, uses, i, k)
    <3> HIDE DEF upto
    <3> QED
      BY <2>2, <2>3
  <2> QED
    BY <2>4, <2>5, FitIs
<1> QED
  BY <1>3

LEMMA RoundsFit ==
    ASSUME NEW n \in Nat, NEW uses, DOMAIN uses = 1 .. n
    PROVE  FirstFit(Rounds(uses), uses)
<1>1. Rounds(uses) = CHOOSE f : FirstFit(f, uses)
  BY DEF Rounds, FirstFit, Free
<1>2. \E f : FirstFit(f, uses)
  BY FitExists
<1> HIDE DEF FirstFit
<1> QED
  BY <1>1, <1>2

(* Rounds found again in the order of the rounds are the same ones. *)
RoundOrder(f) ==
    [i \in DOMAIN f |-> {j \in DOMAIN f : f[j] < f[i] \/ (f[j] = f[i] /\ j < i)}]

LEMMA RoundsOrdered ==
    ASSUME NEW n \in Nat, NEW f, DOMAIN f = 1 .. n, \A i \in 1 .. n : f[i] \in Nat
    PROVE  Orders(RoundOrder(f), n)
<1> DEFINE b == RoundOrder(f)
<1>1. DOMAIN b = 1 .. n /\ \A i, j \in 1 .. n : j \in b[i] <=> f[j] < f[i] \/ (f[j] = f[i] /\ j < i)
  BY DEF RoundOrder
<1>2. \A i \in 1 .. n : b[i] \subseteq 1 .. n
  BY DEF RoundOrder
<1> HIDE DEF b
<1>3. \A i \in 1 .. n : i \notin b[i]
  BY <1>1
<1>4. \A i, j \in 1 .. n : i # j => i \in b[j] \/ j \in b[i]
  BY <1>1
<1>5. ASSUME NEW i \in 1 .. n, NEW j \in b[i], NEW k \in b[j] PROVE k \in b[i]
  <2>1. j \in 1 .. n /\ k \in 1 .. n
    BY <1>2
  <2>2. f[i] \in Nat /\ f[j] \in Nat /\ f[k] \in Nat
    BY <2>1
  <2>3. /\ f[j] < f[i] \/ (f[j] = f[i] /\ j < i)
        /\ f[k] < f[j] \/ (f[k] = f[j] /\ k < j)
    BY <1>1, <2>1
  <2>4. f[k] < f[i] \/ (f[k] = f[i] /\ k < i)
    BY <2>1, <2>2, <2>3
  <2> QED
    BY <1>1, <2>1, <2>4
<1> QED
  BY <1>1, <1>2, <1>3, <1>4, <1>5 DEF Orders, b

Sorts(T, f, n) ==
    /\ DOMAIN T = 1 .. n /\ \A m \in 1 .. n : T[m] \in 1 .. n
    /\ \A i \in 1 .. n : \E m \in 1 .. n : T[m] = i
    /\ \A l, m \in 1 .. n : T[l] = T[m] => l = m
    /\ \A l, m \in 1 .. n : l < m <=> (f[T[l]] < f[T[m]] \/ (f[T[l]] = f[T[m]] /\ T[l] < T[m]))

LEMMA ByRoundIs ==
    ASSUME NEW n \in Nat, NEW f, DOMAIN f = 1 .. n, \A i \in 1 .. n : f[i] \in Nat
    PROVE  Sorts(ByRound(f), f, n)
<1> DEFINE T == ByRound(f)
           b == RoundOrder(f)
<1>1. T = InOrder(b)
  BY DEF ByRound, RoundOrder
<1>2. Orders(b, n)
  BY RoundsOrdered
<1>3. \A i, j \in 1 .. n : j \in b[i] <=> f[j] < f[i] \/ (f[j] = f[i] /\ j < i)
  BY DEF RoundOrder
<1> HIDE DEF T, b
<1>4. /\ DOMAIN T = 1 .. n /\ \A m \in 1 .. n : T[m] \in 1 .. n
      /\ \A i \in 1 .. n : \E m \in 1 .. n : T[m] = i
  <2>1. n \in Nat /\ Orders(b, n)
    BY <1>2
  <2> QED
    BY ONLY <1>1, <2>1, InOrderIs
<1>5. \A l, m \in 1 .. n : (T[l] \in b[T[m]] <=> l < m) /\ (T[l] = T[m] => l = m)
  BY <1>1, <1>2, InOrderSorts
<1>6. \A l, m \in 1 .. n : l < m <=> f[T[l]] < f[T[m]] \/ (f[T[l]] = f[T[m]] /\ T[l] < T[m])
  BY <1>3, <1>4, <1>5
<1> QED
  BY <1>4, <1>5, <1>6 DEF T, Sorts

LEMMA RoundsAgain ==
    ASSUME NEW n \in Nat, NEW uses, DOMAIN uses = 1 .. n, NEW f, FirstFit(f, uses)
    PROVE  FirstFit([i \in 1 .. n |-> f[ByRound(f)[i]]], [i \in 1 .. n |-> uses[ByRound(f)[i]]])
<1> DEFINE T == ByRound(f)
           g == [i \in 1 .. n |-> f[T[i]]]
           v == [i \in 1 .. n |-> uses[T[i]]]
<1>1. DOMAIN f = 1 .. n
  BY DEF FirstFit
<1>2. \A i \in 1 .. n : f[i] \in 1 .. i /\ Free(f, uses, i, f[i])
                          /\ \A k \in 1 .. f[i] - 1 : ~Free(f, uses, i, k)
  BY FitSays
<1>3. \A i \in 1 .. n : f[i] \in Nat /\ f[i] >= 1
  BY <1>2
<1>4. /\ \A m \in 1 .. n : T[m] \in 1 .. n
      /\ \A i \in 1 .. n : \E m \in 1 .. n : T[m] = i
      /\ \A l, m \in 1 .. n : l < m <=> f[T[l]] < f[T[m]] \/ (f[T[l]] = f[T[m]] /\ T[l] < T[m])
  <2>1. \A i \in 1 .. n : f[i] \in Nat
    BY <1>3
  <2> HIDE DEF g, v
  <2>2. Sorts(T, f, n)
    BY <1>1, <2>1, ByRoundIs
  <2> HIDE DEF T
  <2> QED
    BY <2>2 DEF Sorts
<1>5. DOMAIN v = 1 .. n /\ g = [i \in 1 .. n |-> g[i]]
      /\ \A i \in 1 .. n : g[i] = f[T[i]] /\ v[i] = uses[T[i]]
  OBVIOUS
<1> HIDE DEF T, g, v
<1>6. ASSUME NEW i \in 1 .. n PROVE Free(g, v, i, g[i])
  <2> SUFFICES ASSUME NEW j \in 1 .. i - 1, g[j] = g[i] PROVE v[j] \cap v[i] = {}
    BY DEF Free
  <2>1. j \in 1 .. n /\ j < i
    OBVIOUS
  <2>2. T[i] \in 1 .. n /\ T[j] \in 1 .. n /\ f[T[j]] = f[T[i]] /\ f[T[i]] \in Nat
    BY <1>3, <1>4, <1>5, <2>1
  <2>3. T[j] < T[i]
    BY <1>4, <2>1, <2>2
  <2>4. T[j] \in 1 .. T[i] - 1
    BY <2>2, <2>3
  <2>5. uses[T[j]] \cap uses[T[i]] = {}
    BY <1>2, <2>2, <2>4 DEF Free
  <2> QED
    BY <1>5, <2>1, <2>5
<1>7. ASSUME NEW i \in 1 .. n, NEW k \in 1 .. g[i] - 1, Free(g, v, i, k) PROVE FALSE
  <2>1. T[i] \in 1 .. n /\ f[T[i]] = g[i]
    BY <1>4, <1>5
  <2>2. PICK m \in 1 .. T[i] - 1 : f[m] = k /\ uses[m] \cap uses[T[i]] # {}
    <3>1. k \in 1 .. f[T[i]] - 1
      BY <2>1
    <3>2. ~Free(f, uses, T[i], k)
      BY <1>2, <2>1, <3>1
    <3> QED
      BY <3>2 DEF Free
  <2>3. m \in 1 .. n
    BY <2>1, <2>2
  <2>4. PICK j \in 1 .. n : T[j] = m
    BY <1>4, <2>3
  <2>5. f[T[j]] < f[T[i]]
    BY <1>3, <2>1, <2>2, <2>4
  <2>6. j < i
    BY <1>4, <2>5
  <2>7. j \in 1 .. i - 1
    BY <2>6
  <2>8. g[j] = k /\ v[j] = uses[m] /\ v[i] = uses[T[i]]
    BY <1>5, <2>2, <2>4
  <2> QED
    BY <1>7, <2>2, <2>7, <2>8 DEF Free
<1>8. ASSUME NEW i \in 1 .. n PROVE g[i] \in 1 .. i
  <2>1. g[i] \in Nat /\ g[i] >= 1
    BY <1>3, <1>4, <1>5
  <2>2. i \in Nat \ {0}
    OBVIOUS
  <2>3. PICK k \in 1 .. i : Free(g, v, i, k)
    BY <2>2, SomeFree
  <2>4. ~ (k \in 1 .. g[i] - 1)
    BY <1>7, <2>3
  <2> QED
    BY <2>1, <2>3, <2>4
<1>9. FirstFit(g, v)
  BY <1>5, <1>6, <1>7, <1>8, FitIs
<1> QED
  BY <1>9 DEF g, v, T

(* Copies come drive by drive: the order is one. *)
LEMMA PlanFacts ==
    ASSUME Typed
    PROVE  /\ Len(plan) \in Nat /\ DOMAIN plan = 1 .. Len(plan) /\ IsFiniteSet(DOMAIN plan)
           /\ \A i \in DOMAIN plan : /\ plan[i].unit \in Units /\ plan[i].drive \in DriveIds
                                     /\ plan[i].cost \in Nat
<1>1. plan \in Seq(StepType)
  BY DEF Typed
<1>2. Len(plan) \in Nat /\ DOMAIN plan = 1 .. Len(plan) /\ \A i \in DOMAIN plan : plan[i] \in StepType
  BY <1>1
<1>3. IsFiniteSet(1 .. Len(plan))
  BY <1>2, FS_Interval
<1> QED
  BY <1>2, <1>3 DEF StepType

LEMMA LossFacts ==
    ASSUME given \in Inputs, NEW S \in SUBSET DriveIds
    PROVE  Loss(S) \in Nat
BY PlannerAssumption DEF Loss

LEMMA DeltaFacts ==
    ASSUME Typed, NEW i \in DOMAIN plan
    PROVE  HeldBefore(i) \in SUBSET DriveIds /\ RiskDelta(i) \in Int
<1>1. given \in Inputs /\ plan[i].unit \in Units /\ plan[i].drive \in DriveIds
  BY PlanFacts DEF Typed
<1>2. unit[plan[i].unit].holders \subseteq DriveIds /\ unit[plan[i].unit].bytes \in Nat
  BY <1>1, GivenFacts
<1>3. \A j \in 1 .. i - 1 : j \in DOMAIN plan
  BY PlanFacts
<1>4. HeldBefore(i) \in SUBSET DriveIds
  BY <1>2, <1>3, PlanFacts DEF HeldBefore
<1>5. Loss(HeldBefore(i)) \in Nat /\ Loss(HeldBefore(i) \cup {plan[i].drive}) \in Nat
  <2>1. HeldBefore(i) \cup {plan[i].drive} \in SUBSET DriveIds
    BY <1>1, <1>4
  <2> QED
    BY <1>1, <1>4, <2>1, LossFacts
<1> QED
  BY <1>2, <1>4, <1>5 DEF RiskDelta

LEMMA OntoOrder ==
    ASSUME Typed, NEW i \in DOMAIN plan
    PROVE  /\ BytesOnto(plan[i].drive) \in Nat
           /\ FirstOnto(plan[i].drive) \in DOMAIN plan
           /\ plan[FirstOnto(plan[i].drive)].drive = plan[i].drive
<1> DEFINE d == plan[i].drive
           S == {k \in DOMAIN plan : plan[k].drive = d}
           f == [k \in S |-> plan[k].cost]
<1>1. BytesOnto(d) = Total(f, S)
  BY SumIsTotal DEF BytesOnto
<1>2. IsFiniteSet(S)
  BY PlanFacts, FS_Subset
<1>3. \A k \in S : f[k] \in Nat
  BY PlanFacts
<1>4. S \in SUBSET Nat /\ S # {}
  BY PlanFacts
<1>5. FirstOnto(d) = Min(S)
  BY DEF FirstOnto
<1> HIDE DEF f
<1>6. BytesOnto(d) \in Nat
  <2> HIDE DEF S, d
  <2> QED
    BY <1>1, <1>2, <1>3, TotalNat
<1>7. FirstOnto(d) \in S
  <2> HIDE DEF S, d
  <2> QED
    BY <1>4, <1>5, LeastOf
<1> QED
  BY <1>6, <1>7

DriveOrder == [i \in DOMAIN plan |-> {j \in DOMAIN plan : ComesBefore(j, i)}]

LEMMA DrivesOrdered ==
    ASSUME Typed
    PROVE  Orders(DriveOrder, Len(plan))
<1> DEFINE n == Len(plan)
           d == [i \in 1 .. n |-> plan[i].drive]
           b == [i \in 1 .. n |-> BytesOnto(plan[i].drive)]
           o == [i \in 1 .. n |-> FirstOnto(plan[i].drive)]
           r == [i \in 1 .. n |-> RiskDelta(i)]
<1>1. n \in Nat /\ DOMAIN plan = 1 .. n
  BY PlanFacts
<1>2. \A i \in 1 .. n : b[i] \in Nat /\ o[i] \in Nat /\ r[i] \in Int
  BY <1>1, OntoOrder, DeltaFacts
<1>3. \A i, j \in 1 .. n : d[i] = d[j] => o[i] = o[j] /\ b[i] = b[j]
  OBVIOUS
<1>4. \A i, j \in 1 .. n : o[i] = o[j] => d[i] = d[j]
  <2> SUFFICES ASSUME NEW i \in 1 .. n, NEW j \in 1 .. n, o[i] = o[j] PROVE d[i] = d[j]
    OBVIOUS
  <2>1. plan[o[i]].drive = d[i] /\ plan[o[j]].drive = d[j]
    BY <1>1, OntoOrder
  <2> QED
    BY <2>1
<1>5. \A i, j \in 1 .. n :
        ComesBefore(i, j) <=>
          IF d[i] = d[j] THEN r[i] < r[j] \/ (r[i] = r[j] /\ i < j)
          ELSE b[i] > b[j] \/ (b[i] = b[j] /\ o[i] < o[j])
  BY DEF ComesBefore
<1>6. /\ DOMAIN DriveOrder = 1 .. n
      /\ \A i \in 1 .. n : DriveOrder[i] \subseteq 1 .. n
      /\ \A i, j \in 1 .. n : j \in DriveOrder[i] <=> ComesBefore(j, i)
  BY <1>1 DEF DriveOrder
<1> HIDE DEF n, d, b, o, r
<1>7. \A i \in 1 .. n : i \notin DriveOrder[i]
  BY <1>1, <1>2, <1>5, <1>6
<1>8. \A i, j \in 1 .. n : i # j => i \in DriveOrder[j] \/ j \in DriveOrder[i]
  <2> SUFFICES ASSUME NEW i \in 1 .. n, NEW j \in 1 .. n, i # j
               PROVE  ComesBefore(i, j) \/ ComesBefore(j, i)
    BY <1>6
  <2>1. /\ b[i] \in Nat /\ b[j] \in Nat /\ o[i] \in Nat /\ o[j] \in Nat /\ r[i] \in Int /\ r[j] \in Int
        /\ i \in Int /\ j \in Int /\ i # j
    BY <1>1, <1>2
  <2>2. o[i] = o[j] => d[i] = d[j]
    BY <1>4
  <2>3. /\ ComesBefore(i, j) <=> IF d[i] = d[j] THEN r[i] < r[j] \/ (r[i] = r[j] /\ i < j)
                                 ELSE b[i] > b[j] \/ (b[i] = b[j] /\ o[i] < o[j])
        /\ ComesBefore(j, i) <=> IF d[j] = d[i] THEN r[j] < r[i] \/ (r[j] = r[i] /\ j < i)
                                 ELSE b[j] > b[i] \/ (b[j] = b[i] /\ o[j] < o[i])
    BY <1>5
  <2> QED
    BY ONLY <2>1, <2>2, <2>3
<1>9. \A i \in 1 .. n : \A j \in DriveOrder[i] : \A k \in DriveOrder[j] : k \in DriveOrder[i]
  <2> SUFFICES ASSUME NEW i \in 1 .. n, NEW j \in 1 .. n, NEW k \in 1 .. n,
                      ComesBefore(j, i), ComesBefore(k, j)
               PROVE  ComesBefore(k, i)
    BY <1>6
  <2>1. /\ b[i] \in Nat /\ o[i] \in Nat /\ r[i] \in Int
        /\ b[j] \in Nat /\ o[j] \in Nat /\ r[j] \in Int
        /\ b[k] \in Nat /\ o[k] \in Nat /\ r[k] \in Int
    BY <1>2
  <2>2. /\ d[i] = d[j] <=> o[i] = o[j]
        /\ d[k] = d[j] <=> o[k] = o[j]
        /\ d[i] = d[k] <=> o[i] = o[k]
        /\ d[i] = d[j] => b[i] = b[j]
        /\ d[k] = d[j] => b[k] = b[j]
        /\ d[i] = d[k] => b[i] = b[k]
    BY <1>3, <1>4
  <2>3. /\ IF d[j] = d[i] THEN r[j] < r[i] \/ (r[j] = r[i] /\ j < i)
                          ELSE b[j] > b[i] \/ (b[j] = b[i] /\ o[j] < o[i])
        /\ IF d[k] = d[j] THEN r[k] < r[j] \/ (r[k] = r[j] /\ k < j)
                          ELSE b[k] > b[j] \/ (b[k] = b[j] /\ o[k] < o[j])
    BY <1>5
  <2>4. IF d[k] = d[i] THEN r[k] < r[i] \/ (r[k] = r[i] /\ k < i)
                       ELSE b[k] > b[i] \/ (b[k] = b[i] /\ o[k] < o[i])
    <3>1. CASE d[k] = d[i] /\ d[i] = d[j]
      <4>1. i \in Nat /\ j \in Nat /\ k \in Nat
        OBVIOUS
      <4> QED
        BY ONLY <2>1, <2>3, <3>1, <4>1
    <3>2. CASE d[k] = d[i] /\ d[i] # d[j]
      BY ONLY <2>1, <2>2, <2>3, <3>2
    <3>3. CASE d[k] # d[i]
      BY ONLY <2>1, <2>2, <2>3, <3>3
    <3> QED
      BY <3>1, <3>2, <3>3
  <2> QED
    BY <1>5, <2>4
<1>10. Orders(DriveOrder, n)
  BY <1>6, <1>7, <1>8, <1>9 DEF Orders
<1> QED
  BY <1>10 DEF n

FirstRounds == Rounds([i \in DOMAIN plan |-> Uses(DriveByDrive[i])])

Document ==
    [i \in DOMAIN plan |-> CopyStep(DriveByDrive[ByRound(FirstRounds)[i]],
                                    FirstRounds[ByRound(FirstRounds)[i]])]

DocInv == phase = "made" => steps = Document

LEMMA SameDocument ==
    ASSUME given' = given, plan' = plan
    PROVE  Document' = Document
<1>1. ASSUME NEW i PROVE HeldBefore(i)' = HeldBefore(i)
  BY DEF HeldBefore, unit
<1>2. ASSUME NEW i PROVE RiskDelta(i)' = RiskDelta(i)
  BY <1>1 DEF RiskDelta, unit, Loss
<1>3. ASSUME NEW d PROVE BytesOnto(d)' = BytesOnto(d) /\ FirstOnto(d)' = FirstOnto(d)
  BY DEF BytesOnto, FirstOnto
<1>4. ASSUME NEW i, NEW j PROVE ComesBefore(i, j)' <=> ComesBefore(i, j)
  BY <1>2, <1>3 DEF ComesBefore
<1>5. DriveOrder' = DriveOrder
  BY <1>4 DEF DriveOrder
<1>6. DriveByDrive' = DriveByDrive
  BY <1>5 DEF DriveByDrive, DriveOrder
<1>7. ASSUME NEW i PROVE Uses(i)' = Uses(i)
  BY DEF Uses, Source, unit
<1>8. FirstRounds' = FirstRounds
  <2>1. [i \in DOMAIN plan |-> Uses(DriveByDrive[i])]' = [i \in DOMAIN plan |-> Uses(DriveByDrive[i])]
    BY <1>6, <1>7
  <2> QED
    BY <2>1 DEF FirstRounds
<1>9. ASSUME NEW i, NEW n PROVE CopyStep(i, n)' = CopyStep(i, n)
  BY <1>2, <1>7 DEF CopyStep
<1> QED
  BY <1>6, <1>8, <1>9 DEF Document

LEMMA DocumentWritten ==
    ASSUME DocInv, [PlannerNext]_plannerVars
    PROVE  DocInv'
<1>1. CASE phase' # "made"
  BY <1>1 DEF DocInv
<1>2. CASE MakeDocument
  <2>1. given' = given /\ plan' = plan /\ steps' = Document
    BY <1>2 DEF MakeDocument, Document, FirstRounds
  <2> QED
    BY <2>1, SameDocument DEF DocInv
<1>3. CASE UNCHANGED plannerVars
  <2>1. given' = given /\ plan' = plan /\ steps' = steps /\ phase' = phase
    BY <1>3 DEF plannerVars
  <2> QED
    BY <2>1, SameDocument DEF DocInv
<1>4. ASSUME PlannerNext, ~MakeDocument PROVE phase' # "made"
  BY <1>4 DEF PlannerNext, TakeUnit, AddCopy, Move, LeaveUnit, BeginSwaps, Stay, EndSwaps, TakeOtherPlan
<1> QED
  BY <1>1, <1>2, <1>3, <1>4

(* The document is the plan in another order, with the rounds that fit it. *)
Reordered(p, r) ==
    /\ DOMAIN steps = DOMAIN plan
    /\ \A i \in DOMAIN plan : p[i] \in DOMAIN plan /\ steps[i] = CopyStep(p[i], r[i])
    /\ \A i, j \in DOMAIN plan : p[i] = p[j] => i = j
    /\ \A k \in DOMAIN plan : \E i \in DOMAIN plan : p[i] = k
    /\ FirstFit(r, [i \in DOMAIN plan |-> Uses(p[i])])

LEMMA DocumentIs ==
    ASSUME Typed, steps = Document
    PROVE  \E p, r : Reordered(p, r)
<1> DEFINE n == Len(plan)
           a == DriveByDrive
           f == FirstRounds
           T == ByRound(FirstRounds)
           uses == [i \in 1 .. n |-> Uses(a[i])]
           p == [i \in 1 .. n |-> a[T[i]]]
           r == [i \in 1 .. n |-> f[T[i]]]
<1>1. n \in Nat /\ DOMAIN plan = 1 .. n
  BY PlanFacts
<1>2. /\ \A m \in 1 .. n : a[m] \in 1 .. n
      /\ \A i \in 1 .. n : \E m \in 1 .. n : a[m] = i
      /\ \A l, m \in 1 .. n : a[l] = a[m] => l = m
  <2>1. Orders(DriveOrder, n)
    BY DrivesOrdered
  <2>2. a = InOrder(DriveOrder)
    BY DEF DriveByDrive, DriveOrder
  <2> HIDE DEF n, a
  <2>3. /\ \A m \in 1 .. n : InOrder(DriveOrder)[m] \in 1 .. n
        /\ \A i \in 1 .. n : \E m \in 1 .. n : InOrder(DriveOrder)[m] = i
    BY <1>1, <2>1, InOrderIs
  <2>4. \A l, m \in 1 .. n : InOrder(DriveOrder)[l] = InOrder(DriveOrder)[m] => l = m
    BY <1>1, <2>1, InOrderSorts
  <2> QED
    BY <2>2, <2>3, <2>4
<1>3. FirstFit(f, uses)
  <2>1. f = Rounds(uses)
    BY <1>1 DEF FirstRounds
  <2>2. DOMAIN uses = 1 .. n
    OBVIOUS
  <2> HIDE DEF n, a, f, uses
  <2> QED
    BY <1>1, <2>1, <2>2, RoundsFit
<1>4. Sorts(T, f, n)
  <2>1. DOMAIN f = 1 .. n
    BY <1>3 DEF FirstFit
  <2>2. \A i \in 1 .. n : f[i] \in Nat
    <3>1. DOMAIN uses = 1 .. n
      OBVIOUS
    <3>2. \A i \in 1 .. n : f[i] \in 1 .. i
      <4> HIDE DEF n, f, uses
      <4> QED
        BY <1>1, <1>3, <3>1, FitSays
    <3> QED
      BY <3>2
  <2>3. T = ByRound(f)
    OBVIOUS
  <2> HIDE DEF n, f, T
  <2> QED
    BY <1>1, <2>1, <2>2, <2>3, ByRoundIs
<1>5. FirstFit(r, [i \in 1 .. n |-> uses[T[i]]])
  <2>1. DOMAIN uses = 1 .. n /\ r = [i \in 1 .. n |-> f[ByRound(f)[i]]] /\ T = ByRound(f)
    OBVIOUS
  <2> HIDE DEF n, f, uses, r, T
  <2> QED
    BY <1>1, <1>3, <2>1, RoundsAgain
<1>6. [i \in 1 .. n |-> uses[T[i]]] = [i \in DOMAIN plan |-> Uses(p[i])]
  <2>1. \A i \in 1 .. n : T[i] \in 1 .. n
    BY <1>4 DEF Sorts
  <2>2. \A i \in 1 .. n : uses[T[i]] = Uses(p[i])
    BY <2>1
  <2> HIDE DEF n, uses, T, p
  <2> QED
    BY <1>1, <2>2
<1>7. DOMAIN steps = 1 .. n /\ \A i \in 1 .. n : steps[i] = CopyStep(p[i], r[i])
  BY <1>1 DEF Document
<1> HIDE DEF n, a, f, T, r, uses
<1>8. \A i \in 1 .. n : T[i] \in 1 .. n /\ p[i] \in 1 .. n
  BY <1>2, <1>4 DEF Sorts
<1>9. \A i, j \in 1 .. n : p[i] = p[j] => i = j
  BY <1>2, <1>4, <1>8 DEF Sorts
<1>10. \A k \in 1 .. n : \E i \in 1 .. n : p[i] = k
  <2> SUFFICES ASSUME NEW k \in 1 .. n PROVE \E i \in 1 .. n : p[i] = k  OBVIOUS
  <2>1. PICK m \in 1 .. n : a[m] = k
    BY <1>2
  <2>2. PICK i \in 1 .. n : T[i] = m
    BY <1>4 DEF Sorts
  <2> QED
    BY <2>1, <2>2
<1> HIDE DEF p
<1>11. Reordered(p, r)
  BY <1>1, <1>5, <1>6, <1>7, <1>8, <1>9, <1>10 DEF Reordered
<1> QED
  BY <1>11

LEMMA Distributes == ASSUME NEW b \in Int, NEW x \in Int, NEW y \in Int PROVE b * (x - y) = b * x - b * y
OBVIOUS

(* The changes of risk add up: every copy is credited to what came before. *)
CopiedBy(k) == [u \in Units |-> {plan[j].drive : j \in {l \in 1 .. k : plan[l].unit = u}}]
Deltas == [i \in DOMAIN plan |-> RiskDelta(i)]
LossUnder(A) == [u \in Units |-> unit[u].bytes * Loss(unit[u].holders \cup A[u])]

LEMMA LossIsTotal ==
    ASSUME Typed, NEW A, \A u \in Units : A[u] \subseteq DriveIds
    PROVE  /\ ExpectedLoss(A) = Total(LossUnder(A), Units)
           /\ IsFiniteSet(Units) /\ \A u \in Units : LossUnder(A)[u] \in Nat
<1>1. ExpectedLoss(A) = Total(LossUnder(A), Units)
  BY SumIsTotal DEF ExpectedLoss, LossUnder
<1>2. IsFiniteSet(Units)
  BY PlannerAssumption DEF Typed, Units, unit
<1>3. ASSUME NEW u \in Units PROVE LossUnder(A)[u] \in Nat
  <2>1. unit[u].bytes \in Nat /\ unit[u].holders \subseteq DriveIds
    BY GivenFacts DEF Typed
  <2>2. unit[u].holders \cup A[u] \in SUBSET DriveIds
    BY <2>1
  <2>3. Loss(unit[u].holders \cup A[u]) \in Nat
    BY <2>2, LossFacts DEF Typed
  <2> QED
    BY <2>1, <2>3 DEF LossUnder
<1> QED
  BY <1>1, <1>2, <1>3

LEMMA LossFalls ==
    ASSUME Typed, NEW k \in DOMAIN plan
    PROVE  ExpectedLoss(CopiedBy(k)) = ExpectedLoss(CopiedBy(k - 1)) + RiskDelta(k)
<1> DEFINE c == plan[k].unit
           A == CopiedBy(k)
           B == CopiedBy(k - 1)
<1>1. c \in Units /\ plan[k].drive \in DriveIds /\ k \in 1 .. Len(plan) /\ DOMAIN plan = 1 .. Len(plan) /\ Len(plan) \in Nat
  BY PlanFacts
<1>2. \A l \in 1 .. k : l \in DOMAIN plan
  BY <1>1
<1>3. \A u \in Units : A[u] \subseteq DriveIds /\ B[u] \subseteq DriveIds
  <2>1. \A l \in 1 .. k : plan[l].drive \in DriveIds
    BY <1>2, PlanFacts
  <2>2. \A l \in 1 .. k - 1 : l \in 1 .. k
    BY <1>1
  <2> QED
    BY <2>1, <2>2 DEF CopiedBy
<1>4. \A l : l \in 1 .. k <=> l \in 1 .. k - 1 \/ l = k
  BY <1>1
<1>5. \A u \in Units \ {c} : A[u] = B[u]
  BY <1>4 DEF CopiedBy
<1>6. A[c] = B[c] \cup {plan[k].drive}
  BY <1>1, <1>4 DEF CopiedBy
<1>7. HeldBefore(k) = unit[c].holders \cup B[c]
  BY <1>1 DEF HeldBefore, CopiedBy
<1> HIDE DEF A, B
<1>8. /\ ExpectedLoss(A) = Total(LossUnder(A), Units) /\ ExpectedLoss(B) = Total(LossUnder(B), Units)
      /\ IsFiniteSet(Units)
      /\ \A u \in Units : LossUnder(A)[u] \in Int /\ LossUnder(B)[u] \in Int
  BY <1>3, LossIsTotal
<1>9. \A u \in Units \ {c} : LossUnder(B)[u] = LossUnder(A)[u]
  BY <1>5 DEF LossUnder
<1>10. Total(LossUnder(A), Units) = Total(LossUnder(B), Units) + (LossUnder(A)[c] - LossUnder(B)[c])
  BY <1>1, <1>8, <1>9, TotalChanged
<1>11. LossUnder(A)[c] - LossUnder(B)[c] = RiskDelta(k)
  <2>1. unit[c].bytes \in Int /\ unit[c].holders \subseteq DriveIds
    BY <1>1, GivenFacts DEF Typed
  <2>2. unit[c].holders \cup A[c] = HeldBefore(k) \cup {plan[k].drive}
    BY <1>6, <1>7
  <2>3. HeldBefore(k) \cup {plan[k].drive} \in SUBSET DriveIds /\ HeldBefore(k) \in SUBSET DriveIds
    BY <1>1, DeltaFacts
  <2>4. Loss(HeldBefore(k) \cup {plan[k].drive}) \in Int /\ Loss(HeldBefore(k)) \in Int
    BY <2>3, LossFacts DEF Typed
  <2>5. /\ LossUnder(A)[c] = unit[c].bytes * Loss(HeldBefore(k) \cup {plan[k].drive})
        /\ LossUnder(B)[c] = unit[c].bytes * Loss(HeldBefore(k))
    BY <1>1, <1>7, <2>2 DEF LossUnder
  <2> QED
    BY <2>1, <2>4, <2>5, Distributes DEF RiskDelta
<1>12. ExpectedLoss(A) = ExpectedLoss(B) + RiskDelta(k)
  BY <1>8, <1>10, <1>11
<1> QED
  BY <1>12 DEF A, B

LEMMA DeltasAdd ==
    ASSUME Typed, NEW k \in 0 .. Len(plan)
    PROVE  ExpectedLoss(CopiedBy(k)) = ExpectedLoss(CopiedBy(0)) + Total(Deltas, 1 .. k)
<1> DEFINE Bad == {l \in 0 .. Len(plan) : ExpectedLoss(CopiedBy(l)) # ExpectedLoss(CopiedBy(0)) + Total(Deltas, 1 .. l)}
<1> SUFFICES ASSUME Bad # {} PROVE FALSE  OBVIOUS
<1>1. Len(plan) \in Nat /\ DOMAIN plan = 1 .. Len(plan) /\ Bad \in SUBSET Nat
  BY PlanFacts
<1>2. PICK l \in Bad : \A m \in Bad : l <= m
  <2> HIDE DEF Bad
  <2> QED
    BY <1>1, SmallestNat
<1>3. ExpectedLoss(CopiedBy(0)) \in Int
  <2>1. \A u \in Units : CopiedBy(0)[u] \subseteq DriveIds
    BY DEF CopiedBy
  <2>2. /\ ExpectedLoss(CopiedBy(0)) = Total(LossUnder(CopiedBy(0)), Units)
        /\ IsFiniteSet(Units) /\ \A u \in Units : LossUnder(CopiedBy(0))[u] \in Nat
    BY <2>1, LossIsTotal
  <2>3. \A u \in Units : LossUnder(CopiedBy(0))[u] \in Int
    BY <2>2
  <2> QED
    BY <2>2, <2>3, TotalInt
<1>4. \A i \in DOMAIN plan : Deltas[i] \in Int
  BY DeltaFacts DEF Deltas
<1>5. CASE l = 0
  <2>1. 1 .. 0 = {} /\ IsFiniteSet({})
    BY FS_EmptySet
  <2>2. Total(Deltas, 1 .. 0) = 0
    BY <2>1, TotalZeros
  <2> QED
    BY <1>2, <1>3, <1>5, <2>2
<1>6. CASE l # 0
  <2> DEFINE m == l - 1
  <2>1. l \in 0 .. Len(plan) /\ l \in 1 .. Len(plan) /\ m \in 0 .. Len(plan) /\ m < l
    BY <1>1, <1>2, <1>6
  <2>2. m \notin Bad
    <3> HIDE DEF Bad, m
    <3> QED
      BY <1>1, <1>2, <2>1
  <2>3. ExpectedLoss(CopiedBy(m)) = ExpectedLoss(CopiedBy(0)) + Total(Deltas, 1 .. m)
    BY <2>1, <2>2
  <2>4. ExpectedLoss(CopiedBy(l)) = ExpectedLoss(CopiedBy(m)) + RiskDelta(l)
    BY <1>1, <2>1, LossFalls
  <2>5. IsFiniteSet(1 .. l) /\ IsFiniteSet(1 .. m)
    BY <2>1, FS_Interval
  <2>6. \A i \in 1 .. l : Deltas[i] \in Int
    BY <1>1, <1>4, <2>1
  <2>7. l \in 1 .. l /\ (1 .. l) \ {l} = 1 .. m
    BY <2>1
  <2>8. Total(Deltas, 1 .. l) = Deltas[l] + Total(Deltas, (1 .. l) \ {l})
    BY <2>5, <2>6, <2>7, TotalWithout
  <2> HIDE DEF m
  <2>9. Total(Deltas, 1 .. l) = Deltas[l] + Total(Deltas, 1 .. m)
    BY <2>7, <2>8
  <2>10. Total(Deltas, 1 .. m) \in Int
    <3>1. \A i \in 1 .. m : Deltas[i] \in Int
      BY <2>6, <2>1
    <3> QED
      BY <2>5, <3>1, TotalInt
  <2>11. Deltas[l] = RiskDelta(l) /\ Deltas[l] \in Int
    BY <1>1, <1>4, <2>1 DEF Deltas
  <2>12. ExpectedLoss(CopiedBy(l)) = ExpectedLoss(CopiedBy(0)) + Total(Deltas, 1 .. l)
    BY ONLY <1>3, <2>3, <2>4, <2>10, <2>11, <2>9
  <2> QED
    BY <1>2, <2>12
<1> QED
  BY <1>5, <1>6

LEMMA StepsSum ==
    ASSUME Typed, PlanIsWhatWasAdded, NEW p, NEW r, Reordered(p, r)
    PROVE  ExpectedLoss(added) =
             ExpectedLoss([u \in Units |-> {}]) + SumFunction([i \in DOMAIN steps |-> steps[i].delta])
<1> DEFINE f == [i \in DOMAIN steps |-> steps[i].delta]
<1>1. DOMAIN plan = 1 .. Len(plan) /\ Len(plan) \in Nat /\ IsFiniteSet(DOMAIN plan)
  BY PlanFacts
<1>2. added = CopiedBy(Len(plan))
  <2>1. added = [u \in Units |-> added[u]]
    BY DEF Typed
  <2> QED
    BY <1>1, <2>1 DEF PlanIsWhatWasAdded, CopiedBy
<1>3. CopiedBy(0) = [u \in Units |-> {}]
  BY DEF CopiedBy
<1>4. ExpectedLoss(CopiedBy(Len(plan))) = ExpectedLoss(CopiedBy(0)) + Total(Deltas, 1 .. Len(plan))
  <2>1. Len(plan) \in 0 .. Len(plan)
    BY <1>1
  <2> QED
    BY <2>1, DeltasAdd
<1>5. SumFunction(f) = SumFunction(Deltas)
  <2>1. DOMAIN f = DOMAIN plan /\ DOMAIN Deltas = DOMAIN plan
    BY DEF Reordered, Deltas
  <2>2. \A i, j \in DOMAIN f : p[i] = p[j] => i = j
    BY <2>1 DEF Reordered
  <2>3. DOMAIN Deltas = {p[i] : i \in DOMAIN f}
    <3>1. \A i \in DOMAIN plan : p[i] \in DOMAIN plan
      BY DEF Reordered
    <3>2. \A k \in DOMAIN plan : \E i \in DOMAIN plan : p[i] = k
      BY DEF Reordered
    <3> HIDE DEF f
    <3> QED
      BY <2>1, <3>1, <3>2
  <2>4. \A i \in DOMAIN f : f[i] \in Int /\ f[i] = Deltas[p[i]]
    <3>1. \A i \in DOMAIN plan : p[i] \in DOMAIN plan /\ steps[i].delta = RiskDelta(p[i])
      BY DEF Reordered, CopyStep
    <3> QED
      BY <2>1, <3>1, DeltaFacts DEF Deltas
  <2> HIDE DEF f
  <2> QED
    BY <1>1, <2>1, <2>2, <2>3, <2>4, SumRenamed
<1>6. SumFunction(Deltas) = Total(Deltas, 1 .. Len(plan))
  BY <1>1, SumIsTotal DEF Deltas
<1> QED
  BY <1>2, <1>3, <1>4, <1>5, <1>6

LEMMA LargestOf ==
    ASSUME NEW b \in Nat, NEW S \in SUBSET (0 .. b), S # {}
    PROVE  Max(S) \in S /\ \A x \in S : x <= Max(S)
<1> DEFINE Gaps == {b - x : x \in S}
<1>1. Gaps \in SUBSET Nat /\ Gaps # {}
  <2>1. \A x \in S : b - x \in Nat
    OBVIOUS
  <2> QED
    BY <2>1
<1>2. PICK n \in Gaps : \A m \in Gaps : n <= m
  <2> HIDE DEF Gaps
  <2> QED
    BY <1>1, SmallestNat
<1>3. PICK y \in S : n = b - y
  BY <1>2
<1>4. \A x \in S : y >= x
  <2> SUFFICES ASSUME NEW x \in S PROVE y >= x  OBVIOUS
  <2>1. b - x \in Gaps
    OBVIOUS
  <2>2. b - y <= b - x
    <3> HIDE DEF Gaps
    <3> QED
      BY <1>2, <1>3, <2>1
  <2> QED
    BY <1>3, <2>2
<1>5. \E z \in S : \A x \in S : z >= x
  BY <1>4
<1>6. Max(S) \in S /\ \A x \in S : Max(S) >= x
  BY <1>5 DEF Max
<1>7. \A x \in S : x \in Int /\ x <= Max(S)
  <2> HIDE DEF Gaps
  <2> QED
    BY <1>6
<1> QED
  BY <1>6, <1>7

-----------------------------------------------------------------------------
(* The units of a catalog: which one a folder's files are in.  *)
Above(d) == {d} \cup Over[d]
Whole(c, d) == {a \in Above(d) : IsUnit(c, a) /\ \A b \in Over[a] : IsCut(c, b)}

LEMMA ChainUp ==
    ASSUME NEW d \in Tree, NEW a \in Above(d)
    PROVE  /\ a \in Tree /\ Above(a) \subseteq Above(d)
           /\ \A b \in Above(d) : a = b \/ a \in Over[b] \/ b \in Over[a]
BY TreeAssumption DEF Above

LEMMA FilingIs ==
    ASSUME NEW c, IsCatalog(c), NEW d \in Tree, Filed(c, d)
    PROVE  /\ Max(Filing(c, d)) \in Filing(c, d)
           /\ \A i \in Filing(c, d) : i <= Max(Filing(c, d))
<1>1. /\ Len(c.rules) \in Nat /\ Filing(c, d) \subseteq 1 .. Len(c.rules) /\ Filing(c, d) # {}
  BY DEF IsCatalog, Filing, Filed
<1>2. Filing(c, d) \in SUBSET (0 .. Len(c.rules))
  BY <1>1
<1> QED
  BY <1>1, <1>2, LargestOf

(* What files an ancestor files a folder. *)
LEMMA FilingGrows ==
    ASSUME NEW c, NEW d \in Tree, NEW a \in Above(d)
    PROVE  Filing(c, a) \subseteq Filing(c, d)
BY ChainUp DEF Filing, Above

LEMMA OneWhole ==
    ASSUME NEW c, NEW d \in Tree, NEW a \in Whole(c, d), NEW b \in Whole(c, d)
    PROVE  a = b
<1>1. a \in Above(d) /\ b \in Above(d) /\ IsUnit(c, a) /\ IsUnit(c, b)
  BY DEF Whole
<1>2. a = b \/ a \in Over[b] \/ b \in Over[a]
  BY <1>1, ChainUp
<1>3. a \notin Over[b] /\ b \notin Over[a]
  BY <1>1 DEF Whole, IsUnit, IsCut
<1> QED
  BY <1>2, <1>3

(* The key of the unit that the files of a folder are in. *)
CollectionKey(c, d, k) ==
    \E i \in Filing(c, d) : k = <<"collection", i>> /\ \A j \in Filing(c, d) : j <= i
FolderKey(c, d, k) == ~Filed(c, d) /\ \E a \in Whole(c, d) : k = <<"folder", a>>
LooseKey(c, d, k) == ~Filed(c, d) /\ Whole(c, d) = {} /\ k = <<"loose", d>>

LEMMA KeyIs ==
    ASSUME NEW c, IsCatalog(c), NEW d \in Tree
    PROVE  LET k == UnitOf(c, d) IN CollectionKey(c, d, k) \/ FolderKey(c, d, k) \/ LooseKey(c, d, k)
<1> DEFINE k == UnitOf(c, d)
<1>1. CASE Filed(c, d)
  <2>1. k = <<"collection", Max(Filing(c, d))>>
    BY <1>1 DEF UnitOf
  <2> HIDE DEF k
  <2>2. CollectionKey(c, d, k)
    BY <1>1, <2>1, FilingIs DEF CollectionKey
  <2> QED
    BY <2>2 DEF k
<1>2. CASE ~Filed(c, d)
  <2>1. k = IF Whole(c, d) # {} THEN <<"folder", CHOOSE a \in Whole(c, d) : TRUE>> ELSE <<"loose", d>>
    BY <1>2 DEF UnitOf, Whole, Above
  <2> HIDE DEF k
  <2>2. CASE Whole(c, d) # {}
    BY <1>2, <2>1, <2>2 DEF FolderKey, k
  <2>3. CASE Whole(c, d) = {}
    BY <1>2, <2>1, <2>3 DEF LooseKey, k
  <2> QED
    BY <2>2, <2>3
<1> QED
  BY <1>1, <1>2

(* A key's folder is over the folders of its files. *)
LEMMA KeyFolder ==
    ASSUME NEW c, IsCatalog(c), NEW d \in Tree
    PROVE  FolderOf(c, UnitOf(c, d)) \in Above(d)
<1> DEFINE k == UnitOf(c, d)
<1>1. CollectionKey(c, d, k) \/ FolderKey(c, d, k) \/ LooseKey(c, d, k)
  BY KeyIs
<1> HIDE DEF k
<1>2. CASE CollectionKey(c, d, k)
  BY <1>2 DEF CollectionKey, FolderOf, Filing, Above, k
<1>3. CASE FolderKey(c, d, k)
  BY <1>3 DEF FolderKey, FolderOf, Whole, k
<1>4. CASE LooseKey(c, d, k)
  BY <1>4 DEF LooseKey, FolderOf, Above, k
<1> QED
  BY <1>1, <1>2, <1>3, <1>4 DEF k

Sets(u) == {Held(given.catalog, f) : f \in UnitFiles(given.catalog, u)}

LEMMA CatalogFacts ==
    ASSUME given \in Inputs
    PROVE  /\ IsCatalog(given.catalog)
           /\ \A d \in DriveIds : dest[d].cluster \in Nat \ {0}
           /\ \E clusters : /\ unit = UnitsOf(given.catalog, clusters)
                            /\ \A d \in DriveIds : dest[d].cluster \in clusters
<1> DEFINE clusters == {dest[d].cluster : d \in DriveIds} \cup {DefaultCluster}
<1>1. IsCatalog(given.catalog) /\ unit = UnitsOf(given.catalog, clusters)
  BY DocumentAssumption DEF dest, unit
<1>2. \A d \in DriveIds : dest[d].cluster \in clusters
  OBVIOUS
<1>3. \A d \in DriveIds : dest[d].cluster \in Clusters
  BY PlannerAssumption DEF dest, DestinationType
<1>4. \A d \in DriveIds : dest[d].cluster \in Nat \ {0}
  BY <1>3, DocumentAssumption
<1> HIDE DEF clusters
<1> QED
  BY <1>1, <1>2, <1>4

LEMMA UnitIs ==
    ASSUME given \in Inputs, NEW u \in Units
    PROVE  LET c == given.catalog IN
           /\ \E g \in c.files : g.size > 0 /\ u = UnitOf(c, g.dir)
           /\ unit[u].bytes = SizeSum(UnitFiles(c, u))
           /\ unit[u].holders = {d \in UNION Sets(u) : \A s \in Sets(u) : d \in s}
           /\ unit[u].copies = [A \in SUBSET DriveIds |-> CopiesWith(Sets(u), A)]
           /\ unit[u].home = c.driveOf[FolderOf(c, u)]
           /\ \A d \in DriveIds : Cost(u, d) = Footprint(UnitFiles(c, u), dest[d].cluster)
<1> DEFINE c == given.catalog
<1>1. PICK clusters : /\ unit = UnitsOf(c, clusters)
                      /\ \A d \in DriveIds : dest[d].cluster \in clusters
  BY CatalogFacts
<1>2. u \in {UnitOf(c, f.dir) : f \in {g \in c.files : g.size > 0}} /\ unit[u] = UnitRecord(c, u, clusters)
  BY <1>1 DEF Units, UnitsOf
<1>3. \E g \in c.files : g.size > 0 /\ u = UnitOf(c, g.dir)
  BY <1>2
<1>4. /\ unit[u].bytes = SizeSum(UnitFiles(c, u))
      /\ unit[u].holders = {d \in UNION Sets(u) : \A s \in Sets(u) : d \in s}
      /\ unit[u].copies = [A \in SUBSET DriveIds |-> CopiesWith(Sets(u), A)]
      /\ unit[u].home = c.driveOf[FolderOf(c, u)]
  BY <1>2 DEF UnitRecord, Sets
<1>5. unit[u].cost = [b \in clusters |-> Footprint(UnitFiles(c, u), b)]
  BY <1>2 DEF UnitRecord
<1>6. \A d \in DriveIds : Cost(u, d) = Footprint(UnitFiles(c, u), dest[d].cluster)
  BY <1>1, <1>5 DEF Cost
<1> QED
  BY <1>3, <1>4, <1>6

(* A unit's folder, and what it covers, by the kind of the unit. *)
IsKey(u) == \E e \in Tree : LET c == given.catalog IN
               /\ u = UnitOf(c, e)
               /\ CollectionKey(c, e, u) \/ FolderKey(c, e, u) \/ LooseKey(c, e, u)

LEMMA UnitsAreKeys ==
    ASSUME given \in Inputs, NEW u \in Units PROVE IsKey(u)
<1> DEFINE c == given.catalog
<1>1. IsCatalog(c)
  BY CatalogFacts
<1>2. PICK g \in c.files : u = UnitOf(c, g.dir)
  BY UnitIs
<1>3. g.dir \in Tree
  BY <1>1 DEF IsCatalog
<1> QED
  BY <1>1, <1>2, <1>3, KeyIs DEF IsKey

LEMMA CoversIs ==
    ASSUME given \in Inputs, NEW u, IsKey(u), NEW d \in Tree
    PROVE  LET c == given.catalog IN
           /\ FolderOf(c, u) \in Tree
           /\ Covers(u, d) => FolderOf(c, u) \in Above(d)
           /\ u = UnitOf(c, d) => Covers(u, d)
<1> DEFINE c == given.catalog
<1>1. IsCatalog(c)
  BY CatalogFacts
<1>2. PICK e \in Tree : u = UnitOf(c, e)
  BY DEF IsKey
<1>3. FolderOf(c, u) \in Tree
  BY <1>1, <1>2, KeyFolder, ChainUp
<1>4. Covers(u, d) => FolderOf(c, u) \in Above(d)
  BY DEF Covers, Subtree, Above
<1>5. ASSUME u = UnitOf(c, d) PROVE Covers(u, d)
  <2>1. FolderOf(c, u) \in Above(d)
    BY <1>1, <1>5, KeyFolder
  <2>2. CollectionKey(c, d, u) \/ FolderKey(c, d, u) \/ LooseKey(c, d, u)
    BY <1>1, <1>5, KeyIs
  <2>3. CASE u[1] = "loose"
    <3>1. FolderOf(c, u) = d
      BY <2>2, <2>3 DEF CollectionKey, FolderKey, LooseKey, FolderOf
    <3> QED
      BY <2>3, <3>1 DEF Covers
  <2>4. CASE u[1] # "loose"
    BY <2>1, <2>4 DEF Covers, Subtree, Above
  <2> QED
    BY <2>3, <2>4
<1> QED
  BY <1>3, <1>4, <1>5

(* A folder that no rule files is covered by its own unit, and no other. *)
LEMMA UnfiledCover ==
    ASSUME given \in Inputs, NEW u, IsKey(u), NEW d \in Tree, ~Filed(given.catalog, d), Covers(u, d)
    PROVE  u = UnitOf(given.catalog, d)
<1> DEFINE c == given.catalog
           V == FolderOf(c, u)
           k == UnitOf(c, d)
<1>1. IsCatalog(c) /\ V \in Above(d)
  BY CatalogFacts, CoversIs
<1>2. FolderKey(c, d, k) \/ LooseKey(c, d, k)
  <2>1. ~CollectionKey(c, d, k)
    BY DEF CollectionKey, Filed
  <2> QED
    BY <1>1, <2>1, KeyIs
<1>3. PICK e \in Tree : u = UnitOf(c, e) /\ (CollectionKey(c, e, u) \/ FolderKey(c, e, u) \/ LooseKey(c, e, u))
  BY DEF IsKey
<1> HIDE DEF k
<1>4. CASE CollectionKey(c, e, u)
  <2>1. PICK i \in Filing(c, e) : u = <<"collection", i>>
    BY <1>4 DEF CollectionKey
  <2>2. V = c.rules[i].dir /\ i \in DOMAIN c.rules
    BY <2>1 DEF FolderOf, Filing
  <2>3. i \in Filing(c, d)
    BY <1>1, <2>2 DEF Filing, Above
  <2> QED
    BY <2>3 DEF Filed
<1>5. CASE FolderKey(c, e, u)
  <2>1. PICK a \in Whole(c, e) : u = <<"folder", a>>
    BY <1>5 DEF FolderKey
  <2>2. a \in Whole(c, d)
    <3>1. V = a
      BY <2>1 DEF FolderOf
    <3> QED
      BY <1>1, <2>1, <3>1 DEF Whole
  <2>3. FolderKey(c, d, k)
    BY <1>2, <2>2 DEF LooseKey
  <2>4. PICK b \in Whole(c, d) : k = <<"folder", b>>
    BY <2>3 DEF FolderKey
  <2>5. a = b
    BY <2>2, <2>4, OneWhole
  <2> QED
    BY <2>1, <2>4, <2>5 DEF k
<1>6. CASE LooseKey(c, e, u)
  <2>1. u = <<"loose", e>>
    BY <1>6 DEF LooseKey
  <2>2. d = e
    BY <2>1 DEF Covers, FolderOf
  <2> QED
    BY <1>3, <2>2
<1> QED
  BY <1>3, <1>4, <1>5, <1>6

LEMMA DeeperFolder ==
    ASSUME NEW a \in Tree, NEW b \in Over[a]
    PROVE  /\ Cardinality(Over[b]) \in Nat /\ Cardinality(Over[a]) \in Nat
           /\ Cardinality(Over[b]) < Cardinality(Over[a])
<1>1. b \in Tree /\ Over[b] \in SUBSET Over[a] /\ b \notin Over[b] /\ Over[a] \in SUBSET Tree /\ IsFiniteSet(Tree)
  BY TreeAssumption
<1>2. IsFiniteSet(Over[a]) /\ IsFiniteSet(Over[b])
  BY <1>1, FS_Subset
<1>3. Cardinality(Over[b]) \in Nat /\ Cardinality(Over[a]) \in Nat
  BY <1>2, FS_CardinalityType
<1>4. Cardinality(Over[b]) <= Cardinality(Over[a]) /\ (Cardinality(Over[b]) = Cardinality(Over[a]) => Over[b] = Over[a])
  BY <1>1, <1>2, FS_Subset
<1> QED
  BY <1>1, <1>3, <1>4

(* A collection's folder is deeper than that of any other unit over what   *)
(* it files.                                                               *)
LEMMA FiledDeepest ==
    ASSUME given \in Inputs, NEW d \in Tree, Filed(given.catalog, d),
           NEW v, IsKey(v), v # UnitOf(given.catalog, d), Covers(v, d)
    PROVE  LET c == given.catalog IN FolderOf(c, v) \in Over[FolderOf(c, UnitOf(c, d))]
<1> DEFINE c == given.catalog
           u == UnitOf(c, d)
           U == FolderOf(c, u)
           V == FolderOf(c, v)
<1>1. IsCatalog(c) /\ V \in Above(d) /\ U \in Above(d)
  BY CatalogFacts, CoversIs, KeyFolder
<1>2. V = U \/ V \in Over[U] \/ U \in Over[V]
  BY <1>1, ChainUp
<1>3. PICK i \in Filing(c, d) : u = <<"collection", i>> /\ \A j \in Filing(c, d) : j <= i
  <2>1. ~FolderKey(c, d, u) /\ ~LooseKey(c, d, u)
    BY DEF FolderKey, LooseKey
  <2>2. CollectionKey(c, d, u)
    BY <1>1, <2>1, KeyIs
  <2> HIDE DEF u
  <2> QED
    BY <2>2 DEF CollectionKey
<1>4. PICK e \in Tree : v = UnitOf(c, e) /\ (CollectionKey(c, e, v) \/ FolderKey(c, e, v) \/ LooseKey(c, e, v))
  BY DEF IsKey
<1>5. V \in Above(e) /\ V \in Tree /\ Above(V) \subseteq Above(e)
  BY <1>1, <1>4, KeyFolder, ChainUp
<1>6. U = c.rules[i].dir /\ i \in DOMAIN c.rules /\ i \in Int
  BY <1>1, <1>3 DEF FolderOf, Filing, IsCatalog
<1>7. ASSUME U \in Above(V) PROVE FALSE
  <2>1. i \in Filing(c, V) /\ i \in Filing(c, e)
    BY <1>5, <1>6, <1>7 DEF Filing, Above
  <2>2. CASE CollectionKey(c, e, v)
    <3>1. PICK j \in Filing(c, e) : v = <<"collection", j>> /\ \A l \in Filing(c, e) : l <= j
      BY <2>2 DEF CollectionKey
    <3>2. V = c.rules[j].dir /\ j \in DOMAIN c.rules /\ j \in Int
      BY <1>1, <3>1 DEF FolderOf, Filing, IsCatalog
    <3>3. j \in Filing(c, d)
      BY <1>1, <3>2 DEF Filing, Above
    <3>4. i = j
      BY <1>3, <1>6, <2>1, <3>1, <3>2, <3>3
    <3> QED
      BY <1>3, <3>1, <3>4
  <2>3. CASE FolderKey(c, e, v)
    <3>1. IsUnit(c, V)
      BY <2>3 DEF FolderKey, Whole, FolderOf
    <3>2. Filed(c, V)
      BY <2>1 DEF Filed
    <3> QED
      BY <3>1, <3>2 DEF IsUnit, Unfiled
  <2>4. CASE LooseKey(c, e, v)
    BY <2>1, <2>4 DEF LooseKey, Filed
  <2> QED
    BY <1>4, <2>2, <2>3, <2>4
<1> QED
  BY <1>2, <1>7 DEF Above

(* The bench's files of a unit are the planner's. *)
LEMMA MembersAreFiles ==
    ASSUME given \in Inputs, EveryFileHasUnit, NEW u \in Units
    PROVE  UnitMembers(u) = UnitFiles(given.catalog, u)
<1> DEFINE c == given.catalog
           k(f) == UnitOf(c, f.dir)
<1>1. IsCatalog(c) /\ IsKey(u) /\ \A v \in Units : IsKey(v)
  BY CatalogFacts, UnitsAreKeys
<1>2. \A f \in c.files : f.dir \in Tree
  BY <1>1 DEF IsCatalog
<1>3. ASSUME NEW f \in c.files, u = k(f) PROVE f \in UnitMembers(u)
  <2>1. Covers(u, f.dir) /\ f.dir \in Tree
    BY <1>1, <1>2, <1>3, CoversIs
  <2>2. ASSUME NEW v \in Units \ {u}, Covers(v, f.dir) PROVE Deeper(u, v)
    <3>1. IsKey(v) /\ v # UnitOf(c, f.dir)
      BY <1>1, <1>3, <2>2
    <3>2. Filed(c, f.dir)
      BY <2>1, <2>2, <3>1, UnfiledCover
    <3>3. FolderOf(c, v) \in Over[FolderOf(c, u)]
      BY <1>3, <2>1, <2>2, <3>1, <3>2, FiledDeepest
    <3>4. FolderOf(c, u) \in Tree
      BY <1>1, <2>1, CoversIs
    <3>5. Cardinality(Over[FolderOf(c, v)]) < Cardinality(Over[FolderOf(c, u)])
          /\ Cardinality(Over[FolderOf(c, v)]) \in Nat /\ Cardinality(Over[FolderOf(c, u)]) \in Nat
      BY <3>3, <3>4, DeeperFolder
    <3> QED
      BY <3>5 DEF Deeper
  <2> QED
    BY <2>1, <2>2 DEF UnitMembers
<1>4. ASSUME NEW f \in UnitMembers(u) PROVE u = k(f)
  <2>1. /\ f \in c.files /\ f.dir \in Tree /\ Covers(u, f.dir)
        /\ \A v \in Units \ {u} : Covers(v, f.dir) => Deeper(u, v)
    BY <1>2 DEF UnitMembers
  <2>2. CASE ~Filed(c, f.dir)
    BY <1>1, <2>1, <2>2, UnfiledCover
  <2>3. CASE Filed(c, f.dir)
    <3> SUFFICES ASSUME u # k(f) PROVE FALSE  OBVIOUS
    <3>1. k(f) \in Units
      BY <2>1, <2>3 DEF EveryFileHasUnit
    <3>2. Covers(k(f), f.dir) /\ IsKey(k(f)) /\ FolderOf(c, k(f)) \in Tree
      <4>1. IsKey(k(f))
        BY <1>1, <3>1
      <4> HIDE DEF k
      <4>2. k(f) = UnitOf(c, f.dir)
        BY DEF k
      <4> QED
        BY <2>1, <4>1, <4>2, CoversIs
    <3>3. Deeper(u, k(f))
      BY <2>1, <3>1, <3>2
    <3>4. FolderOf(c, u) \in Over[FolderOf(c, k(f))]
      BY <1>1, <2>1, <2>3, FiledDeepest
    <3>5. /\ Cardinality(Over[FolderOf(c, u)]) < Cardinality(Over[FolderOf(c, k(f))])
          /\ Cardinality(Over[FolderOf(c, u)]) \in Nat /\ Cardinality(Over[FolderOf(c, k(f))]) \in Nat
      BY <3>2, <3>4, DeeperFolder
    <3> QED
      BY <3>3, <3>5 DEF Deeper
  <2> QED
    BY <2>2, <2>3
<1>5. \A f \in UnitMembers(u) : f \in c.files
  BY DEF UnitMembers
<1> QED
  BY <1>3, <1>4, <1>5 DEF UnitFiles

(* What is known of a unit's files. *)
LEMMA FilesOf ==
    ASSUME given \in Inputs, NEW u \in Units
    PROVE  LET c == given.catalog IN
           /\ IsFiniteSet(UnitFiles(c, u)) /\ UnitFiles(c, u) # {}
           /\ \A f \in UnitFiles(c, u) : f \in c.files /\ f.size \in Nat /\ f.dir \in Tree
           /\ \A f \in UnitFiles(c, u) : Held(c, f) \in SUBSET DriveIds
           /\ \A f \in UnitFiles(c, u) : unit[u].home # 0 => unit[u].home \in Held(c, f)
<1> DEFINE c == given.catalog
<1>1. IsCatalog(c)
  BY CatalogFacts
<1>2. UnitFiles(c, u) \in SUBSET c.files /\ IsFiniteSet(UnitFiles(c, u))
  BY <1>1, FS_Subset DEF IsCatalog, UnitFiles
<1>3. UnitFiles(c, u) # {}
  BY UnitIs DEF UnitFiles
<1>4. \A f \in UnitFiles(c, u) : f \in c.files /\ f.size \in Nat /\ f.dir \in Tree
  BY <1>1, <1>2 DEF IsCatalog
<1>5. \A g \in c.files : c.driveOf[g.dir] \in DriveIds \cup {NoDrive}
  BY <1>1 DEF IsCatalog
<1>6. ASSUME NEW f \in UnitFiles(c, u) PROVE Held(c, f) \in SUBSET DriveIds
  BY <1>4, <1>5 DEF Held
<1>7. ASSUME NEW f \in UnitFiles(c, u), unit[u].home # 0 PROVE unit[u].home \in Held(c, f)
  <2>1. f.dir \in Tree /\ u = UnitOf(c, f.dir)
    BY <1>4 DEF UnitFiles
  <2>2. FolderOf(c, u) \in Above(f.dir)
    BY <1>1, <2>1, KeyFolder
  <2>3. c.driveOf[FolderOf(c, u)] = c.driveOf[f.dir]
    BY <1>1, <2>1, <2>2 DEF IsCatalog, Above
  <2>4. unit[u].home = c.driveOf[f.dir]
    BY <2>3, UnitIs
  <2> QED
    BY <1>7, <2>4 DEF Held, NoDrive
<1> QED
  BY <1>2, <1>3, <1>4, <1>6, <1>7

(* A drive holds a unit when it holds every one of its files. *)
LEMMA HoldersAre ==
    ASSUME given \in Inputs, NEW u \in Units
    PROVE  LET c == given.catalog IN
           /\ unit[u].holders = {d \in DriveIds : \A f \in UnitFiles(c, u) : d \in Held(c, f)}
           /\ unit[u].home # 0 => unit[u].home \in unit[u].holders
           /\ 0 \notin DriveIds
<1> DEFINE c == given.catalog
<1>1. unit[u].holders = {d \in UNION Sets(u) : \A s \in Sets(u) : d \in s}
  BY UnitIs
<1>2. /\ UnitFiles(c, u) # {} /\ \A f \in UnitFiles(c, u) : Held(c, f) \in SUBSET DriveIds
      /\ \A f \in UnitFiles(c, u) : unit[u].home # 0 => unit[u].home \in Held(c, f)
  BY FilesOf
<1>3. \A d : (\A s \in Sets(u) : d \in s) <=> (\A f \in UnitFiles(c, u) : d \in Held(c, f))
  BY DEF Sets
<1>4. \A d : (\A f \in UnitFiles(c, u) : d \in Held(c, f)) => d \in UNION Sets(u) /\ d \in DriveIds
  BY <1>2 DEF Sets
<1>5. unit[u].holders = {d \in DriveIds : \A f \in UnitFiles(c, u) : d \in Held(c, f)}
  BY <1>1, <1>3, <1>4
<1>6. unit[u].home # 0 => unit[u].home \in unit[u].holders
  BY <1>2, <1>4, <1>5
<1>7. 0 \notin DriveIds
  BY PlannerAssumption
<1> QED
  BY <1>5, <1>6, <1>7

(* A drive more is a copy more at most, of every file and so of the unit.  *)
FileCopies(s, A) == Cardinality(s \cup A) + (IF s = {} THEN 1 ELSE 0)

LEMMA OneFileCopies ==
    ASSUME NEW s \in SUBSET DriveIds, NEW A \in SUBSET DriveIds
    PROVE  /\ FileCopies(s, {}) \in Nat /\ FileCopies(s, A) \in Nat /\ Cardinality(A) \in Nat
           /\ FileCopies(s, {}) <= FileCopies(s, A)
           /\ FileCopies(s, A) <= FileCopies(s, {}) + Cardinality(A)
<1>1. IsFiniteSet(DriveIds)
  BY PlannerAssumption
<1>2. IsFiniteSet(s) /\ IsFiniteSet(A) /\ IsFiniteSet(s \cup A) /\ s \cup {} = s /\ IsFiniteSet(s \cap A)
  <2>1. s \cup A \in SUBSET DriveIds /\ s \cap A \in SUBSET DriveIds
    OBVIOUS
  <2> QED
    BY <1>1, <2>1, FS_Subset
<1>3. /\ Cardinality(s) \in Nat /\ Cardinality(A) \in Nat /\ Cardinality(s \cup A) \in Nat
      /\ Cardinality(s \cap A) \in Nat
  BY <1>2, FS_CardinalityType
<1>4. Cardinality(s) <= Cardinality(s \cup A)
  BY <1>2, FS_Subset
<1>5. Cardinality(s \cup A) = Cardinality(s) + Cardinality(A) - Cardinality(s \cap A)
  BY <1>2, FS_Union
<1> QED
  BY <1>2, <1>3, <1>4, <1>5 DEF FileCopies

LEMMA FewestIs ==
    ASSUME NEW sets \in SUBSET SUBSET DriveIds, sets # {}, NEW A \in SUBSET DriveIds
    PROVE  /\ \E s \in sets : CopiesWith(sets, A) = FileCopies(s, A)
           /\ \A s \in sets : CopiesWith(sets, A) <= FileCopies(s, A)
<1> DEFINE S == {FileCopies(s, A) : s \in sets}
<1>1. S \in SUBSET Nat /\ S # {}
  BY OneFileCopies
<1>2. Min(S) \in S /\ \A x \in S : Min(S) <= x
  <2> HIDE DEF S
  <2> QED
    BY <1>1, LeastOf
<1>3. CopiesWith(sets, A) = Min(S)
  BY DEF CopiesWith, FileCopies
<1> QED
  BY <1>2, <1>3

LEMMA CopiesGrow ==
    ASSUME given \in Inputs, NEW u \in Units, NEW A \in SUBSET DriveIds
    PROVE  /\ Copies(u, {}) \in Nat /\ Copies(u, A) \in Nat /\ Cardinality(A) \in Nat
           /\ Copies(u, {}) <= Copies(u, A)
           /\ Copies(u, A) <= Copies(u, {}) + Cardinality(A)
<1> DEFINE sets == Sets(u)
<1>1. sets \in SUBSET SUBSET DriveIds /\ sets # {}
  BY FilesOf DEF Sets
<1>2. {} \in SUBSET DriveIds /\ Copies(u, {}) = CopiesWith(sets, {}) /\ Copies(u, A) = CopiesWith(sets, A)
  <2>1. unit[u].copies = [B \in SUBSET DriveIds |-> CopiesWith(Sets(u), B)]
    BY UnitIs
  <2> QED
    BY <2>1 DEF Copies
<1> HIDE DEF sets
<1>3. PICK s \in sets : CopiesWith(sets, {}) = FileCopies(s, {})
  BY <1>1, <1>2, FewestIs
<1>4. PICK t \in sets : CopiesWith(sets, A) = FileCopies(t, A)
  BY <1>1, FewestIs
<1>5. CopiesWith(sets, {}) <= FileCopies(t, {}) /\ CopiesWith(sets, A) <= FileCopies(s, A)
  BY <1>1, <1>2, FewestIs
<1>6. /\ FileCopies(s, {}) \in Nat /\ FileCopies(s, A) \in Nat /\ Cardinality(A) \in Nat
      /\ FileCopies(s, A) <= FileCopies(s, {}) + Cardinality(A)
  BY <1>1, OneFileCopies
<1>7. /\ FileCopies(t, {}) \in Nat /\ FileCopies(t, A) \in Nat
      /\ FileCopies(t, {}) <= FileCopies(t, A)
  BY <1>1, OneFileCopies
<1> QED
  BY <1>2, <1>3, <1>4, <1>5, <1>6, <1>7

-----------------------------------------------------------------------------
(* As long as the greedy planner decides, every copy it added is one more  *)
(* of its unit; and what a unit is short of is what it lacks, and no more. *)
Gains == phase \in {"place", "swap", "solved"} =>
    \A u \in Units : Copies(u, added[u]) = Copies(u, {}) + Cardinality(added[u])

LeftExact == \A u \in Units :
    (phase = "place" /\ u \in left \cup {current}) \/ short[u] = Missing(u, added[u])

GainInv == PlannerInv /\ Gains /\ LeftExact

LEMMA GainBegins == PlannerInit => GainInv
<1> SUFFICES ASSUME PlannerInit PROVE GainInv  OBVIOUS
<1>1. PlannerInv
  BY InitHolds
<1>2. /\ given \in Inputs /\ phase = "place" /\ left = Units
      /\ \A u \in Units : added[u] = {}
  BY DEF PlannerInit
<1>3. Cardinality({}) = 0
  BY FS_EmptySet
<1>4. \A u \in Units : Copies(u, {}) \in Nat
  <2>1. {} \in SUBSET DriveIds
    OBVIOUS
  <2> QED
    BY <1>2, <2>1, CopiesGrow
<1> QED
  BY <1>1, <1>2, <1>3, <1>4 DEF GainInv, Gains, LeftExact

LEMMA GainSame ==
    ASSUME GainInv, PlannerInv', UNCHANGED <<given, added, short>>,
           phase' \in {"place", "swap", "solved"} => phase \in {"place", "swap", "solved"},
           \A u \in Units : phase = "place" /\ u \in left \cup {current} =>
                              phase' = "place" /\ u \in (left \cup {current})'
    PROVE  GainInv'
<1>1. Units' = Units /\ \A u \in Units : \A A : Missing(u, A)' = Missing(u, A)
  BY DEF Units, unit, Missing, Copies
<1>2. Gains'
  BY DEF GainInv, Gains, Units, unit, Copies
<1>3. LeftExact'
  BY DEF GainInv, LeftExact, Units, unit, Missing, Copies
<1> QED
  BY <1>2, <1>3 DEF GainInv

LEMMA AddCopyGains == ASSUME GainInv, NEW d \in DriveIds, AddCopy(d) PROVE GainInv'
<1> DEFINE B == added[current] \cup {d}
<1>1. PlannerInv /\ PlannerInv'
  BY AddCopyHolds DEF GainInv
<1>2. /\ phase = "place" /\ phase' = phase /\ current # NoUnit /\ current' = current /\ left' = left
      /\ given' = given /\ short' = short
      /\ added' = [added EXCEPT ![current] = B]
      /\ d \notin Holders(current) /\ Copies(current, B) > Copies(current, added[current])
  BY DEF AddCopy, Options, Admissible
<1>3. /\ current \in Units /\ added \in [Units -> SUBSET DriveIds] /\ given \in Inputs
      /\ B \in SUBSET DriveIds
  BY <1>1, <1>2 DEF PlannerInv, Typed
<1>4. /\ Cardinality(B) = Cardinality(added[current]) + 1 /\ Cardinality(added[current]) \in Nat
  <2>1. IsFiniteSet(added[current]) /\ d \notin added[current]
    BY <1>2, <1>3, PlannerAssumption, FS_Subset DEF Holders
  <2> QED
    BY <2>1, FS_AddElement, FS_CardinalityType
<1>5. /\ Copies(current, {}) \in Nat /\ Copies(current, B) \in Nat
      /\ Copies(current, B) <= Copies(current, {}) + Cardinality(B)
  BY <1>3, CopiesGrow
<1>6. Copies(current, added[current]) = Copies(current, {}) + Cardinality(added[current])
  BY <1>2, <1>3 DEF GainInv, Gains
<1>7. Copies(current, B) = Copies(current, {}) + Cardinality(B)
  BY <1>2, <1>4, <1>5, <1>6
<1> HIDE DEF B
<1>8. Gains'
  <2> SUFFICES ASSUME NEW u \in Units PROVE Copies(u, added'[u]) = Copies(u, {}) + Cardinality(added'[u])
    BY <1>2 DEF Gains, Units, unit, Copies
  <2>1. CASE u = current
    BY <1>2, <1>3, <1>7, <2>1
  <2>2. CASE u # current
    BY <1>2, <1>3, <2>2 DEF GainInv, Gains
  <2> QED
    BY <2>1, <2>2
<1>9. LeftExact'
  <2> SUFFICES ASSUME NEW u \in Units
               PROVE  (phase = "place" /\ u \in left \cup {current}) \/ short[u] = Missing(u, added'[u])
    BY <1>2 DEF LeftExact, Units, unit, Missing, Copies
  <2> QED
    BY <1>2, <1>3 DEF GainInv, LeftExact
<1> QED
  BY <1>1, <1>8, <1>9 DEF GainInv

LEMMA LeaveUnitGains == ASSUME GainInv, LeaveUnit PROVE GainInv'
<1>1. PlannerInv /\ PlannerInv'
  BY LeaveUnitHolds DEF GainInv
<1>2. /\ phase = "place" /\ phase' = phase /\ current # NoUnit /\ current' = NoUnit /\ left' = left
      /\ given' = given /\ added' = added
      /\ short' = [short EXCEPT ![current] = Missing(current, added[current])]
  BY DEF LeaveUnit
<1>3. current \in Units /\ short \in [Units -> Nat]
  BY <1>1, <1>2 DEF PlannerInv, Typed
<1>4. Gains'
  BY <1>2 DEF GainInv, Gains, Units, unit, Copies
<1>5. LeftExact'
  <2> SUFFICES ASSUME NEW u \in Units
               PROVE  (phase = "place" /\ u \in left \cup {NoUnit}) \/ short'[u] = Missing(u, added[u])
    BY <1>2 DEF LeftExact, Units, unit, Missing, Copies
  <2> QED
    BY <1>2, <1>3 DEF GainInv, LeftExact
<1> QED
  BY <1>1, <1>4, <1>5 DEF GainInv

LEMMA MoveGains == ASSUME GainInv, NEW d \in DriveIds, Move(d) PROVE GainInv'
<1> DEFINE w == plan[at].unit
           e == plan[at].drive
           kept == added[w] \ {e}
           B == kept \cup {d}
<1>1. PlannerInv /\ PlannerInv'
  BY MoveHolds DEF GainInv
<1>2. /\ phase = "swap" /\ phase' = phase /\ at \in DOMAIN plan
      /\ UNCHANGED <<given, left, current, short>>
      /\ added' = [added EXCEPT ![w] = B]
  BY <1>1 DEF Move, Copy, Rest, PlannerInv, Typed
<1>3. d \notin added[w] /\ Copies(w, B) >= Copies(w, added[w])
  BY DEF Move, Improves, Candidates, Admissible, Others, Rest, Copy
<1>4. w \in Units /\ e \in added[w]
  <2>1. w \in Units
    BY <1>1, <1>2, PlanFacts DEF PlannerInv
  <2>2. added[w] = {plan[i].drive : i \in {k \in DOMAIN plan : plan[k].unit = w}}
    BY <1>1, <2>1 DEF PlannerInv, PlanIsWhatWasAdded
  <2> QED
    BY <1>2, <2>1, <2>2
<1>5. added \in [Units -> SUBSET DriveIds] /\ given \in Inputs /\ B \in SUBSET DriveIds
  BY <1>1, <1>4 DEF PlannerInv, Typed
<1> HIDE DEF w, e
<1>6. Cardinality(B) = Cardinality(added[w])
  <2>1. IsFiniteSet(added[w]) /\ IsFiniteSet(kept)
    BY <1>4, <1>5, PlannerAssumption, FS_Subset
  <2>2. Cardinality(kept) = Cardinality(added[w]) - 1 /\ Cardinality(added[w]) \in Nat
    BY <1>4, <2>1, FS_RemoveElement, FS_CardinalityType
  <2>3. Cardinality(B) = Cardinality(kept) + 1
    BY <1>3, <2>1, FS_AddElement
  <2> QED
    BY <2>2, <2>3
<1> HIDE DEF kept, B
<1>7. /\ Copies(w, {}) \in Nat /\ Copies(w, B) \in Nat /\ Cardinality(B) \in Nat
      /\ Copies(w, B) <= Copies(w, {}) + Cardinality(B)
  BY <1>4, <1>5, CopiesGrow
<1>8. Copies(w, added[w]) = Copies(w, {}) + Cardinality(added[w])
  BY <1>2, <1>4 DEF GainInv, Gains
<1>9. Copies(w, B) = Copies(w, {}) + Cardinality(B) /\ Copies(w, B) = Copies(w, added[w])
  BY <1>3, <1>6, <1>7, <1>8
<1>10. \A u \in Units : added'[u] = IF u = w THEN B ELSE added[u]
  BY <1>2, <1>5
<1>11. \A u \in Units : Missing(u, added'[u]) = Missing(u, added[u])
  BY <1>9, <1>10 DEF Missing
<1>12. Gains'
  <2> SUFFICES ASSUME NEW u \in Units PROVE Copies(u, added'[u]) = Copies(u, {}) + Cardinality(added'[u])
    BY <1>2 DEF Gains, Units, unit, Copies
  <2> QED
    BY <1>2, <1>9, <1>10 DEF GainInv, Gains
<1>13. LeftExact'
  <2> SUFFICES ASSUME NEW u \in Units PROVE short[u] = Missing(u, added'[u])
    BY <1>2 DEF LeftExact, Units, unit, Missing, Copies
  <2> QED
    BY <1>2, <1>11 DEF GainInv, LeftExact
<1> QED
  BY <1>1, <1>12, <1>13 DEF GainInv

LEMMA TakeOtherPlanGains ==
    ASSUME GainInv, NEW X \in SUBSET Openings, TakeOtherPlan(X) PROVE GainInv'
<1>1. PlannerInv'
  BY TakeOtherPlanHolds DEF GainInv
<1>2. /\ phase' = "chosen" /\ given' = given
      /\ added' = [u \in Units |-> DrivesFor(X, u)]
      /\ short' = [u \in Units |-> Missing(u, [v \in Units |-> DrivesFor(X, v)][u])]
  BY DEF TakeOtherPlan
<1>3. \A u \in Units : short'[u] = Missing(u, added'[u])
  BY <1>2
<1>4. Gains'
  BY <1>2 DEF Gains
<1>5. LeftExact'
  <2> SUFFICES ASSUME NEW u \in Units PROVE short'[u] = Missing(u, added'[u])
    BY <1>2 DEF LeftExact, Units, unit, Missing, Copies
  <2> QED
    BY <1>3
<1> QED
  BY <1>1, <1>4, <1>5 DEF GainInv

LEMMA GainHolds == ASSUME GainInv, [PlannerNext]_plannerVars PROVE GainInv'
<1>1. PlannerInv /\ PlannerInv' /\ current \in Units \cup {NoUnit} /\ given \in Inputs
  BY StepHolds DEF GainInv, PlannerInv, Typed
<1>2. \A u \in Units : u # NoUnit
  BY <1>1, GivenFacts
<1>3. ASSUME NEW u \in UnitKeys, TakeUnit(u) PROVE GainInv'
  <2>1. /\ phase' = phase /\ current = NoUnit /\ left' = left \ {u} /\ current' = u
        /\ UNCHANGED <<given, added, short>>
    BY <1>3 DEF TakeUnit
  <2>2. \A v \in Units : v \in left \cup {current} => v \in (left \cup {current})'
    BY <1>2, <2>1
  <2> QED
    BY <1>1, <2>1, <2>2, GainSame
<1>4. ASSUME BeginSwaps PROVE GainInv'
  <2>1. /\ phase = "place" /\ phase' = "swap" /\ current = NoUnit /\ left = {}
        /\ UNCHANGED <<given, added, short>>
    BY <1>4 DEF BeginSwaps
  <2>2. \A v \in Units : ~(v \in left \cup {current})
    BY <1>2, <2>1
  <2> QED
    BY <1>1, <2>1, <2>2, GainSame
<1>5. ASSUME Stay \/ EndSwaps \/ MakeDocument PROVE GainInv'
  <2>1. phase \in {"swap", "solved", "chosen"} /\ UNCHANGED <<given, added, short>>
        /\ (phase' \in {"place", "swap", "solved"} => phase \in {"place", "swap", "solved"})
        /\ phase # "place"
    BY <1>5 DEF Stay, EndSwaps, MakeDocument
  <2> QED
    BY <1>1, <2>1, GainSame
<1>6. ASSUME UNCHANGED plannerVars PROVE GainInv'
  <2>1. UNCHANGED <<given, added, short, phase, left, current>>
    BY <1>6 DEF plannerVars
  <2> QED
    BY <1>1, <2>1, GainSame
<1> QED
  BY <1>3, <1>4, <1>5, <1>6, AddCopyGains, LeaveUnitGains, MoveGains, TakeOtherPlanGains DEF PlannerNext

-----------------------------------------------------------------------------
(* What the bench finds in a document. *)
BenchInv == BudgetInv /\ GainInv /\ DocInv

LEMMA AlwaysBench == PlannerSpec => []BenchInv
<1>1. PlannerInit => BenchInv
  BY BudgetBegins, GainBegins DEF BenchInv, DocInv, PlannerInit
<1>2. BenchInv /\ [PlannerNext]_plannerVars => BenchInv'
  BY BudgetHolds, GainHolds, DocumentWritten DEF BenchInv
<1> QED
  BY <1>1, <1>2, PTL DEF PlannerSpec

Judged(p, r) == BenchInv /\ Made /\ Reordered(p, r)

LEMMA JudgedIs == ASSUME BenchInv, Made PROVE \E p, r : Judged(p, r)
<1>1. Typed /\ steps = Document
  BY DEF BenchInv, BudgetInv, PlannerInv, DocInv, Made
<1> QED
  BY <1>1, DocumentIs DEF Judged

LEMMA JudgedTyped ==
    ASSUME NEW p, NEW r, Judged(p, r)
    PROVE  /\ Typed /\ given \in Inputs /\ PlanIsWhatWasAdded /\ BudgetInv
           /\ \A u \in Units : added[u] \in SUBSET DriveIds /\ short[u] = Missing(u, added[u]) /\ short[u] \in Nat
BY DEF Judged, BenchInv, BudgetInv, GainInv, LeftExact, PlannerInv, Typed, Made

LEMMA StepFacts ==
    ASSUME NEW p, NEW r, Judged(p, r), NEW i \in DOMAIN steps
    PROVE  /\ i \in DOMAIN plan /\ p[i] \in DOMAIN plan
           /\ steps[i].unit = plan[p[i]].unit /\ steps[i].drive = plan[p[i]].drive
           /\ steps[i].cost = plan[p[i]].cost /\ steps[i].delta = RiskDelta(p[i])
           /\ steps[i].uses = Uses(p[i]) /\ steps[i].round = r[i]
           /\ steps[i].unit \in Units /\ steps[i].drive \in DriveIds
           /\ steps[i].drive \notin unit[steps[i].unit].holders
           /\ steps[i].cost = Cost(steps[i].unit, steps[i].drive)
<1>1. i \in DOMAIN plan /\ p[i] \in DOMAIN plan /\ steps[i] = CopyStep(p[i], r[i])
  BY DEF Judged, Reordered
<1>2. /\ steps[i].unit = plan[p[i]].unit /\ steps[i].drive = plan[p[i]].drive
      /\ steps[i].cost = plan[p[i]].cost /\ steps[i].delta = RiskDelta(p[i])
      /\ steps[i].uses = Uses(p[i]) /\ steps[i].round = r[i]
  BY <1>1 DEF CopyStep
<1>3. Typed /\ PlanIsWhatWasAdded /\ BudgetInv
  BY JudgedTyped
<1>4. plan[p[i]].unit \in Units /\ plan[p[i]].drive \in DriveIds
  BY <1>1, <1>3, PlanFacts
<1>5. plan[p[i]].drive \in added[plan[p[i]].unit]
  BY <1>1, <1>3, <1>4 DEF PlanIsWhatWasAdded
<1>6. plan[p[i]].drive \notin unit[plan[p[i]].unit].holders
  BY <1>3, <1>4, <1>5 DEF PlanIsWhatWasAdded
<1>7. plan[p[i]].cost = Cost(plan[p[i]].unit, plan[p[i]].drive)
  BY <1>1, <1>3 DEF BudgetInv, Priced
<1> QED
  BY <1>1, <1>2, <1>4, <1>6, <1>7

LEMMA StepsAreAdded ==
    ASSUME NEW p, NEW r, Judged(p, r), NEW u \in Units
    PROVE  AddedSteps(u) = added[u]
<1>1. added[u] = {plan[i].drive : i \in {k \in DOMAIN plan : plan[k].unit = u}}
  BY JudgedTyped DEF PlanIsWhatWasAdded
<1>2. ASSUME NEW i \in DOMAIN steps, steps[i].unit = u PROVE steps[i].drive \in added[u]
  BY <1>1, <1>2, StepFacts
<1>3. ASSUME NEW k \in DOMAIN plan, plan[k].unit = u PROVE plan[k].drive \in AddedSteps(u)
  <2>1. PICK i \in DOMAIN plan : p[i] = k
    BY DEF Judged, Reordered
  <2>2. i \in DOMAIN steps
    BY <2>1 DEF Judged, Reordered
  <2> QED
    BY <1>3, <2>1, <2>2, StepFacts DEF AddedSteps
<1> QED
  BY <1>1, <1>2, <1>3 DEF AddedSteps

(* Its rounds come out the same from the steps. *)
LEMMA JudgedAgrees == ASSUME NEW p, NEW r, Judged(p, r) PROVE DocumentAgrees
<1> DEFINE n == Len(plan)
           v == [i \in DOMAIN plan |-> Uses(p[i])]
<1>1. Typed /\ PlanIsWhatWasAdded /\ n \in Nat /\ DOMAIN plan = 1 .. n /\ DOMAIN steps = 1 .. n
  <2>1. Typed /\ PlanIsWhatWasAdded
    BY JudgedTyped
  <2> QED
    BY <2>1, PlanFacts DEF Judged, Reordered
<1>2. FirstFit(r, v) /\ DOMAIN v = 1 .. n
  BY <1>1 DEF Judged, Reordered
<1>3. [i \in DOMAIN steps |-> steps[i].uses] = v
  BY <1>1, StepFacts
<1>4. r = [i \in DOMAIN steps |-> steps[i].round]
  <2>1. \A i \in 1 .. n : steps[i].round = r[i]
    BY <1>1, StepFacts
  <2>2. DOMAIN r = 1 .. n /\ r = [i \in 1 .. n |-> r[i]]
    BY <1>2 DEF FirstFit
  <2> HIDE DEF n, v
  <2> QED
    BY <1>1, <2>1, <2>2
<1> HIDE DEF n, v
<1>5. Rounds(v) = r
  <2>1. FirstFit(Rounds(v), v)
    BY <1>1, <1>2, RoundsFit
  <2> QED
    BY <1>1, <1>2, <2>1, OneFit
<1>6. \A i, j \in DOMAIN steps : i < j /\ r[i] = r[j] => v[i] \cap v[j] = {}
  <2> SUFFICES ASSUME NEW i \in 1 .. n, NEW j \in 1 .. n, i < j, r[i] = r[j] PROVE v[i] \cap v[j] = {}
    BY <1>1
  <2>1. Free(r, v, j, r[j])
    BY <1>1, <1>2, FitSays
  <2>2. i \in 1 .. j - 1
    BY <1>1
  <2> QED
    BY <2>1, <2>2 DEF Free
<1>7. \A i, j \in DOMAIN steps : i # j /\ r[i] = r[j] => v[i] \cap v[j] = {}
  <2> SUFFICES ASSUME NEW i \in 1 .. n, NEW j \in 1 .. n, i # j, r[i] = r[j] PROVE v[i] \cap v[j] = {}
    BY <1>1
  <2>1. i < j \/ j < i
    BY <1>1
  <2> QED
    BY <1>1, <1>6, <2>1
<1>8. \A i \in DOMAIN steps : steps[i].round = r[i] /\ steps[i].uses = v[i]
  BY StepFacts DEF v
<1>9. ExpectedLoss(added) =
        ExpectedLoss([u \in Units |-> {}]) + SumFunction([i \in DOMAIN steps |-> steps[i].delta])
  BY <1>1, StepsSum DEF Judged
<1> QED
  BY <1>3, <1>4, <1>5, <1>7, <1>8, <1>9 DEF DocumentAgrees

LEMMA PositivePart == ASSUME NEW x \in Int PROVE Max({0, x}) = IF x > 0 THEN x ELSE 0
<1> DEFINE m == IF x > 0 THEN x ELSE 0
<1>1. m \in {0, x} /\ \A y \in {0, x} : m >= y
  OBVIOUS
<1>2. Max({0, x}) \in {0, x} /\ \A y \in {0, x} : Max({0, x}) >= y
  BY <1>1 DEF Max
<1> QED
  BY <1>1, <1>2

(* What the bench finds missing is what the planner does. *)
LEMMA DeficitIs ==
    ASSUME NEW p, NEW r, Judged(p, r), EveryFileHasUnit, NEW u \in Units
    PROVE  Deficit(u) = Missing(u, added[u])
<1> DEFINE F == UnitFiles(given.catalog, u)
           A == added[u]
           After(f) == Cardinality(ItemDevices(f) \cup AddedSteps(u)) + (IF ItemDevices(f) = {} THEN 1 ELSE 0)
<1>1. given \in Inputs /\ A \in SUBSET DriveIds
  BY JudgedTyped
<1>2. UnitMembers(u) = F /\ F # {} /\ AddedSteps(u) = A
  BY <1>1, MembersAreFiles, FilesOf, StepsAreAdded
<1>3. {After(f) : f \in F} = {FileCopies(s, A) : s \in Sets(u)}
  <2>1. \A f \in F : After(f) = FileCopies(Held(given.catalog, f), A)
    BY <1>2 DEF FileCopies, ItemDevices
  <2> HIDE DEF After
  <2> QED
    BY <2>1 DEF Sets
<1>4. Min({FileCopies(s, A) : s \in Sets(u)}) = Copies(u, A)
  <2>1. unit[u].copies = [B \in SUBSET DriveIds |-> CopiesWith(Sets(u), B)]
    BY <1>1, UnitIs
  <2> HIDE DEF A
  <2>2. Copies(u, A) = CopiesWith(Sets(u), A)
    BY <1>1, <2>1 DEF Copies
  <2> QED
    BY <2>2 DEF CopiesWith, FileCopies
<1>5. Copies(u, A) \in Nat /\ unit[u].target \in Nat
  BY <1>1, GivenFacts
<1>6. Deficit(u) = Max({0, unit[u].target - Copies(u, A)})
  <2>1. Deficit(u) = Max({0, unit[u].target - Min({After(f) : f \in F})})
    BY <1>2 DEF Deficit
  <2> HIDE DEF After, A, F
  <2> QED
    BY <1>3, <1>4, <2>1
<1>7. Max({0, unit[u].target - Copies(u, A)}) = IF unit[u].target - Copies(u, A) > 0 THEN unit[u].target - Copies(u, A) ELSE 0
  BY <1>5, PositivePart
<1> HIDE DEF A
<1>8. Deficit(u) = Missing(u, A)
  BY <1>5, <1>6, <1>7 DEF Missing
<1> QED
  BY <1>8 DEF A

LEMMA JudgedAdds == ASSUME NEW p, NEW r, Judged(p, r) PROVE OnlyAdds
<1> SUFFICES ASSUME NEW i \in DOMAIN steps
             PROVE  steps[i].unit \in Units /\ steps[i].drive # unit[steps[i].unit].home
  BY DEF OnlyAdds
<1>1. /\ steps[i].unit \in Units /\ steps[i].drive \in DriveIds
      /\ steps[i].drive \notin unit[steps[i].unit].holders
  BY StepFacts
<1>2. given \in Inputs
  BY JudgedTyped
<1> QED
  BY <1>1, <1>2, HoldersAre

(* The clusters that some files of a unit take are no more than it takes.  *)
LEMMA FootprintPart ==
    ASSUME given \in Inputs, NEW u \in Units, NEW d \in DriveIds,
           NEW T \in SUBSET UnitFiles(given.catalog, u)
    PROVE  /\ Footprint(T, dest[d].cluster) \in Nat
           /\ Footprint(T, dest[d].cluster) <= Cost(u, d)
<1> DEFINE F == UnitFiles(given.catalog, u)
           b == dest[d].cluster
           f == [x \in F |-> ((x.size + b - 1) \div b) * b]
           g == [x \in T |-> ((x.size + b - 1) \div b) * b]
<1>1. b \in Nat \ {0} /\ IsFiniteSet(F) /\ \A x \in F : x.size \in Nat
  BY CatalogFacts, FilesOf
<1>2. \A x \in F : ((x.size + b - 1) \div b) * b \in Nat
  <2> SUFFICES ASSUME NEW x \in F PROVE ((x.size + b - 1) \div b) * b \in Nat  OBVIOUS
  <2>1. x.size + b - 1 \in Nat
    BY <1>1
  <2> HIDE DEF b
  <2>2. (x.size + b - 1) \div b \in Nat
    BY <1>1, <2>1
  <2> QED
    BY <1>1, <2>2
<1>3. \A x \in F : f[x] \in Nat
  BY <1>2
<1>4. \A x \in T : g[x] = f[x]
  OBVIOUS
<1>5. Footprint(F, b) = Total(f, F) /\ Footprint(T, b) = Total(g, T)
  BY SumIsTotal DEF Footprint
<1>6. Cost(u, d) = Footprint(F, b)
  BY UnitIs
<1>7. IsFiniteSet(T)
  BY <1>1, FS_Subset
<1> HIDE DEF F, b, f, g
<1>8. Total(g, T) = Total(f, T)
  BY <1>4, <1>7, TotalSame
<1>9. T \in SUBSET F
  BY DEF F
<1>10. Total(f, T) <= Total(f, F) /\ Total(f, T) \in Nat
  <2>1. Total(f, T) <= Total(f, F)
    BY <1>1, <1>3, <1>9, TotalPart
  <2>2. \A x \in T : f[x] \in Nat
    BY <1>3, <1>9
  <2> QED
    BY <1>7, <2>1, <2>2, TotalNat
<1>11. Footprint(T, b) \in Nat /\ Footprint(T, b) <= Cost(u, d)
  BY <1>5, <1>6, <1>8, <1>10
<1> QED
  BY <1>11 DEF b

LEMMA JudgedRoom == ASSUME NEW p, NEW r, Judged(p, r), EveryFileHasUnit PROVE RoomIsKept
<1>1. given \in Inputs /\ BudgetInv /\ Typed
  BY JudgedTyped
<1>2. ASSUME NEW u \in Units, NEW d \in DriveIds
      PROVE  IndependentCost(u, d) \in Nat /\ IndependentCost(u, d) <= Cost(u, d)
  <2>1. {f \in UnitMembers(u) : f.size > 0} \in SUBSET UnitFiles(given.catalog, u)
    BY <1>1, MembersAreFiles
  <2> QED
    BY <1>1, <2>1, FootprintPart DEF IndependentCost
<1>3. \A i \in DOMAIN steps : steps[i].cost >= IndependentCost(steps[i].unit, steps[i].drive)
  <2> SUFFICES ASSUME NEW i \in DOMAIN steps
               PROVE  steps[i].cost >= IndependentCost(steps[i].unit, steps[i].drive)
    OBVIOUS
  <2>1. steps[i].unit \in Units /\ steps[i].drive \in DriveIds /\ steps[i].cost = Cost(steps[i].unit, steps[i].drive)
    BY StepFacts
  <2>2. Cost(steps[i].unit, steps[i].drive) \in Nat
    BY <1>1, <2>1, GivenFacts
  <2> QED
    BY <1>2, <2>1, <2>2
<1>4. ASSUME NEW d \in DriveIds
      PROVE  SumFunction([i \in {k \in DOMAIN steps : steps[k].drive = d} |-> IndependentCost(steps[i].unit, d)])
               <= dest[d].room
  <2> DEFINE I == {k \in DOMAIN steps : steps[k].drive = d}
             P == {k \in DOMAIN plan : plan[k].drive = d}
             f == [i \in I |-> IndependentCost(steps[i].unit, d)]
             h == [k \in P |-> IndependentCost(plan[k].unit, d)]
             g == [k \in P |-> Cost(plan[k].unit, d)]
  <2>1. /\ \A k \in P : plan[k].unit \in Units
        /\ \A k \in P : h[k] \in Int /\ g[k] \in Int /\ h[k] <= g[k]
    <3>1. \A k \in P : plan[k].unit \in Units
      BY <1>1, PlanFacts
    <3>2. \A k \in P : Cost(plan[k].unit, d) \in Nat
      BY <1>1, <3>1, GivenFacts
    <3> QED
      BY <1>2, <3>1, <3>2
  <2>2. IsFiniteSet(P) /\ IsFiniteSet(DOMAIN steps) /\ IsFiniteSet(I)
    <3>1. IsFiniteSet(DOMAIN plan) /\ DOMAIN steps = DOMAIN plan
      BY <1>1, PlanFacts DEF Judged, Reordered
    <3> QED
      BY <3>1, FS_Subset
  <2>3. /\ \A i \in I : p[i] \in P /\ steps[i].unit = plan[p[i]].unit
        /\ \A i, j \in I : p[i] = p[j] => i = j
        /\ \A k \in P : \E i \in I : p[i] = k
    <3>1. \A i \in DOMAIN steps : /\ p[i] \in DOMAIN plan /\ steps[i].unit = plan[p[i]].unit
                                  /\ steps[i].drive = plan[p[i]].drive
      BY StepFacts
    <3>2. /\ \A k \in DOMAIN plan : \E i \in DOMAIN steps : p[i] = k
          /\ \A i, j \in DOMAIN steps : p[i] = p[j] => i = j
      BY DEF Judged, Reordered
    <3> QED
      BY <3>1, <3>2
  <2>4. SumFunction(f) = SumFunction(h)
    <3>1. DOMAIN f = I /\ DOMAIN h = P /\ P = {p[i] : i \in I}
      BY <2>3
    <3>2. \A i \in I : f[i] \in Int /\ f[i] = h[p[i]]
      <4> SUFFICES ASSUME NEW i \in I PROVE f[i] \in Int /\ f[i] = h[p[i]]
        OBVIOUS
      <4> QED
        BY <2>1, <2>3
    <3> HIDE DEF f, h, I, P
    <3> QED
      BY <2>2, <2>3, <3>1, <3>2, SumRenamed
  <2>5. Total(h, P) <= Total(g, P)
    <3> HIDE DEF h, g, P
    <3> QED
      BY <2>1, <2>2, TotalAtMost
  <2>6. SumFunction(h) = Total(h, P) /\ SumFunction(g) = Total(g, P)
    BY SumIsTotal
  <2>7. SumFunction(g) = Taken(plan, d)
    BY <1>1, CostsAreTaken
  <2>8. room[d] + Taken(plan, d) = dest[d].room /\ room[d] \in Nat /\ Taken(plan, d) \in Nat
    BY <1>1, OntoFacts DEF BudgetInv, Balanced, Typed
  <2>9. Total(h, P) \in Int
    <3> HIDE DEF h, g, P
    <3> QED
      BY <2>1, <2>2, TotalInt
  <2> HIDE DEF f, g, h
  <2>10. SumFunction(f) <= dest[d].room
    BY <2>4, <2>5, <2>6, <2>7, <2>8, <2>9
  <2> QED
    BY <2>10 DEF f
<1> QED
  BY <1>3, <1>4 DEF RoomIsKept

LEMMA JudgedTargets == ASSUME NEW p, NEW r, Judged(p, r), EveryFileHasUnit PROVE TargetsAreMet
<1> DEFINE f == [u \in Units |-> Deficit(u) * SizeSum(UnitMembers(u))]
           g == [u \in Units |-> short[u] * unit[u].bytes]
           h == [u \in ShortUnits |-> short[u] * unit[u].bytes]
<1>1. given \in Inputs /\ Typed /\ \A u \in Units : short[u] = Missing(u, added[u]) /\ short[u] \in Nat
  BY JudgedTyped
<1>2. \A u \in Units : Deficit(u) = short[u]
  BY <1>1, DeficitIs
<1>3. \A u \in Units : f[u] = g[u] /\ g[u] \in Nat
  <2> SUFFICES ASSUME NEW u \in Units PROVE f[u] = g[u] /\ g[u] \in Nat  OBVIOUS
  <2>1. SizeSum(UnitMembers(u)) = unit[u].bytes /\ unit[u].bytes \in Nat
    BY <1>1, MembersAreFiles, UnitIs, GivenFacts
  <2> QED
    BY <1>1, <1>2, <2>1
<1>4. IsFiniteSet(Units) /\ ShortUnits \in SUBSET Units
  BY PlannerAssumption, <1>1 DEF Units, unit, ShortUnits
<1>5. \A u \in ShortUnits : h[u] = g[u]
  BY <1>4
<1>6. \A u \in Units \ ShortUnits : g[u] = 0
  <2> SUFFICES ASSUME NEW u \in Units \ ShortUnits PROVE short[u] * unit[u].bytes = 0  OBVIOUS
  <2>1. short[u] = 0 /\ unit[u].bytes \in Nat
    BY <1>1, GivenFacts DEF ShortUnits
  <2> QED
    BY <2>1
<1>7. SumFunction(f) = Total(f, Units) /\ SumFunction(h) = Total(h, ShortUnits) /\ Acquire.bytes = SumFunction(h)
  BY SumIsTotal DEF Acquire
<1> HIDE DEF f, g, h
<1>8. Total(f, Units) = Total(g, Units)
  BY <1>3, <1>4, TotalSame
<1>9. Total(g, Units) = Total(g, ShortUnits)
  <2> DEFINE rest == Units \ ShortUnits
  <2>1. IsFiniteSet(rest) /\ IsFiniteSet(ShortUnits) /\ Units \cap ShortUnits = ShortUnits
    BY <1>4, FS_Subset
  <2>2. \A u \in Units : g[u] \in Int
    BY <1>3
  <2>3. Total(g, Units) = Total(g, Units \cap ShortUnits) + Total(g, rest)
    BY <1>4, <2>2, TotalSplit
  <2> HIDE DEF rest
  <2>4. Total(g, rest) = 0
    BY <1>6, <2>1, TotalZeros DEF rest
  <2>5. Total(g, ShortUnits) \in Int
    BY <1>4, <2>1, <2>2, TotalInt
  <2> QED
    BY <2>1, <2>3, <2>4, <2>5
<1>10. Total(h, ShortUnits) = Total(g, ShortUnits)
  BY <1>4, <1>5, TotalSame, FS_Subset
<1>11. Total(f, Units) \in Int
  BY <1>3, <1>4, <1>8, TotalNat
<1>12. SumFunction(f) <= Acquire.bytes
  BY <1>7, <1>8, <1>9, <1>10, <1>11
<1> QED
  BY <1>1, <1>2, <1>12 DEF TargetsAreMet, f

LEMMA HoldersSeen ==
    ASSUME NEW p, NEW r, Judged(p, r), EveryFileHasUnit, NEW u \in Units
    PROVE  /\ HoldsAll(u) \cup AddedSteps(u) = Holders(u)
           /\ \A f \in UnitMembers(u) : /\ Holders(u) \subseteq ItemDevices(f) \cup AddedSteps(u)
                                        /\ IsFiniteSet(ItemDevices(f) \cup AddedSteps(u))
<1> DEFINE F == UnitFiles(given.catalog, u)
<1>1. given \in Inputs /\ added[u] \in SUBSET DriveIds /\ AddedSteps(u) = added[u]
  BY JudgedTyped, StepsAreAdded
<1>2. UnitMembers(u) = F /\ F # {} /\ \A f \in F : Held(given.catalog, f) \in SUBSET DriveIds
  BY <1>1, MembersAreFiles, FilesOf
<1>3. unit[u].holders = {d \in DriveIds : \A f \in F : d \in Held(given.catalog, f)}
  BY <1>1, HoldersAre
<1> HIDE DEF F
<1>4. HoldsAll(u) = unit[u].holders
  BY <1>2, <1>3 DEF HoldsAll, ItemDevices
<1>5. \A f \in F : IsFiniteSet(Held(given.catalog, f) \cup added[u])
  <2>1. \A f \in F : Held(given.catalog, f) \cup added[u] \in SUBSET DriveIds
    BY <1>1, <1>2
  <2>2. IsFiniteSet(DriveIds)
    BY PlannerAssumption
  <2> QED
    BY <2>1, <2>2, FS_Subset
<1> QED
  BY <1>1, <1>2, <1>3, <1>4, <1>5 DEF Holders, ItemDevices

LEMMA JudgedSharing == ASSUME NEW p, NEW r, Judged(p, r), EveryFileHasUnit PROVE SharingIsSaid
<1> SUFFICES ASSUME NEW i \in DOMAIN steps
             PROVE  Crowds(steps[i]) =
                      SharedTraits(steps[i].unit, steps[i].drive,
                                   HoldsAll(steps[i].unit) \cup AddedSteps(steps[i].unit))
  BY DEF SharingIsSaid
<1>1. steps[i].unit \in Units
  BY StepFacts
<1>2. HoldsAll(steps[i].unit) \cup AddedSteps(steps[i].unit) = Holders(steps[i].unit)
  BY <1>1, HoldersSeen
<1> QED
  BY <1>2 DEF Crowds

LEMMA JudgedSummary ==
    ASSUME NEW p, NEW r, Judged(p, r), EveryFileHasUnit
    PROVE  /\ Summary.lossAfter =
                Summary.lossBefore + SumFunction([i \in DOMAIN steps |-> steps[i].delta])
           /\ Summary.atTargetAfter = Cardinality({u \in Units : Deficit(u) = 0})
           /\ Summary.atTargetAfter >= Summary.atTargetBefore
           /\ Summary.connect = UNION {AddedSteps(u) : u \in Units}
<1>1. given \in Inputs /\ Typed /\ PlanIsWhatWasAdded
      /\ \A u \in Units : added[u] \in SUBSET DriveIds /\ short[u] = Missing(u, added[u]) /\ short[u] \in Nat
  BY JudgedTyped
<1>2. /\ Summary.lossAfter = ExpectedLoss(added) /\ Summary.lossBefore = ExpectedLoss([u \in Units |-> {}])
      /\ Summary.atTargetAfter = Cardinality(Units \ ShortUnits)
      /\ Summary.atTargetBefore = Cardinality({u \in Units : Copies(u, {}) >= unit[u].target})
      /\ Summary.connect = Touched
  BY DEF Summary, Nothing
<1>3. ExpectedLoss(added) =
        ExpectedLoss([u \in Units |-> {}]) + SumFunction([i \in DOMAIN steps |-> steps[i].delta])
  BY JudgedAgrees DEF DocumentAgrees, Judged, Made
<1>4. Units \ ShortUnits = {u \in Units : Deficit(u) = 0}
  <2>1. \A u \in Units : Deficit(u) = short[u]
    BY <1>1, DeficitIs
  <2> QED
    BY <1>1, <2>1 DEF ShortUnits
<1>5. {u \in Units : Copies(u, {}) >= unit[u].target} \in SUBSET (Units \ ShortUnits)
  <2> SUFFICES ASSUME NEW u \in Units, Copies(u, {}) >= unit[u].target PROVE short[u] = 0
    BY <1>1 DEF ShortUnits
  <2>1. /\ Copies(u, {}) \in Nat /\ Copies(u, added[u]) \in Nat /\ Copies(u, {}) <= Copies(u, added[u])
    BY <1>1, CopiesGrow
  <2>2. unit[u].target \in Nat
    BY <1>1, GivenFacts
  <2> QED
    BY <1>1, <2>1, <2>2 DEF Missing
<1>6. Summary.atTargetAfter >= Summary.atTargetBefore
  <2>1. IsFiniteSet(Units \ ShortUnits)
    BY <1>1, PlannerAssumption, FS_Subset DEF Units, unit
  <2> DEFINE S == {u \in Units : Copies(u, {}) >= unit[u].target}
             T == Units \ ShortUnits
  <2> HIDE DEF S, T
  <2>2. S \in SUBSET T /\ IsFiniteSet(T)
    BY <1>5, <2>1 DEF S, T
  <2>3. Cardinality(S) <= Cardinality(T) /\ Cardinality(S) \in Nat /\ Cardinality(T) \in Nat
    BY <2>2, FS_Subset, FS_CardinalityType
  <2> QED
    BY <1>2, <2>3 DEF S, T
<1>7. Touched = UNION {AddedSteps(u) : u \in Units}
  <2>1. \A u \in Units : AddedSteps(u) = {plan[i].drive : i \in {k \in DOMAIN plan : plan[k].unit = u}}
    BY <1>1, StepsAreAdded DEF PlanIsWhatWasAdded
  <2>2. \A i \in DOMAIN plan : plan[i].unit \in Units
    BY <1>1, PlanFacts
  <2> QED
    BY <2>1, <2>2 DEF Touched
<1> QED
  BY <1>2, <1>3, <1>4, <1>6, <1>7

LEMMA JudgedBeyond ==
    ASSUME NEW p, NEW r, Judged(p, r), EveryFileHasUnit, NEW d \in DriveIds,
           NEW u \in BeyondTarget(d), NEW f \in UnitMembers(u)
    PROVE  Cardinality((ItemDevices(f) \cup AddedSteps(u)) \ {d}) >= unit[u].target
<1> DEFINE S == ItemDevices(f) \cup AddedSteps(u)
<1>1. u \in Units /\ Cardinality(Holders(u)) > unit[u].target /\ d \in Holders(u)
  BY DEF BeyondTarget
<1>2. Holders(u) \in SUBSET S /\ IsFiniteSet(S)
  BY <1>1, HoldersSeen
<1>3. unit[u].target \in Nat
  BY <1>1, JudgedTyped, GivenFacts
<1> HIDE DEF S
<1>4. IsFiniteSet(Holders(u)) /\ Cardinality(Holders(u)) <= Cardinality(S) /\ d \in S
  BY <1>1, <1>2, FS_Subset
<1>5. Cardinality(S \ {d}) = Cardinality(S) - 1 /\ Cardinality(S) \in Nat /\ Cardinality(Holders(u)) \in Nat
  BY <1>2, <1>4, FS_RemoveElement, FS_CardinalityType
<1>6. Cardinality(S \ {d}) >= unit[u].target
  BY <1>1, <1>3, <1>4, <1>5
<1> QED
  BY <1>6 DEF S

(* The rounds of a stored plan, computed again from its steps, are those   *)
(* it was ordered by, no drive is used twice in one, and the changes of    *)
(* risk that the steps state come to what the plan brings, whatever there  *)
(* is to copy and however the copies were moved.                           *)
THEOREM RoundsComeOutTheSame == PlannerSpec => []DocumentAgrees
<1>1. BenchInv => DocumentAgrees
  <2> SUFFICES ASSUME BenchInv PROVE DocumentAgrees  OBVIOUS
  <2>1. CASE Made
    BY <2>1, JudgedIs, JudgedAgrees
  <2>2. CASE ~Made
    BY <2>2 DEF DocumentAgrees, Made
  <2> QED
    BY <2>1, <2>2
<1> QED
  BY <1>1, AlwaysBench, PTL

(* The bench's tests, which find a unit's files by the folders and count   *)
(* what every file has, pass on every plan, for catalogs, fleets and rules *)
(* of any size, unless a collection has nothing but empty files.           *)
THEOREM BenchAlwaysAccepts == PlannerSpec => []BenchAcceptsPlan
<1>1. BenchInv => BenchAcceptsPlan
  <2> SUFFICES ASSUME BenchInv, Made, EveryFileHasUnit
               PROVE  /\ OnlyAdds /\ RoomIsKept /\ TargetsAreMet /\ SharingIsSaid
                      /\ DocumentAgrees
                      /\ Summary.lossAfter =
                           Summary.lossBefore + SumFunction([i \in DOMAIN steps |-> steps[i].delta])
                      /\ Summary.atTargetAfter = Cardinality({u \in Units : Deficit(u) = 0})
                      /\ Summary.atTargetAfter >= Summary.atTargetBefore
                      /\ Summary.connect = UNION {AddedSteps(u) : u \in Units}
                      /\ \A d \in DriveIds : \A u \in BeyondTarget(d) : \A f \in UnitMembers(u) :
                           Cardinality((ItemDevices(f) \cup AddedSteps(u)) \ {d}) >= unit[u].target
    BY DEF BenchAcceptsPlan
  <2>1. PICK p, r : Judged(p, r)
    BY JudgedIs
  <2>2. OnlyAdds /\ RoomIsKept /\ TargetsAreMet /\ SharingIsSaid /\ DocumentAgrees
    BY <2>1, JudgedAdds, JudgedRoom, JudgedTargets, JudgedSharing, JudgedAgrees
  <2>3. /\ Summary.lossAfter =
             Summary.lossBefore + SumFunction([i \in DOMAIN steps |-> steps[i].delta])
        /\ Summary.atTargetAfter = Cardinality({u \in Units : Deficit(u) = 0})
        /\ Summary.atTargetAfter >= Summary.atTargetBefore
        /\ Summary.connect = UNION {AddedSteps(u) : u \in Units}
    BY <2>1, JudgedSummary
  <2>4. \A d \in DriveIds : \A u \in BeyondTarget(d) : \A f \in UnitMembers(u) :
          Cardinality((ItemDevices(f) \cup AddedSteps(u)) \ {d}) >= unit[u].target
    BY <2>1, JudgedBeyond
  <2> QED
    BY <2>2, <2>3, <2>4
<1> QED
  BY <1>1, AlwaysBench, PTL

-----------------------------------------------------------------------------
(* The drive table and the programs that write it.  A row with a serial    *)
(* has the layout of the serial's disk, one without it that of a disk seen *)
(* by its layout; what a program has found is a row of the disk it         *)
(* records, and is still what it would find unless the program is late; a  *)
(* volume that discovery tied to a drive is on the row that has its disk's *)
(* serial, or, as long as the serial was never read, its layout.           *)
Storing == {"volume", "update", "insert"}

ReportType == [serial : {Serial[d] : d \in Disks} \cup {Absent}, layout : {Layout[d] : d \in Disks} \cup {Absent}]

WriterType ==
    {AtRest}
      \cup [at : Looking \cup Storing, vol : Volumes, report : ReportType, found : Nat,
            gains : BOOLEAN, keeps : BOOLEAN, late : BOOLEAN]
      \cup [at : Naming, vol : Volumes, found : Nat, late : BOOLEAN]

RowInv(i) ==
    /\ drive[i].serial # Absent =>
         \E e \in docked : /\ drive[i].serial = Serial[e]
                           /\ drive[i].layout # Absent => drive[i].layout = Layout[e]
    /\ drive[i].serial = Absent /\ drive[i].layout # Absent => \E h \in hidden : Layout[h] = drive[i].layout
    /\ drive[i].identity = "user" => drive[i].serial = Absent /\ drive[i].layout = Absent

RowsUnique ==
    \A i, j \in Ids :
        \/ drive[i].serial = drive[j].serial /\ drive[i].serial # Absent
        \/ drive[i].layout = drive[j].layout /\ drive[i].layout # Absent
        => i = j

Placed(d, row) ==
    IF d \in docked THEN row.serial = Serial[d] /\ row.serial # Absent
                    ELSE d \in hidden /\ row.serial = Absent /\ row.layout = Layout[d] /\ row.layout # Absent

Stands(v, i) ==
    /\ drive[i].identity # "user"
    /\ DiskOf[v] \notin relapsed \cup overtaken /\ ~Confusable(DiskOf[v]) => Placed(DiskOf[v], drive[i])

VolumeInv(v) == Identified(v) => Stands(v, driveOf[v])

Meant(r, row) ==
    \/ r.layout # Absent /\ row.layout = r.layout
    \/ r.serial # Absent /\ row.serial = r.serial

Looks(s) ==
    /\ s.report \in Reports(DiskOf[s.vol]) /\ (s.report.serial # Absent \/ s.report.layout # Absent)
    /\ s.at # "drive" => s.report.layout # Absent
    /\ s.at = "layout" => s.found = NoDrive
    /\ s.keeps => s.report.layout # Absent
    /\ s.gains => /\ s.report.serial # Absent /\ s.found # NoDrive
                  /\ s.report.layout # Absent /\ drive[s.found].layout = s.report.layout
                  /\ drive[s.found].serial = s.report.serial \/ \E h \in hidden : Layout[h] = s.report.layout
    /\ s.found # NoDrive => Meant(s.report, drive[s.found])

UpToDate(s) ==
    /\ s.found = NoDrive => /\ BySerial(s.report.serial) = {}
                            /\ s.at # "layout" => ByLayout(s.report.serial, s.report.layout) = {}
    /\ s.found # NoDrive => drive[s.found].serial = IF s.gains THEN Absent ELSE s.report.serial
    /\ s.at = "drive" /\ s.report.layout # Absent => s.keeps = LayoutFree(s.report.layout, s.found)

WriterInv(s) ==
    /\ s \in WriterType
    /\ s # AtRest => s.found \in Ids \cup {NoDrive}
    /\ s.at \in Looking => Looks(s) /\ (s.late \/ UpToDate(s))
    /\ s.at \in Storing /\ s.found # NoDrive => Stands(s.vol, s.found)
    /\ s.at = "name" => s.found # NoDrive
    /\ s.at \in Naming => s.late \/ ~Identified(s.vol)

DrivesInv ==
    /\ DrivesTypeOK
    /\ RowsUnique
    /\ \A i \in Ids : RowInv(i)
    /\ \A v \in Volumes : VolumeInv(v)
    /\ \A p \in Writers : WriterInv(doing[p])

(* What a program is at, from its record.                                  *)
LEMMA WriterIs ==
    ASSUME DrivesInv, NEW p \in Writers, NEW s, s = doing[p]
    PROVE  /\ WriterInv(s) /\ NoDrive \notin Ids
           /\ s.at \in Looking \cup Storing =>
                s \in [at : Looking \cup Storing, vol : Volumes, report : ReportType, found : Nat,
                       gains : BOOLEAN, keeps : BOOLEAN, late : BOOLEAN]
           /\ s.at \in Naming => s \in [at : Naming, vol : Volumes, found : Nat, late : BOOLEAN]
           /\ s.at \in Looking \cup Storing \cup Naming => s # AtRest
<1>1. WriterInv(s) /\ s \in WriterType
  BY DEF DrivesInv, WriterInv
<1>2. /\ s = AtRest => s.at \notin Looking \cup Storing \cup Naming
      /\ \A x \in Looking \cup Storing : x \notin Naming
  BY DEF AtRest, Looking, Storing, Naming
<1>3. NoDrive \notin Ids
  BY DEF Ids, NoDrive
<1> QED
  BY <1>1, <1>2, <1>3 DEF WriterType

(* What discovery reports of a disk.                                       *)
LEMMA ReportIs ==
    ASSUME NEW v \in Volumes, NEW r \in Reports(DiskOf[v])
    PROVE  /\ DiskOf[v] \in Disks /\ r \in ReportType
           /\ r.serial # Absent => r.serial = Serial[DiskOf[v]] /\ r.layout = Layout[DiskOf[v]]
           /\ r.layout # Absent => r.layout = Layout[DiskOf[v]]
           /\ \A e \in Disks : r.serial # Absent /\ Serial[e] = r.serial => e = DiskOf[v]
<1>1. DiskOf[v] \in Disks
  BY DrivesAssumption
<1>2. /\ r \in ReportType
      /\ r.serial # Absent => r.serial = Serial[DiskOf[v]] /\ r.layout = Layout[DiskOf[v]]
      /\ r.layout # Absent => r.layout = Layout[DiskOf[v]]
  BY <1>1 DEF Reports, ReportType
<1> QED
  BY <1>1, <1>2, DrivesAssumption

(* Writing one row, at its place or after the last. *)
LEMMA RowWritten ==
    ASSUME DrivesInv, NEW x \in DriveRow, NEW i,
           \/ i \in Ids /\ drive' = [drive EXCEPT ![i] = x]
           \/ i = Len(drive) + 1 /\ drive' = Append(drive, x)
    PROVE  /\ drive' \in Seq(DriveRow) /\ Len(drive) <= Len(drive') /\ i \in Ids' /\ i # NoDrive
           /\ drive'[i] = x /\ Ids' = Ids \cup {i} /\ Ids \subseteq Ids'
           /\ \A j \in Ids \ {i} : drive'[j] = drive[j]
           /\ driveOf \in [Volumes -> 0 .. Len(drive')]
<1>1. drive \in Seq(DriveRow) /\ Len(drive) \in Nat /\ Ids = 1 .. Len(drive)
  BY DEF DrivesInv, DrivesTypeOK, Ids
<1>2. CASE i \in Ids /\ drive' = [drive EXCEPT ![i] = x]
  <2>1. drive' \in Seq(DriveRow) /\ Len(drive') = Len(drive)
    BY <1>1, <1>2, ExceptSeq
  <2>2. DOMAIN drive = Ids /\ i \in Ids /\ i # NoDrive
    BY <1>1, <1>2 DEF NoDrive
  <2>3. drive'[i] = x /\ \A j \in Ids \ {i} : drive'[j] = drive[j]
    BY <1>2, <2>2
  <2>4. Ids' = Ids
    BY <2>1 DEF Ids
  <2> QED
    BY <1>1, <2>1, <2>2, <2>3, <2>4 DEF DrivesInv, DrivesTypeOK
<1>3. CASE i = Len(drive) + 1 /\ drive' = Append(drive, x)
  <2>1. /\ drive' \in Seq(DriveRow) /\ Len(drive') = Len(drive) + 1 /\ i \in Ids' /\ i # NoDrive
        /\ drive'[i] = x /\ Ids' = Ids \cup {i}
        /\ \A j \in Ids \ {i} : drive'[j] = drive[j]
    BY <1>1, <1>3, AppendProperties DEF Ids, NoDrive
  <2>2. driveOf \in [Volumes -> 0 .. Len(drive)]
    BY DEF DrivesInv, DrivesTypeOK
  <2>3. driveOf \in [Volumes -> 0 .. Len(drive')]
    BY <1>1, <2>1, <2>2
  <2> QED
    BY <1>1, <2>1, <2>3
<1> QED
  BY <1>2, <1>3

-----------------------------------------------------------------------------
(* What WriteDrive writes: the row x, at i, for the disk d.                *)
Wrote(p, i, x, d) ==
    LET s == doing[p]
        behind == s.report.serial = Absent
    IN  /\ s.at = "drive" /\ d = DiskOf[s.vol]
        /\ i = IF s.found = NoDrive THEN Len(drive) + 1 ELSE s.found
        /\ x = IF s.found = NoDrive THEN NewDrive(s) ELSE Updated(s)
        /\ ~Clashes(i, x)
        /\ \/ i \in Ids /\ drive' = [drive EXCEPT ![i] = x]
           \/ i = Len(drive) + 1 /\ drive' = Append(drive, x)
        /\ doing' = [q \in Writers |->
                       IF q = p THEN [s EXCEPT !.at = "volume", !.found = i]
                       ELSE IF Touches(x, doing[q]) THEN [doing[q] EXCEPT !.late = TRUE] ELSE doing[q]]
        /\ docked' = IF behind THEN docked ELSE docked \cup {d}
        /\ hidden' = IF behind THEN hidden \cup {d} ELSE hidden
        /\ relapsed' = IF behind /\ d \in docked THEN relapsed \cup {d} ELSE relapsed
        /\ overtaken' = IF s.late THEN overtaken \cup {d} ELSE overtaken
        /\ UNCHANGED <<recorded, driveOf, acts, said>>

LEMMA WriteDriveWrote ==
    ASSUME DrivesInv, NEW p \in Writers, WriteDrive(p)
    PROVE  \E i, x : Wrote(p, i, x, DiskOf[doing[p].vol])
<1>1. doing[p].at = "drive" /\ doing[p].found \in Ids \cup {NoDrive} /\ NoDrive \notin Ids
  BY WriterIs DEF WriteDrive, WriterInv, Looking
<1>2. PICK i, x : /\ i = IF doing[p].found = NoDrive THEN Len(drive) + 1 ELSE doing[p].found
                  /\ x = IF doing[p].found = NoDrive THEN NewDrive(doing[p]) ELSE Updated(doing[p])
  OBVIOUS
<1>3. Wrote(p, i, x, DiskOf[doing[p].vol])
  BY <1>1, <1>2 DEF WriteDrive, GoOnLate, Wrote
<1> QED
  BY <1>3

(* The row, field by field, and the rows before the write.                 *)
LEMMA WroteRow ==
    ASSUME DrivesInv, NEW p \in Writers, NEW i, NEW x, NEW d, Wrote(p, i, x, d),
           NEW s, s = doing[p], NEW r, r = s.report
    PROVE  /\ d = DiskOf[s.vol] /\ d \in Disks /\ s.vol \in Volumes /\ r \in Reports(DiskOf[s.vol])
           /\ r.serial # Absent => r.serial = Serial[d] /\ r.layout = Layout[d]
           /\ r.layout # Absent => r.layout = Layout[d]
           /\ \A e \in Disks : r.serial # Absent /\ Serial[e] = r.serial => e = d
           /\ x \in DriveRow /\ x.identity # "user"
           /\ \A j \in Ids \ {i} : /\ x.serial # Absent => drive[j].serial # x.serial
                                   /\ x.layout # Absent => drive[j].layout # x.layout
           /\ s.found = NoDrive => /\ i \notin Ids /\ x.serial = r.serial
                                   /\ x.layout = IF s.keeps THEN r.layout ELSE Absent
           /\ s.found # NoDrive => /\ i = s.found /\ i \in Ids
                                   /\ x.serial = IF s.gains THEN r.serial ELSE drive[i].serial
                                   /\ x.layout = IF s.keeps THEN r.layout ELSE drive[i].layout
                                   /\ drive[i].layout # Absent => x.layout = drive[i].layout
           /\ Looks(s) /\ (s.late \/ UpToDate(s))
<1>1. /\ s \in [at : Looking \cup Storing, vol : Volumes, report : ReportType, found : Nat,
                gains : BOOLEAN, keeps : BOOLEAN, late : BOOLEAN]
      /\ Looks(s) /\ (s.late \/ UpToDate(s)) /\ s.found \in Ids \cup {NoDrive} /\ NoDrive \notin Ids
  BY WriterIs DEF Wrote, Looking, WriterInv
<1>2. d = DiskOf[s.vol] /\ s.vol \in Volumes /\ r \in Reports(DiskOf[s.vol]) /\ d \in Disks /\ r \in ReportType
  BY <1>1, ReportIs DEF Looks, Wrote
<1>6. /\ r.serial # Absent => r.serial = Serial[d] /\ r.layout = Layout[d]
      /\ r.layout # Absent => r.layout = Layout[d]
      /\ \A e \in Disks : r.serial # Absent /\ Serial[e] = r.serial => e = d
  BY <1>2, ReportIs
<1>3. \A j \in Ids \ {i} : /\ x.serial # Absent => drive[j].serial # x.serial
                           /\ x.layout # Absent => drive[j].layout # x.layout
  BY DEF Wrote, Clashes
<1>4. CASE s.found = NoDrive
  <2>1. x = NewDrive(s) /\ i = Len(drive) + 1
    BY <1>4 DEF Wrote
  <2>2. Len(drive) \in Nat
    BY DEF DrivesInv, DrivesTypeOK
  <2>5. i \notin Ids
    BY <2>1, <2>2 DEF Ids
  <2>3. /\ x.serial = r.serial /\ x.layout = IF s.keeps THEN r.layout ELSE Absent
        /\ x.identity \in {"serial", "disk-layout"} /\ x \in DriveRow
    BY <1>2, <2>1 DEF NewDrive, DriveRow, ReportType
  <2>4. x.identity # "user"
    BY <2>3
  <2> QED
    BY <1>1, <1>2, <1>3, <1>4, <1>6, <2>3, <2>4, <2>5
<1>5. CASE s.found # NoDrive
  <2>1. x = Updated(s) /\ i = s.found /\ i \in Ids
    BY <1>1, <1>5 DEF Wrote
  <2>2. drive[i] \in DriveRow
    BY <2>1 DEF DrivesInv, DrivesTypeOK, Ids
  <2>3. /\ x.serial = IF s.gains THEN r.serial ELSE drive[i].serial
        /\ x.layout = IF s.keeps THEN r.layout ELSE drive[i].layout
        /\ x.identity = IF s.gains THEN "serial" ELSE drive[i].identity
        /\ x \in DriveRow
    BY <1>2, <2>1, <2>2 DEF Updated, DriveRow, ReportType
  <2>4. Meant(r, drive[i]) /\ RowInv(i)
    BY <1>1, <1>5, <2>1 DEF Looks, DrivesInv
  <2>5. drive[i].identity # "user"
    BY <2>4 DEF Meant, RowInv
  <2>6. x.identity # "user"
    BY <2>3, <2>5
  <2>7. ASSUME drive[i].layout # Absent, drive[i].layout # r.layout, s.keeps PROVE FALSE
    <3>1. r.serial # Absent /\ drive[i].serial = r.serial
      BY <2>4, <2>7 DEF Meant
    <3>2. PICK e \in docked : drive[i].serial = Serial[e] /\ drive[i].layout = Layout[e]
      BY <2>4, <2>7, <3>1 DEF RowInv
    <3>3. e \in Disks
      BY DEF DrivesInv, DrivesTypeOK
    <3> QED
      BY <1>6, <2>7, <3>1, <3>2, <3>3
  <2> QED
    BY <1>1, <1>2, <1>3, <1>5, <1>6, <2>1, <2>3, <2>6, <2>7
<1> QED
  BY <1>4, <1>5, <1>6

(* The write keeps the layout and the serial of the row that is found,     *)
(* unless a clone's serial was written between the look and the write.     *)
LEMMA WroteOver ==
    ASSUME DrivesInv, NEW p \in Writers, NEW i, NEW x, NEW d, Wrote(p, i, x, d), i \in Ids,
           drive[i].serial # Absent, x.serial # drive[i].serial
    PROVE  /\ doing[p].late /\ Confusable(d)
           /\ \A e \in Disks : Serial[e] = drive[i].serial => Confusable(e)
           /\ \E h \in hidden : Layout[h] = drive[i].layout
<1>1. PICK s, r : s = doing[p] /\ r = s.report
  OBVIOUS
<1>2. /\ s.found # NoDrive /\ s.gains /\ x.serial = r.serial /\ r.layout = Layout[d] /\ d \in Disks
      /\ r.serial = Serial[d] /\ drive[i].layout = r.layout /\ r.layout # Absent
      /\ \A e \in Disks : Serial[e] = r.serial => e = d
      /\ \E h \in hidden : Layout[h] = r.layout
      /\ s.late \/ drive[i].serial = Absent
  BY <1>1, WroteRow DEF Looks, UpToDate
<1>3. PICK e \in docked : drive[i].serial = Serial[e] /\ drive[i].layout = Layout[e]
  BY <1>2 DEF DrivesInv, RowInv
<1>4. PICK h \in hidden : Layout[h] = r.layout
  BY <1>2
<1>5. e \in Disks /\ h \in Disks /\ e # d
  BY <1>2, <1>3 DEF DrivesInv, DrivesTypeOK
<1>6. Confusable(d)
  BY <1>2, <1>3, <1>4, <1>5 DEF Confusable
<1>7. Confusable(e)
  BY <1>2, <1>3, <1>4, <1>5 DEF Confusable
<1>8. \A f \in Disks : Serial[f] = drive[i].serial => f = e
  BY <1>3, <1>5, DrivesAssumption
<1> QED
  BY <1>1, <1>2, <1>4, <1>6, <1>7, <1>8

LEMMA WroteRowInv ==
    ASSUME DrivesInv, NEW p \in Writers, NEW i, NEW x, NEW d, Wrote(p, i, x, d)
    PROVE  RowsUnique' /\ \A j \in Ids' : RowInv(j)'
<1>1. PICK s, r : s = doing[p] /\ r = s.report
  OBVIOUS
<1>2. /\ d \in Disks /\ x \in DriveRow /\ x.identity # "user" /\ Looks(s)
      /\ r.serial # Absent => r.serial = Serial[d] /\ r.layout = Layout[d]
      /\ r.layout # Absent => r.layout = Layout[d]
      /\ \A e \in Disks : r.serial # Absent /\ Serial[e] = r.serial => e = d
      /\ \A j \in Ids \ {i} : /\ x.serial # Absent => drive[j].serial # x.serial
                              /\ x.layout # Absent => drive[j].layout # x.layout
      /\ s.found = NoDrive => /\ i \notin Ids /\ x.serial = r.serial
                              /\ x.layout = IF s.keeps THEN r.layout ELSE Absent
      /\ s.found # NoDrive => /\ i = s.found /\ i \in Ids
                              /\ x.serial = IF s.gains THEN r.serial ELSE drive[i].serial
                              /\ x.layout = IF s.keeps THEN r.layout ELSE drive[i].layout
                              /\ drive[i].layout # Absent => x.layout = drive[i].layout
  BY <1>1, WroteRow
<1>3. /\ Ids' = Ids \cup {i} /\ drive'[i] = x /\ \A j \in Ids \ {i} : drive'[j] = drive[j]
  BY <1>2, RowWritten DEF Wrote
<1>4. /\ docked \subseteq docked' /\ hidden \subseteq hidden'
      /\ IF r.serial = Absent THEN d \in hidden' ELSE d \in docked'
  BY <1>1 DEF Wrote
<1>5. \A j, k \in Ids \ {i} :
        \/ drive[j].serial = drive[k].serial /\ drive[j].serial # Absent
        \/ drive[j].layout = drive[k].layout /\ drive[j].layout # Absent
        => j = k
  BY DEF DrivesInv, RowsUnique
<1>6. RowsUnique'
  BY <1>2, <1>3, <1>5 DEF RowsUnique
<1>7. ASSUME NEW j \in Ids \ {i} PROVE RowInv(j)'
  BY <1>3, <1>4 DEF RowInv, DrivesInv
<1>8. x.serial # Absent => \E e \in docked' : /\ x.serial = Serial[e]
                                              /\ x.layout # Absent => x.layout = Layout[e]
  <2>1. CASE s.found = NoDrive \/ s.gains
    BY <1>1, <1>2, <1>4, <2>1 DEF Looks
  <2>2. CASE s.found # NoDrive /\ ~s.gains /\ drive[i].serial # Absent
    <3>1. PICK e \in docked : drive[i].serial = Serial[e] /\ (drive[i].layout # Absent => drive[i].layout = Layout[e])
      BY <1>2, <2>2 DEF DrivesInv, RowInv
    <3>2. drive[i].layout = Absent => drive[i].serial = r.serial /\ r.serial # Absent
      BY <1>1, <1>2, <2>2 DEF Looks, Meant
    <3>3. e \in Disks /\ (drive[i].layout = Absent => e = d)
      BY <1>2, <3>1, <3>2 DEF DrivesInv, DrivesTypeOK
    <3> QED
      BY <1>2, <1>4, <2>2, <3>1, <3>2, <3>3
  <2> QED
    BY <1>2, <2>1, <2>2
<1>9. x.serial = Absent /\ x.layout # Absent => \E h \in hidden' : Layout[h] = x.layout
  <2> SUFFICES ASSUME x.serial = Absent, x.layout # Absent PROVE \E h \in hidden' : Layout[h] = x.layout
    OBVIOUS
  <2>1. CASE s.found = NoDrive
    BY <1>1, <1>2, <1>4, <2>1
  <2>2. CASE s.found # NoDrive
    <3>1. ~s.gains /\ drive[i].serial = Absent /\ drive[i].layout # Absent
      BY <1>1, <1>2, <2>2 DEF Looks, Meant
    <3> QED
      BY <1>2, <1>4, <2>2, <3>1 DEF DrivesInv, RowInv
  <2> QED
    BY <2>1, <2>2
<1>10. RowInv(i)'
  BY <1>2, <1>3, <1>8, <1>9 DEF RowInv
<1> QED
  BY <1>3, <1>6, <1>7, <1>10

(* Where a volume stands on a row, it does so after the write.             *)
LEMMA WroteStands ==
    ASSUME DrivesInv, NEW p \in Writers, NEW i, NEW x, NEW d, Wrote(p, i, x, d),
           NEW v \in Volumes, NEW j \in Ids, Stands(v, j)
    PROVE  Stands(v, j)'
<1>1. PICK s, r : s = doing[p] /\ r = s.report
  OBVIOUS
<1>2. /\ d \in Disks /\ x \in DriveRow /\ x.identity # "user" /\ Looks(s) /\ (s.late \/ UpToDate(s))
      /\ r.serial # Absent => r.serial = Serial[d] /\ r.layout = Layout[d]
      /\ r.layout # Absent => r.layout = Layout[d]
      /\ s.found = NoDrive => i \notin Ids
      /\ s.found # NoDrive => /\ i = s.found /\ i \in Ids
                              /\ x.serial = IF s.gains THEN r.serial ELSE drive[i].serial
                              /\ drive[i].layout # Absent => x.layout = drive[i].layout
  BY <1>1, WroteRow
<1>3. /\ Ids' = Ids \cup {i} /\ drive'[i] = x /\ \A k \in Ids \ {i} : drive'[k] = drive[k]
  BY <1>2, RowWritten DEF Wrote
<1>4. /\ docked \subseteq docked' /\ hidden \subseteq hidden' /\ relapsed \subseteq relapsed'
      /\ docked' = IF r.serial = Absent THEN docked ELSE docked \cup {d}
      /\ overtaken' = IF s.late THEN overtaken \cup {d} ELSE overtaken
  BY <1>1 DEF Wrote
<1>5. PICK e \in Disks : e = DiskOf[v]
  BY DrivesAssumption
<1>6. ~Confusable(e)' => ~Confusable(e)
  BY <1>4 DEF Confusable
<1>7. drive'[j].identity # "user"
  BY <1>2, <1>3 DEF Stands
<1>8. ASSUME e \notin relapsed' \cup overtaken', ~Confusable(e)' PROVE Placed(e, drive[j])'
  <2>1. Placed(e, drive[j]) /\ (s.late => e # d)
    BY <1>4, <1>5, <1>6, <1>8 DEF Stands
  <2>2. CASE e \in docked
    <3>1. drive[j].serial = Serial[e] /\ drive[j].serial # Absent /\ e \in docked'
      BY <1>4, <2>1, <2>2 DEF Placed
    <3>2. j = i => x.serial = drive[j].serial
      BY <1>6, <1>8, <3>1, WroteOver
    <3> QED
      BY <1>3, <3>1, <3>2 DEF Placed
  <2>3. CASE e \notin docked
    <3>1. /\ e \in hidden /\ e \in hidden' /\ drive[j].serial = Absent
          /\ drive[j].layout = Layout[e] /\ Layout[e] # Absent
      BY <1>4, <2>1, <2>3 DEF Placed
    <3>2. CASE j = i
      <4>1. drive[i].layout = r.layout /\ x.layout = Layout[e] /\ r.layout = Layout[d]
        BY <1>1, <1>2, <3>1, <3>2 DEF Looks, Meant
      <4>2. e = d
        BY <1>2, <1>4, <1>8, <3>1, <3>2, <4>1 DEF Confusable
      <4>3. s.gains \/ r.serial = Absent
        BY <1>1, <1>2, <2>1, <3>1, <3>2, <4>2 DEF UpToDate
      <4>4. CASE r.serial # Absent
        <5>1. x.serial = Serial[d] /\ d \in docked'
          BY <1>2, <1>4, <3>2, <4>3, <4>4
        <5> QED
          BY <1>2, <1>3, <3>2, <4>2, <4>4, <5>1 DEF Placed
      <4>5. CASE r.serial = Absent
        <5>1. x.serial = Absent /\ docked' = docked
          BY <1>1, <1>2, <1>4, <3>1, <3>2, <4>5 DEF Looks
        <5> QED
          BY <1>3, <2>3, <3>1, <3>2, <4>1, <5>1 DEF Placed
      <4> QED
        BY <4>4, <4>5
    <3>3. CASE j # i /\ (e # d \/ r.serial = Absent)
      BY <1>3, <1>4, <2>3, <3>1, <3>3 DEF Placed
    <3>4. CASE j # i /\ e = d /\ r.serial # Absent
      <4>1. UpToDate(s) /\ r.layout = drive[j].layout
        BY <1>2, <2>1, <3>1, <3>4
      <4>2. s.found # NoDrive
        BY <1>1, <3>1, <3>4, <4>1 DEF UpToDate, ByLayout, Wrote
      <4>3. drive[i].layout # drive[j].layout
        BY <1>2, <3>1, <3>4, <4>2 DEF DrivesInv, RowsUnique
      <4>4. drive[i].serial = r.serial
        BY <1>1, <1>2, <4>1, <4>2, <4>3 DEF UpToDate, Looks
      <4>5. PICK f \in docked : drive[i].serial = Serial[f]
        BY <1>2, <3>4, <4>2, <4>4 DEF DrivesInv, RowInv
      <4>6. f = d
        BY <1>2, <3>4, <4>4, <4>5, DrivesAssumption DEF DrivesInv, DrivesTypeOK
      <4> QED
        BY <2>3, <3>4, <4>5, <4>6
    <3> QED
      BY <3>2, <3>3, <3>4
  <2> QED
    BY <2>2, <2>3
<1> QED
  BY <1>5, <1>7, <1>8 DEF Stands

(* The volume that is recorded stands on the row.                          *)
LEMMA WroteFor ==
    ASSUME DrivesInv, NEW p \in Writers, NEW i, NEW x, NEW d, Wrote(p, i, x, d),
           NEW v, v = doing[p].vol
    PROVE  Stands(v, i)'
<1>1. PICK s, r : s = doing[p] /\ r = s.report
  OBVIOUS
<1>2. /\ d = DiskOf[s.vol] /\ d \in Disks /\ x \in DriveRow /\ x.identity # "user"
      /\ Looks(s) /\ (s.late \/ UpToDate(s))
      /\ r.serial # Absent => r.serial = Serial[d] /\ r.layout = Layout[d]
      /\ r.layout # Absent => r.layout = Layout[d]
      /\ s.found = NoDrive => /\ i \notin Ids /\ x.serial = r.serial
                              /\ x.layout = IF s.keeps THEN r.layout ELSE Absent
      /\ s.found # NoDrive => /\ i = s.found /\ i \in Ids
                              /\ x.serial = IF s.gains THEN r.serial ELSE drive[i].serial
                              /\ drive[i].layout # Absent => x.layout = drive[i].layout
  BY <1>1, WroteRow
<1>6. s.at = "drive"
  BY <1>1 DEF Wrote
<1>3. drive'[i] = x
  BY <1>2, RowWritten DEF Wrote
<1>4. /\ hidden \subseteq hidden'
      /\ docked' = IF r.serial = Absent THEN docked ELSE docked \cup {d}
      /\ r.serial = Absent => d \in hidden' /\ (d \in docked => d \in relapsed')
      /\ s.late => d \in overtaken'
  BY <1>1 DEF Wrote
<1>5. ASSUME d \notin relapsed' \cup overtaken', ~Confusable(d)' PROVE Placed(d, drive[i])'
  <2>1. UpToDate(s)
    BY <1>2, <1>4, <1>5
  <2>2. CASE r.serial # Absent
    <3>1. x.serial = r.serial
      BY <1>1, <1>2, <2>1, <2>2 DEF UpToDate
    <3> QED
      BY <1>2, <1>3, <1>4, <2>2, <3>1 DEF Placed
  <2>3. CASE r.serial = Absent
    <3>1. d \notin docked /\ d \notin docked' /\ d \in hidden' /\ r.layout # Absent /\ r.layout = Layout[d]
      BY <1>1, <1>2, <1>4, <1>5, <2>3 DEF Looks
    <3>2. x.serial = Absent
      BY <1>1, <1>2, <2>1, <2>3 DEF UpToDate, Looks
    <3>3. CASE s.found # NoDrive
      BY <1>1, <1>2, <1>3, <2>3, <3>1, <3>2, <3>3 DEF Placed, Looks, Meant
    <3>4. CASE s.found = NoDrive
      <4>1. ASSUME NEW j \in Ids, drive[j].layout = r.layout PROVE FALSE
        <5>1. drive[j].serial # Absent
          BY <1>1, <1>6, <2>1, <3>1, <3>4, <4>1 DEF UpToDate, ByLayout
        <5>2. PICK e \in docked : drive[j].layout = Layout[e]
          BY <3>1, <4>1, <5>1 DEF DrivesInv, RowInv
        <5>3. e \in Disks
          BY DEF DrivesInv, DrivesTypeOK
        <5> QED
          BY <1>5, <3>1, <4>1, <5>2, <5>3, <1>2 DEF Confusable
      <4>3. LayoutFree(r.layout, s.found)
        BY <4>1 DEF LayoutFree
      <4>2. s.keeps
        BY <1>1, <1>6, <2>1, <3>1, <4>3 DEF UpToDate
      <4> QED
        BY <1>2, <1>3, <3>1, <3>2, <3>4, <4>2 DEF Placed
    <3> QED
      BY <3>3, <3>4
  <2> QED
    BY <2>2, <2>3
<1> QED
  BY <1>1, <1>2, <1>3, <1>5 DEF Stands

(* What another program has looked at is as it was, unless it is late.     *)
LEMMA WroteBesides ==
    ASSUME DrivesInv, NEW p \in Writers, NEW i, NEW x, NEW d, Wrote(p, i, x, d),
           NEW q \in Writers, q # p, NEW t, t = doing[q], t.at \in Looking,
           NEW u, u = doing'[q]
    PROVE  Looks(u)' /\ (u.late \/ UpToDate(u)')
<1>1. PICK s, r : s = doing[p] /\ r = s.report
  OBVIOUS
<1>2. /\ x \in DriveRow
      /\ s.found = NoDrive => i \notin Ids
      /\ s.found # NoDrive => /\ i = s.found /\ i \in Ids
                              /\ drive[i].layout # Absent => x.layout = drive[i].layout
  BY <1>1, WroteRow
<1>3. /\ Ids' = Ids \cup {i} /\ drive'[i] = x /\ \A k \in Ids \ {i} : drive'[k] = drive[k]
  BY <1>2, RowWritten DEF Wrote
<1>4. /\ t \in [at : Looking \cup Storing, vol : Volumes, report : ReportType, found : Nat,
                gains : BOOLEAN, keeps : BOOLEAN, late : BOOLEAN]
      /\ Looks(t) /\ (t.late \/ UpToDate(t)) /\ t.found \in Ids \cup {NoDrive} /\ NoDrive \notin Ids
  BY WriterIs DEF WriterInv
<1>5. /\ u.at = t.at /\ u.vol = t.vol /\ u.report = t.report /\ u.found = t.found
      /\ u.gains = t.gains /\ u.keeps = t.keeps
      /\ ~u.late => ~t.late /\ ~Touches(x, t)
  BY <1>4 DEF Wrote
<1>6. PICK w, e : w = t.report /\ e = DiskOf[t.vol]
  OBVIOUS
<1>7. /\ e \in Disks
      /\ w.serial # Absent => w.layout = Layout[e]
      /\ \A f \in Disks : w.serial # Absent /\ Serial[f] = w.serial => f = e
  BY <1>4, <1>6, ReportIs DEF Looks
<1>8. \A k \in Ids : drive[k].layout # Absent => drive'[k].layout = drive[k].layout
  BY <1>2, <1>3
<1>9. ASSUME i \in Ids, w.serial # Absent, drive[i].serial = w.serial, x.serial # w.serial
      PROVE  w.layout # Absent /\ x.layout = w.layout
  <2>1. s.gains /\ s.found # NoDrive /\ drive[i].layout # Absent
    BY <1>1, <1>9, WroteRow DEF Looks
  <2>2. PICK f \in docked : drive[i].serial = Serial[f] /\ drive[i].layout = Layout[f]
    BY <1>9, <2>1 DEF DrivesInv, RowInv
  <2>3. f = e
    BY <1>7, <1>9, <2>2 DEF DrivesInv, DrivesTypeOK
  <2> QED
    BY <1>2, <1>7, <1>9, <2>1, <2>2, <2>3
<1>10. t.found # NoDrive => Meant(w, drive[t.found])'
  <2> SUFFICES ASSUME t.found # NoDrive PROVE Meant(w, drive'[t.found])
    BY DEF Meant
  <2>1. Meant(w, drive[t.found]) /\ t.found \in Ids
    BY <1>4, <1>6 DEF Looks
  <2>2. CASE t.found = i
    BY <1>3, <1>8, <1>9, <2>1, <2>2 DEF Meant
  <2>3. CASE t.found # i
    BY <1>3, <2>1, <2>3 DEF Meant
  <2> QED
    BY <2>2, <2>3
<1>11. hidden \subseteq hidden'
  BY DEF Wrote
<1>12. Looks(u)'
  <2>1. t.gains => drive'[t.found].layout = w.layout
    BY <1>4, <1>6, <1>8 DEF Looks
  <2>2. ASSUME t.gains PROVE drive'[t.found].serial = w.serial \/ \E h \in hidden' : Layout[h] = w.layout
    <3>1. /\ t.found \in Ids /\ w.serial # Absent /\ drive[t.found].layout = w.layout
          /\ drive[t.found].serial = w.serial \/ \E h \in hidden : Layout[h] = w.layout
      BY <1>4, <1>6, <2>2 DEF Looks
    <3>2. CASE t.found = i /\ drive[i].serial = w.serial /\ x.serial # w.serial
      BY <1>11, <3>1, <3>2, WroteOver
    <3> QED
      BY <1>3, <1>11, <3>1, <3>2
  <2> QED
    BY <1>4, <1>5, <1>6, <1>10, <2>1, <2>2 DEF Looks, Reports
<1>13. ASSUME ~u.late PROVE UpToDate(u)'
  <2>1. UpToDate(t) /\ (w.serial # Absent => x.serial # w.serial) /\ (w.layout # Absent => x.layout # w.layout)
    BY <1>4, <1>5, <1>6, <1>13 DEF Touches
  <2>2. t.found # NoDrive => t.found # i
    <3> SUFFICES ASSUME t.found = i, i \in Ids PROVE FALSE
      BY <1>4
    <3>1. Meant(w, drive'[i])
      BY <1>4, <1>10
    <3> QED
      BY <1>3, <2>1, <3>1 DEF Meant
  <2>3. BySerial(w.serial) = {} => BySerial(w.serial)' = {}
    BY <1>3, <2>1 DEF BySerial
  <2>4. ByLayout(w.serial, w.layout) = {} => ByLayout(w.serial, w.layout)' = {}
    BY <1>3, <2>1 DEF ByLayout
  <2>5. w.layout # Absent => LayoutFree(w.layout, t.found)' = LayoutFree(w.layout, t.found)
    <3>1. w.layout # Absent /\ i \in Ids => drive[i].layout # w.layout
      BY <1>3, <1>8, <2>1
    <3> QED
      BY <1>3, <2>1, <3>1 DEF LayoutFree
  <2>6. /\ t.found = NoDrive => /\ BySerial(w.serial) = {}
                                /\ t.at # "layout" => ByLayout(w.serial, w.layout) = {}
        /\ t.found # NoDrive => drive[t.found].serial = IF t.gains THEN Absent ELSE w.serial
        /\ t.at = "drive" /\ w.layout # Absent => t.keeps = LayoutFree(w.layout, t.found)
    BY <1>6, <2>1 DEF UpToDate
  <2>7. t.found # NoDrive => drive'[t.found] = drive[t.found]
    BY <1>3, <1>4, <2>2
  <2>8. /\ t.found = NoDrive => /\ BySerial(w.serial)' = {}
                                /\ t.at # "layout" => ByLayout(w.serial, w.layout)' = {}
        /\ t.found # NoDrive => drive'[t.found].serial = IF t.gains THEN Absent ELSE w.serial
        /\ t.at = "drive" /\ w.layout # Absent => t.keeps = LayoutFree(w.layout, t.found)'
    BY <2>3, <2>4, <2>5, <2>6, <2>7
  <2> QED
    BY <1>5, <1>6, <2>8 DEF UpToDate
<1> QED
  BY <1>12, <1>13

(* A program's record after another's step changed nothing it looks at.    *)
LEMMA WriterLater ==
    ASSUME NEW t \in WriterType, NEW u, u = t \/ (t \notin {AtRest} /\ u = [t EXCEPT !.late = TRUE])
    PROVE  /\ u \in WriterType /\ (u = AtRest <=> t = AtRest) /\ u.at = t.at
           /\ t # AtRest => u.found = t.found /\ u.vol = t.vol /\ (t.late => u.late)
           /\ u # t => u.late
<1>1. CASE u = t
  BY <1>1
<1>2. CASE t # AtRest /\ u = [t EXCEPT !.late = TRUE]
  <2>1. CASE t \in [at : Looking \cup Storing, vol : Volumes, report : ReportType, found : Nat,
                    gains : BOOLEAN, keeps : BOOLEAN, late : BOOLEAN]
    <3>1. /\ u \in [at : Looking \cup Storing, vol : Volumes, report : ReportType, found : Nat,
                    gains : BOOLEAN, keeps : BOOLEAN, late : BOOLEAN]
          /\ u.at = t.at /\ u.found = t.found /\ u.vol = t.vol /\ u.late = TRUE
      BY <1>2, <2>1
    <3>2. u.at # "rest"
      BY <3>1 DEF Looking, Storing
    <3> QED
      BY <1>2, <3>1, <3>2 DEF WriterType, AtRest
  <2>2. CASE t \in [at : Naming, vol : Volumes, found : Nat, late : BOOLEAN]
    <3>1. /\ u \in [at : Naming, vol : Volumes, found : Nat, late : BOOLEAN]
          /\ u.at = t.at /\ u.found = t.found /\ u.vol = t.vol /\ u.late = TRUE
      BY <1>2, <2>2
    <3>2. u.at # "rest"
      BY <3>1 DEF Naming
    <3> QED
      BY <1>2, <3>1, <3>2 DEF WriterType, AtRest
  <2> QED
    BY <1>2, <2>1, <2>2 DEF WriterType
<1> QED
  BY <1>1, <1>2

LEMMA WritingDriveKeeps ==
    ASSUME DrivesInv, NEW p \in Writers, WriteDrive(p) PROVE DrivesInv'
<1>1. PICK i, x, d : Wrote(p, i, x, d)
  BY WriteDriveWrote
<1>2. PICK s : s = doing[p]
  OBVIOUS
<1>3. x \in DriveRow /\ d \in Disks /\ s.vol \in Volumes
  BY <1>1, <1>2, WroteRow
<1>4. /\ drive' \in Seq(DriveRow) /\ Len(drive) <= Len(drive') /\ i \in Ids' /\ i # NoDrive
      /\ Ids \subseteq Ids' /\ driveOf \in [Volumes -> 0 .. Len(drive')]
  BY <1>1, <1>3, RowWritten DEF Wrote
<1>5. /\ doing' = [q \in Writers |->
                     IF q = p THEN [s EXCEPT !.at = "volume", !.found = i]
                     ELSE IF Touches(x, doing[q]) THEN [doing[q] EXCEPT !.late = TRUE] ELSE doing[q]]
      /\ UNCHANGED <<recorded, driveOf, acts, said>>
  BY <1>1, <1>2 DEF Wrote
<1>6. DrivesTypeOK'
  <2>1. docked' \subseteq Disks /\ hidden' \subseteq Disks /\ relapsed' \subseteq Disks /\ overtaken' \subseteq Disks
    BY <1>1, <1>3 DEF DrivesInv, DrivesTypeOK, Wrote
  <2>2. DOMAIN doing' = Writers
    BY <1>5
  <2> QED
    BY <1>4, <1>5, <2>1, <2>2 DEF DrivesTypeOK, DrivesInv
<1>7. RowsUnique' /\ \A j \in Ids' : RowInv(j)'
  BY <1>1, WroteRowInv
<1>8. \A v \in Volumes : Identified(v)' <=> Identified(v)
  BY <1>5 DEF Identified
<1>9. ASSUME NEW v \in Volumes PROVE VolumeInv(v)'
  <2> SUFFICES ASSUME Identified(v) PROVE Stands(v, driveOf[v])'
    BY <1>5, <1>8 DEF VolumeInv
  <2>1. driveOf[v] \in Ids /\ driveOf'[v] = driveOf[v]
    BY <1>5 DEF Identified, DrivesInv, DrivesTypeOK, Ids, NoDrive
  <2>2. PICK j \in Ids : j = driveOf[v] /\ j = driveOf'[v]
    BY <2>1
  <2>3. Stands(v, j)
    BY <2>2 DEF DrivesInv, VolumeInv
  <2>4. Stands(v, j)'
    BY <1>1, <2>3, WroteStands
  <2> QED
    BY <2>2, <2>4
<1>10. WriterInv(doing[p])'
  <2>1. s \in [at : Looking \cup Storing, vol : Volumes, report : ReportType, found : Nat,
               gains : BOOLEAN, keeps : BOOLEAN, late : BOOLEAN]
    BY <1>1, <1>2, WriterIs DEF Wrote, Looking
  <2>2. PICK u : u = doing'[p]
    OBVIOUS
  <2>3. i \in Nat
    BY <1>4 DEF Ids
  <2>4. "volume" \in Looking \cup Storing /\ "volume" \in Storing /\ "volume" \notin Looking \cup Naming
    BY DEF Looking, Storing, Naming
  <2>5. u = [s EXCEPT !.at = "volume", !.found = i]
    BY <1>5, <2>2
  <2>6. /\ u \in [at : Looking \cup Storing, vol : Volumes, report : ReportType, found : Nat,
                  gains : BOOLEAN, keeps : BOOLEAN, late : BOOLEAN]
        /\ u.at = "volume" /\ u.found = i /\ u.vol = s.vol
    BY <2>1, <2>3, <2>4, <2>5
  <2>7. PICK v : v = s.vol
    OBVIOUS
  <2>8. Stands(v, i)'
    BY <1>1, <1>2, <2>7, WroteFor
  <2>9. WriterInv(u)'
    BY <1>4, <2>4, <2>6, <2>7, <2>8 DEF WriterInv, WriterType
  <2> QED
    BY <2>2, <2>9
<1>11. ASSUME NEW q \in Writers, q # p PROVE WriterInv(doing[q])'
  <2>1. PICK t, u : t = doing[q] /\ u = doing'[q]
    OBVIOUS
  <2>2. WriterInv(t) /\ t \in WriterType
    BY <2>1, WriterIs DEF WriterInv
  <2>3. u = t \/ (t \notin {AtRest} /\ u = [t EXCEPT !.late = TRUE])
    BY <1>5, <1>11, <2>1 DEF Touches, Looking, AtRest
  <2>4. /\ u \in WriterType /\ (u = AtRest <=> t = AtRest) /\ u.at = t.at
        /\ t # AtRest => u.found = t.found /\ u.vol = t.vol /\ (t.late => u.late)
    BY <2>2, <2>3, WriterLater
  <2>5. u # AtRest => u.found \in Ids' \cup {NoDrive}
    BY <1>4, <2>2, <2>4 DEF WriterInv
  <2>6. u.at \in Looking => Looks(u)' /\ (u.late \/ UpToDate(u)')
    BY <1>1, <1>11, <2>1, <2>4, WroteBesides
  <2>7. ASSUME u.at \in Storing, u.found # NoDrive PROVE Stands(u.vol, u.found)'
    <3>1. t # AtRest
      BY <2>4, <2>7 DEF Storing, AtRest
    <3>2. PICK v, j : v = t.vol /\ j = t.found
      OBVIOUS
    <3>3. v \in Volumes /\ j \in Ids /\ Stands(v, j)
      BY <2>1, <2>2, <2>4, <2>7, <3>1, <3>2, WriterIs DEF WriterInv
    <3>4. Stands(v, j)'
      BY <1>1, <3>3, WroteStands
    <3> QED
      BY <2>4, <3>1, <3>2, <3>4
  <2>8. u.at \in Naming => u.late \/ ~Identified(u.vol)'
    <3> SUFFICES ASSUME u.at \in Naming, ~u.late PROVE ~Identified(u.vol)'
      OBVIOUS
    <3>1. t # AtRest /\ u.vol = t.vol /\ ~t.late
      BY <2>4 DEF Naming, AtRest
    <3>2. ~Identified(t.vol) /\ t.vol \in Volumes
      BY <2>1, <2>2, <2>4, <3>1, WriterIs DEF WriterInv
    <3> QED
      BY <1>8, <3>1, <3>2
  <2>9. u.at = "name" => u.found # NoDrive
    BY <2>2, <2>4 DEF WriterInv, AtRest
  <2>10. WriterInv(u)'
    BY <2>4, <2>5, <2>6, <2>7, <2>8, <2>9 DEF WriterInv
  <2> QED
    BY <2>1, <2>10
<1> QED
  BY <1>6, <1>7, <1>9, <1>10, <1>11 DEF DrivesInv

-----------------------------------------------------------------------------
(* The other steps.                                                        *)
LEMMA TableStays ==
    ASSUME UNCHANGED <<drive, docked, hidden, relapsed, overtaken>>
    PROVE  /\ Ids' = Ids /\ (RowsUnique => RowsUnique') /\ \A i : RowInv(i) => RowInv(i)'
           /\ \A t : (Looks(t) => Looks(t)') /\ (UpToDate(t) => UpToDate(t)')
           /\ \A v, i : Stands(v, i) => Stands(v, i)'
<1>1. Ids' = Ids
  BY DEF Ids
<1>2. RowsUnique => RowsUnique'
  BY <1>1 DEF RowsUnique
<1>3. ASSUME NEW i PROVE RowInv(i) => RowInv(i)'
  BY DEF RowInv
<1>4. ASSUME NEW t PROVE Looks(t) => Looks(t)'
  BY DEF Looks, Meant, Reports
<1>5. ASSUME NEW t PROVE UpToDate(t) => UpToDate(t)'
  <2>1. \A x, y : BySerial(x)' = BySerial(x) /\ ByLayout(x, y)' = ByLayout(x, y) /\ LayoutFree(x, y)' = LayoutFree(x, y)
    BY <1>1 DEF BySerial, ByLayout, LayoutFree
  <2> QED
    BY <2>1 DEF UpToDate
<1>6. ASSUME NEW v, NEW i PROVE Stands(v, i) => Stands(v, i)'
  BY DEF Stands, Confusable, Placed
<1> QED
  BY <1>1, <1>2, <1>3, <1>4, <1>5, <1>6

LEMMA GoingOnKeeps ==
    ASSUME DrivesInv, NEW p \in Writers, NEW u, GoOn(p, u), WriterInv(u), acts' \in 0 .. MaxActs,
           UNCHANGED <<drive, recorded, driveOf, docked, hidden, relapsed, said, overtaken>>
    PROVE  DrivesInv'
<1>1. doing' = [doing EXCEPT ![p] = u]
  BY DEF GoOn
<1>2. DrivesTypeOK'
  BY <1>1 DEF DrivesInv, DrivesTypeOK
<1>3. /\ Ids' = Ids /\ RowsUnique' /\ (\A i \in Ids' : RowInv(i)')
      /\ \A t : (Looks(t) => Looks(t)') /\ (UpToDate(t) => UpToDate(t)')
      /\ \A v, i : Stands(v, i) => Stands(v, i)'
  BY TableStays DEF DrivesInv
<1>4. \A v : Identified(v)' <=> Identified(v)
  BY DEF Identified
<1>5. ASSUME NEW v \in Volumes PROVE VolumeInv(v)'
  BY <1>3, <1>4 DEF DrivesInv, VolumeInv
<1>6. ASSUME NEW t, WriterInv(t) PROVE WriterInv(t)'
  BY <1>3, <1>4, <1>6 DEF WriterInv
<1>7. ASSUME NEW q \in Writers PROVE WriterInv(doing[q])'
  <2>1. PICK t : t = doing'[q] /\ (t = u \/ t = doing[q])
    BY <1>1 DEF DrivesInv, DrivesTypeOK
  <2>2. WriterInv(t)
    BY <2>1 DEF DrivesInv
  <2>3. WriterInv(t)'
    BY <1>6, <2>2
  <2> QED
    BY <2>1, <2>3
<1> QED
  BY <1>2, <1>3, <1>5, <1>7 DEF DrivesInv

LEMMA AtRestIs == WriterInv(AtRest)
<1>1. AtRest.at = "rest"
  BY DEF AtRest
<1>2. "rest" \notin Looking \cup Storing \cup Naming /\ "rest" # "name"
  BY DEF Looking, Storing, Naming
<1> QED
  BY <1>1, <1>2 DEF WriterInv, WriterType

(* A program that only looks.                                              *)
LEMMA TheOneIs == ASSUME NEW S, S \subseteq Ids PROVE /\ TheOne(S) \in Ids \cup {NoDrive}
                                                      /\ TheOne(S) = NoDrive <=> S = {}
                                                      /\ TheOne(S) # NoDrive => TheOne(S) \in S
<1>1. NoDrive \notin Ids
  BY DEF Ids, NoDrive
<1> QED
  BY <1>1 DEF TheOne

LEMMA DiscoveringKeeps ==
    ASSUME DrivesInv, NEW p \in Writers, NEW v \in Volumes, DiscoverVolume(p, v) PROVE DrivesInv'
<1>1. PICK r \in Reports(DiskOf[v]) :
        Begin(p, [at |-> IF r.serial = Absent /\ r.layout = Absent THEN "volume"
                         ELSE IF r.layout = Absent THEN "drive"
                         ELSE IF BySerial(r.serial) = {} THEN "layout" ELSE "holder",
                  vol |-> v, report |-> r, found |-> TheOne(BySerial(r.serial)),
                  gains |-> FALSE, keeps |-> FALSE, late |-> FALSE])
  BY DEF DiscoverVolume
<1>2. PICK u : u = [at |-> IF r.serial = Absent /\ r.layout = Absent THEN "volume"
                           ELSE IF r.layout = Absent THEN "drive"
                           ELSE IF BySerial(r.serial) = {} THEN "layout" ELSE "holder",
                    vol |-> v, report |-> r, found |-> TheOne(BySerial(r.serial)),
                    gains |-> FALSE, keeps |-> FALSE, late |-> FALSE]
  OBVIOUS
<1>3. /\ u.vol = v /\ u.report = r /\ u.found = TheOne(BySerial(r.serial))
      /\ u.gains = FALSE /\ u.keeps = FALSE /\ u.late = FALSE
  BY <1>2
<1>4. /\ u.at \in {"volume", "drive", "layout", "holder"}
      /\ u.at = "volume" => r.serial = Absent /\ r.layout = Absent
      /\ u.at # "volume" => r.serial # Absent \/ r.layout # Absent
      /\ u.at = "drive" => r.layout = Absent
      /\ u.at \in {"layout", "holder"} => r.layout # Absent
      /\ u.at = "layout" => BySerial(r.serial) = {}
      /\ u.at = "holder" => BySerial(r.serial) # {}
  BY <1>2
<1>5. /\ u.found \in Ids \cup {NoDrive} /\ (u.found = NoDrive <=> BySerial(r.serial) = {})
      /\ u.found # NoDrive => u.found \in BySerial(r.serial)
  BY <1>3, TheOneIs DEF BySerial
<1>6. r \in ReportType
  BY ReportIs
<1>7. u \in WriterType /\ u # AtRest
  <2>1. u.at \in Looking \cup Storing /\ u.found \in Nat
    BY <1>4, <1>5 DEF Looking, Storing, Ids, NoDrive
  <2>2. u \in [at : Looking \cup Storing, vol : Volumes, report : ReportType, found : Nat,
               gains : BOOLEAN, keeps : BOOLEAN, late : BOOLEAN]
    BY <1>2, <1>3, <1>6, <2>1
  <2>3. u.at # "rest"
    BY <1>4
  <2> QED
    BY <2>2, <2>3 DEF WriterType, AtRest
<1>8. u.at # "volume" => Looks(u) /\ UpToDate(u)
  <2> SUFFICES ASSUME u.at # "volume" PROVE Looks(u) /\ UpToDate(u)
    OBVIOUS
  <2>1. u.found # NoDrive => drive[u.found].serial = r.serial /\ r.serial # Absent
    BY <1>5 DEF BySerial
  <2>2. Looks(u)
    BY <1>3, <1>4, <1>5, <2>1 DEF Looks, Meant
  <2>3. r.layout = Absent => ByLayout(r.serial, r.layout) = {}
    BY DEF ByLayout
  <2>4. UpToDate(u)
    BY <1>3, <1>4, <1>5, <2>1, <2>3 DEF UpToDate
  <2> QED
    BY <2>2, <2>4
<1>9. u.at = "volume" => u.found = NoDrive
  BY <1>4, <1>5 DEF BySerial
<1>10. WriterInv(u)
  BY <1>4, <1>5, <1>7, <1>8, <1>9 DEF WriterInv, Looking, Storing, Naming
<1>11. GoOn(p, u) /\ acts' \in 0 .. MaxActs
  BY <1>1, <1>2, DrivesAssumption DEF Begin, DrivesInv, DrivesTypeOK
<1> QED
  BY <1>10, <1>11, GoingOnKeeps DEF DiscoverVolume

LEMMA LookingKeeps ==
    ASSUME DrivesInv, NEW p \in Writers, LookByLayout(p) \/ LookForHolder(p) \/ LookForVolume(p) \/ WriterEnds(p)
    PROVE  DrivesInv'
<1>1. PICK s : s = doing[p]
  OBVIOUS
<1>2. WriterInv(s) /\ NoDrive \notin Ids
  BY <1>1, WriterIs
<1>3. acts \in 0 .. MaxActs
  BY DEF DrivesInv, DrivesTypeOK
<1>4. CASE WriterEnds(p)
  BY <1>3, <1>4, AtRestIs, GoingOnKeeps DEF WriterEnds
<1>5. s.at \in Looking \cup Storing =>
        s \in [at : Looking \cup Storing, vol : Volumes, report : ReportType, found : Nat,
               gains : BOOLEAN, keeps : BOOLEAN, late : BOOLEAN]
  BY <1>1, WriterIs
<1>6. CASE LookForVolume(p)
  <2>1. s.at = "volume" /\ GoOn(p, [s EXCEPT !.at = IF s.vol \in recorded THEN "update" ELSE "insert"])
    BY <1>1, <1>6 DEF LookForVolume
  <2>2. PICK u : u = [s EXCEPT !.at = IF s.vol \in recorded THEN "update" ELSE "insert"]
    OBVIOUS
  <2>3. /\ u \in [at : Looking \cup Storing, vol : Volumes, report : ReportType, found : Nat,
                  gains : BOOLEAN, keeps : BOOLEAN, late : BOOLEAN]
        /\ u.at \in {"update", "insert"} /\ u.vol = s.vol /\ u.found = s.found
    BY <1>5, <2>1, <2>2 DEF Looking, Storing
  <2>4. WriterInv(u)
    BY <1>2, <2>1, <2>3 DEF WriterInv, WriterType, Looking, Storing, Naming, AtRest
  <2> QED
    BY <1>3, <1>6, <2>1, <2>2, <2>4, GoingOnKeeps DEF LookForVolume
<1>7. CASE LookForHolder(p)
  <2>1. /\ s.at = "holder"
        /\ GoOn(p, [s EXCEPT !.at = "drive", !.keeps = LayoutFree(s.report.layout, s.found)])
    BY <1>1, <1>7 DEF LookForHolder
  <2>2. PICK u : u = [s EXCEPT !.at = "drive", !.keeps = LayoutFree(s.report.layout, s.found)]
    OBVIOUS
  <2>3. /\ u \in [at : Looking \cup Storing, vol : Volumes, report : ReportType, found : Nat,
                  gains : BOOLEAN, keeps : BOOLEAN, late : BOOLEAN]
        /\ u.at = "drive" /\ u.vol = s.vol /\ u.found = s.found /\ u.report = s.report
        /\ u.gains = s.gains /\ u.late = s.late /\ u.keeps = LayoutFree(s.report.layout, s.found)
    <3>1. LayoutFree(s.report.layout, s.found) \in BOOLEAN
      BY DEF LayoutFree
    <3> QED
      BY <1>5, <2>1, <2>2, <3>1 DEF Looking, Storing
  <2>4. Looks(s) /\ (s.late \/ UpToDate(s)) /\ s.found \in Ids \cup {NoDrive}
    BY <1>2, <2>1 DEF WriterInv, Looking, AtRest
  <2>5. Looks(u)
    BY <2>1, <2>3, <2>4 DEF Looks
  <2>6. u.late \/ UpToDate(u)
    BY <2>1, <2>3, <2>4 DEF UpToDate
  <2>7. WriterInv(u)
    BY <2>3, <2>4, <2>5, <2>6 DEF WriterInv, WriterType, Looking, Storing, Naming
  <2> QED
    BY <1>3, <1>7, <2>1, <2>2, <2>7, GoingOnKeeps DEF LookForHolder
<1>8. CASE LookByLayout(p)
  <2> DEFINE r == s.report
             found == ByLayout(r.serial, r.layout)
  <2>1. /\ s.at = "layout"
        /\ GoOn(p, [s EXCEPT !.at = "holder", !.found = TheOne(found), !.gains = found # {} /\ r.serial # Absent])
    BY <1>1, <1>8 DEF LookByLayout
  <2>3. Looks(s) /\ (s.late \/ UpToDate(s))
    BY <1>2, <2>1 DEF WriterInv, Looking
  <2>10. /\ found \subseteq Ids
         /\ \A i \in found : r.layout # Absent /\ drive[i].layout = r.layout
         /\ \A i \in found : drive[i].serial = Absent \/ (r.serial # Absent /\ drive[i].serial = r.serial)
    BY DEF ByLayout
  <2>2. PICK w, y : w = TheOne(found) /\ y = (found # {} /\ r.serial # Absent)
    OBVIOUS
  <2> HIDE DEF found
  <2>11. PICK u : u = [s EXCEPT !.at = "holder", !.found = w, !.gains = y]
    OBVIOUS
  <2>4. /\ w \in Ids \cup {NoDrive} /\ w \in Nat /\ (w = NoDrive <=> found = {})
        /\ w # NoDrive => /\ r.layout # Absent /\ drive[w].layout = r.layout
                          /\ drive[w].serial = Absent \/ (r.serial # Absent /\ drive[w].serial = r.serial)
    <3>1. w \in Ids \cup {NoDrive} /\ (w = NoDrive <=> found = {}) /\ (w # NoDrive => w \in found)
      BY <2>2, <2>10, TheOneIs
    <3>2. Ids \cup {NoDrive} \subseteq Nat
      BY DEF Ids, NoDrive
    <3>3. w \in Nat
      BY <3>1, <3>2
    <3>4. ASSUME w # NoDrive
          PROVE  /\ r.layout # Absent /\ drive[w].layout = r.layout
                 /\ drive[w].serial = Absent \/ (r.serial # Absent /\ drive[w].serial = r.serial)
      <4>1. w \in found
        BY <3>1, <3>4
      <4> QED
        BY <2>10, <4>1
    <3> QED
      BY <3>1, <3>3, <3>4
  <2>5. /\ u \in [at : Looking \cup Storing, vol : Volumes, report : ReportType, found : Nat,
                  gains : BOOLEAN, keeps : BOOLEAN, late : BOOLEAN]
        /\ u.at = "holder" /\ u.vol = s.vol /\ u.found = w /\ u.report = r
        /\ u.gains = (found # {} /\ r.serial # Absent) /\ u.late = s.late /\ u.keeps = s.keeps
    BY <1>5, <2>1, <2>2, <2>4, <2>11 DEF Looking, Storing
  <2>6. s.found = NoDrive /\ s.report.layout # Absent
    BY <2>1, <2>3 DEF Looks
  <2>7. Looks(u)
    <3>1. ASSUME u.gains PROVE drive[u.found].serial = r.serial \/ \E h \in hidden : Layout[h] = r.layout
      <4>1. u.found \in Ids /\ drive[u.found].layout = r.layout /\ drive[u.found].serial \in {Absent, r.serial}
        BY <2>4, <2>5, <3>1
      <4> QED
        BY <2>6, <4>1 DEF DrivesInv, RowInv
    <3> QED
      BY <2>3, <2>4, <2>5, <2>6, <3>1 DEF Looks, Meant
  <2>8. u.late \/ UpToDate(u)
    <3> SUFFICES ASSUME UpToDate(s) PROVE UpToDate(u)
      BY <2>3, <2>5
    <3>1. BySerial(r.serial) = {}
      BY <2>6 DEF UpToDate
    <3>2. u.found # NoDrive => drive[u.found].serial = Absent /\ (u.gains <=> r.serial # Absent)
      BY <2>4, <2>5, <3>1 DEF BySerial
    <3> QED
      BY <2>4, <2>5, <3>1, <3>2 DEF UpToDate, found
  <2>9. WriterInv(u)
    BY <2>4, <2>5, <2>7, <2>8 DEF WriterInv, WriterType, Looking, Storing, Naming, AtRest
  <2> QED
    BY <1>3, <1>8, <2>1, <2>2, <2>9, <2>11, GoingOnKeeps DEF LookByLayout
<1> QED
  BY <1>4, <1>6, <1>7, <1>8

(* The user's word: what is checked, the row that it may make, and the     *)
(* drive that the volume is given.                                         *)
LEMMA NamingKeeps ==
    ASSUME DrivesInv, NEW p \in Writers, NEW v \in Volumes, NameDriveOf(p, v) PROVE DrivesInv'
<1>1. PICK i \in Ids \cup {NoDrive} :
        Begin(p, [at |-> IF i = NoDrive THEN "create" ELSE "name", vol |-> v, found |-> i, late |-> FALSE])
  BY DEF NameDriveOf
<1>2. PICK u : u = [at |-> IF i = NoDrive THEN "create" ELSE "name", vol |-> v, found |-> i, late |-> FALSE]
  OBVIOUS
<1>3. ~Identified(v)
  <2>1. Unverified(v)
    BY DEF NameDriveOf
  <2> QED
    BY <2>1 DEF Unverified, Identified, DrivesInv, VolumeInv, Stands
<1>4. /\ u \in [at : Naming, vol : Volumes, found : Nat, late : BOOLEAN]
      /\ u.at \in {"create", "name"} /\ u.vol = v /\ u.found = i /\ (u.at = "name" => i # NoDrive)
  BY <1>2 DEF Naming, Ids, NoDrive
<1>5. WriterInv(u)
  BY <1>3, <1>4 DEF WriterInv, WriterType, Looking, Storing, Naming
<1>6. GoOn(p, u) /\ acts' \in 0 .. MaxActs
  BY <1>1, <1>2, DrivesAssumption DEF Begin, DrivesInv, DrivesTypeOK
<1> QED
  BY <1>5, <1>6, GoingOnKeeps DEF NameDriveOf

LEMMA CreatingKeeps ==
    ASSUME DrivesInv, NEW p \in Writers, CreateDrive(p)
    PROVE  DrivesInv' /\ \A i \in Ids : drive'[i] = drive[i]
<1>1. PICK s, x, i : /\ s = doing[p] /\ i = Len(drive) + 1
                     /\ x = [serial |-> Absent, layout |-> Absent, identity |-> "user"]
  OBVIOUS
<1>2. /\ s.at = "create" /\ drive' = Append(drive, x)
      /\ UNCHANGED <<recorded, driveOf, acts, docked, hidden, relapsed, said, overtaken>>
      /\ doing' = [doing EXCEPT ![p] = [s EXCEPT !.at = "name", !.found = i]]
  BY <1>1 DEF CreateDrive, GoOn
<1>3. x \in DriveRow /\ x.serial = Absent /\ x.layout = Absent
  BY <1>1 DEF DriveRow
<1>4. /\ drive' \in Seq(DriveRow) /\ i \in Ids' /\ i # NoDrive /\ drive'[i] = x /\ Ids' = Ids \cup {i}
      /\ \A j \in Ids \ {i} : drive'[j] = drive[j]
      /\ driveOf \in [Volumes -> 0 .. Len(drive')]
  BY <1>1, <1>2, <1>3, RowWritten
<1>5. i \notin Ids /\ i \in Nat /\ NoDrive \notin Ids
  <2>1. Len(drive) \in Nat
    BY DEF DrivesInv, DrivesTypeOK
  <2> QED
    BY <1>1, <2>1 DEF Ids, NoDrive
<1>6. \A j \in Ids : drive'[j] = drive[j]
  BY <1>4, <1>5
<1>7. DrivesTypeOK'
  BY <1>2, <1>4 DEF DrivesInv, DrivesTypeOK
<1>8. RowsUnique'
  BY <1>3, <1>4, <1>6 DEF RowsUnique, DrivesInv
<1>9. ASSUME NEW j \in Ids' PROVE RowInv(j)'
  <2>1. CASE j = i
    BY <1>3, <1>4, <2>1 DEF RowInv
  <2>2. CASE j # i
    <3>1. RowInv(j) /\ drive'[j] = drive[j]
      BY <1>4, <2>2 DEF DrivesInv
    <3> QED
      BY <1>2, <3>1 DEF RowInv
  <2> QED
    BY <2>1, <2>2
<1>10. ASSUME NEW v, NEW j \in Ids, Stands(v, j) PROVE Stands(v, j)'
  BY <1>2, <1>6, <1>10 DEF Stands, Placed, Confusable
<1>11. \A v : Identified(v)' <=> Identified(v)
  BY <1>2 DEF Identified
<1>12. ASSUME NEW v \in Volumes PROVE VolumeInv(v)'
  <2>1. Identified(v) => driveOf[v] \in Ids /\ driveOf'[v] = driveOf[v] /\ Stands(v, driveOf[v])
    BY <1>2 DEF Identified, DrivesInv, DrivesTypeOK, VolumeInv, Ids, NoDrive
  <2>2. PICK j : j = driveOf[v] /\ j = driveOf'[v]
    BY <1>2
  <2> QED
    BY <1>10, <1>11, <2>1, <2>2 DEF VolumeInv
<1>13. ASSUME NEW t, WriterInv(t), t.at \in Looking,
              t.found \in Ids \cup {NoDrive}
       PROVE  Looks(t)' /\ (t.late \/ UpToDate(t)')
  <2>1. Looks(t) /\ (t.late \/ UpToDate(t))
    BY <1>13 DEF WriterInv
  <2>2. Looks(t)'
    BY <1>2, <1>6, <1>13, <2>1 DEF Looks, Meant, Reports
  <2>3. \A y : BySerial(y)' = BySerial(y)
    BY <1>3, <1>4, <1>6 DEF BySerial
  <2>4. \A y, z : ByLayout(y, z)' = ByLayout(y, z)
    BY <1>3, <1>4, <1>6 DEF ByLayout
  <2>5. \A y, z : y # Absent => (LayoutFree(y, z)' <=> LayoutFree(y, z))
    BY <1>3, <1>4, <1>6 DEF LayoutFree
  <2>6. UpToDate(t) => UpToDate(t)'
    <3>1. \A y, z : y # Absent => LayoutFree(y, z)' = LayoutFree(y, z)
      BY <2>5 DEF LayoutFree
    <3> QED
      BY <1>6, <1>13, <2>3, <2>4, <3>1 DEF UpToDate
  <2> QED
    BY <2>1, <2>2, <2>6
<1>14. ASSUME NEW t, WriterInv(t) PROVE WriterInv(t)'
  <2>1. t # AtRest => t.found \in Ids \cup {NoDrive}
    BY <1>14 DEF WriterInv
  <2>2. t.at \in Looking \cup Storing => t # AtRest
    BY DEF Looking, Storing, AtRest
  <2>3. t.at \in Storing /\ t.found # NoDrive => Stands(t.vol, t.found)'
    BY <1>10, <1>14, <2>1, <2>2 DEF WriterInv
  <2> QED
    BY <1>4, <1>11, <1>13, <1>14, <2>1, <2>2, <2>3 DEF WriterInv
<1>15. PICK u : u = [s EXCEPT !.at = "name", !.found = i]
  OBVIOUS
<1>16. WriterInv(u)'
  <2>1. s \in [at : Naming, vol : Volumes, found : Nat, late : BOOLEAN] /\ WriterInv(s)
    BY <1>1, <1>2, WriterIs DEF Naming
  <2>2. /\ u \in [at : Naming, vol : Volumes, found : Nat, late : BOOLEAN]
        /\ u.at = "name" /\ u.found = i /\ u.vol = s.vol /\ u.late = s.late
    BY <1>5, <1>15, <2>1 DEF Naming
  <2>3. u.late \/ ~Identified(u.vol)'
    BY <1>2, <1>11, <2>1, <2>2 DEF WriterInv, Naming
  <2> QED
    BY <1>4, <2>2, <2>3 DEF WriterInv, WriterType, Looking, Storing, Naming
<1>17. ASSUME NEW q \in Writers PROVE WriterInv(doing[q])'
  <2>1. PICK t : t = doing'[q] /\ (t = u \/ t = doing[q])
    BY <1>2, <1>15 DEF DrivesInv, DrivesTypeOK
  <2>2. WriterInv(t)'
    BY <1>14, <1>16, <2>1 DEF DrivesInv
  <2> QED
    BY <2>1, <2>2
<1> QED
  BY <1>6, <1>7, <1>8, <1>9, <1>12, <1>17 DEF DrivesInv

(* A volume is given a drive, by the user or by discovery, or keeps what   *)
(* it had.                                                                 *)
LEMMA GivingKeeps ==
    ASSUME DrivesInv, NEW p \in Writers, NEW v \in Volumes, NEW i \in Ids \cup {NoDrive},
           UNCHANGED <<drive, acts, docked, hidden, relapsed, overtaken>>,
           recorded' \subseteq Volumes, said' \subseteq Volumes, DOMAIN doing' = Writers, doing'[p] = AtRest,
           \A q \in Writers \ {p} : \/ doing'[q] = doing[q]
                                    \/ doing[q] # AtRest /\ doing'[q] = [doing[q] EXCEPT !.late = TRUE],
           i = NoDrive => UNCHANGED <<driveOf, said>>,
           i # NoDrive => /\ driveOf' = [driveOf EXCEPT ![v] = i]
                          /\ \/ v \in said' /\ said' = said \cup {v}
                             \/ /\ v \notin said' /\ said' = said \ {v} /\ Stands(v, i)
                                /\ \A q \in Writers \ {p} : doing[q].at \in Naming /\ doing[q].vol = v => doing'[q].late
    PROVE  DrivesInv'
<1>1. /\ Ids' = Ids /\ RowsUnique' /\ (\A j \in Ids' : RowInv(j)')
      /\ \A t : (Looks(t) => Looks(t)') /\ (UpToDate(t) => UpToDate(t)')
      /\ \A w, j : Stands(w, j) => Stands(w, j)'
  BY TableStays DEF DrivesInv
<1>2. i # NoDrive => i \in 0 .. Len(drive)
  BY DEF Ids
<1>3. DrivesTypeOK'
  BY <1>2 DEF DrivesInv, DrivesTypeOK
<1>4. driveOf \in [Volumes -> 0 .. Len(drive)]
  BY DEF DrivesInv, DrivesTypeOK
<1>5. \A w \in Volumes : w # v => driveOf'[w] = driveOf[w] /\ (w \in said' <=> w \in said)
  BY <1>4
<1>6. ASSUME NEW w \in Volumes PROVE VolumeInv(w)'
  <2> SUFFICES ASSUME Identified(w)' PROVE Stands(w, driveOf[w])'
    BY DEF VolumeInv
  <2>1. PICK j : j = driveOf'[w]
    OBVIOUS
  <2>2. CASE w # v \/ i = NoDrive
    <3>1. j = driveOf[w] /\ Identified(w)
      BY <1>5, <2>1, <2>2 DEF Identified
    <3>2. Stands(w, j)
      BY <3>1 DEF DrivesInv, VolumeInv
    <3>3. Stands(w, j)'
      BY <1>1, <3>2
    <3> QED
      BY <2>1, <3>3
  <2>3. CASE w = v /\ i # NoDrive
    <3>1. j = i /\ Stands(w, j)
      BY <1>4, <2>1, <2>3 DEF Identified
    <3>2. Stands(w, j)'
      BY <1>1, <3>1
    <3> QED
      BY <2>1, <3>2
  <2> QED
    BY <2>2, <2>3
<1>7. ASSUME NEW q \in Writers PROVE WriterInv(doing[q])'
  <2>1. CASE q = p
    BY <2>1, AtRestIs DEF WriterInv, Looking, Storing, Naming, AtRest
  <2>2. CASE q # p
    <3>1. PICK t, u : t = doing[q] /\ u = doing'[q]
      OBVIOUS
    <3>2. WriterInv(t) /\ t \in WriterType
      BY <3>1, WriterIs DEF WriterInv
    <3>3. u = t \/ (t \notin {AtRest} /\ u = [t EXCEPT !.late = TRUE])
      BY <2>2, <3>1
    <3>4. /\ u \in WriterType /\ (u = AtRest <=> t = AtRest) /\ u.at = t.at
          /\ t # AtRest => u.found = t.found /\ u.vol = t.vol /\ (t.late => u.late)
          /\ u # t => u.late
      BY <3>2, <3>3, WriterLater
    <3>5. u.at \in Looking => Looks(u)' /\ (u.late \/ UpToDate(u)')
      <4> SUFFICES ASSUME u.at \in Looking PROVE Looks(u)' /\ (u.late \/ UpToDate(u)')
        OBVIOUS
      <4>1. Looks(t) /\ (t.late \/ UpToDate(t))
        BY <3>2, <3>4 DEF WriterInv
      <4>2. t \in [at : Looking \cup Storing, vol : Volumes, report : ReportType, found : Nat,
                   gains : BOOLEAN, keeps : BOOLEAN, late : BOOLEAN]
        BY <3>1, <3>4, WriterIs
      <4>3. /\ u.at = t.at /\ u.vol = t.vol /\ u.report = t.report /\ u.found = t.found
            /\ u.gains = t.gains /\ u.keeps = t.keeps /\ (t.late => u.late) /\ (u # t => u.late)
        BY <3>3, <3>4, <4>2
      <4>4. Looks(t)' /\ (t.late \/ UpToDate(t)')
        BY <1>1, <4>1
      <4>5. Looks(u)'
        BY <4>3, <4>4 DEF Looks, Reports
      <4> QED
        BY <4>3, <4>4, <4>5
    <3>6. ASSUME u.at \in Storing, u.found # NoDrive PROVE Stands(u.vol, u.found)'
      <4>1. t # AtRest
        BY <3>4, <3>6 DEF Storing, AtRest
      <4>2. Stands(t.vol, t.found)
        BY <3>2, <3>4, <3>6, <4>1 DEF WriterInv
      <4> QED
        BY <1>1, <3>4, <4>1, <4>2
    <3>7. ASSUME u.at \in Naming, ~u.late PROVE ~Identified(u.vol)'
      <4>1. t # AtRest /\ u = t
        BY <3>4, <3>7 DEF Naming, AtRest
      <4>2. ~Identified(t.vol) /\ t.vol \in Volumes
        BY <3>1, <3>2, <3>7, <4>1, WriterIs DEF WriterInv
      <4>3. t.vol = v /\ i # NoDrive => v \in said'
        <5> SUFFICES ASSUME t.vol = v, i # NoDrive, v \notin said' PROVE FALSE
          OBVIOUS
        <5>1. q \in Writers \ {p} /\ doing[q].at \in Naming /\ doing[q].vol = v /\ ~doing'[q].late
          BY <2>2, <3>1, <3>7, <4>1
        <5> QED
          BY <5>1
      <4> QED
        BY <1>5, <4>1, <4>2, <4>3 DEF Identified
    <3>8. WriterInv(u)'
      BY <1>1, <3>2, <3>4, <3>5, <3>6, <3>7 DEF WriterInv, AtRest
    <3> QED
      BY <3>1, <3>8
  <2> QED
    BY <2>1, <2>2
<1> QED
  BY <1>1, <1>3, <1>6, <1>7 DEF DrivesInv

LEMMA WritingVolumeKeeps ==
    ASSUME DrivesInv, NEW p \in Writers, WriteVolume(p) PROVE DrivesInv'
<1>1. PICK s, v, i : s = doing[p] /\ v = s.vol /\ i = s.found
  OBVIOUS
<1>2. s.at \in Storing /\ s # AtRest
  BY <1>1 DEF WriteVolume, Storing, AtRest
<1>3. WriterInv(s) /\ v \in Volumes /\ i \in Ids \cup {NoDrive} /\ (i # NoDrive => Stands(v, i))
  BY <1>1, <1>2, WriterIs DEF WriterInv
<1>4. /\ recorded' = recorded \cup {v}
      /\ driveOf' = [driveOf EXCEPT ![v] = IF i = NoDrive THEN @ ELSE i]
      /\ said' = IF i = NoDrive THEN said ELSE said \ {v}
      /\ UNCHANGED <<drive, acts, docked, hidden, relapsed, overtaken>>
  BY <1>1 DEF WriteVolume
<1>5. doing' = [q \in Writers |->
                  IF q = p THEN AtRest
                  ELSE IF i # NoDrive /\ doing[q].at \in Naming /\ doing[q].vol = v
                         THEN [doing[q] EXCEPT !.late = TRUE] ELSE doing[q]]
  BY <1>1 DEF WriteVolume, GoOnLate
<1>6. /\ DOMAIN doing' = Writers /\ doing'[p] = AtRest
      /\ \A q \in Writers \ {p} : \/ doing'[q] = doing[q]
                                  \/ doing[q] # AtRest /\ doing'[q] = [doing[q] EXCEPT !.late = TRUE]
  <2>1. AtRest.at \notin Naming
    BY DEF AtRest, Naming
  <2> QED
    BY <1>5, <2>1
<1>7. i = NoDrive => UNCHANGED <<driveOf, said>>
  BY <1>4 DEF DrivesInv, DrivesTypeOK
<1>8. ASSUME i # NoDrive, NEW q \in Writers \ {p}, doing[q].at \in Naming, doing[q].vol = v PROVE doing'[q].late
  <2>1. doing[q] \in [at : Naming, vol : Volumes, found : Nat, late : BOOLEAN]
    BY <1>8, WriterIs
  <2>2. doing'[q] = [doing[q] EXCEPT !.late = TRUE]
    BY <1>5, <1>8
  <2> QED
    BY <2>1, <2>2
<1>9. recorded' \subseteq Volumes /\ said' \subseteq Volumes
  BY <1>3, <1>4 DEF DrivesInv, DrivesTypeOK
<1> QED
  BY <1>3, <1>4, <1>6, <1>7, <1>8, <1>9, GivingKeeps

LEMMA WritingNameKeeps ==
    ASSUME DrivesInv, NEW p \in Writers, WriteName(p) PROVE DrivesInv'
<1>1. PICK s, v, i : s = doing[p] /\ v = s.vol /\ i = s.found
  OBVIOUS
<1>2. s.at = "name"
  BY <1>1 DEF WriteName
<1>3. v \in Volumes /\ i \in Ids /\ i # NoDrive
  BY <1>1, <1>2, WriterIs DEF WriterInv, Naming
<1>4. /\ driveOf' = [driveOf EXCEPT ![v] = i] /\ said' = said \cup {v}
      /\ doing' = [doing EXCEPT ![p] = AtRest]
      /\ UNCHANGED <<drive, recorded, acts, docked, hidden, relapsed, overtaken>>
  BY <1>1 DEF WriteName, GoOn
<1>5. DOMAIN doing = Writers /\ recorded' \subseteq Volumes /\ said' \subseteq Volumes
  BY <1>3, <1>4 DEF DrivesInv, DrivesTypeOK
<1>6. DOMAIN doing' = Writers /\ doing'[p] = AtRest /\ \A q \in Writers \ {p} : doing'[q] = doing[q]
  BY <1>4, <1>5
<1> QED
  BY <1>3, <1>4, <1>5, <1>6, GivingKeeps

LEMMA DrivesInitHolds == DrivesInit => DrivesInv
<1> SUFFICES ASSUME DrivesInit PROVE DrivesInv
  OBVIOUS
<1>1. drive = <<>> /\ Len(drive) = 0 /\ Ids = {}
  BY DEF DrivesInit, Ids
<1>2. DrivesTypeOK
  BY <1>1, EmptySeq, DrivesAssumption DEF DrivesInit, DrivesTypeOK, NoDrive
<1>3. \A v \in Volumes : VolumeInv(v)
  BY DEF VolumeInv, Identified, DrivesInit
<1>4. \A p \in Writers : WriterInv(doing[p])
  BY AtRestIs DEF DrivesInit
<1> QED
  BY <1>1, <1>2, <1>3, <1>4 DEF DrivesInv, RowsUnique

(* What IdentityStands says of one step.                                   *)
SerialsStay ==
    \A i \in Ids : drive[i].serial \notin {Absent, drive'[i].serial} =>
        \E p \in Writers : /\ doing[p].at = "drive" /\ doing[p].late
                          /\ Confusable(DiskOf[doing[p].vol]) /\ doing'[p] # doing[p]

DrivesStay ==
    \A v \in Volumes : Identified(v) /\ driveOf'[v] # driveOf[v] /\ v \in said' =>
        \E p \in Writers : /\ doing[p].at = "name" /\ doing[p].late
                          /\ doing[p].vol = v /\ doing'[p] # doing[p]

LEMMA WritingDriveStands == ASSUME DrivesInv, NEW p \in Writers, WriteDrive(p) PROVE SerialsStay /\ DrivesStay
<1>1. PICK i, x, d : Wrote(p, i, x, d) /\ d = DiskOf[doing[p].vol]
  BY WriteDriveWrote
<1>2. x \in DriveRow
  BY <1>1, WroteRow
<1>3. drive'[i] = x /\ \A j \in Ids \ {i} : drive'[j] = drive[j]
  BY <1>1, <1>2, RowWritten DEF Wrote
<1>4. doing'[p] # doing[p] /\ doing[p].at = "drive"
  <2>1. /\ doing[p].at = "drive" /\ doing'[p] = [doing[p] EXCEPT !.at = "volume", !.found = i]
    BY <1>1 DEF Wrote
  <2>2. doing[p] \in [at : Looking \cup Storing, vol : Volumes, report : ReportType, found : Nat,
                      gains : BOOLEAN, keeps : BOOLEAN, late : BOOLEAN]
    BY <2>1, WriterIs DEF Looking
  <2>3. doing'[p].at = "volume"
    BY <2>1, <2>2
  <2> QED
    BY <2>1, <2>3
<1>5. ASSUME NEW j \in Ids, drive[j].serial \notin {Absent, drive'[j].serial}
      PROVE  doing[p].late /\ Confusable(d)
  BY <1>1, <1>3, <1>5, WroteOver
<1>6. DrivesStay
  BY DEF DrivesStay, WriteDrive
<1> QED
  BY <1>1, <1>4, <1>5, <1>6 DEF SerialsStay

LEMMA WritingNameStands == ASSUME DrivesInv, NEW p \in Writers, WriteName(p) PROVE SerialsStay /\ DrivesStay
<1>1. PICK s : s = doing[p]
  OBVIOUS
<1>2. /\ s.at = "name" /\ driveOf' = [driveOf EXCEPT ![s.vol] = s.found] /\ drive' = drive
      /\ doing' = [doing EXCEPT ![p] = AtRest]
  BY <1>1 DEF WriteName, GoOn
<1>3. SerialsStay
  BY <1>2 DEF SerialsStay
<1>4. s.late \/ ~Identified(s.vol)
  BY <1>1, <1>2, WriterIs DEF WriterInv, Naming
<1>5. doing'[p] # doing[p]
  BY <1>1, <1>2 DEF DrivesInv, DrivesTypeOK, AtRest
<1>6. \A v \in Volumes : driveOf'[v] # driveOf[v] => v = s.vol
  BY <1>2 DEF DrivesInv, DrivesTypeOK
<1> QED
  BY <1>1, <1>2, <1>3, <1>4, <1>5, <1>6 DEF DrivesStay

LEMMA WritingVolumeStands == ASSUME DrivesInv, NEW p \in Writers, WriteVolume(p) PROVE SerialsStay /\ DrivesStay
<1>1. SerialsStay
  BY DEF SerialsStay, WriteVolume
<1>2. \A v \in Volumes : driveOf'[v] # driveOf[v] => v \notin said'
  BY DEF WriteVolume, DrivesInv, DrivesTypeOK
<1> QED
  BY <1>1, <1>2 DEF DrivesStay

(* A step keeps the invariant, the serials, and the drives that discovery  *)
(* gave.                                                                   *)
LEMMA DrivesStepHolds ==
    ASSUME DrivesInv, [DrivesNext]_driveVars
    PROVE  DrivesInv' /\ SerialsStay /\ DrivesStay
<1>1. CASE UNCHANGED driveVars
  <2>1. /\ Ids' = Ids /\ RowsUnique' /\ (\A j \in Ids' : RowInv(j)')
        /\ \A t : (Looks(t) => Looks(t)') /\ (UpToDate(t) => UpToDate(t)')
        /\ \A w, j : Stands(w, j) => Stands(w, j)'
    BY <1>1, TableStays DEF DrivesInv, driveVars
  <2>2. \A v : Identified(v)' <=> Identified(v)
    BY <1>1 DEF Identified, driveVars
  <2>3. \A t : WriterInv(t) => WriterInv(t)'
    BY <2>1, <2>2 DEF WriterInv
  <2>4. DrivesTypeOK' /\ \A v \in Volumes : VolumeInv(v)'
    BY <1>1, <2>1, <2>2 DEF DrivesInv, DrivesTypeOK, VolumeInv, driveVars
  <2>5. ASSUME NEW p \in Writers PROVE WriterInv(doing[p])'
    <3>1. PICK t : t = doing[p] /\ t = doing'[p]
      BY <1>1 DEF driveVars
    <3>2. WriterInv(t)'
      BY <2>3, <3>1 DEF DrivesInv
    <3> QED
      BY <3>1, <3>2
  <2>6. SerialsStay /\ DrivesStay
    BY <1>1 DEF driveVars, SerialsStay, DrivesStay
  <2> QED
    BY <2>1, <2>4, <2>5, <2>6 DEF DrivesInv
<1>2. ASSUME NEW p \in Writers, WriteDrive(p) PROVE DrivesInv' /\ SerialsStay /\ DrivesStay
  BY <1>2, WritingDriveKeeps, WritingDriveStands
<1>3. ASSUME NEW p \in Writers, WriteVolume(p) PROVE DrivesInv' /\ SerialsStay /\ DrivesStay
  BY <1>3, WritingVolumeKeeps, WritingVolumeStands
<1>4. ASSUME NEW p \in Writers, WriteName(p) PROVE DrivesInv' /\ SerialsStay /\ DrivesStay
  BY <1>4, WritingNameKeeps, WritingNameStands
<1>5. ASSUME UNCHANGED <<drive, driveOf>> PROVE SerialsStay /\ DrivesStay
  BY <1>5 DEF SerialsStay, DrivesStay
<1>6. ASSUME NEW p \in Writers, CreateDrive(p) PROVE DrivesInv' /\ SerialsStay /\ DrivesStay
  <2>1. DrivesInv' /\ \A i \in Ids : drive'[i] = drive[i]
    BY <1>6, CreatingKeeps
  <2> QED
    BY <1>6, <2>1 DEF CreateDrive, SerialsStay, DrivesStay
<1>7. ASSUME NEW p \in Writers, NEW v \in Volumes, DiscoverVolume(p, v) \/ NameDriveOf(p, v)
      PROVE  DrivesInv' /\ SerialsStay /\ DrivesStay
  <2>1. UNCHANGED <<drive, driveOf>>
    BY <1>7 DEF DiscoverVolume, NameDriveOf
  <2> QED
    BY <1>5, <1>7, <2>1, DiscoveringKeeps, NamingKeeps
<1>8. ASSUME NEW p \in Writers, LookByLayout(p) \/ LookForHolder(p) \/ LookForVolume(p) \/ WriterEnds(p)
      PROVE  DrivesInv' /\ SerialsStay /\ DrivesStay
  <2>1. UNCHANGED <<drive, driveOf>>
    BY <1>8 DEF LookByLayout, LookForHolder, LookForVolume, WriterEnds
  <2> QED
    BY <1>5, <1>8, <2>1, LookingKeeps
<1> QED
  BY <1>1, <1>2, <1>3, <1>4, <1>6, <1>7, <1>8 DEF DrivesNext

(* A recorded serial is replaced, and a volume that discovery tied to a    *)
(* drive leaves it by the user's word, only by a program that another      *)
(* overtook between its look and its write, the serial only between disks  *)
(* that share a layout; for programs, volumes and disks of any number.     *)
THEOREM DriveIdentityStands == DrivesSpec => IdentityStands
<1>1. DrivesInv /\ [DrivesNext]_driveVars => DrivesInv'
  BY DrivesStepHolds
<1>2. DrivesInv /\ [DrivesNext]_driveVars =>
        [/\ \A i \in Ids : drive[i].serial \notin {Absent, drive'[i].serial} =>
              \E p \in Writers : /\ doing[p].at = "drive" /\ doing[p].late
                                /\ Confusable(DiskOf[doing[p].vol]) /\ doing'[p] # doing[p]
         /\ \A v \in Volumes : Identified(v) /\ driveOf'[v] # driveOf[v] /\ v \in said' =>
              \E p \in Writers : /\ doing[p].at = "name" /\ doing[p].late
                                /\ doing[p].vol = v /\ doing'[p] # doing[p]]_driveVars
  BY DrivesStepHolds DEF SerialsStay, DrivesStay
<1> QED
  BY <1>1, <1>2, DrivesInitHolds, PTL DEF DrivesSpec, IdentityStands

-----------------------------------------------------------------------------
(* Where two volumes stand on identified drives, they share a drive row    *)
(* exactly when they share a disk.                                         *)
LEMMA RowMeansDisk ==
    ASSUME DrivesInv, NEW v \in Volumes, NEW w \in Volumes, Identified(v), Identified(w),
           DiskOf[v] \notin relapsed \cup overtaken, ~Confusable(DiskOf[v]),
           DiskOf[w] \notin relapsed \cup overtaken, ~Confusable(DiskOf[w])
    PROVE  driveOf[v] = driveOf[w] <=> DiskOf[v] = DiskOf[w]
<1>1. PICK d \in Disks, e \in Disks : d = DiskOf[v] /\ e = DiskOf[w]
  BY DrivesAssumption
<1>2. PICK i \in Ids, j \in Ids : i = driveOf[v] /\ j = driveOf[w]
  BY DEF Identified, DrivesInv, DrivesTypeOK, Ids, NoDrive
<1>3. Placed(d, drive[i]) /\ Placed(e, drive[j])
  BY <1>1, <1>2 DEF DrivesInv, VolumeInv, Stands
<1>4. d = e => i = j
  BY <1>3 DEF Placed, DrivesInv, RowsUnique
<1>5. ASSUME i = j PROVE d = e
  <2>1. CASE d \in docked
    BY <1>3, <1>5, <2>1, DrivesAssumption DEF Placed
  <2>2. CASE d \notin docked
    BY <1>1, <1>3, <1>5, <2>2 DEF Placed, Confusable
  <2> QED
    BY <2>1, <2>2
<1> QED
  BY <1>1, <1>2, <1>4, <1>5

(* A set that a function maps into another, telling its members apart, is  *)
(* no larger.                                                              *)
LEMMA NoLarger ==
    ASSUME NEW S, NEW T, IsFiniteSet(T), NEW f \in [S -> T],
           \A x, y \in S : f[x] = f[y] => x = y
    PROVE  IsFiniteSet(S) /\ Cardinality(S) \in Nat /\ Cardinality(T) \in Nat /\ Cardinality(S) <= Cardinality(T)
<1>1. f \in Injection(S, T)
  BY DEF Injection, IsInjective
<1> QED
  BY <1>1, FS_Injection, FS_CardinalityType

LEMMA ImageFinite ==
    ASSUME NEW S, IsFiniteSet(S), NEW f, DOMAIN f = S PROVE IsFiniteSet({f[x] : x \in S})
<1> DEFINE T == {f[x] : x \in S}
           g == [x \in S |-> f[x]]
<1>1. g \in Surjection(S, T)
  BY DEF Surjection
<1> HIDE DEF g, T
<1>2. IsFiniteSet(T)
  BY <1>1, FS_Surjection
<1> QED
  BY <1>2 DEF T

(* The figures against the disks, for any catalog of volumes whose disks   *)
(* discovery has told apart.                                               *)
LEMMA FiguresHold ==
    ASSUME DrivesInv, NEW vs \in SUBSET recorded, vs # {}, vs \cap said = {},
           \A v \in vs : DiskOf[v] \notin relapsed \cup overtaken /\ ~Confusable(DiskOf[v])
    PROVE  /\ DrivesProven(CopyOn(vs), driveOf) <= Cardinality({DiskOf[v] : v \in vs})
           /\ DrivesPossible(CopyOn(vs), driveOf) >= Cardinality({DiskOf[v] : v \in vs})
<1> DEFINE disks == {DiskOf[v] : v \in vs}
           rows  == {driveOf[v] : v \in vs} \ {NoDrive}
           key   == [v \in vs |-> IF driveOf[v] = NoDrive THEN <<"volume", v>> ELSE <<"drive", driveOf[v]>>]
           keys  == {key[v] : v \in vs}
           diskOf == [v \in vs |-> DiskOf[v]]
<1>1. vs \subseteq Volumes /\ IsFiniteSet(vs)
  BY DrivesAssumption, FS_Subset DEF DrivesInv, DrivesTypeOK
<1>2. \A v, w \in vs : driveOf[v] # NoDrive /\ driveOf[w] # NoDrive =>
                         (driveOf[v] = driveOf[w] <=> DiskOf[v] = DiskOf[w])
  BY <1>1, RowMeansDisk DEF Identified
<1>3. IsFiniteSet(disks) /\ IsFiniteSet(keys)
  <2>1. DOMAIN diskOf = vs /\ {diskOf[v] : v \in vs} = disks
    OBVIOUS
  <2>2. DOMAIN key = vs
    OBVIOUS
  <2> HIDE DEF key, diskOf, disks
  <2>4. IsFiniteSet(disks)
    BY <1>1, <2>1, ImageFinite
  <2>3. IsFiniteSet(keys)
    BY <1>1, <2>2, ImageFinite
  <2> QED
    BY <2>3, <2>4
<1>4. disks # {}
  OBVIOUS
<1>5. Cardinality(disks) \in Nat /\ Cardinality(disks) >= 1
  BY <1>3, <1>4, FS_CardinalityType, FS_EmptySet
<1>6. Cardinality(rows) \in Nat /\ Cardinality(rows) <= Cardinality(disks)
  <2> DEFINE f == [x \in rows |-> DiskOf[CHOOSE v \in vs : driveOf[v] = x]]
  <2>1. \A x \in rows : \E v \in vs : driveOf[v] = x /\ x # NoDrive /\ f[x] = DiskOf[v]
    OBVIOUS
  <2>2. f \in [rows -> disks]
    BY <2>1
  <2>3. \A x, y \in rows : f[x] = f[y] => x = y
    BY <1>2, <2>1
  <2> HIDE DEF f, rows, disks
  <2> QED
    BY <1>3, <2>2, <2>3, NoLarger
<1>7. Cardinality(keys) \in Nat /\ Cardinality(disks) <= Cardinality(keys)
  <2> DEFINE f == [x \in disks |-> key[CHOOSE v \in vs : DiskOf[v] = x]]
  <2>3. \A v, w \in vs : key[v] = key[w] => v = w \/ (driveOf[v] # NoDrive /\ driveOf[v] = driveOf[w])
    OBVIOUS
  <2> HIDE DEF key
  <2>1. \A x \in disks : \E v \in vs : DiskOf[v] = x /\ f[x] = key[v]
    OBVIOUS
  <2>2. f \in [disks -> keys]
    BY <2>1
  <2>4. \A x, y \in disks : f[x] = f[y] => x = y
    BY <1>2, <2>1, <2>3
  <2> HIDE DEF f, keys, disks
  <2> QED
    BY <1>3, <2>2, <2>4, NoLarger
<1>8. /\ \A r \in CopyOn(vs) : r.vol \in vs
      /\ \A v \in vs : \E r \in CopyOn(vs) : r.vol = v
  <2> DEFINE row(v) == [id |-> v, vol |-> v, frn |-> NoFrn, content |-> "c", size |-> 1]
  <2>1. CopyOn(vs) = {row(v) : v \in vs}
    BY DEF CopyOn
  <2>2. \A v \in vs : row(v).vol = v
    OBVIOUS
  <2> HIDE DEF row
  <2> QED
    BY <2>1, <2>2
<1>9. DrivesProven(CopyOn(vs), driveOf) <= Cardinality(disks)
  <2>1. {driveOf[r.vol] : r \in CopyOn(vs)} \ {NoDrive} = rows
    BY <1>8
  <2>2. DrivesProven(CopyOn(vs), driveOf) = Max({1, Cardinality(rows)})
    BY <2>1 DEF DrivesProven
  <2> HIDE DEF rows, disks
  <2>3. Max({1, Cardinality(rows)}) \in {1, Cardinality(rows)}
    BY <1>6 DEF Max
  <2> QED
    BY <1>5, <1>6, <2>2, <2>3
<1>10. DrivesPossible(CopyOn(vs), driveOf) = Cardinality(keys)
  <2>1. {IF driveOf[r.vol] = NoDrive THEN <<"volume", r.vol>>
                                     ELSE <<"drive", driveOf[r.vol]>> : r \in CopyOn(vs)} = keys
    BY <1>8
  <2> QED
    BY <2>1 DEF DrivesPossible
<1> QED
  BY <1>5, <1>7, <1>9, <1>10

(* The report's counts are on the safe side of the disks, for programs,    *)
(* volumes and disks of any number, wherever discovery has told the disks  *)
(* apart: no volume's drive was named by the user, and no disk was seen    *)
(* without its serial after it, was a clone of one seen without it, or was *)
(* recorded by two programs at once.                                       *)
THEOREM CountsStaySafe == DrivesSpec => []CountsAreSafe
<1>1. DrivesInv => CountsAreSafe
  BY FiguresHold DEF CountsAreSafe
<1>2. DrivesInv /\ [DrivesNext]_driveVars => DrivesInv'
  BY DrivesStepHolds
<1> QED
  BY <1>1, <1>2, DrivesInitHolds, PTL DEF DrivesSpec

-----------------------------------------------------------------------------
(* Scope roots.  A program that is about to insert a root has checked it   *)
(* against the roots of its validation; a scan that has not lost its       *)
(* volume stands on the one its root was catalogued from; and a row of the *)
(* dir table holds only files below its root.                              *)
RootKeys == Vols \X Paths

ProgramType ==
    {Idle}
      \cup [at : {"validated"}, path : Paths, others : SUBSET RootKeys]
      \cup [at : {"identified"}, root : RootKeys, others : SUBSET RootKeys]
      \cup [at : {"bound"}, root : RootKeys, swapped : BOOLEAN]
      \cup [at : {"looked", "interned"}, root : RootKeys, swapped : BOOLEAN, row : Nat]

Scanning == {"bound", "looked", "interned"}

ProgramInv(p) ==
    /\ prog[p].at = "validated" => \A k \in prog[p].others : ~Nested(prog[p].path, k[2])
    /\ prog[p].at = "identified" => \A k \in prog[p].others : ~Nested(prog[p].root[2], k[2])
    /\ prog[p].at \in Scanning /\ removals = 0 => prog[p].root \in Enabled
    /\ prog[p].at \in Scanning /\ ~prog[p].swapped => Matches(prog[p].root)
    /\ prog[p].at \in {"looked", "interned"} /\ prog[p].row # 0 =>
          prog[p].row \in DOMAIN rootDir /\ rootDir[prog[p].row] = prog[p].root
    /\ prog[p].at = "interned" => prog[p].row # 0
    /\ prog[p].at = "looked" /\ prog[p].row = 0 /\ ~abreast => RootRows(prog[p].root) = {}

LookersApart ==
    ~abreast => \A p, q \in Programs :
        prog[p].at = "looked" /\ prog[q].at = "looked" /\ prog[p].root = prog[q].root => p = q

RowsBelow ==
    /\ Len(live) = Len(rootDir)
    /\ \A i \in DOMAIN rootDir : live[i] \subseteq {f \in Seq(Names) : IsPrefix(Tail(rootDir[i][2]), f)}

RootsInv ==
    /\ mounted \in [Letters -> Vols \cup {None}]
    /\ scopeRoot \in [RootKeys -> Statuses]
    /\ rootDir \in Seq(RootKeys) /\ live \in Seq(SUBSET Seq(Names))
    /\ prog \in [Programs -> ProgramType]
    /\ removals \in Nat
    /\ RowsBelow
    /\ \A p \in Programs : ProgramInv(p)
    /\ LookersApart
    /\ removals = 0 => \A i \in DOMAIN rootDir : rootDir[i] \in Enabled
    /\ EnabledDisjoint
    /\ RootRowUnique

(* What a program's state holds, by what it is doing. *)
LEMMA ProgramShape ==
    ASSUME NEW s \in ProgramType
    PROVE  /\ s.at = "validated" => s \in [at : {"validated"}, path : Paths, others : SUBSET RootKeys]
           /\ s.at = "identified" => s \in [at : {"identified"}, root : RootKeys, others : SUBSET RootKeys]
           /\ s.at = "bound" => s \in [at : {"bound"}, root : RootKeys, swapped : BOOLEAN]
           /\ s.at \in {"looked", "interned"} =>
                s \in [at : {"looked", "interned"}, root : RootKeys, swapped : BOOLEAN, row : Nat]
           /\ s.at \in Scanning => s.root \in RootKeys /\ s.swapped \in BOOLEAN
BY DEF ProgramType, Idle, Scanning

-----------------------------------------------------------------------------
(* One sequence is a prefix of another when the other is as long and       *)
(* agrees with it.                                                         *)
LEMMA PrefixByElements ==
    ASSUME NEW s \in Seq(Names), NEW t \in Seq(Names)
    PROVE  IsPrefix(s, t) <=> Len(s) <= Len(t) /\ \A i \in 1 .. Len(s) : s[i] = t[i]
<1>1. Len(s) \in Nat /\ Len(t) \in Nat
  OBVIOUS
<1>2. CASE Len(s) <= Len(t)
  <2>1. /\ SubSeq(s, 1, Len(s)) = [i \in 1 .. Len(s) |-> s[i]]
        /\ SubSeq(t, 1, Len(s)) = [i \in 1 .. Len(s) |-> t[i]]
    BY <1>1, <1>2
  <2> QED
    BY <1>2, <2>1 DEF IsPrefix
<1>3. CASE ~(Len(s) <= Len(t))
  BY <1>3 DEF IsPrefix
<1> QED
  BY <1>2, <1>3

(* Two roots under one letter, both above one file, are nested. *)
LEMMA AboveOneFile ==
    ASSUME NEW p \in Paths, NEW q \in Paths, Head(p) = Head(q), NEW f \in Seq(Names),
           IsPrefix(Tail(p), f), IsPrefix(Tail(q), f)
    PROVE  Nested(p, q)
<1>1. p \in Seq(Names) /\ p # <<>> /\ q \in Seq(Names) /\ q # <<>>
  BY RootsAssumption
<1>2. Len(p) \in Nat \ {0} /\ Len(q) \in Nat \ {0} /\ p[1] = q[1]
  BY <1>1
<1>3. /\ Tail(p) \in Seq(Names) /\ Len(Tail(p)) = Len(p) - 1 /\ \A i \in 1 .. Len(p) - 1 : Tail(p)[i] = p[i + 1]
      /\ Tail(q) \in Seq(Names) /\ Len(Tail(q)) = Len(q) - 1 /\ \A i \in 1 .. Len(q) - 1 : Tail(q)[i] = q[i + 1]
  BY <1>1, <1>2
<1>4. /\ \A i \in 1 .. Len(p) - 1 : Tail(p)[i] = f[i]
      /\ \A i \in 1 .. Len(q) - 1 : Tail(q)[i] = f[i]
  <2>1. \A i \in 1 .. Len(Tail(p)) : Tail(p)[i] = f[i]
    BY <1>3, PrefixByElements
  <2>2. \A i \in 1 .. Len(Tail(q)) : Tail(q)[i] = f[i]
    BY <1>3, PrefixByElements
  <2> QED
    BY <1>3, <2>1, <2>2
<1>5. \A i \in 1 .. Len(p) - 1 : i \in 1 .. Len(q) - 1 => p[i + 1] = q[i + 1]
  BY <1>3, <1>4
<1>6. \A i \in Nat : i \in 1 .. Len(p) /\ i \in 1 .. Len(q) => p[i] = q[i]
  <2> SUFFICES ASSUME NEW i \in Nat, i \in 1 .. Len(p), i \in 1 .. Len(q), i # 1 PROVE p[i] = q[i]
    BY <1>2
  <2>1. i - 1 \in 1 .. Len(p) - 1 /\ i - 1 \in 1 .. Len(q) - 1 /\ i - 1 + 1 = i
    BY <1>2
  <2> QED
    BY <1>5, <2>1
<1>7. CASE Len(p) <= Len(q)
  <2>1. \A i \in 1 .. Len(p) : p[i] = q[i]
    BY <1>2, <1>6, <1>7
  <2> QED
    BY <1>1, <1>7, <2>1, PrefixByElements DEF Nested
<1>8. CASE Len(q) <= Len(p)
  <2>1. \A i \in 1 .. Len(q) : q[i] = p[i]
    BY <1>2, <1>6, <1>8
  <2> QED
    BY <1>1, <1>8, <2>1, PrefixByElements DEF Nested
<1> QED
  BY <1>2, <1>7, <1>8

LEMMA FilesBelow ==
    ASSUME NEW vol \in Vols, NEW path
    PROVE  Below(vol, path) \subseteq {f \in Seq(Names) : IsPrefix(Tail(path), f)}
BY RootsAssumption DEF Below

(* What the invariant says of the files: with no race and no removal, two  *)
(* rows under one letter share none.                                       *)
LEMMA NothingShared == RootsInv => CataloguedOnce
<1> SUFFICES ASSUME RootsInv, ~raced, ~abreast, removals = 0,
                    NEW i \in DOMAIN rootDir, NEW j \in DOMAIN rootDir, SameLetter(i, j), i # j
             PROVE  live[i] \cap live[j] = {}
  BY DEF CataloguedOnce, Shared
<1>1. SUFFICES ASSUME NEW f \in live[i] \cap live[j] PROVE FALSE
  OBVIOUS
<1>2. rootDir[i] \in RootKeys /\ rootDir[j] \in RootKeys
  BY DEF RootsInv
<1>3. f \in Seq(Names) /\ IsPrefix(Tail(rootDir[i][2]), f) /\ IsPrefix(Tail(rootDir[j][2]), f)
  BY <1>1 DEF RootsInv, RowsBelow
<1>4. rootDir[i][2] \in Paths /\ rootDir[j][2] \in Paths
  BY <1>2 DEF RootKeys
<1>5. Nested(rootDir[i][2], rootDir[j][2])
  BY <1>3, <1>4, AboveOneFile DEF SameLetter
<1>6. rootDir[i] \in Enabled /\ rootDir[j] \in Enabled
  BY DEF RootsInv
<1>7. rootDir[i] = rootDir[j]
  BY <1>5, <1>6 DEF RootsInv, EnabledDisjoint
<1> QED
  BY <1>7 DEF RootsInv, RootRowUnique

LEMMA RootsInitHolds == RootsInit => RootsInv
<1> SUFFICES ASSUME RootsInit PROVE RootsInv
  OBVIOUS
<1> USE DEF RootsInit
<1>1. rootDir \in Seq(RootKeys) /\ live \in Seq(SUBSET Seq(Names)) /\ DOMAIN rootDir = {} /\ Len(live) = Len(rootDir)
  BY EmptySeq
<1>2. Enabled = {}
  BY DEF Enabled
<1>3. prog \in [Programs -> ProgramType] /\ \A p \in Programs : prog[p].at = "idle"
  BY DEF ProgramType, Idle
<1>4. \A p \in Programs : ProgramInv(p)
  BY <1>3 DEF ProgramInv, Scanning
<1>5. LookersApart /\ RowsBelow
  BY <1>1, <1>3 DEF LookersApart, RowsBelow
<1>6. mounted \in [Letters -> Vols \cup {None}] /\ scopeRoot \in [RootKeys -> Statuses]
  BY DEF RootKeys, Statuses
<1> QED
  BY <1>1, <1>2, <1>3, <1>4, <1>5, <1>6 DEF RootsInv, EnabledDisjoint, RootRowUnique
(* A step in which one program moves on, and nothing else.                 *)
LEMMA OneMoves ==
    ASSUME RootsInv, NEW p \in Programs, NEW s \in ProgramType, Become(p, s), s.at # "looked",
           UNCHANGED <<mounted, scopeRoot, rootDir, live, removals, raced, abreast>>,
           ProgramInv(p)'
    PROVE  RootsInv'
<1>1. /\ prog' \in [Programs -> ProgramType] /\ prog'[p] = s
      /\ \A q \in Programs \ {p} : prog'[q] = prog[q]
  BY DEF RootsInv, Become
<1>2. Enabled' = Enabled
  BY DEF Enabled
<1>3. \A k : Matches(k)' <=> Matches(k)
  BY DEF Matches, IsDir
<1>4. ASSUME NEW q \in Programs, q # p PROVE ProgramInv(q)'
  <2>1. ProgramInv(q) /\ prog'[q] = prog[q]
    BY <1>1, <1>4 DEF RootsInv
  <2> QED
    BY <1>2, <1>3, <2>1 DEF ProgramInv, RootRows
<1>5. LookersApart'
  BY <1>1 DEF LookersApart, RootsInv
<1>6. RowsBelow' /\ EnabledDisjoint' /\ RootRowUnique'
  BY <1>2 DEF RowsBelow, EnabledDisjoint, RootRowUnique, RootsInv
<1> QED
  BY <1>1, <1>2, <1>4, <1>5, <1>6 DEF RootsInv

LEMMA ValidateHolds ==
    ASSUME RootsInv, NEW p \in Programs, NEW path \in Paths, Validate(p, path) PROVE RootsInv'
<1>1. PICK s : s = [at |-> "validated", path |-> path, others |-> Enabled] /\ Become(p, s)
  BY DEF Validate
<1>2. s \in ProgramType /\ s.at = "validated" /\ s.path = path /\ s.others = Enabled
  BY <1>1 DEF ProgramType, Enabled, RootKeys
<1>3. prog'[p] = s
  BY <1>1 DEF RootsInv, Become
<1>4. \A k \in Enabled : ~Nested(path, k[2])
  BY DEF Validate
<1>5. ProgramInv(p)'
  BY <1>2, <1>3, <1>4 DEF ProgramInv, Scanning
<1> QED
  BY <1>1, <1>2, <1>5, OneMoves DEF Validate

LEMMA IdentifyHolds ==
    ASSUME RootsInv, NEW p \in Programs, Identify(p) PROVE RootsInv'
<1>1. prog[p] \in [at : {"validated"}, path : Paths, others : SUBSET RootKeys]
  BY ProgramShape DEF Identify, RootsInv
<1>2. PICK vol : vol = mounted[Head(prog[p].path)]
  OBVIOUS
<1>3. vol \in Vols \cup {None}
  BY <1>1, <1>2, RootsAssumption DEF RootsInv
<1>4. CASE vol = None
  <2>1. PICK s \in ProgramType : s = Idle /\ Become(p, s) /\ s.at = "idle"
    BY <1>2, <1>4 DEF Identify, ProgramType, Idle
  <2>2. prog'[p] = s
    BY <2>1 DEF RootsInv, Become
  <2>3. ProgramInv(p)'
    BY <2>1, <2>2 DEF ProgramInv, Scanning
  <2> QED
    BY <2>1, <2>3, OneMoves DEF Identify
<1>5. CASE vol # None
  <2>1. PICK s : s = [at |-> "identified", root |-> <<vol, prog[p].path>>, others |-> prog[p].others] /\ Become(p, s)
    BY <1>2, <1>5 DEF Identify
  <2>2. s \in ProgramType /\ s.at = "identified" /\ s.root[2] = prog[p].path /\ s.others = prog[p].others
    BY <1>1, <1>3, <1>5, <2>1 DEF ProgramType, RootKeys
  <2>3. prog'[p] = s
    BY <2>1 DEF RootsInv, Become
  <2>4. \A k \in prog[p].others : ~Nested(prog[p].path, k[2])
    BY <1>1 DEF RootsInv, ProgramInv
  <2>5. ProgramInv(p)'
    BY <2>2, <2>3, <2>4 DEF ProgramInv, Scanning
  <2> QED
    BY <2>1, <2>2, <2>5, OneMoves DEF Identify
<1> QED
  BY <1>4, <1>5

LEMMA BindRootHolds ==
    ASSUME RootsInv, NEW p \in Programs, NEW k \in RootKeys, BindRoot(p, k) PROVE RootsInv'
<1>1. PICK s : s = [at |-> "bound", root |-> k, swapped |-> FALSE] /\ Become(p, s)
  BY DEF BindRoot
<1>2. s \in ProgramType /\ s.at = "bound" /\ s.root = k
  BY <1>1 DEF ProgramType
<1>3. prog'[p] = s
  BY <1>1 DEF RootsInv, Become
<1>4. Enabled' = Enabled /\ Matches(k)' /\ k \in Enabled
  BY DEF BindRoot, Enabled, Matches, IsDir
<1>5. ProgramInv(p)'
  BY <1>2, <1>3, <1>4 DEF ProgramInv, Scanning
<1> QED
  BY <1>1, <1>2, <1>5, OneMoves DEF BindRoot

(* A root joins the others only when it was checked against all of them,   *)
(* or a race is recorded.                                                  *)
LEMMA AddScopeRootHolds ==
    ASSUME RootsInv, NEW p \in Programs, AddScopeRoot(p) PROVE RootsInv'
<1>1. prog[p] \in [at : {"identified"}, root : RootKeys, others : SUBSET RootKeys]
  BY ProgramShape DEF AddScopeRoot, RootsInv
<1>2. PICK k \in RootKeys : k = prog[p].root
  BY <1>1
<1>3. /\ scopeRoot' = [scopeRoot EXCEPT ![k] = "enabled"]
      /\ raced' = (raced \/ Enabled \ prog[p].others # {})
      /\ Become(p, Idle)
      /\ UNCHANGED <<mounted, rootDir, live, removals, abreast>>
  BY <1>2 DEF AddScopeRoot
<1>4. Enabled' = Enabled \cup {k} /\ scopeRoot' \in [RootKeys -> Statuses]
  BY <1>2, <1>3 DEF Enabled, RootsInv, RootKeys, Statuses
<1>5. /\ prog' \in [Programs -> ProgramType] /\ prog'[p] = Idle /\ Idle.at = "idle"
      /\ \A q \in Programs \ {p} : prog'[q] = prog[q]
  BY <1>3 DEF RootsInv, Become, ProgramType, Idle
<1>6. \A j : Matches(j)' <=> Matches(j)
  BY <1>3 DEF Matches, IsDir
<1>7. ASSUME NEW q \in Programs PROVE ProgramInv(q)'
  <2>1. CASE q = p
    BY <1>5, <2>1 DEF ProgramInv, Scanning
  <2>2. CASE q # p
    <3>1. ProgramInv(q) /\ prog'[q] = prog[q]
      BY <1>5, <2>2 DEF RootsInv
    <3> QED
      BY <1>3, <1>4, <1>6, <3>1 DEF ProgramInv, RootRows
  <2> QED
    BY <2>1, <2>2
<1>8. EnabledDisjoint'
  <2> SUFFICES ASSUME ~raced' PROVE \A i, j \in Enabled' : Nested(i[2], j[2]) => i = j
    BY DEF EnabledDisjoint
  <2>1. \A j \in Enabled : ~Nested(k[2], j[2]) /\ ~Nested(j[2], k[2])
    <3>1. \A j \in prog[p].others : ~Nested(k[2], j[2])
      BY <1>1, <1>2 DEF RootsInv, ProgramInv
    <3> QED
      BY <1>3, <3>1 DEF Nested
  <2> QED
    BY <1>3, <1>4, <2>1 DEF RootsInv, EnabledDisjoint
<1>9. LookersApart' /\ RowsBelow' /\ RootRowUnique'
  BY <1>3, <1>5 DEF LookersApart, RowsBelow, RootRowUnique, RootsInv
<1> QED
  BY <1>3, <1>4, <1>5, <1>7, <1>8, <1>9 DEF RootsInv

LEMMA RemoveScopeRootHolds ==
    ASSUME RootsInv, NEW k \in RootKeys, RemoveScopeRoot(k) PROVE RootsInv'
<1>1. /\ scopeRoot' = [scopeRoot EXCEPT ![k] = "removed"] /\ removals' = removals + 1
      /\ UNCHANGED <<mounted, rootDir, live, prog, raced, abreast>>
  BY DEF RemoveScopeRoot
<1>2. Enabled' \subseteq Enabled /\ scopeRoot' \in [RootKeys -> Statuses]
  BY <1>1 DEF Enabled, RootsInv, RootKeys, Statuses
<1>3. removals' \in Nat /\ removals' # 0
  BY <1>1 DEF RootsInv
<1>4. \A j : Matches(j)' <=> Matches(j)
  BY <1>1 DEF Matches, IsDir
<1>5. \A q \in Programs : ProgramInv(q)'
  BY <1>1, <1>3, <1>4 DEF RootsInv, ProgramInv, RootRows
<1>6. LookersApart' /\ RowsBelow' /\ RootRowUnique' /\ EnabledDisjoint'
  BY <1>1, <1>2 DEF LookersApart, RowsBelow, RootRowUnique, EnabledDisjoint, RootsInv
<1> QED
  BY <1>1, <1>2, <1>3, <1>5, <1>6 DEF RootsInv

(* A scan that loses its volume is marked; the others' letters kept theirs. *)
LEMMA MountHolds ==
    ASSUME RootsInv, NEW l \in Letters, NEW v \in Vols \cup {None}, Mount(l, v) PROVE RootsInv'
<1>1. /\ mounted' = [mounted EXCEPT ![l] = v]
      /\ prog' = [p \in Programs |->
                    IF prog[p].at \in Scanning /\ Head(prog[p].root[2]) = l
                      THEN [prog[p] EXCEPT !.swapped = TRUE] ELSE prog[p]]
      /\ UNCHANGED <<scopeRoot, rootDir, live, removals, raced, abreast>>
  BY DEF Mount, Scanning
<1>2. ASSUME NEW p \in Programs
      PROVE  /\ prog'[p] \in ProgramType /\ prog'[p].at = prog[p].at
             /\ prog[p].at \in Scanning => prog'[p].root = prog[p].root
             /\ prog[p].at \in {"looked", "interned"} => prog'[p].row = prog[p].row
             /\ prog[p].at \notin Scanning => prog'[p] = prog[p]
             /\ prog[p].at \in Scanning /\ ~prog'[p].swapped => ~prog[p].swapped /\ Head(prog[p].root[2]) # l
  <2>1. prog[p] \in ProgramType
    BY DEF RootsInv
  <2>2. CASE ~(prog[p].at \in Scanning /\ Head(prog[p].root[2]) = l)
    BY <1>1, <2>1, <2>2
  <2>3. CASE prog[p].at = "bound" /\ Head(prog[p].root[2]) = l
    <3>1. prog[p] \in [at : {"bound"}, root : RootKeys, swapped : BOOLEAN]
      BY <2>1, <2>3, ProgramShape
    <3>2. prog'[p] = [prog[p] EXCEPT !.swapped = TRUE]
      BY <1>1, <2>3 DEF Scanning
    <3> QED
      BY <2>3, <3>1, <3>2 DEF ProgramType, Scanning
  <2>4. CASE prog[p].at \in {"looked", "interned"} /\ Head(prog[p].root[2]) = l
    <3>1. prog[p] \in [at : {"looked", "interned"}, root : RootKeys, swapped : BOOLEAN, row : Nat]
      BY <2>1, <2>4, ProgramShape
    <3>2. prog'[p] = [prog[p] EXCEPT !.swapped = TRUE]
      BY <1>1, <2>4 DEF Scanning
    <3> QED
      BY <2>4, <3>1, <3>2 DEF ProgramType, Scanning
  <2> QED
    BY <2>2, <2>3, <2>4 DEF Scanning
<1>3. mounted' \in [Letters -> Vols \cup {None}] /\ prog' \in [Programs -> ProgramType]
  BY <1>1, <1>2 DEF RootsInv
<1>4. \A k : Matches(k) /\ Head(k[2]) # l => Matches(k)'
  BY <1>1 DEF Matches, IsDir, RootsInv
<1>5. Enabled' = Enabled
  BY <1>1 DEF Enabled
<1>6. ASSUME NEW p \in Programs PROVE ProgramInv(p)'
  <2>1. ProgramInv(p)
    BY DEF RootsInv
  <2> QED
    BY <1>1, <1>2, <1>4, <1>5, <2>1 DEF ProgramInv, RootRows, Scanning
<1>7. LookersApart' /\ RowsBelow' /\ RootRowUnique' /\ EnabledDisjoint'
  BY <1>1, <1>2, <1>5 DEF LookersApart, RowsBelow, RootRowUnique, EnabledDisjoint, RootsInv, Scanning
<1> QED
  BY <1>1, <1>3, <1>5, <1>6, <1>7 DEF RootsInv

LEMMA LookUpRootHolds ==
    ASSUME RootsInv, NEW p \in Programs, LookUpRoot(p) PROVE RootsInv'
<1>1. prog[p] \in [at : {"bound"}, root : RootKeys, swapped : BOOLEAN]
  BY ProgramShape DEF LookUpRoot, RootsInv
<1>2. PICK k \in RootKeys : k = prog[p].root
  BY <1>1
<1>3. PICK row : row = IF RootRows(k) = {} THEN 0 ELSE CHOOSE i \in RootRows(k) : TRUE
  OBVIOUS
<1>4. PICK s : s = [at |-> "looked", root |-> k, swapped |-> prog[p].swapped, row |-> row] /\ Become(p, s)
  BY <1>2, <1>3 DEF LookUpRoot
<1>5. /\ row \in Nat
      /\ row # 0 => row \in DOMAIN rootDir /\ rootDir[row] = k
      /\ row = 0 => RootRows(k) = {}
  <2>1. \A i \in RootRows(k) : i \in DOMAIN rootDir /\ rootDir[i] = k /\ i \in Nat /\ i # 0
    BY DEF RootRows, RootsInv
  <2> QED
    BY <1>3, <2>1
<1>6. s \in ProgramType /\ s.at = "looked" /\ s.root = k /\ s.swapped = prog[p].swapped /\ s.row = row
  BY <1>1, <1>4, <1>5 DEF ProgramType
<1>7. /\ prog' \in [Programs -> ProgramType] /\ prog'[p] = s
      /\ \A q \in Programs \ {p} : prog'[q] = prog[q]
  BY <1>4, <1>6 DEF RootsInv, Become
<1>8. /\ abreast' = (abreast \/ \E q \in Programs \ {p} : prog[q].at = "looked" /\ prog[q].root = k)
      /\ UNCHANGED <<mounted, scopeRoot, rootDir, live, removals, raced>>
  BY <1>2 DEF LookUpRoot
<1>9. Enabled' = Enabled /\ \A j : (Matches(j)' <=> Matches(j)) /\ RootRows(j)' = RootRows(j)
  BY <1>8 DEF Enabled, Matches, IsDir, RootRows
<1>10. ASSUME NEW q \in Programs PROVE ProgramInv(q)'
  <2>1. CASE q = p
    <3>1. /\ removals = 0 => k \in Enabled
          /\ ~prog[p].swapped => Matches(k)
      BY <1>1, <1>2 DEF RootsInv, ProgramInv, Scanning
    <3> QED
      BY <1>5, <1>6, <1>7, <1>8, <1>9, <2>1, <3>1 DEF ProgramInv
  <2>2. CASE q # p
    <3>1. ProgramInv(q) /\ prog'[q] = prog[q]
      BY <1>7, <2>2 DEF RootsInv
    <3> QED
      BY <1>8, <1>9, <3>1 DEF ProgramInv
  <2> QED
    BY <2>1, <2>2
<1>11. LookersApart'
  BY <1>6, <1>7, <1>8 DEF LookersApart, RootsInv
<1>12. RowsBelow' /\ RootRowUnique' /\ EnabledDisjoint'
  BY <1>8, <1>9 DEF RowsBelow, RootRowUnique, EnabledDisjoint, RootsInv
<1> QED
  BY <1>7, <1>8, <1>9, <1>10, <1>11, <1>12 DEF RootsInv

LEMMA InternRootHolds ==
    ASSUME RootsInv, NEW p \in Programs, InternRoot(p) PROVE RootsInv'
<1>1. prog[p] \in [at : {"looked", "interned"}, root : RootKeys, swapped : BOOLEAN, row : Nat] /\ prog[p].at = "looked"
  BY ProgramShape DEF InternRoot, RootsInv
<1>2. PICK k \in RootKeys : k = prog[p].root
  BY <1>1
<1>3. /\ removals = 0 => k \in Enabled
      /\ ~prog[p].swapped => Matches(k)
      /\ prog[p].row # 0 => prog[p].row \in DOMAIN rootDir /\ rootDir[prog[p].row] = k
      /\ prog[p].row = 0 /\ ~abreast => RootRows(k) = {}
  BY <1>1, <1>2 DEF RootsInv, ProgramInv, Scanning
<1>4. UNCHANGED <<mounted, scopeRoot, removals, raced, abreast>>
  BY DEF InternRoot
<1>5. Enabled' = Enabled /\ \A j : Matches(j)' <=> Matches(j)
  BY <1>4 DEF Enabled, Matches, IsDir
<1>6. CASE prog[p].row # 0
  <2>1. PICK s : s = [prog[p] EXCEPT !.at = "interned"] /\ Become(p, s) /\ UNCHANGED <<rootDir, live>>
    BY <1>6 DEF InternRoot
  <2>2. s \in ProgramType /\ s.at = "interned" /\ s.root = k /\ s.swapped = prog[p].swapped /\ s.row = prog[p].row
    BY <1>1, <1>2, <2>1 DEF ProgramType
  <2>3. prog'[p] = s
    BY <2>1 DEF RootsInv, Become
  <2>4. ProgramInv(p)'
    BY <1>3, <1>4, <1>5, <1>6, <2>1, <2>2, <2>3 DEF ProgramInv
  <2> QED
    BY <1>4, <2>1, <2>2, <2>4, OneMoves
<1>7. CASE prog[p].row = 0
  <2>1. PICK s : /\ s = [prog[p] EXCEPT !.at = "interned", !.row = Len(rootDir) + 1] /\ Become(p, s)
                 /\ rootDir' = Append(rootDir, k) /\ live' = Append(live, {})
    BY <1>2, <1>7 DEF InternRoot
  <2>2. Len(rootDir) \in Nat /\ Len(live) = Len(rootDir)
    BY DEF RootsInv, RowsBelow
  <2>3. s \in ProgramType /\ s.at = "interned" /\ s.root = k /\ s.swapped = prog[p].swapped /\ s.row = Len(rootDir) + 1
    <3>1. s = [at |-> "interned", root |-> k, swapped |-> prog[p].swapped, row |-> Len(rootDir) + 1]
      BY <1>1, <1>2, <2>1
    <3>2. prog[p].swapped \in BOOLEAN /\ Len(rootDir) + 1 \in Nat
      BY <1>1, <2>2
    <3> QED
      BY <3>1, <3>2 DEF ProgramType
  <2>4. /\ prog' \in [Programs -> ProgramType] /\ prog'[p] = s
        /\ \A q \in Programs \ {p} : prog'[q] = prog[q]
    BY <2>1, <2>3 DEF RootsInv, Become
  <2>5. /\ rootDir' \in Seq(RootKeys) /\ Len(rootDir') = Len(rootDir) + 1 /\ rootDir'[Len(rootDir) + 1] = k
        /\ DOMAIN rootDir = 1 .. Len(rootDir) /\ DOMAIN rootDir' = 1 .. Len(rootDir) + 1
        /\ \A i \in 1 .. Len(rootDir) : rootDir'[i] = rootDir[i]
    BY <2>1, <2>2, AppendProperties DEF RootsInv
  <2>6. /\ live' \in Seq(SUBSET Seq(Names)) /\ Len(live') = Len(live) + 1 /\ live'[Len(live) + 1] = {}
        /\ \A i \in 1 .. Len(live) : live'[i] = live[i]
    BY <2>1, <2>2, AppendProperties DEF RootsInv
  <2>7. ASSUME NEW q \in Programs PROVE ProgramInv(q)'
    <3>1. CASE q = p
      BY <1>3, <1>4, <1>5, <2>2, <2>3, <2>4, <2>5, <3>1 DEF ProgramInv
    <3>2. CASE q # p
      <4>1. ProgramInv(q) /\ prog'[q] = prog[q]
        BY <2>4, <3>2 DEF RootsInv
      <4>2. \A i \in DOMAIN rootDir : i \in DOMAIN rootDir' /\ rootDir'[i] = rootDir[i]
        BY <2>2, <2>5
      <4>3. \A j : RootRows(j) = {} /\ j # k => RootRows(j)' = {}
        BY <2>2, <2>5 DEF RootRows
      <4>4. ~abreast /\ prog[q].at = "looked" => prog[q].root # k
        BY <1>1, <1>2, <3>2 DEF RootsInv, LookersApart
      <4>5. prog[q].at = "looked" /\ prog[q].row = 0 /\ ~abreast => RootRows(prog[q].root)' = {}
        BY <4>1, <4>3, <4>4 DEF ProgramInv
      <4> QED
        BY <1>4, <1>5, <4>1, <4>2, <4>5 DEF ProgramInv
    <3> QED
      BY <3>1, <3>2
  <2>8. LookersApart'
    BY <1>4, <2>3, <2>4 DEF LookersApart, RootsInv
  <2>9. RowsBelow'
    <3> DEFINE allowed(path) == {f \in Seq(Names) : IsPrefix(Tail(path), f)}
    <3>1. \A i \in DOMAIN rootDir : live[i] \subseteq allowed(rootDir[i][2])
      BY DEF RowsBelow, RootsInv
    <3>2. \A i \in DOMAIN rootDir' : i \in DOMAIN rootDir \/ i = Len(rootDir) + 1
      BY <2>2, <2>5
    <3> HIDE DEF allowed
    <3>3. \A i \in DOMAIN rootDir' : live'[i] \subseteq allowed(rootDir'[i][2])
      BY <2>2, <2>5, <2>6, <3>1, <3>2
    <3>4. Len(live') = Len(rootDir')
      BY <2>2, <2>5, <2>6
    <3> QED
      BY <3>3, <3>4 DEF RowsBelow, allowed
  <2>10. RootRowUnique'
    <3>1. ~abreast => \A i \in DOMAIN rootDir : rootDir[i] # k
      BY <1>3, <1>7 DEF RootRows
    <3> QED
      BY <1>4, <2>2, <2>5, <3>1 DEF RootRowUnique, RootsInv
  <2>11. removals' = 0 => \A i \in DOMAIN rootDir' : rootDir'[i] \in Enabled'
    BY <1>3, <1>4, <1>5, <2>2, <2>5 DEF RootsInv
  <2>12. EnabledDisjoint'
    BY <1>4, <1>5 DEF EnabledDisjoint, RootsInv
  <2> QED
    BY <1>4, <2>4, <2>5, <2>6, <2>7, <2>8, <2>9, <2>10, <2>11, <2>12 DEF RootsInv
<1> QED
  BY <1>6, <1>7

(* What a merge reads: the volume the root was catalogued from, unless the *)
(* letter lost it.                                                         *)
LEMMA MergeHolds ==
    ASSUME RootsInv, NEW p \in Programs, Merge(p)
    PROVE  /\ RootsInv'
           /\ ~prog[p].swapped =>
                live' = [live EXCEPT ![prog[p].row] = Below(prog[p].root[1], prog[p].root[2])]
<1>1. prog[p] \in [at : {"looked", "interned"}, root : RootKeys, swapped : BOOLEAN, row : Nat] /\ prog[p].at = "interned"
  BY ProgramShape DEF Merge, RootsInv
<1>2. PICK k \in RootKeys, row \in DOMAIN rootDir : k = prog[p].root /\ row = prog[p].row /\ rootDir[row] = k
  BY <1>1 DEF RootsInv, ProgramInv
<1>3. PICK vol : vol = mounted[Head(k[2])]
  OBVIOUS
<1>4. /\ Become(p, Idle) /\ UNCHANGED <<mounted, scopeRoot, rootDir, removals, raced, abreast>>
      /\ live' = IF IsDir(k[2]) THEN [live EXCEPT ![row] = Below(vol, k[2])] ELSE live
  BY <1>2, <1>3 DEF Merge
<1>5. k[2] \in Paths /\ Head(k[2]) \in Letters
  BY RootsAssumption DEF RootKeys
<1>6. IsDir(k[2]) => vol \in Vols
  BY <1>3, <1>5 DEF IsDir, RootsInv
<1>7. DOMAIN live = DOMAIN rootDir /\ DOMAIN live = 1 .. Len(live)
  BY DEF RootsInv, RowsBelow
<1>8. /\ live' \in Seq(SUBSET Seq(Names)) /\ Len(live') = Len(live)
      /\ \A i \in DOMAIN live \ {row} : live'[i] = live[i]
      /\ live'[row] = live[row] \/ live'[row] \subseteq {f \in Seq(Names) : IsPrefix(Tail(k[2]), f)}
  <2>1. CASE IsDir(k[2])
    <3>1. PICK B : B = Below(vol, k[2]) /\ B \subseteq {f \in Seq(Names) : IsPrefix(Tail(k[2]), f)}
      BY <1>6, <2>1, FilesBelow
    <3>2. live' = [live EXCEPT ![row] = B] /\ B \in SUBSET Seq(Names)
      BY <1>4, <2>1, <3>1
    <3>3. live' \in Seq(SUBSET Seq(Names)) /\ Len(live') = Len(live)
      BY <1>2, <1>7, <3>2, ExceptSeq DEF RootsInv
    <3> QED
      BY <1>2, <1>7, <3>1, <3>2, <3>3
  <2>2. CASE ~IsDir(k[2])
    BY <1>4, <2>2 DEF RootsInv
  <2> QED
    BY <2>1, <2>2
<1>9. RowsBelow'
  BY <1>2, <1>4, <1>7, <1>8 DEF RowsBelow, RootsInv
<1>10. /\ prog' \in [Programs -> ProgramType] /\ prog'[p] = Idle /\ Idle.at = "idle"
       /\ \A q \in Programs \ {p} : prog'[q] = prog[q]
  BY <1>4 DEF RootsInv, Become, ProgramType, Idle
<1>11. Enabled' = Enabled /\ \A j : (Matches(j)' <=> Matches(j)) /\ RootRows(j)' = RootRows(j)
  BY <1>4 DEF Enabled, Matches, IsDir, RootRows
<1>12. ASSUME NEW q \in Programs PROVE ProgramInv(q)'
  <2>1. CASE q = p
    BY <1>10, <2>1 DEF ProgramInv, Scanning
  <2>2. CASE q # p
    <3>1. ProgramInv(q) /\ prog'[q] = prog[q]
      BY <1>10, <2>2 DEF RootsInv
    <3> QED
      BY <1>4, <1>11, <3>1 DEF ProgramInv
  <2> QED
    BY <2>1, <2>2
<1>13. LookersApart' /\ EnabledDisjoint' /\ RootRowUnique'
  BY <1>4, <1>10, <1>11 DEF LookersApart, EnabledDisjoint, RootRowUnique, RootsInv
<1>14. ~prog[p].swapped => live' = [live EXCEPT ![row] = Below(k[1], k[2])]
  <2>1. ~prog[p].swapped => Matches(k)
    BY <1>1, <1>2 DEF RootsInv, ProgramInv, Scanning
  <2> QED
    BY <1>3, <1>4, <2>1 DEF Matches
<1> QED
  BY <1>2, <1>4, <1>8, <1>9, <1>10, <1>11, <1>12, <1>13, <1>14 DEF RootsInv

LEMMA RootsStepHolds == RootsInv /\ [RootsNext]_rootVars => RootsInv'
<1> SUFFICES ASSUME RootsInv, [RootsNext]_rootVars PROVE RootsInv'
  OBVIOUS
<1>1. CASE \E l \in Letters, v \in Vols \cup {None} : Mount(l, v)
  BY <1>1, MountHolds
<1>2. CASE \E k \in RootKeys : RemoveScopeRoot(k)
  BY <1>2, RemoveScopeRootHolds
<1>3. ASSUME NEW p \in Programs, NEW path \in Paths, Validate(p, path) PROVE RootsInv'
  BY <1>3, ValidateHolds
<1>4. ASSUME NEW p \in Programs, NEW k \in RootKeys, BindRoot(p, k) PROVE RootsInv'
  BY <1>4, BindRootHolds
<1>5. ASSUME NEW p \in Programs, Identify(p) \/ AddScopeRoot(p) \/ LookUpRoot(p) \/ InternRoot(p) \/ Merge(p)
      PROVE  RootsInv'
  BY <1>5, IdentifyHolds, AddScopeRootHolds, LookUpRootHolds, InternRootHolds, MergeHolds
<1>6. CASE UNCHANGED rootVars
  <2>1. UNCHANGED <<mounted, scopeRoot, rootDir, live, prog, removals, raced, abreast>>
    BY <1>6 DEF rootVars
  <2> QED
    BY <2>1 DEF RootsInv, RowsBelow, ProgramInv, LookersApart, EnabledDisjoint, RootRowUnique, Enabled,
                Matches, IsDir, RootRows
<1> QED
  BY <1>1, <1>2, <1>3, <1>4, <1>5, <1>6 DEF RootsNext, RootKeys

(* The roots that are scanned never contain one another, each has one row, *)
(* and no file is catalogued twice under one letter, but for the races and *)
(* the removals that the property names: for volumes, trees, letters and   *)
(* programs of any number.                                                 *)
THEOREM EverythingStaysOnce == RootsSpec => []EverythingOnce
<1>1. RootsInv => EverythingOnce
  BY NothingShared DEF EverythingOnce, RootsInv
<1> QED
  BY <1>1, RootsInitHolds, RootsStepHolds, PTL DEF RootsSpec

(* What a scan makes live was read from the volume its root was            *)
(* catalogued from, whatever was plugged in and out meanwhile.             *)
THEOREM ScansReadTheirVolume == RootsSpec => BoundReads
<1>1. RootsInv /\ [RootsNext]_rootVars =>
        [\A p \in Programs :
            prog[p].at = "interned" /\ prog'[p].at = "idle" /\ ~prog[p].swapped
              => live' = [live EXCEPT ![prog[p].row] = Below(prog[p].root[1], prog[p].root[2])]]_rootVars
  <2> SUFFICES ASSUME RootsInv, RootsNext, NEW p \in Programs,
                      prog[p].at = "interned", prog'[p].at = "idle", ~prog[p].swapped
               PROVE  live' = [live EXCEPT ![prog[p].row] = Below(prog[p].root[1], prog[p].root[2])]
    OBVIOUS
  <2>1. prog \in [Programs -> ProgramType] /\ prog[p] # Idle
    BY DEF RootsInv, Idle
  <2>2. ~\E l \in Letters, v \in Vols \cup {None} : Mount(l, v)
    <3> SUFFICES ASSUME NEW l \in Letters, NEW v \in Vols \cup {None}, Mount(l, v) PROVE FALSE
      OBVIOUS
    <3>1. prog[p] \in [at : {"looked", "interned"}, root : RootKeys, swapped : BOOLEAN, row : Nat]
      BY <2>1, ProgramShape
    <3>2. prog'[p] = prog[p] \/ prog'[p] = [prog[p] EXCEPT !.swapped = TRUE]
      BY DEF Mount
    <3> QED
      BY <3>1, <3>2
  <2>3. ~\E k \in Vols \X Paths : RemoveScopeRoot(k)
    BY DEF RemoveScopeRoot
  <2>4. ASSUME NEW q \in Programs, q # p, NEW s, Become(q, s) PROVE FALSE
    BY <2>1, <2>4 DEF Become
  <2>5. PICK q \in Programs :
          \/ \E path \in Paths : Validate(q, path)
          \/ Identify(q) \/ AddScopeRoot(q)
          \/ \E k \in Vols \X Paths : BindRoot(q, k)
          \/ LookUpRoot(q) \/ InternRoot(q) \/ Merge(q)
    BY <2>2, <2>3 DEF RootsNext
  <2>6. q = p
    BY <2>4, <2>5 DEF Validate, Identify, AddScopeRoot, BindRoot, LookUpRoot, InternRoot, Merge
  <2>7. Merge(p)
    BY <2>1, <2>5, <2>6 DEF Validate, Identify, AddScopeRoot, BindRoot, LookUpRoot, InternRoot
  <2> QED
    BY <2>7, MergeHolds
<1> QED
  BY <1>1, RootsInitHolds, RootsStepHolds, PTL DEF RootsSpec, BoundReads

-----------------------------------------------------------------------------
(***************************************************************************)
(* The scorecards.  An item of a collection is told by any file in it: it  *)
(* is the files whose identity is that file's, or the file alone until it  *)
(* has one.  So the items before a step and after it are two functions of  *)
(* the same files, and what is learned makes each item's files more.       *)
(***************************************************************************)
RowOf(i) ==
    [id |-> i, dir |-> FolderOfSlot[i], vol |-> VolumeOf[FolderOfSlot[i]], frn |-> NoFrn,
     size |-> SizeOf[i], content |-> IF i \in hashed THEN BytesOf[i] ELSE NoContent]

Alike(i)  == IF i \in hashed THEN {j \in hashed : BytesOf[j] = BytesOf[i]} ELSE {i}
ItemOf(i) == {RowOf(j) : j \in Alike(i)}
Homes(i)  == {homeOf[VolumeOf[FolderOfSlot[j]]] : j \in Alike(i)} \ {NoDrive}
Within(k) == {i \in present : FolderOfSlot[i] \in Subtree(ruled[k].dir)}

(* The identified files are among the present ones, and the outcomes are   *)
(* of the contents there may be.                                           *)
LearnInv ==
    /\ present \subseteq Slots /\ hashed \subseteq present /\ today \in Nat
    /\ fixity \in [{BytesOf[i] : i \in Slots} -> [ever : BOOLEAN, ok : Int]]

(* What the rows, the items and the verify outcomes come to, by files.     *)
RowsTold == Rows = {RowOf(i) : i \in present}

ItemsTold ==
    LearnInv => \A k : EvidenceItems(k, Rows) = {ItemOf(i) : i \in Within(k)}

ItemTold ==
    LearnInv => \A i \in present :
        /\ DrivesOf(ItemOf(i)) = Homes(i)
        /\ Hashed(ItemOf(i)) <=> i \in hashed
        /\ Verified(ItemOf(i)) <=> i \in hashed /\ fixity[BytesOf[i]].ok >= today - 1

EverTold ==
    LearnInv => \A k : EverVerified(k, Rows) <=> \E i \in Within(k) \cap hashed : fixity[BytesOf[i]].ever

LEMMA RowsAre == RowsTold
BY DEF RowsTold, Rows, RowOf

LEMMA RowSays ==
    ASSUME LearnInv, NEW i \in present
    PROVE  /\ RowOf(i) \in Rows
           /\ RowOf(i).id = i /\ RowOf(i).dir = FolderOfSlot[i] /\ RowOf(i).vol = VolumeOf[FolderOfSlot[i]]
           /\ RowOf(i).content = NoContent <=> i \notin hashed
           /\ i \in hashed => RowOf(i).content = BytesOf[i]
BY AssessmentAssumption, RowsAre DEF RowsTold, RowOf, LearnInv

LEMMA ItemsAre == ItemsTold
<1> SUFFICES ASSUME LearnInv, NEW k PROVE EvidenceItems(k, Rows) = {ItemOf(i) : i \in Within(k)}
  BY DEF ItemsTold
<1>1. MembersOf(k, Rows) = {RowOf(i) : i \in Within(k)}
  <2>1. \A i \in present : RowOf(i).dir = FolderOfSlot[i]
    BY RowSays
  <2> QED
    BY <2>1, RowsAre DEF RowsTold, MembersOf, Within
<1>2. ASSUME NEW i \in present
      PROVE  (IF RowOf(i).content = NoContent THEN {RowOf(i)} ELSE {q \in Rows : q.content = RowOf(i).content})
                = ItemOf(i)
  <2>1. CASE i \notin hashed
    BY <2>1, <1>2, RowSays DEF ItemOf, Alike
  <2>2. CASE i \in hashed
    <3>1. RowOf(i).content = BytesOf[i] /\ RowOf(i).content # NoContent
      BY <2>2, <1>2, RowSays
    <3>2. BytesOf[i] # NoContent
      BY <3>1
    <3>3. \A j \in present : RowOf(j).content = BytesOf[i] <=> j \in hashed /\ BytesOf[j] = BytesOf[i]
      BY <3>2, RowSays
    <3>4. {q \in Rows : q.content = BytesOf[i]} = {RowOf(j) : j \in {l \in hashed : BytesOf[l] = BytesOf[i]}}
      BY <3>3, RowsAre DEF RowsTold, LearnInv
    <3> QED
      BY <3>1, <3>4, <2>2 DEF ItemOf, Alike
  <2> QED
    BY <2>1, <2>2
<1>3. Within(k) \subseteq present
  BY DEF Within
<1> DEFINE form(r) == IF r.content = NoContent THEN {r} ELSE {q \in Rows : q.content = r.content}
<1>4. EvidenceItems(k, Rows) = {form(r) : r \in MembersOf(k, Rows)}
  BY DEF EvidenceItems
<1>5. \A i \in present : form(RowOf(i)) = ItemOf(i)
  BY <1>2
<1> HIDE DEF form
<1> QED
  BY <1>1, <1>3, <1>4, <1>5

LEMMA ItemIs == ItemTold
<1> SUFFICES ASSUME LearnInv, NEW i \in present
             PROVE  /\ DrivesOf(ItemOf(i)) = Homes(i)
                    /\ Hashed(ItemOf(i)) <=> i \in hashed
                    /\ Verified(ItemOf(i)) <=> i \in hashed /\ fixity[BytesOf[i]].ok >= today - 1
  BY DEF ItemTold
<1>1. Alike(i) \subseteq present /\ i \in Alike(i)
  BY DEF Alike, LearnInv
<1>2. i \in hashed => \A j \in Alike(i) : j \in hashed /\ BytesOf[j] = BytesOf[i]
  BY DEF Alike
<1>3. i \notin hashed => Alike(i) = {i}
  BY DEF Alike
<1>4. DrivesOf(ItemOf(i)) = Homes(i)
  <2>1. \A j \in Alike(i) : RowOf(j).vol = VolumeOf[FolderOfSlot[j]]
    BY <1>1, RowSays
  <2> QED
    BY <2>1 DEF DrivesOf, ItemOf, Homes
<1>5. Hashed(ItemOf(i)) <=> i \in hashed
  BY <1>1, <1>2, <1>3, RowSays DEF Hashed, ItemOf
<1>6. ASSUME i \in hashed PROVE (CHOOSE r \in ItemOf(i) : TRUE).content = BytesOf[i]
  <2>1. \A r \in ItemOf(i) : r.content = BytesOf[i]
    BY <1>1, <1>2, <1>6, RowSays DEF ItemOf
  <2>2. ItemOf(i) # {}
    BY <1>1 DEF ItemOf
  <2> QED
    BY <2>1, <2>2
<1> QED
  BY <1>4, <1>5, <1>6 DEF Verified

LEMMA EverIs == EverTold
<1> SUFFICES ASSUME LearnInv, NEW k
             PROVE  EverVerified(k, Rows) <=> \E i \in Within(k) \cap hashed : fixity[BytesOf[i]].ever
  BY DEF EverTold
<1>1. \A i \in present : RowOf(i).dir = FolderOfSlot[i]
  BY RowSays
<1>2. MembersOf(k, Rows) = {RowOf(i) : i \in Within(k)}
  BY <1>1, RowsAre DEF RowsTold, MembersOf, Within
<1>3. Within(k) \subseteq present
  BY DEF Within
<1>4. \A i \in Within(k) : /\ RowOf(i).content # NoContent <=> i \in hashed
                           /\ i \in hashed => RowOf(i).content = BytesOf[i]
  BY <1>3, RowSays
<1> QED
  BY <1>2, <1>4 DEF EverVerified

(* These hold in every state, so in the next one too.                      *)
LEMMA ToldNext == ItemsTold' /\ ItemTold' /\ EverTold'
BY ItemsAre, ItemIs, EverIs, PTL

LEMMA AllOfCases ==
    ASSUME NEW I, IsFiniteSet(I), NEW P \in SUBSET I
    PROVE  AllOf(Cardinality(P), Cardinality(I)) =
              IF P = {} THEN "fail" ELSE IF P = I THEN "pass" ELSE "partial"
<1>1. /\ IsFiniteSet(P) /\ Cardinality(P) \in Nat /\ Cardinality(I) \in Nat
      /\ Cardinality(P) <= Cardinality(I)
      /\ Cardinality(P) = Cardinality(I) <=> P = I
      /\ Cardinality(P) = 0 <=> P = {}
      /\ Cardinality(I) = 0 <=> I = {}
  BY FS_Subset, FS_CardinalityType, FS_EmptySet
<1> DEFINE p == Cardinality(P)
           n == Cardinality(I)
<1> HIDE DEF p, n
<1>2. /\ p \in Nat /\ n \in Nat /\ p <= n /\ (p = n <=> P = I) /\ (p = 0 <=> P = {}) /\ (n = 0 <=> I = {})
  BY <1>1 DEF p, n
<1>3. AllOf(p, n) = IF p = 0 THEN "fail" ELSE IF p = n THEN "pass" ELSE "partial"
  BY <1>2 DEF AllOf
<1> QED
  BY <1>2, <1>3 DEF p, n

(* The outcome b is no lower than a.                                       *)
Higher(a, b) == Standing[b] >= Standing[a]

(* What holds of each item, however it grew, is a share that never falls.  *)
LEMMA ShareRises ==
    ASSUME NEW M, IsFiniteSet(M), NEW f, DOMAIN f = M, NEW g, DOMAIN g = M,
           NEW I, I = {f[i] : i \in M}, NEW J, J = {g[i] : i \in M},
           NEW P \in SUBSET I, NEW Q \in SUBSET J, \A i \in M : f[i] \in P => g[i] \in Q
    PROVE  Higher(AllOf(Cardinality(P), Cardinality(I)), AllOf(Cardinality(Q), Cardinality(J)))
<1>1. IsFiniteSet(I) /\ IsFiniteSet(J)
  BY ImageFinite
<1>2. AllOf(Cardinality(P), Cardinality(I)) = IF P = {} THEN "fail" ELSE IF P = I THEN "pass" ELSE "partial"
  BY <1>1, AllOfCases
<1>3. AllOf(Cardinality(Q), Cardinality(J)) = IF Q = {} THEN "fail" ELSE IF Q = J THEN "pass" ELSE "partial"
  BY <1>1, AllOfCases
<1>4. P # {} => Q # {}
  OBVIOUS
<1>5. P = I => Q = J
  OBVIOUS
<1>6. Standing["fail"] = 0 /\ Standing["partial"] = 1 /\ Standing["pass"] = 2
  BY DEF Standing
<1> QED
  BY <1>2, <1>3, <1>4, <1>5, <1>6 DEF Higher

(* What a criterion says that counts the items G of a collection.          *)
Share(k, G) == AllOf(Cardinality(G), Cardinality(EvidenceItems(k, Rows)))

(* What a step that learns leaves, and what it never takes away.           *)
Grew ==
    /\ UNCHANGED <<present, today, sheet, ruled, entry>>
    /\ hashed \subseteq hashed'
    /\ \A v \in AllVolumes : homeOf'[v] = homeOf[v] \/ homeOf[v] = NoDrive
    /\ \A i \in Slots : /\ fixity[BytesOf[i]].ever => fixity'[BytesOf[i]].ever
                        /\ fixity[BytesOf[i]].ok >= today - 1 => fixity'[BytesOf[i]].ok >= today - 1

LEMMA CopiesCount ==
    ASSUME NEW S, IsFiniteSet(S), NEW n \in Nat, n >= 2
    PROVE  Max({1, Cardinality(S)}) >= n <=> Cardinality(S) >= n
<1> DEFINE c == Cardinality(S)
<1>1. c \in Nat
  BY FS_CardinalityType
<1> HIDE DEF c
<1>2. Max({1, c}) \in {1, c} /\ Max({1, c}) >= 1 /\ Max({1, c}) >= c
  <2>1. \E x \in {1, c} : \A y \in {1, c} : x >= y
    BY <1>1
  <2> QED
    BY <2>1 DEF Max
<1>3. Max({1, c}) >= n <=> c >= n
  BY <1>1, <1>2
<1> QED
  BY <1>3 DEF c

LEMMA FewerIn ==
    ASSUME NEW T, IsFiniteSet(T), NEW S \in SUBSET T
    PROVE  IsFiniteSet(S) /\ Cardinality(S) \in Nat /\ Cardinality(T) \in Nat /\ Cardinality(S) <= Cardinality(T)
BY FS_Subset, FS_CardinalityType

(* More drives are in as many zones and batches, or more; a drive of an    *)
(* unknown batch counts by itself.                                         *)
ZonesIn(S)   == {sheet[d].zone : d \in S} \ {Unrecorded}
BatchedIn(S) == {d \in S : BatchKey(d) # Unrecorded}
BatchCount(S) == Cardinality({BatchKey(d) : d \in BatchedIn(S)}) + Cardinality(S \ BatchedIn(S))

LEMMA MoreZones ==
    ASSUME NEW T, IsFiniteSet(T), NEW S \in SUBSET T
    PROVE  /\ Cardinality(ZonesIn(S)) \in Nat /\ Cardinality(ZonesIn(T)) \in Nat
           /\ Cardinality(ZonesIn(S)) <= Cardinality(ZonesIn(T))
<1> DEFINE f == [d \in T |-> sheet[d].zone]
           U == {f[d] : d \in T}
<1>1. IsFiniteSet(U)
  <2>1. DOMAIN f = T
    OBVIOUS
  <2> HIDE DEF f
  <2> QED
    BY <2>1, ImageFinite
<1>2. ZonesIn(T) \in SUBSET U
  BY DEF ZonesIn
<1>3. IsFiniteSet(ZonesIn(T))
  BY <1>1, <1>2, FewerIn
<1>4. ZonesIn(S) \in SUBSET ZonesIn(T)
  BY DEF ZonesIn
<1> QED
  BY <1>3, <1>4, FewerIn

LEMMA MoreBatches ==
    ASSUME NEW T, IsFiniteSet(T), NEW S \in SUBSET T
    PROVE  BatchCount(S) \in Nat /\ BatchCount(T) \in Nat /\ BatchCount(S) <= BatchCount(T)
<1> DEFINE f == [d \in T |-> BatchKey(d)]
           U == {f[d] : d \in T}
           Keys(R) == {BatchKey(d) : d \in BatchedIn(R)}
<1>1. IsFiniteSet(U)
  <2>1. DOMAIN f = T
    OBVIOUS
  <2> HIDE DEF f
  <2> QED
    BY <2>1, ImageFinite
<1>2. Keys(T) \in SUBSET U
  BY DEF BatchedIn
<1>3. IsFiniteSet(Keys(T))
  BY <1>1, <1>2, FewerIn
<1>4. Keys(S) \in SUBSET Keys(T)
  BY DEF BatchedIn
<1> DEFINE a == Cardinality(Keys(S))
           b == Cardinality(Keys(T))
           c == Cardinality(S \ BatchedIn(S))
           d == Cardinality(T \ BatchedIn(T))
<1>5. a \in Nat /\ b \in Nat /\ a <= b
  BY <1>3, <1>4, FewerIn
<1>6. IsFiniteSet(T \ BatchedIn(T))
  BY FewerIn
<1>7. (S \ BatchedIn(S)) \in SUBSET (T \ BatchedIn(T))
  BY DEF BatchedIn
<1>8. c \in Nat /\ d \in Nat /\ c <= d
  BY <1>6, <1>7, FewerIn
<1>9. BatchCount(S) = a + c /\ BatchCount(T) = b + d
  BY DEF BatchCount
<1> HIDE DEF a, b, c, d
<1> QED
  BY <1>5, <1>8, <1>9

LEMMA ItemGrows ==
    ASSUME LearnInv, LearnInv', Grew, NEW i \in present
    PROVE  /\ IsFiniteSet(Homes(i)') /\ Homes(i) \in SUBSET Homes(i)'
           /\ i \in hashed => i \in hashed'
<1>1. /\ Alike(i) \subseteq Slots /\ Alike(i)' \subseteq Slots
      /\ Alike(i) \subseteq Alike(i)'
  BY DEF Alike, LearnInv, Grew
<1>2. \A j \in Slots : VolumeOf[FolderOfSlot[j]] \in AllVolumes
  BY AssessmentAssumption DEF AllVolumes
<1>3. \A j \in Alike(i) : \/ homeOf'[VolumeOf[FolderOfSlot[j]]] = homeOf[VolumeOf[FolderOfSlot[j]]]
                          \/ homeOf[VolumeOf[FolderOfSlot[j]]] = NoDrive
  BY <1>1, <1>2 DEF Grew
<1>4. Homes(i) \in SUBSET Homes(i)'
  BY <1>1, <1>3 DEF Homes
<1>5. IsFiniteSet(Homes(i)')
  <2> PICK A : A = Alike(i)'
    OBVIOUS
  <2> PICK h : h = homeOf'
    OBVIOUS
  <2> DEFINE f == [j \in A |-> h[VolumeOf[FolderOfSlot[j]]]]
             U == {f[j] : j \in A}
  <2>1. IsFiniteSet(A)
    BY <1>1, AssessmentAssumption, FewerIn
  <2>2. IsFiniteSet(U)
    <3>1. DOMAIN f = A
      OBVIOUS
    <3> HIDE DEF f
    <3> QED
      BY <2>1, <3>1, ImageFinite
  <2>3. Homes(i)' \in SUBSET U
    BY DEF Homes
  <2> QED
    BY <2>2, <2>3, FewerIn
<1> QED
  BY <1>4, <1>5 DEF Grew

LEMMA ItemRises ==
    ASSUME LearnInv, LearnInv', Grew, NEW i \in present,
           NEW x, x = ItemOf(i), NEW y, y = ItemOf(i)'
    PROVE  /\ CopiesOf(x) >= 2 => (CopiesOf(y) >= 2)'
           /\ DrivesOf(x) # {} => (DrivesOf(y) # {})'
           /\ CopiesOf(x) >= 3 => (CopiesOf(y) >= 3)'
           /\ Cardinality(ZonesOf(x)) >= 2 => (Cardinality(ZonesOf(y)) >= 2)'
           /\ Cardinality(ZonesOf(x)) >= 3 => (Cardinality(ZonesOf(y)) >= 3)'
           /\ Batches(x) >= 2 => (Batches(y) >= 2)'
           /\ Hashed(x) => Hashed(y)'
           /\ Verified(x) => Verified(y)'
<1>1. i \in present' /\ i \in Slots
  BY DEF Grew, LearnInv
<1>2. DrivesOf(x) = Homes(i) /\ (Hashed(x) <=> i \in hashed)
      /\ (Verified(x) <=> i \in hashed /\ fixity[BytesOf[i]].ok >= today - 1)
  BY ItemIs DEF ItemTold
<1>3. DrivesOf(y)' = Homes(i)' /\ (Hashed(y)' <=> i \in hashed')
      /\ (Verified(y)' <=> i \in hashed' /\ fixity'[BytesOf[i]].ok >= today' - 1)
  BY <1>1, ToldNext DEF ItemTold
<1>4. /\ IsFiniteSet(Homes(i)') /\ Homes(i) \in SUBSET Homes(i)'
      /\ i \in hashed => i \in hashed'
  BY ItemGrows
<1> PICK S : S = Homes(i)
  OBVIOUS
<1> PICK T : T = Homes(i)'
  OBVIOUS
<1>5. IsFiniteSet(T) /\ S \in SUBSET T /\ IsFiniteSet(S) /\ Cardinality(S) \in Nat /\ Cardinality(T) \in Nat
      /\ Cardinality(S) <= Cardinality(T)
  BY <1>4, FewerIn
<1>6. DrivesOf(x) = S /\ DrivesOf(y)' = T
  BY <1>2, <1>3
<1>7. sheet' = sheet
  BY DEF Grew
<1>8. \A n \in Nat : n >= 2 /\ CopiesOf(x) >= n => CopiesOf(y)' >= n
  <2> TAKE n \in Nat
  <2> HAVE n >= 2 /\ CopiesOf(x) >= n
  <2>1. CopiesOf(x) = Max({1, Cardinality(S)}) /\ CopiesOf(y)' = Max({1, Cardinality(T)})
    BY <1>6 DEF CopiesOf
  <2>2. Cardinality(S) >= n
    BY <2>1, <1>5, CopiesCount
  <2>3. Cardinality(T) >= n
    BY <2>2, <1>5
  <2> QED
    BY <2>1, <2>3, <1>5, CopiesCount
<1>9. ZonesOf(x) = ZonesIn(S) /\ ZonesOf(y)' = ZonesIn(T)
  BY <1>6, <1>7 DEF ZonesOf, ZonesIn
<1>10. Cardinality(ZonesOf(x)) <= Cardinality(ZonesOf(y))' /\ Cardinality(ZonesOf(x)) \in Nat /\ Cardinality(ZonesOf(y))' \in Nat
  <2>1. Cardinality(ZonesOf(y))' = Cardinality(ZonesIn(T))
    BY <1>9
  <2> QED
    BY <2>1, <1>9, <1>5, MoreZones
<1>11. \A d : BatchKey(d)' = BatchKey(d)
  BY <1>7 DEF BatchKey
<1>12. Batches(x) = BatchCount(S) /\ Batches(y)' = BatchCount(T)
  BY <1>6, <1>11 DEF Batches, BatchCount, BatchedIn
<1>13. Batches(x) <= Batches(y)' /\ Batches(x) \in Nat /\ Batches(y)' \in Nat
  BY <1>12, <1>5, MoreBatches
<1>14. Verified(x) => Verified(y)'
  BY <1>1, <1>2, <1>3, <1>4 DEF Grew
<1>15. CopiesOf(x) >= 2 => (CopiesOf(y) >= 2)'
  BY <1>8
<1>16. CopiesOf(x) >= 3 => (CopiesOf(y) >= 3)'
  BY <1>8
<1>17. /\ Cardinality(ZonesOf(x)) >= 2 => (Cardinality(ZonesOf(y)) >= 2)'
       /\ Cardinality(ZonesOf(x)) >= 3 => (Cardinality(ZonesOf(y)) >= 3)'
       /\ Batches(x) >= 2 => (Batches(y) >= 2)'
  BY <1>10, <1>13
<1>18. DrivesOf(x) # {} => (DrivesOf(y) # {})'
  BY <1>5, <1>6
<1>19. Hashed(x) => Hashed(y)'
  BY <1>2, <1>3, <1>4
<1> QED
  BY <1>14, <1>15, <1>16, <1>17, <1>18, <1>19

LEMMA SharesRise ==
    ASSUME LearnInv, LearnInv', Grew, NEW k,
           NEW I, I = EvidenceItems(k, Rows), NEW J, J = EvidenceItems(k, Rows)',
           NEW P \in SUBSET I, NEW Q \in SUBSET J,
           \A i \in present : \A x, y : x = ItemOf(i) /\ y = ItemOf(i)' /\ x \in P /\ y \in J => y \in Q
    PROVE  Higher(Share(k, P), Share(k, Q)')
<1>1. I = {ItemOf(i) : i \in Within(k)}
  BY ItemsAre DEF ItemsTold
<1>2. J = {ItemOf(i)' : i \in Within(k)'}
  BY ToldNext DEF ItemsTold
<1>3. Within(k)' = Within(k) /\ Within(k) \subseteq present
  BY DEF Within, Grew
<1> PICK M : M = Within(k)
  OBVIOUS
<1> PICK f : f = [i \in M |-> ItemOf(i)]
  OBVIOUS
<1> PICK g : g = [i \in M |-> ItemOf(i)']
  OBVIOUS
<1>4. IsFiniteSet(M)
  BY <1>3, AssessmentAssumption, FewerIn DEF LearnInv
<1>5. I = {f[i] : i \in M} /\ J = {g[i] : i \in M} /\ DOMAIN f = M /\ DOMAIN g = M
  BY <1>1, <1>2, <1>3
<1>6. \A i \in M : f[i] \in P => g[i] \in Q
  BY <1>3, <1>5
<1>7. Higher(AllOf(Cardinality(P), Cardinality(I)), AllOf(Cardinality(Q), Cardinality(J)))
  BY <1>4, <1>5, <1>6, ShareRises
<1>8. Share(k, P) = AllOf(Cardinality(P), Cardinality(I)) /\ Share(k, Q)' = AllOf(Cardinality(Q), Cardinality(J))
  BY DEF Share
<1> QED
  BY <1>7, <1>8

Outcomes == {"pass", "partial", "fail"}

LEMMA HigherPass ==
    ASSUME NEW a, NEW b \in Outcomes, Higher(a, b), a = "pass" PROVE b = "pass"
BY DEF Higher, Standing, Outcomes

(* A scorecard of given outcomes, and the level of its integrity group.    *)
NdsaCard(s1a, s1b, s2a, s3a, s3b, s4a, s4b, i1b, i3a, i3b, i3c, m2a, m3b) ==
    {<<"storage", 1, "1a", s1a>>, <<"storage", 1, "1b", s1b>>, <<"storage", 2, "2a", s2a>>,
     <<"storage", 3, "3a", s3a>>, <<"storage", 3, "3b", s3b>>, <<"storage", 4, "4a", s4a>>,
     <<"storage", 4, "4b", s4b>>, <<"integrity", 1, "1b", i1b>>, <<"integrity", 2, "2b", "pass">>,
     <<"integrity", 3, "3a", i3a>>, <<"integrity", 3, "3b", i3b>>, <<"integrity", 3, "3c", i3c>>,
     <<"metadata", 1, "1a", "pass">>, <<"metadata", 2, "2a", m2a>>, <<"metadata", 3, "3b", m3b>>,
     <<"metadata", 4, "4a", "pass">>}

(* The scorecards of a collection, each criterion by the items it counts.  *)
NdsaTold ==
    \A k : Ndsa(k, Rows) =
        NdsaCard(Share(k, {g \in EvidenceItems(k, Rows) : CopiesOf(g) >= 2}),
                 Share(k, {g \in EvidenceItems(k, Rows) : DrivesOf(g) # {}}),
                 Share(k, {g \in EvidenceItems(k, Rows) : CopiesOf(g) >= 3 /\ Cardinality(ZonesOf(g)) >= 2}),
                 Share(k, {g \in EvidenceItems(k, Rows) : Cardinality(ZonesOf(g)) >= 2}),
                 LET drives == UNION {DrivesOf(g) : g \in EvidenceItems(k, Rows)}
                 IN  AllOf(Cardinality({d \in drives : sheet[d].bought # Unknown}), Cardinality(drives)),
                 Share(k, {g \in EvidenceItems(k, Rows) : Cardinality(ZonesOf(g)) >= 3}),
                 Share(k, {g \in EvidenceItems(k, Rows) : Batches(g) >= 2}),
                 Share(k, {g \in EvidenceItems(k, Rows) : Hashed(g)}),
                 Share(k, {g \in EvidenceItems(k, Rows) : Verified(g)}),
                 PassIf(EverVerified(k, Rows)), PassIf(\E g \in EvidenceItems(k, Rows) : Hashed(g)),
                 Described(k, AllFields), PassIf(entry[k] = AllFields))

Reusable(k) ==
    LET items == EvidenceItems(k, Rows)
    IN  IF items # {} /\ \A g \in items : Verified(g) THEN "pass"
        ELSE IF EverVerified(k, Rows) \/ \E g \in items : Hashed(g) THEN "partial" ELSE "fail"

FairTold ==
    LearnInv => \A k : Fair(k, Rows) =
        {<<"fair", 0, "F2", Described(k, AllFields)>>,
         <<"fair", 0, "A1", Share(k, {g \in EvidenceItems(k, Rows) : DrivesOf(g) # {}})>>,
         <<"fair", 0, "R1.1", PassIf("license" \in entry[k])>>,
         <<"fair", 0, "R1.2", Reusable(k)>>}

LEMMA NdsaIs == NdsaTold
BY DEF NdsaTold, NdsaCard, Ndsa, Share

LEMMA FairIs == FairTold
<1> SUFFICES ASSUME LearnInv, NEW k
             PROVE  Fair(k, Rows) =
                      {<<"fair", 0, "F2", Described(k, AllFields)>>,
                       <<"fair", 0, "A1", Share(k, {g \in EvidenceItems(k, Rows) : DrivesOf(g) # {}})>>,
                       <<"fair", 0, "R1.1", PassIf("license" \in entry[k])>>,
                       <<"fair", 0, "R1.2", Reusable(k)>>}
  BY DEF FairTold
<1> DEFINE I == EvidenceItems(k, Rows)
           H == {g \in I : Hashed(g)}
<1>1. IsFiniteSet(I)
  <2> DEFINE f == [i \in Within(k) |-> ItemOf(i)]
  <2>1. I = {f[i] : i \in Within(k)} /\ DOMAIN f = Within(k)
    BY ItemsAre DEF ItemsTold
  <2>2. Within(k) \in SUBSET Slots
    BY DEF Within, LearnInv
  <2>3. IsFiniteSet(Within(k))
    BY <2>2, AssessmentAssumption, FewerIn
  <2> HIDE DEF f, I
  <2> QED
    BY <2>1, <2>3, ImageFinite
<1>2. H \in SUBSET I
  OBVIOUS
<1> HIDE DEF I, H
<1>3. (Cardinality(I) > 0 <=> I # {}) /\ (Cardinality(H) > 0 <=> H # {})
  <2>1. IsFiniteSet(H) /\ Cardinality(H) \in Nat /\ Cardinality(I) \in Nat
    BY <1>1, <1>2, FewerIn
  <2>2. (Cardinality(I) = 0 <=> I = {}) /\ (Cardinality(H) = 0 <=> H = {})
    BY <1>1, <2>1, FS_EmptySet
  <2> QED
    BY <2>1, <2>2
<1>4. (IF Cardinality(I) > 0 /\ \A g \in I : Verified(g) THEN "pass"
       ELSE IF EverVerified(k, Rows) \/ Cardinality(H) > 0 THEN "partial" ELSE "fail") = Reusable(k)
  <2>1. (\E g \in I : Hashed(g)) <=> H # {}
    BY DEF H
  <2> QED
    BY <1>3, <2>1 DEF Reusable, I
<1> QED
  BY <1>4 DEF Fair, Share, I, H

LEMMA CardsNext == NdsaTold' /\ FairTold'
BY NdsaIs, FairIs, PTL

LEMMA NdsaRaised ==
    ASSUME NEW a1, NEW a2, NEW a3, NEW a4, NEW a5, NEW a6, NEW a7, NEW a8, NEW a9, NEW a10, NEW a11,
           NEW a12, NEW a13,
           NEW b1, NEW b2, NEW b3, NEW b4, NEW b5, NEW b6, NEW b7, NEW b8, NEW b9, NEW b10, NEW b11,
           NEW b12, NEW b13,
           Higher(a1, b1), Higher(a2, b2), Higher(a3, b3), Higher(a4, b4), Higher(a6, b6),
           Higher(a7, b7), Higher(a8, b8), Higher(a9, b9), Higher(a10, b10), Higher(a11, b11),
           Higher(a12, b12), Higher(a13, b13),
           NEW X, X = NdsaCard(a1, a2, a3, a4, a5, a6, a7, a8, a9, a10, a11, a12, a13),
           NEW Y, Y = NdsaCard(b1, b2, b3, b4, b5, b6, b7, b8, b9, b10, b11, b12, b13)
    PROVE  Raised({x \in X : x[3] # "3b" \/ x[1] # "storage"}, Y)
<1>1. Higher("pass", "pass")
  BY DEF Higher, Standing
<1> SUFFICES ASSUME NEW x \in X, x[3] # "3b" \/ x[1] # "storage", NEW y \in Y, x[1] = y[1], x[3] = y[3]
             PROVE  Higher(x[4], y[4])
  BY DEF Raised, Higher
<1> QED
  BY <1>1 DEF NdsaCard

LevelCard(i1b, i3a, i3b, i3c) ==
    IF i1b # "pass" THEN 0 ELSE IF i3a # "pass" \/ i3b # "pass" \/ i3c # "pass" THEN 2 ELSE 4

LEMMA LevelIs ==
    ASSUME NEW a1, NEW a2, NEW a3, NEW a4, NEW a5, NEW a6, NEW a7, NEW a8, NEW a9, NEW a10, NEW a11,
           NEW a12, NEW a13,
           NEW X, X = NdsaCard(a1, a2, a3, a4, a5, a6, a7, a8, a9, a10, a11, a12, a13)
    PROVE  LevelOf(X, "integrity") = LevelCard(a8, a9, a10, a11)
<1> DEFINE mine == {x \in X : x[1] = "integrity"}
           gaps == {x[2] : x \in {y \in mine : y[4] # "pass"}}
<1>1. mine = {<<"integrity", 1, "1b", a8>>, <<"integrity", 2, "2b", "pass">>,
              <<"integrity", 3, "3a", a9>>, <<"integrity", 3, "3b", a10>>, <<"integrity", 3, "3c", a11>>}
  BY DEF NdsaCard
<1>2. gaps = (IF a8 # "pass" THEN {1} ELSE {})
                \cup (IF a9 # "pass" \/ a10 # "pass" \/ a11 # "pass" THEN {3} ELSE {})
  <2> DEFINE fails == {y \in mine : y[4] # "pass"}
  <2>1. \A x \in fails : \/ x = <<"integrity", 1, "1b", a8>> /\ a8 # "pass"
                         \/ x = <<"integrity", 3, "3a", a9>> /\ a9 # "pass"
                         \/ x = <<"integrity", 3, "3b", a10>> /\ a10 # "pass"
                         \/ x = <<"integrity", 3, "3c", a11>> /\ a11 # "pass"
    BY <1>1
  <2>2. /\ a8 # "pass" => <<"integrity", 1, "1b", a8>> \in fails
        /\ a9 # "pass" => <<"integrity", 3, "3a", a9>> \in fails
        /\ a10 # "pass" => <<"integrity", 3, "3b", a10>> \in fails
        /\ a11 # "pass" => <<"integrity", 3, "3c", a11>> \in fails
    BY <1>1
  <2>3. gaps = {x[2] : x \in fails}
    OBVIOUS
  <2> HIDE DEF fails, mine, gaps
  <2>4. \A n \in gaps : (n = 1 /\ a8 # "pass") \/ (n = 3 /\ (a9 # "pass" \/ a10 # "pass" \/ a11 # "pass"))
    BY <2>1, <2>3
  <2>5. /\ a8 # "pass" => 1 \in gaps
        /\ a9 # "pass" \/ a10 # "pass" \/ a11 # "pass" => 3 \in gaps
    BY <2>2, <2>3
  <2> QED
    BY <2>4, <2>5
<1>3. mine # {}
  BY <1>1
<1>4. LevelOf(X, "integrity") = IF gaps = {} THEN 4 ELSE Min(gaps) - 1
  BY <1>3 DEF LevelOf
<1> HIDE DEF mine, gaps
<1>5. Min({1}) = 1 /\ Min({3}) = 3 /\ Min({1, 3}) = 1
  BY DEF Min
<1>6. {1} \cup {3} = {1, 3} /\ {1} \cup {} = {1} /\ {} \cup {3} = {3}
  OBVIOUS
<1> QED
  BY <1>2, <1>4, <1>5, <1>6 DEF LevelCard

LEMMA HigherTruth ==
    ASSUME NEW A \in BOOLEAN, NEW B \in BOOLEAN, A => B
    PROVE  Higher(PassIf(A), PassIf(B)) /\ PassIf(B) \in Outcomes
BY DEF Higher, PassIf, Standing, Outcomes

LEMMA AllOfOutcome == ASSUME NEW m, NEW n PROVE AllOf(m, n) \in Outcomes
BY DEF AllOf, Outcomes

LEMMA HigherSame == ASSUME NEW a \in Outcomes PROVE Higher(a, a)
BY DEF Higher, Outcomes, Standing

LEMMA CardsRise ==
    ASSUME LearnInv, LearnInv', Grew, NEW k
    PROVE  NeverLower(Cards(k), Cards(k)')
<1> PICK I : I = EvidenceItems(k, Rows)
  OBVIOUS
<1> PICK J : J = EvidenceItems(k, Rows)'
  OBVIOUS
<1>1. \A i \in present : \A x, y : x = ItemOf(i) /\ y = ItemOf(i)' =>
        /\ CopiesOf(x) >= 2 => (CopiesOf(y) >= 2)'
        /\ DrivesOf(x) # {} => (DrivesOf(y) # {})'
        /\ CopiesOf(x) >= 3 => (CopiesOf(y) >= 3)'
        /\ Cardinality(ZonesOf(x)) >= 2 => (Cardinality(ZonesOf(y)) >= 2)'
        /\ Cardinality(ZonesOf(x)) >= 3 => (Cardinality(ZonesOf(y)) >= 3)'
        /\ Batches(x) >= 2 => (Batches(y) >= 2)'
        /\ Hashed(x) => Hashed(y)'
        /\ Verified(x) => Verified(y)'
  BY ItemRises
<1>2. \E a, b : /\ a = Share(k, {g \in EvidenceItems(k, Rows) : CopiesOf(g) >= 2})
                 /\ b = Share(k, {g \in EvidenceItems(k, Rows) : CopiesOf(g) >= 2})'
                 /\ Higher(a, b) /\ b \in Outcomes
  <2> PICK P : P = {g \in I : CopiesOf(g) >= 2}
    OBVIOUS
  <2> PICK Q : Q = {g \in J : CopiesOf(g) >= 2}'
    OBVIOUS
  <2>1. Higher(Share(k, P), Share(k, Q)')
    BY <1>1, SharesRise
  <2>2. Share(k, Q)' \in Outcomes
    BY AllOfOutcome DEF Share
  <2> QED
    BY <2>1, <2>2
<1>3. \E a, b : /\ a = Share(k, {g \in EvidenceItems(k, Rows) : DrivesOf(g) # {}})
                 /\ b = Share(k, {g \in EvidenceItems(k, Rows) : DrivesOf(g) # {}})'
                 /\ Higher(a, b) /\ b \in Outcomes
  <2> PICK P : P = {g \in I : DrivesOf(g) # {}}
    OBVIOUS
  <2> PICK Q : Q = {g \in J : DrivesOf(g) # {}}'
    OBVIOUS
  <2>1. Higher(Share(k, P), Share(k, Q)')
    BY <1>1, SharesRise
  <2>2. Share(k, Q)' \in Outcomes
    BY AllOfOutcome DEF Share
  <2> QED
    BY <2>1, <2>2
<1>4. \E a, b : /\ a = Share(k, {g \in EvidenceItems(k, Rows) : CopiesOf(g) >= 3 /\ Cardinality(ZonesOf(g)) >= 2})
                 /\ b = Share(k, {g \in EvidenceItems(k, Rows) : CopiesOf(g) >= 3 /\ Cardinality(ZonesOf(g)) >= 2})'
                 /\ Higher(a, b) /\ b \in Outcomes
  <2> PICK P : P = {g \in I : CopiesOf(g) >= 3 /\ Cardinality(ZonesOf(g)) >= 2}
    OBVIOUS
  <2> PICK Q : Q = {g \in J : CopiesOf(g) >= 3 /\ Cardinality(ZonesOf(g)) >= 2}'
    OBVIOUS
  <2>1. Higher(Share(k, P), Share(k, Q)')
    BY <1>1, SharesRise
  <2>2. Share(k, Q)' \in Outcomes
    BY AllOfOutcome DEF Share
  <2> QED
    BY <2>1, <2>2
<1>5. \E a, b : /\ a = Share(k, {g \in EvidenceItems(k, Rows) : Cardinality(ZonesOf(g)) >= 2})
                 /\ b = Share(k, {g \in EvidenceItems(k, Rows) : Cardinality(ZonesOf(g)) >= 2})'
                 /\ Higher(a, b) /\ b \in Outcomes
  <2> PICK P : P = {g \in I : Cardinality(ZonesOf(g)) >= 2}
    OBVIOUS
  <2> PICK Q : Q = {g \in J : Cardinality(ZonesOf(g)) >= 2}'
    OBVIOUS
  <2>1. Higher(Share(k, P), Share(k, Q)')
    BY <1>1, SharesRise
  <2>2. Share(k, Q)' \in Outcomes
    BY AllOfOutcome DEF Share
  <2> QED
    BY <2>1, <2>2
<1>6. \E a, b : /\ a = Share(k, {g \in EvidenceItems(k, Rows) : Cardinality(ZonesOf(g)) >= 3})
                 /\ b = Share(k, {g \in EvidenceItems(k, Rows) : Cardinality(ZonesOf(g)) >= 3})'
                 /\ Higher(a, b) /\ b \in Outcomes
  <2> PICK P : P = {g \in I : Cardinality(ZonesOf(g)) >= 3}
    OBVIOUS
  <2> PICK Q : Q = {g \in J : Cardinality(ZonesOf(g)) >= 3}'
    OBVIOUS
  <2>1. Higher(Share(k, P), Share(k, Q)')
    BY <1>1, SharesRise
  <2>2. Share(k, Q)' \in Outcomes
    BY AllOfOutcome DEF Share
  <2> QED
    BY <2>1, <2>2
<1>7. \E a, b : /\ a = Share(k, {g \in EvidenceItems(k, Rows) : Batches(g) >= 2})
                 /\ b = Share(k, {g \in EvidenceItems(k, Rows) : Batches(g) >= 2})'
                 /\ Higher(a, b) /\ b \in Outcomes
  <2> PICK P : P = {g \in I : Batches(g) >= 2}
    OBVIOUS
  <2> PICK Q : Q = {g \in J : Batches(g) >= 2}'
    OBVIOUS
  <2>1. Higher(Share(k, P), Share(k, Q)')
    BY <1>1, SharesRise
  <2>2. Share(k, Q)' \in Outcomes
    BY AllOfOutcome DEF Share
  <2> QED
    BY <2>1, <2>2
<1>8. \E a, b : /\ a = Share(k, {g \in EvidenceItems(k, Rows) : Hashed(g)})
                 /\ b = Share(k, {g \in EvidenceItems(k, Rows) : Hashed(g)})'
                 /\ Higher(a, b) /\ b \in Outcomes
  <2> PICK P : P = {g \in I : Hashed(g)}
    OBVIOUS
  <2> PICK Q : Q = {g \in J : Hashed(g)}'
    OBVIOUS
  <2>1. Higher(Share(k, P), Share(k, Q)')
    BY <1>1, SharesRise
  <2>2. Share(k, Q)' \in Outcomes
    BY AllOfOutcome DEF Share
  <2> QED
    BY <2>1, <2>2
<1>9. \E a, b : /\ a = Share(k, {g \in EvidenceItems(k, Rows) : Verified(g)})
                 /\ b = Share(k, {g \in EvidenceItems(k, Rows) : Verified(g)})'
                 /\ Higher(a, b) /\ b \in Outcomes
  <2> PICK P : P = {g \in I : Verified(g)}
    OBVIOUS
  <2> PICK Q : Q = {g \in J : Verified(g)}'
    OBVIOUS
  <2>1. Higher(Share(k, P), Share(k, Q)')
    BY <1>1, SharesRise
  <2>2. Share(k, Q)' \in Outcomes
    BY AllOfOutcome DEF Share
  <2> QED
    BY <2>1, <2>2
<1> PICK a1, b1 : /\ a1 = Share(k, {g \in EvidenceItems(k, Rows) : CopiesOf(g) >= 2})
                   /\ b1 = Share(k, {g \in EvidenceItems(k, Rows) : CopiesOf(g) >= 2})'
                   /\ Higher(a1, b1) /\ b1 \in Outcomes
  BY <1>2
<1> PICK a2, b2 : /\ a2 = Share(k, {g \in EvidenceItems(k, Rows) : DrivesOf(g) # {}})
                   /\ b2 = Share(k, {g \in EvidenceItems(k, Rows) : DrivesOf(g) # {}})'
                   /\ Higher(a2, b2) /\ b2 \in Outcomes
  BY <1>3
<1> PICK a3, b3 : /\ a3 = Share(k, {g \in EvidenceItems(k, Rows) : CopiesOf(g) >= 3 /\ Cardinality(ZonesOf(g)) >= 2})
                   /\ b3 = Share(k, {g \in EvidenceItems(k, Rows) : CopiesOf(g) >= 3 /\ Cardinality(ZonesOf(g)) >= 2})'
                   /\ Higher(a3, b3) /\ b3 \in Outcomes
  BY <1>4
<1> PICK a4, b4 : /\ a4 = Share(k, {g \in EvidenceItems(k, Rows) : Cardinality(ZonesOf(g)) >= 2})
                   /\ b4 = Share(k, {g \in EvidenceItems(k, Rows) : Cardinality(ZonesOf(g)) >= 2})'
                   /\ Higher(a4, b4) /\ b4 \in Outcomes
  BY <1>5
<1> PICK a6, b6 : /\ a6 = Share(k, {g \in EvidenceItems(k, Rows) : Cardinality(ZonesOf(g)) >= 3})
                   /\ b6 = Share(k, {g \in EvidenceItems(k, Rows) : Cardinality(ZonesOf(g)) >= 3})'
                   /\ Higher(a6, b6) /\ b6 \in Outcomes
  BY <1>6
<1> PICK a7, b7 : /\ a7 = Share(k, {g \in EvidenceItems(k, Rows) : Batches(g) >= 2})
                   /\ b7 = Share(k, {g \in EvidenceItems(k, Rows) : Batches(g) >= 2})'
                   /\ Higher(a7, b7) /\ b7 \in Outcomes
  BY <1>7
<1> PICK a8, b8 : /\ a8 = Share(k, {g \in EvidenceItems(k, Rows) : Hashed(g)})
                   /\ b8 = Share(k, {g \in EvidenceItems(k, Rows) : Hashed(g)})'
                   /\ Higher(a8, b8) /\ b8 \in Outcomes
  BY <1>8
<1> PICK a9, b9 : /\ a9 = Share(k, {g \in EvidenceItems(k, Rows) : Verified(g)})
                   /\ b9 = Share(k, {g \in EvidenceItems(k, Rows) : Verified(g)})'
                   /\ Higher(a9, b9) /\ b9 \in Outcomes
  BY <1>9
<1> PICK a5, b5 :
        /\ a5 = (LET drives == UNION {DrivesOf(g) : g \in EvidenceItems(k, Rows)}
                 IN  AllOf(Cardinality({d \in drives : sheet[d].bought # Unknown}), Cardinality(drives)))
        /\ b5 = (LET drives == UNION {DrivesOf(g) : g \in EvidenceItems(k, Rows)}
                 IN  AllOf(Cardinality({d \in drives : sheet[d].bought # Unknown}), Cardinality(drives)))'
  OBVIOUS
<1> PICK a10, b10 : a10 = PassIf(EverVerified(k, Rows)) /\ b10 = PassIf(EverVerified(k, Rows))'
  OBVIOUS
<1> PICK a11, b11 : /\ a11 = PassIf(\E g \in EvidenceItems(k, Rows) : Hashed(g))
                    /\ b11 = PassIf(\E g \in EvidenceItems(k, Rows) : Hashed(g))'
  OBVIOUS
<1> PICK a12, b12 : a12 = Described(k, AllFields) /\ b12 = Described(k, AllFields)'
  OBVIOUS
<1> PICK a13, b13 : a13 = PassIf(entry[k] = AllFields) /\ b13 = PassIf(entry[k] = AllFields)'
  OBVIOUS
<1> PICK X : X = Ndsa(k, Rows)
  OBVIOUS
<1> PICK Y : Y = Ndsa(k, Rows)'
  OBVIOUS
<1>10. EverVerified(k, Rows) => EverVerified(k, Rows)'
  <2>1. EverVerified(k, Rows) <=> \E i \in Within(k) \cap hashed : fixity[BytesOf[i]].ever
    BY EverIs DEF EverTold
  <2>2. EverVerified(k, Rows)' <=> \E i \in Within(k)' \cap hashed' : fixity'[BytesOf[i]].ever
    BY ToldNext DEF EverTold
  <2>3. Within(k)' = Within(k) /\ Within(k) \subseteq Slots
    BY DEF Within, Grew, LearnInv
  <2> QED
    BY <2>1, <2>2, <2>3 DEF Grew
<1>11. /\ I = {ItemOf(i) : i \in Within(k)} /\ J = {ItemOf(i)' : i \in Within(k)}
       /\ Within(k) \subseteq present
  <2>1. I = {ItemOf(i) : i \in Within(k)}
    BY ItemsAre DEF ItemsTold
  <2>2. J = {ItemOf(i)' : i \in Within(k)'}
    BY ToldNext DEF ItemsTold
  <2> QED
    BY <2>1, <2>2 DEF Within, Grew
<1>12. (\E g \in I : Hashed(g)) => \E g \in J : Hashed(g)'
  BY <1>1, <1>11
<1>13. (I # {} /\ \A g \in I : Verified(g)) => (J # {} /\ \A g \in J : Verified(g)')
  BY <1>1, <1>11
<1>14. Higher(a10, b10) /\ b10 \in Outcomes
  <2>1. EverVerified(k, Rows) \in BOOLEAN /\ EverVerified(k, Rows)' \in BOOLEAN
    BY DEF EverVerified
  <2> QED
    BY <2>1, <1>10, HigherTruth
<1>15. Higher(a11, b11) /\ b11 \in Outcomes
  <2> PICK A \in BOOLEAN : A = \E g \in I : Hashed(g)
    OBVIOUS
  <2> PICK B \in BOOLEAN : B = \E g \in J : Hashed(g)'
    OBVIOUS
  <2>1. A => B
    BY <1>12
  <2>2. a11 = PassIf(A) /\ b11 = PassIf(B)
    BY DEF PassIf
  <2> QED
    BY <2>1, <2>2, HigherTruth
<1>16. /\ a12 = b12 /\ a13 = b13 /\ a12 \in Outcomes /\ a13 \in Outcomes
       /\ PassIf("license" \in entry[k])' = PassIf("license" \in entry[k])
       /\ PassIf("license" \in entry[k]) \in Outcomes
  BY DEF Grew, Described, PassIf, Outcomes
<1>17. Higher(a12, b12) /\ Higher(a13, b13) /\ Higher(PassIf("license" \in entry[k]), PassIf("license" \in entry[k]))
  BY <1>16, HigherSame
<1>18. X = NdsaCard(a1, a2, a3, a4, a5, a6, a7, a8, a9, a10, a11, a12, a13)
  BY NdsaIs DEF NdsaTold
<1>19. Y = NdsaCard(b1, b2, b3, b4, b5, b6, b7, b8, b9, b10, b11, b12, b13)
  BY CardsNext DEF NdsaTold
<1>20. Raised({x \in X : x[3] # "3b" \/ x[1] # "storage"}, Y)
  <2>1. /\ Higher(a1, b1) /\ Higher(a2, b2) /\ Higher(a3, b3) /\ Higher(a4, b4) /\ Higher(a6, b6)
        /\ Higher(a7, b7) /\ Higher(a8, b8) /\ Higher(a9, b9) /\ Higher(a10, b10) /\ Higher(a11, b11)
        /\ Higher(a12, b12) /\ Higher(a13, b13)
    BY <1>14, <1>15, <1>17
  <2> QED
    BY ONLY <2>1, <1>18, <1>19, NdsaRaised
<1>21. LevelOf(X, "integrity") = LevelCard(a8, a9, a10, a11) /\ LevelOf(Y, "integrity") = LevelCard(b8, b9, b10, b11)
  BY ONLY <1>18, <1>19, LevelIs
<1>22. LevelOf(Y, "integrity") >= LevelOf(X, "integrity")
  <2>1. /\ a8 = "pass" => b8 = "pass"
        /\ a9 = "pass" => b9 = "pass"
        /\ a10 = "pass" => b10 = "pass"
        /\ a11 = "pass" => b11 = "pass"
    BY <1>14, <1>15, HigherPass
  <2> QED
    BY ONLY <2>1, <1>21 DEF LevelCard
<1>23. Higher(Reusable(k), Reusable(k)')
  BY <1>10, <1>12, <1>13 DEF Reusable, Higher, Standing
<1>24. Raised(Fair(k, Rows), Fair(k, Rows)')
  <2> PICK l \in Outcomes : l = PassIf("license" \in entry[k]) /\ l = PassIf("license" \in entry[k])'
    BY <1>16
  <2> PICK r : r = Reusable(k)
    OBVIOUS
  <2> PICK s : s = Reusable(k)'
    OBVIOUS
  <2>1. Fair(k, Rows) = {<<"fair", 0, "F2", a12>>, <<"fair", 0, "A1", a2>>, <<"fair", 0, "R1.1", l>>, <<"fair", 0, "R1.2", r>>}
    BY FairIs DEF FairTold
  <2>2. Fair(k, Rows)' = {<<"fair", 0, "F2", b12>>, <<"fair", 0, "A1", b2>>, <<"fair", 0, "R1.1", l>>, <<"fair", 0, "R1.2", s>>}
    BY CardsNext DEF FairTold
  <2>3. Higher(a12, b12) /\ Higher(a2, b2) /\ Higher(l, l) /\ Higher(r, s)
    BY <1>17, <1>23
  <2> PICK U : U = Fair(k, Rows)
    OBVIOUS
  <2> PICK V : V = Fair(k, Rows)'
    OBVIOUS
  <2>4. Raised(U, V)
    <3>1. U = {<<"fair", 0, "F2", a12>>, <<"fair", 0, "A1", a2>>, <<"fair", 0, "R1.1", l>>, <<"fair", 0, "R1.2", r>>}
      BY <2>1
    <3>2. V = {<<"fair", 0, "F2", b12>>, <<"fair", 0, "A1", b2>>, <<"fair", 0, "R1.1", l>>, <<"fair", 0, "R1.2", s>>}
      BY <2>2
    <3> QED
      BY ONLY <2>3, <3>1, <3>2 DEF Raised, Higher
  <2> QED
    BY <2>4
<1> QED
  BY <1>20, <1>22, <1>24 DEF NeverLower, Cards

LEMMA LearnBegins == AssessmentInit => LearnInv
<1> SUFFICES ASSUME AssessmentInit PROVE LearnInv
  OBVIOUS
<1>1. present \subseteq Slots /\ hashed \subseteq present /\ today \in Nat
  BY DEF AssessmentInit, SharingSize
<1>2. fixity \in [{BytesOf[i] : i \in Slots} -> [ever : BOOLEAN, ok : Int]]
  BY DEF AssessmentInit, Never
<1> QED
  BY <1>1, <1>2 DEF LearnInv

LEMMA CheckedGrows ==
    ASSUME LearnInv, NEW bad, VerifyAll(bad)
    PROVE  /\ fixity' \in [{BytesOf[i] : i \in Slots} -> [ever : BOOLEAN, ok : Int]]
           /\ \A i \in Slots : /\ fixity[BytesOf[i]].ever => fixity'[BytesOf[i]].ever
                               /\ fixity[BytesOf[i]].ok >= today - 1 => fixity'[BytesOf[i]].ok >= today - 1
<1> PICK C : C = {BytesOf[i] : i \in Slots}
  OBVIOUS
<1>1. fixity \in [C -> [ever : BOOLEAN, ok : Int]] /\ today \in Nat
  BY DEF LearnInv
<1>2. \A c \in C : fixity'[c] = fixity[c] \/ fixity'[c] = Checked(fixity[c], c \notin bad)
  BY <1>1 DEF VerifyAll
<1>3. fixity' = [c \in C |-> fixity'[c]]
  BY <1>1 DEF VerifyAll
<1>4. ASSUME NEW c \in C
      PROVE  /\ fixity'[c] \in [ever : BOOLEAN, ok : Int]
             /\ fixity[c].ever => fixity'[c].ever
             /\ fixity[c].ok >= today - 1 => fixity'[c].ok >= today - 1
  <2>1. fixity[c] \in [ever : BOOLEAN, ok : Int]
    BY <1>1
  <2>2. CASE fixity'[c] = fixity[c]
    BY <2>1, <2>2
  <2>3. CASE fixity'[c] = Checked(fixity[c], c \notin bad)
    <3>1. fixity'[c] = [ever |-> TRUE, ok |-> IF c \notin bad THEN today ELSE fixity[c].ok]
      BY <2>3 DEF Checked
    <3> QED
      BY <3>1, <2>1, <1>1
  <2> QED
    BY <1>2, <2>2, <2>3
<1>5. fixity' \in [C -> [ever : BOOLEAN, ok : Int]]
  BY <1>3, <1>4
<1> QED
  BY <1>4, <1>5

LEMMA LearnHolds ==
    ASSUME LearnInv, AssessmentNext PROVE LearnInv'
<1> USE DEF LearnInv
<1>1. ASSUME NEW i \in Slots, FileComes(i) \/ FileGoes(i) PROVE LearnInv'
  BY <1>1 DEF FileComes, FileGoes
<1>2. ASSUME NEW V, HashVolumes(V) PROVE LearnInv'
  BY <1>2 DEF HashVolumes, SharingSize
<1>3. ASSUME NEW bad, VerifyAll(bad) PROVE LearnInv'
  <2>1. UNCHANGED <<present, hashed, today>>
    BY <1>3 DEF VerifyAll
  <2> QED
    BY <1>3, <2>1, CheckedGrows
<1>4. CASE UNCHANGED <<present, hashed, today, fixity>>
  BY <1>4
<1>5. ASSUME NEW v, NEW d, NameDrive(v, d) PROVE LearnInv'
  BY <1>4, <1>5 DEF NameDrive
<1>6. ASSUME NEW d, NEW changed, EditDrive(d, changed) PROVE LearnInv'
  BY <1>4, <1>6 DEF EditDrive
<1>7. ASSUME NEW d, NEW plain, NEW bridged, ReadHealth(d, plain, bridged) PROVE LearnInv'
  BY <1>4, <1>7 DEF ReadHealth
<1>8. ASSUME NEW k, NEW fields, EditEntry(k, fields) PROVE LearnInv'
  BY <1>4, <1>8 DEF EditEntry
<1>9. CASE ImportTable \/ ForgetTable
  BY <1>4, <1>9 DEF ImportTable, ForgetTable
<1>10. CASE YearPasses
  BY <1>10 DEF YearPasses
<1> QED
  BY <1>1, <1>2, <1>3, <1>5, <1>6, <1>7, <1>8, <1>9, <1>10 DEF AssessmentNext

LEMMA LearnedGrows ==
    ASSUME LearnInv, AssessmentNext, Learned PROVE Grew
<1>1. UNCHANGED <<present, today, sheet, entry>>
      /\ \A v \in AllVolumes : homeOf'[v] = homeOf[v] \/ homeOf[v] = NoDrive
  BY DEF Learned
<1>2. CASE UNCHANGED <<hashed, fixity, ruled>>
  BY <1>1, <1>2 DEF Grew
<1>3. ASSUME NEW i \in Slots, FileComes(i) \/ FileGoes(i) PROVE FALSE
  BY <1>1, <1>3 DEF FileComes, FileGoes
<1>4. ASSUME NEW V, HashVolumes(V) PROVE Grew
  BY <1>1, <1>4 DEF HashVolumes, Grew
<1>5. ASSUME NEW bad, VerifyAll(bad) PROVE Grew
  <2>1. UNCHANGED <<hashed, ruled>>
    BY <1>5 DEF VerifyAll
  <2> QED
    BY <1>1, <1>5, <2>1, CheckedGrows DEF Grew
<1>6. ASSUME NEW v, NEW d, NameDrive(v, d) PROVE Grew
  BY <1>2, <1>6 DEF NameDrive
<1>7. ASSUME NEW d, NEW changed, EditDrive(d, changed) PROVE Grew
  BY <1>2, <1>7 DEF EditDrive
<1>8. ASSUME NEW d, NEW plain, NEW bridged, ReadHealth(d, plain, bridged) PROVE Grew
  BY <1>2, <1>8 DEF ReadHealth
<1>9. ASSUME NEW k, NEW fields, EditEntry(k, fields) PROVE Grew
  BY <1>2, <1>9 DEF EditEntry
<1>10. CASE ImportTable \/ ForgetTable
  BY <1>2, <1>10 DEF ImportTable, ForgetTable
<1>11. CASE YearPasses
  BY <1>2, <1>11 DEF YearPasses
<1> QED
  BY <1>3, <1>4, <1>5, <1>6, <1>7, <1>8, <1>9, <1>10, <1>11 DEF AssessmentNext

LEMMA AlwaysLearning == AssessmentSpec => []LearnInv
<1>1. LearnInv /\ [AssessmentNext]_assessmentVars => LearnInv'
  <2> SUFFICES ASSUME LearnInv, UNCHANGED assessmentVars PROVE LearnInv'
    BY LearnHolds
  <2> QED
    BY DEF LearnInv, assessmentVars
<1> QED
  BY LearnBegins, <1>1, PTL DEF AssessmentSpec

(* What is learned of files that stay as they are, of their identities,    *)
(* the outcomes of a verify pass or the drive of a volume that had none,   *)
(* never lowers a criterion of a collection's scorecards but the one of    *)
(* purchase dates, nor the level reached in integrity (scorecard.py).      *)
THEOREM EvidenceNeverLowers == AssessmentSpec => EvidenceOnlyRaises
<1>1. LearnInv /\ LearnInv' /\ [AssessmentNext]_assessmentVars
        => [Learned => \A k \in DOMAIN ruled : NeverLower(Cards(k), Cards(k)')]_assessmentVars
  <2> SUFFICES ASSUME LearnInv, LearnInv', AssessmentNext, Learned, NEW k \in DOMAIN ruled
               PROVE  NeverLower(Cards(k), Cards(k)')
    OBVIOUS
  <2> QED
    BY LearnedGrows, CardsRise
<1> QED
  BY AlwaysLearning, <1>1, PTL DEF AssessmentSpec, EvidenceOnlyRaises

-----------------------------------------------------------------------------
(* The reports.  What they speak of are readings there may be, drives and  *)
(* fields that are known, and files as above.                              *)
HealthRows ==
    {NotRead, NoReading}
      \cup [confidence : {"measured"}, passed : {answer.passed : answer \in Answers},
            signs : SUBSET DOMAIN SectorFactor, hours : Nat \cup {Unknown}, life : Nat \cup {Unknown}]

ReportsTyped ==
    /\ homeOf \in [AllVolumes -> DriveIds \cup {NoDrive}]
    /\ sheet \in [DriveIds -> [bought : Purchases \cup {Unknown}, zone : Zones \cup {Unrecorded}]]
    /\ health \in [DriveIds -> HealthRows]
    /\ imported \in BOOLEAN
    /\ ruled \in RuleSets /\ entry \in [DOMAIN ruled -> SUBSET AllFields]

ReportsInv == LearnInv /\ ReportsTyped

(* What smartctl answers is a reading there may be.                        *)
LEMMA ReadingIs == ASSUME NEW a \in Answers PROVE Parse(a) \in HealthRows
<1>1. CASE Parse(a) = NoReading
  BY <1>1 DEF HealthRows
<1>2. CASE Parse(a) # NoReading
  <2> DEFINE signs == IF a.nvme THEN a.signs \cap {"uncorrectable"}
                      ELSE IF a.attributes THEN a.signs ELSE {}
             life == IF a.nvme \/ a.attributes THEN a.life ELSE Unknown
  <2>1. Parse(a) = [confidence |-> "measured", passed |-> a.passed, hours |-> a.hours,
                    life |-> life, signs |-> signs]
    BY <1>2 DEF Parse
  <2>2. signs \in SUBSET DOMAIN SectorFactor
    BY RateAssumption
  <2>3. a.passed \in {answer.passed : answer \in Answers}
    OBVIOUS
  <2>4. a.hours \in Nat \cup {Unknown} /\ life \in Nat \cup {Unknown}
    BY RateAssumption
  <2> HIDE DEF signs, life
  <2> QED
    BY <2>1, <2>2, <2>3, <2>4 DEF HealthRows
<1> QED
  BY <1>1, <1>2

(* The types of what the reports speak of, at first and by each step.      *)
LEMMA ReportsBegin == AssessmentInit => ReportsTyped
<1> SUFFICES ASSUME AssessmentInit PROVE ReportsTyped  OBVIOUS
<1>1. homeOf \in [AllVolumes -> DriveIds \cup {NoDrive}] /\ imported \in BOOLEAN /\ ruled \in RuleSets
  BY DEF AssessmentInit
<1>2. sheet \in [DriveIds -> [bought : Purchases \cup {Unknown}, zone : Zones \cup {Unrecorded}]]
  BY DEF AssessmentInit, NotRecorded
<1>3. health \in [DriveIds -> HealthRows]
  BY DEF AssessmentInit, HealthRows
<1>4. entry \in [DOMAIN ruled -> SUBSET AllFields]
  BY DEF AssessmentInit, AllFields
<1> QED
  BY <1>1, <1>2, <1>3, <1>4 DEF ReportsTyped

LEMMA ReportsHold == ASSUME ReportsTyped, AssessmentNext PROVE ReportsTyped'
<1> USE DEF ReportsTyped
<1>1. CASE UNCHANGED <<homeOf, sheet, health, imported, ruled, entry>>
  BY <1>1
<1>2. ASSUME NEW i \in Slots, FileComes(i) \/ FileGoes(i) PROVE ReportsTyped'
  BY <1>1, <1>2 DEF FileComes, FileGoes
<1>3. ASSUME NEW V, HashVolumes(V) PROVE ReportsTyped'
  BY <1>1, <1>3 DEF HashVolumes
<1>4. ASSUME NEW bad, VerifyAll(bad) PROVE ReportsTyped'
  BY <1>1, <1>4 DEF VerifyAll
<1>5. ASSUME NEW v \in AllVolumes, NEW d \in DriveIds, NameDrive(v, d) PROVE ReportsTyped'
  <2>1. homeOf' \in [AllVolumes' -> DriveIds \cup {NoDrive}]
    BY <1>5 DEF NameDrive, AllVolumes
  <2> QED
    BY <1>5, <2>1 DEF NameDrive
<1>6. ASSUME NEW d \in DriveIds, NEW row \in [bought : Purchases \cup {Unknown}, zone : Zones \cup {Unrecorded}],
             EditDrive(d, row)
      PROVE  ReportsTyped'
  BY <1>6 DEF EditDrive
<1>7. ASSUME NEW d \in DriveIds, NEW plain \in Answers, NEW bridged \in Answers, ReadHealth(d, plain, bridged)
      PROVE  ReportsTyped'
  <2>1. ReadDrive(plain, bridged) \in HealthRows
    BY ReadingIs DEF ReadDrive
  <2> QED
    BY <1>7, <2>1 DEF ReadHealth
<1>8. ASSUME NEW k \in DOMAIN ruled, NEW fields \in Entries, EditEntry(k, fields) PROVE ReportsTyped'
  BY <1>8, EntryAssumption DEF EditEntry
<1>9. CASE ImportTable \/ ForgetTable
  BY <1>9 DEF ImportTable, ForgetTable
<1>10. CASE YearPasses
  BY <1>1, <1>10 DEF YearPasses
<1>11. \A d \in DriveIds :
         /\ \A b \in Purchases \cup {Unknown} :
               [sheet[d] EXCEPT !.bought = b] \in [bought : Purchases \cup {Unknown}, zone : Zones \cup {Unrecorded}]
         /\ \A z \in Zones \cup {Unrecorded} :
               [sheet[d] EXCEPT !.zone = z] \in [bought : Purchases \cup {Unknown}, zone : Zones \cup {Unrecorded}]
  OBVIOUS
<1> HIDE DEF ReportsTyped
<1> QED
  BY <1>2, <1>3, <1>4, <1>5, <1>6, <1>7, <1>8, <1>9, <1>10, <1>11 DEF AssessmentNext

LEMMA AlwaysReports == AssessmentSpec => []ReportsInv
<1>1. ReportsTyped /\ [AssessmentNext]_assessmentVars => ReportsTyped'
  <2> SUFFICES ASSUME ReportsTyped, UNCHANGED assessmentVars PROVE ReportsTyped'
    BY ReportsHold
  <2> QED
    BY DEF ReportsTyped, assessmentVars
<1> QED
  BY ReportsBegin, AlwaysLearning, <1>1, PTL DEF AssessmentSpec, ReportsInv

LEMMA GreaterOfTwo ==
    ASSUME NEW a \in Int, NEW b \in Int
    PROVE  /\ Max({a, b}) = IF a >= b THEN a ELSE b
           /\ Min({a, b}) = IF a <= b THEN a ELSE b
<1> DEFINE most == IF a >= b THEN a ELSE b
           least == IF a <= b THEN a ELSE b
<1>1. most \in {a, b} /\ \A y \in {a, b} : most >= y
  OBVIOUS
<1>2. least \in {a, b} /\ \A y \in {a, b} : least <= y
  OBVIOUS
<1>3. Max({a, b}) \in {a, b} /\ \A y \in {a, b} : Max({a, b}) >= y
  BY <1>1 DEF Max
<1>4. Min({a, b}) \in {a, b} /\ \A y \in {a, b} : Min({a, b}) <= y
  BY <1>2 DEF Min
<1> QED
  BY <1>1, <1>2, <1>3, <1>4

(* The program and the bench look a base rate up in the same tables        *)
(* (afr.py, oracle.py).                                                    *)
LEMMA BaseIs ==
    ASSUME imported \in BOOLEAN, NEW d \in DriveIds
    PROVE  /\ BaseRate(Built[d]).rate \in Nat
           /\ ~imported => BaseRate(Built[d]).rate = ExpectedBase(Built[d])
<1> DEFINE make == Built[d]
           M == {i \in DOMAIN RateTables : make.model \in DOMAIN RateTables[i].models}
           C == {i \in DOMAIN RateTables : make.media \in DOMAIN RateTables[i].classes}
           m == IF M = {} THEN 0 ELSE Min(M)
           c == IF C = {} THEN 0 ELSE Min(C)
<1>1. BaseRate(make).rate = IF m # 0 THEN RateTables[m].models[make.model]
                                     ELSE RateTables[c].classes[make.media]
  BY DEF BaseRate, FirstWith
<1>2. \/ imported /\ RateTables = <<ImportedTable, ShippedTable>> /\ DOMAIN RateTables = 1 .. 2
      \/ ~imported /\ RateTables = <<ShippedTable>> /\ DOMAIN RateTables = 1 .. 1
  BY DEF RateTables
<1>3. M \in SUBSET Nat /\ C \in SUBSET Nat /\ 0 \notin M /\ 0 \notin C
  BY <1>2
<1>4. C # {}
  BY <1>2, RateAssumption
<1>5. (m # 0 => m \in M) /\ c \in C
  <2> HIDE DEF M, C
  <2> QED
    BY <1>3, <1>4, LeastOf
<1>6. \A i \in DOMAIN RateTables : RateTables[i] \in {ShippedTable, ImportedTable}
  BY <1>2
<1>7. /\ m # 0 => m \in DOMAIN RateTables /\ make.model \in DOMAIN RateTables[m].models
      /\ c \in DOMAIN RateTables /\ make.media \in DOMAIN RateTables[c].classes
  <2> HIDE DEF m, c
  <2> QED
    BY <1>5
<1> HIDE DEF m, c
<1>8. BaseRate(make).rate \in Nat
  BY <1>1, <1>6, <1>7, RateAssumption
<1>9. ASSUME ~imported PROVE BaseRate(make).rate = ExpectedBase(make)
  <2>1. RateTables = <<ShippedTable>> /\ DOMAIN RateTables = 1 .. 1
    BY <1>2, <1>9
  <2>2. c = 1 /\ (m # 0 => m = 1) /\ RateTables[1] = ShippedTable
    BY <1>7, <2>1
  <2>3. m # 0 <=> make.model \in DOMAIN ShippedTable.models
    <3>1. M = {} \/ m \in M
      <4> HIDE DEF M
      <4> QED
        BY <1>3, LeastOf DEF m
    <3>2. M # {} <=> make.model \in DOMAIN ShippedTable.models
      BY <2>1
    <3>3. m # 0 <=> M # {}
      <4> HIDE DEF M
      <4> QED
        BY <1>3, <3>1 DEF m
    <3> QED
      BY <3>2, <3>3
  <2> QED
    BY <1>1, <2>2, <2>3 DEF ExpectedBase
<1> QED
  BY <1>8, <1>9

(* The last band that begins by a value is the one the value falls in      *)
(* (afr.py, oracle.py).                                                    *)
LEMMA BandIs ==
    ASSUME NEW ranges, AreRanges(ranges), NEW v \in Nat
    PROVE  InRanges(v, ranges) \in Nat /\ InBand(v, ranges) = InRanges(v, ranges)
<1> DEFINE n == Len(ranges)
           S == {i \in DOMAIN ranges : ranges[i].from <= v}
           in == {i \in DOMAIN ranges : /\ v >= ranges[i].from
                                        /\ i < Len(ranges) => v < ranges[i + 1].from}
           m == Max(S)
<1>1. n \in Nat \ {0} /\ DOMAIN ranges = 1 .. n /\ ranges[1].from = 0
  BY DEF AreRanges
<1>2. \A i \in 1 .. n : ranges[i].from \in Nat /\ ranges[i].factor \in Nat
  BY <1>1 DEF AreRanges
<1>3. \A i, j \in 1 .. n : i < j => ranges[i].from < ranges[j].from
  BY <1>1 DEF AreRanges
<1>4. S \in SUBSET (0 .. n) /\ 1 \in S
  BY <1>1
<1>5. m \in S /\ \A i \in S : i <= m
  <2> HIDE DEF S
  <2> QED
    BY <1>1, <1>4, LargestOf
<1> HIDE DEF m
<1>6. m \in 1 .. n /\ ranges[m].from <= v
  BY <1>1, <1>5
<1>7. m \in in
  <2>1. ASSUME m < n PROVE v < ranges[m + 1].from
    <3>1. m + 1 \in 1 .. n /\ m + 1 \notin S
      BY <1>1, <1>5, <1>6, <2>1
    <3> QED
      BY <1>1, <1>2, <3>1
  <2> QED
    BY <1>1, <1>2, <1>6, <2>1
<1>8. ASSUME NEW i \in in PROVE i = m
  <2>1. i \in S /\ i \in 1 .. n
    BY <1>1, <1>2
  <2>2. i <= m
    BY <1>5, <2>1
  <2>3. ASSUME i < m PROVE FALSE
    <3>1. i + 1 \in 1 .. n /\ i < n
      BY <1>1, <1>6, <2>1, <2>3
    <3>2. v < ranges[i + 1].from
      BY <1>1, <3>1
    <3>3. i + 1 = m \/ ranges[i + 1].from < ranges[m].from
      BY <1>3, <1>6, <2>1, <2>3, <3>1
    <3> QED
      BY <1>2, <1>6, <3>1, <3>2, <3>3
  <2> QED
    BY <1>6, <2>1, <2>2, <2>3
<1>9. in = {m}
  BY <1>7, <1>8
<1>10. Min(in) = m
  <2>1. Min({m}) \in {m}
    <3>1. m \in {m} /\ \A y \in {m} : m <= y
      BY <1>6
    <3> QED
      BY <3>1 DEF Min
  <2> QED
    BY <1>9, <2>1
<1>11. InBand(v, ranges) = ranges[m].factor
  <2>1. InBand(v, ranges) = IF in = {} THEN 10 ELSE ranges[Min(in)].factor
    BY DEF InBand
  <2> HIDE DEF in
  <2> QED
    BY <1>9, <1>10, <2>1
<1>12. InRanges(v, ranges) = ranges[m].factor
  BY DEF InRanges, Unknown, m
<1> QED
  BY <1>2, <1>6, <1>11, <1>12

(* What the signs of bad health make of a rate.                            *)
LEMMA SignsRate ==
    ASSUME NEW signs \in SUBSET DOMAIN SectorFactor
    PROVE  /\ SmartFactor(signs) \in Nat
           /\ signs = {} => SmartFactor(signs) = 100
           /\ signs = FailingSigns =>
                SmartFactor(signs) =
                  10 * Max({SectorFactor["pending"], SectorFactor["uncorrectable"], SectorFactor["few"]})
           /\ signs \subseteq {"crc"} => SmartFactor(signs) <= 10 * SectorFactor["crc"]
<1> DEFINE F == {SectorFactor[s] : s \in signs \ {"crc"}}
           G == {10} \cup F
           H == {SectorFactor["pending"], SectorFactor["uncorrectable"], SectorFactor["few"]}
           cable == IF "crc" \in signs THEN SectorFactor["crc"] ELSE 10
           b == 10 + SectorFactor["pending"] + SectorFactor["uncorrectable"] + SectorFactor["few"]
                  + SectorFactor["many"] + SectorFactor["crc"]
<1>1. \A s \in DOMAIN SectorFactor : SectorFactor[s] \in Nat /\ SectorFactor[s] >= 10
  BY RateAssumption
<1>2. DOMAIN SectorFactor = {"pending", "uncorrectable", "few", "many", "crc"}
  BY RateAssumption
<1>3. b \in Nat
  BY <1>1, <1>2
<1>4. \A s \in DOMAIN SectorFactor : SectorFactor[s] \in 0 .. b
  <2> SUFFICES ASSUME NEW s \in DOMAIN SectorFactor PROVE SectorFactor[s] \in 0 .. b
    OBVIOUS
  <2>1. s \in {"pending", "uncorrectable", "few", "many", "crc"}
    BY <1>2
  <2> QED
    BY <1>1, <1>2, <2>1
<1>5. F \in SUBSET (0 .. b) /\ G \in SUBSET (0 .. b) /\ G # {}
  BY <1>1, <1>2, <1>4
<1>6. Max(G) \in G /\ \A x \in G : x <= Max(G)
  <2> HIDE DEF F, G, b
  <2> QED
    BY <1>3, <1>5, LargestOf
<1>7. SmartFactor(signs) = Max(G) * cable
  BY DEF SmartFactor
<1>8. cable \in Nat /\ Max(G) \in Nat
  <2>1. cable \in Nat
    BY <1>1
  <2>2. \A x \in G : x \in Nat
    BY <1>5
  <2> HIDE DEF G, cable
  <2> QED
    BY <1>6, <2>1, <2>2
<1>9. Max(G) * cable \in Nat
  <2> HIDE DEF G, cable
  <2> QED
    BY <1>8
<1>10. ASSUME signs \subseteq {"crc"} PROVE Max(G) = 10
  <2>1. G = {10}
    BY <1>10
  <2> HIDE DEF G
  <2> QED
    BY <1>6, <2>1
<1>11. ASSUME signs = {} PROVE Max(G) * cable = 100
  <2>1. Max(G) = 10 /\ cable = 10
    BY <1>10, <1>11
  <2> HIDE DEF G, cable
  <2> QED
    BY <2>1
<1>12. ASSUME signs = FailingSigns PROVE Max(G) * cable = 10 * Max(H)
  <2>1. F = H
    BY <1>12 DEF FailingSigns
  <2>2. cable = 10
    BY <1>12 DEF FailingSigns
  <2>3. H \in SUBSET (0 .. b) /\ H # {} /\ \A x \in H : x >= 10
    BY <1>1, <1>2, <1>4
  <2>4. Max(H) \in H /\ \A x \in H : x <= Max(H)
    <3> HIDE DEF H, b
    <3> QED
      BY <1>3, <2>3, LargestOf
  <2>5. Max(G) \in {10} \cup H /\ \A x \in {10} \cup H : x <= Max(G)
    <3> HIDE DEF H, F
    <3> QED
      BY <1>6, <2>1
  <2>6. Max(H) \in Nat /\ Max(H) >= 10
    <3>1. \A x \in H : x \in Nat /\ x >= 10
      BY <1>1, <1>2
    <3> HIDE DEF H
    <3> QED
      BY <2>4, <3>1
  <2>7. Max(G) = Max(H)
    <3>1. Max(H) <= Max(G) /\ Max(G) \in Nat
      <4> HIDE DEF H, G
      <4> QED
        BY <1>8, <2>4, <2>5
    <3>2. Max(G) <= Max(H)
      <4> HIDE DEF H, G
      <4> QED
        BY <2>4, <2>5, <2>6
    <3> HIDE DEF H, G
    <3> QED
      BY <2>6, <3>1, <3>2
  <2> HIDE DEF H, G, cable
  <2> QED
    BY <2>2, <2>6, <2>7
<1>13. ASSUME signs \subseteq {"crc"} PROVE Max(G) * cable <= 10 * SectorFactor["crc"]
  <2>1. Max(G) = 10 /\ cable <= SectorFactor["crc"] /\ SectorFactor["crc"] \in Nat
    BY <1>1, <1>2, <1>10, <1>13
  <2> HIDE DEF G, cable
  <2> QED
    BY <1>8, <2>1
<1> HIDE DEF G, H, cable
<1> QED
  BY <1>7, <1>9, <1>11, <1>12, <1>13 DEF H

(* A row of drive_health is a reading there may be.                        *)
LEMMA HealthIs ==
    ASSUME ReportsTyped, NEW d \in DriveIds
    PROVE  /\ health[d].confidence \in {"none", "unknown", "measured"}
           /\ health[d].confidence = "none" => health[d] = NotRead
           /\ health[d].confidence = "unknown" => health[d] = NoReading
           /\ health[d].signs \in SUBSET DOMAIN SectorFactor
           /\ health[d].hours \in Nat \cup {Unknown} /\ health[d].life \in Nat \cup {Unknown}
           /\ health[d].confidence # "measured" => health[d].passed = "unsaid" /\ health[d].signs = {}
<1>1. health[d] \in HealthRows
  BY DEF ReportsTyped
<1>2. CASE health[d] = NotRead
  BY <1>2 DEF NotRead, NoReading
<1>3. CASE health[d] = NoReading
  BY <1>3 DEF NoReading
<1>4. CASE health[d] \in [confidence : {"measured"}, passed : {answer.passed : answer \in Answers},
                          signs : SUBSET DOMAIN SectorFactor, hours : Nat \cup {Unknown},
                          life : Nat \cup {Unknown}]
  <2>1. health[d].confidence = "measured" /\ health[d].signs \in SUBSET DOMAIN SectorFactor
    BY <1>4
  <2>2. health[d].hours \in Nat \cup {Unknown} /\ health[d].life \in Nat \cup {Unknown}
    BY <1>4
  <2> QED
    BY <2>1, <2>2
<1> QED
  BY <1>1, <1>2, <1>3, <1>4 DEF HealthRows

(* What is planted of a purchase is the age the program counts.            *)
LEMMA AgeIs ==
    ASSUME ReportsInv, NEW d \in DriveIds
    PROVE  LET media == Built[d].media IN
           /\ InRanges(AgeYears(d), AgeFactors[media]) \in Nat
           /\ InRanges(AgeYears(d), AgeFactors[media]) =
                IF sheet[d].bought = Unknown THEN 10
                ELSE InBand(Max({0, today - sheet[d].bought}), AgeFactors[media])
<1> DEFINE media == Built[d].media
           ranges == AgeFactors[media]
           years == Max({0, today - sheet[d].bought})
<1>1. AreRanges(ranges)
  BY RateAssumption
<1>2. CASE sheet[d].bought = Unknown
  BY <1>2 DEF AgeYears, InRanges
<1>3. CASE sheet[d].bought # Unknown
  <2>1. sheet[d].bought \in Nat /\ today \in Nat
    BY <1>3, RateAssumption DEF ReportsInv, ReportsTyped, LearnInv
  <2>2. years \in Nat
    <3>1. today - sheet[d].bought \in Int
      BY <2>1
    <3> QED
      BY <3>1, PositivePart
  <2>3. AgeYears(d) = years
    BY <1>3 DEF AgeYears
  <2>4. InRanges(years, ranges) \in Nat /\ InBand(years, ranges) = InRanges(years, ranges)
    <3> HIDE DEF ranges, years
    <3> QED
      BY <1>1, <2>2, BandIs
  <2> QED
    BY <1>3, <2>3, <2>4
<1> QED
  BY <1>2, <1>3

(* A reading's hours and remaining life give a factor: the bench's, where  *)
(* the drive is a disk that tells its hours.                               *)
LEMMA DutyIs ==
    ASSUME NEW read, read.hours \in Nat \cup {Unknown}, read.life \in Nat \cup {Unknown}, NEW media
    PROVE  /\ DutyFactor(media, read) \in Nat
           /\ media = "hdd" /\ read.hours # Unknown =>
                DutyFactor(media, read) = InBand(read.hours, DutyFactors["hdd"])
           /\ media = "hdd" /\ read.hours = Unknown => DutyFactor(media, read) = 10
           /\ media # "hdd" /\ read.life = Unknown => DutyFactor(media, read) = 10
<1>1. AreRanges(DutyFactors["hdd"]) /\ AreRanges(DutyFactors["ssd"])
  BY RateAssumption
<1>2. \A ranges : InRanges(Unknown, ranges) = 10
  BY DEF InRanges
<1>3. CASE media = "hdd"
  <2>1. DutyFactor(media, read) = InRanges(read.hours, DutyFactors["hdd"])
    BY <1>3 DEF DutyFactor
  <2>2. read.hours # Unknown =>
          /\ InRanges(read.hours, DutyFactors["hdd"]) \in Nat
          /\ InBand(read.hours, DutyFactors["hdd"]) = InRanges(read.hours, DutyFactors["hdd"])
    BY <1>1, BandIs
  <2> QED
    BY <1>2, <1>3, <2>1, <2>2
<1>4. CASE media = "ssd"
  <2>1. DutyFactor(media, read) = InRanges(read.life, DutyFactors["ssd"])
    BY <1>4 DEF DutyFactor
  <2>2. read.life # Unknown => InRanges(read.life, DutyFactors["ssd"]) \in Nat
    BY <1>1, BandIs
  <2> QED
    BY <1>2, <1>4, <2>1, <2>2
<1>5. CASE media # "hdd" /\ media # "ssd"
  BY <1>5 DEF DutyFactor
<1> QED
  BY <1>3, <1>4, <1>5

(* What a drive's reading adds.                                            *)
ReadingOf(d) == IF health[d].confidence = "measured" THEN health[d] ELSE NoReading
RawRate(d) ==
    (BaseRate(Built[d]).rate * InRanges(AgeYears(d), AgeFactors[Built[d].media])
       * DutyFactor(Built[d].media, ReadingOf(d)) * SmartFactor(ReadingOf(d).signs)
       * BusFactor[Built[d].bus]) \div 100000

LEMMA ReadingTold ==
    ASSUME ReportsInv, NEW d \in DriveIds
    PROVE  /\ ReadingOf(d).signs \in SUBSET DOMAIN SectorFactor
           /\ ReadingOf(d).hours \in Nat \cup {Unknown} /\ ReadingOf(d).life \in Nat \cup {Unknown}
<1>1. CASE health[d].confidence = "measured"
  BY <1>1, HealthIs DEF ReadingOf, ReportsInv
<1>2. CASE health[d].confidence # "measured"
  BY <1>2 DEF ReadingOf, NoReading
<1> QED
  BY <1>1, <1>2

(* A drive has a rate, and it is the one the bench expects of it.          *)
LEMMA RateIs ==
    ASSUME ReportsInv, NEW d \in DriveIds
    PROVE  /\ RawRate(d) \in Nat
           /\ DriveRate(d) = IF RawRate(d) < MaxRate THEN RawRate(d) ELSE MaxRate
           /\ DriveRate(d) \in Nat
<1>1. BaseRate(Built[d]).rate \in Nat
  BY BaseIs DEF ReportsInv, ReportsTyped
<1>2. InRanges(AgeYears(d), AgeFactors[Built[d].media]) \in Nat
  BY AgeIs
<1>3. SmartFactor(ReadingOf(d).signs) \in Nat /\ DutyFactor(Built[d].media, ReadingOf(d)) \in Nat
  BY ReadingTold, SignsRate, DutyIs
<1>4. BusFactor[Built[d].bus] \in Nat /\ MaxRate \in Nat
  BY RateAssumption
<1>5. \A a, b, c, e, f \in Nat : (a * b * c * e * f) \div 100000 \in Nat
  <2> SUFFICES ASSUME NEW a \in Nat, NEW b \in Nat, NEW c \in Nat, NEW e \in Nat, NEW f \in Nat
               PROVE  (a * b * c * e * f) \div 100000 \in Nat
    OBVIOUS
  <2>1. a * b \in Nat
    OBVIOUS
  <2>2. (a * b) * c \in Nat
    BY <2>1
  <2>3. ((a * b) * c) * e \in Nat
    BY <2>2
  <2>4. (((a * b) * c) * e) * f \in Nat
    BY <2>3
  <2>5. \A x \in Nat : x \div 100000 \in Nat
    OBVIOUS
  <2> QED
    BY <2>4, <2>5
<1>6. RawRate(d) \in Nat
  BY <1>1, <1>2, <1>3, <1>4, <1>5 DEF RawRate
<1>7. DriveRate(d) = Min({MaxRate, RawRate(d)})
  BY DEF DriveRate, RawRate, ReadingOf
<1>8. \A x, y \in Nat : Min({x, y}) = IF y < x THEN y ELSE x
  BY GreaterOfTwo
<1> QED
  BY <1>4, <1>6, <1>7, <1>8

LEMMA RatesAre == ASSUME ReportsInv PROVE RatesExpected
<1> SUFFICES ASSUME NEW d \in DriveIds, BenchKnows(d)
             PROVE  /\ DriveRate(d) = ExpectedRate(d).rate /\ Confidence(d) = ExpectedRate(d).confidence
                    /\ Planted(d) = "hidden" => health[d] = NoReading
  BY DEF RatesExpected
<1> DEFINE age == IF sheet[d].bought = Unknown THEN 10
                  ELSE InBand(Max({0, today - sheet[d].bought}), AgeFactors[Built[d].media])
           duty == IF Planted(d) \in {"failing", "healthy"} /\ Built[d].media = "hdd"
                   THEN InBand(health[d].hours, DutyFactors["hdd"]) ELSE 10
           read == IF Planted(d) # "failing" THEN 100
                   ELSE 10 * Max({SectorFactor["pending"], SectorFactor["uncorrectable"], SectorFactor["few"]})
           rate == (ExpectedBase(Built[d]) * age * duty * read * BusFactor["usb"]) \div 100000
<1>1. Built[d].bus = "usb" /\ Planted(d) # "else" /\ ~imported
  BY DEF BenchKnows
<1>2. /\ health[d].confidence \in {"none", "unknown", "measured"}
      /\ health[d].confidence = "unknown" => health[d] = NoReading
      /\ health[d].signs \in SUBSET DOMAIN SectorFactor
  BY HealthIs DEF ReportsInv
<1>3. /\ Planted(d) = "hidden" <=> health[d].confidence = "unknown"
      /\ Planted(d) = "failing" => health[d].confidence = "measured" /\ health[d].signs = FailingSigns
      /\ Planted(d) = "healthy" => health[d].confidence = "measured" /\ health[d].signs = {}
      /\ Planted(d) \in {"failing", "healthy"} => health[d].hours # Unknown /\ health[d].life = Unknown
      /\ health[d].confidence = "measured" => Planted(d) \in {"failing", "healthy"}
      /\ Planted(d) \in {"nothing", "hidden"} => health[d].confidence # "measured"
      /\ Planted(d) \in {"nothing", "hidden", "failing", "healthy"}
  BY <1>1, <1>2 DEF Planted
<1>4. SmartFactor(ReadingOf(d).signs) = read
  <2>1. CASE Planted(d) = "failing"
    <3>1. ReadingOf(d).signs = FailingSigns
      BY <1>3, <2>1 DEF ReadingOf
    <3> QED
      BY <2>1, <3>1, SignsRate, ReadingTold
  <2>2. CASE Planted(d) # "failing"
    <3>1. ReadingOf(d).signs = {}
      BY <1>3, <2>2 DEF ReadingOf, NoReading
    <3> QED
      BY <2>2, <3>1, SignsRate, ReadingTold
  <2> QED
    BY <2>1, <2>2
<1>5. DutyFactor(Built[d].media, ReadingOf(d)) = duty
  <2>1. CASE Planted(d) \in {"failing", "healthy"}
    <3>1. ReadingOf(d) = health[d]
      BY <1>3, <2>1 DEF ReadingOf
    <3> QED
      BY <1>3, <2>1, <3>1, DutyIs, ReadingTold
  <2>2. CASE Planted(d) \notin {"failing", "healthy"}
    <3>1. ReadingOf(d) = NoReading
      BY <1>3, <2>2 DEF ReadingOf
    <3>2. NoReading.hours = Unknown /\ NoReading.life = Unknown
      BY DEF NoReading
    <3> QED
      BY <2>2, <3>1, <3>2, DutyIs
  <2> QED
    BY <2>1, <2>2
<1>6. BaseRate(Built[d]).rate = ExpectedBase(Built[d])
  BY <1>1, BaseIs DEF ReportsInv, ReportsTyped
<1>7. InRanges(AgeYears(d), AgeFactors[Built[d].media]) = age
  BY AgeIs
<1>8. RawRate(d) = rate
  BY <1>1, <1>4, <1>5, <1>6, <1>7 DEF RawRate
<1>9. /\ ExpectedRate(d).rate = IF rate < MaxRate THEN rate ELSE MaxRate
      /\ ExpectedRate(d).confidence = IF Planted(d) \in {"failing", "healthy"} THEN "measured" ELSE "estimated"
  BY DEF ExpectedRate
<1>10. Confidence(d) = ExpectedRate(d).confidence
  BY <1>2, <1>3, <1>9 DEF Confidence
<1>11. DriveRate(d) = IF RawRate(d) < MaxRate THEN RawRate(d) ELSE MaxRate
  BY RateIs
<1> HIDE DEF age, duty, read, rate
<1> QED
  BY <1>2, <1>3, <1>8, <1>9, <1>10, <1>11

(* A verdict is of a reading, and no drive said to be well has a sign      *)
(* above the mildest.                                                      *)
LEMMA VerdictsHold ==
    ASSUME ReportsInv, NEW d \in DriveIds, Verdict(health[d]) \in {"OK", "FAILING"}
    PROVE  /\ health[d].confidence = "measured"
           /\ health[d].passed # "no" => SmartFactor(health[d].signs) <= 10 * SectorFactor["crc"]
<1>1. /\ health[d].confidence \in {"none", "unknown", "measured"}
      /\ health[d].signs \in SUBSET DOMAIN SectorFactor
      /\ health[d].confidence # "measured" => health[d].passed = "unsaid" /\ health[d].signs = {}
  BY HealthIs DEF ReportsInv
<1>2. health[d].confidence = "measured"
  <2> SUFFICES ASSUME health[d].confidence # "measured" PROVE FALSE  OBVIOUS
  <2>1. Verdict(health[d]) # "OK" /\ Verdict(health[d]) # "FAILING"
    BY <1>1 DEF Verdict
  <2> QED
    BY <2>1
<1>3. ASSUME health[d].passed # "no" PROVE SmartFactor(health[d].signs) <= 10 * SectorFactor["crc"]
  <2>1. health[d].signs \cap {"pending", "uncorrectable", "few", "many"} = {}
    <3> SUFFICES ASSUME health[d].signs \cap {"pending", "uncorrectable", "few", "many"} # {} PROVE FALSE
      OBVIOUS
    <3>1. Verdict(health[d]) = "warning"
      BY <1>2, <1>3 DEF Verdict
    <3> QED
      BY <3>1
  <2>2. health[d].signs \subseteq {"crc"}
    BY <1>1, <2>1, RateAssumption
  <2> QED
    BY <1>1, <2>2, SignsRate
<1> QED
  BY <1>2, <1>3

(* The rows of a set of files.  The program's items are the rows of the    *)
(* bench's, each of which is of one size.                                  *)
Pic(a) == {RowOf(i) : i \in a}
SizeOfItem(a) == SizeOf[CHOOSE i \in a : TRUE]

(* What a row says of its slot, and which slot it is.                      *)
LEMMA RowTold ==
    ASSUME LearnInv, NEW i \in present
    PROVE  /\ RowOf(i).size = SizeOf[i] /\ SizeOf[i] \in Nat
           /\ RowOf(i).content = IF i \in hashed THEN BytesOf[i] ELSE NoContent
           /\ \A j : RowOf(i) = RowOf(j) => i = j
<1>1. /\ RowOf(i).size = SizeOf[i] /\ RowOf(i).id = i
      /\ RowOf(i).content = IF i \in hashed THEN BytesOf[i] ELSE NoContent
  BY DEF RowOf
<1>2. \A j : RowOf(j).id = j
  BY DEF RowOf
<1>3. SizeOf[i] \in Nat
  BY AssessmentAssumption DEF LearnInv
<1> QED
  BY <1>1, <1>2, <1>3

(* A file has a size of its own when no other file that is there has it.   *)
LEMMA UniqueIs ==
    ASSUME LearnInv, NEW i \in present
    PROVE  UniqueSize(Rows, RowOf(i)) <=> i \notin SharingSize(present)
<1>1. UniqueSize(Rows, RowOf(i)) <=> \A j \in present : SizeOf[j] = SizeOf[i] => RowOf(j) = RowOf(i)
  <2>1. \A j \in present : RowOf(j).size = SizeOf[j]
    BY RowTold
  <2> QED
    BY <2>1, RowsAre DEF RowsTold, UniqueSize
<1>2. \A j \in present : RowOf(j) = RowOf(i) <=> i = j
  BY RowTold
<1> QED
  BY <1>1, <1>2 DEF SharingSize

(* The groups, singles and items of the program are pictures of those the  *)
(* bench planted.                                                          *)
LEMMA GroupsPictured == ASSUME LearnInv PROVE ContentGroups(Rows) = {Pic(a) : a \in Groups}
<1>1. hashed \subseteq present
  BY DEF LearnInv
<1>2. \A i \in present : /\ RowOf(i).content # NoContent <=> i \in hashed
                         /\ i \in hashed => RowOf(i).content = BytesOf[i] /\ BytesOf[i] # NoContent
  BY RowSays, AssessmentAssumption DEF LearnInv
<1>3. {r.content : r \in Live(Rows)} = {BytesOf[i] : i \in hashed}
  BY <1>1, <1>2, RowsAre DEF RowsTold, Live
<1>4. ASSUME NEW c \in {BytesOf[i] : i \in hashed}
      PROVE  {r \in Rows : r.content = c} = Pic({i \in hashed : BytesOf[i] = c})
  <2>1. c # NoContent
    BY <1>1, <1>2
  <2>2. \A i \in present : RowOf(i).content = c <=> i \in hashed /\ BytesOf[i] = c
    BY <1>2, <2>1
  <2> QED
    BY <1>1, <2>2, RowsAre DEF RowsTold, Pic
<1> DEFINE C == {BytesOf[i] : i \in hashed}
           g(c) == {i \in hashed : BytesOf[i] = c}
           q(c) == {r \in Rows : r.content = c}
<1>5. ContentGroups(Rows) = {q(c) : c \in C}
  BY <1>3 DEF ContentGroups
<1>6. Groups = {g(c) : c \in C}
  BY DEF Groups
<1>7. \A c \in C : q(c) = Pic(g(c))
  BY <1>4
<1> HIDE DEF C, g, q
<1> QED
  BY <1>5, <1>6, <1>7

LEMMA SinglesPictured == ASSUME LearnInv PROVE SingleCopyFiles(Rows) = {RowOf(i) : i \in Singles}
<1>1. ASSUME NEW i \in present
      PROVE  RowOf(i) \in SingleCopyFiles(Rows) <=> i \in Singles
  <2>1. RowOf(i) \in Rows
    BY RowSays
  <2>2. RowOf(i).content = NoContent <=> i \notin hashed
    BY RowSays
  <2>3. RowOf(i).size = SizeOf[i]
    BY RowTold
  <2>4. UniqueSize(Rows, RowOf(i)) <=> i \notin SharingSize(present)
    BY UniqueIs
  <2> QED
    BY <2>1, <2>2, <2>3, <2>4 DEF SingleCopyFiles, Singles
<1>2. Singles \subseteq present
  BY DEF Singles
<1>3. \A r \in SingleCopyFiles(Rows) : \E i \in present : r = RowOf(i)
  BY RowsAre DEF RowsTold, SingleCopyFiles
<1> QED
  BY <1>1, <1>2, <1>3

LEMMA ItemsPictured == ASSUME LearnInv PROVE Items(Rows) = {Pic(a) : a \in BenchItems}
<1>1. {{r} : r \in SingleCopyFiles(Rows)} = {Pic(a) : a \in {{i} : i \in Singles}}
  <2>1. \A i : Pic({i}) = {RowOf(i)}
    BY DEF Pic
  <2> DEFINE one(r) == {r}
             alone(i) == {i}
  <2>2. \A i : Pic(alone(i)) = one(RowOf(i))
    BY <2>1
  <2> HIDE DEF one, alone
  <2>3. {one(r) : r \in SingleCopyFiles(Rows)} = {Pic(a) : a \in {alone(i) : i \in Singles}}
    BY <2>2, SinglesPictured
  <2> QED
    BY <2>3 DEF one, alone
<1> QED
  BY <1>1, GroupsPictured DEF Items, BenchItems

(* The bench's items are sets of files, each file in one.                  *)
LEMMA BenchItemsAre ==
    /\ Groups = {Alike(i) : i \in hashed}
    /\ {{i} : i \in Singles} = {Alike(i) : i \in Singles}
    /\ BenchItems = {Alike(i) : i \in hashed \cup Singles}
<1>1. Groups = {Alike(i) : i \in hashed}
  <2>1. \A i \in hashed : Alike(i) = {j \in hashed : BytesOf[j] = BytesOf[i]}
    BY DEF Alike
  <2> QED
    BY <2>1 DEF Groups
<1>2. \A i \in Singles : Alike(i) = {i}
  BY DEF Singles, Alike
<1>3. {{i} : i \in Singles} = {Alike(i) : i \in Singles}
  BY <1>2
<1> QED
  BY <1>1, <1>3 DEF BenchItems

LEMMA AlikeIs ==
    ASSUME LearnInv, NEW i \in present
    PROVE  /\ Alike(i) \subseteq present /\ i \in Alike(i)
           /\ \A j \in Alike(i) : SizeOf[j] = SizeOf[i] /\ Alike(j) = Alike(i)
           /\ SizeOfItem(Alike(i)) = SizeOf[i]
           /\ ItemOf(i) = Pic(Alike(i))
<1>1. Alike(i) \subseteq present /\ i \in Alike(i)
  BY DEF Alike, LearnInv
<1>2. \A j \in Alike(i) : SizeOf[j] = SizeOf[i]
  BY <1>1, AssessmentAssumption DEF Alike, LearnInv
<1>3. \A j \in Alike(i) : Alike(j) = Alike(i)
  BY DEF Alike
<1>4. (CHOOSE j \in Alike(i) : TRUE) \in Alike(i)
  BY <1>1
<1> QED
  BY <1>1, <1>2, <1>3, <1>4 DEF SizeOfItem, ItemOf, Pic

(* A picture has the devices of its files, and tells them.                 *)
LEMMA PicIs ==
    ASSUME LearnInv, NEW a \in SUBSET present
    PROVE  /\ Pic(a) \in SUBSET Rows
           /\ DrivesOf(Pic(a)) = DevicesOf(a)
           /\ \A b \in SUBSET present : Pic(a) = Pic(b) => a = b
<1>1. Pic(a) \in SUBSET Rows
  BY RowSays DEF Pic
<1>2. \A i \in present : RowOf(i).vol = VolumeOf[FolderOfSlot[i]]
  BY RowSays
<1>3. DrivesOf(Pic(a)) = DevicesOf(a)
  BY <1>2 DEF DrivesOf, DevicesOf, Pic
<1>4. \A i \in present : \A j : RowOf(i) = RowOf(j) => i = j
  BY RowTold
<1>5. \A b \in SUBSET present : Pic(a) = Pic(b) => a = b
  BY <1>4 DEF Pic
<1> QED
  BY <1>1, <1>3, <1>5

(* The size of an item is that of any of its files.                        *)
LEMMA ItemSize ==
    ASSUME LearnInv, NEW a \in BenchItems
    PROVE  /\ a \in SUBSET present /\ a # {}
           /\ Representative(Pic(a)).size = SizeOfItem(a)
           /\ SizeOfItem(a) \in Nat
           /\ \A i \in a : SizeOf[i] = SizeOfItem(a)
<1>1. PICK i \in present : a = Alike(i)
  BY BenchItemsAre DEF LearnInv, Singles
<1>2. a \in SUBSET present /\ i \in a /\ (\A j \in a : SizeOf[j] = SizeOf[i]) /\ SizeOfItem(a) = SizeOf[i]
  BY <1>1, AlikeIs
<1>3. Representative(Pic(a)) \in Pic(a)
  BY <1>2 DEF Representative, Pic
<1>4. PICK j \in a : Representative(Pic(a)) = RowOf(j)
  BY <1>3 DEF Pic
<1>5. RowOf(j).size = SizeOf[j] /\ SizeOf[j] \in Nat
  BY <1>2, <1>4, RowTold
<1> QED
  BY <1>2, <1>4, <1>5

(* There are finitely many items.                                          *)
LEMMA ItemsFinite ==
    ASSUME LearnInv
    PROVE  /\ IsFiniteSet(present) /\ IsFiniteSet(Rows) /\ IsFiniteSet(BenchItems) /\ IsFiniteSet(Items(Rows))
           /\ IsFiniteSet(DriveIds) /\ \A S \in SUBSET DriveIds : IsFiniteSet(S)
<1>1. IsFiniteSet(present) /\ IsFiniteSet(hashed \cup Singles)
  <2>1. hashed \cup Singles \subseteq Slots /\ present \subseteq Slots
    BY DEF LearnInv, Singles
  <2> QED
    BY <2>1, AssessmentAssumption, FS_Subset
<1>2. \A I, f : IsFiniteSet(I) /\ DOMAIN f = I => IsFiniteSet({f[i] : i \in I})
  BY ImageFinite
<1>3. IsFiniteSet(Rows)
  <2> DEFINE f == [i \in present |-> RowOf(i)]
  <2>1. IsFiniteSet({f[i] : i \in present})
    <3>1. DOMAIN f = present
      OBVIOUS
    <3> HIDE DEF f
    <3> QED
      BY <1>1, <1>2, <3>1
  <2> QED
    BY <2>1, RowsAre DEF RowsTold
<1>4. IsFiniteSet(BenchItems)
  <2> DEFINE I == hashed \cup Singles
             f == [i \in I |-> Alike(i)]
  <2>1. IsFiniteSet({f[i] : i \in I})
    <3>1. DOMAIN f = I
      OBVIOUS
    <3> HIDE DEF f
    <3> QED
      BY <1>1, <1>2, <3>1
  <2>2. BenchItems = {f[i] : i \in I}
    BY BenchItemsAre
  <2> QED
    BY <2>1, <2>2
<1>5. IsFiniteSet(Items(Rows))
  <2> DEFINE f == [a \in BenchItems |-> Pic(a)]
  <2>1. IsFiniteSet({f[a] : a \in BenchItems})
    <3>1. DOMAIN f = BenchItems
      OBVIOUS
    <3> HIDE DEF f
    <3> QED
      BY <1>2, <1>4, <3>1
  <2> QED
    BY <2>1, ItemsPictured
<1> QED
  BY <1>1, <1>3, <1>4, <1>5, AssessmentAssumption, FS_Subset

-----------------------------------------------------------------------------
(* Powers are products of one number, and add up as they should. *)
LEMMA ProductIs == ASSUME NEW f PROVE ProductOf(f) = Product(f, DOMAIN f)
BY DEF ProductOf, FoldFunction, FoldFunctionOnSet, MapThenFoldSet, Product, Products, First

(* The rule of a power, and the power of a sum.                            *)
LEMMA PowerIs ==
    ASSUME NEW b \in Nat, NEW n \in Nat
    PROVE  /\ Power(b, 0) = 1
           /\ Power(b, n + 1) = b * Power(b, n)
           /\ Power(b, n) \in Nat
           /\ b # 0 => Power(b, n) # 0
<1> DEFINE f(m) == [i \in 1 .. m |-> b]
<1>1. \A m \in Nat : Power(b, m) = Product(f(m), 1 .. m) /\ IsFiniteSet(1 .. m)
  BY ProductIs, FS_Interval DEF Power
<1>2. Power(b, 0) = 1
  <2>1. 1 .. 0 = {}
    OBVIOUS
  <2>2. Power(b, 0) = Product(f(0), {})
    BY <1>1, <2>1
  <2> HIDE DEF f
  <2> QED
    BY <2>2, ProductUnfold, FS_EmptySet
<1>3. Power(b, n + 1) = b * Power(b, n)
  <2>1. /\ n + 1 \in 1 .. n + 1 /\ (1 .. n + 1) \ {n + 1} = 1 .. n
        /\ \A i \in 1 .. n + 1 : f(n + 1)[i] = b /\ f(n + 1)[i] \in Nat
        /\ \A i \in 1 .. n : f(n + 1)[i] = f(n)[i]
    OBVIOUS
  <2>2. Power(b, n + 1) = Product(f(n + 1), 1 .. n + 1) /\ Power(b, n) = Product(f(n), 1 .. n)
        /\ IsFiniteSet(1 .. n + 1) /\ IsFiniteSet(1 .. n)
    BY <1>1
  <2> HIDE DEF f
  <2>3. Product(f(n + 1), 1 .. n + 1) = f(n + 1)[n + 1] * Product(f(n + 1), (1 .. n + 1) \ {n + 1})
    BY <2>1, <2>2, ProductWithout
  <2>4. Product(f(n + 1), 1 .. n) = Product(f(n), 1 .. n)
    BY <2>1, <2>2, ProductSame
  <2> QED
    BY <2>1, <2>2, <2>3, <2>4
<1>4. \A i \in 1 .. n : f(n)[i] = b
  OBVIOUS
<1>5. Power(b, n) \in Nat
  <2> HIDE DEF f
  <2> QED
    BY <1>1, <1>4, ProductNat
<1>6. b # 0 => Power(b, n) # 0
  <2> HIDE DEF f
  <2>1. ASSUME b # 0 PROVE Product(f(n), 1 .. n) \in Nat \ {0}
    BY <1>1, <1>4, <2>1, ProductPositive
  <2> QED
    BY <1>1, <2>1
<1> QED
  BY <1>2, <1>3, <1>5, <1>6

LEMMA PowerAdds ==
    ASSUME NEW b \in Nat, NEW m \in Nat, NEW n \in Nat
    PROVE  Power(b, m + n) = Power(b, m) * Power(b, n)
<1> DEFINE Bad == {k \in Nat : Power(b, m + k) # Power(b, m) * Power(b, k)}
<1> SUFFICES ASSUME Bad # {} PROVE FALSE  OBVIOUS
<1>1. PICK k \in Bad : \A l \in Bad : k <= l
  <2>1. Bad \in SUBSET Nat
    OBVIOUS
  <2> HIDE DEF Bad
  <2> QED
    BY <2>1, SmallestNat
<1>2. k \in Nat /\ Power(b, m + k) # Power(b, m) * Power(b, k)
  BY <1>1
<1>3. k # 0
  <2>1. Power(b, 0) = 1 /\ Power(b, m) \in Nat
    BY PowerIs
  <2> QED
    BY <1>2, <2>1
<1>4. PICK l \in Nat : k = l + 1
  BY <1>2, <1>3
<1>5. Power(b, m + l) = Power(b, m) * Power(b, l)
  BY <1>1, <1>4
<1>6. m + k = (m + l) + 1
  BY <1>4
<1>7. Power(b, m + k) = b * Power(b, m + l) /\ Power(b, k) = b * Power(b, l)
  <2>1. m + l \in Nat
    OBVIOUS
  <2>2. \A j \in Nat : Power(b, j + 1) = b * Power(b, j)
    BY PowerIs
  <2> QED
    BY ONLY <1>4, <1>6, <2>1, <2>2
<1>8. Power(b, m) \in Nat /\ Power(b, l) \in Nat
  BY PowerIs
<1>9. \A x, y, z \in Nat : x * (y * z) = y * (x * z)
  OBVIOUS
<1> QED
  BY <1>2, <1>5, <1>7, <1>8, <1>9

(* A product of powers is the power of the sum. *)
LEMMA ProductOfPowers ==
    ASSUME NEW b \in Nat, NEW K, IsFiniteSet(K), NEW n, NEW p,
           \A k \in K : n[k] \in Nat /\ p[k] = Power(b, n[k])
    PROVE  Product(p, K) = Power(b, Total(n, K))
<1> DEFINE Bad == {t \in SUBSET K : Product(p, t) # Power(b, Total(n, t))}
<1> SUFFICES ASSUME Bad # {} PROVE FALSE  OBVIOUS
<1>1. PICK T \in Bad : \A U \in SUBSET T : U # T => U \notin Bad
  <2>1. Bad \in SUBSET SUBSET K
    OBVIOUS
  <2> HIDE DEF Bad
  <2> QED
    BY <2>1, SmallestSet
<1>2. T \in SUBSET K /\ Product(p, T) # Power(b, Total(n, T)) /\ IsFiniteSet(T)
  BY <1>1, FS_Subset
<1>3. T # {}
  BY <1>2, TotalUnfold, ProductUnfold, PowerIs
<1> DEFINE c == First(T)
           rest == T \ {c}
<1>4. /\ c \in T /\ n[c] \in Nat /\ p[c] = Power(b, n[c])
      /\ Total(n, T) = n[c] + Total(n, rest) /\ Product(p, T) = p[c] * Product(p, rest)
  BY <1>2, <1>3, TotalUnfold, ProductUnfold, FirstIn
<1> HIDE DEF c
<1>5. Product(p, rest) = Power(b, Total(n, rest))
  BY <1>1, <1>2, <1>4
<1>6. IsFiniteSet(rest) /\ \A x \in rest : n[x] \in Nat
  BY <1>2, FS_Subset
<1>7. Total(n, rest) \in Nat
  BY <1>6, TotalNat
<1>8. Power(b, n[c] + Total(n, rest)) = Power(b, n[c]) * Power(b, Total(n, rest))
  BY <1>4, <1>7, PowerAdds
<1> QED
  BY <1>2, <1>4, <1>5, <1>8

(* The powers of the further members of each class come to one, of as many *)
(* as there are more members than classes.                                 *)
LEMMA PowerOfCounts ==
    ASSUME NEW b \in Nat, NEW S, IsFiniteSet(S), NEW key
    PROVE  /\ Cardinality(S) - Cardinality({key[d] : d \in S}) \in Nat
           /\ PowerOf(b, CountBy(S, key)) = Power(b, Cardinality(S) - Cardinality({key[d] : d \in S}))
<1> DEFINE K == {key[d] : d \in S}
           part(k) == {d \in S : key[d] = k}
           sizes == [k \in K |-> Cardinality(part(k))]
           less == [k \in K |-> sizes[k] - 1]
           one == [k \in K |-> 1]
           ones == [d \in S |-> 1]
<1>1. IsFiniteSet(K)
  <2> DEFINE f == [d \in S |-> key[d]]
  <2>1. DOMAIN f = S /\ K = {f[d] : d \in S}
    OBVIOUS
  <2> HIDE DEF f, K
  <2> QED
    BY <2>1, ImageFinite
<1>2. ASSUME NEW k \in K
      PROVE  Cardinality(part(k)) \in Nat \ {0} /\ Total(ones, part(k)) = Cardinality(part(k))
  <2>1. part(k) # {} /\ part(k) \in SUBSET S /\ \A d \in part(k) : ones[d] = 1
    OBVIOUS
  <2> HIDE DEF part, ones
  <2>2. IsFiniteSet(part(k))
    BY <2>1, FS_Subset
  <2> QED
    BY <2>1, <2>2, FS_CardinalityType, FS_EmptySet, TotalOnes
<1>3. CountBy(S, key) = sizes
  BY DEF CountBy
<1>4. PowerOf(b, CountBy(S, key)) = Product([k \in K |-> Power(b, less[k])], K)
  <2>1. DOMAIN sizes = K
    OBVIOUS
  <2>2. \A k \in K : sizes[k] - 1 = less[k]
    OBVIOUS
  <2> HIDE DEF sizes, less, K
  <2>3. [k \in DOMAIN sizes |-> Power(b, sizes[k] - 1)] = [k \in K |-> Power(b, less[k])]
    BY <2>1, <2>2
  <2> DEFINE p == [k \in K |-> Power(b, less[k])]
  <2>4. DOMAIN p = K
    OBVIOUS
  <2>5. PowerOf(b, sizes) = ProductOf(p)
    BY <2>3 DEF PowerOf
  <2> HIDE DEF p
  <2> QED
    BY <1>3, <2>4, <2>5, ProductIs DEF p
<1>5. \A k \in K : less[k] \in Nat /\ one[k] \in Int /\ sizes[k] = less[k] + one[k] /\ one[k] = 1
  <2> SUFFICES ASSUME NEW k \in K
               PROVE  less[k] \in Nat /\ one[k] \in Int /\ sizes[k] = less[k] + one[k] /\ one[k] = 1
    OBVIOUS
  <2>1. sizes[k] = Cardinality(part(k)) /\ less[k] = sizes[k] - 1 /\ one[k] = 1
    OBVIOUS
  <2>2. Cardinality(part(k)) \in Nat \ {0} /\ Total(ones, part(k)) = Cardinality(part(k))
    BY <1>2
  <2> HIDE DEF sizes, less, one, part, ones, K
  <2> QED
    BY <2>1, <2>2
<1>6. \A d \in S : ones[d] = 1 /\ key[d] \in K
  OBVIOUS
<1> HIDE DEF K, sizes, less, one, ones
<1>7. Total(sizes, K) = Total(less, K) + Total(one, K)
  <2>1. \A k \in K : less[k] \in Int /\ one[k] \in Int /\ sizes[k] = less[k] + one[k]
    BY ONLY <1>5
  <2> QED
    BY ONLY <1>1, <2>1, TotalAdded
<1>8. Total(one, K) = Cardinality(K)
  BY <1>1, <1>5, TotalOnes
<1>9. Total(sizes, K) = Total(ones, S)
  <2>1. \A d \in S : ones[d] \in Int
    BY <1>6
  <2> DEFINE parts == [k \in K |-> part(k)]
  <2>2. \A k \in K : parts[k] \in SUBSET S /\ \A d \in S : d \in parts[k] <=> key[d] = k
    OBVIOUS
  <2>3. \A k \in K : sizes[k] = Total(ones, parts[k])
    BY <1>2 DEF sizes
  <2>4. \A d \in S : key[d] \in K
    BY <1>6
  <2> HIDE DEF parts
  <2> QED
    BY ONLY <1>1, IsFiniteSet(S), <2>1, <2>2, <2>3, <2>4, TotalGrouped
<1>10. Total(ones, S) = Cardinality(S)
  BY <1>6, TotalOnes
<1>11. Total(less, K) \in Nat
  BY <1>1, <1>5, TotalNat
<1>12. Cardinality(K) \in Nat /\ Cardinality(S) \in Nat
  BY <1>1, FS_CardinalityType
<1>13. Total(less, K) = Cardinality(S) - Cardinality(K)
  BY <1>7, <1>8, <1>9, <1>10, <1>11, <1>12
<1>14. Product([k \in K |-> Power(b, less[k])], K) = Power(b, Total(less, K))
  <2> DEFINE p == [k \in K |-> Power(b, less[k])]
  <2>1. \A k \in K : less[k] \in Nat /\ p[k] = Power(b, less[k])
    BY <1>5
  <2> HIDE DEF p
  <2>2. Product(p, K) = Power(b, Total(less, K))
    BY <1>1, <2>1, ProductOfPowers
  <2> QED
    BY <2>2 DEF p
<1>15. PowerOf(b, CountBy(S, key)) = Power(b, Cardinality(S) - Cardinality(K))
  BY <1>4, <1>13, <1>14
<1> QED
  BY <1>11, <1>13, <1>15 DEF K

LEMMA SameCount ==
    ASSUME NEW S, IsFiniteSet(S), NEW f, NEW g, \A d, e \in S : f[d] = f[e] <=> g[d] = g[e]
    PROVE  Cardinality({f[d] : d \in S}) = Cardinality({g[d] : d \in S})
<1> DEFINE F == {f[d] : d \in S}
           G == {g[d] : d \in S}
           of(x) == CHOOSE d \in S : f[d] = x
           h == [x \in F |-> g[of(x)]]
           ones == [x \in F |-> 1]
           oneG == [x \in G |-> 1]
<1>1. \A x \in F : of(x) \in S /\ f[of(x)] = x
  OBVIOUS
<1>2. IsFiniteSet(F)
  <2> DEFINE fs == [d \in S |-> f[d]]
  <2>1. DOMAIN fs = S /\ F = {fs[d] : d \in S}
    OBVIOUS
  <2> HIDE DEF fs, F
  <2> QED
    BY <2>1, ImageFinite
<1> HIDE DEF of
<1>3. \A x, y \in F : h[x] = h[y] => x = y
  BY <1>1
<1>4. G = {h[x] : x \in F}
  <2>1. \A d \in S : f[d] \in F /\ h[f[d]] = g[d]
    <3> SUFFICES ASSUME NEW d \in S PROVE f[d] \in F /\ h[f[d]] = g[d]
      OBVIOUS
    <3>1. f[d] \in F
      OBVIOUS
    <3>2. of(f[d]) \in S /\ f[of(f[d])] = f[d]
      BY <1>1, <3>1
    <3> QED
      BY <3>1, <3>2
  <2>2. \A x \in F : h[x] = g[of(x)] /\ of(x) \in S
    BY <1>1
  <2> HIDE DEF h, F
  <2> QED
    BY <2>1, <2>2
<1>5. IsFiniteSet(G)
  <2>1. DOMAIN h = F
    OBVIOUS
  <2> HIDE DEF h, F, G
  <2> QED
    BY <1>2, <1>4, <2>1, ImageFinite
<1>6. \A x \in F : ones[x] \in Int /\ ones[x] = 1 /\ ones[x] = oneG[h[x]]
  <2>1. \A x \in F : ones[x] = 1
    OBVIOUS
  <2>2. \A y \in G : oneG[y] = 1
    OBVIOUS
  <2>3. \A x \in F : h[x] \in G
    BY <1>4
  <2> HIDE DEF ones, oneG, h, F, G
  <2> QED
    BY <2>1, <2>2, <2>3
<1>7. \A x \in G : oneG[x] = 1
  OBVIOUS
<1> HIDE DEF h, F, G, ones, oneG
<1>8. Total(ones, F) = Total(oneG, G)
  BY ONLY <1>2, <1>3, <1>4, <1>6, TotalMapped
<1>9. Total(ones, F) = Cardinality(F) /\ Total(oneG, G) = Cardinality(G)
  BY <1>2, <1>5, <1>6, <1>7, TotalOnes
<1> QED
  BY <1>8, <1>9 DEF F, G

(* How the program and the bench count for further drives of a batch and   *)
(* of a zone.                                                              *)
LEMMA CorrelationIs ==
    ASSUME ReportsInv, NEW S \in SUBSET DriveIds
    PROVE  /\ Correlation(Fleet, S) = ExpectedCorrelation(S, Purchase)
           /\ Correlation(Fleet, S) \in Nat
<1> DEFINE B == {d \in S : sheet[d].bought # Unknown}
           zone == [d \in S |-> sheet[d].zone]
<1>1. IsFiniteSet(S) /\ IsFiniteSet(B) /\ B \in SUBSET S
  BY ItemsFinite, FS_Subset DEF ReportsInv
<1>2. \A d \in S : Fleet[d].batch = BatchKey(d) /\ Fleet[d].zone = sheet[d].zone
  BY DEF Fleet
<1>3. \A d \in B : /\ BatchKey(d) = BatchOf[<<Built[d].line, sheet[d].bought>>]
                   /\ sheet[d].bought \in Purchases /\ Purchase[d] = <<Built[d].line, sheet[d].bought>>
  BY DEF BatchKey, Purchase, ReportsInv, ReportsTyped
<1>4. \A d \in S : BatchKey(d) # Unrecorded <=> d \in B
  <2> SUFFICES ASSUME NEW d \in S PROVE BatchKey(d) # Unrecorded <=> d \in B
    OBVIOUS
  <2>1. CASE d \in B
    <3>1. BatchKey(d) = BatchOf[<<Built[d].line, sheet[d].bought>>] /\ sheet[d].bought \in Purchases /\ d \in DriveIds
      BY <1>3, <2>1
    <3>2. \A p \in Purchases : BatchOf[<<Built[d].line, p>>] # Unrecorded
      <4>1. d \in DriveIds
        BY <3>1
      <4> QED
        BY ONLY <4>1, RateAssumption
    <3> QED
      BY ONLY <2>1, <3>1, <3>2
  <2>2. CASE d \notin B
    BY <2>2 DEF BatchKey
  <2> QED
    BY <2>1, <2>2
<1>5. {d \in S : Fleet[d].batch # Unrecorded} = B
  BY <1>2, <1>4
<1>6. Cardinality({Fleet[d].batch : d \in B}) = Cardinality({Purchase[d] : d \in B})
  <2> DEFINE key == [d \in B |-> Fleet[d].batch]
  <2>1. \A d, e \in B : key[d] = key[e] <=> Purchase[d] = Purchase[e]
    <3> SUFFICES ASSUME NEW d \in B, NEW e \in B PROVE key[d] = key[e] <=> Purchase[d] = Purchase[e]
      OBVIOUS
    <3> DEFINE p == sheet[d].bought
               q == sheet[e].bought
    <3>1. /\ key[d] = BatchOf[<<Built[d].line, p>>] /\ key[e] = BatchOf[<<Built[e].line, q>>]
          /\ Purchase[d] = <<Built[d].line, p>> /\ Purchase[e] = <<Built[e].line, q>>
          /\ p \in Purchases /\ q \in Purchases /\ d \in DriveIds /\ e \in DriveIds
      BY <1>1, <1>2, <1>3
    <3> HIDE DEF p, q, key, B
    <3>2. BatchOf[<<Built[d].line, p>>] = BatchOf[<<Built[e].line, q>>] => Built[d].line = Built[e].line /\ p = q
      BY <3>1, RateAssumption
    <3> QED
      BY <3>1, <3>2
  <2>2. {key[d] : d \in B} = {Fleet[d].batch : d \in B}
    OBVIOUS
  <2> HIDE DEF key, B
  <2>3. Cardinality({key[d] : d \in B}) = Cardinality({Purchase[d] : d \in B})
    BY <1>1, <2>1, SameCount
  <2> QED
    BY <2>2, <2>3
<1>7. {Fleet[d].zone : d \in S} = {zone[d] : d \in S}
  BY <1>2
<1> DEFINE nb == Cardinality(B) - Cardinality({Purchase[d] : d \in B})
           nz == Cardinality(S) - Cardinality({zone[d] : d \in S})
<1>8. Correlation(Fleet, S) = Power(SameBatch, nb) * Power(SameZone, nz)
  BY <1>5, <1>6, <1>7 DEF Correlation
<1>9. nb \in Nat /\ PowerOf(SameBatch, CountBy(B, Purchase)) = Power(SameBatch, nb)
  <2> HIDE DEF B
  <2> QED
    BY <1>1, RiskAssumption, PowerOfCounts
<1>10. nz \in Nat /\ PowerOf(SameZone, CountBy(S, zone)) = Power(SameZone, nz)
  <2> HIDE DEF zone
  <2> QED
    BY <1>1, RiskAssumption, PowerOfCounts
<1>11. ExpectedCorrelation(S, Purchase) = PowerOf(SameBatch, CountBy(B, Purchase)) * PowerOf(SameZone, CountBy(S, zone))
  BY DEF ExpectedCorrelation
<1> HIDE DEF nb, nz, B, zone
<1>12. Power(SameBatch, nb) \in Nat /\ Power(SameZone, nz) \in Nat
  BY <1>9, <1>10, RiskAssumption, PowerIs
<1> QED
  BY <1>8, <1>9, <1>10, <1>11, <1>12

(* What SetRisk comes to for some drives: the product, or the safest drive's *)
(* own rate.                                                               *)
Spread(S) == ProductOf([d \in S |-> DriveRate(d)])
Further(S) == Power(Scale, Cardinality(DriveIds) - Cardinality(S))
Single == Power(Scale, Cardinality(DriveIds) - 1)
Safest(S) == Min({DriveRate(d) : d \in S})

(* The chance of a loss, by its parts.                                     *)
LEMMA RiskParts ==
    ASSUME ReportsInv, NEW S \in SUBSET DriveIds, S # {}
    PROVE  /\ Spread(S) \in Nat /\ Further(S) \in Nat \ {0} /\ Single \in Nat \ {0} /\ Safest(S) \in Nat
           /\ SetRisk(Fleet, S) = IF Spread(S) * Correlation(Fleet, S) * Further(S) <= Safest(S) * Single
                                  THEN Spread(S) * Correlation(Fleet, S) * Further(S) ELSE Safest(S) * Single
           /\ Safest(S) \in {DriveRate(d) : d \in S} /\ \A d \in S : Safest(S) <= DriveRate(d)
<1>1. IsFiniteSet(S) /\ IsFiniteSet(DriveIds)
  BY ItemsFinite DEF ReportsInv
<1>2. Cardinality(DriveIds) - Cardinality(S) \in Nat /\ Cardinality(DriveIds) - 1 \in Nat
  <2>1. Cardinality(S) \in Nat /\ Cardinality(S) # 0
    BY <1>1, FS_CardinalityType, FS_EmptySet
  <2>2. Cardinality(DriveIds) \in Nat /\ Cardinality(S) <= Cardinality(DriveIds)
    BY <1>1, FS_Subset, FS_CardinalityType
  <2> QED
    BY <2>1, <2>2
<1>3. Further(S) \in Nat \ {0} /\ Single \in Nat \ {0}
  BY <1>2, RiskAssumption, PowerIs DEF Further, Single
<1>4. \A d \in S : DriveRate(d) \in Nat
  BY RateIs
<1>5. Spread(S) \in Nat
  <2> DEFINE f == [d \in S |-> DriveRate(d)]
  <2>1. DOMAIN f = S /\ \A d \in S : f[d] \in Nat
    BY <1>4
  <2>2. Spread(S) = ProductOf(f)
    BY DEF Spread
  <2> HIDE DEF f
  <2> QED
    BY <1>1, <2>1, <2>2, ProductIs, ProductNat
<1>6. {DriveRate(d) : d \in S} \in SUBSET Nat /\ {DriveRate(d) : d \in S} # {}
  BY <1>4
<1>7. Safest(S) \in {DriveRate(d) : d \in S} /\ \A d \in S : Safest(S) <= DriveRate(d)
  <2> DEFINE R == {DriveRate(d) : d \in S}
  <2>1. R \in SUBSET Nat /\ R # {}
    BY <1>6
  <2>2. \A d \in S : DriveRate(d) \in R
    OBVIOUS
  <2>3. Safest(S) = Min(R)
    BY DEF Safest
  <2> HIDE DEF R
  <2>4. Min(R) \in R /\ \A x \in R : Min(R) <= x
    BY <2>1, LeastOf
  <2> QED
    BY <2>2, <2>3, <2>4 DEF R
<1>8. Safest(S) \in Nat
  BY <1>4, <1>7
<1>9. RateProduct(Fleet, S) = Spread(S) /\ Min({Fleet[d].rate : d \in S}) = Safest(S)
  <2>1. \A d \in S : Fleet[d].rate = DriveRate(d)
    BY DEF Fleet
  <2>2. [d \in S |-> Fleet[d].rate] = [d \in S |-> DriveRate(d)] /\ {Fleet[d].rate : d \in S} = {DriveRate(d) : d \in S}
    BY <2>1
  <2> QED
    BY <2>2 DEF RateProduct, Spread, Safest
<1>10. Correlation(Fleet, S) \in Nat
  BY CorrelationIs
<1> DEFINE a == Spread(S) * Correlation(Fleet, S) * Further(S)
           b == Safest(S) * Single
<1>11. SetRisk(Fleet, S) = Min({a, b})
  BY <1>9 DEF SetRisk, Further, Single
<1>12. a \in Int /\ b \in Int
  <2>1. \A x, y, z \in Nat : x * y * z \in Nat /\ x * y \in Nat
    OBVIOUS
  <2> QED
    BY <1>3, <1>5, <1>8, <1>10, <2>1
<1>13. SetRisk(Fleet, S) = IF a <= b THEN a ELSE b
  <2> HIDE DEF a, b
  <2> QED
    BY <1>11, <1>12, GreaterOfTwo
<1> QED
  BY <1>3, <1>5, <1>7, <1>8, <1>13

(* The chance of a loss is a number.                                       *)
LEMMA RiskNat ==
    ASSUME ReportsInv, NEW S \in SUBSET DriveIds
    PROVE  SetRisk(Fleet, S) \in Int
<1>1. CASE S = {}
  <2> DEFINE n == Cardinality(DriveIds) - 1
  <2>1. n \in Nat \/ n = -1
    BY ItemsFinite, FS_CardinalityType DEF ReportsInv
  <2>2. SetRisk(Fleet, S) = UnverifiedRate * Power(Scale, n)
    BY <1>1 DEF SetRisk
  <2>3. Power(Scale, -1) = Power(Scale, 0)
    <3>1. 1 .. -1 = 1 .. 0
      OBVIOUS
    <3> QED
      BY <3>1 DEF Power
  <2> HIDE DEF n
  <2>4. Power(Scale, n) \in Nat
    BY <2>1, <2>3, PowerIs, RiskAssumption
  <2> QED
    BY <2>2, <2>4, RiskAssumption
<1>2. CASE S # {}
  <2>1. Correlation(Fleet, S) \in Nat
    BY CorrelationIs
  <2>2. \A x, y, z \in Nat : x * y * z \in Nat /\ x * y \in Nat
    OBVIOUS
  <2> QED
    BY <1>2, <2>1, <2>2, RiskParts
<1> QED
  BY <1>1, <1>2

(* The bench's loss of some drives it knows: the same, with its own count  *)
(* of batches.                                                             *)
LEMMA ExpectedLossIs ==
    ASSUME ReportsInv, NEW S \in SUBSET DriveIds, S # {}, \A d \in S : BenchKnows(d),
           NEW batch, ExpectedCorrelation(S, batch) \in Nat
    PROVE  ExpectedLossOf(S, batch) =
              IF Spread(S) * ExpectedCorrelation(S, batch) * Further(S) <= Safest(S) * Single
              THEN Spread(S) * ExpectedCorrelation(S, batch) * Further(S) ELSE Safest(S) * Single
<1> DEFINE rates == [d \in S |-> ExpectedRate(d).rate]
           c == ExpectedCorrelation(S, batch)
           a == Spread(S) * c * Further(S)
           b == Safest(S) * Single
           others == {rates[d] * Single : d \in S}
<1>1. \A d \in S : ExpectedRate(d).rate = DriveRate(d) /\ DriveRate(d) \in Nat
  BY RatesAre, RateIs DEF RatesExpected
<1>2. rates = [d \in S |-> DriveRate(d)]
  BY <1>1
<1>3. ProductOf(rates) = Spread(S)
  BY <1>2 DEF Spread
<1>4. ExpectedLossOf(S, batch) = Min({a} \cup others)
  BY <1>3 DEF ExpectedLossOf, Further, Single
<1>5. /\ Spread(S) \in Nat /\ Further(S) \in Nat /\ Single \in Nat /\ Safest(S) \in Nat
      /\ Safest(S) \in {DriveRate(d) : d \in S} /\ \A d \in S : Safest(S) <= DriveRate(d)
  BY RiskParts
<1>6. a \in Nat /\ b \in Nat
  <2>1. \A x, y, z \in Nat : x * y * z \in Nat /\ x * y \in Nat
    OBVIOUS
  <2> QED
    BY <1>5, <2>1
<1>7. b \in others /\ others \in SUBSET Nat /\ \A x \in others : b <= x
  <2>1. \A d \in S : rates[d] = DriveRate(d)
    BY <1>2
  <2>2. \A x, y, z \in Nat : x <= y => x * z <= y * z
    OBVIOUS
  <2>3. \A x, z \in Nat : x * z \in Nat
    OBVIOUS
  <2>4. others \in SUBSET Nat
    BY <1>1, <1>5, <2>1, <2>3
  <2>5. b \in others
    BY <1>5, <2>1
  <2>6. \A d \in S : b <= rates[d] * Single
    BY <1>1, <1>5, <2>1, <2>2
  <2> QED
    BY <2>4, <2>5, <2>6
<1> HIDE DEF a, b, others, rates, c
<1> DEFINE all == {a} \cup others
<1>8. all \in SUBSET Nat /\ all # {}
  BY <1>6, <1>7
<1>9. Min(all) \in all /\ \A x \in all : Min(all) <= x
  <2> HIDE DEF all
  <2> QED
    BY <1>8, LeastOf
<1>10. Min(all) = IF a <= b THEN a ELSE b
  <2> DEFINE m == Min(all)
  <2>1. m \in Nat /\ m <= a /\ m <= b /\ (m = a \/ b <= m)
    BY <1>6, <1>7, <1>9
  <2> HIDE DEF m, all
  <2>2. m = IF a <= b THEN a ELSE b
    BY <1>6, <2>1
  <2> QED
    BY <2>2 DEF m
<1> QED
  BY <1>4, <1>10 DEF a, b, c

(* The chance of a loss is the one the bench expects.                      *)
LEMMA RiskIsExpected ==
    ASSUME ReportsInv, NEW S \in SUBSET DriveIds, \A d \in S : BenchKnows(d)
    PROVE  SetRisk(Fleet, S) = ExpectedLossOf(S, Purchase)
<1>1. CASE S = {}
  BY <1>1 DEF SetRisk, ExpectedLossOf
<1>2. CASE S # {}
  <2>1. /\ Correlation(Fleet, S) = ExpectedCorrelation(S, Purchase)
        /\ ExpectedCorrelation(S, Purchase) \in Nat
    BY CorrelationIs
  <2>2. SetRisk(Fleet, S) = IF Spread(S) * Correlation(Fleet, S) * Further(S) <= Safest(S) * Single
                            THEN Spread(S) * Correlation(Fleet, S) * Further(S) ELSE Safest(S) * Single
    BY <1>2, RiskParts
  <2>3. ExpectedLossOf(S, Purchase) =
              IF Spread(S) * ExpectedCorrelation(S, Purchase) * Further(S) <= Safest(S) * Single
              THEN Spread(S) * ExpectedCorrelation(S, Purchase) * Further(S) ELSE Safest(S) * Single
    BY <1>2, <2>1, ExpectedLossIs
  <2> QED
    BY <2>1, <2>2, <2>3
<1> QED
  BY <1>1, <1>2

(* Two drives, bought together or not. *)
LEMMA TwoAlone ==
    ASSUME ReportsInv, NEW S \in SUBSET DriveIds, OneBatch(S), NEW alone, alone = [d \in DriveIds |-> d]
    PROVE  \E z \in Nat \ {0} : /\ ExpectedCorrelation(S, alone) = z
                                /\ ExpectedCorrelation(S, Purchase) = SameBatch * z
<1> DEFINE B == {d \in S : sheet[d].bought # Unknown}
           zone == [d \in S |-> sheet[d].zone]
           nz == Cardinality(S) - Cardinality({zone[d] : d \in S})
           z == Power(SameZone, nz)
<1>1. B = S /\ IsFiniteSet(S) /\ Cardinality(S) = 2 /\ Cardinality({Purchase[d] : d \in S}) = 1
  BY ItemsFinite DEF OneBatch, ReportsInv
<1>2. {alone[d] : d \in S} = S
  OBVIOUS
<1>3. PowerOf(SameBatch, CountBy(S, alone)) = Power(SameBatch, 0)
  <2>1. PowerOf(SameBatch, CountBy(S, alone)) = Power(SameBatch, Cardinality(S) - Cardinality({alone[d] : d \in S}))
    BY <1>1, RiskAssumption, PowerOfCounts
  <2>2. Cardinality({alone[d] : d \in S}) = 2
    BY <1>1, <1>2
  <2> QED
    BY ONLY <1>1, <2>1, <2>2
<1>4. PowerOf(SameBatch, CountBy(S, Purchase)) = Power(SameBatch, 1)
  <2>1. PowerOf(SameBatch, CountBy(S, Purchase)) = Power(SameBatch, Cardinality(S) - Cardinality({Purchase[d] : d \in S}))
    BY <1>1, RiskAssumption, PowerOfCounts
  <2> QED
    BY <1>1, <2>1
<1>5. Power(SameBatch, 0) = 1 /\ Power(SameBatch, 1) = SameBatch
  <2>1. Power(SameBatch, 0) = 1 /\ Power(SameBatch, 0 + 1) = SameBatch * Power(SameBatch, 0)
    BY RiskAssumption, PowerIs
  <2> QED
    BY <2>1, RiskAssumption
<1>6. nz \in Nat /\ PowerOf(SameZone, CountBy(S, zone)) = z
  <2> HIDE DEF zone
  <2> QED
    BY <1>1, RiskAssumption, PowerOfCounts
<1>7. \A batch : ExpectedCorrelation(S, batch) = PowerOf(SameBatch, CountBy(B, batch)) * PowerOf(SameZone, CountBy(S, zone))
  BY DEF ExpectedCorrelation
<1>8. z \in Nat \ {0}
  BY <1>6, RiskAssumption, PowerIs
<1> HIDE DEF z, nz, zone, B
<1>9. ExpectedCorrelation(S, alone) = z /\ ExpectedCorrelation(S, Purchase) = SameBatch * z
  BY <1>1, <1>3, <1>4, <1>5, <1>6, <1>7, <1>8, RiskAssumption
<1> QED
  BY <1>8, <1>9

(* One batch is worse than two, unless no copy counts for more than a drive. *)
LEMMA BatchIsWorse ==
    ASSUME ReportsInv, NEW S \in SUBSET DriveIds, \A d \in S : BenchKnows(d), OneBatch(S),
           NEW alone, alone = [d \in DriveIds |-> d]
    PROVE  \/ SetRisk(Fleet, S) > ExpectedLossOf(S, alone)
           \/ /\ SetRisk(Fleet, S) >= Safest(S) * Single
              /\ SetRisk(Fleet, S) >= ExpectedLossOf(S, alone)
<1> DEFINE p == Spread(S)
           w == Further(S)
           most == Safest(S) * Single
<1>1. S # {}
  BY FS_EmptySet DEF OneBatch
<1>2. PICK z \in Nat \ {0} : /\ ExpectedCorrelation(S, alone) = z
                             /\ ExpectedCorrelation(S, Purchase) = SameBatch * z
  BY TwoAlone
<1>3. p \in Nat /\ w \in Nat \ {0} /\ most \in Nat /\ (p = 0 => most = 0)
  <2>1. p \in Nat /\ w \in Nat \ {0} /\ Single \in Nat /\ Safest(S) \in Nat /\ \A d \in S : Safest(S) <= DriveRate(d)
    BY <1>1, RiskParts
  <2>2. p = 0 => \E d \in S : DriveRate(d) = 0
    <3> SUFFICES ASSUME \A d \in S : DriveRate(d) # 0 PROVE p # 0
      OBVIOUS
    <3> DEFINE f == [d \in S |-> DriveRate(d)]
    <3>1. DOMAIN f = S /\ \A d \in S : f[d] \in Nat \ {0}
      BY RateIs
    <3>2. Spread(S) = ProductOf(f)
      BY DEF Spread
    <3>3. IsFiniteSet(S)
      BY ItemsFinite DEF ReportsInv
    <3> HIDE DEF f
    <3> QED
      BY <3>1, <3>2, <3>3, ProductIs, ProductPositive
  <2>3. p = 0 => Safest(S) = 0
    BY <2>1, <2>2
  <2> QED
    BY <2>1, <2>3
<1>4. SetRisk(Fleet, S) = IF p * (SameBatch * z) * w <= most THEN p * (SameBatch * z) * w ELSE most
  <2>1. Correlation(Fleet, S) = SameBatch * z
    BY <1>2, CorrelationIs
  <2> QED
    BY <1>1, <2>1, RiskParts
<1>5. ExpectedLossOf(S, alone) = IF p * z * w <= most THEN p * z * w ELSE most
  BY <1>1, <1>2, ExpectedLossIs
<1> DEFINE x == p * z * w
           y == p * (SameBatch * z) * w
<1>6. x \in Nat /\ y = SameBatch * x /\ (x = 0 => p = 0)
  <2> HIDE DEF p, w
  <2>1. SameBatch \in Nat
    BY RiskAssumption
  <2>2. p * z \in Nat /\ p * z * w \in Nat
    BY <1>3
  <2>3. p * (SameBatch * z) * w = SameBatch * (p * z * w)
    BY <1>3, <2>1
  <2>4. \A m \in Nat, n \in Nat \ {0} : m * n = 0 => m = 0
    OBVIOUS
  <2>5. x = 0 => p = 0
    BY <1>3, <2>2, <2>4
  <2> QED
    BY <2>2, <2>3, <2>5
<1>7. x = 0 \/ y > x
  <2> HIDE DEF x, y
  <2>1. \A m \in Nat, n \in Nat \ {0, 1} : m = 0 \/ n * m > m
    OBVIOUS
  <2> QED
    BY <1>6, <2>1, RiskAssumption
<1> HIDE DEF x, y, most, p, w
<1>8. SetRisk(Fleet, S) = IF y <= most THEN y ELSE most
  BY <1>4 DEF y
<1>9. ExpectedLossOf(S, alone) = IF x <= most THEN x ELSE most
  BY <1>5 DEF x
<1>10. x \in Nat /\ y \in Nat /\ most \in Nat /\ (x = 0 => most = 0)
  <2>1. \A m, n \in Nat : m * n \in Nat
    OBVIOUS
  <2> QED
    BY <1>3, <1>6, <2>1, RiskAssumption
<1>11. \/ SetRisk(Fleet, S) > ExpectedLossOf(S, alone)
       \/ SetRisk(Fleet, S) >= most /\ SetRisk(Fleet, S) >= ExpectedLossOf(S, alone)
  BY ONLY <1>7, <1>8, <1>9, <1>10
<1> QED
  BY <1>11 DEF most

(* The bytes of some of the bench's items, and of the program's.           *)
BytesIn(I) == SumFunction([g \in I |-> Representative(g).size])
Pics(G) == {Pic(a) : a \in G}

(* There are as many items as the bench planted.                           *)
LEMMA PicsCount ==
    ASSUME LearnInv, NEW G \in SUBSET BenchItems
    PROVE  /\ Pics(G) \in SUBSET Items(Rows) /\ IsFiniteSet(G) /\ IsFiniteSet(Pics(G))
           /\ BytesIn(Pics(G)) = BytesOfItems(G)
           /\ Cardinality(Pics(G)) = Cardinality(G)
           /\ BytesOfItems(G) \in Nat
<1> DEFINE I == Pics(G)
           f == [a \in G |-> SizeOf[CHOOSE i \in a : TRUE]]
           h == [g \in I |-> Representative(g).size]
           b == [a \in G |-> Pic(a)]
           one == [a \in G |-> 1]
           oneI == [g \in I |-> 1]
<1>1. IsFiniteSet(G)
  BY ItemsFinite, FS_Subset
<1>2. I = {b[a] : a \in G}
  BY DEF Pics
<1>3. \A a \in G : /\ a \in SUBSET present /\ Representative(Pic(a)).size = SizeOfItem(a) /\ SizeOfItem(a) \in Nat
                   /\ f[a] = SizeOfItem(a) /\ b[a] = Pic(a) /\ one[a] = 1
  BY ItemSize DEF SizeOfItem
<1>4. \A a, c \in G : b[a] = b[c] => a = c
  BY <1>3, PicIs
<1>5. \A g \in I : h[g] = Representative(g).size /\ oneI[g] = 1
  OBVIOUS
<1>6. DOMAIN f = G /\ DOMAIN h = I
  OBVIOUS
<1>7. I \in SUBSET Items(Rows) /\ IsFiniteSet(I)
  <2>1. I \in SUBSET Items(Rows)
    BY ItemsPictured DEF Pics
  <2> QED
    BY <2>1, ItemsFinite, FS_Subset
<1>8. \A a \in G : Pic(a) \in I
  BY DEF Pics
<1>9. BytesOfItems(G) = SumFunction(f) /\ BytesIn(I) = SumFunction(h)
  BY DEF BytesOfItems, BytesIn
<1> HIDE DEF I, f, h, b, one, oneI
<1>10. Total(f, G) = Total(h, I)
  <2>1. \A a \in G : f[a] \in Int /\ f[a] = h[b[a]]
    BY <1>3, <1>5, <1>8
  <2> QED
    BY <1>1, <1>2, <1>4, <2>1, TotalMapped
<1>11. Total(one, G) = Total(oneI, I)
  <2>1. \A a \in G : one[a] \in Int /\ one[a] = oneI[b[a]]
    BY <1>3, <1>5, <1>8
  <2> QED
    BY <1>1, <1>2, <1>4, <2>1, TotalMapped
<1>12. Total(one, G) = Cardinality(G) /\ Total(oneI, I) = Cardinality(I)
  BY <1>1, <1>3, <1>5, <1>7, TotalOnes
<1>13. Total(f, G) \in Nat
  BY <1>1, <1>3, TotalNat
<1>14. SumFunction(f) = Total(f, G) /\ SumFunction(h) = Total(h, I)
  BY <1>6, SumIsTotal
<1>15. BytesIn(I) = BytesOfItems(G) /\ Cardinality(I) = Cardinality(G) /\ BytesOfItems(G) \in Nat
  BY <1>9, <1>10, <1>11, <1>12, <1>13, <1>14
<1> QED
  BY <1>1, <1>7, <1>15 DEF I

LEMMA HomesKnown ==
    ASSUME ReportsInv, NEW a \in SUBSET present
    PROVE  DevicesOf(a) \in SUBSET DriveIds
<1>1. \A i \in present : VolumeOf[FolderOfSlot[i]] \in AllVolumes
  BY AssessmentAssumption DEF AllVolumes, ReportsInv, LearnInv
<1> QED
  BY <1>1 DEF DevicesOf, ReportsInv, ReportsTyped

LEMMA LossAsExpected ==
    ASSUME ReportsInv PROVE LossExpected(BenchItems)
<1> DEFINE exposure == Exposure(Items(Rows))
           expected == ExpectedDurability(BenchItems)
           alone == [d \in DriveIds |-> d]
<1>0. LearnInv
  BY DEF ReportsInv
<1>1. \A a \in BenchItems : a \in SUBSET present /\ DrivesOf(Pic(a)) = DevicesOf(a)
  BY <1>0, ItemSize, PicIs
<1>2. DOMAIN exposure = {DrivesOf(g) : g \in Items(Rows)} /\ DOMAIN expected = {DevicesOf(a) : a \in BenchItems}
  BY DEF Exposure, ExpectedDurability
<1>3. DOMAIN exposure = DOMAIN expected
  BY <1>0, <1>1, <1>2, ItemsPictured
<1>4. ASSUME NEW S \in DOMAIN expected
      PROVE  exposure[S].bytes = expected[S]
  <2>1. {g \in Items(Rows) : DrivesOf(g) = S} = Pics({a \in BenchItems : DevicesOf(a) = S})
    BY <1>0, <1>1, ItemsPictured DEF Pics
  <2>2. exposure[S].bytes = BytesIn({g \in Items(Rows) : DrivesOf(g) = S})
    BY <1>2, <1>3 DEF Exposure, BytesIn
  <2>3. expected[S] = BytesOfItems({a \in BenchItems : DevicesOf(a) = S})
    BY <1>2 DEF ExpectedDurability
  <2> DEFINE G == {a \in BenchItems : DevicesOf(a) = S}
  <2>4. G \in SUBSET BenchItems
    OBVIOUS
  <2> HIDE DEF G
  <2>5. BytesIn(Pics(G)) = BytesOfItems(G)
    BY <1>0, <2>4, PicsCount
  <2> QED
    BY <2>1, <2>2, <2>3, <2>5 DEF G
<1>5. \A S \in DOMAIN expected : S \in SUBSET DriveIds
  BY <1>1, <1>2, HomesKnown
<1>6. ASSUME NEW S \in SUBSET DriveIds, \A d \in S : BenchKnows(d)
      PROVE  LET risk == SetRisk(Fleet, S)
                 most == Min({ExpectedRate(d).rate : d \in S}) * Power(Scale, Cardinality(DriveIds) - 1)
             IN  /\ risk = ExpectedLossOf(S, Purchase)
                 /\ OneBatch(S) => \/ risk > ExpectedLossOf(S, alone)
                                   \/ risk >= most /\ risk >= ExpectedLossOf(S, alone)
  <2>1. SetRisk(Fleet, S) = ExpectedLossOf(S, Purchase)
    BY <1>6, RiskIsExpected
  <2>2. {ExpectedRate(d).rate : d \in S} = {DriveRate(d) : d \in S}
    <3>1. \A d \in S : ExpectedRate(d).rate = DriveRate(d)
      BY <1>6, RatesAre DEF RatesExpected
    <3> QED
      BY <3>1
  <2>3. Min({ExpectedRate(d).rate : d \in S}) * Power(Scale, Cardinality(DriveIds) - 1) = Safest(S) * Single
    BY <2>2 DEF Safest, Single
  <2>4. OneBatch(S) => \/ SetRisk(Fleet, S) > ExpectedLossOf(S, alone)
                       \/ /\ SetRisk(Fleet, S) >= Safest(S) * Single
                          /\ SetRisk(Fleet, S) >= ExpectedLossOf(S, alone)
    <3> HIDE DEF alone
    <3> QED
      BY <1>6, BatchIsWorse DEF alone
  <2> QED
    BY <2>1, <2>3, <2>4
<1> QED
  BY <1>3, <1>4, <1>5, <1>6 DEF LossExpected

(* What is filed of an item, by the files in it.                           *)
LEMMA FilersAre ==
    ASSUME LearnInv, NEW a \in SUBSET present
    PROVE  Filers(Pic(a)) = {k \in DOMAIN ruled : \E i \in a : Beneath(i, k)}
<1>1. \A i \in present : RowOf(i).dir = FolderOfSlot[i]
  BY RowSays
<1>2. \A k : (\E r \in Pic(a) : r \in MembersOf(k, Pic(a))) <=> \E i \in a : Beneath(i, k)
  BY <1>1 DEF MembersOf, Pic, Beneath
<1> QED
  BY <1>2 DEF Filers

(* What is covered is what the bench expects.                              *)
LEMMA CoverageAsExpected ==
    ASSUME ReportsInv PROVE CoverageExpected(BenchItems)
<1> DEFINE items == Items(Rows)
           filed == {g \in items : Filers(g) # {}}
           F == {g \in BenchItems : \E k \in DOMAIN ruled : \E i \in g : Beneath(i, k)}
<1>0. LearnInv
  BY DEF ReportsInv
<1>1. items = Pics(BenchItems)
  BY <1>0, ItemsPictured DEF Pics
<1>2. \A a \in BenchItems : a \in SUBSET present /\ (Filers(Pic(a)) # {} <=> a \in F)
  BY <1>0, ItemSize, FilersAre
<1>3. filed = Pics(F)
  BY <1>1, <1>2 DEF Pics
<1>4. items \ filed = Pics(BenchItems \ F)
  BY <1>1, <1>2 DEF Pics
<1>5. /\ Coverage(items, 2).total.bytes = BytesIn(items)
      /\ Coverage(items, 2).filed.bytes = BytesIn(filed)
      /\ Coverage(items, 2).unfiled.bytes = BytesIn(items \ filed)
  BY DEF Coverage, Bucket, BytesIn
<1>6. F \in SUBSET BenchItems /\ BenchItems \ F \in SUBSET BenchItems
  OBVIOUS
<1>7. ASSUME NEW k
      PROVE  {r.id : r \in MembersOf(k, Rows)} = {i \in present : Beneath(i, k)}
  <2>1. \A i \in present : RowOf(i).dir = FolderOfSlot[i] /\ RowOf(i).id = i
    BY <1>0, RowSays
  <2>2. MembersOf(k, Rows) = {RowOf(i) : i \in {j \in present : Beneath(j, k)}}
    BY <2>1, RowsAre DEF RowsTold, MembersOf, Beneath
  <2> QED
    BY <2>1, <2>2
<1> HIDE DEF F, filed, items
<1>8. /\ BytesIn(items) = BytesOfItems(BenchItems)
      /\ BytesIn(filed) = BytesOfItems(F)
      /\ BytesIn(items \ filed) = BytesOfItems(BenchItems \ F)
  BY <1>0, <1>1, <1>3, <1>4, <1>6, PicsCount
<1> QED
  BY <1>5, <1>7, <1>8 DEF CoverageExpected, F, items

(* One result for each criterion. *)
LEMMA CriteriaOnce ==
    ASSUME NEW a1, NEW a2, NEW a3, NEW a4, NEW a5, NEW a6, NEW a7, NEW a8, NEW a9, NEW a10, NEW a11,
           NEW a12, NEW a13,
           NEW X, X = NdsaCard(a1, a2, a3, a4, a5, a6, a7, a8, a9, a10, a11, a12, a13),
           NEW x \in X, NEW y \in X, x[1] = y[1], x[2] = y[2], x[3] = y[3]
    PROVE  x = y
<1>1. ASSUME NEW z \in X, z[1] = "storage"
      PROVE  \/ z[3] = "1a" /\ z = <<"storage", 1, "1a", a1>>
             \/ z[3] = "1b" /\ z = <<"storage", 1, "1b", a2>>
             \/ z[3] = "2a" /\ z = <<"storage", 2, "2a", a3>>
             \/ z[3] = "3a" /\ z = <<"storage", 3, "3a", a4>>
             \/ z[3] = "3b" /\ z = <<"storage", 3, "3b", a5>>
             \/ z[3] = "4a" /\ z = <<"storage", 4, "4a", a6>>
             \/ z[3] = "4b" /\ z = <<"storage", 4, "4b", a7>>
  BY <1>1 DEF NdsaCard
<1>2. ASSUME NEW z \in X, z[1] = "integrity"
      PROVE  \/ z[3] = "1b" /\ z = <<"integrity", 1, "1b", a8>>
             \/ z[3] = "2b" /\ z = <<"integrity", 2, "2b", "pass">>
             \/ z[3] = "3a" /\ z = <<"integrity", 3, "3a", a9>>
             \/ z[3] = "3b" /\ z = <<"integrity", 3, "3b", a10>>
             \/ z[3] = "3c" /\ z = <<"integrity", 3, "3c", a11>>
  BY <1>2 DEF NdsaCard
<1>3. ASSUME NEW z \in X, z[1] = "metadata"
      PROVE  \/ z[3] = "1a" /\ z = <<"metadata", 1, "1a", "pass">>
             \/ z[3] = "2a" /\ z = <<"metadata", 2, "2a", a12>>
             \/ z[3] = "3b" /\ z = <<"metadata", 3, "3b", a13>>
             \/ z[3] = "4a" /\ z = <<"metadata", 4, "4a", "pass">>
  BY <1>3 DEF NdsaCard
<1>4. x[1] \in {"storage", "integrity", "metadata"}
  BY DEF NdsaCard
<1>5. CASE x[1] = "storage"
  BY ONLY x \in X, y \in X, x[1] = y[1], x[3] = y[3], <1>5, <1>1
<1>6. CASE x[1] = "integrity"
  BY ONLY x \in X, y \in X, x[1] = y[1], x[3] = y[3], <1>6, <1>2
<1>7. CASE x[1] = "metadata"
  BY ONLY x \in X, y \in X, x[1] = y[1], x[3] = y[3], <1>7, <1>3
<1> QED
  BY <1>4, <1>5, <1>6, <1>7

(* The criteria of storage, read back from a card that holds them.         *)
LEMMA StorageOutcomes ==
    ASSUME NEW a1, NEW a2, NEW a3, NEW a4, NEW a5, NEW a6, NEW a7, NEW a8, NEW a9, NEW a10, NEW a11,
           NEW a12, NEW a13,
           NEW X, X = NdsaCard(a1, a2, a3, a4, a5, a6, a7, a8, a9, a10, a11, a12, a13)
    PROVE  /\ Outcome(X, "storage", "1a") = a1 /\ Outcome(X, "storage", "2a") = a3
           /\ Outcome(X, "storage", "3a") = a4
<1>1. \A x \in X : (x[1] = "storage" /\ x[3] = "1a") => x[4] = a1
  BY DEF NdsaCard
<1>2. \A x \in X : (x[1] = "storage" /\ x[3] = "2a") => x[4] = a3
  BY DEF NdsaCard
<1>3. \A x \in X : (x[1] = "storage" /\ x[3] = "3a") => x[4] = a4
  BY DEF NdsaCard
<1>4. /\ \E x \in X : x[1] = "storage" /\ x[3] = "1a"
      /\ \E x \in X : x[1] = "storage" /\ x[3] = "2a"
      /\ \E x \in X : x[1] = "storage" /\ x[3] = "3a"
  <2>1. <<"storage", 1, "1a", a1>> \in X /\ <<"storage", 2, "2a", a3>> \in X /\ <<"storage", 3, "3a", a4>> \in X
    BY DEF NdsaCard
  <2> QED
    BY <2>1
<1> QED
  BY <1>1, <1>2, <1>3, <1>4 DEF Outcome

(* A description is full when it has seven fields.                         *)
LEMMA FieldsCount ==
    /\ IsFiniteSet(AllFields) /\ Cardinality(AllFields) = 7
    /\ \A S \in SUBSET AllFields : S = AllFields <=> Cardinality(S) = 7
<1> DEFINE s1 == {"title"}
           s2 == s1 \cup {"description"}
           s3 == s2 \cup {"creators"}
           s4 == s3 \cup {"contact"}
           s5 == s4 \cup {"license"}
           s6 == s5 \cup {"data-type"}
           s7 == s6 \cup {"project"}
<1>1. IsFiniteSet(s1) /\ Cardinality(s1) = 1
  BY FS_Singleton
<1>2. IsFiniteSet(s2) /\ Cardinality(s2) = 2
  BY <1>1, FS_AddElement
<1>3. IsFiniteSet(s3) /\ Cardinality(s3) = 3
  BY <1>2, FS_AddElement
<1>4. IsFiniteSet(s4) /\ Cardinality(s4) = 4
  BY <1>3, FS_AddElement
<1>5. IsFiniteSet(s5) /\ Cardinality(s5) = 5
  BY <1>4, FS_AddElement
<1>6. IsFiniteSet(s6) /\ Cardinality(s6) = 6
  BY <1>5, FS_AddElement
<1>7. IsFiniteSet(s7) /\ Cardinality(s7) = 7
  BY <1>6, FS_AddElement
<1>8. s7 = AllFields
  BY DEF AllFields
<1> HIDE DEF s7
<1> QED
  BY <1>7, <1>8, FS_Subset

(* The items of a collection are the bench's, once its files are identified *)
(* or of a size of their own, and none is empty without an identity.       *)
Countable(k) ==
    /\ SharingSize(present) \subseteq hashed
    /\ \A i \in present \ hashed : Beneath(i, k) => SizeOf[i] > 0

(* The items that a scorecard counts are those planted under its folder.   *)
LEMMA EvidenceIs ==
    ASSUME LearnInv, NEW k, Countable(k)
    PROVE  EvidenceItems(k, Rows) = Pics(ItemsUnder(k, BenchItems))
<1>1. EvidenceItems(k, Rows) = {ItemOf(i) : i \in Within(k)}
  BY ItemsAre DEF ItemsTold
<1>2. \A i \in present : i \in Within(k) <=> Beneath(i, k)
  BY DEF Within, Beneath
<1>3. \A i \in Within(k) : i \in present /\ ItemOf(i) = Pic(Alike(i))
  BY AlikeIs DEF Within
<1>4. \A i \in Within(k) : i \in hashed \cup Singles
  BY <1>2, <1>3 DEF Countable, Singles
<1>5. \A i \in Within(k) : Alike(i) \in ItemsUnder(k, BenchItems)
  <2>1. \A i \in Within(k) : i \in Alike(i) /\ Beneath(i, k)
    BY <1>2, <1>3, AlikeIs
  <2> QED
    BY <1>4, <2>1, BenchItemsAre DEF ItemsUnder
<1>6. \A a \in ItemsUnder(k, BenchItems) : \E i \in Within(k) : a = Alike(i)
  <2> SUFFICES ASSUME NEW a \in ItemsUnder(k, BenchItems) PROVE \E i \in Within(k) : a = Alike(i)
    OBVIOUS
  <2>1. PICK i \in a : Beneath(i, k)
    BY DEF ItemsUnder
  <2>2. PICK j \in present : a = Alike(j)
    BY BenchItemsAre DEF ItemsUnder, LearnInv, Singles
  <2>3. i \in present /\ Alike(i) = a
    BY <2>2, AlikeIs
  <2> QED
    BY <1>2, <2>1, <2>3
<1>7. {ItemOf(i) : i \in Within(k)} = {Pic(a) : a \in ItemsUnder(k, BenchItems)}
  BY <1>3, <1>5, <1>6
<1> QED
  BY <1>1, <1>7 DEF Pics

(* The bench's word for a share is the program's.                          *)
LEMMA SharesAreOne ==
    ASSUME NEW I, IsFiniteSet(I), NEW P \in SUBSET I
    PROVE  AllOf(Cardinality(P), Cardinality(I)) = ShareOf(I, P)
<1>1. AllOf(Cardinality(P), Cardinality(I)) =
        IF P = {} THEN "fail" ELSE IF P = I THEN "pass" ELSE "partial"
  BY AllOfCases
<1>2. /\ IsFiniteSet(P) /\ Cardinality(P) \in Nat
      /\ Cardinality(P) = Cardinality(I) <=> P = I
      /\ Cardinality(P) = 0 <=> P = {}
  BY FS_Subset, FS_CardinalityType, FS_EmptySet
<1>3. ShareOf(I, P) = IF P = {} THEN "fail" ELSE IF P = I THEN "pass" ELSE "partial"
  BY <1>2 DEF ShareOf
<1> QED
  BY <1>1, <1>3

LEMMA ShareIs ==
    ASSUME LearnInv, NEW k, Countable(k),
           NEW G \in SUBSET ItemsUnder(k, BenchItems)
    PROVE  Share(k, Pics(G)) = ShareOf(ItemsUnder(k, BenchItems), G)
<1> DEFINE U == ItemsUnder(k, BenchItems)
<1>1. U \in SUBSET BenchItems /\ G \in SUBSET BenchItems
  BY DEF ItemsUnder
<1>2. Cardinality(Pics(G)) = Cardinality(G) /\ Cardinality(Pics(U)) = Cardinality(U) /\ IsFiniteSet(U)
  BY <1>1, PicsCount
<1>3. Share(k, Pics(G)) = AllOf(Cardinality(G), Cardinality(U))
  BY <1>2, EvidenceIs DEF Share
<1>4. AllOf(Cardinality(G), Cardinality(U)) = ShareOf(U, G)
  <2>1. G \in SUBSET U
    OBVIOUS
  <2> HIDE DEF U
  <2> QED
    BY <1>2, <2>1, SharesAreOne
<1> QED
  BY <1>3, <1>4

FairCard(a, b, c, d) ==
    {<<"fair", 0, "F2", a>>, <<"fair", 0, "A1", b>>, <<"fair", 0, "R1.1", c>>, <<"fair", 0, "R1.2", d>>}

LEMMA FairOutcomes ==
    ASSUME NEW a, NEW b, NEW c, NEW d, NEW X, X = FairCard(a, b, c, d)
    PROVE  Outcome(X, "fair", "F2") = a /\ Outcome(X, "fair", "A1") = b
<1>1. \A x \in X : /\ x[3] = "F2" => x[4] = a
                   /\ x[3] = "A1" => x[4] = b
  BY DEF FairCard
<1>2. /\ \E x \in X : x[1] = "fair" /\ x[3] = "F2"
      /\ \E x \in X : x[1] = "fair" /\ x[3] = "A1"
  <2>1. <<"fair", 0, "F2", a>> \in X /\ <<"fair", 0, "A1", b>> \in X
    BY DEF FairCard
  <2> QED
    BY <2>1
<1> QED
  BY <1>1, <1>2 DEF Outcome

(* The scorecards are those the bench expects.                             *)
LEMMA CardsAsExpected ==
    ASSUME ReportsInv, SharingSize(present) \subseteq hashed PROVE CardsExpected(BenchItems)
<1>0. LearnInv
  BY DEF ReportsInv
<1> SUFFICES ASSUME NEW k \in DOMAIN ruled
             PROVE  LET ndsa  == Ndsa(k, Rows)
                        fair  == Fair(k, Rows)
                        under == ItemsUnder(k, BenchItems)
                        size  == Cardinality(entry[k])
                    IN  /\ \A x, y \in ndsa : x[1] = y[1] /\ x[2] = y[2] /\ x[3] = y[3] => x = y
                        /\ Outcome(fair, "fair", "F2") =
                             (IF size = 7 THEN "pass" ELSE IF size >= 4 THEN "partial" ELSE "fail")
                        /\ (\A i \in present \ hashed : Beneath(i, k) => SizeOf[i] > 0) =>
                             /\ Outcome(fair, "fair", "A1") = ShareOf(under, {g \in under : DevicesOf(g) # {}})
                             /\ Outcome(ndsa, "storage", "1a") = ShareOf(under, {g \in under : Cardinality(DevicesOf(g)) >= 2})
                             /\ Outcome(ndsa, "storage", "3a") = ShareOf(under, {g \in under : ZonesUnder(g) >= 2})
                             /\ Outcome(ndsa, "storage", "2a") =
                                  ShareOf(under, {g \in under : Cardinality(DevicesOf(g)) >= 3 /\ ZonesUnder(g) >= 2})
  BY DEF CardsExpected
<1> DEFINE E == EvidenceItems(k, Rows)
           U == ItemsUnder(k, BenchItems)
           s1a == Share(k, {g \in E : CopiesOf(g) >= 2})
           s1b == Share(k, {g \in E : DrivesOf(g) # {}})
           s2a == Share(k, {g \in E : CopiesOf(g) >= 3 /\ Cardinality(ZonesOf(g)) >= 2})
           s3a == Share(k, {g \in E : Cardinality(ZonesOf(g)) >= 2})
           s3b == LET drives == UNION {DrivesOf(g) : g \in E}
                  IN  AllOf(Cardinality({d \in drives : sheet[d].bought # Unknown}), Cardinality(drives))
           s4a == Share(k, {g \in E : Cardinality(ZonesOf(g)) >= 3})
           s4b == Share(k, {g \in E : Batches(g) >= 2})
           i1b == Share(k, {g \in E : Hashed(g)})
           i3a == Share(k, {g \in E : Verified(g)})
           i3b == PassIf(EverVerified(k, Rows))
           i3c == PassIf(\E g \in E : Hashed(g))
           m2a == Described(k, AllFields)
           m3b == PassIf(entry[k] = AllFields)
           r11 == PassIf("license" \in entry[k])
           r12 == Reusable(k)
<1>a. Ndsa(k, Rows) = NdsaCard(s1a, s1b, s2a, s3a, s3b, s4a, s4b, i1b, i3a, i3b, i3c, m2a, m3b)
  BY NdsaIs DEF NdsaTold
<1>b. Fair(k, Rows) = FairCard(m2a, s1b, r11, r12)
  BY <1>0, FairIs DEF FairTold, FairCard
<1> HIDE DEF s1a, s1b, s2a, s3a, s3b, s4a, s4b, i1b, i3a, i3b, i3c, m2a, m3b, r11, r12
<1>1. \A x, y \in Ndsa(k, Rows) : x[1] = y[1] /\ x[2] = y[2] /\ x[3] = y[3] => x = y
  BY <1>a, CriteriaOnce
<1>2. /\ Outcome(Fair(k, Rows), "fair", "F2") = Described(k, AllFields)
      /\ Outcome(Fair(k, Rows), "fair", "A1") = Share(k, {g \in E : DrivesOf(g) # {}})
  <2>1. Outcome(Fair(k, Rows), "fair", "F2") = m2a /\ Outcome(Fair(k, Rows), "fair", "A1") = s1b
    BY <1>b, FairOutcomes
  <2> QED
    BY <2>1 DEF m2a, s1b
<1>3. Described(k, AllFields) =
        (IF Cardinality(entry[k]) = 7 THEN "pass" ELSE IF Cardinality(entry[k]) >= 4 THEN "partial" ELSE "fail")
  <2>1. entry[k] \in SUBSET AllFields
    BY DEF ReportsInv, ReportsTyped
  <2>2. entry[k] = AllFields <=> Cardinality(entry[k]) = 7
    BY <2>1, FieldsCount
  <2> QED
    BY <2>2 DEF Described
<1>4. /\ Outcome(Ndsa(k, Rows), "storage", "1a") = Share(k, {g \in E : CopiesOf(g) >= 2})
      /\ Outcome(Ndsa(k, Rows), "storage", "2a") = Share(k, {g \in E : CopiesOf(g) >= 3 /\ Cardinality(ZonesOf(g)) >= 2})
      /\ Outcome(Ndsa(k, Rows), "storage", "3a") = Share(k, {g \in E : Cardinality(ZonesOf(g)) >= 2})
  <2>1. /\ Outcome(Ndsa(k, Rows), "storage", "1a") = s1a /\ Outcome(Ndsa(k, Rows), "storage", "2a") = s2a
        /\ Outcome(Ndsa(k, Rows), "storage", "3a") = s3a
    BY <1>a, StorageOutcomes
  <2> QED
    BY <2>1 DEF s1a, s2a, s3a
<1>5. ASSUME \A i \in present \ hashed : Beneath(i, k) => SizeOf[i] > 0
      PROVE  /\ Share(k, {g \in E : DrivesOf(g) # {}}) = ShareOf(U, {g \in U : DevicesOf(g) # {}})
             /\ Share(k, {g \in E : CopiesOf(g) >= 2}) = ShareOf(U, {g \in U : Cardinality(DevicesOf(g)) >= 2})
             /\ Share(k, {g \in E : Cardinality(ZonesOf(g)) >= 2}) = ShareOf(U, {g \in U : ZonesUnder(g) >= 2})
             /\ Share(k, {g \in E : CopiesOf(g) >= 3 /\ Cardinality(ZonesOf(g)) >= 2}) =
                  ShareOf(U, {g \in U : Cardinality(DevicesOf(g)) >= 3 /\ ZonesUnder(g) >= 2})
  <2>1. Countable(k)
    BY <1>5 DEF Countable
  <2>2. E = {Pic(a) : a \in U}
    BY <1>0, <2>1, EvidenceIs DEF Pics
  <2>3. \A a \in U : /\ DrivesOf(Pic(a)) = DevicesOf(a)
                     /\ Cardinality(ZonesOf(Pic(a))) = ZonesUnder(a)
                     /\ CopiesOf(Pic(a)) >= 2 <=> Cardinality(DevicesOf(a)) >= 2
                     /\ CopiesOf(Pic(a)) >= 3 <=> Cardinality(DevicesOf(a)) >= 3
    <3> SUFFICES ASSUME NEW a \in U
                 PROVE  /\ DrivesOf(Pic(a)) = DevicesOf(a)
                        /\ Cardinality(ZonesOf(Pic(a))) = ZonesUnder(a)
                        /\ CopiesOf(Pic(a)) >= 2 <=> Cardinality(DevicesOf(a)) >= 2
                        /\ CopiesOf(Pic(a)) >= 3 <=> Cardinality(DevicesOf(a)) >= 3
      OBVIOUS
    <3>1. a \in SUBSET present
      BY <1>0, ItemSize DEF ItemsUnder
    <3>2. DrivesOf(Pic(a)) = DevicesOf(a)
      BY <1>0, <3>1, PicIs
    <3>3. IsFiniteSet(DevicesOf(a))
      BY <1>0, <3>1, HomesKnown, ItemsFinite
    <3>4. Cardinality(ZonesOf(Pic(a))) = ZonesUnder(a)
      BY <3>2 DEF ZonesOf, ZonesUnder
    <3>5. CopiesOf(Pic(a)) = Max({1, Cardinality(DevicesOf(a))})
      BY <3>2 DEF CopiesOf
    <3> QED
      BY <3>2, <3>3, <3>4, <3>5, CopiesCount
  <2> DEFINE G1 == {g \in U : DevicesOf(g) # {}}
             G2 == {g \in U : Cardinality(DevicesOf(g)) >= 2}
             G3 == {g \in U : ZonesUnder(g) >= 2}
             G4 == {g \in U : Cardinality(DevicesOf(g)) >= 3 /\ ZonesUnder(g) >= 2}
  <2>4. /\ {g \in E : DrivesOf(g) # {}} = Pics(G1)
        /\ {g \in E : CopiesOf(g) >= 2} = Pics(G2)
        /\ {g \in E : Cardinality(ZonesOf(g)) >= 2} = Pics(G3)
        /\ {g \in E : CopiesOf(g) >= 3 /\ Cardinality(ZonesOf(g)) >= 2} = Pics(G4)
    <3> HIDE DEF E, U
    <3>1. {g \in E : DrivesOf(g) # {}} = Pics(G1)
      BY <2>2, <2>3 DEF Pics
    <3>2. {g \in E : CopiesOf(g) >= 2} = Pics(G2)
      BY <2>2, <2>3 DEF Pics
    <3>3. {g \in E : Cardinality(ZonesOf(g)) >= 2} = Pics(G3)
      BY <2>2, <2>3 DEF Pics
    <3>4. {g \in E : CopiesOf(g) >= 3 /\ Cardinality(ZonesOf(g)) >= 2} = Pics(G4)
      BY <2>2, <2>3 DEF Pics
    <3> QED
      BY <3>1, <3>2, <3>3, <3>4
  <2>5. G1 \in SUBSET U /\ G2 \in SUBSET U /\ G3 \in SUBSET U /\ G4 \in SUBSET U
    OBVIOUS
  <2> HIDE DEF G1, G2, G3, G4, E
  <2>6. /\ Share(k, Pics(G1)) = ShareOf(U, G1) /\ Share(k, Pics(G2)) = ShareOf(U, G2)
        /\ Share(k, Pics(G3)) = ShareOf(U, G3) /\ Share(k, Pics(G4)) = ShareOf(U, G4)
    BY <1>0, <2>1, <2>5, ShareIs
  <2> QED
    BY <2>4, <2>6 DEF G1, G2, G3, G4
<1> HIDE DEF E, U
<1> QED
  BY <1>1, <1>2, <1>3, <1>4, <1>5 DEF U

(* What the bench works out by itself is what the program says.            *)
LEMMA BenchAgreeing == ASSUME ReportsInv PROVE BenchAgrees
<1>1. RatesExpected
  BY RatesAre
<1>2. ASSUME SharingSize(present) \subseteq hashed
      PROVE  LossExpected(BenchItems) /\ CoverageExpected(BenchItems) /\ CardsExpected(BenchItems)
  BY <1>2, LossAsExpected, CoverageAsExpected, CardsAsExpected
<1> QED
  BY <1>1, <1>2 DEF BenchAgrees

(* The browser shows as many copies of a file as there are drives that     *)
(* hold it.                                                                *)
LEMMA ShownAsHeld ==
    \A r \in Rows : r.content # NoContent => Shown(Rows, r) = Max({1, Cardinality(HeldOn(Rows, r))})
BY DEF Shown, HeldOn, DrivesProven, DrivesOf

(* The items are the groups of one content and the files of a size of      *)
(* their own, which are none of the groups.                                *)
Alone(rows) == {{r} : r \in SingleCopyFiles(rows)}

(* Items are the groups and the files that are alone.                      *)
LEMMA ItemsSplit ==
    ASSUME LearnInv
    PROVE  /\ Items(Rows) = ContentGroups(Rows) \cup Alone(Rows)
           /\ ContentGroups(Rows) \cap Alone(Rows) = {}
           /\ IsFiniteSet(ContentGroups(Rows)) /\ IsFiniteSet(Alone(Rows))
           /\ IsFiniteSet(SingleCopyFiles(Rows))
           /\ \A g \in ContentGroups(Rows) : g # {} /\ g \in SUBSET Rows /\ \A r \in g : r.content # NoContent
           /\ \A g, h \in ContentGroups(Rows) : g \cap h # {} => g = h
           /\ \A r \in Rows : r.size \in Nat
<1>1. Items(Rows) = ContentGroups(Rows) \cup Alone(Rows)
  BY DEF Items, Alone
<1>2. \A g \in ContentGroups(Rows) : g # {} /\ g \in SUBSET Rows /\ \A r \in g : r.content # NoContent
  BY DEF ContentGroups, Live
<1>3. \A g \in Alone(Rows) : \E r \in g : r.content = NoContent
  BY DEF Alone, SingleCopyFiles
<1>4. \A g, h \in ContentGroups(Rows) : g \cap h # {} => g = h
  BY DEF ContentGroups
<1>5. \A r \in Rows : r.size \in Nat
  BY RowsAre, RowTold DEF RowsTold
<1>6. IsFiniteSet(ContentGroups(Rows)) /\ IsFiniteSet(Alone(Rows))
  BY <1>1, ItemsFinite, FS_Subset
<1>7. IsFiniteSet(SingleCopyFiles(Rows))
  <2>1. SingleCopyFiles(Rows) \in SUBSET Rows
    BY DEF SingleCopyFiles
  <2> QED
    BY <2>1, ItemsFinite, FS_Subset
<1>8. ContentGroups(Rows) \cap Alone(Rows) = {}
  BY <1>2, <1>3
<1> QED
  BY <1>1, <1>2, <1>4, <1>5, <1>6, <1>7, <1>8

(* An item's representative is one of its files, and its drives are        *)
(* drives.                                                                 *)
LEMMA ItemKnown ==
    ASSUME ReportsInv, NEW g \in Items(Rows)
    PROVE  /\ Representative(g) \in g /\ Representative(g) \in Rows /\ Representative(g).size \in Nat
           /\ DrivesOf(g) \in SUBSET DriveIds
<1>0. LearnInv
  BY DEF ReportsInv
<1>1. PICK a \in BenchItems : g = Pic(a)
  BY <1>0, ItemsPictured
<1>2. a \in SUBSET present /\ a # {} /\ DrivesOf(g) = DevicesOf(a) /\ g \in SUBSET Rows
  BY <1>0, <1>1, ItemSize, PicIs
<1>3. g # {}
  BY <1>1, <1>2 DEF Pic
<1>4. Representative(g) \in g
  BY <1>3 DEF Representative
<1>5. DrivesOf(g) \in SUBSET DriveIds
  BY <1>2, HomesKnown
<1> QED
  BY <1>0, <1>2, <1>4, <1>5, ItemsSplit

(* Under-protected are the items that are thinly held.                     *)
LEMMA UnderIsThin ==
    ASSUME ReportsInv, NEW n \in Nat
    PROVE  UnderProtected(Rows, homeOf, n) = {g \in Items(Rows) : ThinlyHeld(g, n)}
<1>1. \A g : ThinlyHeld(g, n) <=> DrivesProven(g, homeOf) < n
  BY DEF ThinlyHeld, DrivesProven, DrivesOf
<1>2. ASSUME NEW r PROVE ThinlyHeld({r}, n) <=> n > 1
  <2>1. DrivesOf({r}) = {} \/ DrivesOf({r}) = {homeOf[r.vol]}
    BY DEF DrivesOf
  <2>2. Cardinality(DrivesOf({r})) = 0 \/ Cardinality(DrivesOf({r})) = 1
    BY <2>1, FS_EmptySet, FS_Singleton
  <2>3. Max({1, 0}) = 1 /\ Max({1, 1}) = 1
    BY GreaterOfTwo
  <2> QED
    BY <2>2, <2>3 DEF ThinlyHeld
<1>3. Items(Rows) = ContentGroups(Rows) \cup {{r} : r \in SingleCopyFiles(Rows)}
  BY DEF Items
<1>4. {g \in Items(Rows) : ThinlyHeld(g, n)}
        = {g \in ContentGroups(Rows) : DrivesProven(g, homeOf) < n}
            \cup (IF n > 1 THEN {{r} : r \in SingleCopyFiles(Rows)} ELSE {})
  BY <1>1, <1>2, <1>3
<1> QED
  BY <1>4 DEF UnderProtected

(* What the expected loss counts by sets of drives comes to what coverage  *)
(* counts by items.                                                        *)
SumOver(exposure, field) == SumFunction([S \in DOMAIN exposure |-> exposure[S][field]])

LossIn(I) == SumFunction([g \in I |-> Representative(g).size * SetRisk(Fleet, DrivesOf(g))])

(* The sum by drives of what would be lost with each is the sum of what    *)
(* has one device.                                                         *)
LEMMA ExposureSums ==
    ASSUME ReportsInv, NEW exposure, exposure = Exposure(Items(Rows))
    PROVE  /\ SumOver(exposure, "items") = Cardinality(Items(Rows))
           /\ SumOver(exposure, "bytes") = BytesIn(Items(Rows))
           /\ LossAYear(exposure) = LossIn(Items(Rows))
<1> DEFINE I == Items(Rows)
           K == {DrivesOf(g) : g \in I}
           part == [S \in K |-> {g \in I : DrivesOf(g) = S}]
           key == [g \in I |-> DrivesOf(g)]
           one == [g \in I |-> 1]
           size == [g \in I |-> Representative(g).size]
           loss == [g \in I |-> Representative(g).size * SetRisk(Fleet, DrivesOf(g))]
           items == [S \in K |-> exposure[S]["items"]]
           bytes == [S \in K |-> exposure[S]["bytes"]]
           risks == [S \in K |-> exposure[S].bytes * SetRisk(Fleet, S)]
<1>0. LearnInv
  BY DEF ReportsInv
<1>1. IsFiniteSet(I) /\ IsFiniteSet(K)
  <2>1. IsFiniteSet(I)
    BY <1>0, ItemsFinite
  <2>2. DOMAIN key = I /\ K = {key[g] : g \in I}
    OBVIOUS
  <2> HIDE DEF key, K, I
  <2> QED
    BY <2>1, <2>2, ImageFinite
<1>2. DOMAIN exposure = K
  BY DEF Exposure
<1>3. ASSUME NEW S \in K
      PROVE  /\ part[S] \in SUBSET I /\ IsFiniteSet(part[S]) /\ S \in SUBSET DriveIds
             /\ exposure[S].items = Cardinality(part[S])
             /\ exposure[S].bytes = SumFunction([g \in part[S] |-> Representative(g).size])
  <2>1. part[S] = {g \in I : DrivesOf(g) = S}
    OBVIOUS
  <2>2. /\ exposure[S].items = Cardinality({g \in I : DrivesOf(g) = S})
        /\ exposure[S].bytes = SumFunction([g \in {h \in I : DrivesOf(h) = S} |-> Representative(g).size])
    BY DEF Exposure
  <2>3. part[S] \in SUBSET I
    BY <2>1
  <2>4. IsFiniteSet(part[S])
    BY <1>1, <2>3, FS_Subset
  <2>5. S \in SUBSET DriveIds
    BY ItemKnown
  <2> HIDE DEF part, I, K
  <2> QED
    BY <2>1, <2>2, <2>3, <2>4, <2>5
<1>4. \A g \in I : /\ key[g] \in K /\ one[g] = 1 /\ one[g] \in Int
                   /\ size[g] = Representative(g).size /\ size[g] \in Int
                   /\ loss[g] = size[g] * SetRisk(Fleet, key[g]) /\ loss[g] \in Int
  <2> SUFFICES ASSUME NEW g \in I
               PROVE  /\ key[g] \in K /\ one[g] = 1 /\ one[g] \in Int
                      /\ size[g] = Representative(g).size /\ size[g] \in Int
                      /\ loss[g] = size[g] * SetRisk(Fleet, key[g]) /\ loss[g] \in Int
    OBVIOUS
  <2>1. Representative(g).size \in Int /\ DrivesOf(g) \in SUBSET DriveIds
    BY ItemKnown
  <2>2. SetRisk(Fleet, DrivesOf(g)) \in Int
    BY <2>1, RiskNat
  <2>3. \A x, y \in Int : x * y \in Int
    OBVIOUS
  <2>4. Representative(g).size * SetRisk(Fleet, DrivesOf(g)) \in Int
    BY <2>1, <2>2, <2>3
  <2>5. key[g] = DrivesOf(g) /\ DrivesOf(g) \in K
    OBVIOUS
  <2> QED
    BY <2>1, <2>4, <2>5
<1>5. \A S \in K : part[S] \in SUBSET I /\ \A g \in I : g \in part[S] <=> key[g] = S
  OBVIOUS
<1>6. ASSUME NEW S \in K
      PROVE  /\ items[S] = Total(one, part[S]) /\ bytes[S] = Total(size, part[S])
             /\ risks[S] = Total(loss, part[S])
  <2>1. items[S] = exposure[S].items /\ bytes[S] = exposure[S].bytes /\ risks[S] = exposure[S].bytes * SetRisk(Fleet, S)
    OBVIOUS
  <2> DEFINE f == [g \in part[S] |-> Representative(g).size]
  <2>2. DOMAIN f = part[S] /\ \A g \in part[S] : f[g] = Representative(g).size
    OBVIOUS
  <2>3. exposure[S].items = Cardinality(part[S]) /\ exposure[S].bytes = SumFunction(f)
    BY <1>3
  <2>4. part[S] \in SUBSET I /\ IsFiniteSet(part[S]) /\ S \in SUBSET DriveIds
    BY <1>3
  <2> HIDE DEF f, I, K, part, key, one, size, loss, items, bytes, risks
  <2>5. SumFunction(f) = Total(f, part[S])
    BY <2>2, SumIsTotal
  <2>6. \A g \in part[S] : f[g] = size[g]
    BY <1>4, <2>2, <2>4
  <2>7. Total(f, part[S]) = Total(size, part[S])
    BY ONLY <2>4, <2>6, TotalSame
  <2>8. Total(one, part[S]) = Cardinality(part[S])
    <3>1. \A g \in part[S] : one[g] = 1
      BY <1>4, <2>4
    <3> QED
      BY ONLY <3>1, <2>4, TotalOnes
  <2>9. Total(loss, part[S]) = Total(size, part[S]) * SetRisk(Fleet, S)
    <3> DEFINE c == SetRisk(Fleet, S)
    <3>1. c \in Int
      BY <2>4, RiskNat
    <3>2. \A g \in part[S] : size[g] \in Int /\ loss[g] = size[g] * c
      BY <1>4, <1>5, <2>4
    <3> HIDE DEF c
    <3>3. Total(loss, part[S]) = Total(size, part[S]) * c
      BY ONLY <2>4, <3>1, <3>2, TotalScaled
    <3> QED
      BY <3>3 DEF c
  <2> QED
    BY <2>1, <2>3, <2>5, <2>7, <2>8, <2>9
<1>7. DOMAIN items = K /\ DOMAIN bytes = K /\ DOMAIN risks = K /\ DOMAIN size = I /\ DOMAIN loss = I
  OBVIOUS
<1>8. /\ SumOver(exposure, "items") = SumFunction(items) /\ SumOver(exposure, "bytes") = SumFunction(bytes)
      /\ LossAYear(exposure) = SumFunction(risks)
  BY <1>2 DEF SumOver, LossAYear
<1>9. BytesIn(I) = SumFunction(size) /\ LossIn(I) = SumFunction(loss)
  BY DEF BytesIn, LossIn
<1> HIDE DEF I, K, part, key, one, size, loss, items, bytes, risks
<1>10. Total(items, K) = Total(one, I)
  <2>1. \A g \in I : one[g] \in Int /\ key[g] \in K
    BY <1>4
  <2> QED
    BY <1>1, <1>5, <1>6, <2>1, TotalGrouped
<1>11. Total(bytes, K) = Total(size, I)
  <2>1. \A g \in I : size[g] \in Int /\ key[g] \in K
    BY <1>4
  <2> QED
    BY <1>1, <1>5, <1>6, <2>1, TotalGrouped
<1>12. Total(risks, K) = Total(loss, I)
  <2>1. \A g \in I : loss[g] \in Int /\ key[g] \in K
    BY <1>4
  <2> QED
    BY <1>1, <1>5, <1>6, <2>1, TotalGrouped
<1>13. Total(one, I) = Cardinality(I)
  BY <1>1, <1>4, TotalOnes
<1>14. /\ SumFunction(items) = Total(items, K) /\ SumFunction(bytes) = Total(bytes, K)
       /\ SumFunction(risks) = Total(risks, K) /\ SumFunction(size) = Total(size, I)
       /\ SumFunction(loss) = Total(loss, I)
  BY <1>7, SumIsTotal
<1>15. /\ SumOver(exposure, "items") = Cardinality(I) /\ SumOver(exposure, "bytes") = BytesIn(I)
       /\ LossAYear(exposure) = LossIn(I)
  BY <1>8, <1>9, <1>10, <1>11, <1>12, <1>13, <1>14
<1> QED
  BY <1>15 DEF I

(* The summary counts the groups and the single files apart.               *)
LEMMA SummarySums ==
    ASSUME ReportsInv
    PROVE  /\ Cardinality(ContentGroups(Rows)) + Cardinality(SingleCopyFiles(Rows)) = Cardinality(Items(Rows))
           /\ SizeSum({Representative(g) : g \in ContentGroups(Rows)}) + SizeSum(SingleCopyFiles(Rows))
                = BytesIn(Items(Rows))
<1> DEFINE I == Items(Rows)
           C == ContentGroups(Rows)
           A == Alone(Rows)
           F == SingleCopyFiles(Rows)
           R == {Representative(g) : g \in C}
           one == [g \in I |-> 1]
           oneF == [r \in F |-> 1]
           size == [g \in I |-> Representative(g).size]
           sizeF == [r \in F |-> r.size]
           sizeR == [r \in R |-> r.size]
           b == [r \in F |-> {r}]
           rep == [g \in C |-> Representative(g)]
<1>0. LearnInv
  BY DEF ReportsInv
<1>1. /\ I = C \cup A /\ C \cap A = {} /\ IsFiniteSet(C) /\ IsFiniteSet(A) /\ IsFiniteSet(F)
      /\ \A g, h \in C : g \cap h # {} => g = h
      /\ \A r \in Rows : r.size \in Nat
  BY <1>0, ItemsSplit
<1>2. I \cap C = C /\ I \ C = A /\ IsFiniteSet(I)
  <2>1. IsFiniteSet(I)
    BY <1>0, ItemsFinite
  <2> QED
    BY <1>1, <2>1
<1>3. \A g \in I : /\ one[g] = 1 /\ size[g] = Representative(g).size /\ size[g] \in Nat /\ Representative(g) \in g
  BY ItemKnown
<1>4. A = {b[r] : r \in F} /\ \A r, q \in F : b[r] = b[q] => r = q
  BY DEF Alone
<1>5. \A r \in F : /\ oneF[r] = 1 /\ sizeF[r] = r.size /\ b[r] = {r} /\ b[r] \in A
                   /\ Representative(b[r]) = r /\ r.size \in Nat
  <2>1. \A r \in F : r \in Rows
    BY DEF SingleCopyFiles
  <2>2. \A r : Representative({r}) = r
    BY DEF Representative
  <2> QED
    BY <1>1, <1>4, <2>1, <2>2
<1>6. R = {rep[g] : g \in C} /\ \A g \in C : rep[g] = Representative(g)
  OBVIOUS
<1>7. \A g, h \in C : rep[g] = rep[h] => g = h
  BY <1>1, <1>3, <1>6
<1>8. \A r \in R : sizeR[r] = r.size
  OBVIOUS
<1>9. DOMAIN size = I /\ DOMAIN sizeF = F /\ DOMAIN sizeR = R
  OBVIOUS
<1>10. BytesIn(I) = SumFunction(size) /\ SizeSum(F) = SumFunction(sizeF) /\ SizeSum(R) = SumFunction(sizeR)
  BY DEF BytesIn, SizeSum
<1>11. \A g \in C : rep[g] \in R /\ size[g] \in Int /\ size[g] = sizeR[rep[g]]
  <2>1. \A g \in C : g \in I /\ rep[g] \in R
    BY <1>1, <1>6
  <2> HIDE DEF I, C, A, F, R, one, oneF, size, sizeF, sizeR, b, rep
  <2> QED
    BY <1>3, <1>6, <1>8, <2>1
<1> HIDE DEF I, C, A, F, R, one, oneF, size, sizeF, sizeR, b, rep
<1>12. Total(one, I) = Total(one, C) + Total(one, A)
  <2>1. \A g \in I : one[g] \in Int
    BY <1>3
  <2>2. Total(one, I) = Total(one, I \cap C) + Total(one, I \ C)
    BY ONLY <1>2, <2>1, TotalSplit
  <2> QED
    BY <1>2, <2>2
<1>13. Total(size, I) = Total(size, C) + Total(size, A)
  <2>1. \A g \in I : size[g] \in Int
    BY <1>3
  <2>2. Total(size, I) = Total(size, I \cap C) + Total(size, I \ C)
    BY ONLY <1>2, <2>1, TotalSplit
  <2> QED
    BY <1>2, <2>2
<1>14. Total(one, I) = Cardinality(I) /\ Total(one, C) = Cardinality(C) /\ Total(oneF, F) = Cardinality(F)
  <2>1. (\A g \in I : one[g] = 1) /\ (\A g \in C : one[g] = 1) /\ \A r \in F : oneF[r] = 1
    BY <1>1, <1>3, <1>5
  <2> QED
    BY ONLY <1>1, <1>2, <2>1, TotalOnes
<1>15. Total(oneF, F) = Total(one, A)
  <2>1. \A r \in F : oneF[r] \in Int /\ oneF[r] = one[b[r]]
    BY <1>1, <1>3, <1>5
  <2> QED
    BY ONLY <1>1, <1>4, <2>1, TotalMapped
<1>16. Total(sizeF, F) = Total(size, A)
  <2>1. \A r \in F : sizeF[r] \in Int /\ sizeF[r] = size[b[r]]
    BY <1>1, <1>3, <1>5
  <2> QED
    BY ONLY <1>1, <1>4, <2>1, TotalMapped
<1>17. Total(size, C) = Total(sizeR, R)
  BY ONLY <1>1, <1>6, <1>7, <1>11, TotalMapped
<1>18. SumFunction(size) = Total(size, I) /\ SumFunction(sizeF) = Total(sizeF, F) /\ SumFunction(sizeR) = Total(sizeR, R)
  BY <1>9, SumIsTotal
<1>19. Cardinality(C) + Cardinality(F) = Cardinality(I)
  BY <1>12, <1>14, <1>15
<1>20. SizeSum(R) + SizeSum(F) = BytesIn(I)
  BY <1>10, <1>13, <1>16, <1>17, <1>18
<1> QED
  BY <1>19, <1>20 DEF I, C, F, R

(* The elements of two sets apart are counted one after the other.         *)
LEMMA CountApart ==
    ASSUME NEW S, IsFiniteSet(S), NEW T, IsFiniteSet(T), S \cap T = {}
    PROVE  Cardinality(S \cup T) = Cardinality(S) + Cardinality(T)
<1>1. Cardinality(S \cap T) = 0
  BY FS_EmptySet
<1>2. Cardinality(S \cup T) = Cardinality(S) + Cardinality(T) - Cardinality(S \cap T)
  BY FS_Union
<1>3. Cardinality(S) \in Int /\ Cardinality(T) \in Int
  BY FS_CardinalityType
<1> QED
  BY <1>1, <1>2, <1>3

LEMMA BucketSplits ==
    ASSUME ReportsInv, NEW n \in Nat, NEW X \in SUBSET Items(Rows)
    PROVE  \A part \in DOMAIN Bucket(Items(Rows), n) :
              Bucket(Items(Rows), n)[part] = Bucket(X, n)[part] + Bucket(Items(Rows) \ X, n)[part]
<1> DEFINE I == Items(Rows)
           Y == I \ X
           thin(J) == {g \in J : ThinlyHeld(g, n)}
           size == [g \in I |-> Representative(g).size]
           loss == [g \in I |-> Representative(g).size * SetRisk(Fleet, DrivesOf(g))]
<1>1. IsFiniteSet(I) /\ IsFiniteSet(X) /\ IsFiniteSet(Y)
  <2>1. IsFiniteSet(I)
    BY ItemsFinite DEF ReportsInv
  <2>2. X \in SUBSET I /\ Y \in SUBSET I
    OBVIOUS
  <2> HIDE DEF I, Y
  <2> QED
    BY <2>1, <2>2, FS_Subset
<1>2. \A g \in I : /\ size[g] = Representative(g).size /\ size[g] \in Int /\ loss[g] \in Int
                   /\ loss[g] = Representative(g).size * SetRisk(Fleet, DrivesOf(g))
  <2> SUFFICES ASSUME NEW g \in I
               PROVE  Representative(g).size \in Int /\ Representative(g).size * SetRisk(Fleet, DrivesOf(g)) \in Int
    OBVIOUS
  <2>1. Representative(g).size \in Int /\ DrivesOf(g) \in SUBSET DriveIds
    BY ItemKnown
  <2>2. SetRisk(Fleet, DrivesOf(g)) \in Int
    BY <2>1, RiskNat
  <2>3. \A x, y \in Int : x * y \in Int
    OBVIOUS
  <2> QED
    BY <2>1, <2>2, <2>3
<1>3. X \in SUBSET I /\ Y \in SUBSET I /\ I \cap X = X /\ I \ X = Y
  OBVIOUS
<1>4. ASSUME NEW J \in SUBSET I, IsFiniteSet(J)
      PROVE  BytesIn(J) = Total(size, J) /\ LossIn(J) = Total(loss, J)
  <2> DEFINE s == [g \in J |-> Representative(g).size]
             l == [g \in J |-> Representative(g).size * SetRisk(Fleet, DrivesOf(g))]
  <2>1. DOMAIN s = J /\ DOMAIN l = J /\ \A g \in J : s[g] = size[g] /\ l[g] = loss[g]
    OBVIOUS
  <2>2. BytesIn(J) = SumFunction(s) /\ LossIn(J) = SumFunction(l)
    BY DEF BytesIn, LossIn
  <2> HIDE DEF s, l, size, loss
  <2>3. SumFunction(s) = Total(s, J) /\ SumFunction(l) = Total(l, J)
    BY <2>1, SumIsTotal
  <2>4. Total(s, J) = Total(size, J) /\ Total(l, J) = Total(loss, J)
    BY <1>4, <2>1, TotalSame
  <2> QED
    BY <2>2, <2>3, <2>4
<1>5. \A J : /\ Bucket(J, n).items = Cardinality(J) /\ Bucket(J, n).bytes = BytesIn(J)
             /\ Bucket(J, n).loss = LossIn(J) /\ Bucket(J, n).under = Cardinality(thin(J))
             /\ DOMAIN Bucket(J, n) = {"items", "bytes", "loss", "under"}
  BY DEF Bucket, BytesIn, LossIn
<1>6. /\ thin(I) = thin(X) \cup thin(Y) /\ thin(X) \cap thin(Y) = {}
      /\ IsFiniteSet(thin(X)) /\ IsFiniteSet(thin(Y))
  <2>1. thin(X) \in SUBSET X /\ thin(Y) \in SUBSET Y
    OBVIOUS
  <2>2. IsFiniteSet(thin(X)) /\ IsFiniteSet(thin(Y))
    <3> HIDE DEF thin, Y
    <3> QED
      BY <1>1, <2>1, FS_Subset
  <2> QED
    BY <2>2
<1> HIDE DEF I, Y, thin, size, loss
<1>7. Total(size, I) = Total(size, X) + Total(size, Y)
  <2>1. \A g \in I : size[g] \in Int
    BY <1>2
  <2>2. Total(size, I) = Total(size, I \cap X) + Total(size, I \ X)
    BY ONLY <1>1, <2>1, TotalSplit
  <2> QED
    BY <1>3, <2>2
<1>8. Total(loss, I) = Total(loss, X) + Total(loss, Y)
  <2>1. \A g \in I : loss[g] \in Int
    BY <1>2
  <2>2. Total(loss, I) = Total(loss, I \cap X) + Total(loss, I \ X)
    BY ONLY <1>1, <2>1, TotalSplit
  <2> QED
    BY <1>3, <2>2
<1>9. /\ BytesIn(I) = BytesIn(X) + BytesIn(Y) /\ LossIn(I) = LossIn(X) + LossIn(Y)
  BY <1>1, <1>3, <1>4, <1>7, <1>8
<1>10. Cardinality(I) = Cardinality(X) + Cardinality(Y)
  <2>1. I = X \cup Y /\ X \cap Y = {}
    BY <1>3
  <2> QED
    BY <1>1, <2>1, CountApart
<1>11. Cardinality(thin(I)) = Cardinality(thin(X)) + Cardinality(thin(Y))
  BY <1>6, CountApart
<1>12. ASSUME NEW part \in {"items", "bytes", "loss", "under"}
       PROVE  Bucket(I, n)[part] = Bucket(X, n)[part] + Bucket(Y, n)[part]
  <2>1. CASE part = "items"
    BY <1>5, <1>10, <2>1
  <2>2. CASE part = "bytes"
    BY <1>5, <1>9, <2>2
  <2>3. CASE part = "loss"
    BY <1>5, <1>9, <2>3
  <2>4. CASE part = "under"
    BY <1>5, <1>11, <2>4
  <2> QED
    BY <2>1, <2>2, <2>3, <2>4
<1> QED
  BY <1>5, <1>12 DEF I, Y

(* The summary, the expected loss, the coverage and the ranking.           *)
LEMMA ReportsAgreeing ==
    ASSUME ReportsInv, NEW n \in Nat
    PROVE  ReportsAgree(Rows, Items(Rows), Exposure(Items(Rows)), n)
<1> DEFINE items == Items(Rows)
           exposure == Exposure(items)
           summary == RedundancySummary(Rows, homeOf, n)
           coverage == Coverage(items, n)
           filed == {g \in items : Filers(g) # {}}
<1>1. /\ SumFunction([S \in DOMAIN exposure |-> exposure[S]["items"]]) = Cardinality(items)
      /\ SumFunction([S \in DOMAIN exposure |-> exposure[S]["bytes"]]) = BytesIn(items)
      /\ LossAYear(exposure) = LossIn(items)
  BY ExposureSums DEF SumOver
<1>2. /\ coverage.total = Bucket(items, n) /\ coverage.filed = Bucket(filed, n)
      /\ coverage.unfiled = Bucket(items \ filed, n)
  BY DEF Coverage
<1>3. /\ Bucket(items, n).items = Cardinality(items) /\ Bucket(items, n).bytes = BytesIn(items)
      /\ Bucket(items, n).loss = LossIn(items)
      /\ Bucket(items, n).under = Cardinality({g \in items : ThinlyHeld(g, n)})
  BY DEF Bucket, BytesIn, LossIn
<1>4. /\ summary.distinct = Cardinality(ContentGroups(Rows)) + Cardinality(SingleCopyFiles(Rows))
      /\ summary.uniqueBytes = SizeSum({Representative(g) : g \in ContentGroups(Rows)}) + SizeSum(SingleCopyFiles(Rows))
      /\ summary.exposed = Cardinality(UnderProtected(Rows, homeOf, n))
  BY DEF RedundancySummary
<1>5. UnderProtected(Rows, homeOf, n) = {g \in items : ThinlyHeld(g, n)}
  BY UnderIsThin
<1>6. Ranked(exposure, Rows, n) = UnderProtected(Rows, homeOf, n)
  <2>1. \A g \in items : DrivesOf(g) \in DOMAIN exposure
    BY DEF Exposure
  <2> HIDE DEF items, exposure
  <2> QED
    BY <1>5, <2>1 DEF Ranked
<1>7. \A part \in DOMAIN coverage.total : coverage.total[part] = coverage.filed[part] + coverage.unfiled[part]
  <2>1. filed \in SUBSET items
    OBVIOUS
  <2> HIDE DEF filed, coverage
  <2> QED
    BY <1>2, <2>1, BucketSplits
<1>8. summary.distinct = Cardinality(items) /\ summary.uniqueBytes = BytesIn(items)
  BY <1>4, SummarySums
<1> HIDE DEF summary, coverage, exposure, items
<1>9. /\ {SumFunction([S \in DOMAIN exposure |-> exposure[S]["items"]]), coverage.total.items} = {summary.distinct}
      /\ {SumFunction([S \in DOMAIN exposure |-> exposure[S]["bytes"]]), coverage.total.bytes} = {summary.uniqueBytes}
      /\ coverage.total.under = summary.exposed
      /\ coverage.total.loss = LossAYear(exposure)
  BY <1>1, <1>2, <1>3, <1>4, <1>5, <1>8
<1> QED
  BY <1>6, <1>7, <1>9 DEF ReportsAgree, summary, coverage, exposure, items

(* The sizes of some rows, as a sum of all rows' sizes.                    *)
RowSizes == [r \in Rows |-> r.size]

(* The bytes of a set of rows are the total of their sizes.                *)
LEMMA SizesSum ==
    ASSUME LearnInv, NEW J \in SUBSET Rows
    PROVE  SizeSum(J) = Total(RowSizes, J) /\ IsFiniteSet(J) /\ \A r \in J : RowSizes[r] = r.size /\ r.size \in Nat
<1> DEFINE s == [r \in J |-> r.size]
<1>1. IsFiniteSet(J) /\ \A r \in J : r \in Rows /\ r.size \in Nat
  BY ItemsFinite, ItemsSplit, FS_Subset
<1>2. DOMAIN s = J /\ \A r \in J : s[r] = RowSizes[r] /\ RowSizes[r] = r.size
  BY DEF RowSizes
<1>3. SizeSum(J) = SumFunction(s)
  BY DEF SizeSum
<1> HIDE DEF s
<1>4. SumFunction(s) = Total(s, J)
  BY <1>2, SumIsTotal
<1>5. Total(s, J) = Total(RowSizes, J)
  BY <1>1, <1>2, TotalSame
<1> QED
  BY <1>1, <1>2, <1>3, <1>4, <1>5

(* The volumes' bytes are those the summary counts, those that wait for a  *)
(* hash, and none of an empty file.                                        *)
LEMMA InventoryAgrees ==
    ASSUME ReportsInv
    PROVE  SumFunction([v \in AllVolumes |-> Inventory(Rows)[v].bytes])
             = RedundancySummary(Rows, homeOf, 2).pathBytes + SizeSum(Unhashed(Rows))
<1> DEFINE R == Rows
           L == Live(R)
           F == SingleCopyFiles(R)
           W == Unhashed(R)
           rest == (R \ L) \ F
           empty == rest \ W
           volumes == [v \in AllVolumes |-> Inventory(R)[v].bytes]
           part == [v \in AllVolumes |-> {r \in R : r.vol = v}]
           key == [r \in R |-> r.vol]
<1>0. LearnInv
  BY DEF ReportsInv
<1>1. IsFiniteSet(R) /\ \A r \in R : RowSizes[r] = r.size /\ r.size \in Nat /\ r.size \in Int /\ RowSizes[r] \in Int
  BY <1>0, SizesSum
<1>2. IsFiniteSet(AllVolumes)
  <2> DEFINE f == [d \in Tree |-> VolumeOf[d]]
  <2>1. DOMAIN f = Tree /\ AllVolumes = {f[d] : d \in Tree}
    BY DEF AllVolumes
  <2> HIDE DEF f
  <2> QED
    BY <2>1, TreeAssumption, ImageFinite
<1>3. \A r \in R : r.vol \in AllVolumes
  <2>1. \A i \in present : RowOf(i).vol \in AllVolumes
    BY <1>0, RowSays, AssessmentAssumption DEF AllVolumes, LearnInv
  <2> QED
    BY <2>1, RowsAre DEF RowsTold
<1>4. SumFunction(volumes) = Total(RowSizes, R)
  <2>1. DOMAIN volumes = AllVolumes
    OBVIOUS
  <2>2. ASSUME NEW v \in AllVolumes
        PROVE  /\ part[v] \in SUBSET R /\ \A r \in R : r \in part[v] <=> key[r] = v
               /\ volumes[v] = Total(RowSizes, part[v])
    <3>1. part[v] \in SUBSET R /\ \A r \in R : r \in part[v] <=> key[r] = v
      OBVIOUS
    <3>2. volumes[v] = SizeSum(part[v])
      BY DEF Inventory
    <3>3. SizeSum(part[v]) = Total(RowSizes, part[v])
      <4> HIDE DEF part
      <4> QED
        BY <1>0, <3>1, SizesSum
    <3> QED
      BY <3>1, <3>2, <3>3
  <2>3. \A r \in R : key[r] \in AllVolumes
    BY <1>3
  <2>4. \A r \in R : RowSizes[r] \in Int
    BY <1>1
  <2> HIDE DEF volumes, part, key, R
  <2>5. Total(volumes, AllVolumes) = Total(RowSizes, R)
    <3>1. \A v \in AllVolumes : part[v] \in SUBSET R /\ \A r \in R : r \in part[v] <=> key[r] = v
      BY <2>2
    <3>2. \A v \in AllVolumes : volumes[v] = Total(RowSizes, part[v])
      BY <2>2
    <3>3. IsFiniteSet(R)
      BY <1>1
    <3> QED
      BY ONLY <3>3, <1>2, <3>1, <3>2, <2>3, <2>4, TotalGrouped
  <2> QED
    BY <2>1, <2>5, SumIsTotal
<1>5. /\ R \cap L = L /\ (R \ L) \cap F = F /\ rest \cap W = W
      /\ L \in SUBSET R /\ F \in SUBSET R /\ W \in SUBSET R /\ R \ L \in SUBSET R /\ rest \in SUBSET R /\ empty \in SUBSET R
      /\ \A r \in empty : r.size = 0
  <2>1. \A r \in R : /\ r \in L <=> r.content # NoContent
                     /\ r \in F <=> r.content = NoContent /\ r.size > 0 /\ UniqueSize(R, r)
                     /\ r \in W <=> r.content = NoContent /\ ~UniqueSize(R, r)
    BY DEF Live, SingleCopyFiles, Unhashed
  <2>2. L \in SUBSET R /\ F \in SUBSET R /\ W \in SUBSET R
    BY DEF Live, SingleCopyFiles, Unhashed
  <2>3. \A r \in empty : r.size = 0
    BY <1>1, <2>1
  <2> HIDE DEF R, L, F, W
  <2> QED
    BY <2>1, <2>2, <2>3
<1>6. \A J \in SUBSET R : SizeSum(J) = Total(RowSizes, J) /\ IsFiniteSet(J) /\ \A r \in J : RowSizes[r] = r.size /\ r.size \in Nat
  BY <1>0, SizesSum
<1>7. RedundancySummary(R, homeOf, 2).pathBytes = SizeSum(L) + SizeSum(F)
  BY DEF RedundancySummary
<1> HIDE DEF R, L, F, W
<1>8. \A J \in SUBSET R : \A P : Total(RowSizes, J) = Total(RowSizes, J \cap P) + Total(RowSizes, J \ P)
  <2> SUFFICES ASSUME NEW J \in SUBSET R, NEW P
               PROVE  Total(RowSizes, J) = Total(RowSizes, J \cap P) + Total(RowSizes, J \ P)
    OBVIOUS
  <2>1. IsFiniteSet(J) /\ \A r \in J : RowSizes[r] \in Int
    BY <1>1, <1>6
  <2> QED
    BY ONLY <2>1, TotalSplit
<1>9. /\ Total(RowSizes, R) = Total(RowSizes, L) + Total(RowSizes, R \ L)
      /\ Total(RowSizes, R \ L) = Total(RowSizes, F) + Total(RowSizes, rest)
      /\ Total(RowSizes, rest) = Total(RowSizes, W) + Total(RowSizes, empty)
  <2>1. R \in SUBSET R
    OBVIOUS
  <2> QED
    BY <1>5, <1>8, <2>1
<1>10. Total(RowSizes, empty) = 0
  <2>1. IsFiniteSet(empty) /\ \A r \in empty : RowSizes[r] = 0
    BY <1>5, <1>6
  <2> HIDE DEF empty
  <2> QED
    BY <2>1, TotalZeros
<1>11. Total(RowSizes, L) \in Int /\ Total(RowSizes, F) \in Int /\ Total(RowSizes, W) \in Int
  <2>1. \A J \in SUBSET R : IsFiniteSet(J) /\ \A r \in J : RowSizes[r] \in Int
    BY <1>1, <1>6
  <2> QED
    BY <1>5, <2>1, TotalInt
<1>12. SizeSum(L) = Total(RowSizes, L) /\ SizeSum(F) = Total(RowSizes, F) /\ SizeSum(W) = Total(RowSizes, W)
  BY <1>5, <1>6
<1>13. SumFunction(volumes) = SizeSum(L) + SizeSum(F) + SizeSum(W)
  <2> HIDE DEF volumes, rest, empty
  <2> QED
    BY <1>4, <1>9, <1>10, <1>11, <1>12
<1> QED
  BY <1>7, <1>13 DEF R, W

(* The copies of an item are its drives, and one when no drive is known.   *)
LEMMA CopiesAre ==
    ASSUME NEW g, IsFiniteSet(DrivesOf(g))
    PROVE  /\ CopiesOf(g) \in Nat
           /\ CopiesOf(g) = IF DrivesOf(g) = {} THEN 1 ELSE Cardinality(DrivesOf(g))
           /\ CopiesOf(g) >= 2 <=> ~ThinlyHeld(g, 2)
<1> DEFINE n == Cardinality(DrivesOf(g))
<1>1. n \in Nat /\ (n = 0 <=> DrivesOf(g) = {})
  BY FS_CardinalityType, FS_EmptySet
<1>2. CopiesOf(g) = Max({1, n}) /\ (ThinlyHeld(g, 2) <=> Max({1, n}) < 2)
  BY DEF CopiesOf, ThinlyHeld
<1> HIDE DEF n
<1>3. Max({1, n}) = IF n = 0 THEN 1 ELSE n
  BY <1>1, GreaterOfTwo
<1> QED
  BY <1>1, <1>2, <1>3 DEF n

(* By the scorecard a collection has two copies of everything when each of *)
(* its items has.                                                          *)
Doubled(k) == \A i \in Within(k) : CopiesOf(ItemOf(i)) >= 2

(* A collection passes when it has members and each has two copies.        *)
LEMMA PassesIs ==
    ASSUME ReportsInv, NEW k \in DOMAIN ruled
    PROVE  /\ Outcome(Ndsa(k, Rows), "storage", "1a") = "pass" <=> Within(k) # {} /\ Doubled(k)
           /\ MembersOf(k, Rows) = {RowOf(i) : i \in Within(k)} /\ Within(k) \in SUBSET present
<1> DEFINE E == EvidenceItems(k, Rows)
           P == {g \in E : CopiesOf(g) >= 2}
           s1b == Share(k, {g \in E : DrivesOf(g) # {}})
           s2a == Share(k, {g \in E : CopiesOf(g) >= 3 /\ Cardinality(ZonesOf(g)) >= 2})
           s3a == Share(k, {g \in E : Cardinality(ZonesOf(g)) >= 2})
           s3b == LET drives == UNION {DrivesOf(g) : g \in E}
                  IN  AllOf(Cardinality({d \in drives : sheet[d].bought # Unknown}), Cardinality(drives))
           s4a == Share(k, {g \in E : Cardinality(ZonesOf(g)) >= 3})
           s4b == Share(k, {g \in E : Batches(g) >= 2})
           i1b == Share(k, {g \in E : Hashed(g)})
           i3a == Share(k, {g \in E : Verified(g)})
           i3b == PassIf(EverVerified(k, Rows))
           i3c == PassIf(\E g \in E : Hashed(g))
           m2a == Described(k, AllFields)
           m3b == PassIf(entry[k] = AllFields)
           s1a == Share(k, P)
<1>0. LearnInv
  BY DEF ReportsInv
<1>1. Ndsa(k, Rows) = NdsaCard(s1a, s1b, s2a, s3a, s3b, s4a, s4b, i1b, i3a, i3b, i3c, m2a, m3b)
  BY NdsaIs DEF NdsaTold
<1> HIDE DEF s1b, s2a, s3a, s3b, s4a, s4b, i1b, i3a, i3b, i3c, m2a, m3b, s1a
<1>2. Outcome(Ndsa(k, Rows), "storage", "1a") = s1a
  BY <1>1, StorageOutcomes
<1>3. E = {ItemOf(i) : i \in Within(k)} /\ Within(k) \in SUBSET present
  BY <1>0, ItemsAre DEF ItemsTold, Within
<1>4. IsFiniteSet(E)
  <2> DEFINE f == [i \in Within(k) |-> ItemOf(i)]
  <2>1. DOMAIN f = Within(k) /\ E = {f[i] : i \in Within(k)}
    BY <1>3
  <2>2. IsFiniteSet(Within(k))
    BY <1>0, <1>3, ItemsFinite, FS_Subset
  <2> HIDE DEF f, E
  <2> QED
    BY <2>1, <2>2, ImageFinite
<1>5. s1a = IF P = {} THEN "fail" ELSE IF P = E THEN "pass" ELSE "partial"
  <2>1. P \in SUBSET E
    OBVIOUS
  <2>2. s1a = AllOf(Cardinality(P), Cardinality(E))
    BY DEF Share, s1a
  <2> HIDE DEF P, E
  <2> QED
    BY <1>4, <2>1, <2>2, AllOfCases
<1>6. s1a = "pass" <=> E # {} /\ \A g \in E : CopiesOf(g) >= 2
  BY <1>5
<1>7. (E # {} /\ \A g \in E : CopiesOf(g) >= 2) <=> Within(k) # {} /\ Doubled(k)
  BY <1>3 DEF Doubled
<1>8. MembersOf(k, Rows) = {RowOf(i) : i \in Within(k)}
  <2>1. \A i \in present : RowOf(i).dir = FolderOfSlot[i]
    BY <1>0, RowSays
  <2> QED
    BY <2>1, RowsAre DEF RowsTold, MembersOf, Within
<1> QED
  BY <1>2, <1>3, <1>6, <1>7, <1>8

(* A file not hashed has fewer than two copies, and one hashed is in one   *)
(* group.                                                                  *)
LEMMA ThinWhere ==
    ASSUME ReportsInv, NEW i \in present
    PROVE  /\ IsFiniteSet(DrivesOf(ItemOf(i)))
           /\ i \notin hashed => CopiesOf(ItemOf(i)) < 2
           /\ i \in hashed => /\ ItemOf(i) \in ContentGroups(Rows) /\ RowOf(i) \in ItemOf(i)
                              /\ \A g \in Items(Rows) : RowOf(i) \in g => g = ItemOf(i)
<1>0. LearnInv
  BY DEF ReportsInv
<1>1. Alike(i) \in SUBSET present /\ i \in Alike(i) /\ ItemOf(i) = Pic(Alike(i))
  BY <1>0, AlikeIs
<1>2. DrivesOf(ItemOf(i)) \in SUBSET DriveIds
  BY <1>0, <1>1, PicIs, HomesKnown
<1>3. IsFiniteSet(DrivesOf(ItemOf(i)))
  BY <1>0, <1>2, ItemsFinite
<1>4. ASSUME i \notin hashed PROVE CopiesOf(ItemOf(i)) < 2
  <2>1. ItemOf(i) = {RowOf(i)}
    BY <1>4 DEF ItemOf, Alike
  <2>2. DrivesOf(ItemOf(i)) = {} \/ DrivesOf(ItemOf(i)) = {homeOf[RowOf(i).vol]}
    BY <2>1 DEF DrivesOf
  <2>3. Cardinality({homeOf[RowOf(i).vol]}) = 1
    BY FS_Singleton
  <2>4. CopiesOf(ItemOf(i)) = 1
    BY <1>3, <2>2, <2>3, CopiesAre
  <2> QED
    BY <2>4
<1>5. ASSUME i \in hashed
      PROVE  /\ ItemOf(i) \in ContentGroups(Rows) /\ RowOf(i) \in ItemOf(i)
             /\ \A g \in Items(Rows) : RowOf(i) \in g => g = ItemOf(i)
  <2>1. Alike(i) \in Groups
    BY <1>5, BenchItemsAre
  <2>2. ItemOf(i) \in ContentGroups(Rows)
    BY <1>0, <1>1, <2>1, GroupsPictured
  <2>3. RowOf(i) \in ItemOf(i)
    BY <1>1 DEF Pic
  <2>4. RowOf(i).content # NoContent
    BY <1>0, <1>5, RowSays
  <2>5. \A g \in Alone(Rows) : \A r \in g : r.content = NoContent
    BY DEF Alone, SingleCopyFiles
  <2>6. \A g \in ContentGroups(Rows) : RowOf(i) \in g => g = ItemOf(i)
    BY <1>0, <2>2, <2>3, ItemsSplit
  <2>7. Items(Rows) = ContentGroups(Rows) \cup Alone(Rows)
    BY <1>0, ItemsSplit
  <2> QED
    BY <2>2, <2>3, <2>4, <2>5, <2>6, <2>7
<1> QED
  BY <1>3, <1>4, <1>5

(* A collection passes when nothing of it is under-protected.              *)
LEMMA PassesIsProtected ==
    ASSUME ReportsInv, NEW k \in DOMAIN ruled
    PROVE  (Within(k) # {} /\ Doubled(k)) <=>
              /\ MembersOf(k, Rows) # {} /\ \A r \in MembersOf(k, Rows) : r.content # NoContent
              /\ \A g \in UnderProtected(Rows, homeOf, 2) : g \cap MembersOf(k, Rows) = {}
<1> DEFINE M == MembersOf(k, Rows)
<1>0. LearnInv
  BY DEF ReportsInv
<1>1. M = {RowOf(i) : i \in Within(k)} /\ Within(k) \in SUBSET present
  BY PassesIs
<1>2. UnderProtected(Rows, homeOf, 2) = {g \in Items(Rows) : ThinlyHeld(g, 2)}
  BY UnderIsThin
<1>3. \A i \in Within(k) : /\ RowOf(i).content # NoContent <=> i \in hashed
                           /\ CopiesOf(ItemOf(i)) \in Nat
                           /\ CopiesOf(ItemOf(i)) >= 2 <=> ~ThinlyHeld(ItemOf(i), 2)
                           /\ i \notin hashed => CopiesOf(ItemOf(i)) < 2
  BY <1>0, <1>1, RowSays, ThinWhere, CopiesAre
<1>4. \A i \in Within(k) : i \in hashed =>
         /\ ItemOf(i) \in Items(Rows) /\ RowOf(i) \in ItemOf(i)
         /\ \A g \in Items(Rows) : RowOf(i) \in g => g = ItemOf(i)
  BY <1>0, <1>1, ThinWhere, ItemsSplit
<1> HIDE DEF M
<1>5. ASSUME Within(k) # {}, Doubled(k)
      PROVE  M # {} /\ (\A r \in M : r.content # NoContent) /\ \A g \in UnderProtected(Rows, homeOf, 2) : g \cap M = {}
  <2>1. \A i \in Within(k) : i \in hashed /\ ~ThinlyHeld(ItemOf(i), 2)
    BY <1>3, <1>5 DEF Doubled
  <2>2. M # {} /\ \A r \in M : r.content # NoContent
    BY <1>1, <1>3, <1>5, <2>1
  <2>3. ASSUME NEW g \in UnderProtected(Rows, homeOf, 2), NEW r \in g \cap M PROVE FALSE
    <3>1. PICK i \in Within(k) : r = RowOf(i)
      BY <1>1
    <3>2. g \in Items(Rows) /\ ThinlyHeld(g, 2)
      BY <1>2
    <3> QED
      BY <1>4, <2>1, <3>1, <3>2
  <2> QED
    BY <2>2, <2>3
<1>6. ASSUME M # {}, \A r \in M : r.content # NoContent, \A g \in UnderProtected(Rows, homeOf, 2) : g \cap M = {}
      PROVE  Within(k) # {} /\ Doubled(k)
  <2>1. Within(k) # {}
    BY <1>1, <1>6
  <2>2. ASSUME NEW i \in Within(k) PROVE CopiesOf(ItemOf(i)) >= 2
    <3>1. RowOf(i) \in M
      BY <1>1
    <3>2. i \in hashed
      BY <1>3, <1>6, <3>1
    <3>3. ItemOf(i) \notin UnderProtected(Rows, homeOf, 2)
      BY <1>4, <1>6, <3>1, <3>2
    <3> QED
      BY <1>2, <1>3, <1>4, <3>2, <3>3
  <2> QED
    BY <2>1, <2>2 DEF Doubled
<1> QED
  BY <1>5, <1>6 DEF M

(* The planner's unit of the only collection is its members, and its       *)
(* copies are the fewest that an item of them has.                         *)
LEMMA UnitIsMembers ==
    ASSUME ReportsInv, Len(ruled) = 1, NEW k \in DOMAIN ruled
    PROVE  UnitFiles(AsPlanned, <<"collection", k>>) = MembersOf(k, Rows)
<1>0. LearnInv
  BY DEF ReportsInv
<1>1. DOMAIN ruled = {1} /\ k = 1
  <2>1. DOMAIN ruled = 1 .. Len(ruled)
    BY AssessmentAssumption DEF ReportsInv, ReportsTyped
  <2> QED
    BY <2>1
<1>2. AsPlanned.files = Rows /\ AsPlanned.rules = ruled
  BY DEF AsPlanned
<1>3. \A r \in Rows : r.dir \in Tree
  <2>1. \A i \in present : RowOf(i).dir \in Tree
    BY <1>0, RowSays, AssessmentAssumption DEF LearnInv
  <2> QED
    BY <2>1, RowsAre DEF RowsTold
<1>4. ASSUME NEW d \in Tree
      PROVE  UnitOf(AsPlanned, d) = <<"collection", k>> <=> d \in Subtree(ruled[k].dir)
  <2>1. Filing(AsPlanned, d) = IF d \in Subtree(ruled[k].dir) THEN {1} ELSE {}
    BY <1>1, <1>2 DEF Filing, Subtree
  <2>2. CASE d \in Subtree(ruled[k].dir)
    <3>1. Max({1}) = 1
      BY DEF Max
    <3>2. UnitOf(AsPlanned, d) = <<"collection", Max(Filing(AsPlanned, d))>>
      BY <2>1, <2>2 DEF UnitOf, Filed
    <3> QED
      BY <1>1, <2>1, <2>2, <3>1, <3>2
  <2>3. CASE d \notin Subtree(ruled[k].dir)
    <3>1. ~Filed(AsPlanned, d)
      BY <2>1, <2>3 DEF Filed
    <3>2. UnitOf(AsPlanned, d)[1] \in {"folder", "loose"}
      BY <3>1 DEF UnitOf
    <3> QED
      BY <2>3, <3>2
  <2> QED
    BY <2>2, <2>3
<1>5. \A r \in Rows : UnitOf(AsPlanned, r.dir) = <<"collection", k>> <=> r.dir \in Subtree(ruled[k].dir)
  BY <1>3, <1>4
<1> QED
  BY <1>2, <1>5 DEF UnitFiles, MembersOf

(* The drives that the planner finds a file on are its item's.             *)
LEMMA HeldIs ==
    ASSUME ReportsInv, NEW i \in present
    PROVE  Held(AsPlanned, RowOf(i)) = DrivesOf(ItemOf(i))
<1>0. LearnInv
  BY DEF ReportsInv
<1> DEFINE R == {RowOf(i)} \cup {h \in Rows : h.content # NoContent /\ h.content = RowOf(i).content}
<1>1. AsPlanned.files = Rows /\ AsPlanned.driveOf = [d \in Tree |-> homeOf[VolumeOf[d]]]
  BY DEF AsPlanned
<1>2. \A r \in Rows : AsPlanned.driveOf[r.dir] = homeOf[r.vol]
  <2>1. \A j \in present : /\ RowOf(j).dir = FolderOfSlot[j] /\ FolderOfSlot[j] \in Tree
                           /\ RowOf(j).vol = VolumeOf[FolderOfSlot[j]]
    BY <1>0, RowSays, AssessmentAssumption DEF LearnInv
  <2>2. \A j \in present : AsPlanned.driveOf[RowOf(j).dir] = homeOf[RowOf(j).vol]
    BY <1>1, <2>1
  <2> QED
    BY <2>2, RowsAre DEF RowsTold
<1>3. R = ItemOf(i)
  <2>1. CASE i \notin hashed
    <3>1. RowOf(i).content = NoContent
      BY <1>0, <2>1, RowSays
    <3> QED
      BY <2>1, <3>1 DEF ItemOf, Alike
  <2>2. CASE i \in hashed
    <3>1. RowOf(i).content = BytesOf[i] /\ RowOf(i).content # NoContent
      BY <1>0, <2>2, RowSays
    <3>2. \A j \in present : (RowOf(j).content # NoContent /\ RowOf(j).content = BytesOf[i]) <=> j \in Alike(i)
      BY <1>0, <2>2, <3>1, RowSays DEF Alike, LearnInv
    <3>3. Alike(i) \in SUBSET present /\ i \in Alike(i)
      BY <1>0, AlikeIs
    <3>4. {h \in Rows : h.content # NoContent /\ h.content = BytesOf[i]} = {RowOf(j) : j \in Alike(i)}
      BY <3>2, <3>3, RowsAre DEF RowsTold
    <3> QED
      BY <3>1, <3>3, <3>4 DEF ItemOf
  <2> QED
    BY <2>1, <2>2
<1>4. R \in SUBSET Rows
  BY <1>0, RowSays
<1>5. {AsPlanned.driveOf[g.dir] : g \in R} = {homeOf[r.vol] : r \in R}
  <2> HIDE DEF R
  <2> QED
    BY <1>2, <1>4
<1>6. Held(AsPlanned, RowOf(i)) = {AsPlanned.driveOf[g.dir] : g \in R} \ {NoDrive}
  BY <1>1 DEF Held
<1> QED
  BY <1>3, <1>5, <1>6 DEF DrivesOf

(* The scorecard of a collection, its package and its plan agree.          *)
LEMMA CollectionsAgreeing ==
    ASSUME ReportsInv, NEW k \in DOMAIN ruled PROVE CollectionsAgree(Rows, k)
<1> DEFINE M == MembersOf(k, Rows)
           passes == Outcome(Ndsa(k, Rows), "storage", "1a") = "pass"
           whole == <<"collection", k>>
           planned == UnitRecord(AsPlanned, whole, {1})
<1>1. passes <=> Within(k) # {} /\ Doubled(k)
  BY PassesIs
<1>2. M = {RowOf(i) : i \in Within(k)} /\ Within(k) \in SUBSET present
  BY PassesIs
<1>3. passes <=> /\ M # {} /\ \A r \in M : r.content # NoContent
                 /\ \A g \in UnderProtected(Rows, homeOf, 2) : g \cap M = {}
  BY <1>1, PassesIsProtected
<1>4. ASSUME M # {}, Len(ruled) = 1
      PROVE  (passes <=> planned.copies[{}] >= 2) /\ planned.bytes = SizeSum(M)
  <2>1. UnitFiles(AsPlanned, whole) = M
    BY <1>4, UnitIsMembers
  <2> DEFINE sets == {Held(AsPlanned, f) : f \in UnitFiles(AsPlanned, whole)}
             CopiesFor(s) == Cardinality(s \cup {}) + (IF s = {} THEN 1 ELSE 0)
             counts == {CopiesFor(s) : s \in sets}
  <2>2. planned.bytes = SizeSum(M) /\ planned.copies[{}] = Min(counts)
    <3>1. planned.bytes = SizeSum(UnitFiles(AsPlanned, whole)) /\ planned.copies = [A \in SUBSET DriveIds |-> CopiesWith(sets, A)]
      BY DEF UnitRecord
    <3>2. planned.copies[{}] = CopiesWith(sets, {})
      BY <3>1
    <3>3. CopiesWith(sets, {}) = Min(counts)
      BY DEF CopiesWith
    <3> QED
      BY <2>1, <3>1, <3>2, <3>3
  <2>3. ASSUME NEW i \in Within(k)
        PROVE  CopiesFor(Held(AsPlanned, RowOf(i))) = CopiesOf(ItemOf(i)) /\ CopiesOf(ItemOf(i)) \in Nat
    <3> DEFINE s == DrivesOf(ItemOf(i))
    <3>1. i \in present
      BY <1>2
    <3>2. Held(AsPlanned, RowOf(i)) = s
      BY <3>1, HeldIs
    <3>3. IsFiniteSet(s)
      BY <3>1, ThinWhere
    <3>4. CopiesOf(ItemOf(i)) \in Nat /\ CopiesOf(ItemOf(i)) = IF s = {} THEN 1 ELSE Cardinality(s)
      BY <3>3, CopiesAre
    <3> HIDE DEF s
    <3>5. s \cup {} = s /\ Cardinality(s) \in Nat /\ (s = {} => Cardinality(s) = 0)
      BY <3>3, FS_CardinalityType, FS_EmptySet
    <3> QED
      BY <3>2, <3>4, <3>5
  <2> HIDE DEF CopiesFor
  <2>4. sets = {Held(AsPlanned, RowOf(i)) : i \in Within(k)}
    BY <1>2, <2>1
  <2>5. counts = {CopiesOf(ItemOf(i)) : i \in Within(k)}
    <3> HIDE DEF sets
    <3> QED
      BY <2>3, <2>4
  <2>6. counts \in SUBSET Nat /\ counts # {}
    <3> HIDE DEF counts
    <3> QED
      BY <1>2, <1>4, <2>3, <2>5
  <2>7. Min(counts) \in counts /\ \A x \in counts : Min(counts) <= x
    <3> HIDE DEF counts
    <3> QED
      BY <2>6, LeastOf
  <2> HIDE DEF counts
  <2>8. Doubled(k) <=> \A x \in counts : x >= 2
    BY <2>5 DEF Doubled
  <2>9. Doubled(k) <=> Min(counts) >= 2
    <3> DEFINE least == Min(counts)
    <3>1. least \in Nat /\ least \in counts /\ \A x \in counts : least <= x
      BY <2>6, <2>7
    <3> HIDE DEF least
    <3>2. (\A x \in counts : x >= 2) <=> least >= 2
      BY <2>6, <3>1
    <3> QED
      BY <2>8, <3>2 DEF least
  <2>10. Within(k) # {}
    BY <1>2, <1>4
  <2> QED
    BY <1>1, <2>2, <2>9, <2>10
<1> QED
  BY <1>3, <1>4 DEF CollectionsAgree

(* The program's reports are one, and the bench's answer is theirs.        *)
LEMMA AnswersAreOne == ASSUME ReportsInv PROVE OneAnswer
<1>1. \A n \in 1 .. 3 : ReportsAgree(Rows, Items(Rows), Exposure(Items(Rows)), n)
  BY ReportsAgreeing
<1>2. \A k \in DOMAIN ruled : CollectionsAgree(Rows, k)
  BY CollectionsAgreeing
<1>3. SumFunction([v \in AllVolumes |-> Inventory(Rows)[v].bytes])
        = RedundancySummary(Rows, homeOf, 2).pathBytes + SizeSum(Unhashed(Rows))
  BY InventoryAgrees
<1>4. \A d \in DriveIds : Verdict(health[d]) \in {"OK", "FAILING"} =>
          health[d].confidence = "measured" /\ (health[d].passed # "no" => SmartFactor(health[d].signs) <= 10 * SectorFactor["crc"])
  BY VerdictsHold
<1>5. \A r \in Rows : r.content # NoContent => Shown(Rows, r) = Max({1, Cardinality(HeldOn(Rows, r))})
  BY ShownAsHeld
<1>6. ReportsAreOne
  BY ONLY <1>1, <1>2, <1>3, <1>4, <1>5 DEF ReportsAreOne
<1> QED
  BY <1>6, BenchAgreeing DEF OneAnswer

(* One catalog has one answer.  The summary, the expected loss, coverage,  *)
(* the scorecards, packages, the browser, the inventory and the planner    *)
(* agree with each other (core/analysis, core/health, core/curate,         *)
(* core/fair, core/export), and with the bench's arithmetic                *)
(* (vv/oracle.py), whatever files, drives, rates and facts there are.      *)
THEOREM OneAnswerStands == AssessmentSpec => []OneAnswer
<1>1. ReportsInv => OneAnswer
  BY AnswersAreOne
<1> QED
  BY <1>1, AlwaysReports, PTL

================================================================================
