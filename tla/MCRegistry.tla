------------------------------ MODULE MCRegistry ------------------------------
(***************************************************************************)
(* The drive table, the scope roots, the planner and the reports for TLC.  *)
(* They keep separate variables, so a behaviour moves one of them and      *)
(* leaves the others at an initial state: the states to check are the sum  *)
(* of the four, not the product.                                           *)
(*                                                                         *)
(* Disk d2 is a clone of d1, with the same layout; d3 has two volumes, and *)
(* a layout that is its own.  Volume a has a folder "x" with a file, and a *)
(* file beside it; volume b has such a folder too.                         *)
(*                                                                         *)
(* The planner's catalogs have a volume with folder r, a in it and b in a, *)
(* on drive 1 or on a drive that nobody identified, and folder s on drive  *)
(* 2, with one file in each; which of them are copies of another, which    *)
(* are filed, and the room and risk of three drives vary.                  *)
(***************************************************************************)
EXTENDS Drives, Roots, PlanDocument, BenchReports

CONSTANT Topics

VARIABLE topic

MCDisks   == {"d1", "d2", "d3"}
Alike     == Permutations(Writers) \cup Permutations(Programs)
MCVolumes == {"v1", "v2", "v3", "w3"}
MCDiskOf  == [v \in MCVolumes |->
                CASE v = "v1" -> "d1" [] v = "v2" -> "d2" [] OTHER -> "d3"]
MCSerial  == [d \in MCDisks |-> CASE d = "d1" -> "S1" [] d = "d2" -> "S2" [] OTHER -> "S3"]
MCLayout  == [d \in MCDisks |-> IF d = "d3" THEN "M" ELSE "L"]

MCVols    == {"a", "b"}
TwoLetters == {"E", "F"}
TwoPaths  == {<<"E">>, <<"E", "x">>}
MCPaths   == {<<"E">>, <<"E", "x">>, <<"F">>}
MCFilesOn == [v \in MCVols |-> IF v = "a" THEN {<<"x", "f">>, <<"g">>} ELSE {<<"x", "h">>}]

MCTree == {"r", "a", "b", "s"}
MCOver == [d \in MCTree |-> CASE d = "a" -> {"r"} [] d = "b" -> {"a", "r"} [] OTHER -> {}]
MCUnitKeys ==
    {<<kind, d>> : kind \in {"folder", "loose"}, d \in MCTree} \cup {<<"collection", i>> : i \in 1 .. 2}

File(d, size, content) ==
    [id |-> d, vol |-> IF d = "s" THEN 2 ELSE 1, frn |-> NoFrn, dir |-> d,
     size |-> size, content |-> content]

Contents == {<<NoContent, NoContent, NoContent, NoContent>>, <<"x", "y", "z", "y">>,
             <<NoContent, "y", "z", "z">>}
Sizes == {<<1, 1, 1, 3>>, <<3, 1, 2, 1>>, <<0, 2, 2, 2>>}
InA(n) == [dir |-> "a", minCopies |-> n, ndsa |-> 2]
InB    == [dir |-> "b", minCopies |-> 0, ndsa |-> 1]
MCCatalogs ==
    {[files   |-> {File("r", z[1], c[1]), File("a", z[2], c[2]),
                   File("b", z[3], c[3]), File("s", z[4], c[4])},
      driveOf |-> [d \in MCTree |-> IF d = "s" THEN 2 ELSE home],
      rules   |-> rules] :
        z \in Sizes, c \in Contents, home \in {0, 1},
        rules \in {<<>>, <<InB>>, <<InA(0), InB>>, <<InB, InA(2)>>}}

MCDrive(free, cluster, rate, batch, zone) ==
    [retired |-> FALSE, working |-> FALSE, rate |-> rate, batch |-> batch, zone |-> zone,
     volumes |-> {[id |-> 1, free |-> free, capacity |-> 10, cluster |-> cluster],
                  [id |-> 2, free |-> 0, capacity |-> 10, cluster |-> 1]}]
MCFleets ==
    {<<MCDrive(f, 1, 10, "p", "home"), MCDrive(g, 2, r, "p", "home"), third>> :
        f \in {4, 9}, g \in {5}, r \in {10, 50},
        third \in {MCDrive(4, 1, 5, Unrecorded, Unrecorded), MCDrive(7, 2, 60, "p", "home"),
                   [MCDrive(9, 1, 5, "q", "home") EXCEPT !.retired = TRUE]}}

(* A file of no bytes alone in its folder, with a rule for the folder and  *)
(* one for the folder around, on which PlansPassTargets fails.             *)
MCHollow ==
    {[files   |-> {File("r", 2, NoContent), File("a", 2, "y"), File("b", 0, NoContent), File("s", 2, "y")},
      driveOf |-> [d \in MCTree |-> IF d = "s" THEN 2 ELSE 1], rules |-> rules] :
        rules \in {<<InA(2)>>, <<InA(2), InB>>}}

MCHollowInputs == {PlannerInput(c, drives) : c \in MCHollow, drives \in MCFleets}
MCInputs == {PlannerInput(c, drives) : c \in MCCatalogs, drives \in MCFleets}
MCIdle == PlannerInput([files |-> {}, driveOf |-> [d \in MCTree |-> NoDrive], rules |-> <<>>],
                       CHOOSE drives \in MCFleets : TRUE)

(* Two files alike, a third of their size, one of a size of its own and an *)
(* empty one, in the folders of the planner on two volumes.                *)
MCSlots == 1 .. 5
MCFolderOfSlot == <<"a", "s", "b", "s", "r">>
MCSizeOf  == <<2, 2, 2, 3, 0>>
MCBytesOf == <<"x", "x", "y", "z", "empty">>
MCVolumeOf == [d \in MCTree |-> IF d = "s" THEN "second" ELSE "first"]
MCRuleSets == {<<InA(0)>>, <<InA(0), InB>>}
MCBuilt == <<[line |-> "first", model |-> "plain", media |-> "hdd", bus |-> "usb"],
             [line |-> "first", model |-> "plain", media |-> "hdd", bus |-> "usb"],
             [line |-> "other", model |-> "known", media |-> "ssd", bus |-> "sata"]>>
MCBatchOf == [b \in {"first", "other"} \X {0} |-> b[1]]
MCAnswers ==
    LET Answer(unreadable, attributes, nvme, passed, signs, hours, life) ==
            [unreadable |-> unreadable, attributes |-> attributes, nvme |-> nvme,
             status |-> passed # "unsaid", passed |-> passed, signs |-> signs,
             hours |-> hours, life |-> life]
    IN  {Answer(TRUE, FALSE, FALSE, "unsaid", {}, Unknown, Unknown),
         Answer(TRUE, FALSE, FALSE, "yes", {}, Unknown, Unknown),
         Answer(FALSE, TRUE, FALSE, "no", FailingSigns, 2, Unknown),
         Answer(FALSE, TRUE, FALSE, "yes", {}, 4, Unknown),
         Answer(FALSE, TRUE, FALSE, "yes", {"few", "crc"}, Unknown, 5),
         Answer(FALSE, FALSE, TRUE, "no", {"uncorrectable"}, 1, 1),
         Answer(FALSE, TRUE, FALSE, "yes", {"crc"}, Unknown, Unknown)}
MCShipped  == [models |-> <<>>, classes |-> [hdd |-> 15, ssd |-> 10]]
MCImported == [models |-> [known |-> 4], classes |-> [hdd |-> 12]]
MCEntries  == {{"title", "license", "creators", "contact"},
               {"title", "description", "creators", "contact", "license", "data-type", "project"}}
MCAgeFactors ==
    [hdd |-> <<[from |-> 0, factor |-> 13], [from |-> 1, factor |-> 9], [from |-> 3, factor |-> 10]>>,
     ssd |-> <<[from |-> 0, factor |-> 12], [from |-> 1, factor |-> 10]>>]
MCDutyFactors ==
    [hdd |-> <<[from |-> 0, factor |-> 10], [from |-> 2, factor |-> 12], [from |-> 3, factor |-> 15]>>,
     ssd |-> <<[from |-> 0, factor |-> 30], [from |-> 1, factor |-> 15], [from |-> 5, factor |-> 10]>>]
MCBusFactor == [usb |-> 12, sata |-> 10]
MCSectorFactor == [pending |-> 100, uncorrectable |-> 50, many |-> 40, few |-> 20, crc |-> 12]

vars == <<driveVars, rootVars, plannerVars, assessmentVars, topic>>

Unassessed ==
    /\ present = {} /\ hashed = {} /\ homeOf = [v \in {"first", "second"} |-> NoDrive]
    /\ ruled = <<InA(0)>>

Idly == /\ given = MCIdle
        /\ phase = "made" /\ left = {} /\ current = NoUnit /\ at = 1
        /\ room = [d \in DriveIds |-> dest[d].room] /\ added = [u \in Units |-> {}]
        /\ plan = <<>> /\ short = [u \in Units |-> Missing(u, {})] /\ steps = <<>>

Init ==
    /\ topic \in Topics
    /\ DrivesInit /\ RootsInit /\ AssessmentInit
    /\ IF topic = "reports"
         THEN /\ present = Slots /\ homeOf["first"] \in {NoDrive, 1} /\ homeOf["second"] # 3
              /\ hashed # {} \/ ruled = <<InA(0)>>
         ELSE Unassessed
    /\ IF topic = "plans" THEN PlannerInit ELSE Idly

Next ==
    \/ topic = "drives" /\ DrivesNext /\ UNCHANGED <<rootVars, plannerVars, assessmentVars, topic>>
    \/ topic = "roots" /\ RootsNext /\ UNCHANGED <<driveVars, plannerVars, assessmentVars, topic>>
    \/ topic = "plans" /\ PlannerNext /\ UNCHANGED <<driveVars, rootVars, assessmentVars, topic>>
    \/ topic = "reports" /\ AssessmentNext /\ UNCHANGED <<driveVars, rootVars, plannerVars, topic>>

Spec == Init /\ [][Next]_vars

TypeOK == DrivesTypeOK /\ RootsTypeOK /\ PlannerTypeOK /\ AssessmentTypeOK
=============================================================================
