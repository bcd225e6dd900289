-------------------------------- MODULE MCDesk --------------------------------
(***************************************************************************)
(* What happens around the catalog on one computer, for TLC: the window    *)
(* and its tasks, the elevated helper and its caller, programs that bring  *)
(* an older catalog up to date, and the threads that read files.  They     *)
(* share no variable, so a behaviour moves one of them, its topic, and     *)
(* leaves the others at their initial states.  A topic's fairness is       *)
(* stated for its behaviours.                                              *)
(*                                                                         *)
(* The upgrade adds a column, drops a table that the DDL makes again, and  *)
(* has another table that is new.                                          *)
(***************************************************************************)
EXTENDS Window, Helper, Migration, Gateway

CONSTANT Topics

VARIABLE topic

MCSteps    == [v \in 2 .. 3 |-> IF v = 2 THEN <<[op |-> "add", part |-> "layout_id"]>>
                                         ELSE <<[op |-> "drop", part |-> "version_set"]>>]
MCOldParts == {"drive", "version_set"}
MCDdlParts == {"version_set", "export"}

(* Two files of a drive with one reader, and one of a drive with two; what *)
(* may come to a path: the other files, a link to a file of nobody's, a    *)
(* directory, and an object of a file system that gives no identity.       *)
MCReadPaths   == 1 .. 3
MCReadDrive   == <<"disk", "disk", "ssd">>
MCReaders     == [d \in {"disk", "ssd"} |-> IF d = "disk" THEN 1 ELSE 2]
MCObjects     == {"a", "b", "c", "other", "link", "folder"}
MCFirstAt     == <<"a", "b", "c">>
MCLinkTo      == [o \in {"link"} |-> "other"]
MCFirstNature == [o \in MCObjects |-> CASE o = "link" -> "link" [] o = "folder" -> "directory" [] OTHER -> "plain"]
MCId          == [o \in MCObjects |-> IF o = "c" THEN NoId ELSE o]

vars == <<windowVars, helperVars, migrationVars, gatewayVars, topic>>

(* One volume is enough where the helper does not move. *)
Init ==
    /\ WindowInit /\ HelperInit /\ MigrationInit /\ GatewayInit /\ topic \in Topics
    /\ topic = "helper" \/ (mode = "delta" /\ onVolume = [buffers |-> 0, ending |-> "denied", sound |-> TRUE])
    /\ topic = "gateway" \/ windows

InWindow(A)  == topic = "window" /\ A /\ UNCHANGED <<helperVars, migrationVars, gatewayVars, topic>>
InHelper(A)  == topic = "helper" /\ A /\ UNCHANGED <<windowVars, migrationVars, gatewayVars, topic>>
InUpgrade(A) == topic = "upgrade" /\ A /\ UNCHANGED <<windowVars, helperVars, gatewayVars, topic>>
InGateway(A) == topic = "gateway" /\ A /\ UNCHANGED <<windowVars, helperVars, migrationVars, topic>>
Next == InWindow(WindowNext) \/ InHelper(HelperNext) \/ InUpgrade(MigrationNext) \/ InGateway(GatewayNext)

Fairness ==
    /\ WF_vars(InWindow(UIStep))
    /\ \A w \in PoolThreads : WF_vars(InWindow(Run(w)))
    /\ \A t \in 1 .. MaxTasks : WF_vars(InWindow(End(t)))
    /\ WF_vars(InHelper(HelperStep))
    /\ WF_vars(InHelper(ParentStep))
    /\ \A o \in Openers : WF_vars(InUpgrade(OpenStep(o)))

Spec == Init /\ [][Next]_vars

FairSpec == Spec /\ Fairness

TypeOK == WindowTypeOK /\ HelperTypeOK /\ MigrationTypeOK /\ GatewayTypeOK

(* Everything answers: the helper's call ends, with the reason the helper  *)
(* gave if it failed (client.py), and a program that opens the catalog has *)
(* it open in the end (schema.py).                                         *)
EverythingAnswers ==
    /\ topic = "helper" => HelperAnswers
    /\ topic = "upgrade" => CatalogOpens
=============================================================================
