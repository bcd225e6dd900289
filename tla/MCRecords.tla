------------------------------- MODULE MCRecords ------------------------------
(***************************************************************************)
(* What the program writes besides full scans, for TLC: the records people *)
(* make in the catalog, export bundles, and delta rescans.  They share no  *)
(* variable, so a behaviour moves one of them, its topic, and leaves the   *)
(* others at an initial state.                                             *)
(*                                                                         *)
(* A project folder has two subfolders that hold files.  An export is of   *)
(* two kinds, one of two files and one without.                            *)
(***************************************************************************)
EXTENDS Records, Bundles, MCDelta

CONSTANT Topics

VARIABLE topic

MCFolders  == {"project", "survey", "notes"}
MCChildren == [f \in MCFolders |-> IF f = "project" THEN {"survey", "notes"} ELSE {}]

MCKinds    == <<"manifests", "collections">>
MCFilesOf  == [k \in {"manifests", "collections"} |-> IF k = "manifests" THEN <<"json", "md">> ELSE <<>>]

vars == <<recordVars, bundleVars, deltaVars, topic>>

Init == RecordsInit /\ BundlesInit /\ DeltaInit /\ topic \in Topics

Next ==
    \/ topic = "records" /\ RecordsNext /\ UNCHANGED <<bundleVars, deltaVars, topic>>
    \/ topic = "bundles" /\ BundlesNext /\ UNCHANGED <<recordVars, deltaVars, topic>>
    \/ topic = "deltas" /\ DeltaNext /\ UNCHANGED <<recordVars, bundleVars, topic>>

Spec == Init /\ [][Next]_vars

TypeOK == RecordsTypeOK /\ BundlesTypeOK /\ DeltaTypeOK
=============================================================================
