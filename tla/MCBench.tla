-------------------------------- MODULE MCBench --------------------------------
(***************************************************************************)
(* The validation bench and the commands it drives, for TLC: the life of a *)
(* dataset, the plan of its changes with the judgement of a run, a         *)
(* campaign, and the commands of two programs over a catalog that people   *)
(* move, each a topic of its own.                                          *)
(***************************************************************************)
EXTENDS Dataset, Judge, Campaign, Commands, TLC

CONSTANT Topics

VARIABLE topic

-----------------------------------------------------------------------------
MCPlanted == [p \in Places |-> IF p = "d1" THEN {"file", "link"} ELSE {"file"}]
MCChanges == << [kind |-> "add", root |-> "d1", name |-> "new"],
                [kind |-> "delete", root |-> "d2", name |-> "file"],
                [kind |-> "corrupt", root |-> "d1", name |-> "file"] >>

(* Two drives are parts of one device, one is unidentified. *)
MCDrives == {"D1", "D2", "D3", "D4"}
MCDevice == [d \in MCDrives |-> IF d \in {"D1", "D2"} THEN "disk" ELSE d]

(* Two contents of one length, a unique length, a large one, an empty file. *)
MCSizes == [a |-> 2, b |-> 2, c |-> 3, d |-> 5, l |-> 9, e |-> 0, n |-> 2, m |-> 4]
MCVariants == [c \in DOMAIN MCSizes |-> IF c \in {"a", "b"} THEN {"n", "m"} ELSE IF c = "c" THEN {"m"} ELSE {}]

N(s) == <<s, 0>>
Plain(c, filler) == [content |-> c, mtime |-> "old", group |-> "none", unreadable |-> FALSE, filler |-> filler]
FG == <<"D2", <<N("F"), N("G")>>>>

MCFiles ==
    (<<"D1", <<N("a")>>>> :> Plain("a", FALSE)) @@ (<<"D4", <<N("a")>>>> :> Plain("a", FALSE))
    @@ (<<"D3", <<N("b")>>>> :> Plain("b", TRUE))
    @@ (<<"D2", <<N("F"), N("G"), N("c")>>>> :> Plain("c", TRUE))
    @@ (<<"D1", <<N("l")>>>> :> Plain("l", FALSE)) @@ (<<"D1", <<N("l2")>>>> :> Plain("l", FALSE))
    @@ (<<"D4", <<N("e")>>>> :> Plain("e", TRUE)) @@ (<<"D4", <<N("d")>>>> :> Plain("d", TRUE))

MCLinked ==
    MCFiles @@ (<<"D4", <<N("h1")>>>> :> [Plain("b", FALSE) EXCEPT !.group = "h"])
            @@ (<<"D4", <<N("h2")>>>> :> [Plain("b", FALSE) EXCEPT !.group = "h"])
            @@ (<<"D3", <<N("u")>>>> :> [Plain("a", FALSE) EXCEPT !.unreadable = TRUE])

Dataset1(files) ==
    [files |-> files, dirs |-> {FG, <<"D2", <<N("F")>>>>}, general |-> {FG, <<"D4", <<>>>>},
     protected |-> {}, excluded |-> {}, links |-> {}]

(* The third has an excluded entry in the folder that could go. *)
MCBaselines ==
    {Dataset1(MCFiles),
     [Dataset1(MCLinked) EXCEPT !.links = {[path |-> <<"D1", <<N("k")>>>>, target |-> <<"D4", <<N("a")>>>>]},
                                !.excluded = {<<"D4", <<N("x")>>>>, <<"D2", <<N("F"), N("x")>>>>}],
     [Dataset1(MCFiles) EXCEPT !.excluded = {<<"D2", <<N("F"), N("G"), N("x")>>>>}]}

(* Two releases with texts of their own; the system drive and one to plug  *)
(* in; the catalog beside the scanned folder of either, or in it.          *)
MCText     == [s \in Shells |-> s]
Releases   == Permutations(Shells)
MCLocations   == {"C:home", "E:", "E:work"}
MCLetterOf == [f \in MCLocations \cup CatalogPlaces |-> IF f \in {"C:home", "C:cat"} THEN "C" ELSE "E"]
MCAround   == [f \in MCLocations \cup CatalogPlaces |-> IF f \in {"E:work", "E:cat"} THEN {"E:"} ELSE {}]

vars == <<datasetVars, oracleVars, judgeVars, campaignVars, commandVars, topic>>

(* A topic's variables start in every way only where it is the topic. *)
Init ==
    /\ topic \in Topics
    /\ DatasetInit /\ (topic = "dataset" \/ there = {})
    /\ OracleInit /\ (topic = "plan" \/ base = Dataset1(MCFiles))
    /\ JudgeInit
    /\ CampaignInit /\ (topic = "campaign" \/ keep)
    /\ CommandsInit
    /\ mount = [l \in {"C", "E"} |-> IF l = "C" THEN System ELSE "usb"]
    /\ topic = "commands" \/ catalogAt = "C:cat"

InDataset(A) == topic = "dataset" /\ A /\ UNCHANGED <<oracleVars, judgeVars, campaignVars, commandVars, topic>>
InPlan(A) == topic = "plan" /\ A /\ UNCHANGED <<datasetVars, campaignVars, commandVars, topic>>
InCampaign(A) == topic = "campaign" /\ A /\ UNCHANGED <<datasetVars, oracleVars, judgeVars, commandVars, topic>>
InCommands(A) == topic = "commands" /\ A /\ UNCHANGED <<datasetVars, oracleVars, judgeVars, campaignVars, topic>>

Next ==
    \/ InDataset(DatasetNext)
    \/ InPlan(OracleNext /\ UNCHANGED judgeVars) \/ InPlan(JudgeNext)
    \/ InCampaign(CampaignNext) \/ InCommands(CommandsNext)

Spec == Init /\ [][Next]_vars
=============================================================================
