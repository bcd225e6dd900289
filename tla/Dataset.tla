-------------------------------- MODULE Dataset --------------------------------
(***************************************************************************)
(* A dataset of the validation bench: the folders it is written to         *)
(* (vv/fsops.py), the commands that make, use, restore and delete it       *)
(* (vv/__main__.py) and the run that spends it (vv/runner.py).             *)
(*                                                                         *)
(* The drives may be real ones, with other people's files on them, and     *)
(* people use them while the bench runs: they may put a file anywhere at   *)
(* any time.  A command may fail or be killed between any two steps.       *)
(***************************************************************************)
EXTENDS Integers, FiniteSets

CONSTANTS
    Roots,          \* the drive roots
    Unscoped,       \* the folder of files outside every drive root
    Names,          \* paths below a root
    Planted,        \* [Roots \cup {Unscoped} -> the names materialize writes]
    Unsized,        \* of those names, the ones check_pristine does not look at
    Changes,        \* the steps of apply_mutations and then apply_corruptions:
                    \* <<[kind, root, name]>>, kind "add", "modify", "delete" or "corrupt"
    MaxCommands, MaxMeddles, MaxKills

Places == Roots \cup {Unscoped}

(* What may be at a path: nothing, what the manifest plants, what the      *)
(* changes leave there, or somebody else's file.                           *)
Things == {"nothing", "planted", "changed", "foreign"}

VARIABLES
    tree,           \* [Places -> [Names -> Things]]
    there,          \* the places whose folder exists
    state,          \* state.json, "none" when it is missing
    planned,        \* manifest.json is there
    command,        \* the command that runs, and where in it
    todo,           \* what its loop has still to do
    changed,        \* run: changed
    differs,        \* run: a snapshot differed
    meddled,        \* paths people used since the dataset was last made
    generated,      \* ghost: the dataset was written to its end, and no removal began since
    hostages,       \* ghost: foreign files when the last wipe began
    count           \* [commands, meddles, kills]

datasetVars == <<tree, there, state, planned, command, todo, changed, differs, meddled, generated, hostages, count>>

Idle == [name |-> "none", at |-> "start"]
At(name, at) == command = [name |-> name, at |-> at]
GoTo(at) == command' = [command EXCEPT !.at = at]
Stop == command' = Idle /\ todo' = {}
Put(p, n, thing) == tree' = [tree EXCEPT ![p][n] = thing]
Empty(p) == \A n \in Names : tree[p][n] = "nothing"
Emptied(p) == [n \in Names |-> "nothing"]

Begin(name) ==
    /\ command = Idle /\ count.commands < MaxCommands
    /\ count' = [count EXCEPT !.commands = @ + 1]
    /\ command' = [name |-> name, at |-> "start"]

-----------------------------------------------------------------------------
(* generate.  It begins only in new or empty folders. *)
BeginGenerate ==
    /\ ~planned /\ \A p \in Places : Empty(p)
    /\ Begin("generate") /\ meddled' = {}
    /\ UNCHANGED <<tree, there, state, planned, todo, changed, differs, generated, hostages>>

(* The drives' folders that are missing are made, and remembered. *)
MakeFolder(p) ==
    /\ At("generate", "start") /\ p \notin there
    /\ there' = there \cup {p} /\ todo' = todo \cup {p}
    /\ UNCHANGED <<tree, state, planned, command, changed, differs, meddled, generated, hostages, count>>

PlanFits ==
    /\ At("generate", "start") /\ Roots \subseteq there
    /\ there' = Places /\ planned' = TRUE
    /\ GoTo("write") /\ todo' = {w \in Places \X Names : w[2] \in Planted[w[1]]}
    /\ UNCHANGED <<tree, state, changed, differs, meddled, generated, hostages, count>>

(* Where planning raises, or the data would not fit, the folders that were *)
(* made are removed again, with what people have put there meanwhile.      *)
PlanFails ==
    /\ At("generate", "start")
    /\ tree' = [p \in Places |-> IF p \in todo THEN Emptied(p) ELSE tree[p]]
    /\ there' = there \ todo /\ meddled' = {m \in meddled : m[1] \notin todo}
    /\ Stop
    /\ UNCHANGED <<state, planned, changed, differs, generated, hostages, count>>

(* materialize: the files first, then what is outside the drives' sizes. *)
Materialize ==
    /\ command.name \in {"generate", "reset"} /\ command.at = "write" /\ todo # {}
    /\ \E w \in todo :
         /\ w[2] \in Unsized \/ w[1] = Unscoped => \A v \in todo : v[2] \in Unsized \/ v[1] = Unscoped
         /\ Put(w[1], w[2], "planted")
         /\ todo' = todo \ {w}
    /\ UNCHANGED <<there, state, planned, command, changed, differs, meddled, generated, hostages, count>>

WritePristine ==
    /\ command.name \in {"generate", "reset"} /\ command.at = "write" /\ todo = {}
    /\ state' = "pristine" /\ generated' = TRUE
    /\ Stop
    /\ UNCHANGED <<tree, there, planned, changed, differs, meddled, hostages, count>>

-----------------------------------------------------------------------------
(* wipe, which reset and clean begin with: every drive is looked through   *)
(* before anything is removed, and one name the dataset does not know ends *)
(* the command.  As a mutant: names are known whatever the drive.          *)
Known(p) == Planted[p] \cup {Changes[i].name : i \in {j \in DOMAIN Changes : Changes[j].root = p}}

VouchedAnywhere(p) == \A n \in Names : tree[p][n] # "nothing" => \E r \in Roots : n \in Known(r)

Vouched(p) == \A n \in Names : tree[p][n] # "nothing" => n \in Known(p)

BeginWipe(name) ==
    /\ name \in {"reset", "clean"} /\ planned
    /\ Begin(name)
    /\ todo' = Roots
    /\ hostages' = {w \in Places \X Names : tree[w[1]][w[2]] = "foreign"}
    /\ UNCHANGED <<tree, there, state, planned, changed, differs, meddled, generated>>

LookThrough(p) ==
    /\ command.name \in {"reset", "clean"} /\ command.at = "start" /\ p \in todo
    /\ IF p \in there => Vouched(p) THEN todo' = todo \ {p} /\ UNCHANGED command ELSE Stop
    /\ UNCHANGED <<tree, there, state, planned, changed, differs, meddled, generated, hostages, count>>

BeginRemoving ==
    /\ command.name \in {"reset", "clean"} /\ command.at = "start" /\ todo = {}
    /\ GoTo("remove") /\ todo' = Places /\ generated' = FALSE
    /\ UNCHANGED <<tree, there, state, planned, changed, differs, meddled, hostages, count>>

RemovePlace(p) ==
    /\ command.at = "remove" /\ p \in todo
    /\ tree' = [tree EXCEPT ![p] = Emptied(p)]
    /\ there' = there \ {p}
    /\ todo' = todo \ {p}
    /\ meddled' = {m \in meddled : m[1] # p}
    /\ UNCHANGED <<state, planned, command, changed, differs, generated, hostages, count>>

Rebuild ==
    /\ At("reset", "remove") /\ todo = {}
    /\ there' = Places
    /\ GoTo("write") /\ todo' = {w \in Places \X Names : w[2] \in Planted[w[1]]}
    /\ UNCHANGED <<tree, state, planned, changed, differs, meddled, generated, hostages, count>>

RemoveDataset ==
    /\ At("clean", "remove") /\ todo = {}
    /\ planned' = FALSE /\ state' = "none"
    /\ Stop
    /\ UNCHANGED <<tree, there, changed, differs, meddled, generated, hostages, count>>

-----------------------------------------------------------------------------
(* run.  A missing state.json counts as pristine; then the files' sizes    *)
(* are looked at.                                                          *)
ReadState == IF state = "none" THEN "pristine" ELSE state

LooksPristine ==
    \A p \in Roots : p \in there /\ \A n \in Planted[p] \ Unsized : tree[p][n] \in {"planted", "changed", "foreign"}

BeginRun ==
    /\ planned /\ ReadState = "pristine" /\ LooksPristine
    /\ Begin("run")
    /\ state' = "in-use" /\ changed' = FALSE /\ differs' = {}
    /\ UNCHANGED <<tree, there, planned, todo, meddled, generated, hostages>>

(* A phase of the tool between two snapshots, which differ in what people  *)
(* do meanwhile (Meddle); the phase may raise, and that is recorded.       *)
(* Where the baseline raised, the run ends.  As a mutant, changed is set   *)
(* once the changes are made.                                              *)
Snapshot ==
    /\ At("run", "start")
    /\ GoTo("baseline")
    /\ UNCHANGED <<tree, there, state, planned, todo, changed, differs, meddled, generated, hostages, count>>

ChangedAfterwards == FALSE

ChangedAtOnce == TRUE

Baseline(raised) ==
    /\ At("run", "baseline")
    /\ IF raised THEN GoTo("end") /\ UNCHANGED <<todo, changed>>
                 ELSE GoTo("change") /\ todo' = DOMAIN Changes /\ changed' = ChangedAtOnce
    /\ UNCHANGED <<tree, there, state, planned, differs, meddled, generated, hostages, count>>

(* The next change of the drives.  One that does not find its file, or     *)
(* finds that it cannot be made silently, ends the run.                    *)
Change ==
    /\ At("run", "change") /\ todo # {}
    /\ \E i \in todo :
         /\ \A k \in todo : i <= k
         /\ LET c == Changes[i]
            IN  IF c.kind # "add" /\ tree[c.root][c.name] = "nothing"
                  THEN GoTo("end") /\ todo' = {} /\ UNCHANGED tree
                  ELSE /\ Put(c.root, c.name, IF c.kind = "delete" THEN "nothing" ELSE "changed")
                       /\ todo' = todo \ {i}
                       /\ UNCHANGED command
    /\ UNCHANGED <<there, state, planned, changed, differs, meddled, generated, hostages, count>>

Changed ==
    /\ At("run", "change") /\ todo = {}
    /\ changed' = TRUE
    /\ GoTo("end")
    /\ UNCHANGED <<tree, there, state, planned, todo, differs, meddled, generated, hostages, count>>

(* The run's finally: the dataset is spent, or as it was. *)
EndRun ==
    /\ At("run", "end")
    /\ state' = IF changed \/ differs # {} THEN "consumed" ELSE "pristine"
    /\ Stop
    /\ UNCHANGED <<tree, there, planned, changed, differs, meddled, generated, hostages, count>>

-----------------------------------------------------------------------------
(* A command raises: run's finally is carried out, the others just end,    *)
(* but for a generate that is still planning (PlanFails).                  *)
Raise ==
    /\ command # Idle /\ ~At("generate", "start")
    /\ count.kills < MaxKills /\ count' = [count EXCEPT !.kills = @ + 1]
    /\ IF command.name = "run" THEN command.at # "end" /\ GoTo("end") /\ todo' = {} ELSE Stop
    /\ UNCHANGED <<tree, there, state, planned, changed, differs, meddled, generated, hostages>>

(* The process is killed. *)
Kill ==
    /\ command # Idle /\ count.kills < MaxKills /\ count' = [count EXCEPT !.kills = @ + 1]
    /\ Stop
    /\ UNCHANGED <<tree, there, state, planned, changed, differs, meddled, generated, hostages>>

(* Somebody puts a file of theirs somewhere, or deletes one of the         *)
(* dataset's.                                                              *)
Meddle(p, n) ==
    /\ count.meddles < MaxMeddles /\ count' = [count EXCEPT !.meddles = @ + 1]
    /\ p \in there
    /\ \E thing \in {"nothing", "foreign"} :
         /\ thing # tree[p][n] /\ tree[p][n] # "foreign"
         /\ Put(p, n, thing)
    /\ meddled' = meddled \cup {<<p, n>>}
    /\ differs' = differs \cup (IF At("run", "baseline") THEN {<<p, n>>} ELSE {})
    /\ UNCHANGED <<there, state, planned, command, todo, changed, generated, hostages>>

DatasetInit ==
    /\ tree = [p \in Places |-> Emptied(p)]
    /\ \E made \in SUBSET Roots : there = made
    /\ state = "none" /\ planned = FALSE
    /\ command = Idle /\ todo = {} /\ changed = FALSE /\ differs = {}
    /\ meddled = {} /\ generated = FALSE /\ hostages = {}
    /\ count = [commands |-> 0, meddles |-> 0, kills |-> 0]

DatasetNext ==
    \/ BeginGenerate \/ PlanFits \/ PlanFails \/ Materialize \/ WritePristine
    \/ (\E name \in {"reset", "clean"} : BeginWipe(name)) \/ BeginRemoving \/ Rebuild \/ RemoveDataset
    \/ BeginRun \/ Snapshot \/ (\E raised \in BOOLEAN : Baseline(raised)) \/ Change \/ Changed \/ EndRun
    \/ Raise \/ Kill
    \/ (\E p \in Roots : MakeFolder(p))
    \/ \E p \in Places : LookThrough(p) \/ RemovePlace(p) \/ \E n \in Names : Meddle(p, n)

DatasetSpec == DatasetInit /\ [][DatasetNext]_datasetVars

-----------------------------------------------------------------------------
DatasetTypeOK ==
    /\ tree \in [Places -> [Names -> Things]]
    /\ there \subseteq Places
    /\ state \in {"none", "pristine", "in-use", "consumed"}
    /\ planned \in BOOLEAN /\ changed \in BOOLEAN

(* A dataset that was written to its end and whose state says pristine is  *)
(* the generated one, but for what people did to it: no run that changed a *)
(* file leaves it so, however it ended (runner.py, run).                   *)
PristineIsGenerated ==
    state = "pristine" /\ command = Idle /\ generated =>
        \A p \in Places, n \in Names :
            <<p, n>> \notin meddled => tree[p][n] = IF n \in Planted[p] THEN "planted" ELSE "nothing"

(* A file of somebody else's that is on a drive when the bench sets out to *)
(* delete a dataset is still there afterwards, unless it has the name of   *)
(* one of the dataset's (fsops.py, wipe).                                  *)
ForeignKept ==
    [][\A p \in Roots, n \in Names :
          <<p, n>> \in hostages /\ n \notin Known(p) => tree'[p][n] = "foreign"]_tree

(* No run begins on a dataset that was not written to its end: not so,     *)
(* because a missing state.json counts as pristine, and the look at the    *)
(* sizes of its files does not miss its links, its excluded files or what  *)
(* is outside the drives ("The bench checks its own instrument before      *)
(* trusting it", runner.py, check_pristine).                               *)
RunStartsWhole == command.name = "run" => generated

(* ForeignKept of the folder outside the drives: not so, because it is        *)
(* deleted without having been looked through ("Remove a dataset's drive   *)
(* roots and unscoped root, after checking them", fsops.py, wipe).         *)
ForeignKeptOutside ==
    \A n \in Names : <<Unscoped, n>> \in hostages /\ n \notin Known(Unscoped) => tree[Unscoped][n] = "foreign"
=============================================================================
