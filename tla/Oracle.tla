--------------------------------- MODULE Oracle --------------------------------
(***************************************************************************)
(* The changes the validation bench plans between two scans                *)
(* (vv/generator.py, mutations_plan and corruption_plan), what they do to  *)
(* the drives (vv/fsops.py) and what its oracle says a right tool must     *)
(* then conclude (vv/oracle.py).                                           *)
(*                                                                         *)
(* The oracle never looks at the drives: it replays the plan on the        *)
(* manifest, by rules of its own.  It is right only because the generator  *)
(* plans nothing those rules do not cover.  Every random choice of the     *)
(* generator is a choice here.                                             *)
(***************************************************************************)
EXTENDS Integers, FiniteSets, Sequences, FiniteSetsExt, SequencesExt

CONSTANTS
    Drives,
    Device,         \* [Drives -> the physical device the drive is a part of]
    Unidentified,   \* the drives whose device nothing identifies
    Sizes,          \* [Contents -> size in bytes]
    SmallFile,      \* up to this size the quick hash is exact
    Fresh,          \* contents no file has before the changes
    Variants,       \* [Contents -> SUBSET Fresh]: what an edit makes of a content
    Baselines,      \* planned datasets [files, dirs, general, protected, excluded, links]
    MaxRepeats      \* steps of one kind in a plan

Stages == <<"add", "copy", "large", "modify", "halve", "delete", "move", "rmtree", "mkdir",
            "corrupt", "edit", "judge">>

VARIABLES
    base,           \* the dataset as generated: its files are
                    \* [key -> [content, mtime, group, unreadable, filler]]
    stage,          \* the kind of change planned next
    repeats,        \* how often it was planned
    plan,           \* the steps planned so far: what they make, <<drive, path>>
    touched,        \* the keys they start from
    exp,            \* the oracle's [files, dirs, vanished, vanishedDirs]
    disk,           \* the drives' [files, dirs]
    hurt            \* the corrupted files and the files edited late

oracleVars == <<base, stage, repeats, plan, touched, exp, disk, hurt>>

(* A key is <<drive, path>>, a path the sequence of its names. *)
Ancestors(key) == {<<key[1], SubSeq(key[2], 1, i)>> : i \in 1 .. Len(key[2]) - 1}
Below(key, top) == key[1] = top[1] /\ IsStrictPrefix(top[2], key[2])
In(dir, name) == <<dir[1], Append(dir[2], name)>>
Folder(key) == <<key[1], Front(key[2])>>
Without(files, keys) == [k \in DOMAIN files \ keys |-> files[k]]
With(files, key, f) == [k \in DOMAIN files \cup {key} |-> IF k = key THEN f ELSE files[k]]
SizeOf(f) == Sizes[f.content]

(* No generated file has the time of a change, or the name of one that is  *)
(* moved (free_name); and every folder has the folders above it.           *)
ASSUME OracleAssumption ==
    /\ MaxRepeats \in Nat /\ SmallFile \in Nat
    /\ \A b \in Baselines :
        /\ \A k \in DOMAIN b.files :
            /\ b.files[k].mtime # "new"
            /\ b.files[k] = [content |-> b.files[k].content, mtime |-> b.files[k].mtime, group |-> b.files[k].group,
                             unreadable |-> b.files[k].unreadable, filler |-> b.files[k].filler]
            /\ \A n \in 0 .. MaxRepeats : k[2] # <<<<"Reorganized", n>>, <<"moved", 0>>>>
        /\ \A k \in DOMAIN b.files \cup b.dirs \cup b.general :
            k = <<k[1], k[2]>> /\ Len(k[2]) \in Nat /\ k[2] = [i \in 1 .. Len(k[2]) |-> k[2][i]]
        /\ \A dir \in b.general : Ancestors(In(dir, <<"folder", 0>>)) \subseteq b.dirs

-----------------------------------------------------------------------------
(* What each step does to the drives. *)
DiskAdd(key, f) == [files |-> With(disk.files, key, f), dirs |-> disk.dirs \cup Ancestors(key)]
DiskRemove(keys) == [disk EXCEPT !.files = Without(@, keys)]
DiskMove(key, to) ==
    [files |-> With(Without(disk.files, {key}), to, disk.files[key]), dirs |-> disk.dirs \cup Ancestors(to)]
DiskMkdir(key) == [disk EXCEPT !.dirs = @ \cup {key}]
DiskRmtree(top) ==
    [files |-> Without(disk.files, {k \in DOMAIN disk.files : Below(k, top)}),
     dirs  |-> {d \in disk.dirs : d # top /\ ~Below(d, top)}]

(* And what the oracle makes of it.  A folder that exists at the rescan is *)
(* live, whatever happened to it earlier.  As a mutant: only the folders   *)
(* that are made as such are revived.                                      *)
ReviveNone(e, dirs) == e

Revive(e, dirs) == [e EXCEPT !.dirs = @ \cup dirs, !.vanishedDirs = @ \ dirs]

Added(e, key, f) ==
    Revive([e EXCEPT !.files = With(@, key, f), !.vanished = @ \ {key}], Ancestors(key))
Gone(e, keys) == [e EXCEPT !.files = Without(@, keys), !.vanished = @ \cup keys]
Moved(e, key, to) == Added(Gone(e, {key}), to, [e.files[key] EXCEPT !.changed = TRUE])
RemovedTree(e, top) ==
    LET dirs == {d \in e.dirs : d = top \/ Below(d, top)}
    IN  [Gone(e, {k \in DOMAIN e.files : Below(k, top)})
           EXCEPT !.dirs = @ \ dirs, !.vanishedDirs = @ \cup dirs]

(* The oracle's file, and the drive's, of one that is written now. *)
Written(content) == [content |-> content, mtime |-> "new", group |-> "none", unreadable |-> FALSE, filler |-> FALSE]
Expected(f) == [content |-> f.content, group |-> f.group, unreadable |-> f.unreadable, changed |-> FALSE]
AsChanged(f) == [Expected(f) EXCEPT !.changed = TRUE]

-----------------------------------------------------------------------------
(* The generator's choices. *)
Next1(s) == Stages[1 + CHOOSE i \in 1 .. Len(Stages) : Stages[i] = s]
Files == base.files
Unused == Fresh \ {disk.files[k].content : k \in DOMAIN disk.files}
Mutable ==
    {k \in DOMAIN Files : Files[k].filler /\ Files[k].group = "none" /\ ~Files[k].unreadable
                          /\ SizeOf(Files[k]) > 0 /\ Folder(k) \notin base.protected}
HoldersOf(content) ==
    {k \in DOMAIN Files : Files[k].content = content /\ Files[k].group = "none" /\ ~Files[k].unreadable}
CopyHolders == {HoldersOf(c) : c \in {b \in {Files[k].content : k \in DOMAIN Files} :
                                        Sizes[b] > 0 /\ Cardinality(HoldersOf(b)) >= 2}}
Singles == {k \in Mutable : \A j \in DOMAIN Files : Files[j].content = Files[k].content => j = k}

(* Folders a whole one of which can go: every file in it is plain and not  *)
(* part of another step, no link leads there, nothing excluded is in it,   *)
(* and no step puts anything there.                                        *)
Removable(top) ==
    /\ Len(top[2]) >= 2 /\ top \notin base.protected
    /\ LET inside == {k \in DOMAIN Files : Below(k, top)}
       IN  inside # {} /\ inside \subseteq Mutable \ touched
    /\ \A x \in base.excluded \cup base.protected : ~Below(x, top)
    /\ \A l \in base.links : l.target # top /\ ~Below(l.target, top)
    /\ \A i \in DOMAIN plan : ~Below(plan[i].to, top)

(* A step of the plan: what it starts from and what it makes; then the     *)
(* generator goes on, or plans another of the kind.                        *)
Step(kind, from, to) ==
    /\ plan' = Append(plan, [kind |-> kind, from |-> from, to |-> to])
    /\ touched' = touched \cup {from}
    /\ \/ stage' = Next1(stage) /\ repeats' = 0
       \/ repeats + 1 < MaxRepeats /\ repeats' = repeats + 1 /\ UNCHANGED stage
    /\ UNCHANGED <<base, hurt>>

Skip(possible) ==
    /\ ~possible
    /\ stage' = Next1(stage) /\ repeats' = 0
    /\ UNCHANGED <<base, plan, touched, exp, disk, hurt>>

Create(kind, key, content) ==
    /\ Step(kind, key, key)
    /\ disk' = DiskAdd(key, Written(content))
    /\ exp' = Added(exp, key, AsChanged(Written(content)))

(* New files, a second drive for what only one holds, and another copy of  *)
(* a large file.  Names are free ones.                                     *)
Name(dir, kind) == In(dir, <<kind, repeats>>)

PlanAdd ==
    /\ stage = "add"
    /\ \/ \E dir \in base.general, c \in Unused : Create("add", Name(dir, "added"), c)
       \/ Skip(Unused # {})

PlanCopy ==
    /\ stage = "copy"
    /\ \/ \E k \in Singles, dir \in base.general :
            dir[1] # k[1] /\ Create("add", Name(dir, "copied"), Files[k].content)
       \/ Skip(\E k \in Singles, dir \in base.general : dir[1] # k[1])

Large == {g \in CopyHolders : \A k \in g : SizeOf(Files[k]) > SmallFile}

PlanLargeCopy ==
    /\ stage = "large"
    /\ \/ \E g \in Large, dir \in base.general :
            Create("add", Name(dir, "large"), Files[CHOOSE k \in g : TRUE].content)
       \/ Skip(Large # {})

(* An edit in place: other bytes, of the same length or longer, and a new time. *)
PlanModify ==
    /\ stage = "modify"
    /\ \/ \E k \in Mutable \ touched, c \in Unused :
            /\ c \in Variants[Files[k].content]
            /\ Step("modify", k, k)
            /\ disk' = [disk EXCEPT !.files = With(@, k, [Files[k] EXCEPT !.content = c, !.mtime = "new"])]
            /\ exp' = [exp EXCEPT !.files = With(@, k, [AsChanged(Files[k]) EXCEPT !.content = c])]
       \/ Skip(\E k \in Mutable \ touched : Variants[Files[k].content] \cap Unused # {})

Delete(k) ==
    /\ Step("delete", k, k)
    /\ disk' = DiskRemove({k}) /\ exp' = Gone(exp, {k})

(* One of exactly two copies on two drives, which no other step and no     *)
(* link is about; then other plain files.                                  *)
Pairs ==
    {g \in CopyHolders : Cardinality(g) = 2 /\ Cardinality({k[1] : k \in g}) = 2
                         /\ \A k \in g : k \notin touched /\ \A l \in base.links : l.target # k}

PlanHalve ==
    /\ stage = "halve"
    /\ (\E g \in Pairs : \E k \in g : Delete(k)) \/ Skip(Pairs # {})

PlanDelete ==
    /\ stage = "delete"
    /\ (\E k \in Mutable \ touched : Delete(k)) \/ Skip(Mutable \ touched # {})

(* A copy is moved to a new folder on its drive. *)
PlanMove ==
    /\ stage = "move"
    /\ LET groups == {g \in CopyHolders : g \cap touched = {}}
       IN  \/ \E g \in groups : \E k \in g :
                LET to == <<k[1], <<<<"Reorganized", repeats>>, <<"moved", 0>>>>>>
                IN  /\ Step("move", k, to)
                    /\ disk' = DiskMove(k, to) /\ exp' = Moved(exp, k, to)
           \/ Skip(groups # {})

PlanRmtree ==
    /\ stage = "rmtree"
    /\ \/ \E top \in base.dirs :
            /\ Removable(top) /\ Step("rmtree", top, top)
            /\ disk' = DiskRmtree(top) /\ exp' = RemovedTree(exp, top)
       \/ Skip(\E top \in base.dirs : Removable(top))

(* A new folder, not inside a removed one. *)
PlanMkdir ==
    /\ stage = "mkdir"
    /\ \E dir \in base.general :
         LET key == Name(dir, "folder")
         IN  /\ \A i \in DOMAIN plan : plan[i].kind = "rmtree" => dir # plan[i].from /\ ~Below(dir, plan[i].from)
             /\ Step("mkdir", key, key)
             /\ disk' = DiskMkdir(key)
             /\ exp' = Revive(exp, {key} \cup Ancestors(key))

-----------------------------------------------------------------------------
(* Which files must have an identity (oracle.py, _identify), and what is   *)
(* known of their copies (_analyse).                                       *)
SharedSize(files, k) == \E j \in DOMAIN files \ {k} : SizeOf(files[j]) = SizeOf(files[k])
Identify(files, kept) ==
    {k \in DOMAIN files : /\ ~files[k].unreadable /\ SizeOf(files[k]) > 0
                          /\ (k \in kept /\ ~files[k].changed) \/ SharedSize(files, k)}

BaseFiles == [k \in DOMAIN Files |-> Expected(Files[k])]
BaseIdentified == Identify(BaseFiles, {})
Identified == Identify(exp.files, BaseIdentified)
Groups(files, identified) ==
    [c \in {files[k].content : k \in identified} |-> {k \in identified : files[k].content = c}]

Proven(keys) == FoldSet(LAMBDA a, b : IF a > b THEN a ELSE b, 0,
                        {1, Cardinality({Device[k[1]] : k \in {j \in keys : j[1] \notin Unidentified}})})
Possible(keys) ==
    Cardinality({IF k[1] \in Unidentified THEN <<"unknown", k[1]>> ELSE <<"device", Device[k[1]]>> : k \in keys})
Physical(files, keys) ==
    Cardinality({IF files[k].group = "none" THEN [path |-> k, link |-> "none"]
                 ELSE [path |-> <<k[1], <<>>>>, link |-> files[k].group] : k \in keys})
Reclaimable(files, keys) ==
    LET spare == Physical(files, keys) - Possible(keys)
    IN  IF spare > 0 THEN spare * SizeOf(files[CHOOSE k \in keys : TRUE]) ELSE 0

(* A file of a size no other has is one copy, without an identity.         *)
Alone(files, identified) ==
    {k \in DOMAIN files \ identified : SizeOf(files[k]) > 0 /\ ~SharedSize(files, k)}

(* The totals of a catalog. *)
FileBytes(files, keys) == SumFunction([k \in keys |-> SizeOf(files[k])])
ContentBytes(contents) == SumFunction([c \in contents |-> Sizes[c]])

Summary(files, identified, copies) ==
    LET groups  == Groups(files, identified)
        singles == Alone(files, identified)
        lone    == IF copies > 1 THEN singles ELSE {}
        scarce  == {c \in DOMAIN groups : Proven(groups[c]) < copies}
        paths   == FileBytes(files, identified) + FileBytes(files, singles)
        unique  == ContentBytes(DOMAIN groups) + FileBytes(files, singles)
    IN  [distinct      |-> Cardinality(DOMAIN groups) + Cardinality(singles),
         paths         |-> Cardinality(identified) + Cardinality(singles),
         pathBytes     |-> paths,
         uniqueBytes   |-> unique,
         overheadBytes |-> paths - unique,
         scarce        |-> Cardinality(scarce) + Cardinality(lone),
         scarceBytes   |-> ContentBytes(scarce) + FileBytes(files, lone),
         waste         |-> SumFunction([c \in DOMAIN groups |-> Reclaimable(files, groups[c])]),
         singles       |-> Cardinality(singles),
         unhashed      |-> Cardinality({k \in DOMAIN files \ identified : SharedSize(files, k)})]

(* Contents whose copies no step concerns: some lose bytes silently, some  *)
(* are edited after the rescan.                                            *)
Stable ==
    {c \in DOMAIN Groups(BaseFiles, BaseIdentified) :
       LET keys == Groups(BaseFiles, BaseIdentified)[c]
       IN  /\ Cardinality(keys) >= 2 /\ \A k \in keys : Files[k].group = "none"
           /\ c \in DOMAIN Groups(exp.files, Identified) /\ Groups(exp.files, Identified)[c] = keys}

PlanCorrupt ==
    /\ stage = "corrupt"
    /\ \/ Stable = {} /\ UNCHANGED hurt
       \/ \E c \in Stable : \E k \in HoldersOf(c) : hurt' = [hurt EXCEPT !.corrupted = {k}]
    /\ stage' = "edit"
    /\ UNCHANGED <<base, repeats, plan, touched, exp, disk>>

PlanLateEdit ==
    /\ stage = "edit"
    /\ LET others == {c \in Stable : HoldersOf(c) \cap hurt.corrupted = {}}
       IN  \/ (others = {} \/ hurt.corrupted = {}) /\ UNCHANGED hurt
           \/ hurt.corrupted # {} /\ \E c \in others : \E k \in HoldersOf(c) : hurt' = [hurt EXCEPT !.edited = {k}]
    /\ stage' = "judge"
    /\ UNCHANGED <<base, repeats, plan, touched, exp, disk>>

-----------------------------------------------------------------------------
OracleInit ==
    /\ base \in Baselines
    /\ stage = "add" /\ repeats = 0 /\ plan = <<>> /\ touched = {}
    /\ exp = [files |-> BaseFiles, dirs |-> base.dirs, vanished |-> {}, vanishedDirs |-> {}]
    /\ disk = [files |-> base.files, dirs |-> base.dirs]
    /\ hurt = [corrupted |-> {}, edited |-> {}]

OracleNext ==
    \/ PlanAdd \/ PlanCopy \/ PlanLargeCopy \/ PlanModify \/ PlanHalve \/ PlanDelete
    \/ PlanMove \/ PlanRmtree \/ PlanMkdir \/ PlanCorrupt \/ PlanLateEdit

OracleSpec == OracleInit /\ [][OracleNext]_oracleVars

-----------------------------------------------------------------------------
Describes(e, f) == e.content = f.content /\ e.group = f.group /\ e.unreadable = f.unreadable

(* After every planned step the oracle's account is that of the drives:    *)
(* the same files, with the bytes, the links and the refusals of each; the *)
(* same folders; as vanished exactly what was there at the first scan and  *)
(* is no longer; and it knows which files no rescan may keep the identity  *)
(* of (oracle.py, _rescan_state against fsops.py, apply_mutations).        *)
OracleAgrees ==
    /\ DOMAIN exp.files = DOMAIN disk.files
    /\ \A k \in DOMAIN disk.files : Describes(exp.files[k], disk.files[k])
    /\ exp.dirs = disk.dirs
    /\ exp.vanished = DOMAIN Files \ DOMAIN disk.files
    /\ exp.vanishedDirs = base.dirs \ disk.dirs
    /\ \A k \in DOMAIN Files \cap DOMAIN disk.files : exp.files[k].changed <=> disk.files[k] # Files[k]
=============================================================================
