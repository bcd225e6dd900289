--------------------------------- MODULE Judge ---------------------------------
(***************************************************************************)
(* The judgement of a run of the validation bench (vv/evaluate.py): what   *)
(* the tool reported of the drives after the planned changes, compared     *)
(* with what the oracle expects.  The tests are those of the rescan's      *)
(* files, identities and copies and those of the verify pass: VV-SC-02 and *)
(* -03, VV-INC-01 to -03, VV-CAT-02, VV-ID-01 to -03, VV-RED-01 to -06 and *)
(* VV-FIX-01 to -04.  The tests of the baseline alone, of times, names,    *)
(* rates, plans and exports are not here.                                  *)
(*                                                                         *)
(* The tool makes mistakes of its own here, one after the other, in any    *)
(* part of its report.  The tests look at different parts of it, some of   *)
(* them at more than one, and leave to each other what each does not see.  *)
(***************************************************************************)
EXTENDS Oracle

CONSTANTS
    MinCopies,      \* run's --min-copies
    MaxMistakes

VARIABLES
    report,         \* observed.json: what the tool said after the rescan
    expect,         \* the oracle's expectations, made once for all tests
    truth,          \* ghost: the report of a tool that makes no mistake
    mistakes        \* made so far, -1 before there is a report

judgeVars == <<report, expect, truth, mistakes>>

NoId == "none"
Blank == [live |-> <<>>, vanished |-> {}]

(* The names a plan can make in a dataset: of files, and of folders. *)
PlannedFiles(b) ==
    {In(dir, <<kind, n>>) : dir \in b.general, kind \in {"added", "copied", "large"}, n \in 0 .. MaxRepeats}
    \cup {<<k[1], <<<<"Reorganized", n>>, <<"moved", 0>>>>>> : k \in DOMAIN b.files, n \in 0 .. MaxRepeats}
PlannedFolders(b) ==
    {In(dir, <<"folder", n>>) : dir \in b.general, n \in 0 .. MaxRepeats}
    \cup {<<k[1], <<<<"Reorganized", n>>>>>> : k \in DOMAIN b.files, n \in 0 .. MaxRepeats}

(* Where a right tool catalogs nothing. *)
Barred(b) == b.excluded \cup {l.path : l \in b.links}

(* Every file has bytes that can be told from none; an edit makes ones no  *)
(* file had.  Names are free (free_name): a planned one is no file's, and  *)
(* none is that of an excluded entry or of a link, or leads through one.   *)
ASSUME JudgeAssumption ==
    /\ \A c \in Fresh : c # NoId /\ Sizes[c] \in Nat
    /\ \A b \in Baselines :
        /\ IsFiniteSet(DOMAIN b.files)
        /\ \A k \in DOMAIN b.files :
            b.files[k].content \notin Fresh \cup {NoId} /\ Sizes[b.files[k].content] \in Nat
        /\ PlannedFiles(b) \cap DOMAIN b.files = {}
        /\ \A k \in DOMAIN b.files \cup b.dirs \cup PlannedFiles(b) \cup PlannedFolders(b), x \in Barred(b) :
            k # x /\ ~Below(k, x)
        /\ \A x \in b.excluded :
            /\ x = <<x[1], x[2]>> /\ Len(x[2]) \in Nat \ {0} /\ x[2] = [i \in 1 .. Len(x[2]) |-> x[2][i]]
            /\ Len(x[2]) = 1 \/ Folder(x) \in b.dirs

-----------------------------------------------------------------------------
(* What a tool that makes no mistake reports, from the drives alone: rows  *)
(* of the files with their sizes, identities for what is alike in size or  *)
(* was identified before and has not changed, copies over proven devices.  *)
Readable(files) == {k \in DOMAIN files : ~files[k].unreadable /\ SizeOf(files[k]) > 0}
Known1 == {k \in Readable(Files) : SharedSize(Files, k)}
Truly == {k \in Readable(disk.files) :
            SharedSize(disk.files, k) \/ (k \in Known1 /\ disk.files[k] = Files[k])}
True(c) == {k \in Truly : disk.files[k].content = c}
Contents == {disk.files[k].content : k \in Truly}
TrueSingles == Alone(disk.files, Truly)
Scarce == {c \in Contents : Proven(True(c)) < MinCopies}
Wasteful == {c \in Contents : Reclaimable(disk.files, True(c)) > 0}

(* The bytes of a small file were all read for its identity, those of a    *)
(* copied one to tell it from what is alike at the ends; an edited file is *)
(* not verified.                                                           *)
Small(files, keys) == {k \in keys \ hurt.edited : SizeOf(files[k]) <= SmallFile}
Verifiable == Small(disk.files, Truly) \cup {k \in Truly \ hurt.edited : True(disk.files[k].content) # {k}}
TrueWaste == [c \in Wasteful |-> Reclaimable(disk.files, True(c))]

LinksOf(drive, dirs) ==
    Cardinality({l \in base.links : l.path[1] = drive /\ (Len(l.path[2]) = 1 \/ Folder(l.path) \in dirs)})

ExcludedOf(drive, dirs) ==
    Cardinality({x \in base.excluded : x[1] = drive /\ (Len(x[2]) = 1 \/ Folder(x) \in dirs)})

Faultless ==
    [live         |-> [k \in DOMAIN disk.files |->
                         [size |-> SizeOf(disk.files[k]), id |-> IF k \in Truly THEN disk.files[k].content ELSE NoId]],
     vanished     |-> DOMAIN Files \ DOMAIN disk.files,
     dirs         |-> disk.dirs,
     vanishedDirs |-> base.dirs \ disk.dirs,
     links        |-> [d \in Drives |-> LinksOf(d, disk.dirs)],
     excluded     |-> [d \in Drives |-> ExcludedOf(d, disk.dirs)],
     groups       |-> [c \in Contents |-> [drives   |-> Proven(True(c)), possible |-> Possible(True(c)),
                                           physical |-> Physical(disk.files, True(c))]],
     scarce       |-> Scarce,
     scarceFiles  |-> IF MinCopies > 1 THEN TrueSingles ELSE {},
     waste        |-> TrueWaste,
     headline     |-> Summary(disk.files, Truly, MinCopies),
     incidents    |-> [k \in hurt.corrupted |-> Proven(True(disk.files[k].content))],
     modified     |-> hurt.edited,
     checked      |-> Cardinality(Verifiable)]

(* The mistakes: a row is lost, kept or wrong; two contents are taken for  *)
(* one or one for two; a count, a claim or a finding is wrong.             *)
Mistaken(r) ==
    {[r EXCEPT !.live = Without(@, {k})] : k \in DOMAIN r.live}
    \cup {[r EXCEPT !.live = With(@, k, [size |-> 1, id |-> NoId])] : k \in r.vanished}
    \cup {[r EXCEPT !.live[k].id = i] : k \in DOMAIN r.live, i \in Contents \cup {"other", NoId}}
    \cup {[r EXCEPT !.live[k].size = @ + 1] : k \in DOMAIN r.live}
    \cup {[r EXCEPT !.vanished = @ \ {k}] : k \in r.vanished}
    \cup {[r EXCEPT !.dirs = @ \ {d}] : d \in r.dirs}
    \cup {[r EXCEPT !.dirs = @ \cup {d}] : d \in r.vanishedDirs}
    \cup {[r EXCEPT !.links[d] = @ + 1] : d \in {l.path[1] : l \in base.links}}
    \cup {[r EXCEPT !.excluded[d] = @ - 1] : d \in {x[1] : x \in base.excluded}}
    \cup {[r EXCEPT !.groups = Without(@, {c})] : c \in DOMAIN r.groups}
    \cup {[r EXCEPT !.groups[c].drives = @ + 1] : c \in DOMAIN r.groups}
    \cup {[r EXCEPT !.groups[c].physical = @ + 1] : c \in DOMAIN r.groups}
    \cup {[r EXCEPT !.scarce = @ \ {c}] : c \in r.scarce}
    \cup {[r EXCEPT !.scarce = @ \cup {c}] : c \in Contents \ r.scarce}
    \cup {[r EXCEPT !.scarceFiles = @ \ {k}] : k \in r.scarceFiles}
    \cup {[r EXCEPT !.waste = Without(@, {c})] : c \in DOMAIN r.waste}
    \cup {[r EXCEPT !.waste = With(@, c, 1)] : c \in Contents}
    \cup {[r EXCEPT !.headline[t] = @ + 1] : t \in DOMAIN r.headline}
    \cup {[r EXCEPT !.incidents = Without(@, {k})] : k \in DOMAIN r.incidents}
    \cup {[r EXCEPT !.incidents = With(@, k, 1)] : k \in Truly \ DOMAIN r.incidents}
    \cup {[r EXCEPT !.incidents[k] = @ + 1] : k \in DOMAIN r.incidents}
    \cup {[r EXCEPT !.modified = @ \ {k}] : k \in r.modified}
    \cup {[r EXCEPT !.checked = n] : n \in 0 .. r.checked - 1}

(* The oracle's expectations of the rescan (oracle.py, expectations). *)
ExpSingles == Alone(exp.files, Identified)

(* An excluded entry is counted whatever happened to the folder it is in.  *)
Expectations ==
    LET groups == Groups(exp.files, Identified)
        scarce == {groups[c] : c \in {b \in DOMAIN groups : Proven(groups[b]) < MinCopies}}
                    \cup (IF MinCopies > 1 THEN {{k} : k \in ExpSingles} ELSE {})
        waste  == [g \in {groups[c] : c \in {b \in DOMAIN groups : Reclaimable(exp.files, groups[b]) > 0}}
                     |-> Reclaimable(exp.files, g)]
    IN  [identified |-> Identified,
         groups     |-> {groups[c] : c \in DOMAIN groups},
         proven     |-> [g \in {groups[c] : c \in DOMAIN groups} |-> Proven(g)],
         scarce     |-> scarce,
         waste      |-> waste,
         links      |-> [d \in Drives |-> LinksOf(d, exp.dirs)],
         excluded   |-> [d \in Drives |-> Cardinality({x \in base.excluded : x[1] = d})],
         headline   |-> Summary(exp.files, Identified, MinCopies),
         holding    |-> [k \in hurt.corrupted |-> Proven(groups[exp.files[k].content])],
         floor      |-> Cardinality(Small(exp.files, Identified))
                          + Cardinality({k \in hurt.corrupted : SizeOf(exp.files[k]) > SmallFile})]

Observe ==
    /\ stage = "judge" /\ mistakes = -1 /\ mistakes' = 0
    /\ report' = Faultless /\ truth' = Faultless /\ expect' = Expectations
Err ==
    /\ mistakes >= 0 /\ mistakes < MaxMistakes /\ mistakes' = mistakes + 1
    /\ report' \in Mistaken(report)
    /\ UNCHANGED <<expect, truth>>

JudgeInit == report = Blank /\ expect = Blank /\ truth = Blank /\ mistakes = -1
JudgeNext == (Observe \/ Err) /\ UNCHANGED oracleVars

JudgeSpec ==
    OracleInit /\ JudgeInit /\ [][(OracleNext /\ UNCHANGED judgeVars) \/ JudgeNext]_<<oracleVars, judgeVars>>

-----------------------------------------------------------------------------
(* The tests of the rescan and of the verify pass. *)
Id(r, k) == IF k \in DOMAIN r.live THEN r.live[k].id ELSE NoId
PathSet(r, i) == {k \in DOMAIN r.live : r.live[k].id = i}
Ids(r) == {r.live[k].id : k \in DOMAIN r.live} \ {NoId}
ExpFiles == DOMAIN exp.files

FileSet(r) ==
    /\ DOMAIN r.live = ExpFiles
    /\ \A k \in ExpFiles : r.live[k].size = SizeOf(exp.files[k])

LinksReported(r) ==
    \A d \in Drives : expect.links[d] # 0 => r.links[d] = expect.links[d]

NothingExcluded(r) ==
    /\ \A x \in base.excluded, k \in DOMAIN r.live \cup r.dirs : k # x /\ ~Below(k, x)
    /\ r.excluded = expect.excluded

NoneThroughLinks(r) ==
    \A l \in base.links, k \in DOMAIN r.live \cup r.dirs : k # l.path /\ ~Below(k, l.path)

Folders(r) == r.dirs = exp.dirs /\ exp.vanishedDirs \subseteq r.vanishedDirs

ModifiedReidentified(r) ==
    \A i \in DOMAIN plan : plan[i].kind = "modify" =>
        LET k == plan[i].to
            old == {Id(r, j) : j \in {j \in ExpFiles \ {k} : exp.files[j].content = Files[k].content}} \ {NoId}
        IN  Id(r, k) \notin old

Tombstoned(r) == exp.vanished \cap DOMAIN r.live = {} /\ r.vanished = exp.vanished

Recognised(r) ==
    \A i \in DOMAIN plan : plan[i].kind = "move" =>
        LET to == plan[i].to
            siblings == {k \in expect.identified \ {to} : exp.files[k].content = exp.files[to].content}
        IN  /\ to \in DOMAIN r.live /\ plan[i].from \in r.vanished
            /\ to \in expect.identified =>
                 Id(r, to) # NoId /\ (siblings = {} \/ {Id(r, k) : k \in siblings} = {Id(r, to)})

OneIdentity(r) ==
    \A g \in expect.groups : Cardinality(g) >= 2 =>
        Cardinality({Id(r, k) : k \in g}) = 1 /\ \A k \in g : Id(r, k) # NoId

NoneMerged(r) ==
    \A i \in Ids(r) : Cardinality({exp.files[k].content : k \in PathSet(r, i) \cap ExpFiles}) <= 1

(* As a mutant: only what lacks an identity is looked for. *)
IdentifiedAtLeast(r) == \A k \in expect.identified : Id(r, k) # NoId

IdentifiedExactly(r) ==
    LET got == {k \in DOMAIN r.live : Id(r, k) # NoId}
    IN  expect.identified \subseteq got /\ got \cap ExpFiles \subseteq expect.identified

(* The tool's group of the files of one content, if it has it as one. *)
HasGroup(r, keys) ==
    LET ids == {Id(r, k) : k \in keys}
    IN  /\ NoId \notin ids /\ Cardinality(ids) = 1
        /\ \A i \in ids : PathSet(r, i) = keys /\ i \in DOMAIN r.groups
GroupOf(r, keys) == r.groups[Id(r, CHOOSE k \in keys : TRUE)]

CopiesCounted(r) ==
    \A g \in expect.groups :
        /\ HasGroup(r, g) /\ GroupOf(r, g).drives = expect.proven[g]
        /\ Physical(exp.files, g) < Cardinality(g) => GroupOf(r, g).physical = Physical(exp.files, g)

ScarceSets(r) == {PathSet(r, i) : i \in r.scarce} \cup {{k} : k \in r.scarceFiles}
UnderProtected(r) == ScarceSets(r) \ {{}} = expect.scarce

WasteSets(r) == {PathSet(r, i) : i \in DOMAIN r.waste} \ {{}}
Reclaimed(r) ==
    /\ WasteSets(r) = DOMAIN expect.waste
    /\ \A i \in DOMAIN r.waste : PathSet(r, i) # {} => r.waste[i] = expect.waste[PathSet(r, i)]

(* Groups that counting volumes instead of identified devices gets wrong. *)
IdentityCase(keys) ==
    \/ \E j, k \in keys : j[1] # k[1] /\ Device[j[1]] = Device[k[1]]
    \/ \E k \in keys : k[1] \in Unidentified

ByDevice(r) ==
    \A g \in expect.groups : IdentityCase(g) =>
        /\ HasGroup(r, g) /\ GroupOf(r, g).drives = expect.proven[g]
        /\ GroupOf(r, g).possible = Possible(g)
        /\ g \in WasteSets(r) <=> g \in DOMAIN expect.waste

Headline(r) == r.headline = expect.headline

CorruptionFound(r) == hurt.corrupted \subseteq DOMAIN r.incidents
NoFalseAlarm(r) ==
    /\ DOMAIN r.incidents \subseteq hurt.edited \cup hurt.corrupted
    /\ r.checked \in Nat /\ r.checked >= expect.floor
HoldersTold(r) == \A k \in hurt.corrupted \cap DOMAIN r.incidents : r.incidents[k] = expect.holding[k]
EditsAreEdits(r) == hurt.edited \cap DOMAIN r.incidents = {} /\ hurt.edited \subseteq r.modified

Passes(r) ==
    /\ FileSet(r) /\ LinksReported(r) /\ NothingExcluded(r) /\ NoneThroughLinks(r) /\ Folders(r)
    /\ ModifiedReidentified(r) /\ Tombstoned(r) /\ Recognised(r)
    /\ OneIdentity(r) /\ NoneMerged(r) /\ IdentifiedExactly(r)
    /\ CopiesCounted(r) /\ UnderProtected(r) /\ Reclaimed(r) /\ ByDevice(r) /\ Headline(r)
    /\ CorruptionFound(r) /\ NoFalseAlarm(r) /\ HoldersTold(r) /\ EditsAreEdits(r)

-----------------------------------------------------------------------------
(* What a user acts on: which files there are and which went; which are    *)
(* the same; how many proven copies there are of each, what has too few    *)
(* and what is spare, and the totals; what decayed, how many drives hold   *)
(* it, and that no small file was passed over.                             *)
Alike(r) == {PathSet(r, i) : i \in Ids(r)}
Claims(r) ==
    /\ DOMAIN r.live = DOMAIN disk.files /\ r.vanished = truth.vanished /\ r.dirs = disk.dirs
    /\ \A k \in DOMAIN r.live : r.live[k].size = SizeOf(disk.files[k])
    /\ Alike(r) = Alike(truth)
    /\ \A i \in Ids(r) : i \in DOMAIN r.groups /\ r.groups[i].drives = Proven(PathSet(r, i))
    /\ ScarceSets(r) \ {{}} = ScarceSets(truth)
    /\ WasteSets(r) = WasteSets(truth)
    /\ r.headline = truth.headline
    /\ DOMAIN r.incidents = hurt.corrupted /\ hurt.edited \subseteq r.modified
    /\ \A k \in hurt.corrupted : r.incidents[k] = truth.incidents[k]
    /\ r.checked >= Cardinality(Small(disk.files, Truly))

(* A report that passes these tests says of the drives what is so,         *)
(* whatever the generator planned (evaluate.py).                           *)
WrongNeverPasses == mistakes >= 0 /\ Passes(report) => Claims(report)

(* A report without a mistake passes: where the tool is right, none of     *)
(* these tests misjudges it (evaluate.py, with oracle.py's expectations).  *)
RightAlwaysPasses == mistakes >= 0 /\ report = truth => Passes(report)

(* The tests together decide, in both ways: a report of the rescan and of  *)
(* the verify pass passes them only if it is right in all that is claimed  *)
(* above, and always if it is right in everything (evaluate.py).           *)
JudgeDecides == WrongNeverPasses /\ RightAlwaysPasses
=============================================================================
