-------------------------------- MODULE Roots ---------------------------------
(***************************************************************************)
(* Scope roots (core/scope, core/store/catalog.py): how programs that      *)
(* share a catalog add, remove and scan them while volumes come and go     *)
(* under the drive letters.                                                *)
(*                                                                         *)
(* A path is a sequence whose first element is a letter; a file of a       *)
(* volume is the sequence of names below the letter.  The connection is in *)
(* autocommit mode, so a program's steps interleave with the others' at    *)
(* every statement.  A scan is one step from its listing to its merge here *)
(* (module Scan has its inside); what matters is which row of the dir      *)
(* table it files the tree under.                                          *)
(***************************************************************************)
EXTENDS Integers, FiniteSets, Sequences, SequencesExt

CONSTANTS
    Vols,           \* volumes
    Letters,        \* drive letters
    Paths,          \* the paths somebody may add as a root
    FilesOn,        \* [Vols -> SUBSET Seq(names)]: the files of each volume
    Programs,
    MaxMounts,      \* bound on changes of what a letter names
    MaxAdds,        \* bound on attempts to add a root
    MaxRemovals,    \* bound on removals of a root
    MaxScans,       \* bound on scans
    None

Names == UNION {Range(s) : s \in Paths \cup UNION {FilesOn[v] : v \in Vols}}

ASSUME RootsAssumption ==
    /\ Paths \subseteq Seq(Names) \ {<<>>} /\ \A path \in Paths : Head(path) \in Letters
    /\ FilesOn \in [Vols -> SUBSET Seq(Names)]
    /\ None \notin Vols
    /\ {MaxMounts, MaxAdds, MaxRemovals, MaxScans} \subseteq Nat

VARIABLES
    mounted,        \* [Letters -> Vols \cup {None}]
    scopeRoot,      \* [Vols \X Paths -> status]: the scope_root table, whose key is UNIQUE
    rootDir,        \* the dir rows without a parent: a sequence of [vol, path]
    live,           \* the file rows that count: for each row of rootDir, the files below it
    prog,           \* [Programs -> what each is doing]
    mounts, adds, removals, scans,      \* the bounds' counters
    raced,          \* history: a root came between a validation and its insert
    abreast         \* history: two scans looked up one root before either inserted it

rootVars == <<mounted, scopeRoot, rootDir, live, prog, mounts, adds, removals, scans,
              raced, abreast>>

Idle == [at |-> "idle"]

(* A root is enabled, removed, or was never added. *)
Enabled == {k \in Vols \X Paths : scopeRoot[k] = "enabled"}

Below(vol, path) == {f \in FilesOn[vol] : IsPrefix(Tail(path), f) /\ f # Tail(path)}

(* A folder is there when its volume is mounted and holds something in it. *)
IsDir(path) ==
    mounted[Head(path)] # None /\ (Len(path) > 1 => Below(mounted[Head(path)], path) # {})

(* As a mutant: only an equal root is refused. *)
NestedEqual(p, q) == p = q

Nested(p, q) == IsPrefix(p, q) \/ IsPrefix(q, p)

Become(p, s) == prog' = [prog EXCEPT ![p] = s]

-----------------------------------------------------------------------------
(* The volume under a letter is unplugged, or exchanged for another. *)
Mount(l, v) ==
    /\ mounts < MaxMounts /\ mounted[l] # v
    /\ mounted' = [mounted EXCEPT ![l] = v]
    /\ mounts' = mounts + 1
    /\ prog' = [p \in Programs |->       \* history, for BoundReads
                  IF prog[p].at \in {"bound", "looked", "interned"} /\ Head(prog[p].root[2]) = l
                    THEN [prog[p] EXCEPT !.swapped = TRUE] ELSE prog[p]]
    /\ UNCHANGED <<scopeRoot, rootDir, live, adds, removals, scans, raced, abreast>>

-----------------------------------------------------------------------------
(* Adding a root: the path is validated against the roots there are now,   *)
(* the volume under it is identified, and only then is the row inserted.   *)
Validate(p, path) ==
    /\ prog[p] = Idle /\ adds < MaxAdds
    /\ IsDir(path)
    /\ \A k \in Enabled : ~Nested(path, k[2])
    /\ adds' = adds + 1
    /\ Become(p, [at |-> "validated", path |-> path, others |-> Enabled])
    /\ UNCHANGED <<mounted, scopeRoot, rootDir, live, mounts, removals, scans, raced, abreast>>

Identify(p) ==
    /\ prog[p].at = "validated"
    /\ LET vol == mounted[Head(prog[p].path)] IN
       IF vol = None
         THEN Become(p, Idle)
         ELSE Become(p, [at |-> "identified", root |-> <<vol, prog[p].path>>,
                         others |-> prog[p].others])
    /\ UNCHANGED <<mounted, scopeRoot, rootDir, live, mounts, adds, removals, scans, raced, abreast>>

(* A root that was removed is revived with the row it had. *)
AddScopeRoot(p) ==
    /\ prog[p].at = "identified"
    /\ scopeRoot' = [scopeRoot EXCEPT ![prog[p].root] = "enabled"]
    /\ raced' = (raced \/ Enabled \ prog[p].others # {})
    /\ Become(p, Idle)
    /\ UNCHANGED <<mounted, rootDir, live, mounts, adds, removals, scans, abreast>>

(* Removing a root stops its scans and keeps what it catalogued. *)
RemoveScopeRoot(k) ==
    /\ removals < MaxRemovals /\ k \in Enabled
    /\ scopeRoot' = [scopeRoot EXCEPT ![k] = "removed"]
    /\ removals' = removals + 1
    /\ UNCHANGED <<mounted, rootDir, live, prog, mounts, adds, scans, raced, abreast>>

-----------------------------------------------------------------------------
(* As a mutant: whatever is under the letter is taken for the root. *)
MatchesAnyVolume(k) == IsDir(k[2])

(* A scan reads a root only when the volume it was catalogued from is the  *)
(* one its path names now; otherwise the root is refused, and nothing is   *)
(* recorded.                                                               *)
Matches(k) == IsDir(k[2]) /\ mounted[Head(k[2])] = k[1]

BindRoot(p, k) ==
    /\ prog[p] = Idle /\ scans < MaxScans
    /\ k \in Enabled /\ Matches(k)
    /\ scans' = scans + 1
    /\ Become(p, [at |-> "bound", root |-> k, swapped |-> FALSE])
    /\ UNCHANGED <<mounted, scopeRoot, rootDir, live, mounts, adds, removals, raced, abreast>>

RootRows(k) == {i \in DOMAIN rootDir : rootDir[i] = k}

(* The root's own directory row is looked up and, if there is none,        *)
(* inserted, by two statements: the unique index does not constrain rows   *)
(* without a parent.                                                       *)
LookUpRoot(p) ==
    /\ prog[p].at = "bound"
    /\ Become(p, [at |-> "looked", root |-> prog[p].root, swapped |-> prog[p].swapped,
                  row |-> IF RootRows(prog[p].root) = {} THEN 0
                          ELSE CHOOSE i \in RootRows(prog[p].root) : TRUE])
    /\ abreast' = (abreast \/ \E q \in Programs \ {p} :
                      prog[q].at = "looked" /\ prog[q].root = prog[p].root)
    /\ UNCHANGED <<mounted, scopeRoot, rootDir, live, mounts, adds, removals, scans, raced>>

InternRoot(p) ==
    /\ prog[p].at = "looked"
    /\ IF prog[p].row # 0
         THEN /\ Become(p, [prog[p] EXCEPT !.at = "interned"])
              /\ UNCHANGED <<rootDir, live>>
         ELSE /\ rootDir' = Append(rootDir, prog[p].root)
              /\ live' = Append(live, {})
              /\ Become(p, [prog[p] EXCEPT !.at = "interned", !.row = Len(rootDir) + 1])
    /\ UNCHANGED <<mounted, scopeRoot, mounts, adds, removals, scans, raced, abreast>>

(* The tree is listed and merged under the root's row: what is there now   *)
(* is live, what is not is tombstoned.  A root that cannot be listed       *)
(* leaves the catalog as it was.                                           *)
Merge(p) ==
    /\ prog[p].at = "interned"
    /\ Become(p, Idle)
    /\ live' = IF IsDir(prog[p].root[2])
                 THEN [live EXCEPT ![prog[p].row] =
                          Below(mounted[Head(prog[p].root[2])], prog[p].root[2])]
                 ELSE live
    /\ UNCHANGED <<mounted, scopeRoot, rootDir, mounts, adds, removals, scans, raced, abreast>>

RootsInit ==
    /\ mounted = [l \in Letters |-> None]
    /\ scopeRoot = [k \in Vols \X Paths |-> "never"]
    /\ rootDir = <<>> /\ live = <<>>
    /\ prog = [p \in Programs |-> Idle]
    /\ mounts = 0 /\ adds = 0 /\ removals = 0 /\ scans = 0
    /\ raced = FALSE /\ abreast = FALSE

RootsNext ==
    \/ \E l \in Letters, v \in Vols \cup {None} : Mount(l, v)
    \/ \E k \in Vols \X Paths : RemoveScopeRoot(k)
    \/ \E p \in Programs :
        \/ \E path \in Paths : Validate(p, path)
        \/ Identify(p) \/ AddScopeRoot(p)
        \/ \E k \in Vols \X Paths : BindRoot(p, k)
        \/ LookUpRoot(p) \/ InternRoot(p) \/ Merge(p)

RootsSpec == RootsInit /\ [][RootsNext]_rootVars

-----------------------------------------------------------------------------
Statuses == {"never", "enabled", "removed"}

ProgramStates ==
    {Idle}
      \cup [at : {"validated"}, path : Paths, others : SUBSET (Vols \X Paths)]
      \cup [at : {"identified"}, root : Vols \X Paths, others : SUBSET (Vols \X Paths)]
      \cup [at : {"bound"}, root : Vols \X Paths, swapped : BOOLEAN]
      \cup [at : {"looked", "interned"}, root : Vols \X Paths, swapped : BOOLEAN,
            row : 0 .. Len(rootDir)]

RootsTypeOK ==
    /\ mounted \in [Letters -> Vols \cup {None}]
    /\ scopeRoot \in [Vols \X Paths -> Statuses]
    /\ rootDir \in Seq(Vols \X Paths)
    /\ live \in Seq(SUBSET UNION {FilesOn[v] : v \in Vols}) /\ Len(live) = Len(rootDir)
    /\ prog \in [Programs -> ProgramStates]
    /\ mounts \in 0 .. MaxMounts /\ adds \in 0 .. MaxAdds
    /\ removals \in 0 .. MaxRemovals /\ scans \in 0 .. MaxScans
    /\ raced \in BOOLEAN /\ abreast \in BOOLEAN

(* The roots that are scanned never contain one another, unless one of     *)
(* them was added between another's validation and its insert, which no    *)
(* lock prevents.                                                          *)
EnabledDisjoint ==
    ~raced => \A k, l \in Enabled : Nested(k[2], l[2]) => k = l

(* A root has one directory row, and with it one tree, unless two programs *)
(* looked for the row at the same time.                                    *)
RootRowUnique ==
    ~abreast => \A i, j \in DOMAIN rootDir : rootDir[i] = rootDir[j] => i = j

(* The files a row of rootDir counts twice with another. *)
Shared(i, j) == IF i # j /\ rootDir[i][1] = rootDir[j][1] THEN live[i] \cap live[j] ELSE {}

SameLetter(i, j) == Head(rootDir[i][2]) = Head(rootDir[j][2])

(* A file is catalogued once for each letter its volume was added under,   *)
(* unless a root was removed, or a race let overlapping roots or a second  *)
(* row in.  A file that is catalogued twice counts as a duplicate of       *)
(* itself.                                                                 *)
CataloguedOnce ==
    ~raced /\ ~abreast /\ removals = 0
        => \A i, j \in DOMAIN rootDir : SameLetter(i, j) => Shared(i, j) = {}

(* The roots, their rows and the files under them, each once. *)
EverythingOnce == EnabledDisjoint /\ RootRowUnique /\ CataloguedOnce

(* What is recorded for a volume was read from it: a scan whose letter     *)
(* kept its volume from the check of the root to the merge makes live      *)
(* exactly the files that volume holds below the root.                     *)
BoundReads ==
    [][\A p \in Programs :
         prog[p].at = "interned" /\ prog'[p].at = "idle" /\ ~prog[p].swapped
           => live' = [live EXCEPT ![prog[p].row] = Below(prog[p].root[1], prog[p].root[2])]]_rootVars

(* What core/scope/registry.py:146-150 says the refusal of nested roots is *)
(* for: a directory, and so a file, belongs to exactly one scope root.     *)
OneRootPerFile == \A i, j \in DOMAIN rootDir : Shared(i, j) = {}
=============================================================================
