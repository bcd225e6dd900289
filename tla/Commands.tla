------------------------------- MODULE Commands --------------------------------
(***************************************************************************)
(* The commands that read drives or write anywhere (cli/main.py), the      *)
(* window's start (gui/app.py), and the two rules they all obey: nothing   *)
(* is read before the disclaimer is accepted (core/disclaimer.py), and     *)
(* nothing is written inside a scope root or on its drive                  *)
(* (core/store/catalog.py).                                                *)
(*                                                                         *)
(* Commands run at the same time over one catalog.  Its file lies in a     *)
(* folder of its own, and people move it, with what SQLite keeps beside    *)
(* it, when no command has it open.  Rows are in the file itself once the  *)
(* last connection has closed; until then, and after a crash, they may be  *)
(* in the write-ahead log alone.                                           *)
(***************************************************************************)
EXTENDS Integers, FiniteSets

CONSTANTS
    Shells,         \* running commands
    Text,           \* Text[s]: the disclaimer in the release that s runs
    Verbs,          \* a subset of those DISPATCH knows
    Locations,        \* folders that commands are given
    LetterOf,       \* LetterOf[f]: the letter the path of f begins with
    Around,         \* Around[f]: the folders f is in
    Cards,          \* volumes that may be mounted
    System,         \* the system drive's volume, always mounted
    NoVolume,
    CatalogPlaces,  \* where the catalog may be moved to
    ExportPlaces,
    MaxCommandRuns, MaxSwitches, MaxCatalogMoves, MaxKilled,
    MaxUnseen       \* checks for which discovery does not tell where a place is

VARIABLES
    shell,          \* shell[s]: the state of the command that s runs
    agreed,         \* the texts whose acceptance is in the audit log
    scope,          \* the enabled roots, [path, vol]
    inFile,         \* those that the catalog file itself holds
    catalogAt,      \* the catalog's folder
    mount,          \* mount[l]: the volume under letter l
    spent           \* [runs, switches, moves, killed, unseen]

commandVars == <<shell, agreed, scope, inFile, catalogAt, mount, spent>>

(* The last has no handler in this release. *)
ReadsDrives == {"scope add", "scope preview", "scan", "hash", "verify", "health read"}

Resting == [at |-> "resting", verb |-> "none", then |-> "none", asked |-> {}, left |-> {},
            read |-> {}, found |-> {}, failed |-> FALSE, late |-> FALSE, exit |-> 0, cut |-> FALSE]

VolumeAt(f)  == mount[LetterOf[f]]
Inside(f, g) == f = g \/ g \in Around[f]
Holding      == {s \in Shells : shell[s].at \notin {"resting", "connect"}}

-----------------------------------------------------------------------------
(* The rule on where the catalog, and exports, may be.                     *)

(* Discovery may fail to tell on which volume a place is, or which is the  *)
(* system drive's.                                                         *)
Telling == {"all", "no volume", "no system"}

Told(told) ==
    /\ told = "no volume" => spent.unseen < MaxUnseen
    /\ spent' = IF told = "no volume" THEN [spent EXCEPT !.unseen = @ + 1] ELSE spent

(* A place on the same drive as a root, unless that is the system drive: a *)
(* place on no known volume is taken to share none.                        *)
Sharing(roots, f, told) ==
    told # "no volume" /\ \E r \in roots : r.vol = VolumeAt(f) /\ (r.vol # System \/ told = "no system")

Refuses(roots, told) ==
    (\E r \in roots : Inside(catalogAt, r.path)) \/ Sharing(roots, catalogAt, told)

RefusesExport(f, told) == (\E r \in scope : Inside(f, r.path)) \/ Sharing(scope, f, told)

RefusesRoot(r, told) == Inside(catalogAt, r.path) \/ Sharing({r}, catalogAt, told)

(* The root rows of the file alone, read before anything opens it. *)
RootsOnDisk == inFile

-----------------------------------------------------------------------------
Goes(s, new) == shell' = [shell EXCEPT ![s] = new]

(* What is remembered of a command that has ended. *)
Ended(s, code) ==
    IF shell[s].verb \in {"scan", "hash", "verify"}
    THEN [shell[s] EXCEPT !.at = "resting", !.then = "none", !.exit = code, !.left = {}, !.failed = FALSE]
    ELSE [Resting EXCEPT !.exit = code]

CutOff(s, code) == [Resting EXCEPT !.exit = code, !.cut = TRUE, !.found = shell[s].found]

(* The last connection to close copies the log into the file. *)
Closing(s, roots) == inFile' = IF Holding = {s} THEN roots ELSE inFile
CloseCatalog(s) == Closing(s, scope)

Leave(s, code) == Goes(s, Ended(s, code)) /\ CloseCatalog(s)

(* What a command at a step between a check and a use was told is old now. *)
Outdated(sh) == [s \in Shells |-> [sh[s] EXCEPT !.late = @ \/ sh[s].at = "export"]]

(* main: what reads drives passes the disclaimer first, on a connection of *)
(* its own.                                                                *)
StartCommand(s, v) ==
    /\ shell[s].at = "resting" /\ spent.runs < MaxCommandRuns
    /\ Goes(s, [Resting EXCEPT !.at = "connect", !.verb = v,
                               !.then = IF v \in ReadsDrives \cup {"gui"} THEN "gate" ELSE "handler"])
    /\ spent' = [spent EXCEPT !.runs = @ + 1]
    /\ UNCHANGED <<agreed, scope, inFile, catalogAt, mount>>

(* Before SQLite opens the file, which writes beside it, and again when    *)
(* the rows of the log can be read.                                        *)
OpenCatalog(s) ==
    /\ shell[s].at = "connect"
    /\ \E told \in Telling :
         /\ Told(told)
         /\ Goes(s, IF Refuses(RootsOnDisk, told) THEN Ended(s, 1)
                    ELSE [shell[s] EXCEPT !.at = "settle"])
    /\ UNCHANGED <<agreed, scope, inFile, catalogAt, mount>>

(* For the mutant: the check before connecting is thought to be enough. *)
MigratedUnchecked(s) ==
    /\ shell[s].at = "settle"
    /\ Goes(s, [shell[s] EXCEPT !.at = shell[s].then])
    /\ UNCHANGED <<agreed, scope, inFile, catalogAt, mount, spent>>

Migrated(s) ==
    /\ shell[s].at = "settle"
    /\ \E told \in Telling :
         /\ Told(told)
         /\ IF Refuses(scope, told) THEN Leave(s, 1)
            ELSE Goes(s, [shell[s] EXCEPT !.at = shell[s].then]) /\ UNCHANGED inFile
    /\ UNCHANGED <<agreed, scope, catalogAt, mount>>

(* For the mutant: any acceptance will do, whatever its text was. *)
AcceptedAnyText(s) == agreed # {}

Accepted(s) == Text[s] \in agreed

Agrees(s, answer) == agreed' = IF ~Accepted(s) /\ answer THEN agreed \cup {Text[s]} ELSE agreed

(* A prompt, the flag and the environment accept the same way. *)
DisclaimerGate(s) ==
    /\ shell[s].at = "gate" /\ shell[s].verb # "gui"
    /\ \E answer \in BOOLEAN :
         /\ Agrees(s, answer)
         /\ IF Accepted(s) \/ answer
            THEN Goes(s, [shell[s] EXCEPT !.at = "connect", !.then = "handler"]) /\ CloseCatalog(s)
            ELSE Leave(s, 2)
    /\ UNCHANGED <<scope, catalogAt, mount, spent>>

(* The window asks in a dialog, and stays open on the connection it asked  *)
(* with; declined, it ends without an error.                               *)
WindowConsent(s) ==
    /\ shell[s].at = "gate" /\ shell[s].verb = "gui"
    /\ \E answer \in BOOLEAN :
         /\ Agrees(s, answer)
         /\ IF Accepted(s) \/ answer
            THEN Goes(s, [shell[s] EXCEPT !.at = "window"]) /\ UNCHANGED inFile
            ELSE Leave(s, 0)
    /\ UNCHANGED <<scope, catalogAt, mount, spent>>

-----------------------------------------------------------------------------
Handles(s, v) == shell[s].at = "handler" /\ shell[s].verb = v

Covers(f) == \E r \in scope : Inside(f, r.path) \/ Inside(r.path, f)

(* A refused folder leaves nothing behind; the row of the volume comes     *)
(* before that of the root.                                                *)
ScopeAdd(s) ==
    /\ Handles(s, "scope add")
    /\ \E f \in Locations, told \in Telling :
         LET r == [path |-> f, vol |-> VolumeAt(f)] IN
         /\ Told(told)
         /\ IF r.vol = NoVolume \/ Covers(f) \/ RefusesRoot(r, told) THEN Leave(s, 1)
            ELSE Goes(s, [shell[s] EXCEPT !.at = "insert", !.asked = {r}]) /\ UNCHANGED inFile
    /\ UNCHANGED <<agreed, scope, catalogAt, mount>>

InsertScopeRoot(s) ==
    /\ shell[s].at = "insert"
    /\ \E told \in Telling :
         /\ Told(told)
         /\ IF \E r \in shell[s].asked : RefusesRoot(r, told) THEN Leave(s, 1) /\ UNCHANGED scope
            ELSE /\ scope' = scope \cup shell[s].asked
                 /\ shell' = Outdated([shell EXCEPT ![s] = Ended(s, 0)])
                 /\ Closing(s, scope \cup shell[s].asked)
    /\ UNCHANGED <<agreed, catalogAt, mount>>

ScopeRemove(s) ==
    /\ Handles(s, "scope remove")
    /\ \/ \E r \in scope : scope' = scope \ {r} /\ Goes(s, Ended(s, 0)) /\ Closing(s, scope \ {r})
       \/ UNCHANGED scope /\ Leave(s, 1)
    /\ UNCHANGED <<agreed, catalogAt, mount, spent>>

(* The root's path is read, whatever is mounted there. *)
ScopePreview(s) ==
    /\ Handles(s, "scope preview")
    /\ \/ \E r \in scope :
            Goes(s, [shell[s] EXCEPT !.at = "reading", !.asked = {r}, !.left = {r}]) /\ UNCHANGED inFile
       \/ Leave(s, 1)
    /\ UNCHANGED <<agreed, scope, catalogAt, mount, spent>>

Bound(roots) == {r \in roots : VolumeAt(r.path) = r.vol}

(* For the mutant: a root that is not on its volume is not a failure. *)
BeginsLeniently(s, roots) ==
    [shell[s] EXCEPT !.at = "reading", !.asked = roots, !.left = Bound(roots), !.failed = FALSE]

(* Roots that are not on their volumes are left out, which is a failure. *)
Begins(s, roots) ==
    [shell[s] EXCEPT !.at = "reading", !.asked = roots, !.left = Bound(roots), !.failed = Bound(roots) # roots]

CmdScan(s) ==
    /\ Handles(s, "scan")
    /\ \E roots \in {scope} \cup {{r} : r \in scope} :
         IF roots = {} THEN Leave(s, 1) ELSE Goes(s, Begins(s, roots)) /\ UNCHANGED inFile
    /\ UNCHANGED <<agreed, scope, catalogAt, mount, spent>>

HashOrVerify(s) ==
    /\ \E v \in {"hash", "verify"} : Handles(s, v)
    /\ \E roots \in {scope} \cup {{r \in scope : r.vol = v} : v \in Cards} :
         IF roots # {} /\ Bound(roots) = {} THEN Leave(s, 1)
         ELSE Goes(s, Begins(s, roots)) /\ UNCHANGED inFile
    /\ UNCHANGED <<agreed, scope, catalogAt, mount, spent>>

(* A scan fails where a root cannot be listed, a verify where bytes are    *)
(* not those recorded; what else cannot be read is counted.                *)
Troubles(v) == CASE v = "scan" -> {"unlisted"} [] v = "verify" -> {"mismatch"} [] OTHER -> {}

ReadRoot(s) ==
    /\ shell[s].at = "reading"
    /\ \E r \in shell[s].left, trouble \in Troubles(shell[s].verb) \cup {"none"} :
         /\ VolumeAt(r.path) = NoVolume => trouble = IF shell[s].verb = "scan" THEN "unlisted" ELSE "none"
         /\ Goes(s, [shell[s] EXCEPT !.left = @ \ {r}, !.read = @ \cup {r}, !.found = @ \cup {trouble},
                                     !.failed = @ \/ trouble # "none"])
    /\ UNCHANGED <<agreed, scope, inFile, catalogAt, mount, spent>>

FinishPass(s) ==
    /\ shell[s].at = "reading" /\ shell[s].left = {}
    /\ Leave(s, IF shell[s].failed THEN 1 ELSE 0)
    /\ UNCHANGED <<agreed, scope, catalogAt, mount, spent>>

(* A folder for an export is checked, and then written to. *)
ExportCheck(s) ==
    /\ Handles(s, "export")
    /\ \E f \in ExportPlaces, told \in Telling :
         /\ Told(told)
         /\ IF RefusesExport(f, told) THEN Leave(s, 1)
            ELSE Goes(s, [shell[s] EXCEPT !.at = "export", !.asked = {[path |-> f, vol |-> VolumeAt(f)]}])
                 /\ UNCHANGED inFile
    /\ UNCHANGED <<agreed, scope, catalogAt, mount>>

ExportWrite(s) ==
    /\ shell[s].at = "export"
    /\ Leave(s, 0)
    /\ UNCHANGED <<agreed, scope, catalogAt, mount, spent>>

(* The window scans when asked to, and is closed. *)
WindowScan(s) ==
    /\ shell[s].at = "window" /\ shell[s].left = {} /\ scope # {}
    /\ Goes(s, [shell[s] EXCEPT !.left = Bound(scope)])
    /\ UNCHANGED <<agreed, scope, inFile, catalogAt, mount, spent>>

WindowClose(s) ==
    /\ shell[s].at = "window" /\ Leave(s, 0)
    /\ UNCHANGED <<agreed, scope, catalogAt, mount, spent>>

(* Whoever reads the output stops, which is no error; the user interrupts  *)
(* the command; or it is killed, and nothing is copied from the log.       *)
Cut(s) ==
    /\ shell[s].at \notin {"resting", "connect", "window"}
    /\ \E code \in {0, 130} :
         Goes(s, CutOff(s, code)) /\ CloseCatalog(s)
    /\ UNCHANGED <<agreed, scope, catalogAt, mount, spent>>

KillCommand(s) ==
    /\ shell[s].at # "resting" /\ spent.killed < MaxKilled
    /\ Goes(s, CutOff(s, 137))
    /\ spent' = [spent EXCEPT !.killed = @ + 1]
    /\ UNCHANGED <<agreed, scope, inFile, catalogAt, mount>>

-----------------------------------------------------------------------------
(* Volumes come and go, but not the one the catalog is on. *)
Switch ==
    /\ spent.switches < MaxSwitches /\ spent' = [spent EXCEPT !.switches = @ + 1]
    /\ \E l \in DOMAIN mount, v \in Cards \cup {NoVolume} :
         /\ l # LetterOf[catalogAt] /\ mount[l] # System /\ v # System
         /\ v = NoVolume \/ v \notin {mount[k] : k \in DOMAIN mount}
         /\ mount' = [mount EXCEPT ![l] = v]
    /\ shell' = Outdated(shell)
    /\ UNCHANGED <<agreed, scope, inFile, catalogAt>>

MoveCatalog ==
    /\ Holding = {} /\ spent.moves < MaxCatalogMoves /\ spent' = [spent EXCEPT !.moves = @ + 1]
    /\ catalogAt' \in {f \in CatalogPlaces : VolumeAt(f) # NoVolume}
    /\ UNCHANGED <<shell, agreed, scope, inFile, mount>>

CommandsInit ==
    /\ shell = [s \in Shells |-> Resting] /\ agreed = {}
    /\ scope = {} /\ inFile = {}
    /\ catalogAt \in CatalogPlaces
    /\ mount \in [{LetterOf[f] : f \in Locations} -> Cards]
    /\ System \in {mount[l] : l \in DOMAIN mount}
    /\ \A k, l \in DOMAIN mount : mount[k] = mount[l] => k = l
    /\ spent = [runs |-> 0, switches |-> 0, moves |-> 0, killed |-> 0, unseen |-> 0]

CommandStep(s) ==
    \/ \E v \in Verbs : StartCommand(s, v)
    \/ OpenCatalog(s) \/ Migrated(s) \/ DisclaimerGate(s) \/ WindowConsent(s)
    \/ ScopeAdd(s) \/ InsertScopeRoot(s) \/ ScopeRemove(s) \/ ScopePreview(s)
    \/ CmdScan(s) \/ HashOrVerify(s) \/ ReadRoot(s) \/ FinishPass(s)
    \/ ExportCheck(s) \/ ExportWrite(s) \/ WindowScan(s) \/ WindowClose(s)
    \/ Cut(s) \/ KillCommand(s)

CommandsNext == Switch \/ MoveCatalog \/ \E s \in Shells : CommandStep(s)

CommandsSpec == CommandsInit /\ [][CommandsNext]_commandVars

-----------------------------------------------------------------------------
CommandsTypeOK ==
    /\ agreed \subseteq {Text[s] : s \in Shells}
    /\ scope \cup inFile \subseteq [path : Locations, vol : Cards]
    /\ catalogAt \in CatalogPlaces
    /\ \A s \in Shells : shell[s].at \in
          {"resting", "connect", "settle", "gate", "handler", "insert", "reading", "export", "window"}

OnItsOwnDrive(f) == \A r \in scope : r.vol = VolumeAt(f) => r.vol = System

(* Outside every scope root, and on another drive or the system drive,     *)
(* where discovery told every check on which volume a place is.            *)
Clear(f) ==
    /\ \A r \in scope : ~Inside(f, r.path)
    /\ spent.unseen = 0 => OnItsOwnDrive(f)

(* The catalog is not used where it may not be, inside a scope root or on  *)
(* the drive of one, wherever people move it, whatever crashes leave in    *)
(* its log and whichever command adds a root; and an export is written     *)
(* outside scope, unless scope or the drives changed after the check.  The *)
(* drives count only while every check could identify the volume.          *)
WritesOutsideScope ==
    \A s \in Shells :
        /\ shell[s].at \notin {"resting", "connect", "settle"} => Clear(catalogAt)
        /\ shell[s].at = "export" /\ ~shell[s].late => \A e \in shell[s].asked : Clear(e.path)

(* What catalog.py:175-177 says of a catalog whose volume cannot be        *)
(* identified: it cannot be on the drive of a root.  But discovery may     *)
(* fail on a volume that it identified when the root was added.            *)
UnseenIsElsewhere ==
    \A s \in Shells : shell[s].at \notin {"resting", "connect", "settle"} => OnItsOwnDrive(catalogAt)

(* No drive is read by a release whose disclaimer nobody has accepted,     *)
(* whatever was accepted for another release over the same catalog         *)
(* (REVIEW SR-25).                                                         *)
ReadsAfterAcceptance ==
    \A s \in Shells : shell[s].at \in {"insert", "reading", "window"} => Text[s] \in agreed

(* A scan, hash or verify that ends with exit code 0 read every root it    *)
(* was asked for, each of which was on its volume when the pass began, and *)
(* met with no trouble, unless it was cut short.                           *)
ExitTellsTruth ==
    \A s \in Shells :
        shell[s].at = "resting" /\ shell[s].exit = 0 /\ ~shell[s].cut
            /\ shell[s].verb \in {"scan", "hash", "verify"}
          => shell[s].read = shell[s].asked /\ shell[s].found \subseteq {"none"}

(* What cli/main.py:852-853 says of a mismatch: it does not look like      *)
(* success.  Where the reader of the output stopped reading, it does.      *)
MismatchFails ==
    \A s \in Shells : "mismatch" \in shell[s].found /\ shell[s].at = "resting" => shell[s].exit # 0

(* What catalog.py:98-100 says of the check before connecting: opening   *)
(* is the very write to the observed tree it prevents.  Not where a crash  *)
(* left a root in the log alone.                                           *)
NeverOpenedInScope == \A s \in Shells : shell[s].at = "settle" => Clear(catalogAt)
=============================================================================
