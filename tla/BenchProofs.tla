------------------------------ MODULE BenchProofs ------------------------------
(***************************************************************************)
(* Proofs about the commands, and about the bench that drives them: the    *)
(* dataset it uses up, what its oracle expects, the judgement of a report  *)
(* and the campaign of its runs.                                           *)
(***************************************************************************)
EXTENDS Dataset, Judge, Campaign, Commands, FiniteSetTheorems, SequenceTheorems, TLAPS

-----------------------------------------------------------------------------
(***************************************************************************)
(* Commands.  The disclaimer stands between every command and the drives   *)
(* it reads, for any number of commands over one catalog, in releases of   *)
(* any texts, whatever is cut short, killed, unplugged or moved meanwhile. *)
(*                                                                         *)
(* The argument follows a command from its start: the only way from the    *)
(* gate to its handler is an acceptance of the text of its own release,    *)
(* and an acceptance, once in the log, is never taken back.                *)
(*                                                                         *)
(* The catalog and the exports stay outside scope: who has the catalog     *)
(* open found its place clear, or inherited that, and only what was itself *)
(* checked against the place joins the scope.                              *)
(*                                                                         *)
(* And an exit code tells the truth: what a pass has read and what it has  *)
(* left make up what it was asked for, unless it knows that it failed.     *)
(***************************************************************************)

(* Steps at which a command reads drives, or can go on to. *)
MayRead(c) ==
    \/ c.at \in {"insert", "reading", "window"}
    \/ c.verb \in ReadsDrives /\ c.at = "handler"
    \/ c.verb \in ReadsDrives /\ c.at \in {"connect", "settle"} /\ c.then = "handler"

WellFormed(c) ==
    /\ {"at", "verb", "then", "late", "left", "read", "found", "failed", "asked", "exit", "cut"}
         \subseteq DOMAIN c
    /\ c.then \in {"none", "gate", "handler"}

GateInv ==
    /\ shell = [s \in Shells |-> shell[s]]
    /\ \A s \in Shells : WellFormed(shell[s]) /\ (MayRead(shell[s]) => Text[s] \in agreed)

-----------------------------------------------------------------------------
(* A step of one command. *)
LEMMA OneGoesOn ==
    ASSUME GateInv, NEW s \in Shells, NEW new, Goes(s, new), agreed \subseteq agreed',
           WellFormed(new), MayRead(new) => Text[s] \in agreed'
    PROVE  GateInv'
<1>1. shell' = [shell EXCEPT ![s] = new]
  BY DEF Goes
<1>2. \A t \in Shells : shell'[t] = IF t = s THEN new ELSE shell[t]
  BY <1>1 DEF GateInv
<1>3. shell' = [t \in Shells |-> shell'[t]]
  BY <1>1 DEF GateInv
<1>4. ASSUME NEW t \in Shells PROVE WellFormed(shell'[t]) /\ (MayRead(shell'[t]) => Text[t] \in agreed')
  <2>1. CASE t = s
    <3>1. shell'[t] = new
      BY <1>2, <2>1
    <3> QED
      BY <2>1, <3>1
  <2>2. CASE t # s
    <3>1. shell'[t] = shell[t]
      BY <1>2, <2>2
    <3> QED
      BY <3>1 DEF GateInv
  <2> QED
    BY <2>1, <2>2
<1> QED
  BY <1>3, <1>4 DEF GateInv, MayRead, WellFormed

LEMMA RestingIsSafe ==
    /\ WellFormed(Resting) /\ ~MayRead(Resting)
    /\ \A x : WellFormed([Resting EXCEPT !.exit = x]) /\ ~MayRead([Resting EXCEPT !.exit = x])
BY DEF Resting, WellFormed, MayRead

LEMMA EndIsSafe ==
    ASSUME NEW s \in Shells, WellFormed(shell[s]), NEW code
    PROVE  WellFormed(Ended(s, code)) /\ ~MayRead(Ended(s, code))
<1>1. CASE shell[s].verb \in {"scan", "hash", "verify"}
  <2>1. Ended(s, code) = [shell[s] EXCEPT !.at = "resting", !.then = "none", !.exit = code, !.left = {},
                                          !.failed = FALSE]
    BY <1>1 DEF Ended
  <2> QED
    BY <2>1 DEF WellFormed, MayRead
<1>2. CASE ~(shell[s].verb \in {"scan", "hash", "verify"})
  <2>1. Ended(s, code) = [Resting EXCEPT !.exit = code]
    BY <1>2 DEF Ended
  <2> QED
    BY <2>1, RestingIsSafe
<1> QED
  BY <1>1, <1>2

LEMMA LeaveHolds ==
    ASSUME GateInv, NEW s \in Shells, NEW code, Leave(s, code), agreed \subseteq agreed'
    PROVE  GateInv'
<1>1. WellFormed(Ended(s, code)) /\ ~MayRead(Ended(s, code))
  BY EndIsSafe DEF GateInv
<1>2. Goes(s, Ended(s, code))
  BY DEF Leave
<1> QED
  BY <1>1, <1>2, OneGoesOn

(* What commands are told of the drives says nothing about the gate. *)
LEMMA OutdatedHolds ==
    ASSUME NEW sh, sh = [s \in Shells |-> sh[s]], NEW s \in Shells, WellFormed(sh[s])
    PROVE  /\ WellFormed(Outdated(sh)[s]) /\ MayRead(Outdated(sh)[s]) = MayRead(sh[s])
           /\ Outdated(sh) = [t \in Shells |-> Outdated(sh)[t]]
BY DEF Outdated, WellFormed, MayRead

-----------------------------------------------------------------------------
LEMMA StartHolds == ASSUME GateInv, NEW s \in Shells, NEW v, StartCommand(s, v) PROVE GateInv'
<1> DEFINE new == [Resting EXCEPT !.at = "connect", !.verb = v,
                     !.then = IF v \in ReadsDrives \cup {"gui"} THEN "gate" ELSE "handler"]
<1>1. Goes(s, new) /\ agreed' = agreed
  BY DEF StartCommand
<1>2. WellFormed(new) /\ ~MayRead(new)
  BY DEF WellFormed, MayRead, Resting
<1> HIDE DEF new
<1> QED
  BY <1>1, <1>2, OneGoesOn

LEMMA OpenHolds == ASSUME GateInv, NEW s \in Shells, OpenCatalog(s) PROVE GateInv'
<1>1. WellFormed(shell[s]) /\ (MayRead(shell[s]) => Text[s] \in agreed) /\ agreed' = agreed
  BY DEF GateInv, OpenCatalog
<1>2. CASE Goes(s, Ended(s, 1))
  BY <1>1, <1>2, EndIsSafe, OneGoesOn
<1>3. CASE Goes(s, [shell[s] EXCEPT !.at = "settle"])
  <2> DEFINE new == [shell[s] EXCEPT !.at = "settle"]
  <2>1. WellFormed(new) /\ (MayRead(new) => MayRead(shell[s]))
    BY <1>1 DEF WellFormed, MayRead, OpenCatalog
  <2> HIDE DEF new
  <2>2. Goes(s, new)
    BY <1>3 DEF new
  <2> QED
    BY <1>1, <2>1, <2>2, OneGoesOn
<1> QED
  BY <1>2, <1>3 DEF OpenCatalog

LEMMA MigratedHolds == ASSUME GateInv, NEW s \in Shells, Migrated(s) PROVE GateInv'
<1>1. WellFormed(shell[s]) /\ (MayRead(shell[s]) => Text[s] \in agreed) /\ agreed' = agreed
  BY DEF GateInv, Migrated
<1>2. CASE Leave(s, 1)
  BY <1>1, <1>2, LeaveHolds
<1>3. CASE Goes(s, [shell[s] EXCEPT !.at = shell[s].then])
  <2> DEFINE new == [shell[s] EXCEPT !.at = shell[s].then]
  <2>1. WellFormed(new) /\ (MayRead(new) => MayRead(shell[s]))
    BY <1>1 DEF WellFormed, MayRead, Migrated
  <2> HIDE DEF new
  <2>2. Goes(s, new)
    BY <1>3 DEF new
  <2> QED
    BY <1>1, <2>1, <2>2, OneGoesOn
<1> QED
  BY <1>2, <1>3 DEF Migrated

(* Both gates: who goes on has accepted, now or before. *)
LEMMA GatesHold ==
    ASSUME GateInv, NEW s \in Shells, DisclaimerGate(s) \/ WindowConsent(s) PROVE GateInv'
<1>1. WellFormed(shell[s])
  BY DEF GateInv
<1>2. PICK answer \in BOOLEAN :
        /\ Agrees(s, answer)
        /\ \/ /\ Accepted(s) \/ answer
              /\ \/ Goes(s, [shell[s] EXCEPT !.at = "connect", !.then = "handler"])
                 \/ Goes(s, [shell[s] EXCEPT !.at = "window"])
           \/ \E code \in {0, 2} : Leave(s, code)
  BY DEF DisclaimerGate, WindowConsent
<1>3. agreed \subseteq agreed' /\ (Accepted(s) \/ answer => Text[s] \in agreed')
  BY <1>2 DEF Agrees, Accepted
<1>4. CASE \E code \in {0, 2} : Leave(s, code)
  BY <1>3, <1>4, LeaveHolds
<1>5. CASE /\ Accepted(s) \/ answer
           /\ Goes(s, [shell[s] EXCEPT !.at = "connect", !.then = "handler"])
  <2>1. WellFormed([shell[s] EXCEPT !.at = "connect", !.then = "handler"])
    BY <1>1 DEF WellFormed
  <2> QED
    BY <1>3, <1>5, <2>1, OneGoesOn
<1>6. CASE (Accepted(s) \/ answer) /\ Goes(s, [shell[s] EXCEPT !.at = "window"])
  <2>1. WellFormed([shell[s] EXCEPT !.at = "window"])
    BY <1>1 DEF WellFormed
  <2> QED
    BY <1>3, <1>6, <2>1, OneGoesOn
<1> QED
  BY <1>2, <1>4, <1>5, <1>6

-----------------------------------------------------------------------------
(* A command that was let in goes on, and stays the command it was. *)
LEMMA LetInGoesOn ==
    ASSUME GateInv, NEW s \in Shells, NEW new, Goes(s, new), WellFormed(shell[s]) => WellFormed(new),
           agreed' = agreed, MayRead(shell[s]) \/ ~MayRead(new)
    PROVE  GateInv'
BY OneGoesOn DEF GateInv

LEMMA ScopeAddHolds == ASSUME GateInv, NEW s \in Shells, ScopeAdd(s) PROVE GateInv'
<1>1. agreed' = agreed /\ MayRead(shell[s])
  BY DEF ScopeAdd, Handles, MayRead, ReadsDrives
<1>2. \/ Leave(s, 1)
      \/ \E x : Goes(s, [shell[s] EXCEPT !.at = "insert", !.asked = x])
  BY DEF ScopeAdd
<1>3. \A x : WellFormed(shell[s]) => WellFormed([shell[s] EXCEPT !.at = "insert", !.asked = x])
  BY DEF WellFormed
<1> QED
  BY <1>1, <1>2, <1>3, LeaveHolds, LetInGoesOn

LEMMA InsertHolds == ASSUME GateInv, NEW s \in Shells, InsertScopeRoot(s) PROVE GateInv'
<1>1. CASE Leave(s, 1)
  BY <1>1, LeaveHolds DEF InsertScopeRoot
<1>2. CASE shell' = Outdated([shell EXCEPT ![s] = Ended(s, 0)])
  <2> DEFINE sh == [shell EXCEPT ![s] = Ended(s, 0)]
  <2>1. WellFormed(Ended(s, 0)) /\ ~MayRead(Ended(s, 0)) /\ agreed' = agreed
    BY EndIsSafe DEF GateInv, InsertScopeRoot
  <2>2. /\ sh = [t \in Shells |-> sh[t]]
        /\ \A t \in Shells : sh[t] = IF t = s THEN Ended(s, 0) ELSE shell[t]
    BY DEF GateInv
  <2>3. \A t \in Shells : WellFormed(sh[t]) /\ (MayRead(sh[t]) => Text[t] \in agreed)
    BY <2>1, <2>2 DEF GateInv
  <2> HIDE DEF sh
  <2>4. \A t \in Shells : WellFormed(Outdated(sh)[t]) /\ (MayRead(Outdated(sh)[t]) => Text[t] \in agreed)
    BY <2>2, <2>3, OutdatedHolds
  <2>5. Outdated(sh) = [t \in Shells |-> Outdated(sh)[t]]
    BY DEF Outdated
  <2>6. shell' = Outdated(sh)
    BY <1>2 DEF sh
  <2> QED
    BY <2>1, <2>4, <2>5, <2>6 DEF GateInv, MayRead, WellFormed
<1> QED
  BY <1>1, <1>2 DEF InsertScopeRoot

LEMMA SwitchHolds == ASSUME GateInv, Switch PROVE GateInv'
<1>1. shell' = Outdated(shell) /\ agreed' = agreed
  BY DEF Switch
<1>2. \A t \in Shells : WellFormed(Outdated(shell)[t]) /\ (MayRead(Outdated(shell)[t]) => Text[t] \in agreed)
  BY OutdatedHolds DEF GateInv
<1>3. Outdated(shell) = [t \in Shells |-> Outdated(shell)[t]]
  BY DEF Outdated
<1> QED
  BY <1>1, <1>2, <1>3 DEF GateInv, MayRead, WellFormed

LEMMA RemovalHolds == ASSUME GateInv, NEW s \in Shells, ScopeRemove(s) PROVE GateInv'
<1>1. agreed' = agreed /\ (Goes(s, Ended(s, 0)) \/ Leave(s, 1))
  BY DEF ScopeRemove
<1> QED
  BY <1>1, EndIsSafe, LeaveHolds, LetInGoesOn DEF GateInv

(* A command begins to read what it was asked for. *)
LEMMA BeginsHolds ==
    ASSUME GateInv, NEW s \in Shells, ScopePreview(s) \/ CmdScan(s) \/ HashOrVerify(s) PROVE GateInv'
<1>1. agreed' = agreed /\ MayRead(shell[s])
  BY DEF ScopePreview, CmdScan, HashOrVerify, Handles, MayRead, ReadsDrives
<1>2. \/ Leave(s, 1)
      \/ \E x, y : Goes(s, [shell[s] EXCEPT !.at = "reading", !.asked = x, !.left = y])
      \/ \E x : Goes(s, Begins(s, x))
  BY DEF ScopePreview, CmdScan, HashOrVerify
<1>3. ASSUME WellFormed(shell[s]), NEW x, NEW y
      PROVE  /\ WellFormed([shell[s] EXCEPT !.at = "reading", !.asked = x, !.left = y])
             /\ WellFormed(Begins(s, x))
  BY <1>3 DEF WellFormed, Begins
<1> QED
  BY <1>1, <1>2, <1>3, LeaveHolds, LetInGoesOn

LEMMA ReadingHolds == ASSUME GateInv, NEW s \in Shells, ReadRoot(s) \/ WindowScan(s) PROVE GateInv'
<1>1. agreed' = agreed /\ MayRead(shell[s])
  BY DEF ReadRoot, WindowScan, MayRead
<1>2. \/ \E x, y, z, w : Goes(s, [shell[s] EXCEPT !.left = x, !.read = y, !.found = z, !.failed = w])
      \/ \E x : Goes(s, [shell[s] EXCEPT !.left = x])
  BY DEF ReadRoot, WindowScan
<1>3. ASSUME WellFormed(shell[s]), NEW x, NEW y, NEW z, NEW w
      PROVE  /\ WellFormed([shell[s] EXCEPT !.left = x, !.read = y, !.found = z, !.failed = w])
             /\ WellFormed([shell[s] EXCEPT !.left = x])
  BY <1>3 DEF WellFormed
<1> QED
  BY <1>1, <1>2, <1>3, LetInGoesOn

LEMMA ExportHolds == ASSUME GateInv, NEW s \in Shells, ExportCheck(s) PROVE GateInv'
<1>1. /\ agreed' = agreed
      /\ \/ Leave(s, 1)
         \/ \E x : Goes(s, [shell[s] EXCEPT !.at = "export", !.asked = x])
  BY DEF ExportCheck
<1>2. ASSUME WellFormed(shell[s]), NEW x
      PROVE  /\ WellFormed([shell[s] EXCEPT !.at = "export", !.asked = x])
             /\ ~MayRead([shell[s] EXCEPT !.at = "export", !.asked = x])
  BY <1>2 DEF WellFormed, MayRead
<1> QED
  BY <1>1, <1>2, LeaveHolds, LetInGoesOn DEF GateInv

LEMMA EndsHold ==
    ASSUME GateInv, NEW s \in Shells, FinishPass(s) \/ ExportWrite(s) \/ WindowClose(s) PROVE GateInv'
<1>1. agreed' = agreed /\ \E code \in {0, 1} : Leave(s, code)
  BY DEF FinishPass, ExportWrite, WindowClose
<1> QED
  BY <1>1, LeaveHolds

LEMMA CutHolds == ASSUME GateInv, NEW s \in Shells, Cut(s) \/ KillCommand(s) PROVE GateInv'
<1>1. agreed' = agreed /\ \E code \in {0, 130, 137} : Goes(s, CutOff(s, code))
  BY DEF Cut, KillCommand
<1>2. \A code \in {0, 130, 137} : WellFormed(CutOff(s, code)) /\ ~MayRead(CutOff(s, code))
  BY DEF CutOff, Resting, WellFormed, MayRead
<1> QED
  BY <1>1, <1>2, LetInGoesOn

-----------------------------------------------------------------------------
LEMMA GateStepHolds == ASSUME GateInv, [CommandsNext]_commandVars PROVE GateInv'
<1>1. CASE UNCHANGED <<shell, agreed>>
  BY <1>1 DEF GateInv, MayRead, WellFormed
<1>2. CASE Switch
  BY <1>2, SwitchHolds
<1>3. ASSUME NEW s \in Shells, CommandStep(s) PROVE GateInv'
  BY <1>3, StartHolds, OpenHolds, MigratedHolds, GatesHold, ScopeAddHolds, InsertHolds, RemovalHolds,
     BeginsHolds, ReadingHolds, ExportHolds, EndsHold, CutHolds DEF CommandStep
<1> QED
  BY <1>1, <1>2, <1>3 DEF CommandsNext, MoveCatalog, commandVars

LEMMA GateInitHolds == CommandsInit => GateInv
BY RestingIsSafe DEF CommandsInit, GateInv

(* No drive is read by a release whose disclaimer nobody has accepted, by  *)
(* any command or the window, whatever was accepted for another release.   *)
THEOREM NothingReadUnaccepted == CommandsSpec => []ReadsAfterAcceptance
<1>1. GateInv => ReadsAfterAcceptance
  BY DEF GateInv, MayRead, ReadsAfterAcceptance
<1> QED
  BY <1>1, GateInitHolds, GateStepHolds, PTL DEF CommandsSpec

-----------------------------------------------------------------------------
Early == {"resting", "connect", "settle"}

Spendings == [runs : Nat, switches : Nat, moves : Nat, killed : Nat, unseen : Nat]

PlaceInv ==
    /\ spent \in Spendings
    /\ \A s \in Shells :
        /\ shell[s].at \notin Early => Clear(catalogAt)
        /\ shell[s].at = "export" /\ ~shell[s].late => \A e \in shell[s].asked : Clear(e.path)

(* No check of which a volume stayed hidden is forgotten. *)
SpentGoesOn == spent' \in Spendings /\ (spent'.unseen = 0 => spent.unseen = 0)

LEMMA Spending ==
    ASSUME spent \in Spendings,
           \/ UNCHANGED spent \/ (\E told \in Telling : Told(told))
           \/ spent' = [spent EXCEPT !.runs = @ + 1] \/ spent' = [spent EXCEPT !.switches = @ + 1]
           \/ spent' = [spent EXCEPT !.moves = @ + 1] \/ spent' = [spent EXCEPT !.killed = @ + 1]
    PROVE  SpentGoesOn
<1>1. ASSUME NEW n \in Nat
      PROVE  /\ [spent EXCEPT !.runs = n] \in Spendings /\ [spent EXCEPT !.runs = n].unseen = spent.unseen
             /\ [spent EXCEPT !.switches = n] \in Spendings /\ [spent EXCEPT !.switches = n].unseen = spent.unseen
             /\ [spent EXCEPT !.moves = n] \in Spendings /\ [spent EXCEPT !.moves = n].unseen = spent.unseen
             /\ [spent EXCEPT !.killed = n] \in Spendings /\ [spent EXCEPT !.killed = n].unseen = spent.unseen
             /\ [spent EXCEPT !.unseen = n] \in Spendings /\ [spent EXCEPT !.unseen = n].unseen = n
  BY DEF Spendings
<1>2. /\ spent.runs + 1 \in Nat /\ spent.switches + 1 \in Nat /\ spent.moves + 1 \in Nat
      /\ spent.killed + 1 \in Nat /\ spent.unseen + 1 \in Nat /\ spent.unseen + 1 # 0
  BY DEF Spendings
<1>3. \/ UNCHANGED spent
      \/ spent' = [spent EXCEPT !.unseen = spent.unseen + 1]
      \/ spent' = [spent EXCEPT !.runs = spent.runs + 1]
      \/ spent' = [spent EXCEPT !.switches = spent.switches + 1]
      \/ spent' = [spent EXCEPT !.moves = spent.moves + 1]
      \/ spent' = [spent EXCEPT !.killed = spent.killed + 1]
  BY Zenon DEF Told
<1> QED
  BY <1>1, <1>2, <1>3, Zenon DEF SpentGoesOn

LEMMA HiddenCounts ==
    ASSUME spent \in Spendings, NEW told, Told(told) PROVE spent'.unseen = 0 => told # "no volume"
<1>1. [spent EXCEPT !.unseen = spent.unseen + 1].unseen # 0
  BY DEF Spendings
<1> QED
  BY <1>1, Zenon DEF Told

(* One command goes on, and no root is added. *)
LEMMA OneChanges ==
    ASSUME GateInv, PlaceInv, SpentGoesOn, NEW s \in Shells, NEW new, Goes(s, new),
           UNCHANGED <<catalogAt, mount>>, scope' \subseteq scope,
           new.at \notin Early => Clear(catalogAt)',
           new.at = "export" => \A e \in new.asked : Clear(e.path)'
    PROVE  PlaceInv'
<1>1. \A t \in Shells : shell'[t] = IF t = s THEN new ELSE shell[t]
  BY DEF Goes, GateInv
<1>2. Clear(catalogAt) => Clear(catalogAt)'
  BY DEF Clear, OnItsOwnDrive, VolumeAt, Inside, SpentGoesOn
<1>3. ASSUME NEW f, Clear(f) PROVE Clear(f)'
  BY <1>3 DEF Clear, OnItsOwnDrive, VolumeAt, Inside, SpentGoesOn
<1> SUFFICES ASSUME NEW t \in Shells
             PROVE  /\ shell'[t].at \notin Early => Clear(catalogAt)'
                    /\ shell'[t].at = "export" /\ ~shell'[t].late => \A e \in shell'[t].asked : Clear(e.path)'
  BY DEF PlaceInv, Early, SpentGoesOn, Spendings
<1>4. CASE t = s
  BY <1>1, <1>4
<1>5. CASE t # s
  <2>1. shell'[t] = shell[t]
    BY <1>1, <1>5
  <2>2. shell[t].at = "export" /\ ~shell[t].late => \A e \in shell[t].asked : Clear(e.path)
    BY DEF PlaceInv
  <2>3. ASSUME shell[t].at = "export", ~shell[t].late, NEW e \in shell[t].asked PROVE Clear(e.path)'
    BY <1>3, <2>2, <2>3
  <2>4. shell[t].at \notin Early => Clear(catalogAt)'
    BY <1>2 DEF PlaceInv
  <2> QED
    BY <2>1, <2>3, <2>4
<1> QED
  BY <1>4, <1>5

(* Most steps end the command, or are those of one that has the catalog    *)
(* open already.                                                           *)
LEMMA OrdinaryStep ==
    ASSUME GateInv, PlaceInv, SpentGoesOn, NEW s \in Shells, NEW new, Goes(s, new),
           UNCHANGED <<catalogAt, mount>>, scope' \subseteq scope,
           new.at \in Early \/ (shell[s].at \notin Early /\ new.at # "export")
    PROVE  PlaceInv'
<1>1. new.at \notin Early => Clear(catalogAt)
  BY DEF PlaceInv
<1>2. new.at \notin Early => Clear(catalogAt)'
  BY <1>1 DEF Clear, OnItsOwnDrive, VolumeAt, Inside, SpentGoesOn
<1>3. new.at # "export"
  BY DEF Early
<1> QED
  BY <1>2, <1>3, OneChanges

LEMMA EndedIsEarly ==
    ASSUME NEW s \in Shells, WellFormed(shell[s]), NEW code PROVE Ended(s, code).at \in Early
<1>1. CASE shell[s].verb \in {"scan", "hash", "verify"}
  <2>1. Ended(s, code) = [shell[s] EXCEPT !.at = "resting", !.then = "none", !.exit = code, !.left = {},
                                          !.failed = FALSE]
    BY <1>1 DEF Ended
  <2> QED
    BY <2>1 DEF WellFormed, Early
<1>2. CASE ~(shell[s].verb \in {"scan", "hash", "verify"})
  <2>1. Ended(s, code) = [Resting EXCEPT !.exit = code]
    BY <1>2 DEF Ended
  <2> QED
    BY <2>1 DEF Resting, Early
<1> QED
  BY <1>1, <1>2

LEMMA LeaveKeepsPlaces ==
    ASSUME GateInv, PlaceInv, SpentGoesOn, NEW s \in Shells, NEW code,
           Leave(s, code) \/ Goes(s, Ended(s, code)), UNCHANGED <<catalogAt, mount>>, scope' \subseteq scope
    PROVE  PlaceInv'
<1>1. Ended(s, code).at \in Early
  BY EndedIsEarly DEF GateInv
<1>2. Goes(s, Ended(s, code))
  BY DEF Leave
<1> QED
  BY <1>1, <1>2, OrdinaryStep

LEMMA ArrivalsKeepPlaces ==
    ASSUME GateInv, PlaceInv, NEW s \in Shells, (\E v : StartCommand(s, v)) \/ OpenCatalog(s)
    PROVE  PlaceInv'
<1>1. UNCHANGED <<catalogAt, mount, scope>> /\ WellFormed(shell[s]) /\ SpentGoesOn
  BY Spending DEF StartCommand, OpenCatalog, GateInv, PlaceInv
<1>2. ASSUME NEW v, StartCommand(s, v) PROVE PlaceInv'
  <2> DEFINE new == [Resting EXCEPT !.at = "connect", !.verb = v,
                       !.then = IF v \in ReadsDrives \cup {"gui"} THEN "gate" ELSE "handler"]
  <2>1. new.at \in Early
    BY DEF Resting, Early
  <2>2. Goes(s, new)
    BY <1>2 DEF StartCommand
  <2> HIDE DEF new
  <2> QED
    BY <1>1, <2>1, <2>2, OrdinaryStep
<1>3. CASE Goes(s, [shell[s] EXCEPT !.at = "settle"])
  <2>1. [shell[s] EXCEPT !.at = "settle"].at \in Early
    BY <1>1 DEF WellFormed, Early
  <2> QED
    BY <1>1, <1>3, <2>1, OrdinaryStep
<1>4. CASE Goes(s, Ended(s, 1))
  BY <1>1, <1>4, LeaveKeepsPlaces
<1> QED
  BY <1>2, <1>3, <1>4 DEF OpenCatalog

(* The catalog is open once its own rows say that it may be. *)
LEMMA MigratedKeepsPlaces ==
    ASSUME GateInv, PlaceInv, NEW s \in Shells, Migrated(s) PROVE PlaceInv'
<1>1. PICK told \in Telling :
        /\ Told(told)
        /\ \/ Leave(s, 1)
           \/ ~Refuses(scope, told) /\ Goes(s, [shell[s] EXCEPT !.at = shell[s].then])
  BY DEF Migrated
<1>2. UNCHANGED <<catalogAt, mount, scope>> /\ WellFormed(shell[s]) /\ SpentGoesOn
  BY <1>1, Spending DEF Migrated, GateInv, PlaceInv
<1>3. CASE Leave(s, 1)
  BY <1>2, <1>3, LeaveKeepsPlaces
<1>4. CASE ~Refuses(scope, told) /\ Goes(s, [shell[s] EXCEPT !.at = shell[s].then])
  <2>1. spent'.unseen = 0 => told # "no volume"
    BY <1>1, HiddenCounts DEF PlaceInv
  <2>2. Clear(catalogAt)'
    BY <1>2, <1>4, <2>1 DEF Refuses, Sharing, Clear, OnItsOwnDrive, VolumeAt, Inside
  <2>3. [shell[s] EXCEPT !.at = shell[s].then].at # "export"
    BY <1>2 DEF WellFormed
  <2> QED
    BY <1>2, <1>4, <2>2, <2>3, OneChanges
<1> QED
  BY <1>1, <1>3, <1>4

LEMMA GatesKeepPlaces ==
    ASSUME GateInv, PlaceInv, NEW s \in Shells, DisclaimerGate(s) \/ WindowConsent(s) PROVE PlaceInv'
<1>1. /\ UNCHANGED <<catalogAt, mount, scope>> /\ WellFormed(shell[s]) /\ shell[s].at \notin Early
      /\ SpentGoesOn
  BY Spending DEF DisclaimerGate, WindowConsent, GateInv, PlaceInv, Early
<1>2. \/ Goes(s, [shell[s] EXCEPT !.at = "connect", !.then = "handler"])
      \/ Goes(s, [shell[s] EXCEPT !.at = "window"])
      \/ \E code \in {0, 2} : Leave(s, code)
  BY DEF DisclaimerGate, WindowConsent
<1>3. /\ [shell[s] EXCEPT !.at = "connect", !.then = "handler"].at \in Early
      /\ [shell[s] EXCEPT !.at = "window"].at # "export"
  BY <1>1 DEF WellFormed, Early
<1> QED
  BY <1>1, <1>2, <1>3, OrdinaryStep, LeaveKeepsPlaces

LEMMA ExportsKeepPlaces ==
    ASSUME GateInv, PlaceInv, NEW s \in Shells, ExportCheck(s) PROVE PlaceInv'
<1>1. PICK f \in ExportPlaces, told \in Telling :
        /\ Told(told)
        /\ \/ Leave(s, 1)
           \/ /\ ~RefusesExport(f, told)
              /\ Goes(s, [shell[s] EXCEPT !.at = "export", !.asked = {[path |-> f, vol |-> VolumeAt(f)]}])
  BY DEF ExportCheck
<1>2. /\ UNCHANGED <<catalogAt, mount, scope>> /\ WellFormed(shell[s])
      /\ shell[s].at \notin Early /\ SpentGoesOn
  BY <1>1, Spending DEF ExportCheck, Handles, GateInv, PlaceInv, Early
<1>3. CASE Leave(s, 1)
  BY <1>2, <1>3, LeaveKeepsPlaces
<1>4. CASE /\ ~RefusesExport(f, told)
           /\ Goes(s, [shell[s] EXCEPT !.at = "export", !.asked = {[path |-> f, vol |-> VolumeAt(f)]}])
  <2> DEFINE new == [shell[s] EXCEPT !.at = "export", !.asked = {[path |-> f, vol |-> VolumeAt(f)]}]
  <2>1. spent'.unseen = 0 => told # "no volume"
    BY <1>1, HiddenCounts DEF PlaceInv
  <2>2. Clear(f)'
    BY <1>2, <1>4, <2>1 DEF RefusesExport, Sharing, Clear, OnItsOwnDrive, VolumeAt, Inside
  <2>3. \A e \in new.asked : e.path = f
    BY <1>2 DEF WellFormed
  <2>4. ASSUME NEW e \in new.asked PROVE Clear(e.path)'
    BY <2>2, <2>3, <2>4
  <2>5. Clear(catalogAt) /\ new.at # "resting"
    BY <1>2 DEF PlaceInv, WellFormed
  <2>6. Clear(catalogAt)'
    BY <1>2, <2>5 DEF Clear, OnItsOwnDrive, VolumeAt, Inside, SpentGoesOn
  <2>7. Goes(s, new)
    BY <1>4
  <2> HIDE DEF new
  <2> QED
    BY <1>2, <2>4, <2>6, <2>7, OneChanges
<1> QED
  BY <1>1, <1>3, <1>4

(* Steps of a command that has the catalog open. *)
LEMMA OthersKeepPlaces ==
    ASSUME GateInv, PlaceInv, NEW s \in Shells,
           \/ ScopeAdd(s) \/ ScopeRemove(s) \/ ScopePreview(s) \/ CmdScan(s) \/ HashOrVerify(s)
           \/ ReadRoot(s) \/ WindowScan(s) \/ FinishPass(s) \/ ExportWrite(s) \/ WindowClose(s)
           \/ Cut(s) \/ KillCommand(s)
    PROVE  PlaceInv'
<1>1. UNCHANGED <<catalogAt, mount>> /\ scope' \subseteq scope /\ WellFormed(shell[s]) /\ SpentGoesOn
  <2>1. UNCHANGED <<catalogAt, mount>> /\ scope' \subseteq scope
    BY DEF ScopeAdd, ScopeRemove, ScopePreview, CmdScan, HashOrVerify, ReadRoot, WindowScan, FinishPass,
           ExportWrite, WindowClose, Cut, KillCommand
  <2>2. UNCHANGED spent \/ (\E told \in Telling : Told(told)) \/ spent' = [spent EXCEPT !.killed = @ + 1]
    BY DEF ScopeAdd, ScopeRemove, ScopePreview, CmdScan, HashOrVerify, ReadRoot, WindowScan, FinishPass,
           ExportWrite, WindowClose, Cut, KillCommand
  <2> QED
    BY <2>1, <2>2, Spending DEF GateInv, PlaceInv
<1>2. CASE \E code : Leave(s, code) \/ Goes(s, Ended(s, code))
  BY <1>1, <1>2, LeaveKeepsPlaces
<1>3. CASE \E code : Goes(s, CutOff(s, code))
  <2>1. \A code : CutOff(s, code).at \in Early
    BY DEF CutOff, Resting, Early
  <2> QED
    BY <1>1, <1>3, <2>1, OrdinaryStep
<1>4. CASE shell[s].at \notin Early /\ \E new : Goes(s, new) /\ new.at # "export"
  BY <1>1, <1>4, OrdinaryStep
<1>5. ASSUME NEW x, NEW y, NEW z, NEW w
      PROVE  /\ [shell[s] EXCEPT !.at = "insert", !.asked = x].at # "export"
             /\ [shell[s] EXCEPT !.at = "reading", !.asked = x, !.left = y].at # "export"
             /\ Begins(s, x).at # "export"
             /\ [shell[s] EXCEPT !.left = x, !.read = y, !.found = z, !.failed = w].at = shell[s].at
             /\ [shell[s] EXCEPT !.left = x].at = shell[s].at
  BY <1>1 DEF WellFormed, Begins
<1>6. CASE ScopeAdd(s)
  <2>1. shell[s].at = "handler"
    BY <1>6 DEF ScopeAdd, Handles
  <2> QED
    BY <1>2, <1>4, <1>5, <1>6, <2>1 DEF ScopeAdd, Early
<1>7. CASE ScopePreview(s) \/ CmdScan(s) \/ HashOrVerify(s)
  <2>1. shell[s].at = "handler"
    BY <1>7 DEF ScopePreview, CmdScan, HashOrVerify, Handles
  <2>2. \/ Leave(s, 1)
        \/ \E x, y : Goes(s, [shell[s] EXCEPT !.at = "reading", !.asked = x, !.left = y])
        \/ \E x : Goes(s, Begins(s, x))
    BY <1>7 DEF ScopePreview, CmdScan, HashOrVerify
  <2>3. ASSUME NEW x, NEW y, Goes(s, [shell[s] EXCEPT !.at = "reading", !.asked = x, !.left = y])
        PROVE  PlaceInv'
    <3> DEFINE new == [shell[s] EXCEPT !.at = "reading", !.asked = x, !.left = y]
    <3>1. Goes(s, new) /\ new.at # "export"
      BY <1>5, <2>3
    <3> HIDE DEF new
    <3> QED
      BY <1>4, <2>1, <3>1 DEF Early
  <2>4. ASSUME NEW x, Goes(s, Begins(s, x)) PROVE PlaceInv'
    BY <1>4, <1>5, <2>1, <2>4 DEF Early
  <2> QED
    BY <1>2, <2>2, <2>3, <2>4
<1>8. CASE ReadRoot(s) \/ WindowScan(s)
  <2>1. shell[s].at \in {"reading", "window"}
    BY <1>8 DEF ReadRoot, WindowScan
  <2>2. \/ \E x, y, z, w : Goes(s, [shell[s] EXCEPT !.left = x, !.read = y, !.found = z, !.failed = w])
        \/ \E x : Goes(s, [shell[s] EXCEPT !.left = x])
    BY <1>8 DEF ReadRoot, WindowScan
  <2>3. ASSUME NEW x, NEW y, NEW z, NEW w,
               Goes(s, [shell[s] EXCEPT !.left = x, !.read = y, !.found = z, !.failed = w])
        PROVE  PlaceInv'
    <3> DEFINE new == [shell[s] EXCEPT !.left = x, !.read = y, !.found = z, !.failed = w]
    <3>1. Goes(s, new) /\ new.at = shell[s].at
      BY <1>5, <2>3
    <3> HIDE DEF new
    <3> QED
      BY <1>4, <2>1, <3>1 DEF Early
  <2>4. ASSUME NEW x, Goes(s, [shell[s] EXCEPT !.left = x]) PROVE PlaceInv'
    BY <1>4, <1>5, <2>1, <2>4 DEF Early
  <2> QED
    BY <2>2, <2>3, <2>4
<1>9. CASE ScopeRemove(s) \/ FinishPass(s) \/ ExportWrite(s) \/ WindowClose(s)
  BY <1>2, <1>9 DEF ScopeRemove, FinishPass, ExportWrite, WindowClose
<1>10. CASE Cut(s) \/ KillCommand(s)
  BY <1>3, <1>10 DEF Cut, KillCommand
<1> QED
  BY <1>6, <1>7, <1>8, <1>9, <1>10

(* A root joins the scope only where the catalog, then as now, is clear of *)
(* it; whoever is between a check and a write is told that it is outdated. *)
LEMMA InsertKeepsPlaces ==
    ASSUME GateInv, PlaceInv, NEW s \in Shells, InsertScopeRoot(s) PROVE PlaceInv'
<1>1. PICK told \in Telling :
        /\ Told(told)
        /\ \/ Leave(s, 1) /\ UNCHANGED scope
           \/ /\ \A r \in shell[s].asked : ~RefusesRoot(r, told)
              /\ scope' = scope \cup shell[s].asked
              /\ shell' = Outdated([shell EXCEPT ![s] = Ended(s, 0)])
  BY DEF InsertScopeRoot
<1>2. UNCHANGED <<catalogAt, mount>> /\ WellFormed(shell[s]) /\ shell[s].at \notin Early /\ SpentGoesOn
  BY <1>1, Spending DEF InsertScopeRoot, GateInv, PlaceInv, Early
<1>3. CASE Leave(s, 1) /\ UNCHANGED scope
  BY <1>2, <1>3, LeaveKeepsPlaces
<1>4. CASE /\ \A r \in shell[s].asked : ~RefusesRoot(r, told)
           /\ scope' = scope \cup shell[s].asked
           /\ shell' = Outdated([shell EXCEPT ![s] = Ended(s, 0)])
  <2> DEFINE sh == [shell EXCEPT ![s] = Ended(s, 0)]
  <2>1. Clear(catalogAt) /\ (spent'.unseen = 0 => told # "no volume")
    BY <1>1, <1>2, HiddenCounts DEF PlaceInv
  <2>2. Clear(catalogAt)'
    BY <1>2, <1>4, <2>1 DEF Clear, OnItsOwnDrive, RefusesRoot, Sharing, VolumeAt, Inside, SpentGoesOn
  <2>3. \A t \in Shells : sh[t] = IF t = s THEN Ended(s, 0) ELSE shell[t]
    BY DEF GateInv
  <2>4. \A t \in Shells : WellFormed(sh[t])
    BY <2>3, EndIsSafe DEF GateInv
  <2>5. DOMAIN sh = Shells
    BY DEF GateInv
  <2> HIDE DEF sh
  <2>6. \A t \in Shells : shell'[t] = [sh[t] EXCEPT !.late = sh[t].late \/ sh[t].at = "export"]
    BY <1>4, <2>5 DEF sh, Outdated
  <2>7. \A t \in Shells : shell'[t].at = "export" => shell'[t].late
    BY <2>4, <2>6 DEF WellFormed
  <2> QED
    BY <1>2, <2>2, <2>7 DEF PlaceInv, Early, SpentGoesOn
<1> QED
  BY <1>1, <1>3, <1>4

LEMMA SwitchKeepsPlaces == ASSUME GateInv, PlaceInv, Switch PROVE PlaceInv'
<1>1. UNCHANGED <<catalogAt, scope>> /\ shell' = Outdated(shell) /\ SpentGoesOn
  BY Spending DEF Switch, PlaceInv
<1>2. VolumeAt(catalogAt)' = VolumeAt(catalogAt)
  BY DEF Switch, VolumeAt
<1>3. Clear(catalogAt) => Clear(catalogAt)'
  BY <1>1, <1>2 DEF Clear, OnItsOwnDrive, Inside, SpentGoesOn
<1>4. \A t \in Shells : shell'[t] = [shell[t] EXCEPT !.late = shell[t].late \/ shell[t].at = "export"]
  BY <1>1 DEF Outdated, GateInv
<1>5. \A t \in Shells : shell'[t].at = shell[t].at /\ (shell'[t].at = "export" => shell'[t].late)
  BY <1>4 DEF GateInv, WellFormed
<1> QED
  BY <1>1, <1>3, <1>5 DEF PlaceInv, Early, SpentGoesOn

LEMMA MoveKeepsPlaces == ASSUME PlaceInv, MoveCatalog PROVE PlaceInv'
<1>1. SpentGoesOn
  BY Spending DEF MoveCatalog, PlaceInv
<1> QED
  BY <1>1 DEF MoveCatalog, Holding, PlaceInv, Early, SpentGoesOn

LEMMA PlaceStepHolds ==
    ASSUME GateInv, PlaceInv, [CommandsNext]_commandVars PROVE PlaceInv'
<1>1. CASE UNCHANGED commandVars
  BY <1>1 DEF commandVars, PlaceInv, Early, Clear, OnItsOwnDrive, VolumeAt, Inside
<1>2. CASE Switch \/ MoveCatalog
  BY <1>2, SwitchKeepsPlaces, MoveKeepsPlaces
<1>3. ASSUME NEW s \in Shells, CommandStep(s) PROVE PlaceInv'
  BY <1>3, ArrivalsKeepPlaces, MigratedKeepsPlaces, GatesKeepPlaces, ExportsKeepPlaces,
     OthersKeepPlaces, InsertKeepsPlaces DEF CommandStep
<1> QED
  BY <1>1, <1>2, <1>3 DEF CommandsNext

(* The catalog is never in use inside scope, wherever people move it,      *)
(* whatever crashes leave in its log alone and whichever command adds a    *)
(* root; and no export is written there unless scope or the drives changed *)
(* after its check.  Nor are they on the drive of a root, the system drive *)
(* aside, while discovery told every check where a place is.               *)
THEOREM NothingWrittenInScope == CommandsSpec => []WritesOutsideScope
<1>1. CommandsInit => PlaceInv
  BY DEF CommandsInit, PlaceInv, Resting, Early, Spendings
<1>2. PlaceInv => WritesOutsideScope
  BY DEF PlaceInv, WritesOutsideScope, Early
<1> QED
  BY <1>1, <1>2, GateInitHolds, GateStepHolds, PlaceStepHolds, PTL DEF CommandsSpec

-----------------------------------------------------------------------------
PassVerbs == {"scan", "hash", "verify"}

(* What a pass has read is what it was asked for less what is left, unless *)
(* it has failed already; and only its own last step ends it well.         *)
Truthful(c) ==
    /\ c.at \in {"connect", "settle", "gate", "handler"} => c.read = {} /\ c.found = {}
    /\ c.at = "reading" /\ ~c.failed => c.left \cup c.read = c.asked /\ c.found \subseteq {"none"}
    /\ c.at \in {"insert", "export", "window"} => c.verb \notin PassVerbs
    /\ c.at = "resting" /\ c.exit = 0 /\ ~c.cut /\ c.verb \in PassVerbs
         => c.read = c.asked /\ c.found \subseteq {"none"}

TruthInv == \A s \in Shells : Truthful(shell[s])

LEMMA TruthGoesOn ==
    ASSUME GateInv, TruthInv, NEW s \in Shells, NEW new, Goes(s, new), Truthful(new)
    PROVE  TruthInv'
<1>1. \A t \in Shells : shell'[t] = IF t = s THEN new ELSE shell[t]
  BY DEF Goes, GateInv
<1>2. ASSUME NEW t \in Shells PROVE Truthful(shell'[t])
  <2>1. CASE t = s
    BY <1>1, <2>1
  <2>2. CASE t # s
    <3>1. shell'[t] = shell[t]
      BY <1>1, <2>2
    <3> QED
      BY <3>1 DEF TruthInv
  <2> QED
    BY <2>1, <2>2
<1> QED
  BY <1>2 DEF TruthInv, Truthful

LEMMA RestingIsTruthful ==
    ASSUME NEW code, NEW found
    PROVE  /\ Truthful(Resting) /\ Truthful([Resting EXCEPT !.exit = code])
           /\ Truthful([Resting EXCEPT !.exit = code, !.cut = TRUE, !.found = found])
BY DEF Resting, Truthful, PassVerbs

LEMMA EndIsTruthful ==
    ASSUME NEW s \in Shells, WellFormed(shell[s]), NEW code,
           \/ code # 0
           \/ shell[s].verb \notin PassVerbs
           \/ shell[s].read = shell[s].asked /\ shell[s].found \subseteq {"none"}
    PROVE  Truthful(Ended(s, code))
<1>1. CASE shell[s].verb \in PassVerbs
  <2> DEFINE new == [shell[s] EXCEPT !.at = "resting", !.then = "none", !.exit = code, !.left = {},
                                     !.failed = FALSE]
  <2>1. Ended(s, code) = new
    BY <1>1 DEF Ended, PassVerbs
  <2>2. /\ new.at = "resting" /\ new.exit = code
        /\ new.read = shell[s].read /\ new.asked = shell[s].asked /\ new.found = shell[s].found
    BY DEF WellFormed
  <2> HIDE DEF new
  <2> QED
    BY <1>1, <2>1, <2>2 DEF Truthful
<1>2. CASE shell[s].verb \notin PassVerbs
  <2>1. Ended(s, code) = [Resting EXCEPT !.exit = code]
    BY <1>2 DEF Ended, PassVerbs
  <2> QED
    BY <2>1, RestingIsTruthful
<1> QED
  BY <1>1, <1>2

(* A command that fails, or is no pass, ends as it may. *)
LEMMA EndStaysTruthful ==
    ASSUME GateInv, TruthInv, NEW s \in Shells, NEW code, Leave(s, code) \/ Goes(s, Ended(s, code)),
           code # 0 \/ shell[s].verb \notin PassVerbs
    PROVE  TruthInv'
<1>1. Truthful(Ended(s, code))
  BY EndIsTruthful DEF GateInv
<1> QED
  BY <1>1, TruthGoesOn DEF Leave

LEMMA ArrivalsStayTruthful ==
    ASSUME GateInv, TruthInv, NEW s \in Shells,
           (\E v : StartCommand(s, v)) \/ OpenCatalog(s) \/ Migrated(s)
    PROVE  TruthInv'
<1>1. WellFormed(shell[s]) /\ Truthful(shell[s])
  BY DEF GateInv, TruthInv
<1>2. ASSUME NEW v, StartCommand(s, v) PROVE TruthInv'
  <2> DEFINE new == [Resting EXCEPT !.at = "connect", !.verb = v,
                       !.then = IF v \in ReadsDrives \cup {"gui"} THEN "gate" ELSE "handler"]
  <2>1. Truthful(new)
    BY DEF Resting, Truthful
  <2>2. Goes(s, new)
    BY <1>2 DEF StartCommand
  <2> HIDE DEF new
  <2> QED
    BY <2>1, <2>2, TruthGoesOn
<1>3. CASE OpenCatalog(s) /\ Goes(s, [shell[s] EXCEPT !.at = "settle"])
  <2> DEFINE new == [shell[s] EXCEPT !.at = "settle"]
  <2>1. new.at = "settle" /\ new.read = shell[s].read /\ new.found = shell[s].found
    BY <1>1 DEF WellFormed
  <2>2. Goes(s, new)
    BY <1>3
  <2> HIDE DEF new
  <2>3. Truthful(new)
    BY <1>1, <1>3, <2>1 DEF Truthful, OpenCatalog
  <2> QED
    BY <2>2, <2>3, TruthGoesOn
<1>4. CASE Goes(s, Ended(s, 1)) \/ Leave(s, 1)
  BY <1>4, EndStaysTruthful
<1>5. CASE Migrated(s) /\ Goes(s, [shell[s] EXCEPT !.at = shell[s].then])
  <2> DEFINE new == [shell[s] EXCEPT !.at = shell[s].then]
  <2>1. new.at = shell[s].then /\ new.read = shell[s].read /\ new.found = shell[s].found
    BY <1>1 DEF WellFormed
  <2>2. Goes(s, new) /\ shell[s].then \in {"none", "gate", "handler"} /\ shell[s].at = "settle"
    BY <1>1, <1>5 DEF Migrated, WellFormed
  <2> HIDE DEF new
  <2>3. Truthful(new)
    BY <1>1, <2>1, <2>2 DEF Truthful
  <2> QED
    BY <2>2, <2>3, TruthGoesOn
<1> QED
  BY <1>2, <1>3, <1>4, <1>5 DEF OpenCatalog, Migrated

LEMMA GatesStayTruthful ==
    ASSUME GateInv, TruthInv, NEW s \in Shells, DisclaimerGate(s) \/ WindowConsent(s) PROVE TruthInv'
<1>1. WellFormed(shell[s]) /\ Truthful(shell[s]) /\ shell[s].at = "gate"
  BY DEF GateInv, TruthInv, DisclaimerGate, WindowConsent
<1>2. shell[s].read = {} /\ shell[s].found = {}
  BY <1>1 DEF Truthful
<1>3. \/ Goes(s, [shell[s] EXCEPT !.at = "connect", !.then = "handler"])
      \/ Leave(s, 2)
      \/ shell[s].verb = "gui" /\ (Goes(s, [shell[s] EXCEPT !.at = "window"]) \/ Leave(s, 0))
  BY DEF DisclaimerGate, WindowConsent
<1>4. CASE Goes(s, [shell[s] EXCEPT !.at = "connect", !.then = "handler"])
  <2> DEFINE new == [shell[s] EXCEPT !.at = "connect", !.then = "handler"]
  <2>1. new.at = "connect" /\ new.read = {} /\ new.found = {}
    BY <1>1, <1>2 DEF WellFormed
  <2>2. Goes(s, new)
    BY <1>4
  <2> HIDE DEF new
  <2>3. Truthful(new)
    BY <2>1 DEF Truthful
  <2> QED
    BY <2>2, <2>3, TruthGoesOn
<1>5. CASE shell[s].verb = "gui" /\ Goes(s, [shell[s] EXCEPT !.at = "window"])
  <2> DEFINE new == [shell[s] EXCEPT !.at = "window"]
  <2>1. new.at = "window" /\ new.verb = "gui"
    BY <1>1, <1>5 DEF WellFormed
  <2>2. Goes(s, new)
    BY <1>5
  <2> HIDE DEF new
  <2>3. Truthful(new)
    BY <2>1 DEF Truthful, PassVerbs
  <2> QED
    BY <2>2, <2>3, TruthGoesOn
<1>6. CASE Leave(s, 2) \/ (shell[s].verb = "gui" /\ Leave(s, 0))
  BY <1>6, EndStaysTruthful DEF PassVerbs
<1> QED
  BY <1>3, <1>4, <1>5, <1>6

(* Handlers that are no passes. *)
LEMMA HandlersStayTruthful ==
    ASSUME GateInv, TruthInv, NEW s \in Shells,
           \/ ScopeAdd(s) \/ ScopeRemove(s) \/ ExportCheck(s) \/ ExportWrite(s)
           \/ WindowScan(s) \/ WindowClose(s)
    PROVE  TruthInv'
<1>1. WellFormed(shell[s]) /\ Truthful(shell[s])
  BY DEF GateInv, TruthInv
<1>2. shell[s].verb \notin PassVerbs
  BY <1>1 DEF ScopeAdd, ScopeRemove, ExportCheck, ExportWrite, WindowScan, WindowClose, Handles,
              Truthful, PassVerbs
<1>3. \/ \E code : Leave(s, code) \/ Goes(s, Ended(s, code))
      \/ \E x : Goes(s, [shell[s] EXCEPT !.at = "insert", !.asked = x])
      \/ \E x : Goes(s, [shell[s] EXCEPT !.at = "export", !.asked = x])
      \/ shell[s].at = "window" /\ \E x : Goes(s, [shell[s] EXCEPT !.left = x])
  BY DEF ScopeAdd, ScopeRemove, ExportCheck, ExportWrite, WindowScan, WindowClose
<1>4. CASE \E code : Leave(s, code) \/ Goes(s, Ended(s, code))
  BY <1>2, <1>4, EndStaysTruthful
<1>5. ASSUME NEW c, c.at \in {"insert", "export", "window"}, c.verb = shell[s].verb PROVE Truthful(c)
  BY <1>2, <1>5 DEF Truthful
<1>6. ASSUME NEW x, NEW a \in {"insert", "export"}, Goes(s, [shell[s] EXCEPT !.at = a, !.asked = x])
      PROVE  TruthInv'
  <2> DEFINE new == [shell[s] EXCEPT !.at = a, !.asked = x]
  <2>1. new.at = a /\ new.verb = shell[s].verb
    BY <1>1 DEF WellFormed
  <2>2. Goes(s, new)
    BY <1>6
  <2> HIDE DEF new
  <2> QED
    BY <1>5, <2>1, <2>2, TruthGoesOn
<1>7. ASSUME NEW x, shell[s].at = "window", Goes(s, [shell[s] EXCEPT !.left = x]) PROVE TruthInv'
  <2> DEFINE new == [shell[s] EXCEPT !.left = x]
  <2>1. new.at = "window" /\ new.verb = shell[s].verb
    BY <1>1, <1>7 DEF WellFormed
  <2>2. Goes(s, new)
    BY <1>7
  <2> HIDE DEF new
  <2> QED
    BY <1>5, <2>1, <2>2, TruthGoesOn
<1> QED
  BY <1>3, <1>4, <1>6, <1>7

(* Being told that the drives have changed says nothing about what was read. *)
LEMMA LateIsTruthful ==
    ASSUME NEW c, WellFormed(c), Truthful(c), NEW x PROVE Truthful([c EXCEPT !.late = x])
BY DEF WellFormed, Truthful

LEMMA InsertStaysTruthful ==
    ASSUME GateInv, TruthInv, NEW s \in Shells, InsertScopeRoot(s) PROVE TruthInv'
<1>1. WellFormed(shell[s]) /\ shell[s].verb \notin PassVerbs
  BY DEF GateInv, TruthInv, Truthful, InsertScopeRoot
<1>2. CASE Leave(s, 1)
  BY <1>2, EndStaysTruthful
<1>3. CASE shell' = Outdated([shell EXCEPT ![s] = Ended(s, 0)])
  <2> DEFINE sh == [shell EXCEPT ![s] = Ended(s, 0)]
  <2>1. WellFormed(Ended(s, 0)) /\ Truthful(Ended(s, 0))
    BY <1>1, EndIsSafe, EndIsTruthful
  <2>2. DOMAIN sh = Shells /\ \A t \in Shells : sh[t] = IF t = s THEN Ended(s, 0) ELSE shell[t]
    BY DEF GateInv
  <2>3. \A t \in Shells : WellFormed(sh[t]) /\ Truthful(sh[t])
    BY <2>1, <2>2 DEF GateInv, TruthInv
  <2> HIDE DEF sh
  <2>4. \A t \in Shells : shell'[t] = [sh[t] EXCEPT !.late = sh[t].late \/ sh[t].at = "export"]
    BY <1>3, <2>2 DEF sh, Outdated
  <2>5. ASSUME NEW t \in Shells PROVE Truthful(shell'[t])
    <3> DEFINE late == sh[t].late \/ sh[t].at = "export"
    <3>1. shell'[t] = [sh[t] EXCEPT !.late = late]
      BY <2>4
    <3> HIDE DEF late
    <3>2. Truthful([sh[t] EXCEPT !.late = late])
      BY <2>3, LateIsTruthful
    <3> QED
      BY <3>1, <3>2
  <2> QED
    BY <2>5 DEF TruthInv, Truthful
<1> QED
  BY <1>2, <1>3 DEF InsertScopeRoot

LEMMA SwitchStaysTruthful == ASSUME GateInv, TruthInv, Switch PROVE TruthInv'
<1>1. \A t \in Shells : shell'[t] = [shell[t] EXCEPT !.late = shell[t].late \/ shell[t].at = "export"]
  BY DEF Switch, Outdated, GateInv
<1>2. \A t \in Shells : WellFormed(shell[t]) /\ Truthful(shell[t])
  BY DEF GateInv, TruthInv
<1>3. ASSUME NEW t \in Shells PROVE Truthful(shell'[t])
  <2> DEFINE late == shell[t].late \/ shell[t].at = "export"
  <2>1. shell'[t] = [shell[t] EXCEPT !.late = late]
    BY <1>1
  <2> HIDE DEF late
  <2>2. Truthful([shell[t] EXCEPT !.late = late])
    BY <1>2, LateIsTruthful
  <2> QED
    BY <2>1, <2>2
<1> QED
  BY <1>3 DEF TruthInv, Truthful

(* A pass begins with nothing read, and knows whether it left roots out. *)
LEMMA PassesBeginTruthful ==
    ASSUME GateInv, TruthInv, NEW s \in Shells, ScopePreview(s) \/ CmdScan(s) \/ HashOrVerify(s)
    PROVE  TruthInv'
<1>1. WellFormed(shell[s]) /\ Truthful(shell[s]) /\ shell[s].at = "handler"
  BY DEF GateInv, TruthInv, ScopePreview, CmdScan, HashOrVerify, Handles
<1>2. shell[s].read = {} /\ shell[s].found = {}
  BY <1>1 DEF Truthful
<1>3. \/ Leave(s, 1)
      \/ \E r : Goes(s, [shell[s] EXCEPT !.at = "reading", !.asked = {r}, !.left = {r}])
      \/ \E roots : Goes(s, Begins(s, roots))
  BY DEF ScopePreview, CmdScan, HashOrVerify
<1>4. CASE Leave(s, 1)
  BY <1>4, EndStaysTruthful
<1>5. ASSUME NEW r, Goes(s, [shell[s] EXCEPT !.at = "reading", !.asked = {r}, !.left = {r}])
      PROVE  TruthInv'
  <2> DEFINE new == [shell[s] EXCEPT !.at = "reading", !.asked = {r}, !.left = {r}]
  <2>1. new.at = "reading" /\ new.asked = {r} /\ new.left = {r} /\ new.read = {} /\ new.found = {}
    BY <1>1, <1>2 DEF WellFormed
  <2>2. Goes(s, new)
    BY <1>5
  <2> HIDE DEF new
  <2>3. Truthful(new)
    BY <2>1 DEF Truthful
  <2> QED
    BY <2>2, <2>3, TruthGoesOn
<1>6. ASSUME NEW roots, Goes(s, Begins(s, roots)) PROVE TruthInv'
  <2> DEFINE new == Begins(s, roots)
  <2>1. /\ new.at = "reading" /\ new.asked = roots /\ new.left = Bound(roots)
        /\ new.failed = (Bound(roots) # roots)
        /\ new.read = {} /\ new.found = {}
    BY <1>1, <1>2 DEF WellFormed, Begins
  <2>2. Goes(s, new)
    BY <1>6
  <2> HIDE DEF new
  <2>3. Truthful(new)
    BY <2>1 DEF Truthful
  <2> QED
    BY <2>2, <2>3, TruthGoesOn
<1> QED
  BY <1>3, <1>4, <1>5, <1>6

LEMMA ReadingStaysTruthful == ASSUME GateInv, TruthInv, NEW s \in Shells, ReadRoot(s) PROVE TruthInv'
<1>1. WellFormed(shell[s]) /\ Truthful(shell[s]) /\ shell[s].at = "reading"
  BY DEF GateInv, TruthInv, ReadRoot
<1>2. PICK r \in shell[s].left, trouble \in Troubles(shell[s].verb) \cup {"none"} :
        Goes(s, [shell[s] EXCEPT !.left = shell[s].left \ {r}, !.read = shell[s].read \cup {r},
                                 !.found = shell[s].found \cup {trouble},
                                 !.failed = shell[s].failed \/ trouble # "none"])
  BY DEF ReadRoot
<1> DEFINE new == [shell[s] EXCEPT !.left = shell[s].left \ {r}, !.read = shell[s].read \cup {r},
                                   !.found = shell[s].found \cup {trouble},
                                   !.failed = shell[s].failed \/ trouble # "none"]
<1>3. /\ new.at = "reading" /\ new.asked = shell[s].asked
      /\ new.left = shell[s].left \ {r} /\ new.read = shell[s].read \cup {r}
      /\ new.found = shell[s].found \cup {trouble}
      /\ new.failed = (shell[s].failed \/ trouble # "none")
  BY <1>1 DEF WellFormed
<1>4. Goes(s, new)
  BY <1>2
<1> HIDE DEF new
<1>5. ASSUME ~new.failed PROVE new.left \cup new.read = new.asked /\ new.found \subseteq {"none"}
  <2>1. ~shell[s].failed /\ trouble = "none"
    BY <1>3, <1>5
  <2>2. shell[s].left \cup shell[s].read = shell[s].asked /\ shell[s].found \subseteq {"none"}
    BY <1>1, <2>1 DEF Truthful
  <2> QED
    BY <1>2, <1>3, <2>1, <2>2
<1>6. Truthful(new)
  BY <1>3, <1>5 DEF Truthful
<1> QED
  BY <1>4, <1>6, TruthGoesOn

LEMMA FinishStaysTruthful == ASSUME GateInv, TruthInv, NEW s \in Shells, FinishPass(s) PROVE TruthInv'
<1>1. WellFormed(shell[s]) /\ Truthful(shell[s])
  BY DEF GateInv, TruthInv
<1>2. CASE shell[s].failed
  <2>1. Leave(s, 1)
    BY <1>2 DEF FinishPass
  <2> QED
    BY <2>1, EndStaysTruthful
<1>3. CASE ~shell[s].failed
  <2>1. Leave(s, 0)
    BY <1>3 DEF FinishPass
  <2>2. shell[s].read = shell[s].asked /\ shell[s].found \subseteq {"none"}
    BY <1>1, <1>3 DEF Truthful, FinishPass
  <2>3. Truthful(Ended(s, 0))
    BY <1>1, <2>2, EndIsTruthful
  <2> QED
    BY <2>1, <2>3, TruthGoesOn DEF Leave
<1> QED
  BY <1>2, <1>3

LEMMA CutStaysTruthful ==
    ASSUME GateInv, TruthInv, NEW s \in Shells, Cut(s) \/ KillCommand(s) PROVE TruthInv'
<1>1. PICK code : Goes(s, CutOff(s, code))
  BY DEF Cut, KillCommand
<1>2. Truthful(CutOff(s, code))
  BY RestingIsTruthful DEF CutOff
<1> QED
  BY <1>1, <1>2, TruthGoesOn

LEMMA TruthStepHolds ==
    ASSUME GateInv, TruthInv, [CommandsNext]_commandVars PROVE TruthInv'
<1>1. CASE UNCHANGED shell
  BY <1>1 DEF TruthInv, Truthful
<1>2. CASE Switch
  BY <1>2, SwitchStaysTruthful
<1>3. ASSUME NEW s \in Shells, CommandStep(s) PROVE TruthInv'
  BY <1>3, ArrivalsStayTruthful, GatesStayTruthful, HandlersStayTruthful, InsertStaysTruthful,
     PassesBeginTruthful, ReadingStaysTruthful, FinishStaysTruthful, CutStaysTruthful DEF CommandStep
<1> QED
  BY <1>1, <1>2, <1>3 DEF CommandsNext, MoveCatalog, commandVars

(* The exit code 0 of a scan, hash or verify that was not cut short means  *)
(* that every root it was asked for was read, on the volume it is bound    *)
(* to, and that nothing was wrong there.                                   *)
THEOREM ExitCodesTellTruth == CommandsSpec => []ExitTellsTruth
<1>1. CommandsInit => TruthInv
  BY RestingIsTruthful DEF CommandsInit, TruthInv
<1>2. TruthInv => ExitTellsTruth
  BY DEF TruthInv, Truthful, ExitTellsTruth, PassVerbs
<1> QED
  BY <1>1, <1>2, GateInitHolds, GateStepHolds, TruthStepHolds, PTL DEF CommandsSpec

-----------------------------------------------------------------------------
(***************************************************************************)
(* The dataset.  A run says that it changes the dataset before it does, so *)
(* that a state that says pristine is true at every step; and a wipe looks *)
(* through every drive before it removes anything, so that what it must    *)
(* not remove keeps it from removing at all.                               *)
(***************************************************************************)

PlannedThing(p, n) == IF n \in Planted[p] THEN "planted" ELSE "nothing"

(* Every path people did not use is as the dataset has it. *)
AsGenerated == \A p \in Places, n \in Names : <<p, n>> \notin meddled => tree[p][n] = PlannedThing(p, n)

DatasetShapes ==
    /\ tree \in [Places -> [Names -> Things]]
    /\ command \in [name : {"none", "generate", "reset", "clean", "run"},
                    at : {"start", "write", "remove", "baseline", "change", "end"}]
    /\ changed \in BOOLEAN
    /\ command.name = "none" <=> command = Idle
    /\ command.at = "write" => command.name \in {"generate", "reset"} /\ planned
    /\ command.at = "remove" => command.name \in {"reset", "clean"}
    /\ command.at \in {"baseline", "change", "end"} => command.name = "run"
    /\ command.name \in {"reset", "clean", "run"} => planned

(* While a dataset counts as written, it is planned and has a state; who   *)
(* writes or removes it has taken that back.                               *)
WrittenStands ==
    generated => /\ planned /\ state # "none"
                 /\ command.name # "generate" /\ command.at \notin {"write", "remove"}

(* What is being written, or removed, so far. *)
WorkSoFar ==
    /\ command.name = "generate" /\ command.at = "start" =>
         \A p \in Places, n \in Names : <<p, n>> \notin meddled => tree[p][n] = "nothing"
    /\ command.at = "remove" =>
         \A p \in Places \ todo, n \in Names : <<p, n>> \notin meddled => tree[p][n] = "nothing"
    /\ command.at = "write" =>
         /\ todo \subseteq {w \in Places \X Names : w[2] \in Planted[w[1]]}
         /\ \A p \in Places, n \in Names : <<p, n>> \notin meddled =>
              tree[p][n] = IF <<p, n>> \in todo THEN "nothing" ELSE PlannedThing(p, n)

(* A state that says pristine, or will when the run ends, tells the truth. *)
PristineTold ==
    /\ state = "pristine" /\ generated => AsGenerated
    /\ command.name = "run" => state = "in-use"
    /\ command.name = "run" /\ command.at \in {"start", "baseline"} => ~changed
    /\ command.name = "run" /\ command.at = "change" => changed
    /\ command.name = "run" /\ ~changed /\ generated => AsGenerated

DatasetInv == DatasetShapes /\ WrittenStands /\ WorkSoFar /\ PristineTold

LEMMA DatasetStarts == DatasetInit => DatasetInv
<1> SUFFICES ASSUME DatasetInit PROVE DatasetInv
  OBVIOUS
<1>1. DatasetShapes
  BY DEF DatasetInit, DatasetShapes, Emptied, Things, Idle
<1>2. WrittenStands /\ WorkSoFar /\ PristineTold
  BY DEF DatasetInit, WrittenStands, WorkSoFar, PristineTold, Idle
<1> QED
  BY <1>1, <1>2 DEF DatasetInv

(* One thing put at a path, which may be none of the dataset's places. *)
LEMMA OnePut ==
    ASSUME DatasetShapes, NEW a, NEW b, NEW thing \in Things, Put(a, b, thing)
    PROVE  /\ tree' \in [Places -> [Names -> Things]]
           /\ \A p \in Places, n \in Names : tree'[p][n] = IF p = a /\ n = b THEN thing ELSE tree[p][n]
<1>1. tree' = [tree EXCEPT ![a][b] = thing] /\ tree \in [Places -> [Names -> Things]]
  BY DEF Put, DatasetShapes
<1>2. tree' = [p \in Places |-> IF p = a THEN [n \in Names |-> IF n = b THEN thing ELSE tree[p][n]] ELSE tree[p]]
  BY <1>1
<1> DEFINE row(p) == IF p = a THEN [n \in Names |-> IF n = b THEN thing ELSE tree[p][n]] ELSE tree[p]
<1>3. tree' \in [Places -> [Names -> Things]]
  <2>1. \A p \in Places : row(p) \in [Names -> Things]
    BY <1>1
  <2>2. tree' = [p \in Places |-> row(p)]
    BY <1>2
  <2> HIDE DEF row
  <2> QED
    BY <2>1, <2>2
<1> HIDE DEF row
<1>4. ASSUME NEW p \in Places, NEW n \in Names
      PROVE  tree'[p][n] = IF p = a /\ n = b THEN thing ELSE tree[p][n]
  <2>1. CASE p = a
    <3>1. tree'[p] = [k \in Names |-> IF k = b THEN thing ELSE tree[p][k]]
      BY <1>2, <2>1
    <3> QED
      BY <2>1, <3>1
  <2>2. CASE p # a
    <3>1. tree'[p] = tree[p]
      BY <1>2, <2>2
    <3> QED
      BY <2>2, <3>1
  <2> QED
    BY <2>1, <2>2
<1> QED
  BY <1>3, <1>4

LEMMA GenerateHolds ==
    ASSUME DatasetInv, BeginGenerate \/ PlanFits \/ PlanFails \/ \E p \in Roots : MakeFolder(p)
    PROVE  DatasetInv'
<1> USE DEF DatasetInv, DatasetShapes
<1>1. CASE BeginGenerate
  <2>1. /\ command' = [name |-> "generate", at |-> "start"] /\ ~planned /\ command = Idle
        /\ UNCHANGED <<tree, state, planned, changed, generated>>
        /\ \A p \in Places, n \in Names : tree[p][n] = "nothing"
    BY <1>1 DEF BeginGenerate, Begin, Empty
  <2>2. ~generated
    BY <2>1 DEF WrittenStands
  <2> QED
    BY <2>1, <2>2 DEF WrittenStands, WorkSoFar, PristineTold, Idle
<1>2. CASE PlanFits
  <2>1. /\ command = [name |-> "generate", at |-> "start"] /\ command' = [command EXCEPT !.at = "write"]
        /\ todo' = {w \in Places \X Names : w[2] \in Planted[w[1]]}
        /\ planned' = TRUE
        /\ UNCHANGED <<tree, state, changed, generated, meddled>>
    BY <1>2 DEF PlanFits, At, GoTo
  <2>2. command' = [name |-> "generate", at |-> "write"]
    BY <2>1
  <2>3. ~generated
    BY <2>1 DEF WrittenStands
  <2>4. \A p \in Places, n \in Names : <<p, n>> \notin meddled =>
          tree[p][n] = IF <<p, n>> \in todo' THEN "nothing" ELSE PlannedThing(p, n)
    BY <2>1 DEF WorkSoFar, PlannedThing
  <2>5. WorkSoFar'
    BY <2>1, <2>2, <2>4 DEF WorkSoFar, PlannedThing
  <2> QED
    BY <2>1, <2>2, <2>3, <2>5 DEF WrittenStands, PristineTold, Idle
<1>3. CASE PlanFails
  <2>1. /\ command = [name |-> "generate", at |-> "start"] /\ command' = Idle
        /\ UNCHANGED <<state, planned, changed, generated>>
        /\ tree' = [p \in Places |-> IF p \in todo THEN Emptied(p) ELSE tree[p]]
    BY <1>3 DEF PlanFails, Stop, At
  <2>2. tree' \in [Places -> [Names -> Things]]
    BY <2>1 DEF Emptied, Things
  <2>3. ~generated
    BY <2>1 DEF WrittenStands
  <2> QED
    BY <2>1, <2>2, <2>3 DEF WrittenStands, WorkSoFar, PristineTold, Idle
<1>4. ASSUME NEW p \in Roots, MakeFolder(p) PROVE DatasetInv'
  <2>1. /\ command = [name |-> "generate", at |-> "start"]
        /\ UNCHANGED <<tree, state, planned, command, changed, generated, meddled>>
    BY <1>4 DEF MakeFolder, At
  <2> QED
    BY <2>1 DEF WrittenStands, WorkSoFar, PristineTold, AsGenerated, PlannedThing, Idle
<1> QED
  BY <1>1, <1>2, <1>3, <1>4

LEMMA WritingHolds == ASSUME DatasetInv, Materialize PROVE DatasetInv'
<1>1. PICK job \in todo : Put(job[1], job[2], "planted") /\ todo' = todo \ {job}
  BY DEF Materialize
<1>2. /\ UNCHANGED <<state, planned, command, changed, generated, meddled>>
      /\ command.name \in {"generate", "reset"} /\ command.at = "write"
  BY DEF Materialize
<1>3. PICK a \in Places, b \in Names : job = <<a, b>> /\ b \in Planted[a]
  BY <1>1, <1>2 DEF DatasetInv, WorkSoFar
<1>4. /\ tree' \in [Places -> [Names -> Things]]
      /\ \A p \in Places, n \in Names : tree'[p][n] = IF p = a /\ n = b THEN "planted" ELSE tree[p][n]
  BY <1>1, <1>3, OnePut DEF DatasetInv, Things
<1>5. ~generated
  BY <1>2 DEF DatasetInv, WrittenStands
<1>6. todo' \subseteq {w \in Places \X Names : w[2] \in Planted[w[1]]}
  BY <1>1, <1>2 DEF DatasetInv, WorkSoFar
<1>7. ASSUME NEW p \in Places, NEW n \in Names, <<p, n>> \notin meddled
      PROVE  tree'[p][n] = IF <<p, n>> \in todo' THEN "nothing" ELSE PlannedThing(p, n)
  <2>1. tree[p][n] = IF <<p, n>> \in todo THEN "nothing" ELSE PlannedThing(p, n)
    BY <1>2, <1>7 DEF DatasetInv, WorkSoFar
  <2>2. CASE p = a /\ n = b
    BY <1>1, <1>3, <1>4, <2>2 DEF PlannedThing
  <2>3. CASE ~(p = a /\ n = b)
    BY <1>1, <1>3, <1>4, <2>1, <2>3
  <2> QED
    BY <2>2, <2>3
<1>8. WorkSoFar'
  BY <1>2, <1>6, <1>7 DEF WorkSoFar, PlannedThing
<1> QED
  BY <1>2, <1>4, <1>5, <1>8 DEF DatasetInv, DatasetShapes, WrittenStands, PristineTold

LEMMA WrittenHolds == ASSUME DatasetInv, WritePristine PROVE DatasetInv'
<1>1. /\ command.name \in {"generate", "reset"} /\ command.at = "write" /\ todo = {}
      /\ state' = "pristine" /\ generated' = TRUE /\ command' = Idle
      /\ UNCHANGED <<tree, planned, changed, meddled>>
  BY DEF WritePristine, Stop
<1>2. AsGenerated
  BY <1>1 DEF DatasetInv, WorkSoFar, AsGenerated
<1>3. AsGenerated'
  BY <1>1, <1>2 DEF AsGenerated, PlannedThing
<1>4. planned
  BY <1>1 DEF DatasetInv, DatasetShapes
<1> QED
  BY <1>1, <1>3, <1>4 DEF DatasetInv, DatasetShapes, WrittenStands, WorkSoFar, PristineTold, Idle

LEMMA WipingHolds ==
    ASSUME DatasetInv,
           \/ \E name \in {"reset", "clean"} : BeginWipe(name)
           \/ \E p \in Places : LookThrough(p)
           \/ BeginRemoving \/ Rebuild \/ RemoveDataset
    PROVE  DatasetInv'
<1> USE DEF DatasetInv, DatasetShapes
<1>1. ASSUME NEW name \in {"reset", "clean"}, BeginWipe(name) PROVE DatasetInv'
  <2>1. /\ command' = [name |-> name, at |-> "start"] /\ command = Idle /\ planned
        /\ UNCHANGED <<tree, state, planned, changed, generated, meddled>>
    BY <1>1 DEF BeginWipe, Begin
  <2> QED
    BY <2>1 DEF WrittenStands, WorkSoFar, PristineTold, AsGenerated, PlannedThing, Idle
<1>2. ASSUME NEW p \in Places, LookThrough(p) PROVE DatasetInv'
  <2>1. /\ command.name \in {"reset", "clean"} /\ command.at = "start"
        /\ command' = command \/ command' = Idle
        /\ UNCHANGED <<tree, state, planned, changed, generated, meddled>>
    BY <1>2 DEF LookThrough, Stop
  <2>2. AsGenerated => AsGenerated'
    BY <2>1 DEF AsGenerated, PlannedThing
  <2>3. CASE command' = command
    BY <2>1, <2>2, <2>3 DEF WrittenStands, WorkSoFar, PristineTold
  <2>4. CASE command' = Idle
    BY <2>1, <2>2, <2>4 DEF WrittenStands, WorkSoFar, PristineTold, Idle
  <2> QED
    BY <2>1, <2>3, <2>4
<1>3. CASE BeginRemoving
  <2>1. /\ command.name \in {"reset", "clean"} /\ command' = [command EXCEPT !.at = "remove"]
        /\ todo' = Places /\ generated' = FALSE
        /\ UNCHANGED <<tree, state, planned, changed, meddled>>
    BY <1>3 DEF BeginRemoving, GoTo
  <2>2. command'.name = command.name /\ command'.at = "remove"
    BY <2>1
  <2> QED
    BY <2>1, <2>2 DEF WrittenStands, WorkSoFar, PristineTold, Idle
<1>4. CASE Rebuild
  <2>1. /\ command = [name |-> "reset", at |-> "remove"] /\ todo = {}
        /\ command' = [command EXCEPT !.at = "write"]
        /\ todo' = {w \in Places \X Names : w[2] \in Planted[w[1]]}
        /\ UNCHANGED <<tree, state, planned, changed, generated, meddled>>
    BY <1>4 DEF Rebuild, At, GoTo
  <2>2. command' = [name |-> "reset", at |-> "write"]
    BY <2>1
  <2>3. ~generated
    BY <2>1 DEF WrittenStands
  <2>4. \A p \in Places, n \in Names : <<p, n>> \notin meddled =>
          tree[p][n] = IF <<p, n>> \in todo' THEN "nothing" ELSE PlannedThing(p, n)
    BY <2>1 DEF WorkSoFar, PlannedThing
  <2>5. WorkSoFar'
    BY <2>1, <2>2, <2>4 DEF WorkSoFar, PlannedThing
  <2> QED
    BY <2>1, <2>2, <2>3, <2>5 DEF WrittenStands, PristineTold, Idle
<1>5. CASE RemoveDataset
  <2>1. /\ command = [name |-> "clean", at |-> "remove"] /\ state' = "none" /\ command' = Idle
        /\ UNCHANGED <<tree, changed, generated, meddled>>
    BY <1>5 DEF RemoveDataset, At, Stop
  <2>2. ~generated
    BY <2>1 DEF WrittenStands
  <2> QED
    BY <2>1, <2>2 DEF WrittenStands, WorkSoFar, PristineTold, Idle
<1> QED
  BY <1>1, <1>2, <1>3, <1>4, <1>5

LEMMA RemovingHolds == ASSUME DatasetInv, NEW q \in Places, RemovePlace(q) PROVE DatasetInv'
<1>1. /\ command.at = "remove" /\ tree' = [tree EXCEPT ![q] = Emptied(q)] /\ todo' = todo \ {q}
      /\ meddled' = {m \in meddled : m[1] # q}
      /\ UNCHANGED <<state, planned, command, changed, generated>>
  BY DEF RemovePlace
<1>2. ~generated /\ tree \in [Places -> [Names -> Things]]
  BY <1>1 DEF DatasetInv, WrittenStands, DatasetShapes
<1>3. tree' \in [Places -> [Names -> Things]]
  BY <1>1, <1>2 DEF Emptied, Things
<1>4. \A p \in Places, n \in Names : tree'[p][n] = IF p = q THEN "nothing" ELSE tree[p][n]
  BY <1>1, <1>2 DEF Emptied
<1>5. ASSUME NEW p \in Places \ todo', NEW n \in Names, <<p, n>> \notin meddled' PROVE tree'[p][n] = "nothing"
  <2>1. CASE p = q
    BY <1>4, <2>1
  <2>2. CASE p # q
    <3>1. <<p, n>> \notin meddled /\ p \notin todo
      BY <1>1, <1>5, <2>2
    <3> QED
      BY <1>1, <1>4, <2>2, <3>1 DEF DatasetInv, WorkSoFar
  <2> QED
    BY <2>1, <2>2
<1>6. command.name # "run" /\ command.name # "generate"
  BY <1>1 DEF DatasetInv, DatasetShapes
<1>7. WorkSoFar'
  BY <1>1, <1>5 DEF WorkSoFar
<1> QED
  BY <1>1, <1>2, <1>3, <1>6, <1>7 DEF DatasetInv, DatasetShapes, WrittenStands, PristineTold

LEMMA RunHolds ==
    ASSUME DatasetInv, BeginRun \/ Snapshot \/ (\E raised \in BOOLEAN : Baseline(raised)) \/ Changed
    PROVE  DatasetInv'
<1> USE DEF DatasetInv, DatasetShapes
<1>1. CASE BeginRun
  <2>1. /\ command' = [name |-> "run", at |-> "start"] /\ command = Idle
        /\ state \in {"none", "pristine"} /\ state' = "in-use" /\ changed' = FALSE /\ planned
        /\ UNCHANGED <<tree, planned, generated, meddled>>
    BY <1>1 DEF BeginRun, Begin, ReadState
  <2>2. generated => AsGenerated
    BY <2>1 DEF WrittenStands, PristineTold
  <2>3. (generated => AsGenerated)'
    BY <2>1, <2>2 DEF AsGenerated, PlannedThing
  <2> QED
    BY <2>1, <2>3 DEF WrittenStands, WorkSoFar, PristineTold, Idle
<1>2. CASE Snapshot \/ \E raised \in BOOLEAN : Baseline(raised)
  <2>1. /\ command.name = "run" /\ command.at \in {"start", "baseline"}
        /\ \/ command' = [command EXCEPT !.at = "baseline"] /\ changed' = changed
           \/ command' = [command EXCEPT !.at = "end"] /\ changed' = changed
           \/ command' = [command EXCEPT !.at = "change"] /\ changed' = TRUE
        /\ UNCHANGED <<tree, state, planned, generated, meddled>>
    BY <1>2 DEF Snapshot, Baseline, At, GoTo, ChangedAtOnce
  <2>2. \/ command' = [name |-> "run", at |-> "baseline"] /\ changed' = changed
        \/ command' = [name |-> "run", at |-> "end"] /\ changed' = changed
        \/ command' = [name |-> "run", at |-> "change"] /\ changed' = TRUE
    BY <2>1
  <2>3. AsGenerated => AsGenerated'
    BY <2>1 DEF AsGenerated, PlannedThing
  <2>4. DatasetShapes'
    <3>1. planned' /\ changed' \in BOOLEAN /\ tree' = tree
      BY <2>1
    <3>2. /\ command'.name = "run" /\ command'.at \in {"baseline", "end", "change"}
          /\ command' \in [name : {"none", "generate", "reset", "clean", "run"},
                           at : {"start", "write", "remove", "baseline", "change", "end"}]
      BY <2>2
    <3>3. command' # Idle
      BY <3>2 DEF Idle
    <3> QED
      BY <3>1, <3>2, <3>3
  <2>5. WrittenStands' /\ WorkSoFar'
    BY <2>1, <2>2 DEF WrittenStands, WorkSoFar
  <2>6. PristineTold'
    BY <2>1, <2>2, <2>3 DEF PristineTold
  <2> QED
    BY <2>4, <2>5, <2>6
<1>3. CASE Changed
  <2>1. /\ command = [name |-> "run", at |-> "change"] /\ command' = [command EXCEPT !.at = "end"]
        /\ changed' = TRUE /\ UNCHANGED <<tree, state, planned, generated, meddled>>
    BY <1>3 DEF Changed, At, GoTo
  <2>2. command' = [name |-> "run", at |-> "end"]
    BY <2>1
  <2> QED
    BY <2>1, <2>2 DEF WrittenStands, WorkSoFar, PristineTold, Idle
<1> QED
  BY <1>1, <1>2, <1>3

LEMMA ChangeHolds == ASSUME DatasetInv, Change PROVE DatasetInv'
<1>1. PICK i \in todo :
        LET c == Changes[i]
        IN  \/ command' = [command EXCEPT !.at = "end"] /\ UNCHANGED tree
            \/ /\ Put(c.root, c.name, IF c.kind = "delete" THEN "nothing" ELSE "changed")
               /\ UNCHANGED command
  BY DEF Change, GoTo
<1>2. /\ command = [name |-> "run", at |-> "change"]
      /\ UNCHANGED <<state, planned, changed, generated, meddled>>
  BY DEF Change, At
<1>3. tree' \in [Places -> [Names -> Things]]
  <2>1. CASE UNCHANGED tree
    BY <2>1 DEF DatasetInv, DatasetShapes
  <2>2. ASSUME NEW a, NEW b, NEW thing \in {"nothing", "changed"}, Put(a, b, thing)
        PROVE  tree' \in [Places -> [Names -> Things]]
    BY <2>2, OnePut DEF DatasetInv, Things
  <2> QED
    BY <1>1, <2>1, <2>2
<1>4. command' = [name |-> "run", at |-> "end"] \/ command' = command
  BY <1>1, <1>2
<1>5. changed /\ state = "in-use" /\ planned
  BY <1>2 DEF DatasetInv, DatasetShapes, PristineTold
<1>6. generated => state # "none"
  BY DEF DatasetInv, WrittenStands
<1> QED
  BY <1>2, <1>3, <1>4, <1>5, <1>6
  DEF DatasetInv, DatasetShapes, WrittenStands, WorkSoFar, PristineTold, Idle

LEMMA EndingsHold == ASSUME DatasetInv, EndRun \/ Raise \/ Kill PROVE DatasetInv'
<1> USE DEF DatasetInv, DatasetShapes
<1>1. CASE EndRun
  <2>1. /\ command = [name |-> "run", at |-> "end"] /\ command' = Idle
        /\ state' = "consumed" \/ (state' = "pristine" /\ ~changed)
        /\ UNCHANGED <<tree, planned, changed, generated, meddled>>
    BY <1>1 DEF EndRun, At, Stop
  <2>2. ~changed /\ generated => AsGenerated'
    BY <2>1 DEF PristineTold, AsGenerated, PlannedThing
  <2> QED
    BY <2>1, <2>2 DEF WrittenStands, WorkSoFar, PristineTold, Idle
<1>2. CASE Raise /\ command.name = "run"
  <2>1. command' = [command EXCEPT !.at = "end"] /\ UNCHANGED <<tree, state, planned, changed, generated, meddled>>
    BY <1>2 DEF Raise, GoTo
  <2>2. command' = [name |-> "run", at |-> "end"]
    BY <1>2, <2>1
  <2>3. AsGenerated => AsGenerated'
    BY <2>1 DEF AsGenerated, PlannedThing
  <2> QED
    BY <1>2, <2>1, <2>2, <2>3 DEF WrittenStands, WorkSoFar, PristineTold, Idle
<1>3. CASE Kill \/ (Raise /\ command.name # "run")
  <2>1. command' = Idle /\ UNCHANGED <<tree, state, planned, changed, generated, meddled>>
    BY <1>3 DEF Kill, Raise, Stop
  <2>2. AsGenerated => AsGenerated'
    BY <2>1 DEF AsGenerated, PlannedThing
  <2> QED
    BY <2>1, <2>2 DEF WrittenStands, WorkSoFar, PristineTold, Idle
<1> QED
  BY <1>1, <1>2, <1>3

LEMMA MeddlingHolds == ASSUME DatasetInv, NEW q \in Places, NEW m \in Names, Meddle(q, m) PROVE DatasetInv'
<1>1. PICK thing \in {"nothing", "foreign"} : Put(q, m, thing)
  BY DEF Meddle
<1>2. /\ tree' \in [Places -> [Names -> Things]]
      /\ \A p \in Places, n \in Names : tree'[p][n] = IF p = q /\ n = m THEN thing ELSE tree[p][n]
  BY <1>1, OnePut DEF DatasetInv, Things
<1>3. meddled' = meddled \cup {<<q, m>>} /\ UNCHANGED <<state, planned, command, todo, changed, generated>>
  BY DEF Meddle
<1>4. \A p \in Places, n \in Names : <<p, n>> \notin meddled' => <<p, n>> \notin meddled /\ tree'[p][n] = tree[p][n]
  BY <1>2, <1>3
<1>5. AsGenerated => AsGenerated'
  BY <1>4 DEF AsGenerated, PlannedThing
<1>6. WorkSoFar'
  BY <1>3, <1>4 DEF DatasetInv, WorkSoFar, PlannedThing
<1> QED
  BY <1>2, <1>3, <1>5, <1>6 DEF DatasetInv, DatasetShapes, WrittenStands, PristineTold

LEMMA DatasetStepHolds == ASSUME DatasetInv, [DatasetNext]_datasetVars PROVE DatasetInv'
<1>1. CASE UNCHANGED datasetVars
  BY <1>1 DEF datasetVars, DatasetInv, DatasetShapes, WrittenStands, WorkSoFar, PristineTold, AsGenerated,
              PlannedThing
<1>2. CASE DatasetNext
  BY <1>2, GenerateHolds, WritingHolds, WrittenHolds, WipingHolds, RemovingHolds, RunHolds, ChangeHolds,
     EndingsHold, MeddlingHolds DEF DatasetNext
<1> QED
  BY <1>1, <1>2

(* A dataset that was written to its end and whose state says pristine is  *)
(* the generated one, but for what people did to it, whatever changes a    *)
(* run makes and wherever it raises or is killed.                          *)
THEOREM PristineStaysGenerated == DatasetSpec => []PristineIsGenerated
<1>1. DatasetInv => PristineIsGenerated
  BY DEF DatasetInv, PristineTold, AsGenerated, PlannedThing, PristineIsGenerated
<1> QED
  BY <1>1, DatasetStarts, DatasetStepHolds, PTL DEF DatasetSpec

-----------------------------------------------------------------------------
(* A file that was there when a wipe began, under a name the dataset does  *)
(* not know.                                                               *)
Stranger(p, n) == <<p, n>> \in hostages /\ n \notin Known(p)

FoldersHold ==
    /\ \A p \in Roots \ there, n \in Names : tree[p][n] = "nothing"
    /\ command.at = "write" => Places \subseteq there
    /\ command.name = "run" => Roots \subseteq there
    /\ command.at = "change" => todo \subseteq DOMAIN Changes

(* Strangers stay, because no wipe that found one gets to its removals. *)
StrangersStay ==
    /\ \A p \in Roots, n \in Names : Stranger(p, n) => tree[p][n] = "foreign"
    /\ command.name \in {"reset", "clean"} /\ command.at = "start" =>
         \A p \in Roots \ todo, n \in Names : ~Stranger(p, n)
    /\ command.at = "remove" \/ command = [name |-> "generate", at |-> "start"] =>
         \A p \in Roots, n \in Names : ~Stranger(p, n)

StrangersKept == FoldersHold /\ StrangersStay

HostageInv == DatasetInv /\ StrangersKept

LEMMA NothingPut ==
    ASSUME HostageInv, UNCHANGED <<tree, hostages>>, there \subseteq there',
           \/ command' = command /\ todo' = todo
           \/ command'.at \in {"baseline", "end"} /\ (command'.name = "run" => Roots \subseteq there')
           \/ command' = Idle
    PROVE  StrangersKept'
<1>1. FoldersHold'
  BY DEF HostageInv, StrangersKept, FoldersHold, Idle
<1>2. StrangersStay'
  BY DEF HostageInv, StrangersKept, StrangersStay, Stranger, Known, Idle
<1> QED
  BY <1>1, <1>2 DEF StrangersKept

LEMMA HostageWipingHolds ==
    ASSUME HostageInv,
           \/ \E name \in {"reset", "clean"} : BeginWipe(name)
           \/ \E p \in Places : LookThrough(p)
           \/ BeginRemoving \/ Rebuild \/ RemoveDataset
    PROVE  StrangersKept'
<1> USE DEF HostageInv, StrangersKept
<1>1. ASSUME NEW name \in {"reset", "clean"}, BeginWipe(name) PROVE StrangersKept'
  <2>1. /\ command' = [name |-> name, at |-> "start"] /\ todo' = Roots
        /\ UNCHANGED <<tree, there>>
        /\ hostages' = {w \in Places \X Names : tree[w[1]][w[2]] = "foreign"}
    BY <1>1 DEF BeginWipe, Begin
  <2> QED
    BY <2>1 DEF FoldersHold, StrangersStay, Stranger
<1>2. ASSUME NEW q \in Places, LookThrough(q) PROVE StrangersKept'
  <2>1. /\ command.name \in {"reset", "clean"} /\ command.at = "start" /\ UNCHANGED <<tree, there, hostages>>
        /\ \/ (q \in there => Vouched(q)) /\ todo' = todo \ {q} /\ command' = command
           \/ command' = Idle
    BY <1>2 DEF LookThrough, Stop
  <2>2. CASE command' = Idle
    BY <2>1, <2>2, NothingPut
  <2>3. CASE (q \in there => Vouched(q)) /\ todo' = todo \ {q} /\ command' = command
    <3>1. \A n \in Names : q \in Roots => ~Stranger(q, n)
      BY <2>3 DEF FoldersHold, StrangersStay, Stranger, Vouched
    <3>2. \A p \in Roots \ todo', n \in Names : ~Stranger(p, n)
      BY <2>1, <2>3, <3>1 DEF StrangersStay
    <3>3. StrangersStay'
      BY <2>1, <2>3, <3>2 DEF StrangersStay, Stranger, Known
    <3> QED
      BY <2>1, <2>3, <3>3 DEF FoldersHold
  <2> QED
    BY <2>1, <2>2, <2>3
<1>3. CASE BeginRemoving
  <2>1. /\ command.name \in {"reset", "clean"} /\ command.at = "start" /\ todo = {}
        /\ command' = [command EXCEPT !.at = "remove"] /\ UNCHANGED <<tree, there, hostages>>
    BY <1>3 DEF BeginRemoving, GoTo
  <2>2. command'.at = "remove" /\ command'.name = command.name
    BY <2>1 DEF DatasetInv, DatasetShapes
  <2> QED
    BY <2>1, <2>2 DEF FoldersHold, StrangersStay, Stranger, Known
<1>4. CASE Rebuild
  <2>1. /\ command = [name |-> "reset", at |-> "remove"] /\ command' = [command EXCEPT !.at = "write"]
        /\ there' = Places /\ UNCHANGED <<tree, hostages>>
    BY <1>4 DEF Rebuild, At, GoTo
  <2>2. command' = [name |-> "reset", at |-> "write"]
    BY <2>1
  <2> QED
    BY <2>1, <2>2 DEF FoldersHold, StrangersStay, Stranger, Known, Places
<1>5. CASE RemoveDataset
  <2>1. command' = Idle /\ UNCHANGED <<tree, there, hostages>>
    BY <1>5 DEF RemoveDataset, Stop
  <2> QED
    BY <2>1, NothingPut
<1> QED
  BY <1>1, <1>2, <1>3, <1>4, <1>5

LEMMA HostageCommandsHold ==
    ASSUME HostageInv,
           \/ BeginGenerate \/ PlanFits \/ PlanFails \/ WritePristine \/ (\E p \in Roots : MakeFolder(p))
           \/ BeginRun \/ Snapshot \/ Changed \/ EndRun \/ Raise \/ Kill
           \/ \E raised \in BOOLEAN : Baseline(raised)
    PROVE  StrangersKept'
<1> USE DEF HostageInv, StrangersKept
<1>1. CASE BeginGenerate \/ BeginRun
  <2>1. /\ \/ /\ command' = [name |-> "generate", at |-> "start"]
              /\ \A p \in Places, n \in Names : tree[p][n] = "nothing"
           \/ command' = [name |-> "run", at |-> "start"] /\ Roots \subseteq there
        /\ UNCHANGED <<tree, there, hostages>>
    BY <1>1 DEF BeginGenerate, BeginRun, Begin, LooksPristine, Empty
  <2> QED
    BY <2>1 DEF FoldersHold, StrangersStay, Stranger, Known, Places
<1>2. CASE PlanFits
  <2>1. /\ command = [name |-> "generate", at |-> "start"] /\ command' = [command EXCEPT !.at = "write"]
        /\ there' = Places /\ UNCHANGED <<tree, hostages>>
    BY <1>2 DEF PlanFits, At, GoTo
  <2>2. command' = [name |-> "generate", at |-> "write"]
    BY <2>1
  <2> QED
    BY <2>1, <2>2 DEF FoldersHold, StrangersStay, Stranger, Known, Places
<1>3. CASE WritePristine \/ EndRun \/ Kill \/ (Raise /\ command.name # "run")
  <2>1. command' = Idle /\ UNCHANGED <<tree, there, hostages>>
    BY <1>3 DEF WritePristine, EndRun, Kill, Raise, Stop
  <2> QED
    BY <2>1, NothingPut
<1>4. CASE Snapshot \/ Changed \/ (Raise /\ command.name = "run")
  <2>1. /\ command.name = "run" /\ \E e \in {"baseline", "end"} : command' = [command EXCEPT !.at = e]
        /\ UNCHANGED <<tree, there, hostages>>
    BY <1>4 DEF Snapshot, Changed, Raise, At, GoTo
  <2>2. command'.at \in {"baseline", "end"}
    BY <2>1 DEF DatasetInv, DatasetShapes
  <2>3. Roots \subseteq there'
    BY <2>1 DEF FoldersHold
  <2> QED
    BY <2>1, <2>2, <2>3, NothingPut
<1>5. ASSUME NEW raised \in BOOLEAN, Baseline(raised) PROVE StrangersKept'
  <2>1. /\ command = [name |-> "run", at |-> "baseline"] /\ UNCHANGED <<tree, there, hostages>>
        /\ \/ command' = [command EXCEPT !.at = "end"]
           \/ command' = [command EXCEPT !.at = "change"] /\ todo' = DOMAIN Changes
    BY <1>5 DEF Baseline, At, GoTo
  <2>2. \/ command' = [name |-> "run", at |-> "end"]
        \/ command' = [name |-> "run", at |-> "change"] /\ todo' = DOMAIN Changes
    BY <2>1
  <2> QED
    BY <2>1, <2>2 DEF FoldersHold, StrangersStay, Stranger, Known
<1>6. CASE PlanFails
  <2>1. /\ command = [name |-> "generate", at |-> "start"] /\ command' = Idle
        /\ there' = there \ todo /\ UNCHANGED hostages
        /\ tree' = [p \in Places |-> IF p \in todo THEN Emptied(p) ELSE tree[p]]
    BY <1>6 DEF PlanFails, Stop, At
  <2>2. \A p \in Roots, n \in Names : tree'[p][n] = IF p \in todo THEN "nothing" ELSE tree[p][n]
    BY <2>1 DEF Emptied, Places
  <2> QED
    BY <2>1, <2>2 DEF FoldersHold, StrangersStay, Stranger, Known, Idle
<1>7. ASSUME NEW q \in Roots, MakeFolder(q) PROVE StrangersKept'
  <2>1. /\ command = [name |-> "generate", at |-> "start"] /\ UNCHANGED <<tree, command, hostages>>
        /\ there' = there \cup {q}
    BY <1>7 DEF MakeFolder, At
  <2> QED
    BY <2>1 DEF FoldersHold, StrangersStay, Stranger, Known
<1> QED
  BY <1>1, <1>2, <1>3, <1>4, <1>5, <1>6, <1>7

(* What is put at a path in a folder that is there, of a name the dataset  *)
(* knows, or over nobody's file, is put over no stranger.                  *)
LEMMA HostagePutHolds ==
    ASSUME HostageInv, NEW a, NEW b, NEW thing \in Things, Put(a, b, thing),
           UNCHANGED <<there, hostages, command>>, todo' \subseteq todo,
           command.at = "start" => todo' = todo,
           a \in Roots => a \in there,
           a \in Roots /\ b \in Names => b \in Known(a) \/ tree[a][b] # "foreign"
    PROVE  StrangersKept'
<1>1. \A p \in Places, n \in Names : tree'[p][n] = IF p = a /\ n = b THEN thing ELSE tree[p][n]
  BY OnePut DEF HostageInv, StrangersKept, DatasetInv
<1>2. \A p \in Roots, n \in Names : tree'[p][n] = IF p = a /\ n = b THEN thing ELSE tree[p][n]
  BY <1>1 DEF Places
<1>3. FoldersHold'
  BY <1>2 DEF HostageInv, StrangersKept, FoldersHold
<1>4. \A p \in Roots, n \in Names : Stranger(p, n) => tree'[p][n] = "foreign"
  BY <1>2 DEF HostageInv, StrangersKept, StrangersStay, Stranger
<1>5. StrangersStay'
  BY <1>4 DEF HostageInv, StrangersKept, StrangersStay, Stranger, Known
<1> QED
  BY <1>3, <1>5 DEF StrangersKept

LEMMA HostagePutsHold ==
    ASSUME HostageInv, Materialize \/ Change \/ \E p \in Places, n \in Names : Meddle(p, n)
    PROVE  StrangersKept'
<1> USE DEF HostageInv, StrangersKept
<1>1. CASE Materialize
  <2>1. PICK w \in todo : Put(w[1], w[2], "planted") /\ todo' = todo \ {w}
    BY <1>1 DEF Materialize
  <2>2. command.at = "write" /\ UNCHANGED <<there, hostages, command>>
    BY <1>1 DEF Materialize
  <2>3. w[1] \in Places /\ w[2] \in Planted[w[1]]
    BY <2>2 DEF DatasetInv, WorkSoFar
  <2>4. w[1] \in there /\ w[2] \in Known(w[1])
    BY <2>2, <2>3 DEF FoldersHold, Known
  <2> QED
    BY <2>1, <2>2, <2>4, HostagePutHolds DEF Things
<1>2. CASE Change
  <2>1. /\ command = [name |-> "run", at |-> "change"] /\ UNCHANGED <<there, hostages>>
        /\ Roots \subseteq there /\ todo \subseteq DOMAIN Changes
    BY <1>2 DEF Change, At, FoldersHold
  <2>2. PICK i \in todo :
          LET c == Changes[i]
          IN  \/ command' = [command EXCEPT !.at = "end"] /\ UNCHANGED tree
              \/ /\ Put(c.root, c.name, IF c.kind = "delete" THEN "nothing" ELSE "changed")
                 /\ UNCHANGED command /\ todo' = todo \ {i}
    BY <1>2 DEF Change, GoTo
  <2>3. CASE command' = [command EXCEPT !.at = "end"] /\ UNCHANGED tree
    <3>1. command' = [name |-> "run", at |-> "end"]
      BY <2>1, <2>3
    <3> QED
      BY <2>1, <2>3, <3>1, NothingPut
  <2>4. ASSUME NEW thing \in Things, Put(Changes[i].root, Changes[i].name, thing),
               UNCHANGED command, todo' = todo \ {i}
        PROVE  StrangersKept'
    <3>1. Changes[i].name \in Known(Changes[i].root)
      BY <2>1 DEF Known
    <3> QED
      BY <2>1, <2>4, <3>1, HostagePutHolds
  <2> QED
    BY <2>2, <2>3, <2>4 DEF Things
<1>3. ASSUME NEW p \in Places, NEW n \in Names, Meddle(p, n) PROVE StrangersKept'
  <2>1. PICK thing \in {"nothing", "foreign"} : tree[p][n] # "foreign" /\ Put(p, n, thing)
    BY <1>3 DEF Meddle
  <2>2. p \in there /\ UNCHANGED <<there, hostages, command, todo>>
    BY <1>3 DEF Meddle
  <2> QED
    BY <2>1, <2>2, HostagePutHolds DEF Things
<1> QED
  BY <1>1, <1>2, <1>3

LEMMA HostageRemovalHolds ==
    ASSUME HostageInv, NEW q \in Places, RemovePlace(q) PROVE StrangersKept'
<1>1. /\ command.at = "remove" /\ tree' = [tree EXCEPT ![q] = Emptied(q)] /\ there' = there \ {q}
      /\ UNCHANGED <<hostages, command>> /\ tree \in [Places -> [Names -> Things]]
  BY DEF RemovePlace, HostageInv, DatasetInv, DatasetShapes
<1>2. \A p \in Roots, n \in Names : tree'[p][n] = IF p = q THEN "nothing" ELSE tree[p][n]
  BY <1>1 DEF Emptied, Places
<1>3. command.name # "run"
  BY <1>1 DEF HostageInv, StrangersKept, DatasetInv, DatasetShapes
<1>4. FoldersHold'
  BY <1>1, <1>2, <1>3 DEF HostageInv, StrangersKept, FoldersHold
<1>5. StrangersStay'
  BY <1>1 DEF HostageInv, StrangersKept, StrangersStay, Stranger, Known
<1> QED
  BY <1>4, <1>5 DEF StrangersKept

LEMMA HostageStepHolds == ASSUME HostageInv, [DatasetNext]_datasetVars PROVE HostageInv'
<1>1. DatasetInv'
  BY DatasetStepHolds DEF HostageInv, StrangersKept
<1>2. CASE UNCHANGED datasetVars
  BY <1>1, <1>2, NothingPut DEF HostageInv, StrangersKept, datasetVars
<1>3. CASE DatasetNext
  BY <1>1, <1>3, HostageWipingHolds, HostageCommandsHold, HostagePutsHold, HostageRemovalHolds
  DEF HostageInv, StrangersKept, DatasetNext
<1> QED
  BY <1>2, <1>3

(* A file of somebody else's that is on a drive when the bench sets out to *)
(* delete a dataset stays there, unless it has the name of one of the      *)
(* dataset's, whatever people and the bench do meanwhile and afterwards.   *)
THEOREM ForeignFilesKept == DatasetSpec => ForeignKept
<1>1. DatasetInit => HostageInv
  <2> SUFFICES ASSUME DatasetInit PROVE FoldersHold /\ StrangersStay
    BY DatasetStarts DEF HostageInv, StrangersKept
  <2> QED
    BY DEF DatasetInit, FoldersHold, StrangersStay, Stranger, Emptied, Places, Idle
<1>2. ASSUME HostageInv, [DatasetNext]_datasetVars
      PROVE  [\A p \in Roots, n \in Names :
                 <<p, n>> \in hostages /\ n \notin Known(p) => tree'[p][n] = "foreign"]_tree
  <2>1. StrangersStay'
    BY <1>2, HostageStepHolds DEF HostageInv, StrangersKept
  <2>2. UNCHANGED tree \/ UNCHANGED hostages
    BY <1>2 DEF datasetVars, DatasetNext, BeginGenerate, MakeFolder, PlanFits, PlanFails, Materialize, WritePristine,
                BeginWipe, BeginRemoving, Rebuild, RemoveDataset, BeginRun, Snapshot, Baseline, Change,
                Changed, EndRun, Raise, Kill, LookThrough, RemovePlace, Meddle
  <2>3. CASE UNCHANGED hostages
    BY <2>1, <2>3 DEF StrangersStay, Stranger, Known
  <2> QED
    BY <2>2, <2>3
<1> QED
  BY <1>1, <1>2, HostageStepHolds, PTL DEF DatasetSpec, ForeignKept

-----------------------------------------------------------------------------
(***************************************************************************)
(* A campaign.  The entries in are those of the runs behind it, one short  *)
(* while a run is on, and unless somebody interrupts it, no entry is       *)
(* without a verdict.                                                      *)
(***************************************************************************)

(* Entries of runs that nobody interrupted. *)
WholeEntry == [verdict : {"PASS", "FAIL", "ERROR"}, results : [Requirements -> Verdicts \cup {"none"}],
               copied : {"no", "part", "whole"}]

(* The runs whose entries are in, by the step the campaign is at. *)
CampaignCounts ==
    /\ index \in Nat
    /\ at \in {"start", "between", "generate", "run", "clean", "finish", "summarise", "ended", "lost"}
    /\ crashed \in BOOLEAN /\ crashed => at \in {"clean", "finish", "summarise", "ended"}
    /\ saved = entries
    /\ at = "start" => index = 0 /\ saved = <<>>
    /\ ~crashed => saved \in Seq(WholeEntry)
    /\ ~crashed => Len(saved) = IF at \in {"generate", "run", "clean", "finish"} THEN index - 1 ELSE index

CampaignEntry ==
    /\ at \in {"generate", "run"} => entry = NoEntry
    /\ at \in {"clean", "finish"} /\ ~crashed => entry \in WholeEntry

CampaignLeft ==
    ~crashed => \A i \in left : keep \/ i \in logged \/ (i = index /\ at \in {"run", "clean"})

CampaignSummary == at \in {"start", "between", "ended"} /\ ~crashed => summary = Summarised(saved)

CampaignInv == CampaignCounts /\ CampaignEntry /\ CampaignLeft /\ CampaignSummary

LEMMA CampaignStarts == CampaignInit => CampaignInv
<1>1. <<>> \in Seq(WholeEntry) /\ Len(<<>>) = 0
  OBVIOUS
<1> SUFFICES ASSUME CampaignInit PROVE CampaignInv
  OBVIOUS
<1>2. CampaignCounts
  BY <1>1 DEF CampaignInit, CampaignCounts
<1> QED
  BY <1>2 DEF CampaignInit, CampaignInv, CampaignEntry, CampaignLeft, CampaignSummary

LEMMA CampaignCountsHold ==
    ASSUME CampaignInv, [CampaignNext]_campaignVars PROVE CampaignCounts'
<1> USE DEF CampaignInv, CampaignCounts
<1>1. CASE UNCHANGED campaignVars
  BY <1>1 DEF campaignVars
<1>2. CASE Open
  BY <1>2 DEF Open
<1>3. CASE NextRun
  BY <1>3 DEF NextRun
<1>4. CASE Generate \/ GenerateFails \/ RunAndJudge \/ RunFails \/ Clean
  BY <1>4 DEF Generate, GenerateFails, RunAndJudge, RunFails, Clean, Raised
<1>5. CASE Finish
  <2>1. saved' = Append(saved, entry) /\ entries' = saved' /\ at' = "summarise" /\ at = "finish"
        /\ UNCHANGED <<index, crashed>>
    BY <1>5 DEF Finish, WithEntry
  <2>2. ASSUME ~crashed PROVE saved' \in Seq(WholeEntry) /\ Len(saved') = index
    <3>1. entry \in WholeEntry /\ saved \in Seq(WholeEntry) /\ Len(saved) = index - 1
      BY <2>1, <2>2 DEF CampaignEntry
    <3>2. saved' \in Seq(WholeEntry) /\ Len(saved') = Len(saved) + 1
      BY <2>1, <3>1, AppendProperties
    <3> QED
      BY <3>1, <3>2
  <2> QED
    BY <2>1, <2>2
<1>6. CASE Summarise
  BY <1>6 DEF Summarise
<1>7. CASE Interrupt \/ KillCampaign \/ RequestStop
  BY <1>7 DEF Interrupt, KillCampaign, RequestStop
<1> QED
  BY <1>1, <1>2, <1>3, <1>4, <1>5, <1>6, <1>7 DEF CampaignNext

(* What a run that raises, or is judged, leaves as its entry. *)
LEMMA EntriesAreWhole ==
    ASSUME entry = NoEntry
    PROVE  /\ Raised => entry' \in WholeEntry
           /\ \A e \in Judged : e \in WholeEntry
           /\ \A e \in Judged \cup {NoEntry, Unjudged("part")} :
                [e EXCEPT !.verdict = "ERROR"] \in WholeEntry
<1> DEFINE nothing == [r \in Requirements |-> "none"]
           all == [Requirements -> Verdicts \cup {"none"}]
<1>1. nothing \in all
  OBVIOUS
<1> HIDE DEF nothing, all
<1>2. \A t \in {"no", "part", "whole"}, f \in all : [verdict |-> "ERROR", results |-> f, copied |-> t] \in WholeEntry
  BY DEF WholeEntry, all
<1>3. ASSUME Raised PROVE entry' \in WholeEntry
  <2>1. entry' = [verdict |-> "ERROR", results |-> nothing, copied |-> "no"]
    BY <1>3 DEF Raised, NoEntry, Unjudged, nothing
  <2> QED
    BY <1>1, <1>2, <2>1
<1>4. ASSUME NEW e \in Judged
      PROVE  e \in WholeEntry /\ [e EXCEPT !.verdict = "ERROR"] \in WholeEntry
  <2>1. e \in [verdict : {"PASS", "FAIL"}, results : all, copied : {"whole"}]
    BY DEF Judged, all
  <2>2. e \in WholeEntry
    BY <2>1 DEF WholeEntry, all
  <2>3. [e EXCEPT !.verdict = "ERROR"] = [verdict |-> "ERROR", results |-> e.results, copied |-> "whole"]
        /\ e.results \in all
    BY <2>1
  <2> QED
    BY <1>2, <2>2, <2>3
<1>5. ASSUME NEW c \in {"no", "part", "whole"}
      PROVE  [Unjudged(c) EXCEPT !.verdict = "ERROR"] = [verdict |-> "ERROR", results |-> nothing, copied |-> c]
  BY DEF Unjudged, nothing
<1>6. /\ [NoEntry EXCEPT !.verdict = "ERROR"] \in WholeEntry
      /\ [Unjudged("part") EXCEPT !.verdict = "ERROR"] \in WholeEntry
  BY <1>1, <1>2, <1>5 DEF NoEntry
<1> QED
  BY <1>3, <1>4, <1>6

LEMMA CampaignEntryHolds ==
    ASSUME CampaignInv, [CampaignNext]_campaignVars PROVE CampaignEntry'
<1>1. CASE GenerateFails \/ RunAndJudge \/ RunFails
  <2>1. entry = NoEntry
    BY <1>1 DEF CampaignInv, CampaignEntry, GenerateFails, RunAndJudge, RunFails
  <2>2. entry' \in WholeEntry
    BY <1>1, <2>1, EntriesAreWhole DEF GenerateFails, RunAndJudge, RunFails
  <2> QED
    BY <1>1, <2>2 DEF CampaignEntry, GenerateFails, RunAndJudge, RunFails
<1>2. CASE UNCHANGED campaignVars
  BY <1>2 DEF CampaignInv, CampaignEntry, campaignVars
<1>3. CASE Open \/ NextRun \/ Generate \/ Clean \/ Finish
  BY <1>3 DEF CampaignInv, CampaignEntry, Open, NextRun, Generate, Clean, Finish
<1>4. CASE Summarise \/ Interrupt \/ KillCampaign \/ RequestStop
  BY <1>4 DEF CampaignInv, CampaignEntry, Summarise, Interrupt, KillCampaign, RequestStop
<1> QED
  BY <1>1, <1>2, <1>3, <1>4 DEF CampaignNext

LEMMA CampaignLeftHolds ==
    ASSUME CampaignInv, [CampaignNext]_campaignVars PROVE CampaignLeft'
<1> USE DEF CampaignInv, CampaignLeft
<1>1. CASE UNCHANGED campaignVars
  BY <1>1 DEF campaignVars
<1>2. CASE Open \/ NextRun \/ Finish \/ Summarise
  BY <1>2 DEF Open, NextRun, Finish, Summarise
<1>3. CASE Generate
  BY <1>3 DEF Generate
<1>4. CASE GenerateFails
  BY <1>4 DEF GenerateFails, Raised
<1>5. CASE RunAndJudge \/ RunFails
  BY <1>5 DEF RunAndJudge, RunFails, Raised
<1>6. CASE Clean
  BY <1>6 DEF Clean
<1>7. CASE Interrupt \/ KillCampaign \/ RequestStop
  BY <1>7 DEF Interrupt, KillCampaign, RequestStop
<1> QED
  BY <1>1, <1>2, <1>3, <1>4, <1>5, <1>6, <1>7 DEF CampaignNext

LEMMA CampaignSummaryHolds ==
    ASSUME CampaignInv, [CampaignNext]_campaignVars PROVE CampaignSummary'
<1>1. CASE UNCHANGED campaignVars
  BY <1>1 DEF CampaignInv, CampaignSummary, campaignVars
<1>2. CASE Open
  <2>1. summary' = Summarised(saved') /\ saved' = <<>>
    BY <1>2 DEF CampaignInv, CampaignCounts, CampaignSummary, Open
  <2> QED
    BY <2>1 DEF CampaignSummary
<1>3. CASE NextRun
  <2>1. UNCHANGED <<summary, saved, crashed>> /\ at = "between"
    BY <1>3 DEF NextRun
  <2> QED
    BY <2>1 DEF CampaignInv, CampaignSummary
<1>4. CASE Summarise
  <2>1. saved' = saved /\ crashed' = crashed
    BY <1>4 DEF Summarise
  <2>2. ASSUME ~crashed, at' # "lost" PROVE CanSummarise(saved)
    BY <1>4, <2>2 DEF Summarise
  <2>3. ASSUME ~crashed, at' # "lost" PROVE summary' = Summarised(saved')
    BY <1>4, <2>1, <2>2, <2>3 DEF Summarise
  <2> QED
    BY <2>1, <2>3 DEF CampaignSummary
<1>5. CASE Generate \/ GenerateFails \/ RunAndJudge \/ RunFails \/ Clean \/ Finish
  <2>1. at' \in {"run", "finish", "clean", "summarise"}
    BY <1>5 DEF Generate, GenerateFails, RunAndJudge, RunFails, Clean, Finish
  <2> QED
    BY <2>1 DEF CampaignSummary
<1>6. CASE Interrupt \/ KillCampaign
  BY <1>6 DEF Interrupt, KillCampaign, CampaignSummary
<1>7. CASE RequestStop
  BY <1>7 DEF RequestStop, CampaignInv, CampaignSummary
<1> QED
  BY <1>1, <1>2, <1>3, <1>4, <1>5, <1>6, <1>7 DEF CampaignNext

(* What a summary says of runs that all have their entries. *)
LEMMA SummaryTellsRuns ==
    ASSUME NEW runs \in Seq(WholeEntry)
    PROVE  /\ Summarised(runs).runs = Len(runs)
           /\ \A r \in Requirements : Summarised(runs).overall[r] = "PASS" =>
                /\ \E i \in 1 .. Len(runs) : runs[i].results[r] = "PASS"
                /\ \A i \in 1 .. Len(runs) : /\ runs[i].results[r] # "FAIL"
                                             /\ runs[i].verdict = "ERROR" => runs[i].results[r] # "none"
           /\ Summarised(runs).verdict = "PASS"
                <=> (Len(runs) > 0 /\ \A i \in 1 .. Len(runs) : runs[i].verdict = "PASS")
<1> DEFINE all == {runs[i].verdict : i \in DOMAIN runs}
           sum == Summarised(runs)
<1>1. DOMAIN runs = 1 .. Len(runs) /\ Len(runs) \in Nat /\ \A i \in 1 .. Len(runs) : runs[i] \in WholeEntry
  BY ElementOfSeq, LenProperties
<1>2. sum.runs = Len(runs)
  BY DEF Summarised
<1>3. ASSUME NEW r \in Requirements, sum.overall[r] = "PASS"
      PROVE  /\ \E i \in 1 .. Len(runs) : runs[i].results[r] = "PASS"
             /\ \A i \in 1 .. Len(runs) : /\ runs[i].results[r] # "FAIL"
                                          /\ runs[i].verdict = "ERROR" => runs[i].results[r] # "none"
  <2>1. Worst(Cells(runs, r)) = "PASS"
    BY <1>3 DEF Summarised
  <2>2. "ERROR" \notin Cells(runs, r) /\ "FAIL" \notin Cells(runs, r) /\ "PASS" \in Cells(runs, r)
    BY <2>1 DEF Worst
  <2>3. \A i \in 1 .. Len(runs) : Cell(runs[i], r) \notin {"ERROR", "FAIL"}
    BY <1>1, <2>2 DEF Cells
  <2>4. PICK j \in 1 .. Len(runs) : Cell(runs[j], r) = "PASS"
    BY <1>1, <2>2 DEF Cells
  <2>5. runs[j].results[r] = "PASS"
    BY <2>4 DEF Cell
  <2>6. ASSUME NEW i \in 1 .. Len(runs)
        PROVE  runs[i].results[r] # "FAIL" /\ (runs[i].verdict = "ERROR" => runs[i].results[r] # "none")
    BY <2>3 DEF Cell
  <2> QED
    BY <2>5, <2>6
<1>4. sum.verdict = IF "ERROR" \in all THEN "ERROR" ELSE IF "FAIL" \in all THEN "FAIL"
                    ELSE IF "PASS" \in all THEN "PASS" ELSE "N/A"
  BY DEF Summarised
<1>5. \A i \in 1 .. Len(runs) : runs[i].verdict \in all /\ runs[i].verdict \in {"PASS", "FAIL", "ERROR"}
  BY <1>1 DEF WholeEntry
<1>6. \A v \in all : \E i \in 1 .. Len(runs) : v = runs[i].verdict
  BY <1>1
<1>7. sum.verdict = "PASS" <=> ("PASS" \in all /\ "ERROR" \notin all /\ "FAIL" \notin all)
  BY <1>4
<1> HIDE DEF all, sum
<1>8. sum.verdict = "PASS" <=> (Len(runs) > 0 /\ \A i \in 1 .. Len(runs) : runs[i].verdict = "PASS")
  <2>1. ASSUME sum.verdict = "PASS"
        PROVE  Len(runs) > 0 /\ \A i \in 1 .. Len(runs) : runs[i].verdict = "PASS"
    <3>1. \A i \in 1 .. Len(runs) : runs[i].verdict = "PASS"
      BY <1>5, <1>7, <2>1
    <3>2. PICK i \in 1 .. Len(runs) : "PASS" = runs[i].verdict
      BY <1>6, <1>7, <2>1
    <3>3. Len(runs) > 0
      BY <1>1, <3>2
    <3> QED
      BY <3>1, <3>3
  <2>2. ASSUME Len(runs) > 0, \A i \in 1 .. Len(runs) : runs[i].verdict = "PASS"
        PROVE  sum.verdict = "PASS"
    <3>1. 1 \in 1 .. Len(runs)
      BY <1>1, <2>2
    <3>2. "PASS" \in all
      BY <1>5, <2>2, <3>1
    <3>3. "ERROR" \notin all /\ "FAIL" \notin all
      BY <1>6, <2>2
    <3> QED
      BY <1>7, <3>2, <3>3
  <2> QED
    BY <2>1, <2>2
<1> QED
  BY <1>2, <1>3, <1>8 DEF sum

(* Of however many runs: each has its entry and its log or its clean       *)
(* drives, and the summary is theirs, where it could be made.              *)
THEOREM EveryRunAccounted == CampaignSpec => []RunsAccounted
<1>1. CampaignInv => RunsAccounted
  <2> SUFFICES ASSUME CampaignInv, at = "between" \/ (at = "ended" /\ ~crashed)
               PROVE  /\ Len(saved) = index
                      /\ \A i \in left : keep \/ i \in logged
                      /\ summary.runs = index
                      /\ \A r \in Requirements : summary.overall[r] = "PASS" =>
                           /\ \E i \in 1 .. index : saved[i].results[r] = "PASS"
                           /\ \A i \in 1 .. index : /\ saved[i].results[r] # "FAIL"
                                                    /\ saved[i].verdict = "ERROR" => saved[i].results[r] # "none"
                      /\ summary.verdict = "PASS"
                           <=> (index > 0 /\ \A i \in 1 .. index : saved[i].verdict = "PASS")
    BY DEF RunsAccounted
  <2>1. ~crashed /\ saved \in Seq(WholeEntry) /\ Len(saved) = index /\ summary = Summarised(saved)
    BY DEF CampaignInv, CampaignCounts, CampaignSummary
  <2>2. \A i \in left : keep \/ i \in logged
    BY <2>1 DEF CampaignInv, CampaignLeft
  <2> DEFINE sum == Summarised(saved)
             size == Len(saved)
  <2>3. /\ sum.runs = size
        /\ \A r \in Requirements : sum.overall[r] = "PASS" =>
             /\ \E i \in 1 .. size : saved[i].results[r] = "PASS"
             /\ \A i \in 1 .. size : /\ saved[i].results[r] # "FAIL"
                                     /\ saved[i].verdict = "ERROR" => saved[i].results[r] # "none"
        /\ sum.verdict = "PASS" <=> (size > 0 /\ \A i \in 1 .. size : saved[i].verdict = "PASS")
    BY <2>1, SummaryTellsRuns
  <2>4. index = size /\ summary = sum /\ Len(saved) = index
    BY <2>1
  <2> HIDE DEF sum, size
  <2> QED
    BY Zenon, <2>2, <2>3, <2>4
<1>2. CampaignInv /\ [CampaignNext]_campaignVars => CampaignInv'
  BY CampaignCountsHold, CampaignEntryHolds, CampaignLeftHolds, CampaignSummaryHolds DEF CampaignInv
<1> QED
  BY <1>1, <1>2, CampaignStarts, PTL DEF CampaignSpec

-----------------------------------------------------------------------------
(***************************************************************************)
(* The oracle.  Whatever changes the generator plans, and however many of  *)
(* each kind, what the oracle expects by replaying the plan on the         *)
(* manifest is what is on the drives.                                      *)
(*                                                                         *)
(* The two do not follow the same rules: the oracle revives the folders    *)
(* above a new file and takes a vanished file for a generated one.  They   *)
(* agree because the plan explains the drives: what was not generated was  *)
(* made by a step, and no folder is removed that a step has put something  *)
(* in; what went with a folder lies in one that a step removed, and no     *)
(* folder is made there.                                                   *)
(***************************************************************************)

(* A key is a drive and a path. *)
Key(k) == k = <<k[1], k[2]>> /\ \E N : k[2] \in Seq(N)

LEMMA PrefixOf ==
    ASSUME NEW N, NEW p \in Seq(N), NEW i \in 1 .. Len(p)
    PROVE  SubSeq(p, 1, i) \in Seq(N) /\ Len(SubSeq(p, 1, i)) = i /\ \A j \in 1 .. i : SubSeq(p, 1, i)[j] = p[j]
BY SubSeqProperties

LEMMA SameSeq ==
    ASSUME NEW N, NEW p \in Seq(N), NEW M, NEW q \in Seq(M), Len(p) = Len(q), \A j \in 1 .. Len(p) : p[j] = q[j]
    PROVE  p = q
OBVIOUS

(* One path is strictly a prefix of another when it is shorter and they    *)
(* agree as far as it goes.                                                *)
LEMMA StrictPrefix ==
    ASSUME NEW N, NEW p \in Seq(N), NEW M, NEW q \in Seq(M)
    PROVE  IsStrictPrefix(p, q) <=> Len(p) < Len(q) /\ \A j \in 1 .. Len(p) : p[j] = q[j]
<1>1. SubSeq(p, 1, Len(p)) = p
  OBVIOUS
<1>2. ASSUME Len(p) <= Len(q)
      PROVE  /\ SubSeq(q, 1, Len(p)) \in Seq(M) /\ Len(SubSeq(q, 1, Len(p))) = Len(p)
             /\ \A j \in 1 .. Len(p) : SubSeq(q, 1, Len(p))[j] = q[j]
  <2>1. CASE Len(p) = 0
    BY <2>1
  <2>2. CASE Len(p) > 0
    BY <1>2, <2>2, PrefixOf
  <2> QED
    BY <2>1, <2>2
<1>3. ASSUME IsStrictPrefix(p, q) PROVE Len(p) < Len(q) /\ \A j \in 1 .. Len(p) : p[j] = q[j]
  <2>1. Len(p) <= Len(q) /\ p = SubSeq(q, 1, Len(p)) /\ p # q
    BY <1>1, <1>3 DEF IsStrictPrefix, IsPrefix
  <2>2. \A j \in 1 .. Len(p) : p[j] = q[j]
    BY <2>1, <1>2
  <2>3. Len(p) # Len(q)
    BY <2>1, <2>2, SameSeq
  <2> QED
    BY <2>1, <2>2, <2>3
<1>4. ASSUME Len(p) < Len(q), \A j \in 1 .. Len(p) : p[j] = q[j] PROVE IsStrictPrefix(p, q)
  <2>1. p = SubSeq(q, 1, Len(p))
    BY <1>2, <1>4, SameSeq
  <2> QED
    BY <1>1, <1>4, <2>1 DEF IsStrictPrefix, IsPrefix
<1> QED
  BY <1>3, <1>4

LEMMA AncestorKey ==
    ASSUME NEW k, Key(k), NEW a \in Ancestors(k)
    PROVE  Key(a) /\ Below(k, a)
<1> PICK N : k[2] \in Seq(N)
  BY DEF Key
<1> PICK i \in 1 .. Len(k[2]) - 1 : a = <<k[1], SubSeq(k[2], 1, i)>>
  BY DEF Ancestors
<1>1. i \in 1 .. Len(k[2]) /\ i < Len(k[2])
  OBVIOUS
<1> PICK q : q = SubSeq(k[2], 1, i)
  OBVIOUS
<1>2. q \in Seq(N) /\ Len(q) = i /\ \A j \in 1 .. i : q[j] = k[2][j]
  BY <1>1, PrefixOf
<1>3. a = <<k[1], q>> /\ a[1] = k[1] /\ a[2] = q
  OBVIOUS
<1>4. IsStrictPrefix(q, k[2])
  BY <1>1, <1>2, StrictPrefix
<1> QED
  BY <1>2, <1>3, <1>4 DEF Key, Below

LEMMA BelowBelow ==
    ASSUME NEW k, Key(k), NEW a, Key(a), NEW t, Key(t), Below(k, a), Below(a, t)
    PROVE  Below(k, t)
<1> PICK N : k[2] \in Seq(N)
  BY DEF Key
<1> PICK M : a[2] \in Seq(M)
  BY DEF Key
<1> PICK L : t[2] \in Seq(L)
  BY DEF Key
<1>1. Len(a[2]) < Len(k[2]) /\ \A j \in 1 .. Len(a[2]) : a[2][j] = k[2][j]
  BY StrictPrefix DEF Below
<1>2. Len(t[2]) < Len(a[2]) /\ \A j \in 1 .. Len(t[2]) : t[2][j] = a[2][j]
  BY StrictPrefix DEF Below
<1>3. Len(t[2]) < Len(k[2]) /\ \A j \in 1 .. Len(t[2]) : t[2][j] = k[2][j]
  BY <1>1, <1>2
<1>4. IsStrictPrefix(t[2], k[2])
  BY <1>3, StrictPrefix
<1> QED
  BY <1>4 DEF Below

(* Above a new name in a folder are that folder and those above it. *)
LEMMA InKey ==
    ASSUME NEW dir, Key(dir), NEW x, NEW y
    PROVE  /\ Key(In(dir, x)) /\ Ancestors(In(dir, x)) = Ancestors(In(dir, y))
           /\ \A a \in Ancestors(In(dir, x)) : a = dir \/ a \in Ancestors(dir)
<1> PICK N : dir[2] \in Seq(N)
  BY DEF Key
<1> DEFINE p == dir[2]
           P(z) == Append(p, z)
<1>1. ASSUME NEW z
      PROVE  /\ P(z) \in Seq(N \cup {z}) /\ Len(P(z)) = Len(p) + 1
             /\ \A j \in 1 .. Len(p) : P(z)[j] = p[j]
  <2>1. p \in Seq(N \cup {z})
    OBVIOUS
  <2> QED
    BY <2>1
<1>2. ASSUME NEW z, NEW i \in 1 .. Len(p) PROVE SubSeq(P(z), 1, i) = SubSeq(p, 1, i)
  <2>1. /\ SubSeq(P(z), 1, i) \in Seq(N \cup {z}) /\ Len(SubSeq(P(z), 1, i)) = i
        /\ \A j \in 1 .. i : SubSeq(P(z), 1, i)[j] = P(z)[j]
    BY <1>1, PrefixOf
  <2>2. SubSeq(p, 1, i) \in Seq(N) /\ Len(SubSeq(p, 1, i)) = i /\ \A j \in 1 .. i : SubSeq(p, 1, i)[j] = p[j]
    BY PrefixOf
  <2> QED
    BY <2>1, <2>2, <1>1, SameSeq
<1>3. SubSeq(p, 1, Len(p)) = p
  OBVIOUS
<1>4. In(dir, x) = <<dir[1], P(x)>> /\ In(dir, y) = <<dir[1], P(y)>>
  BY DEF In
<1>5. dir = <<dir[1], p>>
  BY DEF Key
<1>12. Len(p) \in Nat
  OBVIOUS
<1> HIDE DEF P, p
<1>13. \A z : Len(P(z)) - 1 = Len(p)
  <2> TAKE z
  <2>1. Len(P(z)) = Len(p) + 1
    BY <1>1
  <2> QED
    BY <2>1, <1>12
<1>14. \A z : \E M : P(z) \in Seq(M)
  <2> TAKE z
  <2>1. P(z) \in Seq(N \cup {z})
    BY <1>1
  <2> QED
    BY <2>1
<1>6. Ancestors(In(dir, x)) = {<<dir[1], SubSeq(P(x), 1, i)>> : i \in 1 .. Len(p)}
  <2>1. In(dir, x)[1] = dir[1] /\ In(dir, x)[2] = P(x)
    BY <1>4
  <2> QED
    BY <2>1, <1>13 DEF Ancestors
<1>7. Ancestors(In(dir, y)) = {<<dir[1], SubSeq(P(y), 1, i)>> : i \in 1 .. Len(p)}
  <2>1. In(dir, y)[1] = dir[1] /\ In(dir, y)[2] = P(y)
    BY <1>4
  <2> QED
    BY <2>1, <1>13 DEF Ancestors
<1>8. Ancestors(dir) = {<<dir[1], SubSeq(p, 1, i)>> : i \in 1 .. Len(p) - 1}
  BY DEF Ancestors, p
<1>9. Key(In(dir, x))
  BY <1>14, <1>4 DEF Key
<1>10. Ancestors(In(dir, x)) = Ancestors(In(dir, y))
  BY <1>2, <1>6, <1>7
<1>11. ASSUME NEW a \in Ancestors(In(dir, x)) PROVE a = dir \/ a \in Ancestors(dir)
  <2> PICK i \in 1 .. Len(p) : a = <<dir[1], SubSeq(P(x), 1, i)>>
    BY <1>6
  <2>1. a = <<dir[1], SubSeq(p, 1, i)>>
    BY <1>2
  <2>2. CASE i = Len(p)
    BY <2>1, <2>2, <1>3, <1>5
  <2>3. CASE i # Len(p)
    <3>1. Len(p) \in Nat
      BY DEF p
    <3>2. i \in 1 .. Len(p) - 1
      BY <2>3, <3>1
    <3> QED
      BY <2>1, <3>2, <1>8
  <2> QED
    BY <2>2, <2>3
<1> QED
  BY <1>9, <1>10, <1>11

-----------------------------------------------------------------------------
(* What the oracle's operators make of an account. *)
Account(e) == e = [files |-> e.files, dirs |-> e.dirs, vanished |-> e.vanished, vanishedDirs |-> e.vanishedDirs]

LEMMA AccountIs ==
    ASSUME NEW a, NEW b, NEW c, NEW d, NEW r \in [files : {a}, dirs : {b}, vanished : {c}, vanishedDirs : {d}]
    PROVE  r = [files |-> a, dirs |-> b, vanished |-> c, vanishedDirs |-> d]
BY Zenon

(* Two of its fields are written at once: those of folders, or of files.   *)
LEMMA FoldersChanged ==
    ASSUME NEW e, Account(e), NEW A, NEW B
    PROVE  [e EXCEPT !.dirs = A, !.vanishedDirs = B]
             = [files |-> e.files, dirs |-> A, vanished |-> e.vanished, vanishedDirs |-> B]
<1>1. e \in [files : {e.files}, dirs : {e.dirs}, vanished : {e.vanished}, vanishedDirs : {e.vanishedDirs}]
  BY DEF Account
<1>2. [e EXCEPT !.dirs = A, !.vanishedDirs = B]
         \in [files : {e.files}, dirs : {A}, vanished : {e.vanished}, vanishedDirs : {B}]
  BY <1>1
<1> QED
  BY ONLY <1>2, AccountIs, Zenon

LEMMA FilesChanged ==
    ASSUME NEW e, Account(e), NEW A, NEW B
    PROVE  [e EXCEPT !.files = A, !.vanished = B]
             = [files |-> A, dirs |-> e.dirs, vanished |-> B, vanishedDirs |-> e.vanishedDirs]
<1>1. e \in [files : {e.files}, dirs : {e.dirs}, vanished : {e.vanished}, vanishedDirs : {e.vanishedDirs}]
  BY DEF Account
<1>2. [e EXCEPT !.files = A, !.vanished = B]
         \in [files : {A}, dirs : {e.dirs}, vanished : {B}, vanishedDirs : {e.vanishedDirs}]
  BY <1>1
<1> QED
  BY ONLY <1>2, AccountIs, Zenon

LEMMA ReviveIs ==
    ASSUME NEW e, Account(e), NEW D
    PROVE  Revive(e, D) = [files |-> e.files, dirs |-> e.dirs \cup D, vanished |-> e.vanished,
                           vanishedDirs |-> e.vanishedDirs \ D]
<1> PICK A : A = e.dirs \cup D
  OBVIOUS
<1> PICK B : B = e.vanishedDirs \ D
  OBVIOUS
<1>1. Revive(e, D) = [e EXCEPT !.dirs = A, !.vanishedDirs = B]
  BY DEF Revive
<1> QED
  BY <1>1, FoldersChanged

LEMMA AddedIs ==
    ASSUME NEW e, Account(e), NEW key, NEW f
    PROVE  Added(e, key, f) = [files |-> With(e.files, key, f), dirs |-> e.dirs \cup Ancestors(key),
                               vanished |-> e.vanished \ {key}, vanishedDirs |-> e.vanishedDirs \ Ancestors(key)]
<1> PICK x : x = [e EXCEPT !.files = With(@, key, f), !.vanished = @ \ {key}]
  OBVIOUS
<1>1. x = [files |-> With(e.files, key, f), dirs |-> e.dirs, vanished |-> e.vanished \ {key}, vanishedDirs |-> e.vanishedDirs]
  BY DEF Account
<1>2. Account(x)
  BY <1>1 DEF Account
<1>3. Revive(x, Ancestors(key)) = [files |-> x.files, dirs |-> x.dirs \cup Ancestors(key), vanished |-> x.vanished,
                                   vanishedDirs |-> x.vanishedDirs \ Ancestors(key)]
  BY <1>2, ReviveIs
<1> QED
  BY <1>1, <1>3 DEF Added

LEMMA GoneIs ==
    ASSUME NEW e, Account(e), NEW K
    PROVE  Gone(e, K) = [files |-> Without(e.files, K), dirs |-> e.dirs, vanished |-> e.vanished \cup K,
                         vanishedDirs |-> e.vanishedDirs]
<1> PICK A : A = Without(e.files, K)
  OBVIOUS
<1> PICK B : B = e.vanished \cup K
  OBVIOUS
<1>1. Gone(e, K) = [e EXCEPT !.files = A, !.vanished = B]
  BY DEF Gone
<1> QED
  BY <1>1, FilesChanged

LEMMA MovedIs ==
    ASSUME NEW e, Account(e), NEW key, NEW to
    PROVE  Moved(e, key, to) =
             [files |-> With(Without(e.files, {key}), to, [e.files[key] EXCEPT !.changed = TRUE]),
              dirs |-> e.dirs \cup Ancestors(to), vanished |-> (e.vanished \cup {key}) \ {to},
              vanishedDirs |-> e.vanishedDirs \ Ancestors(to)]
<1> PICK x : x = Gone(e, {key})
  OBVIOUS
<1>1. x = [files |-> Without(e.files, {key}), dirs |-> e.dirs, vanished |-> e.vanished \cup {key},
           vanishedDirs |-> e.vanishedDirs]
  BY GoneIs
<1>2. Account(x)
  BY <1>1 DEF Account
<1> PICK f : f = [e.files[key] EXCEPT !.changed = TRUE]
  OBVIOUS
<1>3. Added(x, to, f) = [files |-> With(x.files, to, f), dirs |-> x.dirs \cup Ancestors(to),
                         vanished |-> x.vanished \ {to}, vanishedDirs |-> x.vanishedDirs \ Ancestors(to)]
  BY <1>2, AddedIs
<1>4. Moved(e, key, to) = Added(x, to, f)
  BY DEF Moved
<1> QED
  BY <1>1, <1>3, <1>4

LEMMA RemovedIs ==
    ASSUME NEW e, Account(e), NEW top
    PROVE  RemovedTree(e, top) =
             [files |-> Without(e.files, {k \in DOMAIN e.files : Below(k, top)}),
              dirs |-> e.dirs \ {d \in e.dirs : d = top \/ Below(d, top)},
              vanished |-> e.vanished \cup {k \in DOMAIN e.files : Below(k, top)},
              vanishedDirs |-> e.vanishedDirs \cup {d \in e.dirs : d = top \/ Below(d, top)}]
<1> PICK K : K = {k \in DOMAIN e.files : Below(k, top)}
  OBVIOUS
<1> PICK x : x = Gone(e, K)
  OBVIOUS
<1>1. x = [files |-> Without(e.files, K), dirs |-> e.dirs, vanished |-> e.vanished \cup K, vanishedDirs |-> e.vanishedDirs]
  BY GoneIs
<1> PICK D : D = {d \in e.dirs : d = top \/ Below(d, top)}
  OBVIOUS
<1> PICK A : A = e.dirs \ D
  OBVIOUS
<1> PICK B : B = e.vanishedDirs \cup D
  OBVIOUS
<1>2. Account(x) /\ x.dirs = e.dirs /\ x.vanishedDirs = e.vanishedDirs /\ x.files = Without(e.files, K)
      /\ x.vanished = e.vanished \cup K
  BY <1>1 DEF Account
<1>3. RemovedTree(e, top) = [x EXCEPT !.dirs = A, !.vanishedDirs = B]
  BY <1>2 DEF RemovedTree
<1>4. RemovedTree(e, top) = [files |-> x.files, dirs |-> A, vanished |-> x.vanished, vanishedDirs |-> B]
  <2>1. [x EXCEPT !.dirs = A, !.vanishedDirs = B] = [files |-> x.files, dirs |-> A, vanished |-> x.vanished, vanishedDirs |-> B]
    <3>1. Account(x)
      BY <1>2
    <3> QED
      BY ONLY <3>1, FoldersChanged
  <2> QED
    BY ONLY <1>3, <2>1
<1> QED
  BY <1>2, <1>4

-----------------------------------------------------------------------------
EarlyStages == {"add", "copy", "large", "modify", "halve", "delete", "move"}

AccountFile(f) == f = [content |-> f.content, group |-> f.group, unreadable |-> f.unreadable, changed |-> f.changed]

OracleShapes ==
    /\ base \in Baselines /\ repeats \in 0 .. MaxRepeats
    /\ disk = [files |-> disk.files, dirs |-> disk.dirs]
    /\ Account(exp) /\ \A k \in DOMAIN exp.files : AccountFile(exp.files[k])
    /\ \E S : plan \in Seq(S)
    /\ \A i \in DOMAIN plan : /\ Key(plan[i].to)
                              /\ plan[i].kind = "rmtree" => plan[i].from \in base.dirs

(* The plan explains the drives: until folders go, what no step is about   *)
(* is there; what was not generated was made by a step; and the folders    *)
(* that went are in one that a step removed.                               *)
PlanExplains ==
    /\ stage \in EarlyStages => DOMAIN Files \ touched \subseteq DOMAIN disk.files
    /\ \A k \in DOMAIN disk.files \ DOMAIN Files : \E i \in DOMAIN plan : plan[i].to = k
    /\ stage \in EarlyStages \cup {"rmtree"} =>
          \A d \in disk.dirs \ base.dirs : \E i \in DOMAIN plan : d \in Ancestors(plan[i].to)
    /\ \A d \in base.dirs \ disk.dirs :
          \E i \in DOMAIN plan : plan[i].kind = "rmtree" /\ (d = plan[i].from \/ Below(d, plan[i].from))

OracleInv == OracleShapes /\ PlanExplains /\ OracleAgrees

LEMMA NextStages ==
    /\ Next1("add") = "copy" /\ Next1("copy") = "large" /\ Next1("large") = "modify"
    /\ Next1("modify") = "halve" /\ Next1("halve") = "delete" /\ Next1("delete") = "move"
    /\ Next1("move") = "rmtree" /\ Next1("rmtree") = "mkdir" /\ Next1("mkdir") = "corrupt"
<1>1. /\ Len(Stages) = 12
      /\ Stages[1] = "add" /\ Stages[2] = "copy" /\ Stages[3] = "large" /\ Stages[4] = "modify"
      /\ Stages[5] = "halve" /\ Stages[6] = "delete" /\ Stages[7] = "move" /\ Stages[8] = "rmtree"
      /\ Stages[9] = "mkdir" /\ Stages[10] = "corrupt" /\ Stages[11] = "edit" /\ Stages[12] = "judge"
  BY DEF Stages
<1>2. ASSUME NEW j \in 1 .. 9 PROVE Next1(Stages[j]) = Stages[1 + j]
  <2>1. \A i \in 1 .. Len(Stages) : Stages[i] = Stages[j] => i = j
    BY <1>1
  <2>2. (CHOOSE i \in 1 .. Len(Stages) : Stages[i] = Stages[j]) = j
    BY <1>1, <2>1
  <2> QED
    BY <2>2 DEF Next1
<1> QED
  BY <1>1, <1>2

(* A stage is left for the next one only. *)
LEMMA StageBack ==
    ASSUME stage \in EarlyStages \cup {"rmtree", "mkdir"}, stage' \in {stage, Next1(stage)}
    PROVE  /\ stage' \in EarlyStages => stage \in EarlyStages
           /\ stage' \in EarlyStages \cup {"rmtree"} => stage \in EarlyStages \cup {"rmtree"}
BY NextStages DEF EarlyStages

LEMMA StepSays ==
    ASSUME OracleShapes, NEW kind, NEW from, NEW to, Key(to), kind = "rmtree" => from \in base.dirs,
           Step(kind, from, to)
    PROVE  /\ base' = base /\ repeats' \in 0 .. MaxRepeats /\ touched' = touched \cup {from}
           /\ stage' \in {stage, Next1(stage)}
           /\ \E S : plan' \in Seq(S)
           /\ \A i \in DOMAIN plan' : /\ Key(plan'[i].to)
                                      /\ plan'[i].kind = "rmtree" => plan'[i].from \in base.dirs
           /\ \A i \in DOMAIN plan : i \in DOMAIN plan' /\ plan'[i] = plan[i]
           /\ \E i \in DOMAIN plan' : plan'[i].to = to /\ plan'[i].kind = kind /\ plan'[i].from = from
<1> PICK S : plan \in Seq(S)
  BY DEF OracleShapes
<1> PICK s : s = [kind |-> kind, from |-> from, to |-> to]
  OBVIOUS
<1>1. plan' = Append(plan, s) /\ plan \in Seq(S \cup {s}) /\ s \in S \cup {s}
  BY DEF Step
<1>2. /\ plan' \in Seq(S \cup {s}) /\ DOMAIN plan' = 1 .. Len(plan) + 1 /\ DOMAIN plan = 1 .. Len(plan)
      /\ \A i \in 1 .. Len(plan) : plan'[i] = plan[i]
      /\ plan'[Len(plan) + 1] = s /\ Len(plan) \in Nat
  BY <1>1
<1>3. base' = base /\ touched' = touched \cup {from} /\ stage' \in {stage, Next1(stage)}
  BY DEF Step
<1>4. repeats' \in 0 .. MaxRepeats
  BY OracleAssumption DEF Step, OracleShapes
<1>5. \A i \in DOMAIN plan' : (i \in DOMAIN plan /\ plan'[i] = plan[i]) \/ plan'[i] = s
  BY <1>2
<1>6. \A i \in DOMAIN plan : i \in DOMAIN plan' /\ plan'[i] = plan[i]
  BY <1>2
<1>7. \E i \in DOMAIN plan' : plan'[i] = s
  BY <1>2
<1>8. \A i \in DOMAIN plan' : /\ Key(plan'[i].to)
                              /\ plan'[i].kind = "rmtree" => plan'[i].from \in base.dirs
  BY <1>5 DEF OracleShapes
<1>9. \E R : plan' \in Seq(R)
  BY <1>2
<1> QED
  BY <1>3, <1>4, <1>6, <1>7, <1>8, <1>9


(* Every generated file and folder is a key. *)
LEMMA BaseKeys ==
    ASSUME base \in Baselines
    PROVE  (\A d \in DOMAIN Files \cup base.dirs \cup base.general : Key(d))
           /\ \A dir \in base.general : Ancestors(In(dir, <<"folder", 0>>)) \subseteq base.dirs
<1>1. ASSUME NEW d \in DOMAIN Files \cup base.dirs \cup base.general PROVE Key(d)
  <2> PICK p : p = d[2]
    OBVIOUS
  <2>1. d = <<d[1], p>> /\ Len(p) \in Nat /\ p = [i \in 1 .. Len(p) |-> p[i]]
    BY OracleAssumption DEF Files
  <2> PICK N : N = {p[i] : i \in 1 .. Len(p)}
    OBVIOUS
  <2>2. p \in Seq(N)
    BY <2>1
  <2> QED
    BY <2>1, <2>2 DEF Key
<1> QED
  BY <1>1, OracleAssumption

LEMMA NameKeys ==
    ASSUME base \in Baselines, NEW dir \in base.general, NEW kind
    PROVE  Key(Name(dir, kind)) /\ Ancestors(Name(dir, kind)) \subseteq base.dirs
           /\ \A a \in Ancestors(Name(dir, kind)) : a = dir \/ a \in Ancestors(dir)
BY BaseKeys, InKey DEF Name

(* What a generated file is. *)
FileRecord(f) == f = [content |-> f.content, mtime |-> f.mtime, group |-> f.group, unreadable |-> f.unreadable,
                      filler |-> f.filler]

LEMMA FilesAre ==
    ASSUME base \in Baselines
    PROVE  \A k \in DOMAIN Files : FileRecord(Files[k]) /\ Files[k].mtime # "new"
BY OracleAssumption DEF Files, FileRecord

(* After a step only the accounts it leaves have to be looked at. *)
LEMMA ShapesStay ==
    ASSUME OracleShapes, NEW kind, NEW from, NEW to, Key(to), kind = "rmtree" => from \in base.dirs,
           Step(kind, from, to), NEW A, NEW B, NEW C, NEW D, NEW E,
           exp' = [files |-> A, dirs |-> B, vanished |-> C, vanishedDirs |-> D],
           \A k \in DOMAIN A : AccountFile(A[k]), disk' = [files |-> E, dirs |-> B]
    PROVE  OracleShapes'
<1>1. Account(exp') /\ exp'.files = A /\ disk' = [files |-> disk'.files, dirs |-> disk'.dirs]
  BY DEF Account
<1>2. \A k \in DOMAIN exp'.files : AccountFile(exp'.files[k])
  BY <1>1
<1> QED
  BY <1>1, <1>2, StepSays DEF OracleShapes, Account

LEMMA CreateKeeps ==
    ASSUME OracleInv, stage \in EarlyStages, NEW key, Key(key), NEW c, Create("add", key, c)
    PROVE  OracleInv'
<1> USE DEF OracleInv
<1>1. Step("add", key, key)
  BY DEF Create
<1>2. /\ base' = base /\ touched' = touched \cup {key}
      /\ stage' \in {stage, Next1(stage)}
      /\ \A i \in DOMAIN plan : i \in DOMAIN plan' /\ plan'[i] = plan[i]
      /\ \E i \in DOMAIN plan' : plan'[i].to = key
  BY <1>1, StepSays
<1> PICK f : f = AsChanged(Written(c))
  OBVIOUS
<1>3. f.changed = TRUE /\ AccountFile(f) /\ Describes(f, Written(c))
  BY DEF AsChanged, Written, Expected, AccountFile, Describes
<1> PICK w : w = Written(c)
  OBVIOUS
<1>4. Describes(f, w) /\ w.mtime = "new"
  BY <1>3 DEF Written
<1> PICK A : A = With(exp.files, key, f)
  OBVIOUS
<1> PICK E : E = With(disk.files, key, w)
  OBVIOUS
<1> PICK B : B = exp.dirs \cup Ancestors(key)
  OBVIOUS
<1>5. Account(exp)
  BY DEF OracleShapes
<1>6. exp' = Added(exp, key, f)
  BY DEF Create
<1>7. exp' = [files |-> A, dirs |-> B, vanished |-> exp.vanished \ {key}, vanishedDirs |-> exp.vanishedDirs \ Ancestors(key)]
  BY <1>5, <1>6, AddedIs
<1>8. disk' = [files |-> E, dirs |-> B]
  BY DEF Create, DiskAdd, OracleAgrees
<1>9. DOMAIN A = DOMAIN exp.files \cup {key} /\ A[key] = f /\ \A k \in DOMAIN exp.files \ {key} : A[k] = exp.files[k]
  BY DEF With
<1>10. DOMAIN E = DOMAIN disk.files \cup {key} /\ E[key] = w /\ \A k \in DOMAIN disk.files \ {key} : E[k] = disk.files[k]
  BY DEF With
<1>11. \A k \in DOMAIN A : AccountFile(A[k])
  BY <1>3, <1>9 DEF OracleShapes
<1>12. OracleShapes'
  BY <1>1, <1>7, <1>8, <1>11, ShapesStay
<1>13. Files' = Files /\ disk'.files = E /\ disk'.dirs = B /\ exp'.files = A /\ exp'.dirs = B
       /\ exp'.vanished = exp.vanished \ {key} /\ exp'.vanishedDirs = exp.vanishedDirs \ Ancestors(key)
  BY <1>2, <1>7, <1>8 DEF Files
<1>14. PlanExplains'
  <2>1. (stage \in EarlyStages => DOMAIN Files \ touched \subseteq DOMAIN disk.files)'
    BY <1>2, <1>10, <1>13 DEF PlanExplains
  <2>2. (\A k \in DOMAIN disk.files \ DOMAIN Files : \E i \in DOMAIN plan : plan[i].to = k)'
    BY <1>2, <1>10, <1>13 DEF PlanExplains
  <2>3. \A d \in B \ base.dirs : \E i \in DOMAIN plan' : d \in Ancestors(plan'[i].to)
    BY <1>2 DEF PlanExplains, OracleAgrees
  <2>4. \A d \in base.dirs \ B :
          \E i \in DOMAIN plan' : plan'[i].kind = "rmtree" /\ (d = plan'[i].from \/ Below(d, plan'[i].from))
    BY <1>2 DEF PlanExplains, OracleAgrees
  <2> QED
    BY <2>1, <2>2, <2>3, <2>4, <1>2, <1>13 DEF PlanExplains
<1>15. OracleAgrees'
  <2>1. \A k \in DOMAIN E : Describes(A[k], E[k])
    BY <1>3, <1>4, <1>9, <1>10 DEF OracleAgrees
  <2>2. \A k \in DOMAIN Files \cap DOMAIN E : A[k].changed <=> E[k] # Files[k]
    BY <1>3, <1>4, <1>9, <1>10, FilesAre DEF OracleAgrees, OracleShapes
  <2>3. exp'.vanished = DOMAIN Files \ DOMAIN E /\ exp'.vanishedDirs = base.dirs \ B
    BY <1>10, <1>13 DEF OracleAgrees
  <2> QED
    BY <2>1, <2>2, <2>3, <1>2, <1>9, <1>10, <1>13 DEF OracleAgrees
<1> QED
  BY <1>12, <1>14, <1>15


(* A generated file no step is about is there as long as no folder goes. *)
LEMMA ModifyKeeps ==
    ASSUME OracleInv, stage \in EarlyStages, NEW k \in Mutable \ touched, NEW c, Step("modify", k, k), Key(k),
           disk' = [disk EXCEPT !.files = With(@, k, [Files[k] EXCEPT !.content = c, !.mtime = "new"])],
           exp' = [exp EXCEPT !.files = With(@, k, [AsChanged(Files[k]) EXCEPT !.content = c])]
    PROVE  OracleInv'
<1> USE DEF OracleInv
<1>1. /\ base' = base /\ touched' = touched \cup {k}
      /\ stage' \in {stage, Next1(stage)}
      /\ \A i \in DOMAIN plan : i \in DOMAIN plan' /\ plan'[i] = plan[i]
  BY StepSays
<1>2. k \in DOMAIN Files /\ k \in DOMAIN disk.files
  BY DEF Mutable, PlanExplains
<1> PICK g : g = Files[k]
  OBVIOUS
<1>3. FileRecord(g) /\ g.mtime # "new"
  BY <1>2, FilesAre DEF OracleShapes
<1> PICK f : f = [AsChanged(g) EXCEPT !.content = c]
  OBVIOUS
<1>4. f.content = c /\ f.changed = TRUE /\ f.group = g.group /\ f.unreadable = g.unreadable /\ AccountFile(f)
  BY DEF AsChanged, Expected, AccountFile
<1> PICK w : w = [g EXCEPT !.content = c, !.mtime = "new"]
  OBVIOUS
<1>5. w.content = c /\ w.mtime = "new" /\ w.group = g.group /\ w.unreadable = g.unreadable
  BY <1>3 DEF FileRecord
<1>16. Describes(f, w)
  BY <1>4, <1>5 DEF Describes
<1> PICK A : A = With(exp.files, k, f)
  OBVIOUS
<1> PICK E : E = With(disk.files, k, w)
  OBVIOUS
<1>6. exp' = [files |-> A, dirs |-> exp.dirs, vanished |-> exp.vanished, vanishedDirs |-> exp.vanishedDirs]
  BY DEF OracleShapes, Account
<1>7. disk' = [files |-> E, dirs |-> exp.dirs]
  BY DEF OracleShapes, OracleAgrees
<1>8. DOMAIN A = DOMAIN exp.files \cup {k} /\ A[k] = f /\ \A j \in DOMAIN exp.files \ {k} : A[j] = exp.files[j]
  BY DEF With
<1>9. DOMAIN E = DOMAIN disk.files \cup {k} /\ E[k] = w /\ \A j \in DOMAIN disk.files \ {k} : E[j] = disk.files[j]
  BY DEF With
<1>10. \A j \in DOMAIN A : AccountFile(A[j])
  BY <1>4, <1>8 DEF OracleShapes
<1>11. OracleShapes'
  BY <1>6, <1>7, <1>10, ShapesStay
<1>12. Files' = Files /\ disk'.files = E /\ disk'.dirs = disk.dirs /\ exp'.files = A /\ exp'.dirs = exp.dirs
       /\ exp'.vanished = exp.vanished /\ exp'.vanishedDirs = exp.vanishedDirs
  BY <1>1, <1>6, <1>7 DEF Files, OracleAgrees
<1>13. DOMAIN E = DOMAIN disk.files /\ DOMAIN A = DOMAIN exp.files
  <2>1. DOMAIN exp.files = DOMAIN disk.files
    BY DEF OracleAgrees
  <2>2. DOMAIN E = DOMAIN disk.files
    BY ONLY <1>2, <1>9
  <2> QED
    BY ONLY <2>1, <2>2, <1>2, <1>8
<1>14. PlanExplains'
  <2>1. (\A j \in DOMAIN disk.files \ DOMAIN Files : \E i \in DOMAIN plan : plan[i].to = j)'
    BY <1>1, <1>12, <1>13 DEF PlanExplains
  <2>2. (stage \in EarlyStages => DOMAIN Files \ touched \subseteq DOMAIN disk.files)'
    BY <1>1, <1>12, <1>13 DEF PlanExplains
  <2>3. \A d \in disk.dirs \ base.dirs : \E i \in DOMAIN plan' : d \in Ancestors(plan'[i].to)
    BY <1>1 DEF PlanExplains
  <2>4. \A d \in base.dirs \ disk.dirs :
          \E i \in DOMAIN plan' : plan'[i].kind = "rmtree" /\ (d = plan'[i].from \/ Below(d, plan'[i].from))
    BY <1>1 DEF PlanExplains
  <2> QED
    BY <2>1, <2>2, <2>3, <2>4, <1>1, <1>12 DEF PlanExplains
<1>15. OracleAgrees'
  <2>1. \A j \in DOMAIN E : Describes(A[j], E[j])
    <3>1. \A j \in DOMAIN disk.files \ {k} : Describes(A[j], E[j])
      BY <1>8, <1>9 DEF OracleAgrees
    <3>2. Describes(A[k], E[k])
      BY <1>8, <1>9, <1>16
    <3> QED
      BY <3>1, <3>2, <1>13
  <2>2. \A j \in DOMAIN Files \cap DOMAIN E : A[j].changed <=> E[j] # Files[j]
    <3>1. \A j \in DOMAIN Files \cap (DOMAIN disk.files \ {k}) : A[j].changed <=> E[j] # Files[j]
      BY <1>8, <1>9 DEF OracleAgrees
    <3>2. A[k].changed /\ E[k] # Files[k]
      BY <1>3, <1>4, <1>5, <1>8, <1>9
    <3> QED
      BY <3>1, <3>2, <1>13
  <2> QED
    BY <2>1, <2>2, <1>1, <1>12, <1>13 DEF OracleAgrees
<1> QED
  BY <1>11, <1>14, <1>15

LEMMA DeleteKeeps ==
    ASSUME OracleInv, stage \in EarlyStages, NEW k \in DOMAIN Files \ touched, Delete(k), Key(k)
    PROVE  OracleInv'
<1> USE DEF OracleInv
<1>0. Step("delete", k, k)
  BY DEF Delete
<1>1. /\ base' = base /\ touched' = touched \cup {k}
      /\ stage' \in {stage, Next1(stage)}
      /\ \A i \in DOMAIN plan : i \in DOMAIN plan' /\ plan'[i] = plan[i]
  BY <1>0, StepSays
<1>2. k \in DOMAIN disk.files
  BY DEF PlanExplains
<1> PICK A : A = Without(exp.files, {k})
  OBVIOUS
<1> PICK E : E = Without(disk.files, {k})
  OBVIOUS
<1>3. Account(exp) /\ exp' = Gone(exp, {k})
  BY DEF Delete, OracleShapes
<1>4. exp' = [files |-> A, dirs |-> exp.dirs, vanished |-> exp.vanished \cup {k}, vanishedDirs |-> exp.vanishedDirs]
  BY <1>3, GoneIs
<1>5. disk' = [files |-> E, dirs |-> exp.dirs]
  BY DEF Delete, DiskRemove, OracleShapes, OracleAgrees
<1>6. DOMAIN A = DOMAIN exp.files \ {k} /\ \A j \in DOMAIN exp.files \ {k} : A[j] = exp.files[j]
  BY DEF Without
<1>7. DOMAIN E = DOMAIN disk.files \ {k} /\ \A j \in DOMAIN disk.files \ {k} : E[j] = disk.files[j]
  BY DEF Without
<1>8. \A j \in DOMAIN A : AccountFile(A[j])
  BY <1>6 DEF OracleShapes
<1>9. OracleShapes'
  BY <1>0, <1>4, <1>5, <1>8, ShapesStay
<1>10. Files' = Files /\ disk'.files = E /\ disk'.dirs = disk.dirs /\ exp'.files = A /\ exp'.dirs = exp.dirs
       /\ exp'.vanished = exp.vanished \cup {k} /\ exp'.vanishedDirs = exp.vanishedDirs
  BY <1>1, <1>4, <1>5 DEF Files, OracleAgrees
<1>11. PlanExplains'
  <2>1. (\A j \in DOMAIN disk.files \ DOMAIN Files : \E i \in DOMAIN plan : plan[i].to = j)'
    BY <1>1, <1>7, <1>10 DEF PlanExplains
  <2>2. (stage \in EarlyStages => DOMAIN Files \ touched \subseteq DOMAIN disk.files)'
    BY <1>1, <1>7, <1>10 DEF PlanExplains
  <2>3. \A d \in disk.dirs \ base.dirs : \E i \in DOMAIN plan' : d \in Ancestors(plan'[i].to)
    BY <1>1 DEF PlanExplains
  <2>4. \A d \in base.dirs \ disk.dirs :
          \E i \in DOMAIN plan' : plan'[i].kind = "rmtree" /\ (d = plan'[i].from \/ Below(d, plan'[i].from))
    BY <1>1 DEF PlanExplains
  <2> QED
    BY <2>1, <2>2, <2>3, <2>4, <1>1, <1>10 DEF PlanExplains
<1>12. OracleAgrees'
  <2>1. \A j \in DOMAIN E : Describes(A[j], E[j])
    BY <1>6, <1>7 DEF OracleAgrees
  <2>2. \A j \in DOMAIN Files \cap DOMAIN E : A[j].changed <=> E[j] # Files[j]
    BY <1>6, <1>7 DEF OracleAgrees
  <2>3. DOMAIN A = DOMAIN E /\ exp'.vanished = DOMAIN Files \ DOMAIN E
    BY <1>2, <1>6, <1>7, <1>10 DEF OracleAgrees
  <2> QED
    BY <2>1, <2>2, <2>3, <1>1, <1>10 DEF OracleAgrees
<1> QED
  BY <1>9, <1>11, <1>12


LEMMA MoveKeeps ==
    ASSUME OracleInv, stage \in EarlyStages, NEW k \in DOMAIN Files \ touched, NEW to, Key(to), to \notin DOMAIN Files,
           Step("move", k, to), disk' = DiskMove(k, to), exp' = Moved(exp, k, to)
    PROVE  OracleInv'
<1> USE DEF OracleInv
<1>1. /\ base' = base /\ touched' = touched \cup {k}
      /\ stage' \in {stage, Next1(stage)}
      /\ \A i \in DOMAIN plan : i \in DOMAIN plan' /\ plan'[i] = plan[i]
      /\ \E i \in DOMAIN plan' : plan'[i].to = to
  BY StepSays
<1>2. k \in DOMAIN disk.files /\ k \in DOMAIN exp.files
  BY DEF PlanExplains, OracleAgrees
<1> PICK g : g = exp.files[k]
  OBVIOUS
<1> PICK f : f = [g EXCEPT !.changed = TRUE]
  OBVIOUS
<1>17. AccountFile(g)
  BY <1>2 DEF OracleShapes
<1>3. AccountFile(f) /\ f.content = g.content /\ f.group = g.group /\ f.unreadable = g.unreadable
  BY <1>17 DEF AccountFile
<1> PICK w : w = disk.files[k]
  OBVIOUS
<1>4. Describes(f, w)
  <2>1. Describes(g, w)
    BY <1>2 DEF OracleAgrees
  <2> QED
    BY <1>3, <2>1 DEF Describes
<1> PICK A0 : A0 = Without(exp.files, {k})
  OBVIOUS
<1> PICK E0 : E0 = Without(disk.files, {k})
  OBVIOUS
<1> PICK A : A = With(A0, to, f)
  OBVIOUS
<1> PICK E : E = With(E0, to, w)
  OBVIOUS
<1> PICK B : B = exp.dirs \cup Ancestors(to)
  OBVIOUS
<1>5. Account(exp)
  BY DEF OracleShapes
<1>6. exp' = [files |-> A, dirs |-> B, vanished |-> (exp.vanished \cup {k}) \ {to},
              vanishedDirs |-> exp.vanishedDirs \ Ancestors(to)]
  BY <1>5, MovedIs
<1>7. disk' = [files |-> E, dirs |-> B]
  BY DEF DiskMove, OracleAgrees
<1>8. DOMAIN A0 = DOMAIN exp.files \ {k} /\ \A j \in DOMAIN exp.files \ {k} : A0[j] = exp.files[j]
  BY DEF Without
<1>9. DOMAIN E0 = DOMAIN disk.files \ {k} /\ \A j \in DOMAIN disk.files \ {k} : E0[j] = disk.files[j]
  BY DEF Without
<1>10. DOMAIN A = DOMAIN A0 \cup {to} /\ A[to] = f /\ \A j \in DOMAIN A0 \ {to} : A[j] = A0[j]
  BY DEF With
<1>11. DOMAIN E = DOMAIN E0 \cup {to} /\ E[to] = w /\ \A j \in DOMAIN E0 \ {to} : E[j] = E0[j]
  BY DEF With
<1>18. /\ DOMAIN A = (DOMAIN disk.files \ {k}) \cup {to} /\ A[to] = f
       /\ \A j \in DOMAIN disk.files \ {k, to} : A[j] = exp.files[j]
  <2>1. DOMAIN exp.files = DOMAIN disk.files
    BY DEF OracleAgrees
  <2> QED
    BY ONLY <1>8, <1>10, <2>1
<1>19. /\ DOMAIN E = (DOMAIN disk.files \ {k}) \cup {to} /\ E[to] = w
       /\ \A j \in DOMAIN disk.files \ {k, to} : E[j] = disk.files[j]
  BY <1>9, <1>11
<1>20. DOMAIN exp.files = DOMAIN disk.files
  BY DEF OracleAgrees
<1>21. /\ \A j \in DOMAIN disk.files : Describes(exp.files[j], disk.files[j])
       /\ \A j \in DOMAIN Files \cap DOMAIN disk.files : exp.files[j].changed <=> disk.files[j] # Files[j]
  BY DEF OracleAgrees
<1>12. \A j \in DOMAIN A : AccountFile(A[j])
  <2>1. \A j \in DOMAIN exp.files : AccountFile(exp.files[j])
    BY DEF OracleShapes
  <2> TAKE j \in DOMAIN A
  <2>2. CASE j = to
    BY <1>3, <1>18, <2>2
  <2>3. CASE j # to
    <3>1. j \in DOMAIN exp.files /\ A[j] = exp.files[j]
      BY <1>18, <1>20, <2>3
    <3> QED
      BY <2>1, <3>1
  <2> QED
    BY <2>2, <2>3
<1>13. OracleShapes'
  BY <1>6, <1>7, <1>12, ShapesStay
<1>14. Files' = Files /\ disk'.files = E /\ disk'.dirs = B /\ exp'.files = A /\ exp'.dirs = B
       /\ exp'.vanished = (exp.vanished \cup {k}) \ {to} /\ exp'.vanishedDirs = exp.vanishedDirs \ Ancestors(to)
  BY <1>1, <1>6, <1>7 DEF Files
<1>15. PlanExplains'
  <2>1. (stage \in EarlyStages => DOMAIN Files \ touched \subseteq DOMAIN disk.files)'
    BY <1>1, <1>14, <1>19 DEF PlanExplains
  <2>2. (\A j \in DOMAIN disk.files \ DOMAIN Files : \E i \in DOMAIN plan : plan[i].to = j)'
    BY <1>1, <1>14, <1>19 DEF PlanExplains
  <2>3. \A d \in B \ base.dirs : \E i \in DOMAIN plan' : d \in Ancestors(plan'[i].to)
    BY <1>1 DEF PlanExplains, OracleAgrees
  <2>4. \A d \in base.dirs \ B :
          \E i \in DOMAIN plan' : plan'[i].kind = "rmtree" /\ (d = plan'[i].from \/ Below(d, plan'[i].from))
    BY <1>1 DEF PlanExplains, OracleAgrees
  <2> QED
    BY <2>1, <2>2, <2>3, <2>4, <1>1, <1>14 DEF PlanExplains
<1>16. OracleAgrees'
  <2>1. \A j \in DOMAIN E : Describes(A[j], E[j])
    <3>1. \A j \in DOMAIN disk.files \ {k, to} : Describes(A[j], E[j])
      BY ONLY <1>18, <1>19, <1>21
    <3>2. Describes(A[to], E[to])
      BY <1>4, <1>18, <1>19
    <3> QED
      BY <3>1, <3>2, <1>19
  <2>2. \A j \in DOMAIN Files \cap DOMAIN E : A[j].changed <=> E[j] # Files[j]
    <3> TAKE j \in DOMAIN Files \cap DOMAIN E
    <3>1. j \in DOMAIN disk.files \ {k, to}
      BY <1>19
    <3>2. A[j] = exp.files[j] /\ E[j] = disk.files[j]
      BY <3>1, <1>18, <1>19
    <3>3. exp.files[j].changed <=> disk.files[j] # Files[j]
      BY <3>1, <1>21
    <3> QED
      BY ONLY <3>2, <3>3
  <2>3. DOMAIN A = DOMAIN E /\ exp'.vanished = DOMAIN Files \ DOMAIN E
    <3>1. exp.vanished = DOMAIN Files \ DOMAIN disk.files
      BY DEF OracleAgrees
    <3>2. k \in DOMAIN disk.files /\ k \in DOMAIN Files /\ to \notin DOMAIN Files
      BY <1>2
    <3> QED
      BY ONLY <1>14, <1>18, <1>19, <3>1, <3>2
  <2>4. exp'.vanishedDirs = base.dirs \ B
    BY <1>14 DEF OracleAgrees
  <2>5. base' = base
    BY <1>1
  <2> QED
    BY ONLY <2>1, <2>2, <2>3, <2>4, <2>5, <1>14 DEF OracleAgrees
<1> QED
  BY <1>13, <1>15, <1>16

LEMMA RmtreeKeeps ==
    ASSUME OracleInv, stage = "rmtree", NEW top \in base.dirs, Removable(top),
           Step("rmtree", top, top), disk' = DiskRmtree(top), exp' = RemovedTree(exp, top)
    PROVE  OracleInv'
<1> USE DEF OracleInv
<1>0. Key(top) /\ base \in Baselines
  BY BaseKeys DEF OracleShapes
<1>1. /\ base' = base /\ stage' \in {stage, Next1(stage)}
      /\ \A i \in DOMAIN plan : i \in DOMAIN plan' /\ plan'[i] = plan[i]
      /\ \E i \in DOMAIN plan' : plan'[i].to = top /\ plan'[i].kind = "rmtree" /\ plan'[i].from = top
  BY <1>0, StepSays
<1> PICK K : K = {k \in DOMAIN exp.files : Below(k, top)}
  OBVIOUS
<1> PICK D : D = {d \in exp.dirs : d = top \/ Below(d, top)}
  OBVIOUS
<1> PICK A : A = Without(exp.files, K)
  OBVIOUS
<1> PICK E : E = Without(disk.files, K)
  OBVIOUS
<1> PICK B : B = exp.dirs \ D
  OBVIOUS
<1>2. Account(exp)
  BY DEF OracleShapes
<1>3. exp' = [files |-> A, dirs |-> B, vanished |-> exp.vanished \cup K, vanishedDirs |-> exp.vanishedDirs \cup D]
  BY <1>2, RemovedIs
<1>4. K = {k \in DOMAIN disk.files : Below(k, top)} /\ {d \in disk.dirs : d # top /\ ~Below(d, top)} = B
  BY DEF OracleAgrees
<1>5. disk' = [files |-> E, dirs |-> B]
  BY <1>4 DEF DiskRmtree
<1>6. DOMAIN A = DOMAIN exp.files \ K /\ \A j \in DOMAIN exp.files \ K : A[j] = exp.files[j]
  BY DEF Without
<1>7. DOMAIN E = DOMAIN disk.files \ K /\ \A j \in DOMAIN disk.files \ K : E[j] = disk.files[j]
  BY DEF Without
<1>8. \A j \in DOMAIN A : AccountFile(A[j])
  BY <1>6 DEF OracleShapes
<1>9. OracleShapes'
  BY <1>0, <1>3, <1>5, <1>8, ShapesStay
<1>10. Files' = Files /\ disk'.files = E /\ disk'.dirs = B /\ exp'.files = A /\ exp'.dirs = B
       /\ exp'.vanished = exp.vanished \cup K /\ exp'.vanishedDirs = exp.vanishedDirs \cup D
  BY <1>1, <1>3, <1>5 DEF Files
<1>11. stage' \notin EarlyStages
  BY <1>1, NextStages DEF EarlyStages
<1>12. PlanExplains'
  <2>1. (\A j \in DOMAIN disk.files \ DOMAIN Files : \E i \in DOMAIN plan : plan[i].to = j)'
    BY <1>1, <1>7, <1>10 DEF PlanExplains
  <2>2. \A d \in B \ base.dirs : \E i \in DOMAIN plan' : d \in Ancestors(plan'[i].to)
    BY <1>1 DEF PlanExplains, OracleAgrees
  <2>3. \A d \in base.dirs \ B :
          \E i \in DOMAIN plan' : plan'[i].kind = "rmtree" /\ (d = plan'[i].from \/ Below(d, plan'[i].from))
    BY <1>1 DEF PlanExplains, OracleAgrees
  <2> QED
    BY <2>1, <2>2, <2>3, <1>1, <1>10, <1>11 DEF PlanExplains
<1>13. K \subseteq DOMAIN Files
  <2> SUFFICES ASSUME NEW k \in K, k \notin DOMAIN Files PROVE FALSE
    OBVIOUS
  <2> PICK i \in DOMAIN plan : plan[i].to = k
    BY DEF PlanExplains, OracleAgrees
  <2> QED
    BY DEF Removable
<1>14. D \subseteq base.dirs
  <2> SUFFICES ASSUME NEW d \in D, d \notin base.dirs PROVE FALSE
    OBVIOUS
  <2> PICK i \in DOMAIN plan : d \in Ancestors(plan[i].to)
    BY DEF PlanExplains, OracleAgrees
  <2>1. Key(plan[i].to)
    BY DEF OracleShapes
  <2>2. Key(d) /\ Below(plan[i].to, d)
    BY <2>1, AncestorKey
  <2>3. Below(d, top)
    OBVIOUS
  <2>4. Below(plan[i].to, top)
    BY <1>0, <2>1, <2>2, <2>3, BelowBelow
  <2> QED
    BY <2>4 DEF Removable
<1>15. OracleAgrees'
  <2>1. \A j \in DOMAIN E : Describes(A[j], E[j])
    BY <1>6, <1>7 DEF OracleAgrees
  <2>2. \A j \in DOMAIN Files \cap DOMAIN E : A[j].changed <=> E[j] # Files[j]
    BY <1>6, <1>7 DEF OracleAgrees
  <2>3. DOMAIN A = DOMAIN E /\ exp'.vanished = DOMAIN Files \ DOMAIN E
    BY <1>13, <1>6, <1>7, <1>10 DEF OracleAgrees
  <2>4. exp'.vanishedDirs = base.dirs \ B
    BY <1>14, <1>10 DEF OracleAgrees
  <2> QED
    BY <2>1, <2>2, <2>3, <2>4, <1>1, <1>10 DEF OracleAgrees
<1> QED
  BY <1>9, <1>12, <1>15

(* A new folder lies in no removed one, so that the folders above it are   *)
(* all there.                                                              *)
LEMMA MkdirKeeps ==
    ASSUME OracleInv, PlanMkdir, stage = "mkdir"
    PROVE  OracleInv'
<1> USE DEF OracleInv
<1> PICK dir \in base.general :
      /\ \A i \in DOMAIN plan : plan[i].kind = "rmtree" => dir # plan[i].from /\ ~Below(dir, plan[i].from)
      /\ Step("mkdir", Name(dir, "folder"), Name(dir, "folder"))
      /\ disk' = DiskMkdir(Name(dir, "folder"))
      /\ exp' = Revive(exp, {Name(dir, "folder")} \cup Ancestors(Name(dir, "folder")))
  BY DEF PlanMkdir
<1> PICK key : key = Name(dir, "folder")
  OBVIOUS
<1>0. base \in Baselines /\ Key(dir)
  BY BaseKeys DEF OracleShapes
<1>1. Key(key) /\ Ancestors(key) \subseteq base.dirs /\ \A a \in Ancestors(key) : a = dir \/ a \in Ancestors(dir)
  BY <1>0, NameKeys
<1>2. /\ base' = base /\ stage' \in {stage, Next1(stage)}
      /\ \A i \in DOMAIN plan : i \in DOMAIN plan' /\ plan'[i] = plan[i]
  BY <1>1, StepSays
<1>3. Ancestors(key) \subseteq disk.dirs
  <2> SUFFICES ASSUME NEW a \in Ancestors(key), a \notin disk.dirs PROVE FALSE
    OBVIOUS
  <2> PICK i \in DOMAIN plan : plan[i].kind = "rmtree" /\ (a = plan[i].from \/ Below(a, plan[i].from))
    BY <1>1 DEF PlanExplains
  <2>1. dir # plan[i].from /\ ~Below(dir, plan[i].from)
    OBVIOUS
  <2>2. CASE a = dir
    BY <2>1, <2>2
  <2>3. CASE a \in Ancestors(dir)
    <3>1. Key(a) /\ Below(dir, a)
      BY <1>0, <2>3, AncestorKey
    <3>2. plan[i].from \in base.dirs
      BY DEF OracleShapes
    <3>3. Key(plan[i].from)
      BY <1>0, <3>2, BaseKeys
    <3> QED
      BY <1>0, <2>1, <3>1, <3>3, BelowBelow
  <2> QED
    BY <1>1, <2>2, <2>3
<1> PICK N : N = {key} \cup Ancestors(key)
  OBVIOUS
<1> PICK B : B = exp.dirs \cup N
  OBVIOUS
<1>4. Account(exp) /\ exp' = Revive(exp, N)
  BY DEF OracleShapes
<1>5. exp' = [files |-> exp.files, dirs |-> B, vanished |-> exp.vanished, vanishedDirs |-> exp.vanishedDirs \ N]
  BY <1>4, ReviveIs
<1>6. disk.dirs \cup {key} = B
  BY <1>3 DEF OracleAgrees
<1>7. disk' = [files |-> disk.files, dirs |-> B]
  BY <1>6 DEF DiskMkdir, OracleShapes
<1>8. OracleShapes'
  <2>1. \A k \in DOMAIN exp.files : AccountFile(exp.files[k])
    BY DEF OracleShapes
  <2>2. Step("mkdir", key, key)
    OBVIOUS
  <2> QED
    BY <1>1, <1>5, <1>7, <2>1, <2>2, ShapesStay
<1>9. Files' = Files /\ disk'.files = disk.files /\ disk'.dirs = B /\ exp'.files = exp.files /\ exp'.dirs = B
       /\ exp'.vanished = exp.vanished /\ exp'.vanishedDirs = exp.vanishedDirs \ N
  <2>1. Files' = Files
    BY <1>2 DEF Files
  <2>2. disk'.files = disk.files /\ disk'.dirs = B
    BY ONLY <1>7
  <2>3. exp'.files = exp.files /\ exp'.dirs = B /\ exp'.vanished = exp.vanished /\ exp'.vanishedDirs = exp.vanishedDirs \ N
    BY ONLY <1>5
  <2> QED
    BY ONLY <2>1, <2>2, <2>3
<1>10. stage' \notin EarlyStages \cup {"rmtree"}
  BY <1>2, NextStages DEF EarlyStages
<1>11. PlanExplains'
  <2>1. (\A j \in DOMAIN disk.files \ DOMAIN Files : \E i \in DOMAIN plan : plan[i].to = j)'
    BY <1>2, <1>9 DEF PlanExplains
  <2>2. \A d \in base.dirs \ B :
          \E i \in DOMAIN plan' : plan'[i].kind = "rmtree" /\ (d = plan'[i].from \/ Below(d, plan'[i].from))
    BY <1>2 DEF PlanExplains, OracleAgrees
  <2> QED
    BY <2>1, <2>2, <1>2, <1>9, <1>10 DEF PlanExplains
<1>12. OracleAgrees'
  <2>1. exp'.vanishedDirs = base.dirs \ B
    BY <1>9 DEF OracleAgrees
  <2>2. base' = base /\ OracleAgrees
    BY <1>2
  <2> QED
    BY ONLY <2>1, <2>2, <1>9 DEF OracleAgrees
<1> QED
  BY <1>8, <1>11, <1>12


(* Before any change the oracle expects what was generated. *)
LEMMA OracleBegins ==
    ASSUME OracleInit
    PROVE  OracleInv
<1>1. /\ base \in Baselines /\ stage = "add" /\ repeats = 0 /\ plan = <<>> /\ touched = {}
      /\ exp = [files |-> BaseFiles, dirs |-> base.dirs, vanished |-> {}, vanishedDirs |-> {}]
      /\ disk = [files |-> Files, dirs |-> base.dirs]
  BY DEF OracleInit, Files
<1>2. \A k \in DOMAIN Files : /\ Describes(BaseFiles[k], Files[k]) /\ BaseFiles[k].changed = FALSE
                              /\ AccountFile(BaseFiles[k])
  BY DEF BaseFiles, Expected, AccountFile, Describes
<1>3. DOMAIN BaseFiles = DOMAIN Files
  BY DEF BaseFiles
<1>4. exp.files = BaseFiles /\ exp.dirs = base.dirs /\ exp.vanished = {} /\ exp.vanishedDirs = {}
      /\ disk.files = Files /\ disk.dirs = base.dirs
  BY <1>1
<1>5. Account(exp) /\ disk = [files |-> disk.files, dirs |-> disk.dirs]
  BY <1>1, <1>4 DEF Account
<1>6. plan \in Seq({}) /\ DOMAIN plan = {}
  BY <1>1
<1>7. repeats \in 0 .. MaxRepeats
  BY <1>1, OracleAssumption
<1>8. OracleShapes
  BY <1>1, <1>2, <1>3, <1>4, <1>5, <1>6, <1>7 DEF OracleShapes
<1>9. PlanExplains
  BY <1>4 DEF PlanExplains
<1>10. OracleAgrees
  BY <1>2, <1>3, <1>4 DEF OracleAgrees
<1> QED
  BY <1>8, <1>9, <1>10 DEF OracleInv

(* When nothing of a kind is possible, or files are only hurt, the plan    *)
(* stays as it is.                                                         *)
LEMMA PlanRests ==
    ASSUME OracleInv, UNCHANGED <<base, plan, touched, exp, disk>>, repeats' \in 0 .. MaxRepeats,
           stage' \in EarlyStages => stage \in EarlyStages,
           stage' \in EarlyStages \cup {"rmtree"} => stage \in EarlyStages \cup {"rmtree"}
    PROVE  OracleInv'
<1>1. OracleShapes' /\ OracleAgrees'
  BY DEF OracleInv, OracleShapes, OracleAgrees, Files
<1>2. PlanExplains'
  BY DEF OracleInv, PlanExplains, Files
<1> QED
  BY <1>1, <1>2 DEF OracleInv

LEMMA SkipKeeps ==
    ASSUME OracleInv, NEW possible, Skip(possible), stage \in EarlyStages \cup {"rmtree", "mkdir"}
    PROVE  OracleInv'
<1>1. stage' = Next1(stage) /\ repeats' \in 0 .. MaxRepeats /\ UNCHANGED <<base, plan, touched, exp, disk>>
  BY OracleAssumption DEF Skip
<1> QED
  BY <1>1, StageBack, PlanRests

LEMMA OracleSteps ==
    ASSUME OracleInv, [OracleNext]_oracleVars
    PROVE  OracleInv'
<1>0. base \in Baselines /\ repeats \in 0 .. MaxRepeats
  BY DEF OracleInv, OracleShapes
<1>1. CASE PlanAdd
  <2>1. stage \in EarlyStages
    BY <1>1 DEF PlanAdd, EarlyStages
  <2>2. ASSUME NEW dir \in base.general, NEW c, Create("add", Name(dir, "added"), c) PROVE OracleInv'
    BY <1>0, <2>1, <2>2, NameKeys, CreateKeeps
  <2> QED
    BY <1>1, <2>1, <2>2, SkipKeeps DEF PlanAdd
<1>2. CASE PlanCopy
  <2>1. stage \in EarlyStages
    BY <1>2 DEF PlanCopy, EarlyStages
  <2>2. ASSUME NEW dir \in base.general, NEW c, Create("add", Name(dir, "copied"), c) PROVE OracleInv'
    BY <1>0, <2>1, <2>2, NameKeys, CreateKeeps
  <2> QED
    BY <1>2, <2>1, <2>2, SkipKeeps DEF PlanCopy
<1>3. CASE PlanLargeCopy
  <2>1. stage \in EarlyStages
    BY <1>3 DEF PlanLargeCopy, EarlyStages
  <2>2. ASSUME NEW dir \in base.general, NEW c, Create("add", Name(dir, "large"), c) PROVE OracleInv'
    BY <1>0, <2>1, <2>2, NameKeys, CreateKeeps
  <2> QED
    BY <1>3, <2>1, <2>2, SkipKeeps DEF PlanLargeCopy
<1>4. CASE PlanModify
  <2>1. stage \in EarlyStages
    BY <1>4 DEF PlanModify, EarlyStages
  <2>2. ASSUME NEW k \in Mutable \ touched, NEW c, Step("modify", k, k),
               disk' = [disk EXCEPT !.files = With(@, k, [Files[k] EXCEPT !.content = c, !.mtime = "new"])],
               exp' = [exp EXCEPT !.files = With(@, k, [AsChanged(Files[k]) EXCEPT !.content = c])]
        PROVE  OracleInv'
    <3>1. Key(k)
      BY <1>0, BaseKeys DEF Mutable
    <3> QED
      BY <2>1, <2>2, <3>1, ModifyKeeps
  <2> QED
    BY <1>4, <2>1, <2>2, SkipKeeps DEF PlanModify
<1>5. ASSUME NEW k \in DOMAIN Files \ touched, Delete(k), stage \in EarlyStages PROVE OracleInv'
  <2>1. Key(k)
    BY <1>0, BaseKeys
  <2> QED
    BY <1>5, <2>1, DeleteKeeps
<1>6. CASE PlanHalve
  <2>1. stage \in EarlyStages
    BY <1>6 DEF PlanHalve, EarlyStages
  <2>2. ASSUME NEW g \in Pairs, NEW k \in g, Delete(k) PROVE OracleInv'
    <3>1. k \in DOMAIN Files \ touched
      BY DEF Pairs, CopyHolders, HoldersOf
    <3> QED
      BY <1>5, <2>1, <2>2, <3>1
  <2> QED
    BY <1>6, <2>1, <2>2, SkipKeeps DEF PlanHalve
<1>7. CASE PlanDelete
  <2>1. stage \in EarlyStages
    BY <1>7 DEF PlanDelete, EarlyStages
  <2>2. ASSUME NEW k \in Mutable \ touched, Delete(k) PROVE OracleInv'
    BY <1>5, <2>1, <2>2 DEF Mutable
  <2> QED
    BY <1>7, <2>1, <2>2, SkipKeeps DEF PlanDelete
<1>8. CASE PlanMove
  <2>1. stage \in EarlyStages
    BY <1>8 DEF PlanMove, EarlyStages
  <2>2. ASSUME NEW g \in CopyHolders, g \cap touched = {}, NEW k \in g, NEW to,
               to = <<k[1], <<<<"Reorganized", repeats>>, <<"moved", 0>>>>>>,
               Step("move", k, to), disk' = DiskMove(k, to), exp' = Moved(exp, k, to)
        PROVE  OracleInv'
    <3>1. k \in DOMAIN Files \ touched
      BY <2>2 DEF CopyHolders, HoldersOf
    <3> PICK p : p = <<<<"Reorganized", repeats>>, <<"moved", 0>>>>
      OBVIOUS
    <3>2. to = <<to[1], to[2]>> /\ to[2] = p
      BY <2>2
    <3>3. p \in Seq({<<"Reorganized", repeats>>, <<"moved", 0>>})
      OBVIOUS
    <3>4. Key(to)
      BY <3>2, <3>3 DEF Key
    <3>5. to \notin DOMAIN Files
      <4>1. \A j \in DOMAIN Files : \A n \in 0 .. MaxRepeats : j[2] # <<<<"Reorganized", n>>, <<"moved", 0>>>>
        BY <1>0, OracleAssumption DEF Files
      <4> QED
        BY <1>0, <3>2, <4>1
    <3> QED
      BY <2>1, <2>2, <3>1, <3>4, <3>5, MoveKeeps
  <2> QED
    BY <1>8, <2>1, <2>2, SkipKeeps DEF PlanMove
<1>9. CASE PlanRmtree
  <2>1. stage = "rmtree"
    BY <1>9 DEF PlanRmtree
  <2>2. ASSUME NEW top \in base.dirs, Removable(top), Step("rmtree", top, top),
               disk' = DiskRmtree(top), exp' = RemovedTree(exp, top)
        PROVE  OracleInv'
    BY <2>1, <2>2, RmtreeKeeps
  <2> QED
    BY <1>9, <2>1, <2>2, SkipKeeps DEF PlanRmtree
<1>10. CASE PlanMkdir
  BY <1>10, MkdirKeeps DEF PlanMkdir
<1>11. CASE PlanCorrupt
  BY <1>0, <1>11, PlanRests DEF PlanCorrupt, EarlyStages
<1>12. CASE PlanLateEdit
  BY <1>0, <1>12, PlanRests DEF PlanLateEdit, EarlyStages
<1>13. CASE UNCHANGED oracleVars
  BY <1>0, <1>13, PlanRests DEF oracleVars
<1> QED
  BY <1>1, <1>2, <1>3, <1>4, <1>6, <1>7, <1>8, <1>9, <1>10, <1>11, <1>12, <1>13 DEF OracleNext

(* However the generator chooses and however long the plan grows, the      *)
(* oracle, which only replays the plan on the manifest, expects what is    *)
(* really on the drives (oracle.py, _rescan_state; fsops.py,               *)
(* apply_mutations).                                                       *)
THEOREM OracleStaysRight == OracleSpec => []OracleAgrees
<1>1. OracleInit => OracleInv
  BY OracleBegins
<1>2. OracleInv /\ [OracleNext]_oracleVars => OracleInv'
  BY OracleSteps
<1>3. OracleInv => OracleAgrees
  BY DEF OracleInv
<1> QED
  BY <1>1, <1>2, <1>3, PTL DEF OracleSpec

-----------------------------------------------------------------------------
(***************************************************************************)
(* The judge.  A report that passes every test says of the drives what is  *)
(* so: since the oracle agrees with the drives, what it reckons of its own *)
(* account, identities, groups, copies and waste, is what a tool that      *)
(* makes no mistake reckons of the drives, and the tests together leave a  *)
(* report no other grouping than that.                                     *)
(*                                                                         *)
(* And a report without a mistake passes: no step of the plan makes a test *)
(* look for what is not on the drives any more, nothing is where a right   *)
(* tool catalogs nothing, and what is summed over the tool's groups is     *)
(* what is summed over the oracle's, which has them by other names.        *)
(***************************************************************************)

(* Bytes that can be told from none, and how many. *)
Bytes(c) == c # NoId /\ Sizes[c] \in Nat

RealFiles(fs) == IsFiniteSet(DOMAIN fs) /\ \A k \in DOMAIN fs : Bytes(fs[k].content)

LEMMA RealWith ==
    ASSUME NEW fs, RealFiles(fs), NEW key, NEW f, Bytes(f.content)
    PROVE  RealFiles(With(fs, key, f))
<1>1. DOMAIN With(fs, key, f) = DOMAIN fs \cup {key}
      /\ \A k \in DOMAIN fs \cup {key} : With(fs, key, f)[k] = IF k = key THEN f ELSE fs[k]
  BY DEF With
<1>2. IsFiniteSet(DOMAIN fs \cup {key})
  BY FS_AddElement DEF RealFiles
<1> QED
  BY <1>1, <1>2 DEF RealFiles

LEMMA RealWithout ==
    ASSUME NEW fs, RealFiles(fs), NEW keys
    PROVE  RealFiles(Without(fs, keys))
<1>1. DOMAIN Without(fs, keys) = DOMAIN fs \ keys
      /\ \A k \in DOMAIN fs \ keys : Without(fs, keys)[k] = fs[k]
  BY DEF Without
<1>2. IsFiniteSet(DOMAIN fs \ keys)
  BY FS_Subset DEF RealFiles
<1> QED
  BY <1>1, <1>2 DEF RealFiles

LEMMA RealCreate ==
    ASSUME RealFiles(disk.files), NEW kind, NEW key, NEW c, Bytes(c), Create(kind, key, c)
    PROVE  RealFiles(disk'.files)
<1> PICK w : w = Written(c)
  OBVIOUS
<1>1. Bytes(w.content)
  BY DEF Written
<1>2. disk'.files = With(disk.files, key, w)
  BY DEF Create, DiskAdd
<1> QED
  BY <1>1, <1>2, RealWith

(* There are finitely many files on the drives, and every one has bytes. *)
LEMMA RealSteps ==
    ASSUME OracleInv, RealFiles(disk.files), [OracleNext]_oracleVars
    PROVE  RealFiles(disk'.files)
<1>1. RealFiles(Files) /\ \A c \in Fresh : Bytes(c)
  BY JudgeAssumption DEF RealFiles, Bytes, Files, OracleInv, OracleShapes
<1>2. \A c \in Unused : Bytes(c)
  BY <1>1 DEF Unused
<1>3. disk = [files |-> disk.files, dirs |-> disk.dirs]
  BY DEF OracleInv, OracleShapes
<1>4. ASSUME UNCHANGED disk PROVE RealFiles(disk'.files)
  BY <1>4
<1>5. ASSUME NEW possible, Skip(possible) PROVE RealFiles(disk'.files)
  BY <1>4, <1>5 DEF Skip
<1>6. CASE PlanAdd
  BY <1>2, <1>5, <1>6, RealCreate DEF PlanAdd
<1>7. CASE PlanCopy
  <2>1. \A k \in Singles : Bytes(Files[k].content)
    BY <1>1 DEF Singles, Mutable, RealFiles
  <2> QED
    BY <2>1, <1>5, <1>7, RealCreate DEF PlanCopy
<1>8. CASE PlanLargeCopy
  <2>1. \A g \in Large : Bytes(Files[CHOOSE k \in g : TRUE].content)
    <3> TAKE g \in Large
    <3> PICK c : g = HoldersOf(c) /\ Cardinality(g) >= 2
      BY DEF Large, CopyHolders
    <3>1. \A k \in g : k \in DOMAIN Files
      BY DEF HoldersOf
    <3>2. \E k \in g : TRUE
      <4>1. Cardinality({}) = 0
        BY FS_EmptySet
      <4>2. g # {}
        BY <4>1
      <4> QED
        BY <4>2
    <3> QED
      BY <1>1, <3>1, <3>2 DEF RealFiles
  <2> QED
    BY <2>1, <1>5, <1>8, RealCreate DEF PlanLargeCopy
<1>9. CASE PlanModify
  <2>1. ASSUME NEW k \in Mutable \ touched, NEW c \in Unused,
               disk' = [disk EXCEPT !.files = With(@, k, [Files[k] EXCEPT !.content = c, !.mtime = "new"])]
        PROVE  RealFiles(disk'.files)
    <3> PICK g : g = Files[k]
      OBVIOUS
    <3> PICK w : w = [g EXCEPT !.content = c, !.mtime = "new"]
      OBVIOUS
    <3>1. FileRecord(g)
      BY FilesAre DEF Mutable, OracleInv, OracleShapes
    <3>2. w.content = c
      BY <3>1 DEF FileRecord
    <3>3. disk'.files = With(disk.files, k, w)
      BY <1>3, <2>1
    <3> QED
      BY <1>2, <3>2, <3>3, RealWith
  <2>2. \/ \E k \in Mutable \ touched, c \in Unused :
             disk' = [disk EXCEPT !.files = With(@, k, [Files[k] EXCEPT !.content = c, !.mtime = "new"])]
        \/ Skip(\E k \in Mutable \ touched : Variants[Files[k].content] \cap Unused # {})
    BY <1>9, Zenon DEF PlanModify
  <2> QED
    BY <2>1, <2>2, <1>5, Zenon
<1>10. ASSUME NEW k, Delete(k) PROVE RealFiles(disk'.files)
  <2>1. disk'.files = Without(disk.files, {k})
    BY <1>3, <1>10 DEF Delete, DiskRemove
  <2> QED
    BY <2>1, RealWithout
<1>11. CASE PlanHalve
  BY <1>5, <1>10, <1>11 DEF PlanHalve
<1>12. CASE PlanDelete
  BY <1>5, <1>10, <1>12 DEF PlanDelete
<1>13. CASE PlanMove
  <2>1. ASSUME NEW g \in CopyHolders, g \cap touched = {}, NEW k \in g, NEW to, disk' = DiskMove(k, to), stage = "move"
        PROVE  RealFiles(disk'.files)
    <3>1. k \in DOMAIN disk.files
      BY <2>1 DEF CopyHolders, HoldersOf, OracleInv, PlanExplains, EarlyStages
    <3>2. disk'.files = With(Without(disk.files, {k}), to, disk.files[k])
      BY <2>1 DEF DiskMove
    <3>3. Bytes(disk.files[k].content)
      BY <3>1 DEF RealFiles
    <3>4. RealFiles(Without(disk.files, {k}))
      BY RealWithout
    <3> QED
      BY <3>2, <3>3, <3>4, RealWith
  <2> QED
    BY <2>1, <1>5, <1>13 DEF PlanMove
<1>14. CASE PlanRmtree
  <2>1. ASSUME NEW top, disk' = DiskRmtree(top) PROVE RealFiles(disk'.files)
    <3>1. disk'.files = Without(disk.files, {k \in DOMAIN disk.files : Below(k, top)})
      BY <2>1 DEF DiskRmtree
    <3> QED
      BY <3>1, RealWithout
  <2> QED
    BY <2>1, <1>5, <1>14 DEF PlanRmtree
<1>15. CASE PlanMkdir
  BY <1>3, <1>15 DEF PlanMkdir, DiskMkdir
<1>16. CASE PlanCorrupt \/ PlanLateEdit \/ UNCHANGED oracleVars
  BY <1>4, <1>16 DEF PlanCorrupt, PlanLateEdit, oracleVars
<1> QED
  BY <1>6, <1>7, <1>8, <1>9, <1>11, <1>12, <1>13, <1>14, <1>15, <1>16 DEF OracleNext


-----------------------------------------------------------------------------
(* The oracle's reckoning over its account is the tool's over the drives,  *)
(* because each file there is described by one here.                       *)
SameFiles(E, F) == DOMAIN E = DOMAIN F /\ \A k \in DOMAIN F : Describes(E[k], F[k])

LEMMA SizesAlike ==
    ASSUME NEW E, NEW F, SameFiles(E, F)
    PROVE  /\ \A k \in DOMAIN F : SizeOf(E[k]) = SizeOf(F[k])
           /\ \A k \in DOMAIN F : SharedSize(E, k) <=> SharedSize(F, k)
<1>1. \A k \in DOMAIN F : SizeOf(E[k]) = SizeOf(F[k])
  BY DEF SameFiles, Describes, SizeOf
<1> QED
  BY <1>1 DEF SharedSize, SameFiles

LEMMA AccountsAlike ==
    ASSUME OracleInv
    PROVE  SameFiles(exp.files, disk.files) /\ SameFiles(BaseFiles, Files)
<1>1. SameFiles(exp.files, disk.files)
  BY DEF SameFiles, OracleInv, OracleAgrees
<1>2. SameFiles(BaseFiles, Files)
  BY DEF SameFiles, BaseFiles, Expected, Describes
<1> QED
  BY <1>1, <1>2

LEMMA KnownFirst ==
    ASSUME OracleInv
    PROVE  BaseIdentified = Known1
<1>1. DOMAIN BaseFiles = DOMAIN Files /\ \A k \in DOMAIN Files : BaseFiles[k].unreadable = Files[k].unreadable
  BY AccountsAlike DEF SameFiles, Describes
<1>2. \A k \in DOMAIN Files : /\ SizeOf(BaseFiles[k]) = SizeOf(Files[k])
                              /\ SharedSize(BaseFiles, k) <=> SharedSize(Files, k)
  BY AccountsAlike, SizesAlike
<1> QED
  BY <1>1, <1>2 DEF BaseIdentified, Identify, Known1, Readable

LEMMA IdentifiedIsTrue ==
    ASSUME OracleInv
    PROVE  Identified = Truly
<1>1. DOMAIN exp.files = DOMAIN disk.files
      /\ \A k \in DOMAIN disk.files : exp.files[k].unreadable = disk.files[k].unreadable
  BY AccountsAlike DEF SameFiles, Describes
<1>2. \A k \in DOMAIN disk.files : /\ SizeOf(exp.files[k]) = SizeOf(disk.files[k])
                                   /\ SharedSize(exp.files, k) <=> SharedSize(disk.files, k)
  BY AccountsAlike, SizesAlike
<1>3. \A k \in Known1 \cap DOMAIN disk.files : exp.files[k].changed <=> disk.files[k] # Files[k]
  BY DEF Known1, Readable, OracleInv, OracleAgrees
<1>4. \A k \in DOMAIN disk.files :
        (k \in BaseIdentified /\ ~exp.files[k].changed) <=> (k \in Known1 /\ disk.files[k] = Files[k])
  BY <1>3, KnownFirst
<1> QED
  BY <1>1, <1>2, <1>4 DEF Identified, Identify, Truly, Readable

LEMMA GroupsAreTrue ==
    ASSUME OracleInv
    PROVE  /\ DOMAIN Groups(exp.files, Identified) = Contents
           /\ \A c \in Contents : Groups(exp.files, Identified)[c] = True(c)
<1>1. \A k \in Truly : exp.files[k].content = disk.files[k].content
  BY AccountsAlike DEF SameFiles, Describes, Truly, Readable
<1>2. {exp.files[k].content : k \in Truly} = Contents
  BY <1>1 DEF Contents
<1>3. \A c \in Contents : {k \in Truly : exp.files[k].content = c} = True(c)
  BY <1>1 DEF True
<1> QED
  BY <1>2, <1>3, IdentifiedIsTrue DEF Groups

LEMMA SinglesAreTrue ==
    ASSUME OracleInv
    PROVE  ExpSingles = TrueSingles
<1>1. DOMAIN exp.files = DOMAIN disk.files
  BY AccountsAlike DEF SameFiles
<1>2. \A k \in DOMAIN disk.files : /\ SizeOf(exp.files[k]) = SizeOf(disk.files[k])
                                   /\ SharedSize(exp.files, k) <=> SharedSize(disk.files, k)
  BY AccountsAlike, SizesAlike
<1> QED
  BY <1>1, <1>2, IdentifiedIsTrue DEF ExpSingles, TrueSingles, Alone

LEMMA PhysicalIsTrue ==
    ASSUME OracleInv, NEW keys \in SUBSET DOMAIN disk.files
    PROVE  Physical(exp.files, keys) = Physical(disk.files, keys)
<1>1. \A k \in keys : exp.files[k].group = disk.files[k].group
  BY AccountsAlike DEF SameFiles, Describes
<1>2. {IF exp.files[k].group = "none" THEN [path |-> k, link |-> "none"]
       ELSE [path |-> <<k[1], <<>>>>, link |-> exp.files[k].group] : k \in keys}
      = {IF disk.files[k].group = "none" THEN [path |-> k, link |-> "none"]
         ELSE [path |-> <<k[1], <<>>>>, link |-> disk.files[k].group] : k \in keys}
  BY <1>1, Zenon
<1> QED
  BY <1>2 DEF Physical

LEMMA WasteIsTrue ==
    ASSUME OracleInv, NEW keys \in SUBSET DOMAIN disk.files, keys # {}
    PROVE  Reclaimable(exp.files, keys) = Reclaimable(disk.files, keys)
<1>1. \A k \in keys : SizeOf(exp.files[k]) = SizeOf(disk.files[k])
  BY AccountsAlike, SizesAlike
<1>2. SizeOf(exp.files[CHOOSE k \in keys : TRUE]) = SizeOf(disk.files[CHOOSE k \in keys : TRUE])
  BY <1>1
<1> QED
  BY <1>2, PhysicalIsTrue DEF Reclaimable

(* Contents of what is identified are none's. *)
LEMMA TrueOnes ==
    ASSUME RealFiles(disk.files)
    PROVE  /\ Truly \subseteq DOMAIN disk.files
           /\ \A c \in Contents : c # NoId /\ True(c) # {} /\ True(c) \subseteq Truly
           /\ \A k \in Truly : disk.files[k].content \in Contents /\ k \in True(disk.files[k].content)
<1>1. Truly \subseteq DOMAIN disk.files
  BY DEF Truly, Readable
<1> QED
  BY <1>1 DEF RealFiles, Bytes, Contents, True

-----------------------------------------------------------------------------
(* What the tests of the rescan go by: the steps of the plan are still to  *)
(* be seen on the drives, nothing is where a right tool looks for nothing, *)
(* and the folders of the excluded entries are there.                      *)
Unbarred(k) == \A x \in Barred(base) : k # x /\ ~Below(k, x)

StepsSeen ==
    /\ \A i \in DOMAIN plan : plan[i].from \in touched
    /\ \A i \in DOMAIN plan : plan[i].kind = "modify" =>
          /\ plan[i].to \in DOMAIN Files
          /\ plan[i].to \in DOMAIN disk.files => disk.files[plan[i].to].content \in Fresh
    /\ \A i \in DOMAIN plan : plan[i].kind = "move" =>
          plan[i].to \in DOMAIN disk.files \ DOMAIN Files /\ plan[i].from \in DOMAIN Files \ DOMAIN disk.files

NothingBarred ==
    /\ \A k \in DOMAIN disk.files \cup disk.dirs : Unbarred(k)
    /\ \A x \in base.excluded : Len(x[2]) = 1 \/ Folder(x) \in disk.dirs

HurtApart ==
    /\ hurt = [corrupted |-> hurt.corrupted, edited |-> hurt.edited]
    /\ stage # "judge" => hurt.edited = {}
    /\ hurt.edited \cap hurt.corrupted = {}

PlanStands == StepsSeen /\ NothingBarred /\ HurtApart

(* What the plan can name is free. *)
LEMMA FreeNames ==
    ASSUME base \in Baselines
    PROVE  /\ \A k \in DOMAIN Files \cup base.dirs \cup PlannedFiles(base) \cup PlannedFolders(base) : Unbarred(k)
           /\ \A k \in PlannedFiles(base) : k \notin DOMAIN Files
BY JudgeAssumption DEF Unbarred, Files

(* A folder an entry is in. *)
LEMMA FolderAbove ==
    ASSUME NEW x, Key(x), Len(x[2]) > 1
    PROVE  Key(Folder(x)) /\ Below(x, Folder(x))
<1>1. Len(x[2]) \in Nat /\ Len(x[2]) - 1 \in 1 .. Len(x[2]) - 1
  BY DEF Key
<1>2. Folder(x) \in Ancestors(x)
  BY <1>1 DEF Folder, Front, Ancestors
<1> QED
  BY <1>2, AncestorKey

LEMMA ExcludedKeys ==
    ASSUME base \in Baselines
    PROVE  \A x \in base.excluded : Key(x) /\ Len(x[2]) \in Nat \ {0} /\ (Len(x[2]) = 1 \/ Folder(x) \in base.dirs)
<1> SUFFICES ASSUME NEW x \in base.excluded
             PROVE  Key(x) /\ Len(x[2]) \in Nat \ {0} /\ (Len(x[2]) = 1 \/ Folder(x) \in base.dirs)
  OBVIOUS
<1> PICK p : p = x[2]
  OBVIOUS
<1>1. x = <<x[1], p>> /\ Len(p) \in Nat \ {0} /\ p = [i \in 1 .. Len(p) |-> p[i]]
      /\ (Len(p) = 1 \/ Folder(x) \in base.dirs)
  BY JudgeAssumption
<1> PICK N : N = {p[i] : i \in 1 .. Len(p)}
  OBVIOUS
<1>2. p \in Seq(N)
  BY <1>1
<1> QED
  BY <1>1, <1>2 DEF Key

LEMMA StepOnly ==
    ASSUME OracleShapes, NEW kind, NEW from, NEW to, Step(kind, from, to)
    PROVE  /\ UNCHANGED <<base, hurt>> /\ touched' = touched \cup {from}
           /\ \A i \in DOMAIN plan' : \/ i \in DOMAIN plan /\ plan'[i] = plan[i]
                                      \/ plan'[i].kind = kind /\ plan'[i].from = from /\ plan'[i].to = to
<1> PICK S : plan \in Seq(S)
  BY DEF OracleShapes
<1> PICK s : s = [kind |-> kind, from |-> from, to |-> to]
  OBVIOUS
<1>1. plan' = Append(plan, s) /\ plan \in Seq(S \cup {s}) /\ s \in S \cup {s}
  BY DEF Step
<1>2. /\ plan' \in Seq(S \cup {s}) /\ DOMAIN plan' = 1 .. Len(plan) + 1 /\ DOMAIN plan = 1 .. Len(plan)
      /\ \A i \in 1 .. Len(plan) : plan'[i] = plan[i]
      /\ plan'[Len(plan) + 1] = s /\ Len(plan) \in Nat
  BY <1>1
<1>3. \A i \in DOMAIN plan' : (i \in DOMAIN plan /\ plan'[i] = plan[i]) \/ plan'[i] = s
  BY <1>2
<1>4. UNCHANGED <<base, hurt>> /\ touched' = touched \cup {from}
  BY DEF Step
<1> QED
  BY <1>3, <1>4

(* A step puts files only where none was generated, but for an edit of one *)
(* no step was about.                                                      *)
LEMMA StepStands ==
    ASSUME OracleShapes, PlanStands, NEW kind, NEW from, NEW to, Step(kind, from, to), NEW E, NEW B,
           disk' = [files |-> E, dirs |-> B],
           \A k \in DOMAIN E : \/ k \in DOMAIN disk.files /\ E[k] = disk.files[k]
                               \/ k \notin DOMAIN Files /\ Unbarred(k)
                               \/ k \in DOMAIN Files \ touched /\ E[k].content \in Fresh,
           \A i \in DOMAIN plan : plan[i].kind = "move" => plan[i].to \in DOMAIN E,
           kind = "modify" => to \in DOMAIN Files /\ (to \in DOMAIN E => E[to].content \in Fresh),
           kind = "move" => to \in DOMAIN E \ DOMAIN Files /\ from \in DOMAIN Files \ DOMAIN E,
           \A d \in B : d \in disk.dirs \/ Unbarred(d),
           \A x \in base.excluded : Len(x[2]) = 1 \/ Folder(x) \in B, stage # "judge"
    PROVE  PlanStands'
<1> USE DEF PlanStands
<1>1. /\ base' = base /\ hurt' = hurt /\ touched' = touched \cup {from} /\ disk'.files = E /\ disk'.dirs = B
      /\ \A i \in DOMAIN plan' : \/ i \in DOMAIN plan /\ plan'[i] = plan[i]
                                 \/ plan'[i].kind = kind /\ plan'[i].from = from /\ plan'[i].to = to
  BY StepOnly
<1>2. Files' = Files /\ \A k : Unbarred(k)' = Unbarred(k)
  BY <1>1 DEF Files, Unbarred
<1>3. \A i \in DOMAIN plan' : plan'[i].from \in touched'
  BY <1>1 DEF StepsSeen
<1>4. ASSUME NEW i \in DOMAIN plan', plan'[i].kind = "modify"
      PROVE  /\ plan'[i].to \in DOMAIN Files
             /\ plan'[i].to \in DOMAIN E => E[plan'[i].to].content \in Fresh
  <2>1. CASE i \in DOMAIN plan /\ plan'[i] = plan[i]
    BY <1>4, <2>1 DEF StepsSeen
  <2>2. CASE plan'[i].kind = kind /\ plan'[i].from = from /\ plan'[i].to = to
    BY <1>4, <2>2
  <2> QED
    BY <1>1, <2>1, <2>2
<1>5. ASSUME NEW i \in DOMAIN plan', plan'[i].kind = "move"
      PROVE  plan'[i].to \in DOMAIN E \ DOMAIN Files /\ plan'[i].from \in DOMAIN Files \ DOMAIN E
  <2>1. CASE i \in DOMAIN plan /\ plan'[i] = plan[i]
    BY <1>5, <2>1 DEF StepsSeen
  <2>2. CASE plan'[i].kind = kind /\ plan'[i].from = from /\ plan'[i].to = to
    BY <1>5, <2>2
  <2> QED
    BY <1>1, <2>1, <2>2
<1>6. StepsSeen'
  BY <1>1, <1>2, <1>3, <1>4, <1>5 DEF StepsSeen
<1>7. \A k \in DOMAIN E \cup B : Unbarred(k)
  <2>1. \A k \in DOMAIN Files : Unbarred(k)
    BY FreeNames DEF OracleShapes
  <2> QED
    BY <2>1 DEF NothingBarred
<1>8. NothingBarred'
  BY <1>1, <1>2, <1>7 DEF NothingBarred
<1>9. HurtApart'
  BY <1>1 DEF HurtApart
<1> QED
  BY <1>6, <1>8, <1>9

(* Where the plan does not go on, it stands as it stood. *)
LEMMA RestStands ==
    ASSUME PlanStands, UNCHANGED <<base, plan, touched, disk>>, HurtApart'
    PROVE  PlanStands'
<1>1. Files' = Files /\ \A k : Unbarred(k)' = Unbarred(k)
  BY DEF Files, Unbarred
<1>2. StepsSeen' /\ NothingBarred'
  BY <1>1 DEF PlanStands, StepsSeen, NothingBarred
<1> QED
  BY <1>2 DEF PlanStands

(* A new file has a free name, in a folder there was. *)
LEMMA CreateStands ==
    ASSUME OracleInv, PlanStands, NEW key \in PlannedFiles(base), Ancestors(key) \subseteq base.dirs, NEW c,
           Create("add", key, c), stage # "judge"
    PROVE  PlanStands'
<1> PICK w : w = Written(c)
  OBVIOUS
<1> PICK E : E = With(disk.files, key, w)
  OBVIOUS
<1> PICK B : B = disk.dirs \cup Ancestors(key)
  OBVIOUS
<1>1. OracleShapes /\ base \in Baselines /\ Step("add", key, key)
  BY DEF OracleInv, OracleShapes, Create
<1>2. disk' = [files |-> E, dirs |-> B]
  BY DEF Create, DiskAdd
<1>3. Unbarred(key) /\ key \notin DOMAIN Files /\ \A d \in base.dirs : Unbarred(d)
  BY <1>1, FreeNames
<1>4. DOMAIN E = DOMAIN disk.files \cup {key} /\ \A k \in DOMAIN E : k # key => E[k] = disk.files[k]
  BY DEF With
<1>5. \A i \in DOMAIN plan : plan[i].kind = "move" => plan[i].to \in DOMAIN E
  BY <1>4 DEF PlanStands, StepsSeen
<1>6. \A d \in B : d \in disk.dirs \/ Unbarred(d)
  BY <1>3
<1>7. \A x \in base.excluded : Len(x[2]) = 1 \/ Folder(x) \in B
  BY DEF PlanStands, NothingBarred
<1> QED
  BY <1>1, <1>2, <1>3, <1>4, <1>5, <1>6, <1>7, StepStands

LEMMA NamesPlanned ==
    ASSUME OracleInv, NEW dir \in base.general, NEW kind
    PROVE  /\ kind \in {"added", "copied", "large"} => Name(dir, kind) \in PlannedFiles(base)
           /\ kind = "folder" => Name(dir, kind) \in PlannedFolders(base)
           /\ Ancestors(Name(dir, kind)) \subseteq base.dirs
BY NameKeys DEF OracleInv, OracleShapes, Name, PlannedFiles, PlannedFolders

LEMMA ModifyStands ==
    ASSUME OracleInv, PlanStands, NEW k \in Mutable \ touched, NEW c \in Fresh, Step("modify", k, k),
           disk' = [disk EXCEPT !.files = With(@, k, [Files[k] EXCEPT !.content = c, !.mtime = "new"])],
           stage # "judge"
    PROVE  PlanStands'
<1> PICK f : f = Files[k]
  OBVIOUS
<1> PICK w : w = [f EXCEPT !.content = c, !.mtime = "new"]
  OBVIOUS
<1> PICK E : E = With(disk.files, k, w)
  OBVIOUS
<1>1. OracleShapes /\ k \in DOMAIN Files \ touched /\ FileRecord(f)
  BY FilesAre DEF Mutable, OracleInv, OracleShapes
<1>2. w.content = c
  BY <1>1 DEF FileRecord
<1>3. disk' = [files |-> E, dirs |-> disk.dirs]
  BY <1>1 DEF OracleShapes
<1>4. DOMAIN E = DOMAIN disk.files \cup {k} /\ E[k] = w /\ \A j \in DOMAIN E : j # k => E[j] = disk.files[j]
  BY DEF With
<1>5. \A i \in DOMAIN plan : plan[i].kind = "move" => plan[i].to \in DOMAIN E
  BY <1>4 DEF PlanStands, StepsSeen
<1>6. \A x \in base.excluded : Len(x[2]) = 1 \/ Folder(x) \in disk.dirs
  BY DEF PlanStands, NothingBarred
<1>7. k \in DOMAIN Files \ touched /\ E[k].content \in Fresh
  BY <1>1, <1>2, <1>4
<1>8. \A j \in DOMAIN E :
        \/ j \in DOMAIN disk.files /\ E[j] = disk.files[j]
        \/ j \notin DOMAIN Files /\ Unbarred(j)
        \/ j \in DOMAIN Files \ touched /\ E[j].content \in Fresh
  BY ONLY <1>4, <1>7
<1>9. \A d \in disk.dirs : d \in disk.dirs \/ Unbarred(d)
  OBVIOUS
<1> QED
  BY ONLY <1>1, <1>3, <1>5, <1>6, <1>7, <1>8, <1>9, PlanStands, Step("modify", k, k), stage # "judge", StepStands

LEMMA DeleteStands ==
    ASSUME OracleInv, PlanStands, NEW k \in DOMAIN Files, Delete(k), stage # "judge"
    PROVE  PlanStands'
<1> PICK E : E = Without(disk.files, {k})
  OBVIOUS
<1>1. OracleShapes /\ Step("delete", k, k)
  BY DEF OracleInv, Delete
<1>2. disk' = [files |-> E, dirs |-> disk.dirs]
  BY <1>1 DEF OracleShapes, Delete, DiskRemove
<1>3. DOMAIN E = DOMAIN disk.files \ {k} /\ \A j \in DOMAIN E : E[j] = disk.files[j]
  BY DEF Without
<1>4. \A i \in DOMAIN plan : plan[i].kind = "move" => plan[i].to \in DOMAIN E
  BY <1>3 DEF PlanStands, StepsSeen
<1>5. \A x \in base.excluded : Len(x[2]) = 1 \/ Folder(x) \in disk.dirs
  BY DEF PlanStands, NothingBarred
<1>6. \A j \in DOMAIN E :
        \/ j \in DOMAIN disk.files /\ E[j] = disk.files[j]
        \/ j \notin DOMAIN Files /\ Unbarred(j)
        \/ j \in DOMAIN Files \ touched /\ E[j].content \in Fresh
  BY <1>3
<1>7. \A d \in disk.dirs : d \in disk.dirs \/ Unbarred(d)
  OBVIOUS
<1> QED
  BY ONLY <1>1, <1>2, <1>4, <1>5, <1>6, <1>7, PlanStands, stage # "judge", StepStands

LEMMA MoveStands ==
    ASSUME OracleInv, PlanStands, NEW k \in DOMAIN Files, NEW to,
           to = <<k[1], <<<<"Reorganized", repeats>>, <<"moved", 0>>>>>>,
           Step("move", k, to), disk' = DiskMove(k, to), stage # "judge"
    PROVE  PlanStands'
<1> PICK E : E = With(Without(disk.files, {k}), to, disk.files[k])
  OBVIOUS
<1> PICK B : B = disk.dirs \cup Ancestors(to)
  OBVIOUS
<1>1. OracleShapes /\ base \in Baselines /\ repeats \in 0 .. MaxRepeats
  BY DEF OracleInv, OracleShapes
<1>2. disk' = [files |-> E, dirs |-> B]
  BY DEF DiskMove
<1>3. to \in PlannedFiles(base) /\ Unbarred(to) /\ to \notin DOMAIN Files
  <2>1. to \in PlannedFiles(base)
    BY <1>1 DEF PlannedFiles, Files
  <2> QED
    BY <1>1, <2>1, FreeNames
<1>4. \A d \in Ancestors(to) : Unbarred(d)
  <2> PICK a, b : a = <<"Reorganized", repeats>> /\ b = <<"moved", 0>>
    OBVIOUS
  <2>1. to = <<k[1], <<a, b>>>> /\ to[1] = k[1] /\ to[2] = <<a, b>> /\ Len(to[2]) - 1 = 1
    OBVIOUS
  <2>2. SubSeq(<<a, b>>, 1, 1) = <<a>>
    <3> PICK p, N : p = <<a, b>> /\ N = {a, b}
      OBVIOUS
    <3>1. p \in Seq(N) /\ Len(p) = 2 /\ p[1] = a
      OBVIOUS
    <3>2. SubSeq(p, 1, 1) \in Seq(N) /\ Len(SubSeq(p, 1, 1)) = 1 /\ SubSeq(p, 1, 1)[1] = a
      BY <3>1, PrefixOf
    <3>3. <<a>> \in Seq(N) /\ Len(<<a>>) = 1 /\ <<a>>[1] = a
      OBVIOUS
    <3>4. \A j \in 1 .. 1 : SubSeq(p, 1, 1)[j] = <<a>>[j]
      BY <3>2, <3>3
    <3>5. SubSeq(p, 1, 1) = <<a>>
      BY ONLY <3>2, <3>3, <3>4, SameSeq
    <3> QED
      BY <3>5
  <2>3. \A i \in 1 .. 1 : i = 1
    OBVIOUS
  <2>4. \A d \in Ancestors(to) : d = <<k[1], <<a>>>>
    BY <2>1, <2>2, <2>3 DEF Ancestors
  <2>5. <<k[1], <<a>>>> \in PlannedFolders(base)
    BY <1>1 DEF PlannedFolders, Files
  <2> QED
    BY <1>1, <2>4, <2>5, FreeNames
<1>5. /\ DOMAIN E = (DOMAIN disk.files \ {k}) \cup {to}
      /\ \A j \in DOMAIN E : j # to => E[j] = disk.files[j]
  BY DEF With, Without
<1>6. \A i \in DOMAIN plan : plan[i].kind = "move" => plan[i].to \in DOMAIN E
  BY <1>5 DEF PlanStands, StepsSeen
<1>7. \A d \in B : d \in disk.dirs \/ Unbarred(d)
  BY <1>4
<1>8. \A x \in base.excluded : Len(x[2]) = 1 \/ Folder(x) \in B
  BY DEF PlanStands, NothingBarred
<1>9. \A j \in DOMAIN E :
        \/ j \in DOMAIN disk.files /\ E[j] = disk.files[j]
        \/ j \notin DOMAIN Files /\ Unbarred(j)
        \/ j \in DOMAIN Files \ touched /\ E[j].content \in Fresh
  BY <1>3, <1>5
<1>10. to \in DOMAIN E \ DOMAIN Files /\ k \in DOMAIN Files \ DOMAIN E
  BY <1>3, <1>5
<1> QED
  BY ONLY <1>1, <1>2, <1>6, <1>7, <1>8, <1>9, <1>10, PlanStands, Step("move", k, to), stage # "judge", StepStands

(* No folder goes with an excluded entry in it or with what a step made.   *)
LEMMA RmtreeStands ==
    ASSUME OracleInv, PlanStands, NEW top \in base.dirs, Removable(top), Step("rmtree", top, top),
           disk' = DiskRmtree(top), stage # "judge"
    PROVE  PlanStands'
<1> PICK E : E = Without(disk.files, {k \in DOMAIN disk.files : Below(k, top)})
  OBVIOUS
<1> PICK B : B = {d \in disk.dirs : d # top /\ ~Below(d, top)}
  OBVIOUS
<1>1. OracleShapes /\ base \in Baselines
  BY DEF OracleInv, OracleShapes
<1>2. disk' = [files |-> E, dirs |-> B]
  BY DEF DiskRmtree
<1>3. /\ \A x \in base.excluded : ~Below(x, top)
      /\ \A i \in DOMAIN plan : ~Below(plan[i].to, top)
  BY DEF Removable
<1>4. DOMAIN E = {k \in DOMAIN disk.files : ~Below(k, top)} /\ \A j \in DOMAIN E : E[j] = disk.files[j]
  BY DEF Without
<1>5. \A i \in DOMAIN plan : plan[i].kind = "move" => plan[i].to \in DOMAIN E
  BY <1>3, <1>4 DEF PlanStands, StepsSeen
<1>6. ASSUME NEW x \in base.excluded PROVE Len(x[2]) = 1 \/ Folder(x) \in B
  <2> SUFFICES ASSUME Len(x[2]) # 1 PROVE Folder(x) \in B
    OBVIOUS
  <2>1. Key(x) /\ Len(x[2]) > 1
    <3>1. Key(x) /\ Len(x[2]) \in Nat \ {0}
      BY <1>1, ExcludedKeys
    <3> PICK n : n = Len(x[2])
      OBVIOUS
    <3>2. n \in Nat \ {0} /\ n # 1
      BY <3>1
    <3>3. n > 1
      BY ONLY <3>2
    <3> QED
      BY <3>1, <3>3
  <2>2. Key(Folder(x)) /\ Below(x, Folder(x))
    BY <2>1, FolderAbove
  <2>3. Folder(x) \in disk.dirs
    BY DEF PlanStands, NothingBarred
  <2>4. Key(top)
    BY <1>1, BaseKeys
  <2>5. Folder(x) # top /\ ~Below(Folder(x), top)
    BY <1>3, <2>1, <2>2, <2>4, BelowBelow
  <2> QED
    BY <2>3, <2>5
<1>7. \A d \in B : d \in disk.dirs
  OBVIOUS
<1> QED
  BY <1>1, <1>2, <1>4, <1>5, <1>6, <1>7, StepStands

LEMMA MkdirStands ==
    ASSUME OracleInv, PlanStands, PlanMkdir
    PROVE  PlanStands'
<1> PICK dir \in base.general : LET key == Name(dir, "folder")
                                IN  Step("mkdir", key, key) /\ disk' = DiskMkdir(key)
  BY DEF PlanMkdir
<1> PICK key : key = Name(dir, "folder")
  OBVIOUS
<1>1. OracleShapes /\ base \in Baselines /\ Step("mkdir", key, key) /\ stage # "judge"
  BY DEF OracleInv, OracleShapes, PlanMkdir
<1>2. disk' = [files |-> disk.files, dirs |-> disk.dirs \cup {key}]
  BY <1>1 DEF DiskMkdir, OracleShapes
<1>3. Unbarred(key)
  BY <1>1, NamesPlanned, FreeNames
<1>4. \A i \in DOMAIN plan : plan[i].kind = "move" => plan[i].to \in DOMAIN disk.files
  BY DEF PlanStands, StepsSeen
<1>5. \A x \in base.excluded : Len(x[2]) = 1 \/ Folder(x) \in disk.dirs \cup {key}
  BY DEF PlanStands, NothingBarred
<1> QED
  BY <1>1, <1>2, <1>3, <1>4, <1>5, StepStands

LEMMA PlanStandsFirst ==
    ASSUME OracleInit
    PROVE  PlanStands
<1>1. /\ base \in Baselines /\ plan = <<>> /\ DOMAIN plan = {}
      /\ disk.files = Files /\ disk.dirs = base.dirs
      /\ hurt = [corrupted |-> {}, edited |-> {}]
  BY DEF OracleInit, Files
<1>2. StepsSeen
  BY <1>1 DEF StepsSeen
<1>3. NothingBarred
  BY <1>1, FreeNames, ExcludedKeys DEF NothingBarred
<1>4. HurtApart
  BY <1>1 DEF HurtApart
<1> QED
  BY <1>2, <1>3, <1>4 DEF PlanStands

LEMMA PlanStandsOn ==
    ASSUME OracleInv, PlanStands, [OracleNext]_oracleVars
    PROVE  PlanStands'
<1>0. base \in Baselines /\ repeats \in 0 .. MaxRepeats
  BY DEF OracleInv, OracleShapes
<1>1. ASSUME UNCHANGED <<base, plan, touched, disk, hurt>>, stage' # "judge" => stage # "judge" PROVE PlanStands'
  <2>1. HurtApart'
    BY <1>1 DEF PlanStands, HurtApart
  <2> QED
    BY <1>1, <2>1, RestStands
<1>2. ASSUME NEW possible, Skip(possible), stage # "judge" PROVE PlanStands'
  BY <1>1, <1>2 DEF Skip
<1>3. ASSUME NEW dir \in base.general, NEW kind \in {"added", "copied", "large"}, NEW c,
             Create("add", Name(dir, kind), c), stage # "judge"
      PROVE  PlanStands'
  BY <1>3, NamesPlanned, CreateStands
<1>4. CASE PlanAdd
  BY <1>2, <1>3, <1>4 DEF PlanAdd
<1>5. CASE PlanCopy
  BY <1>2, <1>3, <1>5 DEF PlanCopy
<1>6. CASE PlanLargeCopy
  BY <1>2, <1>3, <1>6 DEF PlanLargeCopy
<1>7. CASE PlanModify
  <2>1. \A c \in Unused : c \in Fresh
    BY DEF Unused
  <2>2. ASSUME NEW k \in Mutable \ touched, NEW c \in Unused, Step("modify", k, k),
               disk' = [disk EXCEPT !.files = With(@, k, [Files[k] EXCEPT !.content = c, !.mtime = "new"])],
               stage # "judge"
        PROVE  PlanStands'
    BY <2>1, <2>2, ModifyStands, Zenon
  <2>3. stage = "modify"
    BY <1>7, Zenon DEF PlanModify
  <2>4. stage # "judge"
    BY <2>3
  <2> QED
    BY <1>2, <1>7, <2>2, <2>4, Zenon DEF PlanModify
<1>8. CASE PlanHalve
  <2>1. \A g \in Pairs : \A k \in g : k \in DOMAIN Files
    BY DEF Pairs, CopyHolders, HoldersOf
  <2> QED
    BY <1>2, <1>8, <2>1, DeleteStands DEF PlanHalve
<1>9. CASE PlanDelete
  <2>1. \A k \in Mutable \ touched : k \in DOMAIN Files
    BY DEF Mutable
  <2> QED
    BY <1>2, <1>9, <2>1, DeleteStands DEF PlanDelete
<1>10. CASE PlanMove
  <2>1. \A g \in CopyHolders : \A k \in g : k \in DOMAIN Files
    BY DEF CopyHolders, HoldersOf
  <2>2. ASSUME NEW g \in CopyHolders, NEW k \in g, NEW to,
               to = <<k[1], <<<<"Reorganized", repeats>>, <<"moved", 0>>>>>>,
               Step("move", k, to), disk' = DiskMove(k, to), stage # "judge"
        PROVE  PlanStands'
    BY <2>1, <2>2, MoveStands
  <2> QED
    BY <1>2, <1>10, <2>2 DEF PlanMove
<1>11. CASE PlanRmtree
  BY <1>2, <1>11, RmtreeStands DEF PlanRmtree
<1>12. CASE PlanMkdir
  BY <1>12, MkdirStands
<1>13. CASE PlanCorrupt
  <2>1. HurtApart'
    BY <1>13 DEF PlanCorrupt, PlanStands, HurtApart
  <2> QED
    BY <1>13, <2>1, RestStands DEF PlanCorrupt
<1>14. CASE PlanLateEdit
  <2>1. ASSUME NEW k, k \notin hurt.corrupted, hurt' = [hurt EXCEPT !.edited = {k}] PROVE HurtApart'
    BY <1>14, <2>1 DEF PlanLateEdit, PlanStands, HurtApart
  <2>2. ASSUME UNCHANGED hurt PROVE HurtApart'
    BY <1>14, <2>2 DEF PlanLateEdit, PlanStands, HurtApart
  <2>3. HurtApart'
    BY <1>14, <2>1, <2>2 DEF PlanLateEdit
  <2> QED
    BY <1>14, <2>3, RestStands DEF PlanLateEdit
<1>15. CASE UNCHANGED oracleVars
  BY <1>1, <1>15 DEF oracleVars
<1> QED
  BY <1>4, <1>5, <1>6, <1>7, <1>8, <1>9, <1>10, <1>11, <1>12, <1>13, <1>14, <1>15 DEF OracleNext

-----------------------------------------------------------------------------
(* The totals, and what the verify pass is told of.  The oracle reckons    *)
(* them over its account, the tool over the drives.                        *)
LEMMA BytesAreTrue ==
    ASSUME OracleInv, NEW keys \in SUBSET DOMAIN disk.files
    PROVE  FileBytes(exp.files, keys) = FileBytes(disk.files, keys)
<1>1. \A k \in keys : SizeOf(exp.files[k]) = SizeOf(disk.files[k])
  BY AccountsAlike, SizesAlike
<1>2. [k \in keys |-> SizeOf(exp.files[k])] = [k \in keys |-> SizeOf(disk.files[k])]
  BY <1>1
<1> QED
  BY <1>2 DEF FileBytes

LEMMA SummaryIsTrue ==
    ASSUME OracleInv, RealFiles(disk.files)
    PROVE  Summary(exp.files, Identified, MinCopies) = Summary(disk.files, Truly, MinCopies)
<1> PICK G : G = Groups(disk.files, Truly)
  OBVIOUS
<1>1. G = [c \in Contents |-> True(c)]
  BY DEF Groups, Contents, True
<1>2. Groups(exp.files, Identified) = G
  <2>1. Groups(exp.files, Identified) = [c \in DOMAIN Groups(exp.files, Identified) |-> Groups(exp.files, Identified)[c]]
    BY DEF Groups
  <2> QED
    BY <1>1, <2>1, GroupsAreTrue
<1>3. Alone(exp.files, Identified) = Alone(disk.files, Truly)
  BY SinglesAreTrue DEF ExpSingles, TrueSingles
<1> PICK L : L = Alone(disk.files, Truly)
  OBVIOUS
<1>4. Truly \subseteq DOMAIN disk.files /\ L \subseteq DOMAIN disk.files
  BY TrueOnes DEF Alone
<1>5. /\ FileBytes(exp.files, Truly) = FileBytes(disk.files, Truly)
      /\ FileBytes(exp.files, L) = FileBytes(disk.files, L)
      /\ FileBytes(exp.files, {}) = FileBytes(disk.files, {})
  BY <1>4, BytesAreTrue
<1>6. [c \in DOMAIN G |-> Reclaimable(exp.files, G[c])] = [c \in DOMAIN G |-> Reclaimable(disk.files, G[c])]
  <2>1. \A c \in Contents : True(c) # {} /\ True(c) \subseteq DOMAIN disk.files
    BY <1>4, TrueOnes
  <2>2. \A c \in Contents : Reclaimable(exp.files, True(c)) = Reclaimable(disk.files, True(c))
    BY <2>1, WasteIsTrue
  <2> QED
    BY <1>1, <2>2
<1>7. {k \in DOMAIN exp.files \ Truly : SharedSize(exp.files, k)} = {k \in DOMAIN disk.files \ Truly : SharedSize(disk.files, k)}
  BY AccountsAlike, SizesAlike DEF SameFiles
<1>8. FileBytes(exp.files, IF MinCopies > 1 THEN L ELSE {}) = FileBytes(disk.files, IF MinCopies > 1 THEN L ELSE {})
  BY <1>5
<1> QED
  BY <1>2, <1>3, <1>5, <1>6, <1>7, <1>8, IdentifiedIsTrue, Zenon DEF Summary

(* A corrupted file was identified at the rescan, and so was a copy of it. *)
HurtCopied ==
    /\ stage \notin {"edit", "judge"} => hurt.corrupted = {}
    /\ \A k \in hurt.corrupted : k \in Identified /\ \E j \in Identified \ {k} : exp.files[j].content = exp.files[k].content

LEMMA OneOfTwo ==
    ASSUME NEW S, Cardinality(S) >= 2, NEW k
    PROVE  \E j \in S : j # k
<1> SUFFICES ASSUME S \subseteq {k} PROVE FALSE
  OBVIOUS
<1>1. S = {} \/ S = {k}
  OBVIOUS
<1>2. Cardinality(S) = 0 \/ Cardinality(S) = 1
  BY <1>1, FS_EmptySet, FS_Singleton
<1> QED
  BY <1>2

(* The one that is chosen is of a content whose copies no step concerns.   *)
LEMMA StableCopies ==
    ASSUME NEW c \in Stable, NEW k \in HoldersOf(c)
    PROVE  k \in Identified /\ \E j \in Identified \ {k} : exp.files[j].content = exp.files[k].content
<1> PICK G, keys : G = Groups(BaseFiles, BaseIdentified) /\ keys = G[c]
  OBVIOUS
<1>1. /\ c \in DOMAIN G /\ Cardinality(keys) >= 2
      /\ c \in DOMAIN Groups(exp.files, Identified) /\ Groups(exp.files, Identified)[c] = keys
  BY DEF Stable
<1>2. keys = {j \in BaseIdentified : BaseFiles[j].content = c}
  BY <1>1 DEF Groups
<1>3. keys = {j \in Identified : exp.files[j].content = c}
  BY <1>1 DEF Groups
<1> PICK j \in keys : j # k
  BY <1>1, OneOfTwo
<1>4. /\ k \in DOMAIN BaseFiles /\ BaseFiles[k].content = c /\ ~BaseFiles[k].unreadable
      /\ j \in DOMAIN BaseFiles /\ BaseFiles[j].content = c /\ SizeOf(BaseFiles[j]) > 0
  BY <1>2 DEF HoldersOf, BaseFiles, Expected, BaseIdentified, Identify
<1>5. SizeOf(BaseFiles[k]) = SizeOf(BaseFiles[j])
  BY <1>4 DEF SizeOf
<1>6. k \in BaseIdentified
  BY <1>4, <1>5 DEF BaseIdentified, Identify, SharedSize
<1> QED
  BY <1>2, <1>3, <1>4, <1>6

LEMMA HurtStaysCopied ==
    ASSUME OracleInv, PlanStands, HurtCopied, [OracleNext]_oracleVars
    PROVE  HurtCopied'
<1>1. ASSUME UNCHANGED <<base, exp>> PROVE Identified' = Identified
  BY <1>1 DEF Identified, BaseIdentified, BaseFiles, Identify, Expected, SharedSize, SizeOf, Files
<1>2. ASSUME UNCHANGED hurt, stage \notin {"edit", "judge"} PROVE HurtCopied'
  BY <1>2 DEF HurtCopied
<1>s. /\ \A kind, from, to : Step(kind, from, to) => UNCHANGED hurt
      /\ \A possible : Skip(possible) => UNCHANGED hurt
  BY DEF Step, Skip
<1>c. /\ \A kind, key, c : Create(kind, key, c) => UNCHANGED hurt
      /\ \A k : Delete(k) => UNCHANGED hurt
  BY <1>s DEF Create, Delete
<1>3. CASE PlanAdd \/ PlanCopy \/ PlanLargeCopy \/ PlanHalve \/ PlanDelete
  <2>1. UNCHANGED hurt
    BY <1>3, <1>s, <1>c, Zenon DEF PlanAdd, PlanCopy, PlanLargeCopy, PlanHalve, PlanDelete
  <2>2. stage \notin {"edit", "judge"}
    BY <1>3 DEF PlanAdd, PlanCopy, PlanLargeCopy, PlanHalve, PlanDelete
  <2> QED
    BY <1>2, <2>1, <2>2
<1>4. CASE PlanModify \/ PlanMove \/ PlanRmtree \/ PlanMkdir
  <2>1. UNCHANGED hurt
    BY <1>4, <1>s, Zenon DEF PlanModify, PlanMove, PlanRmtree, PlanMkdir
  <2>2. stage = "modify" \/ stage = "move" \/ stage = "rmtree" \/ stage = "mkdir"
    BY <1>4, Zenon DEF PlanModify, PlanMove, PlanRmtree, PlanMkdir
  <2> QED
    BY <1>2, <2>1, <2>2
<1>5. CASE PlanCorrupt
  <2>1. hurt.corrupted = {} /\ stage' = "edit" /\ Identified' = Identified /\ exp' = exp
    BY <1>1, <1>5 DEF PlanCorrupt, HurtCopied
  <2>2. ASSUME UNCHANGED hurt PROVE HurtCopied'
    BY <2>1, <2>2 DEF HurtCopied
  <2>3. ASSUME NEW c \in Stable, NEW k \in HoldersOf(c), hurt' = [hurt EXCEPT !.corrupted = {k}] PROVE HurtCopied'
    <3>1. hurt'.corrupted = {k}
      BY <2>3 DEF PlanStands, HurtApart
    <3>2. k \in Identified /\ \E j \in Identified \ {k} : exp.files[j].content = exp.files[k].content
      BY StableCopies
    <3> QED
      BY <2>1, <3>1, <3>2 DEF HurtCopied
  <2> QED
    BY <1>5, <2>2, <2>3 DEF PlanCorrupt
<1>6. CASE PlanLateEdit
  <2>1. stage = "edit" /\ stage' = "judge" /\ Identified' = Identified /\ exp' = exp
    BY <1>1, <1>6 DEF PlanLateEdit
  <2>2. hurt'.corrupted = hurt.corrupted
    BY <1>6 DEF PlanLateEdit, PlanStands, HurtApart
  <2> QED
    BY <2>1, <2>2 DEF HurtCopied
<1>7. CASE UNCHANGED oracleVars
  BY <1>1, <1>7 DEF HurtCopied, oracleVars
<1> QED
  BY <1>3, <1>4, <1>5, <1>6, <1>7 DEF OracleNext

-----------------------------------------------------------------------------
(* What the report of a tool that makes no mistake says, and what the      *)
(* tests expect of one, both in terms of the drives.                       *)
TruthStands ==
    /\ truth.live = [k \in DOMAIN disk.files |->
                       [size |-> SizeOf(disk.files[k]), id |-> IF k \in Truly THEN disk.files[k].content ELSE NoId]]
    /\ truth.vanished = DOMAIN Files \ DOMAIN disk.files
    /\ truth.dirs = disk.dirs /\ truth.vanishedDirs = base.dirs \ disk.dirs
    /\ truth.groups = [c \in Contents |-> [drives   |-> Proven(True(c)), possible |-> Possible(True(c)),
                                           physical |-> Physical(disk.files, True(c))]]
    /\ truth.scarce = Scarce
    /\ truth.scarceFiles = (IF MinCopies > 1 THEN TrueSingles ELSE {})
    /\ truth.waste = TrueWaste
    /\ DOMAIN truth.incidents = hurt.corrupted /\ truth.modified = hurt.edited

ExpectStands ==
    /\ expect.identified = Truly
    /\ expect.groups = {True(c) : c \in Contents}
    /\ \A c \in Contents : expect.proven[True(c)] = Proven(True(c))
    /\ expect.scarce = {True(c) : c \in Scarce} \cup (IF MinCopies > 1 THEN {{k} : k \in TrueSingles} ELSE {})
    /\ DOMAIN expect.waste = {True(c) : c \in Wasteful}
    /\ \A c \in Wasteful : expect.waste[True(c)] = Reclaimable(disk.files, True(c))

CountsAgree ==
    /\ truth.links = expect.links /\ truth.excluded = expect.excluded /\ truth.headline = expect.headline
    /\ \A k \in hurt.corrupted : truth.incidents[k] = expect.holding[k]
    /\ {truth.checked, expect.floor, Cardinality(Small(disk.files, Truly))} \subseteq Nat
    /\ truth.checked >= expect.floor /\ expect.floor >= Cardinality(Small(disk.files, Truly))

JudgeInv ==
    /\ OracleInv /\ PlanStands /\ HurtCopied /\ RealFiles(disk.files)
    /\ mistakes >= 0 => stage = "judge" /\ TruthStands /\ ExpectStands /\ CountsAgree

LEMMA FaultlessIs ==
    /\ Faultless.live = [k \in DOMAIN disk.files |->
                          [size |-> SizeOf(disk.files[k]), id |-> IF k \in Truly THEN disk.files[k].content ELSE NoId]]
    /\ Faultless.vanished = DOMAIN Files \ DOMAIN disk.files
    /\ Faultless.dirs = disk.dirs /\ Faultless.vanishedDirs = base.dirs \ disk.dirs
    /\ Faultless.groups = [c \in Contents |-> [drives   |-> Proven(True(c)), possible |-> Possible(True(c)),
                                               physical |-> Physical(disk.files, True(c))]]
    /\ Faultless.scarce = Scarce
    /\ Faultless.scarceFiles = (IF MinCopies > 1 THEN TrueSingles ELSE {})
    /\ Faultless.waste = TrueWaste
    /\ DOMAIN Faultless.incidents = hurt.corrupted /\ Faultless.modified = hurt.edited
BY DEF Faultless

LEMMA ExpectationsAre ==
    ASSUME OracleInv, RealFiles(disk.files)
    PROVE  /\ Expectations.identified = Truly
           /\ Expectations.groups = {True(c) : c \in Contents}
           /\ \A c \in Contents : Expectations.proven[True(c)] = Proven(True(c))
           /\ Expectations.scarce
                = {True(c) : c \in Scarce} \cup (IF MinCopies > 1 THEN {{k} : k \in TrueSingles} ELSE {})
           /\ DOMAIN Expectations.waste = {True(c) : c \in Wasteful}
           /\ \A c \in Wasteful : Expectations.waste[True(c)] = Reclaimable(disk.files, True(c))
<1> PICK G : G = Groups(exp.files, Identified)
  OBVIOUS
<1>1. DOMAIN G = Contents /\ \A c \in Contents : G[c] = True(c)
  BY GroupsAreTrue
<1> PICK S : S = {G[c] : c \in {b \in DOMAIN G : Proven(G[b]) < MinCopies}}
                   \cup (IF MinCopies > 1 THEN {{k} : k \in ExpSingles} ELSE {})
  OBVIOUS
<1> PICK W : W = {G[c] : c \in {b \in DOMAIN G : Reclaimable(exp.files, G[b]) > 0}}
  OBVIOUS
<1> PICK V : V = [g \in W |-> Reclaimable(exp.files, g)]
  OBVIOUS
<1>2. /\ Expectations.identified = Identified
      /\ Expectations.groups = {G[c] : c \in DOMAIN G}
      /\ Expectations.proven = [g \in {G[c] : c \in DOMAIN G} |-> Proven(g)]
      /\ Expectations.scarce = S
      /\ Expectations.waste = V
  BY DEF Expectations
<1>3. {G[c] : c \in DOMAIN G} = {True(c) : c \in Contents}
  BY <1>1
<1>4. {G[c] : c \in {b \in DOMAIN G : Proven(G[b]) < MinCopies}} = {True(c) : c \in Scarce}
  BY <1>1 DEF Scarce
<1>5. S = {True(c) : c \in Scarce} \cup (IF MinCopies > 1 THEN {{k} : k \in TrueSingles} ELSE {})
  BY <1>4, SinglesAreTrue
<1>6. \A c \in Contents : Reclaimable(exp.files, True(c)) = Reclaimable(disk.files, True(c))
  BY TrueOnes, WasteIsTrue
<1>7. W = {True(c) : c \in Wasteful}
  BY <1>1, <1>6 DEF Wasteful
<1>8. DOMAIN V = W /\ \A c \in Wasteful : V[True(c)] = Reclaimable(disk.files, True(c))
  BY <1>6, <1>7 DEF Wasteful
<1>9. \A c \in Contents : Expectations.proven[True(c)] = Proven(True(c))
  BY <1>2, <1>3
<1> QED
  BY <1>2, <1>3, <1>5, <1>7, <1>8, <1>9, IdentifiedIsTrue

(* The tool and the oracle come to the same counts. *)
LEMMA CountsAreOne ==
    ASSUME OracleInv, NothingBarred, RealFiles(disk.files)
    PROVE  /\ Faultless.links = Expectations.links
           /\ Faultless.excluded = Expectations.excluded
           /\ Faultless.headline = Expectations.headline
<1>1. Faultless.links = Expectations.links
  BY DEF Faultless, Expectations, OracleInv, OracleAgrees
<1>2. Faultless.excluded = Expectations.excluded
  <2>1. \A d : {x \in base.excluded : x[1] = d /\ (Len(x[2]) = 1 \/ Folder(x) \in disk.dirs)}
                 = {x \in base.excluded : x[1] = d}
    BY DEF NothingBarred
  <2>2. \A d : ExcludedOf(d, disk.dirs) = Cardinality({x \in base.excluded : x[1] = d})
    BY <2>1 DEF ExcludedOf
  <2>3. /\ Faultless.excluded = [d \in Drives |-> ExcludedOf(d, disk.dirs)]
        /\ Expectations.excluded = [d \in Drives |-> Cardinality({x \in base.excluded : x[1] = d})]
    BY DEF Faultless, Expectations
  <2> QED
    BY <2>2, <2>3
<1>3. Faultless.headline = Expectations.headline
  <2>1. Faultless.headline = Summary(disk.files, Truly, MinCopies)
    BY DEF Faultless
  <2>2. Expectations.headline = Summary(exp.files, Identified, MinCopies)
    BY DEF Expectations
  <2> QED
    BY <2>1, <2>2, SummaryIsTrue
<1> QED
  BY <1>1, <1>2, <1>3

(* Of a corrupted file they tell the same. *)
LEMMA HoldersAreOne ==
    ASSUME OracleInv, RealFiles(disk.files), HurtCopied, NEW k \in hurt.corrupted
    PROVE  Faultless.incidents[k] = Expectations.holding[k]
<1> PICK c : c = disk.files[k].content
  OBVIOUS
<1>1. k \in Truly /\ k \in DOMAIN disk.files /\ c \in Contents
  BY IdentifiedIsTrue, TrueOnes DEF HurtCopied
<1>2. exp.files[k].content = c
  BY <1>1, AccountsAlike DEF SameFiles, Describes
<1>3. Groups(exp.files, Identified)[c] = True(c)
  BY <1>1, GroupsAreTrue
<1>4. Expectations.holding = [j \in hurt.corrupted |-> Proven(Groups(exp.files, Identified)[exp.files[j].content])]
  BY DEF Expectations
<1>5. Faultless.incidents = [j \in hurt.corrupted |-> Proven(True(disk.files[j].content))]
  BY DEF Faultless
<1> QED
  BY <1>2, <1>3, <1>4, <1>5

(* What the oracle takes for verifiable a tool can verify, and every small *)
(* file is part of it.                                                     *)
LEMMA FloorIsMet ==
    ASSUME OracleInv, RealFiles(disk.files), HurtCopied, HurtApart
    PROVE  /\ {Faultless.checked, Expectations.floor, Cardinality(Small(disk.files, Truly))} \subseteq Nat
           /\ Faultless.checked >= Expectations.floor
           /\ Expectations.floor >= Cardinality(Small(disk.files, Truly))
<1> PICK A : A = Small(disk.files, Truly)
  OBVIOUS
<1> PICK B : B = {k \in hurt.corrupted : SizeOf(exp.files[k]) > SmallFile}
  OBVIOUS
<1> PICK V : V = Verifiable
  OBVIOUS
<1>1. /\ Truly \subseteq DOMAIN disk.files /\ IsFiniteSet(Truly)
      /\ \A k \in DOMAIN disk.files : SizeOf(exp.files[k]) = SizeOf(disk.files[k]) /\ SizeOf(disk.files[k]) \in Nat
                                       /\ exp.files[k].content = disk.files[k].content
  <2>1. Truly \subseteq DOMAIN disk.files /\ IsFiniteSet(DOMAIN disk.files)
    BY TrueOnes DEF RealFiles
  <2>2. \A k \in DOMAIN disk.files : SizeOf(disk.files[k]) \in Nat
    BY DEF RealFiles, Bytes, SizeOf
  <2>3. \A k \in DOMAIN disk.files : SizeOf(exp.files[k]) = SizeOf(disk.files[k])
    BY AccountsAlike, SizesAlike
  <2>4. \A k \in DOMAIN disk.files : exp.files[k].content = disk.files[k].content
    BY AccountsAlike DEF SameFiles, Describes
  <2> QED
    BY <2>1, <2>2, <2>3, <2>4, FS_Subset
<1>2. Small(exp.files, Identified) = A
  BY <1>1, IdentifiedIsTrue DEF Small
<1>3. \A k \in hurt.corrupted : /\ k \in Truly /\ k \notin hurt.edited
                                  /\ \E j \in Truly \ {k} : exp.files[j].content = exp.files[k].content
  <2>1. \A k \in hurt.corrupted : k \notin hurt.edited
    BY DEF HurtApart
  <2> QED
    BY <2>1, IdentifiedIsTrue DEF HurtCopied
<1>4. B \subseteq V
  <2> SUFFICES ASSUME NEW k \in hurt.corrupted PROVE k \in V
    OBVIOUS
  <2>1. k \in Truly /\ k \notin hurt.edited
    BY <1>3
  <2> PICK j \in Truly \ {k} : exp.files[j].content = exp.files[k].content
    BY <1>3
  <2>2. j \in True(disk.files[k].content)
    BY <1>1, <2>1 DEF True
  <2>3. True(disk.files[k].content) # {k}
    BY <2>2
  <2> QED
    BY <2>1, <2>3 DEF Verifiable
<1>5. A \subseteq V /\ V \subseteq Truly
  BY DEF Verifiable, Small
<1>6. \A k \in A : SizeOf(disk.files[k]) <= SmallFile
  BY DEF Small
<1>7. A \cap B = {}
  <2> SUFFICES ASSUME NEW k \in A, k \in B PROVE FALSE
    OBVIOUS
  <2>1. SizeOf(disk.files[k]) <= SmallFile /\ SizeOf(disk.files[k]) > SmallFile
    BY <1>1, <1>5, <1>6
  <2>2. SizeOf(disk.files[k]) \in Nat
    BY <1>1, <1>5
  <2> QED
    BY <2>1, <2>2, OracleAssumption
<1>8. IsFiniteSet(A) /\ IsFiniteSet(B) /\ IsFiniteSet(V) /\ IsFiniteSet(A \cup B)
  BY <1>1, <1>4, <1>5, FS_Subset
<1>9. /\ Cardinality(A) \in Nat /\ Cardinality(B) \in Nat /\ Cardinality(V) \in Nat
      /\ Cardinality(A \cup B) = Cardinality(A) + Cardinality(B) - Cardinality(A \cap B)
      /\ Cardinality(A \cup B) <= Cardinality(V)
  BY <1>4, <1>5, <1>8, FS_CardinalityType, FS_Union, FS_Subset
<1>10. Cardinality(A \cup B) = Cardinality(A) + Cardinality(B)
  <2>1. Cardinality(A \cap B) = 0
    BY <1>7, FS_EmptySet
  <2> QED
    BY <1>9, <2>1
<1>11. Faultless.checked = Cardinality(V) /\ Expectations.floor = Cardinality(A) + Cardinality(B)
  BY <1>2 DEF Faultless, Expectations
<1> QED
  BY <1>9, <1>10, <1>11

(* While the tool is judged nothing happens on the drives. *)
LEMMA DrivesRest ==
    ASSUME UNCHANGED oracleVars
    PROVE  /\ Files' = Files /\ Truly' = Truly /\ Contents' = Contents /\ TrueSingles' = TrueSingles
           /\ \A c : True(c)' = True(c)
           /\ Scarce' = Scarce /\ Wasteful' = Wasteful
           /\ base' = base /\ disk' = disk /\ hurt' = hurt /\ stage' = stage
           /\ \A c : Physical(disk.files, True(c))' = Physical(disk.files, True(c))
           /\ \A c : Reclaimable(disk.files, True(c))' = Reclaimable(disk.files, True(c))
           /\ TrueWaste' = TrueWaste
           /\ Small(disk.files, Truly)' = Small(disk.files, Truly)
<1>1. Files' = Files /\ disk' = disk /\ base' = base /\ hurt' = hurt /\ stage' = stage
  BY DEF Files, oracleVars
<1>2. Truly' = Truly
  BY <1>1 DEF Truly, Readable, Known1, SharedSize
<1>3. Contents' = Contents /\ TrueSingles' = TrueSingles
  BY <1>1, <1>2 DEF Contents, TrueSingles, SharedSize
<1>4. \A c : True(c)' = True(c)
  BY <1>1, <1>2 DEF True
<1>5. Scarce' = Scarce
  BY <1>3, <1>4 DEF Scarce
<1>6. Wasteful' = Wasteful
  BY <1>1, <1>3, <1>4 DEF Wasteful, Reclaimable, Physical
<1>7. ASSUME NEW c
      PROVE  /\ Physical(disk.files, True(c))' = Physical(disk.files, True(c))
             /\ Reclaimable(disk.files, True(c))' = Reclaimable(disk.files, True(c))
  <2>1. True(c)' = True(c)
    BY <1>4
  <2>2. Physical(disk.files, True(c))' = Physical(disk.files, True(c))
    BY <1>1, <2>1 DEF Physical
  <2> QED
    BY <1>1, <2>1, <2>2 DEF Reclaimable, Physical
<1>8. TrueWaste' = TrueWaste
  BY <1>6, <1>7 DEF TrueWaste
<1>9. Small(disk.files, Truly)' = Small(disk.files, Truly)
  BY <1>1, <1>2 DEF Small
<1> QED
  BY <1>1, <1>2, <1>3, <1>4, <1>5, <1>6, <1>7, <1>8, <1>9

LEMMA JudgeBegins ==
    ASSUME OracleInit, JudgeInit
    PROVE  JudgeInv
<1>1. OracleInv /\ PlanStands
  BY OracleBegins, PlanStandsFirst
<1>2. disk.files = Files /\ base \in Baselines
  BY DEF OracleInit, Files
<1>3. RealFiles(disk.files)
  BY <1>2, JudgeAssumption DEF RealFiles, Bytes, Files
<1>4. HurtCopied
  BY DEF HurtCopied, OracleInit
<1> QED
  BY <1>1, <1>3, <1>4 DEF JudgeInv, JudgeInit

LEMMA TruthRests ==
    ASSUME UNCHANGED oracleVars, TruthStands, truth' = truth
    PROVE  TruthStands'
BY DrivesRest DEF TruthStands

LEMMA ExpectationsRest ==
    ASSUME UNCHANGED oracleVars, ExpectStands, expect' = expect
    PROVE  ExpectStands'
BY DrivesRest DEF ExpectStands

LEMMA JudgeSteps ==
    ASSUME JudgeInv, [(OracleNext /\ UNCHANGED judgeVars) \/ JudgeNext]_<<oracleVars, judgeVars>>
    PROVE  JudgeInv'
<1>1. OracleInv' /\ PlanStands' /\ HurtCopied' /\ RealFiles(disk.files)'
  <2>1. [OracleNext]_oracleVars
    BY DEF JudgeNext
  <2>2. RealFiles(disk'.files)
    BY <2>1, RealSteps DEF JudgeInv
  <2> QED
    BY <2>1, <2>2, OracleSteps, PlanStandsOn, HurtStaysCopied DEF JudgeInv, RealFiles
<1>2. CASE OracleNext /\ UNCHANGED judgeVars
  <2>1. stage # "judge"
    BY <1>2, Zenon DEF OracleNext, PlanAdd, PlanCopy, PlanLargeCopy, PlanModify, PlanHalve, PlanDelete, PlanMove,
                       PlanRmtree, PlanMkdir, PlanCorrupt, PlanLateEdit
  <2>2. ~(mistakes' >= 0)
    BY <1>2, <2>1 DEF JudgeInv, judgeVars
  <2> QED
    BY <1>1, <2>2 DEF JudgeInv
<1>3. ASSUME UNCHANGED oracleVars, Observe PROVE JudgeInv'
  <2>1. stage' = "judge" /\ truth' = Faultless /\ expect' = Expectations
    BY <1>3 DEF oracleVars, Observe
  <2>2. TruthStands'
    BY <1>3, <2>1, FaultlessIs, DrivesRest DEF TruthStands
  <2>3. ExpectStands'
    BY <1>3, <2>1, ExpectationsAre, DrivesRest DEF ExpectStands, JudgeInv
  <2>4. CountsAgree'
    <3>1. /\ truth'.links = expect'.links /\ truth'.excluded = expect'.excluded
          /\ truth'.headline = expect'.headline
      BY <2>1, CountsAreOne DEF JudgeInv, PlanStands
    <3>2. \A k \in hurt.corrupted : truth'.incidents[k] = expect'.holding[k]
      BY <2>1, HoldersAreOne DEF JudgeInv
    <3>3. /\ {truth'.checked, expect'.floor, Cardinality(Small(disk.files, Truly))} \subseteq Nat
          /\ truth'.checked >= expect'.floor /\ expect'.floor >= Cardinality(Small(disk.files, Truly))
      BY <2>1, FloorIsMet DEF JudgeInv, PlanStands
    <3>4. hurt' = hurt /\ Small(disk.files, Truly)' = Small(disk.files, Truly)
      BY <1>3, DrivesRest
    <3> QED
      BY <3>1, <3>2, <3>3, <3>4 DEF CountsAgree
  <2> QED
    BY <1>1, <2>1, <2>2, <2>3, <2>4 DEF JudgeInv
<1>4. ASSUME UNCHANGED <<oracleVars, expect, truth>>, mistakes' >= 0 => mistakes >= 0 PROVE JudgeInv'
  <2>1. stage' = stage /\ (TruthStands => TruthStands') /\ (ExpectStands => ExpectStands')
    BY <1>4, DrivesRest, TruthRests, ExpectationsRest
  <2>2. CountsAgree => CountsAgree'
    BY <1>4, DrivesRest DEF CountsAgree
  <2> QED
    BY <1>1, <1>4, <2>1, <2>2 DEF JudgeInv
<1>5. CASE JudgeNext /\ Observe
  BY <1>3, <1>5 DEF JudgeNext
<1>6. CASE JudgeNext /\ Err
  BY <1>4, <1>6 DEF JudgeNext, Err
<1>7. CASE UNCHANGED <<oracleVars, judgeVars>>
  BY <1>4, <1>7 DEF judgeVars
<1> QED
  BY <1>2, <1>5, <1>6, <1>7 DEF JudgeNext

-----------------------------------------------------------------------------
(* Passing the tests of identities and copies is to have the groups of     *)
(* what is alike on the drives, and no other.                              *)
LEMMA GroupsOf ==
    ASSUME JudgeInv, mistakes >= 0, NEW r, FileSet(r), IdentifiedExactly(r), CopiesCounted(r)
    PROVE  /\ \A c \in Contents : \A k \in True(c) :
                Id(r, k) \in Ids(r) /\ PathSet(r, Id(r, k)) = True(c)
           /\ \A i \in Ids(r) : \E c \in Contents : PathSet(r, i) = True(c)
           /\ \A i \in Ids(r) : i \in DOMAIN r.groups /\ r.groups[i].drives = Proven(PathSet(r, i))
<1> USE DEF JudgeInv
<1>1. DOMAIN r.live = DOMAIN disk.files
  BY DEF FileSet, ExpFiles, OracleInv, OracleAgrees
<1>2. \A c \in Contents : c # NoId /\ True(c) # {} /\ True(c) \subseteq Truly
  BY TrueOnes
<1>3. \A k \in Truly : k \in DOMAIN r.live /\ disk.files[k].content \in Contents /\ k \in True(disk.files[k].content)
  BY <1>1, TrueOnes
<1>4. \A k \in DOMAIN r.live : Id(r, k) = r.live[k].id
  BY DEF Id
<1>5. \A k \in DOMAIN r.live : Id(r, k) # NoId => k \in Truly
  <2>1. DOMAIN r.live = ExpFiles /\ expect.identified = Truly
    BY DEF FileSet, ExpectStands
  <2> QED
    BY <2>1 DEF IdentifiedExactly
<1>6. ASSUME NEW c \in Contents
      PROVE  HasGroup(r, True(c)) /\ GroupOf(r, True(c)).drives = Proven(True(c))
  <2>1. True(c) \in expect.groups /\ expect.proven[True(c)] = Proven(True(c))
    BY DEF ExpectStands
  <2> QED
    BY <2>1 DEF CopiesCounted
<1>7. ASSUME NEW c \in Contents, NEW k \in True(c)
      PROVE  /\ Id(r, k) \in Ids(r) /\ PathSet(r, Id(r, k)) = True(c) /\ Id(r, k) \in DOMAIN r.groups
  <2>1. Id(r, k) # NoId /\ PathSet(r, Id(r, k)) = True(c) /\ Id(r, k) \in DOMAIN r.groups
    BY <1>6 DEF HasGroup
  <2>2. k \in DOMAIN r.live
    BY <1>2, <1>3
  <2> QED
    BY <1>4, <2>1, <2>2 DEF Ids
<1>8. ASSUME NEW i \in Ids(r)
      PROVE  \E c \in Contents : \E k \in True(c) : i = Id(r, k)
  <2> PICK k \in DOMAIN r.live : r.live[k].id = i /\ i # NoId
    BY DEF Ids
  <2>1. k \in Truly /\ Id(r, k) = i
    BY <1>4, <1>5
  <2> QED
    BY <1>3, <2>1
<1>9. ASSUME NEW i \in Ids(r) PROVE i \in DOMAIN r.groups /\ r.groups[i].drives = Proven(PathSet(r, i))
  <2> PICK c \in Contents : \E k \in True(c) : i = Id(r, k)
    BY <1>8
  <2> PICK k \in True(c) : i = Id(r, k)
    OBVIOUS
  <2> PICK j : j = CHOOSE x \in True(c) : TRUE
    OBVIOUS
  <2>1. j \in True(c)
    OBVIOUS
  <2>2. PathSet(r, i) = True(c) /\ PathSet(r, Id(r, j)) = True(c) /\ i \in DOMAIN r.groups
    BY <1>7, <2>1
  <2>3. Id(r, j) = i
    BY <2>2, <1>4 DEF PathSet
  <2>4. GroupOf(r, True(c)) = r.groups[i]
    BY <2>3 DEF GroupOf
  <2> QED
    BY <1>6, <2>2, <2>4
<1>10. \A i \in Ids(r) : \E c \in Contents : PathSet(r, i) = True(c)
  BY <1>7, <1>8
<1> QED
  BY <1>7, <1>9, <1>10

(* A tool that makes no mistake has them too. *)
LEMMA GroupsOfTruth ==
    ASSUME JudgeInv, mistakes >= 0
    PROVE  Ids(truth) = Contents /\ \A c \in Contents : PathSet(truth, c) = True(c)
<1>1. /\ DOMAIN truth.live = DOMAIN disk.files
      /\ \A k \in DOMAIN disk.files : truth.live[k].id = (IF k \in Truly THEN disk.files[k].content ELSE NoId)
  BY DEF JudgeInv, TruthStands
<1>2. /\ Truly \subseteq DOMAIN disk.files
      /\ \A c \in Contents : c # NoId /\ True(c) # {} /\ True(c) \subseteq Truly
      /\ \A k \in Truly : disk.files[k].content \in Contents /\ k \in True(disk.files[k].content)
  BY TrueOnes DEF JudgeInv
<1>3. \A c \in Contents : PathSet(truth, c) = True(c)
  BY <1>1, <1>2 DEF PathSet, True
<1>4. \A i \in Ids(truth) : i \in Contents
  BY <1>1, <1>2 DEF Ids
<1>5. \A c \in Contents : c \in Ids(truth)
  <2> TAKE c \in Contents
  <2> PICK k : k \in True(c)
    BY <1>2
  <2>1. k \in DOMAIN disk.files /\ k \in Truly /\ disk.files[k].content = c
    BY <1>2 DEF True
  <2>2. truth.live[k].id = c
    BY <1>1, <2>1
  <2> QED
    BY <1>1, <1>2, <2>1, <2>2 DEF Ids
<1> QED
  BY <1>3, <1>4, <1>5

LEMMA PassedIsSo ==
    ASSUME JudgeInv, mistakes >= 0, NEW r, Passes(r)
    PROVE  Claims(r)
<1> USE DEF JudgeInv
<1>1. /\ FileSet(r) /\ Folders(r) /\ Tombstoned(r) /\ IdentifiedExactly(r) /\ CopiesCounted(r)
      /\ UnderProtected(r) /\ Reclaimed(r) /\ Headline(r)
      /\ CorruptionFound(r) /\ NoFalseAlarm(r) /\ HoldersTold(r) /\ EditsAreEdits(r)
  BY DEF Passes
<1>2. /\ DOMAIN r.live = DOMAIN disk.files /\ r.vanished = truth.vanished /\ r.dirs = disk.dirs
  BY <1>1 DEF FileSet, ExpFiles, Folders, Tombstoned, OracleInv, OracleAgrees, TruthStands
<1>3. \A k \in DOMAIN r.live : r.live[k].size = SizeOf(disk.files[k])
  <2>1. \A k \in DOMAIN disk.files : SizeOf(exp.files[k]) = SizeOf(disk.files[k])
    BY AccountsAlike, SizesAlike
  <2> QED
    BY <1>1, <1>2, <2>1 DEF FileSet, ExpFiles
<1>4. /\ \A c \in Contents : \A k \in True(c) : Id(r, k) \in Ids(r) /\ PathSet(r, Id(r, k)) = True(c)
      /\ \A i \in Ids(r) : \E c \in Contents : PathSet(r, i) = True(c)
      /\ \A i \in Ids(r) : i \in DOMAIN r.groups /\ r.groups[i].drives = Proven(PathSet(r, i))
  BY <1>1, GroupsOf
<1>5. Ids(truth) = Contents /\ \A c \in Contents : PathSet(truth, c) = True(c)
  BY GroupsOfTruth
<1>6. \A c \in Contents : True(c) # {}
  BY TrueOnes
<1>7. Alike(r) = Alike(truth)
  <2>1. Alike(r) = {True(c) : c \in Contents}
    BY <1>4, <1>6 DEF Alike
  <2>2. Alike(truth) = {True(c) : c \in Contents}
    BY <1>5 DEF Alike
  <2> QED
    BY <2>1, <2>2
<1>8. ScarceSets(r) \ {{}} = ScarceSets(truth)
  <2>1. Scarce \subseteq Contents /\ truth.scarce = Scarce
        /\ truth.scarceFiles = (IF MinCopies > 1 THEN TrueSingles ELSE {})
    BY DEF Scarce, TruthStands
  <2>2. {PathSet(truth, i) : i \in truth.scarce} = {True(c) : c \in Scarce}
    BY <1>5, <2>1
  <2>3. {{k} : k \in truth.scarceFiles} = (IF MinCopies > 1 THEN {{k} : k \in TrueSingles} ELSE {})
    BY <2>1
  <2>4. ScarceSets(truth) = expect.scarce
    BY <2>2, <2>3 DEF ScarceSets, ExpectStands
  <2> QED
    BY <1>1, <2>4 DEF UnderProtected
<1>9. WasteSets(r) = WasteSets(truth)
  <2>1. Wasteful \subseteq Contents /\ DOMAIN truth.waste = Wasteful
    BY DEF Wasteful, TrueWaste, TruthStands
  <2>2. WasteSets(truth) = {True(c) : c \in Wasteful}
    BY <1>5, <1>6, <2>1 DEF WasteSets
  <2> QED
    BY <1>1, <2>2 DEF Reclaimed, ExpectStands
<1>10. DOMAIN r.incidents = hurt.corrupted /\ hurt.edited \subseteq r.modified
  BY <1>1 DEF CorruptionFound, NoFalseAlarm, EditsAreEdits
<1>11. r.headline = truth.headline /\ \A k \in hurt.corrupted : r.incidents[k] = truth.incidents[k]
  BY <1>1, <1>10 DEF Headline, HoldersTold, CountsAgree
<1>12. r.checked >= Cardinality(Small(disk.files, Truly))
  <2>1. r.checked >= expect.floor /\ r.checked \in Nat
    BY <1>1 DEF NoFalseAlarm
  <2> QED
    BY <2>1 DEF CountsAgree
<1> QED
  BY <1>2, <1>3, <1>4, <1>7, <1>8, <1>9, <1>10, <1>11, <1>12 DEF Claims

-----------------------------------------------------------------------------
(* A faultless report, test by test. *)
(* What it and the oracle's account say of a file. *)
LEMMA TruthTells ==
    ASSUME JudgeInv, mistakes >= 0
    PROVE  /\ DOMAIN truth.live = ExpFiles /\ ExpFiles = DOMAIN disk.files /\ Truly \subseteq ExpFiles
           /\ \A k \in ExpFiles : /\ truth.live[k].size = SizeOf(disk.files[k])
                                  /\ Id(truth, k) = (IF k \in Truly THEN disk.files[k].content ELSE NoId)
                                  /\ SizeOf(exp.files[k]) = SizeOf(disk.files[k])
                                  /\ exp.files[k].content = disk.files[k].content
                                  /\ exp.files[k].unreadable = disk.files[k].unreadable
           /\ \A k \in Truly : disk.files[k].content # NoId
<1>1. DOMAIN truth.live = DOMAIN disk.files
      /\ \A k \in DOMAIN disk.files :
            /\ truth.live[k].size = SizeOf(disk.files[k])
            /\ truth.live[k].id = (IF k \in Truly THEN disk.files[k].content ELSE NoId)
  BY DEF JudgeInv, TruthStands
<1>2. SameFiles(exp.files, disk.files)
  BY AccountsAlike DEF JudgeInv
<1>3. ExpFiles = DOMAIN disk.files
  BY <1>2 DEF ExpFiles, SameFiles
<1>4. \A k \in DOMAIN disk.files : /\ SizeOf(exp.files[k]) = SizeOf(disk.files[k])
                                   /\ exp.files[k].content = disk.files[k].content
                                   /\ exp.files[k].unreadable = disk.files[k].unreadable
  BY <1>2, SizesAlike DEF SameFiles, Describes
<1>5. \A k \in Truly : k \in DOMAIN disk.files /\ disk.files[k].content # NoId
  BY TrueOnes DEF JudgeInv
<1> QED
  BY <1>1, <1>3, <1>4, <1>5 DEF Id

LEMMA TruthListsFiles ==
    ASSUME JudgeInv, mistakes >= 0
    PROVE  /\ FileSet(truth) /\ LinksReported(truth) /\ NothingExcluded(truth) /\ NoneThroughLinks(truth)
           /\ Folders(truth) /\ Tombstoned(truth)
<1>1. /\ exp.dirs = disk.dirs /\ exp.vanished = DOMAIN Files \ DOMAIN disk.files
      /\ exp.vanishedDirs = base.dirs \ disk.dirs
  BY DEF JudgeInv, OracleInv, OracleAgrees
<1>2. /\ truth.vanished = DOMAIN Files \ DOMAIN disk.files
      /\ truth.dirs = disk.dirs /\ truth.vanishedDirs = base.dirs \ disk.dirs
  BY DEF JudgeInv, TruthStands
<1>3. \A k \in DOMAIN disk.files \cup disk.dirs : Unbarred(k)
  BY DEF JudgeInv, PlanStands, NothingBarred
<1>4. FileSet(truth) /\ Folders(truth) /\ Tombstoned(truth)
  BY <1>1, <1>2, TruthTells DEF FileSet, Folders, Tombstoned
<1>5. LinksReported(truth)
  BY DEF LinksReported, JudgeInv, CountsAgree
<1>6. DOMAIN truth.live \cup truth.dirs = DOMAIN disk.files \cup disk.dirs
  BY <1>2, TruthTells
<1>7. NothingExcluded(truth)
  BY <1>3, <1>6 DEF NothingExcluded, Unbarred, Barred, JudgeInv, CountsAgree
<1>8. NoneThroughLinks(truth)
  BY <1>3, <1>6 DEF NoneThroughLinks, Unbarred, Barred
<1> QED
  BY <1>4, <1>5, <1>7, <1>8

LEMMA TruthFollowsSteps ==
    ASSUME JudgeInv, mistakes >= 0
    PROVE  ModifiedReidentified(truth) /\ Recognised(truth)
<1>0. base \in Baselines /\ StepsSeen /\ expect.identified = Truly
      /\ truth.vanished = DOMAIN Files \ DOMAIN disk.files
  BY DEF JudgeInv, OracleInv, OracleShapes, PlanStands, TruthStands, ExpectStands
<1>1. ModifiedReidentified(truth)
  <2> SUFFICES ASSUME NEW i \in DOMAIN plan, plan[i].kind = "modify",
                      NEW j \in ExpFiles \ {plan[i].to}, exp.files[j].content = Files[plan[i].to].content,
                      Id(truth, j) # NoId, Id(truth, plan[i].to) = Id(truth, j)
               PROVE  FALSE
    BY DEF ModifiedReidentified
  <2> PICK k : k = plan[i].to
    OBVIOUS
  <2>1. k \in DOMAIN Files /\ (k \in DOMAIN disk.files => disk.files[k].content \in Fresh)
    BY <1>0 DEF StepsSeen
  <2>2. Files[k].content \notin Fresh
    BY <1>0, <2>1, JudgeAssumption DEF Files
  <2>3. Id(truth, j) = Files[k].content
    BY TruthTells
  <2>4. k \in ExpFiles
    BY TruthTells DEF Id
  <2>5. Id(truth, k) \in Fresh \cup {NoId}
    BY <2>1, <2>4, TruthTells
  <2> QED
    BY <2>2, <2>3, <2>5
<1>2. Recognised(truth)
  <2> SUFFICES ASSUME NEW i \in DOMAIN plan, plan[i].kind = "move"
               PROVE  LET to == plan[i].to
                          siblings == {k \in expect.identified \ {to} : exp.files[k].content = exp.files[to].content}
                      IN  /\ to \in DOMAIN truth.live /\ plan[i].from \in truth.vanished
                          /\ to \in expect.identified =>
                               Id(truth, to) # NoId
                               /\ (siblings = {} \/ {Id(truth, k) : k \in siblings} = {Id(truth, to)})
    BY DEF Recognised
  <2> PICK to : to = plan[i].to
    OBVIOUS
  <2> PICK siblings : siblings = {k \in Truly \ {to} : exp.files[k].content = exp.files[to].content}
    OBVIOUS
  <2>1. to \in ExpFiles /\ plan[i].from \in truth.vanished
    BY <1>0, TruthTells DEF StepsSeen
  <2>2. to \in Truly => Id(truth, to) = disk.files[to].content /\ Id(truth, to) # NoId
    BY <2>1, TruthTells
  <2>3. to \in Truly => \A k \in siblings : Id(truth, k) = Id(truth, to)
    BY <2>1, <2>2, TruthTells
  <2>4. to \in Truly => siblings = {} \/ {Id(truth, k) : k \in siblings} = {Id(truth, to)}
    BY <2>3
  <2> QED
    BY <1>0, <2>1, <2>2, <2>4, TruthTells
<1> QED
  BY <1>1, <1>2

LEMMA TruthIdentifies ==
    ASSUME JudgeInv, mistakes >= 0
    PROVE  /\ OneIdentity(truth) /\ NoneMerged(truth) /\ IdentifiedExactly(truth)
           /\ \A c \in Contents : HasGroup(truth, True(c)) /\ GroupOf(truth, True(c)) = truth.groups[c]
<1>1. /\ expect.identified = Truly /\ expect.groups = {True(c) : c \in Contents}
      /\ DOMAIN truth.groups = Contents
  BY DEF JudgeInv, TruthStands, ExpectStands
<1>2. \A c \in Contents : c # NoId /\ True(c) # {} /\ True(c) \subseteq Truly
  BY TrueOnes DEF JudgeInv
<1>3. \A c \in Contents : \A k \in True(c) : Id(truth, k) = c /\ k \in ExpFiles /\ exp.files[k].content = c
  BY <1>2, TruthTells DEF True
<1>4. \A c \in Contents : {Id(truth, k) : k \in True(c)} = {c}
  BY <1>2, <1>3
<1>5. OneIdentity(truth)
  <2> SUFFICES ASSUME NEW c \in Contents
               PROVE  Cardinality({Id(truth, k) : k \in True(c)}) = 1 /\ \A k \in True(c) : Id(truth, k) # NoId
    BY <1>1, Zenon DEF OneIdentity
  <2>1. Cardinality({c}) = 1
    BY FS_Singleton
  <2> QED
    BY <1>2, <1>3, <1>4, <2>1, Zenon
<1>6. NoneMerged(truth)
  <2> SUFFICES ASSUME NEW i \in Ids(truth)
               PROVE  Cardinality({exp.files[k].content : k \in PathSet(truth, i) \cap ExpFiles}) <= 1
    BY DEF NoneMerged
  <2>1. i \in Contents /\ PathSet(truth, i) = True(i)
    BY GroupsOfTruth
  <2>2. {exp.files[k].content : k \in PathSet(truth, i) \cap ExpFiles} = {i}
    BY <1>2, <1>3, <2>1
  <2>3. Cardinality({i}) = 1
    BY FS_Singleton
  <2>4. Cardinality({exp.files[k].content : k \in PathSet(truth, i) \cap ExpFiles}) = 1
    BY <2>2, <2>3, Zenon
  <2> HIDE DEF ExpFiles
  <2> QED
    BY <2>4
<1>7. IdentifiedExactly(truth)
  BY <1>1, TruthTells DEF IdentifiedExactly
<1>8. ASSUME NEW c \in Contents
      PROVE  HasGroup(truth, True(c)) /\ GroupOf(truth, True(c)) = truth.groups[c]
  <2>1. HasGroup(truth, True(c))
    <3>1. Cardinality({c}) = 1
      BY FS_Singleton
    <3>2. NoId \notin {c} /\ \A i \in {c} : PathSet(truth, i) = True(c) /\ i \in DOMAIN truth.groups
      BY <1>1, <1>2, GroupsOfTruth
    <3> QED
      BY <1>4, <3>1, <3>2, Zenon DEF HasGroup
  <2> PICK k : k = CHOOSE j \in True(c) : TRUE
    OBVIOUS
  <2>2. k \in True(c)
    BY <1>2
  <2> QED
    BY <1>3, <2>1, <2>2 DEF GroupOf
<1> QED
  BY <1>5, <1>6, <1>7, <1>8

LEMMA TruthCounts ==
    ASSUME JudgeInv, mistakes >= 0
    PROVE  /\ CopiesCounted(truth) /\ UnderProtected(truth) /\ Reclaimed(truth)
           /\ ByDevice(truth) /\ Headline(truth)
<1>1. /\ expect.groups = {True(c) : c \in Contents}
      /\ \A c \in Contents : expect.proven[True(c)] = Proven(True(c))
      /\ expect.scarce = {True(c) : c \in Scarce} \cup (IF MinCopies > 1 THEN {{k} : k \in TrueSingles} ELSE {})
      /\ DOMAIN expect.waste = {True(c) : c \in Wasteful}
      /\ \A c \in Wasteful : expect.waste[True(c)] = Reclaimable(disk.files, True(c))
  BY DEF JudgeInv, ExpectStands
<1>2. /\ \A c \in Contents : /\ truth.groups[c].drives = Proven(True(c))
                             /\ truth.groups[c].possible = Possible(True(c))
                             /\ truth.groups[c].physical = Physical(disk.files, True(c))
      /\ truth.scarce = Scarce /\ truth.scarceFiles = (IF MinCopies > 1 THEN TrueSingles ELSE {})
  BY DEF JudgeInv, TruthStands
<1>3. DOMAIN truth.waste = Wasteful /\ \A c \in Wasteful : truth.waste[c] = Reclaimable(disk.files, True(c))
  BY DEF JudgeInv, TruthStands, TrueWaste
<1>4. Scarce \subseteq Contents /\ Wasteful \subseteq Contents
  BY DEF Scarce, Wasteful
<1>5. \A c \in Contents : True(c) # {} /\ True(c) \subseteq DOMAIN disk.files /\ PathSet(truth, c) = True(c)
  BY TrueOnes, GroupsOfTruth DEF JudgeInv
<1>6. \A c \in Contents : Physical(exp.files, True(c)) = Physical(disk.files, True(c))
  BY <1>5, PhysicalIsTrue DEF JudgeInv
<1>7. CopiesCounted(truth)
  BY <1>1, <1>2, <1>6, TruthIdentifies DEF CopiesCounted
<1>8. UnderProtected(truth)
  <2>1. {PathSet(truth, i) : i \in truth.scarce} = {True(c) : c \in Scarce}
    BY <1>2, <1>4, <1>5
  <2>2. {{k} : k \in truth.scarceFiles} = (IF MinCopies > 1 THEN {{k} : k \in TrueSingles} ELSE {})
    BY <1>2
  <2>3. ScarceSets(truth) = expect.scarce
    BY <1>1, <2>1, <2>2 DEF ScarceSets
  <2>4. {} \notin expect.scarce
    BY <1>1, <1>4, <1>5
  <2> QED
    BY <2>3, <2>4 DEF UnderProtected
<1>9. WasteSets(truth) = DOMAIN expect.waste
  BY <1>1, <1>3, <1>4, <1>5 DEF WasteSets
<1>10. Reclaimed(truth)
  BY <1>1, <1>3, <1>4, <1>5, <1>9 DEF Reclaimed
<1>11. ByDevice(truth)
  BY <1>1, <1>2, <1>9, TruthIdentifies DEF ByDevice
<1>12. Headline(truth)
  BY DEF Headline, JudgeInv, CountsAgree
<1> QED
  BY <1>7, <1>8, <1>10, <1>11, <1>12

LEMMA TruthPasses ==
    ASSUME JudgeInv, mistakes >= 0
    PROVE  Passes(truth)
<1>1. CorruptionFound(truth) /\ NoFalseAlarm(truth) /\ HoldersTold(truth) /\ EditsAreEdits(truth)
  BY DEF CorruptionFound, NoFalseAlarm, HoldersTold, EditsAreEdits, JudgeInv, TruthStands, CountsAgree,
         PlanStands, HurtApart
<1> QED
  BY <1>1, TruthListsFiles, TruthFollowsSteps, TruthIdentifies, TruthCounts DEF Passes

LEMMA JudgeHolds == JudgeSpec => []JudgeInv
<1>1. OracleInit /\ JudgeInit => JudgeInv
  BY JudgeBegins
<1>2. JudgeInv /\ [(OracleNext /\ UNCHANGED judgeVars) \/ JudgeNext]_<<oracleVars, judgeVars>> => JudgeInv'
  BY JudgeSteps
<1> QED
  BY <1>1, <1>2, PTL DEF JudgeSpec

(* No report that passes every test says of the drives what is not so,     *)
(* whatever the generator planned, however long the plan grew and however  *)
(* many mistakes the tool made, in any part of its report (evaluate.py).   *)
THEOREM NoWrongReportPasses == JudgeSpec => []WrongNeverPasses
<1>1. JudgeInv => WrongNeverPasses
  BY PassedIsSo DEF WrongNeverPasses
<1> QED
  BY <1>1, JudgeHolds, PTL

(* And a report without a mistake passes: together the tests decide        *)
(* between right and wrong, after any plan over any dataset, for any       *)
(* number of drives and of required copies (evaluate.py, oracle.py).       *)
THEOREM TestsDecide == JudgeSpec => []JudgeDecides
<1>1. JudgeInv => WrongNeverPasses /\ RightAlwaysPasses
  BY PassedIsSo, TruthPasses DEF WrongNeverPasses, RightAlwaysPasses
<1> QED
  BY <1>1, JudgeHolds, PTL DEF JudgeDecides
================================================================================
