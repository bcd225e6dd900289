------------------------------- MODULE Gateway --------------------------------
(***************************************************************************)
(* The read-only gateway (core/fsio.py, open_read) and the pools of        *)
(* threads that read through it (core/identity/readers.py, read_all).      *)
(*                                                                         *)
(* A path is checked, opened, and the handle checked again, in three calls *)
(* between which anybody may put another object at the path, or turn a     *)
(* file into a cloud placeholder.  Each drive has its own queue and        *)
(* readers.  The caller takes what is done, answer by answer, and may stop *)
(* at any of them.                                                         *)
(***************************************************************************)
EXTENDS Integers, FiniteSets

CONSTANTS
    Paths,          \* 1 .. n, in the order they are given to read_all
    Drive,          \* [Paths -> drives]
    Readers,        \* [drives -> READERS of its media]
    Ahead,          \* AHEAD
    Objects,        \* what may be at a path
    FirstAt,        \* [Paths -> Objects]
    LinkTo,         \* [the objects that are links -> Objects]
    FirstNature,    \* [Objects -> {"plain", "placeholder", "directory", "link"}]
    Id,             \* [Objects -> device and file id, or NoId where there is none]
    NoId,
    Nothing,        \* no object
    MaxSwaps

ASSUME GatewayAssumption ==
    /\ Paths \subseteq Nat
    /\ \A f \in Paths : Readers[Drive[f]] \in Nat \ {0}
    /\ Ahead \in Nat \ {0}
    /\ Nothing \notin Objects
    /\ FirstAt \in [Paths -> Objects]
    /\ DOMAIN LinkTo \subseteq Objects /\ \A o \in DOMAIN LinkTo : LinkTo[o] \in Objects
    /\ FirstNature \in [Objects -> {"plain", "placeholder", "directory", "link"}]
    /\ \A o, p \in Objects : Id[o] = Id[p] /\ Id[o] # NoId => o = p

VARIABLES
    windows,        \* which of the two systems this is
    at,             \* [Paths -> Objects \cup {Nothing}]
    nature,         \* [Objects -> ...]
    read,           \* [Paths -> [stage, seen, handle]]: how far reading it has come
    caller,         \* what read_all does
    batch,          \* the answers the last wait returned that were not yielded
    swaps

gatewayVars == <<windows, at, nature, read, caller, batch, swaps>>

Working == {"stat", "open", "check", "read"}

On(d) == {f \in Paths : Drive[f] = d}
At(stages, d) == {f \in On(d) : read[f].stage \in stages}
To(f, s) == read' = [read EXCEPT ![f].stage = s]

(* What is being done for a drive: given to its pool and not yet yielded. *)
InFlight(d) == At({"submitted", "done"} \cup Working, d)

(* top_up: the next files of the drive's queue, as many as fit. *)
ToppedUp(r, d) ==
    LET waiting == {f \in On(d) : r[f].stage = "queued"}
        flying  == {f \in On(d) : r[f].stage \in {"submitted", "done"} \cup Working}
        room    == Readers[d] * Ahead - Cardinality(flying)
    IN  [f \in Paths |-> IF f \in waiting /\ Cardinality({g \in waiting : g < f}) < room
                           THEN [r[f] EXCEPT !.stage = "submitted"] ELSE r[f]]

-----------------------------------------------------------------------------
(* A reader of the drive is free, and takes the oldest file given to it. *)
StartRead(f) ==
    /\ read[f].stage = "submitted"
    /\ \A g \in At({"submitted"}, Drive[f]) : g >= f
    /\ Cardinality(At(Working, Drive[f])) < Readers[Drive[f]]
    /\ To(f, "stat")
    /\ UNCHANGED <<windows, at, nature, caller, batch, swaps>>

Plain(o) == nature[o] = "plain"

(* The check before the file is opened. *)
Stat(f) ==
    /\ read[f].stage = "stat"
    /\ IF at[f] # Nothing /\ Plain(at[f])
         THEN read' = [read EXCEPT ![f] = [@ EXCEPT !.stage = "open", !.seen = at[f]]]
         ELSE To(f, "done")
    /\ UNCHANGED <<windows, at, nature, caller, batch, swaps>>

(* Windows follows a link and opens no directory; O_NOFOLLOW opens any     *)
(* object but a link.                                                      *)
Opened(f) ==
    IF at[f] = Nothing THEN Nothing
    ELSE IF windows
      THEN LET o == IF at[f] \in DOMAIN LinkTo THEN LinkTo[at[f]] ELSE at[f]
           IN  IF nature[o] = "directory" THEN Nothing ELSE o
      ELSE IF nature[at[f]] = "link" THEN Nothing ELSE at[f]

OpenFd(f) ==
    /\ read[f].stage = "open"
    /\ read' = [read EXCEPT ![f] =
                  IF Opened(f) = Nothing THEN [@ EXCEPT !.stage = "done"]
                  ELSE [@ EXCEPT !.stage = "check", !.handle = Opened(f)]]
    /\ UNCHANGED <<windows, at, nature, caller, batch, swaps>>

(* The check of the handle. *)
HandleAccepted(f) ==
    LET opened == read[f].handle
        seen   == read[f].seen
    IN  /\ Plain(opened)
        /\ Id[opened] = NoId \/ Id[seen] = NoId \/ Id[opened] = Id[seen]

CheckHandle(f) ==
    /\ read[f].stage = "check"
    /\ To(f, IF HandleAccepted(f) THEN "read" ELSE "done")
    /\ UNCHANGED <<windows, at, nature, caller, batch, swaps>>

(* All of the file is read and the handle closed, or reading it fails. *)
ReadBytes(f) ==
    /\ read[f].stage = "read"
    /\ To(f, "done")
    /\ UNCHANGED <<windows, at, nature, caller, batch, swaps>>

-----------------------------------------------------------------------------
(* wait() returns every answer that is there, if there is any. *)
TakeAnswers ==
    /\ caller = "waiting" /\ batch = {}
    /\ \E d \in {Drive[f] : f \in Paths} : At({"done"}, d) # {}
    /\ batch' = {f \in Paths : read[f].stage = "done"}
    /\ UNCHANGED <<windows, at, nature, read, caller, swaps>>

(* An answer is yielded.  The caller asks for the next one, and the drive  *)
(* gets more to read, or it closes the generator: what has not begun is    *)
(* cancelled.                                                              *)
Refilled(r, f) == ToppedUp(r, Drive[f])

Yielded(f) == [read EXCEPT ![f].stage = "yielded"]

Yield(f) ==
    /\ caller = "waiting" /\ f \in batch
    /\ batch' = batch \ {f}
    /\ read' = Refilled(Yielded(f), f)
    /\ UNCHANGED <<windows, at, nature, caller, swaps>>

Close(f) ==
    /\ caller = "waiting" /\ f \in batch
    /\ batch' = {}
    /\ read' = [g \in Paths |-> IF Yielded(f)[g].stage \in {"queued", "submitted"}
                                  THEN [read[g] EXCEPT !.stage = "dropped"] ELSE Yielded(f)[g]]
    /\ caller' = "closing"
    /\ UNCHANGED <<windows, at, nature, swaps>>

(* The pools are shut down, and what is running is waited for.  As a       *)
(* mutant: what is being read is, what is about to be opened is not.       *)
ShutDownReading == \A f \in Paths : read[f].stage \notin {"check", "read"}

ShutDown == \A f \in Paths : read[f].stage \notin Working

Return ==
    /\ \/ caller = "closing"
       \/ caller = "waiting" /\ \A f \in Paths : InFlight(Drive[f]) = {}
    /\ ShutDown
    /\ caller' = "returned"
    /\ UNCHANGED <<windows, at, nature, read, batch, swaps>>

(* Somebody puts another object at a path, or takes away what is there. *)
Swap(f) ==
    /\ swaps < MaxSwaps /\ swaps' = swaps + 1
    /\ \E o \in (Objects \cup {Nothing}) \ {at[f]} : at' = [at EXCEPT ![f] = o]
    /\ UNCHANGED <<windows, nature, read, caller, batch>>

(* The cloud provider frees a file's space, or fetches it. *)
Recall(o) ==
    /\ swaps < MaxSwaps /\ swaps' = swaps + 1
    /\ nature[o] \in {"plain", "placeholder"}
    /\ nature' = [nature EXCEPT ![o] = IF @ = "plain" THEN "placeholder" ELSE "plain"]
    /\ UNCHANGED <<windows, at, read, caller, batch>>

ReaderStep(f) == StartRead(f) \/ Stat(f) \/ OpenFd(f) \/ CheckHandle(f) \/ ReadBytes(f)
CallerStep == TakeAnswers \/ (\E f \in Paths : Yield(f) \/ Close(f)) \/ Return

GatewayInit ==
    /\ windows \in BOOLEAN
    /\ at = FirstAt /\ nature = FirstNature
    /\ caller = "waiting" /\ batch = {} /\ swaps = 0
    /\ LET idle == [f \in Paths |-> [stage |-> "queued", seen |-> Nothing, handle |-> Nothing]]
       IN  read = [f \in Paths |-> ToppedUp(idle, Drive[f])[f]]

GatewayNext ==
    \/ \E f \in Paths : ReaderStep(f) \/ Swap(f)
    \/ CallerStep
    \/ \E o \in Objects : Recall(o)

GatewaySpec == GatewayInit /\ [][GatewayNext]_gatewayVars

-----------------------------------------------------------------------------
GatewayTypeOK ==
    /\ at \in [Paths -> Objects \cup {Nothing}]
    /\ nature \in [Objects -> {"plain", "placeholder", "directory", "link"}]
    /\ read \in [Paths -> [stage : {"queued", "submitted", "done", "yielded", "dropped"} \cup Working,
                           seen : Objects \cup {Nothing}, handle : Objects \cup {Nothing}]]
    /\ caller \in {"waiting", "closing", "returned"} /\ batch \subseteq Paths

(* Bytes are read only from the object that was at the path when it was    *)
(* checked and was a plain file, whatever is put there between the check   *)
(* and the opening, wherever objects have an identity (fsio.py, open_read: *)
(* the handle is closed unread if it is not the file that was checked).    *)
ReadsWhatWasChecked ==
    \A f \in Paths : read[f].stage = "read" /\ NoId \notin {Id[read[f].seen], Id[read[f].handle]}
                        => read[f].handle = read[f].seen

(* Once read_all has returned, by itself or because its caller stopped, no *)
(* file is open, none will be opened, and none was left out that the       *)
(* caller still asked for (readers.py).                                    *)
QuietAfterReturn ==
    caller = "returned" => \A f \in Paths : read[f].stage \in {"done", "yielded", "dropped"}

(* Both: only what was checked is read, and nothing once it is over. *)
ReadsAsAllowed == ReadsWhatWasChecked /\ QuietAfterReturn
=============================================================================
