-------------------------------- MODULE Window --------------------------------
(***************************************************************************)
(* The window and its background work: gui/main_window.py, gui/workers.py, *)
(* gui/session.py, and the two screens that start work of their own        *)
(* (browser.py counts a folder's files, scope.py previews a root).         *)
(*                                                                         *)
(* The UI thread does one thing at a time.  A task is handed to a thread   *)
(* pool first, and its signals are connected to the window after that.     *)
(* What a task reports is queued for the UI thread; a signal with no       *)
(* connection yet is lost.  Each pool thread has a catalog connection of   *)
(* its own, which closing the window closes from the UI thread.            *)
(***************************************************************************)
EXTENDS Integers, Sequences, FiniteSets

CONSTANTS
    PoolThreads,
    Shown,          \* folders the browser can show
    MaxTasks        \* bound on the tasks that are started

VARIABLES
    task,           \* the tasks so far: a sequence
    ui,             \* what the UI thread is doing
    current,        \* _current_task: the long task the window waits for, or 0
    running,        \* TaskRunner._running
    events,         \* slots that wait for the UI thread, oldest first
    countingFor,    \* BrowserScreen._counting_for
    total,          \* the folder whose total the table shows, if any
    connection,     \* [PoolThreads -> its catalog connection]
    timedOut,       \* history: closing did not wait for the tasks
    missed          \* history: tasks that ended before they were connected

windowVars == <<task, ui, current, running, events, countingFor, total,
                connection, timedOut, missed>>

NoFolder == "nothing"
Long == "long"

ASSUME WindowAssumption == {NoFolder, Long} \cap Shown = {} /\ MaxTasks \in Nat

Active(t) == task[t].at \in {"queued", "running"}
LongTasks == {t \in DOMAIN task : task[t].kind = Long}

-----------------------------------------------------------------------------
(* A task is made, kept in _running, and given to the pool. *)
Start(kind) ==
    /\ Len(task) < MaxTasks
    /\ task' = Append(task, [kind |-> kind, at |-> "queued", cancel |-> FALSE,
                             heard |-> FALSE, thread |-> {}])
    /\ running' = running \cup {Len(task) + 1}
    /\ ui' = "connecting"

(* Only one long operation is started at a time. *)
MayStart == current = 0

RunTask ==
    /\ ui = "ready" /\ MayStart
    /\ Start(Long)
    /\ UNCHANGED <<current, events, countingFor, total, connection, timedOut, missed>>

SelectDirectory(f) ==
    /\ ui = "ready"
    /\ Start(f)
    /\ countingFor' = f /\ total' = NoFolder
    /\ UNCHANGED <<current, events, connection, timedOut, missed>>

(* The rest of what started the task. *)
Connect ==
    /\ ui = "connecting"
    /\ LET t == Len(task) IN
       /\ task' = [task EXCEPT ![t].heard = TRUE]
       /\ current' = IF task[t].kind = Long THEN t ELSE current
       /\ missed' = IF Active(t) THEN missed ELSE missed \cup {t}
    /\ ui' = "ready"
    /\ UNCHANGED <<running, events, countingFor, total, connection, timedOut>>

CancelCurrent ==
    /\ ui = "ready" /\ current # 0
    /\ task' = [task EXCEPT ![current].cancel = TRUE]
    /\ UNCHANGED <<ui, current, running, events, countingFor, total, connection, timedOut, missed>>

(* A total that is not of the folder shown is dropped.  As a mutant: it    *)
(* is shown.                                                               *)
ArrivedAnyFolder(f) == total' = f

CountArrived(f) == total' = IF f = countingFor THEN f ELSE total

(* The UI thread takes the oldest slot that waits. *)
Deliver ==
    /\ ui = "ready" /\ events # <<>>
    /\ LET e == Head(events)  kind == task[e.task].kind IN
       CASE e.slot = "release" ->
              running' = running \ {e.task} /\ UNCHANGED <<current, total>>
         [] e.slot = "done" /\ kind = Long ->
              current' = 0 /\ UNCHANGED <<running, total>>
         [] e.slot = "done" /\ kind # Long ->
              CountArrived(kind) /\ UNCHANGED <<running, current>>
    /\ events' = Tail(events)
    /\ UNCHANGED <<task, ui, countingFor, connection, timedOut, missed>>

(* closeEvent: everything in _running is told to stop, the pool is given   *)
(* five seconds, and the connections of all threads are closed.            *)
CloseWindow ==
    /\ ui = "ready"
    /\ task' = [t \in DOMAIN task |-> IF t \in running THEN [task[t] EXCEPT !.cancel = TRUE] ELSE task[t]]
    /\ ui' = "waiting"
    /\ UNCHANGED <<current, running, events, countingFor, total, connection, timedOut, missed>>

(* The wait ends when no task is left, or after its five seconds.          *)
Drained == \A t \in DOMAIN task : ~Active(t)

CloseSession ==
    /\ connection' = [w \in PoolThreads |-> IF connection[w] = "open" THEN "shut" ELSE connection[w]]
    /\ ui' = "closed"
    /\ UNCHANGED <<task, current, running, events, countingFor, total, missed>>

Waited == Drained

WaitEnds == ui = "waiting" /\ Waited /\ CloseSession /\ UNCHANGED timedOut
WaitTimesOut == ui = "waiting" /\ ~Drained /\ CloseSession /\ timedOut' = TRUE

-----------------------------------------------------------------------------
(* The pool: tasks in the order they came, one on each thread.  A thread   *)
(* opens its connection when it first needs one, and after the session was *)
(* closed it opens another.                                                *)
Run(w) ==
    /\ \E t \in DOMAIN task :
       /\ task[t].at = "queued" /\ \A s \in 1 .. t - 1 : task[s].at # "queued"
       /\ \A s \in DOMAIN task : task[s].at = "running" => w \notin task[s].thread
       /\ task' = [task EXCEPT ![t].at = "running", ![t].thread = {w}]
    /\ connection' = [connection EXCEPT ![w] = "open"]
    /\ UNCHANGED <<ui, current, running, events, countingFor, total, timedOut, missed>>

(* The body returns, raises, or meets its flag: Cancelled only if it was   *)
(* cancelled, an error at any time, and nothing but an error once its      *)
(* connection has been closed.  The window hears of every one; the browser *)
(* has connected to `finished' only.                                       *)
CanEnd(t, how) ==
    CASE how = "finished"  -> \A w \in task[t].thread : connection[w] = "open"
      [] how = "cancelled" -> task[t].cancel
      [] how = "failed"    -> TRUE

Slots(t, how) ==
    <<[task |-> t, slot |-> "release"]>> \o
    (IF task[t].heard /\ (task[t].kind = Long \/ how = "finished")
       THEN <<[task |-> t, slot |-> "done"]>> ELSE <<>>)

(* run() reports in the end whatever the body did.  As a mutant: a body    *)
(* that raised is not reported.                                            *)
ReportsResults(t, how) == IF how = "failed" THEN <<>> ELSE Slots(t, how)

Reports(t, how) == Slots(t, how)

End(t) ==
    /\ t \in DOMAIN task /\ task[t].at = "running"
    /\ \E how \in {"finished", "failed", "cancelled"} :
         CanEnd(t, how) /\ events' = events \o Reports(t, how)
    /\ task' = [task EXCEPT ![t].at = "reported", ![t].thread = {}]
    /\ UNCHANGED <<ui, current, running, countingFor, total, connection, timedOut, missed>>

-----------------------------------------------------------------------------
WindowInit ==
    /\ task = <<>> /\ ui = "ready" /\ current = 0 /\ running = {} /\ events = <<>>
    /\ countingFor = NoFolder /\ total = NoFolder
    /\ connection = [w \in PoolThreads |-> "none"]
    /\ timedOut = FALSE /\ missed = {}

UIStep == Connect \/ Deliver \/ WaitEnds \/ WaitTimesOut

WindowNext ==
    \/ UIStep \/ RunTask \/ CancelCurrent \/ CloseWindow
    \/ \E f \in Shown : SelectDirectory(f)
    \/ \E w \in PoolThreads : Run(w)
    \/ \E t \in 1 .. MaxTasks : End(t)

(* The UI thread does what waits for it, a free pool thread takes a task,  *)
(* and a body, which works through finitely many directories or files,     *)
(* ends.                                                                   *)
WindowFairness ==
    /\ WF_windowVars(UIStep)
    /\ \A w \in PoolThreads : WF_windowVars(Run(w))
    /\ \A t \in 1 .. MaxTasks : WF_windowVars(End(t))

WindowSpec == WindowInit /\ [][WindowNext]_windowVars

-----------------------------------------------------------------------------
WindowTypeOK ==
    /\ \A t \in DOMAIN task :
         /\ task[t].at \in {"queued", "running", "reported"}
         /\ task[t].kind \in Shown \cup {Long}
         /\ task[t].thread \subseteq PoolThreads
    /\ ui \in {"ready", "connecting", "waiting", "closed"}
    /\ current \in 0 .. Len(task)
    /\ running \subseteq DOMAIN task
    /\ {countingFor, total} \subseteq Shown \cup {NoFolder}
    /\ connection \in [PoolThreads -> {"none", "open", "shut"}]

(* One long operation runs at a time, so that drives are read one after    *)
(* the other, whichever ends, fails or is cancelled, and however late the  *)
(* window hears of it.                                                     *)
OneLongTask == Cardinality({t \in LongTasks : Active(t)}) <= 1

(* A total shown next to a folder was counted for that folder, in whatever *)
(* order the counts of the folders the user went through arrive.           *)
CaptionMatches == total # NoFolder => total = countingFor

(* The connection of a running task is closed under it only when closing   *)
(* the window gave up waiting for it.                                      *)
OpenWhileRunning ==
    ~timedOut => \A t \in DOMAIN task : \A w \in task[t].thread : connection[w] = "open"

(* Whatever order tasks end and answers arrive in: one long task at a time *)
(* with its connection open, and no total beside the wrong folder.         *)
WindowStandsFirm == OneLongTask /\ OpenWhileRunning /\ CaptionMatches

(* A window that waits for a task is free for another one in the end, or   *)
(* closed, unless the task ended before the window had connected to it.    *)
WindowFrees ==
    \A t \in 1 .. MaxTasks : current = t ~> (current # t \/ t \in missed \/ ui = "closed")

(* What main_window.py:167 says of a long operation: it has a working      *)
(* Cancel.  So the window does not wait for it for ever.                   *)
WindowAlwaysFrees ==
    \A t \in 1 .. MaxTasks : current = t ~> (current # t \/ ui = "closed")
=============================================================================
