---------------------------- MODULE EventDispatch ----------------------------
(***************************************************************************)
(* EventDispatcher, TaskController and the event half of js_panel_window.  *)
(*                                                                         *)
(* Any thread may queue a task for a panel window; only the main thread    *)
(* runs tasks.  A task is run when the window receives a run_next_event    *)
(* message, and the dispatcher keeps at most one such message in flight    *)
(* per window: the flag nextEventMsgStatusMap_ ("waiting" here) says that  *)
(* no message is in flight.  Scripts run nested message loops (dialogs,    *)
(* menus, ActiveX), so the main thread is a stack of frames and every      *)
(* message may arrive on top of a running task.                            *)
(*                                                                         *)
(* taskControllerMapMutex_ is held for the whole of a Put..., so the put   *)
(* in progress is one record and the mutex is free iff put = NoPut.  The   *)
(* putting worker has no other state, so one "worker" stands for any       *)
(* number of them.                                                         *)
(***************************************************************************)
EXTENDS Integers, Sequences, FiniteSets

CONSTANTS
    Window,     \* HWNDs of the panels
    NoWindow,   \* stands for no panel window
    Priority,   \* the values of EventPriority in use
    MaxTasks,   \* bound: tasks ever queued
    MaxDepth,   \* bound: nested frames on the main thread
    MaxEnv      \* bound: sync messages, stalled timers, dialogs, notifications

kNormal == 0
kInput == 1
kRedraw == 2
kResize == 3
kControl == 4

ASSUME WindowAssumption == NoWindow \notin Window
ASSUME PriorityAssumption == Priority \subseteq kNormal..kControl
ASSUME BoundAssumption == MaxTasks \in Nat /\ MaxDepth \in Nat /\ MaxEnv \in Nat

VARIABLES
    life,       \* Window -> "absent", "shown" (in taskControllerMap_) or "destroyed"
    tasks,      \* Window -> TaskController::tasks_
    waiting,    \* Window -> nextEventMsgStatusMap_
    posted,     \* Window -> run_next_event messages in the window's queue
    nested,     \* Window -> js_panel_window::eventNestedCounter_
    taskNum,    \* g_currentTaskNumber: the number of the last task made
    put,        \* the Put... call that holds taskControllerMapMutex_
    frames,     \* call stack of the main thread, the innermost frame last
    served,     \* history: Window -> tasks that were run
    env         \* bound: environment events so far

vars == <<life, tasks, waiting, posted, nested, taskNum, put, frames, served, env>>

Task == [num : Nat, prio : Priority]

\* A put in progress: windows still to do, the window whose task was added and
\* for which the next event is about to be requested, and the event's priority.
Put == [by : {"main", "worker"}, todo : SUBSET Window,
        at : Window \cup {NoWindow}, prio : Priority]
NoPut == [by |-> "nobody"]

\* received: run_next_event was fetched;         start: OnProcessingEventStart done
\* fetch:    ProcessNextEvent has the controller; run: a task or message handler runs
\* finish:   OnProcessingEventFinish begins;     jobs: RunJobs drains the promise jobs
\* request:  RequestNextEvent is about to lock;  modal: a dialog's own message loop
FramePc == {"received", "start", "fetch", "run", "finish", "jobs", "request", "modal"}

\* task: the numbers (none or one) of the queued task that the frame runs.
\* toNotify: windows that NotifyOthers still has to send to.
Frame == [win : Window \cup {NoWindow}, pc : FramePc, task : SUBSET Nat,
          toNotify : SUBSET Window]

NewFrame(w, pc) == [win |-> w, pc |-> pc, task |-> {}, toNotify |-> {}]

------------------------------------------------------------------------------
(* TaskController *)

\* Task::PriorityCompare: the order of tasks_.
Precedes(a, b) == a.prio > b.prio \/ (a.prio = b.prio /\ a.num < b.num)

SupersededNext(ts, new) ==
    {t \in ts : /\ new.prio = kResize /\ t.prio = kResize
                /\ Precedes(new, t)
                /\ \A u \in ts : ~(Precedes(new, u) /\ Precedes(u, t))}

\* The task that AddTask drops: a resize just before the new resize.
Superseded(ts, new) ==
    {t \in ts : /\ new.prio = kResize /\ t.prio = kResize
                /\ Precedes(t, new)
                /\ \A u \in ts : ~(Precedes(t, u) /\ Precedes(u, new))}

AddTask(ts, new) == (ts \ Superseded(ts, new)) \cup {new}

IsNextTaskAnyAge(ts, t) == t \in ts /\ \A u \in ts : t.prio >= u.prio

\* The task that ExecuteNextTask takes: the first of tasks_.
IsNextTask(ts, t) == t \in ts /\ \A u \in ts \ {t} : Precedes(t, u)

------------------------------------------------------------------------------
(* The main thread's stack *)

Depth == Len(frames)
Top == frames[Depth]

TopIs(pc) == frames # <<>> /\ Top.pc = pc
MoveTop(pc) == frames' = [frames EXCEPT ![Depth].pc = pc]
Push(f) == frames' = Append(frames, f)
Pop == frames' = SubSeq(frames, 1, Depth - 1)

MutexFree == put = NoPut

\* The main thread can run code of its own: it is not inside a Put.
MainFree == put = NoPut \/ put.by = "worker"

\* The innermost frame runs arbitrary code (a script, a dialog, foobar2000).
InUserCode ==
    /\ MainFree
    /\ frames # <<>> => Top.pc \in {"run", "jobs", "modal"} /\ Top.toNotify = {}

\* ... and that code pumps messages or is called back.
CanPump == InUserCode /\ Depth < MaxDepth

IsModalBlocked == \E i \in DOMAIN frames : frames[i].pc = "modal"

AreJobsInProgress == \E i \in DOMAIN frames : frames[i].pc = "jobs"

------------------------------------------------------------------------------
(* Windows *)

Init ==
    /\ life = [w \in Window |-> "absent"]
    /\ tasks = [w \in Window |-> {}]
    /\ waiting = [w \in Window |-> TRUE]
    /\ posted = [w \in Window |-> 0]
    /\ nested = [w \in Window |-> 0]
    /\ taskNum = 0
    /\ put = NoPut
    /\ frames = <<>>
    /\ served = [w \in Window |-> {}]
    /\ env = 0

\* OnCreate adds the window; the script that it loads is code of the frame
\* that created the window.
AddWindow(w) ==
    /\ InUserCode /\ MutexFree
    /\ life[w] = "absent"
    /\ life' = [life EXCEPT ![w] = "shown"]
    /\ waiting' = [waiting EXCEPT ![w] = TRUE]
    /\ UNCHANGED <<tasks, posted, nested, taskNum, put, frames, served, env>>

\* RemoveWindow locks the map.
RemoveGuard == InUserCode /\ MutexFree

\* OnDestroy, from RemoveWindow on: on_script_unload, which precedes it, is
\* code of the frame that destroys the window.  Windows drops the messages
\* posted to a destroyed window.
RemoveWindow(w) ==
    /\ RemoveGuard
    /\ life[w] = "shown"
    /\ life' = [life EXCEPT ![w] = "destroyed"]
    /\ tasks' = [tasks EXCEPT ![w] = {}]
    /\ posted' = [posted EXCEPT ![w] = 0]
    /\ waiting' = [waiting EXCEPT ![w] = TRUE]
    /\ UNCHANGED <<nested, taskNum, put, frames, served, env>>

Shown == {w \in Window : life[w] = "shown"}

------------------------------------------------------------------------------
(* Queueing *)

\* PutRunnable and PutEvent (ws = {w}), PutEventToAll (every window) and
\* PutEventToOthers (every window but one).  A window that is not in the map
\* is skipped.
BeginPut(by, ws, prio) ==
    /\ MutexFree /\ ws # {}
    /\ by = "main" => InUserCode
    /\ taskNum + Cardinality(ws) <= MaxTasks
    /\ put' = [by |-> by, todo |-> ws, at |-> NoWindow, prio |-> prio]
    /\ UNCHANGED <<life, tasks, waiting, posted, nested, taskNum, frames, served, env>>

PutTargets == {{w} : w \in Shown} \cup {Shown} \cup {Shown \ {w} : w \in Window}

\* AddRunnable, under tasksMutex_; the task takes its number when it is made.
PutAdd(w) ==
    /\ put # NoPut
    /\ put.at = NoWindow /\ w \in put.todo
    /\ taskNum' = taskNum + 1
    /\ tasks' = [tasks EXCEPT ![w] = AddTask(@, [num |-> taskNum + 1, prio |-> put.prio])]
    /\ put' = [put EXCEPT !.todo = @ \ {w}, !.at = w]
    /\ UNCHANGED <<life, waiting, posted, nested, frames, served, env>>

\* RequestNextEventImpl: ask for one message unless one is in flight.
RequestNextEventImpl(w) ==
    IF tasks[w] # {} /\ waiting[w]
        THEN /\ waiting' = [waiting EXCEPT ![w] = FALSE]
             /\ posted' = [posted EXCEPT ![w] = @ + 1]
        ELSE UNCHANGED <<waiting, posted>>

PutRequest ==
    /\ put # NoPut
    /\ put.at # NoWindow
    /\ RequestNextEventImpl(put.at)
    /\ put' = IF put.todo = {} THEN NoPut ELSE [put EXCEPT !.at = NoWindow]
    /\ UNCHANGED <<life, tasks, nested, taskNum, frames, served, env>>

------------------------------------------------------------------------------
(* js_panel_window: a run_next_event message *)

OnProcessingEventStart(w) == nested' = [nested EXCEPT ![w] = @ + 1]

\* A message loop fetches run_next_event and calls OnMessage.
Receive(w) ==
    /\ CanPump
    /\ posted[w] > 0
    /\ posted' = [posted EXCEPT ![w] = @ - 1]
    /\ Push(NewFrame(w, "received"))
    /\ UNCHANGED <<life, tasks, waiting, nested, taskNum, put, served, env>>

\* OnRequestEventMessageReceived, then OnProcessingEventStart.
OnRequestEventMessageReceived ==
    /\ TopIs("received") /\ MutexFree
    /\ waiting' = [waiting EXCEPT ![Top.win] = TRUE]
    /\ OnProcessingEventStart(Top.win)
    /\ MoveTop("start")
    /\ UNCHANGED <<life, tasks, posted, taskNum, put, served, env>>

\* GetStalledMessage found the repaint timer: the frame runs the paint handler
\* instead of a task.
ProcessStalledMessage ==
    /\ TopIs("start") /\ MainFree
    /\ env < MaxEnv
    /\ env' = env + 1
    /\ MoveTop("run")
    /\ UNCHANGED <<life, tasks, waiting, posted, nested, taskNum, put, served>>

MayAlwaysRunTask(w) == w \in Window

\* ProcessEvent's test: a task may run on top of another one of its panel only
\* when a modal dialog is open.
MayRunTask(w) == nested[w] = 1 \/ IsModalBlocked

\* ProcessEvent and the part of ProcessNextEvent under the map's mutex.
ProcessNextEvent ==
    /\ TopIs("start") /\ MutexFree
    /\ MoveTop(IF MayRunTask(Top.win) THEN "fetch" ELSE "finish")
    /\ UNCHANGED <<life, tasks, waiting, posted, nested, taskNum, put, served, env>>

\* ExecuteNextTask, under tasksMutex_ only, up to the call of Run.
ExecuteNextTask ==
    /\ TopIs("fetch") /\ MainFree
    /\ \/ /\ tasks[Top.win] = {}
          /\ MoveTop("finish")
          /\ UNCHANGED <<tasks, served>>
       \/ \E t \in tasks[Top.win] :
            /\ IsNextTask(tasks[Top.win], t)
            /\ tasks' = [tasks EXCEPT ![Top.win] = @ \ {t}]
            /\ served' = [served EXCEPT ![Top.win] = @ \cup {t}]
            /\ frames' = [frames EXCEPT ![Depth].pc = "run", ![Depth].task = {t.num}]
    /\ UNCHANGED <<life, waiting, posted, nested, taskNum, put, env>>

\* The task or the message handler returns.
RunEnds ==
    /\ TopIs("run") /\ InUserCode
    /\ MoveTop("finish")
    /\ UNCHANGED <<life, tasks, waiting, posted, nested, taskNum, put, served, env>>

RequestUnlessModal(n) == n = 0 /\ ~IsModalBlocked
RequestInModal(n) == n >= 0 /\ IsModalBlocked

\* OnProcessingEventFinish asks for the next event when the panel's outermost
\* event ends, and after every event while a dialog is open.
MustRequest(n) == n = 0 \/ IsModalBlocked

\* OnProcessingEventFinish: the outermost event of a panel drains the promise
\* jobs of the engine, unless that is in progress already.
OnProcessingEventFinish ==
    /\ TopIs("finish") /\ MainFree
    /\ nested' = [nested EXCEPT ![Top.win] = @ - 1]
    /\ IF nested'[Top.win] = 0 /\ ~AreJobsInProgress THEN MoveTop("jobs")
       ELSE IF MustRequest(nested'[Top.win]) THEN MoveTop("request")
       ELSE Pop
    /\ UNCHANGED <<life, tasks, waiting, posted, taskNum, put, served, env>>

\* MaybeRunJobs returns: the engine's queue of jobs is empty.
RunJobsEnds ==
    /\ TopIs("jobs") /\ InUserCode
    /\ IF MustRequest(nested[Top.win]) THEN MoveTop("request") ELSE Pop
    /\ UNCHANGED <<life, tasks, waiting, posted, nested, taskNum, put, served, env>>

RequestNextEvent ==
    /\ TopIs("request") /\ MutexFree
    /\ IF life[Top.win] = "shown" THEN RequestNextEventImpl(Top.win)
                                  ELSE UNCHANGED <<waiting, posted>>
    /\ Pop
    /\ UNCHANGED <<life, tasks, nested, taskNum, put, served, env>>

------------------------------------------------------------------------------
(* js_panel_window: synchronous messages, dialogs, NotifyOthers *)

\* ProcessEventManually: WM_PAINT and WM_SIZE run their handler at once.
ProcessEventManually(w) ==
    /\ CanPump /\ env < MaxEnv
    /\ life[w] = "shown"
    /\ OnProcessingEventStart(w)
    /\ Push(NewFrame(w, "run"))
    /\ env' = env + 1
    /\ UNCHANGED <<life, tasks, waiting, posted, taskNum, put, served>>

\* A modal dialog or a popup menu: a modal scope and a message loop of its own.
OpenModal ==
    /\ CanPump /\ env < MaxEnv
    /\ Push(NewFrame(NoWindow, "modal"))
    /\ env' = env + 1
    /\ UNCHANGED <<life, tasks, waiting, posted, nested, taskNum, put, served>>

CloseModal ==
    /\ TopIs("modal") /\ InUserCode
    /\ Pop
    /\ UNCHANGED <<life, tasks, waiting, posted, nested, taskNum, put, served, env>>

\* NotifyOthers, called by the script of the innermost frame: first collect the
\* other windows under the mutex, ...
NotifyOthers ==
    /\ InUserCode /\ MutexFree /\ CanPump /\ env < MaxEnv
    /\ TopIs("run") \/ TopIs("jobs")
    /\ frames' = [frames EXCEPT ![Depth].toNotify = Shown \ {Top.win}]
    /\ env' = env + 1
    /\ UNCHANGED <<life, tasks, waiting, posted, nested, taskNum, put, served>>

\* ... then, with the mutex released, send legacy_notify_others to each; the
\* message reaches nobody if the window was destroyed in the meantime.
SendNotify(w) ==
    /\ MainFree /\ frames # <<>> /\ w \in Top.toNotify
    /\ LET rest == [Top EXCEPT !.toNotify = @ \ {w}]
       IN  IF life[w] = "shown"
             THEN /\ frames' = Append([frames EXCEPT ![Depth] = rest], NewFrame(w, "run"))
                  /\ OnProcessingEventStart(w)
             ELSE /\ frames' = [frames EXCEPT ![Depth] = rest]
                  /\ UNCHANGED nested
    /\ UNCHANGED <<life, tasks, waiting, posted, taskNum, put, served, env>>

------------------------------------------------------------------------------
(* Specification *)

BeginSomePut == \E by \in {"main", "worker"}, ws \in PutTargets, p \in Priority : BeginPut(by, ws, p)

PutStep == PutRequest \/ \E w \in Window : PutAdd(w)

MainStep ==
    \/ \E w \in Window : Receive(w) \/ SendNotify(w)
    \/ OnRequestEventMessageReceived \/ ProcessNextEvent \/ ExecuteNextTask
    \/ RunEnds \/ OnProcessingEventFinish \/ RunJobsEnds \/ RequestNextEvent
    \/ CloseModal

Environment ==
    \/ \E w \in Window : AddWindow(w) \/ RemoveWindow(w) \/ ProcessEventManually(w)
    \/ BeginSomePut \/ ProcessStalledMessage \/ OpenModal \/ NotifyOthers

Next == MainStep \/ PutStep \/ Environment

Spec == Init /\ [][Next]_vars

\* The main thread keeps running and so does a thread inside a Put: handlers
\* return and dialogs are closed at last.  Nobody has to queue, paint or open
\* anything.
FairSpec == Spec /\ WF_vars(MainStep) /\ WF_vars(PutStep)

------------------------------------------------------------------------------
(* Properties *)

\* Type invariant of the dispatcher, the panels and the main thread's stack.
TypeOK ==
    /\ life \in [Window -> {"absent", "shown", "destroyed"}]
    /\ tasks \in [Window -> SUBSET Task]
    /\ waiting \in [Window -> BOOLEAN]
    /\ posted \in [Window -> Nat]
    /\ nested \in [Window -> Nat]
    /\ taskNum \in Nat
    /\ put \in Put \cup {NoPut}
    /\ frames \in Seq(Frame)
    /\ served \in [Window -> SUBSET Task]
    /\ env \in Nat

\* The frames of panel w between OnProcessingEventStart and the decrement in
\* OnProcessingEventFinish.
CountedPc == {"start", "fetch", "run", "finish"}
Counted(w) == {i \in DOMAIN frames : frames[i].win = w /\ frames[i].pc \in CountedPc}

\* No lost wake-up: a window with queued tasks has a run_next_event message in
\* its queue, or the put that is in progress is about to request one, or one of
\* its events is being processed (whose OnProcessingEventFinish, or that of an
\* outer event of the same panel, requests the next one).
NoLostWakeup ==
    \A w \in Window : tasks[w] # {} =>
        \/ posted[w] > 0
        \/ put # NoPut /\ put.at = w
        \/ \E i \in DOMAIN frames : frames[i].win = w

\* nextEventMsgStatusMap_ is right about the message queue: waiting exactly if
\* no run_next_event is queued or fetched and not yet acknowledged; and there
\* is never more than one, so a busy panel cannot flood the message loop that
\* also carries WM_PAINT and WM_TIMER.
WaitingIsAccurate ==
    \A w \in Shown :
        LET inFlight == posted[w] + (IF TopIs("received") /\ Top.win = w THEN 1 ELSE 0)
        IN  inFlight = (IF waiting[w] THEN 0 ELSE 1)

\* The deduplication in AddTask, which looks at one neighbour only, keeps at
\* most one resize queued per panel.
ResizeCoalesced ==
    \A w \in Window : \A s, t \in tasks[w] :
        s.prio = kResize /\ t.prio = kResize => s = t

\* Tasks of one priority run in the order in which they were queued: no queued
\* task is older than one of the same priority that was run.
ServedInOrder ==
    \A w \in Window : \A s \in served[w], t \in tasks[w] :
        s.prio = t.prio => s.num < t.num

\* Run to completion: a queued task of a panel starts on top of an unfinished
\* one of the same panel only inside a modal dialog opened further down.
RunToCompletion ==
    \A i, j \in DOMAIN frames :
        (/\ i < j
         /\ frames[i].win = frames[j].win
         /\ frames[i].task # {} /\ frames[j].task # {}
         /\ frames[i].pc = "run") =>
        \E k \in 1..j : frames[k].pc = "modal"

\* "Jobs (e.g. futures) should be drained only with empty JS stack and after the
\* current task (as required by ES)" (OnProcessingEventFinish): promise jobs are
\* not run on top of an unfinished task or handler, of whichever panel.
JobsOnEmptyStack ==
    \A i, j \in DOMAIN frames :
        i < j /\ frames[i].pc = "run" => frames[j].pc # "jobs"

\* eventNestedCounter_ of a panel is the number of its unfinished frames, also
\* when frames of several panels are interleaved and windows are destroyed
\* under them; it is what makes the last of them request the next event.
NestingIsCounted == \A w \in Window : nested[w] = Cardinality(Counted(w))

\* A window that is not in the map has no tasks and no message: a put never
\* revives a window that was removed while the put was running.
NothingForGoneWindows ==
    \A w \in Window \ Shown : tasks[w] = {} /\ posted[w] = 0

\* What a put leaves in the queues, on whatever thread and at whatever moment it
\* ran: one resize at most, and nothing for a window that is gone.
PutsAreClean == ResizeCoalesced /\ NothingForGoneWindows

\* The dispatcher, its task controllers and the panels' event processing
\* together implement the mailbox of module Mailbox: the message protocol, the
\* nesting and the locks are invisible, a new resize replaces every queued one,
\* and a window is handed its most urgent, then oldest task.
Mailboxes == INSTANCE Mailbox WITH open <- Shown, box <- tasks, ticket <- taskNum
MailboxSpec == Mailboxes!Spec

\* Every queue drains: each task is run at last (or superseded, or dropped with
\* its window) although messages are dropped by nested loops.
QueuesDrain == \A w \in Window : tasks[w] # {} ~> tasks[w] = {}

=============================================================================
