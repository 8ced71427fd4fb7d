# A TLA+ model of Spider Monkey Panel

Spider Monkey Panel is a component of the music player foobar2000 that runs
JavaScript (mozjs) in panels of its window. This directory holds TLA+ modules
translated from its source, the TLC configurations that check them on small
instances, and proofs of the main theorems for every value of the constants,
checked by TLAPS. `PROJECT.json` lists the components, the runs, the code lines
behind every definition, the hazards, the disagreements found and the theorems.

Paths below are relative to `src/src/`.

## 1. The system

All JavaScript runs on the main thread of foobar2000, which is also the thread
of every window. Around it are threads of a pool, a timer thread (or the timer
queue of Windows), a watcher thread, and the file system, which outlives the
process. The hard part is what happens between them, and that the main thread
re-enters itself: a script may open a dialog or a menu, call an ActiveX object
or another panel, and any message may then be handled on top of it.

`src/` is mostly vendored code (Scintilla, WTL, WIL, miniz, nlohmann/json) and,
of the component's own part, mostly bindings; the parts below with a protocol of
their own are some five thousand lines, so the share of all lines that the
models cover says little.

| Component | State | Operations | Talks to | Hard | What makes it correct |
|---|---|---|---|---|---|
| Event dispatch: `events/event_dispatcher`, `events/task_controller`, the event half of `panel/js_panel_window`, `panel/modal_blocking_scope` | one priority queue of tasks per window; a flag "no message in flight"; the nesting counter of the panel | AddWindow, RemoveWindow, PutEvent/PutRunnable from any thread, run_next_event, OnProcessingEvent{Start,Finish}, RequestNextEvent | everything that wants to run in a panel | puts race with the main thread; nested loops; windows destroyed under their own tasks | no queue sleeps, at most one message, order, run to completion |
| Script timeouts: `timeout/timeout_manager`, `timeout_executor`, `timeout`, `timer_native` | a list sorted by deadline, marks (firing ids), timeouts put aside during a load, one OS timer | setTimeout/clearTimeout, RunTimeout, Schedule/Cancel, loads and unloads | mailbox of the panel, timer queue of Windows | nested RunTimeout, clearing from callbacks, timers that fire early or after they were cancelled | every timeout fires, not earlier than the allowed slack, never after it was cleared, in order |
| Custom timer thread: `timeout/timer_manager_custom`, `timer_custom` | a heap of holders, a mutex and condition variable, a generation per timer | Start, Cancel, Fire, ThreadMain, StopThread | dispatcher | missed notifications, stale events, two-way pointers | the thread never oversleeps; an event counts once; stop returns |
| Thread pool: `qwr/thread_pool` | queue, threads, count of idle threads | AddTask, ThreadProc, Finalize | image, art and tag tasks | reads without the lock, spurious wake-ups, exit | each task starts once, in order; nobody sleeps while work waits |
| Promise tasks: `js_utils/js_async_task`, `js_image_helpers`, `js_art_helpers`, `js_objects/internal/global_heap_manager` | promises kept by number; registered users; a flag per task | Store/Get/Remove, Register/UnregisterUser, PrepareForGc, InvokeJs, the destructor | pool, dispatcher, collector | destruction on a worker while a script is unloaded; promises of an older script | no use of a dead manager, no lost or leaked promise, unload returns |
| Delayed packages: `config/delayed_package_utils`, `ui/ui_package_manager` | directories: packages, to install, to remove, in use, backups | import, remove, mark, ProcessDelayedPackages on start | file system, user | crashes and failures between renames and removals | a package is never lost; backups are what they are said to be |
| Panel window: `panel/js_panel_window*` | life of the window, members that exist only with a script, paint flags, repaint timer, mouse flags, selection holder | load, reload, fail, unload, destroy, paint, focus, menus, drag and drop | all of the above | each of these in the midst of any other | an open panel has a script or shows its error; nothing of a script outlives it; a repaint is done; the selection follows the focus |
| Container and engine: `js_engine/js_container`, `js_engine` | status of each container, its last global object, registered containers, jobs | Initialize, Finalize, Fail, callbacks, RunJobs, heartbeat, PrepareForExit | monitor, collector | nested callbacks, failure inside them, destruction under them | no call of a script that has not ended its load; the container outlives the calls into it |
| Slow script monitor: `js_engine/js_monitor` | active containers, three ages and two flags of each, the watcher thread with a mutex and condition variable | OnJsActionStart/End, OnInterrupt with its dialog, StartMonitorThread, Stop | engine, container, dialogs | nested actions, a message loop in the interrupt callback, containers destroyed under it | exactly what runs is watched; asked neither early nor never; stop returns |
| Collection policy: `js_engine/js_gc`, `js_internal_global` | counters, level of the collection, realms to delete | MaybeGc, TriggerGc, PerformGc | engine, containers | counters at their limits | memory stays bounded |
| Playlist locks: `fb2k/playlist_lock` | known locks, two properties per playlist | InstallLock, RemoveLock, InitializeLocks, index callbacks | host | one step of several failing, indices that move | lock and property agree |
| COM storage: `com_utils/com_destruction_handler` | objects stored, objects to delete | mark, delete marked, delete all | ActiveX objects | cleaning an object re-enters | each object is cleaned once |
| Drag and drop: `com_objects/track_drop_target` and others | the action of the script, a flag | DragEnter, DragOver, DragLeave, Drop | dispatcher | callbacks of the host in the midst of script calls | the effect is the one the script chose |
| Start and exit: `initquit.cpp` | - | ProcessDelayedPackages and locks at start; engine, dispatcher, pool at exit | all | tasks and workers that are still busy | nothing is used after it is gone |

Callbacks of the host (`callbacks/`), the asynchronous helpers (`2K3/`), the
bindings of scripts (`js_objects/`, `namespaces/`), conversions (`convert/`),
configuration files (`config/panel_config*`), dialogs (`ui/`) and helpers
(`utils/`, `js_utils/`) have no protocol of their own: they end in one event or
one call of the host.

## 2. The modules

| Component | Specification | Abstract | Proofs | For TLC |
|---|---|---|---|---|
| Event dispatch | `EventDispatch` | `Mailbox` | `EventDispatchProofs` | `MCEventDispatch` |
| Script timeouts | `Timeouts` | `Alarms` | `TimeoutsProofs` | `MCTimeouts` |
| Custom timer thread | `TimerThread` | - | `TimerThreadProofs` | `MCTimerThread` |
| Thread pool | `ThreadPool` | `WorkQueue` | `ThreadPoolProofs` | `MCThreadPool` |
| Promise tasks | `HeapUsers` | - | `HeapUsersProofs` | `MCHeapUsers` |
| Delayed packages | `DelayedPackages` | - | `PackagesAndInputProofs` | `MCDelayedPackages` |
| Slow script monitor | `SlowScript` | - | `SlowScriptProofs` | `MCSlowScript` |
| Panel window, container and engine: scripts | `PanelLife` | - | `PanelLifeProofs` | `MCPanelLife` |
| Panel window: paint and focus | `PanelInput` | - | `PackagesAndInputProofs` | `MCPanelInput` |

Convention: a section of code that holds a mutex is one step, unless it takes
another mutex inside or another thread can be seen to wait for it; every access
outside of a lock is a step of its own. A definition named like a mutation of
another (`NotWoken`, `IsAnyIn`, `UnloadedKeepingMenu`, ...) stands before the one
it varies; it is what a plausible bug in that code would be, and shows that the
properties would notice.

### EventDispatch

`tasks`, `waiting` and `life` are `tasks_`, `nextEventMsgStatusMap_` and the
keys of `taskControllerMap_`; `posted` counts the run_next_event messages in the
queue of a window. `put` is the one `Put...` call that holds
`taskControllerMapMutex_`, which is why one worker stands for any number of
them: `BeginPut` takes the mutex, `PutAdd` adds to one controller, `PutRequest`
asks for the message. The main thread is the stack `frames`: a frame goes
through the steps of `OnMessage`, `OnProcessingEventStart`, `ProcessNextEvent`,
the task itself, `OnProcessingEventFinish`, `RunJobs` and `RequestNextEvent`,
and any message of any panel may push another frame on a task, a modal loop or
a message handler. `Mailbox` is what panels may rely on: every window has a box,
tasks come out by priority and then age, a new resize replaces the old one.

### Timeouts

`schedule` is the sorted list of `TimeoutStorage`, `delayed` the timeouts put
aside during a load, `wake` the executor together with its OS timer and the
events in the mailbox of the panel, `frames` the nested calls of `RunTimeout`.
The OS timer may fire before its time, its callback is two steps on another
thread, and `Cancel(false)` leaves a callback in progress behind (`stale`).
The clock is finer than the OS timer: waits are rounded to a `Millisecond`, and a
timeout counts as due when it is no later than `Limit`, the clock plus
`AllowedEarly` (`GetAllowedEarlyFiringTime`, 10 microseconds; both places that use
it do: whether `Schedule` dispatches at once, and up to which deadline a
`RunTimeout` goes). Three abstractions: of a generation we keep whether it is
current; the mailbox is a queue of one priority; and a callback may exceed
`kTimeoutMaxConsecutiveCallbacks`, four *micro*seconds, at any time: `RunTimeout`
may stop after each one.

`Alarms` is what a script may rely on, without lists, marks, executor or OS timer:
an alarm waits, is claimed by a round, rings, and waits again or is over. A round
claims alarms that are due and no later than those it leaves; an alarm rings only
if it was claimed, at most the slack before its time and before a waiting one that
was due earlier; an interval is due again within its period; what is over stays
over.
`Timeouts` implements it under `StageOf`: the alarm of a timeout rings while its
callback runs, is aside in `delayed`, over in neither list, waits without a mark
and is claimed with one.

`JsAsyncTask::InvokeJs` holds the non-recursive `cleanupLock_` of a task while
its callback runs (`js_utils/js_async_task.h:64`), and `PrepareForGlobalGc`
locks it again when a callback makes its own panel unload. What a `std::mutex`
does then is undefined; the model does not unload a script below a callback.

### TimerThread

`timers` is the heap of `TimerHolder`s, each a record with its number; a holder
whose value was reset has no timer. The thread is at `check` (reading
`isTimeToDie_` without the lock), `lock`, `work` (it holds `threadMutex_`, for
several steps) or `asleep`. Start and Cancel are the sequence remove, notify,
set the members, add, notify. An event remembers the generation with which it
was posted. Durations are in ticks, with constants for the millisecond to which
waits are rounded and for the allowed earliness.

### ThreadPool

One `pc` per thread. The last block of `AddTask` locks a *local* mutex that
shadows the member (`qwr/thread_pool.h:50`), so its two reads are steps of their
own, as is every change of `idleThreadCount_`. `WorkQueue` is the promise to the
users of the pool.

### HeapUsers

For each task: its flag `isJsAvailable_`, what its worker does (queued, fetching,
letting go, in the destructor with `cleanupLock_`) and its event. For the
current global object: the maps of its heap manager. `main` is what the main
thread does when it holds `heapUsersLock_` (`prepare`) or a task. The two places
that take one mutex inside another, `PrepareForGc` and the destructor of a task
on a worker, are split at the inner one. `IsCanceled` returns the opposite of
its name and its callers negate it again: the model has it as it is. `parsing` is
`isParsingScript_`: while the top level of the script is on the stack, with the
dialogs that it opens, `InvokeJsAsyncTask` executes the event of a task by doing
nothing, and the event is gone.

### DelayedPackages

What a directory holds is the number of an import, or `Missing`, `Broken` (a
part of something) or `RecoveryPackage`. `pc` is the point that
`ProcessDelayedPackages` has reached; every file operation that matters is a
step, which may fail (`Fault`) as far as that operation can fail: a rename does
nothing, a copy or a removal does a part. A crash may come between any two
steps; it is a `Start` while `pc # "running"`. `old` is a history variable: what
the directory held before the update.

### SlowScript

`frames` is the stack of the main thread: calls into containers, popups that
scripts open, and the interrupt callback (`enter`, `scan`, `ask`), whose dialog
runs a message loop, so that panels are called, created and destroyed on top of
it. The watcher is at `top` (testing the flag), `lock`, `waiting`, `woken`, or
between its unlock and `JS_RequestInterruptCallback`; it is at `missed` when the
notification came while `isInInterrupt_` kept its predicate false, for nobody
notifies it again. Instants are kept as ages up to the age that matters: since
the start, since the checkpoint, since the second half. `ran` is a history
variable, how long a script has run since the user was last asked about it. One
tick is a fraction of `slowScriptLimit_`, `Half` of them are half of the limit.
The engine is `stopping` while `Stop` joins the watcher, and starts again when a
panel is created.

### PanelLife

`panel` is a record of the members of a panel, of its container and of what is
registered for it elsewhere; `frames` is the stack: the first execution of a
script, callbacks, paints, promise jobs, and `UnloadScript` below its
`on_script_unload` with what its caller does afterwards. `LoadScript` is a frame
of its own at its `SetWindowPos(SWP_FRAMECHANGED)`, which may send WM_SIZE
before the container is initialized: no script is ready for `on_size`, but the
jobs may run at the end of that event (`Resize`), with whatever they do to the
panel. What no JavaScript interrupts is one step, composed of functions from a
record to the next one, in the order of the code. Each script has a global
object with a number of its own, so that a frame knows whether its script is
still the last one. `DefinePanel` may make or drop the drop target whenever a
script is on the stack, also one that was unloaded (`"late"`), and any number of
times, which is more often than the binding allows. `disturbed` is a history
variable: jobs ran in the midst of the last `LoadScript`. `fault` records what
C++ leaves undefined (a null or a dangling member, a failed assertion), after
which nothing more is claimed and scripts do not go on. An engine that failed is
a panel that failed; when other panels keep the engine is a choice of the
environment. The queue of events, the timeouts and the selection are in
`EventDispatch`, `Timeouts` and `PanelInput`: what is taken from them is that an
event or a message of a panel comes only while its window exists.

### PanelInput

`dirty` is the invalid region, `timer` and `elapsed` the repaint timer and its
WM_TIMER, which stays in the queue when the timer is killed; `posted` is a
run_next_event. WM_PAINT comes only for an empty queue, as in Windows, and so
does WM_TIMER but for `GetStalledMessage`, which looks for it at each event.
Focus messages release the selection at once and acquire it by an event of the
panel, so that `inputs` is the queue of those. `wanted`, `unloaded` and `late`
are history variables; `wanted` says what has become of the repaint that a script
asked for: it counts as done only when `on_paint` is called, and as lost when a
WM_PAINT within a paint validates the window, kills the timer and draws nothing.

## 3. The runs

| Run | Instance and bounds | Shows |
|---|---|---|
| `dispatch` | 2 windows, priorities normal and resize, 2 tasks, stack of 4 frames, 3 events of the environment | no lost wake-up, run to completion, what a put leaves behind, `MailboxSpec`, `QueuesDrain` |
| `dispatch_jobs` | the same windows, 3 frames | violation: promise jobs on top of a script |
| `timeouts` | 2 timeouts, delays of 0 and 2 ticks, a millisecond of 3, a slack of 1, clock to 2, RunTimeout nested twice, 2 scripts, elapsed time checked after each callback | the executor is scheduled, no re-entrancy, in order, cleared is not called, `AlarmsSpec` (with it, early by no more than the slack), `TimeoutsFire` (225,265 states) |
| `timer` | 2 timers, 3 calls of Start and Cancel, clock to 4, Fire nested twice | whole holders, once, never early, `TimersFire`, `StopReturns` |
| `pool` | 3 threads, 4 tasks | notifications, `WorkQueueSpec`, `TasksAreRun`, `FinalizeReturns` |
| `heap` | 3 tasks, 3 loads of the script (320,982 states) | where promises are settled, workers and managers, `PromisesAreSettled` |
| `heap_unload` | 2 tasks, 2 loads | violation: two mutexes in opposite orders |
| `packages` | 2 packages, 4 imports, 3 faults or crashes | delays, backups, `LastCopyIsKept` |
| `packages_recovery` | the same | violation: the recovery wipes the new version |
| `slow` | 2 containers, a limit of 2 ticks, 2 calls or popups and the interrupt callback (434,792 states) | what is watched, live data, never early, `SlowIsNoticed`, `StopReturns` |
| `life` | 3 scripts, 6 frames (1,947,913 states) | calls after loads, the error screen, menu and drops, graphics, no dead panel, no fault but with its known cause |
| `input` | 6 frames, 4 inputs (19,912 states) | repaints are timed and done, or lost in a paint, the selection follows the focus |

Why the bounds are enough. Two windows, timers, containers or packages are
needed for one actor to disturb another, and the code treats them alike, so a
third adds no new order. Four frames of the dispatcher are a task, a dialog that
it opens, a message handled in it and one sent to another panel on top. Two
nested `RunTimeout`s are a call and one entered from its callback. Three calls
of Start and Cancel allow a timer to be started again or canceled while the
other one is set and an event of the first is still queued. Four imports and
three faults allow an installed version, an update that fails, its recovery and
another update that fails in turn. Two calls of `SlowScript` are a script and
one that it calls, or its popup and what that runs. Delays below and above the
slack, and a millisecond longer than both, give each of `Schedule`'s and
`RunTimeout`'s comparisons both outcomes. Six frames of `PanelLife` hold a load,
an unload in its midst, another load on top of that with the jobs of its
WM_SIZE, and one more call; three scripts are the one that runs, one that
replaces it, and one from within its `on_script_unload` or after a failure. What
is proved (section 5) does not depend on any bound.

`CHECK_DEADLOCK FALSE` is set everywhere: the bounds, the exit of the program or
an idle user stop each of these systems; that nothing waits in vain is stated by
the liveness properties and by `NoLostWakeup` and `NoLostNotification`.

### Disagreements with comments and documentation

Each of these has a run that finds it:

* `dispatch_jobs` (`panel/js_panel_window.cpp:500`): promise jobs "should be
  drained only with empty JS stack", but the nesting counter belongs to one panel
  and the jobs to the engine: a panel that is called synchronously by the task of
  another one drains them on top of that task.
* `heap_unload` (`js_objects/internal/global_heap_manager.cpp:106`): the main
  thread and a worker may wait for each other for ever.
* `packages_recovery` (`config/delayed_package_utils.cpp:174`): when only the
  removal of the backup fails, the recovery destroys the new version too.

The models also reach these states, which no run asks about; where one of them
would refute a property, the property names it as a premise or an exception:

* Timeouts. `clearTimeout` does not find a timeout that was put aside during a
  load (`timeout/timeout_manager.cpp:82`; `ClearedIsNotCalled` speaks of the
  others). When a load fails, nobody empties `delayedTimeouts_` or resets
  `isLoading_` (line 128): the next load inserts timeouts of the script before.
  `Cancel(false)` forgets a timer whose callback is in progress
  (`timeout/timeout_executor.cpp:120`): `Shutdown` then does not wait for it.
  Callbacks may come up to 10 microseconds early, and in that interval a timeout
  set by a callback may be called in a later round than one due after it
  (`timeout/timeout_executor.cpp:211`).
* HeapUsers. A promise whose picture arrives in a dialog that the top level of the
  script has opened is never settled: the event is consumed
  (`js_engine/js_container.cpp:325`; exception `ConsumedWhileParsing` of
  `PromisesAreSettled`).
* TimerThread. `isTimeToDie_` is tested before the lock
  (`timeout/timer_manager_custom.cpp:80`), so a stop that comes between the test
  and the wait is missed (premise `HasTested` of `StopReturns`).
* ThreadPool. `Finalize` drops the tasks that wait, although its comment expects
  that only of aborted threads (`qwr/thread_pool.cpp:45`).
* SlowScript. A notification that comes while `isInInterrupt_` is set is lost,
  and nobody notifies the watcher when the flag is reset
  (`js_engine/js_monitor.cpp:290`; premise `WakeUpIsMissed` of `SlowIsNoticed`).
  A script on top of an open question is not interrupted (lines 117-120; premise
  `QuestionIsCovered`). Promise jobs are not actions of a container and are never
  watched (the TODO at `js_engine/js_engine.cpp:127`). "Stop" aborts the script on
  top of the stack, which may be another one than the user was asked about (the
  TODO at line 252), and a script may catch that error. `ignoreSlowScriptCheck`
  lasts as long as the container, also through reloads.
* PanelLife. A script or a promise job that destroys the window of its own panel
  leaves null members to the load or the unload below it, or takes the engine
  away from the jobs below it; and a promise that is rejected after its panel
  was closed, in whichever way, reaches for the container that is gone, when
  other panels keep the engine. `OnlyKnownFaults` gives each of these its one
  cause, and says that there is nothing else. An error of an old script, whose
  frame is still on the stack, fails the new one
  (`js_engine/js_container.cpp:135`). When the jobs run by the WM_SIZE of a load
  (`panel/js_panel_window.cpp:1326`) contain a rejected promise of the script
  before, the panel fails; then the new script is initialized and runs, but
  under the error screen and without its menu (exception `disturbed` of
  `ErrorIsShown` and `NothingIsLeft`). An unloaded script that is still on the
  stack may call `window.DefinePanel` and so give a panel without a script a
  drop target (`namespaces/window.cpp:382`; `NothingIsLeft` speaks of the
  others). A script that is unloaded in its own `on_paint` keeps a graphics
  object with a dangling pointer.
* PanelInput. The event of a focus message acquires the holder also when
  WM_KILLFOCUS came in between (`late`); a reload releases the holder of a panel
  that keeps the focus (`unloaded`). A WM_PAINT within a paint drops a repaint
  that was asked for in that paint (`panel/js_panel_window.cpp:652`; `wanted` is
  then `"lost"`); what was asked for outside of a paint is never lost. A repaint
  that Windows asks for has no timer and may wait as long as the panel keeps its
  queue busy.

`LastCopyIsKept` of `DelayedPackages` excepts two losses, `IsKnownLoss`: an update
whose copy was cut short when it was imported (line 309), and the recovery of the
last finding. The property says that there is no third.

## 4. Fairness

* EventDispatch: weak fairness of the steps of the main thread and of a put that
  has begun. Handlers return and modal loops are closed; nobody has to queue,
  open or paint anything.
* Timeouts: weak fairness of the main thread, the timer queue, the clock and the
  end of a load. Strong fairness of "the callback at depth *n* returns": a
  callback that runs a message loop is interrupted by other messages again and
  again, but it does come to its end.
* TimerThread: weak fairness of the clock, of the thread and of the delivery of
  events; strong fairness of the steps of the main thread inside Start, Cancel
  and StopThread, for they wait for `threadMutex_`, which the thread may hold and
  release again and again (spurious wake-ups are not bounded); Windows' mutexes do
  not starve a waiter for ever.
* ThreadPool: weak fairness of each thread and of the calls of the main thread:
  tasks end. Spurious wake-ups may happen but need not.
* HeapUsers: weak fairness of each worker, of the execution of each queued event
  and of the unload that has begun. Nobody has to load or unload a script.
* SlowScript: weak fairness of the clock, of the watcher thread, of the join and
  of the interrupt callback once it was entered (the user answers its dialog);
  strong fairness of `Poll`: a script that runs for ever comes to the points where
  mozjs polls for an interrupt, though other messages are handled in between.
* PanelInput: weak fairness of the message loop and of the repaint timer; strong
  fairness of the ends of an event, a paint and a loop, which nested messages
  interrupt again and again.
* DelayedPackages and PanelLife: none; only safety is claimed.

## 5. What is proved

All theorems hold for every value of the constants; the assumptions are the
named ASSUMEs of the modules (bounds are natural numbers, `NoWindow` is no
window, priorities are those of `EventPriority`, the set of threads is finite).

* **EventDispatch.** `StackInv` adds to the type invariant the shape of the stack:
  only the top frame may be between two steps of the dispatcher, all others run a
  task, a handler or a modal loop. It gives `TypeCorrect` and `CounterIsRight`
  (the counter is the cardinality of a set of positions of the stack, so the
  proof has lemmas for pushing, popping and moving a frame). `WakeInv` adds what
  the put in progress may do and that there is at most one message per window;
  it gives `NoWakeupIsLost`, `FlagAgreesWithQueue` and `GoneWindowsGetNothing`.
  `RunInv` says that what `ProcessEvent` tested still holds when the task is taken:
  an unfinished frame of the same panel below makes the counter two, so that only
  a dialog lets the task start. It gives `TasksRunToCompletion`.
  `OrderInv` adds that queued numbers are old; it gives `OneResizeIsQueued`,
  `PutsLeaveNoMess`, `FirstComeFirstServed` and the refinement `ImplementsMailbox`,
  whose step lemma uses `OneResizeIsQueued`: replacing one neighbour is replacing
  every resize.
* **Timeouts.** `TimersInv` says what every nested `RunTimeout` relies on while the
  callbacks below and above it insert, erase and reinsert timeouts. The list is
  sorted by deadline and holds no timeout twice; the marked timeouts come first,
  those of an outer call before those of an inner one (`OrderInv`), and they are
  due. Every call has yet to meet the timeouts it has marked: they stand at or
  behind the position it has saved (`Ahead`, for the whole stack `Calls` and
  `Stack`); exactly the timeouts at which a call stands in its callback are
  running, and each of them is marked by its own call. The executor watches over
  every timeout that nobody has marked (`Watched`), with a task that is queued, or
  with an OS timer that is pending or has posted a current event. A
  timeout that was found and cleared is in no list, or runs for the last time
  (`Gone`). None
  of these is inductive without the others: that a timeout is not called again
  within its own callback follows from the order of the marks, that it is not
  forgotten from the order of the list, and both orders must survive a `Reinsert`
  into the midst of it. The lemmas say what inserting, erasing and marking do to a
  list; that `FinishLoading` inserts one timeout after the other is an induction
  over the set of the numbers for which the claim holds. It gives `TypeCorrect`,
  `NoTimeoutIsForgotten`, `CallbacksAreNotReentered`, `CallbacksAreHardlyEarly`
  (by no more than the slack), `CallbacksAreInOrder` and `ClearedIsNeverCalled`.
  `ImplementsAlarms` needs, besides, that a `RunTimeout` has read the clock in the
  past (`LastInv`), so that an interval is due again within its period. It has one
  lemma per action that names the step of `Alarms` it is, and `MoveIs` and `LeaveIs`
  for the two shapes of such steps: a set of alarms changes its stage, or one leaves
  its round and others are released from it.
* **ThreadPool.** `PoolInv` adds to the type invariant that the counter is the
  cardinality of the threads between a task and the next, that while a thread
  sleeps the tasks that wait do not outnumber the threads that are awake, and
  when `Finalize` has begun. It gives `IdleCountIsRight`, `NotificationsSuffice`
  and `FinalizeJoinsNoSleeper`; with `JobInv`, which says which threads have a
  task, also `ImplementsWorkQueue`.
* **TimerThread.** `HolderInv`: names of holders are not used twice, and a call
  takes the holder of its timer away before it touches anything else; it gives
  `SharingIsSafe`. `EarlyInv`: an event of the current generation was posted when
  the timer was due; it gives `NobodyFiresEarly`. `OnceInv`: but for the call in
  progress, an armed timer has exactly one live holder, current event or current
  call of Fire, and an idle one has none; calls and events are of no later
  generation than the timer, so that a new generation makes all of them stale. It
  gives `TasksComeOnce`.
* **HeapUsers.** The mutexes are in no variable: that they suffice is what
  `HeapInv` says of the tasks that exist. A task that can still reach the heap
  manager belongs to the last global object, which runs or is being unloaded and
  has yet to visit the task; a worker in a destructor is one of those; the maps
  hold exactly the tasks that exist, and between two scripts they are empty. It
  gives the theorems listed, `WorkersAreSafe` among them; the deadlock of
  `heap_unload` is the price of the same nesting of mutexes.
* **DelayedPackages.** `IInv` says at each point of the start which backups exist,
  what is still staged and which directory is missing or filled. It gives
  `OneDelayPerPackage`, `UpdateIsBackedUp` and the action property
  `CopiesAreKept`.
* **SlowScript.** `MonitorInv` consists of: the interrupt callback is on the stack
  once, while its flag is set (`InterruptInv`); what is active has a call on the
  stack, and what has a call is active or ignored (`WatchInv`); what has a call is
  alive (`AliveInv`); whatever the callback keeps has a call at its place or below
  (`KeptInv`), which is why its pointers survive the dialog; and the ages are in
  the order in which they were set (`AgeInv`). Its lemmas say what pushing and
  popping a frame does to all of these. It gives the five theorems listed.
* **PanelLife.** Nearly all that nesting could break is a matter of the members
  alone: `MembersInv` is kept by every function a step is composed of, with
  `Between` for the states in the midst of a reload, whatever is on the stack; its
  parameter says whether a `LoadScript` is under way, in which the error screen and
  the menu do not agree with the script yet. `ResizeInv` says that a load whose
  WM_SIZE may still come is on top and nothing has touched what it began: this is
  why only jobs of that WM_SIZE can disturb it. `FaultInv` ties each fault to its
  cause. `StackInv` and `SavedInv` add what the frames know: a load on the stack is
  of the last global or of an older one, `isParsingScript_` is about the last one,
  and the container lives while a frame is in it. They give the eight theorems listed.
* **PanelInput.** The repaint that was asked for and not done has its timer, and
  only one asked for within a paint can be lost; the flag is a paint on the
  stack, and a panel with the focus has the holder, or an event that will acquire
  it, or lost it to an unload; four theorems.

Only model-checked: liveness, which the prover cannot do (fairness and ENABLED).
Every invariant, every action property and every refinement that a passing run
checks is also the conclusion of a theorem.

## 6. Not modelled, and the plan

Not modelled: mozjs, the foobar2000 SDK, Scintilla and the other vendored
libraries; bindings, conversions, dialogs and configuration formats (sequential,
one call each). A failure of `CreateTimerQueueTimer` leaves a panel without
wake-ups; the model has no such failure. Queues that are fed for ever faster
than they are served are excluded by the bound on tasks.

Left, most important first:

1. `PlaylistLocks`: locks, properties and indices, with failing steps and
   restarts.
2. `ComStorage` (re-entrant destruction of COM objects), `DragAndDrop`, mouse
   tracking and capture of the panel, and the exit of the component, which
   composes the dispatcher, the pool and the heap users.
3. `GcPolicy`: thresholds, levels and the deletion of realms, which are numbers to
   tune rather than states to reach.

Each of the remaining parts is listed in `PROJECT.json` with the reason.
