------------------------------ MODULE Timeouts ------------------------------
(***************************************************************************)
(* The timers of one panel: TimeoutManager, TimeoutExecutor, Timer_Native. *)
(*                                                                         *)
(* The manager keeps the timeouts of the script in a list ordered by       *)
(* deadline.  The executor wakes the manager for the first of them: at     *)
(* once, through a task in the panel's mailbox (Immediate), or through an  *)
(* OS timer whose callback, on another thread, puts an Event_Timer in the  *)
(* mailbox (Delayed).  RunTimeout marks the expired timeouts with its      *)
(* firing id and calls them one by one; a callback may run a message loop  *)
(* in which RunTimeout is entered again.                                   *)
(*                                                                         *)
(* Abstractions.  The mailbox is module Mailbox with one priority: a       *)
(* queue.  generation_ only ever grows, so an event remembers just whether *)
(* its generation is still current ("fresh").  Firing ids form a stack, so *)
(* the id of a RunTimeout is its depth, and 0 is an id that is not valid.  *)
(* The clock is finer than the OS timer, whose delay is in milliseconds,   *)
(* and than the time by which timeouts may be early; the time limit of     *)
(* RunTimeout is less than that, so any callback may exceed it.            *)
(*                                                                         *)
(* A timer callback holds the cleanupLock_ of its JsAsyncTask, which       *)
(* unloading the script locks too; the script is therefore never unloaded  *)
(* here while an outer callback is on the stack (see the README).          *)
(***************************************************************************)
EXTENDS Integers, SequencesExt

CONSTANTS
    MaxTimeout,  \* bound: timeouts ever made
    Delay,       \* delays that scripts use
    MaxTime,     \* bound: the clock
    MaxDepth,    \* bound: nested RunTimeout calls
    MaxScript,   \* bound: scripts ever loaded
    CheckEvery,  \* kNumTimersPerInitialElapsedCheck
    AllowedEarly, \* GetAllowedEarlyFiringTime(), in ticks of the clock
    Millisecond  \* a millisecond, in ticks of the clock

ASSUME DelayAssumption == Delay \subseteq Nat
ASSUME CheckAssumption == CheckEvery \in Nat \ {0}
ASSUME ClockAssumption == AllowedEarly \in Nat /\ Millisecond \in Nat
ASSUME BoundAssumption ==
    MaxTimeout \in Nat /\ MaxTime \in Nat /\ MaxDepth \in Nat /\ MaxScript \in Nat

VARIABLES
    now,        \* the clock
    timeout,    \* the Timeout objects made so far; an id is an index
    schedule,   \* TimeoutStorage::schedule_, as ids
    delayed,    \* delayedTimeouts_, as ids
    isLoading,  \* TimeoutManager::isLoading_
    script,     \* number of the script loaded last
    js,         \* JsContainer: "none", "parsing", "working"; "gone": window destroyed
    wake,       \* the executor, its OS timer and the mailbox
    frames,     \* RunTimeout calls on the main thread's stack, innermost last
    cleared,    \* history: ids that the script has cleared, ...
    missed      \* ... those of them that were in delayedTimeouts_ then

vars == <<now, timeout, schedule, delayed, isLoading, script, js, wake, frames, cleared, missed>>

Id == DOMAIN timeout

\* What is due by now is run now.
Limit == now + AllowedEarly
End == 0

\* firing: the depth of the RunTimeout that is to call the timeout, or 0.
Timeout == [when : Nat, interval : Nat, repeated : BOOLEAN, firing : Nat,
            running : BOOLEAN, script : Nat]

\* run: the executor itself was queued (PutRunnable); timer: an Event_Timer.
Event == [kind : {"run", "timer"}, fresh : BOOLEAN]

\* os: the OS timer of the current handle ("done": its callback has returned).
\* stale: the callback of a handle that was deleted is still in progress.
\* hasTask: Timer_Native::pTask_ is set.
Wake == [mode : {"None", "Immediate", "Delayed", "Shutdown"}, deadline : Nat,
         hasTask : BOOLEAN, os : {"none", "pending", "calling", "done"},
         stale : BOOLEAN, mail : Seq(Event)]

\* A RunTimeout: about to look at timeout "at", or in the callback of "at".
\* last: nowSnapshot.
Frame == [pc : {"loop", "callback"}, at : Nat, last : Nat]

Depth == Len(frames)
Top == frames[Depth]
TopIs(pc) == frames # <<>> /\ Top.pc = pc

\* The script of the panel executes: in a timer callback or, when there is no
\* RunTimeout, in an event handler or while it is being loaded.
ScriptRuns ==
    \/ frames = <<>> /\ js \in {"parsing", "working"}
    \/ TopIs("callback") /\ js = "working" /\ timeout[Top.at].script = script

------------------------------------------------------------------------------
(* TimeoutExecutor and Timer_Native *)

Outdated(mail) == [i \in DOMAIN mail |-> [mail[i] EXCEPT !.fresh = FALSE]]

\* TimeoutExecutor::Cancel, with Timer_Native::Cancel.
Cancelled(x) ==
    [x EXCEPT !.mode = "None", !.deadline = 0, !.hasTask = FALSE, !.os = "none",
              !.stale = @ \/ x.os = "calling", !.mail = Outdated(@)]

\* Cancel(true) waits for the callback of the current handle only.
MayWait == wake.os # "calling"

\* Schedule; a new OS timer is never of an old generation.  CreateNativeTimer posts
\* the event itself when the time has come since: a TimerProc that is done at once.
Scheduled(x, when) ==
    IF when <= Limit
        THEN [x EXCEPT !.mode = "Immediate", !.deadline = when,
                       !.mail = Append(@, [kind |-> "run", fresh |-> FALSE])]
        ELSE [Cancelled(x) EXCEPT !.mode = "Delayed", !.deadline = when,
                                  !.hasTask = TRUE, !.os = "pending"]

MaybeScheduledOnce(x, when) == IF x.mode = "None" THEN Scheduled(x, when) ELSE x

\* MaybeSchedule and MaybeReschedule.
MaybeScheduled(x, when) ==
    IF x.mode = "None" THEN Scheduled(x, when)
    ELSE IF x.mode = "Delayed" /\ when < x.deadline THEN Scheduled(Cancelled(x), when)
    ELSE x

------------------------------------------------------------------------------
(* TimeoutStorage *)

IsUnmarked(id) == timeout[id].firing = 0

InsertedLast(list, id, when) == IF when >= 0 THEN Append(list, id) ELSE list

\* Insert: after the last timeout that is due no later, or that is being
\* processed by a RunTimeout.
Inserted(list, id, when) ==
    LET k == SelectLastInSeq(list, LAMBDA e : timeout[e].when <= when \/ ~IsUnmarked(e))
    IN  InsertAt(list, k + 1, id)

Position(list, id) == SelectInSeq(list, LAMBDA e : e = id)

\* Erase.
Without(list, id) == RemoveAt(list, Position(list, id))

\* GetNext.
NextOf(list, id) ==
    IF Position(list, id) = Len(list) THEN End ELSE list[Position(list, id) + 1]

\* MaybeSchedule for the first of a list.
ScheduledFor(x, list) ==
    IF list = <<>> THEN x ELSE MaybeScheduled(x, timeout[list[1]].when)

------------------------------------------------------------------------------
(* Loading and unloading the script *)

Init ==
    /\ now = 0
    /\ timeout = <<>>
    /\ schedule = <<>> /\ delayed = <<>>
    /\ isLoading = TRUE
    /\ script = 0 /\ js = "none"
    /\ wake = [mode |-> "None", deadline |-> 0, hasTask |-> FALSE, os |-> "none",
               stale |-> FALSE, mail |-> <<>>]
    /\ frames = <<>>
    /\ cleared = {} /\ missed = {}

\* StopAllTimeouts.
StopAllTimeouts ==
    /\ MayWait
    /\ wake' = Cancelled(wake)
    /\ schedule' = <<>>

\* LoadScript, up to the execution of the script: SetLoadingStatus(true).
BeginLoad ==
    /\ frames = <<>> /\ js = "none" /\ script < MaxScript
    /\ script' = script + 1
    /\ js' = "parsing"
    /\ isLoading' = TRUE
    /\ IF isLoading THEN UNCHANGED <<wake, schedule>> ELSE StopAllTimeouts
    /\ UNCHANGED <<now, timeout, delayed, frames, cleared, missed>>

\* The timeouts that were put aside are inserted one by one.
AllInserted ==
    LET inserted[n \in 0..Len(delayed)] ==
            IF n = 0 THEN schedule
            ELSE Inserted(inserted[n - 1], delayed[n], timeout[delayed[n]].when)
    IN  inserted[Len(delayed)]

\* The script was executed: SetLoadingStatus(false).
EndLoad ==
    /\ frames = <<>> /\ js = "parsing"
    /\ js' = "working"
    /\ isLoading' = FALSE
    /\ schedule' = AllInserted
    /\ delayed' = <<>>
    /\ wake' = ScheduledFor(wake, schedule')
    /\ UNCHANGED <<now, timeout, script, frames, cleared, missed>>

\* UnloadScript: the script fails, while it is loaded or later, or the panel is
\* reloaded.
UnloadScript ==
    /\ frames = <<>> /\ js \in {"parsing", "working"}
    /\ js' = "none"
    /\ StopAllTimeouts
    /\ UNCHANGED <<now, timeout, delayed, isLoading, script, frames, cleared, missed>>

\* OnDestroy: UnloadScript, Finalize (the executor's Shutdown), RemoveWindow.
OnDestroy ==
    /\ frames = <<>> /\ js \in {"none", "working"}
    /\ js' = "gone"
    /\ MayWait
    /\ wake' = [Cancelled(wake) EXCEPT !.mode = "Shutdown", !.mail = <<>>]
    /\ schedule' = <<>> /\ delayed' = <<>>
    /\ UNCHANGED <<now, timeout, isLoading, script, frames, cleared, missed>>

------------------------------------------------------------------------------
(* The script sets and clears timeouts *)

\* CreateTimeout; SetInterval takes no delay of 0.
CreateTimeout(delay, repeated) ==
    /\ ScriptRuns
    /\ Len(timeout) < MaxTimeout /\ now + delay <= MaxTime
    /\ repeated => delay > 0
    /\ timeout' = Append(timeout, [when |-> now + delay, interval |-> delay,
                                   repeated |-> repeated, firing |-> 0,
                                   running |-> FALSE, script |-> script])
    /\ wake' = MaybeScheduled(wake, now + delay)
    /\ schedule' = Inserted(schedule, Len(timeout) + 1, now + delay)
    /\ UNCHANGED <<now, delayed, isLoading, script, js, frames, cleared, missed>>

RescheduledNever(id) == IF schedule[1] = id THEN Cancelled(wake) ELSE wake

\* ClearTimeout of the first timeout moves the executor to the next one.
Rescheduled(id) ==
    IF schedule[1] = id THEN ScheduledFor(Cancelled(wake), Without(schedule, id)) ELSE wake

KeepRepeat(id) == [timeout EXCEPT ![id].interval = @]

\* A timeout that is running is erased when its callback has returned.
DisableRepeat(id) == [timeout EXCEPT ![id].repeated = FALSE]

ClearTimeout(id) ==
    /\ ScriptRuns
    /\ timeout[id].script = script /\ id \notin cleared
    /\ cleared' = cleared \cup {id}
    /\ missed' = IF Contains(delayed, id) THEN missed \cup {id} ELSE missed
    /\ IF ~Contains(schedule, id) THEN UNCHANGED <<timeout, schedule, wake>>
       ELSE IF timeout[id].running
         THEN /\ timeout' = DisableRepeat(id)
              /\ UNCHANGED <<schedule, wake>>
         ELSE /\ schedule' = Without(schedule, id)
              /\ wake' = Rescheduled(id)
              /\ UNCHANGED timeout
    /\ UNCHANGED <<now, delayed, isLoading, script, js, frames>>

------------------------------------------------------------------------------
(* The OS timer *)

\* TimerProc starts, up to a millisecond early because the delay is truncated
\* to milliseconds.  One thread calls all callbacks of a timer queue.
TimerProcStarts ==
    /\ wake.os = "pending" /\ ~wake.stale
    /\ now + Millisecond > wake.deadline
    /\ wake' = [wake EXCEPT !.os = "calling"]
    /\ UNCHANGED <<now, timeout, schedule, delayed, isLoading, script, js, frames, cleared, missed>>

\* TimerProc reads generation_ as it is now and puts the event.
TimerProcPosts ==
    /\ js # "gone"
    /\ wake.os = "calling" \/ wake.stale
    /\ wake' = [wake EXCEPT !.os = IF @ = "calling" THEN "done" ELSE @,
                            !.stale = FALSE,
                            !.mail = Append(@, [kind |-> "timer", fresh |-> TRUE])]
    /\ UNCHANGED <<now, timeout, schedule, delayed, isLoading, script, js, frames, cleared, missed>>

Tick ==
    /\ now < MaxTime
    /\ now' = now + 1
    /\ UNCHANGED <<timeout, schedule, delayed, isLoading, script, js, wake, frames, cleared, missed>>

------------------------------------------------------------------------------
(* RunTimeout *)

\* The timeout that is not due, where the first loop ends.
Upcoming(deadline) == SelectInSeq(schedule, LAMBDA e : timeout[e].when > deadline)

\* The first loop walks over n timeouts; those that are marked for an outer
\* RunTimeout keep their marks.
ExpiredAgain(n) == ToSet(SubSeq(schedule, 1, n))
Expired(n) == {id \in ToSet(SubSeq(schedule, 1, n)) : IsUnmarked(id)}

Marked(marks, firing) ==
    [id \in Id |-> IF id \in marks THEN [timeout[id] EXCEPT !.firing = firing]
                                   ELSE timeout[id]]

\* MaybeExecute and RunTimeout up to the second loop: mark what is due and
\* schedule the executor for what is not.  The loop may run out of time after
\* every CheckEvery marks, and then the executor is scheduled for the last mark.
RunTimeout(x, deadline) ==
    LET next == Upcoming(deadline)
        due == IF next = 0 THEN Len(schedule) ELSE next - 1
    IN  \E n \in 0..due, late \in BOOLEAN :
          /\ IF late THEN /\ n > 0 /\ IsUnmarked(schedule[n])
                          /\ Cardinality(Expired(n)) % CheckEvery = 0
                     ELSE n = due
          /\ timeout' = Marked(Expired(n), Depth + 1)
          /\ wake' = IF late THEN MaybeScheduled(x, timeout[schedule[n]].when)
                     ELSE IF next # 0 THEN MaybeScheduled(x, timeout[schedule[next]].when)
                     ELSE x
          /\ frames' = IF Expired(n) = {} THEN frames
                       ELSE Append(frames, [pc |-> "loop", at |-> schedule[1], last |-> now])

TargetDeadlineUncapped == wake.deadline

\* Timers fire early: MaybeExecute caps the deadline.
TargetDeadline == IF wake.deadline > Limit THEN Limit ELSE wake.deadline

MaybeExecute(x) ==
    RunTimeout(Cancelled(x), IF TargetDeadline > now THEN TargetDeadline ELSE now)

\* The main thread takes the next task of the panel: when it is idle, or in a
\* message loop run by the script.
CanPump ==
    /\ js # "gone" /\ wake.mail # <<>>
    /\ frames = <<>> \/ ScriptRuns
    /\ Depth < MaxDepth

\* Run ignores a call that the executor's mode does not match, and so do Fire
\* (an outdated event, or no task) and Notify.
Matches(event) ==
    \/ event.kind = "run" /\ wake.mode = "Immediate"
    \/ event.kind = "timer" /\ event.fresh /\ wake.hasTask /\ wake.mode = "Delayed"

Receive ==
    /\ CanPump
    /\ LET event == Head(wake.mail)
           x == [wake EXCEPT !.mail = Tail(@)]
       IN  IF Matches(event) THEN MaybeExecute(x)
           ELSE /\ wake' = [x EXCEPT !.hasTask = @ /\ ~(event.kind = "timer" /\ event.fresh)]
                /\ UNCHANGED <<timeout, frames>>
    /\ UNCHANGED <<now, schedule, delayed, isLoading, script, js, cleared, missed>>

\* ~RunTimeout: its firing id is no longer valid.
Unmarked(ts) == [id \in DOMAIN ts |->
    IF ts[id].firing = Depth THEN [ts[id] EXCEPT !.firing = 0] ELSE ts[id]]

RunTimeoutReturns(ts) ==
    /\ timeout' = Unmarked(ts)
    /\ frames' = SubSeq(frames, 1, Depth - 1)

\* The timeout that the second loop calls next: it skips those of outer
\* RunTimeouts and ends at one that is not marked.
NextToRun ==
    LET k == SelectInSubSeq(schedule, Position(schedule, Top.at), Len(schedule),
                            LAMBDA e : timeout[e].firing \in {0, Depth})
    IN  IF Top.at = End \/ k = 0 \/ IsUnmarked(schedule[k]) THEN End ELSE schedule[k]

LoopEnds ==
    /\ TopIs("loop") /\ NextToRun = End
    /\ RunTimeoutReturns(timeout)
    /\ UNCHANGED <<now, schedule, delayed, isLoading, script, js, wake, cleared, missed>>

\* After each timeout: go on with the next one, or stop because time is up and
\* schedule the executor for the next one.
GoOnOrStop(ts, x, next, last) ==
    \/ /\ timeout' = ts
       /\ frames' = [frames EXCEPT ![Depth] = [pc |-> "loop", at |-> next, last |-> last]]
       /\ wake' = x
    \/ /\ RunTimeoutReturns(ts)
       /\ wake' = IF next = End THEN x ELSE MaybeScheduled(x, ts[next].when)

\* A timeout that is due while the script is being loaded is put aside.
DeferTimeout ==
    /\ TopIs("loop") /\ NextToRun # End
    /\ isLoading
    /\ schedule' = Without(schedule, NextToRun)
    /\ delayed' = Append(delayed, NextToRun)
    /\ GoOnOrStop(timeout, wake, NextOf(schedule, NextToRun), Top.last)
    /\ UNCHANGED <<now, isLoading, script, js, cleared, missed>>

\* ExecuteEvent_JsCode: the callback starts.
CallTimeout ==
    /\ TopIs("loop") /\ NextToRun # End
    /\ ~isLoading
    /\ timeout' = [timeout EXCEPT ![NextToRun].running = TRUE]
    /\ frames' = [frames EXCEPT ![Depth].pc = "callback", ![Depth].at = NextToRun]
    /\ UNCHANGED <<now, schedule, delayed, isLoading, script, js, wake, cleared, missed>>

\* RescheduleTimeout: an interval is counted from the start of the callback.
NextWhen(t) ==
    IF Top.last + t.interval < now THEN now ELSE Top.last + t.interval

\* The callback returned: erase the timeout, or insert it for the next time.
CallbackReturns ==
    /\ TopIs("callback")
    /\ LET id == Top.at
           t == timeout[id]
           done == [t EXCEPT !.running = FALSE]
           rest == Without(schedule, id)
       IN  IF t.repeated
             THEN /\ schedule' = Inserted(rest, id, NextWhen(t))
                  /\ GoOnOrStop([timeout EXCEPT ![id] = [done EXCEPT !.when = NextWhen(t), !.firing = 0]],
                                MaybeScheduled(wake, NextWhen(t)), NextOf(schedule, id), now)
             ELSE /\ schedule' = rest
                  /\ GoOnOrStop([timeout EXCEPT ![id] = [done EXCEPT !.firing = 0]],
                                wake, NextOf(schedule, id), now)
    /\ UNCHANGED <<now, delayed, isLoading, script, js, cleared, missed>>

\* The callback threw: JsContainer::Fail unloads the script, RunTimeout returns.
CallbackFails ==
    /\ TopIs("callback") /\ ScriptRuns
    /\ Depth = 1
    /\ StopAllTimeouts
    /\ js' = "none"
    /\ RunTimeoutReturns([timeout EXCEPT ![Top.at].running = FALSE])
    /\ UNCHANGED <<now, delayed, isLoading, script, cleared, missed>>

------------------------------------------------------------------------------
(* Specification *)

MainStep == Receive \/ LoopEnds \/ DeferTimeout \/ CallTimeout \/ CallbackReturns

TimerThread == TimerProcStarts \/ TimerProcPosts

ScriptStep ==
    \/ \E d \in Delay, r \in BOOLEAN : CreateTimeout(d, r)
    \/ \E id \in Id : ClearTimeout(id)
    \/ CallbackFails

Loading == BeginLoad \/ EndLoad \/ UnloadScript \/ OnDestroy

Next == MainStep \/ TimerThread \/ ScriptStep \/ Loading \/ Tick

Spec == Init /\ [][Next]_vars

LoadEnds == js = "parsing" /\ (EndLoad \/ UnloadScript)

Returns(depth) == Depth = depth /\ CallbackReturns

\* The main thread and the thread of the timer queue keep running, the clock
\* goes on, a script that is loaded comes to its end and a callback returns,
\* also when it runs message loops before.  Scripts owe nothing else.
FairSpec ==
    /\ Spec
    /\ WF_vars(MainStep) /\ WF_vars(TimerThread) /\ WF_vars(Tick)
    /\ WF_vars(LoadEnds)
    /\ \A depth \in 1..MaxDepth : SF_vars(Returns(depth))

------------------------------------------------------------------------------
(* Properties *)

\* Type invariant of the manager, the executor and the OS timer; a mark is the
\* firing id of a RunTimeout that is on the stack.
TypeOK ==
    /\ now \in Nat
    /\ timeout \in Seq(Timeout)
    /\ schedule \in Seq(Id) /\ delayed \in Seq(Id)
    /\ isLoading \in BOOLEAN
    /\ script \in Nat
    /\ js \in {"none", "parsing", "working", "gone"}
    /\ wake \in Wake
    /\ frames \in Seq(Frame)
    /\ cleared \subseteq Id /\ missed \subseteq cleared
    /\ \A id \in Id : timeout[id].firing \in 0..Depth

RunIsQueued == \E i \in DOMAIN wake.mail : wake.mail[i].kind = "run"

TimerIsArmed ==
    \/ wake.os \in {"pending", "calling"}
    \/ \E i \in DOMAIN wake.mail : wake.mail[i].kind = "timer" /\ wake.mail[i].fresh

\* No timeout is forgotten: as long as one waits that no RunTimeout on the stack
\* is about to call, the executor is scheduled no later than it is due, and what
\* wakes the executor is on its way: its task is queued, or the OS timer or an
\* event of the current generation is.
ExecutorIsScheduled ==
    \A id \in ToSet(schedule) : IsUnmarked(id) =>
        \/ wake.mode = "Immediate" /\ RunIsQueued
        \/ /\ wake.mode = "Delayed" /\ wake.deadline <= timeout[id].when
           /\ wake.hasTask /\ TimerIsArmed

\* RunTimeout is entered again in callbacks, but a timeout is never called while
\* its own callback is on the stack, and it is marked as running while it is.
NoReentrantCallback ==
    /\ \A i, j \in DOMAIN frames :
          i < j /\ frames[i].pc = "callback" /\ frames[j].pc = "callback" =>
              frames[i].at # frames[j].at
    /\ \A id \in Id : timeout[id].running <=>
          \E i \in DOMAIN frames : frames[i].pc = "callback" /\ frames[i].at = id

\* The timeout whose callback this step starts, if any.
Called == {frames'[i].at : i \in {j \in DOMAIN frames \cap DOMAIN frames' :
    frames[j].pc = "loop" /\ frames'[j].pc = "callback"}}

\* Timers fire up to a millisecond early and events of cancelled timers are taken for
\* current ones, but no callback is called earlier than GetAllowedEarlyFiringTime
\* before its time.
HardlyEarly == [][\A id \in Called : timeout[id].when <= Limit]_vars

\* Callbacks are called in the order of their deadlines, whatever was inserted
\* and reinserted in between; only a RunTimeout that is on the stack already
\* may hold back the timeouts that it has marked.  As it marks what is due within
\* AllowedEarly, a callback that sets a timeout of no delay puts it behind those.
InDeadlineOrder ==
    [][\A id \in Called : \A other \in ToSet(schedule) :
          IsUnmarked(other) => timeout[id].when <= timeout[other].when + AllowedEarly]_vars

\* A timeout that was cleared while it was in the list is never called again,
\* also when it was cleared by its own callback or by one that ran before it in
\* the same RunTimeout.
ClearedIsNotCalled == [][\A id \in Called : id \notin cleared \ missed]_vars

\* Where a timeout is on its way from CreateTimeout to its end.
StageOf(id) ==
    IF timeout[id].running THEN "rings"
    ELSE IF Contains(delayed, id) THEN "aside"
    ELSE IF ~Contains(schedule, id) THEN "over"
    ELSE IF IsUnmarked(id) THEN "waits" ELSE "claimed"

Shown == [id \in Id |-> [stage |-> StageOf(id), due |-> timeout[id].when,
                        every |-> timeout[id].interval, again |-> timeout[id].repeated]]

\* The lists, marks and nested loops of RunTimeout together give scripts the alarms of
\* module Alarms: in rounds, in order and on time but for AllowedEarly, once each time,
\* and never again when they are over.
AlarmClock == INSTANCE Alarms WITH alarm <- Shown
AlarmsSpec == AlarmClock!Spec

\* Every one-shot timeout of a running script is called at last, or cleared, or
\* dropped with the script.
Waits(id) ==
    /\ id \in Id /\ js = "working" /\ Contains(schedule, id)
    /\ ~timeout[id].repeated
TimeoutsFire == \A id \in 1..MaxTimeout : Waits(id) ~> ~Waits(id)

=============================================================================
