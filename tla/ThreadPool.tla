----------------------------- MODULE ThreadPool -----------------------------
(***************************************************************************)
(* qwr::ThreadPool: the worker threads that load images and album art.     *)
(*                                                                         *)
(* The main thread adds tasks and makes threads on demand; a thread takes  *)
(* tasks from the queue and sleeps on the condition variable hasTask_ when *)
(* there are none.  Every section that holds queueMutex_ is one step here, *)
(* and so is every access to an atomic.  The mutex of the last block of    *)
(* AddTask is a local one that hides the member, so the reads in that      *)
(* block race with the threads: they are steps of their own.               *)
(***************************************************************************)
EXTENDS Integers, Sequences, FiniteSets

CONSTANTS
    Thread,   \* the threads that the pool may make: maxThreadCount_ of them
    MaxTasks  \* bound: tasks ever added

ASSUME ThreadAssumption == IsFiniteSet(Thread) /\ Thread # {}
ASSUME TaskAssumption == MaxTasks \in Nat

VARIABLES
    tasks,    \* tasks_; tasks are numbered in the order of AddTask
    added,    \* the number of the last task
    idle,     \* idleThreadCount_
    exiting,  \* isExiting_
    pc,       \* what each thread does; "unborn": not in threads_ yet
    job,      \* the task of each thread, or NoJob
    main      \* what the main thread does in AddTask or Finalize

vars == <<tasks, added, idle, exiting, pc, job, main>>

NoJob == 0

Awake == {"born", "loop", "lock", "woken", "finished"}
Idle == {"loop", "lock", "asleep", "woken", "took", "leaving"}
PC == Awake \cup Idle \cup {"unborn", "busy", "ended"}

With(states) == {t \in Thread : pc[t] \in states}

\* A thread goes on to state s.
Move(t, s) == pc' = [pc EXCEPT ![t] = s]

Init ==
    /\ tasks = <<>> /\ added = 0
    /\ idle = 0 /\ exiting = FALSE
    /\ pc = [t \in Thread |-> "unborn"]
    /\ job = [t \in Thread |-> NoJob]
    /\ main = "ready"

------------------------------------------------------------------------------
(* The main thread *)

NotifyNobody == UNCHANGED pc

\* notify_one wakes a thread, if any sleeps.
NotifyOne ==
    IF With({"asleep"}) = {} THEN UNCHANGED pc
                             ELSE \E t \in With({"asleep"}) : Move(t, "woken")

\* AddTask, under queueMutex_.
AddTask ==
    /\ main = "ready" /\ ~exiting
    /\ added < MaxTasks
    /\ added' = added + 1
    /\ tasks' = Append(tasks, added + 1)
    /\ NotifyOne
    /\ main' = "checkQueue"
    /\ UNCHANGED <<idle, exiting, job>>

\* AddTask reads tasks_ without the lock.
CheckQueue ==
    /\ main = "checkQueue"
    /\ main' = IF tasks = <<>> THEN "ready" ELSE "checkIdle"
    /\ UNCHANGED <<tasks, added, idle, exiting, pc, job>>

\* AddThread, if there may be more threads and none is counted as idle.
CheckIdle ==
    /\ main = "checkIdle"
    /\ main' = "ready"
    /\ IF idle = 0 /\ With({"unborn"}) # {}
         THEN \E t \in With({"unborn"}) : Move(t, "born")
         ELSE UNCHANGED pc
    /\ UNCHANGED <<tasks, added, idle, exiting, job>>

\* Finalize, under queueMutex_.
BeginFinalize ==
    /\ main = "ready"
    /\ exiting' = TRUE
    /\ main' = "notify"
    /\ UNCHANGED <<tasks, added, idle, pc, job>>

OnlyOneWoken == [t \in Thread |-> IF With({"asleep"}) = {t} THEN "woken" ELSE pc[t]]

\* notify_all.
AllWoken == [t \in Thread |-> IF pc[t] = "asleep" THEN "woken" ELSE pc[t]]

NotifyAll ==
    /\ main = "notify"
    /\ pc' = AllWoken
    /\ main' = "join"
    /\ UNCHANGED <<tasks, added, idle, exiting, job>>

\* Every thread is joined; the rest of the queue is dropped.
Join ==
    /\ main = "join"
    /\ With(PC \ {"unborn", "ended"}) = {}
    /\ tasks' = <<>>
    /\ main' = "done"
    /\ UNCHANGED <<added, idle, exiting, pc, job>>

------------------------------------------------------------------------------
(* ThreadProc *)

\* A thread counts itself as idle: when it starts, and after each task.
BecomeIdle(t) ==
    /\ pc[t] \in {"born", "finished"}
    /\ idle' = idle + 1
    /\ Move(t, "loop")
    /\ UNCHANGED <<tasks, added, exiting, job, main>>

CheckExit(t) ==
    /\ pc[t] = "loop"
    /\ Move(t, IF exiting THEN "leaving" ELSE "lock")
    /\ UNCHANGED <<tasks, added, idle, exiting, job, main>>

MayTakeAlways == tasks # <<>>

\* The thread holds queueMutex_ and tests isExiting_ again.
MayTake == tasks # <<>> /\ ~exiting

Take(t) ==
    /\ pc[t] \in {"lock", "woken"} /\ MayTake
    /\ job' = [job EXCEPT ![t] = Head(tasks)]
    /\ tasks' = Tail(tasks)
    /\ Move(t, "took")
    /\ UNCHANGED <<added, idle, exiting, main>>

\* wait, or its predicate does not hold yet.
Sleep(t) ==
    /\ pc[t] \in {"lock", "woken"} /\ tasks = <<>> /\ ~exiting
    /\ Move(t, "asleep")
    /\ UNCHANGED <<tasks, added, idle, exiting, job, main>>

NoticeExit(t) ==
    /\ pc[t] \in {"lock", "woken"} /\ exiting
    /\ Move(t, "leaving")
    /\ UNCHANGED <<tasks, added, idle, exiting, job, main>>

\* A condition variable may wake a thread for no reason.
WakeSpuriously(t) ==
    /\ pc[t] = "asleep"
    /\ Move(t, "woken")
    /\ UNCHANGED <<tasks, added, idle, exiting, job, main>>

\* The idle threads after one of them has begun a task or left.
CountDown == idle - 1

BeginTask(t) ==
    /\ pc[t] = "took"
    /\ idle' = CountDown
    /\ Move(t, "busy")
    /\ UNCHANGED <<tasks, added, exiting, job, main>>

\* The task returned, or threw: exceptions are caught.
EndTask(t) ==
    /\ pc[t] = "busy"
    /\ job' = [job EXCEPT ![t] = NoJob]
    /\ Move(t, "finished")
    /\ UNCHANGED <<tasks, added, idle, exiting, main>>

Leave(t) ==
    /\ pc[t] = "leaving"
    /\ idle' = CountDown
    /\ Move(t, "ended")
    /\ UNCHANGED <<tasks, added, exiting, job, main>>

------------------------------------------------------------------------------
(* Specification *)

MainStep == CheckQueue \/ CheckIdle \/ NotifyAll \/ Join

ThreadStep(t) ==
    \/ BecomeIdle(t) \/ CheckExit(t)
    \/ Take(t) \/ Sleep(t) \/ NoticeExit(t)
    \/ BeginTask(t) \/ EndTask(t) \/ Leave(t)

Next ==
    \/ AddTask \/ BeginFinalize \/ MainStep
    \/ \E t \in Thread : ThreadStep(t) \/ WakeSpuriously(t)

Spec == Init /\ [][Next]_vars

\* Threads are scheduled, and tasks end.
FairSpec == Spec /\ WF_vars(MainStep) /\ \A t \in Thread : WF_vars(ThreadStep(t))

------------------------------------------------------------------------------
(* Properties *)

\* Type invariant.
TypeOK ==
    /\ tasks \in Seq(1..added) /\ added \in 0..MaxTasks
    /\ idle \in 0..Cardinality(Thread)
    /\ exiting \in BOOLEAN
    /\ pc \in [Thread -> PC]
    /\ job \in [Thread -> NoJob..added]
    /\ main \in {"ready", "checkQueue", "checkIdle", "notify", "join", "done"}

\* idleThreadCount_ is changed by every thread outside the lock, and yet it is
\* the number of threads between a task and the next: it never wraps around.
IdleIsAccurate == idle = Cardinality(With(Idle))

\* No notification is lost: if a thread sleeps, then for every task that waits
\* there is a thread awake that has yet to come to the queue.
NoLostNotification ==
    ~exiting /\ With({"asleep"}) # {} => Len(tasks) <= Cardinality(With(Awake))

\* Finalize joins no thread that is asleep for good.
NobodySleepsThroughExit == main \in {"join", "done"} => With({"asleep"}) = {}

\* The pool implements the queue of tasks that its users are promised.
WorkQueue == INSTANCE WorkQueue WITH
    Task <- 1..MaxTasks, Worker <- Thread, NoTask <- NoJob,
    queue <- tasks, doing <- job, closed <- exiting
WorkQueueSpec == WorkQueue!Spec

\* Every task is run, unless the pool is finalized first.
TasksAreRun ==
    \A n \in 1..MaxTasks : added >= n ~> exiting \/ ~\E i \in DOMAIN tasks : tasks[i] = n

\* Finalize returns when the tasks that run come to their end.
FinalizeReturns == exiting ~> main = "done"

=============================================================================
