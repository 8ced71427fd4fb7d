----------------------------- MODULE WorkQueue ------------------------------
(***************************************************************************)
(* What the users of qwr::ThreadPool are promised: tasks start in the      *)
(* order in which they were added, each of them once, each on a worker     *)
(* that has no other task, and none starts once the pool is closed.        *)
(***************************************************************************)
EXTENDS Sequences

CONSTANTS
    Task,    \* the tasks
    Worker,  \* those who run them
    NoTask   \* no task: for a worker that has none

VARIABLES
    queue,   \* tasks that wait, oldest first
    doing,   \* the task of each worker
    closed   \* the pool takes and starts no more tasks

vars == <<queue, doing, closed>>

Init == queue = <<>> /\ doing = [w \in Worker |-> NoTask] /\ closed = FALSE

Add(task) ==
    /\ ~closed
    /\ queue' = Append(queue, task)
    /\ UNCHANGED <<doing, closed>>

Start(w) ==
    /\ ~closed /\ queue # <<>> /\ doing[w] = NoTask
    /\ queue' = Tail(queue)
    /\ doing' = [doing EXCEPT ![w] = Head(queue)]
    /\ UNCHANGED closed

Finish(w) ==
    /\ doing[w] # NoTask
    /\ doing' = [doing EXCEPT ![w] = NoTask]
    /\ UNCHANGED <<queue, closed>>

Close ==
    /\ closed' = TRUE
    /\ UNCHANGED <<queue, doing>>

\* The tasks that wait when the pool is closed are dropped, and by then none
\* runs.
Drop ==
    /\ closed /\ \A w \in Worker : doing[w] = NoTask
    /\ queue' = <<>>
    /\ UNCHANGED <<doing, closed>>

Next ==
    \/ \E task \in Task : Add(task)
    \/ \E w \in Worker : Start(w) \/ Finish(w)
    \/ Close \/ Drop

Spec == Init /\ [][Next]_vars

=============================================================================
