----------------------------- MODULE HeapUsers ------------------------------
(***************************************************************************)
(* Promises settled by worker threads: window.LoadImage and GetAlbumArt    *)
(* make a JsAsyncTask, which keeps the promise in the GlobalHeapManager of *)
(* the panel's global object; a worker fetches the picture and posts an    *)
(* Event_JsTask; the main thread settles the promise.  Whoever lets go of  *)
(* the task last destroys it, while the main thread may unload the script. *)
(*                                                                         *)
(* A section that holds one mutex is one step.  Two sections nest mutexes  *)
(* and are split: the destructor of a task on a worker holds cleanupLock_  *)
(* when it takes heapUsersLock_, and PrepareForGc holds heapUsersLock_     *)
(* when it takes the cleanupLock_ of each user.                            *)
(***************************************************************************)
EXTENDS Integers, FiniteSets

CONSTANTS
    Task,     \* the tasks that the scripts make, each fetched by a worker
    MaxLoads  \* bound: times that the panel loads its script

ASSUME LoadAssumption == MaxLoads \in Nat \ {0}

VARIABLES
    global,     \* number of the last global object
    ready,      \* JsStatus::Working: the script is loaded
    parsing,    \* isParsingScript_: the script itself is on the stack
    window,     \* whether the window is known to the event dispatcher
    users,      \* heapUsers_ of the current heap manager
    elements,   \* heapElements_: the tasks whose promises it keeps
    unused,     \* unusedHeapElements_
    owner,      \* pNativeGlobal_ of each task; 0: not made yet
    available,  \* isJsAvailable_ of each task
    worker,     \* what the worker does with each task
    event,      \* what became of the Event_JsTask of each task
    main        \* what the main thread does when it holds a mutex or a task

heap == <<users, elements, unused>>
vars == <<global, ready, parsing, window, heap, owner, available, worker, event, main>>

Idle == [step |-> "idle"]

Init ==
    /\ global = 1 /\ ready = TRUE /\ parsing = TRUE /\ window = TRUE
    /\ users = {} /\ elements = {} /\ unused = {}
    /\ owner = [t \in Task |-> 0]
    /\ available = [t \in Task |-> FALSE]
    /\ worker = [t \in Task |-> "none"]
    /\ event = [t \in Task |-> "none"]
    /\ main = Idle

\* The worker is in the destructor of t and holds its cleanupLock_.
DestroyedByWorker(t) == worker[t] \in {"remove", "unregister"}

\* The worker still refers to t.
HasReference(t) == worker[t] \in {"queued", "fetch", "drop"}

\* The main thread holds heapUsersLock_.
Preparing == main.step = "prepare"

Becomes(t, s) == worker' = [worker EXCEPT ![t] = s]

------------------------------------------------------------------------------
(* The worker threads *)

IsReallyCanceled(t) == ~available[t]

\* The code's IsCanceled: it answers TRUE for a task that is not canceled.
IsCanceled(t) == available[t]

\* operator() goes on with the tasks that are not canceled.
Start(t) ==
    /\ worker[t] = "queued"
    /\ Becomes(t, IF IsCanceled(t) THEN "fetch" ELSE "drop")
    /\ UNCHANGED <<global, ready, parsing, window, heap, owner, available, event, main>>

\* The picture is there: the event is posted, unless the window is gone.
Post(t) ==
    /\ worker[t] = "fetch"
    /\ Becomes(t, "drop")
    /\ event' = IF window THEN [event EXCEPT ![t] = "queued"] ELSE event
    /\ UNCHANGED <<global, ready, parsing, window, heap, owner, available, main>>

\* The worker lets go of the task; if it is the last, it destroys the task.
Drop(t) ==
    /\ worker[t] = "drop"
    /\ Becomes(t, IF event[t] = "none" THEN "destroy" ELSE "gone")
    /\ UNCHANGED <<global, ready, parsing, window, heap, owner, available, event, main>>

DestroyAnyway(t) == "remove"

\* What the destructor does when it has locked cleanupLock_.
DestroyIfAvailable(t) == IF available[t] THEN "remove" ELSE "gone"

Destroy(t) ==
    /\ worker[t] = "destroy"
    /\ Becomes(t, DestroyIfAvailable(t))
    /\ UNCHANGED <<global, ready, parsing, window, heap, owner, available, event, main>>

\* Remove, under heapElementsLock_: the value waits for the main thread.
Remove(t) ==
    /\ worker[t] = "remove"
    /\ elements' = elements \ {t}
    /\ unused' = unused \cup {t}
    /\ Becomes(t, "unregister")
    /\ UNCHANGED <<global, ready, parsing, window, users, owner, available, event, main>>

UsersLockIsFree == ~Preparing

Unregister(t) ==
    /\ worker[t] = "unregister" /\ UsersLockIsFree
    /\ users' = users \ {t}
    /\ Becomes(t, "gone")
    /\ UNCHANGED <<global, ready, parsing, window, elements, unused, owner, available, event, main>>

------------------------------------------------------------------------------
(* The main thread *)

\* The script asks for a picture.  Store clears what workers have removed.
MakeTask(t) ==
    /\ main = Idle /\ ready
    /\ owner[t] = 0
    /\ owner' = [owner EXCEPT ![t] = global]
    /\ elements' = elements \cup {t}
    /\ unused' = {}
    /\ users' = users \cup {t}
    /\ available' = [available EXCEPT ![t] = TRUE]
    /\ Becomes(t, "queued")
    /\ UNCHANGED <<global, ready, parsing, window, event, main>>

MaySettleAnyway(t) == TRUE

\* IsReadyForCallback, and InvokeJs under cleanupLock_.
MaySettle(t) == ready /\ ~parsing /\ available[t]

\* The event is executed, maybe in the message loop of a dialog of the script:
\* InvokeJs gets the promise and settles it, if it may.
RunTask(t) ==
    /\ main = Idle /\ event[t] = "queued" /\ window
    /\ unused' = IF MaySettle(t) THEN {} ELSE unused
    /\ main' = [step |-> IF MaySettle(t) THEN "settled" ELSE "skipped", task |-> t]
    /\ UNCHANGED <<global, ready, parsing, window, users, elements, owner, available, worker, event>>

\* The event is destroyed; if the worker has let go, so is the task.
ReleaseTask ==
    /\ main.step \in {"settled", "skipped"}
    /\ LET t == main.task
           destroys == ~HasReference(t) /\ available[t]
       IN  /\ event' = [event EXCEPT ![t] = "none"]
           /\ users' = IF destroys THEN users \ {t} ELSE users
           /\ elements' = IF destroys THEN elements \ {t} ELSE elements
           /\ unused' = IF destroys THEN unused \cup {t} ELSE unused
    /\ main' = Idle
    /\ UNCHANGED <<global, ready, parsing, window, owner, available, worker>>

\* JsContainer::Finalize: PrepareForGc locks heapUsersLock_.
BeginUnload ==
    /\ main = Idle /\ ready
    /\ ready' = FALSE
    /\ main' = [step |-> "prepare", left |-> users]
    /\ UNCHANGED <<global, parsing, window, heap, owner, available, worker, event>>

CleanupLockIsFree(t) == ~DestroyedByWorker(t)

\* PrepareForGlobalGc of one user, under its cleanupLock_.
PrepareUser ==
    /\ Preparing
    /\ \E t \in main.left :
         /\ CleanupLockIsFree(t)
         /\ available' = [available EXCEPT ![t] = FALSE]
         /\ main' = [main EXCEPT !.left = @ \ {t}]
    /\ UNCHANGED <<global, ready, parsing, window, heap, owner, worker, event>>

\* The maps are cleared without heapElementsLock_, and the manager is destroyed.
EndUnload ==
    /\ Preparing /\ main.left = {}
    /\ users' = {} /\ elements' = {} /\ unused' = {}
    /\ main' = Idle
    /\ UNCHANGED <<global, ready, parsing, window, owner, available, worker, event>>

\* The script is loaded again, in a new global object.
Load ==
    /\ main = Idle /\ ~ready /\ window
    /\ global < MaxLoads
    /\ global' = global + 1
    /\ ready' = TRUE /\ parsing' = TRUE
    /\ UNCHANGED <<window, heap, owner, available, worker, event, main>>

\* ExecuteScript is left: what was executed on the top level of the script, with
\* the dialogs that it opened, has come to its end.
EndParsing ==
    /\ main = Idle /\ parsing
    /\ parsing' = FALSE
    /\ UNCHANGED <<global, ready, window, heap, owner, available, worker, event, main>>

\* The panel is destroyed after its script was unloaded; its events go.
RemoveWindow ==
    /\ main = Idle /\ ~ready /\ window
    /\ window' = FALSE
    /\ event' = [t \in Task |-> "none"]
    /\ UNCHANGED <<global, ready, parsing, heap, owner, available, worker, main>>

------------------------------------------------------------------------------
(* Specification *)

WorkerStep(t) == Start(t) \/ Post(t) \/ Drop(t) \/ Destroy(t) \/ Remove(t) \/ Unregister(t)

UnloadStep == PrepareUser \/ EndUnload

Next ==
    \/ \E t \in Task : WorkerStep(t) \/ MakeTask(t) \/ RunTask(t)
    \/ ReleaseTask \/ BeginUnload \/ UnloadStep \/ Load \/ EndParsing \/ RemoveWindow

Spec == Init /\ [][Next]_vars

\* Every thread is scheduled, fetches end, and events are executed.
FairSpec ==
    /\ Spec
    /\ WF_vars(ReleaseTask) /\ WF_vars(UnloadStep)
    /\ \A t \in Task : WF_vars(WorkerStep(t)) /\ WF_vars(RunTask(t))

------------------------------------------------------------------------------
(* Properties *)

\* Type invariant.  The users that PrepareForGc has yet to visit are registered:
\* the map does not change while it iterates over it.
TypeOK ==
    /\ global \in 1..MaxLoads
    /\ ready \in BOOLEAN /\ parsing \in BOOLEAN /\ window \in BOOLEAN
    /\ users \subseteq Task /\ elements \subseteq Task /\ unused \subseteq Task
    /\ owner \in [Task -> 0..global] /\ available \in [Task -> BOOLEAN]
    /\ worker \in [Task -> {"none", "queued", "fetch", "drop",
                           "destroy", "remove", "unregister", "gone"}]
    /\ event \in [Task -> {"none", "queued"}]
    /\ \/ main = Idle
       \/ main \in [step : {"prepare"}, left : SUBSET users]
       \/ main \in [step : {"settled", "skipped"}, task : Task]

\* A task exists while a worker or an event refers to it.
Exists(t) == worker[t] \notin {"none", "gone"} \/ event[t] # "none"

\* A promise is settled in the global object that made it, while its script
\* runs, and the heap manager still keeps it, though workers remove promises
\* and another script may have been loaded since.
SettledInItsGlobal ==
    main.step = "settled" => ready /\ owner[main.task] = global /\ main.task \in elements

\* No worker uses the heap manager of a global object after it was destroyed.
NoUseOfDeadManager ==
    \A t \in Task : DestroyedByWorker(t) => owner[t] = global /\ (ready \/ Preparing)

\* PrepareForGc clears the maps without heapElementsLock_: no worker is then
\* about to remove its promise from them.
ClearIsExclusive ==
    Preparing /\ main.left = {} => \A t \in Task : worker[t] # "remove"

\* Both: a worker meets the heap manager of its task alive, and not in the midst
\* of the unlocked end of PrepareForGc.
WorkersMeetAHeap == NoUseOfDeadManager /\ ClearIsExclusive

\* While the script runs, the heap manager knows the tasks that exist and keeps
\* their promises, and no others: a promise is neither collected too early nor
\* kept for ever.
PromisesAreKept ==
    ready => /\ users = {t \in Task : owner[t] = global /\ Exists(t)}
             /\ elements = {t \in users : worker[t] # "unregister"}

\* The event is executed in a dialog that the top level of the script has opened:
\* it is gone, and the promise stays pending for ever.
ConsumedWhileParsing(t) == parsing /\ main = [step |-> "skipped", task |-> t]

\* A promise is settled, unless the script is unloaded first or the event of the
\* promise comes while ExecuteScript is on the stack: then InvokeJsAsyncTask consumes
\* the event and settles nothing.
PromisesAreSettled ==
    \A t \in Task :
      worker[t] = "queued" /\ owner[t] = global
        ~> \/ main = [step |-> "settled", task |-> t]
           \/ ~ready \/ ConsumedWhileParsing(t)

\* The comment in HeapHelper::Finalize, which has the body of the destructor of
\* a task: it "might be called from worker thread".  Were it so at any time,
\* unloading the script would always come to its end.
UnloadReturns == Preparing ~> main = Idle

=============================================================================
