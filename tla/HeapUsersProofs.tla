-------------------------- MODULE HeapUsersProofs ---------------------------
(***************************************************************************)
(* Proofs about HeapUsers, for any number of tasks and of loads.           *)
(*                                                                         *)
(* The mutexes are in no variable: that cleanupLock_ and heapUsersLock_    *)
(* suffice is what the invariant says of the tasks that exist.  A task     *)
(* that can still reach the heap manager (available) belongs to the last   *)
(* global object, which runs, or is being unloaded and has yet to visit    *)
(* the task; and a worker in the destructor of a task is one of those.     *)
(***************************************************************************)
EXTENDS HeapUsers, TLAPS


Reachable(t) == Exists(t) /\ available[t]

\* A task has an owner once it is made; who refers to it.
RefInv ==
    \A t \in Task :
      /\ owner[t] = 0 <=> worker[t] = "none"
      /\ worker[t] = "none" => event[t] = "none" /\ ~available[t]
      /\ worker[t] = "queued" => event[t] = "none"
      /\ worker[t] = "fetch" => event[t] = "none"
      /\ worker[t] = "destroy" => event[t] = "none"
      /\ DestroyedByWorker(t) => event[t] = "none" /\ available[t]

MainInv ==
    /\ Preparing => ~ready
    /\ main.step \in {"settled", "skipped"} => event[main.task] = "queued"
    /\ main.step = "settled" => ready /\ available[main.task]

\* A task that can reach a heap manager reaches the one that is there.
ReachInv ==
    \A t \in Task : Reachable(t) =>
      /\ owner[t] = global
      /\ ready \/ (Preparing /\ t \in main.left)

KeptInv ==
    /\ PromisesAreKept
    /\ ready => \A t \in Task : Exists(t) /\ owner[t] = global => available[t]

\* Between two scripts the maps are empty.
EmptyInv == ready \/ Preparing \/ (users = {} /\ elements = {})

HeapInv == EmptyInv /\ TypeOK /\ RefInv /\ MainInv /\ ReachInv /\ KeptInv

------------------------------------------------------------------------------

USE LoadAssumption DEF heap

LEMMA InitIsSafe == Init => HeapInv
  <1> SUFFICES ASSUME Init PROVE HeapInv
    OBVIOUS
  <1>1. TypeOK
    BY DEF Init, TypeOK, Idle
  <1>2. RefInv /\ MainInv /\ ReachInv
    BY DEF Init, RefInv, MainInv, ReachInv, DestroyedByWorker, Preparing, Idle, Reachable
  <1>3. KeptInv
    BY DEF Init, KeptInv, PromisesAreKept, Exists
  <1>4. EmptyInv
    BY DEF EmptyInv, Init
  <1> QED
    BY <1>1, <1>2, <1>3, <1>4 DEF HeapInv

LEMMA WorkerIsSafe ==
    ASSUME NEW t \in Task
    PROVE  HeapInv /\ WorkerStep(t) => HeapInv'
  <1> SUFFICES ASSUME HeapInv, WorkerStep(t) PROVE HeapInv'
    OBVIOUS
  <1> USE DEF WorkerStep, Start, Post, Drop, Destroy, Remove, Unregister, Becomes,
              IsCanceled, DestroyIfAvailable, UsersLockIsFree, HeapInv
  <1>1. TypeOK'
    BY DEF TypeOK, Preparing, Idle
  <1>2. RefInv'
    BY DEF RefInv, DestroyedByWorker, TypeOK
  <1>3. MainInv'
    BY DEF MainInv, RefInv, TypeOK, Preparing, Idle
  <1>4. ReachInv'
    BY DEF ReachInv, RefInv, Reachable, Exists, TypeOK, Preparing
  <1>5. KeptInv'
    BY DEF KeptInv, PromisesAreKept, RefInv, ReachInv, Reachable, Exists, TypeOK,
           DestroyedByWorker
  <1>9. EmptyInv'
    BY DEF EmptyInv, Preparing, Idle
  <1> QED
    BY <1>1, <1>2, <1>3, <1>4, <1>5, <1>9

LEMMA MakeIsSafe ==
    ASSUME NEW t \in Task
    PROVE  HeapInv /\ MakeTask(t) => HeapInv'
  <1> SUFFICES ASSUME HeapInv, MakeTask(t) PROVE HeapInv'
    OBVIOUS
  <1> USE DEF MakeTask, Becomes, HeapInv
  <1>1. TypeOK'
    BY DEF TypeOK, Idle
  <1>2. RefInv'
    BY DEF RefInv, DestroyedByWorker, TypeOK
  <1>3. MainInv' /\ ReachInv'
    BY DEF MainInv, ReachInv, Reachable, Exists, TypeOK, Preparing, Idle
  <1>4. KeptInv'
    BY DEF KeptInv, PromisesAreKept, RefInv, Exists, TypeOK
  <1>9. EmptyInv'
    BY DEF EmptyInv, Preparing, Idle
  <1> QED
    BY <1>1, <1>2, <1>3, <1>4, <1>9

LEMMA RunIsSafe ==
    ASSUME NEW t \in Task
    PROVE  HeapInv /\ RunTask(t) => HeapInv'
  <1> SUFFICES ASSUME HeapInv, RunTask(t) PROVE HeapInv'
    OBVIOUS
  <1> USE DEF RunTask, MaySettle, HeapInv
  <1>1. TypeOK'
    BY DEF TypeOK
  <1>2. RefInv' /\ MainInv'
    BY DEF RefInv, DestroyedByWorker, MainInv, Preparing
  <1>3. ReachInv'
    BY DEF ReachInv, Reachable, Exists, Preparing, Idle
  <1>4. KeptInv'
    BY DEF KeptInv, PromisesAreKept, Exists
  <1>9. EmptyInv'
    BY DEF EmptyInv, Preparing, Idle
  <1> QED
    BY <1>1, <1>2, <1>3, <1>4, <1>9

LEMMA ReleaseIsSafe == HeapInv /\ ReleaseTask => HeapInv'
  <1> SUFFICES ASSUME HeapInv, ReleaseTask PROVE HeapInv'
    OBVIOUS
  <1> DEFINE t == main.task
  <1>0. t \in Task /\ event[t] = "queued" /\ event' = [event EXCEPT ![t] = "none"]
    BY DEF ReleaseTask, HeapInv, TypeOK, MainInv, Idle
  <1> USE DEF ReleaseTask, HasReference, HeapInv
  <1>1. TypeOK'
    BY <1>0 DEF TypeOK, Idle
  <1>2. RefInv' /\ MainInv'
    BY <1>0 DEF RefInv, DestroyedByWorker, MainInv, Preparing, Idle, TypeOK
  <1>3. ReachInv'
    BY <1>0 DEF ReachInv, Reachable, Exists, Preparing, Idle, TypeOK
  <1>4. KeptInv'
    BY <1>0 DEF KeptInv, PromisesAreKept, RefInv, DestroyedByWorker, Exists, TypeOK
  <1>9. EmptyInv'
    BY DEF EmptyInv, Preparing, Idle
  <1> QED
    BY <1>1, <1>2, <1>3, <1>4, <1>9

LEMMA UnloadIsSafe == HeapInv /\ (BeginUnload \/ UnloadStep) => HeapInv'
  <1> SUFFICES ASSUME HeapInv, BeginUnload \/ UnloadStep PROVE HeapInv'
    OBVIOUS
  <1> USE DEF BeginUnload, UnloadStep, PrepareUser, EndUnload, CleanupLockIsFree, HeapInv
  <1>1. TypeOK'
    <2>1. CASE BeginUnload
      <3>1. main' \in [step : {"prepare"}, left : SUBSET users]
        BY <2>1
      <3> QED
        BY <2>1, <3>1 DEF TypeOK
    <2>2. CASE EndUnload
      BY <2>2 DEF TypeOK
    <2>3. ASSUME NEW t \in main.left, PrepareUser,
                 available' = [available EXCEPT ![t] = FALSE],
                 main' = [main EXCEPT !.left = @ \ {t}]
          PROVE  TypeOK'
      <3>1. main \in [step : {"prepare"}, left : SUBSET users]
        BY <2>3 DEF TypeOK, Idle, Preparing
      <3>2. main' \in [step : {"prepare"}, left : SUBSET users]
        BY <2>3, <3>1
      <3>3. available' \in [Task -> BOOLEAN]
        BY <2>3 DEF TypeOK
      <3> QED
        BY <2>3, <3>2, <3>3 DEF TypeOK
    <2> QED
      BY <2>1, <2>2, <2>3
  <1>2. RefInv'
    BY DEF RefInv, DestroyedByWorker, TypeOK
  <1>3. MainInv'
    BY DEF MainInv, Preparing, Idle, TypeOK
  <1>4. ReachInv'
    BY DEF ReachInv, Reachable, Exists, KeptInv, PromisesAreKept, MainInv, Preparing, Idle, TypeOK
  <1>5. KeptInv'
    BY DEF KeptInv, PromisesAreKept, MainInv, Preparing
  <1>9. EmptyInv'
    <2>1. CASE BeginUnload
      BY <2>1 DEF EmptyInv, Preparing
    <2>2. CASE PrepareUser
      <3>1. Preparing'
        BY <2>2 DEF TypeOK, Idle, Preparing
      <3> QED
        BY <3>1, Zenon DEF EmptyInv
    <2>3. CASE EndUnload
      BY <2>3 DEF EmptyInv
    <2> QED
      BY <2>1, <2>2, <2>3
  <1> QED
    BY <1>1, <1>2, <1>3, <1>4, <1>5, <1>9

LEMMA LoadIsSafe == HeapInv /\ (Load \/ RemoveWindow) => HeapInv'
  <1> SUFFICES ASSUME HeapInv, Load \/ RemoveWindow PROVE HeapInv'
    OBVIOUS
  <1> USE DEF Load, RemoveWindow, HeapInv
  <1>1. TypeOK'
    <2>1. CASE Load
      <3>1. global' \in 1..MaxLoads /\ \A n \in 0..global : n \in 0..global'
        BY <2>1 DEF TypeOK
      <3>2. owner' \in [Task -> 0..global']
        BY <2>1, <3>1 DEF TypeOK
      <3> QED
        BY <2>1, <3>1, <3>2 DEF TypeOK
    <2>2. CASE RemoveWindow
      BY <2>2 DEF TypeOK
    <2> QED
      BY <2>1, <2>2
  <1>2. RefInv' /\ MainInv'
    BY DEF RefInv, DestroyedByWorker, MainInv, Preparing, Idle, TypeOK
  <1>3. \A t \in Task : ~Reachable(t)
    BY DEF ReachInv, Preparing, Idle
  <1>4. ReachInv'
    BY <1>3 DEF ReachInv, Reachable, Exists, TypeOK
  <1>5. KeptInv'
    <2>1. users = {} /\ elements = {}
      BY DEF EmptyInv, Preparing, Idle
    <2>2. \A t \in Task : owner'[t] # global' \/ ~ready'
      BY DEF TypeOK
    <2> QED
      BY <2>1, <2>2 DEF KeptInv, PromisesAreKept
  <1>9. EmptyInv'
    BY DEF EmptyInv, Preparing, Idle
  <1> QED
    BY <1>1, <1>2, <1>4, <1>5, <1>9

LEMMA ParsingIsSafe == HeapInv /\ EndParsing => HeapInv'
  <1> SUFFICES ASSUME HeapInv, EndParsing PROVE HeapInv'
    OBVIOUS
  <1> USE DEF EndParsing, HeapInv
  <1>1. TypeOK'
    BY DEF TypeOK
  <1>2. RefInv' /\ MainInv'
    BY DEF RefInv, DestroyedByWorker, MainInv, Preparing
  <1>3. ReachInv'
    BY DEF ReachInv, Reachable, Exists, Preparing
  <1>4. KeptInv' /\ EmptyInv'
    BY DEF KeptInv, PromisesAreKept, EmptyInv, Exists, Preparing
  <1> QED
    BY <1>1, <1>2, <1>3, <1>4

\* The invariant from which the safety properties of the tasks follow.
THEOREM HeapIsSafe == Spec => []HeapInv
  <1>1. HeapInv /\ [Next]_vars => HeapInv'
    <2>1. HeapInv /\ UNCHANGED vars => HeapInv'
      BY DEF HeapInv, TypeOK, RefInv, MainInv, ReachInv, KeptInv, EmptyInv, PromisesAreKept,
             Exists, Reachable, DestroyedByWorker, Preparing, vars, heap
    <2> QED
      BY <2>1, WorkerIsSafe, MakeIsSafe, RunIsSafe, ReleaseIsSafe, UnloadIsSafe, LoadIsSafe,
         ParsingIsSafe
      DEF Next
  <1> QED
    BY InitIsSafe, <1>1, PTL DEF Spec

\* The type invariant, and the map of users stays as it is while PrepareForGc
\* iterates over it.
THEOREM TypeCorrect == Spec => []TypeOK
  <1>1. HeapInv => TypeOK
    BY DEF HeapInv
  <1> QED
    BY <1>1, HeapIsSafe, PTL

\* A promise is settled in the global object that made it, and is still kept.
THEOREM SettledWhereMade == Spec => []SettledInItsGlobal
  <1>1. HeapInv => SettledInItsGlobal
    BY DEF HeapInv, SettledInItsGlobal, TypeOK, Idle, RefInv, MainInv, ReachInv, KeptInv,
           PromisesAreKept, Reachable, Exists, DestroyedByWorker
  <1> QED
    BY <1>1, HeapIsSafe, PTL

\* No worker uses a heap manager that was destroyed.
THEOREM ManagersOutliveTheirUse == Spec => []NoUseOfDeadManager
  <1>1. HeapInv => NoUseOfDeadManager
    BY DEF HeapInv, NoUseOfDeadManager, RefInv, ReachInv, Reachable, Exists, DestroyedByWorker
  <1> QED
    BY <1>1, HeapIsSafe, PTL

\* PrepareForGc may clear the maps without heapElementsLock_.
THEOREM ClearNeedsNoLock == Spec => []ClearIsExclusive
  <1>1. HeapInv => ClearIsExclusive
    BY DEF HeapInv, ClearIsExclusive, MainInv, RefInv, ReachInv, Reachable, Exists,
           DestroyedByWorker, Preparing
  <1> QED
    BY <1>1, HeapIsSafe, PTL

\* A worker meets the heap manager of its task alive and not being cleared.
THEOREM WorkersAreSafe == Spec => []WorkersMeetAHeap
  <1>1. NoUseOfDeadManager /\ ClearIsExclusive => WorkersMeetAHeap
    BY DEF WorkersMeetAHeap
  <1> QED
    BY <1>1, ManagersOutliveTheirUse, ClearNeedsNoLock, PTL

\* While a script runs the heap manager keeps the promises of the tasks that
\* exist, and no others.
THEOREM NothingLostOrLeaked == Spec => []PromisesAreKept
  <1>1. HeapInv => PromisesAreKept
    BY DEF HeapInv, KeptInv
  <1> QED
    BY <1>1, HeapIsSafe, PTL

=============================================================================
