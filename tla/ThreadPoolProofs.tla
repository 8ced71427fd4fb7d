-------------------------- MODULE ThreadPoolProofs --------------------------
(* The thread pool for any number of threads and tasks. *)
EXTENDS ThreadPool, FiniteSetTheorems, TLAPS

\* The threads in one of some states, when f says where each thread is.
In(f, states) == {t \in Thread : f[t] \in states}

LEMMA WithIsIn == \A states : With(states) = In(pc, states) /\ With(states)' = In(pc', states)
  BY DEF With, In

LEMMA CountIsNatural ==
    ASSUME NEW f, NEW states
    PROVE  /\ IsFiniteSet(In(f, states))
           /\ Cardinality(In(f, states)) \in Nat /\ Cardinality(Thread) \in Nat
           /\ Cardinality(In(f, states)) \in 0..Cardinality(Thread)
  <1>1. In(f, states) \in SUBSET Thread /\ IsFiniteSet(Thread)
    BY ThreadAssumption DEF In
  <1>2. IsFiniteSet(In(f, states)) /\ Cardinality(In(f, states)) <= Cardinality(Thread)
    BY <1>1, FS_Subset
  <1>3. Cardinality(In(f, states)) \in Nat /\ Cardinality(Thread) \in Nat
    BY <1>1, <1>2, FS_CardinalityType
  <1> QED
    BY <1>2, <1>3

\* One thread that goes to another state changes a count by one at most.
LEMMA CountEnters ==
    ASSUME NEW f \in [Thread -> PC], NEW t \in Thread, NEW s \in PC, NEW states,
           f[t] \notin states, s \in states
    PROVE  Cardinality(In([f EXCEPT ![t] = s], states)) = Cardinality(In(f, states)) + 1
  <1>1. In([f EXCEPT ![t] = s], states) = In(f, states) \cup {t} /\ t \notin In(f, states)
    BY DEF In
  <1> QED
    BY <1>1, FS_AddElement, CountIsNatural

LEMMA CountLeaves ==
    ASSUME NEW f \in [Thread -> PC], NEW t \in Thread, NEW s \in PC, NEW states,
           f[t] \in states, s \notin states
    PROVE  Cardinality(In([f EXCEPT ![t] = s], states)) = Cardinality(In(f, states)) - 1
  <1>1. In([f EXCEPT ![t] = s], states) = In(f, states) \ {t} /\ t \in In(f, states)
    BY DEF In
  <1> QED
    BY <1>1, FS_RemoveElement, CountIsNatural

LEMMA CountStays ==
    ASSUME NEW f \in [Thread -> PC], NEW t \in Thread, NEW s \in PC, NEW states,
           f[t] \in states <=> s \in states
    PROVE  In([f EXCEPT ![t] = s], states) = In(f, states)
  BY DEF In

------------------------------------------------------------------------------
(* The invariant *)

\* Finalize has begun exactly when isExiting_ is set.
ExitIsKnown == exiting <=> main \in {"notify", "join", "done"}

PoolInv ==
    /\ TypeOK /\ IdleIsAccurate /\ NoLostNotification
    /\ ExitIsKnown /\ NobodySleepsThroughExit

LEMMA InitPool == Init => PoolInv
  <1> SUFFICES ASSUME Init PROVE PoolInv
    OBVIOUS
  <1>1. With(Idle) = {} /\ With({"asleep"}) = {}
    BY DEF Init, With, Idle
  <1>2. IdleIsAccurate /\ NoLostNotification /\ NobodySleepsThroughExit /\ ExitIsKnown
    BY <1>1, FS_EmptySet
    DEF Init, IdleIsAccurate, NoLostNotification, NobodySleepsThroughExit, ExitIsKnown
  <1>3. Cardinality(Thread) \in Nat
    BY CountIsNatural
  <1>4. tasks \in Seq(1..added) /\ added \in 0..MaxTasks /\ idle \in 0..Cardinality(Thread)
    BY <1>3, TaskAssumption DEF Init
  <1>5. pc \in [Thread -> PC] /\ job \in [Thread -> NoJob..added]
    BY DEF Init, PC, NoJob
  <1>6. TypeOK
    BY <1>4, <1>5 DEF Init, TypeOK
  <1> QED
    BY <1>2, <1>6 DEF PoolInv

\* A step that moves one thread and changes the count of idle threads as much
\* as the set of them changes, ...
LEMMA IdleMove ==
    ASSUME PoolInv, NEW t \in Thread, NEW s \in PC, Move(t, s),
           \/ pc[t] \in Idle /\ s \in Idle /\ idle' = idle
           \/ pc[t] \notin Idle /\ s \notin Idle /\ idle' = idle
           \/ pc[t] \in Idle /\ s \notin Idle /\ idle' = idle - 1
           \/ pc[t] \notin Idle /\ s \in Idle /\ idle' = idle + 1
    PROVE  /\ IdleIsAccurate' /\ idle' \in 0..Cardinality(Thread)
           /\ pc' \in [Thread -> PC]
  <1>1. /\ pc \in [Thread -> PC] /\ pc' = [pc EXCEPT ![t] = s]
        /\ idle = Cardinality(In(pc, Idle)) /\ idle \in Nat
    BY WithIsIn, CountIsNatural DEF PoolInv, TypeOK, Move, IdleIsAccurate
  <1>2. idle' = Cardinality(In([pc EXCEPT ![t] = s], Idle))
    <2>1. CASE pc[t] \in Idle <=> s \in Idle
      BY <1>1, <2>1, CountStays
    <2>2. CASE pc[t] \in Idle /\ s \notin Idle
      BY <1>1, <2>2, CountLeaves
    <2>3. CASE pc[t] \notin Idle /\ s \in Idle
      BY <1>1, <2>3, CountEnters
    <2> QED
      BY <2>1, <2>2, <2>3
  <1>3. With(Idle)' = In(pc', Idle)
    BY DEF With, In
  <1>4. idle' = Cardinality(In(pc', Idle)) /\ idle' \in 0..Cardinality(Thread)
    BY <1>1, <1>2, CountIsNatural
  <1>5. pc' \in [Thread -> PC]
    BY <1>1
  <1> QED
    BY <1>3, <1>4, <1>5 DEF IdleIsAccurate

\* ... and one that leaves all threads where they are.
LEMMA IdleStill ==
    ASSUME PoolInv, UNCHANGED <<pc, idle>>
    PROVE  IdleIsAccurate' /\ idle' \in 0..Cardinality(Thread) /\ pc' \in [Thread -> PC]
  BY DEF PoolInv, TypeOK, IdleIsAccurate, With

\* A thread that moves and takes no task leaves enough threads awake, unless it
\* goes to sleep or does something else than come to the queue.
LEMMA AwakeMove ==
    ASSUME PoolInv, NEW t \in Thread, NEW s \in PC \ {"asleep"}, Move(t, s),
           UNCHANGED tasks, exiting \/ pc[t] \notin Awake \/ s \in Awake, exiting => exiting'
    PROVE  NoLostNotification'
  <1> SUFFICES ASSUME ~exiting', With({"asleep"})' # {}
               PROVE  Len(tasks') <= Cardinality(With(Awake)')
    BY DEF NoLostNotification
  <1>1. /\ pc \in [Thread -> PC] /\ pc' = [pc EXCEPT ![t] = s] /\ ~exiting
        /\ Len(tasks) \in Nat
    BY DEF PoolInv, TypeOK, Move
  <1>2. With({"asleep"}) # {}
    BY <1>1 DEF With
  <1>3. Len(tasks) <= Cardinality(In(pc, Awake))
    BY <1>1, <1>2, WithIsIn DEF PoolInv, NoLostNotification
  <1>4. /\ Cardinality(In(pc, Awake)) \in Nat
        /\ \/ Cardinality(In(pc', Awake)) = Cardinality(In(pc, Awake))
           \/ Cardinality(In(pc', Awake)) = Cardinality(In(pc, Awake)) + 1
    <2>1. CASE s \in Awake /\ pc[t] \notin Awake
      BY <1>1, <2>1, CountEnters, CountIsNatural
    <2>2. CASE s \in Awake <=> pc[t] \in Awake
      BY <1>1, <2>2, CountStays, CountIsNatural
    <2> QED
      BY <1>1, <2>1, <2>2
  <1>5. With(Awake)' = In(pc', Awake)
    BY DEF With, In
  <1> QED
    BY <1>1, <1>3, <1>4, <1>5

------------------------------------------------------------------------------
(* The steps of the main thread *)

LEMMA AddTaskKeeps == PoolInv /\ AddTask => PoolInv'
  <1> SUFFICES ASSUME PoolInv, AddTask PROVE PoolInv'
    OBVIOUS
  <1>1. /\ tasks \in Seq(1..added) /\ added \in 0..MaxTasks /\ added < MaxTasks
        /\ added' = added + 1 /\ tasks' = Append(tasks, added + 1)
        /\ main = "ready" /\ main' = "checkQueue" /\ ~exiting /\ exiting' = exiting
        /\ job \in [Thread -> NoJob..added] /\ job' = job /\ idle' = idle
        /\ exiting \in BOOLEAN
    BY DEF PoolInv, TypeOK, AddTask
  <1>2. /\ tasks' \in Seq(1..added') /\ added' \in 0..MaxTasks
        /\ job' \in [Thread -> NoJob..added'] /\ Len(tasks') = Len(tasks) + 1
        /\ Len(tasks) \in Nat
    <2>1. tasks \in Seq(1..added') /\ added + 1 \in 1..added'
      BY <1>1, TaskAssumption
    <2> QED
      BY <1>1, <2>1, TaskAssumption DEF NoJob
  <1>3. ExitIsKnown' /\ NobodySleepsThroughExit'
    BY <1>1 DEF ExitIsKnown, NobodySleepsThroughExit
  <1>4. CASE With({"asleep"}) = {}
    <2>1. UNCHANGED <<pc, idle>>
      BY <1>1, <1>4 DEF AddTask, NotifyOne
    <2>2. With({"asleep"})' = {}
      BY <1>4, <2>1 DEF With
    <2> QED
      BY <1>1, <1>2, <1>3, <2>1, <2>2, IdleStill DEF PoolInv, TypeOK, NoLostNotification
  <1>5. CASE With({"asleep"}) # {}
    <2>1. PICK t \in With({"asleep"}) : Move(t, "woken")
      BY <1>5 DEF AddTask, NotifyOne
    <2>2. /\ t \in Thread /\ pc[t] = "asleep" /\ pc \in [Thread -> PC]
          /\ "asleep" \in Idle /\ "woken" \in Idle /\ "woken" \in PC
          /\ "asleep" \notin Awake /\ "woken" \in Awake
      BY DEF PoolInv, TypeOK, With, Idle, Awake, PC
    <2>3. IdleIsAccurate' /\ idle' \in 0..Cardinality(Thread) /\ pc' \in [Thread -> PC]
      BY <1>1, <2>1, <2>2, IdleMove
    <2>4. Cardinality(In([pc EXCEPT ![t] = "woken"], Awake)) = Cardinality(In(pc, Awake)) + 1
      BY <2>2, CountEnters
    <2>5. /\ With(Awake) = In(pc, Awake)
          /\ With(Awake)' = In([pc EXCEPT ![t] = "woken"], Awake)
      BY <2>1 DEF With, In, Move
    <2>6. Len(tasks) <= Cardinality(With(Awake))
      BY <1>1, <1>5 DEF PoolInv, NoLostNotification
    <2>7. NoLostNotification'
      BY <1>2, <2>4, <2>5, <2>6, CountIsNatural DEF NoLostNotification
    <2> QED
      BY <1>1, <1>2, <1>3, <2>3, <2>7 DEF PoolInv, TypeOK
  <1> QED
    BY <1>4, <1>5

LEMMA CheckIdleKeeps == PoolInv /\ CheckIdle => PoolInv'
  <1> SUFFICES ASSUME PoolInv, CheckIdle PROVE PoolInv'
    OBVIOUS
  <1>1. ~exiting /\ ExitIsKnown' /\ NobodySleepsThroughExit'
    BY DEF PoolInv, TypeOK, CheckIdle, ExitIsKnown, NobodySleepsThroughExit
  <1>2. /\ UNCHANGED <<tasks, added, idle, exiting, job>> /\ main' = "ready"
        /\ UNCHANGED pc \/ \E t \in With({"unborn"}) : Move(t, "born")
    BY DEF CheckIdle
  <1>3. CASE UNCHANGED pc
    <2>1. NoLostNotification'
      BY <1>2, <1>3 DEF PoolInv, NoLostNotification, With
    <2> QED
      BY <1>1, <1>2, <1>3, <2>1, IdleStill DEF PoolInv, TypeOK
  <1>4. ASSUME NEW t \in With({"unborn"}), Move(t, "born") PROVE PoolInv'
    <2>1. /\ t \in Thread /\ pc[t] \notin Idle /\ pc[t] \notin Awake
          /\ "born" \notin Idle /\ "born" \in PC \ {"asleep"} /\ "born" \in Awake
      BY DEF With, Idle, Awake, PC
    <2>2. IdleIsAccurate' /\ idle' \in 0..Cardinality(Thread) /\ pc' \in [Thread -> PC]
      BY <1>2, <1>4, <2>1, IdleMove
    <2>3. NoLostNotification'
      BY <1>2, <1>4, <2>1, AwakeMove
    <2> QED
      BY <1>1, <1>2, <2>2, <2>3 DEF PoolInv, TypeOK
  <1> QED
    BY <1>2, <1>3, <1>4

LEMMA NotifyAllKeeps == PoolInv /\ NotifyAll => PoolInv'
  <1> SUFFICES ASSUME PoolInv, NotifyAll PROVE PoolInv'
    OBVIOUS
  <1>1. /\ pc' = [t \in Thread |-> IF pc[t] = "asleep" THEN "woken" ELSE pc[t]]
        /\ pc \in [Thread -> PC] /\ idle' = idle
    BY DEF PoolInv, TypeOK, NotifyAll, AllWoken
  <1>2. pc' \in [Thread -> PC] /\ With(Idle)' = With(Idle) /\ With({"asleep"})' = {}
    BY <1>1 DEF With, Idle, PC
  <1> QED
    BY <1>1, <1>2 DEF PoolInv, TypeOK, IdleIsAccurate, NoLostNotification, ExitIsKnown,
                      NobodySleepsThroughExit, NotifyAll

\* The steps of the main thread that move no thread.
LEMMA MainKeeps == PoolInv /\ (CheckQueue \/ BeginFinalize \/ Join) => PoolInv'
  <1> SUFFICES ASSUME PoolInv, CheckQueue \/ BeginFinalize \/ Join PROVE PoolInv'
    OBVIOUS
  <1>1. UNCHANGED <<pc, idle, added, job>>
    BY DEF CheckQueue, BeginFinalize, Join
  <1>2. IdleIsAccurate' /\ idle' \in 0..Cardinality(Thread) /\ pc' \in [Thread -> PC]
    BY <1>1, IdleStill
  <1>3. With({"asleep"})' = With({"asleep"}) /\ With(Awake)' = With(Awake)
    BY <1>1 DEF With
  <1>4. CASE CheckQueue
    BY <1>1, <1>2, <1>3, <1>4
    DEF PoolInv, TypeOK, NoLostNotification, ExitIsKnown, NobodySleepsThroughExit, CheckQueue
  <1>5. CASE BeginFinalize
    BY <1>1, <1>2, <1>3, <1>5
    DEF PoolInv, TypeOK, NoLostNotification, ExitIsKnown, NobodySleepsThroughExit, BeginFinalize
  <1>6. CASE Join
    BY <1>1, <1>2, <1>3, <1>6
    DEF PoolInv, TypeOK, NoLostNotification, ExitIsKnown, NobodySleepsThroughExit, Join
  <1> QED
    BY <1>4, <1>5, <1>6

------------------------------------------------------------------------------
(* The steps of a thread *)

\* A step of a thread that does not put it to sleep and that takes no task.
LEMMA ThreadMoves ==
    ASSUME PoolInv, NEW t \in Thread, NEW s \in PC \ {"asleep"}, Move(t, s),
           UNCHANGED <<tasks, added, exiting, main>>, job' \in [Thread -> NoJob..added],
           exiting \/ pc[t] \notin Awake \/ s \in Awake,
           \/ pc[t] \in Idle /\ s \in Idle /\ idle' = idle
           \/ pc[t] \notin Idle /\ s \notin Idle /\ idle' = idle
           \/ pc[t] \in Idle /\ s \notin Idle /\ idle' = idle - 1
           \/ pc[t] \notin Idle /\ s \in Idle /\ idle' = idle + 1
    PROVE  PoolInv'
  <1>1. IdleIsAccurate' /\ idle' \in 0..Cardinality(Thread) /\ pc' \in [Thread -> PC]
    BY IdleMove
  <1>2. NoLostNotification'
    BY AwakeMove
  <1>3. With({"asleep"})' \subseteq With({"asleep"})
    BY DEF PoolInv, TypeOK, With, Move
  <1> QED
    BY <1>1, <1>2, <1>3 DEF PoolInv, TypeOK, ExitIsKnown, NobodySleepsThroughExit

LEMMA TakeKeeps == ASSUME NEW t \in Thread PROVE PoolInv /\ Take(t) => PoolInv'
  <1> SUFFICES ASSUME PoolInv, Take(t) PROVE PoolInv'
    OBVIOUS
  <1>1. /\ tasks \in Seq(1..added) /\ tasks # <<>> /\ added \in Nat
        /\ pc \in [Thread -> PC] /\ job \in [Thread -> NoJob..added]
        /\ pc[t] \in {"lock", "woken"} /\ ~exiting
        /\ Move(t, "took") /\ tasks' = Tail(tasks)
        /\ job' = [job EXCEPT ![t] = Head(tasks)]
        /\ UNCHANGED <<added, idle, exiting, main>>
    BY TaskAssumption DEF PoolInv, TypeOK, Take, MayTake
  <1>2. /\ pc[t] \in Idle /\ "took" \in Idle /\ "took" \in PC
        /\ pc[t] \in Awake /\ "took" \notin Awake
    BY <1>1 DEF Idle, Awake, PC
  <1>3. IdleIsAccurate' /\ idle' \in 0..Cardinality(Thread) /\ pc' \in [Thread -> PC]
    BY <1>1, <1>2, IdleMove
  <1>4. /\ tasks' \in Seq(1..added) /\ Len(tasks') = Len(tasks) - 1 /\ Len(tasks) \in Nat
        /\ Head(tasks) \in 1..added
    BY <1>1
  <1>5. job' \in [Thread -> NoJob..added]
    BY <1>1, <1>4 DEF NoJob
  <1>6. With({"asleep"})' \subseteq With({"asleep"})
    BY <1>1 DEF With, Move
  <1>7. NoLostNotification'
    <2> SUFFICES ASSUME With({"asleep"})' # {} PROVE Len(tasks') <= Cardinality(With(Awake)')
      BY DEF NoLostNotification
    <2>1. Len(tasks) <= Cardinality(With(Awake))
      BY <1>1, <1>6 DEF PoolInv, NoLostNotification
    <2>2. Cardinality(In([pc EXCEPT ![t] = "took"], Awake)) = Cardinality(In(pc, Awake)) - 1
      BY <1>1, <1>2, CountLeaves
    <2>3. /\ With(Awake) = In(pc, Awake)
          /\ With(Awake)' = In([pc EXCEPT ![t] = "took"], Awake)
      BY <1>1 DEF With, In, Move
    <2> QED
      BY <1>4, <2>1, <2>2, <2>3, CountIsNatural
  <1> QED
    BY <1>1, <1>3, <1>4, <1>5, <1>6, <1>7 DEF PoolInv, TypeOK, ExitIsKnown, NobodySleepsThroughExit

LEMMA SleepKeeps == ASSUME NEW t \in Thread PROVE PoolInv /\ Sleep(t) => PoolInv'
  <1> SUFFICES ASSUME PoolInv, Sleep(t) PROVE PoolInv'
    OBVIOUS
  <1>1. /\ pc[t] \in {"lock", "woken"} /\ Move(t, "asleep") /\ tasks = <<>> /\ ~exiting
        /\ UNCHANGED <<tasks, added, idle, exiting, job, main>>
    BY DEF Sleep
  <1>2. pc[t] \in Idle /\ "asleep" \in Idle /\ "asleep" \in PC
    BY <1>1 DEF Idle, PC
  <1>3. IdleIsAccurate' /\ idle' \in 0..Cardinality(Thread) /\ pc' \in [Thread -> PC]
    BY <1>1, <1>2, IdleMove
  <1>4. Cardinality(With(Awake)') \in Nat
    <2>1. With(Awake)' = In(pc', Awake)
      BY DEF With, In
    <2> QED
      BY <2>1, CountIsNatural
  <1>5. NoLostNotification' /\ NobodySleepsThroughExit'
    BY <1>1, <1>4 DEF PoolInv, NoLostNotification, NobodySleepsThroughExit, ExitIsKnown
  <1> QED
    BY <1>1, <1>3, <1>5 DEF PoolInv, TypeOK, ExitIsKnown

LEMMA ThreadKeeps ==
    ASSUME NEW t \in Thread PROVE PoolInv /\ (ThreadStep(t) \/ WakeSpuriously(t)) => PoolInv'
  <1> SUFFICES ASSUME PoolInv, ThreadStep(t) \/ WakeSpuriously(t) PROVE PoolInv'
    OBVIOUS
  <1> USE DEF Move
  <1>1. job \in [Thread -> NoJob..added] /\ NoJob \in NoJob..added
    BY TaskAssumption DEF PoolInv, TypeOK, NoJob
  <1>2. CASE BecomeIdle(t)
    BY <1>1, <1>2, ThreadMoves DEF BecomeIdle, Idle, Awake, PC
  <1>3. CASE CheckExit(t)
    BY <1>1, <1>3, ThreadMoves DEF CheckExit, Idle, Awake, PC
  <1>4. CASE Take(t)
    BY <1>4, TakeKeeps
  <1>5. CASE Sleep(t)
    BY <1>5, SleepKeeps
  <1>6. CASE NoticeExit(t)
    BY <1>1, <1>6, ThreadMoves DEF NoticeExit, Idle, Awake, PC
  <1>7. CASE BeginTask(t)
    BY <1>1, <1>7, ThreadMoves DEF BeginTask, CountDown, Idle, Awake, PC
  <1>8. CASE EndTask(t)
    BY <1>1, <1>8, ThreadMoves DEF EndTask, Idle, Awake, PC
  <1>9. CASE Leave(t)
    BY <1>1, <1>9, ThreadMoves DEF Leave, CountDown, Idle, Awake, PC
  <1>10. CASE WakeSpuriously(t)
    BY <1>1, <1>10, ThreadMoves DEF WakeSpuriously, Idle, Awake, PC
  <1> QED
    BY <1>2, <1>3, <1>4, <1>5, <1>6, <1>7, <1>8, <1>9, <1>10 DEF ThreadStep

LEMMA NextPool == PoolInv /\ [Next]_vars => PoolInv'
  <1> SUFFICES ASSUME PoolInv, [Next]_vars PROVE PoolInv'
    OBVIOUS
  <1>1. CASE UNCHANGED vars
    BY <1>1 DEF vars, PoolInv, TypeOK, IdleIsAccurate, NoLostNotification, ExitIsKnown,
                NobodySleepsThroughExit, With
  <1>2. CASE Next
    BY <1>2, AddTaskKeeps, CheckIdleKeeps, NotifyAllKeeps, MainKeeps, ThreadKeeps
    DEF Next, MainStep
  <1> QED
    BY <1>1, <1>2

\* The invariant holds in every behaviour of the pool.
THEOREM PoolIsSafe == Spec => []PoolInv
  <1> QED
    BY InitPool, NextPool, PTL DEF Spec

\* The variables of ThreadPool keep their types; idleThreadCount_, which is
\* unsigned, never wraps around.
THEOREM TypeCorrect == Spec => []TypeOK
  <1>1. PoolInv => TypeOK
    BY DEF PoolInv
  <1> QED
    BY <1>1, PoolIsSafe, PTL

\* idleThreadCount_ is the number of threads between two tasks.
THEOREM IdleCountIsRight == Spec => []IdleIsAccurate
  <1>1. PoolInv => IdleIsAccurate
    BY DEF PoolInv
  <1> QED
    BY <1>1, PoolIsSafe, PTL

\* While a thread sleeps on hasTask_, as many threads as tasks wait are awake
\* and on their way to the queue.
THEOREM NotificationsSuffice == Spec => []NoLostNotification
  <1>1. PoolInv => NoLostNotification
    BY DEF PoolInv
  <1> QED
    BY <1>1, PoolIsSafe, PTL

\* Finalize joins no thread that sleeps on hasTask_.
THEOREM FinalizeJoinsNoSleeper == Spec => []NobodySleepsThroughExit
  <1>1. PoolInv => NobodySleepsThroughExit
    BY DEF PoolInv
  <1> QED
    BY <1>1, PoolIsSafe, PTL

------------------------------------------------------------------------------
(* The pool implements WorkQueue *)

\* A thread holds a task exactly between taking and ending it.
JobInv == \A t \in Thread : job[t] # NoJob <=> pc[t] \in {"took", "busy"}

LEMMA JobTypes ==
    ASSUME PoolInv
    PROVE  /\ tasks \in Seq(1..added) /\ NoJob \notin 1..added
           /\ job \in [Thread -> NoJob..added] /\ pc \in [Thread -> PC]
  BY TaskAssumption DEF PoolInv, TypeOK, NoJob

LEMMA InitJobs == Init => JobInv
  BY DEF Init, JobInv

\* A step that takes and ends no task leaves JobInv alone.
LEMMA JobsStay ==
    ASSUME PoolInv, JobInv, UNCHANGED job,
           \A t \in Thread : pc'[t] \in {"took", "busy"} <=> pc[t] \in {"took", "busy"}
    PROVE  JobInv'
  BY DEF JobInv

LEMMA MainIsQueue ==
    PoolInv /\ JobInv /\ (AddTask \/ BeginFinalize \/ MainStep) =>
        JobInv' /\ [WorkQueue!Next]_(WorkQueue!vars)
  <1> SUFFICES ASSUME PoolInv, JobInv, AddTask \/ BeginFinalize \/ MainStep
               PROVE  JobInv' /\ [WorkQueue!Next]_(WorkQueue!vars)
    OBVIOUS
  <1>1. \A t \in Thread : pc'[t] \in {"took", "busy"} <=> pc[t] \in {"took", "busy"}
    BY JobTypes
    DEF AddTask, NotifyOne, BeginFinalize, MainStep, CheckQueue, CheckIdle, NotifyAll, AllWoken,
        Join, Move, With
  <1>2. UNCHANGED job
    BY DEF AddTask, BeginFinalize, MainStep, CheckQueue, CheckIdle, NotifyAll, Join
  <1>3. JobInv'
    BY <1>1, <1>2, JobsStay
  <1>4. CASE AddTask
    <2>1. added + 1 \in 1..MaxTasks /\ WorkQueue!Add(added + 1)
      BY <1>4, TaskAssumption DEF AddTask, PoolInv, TypeOK, WorkQueue!Add
    <2> QED
      BY <1>3, <2>1 DEF WorkQueue!Next
  <1>5. CASE BeginFinalize
    BY <1>3, <1>5 DEF BeginFinalize, WorkQueue!Next, WorkQueue!Close
  <1>6. CASE Join
    <2>1. /\ tasks' = <<>> /\ UNCHANGED <<exiting, job>> /\ exiting
          /\ With(PC \ {"unborn", "ended"}) = {}
      BY <1>6 DEF Join, PoolInv, ExitIsKnown
    <2>2. \A t \in Thread : pc[t] \in {"unborn", "ended"}
      BY <2>1, JobTypes DEF With
    <2>3. WorkQueue!Drop
      BY <2>1, <2>2 DEF WorkQueue!Drop, JobInv
    <2> QED
      BY <1>3, <2>3 DEF WorkQueue!Next
  <1>7. CASE CheckQueue \/ CheckIdle \/ NotifyAll
    BY <1>3, <1>7 DEF CheckQueue, CheckIdle, NotifyAll, WorkQueue!vars
  <1> QED
    BY <1>4, <1>5, <1>6, <1>7 DEF MainStep

LEMMA ThreadIsQueue ==
    ASSUME NEW t \in Thread
    PROVE  PoolInv /\ JobInv /\ (ThreadStep(t) \/ WakeSpuriously(t)) =>
             JobInv' /\ [WorkQueue!Next]_(WorkQueue!vars)
  <1> SUFFICES ASSUME PoolInv, JobInv, ThreadStep(t) \/ WakeSpuriously(t)
               PROVE  JobInv' /\ [WorkQueue!Next]_(WorkQueue!vars)
    OBVIOUS
  <1>1. CASE Take(t)
    <2>1. /\ tasks # <<>> /\ ~exiting /\ tasks' = Tail(tasks) /\ exiting' = exiting
          /\ job' = [job EXCEPT ![t] = Head(tasks)] /\ pc' = [pc EXCEPT ![t] = "took"]
          /\ pc[t] \in {"lock", "woken"}
      BY <1>1 DEF Take, MayTake, Move
    <2>2. Head(tasks) # NoJob
      <3>1. tasks \in Seq(1..added) /\ added \in Nat /\ NoJob \notin 1..added
        BY TaskAssumption DEF PoolInv, TypeOK, NoJob
      <3>2. Head(tasks) \in 1..added
        BY <2>1, <3>1
      <3> QED
        BY <3>1, <3>2
    <2>3. JobInv'
      BY <2>1, <2>2, JobTypes DEF JobInv
    <2>4. WorkQueue!Start(t)
      BY <2>1 DEF WorkQueue!Start, JobInv
    <2> QED
      BY <2>3, <2>4 DEF WorkQueue!Next
  <1>2. CASE EndTask(t)
    <2>1. /\ pc[t] = "busy" /\ pc' = [pc EXCEPT ![t] = "finished"]
          /\ job' = [job EXCEPT ![t] = NoJob] /\ UNCHANGED <<tasks, exiting>>
      BY <1>2 DEF EndTask, Move
    <2>2. JobInv' /\ WorkQueue!Finish(t)
      BY <2>1, JobTypes DEF JobInv, WorkQueue!Finish
    <2> QED
      BY <2>2 DEF WorkQueue!Next
  <1>3. CASE \/ BecomeIdle(t) \/ CheckExit(t) \/ Sleep(t) \/ NoticeExit(t)
             \/ BeginTask(t) \/ Leave(t) \/ WakeSpuriously(t)
    <2>1. UNCHANGED <<tasks, exiting, job>>
      BY <1>3 DEF BecomeIdle, CheckExit, Sleep, NoticeExit, BeginTask, Leave, WakeSpuriously
    <2>2. \A u \in Thread : pc'[u] \in {"took", "busy"} <=> pc[u] \in {"took", "busy"}
      BY <1>3, JobTypes DEF BecomeIdle, CheckExit, Sleep, NoticeExit, BeginTask, Leave,
                            WakeSpuriously, Move
    <2> QED
      BY <2>1, <2>2, JobsStay DEF WorkQueue!vars
  <1> QED
    BY <1>1, <1>2, <1>3 DEF ThreadStep

LEMMA NextIsQueue ==
    PoolInv /\ JobInv /\ [Next]_vars => JobInv' /\ [WorkQueue!Next]_(WorkQueue!vars)
  <1>1. PoolInv /\ JobInv /\ UNCHANGED vars => JobInv' /\ UNCHANGED WorkQueue!vars
    BY DEF vars, JobInv, WorkQueue!vars
  <1> QED
    BY <1>1, MainIsQueue, ThreadIsQueue DEF Next

\* The pool, with its unlocked reads, its counter and its threads made on
\* demand, implements the queue of tasks: they start in order, each once, and
\* none starts after Finalize has begun.
THEOREM ImplementsWorkQueue == Spec => WorkQueueSpec
  <1>1. Init => WorkQueue!Init
    BY DEF Init, WorkQueue!Init
  <1>2. Spec => []PoolInv
    BY PoolIsSafe
  <1> QED
    BY <1>1, <1>2, InitJobs, NextIsQueue, PTL DEF Spec, WorkQueueSpec, WorkQueue!Spec

=============================================================================
