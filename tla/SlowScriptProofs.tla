-------------------------- MODULE SlowScriptProofs --------------------------
(***************************************************************************)
(* Proofs about SlowScript, for any number of containers, depth of the     *)
(* stack and limit.                                                        *)
(*                                                                         *)
(* The monitor keeps its data by container and the main thread keeps calls *)
(* by frame.  The interrupt callback is right because the containers that  *)
(* it is about to consider have a call below it on the stack (KeptInv):    *)
(* until it returns none of them can end its action or be destroyed,       *)
(* whatever its dialog lets run.                                           *)
(***************************************************************************)
EXTENDS SlowScript, TLAPS, FiniteSetTheorems

USE SlowAssumption

FrameSet == [kind : Calls \cup Popups \cup Interrupts,
             c : Container \cup {NoOne}, todo : SUBSET Container]

\* The container c has a call at i on the stack s.
CallsAt(s, i, c) == s[i].kind \in Calls /\ s[i].c = c
Running(s, c) == \E i \in DOMAIN s : CallsAt(s, i, c)

\* The containers that a frame of the interrupt callback is about.
Kept(f) == f.todo \cup ({f.c} \ {NoOne})

(* The parts of the invariant *)

\* The interrupt callback is on the stack once, while isInInterrupt_ is set.
InterruptInv ==
    /\ inInterrupt <=> \E i \in DOMAIN frames : frames[i].kind \in Interrupts
    /\ \A i, j \in DOMAIN frames :
         frames[i].kind \in Interrupts /\ frames[j].kind \in Interrupts => i = j
    /\ \A i \in DOMAIN frames : frames[i].kind = "ask" => frames[i].c \notin frames[i].todo

WatchInv ==
    \A c \in Container :
      /\ c \in active => Running(frames, c)
      /\ Running(frames, c) /\ c \notin active => c \in ignored

AliveInv == \A c \in Container : Running(frames, c) => status[c] # "gone"

\* What the callback keeps has a call at its place or below.
KeptInv ==
    \A i \in DOMAIN frames : \A c \in Kept(frames[i]) :
      \E j \in DOMAIN frames : j <= i /\ CallsAt(frames, j, c)

AgeInv ==
    /\ second \subseteq active
    /\ \A c \in Container :
         /\ ran[c] >= checkpoint[c]
         /\ c \in second => ran[c] >= checkpoint[c] + Half
    /\ \A i \in DOMAIN frames : frames[i].kind \in Interrupts =>
         \A c \in frames[i].todo : c \in active /\ checkpoint[c] >= Half
    /\ \A i \in DOMAIN frames : frames[i].kind = "ask" =>
         frames[i].c \in active /\ ran[frames[i].c] >= 2 * Half

MonitorInv ==
    TypeOK /\ InterruptInv /\ WatchInv /\ AliveInv /\ KeptInv /\ AgeInv

------------------------------------------------------------------------------
(* The stack *)

LEMMA NestedIsRunning ==
    ASSUME NEW s \in Seq(FrameSet), NEW c
    PROVE  NestedIn(s, c) = 0 <=> ~Running(s, c)
  <1> DEFINE S == {i \in DOMAIN s : s[i].kind \in Calls /\ s[i].c = c}
  <1>1. IsFiniteSet(1..Len(s)) /\ S \subseteq 1..Len(s)
    BY FS_Interval
  <1>2. IsFiniteSet(S)
    BY <1>1, FS_Subset
  <1>3. Cardinality(S) = 0 <=> S = {}
    BY <1>2, FS_EmptySet
  <1> QED BY <1>3 DEF NestedIn, Running, CallsAt

LEMMA PushedStack ==
    ASSUME NEW s \in Seq(FrameSet), NEW f \in FrameSet, NEW t, t = Append(s, f)
    PROVE  /\ t \in Seq(FrameSet)
           /\ Len(s) \in Nat /\ Len(t) = Len(s) + 1
           /\ \A i \in DOMAIN s : t[i] = s[i] /\ i \in DOMAIN t /\ i \in 1..Len(s)
           /\ t[Len(s) + 1] = f /\ Len(s) + 1 \in DOMAIN t
           /\ \A i \in DOMAIN t : i \in DOMAIN s \/ i = Len(s) + 1
  OBVIOUS

LEMMA PoppedStack ==
    ASSUME NEW s \in Seq(FrameSet), s # <<>>, NEW t, t = SubSeq(s, 1, Len(s) - 1)
    PROVE  /\ t \in Seq(FrameSet)
           /\ \A i \in DOMAIN t : t[i] = s[i] /\ i \in DOMAIN s /\ i < Len(s)
           /\ Len(s) \in DOMAIN s
           /\ \A i \in DOMAIN s : i \in Nat /\ i <= Len(s) /\ s[i] \in FrameSet
           /\ \A i \in DOMAIN s : i = Len(s) \/ i \in DOMAIN t
  <1>1. Len(s) \in Nat \ {0}
    OBVIOUS
  <1>2. t \in Seq(FrameSet) /\ Len(t) = Len(s) - 1
    <2>1. t \in Seq(FrameSet)
      OBVIOUS
    <2>2. Len(s) - 1 \in Nat /\ (Len(s) - 1) - 1 + 1 = Len(s) - 1
      BY <1>1
    <2> QED BY <1>1, <2>1, <2>2
  <1>3. \A i \in 1..(Len(s) - 1) : t[i] = s[i]
    BY <1>1
  <1>4. DOMAIN t = 1..(Len(s) - 1) /\ DOMAIN s = 1..Len(s)
    BY <1>1, <1>2
  <1>5. \A i \in 1..Len(s) : s[i] \in FrameSet
    OBVIOUS
  <1> QED BY <1>1, <1>2, <1>3, <1>4, <1>5

LEMMA ReplacedStack ==
    ASSUME NEW s \in Seq(FrameSet), s # <<>>, NEW f \in FrameSet,
           NEW t, t = [s EXCEPT ![Len(s)] = f]
    PROVE  /\ t \in Seq(FrameSet)
           /\ DOMAIN t = DOMAIN s /\ Len(s) \in DOMAIN s /\ t[Len(s)] = f
           /\ \A i \in DOMAIN s : i \in Nat /\ i <= Len(s) /\ (i # Len(s) => t[i] = s[i])
  OBVIOUS

LEMMA NewFrames ==
    /\ \A c \in Container, kind \in Calls : Frame(kind, c, {}) \in FrameSet
    /\ \A kind \in Popups \cup Interrupts, todo \in SUBSET Container :
         Frame(kind, NoOne, todo) \in FrameSet
    /\ \A c \in Container, todo \in SUBSET Container : Frame("ask", c, todo) \in FrameSet
  BY DEF Frame, FrameSet, Calls, Popups, Interrupts

LEMMA StackOfType ==
    ASSUME TypeOK
    PROVE  /\ frames \in Seq(FrameSet)
           /\ \A f \in FrameSet : Push(f) \in Seq(FrameSet)
           /\ frames # <<>> => Pop \in Seq(FrameSet) /\ Top \in FrameSet
           /\ \A f \in FrameSet : frames # <<>> => Replace(f) \in Seq(FrameSet)
  <1>1. frames \in Seq(FrameSet)
    BY DEF TypeOK, FrameSet
  <1>2. ASSUME frames # <<>> PROVE Pop \in Seq(FrameSet) /\ Top \in FrameSet
    BY <1>1, <1>2, PoppedStack DEF Pop, Top
  <1>3. ASSUME NEW f \in FrameSet, frames # <<>> PROVE Replace(f) \in Seq(FrameSet)
    BY <1>1, <1>3, ReplacedStack DEF Replace
  <1>4. ASSUME NEW f \in FrameSet PROVE Push(f) \in Seq(FrameSet)
    BY <1>1, <1>4, PushedStack DEF Push
  <1> QED BY <1>1, <1>2, <1>3, <1>4

------------------------------------------------------------------------------
(* Types *)

Ages ==
    /\ started \in [Container -> 0..Oldest]
    /\ checkpoint \in [Container -> 0..Half]
    /\ ran \in [Container -> 0..2 * Half]

Watchers == {"top", "lock", "waiting", "missed", "woken", "request", "done"}

\* TypeOK without the ages, the stack and the watcher.
Rest ==
    /\ engine \in {"off", "on", "stopping"}
    /\ status \in [Container -> {"gone", "Ready", "Working", "Failed"}]
    /\ orphans \subseteq Container /\ parsing \subseteq Container
    /\ active \subseteq Container /\ second \subseteq Container
    /\ ignored \subseteq Container
    /\ inInterrupt \in BOOLEAN /\ wasInModal \in BOOLEAN /\ requested \in BOOLEAN

LEMMA TypeParts == TypeOK <=> Rest /\ Ages /\ frames \in Seq(FrameSet) /\ watcher \in Watchers
  BY DEF TypeOK, Rest, Ages, FrameSet, Watchers

LEMMA AgedType ==
    /\ 0 \in 0..Oldest /\ 0 \in 0..Half /\ 0 \in 0..2 * Half
    /\ \A age \in 0..Oldest : Aged(age, Oldest) \in 0..Oldest
    /\ \A age \in 0..Half : Aged(age, Half) \in 0..Half
    /\ \A age \in 0..2 * Half : Aged(age, 2 * Half) \in 0..2 * Half
  BY DEF Aged, Oldest

LEMMA NotifiedType == ASSUME watcher \in Watchers PROVE Notified \in Watchers
  BY DEF Notified, Asleep, Watchers

\* The ages of c begin anew.
Afresh(c) ==
    /\ started' = [started EXCEPT ![c] = 0]
    /\ checkpoint' = [checkpoint EXCEPT ![c] = 0]
    /\ ran' = [ran EXCEPT ![c] = 0]

LEMMA AfreshType == ASSUME Ages, NEW c \in Container, Afresh(c) PROVE Ages'
  <1>1. started' \in [Container -> 0..Oldest]
    BY AgedType DEF Ages, Afresh
  <1>2. checkpoint' \in [Container -> 0..Half]
    BY AgedType DEF Ages, Afresh
  <1>3. ran' \in [Container -> 0..2 * Half]
    BY AgedType DEF Ages, Afresh
  <1> QED BY <1>1, <1>2, <1>3 DEF Ages

LEMMA ActionStartType ==
    ASSUME TypeOK, NEW c \in Container, ActionStart(c)
    PROVE  /\ Ages' /\ watcher' \in Watchers
           /\ active' \subseteq Container /\ second' \subseteq Container
           /\ ignored' \subseteq Container
  <1>1. CASE IsOutermostIn(frames, c) /\ c \notin ignored
    <2>1. Afresh(c) /\ watcher' = Notified /\ active' = active \cup {c}
          /\ UNCHANGED <<second, ignored>>
      BY <1>1 DEF ActionStart, Afresh
    <2> QED BY <2>1, TypeParts, AfreshType, NotifiedType DEF Rest
  <1>2. CASE ~(IsOutermostIn(frames, c) /\ c \notin ignored)
    BY <1>2, TypeParts DEF ActionStart, data, Ages, Rest
  <1> QED BY <1>1, <1>2

LEMMA UnregisterType ==
    ASSUME TypeOK, NEW c \in Container, NEW st, Unregister(c, st),
           st \in [Container -> {"gone", "Ready", "Working", "Failed"}]
    PROVE  /\ status' \in [Container -> {"gone", "Ready", "Working", "Failed"}]
           /\ orphans' \subseteq Container /\ ignored' \subseteq Container
           /\ engine' \in {"off", "on", "stopping"} /\ watcher' \in Watchers
  BY NotifiedType, TypeParts DEF Unregister, Rest

LEMMA TypeNext == TypeOK /\ AgeInv /\ [Next]_vars => TypeOK'
  <1> SUFFICES ASSUME TypeOK, AgeInv, [Next]_vars PROVE TypeOK'
    OBVIOUS
  <1> SUFFICES Rest' /\ Ages' /\ frames' \in Seq(FrameSet) /\ watcher' \in Watchers
    BY DEF TypeOK, Rest, Ages, FrameSet, Watchers
  <1>0. Rest /\ Ages /\ frames \in Seq(FrameSet) /\ watcher \in Watchers
    BY TypeParts
  <1>1. CASE Tick
    <2>1. Ages'
      <3>1. started' \in [Container -> 0..Oldest]
        BY <1>0, <1>1, AgedType DEF Tick, Ages
      <3>2. checkpoint' \in [Container -> 0..Half]
        BY <1>0, <1>1, AgedType DEF Tick, Ages
      <3>3. ran' \in [Container -> 0..2 * Half]
        BY <1>0, <1>1, AgedType DEF Tick, Ages
      <3> QED BY <3>1, <3>2, <3>3 DEF Ages
    <2> QED BY <1>0, <1>1, <2>1 DEF Tick, Rest, panels
  <1>2. CASE Poll
    BY <1>0, <1>2, NewFrames, StackOfType DEF Poll, Rest, Ages, panels, data, Interrupts
  <1>3. CASE Scan
    <2>1. frames # <<>>
      BY <1>3 DEF Scan, TopIs
    <2>2. frames' \in Seq(FrameSet)
      <3> DEFINE todo == IF HasPopup \/ (wasInModal /\ ~HasPopup) THEN {}
                         ELSE {c \in Container : Due(c)}
      <3>1. todo \in SUBSET Container
        OBVIOUS
      <3>2. frames' = Replace(Frame("scan", NoOne, todo))
        BY <1>3 DEF Scan
      <3> HIDE DEF todo
      <3> QED BY <2>1, <3>1, <3>2, NewFrames, StackOfType DEF Interrupts
    <2>3. Ages'
      BY <1>0, <1>3, AgedType DEF Scan, Ages
    <2>4. wasInModal' \in BOOLEAN
      BY <1>3 DEF Scan, HasPopup
    <2> QED BY <1>0, <1>3, <2>2, <2>3, <2>4 DEF Scan, Rest, panels
  <1>4. CASE LeaveInterrupt
    BY <1>0, <1>4, StackOfType DEF LeaveInterrupt, TopIs, Rest, Ages, panels, data
  <1>5. ASSUME NEW c \in Container, Consider(c)
        PROVE  Rest' /\ Ages' /\ frames' \in Seq(FrameSet) /\ watcher' \in Watchers
    <2>1. frames # <<>> /\ c \in Top.todo
      BY <1>5 DEF Consider, TopIs
    <2>2. Top.todo \ {c} \in SUBSET Container
      BY <2>1, StackOfType DEF FrameSet
    <2>3. frames' \in Seq(FrameSet)
      BY <1>5, <2>1, <2>2, NewFrames, StackOfType DEF Consider, Interrupts
    <2>4. Ages' /\ second' \subseteq Container
      <3>1. checkpoint' = checkpoint \/ checkpoint' = [checkpoint EXCEPT ![c] = 0]
        BY <1>5 DEF Consider
      <3>2. checkpoint' \in [Container -> 0..Half]
        BY <1>0, <3>1, AgedType DEF Ages
      <3> QED BY <1>0, <1>5, <3>2 DEF Consider, Ages, Rest
    <2> QED BY <1>0, <1>5, <2>3, <2>4 DEF Consider, Rest, panels
  <1>6. ASSUME NEW stop \in BOOLEAN, NEW askAgain \in BOOLEAN, Answer(stop, askAgain)
        PROVE  Rest' /\ Ages' /\ frames' \in Seq(FrameSet) /\ watcher' \in Watchers
    <2>1. frames # <<>> /\ Top.kind = "ask"
      BY <1>6 DEF Answer, TopIs
    <2>2. Top.todo \in SUBSET Container /\ Top.c \in Container \cup {NoOne}
      BY <2>1, StackOfType DEF FrameSet
    <2>3. frames' \in Seq(FrameSet)
      BY <1>6, <2>1, <2>2, NewFrames, StackOfType DEF Answer, Interrupts
    <2>4. Ages' /\ second' \subseteq Container
      <3>1. checkpoint' = checkpoint \/ checkpoint' = [checkpoint EXCEPT ![Top.c] = 0]
        BY <1>6 DEF Answer
      <3>2. ran' = ran \/ ran' = [ran EXCEPT ![Top.c] = 0]
        BY <1>6 DEF Answer
      <3>3. checkpoint' \in [Container -> 0..Half]
        BY <1>0, <3>1, AgedType DEF Ages
      <3>4. ran' \in [Container -> 0..2 * Half]
        BY <1>0, <3>2, AgedType DEF Ages
      <3> QED BY <1>0, <1>6, <3>3, <3>4 DEF Answer, Ages, Rest
    <2>5. ignored' \subseteq Container
      <3>1. Len(frames) \in DOMAIN frames
        BY <1>0, <2>1
      <3>2. Top.c \in Container
        BY <1>0, <2>1, <3>1 DEF AgeInv, Rest, Top
      <3> QED BY <1>0, <1>6, <3>2 DEF Answer, Rest
    <2> QED BY <1>0, <1>6, <2>3, <2>4, <2>5 DEF Answer, Rest, panels
  <1>7. ASSUME NEW c \in Container, Call(c)
        PROVE  Rest' /\ Ages' /\ frames' \in Seq(FrameSet) /\ watcher' \in Watchers
    <2>1. ActionStart(c) /\ frames' = Push(Frame("call", c, {}))
          /\ UNCHANGED <<panels, parsing, inInterrupt, wasInModal, requested>>
      BY <1>7 DEF Call
    <2>2. frames' \in Seq(FrameSet)
      BY <2>1, NewFrames, StackOfType DEF Calls
    <2> QED BY <1>0, <2>1, <2>2, ActionStartType DEF Rest, panels
  <1>8. ASSUME NEW c \in Container, Load(c)
        PROVE  Rest' /\ Ages' /\ frames' \in Seq(FrameSet) /\ watcher' \in Watchers
    <2>1. /\ ActionStart(c) /\ frames' = Push(Frame("load", c, {}))
          /\ status' = [status EXCEPT ![c] = "Working"] /\ parsing' = parsing \cup {c}
          /\ UNCHANGED <<engine, orphans, inInterrupt, wasInModal, requested>>
      BY <1>8 DEF Load
    <2>2. frames' \in Seq(FrameSet)
      BY <2>1, NewFrames, StackOfType DEF Calls
    <2> QED BY <1>0, <2>1, <2>2, ActionStartType DEF Rest
  <1>9. ASSUME NEW c \in Container, Create(c)
        PROVE  Rest' /\ Ages' /\ frames' \in Seq(FrameSet) /\ watcher' \in Watchers
    <2>1. /\ Afresh(c) /\ frames' = Push(Frame("load", c, {}))
          /\ status' = [status EXCEPT ![c] = "Working"] /\ parsing' = parsing \cup {c}
          /\ active' = active \cup {c}
          /\ UNCHANGED <<orphans, second, ignored, inInterrupt, wasInModal>>
      BY <1>9 DEF Create, Afresh
    <2>2. frames' \in Seq(FrameSet)
      BY <2>1, NewFrames, StackOfType DEF Calls
    <2>3. engine' \in {"off", "on", "stopping"} /\ requested' \in BOOLEAN
          /\ watcher' \in Watchers
      BY <1>0, <1>9, NotifiedType DEF Create, Rest, Watchers
    <2> QED BY <1>0, <2>1, <2>2, <2>3, AfreshType DEF Rest
  <1>10. ASSUME NEW c \in Container, NEW failed \in BOOLEAN, Return(c, failed)
         PROVE  Rest' /\ Ages' /\ frames' \in Seq(FrameSet) /\ watcher' \in Watchers
    <2> DEFINE st == IF failed THEN [status EXCEPT ![c] = "Failed"] ELSE status
    <2>1. st \in [Container -> {"gone", "Ready", "Working", "Failed"}]
      BY <1>0 DEF Rest
    <2>2. /\ frames # <<>> /\ frames' = Pop
          /\ \/ Afresh(c) /\ second' = ClearsSecondHalf(c) /\ active' = active \ {c}
             \/ UNCHANGED <<active, started, checkpoint, ran, second>>
          /\ parsing' = parsing \/ parsing' = parsing \ {c}
          /\ \/ Unregister(c, st)
             \/ status' = st /\ UNCHANGED <<engine, orphans, ignored, watcher>>
          /\ UNCHANGED <<inInterrupt, wasInModal, requested>>
      BY <1>10 DEF Return, Afresh, ScriptRuns, TopIs
    <2> HIDE DEF st
    <2>3. Ages'
      BY <1>0, <2>2, AfreshType DEF Ages
    <2>4. /\ status' \in [Container -> {"gone", "Ready", "Working", "Failed"}]
          /\ orphans' \subseteq Container /\ ignored' \subseteq Container
          /\ engine' \in {"off", "on", "stopping"} /\ watcher' \in Watchers
      BY <1>0, <2>1, <2>2, UnregisterType DEF Rest
    <2> QED BY <1>0, <2>2, <2>3, <2>4, StackOfType DEF Rest, ClearsSecondHalf
  <1>11. ASSUME NEW c \in Container, Destroy(c)
         PROVE  Rest' /\ Ages' /\ frames' \in Seq(FrameSet) /\ watcher' \in Watchers
    <2> DEFINE st == [status EXCEPT ![c] = IF @ = "Working" THEN "Ready" ELSE @]
    <2>1. st \in [Container -> {"gone", "Ready", "Working", "Failed"}]
      BY <1>0 DEF Rest
    <2>2. /\ \/ Unregister(c, st)
             \/ /\ status' = st /\ orphans' = orphans \cup {c}
                /\ UNCHANGED <<engine, ignored, watcher>>
          /\ UNCHANGED <<frames, parsing, active, started, checkpoint, ran, second,
                         inInterrupt, wasInModal, requested>>
      BY <1>11 DEF Destroy
    <2> HIDE DEF st
    <2>4. /\ status' \in [Container -> {"gone", "Ready", "Working", "Failed"}]
          /\ orphans' \subseteq Container /\ ignored' \subseteq Container
          /\ engine' \in {"off", "on", "stopping"} /\ watcher' \in Watchers
      BY <1>0, <2>1, <2>2, UnregisterType DEF Rest
    <2> QED BY <1>0, <2>2, <2>4 DEF Rest, Ages
  <1>12. ASSUME NEW kind \in Popups, OpenPopup(kind)
         PROVE  Rest' /\ Ages' /\ frames' \in Seq(FrameSet) /\ watcher' \in Watchers
    BY <1>0, <1>12, NewFrames, StackOfType DEF OpenPopup, Rest, Ages, panels, data
  <1>13. CASE ClosePopup
    BY <1>0, <1>13, StackOfType DEF ClosePopup, TopIs, Rest, Ages, panels, data
  <1>14. CASE Watch \/ SpuriousWakeUp
    <2>1. /\ UNCHANGED <<panels, frames, parsing, data, inInterrupt>>
          /\ requested' \in BOOLEAN
      BY <1>0, <1>14 DEF Watch, SpuriousWakeUp, WatcherLoop, WatcherLock, WatcherWakes,
                         WatcherRequest, Examine, Rest
    <2>2. watcher' \in Watchers
      BY <1>0, <1>14 DEF Watch, SpuriousWakeUp, WatcherLoop, WatcherLock, WatcherWakes,
                         WatcherRequest, Examine, Watchers
    <2>3. wasInModal' \in BOOLEAN
      BY <1>0, <1>14 DEF Watch, SpuriousWakeUp, WatcherLoop, WatcherLock, WatcherWakes,
                         WatcherRequest, Examine, Rest, ShouldStop, HasPopup
    <2> QED BY <1>0, <2>1, <2>2, <2>3 DEF Rest, Ages, panels, data
  <1>15. CASE Joined
    BY <1>0, <1>15 DEF Joined, Rest, Ages, data
  <1>16. CASE UNCHANGED vars
    BY <1>0, <1>16 DEF vars, Rest, Ages, panels, data
  <1> QED
    BY <1>1, <1>2, <1>3, <1>4, <1>5, <1>6, <1>7, <1>8, <1>9, <1>10, <1>11, <1>12,
       <1>13, <1>14, <1>15, <1>16 DEF Next, Interrupt

------------------------------------------------------------------------------
(* Frames that come and go *)

StackParts == InterruptInv /\ WatchInv /\ AliveInv /\ KeptInv

LEMMA OnePlace ==
    ASSUME TypeOK, InterruptInv, TopIs(Interrupts)
    PROVE  /\ inInterrupt /\ frames # <<>> /\ frames \in Seq(FrameSet)
           /\ \A i \in DOMAIN frames :
                frames[i].kind \in Interrupts => i = Len(frames)
  <1>1. frames # <<>> /\ frames \in Seq(FrameSet) /\ Top.kind \in Interrupts
    BY TypeParts DEF TopIs
  <1>2. Len(frames) \in DOMAIN frames /\ frames[Len(frames)].kind \in Interrupts
    BY <1>1 DEF Top
  <1> QED BY <1>1, <1>2 DEF InterruptInv

\* The callback, at its place, goes on to another frame.
LEMMA ReplacedParts ==
    ASSUME TypeOK, StackParts, TopIs(Interrupts),
           NEW f \in FrameSet, f.kind \in Interrupts, frames' = Replace(f),
           \A c \in Kept(f) : Running(frames, c), f.kind = "ask" => f.c \notin f.todo,
           inInterrupt' = inInterrupt, active' = active, status' = status,
           ignored \subseteq ignored'
    PROVE  /\ StackParts'
           /\ \A i \in DOMAIN frames' : frames'[i].kind \in Interrupts => frames'[i] = f
  <1>0. /\ InterruptInv /\ WatchInv /\ AliveInv /\ KeptInv
        /\ frames \in Seq(FrameSet) /\ frames # <<>> /\ inInterrupt
        /\ \A i \in DOMAIN frames : frames[i].kind \in Interrupts => i = Len(frames)
    BY OnePlace DEF StackParts
  <1>1. /\ DOMAIN frames' = DOMAIN frames /\ Len(frames) \in DOMAIN frames
        /\ frames'[Len(frames)] = f
        /\ \A i \in DOMAIN frames :
             i \in Nat /\ i <= Len(frames) /\ (i # Len(frames) => frames'[i] = frames[i])
    BY <1>0, ReplacedStack DEF Replace
  <1>2. \A i \in DOMAIN frames' : frames'[i].kind \in Interrupts => i = Len(frames)
    BY <1>0, <1>1
  <1>3. frames[Len(frames)].kind \notin Calls /\ f.kind \notin Calls
    BY DEF TopIs, Top, Interrupts, Calls
  <1>4. \A c, i : i \in DOMAIN frames => (CallsAt(frames', i, c) <=> CallsAt(frames, i, c))
    BY <1>1, <1>3 DEF CallsAt
  <1>5. \A c : Running(frames', c) <=> Running(frames, c)
    BY <1>1, <1>4 DEF Running
  <1>6. InterruptInv'
    <2>1. \A i \in DOMAIN frames' : frames'[i].kind = "ask" =>
             frames'[i].c \notin frames'[i].todo
      BY <1>0, <1>1 DEF InterruptInv
    <2> QED BY <1>0, <1>1, <1>2, <2>1 DEF InterruptInv
  <1>7. WatchInv' /\ AliveInv'
    BY <1>0, <1>5 DEF WatchInv, AliveInv
  <1>8. KeptInv'
    <2> SUFFICES ASSUME NEW i \in DOMAIN frames', NEW c \in Kept(frames'[i])
                 PROVE  \E j \in DOMAIN frames' : j <= i /\ CallsAt(frames', j, c)
      BY DEF KeptInv
    <2>1. CASE i = Len(frames)
      <3>1. Running(frames, c)
        BY <1>1, <2>1
      <3> QED BY <1>1, <1>4, <2>1, <3>1 DEF Running
    <2>2. CASE i # Len(frames)
      <3>1. PICK j \in DOMAIN frames : j <= i /\ CallsAt(frames, j, c)
        BY <1>0, <1>1, <2>2 DEF KeptInv
      <3> QED BY <1>1, <1>4, <3>1
    <2> QED BY <2>1, <2>2
  <1> QED BY <1>1, <1>2, <1>6, <1>7, <1>8 DEF StackParts

\* A frame that belongs to no container, and keeps none, is pushed.
LEMMA PushedParts ==
    ASSUME TypeOK, StackParts, NEW f \in FrameSet, frames' = Push(f),
           f.kind \notin Calls, f.c = NoOne, f.todo = {},
           f.kind \in Interrupts => ~inInterrupt,
           inInterrupt' <=> inInterrupt \/ f.kind \in Interrupts,
           UNCHANGED <<status, active, ignored>>
    PROVE  /\ StackParts'
           /\ \A i \in DOMAIN frames' : \/ i \in DOMAIN frames /\ frames'[i] = frames[i]
                                        \/ frames'[i] = f
  <1>0. /\ InterruptInv /\ WatchInv /\ AliveInv /\ KeptInv /\ frames \in Seq(FrameSet)
    BY TypeParts DEF StackParts
  <1>1. /\ Len(frames) \in Nat
        /\ \A i \in DOMAIN frames :
             frames'[i] = frames[i] /\ i \in DOMAIN frames' /\ i \in 1..Len(frames)
        /\ frames'[Len(frames) + 1] = f /\ Len(frames) + 1 \in DOMAIN frames'
        /\ \A i \in DOMAIN frames' : i \in DOMAIN frames \/ i = Len(frames) + 1
    BY <1>0, PushedStack DEF Push
  <1>2. \A c : Running(frames', c) <=> Running(frames, c)
    BY <1>1 DEF Running, CallsAt
  <1>3. InterruptInv'
    BY <1>0, <1>1 DEF InterruptInv
  <1>4. WatchInv' /\ AliveInv'
    BY <1>0, <1>2 DEF WatchInv, AliveInv
  <1>5. KeptInv'
    <2>1. Kept(f) = {}
      BY DEF Kept
    <2> QED BY <1>0, <1>1, <2>1 DEF KeptInv, CallsAt
  <1> QED BY <1>1, <1>3, <1>4, <1>5 DEF StackParts

\* Such a frame is popped.
LEMMA PoppedParts ==
    ASSUME TypeOK, StackParts, frames # <<>>, frames' = Pop, Top.kind \notin Calls,
           inInterrupt' <=> inInterrupt /\ Top.kind \notin Interrupts,
           UNCHANGED <<status, active, ignored>>
    PROVE  /\ StackParts'
           /\ \A i \in DOMAIN frames' : i \in DOMAIN frames /\ frames'[i] = frames[i]
  <1>0. /\ InterruptInv /\ WatchInv /\ AliveInv /\ KeptInv /\ frames \in Seq(FrameSet)
    BY TypeParts DEF StackParts
  <1>1. /\ \A i \in DOMAIN frames' :
             frames'[i] = frames[i] /\ i \in DOMAIN frames /\ i < Len(frames)
        /\ Len(frames) \in DOMAIN frames
        /\ \A i \in DOMAIN frames : i \in Nat /\ i <= Len(frames)
        /\ \A i \in DOMAIN frames : i = Len(frames) \/ i \in DOMAIN frames'
    BY <1>0, PoppedStack DEF Pop
  <1>2. \A c : Running(frames', c) <=> Running(frames, c)
    BY <1>1 DEF Running, CallsAt, Top
  <1>3. InterruptInv'
    BY <1>0, <1>1 DEF InterruptInv, Top
  <1>4. WatchInv' /\ AliveInv'
    BY <1>0, <1>2 DEF WatchInv, AliveInv
  <1>5. KeptInv'
    <2> SUFFICES ASSUME NEW i \in DOMAIN frames', NEW c \in Kept(frames'[i])
                 PROVE  \E j \in DOMAIN frames' : j <= i /\ CallsAt(frames', j, c)
      BY DEF KeptInv
    <2>1. PICK j \in DOMAIN frames : j <= i /\ CallsAt(frames, j, c)
      BY <1>0, <1>1 DEF KeptInv
    <2>2. j # Len(frames)
      BY <1>1, <2>1
    <2> QED BY <1>1, <2>1, <2>2 DEF CallsAt
  <1> QED BY <1>1, <1>3, <1>4, <1>5 DEF StackParts

\* A call is pushed: the action of c begins, or goes on, or is to be ignored.
LEMMA CalledParts ==
    ASSUME TypeOK, StackParts, AgeInv, NEW c \in Container, NEW kind \in Calls,
           frames' = Push(Frame(kind, c, {})), inInterrupt' = inInterrupt,
           status'[c] # "gone", \A d \in Container \ {c} : status'[d] = status[d],
           UNCHANGED <<second, ignored>>,
           \/ ~Running(frames, c) /\ active' = active \cup {c} /\ Afresh(c)
           \/ (Running(frames, c) \/ c \in ignored) /\ UNCHANGED <<active, checkpoint, ran>>
    PROVE  StackParts' /\ AgeInv'
  <1> DEFINE f == Frame(kind, c, {})
  <1>0. /\ InterruptInv /\ WatchInv /\ AliveInv /\ KeptInv /\ frames \in Seq(FrameSet)
    BY TypeParts DEF StackParts
  <1>1. /\ f \in FrameSet /\ f.kind = kind /\ f.c = c /\ f.todo = {}
        /\ kind \notin Interrupts
    BY NewFrames DEF Frame, Calls, Interrupts
  <1> HIDE DEF f
  <1>2. frames' = Append(frames, f)
    BY DEF f, Push
  <1>3. /\ Len(frames) \in Nat
        /\ \A i \in DOMAIN frames :
             frames'[i] = frames[i] /\ i \in DOMAIN frames' /\ i \in 1..Len(frames)
        /\ frames'[Len(frames) + 1] = f /\ Len(frames) + 1 \in DOMAIN frames'
        /\ \A i \in DOMAIN frames' : i \in DOMAIN frames \/ i = Len(frames) + 1
    BY <1>0, <1>1, <1>2, PushedStack
  <1>4. \A d : Running(frames', d) <=> Running(frames, d) \/ d = c
    BY <1>1, <1>3 DEF Running, CallsAt
  <1>5. InterruptInv'
    BY <1>0, <1>1, <1>3 DEF InterruptInv
  <1>6. WatchInv'
    BY <1>0, <1>4 DEF WatchInv
  <1>7. AliveInv'
    BY <1>0, <1>4 DEF AliveInv
  <1>8. KeptInv'
    <2> SUFFICES ASSUME NEW i \in DOMAIN frames', NEW d \in Kept(frames'[i])
                 PROVE  \E j \in DOMAIN frames' : j <= i /\ CallsAt(frames', j, d)
      BY DEF KeptInv
    <2>1. CASE i \in DOMAIN frames
      BY <1>0, <1>3, <2>1 DEF KeptInv, CallsAt
    <2>2. CASE i = Len(frames) + 1
      BY <1>1, <1>3, <2>2 DEF Kept, CallsAt
    <2> QED BY <1>3, <2>1, <2>2
  <1>9. AgeInv'
    <2>1. CASE UNCHANGED <<active, checkpoint, ran>>
      <3>1. \A i \in DOMAIN frames' : frames'[i].kind \in Interrupts =>
               i \in DOMAIN frames /\ frames'[i] = frames[i]
        BY <1>1, <1>3
      <3>2. \A i \in DOMAIN frames' : frames'[i].kind = "ask" =>
               i \in DOMAIN frames /\ frames'[i] = frames[i]
        BY <3>1 DEF Interrupts
      <3> QED BY <2>1, <3>1, <3>2 DEF AgeInv
    <2>2. CASE ~Running(frames, c) /\ active' = active \cup {c} /\ Afresh(c)
      <3>1. c \notin active /\ c \notin second
        BY <1>0, <2>2 DEF WatchInv, AgeInv
      <3>2. /\ checkpoint' = [d \in Container |-> IF d = c THEN 0 ELSE checkpoint[d]]
            /\ ran' = [d \in Container |-> IF d = c THEN 0 ELSE ran[d]]
        BY <2>2, TypeParts DEF Afresh, Ages
      <3>3. \A d \in Container :
              /\ ran'[d] >= checkpoint'[d]
              /\ d \in second => ran'[d] >= checkpoint'[d] + Half
        BY <3>1, <3>2 DEF AgeInv
      <3>4. ASSUME NEW i \in DOMAIN frames', frames'[i].kind \in Interrupts,
                   NEW d \in frames'[i].todo
            PROVE  d \in active' /\ checkpoint'[d] >= Half
        <4>1. i \in DOMAIN frames /\ frames'[i] = frames[i]
          BY <1>1, <1>3, <3>4
        <4>2. d \in active /\ checkpoint[d] >= Half
          BY <3>4, <4>1 DEF AgeInv
        <4> QED BY <2>2, <3>1, <3>2, <4>2, TypeParts DEF Rest
      <3>5. ASSUME NEW i \in DOMAIN frames', frames'[i].kind = "ask"
            PROVE  frames'[i].c \in active' /\ ran'[frames'[i].c] >= 2 * Half
        <4>1. i \in DOMAIN frames /\ frames'[i] = frames[i]
          BY <1>1, <1>3, <3>5 DEF Interrupts
        <4>2. frames[i].c \in active /\ ran[frames[i].c] >= 2 * Half
          BY <3>5, <4>1 DEF AgeInv
        <4> QED BY <2>2, <3>1, <3>2, <4>1, <4>2, TypeParts DEF Rest
      <3>6. second' \subseteq active'
        BY <2>2 DEF AgeInv
      <3> QED BY <3>3, <3>4, <3>5, <3>6 DEF AgeInv
    <2> QED BY <2>1, <2>2
  <1> QED BY <1>5, <1>6, <1>7, <1>8, <1>9 DEF StackParts

\* A call returns: the action of c ends with its last one.
LEMMA ReturnedParts ==
    ASSUME TypeOK, StackParts, AgeInv, NEW c \in Container,
           frames # <<>>, Top.kind \in Calls, Top.c = c,
           frames' = Pop, inInterrupt' = inInterrupt,
           Running(Pop, c) => status'[c] # "gone" /\ ignored' = ignored,
           \A d \in Container \ {c} : status'[d] = status[d],
           ignored \ {c} \subseteq ignored',
           \/ /\ ~Running(Pop, c) /\ active' = active \ {c} /\ second' = second \ {c}
              /\ Afresh(c)
           \/ Running(Pop, c) /\ UNCHANGED <<active, second, checkpoint, ran>>
    PROVE  StackParts' /\ AgeInv'
  <1>0. /\ InterruptInv /\ WatchInv /\ AliveInv /\ KeptInv /\ frames \in Seq(FrameSet)
    BY TypeParts DEF StackParts
  <1>1. /\ \A i \in DOMAIN frames' :
             frames'[i] = frames[i] /\ i \in DOMAIN frames /\ i < Len(frames)
        /\ Len(frames) \in DOMAIN frames
        /\ \A i \in DOMAIN frames : i \in Nat /\ i <= Len(frames)
        /\ \A i \in DOMAIN frames : i = Len(frames) \/ i \in DOMAIN frames'
    BY <1>0, PoppedStack DEF Pop
  <1>2. \A d \in Container \ {c} : Running(frames', d) <=> Running(frames, d)
    BY <1>1 DEF Running, CallsAt, Top
  <1>3. Running(frames, c)
    BY <1>1 DEF Running, CallsAt, Top
  <1>4. InterruptInv'
    <2>1. Top.kind \notin Interrupts
      BY DEF Calls, Interrupts
    <2> QED BY <1>0, <1>1, <2>1 DEF InterruptInv, Top
  <1>5. WatchInv'
    BY <1>0, <1>2, <1>3 DEF WatchInv
  <1>6. AliveInv'
    BY <1>0, <1>2, <1>3 DEF AliveInv
  <1>7. \A i \in DOMAIN frames' : \A d \in Kept(frames[i]) :
           \E j \in DOMAIN frames' : j <= i /\ CallsAt(frames', j, d)
    <2> SUFFICES ASSUME NEW i \in DOMAIN frames', NEW d \in Kept(frames[i])
                 PROVE  \E j \in DOMAIN frames' : j <= i /\ CallsAt(frames', j, d)
      OBVIOUS
    <2>1. PICK j \in DOMAIN frames : j <= i /\ CallsAt(frames, j, d)
      BY <1>0, <1>1 DEF KeptInv
    <2>2. j # Len(frames)
      BY <1>1, <2>1
    <2> QED BY <1>1, <2>1, <2>2 DEF CallsAt
  <1>8. KeptInv'
    BY <1>1, <1>7 DEF KeptInv
  <1>9. AgeInv'
    <2>1. CASE UNCHANGED <<active, second, checkpoint, ran>>
      BY <1>1, <2>1 DEF AgeInv
    <2>2. CASE /\ ~Running(Pop, c) /\ active' = active \ {c} /\ second' = second \ {c}
               /\ Afresh(c)
      <3>1. \A i \in DOMAIN frames' : c \notin Kept(frames[i])
        BY <1>7, <2>2 DEF Running
      <3>2. /\ checkpoint' = [d \in Container |-> IF d = c THEN 0 ELSE checkpoint[d]]
            /\ ran' = [d \in Container |-> IF d = c THEN 0 ELSE ran[d]]
        BY <2>2, TypeParts DEF Afresh, Ages
      <3>3. \A d \in Container :
              /\ ran'[d] >= checkpoint'[d]
              /\ d \in second' => ran'[d] >= checkpoint'[d] + Half
        BY <2>2, <3>2 DEF AgeInv
      <3>4. ASSUME NEW i \in DOMAIN frames', frames'[i].kind \in Interrupts,
                   NEW d \in frames'[i].todo
            PROVE  d \in active' /\ checkpoint'[d] >= Half
        <4>1. i \in DOMAIN frames /\ frames'[i] = frames[i] /\ d # c
          BY <1>1, <3>1, <3>4 DEF Kept
        <4>2. d \in active /\ checkpoint[d] >= Half
          BY <3>4, <4>1 DEF AgeInv
        <4> QED BY <2>2, <3>2, <4>1, <4>2, TypeParts DEF Rest
      <3>5. ASSUME NEW i \in DOMAIN frames', frames'[i].kind = "ask"
            PROVE  frames'[i].c \in active' /\ ran'[frames'[i].c] >= 2 * Half
        <4>1. i \in DOMAIN frames /\ frames'[i] = frames[i]
          BY <1>1
        <4>2. frames[i].c \in active /\ ran[frames[i].c] >= 2 * Half
          BY <3>5, <4>1 DEF AgeInv
        <4>3. frames[i].c \in Container /\ frames[i].c # c
          BY <3>1, <4>2, TypeParts DEF Kept, Rest
        <4> QED BY <2>2, <3>2, <4>1, <4>2, <4>3
      <3>6. second' \subseteq active'
        BY <2>2 DEF AgeInv
      <3> QED BY <3>3, <3>4, <3>5, <3>6 DEF AgeInv
    <2> QED BY <2>1, <2>2
  <1> QED BY <1>4, <1>5, <1>6, <1>8, <1>9 DEF StackParts

------------------------------------------------------------------------------
(* The invariant *)

LEMMA MonitorInit == Init => MonitorInv
  <1> SUFFICES ASSUME Init PROVE MonitorInv
    OBVIOUS
  <1>1. /\ frames = <<>> /\ active = {} /\ second = {} /\ ~inInterrupt
        /\ checkpoint = [c \in Container |-> 0] /\ ran = [c \in Container |-> 0]
    BY DEF Init
  <1>2. Rest /\ Ages /\ watcher \in Watchers
    BY AgedType DEF Init, Rest, Ages, Watchers
  <1>3. TypeOK
    BY <1>1, <1>2, TypeParts
  <1>4. InterruptInv /\ WatchInv /\ AliveInv /\ KeptInv
    BY <1>1 DEF InterruptInv, WatchInv, AliveInv, KeptInv, Running
  <1>5. AgeInv
    BY <1>1 DEF AgeInv
  <1> QED BY <1>3, <1>4, <1>5 DEF MonitorInv

LEMMA SameParts ==
    ASSUME StackParts, AgeInv,
           UNCHANGED <<frames, status, active, second, ignored, inInterrupt, checkpoint, ran>>
    PROVE  StackParts' /\ AgeInv'
  <1>1. StackParts'
    BY DEF StackParts, InterruptInv, WatchInv, AliveInv, KeptInv, Running, CallsAt
  <1>2. AgeInv'
    BY DEF AgeInv
  <1> QED BY <1>1, <1>2

\* Every step of the main thread, of the callback and of the watcher keeps the data
\* of the monitor in agreement with the stack.
LEMMA MonitorNext == MonitorInv /\ [Next]_vars => MonitorInv'
  <1> SUFFICES ASSUME MonitorInv, [Next]_vars PROVE StackParts' /\ AgeInv'
    BY TypeNext DEF MonitorInv, StackParts
  <1>0. TypeOK /\ StackParts /\ AgeInv /\ Rest /\ Ages /\ frames \in Seq(FrameSet)
    BY TypeParts DEF MonitorInv, StackParts
  <1>1. CASE Tick
    <2>1. StackParts'
      BY <1>0, <1>1 DEF Tick, panels, StackParts, InterruptInv, WatchInv, AliveInv, KeptInv,
                        Running, CallsAt
    <2>2. /\ checkpoint' = [c \in Container |-> IF c \in active THEN Aged(checkpoint[c], Half)
                                                ELSE 0]
          /\ ran' = [c \in Container |-> IF c \in active THEN Aged(ran[c], 2 * Half) ELSE 0]
          /\ UNCHANGED <<frames, active, second>>
      BY <1>1 DEF Tick
    <2>3. \A c \in Container : checkpoint[c] \in 0..Half /\ ran[c] \in 0..2 * Half
      BY <1>0 DEF Ages
    <2>4. ASSUME NEW c \in Container
          PROVE  /\ ran'[c] >= checkpoint'[c]
                 /\ c \in second => ran'[c] >= checkpoint'[c] + Half
                 /\ c \in active => checkpoint'[c] >= checkpoint[c] /\ ran'[c] >= ran[c]
                 /\ checkpoint'[c] \in 0..Half /\ ran'[c] \in 0..2 * Half
      <3>1. ran[c] >= checkpoint[c] /\ (c \in second => c \in active /\ ran[c] >= checkpoint[c] + Half)
        BY <1>0 DEF AgeInv
      <3> QED BY <2>2, <2>3, <3>1 DEF Aged
    <2>5. ASSUME NEW i \in DOMAIN frames, frames[i].kind \in Interrupts,
                 NEW c \in frames[i].todo
          PROVE  c \in active /\ checkpoint'[c] >= Half
      <3>1. c \in active /\ checkpoint[c] >= Half
        BY <1>0, <2>5 DEF AgeInv
      <3>2. c \in Container
        BY <1>0, <3>1 DEF Rest
      <3> QED BY <2>3, <2>4, <3>1, <3>2
    <2>6. ASSUME NEW i \in DOMAIN frames, frames[i].kind = "ask"
          PROVE  frames[i].c \in active /\ ran'[frames[i].c] >= 2 * Half
      <3>1. frames[i].c \in active /\ ran[frames[i].c] >= 2 * Half
        BY <1>0, <2>6 DEF AgeInv
      <3>2. frames[i].c \in Container
        BY <1>0, <3>1 DEF Rest
      <3> QED BY <2>3, <2>4, <3>1, <3>2
    <2>7. AgeInv'
      BY <1>0, <2>2, <2>4, <2>5, <2>6 DEF AgeInv
    <2> QED BY <2>1, <2>7
  <1>2. CASE Poll
    <2>1. CASE MayEnter
      <3> DEFINE f == Frame("enter", NoOne, {})
      <3>1. f \in FrameSet /\ f.kind = "enter" /\ f.c = NoOne /\ f.todo = {}
        BY NewFrames DEF Frame, Interrupts
      <3>2. /\ frames' = Push(f) /\ inInterrupt' /\ ~inInterrupt
            /\ UNCHANGED <<status, active, ignored, second, checkpoint, ran>>
        BY <1>2, <2>1 DEF Poll, MayEnter, panels, data
      <3> HIDE DEF f
      <3>3. /\ StackParts'
            /\ \A i \in DOMAIN frames' : \/ i \in DOMAIN frames /\ frames'[i] = frames[i]
                                         \/ frames'[i] = f
        BY <1>0, <3>1, <3>2, PushedParts DEF Interrupts, Calls
      <3>4. AgeInv'
        BY <1>0, <3>1, <3>2, <3>3 DEF AgeInv
      <3> QED BY <3>3, <3>4
    <2>2. CASE ~MayEnter
      BY <1>0, <1>2, <2>2, SameParts DEF Poll, panels, data
    <2> QED BY <2>1, <2>2
  <1>3. CASE Scan
    <2> DEFINE afresh == wasInModal /\ ~HasPopup
               todo == IF HasPopup \/ afresh THEN {} ELSE {c \in Container : Due(c)}
               f == Frame("scan", NoOne, todo)
    <2>1. /\ frames' = Replace(f) /\ TopIs({"enter"})
          /\ UNCHANGED <<status, active, ran, second, ignored, inInterrupt>>
          /\ checkpoint' = IF afresh THEN [c \in Container |-> 0] ELSE checkpoint
      BY <1>3 DEF Scan, panels
    <2>2. f \in FrameSet /\ f.kind = "scan" /\ f.c = NoOne /\ f.todo = todo
      BY NewFrames DEF Frame, Interrupts
    <2>3. \A c \in todo : c \in active /\ checkpoint[c] >= Half /\ ~afresh
      BY DEF Due
    <2> HIDE DEF f, todo, afresh
    <2>4. \A c \in Kept(f) : Running(frames, c)
      <3>1. \A c \in active : c \in Container
        BY <1>0 DEF Rest
      <3> QED BY <1>0, <2>2, <2>3, <3>1 DEF Kept, StackParts, WatchInv
    <2>5. TopIs(Interrupts)
      BY <2>1 DEF TopIs, Interrupts
    <2>6. /\ StackParts'
          /\ \A i \in DOMAIN frames' : frames'[i].kind \in Interrupts => frames'[i] = f
      BY <1>0, <2>1, <2>2, <2>4, <2>5, ReplacedParts DEF Interrupts
    <2>7. \A c \in Container : checkpoint[c] \in 0..Half /\ ran[c] \in 0..2 * Half
      BY <1>0 DEF Ages
    <2>8. \A c \in Container : /\ ran[c] >= checkpoint'[c]
                               /\ c \in second => ran[c] >= checkpoint'[c] + Half
      BY <1>0, <2>1, <2>7 DEF AgeInv
    <2>9. AgeInv'
      BY <1>0, <2>1, <2>2, <2>3, <2>6, <2>8 DEF AgeInv, Interrupts
    <2> QED BY <2>6, <2>9
  <1>4. CASE LeaveInterrupt
    <2>1. /\ frames # <<>> /\ frames' = Pop /\ Top.kind = "scan" /\ ~inInterrupt'
          /\ UNCHANGED <<status, active, ignored, second, checkpoint, ran>>
      BY <1>4 DEF LeaveInterrupt, TopIs, panels, data
    <2>2. /\ StackParts'
          /\ \A i \in DOMAIN frames' : i \in DOMAIN frames /\ frames'[i] = frames[i]
      BY <1>0, <2>1, PoppedParts DEF Interrupts, Calls
    <2> QED BY <1>0, <2>1, <2>2 DEF AgeInv
  <1>5. ASSUME NEW c \in Container, Consider(c) PROVE StackParts' /\ AgeInv'
    <2> DEFINE rest == Top.todo \ {c}
               f == Frame("scan", NoOne, rest)
               g == Frame("ask", c, rest)
    <2>0. /\ TopIs(Interrupts) /\ c \in Top.todo /\ frames # <<>>
          /\ UNCHANGED <<status, active, ran, ignored, inInterrupt>>
      BY <1>5 DEF Consider, TopIs, Interrupts, panels
    <2>1. /\ f \in FrameSet /\ f.kind = "scan" /\ f.c = NoOne /\ f.todo = rest
          /\ g \in FrameSet /\ g.kind = "ask" /\ g.c = c /\ g.todo = rest
      <3>1. rest \in SUBSET Container
        BY <1>0, <2>0, StackOfType DEF FrameSet
      <3> HIDE DEF rest
      <3> QED BY <3>1, NewFrames DEF Frame, Interrupts
    <2>2. \A d \in Top.todo : d \in active /\ checkpoint[d] >= Half /\ d \in Container
                              /\ Running(frames, d)
      <3>1. Len(frames) \in DOMAIN frames /\ Top.kind \in Interrupts
        BY <1>0, <2>0 DEF TopIs
      <3> QED BY <1>0, <3>1 DEF AgeInv, Rest, Top, StackParts, WatchInv
    <2>3. \A d \in Kept(f) \cup Kept(g) : Running(frames, d)
      BY <2>0, <2>1, <2>2 DEF Kept
    <2>4. \A d \in Container : checkpoint[d] \in 0..Half /\ ran[d] \in 0..2 * Half
      BY <1>0 DEF Ages
    <2>5. \A d \in rest : d \in active /\ checkpoint[d] >= Half /\ d # c
      BY <2>2
    <2>6. CASE c \notin second
      <3>1. frames' = Replace(f) /\ second' = second \cup {c}
            /\ checkpoint' = [checkpoint EXCEPT ![c] = 0]
        BY <1>5, <2>6 DEF Consider
      <3> HIDE DEF f, g, rest
      <3>2. /\ StackParts'
            /\ \A i \in DOMAIN frames' : frames'[i].kind \in Interrupts => frames'[i] = f
        BY <1>0, <2>0, <2>1, <2>3, <3>1, ReplacedParts DEF Interrupts
      <3>3. checkpoint' = [d \in Container |-> IF d = c THEN 0 ELSE checkpoint[d]]
        BY <1>0, <3>1 DEF Ages
      <3>4. ran[c] >= Half
        <4>1. checkpoint[c] >= Half /\ ran[c] >= checkpoint[c]
          BY <1>0, <2>0, <2>2 DEF AgeInv
        <4> QED BY <2>4, <4>1
      <3>5. \A d \in Container :
              /\ ran[d] >= checkpoint'[d]
              /\ d \in second' => ran[d] >= checkpoint'[d] + Half
        BY <1>0, <2>4, <3>1, <3>3, <3>4 DEF AgeInv
      <3>6. second' \subseteq active
        BY <1>0, <2>0, <2>2, <3>1 DEF AgeInv
      <3>7. \A d \in rest : d \in active /\ checkpoint'[d] >= Half
        BY <1>0, <2>5, <3>3 DEF Rest
      <3>8. AgeInv'
        BY <2>0, <2>1, <3>2, <3>5, <3>6, <3>7 DEF AgeInv, Interrupts
      <3> QED BY <3>2, <3>8
    <2>7. CASE c \in second /\ frames' = Replace(f)
      <3>1. UNCHANGED <<second, checkpoint>>
        BY <1>5, <2>7 DEF Consider
      <3> HIDE DEF f, g, rest
      <3>2. /\ StackParts'
            /\ \A i \in DOMAIN frames' : frames'[i].kind \in Interrupts => frames'[i] = f
        BY <1>0, <2>0, <2>1, <2>3, <2>7, ReplacedParts DEF Interrupts
      <3>3. AgeInv'
        BY <1>0, <2>0, <2>1, <2>5, <3>1, <3>2 DEF AgeInv, Interrupts
      <3> QED BY <3>2, <3>3
    <2>8. CASE c \in second /\ frames' = Replace(g)
      <3>1. UNCHANGED <<second, checkpoint>>
        BY <1>5, <2>8 DEF Consider
      <3>0. ran[c] >= 2 * Half
        <4>1. checkpoint[c] >= Half /\ ran[c] >= checkpoint[c] + Half
          BY <1>0, <2>0, <2>2, <2>8 DEF AgeInv
        <4> QED BY <2>4, <4>1
      <3>9. c \in active
        BY <2>0, <2>2
      <3> HIDE DEF f, g, rest
      <3>2. /\ StackParts'
            /\ \A i \in DOMAIN frames' : frames'[i].kind \in Interrupts => frames'[i] = g
        <4>1. g.c \notin g.todo
          BY <2>1, <2>5
        <4> QED BY <1>0, <2>0, <2>1, <2>3, <2>8, <4>1, ReplacedParts DEF Interrupts
      <3>3. AgeInv'
        BY <1>0, <2>0, <2>1, <2>5, <3>0, <3>1, <3>2, <3>9 DEF AgeInv, Interrupts
      <3> QED BY <3>2, <3>3
    <2> QED BY <1>5, <2>6, <2>7, <2>8 DEF Consider
  <1>6. ASSUME NEW stop \in BOOLEAN, NEW askAgain \in BOOLEAN, Answer(stop, askAgain)
        PROVE  StackParts' /\ AgeInv'
    <2> DEFINE c == Top.c
               f == Frame("scan", NoOne, {})
               g == Frame("scan", NoOne, Top.todo)
    <2>0. /\ TopIs(Interrupts) /\ Top.kind = "ask" /\ frames # <<>>
          /\ ignored \subseteq ignored'
          /\ UNCHANGED <<status, active, inInterrupt>>
      BY <1>6 DEF Answer, TopIs, Interrupts, panels
    <2>1. /\ f \in FrameSet /\ f.kind = "scan" /\ f.c = NoOne /\ f.todo = {}
          /\ g \in FrameSet /\ g.kind = "scan" /\ g.c = NoOne /\ g.todo = Top.todo
      <3>1. Top.todo \in SUBSET Container
        BY <1>0, <2>0, StackOfType DEF FrameSet
      <3> QED BY <3>1, NewFrames DEF Frame, Interrupts
    <2>2. \A d \in Top.todo : d \in active /\ checkpoint[d] >= Half /\ d \in Container
                              /\ Running(frames, d)
      <3>1. Len(frames) \in DOMAIN frames /\ Top.kind \in Interrupts
        BY <1>0, <2>0 DEF TopIs
      <3> QED BY <1>0, <3>1 DEF AgeInv, Rest, Top, StackParts, WatchInv
    <2>3. \A d \in Kept(f) \cup Kept(g) : Running(frames, d)
      BY <2>1, <2>2 DEF Kept
    <2>4. \A d \in Container : checkpoint[d] \in 0..Half /\ ran[d] \in 0..2 * Half
      BY <1>0 DEF Ages
    <2>5. CASE frames' = Replace(f) /\ UNCHANGED <<checkpoint, second, ran>>
      <3> HIDE DEF f, g
      <3>1. /\ StackParts'
            /\ \A i \in DOMAIN frames' : frames'[i].kind \in Interrupts => frames'[i] = f
        BY <1>0, <2>0, <2>1, <2>3, <2>5, ReplacedParts DEF Interrupts
      <3>2. AgeInv'
        BY <1>0, <2>0, <2>1, <2>5, <3>1 DEF AgeInv, Interrupts
      <3> QED BY <3>1, <3>2
    <2>6. CASE /\ frames' = Replace(g)
               /\ checkpoint' = [checkpoint EXCEPT ![c] = 0]
               /\ second' = second \ {c}
               /\ ran' = [ran EXCEPT ![c] = 0]
      <3>0. c \notin Top.todo /\ Len(frames) \in DOMAIN frames
        BY <1>0, <2>0 DEF StackParts, InterruptInv, Top
      <3>1. \A d \in Top.todo : d \in active /\ checkpoint'[d] >= Half
        BY <1>0, <2>2, <2>6, <3>0 DEF Ages
      <3>2. /\ checkpoint' = [d \in Container |-> IF d = c THEN 0 ELSE checkpoint[d]]
            /\ ran' = [d \in Container |-> IF d = c THEN 0 ELSE ran[d]]
        BY <1>0, <2>6 DEF Ages
      <3>3. \A d \in Container :
              /\ ran'[d] >= checkpoint'[d]
              /\ d \in second' => ran'[d] >= checkpoint'[d] + Half
        BY <1>0, <2>6, <3>2 DEF AgeInv
      <3>4. second' \subseteq active
        BY <1>0, <2>6 DEF AgeInv
      <3> HIDE DEF f, g, c
      <3>5. /\ StackParts'
            /\ \A i \in DOMAIN frames' : frames'[i].kind \in Interrupts => frames'[i] = g
        BY <1>0, <2>0, <2>1, <2>3, <2>6, ReplacedParts DEF Interrupts
      <3>6. AgeInv'
        BY <1>0, <2>0, <2>1, <3>1, <3>3, <3>4, <3>5 DEF AgeInv, Interrupts
      <3> QED BY <3>5, <3>6
    <2> QED BY <1>6, <2>5, <2>6 DEF Answer
  <1>7. ASSUME NEW c \in Container, NEW kind \in Calls, ActionStart(c),
               frames' = Push(Frame(kind, c, {})), inInterrupt' = inInterrupt,
               status'[c] # "gone", \A d \in Container \ {c} : status'[d] = status[d]
        PROVE  StackParts' /\ AgeInv'
    <2>1. IsOutermostIn(frames, c) <=> ~Running(frames, c)
      BY <1>0, NestedIsRunning DEF IsOutermostIn
    <2>2. CASE IsOutermostIn(frames, c) /\ c \notin ignored
      <3>1. active' = active \cup {c} /\ Afresh(c) /\ UNCHANGED <<second, ignored>>
        BY <1>7, <2>2 DEF ActionStart, Afresh
      <3> QED BY <1>0, <1>7, <2>1, <2>2, <3>1, CalledParts
    <2>3. CASE ~(IsOutermostIn(frames, c) /\ c \notin ignored)
      <3>1. UNCHANGED <<active, checkpoint, ran, second, ignored>>
        BY <1>7, <2>3 DEF ActionStart, data
      <3> QED BY <1>0, <1>7, <2>1, <2>3, <3>1, CalledParts
    <2> QED BY <2>2, <2>3
  <1>8. ASSUME NEW c \in Container, Call(c) PROVE StackParts' /\ AgeInv'
    <2>1. /\ ActionStart(c) /\ frames' = Push(Frame("call", c, {}))
          /\ status[c] = "Working" /\ UNCHANGED <<status, inInterrupt>>
      BY <1>8 DEF Call, panels
    <2> QED BY <1>7, <2>1 DEF Calls
  <1>9. ASSUME NEW c \in Container, Load(c) PROVE StackParts' /\ AgeInv'
    <2>1. /\ ActionStart(c) /\ frames' = Push(Frame("load", c, {}))
          /\ status' = [status EXCEPT ![c] = "Working"] /\ UNCHANGED inInterrupt
      BY <1>9 DEF Load
    <2>2. status'[c] # "gone" /\ \A d \in Container \ {c} : status'[d] = status[d]
      BY <1>0, <2>1 DEF Rest
    <2> QED BY <1>7, <2>1, <2>2 DEF Calls
  <1>10. ASSUME NEW c \in Container, Create(c) PROVE StackParts' /\ AgeInv'
    <2>1. /\ status[c] = "gone" /\ frames' = Push(Frame("load", c, {}))
          /\ status' = [status EXCEPT ![c] = "Working"]
          /\ active' = active \cup {c} /\ Afresh(c)
          /\ UNCHANGED <<second, ignored, inInterrupt>>
      BY <1>10 DEF Create, Afresh
    <2>2. status'[c] # "gone" /\ \A d \in Container \ {c} : status'[d] = status[d]
      BY <1>0, <2>1 DEF Rest
    <2>3. ~Running(frames, c)
      BY <1>0, <2>1 DEF StackParts, AliveInv
    <2> QED BY <1>0, <2>1, <2>2, <2>3, CalledParts DEF Calls
  <1>11. ASSUME NEW c \in Container, NEW failed \in BOOLEAN, Return(c, failed)
         PROVE  StackParts' /\ AgeInv'
    <2> DEFINE st == IF failed THEN [status EXCEPT ![c] = "Failed"] ELSE status
    <2>1. /\ frames # <<>> /\ Top.kind \in Calls /\ Top.c = c /\ frames' = Pop
          /\ UNCHANGED inInterrupt
      BY <1>11 DEF Return, ScriptRuns, TopIs
    <2>2. Pop \in Seq(FrameSet) /\ Top \in FrameSet
      BY <1>0, <2>1, StackOfType
    <2>3. NestedIn(Pop, c) = 0 <=> ~Running(Pop, c)
      BY <2>2, NestedIsRunning
    <2>4. \/ /\ ~Running(Pop, c) /\ active' = active \ {c} /\ second' = second \ {c}
             /\ Afresh(c)
          \/ Running(Pop, c) /\ UNCHANGED <<active, second, checkpoint, ran>>
      BY <1>11, <2>3 DEF Return, IsOutermostIn, ClearsSecondHalf, Afresh
    <2>5. /\ st[c] # "gone" /\ \A d \in Container \ {c} : st[d] = status[d]
          /\ st \in [Container -> {"gone", "Ready", "Working", "Failed"}]
      <3>1. Running(frames, c)
        BY <1>0, <2>1, PoppedStack DEF Running, CallsAt, Top
      <3>2. status[c] # "gone"
        BY <1>0, <3>1 DEF StackParts, AliveInv
      <3> QED BY <1>0, <3>2 DEF Rest
    <2>6. \/ Unregister(c, st) /\ ~Running(Pop, c)
          \/ status' = st /\ ignored' = ignored
      BY <1>11, <2>3 DEF Return, IsSavedIn
    <2> HIDE DEF st
    <2>7. /\ Running(Pop, c) => status'[c] # "gone" /\ ignored' = ignored
          /\ \A d \in Container \ {c} : status'[d] = status[d]
          /\ ignored \ {c} \subseteq ignored'
      BY <2>5, <2>6 DEF Unregister
    <2> QED BY <1>0, <2>1, <2>4, <2>7, ReturnedParts
  <1>12. ASSUME NEW c \in Container, Destroy(c) PROVE StackParts' /\ AgeInv'
    <2> DEFINE st == [status EXCEPT ![c] = IF @ = "Working" THEN "Ready" ELSE @]
    <2>1. /\ \/ Unregister(c, st) /\ ~IsSavedIn(frames, c)
             \/ status' = st /\ ignored' = ignored
          /\ UNCHANGED <<frames, active, checkpoint, ran, second, inInterrupt>>
      BY <1>12 DEF Destroy
    <2>2. ~IsSavedIn(frames, c) => ~Running(frames, c)
      BY <1>0, NestedIsRunning DEF IsSavedIn
    <2>3. /\ \A d \in Container : st[d] = "gone" => status[d] = "gone"
          /\ st \in [Container -> {"gone", "Ready", "Working", "Failed"}]
      BY <1>0 DEF Rest
    <2> HIDE DEF st
    <2>4. /\ \A d \in Container : status'[d] = "gone" =>
                status[d] = "gone" \/ ~Running(frames, d)
          /\ \A d \in Container : d \in ignored => d \in ignored' \/ ~Running(frames, d)
      BY <2>1, <2>2, <2>3 DEF Unregister
    <2>5. InterruptInv' /\ KeptInv'
      BY <1>0, <2>1 DEF StackParts, InterruptInv, KeptInv, CallsAt
    <2>6. WatchInv' /\ AliveInv'
      BY <1>0, <2>1, <2>4 DEF StackParts, WatchInv, AliveInv, Running, CallsAt
    <2>7. AgeInv'
      BY <1>0, <2>1 DEF AgeInv
    <2> QED BY <2>5, <2>6, <2>7 DEF StackParts
  <1>13. ASSUME NEW kind \in Popups, OpenPopup(kind) PROVE StackParts' /\ AgeInv'
    <2> DEFINE f == Frame(kind, NoOne, {})
    <2>1. /\ f \in FrameSet /\ f.kind \notin Interrupts \cup Calls /\ f.c = NoOne
          /\ f.todo = {} /\ f.kind # "ask"
      BY NewFrames DEF Frame, Interrupts, Calls, Popups
    <2>2. /\ frames' = Push(f)
          /\ UNCHANGED <<status, active, ignored, inInterrupt, second, checkpoint, ran>>
      BY <1>13 DEF OpenPopup, panels, data
    <2> HIDE DEF f
    <2>3. /\ StackParts'
          /\ \A i \in DOMAIN frames' : \/ i \in DOMAIN frames /\ frames'[i] = frames[i]
                                       \/ frames'[i] = f
      BY <1>0, <2>1, <2>2, PushedParts
    <2> QED BY <1>0, <2>1, <2>2, <2>3 DEF AgeInv
  <1>14. CASE ClosePopup
    <2>1. /\ frames # <<>> /\ frames' = Pop /\ Top.kind \notin Interrupts \cup Calls
          /\ UNCHANGED <<status, active, ignored, inInterrupt, second, checkpoint, ran>>
      BY <1>14 DEF ClosePopup, TopIs, panels, data, Interrupts, Calls, Popups
    <2>2. /\ StackParts'
          /\ \A i \in DOMAIN frames' : i \in DOMAIN frames /\ frames'[i] = frames[i]
      BY <1>0, <2>1, PoppedParts
    <2> QED BY <1>0, <2>1, <2>2 DEF AgeInv
  <1>15. CASE Watch \/ SpuriousWakeUp \/ Joined \/ UNCHANGED vars
    <2>1. UNCHANGED <<frames, status, active, second, ignored, inInterrupt, checkpoint, ran>>
      BY <1>15 DEF Watch, SpuriousWakeUp, WatcherLoop, WatcherLock, WatcherWakes,
                   WatcherRequest, Joined, vars, panels, data
    <2> QED BY <1>0, <2>1, SameParts
  <1> QED
    BY <1>1, <1>2, <1>3, <1>4, <1>5, <1>6, <1>8, <1>9, <1>10, <1>11, <1>12, <1>13,
       <1>14, <1>15 DEF Next, Interrupt

LEMMA MonitorIsSafe == Spec => []MonitorInv
  BY MonitorInit, MonitorNext, PTL DEF Spec

------------------------------------------------------------------------------
(* The theorems *)

\* The data of the monitor and the stack of the main thread keep their types.
THEOREM TypeCorrect == Spec => []TypeOK
  <1>1. MonitorInv => TypeOK
    BY DEF MonitorInv
  <1> QED BY <1>1, MonitorIsSafe, PTL

\* Exactly the containers with a script on the stack are watched, but for those that
\* the user told the monitor to ignore.
THEOREM RunningIsWatched == Spec => []WatchedWhileRunning
  <1>1. MonitorInv => WatchedWhileRunning
    <2> SUFFICES ASSUME MonitorInv PROVE WatchedWhileRunning
      OBVIOUS
    <2>1. frames \in Seq(FrameSet) /\ active \subseteq Container
      BY TypeParts DEF MonitorInv, Rest
    <2>2. \A c \in Container : NestedIn(frames, c) # 0 <=> Running(frames, c)
      BY <2>1, NestedIsRunning
    <2> QED BY <2>1, <2>2 DEF MonitorInv, WatchInv, WatchedWhileRunning
  <1> QED BY <1>1, MonitorIsSafe, PTL

\* OnInterrupt never meets a container that was destroyed while its dialog was open.
THEOREM KeptIsAlive == Spec => []KeptDataIsAlive
  <1>1. MonitorInv => KeptDataIsAlive
    <2> SUFFICES ASSUME MonitorInv, NEW i \in DOMAIN frames, NEW c \in Kept(frames[i])
                 PROVE  status[c] # "gone"
      BY DEF KeptDataIsAlive, Kept
    <2>1. Running(frames, c)
      BY DEF MonitorInv, KeptInv, Running
    <2>2. c \in Container
      <3>1. frames[i] \in FrameSet
        BY TypeParts DEF MonitorInv
      <3> QED BY <3>1 DEF Kept, FrameSet
    <2> QED BY <2>1, <2>2 DEF MonitorInv, AliveInv
  <1> QED BY <1>1, MonitorIsSafe, PTL

\* Scripts may run on top of the question, but there is one question at a time.
THEOREM QuestionsAreSingle == Spec => []OneQuestion
  <1>1. MonitorInv => OneQuestion
    BY DEF MonitorInv, InterruptInv, OneQuestion
  <1> QED BY <1>1, MonitorIsSafe, PTL

\* Nobody is asked about a script before it has run for the whole limit.
THEOREM NobodyIsAskedEarly == Spec => AskedAfterTheLimit
  <1> DEFINE Step == \A c \in Container :
                       ~TopIs({"ask"}) /\ (TopIs({"ask"}) /\ Top.c = c)' => ran[c] >= 2 * Half
  <1>1. MonitorInv /\ MonitorInv' /\ [Next]_vars => [Step]_vars
    <2> SUFFICES ASSUME MonitorInv, MonitorInv', Next, NEW c \in Container,
                        ~TopIs({"ask"}), (TopIs({"ask"}) /\ Top.c = c)'
                 PROVE  ran[c] >= 2 * Half
      OBVIOUS
    <2>0. /\ AgeInv /\ AgeInv' /\ frames \in Seq(FrameSet) /\ frames' \in Seq(FrameSet)
          /\ frames' # <<>> /\ Top'.kind = "ask" /\ Top'.c = c
          /\ Top' = frames'[Len(frames')]
      BY TypeParts DEF MonitorInv, TypeOK, FrameSet, TopIs, Top
    <2>1. CASE UNCHANGED frames
      BY <2>1 DEF TopIs, Top
    <2>2. CASE UNCHANGED ran
      <3>1. Len(frames') \in DOMAIN frames'
        BY <2>0
      <3> QED BY <2>0, <2>2, <3>1 DEF AgeInv
    <2>3. CASE frames # <<>> /\ frames' = Pop
      <3>1. Len(frames') \in DOMAIN frames' /\ frames'[Len(frames')].kind = "ask"
        BY <2>0
      <3>2. /\ Len(frames') \in DOMAIN frames
            /\ frames[Len(frames')] = frames'[Len(frames')]
        BY <2>0, <2>3, <3>1, PoppedStack DEF Pop
      <3> QED BY <2>0, <3>1, <3>2 DEF AgeInv
    <2>4. ASSUME NEW kind \in Calls, NEW d \in Container, frames' = Push(Frame(kind, d, {}))
          PROVE  FALSE
      <3>1. Top' = Frame(kind, d, {})
        BY <2>0, <2>4, NewFrames, PushedStack DEF Push
      <3> QED BY <2>0, <3>1 DEF Frame, Calls
    <2>5. ASSUME NEW stop \in BOOLEAN, NEW askAgain \in BOOLEAN, Answer(stop, askAgain)
          PROVE  FALSE
      BY <2>5 DEF Answer
    <2>6. CASE \E d \in Container : Call(d) \/ Load(d) \/ Create(d)
      BY <2>4, <2>6 DEF Call, Load, Create, Calls
    <2>7. CASE \E d \in Container, failed \in BOOLEAN : Return(d, failed)
      BY <2>3, <2>7 DEF Return, ScriptRuns, TopIs
    <2>8. CASE Tick
      BY <2>1, <2>8 DEF Tick
    <2>9. CASE \E d \in Container : Consider(d) \/ Destroy(d)
      BY <2>2, <2>9 DEF Consider, Destroy
    <2>10. CASE Poll \/ Scan \/ LeaveInterrupt \/ Watch \/ SpuriousWakeUp \/ Joined \/ ClosePopup
      BY <2>2, <2>10 DEF Poll, Scan, LeaveInterrupt, Watch, SpuriousWakeUp, WatcherLoop,
             WatcherLock, WatcherWakes, WatcherRequest, Joined, ClosePopup, data
    <2>11. CASE \E kind \in Popups : OpenPopup(kind)
      BY <2>2, <2>11 DEF OpenPopup, data
    <2> QED
      BY <2>5, <2>6, <2>7, <2>8, <2>9, <2>10, <2>11 DEF Next, Interrupt
  <1> QED BY <1>1, MonitorIsSafe, PTL DEF Spec, AskedAfterTheLimit

=============================================================================
