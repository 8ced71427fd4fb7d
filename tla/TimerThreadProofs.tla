------------------------- MODULE TimerThreadProofs --------------------------
(***************************************************************************)
(* Proofs about TimerThread, for any number of timers, delays and calls.   *)
(*                                                                         *)
(* The thread and the main thread share the heap of holders.  What makes   *)
(* the pointers between a timer and its holder whole is that names of      *)
(* holders are never used again and that a call resets the holder of its   *)
(* timer before it touches anything else (HolderInv).  What makes a timer  *)
(* fire once and not early is its generation: whatever is left of an       *)
(* earlier Start is of an earlier generation (EarlyInv, OnceInv).          *)
(***************************************************************************)
EXTENDS TimerThread, TLAPS, FiniteSetTheorems

USE TimeAssumption, BoundAssumption, TimerAssumption

HolderSet == [id : 1..calls, timer : Timer \cup {NoTimer}, when : Time]
FireSet == [timer : Timer, gen : Nat]
CallSet == [step : {"remove", "notifyRemoved", "set", "add", "notifyAdded"},
            timer : Timer, start : BOOLEAN, when : Time]
MainSet == {Ready} \cup [step : {"notifyExit", "join", "stopped"}] \cup CallSet

InAnyCall == main.step \in {"remove", "notifyRemoved", "set", "add", "notifyAdded"}

\* A call has a number.
CallInv == InAnyCall => calls > 0

------------------------------------------------------------------------------
(* Types *)

LEMMA TypeParts ==
    TypeOK <=>
      /\ now \in Time /\ timers \subseteq HolderSet
      /\ thread \in {"check", "lock", "work", "asleep", "done"}
      /\ deadline \in Nat /\ dying \in BOOLEAN /\ calls \in 0..MaxCalls
      /\ gen \in [Timer -> Nat] /\ armed \in [Timer -> BOOLEAN] /\ when \in [Timer -> Time]
      /\ holder \in [Timer -> NoHolder..calls]
      /\ events \in [Timer -> Seq(Nat)]
      /\ firing \in Seq(FireSet) /\ Len(firing) <= MaxDepth
      /\ main \in MainSet
  BY DEF TypeOK, HolderSet, FireSet, MainSet, CallSet

LEMMA MainIsCall ==
    ASSUME main \in MainSet
    PROVE  /\ InAnyCall => main \in CallSet /\ main.timer \in Timer
           /\ main = Ready => main.step = "ready"
           /\ main.step \in {"ready", "notifyExit", "join", "stopped"} \/ InAnyCall
  BY DEF MainSet, CallSet, InAnyCall, Ready

LEMMA LiveTimer ==
    ASSUME TypeOK, NEW h \in Live
    PROVE  h \in HolderSet /\ h.timer \in Timer /\ when[h.timer] \in Time
  BY TypeParts DEF Live, HolderSet

LEMMA TypeInit == Init => TypeOK
  <1> SUFFICES ASSUME Init PROVE TypeOK
    OBVIOUS
  <1>1. Never \in Nat /\ 0 \in Time /\ calls \in 0..MaxCalls /\ NoHolder \in NoHolder..calls
    BY DEF Never, Time, Init, NoHolder
  <1>2. /\ gen \in [Timer -> Nat] /\ armed \in [Timer -> BOOLEAN] /\ when \in [Timer -> Time]
        /\ holder \in [Timer -> NoHolder..calls]
        /\ events \in [Timer -> Seq(Nat)]
    BY <1>1 DEF Init
  <1>3. firing \in Seq(FireSet) /\ Len(firing) <= MaxDepth /\ main \in MainSet
    BY DEF Init, MainSet
  <1> QED BY <1>1, <1>2, <1>3, TypeParts DEF Init

LEMMA TypeNext == TypeOK /\ CallInv /\ [Next]_vars => TypeOK'
  <1> SUFFICES ASSUME TypeOK, CallInv, [Next]_vars PROVE TypeOK'
    OBVIOUS
  <1>0. /\ now \in Time /\ timers \subseteq HolderSet
        /\ thread \in {"check", "lock", "work", "asleep", "done"}
        /\ deadline \in Nat /\ dying \in BOOLEAN /\ calls \in 0..MaxCalls
        /\ gen \in [Timer -> Nat] /\ armed \in [Timer -> BOOLEAN] /\ when \in [Timer -> Time]
        /\ holder \in [Timer -> NoHolder..calls]
        /\ events \in [Timer -> Seq(Nat)]
        /\ firing \in Seq(FireSet) /\ Len(firing) <= MaxDepth
        /\ main \in MainSet
    BY TypeParts
  <1> USE DEF timerVars
  <1>1. CASE CheckExit \/ Lock \/ TimeOut \/ WakeSpuriously
    BY <1>0, <1>1 DEF TypeOK, CheckExit, Lock, TimeOut, WakeSpuriously
  <1>2. CASE WaitForWork
    BY <1>0, <1>2 DEF TypeOK, WaitForWork, Sleep, Never
  <1>3. CASE WaitForTimer
    <2>1. PICK h \in Live, rest \in SUBSET timers :
            /\ ~IsDue(when[h.timer]) /\ timers' = rest /\ Sleep(WaitUntil(when[h.timer]))
      BY <1>3 DEF WaitForTimer
    <2>2. when[h.timer] \in Nat /\ now \in Nat /\ now < when[h.timer]
      BY <1>0, <2>1, LiveTimer DEF IsDue, Time
    <2>3. (when[h.timer] - now) \div Millisecond \in Nat
      BY <2>2
    <2>4. WaitUntil(when[h.timer]) \in Nat
      <3> DEFINE ms == (when[h.timer] - now) \div Millisecond
                 n == IF ms = 0 THEN 1 ELSE ms
      <3>1. n \in Nat
        BY <2>3
      <3>2. WaitUntil(when[h.timer]) = now + Millisecond * n
        BY DEF WaitUntil
      <3> HIDE DEF n
      <3> QED BY <2>2, <3>1, <3>2
    <2> QED BY <1>0, <1>3, <2>1, <2>4 DEF TypeOK, WaitForTimer, Sleep
  <1>4. CASE PostEvent
    <2>1. PICK h \in Live, rest \in SUBSET timers :
            /\ timers' = rest \ {h} /\ holder' = HolderReset(h.timer)
            /\ events' = [events EXCEPT ![h.timer] = Append(@, gen[h.timer])]
      BY <1>4 DEF PostEvent
    <2>2. h.timer \in Timer
      BY LiveTimer
    <2>3. events' \in [Timer -> Seq(Nat)]
      BY <1>0, <2>1, <2>2
    <2>4. holder' \in [Timer -> NoHolder..calls]
      <3>1. NoHolder \in NoHolder..calls
        BY <1>0 DEF NoHolder
      <3> QED BY <1>0, <2>1, <3>1 DEF HolderReset
    <2> QED BY <1>0, <1>4, <2>1, <2>3, <2>4 DEF TypeOK, PostEvent
  <1>5. CASE Remove
    <2> DEFINE t == main.timer
    <2>0. main.step = "remove" /\ main \in CallSet /\ t \in Timer
      BY <1>0, <1>5, MainIsCall DEF Remove, InAnyCall
    <2>1. CASE holder[t] = NoHolder
      <3>1. main' = [main EXCEPT !.step = "set"] /\ UNCHANGED <<timers, holder>>
        BY <1>5, <2>1 DEF Remove, Goes
      <3>2. main' \in MainSet
        BY <2>0, <3>1 DEF MainSet, CallSet
      <3> QED BY <1>0, <1>5, <3>1, <3>2 DEF Remove, TypeOK, MainSet, CallSet
    <2>2. CASE holder[t] # NoHolder
      <3>1. main' = [main EXCEPT !.step = "notifyRemoved"] /\ timers' = Canceled(t)
            /\ holder' = HolderReset(t)
        BY <1>5, <2>2 DEF Remove, Goes
      <3>2. main' \in MainSet
        BY <2>0, <3>1 DEF MainSet, CallSet
      <3>3. timers' \subseteq HolderSet
        <4>1. \A h \in HolderSet : [h EXCEPT !.timer = NoTimer] \in HolderSet
          BY DEF HolderSet
        <4> QED BY <1>0, <3>1, <4>1 DEF Canceled
      <3>4. holder' \in [Timer -> NoHolder..calls]
        <4>1. NoHolder \in NoHolder..calls
          BY <1>0 DEF NoHolder
        <4> QED BY <1>0, <3>1, <4>1 DEF HolderReset
      <3> QED BY <1>0, <1>5, <3>2, <3>3, <3>4
              DEF Remove, TypeOK, MainSet, CallSet, HolderSet
    <2> QED BY <2>1, <2>2
  <1>6. CASE NotifyRemoved
    <2>1. main \in CallSet
      BY <1>0, <1>6, MainIsCall DEF NotifyRemoved, InAnyCall
    <2>2. main' = [main EXCEPT !.step = "set"]
      BY <1>6 DEF NotifyRemoved, Goes
    <2>3. main' \in MainSet
      BY <2>1, <2>2 DEF MainSet, CallSet
    <2> QED BY <1>0, <1>6, <2>3 DEF NotifyRemoved, Woken, TypeOK, MainSet, CallSet
  <1>7. CASE SetTimer
    <2> DEFINE t == main.timer
    <2>0. main.step = "set" /\ main \in CallSet /\ t \in Timer /\ main.when \in Time
          /\ main.start \in BOOLEAN
      BY <1>0, <1>7, MainIsCall DEF SetTimer, InAnyCall, CallSet
    <2>1. main' \in MainSet
      <3>1. main' = Ready \/ main' = [main EXCEPT !.step = "add"]
        BY <1>7 DEF SetTimer, Goes
      <3> QED BY <2>0, <3>1 DEF MainSet, CallSet
    <2>2. armed' \in [Timer -> BOOLEAN]
      BY <1>0, <1>7, <2>0 DEF SetTimer
    <2>3. gen' \in [Timer -> Nat]
      BY <1>0, <1>7, <2>0 DEF SetTimer
    <2>4. when' \in [Timer -> Time]
      BY <1>0, <1>7, <2>0 DEF SetTimer
    <2> QED BY <1>0, <1>7, <2>1, <2>2, <2>3, <2>4 DEF SetTimer, TypeOK, MainSet, CallSet
  <1>8. CASE Add
    <2> DEFINE t == main.timer
               g == [id |-> calls, timer |-> main.timer, when |-> when[main.timer]]
    <2>0. main.step = "add" /\ main \in CallSet /\ t \in Timer
      BY <1>0, <1>8, MainIsCall DEF Add, InAnyCall
    <2>1. main' \in MainSet
      <3>1. main' = [main EXCEPT !.step = "notifyAdded"]
        BY <1>8 DEF Add, Goes
      <3> QED BY <2>0, <3>1 DEF MainSet, CallSet
    <2>2. g \in HolderSet
      <3>1. calls \in 1..calls
        BY <1>0, <2>0 DEF CallInv, InAnyCall
      <3>2. when[t] \in Time
        BY <1>0, <2>0
      <3> QED BY <2>0, <3>1, <3>2 DEF HolderSet
    <2>3. timers' \subseteq HolderSet
      BY <1>0, <1>8, <2>2 DEF Add
    <2>4. holder' \in [Timer -> NoHolder..calls]
      <3>1. calls \in NoHolder..calls
        BY <1>0 DEF NoHolder
      <3> QED BY <1>0, <1>8, <3>1 DEF Add
    <2> QED BY <1>0, <1>8, <2>1, <2>3, <2>4 DEF Add, TypeOK, MainSet, CallSet, HolderSet
  <1>9. CASE NotifyAdded \/ NotifyExit
    <2>1. main' \in MainSet
      BY <1>9 DEF NotifyAdded, NotifyExit, Goes, MainSet
    <2> QED BY <1>0, <1>9, <2>1 DEF NotifyAdded, NotifyExit, Woken, TypeOK, MainSet, CallSet
  <1>10. CASE Join
    <2>1. main' \in MainSet
      BY <1>10 DEF Join, Goes, MainSet
    <2> QED BY <1>0, <1>10, <2>1 DEF Join, TypeOK, MainSet, CallSet
  <1>11. ASSUME NEW t \in Timer, Start(t) \/ Cancel(t) PROVE TypeOK'
    <2>1. /\ main' \in MainSet /\ calls' = calls + 1 /\ calls < MaxCalls
          /\ UNCHANGED <<now, timers, thread, deadline, dying, gen, armed, when, holder,
                         events, firing>>
      <3>1. CASE Start(t)
        <4>1. PICK d \in Delay : /\ now + d + Millisecond <= MaxTime
                                 /\ main' = Call("remove", t, TRUE, now + d)
          BY <3>1 DEF Start, Goes
        <4>2. now + d \in Time
          BY <1>0, <4>1 DEF Time
        <4>3. main' \in MainSet
          BY <4>1, <4>2 DEF MainSet, CallSet, Call
        <4> QED BY <3>1, <4>3 DEF Start
      <3>2. CASE Cancel(t)
        <4>1. main' = Call("remove", t, FALSE, 0) /\ 0 \in Time
          BY <3>2 DEF Cancel, Goes, Time
        <4>2. main' \in MainSet
          BY <4>1 DEF MainSet, CallSet, Call
        <4> QED BY <3>2, <4>2 DEF Cancel
      <3> QED BY <1>11, <3>1, <3>2
    <2>2. calls' \in 0..MaxCalls /\ NoHolder..calls \subseteq NoHolder..calls'
          /\ 1..calls \subseteq 1..calls'
      BY <1>0, <2>1 DEF NoHolder
    <2>3. timers' \subseteq [id : 1..calls', timer : Timer \cup {NoTimer}, when : Time]
      BY <1>0, <2>1, <2>2 DEF HolderSet
    <2>4. holder' \in [Timer -> NoHolder..calls']
      BY <1>0, <2>1, <2>2
    <2> QED BY <1>0, <2>1, <2>2, <2>3, <2>4 DEF TypeOK, MainSet, CallSet, FireSet
  <1>12. ASSUME NEW t \in Timer, Fire(t) PROVE TypeOK'
    <2>1. /\ events[t] \in Seq(Nat) /\ events[t] # <<>>
          /\ events' = [events EXCEPT ![t] = Tail(@)]
      BY <1>0, <1>12 DEF Fire
    <2>2. Head(events[t]) \in Nat /\ Tail(events[t]) \in Seq(Nat)
      BY <2>1
    <2>3. events' \in [Timer -> Seq(Nat)]
      BY <1>0, <2>1, <2>2
    <2>4. firing' \in Seq(FireSet) /\ Len(firing') <= MaxDepth
      <3>1. firing' = firing \/ firing' = Append(firing, [timer |-> t, gen |-> Head(events[t])])
        BY <1>12 DEF Fire
      <3>2. [timer |-> t, gen |-> Head(events[t])] \in FireSet
        BY <2>2 DEF FireSet
      <3>3. Len(firing) < MaxDepth
        BY <1>12 DEF Fire
      <3>4. CASE firing' = firing
        BY <1>0, <3>4
      <3>5. CASE firing' = Append(firing, [timer |-> t, gen |-> Head(events[t])])
        <4> DEFINE f == [timer |-> t, gen |-> Head(events[t])]
        <4>1. f \in FireSet /\ firing' = Append(firing, f) /\ firing \in Seq(FireSet)
          BY <1>0, <3>2, <3>5
        <4> HIDE DEF f
        <4>2. firing' \in Seq(FireSet) /\ Len(firing') = Len(firing) + 1
          BY <4>1
        <4>3. Len(firing) \in Nat /\ MaxDepth \in Nat
          BY <4>1
        <4> QED BY <3>3, <4>2, <4>3
      <3> QED BY <3>1, <3>4, <3>5
    <2> QED BY <1>0, <1>12, <2>3, <2>4 DEF Fire, TypeOK, FireSet
  <1>13. CASE FireReturns
    <2>1. firing' \in Seq(FireSet) /\ Len(firing') <= MaxDepth
      <3>1. firing # <<>> /\ firing' = SubSeq(firing, 1, Len(firing) - 1)
        BY <1>13 DEF FireReturns
      <3>2. Len(firing) \in Nat \ {0} /\ Len(firing) - 1 \in Nat
        BY <1>0, <3>1
      <3>3. firing' \in Seq(FireSet)
        BY <1>0, <3>1
      <3>4. Len(firing') = Len(firing) - 1
        <4>1. (Len(firing) - 1) - 1 + 1 = Len(firing) - 1
          BY <3>2
        <4> QED BY <1>0, <3>1, <3>2, <3>3, <4>1
      <3>5. Len(firing) <= MaxDepth /\ MaxDepth \in Nat
        BY <1>0
      <3>6. Len(firing') <= MaxDepth
        BY <3>2, <3>4, <3>5
      <3> QED BY <3>3, <3>6
    <2>2. armed' \in [Timer -> BOOLEAN]
      BY <1>0, <1>13 DEF FireReturns
    <2> QED BY <1>0, <1>13, <2>1, <2>2 DEF FireReturns, TypeOK, FireSet
  <1>14. CASE StopThread
    <2>1. main' \in MainSet
      BY <1>14 DEF StopThread, Goes, MainSet
    <2> QED BY <1>0, <1>14, <2>1 DEF StopThread, TypeOK, MainSet, CallSet
  <1>15. CASE Tick
    BY <1>0, <1>15 DEF Tick, TypeOK, Time
  <1>16. CASE UNCHANGED vars
    BY <1>0, <1>16 DEF vars, TypeOK
  <1> QED
    BY <1>1, <1>2, <1>3, <1>4, <1>5, <1>6, <1>7, <1>8, <1>9, <1>10, <1>11, <1>12,
       <1>13, <1>14, <1>15, <1>16 DEF Next, ThreadStep, CallStep

------------------------------------------------------------------------------
(* Holders *)

HolderInv ==
    /\ HoldersAgree
    /\ \A h1, h2 \in timers : h1.id = h2.id => h1 = h2
    /\ main.step \in {"notifyRemoved", "set", "add"} => holder[main.timer] = NoHolder
    /\ main.step \in {"remove", "notifyRemoved", "set", "add"} =>
         \A h \in timers : h.id < calls

ShareInv == TypeOK /\ CallInv /\ HolderInv

\* Only Join leaves holders without timers, when nothing uses them any more.
LEMMA HoldersByMain ==
    ASSUME TypeOK, HolderInv, UNCHANGED <<timers, holder>>,
           main.step = "stopped" => main'.step = "stopped",
           main'.step \in {"notifyRemoved", "set", "add"} =>
             main'.timer \in Timer /\ holder[main'.timer] = NoHolder,
           main'.step \in {"remove", "notifyRemoved", "set", "add"} =>
             \A h \in timers : h.id < calls'
    PROVE  HolderInv'
  BY DEF HolderInv, HoldersAgree, Live

LEMMA HolderInit == Init => HolderInv /\ CallInv
  <1> SUFFICES ASSUME Init PROVE HolderInv /\ CallInv
    OBVIOUS
  <1>1. /\ timers = {} /\ holder = [t \in Timer |-> NoHolder] /\ main.step = "ready"
    BY DEF Init, Ready
  <1> QED BY <1>1 DEF HolderInv, HoldersAgree, Live, CallInv, InAnyCall

LEMMA HolderNext == ShareInv /\ [Next]_vars => HolderInv' /\ CallInv'
  <1> SUFFICES ASSUME ShareInv, [Next]_vars PROVE HolderInv' /\ CallInv'
    OBVIOUS
  <1>0. /\ TypeOK /\ CallInv /\ HolderInv
        /\ timers \subseteq HolderSet /\ calls \in Nat
        /\ holder \in [Timer -> NoHolder..calls] /\ main \in MainSet
        /\ \A h \in timers : h.id \in Nat /\ h.id > 0 /\ h.id <= calls
    <2>1. timers \subseteq HolderSet /\ calls \in 0..MaxCalls
      BY TypeParts DEF ShareInv
    <2>2. \A h \in HolderSet : h.id \in Nat /\ h.id > 0 /\ h.id <= calls
      BY <2>1 DEF HolderSet
    <2> QED BY <2>1, <2>2, TypeParts DEF ShareInv
  <1> USE DEF timerVars
  \* The thread
  <1>1. ASSUME NEW rest \in SUBSET timers, Live \subseteq rest, timers' = rest,
               UNCHANGED <<holder, main, calls>>
        PROVE  HolderInv' /\ CallInv'
    <2>1. Live' = Live
      BY <1>1 DEF Live
    <2> QED BY <1>0, <1>1, <2>1 DEF HolderInv, HoldersAgree, CallInv, InAnyCall
  <1>2. CASE WaitForWork
    BY <1>1, <1>2 DEF WaitForWork
  <1>3. CASE WaitForTimer
    <2>1. PICK h \in Live, rest \in SUBSET timers : Front(h, rest) /\ timers' = rest
      BY <1>3 DEF WaitForTimer
    <2> QED BY <1>1, <1>3, <2>1 DEF WaitForTimer, Front
  <1>4. CASE PostEvent
    <2>1. PICK h \in Live, rest \in SUBSET timers :
            /\ Front(h, rest) /\ timers' = rest \ {h} /\ holder' = HolderReset(h.timer)
            /\ UNCHANGED <<main, calls>>
      BY <1>4 DEF PostEvent
    <2>2. Live' = Live \ {h} /\ timers' \subseteq timers /\ h.timer \in Timer
      BY <1>0, <2>1, LiveTimer DEF Live, Front
    <2>3. holder' = [t \in Timer |-> IF t = h.timer THEN NoHolder ELSE holder[t]]
      BY <1>0, <2>1 DEF HolderReset
    <2>4. \A g \in Live' : g.timer # h.timer /\ g.timer \in Timer
      <3>1. \A g \in Live : g.timer = h.timer => g.id = h.id /\ g \in timers
        BY <1>0 DEF HolderInv, HoldersAgree, Live
      <3>2. h \in timers /\ \A g \in Live : g.timer \in Timer
        BY <1>0, LiveTimer DEF Live
      <3> QED BY <1>0, <2>2, <3>1, <3>2 DEF HolderInv
    <2>5. HoldersAgree'
      BY <1>0, <2>1, <2>2, <2>3, <2>4 DEF HolderInv, HoldersAgree
    <2>6. main'.step \in {"notifyRemoved", "set", "add"} => holder'[main'.timer] = NoHolder
      <3>1. main.step \in {"notifyRemoved", "set", "add"} => main.timer \in Timer
        BY <1>0, MainIsCall DEF InAnyCall
      <3> QED BY <1>0, <2>1, <2>3, <3>1 DEF HolderInv
    <2> QED BY <1>0, <2>1, <2>2, <2>5, <2>6 DEF HolderInv, CallInv, InAnyCall
  \* The main thread
  <1>5. CASE Remove
    <2> DEFINE t == main.timer
    <2>0. main.step = "remove" /\ main \in CallSet /\ t \in Timer /\ calls' = calls
      BY <1>0, <1>5, MainIsCall DEF Remove, InAnyCall
    <2>1. CASE holder[t] = NoHolder
      <3>1. main' = [main EXCEPT !.step = "set"] /\ UNCHANGED <<timers, holder>>
        BY <1>5, <2>1 DEF Remove, Goes
      <3>2. main'.step = "set" /\ main'.timer = t
        BY <2>0, <3>1 DEF CallSet
      <3> QED BY <1>0, <2>0, <2>1, <3>1, <3>2, HoldersByMain DEF HolderInv, CallInv, InAnyCall
    <2>2. CASE holder[t] # NoHolder
      <3>1. main' = [main EXCEPT !.step = "notifyRemoved"] /\ timers' = Canceled(t)
            /\ holder' = HolderReset(t)
        BY <1>5, <2>2 DEF Remove, Goes
      <3>2. main'.step = "notifyRemoved" /\ main'.timer = t
        BY <2>0, <3>1 DEF CallSet
      <3>3. PICK h \in Live : h.id = holder[t] /\ h.timer = t
        BY <1>0, <2>0, <2>2 DEF HolderInv, HoldersAgree
      <3>4. \A g \in timers : g.id = holder[t] <=> g = h
        BY <1>0, <3>3 DEF HolderInv, Live
      <3>5. timers' = (timers \ {h}) \cup {[h EXCEPT !.timer = NoTimer]}
        BY <3>1, <3>3, <3>4 DEF Canceled, Live
      <3>6. h \in HolderSet /\ [h EXCEPT !.timer = NoTimer].timer = NoTimer
            /\ [h EXCEPT !.timer = NoTimer].id = h.id
        BY <1>0, <3>3 DEF Live, HolderSet
      <3>7. Live' = Live \ {h}
        BY <3>5, <3>6 DEF Live
      <3>8. holder' = [u \in Timer |-> IF u = t THEN NoHolder ELSE holder[u]]
        BY <1>0, <3>1 DEF HolderReset
      <3>9. \A g \in Live' : g.timer # t /\ g.timer \in Timer /\ g \in timers
        <4>1. \A g \in Live : g.timer \in Timer /\ holder[g.timer] = g.id /\ g \in timers
          BY <1>0, LiveTimer DEF HolderInv, HoldersAgree, Live
        <4> QED BY <3>4, <3>7, <4>1
      <3>10. HoldersAgree'
        BY <1>0, <2>0, <3>2, <3>3, <3>7, <3>8, <3>9 DEF HolderInv, HoldersAgree
      <3>11. \A h1, h2 \in timers' : h1.id = h2.id => h1 = h2
        BY <1>0, <3>3, <3>5, <3>6 DEF HolderInv, Live
      <3>12. \A g \in timers' : g.id < calls'
        BY <1>0, <2>0, <3>3, <3>5, <3>6 DEF HolderInv, Live
      <3> QED BY <1>0, <2>0, <3>2, <3>8, <3>10, <3>11, <3>12
              DEF HolderInv, CallInv, InAnyCall
    <2> QED BY <2>1, <2>2
  <1>6. CASE NotifyRemoved
    <2>1. /\ main.step = "notifyRemoved" /\ main \in CallSet /\ main.timer \in Timer
          /\ main' = [main EXCEPT !.step = "set"]
          /\ UNCHANGED <<timers, holder, calls>>
      BY <1>0, <1>6, MainIsCall DEF NotifyRemoved, InAnyCall, Goes
    <2>2. main'.step = "set" /\ main'.timer = main.timer
      BY <2>1 DEF CallSet
    <2> QED BY <1>0, <2>1, <2>2, HoldersByMain DEF HolderInv, CallInv, InAnyCall
  <1>7. CASE SetTimer
    <2>1. /\ main.step = "set" /\ main \in CallSet /\ main.timer \in Timer
          /\ main' = Ready \/ main' = [main EXCEPT !.step = "add"]
          /\ UNCHANGED <<timers, holder, calls>>
      BY <1>0, <1>7, MainIsCall DEF SetTimer, InAnyCall, Goes
    <2>2. \/ main'.step = "ready"
          \/ main'.step = "add" /\ main'.timer = main.timer
      BY <2>1 DEF CallSet, Ready
    <2> QED BY <1>0, <2>1, <2>2, HoldersByMain DEF HolderInv, CallInv, InAnyCall
  <1>8. CASE Add
    <2> DEFINE t == main.timer
               g == [id |-> calls, timer |-> main.timer, when |-> when[main.timer]]
    <2>1. /\ main.step = "add" /\ main \in CallSet /\ t \in Timer /\ calls' = calls
          /\ main' = [main EXCEPT !.step = "notifyAdded"]
          /\ timers' = timers \cup {g} /\ holder' = [holder EXCEPT ![t] = calls]
      BY <1>0, <1>8, MainIsCall DEF Add, InAnyCall, Goes
    <2>2. main'.step = "notifyAdded"
      BY <2>1 DEF CallSet
    <2>3. calls > 0 /\ \A h \in timers : h.id < calls
      BY <1>0, <2>1 DEF CallInv, InAnyCall, HolderInv
    <2>4. g.id = calls /\ g.timer = t /\ t # NoTimer
      BY <2>1
    <2> HIDE DEF g, t
    <2>5. Live' = Live \cup {g}
      BY <2>1, <2>4 DEF Live
    <2>6. holder' = [u \in Timer |-> IF u = t THEN calls ELSE holder[u]]
      BY <1>0, <2>1
    <2>7. \A h \in Live : h.timer # t /\ h.timer \in Timer
      <3>1. \A h \in Live : h.timer \in Timer /\ holder[h.timer] = h.id /\ h.id > 0
        BY <1>0, LiveTimer DEF HolderInv, HoldersAgree, Live
      <3>2. holder[t] = 0
        BY <1>0, <2>1 DEF HolderInv, NoHolder, t
      <3> QED BY <3>1, <3>2
    <2>8. HoldersAgree'
      BY <1>0, <2>1, <2>2, <2>4, <2>5, <2>6, <2>7 DEF HolderInv, HoldersAgree
    <2>9. \A h1, h2 \in timers' : h1.id = h2.id => h1 = h2
      BY <1>0, <2>1, <2>3, <2>4 DEF HolderInv
    <2> QED BY <2>1, <2>2, <2>3, <2>8, <2>9 DEF HolderInv, CallInv, InAnyCall
  <1>9. CASE NotifyAdded \/ NotifyExit \/ StopThread
    <2>1. /\ main'.step \in {"ready", "join", "notifyExit"} /\ main.step # "stopped"
          /\ UNCHANGED <<timers, holder, calls>>
      BY <1>9 DEF NotifyAdded, NotifyExit, StopThread, Goes, Ready
    <2> QED BY <1>0, <2>1, HoldersByMain DEF CallInv, InAnyCall
  <1>10. CASE Join
    <2>1. timers' = {} /\ main'.step = "stopped"
      BY <1>10 DEF Join, Goes
    <2> QED BY <2>1 DEF HolderInv, HoldersAgree, Live, CallInv, InAnyCall
  <1>11. ASSUME NEW t \in Timer, Start(t) \/ Cancel(t) PROVE HolderInv' /\ CallInv'
    <2>1. /\ main'.step = "remove" /\ calls' = calls + 1
          /\ main.step # "stopped"
          /\ UNCHANGED <<timers, holder>>
      BY <1>11 DEF Start, Cancel, Goes, Call, Ready
    <2>2. \A h \in timers : h.id < calls'
      BY <1>0, <2>1
    <2> QED BY <1>0, <2>1, <2>2, HoldersByMain DEF CallInv
  <1>12. CASE \/ CheckExit \/ Lock \/ TimeOut \/ WakeSpuriously \/ FireReturns \/ Tick
              \/ \E t \in Timer : Fire(t)
              \/ UNCHANGED vars
    <2>1. UNCHANGED <<timers, holder, main, calls>>
      BY <1>12 DEF CheckExit, Lock, TimeOut, WakeSpuriously, FireReturns, Tick, Fire, vars
    <2> QED BY <1>0, <2>1 DEF HolderInv, HoldersAgree, Live, CallInv, InAnyCall
  <1> QED
    BY <1>2, <1>3, <1>4, <1>5, <1>6, <1>7, <1>8, <1>9, <1>10, <1>11, <1>12
       DEF ShareInv, Next, ThreadStep, CallStep

LEMMA ShareIsInvariant == Spec => []ShareInv
  <1>1. Init => ShareInv
    BY TypeInit, HolderInit DEF ShareInv
  <1>2. ShareInv /\ [Next]_vars => ShareInv'
    BY TypeNext, HolderNext DEF ShareInv
  <1> QED BY <1>1, <1>2, PTL DEF Spec

\* The heap, the timers and the queued events keep their types.
THEOREM TypeCorrect == Spec => []TypeOK
  <1>1. ShareInv => TypeOK
    BY DEF ShareInv
  <1> QED BY <1>1, ShareIsInvariant, PTL

\* No pointer between a timer and its holder dangles, and the thread never reads the
\* members of a timer while the main thread writes them.
THEOREM SharingIsSafe == Spec => []SharedTimersAreWhole
  <1>1. ShareInv => SharedTimersAreWhole
    <2> SUFFICES ASSUME ShareInv PROVE SharedTimersAreWhole
      OBVIOUS
    <2>1. HoldersAgree
      BY DEF ShareInv, HolderInv
    <2>2. \A h \in Live : h.id > 0 /\ h.id \in Nat
      BY TypeParts, LiveTimer DEF ShareInv, HolderSet
    <2>3. NoRaceOnMembers
      BY <2>1, <2>2 DEF ShareInv, HolderInv, HoldersAgree, NoRaceOnMembers, InCall, NoHolder
    <2> QED BY <2>1, <2>3 DEF SharedTimersAreWhole
  <1> QED BY <1>1, ShareIsInvariant, PTL

------------------------------------------------------------------------------
(* Due times *)

\* An event of the current generation was posted when the timer was due.
EarlyInv ==
    \A t \in Timer : \A i \in 1..Len(events[t]) :
      events[t][i] <= gen[t] /\ (events[t][i] = gen[t] => IsDue(when[t]))

LEMMA EarlyNext == TypeOK /\ EarlyInv /\ [Next]_vars => EarlyInv'
  <1> SUFFICES ASSUME TypeOK, EarlyInv, [Next]_vars PROVE EarlyInv'
    OBVIOUS
  <1>0. /\ now \in Nat /\ gen \in [Timer -> Nat] /\ when \in [Timer -> Nat]
        /\ events \in [Timer -> Seq(Nat)] /\ main \in MainSet
    BY TypeParts DEF Time
  <1> USE DEF timerVars
  <1>1. CASE PostEvent
    <2>1. PICK h \in Live :
            /\ IsDue(when[h.timer]) /\ UNCHANGED <<now, gen, when>>
            /\ events' = [events EXCEPT ![h.timer] = Append(@, gen[h.timer])]
      BY <1>1 DEF PostEvent
    <2> SUFFICES ASSUME NEW t \in Timer, NEW i \in 1..Len(events'[t])
                 PROVE  events'[t][i] <= gen[t] /\ (events'[t][i] = gen[t] => IsDue(when[t]))
      BY <2>1 DEF EarlyInv, IsDue
    <2>2. CASE t # h.timer
      BY <1>0, <2>1, <2>2 DEF EarlyInv
    <2>3. CASE t = h.timer
      <3>1. events'[t] = Append(events[t], gen[t]) /\ gen[t] \in Nat /\ events[t] \in Seq(Nat)
        BY <1>0, <2>1, <2>3
      <3>2. \/ i \in 1..Len(events[t]) /\ events'[t][i] = events[t][i]
            \/ events'[t][i] = gen[t]
        BY <3>1
      <3> QED BY <2>1, <2>3, <3>1, <3>2 DEF EarlyInv
    <2> QED BY <2>2, <2>3
  <1>2. CASE SetTimer
    <2> DEFINE u == main.timer
    <2>1. /\ gen' = [gen EXCEPT ![u] = @ + 1]
          /\ when' = when \/ when' = [when EXCEPT ![u] = main.when]
          /\ UNCHANGED <<now, events>>
      BY <1>2 DEF SetTimer
    <2> SUFFICES ASSUME NEW t \in Timer, NEW i \in 1..Len(events[t])
                 PROVE  /\ events[t][i] <= gen'[t]
                        /\ events[t][i] = gen'[t] => IsDue(when'[t])
      BY <2>1 DEF EarlyInv, IsDue
    <2>2. events[t][i] \in Nat /\ events[t][i] <= gen[t] /\ gen[t] \in Nat
      BY <1>0 DEF EarlyInv
    <2>3. CASE t = u
      BY <1>0, <2>1, <2>2, <2>3
    <2>4. CASE t # u
      <3>1. gen'[t] = gen[t] /\ when'[t] = when[t]
        BY <1>0, <2>1, <2>4
      <3> QED BY <3>1 DEF EarlyInv
    <2> QED BY <2>3, <2>4
  <1>3. ASSUME NEW u \in Timer, Fire(u) PROVE EarlyInv'
    <2>1. /\ events[u] # <<>> /\ events' = [events EXCEPT ![u] = Tail(@)]
          /\ UNCHANGED <<now, gen, when>>
      BY <1>3 DEF Fire
    <2> SUFFICES ASSUME NEW t \in Timer, NEW i \in 1..Len(events'[t])
                 PROVE  events'[t][i] <= gen[t] /\ (events'[t][i] = gen[t] => IsDue(when[t]))
      BY <2>1 DEF EarlyInv, IsDue
    <2>2. CASE t # u
      BY <1>0, <2>1, <2>2 DEF EarlyInv
    <2>3. CASE t = u
      <3>1. events'[t] = Tail(events[t]) /\ events[t] \in Seq(Nat) /\ events[t] # <<>>
        BY <1>0, <2>1, <2>3
      <3>2. i + 1 \in 1..Len(events[t]) /\ events'[t][i] = events[t][i + 1]
        BY <3>1
      <3> QED BY <3>2 DEF EarlyInv
    <2> QED BY <2>2, <2>3
  <1>4. CASE Tick
    <2>1. now' = now + 1 /\ UNCHANGED <<gen, when, events>>
      BY <1>4 DEF Tick
    <2>2. \A w \in Nat : IsDue(w) => IsDue(w)'
      BY <1>0, <2>1 DEF IsDue
    <2> QED BY <1>0, <2>1, <2>2 DEF EarlyInv, IsDue
  <1>5. ASSUME UNCHANGED <<now, gen, when, events>> PROVE EarlyInv'
    BY <1>5 DEF EarlyInv, IsDue
  <1>6. CASE \/ CheckExit \/ Lock \/ WaitForWork \/ WaitForTimer \/ TimeOut \/ WakeSpuriously
             \/ Remove \/ NotifyRemoved \/ Add \/ NotifyAdded \/ NotifyExit \/ Join
             \/ FireReturns \/ StopThread \/ UNCHANGED vars
             \/ \E t \in Timer : Start(t) \/ Cancel(t)
    BY <1>5, <1>6 DEF CheckExit, Lock, WaitForWork, WaitForTimer, TimeOut, WakeSpuriously,
       Remove, NotifyRemoved, Add, NotifyAdded, NotifyExit, Join, FireReturns, StopThread,
       Start, Cancel, vars
  <1> QED
    BY <1>1, <1>2, <1>3, <1>4, <1>6 DEF Next, ThreadStep, CallStep

\* The task of a timer is not called before its time, by any event that was queued for
\* an earlier start or after a cancel.
THEOREM NobodyFiresEarly == Spec => NeverEarly
  <1> DEFINE A == \A t \in Timer :
                    Len(firing') > Len(firing) /\ firing'[Len(firing')].timer = t
                      => now >= when[t] - Early
  <1>1. Init => EarlyInv
    BY DEF Init, EarlyInv
  <1>2. TypeOK /\ EarlyInv /\ [Next]_vars => A
    <2> SUFFICES ASSUME TypeOK, EarlyInv, [Next]_vars, NEW t \in Timer,
                        Len(firing') > Len(firing), firing'[Len(firing')].timer = t
                 PROVE  now >= when[t] - Early
      OBVIOUS
    <2>0. events \in [Timer -> Seq(Nat)] /\ firing \in Seq(FireSet)
      BY TypeParts
    <2>1. ASSUME NEW u \in Timer, Fire(u) PROVE now >= when[t] - Early
      <3> DEFINE f == [timer |-> u, gen |-> Head(events[u])]
      <3>1. /\ events[u] # <<>>
            /\ \/ Head(events[u]) = gen[u] /\ firing' = Append(firing, f)
               \/ firing' = firing
        BY <2>1 DEF Fire, IsCurrent
      <3>2. firing' # firing
        BY <2>0
      <3>3. f.timer = u
        OBVIOUS
      <3> HIDE DEF f
      <3>4. firing'[Len(firing')] = f
        BY <2>0, <3>1, <3>2
      <3>5. u = t
        BY <3>3, <3>4
      <3>6. 1 \in 1..Len(events[t]) /\ events[t][1] = gen[t]
        BY <2>0, <3>1, <3>2, <3>5
      <3> QED BY <3>6 DEF EarlyInv, IsDue
    <2>2. CASE FireReturns
      <3>1. firing # <<>> /\ firing' = SubSeq(firing, 1, Len(firing) - 1)
        BY <2>2 DEF FireReturns
      <3>2. Len(firing) \in Nat \ {0}
        BY <2>0, <3>1
      <3>3. Len(firing') = Len(firing) - 1
        BY <2>0, <3>1, <3>2
      <3> QED BY <3>2, <3>3
    <2>3. CASE UNCHANGED firing
      BY <2>0, <2>3
    <2>4. CASE \/ CheckExit \/ Lock \/ WaitForWork \/ WaitForTimer \/ TimeOut
               \/ WakeSpuriously \/ PostEvent \/ Remove \/ NotifyRemoved \/ SetTimer \/ Add
               \/ NotifyAdded \/ NotifyExit \/ Join \/ StopThread \/ Tick \/ UNCHANGED vars
               \/ \E s \in Timer : Start(s) \/ Cancel(s)
      BY <2>3, <2>4 DEF CheckExit, Lock, WaitForWork, WaitForTimer, TimeOut, WakeSpuriously,
         PostEvent, Remove, NotifyRemoved, SetTimer, Add, NotifyAdded, NotifyExit, Join,
         StopThread, Tick, Start, Cancel, vars
    <2> QED BY <2>1, <2>2, <2>4 DEF Next, ThreadStep, CallStep
  <1>3. TypeOK /\ EarlyInv /\ [Next]_vars => [A]_vars
    BY <1>2
  <1>4. ShareInv => TypeOK
    BY DEF ShareInv
  <1> QED BY <1>1, <1>3, <1>4, EarlyNext, ShareIsInvariant, PTL DEF Spec, NeverEarly

------------------------------------------------------------------------------
(* One thing under way *)

Held(t) == {h \in Live : h.timer = t}
Queued(t) == {i \in 1..Len(events[t]) : events[t][i] = gen[t]}
Called(t) == {i \in 1..Len(firing) : firing[i] = [timer |-> t, gen |-> gen[t]]}

Idle(t) == Held(t) = {} /\ Queued(t) = {} /\ Called(t) = {}

UnderWay(t) ==
    \/ \E h : Held(t) = {h} /\ Queued(t) = {} /\ Called(t) = {}
    \/ \E i : Held(t) = {} /\ Queued(t) = {i} /\ Called(t) = {}
    \/ \E i : Held(t) = {} /\ Queued(t) = {} /\ Called(t) = {i}

Once(t) == IF armed[t] THEN UnderWay(t) ELSE Idle(t)

\* Between Remove and Add, a call has taken the holder of its timer away, and only
\* the new generation makes what is left of the old start harmless.
OnceInv ==
    /\ \A i \in 1..Len(firing) : firing[i].gen <= gen[firing[i].timer]
    /\ \A t \in Timer : ~InCall(t, {"notifyRemoved", "set", "add"}) => Once(t)
    /\ main.step = "add" => armed[main.timer] /\ Idle(main.timer)
    /\ main.step \in {"notifyExit", "join", "stopped"} => \A t \in Timer : ~armed[t]

LEMMA OnceTypes ==
    ASSUME TypeOK
    PROVE  /\ gen \in [Timer -> Nat] /\ armed \in [Timer -> BOOLEAN]
           /\ events \in [Timer -> Seq(Nat)] /\ firing \in Seq(FireSet) /\ main \in MainSet
           /\ \A h \in Live : h.timer \in Timer
  BY TypeParts, LiveTimer

\* A step that leaves the live holders, the events and the calls alone.
LEMMA OnceKept ==
    ASSUME OnceInv, Live' = Live, UNCHANGED <<gen, armed, events, firing>>,
           \A t \in Timer : InCall(t, {"notifyRemoved", "set", "add"})
                             => InCall(t, {"notifyRemoved", "set", "add"})',
           main'.step = "add" => main.step = "add" /\ main'.timer = main.timer,
           main'.step \in {"notifyExit", "join", "stopped"} => \A t \in Timer : ~armed[t]
    PROVE  OnceInv'
  <1>1. \A t : Held(t)' = Held(t) /\ Queued(t)' = Queued(t) /\ Called(t)' = Called(t)
    BY DEF Held, Queued, Called
  <1>2. \A t : (Once(t)' <=> Once(t)) /\ (Idle(t)' <=> Idle(t))
    BY <1>1 DEF Once, Idle, UnderWay
  <1> QED BY <1>2 DEF OnceInv

LEMMA OnceInit == Init => OnceInv
  <1> SUFFICES ASSUME Init PROVE OnceInv
    OBVIOUS
  <1>1. /\ timers = {} /\ firing = <<>> /\ main.step = "ready"
        /\ \A t \in Timer : events[t] = <<>> /\ armed[t] = FALSE
    BY DEF Init, Ready
  <1>2. \A t \in Timer : Idle(t)
    BY <1>1 DEF Idle, Held, Queued, Called, Live
  <1> QED BY <1>1, <1>2 DEF OnceInv, Once

\* The thread turns the holder of a timer into an event.
LEMMA OncePost == ShareInv /\ OnceInv /\ PostEvent => OnceInv'
  <1> SUFFICES ASSUME ShareInv, OnceInv, PostEvent PROVE OnceInv'
    OBVIOUS
  <1>0. TypeOK /\ HolderInv
    BY DEF ShareInv
  <1>1. PICK h \in Live, rest \in SUBSET timers :
          /\ Front(h, rest) /\ timers' = rest \ {h}
          /\ events' = [events EXCEPT ![h.timer] = Append(@, gen[h.timer])]
          /\ UNCHANGED <<gen, armed, firing, main>>
    BY DEF PostEvent, timerVars
  <1>2. Live' = Live \ {h} /\ h.timer \in Timer
    BY <1>0, <1>1, OnceTypes DEF Live, Front
  <1>3. ~InCall(h.timer, {"notifyRemoved", "set", "add"})
    <2>1. holder[h.timer] = h.id /\ h.id # NoHolder
      BY <1>0, LiveTimer DEF HolderInv, HoldersAgree, HolderSet, NoHolder
    <2> QED BY <1>0, <2>1 DEF HolderInv, InCall
  <1>4. \A t \in Timer \ {h.timer} :
          Held(t)' = Held(t) /\ Queued(t)' = Queued(t) /\ Called(t)' = Called(t)
    <2> SUFFICES ASSUME NEW t \in Timer \ {h.timer}
                 PROVE  /\ Held(t)' = Held(t) /\ Queued(t)' = Queued(t)
                        /\ Called(t)' = Called(t)
      OBVIOUS
    <2>1. events'[t] = events[t]
      BY <1>0, <1>1, OnceTypes
    <2> QED BY <1>1, <1>2, <2>1 DEF Held, Queued, Called
  <1>5. armed[h.timer] /\ Held(h.timer) = {h} /\ Queued(h.timer) = {} /\ Called(h.timer) = {}
    <2>1. h \in Held(h.timer) /\ Once(h.timer)
      BY <1>2, <1>3 DEF Held, OnceInv
    <2> QED BY <2>1 DEF Once, Idle, UnderWay
  <1>6. Held(h.timer)' = {} /\ Called(h.timer)' = {}
    BY <1>1, <1>2, <1>5 DEF Held, Called
  <1>7. Queued(h.timer)' = {Len(events[h.timer]) + 1}
    <2> DEFINE u == h.timer
    <2>1. events'[u] = Append(events[u], gen[u]) /\ events[u] \in Seq(Nat)
      BY <1>0, <1>1, <1>2, OnceTypes
    <2>2. \A i \in 1..Len(events[u]) : events[u][i] # gen[u]
      BY <1>5 DEF Queued
    <2> HIDE DEF u
    <2>3. {i \in 1..Len(events'[u]) : events'[u][i] = gen[u]} = {Len(events[u]) + 1}
      BY <2>1, <2>2
    <2> QED BY <1>1, <2>3 DEF Queued, u
  <1>8. Once(h.timer)'
    BY <1>1, <1>5, <1>6, <1>7 DEF Once, UnderWay
  <1>9. \A t \in Timer \ {h.timer} : (Once(t)' <=> Once(t)) /\ (Idle(t)' <=> Idle(t))
    BY <1>1, <1>4 DEF Once, Idle, UnderWay
  <1>10. main.step = "add" => main.timer \in Timer \ {h.timer}
    BY <1>0, <1>3, OnceTypes, MainIsCall DEF InCall, InAnyCall
  <1> QED BY <1>1, <1>2, <1>3, <1>8, <1>9, <1>10 DEF OnceInv, InCall

\* A new generation: events and calls of earlier ones no longer count.
LEMMA OnceSet == ShareInv /\ EarlyInv /\ OnceInv /\ SetTimer => OnceInv'
  <1> SUFFICES ASSUME ShareInv, EarlyInv, OnceInv, SetTimer PROVE OnceInv'
    OBVIOUS
  <1> PICK u : u = main.timer
    OBVIOUS
  <1>0. TypeOK /\ HolderInv
    BY DEF ShareInv
  <1>1. /\ main.step = "set" /\ u \in Timer /\ main.start \in BOOLEAN /\ main \in CallSet
        /\ gen' = [gen EXCEPT ![u] = @ + 1] /\ armed' = [armed EXCEPT ![u] = main.start]
        /\ main' = IF main.start THEN [main EXCEPT !.step = "add"] ELSE Ready
        /\ UNCHANGED <<timers, events, firing>>
    BY <1>0, OnceTypes, MainIsCall DEF SetTimer, Goes, InAnyCall, CallSet
  <1>2. IF main.start THEN main'.step = "add" /\ main'.timer = u ELSE main'.step = "ready"
    BY <1>1 DEF CallSet, Ready
  <1>3. \A t \in Timer \ {u} : gen'[t] = gen[t] /\ armed'[t] = armed[t]
    BY <1>0, <1>1, OnceTypes
  <1>4. gen'[u] = gen[u] + 1 /\ armed'[u] = main.start /\ gen[u] \in Nat
    BY <1>0, <1>1, OnceTypes
  <1>5. Idle(u)'
    <2>1. Held(u)' = {}
      <3>1. \A h \in Live : holder[h.timer] = h.id /\ h.id # NoHolder
        BY <1>0, LiveTimer DEF HolderInv, HoldersAgree, HolderSet, NoHolder
      <3>2. holder[u] = NoHolder
        BY <1>0, <1>1 DEF HolderInv
      <3> QED BY <1>1, <3>1, <3>2 DEF Held, Live
    <2>2. Queued(u)' = {}
      <3>1. \A i \in 1..Len(events[u]) : events[u][i] <= gen[u] /\ events[u][i] \in Nat
        BY <1>0, <1>1, OnceTypes DEF EarlyInv
      <3>2. \A i \in 1..Len(events[u]) : events[u][i] # gen'[u]
        BY <1>4, <3>1
      <3> QED BY <1>1, <3>2 DEF Queued
    <2>3. Called(u)' = {}
      <3>1. \A i \in 1..Len(firing) : firing[i] \in FireSet
        BY <1>0, OnceTypes
      <3>2. ASSUME NEW i \in 1..Len(firing), firing[i] = [timer |-> u, gen |-> gen'[u]]
            PROVE  FALSE
        <4>1. firing[i].gen = gen'[u] /\ firing[i].timer = u
          BY <3>2
        <4>2. firing[i].gen <= gen[u]
          BY <4>1 DEF OnceInv
        <4> QED BY <1>4, <4>1, <4>2
      <3> QED BY <1>1, <3>2 DEF Called
    <2> QED BY <2>1, <2>2, <2>3 DEF Idle
  <1>6. \A t \in Timer \ {u} : Once(t)' <=> Once(t)
    <2>1. \A t \in Timer \ {u} :
            Held(t)' = Held(t) /\ Queued(t)' = Queued(t) /\ Called(t)' = Called(t)
      BY <1>1, <1>3 DEF Held, Live, Queued, Called
    <2> QED BY <1>3, <2>1 DEF Once, Idle, UnderWay
  <1>7. \A i \in 1..Len(firing') : firing'[i].gen <= gen'[firing'[i].timer]
    <2> SUFFICES ASSUME NEW i \in 1..Len(firing)
                 PROVE  firing[i].gen <= gen'[firing[i].timer]
      BY <1>1
    <2>0. firing \in Seq(FireSet)
      BY <1>0, OnceTypes
    <2>1. firing[i] \in FireSet
      BY <2>0
    <2>2. firing[i].timer \in Timer /\ firing[i].gen \in Nat
      BY <2>1 DEF FireSet
    <2>3. firing[i].gen <= gen[firing[i].timer] /\ gen[firing[i].timer] \in Nat
      BY <1>0, <2>2, OnceTypes DEF OnceInv
    <2>4. CASE firing[i].timer = u
      BY <1>4, <2>2, <2>3, <2>4
    <2>5. CASE firing[i].timer # u
      BY <1>3, <2>2, <2>3, <2>5
    <2> QED BY <2>4, <2>5
  <1>8. \A t \in Timer \ {u} : Once(t)'
    BY <1>1, <1>6 DEF OnceInv, InCall
  <1>9. main'.step = "add" => armed'[main'.timer] /\ Idle(main.timer)'
    <2> SUFFICES ASSUME main'.step = "add" PROVE armed'[u] /\ Idle(u)' /\ main'.timer = u
      OBVIOUS
    <2> QED BY <1>2, <1>4, <1>5
  <1>10. ~main.start => Once(u)'
    BY <1>4, <1>5 DEF Once
  <1> QED BY <1>1, <1>2, <1>7, <1>8, <1>9, <1>10 DEF OnceInv, InCall

LEMMA OnceAdd == ShareInv /\ OnceInv /\ Add => OnceInv'
  <1> SUFFICES ASSUME ShareInv, OnceInv, Add PROVE OnceInv'
    OBVIOUS
  <1> PICK u : u = main.timer
    OBVIOUS
  <1> DEFINE g == [id |-> calls, timer |-> u, when |-> when[u]]
  <1>0. TypeOK
    BY DEF ShareInv
  <1>1. /\ main.step = "add" /\ u \in Timer /\ main \in CallSet
        /\ main' = [main EXCEPT !.step = "notifyAdded"] /\ timers' = timers \cup {g}
        /\ UNCHANGED <<gen, armed, events, firing>>
    BY <1>0, OnceTypes, MainIsCall DEF Add, Goes, InAnyCall, timerVars
  <1>2. main'.step = "notifyAdded"
    BY <1>1 DEF CallSet
  <1>3. armed[u] /\ Held(u) = {} /\ Queued(u) = {} /\ Called(u) = {}
    BY <1>1 DEF OnceInv, Idle
  <1>4. g.timer = u /\ u # NoTimer
    BY <1>1
  <1> HIDE DEF g
  <1>5. Live' = Live \cup {g}
    BY <1>1, <1>4 DEF Live
  <1>6. Held(u)' = {g} /\ Queued(u)' = {} /\ Called(u)' = {}
    BY <1>1, <1>3, <1>4, <1>5 DEF Held, Queued, Called
  <1>7. Once(u)'
    BY <1>1, <1>3, <1>6 DEF Once, UnderWay
  <1>8. \A t \in Timer \ {u} : Once(t)' <=> Once(t)
    <2>1. \A t \in Timer \ {u} :
            Held(t)' = Held(t) /\ Queued(t)' = Queued(t) /\ Called(t)' = Called(t)
      BY <1>1, <1>4, <1>5 DEF Held, Queued, Called
    <2> QED BY <1>1, <2>1 DEF Once, Idle, UnderWay
  <1> QED BY <1>1, <1>2, <1>7, <1>8 DEF OnceInv, InCall

\* The main thread turns an event of the current generation into a call.
LEMMA OnceFire ==
    ASSUME ShareInv, EarlyInv, OnceInv, NEW u \in Timer, Fire(u)
    PROVE  OnceInv'
  <1> DEFINE f == [timer |-> u, gen |-> Head(events[u])]
  <1>0. TypeOK
    BY DEF ShareInv
  <1>1. /\ main.step = "ready" /\ events[u] # <<>> /\ UNCHANGED <<timers, gen, armed, main>>
        /\ events' = [events EXCEPT ![u] = Tail(@)]
        /\ firing' = IF Head(events[u]) = gen[u] /\ armed[u] THEN Append(firing, f) ELSE firing
    BY DEF Fire, Ready, IsCurrent, timerVars
  <1>2. /\ events[u] \in Seq(Nat) /\ firing \in Seq(FireSet) /\ gen[u] \in Nat
        /\ events'[u] = Tail(events[u]) /\ \A t \in Timer \ {u} : events'[t] = events[t]
    BY <1>0, <1>1, OnceTypes
  <1>3. Once(u) /\ \A t \in Timer \ {u} : Once(t)
    BY <1>1 DEF OnceInv, InCall
  <1>4. \A t : Held(t)' = Held(t)
    BY <1>1 DEF Held, Live
  <1>5. f.timer = u /\ f.gen = events[u][1] /\ f \in FireSet /\ events[u][1] \in Nat
    BY <1>1, <1>2 DEF FireSet
  <1>6. Head(events[u]) = events[u][1]
    BY <1>1, <1>2
  <1>7. \A t \in Timer \ {u} : Queued(t)' = Queued(t)
    BY <1>1, <1>2 DEF Queued
  <1> HIDE DEF f
  <1>8. CASE events[u][1] = gen[u] /\ armed[u]
    <2>1. firing' = Append(firing, f)
      BY <1>1, <1>6, <1>8
    <2>2. Len(firing') = Len(firing) + 1 /\ firing'[Len(firing) + 1] = f
          /\ \A i \in 1..Len(firing) : firing'[i] = firing[i]
      BY <1>2, <1>5, <2>1
    <2>3. 1 \in Queued(u)
      BY <1>1, <1>2, <1>8 DEF Queued
    <2>4. Held(u) = {} /\ Queued(u) = {1} /\ Called(u) = {}
      BY <1>3, <1>8, <2>3 DEF Once, UnderWay
    <2>5. Queued(u)' = {}
      <3>1. \A i \in 1..Len(Tail(events[u])) :
              i + 1 \in 1..Len(events[u]) /\ Tail(events[u])[i] = events[u][i + 1] /\ i + 1 # 1
        BY <1>1, <1>2
      <3>2. \A i \in 1..Len(events[u]) : i # 1 => events[u][i] # gen[u]
        BY <2>4 DEF Queued
      <3>3. \A i \in 1..Len(Tail(events[u])) : Tail(events[u])[i] # gen[u]
        BY <3>1, <3>2
      <3> QED BY <1>1, <1>2, <3>3 DEF Queued
    <2>6. f = [timer |-> u, gen |-> gen[u]]
      BY <1>6, <1>8 DEF f
    <2>7. Called(u)' = {Len(firing) + 1}
      <3>1. \A i \in 1..Len(firing) : firing[i] # f
        BY <2>4, <2>6 DEF Called
      <3>2. {i \in 1..Len(firing') : firing'[i] = f} = {Len(firing) + 1}
        BY <1>2, <2>2, <3>1
      <3> QED BY <1>1, <2>6, <3>2 DEF Called
    <2>8. Once(u)'
      BY <1>1, <1>4, <1>8, <2>4, <2>5, <2>7 DEF Once, UnderWay
    <2>9. \A t \in Timer \ {u} : Called(t)' = Called(t)
      <3> SUFFICES ASSUME NEW t \in Timer \ {u} PROVE Called(t)' = Called(t)
        OBVIOUS
      <3> DEFINE e == [timer |-> t, gen |-> gen[t]]
      <3>1. f # e
        BY <1>5
      <3> HIDE DEF e
      <3>2. {i \in 1..Len(firing') : firing'[i] = e} = {i \in 1..Len(firing) : firing[i] = e}
        BY <1>2, <2>2, <3>1
      <3> QED BY <1>1, <3>2 DEF Called, e
    <2>10. \A t \in Timer \ {u} : Once(t)'
      BY <1>1, <1>3, <1>4, <1>7, <2>9 DEF Once, Idle, UnderWay
    <2>11. \A i \in 1..Len(firing') : firing'[i].gen <= gen'[firing'[i].timer]
      BY <1>1, <1>2, <1>5, <1>8, <2>2 DEF OnceInv
    <2> QED BY <1>1, <2>8, <2>10, <2>11 DEF OnceInv
  <1>9. CASE ~(events[u][1] = gen[u] /\ armed[u])
    <2>1. firing' = firing
      BY <1>1, <1>6, <1>9
    <2>2. \A t : Called(t)' = Called(t)
      BY <1>1, <2>1 DEF Called
    <2>3. 1 \notin Queued(u)
      BY <1>3, <1>9 DEF Once, Idle, Queued
    <2>4. \A i : i \in Queued(u)' <=> i \in Nat /\ i + 1 \in Queued(u) /\ i # 0
      <3>1. \A i \in 1..Len(Tail(events[u])) : Tail(events[u])[i] = events[u][i + 1]
        BY <1>1, <1>2
      <3>2. Len(Tail(events[u])) = Len(events[u]) - 1 /\ Len(events[u]) \in Nat
        BY <1>1, <1>2
      <3>3. \A i : i \in 1..Len(Tail(events[u])) <=> i \in Nat /\ i # 0 /\ i + 1 \in 1..Len(events[u])
        BY <3>2
      <3> QED BY <1>1, <1>2, <3>1, <3>3 DEF Queued
    <2>5. Queued(u) \subseteq Nat \ {0, 1}
      BY <1>2, <2>3 DEF Queued
    <2>6. /\ Queued(u) = {} => Queued(u)' = {}
          /\ \A j : Queued(u) = {j} => Queued(u)' = {j - 1}
      <3>1. Queued(u) = {} => Queued(u)' = {}
        BY <2>4
      <3>2. ASSUME NEW j, Queued(u) = {j} PROVE Queued(u)' = {j - 1}
        <4>1. j \in Nat /\ j # 0 /\ j # 1
          BY <2>5, <3>2
        <4>2. \A i : i \in Queued(u)' <=> i \in Nat /\ i # 0 /\ i + 1 = j
          BY <2>4, <3>2
        <4>3. \A i : i \in Nat /\ i # 0 /\ i + 1 = j <=> i = j - 1
          BY <4>1
        <4> QED BY <4>2, <4>3
      <3> QED BY <3>1, <3>2
    <2>7. Once(u)'
      BY <1>1, <1>3, <1>4, <2>2, <2>6 DEF Once, Idle, UnderWay
    <2>8. \A t \in Timer \ {u} : Once(t)'
      BY <1>1, <1>3, <1>4, <1>7, <2>2 DEF Once, Idle, UnderWay
    <2> QED BY <1>1, <2>1, <2>7, <2>8 DEF OnceInv
  <1> QED BY <1>8, <1>9

\* The task of a call returns; the timer of its generation is spent.
LEMMA OnceReturns == ShareInv /\ OnceInv /\ FireReturns => OnceInv'
  <1> SUFFICES ASSUME ShareInv, OnceInv, FireReturns PROVE OnceInv'
    OBVIOUS
  <1> PICK n, u : n = Len(firing) /\ u = firing[n].timer
    OBVIOUS
  <1>0. TypeOK
    BY DEF ShareInv
  <1>1. /\ main.step = "ready" /\ firing # <<>>
        /\ UNCHANGED <<timers, gen, events, main>>
        /\ firing' = SubSeq(firing, 1, n - 1)
        /\ armed' = IF firing[n].gen = gen[u] THEN [armed EXCEPT ![u] = FALSE] ELSE armed
    BY DEF FireReturns, Ready, IsCurrent
  <1>2. firing \in Seq(FireSet) /\ n \in Nat /\ n # 0
    BY <1>0, <1>1, OnceTypes
  <1>3. Len(firing') = n - 1 /\ \A i \in 1..(n - 1) : firing'[i] = firing[i]
    <2>1. n - 1 \in Nat /\ n - 1 <= n /\ 1 + n - 1 = n /\ (n - 1) - 1 + 1 = n - 1
      BY <1>2
    <2>2. \A i \in 1..(n - 1) : 1 + i - 1 = i /\ i \in 1..n
      BY <1>2
    <2>3. Len(firing') = n - 1
      BY <1>1, <1>2, <2>1
    <2> QED BY <1>1, <1>2, <2>1, <2>2, <2>3
  <1>4. firing[n] \in FireSet /\ u \in Timer /\ n \in 1..n
    <2>1. n \in 1..n
      BY <1>2
    <2>2. firing[n] \in FireSet
      BY <1>2, <2>1
    <2> QED BY <2>1, <2>2 DEF FireSet
  <1>5. firing[n] = [timer |-> u, gen |-> firing[n].gen]
    BY <1>4 DEF FireSet
  <1>6. \A t \in Timer : Once(t)
    BY <1>1 DEF OnceInv, InCall
  <1>7. \A t : Held(t)' = Held(t) /\ Queued(t)' = Queued(t)
    BY <1>1 DEF Held, Live, Queued
  <1>8. \A t : Called(t)' = Called(t) \ {n}
    <2> SUFFICES ASSUME NEW t PROVE Called(t)' = Called(t) \ {n}
      OBVIOUS
    <2> DEFINE e == [timer |-> t, gen |-> gen[t]]
    <2> HIDE DEF e
    <2>1. 1..(n - 1) = (1..n) \ {n}
      BY <1>2
    <2>2. {i \in 1..Len(firing') : firing'[i] = e} = {i \in 1..n : firing[i] = e} \ {n}
      BY <1>3, <2>1
    <2> QED BY <1>1, <2>2 DEF Called, e
  <1>9. \A t : n \in Called(t) <=> t = u /\ firing[n].gen = gen[u]
    <2> SUFFICES ASSUME NEW t PROVE n \in Called(t) <=> t = u /\ firing[n].gen = gen[u]
      OBVIOUS
    <2>1. n \in Called(t) <=> firing[n] = [timer |-> t, gen |-> gen[t]]
      BY <1>4 DEF Called
    <2> QED BY <1>5, <2>1
  <1>10. \A i \in 1..Len(firing') : firing'[i].gen <= gen'[firing'[i].timer]
    <2>1. \A i \in 1..(n - 1) : i \in 1..n
      BY <1>2
    <2> QED BY <1>1, <1>3, <2>1 DEF OnceInv
  <1>11. CASE firing[n].gen = gen[u]
    <2>1. n \in Called(u)
      BY <1>9, <1>11
    <2>2. Held(u) = {} /\ Queued(u) = {} /\ Called(u) = {n}
      BY <1>4, <1>6, <2>1 DEF Once, Idle, UnderWay
    <2>3. armed'[u] = FALSE /\ \A t \in Timer \ {u} : armed'[t] = armed[t]
      BY <1>0, <1>1, <1>4, <1>11, OnceTypes
    <2>4. Once(u)'
      <3>1. Held(u)' = {} /\ Queued(u)' = {} /\ Called(u)' = {}
        BY <1>7, <1>8, <2>2
      <3> QED BY <2>3, <3>1 DEF Once, Idle
    <2>5. \A t \in Timer \ {u} : Once(t)'
      <3>1. \A t \in Timer \ {u} : Called(t)' = Called(t)
        BY <1>8, <1>9
      <3> QED BY <1>6, <1>7, <2>3, <3>1 DEF Once, Idle, UnderWay
    <2> QED BY <1>1, <1>10, <2>4, <2>5 DEF OnceInv
  <1>12. CASE firing[n].gen # gen[u]
    <2>1. \A t \in Timer : Called(t)' = Called(t) /\ armed'[t] = armed[t]
      BY <1>1, <1>8, <1>9, <1>12
    <2>2. \A t \in Timer : Once(t)'
      BY <1>6, <1>7, <2>1 DEF Once, Idle, UnderWay
    <2> QED BY <1>1, <1>10, <2>2 DEF OnceInv
  <1> QED BY <1>11, <1>12

LEMMA OnceNext == ShareInv /\ EarlyInv /\ OnceInv /\ [Next]_vars => OnceInv'
  <1> SUFFICES ASSUME ShareInv, EarlyInv, OnceInv, [Next]_vars PROVE OnceInv'
    OBVIOUS
  <1>0. /\ TypeOK /\ HolderInv /\ main \in MainSet
        /\ \A t \in Timer : Once(t) \/ InCall(t, {"notifyRemoved", "set", "add"})
    BY OnceTypes DEF ShareInv, OnceInv
  <1>1. CASE \/ CheckExit \/ Lock \/ TimeOut \/ WakeSpuriously \/ Tick \/ UNCHANGED vars
    <2>1. UNCHANGED <<timers, gen, armed, events, firing, main>>
      BY <1>1 DEF CheckExit, Lock, TimeOut, WakeSpuriously, Tick, vars, timerVars
    <2> QED BY <2>1, OnceKept DEF Live, InCall, OnceInv
  <1>2. CASE WaitForWork \/ WaitForTimer
    <2>1. UNCHANGED <<gen, armed, events, firing, main>>
      BY <1>2 DEF WaitForWork, WaitForTimer, timerVars
    <2>2. Live' = Live
      <3>1. \/ Live = {} /\ timers' = {}
            \/ \E rest \in SUBSET timers : Live \subseteq rest /\ timers' = rest
        BY <1>2 DEF WaitForWork, WaitForTimer, Front
      <3> QED BY <3>1 DEF Live
    <2> QED BY <2>1, <2>2, OnceKept DEF InCall, OnceInv
  <1>3. CASE NotifyRemoved \/ NotifyAdded
    <2>1. UNCHANGED <<timers, gen, armed, events, firing>>
      BY <1>3 DEF NotifyRemoved, NotifyAdded, timerVars
    <2>2. \/ main.step = "notifyRemoved" /\ main' = [main EXCEPT !.step = "set"]
          \/ main.step = "notifyAdded" /\ main' = Ready
      BY <1>3 DEF NotifyRemoved, NotifyAdded, Goes
    <2>3. main \in CallSet
      BY <1>0, <2>2, MainIsCall DEF InAnyCall
    <2>4. \/ main.step = "notifyRemoved" /\ main'.step = "set" /\ main'.timer = main.timer
          \/ main.step = "notifyAdded" /\ main'.step = "ready"
      BY <2>2, <2>3 DEF CallSet, Ready
    <2> QED BY <2>1, <2>4, OnceKept DEF Live, InCall
  <1>4. CASE NotifyExit
    <2>1. /\ UNCHANGED <<timers, gen, armed, events, firing>>
          /\ main.step = "notifyExit" /\ main'.step = "join"
      BY <1>4 DEF NotifyExit, Goes, timerVars
    <2> QED BY <2>1, OnceKept DEF Live, InCall, OnceInv
  <1>5. CASE Join
    <2>1. /\ UNCHANGED <<gen, armed, events, firing>>
          /\ timers' = {} /\ main.step = "join" /\ main'.step = "stopped"
      BY <1>5 DEF Join, Goes, timerVars
    <2>2. \A t \in Timer : ~armed[t] /\ Held(t) = {}
      BY <2>1 DEF OnceInv, InCall, Once, Idle
    <2>3. Live = {}
      BY <1>0, <2>2, OnceTypes DEF Held
    <2>4. Live' = {}
      BY <2>1 DEF Live
    <2> QED BY <2>1, <2>2, <2>3, <2>4, OnceKept DEF InCall
  <1>6. CASE StopThread
    <2>1. /\ UNCHANGED <<timers, gen, armed, events, firing>> /\ \A t \in Timer : ~armed[t]
          /\ main.step = "ready" /\ main'.step = "notifyExit"
      BY <1>6 DEF StopThread, Goes, Ready, timerVars
    <2> QED BY <2>1, OnceKept DEF Live, InCall
  <1>7. ASSUME NEW t \in Timer, Start(t) \/ Cancel(t) PROVE OnceInv'
    <2>1. /\ UNCHANGED <<timers, gen, armed, events, firing>>
          /\ main.step = "ready" /\ main'.step = "remove"
      BY <1>7 DEF Start, Cancel, Goes, Call, Ready, timerVars
    <2> QED BY <2>1, OnceKept DEF Live, InCall
  <1>8. CASE Remove
    <2> PICK u : u = main.timer
      OBVIOUS
    <2>1. /\ main.step = "remove" /\ u \in Timer /\ main \in CallSet
          /\ UNCHANGED <<gen, armed, events, firing>>
      BY <1>0, <1>8, MainIsCall DEF Remove, InAnyCall, timerVars
    <2>2. /\ main' = [main EXCEPT !.step = "set"] \/ main' = [main EXCEPT !.step = "notifyRemoved"]
          /\ \/ timers' = timers
             \/ timers' = Canceled(u) /\ holder[u] # NoHolder
      <3>1. IF holder[u] = NoHolder
              THEN main' = [main EXCEPT !.step = "set"] /\ timers' = timers
              ELSE main' = [main EXCEPT !.step = "notifyRemoved"] /\ timers' = Canceled(u)
        BY <1>8 DEF Remove, Goes
      <3> QED BY <3>1
    <2>3. main'.step \in {"set", "notifyRemoved"} /\ main'.timer = u
      BY <2>1, <2>2 DEF CallSet
    <2>4. \A t \in Timer \ {u} : Held(t)' = Held(t)
      <3> SUFFICES ASSUME timers' = Canceled(u), holder[u] # NoHolder,
                          NEW t \in Timer \ {u}
                   PROVE  Held(t)' = Held(t)
        BY <2>2 DEF Held, Live
      <3>1. \A h \in timers : h \in HolderSet
        BY <1>0, TypeParts
      <3>2. \A h \in timers : h.timer = t => h.id # holder[u]
        <4>1. \A h \in timers : h.timer = t => h \in Live
          BY DEF Live
        <4>2. PICK g \in Live : g.id = holder[u] /\ g.timer = u
          BY <1>0, <2>1 DEF HolderInv, HoldersAgree
        <4> QED BY <1>0, <4>1, <4>2 DEF HolderInv, Live
      <3>3. \A h \in timers : [h EXCEPT !.timer = NoTimer].timer = NoTimer
        BY <3>1 DEF HolderSet
      <3>4. \A h : h \in timers' /\ h.timer = t <=> h \in timers /\ h.timer = t
        BY <3>2, <3>3 DEF Canceled
      <3> QED BY <3>4 DEF Held, Live
    <2>5. \A t \in Timer \ {u} : Once(t)'
      <3>1. \A t \in Timer \ {u} : Once(t)
        BY <2>1 DEF OnceInv, InCall
      <3>2. \A t : Queued(t)' = Queued(t) /\ Called(t)' = Called(t)
        BY <2>1 DEF Queued, Called
      <3> QED BY <2>1, <2>4, <3>1, <3>2 DEF Once, Idle, UnderWay
    <2> QED BY <2>1, <2>3, <2>5 DEF OnceInv, InCall
  <1> QED
    BY <1>1, <1>2, <1>3, <1>4, <1>5, <1>6, <1>7, <1>8, OncePost, OnceSet, OnceAdd, OnceFire,
       OnceReturns
       DEF Next, ThreadStep, CallStep

\* What is under way for a timer is counted by Coming.
LEMMA ComingIsOnce ==
    ASSUME TypeOK, NEW t \in Timer, Once(t)
    PROVE  Coming(t) = IF armed[t] THEN 1 ELSE 0
  <1>1. events[t] \in Seq(Nat) /\ firing \in Seq(FireSet) /\ armed[t] \in BOOLEAN
    BY OnceTypes
  <1>2. Coming(t) = Cardinality(Held(t)) + Cardinality(Queued(t)) + Cardinality(Called(t))
    <2>1. DOMAIN events[t] = 1..Len(events[t]) /\ DOMAIN firing = 1..Len(firing)
      BY <1>1
    <2> QED BY <2>1 DEF Coming, Held, Queued, Called
  <1>3. Cardinality({}) = 0 /\ \A x : Cardinality({x}) = 1
    BY FS_EmptySet, FS_Singleton
  <1>4. CASE armed[t]
    <2>1. UnderWay(t)
      BY <1>4 DEF Once
    <2>2. \/ /\ Cardinality(Held(t)) = 1 /\ Cardinality(Queued(t)) = 0
             /\ Cardinality(Called(t)) = 0
          \/ /\ Cardinality(Held(t)) = 0 /\ Cardinality(Queued(t)) = 1
             /\ Cardinality(Called(t)) = 0
          \/ /\ Cardinality(Held(t)) = 0 /\ Cardinality(Queued(t)) = 0
             /\ Cardinality(Called(t)) = 1
      BY <1>3, <2>1, Zenon DEF UnderWay
    <2> QED BY <1>2, <1>4, <2>2
  <1>5. CASE ~armed[t]
    <2>1. /\ Cardinality(Held(t)) = 0 /\ Cardinality(Queued(t)) = 0
          /\ Cardinality(Called(t)) = 0
      BY <1>3, <1>5 DEF Once, Idle
    <2> QED BY <1>2, <1>5, <2>1
  <1> QED BY <1>4, <1>5

\* A started timer is neither forgotten nor fired twice, and nothing is left of a canceled
\* one, for whatever the thread does between the steps of Start, Cancel and Fire.
THEOREM TasksComeOnce == Spec => []ComesOnce
  <1> DEFINE Inv == ShareInv /\ EarlyInv /\ OnceInv
  <1>1. Init => Inv
    BY TypeInit, HolderInit, OnceInit DEF ShareInv, Init, EarlyInv
  <1>2. Inv /\ [Next]_vars => Inv'
    <2>1. ShareInv => TypeOK /\ CallInv /\ HolderInv
      BY DEF ShareInv
    <2> QED BY <2>1, TypeNext, HolderNext, EarlyNext, OnceNext DEF ShareInv
  <1>3. Inv => ComesOnce
    BY ComingIsOnce DEF ShareInv, OnceInv, ComesOnce, InCall
  <1> QED BY <1>1, <1>2, <1>3, PTL DEF Spec

=============================================================================
