---------------------------- MODULE TimerThread -----------------------------
(***************************************************************************)
(* The custom timer engine: TimerManager_Custom and its thread, which      *)
(* waits on cv_ for the earliest timer of a heap and posts an Event_Timer  *)
(* when it is due; Timer_Custom::Start, Cancel and Fire, called by the     *)
(* main thread.                                                            *)
(*                                                                         *)
(* Every section that holds threadMutex_ is one step of the main thread.   *)
(* The timer thread holds the mutex for several steps (thread = "work"),   *)
(* and reads isTimeToDie_ before it takes it.  A panel has one timer, so   *)
(* the events of a timer are a queue, and those of two timers are in no    *)
(* order.                                                                  *)
(***************************************************************************)
EXTENDS Integers, Sequences, FiniteSets

CONSTANTS
    Timer,        \* the timers, one per panel
    Delay,        \* the delays of Start
    Early,        \* GetAllowedEarlyFiringTime
    Millisecond,  \* a millisecond, in ticks of the clock
    MaxTime,      \* bound: time at which the clock stops
    MaxCalls,     \* bound: calls of Start and Cancel
    MaxDepth      \* bound: nested calls of Fire

ASSUME TimeAssumption ==
    /\ Delay \subseteq Nat /\ Early \in Nat /\ MaxTime \in Nat
    /\ Millisecond \in Nat \ {0}
ASSUME BoundAssumption == MaxCalls \in Nat /\ MaxDepth \in Nat

VARIABLES
    now,       \* TimeStamp::clock::now()
    timers,    \* timers_: the holders of the heap
    thread,    \* what the timer thread does
    deadline,  \* until when it sleeps
    dying,     \* isTimeToDie_
    calls,      \* number of the last call of Start or Cancel; names its holder
    gen,       \* generation_ of each timer
    armed,     \* whether pTask_ is set
    when,      \* executeAt_
    holder,    \* pHolder_: the name of the holder, or NoHolder
    events,    \* the queued Event_Timers of each timer, by their generations
    firing,    \* the calls of Fire on the stack of the main thread
    main       \* what the main thread does in Start, Cancel or StopThread

timerVars == <<gen, armed, when>>
vars == <<now, timers, thread, deadline, dying, calls, timerVars, holder, events, firing, main>>

NoHolder == 0
NoTimer == "none"
ASSUME TimerAssumption == NoTimer \notin Timer
Never == MaxTime + Millisecond
Time == 0..MaxTime

Ready == [step |-> "ready"]

\* What goes on in Start or Cancel: the timer, whether it starts, and when.
Call(step, t, start, w) == [step |-> step, timer |-> t, start |-> start, when |-> w]

InCall(t, steps) == main.step \in steps /\ main.timer = t

\* A holder whose value was reset is canceled.
Live == {h \in timers : h.timer # NoTimer}

Init ==
    /\ now = 0
    /\ timers = {}
    /\ thread = "check" /\ deadline = Never /\ dying = FALSE
    /\ calls = 0
    /\ gen = [t \in Timer |-> 0]
    /\ armed = [t \in Timer |-> FALSE]
    /\ when = [t \in Timer |-> 0]
    /\ holder = [t \in Timer |-> NoHolder]
    /\ events = [t \in Timer |-> <<>>]
    /\ firing = <<>>
    /\ main = Ready

------------------------------------------------------------------------------
(* The timer thread *)

CheckExit ==
    /\ thread = "check"
    /\ thread' = IF dying THEN "done" ELSE "lock"
    /\ UNCHANGED <<now, timers, deadline, dying, calls, timerVars, holder, events, firing, main>>

Lock ==
    /\ thread = "lock"
    /\ thread' = "work"
    /\ UNCHANGED <<now, timers, deadline, dying, calls, timerVars, holder, events, firing, main>>

\* RemoveLeadingCanceledTimersInternal leaves the holders rest, h at the front.
\* Of two holders with the same time, either may be ahead.
Front(h, rest) ==
    /\ h \in Live /\ Live \subseteq rest /\ rest \subseteq timers
    /\ \A r \in rest : h.when <= r.when
    /\ \A r \in timers \ rest : r.when <= h.when

IsDue(w) == now >= w - Early

\* The wait is cut to milliseconds, and is at least one.
WaitUntil(w) ==
    LET ms == (w - now) \div Millisecond
    IN  now + Millisecond * (IF ms = 0 THEN 1 ELSE ms)

HolderKept(t) == holder

\* The holder of t resets its value, or is destroyed.
HolderReset(t) == [holder EXCEPT ![t] = NoHolder]

Sleep(until) == thread' = "asleep" /\ deadline' = until

\* Nothing is left but canceled timers, which go.
WaitForWork ==
    /\ thread = "work" /\ Live = {}
    /\ timers' = {} /\ Sleep(Never)
    /\ UNCHANGED <<now, dying, calls, timerVars, holder, events, firing, main>>

WaitForTimer ==
    /\ thread = "work"
    /\ \E h \in Live, rest \in SUBSET timers :
         /\ Front(h, rest) /\ ~IsDue(when[h.timer])
         /\ timers' = rest
         /\ Sleep(WaitUntil(when[h.timer]))
    /\ UNCHANGED <<now, dying, calls, timerVars, holder, events, firing, main>>

PostEvent ==
    /\ thread = "work"
    /\ \E h \in Live, rest \in SUBSET timers :
         /\ Front(h, rest) /\ IsDue(when[h.timer])
         /\ timers' = rest \ {h}
         /\ holder' = HolderReset(h.timer)
         /\ events' = [events EXCEPT ![h.timer] = Append(@, gen[h.timer])]
    /\ UNCHANGED <<now, thread, deadline, dying, calls, timerVars, firing, main>>

TimeOut ==
    /\ thread = "asleep" /\ now >= deadline
    /\ thread' = "check"
    /\ UNCHANGED <<now, timers, deadline, dying, calls, timerVars, holder, events, firing, main>>

\* A condition variable may wake a thread for no reason.
WakeSpuriously ==
    /\ thread = "asleep"
    /\ thread' = "check"
    /\ UNCHANGED <<now, timers, deadline, dying, calls, timerVars, holder, events, firing, main>>

------------------------------------------------------------------------------
(* The main thread *)

Goes(call) == main' = call
LockIsFree == thread # "work"

NotWoken == UNCHANGED <<thread, deadline>>

\* notify_all.
Woken ==
    /\ thread' = IF thread = "asleep" THEN "check" ELSE thread
    /\ UNCHANGED deadline

Start(t) ==
    /\ main = Ready /\ ~dying /\ calls < MaxCalls
    /\ \E d \in Delay :
         /\ now + d + Millisecond <= MaxTime
         /\ Goes(Call("remove", t, TRUE, now + d))
    /\ calls' = calls + 1
    /\ UNCHANGED <<now, timers, thread, deadline, dying, timerVars, holder, events, firing>>

Cancel(t) ==
    /\ main = Ready /\ ~dying /\ calls < MaxCalls
    /\ Goes(Call("remove", t, FALSE, 0))
    /\ calls' = calls + 1
    /\ UNCHANGED <<now, timers, thread, deadline, dying, timerVars, holder, events, firing>>

\* The holder of t stays in the heap without its value.
Canceled(t) == {IF h.id = holder[t] THEN [h EXCEPT !.timer = NoTimer] ELSE h : h \in timers}

\* RemoveTimer, under threadMutex_.
Remove ==
    /\ main.step = "remove" /\ LockIsFree
    /\ LET t == main.timer
       IN  IF holder[t] = NoHolder
             THEN /\ Goes([main EXCEPT !.step = "set"])
                  /\ UNCHANGED <<timers, holder>>
             ELSE /\ timers' = Canceled(t)
                  /\ holder' = HolderReset(t)
                  /\ Goes([main EXCEPT !.step = "notifyRemoved"])
    /\ UNCHANGED <<now, thread, deadline, dying, calls, timerVars, events, firing>>

NotifyRemoved ==
    /\ main.step = "notifyRemoved"
    /\ Woken
    /\ Goes([main EXCEPT !.step = "set"])
    /\ UNCHANGED <<now, timers, dying, calls, timerVars, holder, events, firing>>

\* Start and Cancel write the members of the timer without threadMutex_.
SetTimer ==
    /\ main.step = "set"
    /\ armed' = [armed EXCEPT ![main.timer] = main.start]
    /\ gen' = [gen EXCEPT ![main.timer] = @ + 1]
    /\ when' = IF main.start THEN [when EXCEPT ![main.timer] = main.when] ELSE when
    /\ Goes(IF main.start THEN [main EXCEPT !.step = "add"] ELSE Ready)
    /\ UNCHANGED <<now, timers, thread, deadline, dying, calls, holder, events, firing>>

\* AddTimer, under threadMutex_.
Add ==
    /\ main.step = "add" /\ LockIsFree
    /\ timers' = timers \cup {[id |-> calls, timer |-> main.timer, when |-> when[main.timer]]}
    /\ holder' = [holder EXCEPT ![main.timer] = calls]
    /\ Goes([main EXCEPT !.step = "notifyAdded"])
    /\ UNCHANGED <<now, thread, deadline, dying, calls, timerVars, events, firing>>

NotifyAdded ==
    /\ main.step = "notifyAdded"
    /\ Woken
    /\ Goes(Ready)
    /\ UNCHANGED <<now, timers, dying, calls, timerVars, holder, events, firing>>

AnyGeneration(t, g) == TRUE

IsCurrent(t, g) == g = gen[t]

\* Fire, up to the call of the task, which may start and cancel timers, and
\* run the message loop in turn.
Fire(t) ==
    /\ main = Ready /\ ~dying
    /\ events[t] # <<>> /\ Len(firing) < MaxDepth
    /\ events' = [events EXCEPT ![t] = Tail(@)]
    /\ firing' = IF IsCurrent(t, Head(events[t])) /\ armed[t]
                   THEN Append(firing, [timer |-> t, gen |-> Head(events[t])])
                   ELSE firing
    /\ UNCHANGED <<now, timers, thread, deadline, dying, calls, timerVars, holder, main>>

\* The task returns; the timer is spent, unless the task started it again.
FireReturns ==
    /\ main = Ready /\ firing # <<>>
    /\ LET f == firing[Len(firing)]
       IN  armed' = IF IsCurrent(f.timer, f.gen) THEN [armed EXCEPT ![f.timer] = FALSE] ELSE armed
    /\ firing' = SubSeq(firing, 1, Len(firing) - 1)
    /\ UNCHANGED <<now, timers, thread, deadline, dying, calls, gen, when, holder, events, main>>

\* The last panel has gone, after it canceled its timer.
StopThread ==
    /\ main = Ready /\ ~dying /\ firing = <<>>
    /\ \A t \in Timer : ~armed[t]
    /\ LockIsFree
    /\ dying' = TRUE
    /\ Goes([step |-> "notifyExit"])
    /\ UNCHANGED <<now, timers, thread, deadline, calls, timerVars, holder, events, firing>>

NotifyExit ==
    /\ main.step = "notifyExit"
    /\ Woken
    /\ Goes([step |-> "join"])
    /\ UNCHANGED <<now, timers, dying, calls, timerVars, holder, events, firing>>

Join ==
    /\ main.step = "join" /\ thread = "done"
    /\ timers' = {}
    /\ Goes([step |-> "stopped"])
    /\ UNCHANGED <<now, thread, deadline, dying, calls, timerVars, holder, events, firing>>

Tick ==
    /\ now < MaxTime
    /\ now' = now + 1
    /\ UNCHANGED <<timers, thread, deadline, dying, calls, timerVars, holder, events, firing, main>>

------------------------------------------------------------------------------
(* Specification *)

ThreadStep == CheckExit \/ Lock \/ WaitForWork \/ WaitForTimer \/ PostEvent \/ TimeOut

CallStep == Remove \/ NotifyRemoved \/ SetTimer \/ Add \/ NotifyAdded \/ NotifyExit \/ Join

Next ==
    \/ \E t \in Timer : Start(t) \/ Cancel(t) \/ Fire(t)
    \/ FireReturns \/ StopThread \/ CallStep
    \/ ThreadStep \/ WakeSpuriously
    \/ Tick

Spec == Init /\ [][Next]_vars

\* Time passes, both threads are scheduled, events are delivered, tasks return.
\* The main thread gets a mutex that is free again and again, even if the timer
\* thread is woken for no reason every time in between.
FairSpec ==
    /\ Spec
    /\ WF_vars(Tick) /\ WF_vars(ThreadStep) /\ SF_vars(CallStep) /\ WF_vars(FireReturns)
    /\ \A t \in Timer : WF_vars(Fire(t))

------------------------------------------------------------------------------
(* Properties *)

\* Type invariant.
TypeOK ==
    /\ now \in Time
    /\ timers \subseteq [id : 1..calls, timer : Timer \cup {NoTimer}, when : Time]
    /\ thread \in {"check", "lock", "work", "asleep", "done"}
    /\ deadline \in Nat
    /\ dying \in BOOLEAN
    /\ calls \in 0..MaxCalls
    /\ gen \in [Timer -> Nat] /\ armed \in [Timer -> BOOLEAN] /\ when \in [Timer -> Time]
    /\ holder \in [Timer -> NoHolder..calls]
    /\ events \in [Timer -> Seq(Nat)]
    /\ firing \in Seq([timer : Timer, gen : Nat]) /\ Len(firing) <= MaxDepth
    /\ main \in {Ready} \cup [step : {"notifyExit", "join", "stopped"}]
                \cup [step : {"remove", "notifyRemoved", "set", "add", "notifyAdded"},
                      timer : Timer, start : BOOLEAN, when : Time]

\* The pointer of a timer to its holder and the pointer of the holder to its
\* timer agree: neither dangles, though the thread frees holders at any time.
HoldersAgree ==
    /\ \A h \in Live : holder[h.timer] = h.id
    /\ \A t \in Timer : holder[t] # NoHolder /\ main.step # "stopped" =>
                          \E h \in Live : h.id = holder[t] /\ h.timer = t

\* While the main thread writes the members of a timer, which no mutex guards
\* from the timer thread, the heap does not lead to that timer.
NoRaceOnMembers == \A t \in Timer : InCall(t, {"set", "add"}) => \A h \in Live : h.timer # t

\* Both: what the two threads share of a timer is whole whenever one looks at it.
SharedTimersAreWhole == HoldersAgree /\ NoRaceOnMembers

\* What is under way to run the task of timer t.
Coming(t) ==
    Cardinality({h \in Live : h.timer = t})
      + Cardinality({i \in DOMAIN events[t] : events[t][i] = gen[t]})
      + Cardinality({i \in DOMAIN firing : firing[i] = [timer |-> t, gen |-> gen[t]]})

\* A started timer is in the heap, in an event of its generation or in a call of
\* Fire, and in one of these only: it is neither forgotten nor fired twice; of a
\* canceled or spent timer nothing is left.
ComesOnce ==
    \A t \in Timer : ~InCall(t, {"remove", "notifyRemoved", "set", "add"}) =>
                       Coming(t) = IF armed[t] THEN 1 ELSE 0

\* The task of a timer is not called before the time that the last Start asked
\* for, but for the allowed microseconds, whatever became of earlier Starts.
NeverEarly ==
    [][\A t \in Timer :
         Len(firing') > Len(firing) /\ firing'[Len(firing')].timer = t
           => now >= when[t] - Early]_vars

\* A timer that was started fires, unless it is started anew, canceled or the
\* engine stops.
TimersFire ==
    \A t \in Timer : \A n \in 1..MaxCalls :
      gen[t] = n /\ armed[t] ~> gen[t] # n \/ ~armed[t] \/ dying

\* The thread has tested isTimeToDie_ and does not wait yet: what notify_all
\* says now does not reach it.
HasTested == thread \in {"lock", "work"}

\* StopThread joins the thread, which is asleep for as long as no timer is set,
\* unless it was between its test of the flag and its wait.
StopReturns == main.step = "notifyExit" /\ ~HasTested ~> main.step = "stopped"

=============================================================================
