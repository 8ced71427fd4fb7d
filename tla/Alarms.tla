------------------------------- MODULE Alarms -------------------------------
(***************************************************************************)
(* What a script may rely on when it sets timeouts and intervals.  Alarms  *)
(* are called in rounds.  A round claims alarms that are due, the earliest *)
(* ones; an alarm rings only when it was claimed, and not before one that  *)
(* waits and was due earlier.  Both are true but for a slack: an alarm may *)
(* ring that much before its time and before others.  A timeout rings at   *)
(* most once; an interval is due again within its period, but never rings  *)
(* while it rings; and what is over never comes back.                      *)
(***************************************************************************)
EXTENDS Integers, Sequences

CONSTANTS
    Delay,        \* the delays that scripts use
    AllowedEarly  \* the slack

VARIABLES
    now,    \* the clock
    alarm   \* the alarms set so far

alarmVars == <<now, alarm>>

\* waits: for its time; claimed: by a round; aside: its time came while the
\* script was being loaded; over: it rings no more.
Alarm == [stage : {"waits", "claimed", "aside", "rings", "over"},
          due : Nat, every : Nat, again : BOOLEAN]

In(stages) == {a \in DOMAIN alarm : alarm[a].stage \in stages}

Init == now = 0 /\ alarm = <<>>

\* Some alarms move to another stage.
Move(as, stage) ==
    /\ alarm' = [a \in DOMAIN alarm |->
                   IF a \in as THEN [alarm[a] EXCEPT !.stage = stage] ELSE alarm[a]]
    /\ UNCHANGED now

\* One alarm becomes "new", others that were claimed wait again.
Leave(a, new, as) ==
    /\ alarm' = [b \in DOMAIN alarm |->
                   IF b = a THEN new
                   ELSE IF b \in as THEN [alarm[b] EXCEPT !.stage = "waits"] ELSE alarm[b]]
    /\ UNCHANGED now

Pass == now' = now + 1 /\ UNCHANGED alarm

Set(delay, again) ==
    /\ again => delay > 0
    /\ alarm' = Append(alarm, [stage |-> "waits", due |-> now + delay,
                               every |-> delay, again |-> again])
    /\ UNCHANGED now

\* A round begins.
Claim(as) ==
    /\ \A a \in as : alarm[a].due <= now + AllowedEarly
    /\ \A a \in as, b \in In({"waits"}) \ as : alarm[a].due <= alarm[b].due + AllowedEarly
    /\ Move(as, "claimed")

Ring(a) ==
    /\ alarm[a].due <= now + AllowedEarly
    /\ \A b \in In({"waits"}) : alarm[a].due <= alarm[b].due + AllowedEarly
    /\ Move({a}, "rings")

\* The callback has returned; the round goes on, or ends and releases the others.
Return(a, as) ==
    IF alarm[a].again
      THEN \E due \in now..(now + alarm[a].every) :
             Leave(a, [alarm[a] EXCEPT !.stage = "waits", !.due = due], as)
      ELSE Leave(a, [alarm[a] EXCEPT !.stage = "over"], as)

\* What comes due during a load is put aside until the load has ended.
PutAside(a, as) == Leave(a, [alarm[a] EXCEPT !.stage = "aside"], as)

TakeUp == Move(In({"aside"}), "waits")

\* An interval is cancelled while it rings.
RingNoMore(a) ==
    /\ alarm' = [alarm EXCEPT ![a].again = FALSE]
    /\ UNCHANGED now

\* The callback throws: that is the end of the script.
Fail(a) == Move(In({"waits", "claimed"}) \cup {a}, "over")

\* Rounds end with alarms that they have claimed and not called; alarms that do not
\* ring are cancelled by the script, or dropped together with it.
Next ==
    \/ Pass
    \/ \E delay \in Delay, again \in BOOLEAN : Set(delay, again)
    \/ \E as \in SUBSET In({"waits"}) : Claim(as)
    \/ \E a \in In({"claimed"}) : Ring(a)
    \/ \E as \in SUBSET In({"claimed"}) :
         \/ Move(as, "waits")
         \/ \E a \in In({"rings"}) : Return(a, as)
         \/ \E a \in In({"claimed"}) \ as : PutAside(a, as)
    \/ TakeUp
    \/ \E a \in In({"rings"}) : RingNoMore(a) \/ Fail(a)
    \/ \E as \in SUBSET In({"waits", "claimed", "aside"}) : Move(as, "over")

Spec == Init /\ [][Next]_alarmVars

=============================================================================
