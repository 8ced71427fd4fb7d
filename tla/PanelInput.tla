----------------------------- MODULE PanelInput -----------------------------
(***************************************************************************)
(* How a panel gets painted and how it holds the selection                 *)
(* (panel/js_panel_window.cpp).                                            *)
(*                                                                         *)
(* Windows makes WM_PAINT only for an empty queue, and a panel that keeps  *)
(* sending run_next_event to itself has none.  A repaint that a script     *)
(* asks for therefore starts a timer as well, and every event looks for    *)
(* its WM_TIMER first.  Scripts run message loops, in on_paint too, so the *)
(* main thread is a stack of events, paints and loops.                     *)
(*                                                                         *)
(* The focus messages are handled at once, their events when they come up  *)
(* in the queue.                                                           *)
(*                                                                         *)
(* Its specification is InputSpec, not Spec, so that one module can extend *)
(* this one and another component.                                         *)
(***************************************************************************)
EXTENDS Naturals, Sequences

CONSTANTS
    MaxFrames, \* bound: frames on the stack
    MaxInputs  \* bound: focus events in the queue

ASSUME InputAssumption == MaxFrames \in Nat /\ MaxInputs \in Nat

VARIABLES
    frames,   \* the stack of the main thread
    posted,   \* a run_next_event message is in the queue
    dirty,    \* the window has an invalid region: WM_PAINT is due
    timer,    \* hRepaintTimer_
    elapsed,  \* WM_TIMER is due, of the timer or of one that was killed
    painting, \* isPaintInProgress_
    wanted,   \* history: what has become of the repaint that a script asked for, see Wanted
    focused,  \* the window has the focus
    inputs,   \* the focus events in the queue: "focus" or "blur"
    holder,   \* selectionHolder_
    unloaded, \* history: UnloadScript released the holder of this focus
    late      \* history: the holder was acquired after the focus had gone

screen == <<dirty, timer, elapsed, painting, wanted>>
focus == <<focused, inputs, holder, unloaded, late>>
inputVars == <<frames, posted, screen, focus>>

Kinds == {"event", "paint", "loop"}

\* It is done, or there was none; it was asked for outside of any paint or within one,
\* and is not done; or it is lost: the window was validated and nothing painted.
Wanted == {"no", "outside", "within", "lost"}

Top == frames[Len(frames)]
TopIs(kinds) == frames # <<>> /\ Top \in kinds
Pop == SubSeq(frames, 1, Len(frames) - 1)
Push(kind) == Append(frames, kind)

\* A message loop, the main one or one that a script runs, may handle a message.
MayPump == frames = <<>> \/ TopIs({"loop"})
ThereIsRoom == Len(frames) < MaxFrames

\* Scripts run in events and paints.
ScriptRuns == TopIs({"event", "paint"})

InputInit ==
    /\ frames = <<>> /\ posted = FALSE
    /\ dirty = FALSE /\ timer = FALSE /\ elapsed = FALSE
    /\ painting = FALSE /\ wanted = "no"
    /\ focused = FALSE /\ inputs = <<>> /\ holder = FALSE
    /\ unloaded = FALSE /\ late = FALSE

------------------------------------------------------------------------------
(* Painting *)

\* WM_PAINT: the timer is killed.  BeginPaint validates the window and the script
\* paints; within a paint DefWindowProc validates it and nothing is painted.
WmPaint ==
    /\ ThereIsRoom
    /\ dirty' = FALSE /\ timer' = FALSE /\ painting' = TRUE
    /\ \/ ~painting /\ frames' = Push("paint") /\ wanted' = "no"
       \/ painting /\ frames' = frames /\ wanted' = IF wanted = "no" THEN "no" ELSE "lost"
    /\ UNCHANGED focus

\* The queue is empty.
Paint ==
    /\ MayPump /\ ~posted /\ dirty
    /\ WmPaint
    /\ UNCHANGED <<posted, elapsed>>

\* The timer that the paint found is killed before the script paints, which may
\* ask for another repaint.
KilledAfterPaint == FALSE
TimerAfterPaint == timer

\* kWndPaint is over.
PaintEnds ==
    /\ TopIs({"paint"})
    /\ painting' = FALSE
    /\ timer' = TimerAfterPaint
    /\ frames' = Pop
    /\ UNCHANGED <<posted, dirty, elapsed, wanted, focus>>

SetTimer == TRUE

\* Repaint and RepaintRect.
Repaint ==
    /\ ScriptRuns
    /\ dirty' = TRUE /\ timer' = SetTimer
    /\ wanted' = IF painting THEN "within" ELSE "outside"
    /\ UNCHANGED <<frames, posted, elapsed, painting, focus>>

\* Repaint(true): RDW_UPDATENOW sends WM_PAINT at once.
RepaintNow ==
    /\ ScriptRuns
    /\ WmPaint
    /\ UNCHANGED <<posted, elapsed>>

\* The window is uncovered, resized, or invalidated.
Invalidate ==
    /\ dirty' = TRUE
    /\ UNCHANGED <<frames, posted, timer, elapsed, painting, wanted, focus>>

TimerElapses ==
    /\ timer
    /\ elapsed' = TRUE
    /\ UNCHANGED <<frames, posted, dirty, timer, painting, wanted, focus>>

\* WM_TIMER has the lowest priority, and means nothing to the window procedure.
WmTimer ==
    /\ MayPump /\ ~posted /\ ~dirty /\ elapsed
    /\ elapsed' = FALSE
    /\ UNCHANGED <<frames, posted, dirty, timer, painting, wanted, focus>>

------------------------------------------------------------------------------
(* Events *)

\* Somebody queues an event: run_next_event is posted, again and again.
Post ==
    /\ ~posted /\ posted' = TRUE
    /\ UNCHANGED <<frames, screen, focus>>

Receive ==
    /\ MayPump /\ ThereIsRoom /\ posted
    /\ posted' = FALSE
    /\ elapsed' = FALSE

NeverStalled == FALSE

\* GetStalledMessage takes WM_TIMER from the queue, which counts only as long as the
\* timer is not killed.
IsStalled == elapsed /\ timer

\* ProcessStalledMessage: RedrawWindow(RDW_UPDATENOW) instead of the event.
ProcessStalledMessage ==
    /\ Receive /\ IsStalled
    /\ IF dirty THEN WmPaint
       ELSE timer' = FALSE /\ UNCHANGED <<frames, dirty, painting, wanted, focus>>

\* kInputFocus acquires the holder, whatever has become of the focus.
ExecuteInput ==
    /\ inputs' = Tail(inputs)
    /\ holder' = (holder \/ Head(inputs) = "focus")
    /\ late' = (late \/ (Head(inputs) = "focus" /\ ~focused))
    /\ UNCHANGED <<focused, unloaded>>

\* ProcessNextEvent: a script runs, or nothing, when it is too deep in others.
ProcessNextEvent ==
    /\ Receive /\ ~IsStalled
    /\ \/ UNCHANGED <<frames, focus>>
       \/ frames' = Push("event") /\ UNCHANGED focus
       \/ inputs # <<>> /\ frames' = Push("event") /\ ExecuteInput
    /\ UNCHANGED <<dirty, timer, painting, wanted>>

EventEnds ==
    /\ TopIs({"event"})
    /\ frames' = Pop
    /\ UNCHANGED <<posted, screen, focus>>

\* A script opens a dialog or a menu, which is closed at last.
OpenLoop ==
    /\ ScriptRuns /\ ThereIsRoom
    /\ frames' = Push("loop")
    /\ UNCHANGED <<posted, screen, focus>>

CloseLoop ==
    /\ TopIs({"loop"})
    /\ frames' = Pop
    /\ UNCHANGED <<posted, screen, focus>>

------------------------------------------------------------------------------
(* Focus *)

\* WM_SETFOCUS
SetFocus ==
    /\ ~focused /\ Len(inputs) < MaxInputs
    /\ focused' = TRUE /\ posted' = TRUE
    /\ inputs' = Append(inputs, "focus")
    /\ unloaded' = FALSE
    /\ UNCHANGED <<frames, screen, holder, late>>

ReleasedByEvent == holder
Released == FALSE

\* WM_KILLFOCUS
KillFocus ==
    /\ focused /\ Len(inputs) < MaxInputs
    /\ focused' = FALSE /\ posted' = TRUE
    /\ inputs' = Append(inputs, "blur")
    /\ holder' = Released /\ late' = FALSE
    /\ UNCHANGED <<frames, screen, unloaded>>

\* UnloadScript
UnloadScript ==
    /\ holder' = FALSE /\ late' = FALSE
    /\ unloaded' = TRUE
    /\ UNCHANGED <<frames, posted, screen, focused, inputs>>

------------------------------------------------------------------------------
Pump == Paint \/ WmTimer \/ ProcessStalledMessage \/ ProcessNextEvent

Unwind == PaintEnds \/ EventEnds \/ CloseLoop

Environment ==
    \/ Repaint \/ RepaintNow \/ Invalidate \/ Post \/ OpenLoop
    \/ SetFocus \/ KillFocus \/ UnloadScript

InputNext == Pump \/ Unwind \/ TimerElapses \/ Environment

InputSpec == InputInit /\ [][InputNext]_inputVars

\* Message loops handle messages, the timer elapses, and scripts and dialogs come
\* to an end.  Nobody has to stop posting.
FairInputSpec ==
    /\ InputSpec
    /\ WF_inputVars(Pump) /\ WF_inputVars(TimerElapses)
    /\ SF_inputVars(PaintEnds) /\ SF_inputVars(EventEnds) /\ SF_inputVars(CloseLoop)

------------------------------------------------------------------------------
(* Properties *)

InputTypeOK ==
    /\ frames \in Seq(Kinds)
    /\ posted \in BOOLEAN /\ dirty \in BOOLEAN /\ timer \in BOOLEAN
    /\ elapsed \in BOOLEAN /\ painting \in BOOLEAN /\ wanted \in Wanted
    /\ focused \in BOOLEAN /\ holder \in BOOLEAN
    /\ unloaded \in BOOLEAN /\ late \in BOOLEAN
    /\ inputs \in Seq({"focus", "blur"})

\* A repaint that was asked for has its timer and its invalid window until a script
\* paints, through paints that ask for the next one, timers that elapse late and
\* WM_PAINTs that paint nothing.  These make a repaint lose both, but only one that was
\* asked for within a paint: none begins while an earlier one is still to be done.
RepaintIsTimed ==
    /\ wanted \in {"outside", "within"} => dirty /\ timer
    /\ wanted = "outside" => ~painting

\* isPaintInProgress_ tells whether a paint is on the stack, and there is never
\* more than one.
PaintsOnce ==
    /\ painting <=> \E i \in DOMAIN frames : frames[i] = "paint"
    /\ \A i, j \in DOMAIN frames : frames[i] = "paint" /\ frames[j] = "paint" => i = j

\* A repaint is not put off for ever by a panel that keeps its queue busy: the script
\* paints, or, where it asked within a paint, a WM_PAINT in that paint loses it.
RepaintIsDone ==
    /\ wanted = "outside" ~> wanted = "no"
    /\ wanted = "within" ~> wanted \in {"no", "lost"}

\* A panel with the focus holds the selection once its event was executed, until
\* its script is unloaded; without the focus it holds the selection only when that
\* event came late.
SelectionFollowsFocus ==
    /\ focused => holder \/ unloaded \/ \E i \in DOMAIN inputs : inputs[i] = "focus"
    /\ holder /\ ~focused => late

=============================================================================
