----------------------------- MODULE PanelLife -----------------------------
(***************************************************************************)
(* The life of a panel: its window is created and destroyed, its script is *)
(* loaded, unloaded, reloaded and fails (panel/js_panel_window.cpp,        *)
(* js_engine/js_container.cpp).                                            *)
(*                                                                         *)
(* All of that happens on the main thread, but scripts open message loops  *)
(* and call natives that send messages, so that a panel is reloaded, told  *)
(* to exit or destroyed in the midst of its own load, callback, paint or   *)
(* on_script_unload.  The stack of the main thread says what is under way; *)
(* each script has a global object of its own, numbered in order.          *)
(*                                                                         *)
(* What no JavaScript interrupts is one step, written as functions from a  *)
(* state of the panel to the next one.                                     *)
(***************************************************************************)
EXTENDS Naturals, Sequences, FiniteSets

CONSTANTS
    MaxGlobals, \* bound: scripts that are loaded
    MaxFrames   \* bound: frames on the stack

ASSUME LifeAssumption == MaxGlobals \in Nat /\ MaxFrames \in Nat

VARIABLES
    panel,  \* the members of the panel and of its container, see Panel
    frames  \* the stack of the main thread

vars == <<panel, frames>>

Globals == 1..MaxGlobals

Panel == [
    window     : {"none", "open", "closing", "closed"},
    owned      : BOOLEAN,  \* pJsContainer_ is not null
    registered : BOOLEAN,  \* the container exists and the engine knows it
    timeouts   : BOOLEAN,  \* pTimeoutManager_ is not null
    status     : {"Ready", "Working", "Failed"}, \* jsStatus_
    global     : Nat,      \* the number of the last global object
    parsing    : BOOLEAN,  \* isParsingScript_
    hasFailed  : BOOLEAN,  \* hasFailed_, which shows the error screen
    menu       : BOOLEAN,  \* registered with DynamicMainMenuManager
    drop       : {"none", "script", "late"}, \* dropTargetHandler_, if it is not null:
                           \* made for the current script, or by one that was unloaded
    disturbed  : BOOLEAN,  \* history: jobs ran in the midst of the last LoadScript
    dismissed  : BOOLEAN,  \* history: prepare_for_exit unloaded the last script
    painting   : BOOLEAN,  \* isPaintInProgress_
    graphics   : SUBSET Globals, \* globals whose graphics object has a Graphics
    others     : BOOLEAN,  \* other panels keep the engine
    fault      : {"none", "null", "engine", "dangling", "assertion"}]

\* Callbacks and the execution of a script; besides, promise jobs, UnloadScript below
\* its callback, and LoadScript at its SetWindowPos, which may still send WM_SIZE
\* ("resize") or has done so.  then: what the caller of UnloadScript does afterwards.
Scripts == {"call", "paint", "load"}
Resizes == {"resize", "resized"}
Others == {"jobs", "unload"} \cup Resizes
Frame(kind, g, then) == [kind |-> kind, g |-> g, then |-> then]

Top == frames[Len(frames)]
TopIs(kinds) == frames # <<>> /\ Top.kind \in kinds
Push(s, f) == Append(s, f)
Pop == SubSeq(frames, 1, Len(frames) - 1)

------------------------------------------------------------------------------
(* The container and the panel *)

\* JsContainer::IsReadyForCallback
IsWorking(p) == p.status = "Working"
IsReadyForCallback(p) == p.status = "Working" /\ ~p.parsing

\* JsContainer::Finalize: an error stays until the next initialization.
Finalized(p) == [p EXCEPT !.status = IF @ = "Failed" THEN @ ELSE "Ready"]

\* UnloadScript when it is forced, or after its callback.
UnloadedKeepingMenu(p) ==
    IF p.owned THEN [Finalized(p) EXCEPT !.drop = "none"] ELSE p

Unloaded(p) ==
    IF p.owned
    THEN [Finalized(p) EXCEPT !.menu = FALSE, !.drop = "none"]
    ELSE p

\* js_panel_window::Fail
PanelFail(p) == Unloaded([p EXCEPT !.hasFailed = TRUE])

\* ReloadSettings fails.
RefusedQuietly(p) == p
Refused(p) == PanelFail(p)

\* JsContainer::Fail
ContainerFailQuietly(p) == Unloaded([p EXCEPT !.status = "Failed"])
ContainerFail(p) == PanelFail([p EXCEPT !.status = "Failed"])

\* LoadScript up to SetWindowPos; drop: settings_.enableDragDrop.
LoadBegun(p, drop) ==
    [p EXCEPT !.hasFailed = FALSE, !.drop = IF drop THEN "script" ELSE "none",
              !.menu = TRUE, !.dismissed = FALSE,
              !.fault = IF p.menu THEN "assertion" ELSE @]

LoadScript(p, s) ==
    \E drop \in BOOLEAN :
      panel' = LoadBegun(p, drop) /\ frames' = Push(s, Frame("resize", 0, "none"))

\* JsContainer::Initialize creates a global object, unless there is one.
Initialized(p) ==
    IF p.status = "Working" THEN p
    ELSE [p EXCEPT !.status = "Working", !.global = @ + 1]

Executing(p) == [Initialized(p) EXCEPT !.parsing = TRUE]

\* areJobsInProgress_
AreJobsInProgress(s) == \E i \in DOMAIN s : s[i].kind = "jobs"

\* ~JsContainer, when no panel and no call (selfSaver) keeps it alive.
IsSavedBy(s) == \E i \in DOMAIN s : s[i].kind \in Scripts

\* The last container takes the engine with it, under the jobs that are running.
Released(p, s) ==
    IF p.owned \/ IsSavedBy(s) THEN p
    ELSE [Finalized(p) EXCEPT
            !.registered = FALSE,
            !.fault = IF AreJobsInProgress(s) /\ ~p.others THEN "engine" ELSE @]

\* OnDestroy after UnloadScript.
Destroyed(p) ==
    [p EXCEPT !.window = "closed", !.timeouts = FALSE, !.owned = FALSE]

\* What follows UnloadScript: nothing, the rest of OnDestroy, or of ReloadScript,
\* whose settings may be refused.
Proceed(p, s, then) ==
    \/ then = "nothing" /\ panel' = [p EXCEPT !.dismissed = TRUE] /\ frames' = s
    \/ then = "destroy" /\ panel' = Released(Destroyed(p), s) /\ frames' = s
    \/ then = "reload" /\ panel' = Refused(p) /\ frames' = s
    \/ then = "reload" /\ LoadScript(p, s)

\* UnloadScript: on_script_unload first, if the script may be called.
UnloadScript(p, then) ==
    IF IsReadyForCallback(p)
    THEN /\ panel' = p
         /\ frames' = frames \o <<Frame("unload", p.global, then),
                                  Frame("call", p.global, "none")>>
    ELSE Proceed(Unloaded(p), frames, then)

------------------------------------------------------------------------------
(* Messages and events *)

Init ==
    /\ frames = <<>>
    /\ \E others \in BOOLEAN :
       panel = [window |-> "none", owned |-> FALSE, registered |-> FALSE,
                timeouts |-> FALSE, status |-> "Ready", global |-> 0,
                parsing |-> FALSE, hasFailed |-> FALSE, menu |-> FALSE,
                drop |-> "none", disturbed |-> FALSE, dismissed |-> FALSE,
                painting |-> FALSE, graphics |-> {}, others |-> others, fault |-> "none"]

\* Messages are handled by the main loop and by those of scripts.
MayHandle ==
    /\ panel.fault = "none"
    /\ frames = <<>> \/ TopIs(Scripts \cup {"jobs"})
    /\ Len(frames) + 2 <= MaxFrames

\* The events and messages below are dropped without pJsContainer_.
MayHandleForScript == MayHandle /\ panel.owned

\* OnCreate
Create ==
    /\ MayHandle /\ panel.window = "none"
    /\ LoadScript([panel EXCEPT !.window = "open", !.owned = TRUE,
                                !.registered = TRUE, !.timeouts = TRUE], frames)

\* A callback.
Call ==
    /\ MayHandleForScript /\ IsReadyForCallback(panel)
    /\ frames' = Push(frames, Frame("call", panel.global, "none"))
    /\ UNCHANGED panel

\* WM_PAINT within a paint is left to the system.
MayPaintAgain == TRUE
MayPaint == ~panel.painting

\* kWndPaint, InvokeOnPaint
Paint ==
    /\ MayHandleForScript /\ MayPaint
    /\ IsReadyForCallback(panel) /\ ~panel.hasFailed
    /\ panel' = [panel EXCEPT !.painting = TRUE, !.graphics = @ \cup {panel.global}]
    /\ frames' = Push(frames, Frame("paint", panel.global, "none"))

\* MaybeRunJobs, after an event of any panel whose own counter is zero again
\* (EventDispatch): scripts of this one may be on the stack.
RunJobs ==
    /\ MayHandle
    /\ panel.registered \/ panel.others
    /\ ~AreJobsInProgress(frames)
    /\ frames' = Push(frames, Frame("jobs", 0, "none"))
    /\ UNCHANGED panel

\* WM_SIZE in the midst of LoadScript.  No script is ready for on_size, but where no
\* other event of the panel is under way the jobs run at its end.
Resize ==
    /\ panel.fault = "none" /\ TopIs({"resize"})
    /\ ~AreJobsInProgress(frames) /\ Len(frames) < MaxFrames
    /\ frames' = Push([frames EXCEPT ![Len(frames)].kind = "resized"], Frame("jobs", 0, "none"))
    /\ UNCHANGED panel

\* ReloadScript: a saved script, new settings, window.Reload, a new theme.
Reload == MayHandleForScript /\ UnloadScript(panel, "reload")

\* prepare_for_exit
PrepareForExit == MayHandleForScript /\ UnloadScript(panel, "nothing")

\* script_fail, and settings that cannot be parsed.
FailOutside ==
    /\ MayHandleForScript
    /\ panel' = PanelFail(panel)
    /\ UNCHANGED frames

\* OnDestroy
Destroy ==
    /\ MayHandle /\ panel.window = "open"
    /\ UnloadScript([panel EXCEPT !.window = "closing"], "destroy")

\* window.DefinePanel, called by the script g: the drop target is made or let go, also
\* after the script was unloaded.  (A script that succeeds with it may not do it again;
\* here it may.)
DefinePanel(g, drop) ==
    /\ panel.fault = "none"
    /\ \/ TopIs(Scripts) /\ g = Top.g
       \/ TopIs({"jobs"}) /\ g \in 1..panel.global
    /\ panel' = [panel EXCEPT !.drop =
                   IF ~drop THEN "none"
                   ELSE IF @ # "none" THEN @
                   ELSE IF IsWorking(panel) /\ g = panel.global THEN "script" ELSE "late"]
    /\ UNCHANGED frames

------------------------------------------------------------------------------
(* The stack unwinds *)

\* The panel or its engine is gone and the code does not look.
Fault(fault) == panel' = [panel EXCEPT !.fault = fault] /\ UNCHANGED frames

\* What the caller of the script does with the panel once the script has returned.
Returned(p, f) ==
    CASE f.kind = "call" -> p
      [] f.kind = "load" -> [p EXCEPT !.parsing = FALSE]
      [] f.kind = "paint" ->
           [p EXCEPT !.painting = FALSE,
                     !.graphics = IF p.status = "Working" THEN @ \ {p.global} ELSE @]

\* LoadScript goes on with its container: the initialization fails, or the script
\* begins to run.
FinishLoad ==
    /\ panel.fault = "none" /\ TopIs(Resizes)
    /\ IF ~panel.owned THEN Fault("null")
       ELSE LET p == [panel EXCEPT !.disturbed = Top.kind = "resized"]
            IN  \/ /\ ~IsWorking(p)
                   /\ panel' = ContainerFail(p) /\ frames' = Pop
                \/ /\ IsWorking(p) \/ p.global < MaxGlobals
                   /\ panel' = Executing(p)
                   /\ frames' = Push(Pop, Frame("load", panel'.global, "none"))

\* A script returns.  LoadScript goes on with its timeout manager.
Return ==
    /\ panel.fault = "none" /\ TopIs(Scripts)
    /\ IF Top.kind = "load" /\ ~panel.timeouts THEN Fault("null")
       ELSE panel' = Released(Returned(panel, Top), Pop) /\ frames' = Pop

\* A script ends with an error.  Whichever script it is, the current one fails.
ReturnError ==
    LET p == Returned(ContainerFail(panel), Top)
    IN  /\ panel.fault = "none" /\ TopIs(Scripts)
        /\ frames' = Pop
        /\ panel' = Released(p, Pop)

JobsEnd ==
    /\ panel.fault = "none" /\ TopIs({"jobs"})
    /\ frames' = Pop
    /\ UNCHANGED panel

\* A promise of this panel was rejected: the global object, which the promise keeps,
\* calls its container.
JobsFail ==
    /\ panel.fault = "none" /\ TopIs({"jobs"}) /\ panel.global > 0
    /\ IF panel.registered THEN panel' = ContainerFail(panel) /\ frames' = Pop
       ELSE Fault("dangling")

\* UnloadScript after its callback.
FinishUnload ==
    /\ panel.fault = "none" /\ TopIs({"unload"})
    /\ IF panel.owned THEN Proceed(Unloaded(panel), Pop, Top.then)
       ELSE Fault("null")

------------------------------------------------------------------------------
Next ==
    \/ Create \/ Call \/ Paint \/ RunJobs \/ Resize
    \/ Reload \/ PrepareForExit \/ FailOutside \/ Destroy
    \/ \E g \in Globals, drop \in BOOLEAN : DefinePanel(g, drop)
    \/ FinishLoad \/ Return \/ ReturnError \/ JobsEnd \/ JobsFail \/ FinishUnload

Spec == Init /\ [][Next]_vars

------------------------------------------------------------------------------
(* Properties *)

TypeOK ==
    /\ panel \in Panel
    /\ frames \in Seq([kind : Scripts \cup Others, g : Nat,
                       then : {"none", "nothing", "destroy", "reload"}])

\* A script is called back only after its first execution has ended, although the
\* panel may have loaded other scripts, or failed, in the midst of that.
CalledAfterItsLoad ==
    \A i, j \in DOMAIN frames :
      i < j /\ frames[i].kind = "load" /\ frames[j].kind \in {"call", "paint"}
        => frames[i].g # frames[j].g

\* A LoadScript has not come to the script yet.
BeingLoaded == \E i \in DOMAIN frames : frames[i].kind \in Resizes

\* A script that runs is not covered by the error screen, and one that failed is,
\* however failures, loads and unloads are nested.  The exception are the jobs that
\* WM_SIZE runs in the midst of LoadScript: what fails the panel there is forgotten,
\* the script is executed, but the error screen stays.
ErrorIsShown ==
    /\ IsWorking(panel) /\ ~panel.disturbed => ~panel.hasFailed
    /\ panel.status = "Failed" /\ ~BeingLoaded => panel.hasFailed

\* A script has its menu commands, but for the same exception, and nothing of it is
\* left when it ends, in whichever way: neither they nor its drop target.  (A panel
\* without a script has a drop target only if an unloaded script that is still on
\* the stack, or a job of it, calls DefinePanel.)
NothingIsLeft ==
    IF IsWorking(panel)
      THEN ~panel.disturbed => panel.menu
      ELSE ~BeingLoaded => ~panel.menu /\ panel.drop # "script"

\* Whatever is nested in what, an open panel ends up with a script that runs or with
\* an error on its screen, unless prepare_for_exit took the script away.
NeverSilentlyDead ==
    panel.window = "open" /\ frames = <<>> /\ panel.fault = "none" =>
      panel.status = "Working" \/ panel.hasFailed \/ panel.dismissed

\* The graphics object of the script that runs has a Graphics as long as, and only
\* as long as, it paints.  (That of a script that was unloaded in its on_paint keeps
\* a dangling pointer.)
GraphicsOfThePaint ==
    panel.status = "Working" =>
      (panel.global \in panel.graphics
         <=> \E i \in DOMAIN frames :
               frames[i].kind = "paint" /\ frames[i].g = panel.global)

\* No load finds the panel registered with the menu (the assertion of
\* DynamicMainMenuManager::RegisterPanel).  Null members are met only in the end of a
\* load or an unload under which the window was destroyed.  The engine is taken away
\* only from jobs that destroy the window of its last panel; and only a rejected
\* promise of a panel that is gone, also since an ordinary close, reaches for a
\* container that does not exist any more, while other panels keep the engine.
OnlyKnownFaults ==
    /\ panel.fault # "assertion"
    /\ panel.fault # "none" => panel.window = "closed" /\ ~panel.owned
    /\ panel.fault = "null" => Top.kind \in {"load", "unload", "resized"}
    /\ panel.fault = "engine" => AreJobsInProgress(frames) /\ ~panel.others
    /\ panel.fault = "dangling" => Top.kind = "jobs" /\ ~panel.registered /\ panel.others

\* The engine and the container stay while a script is on the stack, and go with
\* the last call once the window is closed.
ContainerOutlivesCalls ==
    panel.window # "none" =>
      (panel.registered <=> panel.owned \/ \E i \in DOMAIN frames : frames[i].kind \in Scripts)

=============================================================================
