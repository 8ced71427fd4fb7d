----------------------------- MODULE SlowScript -----------------------------
(***************************************************************************)
(* The slow script monitor (js_engine/js_monitor.cpp): a watcher thread    *)
(* sees which containers have been in JavaScript for long and asks the     *)
(* engine to interrupt the script; the interrupt callback counts two       *)
(* halves of the limit and then asks the user whether to stop the script.  *)
(*                                                                         *)
(* The main thread is a stack of frames: calls into containers, popups     *)
(* that scripts open, and the interrupt callback with its dialog.  Popups  *)
(* and the dialog run message loops, where panels are called, created and  *)
(* destroyed on top of everything below.  A section under                  *)
(* watcherDataMutex_ is one step.                                          *)
(*                                                                         *)
(* Instants are kept as ages, in ticks up to the age that matters.         *)
(***************************************************************************)
EXTENDS Naturals, Sequences, FiniteSets

CONSTANTS
    Container,  \* the containers, one per panel
    NoOne,      \* the container of a frame that belongs to none
    Half,       \* half of slowScriptLimit_, in ticks
    MaxFrames   \* bound: calls and popups on the stack

ASSUME SlowAssumption ==
    /\ Half \in Nat \ {0} /\ MaxFrames \in Nat
    /\ NoOne \notin Container

VARIABLES
    engine,      \* "off", "on", or "stopping": JsMonitor::Stop joins the watcher
    frames,      \* the stack of the main thread
    status,      \* jsStatus_ of each container; "gone" when it is not registered
    orphans,     \* containers without a panel, which only calls keep alive
    parsing,     \* containers with isParsingScript_ set
    active,      \* the keys of activeContainers_
    started,     \* age of their start time
    checkpoint,  \* age of slowScriptCheckpoint
    ran,         \* history: how long an action runs since the user was asked
    second,      \* containers with slowScriptSecondHalf set
    ignored,     \* containers with ignoreSlowScriptCheck set
    inInterrupt, \* isInInterrupt_
    wasInModal,  \* wasInModal_
    requested,   \* JS_RequestInterruptCallback was called
    watcher      \* what the watcher thread does

panels == <<engine, status, orphans>>
data == <<active, started, checkpoint, ran, second, ignored>>
vars == <<panels, frames, parsing, data, inInterrupt, wasInModal, requested, watcher>>

------------------------------------------------------------------------------
(* Frames *)

Frame(kind, c, todo) == [kind |-> kind, c |-> c, todo |-> todo]

Calls == {"call", "load"}       \* InvokeJs..., ExecuteScript
Popups == {"popup", "trusted"}  \* opened by a script; trusted: whitelisted
Interrupts == {"enter", "scan", "ask"}

Top == frames[Len(frames)]
TopIs(kinds) == frames # <<>> /\ Top.kind \in kinds
Push(f) == Append(frames, f)
Pop == SubSeq(frames, 1, Len(frames) - 1)
Replace(f) == [frames EXCEPT ![Len(frames)] = f]

\* nestedJsCounter_ of c on the stack s.
NestedIn(s, c) ==
    Cardinality({i \in DOMAIN s : s[i].kind \in Calls /\ s[i].c = c})

\* Only the outermost call of a container tells the monitor.
IsAnyIn(s, c) == TRUE
IsOutermostIn(s, c) == NestedIn(s, c) = 0

\* selfSaver: a container is alive while a call into it is on the stack.
IsNotSavedIn(s, c) == FALSE
IsSavedIn(s, c) == NestedIn(s, c) # 0

ThereIsRoom ==
    Cardinality({i \in DOMAIN frames : frames[i].kind \notin Interrupts}) < MaxFrames

\* JavaScript of a panel may be called from JavaScript and from message loops.
MainMayCall ==
    /\ engine = "on"
    /\ frames = <<>> \/ TopIs(Calls \cup Popups \cup {"ask"})
    /\ ThereIsRoom

ScriptRuns == engine = "on" /\ TopIs(Calls)

\* HasActivePopup: whitelisted scopes, a loading script among them, hide popups.
HasPopup ==
    /\ \E i \in DOMAIN frames : frames[i].kind \in {"popup", "ask"}
    /\ \A i \in DOMAIN frames : frames[i].kind \notin {"trusted", "load"}

------------------------------------------------------------------------------
(* Ages *)

Oldest == Half + 1
Aged(age, oldest) == IF age < oldest THEN age + 1 ELSE age

\* Time passes.  What is not active has no age worth keeping.
Tick ==
    /\ started' = [c \in Container |-> IF c \in active THEN Aged(started[c], Oldest) ELSE 0]
    /\ checkpoint' = [c \in Container |-> IF c \in active THEN Aged(checkpoint[c], Half) ELSE 0]
    /\ ran' = [c \in Container |-> IF c \in active THEN Aged(ran[c], 2 * Half) ELSE 0]
    /\ UNCHANGED <<panels, frames, parsing, active, second, ignored,
                   inInterrupt, wasInModal, requested, watcher>>

------------------------------------------------------------------------------
(* Calls *)

Init ==
    /\ engine = "off" /\ frames = <<>>
    /\ status = [c \in Container |-> "gone"] /\ orphans = {}
    /\ parsing = {} /\ active = {} /\ second = {} /\ ignored = {}
    /\ started = [c \in Container |-> 0]
    /\ checkpoint = [c \in Container |-> 0]
    /\ ran = [c \in Container |-> 0]
    /\ inInterrupt = FALSE /\ wasInModal = FALSE /\ requested = FALSE
    /\ watcher = "done"

Asleep == {"waiting", "missed"}

\* notify_one, and a notification that is forgotten.
NotNotified == watcher

Notified == IF watcher \in Asleep THEN "woken" ELSE watcher

\* OnJsActionStart of the container, then of the monitor.
ActionStart(c) ==
    IF IsOutermostIn(frames, c) /\ c \notin ignored
    THEN /\ active' = active \cup {c}
         /\ started' = [started EXCEPT ![c] = 0]
         /\ checkpoint' = [checkpoint EXCEPT ![c] = 0]
         /\ ran' = [ran EXCEPT ![c] = 0]
         /\ watcher' = Notified
         /\ UNCHANGED <<second, ignored>>
    ELSE UNCHANGED <<data, watcher>>

\* A callback, a task, a notification of another panel.
Call(c) ==
    /\ MainMayCall
    /\ status[c] = "Working" /\ c \notin parsing
    /\ ActionStart(c)
    /\ frames' = Push(Frame("call", c, {}))
    /\ UNCHANGED <<panels, parsing, inInterrupt, wasInModal, requested>>

\* LoadScript of a panel that exists.
Load(c) ==
    /\ MainMayCall
    /\ status[c] # "gone" /\ c \notin orphans
    /\ status' = [status EXCEPT ![c] = "Working"]
    /\ parsing' = parsing \cup {c}
    /\ ActionStart(c)
    /\ frames' = Push(Frame("load", c, {}))
    /\ UNCHANGED <<engine, orphans, inInterrupt, wasInModal, requested>>

\* A new panel registers its container and loads its script.  The first one
\* initializes the engine, which starts the watcher thread.
Create(c) ==
    /\ status[c] = "gone"
    /\ \/ engine = "off" /\ frames = <<>>
          /\ engine' = "on" /\ requested' = FALSE /\ watcher' = "top"
       \/ MainMayCall /\ watcher' = Notified /\ UNCHANGED <<engine, requested>>
    /\ status' = [status EXCEPT ![c] = "Working"]
    /\ parsing' = parsing \cup {c}
    /\ active' = active \cup {c}
    /\ started' = [started EXCEPT ![c] = 0]
    /\ checkpoint' = [checkpoint EXCEPT ![c] = 0]
    /\ ran' = [ran EXCEPT ![c] = 0]
    /\ frames' = Push(Frame("load", c, {}))
    /\ UNCHANGED <<orphans, second, ignored, inInterrupt, wasInModal>>

KeepsSecondHalf(c) == second
ClearsSecondHalf(c) == second \ {c}

\* The container is destroyed: it is removed from the monitor, and the engine is
\* finalized with the last one, which first stops the monitor.
Unregister(c, st) ==
    /\ status' = [st EXCEPT ![c] = "gone"]
    /\ orphans' = orphans \ {c}
    /\ ignored' = ignored \ {c}
    /\ IF \A d \in Container : status'[d] = "gone"
       THEN engine' = "stopping" /\ watcher' = Notified
       ELSE UNCHANGED <<engine, watcher>>

\* The script of c returns, or fails with an error, one of an aborted script
\* that it does not catch among them: OnJsActionEnd, then Fail, then the
\* selfSaver is released.
Return(c, failed) ==
    LET st == IF failed THEN [status EXCEPT ![c] = "Failed"] ELSE status
    IN  /\ ScriptRuns /\ Top.c = c
        /\ frames' = Pop
        /\ parsing' = IF Top.kind = "load" THEN parsing \ {c} ELSE parsing
        /\ IF IsOutermostIn(Pop, c)
           THEN /\ second' = ClearsSecondHalf(c)
                /\ active' = active \ {c}
                /\ started' = [started EXCEPT ![c] = 0]
                /\ checkpoint' = [checkpoint EXCEPT ![c] = 0]
                /\ ran' = [ran EXCEPT ![c] = 0]
           ELSE UNCHANGED <<active, started, checkpoint, ran, second>>
        /\ IF c \in orphans /\ ~IsSavedIn(Pop, c)
           THEN Unregister(c, st)
           ELSE status' = st /\ UNCHANGED <<engine, orphans, ignored, watcher>>
        /\ UNCHANGED <<inInterrupt, wasInModal, requested>>

\* OnDestroy: the panel drops its container, which calls on the stack keep alive.
Destroy(c) ==
    LET st == [status EXCEPT ![c] = IF @ = "Working" THEN "Ready" ELSE @]
    IN  /\ engine = "on"
        /\ frames = <<>> \/ TopIs(Calls \cup Popups \cup {"ask"})
        /\ status[c] # "gone" /\ c \notin orphans
        /\ IF IsSavedIn(frames, c)
           THEN /\ status' = st /\ orphans' = orphans \cup {c}
                /\ UNCHANGED <<engine, ignored, watcher>>
           ELSE Unregister(c, st)
        /\ UNCHANGED <<frames, parsing, active, started, checkpoint, ran, second,
                       inInterrupt, wasInModal, requested>>

\* A script opens a dialog or a menu, and the user closes it.
OpenPopup(kind) ==
    /\ ScriptRuns /\ ThereIsRoom
    /\ frames' = Push(Frame(kind, NoOne, {}))
    /\ UNCHANGED <<panels, parsing, data, inInterrupt, wasInModal, requested, watcher>>

ClosePopup ==
    /\ TopIs(Popups)
    /\ frames' = Pop
    /\ UNCHANGED <<panels, parsing, data, inInterrupt, wasInModal, requested, watcher>>

------------------------------------------------------------------------------
(* The interrupt callback *)

MayEnter == ~inInterrupt

\* The engine polls for interrupts wherever a script loops or calls; inside
\* of OnInterrupt another one returns at once.
Poll ==
    /\ ScriptRuns /\ requested
    /\ requested' = FALSE
    /\ IF MayEnter
       THEN inInterrupt' = TRUE /\ frames' = Push(Frame("enter", NoOne, {}))
       ELSE UNCHANGED <<inInterrupt, frames>>
    /\ UNCHANGED <<panels, parsing, data, wasInModal, watcher>>

Due(c) == c \in active \ ignored /\ checkpoint[c] >= Half

\* Popups stop the clock: when the last one was closed all ages start anew.
Scan ==
    /\ TopIs({"enter"})
    /\ wasInModal' = HasPopup
    /\ LET afresh == wasInModal /\ ~HasPopup
       IN  /\ IF afresh
              THEN /\ started' = [c \in Container |-> 0]
                   /\ checkpoint' = [c \in Container |-> 0]
              ELSE UNCHANGED <<started, checkpoint>>
           /\ frames' = Replace(Frame("scan", NoOne,
                          IF HasPopup \/ afresh THEN {} ELSE {c \in Container : Due(c)}))
    /\ UNCHANGED <<panels, parsing, active, ran, second, ignored,
                   inInterrupt, requested, watcher>>

\* The first half has passed; or the second one, and the user is asked, unless
\* the script was already aborted.
Consider(c) ==
    /\ TopIs({"scan"}) /\ c \in Top.todo
    /\ LET rest == Top.todo \ {c}
       IN  IF c \notin second
           THEN /\ second' = second \cup {c}
                /\ checkpoint' = [checkpoint EXCEPT ![c] = 0]
                /\ frames' = Replace(Frame("scan", NoOne, rest))
           ELSE /\ frames' = Replace(IF status[c] = "Failed"
                                     THEN Frame("scan", NoOne, rest)
                                     ELSE Frame("ask", c, rest))
                /\ UNCHANGED <<second, checkpoint>>
    /\ UNCHANGED <<panels, parsing, active, started, ran, ignored,
                   inInterrupt, wasInModal, requested, watcher>>

\* The user answers.  When the script is to stop the others are left alone, and
\* the engine aborts the script below, which need not be that of the container.
Answer(stop, askAgain) ==
    /\ TopIs({"ask"})
    /\ LET c == Top.c
       IN  /\ ignored' = IF askAgain THEN ignored ELSE ignored \cup {c}
           /\ IF stop
              THEN /\ frames' = Replace(Frame("scan", NoOne, {}))
                   /\ UNCHANGED <<checkpoint, second, ran>>
              ELSE /\ frames' = Replace(Frame("scan", NoOne, Top.todo))
                   /\ checkpoint' = [checkpoint EXCEPT ![c] = 0]
                   /\ second' = second \ {c}
                   /\ ran' = [ran EXCEPT ![c] = 0]
    /\ UNCHANGED <<panels, parsing, active, started,
                   inInterrupt, wasInModal, requested, watcher>>

LeaveInterrupt ==
    /\ TopIs({"scan"}) /\ Top.todo = {}
    /\ inInterrupt' = FALSE
    /\ frames' = Pop
    /\ UNCHANGED <<panels, parsing, data, wasInModal, requested, watcher>>

------------------------------------------------------------------------------
(* The watcher thread *)

ShouldStop == engine = "stopping"

\* The head of the loop, and the sleep of kMonitorRate.
WatcherLoop ==
    /\ watcher = "top"
    /\ watcher' = IF ShouldStop THEN "done" ELSE "lock"
    /\ UNCHANGED <<panels, frames, parsing, data, inInterrupt, wasInModal, requested>>

IsSlow(c) == started[c] > Half

\* What the thread does with the mutex once it need not wait.
Examine ==
    /\ watcher' = IF ShouldStop THEN "done"
                  ELSE IF ~HasPopup /\ \E c \in active : IsSlow(c) THEN "request"
                  ELSE "top"
    /\ wasInModal' = (wasInModal \/ (~ShouldStop /\ HasPopup))

\* The predicate of hasAction_.wait.  It also describes the test before the wait,
\* except that a busy monitor in the midst of OnInterrupt is not waited for.
MayGoOnUnstopped == active # {} /\ ~inInterrupt
MayGoOn == ShouldStop \/ (active # {} /\ ~inInterrupt)

WatcherLock ==
    /\ watcher = "lock"
    /\ IF MayGoOn
       THEN Examine
       ELSE /\ watcher' = IF active = {} THEN "waiting" ELSE "top"
            /\ UNCHANGED wasInModal
    /\ UNCHANGED <<panels, frames, parsing, data, inInterrupt, requested>>

\* A notification that comes while isInInterrupt_ is set is of no use.
WatcherWakes ==
    /\ watcher = "woken"
    /\ IF MayGoOn
       THEN Examine
       ELSE /\ watcher' = IF active = {} THEN "waiting" ELSE "missed"
            /\ UNCHANGED wasInModal
    /\ UNCHANGED <<panels, frames, parsing, data, inInterrupt, requested>>

SpuriousWakeUp ==
    /\ watcher \in Asleep
    /\ watcher' = "woken"
    /\ UNCHANGED <<panels, frames, parsing, data, inInterrupt, wasInModal, requested>>

WatcherRequest ==
    /\ watcher = "request"
    /\ requested' = TRUE
    /\ watcher' = "top"
    /\ UNCHANGED <<panels, frames, parsing, data, inInterrupt, wasInModal>>

\* StopMonitorThread has joined the thread, and the engine is off.
Joined ==
    /\ engine = "stopping" /\ watcher = "done"
    /\ engine' = "off"
    /\ UNCHANGED <<status, orphans, frames, parsing, data, inInterrupt, wasInModal,
                   requested, watcher>>

------------------------------------------------------------------------------
Watch == WatcherLoop \/ WatcherLock \/ WatcherWakes \/ WatcherRequest

Interrupt ==
    \/ Scan \/ LeaveInterrupt
    \/ \E c \in Container : Consider(c)
    \/ \E stop, askAgain \in BOOLEAN : Answer(stop, askAgain)

Next ==
    \/ Tick \/ Poll \/ Interrupt \/ Watch \/ SpuriousWakeUp \/ Joined \/ ClosePopup
    \/ \E kind \in Popups : OpenPopup(kind)
    \/ \E c \in Container :
         \/ Call(c) \/ Load(c) \/ Create(c) \/ Destroy(c)
         \/ \E failed \in BOOLEAN : Return(c, failed)

Spec == Init /\ [][Next]_vars

\* Time passes, the watcher thread runs, a script that is interrupted polls, the
\* interrupt callback goes on and the user answers.  Scripts need not return.
FairSpec ==
    /\ Spec
    /\ WF_vars(Tick) /\ WF_vars(Watch) /\ SF_vars(Poll)
    /\ WF_vars(Interrupt) /\ WF_vars(Joined)

------------------------------------------------------------------------------
(* Properties *)

TypeOK ==
    /\ engine \in {"off", "on", "stopping"}
    /\ frames \in Seq([kind : Calls \cup Popups \cup Interrupts,
                       c : Container \cup {NoOne}, todo : SUBSET Container])
    /\ status \in [Container -> {"gone", "Ready", "Working", "Failed"}]
    /\ orphans \subseteq Container /\ parsing \subseteq Container
    /\ active \subseteq Container /\ second \subseteq Container
    /\ ignored \subseteq Container
    /\ started \in [Container -> 0..Oldest]
    /\ checkpoint \in [Container -> 0..Half]
    /\ ran \in [Container -> 0..2 * Half]
    /\ inInterrupt \in BOOLEAN /\ wasInModal \in BOOLEAN /\ requested \in BOOLEAN
    /\ watcher \in {"top", "lock", "waiting", "missed", "woken", "request", "done"}

\* A container is watched while, and only while, a script of it is on the stack:
\* nested calls that end, failures and panels that scripts destroy change nothing
\* of that.  Only what the user told the monitor to ignore is not watched.
WatchedWhileRunning ==
    LET running == {c \in Container : NestedIn(frames, c) # 0}
    IN  active \subseteq running /\ running \ active \subseteq ignored

\* OnInterrupt keeps pointers to the containers and to their data while its
\* dialog runs a message loop: none of these containers is destroyed meanwhile.
KeptDataIsAlive ==
    \A i \in DOMAIN frames : \A c \in frames[i].todo \cup ({frames[i].c} \ {NoOne}) :
      status[c] # "gone"

\* There is one question at a time, although scripts run on top of it.
OneQuestion ==
    \A i, j \in DOMAIN frames :
      frames[i].kind \in Interrupts /\ frames[j].kind \in Interrupts => i = j

\* The user is asked about a container only when a script of it has run for the
\* whole limit since it began, or since the user was last asked about it.
AskedAfterTheLimit ==
    [][\A c \in Container :
         ~TopIs({"ask"}) /\ (TopIs({"ask"}) /\ Top.c = c)' => ran[c] >= 2 * Half]_vars

\* The watcher sleeps although a container is active: its notification came
\* while isInInterrupt_ was set, and nobody notifies it when that is reset.
WakeUpIsMissed == watcher = "missed"

\* Something runs on top of the question, where nothing is interrupted.
QuestionIsCovered == \E i \in DOMAIN frames : i < Len(frames) /\ frames[i].kind = "ask"

PopupIsOpen == \E i \in DOMAIN frames : frames[i].kind \in Popups

\* A script that runs for ever is noticed: the user is asked again and again
\* (about another container, as long as the user stops that one, and its script
\* catches the error, each time before this one has its turn).  The premises on
\* the wake-up, the question and the popup are what the code leaves out.
SlowIsNoticed ==
    \A c \in Container :
      <>[](/\ c \in active \ ignored /\ status[c] # "Failed"
           /\ ~WakeUpIsMissed /\ ~QuestionIsCovered /\ ~PopupIsOpen)
        => []<>TopIs({"ask"})

\* JsMonitor::Stop returns: the watcher thread comes to its end.
StopReturns == engine = "stopping" ~> engine = "off"

=============================================================================
