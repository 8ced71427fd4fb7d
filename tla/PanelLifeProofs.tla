--------------------------- MODULE PanelLifeProofs ---------------------------
(***************************************************************************)
(* Proofs about PanelLife, for any number of scripts and depth of the      *)
(* stack.                                                                  *)
(*                                                                         *)
(* Almost everything that nested reloads, failures and destruction could   *)
(* break is a matter of the members of the panel alone (MembersInv): every *)
(* function that a step is made of leads from such a state to another one, *)
(* whatever is on the stack.  Of the stack it takes whether a LoadScript   *)
(* is under way, in which the members are not in order yet; that nothing   *)
(* has happened since, as long as its WM_SIZE has not come (ResizeInv);    *)
(* that nothing of a panel is on the stack before it has a window          *)
(* (NotBeforeInv), and who keeps the engine under the jobs (FaultInv).     *)
(***************************************************************************)
EXTENDS PanelLife, TLAPS

(* Invariants *)

Loaded(p) == p.status = "Working"

\* A LoadScript of the stack has not come to the script yet.
Loading(s) == \E i \in DOMAIN s : s[i].kind \in Resizes

\* The members of a panel outside of the functions that change them.  In the midst
\* of LoadScript neither the error screen nor the menu agrees with the script, and
\* what came in between is executed in spite of it.
MembersInv(p, loading) ==
    /\ p \in Panel
    /\ p.global <= MaxGlobals /\ p.graphics \subseteq 1..p.global
    /\ p.owned <=> p.window \in {"open", "closing"}
    /\ p.timeouts <=> p.owned
    /\ p.owned => p.registered
    /\ p.window = "none" => p.global = 0
    /\ ~p.owned => ~p.menu /\ p.drop # "script"
    /\ Loaded(p) => p.owned /\ p.global > 0
    /\ Loaded(p) /\ ~p.disturbed => ~p.hasFailed /\ p.menu
    /\ loading \/ (p.status = "Failed" => p.hasFailed)
    /\ loading \/ Loaded(p) \/ (~p.menu /\ p.drop # "script")
    /\ loading \/ (p.window = "open" => Loaded(p) \/ p.hasFailed \/ p.dismissed)
    /\ p.fault # "assertion"
    /\ p.fault # "none" => p.window = "closed"

FrameSet == [kind : Scripts \cup Others, g : Nat,
             then : {"none", "nothing", "destroy", "reload"}]

NotBeforeInv(p, s) ==
    /\ s \in Seq(FrameSet)
    /\ p.window = "none" => \A i \in DOMAIN s : s[i].kind = "jobs"

\* A LoadScript that may still meet WM_SIZE is on top, with what it began.
ResizeInv(p, s) ==
    \A i \in DOMAIN s :
      s[i].kind = "resize" =>
        /\ i = Len(s)
        /\ p.window # "none" /\ p.owned /\ p.registered
        /\ p.menu /\ ~p.hasFailed /\ ~Loaded(p)

NoResize(s) == \A i \in DOMAIN s : s[i].kind # "resize"

FaultInv(p, s) ==
    /\ p.fault = "none" /\ AreJobsInProgress(s) => p.registered \/ p.others
    /\ p.fault = "null" => s[Len(s)].kind \in {"load", "unload", "resized"}
    /\ p.fault = "engine" => AreJobsInProgress(s) /\ ~p.others
    /\ p.fault = "dangling" => s[Len(s)].kind = "jobs" /\ ~p.registered /\ p.others

PanelInv(p, s) ==
    MembersInv(p, Loading(s)) /\ NotBeforeInv(p, s) /\ ResizeInv(p, s) /\ FaultInv(p, s)

LifeInv == PanelInv(panel, frames)

USE LifeAssumption

------------------------------------------------------------------------------
(* The functions on the members *)

\* The state of a panel in between two scripts, which is left in the same step.
Between(p, loading) ==
    /\ p \in Panel
    /\ p.global <= MaxGlobals /\ p.graphics \subseteq 1..p.global
    /\ p.window \in {"open", "closing"}
    /\ p.owned /\ p.timeouts /\ p.registered
    /\ ~Loaded(p) /\ ~p.menu /\ p.drop # "script"
    /\ loading \/ (p.status = "Failed" => p.hasFailed)
    /\ p.fault = "none"

LEMMA MembersOfAnyLoad ==
    ASSUME NEW p, NEW loading \in BOOLEAN, MembersInv(p, FALSE)
    PROVE  MembersInv(p, loading)
  BY DEF MembersInv

LEMMA UnloadedIsBetween ==
    ASSUME NEW p, NEW loading \in BOOLEAN,
           MembersInv(p, loading), p.owned, p.fault = "none"
    PROVE  Between(Unloaded(p), loading)
  <1>1. Unloaded(p) = [p EXCEPT !.status = IF @ = "Failed" THEN @ ELSE "Ready",
                                !.menu = FALSE, !.drop = "none"]
    BY DEF MembersInv, Unloaded, Finalized, Panel
  <1>2. PICK status \in {"Failed", "Ready"} :
          /\ Unloaded(p) = [p EXCEPT !.status = status, !.menu = FALSE, !.drop = "none"]
          /\ status = "Failed" => p.status = "Failed"
    BY <1>1
  <1>3. PICK q : q = Unloaded(p)
    OBVIOUS
  <1>4. p \in Panel
    BY DEF MembersInv
  <1>5. /\ q \in Panel /\ q.status = status /\ ~q.menu /\ q.drop = "none"
        /\ q.global = p.global /\ q.graphics = p.graphics /\ q.window = p.window
        /\ q.owned = p.owned /\ q.timeouts = p.timeouts
        /\ q.registered = p.registered /\ q.hasFailed = p.hasFailed /\ q.fault = p.fault
    <2>1. q = [p EXCEPT !.status = status, !.menu = FALSE, !.drop = "none"]
      BY <1>2, <1>3
    <2>2. status \in {"Ready", "Working", "Failed"} /\ "none" \in {"none", "script", "late"}
      OBVIOUS
    <2>3. q \in Panel
      BY ONLY <1>4, <2>1, <2>2 DEF Panel
    <2> QED BY ONLY <1>4, <2>1, <2>3 DEF Panel
  <1>6. Between(q, loading)
    BY <1>2, <1>5 DEF MembersInv, Between, Loaded
  <1> QED BY <1>3, <1>6

\* What PanelFail does to a panel that owns its container, and to any other.
LEMMA PanelFailed ==
    ASSUME NEW p \in Panel
    PROVE  PanelFail(p) =
             IF p.owned
             THEN [p EXCEPT !.hasFailed = TRUE, !.menu = FALSE, !.drop = "none",
                            !.status = IF p.status = "Failed" THEN "Failed" ELSE "Ready"]
             ELSE [p EXCEPT !.hasFailed = TRUE]
  BY DEF PanelFail, Unloaded, Finalized, Panel

LEMMA ContainerFailed ==
    ASSUME NEW p \in Panel
    PROVE  ContainerFail(p) =
             IF p.owned
             THEN [p EXCEPT !.hasFailed = TRUE, !.menu = FALSE, !.drop = "none",
                            !.status = "Failed"]
             ELSE [p EXCEPT !.hasFailed = TRUE, !.status = "Failed"]
  BY DEF ContainerFail, PanelFail, Unloaded, Finalized, Panel

\* A failure puts the members in order, also in the midst of LoadScript.
LEMMA FailedInv ==
    ASSUME NEW p, NEW loading \in BOOLEAN,
           MembersInv(p, loading) \/ Between(p, loading), p.fault = "none", p.owned
    PROVE  /\ MembersInv(PanelFail(p), FALSE)
           /\ PanelFail(p).window = p.window /\ PanelFail(p).registered
           /\ PanelFail(p).fault = "none"
  <1>1. p \in Panel
    BY DEF MembersInv, Between
  <1>2. PICK status \in {"Failed", "Ready"} :
          PanelFail(p) = [p EXCEPT !.hasFailed = TRUE, !.menu = FALSE, !.drop = "none",
                                   !.status = status]
    BY <1>1, PanelFailed
  <1>3. /\ p.global <= MaxGlobals /\ p.graphics \subseteq 1..p.global
        /\ p.window \in {"open", "closing"} /\ p.owned /\ p.timeouts /\ p.registered
    BY DEF MembersInv, Between
  <1>4. PanelFail(p) \in Panel
    <2>1. /\ TRUE \in BOOLEAN /\ FALSE \in BOOLEAN /\ "none" \in {"none", "script", "late"}
          /\ status \in {"Ready", "Working", "Failed"}
      OBVIOUS
    <2>2. PICK q : q = PanelFail(p)
      OBVIOUS
    <2>3. q = [p EXCEPT !.hasFailed = TRUE, !.menu = FALSE, !.drop = "none",
                        !.status = status]
      BY <1>2, <2>2
    <2>4. q \in Panel
      BY ONLY <1>1, <2>1, <2>3 DEF Panel
    <2> QED BY <2>2, <2>4
  <1> QED BY <1>1, <1>2, <1>3, <1>4 DEF MembersInv, Loaded, Panel

LEMMA ContainerFailedInv ==
    ASSUME NEW p, NEW loading \in BOOLEAN,
           MembersInv(p, loading), p.fault = "none", p.window # "none"
    PROVE  /\ MembersInv(ContainerFail(p), FALSE)
           /\ ContainerFail(p).window = p.window
           /\ ContainerFail(p).registered = p.registered
           /\ ContainerFail(p).others = p.others
           /\ ContainerFail(p).fault = "none"
  <1>1. p \in Panel
    BY DEF MembersInv
  <1>2. CASE p.owned
    <2>1. PICK q : q = ContainerFail(p)
      OBVIOUS
    <2>2. q = [p EXCEPT !.hasFailed = TRUE, !.menu = FALSE, !.drop = "none",
                        !.status = "Failed"]
      BY <1>1, <1>2, <2>1, ContainerFailed
    <2>3. /\ q \in Panel /\ q.hasFailed /\ ~q.menu /\ q.drop = "none"
          /\ q.status = "Failed" /\ q.global = p.global /\ q.graphics = p.graphics
          /\ q.window = p.window /\ q.owned = p.owned /\ q.timeouts = p.timeouts
          /\ q.registered = p.registered /\ q.others = p.others /\ q.fault = p.fault
      BY <1>1, <2>2 DEF Panel
    <2>4. MembersInv(q, FALSE)
      BY <1>2, <2>3 DEF MembersInv, Loaded
    <2> QED BY <2>1, <2>3, <2>4
  <1>3. CASE ~p.owned
    <2>1. PICK q : q = ContainerFail(p)
      OBVIOUS
    <2>2. q = [p EXCEPT !.hasFailed = TRUE, !.status = "Failed"]
      BY <1>1, <1>3, <2>1, ContainerFailed
    <2>3. /\ q \in Panel /\ q.hasFailed /\ q.menu = p.menu /\ q.drop = p.drop
          /\ q.status = "Failed" /\ q.global = p.global /\ q.graphics = p.graphics
          /\ q.window = p.window /\ q.owned = p.owned /\ q.timeouts = p.timeouts
          /\ q.registered = p.registered /\ q.others = p.others /\ q.fault = p.fault
      BY <1>1, <2>2 DEF Panel
    <2>4. MembersInv(q, FALSE)
      BY <1>3, <2>3 DEF MembersInv, Loaded
    <2> QED BY <2>1, <2>3, <2>4
  <1> QED BY <1>2, <1>3

LEMMA DestroyedInv ==
    ASSUME NEW p, NEW loading \in BOOLEAN, Between(p, loading)
    PROVE  /\ MembersInv(Destroyed(p), loading)
           /\ Destroyed(p).window = "closed" /\ Destroyed(p).registered
           /\ Destroyed(p).fault = "none"
  BY DEF MembersInv, Between, Destroyed, Loaded, Panel, Globals

LEMMA ReleasedInv ==
    ASSUME NEW p, NEW s, NEW loading \in BOOLEAN, MembersInv(p, loading),
           p.window # "none", p.fault = "none",
           AreJobsInProgress(s) => p.registered \/ p.others
    PROVE  /\ MembersInv(Released(p, s), loading)
           /\ Released(p, s).window = p.window
           /\ FaultInv(Released(p, s), s)
  <1>1. CASE p.owned \/ IsSavedBy(s)
    BY <1>1 DEF Released, FaultInv
  <1>2. CASE ~p.owned /\ ~IsSavedBy(s)
    <2>1. p.window = "closed" /\ ~Loaded(p) /\ p \in Panel
      BY <1>2 DEF MembersInv, Panel
    <2>2. Finalized(p) = p
      BY <2>1 DEF Finalized, Loaded, Panel
    <2>3. CASE AreJobsInProgress(s) /\ ~p.others
      <3>1. PICK q : q = Released(p, s)
        OBVIOUS
      <3>2. q = [p EXCEPT !.registered = FALSE, !.fault = "engine"]
        BY <3>1, <1>2, <2>2, <2>3 DEF Released
      <3>3. /\ q \in Panel /\ ~q.registered /\ q.fault = "engine"
            /\ q.global = p.global /\ q.graphics = p.graphics /\ q.window = p.window
            /\ q.owned = p.owned /\ q.timeouts = p.timeouts /\ q.menu = p.menu
            /\ q.drop = p.drop /\ q.status = p.status /\ q.hasFailed = p.hasFailed
            /\ q.dismissed = p.dismissed /\ q.others = p.others
        BY <2>1, <3>2 DEF Panel
      <3>4. MembersInv(q, loading)
        BY <1>2, <2>1, <3>3 DEF MembersInv, Loaded
      <3>5. FaultInv(q, s)
        BY <1>2, <2>3, <3>3 DEF FaultInv
      <3> QED BY <3>1, <3>3, <3>4, <3>5
    <2>4. CASE ~(AreJobsInProgress(s) /\ ~p.others)
      <3>1. PICK q : q = Released(p, s)
        OBVIOUS
      <3>2. q = [p EXCEPT !.registered = FALSE]
        BY <3>1, <1>2, <2>1, <2>2, <2>4 DEF Released, Panel
      <3>3. /\ q \in Panel /\ ~q.registered /\ q.fault = "none"
            /\ q.global = p.global /\ q.graphics = p.graphics /\ q.window = p.window
            /\ q.owned = p.owned /\ q.timeouts = p.timeouts /\ q.menu = p.menu
            /\ q.drop = p.drop /\ q.status = p.status /\ q.hasFailed = p.hasFailed
            /\ q.dismissed = p.dismissed /\ q.others = p.others
        BY <2>1, <3>2 DEF Panel
      <3>4. MembersInv(q, loading)
        BY <1>2, <2>1, <3>3 DEF MembersInv, Loaded
      <3>5. FaultInv(q, s)
        BY <1>2, <2>4, <3>3 DEF FaultInv
      <3> QED BY <3>1, <3>3, <3>4, <3>5
    <2> QED BY <2>3, <2>4
  <1> QED BY <1>1, <1>2

------------------------------------------------------------------------------
(* The stack *)

LEMMA PushedFrames ==
    ASSUME NEW s \in Seq(FrameSet), NEW f \in FrameSet
    PROVE  /\ Append(s, f) \in Seq(FrameSet)
           /\ DOMAIN Append(s, f) = DOMAIN s \cup {Len(s) + 1}
           /\ \A i \in DOMAIN s : Append(s, f)[i] = s[i] /\ i \in 1..Len(s)
           /\ Append(s, f)[Len(s) + 1] = f /\ Len(Append(s, f)) = Len(s) + 1
           /\ Len(s) \in Nat
  OBVIOUS

LEMMA PoppedFrames ==
    ASSUME NEW s \in Seq(FrameSet), s # <<>>, NEW t, t = SubSeq(s, 1, Len(s) - 1)
    PROVE  /\ t \in Seq(FrameSet)
           /\ \A i \in DOMAIN t : t[i] = s[i] /\ i \in DOMAIN s /\ i < Len(s)
           /\ Len(s) \in DOMAIN s
           /\ \A i \in DOMAIN s : i \in Nat /\ i <= Len(s) /\ s[i] \in FrameSet
           /\ \A i \in DOMAIN s : i = Len(s) \/ i \in DOMAIN t
  <1>1. Len(s) \in Nat \ {0}
    OBVIOUS
  <1>2. t \in Seq(FrameSet) /\ Len(t) = Len(s) - 1
    <2>1. t \in Seq(FrameSet)
      OBVIOUS
    <2>2. Len(s) - 1 \in Nat /\ (Len(s) - 1) - 1 + 1 = Len(s) - 1
      BY <1>1
    <2> QED BY <1>1, <2>1, <2>2
  <1>3. \A i \in 1..(Len(s) - 1) : t[i] = s[i]
    BY <1>1
  <1>4. DOMAIN t = 1..(Len(s) - 1) /\ DOMAIN s = 1..Len(s)
    BY <1>1, <1>2
  <1>5. \A i \in 1..Len(s) : s[i] \in FrameSet
    OBVIOUS
  <1> QED BY <1>1, <1>2, <1>3, <1>4, <1>5

LEMMA TopIsAFrame ==
    ASSUME frames \in Seq(FrameSet), frames # <<>>
    PROVE  /\ Top \in FrameSet /\ Pop \in Seq(FrameSet)
           /\ Len(frames) \in DOMAIN frames /\ Top = frames[Len(frames)]
           /\ \A i \in DOMAIN Pop : i \in DOMAIN frames /\ Pop[i] = frames[i]
           /\ \A i \in DOMAIN frames : i = Len(frames) \/ i \in DOMAIN Pop
  BY PoppedFrames DEF Top, Pop

\* What a frame of another kind than LoadScript and the jobs does not change.
LEMMA PushKeeps ==
    ASSUME NEW s \in Seq(FrameSet), NEW f \in FrameSet, f.kind \notin Resizes
    PROVE  /\ Loading(Append(s, f)) <=> Loading(s)
           /\ NoResize(s) => NoResize(Append(s, f))
           /\ f.kind # "jobs" => (AreJobsInProgress(Append(s, f)) <=> AreJobsInProgress(s))
  <1>1. Loading(Append(s, f)) <=> Loading(s)
    BY PushedFrames DEF Loading
  <1>2. NoResize(s) => NoResize(Append(s, f))
    BY PushedFrames DEF NoResize, Resizes
  <1>3. f.kind # "jobs" => (AreJobsInProgress(Append(s, f)) <=> AreJobsInProgress(s))
    BY PushedFrames DEF AreJobsInProgress
  <1> QED BY <1>1, <1>2, <1>3

LEMMA PopKeeps ==
    ASSUME frames \in Seq(FrameSet), frames # <<>>, ResizeInv(panel, frames)
    PROVE  /\ NoResize(Pop)
           /\ Top.kind \notin Resizes => (Loading(Pop) <=> Loading(frames))
           /\ AreJobsInProgress(Pop) => AreJobsInProgress(frames)
  <1>0. /\ \A i \in DOMAIN Pop : Pop[i] = frames[i] /\ i \in DOMAIN frames /\ i < Len(frames)
        /\ \A i \in DOMAIN frames : i = Len(frames) \/ i \in DOMAIN Pop
        /\ Len(frames) \in Nat
        /\ \A i \in DOMAIN frames : i \in Nat
    BY PoppedFrames DEF Pop
  <1>1. NoResize(Pop)
    BY <1>0 DEF NoResize, ResizeInv
  <1>2. Top.kind \notin Resizes => (Loading(Pop) <=> Loading(frames))
    BY <1>0 DEF Loading, Top
  <1>3. AreJobsInProgress(Pop) => AreJobsInProgress(frames)
    BY <1>0 DEF AreJobsInProgress
  <1> QED BY <1>1, <1>2, <1>3

\* Below another frame there is no LoadScript that waits for WM_SIZE.
LEMMA NoResizeBelow ==
    ASSUME frames \in Seq(FrameSet), ResizeInv(panel, frames),
           frames = <<>> \/ Top.kind # "resize"
    PROVE  NoResize(frames)
  BY DEF NoResize, ResizeInv, Top

\* With a window, the stack of a panel may be any.
LEMMA AnyStackOfWindow ==
    ASSUME NEW p, NEW s \in Seq(FrameSet), MembersInv(p, Loading(s)),
           p.window # "none", NoResize(s), FaultInv(p, s)
    PROVE  PanelInv(p, s)
  BY DEF PanelInv, NotBeforeInv, ResizeInv, NoResize

\* Without a fault, a container that the engine knows is all that the jobs need.
LEMMA RegisteredIsSafe ==
    ASSUME NEW p, NEW s, p.fault = "none", p.registered
    PROVE  FaultInv(p, s)
  BY DEF FaultInv

\* A load begins: LoadScript is on top of the stack now.
LEMMA LoadScriptInv ==
    ASSUME NEW p, NEW s \in Seq(FrameSet), NEW loading \in BOOLEAN,
           Between(p, loading), NoResize(s), LoadScript(p, s)
    PROVE  LifeInv'
  <1> DEFINE f == Frame("resize", 0, "none")
  <1>1. PICK drop \in BOOLEAN : panel' = LoadBegun(p, drop) /\ frames' = Append(s, f)
    BY DEF LoadScript, Push
  <1>2. PICK d \in {"script", "none"} :
          panel' = [p EXCEPT !.hasFailed = FALSE, !.drop = d, !.menu = TRUE,
                             !.dismissed = FALSE]
    BY <1>1 DEF LoadBegun, Between, Panel
  <1>3. f \in FrameSet /\ f.kind = "resize"
    BY DEF Frame, FrameSet, Others, Resizes
  <1> HIDE DEF f
  <1>4. /\ MembersInv(panel', TRUE) /\ panel'.window # "none" /\ panel'.owned
        /\ panel'.registered /\ panel'.menu /\ ~panel'.hasFailed /\ ~Loaded(panel')
        /\ panel'.fault = "none"
    BY <1>2 DEF MembersInv, Between, Loaded, Panel, Globals
  <1>5. frames' \in Seq(FrameSet) /\ Loading(frames')
    BY <1>1, <1>3, PushedFrames DEF Loading, Resizes
  <1>6. ResizeInv(panel', frames')
    BY <1>1, <1>3, <1>4, PushedFrames DEF ResizeInv, NoResize
  <1>7. FaultInv(panel', frames')
    BY <1>4, RegisteredIsSafe
  <1>8. MembersInv(panel', Loading(frames'))
    BY <1>4, <1>5 DEF MembersInv
  <1> QED BY <1>4, <1>5, <1>6, <1>7, <1>8 DEF LifeInv, PanelInv, NotBeforeInv

LEMMA ProceedInv ==
    ASSUME NEW p, NEW s \in Seq(FrameSet), NEW then,
           Between(p, Loading(s)), NoResize(s), Proceed(p, s, then)
    PROVE  LifeInv'
  <1>0. Loading(s) \in BOOLEAN
    BY DEF Loading
  <1>1. CASE panel' = [p EXCEPT !.dismissed = TRUE] /\ frames' = s
    <2>1. /\ MembersInv(panel', Loading(s)) /\ panel'.window # "none"
          /\ panel'.fault = "none" /\ panel'.registered
      BY <1>0, <1>1 DEF MembersInv, Between, Loaded, Panel, Globals
    <2> QED BY <1>1, <2>1, RegisteredIsSafe, AnyStackOfWindow DEF LifeInv
  <1>2. CASE panel' = Released(Destroyed(p), s) /\ frames' = s
    <2>1. /\ MembersInv(Destroyed(p), Loading(s))
          /\ Destroyed(p).window = "closed" /\ Destroyed(p).registered
          /\ Destroyed(p).fault = "none"
      BY <1>0, DestroyedInv
    <2>2. /\ MembersInv(panel', Loading(s)) /\ panel'.window # "none"
          /\ FaultInv(panel', s)
      BY <1>0, <1>2, <2>1, ReleasedInv
    <2> QED BY <1>2, <2>2, AnyStackOfWindow DEF LifeInv
  <1>3. CASE panel' = Refused(p) /\ frames' = s
    <2>1. p.fault = "none" /\ p.owned /\ p.window # "none"
      BY DEF Between
    <2>2. /\ MembersInv(panel', FALSE) /\ panel'.window # "none"
          /\ panel'.fault = "none" /\ panel'.registered
      BY <1>0, <1>3, <2>1, FailedInv DEF Refused
    <2>3. MembersInv(panel', Loading(s))
      BY <1>0, <2>2, MembersOfAnyLoad
    <2> QED BY <1>3, <2>2, <2>3, RegisteredIsSafe, AnyStackOfWindow DEF LifeInv
  <1>4. CASE LoadScript(p, s)
    BY <1>0, <1>4, LoadScriptInv
  <1> QED BY <1>1, <1>2, <1>3, <1>4 DEF Proceed

LEMMA UnloadScriptInv ==
    ASSUME NEW p, NEW then \in {"nothing", "destroy", "reload"},
           frames \in Seq(FrameSet), NoResize(frames),
           MembersInv(p, Loading(frames)), p.owned, p.fault = "none",
           UnloadScript(p, then)
    PROVE  LifeInv'
  <1>1. CASE IsReadyForCallback(p)
    <2> DEFINE f == Frame("unload", p.global, then)
               c == Frame("call", p.global, "none")
    <2>1. /\ f \in FrameSet /\ f.kind \notin Resizes
          /\ c \in FrameSet /\ c.kind \notin Resizes
      BY DEF Frame, FrameSet, Scripts, Others, Resizes, MembersInv, Panel
    <2>2. panel' = p /\ frames' = frames \o <<f, c>>
      BY <1>1 DEF UnloadScript
    <2> HIDE DEF f, c
    <2> DEFINE s == Append(frames, f)
    <2>3. s \in Seq(FrameSet) /\ frames' = Append(s, c)
      BY <2>1, <2>2
    <2>4. (Loading(s) <=> Loading(frames)) /\ NoResize(s)
      BY <2>1, PushKeeps
    <2> HIDE DEF s
    <2>5. /\ Loading(frames') <=> Loading(frames)
          /\ NoResize(frames') /\ frames' \in Seq(FrameSet)
      BY <2>1, <2>3, <2>4, PushKeeps, PushedFrames
    <2>6. p.window # "none" /\ p.registered /\ MembersInv(p, Loading(frames'))
      BY <2>5 DEF MembersInv
    <2> QED BY <2>2, <2>5, <2>6, RegisteredIsSafe, AnyStackOfWindow DEF LifeInv
  <1>2. CASE ~IsReadyForCallback(p)
    <2>1. Proceed(Unloaded(p), frames, then)
      BY <1>2 DEF UnloadScript
    <2>2. Between(Unloaded(p), Loading(frames))
      BY UnloadedIsBetween DEF Loading
    <2> QED BY <2>1, <2>2, ProceedInv
  <1> QED BY <1>1, <1>2

\* What a script does when it is on the stack: there is a window then.
LEMMA ScriptHasWindow ==
    ASSUME LifeInv, frames # <<>>, Top.kind # "jobs"
    PROVE  panel.window # "none"
  BY TopIsAFrame DEF LifeInv, PanelInv, NotBeforeInv

LEMMA ReturnedInv ==
    ASSUME NEW p, NEW f \in FrameSet, NEW loading \in BOOLEAN,
           MembersInv(p, loading), f.kind \in Scripts
    PROVE  /\ MembersInv(Returned(p, f), loading)
           /\ Returned(p, f).window = p.window
           /\ Returned(p, f).owned = p.owned
           /\ Returned(p, f).registered = p.registered
           /\ Returned(p, f).others = p.others
           /\ Returned(p, f).fault = p.fault
  <1>0. p \in Panel
    BY DEF MembersInv
  <1>1. CASE f.kind = "call"
    BY <1>1 DEF Returned
  <1>2. CASE f.kind = "load"
    <2>1. Returned(p, f) = [p EXCEPT !.parsing = FALSE]
      BY <1>2 DEF Returned
    <2>2. PICK q : q = Returned(p, f)
      OBVIOUS
    <2>3. /\ q \in Panel /\ q.global = p.global /\ q.graphics = p.graphics
          /\ q.window = p.window /\ q.owned = p.owned /\ q.timeouts = p.timeouts
          /\ q.menu = p.menu /\ q.drop = p.drop /\ q.status = p.status
          /\ q.hasFailed = p.hasFailed /\ q.dismissed = p.dismissed
          /\ q.disturbed = p.disturbed /\ q.registered = p.registered
          /\ q.others = p.others /\ q.fault = p.fault
      BY <1>0, <2>1, <2>2 DEF Panel
    <2>4. MembersInv(q, loading)
      BY <2>3 DEF MembersInv, Loaded
    <2> QED BY <2>2, <2>3, <2>4
  <1>3. CASE f.kind = "paint"
    <2>1. Returned(p, f) =
            [p EXCEPT !.painting = FALSE,
                      !.graphics = IF p.status = "Working" THEN @ \ {p.global} ELSE @]
      BY <1>3 DEF Returned
    <2> DEFINE drawn == IF p.status = "Working" THEN p.graphics \ {p.global}
                        ELSE p.graphics
    <2>2. drawn \subseteq p.graphics
      OBVIOUS
    <2>3. Returned(p, f) = [p EXCEPT !.painting = FALSE, !.graphics = drawn]
      BY <2>1
    <2> HIDE DEF drawn
    <2>4. Returned(p, f) \in Panel
      BY <2>2, <2>3 DEF MembersInv, Panel
    <2> QED BY <1>0, <2>2, <2>3, <2>4 DEF MembersInv, Loaded, Panel, Globals
  <1> QED BY <1>1, <1>2, <1>3 DEF Scripts

------------------------------------------------------------------------------
(* Type correctness and the members *)

LEMMA LifeInit == Init => LifeInv
  <1> SUFFICES ASSUME Init PROVE LifeInv
    OBVIOUS
  <1>1. PICK others \in BOOLEAN :
          panel = [window |-> "none", owned |-> FALSE, registered |-> FALSE,
                   timeouts |-> FALSE, status |-> "Ready", global |-> 0,
                   parsing |-> FALSE, hasFailed |-> FALSE, menu |-> FALSE,
                   drop |-> "none", disturbed |-> FALSE, dismissed |-> FALSE,
                   painting |-> FALSE, graphics |-> {}, others |-> others,
                   fault |-> "none"]
    BY DEF Init
  <1>2. panel \in Panel
    BY <1>1, Zenon DEF Panel
  <1>3. MembersInv(panel, FALSE)
    BY <1>1, <1>2 DEF MembersInv, Loaded
  <1>4. frames = <<>>
    BY DEF Init
  <1>5. ~Loading(frames) /\ ~AreJobsInProgress(frames)
    BY <1>4 DEF Loading, AreJobsInProgress
  <1>6. NotBeforeInv(panel, frames) /\ ResizeInv(panel, frames)
    BY <1>4 DEF NotBeforeInv, ResizeInv
  <1>7. FaultInv(panel, frames)
    BY <1>1, <1>5 DEF FaultInv
  <1>8. MembersInv(panel, Loading(frames))
    BY <1>3, <1>5 DEF MembersInv
  <1> QED BY <1>6, <1>7, <1>8 DEF LifeInv, PanelInv

\* A frame that is no LoadScript is pushed; of the members, only those of a paint change.
LEMMA PushInv ==
    ASSUME LifeInv, frames = <<>> \/ Top.kind # "resize",
           NEW f \in FrameSet, f.kind \notin Resizes, f.kind # "jobs",
           MembersInv(panel', Loading(frames)), panel'.window # "none",
           panel'.fault = "none", panel'.registered, frames' = Append(frames, f)
    PROVE  LifeInv'
  <1>1. frames \in Seq(FrameSet) /\ NoResize(frames)
    BY NoResizeBelow DEF LifeInv, PanelInv, NotBeforeInv
  <1>2. (Loading(frames') <=> Loading(frames)) /\ NoResize(frames') /\ frames' \in Seq(FrameSet)
    BY <1>1, PushKeeps, PushedFrames
  <1>3. MembersInv(panel', Loading(frames'))
    BY <1>2 DEF MembersInv
  <1> QED BY <1>2, <1>3, RegisteredIsSafe, AnyStackOfWindow DEF LifeInv

\* The panel meets a fault: its members and the stack stay.
LEMMA FaultKeeps ==
    ASSUME LifeInv, panel.fault = "none", panel.window = "closed",
           frames # <<>>, Top.kind # "resize", NEW fault \in {"null", "dangling"},
           Fault(fault),
           fault = "null" => Top.kind \in {"load", "unload", "resized"},
           fault = "dangling" => Top.kind = "jobs" /\ ~panel.registered /\ panel.others
    PROVE  LifeInv'
  <1>0. /\ MembersInv(panel, Loading(frames)) /\ frames \in Seq(FrameSet)
        /\ NoResize(frames) /\ panel \in Panel
    BY NoResizeBelow DEF LifeInv, PanelInv, NotBeforeInv, MembersInv
  <1>1. panel' = [panel EXCEPT !.fault = fault] /\ frames' = frames
    BY DEF Fault
  <1>2. MembersInv(panel', Loading(frames)) /\ panel'.window # "none"
    BY <1>0, <1>1 DEF MembersInv, Loaded, Panel, Globals
  <1>3. FaultInv(panel', frames)
    BY <1>0, <1>1 DEF FaultInv, Top, Panel
  <1> QED BY <1>0, <1>1, <1>2, <1>3, AnyStackOfWindow DEF LifeInv

\* A call of DefinePanel touches the drop target only.
LEMMA DefinePanelChanges ==
    ASSUME NEW g, NEW d \in BOOLEAN, DefinePanel(g, d), panel \in Panel
    PROVE  \E drop \in {"none", "script", "late"} :
             /\ panel' = [panel EXCEPT !.drop = drop] /\ frames' = frames
             /\ drop = "script" => panel.drop = "script" \/ Loaded(panel)
  <1>1. CASE ~d
    BY <1>1 DEF DefinePanel
  <1>2. CASE d /\ panel.drop # "none"
    <2>1. panel' = [panel EXCEPT !.drop = panel.drop] /\ frames' = frames
      BY <1>2 DEF DefinePanel
    <2> QED BY <2>1 DEF Panel
  <1>3. CASE d /\ panel.drop = "none" /\ IsWorking(panel) /\ g = panel.global
    <2>1. panel' = [panel EXCEPT !.drop = "script"] /\ frames' = frames
      BY <1>3 DEF DefinePanel
    <2> QED BY <1>3, <2>1 DEF IsWorking, Loaded
  <1>4. CASE d /\ panel.drop = "none" /\ ~(IsWorking(panel) /\ g = panel.global)
    <2>1. panel' = [panel EXCEPT !.drop = "late"] /\ frames' = frames
      BY <1>4 DEF DefinePanel
    <2> QED BY <2>1
  <1> QED BY <1>1, <1>2, <1>3, <1>4

\* Every action keeps the members of the panel in order.
LEMMA LifeNext == LifeInv /\ [Next]_vars => LifeInv'
  <1> SUFFICES ASSUME LifeInv, [Next]_vars PROVE LifeInv'
    OBVIOUS
  <1>0. /\ MembersInv(panel, Loading(frames)) /\ panel \in Panel
        /\ frames \in Seq(FrameSet) /\ NotBeforeInv(panel, frames)
        /\ ResizeInv(panel, frames) /\ FaultInv(panel, frames)
        /\ Loading(frames) \in BOOLEAN
    BY DEF LifeInv, PanelInv, MembersInv, NotBeforeInv, Loading
  <1>h. MayHandle => panel.fault = "none" /\ NoResize(frames)
    <2> SUFFICES ASSUME MayHandle PROVE panel.fault = "none" /\ NoResize(frames)
      OBVIOUS
    <2>1. panel.fault = "none" /\ (frames = <<>> \/ Top.kind # "resize")
      BY DEF MayHandle, TopIs, Scripts
    <2> QED BY <1>0, <2>1, NoResizeBelow
  <1>1. CASE Create
    <2> DEFINE p == [panel EXCEPT !.window = "open", !.owned = TRUE,
                                  !.registered = TRUE, !.timeouts = TRUE]
    <2>1. LoadScript(p, frames) /\ MayHandle
      BY <1>1 DEF Create
    <2>2. panel.fault = "none" /\ panel.window = "none" /\ ~Loaded(panel)
      BY <1>0, <1>1 DEF Create, MayHandle, MembersInv
    <2>3. ~panel.owned /\ ~panel.menu /\ panel.drop # "script"
      BY <1>0, <2>2 DEF MembersInv
    <2>4. Between(p, Loading(frames))
      BY <1>0, <2>2, <2>3 DEF Between, MembersInv, Loaded, Panel, Globals
    <2> HIDE DEF p
    <2> QED BY <1>0, <1>h, <2>1, <2>4, LoadScriptInv
  <1>2. CASE Call
    <2>1. /\ Frame("call", panel.global, "none") \in FrameSet
          /\ Frame("call", panel.global, "none").kind \notin Resizes \cup {"jobs"}
      BY <1>0 DEF Frame, FrameSet, Scripts, Resizes, Panel
    <2>2. /\ frames' = Append(frames, Frame("call", panel.global, "none"))
          /\ panel' = panel /\ panel.owned /\ panel.fault = "none"
          /\ frames = <<>> \/ Top.kind # "resize"
      BY <1>2 DEF Call, Push, MayHandleForScript, MayHandle, TopIs, Scripts
    <2>3. panel.window # "none" /\ panel.registered
      BY <1>0, <2>2 DEF MembersInv
    <2> QED BY <1>0, <2>1, <2>2, <2>3, PushInv
  <1>3. CASE Paint
    <2>1. /\ Frame("paint", panel.global, "none") \in FrameSet
          /\ Frame("paint", panel.global, "none").kind \notin Resizes \cup {"jobs"}
      BY <1>0 DEF Frame, FrameSet, Scripts, Resizes, Panel
    <2>2. /\ frames' = Append(frames, Frame("paint", panel.global, "none"))
          /\ panel' = [panel EXCEPT !.painting = TRUE, !.graphics = @ \cup {panel.global}]
          /\ Loaded(panel) /\ panel.owned /\ panel.fault = "none"
          /\ frames = <<>> \/ Top.kind # "resize"
      BY <1>3 DEF Paint, Push, MayHandleForScript, MayHandle, TopIs, Scripts,
                  IsReadyForCallback, Loaded
    <2>3. panel.window # "none" /\ panel.registered
      BY <1>0, <2>2 DEF MembersInv
    <2> DEFINE drawn == panel.graphics \cup {panel.global}
    <2>4. drawn \subseteq 1..panel.global /\ drawn \subseteq Globals
      BY <1>0, <2>2 DEF MembersInv, Panel, Globals
    <2>5. panel' = [panel EXCEPT !.painting = TRUE, !.graphics = drawn]
      BY <2>2
    <2> HIDE DEF drawn
    <2>6. panel' \in Panel
      BY <1>0, <2>4, <2>5 DEF Panel
    <2>7. /\ MembersInv(panel', Loading(frames)) /\ panel'.window # "none"
          /\ panel'.fault = "none" /\ panel'.registered
      BY <1>0, <2>2, <2>3, <2>4, <2>5, <2>6 DEF MembersInv, Loaded, Panel
    <2> QED BY <1>0, <2>1, <2>2, <2>7, PushInv
  <1>4. CASE RunJobs
    <2> DEFINE f == Frame("jobs", 0, "none")
    <2>1. f \in FrameSet /\ f.kind = "jobs" /\ f.kind \notin Resizes
      BY DEF Frame, FrameSet, Others, Resizes
    <2>2. /\ panel' = panel /\ frames' = Append(frames, f) /\ MayHandle
          /\ panel.registered \/ panel.others
      BY <1>4 DEF RunJobs, Push
    <2> HIDE DEF f
    <2>3. /\ frames' \in Seq(FrameSet) /\ NoResize(frames')
          /\ Loading(frames') <=> Loading(frames)
      BY <1>0, <1>h, <2>1, <2>2, PushKeeps, PushedFrames
    <2>4. ASSUME panel.window = "none", NEW i \in DOMAIN frames'
          PROVE  frames'[i].kind = "jobs"
      BY <1>0, <2>1, <2>2, <2>4, PushedFrames DEF NotBeforeInv
    <2>5. NotBeforeInv(panel', frames')
      BY <2>2, <2>3, <2>4 DEF NotBeforeInv
    <2>6. ResizeInv(panel', frames')
      BY <2>3 DEF ResizeInv, NoResize
    <2>7. MembersInv(panel', Loading(frames'))
      BY <1>0, <2>2, <2>3 DEF MembersInv
    <2>8. FaultInv(panel', frames')
      BY <1>h, <2>2 DEF FaultInv
    <2> QED BY <2>5, <2>6, <2>7, <2>8 DEF LifeInv, PanelInv
  <1>5. CASE Reload
    <2>1. panel.owned /\ MayHandle /\ UnloadScript(panel, "reload")
      BY <1>5 DEF Reload, MayHandleForScript
    <2> QED BY <1>0, <1>h, <2>1, UnloadScriptInv
  <1>6. CASE PrepareForExit
    <2>1. panel.owned /\ MayHandle /\ UnloadScript(panel, "nothing")
      BY <1>6 DEF PrepareForExit, MayHandleForScript
    <2> QED BY <1>0, <1>h, <2>1, UnloadScriptInv
  <1>7. CASE FailOutside
    <2>1. panel.owned /\ MayHandle /\ panel' = PanelFail(panel) /\ frames' = frames
      BY <1>7 DEF FailOutside, MayHandleForScript
    <2>2. panel.window # "none"
      BY <1>0, <2>1 DEF MembersInv
    <2>3. /\ MembersInv(panel', FALSE) /\ panel'.window # "none"
          /\ panel'.fault = "none" /\ panel'.registered
      BY <1>0, <1>h, <2>1, <2>2, FailedInv
    <2>4. MembersInv(panel', Loading(frames))
      BY <1>0, <2>3, MembersOfAnyLoad
    <2> QED BY <1>0, <1>h, <2>1, <2>3, <2>4, RegisteredIsSafe, AnyStackOfWindow DEF LifeInv
  <1>8. CASE Destroy
    <2> DEFINE p == [panel EXCEPT !.window = "closing"]
    <2>1. MayHandle /\ panel.window = "open" /\ UnloadScript(p, "destroy")
      BY <1>8 DEF Destroy
    <2>2. MembersInv(p, Loading(frames)) /\ p.owned /\ p.fault = "none"
      BY <1>0, <1>h, <2>1 DEF MembersInv, Loaded, Panel, Globals
    <2> HIDE DEF p
    <2> QED BY <1>0, <1>h, <2>1, <2>2, UnloadScriptInv
  <1>9. CASE Resize
    <2> DEFINE s == [frames EXCEPT ![Len(frames)].kind = "resized"]
               f == Frame("jobs", 0, "none")
    <2>1. /\ frames # <<>> /\ Top.kind = "resize" /\ panel.fault = "none"
          /\ panel' = panel /\ frames' = Append(s, f)
      BY <1>9 DEF Resize, TopIs, Push
    <2>2. f \in FrameSet /\ f.kind = "jobs" /\ f.kind \notin Resizes
      BY DEF Frame, FrameSet, Others, Resizes
    <2>3. panel.window # "none" /\ panel.registered
      BY <1>0, <2>1, TopIsAFrame DEF ResizeInv
    <2>4. /\ s \in Seq(FrameSet) /\ NoResize(s) /\ Loading(s) /\ Loading(frames)
      <3>1. /\ Len(frames) \in DOMAIN frames /\ frames[Len(frames)] \in FrameSet
            /\ frames[Len(frames)].kind = "resize"
        BY <1>0, <2>1, TopIsAFrame
      <3>2. [frames[Len(frames)] EXCEPT !.kind = "resized"] \in FrameSet
        BY <3>1 DEF FrameSet, Others, Resizes
      <3>3. s = [frames EXCEPT ![Len(frames)] = [frames[Len(frames)] EXCEPT !.kind = "resized"]]
        OBVIOUS
      <3>4. s \in Seq(FrameSet)
        BY <1>0, <3>1, <3>2, <3>3
      <3>5. /\ DOMAIN s = DOMAIN frames
            /\ s[Len(frames)].kind = "resized"
            /\ \A i \in DOMAIN frames : i # Len(frames) => s[i] = frames[i]
        BY <3>1, <3>3 DEF FrameSet
      <3> HIDE DEF s
      <3> QED BY <1>0, <3>1, <3>4, <3>5 DEF NoResize, Loading, ResizeInv, Resizes
    <2> HIDE DEF s, f
    <2>5. frames' \in Seq(FrameSet) /\ NoResize(frames') /\ Loading(frames')
      BY <2>1, <2>2, <2>4, PushKeeps, PushedFrames
    <2>6. MembersInv(panel', Loading(frames'))
      BY <1>0, <2>1, <2>4, <2>5 DEF MembersInv
    <2> QED BY <2>1, <2>3, <2>5, <2>6, RegisteredIsSafe, AnyStackOfWindow DEF LifeInv
  <1>10. CASE \E g \in Globals, drop \in BOOLEAN : DefinePanel(g, drop)
    <2>1. PICK g \in Globals, d \in BOOLEAN : DefinePanel(g, d)
      BY <1>10
    <2>2. PICK drop \in {"none", "script", "late"} :
            /\ panel' = [panel EXCEPT !.drop = drop] /\ frames' = frames
            /\ drop = "script" => panel.drop = "script" \/ Loaded(panel)
      BY <1>0, <2>1, DefinePanelChanges
    <2>3. MembersInv(panel', Loading(frames))
      BY <1>0, <2>2 DEF MembersInv, Loaded, Panel, Globals
    <2>4. NotBeforeInv(panel', frames) /\ ResizeInv(panel', frames) /\ FaultInv(panel', frames)
      BY <1>0, <2>2 DEF NotBeforeInv, ResizeInv, FaultInv, Loaded, Panel
    <2> QED BY <2>2, <2>3, <2>4 DEF LifeInv, PanelInv
  <1>11. CASE FinishLoad
    <2>1. frames # <<>> /\ Top.kind \in Resizes /\ panel.fault = "none"
      BY <1>11 DEF FinishLoad, TopIs
    <2>2. /\ Pop \in Seq(FrameSet) /\ NoResize(Pop) /\ panel.window # "none"
          /\ Loading(Pop) \in BOOLEAN
      BY <1>0, <2>1, TopIsAFrame, PopKeeps, ScriptHasWindow DEF Resizes, Loading
    <2>3. CASE ~panel.owned
      <3>1. Fault("null")
        BY <1>11, <2>3 DEF FinishLoad
      <3>2. panel.window = "closed" /\ Top.kind = "resized"
        BY <1>0, <2>1, <2>2, <2>3, TopIsAFrame DEF MembersInv, Panel, ResizeInv, Resizes
      <3> QED BY <2>1, <3>1, <3>2, FaultKeeps
    <2>4. CASE panel.owned
      <3> DEFINE p == [panel EXCEPT !.disturbed = Top.kind = "resized"]
      <3>1. \/ /\ ~IsWorking(p)
               /\ panel' = ContainerFail(p) /\ frames' = Pop
            \/ /\ IsWorking(p) \/ p.global < MaxGlobals
               /\ panel' = Executing(p)
               /\ frames' = Append(Pop, Frame("load", panel'.global, "none"))
        BY <1>11, <2>4 DEF FinishLoad, Push
      <3>2. /\ p \in Panel /\ p.owned /\ p.registered /\ p.window = panel.window
            /\ p.fault = "none" /\ p.global = panel.global /\ p.status = panel.status
            /\ p.hasFailed = panel.hasFailed /\ p.menu = panel.menu
            /\ p.graphics = panel.graphics /\ p.timeouts = panel.timeouts
            /\ p.drop = panel.drop
            /\ p.disturbed = (Top.kind = "resized")
        BY <1>0, <2>1, <2>4 DEF MembersInv, Panel
      <3>3. ~p.disturbed => p.menu /\ ~p.hasFailed
        BY <1>0, <2>1, <3>2, TopIsAFrame DEF ResizeInv, Resizes
      <3> HIDE DEF p
      <3>4. CASE /\ ~IsWorking(p)
                 /\ panel' = ContainerFail(p) /\ frames' = Pop
        <4>1. MembersInv(p, TRUE)
          BY <1>0, <2>2, <2>4, <3>2, <3>4 DEF MembersInv, IsWorking, Loaded
        <4>2. /\ MembersInv(panel', FALSE) /\ panel'.window # "none"
              /\ panel'.registered /\ panel'.fault = "none"
          BY <2>2, <3>2, <3>4, <4>1, ContainerFailedInv
        <4>3. MembersInv(panel', Loading(Pop))
          BY <2>2, <4>2, MembersOfAnyLoad
        <4> QED BY <2>2, <3>4, <4>2, <4>3, RegisteredIsSafe, AnyStackOfWindow DEF LifeInv
      <3>5. CASE /\ IsWorking(p) \/ p.global < MaxGlobals
                 /\ panel' = Executing(p)
                 /\ frames' = Append(Pop, Frame("load", panel'.global, "none"))
        <4>1. PICK n \in Nat :
                /\ panel' = [p EXCEPT !.status = "Working", !.global = n, !.parsing = TRUE]
                /\ n > 0 /\ n <= MaxGlobals /\ n >= p.global
          <5>1. CASE IsWorking(p)
            <6>1. panel' = [p EXCEPT !.status = "Working", !.global = p.global,
                                     !.parsing = TRUE]
              BY <3>2, <3>5, <5>1 DEF Executing, Initialized, IsWorking, Panel
            <6>2. PICK n \in Nat : n = p.global
              BY <3>2 DEF Panel
            <6>3. n > 0 /\ n <= MaxGlobals /\ n >= p.global
              BY <1>0, <3>2, <5>1, <6>2 DEF MembersInv, IsWorking, Loaded, Panel
            <6>4. panel' = [p EXCEPT !.status = "Working", !.global = n, !.parsing = TRUE]
              BY <6>1, <6>2
            <6> QED BY ONLY <6>3, <6>4, n \in Nat, Zenon
          <5>2. CASE ~IsWorking(p)
            <6>1. panel' = [p EXCEPT !.status = "Working", !.global = p.global + 1,
                                     !.parsing = TRUE]
              BY <3>2, <3>5, <5>2 DEF Executing, Initialized, IsWorking, Panel
            <6>2. PICK n \in Nat : n = p.global + 1
              BY <3>2 DEF Panel
            <6>3. n > 0 /\ n <= MaxGlobals /\ n >= p.global
              BY <3>2, <3>5, <5>2, <6>2 DEF Panel
            <6>4. panel' = [p EXCEPT !.status = "Working", !.global = n, !.parsing = TRUE]
              BY <6>1, <6>2
            <6> QED BY ONLY <6>3, <6>4, n \in Nat, Zenon
          <5> QED BY <5>1, <5>2
        <4>2. panel' \in Panel
          BY <3>2, <4>1 DEF Panel
        <4>3. /\ panel'.window = panel.window /\ panel'.owned /\ panel'.registered
              /\ panel'.fault = "none" /\ panel'.global = n /\ Loaded(panel')
              /\ panel'.disturbed = p.disturbed /\ panel'.menu = p.menu
              /\ panel'.hasFailed = p.hasFailed /\ panel'.timeouts = panel.timeouts
              /\ panel'.graphics = panel.graphics
          BY <3>2, <4>1 DEF Panel, Loaded
        <4>4. panel.graphics \subseteq 1..n
          BY <1>0, <3>2, <4>1 DEF MembersInv, Panel
        <4>5. MembersInv(panel', FALSE)
          BY <1>0, <2>2, <2>4, <3>3, <4>1, <4>2, <4>3, <4>4 DEF MembersInv
        <4>6. /\ Frame("load", panel'.global, "none") \in FrameSet
              /\ Frame("load", panel'.global, "none").kind \notin Resizes
          BY <4>1, <4>3 DEF Frame, FrameSet, Scripts, Resizes
        <4>7. NoResize(frames') /\ frames' \in Seq(FrameSet) /\ Loading(frames') \in BOOLEAN
          BY <2>2, <3>5, <4>6, PushKeeps, PushedFrames DEF Loading
        <4>8. MembersInv(panel', Loading(frames'))
          BY <4>5, <4>7, MembersOfAnyLoad
        <4> QED BY <2>2, <4>3, <4>7, <4>8, RegisteredIsSafe, AnyStackOfWindow DEF LifeInv
      <3> QED BY <3>1, <3>4, <3>5
    <2> QED BY <2>3, <2>4
  <1>12. CASE Return
    <2>1. frames # <<>> /\ Top.kind \in Scripts /\ panel.fault = "none"
      BY <1>12 DEF Return, TopIs
    <2>2. /\ Top \in FrameSet /\ Pop \in Seq(FrameSet) /\ panel.window # "none"
          /\ NoResize(Pop) /\ (Loading(Pop) <=> Loading(frames))
          /\ AreJobsInProgress(Pop) => AreJobsInProgress(frames)
      BY <1>0, <2>1, TopIsAFrame, PopKeeps, ScriptHasWindow DEF Scripts, Resizes
    <2>3. CASE Top.kind = "load" /\ ~panel.timeouts
      <3>1. Fault("null") /\ panel.window = "closed"
        BY <1>0, <1>12, <2>2, <2>3 DEF Return, MembersInv, Panel
      <3> QED BY <2>1, <2>3, <3>1, FaultKeeps
    <2>4. CASE ~(Top.kind = "load" /\ ~panel.timeouts)
      <3> DEFINE p == Returned(panel, Top)
      <3>1. /\ MembersInv(p, Loading(frames)) /\ p.window # "none" /\ p.fault = "none"
            /\ p.registered = panel.registered /\ p.others = panel.others
        BY <1>0, <2>1, <2>2, ReturnedInv
      <3>2. panel' = Released(p, Pop) /\ frames' = Pop
        BY <1>12, <2>4 DEF Return
      <3> HIDE DEF p
      <3>3. AreJobsInProgress(Pop) => p.registered \/ p.others
        BY <1>0, <2>1, <2>2, <3>1 DEF FaultInv
      <3>4. /\ MembersInv(panel', Loading(frames)) /\ panel'.window # "none"
            /\ FaultInv(panel', Pop)
        BY <1>0, <3>1, <3>2, <3>3, ReleasedInv
      <3>5. MembersInv(panel', Loading(Pop))
        BY <2>2, <3>4 DEF MembersInv
      <3> QED BY <2>2, <3>2, <3>4, <3>5, AnyStackOfWindow DEF LifeInv
    <2> QED BY <2>3, <2>4
  <1>13. CASE ReturnError
    <2> DEFINE r == ContainerFail(panel)
               p == Returned(r, Top)
    <2>1. frames # <<>> /\ Top.kind \in Scripts /\ panel.fault = "none"
      BY <1>13 DEF ReturnError, TopIs
    <2>2. /\ Top \in FrameSet /\ Pop \in Seq(FrameSet) /\ panel.window # "none"
          /\ NoResize(Pop) /\ Loading(Pop) \in BOOLEAN
          /\ AreJobsInProgress(Pop) => AreJobsInProgress(frames)
      BY <1>0, <2>1, TopIsAFrame, PopKeeps, ScriptHasWindow DEF Scripts, Resizes, Loading
    <2>3. /\ MembersInv(r, FALSE) /\ r.window # "none" /\ r.fault = "none"
          /\ r.registered = panel.registered /\ r.others = panel.others
      BY <1>0, <2>1, <2>2, ContainerFailedInv
    <2>4. panel' = Released(p, Pop) /\ frames' = Pop
      BY <1>13 DEF ReturnError
    <2> HIDE DEF r
    <2>5. /\ MembersInv(p, FALSE) /\ p.window # "none" /\ p.fault = "none"
          /\ p.registered = panel.registered /\ p.others = panel.others
      BY <2>1, <2>2, <2>3, ReturnedInv
    <2> HIDE DEF p
    <2>6. AreJobsInProgress(Pop) => p.registered \/ p.others
      BY <1>0, <2>1, <2>2, <2>5 DEF FaultInv
    <2>7. /\ MembersInv(panel', FALSE) /\ panel'.window # "none"
          /\ FaultInv(panel', Pop)
      BY <2>4, <2>5, <2>6, ReleasedInv
    <2>8. MembersInv(panel', Loading(Pop))
      BY <2>2, <2>7, MembersOfAnyLoad
    <2> QED BY <2>2, <2>4, <2>7, <2>8, AnyStackOfWindow DEF LifeInv
  <1>14. CASE JobsEnd
    <2>1. /\ frames # <<>> /\ frames' = Pop /\ panel' = panel
          /\ Top.kind = "jobs" /\ panel.fault = "none"
      BY <1>14 DEF JobsEnd, TopIs
    <2>2. /\ Pop \in Seq(FrameSet) /\ NoResize(Pop) /\ (Loading(Pop) <=> Loading(frames))
          /\ AreJobsInProgress(Pop) => AreJobsInProgress(frames)
          /\ \A i \in DOMAIN Pop : i \in DOMAIN frames /\ Pop[i] = frames[i]
      BY <1>0, <2>1, TopIsAFrame, PopKeeps DEF Resizes
    <2>3. MembersInv(panel, Loading(Pop))
      BY <1>0, <2>2 DEF MembersInv
    <2>4. NotBeforeInv(panel, Pop) /\ ResizeInv(panel, Pop) /\ FaultInv(panel, Pop)
      BY <1>0, <2>1, <2>2 DEF NotBeforeInv, ResizeInv, NoResize, FaultInv
    <2> QED BY <2>1, <2>3, <2>4 DEF LifeInv, PanelInv
  <1>15. CASE JobsFail
    <2>1. frames # <<>> /\ Top.kind = "jobs" /\ panel.global > 0 /\ panel.fault = "none"
      BY <1>15 DEF JobsFail, TopIs
    <2>2. /\ panel.window # "none" /\ Pop \in Seq(FrameSet) /\ NoResize(Pop)
          /\ Loading(Pop) \in BOOLEAN
      BY <1>0, <2>1, TopIsAFrame, PopKeeps DEF MembersInv, Panel, Loading
    <2>3. CASE panel.registered
      <3>1. panel' = ContainerFail(panel) /\ frames' = Pop
        BY <1>15, <2>3 DEF JobsFail
      <3>2. /\ MembersInv(panel', FALSE) /\ panel'.window # "none"
            /\ panel'.fault = "none" /\ panel'.registered
        BY <1>0, <2>1, <2>2, <2>3, <3>1, ContainerFailedInv
      <3>3. MembersInv(panel', Loading(Pop))
        BY <2>2, <3>2, MembersOfAnyLoad
      <3> QED BY <2>2, <3>1, <3>2, <3>3, RegisteredIsSafe, AnyStackOfWindow DEF LifeInv
    <2>4. CASE ~panel.registered
      <3>1. Fault("dangling")
        BY <1>15, <2>4 DEF JobsFail
      <3>2. panel.window = "closed"
        BY <1>0, <2>2, <2>4 DEF MembersInv, Panel
      <3>3. AreJobsInProgress(frames)
        BY <1>0, <2>1, TopIsAFrame DEF AreJobsInProgress
      <3>4. panel.others
        BY <1>0, <2>1, <2>4, <3>3 DEF FaultInv
      <3> QED BY <2>1, <2>4, <3>1, <3>2, <3>4, FaultKeeps
    <2> QED BY <2>3, <2>4
  <1>16. CASE FinishUnload
    <2>1. frames # <<>> /\ Top.kind = "unload" /\ panel.fault = "none"
      BY <1>16 DEF FinishUnload, TopIs
    <2>2. /\ panel.window # "none" /\ Pop \in Seq(FrameSet) /\ NoResize(Pop)
          /\ Loading(Pop) <=> Loading(frames)
      BY <1>0, <2>1, TopIsAFrame, PopKeeps, ScriptHasWindow DEF Resizes
    <2>3. CASE panel.owned
      <3>1. Proceed(Unloaded(panel), Pop, Top.then)
        BY <1>16, <2>3 DEF FinishUnload
      <3>2. Between(Unloaded(panel), Loading(frames))
        BY <1>0, <2>1, <2>3, UnloadedIsBetween
      <3>3. Between(Unloaded(panel), Loading(Pop))
        BY <2>2, <3>2 DEF Between
      <3> QED BY <2>2, <3>1, <3>3, ProceedInv
    <2>4. CASE ~panel.owned
      <3>1. Fault("null")
        BY <1>16, <2>4 DEF FinishUnload
      <3>2. panel.window = "closed"
        BY <1>0, <2>2, <2>4 DEF MembersInv, Panel
      <3> QED BY <2>1, <3>1, <3>2, FaultKeeps
    <2> QED BY <2>3, <2>4
  <1>17. CASE UNCHANGED vars
    BY <1>0, <1>17 DEF vars, LifeInv, PanelInv
  <1> QED
    BY <1>1, <1>2, <1>3, <1>4, <1>5, <1>6, <1>7, <1>8, <1>9, <1>10, <1>11, <1>12,
       <1>13, <1>14, <1>15, <1>16, <1>17 DEF Next

LEMMA LifeIsInvariant == Spec => []LifeInv
  BY LifeInit, LifeNext, PTL DEF Spec

\* The members and the stack of a panel keep their types.
THEOREM TypeCorrect == Spec => []TypeOK
  <1>1. LifeInv => TypeOK
    BY DEF LifeInv, PanelInv, MembersInv, NotBeforeInv, TypeOK, FrameSet
  <1> QED BY <1>1, LifeIsInvariant, PTL

\* Through any nesting of loads, failures and unloads, the error screen covers the
\* panel when its script has failed and never covers one that runs, unless promise
\* jobs ran in the midst of that script's LoadScript, at its WM_SIZE.
THEOREM ErrorsAreShown == Spec => []ErrorIsShown
  <1>1. LifeInv => ErrorIsShown
    BY DEF LifeInv, PanelInv, MembersInv, ErrorIsShown, BeingLoaded, Loading, Loaded,
           IsWorking
  <1> QED BY <1>1, LifeIsInvariant, PTL

\* No way in which a script ends leaves its menu commands or its own drop target; what
\* it asks for after its end (DefinePanel) is not its own.  While it runs it has them,
\* with the exception that ErrorsAreShown makes.
THEOREM NothingStays == Spec => []NothingIsLeft
  <1>1. LifeInv => NothingIsLeft
    BY DEF LifeInv, PanelInv, MembersInv, NothingIsLeft, BeingLoaded, Loading, Loaded,
           IsWorking
  <1> QED BY <1>1, LifeIsInvariant, PTL

\* An open panel runs a script or shows an error, however it came to be idle.
THEOREM OpenPanelsLive == Spec => []NeverSilentlyDead
  <1> SUFFICES ASSUME LifeInv, frames = <<>>, panel.window = "open"
               PROVE  panel.status = "Working" \/ panel.hasFailed \/ panel.dismissed
    BY LifeIsInvariant, PTL DEF NeverSilentlyDead
  <1>1. ~Loading(frames)
    BY DEF Loading
  <1> QED BY <1>1 DEF LifeInv, PanelInv, MembersInv, Loaded

\* The menu never meets a panel twice.  Null members are met only where a load or an
\* unload ends under which the window was destroyed, the engine is taken only from the
\* jobs of its last panel, and a dangling container is met only by a promise that is
\* rejected once the panel is gone, while other panels keep the engine.
THEOREM FaultsAreKnown == Spec => []OnlyKnownFaults
  <1>1. LifeInv => OnlyKnownFaults
    BY DEF LifeInv, PanelInv, MembersInv, FaultInv, OnlyKnownFaults, Top, Panel
  <1> QED BY <1>1, LifeIsInvariant, PTL

------------------------------------------------------------------------------
(* What the stack says of the panel *)

\* Every load has a global object of its own, later than those below it; while the
\* current one is on the stack, its script cannot be called.  A LoadScript that has not
\* come to its script finds a panel without one, or one of a load above it.
LoadsInv(p, s) ==
    /\ \A i \in DOMAIN s : s[i].kind \in Scripts => s[i].g <= p.global
    /\ \A i, j \in DOMAIN s :
         i < j /\ s[i].kind = "load" /\ s[j].kind = "load" => s[i].g < s[j].g
    /\ \A i, j \in DOMAIN s :
         i < j /\ s[i].kind = "load" /\ s[j].kind \in Resizes /\ Loaded(p)
           => s[i].g < p.global
    /\ \A i \in DOMAIN s :
         s[i].kind = "load" /\ s[i].g = p.global /\ Loaded(p) => p.parsing
    /\ \A i, j \in DOMAIN s :
         i < j /\ s[i].kind = "load" /\ s[j].kind \in {"call", "paint"}
           => s[i].g # s[j].g

\* One paint at a time; the script that runs has a Graphics during its own.
PaintsInv(p, s) ==
    /\ p.painting <=> \E i \in DOMAIN s : s[i].kind = "paint"
    /\ \A i, j \in DOMAIN s : s[i].kind = "paint" /\ s[j].kind = "paint" => i = j
    /\ Loaded(p) =>
         (p.global \in p.graphics
            <=> \E i \in DOMAIN s : s[i].kind = "paint" /\ s[i].g = p.global)

StackInv(p, s) == LoadsInv(p, s) /\ PaintsInv(p, s)

\* The panel q has the script of p, or none.
Quieter(p, q) ==
    /\ q.global = p.global /\ q.parsing = p.parsing
    /\ q.painting = p.painting /\ q.graphics = p.graphics
    /\ Loaded(q) => Loaded(p)

LEMMA QuietStack ==
    ASSUME NEW p, NEW q, NEW s, StackInv(p, s), Quieter(p, q)
    PROVE  StackInv(q, s)
  <1>1. LoadsInv(q, s)
    BY DEF StackInv, LoadsInv, Quieter
  <1>2. PaintsInv(q, s)
    BY DEF StackInv, PaintsInv, Quieter
  <1> QED BY <1>1, <1>2 DEF StackInv

LEMMA PushOther ==
    ASSUME NEW p, NEW s \in Seq(FrameSet), NEW f \in FrameSet, StackInv(p, s),
           f.kind \in Others, f.kind \in Resizes => ~Loaded(p)
    PROVE  StackInv(p, Append(s, f))
  <1>1. LoadsInv(p, Append(s, f))
    <2>1. f.kind \notin Scripts
      BY DEF Others, Resizes, Scripts
    <2> QED BY <2>1, PushedFrames DEF StackInv, LoadsInv, Scripts, Resizes
  <1>2. PaintsInv(p, Append(s, f))
    <2>1. f.kind # "paint"
      BY DEF Others, Resizes
    <2> QED BY <2>1, PushedFrames DEF StackInv, PaintsInv
  <1> QED BY <1>1, <1>2 DEF StackInv

\* WM_SIZE is noted in the frame of LoadScript.
LEMMA ResizedStack ==
    ASSUME NEW p, NEW s \in Seq(FrameSet), NEW t \in Seq(FrameSet), StackInv(p, s),
           DOMAIN t = DOMAIN s,
           \A i \in DOMAIN s : \/ t[i] = s[i]
                               \/ t[i].kind \in Resizes /\ s[i].kind \in Resizes
    PROVE  StackInv(p, t)
  <1>1. \A i \in DOMAIN s :
          /\ t[i].kind \in Resizes <=> s[i].kind \in Resizes
          /\ t[i].kind \notin Resizes => t[i] = s[i]
    OBVIOUS
  <1>2. LoadsInv(p, t)
    BY <1>1 DEF StackInv, LoadsInv, Scripts, Resizes
  <1>3. PaintsInv(p, t)
    <2>1. \A i \in DOMAIN s : t[i].kind = "paint" <=> s[i].kind = "paint"
      BY <1>1 DEF Resizes
    <2>2. \A i \in DOMAIN s : t[i].kind = "paint" => t[i].g = s[i].g
      BY <1>1 DEF Resizes
    <2> QED BY <2>1, <2>2 DEF StackInv, PaintsInv
  <1> QED BY <1>2, <1>3 DEF StackInv

LEMMA PushCall ==
    ASSUME NEW p \in Panel, NEW s \in Seq(FrameSet), NEW f \in FrameSet, StackInv(p, s),
           f.kind = "call", f.g = p.global, IsReadyForCallback(p)
    PROVE  StackInv(p, Append(s, f))
  <1>1. LoadsInv(p, Append(s, f))
    <2>1. Loaded(p) /\ ~p.parsing /\ p.global \in Nat
      BY DEF IsReadyForCallback, Loaded, Panel
    <2> QED BY <2>1, PushedFrames DEF StackInv, LoadsInv, Scripts, Resizes
  <1>2. PaintsInv(p, Append(s, f))
    BY PushedFrames DEF StackInv, PaintsInv
  <1> QED BY <1>1, <1>2 DEF StackInv

LEMMA PushPaint ==
    ASSUME NEW p \in Panel, NEW q, NEW s \in Seq(FrameSet), NEW f \in FrameSet,
           StackInv(p, s), f.kind = "paint", f.g = p.global, IsReadyForCallback(p),
           ~p.painting, q.painting, q.global = p.global, q.parsing = p.parsing,
           q.status = p.status, q.graphics = p.graphics \cup {p.global}
    PROVE  StackInv(q, Append(s, f))
  <1>1. LoadsInv(q, Append(s, f))
    <2>1. Loaded(p) /\ ~p.parsing /\ p.global \in Nat
      BY DEF IsReadyForCallback, Loaded, Panel
    <2> QED BY <2>1, PushedFrames DEF StackInv, LoadsInv, Scripts, Resizes, Loaded
  <1>2. PaintsInv(q, Append(s, f))
    <2>1. \A i \in DOMAIN s : s[i].kind # "paint"
      BY DEF StackInv, PaintsInv
    <2> QED BY <2>1, PushedFrames DEF PaintsInv
  <1> QED BY <1>1, <1>2 DEF StackInv

\* A script begins to run: in a global object of its own, or in that of a load that came
\* in between and has ended.
LEMMA PushLoad ==
    ASSUME NEW p \in Panel, NEW q, NEW s \in Seq(FrameSet), NEW f \in FrameSet,
           StackInv(p, s), f.kind = "load", f.g = q.global,
           p.graphics \subseteq 1..p.global, q.parsing,
           q.painting = p.painting, q.graphics = p.graphics,
           \/ q.global = p.global + 1
           \/ /\ q.global = p.global /\ Loaded(p)
              /\ \A i \in DOMAIN s : s[i].kind = "load" => s[i].g < p.global
    PROVE  StackInv(q, Append(s, f))
  <1>0. p.global \in Nat /\ \A i \in DOMAIN s : s[i].g \in Nat
    <2>1. \A i \in DOMAIN s : s[i] \in FrameSet
      OBVIOUS
    <2> QED BY <2>1 DEF Panel, FrameSet
  <1>1. LoadsInv(q, Append(s, f))
    <2>1. /\ \A i \in DOMAIN s : s[i].kind \in Scripts => s[i].g <= q.global
          /\ \A i \in DOMAIN s : s[i].kind = "load" => s[i].g < q.global
      BY <1>0 DEF StackInv, LoadsInv, Scripts
    <2> QED BY <1>0, <2>1, PushedFrames DEF StackInv, LoadsInv, Scripts, Resizes
  <1>2. PaintsInv(q, Append(s, f))
    <2>1. CASE q.global = p.global + 1
      <3>1. \A i \in DOMAIN s : s[i].kind = "paint" => s[i].g <= p.global
        BY DEF StackInv, LoadsInv, Scripts
      <3>2. q.global \notin q.graphics
        BY <1>0, <2>1
      <3> QED BY <1>0, <2>1, <3>1, <3>2, PushedFrames DEF StackInv, PaintsInv
    <2>2. CASE q.global = p.global /\ Loaded(p)
      BY <2>2, PushedFrames DEF StackInv, PaintsInv
    <2> QED BY <2>1, <2>2
  <1> QED BY <1>1, <1>2 DEF StackInv

\* A frame other than a paint is popped.
LEMMA PopFrame ==
    ASSUME NEW p, NEW s \in Seq(FrameSet), s # <<>>, StackInv(p, s),
           s[Len(s)].kind # "paint"
    PROVE  StackInv(p, SubSeq(s, 1, Len(s) - 1))
  <1> DEFINE t == SubSeq(s, 1, Len(s) - 1)
  <1>0. /\ \A i \in DOMAIN t : t[i] = s[i] /\ i \in DOMAIN s
        /\ \A i \in DOMAIN s : i = Len(s) \/ i \in DOMAIN t
    BY PoppedFrames
  <1> HIDE DEF t
  <1>1. LoadsInv(p, t)
    BY <1>0 DEF StackInv, LoadsInv
  <1>2. PaintsInv(p, t)
    BY <1>0 DEF StackInv, PaintsInv
  <1> QED BY <1>1, <1>2 DEF StackInv, t

\* What the end of a script leaves, whatever its frame.
LEMMA PopScript ==
    ASSUME NEW p \in Panel, NEW s \in Seq(FrameSet), s # <<>>, StackInv(p, s),
           s[Len(s)].kind \in Scripts
    PROVE  StackInv(Returned(p, s[Len(s)]), SubSeq(s, 1, Len(s) - 1))
  <1> DEFINE t == SubSeq(s, 1, Len(s) - 1)
             f == s[Len(s)]
             q == Returned(p, f)
  <1>0. /\ \A i \in DOMAIN s : i = Len(s) \/ i \in DOMAIN t
        /\ \A i \in DOMAIN t : t[i] = s[i] /\ i < Len(s) /\ i \in DOMAIN s
        /\ Len(s) \in DOMAIN s
        /\ \A i \in DOMAIN s : i \in Nat /\ i <= Len(s) /\ s[i].g \in Nat
        /\ p.global \in Nat
    <2>1. \A i \in DOMAIN s : s[i] \in FrameSet
      OBVIOUS
    <2> QED BY <2>1, PoppedFrames DEF FrameSet, Panel
  <1>1. CASE f.kind = "call"
    <2>1. q = p
      BY <1>1 DEF Returned
    <2> QED BY <1>1, <2>1, PopFrame
  <1>2. CASE f.kind = "load"
    <2>1. q = [p EXCEPT !.parsing = FALSE]
      BY <1>2 DEF Returned
    <2>2. StackInv(p, t)
      BY <1>2, PopFrame
    <2>3. \A i \in DOMAIN t : t[i].kind = "load" => t[i].g < p.global
      <3>1. f.g <= p.global /\ f.g \in Nat
        BY <1>0, <1>2 DEF StackInv, LoadsInv, Scripts
      <3>2. ASSUME NEW i \in DOMAIN t, t[i].kind = "load"
            PROVE  s[i].g < f.g /\ s[i].g \in Nat
        BY <1>0, <1>2, <3>2 DEF StackInv, LoadsInv
      <3> HIDE DEF f, t
      <3> QED BY <1>0, <3>1, <3>2
    <2>4. q.global = p.global /\ q.painting = p.painting /\ q.graphics = p.graphics
          /\ q.status = p.status
      BY <2>1 DEF Panel
    <2> HIDE DEF t, q, f
    <2>5. LoadsInv(q, t)
      BY <1>0, <2>2, <2>3, <2>4 DEF StackInv, LoadsInv
    <2>6. PaintsInv(q, t)
      BY <2>2, <2>4 DEF StackInv, PaintsInv, Loaded
    <2> QED BY <2>5, <2>6 DEF StackInv, t, q, f
  <1>3. CASE f.kind = "paint"
    <2> DEFINE drawn == IF p.status = "Working" THEN p.graphics \ {p.global}
                        ELSE p.graphics
    <2>1. q = [p EXCEPT !.painting = FALSE, !.graphics = drawn]
      BY <1>3 DEF Returned
    <2> HIDE DEF drawn
    <2>2. /\ q.global = p.global /\ ~q.painting /\ q.graphics = drawn
          /\ q.status = p.status /\ q.parsing = p.parsing
      BY <2>1 DEF Panel
    <2>3. \A i \in DOMAIN t : t[i].kind # "paint"
      BY <1>0, <1>3 DEF StackInv, PaintsInv
    <2> HIDE DEF t, q, f
    <2>4. LoadsInv(q, t)
      BY <1>0, <2>2 DEF StackInv, LoadsInv, Loaded
    <2>5. PaintsInv(q, t)
      BY <2>2, <2>3 DEF PaintsInv, Loaded, drawn
    <2> QED BY <2>4, <2>5 DEF StackInv, t, q, f
  <1> QED BY <1>1, <1>2, <1>3 DEF Scripts

LEMMA QuietFunctions ==
    ASSUME NEW p \in Panel, NEW s
    PROVE  /\ Quieter(p, Unloaded(p)) /\ Quieter(p, PanelFail(p))
           /\ Quieter(p, ContainerFail(p)) /\ Quieter(p, Destroyed(p))
           /\ Quieter(p, Released(p, s))
  <1>1. Quieter(p, Unloaded(p))
    BY DEF Quieter, Unloaded, Finalized, Loaded, Panel
  <1>2. Quieter(p, PanelFail(p))
    BY DEF Quieter, PanelFail, Unloaded, Finalized, Loaded, Panel
  <1>3. Quieter(p, ContainerFail(p))
    BY DEF Quieter, ContainerFail, PanelFail, Unloaded, Finalized, Loaded, Panel
  <1>4. Quieter(p, Destroyed(p))
    BY DEF Quieter, Destroyed, Loaded, Panel
  <1>5. Quieter(p, Released(p, s))
    BY DEF Quieter, Released, Finalized, Loaded, Panel
  <1> QED BY <1>1, <1>2, <1>3, <1>4, <1>5

\* The container goes with the last script of a panel that is gone.
SavedInv(p, s) == p.window # "none" => (p.registered <=> p.owned \/ IsSavedBy(s))

LEMMA ReleasedIsSaved ==
    ASSUME NEW p \in Panel, NEW s, p.owned => p.registered, IsSavedBy(s) => p.registered
    PROVE  SavedInv(Released(p, s), s)
  BY DEF SavedInv, Released, Finalized, Panel

LEMMA LoadScriptStack ==
    ASSUME NEW p, NEW s \in Seq(FrameSet), NEW loading, Between(p, loading),
           LoadScript(p, s), StackInv(p, s)
    PROVE  StackInv(panel', frames') /\ panel'.owned /\ panel'.registered
  <1> DEFINE f == Frame("resize", 0, "none")
  <1>1. PICK drop \in BOOLEAN : panel' = LoadBegun(p, drop) /\ frames' = Append(s, f)
    BY DEF LoadScript, Push
  <1>2. PICK d \in {"script", "none"} :
          panel' = [p EXCEPT !.hasFailed = FALSE, !.drop = d, !.menu = TRUE,
                             !.dismissed = FALSE]
    BY <1>1 DEF LoadBegun, Between, Panel
  <1>3. f \in FrameSet /\ f.kind \in Others
    BY DEF Frame, FrameSet, Others, Resizes
  <1> HIDE DEF f
  <1>4. Quieter(p, panel') /\ ~Loaded(panel') /\ panel'.owned /\ panel'.registered
    BY <1>2 DEF Quieter, Between, Loaded, Panel
  <1> QED BY <1>1, <1>3, <1>4, QuietStack, PushOther

LEMMA ProceedStack ==
    ASSUME NEW p, NEW s \in Seq(FrameSet), NEW then, NEW loading \in BOOLEAN,
           Between(p, loading), Proceed(p, s, then), StackInv(p, s)
    PROVE  StackInv(panel', frames') /\ SavedInv(panel', frames')
  <1>0. p \in Panel /\ p.owned /\ p.registered
    BY DEF Between
  <1>1. CASE panel' = [p EXCEPT !.dismissed = TRUE] /\ frames' = s
    <2>1. Quieter(p, panel') /\ panel'.owned /\ panel'.registered
      BY <1>0, <1>1 DEF Quieter, Loaded, Panel
    <2> QED BY <1>1, <2>1, QuietStack DEF SavedInv
  <1>2. CASE panel' = Released(Destroyed(p), s) /\ frames' = s
    <2>1. Destroyed(p) \in Panel
      BY DestroyedInv DEF MembersInv
    <2>2. Destroyed(p).registered
      BY <1>0 DEF Destroyed, Panel
    <2>3. StackInv(Destroyed(p), s)
      BY <1>0, QuietFunctions, QuietStack
    <2>4. StackInv(Released(Destroyed(p), s), s)
      BY <2>1, <2>3, QuietFunctions, QuietStack
    <2> QED BY <1>2, <2>1, <2>2, <2>4, ReleasedIsSaved
  <1>3. CASE panel' = Refused(p) /\ frames' = s
    <2>1. StackInv(PanelFail(p), s)
      BY <1>0, QuietFunctions, QuietStack
    <2>2. PanelFail(p).owned /\ PanelFail(p).registered
      BY <1>0 DEF PanelFail, Unloaded, Finalized, Panel
    <2> QED BY <1>3, <2>1, <2>2 DEF Refused, SavedInv
  <1>4. CASE LoadScript(p, s)
    BY <1>4, LoadScriptStack DEF SavedInv
  <1> QED BY <1>1, <1>2, <1>3, <1>4 DEF Proceed

LEMMA UnloadScriptStack ==
    ASSUME NEW p, NEW then \in {"nothing", "destroy", "reload"},
           NEW loading \in BOOLEAN, frames \in Seq(FrameSet),
           MembersInv(p, loading), p.owned, p.fault = "none",
           UnloadScript(p, then), StackInv(p, frames)
    PROVE  StackInv(panel', frames') /\ SavedInv(panel', frames')
  <1>0. p \in Panel /\ p.registered
    BY DEF MembersInv
  <1>1. CASE IsReadyForCallback(p)
    <2> DEFINE f == Frame("unload", p.global, then)
               c == Frame("call", p.global, "none")
    <2>1. /\ f \in FrameSet /\ f.kind \in Others \ Resizes
          /\ c \in FrameSet /\ c.kind = "call" /\ c.g = p.global
      BY <1>0 DEF Frame, FrameSet, Scripts, Others, Resizes, Panel
    <2>2. panel' = p /\ frames' = frames \o <<f, c>>
      BY <1>1 DEF UnloadScript
    <2> HIDE DEF f, c
    <2>3. frames' = Append(Append(frames, f), c) /\ Append(frames, f) \in Seq(FrameSet)
      BY <2>1, <2>2
    <2>4. StackInv(p, Append(frames, f))
      BY <2>1, PushOther
    <2>5. StackInv(p, frames')
      BY <1>0, <1>1, <2>1, <2>3, <2>4, PushCall
    <2> QED BY <1>0, <2>2, <2>5 DEF SavedInv
  <1>2. CASE ~IsReadyForCallback(p)
    <2>1. Proceed(Unloaded(p), frames, then)
      BY <1>2 DEF UnloadScript
    <2>2. StackInv(Unloaded(p), frames)
      BY <1>0, QuietFunctions, QuietStack
    <2> QED BY <2>1, <2>2, UnloadedIsBetween, ProceedStack
  <1> QED BY <1>1, <1>2

FullInv == LifeInv /\ StackInv(panel, frames) /\ SavedInv(panel, frames)

LEMMA FullInit == Init => FullInv
  <1> SUFFICES ASSUME Init PROVE FullInv
    OBVIOUS
  <1>1. frames = <<>> /\ ~panel.painting /\ panel.status = "Ready" /\ panel.window = "none"
    BY DEF Init
  <1>2. StackInv(panel, frames)
    BY <1>1 DEF StackInv, LoadsInv, PaintsInv, Loaded
  <1> QED BY <1>1, <1>2, LifeInit DEF FullInv, SavedInv

\* Whether scripts are on the stack does not depend on a frame of another kind.
LEMMA SavedBelowTop ==
    ASSUME frames \in Seq(FrameSet), frames # <<>>, Top.kind \notin Scripts
    PROVE  IsSavedBy(Pop) <=> IsSavedBy(frames)
  <1>1. /\ \A i \in DOMAIN Pop : Pop[i] = frames[i] /\ i \in DOMAIN frames
        /\ \A i \in DOMAIN frames : i = Len(frames) \/ i \in DOMAIN Pop
    BY PoppedFrames DEF Pop
  <1> QED BY <1>1 DEF IsSavedBy, Top

\* A fault changes neither the stack nor what it says of the panel.
LEMMA FaultStack ==
    ASSUME NEW fault, Fault(fault), panel \in Panel,
           StackInv(panel, frames), SavedInv(panel, frames)
    PROVE  StackInv(panel', frames') /\ SavedInv(panel', frames')
  <1>1. panel' = [panel EXCEPT !.fault = fault] /\ frames' = frames
    BY DEF Fault
  <1>2. /\ Quieter(panel, panel') /\ panel'.window = panel.window
        /\ panel'.owned = panel.owned /\ panel'.registered = panel.registered
    BY <1>1 DEF Quieter, Loaded, Panel
  <1> QED BY <1>1, <1>2, QuietStack DEF SavedInv

\* Every action keeps the stack and the members in agreement.
LEMMA FullNext == FullInv /\ [Next]_vars => FullInv'
  <1> SUFFICES ASSUME FullInv, [Next]_vars
               PROVE  StackInv(panel', frames') /\ SavedInv(panel', frames')
    BY LifeNext DEF FullInv
  <1>0. /\ LifeInv /\ MembersInv(panel, Loading(frames)) /\ Loading(frames) \in BOOLEAN
        /\ panel \in Panel /\ frames \in Seq(FrameSet) /\ ResizeInv(panel, frames)
        /\ StackInv(panel, frames) /\ SavedInv(panel, frames)
    BY DEF FullInv, LifeInv, PanelInv, MembersInv, NotBeforeInv, Loading
  <1>1. CASE Create
    <2> DEFINE p == [panel EXCEPT !.window = "open", !.owned = TRUE,
                                  !.registered = TRUE, !.timeouts = TRUE]
    <2>1. LoadScript(p, frames)
      BY <1>1 DEF Create
    <2>2. panel.fault = "none" /\ panel.window = "none" /\ ~Loaded(panel)
      BY <1>0, <1>1 DEF Create, MayHandle, MembersInv
    <2>3. Between(p, Loading(frames))
      <3>1. ~panel.owned /\ ~panel.menu /\ panel.drop # "script"
        BY <1>0, <2>2 DEF MembersInv
      <3> QED BY <1>0, <2>2, <3>1 DEF Between, MembersInv, Loaded, Panel, Globals
    <2>4. Quieter(panel, p)
      BY <1>0 DEF Quieter, Loaded, Panel
    <2> HIDE DEF p
    <2>5. StackInv(p, frames)
      BY <1>0, <2>4, QuietStack
    <2> QED BY <1>0, <2>1, <2>3, <2>5, LoadScriptStack DEF SavedInv
  <1>2. CASE Call
    <2> DEFINE c == Frame("call", panel.global, "none")
    <2>1. c \in FrameSet /\ c.kind = "call" /\ c.g = panel.global
      BY <1>0 DEF Frame, FrameSet, Scripts, Panel
    <2>2. /\ frames' = Append(frames, c) /\ panel' = panel
          /\ IsReadyForCallback(panel) /\ panel.owned
      BY <1>2 DEF Call, MayHandleForScript, Push
    <2>3. panel.registered
      BY <1>0, <2>2 DEF MembersInv
    <2> HIDE DEF c
    <2> QED BY <1>0, <2>1, <2>2, <2>3, PushCall DEF SavedInv
  <1>3. CASE Paint
    <2> DEFINE c == Frame("paint", panel.global, "none")
    <2>1. c \in FrameSet /\ c.kind = "paint" /\ c.g = panel.global
      BY <1>0 DEF Frame, FrameSet, Scripts, Panel
    <2>2. /\ frames' = Append(frames, c) /\ ~panel.painting
          /\ panel' = [panel EXCEPT !.painting = TRUE, !.graphics = @ \cup {panel.global}]
          /\ IsReadyForCallback(panel) /\ panel.owned
      BY <1>3 DEF Paint, MayPaint, MayHandleForScript, Push
    <2>3. panel.registered
      BY <1>0, <2>2 DEF MembersInv
    <2>4. /\ panel'.painting /\ panel'.global = panel.global
          /\ panel'.parsing = panel.parsing /\ panel'.status = panel.status
          /\ panel'.graphics = panel.graphics \cup {panel.global}
          /\ panel'.owned /\ panel'.registered
      BY <1>0, <2>2, <2>3 DEF Panel
    <2> HIDE DEF c
    <2> QED BY <1>0, <2>1, <2>2, <2>4, PushPaint DEF SavedInv
  <1>4. CASE RunJobs
    <2> DEFINE c == Frame("jobs", 0, "none")
    <2>1. /\ c \in FrameSet /\ c.kind = "jobs" /\ c.kind \notin Scripts
          /\ c.kind \in Others \ Resizes
      BY DEF Frame, FrameSet, Scripts, Others, Resizes
    <2>2. panel' = panel /\ frames' = Append(frames, c)
      BY <1>4 DEF RunJobs, Push
    <2> HIDE DEF c
    <2>3. IsSavedBy(frames') <=> IsSavedBy(frames)
      BY <1>0, <2>1, <2>2, PushedFrames DEF IsSavedBy
    <2> QED BY <1>0, <2>1, <2>2, <2>3, PushOther DEF SavedInv
  <1>5. CASE Reload
    <2>1. panel.owned /\ panel.fault = "none" /\ UnloadScript(panel, "reload")
      BY <1>5 DEF Reload, MayHandleForScript, MayHandle
    <2> QED BY <1>0, <2>1, UnloadScriptStack
  <1>6. CASE PrepareForExit
    <2>1. panel.owned /\ panel.fault = "none" /\ UnloadScript(panel, "nothing")
      BY <1>6 DEF PrepareForExit, MayHandleForScript, MayHandle
    <2> QED BY <1>0, <2>1, UnloadScriptStack
  <1>7. CASE FailOutside
    <2>1. panel.owned /\ panel' = PanelFail(panel) /\ frames' = frames
      BY <1>7 DEF FailOutside, MayHandleForScript
    <2>2. panel'.owned /\ panel'.registered
      BY <1>0, <2>1 DEF MembersInv, PanelFail, Unloaded, Finalized, Panel
    <2> QED BY <1>0, <2>1, <2>2, QuietFunctions, QuietStack DEF SavedInv
  <1>8. CASE Destroy
    <2> DEFINE p == [panel EXCEPT !.window = "closing"]
    <2>1. panel.fault = "none" /\ panel.window = "open" /\ UnloadScript(p, "destroy")
      BY <1>8 DEF Destroy, MayHandle
    <2>2. /\ MembersInv(p, Loading(frames)) /\ p.owned /\ p.fault = "none"
          /\ Quieter(panel, p)
      BY <1>0, <2>1 DEF MembersInv, Quieter, Loaded, Panel, Globals
    <2> HIDE DEF p
    <2>3. StackInv(p, frames)
      BY <1>0, <2>2, QuietStack
    <2> QED BY <1>0, <2>1, <2>2, <2>3, UnloadScriptStack
  <1>9. CASE Return
    <2> DEFINE p == Returned(panel, Top)
    <2>1. frames # <<>> /\ Top.kind \in Scripts /\ panel.fault = "none"
      BY <1>9 DEF Return, TopIs
    <2>2. Top \in FrameSet /\ panel.window # "none"
      BY <1>0, <2>1, TopIsAFrame, ScriptHasWindow DEF Scripts
    <2>3. CASE Top.kind = "load" /\ ~panel.timeouts
      BY <1>0, <1>9, <2>3, FaultStack DEF Return
    <2>4. CASE ~(Top.kind = "load" /\ ~panel.timeouts)
      <3>1. MembersInv(p, Loading(frames)) /\ p.registered = panel.registered
        BY <1>0, <2>1, <2>2, ReturnedInv
      <3>2. StackInv(p, Pop)
        BY <1>0, <2>1, PopScript DEF Top, Pop
      <3>3. panel' = Released(p, Pop) /\ frames' = Pop
        BY <1>9, <2>4 DEF Return
      <3> HIDE DEF p
      <3>4. p \in Panel /\ (p.owned => p.registered)
        BY <3>1 DEF MembersInv
      <3>5. IsSavedBy(Pop) => p.registered
        <4>1. IsSavedBy(frames)
          BY <1>0, <2>1, TopIsAFrame DEF IsSavedBy
        <4> QED BY <1>0, <2>2, <3>1, <4>1 DEF SavedInv
      <3> QED BY <3>2, <3>3, <3>4, <3>5, QuietFunctions, QuietStack, ReleasedIsSaved
    <2> QED BY <2>3, <2>4
  <1>10. CASE ReturnError
    <2> DEFINE r == ContainerFail(panel)
               p == Returned(r, Top)
    <2>1. frames # <<>> /\ Top.kind \in Scripts /\ panel.fault = "none"
      BY <1>10 DEF ReturnError, TopIs
    <2>2. Top \in FrameSet /\ panel.window # "none"
      BY <1>0, <2>1, TopIsAFrame, ScriptHasWindow DEF Scripts
    <2>3. MembersInv(r, FALSE) /\ r \in Panel /\ r.registered = panel.registered
      <3>1. MembersInv(r, FALSE)
        BY <1>0, <2>1, <2>2, ContainerFailedInv
      <3>2. r.registered = panel.registered
        BY <1>0 DEF ContainerFail, PanelFail, Unloaded, Finalized, Panel
      <3> QED BY <3>1, <3>2 DEF MembersInv
    <2>4. StackInv(r, frames)
      BY <1>0, QuietFunctions, QuietStack
    <2>5. MembersInv(p, FALSE) /\ p \in Panel /\ p.registered = r.registered
      <3> HIDE DEF r
      <3>1. MembersInv(p, FALSE)
        BY <2>1, <2>2, <2>3, ReturnedInv
      <3>2. p.registered = r.registered
        BY <2>1, <2>3 DEF Returned, Panel, Scripts
      <3> QED BY <3>1, <3>2 DEF MembersInv
    <2>6. StackInv(p, Pop)
      BY <1>0, <2>1, <2>3, <2>4, PopScript DEF Top, Pop
    <2>7. panel' = Released(p, Pop) /\ frames' = Pop
      BY <1>10 DEF ReturnError
    <2> HIDE DEF p, r
    <2>8. IsSavedBy(Pop) => p.registered
      <3>1. IsSavedBy(frames)
        BY <1>0, <2>1, TopIsAFrame DEF IsSavedBy
      <3> QED BY <1>0, <2>2, <2>3, <2>5, <3>1 DEF SavedInv
    <2>9. p.owned => p.registered
      BY <2>5 DEF MembersInv
    <2> QED BY <2>5, <2>6, <2>7, <2>8, <2>9, QuietFunctions, QuietStack, ReleasedIsSaved
  <1>11. CASE JobsEnd
    <2>1. frames # <<>> /\ Top.kind = "jobs" /\ frames' = Pop /\ panel' = panel
      BY <1>11 DEF JobsEnd, TopIs
    <2>2. StackInv(panel, Pop)
      BY <1>0, <2>1, PopFrame DEF Top, Pop
    <2> QED BY <1>0, <2>1, <2>2, SavedBelowTop DEF SavedInv, Scripts
  <1>12. CASE JobsFail
    <2>1. frames # <<>> /\ Top.kind = "jobs"
      BY <1>12 DEF JobsFail, TopIs
    <2>2. CASE ~panel.registered
      BY <1>0, <1>12, <2>2, FaultStack DEF JobsFail
    <2>3. CASE panel.registered
      <3>1. panel' = ContainerFail(panel) /\ frames' = Pop
        BY <1>12, <2>3 DEF JobsFail
      <3>2. StackInv(panel, Pop) /\ (IsSavedBy(Pop) <=> IsSavedBy(frames))
        BY <1>0, <2>1, PopFrame, SavedBelowTop DEF Top, Pop, Scripts
      <3>3. /\ panel'.window = panel.window /\ panel'.owned = panel.owned
            /\ panel'.registered = panel.registered
        BY <1>0, <3>1 DEF ContainerFail, PanelFail, Unloaded, Finalized, Panel
      <3> QED BY <1>0, <3>1, <3>2, <3>3, QuietFunctions, QuietStack DEF SavedInv
    <2> QED BY <2>2, <2>3
  <1>13. CASE FinishUnload
    <2>1. frames # <<>> /\ Top.kind = "unload" /\ panel.fault = "none"
      BY <1>13 DEF FinishUnload, TopIs
    <2>2. StackInv(panel, Pop) /\ (IsSavedBy(Pop) <=> IsSavedBy(frames))
      BY <1>0, <2>1, PopFrame, SavedBelowTop DEF Top, Pop, Scripts
    <2>3. Pop \in Seq(FrameSet)
      BY <1>0, <2>1, TopIsAFrame
    <2>4. CASE panel.owned
      <3>1. Proceed(Unloaded(panel), Pop, Top.then)
        BY <1>13, <2>4 DEF FinishUnload
      <3>2. Between(Unloaded(panel), Loading(frames))
        BY <1>0, <2>1, <2>4, UnloadedIsBetween
      <3>3. StackInv(Unloaded(panel), Pop)
        BY <1>0, <2>2, QuietFunctions, QuietStack
      <3> QED BY <1>0, <2>3, <3>1, <3>2, <3>3, ProceedStack
    <2>5. CASE ~panel.owned
      BY <1>0, <1>13, <2>5, FaultStack DEF FinishUnload
    <2> QED BY <2>4, <2>5
  <1>14. CASE Resize
    <2> DEFINE t == [frames EXCEPT ![Len(frames)].kind = "resized"]
               c == Frame("jobs", 0, "none")
    <2>1. /\ frames # <<>> /\ Top.kind = "resize"
          /\ panel' = panel /\ frames' = Append(t, c)
      BY <1>14 DEF Resize, TopIs, Push
    <2>2. /\ c \in FrameSet /\ c.kind \notin Scripts /\ c.kind \in Others \ Resizes
      BY DEF Frame, FrameSet, Scripts, Others, Resizes
    <2>3. /\ t \in Seq(FrameSet) /\ DOMAIN t = DOMAIN frames
          /\ \A i \in DOMAIN frames :
               t[i] = frames[i] \/ (t[i].kind \in Resizes /\ frames[i].kind \in Resizes)
      <3>1. /\ Len(frames) \in DOMAIN frames /\ frames[Len(frames)] \in FrameSet
            /\ frames[Len(frames)].kind = "resize"
        BY <1>0, <2>1, TopIsAFrame
      <3>2. /\ [frames[Len(frames)] EXCEPT !.kind = "resized"] \in FrameSet
            /\ [frames[Len(frames)] EXCEPT !.kind = "resized"].kind = "resized"
        BY <3>1 DEF FrameSet, Others, Resizes
      <3>3. t = [frames EXCEPT ![Len(frames)] =
                   [frames[Len(frames)] EXCEPT !.kind = "resized"]]
        OBVIOUS
      <3>4. t \in Seq(FrameSet)
        BY <1>0, <3>1, <3>2, <3>3
      <3>5. /\ DOMAIN t = DOMAIN frames
            /\ t[Len(frames)].kind = "resized"
            /\ \A i \in DOMAIN frames : i # Len(frames) => t[i] = frames[i]
        BY <3>1, <3>2, <3>3
      <3> HIDE DEF t
      <3> QED BY <3>1, <3>4, <3>5 DEF Resizes
    <2> HIDE DEF t, c
    <2>4. StackInv(panel, t)
      BY <1>0, <2>3, ResizedStack
    <2>5. StackInv(panel, frames')
      BY <2>1, <2>2, <2>3, <2>4, PushOther
    <2>6. IsSavedBy(frames') <=> IsSavedBy(frames)
      <3>1. IsSavedBy(frames') <=> IsSavedBy(t)
        BY <2>1, <2>2, <2>3, PushedFrames DEF IsSavedBy
      <3>2. IsSavedBy(t) <=> IsSavedBy(frames)
        BY <2>3 DEF IsSavedBy, Resizes, Scripts
      <3> QED BY <3>1, <3>2
    <2> QED BY <1>0, <2>1, <2>5, <2>6 DEF SavedInv
  <1>15. CASE \E g \in Globals, drop \in BOOLEAN : DefinePanel(g, drop)
    <2>1. PICK drop \in {"none", "script", "late"} :
            panel' = [panel EXCEPT !.drop = drop] /\ frames' = frames
      BY <1>0, <1>15, DefinePanelChanges
    <2>2. /\ Quieter(panel, panel') /\ panel'.window = panel.window
          /\ panel'.owned = panel.owned /\ panel'.registered = panel.registered
      BY <1>0, <2>1 DEF Quieter, Loaded, Panel
    <2> QED BY <1>0, <2>1, <2>2, QuietStack DEF SavedInv
  <1>16. CASE FinishLoad
    <2>1. frames # <<>> /\ Top.kind \in Resizes /\ Top.kind \notin Scripts
      BY <1>16 DEF FinishLoad, TopIs, Resizes, Scripts
    <2>2. CASE ~panel.owned
      BY <1>0, <1>16, <2>2, FaultStack DEF FinishLoad
    <2>3. CASE panel.owned
      <3> DEFINE p == [panel EXCEPT !.disturbed = Top.kind = "resized"]
      <3>1. \/ panel' = ContainerFail(p) /\ frames' = Pop
            \/ /\ panel' = Executing(p)
               /\ frames' = Append(Pop, Frame("load", panel'.global, "none"))
        BY <1>16, <2>3 DEF FinishLoad, Push
      <3>2. /\ p \in Panel /\ p.owned /\ p.registered /\ Quieter(panel, p)
            /\ p.graphics \subseteq 1..p.global /\ Loaded(p) = Loaded(panel)
        BY <1>0, <2>3 DEF MembersInv, Panel, Quieter, Loaded
      <3>3. StackInv(panel, Pop) /\ Pop \in Seq(FrameSet)
        BY <1>0, <2>1, TopIsAFrame, PopFrame DEF Top, Pop, Scripts
      <3>4. StackInv(p, Pop)
        BY <3>2, <3>3, QuietStack
      <3>5. Loaded(p) => \A i \in DOMAIN Pop : Pop[i].kind = "load" => Pop[i].g < p.global
        <4> SUFFICES ASSUME Loaded(p), NEW i \in DOMAIN Pop, Pop[i].kind = "load"
                     PROVE  Pop[i].g < p.global
          OBVIOUS
        <4>1. /\ Pop[i] = frames[i] /\ i \in DOMAIN frames /\ i < Len(frames)
              /\ Len(frames) \in DOMAIN frames /\ frames[Len(frames)].kind \in Resizes
          BY <1>0, <2>1, PoppedFrames DEF Pop, Top
        <4>2. frames[i].g < panel.global
          BY <1>0, <3>2, <4>1 DEF StackInv, LoadsInv
        <4> QED BY <3>2, <4>1, <4>2 DEF Quieter
      <3> HIDE DEF p
      <3>6. CASE panel' = ContainerFail(p) /\ frames' = Pop
        <4>1. panel'.owned /\ panel'.registered
          BY <3>2, <3>6 DEF ContainerFail, PanelFail, Unloaded, Finalized, Panel
        <4> QED BY <3>2, <3>4, <3>6, <4>1, QuietFunctions, QuietStack DEF SavedInv
      <3>7. CASE /\ panel' = Executing(p)
                 /\ frames' = Append(Pop, Frame("load", panel'.global, "none"))
        <4>1. /\ panel'.parsing /\ panel'.painting = p.painting
              /\ panel'.graphics = p.graphics /\ panel'.owned /\ panel'.registered
              /\ panel'.global \in Nat
              /\ \/ panel'.global = p.global + 1
                 \/ panel'.global = p.global /\ Loaded(p)
          BY <3>2, <3>7 DEF Executing, Initialized, Loaded, Panel
        <4> DEFINE f == Frame("load", panel'.global, "none")
        <4>2. f \in FrameSet /\ f.kind = "load" /\ f.g = panel'.global
          BY <4>1 DEF Frame, FrameSet, Scripts
        <4> HIDE DEF f
        <4>3. StackInv(panel', Append(Pop, f))
          BY <3>2, <3>3, <3>4, <3>5, <4>1, <4>2, PushLoad
        <4> QED BY <3>7, <4>1, <4>3 DEF SavedInv, f
      <3> QED BY <3>1, <3>6, <3>7
    <2> QED BY <2>2, <2>3
  <1>17. CASE UNCHANGED vars
    BY <1>0, <1>17 DEF vars
  <1> QED
    BY <1>1, <1>2, <1>3, <1>4, <1>5, <1>6, <1>7, <1>8, <1>9, <1>10, <1>11, <1>12,
       <1>13, <1>14, <1>15, <1>16, <1>17 DEF Next

LEMMA FullIsInvariant == Spec => []FullInv
  BY FullInit, FullNext, PTL DEF Spec

\* No script is called while its own first execution is still on the stack, whatever
\* was loaded in between.
THEOREM CallsFollowLoads == Spec => []CalledAfterItsLoad
  <1>1. FullInv => CalledAfterItsLoad
    BY DEF FullInv, StackInv, LoadsInv, CalledAfterItsLoad
  <1> QED BY <1>1, FullIsInvariant, PTL

\* The script that runs has a Graphics in its on_paint, and at no other time.
THEOREM GraphicsBelongToPaint == Spec => []GraphicsOfThePaint
  <1>1. FullInv => GraphicsOfThePaint
    BY DEF FullInv, StackInv, PaintsInv, GraphicsOfThePaint, Loaded
  <1> QED BY <1>1, FullIsInvariant, PTL

\* The engine and the container neither go under a script nor stay without one.
THEOREM ContainersOutliveCalls == Spec => []ContainerOutlivesCalls
  <1>1. FullInv => ContainerOutlivesCalls
    BY DEF FullInv, SavedInv, IsSavedBy, ContainerOutlivesCalls
  <1> QED BY <1>1, FullIsInvariant, PTL

=============================================================================
