---------------------- MODULE PackagesAndInputProofs ----------------------
(***************************************************************************)
(* The proofs of two components that have nothing in common but that they  *)
(* are short: DelayedPackages, then PanelInput, each for any values of its *)
(* constants.                                                              *)
(***************************************************************************)
EXTENDS DelayedPackages, PanelInput, TLAPS

------------------------------------------------------------------------------
(* DelayedPackages.  The invariants of the update of one package need to     *)
(* know where the process stands: no backup is left once updates have begun, *)
(* but for that of the package at hand; what is yet to be visited is still   *)
(* staged; and while the old version is away its directory is missing, then  *)
(* filled.                                                                   *)

Updating == pc \in {"updating", "replacing", "dropping", "recovering"}

\* Entries that the process has yet to visit are of the directory it visits.
TodoIsLeft ==
    /\ pc = "removing" => todo \subseteq removal
    /\ Updating => \A p \in todo : staged[p] # Missing
    /\ pc \in {"replacing", "dropping", "recovering"} => cur \notin todo

\* The backups are those of the update at hand.
OneBackup ==
    /\ pc = "updating" => NoBackupsLeft
    /\ pc \in {"replacing", "dropping"} =>
         backup[cur] = old /\ \A p \in Package \ {cur} : backup[p] = Missing
    /\ pc = "recovering" => \A p \in Package \ {cur} : backup[p] = Missing

\* A new version takes the place that the old one has left.
PlaceIsLeft ==
    /\ pc = "replacing" => installed[cur] = Missing /\ staged[cur] # Missing
    /\ pc = "dropping" => installed[cur] \notin {Missing, RecoveryPackage}

IInv == TypeOK /\ DelayIsSingle /\ TodoIsLeft /\ OneBackup /\ PlaceIsLeft

LEMMA ContentFacts ==
    /\ Missing \in Content /\ Broken \in Content /\ RecoveryPackage \in Content
    /\ Missing # Broken /\ Missing # RecoveryPackage /\ Broken # RecoveryPackage
    /\ \A n \in 1..MaxImports : n \in Content /\ n > 0
    /\ \A c \in Content : Complete(c) \/ c = Missing \/ c = Broken \/ c = RecoveryPackage
    /\ ~Complete(Missing) /\ ~Complete(Broken) /\ ~Complete(RecoveryPackage)
    /\ \A n \in 1..MaxImports : n # RecoveryPackage /\ n # Missing
BY BoundAssumption DEF Content, Missing, Broken, RecoveryPackage, Complete

LEMMA InitIInv == Init => IInv
BY BoundAssumption, ContentFacts
DEF Init, IInv, TypeOK, DelayIsSingle, TodoIsLeft, OneBackup, PlaceIsLeft, Updating,
    NoBackupsLeft, NoPackage

LEMMA SessionKeepsIInv ==
    ASSUME IInv, NEW p \in Package, Session(p)
    PROVE  IInv'
<1>a. /\ pc = "running" /\ pc' = pc /\ todo' = todo /\ cur' = cur /\ old' = old
  BY DEF Session, MarkPackageAsInUse, UserRecovers, ImportLater, ImportNow, RemoveLater, RemoveNow
<1>b. TodoIsLeft' /\ OneBackup' /\ PlaceIsLeft'
  BY <1>a DEF TodoIsLeft, OneBackup, PlaceIsLeft, Updating
<1>c. faults' \in 0..MaxFaults
  BY BoundAssumption DEF Session, MarkPackageAsInUse, UserRecovers, ImportLater, ImportNow,
     RemoveLater, RemoveNow, ClearFails, Fault, NoFault, IInv, TypeOK
<1>d. TypeOK' /\ DelayIsSingle'
  <2>1. CASE MarkPackageAsInUse(p)
    BY <2>1, <1>a DEF MarkPackageAsInUse, IInv, TypeOK, DelayIsSingle
  <2>2. CASE UserRecovers(p)
    BY <2>2, <1>a, ContentFacts DEF UserRecovers, IInv, TypeOK, DelayIsSingle, Set, marks
  <2>3. CASE ImportLater(p)
    BY <2>3, <1>a, <1>c, ContentFacts, BoundAssumption
    DEF ImportLater, ClearFails, Rest, IInv, TypeOK, DelayIsSingle, Set
  <2>4. CASE ImportNow(p)
    BY <2>4, <1>a, <1>c, ContentFacts, BoundAssumption
    DEF ImportNow, Rest, IInv, TypeOK, DelayIsSingle, Set, marks
  <2>5. CASE RemoveLater(p)
    BY <2>5, <1>a, <1>c, ContentFacts
    DEF RemoveLater, ClearFails, Unstaged, Rest, IInv, TypeOK, DelayIsSingle, Set
  <2>6. CASE RemoveNow(p)
    BY <2>6, <1>a, <1>c, ContentFacts
    DEF RemoveNow, Rest, IInv, TypeOK, DelayIsSingle, Set, marks
  <2>. QED BY <2>1, <2>2, <2>3, <2>4, <2>5, <2>6 DEF Session
<1>. QED BY <1>b, <1>d DEF IInv

LEMMA StartKeepsIInv == ASSUME IInv, Start PROVE IInv'
BY BoundAssumption, ContentFacts
DEF IInv, Start, ForgetUse, Fault, NoFault, TypeOK, DelayIsSingle, TodoIsLeft, OneBackup,
    PlaceIsLeft, Updating, NoPackage

LEMMA ProcessingKeepsIInv == ASSUME IInv, Processing PROVE IInv'
<1>f. faults' \in 0..MaxFaults
  BY BoundAssumption DEF Processing, RemovePackage, SaveOldVersion, SkipUpdate, CheckBackups,
     Replace, DropBackup, Recover, EndUpdate, ClearFails, Fault, NoFault, IInv, TypeOK
<1>1. ASSUME NEW p \in Package, RemovePackage(p) PROVE IInv'
  <2>1. TypeOK' /\ DelayIsSingle'
    BY <1>1, <1>f, ContentFacts
    DEF RemovePackage, ClearFails, Throw, Rest, IInv, TypeOK, DelayIsSingle, Set
  <2>2. TodoIsLeft' /\ OneBackup' /\ PlaceIsLeft'
    BY <1>1 DEF RemovePackage, ClearFails, Throw, IInv, TodoIsLeft, OneBackup, PlaceIsLeft, Updating
  <2>. QED BY <2>1, <2>2 DEF IInv
<1>2. ASSUME NEW p \in Package, SaveOldVersion(p) PROVE IInv'
  <2>1. TypeOK' /\ DelayIsSingle'
    BY <1>2, ContentFacts DEF SaveOldVersion, BackedUp, IInv, TypeOK, DelayIsSingle, Set, marks
  <2>2. TodoIsLeft' /\ PlaceIsLeft'
    BY <1>2 DEF SaveOldVersion, IInv, TypeOK, TodoIsLeft, PlaceIsLeft, Updating, Set
  <2>3. OneBackup'
    BY <1>2 DEF SaveOldVersion, BackedUp, IInv, TypeOK, OneBackup, NoBackupsLeft, Set
  <2>. QED BY <2>1, <2>2, <2>3 DEF IInv
<1>3. ASSUME NEW p \in Package, SkipUpdate(p) PROVE IInv'
  <2>1. TypeOK' /\ DelayIsSingle'
    BY <1>3, <1>f, ContentFacts
    DEF SkipUpdate, DropUpdate, Unstaged, Rest, IInv, TypeOK, DelayIsSingle, Set, marks
  <2>2. TodoIsLeft' /\ OneBackup' /\ PlaceIsLeft'
    BY <1>3 DEF SkipUpdate, DropUpdate, Unstaged, IInv, TypeOK, TodoIsLeft, OneBackup,
       PlaceIsLeft, NoBackupsLeft, Updating, Set
  <2>. QED BY <2>1, <2>2 DEF IInv
<1>4. ASSUME CheckBackups PROVE IInv'
  BY <1>4, ContentFacts
  DEF CheckBackups, Throw, IInv, TypeOK, DelayIsSingle, TodoIsLeft, OneBackup, PlaceIsLeft,
      NoBackupsLeft, Updating, marks
<1>5. ASSUME Replace PROVE IInv'
  <2>1. TypeOK' /\ DelayIsSingle'
    BY <1>5, <1>f, ContentFacts DEF Replace, IInv, TypeOK, DelayIsSingle, Set, marks
  <2>2. TodoIsLeft' /\ OneBackup' /\ PlaceIsLeft'
    BY <1>5, ContentFacts
    DEF Replace, IInv, TypeOK, TodoIsLeft, OneBackup, PlaceIsLeft, Updating, Set
  <2>. QED BY <2>1, <2>2 DEF IInv
<1>6. ASSUME DropBackup PROVE IInv'
  <2>1. TypeOK' /\ DelayIsSingle'
    BY <1>6, <1>f, ContentFacts DEF DropBackup, Throw, Rest, IInv, TypeOK, DelayIsSingle, Set, marks
  <2>2. TodoIsLeft' /\ OneBackup' /\ PlaceIsLeft'
    BY <1>6 DEF DropBackup, Throw, IInv, TypeOK, TodoIsLeft, OneBackup, PlaceIsLeft,
       NoBackupsLeft, Updating, Set
  <2>. QED BY <2>1, <2>2 DEF IInv
<1>7. ASSUME Recover PROVE IInv'
  <2>1. TypeOK' /\ DelayIsSingle'
    BY <1>7, <1>f, ContentFacts
    DEF Recover, Throw, DropUpdate, Unstaged, Rest, IInv, TypeOK, DelayIsSingle, Set, marks
  <2>2. TodoIsLeft' /\ OneBackup' /\ PlaceIsLeft'
    BY <1>7 DEF Recover, Throw, TodoIsLeft, OneBackup, PlaceIsLeft, Updating
  <2>. QED BY <2>1, <2>2 DEF IInv
<1>8. ASSUME EndUpdate PROVE IInv'
  BY <1>8, <1>f, ContentFacts
  DEF EndUpdate, IInv, TypeOK, DelayIsSingle, TodoIsLeft, OneBackup, PlaceIsLeft, Updating, marks
<1>. QED BY <1>1, <1>2, <1>3, <1>4, <1>5, <1>6, <1>7, <1>8 DEF Processing

\* Where an update stands, at every step, crash and failure.
THEOREM UpdatesAreOrderly == Spec => []IInv
<1>1. IInv /\ [Next]_vars => IInv'
  <2>. SUFFICES ASSUME IInv, [Next]_vars PROVE IInv'
    OBVIOUS
  <2>1. CASE UNCHANGED vars
    BY <2>1 DEF vars, marks, IInv, TypeOK, DelayIsSingle, TodoIsLeft, OneBackup, PlaceIsLeft,
       NoBackupsLeft, Updating
  <2>2. CASE Next
    BY <2>2, SessionKeepsIInv, StartKeepsIInv, ProcessingKeepsIInv DEF Next
  <2>. QED BY <2>1, <2>2
<1>. QED BY InitIInv, <1>1, PTL DEF Spec

\* Type correctness.
THEOREM TypeCorrect == Spec => []TypeOK
<1>1. IInv => TypeOK
  BY DEF IInv
<1>. QED BY UpdatesAreOrderly, <1>1, PTL

\* No package is both to be removed and to be updated on the next start.
THEOREM OneDelayPerPackage == Spec => []DelayIsSingle
<1>1. IInv => DelayIsSingle
  BY DEF IInv
<1>. QED BY UpdatesAreOrderly, <1>1, PTL

\* While an update replaces a package its old version is the only backup.
THEOREM UpdateIsBackedUp == Spec => []OldVersionIsSaved
<1>1. IInv => OldVersionIsSaved
  BY DEF IInv, OneBackup, OldVersionIsSaved
<1>. QED BY UpdatesAreOrderly, <1>1, PTL

LEMMA StepKeepsCopies ==
    ASSUME IInv, Next, pc # "running", NEW p \in Package \ removal, HasComplete(p)
    PROVE  HasComplete(p)' \/ IsKnownLoss(p)
<1>1. CASE Start
  BY <1>1 DEF Start, HasComplete
<1>2. ASSUME NEW q \in Package, RemovePackage(q) PROVE HasComplete(p)'
  <2>1. p # q
    BY <1>2 DEF RemovePackage, IInv, TodoIsLeft
  <2>. QED BY <1>2, <2>1 DEF RemovePackage, HasComplete, Set, IInv, TypeOK
<1>3. ASSUME NEW q \in Package, SaveOldVersion(q) PROVE HasComplete(p)'
  BY <1>3, ContentFacts
  DEF SaveOldVersion, BackedUp, HasComplete, Set, IInv, TypeOK, OneBackup, NoBackupsLeft
<1>4. ASSUME NEW q \in Package, SkipUpdate(q) PROVE HasComplete(p)'
  BY <1>4 DEF SkipUpdate, HasComplete
<1>5. CASE CheckBackups
  BY <1>5 DEF CheckBackups, HasComplete
<1>6. CASE Replace
  BY <1>6, ContentFacts DEF Replace, HasComplete, Set, IInv, TypeOK, PlaceIsLeft
<1>7. CASE DropBackup
  BY <1>7, ContentFacts DEF DropBackup, HasComplete, IsKnownLoss, Set, IInv, TypeOK, PlaceIsLeft
<1>8. CASE Recover
  BY <1>8 DEF Recover, HasComplete, IsKnownLoss, Set, IInv, TypeOK
<1>9. CASE EndUpdate
  BY <1>9 DEF EndUpdate, HasComplete
<1>10. ~\E q \in Package : Session(q)
  BY DEF Session, MarkPackageAsInUse, UserRecovers, ImportLater, ImportNow, RemoveLater, RemoveNow
<1>. QED BY <1>1, <1>2, <1>3, <1>4, <1>5, <1>6, <1>7, <1>8, <1>9, <1>10 DEF Next, Processing

\* No start loses the last complete copy of a package but in the two known ways.
THEOREM CopiesAreKept == Spec => LastCopyIsKept
<1>1. IInv /\ [Next]_vars =>
        [pc # "running" =>
           \A p \in Package \ removal :
             HasComplete(p) => HasComplete(p)' \/ IsKnownLoss(p)]_vars
  <2>. SUFFICES ASSUME IInv, Next, pc # "running", NEW p \in Package \ removal, HasComplete(p)
               PROVE  HasComplete(p)' \/ IsKnownLoss(p)
    OBVIOUS
  <2>. QED BY StepKeepsCopies
<1>. QED BY UpdatesAreOrderly, <1>1, PTL DEF Spec, LastCopyIsKept

------------------------------------------------------------------------------
(* PanelInput: types *)

\* The type invariant, for any bounds.
THEOREM InputTypeCorrect == InputSpec => []InputTypeOK
  <1>1. InputInit => InputTypeOK
    <2>1. <<>> \in Seq(Kinds) /\ <<>> \in Seq({"focus", "blur"})
      OBVIOUS
    <2> QED
      BY <2>1, Zenon DEF InputInit, InputTypeOK, Wanted
  <1>2. InputTypeOK /\ [InputNext]_inputVars => InputTypeOK'
    <2> SUFFICES ASSUME InputTypeOK, [InputNext]_inputVars PROVE InputTypeOK'
      OBVIOUS
    <2>a. /\ \A k \in Kinds : Push(k) \in Seq(Kinds)
          /\ {"event", "paint", "loop"} \subseteq Kinds
      BY DEF InputTypeOK, Push, Kinds
    <2>b. \A e \in {"focus", "blur"} : Append(inputs, e) \in Seq({"focus", "blur"})
      BY DEF InputTypeOK
    <2> USE DEF InputTypeOK
    <2>1. CASE Paint
      BY <2>1, <2>a DEF Paint, WmPaint, Wanted, focus
    <2>2. CASE WmTimer
      BY <2>2 DEF WmTimer, focus
    <2>3. CASE ProcessStalledMessage
      BY <2>3, <2>a DEF ProcessStalledMessage, Receive, WmPaint, Wanted, focus
    <2>4. CASE ProcessNextEvent
      <3>1. ASSUME inputs # <<>>, ExecuteInput
            PROVE  /\ inputs' \in Seq({"focus", "blur"})
                   /\ holder' \in BOOLEAN /\ late' \in BOOLEAN
                   /\ UNCHANGED <<focused, unloaded>>
        BY <3>1 DEF ExecuteInput
      <3> QED
        BY <2>4, <2>a, <3>1 DEF ProcessNextEvent, Receive, focus
    <2>5. CASE Unwind
      <3>1. frames # <<>> => Pop \in Seq(Kinds)
        BY DEF Pop
      <3> QED
        BY <2>5, <3>1 DEF Unwind, PaintEnds, EventEnds, CloseLoop, TimerAfterPaint, TopIs, screen, focus
    <2>6. CASE TimerElapses
      BY <2>6 DEF TimerElapses, focus
    <2>7. CASE Repaint \/ RepaintNow \/ Invalidate
      BY <2>7, <2>a DEF Repaint, RepaintNow, Invalidate, SetTimer, WmPaint, Wanted, focus
    <2>8. CASE Post \/ OpenLoop
      BY <2>8, <2>a DEF Post, OpenLoop, screen, focus
    <2>9. CASE SetFocus \/ KillFocus \/ UnloadScript
      BY <2>9, <2>b DEF SetFocus, KillFocus, UnloadScript, Released, screen
    <2>10. CASE UNCHANGED inputVars
      BY <2>10 DEF inputVars, screen, focus
    <2> QED
      BY <2>1, <2>2, <2>3, <2>4, <2>5, <2>6, <2>7, <2>8, <2>9, <2>10 DEF InputNext, Pump, Environment
  <1> QED
    BY <1>1, <1>2, PTL DEF InputSpec

------------------------------------------------------------------------------
(* Painting *)

\* A repaint that a script asked for keeps its timer, and the window stays invalid,
\* until a script paints; a WM_PAINT that paints nothing takes both only from one that
\* was asked for within the paint under way.
THEOREM RepaintsAreTimed == InputSpec => []RepaintIsTimed
  <1>1. InputInit => RepaintIsTimed
    BY DEF InputInit, RepaintIsTimed
  <1>2. InputTypeOK /\ RepaintIsTimed /\ [InputNext]_inputVars => RepaintIsTimed'
    <2> SUFFICES ASSUME InputTypeOK, RepaintIsTimed, [InputNext]_inputVars PROVE RepaintIsTimed'
      OBVIOUS
    <2> USE DEF RepaintIsTimed, InputTypeOK
    <2>1. CASE Paint \/ RepaintNow \/ Repaint \/ Invalidate
      BY <2>1 DEF Paint, RepaintNow, Repaint, Invalidate, WmPaint, SetTimer
    <2>2. CASE ProcessStalledMessage
      BY <2>2 DEF ProcessStalledMessage, Receive, WmPaint
    <2>3. CASE WmTimer \/ ProcessNextEvent \/ TimerElapses
      BY <2>3 DEF WmTimer, ProcessNextEvent, TimerElapses
    <2>4. CASE Unwind
      BY <2>4 DEF Unwind, PaintEnds, EventEnds, CloseLoop, TimerAfterPaint, screen
    <2>5. CASE Post \/ OpenLoop \/ SetFocus \/ KillFocus \/ UnloadScript
      BY <2>5 DEF Post, OpenLoop, SetFocus, KillFocus, UnloadScript, screen
    <2>6. CASE UNCHANGED inputVars
      BY <2>6 DEF inputVars, screen
    <2> QED
      BY <2>1, <2>2, <2>3, <2>4, <2>5, <2>6 DEF InputNext, Pump, Environment
  <1> QED
    BY <1>1, <1>2, InputTypeCorrect, PTL DEF InputSpec

\* isPaintInProgress_ tells whether a paint is on the stack; there is one at most.
THEOREM OnePaintAtATime == InputSpec => []PaintsOnce
  <1>1. InputInit => PaintsOnce
    BY DEF InputInit, PaintsOnce
  <1>2. InputTypeOK /\ PaintsOnce /\ [InputNext]_inputVars => PaintsOnce'
    <2> SUFFICES ASSUME InputTypeOK, PaintsOnce, [InputNext]_inputVars PROVE PaintsOnce'
      OBVIOUS
    <2> USE DEF InputTypeOK
    <2>1. ASSUME UNCHANGED <<frames, painting>> PROVE PaintsOnce'
      BY <2>1 DEF PaintsOnce
    <2>2. ASSUME WmPaint PROVE PaintsOnce'
      BY <2>2 DEF WmPaint, PaintsOnce, Push
    <2>3. ASSUME NEW k \in {"event", "loop"}, frames' = Push(k), UNCHANGED painting
          PROVE  PaintsOnce'
      <3>1. \A i \in DOMAIN frames' : frames'[i] = "paint" <=> i \in DOMAIN frames /\ frames[i] = "paint"
        BY <2>3 DEF Push
      <3>2. DOMAIN frames \subseteq DOMAIN frames'
        BY <2>3 DEF Push
      <3> QED
        BY <2>3, <3>1, <3>2 DEF PaintsOnce
    <2>4. ASSUME frames # <<>>, frames' = Pop
          PROVE  \A i : i \in DOMAIN frames' <=> i \in DOMAIN frames /\ i # Len(frames)
      BY <2>4 DEF Pop
    <2>5. ASSUME frames # <<>>, frames' = Pop
          PROVE  \A i \in DOMAIN frames' : frames'[i] = frames[i]
      BY <2>5 DEF Pop
    <2>6. CASE PaintEnds
      BY <2>4, <2>5, <2>6 DEF PaintEnds, TopIs, Top, PaintsOnce
    <2>7. CASE EventEnds \/ CloseLoop
      <3>1. Len(frames) \in DOMAIN frames /\ frames[Len(frames)] # "paint" /\ UNCHANGED painting
        BY <2>7 DEF EventEnds, CloseLoop, TopIs, Top, screen
      <3> QED
        BY <2>4, <2>5, <2>7, <3>1 DEF EventEnds, CloseLoop, TopIs, PaintsOnce
    <2>8. CASE Paint \/ RepaintNow
      BY <2>2, <2>8 DEF Paint, RepaintNow
    <2>9. CASE ProcessStalledMessage
      BY <2>1, <2>2, <2>9 DEF ProcessStalledMessage
    <2>10. CASE ProcessNextEvent \/ OpenLoop
      BY <2>1, <2>3, <2>10 DEF ProcessNextEvent, OpenLoop, screen
    <2>11. CASE WmTimer \/ TimerElapses \/ Repaint \/ Invalidate \/ Post
      BY <2>1, <2>11 DEF WmTimer, TimerElapses, Repaint, Invalidate, Post, screen
    <2>12. CASE SetFocus \/ KillFocus \/ UnloadScript \/ UNCHANGED inputVars
      BY <2>1, <2>12 DEF SetFocus, KillFocus, UnloadScript, inputVars, screen
    <2> QED
      BY <2>6, <2>7, <2>8, <2>9, <2>10, <2>11, <2>12 DEF InputNext, Pump, Unwind, Environment
  <1> QED
    BY <1>1, <1>2, InputTypeCorrect, PTL DEF InputSpec

------------------------------------------------------------------------------
(* Focus *)

\* The selection follows the focus but for the two ways that the history
\* variables name: an unloaded script, and an event that came late.
THEOREM HolderFollowsFocus == InputSpec => []SelectionFollowsFocus
  <1>1. InputInit => SelectionFollowsFocus
    BY DEF InputInit, SelectionFollowsFocus
  <1>2. InputTypeOK /\ SelectionFollowsFocus /\ [InputNext]_inputVars => SelectionFollowsFocus'
    <2> SUFFICES ASSUME InputTypeOK, SelectionFollowsFocus, [InputNext]_inputVars
                 PROVE  SelectionFollowsFocus'
      OBVIOUS
    <2> USE DEF InputTypeOK
    <2>1. ASSUME UNCHANGED focus PROVE SelectionFollowsFocus'
      BY <2>1 DEF focus, SelectionFollowsFocus
    <2>2. ASSUME inputs # <<>>, ExecuteInput PROVE SelectionFollowsFocus'
      <3>1. \A i \in DOMAIN inputs : inputs[i] = "focus" =>
              Head(inputs) = "focus" \/ \E j \in DOMAIN inputs' : inputs'[j] = "focus"
        <4> SUFFICES ASSUME NEW i \in DOMAIN inputs, inputs[i] = "focus", i # 1
                     PROVE  i - 1 \in DOMAIN inputs' /\ inputs'[i - 1] = "focus"
          BY <2>2
        <4> QED
          BY <2>2 DEF ExecuteInput
      <3> QED
        BY <2>2, <3>1 DEF ExecuteInput, SelectionFollowsFocus
    <2>3. CASE SetFocus
      <3>1. /\ Len(inputs) + 1 \in DOMAIN inputs'
            /\ inputs'[Len(inputs) + 1] = "focus"
        BY <2>3 DEF SetFocus
      <3> QED
        BY <2>3, <3>1 DEF SetFocus, SelectionFollowsFocus
    <2>4. CASE KillFocus
      BY <2>4 DEF KillFocus, Released, SelectionFollowsFocus
    <2>5. CASE UnloadScript
      BY <2>5 DEF UnloadScript, SelectionFollowsFocus
    <2>6. CASE ProcessNextEvent
      BY <2>1, <2>2, <2>6 DEF ProcessNextEvent
    <2>7. CASE ProcessStalledMessage \/ Paint \/ RepaintNow
      BY <2>1, <2>7 DEF ProcessStalledMessage, Paint, RepaintNow, WmPaint
    <2>8. CASE WmTimer \/ TimerElapses \/ Repaint \/ Invalidate \/ Post \/ OpenLoop
      BY <2>1, <2>8 DEF WmTimer, TimerElapses, Repaint, Invalidate, Post, OpenLoop
    <2>9. CASE Unwind \/ UNCHANGED inputVars
      BY <2>1, <2>9 DEF Unwind, PaintEnds, EventEnds, CloseLoop, inputVars
    <2> QED
      BY <2>3, <2>4, <2>5, <2>6, <2>7, <2>8, <2>9 DEF InputNext, Pump, Environment
  <1> QED
    BY <1>1, <1>2, InputTypeCorrect, PTL DEF InputSpec

=============================================================================
