------------------------- MODULE EventDispatchProofs -------------------------
(***************************************************************************)
(* Proofs about EventDispatch, for any number of panels, tasks and frames: *)
(* the stack and the counters of the panels; then that no wake-up is lost  *)
(* and no message doubled; that tasks run to completion; and that they run *)
(* in order, one resize at a time, so that EventDispatch is a Mailbox.     *)
(***************************************************************************)
EXTENDS EventDispatch, TLAPS, FiniteSetTheorems, SequenceTheorems

------------------------------------------------------------------------------
(* The stack *)

\* A new frame is a frame.
LEMMA NewFrameType ==
    ASSUME NEW w \in Window \cup {NoWindow}, NEW pc \in FramePc
    PROVE  NewFrame(w, pc) \in Frame
  BY DEF NewFrame, Frame

\* What MoveTop does to the stack: only the top's pc changes.
LEMMA MoveTopEffect ==
    ASSUME frames \in Seq(Frame), frames # <<>>, NEW pc \in FramePc, MoveTop(pc)
    PROVE  /\ frames' \in Seq(Frame)
           /\ Len(frames') = Depth
           /\ Depth \in Nat /\ Depth > 0
           /\ \A i \in 1..(Depth - 1) : frames'[i] = frames[i]
           /\ frames'[Depth] = [Top EXCEPT !.pc = pc]
           /\ Top \in Frame
  <1>1. Depth \in Nat /\ Depth > 0 /\ Top \in Frame
    BY DEF Depth, Top
  <1>2. [Top EXCEPT !.pc = pc] \in Frame
    BY <1>1 DEF Frame
  <1> QED
    BY <1>1, <1>2 DEF MoveTop, Depth, Top

\* What a push does to the stack.
LEMMA PushEffect ==
    ASSUME frames \in Seq(Frame), NEW f \in Frame, Push(f)
    PROVE  /\ frames' \in Seq(Frame)
           /\ Depth \in Nat
           /\ Len(frames') = Depth + 1
           /\ \A i \in 1..Depth : frames'[i] = frames[i]
           /\ frames'[Depth + 1] = f
  BY DEF Push, Depth

\* What a pop does to the stack.
LEMMA PopEffect ==
    ASSUME frames \in Seq(Frame), frames # <<>>, Pop
    PROVE  /\ frames' \in Seq(Frame)
           /\ Depth \in Nat /\ Depth > 0
           /\ Len(frames') = Depth - 1
           /\ \A i \in 1..(Depth - 1) : frames'[i] = frames[i]
           /\ Top \in Frame
  <1>1. Depth \in Nat /\ Depth > 0 /\ Top \in Frame
    BY DEF Depth, Top
  <1>2. \A i \in 1..(Depth - 1) : frames[i] \in Frame
    BY <1>1 DEF Depth
  <1> DEFINE n == Depth - 1
  <1>3. n \in Int
    BY <1>1
  <1>4. /\ SubSeq(frames, 1, n) \in Seq(Frame)
        /\ Len(SubSeq(frames, 1, n)) = IF 1 <= n THEN n - 1 + 1 ELSE 0
        /\ \A i \in 1..(n - 1 + 1) : SubSeq(frames, 1, n)[i] = frames[1 + i - 1]
    <2> HIDE DEF n
    <2> QED
      BY <1>2, <1>3, SubSeqProperties DEF n
  <1> QED
    BY <1>1, <1>4 DEF Pop

\* What changing the top frame to f does to the stack.
LEMMA ReplaceTopEffect ==
    ASSUME frames \in Seq(Frame), frames # <<>>, NEW f \in Frame,
           frames' = [frames EXCEPT ![Depth] = f]
    PROVE  /\ frames' \in Seq(Frame)
           /\ Depth \in Nat /\ Depth > 0
           /\ Len(frames') = Depth
           /\ \A i \in 1..(Depth - 1) : frames'[i] = frames[i]
           /\ frames'[Depth] = f
           /\ Top \in Frame
  BY DEF Depth, Top

------------------------------------------------------------------------------
(* Type correctness *)

\* A put that is in progress has the shape of Put.
LEMMA PutType == ASSUME TypeOK, put # NoPut PROVE put \in Put
  BY DEF TypeOK

\* The tasks of a queue after AddTask.
LEMMA AddTaskType ==
    ASSUME NEW ts \in SUBSET Task, NEW t \in Task
    PROVE  AddTask(ts, t) \in SUBSET Task
  BY DEF AddTask, Superseded

\* Requesting the next event keeps the flag a Boolean and the count a number.
LEMMA RequestType ==
    ASSUME TypeOK, NEW w \in Window, RequestNextEventImpl(w)
    PROVE  waiting' \in [Window -> BOOLEAN] /\ posted' \in [Window -> Nat]
  <1>1. waiting \in [Window -> BOOLEAN] /\ posted \in [Window -> Nat]
    BY DEF TypeOK
  <1>2. \/ /\ waiting' = [waiting EXCEPT ![w] = FALSE]
           /\ posted' = [posted EXCEPT ![w] = @ + 1]
        \/ waiting' = waiting /\ posted' = posted
    BY Zenon DEF RequestNextEventImpl
  <1>3. waiting' \in [Window -> BOOLEAN]
    BY <1>1, <1>2, Zenon
  <1>4. posted' \in [Window -> Nat]
    BY <1>1, <1>2
  <1> QED
    BY <1>3, <1>4

------------------------------------------------------------------------------
(* The stack's shape and the nesting counters *)

\* Only the innermost frame is between two steps of the event processing; the
\* frames below it run user code.  Every frame but a dialog's is a panel's, and
\* only scripts notify other panels.
StackShape ==
    /\ \A i \in 1..(Depth - 1) : frames[i].pc \in {"run", "jobs", "modal"}
    /\ \A i \in DOMAIN frames :
          /\ IF frames[i].pc = "modal" THEN frames[i].win = NoWindow
                                       ELSE frames[i].win \in Window
          /\ frames[i].toNotify = {} \/ frames[i].pc \in {"run", "jobs"}

StackInv == TypeOK /\ StackShape /\ NestingIsCounted

InCount(f, w) == f.win = w /\ f.pc \in CountedPc

\* Counted(w) is a finite set of positions.
LEMMA CountedFinite ==
    ASSUME frames \in Seq(Frame), NEW w \in Window
    PROVE  IsFiniteSet(Counted(w)) /\ Counted(w) \subseteq 1..Depth
  <1>1. Depth \in Nat /\ Counted(w) \subseteq 1..Depth
    BY DEF Counted, Depth
  <1>2. IsFiniteSet(1..Depth)
    BY <1>1, FS_Interval
  <1> QED
    BY <1>1, <1>2, FS_Subset

\* A step that changes only the top frame keeps the count of every panel for
\* which the top counts after the step exactly if it did before.
LEMMA TopKeepsCount ==
    ASSUME StackInv, frames' \in Seq(Frame), Depth > 0, Len(frames') = Depth,
           \A i \in 1..(Depth - 1) : frames'[i] = frames[i],
           NEW w \in Window, InCount(frames'[Depth], w) <=> InCount(Top, w)
    PROVE  Cardinality(Counted(w))' = nested[w]
  <1>1. Depth \in Nat
    BY DEF StackInv, TypeOK, Depth
  <1>2. \A i \in 1..Depth : InCount(frames'[i], w) <=> InCount(frames[i], w)
    BY <1>1 DEF Top
  <1>3. Counted(w)' = Counted(w)
    BY <1>1, <1>2 DEF Counted, InCount, Depth, StackInv, TypeOK
  <1> QED
    BY <1>3 DEF StackInv, NestingIsCounted

\* What pushing a frame means for the rest of the stack: only toNotify of the
\* frame that was on top may change with it.
Pushed(f) ==
    /\ frames' \in Seq(Frame) /\ Len(frames') = Depth + 1
    /\ \A i \in 1..Depth : /\ frames'[i].win = frames[i].win
                           /\ frames'[i].pc = frames[i].pc
                           /\ frames'[i].task = frames[i].task
                           /\ frames'[i].toNotify \subseteq frames[i].toNotify
    /\ frames'[Depth + 1] = f

LEMMA PushIsPushed ==
    ASSUME frames \in Seq(Frame), NEW f \in Frame, Push(f)
    PROVE  Pushed(f)
  BY PushEffect DEF Pushed

\* Pushing a frame that does not count for w, or popping one, keeps the count.
LEMMA PushKeepsCount ==
    ASSUME StackInv, NEW f \in Frame, Pushed(f), NEW w \in Window, ~InCount(f, w)
    PROVE  Cardinality(Counted(w))' = nested[w]
  <1>1. /\ frames' \in Seq(Frame) /\ Depth \in Nat /\ Len(frames') = Depth + 1
        /\ \A i \in 1..Depth : frames'[i].win = frames[i].win /\ frames'[i].pc = frames[i].pc
        /\ frames'[Depth + 1] = f
    BY DEF StackInv, TypeOK, Pushed, Depth
  <1>2. DOMAIN frames = 1..Depth /\ DOMAIN frames' = 1..(Depth + 1)
    BY <1>1 DEF Depth, StackInv, TypeOK
  <1>3. \A i \in 1..(Depth + 1) :
            InCount(frames'[i], w) <=> i # Depth + 1 /\ InCount(frames[i], w)
    BY <1>1 DEF InCount
  <1>4. \A i : i \in Counted(w)' <=> i \in Counted(w)
    BY <1>1, <1>2, <1>3 DEF Counted, InCount
  <1>5. Counted(w)' = Counted(w)
    BY <1>4
  <1> QED
    BY <1>5 DEF StackInv, NestingIsCounted

LEMMA PopKeepsCount ==
    ASSUME StackInv, frames # <<>>, Pop, NEW w \in Window, ~InCount(Top, w)
    PROVE  Cardinality(Counted(w))' = nested[w]
  <1>1. /\ frames' \in Seq(Frame) /\ Depth \in Nat /\ Depth > 0
        /\ Len(frames') = Depth - 1
        /\ \A i \in 1..(Depth - 1) : frames'[i] = frames[i]
    BY PopEffect DEF StackInv, TypeOK
  <1>2. DOMAIN frames = 1..Depth /\ DOMAIN frames' = 1..(Depth - 1)
    BY <1>1 DEF Depth, StackInv, TypeOK
  <1>3. \A i \in 1..Depth :
            InCount(frames[i], w) <=> i # Depth /\ InCount(frames'[i], w)
    BY <1>1 DEF Top
  <1>4. \A i : i \in Counted(w)' <=> i \in Counted(w)
    BY <1>1, <1>2, <1>3 DEF Counted, InCount
  <1>5. Counted(w)' = Counted(w)
    BY <1>4
  <1> QED
    BY <1>5 DEF StackInv, NestingIsCounted

\* One more position counts.
LEMMA CountUp ==
    ASSUME StackInv, NEW w \in Window, NEW i \in Nat, i \notin Counted(w),
           Counted(w)' = Counted(w) \cup {i}
    PROVE  Cardinality(Counted(w))' = nested[w] + 1
  <1>1. IsFiniteSet(Counted(w)) /\ nested[w] = Cardinality(Counted(w))
    BY CountedFinite DEF StackInv, TypeOK, NestingIsCounted
  <1>2. Cardinality(Counted(w) \cup {i}) = Cardinality(Counted(w)) + 1
    BY <1>1, FS_AddElement
  <1> QED
    BY <1>1, <1>2

\* One position less counts, and so the counter was positive.
LEMMA CountDown ==
    ASSUME StackInv, NEW w \in Window, NEW i \in Counted(w),
           Counted(w)' = Counted(w) \ {i}
    PROVE  Cardinality(Counted(w))' = nested[w] - 1 /\ nested[w] > 0
  <1>1. IsFiniteSet(Counted(w)) /\ nested[w] = Cardinality(Counted(w))
    BY CountedFinite DEF StackInv, TypeOK, NestingIsCounted
  <1>2. Cardinality(Counted(w) \ {i}) = Cardinality(Counted(w)) - 1
    BY <1>1, FS_RemoveElement
  <1>3. Cardinality(Counted(w) \ {i}) \in Nat /\ Cardinality(Counted(w)) \in Nat
    BY <1>1, FS_RemoveElement, FS_CardinalityType
  <1> QED
    BY <1>1, <1>2, <1>3

\* A step that touches neither the stack nor the counters keeps both facts.
LEMMA SameStack ==
    ASSUME StackInv, UNCHANGED <<frames, nested>>
    PROVE  StackShape' /\ NestingIsCounted'
  BY DEF StackInv, StackShape, NestingIsCounted, Counted, Depth

\* The top may be covered by another frame when it runs user code.
LEMMA PushShape ==
    ASSUME StackInv, frames # <<>> => Top.pc \in {"run", "jobs", "modal"},
           NEW f \in Frame, Pushed(f), f.toNotify = {},
           IF f.pc = "modal" THEN f.win = NoWindow ELSE f.win \in Window
    PROVE  StackShape'
  <1>1. /\ frames \in Seq(Frame) /\ frames' \in Seq(Frame)
        /\ Depth \in Nat /\ Len(frames') = Depth + 1
        /\ \A i \in 1..Depth : /\ frames'[i].win = frames[i].win
                               /\ frames'[i].pc = frames[i].pc
                               /\ frames'[i].toNotify \subseteq frames[i].toNotify
        /\ frames'[Depth + 1] = f
    <2>1. frames \in Seq(Frame) /\ Depth \in Nat
      BY DEF StackInv, TypeOK, Depth
    <2> QED
      BY <2>1, Zenon DEF Pushed
  <1>2. DOMAIN frames = 1..Depth /\ DOMAIN frames' = 1..(Depth + 1) /\ Depth' = Depth + 1
    BY <1>1 DEF Depth
  <1>3. \A i \in 1..Depth : frames[i].pc \in {"run", "jobs", "modal"}
    BY <1>1 DEF StackInv, StackShape, Top, Depth
  <1>4. \A i \in 1..Depth : /\ IF frames'[i].pc = "modal" THEN frames'[i].win = NoWindow
                                                         ELSE frames'[i].win \in Window
                            /\ frames'[i].toNotify = {} \/ frames'[i].pc \in {"run", "jobs"}
    BY <1>1, <1>2 DEF StackInv, StackShape
  <1>5. \A i \in DOMAIN frames' : i \in 1..Depth \/ i = Depth + 1
    BY <1>1, <1>2
  <1>6. \A i \in 1..(Depth' - 1) : frames'[i].pc \in {"run", "jobs", "modal"}
    BY <1>1, <1>2, <1>3
  <1> QED
    BY <1>1, <1>4, <1>5, <1>6 DEF StackShape

LEMMA TopShape ==
    ASSUME StackInv, Depth > 0, frames' \in Seq(Frame), Len(frames') = Depth,
           \A i \in 1..(Depth - 1) : frames'[i] = frames[i],
           frames'[Depth].win = Top.win, Top.pc # "modal", frames'[Depth].pc # "modal",
           frames'[Depth].toNotify = {} \/ frames'[Depth].pc \in {"run", "jobs"}
    PROVE  StackShape'
  <1>1. frames \in Seq(Frame) /\ Depth \in Nat
    BY DEF StackInv, TypeOK, Depth
  <1>2. DOMAIN frames = 1..Depth /\ DOMAIN frames' = 1..Depth /\ Depth' = Depth
    BY <1>1 DEF Depth
  <1> QED
    BY <1>1, <1>2 DEF StackInv, StackShape, Top

LEMMA PopShape ==
    ASSUME StackInv, frames # <<>>, Pop
    PROVE  StackShape'
  <1>1. /\ frames \in Seq(Frame) /\ frames' \in Seq(Frame)
        /\ Depth \in Nat /\ Depth > 0 /\ Len(frames') = Depth - 1
        /\ \A i \in 1..(Depth - 1) : frames'[i] = frames[i]
    BY PopEffect DEF StackInv, TypeOK
  <1>2. DOMAIN frames = 1..Depth /\ DOMAIN frames' = 1..(Depth - 1) /\ Depth' = Depth - 1
    BY <1>1 DEF Depth
  <1> QED
    BY <1>1, <1>2 DEF StackInv, StackShape

\* Moving the top to another pc.
LEMMA MoveShape ==
    ASSUME StackInv, frames # <<>>, NEW pc \in FramePc \ {"modal"}, MoveTop(pc), Top.pc # "modal",
           Top.pc \in {"run", "jobs"} => Top.toNotify = {}
    PROVE  /\ StackShape' /\ frames' \in Seq(Frame)
           /\ Top.win \in Window
           /\ \A w \in Window : (InCount(Top, w) <=> (w = Top.win /\ pc \in CountedPc))
                => Cardinality(Counted(w))' = nested[w]
  <1> DEFINE f == [Top EXCEPT !.pc = pc]
  <1>1. /\ Top \in Frame /\ Depth \in Nat /\ Depth > 0
        /\ frames' \in Seq(Frame) /\ Len(frames') = Depth
        /\ \A i \in 1..(Depth - 1) : frames'[i] = frames[i]
        /\ frames'[Depth] = f
    BY MoveTopEffect DEF StackInv, TypeOK
  <1>2. f \in Frame /\ f.win = Top.win /\ f.pc = pc /\ f.toNotify = {}
    <2>1. Depth \in DOMAIN frames
      BY <1>1 DEF StackInv, TypeOK, Depth
    <2>2. Top.toNotify = {}
      BY <2>1 DEF StackInv, StackShape, Top
    <2> QED
      BY <1>1, <2>2 DEF Frame
  <1>4. StackShape'
    BY <1>1, <1>2, TopShape
  <1>5. Top.win \in Window
    BY <1>1 DEF StackInv, StackShape, TypeOK, Top, Depth
  <1>6. ASSUME NEW w \in Window, InCount(Top, w) <=> (w = Top.win /\ pc \in CountedPc)
        PROVE  Cardinality(Counted(w))' = nested[w]
    <2>1. InCount(frames'[Depth], w) <=> InCount(Top, w)
      BY <1>1, <1>2, <1>6 DEF InCount
    <2> QED
      BY <1>1, <2>1, TopKeepsCount
  <1> QED
    BY <1>1, <1>4, <1>5, <1>6

\* Changing the windows that the top frame still has to notify.
LEMMA ToNotifyShape ==
    ASSUME StackInv, frames # <<>>, NEW S \in SUBSET Window, Top.pc \in {"run", "jobs"},
           frames' = [frames EXCEPT ![Depth].toNotify = S]
    PROVE  /\ StackShape' /\ frames' \in Seq(Frame)
           /\ \A w \in Window : Cardinality(Counted(w))' = nested[w]
  <1> DEFINE f == [Top EXCEPT !.toNotify = S]
  <1>1. /\ Top \in Frame /\ Depth \in Nat /\ Depth > 0
        /\ frames \in Seq(Frame)
    BY DEF StackInv, TypeOK, Depth, Top
  <1>2. f \in Frame /\ f.win = Top.win /\ f.pc = Top.pc
    BY <1>1 DEF Frame
  <1>3. frames' = [frames EXCEPT ![Depth] = f]
    BY DEF Top
  <1>4. /\ frames' \in Seq(Frame) /\ Len(frames') = Depth
        /\ \A i \in 1..(Depth - 1) : frames'[i] = frames[i]
        /\ frames'[Depth] = f
    <2> HIDE DEF f
    <2> QED
      BY <1>1, <1>2, <1>3, ReplaceTopEffect
  <1>5. StackShape'
    BY <1>1, <1>2, <1>4, TopShape
  <1>6. ASSUME NEW w \in Window PROVE Cardinality(Counted(w))' = nested[w]
    <2>1. InCount(frames'[Depth], w) <=> InCount(Top, w)
      BY <1>2, <1>4 DEF InCount
    <2> QED
      BY <1>1, <1>4, <2>1, TopKeepsCount
  <1> QED
    BY <1>4, <1>5, <1>6

\* A frame of w that counts is put on the stack.
LEMMA PushCounted ==
    ASSUME StackInv, NEW w \in Window, Pushed(NewFrame(w, "run")),
           frames # <<>> => Top.pc \in {"run", "jobs", "modal"},
           OnProcessingEventStart(w)
    PROVE  /\ StackShape' /\ NestingIsCounted' /\ frames' \in Seq(Frame)
           /\ nested' \in [Window -> Nat]
  <1> DEFINE f == NewFrame(w, "run")
  <1>1. f \in Frame /\ f.win = w /\ f.pc = "run" /\ f.toNotify = {}
    BY NewFrameType DEF NewFrame, FramePc
  <1>2. /\ frames \in Seq(Frame) /\ frames' \in Seq(Frame)
        /\ Depth \in Nat /\ Len(frames') = Depth + 1
        /\ \A i \in 1..Depth : frames'[i].win = frames[i].win /\ frames'[i].pc = frames[i].pc
        /\ frames'[Depth + 1] = f
    BY DEF StackInv, TypeOK, Pushed, Depth
  <1>3. StackShape'
    BY <1>1, PushShape
  <1>4. ASSUME NEW v \in Window PROVE Cardinality(Counted(v))' = nested'[v]
    <2>1. CASE v # w
      BY <1>1, <2>1, PushKeepsCount
         DEF InCount, StackInv, TypeOK, OnProcessingEventStart
    <2>2. CASE v = w
      <3> HIDE DEF f
      <3>1. DOMAIN frames = 1..Depth /\ DOMAIN frames' = 1..(Depth + 1)
        BY <1>2 DEF Depth
      <3>2. \A i : i \in Counted(v)' <=> i \in Counted(v) \cup {Depth + 1}
        BY <1>1, <1>2, <3>1, <2>2 DEF Counted, CountedPc
      <3>3. Depth + 1 \notin Counted(v)
        BY <1>2, <3>1 DEF Counted
      <3>4. Counted(v)' = Counted(v) \cup {Depth + 1}
        BY <3>2
      <3>5. Cardinality(Counted(v))' = nested[v] + 1
        <4>1. PICK n \in Nat : n = Depth + 1
          BY <1>2
        <4>2. n \notin Counted(v) /\ Counted(v)' = Counted(v) \cup {n}
          BY <3>3, <3>4, <4>1
        <4> QED
          BY <4>2, CountUp
      <3> QED
        BY <3>5, <2>2 DEF StackInv, TypeOK, OnProcessingEventStart
    <2> QED
      BY <2>1, <2>2
  <1>5. nested' \in [Window -> Nat]
    BY DEF StackInv, TypeOK, OnProcessingEventStart
  <1> QED
    BY <1>2, <1>3, <1>4, <1>5 DEF NestingIsCounted

\* A popped frame that did not count.
LEMMA PopUncounted ==
    ASSUME StackInv, frames # <<>>, Pop, Top.pc \notin CountedPc, UNCHANGED nested
    PROVE  StackShape' /\ NestingIsCounted' /\ frames' \in Seq(Frame)
  <1>1. \A w \in Window : ~InCount(Top, w)
    BY DEF InCount
  <1>2. \A w \in Window : Cardinality(Counted(w))' = nested[w]
    BY <1>1, PopKeepsCount
  <1> QED
    BY <1>2, PopShape, PopEffect DEF NestingIsCounted, StackInv, TypeOK

\* A top that moves from one counted pc to another, or from one uncounted pc to
\* another.
LEMMA MoveKeepsStack ==
    ASSUME StackInv, frames # <<>>, NEW pc \in FramePc \ {"modal"}, MoveTop(pc), Top.pc # "modal",
           Top.pc \in {"run", "jobs"} => Top.toNotify = {},
           Top.pc \in CountedPc <=> pc \in CountedPc, UNCHANGED nested
    PROVE  StackShape' /\ NestingIsCounted' /\ frames' \in Seq(Frame)
  <1>1. \A w \in Window : InCount(Top, w) <=> (w = Top.win /\ pc \in CountedPc)
    BY DEF InCount
  <1> QED
    BY <1>1, MoveShape DEF NestingIsCounted

LEMMA OnRequestKeepsStack ==
    ASSUME StackInv, OnRequestEventMessageReceived
    PROVE  StackInv'
  <1>1. /\ frames # <<>> /\ Top.pc = "received" /\ MoveTop("start")
        /\ OnProcessingEventStart(Top.win)
    BY DEF OnRequestEventMessageReceived, TopIs
  <1>2. "start" \in FramePc /\ "start" \in CountedPc /\ "received" \notin CountedPc
    BY DEF FramePc, CountedPc
  <1>3. /\ StackShape' /\ frames' \in Seq(Frame) /\ Top.win \in Window
        /\ \A w \in Window : (InCount(Top, w) <=> (w = Top.win /\ "start" \in CountedPc))
             => Cardinality(Counted(w))' = nested[w]
    BY <1>1, <1>2, MoveShape
  <1>4. /\ Depth \in Nat /\ Depth > 0 /\ frames \in Seq(Frame) /\ Len(frames') = Depth
        /\ \A i \in 1..(Depth - 1) : frames'[i] = frames[i]
        /\ frames'[Depth] = [Top EXCEPT !.pc = "start"]
        /\ Top \in Frame
    BY <1>1, <1>2, MoveTopEffect DEF StackInv, TypeOK
  <1>5. ASSUME NEW w \in Window PROVE Cardinality(Counted(w))' = nested'[w]
    <2>1. CASE w # Top.win
      BY <1>1, <1>2, <1>3, <2>1 DEF InCount, OnProcessingEventStart, StackInv, TypeOK
    <2>2. CASE w = Top.win
      <3>1. DOMAIN frames = 1..Depth /\ DOMAIN frames' = 1..Depth
        BY <1>3, <1>4 DEF Depth
      <3>2. Depth \notin Counted(w)
        BY <1>1, <1>2 DEF Counted, Top
      <3>3. frames'[Depth].win = w /\ frames'[Depth].pc = "start"
        BY <1>4, <2>2 DEF Frame
      <3>8. Depth \in 1..Depth /\ \A i \in 1..Depth : i # Depth => frames'[i] = frames[i]
        BY <1>4
      <3>9. Counted(w)' = {i \in 1..Depth : frames'[i].win = w /\ frames'[i].pc \in CountedPc}
        BY <3>1 DEF Counted
      <3>4. \A i : i \in Counted(w)' <=> i \in Counted(w) \cup {Depth}
        BY <1>2, <3>1, <3>8, <3>9, <3>3 DEF Counted
      <3>5. PICK n \in Nat : n = Depth
        BY <1>4
      <3>6. n \notin Counted(w) /\ Counted(w)' = Counted(w) \cup {n}
        BY <3>2, <3>4, <3>5
      <3>7. Cardinality(Counted(w))' = nested[w] + 1
        BY <3>6, CountUp
      <3> QED
        BY <3>7, <2>2, <1>1 DEF OnProcessingEventStart, StackInv, TypeOK
    <2> QED
      BY <2>1, <2>2
  <1>6. waiting' \in [Window -> BOOLEAN]
    BY <1>3, Zenon DEF OnRequestEventMessageReceived, StackInv, TypeOK
  <1>7. nested' \in [Window -> Nat]
    BY <1>1, <1>3 DEF OnProcessingEventStart, StackInv, TypeOK
  <1>8. TypeOK'
    BY <1>3, <1>6, <1>7 DEF OnRequestEventMessageReceived, StackInv, TypeOK
  <1> QED
    BY <1>3, <1>5, <1>8 DEF StackInv, NestingIsCounted

LEMMA OnFinishKeepsStack ==
    ASSUME StackInv, OnProcessingEventFinish
    PROVE  StackInv'
  <1>1. /\ frames # <<>> /\ Top.pc = "finish"
        /\ nested' = [nested EXCEPT ![Top.win] = @ - 1]
        /\ MoveTop("jobs") \/ MoveTop("request") \/ Pop
    BY DEF OnProcessingEventFinish, TopIs
  <1>2. /\ "jobs" \in FramePc \ CountedPc /\ "request" \in FramePc \ CountedPc
        /\ "finish" \in CountedPc
    BY DEF FramePc, CountedPc
  <1>3. /\ Depth \in Nat /\ Depth > 0 /\ frames \in Seq(Frame) /\ Top \in Frame
        /\ DOMAIN frames = 1..Depth
    BY <1>1 DEF StackInv, TypeOK, Depth, Top
  <1>4. Top.win \in Window
    BY <1>1, <1>3 DEF StackInv, StackShape, Top
  <1>5. StackShape' /\ frames' \in Seq(Frame)
    BY <1>1, <1>2, MoveShape, PopShape, PopEffect DEF StackInv, TypeOK
  <1>6. /\ Len(frames') = Depth - 1 \/ (Len(frames') = Depth /\ frames'[Depth].pc \notin CountedPc)
        /\ \A i \in 1..(Depth - 1) : frames'[i] = frames[i]
    <2>1. CASE Pop
      BY <1>1, <2>1, PopEffect DEF StackInv, TypeOK
    <2>2. ASSUME NEW pc \in FramePc \ CountedPc, MoveTop(pc)
          PROVE  /\ Len(frames') = Depth /\ frames'[Depth].pc \notin CountedPc
                 /\ \A i \in 1..(Depth - 1) : frames'[i] = frames[i]
      <3>1. /\ Len(frames') = Depth
            /\ \A i \in 1..(Depth - 1) : frames'[i] = frames[i]
            /\ frames'[Depth] = [Top EXCEPT !.pc = pc]
        BY <1>1, <2>2, MoveTopEffect DEF StackInv, TypeOK
      <3> QED
        BY <1>3, <3>1 DEF Frame
    <2> QED
      BY <1>1, <1>2, <2>1, <2>2
  <1>7. \A w \in Window : \A i : i \in Counted(w)' <=> i \in Counted(w) \ {Depth}
    <2>1. DOMAIN frames' = 1..Len(frames')
      BY <1>5
    <2>2. \A i \in 1..Depth : i # Depth => frames'[i] = frames[i]
      BY <1>3, <1>6
    <2>3. \A w \in Window : Counted(w)' =
            {i \in 1..Len(frames') : frames'[i].win = w /\ frames'[i].pc \in CountedPc}
      BY <2>1 DEF Counted
    <2>4. ASSUME NEW w \in Window, NEW i, i \in Counted(w)'
          PROVE  i \in Counted(w) \ {Depth}
      <3>1. i \in 1..Len(frames') /\ frames'[i].win = w /\ frames'[i].pc \in CountedPc
        BY <2>3, <2>4
      <3>2. i \in 1..Depth /\ i # Depth
        BY <1>3, <1>6, <3>1
      <3> QED
        BY <1>3, <2>2, <3>1, <3>2 DEF Counted
    <2>5. ASSUME NEW w \in Window, NEW i, i \in Counted(w) \ {Depth}
          PROVE  i \in Counted(w)'
      <3>1. i \in 1..Depth /\ i # Depth /\ frames[i].win = w /\ frames[i].pc \in CountedPc
        BY <1>3, <2>5 DEF Counted
      <3>2. i \in 1..Len(frames')
        BY <1>3, <1>6, <3>1
      <3> QED
        BY <2>2, <2>3, <3>1, <3>2
    <2> QED
      BY <2>4, <2>5
  <1>8. \A w \in Window : w # Top.win => Depth \notin Counted(w)
    BY DEF Counted, Top
  <1>9. Depth \in Counted(Top.win)
    BY <1>1, <1>2, <1>3 DEF Counted, Top
  <1>10. ASSUME NEW w \in Window
         PROVE  Cardinality(Counted(w))' = nested'[w] /\ nested'[w] \in Nat
    <2>1. CASE w # Top.win
      <3>1. Counted(w)' = Counted(w)
        BY <1>7, <1>8, <2>1
      <3> QED
        BY <3>1, <2>1, <1>1 DEF StackInv, TypeOK, NestingIsCounted
    <2>2. CASE w = Top.win
      <3>1. PICK n \in Nat : n = Depth
        BY <1>3
      <3>2. n \in Counted(w) /\ Counted(w)' = Counted(w) \ {n}
        BY <1>7, <1>9, <2>2, <3>1
      <3>3. Cardinality(Counted(w))' = nested[w] - 1 /\ nested[w] > 0
        BY <3>2, CountDown
      <3> QED
        BY <3>3, <2>2, <1>1 DEF StackInv, TypeOK
    <2> QED
      BY <2>1, <2>2
  <1>11. nested' \in [Window -> Nat]
    BY <1>1, <1>10 DEF StackInv, TypeOK
  <1>12. TypeOK'
    BY <1>5, <1>11 DEF OnProcessingEventFinish, StackInv, TypeOK
  <1> QED
    BY <1>5, <1>10, <1>12 DEF StackInv, NestingIsCounted

LEMMA ExecuteKeepsStack ==
    ASSUME StackInv, ExecuteNextTask
    PROVE  StackInv'
  <1>1. frames # <<>> /\ Top.pc = "fetch" /\ UNCHANGED nested
    BY DEF ExecuteNextTask, TopIs
  <1>2. {"finish", "run", "fetch"} \subseteq FramePc \cap CountedPc
    BY DEF FramePc, CountedPc
  <1>3. /\ Top \in Frame /\ Depth \in Nat /\ Depth > 0 /\ frames \in Seq(Frame)
        /\ DOMAIN frames = 1..Depth
    BY <1>1 DEF StackInv, TypeOK, Depth, Top
  <1>4. Top.win \in Window
    BY <1>1, <1>3 DEF StackInv, StackShape, Top
  <1>5. CASE /\ MoveTop("finish") /\ UNCHANGED <<tasks, served>>
    BY <1>1, <1>2, <1>5, MoveKeepsStack DEF ExecuteNextTask, StackInv, TypeOK
  <1>6. CASE \E t \in tasks[Top.win] :
              /\ tasks' = [tasks EXCEPT ![Top.win] = @ \ {t}]
              /\ served' = [served EXCEPT ![Top.win] = @ \cup {t}]
              /\ frames' = [frames EXCEPT ![Depth].pc = "run", ![Depth].task = {t.num}]
    <2>1. PICK t \in tasks[Top.win] :
              /\ tasks' = [tasks EXCEPT ![Top.win] = @ \ {t}]
              /\ served' = [served EXCEPT ![Top.win] = @ \cup {t}]
              /\ frames' = [frames EXCEPT ![Depth].pc = "run", ![Depth].task = {t.num}]
      BY <1>6
    <2>2. t \in Task /\ t.num \in Nat
      BY <1>4, <2>1 DEF StackInv, TypeOK, Task
    <2> DEFINE f == [Top EXCEPT !.pc = "run", !.task = {t.num}]
    <2>3. f \in Frame /\ f.win = Top.win /\ f.pc = "run"
      BY <1>3, <2>2 DEF Frame, FramePc
    <2>4. frames' = [frames EXCEPT ![Depth] = f]
      BY <1>3, <2>1 DEF Top, Frame
    <2>5. /\ frames' \in Seq(Frame) /\ Len(frames') = Depth
          /\ \A i \in 1..(Depth - 1) : frames'[i] = frames[i]
          /\ frames'[Depth] = f
      <3> HIDE DEF f
      <3> QED
        BY <1>1, <1>3, <2>3, <2>4, ReplaceTopEffect
    <2>6. StackShape'
      BY <1>1, <1>3, <2>3, <2>5, TopShape
    <2>7. ASSUME NEW w \in Window PROVE Cardinality(Counted(w))' = nested[w]
      <3>1. InCount(frames'[Depth], w) <=> InCount(Top, w)
        BY <1>1, <1>2, <2>3, <2>5 DEF InCount
      <3> QED
        BY <1>3, <2>5, <3>1, TopKeepsCount
    <2>8. tasks' \in [Window -> SUBSET Task] /\ served' \in [Window -> SUBSET Task]
      BY <1>4, <2>1, <2>2 DEF StackInv, TypeOK
    <2>9. TypeOK'
      BY <2>5, <2>8 DEF ExecuteNextTask, StackInv, TypeOK
    <2> QED
      BY <1>1, <2>6, <2>7, <2>9 DEF StackInv, NestingIsCounted
  <1> QED
    BY <1>5, <1>6 DEF ExecuteNextTask

\* Queueing leaves the stack alone and keeps the types.
LEMMA PutKeepsStack ==
    ASSUME StackInv, BeginSomePut \/ PutStep
    PROVE  StackInv'
  <1>1. ASSUME NEW by \in {"main", "worker"}, NEW ws \in PutTargets, NEW p \in Priority,
               BeginPut(by, ws, p)
        PROVE  StackInv'
    <2>1. ws \in SUBSET Window
      BY DEF PutTargets, Shown
    <2>2. put' \in Put
      BY <1>1, <2>1 DEF BeginPut, Put
    <2>3. TypeOK'
      BY <1>1, <2>2 DEF BeginPut, StackInv, TypeOK
    <2> QED
      BY <1>1, <2>3, SameStack DEF BeginPut, StackInv
  <1>2. ASSUME NEW w \in Window, PutAdd(w)
        PROVE  StackInv'
    <2>1. put \in Put
      BY <1>2, PutType DEF PutAdd, StackInv
    <2>2. put' \in Put
      BY <1>2, <2>1 DEF PutAdd, Put
    <2>3. [num |-> taskNum + 1, prio |-> put.prio] \in Task
      BY <2>1 DEF Put, Task, StackInv, TypeOK
    <2>4. tasks' \in [Window -> SUBSET Task]
      BY <1>2, <2>3, AddTaskType DEF PutAdd, StackInv, TypeOK
    <2>5. TypeOK'
      BY <1>2, <2>2, <2>4 DEF PutAdd, StackInv, TypeOK
    <2> QED
      BY <1>2, <2>5, SameStack DEF PutAdd, StackInv
  <1>3. ASSUME PutRequest
        PROVE  StackInv'
    <2>1. put \in Put
      BY <1>3, PutType DEF PutRequest, StackInv
    <2>2. put.at \in Window
      BY <1>3, <2>1 DEF PutRequest, Put
    <2>3. put' \in Put \cup {NoPut}
      BY <1>3, <2>1 DEF PutRequest, Put
    <2>4. waiting' \in [Window -> BOOLEAN] /\ posted' \in [Window -> Nat]
      BY <1>3, <2>2, RequestType DEF PutRequest, StackInv
    <2>5. TypeOK'
      BY <1>3, <2>3, <2>4 DEF PutRequest, StackInv, TypeOK
    <2> QED
      BY <1>3, <2>5, SameStack DEF PutRequest, StackInv
  <1> QED
    BY <1>1, <1>2, <1>3 DEF BeginSomePut, PutStep

\* The other steps of the main thread.
LEMMA ReceiveKeepsStack ==
    ASSUME StackInv, NEW w \in Window, Receive(w)
    PROVE  StackInv'
  <1> DEFINE f == NewFrame(w, "received")
  <1>1. f \in Frame /\ f.win = w /\ f.pc = "received" /\ f.toNotify = {}
    BY NewFrameType DEF NewFrame, FramePc
  <1>2. /\ Push(f) /\ UNCHANGED nested
        /\ frames # <<>> => Top.pc \in {"run", "jobs", "modal"}
    BY DEF Receive, CanPump, InUserCode
  <1> HIDE DEF f
  <1>3. frames' \in Seq(Frame) /\ Pushed(f)
    BY <1>1, <1>2, PushEffect, PushIsPushed DEF StackInv, TypeOK
  <1>4. \A v \in Window : ~InCount(f, v)
    BY <1>1 DEF InCount, CountedPc
  <1>5. StackShape' /\ \A v \in Window : Cardinality(Counted(v))' = nested[v]
    BY <1>1, <1>2, <1>3, <1>4, PushShape, PushKeepsCount
  <1>6. posted' \in [Window -> Nat]
    BY DEF Receive, StackInv, TypeOK
  <1>7. TypeOK'
    BY <1>3, <1>6 DEF Receive, StackInv, TypeOK
  <1> QED
    BY <1>2, <1>5, <1>7 DEF StackInv, NestingIsCounted

\* SendNotify pushes a frame for a panel that still exists and only shortens
\* the list otherwise.
LEMMA SendNotifyEffect ==
    ASSUME StackInv, NEW w \in Window, SendNotify(w)
    PROVE  /\ frames # <<>> /\ Top.pc \in {"run", "jobs"}
           /\ Top.toNotify \ {w} \in SUBSET Window
           /\ \/ Pushed(NewFrame(w, "run")) /\ OnProcessingEventStart(w)
              \/ /\ frames' = [frames EXCEPT ![Depth].toNotify = Top.toNotify \ {w}]
                 /\ UNCHANGED nested
  <1>1. /\ frames # <<>> /\ Top \in Frame /\ Depth \in Nat /\ Depth > 0
        /\ frames \in Seq(Frame) /\ w \in Top.toNotify
    BY DEF SendNotify, StackInv, TypeOK, Depth, Top
  <1>2. Top.pc \in {"run", "jobs"}
    BY <1>1 DEF StackInv, StackShape, Top, Depth
  <1> DEFINE S == Top.toNotify \ {w}
             rest == [Top EXCEPT !.toNotify = @ \ {w}]
             covered == [frames EXCEPT ![Depth] = rest]
             f == NewFrame(w, "run")
  <1>3. S \in SUBSET Window
    BY <1>1 DEF Frame
  <1>4. /\ rest \in Frame /\ rest.win = Top.win /\ rest.pc = Top.pc /\ rest.task = Top.task
        /\ rest.toNotify \subseteq Top.toNotify
    BY <1>1 DEF Frame
  <1>5. CASE life[w] = "shown"
    <2>1. frames' = Append(covered, f) /\ OnProcessingEventStart(w)
      BY <1>5 DEF SendNotify
    <2>2. f \in Frame
      BY NewFrameType DEF FramePc
    <2>3. /\ covered \in Seq(Frame) /\ Len(covered) = Depth
          /\ \A i \in 1..Depth : covered[i] = IF i = Depth THEN rest ELSE frames[i]
      <3> HIDE DEF rest
      <3> QED
        BY <1>1, <1>4 DEF Depth
    <2>4. Pushed(f)
      <3> HIDE DEF covered, rest, f
      <3>1. /\ frames' \in Seq(Frame) /\ Len(frames') = Depth + 1
            /\ \A i \in 1..Depth : frames'[i] = covered[i]
            /\ frames'[Depth + 1] = f
        BY <1>1, <2>1, <2>2, <2>3
      <3>2. \A i \in 1..Depth : /\ frames'[i].win = frames[i].win
                                /\ frames'[i].pc = frames[i].pc
                                /\ frames'[i].task = frames[i].task
                                /\ frames'[i].toNotify \subseteq frames[i].toNotify
        BY <1>4, <2>3, <3>1 DEF Top
      <3> QED
        BY <3>1, <3>2 DEF Pushed
    <2> QED
      BY <1>1, <1>2, <1>3, <2>1, <2>4
  <1>6. CASE life[w] # "shown"
    <2>1. frames' = [frames EXCEPT ![Depth] = rest] /\ UNCHANGED nested
      BY <1>6 DEF SendNotify
    <2>2. frames' = [frames EXCEPT ![Depth].toNotify = S]
      BY <2>1 DEF Top
    <2> QED
      BY <1>1, <1>2, <1>3, <2>1, <2>2
  <1> QED
    BY <1>5, <1>6

LEMMA SendNotifyKeepsStack ==
    ASSUME StackInv, NEW w \in Window, SendNotify(w)
    PROVE  StackInv'
  <1>1. /\ frames # <<>> /\ Top.pc \in {"run", "jobs"}
        /\ Top.toNotify \ {w} \in SUBSET Window
    BY SendNotifyEffect
  <1>2. CASE Pushed(NewFrame(w, "run")) /\ OnProcessingEventStart(w)
    <2>1. /\ StackShape' /\ NestingIsCounted' /\ frames' \in Seq(Frame)
          /\ nested' \in [Window -> Nat]
      BY <1>1, <1>2, PushCounted
    <2>2. TypeOK'
      BY <2>1 DEF SendNotify, StackInv, TypeOK
    <2> QED
      BY <2>1, <2>2 DEF StackInv
  <1>3. CASE /\ frames' = [frames EXCEPT ![Depth].toNotify = Top.toNotify \ {w}]
             /\ UNCHANGED nested
    <2>1. /\ StackShape' /\ frames' \in Seq(Frame)
          /\ \A v \in Window : Cardinality(Counted(v))' = nested[v]
      <3> DEFINE S == Top.toNotify \ {w}
      <3>1. S \in SUBSET Window /\ frames' = [frames EXCEPT ![Depth].toNotify = S]
        BY <1>1, <1>3
      <3> HIDE DEF S
      <3> QED
        BY <1>1, <3>1, ToNotifyShape
    <2>2. TypeOK'
      BY <1>3, <2>1 DEF SendNotify, StackInv, TypeOK
    <2> QED
      BY <1>3, <2>1, <2>2 DEF StackInv, NestingIsCounted
  <1> QED
    BY <1>2, <1>3, SendNotifyEffect

LEMMA MovesKeepStack ==
    ASSUME StackInv, ProcessNextEvent \/ ProcessStalledMessage \/ RunEnds
    PROVE  StackInv'
  <1>1. {"start", "fetch", "run", "finish"} \subseteq FramePc \cap CountedPc
    BY DEF FramePc, CountedPc
  <1>2. PICK pc \in {"fetch", "run", "finish"} :
           /\ frames # <<>> /\ MoveTop(pc) /\ Top.pc \in {"start", "run"} /\ UNCHANGED nested
           /\ Top.pc = "run" => Top.toNotify = {}
    BY DEF ProcessNextEvent, ProcessStalledMessage, RunEnds, TopIs, InUserCode
  <1>3. StackShape' /\ NestingIsCounted' /\ frames' \in Seq(Frame)
    BY <1>1, <1>2, MoveKeepsStack
  <1>4. TypeOK'
    BY <1>3 DEF ProcessNextEvent, ProcessStalledMessage, RunEnds, StackInv, TypeOK
  <1> QED
    BY <1>3, <1>4 DEF StackInv

LEMMA LeavingKeepsStack ==
    ASSUME StackInv, RunJobsEnds \/ RequestNextEvent \/ CloseModal
    PROVE  StackInv'
  <1>1. /\ frames # <<>> /\ UNCHANGED nested /\ Top.pc \in {"jobs", "request", "modal"}
        /\ Pop \/ (MoveTop("request") /\ Top.pc = "jobs" /\ Top.toNotify = {})
    BY DEF RunJobsEnds, RequestNextEvent, CloseModal, TopIs, InUserCode
  <1>2. /\ {"jobs", "request", "modal"} \cap CountedPc = {}
        /\ "request" \in FramePc
    BY DEF CountedPc, FramePc
  <1>3. StackShape' /\ NestingIsCounted' /\ frames' \in Seq(Frame)
    BY <1>1, <1>2, MoveKeepsStack, PopUncounted
  <1>4. waiting' \in [Window -> BOOLEAN] /\ posted' \in [Window -> Nat]
    <2>1. CASE RequestNextEvent
      <3>1. Top.win \in Window
        BY <2>1 DEF RequestNextEvent, TopIs, StackInv, StackShape, TypeOK, Top, Depth
      <3>2. CASE life[Top.win] = "shown"
        <4>1. PICK w \in Window : w = Top.win
          BY <3>1
        <4>2. RequestNextEventImpl(w)
          BY <2>1, <3>2, <4>1 DEF RequestNextEvent
        <4> QED
          BY <4>2, RequestType DEF StackInv
      <3>3. CASE life[Top.win] # "shown"
        BY <2>1, <3>3 DEF RequestNextEvent, StackInv, TypeOK
      <3> QED
        BY <3>2, <3>3
    <2>2. CASE ~RequestNextEvent
      BY <2>2 DEF RunJobsEnds, CloseModal, StackInv, TypeOK
    <2> QED
      BY <2>1, <2>2
  <1>5. TypeOK'
    BY <1>3, <1>4 DEF RunJobsEnds, RequestNextEvent, CloseModal, StackInv, TypeOK
  <1> QED
    BY <1>3, <1>5 DEF StackInv

LEMMA EnvironmentKeepsStack ==
    ASSUME StackInv, Environment
    PROVE  StackInv'
  <1>1. ASSUME NEW w \in Window, AddWindow(w) \/ RemoveWindow(w) PROVE StackInv'
    <2>1. waiting' \in [Window -> BOOLEAN]
      BY <1>1, Zenon DEF AddWindow, RemoveWindow, StackInv, TypeOK
    <2>2. /\ life' \in [Window -> {"absent", "shown", "destroyed"}]
          /\ tasks' \in [Window -> SUBSET Task]
          /\ posted' \in [Window -> Nat]
      <3>1. CASE AddWindow(w)
        BY <3>1 DEF AddWindow, StackInv, TypeOK
      <3>2. CASE RemoveWindow(w)
        BY <3>2 DEF RemoveWindow, StackInv, TypeOK
      <3> QED
        BY <1>1, <3>1, <3>2
    <2>3. UNCHANGED <<nested, taskNum, put, frames, served, env>>
      BY <1>1 DEF AddWindow, RemoveWindow
    <2>4. TypeOK'
      BY <2>1, <2>2, <2>3 DEF StackInv, TypeOK
    <2> QED
      BY <2>3, <2>4, SameStack DEF StackInv
  <1>2. ASSUME NEW w \in Window, ProcessEventManually(w) PROVE StackInv'
    <2>1. /\ Push(NewFrame(w, "run")) /\ OnProcessingEventStart(w)
          /\ frames # <<>> => Top.pc \in {"run", "jobs", "modal"}
      BY <1>2 DEF ProcessEventManually, CanPump, InUserCode
    <2>2. Pushed(NewFrame(w, "run"))
      BY <2>1, NewFrameType, PushIsPushed DEF FramePc, StackInv, TypeOK
    <2>3. /\ StackShape' /\ NestingIsCounted' /\ frames' \in Seq(Frame)
          /\ nested' \in [Window -> Nat]
      BY <2>1, <2>2, PushCounted
    <2>4. TypeOK'
      BY <1>2, <2>3 DEF ProcessEventManually, StackInv, TypeOK
    <2> QED
      BY <2>3, <2>4 DEF StackInv
  <1>3. ASSUME OpenModal PROVE StackInv'
    <2> DEFINE f == NewFrame(NoWindow, "modal")
    <2>1. f \in Frame /\ f.pc = "modal" /\ f.win = NoWindow /\ f.toNotify = {}
      BY NewFrameType DEF NewFrame, FramePc
    <2>2. /\ Push(f) /\ UNCHANGED nested
          /\ frames # <<>> => Top.pc \in {"run", "jobs", "modal"}
      BY <1>3 DEF OpenModal, CanPump, InUserCode
    <2> HIDE DEF f
    <2>3. frames' \in Seq(Frame) /\ Pushed(f)
      BY <2>1, <2>2, PushEffect, PushIsPushed DEF StackInv, TypeOK
    <2>4. \A v \in Window : ~InCount(f, v)
      BY <2>1 DEF InCount, CountedPc
    <2>5. StackShape' /\ \A v \in Window : Cardinality(Counted(v))' = nested[v]
      BY <2>1, <2>2, <2>3, <2>4, PushShape, PushKeepsCount
    <2>6. TypeOK'
      BY <1>3, <2>3 DEF OpenModal, StackInv, TypeOK
    <2> QED
      BY <2>2, <2>5, <2>6 DEF StackInv, NestingIsCounted
  <1>4. ASSUME NotifyOthers PROVE StackInv'
    <2>1. /\ frames # <<>> /\ Top.pc \in {"run", "jobs"} /\ UNCHANGED nested
          /\ frames' = [frames EXCEPT ![Depth].toNotify = Shown \ {Top.win}]
      BY <1>4 DEF NotifyOthers, TopIs
    <2>2. Shown \ {Top.win} \in SUBSET Window
      BY DEF Shown
    <2>3. /\ StackShape' /\ frames' \in Seq(Frame)
          /\ \A v \in Window : Cardinality(Counted(v))' = nested[v]
      BY <2>1, <2>2, ToNotifyShape
    <2>4. TypeOK'
      BY <1>4, <2>3 DEF NotifyOthers, StackInv, TypeOK
    <2> QED
      BY <2>1, <2>3, <2>4 DEF StackInv, NestingIsCounted
  <1> QED
    BY <1>1, <1>2, <1>3, <1>4, MovesKeepStack, PutKeepsStack DEF Environment

LEMMA StackInvStep == StackInv /\ [Next]_vars => StackInv'
  <1> SUFFICES ASSUME StackInv, [Next]_vars PROVE StackInv'
    OBVIOUS
  <1>1. CASE UNCHANGED vars
    BY <1>1, SameStack DEF vars, StackInv, TypeOK
  <1>2. CASE MainStep
    BY <1>2, ReceiveKeepsStack, SendNotifyKeepsStack, OnRequestKeepsStack, MovesKeepStack,
       ExecuteKeepsStack, OnFinishKeepsStack, LeavingKeepsStack DEF MainStep
  <1>3. CASE PutStep
    BY <1>3, PutKeepsStack
  <1>4. CASE Environment
    BY <1>4, EnvironmentKeepsStack
  <1> QED
    BY <1>1, <1>2, <1>3, <1>4 DEF Next

LEMMA StackInvInit == Init => StackInv
  <1> SUFFICES ASSUME Init PROVE StackInv
    OBVIOUS
  <1>1. TypeOK
    BY DEF Init, TypeOK
  <1>2. StackShape
    BY DEF Init, StackShape, Depth
  <1>3. \A w \in Window : Counted(w) = {}
    BY DEF Init, Counted
  <1>4. NestingIsCounted
    BY <1>3, FS_EmptySet DEF Init, NestingIsCounted
  <1> QED
    BY <1>1, <1>2, <1>4 DEF StackInv

\* The dispatcher's data and the main thread's stack are always well formed.
THEOREM TypeCorrect == Spec => []TypeOK
  <1>1. Spec => []StackInv
    BY StackInvInit, StackInvStep, PTL DEF Spec
  <1>2. StackInv => TypeOK
    BY DEF StackInv
  <1> QED
    BY <1>1, <1>2, PTL

\* eventNestedCounter_ counts the unfinished events of its panel, for any number
\* of panels, nested loops and windows destroyed on the way.
THEOREM CounterIsRight == Spec => []NestingIsCounted
  <1>1. Spec => []StackInv
    BY StackInvInit, StackInvStep, PTL DEF Spec
  <1>2. StackInv => NestingIsCounted
    BY DEF StackInv
  <1> QED
    BY <1>1, <1>2, PTL

------------------------------------------------------------------------------
(* The run_next_event protocol loses no wake-up and never doubles a message. *)

\* A put in progress only concerns windows that are in the map: it holds the
\* map's mutex, so no window leaves the map meanwhile.
PutInv == put # NoPut => put.todo \subseteq Shown /\ put.at \in Shown \cup {NoWindow}

\* w's message was fetched and is not acknowledged yet.
Fetched(w) == TopIs("received") /\ Top.win = w

\* WaitingIsAccurate, case by case.
OneMessage ==
    \A w \in Shown :
        /\ waiting[w] => posted[w] = 0 /\ ~Fetched(w)
        /\ ~waiting[w] => \/ posted[w] = 1 /\ ~Fetched(w)
                          \/ posted[w] = 0 /\ Fetched(w)

WakeInv == PutInv /\ NothingForGoneWindows /\ OneMessage /\ NoLostWakeup

HasFrame(w) == \E i \in DOMAIN frames : frames[i].win = w

------------------------------------------------------------------------------
(* What the steps do to the frames *)

TopMoved ==
    /\ Depth > 0 /\ frames' \in Seq(Frame) /\ Len(frames') = Depth
    /\ \A i \in 1..(Depth - 1) : frames'[i] = frames[i]
    /\ frames'[Depth].win = Top.win

Popped ==
    /\ Depth > 0 /\ frames' \in Seq(Frame) /\ Len(frames') = Depth - 1
    /\ \A i \in 1..(Depth - 1) : frames'[i] = frames[i]

LEMMA PushedFrames ==
    ASSUME StackInv, NEW f \in Frame, Pushed(f)
    PROVE  /\ \A w \in Window : HasFrame(w) => HasFrame(w)'
           /\ HasFrame(f.win)'
           /\ \A w \in Window : Fetched(w)' <=> f.pc = "received" /\ f.win = w
  <1>1. /\ frames \in Seq(Frame) /\ frames' \in Seq(Frame) /\ Depth \in Nat
        /\ DOMAIN frames = 1..Depth /\ DOMAIN frames' = 1..(Depth + 1)
        /\ Depth' = Depth + 1 /\ frames'[Depth + 1] = f
        /\ \A i \in 1..Depth : frames'[i].win = frames[i].win
    BY DEF StackInv, TypeOK, Pushed, Depth
  <1>2. \A w \in Window : HasFrame(w) => HasFrame(w)'
    BY <1>1 DEF HasFrame
  <1>3. Depth + 1 \in DOMAIN frames' /\ frames' # <<>>
    BY <1>1
  <1>4. HasFrame(f.win)'
    BY <1>1, <1>3 DEF HasFrame
  <1>5. Top' = f
    BY <1>1 DEF Top
  <1> QED
    BY <1>2, <1>3, <1>4, <1>5 DEF Fetched, TopIs

LEMMA MovedFrames ==
    ASSUME StackInv, TopMoved
    PROVE  /\ \A w \in Window : HasFrame(w) => HasFrame(w)'
           /\ Top' = frames'[Depth] /\ frames' # <<>>
           /\ HasFrame(Top.win)'
  <1>1. /\ frames \in Seq(Frame) /\ frames' \in Seq(Frame) /\ Depth \in Nat /\ Depth > 0
        /\ DOMAIN frames = 1..Depth /\ DOMAIN frames' = 1..Depth
        /\ Depth' = Depth
    BY DEF StackInv, TypeOK, TopMoved, Depth
  <1>2. \A i \in 1..Depth : frames'[i].win = frames[i].win
    BY <1>1 DEF TopMoved, Top
  <1>3. Depth \in DOMAIN frames'
    BY <1>1
  <1> QED
    BY <1>1, <1>2, <1>3 DEF HasFrame, Top

LEMMA PoppedFrames ==
    ASSUME StackInv, Popped
    PROVE  /\ \A w \in Window : HasFrame(w) /\ Top.win # w => HasFrame(w)'
           /\ \A w \in Window : ~Fetched(w)'
  <1>1. /\ frames \in Seq(Frame) /\ frames' \in Seq(Frame) /\ Depth \in Nat /\ Depth > 0
        /\ DOMAIN frames = 1..Depth /\ DOMAIN frames' = 1..(Depth - 1)
        /\ Depth' = Depth - 1
        /\ \A i \in 1..(Depth - 1) : frames'[i] = frames[i]
    BY DEF StackInv, TypeOK, Popped, Depth
  <1>2. ASSUME NEW w \in Window, HasFrame(w), Top.win # w PROVE HasFrame(w)'
    <2>1. PICK i \in 1..Depth : frames[i].win = w
      BY <1>1, <1>2 DEF HasFrame
    <2>2. i # Depth
      BY <1>2, <2>1 DEF Top
    <2>3. i \in 1..(Depth - 1)
      BY <1>1, <2>1, <2>2
    <2> QED
      BY <1>1, <2>1, <2>3 DEF HasFrame
  <1>3. ASSUME frames' # <<>> PROVE Top'.pc \in {"run", "jobs", "modal"}
    <2>1. Depth - 1 \in 1..(Depth - 1)
      BY <1>1, <1>3
    <2>2. Top' = frames[Depth - 1]
      BY <1>1, <2>1 DEF Top
    <2> QED
      BY <1>1, <2>1, <2>2 DEF StackInv, StackShape
  <1> QED
    BY <1>2, <1>3 DEF Fetched, TopIs

\* A panel whose counter is not zero after a step has a frame on the stack.
LEMMA CountedHasFrame ==
    ASSUME StackInv', NEW w \in Window, nested'[w] # 0
    PROVE  HasFrame(w)'
  <1>1. nested'[w] = Cardinality(Counted(w))'
    BY DEF StackInv, NestingIsCounted
  <1>2. Counted(w)' # {}
    BY <1>1, FS_EmptySet
  <1> QED
    BY <1>2 DEF Counted, HasFrame

\* Requesting the next event: afterwards a message is under way or there is
\* nothing to do.
LEMMA RequestEffect ==
    ASSUME StackInv, OneMessage, NEW w \in Shown, RequestNextEventImpl(w), ~Fetched(w)
    PROVE  /\ tasks[w] # {} => posted'[w] > 0
           /\ waiting'[w] => posted'[w] = 0
           /\ ~waiting'[w] => posted'[w] = 1
           /\ \A v \in Window \ {w} : waiting'[v] = waiting[v] /\ posted'[v] = posted[v]
  <1>1. w \in Window /\ waiting \in [Window -> BOOLEAN] /\ posted \in [Window -> Nat]
    BY DEF Shown, StackInv, TypeOK
  <1>2. /\ waiting[w] => posted[w] = 0
        /\ ~waiting[w] => posted[w] = 1
    BY DEF OneMessage
  <1>3. CASE tasks[w] # {} /\ waiting[w]
    <2>1. /\ waiting' = [waiting EXCEPT ![w] = FALSE]
          /\ posted' = [posted EXCEPT ![w] = @ + 1]
      BY <1>3, Zenon DEF RequestNextEventImpl
    <2>2. posted'[w] = 1 /\ \A v \in Window \ {w} : posted'[v] = posted[v]
      BY <1>1, <1>2, <1>3, <2>1
    <2>3. ~waiting'[w] /\ \A v \in Window \ {w} : waiting'[v] = waiting[v]
      BY <1>1, <2>1, Zenon
    <2> QED
      BY <2>2, <2>3
  <1>4. CASE ~(tasks[w] # {} /\ waiting[w])
    <2>1. waiting' = waiting /\ posted' = posted
      BY <1>4, Zenon DEF RequestNextEventImpl
    <2> QED
      BY <1>2, <1>4, <2>1
  <1> QED
    BY <1>3, <1>4

------------------------------------------------------------------------------
(* Every step keeps WakeInv *)

\* A step that keeps messages, flags, tasks and windows, and that does not
\* acknowledge or fetch a message or take away a panel's last frame.
LEMMA QuietStep ==
    ASSUME WakeInv, UNCHANGED <<life, tasks, waiting, posted, put>>,
           \A w \in Window : Fetched(w)' <=> Fetched(w),
           \A w \in Window : HasFrame(w) => HasFrame(w)'
    PROVE  WakeInv'
  <1>1. Shown' = Shown
    BY DEF Shown
  <1>2. PutInv' /\ NothingForGoneWindows'
    BY <1>1 DEF WakeInv, PutInv, NothingForGoneWindows
  <1>3. OneMessage'
    BY <1>1 DEF WakeInv, OneMessage, Shown
  <1>4. NoLostWakeup'
    BY DEF WakeInv, NoLostWakeup, HasFrame
  <1> QED
    BY <1>2, <1>3, <1>4 DEF WakeInv

LEMMA PutKeepsWake ==
    ASSUME StackInv, WakeInv, BeginSomePut \/ PutStep
    PROVE  WakeInv'
  <1>1. UNCHANGED <<life, frames>>
    BY DEF BeginSomePut, BeginPut, PutStep, PutAdd, PutRequest
  <1>2. /\ Shown' = Shown
        /\ \A w \in Window : (Fetched(w)' <=> Fetched(w)) /\ (HasFrame(w)' <=> HasFrame(w))
    BY <1>1 DEF Shown, Fetched, TopIs, Top, Depth, HasFrame
  <1>3. ASSUME NEW by \in {"main", "worker"}, NEW ws \in PutTargets, NEW p \in Priority,
               BeginPut(by, ws, p)
        PROVE  WakeInv'
    <2>1. /\ put = NoPut /\ put'.todo = ws /\ put'.at = NoWindow
          /\ UNCHANGED <<tasks, waiting, posted>>
      BY <1>3 DEF BeginPut, MutexFree
    <2>2. ws \subseteq Shown
      BY DEF PutTargets, Shown
    <2>3. PutInv' /\ NothingForGoneWindows' /\ OneMessage'
      BY <1>2, <2>1, <2>2 DEF WakeInv, PutInv, NothingForGoneWindows, OneMessage, Shown
    <2>4. NoLostWakeup'
      BY <1>1, <2>1 DEF WakeInv, NoLostWakeup
    <2> QED
      BY <2>3, <2>4 DEF WakeInv
  <1>4. ASSUME NEW w \in Window, PutAdd(w)
        PROVE  WakeInv'
    <2>1. /\ put # NoPut /\ put.at = NoWindow /\ w \in put.todo
          /\ put' = [put EXCEPT !.todo = @ \ {w}, !.at = w]
          /\ UNCHANGED <<waiting, posted>>
          /\ \A v \in Window \ {w} : tasks'[v] = tasks[v]
      BY <1>4 DEF PutAdd, StackInv, TypeOK
    <2>2. put \in Put
      BY <2>1, PutType DEF StackInv
    <2>3. put'.todo \subseteq put.todo /\ put'.at = w /\ w \in Shown
      BY <2>1, <2>2 DEF Put, WakeInv, PutInv
    <2>4. put' # NoPut
      BY <2>1, <2>2, <2>3 DEF Put, NoPut
    <2>5. PutInv' /\ NothingForGoneWindows' /\ OneMessage'
      BY <1>2, <2>1, <2>3 DEF WakeInv, PutInv, NothingForGoneWindows, OneMessage, Shown
    <2>6. \A v \in Window : put.at # v
      BY <2>1, WindowAssumption
    <2>7. NoLostWakeup'
      BY <1>1, <2>1, <2>3, <2>4, <2>6 DEF WakeInv, NoLostWakeup
    <2> QED
      BY <2>5, <2>7 DEF WakeInv
  <1>5. ASSUME PutRequest
        PROVE  WakeInv'
    <2>1. put # NoPut /\ put.at # NoWindow /\ put \in Put
      BY <1>5, PutType DEF PutRequest, StackInv
    <2>2. PICK w \in Shown : w = put.at
      BY <2>1 DEF WakeInv, PutInv
    <2>3. RequestNextEventImpl(w) /\ UNCHANGED tasks /\ w \in Window
      BY <1>5, <2>2 DEF PutRequest, Shown
    <2>4. put' = NoPut \/ (put' # NoPut /\ put'.todo = put.todo /\ put'.at = NoWindow)
      BY <1>5, <2>1 DEF PutRequest, Put, NoPut
    <2>5. PutInv'
      BY <1>2, <2>1, <2>4 DEF WakeInv, PutInv
    <2>6. /\ tasks[w] # {} => posted'[w] > 0 \/ HasFrame(w)
          /\ waiting'[w] => posted'[w] = 0 /\ ~Fetched(w)
          /\ ~waiting'[w] => \/ posted'[w] = 1 /\ ~Fetched(w)
                             \/ posted'[w] = 0 /\ Fetched(w)
          /\ \A v \in Window \ {w} : waiting'[v] = waiting[v] /\ posted'[v] = posted[v]
      <3>1. CASE ~Fetched(w)
        BY <2>3, <3>1, RequestEffect DEF WakeInv
      <3>2. CASE Fetched(w)
        <4>1. ~waiting[w]
          BY <3>2 DEF WakeInv, OneMessage
        <4>2. waiting' = waiting /\ posted' = posted
          BY <2>3, <4>1, Zenon DEF RequestNextEventImpl
        <4>3. HasFrame(w)
          BY <3>2 DEF Fetched, TopIs, Top, Depth, HasFrame, StackInv, TypeOK
        <4> QED
          BY <3>2, <4>1, <4>2, <4>3 DEF WakeInv, OneMessage
      <3> QED
        BY <3>1, <3>2
    <2>7. NothingForGoneWindows'
      BY <1>2, <2>3, <2>6 DEF WakeInv, NothingForGoneWindows
    <2>8. OneMessage'
      <3> SUFFICES ASSUME NEW v \in Shown
                   PROVE  /\ waiting'[v] => posted'[v] = 0 /\ ~Fetched(v)'
                          /\ ~waiting'[v] => \/ posted'[v] = 1 /\ ~Fetched(v)'
                                             \/ posted'[v] = 0 /\ Fetched(v)'
        BY <1>2 DEF OneMessage
      <3>1. v \in Window
        BY DEF Shown
      <3>2. CASE v = w
        BY <1>2, <2>6, <3>1, <3>2
      <3>3. CASE v # w
        BY <1>2, <2>6, <3>1, <3>3 DEF WakeInv, OneMessage
      <3> QED
        BY <3>2, <3>3
    <2>9. \A v \in Window : v # w => (tasks[v] # {} => posted[v] > 0 \/ HasFrame(v))
      BY <2>2 DEF WakeInv, NoLostWakeup, HasFrame
    <2>10. NoLostWakeup'
      BY <1>2, <2>3, <2>6, <2>9 DEF NoLostWakeup, HasFrame
    <2> QED
      BY <2>5, <2>7, <2>8, <2>10 DEF WakeInv
  <1> QED
    BY <1>3, <1>4, <1>5 DEF BeginSomePut, PutStep

LEMMA WindowsKeepWake ==
    ASSUME StackInv, WakeInv, NEW w \in Window, AddWindow(w) \/ RemoveWindow(w)
    PROVE  WakeInv'
  <1>1. put = NoPut /\ UNCHANGED <<put, frames>>
    BY DEF AddWindow, RemoveWindow, RemoveGuard, MutexFree
  <1>2. /\ \A v \in Window : Fetched(v)' <=> Fetched(v)
        /\ \A v \in Window : HasFrame(v)' <=> HasFrame(v)
        /\ \A v \in Window : ~Fetched(v)
    BY DEF AddWindow, RemoveWindow, RemoveGuard, InUserCode, Fetched, TopIs, Top, Depth, HasFrame
  <1>3. PutInv'
    BY <1>1 DEF PutInv
  <1>4. ASSUME AddWindow(w) PROVE WakeInv'
    <2>1. /\ life[w] # "shown" /\ life'[w] = "shown" /\ waiting'[w]
          /\ UNCHANGED <<tasks, posted>>
          /\ \A v \in Window \ {w} : life'[v] = life[v] /\ waiting'[v] = waiting[v]
      BY <1>4, Zenon DEF AddWindow, StackInv, TypeOK
    <2>2. posted[w] = 0
      BY <2>1 DEF WakeInv, NothingForGoneWindows, Shown
    <2>3. NothingForGoneWindows' /\ OneMessage'
      BY <1>2, <2>1, <2>2 DEF WakeInv, NothingForGoneWindows, OneMessage, Shown
    <2>4. NoLostWakeup'
      BY <1>1, <2>1 DEF WakeInv, NoLostWakeup
    <2> QED
      BY <1>3, <2>3, <2>4 DEF WakeInv
  <1>5. ASSUME RemoveWindow(w) PROVE WakeInv'
    <2>1. /\ life'[w] = "destroyed" /\ tasks'[w] = {} /\ posted'[w] = 0
          /\ \A v \in Window \ {w} : /\ life'[v] = life[v] /\ waiting'[v] = waiting[v]
                                     /\ tasks'[v] = tasks[v] /\ posted'[v] = posted[v]
      BY <1>5, Zenon DEF RemoveWindow, StackInv, TypeOK
    <2>2. NothingForGoneWindows' /\ OneMessage'
      BY <1>2, <2>1 DEF WakeInv, NothingForGoneWindows, OneMessage, Shown
    <2>3. NoLostWakeup'
      BY <1>1, <2>1 DEF WakeInv, NoLostWakeup
    <2> QED
      BY <1>3, <2>2, <2>3 DEF WakeInv
  <1> QED
    BY <1>4, <1>5

LEMMA ReceiveKeepsWake ==
    ASSUME StackInv, WakeInv, NEW w \in Window, Receive(w)
    PROVE  WakeInv'
  <1> DEFINE f == NewFrame(w, "received")
  <1>1. f \in Frame /\ f.win = w /\ f.pc = "received"
    BY NewFrameType DEF NewFrame, FramePc
  <1>2. /\ Push(f) /\ posted[w] > 0 /\ posted' = [posted EXCEPT ![w] = @ - 1]
        /\ UNCHANGED <<life, tasks, waiting, put>>
    BY DEF Receive
  <1> HIDE DEF f
  <1>3. Pushed(f)
    BY <1>1, <1>2, PushIsPushed DEF StackInv, TypeOK
  <1>4. /\ \A v \in Window : HasFrame(v) => HasFrame(v)'
        /\ HasFrame(w)'
        /\ \A v \in Window : Fetched(v)' <=> v = w
    BY <1>1, <1>3, PushedFrames
  <1>5. \A v \in Window : ~Fetched(v)
    BY DEF Receive, CanPump, InUserCode, Fetched, TopIs
  <1>6. /\ posted'[w] = posted[w] - 1
        /\ \A v \in Window \ {w} : posted'[v] = posted[v]
    BY <1>2 DEF StackInv, TypeOK
  <1>7. w \in Shown
    BY <1>2 DEF WakeInv, NothingForGoneWindows
  <1>8. PutInv' /\ NothingForGoneWindows'
    BY <1>2, <1>6, <1>7 DEF WakeInv, PutInv, NothingForGoneWindows, Shown
  <1>9. OneMessage'
    BY <1>2, <1>4, <1>5, <1>6, <1>7 DEF WakeInv, OneMessage, Shown
  <1>10. NoLostWakeup'
    BY <1>2, <1>4, <1>6 DEF WakeInv, NoLostWakeup, HasFrame
  <1> QED
    BY <1>8, <1>9, <1>10 DEF WakeInv

LEMMA OnRequestKeepsWake ==
    ASSUME StackInv, WakeInv, OnRequestEventMessageReceived
    PROVE  WakeInv'
  <1>1. /\ frames # <<>> /\ Top.pc = "received" /\ MoveTop("start")
        /\ waiting' = [waiting EXCEPT ![Top.win] = TRUE]
        /\ UNCHANGED <<life, tasks, posted, put>>
    BY DEF OnRequestEventMessageReceived, TopIs
  <1>2. Depth \in DOMAIN frames
    BY <1>1 DEF StackInv, TypeOK, Depth
  <1>3. Top.win \in Window
    BY <1>1, <1>2 DEF StackInv, StackShape, Top
  <1>4. /\ TopMoved /\ frames'[Depth].pc = "start"
    BY <1>1, MoveTopEffect DEF StackInv, TypeOK, TopMoved, FramePc, Frame
  <1>5. /\ \A v \in Window : HasFrame(v) => HasFrame(v)'
        /\ \A v \in Window : ~Fetched(v)'
    BY <1>4, MovedFrames DEF Fetched, TopIs
  <1>6. \A v \in Window : Fetched(v) <=> v = Top.win
    BY <1>1 DEF Fetched, TopIs
  <1>7. waiting'[Top.win] /\ \A v \in Window : v # Top.win => waiting'[v] = waiting[v]
    BY <1>1, <1>3, Zenon DEF StackInv, TypeOK
  <1>8. PutInv' /\ NothingForGoneWindows'
    BY <1>1 DEF WakeInv, PutInv, NothingForGoneWindows, Shown
  <1>9. OneMessage'
    BY <1>1, <1>5, <1>6, <1>7 DEF WakeInv, OneMessage, Shown
  <1>10. NoLostWakeup'
    BY <1>1, <1>5 DEF WakeInv, NoLostWakeup, HasFrame
  <1> QED
    BY <1>8, <1>9, <1>10 DEF WakeInv

\* Steps in which the top moves on to "fetch", "run", "finish" or "jobs" or
\* "request" without taking a task.
LEMMA MoveKeepsWake ==
    ASSUME StackInv, WakeInv, frames # <<>>, NEW pc \in FramePc \ {"received"},
           MoveTop(pc), Top.pc # "received",
           UNCHANGED <<life, tasks, waiting, posted, put>>
    PROVE  WakeInv'
  <1>1. /\ TopMoved /\ frames'[Depth].pc = pc
    BY MoveTopEffect DEF StackInv, TypeOK, TopMoved, Frame
  <1>2. /\ \A v \in Window : HasFrame(v) => HasFrame(v)'
        /\ \A v \in Window : ~Fetched(v)' /\ ~Fetched(v)
    BY <1>1, MovedFrames DEF Fetched, TopIs
  <1> QED
    BY <1>2, QuietStep

\* A frame leaves without requesting the next event: its panel has another one,
\* or it is no panel's.
LEMMA PopKeepsWake ==
    ASSUME StackInv, StackInv', WakeInv, frames # <<>>, Pop, Top.pc # "received",
           Top.win \in Window => nested'[Top.win] # 0,
           UNCHANGED <<life, tasks, waiting, posted, put>>
    PROVE  WakeInv'
  <1>1. Popped
    BY PopEffect DEF StackInv, TypeOK, Popped
  <1>2. /\ \A v \in Window : HasFrame(v) /\ Top.win # v => HasFrame(v)'
        /\ \A v \in Window : ~Fetched(v)' /\ ~Fetched(v)
    BY <1>1, PoppedFrames DEF Fetched, TopIs
  <1>3. \A v \in Window : HasFrame(v) => HasFrame(v)'
    <2> SUFFICES ASSUME NEW v \in Window, HasFrame(v) PROVE HasFrame(v)'
      OBVIOUS
    <2>1. CASE v = Top.win
      BY <2>1, CountedHasFrame
    <2> QED
      BY <1>2, <2>1
  <1> QED
    BY <1>2, <1>3, QuietStep

LEMMA RequestKeepsWake ==
    ASSUME StackInv, WakeInv, RequestNextEvent
    PROVE  WakeInv'
  <1>1. /\ frames # <<>> /\ Top.pc = "request" /\ Pop /\ put = NoPut
        /\ UNCHANGED <<life, tasks, put>>
    BY DEF RequestNextEvent, TopIs, MutexFree
  <1>2. Depth \in DOMAIN frames
    BY <1>1 DEF StackInv, TypeOK, Depth
  <1>3. PICK w \in Window : w = Top.win
    BY <1>1, <1>2 DEF StackInv, StackShape, Top
  <1>4. Popped
    BY <1>1, PopEffect DEF StackInv, TypeOK, Popped
  <1>5. /\ \A v \in Window : HasFrame(v) /\ v # w => HasFrame(v)'
        /\ \A v \in Window : ~Fetched(v)' /\ ~Fetched(v)
    BY <1>1, <1>3, <1>4, PoppedFrames DEF Fetched, TopIs
  <1>6. PutInv'
    BY <1>1 DEF PutInv
  <1>7. CASE life[w] = "shown"
    <2>1. w \in Shown /\ RequestNextEventImpl(w)
      BY <1>3, <1>7 DEF RequestNextEvent, Shown
    <2>2. /\ tasks[w] # {} => posted'[w] > 0
          /\ waiting'[w] => posted'[w] = 0
          /\ ~waiting'[w] => posted'[w] = 1
          /\ \A v \in Window \ {w} : waiting'[v] = waiting[v] /\ posted'[v] = posted[v]
      BY <1>5, <2>1, RequestEffect DEF WakeInv
    <2>3. NothingForGoneWindows'
      BY <1>1, <2>1, <2>2 DEF WakeInv, NothingForGoneWindows, Shown
    <2>4. OneMessage'
      <3> SUFFICES ASSUME NEW v \in Shown
                   PROVE  /\ waiting'[v] => posted'[v] = 0 /\ ~Fetched(v)'
                          /\ ~waiting'[v] => \/ posted'[v] = 1 /\ ~Fetched(v)'
                                             \/ posted'[v] = 0 /\ Fetched(v)'
        BY <1>1 DEF OneMessage, Shown
      <3>1. v \in Window
        BY DEF Shown
      <3>2. CASE v = w
        BY <1>5, <2>2, <3>1, <3>2
      <3>3. CASE v # w
        BY <1>5, <2>2, <3>1, <3>3 DEF WakeInv, OneMessage
      <3> QED
        BY <3>2, <3>3
    <2>5. \A v \in Window : v # w => (tasks[v] # {} => posted[v] > 0 \/ HasFrame(v))
      BY <1>1 DEF WakeInv, NoLostWakeup, HasFrame
    <2>6. NoLostWakeup'
      BY <1>1, <1>5, <2>2, <2>5 DEF NoLostWakeup, HasFrame
    <2> QED
      BY <1>6, <2>3, <2>4, <2>6 DEF WakeInv
  <1>8. CASE life[w] # "shown"
    <2>1. UNCHANGED <<waiting, posted>> /\ tasks[w] = {}
      BY <1>3, <1>8 DEF RequestNextEvent, WakeInv, NothingForGoneWindows, Shown
    <2>2. NothingForGoneWindows' /\ OneMessage'
      BY <1>1, <1>5, <2>1 DEF WakeInv, NothingForGoneWindows, OneMessage, Shown
    <2>3. NoLostWakeup'
      BY <1>1, <1>5, <2>1 DEF WakeInv, NoLostWakeup, HasFrame
    <2> QED
      BY <1>6, <2>2, <2>3 DEF WakeInv
  <1> QED
    BY <1>7, <1>8

LEMMA ExecuteKeepsWake ==
    ASSUME StackInv, WakeInv, ExecuteNextTask
    PROVE  WakeInv'
  <1>1. frames # <<>> /\ Top.pc = "fetch" /\ UNCHANGED <<life, waiting, posted, put>>
    BY DEF ExecuteNextTask, TopIs
  <1>2. CASE MoveTop("finish") /\ UNCHANGED <<tasks, served>>
    BY <1>1, <1>2, MoveKeepsWake DEF FramePc
  <1>3. CASE \E t \in tasks[Top.win] :
              /\ tasks' = [tasks EXCEPT ![Top.win] = @ \ {t}]
              /\ frames' = [frames EXCEPT ![Depth].pc = "run", ![Depth].task = {t.num}]
    <2>1. PICK t \in tasks[Top.win] :
              /\ tasks' = [tasks EXCEPT ![Top.win] = @ \ {t}]
              /\ frames' = [frames EXCEPT ![Depth].pc = "run", ![Depth].task = {t.num}]
      BY <1>3
    <2>2. /\ Top \in Frame /\ Depth \in Nat /\ Depth > 0 /\ Depth \in DOMAIN frames
          /\ frames \in Seq(Frame)
      BY <1>1 DEF StackInv, TypeOK, Depth, Top
    <2>3. Top.win \in Window
      BY <1>1, <2>2 DEF StackInv, StackShape, Top
    <2>4. t \in Task /\ t.num \in Nat
      BY <2>1, <2>3 DEF StackInv, TypeOK, Task
    <2> DEFINE f == [Top EXCEPT !.pc = "run", !.task = {t.num}]
    <2>5. f \in Frame /\ f.win = Top.win /\ f.pc = "run"
      BY <2>2, <2>4 DEF Frame, FramePc
    <2>6. frames' = [frames EXCEPT ![Depth] = f]
      BY <2>1, <2>2 DEF Top, Frame
    <2>7. TopMoved /\ frames'[Depth].pc = "run"
      <3> HIDE DEF f
      <3> QED
        BY <1>1, <2>2, <2>5, <2>6, ReplaceTopEffect DEF TopMoved
    <2>8. /\ \A v \in Window : HasFrame(v) => HasFrame(v)'
          /\ \A v \in Window : ~Fetched(v)' /\ ~Fetched(v)
      BY <1>1, <2>7, MovedFrames DEF Fetched, TopIs
    <2>9. \A v \in Window : tasks'[v] \subseteq tasks[v]
      BY <2>1, <2>3 DEF StackInv, TypeOK
    <2>10. PutInv' /\ NothingForGoneWindows' /\ OneMessage'
      BY <1>1, <2>8, <2>9 DEF WakeInv, PutInv, NothingForGoneWindows, OneMessage, Shown
    <2>11. NoLostWakeup'
      BY <1>1, <2>8, <2>9 DEF WakeInv, NoLostWakeup, HasFrame
    <2> QED
      BY <2>10, <2>11 DEF WakeInv
  <1> QED
    BY <1>2, <1>3 DEF ExecuteNextTask

\* Frames that are pushed for a synchronous message, a dialog or a notified
\* panel, and the list of panels to notify.
LEMMA PushKeepsWake ==
    ASSUME StackInv, WakeInv, NEW f \in Frame, Pushed(f), f.pc # "received",
           ~TopIs("received"), UNCHANGED <<life, tasks, waiting, posted, put>>
    PROVE  WakeInv'
  <1>1. /\ \A w \in Window : HasFrame(w) => HasFrame(w)'
        /\ \A w \in Window : ~Fetched(w)' /\ ~Fetched(w)
    BY PushedFrames DEF Fetched
  <1> QED
    BY <1>1, QuietStep

LEMMA ToNotifyKeepsWake ==
    ASSUME StackInv, WakeInv, frames # <<>>, Top.pc \in {"run", "jobs"},
           NEW S \in SUBSET Window,
           frames' = [frames EXCEPT ![Depth].toNotify = S],
           UNCHANGED <<life, tasks, waiting, posted, put>>
    PROVE  WakeInv'
  <1> DEFINE f == [Top EXCEPT !.toNotify = S]
  <1>1. /\ Top \in Frame /\ Depth \in Nat /\ Depth > 0 /\ frames \in Seq(Frame)
    BY DEF StackInv, TypeOK, Depth, Top
  <1>2. f \in Frame /\ f.win = Top.win /\ f.pc = Top.pc
    BY <1>1 DEF Frame
  <1>3. frames' = [frames EXCEPT ![Depth] = f]
    BY DEF Top
  <1>4. TopMoved /\ frames'[Depth].pc = Top.pc
    <2> HIDE DEF f
    <2> QED
      BY <1>1, <1>2, <1>3, ReplaceTopEffect DEF TopMoved
  <1>5. /\ \A v \in Window : HasFrame(v) => HasFrame(v)'
        /\ \A v \in Window : ~Fetched(v)' /\ ~Fetched(v)
    BY <1>4, MovedFrames DEF Fetched, TopIs
  <1> QED
    BY <1>5, QuietStep

LEMMA WakeInvStep == StackInv /\ WakeInv /\ [Next]_vars => WakeInv'
  <1> SUFFICES ASSUME StackInv, WakeInv, [Next]_vars PROVE WakeInv'
    OBVIOUS
  <1>1. StackInv'
    BY StackInvStep
  <1>2. CASE UNCHANGED vars
    BY <1>2, QuietStep DEF vars, Fetched, TopIs, Top, Depth, HasFrame
  <1>3. ASSUME NEW w \in Window, SendNotify(w) PROVE WakeInv'
    <2>1. /\ frames # <<>> /\ Top.pc \in {"run", "jobs"} /\ ~TopIs("received")
          /\ Top.toNotify \ {w} \in SUBSET Window
          /\ UNCHANGED <<life, tasks, waiting, posted, put>>
      BY <1>3, SendNotifyEffect DEF SendNotify, TopIs
    <2>2. CASE Pushed(NewFrame(w, "run"))
      <3>1. NewFrame(w, "run") \in Frame /\ NewFrame(w, "run").pc = "run"
        BY NewFrameType DEF NewFrame, FramePc
      <3> QED
        BY <2>1, <2>2, <3>1, PushKeepsWake
    <2>3. CASE frames' = [frames EXCEPT ![Depth].toNotify = Top.toNotify \ {w}]
      BY <2>1, <2>3, ToNotifyKeepsWake
    <2> QED
      BY <1>3, <2>2, <2>3, SendNotifyEffect
  <1>4. CASE ProcessNextEvent \/ ProcessStalledMessage \/ RunEnds
    <2>1. PICK pc \in {"fetch", "run", "finish"} :
             /\ frames # <<>> /\ MoveTop(pc) /\ Top.pc # "received"
             /\ UNCHANGED <<life, tasks, waiting, posted, put>>
      BY <1>4 DEF ProcessNextEvent, ProcessStalledMessage, RunEnds, TopIs
    <2>2. pc \in FramePc \ {"received"}
      BY DEF FramePc
    <2> QED
      BY <2>1, <2>2, MoveKeepsWake
  <1>5. CASE OnProcessingEventFinish \/ RunJobsEnds
    <2>1. /\ frames # <<>> /\ Top.pc # "received"
          /\ UNCHANGED <<life, tasks, waiting, posted, put>>
          /\ \/ MoveTop("jobs") \/ MoveTop("request")
             \/ Pop /\ nested'[Top.win] # 0
      BY <1>5 DEF OnProcessingEventFinish, RunJobsEnds, TopIs, MustRequest
    <2>2. {"jobs", "request"} \subseteq FramePc \ {"received"}
      BY DEF FramePc
    <2> QED
      BY <1>1, <2>1, <2>2, MoveKeepsWake, PopKeepsWake
  <1>6. CASE CloseModal
    <2>1. /\ frames # <<>> /\ Top.pc = "modal" /\ Pop
          /\ UNCHANGED <<life, tasks, waiting, posted, put>>
      BY <1>6 DEF CloseModal, TopIs
    <2>2. Depth \in DOMAIN frames
      BY <2>1 DEF StackInv, TypeOK, Depth
    <2>3. Top.win \notin Window
      BY <2>1, <2>2, WindowAssumption DEF StackInv, StackShape, Top
    <2> QED
      BY <1>1, <2>1, <2>3, PopKeepsWake
  <1>7. CASE MainStep
    BY <1>7, <1>3, <1>4, <1>5, <1>6, ReceiveKeepsWake, OnRequestKeepsWake,
       ExecuteKeepsWake, RequestKeepsWake DEF MainStep
  <1>8. ASSUME NEW w \in Window, ProcessEventManually(w) PROVE WakeInv'
    <2>1. /\ Push(NewFrame(w, "run")) /\ ~TopIs("received")
          /\ UNCHANGED <<life, tasks, waiting, posted, put>>
      BY <1>8 DEF ProcessEventManually, CanPump, InUserCode, TopIs
    <2>2. NewFrame(w, "run") \in Frame /\ NewFrame(w, "run").pc = "run"
      BY NewFrameType DEF NewFrame, FramePc
    <2> QED
      BY <2>1, <2>2, PushIsPushed, PushKeepsWake DEF StackInv, TypeOK
  <1>9. CASE OpenModal
    <2>1. /\ Push(NewFrame(NoWindow, "modal")) /\ ~TopIs("received")
          /\ UNCHANGED <<life, tasks, waiting, posted, put>>
      BY <1>9 DEF OpenModal, CanPump, InUserCode, TopIs
    <2>2. NewFrame(NoWindow, "modal") \in Frame /\ NewFrame(NoWindow, "modal").pc = "modal"
      BY NewFrameType DEF NewFrame, FramePc
    <2> QED
      BY <2>1, <2>2, PushIsPushed, PushKeepsWake DEF StackInv, TypeOK
  <1>10. CASE NotifyOthers
    <2>1. /\ frames # <<>> /\ Top.pc \in {"run", "jobs"}
          /\ frames' = [frames EXCEPT ![Depth].toNotify = Shown \ {Top.win}]
          /\ UNCHANGED <<life, tasks, waiting, posted, put>>
      BY <1>10 DEF NotifyOthers, TopIs
    <2>2. Shown \ {Top.win} \in SUBSET Window
      BY DEF Shown
    <2> QED
      BY <2>1, <2>2, ToNotifyKeepsWake
  <1>11. CASE Environment
    BY <1>4, <1>8, <1>9, <1>10, <1>11, WindowsKeepWake, PutKeepsWake DEF Environment
  <1>12. CASE PutStep
    BY <1>12, PutKeepsWake
  <1> QED
    BY <1>2, <1>7, <1>11, <1>12 DEF Next

LEMMA WakeInvInit == Init => WakeInv
  BY DEF Init, WakeInv, PutInv, NothingForGoneWindows, OneMessage, NoLostWakeup, Shown

LEMMA OneMessageSuffices == StackInv /\ OneMessage => WaitingIsAccurate
  BY DEF StackInv, TypeOK, OneMessage, WaitingIsAccurate, Fetched, Shown

------------------------------------------------------------------------------
(* The theorems *)

LEMMA WakeInvHolds == Spec => [](StackInv /\ WakeInv)
  BY StackInvInit, StackInvStep, WakeInvInit, WakeInvStep, PTL DEF Spec

\* No lost wake-up, for any number of panels, threads that queue tasks, nested
\* loops, dialogs and destroyed windows: a queued task is never left without a
\* message or an event that is bound to request one.
THEOREM NoWakeupIsLost == Spec => []NoLostWakeup
  <1>1. WakeInv => NoLostWakeup
    BY DEF WakeInv
  <1> QED
    BY <1>1, WakeInvHolds, PTL

\* nextEventMsgStatusMap_ agrees with the message queue: a window has at most
\* one run_next_event message, and the flag knows it.
THEOREM FlagAgreesWithQueue == Spec => []WaitingIsAccurate
  <1>1. StackInv /\ WakeInv => WaitingIsAccurate
    BY OneMessageSuffices DEF WakeInv
  <1> QED
    BY <1>1, WakeInvHolds, PTL

\* Nothing is queued for or posted to a window that is not in the map.
THEOREM GoneWindowsGetNothing == Spec => []NothingForGoneWindows
  <1>1. WakeInv => NothingForGoneWindows
    BY DEF WakeInv
  <1> QED
    BY <1>1, WakeInvHolds, PTL

------------------------------------------------------------------------------
(* Run to completion *)

\* Below the innermost frame, a task or handler of the same panel is unfinished.
NestedRun == \E i \in 1..(Depth - 1) : frames[i].win = Top.win /\ frames[i].pc = "run"

ModalBelow(j) == \E k \in 1..(j - 1) : frames[k].pc = "modal"

\* What ProcessEvent tested still holds when the task is taken, and as long as it runs.
RunInv ==
    /\ \A i, j \in 1..Depth :
         /\ i < j /\ frames[i].win = frames[j].win
         /\ frames[i].pc = "run" /\ frames[j].task # {}
         => ModalBelow(j)
    /\ TopIs("fetch") /\ NestedRun => ModalBelow(Depth)

LEMMA RunByTop ==
    ASSUME StackInv, RunInv, Depth > 0,
           frames' \in Seq(Frame), Len(frames') = Depth,
           \A i \in 1..(Depth - 1) : frames'[i] = frames[i],
           frames'[Depth].win = Top.win,
           frames'[Depth].task # {} => Top.task # {} \/ (NestedRun => ModalBelow(Depth)),
           frames'[Depth].pc = "fetch" => (NestedRun => ModalBelow(Depth))
    PROVE  RunInv'
  <1>1. Depth \in Nat /\ Depth' = Depth /\ Top' = frames'[Depth] /\ frames' # <<>>
    BY DEF StackInv, TypeOK, Depth, Top
  <1>2. \A j \in 1..Depth : ModalBelow(j)' <=> ModalBelow(j)
    BY <1>1 DEF ModalBelow
  <1>3. NestedRun' <=> NestedRun
    BY <1>1 DEF NestedRun
  <1>4. ASSUME NEW i \in 1..Depth, NEW j \in 1..Depth, i < j, frames'[i].win = frames'[j].win,
               frames'[i].pc = "run", frames'[j].task # {}
        PROVE  ModalBelow(j)
    <2>1. i \in 1..(Depth - 1) /\ frames'[i] = frames[i]
      BY <1>1, <1>4
    <2>2. CASE j = Depth
      <3>1. NestedRun
        BY <1>4, <2>1, <2>2 DEF NestedRun
      <3>2. Top.task # {} => ModalBelow(Depth)
        BY <1>4, <2>1, <2>2 DEF RunInv, Top
      <3> QED BY <1>4, <2>2, <3>1, <3>2
    <2>3. CASE j # Depth
      <3>1. j \in 1..(Depth - 1)
        BY <1>1, <2>3
      <3> QED BY <1>4, <2>1, <3>1 DEF RunInv
    <2> QED BY <2>2, <2>3
  <1> QED BY <1>1, <1>2, <1>3, <1>4 DEF RunInv, TopIs

LEMMA RunByPush ==
    ASSUME StackInv, RunInv, NEW f \in Frame, Pushed(f), f.task = {}, f.pc # "fetch"
    PROVE  RunInv'
  <1>1. Depth \in Nat /\ Depth' = Depth + 1 /\ Top' = f
    BY DEF StackInv, TypeOK, Depth, Top, Pushed
  <1>2. \A j \in 1..Depth : ModalBelow(j)' <=> ModalBelow(j)
    BY <1>1 DEF ModalBelow, Pushed
  <1>3. \A j \in 1..(Depth + 1) : frames'[j].task # {} => j \in 1..Depth
    BY <1>1 DEF Pushed
  <1>4. ASSUME NEW i \in 1..(Depth + 1), NEW j \in 1..(Depth + 1), i < j,
               frames'[i].win = frames'[j].win, frames'[i].pc = "run", frames'[j].task # {}
        PROVE  ModalBelow(j)'
    <2>1. j \in 1..Depth /\ i \in 1..Depth
      BY <1>1, <1>3, <1>4
    <2>2. ModalBelow(j)
      BY <1>4, <2>1 DEF RunInv, Pushed
    <2> QED BY <1>2, <2>1, <2>2
  <1> QED BY <1>1, <1>4 DEF RunInv, TopIs

LEMMA RunByPop == ASSUME StackInv, RunInv, Popped PROVE RunInv'
  <1>1. Depth \in Nat /\ Depth > 0 /\ Depth' = Depth - 1
    BY DEF StackInv, TypeOK, Depth, Popped
  <1>2. \A j \in 1..(Depth - 1) : ModalBelow(j)' <=> ModalBelow(j)
    BY <1>1 DEF ModalBelow, Popped
  <1>3. ~TopIs("fetch")'
    <2> SUFFICES ASSUME frames' # <<>> PROVE Top'.pc # "fetch"
      BY DEF TopIs
    <2>1. Depth - 1 \in 1..(Depth - 1) /\ Top' = frames[Depth - 1]
      BY <1>1 DEF Popped, Top, Depth
    <2> QED BY <2>1 DEF StackInv, StackShape
  <1>4. ASSUME NEW i \in 1..(Depth - 1), NEW j \in 1..(Depth - 1), i < j,
               frames'[i].win = frames'[j].win, frames'[i].pc = "run", frames'[j].task # {}
        PROVE  ModalBelow(j)'
    <2>1. i \in 1..Depth /\ j \in 1..Depth /\ frames'[i] = frames[i] /\ frames'[j] = frames[j]
      BY <1>1 DEF Popped
    <2> QED BY <1>2, <1>4, <2>1 DEF RunInv
  <1> QED BY <1>1, <1>3, <1>4 DEF RunInv

LEMMA PopIsPopped == ASSUME StackInv, frames # <<>>, Pop PROVE Popped
  BY PopEffect DEF Popped, StackInv, TypeOK

LEMMA MoveKeepsRun ==
    ASSUME StackInv, RunInv, frames # <<>>, NEW pc \in FramePc, MoveTop(pc),
           pc = "fetch" => (NestedRun => ModalBelow(Depth))
    PROVE  RunInv'
  <1>1. /\ frames' \in Seq(Frame) /\ Len(frames') = Depth /\ Depth > 0
        /\ \A i \in 1..(Depth - 1) : frames'[i] = frames[i]
        /\ frames'[Depth] = [Top EXCEPT !.pc = pc] /\ Top \in Frame
    BY MoveTopEffect DEF StackInv, TypeOK
  <1>2. frames'[Depth].win = Top.win /\ frames'[Depth].task = Top.task /\ frames'[Depth].pc = pc
    BY <1>1 DEF Frame
  <1> QED BY <1>1, <1>2, RunByTop

\* The test of ProcessEvent: an unfinished frame below makes the counter two at least.
LEMMA ProcessKeepsRun == StackInv /\ RunInv /\ ProcessNextEvent => RunInv'
  <1> SUFFICES ASSUME StackInv, RunInv, ProcessNextEvent PROVE RunInv'
    OBVIOUS
  <1>1. /\ frames # <<>> /\ Top.pc = "start"
        /\ \/ MoveTop("fetch") /\ MayRunTask(Top.win)
           \/ MoveTop("finish")
    BY DEF ProcessNextEvent, TopIs
  <1>2. /\ Depth \in Nat /\ Depth > 0 /\ Depth \in DOMAIN frames /\ DOMAIN frames = 1..Depth
        /\ frames \in Seq(Frame)
    BY <1>1 DEF StackInv, TypeOK, Depth
  <1>3. Top.win \in Window
    BY <1>1, <1>2 DEF StackInv, StackShape, Top
  <1>4. ASSUME MayRunTask(Top.win), NestedRun PROVE ModalBelow(Depth)
    <2>1. PICK i \in 1..(Depth - 1) : frames[i].win = Top.win /\ frames[i].pc = "run"
      BY <1>4 DEF NestedRun
    <2>2. i \in Counted(Top.win) /\ Depth \in Counted(Top.win) /\ i # Depth
      BY <1>1, <1>2, <2>1 DEF Counted, CountedPc, Top
    <2>3. nested[Top.win] # 1
      <3>1. SUFFICES ASSUME Cardinality(Counted(Top.win)) = 1 PROVE FALSE
        BY <1>3 DEF StackInv, NestingIsCounted
      <3>2. IsFiniteSet(Counted(Top.win))
        BY <1>2, <1>3, CountedFinite
      <3>3. PICK x : Counted(Top.win) = {x}
        BY <3>1, <3>2, FS_Singleton
      <3> QED BY <2>2, <3>3
    <2>4. PICK k \in 1..Depth : frames[k].pc = "modal"
      BY <1>2, <1>4, <2>3 DEF MayRunTask, IsModalBlocked
    <2>5. k \in 1..(Depth - 1)
      BY <1>1, <1>2, <2>4 DEF Top
    <2> QED BY <2>4, <2>5 DEF ModalBelow
  <1>5. "fetch" \in FramePc /\ "finish" \in FramePc
    BY DEF FramePc
  <1> QED BY <1>1, <1>4, <1>5, MoveKeepsRun

LEMMA ExecuteKeepsRun == StackInv /\ RunInv /\ ExecuteNextTask => RunInv'
  <1> SUFFICES ASSUME StackInv, RunInv, ExecuteNextTask PROVE RunInv'
    OBVIOUS
  <1>1. frames # <<>> /\ TopIs("fetch") /\ frames \in Seq(Frame) /\ Depth \in Nat /\ Depth > 0
        /\ Top \in Frame
    BY DEF ExecuteNextTask, TopIs, StackInv, TypeOK, Depth, Top
  <1>2. NestedRun => ModalBelow(Depth)
    BY <1>1 DEF RunInv
  <1>3. CASE MoveTop("finish")
    BY <1>1, <1>3, MoveKeepsRun DEF FramePc
  <1>4. ASSUME NEW t \in tasks[Top.win],
               frames' = [frames EXCEPT ![Depth].pc = "run", ![Depth].task = {t.num}]
        PROVE  RunInv'
    <2>1. frames' \in Seq(Frame)
      BY StackInvStep, ExecuteKeepsStack DEF StackInv, TypeOK
    <2>2. /\ Len(frames') = Depth /\ \A i \in 1..(Depth - 1) : frames'[i] = frames[i]
          /\ frames'[Depth].win = Top.win /\ frames'[Depth].pc = "run"
      BY <1>1, <1>4 DEF Top, Depth, Frame
    <2> QED BY <1>1, <1>2, <2>1, <2>2, RunByTop
  <1> QED BY <1>3, <1>4 DEF ExecuteNextTask

LEMMA ToNotifyKeepsRun ==
    ASSUME StackInv, RunInv, frames # <<>>, Top.pc \in {"run", "jobs"},
           NEW S \in SUBSET Window, frames' = [frames EXCEPT ![Depth].toNotify = S]
    PROVE  RunInv'
  <1>1. Top \in Frame /\ frames' = [frames EXCEPT ![Depth] = [Top EXCEPT !.toNotify = S]]
    BY DEF StackInv, TypeOK, Top, Depth
  <1> DEFINE f == [Top EXCEPT !.toNotify = S]
  <1>2. f \in Frame /\ f.win = Top.win /\ f.task = Top.task /\ f.pc = Top.pc
    BY <1>1 DEF Frame
  <1> HIDE DEF f
  <1>3. /\ frames' \in Seq(Frame) /\ Len(frames') = Depth /\ Depth > 0
        /\ \A i \in 1..(Depth - 1) : frames'[i] = frames[i]
        /\ frames'[Depth] = f
    BY <1>1, <1>2, ReplaceTopEffect DEF StackInv, TypeOK, f
  <1> QED BY <1>2, <1>3, RunByTop

LEMMA RunInvStep == StackInv /\ RunInv /\ [Next]_vars => RunInv'
  <1> SUFFICES ASSUME StackInv, RunInv, [Next]_vars PROVE RunInv'
    OBVIOUS
  <1>1. ASSUME UNCHANGED frames PROVE RunInv'
    BY <1>1 DEF RunInv, ModalBelow, NestedRun, TopIs, Top, Depth
  <1>2. ASSUME NEW w \in Window \cup {NoWindow}, NEW pc \in FramePc \ {"fetch"},
               Pushed(NewFrame(w, pc))
        PROVE  RunInv'
    <2>1. /\ NewFrame(w, pc) \in Frame /\ NewFrame(w, pc).task = {}
          /\ NewFrame(w, pc).pc # "fetch"
      BY NewFrameType DEF NewFrame
    <2> QED BY <1>2, <2>1, RunByPush
  <1>3. ASSUME NEW w \in Window, Receive(w) \/ ProcessEventManually(w) PROVE RunInv'
    <2>1. Push(NewFrame(w, "received")) \/ Push(NewFrame(w, "run"))
      BY <1>3 DEF Receive, ProcessEventManually
    <2>2. {"received", "run"} \subseteq FramePc \ {"fetch"}
      BY DEF FramePc
    <2> QED BY <1>2, <2>1, <2>2, NewFrameType, PushIsPushed DEF StackInv, TypeOK
  <1>4. CASE OpenModal
    <2>1. Push(NewFrame(NoWindow, "modal")) /\ "modal" \in FramePc \ {"fetch"}
      BY <1>4 DEF OpenModal, FramePc
    <2> QED BY <1>2, <2>1, NewFrameType, PushIsPushed DEF StackInv, TypeOK
  <1>5. ASSUME NEW w \in Window, SendNotify(w) PROVE RunInv'
    <2>1. "run" \in FramePc \ {"fetch"}
      BY DEF FramePc
    <2> QED BY <1>2, <1>5, <2>1, SendNotifyEffect, ToNotifyKeepsRun
  <1>6. CASE NotifyOthers
    <2>1. /\ frames # <<>> /\ Top.pc \in {"run", "jobs"}
          /\ frames' = [frames EXCEPT ![Depth].toNotify = Shown \ {Top.win}]
      BY <1>6 DEF NotifyOthers, TopIs
    <2>2. Shown \ {Top.win} \in SUBSET Window
      BY DEF Shown
    <2> QED BY <2>1, <2>2, ToNotifyKeepsRun
  <1>7. CASE \/ OnRequestEventMessageReceived \/ ProcessStalledMessage \/ RunEnds
             \/ OnProcessingEventFinish \/ RunJobsEnds
    <2>1. /\ frames # <<>>
          /\ Pop \/ \E pc \in {"start", "run", "finish", "jobs", "request"} : MoveTop(pc)
      BY <1>7 DEF OnRequestEventMessageReceived, ProcessStalledMessage, RunEnds,
         OnProcessingEventFinish, RunJobsEnds, TopIs
    <2>2. {"start", "run", "finish", "jobs", "request"} \subseteq FramePc \ {"fetch"}
      BY DEF FramePc
    <2> QED BY <2>1, <2>2, MoveKeepsRun, PopIsPopped, RunByPop
  <1>8. CASE RequestNextEvent \/ CloseModal
    <2>1. frames # <<>> /\ Pop
      BY <1>8 DEF RequestNextEvent, CloseModal, TopIs
    <2> QED BY <2>1, PopIsPopped, RunByPop
  <1>9. CASE \/ \E w \in Window : AddWindow(w) \/ RemoveWindow(w)
             \/ BeginSomePut \/ PutStep \/ UNCHANGED vars
    BY <1>1, <1>9 DEF AddWindow, RemoveWindow, BeginSomePut, BeginPut, PutStep, PutAdd,
       PutRequest, vars
  <1> QED
    BY <1>3, <1>4, <1>5, <1>6, <1>7, <1>8, <1>9, ProcessKeepsRun, ExecuteKeepsRun
       DEF Next, MainStep, Environment

\* No task of a panel starts on top of an unfinished one of the same panel, unless a
\* dialog is open in between or further down.
THEOREM TasksRunToCompletion == Spec => []RunToCompletion
  <1>1. Init => RunInv
    BY DEF Init, RunInv, Depth, TopIs
  <1>2. StackInv /\ RunInv => RunToCompletion
    <2> SUFFICES ASSUME StackInv, RunInv PROVE RunToCompletion
      OBVIOUS
    <2>1. DOMAIN frames = 1..Depth /\ Depth \in Nat
      BY DEF StackInv, TypeOK, Depth
    <2>2. \A j \in 1..Depth : ModalBelow(j) => \E k \in 1..j : frames[k].pc = "modal"
      BY <2>1 DEF ModalBelow
    <2> QED BY <2>1, <2>2 DEF RunInv, RunToCompletion
  <1> QED BY <1>1, <1>2, RunInvStep, StackInvInit, StackInvStep, PTL DEF Spec

------------------------------------------------------------------------------
(* Tasks run in order, one resize at a time: EventDispatch is a Mailbox. *)

\* Tasks are numbered up to taskNum, so a new one is the youngest.
NumbersAreOld == \A w \in Window : \A t \in tasks[w] \cup served[w] : t.num <= taskNum

OrderInv == NumbersAreOld /\ ResizeCoalesced /\ ServedInOrder

DispatchInv == StackInv /\ WakeInv /\ OrderInv

LEMMA TaskType ==
    ASSUME NEW t \in Task
    PROVE  t.num \in Nat /\ t.prio \in Int
  <1>1. t.num \in Nat /\ t.prio \in Priority
    BY DEF Task
  <1>2. kNormal..kControl \subseteq Int
    OBVIOUS
  <1> QED
    BY <1>1, <1>2, PriorityAssumption

\* AddTask looks at one neighbour, and that is enough: if the queue held at most
\* one resize, exactly the queued resizes go.
LEMMA AddTaskEffect ==
    ASSUME NEW ts \in SUBSET Task, NEW new \in Task,
           \A t \in ts : t.num < new.num,
           \A s, t \in ts : s.prio = kResize /\ t.prio = kResize => s = t
    PROVE  AddTask(ts, new) =
             {t \in ts : new.prio # kResize \/ t.prio # kResize} \cup {new}
  <1>1. \A t \in ts : t \in Superseded(ts, new) <=> (new.prio = kResize /\ t.prio = kResize)
    <2> SUFFICES ASSUME NEW t \in ts, new.prio = kResize, t.prio = kResize
                 PROVE  t \in Superseded(ts, new)
      BY DEF Superseded
    <2>1. Precedes(t, new)
      BY DEF Precedes
    <2>2. ASSUME NEW u \in ts, Precedes(t, u), Precedes(u, new) PROVE FALSE
      <3>1. /\ u.prio \in Int /\ t.prio \in Int /\ new.prio \in Int
            /\ u.num \in Nat /\ t.num \in Nat
        BY TaskType
      <3>2. u.prio = kResize
        BY <2>2, <3>1 DEF Precedes
      <3>3. u = t
        BY <3>2
      <3> QED
        BY <2>2, <3>1, <3>3 DEF Precedes
    <2> QED
      BY <2>1, <2>2 DEF Superseded
  <1> QED
    BY <1>1 DEF AddTask, Superseded

------------------------------------------------------------------------------
(* The order of tasks *)

\* What PutAdd does to the queue of its window.
LEMMA PutAddEffect ==
    ASSUME DispatchInv, NEW w \in Window, PutAdd(w)
    PROVE  /\ put \in Put /\ put.prio \in Priority /\ w \in Shown
           /\ taskNum' = taskNum + 1 /\ taskNum \in Nat
           /\ UNCHANGED <<life, served>>
           /\ tasks' = [tasks EXCEPT ![w] =
                          {t \in @ : put.prio # kResize \/ t.prio # kResize}
                            \cup {[num |-> taskNum + 1, prio |-> put.prio]}]
  <1> DEFINE new == [num |-> taskNum + 1, prio |-> put.prio]
             ts == tasks[w]
  <1>1. /\ put # NoPut /\ w \in put.todo /\ taskNum' = taskNum + 1 /\ taskNum \in Nat
        /\ UNCHANGED <<life, served>>
        /\ tasks' = [tasks EXCEPT ![w] = AddTask(@, new)]
    BY DEF PutAdd, DispatchInv, StackInv, TypeOK
  <1>2. put \in Put /\ put.prio \in Priority /\ w \in Shown
    BY <1>1, PutType DEF DispatchInv, StackInv, WakeInv, PutInv, Put
  <1>3. new \in Task /\ new.prio = put.prio /\ new.num = taskNum + 1
    BY <1>1, <1>2 DEF Task
  <1>4. ts \in SUBSET Task
    BY DEF DispatchInv, StackInv, TypeOK
  <1>5. \A t \in ts : t.num < new.num
    BY <1>1, <1>3, <1>4 DEF DispatchInv, OrderInv, NumbersAreOld, Task
  <1>6. \A s, t \in ts : s.prio = kResize /\ t.prio = kResize => s = t
    BY DEF DispatchInv, OrderInv, ResizeCoalesced
  <1>7. AddTask(ts, new) = {t \in ts : put.prio # kResize \/ t.prio # kResize} \cup {new}
    <2> HIDE DEF new, ts
    <2> QED
      BY <1>3, <1>4, <1>5, <1>6, AddTaskEffect
  <1> QED
    BY <1>1, <1>2, <1>7

\* What running a task does to the queue and the history.
LEMMA ExecuteEffect ==
    ASSUME DispatchInv, ExecuteNextTask
    PROVE  /\ UNCHANGED <<life, taskNum>>
           /\ \/ UNCHANGED <<tasks, served>>
              \/ \E w \in Shown : \E t \in tasks[w] :
                   /\ \A u \in tasks[w] \ {t} : Precedes(t, u)
                   /\ tasks' = [tasks EXCEPT ![w] = @ \ {t}]
                   /\ served' = [served EXCEPT ![w] = @ \cup {t}]
  <1>1. frames # <<>> /\ Top.pc = "fetch" /\ UNCHANGED <<life, taskNum>>
    BY DEF ExecuteNextTask, TopIs
  <1>2. Depth \in DOMAIN frames
    BY <1>1 DEF DispatchInv, StackInv, TypeOK, Depth
  <1>3. PICK w \in Window : w = Top.win
    BY <1>1, <1>2 DEF DispatchInv, StackInv, StackShape, Top
  <1>4. tasks[w] # {} => w \in Shown
    BY DEF DispatchInv, WakeInv, NothingForGoneWindows
  <1> QED
    BY <1>1, <1>3, <1>4 DEF ExecuteNextTask, IsNextTask

\* The other steps queue and run nothing.
OtherStep ==
    \/ BeginSomePut \/ PutRequest
    \/ \E w \in Window : Receive(w) \/ SendNotify(w) \/ ProcessEventManually(w)
    \/ OnRequestEventMessageReceived \/ ProcessNextEvent \/ RunEnds
    \/ OnProcessingEventFinish \/ RunJobsEnds \/ RequestNextEvent \/ CloseModal
    \/ ProcessStalledMessage \/ OpenModal \/ NotifyOthers

LEMMA OtherStepEffect ==
    ASSUME OtherStep
    PROVE  UNCHANGED <<life, tasks, taskNum, served>>
  BY DEF OtherStep, BeginSomePut, BeginPut, PutRequest, Receive, SendNotify,
         ProcessEventManually, OnRequestEventMessageReceived, ProcessNextEvent, RunEnds,
         OnProcessingEventFinish, RunJobsEnds, RequestNextEvent, CloseModal,
         ProcessStalledMessage, OpenModal, NotifyOthers

LEMMA NextSteps ==
    ASSUME Next
    PROVE  \/ OtherStep \/ ExecuteNextTask
           \/ \E w \in Window : PutAdd(w) \/ AddWindow(w) \/ RemoveWindow(w)
  BY DEF Next, MainStep, PutStep, Environment, OtherStep

LEMMA OrderInvStep == DispatchInv /\ [Next]_vars => OrderInv'
  <1> SUFFICES ASSUME DispatchInv, [Next]_vars PROVE OrderInv'
    OBVIOUS
  <1>1. ASSUME UNCHANGED <<tasks, taskNum, served>> PROVE OrderInv'
    BY <1>1 DEF DispatchInv, OrderInv, NumbersAreOld, ResizeCoalesced, ServedInOrder
  <1>2. ASSUME NEW w \in Window, PutAdd(w) PROVE OrderInv'
    <2> DEFINE new == [num |-> taskNum + 1, prio |-> put.prio]
    <2>1. /\ taskNum' = taskNum + 1 /\ taskNum \in Nat /\ served' = served
          /\ tasks' = [tasks EXCEPT ![w] =
                         {t \in @ : put.prio # kResize \/ t.prio # kResize} \cup {new}]
      BY <1>2, PutAddEffect
    <2>2. new.num = taskNum + 1 /\ new.prio = put.prio
      OBVIOUS
    <2> HIDE DEF new
    <2>3. /\ tasks'[w] = {t \in tasks[w] : put.prio # kResize \/ t.prio # kResize} \cup {new}
          /\ \A v \in Window \ {w} : tasks'[v] = tasks[v]
      BY <2>1 DEF DispatchInv, StackInv, TypeOK
    <2>4. \A v \in Window : \A t \in tasks[v] \cup served[v] : t.num \in Nat /\ t.num <= taskNum
      BY DEF DispatchInv, StackInv, TypeOK, OrderInv, NumbersAreOld, Task
    <2>5. \A v \in Window : \A t \in tasks'[v] : t \in tasks[v] \/ (v = w /\ t = new)
      BY <2>3
    <2>6. NumbersAreOld'
      BY <2>1, <2>2, <2>4, <2>5 DEF NumbersAreOld
    <2>7. ResizeCoalesced'
      BY <2>2, <2>3 DEF DispatchInv, OrderInv, ResizeCoalesced
    <2>8. ServedInOrder'
      BY <2>1, <2>2, <2>4, <2>5 DEF DispatchInv, OrderInv, ServedInOrder
    <2> QED
      BY <2>6, <2>7, <2>8 DEF OrderInv
  <1>3. ASSUME NEW w \in Shown, NEW t \in tasks[w],
               \A u \in tasks[w] \ {t} : Precedes(t, u),
               tasks' = [tasks EXCEPT ![w] = @ \ {t}],
               served' = [served EXCEPT ![w] = @ \cup {t}],
               UNCHANGED taskNum
        PROVE  OrderInv'
    <2>1. w \in Window
      BY DEF Shown
    <2>2. /\ tasks'[w] = tasks[w] \ {t} /\ served'[w] = served[w] \cup {t}
          /\ \A v \in Window \ {w} : tasks'[v] = tasks[v] /\ served'[v] = served[v]
      BY <1>3, <2>1 DEF DispatchInv, StackInv, TypeOK
    <2>3. NumbersAreOld'
      BY <1>3, <2>2 DEF DispatchInv, OrderInv, NumbersAreOld
    <2>4. ResizeCoalesced'
      BY <2>2 DEF DispatchInv, OrderInv, ResizeCoalesced
    <2>5. \A u \in tasks[w] \ {t} : u.prio = t.prio => t.num < u.num
      <3> SUFFICES ASSUME NEW u \in tasks[w] \ {t}, u.prio = t.prio PROVE t.num < u.num
        OBVIOUS
      <3>1. Precedes(t, u)
        BY <1>3
      <3>2. u \in Task
        BY <2>1 DEF DispatchInv, StackInv, TypeOK
      <3>3. u.prio \in Int
        BY <3>2, TaskType
      <3> QED
        BY <3>1, <3>3 DEF Precedes
    <2>6. ServedInOrder'
      <3> SUFFICES ASSUME NEW v \in Window, NEW s \in served'[v], NEW u \in tasks'[v],
                          s.prio = u.prio
                   PROVE  s.num < u.num
        BY DEF ServedInOrder
      <3>1. CASE v # w
        BY <2>2, <3>1 DEF DispatchInv, OrderInv, ServedInOrder
      <3>2. CASE v = w /\ s = t
        BY <2>2, <2>5, <3>2
      <3>3. CASE v = w /\ s # t
        BY <2>2, <3>3 DEF DispatchInv, OrderInv, ServedInOrder
      <3> QED
        BY <3>1, <3>2, <3>3
    <2> QED
      BY <2>3, <2>4, <2>6 DEF OrderInv
  <1>4. ASSUME NEW w \in Window, AddWindow(w) \/ RemoveWindow(w) PROVE OrderInv'
    <2>1. /\ UNCHANGED <<taskNum, served>>
          /\ \A v \in Window : tasks'[v] \subseteq tasks[v]
      <3>1. CASE AddWindow(w)
        BY <3>1 DEF AddWindow
      <3>2. CASE RemoveWindow(w)
        BY <3>2 DEF RemoveWindow, DispatchInv, StackInv, TypeOK
      <3> QED
        BY <1>4, <3>1, <3>2
    <2> QED
      BY <2>1 DEF DispatchInv, OrderInv, NumbersAreOld, ResizeCoalesced, ServedInOrder
  <1>5. CASE UNCHANGED vars
    BY <1>1, <1>5 DEF vars
  <1>6. CASE OtherStep
    BY <1>1, <1>6, OtherStepEffect
  <1>7. CASE ExecuteNextTask
    BY <1>1, <1>3, <1>7, ExecuteEffect
  <1> QED
    BY <1>2, <1>4, <1>5, <1>6, <1>7, NextSteps

LEMMA OrderInvInit == Init => OrderInv
  BY DEF Init, OrderInv, NumbersAreOld, ResizeCoalesced, ServedInOrder

LEMMA DispatchInvHolds == Spec => []DispatchInv
  <1>1. Init => DispatchInv
    BY StackInvInit, WakeInvInit, OrderInvInit DEF DispatchInv
  <1>2. DispatchInv /\ [Next]_vars => DispatchInv'
    BY StackInvStep, WakeInvStep, OrderInvStep DEF DispatchInv
  <1> QED
    BY <1>1, <1>2, PTL DEF Spec

\* At most one resize is queued per panel, whatever else is queued around it.
THEOREM OneResizeIsQueued == Spec => []ResizeCoalesced
  <1>1. DispatchInv => ResizeCoalesced
    BY DEF DispatchInv, OrderInv
  <1> QED
    BY <1>1, DispatchInvHolds, PTL

\* Puts leave one resize per window at most, and nothing for windows that are gone.
THEOREM PutsLeaveNoMess == Spec => []PutsAreClean
  <1>1. ResizeCoalesced /\ NothingForGoneWindows => PutsAreClean
    BY DEF PutsAreClean
  <1> QED
    BY <1>1, OneResizeIsQueued, GoneWindowsGetNothing, PTL

\* Tasks of one priority run first come, first served.
THEOREM FirstComeFirstServed == Spec => []ServedInOrder
  <1>1. DispatchInv => ServedInOrder
    BY DEF DispatchInv, OrderInv
  <1> QED
    BY <1>1, DispatchInvHolds, PTL

------------------------------------------------------------------------------
(* Refinement *)

LEMMA MailboxStep == DispatchInv /\ [Next]_vars => [Mailboxes!Next]_(Mailboxes!mailVars)
  <1> SUFFICES ASSUME DispatchInv, [Next]_vars
               PROVE  Mailboxes!Next \/ UNCHANGED <<Shown, tasks, taskNum>>
    BY DEF Mailboxes!mailVars
  <1>1. ASSUME UNCHANGED <<life, tasks, taskNum>> PROVE UNCHANGED <<Shown, tasks, taskNum>>
    BY <1>1 DEF Shown
  <1>2. ASSUME NEW w \in Window, PutAdd(w) PROVE Mailboxes!Post(w, put.prio) /\ put.prio \in Priority
    BY <1>2, PutAddEffect DEF Mailboxes!Post, Mailboxes!Resize, kResize, Shown
  <1>3. ASSUME NEW w \in Shown, NEW t \in tasks[w],
               \A u \in tasks[w] \ {t} : Precedes(t, u),
               tasks' = [tasks EXCEPT ![w] = @ \ {t}],
               UNCHANGED <<life, taskNum>>
        PROVE  w \in Window /\ Mailboxes!Deliver(w)
    BY <1>3 DEF Mailboxes!Deliver, Mailboxes!MoreUrgent, Precedes, Shown
  <1>4. ASSUME NEW w \in Window, AddWindow(w) PROVE Mailboxes!Open(w)
    <2>1. /\ life[w] # "shown" /\ life'[w] = "shown" /\ UNCHANGED <<tasks, taskNum>>
          /\ \A v \in Window \ {w} : life'[v] = life[v]
      BY <1>4 DEF AddWindow, DispatchInv, StackInv, TypeOK
    <2> QED
      BY <2>1 DEF Mailboxes!Open, Shown
  <1>5. ASSUME NEW w \in Window, RemoveWindow(w) PROVE Mailboxes!Close(w)
    <2>1. /\ life[w] = "shown" /\ life'[w] # "shown" /\ UNCHANGED taskNum
          /\ tasks' = [tasks EXCEPT ![w] = {}]
          /\ \A v \in Window \ {w} : life'[v] = life[v]
      BY <1>5 DEF RemoveWindow, DispatchInv, StackInv, TypeOK
    <2> QED
      BY <2>1 DEF Mailboxes!Close, Shown
  <1>6. CASE UNCHANGED vars
    BY <1>1, <1>6 DEF vars
  <1>7. CASE OtherStep
    BY <1>1, <1>7, OtherStepEffect
  <1>8. CASE ExecuteNextTask
    <2>1. CASE UNCHANGED <<tasks, served>>
      BY <1>1, <1>8, <2>1, ExecuteEffect
    <2>2. CASE \E w \in Shown : \E t \in tasks[w] :
                 /\ \A u \in tasks[w] \ {t} : Precedes(t, u)
                 /\ tasks' = [tasks EXCEPT ![w] = @ \ {t}]
      BY <1>3, <1>8, <2>2, ExecuteEffect DEF Mailboxes!Next
    <2> QED
      BY <1>8, <2>1, <2>2, ExecuteEffect
  <1> QED
    BY <1>2, <1>4, <1>5, <1>6, <1>7, <1>8, NextSteps DEF Mailboxes!Next

LEMMA MailboxInit == Init => Mailboxes!Init
  BY DEF Init, Mailboxes!Init, Shown

\* The message protocol, the locks and the nested loops implement a mailbox per
\* panel: most urgent first, then oldest first, only the last resize.
THEOREM ImplementsMailbox == Spec => MailboxSpec
  BY DispatchInvHolds, MailboxInit, MailboxStep, PTL DEF Spec, MailboxSpec, Mailboxes!Spec

=============================================================================
