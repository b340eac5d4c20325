---------------------------- MODULE CameraProofs -----------------------------
(* What the camera client sends, for frames of every size.                   *)
EXTENDS Camera, TLAPS

USE CameraAssumption

\* Before the driver's index the buffer is of the next frame, from there on of
\* the frame taken last; a filled buffer waits.
Stream ==
  /\ status = "queued" => /\ frames = base
                          /\ \A p \in Pixels : buffer[p] = IF p < fill THEN base + 1 ELSE base
  /\ status = "done" => /\ frames = base + 1 /\ fill = 0
                        /\ \A p \in Pixels : buffer[p] = base + 1
  /\ status = "ours" => /\ frames = base /\ fill = 0
                        /\ \A p \in Pixels : buffer[p] = base
  /\ at = "queue" => status = "ours"
  /\ status = "ours" => at \in {"queue", "exit"}
  /\ status = "off" => at = "returned"

\* What was copied in this turn, and what the turns before have sent.
Copied ==
  /\ at # "copy" => i = 0
  /\ at = "copy" => \A p \in Pixels : p < i => ldata[p] \in {base, base + 1}
  /\ at = "write" => \A p \in Pixels : ldata[p] \in {base, base + 1}
  /\ at = "show" => \A p \in Pixels : sent[p] \in {base, base + 1}
  /\ at \in {"events", "select", "dequeue", "stop"} => \A p \in Pixels : sent[p] >= base

IInv == TypeOK /\ Stream /\ Copied

LEMMA InvInit == Init => IInv
<1> SUFFICES ASSUME Init PROVE IInv
  OBVIOUS
<1>1. running \in BOOLEAN /\ quit \in BOOLEAN
  BY DEF Init
<1>2. TypeOK
  BY <1>1 DEF Init, TypeOK, Pixels
<1>3. Stream /\ Copied
  BY DEF Init, Stream, Copied, Pixels
<1> QED
  BY <1>2, <1>3 DEF IInv

LEMMA StepType == \A p \in Pixels : Step(p) \in Pixels
BY DEF Step, Pixels

\* The driver's step.
LEMMA InvFill == IInv /\ Fill => IInv'
<1> SUFFICES ASSUME IInv, Fill PROVE IInv'
  OBVIOUS
<1> USE DEF IInv, Fill
<1>0. /\ status = "queued" /\ at # "queue" /\ fill \in Pixels /\ frames = base
      /\ frames \in Nat /\ frames + 1 \in 0 .. MaxFrames
  BY DEF TypeOK, Stream
<1>1. buffer' = [buffer EXCEPT ![fill] = base + 1] /\ fill' = Step(fill)
  BY <1>0
<1>2. \A p \in Pixels : buffer'[p] = IF p <= fill THEN base + 1 ELSE base
  BY <1>0, <1>1 DEF TypeOK, Stream, Pixels
<1>3. TypeOK'
  BY <1>0, <1>1, StepType DEF TypeOK
<1>4. Stream'
  <2>1. CASE fill' = 0
    <3>1. fill = Size - 1
      BY <1>0, <1>1, <2>1 DEF Step, Pixels
    <3>2. status' = "done" /\ frames' = base + 1 /\ UNCHANGED <<at, base>>
      BY <1>0, <2>1
    <3>3. \A p \in Pixels : buffer'[p] = base + 1
      BY <1>0, <1>2, <3>1 DEF Pixels
    <3> QED
      BY <1>0, <2>1, <3>2, <3>3 DEF Stream
  <2>2. CASE fill' # 0
    <3>1. fill' = fill + 1
      BY <1>1, <2>2 DEF Step
    <3>2. status' = "queued" /\ frames' = frames /\ UNCHANGED <<at, base>>
      BY <1>0, <2>2
    <3>3. \A p \in Pixels : buffer'[p] = IF p < fill' THEN base + 1 ELSE base
      BY <1>0, <1>2, <3>1 DEF Pixels
    <3> QED
      BY <1>0, <3>2, <3>3 DEF Stream
  <2> QED
    BY <2>1, <2>2
<1>5. Copied'
  BY DEF Copied
<1> QED
  BY <1>3, <1>4, <1>5

\* The steps of main that touch neither pixels nor the buffer.
LEMMA InvQuiet ==
  ASSUME IInv, Quit \/ Events \/ Ready \/ Interrupted \/ Fail \/ Reform \/ GiveUp \/ Show
  PROVE  IInv'
<1> USE DEF IInv
<1>0. UNCHANGED <<i, ldata, status, driver, sent, base>>
  BY DEF Quit, Events, Ready, Interrupted, Fail, Reform, GiveUp, Show
<1>1. TypeOK'
  <2>1. /\ at' \in {"events", "select", "dequeue", "copy", "stop", "exit"} \cup {at}
        /\ running' \in BOOLEAN /\ quit' \in BOOLEAN
    BY DEF TypeOK, Quit, Events, Ready, Interrupted, Fail, Reform, GiveUp, Show, Turn
  <2> QED
    BY <1>0, <2>1 DEF TypeOK, driver
<1>2. Stream'
  BY <1>0 DEF Stream, TypeOK, driver, Quit, Events, Ready, Interrupted, Fail, Reform, GiveUp,
              Show, Turn
<1>3. Copied'
  <2>1. \A p \in Pixels : base \in Int
    BY DEF TypeOK
  <2>2. CASE Reform
    BY <1>0, <2>2 DEF Copied, Reform, Pixels
  <2>3. CASE Show
    BY <1>0, <2>1, <2>3 DEF Copied, Show, Turn
  <2>4. CASE Quit
    BY <1>0, <2>4 DEF Copied, Quit
  <2>5. CASE Events \/ Ready \/ Interrupted \/ Fail \/ GiveUp
    BY <1>0, <2>5 DEF Copied, Events, Ready, Interrupted, Fail, GiveUp, Turn
  <2> QED
    BY <2>2, <2>3, <2>4, <2>5
<1> QED
  BY <1>1, <1>2, <1>3

\* The steps that take, give back, copy, send and free.
LEMMA InvBusy ==
  ASSUME IInv, Dequeue \/ Queue \/ Copy \/ Write \/ Stop
  PROVE  IInv'
<1> USE DEF IInv
<1>1. CASE Dequeue
  <2>1. TypeOK'
    BY <1>1 DEF Dequeue, TypeOK, driver
  <2>2. Stream'
    BY <1>1 DEF Dequeue, Stream, TypeOK, driver
  <2>3. Copied'
    BY <1>1 DEF Dequeue, Copied
  <2> QED
    BY <2>1, <2>2, <2>3
<1>2. CASE Queue
  <2>1. TypeOK'
    BY <1>2 DEF Queue, TypeOK, driver
  <2>2. Stream'
    BY <1>2 DEF Queue, Stream, driver, Pixels
  <2>3. Copied'
    BY <1>2 DEF Queue, Copied
  <2> QED
    BY <2>1, <2>2, <2>3
<1>3. CASE Copy
  <2>0. i \in Pixels /\ i' = Step(i) /\ at = "copy" /\ base \in Nat
        /\ ldata' = [ldata EXCEPT ![i] = buffer[i]] /\ status \in {"queued", "done"}
    BY <1>3 DEF Copy, TypeOK, Stream
  <2>1. TypeOK'
    BY <1>3, <2>0, StepType DEF Copy, TypeOK, driver
  <2>2. Stream'
    BY <1>3 DEF Copy, Stream, driver
  <2>3. buffer[i] \in {base, base + 1}
    BY <2>0 DEF Stream
  <2>4. \A p \in Pixels : p <= i => ldata'[p] \in {base, base + 1}
    BY <2>0, <2>3 DEF Copied, TypeOK, Pixels
  <2>5. Copied'
    <3>1. CASE i' = 0
      <4>1. i = Size - 1
        BY <2>0, <3>1 DEF Step, Pixels
      <4>2. \A p \in Pixels : ldata'[p] \in {base, base + 1}
        BY <2>0, <2>4, <4>1 DEF Pixels
      <4>3. at' = "write" /\ base' = base
        BY <1>3, <3>1 DEF Copy
      <4> QED
        BY <3>1, <4>2, <4>3 DEF Copied
    <3>2. CASE i' # 0
      <4>1. i' = i + 1 /\ at' = "copy" /\ base' = base
        BY <1>3, <2>0, <3>2 DEF Copy, Step
      <4>2. \A p \in Pixels : p < i' => ldata'[p] \in {base, base + 1}
        BY <2>0, <2>4, <4>1 DEF Pixels
      <4> QED
        BY <4>1, <4>2 DEF Copied
    <3> QED
      BY <3>1, <3>2
  <2> QED
    BY <2>1, <2>2, <2>5
<1>4. CASE Write
  <2>1. TypeOK'
    BY <1>4 DEF Write, TypeOK, driver
  <2>2. Stream' /\ Copied'
    BY <1>4 DEF Write, Stream, Copied, driver
  <2> QED
    BY <2>1, <2>2
<1>5. CASE Stop
  <2>1. TypeOK'
    BY <1>5 DEF Stop, TypeOK, driver
  <2>2. Stream' /\ Copied'
    BY <1>5 DEF Stop, Stream, Copied, driver
  <2> QED
    BY <2>1, <2>2
<1> QED
  BY <1>1, <1>2, <1>3, <1>4, <1>5

LEMMA InvNext == IInv /\ [Next]_vars => IInv'
<1> SUFFICES ASSUME IInv, [Next]_vars PROVE IInv'
  OBVIOUS
<1>1. CASE UNCHANGED vars
  BY <1>1 DEF vars, driver, IInv, TypeOK, Stream, Copied
<1> QED
  BY <1>1, InvFill, InvQuiet, InvBusy DEF Next, Main

THEOREM InvKept == Spec => []IInv
BY InvInit, InvNext, PTL DEF Spec

\* The types of the variables are those TypeOK gives them.
THEOREM TypeCorrect == Spec => []TypeOK
<1>1. IInv => TypeOK
  BY DEF IInv
<1> QED
  BY <1>1, InvKept, PTL

\* What a write carries is from two successive frames at most, for frames of
\* every size and a camera that goes on for any time.
THEOREM TwoFramesSent == Spec => []SentSpansTwo
<1>1. IInv => SentSpansTwo
  BY DEF IInv, TypeOK, Copied, SentSpansTwo
<1> QED
  BY <1>1, InvKept, PTL

\* No frame that was taken is dropped and the driver is never left without the
\* buffer.
THEOREM TakenIsSent == Spec => []NoFrameDropped
<1>1. IInv => NoFrameDropped
  BY DEF IInv, TypeOK, Stream, Copied, NoFrameDropped
<1> QED
  BY <1>1, InvKept, PTL
=============================================================================
