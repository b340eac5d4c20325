------------------------------- MODULE Camera -------------------------------
(* The camera client, sense/camera/src/main.cpp.  The driver has one buffer: *)
(* read_frame takes the filled buffer and queues it again at once, so the    *)
(* driver fills it with the next frame while main copies the pixels.         *)
(* The driver, select and SDL are external.  A remote call is as in RpcSpec: *)
(* it returns, or the process never comes out of exit.                       *)
EXTENDS Integers

CONSTANTS Size,      \* pixels of a frame (320 * 240)
          MaxFrames  \* bound: frames the camera delivers before it stalls

ASSUME CameraAssumption == Size \in Nat \ {0} /\ MaxFrames \in Nat \ {0}

VARIABLES
  at,       \* where main is
  running,
  quit,     \* whether SDL has a quit event queued
  i,        \* the pixel the copy is at
  ldata,    \* the luminances: the frames they are from
  status,   \* of the buffer: "queued", "done", "ours" or "off"
  buffer,   \* the frames its pixels are from; 0: as allocated
  fill,     \* the pixel the driver is at
  frames,   \* frames completed by the driver
  sent,     \* server: what the last write2D carried
  base      \* history: the last frame read_frame took
driver == <<buffer, fill, frames>>
vars == <<at, running, quit, i, ldata, status, driver, sent, base>>

Pixels == 0 .. Size - 1

\* The pixel after p, 0 after the last.
Step(p) == IF p + 1 = Size THEN 0 ELSE p + 1

Init ==
  /\ at = "events" /\ running = TRUE /\ quit = FALSE /\ i = 0
  /\ ldata = [p \in Pixels |-> 0]
  /\ status = "queued" /\ buffer = [p \in Pixels |-> 0] /\ fill = 0 /\ frames = 0
  /\ sent = [p \in Pixels |-> 0] /\ base = 0

-----------------------------------------------------------------------------
(* The driver and the user *)

\* The driver stores a pixel of the next frame.
Fill ==
  /\ status = "queued" /\ frames < MaxFrames
  /\ buffer' = [buffer EXCEPT ![fill] = frames + 1]
  /\ fill' = Step(fill)
  /\ IF fill' = 0 THEN status' = "done" /\ frames' = frames + 1 ELSE UNCHANGED <<status, frames>>
  /\ UNCHANGED <<at, running, quit, i, ldata, sent, base>>

\* sdl_filter lets only this event through.
Quit ==
  /\ ~quit /\ quit' = TRUE
  /\ UNCHANGED <<at, running, i, ldata, status, driver, sent, base>>

-----------------------------------------------------------------------------
(* main *)

Turn == IF running THEN "events" ELSE "stop"

Events ==
  /\ at = "events" /\ at' = "select"
  /\ running' = (running /\ ~quit) /\ quit' = FALSE
  /\ UNCHANGED <<i, ldata, status, driver, sent, base>>

\* select says the buffer is filled, or says so by mistake.
Ready ==
  /\ at = "select" /\ at' = "dequeue"
  /\ UNCHANGED <<running, quit, i, ldata, status, driver, sent, base>>

\* EINTR: the loop starts over.
Interrupted ==
  /\ at = "select" /\ at' = Turn
  /\ UNCHANGED <<running, quit, i, ldata, status, driver, sent, base>>

\* No frame for two seconds, or an error of select or ioctl: exit.
Fail ==
  /\ at \in {"select", "dequeue", "queue", "stop"} /\ at' = "exit"
  /\ UNCHANGED <<running, quit, i, ldata, status, driver, sent, base>>

\* read_frame: VIDIOC_DQBUF; EAGAIN makes it return false, which main ignores.
Dequeue ==
  /\ at = "dequeue"
  /\ \/ status = "done" /\ status' = "ours" /\ base' = frames /\ at' = "queue"
     \/ status = "queued" /\ at' = "reform" /\ UNCHANGED <<status, base>>
  /\ UNCHANGED <<running, quit, i, ldata, driver, sent>>

\* Mutant: main goes round on the wrong result of read_frame.
Queue_NextTurn ==
  /\ at = "queue" /\ at' = Turn
  /\ status' = "queued"
  /\ UNCHANGED <<running, quit, i, ldata, driver, sent, base>>

\* read_frame: VIDIOC_QBUF.
Queue ==
  /\ at = "queue" /\ at' = "reform"
  /\ status' = "queued"
  /\ UNCHANGED <<running, quit, i, ldata, driver, sent, base>>

Reform ==
  /\ at = "reform" /\ at' = "copy"
  /\ UNCHANGED <<running, quit, i, ldata, status, driver, sent, base>>

\* Mutant: the first pixel is left out.
Copy_SkipsFirst ==
  /\ at = "copy"
  /\ ldata' = IF i = 0 THEN ldata ELSE [ldata EXCEPT ![i] = buffer[i]]
  /\ i' = Step(i)
  /\ at' = IF i' = 0 THEN "write" ELSE "copy"
  /\ UNCHANGED <<running, quit, status, driver, sent, base>>

\* Mutant: one pixel too many.
Copy_PastEnd ==
  /\ at = "copy"
  /\ ldata' = [ldata EXCEPT ![i] = buffer[i]]
  /\ i' = i + 1
  /\ at' = IF i' > Size THEN "write" ELSE "copy"
  /\ UNCHANGED <<running, quit, status, driver, sent, base>>

Copy ==
  /\ at = "copy"
  /\ ldata' = [ldata EXCEPT ![i] = buffer[i]]
  /\ i' = Step(i)
  /\ at' = IF i' = 0 THEN "write" ELSE "copy"
  /\ UNCHANGED <<running, quit, status, driver, sent, base>>

Write ==
  /\ at = "write" /\ at' = "show"
  /\ sent' = ldata
  /\ UNCHANGED <<running, quit, i, ldata, status, driver, base>>

\* No reply: Rpc::send calls exit.
GiveUp ==
  /\ at \in {"reform", "write"} /\ at' = "exit"
  /\ UNCHANGED <<running, quit, i, ldata, status, driver, sent, base>>

\* Mutant: the loop is not left.
Show_Again ==
  /\ at = "show" /\ at' = "events"
  /\ UNCHANGED <<running, quit, i, ldata, status, driver, sent, base>>

\* The prediction is shown and the loop goes round.
Show ==
  /\ at = "show" /\ at' = Turn
  /\ UNCHANGED <<running, quit, i, ldata, status, driver, sent, base>>

\* VIDIOC_STREAMOFF, free, close; main returns.
Stop ==
  /\ at = "stop" /\ at' = "returned"
  /\ status' = "off"
  /\ UNCHANGED <<running, quit, i, ldata, driver, sent, base>>

Main == \/ Events \/ Ready \/ Interrupted \/ Fail \/ Dequeue \/ Queue
        \/ Reform \/ Copy \/ Write \/ GiveUp \/ Show \/ Stop
Next == Fill \/ Quit \/ Main
Spec == Init /\ [][Next]_vars

\* main goes on.  The camera and the user owe nothing.
FairSpec == Spec /\ WF_vars(Main)

-----------------------------------------------------------------------------
(* Properties *)

Over == at \in {"returned", "exit"}

\* Type invariant.
TypeOK ==
  /\ at \in {"events", "select", "dequeue", "queue", "reform", "copy", "write", "show", "stop",
             "returned", "exit"}
  /\ running \in BOOLEAN /\ quit \in BOOLEAN /\ i \in Pixels
  /\ ldata \in [Pixels -> 0 .. MaxFrames] /\ sent \in [Pixels -> 0 .. MaxFrames]
  /\ status \in {"queued", "done", "ours", "off"}
  /\ buffer \in [Pixels -> 0 .. MaxFrames] /\ fill \in Pixels
  /\ frames \in 0 .. MaxFrames /\ base \in 0 .. MaxFrames

\* What is sent is made of at most two frames, the one read_frame took and the
\* next: the buffer is overwritten during the copy, but only once, because a
\* filled buffer waits for the next read_frame (main.cpp:81, 341-345).
SentSpansTwo == at = "show" => sent \in [Pixels -> {base, base + 1}]

\* read_frame takes a frame only when the one before was sent, in all pixels or
\* with some of the frame after it, and finds the buffer with the driver: no way
\* through the loop, EAGAIN and EINTR included, drops a frame that was taken or
\* keeps the only buffer (main.cpp:74-85, 322-356).
NoFrameDropped ==
  at = "dequeue" => status \in {"queued", "done"} /\ \A p \in Pixels : sent[p] >= base

\* After a quit event main leaves its loop, in a return or in exit, whatever
\* select answers and whether or not there is a frame (main.cpp:304-334).
QuitEnds == quit ~> Over
=============================================================================
