----------------------------- MODULE MovieProofs -----------------------------
(* What the movie client shows, sends and frees, for pictures of every size  *)
(* and movies of every length.                                               *)
EXTENDS Movie, TLAPS

USE MovieAssumption

\* The video thread has the mutex from lock to unlock, the main thread during
\* its copy.
Holding ==
  /\ mutex = "video" <=> video \notin {"idle", "lock", "stopped"}
  /\ mutex = "main" <=> main = "blit"
  /\ mutex = "destroyed" <=> main = "returned"
  /\ video = "stopped" <=> main \in {"destroy", "returned"}

\* While nobody holds the mutex for painting, the surface is whole.
Whole(s) == /\ s.kind \in {"blank", "prediction"}
            /\ surf = [p \in Pixels |-> s]
SurfaceOK == video \in {"idle", "lock", "stopped"} => \E s \in Shade : Whole(s)

\* How far each loop of the video thread is.
Seen == [kind |-> "video", of |-> picture]
Told == [kind |-> "prediction", of |-> rdata]
LoopsOK ==
  /\ video \notin {"draw", "convert", "render"} => k = 0
  /\ video = "draw" => \A p \in Pixels : p < k => surf[p] = Seen
  /\ video = "reform" => \A p \in Pixels : surf[p] = Seen
  /\ video = "convert" => \A p \in Pixels : IF p < k THEN ldata[p] = Seen ELSE surf[p] = Seen
  /\ video = "write" => \A p \in Pixels : ldata[p] = Seen
  /\ video \in {"render", "unlock"} => \A p \in Pixels : sent[p] = Seen
  /\ video = "render" => \A p \in Pixels : p < k => surf[p] = Told
  /\ video = "unlock" => \A p \in Pixels : surf[p] = Told

\* What the server knows.
KnownOK ==
  /\ video = "idle" => region = picture
  /\ video \in {"lock", "draw", "reform", "convert", "write"} => region = picture - 1
  /\ video \in {"convert", "write", "render", "unlock"} => rdata = picture - 1
  /\ video \in {"render", "unlock"} => region = picture

\* How far the copy to the screen is.
BlitOK ==
  /\ main # "blit" => m = 0
  /\ main = "blit" => \A p \in Pixels : p < m => screen[p] = surf[p]

IInv == TypeOK /\ Holding /\ SurfaceOK /\ LoopsOK /\ KnownOK /\ BlitOK /\ ScreenIsWhole

LEMMA InvInit == Init => IInv
<1> SUFFICES ASSUME Init PROVE IInv
  OBVIOUS
<1>1. Blank \in Shade
  BY DEF Blank, Shade
<1>2. TypeOK
  <2>1. done \in BOOLEAN
    BY DEF Init
  <2> QED
    BY <1>1, <2>1 DEF Init, TypeOK, Pixels, Keys
<1>3. Holding /\ LoopsOK /\ KnownOK /\ BlitOK /\ ScreenIsWhole
  BY DEF Init, Holding, LoopsOK, KnownOK, BlitOK, ScreenIsWhole
<1>4. SurfaceOK
  <2>1. Whole(Blank)
    BY DEF Init, Whole, Blank
  <2> QED
    BY <1>1, <2>1 DEF SurfaceOK
<1> QED
  BY <1>2, <1>3, <1>4 DEF IInv

LEMMA StepType == \A p \in Pixels : Step(p) \in Pixels
BY DEF Step, Pixels

LEMMA ShadeTypes ==
  TypeOK => /\ Seen \in Shade /\ Told \in Shade
            /\ [kind |-> "black", of |-> 0] \in Shade
BY DEF TypeOK, Seen, Told, Shade

-----------------------------------------------------------------------------
(* The main thread and the user *)

LEMMA InvMain ==
  ASSUME IInv, Press \/ PollEvent \/ Act \/ LockMain \/ Blit \/ Flip \/ Stopped \/ Destroy
  PROVE  IInv'
<1> USE DEF IInv
<1>1. CASE Press \/ PollEvent
  <2>1. UNCHANGED <<main, m, screen, videovars, surf, mutex>>
    BY <1>1 DEF Press, PollEvent
  <2>2. TypeOK'
    <3>1. CASE Press
      BY <2>1, <3>1 DEF Press, TypeOK, videovars
    <3>2. CASE PollEvent
      <4>1. Head(queue) \in Keys \cup {"quit"} /\ queue' \in Seq(Keys \cup {"quit"})
        BY <3>2 DEF PollEvent, TypeOK
      <4>2. action' \in Keys \cup {"none"} /\ events' = events
        BY <3>2, <4>1 DEF PollEvent, TypeOK
      <4>3. done' \in BOOLEAN
        BY <3>2 DEF PollEvent
      <4> QED
        BY <2>1, <4>1, <4>2, <4>3 DEF TypeOK, videovars
    <3> QED
      BY <1>1, <3>1, <3>2
  <2>3. Holding' /\ SurfaceOK' /\ LoopsOK'
    BY <2>1 DEF Holding, SurfaceOK, LoopsOK, Whole, Seen, Told, videovars
  <2>4. KnownOK' /\ BlitOK' /\ ScreenIsWhole'
    BY <2>1 DEF KnownOK, BlitOK, ScreenIsWhole, videovars
  <2> QED
    BY <2>2, <2>3, <2>4
<1>2. CASE Act \/ LockMain \/ Flip \/ Destroy
  <2>1. UNCHANGED <<m, screen, videovars, surf, queue, events>>
    BY <1>2 DEF Act, LockMain, Flip, Destroy
  <2>2. /\ main' \in {"events", "lock", "blit", "stopping", "returned"}
        /\ mutex' \in {"free", "video", "main", "destroyed"}
        /\ action' \in Keys \cup {"none"}
    BY <1>2 DEF Act, LockMain, Flip, Destroy, TypeOK
  <2>3. done' \in BOOLEAN
    BY <1>2 DEF Act, LockMain, Flip, Destroy, TypeOK
  <2>4. TypeOK'
    BY <2>1, <2>2, <2>3 DEF TypeOK, videovars
  <2>5. Holding'
    BY <1>2, <2>1 DEF Act, LockMain, Flip, Destroy, Holding, TypeOK, videovars
  <2>6. SurfaceOK' /\ LoopsOK' /\ KnownOK'
    BY <2>1 DEF SurfaceOK, LoopsOK, KnownOK, Whole, Seen, Told, videovars
  <2>7. BlitOK'
    BY <1>2, <2>1 DEF Act, LockMain, Flip, Destroy, BlitOK, Pixels
  <2>8. ScreenIsWhole'
    BY <1>2 DEF Act, LockMain, Flip, Destroy, ScreenIsWhole
  <2> QED
    BY <2>4, <2>5, <2>6, <2>7, <2>8
<1>3. CASE Stopped
  <2>1. TypeOK' /\ Holding'
    BY <1>3 DEF Stopped, TypeOK, Holding
  <2>2. SurfaceOK' /\ LoopsOK' /\ KnownOK' /\ BlitOK' /\ ScreenIsWhole'
    BY <1>3 DEF Stopped, SurfaceOK, LoopsOK, KnownOK, BlitOK, ScreenIsWhole, Whole, Seen, Told
  <2> QED
    BY <2>1, <2>2
<1>4. CASE Blit
  <2>0. /\ main = "blit" /\ m \in Pixels /\ m' = Step(m)
        /\ screen' = [screen EXCEPT ![m] = surf[m]]
        /\ UNCHANGED <<queue, events, action, done, videovars, surf>>
    BY <1>4 DEF Blit, TypeOK
  <2>1. \A p \in Pixels : p <= m => screen'[p] = surf[p]
    BY <2>0 DEF BlitOK, TypeOK, Pixels
  <2>2. TypeOK'
    BY <1>4, <2>0, StepType DEF Blit, TypeOK, videovars
  <2>3. Holding'
    BY <1>4, <2>0 DEF Blit, Holding, videovars
  <2>4. SurfaceOK' /\ LoopsOK' /\ KnownOK'
    BY <2>0 DEF SurfaceOK, LoopsOK, KnownOK, Whole, Seen, Told, videovars
  <2>5. BlitOK' /\ ScreenIsWhole'
    <3>1. CASE m' = 0
      <4>1. m = Size - 1 /\ main' = "flip"
        BY <1>4, <2>0, <3>1 DEF Blit, Step, Pixels
      <4>2. \A p \in Pixels : screen'[p] = surf[p]
        BY <2>0, <2>1, <4>1 DEF Pixels
      <4>3. PICK s \in Shade : Whole(s)
        BY <2>0 DEF Holding, SurfaceOK
      <4>4. screen' = [p \in Pixels |-> s]
        BY <2>2, <4>2, <4>3 DEF Whole, TypeOK
      <4> QED
        BY <3>1, <4>1, <4>3, <4>4 DEF BlitOK, ScreenIsWhole, Whole
    <3>2. CASE m' # 0
      <4>1. m' = m + 1 /\ main' = "blit"
        BY <1>4, <2>0, <3>2 DEF Blit, Step
      <4>2. \A p \in Pixels : p < m' => screen'[p] = surf[p]
        BY <2>0, <2>1, <4>1 DEF Pixels
      <4> QED
        BY <2>0, <4>1, <4>2 DEF BlitOK, ScreenIsWhole
    <3> QED
      BY <3>1, <3>2
  <2> QED
    BY <2>2, <2>3, <2>4, <2>5
<1> QED
  BY <1>1, <1>2, <1>3, <1>4

-----------------------------------------------------------------------------
(* The video thread *)

\* One turn of a loop that paints: the index, the surface and the mutex.
LEMMA PaintTurn ==
  ASSUME IInv, NEW here \in {"draw", "convert", "render"},
         NEW next \in {"reform", "write", "unlock"}, NEW s \in Shade,
         Paint(here, next, s), UNCHANGED <<mutex, mainvars>>
  PROVE  /\ k \in Pixels /\ k' \in Pixels /\ surf' \in [Pixels -> Shade]
         /\ \A p \in Pixels : surf'[p] = IF p = k THEN s ELSE surf[p]
         /\ k' = 0 => k = Size - 1 /\ video' = next
         /\ k' # 0 => k' = k + 1 /\ video' = here
         /\ Holding' /\ SurfaceOK' /\ BlitOK' /\ ScreenIsWhole'
<1> USE DEF IInv, Paint
<1>1. k \in Pixels /\ k' = Step(k) /\ surf' = [surf EXCEPT ![k] = s] /\ surf \in [Pixels -> Shade]
  BY DEF TypeOK
<1>2. /\ k' \in Pixels
      /\ k' = 0 => k = Size - 1
      /\ k' # 0 => k' = k + 1
  BY <1>1, StepType DEF Step, Pixels
<1>3. video' \in {here, next} /\ video = here
  OBVIOUS
<1>4. Holding' /\ SurfaceOK'
  BY <1>3 DEF Holding, SurfaceOK, mainvars
<1>5. mutex = "video" /\ main # "blit"
  BY <1>3 DEF Holding
<1>6. BlitOK' /\ ScreenIsWhole'
  BY <1>5 DEF BlitOK, ScreenIsWhole, mainvars
<1> QED
  BY <1>1, <1>2, <1>4, <1>6

LEMMA InvPaint ==
  ASSUME IInv, Draw \/ Convert \/ Render
  PROVE  IInv'
<1> USE ShadeTypes DEF IInv
<1>1. CASE Draw
  <2>0. /\ Paint("draw", "reform", Seen) /\ video = "draw"
        /\ UNCHANGED <<picture, ldata, rdata, region, sent, mutex, mainvars>>
    BY <1>1 DEF Draw, Seen, Paint
  <2>1. /\ k \in Pixels /\ k' \in Pixels /\ surf' \in [Pixels -> Shade]
        /\ \A p \in Pixels : surf'[p] = IF p = k THEN Seen ELSE surf[p]
        /\ k' = 0 => k = Size - 1 /\ video' = "reform"
        /\ k' # 0 => k' = k + 1 /\ video' = "draw"
        /\ Holding' /\ SurfaceOK' /\ BlitOK' /\ ScreenIsWhole'
    BY <2>0, PaintTurn
  <2>2. TypeOK'
    BY <2>0, <2>1 DEF TypeOK, mainvars
  <2>3. LoopsOK'
    <3>1. \A p \in Pixels : p <= k => surf'[p] = Seen
      BY <2>0, <2>1 DEF LoopsOK, Pixels
    <3>2. Seen' = Seen
      BY <2>0 DEF Seen
    <3> QED
      BY <2>0, <2>1, <3>1, <3>2 DEF LoopsOK, Pixels
  <2>4. KnownOK'
    BY <2>0, <2>1 DEF KnownOK
  <2> QED
    BY <2>1, <2>2, <2>3, <2>4
<1>2. CASE Convert
  <2>0. /\ Paint("convert", "write", [kind |-> "black", of |-> 0]) /\ video = "convert"
        /\ ldata' = [ldata EXCEPT ![k] = surf[k]]
        /\ UNCHANGED <<picture, rdata, region, sent, mutex, mainvars>>
    BY <1>2 DEF Convert, Paint
  <2>1. /\ k \in Pixels /\ k' \in Pixels /\ surf' \in [Pixels -> Shade]
        /\ \A p \in Pixels : p # k => surf'[p] = surf[p]
        /\ k' = 0 => k = Size - 1 /\ video' = "write"
        /\ k' # 0 => k' = k + 1 /\ video' = "convert"
        /\ Holding' /\ SurfaceOK' /\ BlitOK' /\ ScreenIsWhole'
    BY <2>0, PaintTurn
  <2>2. TypeOK'
    BY <2>0, <2>1 DEF TypeOK, mainvars
  <2>3. LoopsOK'
    <3>1. \A p \in Pixels : IF p <= k THEN ldata'[p] = Seen ELSE surf'[p] = Seen
      BY <2>0, <2>1 DEF LoopsOK, TypeOK, Pixels
    <3>2. Seen' = Seen
      BY <2>0 DEF Seen
    <3> QED
      BY <2>0, <2>1, <3>1, <3>2 DEF LoopsOK, Pixels
  <2>4. KnownOK'
    BY <2>0, <2>1 DEF KnownOK
  <2> QED
    BY <2>1, <2>2, <2>3, <2>4
<1>3. CASE Render
  <2>0. /\ Paint("render", "unlock", Told) /\ video = "render"
        /\ UNCHANGED <<picture, ldata, rdata, region, sent, mutex, mainvars>>
    BY <1>3 DEF Render, Told, Paint
  <2>1. /\ k \in Pixels /\ k' \in Pixels /\ surf' \in [Pixels -> Shade]
        /\ \A p \in Pixels : surf'[p] = IF p = k THEN Told ELSE surf[p]
        /\ k' = 0 => k = Size - 1 /\ video' = "unlock"
        /\ k' # 0 => k' = k + 1 /\ video' = "render"
        /\ Holding' /\ SurfaceOK' /\ BlitOK' /\ ScreenIsWhole'
    BY <2>0, PaintTurn
  <2>2. TypeOK'
    BY <2>0, <2>1 DEF TypeOK, mainvars
  <2>3. LoopsOK'
    <3>1. \A p \in Pixels : p <= k => surf'[p] = Told
      BY <2>0, <2>1 DEF LoopsOK, Pixels
    <3>2. Told' = Told /\ Seen' = Seen
      BY <2>0 DEF Told, Seen
    <3> QED
      BY <2>0, <2>1, <3>1, <3>2 DEF LoopsOK, Pixels
  <2>4. KnownOK'
    BY <2>0, <2>1 DEF KnownOK
  <2> QED
    BY <2>1, <2>2, <2>3, <2>4
<1> QED
  BY <1>1, <1>2, <1>3

\* The steps of the video thread between the loops.
LEMMA InvVideo ==
  ASSUME IInv, NextPicture \/ Lock \/ Reform \/ Write \/ GiveUp \/ Unlock
  PROVE  IInv'
<1> USE DEF IInv
<1>0. UNCHANGED <<k, surf, ldata, mainvars>>
  BY DEF NextPicture, Lock, Reform, Write, GiveUp, Unlock
<1>1. TypeOK'
  BY <1>0 DEF NextPicture, Lock, Reform, Write, GiveUp, Unlock, TypeOK, mainvars
<1>2. Holding'
  BY <1>0 DEF NextPicture, Lock, Reform, Write, GiveUp, Unlock, Holding, mainvars
<1>3. SurfaceOK'
  <2>1. CASE Unlock
    <3>1. surf = [p \in Pixels |-> Told]
      BY <2>1 DEF Unlock, LoopsOK, TypeOK
    <3>2. Told \in Shade /\ Told.kind = "prediction"
      BY ShadeTypes DEF Told
    <3> QED
      BY <1>0, <3>1, <3>2 DEF SurfaceOK, Whole
  <2>2. CASE NextPicture \/ Lock \/ Reform \/ Write \/ GiveUp
    BY <1>0, <2>2 DEF NextPicture, Lock, Reform, Write, GiveUp, SurfaceOK, Whole
  <2> QED
    BY <2>1, <2>2
<1>4. LoopsOK'
  <2>1. k \in Nat /\ \A p \in Pixels : ~(p < 0)
    BY DEF TypeOK, Pixels
  <2>2. CASE NextPicture \/ Lock \/ GiveUp \/ Unlock
    BY <1>0, <2>1, <2>2 DEF NextPicture, Lock, GiveUp, Unlock, LoopsOK, Seen, Told
  <2>3. CASE Reform
    BY <1>0, <2>1, <2>3 DEF Reform, LoopsOK, Seen
  <2>4. CASE Write
    BY <1>0, <2>1, <2>4 DEF Write, LoopsOK, Seen
  <2> QED
    BY <2>2, <2>3, <2>4
<1>5. KnownOK'
  BY DEF NextPicture, Lock, Reform, Write, GiveUp, Unlock, KnownOK, TypeOK
<1>6. BlitOK' /\ ScreenIsWhole'
  BY <1>0 DEF BlitOK, ScreenIsWhole, mainvars
<1> QED
  BY <1>1, <1>2, <1>3, <1>4, <1>5, <1>6

LEMMA InvNext == IInv /\ [Next]_vars => IInv'
<1> SUFFICES ASSUME IInv, [Next]_vars PROVE IInv'
  OBVIOUS
<1>1. CASE UNCHANGED vars
  BY <1>1 DEF vars, videovars, mainvars, IInv, TypeOK, Holding, SurfaceOK, Whole, LoopsOK, Seen,
              Told, KnownOK, BlitOK, ScreenIsWhole
<1> QED
  BY <1>1, InvMain, InvPaint, InvVideo DEF Next, Video, Main

THEOREM InvKept == Spec => []IInv
BY InvInit, InvNext, PTL DEF Spec

\* The types of the variables are those TypeOK gives them.
THEOREM TypeCorrect == Spec => []TypeOK
<1>1. IInv => TypeOK
  BY DEF IInv
<1> QED
  BY <1>1, InvKept, PTL

\* The user sees whole predictions, however long the video thread's loops and
\* remote calls take.
THEOREM WholeOnScreen == Spec => []ScreenIsWhole
<1>1. IInv => ScreenIsWhole
  BY DEF IInv
<1> QED
  BY <1>1, InvKept, PTL

\* The server gets whole pictures, after it was asked to predict them.
THEOREM PictureAfterPrediction == Spec => []SentWholeAfterPrediction
<1>1. IInv => SentWholeAfterPrediction
  BY DEF IInv, TypeOK, LoopsOK, KnownOK, Seen, SentWholeAfterPrediction
<1> QED
  BY <1>1, InvKept, PTL

\* Nothing is freed while a callback may use it.
THEOREM NothingFreedInUse == Spec => []FreedWhenUnused
<1>1. IInv => FreedWhenUnused
  BY DEF IInv, Holding, FreedWhenUnused
<1> QED
  BY <1>1, InvKept, PTL
=============================================================================
