------------------------------- MODULE Movie --------------------------------
(* The movie client, sense/movie/src/main.cpp.  VLC's video thread calls     *)
(* lock, draws a picture on the SDL surface and calls unlock, which asks the *)
(* server for its prediction, turns the picture into luminance, sends it and *)
(* paints the prediction over it.  The main thread handles the keys and      *)
(* copies the surface to the screen.  One mutex is for both, and the video   *)
(* thread holds it during its two remote calls.                              *)
(* VLC and SDL are external.  A remote call is as in RpcSpec: it returns, or *)
(* the thread ends up in exit, which waits for ever: it destroys the static  *)
(* ZeroMQ context of common/src/rpc.cpp, whose socket *sense keeps open.     *)
EXTENDS Integers, Sequences

CONSTANTS Size,      \* pixels of a picture (320 * 240)
          Length,    \* pictures in the movie
          MaxEvents  \* bound: events of the user

ASSUME MovieAssumption ==
  Size \in Nat \ {0} /\ Length \in Nat \ {0} /\ MaxEvents \in Nat

VARIABLES
  video,    \* where the video thread is
  picture,  \* number of the picture it is at
  k,        \* and the pixel
  surf,     \* what each pixel of the surface shows
  ldata,    \* the luminances: what each was computed from
  rdata,    \* the prediction: the last picture it knew of
  mutex,    \* "free", "video", "main" or "destroyed"
  region,   \* server: the last picture sent
  sent,     \* server: what its pixels were computed from
  main,     \* where the main thread is
  m,        \* the pixel its copy is at
  screen,   \* what the screen shows
  queue,    \* events not yet polled
  events,   \* number of events so far
  action,   \* the key of this turn
  done
videovars == <<video, picture, k, ldata, rdata, region, sent>>
mainvars  == <<main, m, screen, queue, events, action, done>>
vars == <<videovars, mainvars, surf, mutex>>

Pixels == 0 .. Size - 1

\* The pixel after p, 0 after the last.
Step(p) == IF p + 1 = Size THEN 0 ELSE p + 1

Keys   == {"escape", "other"}   \* return and space change nothing that is kept here
Shade  == [kind : {"blank", "video", "black", "prediction"}, of : 0 .. Length]
Blank  == [kind |-> "blank", of |-> 0]

Init ==
  /\ video = "idle" /\ picture = 0 /\ k = 0
  /\ surf = [p \in Pixels |-> Blank]
  /\ ldata = [p \in Pixels |-> Blank] /\ rdata = 0
  /\ region = 0 /\ sent = [p \in Pixels |-> Blank]
  /\ mutex = "free"
  /\ main = "events" /\ m = 0 /\ screen = [p \in Pixels |-> Blank]
  /\ queue = <<>> /\ events = 0 /\ action = "none" /\ done = FALSE

-----------------------------------------------------------------------------
(* The video thread *)

\* Mutant: one pixel too many.
Paint_PastEnd(here, next, s) ==
  /\ video = here
  /\ surf' = [surf EXCEPT ![k] = s]
  /\ k' = IF k = Size THEN 0 ELSE k + 1
  /\ video' = IF k' = 0 THEN next ELSE here

\* One turn of a loop over the pixels, which paints the shade s.
Paint(here, next, s) ==
  /\ video = here
  /\ surf' = [surf EXCEPT ![k] = s]
  /\ k' = Step(k)
  /\ video' = IF k' = 0 THEN next ELSE here

\* VLC calls lock for the next picture, unless it was told to stop.
NextPicture ==
  /\ video = "idle" /\ picture < Length /\ main # "stopping"
  /\ video' = "lock" /\ picture' = picture + 1
  /\ UNCHANGED <<k, surf, ldata, rdata, region, sent, mutex, mainvars>>

Lock ==
  /\ video = "lock" /\ mutex = "free"
  /\ mutex' = "video" /\ video' = "draw"
  /\ UNCHANGED <<picture, k, surf, ldata, rdata, region, sent, mainvars>>

\* VLC draws the picture and calls unlock.
Draw ==
  /\ Paint("draw", "reform", [kind |-> "video", of |-> picture])
  /\ UNCHANGED <<picture, ldata, rdata, region, sent, mutex, mainvars>>

Reform ==
  /\ video = "reform" /\ video' = "convert"
  /\ rdata' = region
  /\ UNCHANGED <<picture, k, surf, ldata, region, sent, mutex, mainvars>>

\* Mutant: the pixel is cleared before it is read.
Convert_Clears ==
  /\ Paint("convert", "write", [kind |-> "black", of |-> 0])
  /\ ldata' = [ldata EXCEPT ![k] = surf'[k]]
  /\ UNCHANGED <<picture, rdata, region, sent, mutex, mainvars>>

Convert ==
  /\ Paint("convert", "write", [kind |-> "black", of |-> 0])
  /\ ldata' = [ldata EXCEPT ![k] = surf[k]]
  /\ UNCHANGED <<picture, rdata, region, sent, mutex, mainvars>>

Write ==
  /\ video = "write" /\ video' = "render"
  /\ region' = picture /\ sent' = ldata
  /\ UNCHANGED <<picture, k, surf, ldata, rdata, mutex, mainvars>>

\* No reply: Rpc::send calls exit in this thread.
GiveUp ==
  /\ video \in {"reform", "write"} /\ video' = "exit"
  /\ UNCHANGED <<picture, k, surf, ldata, rdata, region, sent, mutex, mainvars>>

Render ==
  /\ Paint("render", "unlock", [kind |-> "prediction", of |-> rdata])
  /\ UNCHANGED <<picture, ldata, rdata, region, sent, mutex, mainvars>>

\* Mutant: the mutex is not released.
Unlock_Keeps ==
  /\ video = "unlock" /\ video' = "idle"
  /\ UNCHANGED <<picture, k, surf, ldata, rdata, region, sent, mutex, mainvars>>

Unlock ==
  /\ video = "unlock" /\ video' = "idle"
  /\ mutex' = "free"
  /\ UNCHANGED <<picture, k, surf, ldata, rdata, region, sent, mainvars>>

Video == \/ NextPicture \/ Lock \/ Draw \/ Reform \/ Convert \/ Write
         \/ GiveUp \/ Render \/ Unlock

-----------------------------------------------------------------------------
(* The user and the main thread *)

\* SDL's event thread queues an event.
Press ==
  /\ events < MaxEvents /\ events' = events + 1
  /\ \E e \in Keys \cup {"quit"} : queue' = Append(queue, e)
  /\ UNCHANGED <<main, m, screen, action, done, videovars, surf, mutex>>

\* One event of the loop over SDL_PollEvent.
PollEvent ==
  /\ main = "events" /\ queue # <<>>
  /\ queue' = Tail(queue)
  /\ done' = (done \/ Head(queue) = "quit")
  /\ action' = IF Head(queue) \in Keys THEN Head(queue) ELSE action
  /\ UNCHANGED <<main, m, screen, events, videovars, surf, mutex>>

\* The switch over action.
Act ==
  /\ main = "events" /\ queue = <<>>
  /\ done' = (done \/ action = "escape")
  /\ action' = "none" /\ main' = "lock"
  /\ UNCHANGED <<m, screen, queue, events, videovars, surf, mutex>>

\* Mutant: the screen is drawn without the mutex.
LockMain_Skips ==
  /\ main = "lock" /\ main' = "blit"
  /\ UNCHANGED <<m, screen, queue, events, action, done, videovars, surf, mutex>>

LockMain ==
  /\ main = "lock" /\ mutex = "free"
  /\ mutex' = "main" /\ main' = "blit"
  /\ UNCHANGED <<m, screen, queue, events, action, done, videovars, surf>>

\* SDL_BlitSurface, pixel by pixel, then the mutex is released.
Blit ==
  /\ main = "blit"
  /\ screen' = [screen EXCEPT ![m] = surf[m]]
  /\ m' = Step(m)
  /\ IF m' = 0 THEN main' = "flip" /\ mutex' = "free" ELSE UNCHANGED <<main, mutex>>
  /\ UNCHANGED <<queue, events, action, done, videovars, surf>>

\* Show, wait and go round, or ask VLC to stop.
Flip ==
  /\ main = "flip"
  /\ main' = IF done THEN "stopping" ELSE "events"
  /\ UNCHANGED <<m, screen, queue, events, action, done, videovars, surf, mutex>>

\* Mutant: does not wait for the callbacks.
Stopped_Early ==
  /\ main = "stopping" /\ main' = "destroy"
  /\ UNCHANGED <<m, screen, queue, events, action, done, videovars, surf, mutex>>

\* libvlc_media_player_stop returns when the video thread has ended.
Stopped ==
  /\ main = "stopping" /\ video = "idle"
  /\ main' = "destroy" /\ video' = "stopped"
  /\ UNCHANGED <<m, screen, queue, events, action, done, picture, k, ldata, rdata, region,
                 sent, surf, mutex>>

\* SDL_DestroyMutex and SDL_FreeSurface; main returns.
Destroy ==
  /\ main = "destroy" /\ main' = "returned"
  /\ mutex' = "destroyed"
  /\ UNCHANGED <<m, screen, queue, events, action, done, videovars, surf>>

Main == PollEvent \/ Act \/ LockMain \/ Blit \/ Flip \/ Stopped \/ Destroy

Next == Video \/ Press \/ Main
Spec == Init /\ [][Next]_vars

\* Neither thread stops.  Nothing is assumed of the mutex but that a thread gets
\* it if it stays free: as the movie ends, it does for the main thread.
FairSpec == Spec /\ WF_vars(Video) /\ WF_vars(Main)

-----------------------------------------------------------------------------
(* Properties *)

\* Type invariant.
TypeOK ==
  /\ video \in {"idle", "lock", "draw", "reform", "convert", "write", "render", "unlock",
                "exit", "stopped"}
  /\ picture \in 0 .. Length /\ k \in Pixels /\ rdata \in 0 .. Length /\ region \in 0 .. Length
  /\ surf \in [Pixels -> Shade] /\ ldata \in [Pixels -> Shade]
  /\ sent \in [Pixels -> Shade] /\ screen \in [Pixels -> Shade]
  /\ mutex \in {"free", "video", "main", "destroyed"}
  /\ main \in {"events", "lock", "blit", "flip", "stopping", "destroy", "returned"}
  /\ m \in Pixels /\ queue \in Seq(Keys \cup {"quit"}) /\ events \in 0 .. MaxEvents
  /\ action \in Keys \cup {"none"} /\ done \in BOOLEAN

\* What the user sees is a whole prediction, or nothing: never a picture of the
\* movie, the black the conversion leaves or parts of two predictions, although
\* unlock paints in two loops with a remote call between them (main.cpp:63-105).
ScreenIsWhole ==
  main = "flip" => \E s \in Shade : /\ s.kind \in {"blank", "prediction"}
                                    /\ screen = [p \in Pixels |-> s]

\* What the server is sent is the picture VLC has just drawn, every pixel of it,
\* though the surface showed a prediction before and is cleared meanwhile; and
\* the prediction painted over it was made without it (main.cpp:58-88).
SentWholeAfterPrediction ==
  video \in {"render", "unlock"} =>
    /\ sent = [p \in Pixels |-> [kind |-> "video", of |-> picture]]
    /\ rdata = picture - 1

\* The mutex is destroyed and the surface freed only when no callback can use
\* them any more (main.cpp:247-255).
FreedWhenUnused == mutex = "destroyed" => video = "stopped" /\ main = "returned"

\* Once done is set main returns, unless the video thread got no reply: nothing
\* else can keep the main thread from the mutex or VLC from stopping, whatever
\* the video thread was about (main.cpp:194-261).
QuitReturns == done ~> main = "returned" \/ video = "exit"

-----------------------------------------------------------------------------
\* "Keys: ... escape (quit)" (main.cpp:198): pressing escape sets done.
EscapeQuits ==
  (\E n \in DOMAIN queue : queue[n] = "escape") ~> done \/ video = "exit"
=============================================================================
