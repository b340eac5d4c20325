-------------------------------- MODULE Rpc ---------------------------------
(* Remote calls: the client class of common/src/rpc.cpp against the server   *)
(* loop of fabric/src/main.cpp.  A client owns a REQ socket and sends one    *)
(* request at a time; the server polls its REP socket, receives, executes    *)
(* and sends the reply before it polls again.  The server may stop at any    *)
(* point (SIGINT calls exit) and be started again, taking with it what it    *)
(* had received; a client that polls 500 times in vain exits and may be      *)
(* started again on a new connection.                                        *)
(* ZeroMQ (external): a request waits in the client's pipe until a server is *)
(* there to take it, even after a disconnect because no socket sets a linger *)
(* time; it is taken once and never sent again; the reply goes to the        *)
(* connection it came by or, if that is closed, nowhere.                     *)
EXTENDS Integers, FiniteSets, Bags

CONSTANTS Clients,
          Retries,       \* polls before the server is called unreachable (500)
          MaxCalls,      \* bound: calls of one client process, the version check included
          MaxSessions,   \* bound: processes started per client
          MaxStarts,     \* bound: starts of the server
          MaxErrors      \* bound: zmq errors thrown to each client

ASSUME RpcAssumption ==
  /\ Retries \in Nat \ {0} /\ MaxCalls \in Nat \ {0} /\ MaxSessions \in Nat \ {0}
  /\ MaxStarts \in Nat /\ MaxErrors \in Nat

VARIABLES
  client,    \* of each client: "ready", "waiting" in send, or "gone"
  session,   \* number of the client process, hence of its connection
  number,    \* number of its last call
  cmd,       \* and the command
  retry,     \* polls left
  errors,    \* zmq errors so far
  got,       \* what the last returned call returned
  pipe,      \* requests of the client not yet taken, those of earlier processes included
  inq,       \* replies in the client's socket
  up,        \* whether the server runs
  phase,     \* where: "poll", "recv", "execute" or "send"
  inbox,     \* requests taken and not yet received
  cur,       \* the request in service
  rep,       \* the reply to send
  region,    \* the last write executed by this server, if any
  starts,    \* starts of the server
  runs,      \* history: the bag of all executions, their senders waiting or not
  result     \* history: what the execution of the call a client waits for computed

clientvars == <<client, session, number, cmd, retry, errors, got>>
servervars == <<up, phase, inbox, cur, rep, region, starts>>
history    == <<runs, result>>
vars == <<clientvars, pipe, inq, servervars, history>>

Commands == {"version", "write2d", "reform2d"}
Request  == [client : Clients, session : 1 .. MaxSessions, number : 0 .. MaxCalls,
             cmd : Commands]
Reply    == [to : Request, value : SUBSET Request]

\* The n-th call of the present process of c, and its last call.
Numbered(c, n, k) == [client |-> c, session |-> session[c], number |-> n, cmd |-> k]
Current(c) == Numbered(c, number[c], cmd[c])

\* A request whose sender still waits for it.
Awaited(r) == client[r.client] = "waiting" /\ r = Current(r.client)

\* How often a request was executed.
Runs(r) == IF r \in DOMAIN runs THEN runs[r] ELSE 0

Init ==
  /\ client = [c \in Clients |-> "ready"]
  /\ session = [c \in Clients |-> 1]
  /\ number = [c \in Clients |-> 0]
  /\ cmd = [c \in Clients |-> "version"]
  /\ retry = [c \in Clients |-> Retries]
  /\ errors = [c \in Clients |-> 0]
  /\ got = [c \in Clients |-> {}]
  /\ pipe = [c \in Clients |-> {}]
  /\ inq = [c \in Clients |-> {}]
  /\ up = FALSE /\ phase = "poll" /\ inbox = {} /\ cur = {} /\ rep = {}
  /\ region = {} /\ starts = 0
  /\ runs = EmptyBag
  /\ result = [c \in Clients |-> {}]

-----------------------------------------------------------------------------
(* Client *)

\* Rpc::send: the constructor's version check comes first.
Call(c) ==
  /\ client[c] = "ready" /\ number[c] < MaxCalls
  /\ \E k \in Commands :
       /\ number[c] = 0 <=> k = "version"
       /\ cmd' = [cmd EXCEPT ![c] = k]
       /\ pipe' = [pipe EXCEPT ![c] = @ \cup {Numbered(c, number[c] + 1, k)}]
  /\ client' = [client EXCEPT ![c] = "waiting"]
  /\ number' = [number EXCEPT ![c] = @ + 1]
  /\ retry' = [retry EXCEPT ![c] = Retries]
  /\ result' = [result EXCEPT ![c] = {}]
  /\ UNCHANGED <<session, errors, got, inq, servervars, runs>>

\* A poll finds the reply.
Return(c) ==
  /\ client[c] = "waiting" /\ retry[c] > 0
  /\ \E m \in inq[c] : /\ got' = [got EXCEPT ![c] = m.value]
                       /\ inq' = [inq EXCEPT ![c] = @ \ {m}]
  /\ client' = [client EXCEPT ![c] = "ready"]
  /\ UNCHANGED <<session, number, cmd, retry, errors, pipe, servervars, history>>

\* Mutant: polls are counted below zero.
Poll_PastZero(c) ==
  /\ client[c] = "waiting" /\ inq[c] = {}
  /\ retry' = [retry EXCEPT ![c] = @ - 1]
  /\ UNCHANGED <<client, session, number, cmd, errors, got, pipe, inq, servervars, history>>

\* Mutant: a poll that finds nothing sends the request again.
Poll_Resends(c) ==
  /\ client[c] = "waiting" /\ retry[c] > 0 /\ inq[c] = {}
  /\ retry' = [retry EXCEPT ![c] = @ - 1]
  /\ pipe' = [pipe EXCEPT ![c] = @ \cup {Current(c)}]
  /\ UNCHANGED <<client, session, number, cmd, errors, got, inq, servervars, history>>

\* Mutant: polls are not counted.
Poll_Uncounted(c) ==
  /\ client[c] = "waiting" /\ retry[c] > 0 /\ inq[c] = {}
  /\ UNCHANGED vars

\* A poll finds nothing: count down and sleep.
Poll(c) ==
  /\ client[c] = "waiting" /\ retry[c] > 0 /\ inq[c] = {}
  /\ retry' = [retry EXCEPT ![c] = @ - 1]
  /\ UNCHANGED <<client, session, number, cmd, errors, got, pipe, inq, servervars, history>>

\* A poll throws, or the disconnect after the last one: the loop starts over
\* with all its polls.
PollError(c) ==
  /\ client[c] = "waiting" /\ errors[c] < MaxErrors
  /\ errors' = [errors EXCEPT ![c] = @ + 1]
  /\ retry' = [retry EXCEPT ![c] = Retries]
  /\ UNCHANGED <<client, session, number, cmd, got, pipe, inq, servervars, history>>

\* Mutant: the call fails but the process goes on.
GiveUp_CarriesOn(c) ==
  /\ client[c] = "waiting" /\ retry[c] = 0
  /\ client' = [client EXCEPT ![c] = "ready"]
  /\ inq' = [inq EXCEPT ![c] = {}]
  /\ UNCHANGED <<session, number, cmd, retry, errors, got, pipe, servervars, history>>

\* Mutant: the request is left on a fresh connection too before the exit.
GiveUp_SendsAgain(c) ==
  /\ client[c] = "waiting" /\ retry[c] = 0
  /\ client' = [client EXCEPT ![c] = "gone"]
  /\ inq' = [inq EXCEPT ![c] = {}]
  /\ pipe' = [pipe EXCEPT ![c] = @ \cup {Current(c)}]
  /\ UNCHANGED <<session, number, cmd, retry, errors, got, servervars, history>>

\* The last poll failed and its sleep is over: disconnect and exit.  Replies
\* that have come are discarded, a request not yet taken is still sent.
GiveUp(c) ==
  /\ client[c] = "waiting" /\ retry[c] = 0
  /\ client' = [client EXCEPT ![c] = "gone"]
  /\ inq' = [inq EXCEPT ![c] = {}]
  /\ UNCHANGED <<session, number, cmd, retry, errors, got, pipe, servervars, history>>

\* The program is run again; the user may have killed the old process, and
\* with it what it still had to send.
Rejoin(c) ==
  /\ client[c] = "gone" /\ session[c] < MaxSessions
  /\ client' = [client EXCEPT ![c] = "ready"]
  /\ session' = [session EXCEPT ![c] = @ + 1]
  /\ number' = [number EXCEPT ![c] = 0]
  /\ pipe' = pipe \/ pipe' = [pipe EXCEPT ![c] = {}]
  /\ UNCHANGED <<cmd, retry, errors, got, inq, servervars, history>>

-----------------------------------------------------------------------------
(* Server *)

\* ZeroMQ hands a request to the server's socket.
Take(c) ==
  /\ up
  /\ \E r \in pipe[c] : inbox' = inbox \cup {r} /\ pipe' = [pipe EXCEPT ![c] = @ \ {r}]
  /\ UNCHANGED <<clientvars, inq, up, phase, cur, rep, region, starts, history>>

PollIn ==
  /\ up /\ phase = "poll" /\ inbox # {}
  /\ phase' = "recv"
  /\ UNCHANGED <<clientvars, pipe, inq, up, inbox, cur, rep, region, starts, history>>

Recv(c) ==
  /\ up /\ phase = "recv"
  /\ \E r \in inbox : r.client = c /\ cur' = {r} /\ inbox' = inbox \ {r}
  /\ phase' = "execute"
  /\ UNCHANGED <<clientvars, pipe, inq, up, rep, region, starts, history>>

\* process_msg: only write2d changes the region; reform2d returns an image of
\* it, the others a constant.
After(reg, r)  == IF r.cmd = "write2d" THEN {r} ELSE reg
Answer(reg, r) == IF r.cmd = "reform2d" THEN reg ELSE {}

Execute ==
  /\ up /\ phase = "execute"
  /\ \E r \in cur :
       /\ region' = After(region, r)
       /\ rep' = {[to |-> r, value |-> Answer(region, r)]}
       /\ runs' = runs (+) SetToBag({r})
       /\ result' = IF Awaited(r)
                    THEN [result EXCEPT ![r.client] = Answer(region, r)] ELSE result
  /\ phase' = "send"
  /\ UNCHANGED <<clientvars, pipe, inq, up, inbox, cur, starts>>

\* Mutant: the reply goes to whatever process the client now is.
Send_ByName ==
  /\ up /\ phase = "send"
  /\ \E m \in rep :
       LET c == m.to.client IN
       inq' = IF client[c] # "gone" THEN [inq EXCEPT ![c] = @ \cup {m}] ELSE inq
  /\ phase' = "poll" /\ cur' = {} /\ rep' = {}
  /\ UNCHANGED <<clientvars, pipe, up, inbox, region, starts, history>>

\* Mutant: the server waits for a client that has exited.
Send_Blocks ==
  /\ up /\ phase = "send"
  /\ \E m \in rep :
       LET c == m.to.client IN
       /\ client[c] # "gone" /\ m.to.session = session[c]
       /\ inq' = [inq EXCEPT ![c] = @ \cup {m}]
  /\ phase' = "poll" /\ cur' = {} /\ rep' = {}
  /\ UNCHANGED <<clientvars, pipe, up, inbox, region, starts, history>>

\* The reply goes to the connection the request came by.
Send ==
  /\ up /\ phase = "send"
  /\ \E m \in rep :
       LET c == m.to.client IN
       inq' = IF client[c] # "gone" /\ m.to.session = session[c]
              THEN [inq EXCEPT ![c] = @ \cup {m}] ELSE inq
  /\ phase' = "poll" /\ cur' = {} /\ rep' = {}
  /\ UNCHANGED <<clientvars, pipe, up, inbox, region, starts, history>>

\* The process starts: a new Region, an empty socket.
Start ==
  /\ ~up /\ starts < MaxStarts
  /\ up' = TRUE /\ starts' = starts + 1
  /\ UNCHANGED <<clientvars, pipe, inq, phase, inbox, cur, rep, region, history>>

\* The process starts and ends again before it can be reached: an argument it
\* does not know, or a port that is taken.
StartFails ==
  /\ ~up /\ starts < MaxStarts
  /\ starts' = starts + 1
  /\ UNCHANGED <<clientvars, pipe, inq, up, phase, inbox, cur, rep, region, history>>

\* SIGINT: signal_handler exits at once.  What the socket had received or had
\* not yet transmitted is lost.
Exit ==
  /\ up /\ up' = FALSE /\ phase' = "poll"
  /\ inbox' = {} /\ cur' = {} /\ rep' = {} /\ region' = {}
  /\ \E lost \in SUBSET Clients : inq' = [c \in Clients |-> IF c \in lost THEN {} ELSE inq[c]]
  /\ UNCHANGED <<clientvars, pipe, starts, history>>

-----------------------------------------------------------------------------
Client(c) == Call(c) \/ Return(c) \/ Poll(c) \/ PollError(c) \/ GiveUp(c) \/ Rejoin(c)
Server    == PollIn \/ Execute \/ Send \/ \E c \in Clients : Take(c) \/ Recv(c)
Next == (\E c \in Clients : Client(c)) \/ Server \/ Start \/ StartFails \/ Exit
Spec == Init /\ [][Next]_vars

\* A client in send goes on polling, a running server goes on serving, and
\* ZeroMQ takes requests from its connections in turn.  Nobody need call,
\* start the server or start a client again.
Fairness ==
  /\ \A c \in Clients : /\ WF_vars(Return(c) \/ Poll(c) \/ GiveUp(c))
                        /\ WF_vars(Take(c))
                        /\ SF_vars(Recv(c))
  /\ WF_vars(PollIn \/ Execute \/ Send)
FairSpec == Spec /\ Fairness

-----------------------------------------------------------------------------
(* Properties *)

\* Type invariant.
TypeOK ==
  /\ client \in [Clients -> {"ready", "waiting", "gone"}]
  /\ session \in [Clients -> 1 .. MaxSessions]
  /\ number \in [Clients -> 0 .. MaxCalls]
  /\ cmd \in [Clients -> Commands]
  /\ retry \in [Clients -> 0 .. Retries]
  /\ errors \in [Clients -> 0 .. MaxErrors]
  /\ got \in [Clients -> SUBSET Request]
  /\ pipe \in [Clients -> SUBSET Request]
  /\ inq \in [Clients -> SUBSET Reply]
  /\ up \in BOOLEAN /\ phase \in {"poll", "recv", "execute", "send"}
  /\ inbox \subseteq Request /\ cur \subseteq Request /\ rep \subseteq Reply
  /\ region \subseteq Request /\ starts \in 0 .. MaxStarts
  /\ IsABag(runs) /\ BagToSet(runs) \subseteq Request
  /\ result \in [Clients -> SUBSET Request]

\* No call is ever executed twice: not while its client waits, not after it
\* has given up and its process is gone, however often server and clients are
\* started.  send never sends a request again, whatever its polls and errors
\* do (rpc.cpp:42-71), a request left in a closed connection is still sent
\* once, and the server forgets what it received (main.cpp:18-22).
AtMostOnce == \A r \in BagToSet(runs) : Runs(r) <= 1

\* A reply in a client's socket answers the call it is waiting for, which was
\* executed, and carries the value of that execution: never the answer to an
\* earlier call, to an earlier process of that client, or to another client
\* (rpc.cpp:51-73, main.cpp:62-89).
ReplyAnswersCall ==
  \A c \in Clients : \A m \in inq[c] :
    /\ Awaited(m.to) /\ m.to.client = c
    /\ Runs(m.to) = 1 /\ m.value = result[c]

\* At most one copy of a call exists between client, server and reply, so the
\* lockstep of request and reply is never lost.
Copies(r) == LET k(S) == IF S THEN 1 ELSE 0 IN
  k(r \in pipe[r.client]) + k(r \in inbox) + k(r \in cur) + k(\E m \in inq[r.client] : m.to = r)
OneCopy == \A c \in Clients : client[c] = "waiting" => Copies(Current(c)) <= 1

\* A call ends, in a return or in exit(1), if zmq errors do: every poll either
\* finds the reply or counts down (rpc.cpp:53-71), with no help of the server.
CallEnds == \A c \in Clients : client[c] = "waiting" ~> client[c] # "waiting"

\* What a running server has taken it serves: no client that exited, and no
\* reply that nobody reads, holds the loop up (main.cpp:54-91).
InboxDrains ==
  \A c \in Clients : (\E r \in inbox : r.client = c) ~> ~(\E r \in inbox : r.client = c)

-----------------------------------------------------------------------------
(* The promise made to callers *)

\* What the server has received and not executed.
Unserved == inbox \cup IF phase = "execute" THEN cur ELSE {}

Promise == INSTANCE RpcSpec WITH
  Requests  <- Request,
  state     <- [c \in Clients |-> IF client[c] # "waiting" THEN client[c]
                                  ELSE IF Runs(Current(c)) = 0 THEN "called" ELSE "answered"],
  op        <- [c \in Clients |-> Current(c)],
  abandoned <- {r \in (UNION {pipe[c] : c \in Clients}) \cup Unserved : ~Awaited(r)}

\* The client class and the server loop together implement RpcSpec: atomic
\* calls, executed between their start and their end, at most once.
KeepsPromise == Promise!Spec
=============================================================================
