----------------------------- MODULE RpcProofs ------------------------------
(* Calls of Rpc are executed at most once and answered by their own reply,   *)
(* for every number of clients, calls, restarts and errors.                  *)
EXTENDS Rpc, TLAPS

USE RpcAssumption

-----------------------------------------------------------------------------
(* Type correctness *)

\* An execution of q adds one to its count and to no other's.
LEMMA RunsAdded ==
  ASSUME IsABag(runs), NEW q, runs' = runs (+) SetToBag({q})
  PROVE  /\ IsABag(runs') /\ BagToSet(runs') = BagToSet(runs) \cup {q}
         /\ \A r : Runs(r) \in Nat /\ Runs(r)' = IF r = q THEN Runs(r) + 1 ELSE Runs(r)
<1>1. /\ DOMAIN runs' = DOMAIN runs \cup {q}
      /\ \A r \in DOMAIN runs : runs[r] \in Nat /\ runs[r] > 0
      /\ \A r \in DOMAIN runs \cup {q} : runs'[r] = (IF r \in DOMAIN runs THEN runs[r] ELSE 0)
                                                    + (IF r = q THEN 1 ELSE 0)
  BY DEF IsABag, SetToBag, (+)
<1>2. runs' \in [DOMAIN runs' -> {n \in Nat : n > 0}]
  BY <1>1 DEF SetToBag, (+)
<1>3. IsABag(runs') /\ BagToSet(runs') = BagToSet(runs) \cup {q}
  BY <1>1, <1>2 DEF IsABag, BagToSet
<1>4. ASSUME NEW r
      PROVE  Runs(r) \in Nat /\ Runs(r)' = IF r = q THEN Runs(r) + 1 ELSE Runs(r)
  <2>1. CASE r \in DOMAIN runs
    BY <1>1, <2>1 DEF Runs
  <2>2. CASE r \notin DOMAIN runs /\ r = q
    BY <1>1, <2>2 DEF Runs
  <2>3. CASE r \notin DOMAIN runs /\ r # q
    BY <1>1, <2>3 DEF Runs
  <2> QED
    BY <2>1, <2>2, <2>3
<1> QED
  BY <1>3, <1>4

LEMMA TypeInit == Init => TypeOK
<1> SUFFICES ASSUME Init PROVE TypeOK
  OBVIOUS
<1>1. /\ client \in [Clients -> {"ready", "waiting", "gone"}]
      /\ session \in [Clients -> 1 .. MaxSessions]
      /\ number \in [Clients -> 0 .. MaxCalls]
      /\ cmd \in [Clients -> Commands]
      /\ retry \in [Clients -> 0 .. Retries]
      /\ errors \in [Clients -> 0 .. MaxErrors]
  BY DEF Init, Commands
<1>2. /\ got \in [Clients -> SUBSET Request]
      /\ pipe \in [Clients -> SUBSET Request]
      /\ inq \in [Clients -> SUBSET Reply]
      /\ result \in [Clients -> SUBSET Request]
      /\ IsABag(runs) /\ BagToSet(runs) \subseteq Request
  BY DEF Init, IsABag, BagToSet, EmptyBag, SetToBag
<1>4. up \in BOOLEAN
  BY DEF Init
<1>3. /\ phase \in {"poll", "recv", "execute", "send"}
      /\ inbox \subseteq Request /\ cur \subseteq Request /\ rep \subseteq Reply
      /\ region \subseteq Request /\ starts \in 0 .. MaxStarts
  BY DEF Init
<1> QED
  BY <1>1, <1>2, <1>3, <1>4 DEF TypeOK

LEMMA NumberedType ==
  ASSUME TypeOK, NEW c \in Clients, NEW n \in 0 .. MaxCalls, NEW k \in Commands
  PROVE  Numbered(c, n, k) \in Request
BY DEF TypeOK, Numbered, Request

LEMMA TypeNext == TypeOK /\ [Next]_vars => TypeOK'
<1> SUFFICES ASSUME TypeOK, [Next]_vars
             PROVE  TypeOK'
  OBVIOUS
<1> USE DEF TypeOK, clientvars, servervars, history
<1>1. CASE UNCHANGED vars
  BY <1>1 DEF vars
<1>2. ASSUME NEW c \in Clients, Client(c)
      PROVE  TypeOK'
  <2>1. CASE Call(c)
    <3> PICK k \in Commands : Call(c)!2!(k)
      BY <2>1 DEF Call
    <3>1. number[c] + 1 \in 0 .. MaxCalls
      BY <2>1 DEF Call
    <3>2. pipe' \in [Clients -> SUBSET Request]
      BY <3>1, NumberedType
    <3> QED
      BY <2>1, <3>1, <3>2 DEF Call
  <2>2. CASE Return(c)
    <3> PICK m \in inq[c] : Return(c)!2!(m)
      BY <2>2 DEF Return
    <3>1. m.value \in SUBSET Request
      BY DEF Reply
    <3> QED
      BY <2>2, <3>1 DEF Return
  <2>3. CASE Poll(c)
    BY <2>3 DEF Poll
  <2>4. CASE PollError(c)
    BY <2>4 DEF PollError
  <2>5. CASE GiveUp(c)
    BY <2>5 DEF GiveUp
  <2>6. CASE Rejoin(c)
    BY <2>6 DEF Rejoin
  <2> QED
    BY <1>2, <2>1, <2>2, <2>3, <2>4, <2>5, <2>6 DEF Client
<1>3. ASSUME NEW c \in Clients, Take(c) \/ Recv(c)
      PROVE  TypeOK'
  BY <1>3 DEF Take, Recv
<1>4. CASE PollIn
  BY <1>4 DEF PollIn
<1>5. CASE Execute
  <2> PICK r \in cur : Execute!2!(r)
    BY <1>5 DEF Execute
  <2>1. r \in Request /\ r.client \in Clients
    BY DEF Request
  <2>2. After(region, r) \subseteq Request /\ Answer(region, r) \subseteq Request
    BY <2>1 DEF After, Answer
  <2>3. rep' \subseteq Reply /\ region' \subseteq Request
    BY <2>1, <2>2 DEF Reply
  <2>4. /\ IsABag(runs') /\ BagToSet(runs') \subseteq Request
        /\ result' \in [Clients -> SUBSET Request]
    BY <2>1, <2>2, RunsAdded
  <2> QED
    BY <1>5, <2>3, <2>4 DEF Execute
<1>6. CASE Send
  <2> PICK m \in rep : Send!2!(m)
    BY <1>6 DEF Send
  <2>1. inq' \in [Clients -> SUBSET Reply]
    OBVIOUS
  <2> QED
    BY <1>6, <2>1 DEF Send
<1>7. CASE Start
  BY <1>7 DEF Start
<1>8. CASE Exit
  BY <1>8 DEF Exit
<1>9. CASE StartFails
  <2>1. starts' \in 0 .. MaxStarts
    BY <1>9 DEF StartFails
  <2> QED
    BY <1>9, <2>1 DEF StartFails
<1> QED
  BY <1>1, <1>2, <1>3, <1>4, <1>5, <1>6, <1>7, <1>8, <1>9 DEF Next, Server

\* The types of the variables are those TypeOK gives them.
THEOREM TypeCorrect == Spec => []TypeOK
BY TypeInit, TypeNext, PTL DEF Spec

-----------------------------------------------------------------------------
(* The lockstep of request and reply *)

\* r comes from a client process that is still there.
Present(r) == client[r.client] # "gone" /\ r.session = session[r.client]

\* r was sent.
Issued(r) ==
  \/ r.session < session[r.client]
  \/ r.session = session[r.client] /\ r.number <= number[r.client]

PipeOK ==
  \A c \in Clients : \A r \in pipe[c] :
    /\ r.client = c /\ Issued(r) /\ Runs(r) = 0
    /\ Present(r) => Awaited(r)
UnservedOK ==
  \A r \in Unserved :
    /\ Runs(r) = 0 /\ r \notin pipe[r.client]
    /\ Present(r) => Awaited(r)
RepOK ==
  \A m \in rep :
    /\ phase = "send"
    /\ Present(m.to) => /\ Awaited(m.to) /\ Runs(m.to) = 1
                        /\ m.value = result[m.to.client] /\ inq[m.to.client] = {}
InqOK ==
  \A c \in Clients : \A m \in inq[c] :
    m.to.client = c /\ Awaited(m.to) /\ Runs(m.to) = 1 /\ m.value = result[c]
ServiceOK ==
  /\ phase = "execute" => cur \cap inbox = {}
  /\ \A r \in inbox \cup cur : Issued(r)
  /\ \A m \in rep : Issued(m.to)
RunsOK == \A r \in Request : Runs(r) \in {0, 1} /\ (Runs(r) = 1 => Issued(r))

Lockstep == PipeOK /\ UnservedOK /\ RepOK /\ InqOK /\ ServiceOK /\ RunsOK

LEMMA LockstepInit == Init => Lockstep
BY DEF Init, Lockstep, PipeOK, UnservedOK, Unserved, RepOK, InqOK, ServiceOK, RunsOK, Runs,
       EmptyBag, SetToBag

LEMMA RequestClient ==
  ASSUME TypeOK
  PROVE  /\ \A c \in Clients : \A r \in pipe[c] : r \in Request
         /\ \A r \in inbox \cup cur : r \in Request /\ r.client \in Clients
         /\ \A m \in rep : m.to \in Request /\ m.to.client \in Clients
         /\ \A r \in Unserved : r \in inbox \cup cur
BY DEF TypeOK, Request, Reply, Unserved

LEMMA InqFacts ==
  ASSUME TypeOK, InqOK, NEW d \in Clients, NEW m \in inq[d]
  PROVE  /\ m \in Reply /\ m.to.client = d
         /\ client[d] = "waiting" /\ m.to = Current(d)
         /\ Runs(m.to) = 1 /\ m.value = result[d]
<1>1. m.to.client = d /\ Awaited(m.to) /\ Runs(m.to) = 1 /\ m.value = result[d]
  BY DEF InqOK
<1> QED
  BY <1>1 DEF Awaited, TypeOK

LEMMA LockstepCall ==
  ASSUME TypeOK, Lockstep, NEW c \in Clients, Call(c)
  PROVE  Lockstep'
<1> PICK k \in Commands : Call(c)!2!(k)
  BY DEF Call
<1> USE RequestClient DEF Lockstep, Awaited, Current, Numbered, Present, Unserved
<1>0. /\ client[c] = "ready" /\ client' = [client EXCEPT ![c] = "waiting"]
      /\ number' = [number EXCEPT ![c] = @ + 1]
      /\ result' = [result EXCEPT ![c] = {}] /\ UNCHANGED <<session, inq, servervars, runs>>
  BY DEF Call
<1> USE <1>0 DEF servervars
<1>q. number[c] + 1 \in 0 .. MaxCalls
  BY DEF Call, TypeOK
<1> PICK q \in Request : q = Numbered(c, number[c] + 1, k)
  BY <1>q, NumberedType
<1>a. /\ q.client = c /\ ~Issued(q) /\ Issued(q)' /\ Awaited(q)'
      /\ \A d \in Clients : pipe'[d] = IF d = c THEN pipe[c] \cup {q} ELSE pipe[d]
  <2>1. /\ q.client = c /\ q.session = session[c] /\ q.number = number[c] + 1 /\ q.cmd = k
        /\ number[c] \in Nat /\ session[c] \in Nat
    BY DEF TypeOK
  <2>2. /\ number'[c] = number[c] + 1 /\ cmd'[c] = k /\ client'[c] = "waiting"
        /\ session' = session
    BY DEF TypeOK
  <2>3. ~Issued(q) /\ Issued(q)'
    BY <2>1, <2>2 DEF Issued
  <2>4. Awaited(q)'
    BY <2>1, <2>2
  <2>5. \A d \in Clients : pipe'[d] = IF d = c THEN pipe[c] \cup {q} ELSE pipe[d]
    BY DEF TypeOK
  <2> QED
    BY <2>1, <2>3, <2>4, <2>5
<1>b. ASSUME NEW r \in Request, Issued(r)
      PROVE  Issued(r)' /\ r # q
  BY <1>a, <1>b DEF Issued, TypeOK, Request
<1>c. Runs(q) = 0 /\ \A r : Runs(r)' = Runs(r)
  BY <1>a DEF RunsOK, Runs
<1>d. ASSUME NEW r \in Request, Present(r) => Awaited(r), r # q
      PROVE  (Present(r) => Awaited(r))'
  BY <1>d DEF TypeOK, Request
<1>1. PipeOK'
  <2> SUFFICES ASSUME NEW d \in Clients, NEW r \in pipe'[d]
               PROVE  (/\ r.client = d /\ Issued(r) /\ Runs(r) = 0
                       /\ Present(r) => Awaited(r))'
    BY DEF PipeOK
  <2>1. CASE r = q /\ d = c
    BY <1>a, <1>c, <2>1
  <2>2. CASE r \in pipe[d]
    BY <1>b, <1>c, <1>d, <2>2 DEF PipeOK
  <2> QED
    BY <1>a, <2>1, <2>2
<1>2. UnservedOK'
  <2> SUFFICES ASSUME NEW r \in Unserved
               PROVE  (/\ Runs(r) = 0 /\ r \notin pipe[r.client]
                       /\ Present(r) => Awaited(r))'
    BY DEF UnservedOK
  <2>1. r \in Request /\ r.client \in Clients /\ Issued(r)
    BY DEF ServiceOK
  <2>2. Runs(r) = 0 /\ r \notin pipe[r.client] /\ (Present(r) => Awaited(r))
    BY DEF UnservedOK
  <2> QED
    BY <1>a, <1>b, <1>c, <1>d, <2>1, <2>2
<1>3. RepOK'
  <2> SUFFICES ASSUME NEW m \in rep, Present(m.to)'
               PROVE  (/\ Awaited(m.to) /\ Runs(m.to) = 1
                       /\ m.value = result[m.to.client] /\ inq[m.to.client] = {})'
    BY DEF RepOK
  <2>1. m.to.client \in Clients /\ m.to.client # c
    BY DEF RepOK, TypeOK
  <2> QED
    BY <1>c, <2>1 DEF RepOK, TypeOK
<1>4. InqOK'
  <2> SUFFICES ASSUME NEW d \in Clients, NEW m \in inq[d]
               PROVE  (m.to.client = d /\ Awaited(m.to) /\ Runs(m.to) = 1 /\ m.value = result[d])'
    BY DEF InqOK
  <2>1. m.to.client = d /\ Awaited(m.to) /\ Runs(m.to) = 1 /\ m.value = result[d]
    BY DEF InqOK
  <2>2. d # c
    BY <2>1
  <2> QED
    BY <1>c, <2>1, <2>2 DEF TypeOK
<1>5. ServiceOK' /\ RunsOK'
  BY <1>b, <1>c DEF ServiceOK, RunsOK
<1> QED
  BY <1>1, <1>2, <1>3, <1>4, <1>5

LEMMA LockstepClient ==
  ASSUME TypeOK, Lockstep, NEW c \in Clients,
         Return(c) \/ Poll(c) \/ PollError(c) \/ GiveUp(c) \/ Rejoin(c)
  PROVE  Lockstep'
<1> USE RequestClient DEF Lockstep, Awaited, Current, Numbered, Present, Unserved, servervars,
                          history, Runs, Issued
<1>1. CASE Return(c)
  <2> PICK m \in inq[c] : Return(c)!2!(m)
    BY <1>1 DEF Return
  <2> USE <1>1 DEF Return
  <2>1. inq'[c] = {}
    <3>0. InqOK
      OBVIOUS
    <3>1. ASSUME NEW n \in inq[c]
          PROVE  n.to = m.to /\ n.value = m.value /\ n \in Reply /\ m \in Reply
      <4>1. m \in Reply /\ m.to = Current(c) /\ m.value = result[c]
        BY <3>0, InqFacts
      <4>2. n \in Reply /\ n.to = Current(c) /\ n.value = result[c]
        BY <3>0, InqFacts
      <4> QED
        BY <4>1, <4>2
    <3>2. \A n \in inq[c] : n = m
      BY <3>1 DEF Reply
    <3> QED
      BY <3>2 DEF TypeOK
  <2>2. Runs(Current(c)) = 1 /\ inq[c] # {} /\ client' = [client EXCEPT ![c] = "ready"]
    BY InqFacts
  <2>3. PipeOK'
    BY <2>2 DEF PipeOK, TypeOK
  <2>4. UnservedOK'
    BY <2>2 DEF UnservedOK, TypeOK
  <2>5. RepOK'
    BY <2>1, <2>2 DEF RepOK, TypeOK
  <2>6. InqOK'
    <3> SUFFICES ASSUME NEW d \in Clients, NEW n \in inq'[d]
                 PROVE  (n.to.client = d /\ Awaited(n.to) /\ Runs(n.to) = 1 /\ n.value = result[d])'
      BY DEF InqOK
    <3>1. d # c /\ n \in inq[d]
      BY <2>1 DEF TypeOK
    <3>2. n.to.client = d /\ Awaited(n.to) /\ Runs(n.to) = 1 /\ n.value = result[d]
      BY <3>1 DEF InqOK
    <3> QED
      BY <2>2, <3>1, <3>2 DEF TypeOK
  <2>7. ServiceOK' /\ RunsOK'
    BY DEF ServiceOK, RunsOK
  <2> QED
    BY <2>3, <2>4, <2>5, <2>6, <2>7
<1>2. CASE Poll(c) \/ PollError(c)
  <2>1. UNCHANGED <<client, session, number, cmd, pipe, inq, servervars, history>>
    BY <1>2 DEF Poll, PollError
  <2> QED
    BY <2>1 DEF PipeOK, UnservedOK, RepOK, InqOK, ServiceOK, RunsOK
<1>3. CASE GiveUp(c)
  <2> USE <1>3 DEF GiveUp
  <2>1. PipeOK'
    BY DEF PipeOK, TypeOK
  <2>2. UnservedOK'
    BY DEF UnservedOK, TypeOK
  <2>3. RepOK'
    BY DEF RepOK, TypeOK
  <2>4. InqOK'
    <3> SUFFICES ASSUME NEW d \in Clients, NEW n \in inq'[d]
                 PROVE  (n.to.client = d /\ Awaited(n.to) /\ Runs(n.to) = 1 /\ n.value = result[d])'
      BY DEF InqOK
    <3>1. d # c /\ n \in inq[d]
      BY InqFacts DEF TypeOK
    <3>2. n.to.client = d /\ Awaited(n.to) /\ Runs(n.to) = 1 /\ n.value = result[d]
      BY <3>1 DEF InqOK
    <3> QED
      BY <3>1, <3>2 DEF TypeOK
  <2>5. ServiceOK' /\ RunsOK'
    BY DEF ServiceOK, RunsOK
  <2> QED
    BY <2>1, <2>2, <2>3, <2>4, <2>5
<1>4. CASE Rejoin(c)
  <2> USE <1>4 DEF Rejoin
  <2>0. session[c] \in Nat /\ \A d \in Clients : session[d] \in Nat
    BY DEF TypeOK
  <2>a. ASSUME NEW r \in Request, Issued(r)
        PROVE  /\ r.client \in Clients /\ Issued(r)'
               /\ Present(r)' => r.client # c /\ Present(r)
    BY <2>0, <2>a DEF TypeOK, Request
  <2>b. \A d \in Clients : pipe'[d] \subseteq pipe[d]
    BY DEF TypeOK
  <2>1. PipeOK'
    <3> SUFFICES ASSUME NEW d \in Clients, NEW r \in pipe'[d]
                 PROVE  (/\ r.client = d /\ Issued(r) /\ Runs(r) = 0
                         /\ Present(r) => Awaited(r))'
      BY DEF PipeOK
    <3>1. /\ r \in Request /\ r.client = d /\ Issued(r) /\ Runs(r) = 0
          /\ Present(r) => Awaited(r)
      BY <2>b DEF PipeOK
    <3> QED
      BY <2>a, <3>1 DEF TypeOK
  <2>2. UnservedOK'
    <3> SUFFICES ASSUME NEW r \in Unserved
                 PROVE  (/\ Runs(r) = 0 /\ r \notin pipe[r.client]
                         /\ Present(r) => Awaited(r))'
      BY DEF UnservedOK
    <3>1. r \in Request /\ r.client \in Clients /\ Issued(r)
      BY DEF ServiceOK, Request
    <3>2. Runs(r) = 0 /\ r \notin pipe[r.client] /\ (Present(r) => Awaited(r))
      BY DEF UnservedOK
    <3> QED
      BY <2>a, <2>b, <3>1, <3>2 DEF TypeOK
  <2>3. RepOK'
    <3> SUFFICES ASSUME NEW m \in rep, Present(m.to)'
                 PROVE  (/\ Awaited(m.to) /\ Runs(m.to) = 1
                         /\ m.value = result[m.to.client] /\ inq[m.to.client] = {})'
      BY DEF RepOK
    <3>1. m.to \in Request /\ m.to.client \in Clients /\ Issued(m.to)
      BY DEF ServiceOK, Request
    <3>2. m.to.client # c /\ Present(m.to)
      BY <2>a, <3>1
    <3> QED
      BY <3>1, <3>2 DEF RepOK, TypeOK
  <2>4. InqOK'
    <3> SUFFICES ASSUME NEW d \in Clients, NEW n \in inq'[d]
                 PROVE  (n.to.client = d /\ Awaited(n.to) /\ Runs(n.to) = 1 /\ n.value = result[d])'
      BY DEF InqOK
    <3>1. d # c /\ n \in inq[d]
      BY InqFacts DEF TypeOK
    <3>2. n.to.client = d /\ Awaited(n.to) /\ Runs(n.to) = 1 /\ n.value = result[d]
      BY <3>1 DEF InqOK
    <3> QED
      BY <3>1, <3>2 DEF TypeOK
  <2>5. ServiceOK'
    <3>1. \A r \in inbox \cup cur : r \in Request /\ Issued(r)
      BY DEF ServiceOK
    <3>2. \A m \in rep : m.to \in Request /\ Issued(m.to)
      BY DEF ServiceOK
    <3> QED
      BY <2>a, <3>1, <3>2 DEF ServiceOK
  <2>6. RunsOK'
    BY <2>a DEF RunsOK
  <2> QED
    BY <2>1, <2>2, <2>3, <2>4, <2>5, <2>6
<1> QED
  BY <1>1, <1>2, <1>3, <1>4

LEMMA LockstepServer ==
  ASSUME TypeOK, Lockstep, Server \/ Start \/ StartFails \/ Exit
  PROVE  Lockstep'
<1> USE RequestClient DEF Lockstep, Awaited, Current, Numbered, Present, Unserved, clientvars,
                          history, Issued
<1>1. ASSUME NEW c \in Clients, Take(c)
      PROVE  Lockstep'
  <2> PICK q \in pipe[c] : /\ inbox' = inbox \cup {q}
                           /\ pipe' = [pipe EXCEPT ![c] = @ \ {q}]
    BY <1>1 DEF Take
  <2> USE <1>1 DEF Take
  <2> USE DEF Runs
  <2>1. q.client = c /\ Issued(q) /\ Runs(q) = 0 /\ (Present(q) => Awaited(q))
    BY DEF PipeOK
  <2>b. /\ \A d \in Clients : pipe'[d] \subseteq pipe[d]
        /\ q \notin pipe'[c]
    BY DEF TypeOK
  <2>2. PipeOK'
    BY <2>b DEF PipeOK
  <2>3. UnservedOK'
    <3> SUFFICES ASSUME NEW r \in Unserved \cup {q}
                 PROVE  /\ Runs(r) = 0 /\ r \notin pipe'[r.client]
                        /\ Present(r) => Awaited(r)
      BY DEF UnservedOK
    <3>1. CASE r = q
      BY <2>1, <2>b, <3>1
    <3>2. CASE r \in Unserved
      BY <2>b, <3>2 DEF UnservedOK
    <3> QED
      BY <3>1, <3>2
  <2>4. RepOK' /\ InqOK' /\ RunsOK'
    BY DEF RepOK, InqOK, RunsOK
  <2>5. ServiceOK'
    <3>1. phase = "execute" => q \notin cur
      BY <2>1 DEF UnservedOK
    <3> QED
      BY <2>1, <3>1 DEF ServiceOK
  <2> QED
    BY <2>2, <2>3, <2>4, <2>5
<1>2. ASSUME NEW c \in Clients, Recv(c)
      PROVE  Lockstep'
  BY <1>2 DEF Recv, PipeOK, UnservedOK, RepOK, InqOK, ServiceOK, RunsOK, Runs
<1>3. CASE PollIn
  BY <1>3 DEF PollIn, PipeOK, UnservedOK, RepOK, InqOK, ServiceOK, RunsOK, Runs
<1>4. CASE Execute
  <2> PICK q \in cur : Execute!2!(q)
    BY <1>4 DEF Execute
  <2> DEFINE c == q.client
  <2>0. /\ phase = "execute" /\ phase' = "send" /\ q \in Unserved
        /\ q \in Request /\ c \in Clients
        /\ UNCHANGED <<clientvars, pipe, inq, inbox, cur>>
    BY <1>4 DEF Execute
  <2>1. Runs(q) = 0 /\ q \notin pipe[c] /\ q \notin inbox /\ Issued(q)
        /\ (Present(q) => Awaited(q))
    BY <2>0 DEF UnservedOK, ServiceOK
  <2>2. Runs(q)' = 1 /\ \A r : r # q => Runs(r)' = Runs(r)
    BY <2>1, RunsAdded DEF TypeOK
  <2>3. Awaited(q) => inq[c] = {} /\ result'[c] = Answer(region, q)
    <3>1. InqOK
      OBVIOUS
    <3>2. ASSUME Awaited(q), NEW n \in inq[c]
          PROVE  FALSE
      BY <2>0, <2>1, <3>1, <3>2, InqFacts
    <3> QED
      BY <2>0, <3>2 DEF TypeOK
  <2>4. PipeOK'
    BY <2>0, <2>1, <2>2 DEF PipeOK
  <2>5. UnservedOK'
    BY <2>0, <2>1, <2>2 DEF UnservedOK
  <2>6. RepOK'
    BY <2>0, <2>1, <2>2, <2>3 DEF RepOK
  <2>7. InqOK'
    <3> SUFFICES ASSUME NEW d \in Clients, NEW n \in inq[d]
                 PROVE  (n.to.client = d /\ Awaited(n.to) /\ Runs(n.to) = 1 /\ n.value = result[d])'
      BY <2>0 DEF InqOK
    <3>1. n.to.client = d /\ Awaited(n.to) /\ Runs(n.to) = 1 /\ n.value = result[d]
      BY DEF InqOK
    <3>2. n.to # q /\ (Awaited(q) => d # c)
      BY <2>1, <2>3, <3>1
    <3> QED
      BY <2>0, <2>2, <3>1, <3>2 DEF TypeOK
  <2>8. ServiceOK' /\ RunsOK'
    BY <2>0, <2>1, <2>2 DEF ServiceOK, RunsOK
  <2> QED
    BY <2>4, <2>5, <2>6, <2>7, <2>8
<1>5. CASE Send
  <2> PICK m \in rep : Send!2!(m)
    BY <1>5 DEF Send
  <2> USE <1>5 DEF Send, Runs
  <2> DEFINE c == m.to.client
  <2>0. c \in Clients /\ phase' = "poll" /\ cur' = {} /\ rep' = {}
    OBVIOUS
  <2>1. InqOK'
    <3>1. CASE Present(m.to)
      <4>1. inq' = [inq EXCEPT ![c] = @ \cup {m}] /\ inq[c] = {}
        BY <3>1 DEF RepOK
      <4>2. \A d \in Clients : inq'[d] = IF d = c THEN {m} ELSE inq[d]
        BY <2>0, <4>1 DEF TypeOK
      <4>3. Awaited(m.to) /\ Runs(m.to) = 1 /\ m.value = result[c]
        BY <3>1 DEF RepOK
      <4> QED
        BY <4>2, <4>3 DEF InqOK
    <3>2. CASE ~Present(m.to)
      BY <3>2 DEF InqOK
    <3> QED
      BY <3>1, <3>2
  <2>2. PipeOK' /\ UnservedOK' /\ RepOK' /\ ServiceOK' /\ RunsOK'
    BY <2>0 DEF PipeOK, UnservedOK, RepOK, ServiceOK, RunsOK
  <2> QED
    BY <2>1, <2>2
<1>6. CASE Start \/ StartFails
  BY <1>6 DEF Start, StartFails, PipeOK, UnservedOK, RepOK, InqOK, ServiceOK, RunsOK, Runs
<1>7. CASE Exit
  <2> USE <1>7 DEF Exit, Runs
  <2>1. InqOK'
    BY DEF InqOK
  <2>2. PipeOK' /\ UnservedOK' /\ RepOK' /\ ServiceOK' /\ RunsOK'
    BY DEF PipeOK, UnservedOK, RepOK, ServiceOK, RunsOK
  <2> QED
    BY <2>1, <2>2
<1> QED
  BY <1>1, <1>2, <1>3, <1>4, <1>5, <1>6, <1>7 DEF Server

LEMMA LockstepNext == TypeOK /\ Lockstep /\ [Next]_vars => Lockstep'
<1> SUFFICES ASSUME TypeOK, Lockstep, [Next]_vars
             PROVE  Lockstep'
  OBVIOUS
<1>1. CASE UNCHANGED vars
  BY <1>1 DEF vars, clientvars, servervars, history, Lockstep, PipeOK, UnservedOK, Unserved,
              RepOK, InqOK, ServiceOK, RunsOK, Runs, Issued, Present, Awaited, Current, Numbered
<1> QED
  BY <1>1, LockstepCall, LockstepClient, LockstepServer DEF Next, Client

THEOREM LockstepKept == Spec => []Lockstep
BY LockstepInit, LockstepNext, TypeCorrect, PTL DEF Spec

\* No call is executed twice, neither while its client waits nor after it has
\* given up, however many clients, restarts and errors.
THEOREM CallsAtMostOnce == Spec => []AtMostOnce
<1>1. TypeOK /\ Lockstep => AtMostOnce
  BY DEF TypeOK, Lockstep, RunsOK, AtMostOnce
<1> QED
  BY <1>1, TypeCorrect, LockstepKept, PTL

\* A reply never answers a call other than the one its client waits for.
THEOREM RepliesAnswerCalls == Spec => []ReplyAnswersCall
<1>1. Lockstep => ReplyAnswersCall
  BY DEF Lockstep, InqOK, ReplyAnswersCall
<1> QED
  BY <1>1, LockstepKept, PTL

-----------------------------------------------------------------------------
(* The request in service *)

\* There is at most one, from receive to send, and the reply is to it.
InService ==
  /\ \A q, r \in cur : q = r
  /\ phase \in {"poll", "recv"} => cur = {}
  /\ phase = "send" => \A r \in cur : \E m \in rep : m.to = r

LEMMA InServiceNext == InService /\ [Next]_vars => InService'
<1> SUFFICES ASSUME InService, [Next]_vars
             PROVE  InService'
  OBVIOUS
<1> USE DEF InService
<1>1. CASE UNCHANGED <<phase, cur, rep>>
  BY <1>1
<1>2. ASSUME NEW c \in Clients, Client(c) \/ Take(c)
      PROVE  UNCHANGED <<phase, cur, rep>>
  BY <1>2 DEF Client, Call, Return, Poll, PollError, GiveUp, Rejoin, Take, servervars
<1>3. ASSUME NEW c \in Clients, Recv(c)
      PROVE  InService'
  BY <1>3 DEF Recv
<1>4. CASE PollIn \/ Start \/ StartFails \/ Send \/ Exit
  BY <1>4 DEF PollIn, Start, StartFails, Send, Exit
<1>5. CASE Execute
  BY <1>5 DEF Execute
<1>6. CASE UNCHANGED vars
  BY <1>1, <1>6 DEF vars, servervars
<1> QED
  BY <1>1, <1>2, <1>3, <1>4, <1>5, <1>6 DEF Next, Server

THEOREM InServiceKept == Spec => []InService
<1>1. Init => InService
  BY DEF Init, InService
<1> QED
  BY <1>1, InServiceNext, PTL DEF Spec

\* At most one copy of a call is anywhere between its client and the server:
\* it is waiting, in service, or answered.
THEOREM CallsHaveOneCopy == Spec => []OneCopy
<1>1. TypeOK /\ Lockstep /\ InService => OneCopy
  <2> SUFFICES ASSUME TypeOK, Lockstep, InService, NEW c \in Clients, client[c] = "waiting"
               PROVE  Copies(Current(c)) <= 1
    BY DEF OneCopy
  <2> DEFINE r == Current(c)
  <2>1. r.client = c /\ r.session = session[c] /\ Present(r)
    BY DEF Current, Numbered, Present
  <2>2. r \in pipe[c] => Runs(r) = 0
    BY <2>1 DEF Lockstep, PipeOK
  <2>3. r \in Unserved => Runs(r) = 0 /\ r \notin pipe[c]
    BY <2>1 DEF Lockstep, UnservedOK
  <2>4. (\E m \in inq[c] : m.to = r) => Runs(r) = 1
    BY DEF Lockstep, InqOK
  <2>5. r \in cur /\ phase = "send" => Runs(r) = 1 /\ inq[c] = {}
    BY <2>1 DEF Lockstep, RepOK, InService
  <2>6. r \in cur /\ phase = "execute" => r \in Unserved /\ r \notin inbox
    BY <2>1 DEF Lockstep, ServiceOK, Unserved
  <2>7. r \in cur => phase \in {"execute", "send"}
    BY DEF TypeOK, InService
  <2>8. r \in inbox => r \in Unserved
    BY DEF Unserved
  <2> HIDE DEF r
  <2> QED
    BY <2>1, <2>2, <2>3, <2>4, <2>5, <2>6, <2>7, <2>8 DEF Copies, r
<1> QED
  BY <1>1, TypeCorrect, LockstepKept, InServiceKept, PTL

-----------------------------------------------------------------------------
(* The promise to callers is kept *)

\* A request that was not executed is in one place.
OnePlace ==
  /\ \A c \in Clients : pipe[c] \cap Unserved = {}
  /\ phase = "execute" => cur \cap inbox = {}

LEMMA OneAtATime == TypeOK /\ Lockstep => OnePlace
BY DEF TypeOK, Lockstep, PipeOK, UnservedOK, ServiceOK, OnePlace

\* The state of RpcSpec that a state of Rpc stands for.
State == [c \in Clients |-> IF client[c] # "waiting" THEN client[c]
                           ELSE IF Runs(Current(c)) = 0 THEN "called" ELSE "answered"]
Op == [c \in Clients |-> Current(c)]
Outstanding == (UNION {pipe[c] : c \in Clients}) \cup Unserved
Abandoned == {r \in Outstanding : ~Awaited(r)}

Sound == TypeOK /\ Lockstep /\ InService /\ OnePlace

LEMMA CurrentType == ASSUME TypeOK, NEW c \in Clients PROVE Current(c) \in Request
BY NumberedType DEF TypeOK, Current

LEMMA PromiseCall ==
  ASSUME Sound, Sound', NEW c \in Clients, Call(c)
  PROVE  Promise!Call(c)
<1> PICK k \in Commands : Call(c)!2!(k)
  BY DEF Call
<1> PICK q : q = Numbered(c, number[c] + 1, k)
  OBVIOUS
<1>1. /\ client[c] = "ready" /\ client' = [client EXCEPT ![c] = "waiting"]
      /\ number' = [number EXCEPT ![c] = @ + 1] /\ cmd' = [cmd EXCEPT ![c] = k]
      /\ result' = [result EXCEPT ![c] = {}]
      /\ pipe' = [pipe EXCEPT ![c] = @ \cup {q}]
      /\ UNCHANGED <<session, got, region, phase, cur, inbox, runs>>
  BY DEF Call, servervars
<1>3. Current(c)' = q /\ q \in Request
  BY <1>1, CurrentType DEF Sound, TypeOK, Current, Numbered
<1>2. State[c] = "ready" /\ State' = [State EXCEPT ![c] = "called"]
  <2>0. q \in pipe'[c]
    BY <1>1 DEF Sound, TypeOK
  <2>1. Runs(q)' = 0
    BY <2>0 DEF Sound, Lockstep, PipeOK
  <2>2. \A d \in Clients \ {c} : client'[d] = client[d] /\ Runs(Current(d))' = Runs(Current(d))
    BY <1>1 DEF Sound, TypeOK, Runs, Current, Numbered
  <2>3. client'[c] = "waiting"
    BY <1>1 DEF Sound, TypeOK
  <2>4. Runs(Current(c))' = 0
    BY <1>3, <2>1 DEF Runs
  <2>5. State' = [d \in Clients |-> IF d = c THEN "called" ELSE State[d]]
    BY <2>2, <2>3, <2>4 DEF State
  <2> QED
    BY <1>1, <2>5 DEF State
<1>4. Op' = [Op EXCEPT ![c] = q]
  BY <1>1, <1>3 DEF Op, Current, Numbered, Sound, TypeOK
<1>5. Abandoned' = Abandoned
  <2>1. ASSUME NEW r \in Request PROVE Awaited(r)' <=> Awaited(r) \/ r = q
    <3>1. r.client \in Clients /\ q.client = c
      BY DEF Request, Numbered
    <3>2. CASE r.client = c
      BY <1>1, <1>3, <3>2 DEF Awaited, Sound, TypeOK
    <3>3. CASE r.client # c
      BY <1>1, <3>1, <3>3 DEF Awaited, Current, Numbered, Sound, TypeOK
    <3> QED
      BY <3>2, <3>3
  <2>2. ASSUME NEW r \in Outstanding PROVE r \in Request /\ r # q
    <3>1. q.client = c /\ q.session = session[c]
      BY DEF Numbered
    <3>2. r = q => Present(r) /\ ~Awaited(r)
      BY <1>1, <3>1 DEF Present, Awaited
    <3> QED
      BY <3>2, RequestClient DEF Sound, Lockstep, PipeOK, UnservedOK, Outstanding
  <2>3. Outstanding' = Outstanding \cup {q}
    BY <1>1 DEF Sound, TypeOK, Outstanding, Unserved
  <2> QED
    BY <1>3, <2>1, <2>2, <2>3 DEF Abandoned
<1> QED
  BY <1>1, <1>2, <1>3, <1>4, <1>5 DEF Promise!Call, State, Op, Abandoned, Outstanding

LEMMA PromiseReturn ==
  ASSUME Sound, Sound', NEW c \in Clients, Return(c)
  PROVE  Promise!Return(c)
<1> PICK m \in inq[c] : Return(c)!2!(m)
  BY DEF Return
<1>1. /\ client[c] = "waiting" /\ client' = [client EXCEPT ![c] = "ready"]
      /\ got' = [got EXCEPT ![c] = m.value]
      /\ UNCHANGED <<session, number, cmd, runs, result, pipe, region, phase, cur, inbox>>
  BY DEF Return, servervars, history
<1>2. Runs(Current(c)) = 1 /\ m.value = result[c]
  BY InqFacts DEF Sound, Lockstep
<1>3. State[c] = "answered" /\ State' = [State EXCEPT ![c] = "ready"]
  <2>1. State[c] = "answered"
    BY <1>1, <1>2 DEF State
  <2>2. \A d \in Clients : client'[d] = IF d = c THEN "ready" ELSE client[d]
    BY <1>1 DEF Sound, TypeOK
  <2>3. \A d \in Clients : Runs(Current(d))' = Runs(Current(d))
    BY <1>1 DEF Runs, Current, Numbered
  <2>4. State' = [d \in Clients |-> IF d = c THEN "ready" ELSE State[d]]
    BY <2>2, <2>3 DEF State
  <2> QED
    BY <2>1, <2>4 DEF State
<1>4. Op' = Op /\ Outstanding' = Outstanding
  BY <1>1 DEF Op, Current, Numbered, Outstanding, Unserved
<1>5. ASSUME NEW r \in Outstanding
      PROVE  Awaited(r)' <=> Awaited(r)
  <2>1. r \in Request /\ r.client \in Clients /\ Runs(r) = 0
    BY RequestClient DEF Sound, Lockstep, PipeOK, UnservedOK, Outstanding, Request
  <2>2. r.client = c => ~Awaited(r) /\ ~Awaited(r)'
    BY <1>1, <1>2, <2>1 DEF Awaited, Sound, TypeOK
  <2> QED
    BY <1>1, <2>1, <2>2 DEF Awaited, Current, Numbered, Sound, TypeOK
<1>6. Abandoned' = Abandoned
  BY <1>4, <1>5 DEF Abandoned
<1> QED
  BY <1>1, <1>2, <1>3, <1>4, <1>6 DEF Promise!Return, State, Op, Abandoned, Outstanding

LEMMA PromiseGiveUp ==
  ASSUME Sound, Sound', NEW c \in Clients, GiveUp(c)
  PROVE  Promise!GiveUp(c)
<1> DEFINE q == Current(c)
<1>1. /\ client[c] = "waiting" /\ client' = [client EXCEPT ![c] = "gone"]
      /\ UNCHANGED <<session, number, cmd, runs, result, got, pipe, region, phase, cur, inbox>>
  BY DEF GiveUp, servervars, history
<1>2. /\ State[c] = IF Runs(q) = 0 THEN "called" ELSE "answered"
      /\ State' = [State EXCEPT ![c] = "gone"]
  <2>1. \A d \in Clients : client'[d] = IF d = c THEN "gone" ELSE client[d]
    BY <1>1 DEF Sound, TypeOK
  <2>2. \A d \in Clients : Runs(Current(d))' = Runs(Current(d))
    BY <1>1 DEF Runs, Current, Numbered
  <2>3. State' = [d \in Clients |-> IF d = c THEN "gone" ELSE State[d]]
    BY <2>1, <2>2 DEF State
  <2> QED
    BY <1>1, <2>3 DEF State
<1>3. Op' = Op /\ Op[c] = q /\ Outstanding' = Outstanding
  BY <1>1 DEF Op, Current, Numbered, Outstanding, Unserved
<1>4. q.client = c /\ Awaited(q) /\ Present(q)
  BY <1>1 DEF Current, Numbered, Awaited, Present
<1>5. ASSUME NEW r \in Outstanding
      PROVE  Awaited(r)' <=> Awaited(r) /\ r # q
  <2>1. r \in Request /\ r.client \in Clients
    BY RequestClient DEF Sound, Lockstep, PipeOK, UnservedOK, Outstanding, Request
  <2>2. r.client = c => (Awaited(r) <=> r = q) /\ ~Awaited(r)'
    BY <1>1, <2>1 DEF Awaited, Sound, TypeOK
  <2> QED
    BY <1>1, <1>4, <2>1, <2>2 DEF Awaited, Current, Numbered, Sound, TypeOK
<1> HIDE DEF q
<1>6. CASE q \in Outstanding
  <2>1. Runs(q) = 0
    BY <1>4, <1>6 DEF Sound, Lockstep, PipeOK, UnservedOK, Outstanding
  <2>2. Abandoned' = Abandoned \cup {q}
    BY <1>3, <1>5, <1>6 DEF Abandoned
  <2> QED
    BY <1>1, <1>2, <1>3, <2>1, <2>2 DEF Promise!GiveUp, State, Op, Abandoned, Outstanding
<1>7. CASE q \notin Outstanding
  <2>1. Abandoned' = Abandoned
    BY <1>3, <1>5, <1>7 DEF Abandoned
  <2> QED
    BY <1>1, <1>2, <1>3, <2>1 DEF Promise!GiveUp, State, Op, Abandoned, Outstanding
<1> QED
  BY <1>6, <1>7

LEMMA PromiseRejoin ==
  ASSUME Sound, Sound', NEW c \in Clients, Rejoin(c)
  PROVE  Promise!Rejoin(c)
<1>1. /\ client[c] = "gone" /\ client' = [client EXCEPT ![c] = "ready"]
      /\ session' = [session EXCEPT ![c] = @ + 1] /\ number' = [number EXCEPT ![c] = 0]
      /\ pipe' = pipe \/ pipe' = [pipe EXCEPT ![c] = {}]
      /\ UNCHANGED <<cmd, runs, result, got, region, phase, cur, inbox>>
  BY DEF Rejoin, servervars, history
<1>2. State[c] = "gone" /\ State' = [State EXCEPT ![c] = "ready"]
  <2>1. \A d \in Clients : client'[d] = IF d = c THEN "ready" ELSE client[d]
    BY <1>1 DEF Sound, TypeOK
  <2>2. \A d \in Clients \ {c} : Runs(Current(d))' = Runs(Current(d))
    BY <1>1 DEF Runs, Current, Numbered, Sound, TypeOK
  <2>3. State' = [d \in Clients |-> IF d = c THEN "ready" ELSE State[d]]
    BY <2>1, <2>2 DEF State
  <2> QED
    BY <1>1, <2>3 DEF State
<1>3. Current(c)' \in Request
  BY NumberedType DEF Sound, TypeOK, Current, Numbered, Request
<1>4. Op' = [Op EXCEPT ![c] = Current(c)']
  BY <1>1 DEF Op, Current, Numbered, Sound, TypeOK
<1>5. Abandoned' \subseteq Abandoned
  <2>1. Outstanding' \subseteq Outstanding
    BY <1>1 DEF Outstanding, Unserved, Sound, TypeOK
  <2>2. ASSUME NEW r \in Outstanding, Awaited(r)
        PROVE  Awaited(r)'
    <3>1. r \in Request /\ r.client \in Clients
      BY RequestClient DEF Sound, Lockstep, PipeOK, UnservedOK, Outstanding, Request
    <3> QED
      BY <1>1, <2>2, <3>1 DEF Awaited, Current, Numbered, Sound, TypeOK
  <2> QED
    BY <2>1, <2>2 DEF Abandoned
<1> QED
  BY <1>1, <1>2, <1>3, <1>4, <1>5 DEF Promise!Rejoin, State, Op, Abandoned, Outstanding

LEMMA PromiseExecute ==
  ASSUME Sound, Sound', Execute
  PROVE  (\E c \in Clients : Promise!Execute(c)) \/ Promise!ExecuteAbandoned
<1> PICK q \in cur : Execute!2!(q)
  BY DEF Execute
<1>1. /\ phase = "execute" /\ phase' = "send" /\ region' = After(region, q)
      /\ UNCHANGED <<client, session, number, cmd, got, pipe, cur, inbox>>
  BY DEF Execute, clientvars
<1> DEFINE c == q.client
<1>2. q \in Request /\ c \in Clients /\ q \in Unserved /\ cur = {q}
  BY <1>1 DEF Sound, TypeOK, InService, Unserved, Request
<1>3. Op' = Op /\ \A r : Awaited(r)' <=> Awaited(r)
  BY <1>1 DEF Op, Current, Numbered, Awaited
<1>4. Outstanding = Outstanding' \cup {q} /\ q \notin Outstanding'
  <2>1. q \notin inbox /\ \A d \in Clients : q \notin pipe[d]
    BY <1>1, <1>2 DEF Sound, OnePlace
  <2> QED
    BY <1>1, <1>2, <2>1 DEF Outstanding, Unserved
<1>5. Runs(q) = 0 /\ Runs(q)' = 1 /\ \A r : r # q => Runs(r)' = Runs(r)
  <2>1. Runs(q) = 0
    BY <1>2 DEF Sound, Lockstep, UnservedOK
  <2>2. IsABag(runs) /\ runs' = runs (+) SetToBag({q})
    BY DEF Sound, TypeOK
  <2>3. \A r : Runs(r)' = IF r = q THEN Runs(r) + 1 ELSE Runs(r)
    BY <2>2, RunsAdded
  <2> QED
    BY <2>1, <2>3
<1>6. CASE Awaited(q)
  <2>1. result' = [result EXCEPT ![c] = Answer(region, q)]
    BY <1>6
  <2>2. client[c] = "waiting" /\ Op[c] = q /\ Current(c) = q
    BY <1>2, <1>6 DEF Awaited, Op
  <2>3. State[c] = "called" /\ State' = [State EXCEPT ![c] = "answered"]
    <3>1. State[c] = "called"
      BY <1>2, <1>5, <2>2 DEF State
    <3>2. \A d \in Clients \ {c} : Current(d) # q
      BY DEF Current, Numbered
    <3>3. \A d \in Clients : Runs(Current(d))' = IF d = c THEN 1 ELSE Runs(Current(d))
      BY <1>1, <1>5, <2>2, <3>2 DEF Current, Numbered
    <3>4. State' = [d \in Clients |-> IF d = c THEN "answered" ELSE State[d]]
      BY <1>1, <2>2, <3>3 DEF State
    <3> QED
      BY <3>1, <3>4 DEF State
  <2>4. Abandoned' = Abandoned
    BY <1>3, <1>4, <1>6 DEF Abandoned
  <2>5. Promise!Execute(c)
    BY <1>1, <1>3, <2>1, <2>2, <2>3, <2>4 DEF Promise!Execute, State, Op, Abandoned, Outstanding
  <2> QED
    BY <1>2, <2>5
<1>7. CASE ~Awaited(q)
  <2>1. UNCHANGED result
    BY <1>7
  <2>2. State' = State
    <3>1. \A d \in Clients : client[d] = "waiting" => Current(d) # q
      BY <1>7 DEF Awaited, Current, Numbered
    <3>2. \A d \in Clients : Current(d)' = Current(d)
      BY <1>1 DEF Current, Numbered
    <3>3. \A d \in Clients : client[d] = "waiting" => Runs(Current(d))' = Runs(Current(d))
      BY <1>5, <3>1, <3>2
    <3> QED
      BY <1>1, <3>3 DEF State
  <2>3. q \in Abandoned /\ Abandoned' = Abandoned \ {q}
    BY <1>3, <1>4, <1>7 DEF Abandoned
  <2>4. Promise!ExecuteAbandoned
    BY <1>1, <1>3, <2>1, <2>2, <2>3
       DEF Promise!ExecuteAbandoned, State, Op, Abandoned, Outstanding
  <2> QED
    BY <2>4
<1> QED
  BY <1>6, <1>7

\* The server's restart empties the region, and what it had taken is lost.
LEMMA PromiseExit ==
  ASSUME Exit
  PROVE  Promise!Restart
<1>1. /\ region' = {} /\ inbox' = {} /\ cur' = {}
      /\ UNCHANGED <<client, session, number, cmd, got, pipe, runs, result>>
  BY DEF Exit, clientvars, history
<1>2. State' = State /\ Op' = Op /\ \A r : Awaited(r)' <=> Awaited(r)
  BY <1>1 DEF State, Op, Runs, Current, Numbered, Awaited
<1>3. Outstanding' \subseteq Outstanding
  BY <1>1 DEF Outstanding, Unserved
<1>4. Abandoned' \subseteq Abandoned
  BY <1>2, <1>3 DEF Abandoned
<1> QED
  BY <1>1, <1>2, <1>4 DEF Promise!Restart, State, Op, Abandoned, Outstanding

\* Polls and messages on their way change nothing a caller could know of.
LEMMA PromiseQuiet ==
  ASSUME Sound,
         \/ UNCHANGED vars \/ PollIn \/ Send \/ Start \/ StartFails
         \/ \E c \in Clients : Poll(c) \/ PollError(c) \/ Take(c) \/ Recv(c)
  PROVE  UNCHANGED Promise!vars
<1>1. UNCHANGED <<client, session, number, cmd, got, runs, result, region>>
  BY DEF vars, clientvars, servervars, history, PollIn, Send, Start, StartFails, Poll, PollError,
         Take, Recv
<1>2. Outstanding' = Outstanding
  <2>1. CASE UNCHANGED <<pipe, phase, inbox, cur>>
    BY <2>1 DEF Outstanding, Unserved
  <2>2. CASE UNCHANGED vars \/ Start \/ StartFails \/ \E c \in Clients : Poll(c) \/ PollError(c)
    BY <2>1, <2>2 DEF vars, servervars, Start, StartFails, Poll, PollError
  <2>3. CASE PollIn \/ Send
    BY <2>3 DEF PollIn, Send, Outstanding, Unserved
  <2>4. ASSUME NEW c \in Clients, Take(c)
        PROVE  Outstanding' = Outstanding
    <3> PICK q \in pipe[c] : /\ inbox' = inbox \cup {q}
                             /\ pipe' = [pipe EXCEPT ![c] = @ \ {q}]
      BY <2>4 DEF Take
    <3>1. UNCHANGED <<phase, cur>>
      BY <2>4 DEF Take
    <3>2. Unserved' = Unserved \cup {q}
      BY <3>1 DEF Unserved
    <3>3. (UNION {pipe[d] : d \in Clients}) \cup {q} =
            (UNION {pipe[d] : d \in Clients})' \cup {q}
      BY DEF Sound, TypeOK
    <3>4. q \in UNION {pipe[d] : d \in Clients}
      OBVIOUS
    <3> QED
      BY <3>2, <3>3, <3>4 DEF Outstanding
  <2>5. ASSUME NEW c \in Clients, Recv(c)
        PROVE  Outstanding' = Outstanding
    BY <2>5 DEF Recv, Outstanding, Unserved
  <2> QED
    BY <2>2, <2>3, <2>4, <2>5
<1>3. State' = State /\ Op' = Op /\ \A r : Awaited(r)' <=> Awaited(r)
  BY <1>1 DEF State, Op, Runs, Current, Numbered, Awaited
<1>4. Abandoned' = Abandoned
  BY <1>2, <1>3 DEF Abandoned
<1> QED
  BY <1>1, <1>3, <1>4 DEF Promise!vars, State, Op, Abandoned, Outstanding

\* The client class and the server loop implement the promise of RpcSpec, for
\* any number of clients, polls, calls, processes and restarts.
THEOREM PromiseKept == Spec => KeepsPromise
<1>1. Init => Promise!Init
  <2> SUFFICES ASSUME Init PROVE Promise!Init
    OBVIOUS
  <2>1. State = [c \in Clients |-> "ready"]
    BY DEF Init, State
  <2>2. Op \in [Clients -> Request]
    BY CurrentType, TypeInit DEF Op
  <2>3. Abandoned = {}
    BY DEF Init, Abandoned, Outstanding, Unserved
  <2> QED
    BY <2>1, <2>2, <2>3 DEF Init, Promise!Init, State, Op, Abandoned, Outstanding
<1>2. Sound /\ Sound' /\ [Next]_vars => [Promise!Next]_(Promise!vars)
  <2> SUFFICES ASSUME Sound, Sound', [Next]_vars
               PROVE  Promise!Next \/ UNCHANGED Promise!vars
    OBVIOUS
  <2>1. ASSUME NEW c \in Clients, Call(c) \/ Return(c) \/ GiveUp(c) \/ Rejoin(c)
        PROVE  Promise!Next
    BY <2>1, PromiseCall, PromiseReturn, PromiseGiveUp, PromiseRejoin DEF Promise!Next
  <2>2. CASE Execute \/ Exit
    BY <2>2, PromiseExecute, PromiseExit DEF Promise!Next
  <2> QED
    BY <2>1, <2>2, PromiseQuiet DEF Next, Client, Server
<1>3. Spec => []Sound
  BY OneAtATime, TypeCorrect, LockstepKept, InServiceKept, PTL DEF Sound
<1> QED
  BY <1>1, <1>2, <1>3, PTL DEF Spec, KeepsPromise, Promise!Spec
=============================================================================
