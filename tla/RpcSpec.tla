------------------------------ MODULE RpcSpec -------------------------------
(* What the RPC layer promises its callers: a call is executed at most once, *)
(* at one instant between its start and its end, and the value it returns is *)
(* the one computed then.  A caller that gives up may leave its call behind, *)
(* to be executed later or never; a restart of the server empties the region.*)
CONSTANTS Clients, Requests,
          After(_, _),   \* the region after a request to it
          Answer(_, _)   \* what the request returns
VARIABLES state,      \* of each client: "ready", "called", "answered", "gone"
          op,         \* its last call
          result,     \* what the execution of that call computed
          got,        \* what its last returned call returned
          region,     \* the write the region derives from
          abandoned   \* calls left behind

vars == <<state, op, result, got, region, abandoned>>

Init ==
  /\ state = [c \in Clients |-> "ready"]
  /\ op \in [Clients -> Requests]
  /\ result = [c \in Clients |-> {}]
  /\ got = [c \in Clients |-> {}]
  /\ region = {} /\ abandoned = {}

Call(c) ==
  /\ state[c] = "ready"
  /\ state' = [state EXCEPT ![c] = "called"]
  /\ \E r \in Requests : op' = [op EXCEPT ![c] = r]
  /\ result' = [result EXCEPT ![c] = {}]
  /\ UNCHANGED <<got, region, abandoned>>

Execute(c) ==
  /\ state[c] = "called"
  /\ state' = [state EXCEPT ![c] = "answered"]
  /\ region' = After(region, op[c])
  /\ result' = [result EXCEPT ![c] = Answer(region, op[c])]
  /\ UNCHANGED <<op, got, abandoned>>

Return(c) ==
  /\ state[c] = "answered"
  /\ state' = [state EXCEPT ![c] = "ready"]
  /\ got' = [got EXCEPT ![c] = result[c]]
  /\ UNCHANGED <<op, result, region, abandoned>>

GiveUp(c) ==
  /\ state[c] \in {"called", "answered"}
  /\ state' = [state EXCEPT ![c] = "gone"]
  /\ \/ UNCHANGED abandoned
     \/ state[c] = "called" /\ abandoned' = abandoned \cup {op[c]}
  /\ UNCHANGED <<op, result, got, region>>

ExecuteAbandoned ==
  /\ \E r \in abandoned : /\ abandoned' = abandoned \ {r}
                          /\ region' = After(region, r)
  /\ UNCHANGED <<state, op, result, got>>

Rejoin(c) ==
  /\ state[c] = "gone"
  /\ state' = [state EXCEPT ![c] = "ready"]
  /\ \E r \in Requests : op' = [op EXCEPT ![c] = r]
  /\ abandoned' \in SUBSET abandoned
  /\ UNCHANGED <<result, got, region>>

Restart ==
  /\ region' = {} /\ abandoned' \in SUBSET abandoned
  /\ UNCHANGED <<state, op, result, got>>

Next == \/ \E c \in Clients : Call(c) \/ Execute(c) \/ Return(c) \/ GiveUp(c) \/ Rejoin(c)
        \/ ExecuteAbandoned \/ Restart
Spec == Init /\ [][Next]_vars
=============================================================================
