---------------------------- MODULE AgentDispatch ---------------------------
(***************************************************************************)
(* The "client" protocol of owlies_agent: unpack and dispatch of a client  *)
(* message, the call of owlies_api and what the agent makes of the answer. *)
(***************************************************************************)
EXTENDS Calls

VARIABLES
  call,       \* call[j]: where the agent's coroutine of job j is
  replies     \* replies[fd]: the jobs whose response was written to fd, in order

agentVars == <<call, replies>>

DispatchInit ==
  /\ call = [j \in Jobs |-> "none"]
  /\ replies = [fd \in Fds |-> <<>>]

\* The next message of j's agent is what, for j.
Delivered(j, what) ==
  /\ j[1] \in alive
  /\ agentQ[j[1]] # <<>> /\ Head(agentQ[j[1]]) = Entry(what, j)
  /\ agentQ' = [agentQ EXCEPT ![j[1]] = Tail(@)]

Ask(j, what) == apiQ' = Append(apiQ, Entry(what, j))

\* deserialize raises and the message is lost: no sproto has its name, or the
\* bytes that follow the name in unpackMessage's buffer, which is not
\* initialised and gets no terminator, were not zero.
unpack_raises(j) ==
  /\ Delivered(j, "client")
  /\ call' = [call EXCEPT ![j] = "lost"]
  /\ UNCHANGED <<sent, alive, apiQ, dataQ, replies>>

\* dispatch up to the first skynet.call: the type of the message chooses the
\* command, and an unknown type is a failure at once.
dispatch(j) ==
  LET t == Message(j).type IN
  /\ Delivered(j, "client")
  /\ Message(j).name # "unknown"
  /\ CASE t = ChangeEvent ->
            /\ Ask(j, "receivedApiCall")
            /\ call' = [call EXCEPT ![j] = "waiting"]
       [] t = ApiCall ->
            /\ Ask(j, "receivedChangeEvent")
            /\ call' = [call EXCEPT ![j] = "waiting"]
       [] OTHER ->
            /\ Ask(j, "syncError")
            /\ call' = [call EXCEPT ![j] = "syncing"]
  /\ UNCHANGED <<sent, alive, dataQ, replies>>

\* owlies_api answered: a failure leads to the call of syncError, nil to
\* nothing, and send_package raises on anything that is not a string.
dispatch_answered(j, what) ==
  /\ what \in {"error", "nil", "true", "false", "package"}
  /\ Delivered(j, what)
  /\ call' = [call EXCEPT ![j] = CASE what = "error" -> "syncing"
                                   [] what = "nil" -> "ended"
                                   [] what = "package" -> "replied"
                                   [] OTHER -> "raised"]
  /\ IF what = "error" THEN Ask(j, "syncError") ELSE UNCHANGED apiQ
  /\ replies' = IF what = "package"
                  THEN [replies EXCEPT ![j[1]] = Append(@, j[2])]
                  ELSE replies
  /\ UNCHANGED <<sent, alive, dataQ>>

\* The agent exits (CMD.disconnect): its coroutines and its queue are gone.
disconnect(fd) ==
  /\ fd \in alive
  /\ alive' = alive \ {fd}
  /\ agentQ' = [agentQ EXCEPT ![fd] = <<>>]
  /\ UNCHANGED <<sent, apiQ, dataQ, call, replies>>

AgentStep(j) ==
  \/ unpack_raises(j)
  \/ dispatch(j)
  \/ \E what \in {"error", "nil", "true", "false", "package"} :
       dispatch_answered(j, what)
=============================================================================
