------------------------------- MODULE Agent --------------------------------
(***************************************************************************)
(* The life of an owlies_agent service: CMD.start waits for the gate to    *)
(* forward the connection, client messages are handled, and                *)
(* CMD.disconnect ends the service.  What the agent does with a client     *)
(* message is the subject of modules AgentDispatch and ApiSession.         *)
(***************************************************************************)
EXTENDS Skynet

VARIABLES
  client_fd,    \* client_fd[a]: the global of agent a
  starting      \* starting[a]: where a's coroutine of CMD.start is

agentVars == <<client_fd, starting>>

AgentInit ==
  /\ client_fd = [a \in Agents |-> Nil]
  /\ starting = [a \in Agents |-> "none"]

\* Mutant: client_fd is assigned only after the call of "forward".
CMD_start_LateFd(a, fd) ==
  /\ Incoming(a, "start", fd)
  /\ starting' = [starting EXCEPT ![a] = "forwarding"]
  /\ queue' = Post(Taken(a), "gate", Msg("forward", fd, a))
  /\ UNCHANGED <<client_fd, svc>>

\* CMD.start up to the wait for "forward".
CMD_start(a, fd) ==
  /\ Incoming(a, "start", fd)
  /\ client_fd' = [client_fd EXCEPT ![a] = fd]
  /\ starting' = [starting EXCEPT ![a] = "forwarding"]
  /\ queue' = Post(Taken(a), "gate", Msg("forward", fd, a))
  /\ UNCHANGED svc

\* The end of CMD.start: the watchdog gets the answer, or the error.
CMD_start_ends(a, fd, t) ==
  /\ t \in {"forwarded", "forwardfailed"}
  /\ Incoming(a, t, fd)
  /\ starting' = [starting EXCEPT ![a] = "done"]
  /\ queue' = Post(Taken(a), "watchdog",
                   Msg(IF t = "forwarded" THEN "started" ELSE "startfailed",
                       fd, a))
  /\ UNCHANGED <<client_fd, svc>>

\* A client message reaches the agent.
client_dispatch(a, fd) ==
  /\ Incoming(a, "client", fd)
  /\ queue' = Taken(a)
  /\ UNCHANGED <<agentVars, svc>>

\* Mutant: exiting leaves the callers of the service waiting.
CMD_disconnect_Silent(a) ==
  LET emptied == [queue EXCEPT ![a] = <<>>] IN
  /\ Incoming(a, "disconnect", Nil)
  /\ svc' = [svc EXCEPT ![a] = "dead"]
  /\ queue' = Post(emptied, "launcher", Msg("REMOVE", Nil, a))
  /\ UNCHANGED agentVars

\* CMD.disconnect with skynet.exit: the launcher is told, a caller still
\* waiting for an answer gets an error, and what is left in the queue is lost.
CMD_disconnect(a) ==
  LET emptied == [queue EXCEPT ![a] = <<>>]
      removed == Post(emptied, "launcher", Msg("REMOVE", Nil, a))
  IN
  /\ Incoming(a, "disconnect", Nil)
  /\ svc' = [svc EXCEPT ![a] = "dead"]
  /\ queue' = IF starting[a] = "forwarding"
                THEN Post(removed, "watchdog",
                          Msg("startfailed", client_fd[a], a))
                ELSE removed
  /\ UNCHANGED agentVars

AgentTypeOK ==
  /\ client_fd \in [Agents -> Fds \cup {Nil}]
  /\ starting \in [Agents -> {"none", "forwarding", "done"}]
=============================================================================
