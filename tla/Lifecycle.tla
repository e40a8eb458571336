----------------------------- MODULE Lifecycle ------------------------------
(***************************************************************************)
(* The life of client connections: the socket thread, the gate, the        *)
(* launcher, the watchdog and the agents composed.  Only the watchdog's    *)
(* CMD.close has no caller in the repository; the constant CmdClose says   *)
(* for which connections some service calls it.                            *)
(***************************************************************************)
EXTENDS Gate, Launcher, Watchdog, Agent

CONSTANT CmdClose   \* bound: the connections CMD.close is called for, once

VARIABLE asked      \* the ones it was called for

vars == <<queue, svc, socketVars, gateVars, launcherVars, watchdogVars,
          agentVars, asked>>

ASSUME CmdCloseAssumption == CmdClose \subseteq Fds

Init ==
  /\ SkynetInit /\ SocketInit /\ GateInit /\ LauncherInit /\ WatchdogInit
  /\ AgentInit
  /\ asked = {}

-----------------------------------------------------------------------------
\* The steps of each component, leaving the others alone.

SocketControl ==
  /\ \E fd \in Fds : start_socket(fd) \/ close_socket(fd)
  /\ UNCHANGED <<svc, gateVars, launcherVars, watchdogVars, agentVars, asked>>

\* What only the peer decides: to connect, to send, to go away.
Peer ==
  /\ \E fd \in Fds :
       \/ report_accept(fd)
       \/ forward_message(fd)
       \/ \E t \in {"close", "error"} : force_close(fd, t)
  /\ UNCHANGED <<svc, gateVars, launcherVars, watchdogVars, agentVars, asked>>

GateStep ==
  /\ \E fd \in Fds :
       \/ MSG_open(fd)
       \/ \E t \in {"close", "error"} : MSG_close(fd, t)
       \/ dispatch_msg(fd)
       \/ CMD_forward(fd)
       \/ CMD_kick(fd)
  /\ UNCHANGED <<svc, launcherVars, watchdogVars, agentVars, asked>>

LauncherStep ==
  /\ \/ \E fd \in Fds : LAUNCH(fd)
     \/ \E t \in {"LAUNCHOK", "ERROR", "REMOVE"} : report(t)
  /\ UNCHANGED <<socketVars, gateVars, watchdogVars, agentVars, asked>>

WatchdogStep ==
  /\ \E fd \in Fds :
       \/ SOCKET_open(fd)
       \/ SOCKET_open_launched(fd)
       \/ \E t \in {"started", "startfailed", "launchfailed"} :
            SOCKET_open_ends(fd, t)
       \/ \E t \in {"close", "error", "cmdclose"} : close_agent(fd, t)
       \/ close_agent_kicked(fd)
  /\ UNCHANGED <<svc, socketVars, gateVars, launcherVars, agentVars, asked>>

AgentInitStep(a) ==
  /\ \E ok \in BOOLEAN : init_service(a, ok)
  /\ UNCHANGED <<socketVars, gateVars, watchdogVars, agentVars, asked>>

AgentStep(a) ==
  /\ svc[a] = "ready"
  /\ \/ \E fd \in Fds :
          \/ CMD_start(a, fd)
          \/ \E t \in {"forwarded", "forwardfailed"} : CMD_start_ends(a, fd, t)
          \/ client_dispatch(a, fd)
     \/ CMD_disconnect(a)
  /\ UNCHANGED <<socketVars, gateVars, launcherVars, watchdogVars, asked>>

\* Some service asks the watchdog to close a connection it was told of.
CMD_close ==
  /\ \E fd \in CmdClose \ asked :
       /\ opening[fd] # "none"
       /\ asked' = asked \cup {fd}
       /\ queue' = Post(queue, "watchdog", Msg("cmdclose", fd, Nil))
  /\ UNCHANGED <<svc, socketVars, gateVars, launcherVars, watchdogVars,
                 agentVars>>

Next ==
  \/ SocketControl \/ Peer
  \/ GateStep \/ LauncherStep \/ WatchdogStep
  \/ \E a \in Agents : AgentInitStep(a) \/ AgentStep(a)
  \/ CMD_close

Spec == Init /\ [][Next]_vars

\* skynet's worker threads visit every non-empty queue again and again, and
\* the socket thread reads its control pipe; nothing forces a peer to act.
Fairness ==
  /\ WF_vars(SocketControl)
  /\ WF_vars(GateStep) /\ WF_vars(LauncherStep) /\ WF_vars(WatchdogStep)
  /\ \A a \in Agents : WF_vars(AgentInitStep(a)) /\ WF_vars(AgentStep(a))

FairSpec == Spec /\ Fairness
-----------------------------------------------------------------------------
\* Every variable has the type the source gives it.
TypeOK ==
  /\ queue \in [Services \cup Agents -> Seq(Messages)]
  /\ svc \in [Agents -> {"none", "init", "ready", "dead"}]
  /\ SocketTypeOK /\ GateTypeOK /\ LauncherTypeOK /\ WatchdogTypeOK
  /\ AgentTypeOK
  /\ asked \in SUBSET CmdClose

Connected == {fd \in Fds : gsConn[fd] # "nil"}

\* gateserver's client_number is the number of connections it holds, and
\* never more than maxclient, although closing a connection twice, kicking
\* it while the peer closes it and refusing it all end in MSG.close.
ClientsCounted ==
  /\ client_number = Cardinality(Connected)
  /\ client_number <= MaxClient

\* The two connection tables of the gate have the same keys, and forwarding
\* is the inverse of the agent fields (gate.lua:7 "agent -> connection").
TablesAgree ==
  /\ connection = Connected
  /\ \A fd \in Fds : cagent[fd] # Nil => fd \in connection
  /\ \A fd \in Fds, a \in Agents : forwarding[a] = fd <=> cagent[fd] = a

\* The socket thread is asked to start a socket only while that socket waits
\* for it, and never behind a request to close it: gateserver.openclient
\* finds the false entry of a connection that was kicked while its agent was
\* launched, although the socket itself is closed only later.
StartsComeFirst ==
  \A i \in 1..Len(ctrl) :
    ctrl[i].op = "start" =>
      /\ sock[ctrl[i].fd] = "paccept"
      /\ \A k \in 1..(i - 1) : ctrl[k].fd # ctrl[i].fd

\* A packet is only ever handed to the agent that was launched for its
\* connection, after CMD.start gave that agent its client_fd.
RoutedHome ==
  \A a \in Agents : \A i \in 1..Len(queue[a]) :
    queue[a][i].type = "client" =>
      client_fd[a] = queue[a][i].fd /\ owner[a] = queue[a][i].fd

\* No packet ends in SOCKET.data, which would drop it: a socket is started
\* only after its agent is known to the gate.
NoPacketToWatchdog ==
  \A i \in 1..Len(queue["watchdog"]) : queue["watchdog"][i].type # "data"

\* Nothing is left for any service or for the socket thread to do.
AtRest ==
  /\ \A s \in Services \cup Agents : queue[s] = <<>>
  /\ ctrl = <<>>
  /\ \A a \in Agents : svc[a] # "init"

\* No coroutine waits for an answer that nobody is going to send: SOCKET.open,
\* close_agent and CMD.start all got theirs when nothing is left to do.
NobodyWaitsAtRest ==
  AtRest =>
    /\ \A fd \in Fds : opening[fd] \notin {"launching", "starting"}
    /\ \A fd \in Fds : kicking[fd] = Nil
    /\ \A a \in Agents : svc[a] = "ready" => starting[a] = "done"
    /\ instance = {}

\* When nothing is left to do, the five components agree on every connection:
\* it is open everywhere with one agent forwarding it, or it is gone
\* everywhere and no agent of it is left; the only entries without an agent
\* belong to a socket still sending its last output and to a connection
\* whose agent could not be launched.
AgreedAtRest ==
  AtRest =>
    \A fd \in Fds :
      LET alive == {a \in Agents : svc[a] = "ready" /\ owner[a] = fd} IN
      \/ /\ gsConn[fd] = "true" /\ sock[fd] = "connected"
         /\ alive = {agent[fd]} /\ cagent[fd] = agent[fd]
         /\ agent[fd] \in services
      \/ /\ gsConn[fd] = "nil" /\ sock[fd] \in {"unused", "invalid"}
         /\ alive = {} /\ agent[fd] = Nil
      \/ /\ gsConn[fd] = "false" /\ sock[fd] = "halfclose"
         /\ alive = {} /\ agent[fd] = Nil
      \/ /\ gsConn[fd] = "true" /\ sock[fd] = "paccept"
         /\ alive = {} /\ agent[fd] = Nil /\ opening[fd] = "failed"

\* Unless CMD.close is called, an agent is told to disconnect only after its
\* CMD.start ended: the gate answers "forward" before it can report a close,
\* so skynet.exit never cuts the watchdog's call of "start" short.
StartEndsBeforeDisconnect ==
  \A a \in Agents :
    CmdClose = {} /\ svc[a] = "dead" => starting[a] # "forwarding"

\* Once the socket of a connection is gone, its entries in the gate and in
\* the watchdog go away and its agent exits.
ClosedIsReclaimed ==
  \A fd \in Fds :
    sock[fd] = "invalid" ~>
      /\ gsConn[fd] = "nil" /\ agent[fd] = Nil
      /\ \A a \in Agents : owner[a] = fd => svc[a] = "dead" /\ a \notin services

\* SOCKET.open comes to an end, with or without an agent.
OpenEnds ==
  \A fd \in Fds :
    opening[fd] \in {"launching", "starting"} ~> opening[fd] \in {"done", "failed"}
=============================================================================
