--------------------------- MODULE LifecycleTypes ---------------------------
(***************************************************************************)
(* Proofs about Lifecycle, for any number of sockets, agents, clients and  *)
(* packets.  The argument is in four layers, each inductive on top of the  *)
(* ones before it: types, here; which messages can be in which queue, in   *)
(* LifecycleProofs; what a connection looks like before it is started, in  *)
(* GateStart; and the tables and the counter of the gate, in GateProofs.   *)
(***************************************************************************)
EXTENDS Lifecycle, Integers, TLAPS

-----------------------------------------------------------------------------
(* Sequences.                                                              *)

LEMMA EmptyInSeq ==
  ASSUME NEW S
  PROVE  <<>> \in Seq(S)
OBVIOUS

LEMMA AppendInSeq ==
  ASSUME NEW S, NEW q \in Seq(S), NEW m \in S
  PROVE  Append(q, m) \in Seq(S)
OBVIOUS

LEMMA HeadAndTail ==
  ASSUME NEW S, NEW q \in Seq(S), q # <<>>
  PROVE  Head(q) \in S /\ Tail(q) \in Seq(S)
OBVIOUS

LEMMA ElementInSet ==
  ASSUME NEW S, NEW q \in Seq(S), NEW i \in 1..Len(q)
  PROVE  q[i] \in S
OBVIOUS

LEMMA WiderSeq ==
  ASSUME NEW S, NEW T, S \subseteq T, NEW q \in Seq(S)
  PROVE  q \in Seq(T)
<1>1. /\ Len(q) \in Nat /\ q \in [1..Len(q) -> S]
      /\ \A i \in 1..Len(q) : q[i] \in T
  OBVIOUS
<1>2. q \in [1..Len(q) -> T]
  BY <1>1
<1>. QED  BY <1>1, <1>2

-----------------------------------------------------------------------------
(* Queues.                                                                 *)

Names == Services \cup Agents

\* The queues that hold, for each service s, only messages of W[s].
Queues(W) == {q \in [Names -> Seq(Messages)] : \A s \in Names : q[s] \in Seq(W[s])}

\* A message allowed for its destination keeps the queues allowed.
LEMMA PostQueues ==
  ASSUME NEW W \in [Names -> SUBSET Messages], NEW q \in Queues(W), NEW s,
         NEW m, s \in Names => m \in W[s]
  PROVE  Post(q, s, m) \in Queues(W)
<1>1. CASE s \in Names
  <2>1. Append(q[s], m) \in Seq(W[s]) /\ Append(q[s], m) \in Seq(Messages)
    BY <1>1, AppendInSeq DEF Queues
  <2>. QED  BY ZenonT(60), <2>1, <1>1 DEF Queues, Post
<1>2. CASE s \notin Names
  BY ZenonT(60), <1>2 DEF Queues, Post
<1>. QED  BY <1>1, <1>2

\* Taking the next message keeps the queues allowed.
LEMMA TakenQueues ==
  ASSUME NEW W \in [Names -> SUBSET Messages], queue \in Queues(W),
         NEW s \in Names, queue[s] # <<>>
  PROVE  /\ Taken(s) \in Queues(W)
         /\ Head(queue[s]) \in W[s]
         /\ Head(queue[s]) \in Messages
<1>1. /\ Tail(queue[s]) \in Seq(W[s])
      /\ Tail(queue[s]) \in Seq(Messages)
      /\ Head(queue[s]) \in W[s]
  BY HeadAndTail DEF Queues
<1>. QED  BY ZenonT(60), <1>1 DEF Queues, Taken

\* Allowing more messages keeps the queues allowed.
LEMMA WiderQueues ==
  ASSUME NEW W \in [Names -> SUBSET Messages], NEW V \in [Names -> SUBSET Messages],
         \A s \in Names : W[s] \subseteq V[s], NEW q \in Queues(W)
  PROVE  q \in Queues(V)
BY WiderSeq DEF Queues

-----------------------------------------------------------------------------
(* Layer 1: types.                                                         *)

Any == [s \in Names |-> Messages]

\* All of TypeOK except that client_number is not negative, which needs
\* the count of the connections.
Types ==
  /\ queue \in Queues(Any)
  /\ svc \in [Agents -> {"none", "init", "ready", "dead"}]
  /\ SocketTypeOK
  /\ gsConn \in [Fds -> {"nil", "true", "false"}]
  /\ client_number \in Int
  /\ connection \in SUBSET Fds
  /\ cagent \in [Fds -> Agents \cup {Nil}]
  /\ forwarding \in [Agents -> Fds \cup {Nil}]
  /\ LauncherTypeOK /\ WatchdogTypeOK /\ AgentTypeOK
  /\ asked \in SUBSET CmdClose

LEMMA AnyIsTyping == Any \in [Names -> SUBSET Messages] /\ \A s \in Names : Any[s] = Messages
BY DEF Any

LEMMA MsgType ==
  ASSUME NEW t \in MsgTypes, NEW fd \in Fds \cup {Nil}, NEW a \in Agents \cup {Nil}
  PROVE  Msg(t, fd, a) \in Messages
BY DEF Msg, Messages

LEMMA PostAny ==
  ASSUME NEW q \in Queues(Any), NEW s, NEW m \in Messages
  PROVE  Post(q, s, m) \in Queues(Any)
BY PostQueues, AnyIsTyping

LEMMA TakenAny ==
  ASSUME queue \in Queues(Any), NEW s \in Names, queue[s] # <<>>
  PROVE  /\ Taken(s) \in Queues(Any)
         /\ Head(queue[s]).type \in MsgTypes
         /\ Head(queue[s]).fd \in Fds \cup {Nil}
         /\ Head(queue[s]).agent \in Agents \cup {Nil}
<1>1. Head(queue[s]) \in Messages /\ Taken(s) \in Queues(Any)
  BY TakenQueues, AnyIsTyping
<1>. QED  BY <1>1 DEF Messages

LEMMA TypesInit == Init => Types
<1>. SUFFICES ASSUME Init PROVE Types
  OBVIOUS
<1>1. queue \in Queues(Any)
  BY ZenonT(60), EmptyInSeq, AnyIsTyping DEF Init, SkynetInit, Queues, Names
<1>. QED
  BY <1>1, TrafficAssumption DEF Init, SkynetInit, SocketInit, GateInit, LauncherInit, WatchdogInit,
     AgentInit, Types, SocketTypeOK, SockTypes, LauncherTypeOK, WatchdogTypeOK, AgentTypeOK

LEMMA TypesSocket ==
  ASSUME Types, SocketControl \/ Peer
  PROVE  Types'
<1>. USE DEF Types, SocketTypeOK, SockTypes
<1>q. ASSUME NEW fd \in Fds, NEW t \in {"open", "data", "close", "error"}
      PROVE  ToGate(t, fd) \in Queues(Any)
  BY <1>q, PostAny, MsgType DEF ToGate, MsgTypes
<1>t. ASSUME NEW fd \in Fds, ctrl # <<>>
      PROVE  Tail(ctrl) \in Seq(CtrlRequests)
  BY <1>t, HeadAndTail
<1>u. UNCHANGED <<svc, gateVars, launcherVars, watchdogVars, agentVars, asked>>
  BY DEF SocketControl, Peer
<1>1. ASSUME NEW fd \in Fds, start_socket(fd)  PROVE Types'
  <2>1. queue' \in Queues(Any)
    BY <1>1, <1>q DEF start_socket
  <2>2. sock' \in [Fds -> SockTypes]
    BY ZenonT(60), <1>1 DEF start_socket
  <2>3. ctrl' \in Seq(CtrlRequests) /\ traffic' = traffic
    BY <1>1, <1>t DEF start_socket
  <2>. QED
    BY <2>1, <2>2, <2>3, <1>u DEF gateVars, launcherVars, watchdogVars, agentVars,
       LauncherTypeOK, WatchdogTypeOK, AgentTypeOK
<1>2. ASSUME NEW fd \in Fds, close_socket(fd)  PROVE Types'
  <2>1. queue' \in Queues(Any)
    BY <1>2, <1>q DEF close_socket
  <2>2. sock' \in [Fds -> SockTypes]
    BY SMTT(40), <1>2 DEF close_socket
  <2>3. ctrl' \in Seq(CtrlRequests) /\ traffic' = traffic
    BY <1>2, <1>t DEF close_socket
  <2>. QED
    BY <2>1, <2>2, <2>3, <1>u DEF gateVars, launcherVars, watchdogVars, agentVars,
       LauncherTypeOK, WatchdogTypeOK, AgentTypeOK
<1>3. ASSUME NEW fd \in Fds, report_accept(fd)  PROVE Types'
  BY <1>3, <1>q, <1>u DEF report_accept, gateVars, launcherVars, watchdogVars, agentVars,
     LauncherTypeOK, WatchdogTypeOK, AgentTypeOK
<1>4. ASSUME NEW fd \in Fds, NEW t, forward_message(fd)  PROVE Types'
  BY <1>4, <1>q, <1>u, TrafficAssumption DEF forward_message, gateVars, launcherVars, watchdogVars,
     agentVars, LauncherTypeOK, WatchdogTypeOK, AgentTypeOK
<1>5. ASSUME NEW fd \in Fds, NEW t, force_close(fd, t)  PROVE Types'
  BY <1>5, <1>q, <1>u DEF force_close, gateVars, launcherVars, watchdogVars, agentVars,
     LauncherTypeOK, WatchdogTypeOK, AgentTypeOK
<1>. QED  BY <1>1, <1>2, <1>3, <1>4, <1>5 DEF SocketControl, Peer

LEMMA TypesGate ==
  ASSUME Types, GateStep
  PROVE  Types'
<1>. USE DEF Types, SocketTypeOK
<1>g. "gate" \in Names
  BY DEF Names, Services
<1>p. ASSUME queue["gate"] # <<>>, NEW s, NEW fd \in Fds,
             NEW t \in {"open", "close", "error", "client", "data", "forwarded",
                        "forwardfailed", "kicked"}
      PROVE  Post(Taken("gate"), s, Msg(t, fd, Nil)) \in Queues(Any)
  BY <1>p, <1>g, PostAny, TakenAny, MsgType DEF MsgTypes
<1>h. ASSUME queue["gate"] # <<>>
      PROVE  Taken("gate") \in Queues(Any) /\ Head(queue["gate"]).agent \in Agents \cup {Nil}
  BY <1>h, <1>g, TakenAny
<1>r. ASSUME NEW fd \in Fds, NEW op \in {"start", "close"}
      PROVE  Request(op, fd) \in Seq(CtrlRequests)
  BY AppendInSeq DEF Request, CtrlRequests
<1>f. ASSUME NEW fd \in Fds  PROVE unforward(fd) \in [Agents -> Fds \cup {Nil}]
  BY DEF unforward
<1>u. UNCHANGED <<svc, launcherVars, watchdogVars, agentVars, asked>>
  BY DEF GateStep
<1>v. LauncherTypeOK' /\ WatchdogTypeOK' /\ AgentTypeOK'
  BY <1>u DEF launcherVars, watchdogVars, agentVars, LauncherTypeOK, WatchdogTypeOK, AgentTypeOK
<1>1. ASSUME NEW fd \in Fds, MSG_open(fd)  PROVE Types'
  <2>1. queue' \in Queues(Any) /\ ctrl' \in Seq(CtrlRequests)
    BY <1>1, <1>p, <1>h, <1>r DEF MSG_open, Incoming
  <2>2. /\ gsConn' \in [Fds -> {"nil", "true", "false"}]
        /\ client_number' \in Int
        /\ connection' \in SUBSET Fds
        /\ UNCHANGED <<cagent, forwarding, sock, traffic>>
    <3>1. CASE client_number >= MaxClient
      BY <1>1, <3>1 DEF MSG_open, gateVars
    <3>2. CASE ~(client_number >= MaxClient)
      <4>1. /\ gsConn' = [gsConn EXCEPT ![fd] = "true"]
            /\ client_number' = client_number + 1
            /\ connection' = connection \cup {fd}
            /\ UNCHANGED <<cagent, forwarding, sock, traffic>>
        BY <1>1, <3>2 DEF MSG_open
      <4>. QED  BY <4>1
    <3>. QED  BY <3>1, <3>2
  <2>. QED  BY <2>1, <2>2, <1>u, <1>v
<1>2. ASSUME NEW fd \in Fds, NEW t, MSG_close(fd, t)  PROVE Types'
  BY SMTT(40), <1>2, <1>p, <1>f, <1>u, <1>v DEF MSG_close, close_fd, Incoming, socketVars
<1>3. ASSUME NEW fd \in Fds, dispatch_msg(fd)  PROVE Types'
  BY <1>3, <1>p, <1>h, <1>u, <1>v DEF dispatch_msg, Incoming, gateVars, socketVars
<1>5. ASSUME NEW fd \in Fds, CMD_forward(fd)  PROVE Types'
  <2>1. queue' \in Queues(Any) /\ ctrl' \in Seq(CtrlRequests)
    <3>1. queue["gate"] # <<>>
      BY <1>5 DEF CMD_forward, Incoming
    <3>2. \E t \in {"forwarded", "forwardfailed"} :
            queue' = Post(Taken("gate"), Head(queue["gate"]).agent, Msg(t, fd, Nil))
      BY <1>5 DEF CMD_forward
    <3>3. ctrl' = Request("start", fd) \/ ctrl' = ctrl
      BY <1>5 DEF CMD_forward
    <3>. QED  BY <3>1, <3>2, <3>3, <1>p, <1>r
  <2>2. cagent' \in [Fds -> Agents \cup {Nil}] /\ forwarding' \in [Agents -> Fds \cup {Nil}]
    BY ZenonT(60), <1>5, <1>h, <1>f DEF CMD_forward, Incoming
  <2>. QED  BY <1>5, <2>1, <2>2, <1>u, <1>v DEF CMD_forward
<1>6. ASSUME NEW fd \in Fds, CMD_kick(fd)  PROVE Types'
  <2>1. queue' \in Queues(Any) /\ ctrl' \in Seq(CtrlRequests)
    BY <1>6, <1>p, <1>r DEF CMD_kick, Incoming
  <2>2. /\ gsConn' \in [Fds -> {"nil", "true", "false"}]
        /\ UNCHANGED <<client_number, connection, cagent, forwarding, sock, traffic>>
    BY ZenonT(60), <1>6 DEF CMD_kick
  <2>. QED  BY <2>1, <2>2, <1>u, <1>v
<1>. QED  BY <1>1, <1>2, <1>3, <1>5, <1>6 DEF GateStep

LEMMA TypesLauncher ==
  ASSUME Types, LauncherStep
  PROVE  Types'
<1>. USE DEF Types, LauncherTypeOK
<1>h. ASSUME queue["launcher"] # <<>>
      PROVE  /\ Taken("launcher") \in Queues(Any)
             /\ Head(queue["launcher"]).agent \in Agents \cup {Nil}
  BY <1>h, TakenAny DEF Names, Services
<1>p. ASSUME queue["launcher"] # <<>>, NEW fd \in Fds \cup {Nil}, NEW a \in Agents \cup {Nil},
             NEW t \in {"launched", "launchfailed"}
      PROVE  Post(Taken("launcher"), "watchdog", Msg(t, fd, a)) \in Queues(Any)
  BY ZenonT(60), <1>p, <1>h, PostAny, MsgType DEF MsgTypes
<1>u. UNCHANGED <<socketVars, gateVars, watchdogVars, agentVars, asked>>
  BY DEF LauncherStep
<1>v. SocketTypeOK' /\ WatchdogTypeOK' /\ AgentTypeOK'
  BY <1>u DEF socketVars, watchdogVars, agentVars, SocketTypeOK, WatchdogTypeOK, AgentTypeOK
<1>1. ASSUME NEW fd \in Fds, LAUNCH(fd)  PROVE Types'
  BY SMTT(40), <1>1, <1>h, <1>p, <1>u, <1>v DEF LAUNCH, Incoming, gateVars, launcherVars
<1>2. ASSUME NEW t, report(t)  PROVE Types'
  <2>. DEFINE a == Head(queue["launcher"]).agent
  <2>1. CASE a \in instance
    BY ZenonT(60), <1>2, <2>1, <1>h, <1>p, <1>u, <1>v DEF report, Incoming, gateVars
  <2>2. CASE a \notin instance
    BY <1>2, <2>2, <1>h, <1>u, <1>v DEF report, Incoming, gateVars
  <2>. QED  BY <2>1, <2>2
<1>. QED  BY <1>1, <1>2 DEF LauncherStep

LEMMA TypesWatchdog ==
  ASSUME Types, WatchdogStep
  PROVE  Types'
<1>. USE DEF Types, WatchdogTypeOK
<1>h. ASSUME queue["watchdog"] # <<>>
      PROVE  /\ Taken("watchdog") \in Queues(Any)
             /\ Head(queue["watchdog"]).agent \in Agents \cup {Nil}
  BY <1>h, TakenAny DEF Names, Services
<1>p. ASSUME queue["watchdog"] # <<>>, NEW s, NEW fd \in Fds \cup {Nil},
             NEW t \in {"LAUNCH", "start", "kick", "disconnect"}
      PROVE  Post(Taken("watchdog"), s, Msg(t, fd, Nil)) \in Queues(Any)
  BY ZenonT(60), <1>p, <1>h, PostAny, MsgType DEF MsgTypes
<1>u. UNCHANGED <<svc, socketVars, gateVars, launcherVars, agentVars, asked>>
  BY DEF WatchdogStep
<1>v. SocketTypeOK' /\ LauncherTypeOK' /\ AgentTypeOK'
  BY <1>u DEF socketVars, launcherVars, agentVars, SocketTypeOK, LauncherTypeOK, AgentTypeOK
<1>1. ASSUME NEW fd \in Fds, SOCKET_open(fd)  PROVE Types'
  BY <1>1, <1>p, <1>u, <1>v DEF SOCKET_open, Incoming, gateVars
<1>2. ASSUME NEW fd \in Fds, SOCKET_open_launched(fd)  PROVE Types'
  BY <1>2, <1>h, <1>p, <1>u, <1>v DEF SOCKET_open_launched, Incoming, gateVars
<1>3. ASSUME NEW fd \in Fds, NEW t, SOCKET_open_ends(fd, t)  PROVE Types'
  BY <1>3, <1>h, <1>u, <1>v DEF SOCKET_open_ends, Incoming, gateVars
<1>4. ASSUME NEW fd \in Fds, NEW t, close_agent(fd, t)  PROVE Types'
  <2>1. queue["watchdog"] # <<>> /\ opening' = opening /\ agent' = [agent EXCEPT ![fd] = Nil]
    BY <1>4 DEF close_agent, Incoming
  <2>2. CASE agent[fd] # Nil
    <3>1. /\ queue' = Post(Taken("watchdog"), "gate", Msg("kick", fd, Nil))
          /\ kicking' = [kicking EXCEPT ![fd] = agent[fd]]
      BY <1>4, <2>2 DEF close_agent
    <3>. QED  BY <2>1, <3>1, <1>p, <1>u, <1>v DEF gateVars
  <2>3. CASE agent[fd] = Nil
    <3>1. queue' = Taken("watchdog") /\ kicking' = kicking
      BY <1>4, <2>3 DEF close_agent
    <3>. QED  BY <2>1, <3>1, <1>h, <1>u, <1>v DEF gateVars
  <2>. QED  BY <2>2, <2>3
<1>5. ASSUME NEW fd \in Fds, close_agent_kicked(fd)  PROVE Types'
  BY <1>5, <1>p, <1>u, <1>v DEF close_agent_kicked, Incoming, gateVars
<1>. QED  BY <1>1, <1>2, <1>3, <1>4, <1>5 DEF WatchdogStep

LEMMA TypesAgent ==
  ASSUME Types, NEW a \in Agents, AgentInitStep(a) \/ AgentStep(a)
  PROVE  Types'
<1>. USE DEF Types
<1>h. ASSUME queue[a] # <<>>  PROVE Taken(a) \in Queues(Any)
  BY <1>h, TakenAny DEF Names
<1>p. ASSUME NEW q \in Queues(Any), NEW s, NEW fd \in Fds \cup {Nil},
             NEW t \in {"LAUNCHOK", "ERROR", "REMOVE", "forward", "started", "startfailed"}
      PROVE  Post(q, s, Msg(t, fd, a)) \in Queues(Any)
  BY ZenonT(60), <1>p, PostAny, MsgType DEF MsgTypes
<1>u. UNCHANGED <<socketVars, gateVars, watchdogVars, asked>> /\ LauncherTypeOK'
  BY DEF AgentInitStep, AgentStep, init_service, launcherVars, LauncherTypeOK
<1>v. SocketTypeOK' /\ WatchdogTypeOK'
  BY <1>u DEF socketVars, watchdogVars, SocketTypeOK, WatchdogTypeOK
<1>1. ASSUME NEW ok \in BOOLEAN, init_service(a, ok), UNCHANGED agentVars  PROVE Types'
  BY <1>1, <1>p, <1>u, <1>v DEF init_service, gateVars, agentVars, AgentTypeOK
<1>2. ASSUME NEW fd \in Fds, CMD_start(a, fd)  PROVE Types'
  BY <1>2, <1>h, <1>p, <1>u, <1>v DEF CMD_start, Incoming, gateVars, AgentTypeOK
<1>3. ASSUME NEW fd \in Fds, NEW t, CMD_start_ends(a, fd, t)  PROVE Types'
  BY <1>3, <1>h, <1>p, <1>u, <1>v DEF CMD_start_ends, Incoming, gateVars, AgentTypeOK
<1>4. ASSUME NEW fd \in Fds, client_dispatch(a, fd)  PROVE Types'
  BY <1>4, <1>h, <1>u, <1>v DEF client_dispatch, Incoming, gateVars, agentVars, AgentTypeOK
<1>5. ASSUME CMD_disconnect(a)  PROVE Types'
  <2>1. [queue EXCEPT ![a] = <<>>] \in Queues(Any)
    BY ZenonT(60), EmptyInSeq, AnyIsTyping DEF Queues
  <2>2. queue' \in Queues(Any)
    BY <1>5, <2>1, <1>p DEF CMD_disconnect, AgentTypeOK
  <2>. QED  BY <1>5, <2>2, <1>u, <1>v DEF CMD_disconnect, gateVars, agentVars, AgentTypeOK
<1>. QED  BY <1>1, <1>2, <1>3, <1>4, <1>5 DEF AgentInitStep, AgentStep

LEMMA TypesStep == Types /\ [Next]_vars => Types'
<1>. SUFFICES ASSUME Types, [Next]_vars  PROVE Types'
  OBVIOUS
<1>1. ASSUME CMD_close  PROVE Types'
  <2>1. queue' \in Queues(Any)
    BY SMTT(40), <1>1, PostAny, MsgType, CmdCloseAssumption DEF CMD_close, MsgTypes, Types
  <2>. QED
    BY <1>1, <2>1 DEF CMD_close, Types, socketVars, gateVars, launcherVars, watchdogVars, agentVars,
       SocketTypeOK, LauncherTypeOK, WatchdogTypeOK, AgentTypeOK
<1>2. ASSUME UNCHANGED vars  PROVE Types'
  BY <1>2 DEF vars, Types, socketVars, gateVars, launcherVars, watchdogVars, agentVars,
     SocketTypeOK, LauncherTypeOK, WatchdogTypeOK, AgentTypeOK
<1>. QED
  BY <1>1, <1>2, TypesSocket, TypesGate, TypesLauncher, TypesWatchdog, TypesAgent DEF Next
=============================================================================
