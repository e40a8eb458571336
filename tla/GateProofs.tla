----------------------------- MODULE GateProofs -----------------------------
(***************************************************************************)
(* The last layer: the tables and the counter of the gate, and where it    *)
(* sends its packets.                                                      *)
(***************************************************************************)
EXTENDS GateServes, FiniteSetTheorems

-----------------------------------------------------------------------------
(* Layer 4: the tables and the counter of the gate.                        *)

Counted == IsFiniteSet(Connected) /\ ClientsCounted

LEMMA TablesInit == Init => Counted /\ TablesAgree
<1>. SUFFICES ASSUME Init PROVE Counted /\ TablesAgree
  OBVIOUS
<1>1. Connected = {}
  BY DEF Init, GateInit, Connected
<1>2. Counted
  BY <1>1, FS_EmptySet, MaxClientAssumption DEF Init, GateInit, Counted, ClientsCounted
<1>. QED  BY <1>1, <1>2, HandlesAssumption DEF Init, GateInit, TablesAgree

LEMMA CountedStep == Types /\ Fresh /\ Counted /\ [Next]_vars => Counted'
<1>. SUFFICES ASSUME Types, Fresh, Counted, [Next]_vars  PROVE Counted'
  OBVIOUS
<1>s. ASSUME \A fd \in Fds : gsConn'[fd] = "nil" <=> gsConn[fd] = "nil",
             client_number' = client_number
      PROVE  Counted'
  <2>1. Connected' = Connected
    BY <1>s DEF Connected
  <2>. QED  BY <1>s, <2>1 DEF Counted, ClientsCounted
<1>c. Cardinality(Connected) \in Nat
  BY FS_CardinalityType DEF Counted
<1>1. ASSUME NEW fd \in Fds, MSG_open(fd)  PROVE Counted'
  <2>1. gsConn[fd] = "nil"
    BY SMTT(40), <1>1, TailIndices, GateQueueType DEF MSG_open, Incoming, Fresh, gateQ
  <2>2. CASE client_number >= MaxClient
    BY <1>1, <2>2, <1>s DEF MSG_open, gateVars
  <2>3. CASE ~(client_number >= MaxClient)
    <3>1. gsConn' = [gsConn EXCEPT ![fd] = "true"] /\ client_number' = client_number + 1
      BY <1>1, <2>3 DEF MSG_open
    <3>2. Connected' = Connected \cup {fd} /\ fd \notin Connected
      BY <3>1, <2>1 DEF Connected, Types
    <3>3. client_number' <= MaxClient
      BY <3>1, <2>3, <1>c, MaxClientAssumption DEF Counted, ClientsCounted
    <3>. QED  BY <3>1, <3>2, <3>3, FS_AddElement DEF Counted, ClientsCounted
  <2>. QED  BY SMTT(40), <2>2, <2>3
<1>2. ASSUME NEW fd \in Fds, NEW t, MSG_close(fd, t)  PROVE Counted'
  <2>1. /\ gsConn' = [gsConn EXCEPT ![fd] = "nil"]
        /\ client_number' = IF gsConn[fd] # "nil" THEN client_number - 1 ELSE client_number
    BY <1>2 DEF MSG_close, close_fd
  <2>2. Connected' = Connected \ {fd} /\ (fd \in Connected <=> gsConn[fd] # "nil")
    BY <2>1 DEF Connected, Types
  <2>3. IsFiniteSet(Connected') /\ client_number' = Cardinality(Connected')
    BY <2>1, <2>2, FS_RemoveElement DEF Counted, ClientsCounted
  <2>4. client_number' <= MaxClient
    BY SMTT(40), <2>1, <1>c, MaxClientAssumption DEF Counted, ClientsCounted
  <2>. QED  BY <2>3, <2>4 DEF Counted, ClientsCounted
<1>3. ASSUME NEW fd \in Fds, dispatch_msg(fd) \/ CMD_forward(fd)
      PROVE  Counted'
  BY <1>3, <1>s DEF dispatch_msg, CMD_forward, gateVars
<1>4. ASSUME NEW fd \in Fds, CMD_kick(fd)  PROVE Counted'
  BY <1>4, <1>s DEF CMD_kick, Types
<1>5. CASE UNCHANGED <<gsConn, client_number>>
  BY <1>5, <1>s
<1>. QED
  BY SMTT(40), <1>1, <1>2, <1>3, <1>4, <1>5, GateView
  DEF Next, GateStep, SocketControl, Peer, gateVars, vars

LEMMA TablesStep == Types /\ Owned /\ TablesAgree /\ [Next]_vars => TablesAgree'
<1>. SUFFICES ASSUME Types, Owned, TablesAgree, [Next]_vars  PROVE TablesAgree'
  OBVIOUS
<1>n. Nil \notin Fds /\ Nil \notin Agents
  BY HandlesAssumption
<1>s. ASSUME \A fd \in Fds : gsConn'[fd] = "nil" <=> gsConn[fd] = "nil",
             UNCHANGED <<connection, cagent, forwarding>>
      PROVE  TablesAgree'
  BY <1>s DEF TablesAgree, Connected
<1>1. ASSUME NEW fd \in Fds, MSG_open(fd)  PROVE TablesAgree'
  <2>2. CASE client_number >= MaxClient
    BY <1>1, <2>2, <1>s DEF MSG_open, gateVars
  <2>3. CASE ~(client_number >= MaxClient)
    <3>1. /\ gsConn' = [gsConn EXCEPT ![fd] = "true"] /\ connection' = connection \cup {fd}
          /\ UNCHANGED <<cagent, forwarding>>
      BY <1>1, <2>3 DEF MSG_open
    <3>2. connection' = Connected'
      BY <3>1 DEF TablesAgree, Connected, Types
    <3>. QED  BY <3>1, <3>2 DEF TablesAgree
  <2>. QED  BY <2>2, <2>3
<1>2. ASSUME NEW fd \in Fds, NEW t, MSG_close(fd, t)  PROVE TablesAgree'
  <2>1. /\ gsConn' = [gsConn EXCEPT ![fd] = "nil"] /\ connection' = connection \ {fd}
        /\ cagent' = [cagent EXCEPT ![fd] = Nil] /\ forwarding' = unforward(fd)
    BY <1>2 DEF MSG_close, close_fd
  <2>2. connection' = Connected'
    BY <2>1 DEF TablesAgree, Connected, Types
  <2>3. \A f \in Fds : cagent'[f] # Nil => f \in connection'
    BY <2>1 DEF TablesAgree, Types
  <2>4. ASSUME NEW f \in Fds, NEW b \in Agents  PROVE forwarding'[b] = f <=> cagent'[f] = b
    BY <2>1, <2>4, <1>n DEF TablesAgree, Types, unforward
  <2>. QED  BY <2>2, <2>3, <2>4 DEF TablesAgree
<1>3. ASSUME NEW fd \in Fds, CMD_forward(fd)  PROVE TablesAgree'
  <2>. DEFINE a == Head(queue["gate"]).agent
  <2>1. a \in Agents /\ client_fd[a] = fd
    BY <1>3, ForwardSender
  <2>2. CASE fd \in connection
    <3>1. /\ cagent' = [cagent EXCEPT ![fd] = a]
          /\ forwarding' = [unforward(fd) EXCEPT ![a] = fd]
          /\ UNCHANGED <<gsConn, connection>>
      BY <1>3, <2>2 DEF CMD_forward
    <3>. HIDE DEF a
    <3>2. connection' = Connected' /\ \A f \in Fds : cagent'[f] # Nil => f \in connection'
      BY SMTT(40), <3>1, <2>2 DEF TablesAgree, Types, Connected
    <3>3. \A f \in Fds : \A b \in Agents : cagent[f] = b => client_fd[b] = f
      BY <1>n DEF Owned
    <3>4. \A b \in Agents : forwarding'[b] =
            IF b = a THEN fd ELSE IF b = cagent[fd] THEN Nil ELSE forwarding[b]
      BY <3>1 DEF unforward
    <3>5. \A f \in Fds : cagent'[f] = IF f = fd THEN a ELSE cagent[f]
      BY <3>1 DEF Types
    <3>6. ASSUME NEW f \in Fds, NEW b \in Agents  PROVE forwarding'[b] = f <=> cagent'[f] = b
      <4>1. forwarding[b] = f <=> cagent[f] = b
        BY DEF TablesAgree
      <4>2. forwarding[b] = fd <=> cagent[fd] = b
        BY DEF TablesAgree
      <4>. QED  BY SMTT(40), <4>1, <4>2, <2>1, <3>3, <3>4, <3>5, <1>n
    <3>. QED  BY SMTT(40), <3>2, <3>6 DEF TablesAgree
  <2>3. CASE fd \notin connection
    BY SMTT(40), <1>3, <2>3, <1>s DEF CMD_forward
  <2>. QED  BY <2>2, <2>3
<1>4. ASSUME NEW fd \in Fds, dispatch_msg(fd)  PROVE TablesAgree'
  BY <1>4, <1>s DEF dispatch_msg, gateVars
<1>5. ASSUME NEW fd \in Fds, CMD_kick(fd)  PROVE TablesAgree'
  BY <1>5, <1>s DEF CMD_kick, Types
<1>6. CASE UNCHANGED gateVars
  BY <1>6, <1>s DEF gateVars
<1>. QED
  BY SMTT(40), <1>1, <1>2, <1>3, <1>4, <1>5, <1>6, GateView DEF Next, GateStep, SocketControl, Peer, vars

\* gateserver.lua: client_number is the number of connections held and never
\* more than maxclient, for any number of clients and any maxclient.
THEOREM ClientNumberIsExact == Spec => []ClientsCounted
<1>1. Counted => ClientsCounted
  BY DEF Counted
<1>. QED
  BY <1>1, TypesInit, TypesStep, OwnedInit, OwnedStep, FreshInit, FreshStep, TablesInit,
     CountedStep, PTL DEF Spec

\* gate.lua and gateserver.lua: both connection tables have the same keys and
\* forwarding stays the inverse of the agent fields.
THEOREM GateTablesAgree == Spec => []TablesAgree
BY TypesInit, TypesStep, OwnedInit, OwnedStep, TablesInit, TablesStep, PTL DEF Spec

\* Every variable of every component keeps its type; client_number never
\* goes below zero.
THEOREM TypeCorrect == Spec => []TypeOK
<1>1. Types /\ Counted => TypeOK
  BY FS_CardinalityType
  DEF Types, Queues, Counted, ClientsCounted, TypeOK, GateTypeOK, Names
<1>. QED
  BY <1>1, TypesInit, TypesStep, OwnedInit, OwnedStep, FreshInit, FreshStep, TablesInit,
     CountedStep, PTL DEF Spec

-----------------------------------------------------------------------------
(* No packet reaches the watchdog.                                         *)

Quiet == [s \in Names |-> IF s = "watchdog" THEN {m \in Messages : m.type # "data"} ELSE Messages]

LEMMA PostQuiet ==
  ASSUME NEW q \in Queues(Quiet), NEW s, NEW t \in MsgTypes, NEW fd \in Fds \cup {Nil},
         NEW a \in Agents \cup {Nil}, s # "watchdog" \/ t # "data"
  PROVE  Post(q, s, Msg(t, fd, a)) \in Queues(Quiet)
<1>1. Msg(t, fd, a) \in Messages /\ Msg(t, fd, a).type = t
  BY MsgType DEF Msg
<1>2. Quiet \in [Names -> SUBSET Messages] /\ (s \in Names => Msg(t, fd, a) \in Quiet[s])
  BY <1>1 DEF Quiet
<1>. QED  BY SMTT(40), <1>2, PostQueues

LEMMA QuietStep ==
  ASSUME Types, Fresh, queue \in Queues(Quiet), [Next]_vars
  PROVE  queue' \in Queues(Quiet)
<1>n. "watchdog" \in Names /\ "gate" \in Names /\ "launcher" \in Names /\ Agents \subseteq Names
      /\ "watchdog" \notin Agents /\ "gate" # "watchdog"
  BY SMTT(40), HandlesAssumption DEF Names, Services
<1>t. ASSUME NEW s \in Names, queue[s] # <<>>
      PROVE  /\ Taken(s) \in Queues(Quiet)
             /\ Head(queue[s]).agent \in Agents \cup {Nil}
  <2>1. Quiet \in [Names -> SUBSET Messages]
    BY SMTT(40) DEF Quiet
  <2>. QED  BY SMTT(40), <1>t, <2>1, TakenQueues, TakenAny DEF Types
<1>1. ASSUME SocketControl \/ Peer  PROVE queue' \in Queues(Quiet)
  <2>1. ASSUME NEW fd \in Fds, NEW t \in {"open", "data", "close", "error"}
        PROVE  ToGate(t, fd) \in Queues(Quiet)
    BY ZenonT(60), <2>1, <1>n, PostQuiet DEF ToGate, MsgTypes
  <2>. QED
    BY SMTT(40), <1>1, <2>1 DEF SocketControl, Peer, start_socket, close_socket, report_accept,
       forward_message, force_close
<1>2. ASSUME NEW fd \in Fds, dispatch_msg(fd)  PROVE queue' \in Queues(Quiet)
  <2>1. queue["gate"] # <<>> /\ Taken("gate") \in Queues(Quiet)
    BY SMTT(40), <1>2, <1>n, <1>t DEF dispatch_msg, Incoming
  <2>2. ~NotStarted(fd)
    BY SMTT(40), <1>2, TailIndices, GateQueueType DEF dispatch_msg, Incoming, NotStarted, gateQ
  <2>3. gsConn[fd] = "true" => cagent[fd] \in Agents
    BY SMTT(40), <2>2 DEF Fresh, Types
  <2>4. CASE gsConn[fd] # "true"
    BY SMTT(40), <1>2, <2>1, <2>4 DEF dispatch_msg
  <2>5. CASE gsConn[fd] = "true"
    <3>1. queue' = Post(Taken("gate"), cagent[fd], Msg("client", fd, Nil))
      BY SMTT(40), <1>2, <2>3, <2>5, HandlesAssumption DEF dispatch_msg
    <3>. QED  BY ZenonT(60), <2>1, <2>3, <2>5, <3>1, <1>n, PostQuiet DEF MsgTypes
  <2>. QED  BY <2>4, <2>5
<1>3. ASSUME NEW fd \in Fds, NEW t, MSG_open(fd) \/ MSG_close(fd, t)
                                    \/ CMD_forward(fd) \/ CMD_kick(fd)
      PROVE  queue' \in Queues(Quiet)
  <2>1. queue["gate"] # <<>> /\ Taken("gate") \in Queues(Quiet)
    BY ZenonT(60), <1>3, <1>n, <1>t DEF MSG_open, MSG_close, CMD_forward, CMD_kick, Incoming
  <2>2. ASSUME NEW s, NEW u \in {"open", "close", "error", "forwarded",
                                 "forwardfailed", "kicked"}
        PROVE  Post(Taken("gate"), s, Msg(u, fd, Nil)) \in Queues(Quiet)
    BY ZenonT(60), <2>1, <2>2, PostQuiet DEF MsgTypes
  <2>. QED  BY SMTT(40), <1>3, <2>1, <2>2 DEF MSG_open, MSG_close, CMD_forward, CMD_kick
<1>4. ASSUME LauncherStep  PROVE queue' \in Queues(Quiet)
  <2>1. queue["launcher"] # <<>>
    BY <1>4 DEF LauncherStep, LAUNCH, report, Incoming
  <2>2. Taken("launcher") \in Queues(Quiet)
    BY SMTT(40), <2>1, <1>n, <1>t
  <2>3. ASSUME NEW u \in {"launched", "launchfailed"}, NEW fd \in Fds \cup {Nil},
               NEW a \in Agents \cup {Nil}
        PROVE  Post(Taken("launcher"), "watchdog", Msg(u, fd, a)) \in Queues(Quiet)
    BY ZenonT(60), <2>2, <2>3, PostQuiet DEF MsgTypes
  <2>4. ASSUME NEW fd \in Fds, LAUNCH(fd)  PROVE queue' \in Queues(Quiet)
    BY <2>2, <2>3, <2>4 DEF LAUNCH
  <2>5. ASSUME NEW t, report(t)  PROVE queue' \in Queues(Quiet)
    <3>. DEFINE a == Head(queue["launcher"]).agent
    <3>1. CASE a \in instance
      <4>1. a \in Agents /\ owner[a] \in Fds \cup {Nil}
        BY <3>1 DEF Types, LauncherTypeOK
      <4>. QED  BY SMTT(40), <2>3, <2>5, <3>1, <4>1 DEF report
    <3>2. CASE a \notin instance
      BY SMTT(40), <2>2, <2>5, <3>2 DEF report
    <3>. QED  BY SMTT(40), <3>1, <3>2
  <2>. QED  BY <1>4, <2>4, <2>5 DEF LauncherStep
<1>5. ASSUME WatchdogStep  PROVE queue' \in Queues(Quiet)
  <2>1. queue["watchdog"] # <<>>
    BY ZenonT(60), <1>5 DEF WatchdogStep, SOCKET_open, SOCKET_open_launched, SOCKET_open_ends, close_agent,
       close_agent_kicked, Incoming
  <2>2. Taken("watchdog") \in Queues(Quiet)
    BY SMTT(40), <2>1, <1>n, <1>t
  <2>3. ASSUME NEW s, NEW u \in {"LAUNCH", "start", "kick", "disconnect"}, NEW fd \in Fds \cup {Nil}
        PROVE  Post(Taken("watchdog"), s, Msg(u, fd, Nil)) \in Queues(Quiet)
    BY ZenonT(60), <2>2, <2>3, PostQuiet DEF MsgTypes
  <2>. QED
    BY SMTT(40), <1>5, <2>2, <2>3 DEF WatchdogStep, SOCKET_open, SOCKET_open_launched, SOCKET_open_ends,
       close_agent, close_agent_kicked
<1>6. ASSUME NEW a \in Agents, AgentInitStep(a) \/ AgentStep(a)  PROVE queue' \in Queues(Quiet)
  <2>1. ASSUME queue[a] # <<>>  PROVE Taken(a) \in Queues(Quiet)
    BY SMTT(40), <2>1, <1>n, <1>t
  <2>2. ASSUME NEW q \in Queues(Quiet), NEW s, NEW fd \in Fds \cup {Nil},
               NEW u \in {"LAUNCHOK", "ERROR", "REMOVE", "forward", "started", "startfailed"}
        PROVE  Post(q, s, Msg(u, fd, a)) \in Queues(Quiet)
    BY ZenonT(60), <2>2, PostQuiet DEF MsgTypes
  <2>3. ASSUME NEW ok \in BOOLEAN, init_service(a, ok)  PROVE queue' \in Queues(Quiet)
    BY <2>2, <2>3 DEF init_service
  <2>4. ASSUME NEW fd \in Fds, NEW t,
               CMD_start(a, fd) \/ CMD_start_ends(a, fd, t) \/ client_dispatch(a, fd)
        PROVE  queue' \in Queues(Quiet)
    BY SMTT(40), <2>1, <2>2, <2>4 DEF CMD_start, CMD_start_ends, client_dispatch, Incoming
  <2>5. ASSUME CMD_disconnect(a)  PROVE queue' \in Queues(Quiet)
    <3>1. [queue EXCEPT ![a] = <<>>] \in Queues(Quiet)
      BY ZenonT(60), EmptyInSeq DEF Queues
    <3>. QED  BY SMTT(40), <2>2, <2>5, <3>1 DEF CMD_disconnect, Types, AgentTypeOK
  <2>. QED  BY <1>6, <2>3, <2>4, <2>5 DEF AgentInitStep, AgentStep
<1>7. ASSUME CMD_close  PROVE queue' \in Queues(Quiet)
  <2>1. PICK fd \in Fds : queue' = Post(queue, "watchdog", Msg("cmdclose", fd, Nil))
    BY <1>7, CmdCloseAssumption DEF CMD_close
  <2>2. "cmdclose" \in MsgTypes /\ "cmdclose" # "data"
    BY DEF MsgTypes
  <2>. QED  BY <2>1, <2>2, PostQuiet
<1>8. ASSUME UNCHANGED vars  PROVE queue' \in Queues(Quiet)
  BY <1>8 DEF vars
<1>. QED  BY SMTT(40), <1>1, <1>2, <1>3, <1>4, <1>5, <1>6, <1>7, <1>8 DEF Next, GateStep

\* gate.lua handler.message never takes its branch to the watchdog, whose
\* SOCKET.data drops the packet: CMD.forward names the agent before it lets
\* gateserver start the socket.
THEOREM NoPacketIsDropped == Spec => []NoPacketToWatchdog
<1>. DEFINE NoData == queue \in Queues(Quiet)
<1>1. Init => NoData
  <2>. SUFFICES ASSUME Init  PROVE NoData
    OBVIOUS
  <2>1. queue \in [Names -> Seq(Messages)] /\ \A s \in Names : queue[s] = <<>>
    BY EmptyInSeq DEF Init, SkynetInit, Names
  <2>2. \A s \in Names : queue[s] \in Seq(Quiet[s])
    BY <2>1, EmptyInSeq
  <2>. QED  BY SMTT(40), <2>1, <2>2 DEF Queues
<1>2. Types /\ Fresh /\ NoData /\ [Next]_vars => NoData'
  BY QuietStep
<1>3. NoData => NoPacketToWatchdog
  <2>. SUFFICES ASSUME NoData, NEW i \in 1..Len(queue["watchdog"])
                PROVE  queue["watchdog"][i].type # "data"
    BY DEF NoPacketToWatchdog
  <2>1. queue["watchdog"] \in Seq(Quiet["watchdog"])
    BY DEF Queues, Names, Services
  <2>2. queue["watchdog"][i] \in Quiet["watchdog"]
    BY <2>1, ElementInSet
  <2>. QED  BY <2>2 DEF Quiet, Names, Services
<1>. QED
  BY <1>1, <1>2, <1>3, TypesInit, TypesStep, OwnedInit, OwnedStep, FreshInit, FreshStep, PTL
  DEF Spec
=============================================================================
