-------------------------- MODULE LifecycleProofs ---------------------------
(***************************************************************************)
(* The second layer: what the messages in the queues say about who owns a  *)
(* connection.                                                             *)
(***************************************************************************)
EXTENDS LifecycleTypes

-----------------------------------------------------------------------------
(* Layer 2: which messages can be in which queue.  A message that ties an  *)
(* agent to a connection ties it to the one it was launched for.           *)

\* own and cfd stand for owner and client_fd.
Allowed(own, cfd) ==
  [s \in Names |->
     CASE s = "gate" ->
            {m \in Messages : m.type = "forward" =>
               m.agent \in Agents /\ m.fd \in Fds /\ cfd[m.agent] = m.fd}
       [] s = "watchdog" ->
            {m \in Messages : m.type = "launched" =>
               m.agent \in Agents /\ m.fd \in Fds /\ own[m.agent] = m.fd}
       [] s = "launcher" -> Messages
       [] s \in Agents ->
            {m \in Messages :
               /\ m.type = "start" => m.fd \in Fds /\ own[s] = m.fd
               /\ m.type = "client" => m.fd \in Fds /\ cfd[s] = m.fd}]

Owned ==
  /\ queue \in Queues(Allowed(owner, client_fd))
  /\ \A a \in Agents : client_fd[a] # Nil => client_fd[a] = owner[a]
  /\ \A a \in Agents : svc[a] = "none" => owner[a] = Nil
  /\ \A a \in instance : owner[a] # Nil
  /\ \A fd \in Fds : cagent[fd] # Nil => client_fd[cagent[fd]] = fd

\* The messages allowed for each service, one by one.
LEMMA AllowedIs ==
  ASSUME NEW own, NEW cfd
  PROVE  LET A == Allowed(own, cfd) IN
         /\ A \in [Names -> SUBSET Messages]
         /\ A["gate"] =
              {m \in Messages : m.type = "forward" =>
                 m.agent \in Agents /\ m.fd \in Fds /\ cfd[m.agent] = m.fd}
         /\ A["watchdog"] =
              {m \in Messages : m.type = "launched" =>
                 m.agent \in Agents /\ m.fd \in Fds /\ own[m.agent] = m.fd}
         /\ A["launcher"] = Messages
         /\ \A a \in Agents : A[a] =
              {m \in Messages :
                 /\ m.type = "start" => m.fd \in Fds /\ own[a] = m.fd
                 /\ m.type = "client" => m.fd \in Fds /\ cfd[a] = m.fd}
<1>1. Names = {"gate", "watchdog", "launcher"} \cup Agents
  BY DEF Names, Services
<1>2. \A a \in Agents : a # "gate" /\ a # "watchdog" /\ a # "launcher"
  BY HandlesAssumption DEF Services
<1>. QED  BY <1>1, <1>2 DEF Allowed

LEMMA AllowedTyped ==
  ASSUME NEW own, NEW cfd
  PROVE  Allowed(own, cfd) \in [Names -> SUBSET Messages]
BY AllowedIs

LEMMA AllowedWatchdog ==
  ASSUME NEW own, NEW cfd
  PROVE  Allowed(own, cfd)["watchdog"] =
           {m \in Messages : m.type = "launched" =>
              m.agent \in Agents /\ m.fd \in Fds /\ own[m.agent] = m.fd}
BY AllowedIs

LEMMA AllowedGate ==
  ASSUME NEW own, NEW cfd
  PROVE  Allowed(own, cfd)["gate"] =
           {m \in Messages : m.type = "forward" =>
              m.agent \in Agents /\ m.fd \in Fds /\ cfd[m.agent] = m.fd}
BY AllowedIs

LEMMA AllowedAgent ==
  ASSUME NEW own, NEW cfd, NEW a \in Agents
  PROVE  Allowed(own, cfd)[a] =
           {m \in Messages :
              /\ m.type = "start" => m.fd \in Fds /\ own[a] = m.fd
              /\ m.type = "client" => m.fd \in Fds /\ cfd[a] = m.fd}
BY AllowedIs

\* What was allowed stays allowed as agents learn their connections.
LEMMA AllowedGrows ==
  ASSUME Types,
         \A a \in Agents : owner[a] # Nil => owner'[a] = owner[a],
         \A a \in Agents : client_fd[a] # Nil => client_fd'[a] = client_fd[a],
         NEW q \in Queues(Allowed(owner, client_fd))
  PROVE  q \in Queues(Allowed(owner', client_fd'))
<1>1. ASSUME NEW s \in Names
      PROVE  Allowed(owner, client_fd)[s] \subseteq Allowed(owner', client_fd')[s]
  <2>1. Nil \notin Fds
    BY HandlesAssumption
  <2>. QED  BY SMTT(40), <2>1, AllowedIs DEF Names, Services
<1>2. /\ Allowed(owner, client_fd) \in [Names -> SUBSET Messages]
      /\ Allowed(owner', client_fd') \in [Names -> SUBSET Messages]
  BY AllowedTyped
<1>. QED  BY <1>1, <1>2, WiderQueues

\* Messages of the other types are allowed everywhere.
LEMMA PostHarmless ==
  ASSUME NEW own, NEW cfd, NEW q \in Queues(Allowed(own, cfd)), NEW s,
         NEW t \in MsgTypes \ {"forward", "launched", "start", "client"},
         NEW fd \in Fds \cup {Nil}, NEW a \in Agents \cup {Nil}
  PROVE  Post(q, s, Msg(t, fd, a)) \in Queues(Allowed(own, cfd))
<1>1. Msg(t, fd, a) \in Messages /\ Msg(t, fd, a).type = t
  BY MsgType DEF Msg
<1>2. s \in Names => Msg(t, fd, a) \in Allowed(own, cfd)[s]
  BY <1>1, AllowedIs DEF Names, Services
<1>. QED  BY <1>2, AllowedTyped, PostQueues

LEMMA TakenAllowed ==
  ASSUME Owned, NEW s \in Names, queue[s] # <<>>
  PROVE  /\ Taken(s) \in Queues(Allowed(owner, client_fd))
         /\ Head(queue[s]) \in Allowed(owner, client_fd)[s]
BY TakenQueues, AllowedTyped DEF Owned

\* The agent that asks for a connection to be forwarded owns it.
LEMMA ForwardSender ==
  ASSUME Owned, NEW fd \in Fds, CMD_forward(fd)
  PROVE  Head(queue["gate"]).agent \in Agents /\ client_fd[Head(queue["gate"]).agent] = fd
<1>1. /\ "gate" \in Names /\ queue["gate"] # <<>>
      /\ Head(queue["gate"]).type = "forward" /\ Head(queue["gate"]).fd = fd
  BY DEF CMD_forward, Incoming, Names, Services
<1>2. Head(queue["gate"]) \in Allowed(owner, client_fd)["gate"]
  BY <1>1, TakenAllowed
<1>. QED  BY <1>1, <1>2, AllowedGate

LEMMA OwnedInit == Init => Owned
<1>. SUFFICES ASSUME Init PROVE Owned
  OBVIOUS
<1>1. queue \in Queues(Allowed(owner, client_fd))
  BY ZenonT(60), EmptyInSeq, AllowedIs DEF Init, SkynetInit, Queues, Names
<1>. QED
  BY <1>1 DEF Init, SkynetInit, GateInit, LauncherInit, AgentInit, Owned

LEMMA OwnedSocket ==
  ASSUME Types, Owned, SocketControl \/ Peer
  PROVE  Owned'
<1>1. ASSUME NEW fd \in Fds, NEW t \in {"open", "data", "close", "error"}
      PROVE  ToGate(t, fd) \in Queues(Allowed(owner, client_fd))
  BY <1>1, PostHarmless DEF ToGate, MsgTypes, Owned
<1>2. queue' \in Queues(Allowed(owner, client_fd))
  BY SMTT(40), <1>1 DEF SocketControl, Peer, start_socket, close_socket, report_accept, forward_message,
     force_close, Owned
<1>. QED
  BY <1>2 DEF SocketControl, Peer, gateVars, launcherVars, agentVars, Owned

LEMMA OwnedGate ==
  ASSUME Types, Owned, GateStep
  PROVE  Owned'
<1>. DEFINE Q == Queues(Allowed(owner, client_fd))
<1>g. "gate" \in Names
  BY DEF Names, Services
<1>p. ASSUME queue["gate"] # <<>>, NEW s, NEW fd \in Fds,
             NEW t \in {"open", "close", "error", "data", "forwarded",
                        "forwardfailed", "kicked"}
      PROVE  Post(Taken("gate"), s, Msg(t, fd, Nil)) \in Q
  BY <1>p, <1>g, PostHarmless, TakenAllowed DEF MsgTypes
<1>h. ASSUME queue["gate"] # <<>>  PROVE Taken("gate") \in Q
  BY <1>h, <1>g, TakenAllowed
<1>u. UNCHANGED <<svc, launcherVars, agentVars>>
  BY DEF GateStep
<1>o. ASSUME queue' \in Q, cagent' = cagent  PROVE Owned'
  BY <1>o, <1>u DEF Owned, launcherVars, agentVars
<1>1. ASSUME NEW fd \in Fds, MSG_open(fd)  PROVE Owned'
  <2>1. queue' \in Q
    <3>1. queue["gate"] # <<>>
      BY <1>1 DEF MSG_open, Incoming
    <3>2. queue' \in {Taken("gate"), Post(Taken("gate"), "watchdog", Msg("open", fd, Nil))}
      BY <1>1 DEF MSG_open
    <3>. QED  BY <3>1, <3>2, <1>h, <1>p
  <2>2. cagent' = cagent
    BY <1>1 DEF MSG_open, gateVars
  <2>. QED  BY <2>1, <2>2, <1>o
<1>2. ASSUME NEW fd \in Fds, NEW t, MSG_close(fd, t)  PROVE Owned'
  <2>1. queue' \in Q
    BY <1>2, <1>p DEF MSG_close, Incoming
  <2>2. \A f \in Fds : cagent'[f] # Nil => client_fd[cagent'[f]] = f
    BY <1>2 DEF MSG_close, close_fd, Owned, Types
  <2>. QED  BY <2>1, <2>2, <1>u DEF Owned, launcherVars, agentVars
<1>3. ASSUME NEW fd \in Fds, dispatch_msg(fd)  PROVE Owned'
  <2>1. CASE gsConn[fd] = "true" /\ cagent[fd] # Nil
    <3>1. cagent[fd] \in Agents /\ client_fd[cagent[fd]] = fd
      BY <2>1 DEF Types, Owned
    <3>2. Msg("client", fd, Nil) \in Allowed(owner, client_fd)[cagent[fd]]
      <4>1. Msg("client", fd, Nil) \in Messages
        BY MsgType DEF MsgTypes
      <4>2. /\ Msg("client", fd, Nil).type = "client"
            /\ Msg("client", fd, Nil).fd = fd
        BY DEF Msg
      <4>. QED  BY SMTT(40), <3>1, <4>1, <4>2, AllowedAgent
    <3>3. queue' = Post(Taken("gate"), cagent[fd], Msg("client", fd, Nil))
      BY <1>3, <2>1 DEF dispatch_msg
    <3>4. queue' \in Q
      <4>1. Taken("gate") \in Q
        BY <1>3, <1>h DEF dispatch_msg, Incoming
      <4>. QED  BY <4>1, <3>2, <3>3, AllowedTyped, PostQueues
    <3>. QED  BY <1>3, <3>4, <1>o DEF dispatch_msg, gateVars
  <2>2. CASE ~(gsConn[fd] = "true" /\ cagent[fd] # Nil)
    BY <1>3, <2>2, <1>h, <1>p, <1>o DEF dispatch_msg, Incoming, gateVars
  <2>. QED  BY <2>1, <2>2
<1>5. ASSUME NEW fd \in Fds, CMD_forward(fd)  PROVE Owned'
  <2>. DEFINE a == Head(queue["gate"]).agent
  <2>1. queue' \in Q
    <3>1. queue["gate"] # <<>>
      BY <1>5 DEF CMD_forward, Incoming
    <3>2. \E t \in {"forwarded", "forwardfailed"} :
            queue' = Post(Taken("gate"), a, Msg(t, fd, Nil))
      BY <1>5 DEF CMD_forward
    <3>. QED  BY <3>1, <3>2, <1>p
  <2>2. client_fd[a] = fd
    BY <1>5, ForwardSender
  <2>3. \A f \in Fds : cagent'[f] # Nil => client_fd[cagent'[f]] = f
    <3>1. cagent' = [cagent EXCEPT ![fd] = a] \/ cagent' = cagent
      BY <1>5 DEF CMD_forward
    <3>2. cagent \in [Fds -> Agents \cup {Nil}]
      BY DEF Types
    <3>. HIDE DEF a
    <3>. QED  BY <2>2, <3>1, <3>2 DEF Owned
  <2>. QED  BY <2>1, <2>3, <1>u DEF Owned, launcherVars, agentVars
<1>6. ASSUME NEW fd \in Fds, CMD_kick(fd)  PROVE Owned'
  BY <1>6, <1>p, <1>o DEF CMD_kick, Incoming
<1>. QED  BY <1>1, <1>2, <1>3, <1>5, <1>6 DEF GateStep

LEMMA OwnedLauncher ==
  ASSUME Types, Owned, LauncherStep
  PROVE  Owned'
<1>. DEFINE Q == Queues(Allowed(owner, client_fd))
<1>h. ASSUME queue["launcher"] # <<>>  PROVE Taken("launcher") \in Q
  BY <1>h, TakenAllowed DEF Names, Services
<1>p. ASSUME queue["launcher"] # <<>>, NEW fd \in Fds \cup {Nil}, NEW a \in Agents \cup {Nil}
      PROVE  Post(Taken("launcher"), "watchdog", Msg("launchfailed", fd, a)) \in Q
  BY <1>p, <1>h, PostHarmless DEF MsgTypes
<1>u. UNCHANGED <<cagent, client_fd>>
  BY DEF LauncherStep, gateVars, agentVars
<1>1. ASSUME NEW fd \in Fds, NEW a \in Agents, svc[a] = "none",
             svc' = [svc EXCEPT ![a] = "init"], instance' = instance \cup {a},
             owner' = [owner EXCEPT ![a] = fd], queue' = Taken("launcher"),
             queue["launcher"] # <<>>
      PROVE  Owned'
  <2>1. owner[a] = Nil /\ \A b \in Agents : owner[b] # Nil => owner'[b] = owner[b]
    BY <1>1 DEF Owned, Types, LauncherTypeOK
  <2>2. queue' \in Queues(Allowed(owner', client_fd'))
    BY ZenonT(60), <1>1, <2>1, <1>h, <1>u, AllowedGrows
  <2>3. \A b \in Agents : client_fd'[b] # Nil => client_fd'[b] = owner'[b]
    BY <2>1, <1>u DEF Owned
  <2>4. /\ \A b \in Agents : svc'[b] = "none" => owner'[b] = Nil
        /\ \A b \in instance' : owner'[b] # Nil
    BY SMTT(40), <1>1, <2>1, HandlesAssumption DEF Owned, Types, LauncherTypeOK
  <2>. QED  BY <2>2, <2>3, <2>4, <1>u DEF Owned
<1>2. ASSUME NEW fd \in Fds, LAUNCH(fd)  PROVE Owned'
  <2>1. CASE \E a \in Agents :
               /\ svc[a] = "none"
               /\ svc' = [svc EXCEPT ![a] = "init"]
               /\ services' = services \cup {a}
               /\ instance' = instance \cup {a}
               /\ owner' = [owner EXCEPT ![a] = fd]
               /\ queue' = Taken("launcher")
    BY ZenonT(60), <1>1, <1>2, <2>1 DEF LAUNCH, Incoming
  <2>2. CASE /\ queue' = Post(Taken("launcher"), "watchdog", Msg("launchfailed", fd, Nil))
             /\ UNCHANGED <<svc, launcherVars>>
    BY <1>2, <2>2, <1>p, <1>u DEF LAUNCH, Incoming, Owned, launcherVars
  <2>. QED  BY <1>2, <2>1, <2>2 DEF LAUNCH
<1>3. ASSUME NEW t, report(t)  PROVE Owned'
  <2>. DEFINE a == Head(queue["launcher"]).agent
  <2>0. queue["launcher"] # <<>>
    BY SMTT(40), <1>3 DEF report, Incoming
  <2>1. CASE a \in instance /\ t = "LAUNCHOK"
    <3>1. a \in Agents /\ owner[a] \in Fds
      BY <2>1 DEF Owned, Types, LauncherTypeOK
    <3>2. Msg("launched", owner[a], a) \in Messages
      BY <3>1, MsgType DEF MsgTypes
    <3>3. /\ Msg("launched", owner[a], a).type = "launched"
          /\ Msg("launched", owner[a], a).fd = owner[a]
          /\ Msg("launched", owner[a], a).agent = a
      BY SMTT(40) DEF Msg
    <3>4. Msg("launched", owner[a], a) \in Allowed(owner, client_fd)["watchdog"]
      <4>1. Msg("launched", owner[a], a) \in
              {m \in Messages : m.type = "launched" =>
                 m.agent \in Agents /\ m.fd \in Fds /\ owner[m.agent] = m.fd}
        BY <3>1, <3>2, <3>3
      <4>. QED  BY SMTT(40), <4>1, AllowedWatchdog
    <3>5. queue' = Post(Taken("launcher"), "watchdog", Msg("launched", owner[a], a))
      BY <1>3, <2>1 DEF report
    <3>6. queue' \in Q
      BY SMTT(40), <2>0, <3>4, <3>5, <1>h, AllowedTyped, PostQueues
    <3>. QED  BY <1>3, <3>6, <1>u DEF report, Owned
  <2>2. CASE a \in instance /\ t # "LAUNCHOK"
    <3>1. a \in Agents /\ owner[a] \in Fds
      BY SMTT(40), <2>2 DEF Owned, Types, LauncherTypeOK
    <3>. QED  BY SMTT(40), <1>3, <2>0, <2>2, <3>1, <1>p, <1>u DEF report, Owned
  <2>3. CASE a \notin instance
    BY <1>3, <2>0, <2>3, <1>h, <1>u DEF report, Owned
  <2>. QED  BY <2>1, <2>2, <2>3
<1>. QED  BY <1>2, <1>3 DEF LauncherStep

LEMMA OwnedWatchdog ==
  ASSUME Types, Owned, WatchdogStep
  PROVE  Owned'
<1>. DEFINE Q == Queues(Allowed(owner, client_fd))
<1>w. "watchdog" \in Names
  BY SMTT(40) DEF Names, Services
<1>h. ASSUME queue["watchdog"] # <<>>  PROVE Taken("watchdog") \in Q
  BY <1>h, <1>w, TakenAllowed
<1>p. ASSUME queue["watchdog"] # <<>>, NEW s, NEW fd \in Fds \cup {Nil},
             NEW t \in {"LAUNCH", "kick", "disconnect"}
      PROVE  Post(Taken("watchdog"), s, Msg(t, fd, Nil)) \in Q
  BY <1>p, <1>h, PostHarmless DEF MsgTypes
<1>o. ASSUME queue' \in Q  PROVE Owned'
  BY <1>o DEF WatchdogStep, gateVars, launcherVars, agentVars, Owned
<1>1. ASSUME NEW fd \in Fds, SOCKET_open(fd)  PROVE Owned'
  BY <1>1, <1>p, <1>o DEF SOCKET_open, Incoming
<1>2. ASSUME NEW fd \in Fds, SOCKET_open_launched(fd)  PROVE Owned'
  <2>. DEFINE a == Head(queue["watchdog"]).agent
              m == Msg("start", fd, Nil)
  <2>1. a \in Agents /\ owner[a] = fd
    <3>1. /\ queue["watchdog"] # <<>> /\ Head(queue["watchdog"]).type = "launched"
          /\ Head(queue["watchdog"]).fd = fd
      BY <1>2 DEF SOCKET_open_launched, Incoming
    <3>2. Head(queue["watchdog"]) \in Allowed(owner, client_fd)["watchdog"]
      BY <3>1, <1>w, TakenAllowed
    <3>3. Allowed(owner, client_fd)["watchdog"] \subseteq
            {n \in Messages : n.type = "launched" => n.agent \in Agents /\ owner[n.agent] = n.fd}
      BY AllowedWatchdog
    <3>. QED  BY <3>1, <3>2, <3>3
  <2>2. m \in Messages /\ m.type = "start" /\ m.fd = fd
    BY MsgType DEF MsgTypes, Msg
  <2>3. m \in Allowed(owner, client_fd)[a]
    BY SMTT(40), <2>1, <2>2, AllowedAgent
  <2>4. queue' = Post(Taken("watchdog"), a, m) /\ queue["watchdog"] # <<>>
    BY <1>2 DEF SOCKET_open_launched, Incoming
  <2>. HIDE DEF a, m
  <2>5. queue' \in Q
    BY <2>3, <2>4, <1>h, AllowedTyped, PostQueues
  <2>. QED  BY <2>5, <1>o
<1>3. ASSUME NEW fd \in Fds, NEW t, SOCKET_open_ends(fd, t)  PROVE Owned'
  BY <1>3, <1>h, <1>o DEF SOCKET_open_ends, Incoming
<1>4. ASSUME NEW fd \in Fds, NEW t, close_agent(fd, t)  PROVE Owned'
  BY SMTT(40), <1>4, <1>h, <1>p, <1>o DEF close_agent, Incoming
<1>5. ASSUME NEW fd \in Fds, close_agent_kicked(fd)  PROVE Owned'
  BY <1>5, <1>p, <1>o DEF close_agent_kicked, Incoming
<1>. QED  BY <1>1, <1>2, <1>3, <1>4, <1>5 DEF WatchdogStep

LEMMA OwnedAgent ==
  ASSUME Types, Owned, NEW a \in Agents, AgentInitStep(a) \/ AgentStep(a)
  PROVE  Owned'
<1>. DEFINE Q == Queues(Allowed(owner, client_fd))
<1>n. a \in Names
  BY DEF Names
<1>h. ASSUME queue[a] # <<>>  PROVE Taken(a) \in Q
  BY <1>h, <1>n, TakenAllowed
<1>p. ASSUME NEW q \in Q, NEW s, NEW fd \in Fds \cup {Nil},
             NEW t \in {"LAUNCHOK", "ERROR", "REMOVE", "started", "startfailed"}
      PROVE  Post(q, s, Msg(t, fd, a)) \in Q
  BY <1>p, PostHarmless DEF MsgTypes
<1>u. UNCHANGED <<cagent, owner, instance>>
  BY SMTT(40) DEF AgentInitStep, AgentStep, init_service, gateVars, launcherVars
<1>o. ASSUME queue' \in Q, client_fd' = client_fd,
             \A b \in Agents : svc'[b] = "none" => svc[b] = "none"
      PROVE  Owned'
  BY <1>o, <1>u DEF Owned
<1>1. ASSUME NEW ok \in BOOLEAN, init_service(a, ok), UNCHANGED agentVars  PROVE Owned'
  <2>1. queue' \in Q
    BY SMTT(40), <1>1, <1>p DEF init_service, Owned
  <2>. QED  BY <1>1, <2>1, <1>o DEF init_service, agentVars, Types
<1>2. ASSUME NEW fd \in Fds, CMD_start(a, fd)  PROVE Owned'
  <2>1. owner[a] = fd
    <3>1. /\ queue[a] # <<>> /\ Head(queue[a]).type = "start"
          /\ Head(queue[a]).fd = fd
      BY <1>2 DEF CMD_start, Incoming
    <3>2. Head(queue[a]) \in Allowed(owner, client_fd)[a]
      BY <3>1, <1>n, TakenAllowed
    <3>3. Allowed(owner, client_fd)[a] \subseteq
            {m \in Messages : m.type = "start" => owner[a] = m.fd}
      BY AllowedAgent
    <3>. QED  BY SMTT(40), <3>1, <3>2, <3>3
  <2>2. client_fd' = [client_fd EXCEPT ![a] = fd] /\ client_fd[a] \in {fd, Nil}
    BY <1>2, <2>1 DEF CMD_start, Owned
  <2>3. \A b \in Agents : client_fd[b] # Nil => client_fd'[b] = client_fd[b]
    BY <2>2 DEF Types, AgentTypeOK
  <2>. DEFINE m == Msg("forward", fd, a)
  <2>4. client_fd'[a] = fd /\ m \in Messages /\ m.type = "forward" /\ m.fd = fd /\ m.agent = a
    BY SMTT(40), <2>2, MsgType DEF MsgTypes, Msg, Types, AgentTypeOK
  <2>5. m \in Allowed(owner', client_fd')["gate"]
    <3>1. m \in {n \in Messages : n.type = "forward" =>
                   n.agent \in Agents /\ n.fd \in Fds /\ client_fd'[n.agent] = n.fd}
      BY SMTT(40), <2>4
    <3>. QED  BY <3>1, AllowedGate
  <2>6. Taken(a) \in Queues(Allowed(owner', client_fd'))
    BY ZenonT(60), <1>2, <1>h, <2>3, <1>u, AllowedGrows DEF CMD_start, Incoming
  <2>7. queue' = Post(Taken(a), "gate", m) /\ svc' = svc
    BY <1>2 DEF CMD_start
  <2>. HIDE DEF m
  <2>8. queue' \in Queues(Allowed(owner', client_fd'))
    BY <2>5, <2>6, <2>7, AllowedTyped, PostQueues
  <2>9. \A b \in Agents : client_fd'[b] # Nil => client_fd'[b] = owner'[b]
    BY <2>1, <2>2, <1>u DEF Owned, Types, AgentTypeOK
  <2>10. \A f \in Fds : cagent'[f] # Nil => client_fd'[cagent'[f]] = f
    BY SMTT(40), <2>3, <1>u, HandlesAssumption DEF Owned, Types
  <2>. QED  BY <2>7, <2>8, <2>9, <2>10, <1>u DEF Owned
<1>3. ASSUME NEW fd \in Fds, NEW t, CMD_start_ends(a, fd, t)  PROVE Owned'
  BY SMTT(40), <1>3, <1>h, <1>p, <1>o DEF CMD_start_ends, Incoming
<1>4. ASSUME NEW fd \in Fds, client_dispatch(a, fd)  PROVE Owned'
  BY SMTT(40), <1>4, <1>h, <1>o DEF client_dispatch, Incoming, agentVars
<1>5. ASSUME CMD_disconnect(a)  PROVE Owned'
  <2>1. [queue EXCEPT ![a] = <<>>] \in Q
    BY ZenonT(60), EmptyInSeq, AllowedIs DEF Queues, Owned
  <2>2. queue' \in Q
    BY <1>5, <2>1, <1>p DEF CMD_disconnect, Types, AgentTypeOK
  <2>. QED  BY <1>5, <2>2, <1>o DEF CMD_disconnect, agentVars, Types
<1>. QED  BY <1>1, <1>2, <1>3, <1>4, <1>5 DEF AgentInitStep, AgentStep

LEMMA OwnedStep == Types /\ Owned /\ [Next]_vars => Owned'
<1>. SUFFICES ASSUME Types, Owned, [Next]_vars  PROVE Owned'
  OBVIOUS
<1>1. ASSUME CMD_close  PROVE Owned'
  <2>1. queue' \in Queues(Allowed(owner, client_fd))
    BY SMTT(40), <1>1, PostHarmless, CmdCloseAssumption DEF CMD_close, MsgTypes, Owned
  <2>. QED  BY SMTT(40), <1>1, <2>1 DEF CMD_close, Owned, gateVars, launcherVars, agentVars
<1>2. ASSUME UNCHANGED vars  PROVE Owned'
  BY <1>2 DEF vars, Owned, gateVars, launcherVars, agentVars
<1>. QED
  BY <1>1, <1>2, OwnedSocket, OwnedGate, OwnedLauncher, OwnedWatchdog, OwnedAgent DEF Next

\* A packet is only handed to the agent launched for its connection, after
\* CMD.start (owlies_agent.lua) gave that agent its client_fd, whatever the
\* number of connections and however their events interleave.
THEOREM PacketsRoutedHome == Spec => []RoutedHome
<1>1. Owned => RoutedHome
  <2>. SUFFICES ASSUME Owned, NEW a \in Agents, NEW i \in 1..Len(queue[a]),
                       queue[a][i].type = "client"
                PROVE  client_fd[a] = queue[a][i].fd /\ owner[a] = queue[a][i].fd
    BY DEF RoutedHome
  <2>1. queue[a] \in Seq(Allowed(owner, client_fd)[a])
    BY DEF Owned, Queues, Names
  <2>2. queue[a][i] \in Allowed(owner, client_fd)[a]
    BY <2>1, ElementInSet
  <2>3. client_fd[a] = queue[a][i].fd /\ queue[a][i].fd \in Fds
    BY SMTT(40), <2>2, AllowedAgent
  <2>. QED  BY SMTT(40), <2>3, HandlesAssumption DEF Owned
<1>. QED  BY <1>1, TypesInit, TypesStep, OwnedInit, OwnedStep, PTL DEF Spec
=============================================================================
