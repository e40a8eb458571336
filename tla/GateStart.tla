----------------------------- MODULE GateStart ------------------------------
(***************************************************************************)
(* The third layer: the gate's queue and the connections that were not     *)
(* started yet.                                                            *)
(***************************************************************************)
EXTENDS LifecycleProofs

-----------------------------------------------------------------------------
(* Layer 3: a connection whose agent the gate does not know yet has never  *)
(* been started, and its "open" event is in the gate's queue at most once. *)

gateQ == queue["gate"]

NotStarted(fd) ==
  /\ sock[fd] \notin {"connected", "halfclose"}
  /\ \A i \in 1..Len(ctrl) : ctrl[i] # [op |-> "start", fd |-> fd]
  /\ \A i \in 1..Len(gateQ) : gateQ[i].type = "data" => gateQ[i].fd # fd

Fresh ==
  /\ \A i \in 1..Len(gateQ) : gateQ[i].type = "open" =>
       /\ gateQ[i].fd \in Fds
       /\ sock[gateQ[i].fd] # "unused" /\ gsConn[gateQ[i].fd] = "nil"
       /\ NotStarted(gateQ[i].fd)
  /\ \A i, j \in 1..Len(gateQ) :
       gateQ[i].type = "open" /\ gateQ[j].type = "open" /\ gateQ[i].fd = gateQ[j].fd => i = j
  /\ \A fd \in Fds : sock[fd] = "unused" => gsConn[fd] = "nil" /\ NotStarted(fd)
  /\ \A fd \in Fds : gsConn[fd] # "nil" /\ cagent[fd] = Nil => NotStarted(fd)
  /\ \A i \in 1..Len(ctrl) : sock[ctrl[i].fd] # "unused"

LEMMA PostAt ==
  ASSUME NEW q \in Queues(Any), NEW s, NEW m
  PROVE  Post(q, s, m)["gate"] = IF s = "gate" THEN Append(q["gate"], m) ELSE q["gate"]
<1>1. "gate" \in Names /\ "gate" \notin Agents
  BY HandlesAssumption DEF Names, Services
<1>2. q \in [Names -> Seq(Messages)]
  BY DEF Queues
<1>. QED  BY <1>1, <1>2 DEF Post

\* The services other than the gate only ever append "forward" and "kick"
\* to the gate's queue.
LEMMA GateView ==
  ASSUME Types, LauncherStep \/ WatchdogStep \/ CMD_close
                \/ \E a \in Agents : AgentInitStep(a) \/ AgentStep(a)
  PROVE  /\ UNCHANGED <<sock, ctrl, gateVars>>
         /\ \/ gateQ' = gateQ
            \/ \E m \in Messages : m.type \in {"forward", "kick"} /\ gateQ' = Append(gateQ, m)
<1>u. UNCHANGED <<sock, ctrl, gateVars>>
  BY DEF LauncherStep, WatchdogStep, CMD_close, AgentInitStep, AgentStep, socketVars
<1>n. /\ "gate" # "launcher" /\ "gate" # "watchdog" /\ "gate" # Nil
      /\ "gate" \notin Agents /\ {"gate", "launcher", "watchdog"} \cup Agents = Names
  BY HandlesAssumption DEF Services, Names
<1>t. ASSUME NEW s \in Names, s # "gate", queue[s] # <<>>
      PROVE  Taken(s) \in Queues(Any) /\ Taken(s)["gate"] = gateQ
  <2>1. Taken(s) \in Queues(Any) /\ queue \in [Names -> Seq(Messages)]
    BY <1>t, TakenAny DEF Types, Queues
  <2>. QED  BY <2>1, <1>t, <1>n DEF Taken, gateQ
<1>p. ASSUME NEW q \in Queues(Any), q["gate"] = gateQ, NEW s, s # "gate", NEW m
      PROVE  Post(q, s, m)["gate"] = gateQ
  BY <1>p, PostAt
<1>1. CASE LauncherStep
  <2>1. ASSUME NEW fd \in Fds, LAUNCH(fd)  PROVE gateQ' = gateQ
    BY <2>1, <1>t, <1>p, <1>n DEF LAUNCH, Incoming, gateQ
  <2>2. ASSUME NEW t, report(t)  PROVE gateQ' = gateQ
    BY <2>2, <1>t, <1>p, <1>n DEF report, Incoming, gateQ
  <2>. QED  BY <1>1, <2>1, <2>2, <1>u DEF LauncherStep
<1>2. CASE WatchdogStep
  <2>. DEFINE Kicked == \E m \in Messages : m.type = "kick" /\ gateQ' = Append(gateQ, m)
  <2>0. ASSUME queue["watchdog"] # <<>>
        PROVE  Taken("watchdog") \in Queues(Any) /\ Taken("watchdog")["gate"] = gateQ
    BY <2>0, <1>t, <1>n
  <2>1. ASSUME NEW fd \in Fds, SOCKET_open(fd)  PROVE gateQ' = gateQ
    BY <2>1, <2>0, <1>p, <1>n DEF SOCKET_open, Incoming, gateQ
  <2>2. ASSUME NEW fd \in Fds, SOCKET_open_launched(fd)  PROVE gateQ' = gateQ
    <3>1. Head(queue["watchdog"]).agent # "gate"
      BY <2>2, TakenAny, <1>n DEF SOCKET_open_launched, Incoming, Types
    <3>. QED  BY <2>2, <3>1, <2>0, <1>p DEF SOCKET_open_launched, Incoming, gateQ
  <2>3. ASSUME NEW fd \in Fds, NEW t, SOCKET_open_ends(fd, t)  PROVE gateQ' = gateQ
    BY <2>3, <2>0 DEF SOCKET_open_ends, Incoming, gateQ
  <2>4. ASSUME NEW fd \in Fds, NEW t, close_agent(fd, t)  PROVE gateQ' = gateQ \/ Kicked
    <3>1. Msg("kick", fd, Nil) \in Messages /\ Msg("kick", fd, Nil).type = "kick"
      BY MsgType DEF MsgTypes, Msg
    <3>2. CASE agent[fd] # Nil
      <4>1. queue' = Post(Taken("watchdog"), "gate", Msg("kick", fd, Nil))
        BY <2>4, <3>2 DEF close_agent
      <4>2. Taken("watchdog") \in Queues(Any) /\ Taken("watchdog")["gate"] = gateQ
        BY <2>4, <2>0 DEF close_agent, Incoming
      <4>3. gateQ' = Append(gateQ, Msg("kick", fd, Nil))
        BY ZenonT(60), <4>1, <4>2, PostAt DEF gateQ
      <4>. QED  BY <3>1, <4>3
    <3>3. CASE agent[fd] = Nil
      BY <2>4, <3>3, <2>0 DEF close_agent, Incoming, gateQ
    <3>. QED  BY <3>2, <3>3
  <2>5. ASSUME NEW fd \in Fds, close_agent_kicked(fd)  PROVE gateQ' = gateQ
    <3>1. kicking[fd] # "gate"
      BY <1>n DEF Types, WatchdogTypeOK
    <3>. QED  BY <2>5, <3>1, <2>0, <1>p DEF close_agent_kicked, Incoming, gateQ
  <2>. QED  BY <1>2, <2>1, <2>2, <2>3, <2>4, <2>5, <1>u DEF WatchdogStep
<1>3. CASE CMD_close
  BY <1>3, <1>p, <1>n, <1>u DEF CMD_close, Types, gateQ
<1>4. ASSUME NEW a \in Agents, AgentInitStep(a) \/ AgentStep(a)
      PROVE  \/ gateQ' = gateQ
             \/ \E m \in Messages : m.type = "forward" /\ gateQ' = Append(gateQ, m)
  <2>0. ASSUME queue[a] # <<>>
        PROVE  Taken(a) \in Queues(Any) /\ Taken(a)["gate"] = gateQ
    BY <2>0, <1>t, <1>n
  <2>1. ASSUME NEW ok \in BOOLEAN, init_service(a, ok)  PROVE gateQ' = gateQ
    <3>. DEFINE m == Msg(IF ok THEN "LAUNCHOK" ELSE "ERROR", Nil, a)
                reported == Post(queue, "launcher", m)
    <3>1. m \in Messages
      BY MsgType DEF MsgTypes
    <3>2. queue \in Queues(Any) /\ queue["gate"] = gateQ
      BY DEF Types, gateQ
    <3>3. reported \in Queues(Any)
      BY <3>1, <3>2, PostAny
    <3>4. reported["gate"] = gateQ
      BY <3>2, <1>p, <1>n
    <3>5. Post(reported, "launcher", Msg("REMOVE", Nil, a))["gate"] = gateQ
      BY <3>3, <3>4, <1>p, <1>n
    <3>. QED  BY <2>1, <3>4, <3>5 DEF init_service, gateQ
  <2>2. ASSUME NEW fd \in Fds, CMD_start(a, fd)
        PROVE  \E m \in Messages : m.type = "forward" /\ gateQ' = Append(gateQ, m)
    <3>1. Msg("forward", fd, a) \in Messages /\ Msg("forward", fd, a).type = "forward"
      BY MsgType DEF MsgTypes, Msg
    <3>2. gateQ' = Append(gateQ, Msg("forward", fd, a))
      BY ZenonT(60), <2>2, <2>0, PostAt DEF CMD_start, Incoming, gateQ
    <3>. QED  BY <3>1, <3>2
  <2>3. ASSUME NEW fd \in Fds, NEW t, CMD_start_ends(a, fd, t)  PROVE gateQ' = gateQ
    BY <2>3, <2>0, <1>p, <1>n DEF CMD_start_ends, Incoming, gateQ
  <2>4. ASSUME NEW fd \in Fds, client_dispatch(a, fd)  PROVE gateQ' = gateQ
    BY <2>4, <2>0 DEF client_dispatch, Incoming, gateQ
  <2>5. ASSUME CMD_disconnect(a)  PROVE gateQ' = gateQ
    <3>. DEFINE emptied == [queue EXCEPT ![a] = <<>>]
                removed == Post(emptied, "launcher", Msg("REMOVE", Nil, a))
    <3>1. emptied \in Queues(Any) /\ emptied["gate"] = gateQ
      BY ZenonT(60), EmptyInSeq, AnyIsTyping, <1>n DEF Queues, Types, gateQ
    <3>2. Msg("REMOVE", Nil, a) \in Messages
      BY MsgType DEF MsgTypes
    <3>. HIDE DEF emptied
    <3>3. removed \in Queues(Any) /\ removed["gate"] = gateQ
      BY <3>1, <3>2, PostAny, <1>p, <1>n
    <3>4. queue' = IF starting[a] = "forwarding"
                     THEN Post(removed, "watchdog", Msg("startfailed", client_fd[a], a))
                     ELSE removed
      BY <2>5 DEF CMD_disconnect, emptied
    <3>. HIDE DEF removed
    <3>. QED  BY <3>3, <3>4, <1>p, <1>n DEF gateQ
  <2>. QED  BY <1>4, <2>1, <2>2, <2>3, <2>4, <2>5 DEF AgentInitStep, AgentStep
<1>. QED  BY <1>1, <1>2, <1>3, <1>4, <1>u

LEMMA TailIndices ==
  ASSUME NEW S, NEW q \in Seq(S), q # <<>>
  PROVE  /\ Len(q) \in Nat /\ 1 \in 1..Len(q) /\ Head(q) = q[1]
         /\ Len(Tail(q)) = Len(q) - 1
         /\ \A i \in 1..Len(Tail(q)) : i + 1 \in 1..Len(q) /\ Tail(q)[i] = q[i + 1]
OBVIOUS

LEMMA AppendIndices ==
  ASSUME NEW S, NEW q \in Seq(S), NEW m \in S
  PROVE  /\ Len(q) \in Nat /\ Len(Append(q, m)) = Len(q) + 1
         /\ \A i \in 1..Len(Append(q, m)) :
              (i \in 1..Len(q) /\ Append(q, m)[i] = q[i]) \/ (i = Len(q) + 1 /\ Append(q, m)[i] = m)
OBVIOUS

LEMMA GateQueueType ==
  ASSUME Types
  PROVE  /\ gateQ \in Seq(Messages) /\ ctrl \in Seq(CtrlRequests)
         /\ \A i \in 1..Len(gateQ) : gateQ[i] \in Messages
         /\ \A i \in 1..Len(ctrl) : ctrl[i].fd \in Fds
<1>1. gateQ \in Seq(Messages) /\ ctrl \in Seq(CtrlRequests)
  BY DEF Types, Queues, Names, Services, SocketTypeOK, gateQ
<1>2. \A i \in 1..Len(gateQ) : gateQ[i] \in Messages
  BY <1>1, ElementInSet
<1>3. \A i \in 1..Len(ctrl) : ctrl[i] \in CtrlRequests
  BY <1>1, ElementInSet
<1>. QED  BY <1>1, <1>2, <1>3 DEF CtrlRequests

\* Appending anything but "open" and "data", and nothing else changing, keeps Fresh.
LEMMA FreshAppend ==
  ASSUME Types, Fresh, NEW m \in Messages, m.type \notin {"open", "data"},
         gateQ' = Append(gateQ, m), UNCHANGED <<sock, ctrl, gsConn, cagent>>
  PROVE  Fresh'
<1>1. /\ Len(gateQ) \in Nat /\ Len(gateQ') = Len(gateQ) + 1
      /\ \A i \in 1..Len(gateQ') : gateQ'[i].type \in {"open", "data"} =>
           i \in 1..Len(gateQ) /\ gateQ'[i] = gateQ[i]
  BY AppendIndices, GateQueueType
<1>2. ASSUME NEW fd, NotStarted(fd)  PROVE NotStarted(fd)'
  BY <1>1, <1>2 DEF NotStarted
<1>. QED  BY SMTT(40), <1>1, <1>2 DEF Fresh

\* The gate taking a message keeps what holds of the messages behind it.
LEMMA FreshTail ==
  ASSUME Types, gateQ # <<>>, gateQ' = Tail(gateQ)
  PROVE  /\ Len(gateQ) \in Nat /\ Len(gateQ') = Len(gateQ) - 1
         /\ 1 \in 1..Len(gateQ) /\ Head(gateQ) = gateQ[1]
         /\ \A i \in 1..Len(gateQ') : i + 1 \in 1..Len(gateQ) /\ gateQ'[i] = gateQ[i + 1]
         /\ \A fd : UNCHANGED <<sock, ctrl>> /\ NotStarted(fd) => NotStarted(fd)'
<1>1. /\ Len(gateQ) \in Nat /\ Len(gateQ') = Len(gateQ) - 1
      /\ 1 \in 1..Len(gateQ) /\ Head(gateQ) = gateQ[1]
      /\ \A i \in 1..Len(gateQ') : i + 1 \in 1..Len(gateQ) /\ gateQ'[i] = gateQ[i + 1]
  BY TailIndices, GateQueueType
<1>2. ASSUME NEW fd, UNCHANGED <<sock, ctrl>>, NotStarted(fd)  PROVE NotStarted(fd)'
  BY <1>1, <1>2 DEF NotStarted
<1>. QED  BY <1>1, <1>2

\* The gate served a message about fd and left the other connections alone.
Settled(fd) ==
  /\ gateQ # <<>> /\ gateQ' = Tail(gateQ) /\ sock' = sock
  /\ \A f \in Fds : f # fd => gsConn'[f] = gsConn[f] /\ cagent'[f] = cagent[f]
  /\ \A f \in Fds : f # fd /\ NotStarted(f) => NotStarted(f)'
  /\ gsConn'[fd] # "nil" /\ cagent'[fd] = Nil => NotStarted(fd)'
  /\ sock[fd] = "unused" => gsConn'[fd] = "nil" /\ NotStarted(fd)'
  /\ \A i \in 1..Len(gateQ') : gateQ'[i].type = "open" /\ gateQ'[i].fd = fd =>
       gsConn'[fd] = "nil" /\ NotStarted(fd)'
  /\ \A i \in 1..Len(ctrl') : sock'[ctrl'[i].fd] # "unused"

\* Fresh holds again once it does for the connection served.
LEMMA FreshServed ==
  ASSUME Types, Fresh, NEW fd, Settled(fd)
  PROVE  Fresh'
<1>t. \A i \in 1..Len(gateQ') : i + 1 \in 1..Len(gateQ) /\ gateQ'[i] = gateQ[i + 1]
  BY FreshTail DEF Settled
<1>1. ASSUME NEW i \in 1..Len(gateQ'), gateQ'[i].type = "open"
      PROVE  /\ gateQ'[i].fd \in Fds
             /\ sock'[gateQ'[i].fd] # "unused" /\ gsConn'[gateQ'[i].fd] = "nil"
             /\ NotStarted(gateQ[i].fd)'
  <2>1. PICK f : f = gateQ'[i].fd
    OBVIOUS
  <2>2. f \in Fds /\ sock[f] # "unused" /\ gsConn[f] = "nil" /\ NotStarted(f)
    BY <1>1, <1>t, <2>1 DEF Fresh
  <2>3. gsConn'[f] = "nil" /\ NotStarted(f)'
    BY <1>1, <2>1, <2>2 DEF Settled
  <2>4. NotStarted(gateQ[i].fd)'
    BY SMTT(40), <2>1, <2>3 DEF NotStarted
  <2>. QED  BY <2>1, <2>2, <2>3, <2>4 DEF Settled
<1>2. \A i, j \in 1..Len(gateQ') :
        gateQ'[i].type = "open" /\ gateQ'[j].type = "open" /\ gateQ'[i].fd = gateQ'[j].fd => i = j
  <2>. SUFFICES ASSUME NEW i \in 1..Len(gateQ'), NEW j \in 1..Len(gateQ'),
                       gateQ'[i].type = "open", gateQ'[j].type = "open",
                       gateQ'[i].fd = gateQ'[j].fd
                PROVE  i = j
    OBVIOUS
  <2>1. /\ i + 1 \in 1..Len(gateQ) /\ j + 1 \in 1..Len(gateQ)
        /\ gateQ[i + 1].type = "open" /\ gateQ[j + 1].type = "open"
        /\ gateQ[i + 1].fd = gateQ[j + 1].fd
    BY <1>t
  <2>2. \A k, l \in 1..Len(gateQ) :
          gateQ[k].type = "open" /\ gateQ[l].type = "open" /\ gateQ[k].fd = gateQ[l].fd => k = l
    BY DEF Fresh
  <2>3. i + 1 = j + 1
    BY <2>1, <2>2
  <2>. QED  BY <2>3
<1>3. ASSUME NEW f \in Fds, sock'[f] = "unused"  PROVE gsConn'[f] = "nil" /\ NotStarted(f)'
  <2>1. gsConn[f] = "nil" /\ NotStarted(f)
    BY <1>3 DEF Fresh, Settled
  <2>. QED  BY <1>3, <2>1 DEF Settled
<1>4. ASSUME NEW f \in Fds, gsConn'[f] # "nil", cagent'[f] = Nil  PROVE NotStarted(f)'
  <2>1. CASE f # fd
    BY <1>4, <2>1 DEF Fresh, Settled
  <2>. QED  BY <1>4, <2>1 DEF Settled
<1>. QED  BY <1>1, <1>2, <1>3, <1>4 DEF Fresh, Settled

LEMMA FreshInit == Init => Fresh
BY DEF Init, SkynetInit, SocketInit, GateInit, Fresh, NotStarted, gateQ, Names, Services

\* Every event the socket thread posts is appended to the gate's queue.
LEMMA ToGateAt ==
  ASSUME Types, NEW t \in {"open", "data", "close", "error"}, NEW fd \in Fds,
         queue' = ToGate(t, fd)
  PROVE  /\ Len(gateQ) \in Nat /\ Len(gateQ') = Len(gateQ) + 1
         /\ \A i \in 1..Len(gateQ') :
              \/ i \in 1..Len(gateQ) /\ gateQ'[i] = gateQ[i]
              \/ i = Len(gateQ) + 1 /\ gateQ'[i].type = t /\ gateQ'[i].fd = fd
<1>1. Msg(t, fd, Nil) \in Messages /\ Msg(t, fd, Nil).type = t /\ Msg(t, fd, Nil).fd = fd
  BY MsgType DEF MsgTypes, Msg
<1>2. gateQ' = Append(gateQ, Msg(t, fd, Nil))
  BY ZenonT(60), PostAt DEF ToGate, gateQ, Types
<1>. QED  BY <1>1, <1>2, AppendIndices, GateQueueType

LEMMA FreshSocket ==
  ASSUME Types, Fresh, SocketControl \/ Peer
  PROVE  Fresh'
<1>u. UNCHANGED <<gsConn, cagent>>
  BY DEF SocketControl, Peer, gateVars
<1>c. ASSUME ctrl # <<>>, ctrl' = Tail(ctrl)
      PROVE  /\ 1 \in 1..Len(ctrl) /\ Head(ctrl) = ctrl[1]
             /\ \A i \in 1..Len(ctrl') : i + 1 \in 1..Len(ctrl) /\ ctrl'[i] = ctrl[i + 1]
  BY <1>c, TailIndices, GateQueueType
<1>x. ASSUME NEW fd \in Fds, sock[fd] # "unused", sock'[fd] # "unused",
             \A f \in Fds : f # fd => sock'[f] = sock[f],
             \/ gateQ' = gateQ
             \/ /\ Len(gateQ) \in Nat /\ Len(gateQ') = Len(gateQ) + 1
                /\ \A i \in 1..Len(gateQ') : gateQ'[i].type = "open" =>
                     i \in 1..Len(gateQ) /\ gateQ'[i] = gateQ[i],
             \A f \in Fds : NotStarted(f) => NotStarted(f)',
             ctrl' = ctrl \/ (ctrl # <<>> /\ ctrl' = Tail(ctrl))
      PROVE  Fresh'
  <2>1. \A i \in 1..Len(ctrl') : sock'[ctrl'[i].fd] # "unused"
    <3>1. ASSUME NEW i \in 1..Len(ctrl')
          PROVE  \E j \in 1..Len(ctrl) : ctrl'[i] = ctrl[j]
      BY <1>x, <1>c
    <3>2. \A j \in 1..Len(ctrl) : ctrl[j].fd \in Fds /\ sock[ctrl[j].fd] # "unused"
      BY GateQueueType DEF Fresh
    <3>3. \A f \in Fds : sock[f] # "unused" => sock'[f] # "unused"
      BY <1>x
    <3>. QED  BY ZenonT(60), <3>1, <3>2, <3>3
  <2>. QED  BY SMTT(40), <1>x, <2>1, <1>u DEF Fresh
<1>1. ASSUME NEW fd \in Fds, start_socket(fd)  PROVE Fresh'
  <2>0. ~NotStarted(fd)
    BY <1>1, <1>c DEF start_socket, NotStarted
  <2>1. \/ gateQ' = gateQ
        \/ /\ Len(gateQ) \in Nat /\ Len(gateQ') = Len(gateQ) + 1
           /\ \A i \in 1..Len(gateQ') : gateQ'[i].type \in {"open", "data"} =>
                i \in 1..Len(gateQ) /\ gateQ'[i] = gateQ[i]
    BY <1>1, ToGateAt DEF start_socket, gateQ
  <2>2. \A f \in Fds : f # fd => sock'[f] = sock[f]
    BY SMTT(40), <1>1 DEF start_socket, Types, SocketTypeOK
  <2>3. sock[fd] # "unused" /\ sock'[fd] # "unused"
    BY SMTT(40), <1>1, <2>0 DEF start_socket, Fresh, Types, SocketTypeOK
  <2>4. ASSUME NEW f \in Fds, NotStarted(f)  PROVE NotStarted(f)'
    BY <1>1, <1>c, <2>0, <2>1, <2>2, <2>4 DEF start_socket, NotStarted
  <2>5. ctrl # <<>> /\ ctrl' = Tail(ctrl)
    BY <1>1 DEF start_socket
  <2>. QED  BY <2>1, <2>2, <2>3, <2>4, <2>5, <1>x
<1>2. ASSUME NEW fd \in Fds, close_socket(fd), sock[fd] # "unused"  PROVE Fresh'
  <2>1. \/ gateQ' = gateQ
        \/ /\ Len(gateQ) \in Nat /\ Len(gateQ') = Len(gateQ) + 1
           /\ \A i \in 1..Len(gateQ') : gateQ'[i].type \in {"open", "data"} =>
                i \in 1..Len(gateQ) /\ gateQ'[i] = gateQ[i]
    BY SMTT(40), <1>2, ToGateAt DEF close_socket, gateQ
  <2>2. /\ \A f \in Fds : f # fd => sock'[f] = sock[f]
        /\ sock'[fd] # "unused"
        /\ sock'[fd] = "halfclose" => sock[fd] \in {"connected", "halfclose"}
        /\ sock'[fd] # "connected"
    BY <1>2 DEF close_socket, Types, SocketTypeOK
  <2>3. ASSUME NEW f \in Fds, NotStarted(f)  PROVE NotStarted(f)'
    <3>1. sock'[f] \notin {"connected", "halfclose"}
      BY <2>2, <2>3 DEF NotStarted
    <3>2. \A i \in 1..Len(ctrl') : ctrl'[i] # [op |-> "start", fd |-> f]
      BY <1>2, <1>c, <2>3 DEF close_socket, NotStarted
    <3>3. \A i \in 1..Len(gateQ') : gateQ'[i].type = "data" => gateQ'[i].fd # f
      BY <2>1, <2>3 DEF NotStarted
    <3>. QED  BY <3>1, <3>2, <3>3 DEF NotStarted
  <2>4. ctrl # <<>> /\ ctrl' = Tail(ctrl)
    BY <1>2 DEF close_socket
  <2>. QED  BY <1>2, <2>1, <2>2, <2>3, <2>4, <1>x
<1>3. ASSUME NEW fd \in Fds, report_accept(fd)  PROVE Fresh'
  <2>1. /\ Len(gateQ) \in Nat /\ Len(gateQ') = Len(gateQ) + 1
        /\ \A i \in 1..Len(gateQ') :
             \/ i \in 1..Len(gateQ) /\ gateQ'[i] = gateQ[i]
             \/ i = Len(gateQ) + 1 /\ gateQ'[i].type = "open" /\ gateQ'[i].fd = fd
    BY <1>3, ToGateAt DEF report_accept
  <2>2. /\ \A f \in Fds : f # fd => sock'[f] = sock[f]
        /\ sock[fd] = "unused" /\ sock'[fd] = "paccept" /\ ctrl' = ctrl
    BY <1>3 DEF report_accept, Types, SocketTypeOK
  <2>3. ASSUME NEW f \in Fds, NotStarted(f)  PROVE NotStarted(f)'
    BY SMTT(40), <2>1, <2>2, <2>3 DEF NotStarted
  <2>4. gsConn[fd] = "nil" /\ NotStarted(fd)
    BY <2>2 DEF Fresh
  <2>5. \A i \in 1..Len(gateQ) : gateQ[i].type = "open" => gateQ[i].fd # fd
    BY <2>2 DEF Fresh
  <2>6. \A i \in 1..Len(ctrl') : sock'[ctrl'[i].fd] # "unused"
    BY <2>2, GateQueueType DEF Fresh
  <2>. QED  BY SMTT(40), <2>1, <2>2, <2>3, <2>4, <2>5, <2>6, <1>u DEF Fresh
<1>4. ASSUME NEW fd \in Fds, NEW t, forward_message(fd) \/ force_close(fd, t)  PROVE Fresh'
  <2>1. /\ Len(gateQ) \in Nat /\ Len(gateQ') = Len(gateQ) + 1
        /\ \A i \in 1..Len(gateQ') :
             \/ i \in 1..Len(gateQ) /\ gateQ'[i] = gateQ[i]
             \/ i = Len(gateQ) + 1 /\ gateQ'[i].type # "open" /\ gateQ'[i].fd = fd
    BY <1>4, ToGateAt DEF forward_message, force_close
  <2>2. /\ \A f \in Fds : f # fd => sock'[f] = sock[f]
        /\ sock[fd] \in {"connected", "halfclose"} /\ sock'[fd] # "unused" /\ ctrl' = ctrl
    BY <1>4 DEF forward_message, force_close, Types, SocketTypeOK
  <2>3. ASSUME NEW f \in Fds, NotStarted(f)  PROVE NotStarted(f)'
    BY <2>1, <2>2, <2>3 DEF NotStarted
  <2>. QED  BY <2>1, <2>2, <2>3, <1>x
<1>5. ASSUME NEW fd \in Fds, close_socket(fd)  PROVE sock[fd] # "unused"
  BY SMTT(40), <1>5, TailIndices, GateQueueType DEF close_socket, Fresh
<1>. QED  BY <1>1, <1>2, <1>3, <1>4, <1>5 DEF SocketControl, Peer
=============================================================================
