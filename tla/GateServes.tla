----------------------------- MODULE GateServes -----------------------------
(***************************************************************************)
(* Fresh is an invariant, second half: the handlers of the gate keep it.   *)
(***************************************************************************)
EXTENDS GateStart

\* The gate took its next message, which is about fd.
Served(fd) ==
  gateQ # <<>> /\ gateQ' = Tail(gateQ) /\ Head(gateQ).fd = fd /\ sock' = sock

USE DEF Served

\* How the handlers of the gate take a message.
LEMMA ServedBy ==
  ASSUME Types, NEW fd \in Fds, NEW t, NEW s, NEW m, s # "gate",
         Incoming("gate", t, fd), sock' = sock,
         queue' = Taken("gate") \/ queue' = Post(Taken("gate"), s, m)
  PROVE  Served(fd)
<1>1. queue["gate"] # <<>> /\ Head(queue["gate"]).fd = fd
  BY DEF Incoming
<1>2. "gate" \in Names /\ queue \in [Names -> Seq(Messages)]
  BY DEF Names, Services, Types, Queues
<1>3. Taken("gate") \in Queues(Any) /\ Taken("gate")["gate"] = Tail(queue["gate"])
  BY ZenonT(60), <1>1, <1>2, TakenAny DEF Types, Taken
<1>4. queue'["gate"] = Tail(queue["gate"])
  BY <1>3, PostAt
<1>. QED  BY <1>1, <1>4 DEF gateQ

LEMMA GateName ==
  "watchdog" # "gate" /\ Nil # "gate" /\ \A a \in Agents : a # "gate"
BY HandlesAssumption DEF Services

\* A message that changes nothing else.
LEMMA FreshQuiet ==
  ASSUME Types, Fresh, NEW fd \in Fds, Served(fd), UNCHANGED <<ctrl, gsConn, cagent>>
  PROVE  Fresh'
<1>1. \A f \in Fds : NotStarted(f) => NotStarted(f)'
  BY FreshTail
<1>2. \A i \in 1..Len(ctrl') : sock'[ctrl'[i].fd] # "unused"
  BY DEF Fresh
<1>3. fd \in Fds /\ gsConn[fd] # "nil" /\ cagent[fd] = Nil => NotStarted(fd)
  BY DEF Fresh
<1>4. fd \in Fds /\ sock[fd] = "unused" => gsConn[fd] = "nil" /\ NotStarted(fd)
  BY DEF Fresh
<1>5. \A i \in 1..Len(gateQ') : gateQ'[i].type = "open" /\ gateQ'[i].fd = fd =>
        fd \in Fds /\ gsConn[fd] = "nil" /\ NotStarted(fd)
  BY FreshTail DEF Fresh
<1>6. Settled(fd)
  BY <1>1, <1>2, <1>3, <1>4, <1>5 DEF Settled
<1>. QED  BY <1>6, FreshServed

LEMMA FreshClosed ==
  ASSUME Types, Fresh, NEW fd \in Fds, NEW t, MSG_close(fd, t)
  PROVE  Fresh'
<1>1. Served(fd)
  BY ServedBy, GateName DEF MSG_close, socketVars
<1>2. /\ gsConn'[fd] = "nil" /\ \A f \in Fds : f # fd => gsConn'[f] = gsConn[f]
      /\ \A f \in Fds : f # fd => cagent'[f] = cagent[f]
      /\ ctrl' = ctrl
  BY SMTT(40) DEF MSG_close, close_fd, socketVars, Types
<1>3. \A f \in Fds : NotStarted(f) => NotStarted(f)'
  BY SMTT(40), <1>1, <1>2, FreshTail
<1>4. \A i \in 1..Len(ctrl') : sock'[ctrl'[i].fd] # "unused"
  BY <1>1, <1>2 DEF Fresh
<1>5. sock[fd] = "unused" => NotStarted(fd)
  BY DEF Fresh
<1>6. \A i \in 1..Len(gateQ') : gateQ'[i].type = "open" /\ gateQ'[i].fd = fd => NotStarted(fd)
  BY <1>1, FreshTail DEF Fresh
<1>7. Settled(fd)
  BY <1>1, <1>2, <1>3, <1>4, <1>5, <1>6 DEF Settled
<1>. QED  BY <1>7, FreshServed

LEMMA FreshDispatched ==
  ASSUME Types, Fresh, NEW fd \in Fds, dispatch_msg(fd)
  PROVE  Fresh'
<1>1. cagent[fd] # "gate"
  BY GateName DEF Types
<1>2. Served(fd)
  BY ZenonT(60), <1>1, ServedBy, GateName DEF dispatch_msg, socketVars
<1>. QED  BY <1>2, FreshQuiet DEF dispatch_msg, gateVars, socketVars

\* What a request to the socket thread does to its queue.
LEMMA RequestAt ==
  ASSUME Types, NEW op \in {"start", "close"}, NEW fd \in Fds, ctrl' = Request(op, fd)
  PROVE  /\ Len(ctrl) \in Nat /\ Len(ctrl') = Len(ctrl) + 1
         /\ \A i \in 1..Len(ctrl') :
              \/ i \in 1..Len(ctrl) /\ ctrl'[i] = ctrl[i]
              \/ i = Len(ctrl) + 1 /\ ctrl'[i] = [op |-> op, fd |-> fd]
BY SMTT(40), AppendIndices, GateQueueType DEF Request, CtrlRequests

LEMMA RequestKnown ==
  ASSUME Types, Fresh, NEW op \in {"start", "close"}, NEW fd \in Fds, ctrl' = Request(op, fd),
         sock' = sock, sock[fd] # "unused"
  PROVE  \A i \in 1..Len(ctrl') : sock'[ctrl'[i].fd] # "unused"
<1>. SUFFICES ASSUME NEW i \in 1..Len(ctrl')  PROVE sock[ctrl'[i].fd] # "unused"
  OBVIOUS
<1>1. CASE i \in 1..Len(ctrl) /\ ctrl'[i] = ctrl[i]
  BY <1>1 DEF Fresh
<1>2. CASE ctrl'[i] = [op |-> op, fd |-> fd]
  BY <1>2
<1>. QED  BY SMTT(40), <1>1, <1>2, RequestAt

LEMMA RequestKeeps ==
  ASSUME Types, Fresh, NEW op \in {"start", "close"}, NEW fd \in Fds, ctrl' = Request(op, fd),
         Served(fd), NEW f \in Fds, op = "close" \/ f # fd, NotStarted(f)
  PROVE  NotStarted(f)'
<1>1. ASSUME NEW i \in 1..Len(ctrl')  PROVE ctrl'[i] # [op |-> "start", fd |-> f]
  <2>1. CASE i \in 1..Len(ctrl) /\ ctrl'[i] = ctrl[i]
    BY <2>1 DEF NotStarted
  <2>2. CASE ctrl'[i] = [op |-> op, fd |-> fd]
    <3>1. ctrl'[i].op = op /\ ctrl'[i].fd = fd
      BY <2>2
    <3>. QED  BY <3>1
  <2>. QED  BY SMTT(40), <2>1, <2>2, RequestAt
<1>2. ASSUME NEW i \in 1..Len(gateQ'), gateQ'[i].type = "data"  PROVE gateQ'[i].fd # f
  <2>1. i + 1 \in 1..Len(gateQ) /\ gateQ'[i] = gateQ[i + 1]
    BY FreshTail
  <2>2. \A k \in 1..Len(gateQ) : gateQ[k].type = "data" => gateQ[k].fd # f
    BY DEF NotStarted
  <2>3. gateQ[i + 1].type = "data" => gateQ[i + 1].fd # f
    BY <2>1, <2>2
  <2>. QED  BY <1>2, <2>1, <2>3
<1>3. sock'[f] \notin {"connected", "halfclose"}
  BY DEF NotStarted
<1>. QED  BY <1>1, <1>2, <1>3 DEF NotStarted

LEMMA FreshOpened ==
  ASSUME Types, Fresh, NEW fd \in Fds, MSG_open(fd)
  PROVE  Fresh'
<1>1. Served(fd)
  <2>1. Incoming("gate", "open", fd) /\ sock' = sock
    BY DEF MSG_open
  <2>2. \/ queue' = Taken("gate")
        \/ queue' = Post(Taken("gate"), "watchdog", Msg("open", fd, Nil))
    BY DEF MSG_open
  <2>. QED  BY <2>1, <2>2, ServedBy, GateName
<1>2. Head(gateQ).type = "open"
  BY SMTT(40) DEF MSG_open, Incoming, gateQ
<1>3. sock[fd] # "unused" /\ gsConn[fd] = "nil" /\ NotStarted(fd)
  BY ZenonT(60), <1>1, <1>2, FreshTail DEF Fresh
<1>6. ASSUME NEW i \in 1..Len(gateQ'), gateQ'[i].type = "open"  PROVE gateQ'[i].fd # fd
  <2>1. /\ 1 \in 1..Len(gateQ) /\ gateQ[1] = Head(gateQ)
        /\ i + 1 \in 1..Len(gateQ) /\ gateQ'[i] = gateQ[i + 1] /\ i \in Nat /\ i # 0
    BY SMTT(40), <1>1, FreshTail
  <2>2. gateQ[i + 1].fd = gateQ[1].fd => i + 1 = 1
    BY ZenonT(60), <1>2, <1>6, <2>1 DEF Fresh
  <2>. QED  BY <1>1, <2>1, <2>2
<1>4. CASE client_number >= MaxClient
  <2>1. ctrl' = Request("close", fd) /\ UNCHANGED <<gsConn, cagent>>
    BY <1>4 DEF MSG_open, gateVars
  <2>2. ASSUME NEW f \in Fds, NotStarted(f)  PROVE NotStarted(f)'
    BY <2>1, <2>2, RequestKeeps, <1>1
  <2>3. \A i \in 1..Len(ctrl') : sock'[ctrl'[i].fd] # "unused"
    BY SMTT(40), <2>1, RequestKnown, <1>1, <1>3
  <2>4. Settled(fd)
    BY <1>1, <1>3, <1>6, <2>1, <2>2, <2>3 DEF Settled
  <2>. QED  BY <2>4, FreshServed
<1>5. CASE ~(client_number >= MaxClient)
  <2>1. gsConn' = [gsConn EXCEPT ![fd] = "true"] /\ UNCHANGED <<ctrl, cagent>>
    BY <1>5 DEF MSG_open
  <2>2. \A f \in Fds : f # fd => gsConn'[f] = gsConn[f]
    BY <2>1
  <2>3. \A f : NotStarted(f) => NotStarted(f)'
    BY <1>1, <2>1, FreshTail
  <2>4. \A i \in 1..Len(ctrl') : sock'[ctrl'[i].fd] # "unused"
    BY <1>1, <2>1 DEF Fresh
  <2>5. \A f \in Fds : f # fd => gsConn'[f] = gsConn[f] /\ cagent'[f] = cagent[f]
    BY <2>1, <2>2
  <2>6. Settled(fd)
    BY <1>1, <1>3, <1>6, <2>3, <2>4, <2>5 DEF Settled
  <2>. QED  BY <2>6, FreshServed
<1>. QED  BY <1>4, <1>5

LEMMA FreshForwarded ==
  ASSUME Types, Owned, Fresh, NEW fd \in Fds, CMD_forward(fd)
  PROVE  Fresh'
<1>. DEFINE a == Head(queue["gate"]).agent
<1>0. a \in Agents
  BY SMTT(40), ForwardSender
<1>1. Served(fd)
  <2>1. Incoming("gate", "forward", fd) /\ sock' = sock
    BY DEF CMD_forward
  <2>2. \E t \in {"forwarded", "forwardfailed"} :
          queue' = Post(Taken("gate"), a, Msg(t, fd, Nil))
    BY DEF CMD_forward
  <2>3. a # "gate"
    BY <1>0, GateName
  <2>. HIDE DEF a
  <2>. QED  BY <2>1, <2>2, <2>3, ServedBy
<1>2. /\ cagent'[fd] = cagent[fd] \/ cagent'[fd] # Nil
      /\ \A f \in Fds : f # fd => cagent'[f] = cagent[f]
      /\ gsConn' = gsConn
  BY SMTT(40), <1>0, HandlesAssumption DEF CMD_forward, Types
<1>3. CASE fd \in connection /\ gsConn[fd] = "true"
  <2>1. ctrl' = Request("start", fd) /\ cagent'[fd] # Nil
    BY <1>0, <1>3, HandlesAssumption DEF CMD_forward, Types
  <2>2. ASSUME NEW f \in Fds, f # fd, NotStarted(f)  PROVE NotStarted(f)'
    BY <2>1, <2>2, RequestKeeps, <1>1
  <2>3. sock[fd] # "unused"
    BY <1>3 DEF Fresh
  <2>4. \A i \in 1..Len(ctrl') : sock'[ctrl'[i].fd] # "unused"
    BY <2>1, <2>3, RequestKnown, <1>1
  <2>5. \A i \in 1..Len(gateQ') : gateQ'[i].type = "open" => gateQ'[i].fd # fd
    BY <1>1, <1>3, FreshTail DEF Fresh
  <2>6. \A f \in Fds : f # fd => gsConn'[f] = gsConn[f] /\ cagent'[f] = cagent[f]
    BY <1>2
  <2>7. \A f \in Fds : f # fd /\ NotStarted(f) => NotStarted(f)'
    BY <2>2
  <2>8. /\ ~(fd \in Fds /\ gsConn'[fd] # "nil" /\ cagent'[fd] = Nil)
        /\ ~(fd \in Fds /\ sock[fd] = "unused")
        /\ \A i \in 1..Len(gateQ') : ~(gateQ'[i].type = "open" /\ gateQ'[i].fd = fd)
    BY <2>1, <2>3, <2>5
  <2>9. gateQ # <<>> /\ gateQ' = Tail(gateQ) /\ sock' = sock
    BY <1>1
  <2>10. Settled(fd)
    BY <2>4, <2>6, <2>7, <2>8, <2>9 DEF Settled
  <2>. QED  BY <2>10, FreshServed
<1>4. CASE ~(fd \in connection /\ gsConn[fd] = "true")
  <2>1. ctrl' = ctrl
    BY <1>4 DEF CMD_forward
  <2>2. \A f \in Fds : NotStarted(f) => NotStarted(f)'
    BY <1>1, <2>1, FreshTail
  <2>3. \A i \in 1..Len(ctrl') : sock'[ctrl'[i].fd] # "unused"
    BY <1>1, <2>1 DEF Fresh
  <2>4. /\ gsConn[fd] # "nil" /\ cagent[fd] = Nil => NotStarted(fd)
        /\ sock[fd] = "unused" => gsConn[fd] = "nil" /\ NotStarted(fd)
    BY DEF Fresh
  <2>5. \A i \in 1..Len(gateQ') : gateQ'[i].type = "open" /\ gateQ'[i].fd = fd =>
          gsConn[fd] = "nil" /\ NotStarted(fd)
    BY <1>1, FreshTail DEF Fresh
  <2>6. Settled(fd)
    BY <1>1, <1>2, <2>1, <2>2, <2>3, <2>4, <2>5 DEF Settled
  <2>. QED  BY <2>6, FreshServed
<1>. QED  BY <1>3, <1>4

LEMMA FreshKicked ==
  ASSUME Types, Fresh, NEW fd \in Fds, CMD_kick(fd)
  PROVE  Fresh'
<1>1. Served(fd) /\ cagent' = cagent
  BY ServedBy, GateName DEF CMD_kick
<1>2. CASE gsConn[fd] = "true"
  <2>1. ctrl' = Request("close", fd) /\ gsConn' = [gsConn EXCEPT ![fd] = "false"]
    BY <1>2 DEF CMD_kick
  <2>2. gsConn'[fd] = "false" /\ \A f \in Fds : f # fd => gsConn'[f] = gsConn[f]
    BY <2>1 DEF Types
  <2>3. ASSUME NEW f \in Fds, NotStarted(f)  PROVE NotStarted(f)'
    BY <2>1, <2>3, RequestKeeps, <1>1
  <2>4. sock[fd] # "unused"
    BY <1>2 DEF Fresh
  <2>5. \A i \in 1..Len(ctrl') : sock'[ctrl'[i].fd] # "unused"
    BY <2>1, <2>4, RequestKnown, <1>1
  <2>6. \A i \in 1..Len(gateQ') : gateQ'[i].type = "open" => gateQ'[i].fd # fd
    BY SMTT(40), <1>1, <1>2, FreshTail DEF Fresh
  <2>7. cagent[fd] = Nil => NotStarted(fd)
    BY <1>2 DEF Fresh
  <2>8. Settled(fd)
    BY <1>1, <2>2, <2>3, <2>4, <2>5, <2>6, <2>7 DEF Settled
  <2>. QED  BY <2>8, FreshServed
<1>3. CASE gsConn[fd] # "true"
  <2>1. UNCHANGED <<ctrl, gsConn>>
    BY <1>3 DEF CMD_kick
  <2>. QED  BY <1>1, <2>1, FreshQuiet
<1>. QED  BY <1>2, <1>3

LEMMA FreshGate ==
  ASSUME Types, Owned, Fresh, GateStep
  PROVE  Fresh'
BY FreshClosed, FreshDispatched, FreshOpened, FreshForwarded, FreshKicked DEF GateStep

LEMMA FreshStep == Types /\ Owned /\ Fresh /\ [Next]_vars => Fresh'
<1>. SUFFICES ASSUME Types, Owned, Fresh, [Next]_vars  PROVE Fresh'
  OBVIOUS
<1>1. ASSUME gateQ' = gateQ, UNCHANGED <<sock, ctrl, gateVars>>  PROVE Fresh'
  <2>1. \A f : NotStarted(f) <=> NotStarted(f)'
    BY <1>1 DEF NotStarted
  <2>. QED  BY <1>1, <2>1 DEF Fresh, gateVars
<1>2. ASSUME UNCHANGED vars  PROVE Fresh'
  BY <1>1, <1>2 DEF vars, socketVars, gateQ
<1>3. ASSUME NEW m \in Messages, m.type \in {"forward", "kick"}, gateQ' = Append(gateQ, m),
             UNCHANGED <<sock, ctrl, gateVars>>
      PROVE  Fresh'
  BY <1>3, FreshAppend DEF gateVars
<1>. QED  BY <1>1, <1>2, <1>3, FreshSocket, FreshGate, GateView DEF Next
=============================================================================
