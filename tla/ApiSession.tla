----------------------------- MODULE ApiSession -----------------------------
(***************************************************************************)
(* The agents, owlies_api and the services that hold its data, together:   *)
(* what becomes of the messages of the clients.                            *)
(***************************************************************************)
EXTENDS ApiService, AgentDispatch

vars == <<sent, alive, queues, stage, serviceVars, networkSessionMap, agentVars>>

Init ==
  /\ CallsInit
  /\ DataServicesInit
  /\ LoginInit
  /\ DispatchInit
  /\ networkSessionMap = [fd \in Fds |-> Nil]

Client ==
  /\ \/ \E fd \in Fds, m \in Wire : client_sends(fd, m) /\ UNCHANGED agentVars
     \/ \E fd \in Fds : disconnect(fd)
  /\ UNCHANGED <<stage, serviceVars, networkSessionMap>>

Agent(j) == AgentStep(j) /\ UNCHANGED <<stage, serviceVars, networkSessionMap>>

Answers == {"ok", "bad", "failed", "hit", "miss"}

Api ==
  \E j \in Jobs :
    /\ \/ ApiStep(j)
       \/ \E what \in Answers : LoginStep(j, what) /\ UNCHANGED networkSessionMap
    /\ UNCHANGED agentVars

apart == <<sent, alive, agentQ, stage, networkSessionMap, agentVars>>

Service(s) == ServiceStep(s) /\ UNCHANGED apart
Socket(s) == SocketStep(s) /\ UNCHANGED apart
Lost(s) == socket_close(s) /\ UNCHANGED apart

Next ==
  \/ Client \/ (\E j \in Jobs : Agent(j)) \/ Api
  \/ \E s \in DataService : Service(s) \/ Socket(s) \/ Lost(s)

Spec == Init /\ [][Next]_vars

\* Every service gets a thread again and again.  MySQL and redis answer what
\* they are asked while the connection stands, and an attempt to connect
\* comes to an end; nothing makes a connection fail.
FairSpec ==
  /\ Spec
  /\ \A fd \in Fds : WF_vars(\E k \in 1..MaxMsgs : Agent(<<fd, k>>))
  /\ WF_vars(Api)
  /\ \A s \in DataService : WF_vars(Service(s)) /\ WF_vars(Socket(s))

-----------------------------------------------------------------------------
\* The variables have the values the code gives them: networkSessionMap only
\* holds sessions that were received, and the coroutines of agent, owlies_api
\* and the data services are where their handlers can wait.
TypeOK ==
  /\ \A fd \in Fds : Len(sent[fd]) <= MaxMsgs
  /\ alive \subseteq Fds
  /\ networkSessionMap \in [Fds -> {Received(m.session) : m \in Wire} \cup {Nil}]
  /\ stage \in [Jobs -> Stages]
  /\ call \in [Jobs -> {"none", "lost", "waiting", "syncing", "ended", "replied", "raised"}]
  /\ conn \in [DataService -> {"up", "down", "opening"}]
  /\ channel \in [DataService -> {"asleep", "data", "connected", "refused"}]
  /\ draining \in [DataService -> BOOLEAN]
  /\ faults \in 0..MaxFaults

IsLogin(m) == m.name = LoginRequest /\ m.type = ChangeEvent

\* The session owlies_api has for a connection is that of a login the same
\* client sent, or was reached from one by messages of this client that carry
\* every session in between: updateClientSession (owlies_api.lua) lets no
\* session be skipped or taken from another connection, however the calls of
\* the agents interleave.
SessionIsAnUnbrokenRun ==
  \A fd \in Fds :
    networkSessionMap[fd] # Nil =>
      \E l \in 1..Len(sent[fd]) :
        LET start == Received(sent[fd][l].session) IN
        /\ IsLogin(sent[fd][l])
        /\ start <= networkSessionMap[fd]
        /\ \A s \in (start + 1)..networkSessionMap[fd] :
             \E i \in (l + 1)..Len(sent[fd]) : Received(sent[fd][i].session) = s

\* A LoginResponse goes only to the connection of a complete LoginRequest
\* (dispatch in owlies_agent.lua, processApiCall in owlies_api.lua), at most
\* one for each.
RepliesAreLogins ==
  \A fd \in Fds : \A i \in 1..Len(replies[fd]) :
    /\ IsLogin(sent[fd][replies[fd][i]]) /\ sent[fd][replies[fd][i]].complete
    /\ \A k \in 1..Len(replies[fd]) : replies[fd][k] = replies[fd][i] => k = i

\* Every coroutine of db_service and owlies_redis gets the response to its own
\* request: the channel (socketchannel.lua) pairs responses and requests by
\* their order alone, while several requests are on the way, several
\* responses arrive at once, and the connection is lost and made again.
ResponsesAreOwn ==
  \A s \in DataService : \A w \in woken[s] :
    w.why = "answer" => w.of = w.request

\* Nothing is queued, on the way or being handled.
AtRest ==
  /\ apiQ = <<>> /\ \A fd \in Fds : agentQ[fd] = <<>>
  /\ \A s \in DataService :
       /\ dataQ[s] = <<>> /\ wire[s] = <<>> /\ ~draining[s]
       /\ conn[s] # "opening"

\* At rest no coroutine of owlies_api waits, and the coroutines of running
\* agents are finished: every error path of the login answers its caller.
\* Excepted are the coroutines that asked for syncError, which owlies_api
\* never answers, and after a failure those whose request is left marked in
\* its service because another coroutine raised first (suspend, skynet.lua).
NothingWaitsAtRest ==
  AtRest =>
    \A j \in Jobs :
      \/ stage[j] = "none" /\ (j[1] \in alive => call[j] # "waiting")
      \/ Stranded(j) /\ faults > 0

\* Every call of owlies_api comes back to the agent (with the answer, or with
\* the error that makes it ask for syncError), unless the agent exits first
\* or the request is left marked in its data service.
EveryCallReturns ==
  \A j \in Jobs :
    call[j] = "waiting" ~> (call[j] # "waiting" \/ j[1] \notin alive \/ Stranded(j))

\* updateClientSession logs "Missing sessions: client ..." (owlies_api.lua:35)
\* when it refuses a session, so a client that has counted on by one from the
\* session owlies_api holds is not refused.
MissingSessionsIsTrue ==
  \A j \in Jobs :
    /\ apiQ # <<>> /\ Head(apiQ) = Entry("receivedChangeEvent", j)
    /\ updateClientSession(j) = "false"
    => Message(j).session # networkSessionMap[j[1]] + 1

\* What the names say (message_request_type.lua, and the log line
\* "---received api call---" of CMD.receivedApiCall): a request that reaches
\* receivedApiCall is an ApiCall.
ApiCallsReachApi ==
  apiQ # <<>> /\ Head(apiQ).what = "receivedApiCall" =>
    Message(Head(apiQ).job).type = ApiCall
=============================================================================
