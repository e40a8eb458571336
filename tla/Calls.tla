-------------------------------- MODULE Calls -------------------------------
(***************************************************************************)
(* What the services behind a connection share: the messages its client    *)
(* sent and the queues of the agents, of owlies_api, of db_service and of  *)
(* owlies_redis.                                                           *)
(*                                                                         *)
(* Every client message is handled by a coroutine of its own in the agent  *)
(* and, while the agent waits in skynet.call, by one in owlies_api.  Both  *)
(* are named by the pair of the connection and the message's number on it, *)
(* which stands for skynet's session of the call.  skynet delivers the     *)
(* messages of one service in the order they were posted, and drops what   *)
(* is posted to an agent that exited.                                      *)
(***************************************************************************)
EXTENDS Naturals, Sequences, MessageCodec

CONSTANTS
  Fds,        \* the connections, each with its own agent
  Wire,       \* the messages a client may send
  MaxMsgs,    \* bound: messages per connection
  Nil         \* Lua's nil

\* message_request_type.lua, and a type it does not name.
ChangeEvent == 1
ApiCall == 2

LoginRequest == "LoginRequest"

ASSUME WireAssumption ==
  /\ MaxMsgs \in Nat
  /\ \A m \in Wire : /\ DOMAIN m = {"type", "name", "session", "complete"}
                     /\ m.session \in Nat /\ m.complete \in BOOLEAN

VARIABLES
  sent,       \* sent[fd]: the messages the client of fd sent, in order
  alive,      \* the connections whose agent runs
  agentQ,     \* agentQ[fd]: the queue of fd's agent
  apiQ,       \* the queue of owlies_api
  dataQ       \* dataQ[s]: the queue of the data service s

queues == <<agentQ, apiQ, dataQ>>

DataService == {"db_service", "owlies_redis"}

Jobs == Fds \X (1..MaxMsgs)

\* The message job j handles.
Message(j) == sent[j[1]][j[2]]

\* The session of job j's message as unpackMessage reads it.
Session(j) == Received(Message(j).session)

\* What an entry of a queue says: a request or an answer, and whose.
Entry(what, j) == [what |-> what, job |-> j]

\* skynet.ret, or the error that answers a call whose handler raised.
Answer(j, what) ==
  agentQ' = IF j[1] \in alive
              THEN [agentQ EXCEPT ![j[1]] = Append(@, Entry(what, j))]
              ELSE agentQ

CallsInit ==
  /\ sent = [fd \in Fds |-> <<>>]
  /\ alive = Fds
  /\ agentQ = [fd \in Fds |-> <<>>]
  /\ apiQ = <<>>
  /\ dataQ = [s \in DataService |-> <<>>]

\* A client sends a message and the gate forwards it to the agent.
client_sends(fd, m) ==
  /\ fd \in alive /\ Len(sent[fd]) < MaxMsgs
  /\ sent' = [sent EXCEPT ![fd] = Append(@, m)]
  /\ agentQ' = [agentQ EXCEPT ![fd] =
                  Append(@, Entry("client", <<fd, Len(sent[fd]) + 1>>))]
  /\ UNCHANGED <<alive, apiQ, dataQ>>
=============================================================================
