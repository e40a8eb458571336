------------------------------- MODULE Skynet -------------------------------
(***************************************************************************)
(* What the Owlies services use of the skynet actor runtime: every service *)
(* owns one FIFO message queue, a message is appended to the queue of its  *)
(* destination, and a handle that exited receives nothing any more.        *)
(*                                                                         *)
(* A service handles one message at a time and the handler runs until it   *)
(* returns or until it waits in skynet.call, so the part of a handler      *)
(* between two waits is one action.  The answer of a call is a message     *)
(* like any other; the coroutine waiting for it is named by the connection *)
(* it works for, which stands for skynet's session number.                 *)
(***************************************************************************)
EXTENDS Naturals, Sequences

CONSTANTS
  Fds,      \* the socket ids the listening socket can hand out, never reused
  Agents,   \* the handles the owlies_agent services can get, never reused
  Nil       \* Lua's nil

VARIABLES
  queue,    \* queue[s]: the messages waiting for service s
  svc       \* svc[a]: how far the agent service a is in its life

Services == {"gate", "watchdog", "launcher"}

ASSUME HandlesAssumption ==
  /\ Nil \notin Fds \cup Agents \cup Services
  /\ Agents \cap Services = {}

MsgTypes ==
  {"open", "data", "close", "error"}                  \* socket events
    \cup {"forward", "kick"}                          \* gate commands
    \cup {"start", "client", "disconnect"}            \* agent commands
    \cup {"cmdclose"}                                 \* watchdog CMD.close
    \cup {"LAUNCH", "LAUNCHOK", "ERROR", "REMOVE"}    \* launcher commands
    \cup {"launched", "launchfailed", "started", "startfailed",
          "forwarded", "forwardfailed", "kicked"}     \* answers of calls

\* fd names the connection a message is about (Nil if none), agent the agent
\* that sent it or that it is about (Nil if none).
Messages == [type : MsgTypes, fd : Fds \cup {Nil}, agent : Agents \cup {Nil}]

Msg(t, fd, a) == [type |-> t, fd |-> fd, agent |-> a]

\* A message of type t about fd is the next one service s handles.
Incoming(s, t, fd) ==
  /\ queue[s] # <<>>
  /\ Head(queue[s]).type = t
  /\ Head(queue[s]).fd = fd

\* The queues once service s took its next message.
Taken(s) == [queue EXCEPT ![s] = Tail(@)]

\* skynet.send, and the sending half of skynet.call and skynet.ret: a message
\* to a handle that exited is dropped.
Post(q, s, m) ==
  IF s \in Agents /\ svc[s] = "dead"
    THEN q
    ELSE [q EXCEPT ![s] = Append(@, m)]

SkynetInit ==
  /\ queue = [s \in Services \cup Agents |-> <<>>]
  /\ svc = [a \in Agents |-> "none"]
=============================================================================
