---------------------------- MODULE SocketServer ----------------------------
(***************************************************************************)
(* The socket thread (socket_server.c) as the gate sees it: the state of   *)
(* each accepted socket, the control pipe through which the gate asks for  *)
(* a socket to be started or closed, and the events it posts to the gate.  *)
(* An accepted socket is not watched before it is started, so it yields    *)
(* neither data nor a close event until then.                              *)
(***************************************************************************)
EXTENDS Skynet

CONSTANT MaxTraffic   \* bound: data events of one connection

VARIABLES
  sock,      \* sock[fd]: the socket's type
  ctrl,      \* the requests in the control pipe, oldest first
  traffic    \* traffic[fd]: data events so far

socketVars == <<sock, ctrl, traffic>>

SockTypes == {"unused", "paccept", "connected", "halfclose", "invalid"}
CtrlRequests == [op : {"start", "close"}, fd : Fds]

ASSUME TrafficAssumption == MaxTraffic \in Nat

SocketInit ==
  /\ sock = [fd \in Fds |-> "unused"]
  /\ ctrl = <<>>
  /\ traffic = [fd \in Fds |-> 0]

ToGate(t, fd) == Post(queue, "gate", Msg(t, fd, Nil))

\* socketdriver.start / socketdriver.close: a request in the control pipe.
Request(op, fd) == Append(ctrl, [op |-> op, fd |-> fd])

\* A client connects; the listening socket hands out a fresh id.
report_accept(fd) ==
  /\ sock[fd] = "unused"
  /\ sock' = [sock EXCEPT ![fd] = "paccept"]
  /\ queue' = ToGate("open", fd)
  /\ UNCHANGED <<ctrl, traffic>>

\* Starting a socket that is not valid, or that the poller refuses, is
\* reported as an error; otherwise the socket is watched from now on.
start_socket(fd) ==
  /\ ctrl # <<>> /\ Head(ctrl) = [op |-> "start", fd |-> fd]
  /\ ctrl' = Tail(ctrl)
  /\ \/ /\ sock[fd] # "invalid"
        /\ sock' = [sock EXCEPT ![fd] = IF @ = "paccept" THEN "connected" ELSE @]
        /\ UNCHANGED queue
     \/ /\ sock[fd] \in {"paccept", "invalid"}
        /\ sock' = [sock EXCEPT ![fd] = "invalid"]
        /\ queue' = ToGate("error", fd)
  /\ UNCHANGED traffic

\* Closing reports a close event at once, also for a socket that is already
\* invalid; only unsent output of a connected socket delays it.
close_socket(fd) ==
  /\ ctrl # <<>> /\ Head(ctrl) = [op |-> "close", fd |-> fd]
  /\ ctrl' = Tail(ctrl)
  /\ \/ /\ sock' = [sock EXCEPT ![fd] = "invalid"]
        /\ queue' = ToGate("close", fd)
     \/ /\ sock[fd] \in {"connected", "halfclose"}
        /\ sock' = [sock EXCEPT ![fd] = "halfclose"]
        /\ UNCHANGED queue
  /\ UNCHANGED traffic

\* A packet arrives.  (A warning about unsent output goes to the service that
\* wrote it, the agent, and never to the gate.)
forward_message(fd) ==
  /\ sock[fd] = "connected"
  /\ traffic[fd] < MaxTraffic
  /\ traffic' = [traffic EXCEPT ![fd] = @ + 1]
  /\ queue' = ToGate("data", fd)
  /\ UNCHANGED <<sock, ctrl>>

\* The peer closes, reading or writing fails, or the last output of a
\* half-closed socket is sent.
force_close(fd, t) ==
  /\ t \in {"close", "error"}
  /\ sock[fd] \in {"connected", "halfclose"}
  /\ sock' = [sock EXCEPT ![fd] = "invalid"]
  /\ queue' = ToGate(t, fd)
  /\ UNCHANGED <<ctrl, traffic>>

SocketTypeOK ==
  /\ sock \in [Fds -> SockTypes]
  /\ ctrl \in Seq(CtrlRequests)
  /\ traffic \in [Fds -> 0..MaxTraffic]
=============================================================================
