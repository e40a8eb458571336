-------------------------------- MODULE Gate --------------------------------
(***************************************************************************)
(* The gate service: gate.lua on top of snax/gateserver.lua.  Both files   *)
(* keep a table called connection; gateserver's maps a socket to true, or  *)
(* to false once it was told to close, and counts its entries in           *)
(* client_number; gate's maps it to the agent its packets go to.           *)
(***************************************************************************)
EXTENDS SocketServer, FiniteSets

CONSTANT MaxClient   \* conf.maxclient

VARIABLES
  gsConn,         \* gateserver's connection: "nil", "true" or "false"
  client_number,
  connection,     \* gate's connection: the sockets that have an entry
  cagent,         \* cagent[fd]: the agent field of that entry
  forwarding      \* forwarding[a]: the entry a's packets come from

gateVars == <<gsConn, client_number, connection, cagent, forwarding>>

ASSUME MaxClientAssumption == MaxClient \in Nat

GateInit ==
  /\ gsConn = [fd \in Fds |-> "nil"]
  /\ client_number = 0
  /\ connection = {}
  /\ cagent = [fd \in Fds |-> Nil]
  /\ forwarding = [a \in Agents |-> Nil]

\* Mutant: one client too many is let in.
MSG_open_OffByOne(fd) ==
  /\ Incoming("gate", "open", fd)
  /\ IF client_number > MaxClient
       THEN /\ ctrl' = Request("close", fd)
            /\ queue' = Taken("gate")
            /\ UNCHANGED gateVars
       ELSE /\ gsConn' = [gsConn EXCEPT ![fd] = "true"]
            /\ client_number' = client_number + 1
            /\ connection' = connection \cup {fd}
            /\ queue' = Post(Taken("gate"), "watchdog", Msg("open", fd, Nil))
            /\ UNCHANGED <<ctrl, cagent, forwarding>>
  /\ UNCHANGED <<sock, traffic>>

\* Mutant: the socket is started as soon as it is let in.
MSG_open_Starts(fd) ==
  /\ Incoming("gate", "open", fd)
  /\ client_number < MaxClient
  /\ ctrl' = Request("start", fd)
  /\ gsConn' = [gsConn EXCEPT ![fd] = "true"]
  /\ client_number' = client_number + 1
  /\ connection' = connection \cup {fd}
  /\ queue' = Post(Taken("gate"), "watchdog", Msg("open", fd, Nil))
  /\ UNCHANGED <<cagent, forwarding, sock, traffic>>

\* MSG.open with handler.connect.
MSG_open(fd) ==
  /\ Incoming("gate", "open", fd)
  /\ IF client_number >= MaxClient
       THEN /\ ctrl' = Request("close", fd)
            /\ queue' = Taken("gate")
            /\ UNCHANGED gateVars
       ELSE /\ gsConn' = [gsConn EXCEPT ![fd] = "true"]
            /\ client_number' = client_number + 1
            /\ connection' = connection \cup {fd}
            /\ queue' = Post(Taken("gate"), "watchdog", Msg("open", fd, Nil))
            /\ UNCHANGED <<ctrl, cagent, forwarding>>
  /\ UNCHANGED <<sock, traffic>>

\* gate.lua unforward, on the entry of fd.
unforward(fd) ==
  [a \in Agents |-> IF a = cagent[fd] THEN Nil ELSE forwarding[a]]

\* Mutant: gateserver's close_fd with the decrement outside its test.
close_fd_Unguarded(fd) ==
  /\ gsConn' = [gsConn EXCEPT ![fd] = "nil"]
  /\ client_number' = client_number - 1
  /\ connection' = connection \ {fd}
  /\ cagent' = [cagent EXCEPT ![fd] = Nil]
  /\ forwarding' = unforward(fd)

\* Mutant: gate's close_fd without its unforward.
close_fd_KeepsForwarding(fd) ==
  /\ gsConn' = [gsConn EXCEPT ![fd] = "nil"]
  /\ client_number' =
       IF gsConn[fd] # "nil" THEN client_number - 1 ELSE client_number
  /\ connection' = connection \ {fd}
  /\ cagent' = [cagent EXCEPT ![fd] = Nil]
  /\ UNCHANGED forwarding

\* Both close_fd functions: the entries of fd go away; an fd gateserver does
\* not know leaves client_number alone.
close_fd(fd) ==
  /\ gsConn' = [gsConn EXCEPT ![fd] = "nil"]
  /\ client_number' =
       IF gsConn[fd] # "nil" THEN client_number - 1 ELSE client_number
  /\ connection' = connection \ {fd}
  /\ cagent' = [cagent EXCEPT ![fd] = Nil]
  /\ forwarding' = unforward(fd)

\* Mutant: the watchdog is not told.
MSG_close_Silent(fd, t) ==
  /\ t \in {"close", "error"}
  /\ Incoming("gate", t, fd)
  /\ close_fd(fd)
  /\ queue' = Taken("gate")
  /\ UNCHANGED socketVars

\* MSG.close with handler.disconnect, MSG.error with handler.error: the
\* watchdog hears of it even when fd was never let in.  (Their branches for
\* the listening socket are left out: it is opened once, nothing closes it,
\* and its failure changes no connection.)
MSG_close(fd, t) ==
  /\ t \in {"close", "error"}
  /\ Incoming("gate", t, fd)
  /\ close_fd(fd)
  /\ queue' = Post(Taken("gate"), "watchdog", Msg(t, fd, Nil))
  /\ UNCHANGED socketVars

\* dispatch_msg with handler.message.
dispatch_msg(fd) ==
  /\ Incoming("gate", "data", fd)
  /\ queue' =
       IF gsConn[fd] # "true" THEN Taken("gate")
       ELSE IF cagent[fd] # Nil
         THEN Post(Taken("gate"), cagent[fd], Msg("client", fd, Nil))
         ELSE Post(Taken("gate"), "watchdog", Msg("data", fd, Nil))
  /\ UNCHANGED <<gateVars, socketVars>>

\* Mutant: openclient starts the socket of every entry, also of a false one.
CMD_forward_StartsAny(fd) ==
  LET a == Head(queue["gate"]).agent IN
  /\ Incoming("gate", "forward", fd)
  /\ IF fd \in connection
       THEN /\ cagent' = [cagent EXCEPT ![fd] = a]
            /\ forwarding' = [unforward(fd) EXCEPT ![a] = fd]
            /\ ctrl' = Request("start", fd)
            /\ queue' = Post(Taken("gate"), a, Msg("forwarded", fd, Nil))
       ELSE /\ queue' = Post(Taken("gate"), a, Msg("forwardfailed", fd, Nil))
            /\ UNCHANGED <<cagent, forwarding, ctrl>>
  /\ UNCHANGED <<gsConn, client_number, connection, sock, traffic>>

\* CMD.forward with gateserver.openclient; the assertion on connection[fd]
\* turns into an error answered to the caller.
CMD_forward(fd) ==
  LET a == Head(queue["gate"]).agent IN
  /\ Incoming("gate", "forward", fd)
  /\ IF fd \in connection
       THEN /\ cagent' = [cagent EXCEPT ![fd] = a]
            /\ forwarding' = [unforward(fd) EXCEPT ![a] = fd]
            /\ ctrl' = IF gsConn[fd] = "true" THEN Request("start", fd) ELSE ctrl
            /\ queue' = Post(Taken("gate"), a, Msg("forwarded", fd, Nil))
       ELSE /\ queue' = Post(Taken("gate"), a, Msg("forwardfailed", fd, Nil))
            /\ UNCHANGED <<cagent, forwarding, ctrl>>
  /\ UNCHANGED <<gsConn, client_number, connection, sock, traffic>>

\* Mutant: gate.lua forgets the connection when it is kicked, gateserver
\* only when the socket reports its close.
CMD_kick_Forgets(fd) ==
  /\ Incoming("gate", "kick", fd)
  /\ IF gsConn[fd] = "true"
       THEN /\ gsConn' = [gsConn EXCEPT ![fd] = "false"]
            /\ ctrl' = Request("close", fd)
       ELSE UNCHANGED <<gsConn, ctrl>>
  /\ connection' = connection \ {fd}
  /\ cagent' = [cagent EXCEPT ![fd] = Nil]
  /\ forwarding' = unforward(fd)
  /\ queue' = Post(Taken("gate"), "watchdog", Msg("kicked", fd, Nil))
  /\ UNCHANGED <<client_number, sock, traffic>>

\* CMD.kick with gateserver.closeclient.
CMD_kick(fd) ==
  /\ Incoming("gate", "kick", fd)
  /\ IF gsConn[fd] = "true"
       THEN /\ gsConn' = [gsConn EXCEPT ![fd] = "false"]
            /\ ctrl' = Request("close", fd)
       ELSE UNCHANGED <<gsConn, ctrl>>
  /\ queue' = Post(Taken("gate"), "watchdog", Msg("kicked", fd, Nil))
  /\ UNCHANGED <<client_number, connection, cagent, forwarding, sock, traffic>>

GateTypeOK ==
  /\ gsConn \in [Fds -> {"nil", "true", "false"}]
  /\ client_number \in Nat
  /\ connection \in SUBSET Fds
  /\ cagent \in [Fds -> Agents \cup {Nil}]
  /\ forwarding \in [Agents -> Fds \cup {Nil}]
=============================================================================
