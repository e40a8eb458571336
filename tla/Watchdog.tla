------------------------------ MODULE Watchdog ------------------------------
(***************************************************************************)
(* owlies_watchdog.lua: it launches an agent for every connection the gate *)
(* reports and lets it go when the connection closes.  SOCKET.open waits   *)
(* twice (for the launcher, for the agent) and close_agent once (for the   *)
(* gate); messages of other connections, and of the same one, are handled  *)
(* meanwhile.  SOCKET.warning and SOCKET.data, which do nothing, have no   *)
(* action: no warning is ever sent to the gate, and that no data reaches   *)
(* the watchdog is the invariant NoPacketToWatchdog of Lifecycle.          *)
(***************************************************************************)
EXTENDS Skynet

VARIABLES
  agent,      \* agent[fd]: the table of the source
  opening,    \* opening[fd]: where the coroutine of SOCKET.open(fd) is
  kicking     \* kicking[fd]: the local a of a close_agent(fd) waiting for kick

watchdogVars == <<agent, opening, kicking>>

WatchdogInit ==
  /\ agent = [fd \in Fds |-> Nil]
  /\ opening = [fd \in Fds |-> "none"]
  /\ kicking = [fd \in Fds |-> Nil]

\* SOCKET.open up to the wait in newservice.
SOCKET_open(fd) ==
  /\ Incoming("watchdog", "open", fd)
  /\ opening' = [opening EXCEPT ![fd] = "launching"]
  /\ queue' = Post(Taken("watchdog"), "launcher", Msg("LAUNCH", fd, Nil))
  /\ UNCHANGED <<agent, kicking>>

\* newservice returns the handle; SOCKET.open up to the wait for "start".
SOCKET_open_launched(fd) ==
  LET a == Head(queue["watchdog"]).agent IN
  /\ Incoming("watchdog", "launched", fd)
  /\ agent' = [agent EXCEPT ![fd] = a]
  /\ opening' = [opening EXCEPT ![fd] = "starting"]
  /\ queue' = Post(Taken("watchdog"), a, Msg("start", fd, Nil))
  /\ UNCHANGED kicking

\* The end of SOCKET.open: "start" was answered, or newservice or the call of
\* "start" raised an error.
SOCKET_open_ends(fd, t) ==
  /\ t \in {"started", "startfailed", "launchfailed"}
  /\ Incoming("watchdog", t, fd)
  /\ opening' = [opening EXCEPT ![fd] = IF t = "started" THEN "done" ELSE "failed"]
  /\ queue' = Taken("watchdog")
  /\ UNCHANGED <<agent, kicking>>

\* close_agent up to the wait for "kick": SOCKET.close, SOCKET.error and
\* CMD.close.
close_agent(fd, t) ==
  /\ t \in {"close", "error", "cmdclose"}
  /\ Incoming("watchdog", t, fd)
  /\ agent' = [agent EXCEPT ![fd] = Nil]
  /\ IF agent[fd] # Nil
       THEN /\ kicking' = [kicking EXCEPT ![fd] = agent[fd]]
            /\ queue' = Post(Taken("watchdog"), "gate", Msg("kick", fd, Nil))
       ELSE /\ queue' = Taken("watchdog")
            /\ UNCHANGED kicking
  /\ UNCHANGED opening

\* Mutant: the agent is not told to disconnect.
close_agent_kicked_Silent(fd) ==
  /\ Incoming("watchdog", "kicked", fd)
  /\ kicking' = [kicking EXCEPT ![fd] = Nil]
  /\ queue' = Taken("watchdog")
  /\ UNCHANGED <<agent, opening>>

\* The gate answered "kick": the rest of close_agent.
close_agent_kicked(fd) ==
  /\ Incoming("watchdog", "kicked", fd)
  /\ kicking' = [kicking EXCEPT ![fd] = Nil]
  /\ queue' = Post(Taken("watchdog"), kicking[fd], Msg("disconnect", Nil, Nil))
  /\ UNCHANGED <<agent, opening>>

WatchdogTypeOK ==
  /\ agent \in [Fds -> Agents \cup {Nil}]
  /\ opening \in [Fds -> {"none", "launching", "starting", "done", "failed"}]
  /\ kicking \in [Fds -> Agents \cup {Nil}]
=============================================================================
