------------------------------ MODULE Launcher ------------------------------
(***************************************************************************)
(* The launcher service, which starts the agents: LAUNCH creates a service *)
(* and keeps the caller's answer until the new service reports, by         *)
(* LAUNCHOK or ERROR, how its initialisation went.                         *)
(***************************************************************************)
EXTENDS Skynet

VARIABLES
  services,    \* the agents the launcher lists
  instance,    \* the agents whose LAUNCH is not answered yet
  owner        \* owner[a]: the connection whose SOCKET.open launched a, that
               \* is, the call the answer kept in instance[a] goes to

launcherVars == <<services, instance, owner>>

LauncherInit ==
  /\ services = {}
  /\ instance = {}
  /\ owner = [a \in Agents |-> Nil]

\* Mutant: a failed launch is not answered.
LAUNCH_Silent(fd) ==
  /\ Incoming("launcher", "LAUNCH", fd)
  /\ \/ \E a \in Agents :
          /\ svc[a] = "none"
          /\ svc' = [svc EXCEPT ![a] = "init"]
          /\ services' = services \cup {a}
          /\ instance' = instance \cup {a}
          /\ owner' = [owner EXCEPT ![a] = fd]
          /\ queue' = Taken("launcher")
     \/ /\ queue' = Taken("launcher")
        /\ UNCHANGED <<svc, launcherVars>>

\* LAUNCH with launch_service: skynet.launch hands out a fresh handle, or
\* fails.
LAUNCH(fd) ==
  /\ Incoming("launcher", "LAUNCH", fd)
  /\ \/ \E a \in Agents :
          /\ svc[a] = "none"
          /\ svc' = [svc EXCEPT ![a] = "init"]
          /\ services' = services \cup {a}
          /\ instance' = instance \cup {a}
          /\ owner' = [owner EXCEPT ![a] = fd]
          /\ queue' = Taken("launcher")
     \/ /\ queue' = Post(Taken("launcher"), "watchdog",
                         Msg("launchfailed", fd, Nil))
        /\ UNCHANGED <<svc, launcherVars>>

\* The new service loads its script: it reports LAUNCHOK once skynet.start's
\* function has run, or ERROR and is gone; when it was that function that
\* raised the error, skynet.exit sends REMOVE as well.
init_service(a, ok) ==
  LET reported == Post(queue, "launcher",
                       Msg(IF ok THEN "LAUNCHOK" ELSE "ERROR", Nil, a))
  IN
  /\ svc[a] = "init"
  /\ svc' = [svc EXCEPT ![a] = IF ok THEN "ready" ELSE "dead"]
  /\ \/ queue' = reported
     \/ ~ok /\ queue' = Post(reported, "launcher", Msg("REMOVE", Nil, a))
  /\ UNCHANGED launcherVars

\* Mutant: ERROR does not answer the LAUNCH call.
report_ErrorSilent(t) ==
  LET a == Head(queue["launcher"]).agent IN
  /\ Incoming("launcher", t, Nil)
  /\ queue' = IF a \in instance /\ t = "LAUNCHOK"
                THEN Post(Taken("launcher"), "watchdog",
                          Msg("launched", owner[a], a))
                ELSE Taken("launcher")
  /\ instance' = instance \ {a}
  /\ services' = IF t = "LAUNCHOK" THEN services ELSE services \ {a}
  /\ UNCHANGED <<owner, svc>>

\* Mutant: REMOVE leaves the service listed.
report_KeepsRemoved(t) ==
  LET a == Head(queue["launcher"]).agent
      answer == Msg(IF t = "LAUNCHOK" THEN "launched" ELSE "launchfailed",
                    owner[a], a)
  IN
  /\ Incoming("launcher", t, Nil)
  /\ queue' = IF a \in instance
                THEN Post(Taken("launcher"), "watchdog", answer)
                ELSE Taken("launcher")
  /\ instance' = instance \ {a}
  /\ services' = IF t = "ERROR" THEN services \ {a} ELSE services
  /\ UNCHANGED <<owner, svc>>

\* LAUNCHOK and ERROR answer the LAUNCH call; REMOVE answers it too, with
\* nil, should the service exit before it reported.
report(t) ==
  LET a == Head(queue["launcher"]).agent
      answer == Msg(IF t = "LAUNCHOK" THEN "launched" ELSE "launchfailed",
                    owner[a], a)
  IN
  /\ Incoming("launcher", t, Nil)
  /\ queue' = IF a \in instance
                THEN Post(Taken("launcher"), "watchdog", answer)
                ELSE Taken("launcher")
  /\ instance' = instance \ {a}
  /\ services' = IF t = "LAUNCHOK" THEN services ELSE services \ {a}
  /\ UNCHANGED <<owner, svc>>

LauncherTypeOK ==
  /\ services \in SUBSET Agents
  /\ instance \in SUBSET Agents
  /\ owner \in [Agents -> Fds \cup {Nil}]
=============================================================================
