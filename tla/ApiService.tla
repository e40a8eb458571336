----------------------------- MODULE ApiService -----------------------------
(***************************************************************************)
(* owlies_api: the session each connection is at, and the two commands the *)
(* agents call.  A handler runs up to its first skynet.call without being  *)
(* interrupted; a login then continues in LoginData.                       *)
(***************************************************************************)
EXTENDS LoginData

VARIABLES networkSessionMap    \* networkSessionMap[fd]: a session or Nil

\* The next message of owlies_api is the request what of job j's agent.
Requested(j, what) ==
  /\ apiQ # <<>> /\ Head(apiQ) = Entry(what, j)
  /\ apiQ' = Tail(apiQ)

\* Mutant: there is one session for all connections.
SessionOf_Shared(j) ==
  LET known == {networkSessionMap[fd] : fd \in Fds} \ {Nil} IN
  IF known = {} THEN Nil ELSE CHOOSE s \in known : \A t \in known : t <= s

\* The session owlies_api has for the connection of j.
SessionOf(j) == networkSessionMap[j[1]]

\* Mutant: a session that is not behind is accepted.
updateClientSession_NotBehind(j) ==
  LET s == SessionOf(j) IN
  CASE s = Nil -> "error"
    [] s # Nil /\ Session(j) <= s -> "false"
    [] OTHER -> "true"

\* What updateClientSession makes of a session: it raises (the log message
\* concatenates a nil entry), refuses it or accepts it.
updateClientSession(j) ==
  LET s == SessionOf(j) IN
  CASE s = Nil -> "error"
    [] s # Nil /\ Session(j) # s + 1 -> "false"
    [] OTHER -> "true"

\* The session map once updateClientSession returned.
Updated(j) ==
  IF updateClientSession(j) = "true"
    THEN [networkSessionMap EXCEPT ![j[1]] = Session(j)]
    ELSE networkSessionMap

\* Mutant: a login starts counting at zero.
LoginSession_Reset(j) == 0

\* The session a login sets.
LoginSession(j) == Session(j)

\* Mutant: every call that is in sequence is answered with a package.
receivedApiCall_AnswersAll(j) ==
  /\ Requested(j, "receivedApiCall")
  /\ IF Message(j).name = LoginRequest
       THEN /\ networkSessionMap' = [networkSessionMap EXCEPT ![j[1]] = LoginSession(j)]
            /\ newLoginRequest(j)
       ELSE /\ networkSessionMap' = Updated(j)
            /\ Return(j, IF updateClientSession(j) = "true" THEN "package"
                                                            ELSE updateClientSession(j))
  /\ UNCHANGED <<sent, alive, serviceVars>>

\* CMD.receivedApiCall: a login sets the session of its connection and starts
\* processApiCall; another message must carry the next session, and
\* processApiCall has nothing to answer to it.
receivedApiCall(j) ==
  /\ Requested(j, "receivedApiCall")
  /\ IF Message(j).name = LoginRequest
       THEN /\ networkSessionMap' = [networkSessionMap EXCEPT ![j[1]] = LoginSession(j)]
            /\ newLoginRequest(j)
       ELSE /\ networkSessionMap' = Updated(j)
            /\ Return(j, IF updateClientSession(j) = "true" THEN "nil"
                                                            ELSE updateClientSession(j))
  /\ UNCHANGED <<sent, alive, serviceVars>>

\* CMD.receivedChangeEvent.
receivedChangeEvent(j) ==
  /\ Requested(j, "receivedChangeEvent")
  /\ networkSessionMap' = Updated(j)
  /\ Return(j, updateClientSession(j))
  /\ UNCHANGED <<sent, alive, serviceVars>>

\* "syncError" is not a command of owlies_api: the dispatch function returns
\* without an answer.
syncError(j) ==
  /\ Requested(j, "syncError")
  /\ UNCHANGED <<networkSessionMap, stage, serviceVars, sent, alive, agentQ, dataQ>>

ApiStep(j) ==
  \/ receivedApiCall(j)
  \/ receivedChangeEvent(j)
  \/ syncError(j)
=============================================================================
