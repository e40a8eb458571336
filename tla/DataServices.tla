---------------------------- MODULE DataServices ----------------------------
(***************************************************************************)
(* db_service and owlies_redis.  Both are the same machine: a service that *)
(* handles every request in a coroutine of its own and puts it through one *)
(* socket channel (socketchannel.lua, in order mode) to MySQL or redis.    *)
(*                                                                         *)
(* A coroutine that waits is not resumed by what it waits for: that only   *)
(* marks it in skynet's wakeup_session, and dispatch_wakeup resumes the    *)
(* marked coroutines one after the other, in no particular order, at the   *)
(* end of the message that is being handled.  A coroutine that raises ends *)
(* this: suspend raises too, and the coroutines that are still marked stay *)
(* so until the service gets its next message.                             *)
(*                                                                         *)
(* Left out: the messages of the handshake with MySQL are part of the one  *)
(* that reports the connection.  A connection is lost only while a request *)
(* waits: lost while nobody waits, it leaves a dispatch thread behind that *)
(* takes part in the next connection.  The report of a loss is the first   *)
(* thing the service hears of it, and the dispatch thread is then resumed  *)
(* before the coroutines that are left marked; both matter only after two  *)
(* faults.  The dispatch thread that a connect forks runs after the message*)
(* and would resume what that leaves marked; here it stays marked.         *)
(***************************************************************************)
EXTENDS Calls

LOCAL INSTANCE SequencesExt

CONSTANTS
  CacheHits,    \* whether redis may hold a user's energy (no caller of
                \* updateRedis exists in the server, so only if others write)
  MaxFaults     \* bound: refusals, lost connections and failed connects

VARIABLES
  conn,         \* conn[s]: whether the connection is up, down or being opened
  connecting,   \* connecting[s]: the requests that wait for the connection
  thread,       \* thread[s]: the requests that wait for a response, in order
  wire,         \* wire[s]: the requests MySQL or redis has not answered, in order
  buffer,       \* buffer[s]: the requests whose responses are received, not read
  channel,      \* channel[s]: what woke up the coroutine that waits for the
                \* socket (the dispatch thread or the one that connects)
  woken,        \* woken[s]: the other coroutines in wakeup_session
  draining,     \* draining[s]: whether s is in dispatch_wakeup
  faults        \* how often something failed so far

ASSUME FaultsAssumption == CacheHits \in BOOLEAN /\ MaxFaults \in Nat

channelVars == <<conn, connecting, thread, wire, buffer, channel>>
serviceVars == <<channelVars, woken, draining, faults>>

DataServicesInit ==
  /\ conn = [s \in DataService |-> "up"]
  /\ connecting = [s \in DataService |-> {}]
  /\ thread = [s \in DataService |-> <<>>]
  /\ wire = [s \in DataService |-> <<>>]
  /\ buffer = [s \in DataService |-> <<>>]
  /\ channel = [s \in DataService |-> "asleep"]
  /\ woken = [s \in DataService |-> {}]
  /\ draining = [s \in DataService |-> FALSE]
  /\ faults = 0

\* A coroutine in wakeup_session: its request, why it is resumed and, for an
\* answer, the request that MySQL or redis gave this answer to.
Woken(r, why, of) == [request |-> r, why |-> why, of |-> of]
AllWoken(rs, why) == {Woken(r, why, r) : r \in rs}

Marked(s) == woken[s] # {} \/ channel[s] # "asleep"

Fault == faults < MaxFaults /\ faults' = faults + 1

\* A coroutine of s answers its caller in owlies_api.
Respond(r, what) == apiQ' = Append(apiQ, Entry(what, r.job))

-----------------------------------------------------------------------------
\* The messages a service gets.  It takes one only when it is done with the
\* one before, and ends each with dispatch_wakeup unless a coroutine raised.

\* channel:request: on a connection the request is written and waits for its
\* response, without one block_connect makes it wait for the connection.
\* (Its write fails only on a connection whose loss nobody has noticed.)
request(s) ==
  LET r == Head(dataQ[s]) IN
  /\ ~draining[s] /\ dataQ[s] # <<>>
  /\ dataQ' = [dataQ EXCEPT ![s] = Tail(@)]
  /\ IF conn[s] = "up"
       THEN /\ thread' = [thread EXCEPT ![s] = Append(@, r)]
            /\ wire' = [wire EXCEPT ![s] = Append(@, r)]
            /\ UNCHANGED <<conn, connecting>>
       ELSE /\ conn' = [conn EXCEPT ![s] = "opening"]
            /\ connecting' = [connecting EXCEPT ![s] = @ \cup {r}]
            /\ UNCHANGED <<thread, wire>>
  /\ draining' = [draining EXCEPT ![s] = Marked(s)]
  /\ UNCHANGED <<buffer, channel, woken, faults, apiQ>>

-----------------------------------------------------------------------------
\* What the coroutine does that waits for the socket, once it is resumed.

\* Mutant: the request that was made last is taken.
pop_response_Last(q, n) == SubSeq(Reverse(q), 1, n)

\* The requests that the next n responses are for.
pop_response(q, n) == SubSeq(q, 1, n)

\* Mutant: the requests that failed stay in the queue of the channel.
wakeup_all_Keeps(waiting) ==
  [thread |-> waiting, woken |-> AllWoken(ToSet(waiting), "error")]

\* All requests that wait are marked, with an error as their result.
wakeup_all(waiting) ==
  [thread |-> <<>>, woken |-> AllWoken(ToSet(waiting), "error")]

\* dispatch_by_order: the dispatch thread reads every response there is
\* without waiting and marks the coroutine each is for; when the connection
\* is lost it marks all others too and ends.
dispatch_by_order(s, responses, event) ==
  LET n == Len(responses)
      popped == pop_response(thread[s], n)
      answered == {Woken(popped[i], "answer", responses[i]) : i \in 1..n}
      waiting == SelectSeq(thread[s], LAMBDA r : r \notin ToSet(popped))
      left == IF event = "lost" THEN wakeup_all(waiting)
                                ELSE [thread |-> waiting, woken |-> {}]
  IN
  /\ thread' = [thread EXCEPT ![s] = left.thread]
  /\ woken' = [woken EXCEPT ![s] = @ \cup answered \cup left.woken]
  /\ conn' = [conn EXCEPT ![s] = IF event = "lost" THEN "down" ELSE @]
  /\ UNCHANGED connecting

\* block_connect: the attempt to connect is over, and the coroutines that
\* waited for it are marked; without a connection all of them raise.  Which
\* goes on first, the one that connected or another, is left open.
block_connect(s, event) ==
  /\ conn' = [conn EXCEPT ![s] = IF event = "connected" THEN "up" ELSE "down"]
  /\ woken' = [woken EXCEPT ![s] =
       @ \cup AllWoken(connecting[s], IF event = "connected" THEN "connected" ELSE "error")]
  /\ connecting' = [connecting EXCEPT ![s] = {}]
  /\ UNCHANGED thread

resume_channel(s, responses, event) ==
  /\ IF event \in {"data", "lost"}
       THEN dispatch_by_order(s, responses, event)
       ELSE block_connect(s, event)
  /\ buffer' = [buffer EXCEPT ![s] = <<>>]
  /\ channel' = [channel EXCEPT ![s] = "asleep"]
  /\ draining' = [draining EXCEPT ![s] = woken'[s] # {}]

-----------------------------------------------------------------------------
\* The messages of the socket.  Each marks the coroutine that waits for the
\* socket, which is resumed at once if no other is marked.
notify(s, responses, event) ==
  IF woken[s] = {}
    THEN resume_channel(s, responses, event)
    ELSE /\ buffer' = [buffer EXCEPT ![s] = responses]
         /\ channel' = [channel EXCEPT ![s] = event]
         /\ draining' = [draining EXCEPT ![s] = TRUE]
         /\ UNCHANGED <<conn, connecting, thread, woken>>

\* MySQL or redis answers the oldest n requests, and their responses arrive
\* together.
socket_data(s, n) ==
  /\ ~draining[s] /\ n \in 1..Len(wire[s])
  /\ wire' = [wire EXCEPT ![s] = SubSeq(@, n + 1, Len(@))]
  /\ notify(s, buffer[s] \o SubSeq(wire[s], 1, n), "data")
  /\ UNCHANGED <<faults, apiQ, dataQ>>

\* The connection is lost: what MySQL or redis was asked is not answered.
socket_close(s) ==
  /\ ~draining[s] /\ conn[s] = "up" /\ thread[s] # <<>> /\ Fault
  /\ wire' = [wire EXCEPT ![s] = <<>>]
  /\ resume_channel(s, buffer[s], "lost")
  /\ UNCHANGED <<apiQ, dataQ>>

\* The attempt to connect succeeds or fails.
socket_connect(s, event) ==
  /\ ~draining[s] /\ conn[s] = "opening" /\ channel[s] = "asleep"
  /\ \/ event = "connected" /\ UNCHANGED faults
     \/ event = "refused" /\ Fault
  /\ notify(s, <<>>, event)
  /\ UNCHANGED <<wire, apiQ, dataQ>>

-----------------------------------------------------------------------------
\* dispatch_wakeup: one marked coroutine after the other, whichever next()
\* yields.

\* The coroutine that waits for the socket is resumed.
wakeup_channel(s) ==
  /\ draining[s] /\ channel[s] # "asleep"
  /\ resume_channel(s, buffer[s], channel[s])
  /\ UNCHANGED <<wire, faults, apiQ, dataQ>>

\* Mutant: suspend goes on with dispatch_wakeup only after a coroutine that
\* waits again, not after one that ends.
more_OnlyWaits(s, w, what) ==
  what = "wait" /\ (woken[s] \ {w} # {} \/ channel[s] # "asleep")

\* Whether dispatch_wakeup goes on after the coroutine w, which answered what:
\* a coroutine that raised ends it.
more(s, w, what) ==
  what # "failed" /\ (woken[s] \ {w} # {} \/ channel[s] # "asleep")

\* What a response says.  MySQL's refusal is a result like others, redis's
\* raises.
Results(s) == IF s = "db_service" THEN {"ok", "bad"} ELSE {"hit", "miss", "bad", "failed"}

\* wait_for_response, or the wait in block_connect, returns and the coroutine
\* ends (Methods.query, Methods.get) or waits again for a response.
resume(s, w, what) ==
  /\ draining[s] /\ w \in woken[s]
  /\ woken' = [woken EXCEPT ![s] = @ \ {w}]
  /\ CASE w.why = "answer" -> what \in Results(s)
       [] w.why = "connected" /\ conn[s] = "up" -> what = "wait"
       [] OTHER -> what = "failed"
  /\ what \in {"hit", "bad"} /\ s = "owlies_redis" => CacheHits
  /\ IF w.why = "answer" /\ what \in {"bad", "failed"} THEN Fault ELSE UNCHANGED faults
  /\ IF what = "wait"
       THEN /\ thread' = [thread EXCEPT ![s] = Append(@, w.request)]
            /\ wire' = [wire EXCEPT ![s] = Append(@, w.request)]
            /\ UNCHANGED apiQ
       ELSE Respond(w.request, what) /\ UNCHANGED <<thread, wire>>
  /\ draining' = [draining EXCEPT ![s] = more(s, w, what)]
  /\ UNCHANGED <<conn, connecting, buffer, channel, dataQ>>

ServiceResults == {"ok", "bad", "hit", "miss", "failed", "wait"}

\* What the threads that run s do, and what MySQL, redis and the network do.
ServiceStep(s) ==
  \/ request(s)
  \/ wakeup_channel(s)
  \/ \E w \in woken[s], what \in ServiceResults : resume(s, w, what)

SocketStep(s) ==
  \/ \E n \in 1..Len(wire[s]) : socket_data(s, n)
  \/ \E event \in {"connected", "refused"} : socket_connect(s, event)

\* The coroutine of j's request is marked but nothing is going to resume it
\* before the next message of its service.
Stranded(j) ==
  \E s \in DataService : ~draining[s] /\ \E w \in woken[s] : w.request.job = j
=============================================================================
