---------------------------- MODULE RedisService ----------------------------
(***************************************************************************)
(* The redis service built on hiredis: owlies_redis_deprecate.lua, its     *)
(* helpers in hiredis_util.lua and the C binding in hiredis.c.  The        *)
(* service is one sequential process: hiredis blocks, so no coroutine of   *)
(* the service runs while a call waits.  What moves meanwhile is redis.    *)
(*                                                                         *)
(* A context is a number.  It may be lost (its connection is gone, so      *)
(* redisCommand returns NULL) or freed.  A NULL reply is dereferenced by   *)
(* every caller of redisCommand and ends the server.  What a command on a  *)
(* freed context does is undefined: it may end the server or look like any *)
(* answer.                                                                 *)
(***************************************************************************)
EXTENDS Naturals, Sequences, FiniteSets

CONSTANTS
  Keys, Values,
  Nil,             \* NULL, or the table that the context is before the first connect
  MAX_RETRY_TIMES,
  MaxContexts,     \* bound: connections that are made
  MaxChanges       \* bound: how often redis changes its state

ASSUME RetryAssumption == MAX_RETRY_TIMES \in Nat \ {0}

VARIABLES
  pc,              \* where the service is
  op,              \* the request in hand, or Nil while the service starts
  redisContext,    \* the context the service holds, or Nil
  context,         \* connectToRedisWithRetry's variable
  retryTime,       \* and its counter
  tries,           \* the results of its attempts: a context or Nil
  message,         \* whether it said that all attempts failed
  made, freed, lost,   \* contexts: how many were made, the freed, the lost ones
  redis,           \* "up", "loading" (answers PING with an error) or "down"
  changes,
  stored,          \* what redis holds for each key, or Nil
  answer           \* the last answer: Nil, "true", "false", "raised" or a value

serviceVars == <<pc, op, redisContext>>
connectVars == <<context, retryTime, tries, message>>
redisVars == <<redis, changes, lost>>
vars == <<serviceVars, connectVars, made, freed, redisVars, stored, answer>>

Ops == [what : {"set"}, key : Keys, value : Values] \cup [what : {"get"}, key : Keys]

\* The service starts with updateRedisContext.
Init ==
  /\ pc = "check" /\ op = Nil /\ redisContext = Nil
  /\ context = Nil /\ retryTime = 0 /\ tries = <<>> /\ message = FALSE
  /\ made = 0 /\ freed = {} /\ lost = {}
  /\ redis \in {"up", "down"} /\ changes = 0
  /\ stored = [k \in Keys |-> Nil]
  /\ answer = Nil

\* Redis starts, finishes loading its data, or stops and loses its clients.
redis_changes(s) ==
  /\ s # redis /\ (s = "loading" => redis = "down")
  /\ changes < MaxChanges /\ changes' = changes + 1
  /\ redis' = s
  /\ lost' = IF s = "down" THEN 1..made ELSE lost
  /\ UNCHANGED <<serviceVars, connectVars, made, freed, stored, answer>>

\* A request reaches the service.
request(o) ==
  /\ pc = "idle"
  /\ pc' = "check" /\ op' = o /\ answer' = Nil
  /\ UNCHANGED <<redisContext, connectVars, made, freed, redisVars, stored>>

Crash ==
  /\ pc' = "crashed"
  /\ UNCHANGED <<op, redisContext, connectVars, made, freed, redisVars, stored, answer>>

\* isConnectedToRedis says yes: updateRedisContext keeps the context.
Connected ==
  /\ pc' = IF op = Nil THEN "idle" ELSE "command"
  /\ UNCHANGED <<op, redisContext, connectVars, made, freed, redisVars, stored, answer>>

\* isConnectedToRedis says no: reconnectIfNecessary calls connectWithRetry.
Disconnected ==
  /\ pc' = "connect"
  /\ context' = Nil /\ retryTime' = 0 /\ tries' = <<>> /\ message' = FALSE
  /\ UNCHANGED <<op, redisContext, made, freed, redisVars, stored, answer>>

\* isConnectedToRedis: PING on the context that is held.
isConnectedToRedis ==
  /\ pc = "check"
  /\ \/ redisContext = Nil /\ Disconnected
     \/ redisContext \in freed /\ (Crash \/ Connected \/ Disconnected)
     \/ redisContext \in lost \ freed /\ Crash
     \/ /\ redisContext \in (1..made) \ (lost \cup freed)
        /\ IF redis = "up" THEN Connected ELSE Disconnected

\* Mutant: the loop gives up one attempt early.
MayRetry_Short == retryTime < MAX_RETRY_TIMES - 1

\* The condition of connectToRedisWithRetry's loop.
MayRetry == retryTime < MAX_RETRY_TIMES

\* connectToRedis: one attempt.  It may time out although redis is there.
connectToRedis ==
  /\ pc = "connect" /\ context = Nil /\ MayRetry
  /\ retryTime' = retryTime + 1
  /\ \/ /\ redis # "down" /\ made < MaxContexts
        /\ made' = made + 1 /\ context' = made + 1
     \/ UNCHANGED <<made, context>>
  /\ tries' = Append(tries, context')
  /\ UNCHANGED <<serviceVars, message, freed, redisVars, stored, answer>>

\* Mutant: the context is handed over although the loop ended without one.
connectWithRetry_Unchecked ==
  /\ pc = "connect" /\ ~(context = Nil /\ MayRetry)
  /\ message' = (retryTime >= MAX_RETRY_TIMES)
  /\ redisContext' = context
  /\ pc' = IF op = Nil THEN "idle" ELSE "command"
  /\ UNCHANGED <<op, context, retryTime, tries, made, freed, redisVars, stored, answer>>

\* The end of connectToRedisWithRetry, and what connectWithRetry,
\* reconnectIfNecessary and updateRedisContext make of its result.  After the
\* last attempt the context is freed, whether the attempt failed or not.
connectWithRetry ==
  /\ pc = "connect" /\ ~(context = Nil /\ MayRetry)
  /\ message' = (retryTime >= MAX_RETRY_TIMES)
  /\ freed' = IF message' THEN freed \cup ({context} \ {Nil}) ELSE freed
  /\ IF context = Nil
       THEN /\ pc' = "idle"
            /\ answer' = IF op = Nil THEN Nil ELSE "false"
            /\ UNCHANGED redisContext
       ELSE /\ redisContext' = context
            /\ pc' = IF op = Nil THEN "idle" ELSE "command"
            /\ UNCHANGED answer
  /\ UNCHANGED <<op, context, retryTime, tries, made, redisVars, stored>>

\* A method returns a (or raises).
Answered(a) ==
  /\ pc' = "idle" /\ answer' = a
  /\ UNCHANGED <<op, redisContext, connectVars, made, freed, redisVars>>

\* updateRedisSproto and setSproto: "OK" is the only reply that counts.
setSproto ==
  /\ pc = "command" /\ op.what = "set"
  /\ \/ redisContext \in lost \cup freed /\ Crash
     \/ redisContext \in freed /\ \E a \in {"true", "false"} : Answered(a) /\ UNCHANGED stored
     \/ /\ redisContext \notin lost \cup freed
        /\ IF redis = "up"
             THEN Answered("true") /\ stored' = [stored EXCEPT ![op.key] = op.value]
             ELSE Answered("false") /\ UNCHANGED stored

\* loadRedisSproto and getSproto: the reply to a key that redis does not have
\* is read as an empty string, which cannot be decoded, nor can the text of
\* an error.
getSproto ==
  /\ pc = "command" /\ op.what = "get"
  /\ \/ redisContext \in lost \cup freed /\ Crash
     \/ redisContext \in freed /\ \E a \in Values \cup {"raised"} : Answered(a) /\ UNCHANGED stored
     \/ /\ redisContext \notin lost \cup freed
        /\ Answered(IF redis = "up" /\ stored[op.key] # Nil THEN stored[op.key] ELSE "raised")
        /\ UNCHANGED stored

Next ==
  \/ \E s \in {"up", "loading", "down"} : redis_changes(s)
  \/ \E o \in Ops : request(o)
  \/ isConnectedToRedis
  \/ connectToRedis
  \/ connectWithRetry
  \/ setSproto
  \/ getSproto

Spec == Init /\ [][Next]_vars

-----------------------------------------------------------------------------
\* The variables have the values the code gives them.
TypeOK ==
  /\ pc \in {"idle", "check", "connect", "command", "crashed"}
  /\ op \in Ops \cup {Nil}
  /\ redisContext \in 1..made \cup {Nil} /\ context \in 1..made \cup {Nil}
  /\ pc = "command" => redisContext # Nil
  /\ retryTime \in 0..MAX_RETRY_TIMES /\ Len(tries) = retryTime
  /\ freed \cup lost \subseteq 1..made
  /\ stored \in [Keys -> Values \cup {Nil}]
  /\ answer \in Values \cup {Nil, "true", "false", "raised"}

\* connectToRedisWithRetry returns no context only when MAX_RETRY_TIMES
\* attempts in a row were refused, whatever redis did in between.
FailureMeansAllRefused ==
  pc # "connect" /\ tries # <<>> /\ context = Nil =>
    tries = [i \in 1..MAX_RETRY_TIMES |-> Nil]

\* connectToRedisWithRetry says "Already tried many times to connect to Redis
\* but all failed." only when all attempts failed.
AllFailedIsTrue ==
  message => \A i \in 1..Len(tries) : tries[i] = Nil
=============================================================================
