------------------------------ MODULE LoginData -----------------------------
(***************************************************************************)
(* The data path of a login in owlies_api: processApiCall builds a         *)
(* LoginRequestObject (object_base reads the columns of user_login from    *)
(* db_service), writes it with insertOnDuplicate, builds a                 *)
(* LoginResponseObject (the columns of user_energy, then the cached value  *)
(* from owlies_redis or else the row of user_energy) and serializes it.    *)
(* Each of these is a skynet.call in which the coroutine waits, and other  *)
(* messages of owlies_api are handled meanwhile.                           *)
(*                                                                         *)
(* An answer is "ok", "bad" (MySQL refused the query: mysql.lua returns a  *)
(* table with badresult set; or the cached value is not JSON) or "failed"  *)
(* (the call itself failed).  "hit" is a value found in redis, "miss" none.*)
(***************************************************************************)
EXTENDS DataServices

VARIABLE stage    \* stage[j]: what the coroutine of job j in owlies_api waits for

Stages == {"none", "columns", "insert", "energycolumns", "cache", "row"}

LoginInit == stage = [j \in Jobs |-> "none"]

\* The coroutine of j goes on to wait for the data service s.
CallService(s, j, what) ==
  /\ stage' = [stage EXCEPT ![j] = what]
  /\ dataQ' = [dataQ EXCEPT ![s] = Append(@, Entry(what, j))]
  /\ UNCHANGED agentQ

Query(j, what) == CallService("db_service", j, what)

\* The coroutine of j ends and the agent gets its answer.
Return(j, what) ==
  /\ stage' = [stage EXCEPT ![j] = "none"]
  /\ Answer(j, what)
  /\ UNCHANGED dataQ

\* Building the object of the request, and the one of the response, begins
\* with the names of the columns.
newLoginRequest(j) == Query(j, "columns")
newLoginResponse(j) == Query(j, "energycolumns")

\* insertOnDuplicate builds the statement: a column that the request leaves
\* out is nil, which raises in the concatenation.
insertOnDuplicate(j) ==
  IF Message(j).complete THEN Query(j, "insert") ELSE Return(j, "error")

\* loadRedisCache asks owlies_redis.
loadRedisCache(j) == CallService("owlies_redis", j, "cache")

loadByPrimaryKeys(j) == Query(j, "row")

\* toSproto copies the fields of the response, with an energy or without, and
\* serialize makes the package the agent gets.
serialize(j) == Return(j, "package")
respond(j) == serialize(j)

\* The answer that owlies_api takes next is what db_service or owlies_redis
\* returned to the coroutine of j, which waits at stage s.
Resumed(j, s, what) ==
  /\ apiQ # <<>> /\ Head(apiQ) = Entry(what, j)
  /\ stage[j] = s
  /\ apiQ' = Tail(apiQ)

\* getColumnNames for user_login returns; it raises unless it got rows.
getColumnNames_returns(j, what) ==
  /\ Resumed(j, "columns", what)
  /\ IF what = "ok" THEN insertOnDuplicate(j) ELSE Return(j, "error")

\* insertOnDuplicate returns; processApiCall ignores whether it succeeded.
insertOnDuplicate_returns(j, what) ==
  /\ Resumed(j, "insert", what)
  /\ newLoginResponse(j)

\* getColumnNames for user_energy returns.
energyColumns_return(j, what) ==
  /\ Resumed(j, "energycolumns", what)
  /\ IF what = "ok" THEN loadRedisCache(j) ELSE Return(j, "error")

\* loadRedisCache returns: a value completes the response (packer.unpack
\* raises on one that is not JSON), without one the row is loaded.
loadRedisCache_returns(j, what) ==
  /\ Resumed(j, "cache", what)
  /\ CASE what = "hit" -> respond(j)
       [] what = "bad" -> Return(j, "error")
       [] OTHER -> loadByPrimaryKeys(j)

\* Mutant: a failure to load the row is swallowed and nobody is answered.
loadByPrimaryKeys_returns_Silent(j, what) ==
  /\ Resumed(j, "row", what)
  /\ IF what = "failed"
       THEN stage' = [stage EXCEPT ![j] = "none"] /\ UNCHANGED <<agentQ, dataQ>>
       ELSE respond(j)

\* loadByPrimaryKeys returns.  Without a row the response has no energy; the
\* message about a failure concatenates the undefined redisKey and raises.
\* (So does the one about several rows, but user_id is the primary key of
\* user_energy, database/music_game.sql.)
loadByPrimaryKeys_returns(j, what) ==
  /\ Resumed(j, "row", what)
  /\ IF what = "failed" THEN Return(j, "error") ELSE respond(j)

LoginStep(j, what) ==
  /\ \/ getColumnNames_returns(j, what)
     \/ insertOnDuplicate_returns(j, what)
     \/ energyColumns_return(j, what)
     \/ loadRedisCache_returns(j, what)
     \/ loadByPrimaryKeys_returns(j, what)
  /\ UNCHANGED <<sent, alive, serviceVars>>
=============================================================================
