# Owlies server: TLA+ models, model checking and proofs

The Owlies server is a game server on the skynet actor runtime. Clients
connect over TCP to a gate; each connection gets an agent service; agents pass
client messages to `owlies_api`, which keeps a session number per connection and
answers logins from MySQL and redis. These modules model that system from its
source, check it with TLC on small instances and prove the properties of the
gate for any number of connections with TLAPS.

## 1. Inventory of the system

| Part | Source (under `src/server`) | State | Operations | Talks to |
|---|---|---|---|---|
| skynet queues | `3rd/skynet/skynet-src/skynet_mq.c`, `skynet_server.c`, `lualib/skynet.lua` | one FIFO queue per service, coroutines waiting in `skynet.call` | send, dispatch, answer, exit | everybody |
| socket thread | `3rd/skynet/skynet-src/socket_server.c`, `skynet_socket.c` | socket types, control pipe | accept, start, close, data, error | gate |
| gate | `3rd/skynet/service/gate.lua`, `lualib/snax/gateserver.lua` | `connection` (twice), `forwarding`, `client_number` | open, close, error, message, forward, kick | socket thread, watchdog, agents |
| launcher | `3rd/skynet/service/launcher.lua` | `services`, `instance` | LAUNCH, LAUNCHOK, ERROR, REMOVE | watchdog, agents |
| watchdog | `Script/Service/owlies_watchdog.lua` | `agent` | `SOCKET.open/close/error`, `CMD.close` | gate, launcher, agents |
| agent | `Script/Service/owlies_agent.lua` | `client_fd` | `CMD.start`, `CMD.disconnect`, the client protocol | gate, watchdog, api |
| api | `Script/Service/owlies_api.lua` | `networkSessionMap` | `receivedApiCall`, `receivedChangeEvent` | agents, db_service, owlies_redis |
| login objects | `Script/DataTypes/*.lua` | an object per login | read columns, insert, load from redis or MySQL, serialize | db_service, owlies_redis |
| db_service, owlies_redis | `Script/Lualib/db_service.lua`, `Script/Service/owlies_redis.lua` | one connection each | `query`; `get`, `set`, `del`, `exists` | MySQL, redis (through the socket channel) |
| message codec | `Src/LuaInterface/lua_connectionManager.c`, `Script/Lualib/owlies_connection_manager.lua` | none | pack, unpack | agent, api |
| hiredis service | `Script/Service/owlies_redis_deprecate.lua`, `Script/Lualib/hiredis_util.lua`, `Src/Redis/hiredis.c` | `redisContext`, the retry loop | connect with retries, ping, set, get | redis |
| database objects | `Src/DBObject/*` | C structs in Lua userdata | new, getters, setters | Lua's collector |
| socket channel | `3rd/skynet/lualib/socketchannel.lua` | request queue, dispatch thread | request, response, reconnect | MySQL and redis drivers |
| netpack | `3rd/skynet/lualib-src/lua-netpack.c` | partial packets | filter | gate |
| start-up | `Script/Service/owlies_main.lua` | none | launches the services in order | launcher |
| the rest | sproto schemes, `owlies_mysql_service.lua`, `Src/Game`, `lua_physic.c`, samples, vendored libraries | constant or none | | |

What makes it hard: every `skynet.call` is a point at which the service handles
other messages; sockets are closed by the peer, by the server and by errors at
any time; an agent may exit while its own calls are in flight; a login waits
five times; MySQL and redis refuse, and their connections are lost; a handler
that raises answers with an error, and one that returns without `skynet.ret`
does not answer at all.

`PROJECT.json` lists the hazards at the lines where they bite, with the
properties that would catch them.

## 2. Modules

### Connections: `Skynet`, `SocketServer`, `Gate`, `Launcher`, `Watchdog`, `Agent`, composed in `Lifecycle`

* `Skynet` has the queues. A handler runs until it returns or waits, so the part
  between two waits is one action (`SOCKET_open`, `SOCKET_open_launched`,
  `SOCKET_open_ends` are the three parts of `SOCKET.open`). Answers are messages
  too; the connection stands for skynet's session number. Sends to a handle that
  exited are dropped (`Post`).
* `SocketServer` has the socket of each connection (`unused`, `paccept`,
  `connected`, `halfclose`, `invalid`) and the control pipe through which gate
  requests reach the socket thread.
* `Gate` has both tables: `gsConn` is gateserver's (`nil`, `false`, `true`),
  `connection` with `cagent` and `forwarding` are gate.lua's.
* `Launcher` has `services` and `instance`; `owner[a]` records whose
  `SOCKET.open` launched agent `a`.
* `Watchdog` has `agent`, and where each coroutine of `SOCKET.open` (`opening`)
  and `close_agent` (`kicking`) is.
* `Agent` has `client_fd` and where `CMD.start` is.
* `CMD.close` has no caller in the repository. `CmdClose` is the set of
  connections for which some service is assumed to call it.

### Client messages: `MessageCodec`, `Calls`, `AgentDispatch`, `ApiService`, `LoginData`, `DataServices`, composed in `ApiSession`

* `MessageCodec` reads a client's packet as `unpackMessage` and `deserialize`
  do: session in bytes 0 to 3, type in byte 4, length of the name in bytes 5
  and 6, the name from byte 7, then the body. Bytes are read through a signed
  `char`, promoted, shifted and or-ed. The packet itself is the client's
  (external). `packMessage` has another header, six bytes without a type, and
  only the client reads what it packs; it is not modelled.
* `Calls` has the queues of agents, `owlies_api`, `db_service` and
  `owlies_redis`. A job, the pair of a connection and a message number, names
  the coroutine in the agent and the one in `owlies_api` that handle a message.
* `AgentDispatch` is the client protocol. `unpack_raises` is possible for every
  message: `unpackMessage` terminates the name with whatever its uninitialised
  buffer holds.
* `ApiService` has `networkSessionMap` and the two commands.
* `LoginData` is `processApiCall` for a login: columns of `user_login`, INSERT,
  columns of `user_energy`, redis, row of `user_energy`, and what the code makes
  of each answer: `ok`, `bad` (MySQL's badresult, or a cached value that is not
  JSON) and `failed`. The text of SQL statements is not modelled, only whether a
  column of the request is missing, which raises while the statement is built.
  More than one row of `user_energy` cannot be found, since `user_id` is its
  primary key.
* `DataServices` is `db_service` and `owlies_redis`, which are the same machine
  twice. Every request runs in a coroutine (`request`, `resume`) and waits in the
  socket channel: in `thread` for its response or in `connecting` for the
  connection. `wire` is what MySQL or redis has not answered yet. A message of
  the socket (`socket_data`, with one or several responses, `socket_close`,
  `socket_connect`) resumes the coroutine that waits for the socket
  (`resume_channel`: `dispatch_by_order` or `block_connect`), which marks the
  requests it has something for (`woken`). `dispatch_wakeup` then resumes the
  marked ones in any order, as `next` yields them; one that raises ends this
  (`more`), and the rest stays marked until the next message of the service
  (`Stranded`).

`AgentDispatch` sees `Agent`'s life only as `alive` and `disconnect`; that
packets reach the right agent is what `Lifecycle` shows.

### `RedisService` and `DBObject`

* `RedisService` is the service on hiredis. It is sequential; redis goes up,
  down and through loading at every step. A NULL reply ends the server, as the
  code dereferences it; a command on a freed context may do anything.
* `DBObject` has the objects' fields as addresses of Lua strings, the strings
  the program refers to, and the collector.

## 3. Runs

| Run | Instance | Shows |
|---|---|---|
| `lifecycle` | 3 connections, 2 agents, `maxclient` 2, 1 packet | `TypeOK`, `ClientsCounted`, `TablesAgree`, `RoutedHome`, `NoPacketToWatchdog`, `NobodyWaitsAtRest`, `AgreedAtRest`, `StartEndsBeforeDisconnect` |
| `lifecycle_close` | 2 connections, 2 agents, `CMD.close` for both | `TablesAgree`, `StartsComeFirst`, `NobodyWaitsAtRest`, `AgreedAtRest` with `CMD.close` racing everything |
| `lifecycle_live` | 2 connections, `maxclient` 1, fair | `ClosedIsReclaimed`, `OpenEnds` |
| `api_session` | 1 client, 3 messages of 5 kinds with sessions 125 to 128, 1 fault | `TypeOK`, `SessionIsAnUnbrokenRun`, `RepliesAreLogins`, `ResponsesAreOwn`, `NothingWaitsAtRest` |
| `api_two_clients` | 2 clients, 2 messages each, 1 fault | `SessionIsAnUnbrokenRun`, `ResponsesAreOwn` |
| `api_live` | 1 client, 2 messages of 8 kinds, 2 faults, fair | `EveryCallReturns` |
| `api_types` | 1 message | violation of `ApiCallsReachApi` |
| `api_missing` | 1 client, 2 messages | violation of `MissingSessionsIsTrue` |
| `message_codec` | sessions 0..1000 and all edge bytes, name lengths 0..600 | `NonNegativeIsExact`, `BodyIsWhatFollows` |
| `redis_service` | 3 contexts, 5 changes of redis | `TypeOK`, `FailureMeansAllRefused` |
| `redis_retry` | the same, smaller | violation of `AllFailedIsTrue` |
| `db_object_get` | 1 object, 1 address | violation of `GetReturnsSet` |

Why the bounds are enough: three connections and two places make one connection
wait for or be refused by the other two, and two agents make launching fail for
one of them; a second connection is needed for anything to leak between
connections and a third changes nothing for the properties of pairs. Three
messages are a login, its successor and one out of order, or three logins whose
requests share the two connections: one whose response is being read, one that
waits behind it and one that is left marked. `MaxFaults = 1` puts one failure (a
refusal or a lost connection) at each of the waits, and 2 in `api_live` adds a
connect that is refused after the loss. The logins of `api_two_clients` lack a
column and end after their first query; what happens later does not touch the
session map. The codec's run contains every combination of
the bytes 0, 1, 127, 128 and 255. Deadlock is not checked where the system may
really stop: after its bounded number of connections or messages, or when the
server has died.

**Symmetry** is used where no property is temporal: connections and agents are
interchangeable.

**Fairness.** Each service is weakly fair, as skynet's worker threads visit
every non-empty queue; so is the socket thread for its control pipe. Peers owe
nothing. In `api_live` MySQL and redis answer what they are asked while the
connection stands, and an attempt to connect ends one way or the other; nothing
forces a connection to fail.

### What the violations show

* `api_types`: the agent sends `ChangeEvent` messages to `receivedApiCall` and
  `ApiCall` messages to `receivedChangeEvent` (`owlies_agent.lua:38-41`).
* `api_missing`: session 128 is read as -128 through the signed `char`
  (`lua_connectionManager.c:15`), so a client that counts on from 127 is refused
  with "Missing sessions: client ..." (`owlies_api.lua:35`) until it logs in
  again.
* `redis_retry`: a connection made in the third attempt is announced as "all
  failed", freed and handed out (`hiredis.c:62-69`).
* `db_object_get`: a getter reads a string that Lua has collected
  (`dbobjuseraccountlib.c:39`).

Three weaknesses of the code are excepted by properties that hold:

* `AgreedAtRest` admits a connection whose agent could not be launched. Its
  socket is never started, hence never watched, so it keeps its place for as
  long as the gate runs, whatever its peer does.
* `NothingWaitsAtRest` is not about the coroutines that called `syncError`, which
  `owlies_api` never answers.
* `NothingWaitsAtRest` and `EveryCallReturns` except the calls whose request is
  left marked in `db_service` or `owlies_redis` (`Stranded`). When a connection is
  lost while two logins wait for columns, the first coroutine raises and the
  second is not resumed before another message reaches the service.

Others are not excepted but simply how the model goes on, as the code does: a
login is answered although its INSERT failed, its session counts although its
data path raised, the responses of one client's logins may overtake each other,
and a lost redis context ends the server. `PROJECT.json` has them as hazards
without a property.

## 4. Proofs

All for arbitrary sets of connections and agents, any `maxclient` and any
traffic, from the assumptions of `Skynet` (`Nil`, agents and services are
distinct), `Gate` (`maxclient` is a natural number) and `Lifecycle` (`CmdClose`
is a set of connections).

| Theorem | Module | States |
|---|---|---|
| `PacketsRoutedHome` | `LifecycleProofs` | `Spec => []RoutedHome` |
| `ClientNumberIsExact` | `GateProofs` | `Spec => []ClientsCounted` |
| `GateTablesAgree` | `GateProofs` | `Spec => []TablesAgree` |
| `TypeCorrect` | `GateProofs` | `Spec => []TypeOK` |
| `NoPacketIsDropped` | `GateProofs` | `Spec => []NoPacketToWatchdog` |

None of these invariants is inductive. The argument has four layers, each
inductive given the ones before:

1. `Types` (`LifecycleTypes`): types, without the bound on `client_number`,
   which needs layer 4.
2. `Owned` (`LifecycleProofs`): a message that ties an agent to a connection
   (`launched`, `start`, `forward`, `client`) ties it to the one it was launched
   for. `RoutedHome` follows, since an agent's `client_fd` and `owner` never
   change once set.
3. `Fresh` (`GateStart`, `GateServes`): an `open` event is in the gate's queue
   at most once per connection, and a connection the gate has no agent for has
   never been started. Without it the gate could count a connection twice.
4. `Counted` and `TablesAgree` (`GateProofs`): the counter and the two tables
   change together. `NoPacketIsDropped` uses layer 3: a socket that is read was
   started by `CMD.forward`, which records the agent first.

Only model-checked: everything at rest (`NobodyWaitsAtRest`, `AgreedAtRest`),
`StartEndsBeforeDisconnect`, `StartsComeFirst`, liveness, which is out of the prover's reach, and
all properties of the client-message, redis and database-object modules.

## 5. Not modelled

Netpack (the gate receives whole packets), start-up, the sproto coding, the text of
SQL statements and redis keys, the drivers, timers, harbor, UDP, and the
vendored libraries. `PROJECT.json` gives the reason for each. The methods `set`,
`del` and `exists` of `owlies_redis`, `updateRedis`, `updateDB` and
`clientDisconnect` have no caller.

Of the socket channel, a connection that is lost while nobody waits: nobody
notices, the next request fails in its write, and the dispatch thread of the lost
connection goes on beside the next one's. `ResponsesAreOwn` says nothing about
that. Of the gate, what happens to the listening socket itself.

## 6. Plan

1. `DataServices`: connections lost while nobody waits, with the two dispatch
   threads that follow, and an abstract specification of the channel (every
   request gets its own response or an error) that it is shown to implement.
2. `Netpack`: framing of a byte stream in arbitrary pieces, against a reference
   definition, composed with the gate.
3. `Startup`: `owlies_main` with the launcher and the names the services
   register; the gate listens only when all names are there.
4. An abstract specification of a connection (absent, open, closed) and of the
   api session (a counter per connection), with refinement mappings from
   `Lifecycle` and `ApiSession`.
5. Proofs: an inductive invariant for `SessionIsAnUnbrokenRun` and
   `RepliesAreLogins` for any number of connections and messages, the safety
   half of `StartEndsBeforeDisconnect`, and the refinements of step 4.
