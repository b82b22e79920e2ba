# aiagw in TLA+

aiagw is a gateway between chat clients, which speak the OpenAI HTTP protocol, and
agents, which keep a gRPC stream open to one of several gateway instances. The gateways
share their view of the agents and of the sessions through Redis. This directory holds
TLA+ models of the gateway, the TLC configurations that check them, and proofs about
them for TLAPS. Paths below are relative to the repository.

## 1. The system

| Component | State | Operations | Talks to |
|---|---|---|---|
| Agent pool, `internal/agent/pool.go` | Redis: hash `agent:<type>:<id>` with a TTL, sets `agents_by_type:<type>` and `gateway_agents:<gateway>` | Register, ReRegister, Unregister, UpdateHeartbeat, Get, ListByType, IncrActiveSessions, DecrActiveSessions, UnregisterByGateway | Redis |
| Agent connections, `internal/agent/grpc_server.go` | `localAgents`, `responseHandlers`, for each connection a channel of requests and `done`; two goroutines | Connect, recvLoop, sendLoop, SendRequest, HasLocalAgent, (Un)RegisterResponseHandler | agents (stream), pool, HTTP handlers (callbacks) |
| Router, `internal/router/router.go` | none | Route | pool |
| Chat handler, `internal/handler/chat.go` | for each request `respCh` and a timer | Handle, resolveAgent, ensureSession, the local and the remote path, streaming or not | router, sessions, connections, forwarder |
| Internal server, `internal/agent/grpc_internal.go` | for each request `respCh` | ForwardRequest | connections, peer gateways |
| Forwarder, `internal/agent/forwarder.go` | Redis: hash `gateway:<id>` with a TTL; a cache of client connections; one goroutine for each forwarded request | RegisterInstance, RefreshKeepalive, LookupInstance, UnregisterInstance, ForwardToRemote, Close | Redis, peer gateways |
| Sessions, `internal/session/manager.go`, `internal/handler/session.go` | Redis: hash `session:<type>:<id>` with a TTL, set `agent_sessions:<agent>` | CreateWithID, Get, Touch, Delete, DeleteByAgent, `DELETE /v1/sessions/:id` | Redis, chat handler |
| Agent SDK, `pkg/agentsdk/sdk.go` | the current connection and stream, `done`; goroutines for heartbeats and for each request | Run, connect, runSession, cleanup, Close, handleRequest, heartbeatLoop, responseStream | connections |
| Pure code | none | `internal/openai`, `internal/middleware/auth.go`, `ComposeSessionID` and `ParseSessionID` | |
| Rest | none of interest | models handler, HTTP server, configuration, logging, error codes; `internal/tenant` (imported by nothing) | |

`cmd/gateway`, the main program, is not in the repository, so what it calls when
(the keepalive timer, `UnregisterByGateway`) is only known from the operations themselves.

What is hard, and what makes each part correct:

* **Pool and connections.** Each operation of the pool is several Redis commands, and
  several gateways, several connections of one agent, expiry and crashes come in between.
  Correct: an agent that is served is listed and its record names the gateway that serves
  it; what an agent, a gateway or a lost answer leaves behind goes away; an agent that lost
  its connection gets back.
* **Routing.** Route reads many hashes at different moments. Correct: it chooses among
  the agents that are there and does not miss one that was there all the time.
* **Requests and responses.** A response passes the stream, a lookup, a callback without
  the lock and a channel, while the request times out and the connection breaks. Correct:
  the client gets the reply to its own request, whole and in order, and every request and
  every broken connection comes to an end.
* **Forwarding.** Keepalive against expiry; a stream between gateways that breaks.
  Correct: a gateway that is alive can be found; a reply cut off is not presented as whole.
* **Sessions.** Sessions outlive agents; Touch races expiry and deletion. Correct: a
  session leads to its agent and to no other; the index has what the hashes say.
* **SDK.** Goroutines of a request and the heartbeat share a stream that is replaced.
  Correct: no use of a stream that is gone, one reply for each request, back-off bounded.

The hazards, each at its line and with the properties aimed at it, are listed in
`PROJECT.json`.

## 2. The modules

| Module | What it is |
|---|---|
| `AgentRegistry` | the pool, the Connect handlers with their heartbeats, Route with IncrActiveSessions, UnregisterByGateway |
| `MCAgentRegistry` | its instances for TLC, `registry_*.cfg` |
| `AgentRegistryProofs` | theorems about it, for any environment |
| `AgentRegistryQuietProofs` | theorems about it under hypotheses on its environment, each named: one handler of an agent at a time, no sweeps, no routing |
| `ChatReply` | abstract: what a chat client is promised |
| `Dispatch` | the local path of a chat request: HTTP handler, response handlers, sendLoop, recvLoop, teardown |
| `MCDispatch` | its instances for TLC, `dispatch*.cfg` |
| `DispatchProofs` | theorems about it, and that it implements `ChatReply` |
| `Forwarding` | the remote path: the record of the other gateway, the call to it, the goroutine and the channel of the call; the other gateway is `ChatReply` |
| `MCForwarding` | its instances for TLC, `forward*.cfg` |
| `ForwardingProofs` | theorems about it, and that it implements `ChatReply` |
| `ReplyLemmas` | lemmas about consecutive messages of a reply, for both |
| `Sessions` | the session manager, the part of the chat handler that uses it, the DELETE handler |
| `MCSessions` | its instances for TLC, `sessions*.cfg` |
| `SessionsProofs` | theorems about it |
| `AgentSDK` | the agent's side: Run, heartbeat loops, handlers and Close over one stream after another |
| `MCAgentSDK` | its instances for TLC, `sdk*.cfg` |
| `AgentSDKProofs` | theorems about it |

Definitions whose comment begins with "Mutant of" are faulty variants of the definition
below them: no specification uses them. Putting one in the place of the original shows
that the property `PROJECT.json` pairs it with is able to fail.

### AgentRegistry

One action is one Redis command or one MULTI, which Redis runs one at a time, or one
step under the lock of a gateway. Between two actions anything else may happen.

| Code | Model |
|---|---|
| hash `agent:<type>:<id>` | `rec[a]`: `gw` (with all the fields that only Register and ReRegister write), `hb` (last_heartbeat is there), `cnt` (active_sessions, `NoCount` when missing), `ttl`. A hash without fields does not exist |
| `parseAgentInfo` succeeds and the status is online | `Whole` |
| `agents_by_type:<type>`, `gateway_agents:<g>` | `byType`, `gwAgents[g]` |
| `localAgents` of a gateway | `local[g]` |
| the Connect handler | `pc[c]`: closed, register, accepted, serving, heartbeat, reregister, disconnected, unregister, erase. `seen[c]` is the gateway_instance that its HGETALL returned |
| Register | `Connect` (EXISTS), `RegisterWrite` (MULTI) |
| the heartbeat case of recvLoop | `HeartbeatRead`, then `HeartbeatWrite` or `ReRegister` |
| return of recvLoop and teardown | `Disconnect`, `DeleteLocal`, `UnregisterRead`, `UnregisterWrite` |
| Route and ListByType | `RouteMembers` (SMEMBERS), `RouteGet` (HGETALL, in any order), `RouteRemove` (SREM), `RouteReturn` |
| IncrActiveSessions | `IncrRead` (EXISTS), `IncrWrite` (HINCRBY) |
| UnregisterByGateway | `SweepMembers`, `SweepMember`, `SweepDone` |
| failing commands | `RegisterError`, `HeartbeatError`, `UnregisterError` (the MULTI of Register and of ReRegister may have run), `RouteError`, `IncrError`, `SweepError` |
| expiry, death of a gateway | `Expire`, `ExpireGatewaySet`, `Crash` |

`steady` is a history variable: the agents that kept their registration since a request
read the index, none once a command of the request has failed. Route has no access to it; `RouteIsHonest` needs it.

A registration refused by EXISTS and a failing command that is only logged change nothing
and need no action. A request may stop anywhere, which is why none of its steps is fair.
All agents have one type and the keys of two types are disjoint, but for `localAgents`,
which has IDs alone (listed as a hazard). Status is always online: nothing writes another
value. Metadata and times are left out.

All TTLs are equal, so that the set of a gateway outlives a record that names the gateway, as
long as whatever renews the record renews that set too. Register and ReRegister do. A
heartbeat renews the set of the gateway that it has *read*, while its EXPIRE renews the record
whatever gateway it names by then. `ahead` has the agents whose record was renewed in this way
later than the set of its gateway, and `ExpireGatewaySet` may take that set from under
them.

Two constants describe the environment, because some properties need it tame and the
violations show what happens when it is not:

* `OneAtATime`: an agent dials only when no handler of an earlier connection is left. The
  SDK has one connection at a time, but a gateway may notice later than the agent that a
  connection broke; then handlers overlap (`FALSE`).
* `ExpiryRaces`: a record may expire between the HGETALL and the MULTI of a heartbeat.
  With heartbeats every 30 s and a TTL of 180 s that takes a heartbeat that is very late.

`Callers` and `Sweepers` may be empty. Bounds: `MaxCount` on active_sessions (a request
that would exceed it stops), `MaxFaults` on crashes and failing commands together.

### Dispatch and ChatReply

| Code | Model |
|---|---|
| the handler of a request | `h[r]`: idle, local, registered, sending, waiting, answered, failed, or forwarded (another gateway has the agent) |
| SendRequest: the connection, read under the lock, and the `select` after the unlock | `SendRequest`, `Enqueue`; `stale` has the requests whose connection was replaced in between |
| `responseHandlers`, `respCh` | `handlers`, `respCh[r]` with capacity `RespCap` |
| what the HTTP handler has taken, and written to the client or to its buffer | `got[r]` |
| `agentConn.requests` | `queue[a]` with capacity `ReqCap` |
| sendLoop; recvLoop and the rest of Connect | `sender[a]`; `loop[a]`, and `held[a]`, the response in its hands |
| the gRPC stream | `link[a]`, `inbound[a]`: in order, lost when the stream breaks; `lost` has the requests of whose replies a message was lost so |

The streaming and the non-streaming handler take the same steps, and `ForwardRequest`
takes them at the gateway of the agent: there `GiveUp` is the end of the context, which
comes with the timer or the departure of the client at the gateway that called. A Go
`select` takes any case that is ready, so `GiveUp` is possible while a response waits. The
deadline is not counted; the timer may fire at any moment. The agent is external: its reply
has `ReplyLen` messages, the last one marked done, and it may stop before. When its stream
breaks it goes on with its replies over the next one, as the SDK does (`send` takes the
`a.stream` of the moment, `sdk.go:314-320`, and cleanup stops no handler), or it drops them,
as the Python example does: `LinkDown` has both. Messages on the broken stream, and those sent
before there is another, are gone. The gateway cannot notice, so `AnswerIsWhole` is
claimed of replies that lost nothing in this way: whatever is missing was lost by a
stream and not by the gateway.

A request may be queued on a connection that was deleted from `localAgents` after it was read:
`Enqueue` then writes to a channel that nobody reads. If the agent has connected again
meanwhile that channel is not `queue[a]`, which is the new connection's; such a request is in
`stale`, and waits without being sent to anyone.

`ChatReply` is what the clients may rely on. `KeepsPromise` is `Promise!Spec`, with
`status` read from `h` (registering and sending are "open"), `shown` from `got` and `broken`
from `lost`: a reply that a stream has lost part of may have gaps, and may be taken for
answered; any other comes message by message.

### Forwarding

A gateway that does not have the agent itself asks another one, the peer.

| Code | Model |
|---|---|
| the process of the peer, and the address it was started under | `gw` (down, starting, serving, leaving), `listen` |
| hash `gateway:<id>` | `record`: the field `addr`, whether the key exists (`alive`), whether it has a TTL |
| RegisterInstance and RefreshKeepalive: an HSET and an EXPIRE in one pipeline, which is no MULTI | `RegisterInstance` or `RefreshKeepalive`, which leave `pending`, and later `ExpireCommand`; when the process dies in between, the EXPIRE may still reach Redis or never be sent (`Stop`) |
| UnregisterInstance: the DEL is sent, and carried out | `UnregisterInstance`, which leaves `deleting`, and `DeleteCommand`, also after the process has ended |
| death of the process, expiry | `Stop`, `ExpireRecord` |
| the HTTP handler of a request | `h[r]`: idle, lookup, found, dial, waiting, answered, failed; `got[r]` is what it has taken |
| dialRemoteAgent | `GetAgent`, `LookupInstance` (its answer is `dial[r]`, used a step later), `ForwardToRemote` |
| the goroutine of ForwardToRemote | `reader[r]`: none, receiving, putting, ended; `read[r]` messages read, `respCh[r]` the channel |
| collectNonStreamResponse, writeStreamResponses | `Collect`, `ChannelClosed`, `GiveUp`; `streaming` is chosen at the start |
| context of the call, connection between the gateways | `cut[r]` |
| Forwarder.Close | `Close` |
| ForwardRequest at the peer | `peer[r]`, `sent[r]`, `lost`, which move by the actions of `ChatReply` |

This composes the two gateways: `Dispatch` shows that a gateway keeps the promise of
`ChatReply`, `Forwarding` uses a peer that keeps it (and whose agent may lose part of a reply
with its stream, `PeerLoses`) and shows that what the client gets keeps it too. Only the safety part is used, as
`ForwardRequest` has no timer and its end depends on the caller. `KeepsPromise` here is about
clients that asked for a single body; of a stream `NothingSkipped` is claimed, and
`forward_cutoff` shows what is missing. `Cut` may come at any moment of a call, also
before the peer has heard of it, and loses whatever was not read.

There is one peer and the requests of an instance share nothing but it and its record, so
that one request is enough for all but `Close`, which cuts every call in one step.
`ExpiryRaces` is `FALSE` where `RunningGatewayIsFound` is checked: the record of a living
gateway expires only if keepalives are late, and then the next keepalive makes a record
without an address (with `TRUE` the invariant fails). `LateDelete` is `FALSE` there too: a DEL
that the last life sent and that reaches Redis after the next start takes the new record away
(`forward_latedelete`).

### Sessions

| Code | Model |
|---|---|
| hash `session:<type>:<raw>` | `sess[id]`: agent and type (what CreateWithID writes together), whether the key exists, its TTL, and whether most of the TTL has gone by (`idle`) |
| `agent_sessions:<agent>` | `index[a]` |
| session IDs | sequences over `Tokens`, one of which is the colon, so that `ComposeSessionID` and `ParseSessionID` (`RawID`) are computed |
| resolveAgent | `Ask`, `Get`, `TouchExists`, `TouchWrite`, `Route` |
| the exchange with the agent, ensureSession | `Reply`, `CreateWithID` |
| the DELETE handler and Delete | `DeleteCheck`, `DeleteGet`, `DeleteWrite` |
| DeleteByAgent | `CleanMembers`, `CleanExists`, `CleanRemove`, `CleanReturn` |
| failing commands | `RedisError`, `DeleteError`, `CleanReturn` |
| time; agents coming and going | `Age`, `Expire`; `LeaveOrReturn` |
| the raw session IDs that an agent has given out so far (history) | `known[a]` |

`pc[q]` is the place of a chat request; `target[q]` and `raw[q]` are what it has read, which
may be stale by the time it is used. `Return` puts the variables of a request back, so that
another may take its place and the runs contain any number of requests. A header
carries any session ID that agents can have given out, for any model, or none: what a
client invents is not there as a session and is treated like one that has expired. A
malformed header fails in `Get` in the same way. Nothing in the repository but a test
calls DeleteByAgent; `Cleaned` is the set of agents it may be called for. Create is
CreateWithID with a new raw ID. Two agents may give out the same raw ID.

### AgentSDK

| Code | Model |
|---|---|
| the place of Run | `run`: top, dialing, register, publish, start, session, receiving, ended, lost, failed, wait, returned |
| `a.stream`, `a.conn` | `stream`: the number of a stream, 0 for nil |
| the streams opened so far | `link[n]`: open, broken (by the gateway or the network), closed (by the agent); `wire[n]`: what the gateway was sent |
| `a.done`; the context of Run; WithReconnect | `done`, `cancelled`, `reconnect` |
| heartbeatLoop | `beating`, the streams whose loop has not ended; `Heartbeat`, `HeartbeatEnds` |
| handleRequest and the response stream | `handler[r]`; `Receive`, `Reply`, `HandlerReturns` |
| Close | `closer[c]`; `CloseCheck`, `CloseDone`, `CloseCleanup` |
| a panic | `panicked`; the process is over |

What the code does while it holds `mu` is one action. The code reads `a.stream` in recvLoop
without `mu`: `ReadStream` is a step of its own after `RunSession`. The interleaving in which
Close sets it to nil in between is a panic. A `select` takes any case that is ready, so that
`Heartbeat` may be taken although the loop is to end. A message sent on a stream that is not open
disappears: `Send` of gRPC often returns no error then, and the SDK ignores the error of
heartbeats. The gateway ends a stream without error only after the agent's CloseSend
(Connect returns what `recvLoop` returns, and that is nil only at EOF, `grpc_server.go:155-157`),
which is `ReceiveEOF`. Delays are not measured, and a `Send` that waits for flow control while it
holds `mu` is left out.

## 3. The runs

| Run | Instance | Shows |
|---|---|---|
| `registry_overlap` | 1 agent, 2 connections to 1 gateway that may overlap, 1 request, 1 sweep, expiry at any moment, 1 fault | `TypeOK`, `RoutableIsLeased`, `LocalEntriesAreLive` |
| `registry_routing` | 2 agents, 2 requests (symmetric), no faults | `RouteIsHonest` |
| `registry_quiet` | 2 agents, one with a connection to each of 2 gateways (one open at a time), one to the first; 2 faults, no requests | `ServingIsLocal`, `RecordNamesServer`, `IndexComplete`, `EveryRecordParses`, and `ServedAgentRecovers`, `AgentReturns`, `OrphanVanishes` under fairness |
| `dispatch` | 2 requests, 1 agent that resumes its replies after a reconnection or drops them, replies of 2 messages, `respCh` of 2, request channel of 1, 1 reconnection | `TypeOK`, `AnswerIsWhole`, `ShortRepliesNeverBlock`, and `DeadConnectionEnds`, `ResponseHandlerIsRemoved`, `KeepsPromise` under fairness |
| `forwarding` | 1 request, streamed or not; a peer with 2 addresses that starts twice; replies of 3 messages, `respCh` of 2 | `TypeOK`, `RunningGatewayIsFound`, `NothingSkipped`, and `PeerHandlerEnds`, `ReaderEnds`, `KeepsPromise` under fairness |
| `sessions` | 2 agents of one type with one raw session ID between them, which contains a colon; 2 models, one of which no agent has; 2 requests at a time, a DELETE, DeleteByAgent for one agent | `TypeOK`, `AgentKnowsSession`, `EverySessionIsIndexed`, `OnlyReplyRevives`, and `UnusedSessionExpires` under fairness |
| `sdk` | 2 streams with 2 messages each, 1 request, 2 calls of Close, reconnecting or not | `TypeOK`, `RegisterFirst`, `KeepsReconnecting`, `SessionsDoNotOverlap`, and `CloseEndsRun` under fairness |

Why these bounds are enough to be interesting: a connection is opened again after its
handler has ended, so that each run has arbitrarily many registrations of an agent. Two
connections are the fewest that overlap; two gateways and two faults let a crash at one be
followed by an error at the other, and two agents share the set of a gateway and its death. Two agents and two requests let a counter change
between the reads of a listing. A request channel of 1 is full with two requests, and two
requests with replies of two messages interleave on the stream while one of them gives
up, and a reply of two loses its first message on one stream and ends on the next. The code's capacities, 16 and 64, are out of TLC's reach; the proofs do
not depend on any bound.

A peer that starts twice, under one of two addresses, finds the record of its first life,
with or without a TTL, and the EXPIRE of that life may come late. A channel of 2 and three
messages stand for 16 and 17: the goroutine of a client that leaves at once fills the channel
and blocks on the last message (`forward_leak`), and that of a client that was given one message
does not (`ReaderEnds`). Sessions are renewed, deleted and
created by two requests and a DELETE at once, which is what a check before a write and a
write after it take; sharing the only ID puts the session of one agent in the hands of the
other, and `known` tells which of the two has given it out when a request is sent. With two streams a heartbeat loop and a handler of the first meet the second; two
calls of Close meet in the check of `done`.

`dispatch`, `forwarding` and the runs of the SDK let the system stop
(`CHECK_DEADLOCK FALSE`): requests, starts, streams and calls of Close are used up, and a
process that has panicked is over. The other runs check deadlock.

### What the code does not do

The remaining runs end in a violation, on purpose. Each shows where the code falls short
of what the repository says; `PROJECT.json` quotes the statement.

| Run | Property | Behaviour |
|---|---|---|
| `registry_outage` | `IndexComplete` | `Get` looks at the length of the answer before the error: one failed HGETALL and the agent is taken off the index |
| `dispatch_wedge` | `DeadConnectionEnds` | the client leaves while recvLoop holds one of its responses and `respCh` is full: recvLoop waits for ever, no more heartbeats are read, and the end of the connection is not noticed. (`RespCap` 1 and replies of 2 stand for 16 and 17) |
| `forward_cutoff` | `AnswerIsWhole` | the call to the other gateway breaks, or the agent is not connected there: `respCh` is closed, and a streaming client is told [DONE] as after a whole reply |
| `sessions_pinned` | `SessionsFollowAgent` | an agent leaves; its session stays, and every request that carries it renews it before it fails: the client is tied to an agent that is not there |
| `sdk_panic` | `SurvivesDisconnect` | the stream breaks, cleanup sets `a.stream` to nil, and a handler that has something to say, or a tick of the heartbeat loop, calls Send on it before the next stream is published |

Nine more configurations end in a violation too. They show the hazards that the code does
nothing about, which the passing runs exclude by a constant or by the words of a property.
They are kept for the reader, and are not runs of `PROJECT.json`; `tlc -config <name>.cfg
<module>` shows each.

| Configuration, module | Property | Behaviour |
|---|---|---|
| `registry_unlisted`, `MCAgentRegistry` | `IndexComplete` | Route reads the index; the record expires; HGETALL finds nothing; a heartbeat re-registers the agent; Route's SREM takes it off the index. It heartbeats on and is never listed again |
| `registry_lockout`, `MCAgentRegistry` | `AgentReturns` | EXISTS of IncrActiveSessions; the record goes away; HINCRBY creates a hash without TTL. Register refuses the agent from now on, and listings of its type fail if it is indexed |
| `registry_teardown`, `MCAgentRegistry` | `ServingIsLocal` | two handlers of one agent at one gateway: the teardown of the older removes the `localAgents` entry of the younger |
| `registry_poison`, `MCAgentRegistry` | `ServedAgentRecovers` | the record expires between the two commands of a heartbeat: the HSET makes a hash of one field, and every later heartbeat renews it |
| `dispatch_gap`, `MCDispatch` | `AnswersAreWhole` | an agent loses its stream in the middle of a reply and goes on with it over the next: the handler is still registered and takes the last message, but not those in between |
| `forward_orphan`, `MCForwarding` | `DeadGatewayForgotten` | a gateway dies after the HSET of its registration and the EXPIRE is never sent: the record stays for ever, and requests are sent to an address where nobody is |
| `forward_latedelete`, `MCForwarding` | `RunningGatewayIsFound` | a gateway sends the DEL of its record and ends; it starts again and registers before Redis has the DEL, which takes the new record away |
| `forward_leak`, `MCForwarding` | `ReaderAlwaysEnds` | the client leaves early and more of the reply is to come than `respCh` has room for: the goroutine of ForwardToRemote waits for ever |
| `sdk_close`, `MCAgentSDK` | `CloseAlwaysEndsRun` | Close comes while connect dials or registers: there is no stream to close yet, and Run goes on to receive on the one that it then opens |

These mark the limits of the passing runs. `AnswerIsWhole` and `KeepsPromise` in `dispatch` say
that the *gateway* loses nothing; they except replies of which a broken stream lost a message, and
`KeepsPromise` is about replies no longer than `respCh`. The properties of `registry_quiet` are
about one handler of an agent at a time and, where requests or late expiry break them, about a
registry without those. `RunningGatewayIsFound` is about keepalives that are in time and deletions
that arrive before the next start. `ReaderEnds` is about calls of which `respCh` has room for the
rest, and `CloseEndsRun` about a Close that does not fall between the dialling and the publication
of a stream.

## 4. Fairness

`AgentRegistry!Fairness`: a Connect handler that can take a step takes one (goroutines are
scheduled, Redis answers or fails, heartbeats keep coming while an agent is connected); an
agent whose connection ended and whose registration is possible connects (the SDK's Run
retries for ever, with a bounded delay); a record that no handler of its agent can refresh
expires (Redis TTL). Not fair: disconnections, expiry under a handler, errors, crashes,
requests, sweeps.

`Dispatch!Fairness`: the goroutines of the HTTP handlers and of Connect run, and the timer
of a waiting handler fires in the end. A broken stream makes Recv fail (HTTP/2). Nothing
is assumed of agents, which may stop in the middle of a reply, or of sendLoop.

`Forwarding!Fairness`: the HTTP handlers and the goroutines of ForwardToRemote run, and the
timer of a waiting handler fires; the peer sees that a call is cancelled (gRPC carries the
context over, or the connection breaks); Redis runs the EXPIRE and the DEL that reach it (`Stop`
may be their end) and drops the record of a gateway that is down. Nothing is assumed of the answers of the peer, of its
start and its end, or of the network.

`Sessions!FairSpec`: Redis lets time go by for a key that nobody renews, and drops it. Nothing is
assumed of clients, agents or handlers, so `UnusedSessionExpires` is about a key that no
request holds in its hands.

`AgentSDK!Fairness`: Run takes its steps, with its delays going by, and a Close that has closed
`done` goes on to its cleanup, which nothing but `mu` can hold up. Nothing is assumed of the
gateway, the network, the handlers, the heartbeats, or of when Close is called.

## 5. The proofs

Every safety invariant, and every action property, that a passing run checks is also a
theorem, for all sets of agents, gateways, connections, streams and requests, all lengths of
replies, all capacities and all bounds. The assumptions are the `ASSUME`s of the modules, which
TLC evaluates on its instances, and where a theorem has a hypothesis it is a constant of the
model that describes the environment; it is named below, with what happens without it. All the
proofs of invariants have one layout: `Init` gives the invariant, each action keeps each part of it
(a part that an action does not disturb is carried over by a lemma named `...Frame` or
`...Kept`), and one temporal step puts them together.

### AgentRegistry, in any environment (`AgentRegistryProofs`)

* `TypeCorrect`, `TypeOK`: `StoreType` is about what a Redis command leaves; `ConnType`,
  `CallType` and `RedisAndGatewayType` take the actions one by one.
* `Leases`, `RoutableIsLeased`. The lemma `RecordStep` says what a step can make of a record
  and who does it: a handler that registers writes a fresh one, a heartbeat adds its field and
  a TTL, a teardown, a sweep or expiry removes it, a request counts. Each of these keeps the
  property, which is inductive together with `TypeOK`.
* `LiveEntries`, `LocalEntriesAreLive`, inductive together with `TypeOK`: `Entered` is the part of
  a handler's life in which it may own an entry; only `AddLocal` makes an entry, only
  `DeleteLocal` and `Crash` end a handler's stay in it. It holds although `DeleteLocal` may remove
  another connection's entry: that costs the other connection its entry
  (`registry_teardown`), and leaves none behind.
* `HonestRouting`, `RouteIsHonest`. A failing command empties the history of its request, as two
  failing reads in a row make Route miss an agent that is there. `RouteIsHonest` is not inductive, as it says nothing of a listing
  under way. `RouteInv` adds that the agents of the history are listed and whole, and that those
  already read are no better than the best so far. Every step of anything else only
  shrinks the history and never lowers the counter of an agent that stays in it (`Shrinks`),
  so that `RouteFrame` carries `RouteInv` over; `RouteOwnStep` goes through the steps of the
  request itself.

### AgentRegistry under hypotheses (`AgentRegistryQuietProofs`)

Each theorem assumes only that part of a quiet system which it needs; `registry_quiet` has all of it.

* With `OneAtATime`: `ConnectionIsFound` (`ServingIsLocal`) and `RecordIsTrue`
  (`RecordNamesServer`). The invariant is `ServiceInv`: `OneHandler` (of two handlers of one agent
  one has ended), which makes the rest inductive, `ServingIsLocal`, and `OwnsRecord` (from its
  registration to the end of its service a handler finds its own gateway or none in the record).
  Without the hypothesis the teardown of an older handler undoes what a younger one did.
* With `OneAtATime` and no sweeps: `GatewaySets`, a registered agent is in the set of its gateway.
  The hypothesis is needed for time as well as for teardown: a heartbeat that read another
  gateway's name renews the wrong set. `HeartbeatKnows` (the record of an agent whose heartbeat
  is under way names the gateway that the heartbeat read, or none) excludes it, and `ahead` stays
  empty (`NobodyAheadKept`). Without routing `TypeSets`, and with both `IndexesComplete`
  (`IndexComplete`). Routing breaks the second (`registry_unlisted`, `registry_outage`).
* `RecordsParse` (`EveryRecordParses`), in every environment, as long as each step is
  `Undisturbed`: no record goes away between the two commands of a heartbeat or of
  IncrActiveSessions. That is the one way in which a record that does not parse comes about
  (`registry_poison`, `registry_lockout` take it); crashes, errors, sweeps, overlapping
  connections and re-registrations are not. Inductive with `LateWritersHaveRecord`: who is between
  the two commands has a whole record.

### Dispatch (`DispatchProofs`)

* `PlaceInvariant` is about where messages are, whatever agents do: `HeldInv` and `StreamInv` say that the
  message in the hands of recvLoop, and each on the stream, has a greater number than all that was
  passed on of its reply is long, and that numbers grow along a stream; `CountInv` that no more
  was passed on than sent. `TypeCorrect` (a message in hand is a message) and `ShortReplies`
  (`ShortRepliesNeverBlock`) follow: if `respCh` were full, the message in hand would be the one
  after `RespCap`.
* `OwnReply`, `OwnReplyInOrder`: a client is given messages of the reply to its own request alone,
  each later than the one before, also where `dispatch_gap` shows that messages in between may be
  missing. `OrderInv` (theorem `OrderInvariant`) follows the order from the stream over recvLoop and
  `respCh` to the client.
* `WholeAnswer`, `AnswerIsWhole`, for agents of any kind. `WholeInv` adds to `PlaceInv`: a request is
  in the channel of its agent once and before it is worked on (`QueueInv`, `RequestInv`); and, as
  long as no message of its reply was lost with a stream, what was given and what is in `respCh`
  are the beginning of the reply (`ReplyInv`), and every message up to the last one sent is with
  the waiting HTTP handler, in `respCh`, in hand or on the stream (`NoGap`). The last part needs
  that the response handler is there from before the request is sent until the HTTP handler ends.
* `LocalPathRefines`: initial states map to initial states of `ChatReply`, and each step to a step
  of it or to a stutter. `Collect` is `Show`, with the next message by `WholeInv` or a later
  one by `OrderInv` when some were lost, and is `answered` exactly at the last; the loss of
  messages is `Break`; the other steps of a request are `Ask`, `Forward` and `Fail`.

### Forwarding (`ForwardingProofs`)

* `Invariant`: for each request the peer has sent messages of its reply in order, the beginning of it
  if nothing was lost (`SentInOrder`); what the client was given, `respCh` and the message in the
  goroutine's hands make up what was read of them (`PassedOn`); the handler of a single body
  goes on until the last message (`HandlerInv`). `TypeCorrect`, `ReplyWithoutGap` (`NothingSkipped`)
  and `SingleAnswers` follow. The last is `AnswerIsWhole` for requests for a single body, next to the
  violation for streams in `forward_cutoff`.
* `GatewayIsFound`, `RunningGatewayIsFound`, without `ExpiryRaces` and without `LateDelete`
  (`forward_latedelete`); it is inductive with `TypeOK` and with no DEL on its way to a running gateway.
* `RemotePathRefines`: the steps of `Forwarding` are steps of `ChatReply` or stutters. Since
  the peer moves by the actions of `ChatReply`, and `LocalPathRefines` shows that `Dispatch` does no
  more than these, the two theorems together carry the safety of a reply from an agent over
  two gateways to a client that asked for a single body.

### Sessions (`SessionsProofs`)

* `RawIDOfComposed`: `ParseSessionID` gives back what `ComposeSessionID` was given, for every raw ID and
  every type without a colon. That types have none is part of `SessionsAssumption`; the code does
  not enforce it (it is on the list of hazards).
* `AgentsKnowSessions` (`AgentKnowsSession`), `SessionsAreIndexed` (`EverySessionIsIndexed`) and
  `TypeCorrect` follow from one invariant: a whole session is under a key composed from the type
  of its agent and a raw ID that this agent has given out before (`OwnedBy`, with `KnownInv`); what a
  request has been resolved to fits its model and its agent (`ResolvedInv`); DELETE and DeleteByAgent hold IDs of sessions
  and act only while they run (`DeleteInv`, `CleanInv`).
* `RevivedByReplies` (`OnlyReplyRevives`), an action property, by cases on the steps that
  write a hash: Touch changes no field that makes a session one.

### AgentSDK (`AgentSDKProofs`)

* `RegistrationFirst` (`RegisterFirst`), `OneSessionAtATime` (`SessionsDoNotOverlap`), `RunKeepsOn`
  (`KeepsReconnecting`) and `TypeCorrect` follow from one invariant that ties Run to its
  streams. `a.stream` is nil or the newest stream (`StreamIsNewest`), and a heartbeat loop or a handler of an
  earlier session can send on no other; a stream that Run holds and `a.stream` does not was closed, by Close
  (`ClosedByClose`); and every open stream but one that is about to register has its registration
  (`Registered`), without which a late heartbeat could come first.

### What is only model-checked

* All liveness, since fairness and ENABLED are out of the prover's reach: `ServedAgentRecovers`,
  `AgentReturns`, `OrphanVanishes`, `DeadConnectionEnds`, `ResponseHandlerIsRemoved`, `PeerHandlerEnds`,
  `ReaderEnds`, `UnusedSessionExpires`, `CloseEndsRun`.
* Of `KeepsPromise`, in `Dispatch` and in `Forwarding`, the fairness of `ChatReply`: that every
  request that was taken up comes to an end.
* The violations: that the statements of the repository fail is shown by a trace, not proved.

## 6. Plan

Done: the models, their runs, and theorems for every safety property of the runs. What would
come next:

1. What the liveness of the runs rests on, as far as it is safety: that a step which would help
   is possible (a record without a handler has a TTL; a full `respCh` has a reader or a message too
   many), as invariants with proofs.
2. A second agent type in `AgentRegistry`, with `localAgents` keyed by ID alone.

## 7. Not modelled

* What a reply says: `internal/openai` copies fields from one format to the other, and the
  models follow messages, not their text. (One consequence is on the list of hazards: the
  SDK encodes a message as JSON, and a client that asked for a single body gets the quotes.)
* DecrActiveSessions (only a test calls it) and the tenant store (no package imports it).
* The API key middleware, a chain of early returns over one header, and the models handler, a constant.
* Configuration, logging and the HTTP server, which are wiring; the generated protocol
  code; the example agents and the deployment files.
* Two agent types at one gateway, where `localAgents`, whose keys are IDs alone, would mix them up.
* The length of delays (back-off, timeouts), and a `Send` of the SDK that waits for flow
  control while it holds `mu`.
