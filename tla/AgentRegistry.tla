---------------------------- MODULE AgentRegistry ----------------------------
(***************************************************************************)
(* The agent registry: internal/agent/pool.go (what the gateways keep in   *)
(* Redis about the agents), the life of an agent connection in             *)
(* internal/agent/grpc_server.go (Connect and the heartbeats of recvLoop)  *)
(* and the routing of requests over it (internal/router/router.go, and the *)
(* call of IncrActiveSessions in internal/handler/chat.go).                *)
(*                                                                         *)
(* Redis runs one command, or one MULTI, at a time: each is an action, and *)
(* everything else may happen between two commands of an operation.  All   *)
(* the agents have one type: the keys of two types are disjoint.           *)
(***************************************************************************)
EXTENDS Integers, FiniteSets

CONSTANTS
    Agents,       \* agent IDs
    Gateways,     \* gateway instances
    Conns,        \* connections an agent may open; a closed one may be opened again
    AgentOf,      \* the agent that opens a connection
    GatewayOf,    \* the gateway that it is opened to
    Callers,      \* chat requests without a session: each routes, then counts itself
    Sweepers,     \* gateways for which UnregisterByGateway may run
    OneAtATime,   \* an agent dials only when no handler of its connections is left
    ExpiryRaces,  \* a record may expire between two commands of one heartbeat
    MaxCount,     \* bound on active_sessions
    MaxFaults,    \* bound on crashes and Redis errors
    NoAgent, NoGateway, NoConn

ASSUME ConnsAssumption ==
    /\ AgentOf \in [Conns -> Agents]
    /\ GatewayOf \in [Conns -> Gateways]
    /\ Sweepers \subseteq Gateways

ASSUME NullAssumption ==
    /\ NoAgent \notin Agents
    /\ NoGateway \notin Gateways
    /\ NoConn \notin Conns

ASSUME BoundAssumption ==
    /\ MaxCount \in Nat
    /\ MaxFaults \in Nat
    /\ OneAtATime \in BOOLEAN
    /\ ExpiryRaces \in BOOLEAN

VARIABLES
    rec,       \* hash agent:<type>:<id>
    byType,    \* set agents_by_type:<type>
    gwAgents,  \* sets gateway_agents:<gateway>
    ahead,     \* agents whose record was renewed later than the set of its gateway
    local,     \* localAgents of each gateway process
    pc,        \* where the Connect handler of each connection stands
    seen,      \* gateway_instance that its HGETALL returned
    rpc,       \* where each routing request stands
    todo,      \* agent IDs that ListByType has still to Get
    cur,       \* the ID whose Get found nothing, about to be removed
    best,      \* the best agent so far
    load,      \* active_sessions of best, as read
    steady,    \* history: agents listed, with the same registration, since SMEMBERS,
               \* as long as no command of the request has failed
    sweeping,  \* gateways whose UnregisterByGateway is under way
    swept,     \* the members it has still to remove
    faults     \* crashes and Redis errors so far

keys  == <<rec, byType, gwAgents, ahead>>
redis == <<keys, steady>>
conns == <<local, pc, seen>>
calls == <<rpc, todo, cur, best, load>>
sweep == <<sweeping, swept>>
vars  == <<redis, conns, calls, sweep, faults>>

-----------------------------------------------------------------------------
(* A hash is a set of fields.  Register writes them all at once; a         *)
(* heartbeat and HINCRBY write one field each and create the key if it is  *)
(* gone.  gw stands for the fields that only Register writes.              *)

NoCount == -1

Record == [gw : Gateways \cup {NoGateway}, hb : BOOLEAN,
           cnt : NoCount..MaxCount, ttl : BOOLEAN]

Absent == [gw |-> NoGateway, hb |-> FALSE, cnt |-> NoCount, ttl |-> FALSE]

Present(x) == x.gw # NoGateway \/ x.hb \/ x.cnt # NoCount

\* parseAgentInfo finds every field it parses, and the status is online.
Whole(x) == x.gw # NoGateway /\ x.hb /\ x.cnt # NoCount

\* Mutant of Fresh: Register without its EXPIRE.
FreshForEver(g) == [gw |-> g, hb |-> TRUE, cnt |-> 0, ttl |-> FALSE]

Fresh(g) == [gw |-> g, hb |-> TRUE, cnt |-> 0, ttl |-> TRUE]

Listed == {a \in byType : Whole(rec[a])}

\* One command (or MULTI) of Redis, with what it does to the history.
Store(r, t, s) ==
    /\ rec' = r
    /\ byType' = t
    /\ gwAgents' = s
    /\ steady' = [q \in Callers |-> {a \in steady[q] :
                     a \in t /\ Whole(r[a]) /\ r[a].cnt >= rec[a].cnt}]

\* EXPIRE of the set of gateway g: no record that names g is ahead of it any more.
Renewed(g) == {a \in ahead : rec[a].gw # g}

\* Mutant of WriteRecord: the SADD to gateway_agents is missing.
WriteRecordUnindexed(a, g) ==
    /\ Store([rec EXCEPT ![a] = Fresh(g)], byType \cup {a}, gwAgents)
    /\ ahead' = Renewed(g) \ {a}

\* The MULTI of Register and of ReRegister.
WriteRecord(a, g) ==
    /\ Store([rec EXCEPT ![a] = Fresh(g)],
             byType \cup {a},
             [gwAgents EXCEPT ![g] = @ \cup {a}])
    /\ ahead' = Renewed(g) \ {a}

\* DEL of the record and SREM from both sets; g is NoGateway when no
\* gateway_instance was read.
EraseRecord(a, g) ==
    /\ Store([rec EXCEPT ![a] = Absent],
             byType \ {a},
             [h \in Gateways |-> IF h = g THEN gwAgents[h] \ {a} ELSE gwAgents[h]])
    /\ ahead' = ahead \ {a}

-----------------------------------------------------------------------------
(* The Connect handler.                                                    *)

Goto(c, from, to) == pc[c] = from /\ pc' = [pc EXCEPT ![c] = to]

\* No handler of a connection of this agent is left, teardown included.
Unattended(a) == \A c \in Conns : AgentOf[c] = a => pc[c] = "closed"

\* Mutant of Connect: a key that exists counts as a successful registration.
ConnectLenient(c) ==
    /\ OneAtATime => Unattended(AgentOf[c])
    /\ IF Present(rec[AgentOf[c]]) THEN Goto(c, "closed", "accepted")
                                   ELSE Goto(c, "closed", "register")
    /\ UNCHANGED <<redis, local, seen, calls, sweep, faults>>

\* First message and EXISTS.  When the key exists Register answers
\* ErrAgentAlreadyExists and the handler returns with nothing changed.
Connect(c) ==
    /\ OneAtATime => Unattended(AgentOf[c])
    /\ ~Present(rec[AgentOf[c]])
    /\ Goto(c, "closed", "register")
    /\ UNCHANGED <<redis, local, seen, calls, sweep, faults>>

\* Mutant of RegisterWrite: recvLoop starts before the entry in localAgents.
RegisterWriteServing(c) ==
    /\ Goto(c, "register", "serving")
    /\ WriteRecord(AgentOf[c], GatewayOf[c])
    /\ UNCHANGED <<local, seen, calls, sweep, faults>>

RegisterWrite(c) ==
    /\ Goto(c, "register", "accepted")
    /\ WriteRecord(AgentOf[c], GatewayOf[c])
    /\ UNCHANGED <<local, seen, calls, sweep, faults>>

AddLocal(c) ==
    /\ Goto(c, "accepted", "serving")
    /\ local' = [local EXCEPT ![GatewayOf[c]][AgentOf[c]] = c]
    /\ UNCHANGED <<redis, seen, calls, sweep, faults>>

\* Mutant of HeartbeatRead: ErrAgentNotFound is logged like any other error.
HeartbeatReadOnly(c) ==
    LET x == rec[AgentOf[c]] IN
    /\ IF Present(x) THEN Goto(c, "serving", "heartbeat")
                     ELSE Goto(c, "serving", "serving")
    /\ seen' = [seen EXCEPT ![c] = x.gw]
    /\ UNCHANGED <<redis, local, calls, sweep, faults>>

\* Mutant of HeartbeatRead: UpdateHeartbeat does not look whether the hash is there.
HeartbeatReadBlind(c) ==
    /\ Goto(c, "serving", "heartbeat")
    /\ seen' = [seen EXCEPT ![c] = rec[AgentOf[c]].gw]
    /\ UNCHANGED <<redis, local, calls, sweep, faults>>

\* A heartbeat arrives and UpdateHeartbeat reads the hash.
HeartbeatRead(c) ==
    LET x == rec[AgentOf[c]] IN
    /\ IF Present(x) THEN Goto(c, "serving", "heartbeat")
                     ELSE Goto(c, "serving", "reregister")
    /\ seen' = [seen EXCEPT ![c] = x.gw]
    /\ UNCHANGED <<redis, local, calls, sweep, faults>>

\* HSET last_heartbeat and EXPIRE, whatever became of the key, and EXPIRE of the set of
\* the gateway that was read, whatever gateway the record names by now.
HeartbeatWrite(c) ==
    LET a == AgentOf[c] IN
    /\ Goto(c, "heartbeat", "serving")
    /\ seen' = [seen EXCEPT ![c] = NoGateway]
    /\ Store([rec EXCEPT ![a].hb = TRUE, ![a].ttl = TRUE], byType, gwAgents)
    /\ ahead' = Renewed(seen[c]) \cup
                   (IF rec[a].gw \in {seen[c], NoGateway} THEN {} ELSE {a})
    /\ UNCHANGED <<local, calls, sweep, faults>>

ReRegister(c) ==
    /\ Goto(c, "reregister", "serving")
    /\ WriteRecord(AgentOf[c], GatewayOf[c])
    /\ UNCHANGED <<local, seen, calls, sweep, faults>>

\* recvLoop returns: the agent closed the stream, or Recv failed.
Disconnect(c) ==
    /\ Goto(c, "serving", "disconnected")
    /\ UNCHANGED <<redis, local, seen, calls, sweep, faults>>

\* Mutant of DeleteLocal: the entry stays.
DeleteNothing(c) ==
    /\ Goto(c, "disconnected", "unregister")
    /\ UNCHANGED <<redis, local, seen, calls, sweep, faults>>

DeleteLocal(c) ==
    /\ Goto(c, "disconnected", "unregister")
    /\ local' = [local EXCEPT ![GatewayOf[c]][AgentOf[c]] = NoConn]
    /\ UNCHANGED <<redis, seen, calls, sweep, faults>>

\* Mutant of UnregisterRead: another field of the hash is taken for the gateway.
UnregisterReadWrongField(c) ==
    /\ Goto(c, "unregister", "erase")
    /\ seen' = [seen EXCEPT ![c] = AgentOf[c]]
    /\ UNCHANGED <<redis, local, calls, sweep, faults>>

UnregisterRead(c) ==
    /\ Goto(c, "unregister", "erase")
    /\ seen' = [seen EXCEPT ![c] = rec[AgentOf[c]].gw]
    /\ UNCHANGED <<redis, local, calls, sweep, faults>>

UnregisterWrite(c) ==
    /\ Goto(c, "erase", "closed")
    /\ seen' = [seen EXCEPT ![c] = NoGateway]
    /\ EraseRecord(AgentOf[c], seen[c])
    /\ UNCHANGED <<local, calls, sweep, faults>>

Fault == faults < MaxFaults /\ faults' = faults + 1

\* Register fails, and the handler with it.  Redis may have run the MULTI all the same:
\* the answer alone is lost.
RegisterError(c) ==
    /\ Fault
    /\ Goto(c, "register", "closed")
    /\ WriteRecord(AgentOf[c], GatewayOf[c]) \/ UNCHANGED redis
    /\ UNCHANGED <<local, seen, calls, sweep>>

\* The write of UpdateHeartbeat fails, which is logged, or ReRegister fails (its MULTI
\* may have run), which ends recvLoop.
HeartbeatError(c) ==
    /\ Fault
    /\ \/ Goto(c, "heartbeat", "serving") /\ UNCHANGED redis
       \/ /\ Goto(c, "reregister", "disconnected")
          /\ WriteRecord(AgentOf[c], GatewayOf[c]) \/ UNCHANGED redis
    /\ seen' = [seen EXCEPT ![c] = NoGateway]
    /\ UNCHANGED <<local, calls, sweep>>

\* A command of Unregister fails, which is logged: the record stays.
UnregisterError(c) ==
    /\ Fault
    /\ Goto(c, "unregister", "closed") \/ Goto(c, "erase", "closed")
    /\ seen' = [seen EXCEPT ![c] = NoGateway]
    /\ UNCHANGED <<redis, local, calls, sweep>>

RedisError(c) == RegisterError(c) \/ HeartbeatError(c) \/ UnregisterError(c)

\* A gateway process dies, its handlers with it, and starts again under its name.
Crash(g) ==
    /\ Fault
    /\ pc' = [c \in Conns |-> IF GatewayOf[c] = g THEN "closed" ELSE pc[c]]
    /\ seen' = [c \in Conns |-> IF GatewayOf[c] = g THEN NoGateway ELSE seen[c]]
    /\ local' = [local EXCEPT ![g] = [a \in Agents |-> NoConn]]
    /\ UNCHANGED <<redis, calls, sweep>>

-----------------------------------------------------------------------------
(* Redis drops a key whose TTL has run out.                                *)

InHeartbeat(a) == \E c \in Conns : AgentOf[c] = a /\ pc[c] = "heartbeat"

Expire(a) ==
    /\ rec[a].ttl
    /\ ExpiryRaces \/ ~InHeartbeat(a)
    /\ Store([rec EXCEPT ![a] = Absent], byType, gwAgents)
    /\ ahead' = ahead \ {a}
    /\ UNCHANGED <<conns, calls, sweep, faults>>

\* All TTLs are equal: gateway_agents:<g> outlives the records that name g, but for those
\* that were renewed since it was.
ExpireGatewaySet(g) ==
    /\ gwAgents[g] # {}
    /\ \A a \in Agents : rec[a].gw = g => a \in ahead
    /\ Store(rec, byType, [gwAgents EXCEPT ![g] = {}])
    /\ UNCHANGED <<ahead, conns, calls, sweep, faults>>

-----------------------------------------------------------------------------
(* Router.Route: ListByType's SMEMBERS, one HGETALL for each member, SREM  *)
(* of the members whose hash is gone; the least loaded agent wins.         *)

GotoR(r, from, to) == rpc[r] = from /\ rpc' = [rpc EXCEPT ![r] = to]

RouteMembers(r) ==
    /\ GotoR(r, "idle", "listing")
    /\ todo' = [todo EXCEPT ![r] = byType]
    /\ steady' = [steady EXCEPT ![r] = Listed]
    /\ UNCHANGED <<keys, conns, cur, best, load, sweep, faults>>

\* Mutant of Better: the most loaded agent wins.
BetterReversed(r, a) == best[r] = NoAgent \/ rec[a].cnt > load[r]

\* Agent a is better than the best agent so far.
Better(r, a) == best[r] = NoAgent \/ rec[a].cnt < load[r]

\* Get of one agent: not found, found, or a hash that does not parse, which ends
\* the listing with an error.
RouteGet(r) == \E a \in todo[r] :
    /\ todo' = [todo EXCEPT ![r] = @ \ {a}]
    /\ \/ /\ ~Present(rec[a])
          /\ GotoR(r, "listing", "remove")
          /\ cur' = [cur EXCEPT ![r] = a]
          /\ UNCHANGED <<best, load>>
       \/ /\ Whole(rec[a])
          /\ GotoR(r, "listing", "listing")
          /\ IF Better(r, a)
               THEN /\ best' = [best EXCEPT ![r] = a]
                    /\ load' = [load EXCEPT ![r] = rec[a].cnt]
               ELSE UNCHANGED <<best, load>>
          /\ UNCHANGED cur
       \/ /\ Present(rec[a]) /\ ~Whole(rec[a])
          /\ GotoR(r, "listing", "failed")
          /\ UNCHANGED <<cur, best, load>>
    /\ UNCHANGED <<redis, conns, sweep, faults>>

RouteRemove(r) ==
    /\ GotoR(r, "remove", "listing")
    /\ cur' = [cur EXCEPT ![r] = NoAgent]
    /\ Store(rec, byType \ {cur[r]}, gwAgents)
    /\ UNCHANGED <<ahead, conns, todo, best, load, sweep, faults>>

RouteReturn(r) ==
    /\ IF best[r] = NoAgent THEN GotoR(r, "listing", "unavailable")
                            ELSE GotoR(r, "listing", "routed")
    /\ todo[r] = {}
    /\ UNCHANGED <<redis, conns, todo, cur, best, load, sweep, faults>>

\* A command of Route fails.  SMEMBERS ends the call; Get looks at the empty answer
\* before it looks at the error, and reports ErrAgentNotFound; SREM is not checked.
RouteError(r) ==
    /\ Fault
    /\ \/ GotoR(r, "idle", "failed") /\ UNCHANGED <<todo, cur>>
       \/ \E a \in todo[r] :
             /\ GotoR(r, "listing", "remove")
             /\ todo' = [todo EXCEPT ![r] = @ \ {a}]
             /\ cur' = [cur EXCEPT ![r] = a]
       \/ /\ GotoR(r, "remove", "listing")
          /\ cur' = [cur EXCEPT ![r] = NoAgent]
          /\ UNCHANGED todo
    /\ steady' = [steady EXCEPT ![r] = {}]
    /\ UNCHANGED <<keys, conns, best, load, sweep>>

\* IncrActiveSessions: EXISTS, then HINCRBY whatever became of the key.
IncrRead(r) ==
    /\ GotoR(r, "routed", "increment")
    /\ Present(rec[best[r]])
    /\ load' = [load EXCEPT ![r] = NoCount]
    /\ steady' = [steady EXCEPT ![r] = {}]
    /\ UNCHANGED <<keys, conns, todo, cur, best, sweep, faults>>

IncrWrite(r) ==
    LET a == best[r]
        n == IF rec[a].cnt = NoCount THEN 1 ELSE rec[a].cnt + 1
    IN
    /\ GotoR(r, "increment", "counted")
    /\ n <= MaxCount
    /\ Store([rec EXCEPT ![a].cnt = n], byType, gwAgents)
    /\ UNCHANGED <<ahead, conns, todo, cur, best, load, sweep, faults>>

\* HINCRBY fails, which is logged.
IncrError(r) ==
    /\ Fault
    /\ GotoR(r, "increment", "counted")
    /\ UNCHANGED <<redis, conns, todo, cur, best, load, sweep>>

\* The caller is done with the answer, whatever it was; its slot is free again.
\* Nothing on this path calls DecrActiveSessions.
CallEnds(r) ==
    /\ rpc[r] \in {"failed", "unavailable", "routed", "counted"}
    /\ rpc' = [rpc EXCEPT ![r] = "idle"]
    /\ todo' = [todo EXCEPT ![r] = {}]
    /\ best' = [best EXCEPT ![r] = NoAgent]
    /\ load' = [load EXCEPT ![r] = NoCount]
    /\ steady' = [steady EXCEPT ![r] = {}]
    /\ UNCHANGED <<keys, conns, cur, sweep, faults>>

-----------------------------------------------------------------------------
(* UnregisterByGateway: SMEMBERS, one MULTI for each member, DEL of the set. *)

SweepMembers(g) ==
    /\ g \in Sweepers \ sweeping
    /\ sweeping' = sweeping \cup {g}
    /\ swept' = [swept EXCEPT ![g] = gwAgents[g]]
    /\ UNCHANGED <<redis, conns, calls, faults>>

SweepMember(g) == \E a \in swept[g] :
    /\ swept' = [swept EXCEPT ![g] = @ \ {a}]
    /\ EraseRecord(a, g)
    /\ UNCHANGED <<conns, calls, sweeping, faults>>

SweepDone(g) ==
    /\ g \in sweeping /\ swept[g] = {}
    /\ sweeping' = sweeping \ {g}
    /\ Store(rec, byType, [gwAgents EXCEPT ![g] = {}])
    /\ UNCHANGED <<ahead, conns, calls, swept, faults>>

\* A MULTI or the DEL fails: the sweep goes on without it.
SweepError(g) ==
    /\ Fault
    /\ \/ \E a \in swept[g] : swept' = [swept EXCEPT ![g] = @ \ {a}] /\ UNCHANGED sweeping
       \/ /\ g \in sweeping /\ swept[g] = {}
          /\ sweeping' = sweeping \ {g}
          /\ UNCHANGED swept
    /\ UNCHANGED <<redis, conns, calls>>

-----------------------------------------------------------------------------
Init ==
    /\ rec = [a \in Agents |-> Absent]
    /\ byType = {}
    /\ gwAgents = [g \in Gateways |-> {}]
    /\ ahead = {}
    /\ local = [g \in Gateways |-> [a \in Agents |-> NoConn]]
    /\ pc = [c \in Conns |-> "closed"]
    /\ seen = [c \in Conns |-> NoGateway]
    /\ rpc = [r \in Callers |-> "idle"]
    /\ todo = [r \in Callers |-> {}]
    /\ cur = [r \in Callers |-> NoAgent]
    /\ best = [r \in Callers |-> NoAgent]
    /\ load = [r \in Callers |-> NoCount]
    /\ steady = [r \in Callers |-> {}]
    /\ sweeping = {}
    /\ swept = [g \in Gateways |-> {}]
    /\ faults = 0

HandlerStep(c) ==
    \/ RegisterWrite(c) \/ AddLocal(c)
    \/ HeartbeatRead(c) \/ HeartbeatWrite(c) \/ ReRegister(c)
    \/ DeleteLocal(c) \/ UnregisterRead(c) \/ UnregisterWrite(c)

CallStep(r) ==
    \/ RouteMembers(r) \/ RouteGet(r) \/ RouteRemove(r) \/ RouteReturn(r)
    \/ IncrRead(r) \/ IncrWrite(r) \/ CallEnds(r)

SweepStep(g) == SweepMembers(g) \/ SweepMember(g) \/ SweepDone(g) \/ SweepError(g)

Next ==
    \/ \E c \in Conns : Connect(c) \/ HandlerStep(c) \/ Disconnect(c) \/ RedisError(c)
    \/ \E r \in Callers : CallStep(r) \/ RouteError(r) \/ IncrError(r)
    \/ \E a \in Agents : Expire(a)
    \/ \E g \in Gateways : ExpireGatewaySet(g) \/ SweepStep(g) \/ Crash(g)

Spec == Init /\ [][Next]_vars

(* An agent sends heartbeats as long as it is connected and dials again when
   it is not (pkg/agentsdk/sdk.go), a handler runs to its end, and Redis
   drops a key that nobody refreshes any more. *)
Fairness ==
    /\ \A c \in Conns : WF_vars(HandlerStep(c))
    /\ \A a \in Agents : WF_vars(\E c \in Conns : AgentOf[c] = a /\ Connect(c))
    /\ \A a \in Agents : WF_vars(Unattended(a) /\ Expire(a))

FairSpec == Spec /\ Fairness

-----------------------------------------------------------------------------
(* Properties that hold whatever the agents, the gateways and Redis do.     *)

ConnState == {"closed", "register", "accepted", "serving", "heartbeat",
              "reregister", "disconnected", "unregister", "erase"}

CallState == {"idle", "listing", "remove", "failed", "unavailable", "routed",
              "increment", "counted"}

RedisTypeOK ==
    /\ rec \in [Agents -> Record]
    /\ byType \subseteq Agents
    /\ gwAgents \in [Gateways -> SUBSET Agents]
    /\ ahead \subseteq Agents
    /\ steady \in [Callers -> SUBSET Agents]

ConnsTypeOK ==
    /\ local \in [Gateways -> [Agents -> Conns \cup {NoConn}]]
    /\ pc \in [Conns -> ConnState]
    /\ seen \in [Conns -> Gateways \cup {NoGateway}]

CallsTypeOK ==
    /\ rpc \in [Callers -> CallState]
    /\ todo \in [Callers -> SUBSET Agents]
    /\ cur \in [Callers -> Agents \cup {NoAgent}]
    /\ best \in [Callers -> Agents \cup {NoAgent}]
    /\ load \in [Callers -> NoCount..MaxCount]

SweepTypeOK ==
    /\ sweeping \subseteq Gateways
    /\ swept \in [Gateways -> SUBSET Agents]

\* The types of the variables.
TypeOK ==
    /\ RedisTypeOK /\ ConnsTypeOK /\ CallsTypeOK /\ SweepTypeOK
    /\ faults \in 0..MaxFaults

\* A record that names a gateway is whole and carries a TTL, so that no agent
\* stays routable for longer than its lease (the EXPIRE in every MULTI of pool.go);
\* what can stay behind for ever is at most a lone active_sessions counter.
RoutableIsLeased == \A a \in Agents :
    /\ rec[a].gw # NoGateway => Whole(rec[a]) /\ rec[a].ttl
    /\ rec[a].hb => rec[a].ttl

\* An entry of localAgents is a connection of that agent to that gateway whose
\* handler has not got past the delete in Connect, even when connections of one agent
\* overlap: what HasLocalAgent and SendRequest find was, at that moment, not torn down.
LocalEntriesAreLive == \A g \in Gateways, a \in Agents :
    LET c == local[g][a] IN
    c # NoConn =>
        /\ AgentOf[c] = a /\ GatewayOf[c] = g
        /\ pc[c] \in {"serving", "heartbeat", "reregister", "disconnected"}

\* What Route answers is right for every agent that kept its registration during
\* the whole call, although each hash is read at another moment: Route does not say
\* that no agent is available while there is one, and does not prefer an agent with
\* more recorded sessions than such an agent has.  Nothing is claimed of a request one of
\* whose commands failed: an error is taken for the absence of the agent.
RouteIsHonest == \A r \in Callers :
    /\ rpc[r] = "unavailable" => steady[r] = {}
    /\ rpc[r] = "routed" => \A a \in steady[r] : load[r] <= rec[a].cnt

-----------------------------------------------------------------------------
(* Properties of a quiet system: one connection of an agent at a time, no   *)
(* record expiring in the middle of a heartbeat, no routing.                *)

InService(c) == pc[c] \in {"serving", "heartbeat", "reregister"}

\* A connection being served is the one that SendRequest finds.
ServingIsLocal == \A c \in Conns :
    InService(c) => local[GatewayOf[c]][AgentOf[c]] = c

\* The record of an agent that is being served names the gateway that serves it,
\* so that a request is forwarded to where the connection is.
RecordNamesServer == \A c \in Conns :
    InService(c) /\ Whole(rec[AgentOf[c]]) => rec[AgentOf[c]].gw = GatewayOf[c]

\* Every registered agent is listed under its type and under its gateway.
IndexComplete == \A a \in Agents :
    Whole(rec[a]) => a \in byType /\ a \in gwAgents[rec[a].gw]

\* Every record can be parsed, so that no record of one agent makes ListByType fail for
\* all agents of its type: heartbeats renew records and never make one up.
EveryRecordParses == \A a \in Agents : Present(rec[a]) => Whole(rec[a])

Routable(c) ==
    LET a == AgentOf[c] IN
    /\ Whole(rec[a]) /\ rec[a].gw = GatewayOf[c] /\ a \in byType
    /\ local[GatewayOf[c]][a] = c

\* An agent that is being served can be routed to, or will be: when its record
\* has expired a heartbeat registers it again (recvLoop).
ServedAgentRecovers == \A c \in Conns :
    InService(c) ~> (Routable(c) \/ ~InService(c))

\* An agent without a handler is served again: its old record goes away by Unregister
\* or by TTL, whatever crashed, and Register accepts it.
AgentReturns == \A a \in Agents :
    Unattended(a) ~> (\E c \in Conns : AgentOf[c] = a /\ InService(c))

\* A record left by a gateway that died or could not unregister goes away.
OrphanVanishes == \A a \in Agents, g \in Gateways :
    (rec[a].gw = g /\ \A c \in Conns : AgentOf[c] = a /\ GatewayOf[c] = g => pc[c] = "closed")
        ~> (rec[a].gw # g \/ \E c \in Conns : AgentOf[c] = a /\ GatewayOf[c] = g /\ InService(c))
=============================================================================
