------------------------- MODULE AgentRegistryProofs -------------------------
(***************************************************************************)
(* Theorems about AgentRegistry, for all agents, gateways, connections and *)
(* routing requests, and whatever expires, fails or crashes.               *)
(***************************************************************************)
EXTENDS AgentRegistry, TLAPS

USE ConnsAssumption, NullAssumption, BoundAssumption

-----------------------------------------------------------------------------
(* What the commands of Redis keep.                                        *)

LEMMA AbsentType == Absent \in Record
  BY DEF Absent, Record, NoCount

LEMMA FreshType == \A g \in Gateways : Fresh(g) \in Record
  BY DEF Fresh, Record, NoCount

LEMMA RefreshType == \A x \in Record : [x EXCEPT !.hb = TRUE, !.ttl = TRUE] \in Record
  BY DEF Record

LEMMA StoreType ==
  ASSUME RedisTypeOK, NEW r, NEW t, NEW s,
         r \in [Agents -> Record], t \subseteq Agents,
         s \in [Gateways -> SUBSET Agents], Store(r, t, s), ahead' \subseteq Agents
  PROVE  RedisTypeOK'
  BY DEF RedisTypeOK, Store

LEMMA WriteRecordType ==
  ASSUME RedisTypeOK, NEW a \in Agents, NEW g \in Gateways, WriteRecord(a, g)
  PROVE  RedisTypeOK'
  <1>1. [rec EXCEPT ![a] = Fresh(g)] \in [Agents -> Record]
    BY FreshType DEF RedisTypeOK
  <1>2. byType \cup {a} \subseteq Agents
    BY DEF RedisTypeOK
  <1>3. [gwAgents EXCEPT ![g] = @ \cup {a}] \in [Gateways -> SUBSET Agents]
    BY DEF RedisTypeOK
  <1>4. ahead' \subseteq Agents
    BY DEF RedisTypeOK, WriteRecord, Renewed
  <1> QED BY <1>1, <1>2, <1>3, <1>4, StoreType DEF WriteRecord

LEMMA EraseRecordType ==
  ASSUME RedisTypeOK, NEW a \in Agents, NEW g, EraseRecord(a, g)
  PROVE  RedisTypeOK'
  <1>1. [rec EXCEPT ![a] = Absent] \in [Agents -> Record]
    BY AbsentType DEF RedisTypeOK
  <1>2. byType \ {a} \subseteq Agents
    BY DEF RedisTypeOK
  <1>3. [h \in Gateways |-> IF h = g THEN gwAgents[h] \ {a} ELSE gwAgents[h]]
           \in [Gateways -> SUBSET Agents]
    BY DEF RedisTypeOK
  <1>4. ahead' \subseteq Agents
    BY DEF RedisTypeOK, EraseRecord
  <1> QED BY <1>1, <1>2, <1>3, <1>4, StoreType DEF EraseRecord

-----------------------------------------------------------------------------
(* Type correctness, one lemma for each part of the system.                *)

LEMMA ConnType ==
  ASSUME TypeOK, NEW c \in Conns,
         Connect(c) \/ HandlerStep(c) \/ Disconnect(c) \/ RedisError(c)
  PROVE  TypeOK'
  <1> DEFINE a == AgentOf[c]
             g == GatewayOf[c]
  <1>0. a \in Agents /\ g \in Gateways
    OBVIOUS
  <1>1. CASE Connect(c)
    BY <1>1 DEF Connect, Goto, TypeOK, RedisTypeOK, ConnsTypeOK, CallsTypeOK,
                SweepTypeOK, ConnState, redis, keys, calls, sweep
  <1>2. CASE RegisterWrite(c)
    <2>1. RedisTypeOK'
      BY <1>0, <1>2, WriteRecordType DEF RegisterWrite, TypeOK
    <2> QED BY <1>2, <2>1 DEF RegisterWrite, Goto, TypeOK, ConnsTypeOK, CallsTypeOK,
                              SweepTypeOK, ConnState, calls, sweep
  <1>3. CASE AddLocal(c)
    BY <1>3 DEF AddLocal, Goto, TypeOK, RedisTypeOK, ConnsTypeOK, CallsTypeOK,
                SweepTypeOK, ConnState, redis, keys, calls, sweep
  <1>4. CASE HeartbeatRead(c)
    <2>1. rec[a].gw \in Gateways \cup {NoGateway}
      BY <1>0 DEF TypeOK, RedisTypeOK, Record
    <2> QED BY <1>4, <2>1 DEF HeartbeatRead, Goto, TypeOK, RedisTypeOK, ConnsTypeOK,
                CallsTypeOK, SweepTypeOK, ConnState, redis, keys, calls, sweep
  <1>5. CASE HeartbeatWrite(c)
    <2>1. [rec EXCEPT ![a].hb = TRUE, ![a].ttl = TRUE] \in [Agents -> Record]
      <3>1. rec \in [Agents -> Record] /\ rec[a] \in Record
        BY <1>0 DEF TypeOK, RedisTypeOK
      <3>2. [rec[a] EXCEPT !.hb = TRUE, !.ttl = TRUE] \in Record
        BY <3>1, RefreshType
      <3> HIDE DEF a
      <3> QED BY <1>0, <3>1, <3>2
    <2>2. ahead' \subseteq Agents
      BY <1>0, <1>5 DEF HeartbeatWrite, Renewed, TypeOK, RedisTypeOK
    <2>3. RedisTypeOK'
      BY <1>5, <2>1, <2>2, StoreType DEF HeartbeatWrite, TypeOK, RedisTypeOK
    <2> QED BY <1>5, <2>3 DEF HeartbeatWrite, Goto, TypeOK, ConnsTypeOK, CallsTypeOK,
                              SweepTypeOK, ConnState, calls, sweep
  <1>6. CASE ReRegister(c)
    <2>1. RedisTypeOK'
      BY <1>0, <1>6, WriteRecordType DEF ReRegister, TypeOK
    <2> QED BY <1>6, <2>1 DEF ReRegister, Goto, TypeOK, ConnsTypeOK, CallsTypeOK,
                              SweepTypeOK, ConnState, calls, sweep
  <1>7. CASE Disconnect(c)
    BY <1>7 DEF Disconnect, Goto, TypeOK, RedisTypeOK, ConnsTypeOK, CallsTypeOK,
                SweepTypeOK, ConnState, redis, keys, calls, sweep
  <1>8. CASE DeleteLocal(c)
    BY <1>8 DEF DeleteLocal, Goto, TypeOK, RedisTypeOK, ConnsTypeOK, CallsTypeOK,
                SweepTypeOK, ConnState, redis, keys, calls, sweep
  <1>9. CASE UnregisterRead(c)
    <2>1. rec[a].gw \in Gateways \cup {NoGateway}
      BY <1>0 DEF TypeOK, RedisTypeOK, Record
    <2> QED BY <1>9, <2>1 DEF UnregisterRead, Goto, TypeOK, RedisTypeOK, ConnsTypeOK,
                CallsTypeOK, SweepTypeOK, ConnState, redis, keys, calls, sweep
  <1>10. CASE UnregisterWrite(c)
    <2>1. RedisTypeOK'
      BY <1>0, <1>10, EraseRecordType DEF UnregisterWrite, TypeOK
    <2> QED BY <1>10, <2>1 DEF UnregisterWrite, Goto, TypeOK, ConnsTypeOK, CallsTypeOK,
                              SweepTypeOK, ConnState, calls, sweep
  <1>11. CASE RedisError(c)
    <2>1. RedisTypeOK'
      <3>1. CASE WriteRecord(a, g)
        BY <1>0, <3>1, WriteRecordType DEF TypeOK
      <3>2. CASE UNCHANGED redis
        BY <3>2 DEF TypeOK, RedisTypeOK, redis, keys
      <3> QED BY <1>11, <3>1, <3>2
              DEF RedisError, RegisterError, HeartbeatError, UnregisterError
    <2>2. faults' \in 0..MaxFaults
      BY <1>11 DEF RedisError, RegisterError, HeartbeatError, UnregisterError, Fault, TypeOK
    <2> QED BY <1>11, <2>1, <2>2
            DEF RedisError, RegisterError, HeartbeatError, UnregisterError, Goto, TypeOK,
                ConnsTypeOK, CallsTypeOK, SweepTypeOK, ConnState, calls, sweep
  <1> QED BY <1>1, <1>2, <1>3, <1>4, <1>5, <1>6, <1>7, <1>8, <1>9, <1>10, <1>11
          DEF HandlerStep

LEMMA CallType ==
  ASSUME TypeOK, NEW r \in Callers, CallStep(r) \/ RouteError(r) \/ IncrError(r)
  PROVE  TypeOK'
  <1>1. CASE RouteMembers(r)
    <2>1. RedisTypeOK'
      BY <1>1 DEF RouteMembers, TypeOK, RedisTypeOK, Listed, keys
    <2> QED BY <1>1, <2>1 DEF RouteMembers, GotoR, TypeOK, RedisTypeOK, ConnsTypeOK,
                CallsTypeOK, SweepTypeOK, CallState, conns, sweep
  <1>2. CASE RouteGet(r)
    <2>1. PICK a \in todo[r] : RouteGet(r)!(a)
      BY <1>2 DEF RouteGet
    <2>2. a \in Agents /\ rec[a].cnt \in NoCount..MaxCount
      BY <2>1 DEF TypeOK, RedisTypeOK, CallsTypeOK, Record
    <2>3. RedisTypeOK' /\ ConnsTypeOK' /\ SweepTypeOK' /\ faults' \in 0..MaxFaults
      BY <2>1 DEF TypeOK, RedisTypeOK, ConnsTypeOK, SweepTypeOK, redis, keys, conns, sweep
    <2>4. CallsTypeOK'
      BY <2>1, <2>2 DEF GotoR, TypeOK, CallsTypeOK, CallState
    <2> QED BY <2>3, <2>4 DEF TypeOK
  <1>3. CASE RouteRemove(r)
    <2>1. RedisTypeOK'
      BY <1>3, StoreType DEF RouteRemove, TypeOK, RedisTypeOK
    <2> QED BY <1>3, <2>1 DEF RouteRemove, GotoR, TypeOK, ConnsTypeOK, CallsTypeOK,
                              SweepTypeOK, CallState, conns, sweep
  <1>4. CASE RouteReturn(r)
    BY <1>4 DEF RouteReturn, GotoR, TypeOK, RedisTypeOK, ConnsTypeOK, CallsTypeOK,
                SweepTypeOK, CallState, redis, keys, conns, sweep
  <1>5. CASE IncrRead(r)
    BY <1>5 DEF IncrRead, GotoR, TypeOK, RedisTypeOK, ConnsTypeOK, CallsTypeOK,
                SweepTypeOK, CallState, NoCount, keys, conns, sweep
  <1>6. CASE IncrWrite(r)
    <2> DEFINE a == best[r]
               n == IF rec[a].cnt = NoCount THEN 1 ELSE rec[a].cnt + 1
    <2>1. [rec EXCEPT ![a].cnt = n] \in [Agents -> Record]
      <3>1. CASE a \in Agents
        <4>1. n \in NoCount..MaxCount
          BY <1>6, <3>1 DEF IncrWrite, TypeOK, RedisTypeOK, Record, NoCount
        <4> HIDE DEF n
        <4> QED BY <3>1, <4>1 DEF TypeOK, RedisTypeOK, Record
      <3>2. CASE a \notin Agents
        BY <3>2 DEF TypeOK, RedisTypeOK
      <3> QED BY <3>1, <3>2
    <2>2. RedisTypeOK'
      BY <1>6, <2>1, StoreType DEF IncrWrite, TypeOK, RedisTypeOK
    <2> QED BY <1>6, <2>2 DEF IncrWrite, GotoR, TypeOK, ConnsTypeOK, CallsTypeOK,
                              SweepTypeOK, CallState, conns, sweep
  <1>7. CASE CallEnds(r)
    BY <1>7 DEF CallEnds, TypeOK, RedisTypeOK, ConnsTypeOK, CallsTypeOK,
                SweepTypeOK, CallState, NoCount, keys, conns, sweep
  <1>8. CASE RouteError(r)
    <2>1. todo' \in [Callers -> SUBSET Agents]
      BY <1>8 DEF RouteError, TypeOK, CallsTypeOK
    <2>2. cur' \in [Callers -> Agents \cup {NoAgent}] /\ rpc' \in [Callers -> CallState]
      BY <1>8 DEF RouteError, GotoR, TypeOK, CallsTypeOK, CallState
    <2>3. RedisTypeOK' /\ faults' \in 0..MaxFaults
      BY <1>8 DEF RouteError, Fault, TypeOK, RedisTypeOK, keys
    <2> QED BY <1>8, <2>1, <2>2, <2>3 DEF RouteError, TypeOK, ConnsTypeOK, CallsTypeOK,
                SweepTypeOK, conns, sweep
  <1>9. CASE IncrError(r)
    <2>1. rpc' \in [Callers -> CallState] /\ faults' \in 0..MaxFaults
      BY <1>9 DEF IncrError, Fault, GotoR, TypeOK, CallsTypeOK, CallState
    <2> QED BY <1>9, <2>1 DEF IncrError, TypeOK, RedisTypeOK, ConnsTypeOK, CallsTypeOK,
                SweepTypeOK, redis, keys, conns, sweep
  <1> QED BY <1>1, <1>2, <1>3, <1>4, <1>5, <1>6, <1>7, <1>8, <1>9 DEF CallStep

LEMMA RedisAndGatewayType ==
  ASSUME TypeOK,
         \/ \E a \in Agents : Expire(a)
         \/ \E g \in Gateways : ExpireGatewaySet(g) \/ SweepStep(g) \/ Crash(g)
  PROVE  TypeOK'
  <1>1. ASSUME NEW a \in Agents, Expire(a) PROVE TypeOK'
    <2>1. [rec EXCEPT ![a] = Absent] \in [Agents -> Record]
      BY AbsentType DEF TypeOK, RedisTypeOK
    <2>2. RedisTypeOK'
      BY <1>1, <2>1, StoreType DEF Expire, TypeOK, RedisTypeOK
    <2> QED BY <1>1, <2>2 DEF Expire, TypeOK, ConnsTypeOK, CallsTypeOK, SweepTypeOK,
                              conns, calls, sweep
  <1>2. ASSUME NEW g \in Gateways, ExpireGatewaySet(g) PROVE TypeOK'
    <2>1. RedisTypeOK'
      BY <1>2, StoreType DEF ExpireGatewaySet, TypeOK, RedisTypeOK
    <2> QED BY <1>2, <2>1 DEF ExpireGatewaySet, TypeOK, ConnsTypeOK, CallsTypeOK,
                              SweepTypeOK, conns, calls, sweep
  <1>3. ASSUME NEW g \in Gateways, SweepStep(g) PROVE TypeOK'
    <2>1. CASE SweepMembers(g)
      BY <2>1 DEF SweepMembers, TypeOK, RedisTypeOK, ConnsTypeOK, CallsTypeOK,
                  SweepTypeOK, redis, keys, conns, calls
    <2>2. CASE SweepMember(g)
      <3>1. PICK a \in swept[g] : SweepMember(g)!(a)
        BY <2>2 DEF SweepMember
      <3>2. RedisTypeOK'
        BY <3>1, EraseRecordType DEF TypeOK, SweepTypeOK
      <3> QED BY <3>1, <3>2 DEF TypeOK, ConnsTypeOK, CallsTypeOK, SweepTypeOK, conns, calls
    <2>3. CASE SweepDone(g)
      <3>1. RedisTypeOK'
        BY <2>3, StoreType DEF SweepDone, TypeOK, RedisTypeOK
      <3> QED BY <2>3, <3>1 DEF SweepDone, TypeOK, ConnsTypeOK, CallsTypeOK, SweepTypeOK,
                                conns, calls
    <2>4. CASE SweepError(g)
      BY <2>4 DEF SweepError, Fault, TypeOK, RedisTypeOK, ConnsTypeOK, CallsTypeOK,
                  SweepTypeOK, redis, keys, conns, calls
    <2> QED BY <1>3, <2>1, <2>2, <2>3, <2>4 DEF SweepStep
  <1>4. ASSUME NEW g \in Gateways, Crash(g) PROVE TypeOK'
    BY <1>4 DEF Crash, Fault, TypeOK, RedisTypeOK, ConnsTypeOK, CallsTypeOK, SweepTypeOK,
                ConnState, redis, keys, calls, sweep
  <1> QED BY <1>1, <1>2, <1>3, <1>4

\* TypeOK is an invariant: what pool.go, Connect, recvLoop and Route store is always
\* of the expected kind, partial records included.
THEOREM TypeCorrect == Spec => []TypeOK
  <1>1. Init => TypeOK
    <2> SUFFICES ASSUME Init PROVE TypeOK
      OBVIOUS
    <2>1. RedisTypeOK
      BY AbsentType DEF Init, RedisTypeOK
    <2> QED BY <2>1 DEF Init, TypeOK, ConnsTypeOK, CallsTypeOK, SweepTypeOK, ConnState,
                        CallState, NoCount
  <1>2. TypeOK /\ [Next]_vars => TypeOK'
    <2> SUFFICES ASSUME TypeOK, [Next]_vars PROVE TypeOK'
      OBVIOUS
    <2>1. CASE UNCHANGED vars
      BY <2>1 DEF vars, redis, keys, conns, calls, sweep, TypeOK, RedisTypeOK, ConnsTypeOK,
                  CallsTypeOK, SweepTypeOK
    <2> QED BY <2>1, ConnType, CallType, RedisAndGatewayType DEF Next
  <1> QED BY <1>1, <1>2, PTL DEF Spec

-----------------------------------------------------------------------------
(* Leases.                                                                 *)

\* What one step can make of the record of an agent, and who does it.
Rewritten(a) ==
    \/ rec'[a] = rec[a]
    \/ \E c \in Conns : /\ AgentOf[c] = a /\ pc[c] \in {"register", "reregister"}
                        /\ rec'[a] = Fresh(GatewayOf[c])
    \/ \E c \in Conns : /\ AgentOf[c] = a /\ pc[c] = "heartbeat"
                        /\ rec'[a] = [rec[a] EXCEPT !.hb = TRUE, !.ttl = TRUE]
    \/ \E c \in Conns : AgentOf[c] = a /\ pc[c] = "erase" /\ rec'[a] = Absent
    \/ \E r \in Callers, n \in 0..MaxCount : /\ best[r] = a /\ rpc[r] = "increment"
                                             /\ rec'[a] = [rec[a] EXCEPT !.cnt = n]
    \/ \E g \in Gateways : a \in swept[g] /\ rec'[a] = Absent
    \/ Expire(a) /\ rec'[a] = Absent

LEMMA RecordStep ==
  ASSUME TypeOK, [Next]_vars, NEW a \in Agents
  PROVE  Rewritten(a)
  <1> USE DEF Rewritten
  <1>1. ASSUME NEW c \in Conns, HandlerStep(c) PROVE Rewritten(a)
    <2>1. CASE RegisterWrite(c) \/ ReRegister(c)
      BY <2>1 DEF RegisterWrite, ReRegister, Goto, WriteRecord, Store, TypeOK, RedisTypeOK
    <2>2. CASE HeartbeatWrite(c)
      BY <2>2 DEF HeartbeatWrite, Goto, Store, TypeOK, RedisTypeOK, Record
    <2>3. CASE UnregisterWrite(c)
      BY <2>3 DEF UnregisterWrite, Goto, EraseRecord, Store, TypeOK, RedisTypeOK
    <2>4. CASE AddLocal(c) \/ HeartbeatRead(c) \/ DeleteLocal(c) \/ UnregisterRead(c)
      BY <2>4 DEF AddLocal, HeartbeatRead, DeleteLocal, UnregisterRead, redis, keys
    <2> QED BY <1>1, <2>1, <2>2, <2>3, <2>4 DEF HandlerStep
  <1>2. ASSUME NEW c \in Conns, Connect(c) \/ Disconnect(c) \/ RedisError(c)
        PROVE  Rewritten(a)
    <2>1. ASSUME pc[c] \in {"register", "reregister"}, WriteRecord(AgentOf[c], GatewayOf[c])
          PROVE  Rewritten(a)
      BY <2>1 DEF WriteRecord, Store, TypeOK, RedisTypeOK
    <2>2. CASE UNCHANGED redis
      BY <2>2 DEF redis, keys
    <2> QED BY <1>2, <2>1, <2>2
            DEF Connect, Disconnect, RedisError, RegisterError, HeartbeatError, UnregisterError,
                Goto
  <1>3. ASSUME NEW r \in Callers, CallStep(r) \/ RouteError(r) \/ IncrError(r) PROVE Rewritten(a)
    <2>1. CASE IncrWrite(r)
      <3> DEFINE n == IF rec[best[r]].cnt = NoCount THEN 1 ELSE rec[best[r]].cnt + 1
      <3>1. rec' = [rec EXCEPT ![best[r]].cnt = n] /\ n <= MaxCount /\ rpc[r] = "increment"
        BY <2>1 DEF IncrWrite, GotoR, Store
      <3>2. CASE a = best[r]
        <4>1. n \in 0..MaxCount
          BY <3>1, <3>2 DEF TypeOK, RedisTypeOK, Record, NoCount
        <4> HIDE DEF n
        <4>2. rec'[a] = [rec[a] EXCEPT !.cnt = n]
          BY <3>1, <3>2 DEF TypeOK, RedisTypeOK
        <4> QED BY <3>1, <3>2, <4>1, <4>2
      <3>3. CASE a # best[r]
        BY <3>1, <3>3 DEF TypeOK, RedisTypeOK
      <3> QED BY <3>2, <3>3
    <2>2. CASE RouteMembers(r) \/ RouteReturn(r) \/ IncrRead(r) \/ CallEnds(r)
      BY <2>2 DEF RouteMembers, RouteReturn, IncrRead, CallEnds, redis, keys
    <2>3. CASE RouteGet(r)
      BY <2>3 DEF RouteGet, redis, keys
    <2>4. CASE RouteRemove(r)
      BY <2>4 DEF RouteRemove, Store
    <2>5. CASE RouteError(r) \/ IncrError(r)
      BY <2>5 DEF RouteError, IncrError, redis, keys
    <2> QED BY <1>3, <2>1, <2>2, <2>3, <2>4, <2>5 DEF CallStep
  <1>4. ASSUME NEW b \in Agents, Expire(b) PROVE Rewritten(a)
    BY <1>4 DEF Expire, Store, TypeOK, RedisTypeOK
  <1>5. ASSUME NEW g \in Gateways, ExpireGatewaySet(g) \/ SweepStep(g) \/ Crash(g)
        PROVE  Rewritten(a)
    <2>1. CASE SweepMember(g)
      BY <2>1 DEF SweepMember, EraseRecord, Store, TypeOK, RedisTypeOK
    <2> QED BY <1>5, <2>1 DEF ExpireGatewaySet, SweepStep, SweepMembers, SweepDone, SweepError,
                              Crash, Store, redis, keys
  <1>6. CASE UNCHANGED vars
    BY <1>6 DEF vars, redis, keys
  <1> QED BY <1>1, <1>2, <1>3, <1>4, <1>5, <1>6 DEF Next

\* Whatever interleaves with it, an agent that Route can choose holds a lease: its
\* record has a TTL, so that it stops being routable when nobody refreshes it.
THEOREM Leases == Spec => []RoutableIsLeased
  <1>1. Init => RoutableIsLeased
    BY DEF Init, RoutableIsLeased, Absent
  <1>2. TypeOK /\ RoutableIsLeased /\ [Next]_vars => RoutableIsLeased'
    <2> SUFFICES ASSUME TypeOK, RoutableIsLeased, [Next]_vars, NEW a \in Agents
                 PROVE  /\ rec'[a].gw # NoGateway => Whole(rec'[a]) /\ rec'[a].ttl
                        /\ rec'[a].hb => rec'[a].ttl
      BY DEF RoutableIsLeased, Whole
    <2>1. Rewritten(a)
      BY RecordStep
    <2>2. rec[a] \in Record
      BY DEF TypeOK, RedisTypeOK
    <2> USE DEF RoutableIsLeased, Record, Whole, Absent, Fresh, NoCount
    <2>3. CASE rec'[a] = rec[a] \/ rec'[a] = Absent
      BY <2>3
    <2>4. ASSUME NEW c \in Conns, rec'[a] = Fresh(GatewayOf[c]) PROVE Whole(rec'[a]) /\ rec'[a].ttl
      BY <2>4
    <2>5. CASE rec'[a] = [rec[a] EXCEPT !.hb = TRUE, !.ttl = TRUE]
      BY <2>2, <2>5
    <2>6. ASSUME NEW n \in 0..MaxCount, rec'[a] = [rec[a] EXCEPT !.cnt = n]
          PROVE  /\ rec'[a].gw # NoGateway => Whole(rec'[a]) /\ rec'[a].ttl
                 /\ rec'[a].hb => rec'[a].ttl
      BY <2>2, <2>6
    <2> QED BY <2>1, <2>3, <2>4, <2>5, <2>6 DEF Rewritten
  <1> QED BY <1>1, <1>2, TypeCorrect, PTL DEF Spec

-----------------------------------------------------------------------------
(* The entries of localAgents.                                             *)

\* Only a step of a handler or a crash of a gateway changes what the gateways hold.
LEMMA ConnsStep ==
  ASSUME [Next]_vars
  PROVE  \/ UNCHANGED conns
         \/ \E c \in Conns : Connect(c) \/ HandlerStep(c) \/ Disconnect(c) \/ RedisError(c)
         \/ \E g \in Gateways : Crash(g)
  <1>1. ASSUME NEW r \in Callers, CallStep(r) \/ RouteError(r) \/ IncrError(r) PROVE UNCHANGED conns
    BY <1>1 DEF CallStep, RouteError, IncrError, RouteMembers, RouteGet, RouteRemove, RouteReturn,
                IncrRead, IncrWrite, CallEnds
  <1>2. ASSUME NEW a \in Agents, Expire(a) PROVE UNCHANGED conns
    BY <1>2 DEF Expire
  <1>3. ASSUME NEW g \in Gateways, ExpireGatewaySet(g) \/ SweepStep(g) PROVE UNCHANGED conns
    BY <1>3 DEF ExpireGatewaySet, SweepStep, SweepMembers, SweepMember, SweepDone, SweepError
  <1>4. CASE UNCHANGED vars
    BY <1>4 DEF vars
  <1> QED BY <1>1, <1>2, <1>3, <1>4 DEF Next

Entered == {"serving", "heartbeat", "reregister", "disconnected"}

LEMMA EntriesKept ==
  ASSUME LocalEntriesAreLive, ConnsTypeOK, local' = local,
         \A c \in Conns : pc[c] \in Entered => pc'[c] \in Entered
  PROVE  LocalEntriesAreLive'
  <1> SUFFICES ASSUME NEW g \in Gateways, NEW a \in Agents, local[g][a] # NoConn
               PROVE  /\ AgentOf[local[g][a]] = a /\ GatewayOf[local[g][a]] = g
                      /\ pc'[local[g][a]] \in Entered
    BY DEF LocalEntriesAreLive, Entered
  <1>1. local[g][a] \in Conns
    BY DEF ConnsTypeOK
  <1>2. /\ AgentOf[local[g][a]] = a /\ GatewayOf[local[g][a]] = g
        /\ pc[local[g][a]] \in Entered
    BY DEF LocalEntriesAreLive, Entered
  <1> QED BY <1>1, <1>2

\* An entry of localAgents is never a connection that has ended, even when an agent
\* has several connections to one gateway.
THEOREM LiveEntries == Spec => []LocalEntriesAreLive
  <1>1. Init => LocalEntriesAreLive
    BY DEF Init, LocalEntriesAreLive
  <1>2. TypeOK /\ LocalEntriesAreLive /\ [Next]_vars => LocalEntriesAreLive'
    <2> SUFFICES ASSUME TypeOK, LocalEntriesAreLive, [Next]_vars
                 PROVE  LocalEntriesAreLive'
      OBVIOUS
    <2>1. ASSUME NEW c \in Conns, Connect(c) \/ HandlerStep(c) \/ Disconnect(c) \/ RedisError(c)
          PROVE  LocalEntriesAreLive'
      <3> DEFINE Kept == local' = local /\ \A d \in Conns : pc[d] \in Entered => pc'[d] \in Entered
      <3> USE DEF TypeOK, ConnsTypeOK, Goto, Entered
      <3>1. CASE AddLocal(c)
        BY <3>1 DEF AddLocal, LocalEntriesAreLive
      <3>2. CASE DeleteLocal(c)
        BY <3>2 DEF DeleteLocal, LocalEntriesAreLive
      <3>3. ASSUME Connect(c) \/ Disconnect(c) PROVE Kept
        BY <3>3 DEF Connect, Disconnect
      <3>4. ASSUME RedisError(c) PROVE Kept
        BY <3>4 DEF RedisError, RegisterError, HeartbeatError, UnregisterError
      <3>5. ASSUME HeartbeatRead(c) PROVE Kept
        BY <3>5 DEF HeartbeatRead
      <3>6. ASSUME HeartbeatWrite(c) \/ ReRegister(c) PROVE Kept
        BY <3>6 DEF HeartbeatWrite, ReRegister
      <3>7. ASSUME RegisterWrite(c) \/ UnregisterRead(c) \/ UnregisterWrite(c) PROVE Kept
        BY <3>7 DEF RegisterWrite, UnregisterRead, UnregisterWrite
      <3> QED BY <2>1, <3>1, <3>2, <3>3, <3>4, <3>5, <3>6, <3>7, EntriesKept DEF HandlerStep
    <2>2. ASSUME NEW g \in Gateways, Crash(g) PROVE LocalEntriesAreLive'
      BY <2>2 DEF Crash, LocalEntriesAreLive, TypeOK, ConnsTypeOK
    <2>3. CASE UNCHANGED conns
      BY <2>3 DEF conns, LocalEntriesAreLive
    <2> QED BY <2>1, <2>2, <2>3, ConnsStep
  <1> QED BY <1>1, <1>2, TypeCorrect, PTL DEF Spec

-----------------------------------------------------------------------------
(* Routing.  While a listing is under way, RouteIsHonest needs to know what *)
(* has been read so far: every agent that kept its registration and is not  *)
(* to be read any more weighs at least as much as the best one.             *)

NoBetterThan(r, S) == \A a \in S : best[r] # NoAgent /\ load[r] <= rec[a].cnt

RouteInv(r) ==
    /\ \A a \in steady[r] : a \in byType /\ Whole(rec[a])
    /\ rpc[r] \in {"listing", "remove"} => NoBetterThan(r, steady[r] \ todo[r])
    /\ rpc[r] = "unavailable" => steady[r] = {}
    /\ rpc[r] = "routed" => NoBetterThan(r, steady[r])

\* The history of r lost agents at most, and those it kept are as loaded as before.
Shrinks(r) == \A a \in steady'[r] :
    /\ a \in steady[r] /\ a \in byType' /\ Whole(rec'[a])
    /\ rec'[a].cnt >= rec[a].cnt

LEMMA StoreShrinks ==
  ASSUME RedisTypeOK, NEW t, NEW u, NEW s, Store(t, u, s), NEW r \in Callers
  PROVE  Shrinks(r)
  BY DEF Store, Shrinks

LEMMA SameShrinks ==
  ASSUME RedisTypeOK, NEW r \in Callers, RouteInv(r), rec' = rec, byType' = byType,
         steady'[r] = steady[r]
  PROVE  Shrinks(r)
  BY DEF RedisTypeOK, Record, RouteInv, Shrinks, NoCount

LEMMA CountsGrow ==
  ASSUME RedisTypeOK, RedisTypeOK', NEW r \in Callers, Shrinks(r), NEW a \in steady'[r]
  PROVE  /\ a \in steady[r]
         /\ rec[a].cnt \in Int /\ rec'[a].cnt \in Int
         /\ rec[a].cnt <= rec'[a].cnt
  BY DEF RedisTypeOK, Record, Shrinks, NoCount

\* A step that leaves the variables of r alone.
LEMMA RouteFrame ==
  ASSUME TypeOK, TypeOK', NEW r \in Callers, RouteInv(r), Shrinks(r),
         rpc'[r] = rpc[r], todo'[r] = todo[r], best'[r] = best[r], load'[r] = load[r]
  PROVE  RouteInv(r)'
  <1>1. load[r] \in Int
    BY DEF TypeOK, CallsTypeOK, NoCount
  <1>2. \A a \in steady'[r] : /\ a \in steady[r] /\ rec[a].cnt \in Int /\ rec'[a].cnt \in Int
                              /\ rec[a].cnt <= rec'[a].cnt
    BY CountsGrow DEF TypeOK
  <1>3. ASSUME NEW S, NoBetterThan(r, S), NEW T, T \subseteq S, T \subseteq steady'[r]
        PROVE  \A a \in T : best'[r] # NoAgent /\ load'[r] <= rec'[a].cnt
    BY <1>1, <1>2, <1>3 DEF NoBetterThan
  <1>4. \A a \in steady'[r] : a \in byType' /\ Whole(rec'[a])
    BY DEF Shrinks
  <1>5. rpc[r] \in {"listing", "remove"} =>
           \A a \in steady'[r] \ todo[r] : best'[r] # NoAgent /\ load'[r] <= rec'[a].cnt
    <2> DEFINE S == steady[r] \ todo[r]
               T == steady'[r] \ todo[r]
    <2>1. T \subseteq S /\ T \subseteq steady'[r]
      BY <1>2
    <2>2. rpc[r] \in {"listing", "remove"} => NoBetterThan(r, S)
      BY DEF RouteInv
    <2> QED BY <1>3, <2>1, <2>2
  <1>6. rpc[r] = "routed" =>
           \A a \in steady'[r] : best'[r] # NoAgent /\ load'[r] <= rec'[a].cnt
    <2>1. steady'[r] \subseteq steady[r]
      BY <1>2
    <2>2. rpc[r] = "routed" => NoBetterThan(r, steady[r])
      BY DEF RouteInv
    <2> QED BY <1>3, <2>1, <2>2
  <1>7. rpc[r] = "unavailable" => steady'[r] = {}
    BY <1>2 DEF RouteInv
  <1> QED BY <1>4, <1>5, <1>6, <1>7 DEF RouteInv, NoBetterThan, Whole

\* A step of the request itself.
LEMMA RouteOwnStep ==
  ASSUME TypeOK, TypeOK', NEW r \in Callers, RouteInv(r), CallStep(r) \/ RouteError(r)
  PROVE  RouteInv(r)'
  <1> USE DEF TypeOK, RedisTypeOK, CallsTypeOK
  <1>1. CASE RouteMembers(r)
    <2>1. steady'[r] = Listed /\ todo'[r] = byType /\ rec' = rec /\ byType' = byType
          /\ rpc'[r] = "listing"
      BY <1>1 DEF RouteMembers, GotoR, keys
    <2>2. Listed \subseteq byType /\ \A a \in Listed : Whole(rec[a])
      BY DEF Listed
    <2> QED BY <2>1, <2>2 DEF RouteInv, NoBetterThan, Whole
  <1>2. CASE RouteGet(r)
    <2>1. PICK a \in todo[r] : RouteGet(r)!(a)
      BY <1>2 DEF RouteGet
    <2>2. /\ rec' = rec /\ byType' = byType /\ steady' = steady
          /\ todo'[r] = todo[r] \ {a} /\ rpc[r] = "listing"
      BY <2>1 DEF redis, keys, GotoR
    <2>3. a \in Agents /\ a # NoAgent /\ rec[a].cnt \in Int /\ load[r] \in Int
      BY DEF Record, NoCount
    <2>4. NoBetterThan(r, steady[r] \ todo[r])
      BY <2>2 DEF RouteInv
    <2>5. \A b \in steady[r] : b \in byType /\ Whole(rec[b])
      BY DEF RouteInv
    <2>6. CASE Whole(rec[a])
      <3>1. rpc'[r] = "listing"
        BY <2>1, <2>6 DEF GotoR, Whole, Present
      <3>2. \/ Better(r, a) /\ best'[r] = a /\ load'[r] = rec[a].cnt
            \/ ~Better(r, a) /\ best'[r] = best[r] /\ load'[r] = load[r]
        BY <2>1, <2>6 DEF GotoR, Whole, Present
      <3>3. best'[r] # NoAgent /\ load'[r] <= rec[a].cnt
            /\ (best[r] # NoAgent => load'[r] <= load[r]) /\ load'[r] \in Int
        BY <2>3, <3>2 DEF Better
      <3>4. ASSUME NEW b \in steady[r] \ todo'[r] PROVE load'[r] <= rec[b].cnt
        <4>1. CASE b = a
          BY <3>3, <4>1
        <4>2. CASE b # a
          <5>1. best[r] # NoAgent /\ load[r] <= rec[b].cnt
            BY <2>2, <2>4, <3>4, <4>2 DEF NoBetterThan
          <5>2. rec[b].cnt \in Int
            BY <3>4 DEF Record, NoCount
          <5> QED BY <2>3, <3>3, <5>1, <5>2
        <4> QED BY <4>1, <4>2
      <3> QED BY <2>2, <2>5, <3>1, <3>3, <3>4 DEF RouteInv, NoBetterThan, Whole
    <2>7. CASE ~Whole(rec[a])
      <3>1. a \notin steady[r]
        BY <2>5, <2>7
      <3>2. rpc'[r] \in {"remove", "failed"} /\ best'[r] = best[r] /\ load'[r] = load[r]
        BY <2>1, <2>7 DEF GotoR
      <3>3. steady[r] \ todo'[r] = steady[r] \ todo[r]
        BY <2>2, <3>1
      <3> QED BY <2>2, <2>4, <2>5, <3>2, <3>3 DEF RouteInv, NoBetterThan, Whole
    <2> QED BY <2>6, <2>7
  <1>3. CASE RouteRemove(r)
    <2>1. Shrinks(r)
      BY <1>3, StoreShrinks DEF RouteRemove
    <2>2. /\ rpc[r] = "remove" /\ rpc'[r] = "listing" /\ todo'[r] = todo[r]
          /\ best'[r] = best[r] /\ load'[r] = load[r]
      BY <1>3 DEF RouteRemove, GotoR
    <2>3. load[r] \in Int /\ NoBetterThan(r, steady[r] \ todo[r])
      BY <2>2 DEF RouteInv, NoCount
    <2>4. \A a \in steady'[r] : a \in steady[r] /\ rec[a].cnt \in Int /\ rec'[a].cnt \in Int
                                /\ rec[a].cnt <= rec'[a].cnt
      BY <2>1, CountsGrow
    <2>5. \A a \in steady'[r] \ todo'[r] : best'[r] # NoAgent /\ load'[r] <= rec'[a].cnt
      BY <2>2, <2>3, <2>4 DEF NoBetterThan
    <2> QED BY <2>1, <2>2, <2>5 DEF RouteInv, NoBetterThan, Shrinks, Whole
  <1>4. CASE RouteReturn(r)
    <2>1. /\ rec' = rec /\ byType' = byType /\ steady' = steady /\ todo[r] = {}
          /\ best' = best /\ load' = load /\ rpc[r] = "listing"
          /\ rpc'[r] = IF best[r] = NoAgent THEN "unavailable" ELSE "routed"
      BY <1>4 DEF RouteReturn, GotoR, redis, keys
    <2>2. NoBetterThan(r, steady[r])
      BY <2>1 DEF RouteInv
    <2> QED BY <2>1, <2>2 DEF RouteInv, NoBetterThan, Whole
  <1>5. CASE IncrRead(r)
    BY <1>5 DEF IncrRead, GotoR, RouteInv, keys
  <1>6. CASE IncrWrite(r)
    <2>1. Shrinks(r)
      BY <1>6, StoreShrinks DEF IncrWrite
    <2>2. rpc'[r] = "counted"
      BY <1>6 DEF IncrWrite, GotoR
    <2> QED BY <2>1, <2>2 DEF RouteInv, Shrinks, Whole
  <1>7. CASE CallEnds(r)
    BY <1>7 DEF CallEnds, RouteInv, keys
  <1>8. CASE RouteError(r)
    <2>1. steady'[r] = {} /\ rpc'[r] \in {"failed", "remove", "listing"}
      BY <1>8 DEF RouteError, GotoR
    <2> QED BY <2>1 DEF RouteInv, NoBetterThan
  <1> QED BY <1>1, <1>2, <1>3, <1>4, <1>5, <1>6, <1>7, <1>8 DEF CallStep

\* A step of anything else.
LEMMA OtherStep ==
  ASSUME TypeOK, NEW r \in Callers, RouteInv(r), [Next]_vars, ~CallStep(r), ~RouteError(r),
         ~IncrError(r)
  PROVE  /\ Shrinks(r)
         /\ rpc'[r] = rpc[r] /\ todo'[r] = todo[r]
         /\ best'[r] = best[r] /\ load'[r] = load[r]
  <1> DEFINE Quiet == Shrinks(r) /\ UNCHANGED calls
             Goal  == /\ Shrinks(r)
                      /\ rpc'[r] = rpc[r] /\ todo'[r] = todo[r]
                      /\ best'[r] = best[r] /\ load'[r] = load[r]
  <1>1. ASSUME UNCHANGED redis PROVE Shrinks(r)
    BY <1>1, SameShrinks DEF redis, keys, TypeOK
  <1>2. RedisTypeOK
    BY DEF TypeOK
  <1>3. ASSUME NEW c \in Conns, Connect(c) \/ HandlerStep(c) \/ Disconnect(c) \/ RedisError(c)
        PROVE  Quiet
    <2>1. CASE RegisterWrite(c) \/ ReRegister(c)
      BY <1>2, <2>1, StoreShrinks DEF RegisterWrite, ReRegister, WriteRecord
    <2>2. CASE HeartbeatWrite(c) \/ UnregisterWrite(c)
      BY <1>2, <2>2, StoreShrinks DEF HeartbeatWrite, UnregisterWrite, EraseRecord
    <2>3. CASE AddLocal(c) \/ HeartbeatRead(c) \/ DeleteLocal(c) \/ UnregisterRead(c)
      BY <1>1, <2>3 DEF AddLocal, HeartbeatRead, DeleteLocal, UnregisterRead
    <2>4. CASE Connect(c) \/ Disconnect(c)
      BY <1>1, <2>4 DEF Connect, Disconnect
    <2>5. CASE RedisError(c)
      BY <1>1, <1>2, <2>5, StoreShrinks
         DEF RedisError, RegisterError, HeartbeatError, UnregisterError, WriteRecord
    <2> QED BY <1>3, <2>1, <2>2, <2>3, <2>4, <2>5 DEF HandlerStep
  <1>4. ASSUME NEW a \in Agents, Expire(a) PROVE Quiet
    BY <1>2, <1>4, StoreShrinks DEF Expire
  <1>5. ASSUME NEW g \in Gateways, ExpireGatewaySet(g) \/ SweepStep(g) \/ Crash(g) PROVE Quiet
    BY <1>1, <1>2, <1>5, StoreShrinks
       DEF ExpireGatewaySet, SweepStep, SweepMembers, SweepMember, SweepDone, SweepError,
           EraseRecord, Crash
  <1>6. CASE UNCHANGED vars
    BY <1>1, <1>6 DEF vars, calls
  <1>7. ASSUME NEW q \in Callers, CallStep(q) \/ RouteError(q) \/ IncrError(q) PROVE Goal
    <2>1. q # r
      BY <1>7
    <2> USE DEF TypeOK, CallsTypeOK, GotoR
    <2>2. CASE RouteMembers(q) \/ IncrRead(q) \/ CallEnds(q)
      <3>1. rec' = rec /\ byType' = byType /\ steady'[r] = steady[r]
        BY <2>1, <2>2 DEF RouteMembers, IncrRead, CallEnds, RedisTypeOK, keys
      <3>2. Shrinks(r)
        BY <1>2, <3>1, SameShrinks
      <3> QED BY <2>1, <2>2, <3>2 DEF RouteMembers, IncrRead, CallEnds
    <2>3. CASE RouteGet(q)
      BY <1>1, <2>1, <2>3 DEF RouteGet
    <2>4. CASE RouteReturn(q)
      BY <1>1, <2>1, <2>4 DEF RouteReturn
    <2>5. CASE RouteRemove(q) \/ IncrWrite(q)
      BY <1>2, <2>1, <2>5, StoreShrinks DEF RouteRemove, IncrWrite
    <2>6. CASE RouteError(q)
      <3>1. rec' = rec /\ byType' = byType /\ steady'[r] = steady[r]
        BY <2>1, <2>6 DEF RouteError, RedisTypeOK, keys
      <3>2. Shrinks(r)
        BY <1>2, <3>1, SameShrinks
      <3> QED BY <2>1, <2>6, <3>2 DEF RouteError
    <2>7. CASE IncrError(q)
      BY <1>1, <2>1, <2>7 DEF IncrError
    <2> QED BY <1>7, <2>2, <2>3, <2>4, <2>5, <2>6, <2>7 DEF CallStep
  <1> QED BY <1>3, <1>4, <1>5, <1>6, <1>7 DEF Next, calls

\* A failed HINCRBY.
LEMMA IncrErrorStep ==
  ASSUME TypeOK, NEW r \in Callers, RouteInv(r), IncrError(r)
  PROVE  RouteInv(r)'
  <1>1. rpc'[r] = "counted"
    BY DEF IncrError, GotoR, TypeOK, CallsTypeOK
  <1>2. Shrinks(r)
    BY SameShrinks DEF IncrError, redis, keys, TypeOK
  <1> QED BY <1>1, <1>2 DEF RouteInv, Shrinks, Whole

\* Route is honest about every agent that stayed registered during the call, however
\* registrations, heartbeats, expiries, other requests and other requests' errors
\* interleave with its reads.
THEOREM HonestRouting == Spec => []RouteIsHonest
  <1> DEFINE Inv == \A r \in Callers : RouteInv(r)
  <1>1. Init => Inv
    BY DEF Init, RouteInv
  <1>2. TypeOK /\ TypeOK' /\ Inv /\ [Next]_vars => Inv'
    <2> SUFFICES ASSUME TypeOK, TypeOK', Inv, [Next]_vars, NEW r \in Callers
                 PROVE  RouteInv(r)'
      OBVIOUS
    <2>1. CASE CallStep(r) \/ RouteError(r)
      BY <2>1, RouteOwnStep
    <2>2. CASE IncrError(r)
      BY <2>2, IncrErrorStep
    <2>3. CASE ~CallStep(r) /\ ~RouteError(r) /\ ~IncrError(r)
      BY <2>3, OtherStep, RouteFrame
    <2> QED BY <2>1, <2>2, <2>3
  <1>3. Inv => RouteIsHonest
    BY DEF RouteInv, NoBetterThan, RouteIsHonest
  <1> HIDE DEF Inv
  <1> QED BY <1>1, <1>2, <1>3, TypeCorrect, PTL DEF Spec
=============================================================================
