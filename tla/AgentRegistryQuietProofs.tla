----------------------- MODULE AgentRegistryQuietProofs -----------------------
(***************************************************************************)
(* Theorems about AgentRegistry that need a quiet system, each from the    *)
(* part of the quiet it needs: one handler of an agent at a time, no       *)
(* UnregisterByGateway, no routing, no record going away in the middle of  *)
(* a heartbeat or a count.  Gateways may crash, records may expire and     *)
(* commands may fail in all of them.                                       *)
(***************************************************************************)
EXTENDS AgentRegistryProofs

USE ConnsAssumption, NullAssumption, BoundAssumption

-----------------------------------------------------------------------------
(* One handler of an agent at a time.                                      *)

OneHandler == \A c, d \in Conns :
    AgentOf[c] = AgentOf[d] /\ pc[c] # "closed" /\ pc[d] # "closed" => c = d

\* Where the handler of a connection may get to in one step.
LEMMA HandlerMoves ==
  ASSUME TypeOK, [Next]_vars, NEW c \in Conns
  PROVE  \/ pc'[c] \in {pc[c], "closed"}
         \/ Connect(c)
         \/ pc[c] # "closed" /\ (HandlerStep(c) \/ pc'[c] = "disconnected")
         \/ pc[c] = "heartbeat" /\ pc'[c] = "serving"
  <1> DEFINE Goal == \/ pc'[c] \in {pc[c], "closed"}
                     \/ Connect(c)
                     \/ pc[c] # "closed" /\ (HandlerStep(c) \/ pc'[c] = "disconnected")
                     \/ pc[c] = "heartbeat" /\ pc'[c] = "serving"
  <1> USE DEF TypeOK, ConnsTypeOK
  <1>1. ASSUME NEW d \in Conns, d # c,
               Connect(d) \/ HandlerStep(d) \/ Disconnect(d) \/ RedisError(d)
        PROVE  pc'[c] = pc[c]
    BY <1>1 DEF Connect, HandlerStep, RegisterWrite, AddLocal, HeartbeatRead, HeartbeatWrite,
                ReRegister, DeleteLocal, UnregisterRead, UnregisterWrite, Disconnect, RedisError,
                RegisterError, HeartbeatError, UnregisterError, Goto
  <1>2. ASSUME Disconnect(c) \/ RedisError(c) PROVE Goal
    BY <1>2 DEF Disconnect, RedisError, RegisterError, HeartbeatError,
                UnregisterError, Goto
  <1>3. ASSUME HandlerStep(c) PROVE pc[c] # "closed"
    BY <1>3 DEF HandlerStep, RegisterWrite, AddLocal, HeartbeatRead, HeartbeatWrite,
                ReRegister, DeleteLocal, UnregisterRead, UnregisterWrite, Goto
  <1>4. CASE UNCHANGED conns
    BY <1>4 DEF conns
  <1>5. ASSUME NEW g \in Gateways, Crash(g) PROVE Goal
    BY <1>5 DEF Crash
  <1> QED BY <1>1, <1>2, <1>3, <1>4, <1>5, ConnsStep

LEMMA OneHandlerKept ==
  ASSUME OneAtATime, TypeOK, OneHandler, [Next]_vars
  PROVE  OneHandler'
  <1>1. ASSUME NEW c \in Conns, pc[c] = "closed", pc'[c] # "closed",
               NEW d \in Conns, AgentOf[d] = AgentOf[c], pc'[d] # "closed"
        PROVE  c = d
    <2>1. Connect(c)
      BY <1>1, HandlerMoves
    <2>2. pc[d] = "closed"
      BY <1>1, <2>1 DEF Connect, Unattended
    <2> QED BY <1>1, <2>1, <2>2 DEF Connect, Goto, TypeOK, ConnsTypeOK
  <1> QED BY <1>1 DEF OneHandler

\* The connection of an agent that is being served is the one localAgents holds.
LEMMA ServingIsLocalKept ==
  ASSUME TypeOK, OneHandler, ServingIsLocal, [Next]_vars
  PROVE  ServingIsLocal'
  <1> SUFFICES ASSUME NEW c \in Conns, InService(c)'
               PROVE  local'[GatewayOf[c]][AgentOf[c]] = c
    BY DEF ServingIsLocal
  <1> USE DEF TypeOK, ConnsTypeOK
  <1>1. ASSUME NEW d \in Conns, AddLocal(d) PROVE local'[GatewayOf[c]][AgentOf[c]] = c
    <2>1. CASE d = c
      BY <1>1, <2>1 DEF AddLocal
    <2>2. CASE d # c
      <3>1. pc[d] = "accepted" /\ InService(c)
        BY <1>1, <2>2 DEF AddLocal, Goto, InService
      <3>2. AgentOf[d] # AgentOf[c]
        BY <2>2, <3>1 DEF OneHandler, InService
      <3> QED BY <1>1, <3>1, <3>2 DEF AddLocal, ServingIsLocal
    <2> QED BY <2>1, <2>2
  <1>2. ASSUME NEW d \in Conns, DeleteLocal(d) PROVE local'[GatewayOf[c]][AgentOf[c]] = c
    <2>1. pc[d] = "disconnected" /\ InService(c) /\ d # c
      BY <1>2 DEF DeleteLocal, Goto, InService
    <2>2. AgentOf[d] # AgentOf[c]
      BY <2>1 DEF OneHandler, InService
    <2> QED BY <1>2, <2>1, <2>2 DEF DeleteLocal, ServingIsLocal
  <1>3. ASSUME NEW g \in Gateways, Crash(g) PROVE local'[GatewayOf[c]][AgentOf[c]] = c
    <2>1. GatewayOf[c] # g /\ InService(c)
      BY <1>3 DEF Crash, InService
    <2> QED BY <1>3, <2>1 DEF Crash, ServingIsLocal
  <1>4. ASSUME local' = local, InService(c) PROVE local'[GatewayOf[c]][AgentOf[c]] = c
    BY <1>4 DEF ServingIsLocal
  <1>5. ASSUME NEW d \in Conns, Connect(d) \/ Disconnect(d) \/ RedisError(d)
        PROVE  local' = local /\ InService(c)
    BY <1>5 DEF Connect, Disconnect, RedisError, RegisterError, HeartbeatError,
                UnregisterError, Goto, InService
  <1>6. ASSUME NEW d \in Conns, HandlerStep(d), ~AddLocal(d), ~DeleteLocal(d)
        PROVE  local' = local /\ InService(c)
    BY <1>6 DEF HandlerStep, RegisterWrite, HeartbeatRead, HeartbeatWrite, ReRegister,
                UnregisterRead, UnregisterWrite, Goto, InService
  <1>7. CASE UNCHANGED conns
    BY <1>4, <1>7 DEF conns, InService
  <1> QED BY <1>1, <1>2, <1>3, <1>4, <1>5, <1>6, <1>7, ConnsStep

\* What a handler that has registered knows of the record: nobody else wrote it.
Registered(c) == pc[c] \in {"accepted", "serving", "heartbeat", "reregister"}

OwnsRecord == \A c \in Conns :
    Registered(c) => rec[AgentOf[c]].gw \in {NoGateway, GatewayOf[c]}

LEMMA OwnsRecordKept ==
  ASSUME TypeOK, OneHandler, OwnsRecord, [Next]_vars
  PROVE  OwnsRecord'
  <1> SUFFICES ASSUME NEW c \in Conns, Registered(c)'
               PROVE  rec'[AgentOf[c]].gw \in {NoGateway, GatewayOf[c]}
    BY DEF OwnsRecord
  <1> DEFINE a == AgentOf[c]
  <1> USE DEF TypeOK, ConnsTypeOK, RedisTypeOK
  <1>1. CASE RegisterWrite(c)
    BY <1>1 DEF RegisterWrite, WriteRecord, Store, Fresh
  <1>2. CASE ~RegisterWrite(c)
    <2>1. Registered(c)
      BY <1>2, HandlerMoves
         DEF Registered, Connect, HandlerStep, AddLocal, HeartbeatRead, HeartbeatWrite, ReRegister,
             DeleteLocal, UnregisterRead, UnregisterWrite, Goto
    <2>2. rec[a].gw \in {NoGateway, GatewayOf[c]} /\ rec[a] \in Record
      BY <2>1 DEF OwnsRecord
    <2>3. ASSUME NEW d \in Conns, AgentOf[d] = a, pc[d] # "closed" PROVE d = c
      BY <2>1, <2>3 DEF OneHandler, Registered
    <2>4. Rewritten(a)
      BY RecordStep
    <2>5. rec'[a] = rec[a] \/ rec'[a].gw \in {rec[a].gw, NoGateway, GatewayOf[c]}
      <3>1. \A d \in Conns : Fresh(GatewayOf[d]).gw = GatewayOf[d]
        BY DEF Fresh
      <3>2. [rec[a] EXCEPT !.hb = TRUE, !.ttl = TRUE].gw = rec[a].gw
        BY <2>2 DEF Record
      <3>3. \A n : [rec[a] EXCEPT !.cnt = n].gw = rec[a].gw
        BY <2>2 DEF Record
      <3>4. Absent.gw = NoGateway
        BY DEF Absent
      <3> QED BY <2>3, <2>4, <3>1, <3>2, <3>3, <3>4 DEF Rewritten
    <2> QED BY <2>2, <2>5
  <1> QED BY <1>1, <1>2

ServiceInv == OneHandler /\ ServingIsLocal /\ OwnsRecord

\* When an agent dials only after the handler of its last connection is gone, the
\* connection, its entry in localAgents and the gateway in its record agree, whatever
\* expires, fails, crashes, is swept or is routed meanwhile: OneHandler makes it
\* inductive, for the writes of a second handler are what breaks it.
THEOREM ServiceInvariant == OneAtATime => (Spec => [](TypeOK /\ ServiceInv))
  <1> SUFFICES ASSUME OneAtATime PROVE Spec => [](TypeOK /\ ServiceInv)
    OBVIOUS
  <1>1. Init => ServiceInv
    BY DEF Init, ServiceInv, OneHandler, ServingIsLocal, InService, OwnsRecord, Registered
  <1>2. TypeOK /\ ServiceInv /\ [Next]_vars => ServiceInv'
    BY OneHandlerKept, ServingIsLocalKept, OwnsRecordKept DEF ServiceInv
  <1> QED BY <1>1, <1>2, TypeCorrect, PTL DEF Spec

\* A connection being served is the one that SendRequest finds in localAgents.
THEOREM ConnectionIsFound == OneAtATime => (Spec => []ServingIsLocal)
  <1>1. TypeOK /\ ServiceInv => ServingIsLocal
    BY DEF ServiceInv
  <1> QED BY <1>1, ServiceInvariant, PTL

\* The record of an agent that is being served names the gateway that serves it, so
\* that Forward goes to where the connection is.
THEOREM RecordIsTrue == OneAtATime => (Spec => []RecordNamesServer)
  <1>1. TypeOK /\ ServiceInv => RecordNamesServer
    BY DEF ServiceInv, OwnsRecord, Registered, RecordNamesServer, InService, Whole
  <1> QED BY <1>1, ServiceInvariant, PTL

-----------------------------------------------------------------------------
(* No gateway is swept.                                                    *)

NothingSwept == sweeping = {} /\ \A g \in Gateways : swept[g] = {}

LEMMA NothingSweptKept ==
  ASSUME Sweepers = {}, TypeOK, NothingSwept, [Next]_vars
  PROVE  NothingSwept'
  <1> USE DEF TypeOK, SweepTypeOK, NothingSwept
  <1>1. ASSUME NEW g \in Gateways, SweepStep(g) \/ ExpireGatewaySet(g) \/ Crash(g)
        PROVE  NothingSwept'
    BY <1>1 DEF SweepStep, SweepMembers, SweepMember, SweepDone, SweepError, ExpireGatewaySet,
                Crash, sweep
  <1>2. ASSUME NEW r \in Callers, CallStep(r) \/ RouteError(r) \/ IncrError(r) PROVE UNCHANGED sweep
    BY <1>2 DEF CallStep, RouteError, IncrError, RouteMembers, RouteGet, RouteRemove, RouteReturn,
                IncrRead, IncrWrite, CallEnds
  <1>3. ASSUME NEW c \in Conns, Connect(c) \/ HandlerStep(c) \/ Disconnect(c) \/ RedisError(c)
        PROVE  UNCHANGED sweep
    BY <1>3 DEF Connect, HandlerStep, RegisterWrite, AddLocal, HeartbeatRead, HeartbeatWrite,
                ReRegister, DeleteLocal, UnregisterRead, UnregisterWrite, Disconnect, RedisError,
                RegisterError, HeartbeatError, UnregisterError
  <1>4. ASSUME NEW a \in Agents, Expire(a) PROVE UNCHANGED sweep
    BY <1>4 DEF Expire
  <1>5. CASE UNCHANGED sweep
    BY <1>5 DEF sweep
  <1> QED BY <1>1, <1>2, <1>3, <1>4, <1>5 DEF Next, vars

LEMMA NeverSwept == Sweepers = {} => (Spec => []NothingSwept)
  <1> SUFFICES ASSUME Sweepers = {} PROVE Spec => []NothingSwept
    OBVIOUS
  <1>1. Init => NothingSwept
    BY DEF Init, NothingSwept
  <1>2. TypeOK /\ NothingSwept /\ [Next]_vars => NothingSwept'
    BY NothingSweptKept
  <1> QED BY <1>1, <1>2, TypeCorrect, PTL DEF Spec

\* The fields of a record after each kind of write.
LEMMA WriteFields ==
  ASSUME NEW x \in Record
  PROVE  /\ \A g \in Gateways : Whole(Fresh(g))
         /\ ~Present(Absent)
         /\ Whole(x) => Whole([x EXCEPT !.hb = TRUE, !.ttl = TRUE])
         /\ Whole(x) => \A n \in 0..MaxCount : Whole([x EXCEPT !.cnt = n])
  BY DEF Record, Whole, Present, Fresh, Absent, NoCount

-----------------------------------------------------------------------------
(* The indexes.                                                            *)

InGatewaySet == \A a \in Agents :
    rec[a].gw # NoGateway => a \in gwAgents[rec[a].gw]

InTypeSet == \A a \in Agents : rec[a].gw # NoGateway => a \in byType

\* The steps that write, erase or lose an entry of an index, and all the others.
LEMMA IndexStep ==
  ASSUME TypeOK, [Next]_vars
  PROVE  \/ \E b \in Agents, g \in Gateways : WriteRecord(b, g)
         \/ \E b \in Agents, g \in Gateways \cup {NoGateway} : EraseRecord(b, g)
         \/ \E b \in Agents : Expire(b)
         \/ \E g \in Gateways : ExpireGatewaySet(g) \/ SweepDone(g)
         \/ \E r \in Callers : RouteRemove(r)
         \/ byType' = byType /\ gwAgents' = gwAgents /\ \A a \in Agents : rec'[a].gw = rec[a].gw
  <1> DEFINE Same == byType' = byType /\ gwAgents' = gwAgents
                        /\ \A a \in Agents : rec'[a].gw = rec[a].gw
  <1> USE DEF TypeOK, RedisTypeOK, ConnsTypeOK
  <1>1. ASSUME UNCHANGED redis PROVE Same
    BY <1>1 DEF redis, keys
  <1>2. ASSUME NEW c \in Conns, HeartbeatWrite(c) PROVE Same
    BY <1>2 DEF HeartbeatWrite, Store, Record
  <1>3. ASSUME NEW c \in Conns, RegisterWrite(c) \/ ReRegister(c)
        PROVE  WriteRecord(AgentOf[c], GatewayOf[c])
    BY <1>3 DEF RegisterWrite, ReRegister
  <1>4. ASSUME NEW c \in Conns, UnregisterWrite(c) PROVE EraseRecord(AgentOf[c], seen[c])
    BY <1>4 DEF UnregisterWrite
  <1>5. ASSUME NEW c \in Conns, Connect(c) \/ Disconnect(c) \/ AddLocal(c) \/ HeartbeatRead(c)
                                  \/ DeleteLocal(c) \/ UnregisterRead(c)
        PROVE  UNCHANGED redis
    BY <1>5 DEF Connect, Disconnect, AddLocal, HeartbeatRead, DeleteLocal, UnregisterRead
  <1>6. ASSUME NEW c \in Conns, RedisError(c)
        PROVE  WriteRecord(AgentOf[c], GatewayOf[c]) \/ UNCHANGED redis
    BY <1>6 DEF RedisError, RegisterError, HeartbeatError, UnregisterError
  <1>7. ASSUME NEW r \in Callers, IncrWrite(r) PROVE Same
    BY <1>7 DEF IncrWrite, Store, Record
  <1>8. ASSUME NEW r \in Callers, RouteMembers(r) \/ RouteGet(r) \/ RouteReturn(r) \/ IncrRead(r)
                                    \/ CallEnds(r) \/ RouteError(r) \/ IncrError(r)
        PROVE  Same
    BY <1>1, <1>8 DEF RouteMembers, RouteGet, RouteReturn, IncrRead, CallEnds, RouteError,
                         IncrError, keys
  <1>9. ASSUME NEW g \in Gateways, SweepMember(g)
        PROVE  \E b \in Agents : EraseRecord(b, g)
    BY <1>9 DEF SweepMember, SweepTypeOK
  <1>10. ASSUME NEW g \in Gateways, SweepMembers(g) \/ SweepError(g) \/ Crash(g)
         PROVE  UNCHANGED redis
    BY <1>10 DEF SweepMembers, SweepError, Crash
  <1>11. CASE UNCHANGED vars
    BY <1>1, <1>11 DEF vars
  <1>12. \A c \in Conns : AgentOf[c] \in Agents /\ GatewayOf[c] \in Gateways
                          /\ seen[c] \in Gateways \cup {NoGateway}
    OBVIOUS
  <1> HIDE DEF TypeOK, RedisTypeOK, ConnsTypeOK, Same
  <1>13. ASSUME NEW c \in Conns, Connect(c) \/ HandlerStep(c) \/ Disconnect(c) \/ RedisError(c)
         PROVE  \/ \E b \in Agents, g \in Gateways : WriteRecord(b, g)
                \/ \E b \in Agents, g \in Gateways \cup {NoGateway} : EraseRecord(b, g)
                \/ Same
    BY <1>1, <1>2, <1>3, <1>4, <1>5, <1>6, <1>12, <1>13 DEF HandlerStep
  <1>14. ASSUME NEW r \in Callers, CallStep(r) \/ RouteError(r) \/ IncrError(r)
         PROVE  RouteRemove(r) \/ Same
    BY <1>7, <1>8, <1>14 DEF CallStep
  <1>15. ASSUME NEW g \in Gateways, SweepStep(g) \/ Crash(g)
         PROVE  (\E b \in Agents : EraseRecord(b, g)) \/ SweepDone(g) \/ Same
    BY <1>1, <1>9, <1>10, <1>15 DEF SweepStep
  <1> QED BY <1>11, <1>13, <1>14, <1>15 DEF Next, Same

\* The set of a gateway may expire under a record that was renewed alone.  With one handler
\* of an agent at a time there is none: a heartbeat renews the set of the gateway that the
\* record still names.
HeartbeatKnows == \A c \in Conns :
    pc[c] = "heartbeat" => rec[AgentOf[c]].gw \in {NoGateway, seen[c]}

LEMMA SeenKept ==
  ASSUME TypeOK, [Next]_vars, NEW c \in Conns, pc[c] = "heartbeat", pc'[c] = "heartbeat"
  PROVE  seen'[c] = seen[c]
  <1> USE DEF TypeOK, ConnsTypeOK, Goto
  <1>1. ASSUME NEW d \in Conns, Connect(d) \/ Disconnect(d) \/ RedisError(d)
        PROVE  seen'[c] = seen[c]
    BY <1>1 DEF Connect, Disconnect, RedisError, RegisterError, HeartbeatError, UnregisterError
  <1>2. ASSUME NEW d \in Conns, HandlerStep(d) PROVE seen'[c] = seen[c]
    BY <1>2 DEF HandlerStep, RegisterWrite, AddLocal, HeartbeatRead, HeartbeatWrite, ReRegister,
                DeleteLocal, UnregisterRead, UnregisterWrite
  <1>3. ASSUME NEW g \in Gateways, Crash(g) PROVE seen'[c] = seen[c]
    BY <1>3 DEF Crash
  <1>4. CASE UNCHANGED conns
    BY <1>4 DEF conns
  <1> QED BY <1>1, <1>2, <1>3, <1>4, ConnsStep

LEMMA HeartbeatKnowsKept ==
  ASSUME TypeOK, OneHandler, HeartbeatKnows, [Next]_vars
  PROVE  HeartbeatKnows'
  <1> SUFFICES ASSUME NEW c \in Conns, pc'[c] = "heartbeat"
               PROVE  rec'[AgentOf[c]].gw \in {NoGateway, seen'[c]}
    BY DEF HeartbeatKnows
  <1> DEFINE a == AgentOf[c]
  <1>1. CASE HeartbeatRead(c)
    BY <1>1 DEF HeartbeatRead, redis, keys, TypeOK, ConnsTypeOK
  <1>2. CASE ~HeartbeatRead(c)
    <2>1. pc[c] = "heartbeat"
      BY <1>2, HandlerMoves DEF Connect, HandlerStep, RegisterWrite, AddLocal, HeartbeatWrite,
            ReRegister, DeleteLocal, UnregisterRead, UnregisterWrite, Goto, TypeOK, ConnsTypeOK
    <2>2. seen'[c] = seen[c] /\ rec[a].gw \in {NoGateway, seen[c]} /\ rec[a] \in Record
      BY <2>1, SeenKept DEF HeartbeatKnows, TypeOK, RedisTypeOK
    <2>3. ASSUME NEW d \in Conns, AgentOf[d] = a, pc[d] \in {"register", "reregister"} PROVE FALSE
      BY <2>1, <2>3 DEF OneHandler
    <2>4. [rec[a] EXCEPT !.hb = TRUE, !.ttl = TRUE].gw = rec[a].gw
          /\ \A n : [rec[a] EXCEPT !.cnt = n].gw = rec[a].gw
      BY <2>2 DEF Record
    <2>5. Absent.gw = NoGateway /\ Rewritten(a)
      BY RecordStep DEF Absent
    <2> QED BY <2>2, <2>3, <2>4, <2>5 DEF Rewritten
  <1> QED BY <1>1, <1>2

LEMMA NobodyAheadKept ==
  ASSUME TypeOK, HeartbeatKnows, ahead = {}, [Next]_vars
  PROVE  ahead' = {}
  <1> USE DEF redis, keys
  <1>1. ASSUME NEW c \in Conns, HeartbeatWrite(c) PROVE ahead' = {}
    BY <1>1 DEF HeartbeatWrite, Goto, HeartbeatKnows, Renewed
  <1>2. ASSUME NEW a \in Agents, NEW g \in Gateways, WriteRecord(a, g) PROVE ahead' = {}
    BY <1>2 DEF WriteRecord, Renewed
  <1>3. ASSUME NEW a \in Agents, NEW g, EraseRecord(a, g) PROVE ahead' = {}
    BY <1>3 DEF EraseRecord
  <1>4. ASSUME NEW c \in Conns, Connect(c) \/ HandlerStep(c) \/ Disconnect(c) \/ RedisError(c)
        PROVE  ahead' = {}
    <2>1. AgentOf[c] \in Agents /\ GatewayOf[c] \in Gateways
      OBVIOUS
    <2> QED BY <1>1, <1>2, <1>3, <1>4, <2>1
            DEF Connect, Disconnect, RedisError, RegisterError, HeartbeatError, UnregisterError,
                HandlerStep, RegisterWrite, AddLocal, HeartbeatRead, ReRegister, DeleteLocal,
                UnregisterRead, UnregisterWrite
  <1>5. ASSUME NEW r \in Callers, CallStep(r) \/ RouteError(r) \/ IncrError(r) PROVE ahead' = {}
    BY <1>5 DEF CallStep, RouteError, IncrError, RouteMembers, RouteGet, RouteRemove, RouteReturn,
                IncrRead, IncrWrite, CallEnds
  <1>6. ASSUME NEW a \in Agents, Expire(a) PROVE ahead' = {}
    BY <1>6 DEF Expire
  <1>7. ASSUME NEW g \in Gateways, ExpireGatewaySet(g) \/ SweepStep(g) \/ Crash(g)
        PROVE  ahead' = {}
    <2>1. CASE SweepMember(g)
      BY <1>3, <2>1 DEF SweepMember, SweepTypeOK, TypeOK
    <2> QED BY <1>7, <2>1 DEF ExpireGatewaySet, SweepStep, SweepMembers, SweepDone, SweepError,
                              Crash
  <1>8. CASE UNCHANGED vars
    BY <1>8 DEF vars
  <1> QED BY <1>4, <1>5, <1>6, <1>7, <1>8 DEF Next

LEMMA InGatewaySetKept ==
  ASSUME TypeOK, NothingSwept, ahead = {}, InGatewaySet, [Next]_vars
  PROVE  InGatewaySet'
  <1> USE DEF TypeOK, RedisTypeOK, InGatewaySet
  <1>1. ASSUME NEW b \in Agents, NEW g \in Gateways, WriteRecord(b, g) PROVE InGatewaySet'
    BY <1>1 DEF WriteRecord, Store, Fresh
  <1>2. ASSUME NEW b \in Agents, NEW g, EraseRecord(b, g) PROVE InGatewaySet'
    BY <1>2 DEF EraseRecord, Store, Absent, Record
  <1>3. ASSUME NEW b \in Agents, Expire(b) PROVE InGatewaySet'
    BY <1>3 DEF Expire, Store, Absent
  <1>4. ASSUME NEW g \in Gateways, ExpireGatewaySet(g) PROVE InGatewaySet'
    BY <1>4 DEF ExpireGatewaySet, Store
  <1>5. ASSUME NEW g \in Gateways, SweepDone(g) PROVE FALSE
    BY <1>5 DEF SweepDone, NothingSwept
  <1>6. ASSUME NEW r \in Callers, RouteRemove(r) PROVE InGatewaySet'
    BY <1>6 DEF RouteRemove, Store
  <1>7. ASSUME gwAgents' = gwAgents, \A a \in Agents : rec'[a].gw = rec[a].gw
        PROVE  InGatewaySet'
    BY <1>7
  <1> QED BY <1>1, <1>2, <1>3, <1>4, <1>5, <1>6, <1>7, IndexStep

LEMMA InTypeSetKept ==
  ASSUME Callers = {}, TypeOK, InTypeSet, [Next]_vars
  PROVE  InTypeSet'
  <1> USE DEF TypeOK, RedisTypeOK, InTypeSet
  <1>1. ASSUME NEW b \in Agents, NEW g \in Gateways, WriteRecord(b, g) PROVE InTypeSet'
    BY <1>1 DEF WriteRecord, Store, Fresh
  <1>2. ASSUME NEW b \in Agents, NEW g, EraseRecord(b, g) PROVE InTypeSet'
    BY <1>2 DEF EraseRecord, Store, Absent
  <1>3. ASSUME NEW b \in Agents, Expire(b) PROVE InTypeSet'
    BY <1>3 DEF Expire, Store, Absent
  <1>4. ASSUME NEW g \in Gateways, ExpireGatewaySet(g) \/ SweepDone(g) PROVE InTypeSet'
    BY <1>4 DEF ExpireGatewaySet, SweepDone, Store
  <1>5. ASSUME byType' = byType, \A a \in Agents : rec'[a].gw = rec[a].gw
        PROVE  InTypeSet'
    BY <1>5
  <1> QED BY <1>1, <1>2, <1>3, <1>4, <1>5, IndexStep

\* With one handler of an agent at a time and no sweep, a registered agent is in the set of
\* its gateway, whatever routes, expires, fails or crashes: a heartbeat renews the record and
\* the set that the record is listed in, so that the set expires last.  (With overlapping
\* connections it is not so: UpdateHeartbeat renews the set of the gateway it read before.)
THEOREM GatewaySets == OneAtATime /\ Sweepers = {} => (Spec => []InGatewaySet)
  <1> SUFFICES ASSUME OneAtATime, Sweepers = {} PROVE Spec => []InGatewaySet
    OBVIOUS
  <1> DEFINE Inv == HeartbeatKnows /\ ahead = {} /\ InGatewaySet
  <1>1. Init => Inv
    BY DEF Init, InGatewaySet, HeartbeatKnows, Absent
  <1>2. TypeOK /\ ServiceInv /\ NothingSwept /\ Inv /\ [Next]_vars => Inv'
    BY HeartbeatKnowsKept, NobodyAheadKept, InGatewaySetKept DEF ServiceInv
  <1>3. (Spec => [](TypeOK /\ ServiceInv)) /\ (Spec => []NothingSwept)
    BY ServiceInvariant, NeverSwept
  <1>4. Inv => InGatewaySet
    OBVIOUS
  <1> HIDE DEF Inv
  <1> QED BY <1>1, <1>2, <1>3, <1>4, PTL DEF Spec

\* A registered agent is in the set of its type, swept or not, as long as no listing
\* removes what it did not find: ListByType's SREM comes after its HGETALL.
THEOREM TypeSets == Callers = {} => (Spec => []InTypeSet)
  <1> SUFFICES ASSUME Callers = {} PROVE Spec => []InTypeSet
    OBVIOUS
  <1>1. Init => InTypeSet
    BY DEF Init, InTypeSet, Absent
  <1>2. TypeOK /\ InTypeSet /\ [Next]_vars => InTypeSet'
    BY InTypeSetKept
  <1> QED BY <1>1, <1>2, TypeCorrect, PTL DEF Spec

\* With one handler of an agent at a time, and without routing and sweeps, the indexes are
\* complete, however registrations, heartbeats, expiries, teardowns, failures and crashes
\* interleave.
THEOREM IndexesComplete ==
  OneAtATime /\ Callers = {} /\ Sweepers = {} => (Spec => []IndexComplete)
  <1>1. InGatewaySet /\ InTypeSet => IndexComplete
    BY DEF InGatewaySet, InTypeSet, IndexComplete, Whole
  <1> QED BY <1>1, GatewaySets, TypeSets, PTL

-----------------------------------------------------------------------------
(* Partial records.  Who is between the two commands of a heartbeat or of  *)
(* a count has found a record, whole as all of them are.                   *)

\* No record goes away between the two commands of a heartbeat or of a count of its agent.
Undisturbed == \A a \in Agents : Present(rec[a]) /\ ~Present(rec'[a]) =>
    /\ \A c \in Conns : AgentOf[c] = a => pc[c] # "heartbeat"
    /\ \A r \in Callers : best[r] = a => rpc[r] # "increment"

LateWritersHaveRecord ==
    /\ \A c \in Conns : pc[c] = "heartbeat" => Whole(rec[AgentOf[c]])
    /\ \A r \in Callers : rpc[r] = "increment" /\ best[r] \in Agents => Whole(rec[best[r]])

LEMMA EveryRecordParsesKept ==
  ASSUME TypeOK, EveryRecordParses, LateWritersHaveRecord, [Next]_vars
  PROVE  EveryRecordParses'
  <1> SUFFICES ASSUME NEW a \in Agents, Present(rec'[a]) PROVE Whole(rec'[a])
    BY DEF EveryRecordParses, Present, Whole
  <1>1. rec[a] \in Record /\ (rec'[a] = rec[a] => Whole(rec'[a]))
    BY DEF TypeOK, RedisTypeOK, EveryRecordParses
  <1>2. ASSUME NEW c \in Conns, rec'[a] = Fresh(GatewayOf[c]) PROVE Whole(rec'[a])
    BY <1>1, <1>2, WriteFields
  <1>3. ASSUME NEW c \in Conns, AgentOf[c] = a, pc[c] = "heartbeat",
               rec'[a] = [rec[a] EXCEPT !.hb = TRUE, !.ttl = TRUE]
        PROVE  Whole(rec'[a])
    BY <1>1, <1>3, WriteFields DEF LateWritersHaveRecord
  <1>4. ASSUME NEW r \in Callers, NEW n \in 0..MaxCount, best[r] = a, rpc[r] = "increment",
               rec'[a] = [rec[a] EXCEPT !.cnt = n]
        PROVE  Whole(rec'[a])
    <2>1. Whole(rec[a])
      BY <1>4 DEF LateWritersHaveRecord
    <2>2. Whole([rec[a] EXCEPT !.cnt = n])
      BY <1>1, <2>1, WriteFields
    <2> QED BY <1>4, <2>2 DEF Whole
  <1>5. rec'[a] # Absent
    BY <1>1, WriteFields
  <1>6. Rewritten(a)
    BY RecordStep
  <1> QED BY <1>1, <1>2, <1>3, <1>4, <1>5, <1>6 DEF Rewritten

\* Where a request that is about to count has come from.
LEMMA CountMoves ==
  ASSUME TypeOK, [Next]_vars, NEW r \in Callers, rpc'[r] = "increment"
  PROVE  best'[r] = best[r] /\ (rpc[r] = "increment" \/ IncrRead(r))
  <1> USE DEF TypeOK, CallsTypeOK, GotoR
  <1>1. ASSUME NEW q \in Callers, CallStep(q) \/ RouteError(q) \/ IncrError(q)
        PROVE  best'[r] = best[r] /\ (rpc[r] = "increment" \/ IncrRead(r))
    BY <1>1 DEF CallStep, RouteError, IncrError, RouteMembers, RouteGet, RouteRemove, RouteReturn,
                IncrRead, IncrWrite, CallEnds
  <1>2. ASSUME NEW c \in Conns, Connect(c) \/ HandlerStep(c) \/ Disconnect(c) \/ RedisError(c)
        PROVE  UNCHANGED calls
    BY <1>2 DEF Connect, HandlerStep, RegisterWrite, AddLocal, HeartbeatRead, HeartbeatWrite,
                ReRegister, DeleteLocal, UnregisterRead, UnregisterWrite, Disconnect, RedisError,
                RegisterError, HeartbeatError, UnregisterError
  <1>3. ASSUME NEW a \in Agents, Expire(a) PROVE UNCHANGED calls
    BY <1>3 DEF Expire
  <1>4. ASSUME NEW g \in Gateways, ExpireGatewaySet(g) \/ SweepStep(g) \/ Crash(g)
        PROVE  UNCHANGED calls
    BY <1>4 DEF ExpireGatewaySet, SweepStep, SweepMembers, SweepMember, SweepDone, SweepError,
                Crash
  <1>5. CASE UNCHANGED calls
    BY <1>5 DEF calls
  <1> QED BY <1>1, <1>2, <1>3, <1>4, <1>5 DEF Next, vars

LEMMA LateWritersKept ==
  ASSUME TypeOK, EveryRecordParses, EveryRecordParses', LateWritersHaveRecord, [Next]_vars,
         [Undisturbed]_vars
  PROVE  LateWritersHaveRecord'
  <1>1. ASSUME NEW a \in Agents, Whole(rec[a]), ~Whole(rec'[a])
        PROVE  /\ \A c \in Conns : AgentOf[c] = a => pc[c] # "heartbeat"
               /\ \A r \in Callers : best[r] = a => rpc[r] # "increment"
    <2>1. Present(rec[a]) /\ ~Present(rec'[a])
      BY <1>1 DEF EveryRecordParses, Whole, Present
    <2> QED BY <1>1, <2>1 DEF Undisturbed, vars, redis, keys
  <1>2. ASSUME NEW c \in Conns, pc'[c] = "heartbeat" PROVE Whole(rec'[AgentOf[c]])
    <2>1. CASE HeartbeatRead(c)
      <3>1. Present(rec[AgentOf[c]]) /\ rec' = rec
        BY <1>2, <2>1 DEF HeartbeatRead, Goto, redis, keys, TypeOK, ConnsTypeOK
      <3> QED BY <3>1 DEF EveryRecordParses
    <2>2. CASE ~HeartbeatRead(c)
      <3>1. pc[c] = "heartbeat"
        BY <1>2, <2>2, HandlerMoves
           DEF Connect, HandlerStep, RegisterWrite, AddLocal, HeartbeatWrite, ReRegister,
               DeleteLocal, UnregisterRead, UnregisterWrite, Goto, TypeOK, ConnsTypeOK
      <3> QED BY <1>1, <3>1 DEF LateWritersHaveRecord
    <2> QED BY <2>1, <2>2
  <1>3. ASSUME NEW r \in Callers, rpc'[r] = "increment", best'[r] \in Agents
        PROVE  Whole(rec'[best'[r]])
    <2>1. best'[r] = best[r] /\ (rpc[r] = "increment" \/ IncrRead(r))
      BY <1>3, CountMoves
    <2>2. CASE IncrRead(r)
      BY <1>3, <2>1, <2>2 DEF IncrRead, EveryRecordParses, keys
    <2>3. CASE rpc[r] = "increment"
      BY <1>1, <1>3, <2>1, <2>3 DEF LateWritersHaveRecord
    <2> QED BY <2>1, <2>2, <2>3
  <1> QED BY <1>2, <1>3 DEF LateWritersHaveRecord, Whole

\* There is one way alone to a record that does not parse, with which one agent makes
\* ListByType fail for all agents of its type: a record goes away (by expiry, by a teardown,
\* by a sweep) between the two commands of a heartbeat or of IncrActiveSessions, whose write
\* then makes it up again.  Nothing else does it: no overlap of connections, crash, failing
\* command, sweep or re-registration.
THEOREM RecordsParse == Spec /\ [][Undisturbed]_vars => []EveryRecordParses
  <1> DEFINE Inv == EveryRecordParses /\ LateWritersHaveRecord
  <1>1. Init => Inv
    BY DEF Init, EveryRecordParses, LateWritersHaveRecord, Absent, Present
  <1>2. TypeOK /\ Inv /\ [Next]_vars /\ [Undisturbed]_vars => Inv'
    BY EveryRecordParsesKept, LateWritersKept
  <1>3. Inv => EveryRecordParses
    OBVIOUS
  <1> HIDE DEF Inv
  <1> QED BY <1>1, <1>2, <1>3, TypeCorrect, PTL DEF Spec
=============================================================================
