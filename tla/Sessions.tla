------------------------------- MODULE Sessions -------------------------------
(***************************************************************************)
(* Sessions: internal/session/manager.go, the parts of                     *)
(* internal/handler/chat.go that use it (resolveAgent, ensureSession), and *)
(* the DELETE handler, internal/handler/session.go.                        *)
(*                                                                         *)
(* A session is a hash in Redis named <agent type>:<raw ID>, where the raw *)
(* ID is the agent's own.  Each Redis command, or MULTI, is an action.     *)
(* Types and raw IDs are sequences of tokens, one of which is the colon.   *)
(***************************************************************************)
EXTENDS Naturals, Sequences

CONSTANTS
    Agents,
    Tokens,    \* what types and raw IDs are made of
    TypeOf,    \* the type of an agent
    Raws,      \* the raw session IDs that an agent gives out
    Models,    \* what requests ask for
    Requests,  \* chat requests under way at a time
    Cleaned,   \* agents that DeleteByAgent may be called for
    NoAgent, NoID

Colon == ":"

\* Types have no colon.
ASSUME SessionsAssumption ==
    /\ Cleaned \subseteq Agents
    /\ NoAgent \notin Agents
    /\ Colon \in Tokens
    /\ NoID \notin Seq(Tokens)
    /\ TypeOf \in [Agents -> Seq(Tokens)]
    /\ Raws \in [Agents -> SUBSET Seq(Tokens)]
    /\ \A a \in Agents : \A i \in 1..Len(TypeOf[a]) : TypeOf[a][i] # Colon

VARIABLES
    sess,     \* hashes session:<id>
    index,    \* sets agent_sessions:<agent>
    online,   \* agents that requests can be sent to
    known,    \* the raw session IDs that each agent has given out so far
    pc,       \* where each request stands
    model,    \* the agent type it asks for
    header,   \* its X-Session-Id
    target,   \* the agent resolved for it
    raw,      \* the raw session ID, of the request and then of the reply
    del,      \* a DELETE request
    cleaning, \* agents whose DeleteByAgent is under way
    listed,   \* the sessions it has still to look at
    found     \* the one it has found to exist, or not to

requests == <<pc, model, header, target, raw>>
cleanup  == <<cleaning, listed, found>>
agents   == <<online, known>>
vars     == <<sess, index, agents, requests, del, cleanup>>

-----------------------------------------------------------------------------
ComposeSessionID(type, id) == type \o <<Colon>> \o id

\* Mutant of RawID: the agent is given the session ID of the client.
RawIDTyped(id) == id

\* ParseSessionID: what follows the first colon.
RawID(id) ==
    LET i == CHOOSE i \in 1..Len(id) :
                id[i] = Colon /\ \A j \in 1..i-1 : id[j] # Colon
    IN SubSeq(id, i + 1, Len(id))

IDs == UNION {{ComposeSessionID(TypeOf[a], x) : x \in Raws[a]} : a \in Agents}

AllRaws == UNION {Raws[a] : a \in Agents}

\* A hash; idle: most of its TTL has gone by.
Session == [agent : Agents \cup {NoAgent}, type : {<<>>} \cup {TypeOf[a] : a \in Agents},
            exists : BOOLEAN, ttl : BOOLEAN, idle : BOOLEAN]

Absent == [agent |-> NoAgent, type |-> <<>>, exists |-> FALSE, ttl |-> FALSE, idle |-> FALSE]

\* A hash that Get can parse: CreateWithID wrote it.
Whole(s) == s.agent # NoAgent

Fresh(a, type) == [agent |-> a, type |-> type, exists |-> TRUE, ttl |-> TRUE, idle |-> FALSE]

\* Mutant of Touched: HSET without EXPIRE.
TouchedOnly(s) == [s EXCEPT !.exists = TRUE]

\* HSET last_active_at and EXPIRE; on a key that is gone they leave a hash of one field.
Touched(s) == [s EXCEPT !.exists = TRUE, !.ttl = TRUE, !.idle = FALSE]

Goto(q, from, to) == pc[q] = from /\ pc' = [pc EXCEPT ![q] = to]

\* The handler returns, and another request takes its place.
Return(q) ==
    /\ pc' = [pc EXCEPT ![q] = "none"]
    /\ model' = [model EXCEPT ![q] = <<>>]
    /\ header' = [header EXCEPT ![q] = NoID]
    /\ target' = [target EXCEPT ![q] = NoAgent]
    /\ raw' = [raw EXCEPT ![q] = <<>>]

-----------------------------------------------------------------------------
(* A chat request: resolveAgent, the exchange with the agent, ensureSession. *)

\* Any model, and any session ID that was ever given out, or none.
Ask(q) == \E m \in Models, id \in IDs \cup {NoID} :
    /\ Goto(q, "none", IF id = NoID THEN "route" ELSE "get")
    /\ model' = [model EXCEPT ![q] = m]
    /\ header' = [header EXCEPT ![q] = id]
    /\ UNCHANGED <<sess, index, agents, target, raw, del, cleanup>>

\* Mutant of Get: any agent of the type will do, as for a request without a session.
GetAnyAgent(q) ==
    LET s == sess[header[q]] IN
    /\ pc[q] = "get"
    /\ IF Whole(s) /\ s.type = model[q]
         THEN /\ Goto(q, "get", "exists")
              /\ \E a \in Agents : TypeOf[a] = model[q] /\ target' = [target EXCEPT ![q] = a]
              /\ raw' = [raw EXCEPT ![q] = RawID(header[q])]
         ELSE Goto(q, "get", "route") /\ UNCHANGED <<target, raw>>
    /\ UNCHANGED <<sess, index, agents, model, header, del, cleanup>>

\* HGETALL; a session that is gone, does not parse, or is of another type is ignored.
Get(q) ==
    LET s == sess[header[q]] IN
    /\ pc[q] = "get"
    /\ IF Whole(s) /\ s.type = model[q]
         THEN /\ Goto(q, "get", "exists")
              /\ target' = [target EXCEPT ![q] = s.agent]
              /\ raw' = [raw EXCEPT ![q] = RawID(header[q])]
         ELSE Goto(q, "get", "route") /\ UNCHANGED <<target, raw>>
    /\ UNCHANGED <<sess, index, agents, model, header, del, cleanup>>

\* Touch: EXISTS, and then HSET last_active_at and EXPIRE whatever became of the key.
TouchExists(q) ==
    /\ Goto(q, "exists", IF sess[header[q]].exists THEN "touch" ELSE "send")
    /\ UNCHANGED <<sess, index, agents, model, header, target, raw, del, cleanup>>

\* Mutant of TouchWrite: it writes back all of what Get has read.
TouchWriteAll(q) ==
    /\ Goto(q, "touch", "send")
    /\ sess' = [sess EXCEPT ![header[q]] = Fresh(target[q], model[q])]
    /\ UNCHANGED <<index, agents, model, header, target, raw, del, cleanup>>

TouchWrite(q) ==
    /\ Goto(q, "touch", "send")
    /\ sess' = [sess EXCEPT ![header[q]] = Touched(@)]
    /\ UNCHANGED <<index, agents, model, header, target, raw, del, cleanup>>

\* Without a session: some agent of the type (AgentRegistry), or 503.
Route(q) ==
    /\ \/ \E a \in online :
            /\ TypeOf[a] = model[q]
            /\ Goto(q, "route", "send")
            /\ target' = [target EXCEPT ![q] = a]
            /\ UNCHANGED <<model, header, raw>>
       \/ pc[q] = "route" /\ Return(q)
    /\ UNCHANGED <<sess, index, agents, del, cleanup>>

\* A Redis command fails: of Get, of Touch, which is not checked, or of CreateWithID.
\* (A MULTI that has run although its answer was lost is TouchWrite or CreateWithID.)
RedisError(q) ==
    /\ \/ /\ \/ Goto(q, "get", "route")
             \/ Goto(q, "exists", "send")
             \/ Goto(q, "touch", "send")
          /\ UNCHANGED <<model, header, target, raw>>
       \/ pc[q] = "create" /\ Return(q)
    /\ UNCHANGED <<sess, index, agents, del, cleanup>>

\* The agent replies, with the session ID of the request, with one of its own or with
\* none; a session other than the one in the header is stored.  Or there is no reply.
Reply(q) ==
    /\ pc[q] = "send"
    /\ \/ /\ target[q] \in online
          /\ \E id \in Raws[target[q]] :
                /\ ComposeSessionID(model[q], id) # header[q]
                /\ Goto(q, "send", "create")
                /\ raw' = [raw EXCEPT ![q] = id]
                /\ known' = [known EXCEPT ![target[q]] = @ \cup {id}]
          /\ UNCHANGED <<model, header, target>>
       \/ Return(q) /\ UNCHANGED known
    /\ UNCHANGED <<sess, index, online, del, cleanup>>

\* Mutant of CreateWithID: SADD is left out.
CreateUnindexed(q) ==
    LET id == ComposeSessionID(model[q], raw[q]) IN
    /\ pc[q] = "create" /\ Return(q)
    /\ sess' = [sess EXCEPT ![id] = Fresh(target[q], model[q])]
    /\ UNCHANGED <<index, agents, del, cleanup>>

\* MULTI of HSET, EXPIRE and SADD, over what the key may hold.
CreateWithID(q) ==
    LET id == ComposeSessionID(model[q], raw[q]) IN
    /\ pc[q] = "create" /\ Return(q)
    /\ sess' = [sess EXCEPT ![id] = Fresh(target[q], model[q])]
    /\ index' = [index EXCEPT ![target[q]] = @ \cup {id}]
    /\ UNCHANGED <<agents, del, cleanup>>

-----------------------------------------------------------------------------
(* DELETE: the handler's Get, Delete's Get, and its MULTI.                 *)

NoDelete == [at |-> "none", id |-> NoID, agent |-> NoAgent]

DeleteCheck == \E id \in IDs :
    /\ del.at = "none"
    /\ Whole(sess[id])
    /\ del' = [NoDelete EXCEPT !.at = "get", !.id = id]
    /\ UNCHANGED <<sess, index, agents, requests, cleanup>>

DeleteGet ==
    /\ del.at = "get"
    /\ del' = IF Whole(sess[del.id])
                THEN [del EXCEPT !.at = "write", !.agent = sess[del.id].agent]
                ELSE NoDelete
    /\ UNCHANGED <<sess, index, agents, requests, cleanup>>

\* DEL and SREM.
Remove(id, a) ==
    /\ sess' = [sess EXCEPT ![id] = Absent]
    /\ index' = [index EXCEPT ![a] = @ \ {id}]

DeleteWrite ==
    /\ del.at = "write"
    /\ Remove(del.id, del.agent)
    /\ del' = NoDelete
    /\ UNCHANGED <<agents, requests, cleanup>>

\* A command fails and the DELETE with it.
DeleteError ==
    /\ del.at # "none"
    /\ del' = NoDelete
    /\ UNCHANGED <<sess, index, agents, requests, cleanup>>

-----------------------------------------------------------------------------
(* DeleteByAgent: SMEMBERS, and for each member EXISTS and then SREM or a   *)
(* MULTI.  Nothing in src/ calls it but a test.                             *)

CleanMembers(a) ==
    /\ a \in Cleaned \ cleaning
    /\ cleaning' = cleaning \cup {a}
    /\ listed' = [listed EXCEPT ![a] = index[a]]
    /\ UNCHANGED <<sess, index, agents, requests, del, found>>

CleanExists(a) == \E id \in listed[a] :
    /\ found[a].id = NoID
    /\ listed' = [listed EXCEPT ![a] = @ \ {id}]
    /\ found' = [found EXCEPT ![a] = [id |-> id, exists |-> sess[id].exists]]
    /\ UNCHANGED <<sess, index, agents, requests, del, cleaning>>

NotFound == [id |-> NoID, exists |-> FALSE]

CleanRemove(a) ==
    LET id == found[a].id IN
    /\ id # NoID
    /\ IF found[a].exists THEN Remove(id, a)
         ELSE index' = [index EXCEPT ![a] = @ \ {id}] /\ UNCHANGED sess
    /\ found' = [found EXCEPT ![a] = NotFound]
    /\ UNCHANGED <<agents, requests, del, cleaning, listed>>

\* It has looked at every member, or a command has failed.
CleanReturn(a) ==
    /\ a \in cleaning
    /\ cleaning' = cleaning \ {a}
    /\ listed' = [listed EXCEPT ![a] = {}]
    /\ found' = [found EXCEPT ![a] = NotFound]
    /\ UNCHANGED <<sess, index, agents, requests, del>>

-----------------------------------------------------------------------------
(* Time, and the agents.                                                   *)

Age(id) ==
    /\ sess[id].ttl /\ ~sess[id].idle
    /\ sess' = [sess EXCEPT ![id].idle = TRUE]
    /\ UNCHANGED <<index, agents, requests, del, cleanup>>

Expire(id) ==
    /\ sess[id].ttl /\ sess[id].idle
    /\ sess' = [sess EXCEPT ![id] = Absent]
    /\ UNCHANGED <<index, agents, requests, del, cleanup>>

\* An agent disconnects or connects: no session is touched.
LeaveOrReturn(a) ==
    /\ online' = IF a \in online THEN online \ {a} ELSE online \cup {a}
    /\ UNCHANGED <<sess, index, known, requests, del, cleanup>>

-----------------------------------------------------------------------------
Init ==
    /\ sess = [id \in IDs |-> Absent]
    /\ index = [a \in Agents |-> {}]
    /\ online = Agents
    /\ known = [a \in Agents |-> {}]
    /\ pc = [q \in Requests |-> "none"]
    /\ model = [q \in Requests |-> <<>>]
    /\ header = [q \in Requests |-> NoID]
    /\ target = [q \in Requests |-> NoAgent]
    /\ raw = [q \in Requests |-> <<>>]
    /\ del = NoDelete
    /\ cleaning = {}
    /\ listed = [a \in Agents |-> {}]
    /\ found = [a \in Agents |-> NotFound]

RequestStep(q) ==
    \/ Ask(q) \/ Get(q) \/ TouchExists(q) \/ TouchWrite(q) \/ Route(q)
    \/ RedisError(q) \/ Reply(q) \/ CreateWithID(q)

DeleteStep == DeleteCheck \/ DeleteGet \/ DeleteWrite \/ DeleteError

CleanStep(a) == CleanMembers(a) \/ CleanExists(a) \/ CleanRemove(a) \/ CleanReturn(a)

Next ==
    \/ \E q \in Requests : RequestStep(q)
    \/ DeleteStep
    \/ \E a \in Agents : CleanStep(a) \/ LeaveOrReturn(a)
    \/ \E id \in IDs : Age(id) \/ Expire(id)

Spec == Init /\ [][Next]_vars

(* Redis drops a key that nobody refreshes; nothing is assumed of clients. *)
FairSpec == Spec /\ \A id \in IDs : WF_vars(Age(id)) /\ WF_vars(Expire(id))

-----------------------------------------------------------------------------
RequestTypeOK ==
    /\ pc \in [Requests -> {"none", "get", "exists", "touch", "route", "send", "create"}]
    /\ model \in [Requests -> {<<>>} \cup Models]
    /\ header \in [Requests -> {NoID} \cup IDs]
    /\ target \in [Requests -> {NoAgent} \cup Agents]
    /\ raw \in [Requests -> {<<>>} \cup AllRaws]

\* The types of the variables.
TypeOK ==
    /\ RequestTypeOK
    /\ sess \in [IDs -> Session]
    /\ index \in [Agents -> SUBSET IDs]
    /\ online \subseteq Agents
    /\ known \in [Agents -> SUBSET AllRaws]
    /\ del \in [at : {"none", "get", "write"}, id : {NoID} \cup IDs, agent : {NoAgent} \cup Agents]
    /\ cleaning \subseteq Cleaned
    /\ listed \in [Agents -> SUBSET IDs]
    /\ found \in [Agents -> [id : {NoID} \cup IDs, exists : BOOLEAN]]

\* A request is sent to an agent of the type that it asks for, and the session ID it
\* carries is one that this very agent has given out before, letter for letter, whatever
\* the client put into its header, whatever was deleted, expired or created meanwhile,
\* and although another agent may have taken the session over.
AgentKnowsSession == \A q \in Requests :
    pc[q] = "send" =>
        /\ TypeOf[target[q]] = model[q]
        /\ raw[q] # <<>> => raw[q] \in known[target[q]]

\* DeleteByAgent would find every session of an agent, as long as it has not run for
\* that agent yet: DELETE, expiry and new sessions keep the set of the agent complete.
EverySessionIsIndexed == \A id \in IDs :
    Whole(sess[id]) /\ sess[id].agent \notin Cleaned => id \in index[sess[id].agent]

\* A session that was deleted or has expired is not brought back by a request that was
\* under way: what a late Touch leaves cannot be routed by.
OnlyReplyRevives ==
    [][\A id \in IDs : ~Whole(sess[id]) /\ Whole(sess'[id]) =>
          \E q \in Requests : CreateWithID(q)]_vars

Renewing(id) == \E q \in Requests :
    \/ header[q] = id /\ pc[q] \in {"exists", "touch"}
    \/ pc[q] = "create" /\ ComposeSessionID(model[q], raw[q]) = id

\* A session that no request renews expires, also one that a late Touch has left.
UnusedSessionExpires == \A id \in IDs :
    sess[id].exists ~> (~sess[id].exists \/ Renewing(id))

\* When an agent has left, its sessions are released.
SessionsFollowAgent == \A a \in Agents :
    a \notin online ~> (a \in online \/ \A id \in IDs : sess[id].agent # a)
=============================================================================
