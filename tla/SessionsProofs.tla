---------------------------- MODULE SessionsProofs ----------------------------
(***************************************************************************)
(* Theorems about Sessions, for any number of agents, requests and session *)
(* IDs.                                                                    *)
(***************************************************************************)
EXTENDS Sessions, SequenceTheorems, TLAPS

-----------------------------------------------------------------------------
(* The invariant.                                                          *)

\* What agents have given out.
KnownInv == \A a \in Agents : known[a] \subseteq Raws[a]

\* A session has the type of its agent, and its ID is made of that type and a raw ID that
\* this agent has given out before.
OwnedBy(id, s) ==
    Whole(s) => /\ s.agent \in Agents
                /\ s.type = TypeOf[s.agent]
                /\ \E x \in known[s.agent] : id = ComposeSessionID(s.type, x)

\* What a request has been resolved to.
ResolvedInv(q) ==
    /\ pc[q] \in {"get", "exists", "touch"} => header[q] \in IDs
    /\ pc[q] \in {"none", "get", "route"} => raw[q] = <<>>
    /\ pc[q] \in {"exists", "touch", "send", "create"} =>
          /\ target[q] \in Agents
          /\ TypeOf[target[q]] = model[q]
          /\ raw[q] # <<>> \/ pc[q] # "send" => raw[q] \in known[target[q]]

\* DeleteByAgent looks at sessions only while it runs, for an agent it may be called for.
CleanInv(a) == a \notin cleaning => listed[a] = {} /\ found[a].id = NoID

\* A DELETE request under way has found its session.
DeleteInv == del.at # "none" => del.id \in IDs

SessionsInv ==
    /\ KnownInv
    /\ \A id \in IDs : OwnedBy(id, sess[id])
    /\ DeleteInv
    /\ \A q \in Requests : ResolvedInv(q)
    /\ \A a \in Agents : CleanInv(a)
    /\ EverySessionIsIndexed

-----------------------------------------------------------------------------
(* Session IDs.                                                            *)

\* ParseSessionID gives back the raw ID that ComposeSessionID put behind the type and the
\* colon, also when it has colons itself, for every type that has none.
THEOREM RawIDOfComposed ==
  ASSUME NEW type \in Seq(Tokens), NEW x \in Seq(Tokens),
         \A i \in 1..Len(type) : type[i] # Colon
  PROVE  RawID(ComposeSessionID(type, x)) = x
  <1> DEFINE p == type \o <<Colon>>
             id == p \o x
             n == Len(type)
             l == Len(x)
  <1>1. Colon \in Tokens
    BY SessionsAssumption
  <1>2. n \in Nat /\ l \in Nat
    BY LenProperties
  <1>3. /\ p \in Seq(Tokens) /\ Len(p) = n + 1 /\ p[n + 1] = Colon
        /\ \A i \in 1..n : p[i] = type[i]
    <2>1. p = Append(type, Colon)
      BY <1>1, AppendIsConcat
    <2> HIDE DEF p
    <2> QED BY <1>1, <2>1, AppendProperties
  <1> HIDE DEF p
  <1>4. /\ id \in Seq(Tokens) /\ Len(id) = Len(p) + l
        /\ \A i \in 1..Len(p) : id[i] = p[i]
        /\ \A i \in 1..l : id[Len(p) + i] = x[i]
    BY <1>3
  <1>5. \A j \in 1..n : type[j] # Colon
    OBVIOUS
  <1> HIDE DEF id, n, l
  <1>6. /\ Len(id) = n + 1 + l /\ n + 1 \in 1..Len(id) /\ id[n + 1] = Colon
        /\ \A j \in 1..n : id[j] # Colon
    <2>1. n + 1 \in 1..Len(p) /\ \A j \in 1..n : j \in 1..Len(p)
      BY <1>2, <1>3
    <2> QED BY <1>2, <1>3, <1>4, <1>5, <2>1
  <1>7. \A i \in 1..Len(id) : id[i] = Colon /\ (\A j \in 1..i-1 : id[j] # Colon) <=> i = n + 1
    <2>1. ASSUME NEW i \in 1..Len(id), id[i] = Colon, \A j \in 1..i-1 : id[j] # Colon
          PROVE  i = n + 1
      <3>1. ~(i <= n)
        BY <1>2, <1>6, <2>1
      <3>2. ~(n + 1 <= i - 1)
        BY <1>2, <1>6, <2>1
      <3> QED BY <1>2, <3>1, <3>2
    <2>2. \A j \in 1..(n + 1) - 1 : j \in 1..n
      BY <1>2
    <2> QED BY <1>6, <2>1, <2>2
  <1>8. (CHOOSE i \in 1..Len(id) : id[i] = Colon /\ \A j \in 1..i-1 : id[j] # Colon) = n + 1
    BY <1>6, <1>7
  <1>9. SubSeq(id, (n + 1) + 1, Len(id)) = x
    <2> DEFINE k == (n + 1) + 1
               y == SubSeq(id, k, Len(id))
    <2>1. k \in Int /\ Len(id) \in Int /\ \A i \in k..Len(id) : i \in 1..Len(id)
      BY <1>2, <1>6
    <2>2. \A i \in k..Len(id) : id[i] \in Tokens
      BY <1>4, <2>1, ElementOfSeq
    <2> HIDE DEF k
    <2>3. /\ y \in Seq(Tokens) /\ Len(y) = IF k <= Len(id) THEN Len(id) - k + 1 ELSE 0
          /\ \A i \in 1..(Len(id) - k + 1) : y[i] = id[k + i - 1]
      BY <2>1, <2>2, SubSeqProperties
    <2> HIDE DEF y
    <2>4. Len(y) = l
      BY <1>2, <1>6, <2>3 DEF k
    <2>5. ASSUME NEW i \in 1..l PROVE y[i] = x[i]
      <3>1. i \in 1..(Len(id) - k + 1) /\ k + i - 1 = Len(p) + i
        BY <1>2, <1>3, <1>6 DEF k
      <3> QED BY <1>4, <2>3, <3>1
    <2>6. y = x
      <3>1. Len(y) = Len(x) /\ \A i \in 1..Len(y) : y[i] = x[i]
        BY <2>4, <2>5 DEF l
      <3> QED BY <2>3, <3>1, SeqEqual
    <2> QED BY <2>6 DEF y, k
  <1> QED BY <1>8, <1>9 DEF RawID, ComposeSessionID, id, p

\* An agent's raw ID, with the agent's type before it, is a session ID and can be parsed.
LEMMA IDOfAgent ==
  ASSUME NEW a \in Agents, NEW x \in Raws[a]
  PROVE  /\ ComposeSessionID(TypeOf[a], x) \in IDs
         /\ RawID(ComposeSessionID(TypeOf[a], x)) = x
         /\ x \in AllRaws
  <1>1. TypeOf[a] \in Seq(Tokens) /\ x \in Seq(Tokens)
    BY SessionsAssumption
  <1>2. \A i \in 1..Len(TypeOf[a]) : TypeOf[a][i] # Colon
    BY SessionsAssumption
  <1>3. RawID(ComposeSessionID(TypeOf[a], x)) = x
    BY <1>1, <1>2, RawIDOfComposed
  <1> QED BY <1>3 DEF IDs, AllRaws

-----------------------------------------------------------------------------
(* The hashes in Redis.                                                    *)

LEMMA SessionTypes ==
  /\ Absent \in Session /\ ~Whole(Absent)
  /\ \A a \in Agents : Fresh(a, TypeOf[a]) \in Session /\ Whole(Fresh(a, TypeOf[a]))
  /\ \A s \in Session : /\ Touched(s) \in Session
                        /\ Touched(s).agent = s.agent /\ Touched(s).type = s.type
                        /\ [s EXCEPT !.idle = TRUE] \in Session
  BY SessionsAssumption DEF Session, Absent, Fresh, Touched, Whole

\* Only a new session changes which agent a session is with, or makes one whole.
LEMMA HashesKept ==
  ASSUME TypeOK, [Next]_vars, \A q \in Requests : ~CreateWithID(q)
  PROVE  /\ sess' \in [IDs -> Session]
         /\ \A id \in IDs : \/ ~Whole(sess'[id])
                            \/ sess'[id].agent = sess[id].agent /\ sess'[id].type = sess[id].type
  <1> USE DEF TypeOK
  <1>1. CASE sess' = sess
    BY <1>1
  <1>2. ASSUME NEW q \in Requests, TouchWrite(q)
        PROVE  /\ sess' \in [IDs -> Session]
               /\ \A id \in IDs : sess'[id].agent = sess[id].agent /\ sess'[id].type = sess[id].type
    BY <1>2, SessionTypes DEF TouchWrite
  <1>3. ASSUME NEW i, sess' = [sess EXCEPT ![i] = Absent]
        PROVE  /\ sess' \in [IDs -> Session]
               /\ \A id \in IDs : sess'[id] = sess[id] \/ ~Whole(sess'[id])
    BY <1>3, SessionTypes
  <1>4. ASSUME NEW i \in IDs, Age(i)
        PROVE  /\ sess' \in [IDs -> Session]
               /\ \A id \in IDs : sess'[id].agent = sess[id].agent /\ sess'[id].type = sess[id].type
    <2> DEFINE s == [sess[i] EXCEPT !.idle = TRUE]
    <2>1. sess[i] \in Session
      OBVIOUS
    <2>2. s \in Session /\ s.agent = sess[i].agent /\ s.type = sess[i].type
      BY <2>1 DEF Session
    <2>3. sess' = [sess EXCEPT ![i] = s]
      BY <1>4 DEF Age
    <2> HIDE DEF s
    <2> QED BY <2>2, <2>3
  <1>5. CASE \E q \in Requests : RequestStep(q)
    BY <1>1, <1>2, <1>5 DEF RequestStep, Ask, Get, TouchExists, Route, RedisError, Reply
  <1>6. CASE DeleteStep
    BY <1>1, <1>3, <1>6 DEF DeleteStep, DeleteCheck, DeleteGet, DeleteWrite, DeleteError, Remove
  <1>7. CASE \E a \in Agents : CleanStep(a) \/ LeaveOrReturn(a)
    BY <1>1, <1>3, <1>7 DEF CleanStep, CleanMembers, CleanExists, CleanRemove, CleanReturn, Remove,
                            LeaveOrReturn
  <1>8. CASE \E id \in IDs : Expire(id)
    BY <1>3, <1>8 DEF Expire
  <1>9. CASE UNCHANGED vars
    BY <1>1, <1>9 DEF vars
  <1> QED BY <1>4, <1>5, <1>6, <1>7, <1>8, <1>9 DEF Next

\* What an agent has given out stays given out, and agents give out nothing but their own.
LEMMA KnownGrows ==
  ASSUME TypeOK, SessionsInv, [Next]_vars
  PROVE  /\ known' \in [Agents -> SUBSET AllRaws]
         /\ KnownInv'
         /\ \A a \in Agents : known[a] \subseteq known'[a]
  <1> USE DEF TypeOK, KnownInv
  <1>0. KnownInv
    BY DEF SessionsInv
  <1>1. ASSUME NEW q \in Requests, Reply(q), NEW x \in Raws[target[q]],
               known' = [known EXCEPT ![target[q]] = @ \cup {x}]
        PROVE  /\ known' \in [Agents -> SUBSET AllRaws]
               /\ KnownInv'
               /\ \A a \in Agents : known[a] \subseteq known'[a]
    <2>1. target[q] \in Agents
      BY <1>1 DEF Reply, SessionsInv, ResolvedInv
    <2>2. x \in AllRaws
      BY <1>1, <2>1 DEF AllRaws
    <2> QED BY <1>0, <1>1, <2>1, <2>2
  <1>2. CASE known' = known
    BY <1>0, <1>2
  <1>3. \A q \in Requests : Reply(q) =>
          \/ \E x \in Raws[target[q]] : known' = [known EXCEPT ![target[q]] = @ \cup {x}]
          \/ known' = known
    BY DEF Reply
  <1> QED BY <1>1, <1>2, <1>3 DEF Next, RequestStep, Ask, Get, TouchExists, TouchWrite, Route,
             RedisError, CreateWithID, DeleteStep, DeleteCheck, DeleteGet, DeleteWrite,
             DeleteError, CleanStep, CleanMembers, CleanExists, CleanRemove, CleanReturn,
             LeaveOrReturn, Age, Expire, agents, vars

\* A new session belongs to the agent that has given out its ID.
LEMMA HashCreated ==
  ASSUME TypeOK, SessionsInv, NEW q \in Requests, CreateWithID(q)
  PROVE  LET id == ComposeSessionID(model[q], raw[q]) IN
         /\ id \in IDs /\ target[q] \in Agents
         /\ sess' = [sess EXCEPT ![id] = Fresh(target[q], TypeOf[target[q]])]
         /\ sess' \in [IDs -> Session]
         /\ OwnedBy(id, Fresh(target[q], TypeOf[target[q]]))
         /\ index' = [index EXCEPT ![target[q]] = @ \cup {id}]
  <1> DEFINE a == target[q]
             id == ComposeSessionID(model[q], raw[q])
  <1>1. /\ a \in Agents /\ TypeOf[a] = model[q]
        /\ raw[q] \in known[a] /\ raw[q] \in Raws[a]
    BY DEF SessionsInv, KnownInv, ResolvedInv, CreateWithID
  <1>2. id \in IDs
    BY <1>1, IDOfAgent
  <1>3. /\ sess' = [sess EXCEPT ![id] = Fresh(a, TypeOf[a])]
        /\ index' = [index EXCEPT ![a] = @ \cup {id}]
    BY <1>1 DEF CreateWithID
  <1>4. sess' \in [IDs -> Session]
    BY <1>1, <1>2, <1>3, SessionTypes DEF TypeOK
  <1>5. OwnedBy(id, Fresh(a, TypeOf[a]))
    BY <1>1 DEF OwnedBy, Fresh
  <1> QED BY <1>1, <1>2, <1>3, <1>4, <1>5

-----------------------------------------------------------------------------
(* Types, one lemma for each part.                                         *)

LEMMA RequestsType ==
  ASSUME TypeOK, SessionsInv, NEW q \in Requests, RequestStep(q)
  PROVE  RequestTypeOK'
  <1> USE DEF TypeOK, RequestTypeOK, Goto
  <1>1. CASE Ask(q)
    BY <1>1 DEF Ask
  <1>2. CASE Get(q)
    <2>1. CASE Goto(q, "get", "route") /\ UNCHANGED <<target, raw>>
      BY <1>2, <2>1 DEF Get
    <2>2. CASE Whole(sess[header[q]])
      <3> DEFINE s == sess[header[q]]
      <3>1. header[q] \in IDs /\ OwnedBy(header[q], s)
        BY <1>2 DEF Get, SessionsInv, ResolvedInv
      <3>2. PICK x \in Raws[s.agent] : header[q] = ComposeSessionID(TypeOf[s.agent], x)
        BY <2>2, <3>1 DEF OwnedBy, SessionsInv, KnownInv
      <3>3. s.agent \in Agents /\ RawID(header[q]) \in AllRaws
        BY <2>2, <3>1, <3>2, IDOfAgent DEF OwnedBy
      <3> QED BY <1>2, <2>2, <3>3 DEF Get
    <2> QED BY <1>2, <2>1, <2>2 DEF Get
  <1>3. CASE TouchExists(q) \/ TouchWrite(q)
    BY <1>3 DEF TouchExists, TouchWrite
  <1>4. CASE Route(q)
    BY <1>4 DEF Route, Return
  <1>5. CASE RedisError(q)
    BY <1>5 DEF RedisError, Return
  <1>6. CASE Reply(q)
    <2>1. ASSUME NEW x \in Raws[target[q]] PROVE x \in AllRaws
      BY <1>6 DEF Reply, SessionsInv, ResolvedInv, AllRaws
    <2> QED BY <1>6, <2>1 DEF Reply, Return
  <1>7. CASE CreateWithID(q)
    BY <1>7 DEF CreateWithID, Return
  <1> QED BY <1>1, <1>2, <1>3, <1>4, <1>5, <1>6, <1>7 DEF RequestStep

LEMMA HashesType ==
  ASSUME TypeOK, SessionsInv, [Next]_vars
  PROVE  sess' \in [IDs -> Session]
  BY HashesKept, HashCreated

LEMMA IndexType ==
  ASSUME TypeOK, SessionsInv, [Next]_vars
  PROVE  index' \in [Agents -> SUBSET IDs]
  <1> USE DEF TypeOK
  <1>1. CASE index' = index
    BY <1>1
  <1>2. ASSUME NEW a, NEW id, index' = [index EXCEPT ![a] = @ \ {id}]
        PROVE  index' \in [Agents -> SUBSET IDs]
    BY <1>2
  <1>3. ASSUME NEW q \in Requests, CreateWithID(q) PROVE index' \in [Agents -> SUBSET IDs]
    BY <1>3, HashCreated
  <1> QED BY <1>1, <1>2, <1>3 DEF Next, RequestStep, Ask, Get, TouchExists, TouchWrite, Route,
             RedisError, Reply, DeleteStep, DeleteCheck, DeleteGet, DeleteWrite, DeleteError,
             Remove, CleanStep, CleanMembers, CleanExists, CleanRemove, CleanReturn,
             LeaveOrReturn, Age, Expire, vars

LEMMA DeleteType ==
  ASSUME TypeOK, DeleteInv, DeleteStep
  PROVE  /\ UNCHANGED <<agents, requests, cleanup>>
         /\ del' \in [at : {"none", "get", "write"}, id : {NoID} \cup IDs,
                      agent : {NoAgent} \cup Agents]
         /\ DeleteInv'
  <1> USE DEF TypeOK, DeleteInv
  <1>0. NoDelete \in [at : {"none", "get", "write"}, id : {NoID} \cup IDs,
                      agent : {NoAgent} \cup Agents]
    BY DEF NoDelete
  <1>1. CASE DeleteCheck
    BY <1>0, <1>1 DEF DeleteCheck, NoDelete
  <1>2. CASE DeleteGet
    <2>1. sess[del.id] \in Session
      BY <1>2 DEF DeleteGet
    <2>2. Whole(sess[del.id]) => sess[del.id].agent \in Agents
      BY <2>1 DEF Session, Whole
    <2> QED BY <1>0, <1>2, <2>2 DEF DeleteGet, NoDelete
  <1>3. CASE DeleteWrite \/ DeleteError
    BY <1>0, <1>3 DEF DeleteWrite, DeleteError, NoDelete
  <1> QED BY <1>1, <1>2, <1>3 DEF DeleteStep

LEMMA CleanType ==
  ASSUME TypeOK, NEW a \in Agents, CleanStep(a)
  PROVE  /\ UNCHANGED <<agents, requests, del>>
         /\ cleaning' \subseteq Cleaned
         /\ listed' \in [Agents -> SUBSET IDs]
         /\ found' \in [Agents -> [id : {NoID} \cup IDs, exists : BOOLEAN]]
  <1> USE DEF TypeOK
  <1>0. NotFound \in [id : {NoID} \cup IDs, exists : BOOLEAN]
    BY DEF NotFound
  <1>1. CASE CleanMembers(a)
    BY <1>1 DEF CleanMembers
  <1>2. CASE CleanExists(a)
    <2>1. ASSUME NEW id \in listed[a]
          PROVE  [id |-> id, exists |-> sess[id].exists] \in [id : {NoID} \cup IDs, exists : BOOLEAN]
      <3>1. sess[id] \in Session
        OBVIOUS
      <3> QED BY <3>1 DEF Session
    <2> QED BY <1>2, <2>1 DEF CleanExists
  <1>3. CASE CleanRemove(a)
    BY <1>0, <1>3 DEF CleanRemove
  <1>4. CASE CleanReturn(a)
    BY <1>0, <1>4 DEF CleanReturn
  <1> QED BY <1>1, <1>2, <1>3, <1>4 DEF CleanStep

LEMMA TypeNext ==
  ASSUME TypeOK, SessionsInv, [Next]_vars
  PROVE  TypeOK'
  <1> USE DEF TypeOK
  <1>0. /\ sess' \in [IDs -> Session] /\ index' \in [Agents -> SUBSET IDs]
        /\ known' \in [Agents -> SUBSET AllRaws]
    BY HashesType, IndexType, KnownGrows
  <1>1. ASSUME NEW q \in Requests, RequestStep(q) PROVE TypeOK'
    <2>1. UNCHANGED <<online, del, cleaning, listed, found>>
      BY <1>1 DEF RequestStep, Ask, Get, TouchExists, TouchWrite, Route, RedisError, Reply,
                  CreateWithID, agents, cleanup
    <2> QED BY <1>0, <1>1, <2>1, RequestsType
  <1>2. CASE DeleteStep
    BY <1>0, <1>2, DeleteType DEF RequestTypeOK, SessionsInv, agents, requests, cleanup
  <1>3. ASSUME NEW a \in Agents, CleanStep(a) PROVE TypeOK'
    BY <1>0, <1>3, CleanType DEF RequestTypeOK, agents, requests
  <1>4. ASSUME NEW a \in Agents, LeaveOrReturn(a) PROVE TypeOK'
    BY <1>0, <1>4 DEF LeaveOrReturn, RequestTypeOK, requests, cleanup
  <1>5. ASSUME NEW id \in IDs, Age(id) \/ Expire(id) PROVE TypeOK'
    BY <1>0, <1>5 DEF Age, Expire, RequestTypeOK, agents, requests, cleanup
  <1>6. CASE UNCHANGED vars
    BY <1>6 DEF vars, RequestTypeOK, agents, requests, cleanup
  <1> QED BY <1>1, <1>2, <1>3, <1>4, <1>5, <1>6 DEF Next

-----------------------------------------------------------------------------
(* The parts of the invariant.                                             *)

LEMMA OwnedNext ==
  ASSUME TypeOK, SessionsInv, [Next]_vars
  PROVE  \A id \in IDs : OwnedBy(id, sess[id])'
  <1>0. /\ \A id \in IDs : OwnedBy(id, sess[id])
        /\ \A a \in Agents : known[a] \subseteq known'[a]
    BY KnownGrows DEF SessionsInv
  <1>1. ASSUME NEW id \in IDs, OwnedBy(id, sess'[id]) PROVE OwnedBy(id, sess[id])'
    BY <1>0, <1>1 DEF OwnedBy, Whole
  <1>2. ASSUME NEW q \in Requests, CreateWithID(q), NEW id \in IDs PROVE OwnedBy(id, sess'[id])
    <2>1. ASSUME NEW i, i = ComposeSessionID(model[q], raw[q])
          PROVE  OwnedBy(id, sess'[id])
      <3>1. CASE id = i
        BY <1>2, <2>1, <3>1, HashCreated DEF TypeOK
      <3>2. CASE id # i
        BY <1>0, <1>2, <2>1, <3>2, HashCreated DEF TypeOK
      <3> QED BY <3>1, <3>2
    <2> QED BY <2>1
  <1>3. ASSUME \A q \in Requests : ~CreateWithID(q), NEW id \in IDs PROVE OwnedBy(id, sess'[id])
    BY <1>0, <1>3, HashesKept DEF OwnedBy, Whole
  <1> QED BY <1>1, <1>2, <1>3

LEMMA ResolvedNext ==
  ASSUME TypeOK, SessionsInv, [Next]_vars
  PROVE  \A q \in Requests : ResolvedInv(q)'
  <1>0. /\ \A q \in Requests : ResolvedInv(q)
        /\ \A a \in Agents : known[a] \subseteq known'[a]
    BY KnownGrows DEF SessionsInv
  <1>1. CASE UNCHANGED requests
    BY <1>0, <1>1 DEF requests, ResolvedInv
  <1>2. ASSUME NEW q \in Requests, RequestStep(q), NEW p \in Requests, p # q
        PROVE  ResolvedInv(p)'
    <2>1. /\ pc'[p] = pc[p] /\ model'[p] = model[p] /\ header'[p] = header[p]
          /\ target'[p] = target[p] /\ raw'[p] = raw[p]
      BY <1>2 DEF TypeOK, RequestTypeOK, RequestStep, Ask, Get, TouchExists, TouchWrite, Route,
                  RedisError, Reply, CreateWithID, Return, Goto
    <2> QED BY <1>0, <2>1 DEF ResolvedInv
  <1>3. ASSUME NEW q \in Requests, RequestStep(q) PROVE ResolvedInv(q)'
    <2> USE DEF TypeOK, RequestTypeOK, Goto, agents
    <2>0. ResolvedInv(q)
      BY <1>0
    <2>1. CASE Ask(q)
      BY <2>0, <2>1 DEF Ask, ResolvedInv
    <2>2. CASE Get(q)
      <3> DEFINE s == sess[header[q]]
      <3>1. CASE Whole(s) /\ s.type = model[q]
        <4>1. header[q] \in IDs /\ OwnedBy(header[q], s)
          BY <2>0, <2>2 DEF Get, SessionsInv, ResolvedInv
        <4>2. PICK x \in known[s.agent] : header[q] = ComposeSessionID(TypeOf[s.agent], x)
          BY <3>1, <4>1 DEF OwnedBy
        <4>5. s.agent \in Agents /\ x \in Raws[s.agent]
          BY <3>1, <4>1, <4>2 DEF OwnedBy, SessionsInv, KnownInv
        <4>3. /\ s.agent \in Agents /\ TypeOf[s.agent] = model[q]
              /\ RawID(header[q]) \in known[s.agent]
          BY <4>5, <3>1, <4>1, <4>2, IDOfAgent DEF OwnedBy
        <4>4. /\ pc'[q] = "exists" /\ target'[q] = s.agent /\ raw'[q] = RawID(header[q])
              /\ model' = model /\ header' = header /\ known' = known
          BY <2>2, <3>1 DEF Get, agents
        <4> QED BY <4>1, <4>3, <4>4 DEF ResolvedInv
      <3>2. CASE ~(Whole(s) /\ s.type = model[q])
        BY <2>0, <2>2, <3>2 DEF Get, ResolvedInv
      <3> QED BY <3>1, <3>2
    <2>3. CASE TouchExists(q) \/ TouchWrite(q)
      BY <2>0, <2>3 DEF TouchExists, TouchWrite, ResolvedInv
    <2>4. CASE Route(q)
      BY <2>0, <2>4 DEF Route, Return, ResolvedInv
    <2>5. CASE RedisError(q)
      BY <2>0, <2>5 DEF RedisError, Return, ResolvedInv
    <2>6. CASE Reply(q)
      BY <2>0, <2>6 DEF Reply, Return, ResolvedInv
    <2>7. CASE CreateWithID(q)
      BY <2>0, <2>7 DEF CreateWithID, Return, ResolvedInv
    <2> QED BY <1>3, <2>1, <2>2, <2>3, <2>4, <2>5, <2>6, <2>7 DEF RequestStep
  <1>4. CASE \E q \in Requests : RequestStep(q)
    BY <1>2, <1>3, <1>4
  <1>5. CASE DeleteStep
    BY <1>1, <1>5, DeleteType DEF SessionsInv
  <1>6. CASE \E a \in Agents : CleanStep(a) \/ LeaveOrReturn(a)
    BY <1>1, <1>6, CleanType DEF LeaveOrReturn
  <1>7. CASE (\E id \in IDs : Age(id) \/ Expire(id)) \/ UNCHANGED vars
    BY <1>1, <1>7 DEF Age, Expire, vars
  <1> QED BY <1>4, <1>5, <1>6, <1>7 DEF Next

LEMMA CleanNext ==
  ASSUME TypeOK, SessionsInv, [Next]_vars
  PROVE  \A a \in Agents : CleanInv(a)'
  <1>0. \A a \in Agents : CleanInv(a)
    BY DEF SessionsInv
  <1>1. CASE UNCHANGED cleanup
    BY <1>0, <1>1 DEF cleanup, CleanInv
  <1>2. ASSUME NEW a \in Agents, CleanStep(a), NEW b \in Agents PROVE CleanInv(b)'
    <2> USE DEF TypeOK, CleanInv, NotFound
    <2>1. CASE CleanMembers(a)
      BY <1>0, <1>2, <2>1 DEF CleanMembers
    <2>2. CASE CleanExists(a)
      BY <1>0, <1>2, <2>2 DEF CleanExists
    <2>3. CASE CleanRemove(a)
      BY <1>0, <1>2, <2>3 DEF CleanRemove
    <2>4. CASE CleanReturn(a)
      BY <1>0, <1>2, <2>4 DEF CleanReturn
    <2> QED BY <1>2, <2>1, <2>2, <2>3, <2>4 DEF CleanStep
  <1>3. CASE \E q \in Requests : RequestStep(q)
    BY <1>1, <1>3 DEF RequestStep, Ask, Get, TouchExists, TouchWrite, Route, RedisError, Reply,
                      CreateWithID
  <1>4. CASE DeleteStep \/ (\E a \in Agents : LeaveOrReturn(a)) \/ UNCHANGED vars
    BY <1>1, <1>4, DeleteType DEF SessionsInv, LeaveOrReturn, vars
  <1>5. CASE \E id \in IDs : Age(id) \/ Expire(id)
    BY <1>1, <1>5 DEF Age, Expire
  <1> QED BY <1>2, <1>3, <1>4, <1>5 DEF Next

LEMMA IndexedNext ==
  ASSUME TypeOK, SessionsInv, [Next]_vars
  PROVE  EverySessionIsIndexed'
  <1>0. /\ EverySessionIsIndexed
        /\ \A a \in Agents : a \notin Cleaned => found[a].id = NoID
    BY DEF SessionsInv, CleanInv, TypeOK
  <1>1. ASSUME NEW q \in Requests, CreateWithID(q), NEW i, i = ComposeSessionID(model[q], raw[q])
        PROVE  EverySessionIsIndexed'
    <2>1. /\ i \in IDs /\ target[q] \in Agents
          /\ sess' = [sess EXCEPT ![i] = Fresh(target[q], TypeOf[target[q]])]
          /\ index' = [index EXCEPT ![target[q]] = @ \cup {i}]
      BY <1>1, HashCreated
    <2>2. \A a \in Agents : index[a] \subseteq index'[a]
      BY <2>1 DEF TypeOK
    <2>3. ASSUME NEW id \in IDs, Whole(sess'[id]), sess'[id].agent \notin Cleaned
          PROVE  id \in index'[sess'[id].agent]
      <3>1. CASE id = i
        BY <2>1, <3>1 DEF TypeOK, Fresh
      <3>2. CASE id # i
        <4>1. sess'[id] = sess[id] /\ sess[id].agent \in Agents
          BY <2>1, <2>3, <3>2 DEF TypeOK, Session, Whole
        <4> QED BY <1>0, <2>2, <2>3, <4>1 DEF EverySessionIsIndexed
      <3> QED BY <3>1, <3>2
    <2> QED BY <2>3 DEF EverySessionIsIndexed
  <1>2. ASSUME \A q \in Requests : ~CreateWithID(q),
               \A id \in IDs, a \in Agents :
                  id \in index[a] /\ a \notin Cleaned => id \in index'[a] \/ ~Whole(sess'[id])
        PROVE  EverySessionIsIndexed'
    <2>1. ASSUME NEW id \in IDs, Whole(sess'[id]), sess'[id].agent \notin Cleaned
          PROVE  id \in index'[sess'[id].agent]
      <3>1. sess'[id].agent = sess[id].agent /\ sess'[id] \in Session
        BY <1>2, <2>1, HashesKept
      <3>2. sess[id].agent \in Agents /\ Whole(sess[id])
        BY <2>1, <3>1 DEF Session, Whole
      <3> QED BY <1>0, <1>2, <2>1, <3>1, <3>2 DEF EverySessionIsIndexed
    <2> QED BY <2>1 DEF EverySessionIsIndexed
  <1>3. ASSUME index' = index, \A q \in Requests : ~CreateWithID(q) PROVE EverySessionIsIndexed'
    BY <1>2, <1>3
  <1>4. ASSUME NEW i, NEW b, Remove(i, b), \A q \in Requests : ~CreateWithID(q)
        PROVE  EverySessionIsIndexed'
    <2>1. \A id \in IDs, a \in Agents : id \in index[a] => id \in index'[a] \/ ~Whole(sess'[id])
      BY <1>4, SessionTypes DEF Remove, TypeOK
    <2> QED BY <1>2, <1>4, <2>1
  <1>5. ASSUME NEW a \in Agents, CleanRemove(a), \A q \in Requests : ~CreateWithID(q)
        PROVE  EverySessionIsIndexed'
    <2>1. a \in Cleaned
      BY <1>0, <1>5 DEF CleanRemove
    <2>2. \A id \in IDs, b \in Agents : id \in index[b] /\ b \notin Cleaned => id \in index'[b]
      BY <1>5, <2>1 DEF CleanRemove, Remove, TypeOK
    <2> QED BY <1>2, <1>5, <2>2
  <1>6. CASE \E q \in Requests : CreateWithID(q)
    BY <1>1, <1>6
  <1>7. CASE \A q \in Requests : ~CreateWithID(q)
    BY <1>3, <1>4, <1>5, <1>7 DEF Next, RequestStep, Ask, Get, TouchExists, TouchWrite, Route,
         RedisError, Reply, DeleteStep, DeleteCheck, DeleteGet, DeleteWrite, DeleteError,
         CleanStep, CleanMembers, CleanExists, CleanReturn, LeaveOrReturn, Age, Expire, vars
  <1> QED BY <1>6, <1>7

-----------------------------------------------------------------------------
LEMMA InitInv == Init => TypeOK /\ SessionsInv
  <1> SUFFICES ASSUME Init PROVE TypeOK /\ SessionsInv
    OBVIOUS
  <1>1. sess \in [IDs -> Session] /\ \A id \in IDs : ~Whole(sess[id])
    BY SessionTypes DEF Init
  <1>2. TypeOK
    BY <1>1 DEF Init, TypeOK, RequestTypeOK, NoDelete, NotFound
  <1>6. KnownInv
    BY DEF Init, KnownInv
  <1>3. \A q \in Requests : ResolvedInv(q)
    BY DEF Init, ResolvedInv
  <1>4. \A a \in Agents : CleanInv(a)
    BY DEF Init, CleanInv, NotFound
  <1>5. EverySessionIsIndexed /\ DeleteInv /\ \A id \in IDs : OwnedBy(id, sess[id])
    BY <1>1 DEF Init, EverySessionIsIndexed, DeleteInv, NoDelete, OwnedBy
  <1> QED BY <1>2, <1>3, <1>4, <1>5, <1>6 DEF SessionsInv

\* Sessions belong to the agent that gave out their ID and are in its set, and requests
\* are resolved accordingly, in every state.
THEOREM Invariant == Spec => [](TypeOK /\ SessionsInv)
  <1>1. TypeOK /\ SessionsInv /\ [Next]_vars => (TypeOK /\ SessionsInv)'
    <2> SUFFICES ASSUME TypeOK, SessionsInv, [Next]_vars PROVE TypeOK' /\ SessionsInv'
      OBVIOUS
    <2>1. (\A id \in IDs : OwnedBy(id, sess[id]))' /\ KnownInv'
      BY OwnedNext, KnownGrows
    <2>2. DeleteInv'
      <3>1. CASE DeleteStep
        BY <3>1, DeleteType DEF SessionsInv
      <3>2. CASE UNCHANGED del
        BY <3>2 DEF SessionsInv, DeleteInv
      <3> QED BY <3>1, <3>2 DEF Next, RequestStep, Ask, Get, TouchExists, TouchWrite, Route,
                 RedisError, Reply, CreateWithID, CleanStep, CleanMembers, CleanExists,
                 CleanRemove, CleanReturn, LeaveOrReturn, Age, Expire, vars
    <2> QED BY <2>1, <2>2, TypeNext, ResolvedNext, CleanNext, IndexedNext DEF SessionsInv
  <1> QED BY InitInv, <1>1, PTL DEF Spec

\* The variables have their types in every state.
THEOREM TypeCorrect == Spec => []TypeOK
  BY Invariant, PTL

\* An agent is only sent requests of its own type, and with session IDs that it gave out
\* itself before: for every raw ID, with colons or without, also one that several agents
\* give out, and whatever is deleted, expires or is created between the steps of a request.
THEOREM AgentsKnowSessions == Spec => []AgentKnowsSession
  <1>1. SessionsInv => AgentKnowsSession
    BY DEF SessionsInv, ResolvedInv, AgentKnowsSession
  <1> QED BY <1>1, Invariant, PTL

\* DeleteByAgent would find every session of an agent that it has not been called for yet:
\* DELETE, expiry and new sessions keep its set complete.
THEOREM SessionsAreIndexed == Spec => []EverySessionIsIndexed
  <1>1. SessionsInv => EverySessionIsIndexed
    BY DEF SessionsInv
  <1> QED BY <1>1, Invariant, PTL

\* Nothing but a reply of an agent makes a session of what is none: neither a late Touch
\* nor a DELETE or DeleteByAgent that is under way.
THEOREM RevivedByReplies == Spec => OnlyReplyRevives
  <1>1. TypeOK /\ [Next]_vars =>
          [\A id \in IDs : ~Whole(sess[id]) /\ Whole(sess'[id]) =>
              \E q \in Requests : CreateWithID(q)]_vars
    BY HashesKept DEF Whole
  <1> QED BY <1>1, TypeCorrect, PTL DEF Spec, OnlyReplyRevives
=============================================================================
