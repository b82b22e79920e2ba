---------------------------- MODULE DispatchProofs ----------------------------
(***************************************************************************)
(* Theorems about Dispatch, for any number of requests, agents and         *)
(* reconnections, any length of replies and any capacity of the channels.  *)
(***************************************************************************)
EXTENDS Dispatch, ReplyLemmas

USE DispatchAssumption

-----------------------------------------------------------------------------
(* Where messages are, those of a reply that a broken stream has cut into  *)
(* included.                                                               *)

\* Messages of the reply that the response handler has passed on.
Delivered(r) == Len(got[r]) + Len(respCh[r])

\* The receive loop has a message of the reply in its hands.
InHand(r) == loop[To[r]] = "delivering" /\ held[To[r]].req = r

\* Messages that have left the stream and were not dropped.
Passed(r) == IF InHand(r) THEN Delivered(r) + 1 ELSE Delivered(r)

HeldInv(a) ==
    loop[a] = "delivering" =>
        /\ held[a] \in Messages
        /\ To[held[a].req] = a
        /\ Delivered(held[a].req) < held[a].no
        /\ held[a].no <= sent[held[a].req]

\* Each message on the stream is later than all that have passed, and than those of its
\* reply that are before it on the stream.
StreamInv(a) == \A i \in 1..Len(inbound[a]) :
    /\ To[inbound[a][i].req] = a
    /\ Passed(inbound[a][i].req) < inbound[a][i].no
    /\ inbound[a][i].no <= sent[inbound[a][i].req]
    /\ \A j \in 1..(i-1) :
          inbound[a][j].req = inbound[a][i].req => inbound[a][j].no < inbound[a][i].no

CountInv(r) == Passed(r) <= sent[r]

PlaceInv ==
    /\ \A a \in Agents : HeldInv(a) /\ StreamInv(a)
    /\ \A r \in Requests : CountInv(r)

-----------------------------------------------------------------------------
(* A request reaches its agent once, and has a response handler until its  *)
(* HTTP handler ends.                                                      *)

Unsent == {"idle", "forwarded", "local", "registered", "sending"}

Ended == {"answered", "failed"}

QueueInv(a) == \A i \in 1..Len(queue[a]) :
    /\ To[queue[a][i]] = a
    /\ h[queue[a][i]] \notin Unsent
    /\ sent[queue[a][i]] = 0 /\ queue[a][i] \notin working
    /\ \A j \in 1..(i-1) : queue[a][j] # queue[a][i]

RequestInv(r) ==
    /\ h[r] \in Unsent => sent[r] = 0 /\ r \notin working
    /\ h[r] \in {"registered", "sending", "waiting"} => r \in handlers

-----------------------------------------------------------------------------
(* While the HTTP handler of a request waits and no broken stream has lost *)
(* a message of its reply, none is missing between those it was given and  *)
(* the last one that the agent will have sent.                             *)

ReplyInv(r) ==
    r \notin lost =>
        /\ InOrder(r, got[r], 0)
        /\ h[r] = "answered" => Len(got[r]) = ReplyLen
        /\ h[r] \notin Ended =>
              /\ Len(got[r]) < ReplyLen
              /\ InOrder(r, respCh[r], Len(got[r]))
              /\ InHand(r) => held[To[r]].no = Delivered(r) + 1

\* The messages from the f-th to the n-th of the reply to r are among the first k of s.
Among(r, s, f, n, k) == \A x \in f..n : \E j \in 1..k : s[j] = Message(r, x)

\* Those that are next for the HTTP handler are among the first k on the stream.
Coming(r, n, k) == Among(r, inbound[To[r]], Passed(r) + 1, n, k)

NoGap(r) ==
    h[r] \notin Ended /\ r \notin lost =>
        /\ \A i \in 1..Len(inbound[To[r]]) :
              inbound[To[r]][i].req = r => Coming(r, inbound[To[r]][i].no, i)
        /\ r \in working => Coming(r, sent[r], Len(inbound[To[r]]))

WholeInv ==
    /\ \A a \in Agents : QueueInv(a)
    /\ \A r \in Requests : RequestInv(r) /\ ReplyInv(r) /\ NoGap(r)

-----------------------------------------------------------------------------
(* Where messages are: the proof.                                          *)

LEMMA Counts ==
  ASSUME TypeOK, NEW r \in Requests
  PROVE  /\ Len(got[r]) \in Nat /\ Len(respCh[r]) \in Nat /\ sent[r] \in Nat
         /\ Delivered(r) \in Nat /\ Passed(r) \in Nat
         /\ Passed(r) = Delivered(r) + IF InHand(r) THEN 1 ELSE 0
  <1>1. Len(got[r]) \in Nat /\ Len(respCh[r]) \in Nat /\ sent[r] \in Nat
    BY LenProperties DEF TypeOK
  <1>2. Delivered(r) \in Nat
    <2> DEFINE g == Len(got[r])
               c == Len(respCh[r])
    <2>1. Delivered(r) = g + c /\ g \in Nat /\ c \in Nat
      BY <1>1 DEF Delivered
    <2> HIDE DEF g, c
    <2> QED BY <2>1
  <1> QED BY <1>1, <1>2 DEF Passed

\* Every message on a stream is a message, of a request.
LEMMA StreamMessage ==
  ASSUME TypeOK, NEW a \in Agents, NEW i \in 1..Len(inbound[a])
  PROVE  /\ inbound[a][i] \in Messages /\ inbound[a][i].req \in Requests
         /\ inbound[a][i].no \in 1..ReplyLen
  <1>1. inbound[a] \in Seq(Messages)
    BY DEF TypeOK
  <1>2. inbound[a][i] \in Messages
    BY <1>1, ElementOfSeq
  <1> QED BY <1>2 DEF Messages

LEMMA OnStreamRequests ==
  ASSUME TypeOK, NEW a \in Agents
  PROVE  OnStream(a) \subseteq Requests
  BY StreamMessage DEF OnStream

LEMMA InitPlace == Init => TypeOK /\ PlaceInv
  <1> SUFFICES ASSUME Init PROVE TypeOK /\ PlaceInv
    OBVIOUS
  <1>1. /\ <<>> \in Seq(Messages) /\ <<>> \in Seq(Requests)
        /\ Len(<<>>) = 0
    BY EmptySeq
  <1>2. TypeOK
    <2>1. /\ \A r \in Requests : Len(respCh[r]) <= RespCap
          /\ \A a \in Agents : Len(queue[a]) <= ReqCap
      BY <1>1 DEF Init
    <2>2. /\ respCh \in [Requests -> Seq(Messages)] /\ got \in [Requests -> Seq(Messages)]
          /\ queue \in [Agents -> Seq(Requests)] /\ inbound \in [Agents -> Seq(Messages)]
      BY <1>1 DEF Init
    <2>3. sent \in [Requests -> 0..ReplyLen] /\ reconnects \in [Agents -> 0..MaxReconnects]
      BY DEF Init
    <2> QED BY <2>1, <2>2, <2>3 DEF Init, TypeOK
  <1>3. ASSUME NEW r \in Requests PROVE CountInv(r)
    <2>1. ~InHand(r)
      BY DEF Init, InHand, DispatchAssumption
    <2>2. Delivered(r) = 0
      BY <1>1 DEF Init, Delivered
    <2> QED BY <2>1, <2>2 DEF Init, CountInv, Passed
  <1>4. ASSUME NEW a \in Agents PROVE HeldInv(a) /\ StreamInv(a)
    BY <1>1 DEF Init, HeldInv, StreamInv
  <1> QED BY <1>2, <1>3, <1>4 DEF PlaceInv

LEMMA TypeNext ==
  ASSUME TypeOK, PlaceInv, [Next]_vars
  PROVE  TypeOK'
  <1> USE DEF TypeOK, http, conn, stream, agent, Step
  <1>1. ASSUME NEW r \in Requests, Start(r) PROVE TypeOK'
    BY <1>1 DEF Start
  <1>2. ASSUME NEW r \in Requests, RegisterResponseHandler(r) PROVE TypeOK'
    BY <1>2 DEF RegisterResponseHandler
  <1>14. ASSUME NEW r \in Requests, SendRequest(r) PROVE TypeOK'
    BY <1>14 DEF SendRequest
  <1>3. ASSUME NEW r \in Requests, Enqueue(r) PROVE TypeOK'
    <2> DEFINE q == queue[To[r]]
    <2>1. q \in Seq(Requests) /\ To[r] \in Agents
      OBVIOUS
    <2>2. /\ Append(q, r) \in Seq(Requests) /\ Len(q) \in Nat
          /\ Len(q) < ReqCap => Len(Append(q, r)) <= ReqCap
      <3> HIDE DEF q
      <3> QED BY <2>1, AppendProperties, LenProperties
    <2>3. queue' \in [Agents -> Seq(Requests)] /\ \A b \in Agents : Len(queue'[b]) <= ReqCap
      <3>1. CASE queue' = queue
        BY <3>1
      <3>2. CASE queue' = [queue EXCEPT ![To[r]] = Append(q, r)] /\ Len(q) < ReqCap
        BY <2>1, <2>2, <3>2
      <3> QED BY <1>3, <3>1, <3>2 DEF Enqueue
    <2>4. h' \in [Requests -> {"idle", "forwarded", "local", "registered", "sending",
                              "waiting", "answered", "failed"}]
      BY <1>3 DEF Enqueue
    <2> QED BY <1>3, <2>3, <2>4 DEF Enqueue
  <1>4. ASSUME NEW r \in Requests, Collect(r) PROVE TypeOK'
    <2>1. /\ Head(respCh[r]) \in Messages /\ Tail(respCh[r]) \in Seq(Messages)
          /\ Len(Tail(respCh[r])) <= RespCap
      BY <1>4, HeadTailProperties DEF Collect
    <2>2. Append(got[r], Head(respCh[r])) \in Seq(Messages)
      BY <2>1, AppendProperties
    <2> QED BY <1>4, <2>1, <2>2 DEF Collect
  <1>5. ASSUME NEW r \in Requests, GiveUp(r) \/ UnregisterResponseHandler(r) PROVE TypeOK'
    BY <1>5 DEF GiveUp, UnregisterResponseHandler
  <1>6. ASSUME NEW r \in Requests, AgentSends(r) PROVE TypeOK'
    <2>1. sent[r] + 1 \in 1..ReplyLen /\ To[r] \in Agents
      BY <1>6 DEF AgentSends
    <2>2. Message(r, sent[r] + 1) \in Messages
      BY <2>1 DEF Message, Messages
    <2>3. Append(inbound[To[r]], Message(r, sent[r] + 1)) \in Seq(Messages)
      BY <2>1, <2>2, AppendProperties
    <2>4. inbound' \in [Agents -> Seq(Messages)] /\ lost' \subseteq Requests
      <3>1. inbound \in [Agents -> Seq(Messages)] /\ lost \subseteq Requests
        OBVIOUS
      <3>2. \/ /\ inbound' = [inbound EXCEPT ![To[r]] = Append(@, Message(r, sent[r] + 1))]
               /\ lost' = lost
            \/ inbound' = inbound /\ lost' = lost \cup {r}
        BY <1>6 DEF AgentSends
      <3> QED BY <2>1, <2>3, <3>1, <3>2
    <2>5. sent' \in [Requests -> 0..ReplyLen]
      BY <1>6, <2>1 DEF AgentSends
    <2> QED BY <1>6, <2>4, <2>5 DEF AgentSends
  <1>7. ASSUME NEW a \in Agents, Receive(a) PROVE TypeOK'
    <2>1. Head(inbound[a]) \in Messages /\ Tail(inbound[a]) \in Seq(Messages)
      BY <1>7, HeadTailProperties DEF Receive
    <2> QED BY <1>7, <2>1 DEF Receive
  <1>8. ASSUME NEW a \in Agents, Deliver(a) PROVE TypeOK'
    <2> DEFINE r == held[a].req
               c == respCh[r]
    <2>1. held[a] \in Messages
      BY <1>8 DEF Deliver, PlaceInv, HeldInv
    <2>2. r \in Requests /\ c \in Seq(Messages)
      BY <2>1 DEF Messages
    <2>3. Append(c, held[a]) \in Seq(Messages) /\ (Len(c) < RespCap => Len(Append(c, held[a])) <= RespCap)
      <3> HIDE DEF c
      <3> QED BY <2>1, <2>2, AppendProperties, LenProperties
    <2> QED BY <1>8, <2>2, <2>3 DEF Deliver
  <1>9. ASSUME NEW a \in Agents, EndReceive(a) \/ DeleteLocal(a) PROVE TypeOK'
    <2>1. <<>> \in Seq(Messages)
      BY EmptySeq
    <2>2. OnStream(a) \subseteq Requests
      BY OnStreamRequests
    <2> QED BY <1>9, <2>1, <2>2 DEF EndReceive, DeleteLocal
  <1>10. ASSUME NEW a \in Agents, SendLoop(a) PROVE TypeOK'
    <2> DEFINE q == queue[a]
    <2>1. q \in Seq(Requests) /\ q # <<>> /\ Len(q) <= ReqCap
      BY <1>10 DEF SendLoop
    <2>2. Head(q) \in Requests /\ Tail(q) \in Seq(Requests) /\ Len(Tail(q)) <= ReqCap
      <3> HIDE DEF q
      <3> QED BY <2>1, HeadTailProperties, LenProperties
    <2> QED BY <1>10, <2>2 DEF SendLoop
  <1>11. ASSUME NEW a \in Agents, SendLoopDone(a) \/ LinkDown(a) PROVE TypeOK'
    BY <1>11 DEF SendLoopDone, LinkDown
  <1>12. ASSUME NEW a \in Agents, Reconnect(a) PROVE TypeOK'
    <2>1. <<>> \in Seq(Requests) /\ Len(<<>>) = 0
      BY EmptySeq
    <2>2. reconnects' \in [Agents -> 0..MaxReconnects] /\ stale' \subseteq Requests
      BY <1>12 DEF Reconnect
    <2>3. queue' \in [Agents -> Seq(Requests)] /\ \A b \in Agents : Len(queue'[b]) <= ReqCap
      BY <1>12, <2>1 DEF Reconnect
    <2> QED BY <1>12, <2>2, <2>3 DEF Reconnect
  <1>13. CASE UNCHANGED vars
    BY <1>13 DEF vars
  <1> QED BY <1>1, <1>2, <1>3, <1>4, <1>5, <1>6, <1>7, <1>8, <1>9, <1>10, <1>11, <1>12, <1>13, <1>14
             DEF Next, HandlerStep, ConnectStep

-----------------------------------------------------------------------------
\* As long as the counts stay and nothing is put on a stream.
LEMMA PlaceKept ==
  ASSUME TypeOK, PlaceInv, inbound' = inbound, sent' = sent,
         \A r \in Requests : Passed(r)' = Passed(r),
         \A a \in Agents : HeldInv(a)'
  PROVE  PlaceInv'
  <1>1. ASSUME NEW r \in Requests PROVE CountInv(r)'
    BY DEF PlaceInv, CountInv
  <1>2. ASSUME NEW a \in Agents PROVE StreamInv(a)'
    <2>1. StreamInv(a)
      BY DEF PlaceInv
    <2>2. ASSUME NEW i \in 1..Len(inbound[a]) PROVE inbound[a][i].req \in Requests
      BY StreamMessage
    <2> QED BY <2>1, <2>2 DEF StreamInv
  <1> QED BY <1>1, <1>2 DEF PlaceInv

LEMMA PlaceFrame ==
  ASSUME TypeOK, PlaceInv, UNCHANGED <<got, respCh, loop, held, inbound, sent>>
  PROVE  PlaceInv'
  <1>1. \A r : Passed(r)' = Passed(r) /\ Delivered(r)' = Delivered(r)
    BY DEF Passed, Delivered, InHand
  <1>2. \A a \in Agents : HeldInv(a)'
    BY <1>1 DEF PlaceInv, HeldInv
  <1> QED BY <1>1, <1>2, PlaceKept

LEMMA LoopPlace ==
  ASSUME TypeOK, PlaceInv, NEW a \in Agents, DeleteLocal(a) \/ Reconnect(a)
  PROVE  PlaceInv'
  <1>1. \A b \in Agents : loop'[b] = "delivering" <=> loop[b] = "delivering"
    BY DEF TypeOK, DeleteLocal, Reconnect
  <1>2. UNCHANGED <<got, respCh, held, inbound, sent>>
    BY DEF DeleteLocal, Reconnect, http, stream, agent
  <1>3. \A r \in Requests : Passed(r)' = Passed(r) /\ Delivered(r)' = Delivered(r)
    BY <1>1, <1>2 DEF TypeOK, Passed, Delivered, InHand
  <1>4. ASSUME NEW b \in Agents PROVE HeldInv(b)'
    BY <1>1, <1>2, <1>3 DEF PlaceInv, HeldInv, Messages
  <1> QED BY <1>2, <1>3, <1>4, PlaceKept

\* The message is with the client now.
LEMMA CollectCount ==
  ASSUME TypeOK, NEW r \in Requests, Collect(r)
  PROVE  \A q \in Requests : Delivered(q)' = Delivered(q)
  <1> DEFINE g == got[r]
             c == respCh[r]
             m == Head(c)
  <1>1. /\ g \in Seq(Messages) /\ c \in Seq(Messages) /\ c # <<>>
        /\ got'[r] = Append(g, m) /\ respCh'[r] = Tail(c)
    BY DEF TypeOK, Collect
  <1>2. \A q \in Requests : q # r => got'[q] = got[q] /\ respCh'[q] = respCh[q]
    BY DEF TypeOK, Collect
  <1>3. Delivered(r)' = Len(Append(g, m)) + Len(Tail(c)) /\ Delivered(r) = Len(g) + Len(c)
    BY <1>1 DEF Delivered
  <1> HIDE DEF g, c, m
  <1>4. m \in Messages
    BY <1>1, HeadTailProperties DEF m
  <1>5. /\ Len(Append(g, m)) = Len(g) + 1 /\ Len(Tail(c)) = Len(c) - 1
        /\ Len(g) \in Nat /\ Len(c) \in Nat
    BY <1>1, <1>4, AppendProperties, HeadTailProperties, LenProperties
  <1>6. Len(Append(g, m)) + Len(Tail(c)) = Len(g) + Len(c)
    <2> DEFINE x == Len(Append(g, m))
               y == Len(Tail(c))
               u == Len(g)
               v == Len(c)
    <2>1. x = u + 1 /\ y = v - 1 /\ u \in Nat /\ v \in Nat
      BY <1>5
    <2> HIDE DEF x, y, u, v
    <2>2. x + y = u + v
      BY <2>1
    <2> QED BY <2>2 DEF x, y, u, v
  <1>7. Delivered(r)' = Delivered(r)
    BY <1>3, <1>6
  <1> QED BY <1>2, <1>7 DEF Delivered

LEMMA CollectPlace ==
  ASSUME TypeOK, PlaceInv, NEW r \in Requests, Collect(r)
  PROVE  PlaceInv'
  <1>1. UNCHANGED <<inbound, sent, loop, held>>
    BY DEF Collect, conn, stream, agent
  <1>2. \A q \in Requests : Delivered(q)' = Delivered(q)
    BY CollectCount
  <1>3. \A q \in Requests : Passed(q)' = Passed(q)
    BY <1>1, <1>2 DEF Passed, InHand
  <1>4. ASSUME NEW a \in Agents PROVE HeldInv(a)'
    BY <1>1, <1>2 DEF PlaceInv, HeldInv, Messages
  <1> QED BY <1>1, <1>3, <1>4, PlaceKept

\* The response handler puts the message in hand into respCh.
LEMMA DeliverCount ==
  ASSUME TypeOK, PlaceInv, NEW a \in Agents, Deliver(a), NEW r, r = held[a].req
  PROVE  /\ r \in Requests /\ To[r] = a /\ InHand(r)
         /\ Delivered(r)' = Delivered(r) + 1
         /\ \A q \in Requests \ {r} : Delivered(q)' = Delivered(q)
         /\ \A q \in Requests : To[q] = a => ~InHand(q)'
         /\ \A q \in Requests : To[q] # a => (InHand(q)' <=> InHand(q))
         /\ \A q \in Requests : Passed(q)' = Passed(q)
  <1> DEFINE c == respCh[r]
             m == held[a]
  <1>1. m \in Messages /\ To[r] = a
    BY DEF Deliver, PlaceInv, HeldInv
  <1>2. r \in Requests
    BY <1>1 DEF Messages
  <1>3. /\ c \in Seq(Messages) /\ respCh'[r] = Append(c, m) /\ got' = got
        /\ \A q \in Requests \ {r} : respCh'[q] = respCh[q]
    BY <1>2 DEF TypeOK, Deliver, http
  <1>4. /\ \A q \in Requests : To[q] = a => ~InHand(q)'
        /\ \A q \in Requests : To[q] # a => (InHand(q)' <=> InHand(q))
        /\ InHand(r)
        /\ \A q \in Requests \ {r} : ~(To[q] = a /\ InHand(q))
    BY <1>1, <1>2 DEF TypeOK, Deliver, InHand
  <1>5. \A q \in Requests \ {r} : Delivered(q)' = Delivered(q)
    BY <1>3 DEF Delivered
  <1>6. Delivered(r)' = Delivered(r) + 1
    <2> DEFINE g == got[r]
    <2>1. /\ Delivered(r)' = Len(g) + Len(Append(c, m)) /\ Delivered(r) = Len(g) + Len(c)
          /\ g \in Seq(Messages)
      BY <1>2, <1>3 DEF Delivered, TypeOK
    <2> HIDE DEF g, c, m
    <2>2. Len(Append(c, m)) = Len(c) + 1 /\ Len(g) \in Nat /\ Len(c) \in Nat
      BY <1>1, <1>3, <2>1, AppendProperties, LenProperties
    <2>3. Len(g) + Len(Append(c, m)) = (Len(g) + Len(c)) + 1
      BY <2>2
    <2> QED BY <2>1, <2>3
  <1>7. ASSUME NEW q \in Requests PROVE Passed(q)' = Passed(q)
    <2>1. CASE q = r
      BY <1>1, <1>2, <1>4, <1>6, <2>1 DEF Passed
    <2>2. CASE q # r /\ To[q] = a
      BY <1>4, <1>5, <2>2 DEF Passed
    <2>3. CASE To[q] # a
      BY <1>1, <1>4, <1>5, <2>3 DEF Passed
    <2> QED BY <2>1, <2>2, <2>3
  <1> QED BY <1>1, <1>2, <1>4, <1>5, <1>6, <1>7

LEMMA DeliverPlace ==
  ASSUME TypeOK, PlaceInv, NEW a \in Agents, Deliver(a)
  PROVE  PlaceInv'
  <1>1. UNCHANGED <<inbound, sent>> /\ loop'[a] # "delivering"
    BY DEF Deliver, stream, agent, TypeOK
  <1>2. ASSUME NEW b \in Agents PROVE HeldInv(b)'
    <2>1. CASE b = a
      BY <1>1, <2>1 DEF HeldInv
    <2>2. CASE b # a
      <3>1. loop'[b] = loop[b] /\ held'[b] = held[b]
        BY <2>2 DEF Deliver, TypeOK
      <3>2. HeldInv(b)
        BY DEF PlaceInv
      <3>3. ASSUME NEW q \in Requests, To[q] = b PROVE Delivered(q)' = Delivered(q)
        BY <2>2, <3>3, DeliverCount
      <3> QED BY <1>1, <3>1, <3>2, <3>3 DEF HeldInv, Messages
    <2> QED BY <2>1, <2>2
  <1> QED BY <1>1, <1>2, DeliverCount, PlaceKept

\* recvLoop takes a message: when it has a response handler, it is in hand.
LEMMA ReceiveCount ==
  ASSUME TypeOK, NEW a \in Agents, Receive(a), NEW m, m = Head(inbound[a])
  PROVE  /\ \A q \in Requests : Delivered(q)' = Delivered(q)
         /\ \A q \in Requests : To[q] = a => ~InHand(q)
         /\ \A q \in Requests : To[q] # a => (InHand(q)' <=> InHand(q))
         /\ \A q \in Requests : To[q] = a => (InHand(q)' <=> m.req \in handlers /\ q = m.req)
  <1>1. \A q \in Requests : Delivered(q)' = Delivered(q)
    BY DEF Receive, Delivered, http
  <1>2. \A q \in Requests : To[q] = a => ~InHand(q)
    BY DEF Receive, InHand
  <1>3. \A q \in Requests : To[q] # a => (InHand(q)' <=> InHand(q))
    BY DEF Receive, InHand, TypeOK
  <1>4. \A q \in Requests : To[q] = a => (InHand(q)' <=> m.req \in handlers /\ q = m.req)
    BY DEF Receive, InHand, TypeOK
  <1> QED BY <1>1, <1>2, <1>3, <1>4

\* The first message on a stream, and the rest.
LEMMA FirstOnStream ==
  ASSUME TypeOK, PlaceInv, NEW a \in Agents, inbound[a] # <<>>, NEW m, m = Head(inbound[a]),
         NEW s, s = inbound[a]
  PROVE  /\ m \in Messages /\ m.req \in Requests /\ m.no \in 1..ReplyLen
         /\ To[m.req] = a /\ Passed(m.req) < m.no /\ m.no <= sent[m.req]
         /\ s \in Seq(Messages) /\ Len(s) \in Nat \ {0} /\ m = s[1]
         /\ Len(Tail(s)) = Len(s) - 1
         /\ \A i \in 1..Len(Tail(s)) : Tail(s)[i] = s[i + 1] /\ i + 1 \in 1..Len(s)
  <1>1. s \in Seq(Messages) /\ s # <<>> /\ m = Head(s)
    BY DEF TypeOK
  <1>2. /\ Len(s) \in Nat \ {0} /\ Len(Tail(s)) = Len(s) - 1 /\ m = s[1]
        /\ \A i \in 1..Len(Tail(s)) : Tail(s)[i] = s[i + 1]
    BY <1>1, HeadTailProperties, EmptySeq, LenProperties
  <1>3. \A i \in 1..Len(Tail(s)) : i + 1 \in 1..Len(s)
    BY <1>2
  <1>4. 1 \in 1..Len(inbound[a]) /\ m = inbound[a][1]
    BY <1>2
  <1>5. m \in Messages /\ m.req \in Requests /\ m.no \in 1..ReplyLen
    BY <1>4, StreamMessage
  <1>6. To[m.req] = a /\ Passed(m.req) < m.no /\ m.no <= sent[m.req]
    BY <1>4 DEF PlaceInv, StreamInv
  <1> QED BY <1>1, <1>2, <1>3, <1>5, <1>6

LEMMA ReceivePlace ==
  ASSUME TypeOK, PlaceInv, NEW a \in Agents, Receive(a)
  PROVE  PlaceInv'
  <1> SUFFICES ASSUME NEW m, m = Head(inbound[a]), NEW s, s = inbound[a], NEW r, r = m.req
               PROVE  PlaceInv'
    OBVIOUS
  <1>1. /\ sent' = sent /\ inbound'[a] = Tail(s) /\ s # <<>>
        /\ \A b \in Agents \ {a} : inbound'[b] = inbound[b] /\ loop'[b] = loop[b] /\ held'[b] = held[b]
        /\ loop[a] = "receiving"
        /\ loop'[a] = "delivering" => r \in handlers /\ held'[a] = m
    BY DEF Receive, agent, TypeOK
  <1>2. /\ m \in Messages /\ r \in Requests /\ m.no \in 1..ReplyLen
        /\ To[r] = a /\ Passed(r) < m.no /\ m.no <= sent[r]
        /\ s \in Seq(Messages) /\ Len(s) \in Nat \ {0} /\ m = s[1]
        /\ Len(Tail(s)) = Len(s) - 1
        /\ \A i \in 1..Len(Tail(s)) : Tail(s)[i] = s[i + 1] /\ i + 1 \in 1..Len(s)
    BY <1>1, FirstOnStream
  <1>3. /\ \A q \in Requests : Delivered(q)' = Delivered(q)
        /\ \A q \in Requests \ {r} : InHand(q)' <=> InHand(q)
        /\ ~InHand(r)
    BY <1>2, ReceiveCount
  <1>4. /\ \A q \in Requests \ {r} : Passed(q)' = Passed(q)
        /\ Passed(r) = Delivered(r)
    BY <1>2, <1>3 DEF Passed
  <1>5. Passed(r)' <= Passed(r) + 1 /\ Passed(r)' \in Nat /\ Passed(r)' <= m.no
    <2>1. /\ Delivered(r) \in Nat /\ Passed(r) = Delivered(r) /\ Delivered(r)' = Delivered(r)
          /\ m.no \in Nat /\ Passed(r) < m.no
      BY <1>2, <1>3, <1>4, Counts
    <2>2. Passed(r)' = Delivered(r)' \/ Passed(r)' = Delivered(r)' + 1
      BY DEF Passed
    <2> QED BY <2>1, <2>2
  <1>6. ASSUME NEW x \in Requests PROVE CountInv(x)'
    <2>1. Passed(x) \in Nat /\ sent[x] \in Nat /\ Passed(x) <= sent[x] /\ sent'[x] = sent[x]
      BY <1>1, Counts DEF PlaceInv, CountInv
    <2>2. Passed(x)' <= sent'[x]
      BY <1>2, <1>4, <1>5, <2>1
    <2> QED BY <2>2 DEF CountInv
  <1>7. ASSUME NEW b \in Agents PROVE HeldInv(b)'
    <2>1. CASE b # a
      BY <1>1, <1>3, <2>1 DEF PlaceInv, HeldInv, Messages
    <2>2. CASE b = a /\ loop'[a] = "delivering"
      <3>1. Delivered(r)' = Delivered(r) /\ Delivered(r) < m.no
        BY <1>2, <1>3, <1>4
      <3>2. held'[b] = m /\ held'[b].req = r
        BY <1>1, <2>2
      <3> QED BY <1>1, <1>2, <2>2, <3>1, <3>2 DEF HeldInv
    <2>3. CASE b = a /\ loop'[a] # "delivering"
      BY <2>3 DEF HeldInv
    <2> QED BY <2>1, <2>2, <2>3
  <1>8. ASSUME NEW b \in Agents PROVE StreamInv(b)'
    <2>0. StreamInv(b)
      BY DEF PlaceInv
    <2>1. CASE b # a
      <3>1. inbound'[b] = inbound[b] /\ sent' = sent
        BY <1>1, <2>1
      <3>2. ASSUME NEW i \in 1..Len(inbound[b])
            PROVE  /\ inbound[b][i].req \in Requests \ {r}
        BY <1>2, <2>0, <2>1, StreamMessage DEF StreamInv
      <3> QED BY <1>4, <2>0, <3>1, <3>2 DEF StreamInv
    <2>2. CASE b = a
      <3> SUFFICES ASSUME NEW i \in 1..Len(Tail(s))
                   PROVE  /\ To[Tail(s)[i].req] = a
                          /\ \A q \in Requests : q = Tail(s)[i].req =>
                                Passed(q)' < Tail(s)[i].no /\ Tail(s)[i].no <= sent[q]
                          /\ Tail(s)[i].req \in Requests
                          /\ \A j \in 1..(i-1) : Tail(s)[j].req = Tail(s)[i].req =>
                                                   Tail(s)[j].no < Tail(s)[i].no
        BY <1>1, <2>2 DEF StreamInv
      <3>1. /\ Tail(s)[i] = s[i + 1] /\ i + 1 \in 1..Len(s) /\ i \in Nat \ {0}
            /\ \A j \in 1..(i-1) : Tail(s)[j] = s[j + 1] /\ j + 1 \in 1..((i + 1) - 1)
            /\ 1 \in 1..((i + 1) - 1)
        BY <1>2
      <3>2. /\ s[i + 1].req \in Requests /\ s[i + 1].no \in Nat /\ To[s[i + 1].req] = a
            /\ Passed(s[i + 1].req) < s[i + 1].no
            /\ s[i + 1].no <= sent[s[i + 1].req]
            /\ \A j \in 1..((i + 1) - 1) : s[j].req = s[i + 1].req => s[j].no < s[i + 1].no
        BY <2>0, <2>2, <3>1, StreamMessage DEF StreamInv
      <3>3. ASSUME NEW q \in Requests, q = s[i + 1].req
            PROVE  Passed(q)' < s[i + 1].no
        <4>1. CASE q # r
          BY <1>4, <3>2, <3>3, <4>1
        <4>2. CASE q = r
          <5>1. m.no < s[i + 1].no
            BY <1>2, <3>1, <3>2, <3>3, <4>2
          <5> QED BY <1>2, <1>5, <3>2, <4>2, <5>1
        <4> QED BY <4>1, <4>2
      <3> QED BY <3>1, <3>2, <3>3
    <2> QED BY <2>1, <2>2
  <1> QED BY <1>6, <1>7, <1>8 DEF PlaceInv

LEMMA EndReceivePlace ==
  ASSUME TypeOK, PlaceInv, NEW a \in Agents, EndReceive(a)
  PROVE  PlaceInv'
  <1>1. /\ UNCHANGED <<got, respCh, held, sent>>
        /\ \A b \in Agents : loop'[b] = "delivering" <=> loop[b] = "delivering"
        /\ inbound'[a] = <<>> /\ \A b \in Agents \ {a} : inbound'[b] = inbound[b]
    BY DEF EndReceive, http, agent, TypeOK
  <1>2. \A r \in Requests : Passed(r)' = Passed(r) /\ Delivered(r)' = Delivered(r)
    BY <1>1 DEF TypeOK, Passed, Delivered, InHand
  <1>3. ASSUME NEW r \in Requests PROVE CountInv(r)'
    BY <1>1, <1>2 DEF PlaceInv, CountInv
  <1>4. ASSUME NEW b \in Agents PROVE HeldInv(b)'
    BY <1>1, <1>2 DEF PlaceInv, HeldInv, Messages
  <1>5. ASSUME NEW b \in Agents PROVE StreamInv(b)'
    <2>1. CASE b = a
      BY <1>1, <2>1, EmptySeq DEF StreamInv
    <2>2. CASE b # a
      <3>1. StreamInv(b) /\ inbound'[b] = inbound[b] /\ sent' = sent
        BY <1>1, <2>2 DEF PlaceInv
      <3>2. ASSUME NEW i \in 1..Len(inbound[b]) PROVE inbound[b][i].req \in Requests
        BY StreamMessage
      <3> QED BY <1>2, <3>1, <3>2 DEF StreamInv
    <2> QED BY <2>1, <2>2
  <1> QED BY <1>3, <1>4, <1>5 DEF PlaceInv

\* The next message of a reply, behind all that are on the stream.
LEMMA AgentSendsOnStream ==
  ASSUME TypeOK, NEW r \in Requests, AgentSends(r), NEW a, a = To[r],
         NEW m, m = Message(r, sent[r] + 1), NEW s, s = inbound[a]
  PROVE  /\ r \in working
         /\ sent[r] \in Nat /\ m.req = r /\ m.no = sent[r] + 1
         /\ sent'[r] = sent[r] + 1 /\ \A q \in Requests \ {r} : sent'[q] = sent[q]
         /\ UNCHANGED <<h, handlers, got, respCh, queue, loop, held, link, working>>
         /\ a \in Agents /\ s \in Seq(Messages) /\ Len(s) \in Nat
         /\ \A b \in Agents \ {a} : inbound'[b] = inbound[b]
         /\ inbound'[a] = IF link[a] = "up" THEN Append(s, m) ELSE s
         /\ Len(Append(s, m)) = Len(s) + 1 /\ Append(s, m)[Len(s) + 1] = m
         /\ \A i \in 1..Len(s) : Append(s, m)[i] = s[i]
         /\ lost' = IF link[a] = "up" THEN lost ELSE lost \cup {r}
  <1>1. sent[r] \in Nat /\ sent[r] + 1 \in 1..ReplyLen /\ a \in Agents
    BY DEF AgentSends, TypeOK
  <1>2. m \in Messages /\ m.req = r /\ m.no = sent[r] + 1
    BY <1>1 DEF Message, Messages
  <1>3. s \in Seq(Messages)
    BY <1>1 DEF TypeOK
  <1>4. /\ Len(s) \in Nat
        /\ Len(Append(s, m)) = Len(s) + 1 /\ Append(s, m)[Len(s) + 1] = m
        /\ \A i \in 1..Len(s) : Append(s, m)[i] = s[i]
    BY <1>2, <1>3, AppendProperties, LenProperties
  <1>5. sent'[r] = sent[r] + 1 /\ \A q \in Requests \ {r} : sent'[q] = sent[q]
    BY DEF AgentSends, TypeOK
  <1>6. UNCHANGED <<h, handlers, got, respCh, queue, loop, held, link, working>> /\ r \in working
    BY DEF AgentSends, http, conn
  <1>7. /\ \A b \in Agents \ {a} : inbound'[b] = inbound[b]
        /\ inbound'[a] = IF link[a] = "up" THEN Append(s, m) ELSE s
        /\ lost' = IF link[a] = "up" THEN lost ELSE lost \cup {r}
    BY <1>1 DEF AgentSends, TypeOK
  <1> QED BY <1>1, <1>2, <1>3, <1>4, <1>5, <1>6, <1>7

LEMMA AgentSendsPlace ==
  ASSUME TypeOK, PlaceInv, NEW r \in Requests, AgentSends(r)
  PROVE  PlaceInv'
  <1> SUFFICES ASSUME NEW a, a = To[r],
                      NEW m, m = Message(r, sent[r] + 1), NEW s, s = inbound[a]
               PROVE  PlaceInv'
    OBVIOUS
  <1>1. /\ sent[r] \in Nat /\ m.req = r /\ m.no = sent[r] + 1
        /\ sent'[r] = sent[r] + 1 /\ \A q \in Requests \ {r} : sent'[q] = sent[q]
        /\ a \in Agents /\ Len(s) \in Nat
        /\ \A b \in Agents \ {a} : inbound'[b] = inbound[b]
        /\ inbound'[a] = IF link[a] = "up" THEN Append(s, m) ELSE s
        /\ Len(Append(s, m)) = Len(s) + 1 /\ Append(s, m)[Len(s) + 1] = m
        /\ \A i \in 1..Len(s) : Append(s, m)[i] = s[i]
    BY AgentSendsOnStream
  <1>2. UNCHANGED <<got, respCh, held, loop>>
    BY AgentSendsOnStream
  <1>3. \A q \in Requests : Passed(q)' = Passed(q) /\ Delivered(q)' = Delivered(q)
    BY <1>2 DEF Passed, Delivered, InHand
  <1>4. \A q \in Requests : sent[q] \in Nat /\ sent'[q] \in Nat /\ sent[q] <= sent'[q]
    <2>1. \A q \in Requests : sent[q] \in Nat
      BY Counts
    <2> QED BY <1>1, <2>1
  <1>5. ASSUME NEW q \in Requests PROVE CountInv(q)'
    <2>1. Passed(q) <= sent[q] /\ Passed(q)' = Passed(q) /\ Passed(q) \in Nat
      BY <1>3, Counts DEF PlaceInv, CountInv
    <2> QED BY <1>4, <2>1 DEF CountInv
  <1>6. ASSUME NEW b \in Agents PROVE HeldInv(b)'
    BY <1>2, <1>3, <1>4 DEF PlaceInv, HeldInv, Messages
  <1>7. ASSUME NEW b \in Agents, inbound'[b] = inbound[b] PROVE StreamInv(b)'
    <2>1. StreamInv(b)
      BY DEF PlaceInv
    <2>2. ASSUME NEW i \in 1..Len(inbound[b])
          PROVE  inbound[b][i].req \in Requests /\ inbound[b][i].no \in Nat
      BY StreamMessage
    <2> QED BY <1>3, <1>4, <1>7, <2>1, <2>2 DEF StreamInv
  <1>8. ASSUME inbound'[a] = Append(s, m) PROVE StreamInv(a)'
    <2>1. StreamInv(a)
      BY <1>1 DEF PlaceInv
    <2>2. ASSUME NEW i \in 1..Len(s)
          PROVE  /\ s[i].req \in Requests /\ s[i].no \in Nat /\ To[s[i].req] = a
                 /\ Passed(s[i].req) < s[i].no /\ s[i].no <= sent[s[i].req]
                 /\ \A j \in 1..(i-1) : s[j].req = s[i].req => s[j].no < s[i].no
      BY <1>1, <2>1, StreamMessage DEF StreamInv
    <2>3. Passed(r) <= sent[r] /\ Passed(r) \in Nat
      BY Counts DEF PlaceInv, CountInv
    <2>4. ASSUME NEW t, t = Append(s, m), NEW i \in 1..Len(t)
          PROVE  /\ To[t[i].req] = a
                 /\ Passed(t[i].req)' < t[i].no /\ t[i].no <= sent'[t[i].req]
                 /\ \A j \in 1..(i-1) : t[j].req = t[i].req => t[j].no < t[i].no
      <3>1. /\ Len(t) = Len(s) + 1 /\ t[Len(s) + 1] = m
            /\ \A j \in 1..Len(s) : t[j] = s[j]
        BY <1>1, <2>4
      <3>2. \A j \in 1..(i-1) : j \in 1..Len(s) /\ t[j] = s[j]
        BY <1>1, <3>1
      <3>3. CASE i \in 1..Len(s)
        <4>1. /\ t[i].req \in Requests /\ t[i].no \in Nat /\ To[t[i].req] = a
              /\ Passed(t[i].req) < t[i].no /\ t[i].no <= sent[t[i].req]
              /\ \A j \in 1..(i-1) : s[j].req = t[i].req => s[j].no < t[i].no
          BY <2>2, <3>1, <3>3
        <4>2. Passed(t[i].req)' < t[i].no
          BY <1>3, <4>1
        <4>3. t[i].no <= sent'[t[i].req]
          BY <1>4, <4>1
        <4> QED BY <3>2, <4>1, <4>2, <4>3
      <3>4. CASE i = Len(s) + 1
        <4>1. t[i] = m /\ To[t[i].req] = a
          BY <1>1, <3>1, <3>4
        <4>2. Passed(r)' < m.no /\ m.no <= sent'[r]
          BY <1>1, <1>3, <2>3
        <4>3. ASSUME NEW j \in 1..Len(s), s[j].req = r PROVE s[j].no < m.no
          BY <1>1, <2>2, <4>3
        <4> QED BY <1>1, <3>2, <4>1, <4>2, <4>3
      <3> QED BY <1>1, <3>1, <3>3, <3>4
    <2> QED BY <1>8, <2>4 DEF StreamInv
  <1>9. ASSUME NEW b \in Agents PROVE StreamInv(b)'
    BY <1>1, <1>7, <1>8
  <1> QED BY <1>5, <1>6, <1>9 DEF PlaceInv

LEMMA PlaceNext ==
  ASSUME TypeOK, PlaceInv, [Next]_vars
  PROVE  PlaceInv'
  <1>1. ASSUME NEW r \in Requests,
               \/ Start(r) \/ RegisterResponseHandler(r) \/ SendRequest(r) \/ Enqueue(r) \/ GiveUp(r)
               \/ UnregisterResponseHandler(r)
        PROVE  PlaceInv'
    BY <1>1, PlaceFrame DEF Start, RegisterResponseHandler, SendRequest, Enqueue, GiveUp,
                            UnregisterResponseHandler, http, conn, stream, agent
  <1>2. ASSUME NEW a \in Agents, SendLoop(a) \/ SendLoopDone(a) \/ LinkDown(a)
        PROVE  PlaceInv'
    BY <1>2, PlaceFrame DEF SendLoop, SendLoopDone, LinkDown, http, conn, stream, agent
  <1>3. CASE UNCHANGED vars
    BY <1>3, PlaceFrame DEF vars, http, conn, stream, agent
  <1> QED BY <1>1, <1>2, <1>3, LoopPlace, CollectPlace, DeliverPlace, ReceivePlace,
             EndReceivePlace, AgentSendsPlace DEF Next, HandlerStep, ConnectStep

\* The types, the counts of messages and their order on a stream hold in every state.
THEOREM PlaceInvariant == Spec => [](TypeOK /\ PlaceInv)
  <1>1. TypeOK /\ PlaceInv /\ [Next]_vars => (TypeOK /\ PlaceInv)'
    BY TypeNext, PlaceNext
  <1> QED BY InitPlace, <1>1, PTL DEF Spec

\* The variables have their types in every state, and no channel is overfull.
THEOREM TypeCorrect == Spec => []TypeOK
  BY PlaceInvariant, PTL

\* The response handler never blocks the receive loop while a reply fits into respCh,
\* whether its HTTP handler still takes messages or has left.
THEOREM ShortReplies == Spec => []ShortRepliesNeverBlock
  <1>1. TypeOK /\ PlaceInv => ShortRepliesNeverBlock
    <2> SUFFICES ASSUME TypeOK, PlaceInv, ReplyLen <= RespCap, NEW a \in Agents,
                        loop[a] = "delivering"
                 PROVE  Len(respCh[held[a].req]) < RespCap
      BY DEF ShortRepliesNeverBlock
    <2> DEFINE r == held[a].req
               n == held[a].no
               g == Len(got[r])
               c == Len(respCh[r])
    <2>1. r \in Requests /\ n \in 1..ReplyLen /\ Delivered(r) < n
      BY DEF PlaceInv, HeldInv, Messages
    <2>2. g \in Nat /\ c \in Nat /\ Delivered(r) = g + c
      BY <2>1, Counts DEF Delivered
    <2> HIDE DEF n, g, c
    <2>3. c < RespCap
      BY <2>1, <2>2
    <2> QED BY <2>3 DEF c
  <1> QED BY <1>1, PlaceInvariant, PTL

-----------------------------------------------------------------------------
(* Order.  What holds of any agent, also of one that goes on with a reply  *)
(* over its next connection: messages may be missing, but none comes twice,*)
(* late, or in the reply to another request.                               *)

\* Messages of the reply to r, each later than the one before.
Rising(r, s) == \A i \in 1..Len(s) : s[i].req = r /\ \A j \in 1..(i-1) : s[j].no < s[i].no

\* All that the response handler has passed on comes before the n-th message.
Before(r, n) ==
    /\ \A i \in 1..Len(got[r]) : got[r][i].no < n
    /\ \A i \in 1..Len(respCh[r]) : respCh[r][i].no < n

OrderInv(r) ==
    /\ Rising(r, got[r]) /\ Rising(r, respCh[r])
    /\ \A i \in 1..Len(respCh[r]) : \A j \in 1..Len(got[r]) : got[r][j].no < respCh[r][i].no
    /\ InHand(r) => Before(r, held[To[r]].no)
    /\ \A i \in 1..Len(inbound[To[r]]) : inbound[To[r]][i].req = r =>
          /\ Before(r, inbound[To[r]][i].no)
          /\ InHand(r) => held[To[r]].no < inbound[To[r]][i].no
    /\ Before(r, sent[r] + 1)

\* A client is given messages of the reply to its own request, each later than the last.
OwnReplyInOrder == \A r \in Requests : Rising(r, got[r])

\* The next message is put behind the others.
LEMMA AppendRising ==
  ASSUME NEW r, NEW s \in Seq(Messages), NEW m \in Messages, Rising(r, s), m.req = r,
         \A i \in 1..Len(s) : s[i].no < m.no
  PROVE  Rising(r, Append(s, m))
  <1>1. /\ Len(Append(s, m)) = Len(s) + 1 /\ Len(s) \in Nat
        /\ Append(s, m)[Len(s) + 1] = m
        /\ \A i \in 1..Len(s) : Append(s, m)[i] = s[i]
    BY AppendProperties, LenProperties
  <1> SUFFICES ASSUME NEW t, t = Append(s, m), NEW i \in 1..Len(t)
               PROVE  t[i].req = r /\ \A j \in 1..(i-1) : t[j].no < t[i].no
    BY DEF Rising
  <1>2. \A j \in 1..(i-1) : j \in 1..Len(s) /\ t[j] = s[j]
    BY <1>1
  <1>3. CASE i \in 1..Len(s)
    BY <1>1, <1>2, <1>3 DEF Rising
  <1>4. CASE i = Len(s) + 1
    BY <1>1, <1>2, <1>4
  <1> QED BY <1>1, <1>3, <1>4

\* The first one is taken.
LEMMA TailRising ==
  ASSUME NEW r, NEW s \in Seq(Messages), s # <<>>, Rising(r, s)
  PROVE  /\ Head(s) \in Messages /\ Head(s).req = r
         /\ 1 \in 1..Len(s) /\ Head(s) = s[1]
         /\ Tail(s) \in Seq(Messages) /\ Rising(r, Tail(s))
         /\ \A i \in 1..Len(Tail(s)) :
               Tail(s)[i] = s[i + 1] /\ i + 1 \in 1..Len(s) /\ s[1].no < s[i + 1].no
  <1>1. /\ Head(s) \in Messages /\ Tail(s) \in Seq(Messages)
        /\ Len(s) \in Nat \ {0} /\ Len(Tail(s)) = Len(s) - 1 /\ Head(s) = s[1]
        /\ \A i \in 1..Len(Tail(s)) : Tail(s)[i] = s[i + 1]
    BY HeadTailProperties, EmptySeq, LenProperties
  <1>2. 1 \in 1..Len(s)
    BY <1>1
  <1>3. ASSUME NEW i \in 1..Len(Tail(s))
        PROVE  /\ i + 1 \in 1..Len(s) /\ 1 \in 1..((i + 1) - 1)
               /\ \A j \in 1..(i-1) : j + 1 \in 1..((i + 1) - 1) /\ j \in 1..Len(Tail(s))
    BY <1>1, <1>3
  <1>4. Rising(r, Tail(s))
    BY <1>1, <1>3 DEF Rising
  <1>5. \A i \in 1..Len(Tail(s)) : s[1].no < s[i + 1].no
    BY <1>3 DEF Rising
  <1> QED BY <1>1, <1>2, <1>3, <1>4, <1>5 DEF Rising

\* A step of something else.
LEMMA OrderFrame ==
  ASSUME TypeOK, NEW r \in Requests, OrderInv(r),
         got'[r] = got[r], respCh'[r] = respCh[r], sent'[r] = sent[r],
         inbound'[To[r]] = inbound[To[r]], held'[To[r]] = held[To[r]], InHand(r)' => InHand(r)
  PROVE  OrderInv(r)'
  BY DEF OrderInv, Before, Rising

\* A step that passes nothing on: what is in hand and on the stream comes later.
LEMMA OrderKept ==
  ASSUME TypeOK, NEW r \in Requests, OrderInv(r), got'[r] = got[r], respCh'[r] = respCh[r],
         NEW s, s = inbound'[To[r]], NEW m, m = held'[To[r]],
         InHand(r)' => Before(r, m.no),
         \A i \in 1..Len(s) : s[i].req = r =>
            Before(r, s[i].no) /\ (InHand(r)' => m.no < s[i].no),
         Before(r, sent'[r] + 1)
  PROVE  OrderInv(r)'
  <1>1. \A n : Before(r, n) => Before(r, n)'
    BY DEF Before
  <1>2. /\ Rising(r, got'[r]) /\ Rising(r, respCh'[r])
        /\ \A i \in 1..Len(respCh'[r]) : \A j \in 1..Len(got'[r]) : got'[r][j].no < respCh'[r][i].no
    BY DEF OrderInv
  <1> QED BY <1>1, <1>2 DEF OrderInv, Before, Rising

LEMMA CollectOrder ==
  ASSUME TypeOK, NEW r \in Requests, Collect(r), NEW q \in Requests, OrderInv(q)
  PROVE  OrderInv(q)'
  <1>1. UNCHANGED <<loop, held, inbound, sent>> /\ (InHand(q)' <=> InHand(q))
    BY DEF Collect, conn, stream, agent, InHand
  <1>2. CASE q # r
    <2>1. got'[q] = got[q] /\ respCh'[q] = respCh[q]
      BY <1>2 DEF Collect, TypeOK
    <2> QED BY <1>1, <2>1, OrderFrame
  <1>3. CASE q = r
    <2> SUFFICES ASSUME NEW g, g = got[r], NEW c, c = respCh[r], NEW m, m = Head(c)
                 PROVE  OrderInv(r)'
      BY <1>3
    <2>1. /\ g \in Seq(Messages) /\ c \in Seq(Messages) /\ c # <<>>
          /\ got'[r] = Append(g, m) /\ respCh'[r] = Tail(c)
      BY DEF TypeOK, Collect
    <2>2. /\ m \in Messages /\ m.req = r /\ 1 \in 1..Len(c) /\ m = c[1]
          /\ Tail(c) \in Seq(Messages) /\ Rising(r, Tail(c))
          /\ \A i \in 1..Len(Tail(c)) :
                Tail(c)[i] = c[i + 1] /\ i + 1 \in 1..Len(c) /\ m.no < c[i + 1].no
      BY <1>3, <2>1, TailRising DEF OrderInv
    <2>3. /\ Len(Append(g, m)) = Len(g) + 1 /\ Len(g) \in Nat
          /\ Append(g, m)[Len(g) + 1] = m
          /\ \A i \in 1..Len(g) : Append(g, m)[i] = g[i]
      BY <2>1, <2>2, AppendProperties, LenProperties
    <2>4. \A i \in 1..Len(Append(g, m)) : i \in 1..Len(g) \/ i = Len(g) + 1
      BY <2>3
    <2>5. \A i \in 1..Len(c) : \A j \in 1..Len(g) : g[j].no < c[i].no
      BY <1>3 DEF OrderInv
    <2>6. Rising(r, Append(g, m))
      BY <1>3, <2>1, <2>2, <2>5, AppendRising DEF OrderInv
    <2>7. ASSUME NEW n, Before(r, n)
          PROVE  /\ \A i \in 1..Len(Append(g, m)) : Append(g, m)[i].no < n
                 /\ \A i \in 1..Len(Tail(c)) : Tail(c)[i].no < n
      BY <2>2, <2>3, <2>4, <2>7 DEF Before
    <2>8. \A i \in 1..Len(Tail(c)) : \A j \in 1..Len(Append(g, m)) :
             Append(g, m)[j].no < Tail(c)[i].no
      BY <2>2, <2>3, <2>4, <2>5
    <2> QED BY <1>1, <1>3, <2>1, <2>2, <2>6, <2>7, <2>8 DEF OrderInv, Before
  <1> QED BY <1>2, <1>3

LEMMA DeliverOrder ==
  ASSUME TypeOK, PlaceInv, NEW a \in Agents, Deliver(a), NEW q \in Requests, OrderInv(q)
  PROVE  OrderInv(q)'
  <1> SUFFICES ASSUME NEW r, r = held[a].req PROVE OrderInv(q)'
    OBVIOUS
  <1>1. /\ r \in Requests /\ To[r] = a /\ InHand(r)
        /\ To[q] = a => ~InHand(q)'
        /\ To[q] # a => (InHand(q)' <=> InHand(q))
    BY DeliverCount
  <1>2. UNCHANGED <<got, inbound, sent>> /\ \A b \in Agents \ {a} : held'[b] = held[b]
    BY DEF Deliver, http, stream, agent, TypeOK
  <1>3. CASE q # r
    <2>1. respCh'[q] = respCh[q]
      BY <1>1, <1>3 DEF Deliver, TypeOK
    <2>2. CASE To[q] # a
      BY <1>1, <1>2, <2>1, <2>2, OrderFrame DEF TypeOK
    <2>3. CASE To[q] = a
      BY <1>1, <1>2, <2>1, <2>3 DEF OrderInv, Before, Rising
    <2> QED BY <2>2, <2>3
  <1>4. CASE q = r
    <2> SUFFICES ASSUME NEW c, c = respCh[r], NEW m, m = held[a], NEW s, s = inbound[a]
                 PROVE  OrderInv(r)'
      BY <1>4
    <2>1. /\ c \in Seq(Messages) /\ m \in Messages /\ m.req = r /\ m.no \in Nat
          /\ m.no <= sent[r] /\ sent[r] \in Nat
      <3>1. m \in Messages /\ m.req = r /\ m.no <= sent[r]
        BY DEF PlaceInv, HeldInv, Deliver
      <3>2. m.no \in Nat
        BY <3>1 DEF Messages
      <3>3. sent[r] \in Nat
        BY <1>1, Counts
      <3> QED BY <1>1, <3>1, <3>2, <3>3 DEF TypeOK
    <2>2. respCh'[r] = Append(c, m)
      BY <1>1 DEF Deliver, TypeOK
    <2>3. /\ Len(Append(c, m)) = Len(c) + 1 /\ Len(c) \in Nat
          /\ Append(c, m)[Len(c) + 1] = m
          /\ \A i \in 1..Len(c) : Append(c, m)[i] = c[i]
      BY <2>1, AppendProperties, LenProperties
    <2>4. \A i \in 1..Len(Append(c, m)) : i \in 1..Len(c) \/ i = Len(c) + 1
      BY <2>3
    <2>5. Before(r, m.no) /\ \A i \in 1..Len(s) : s[i].req = r => m.no < s[i].no
      BY <1>1, <1>4 DEF OrderInv
    <2>6. Rising(r, Append(c, m))
      BY <1>4, <2>1, <2>5, AppendRising DEF OrderInv, Before
    <2>7. ASSUME NEW n, Before(r, n), m.no < n
          PROVE  \A i \in 1..Len(Append(c, m)) : Append(c, m)[i].no < n
      BY <2>3, <2>4, <2>7 DEF Before
    <2>8. \A i \in 1..Len(Append(c, m)) : \A j \in 1..Len(got[r]) : got[r][j].no < Append(c, m)[i].no
      BY <1>4, <2>3, <2>4, <2>5 DEF OrderInv, Before
    <2>9. m.no < sent[r] + 1
      BY <2>1
    <2> QED BY <1>1, <1>2, <1>4, <2>2, <2>5, <2>6, <2>7, <2>8, <2>9 DEF OrderInv, Before
  <1> QED BY <1>3, <1>4

LEMMA ReceiveOrder ==
  ASSUME TypeOK, PlaceInv, NEW a \in Agents, Receive(a), NEW q \in Requests, OrderInv(q)
  PROVE  OrderInv(q)'
  <1> SUFFICES ASSUME NEW s, s = inbound[a], NEW m, m = Head(s) PROVE OrderInv(q)'
    OBVIOUS
  <1>1. /\ UNCHANGED <<got, respCh, sent>> /\ s # <<>> /\ inbound'[a] = Tail(s)
        /\ loop'[a] = "delivering" => held'[a] = m
        /\ \A b \in Agents \ {a} : inbound'[b] = inbound[b] /\ held'[b] = held[b]
    BY DEF Receive, http, agent, TypeOK
  <1>2. /\ To[q] = a => ~InHand(q) /\ (InHand(q)' => m.req = q)
        /\ To[q] # a => (InHand(q)' <=> InHand(q))
    BY ReceiveCount
  <1>3. CASE To[q] # a
    BY <1>1, <1>2, <1>3, OrderFrame DEF TypeOK
  <1>4. CASE To[q] = a
    <2>1. /\ Len(s) \in Nat \ {0} /\ m = s[1] /\ 1 \in 1..Len(s)
          /\ \A i \in 1..Len(Tail(s)) : Tail(s)[i] = s[i + 1] /\ i + 1 \in 1..Len(s)
                                        /\ 1 \in 1..((i + 1) - 1)
      BY <1>1, FirstOnStream
    <2>2. \A i \in 1..Len(s) : s[i].req = q => Before(q, s[i].no)
      BY <1>4 DEF OrderInv
    <2>3. ASSUME NEW i \in 1..Len(Tail(s)), m.req = q, s[i + 1].req = q
          PROVE  m.no < s[i + 1].no
      <3>1. /\ i + 1 \in 1..Len(inbound[a]) /\ 1 \in 1..((i + 1) - 1)
            /\ inbound[a][1].req = inbound[a][i + 1].req
        BY <2>1, <2>3
      <3>2. inbound[a][1].no < inbound[a][i + 1].no
        BY <3>1 DEF PlaceInv, StreamInv
      <3> QED BY <2>1, <3>2
    <2>4. InHand(q)' => loop'[a] = "delivering"
      BY <1>4 DEF InHand
    <2>5. Before(q, sent[q] + 1)
      BY DEF OrderInv
    <2>6. InHand(q)' => held'[a] = m /\ m.req = q /\ Before(q, m.no)
      BY <1>1, <1>2, <1>4, <2>1, <2>2, <2>4
    <2>7. \A i \in 1..Len(Tail(s)) : Tail(s)[i].req = q =>
             Before(q, Tail(s)[i].no) /\ (InHand(q)' => held'[a].no < Tail(s)[i].no)
      BY <2>1, <2>2, <2>3, <2>6
    <2> QED BY <1>1, <1>4, <2>5, <2>6, <2>7, OrderKept
  <1> QED BY <1>3, <1>4

LEMMA EndReceiveOrder ==
  ASSUME TypeOK, NEW a \in Agents, EndReceive(a) \/ DeleteLocal(a) \/ Reconnect(a),
         NEW q \in Requests, OrderInv(q)
  PROVE  OrderInv(q)'
  <1>1. UNCHANGED <<got, respCh, held, sent>> /\ (InHand(q)' => InHand(q))
    BY DEF EndReceive, DeleteLocal, Reconnect, http, stream, agent, TypeOK, InHand
  <1>2. inbound'[To[q]] = inbound[To[q]] \/ inbound'[To[q]] = <<>>
    BY DEF EndReceive, DeleteLocal, Reconnect, stream, TypeOK
  <1>3. CASE inbound'[To[q]] = <<>>
    BY <1>1, <1>3, EmptySeq DEF OrderInv, Before, Rising
  <1> QED BY <1>1, <1>2, <1>3, OrderFrame

LEMMA AgentSendsOrder ==
  ASSUME TypeOK, PlaceInv, NEW r \in Requests, AgentSends(r), NEW q \in Requests, OrderInv(q)
  PROVE  OrderInv(q)'
  <1> SUFFICES ASSUME NEW a, a = To[r], NEW m, m = Message(r, sent[r] + 1),
                      NEW s, s = inbound[a]
               PROVE  OrderInv(q)'
    OBVIOUS
  <1>1. /\ sent[r] \in Nat /\ m.req = r /\ m.no = sent[r] + 1
        /\ sent'[r] = sent[r] + 1 /\ \A x \in Requests \ {r} : sent'[x] = sent[x]
        /\ UNCHANGED <<got, respCh, loop, held>>
        /\ a \in Agents /\ Len(s) \in Nat
        /\ \A b \in Agents \ {a} : inbound'[b] = inbound[b]
        /\ inbound'[a] = IF link[a] = "up" THEN Append(s, m) ELSE s
        /\ Len(Append(s, m)) = Len(s) + 1 /\ Append(s, m)[Len(s) + 1] = m
        /\ \A i \in 1..Len(s) : Append(s, m)[i] = s[i]
    BY AgentSendsOnStream
  <1>2. InHand(q)' <=> InHand(q)
    BY <1>1 DEF InHand
  <1>3. \A i \in 1..Len(Append(s, m)) : i \in 1..Len(s) \/ i = Len(s) + 1
    BY <1>1
  <1>4. CASE q # r
    <2>1. sent'[q] = sent[q]
      BY <1>1, <1>4
    <2>2. CASE inbound'[To[q]] = inbound[To[q]]
      BY <1>1, <1>2, <2>1, <2>2, OrderFrame
    <2>3. CASE To[q] = a /\ inbound'[a] = Append(s, m)
      <3>1. ASSUME NEW i \in 1..Len(Append(s, m)), Append(s, m)[i].req = q
            PROVE  i \in 1..Len(s) /\ Append(s, m)[i] = s[i]
        BY <1>1, <1>3, <1>4, <3>1
      <3>2. /\ InHand(q) => Before(q, held[a].no)
            /\ \A i \in 1..Len(s) : s[i].req = q =>
                  Before(q, s[i].no) /\ (InHand(q) => held[a].no < s[i].no)
            /\ Before(q, sent[q] + 1)
        BY <2>3 DEF OrderInv
      <3>3. \A i \in 1..Len(Append(s, m)) : Append(s, m)[i].req = q =>
               Before(q, Append(s, m)[i].no) /\ (InHand(q) => held[a].no < Append(s, m)[i].no)
        BY <3>1, <3>2
      <3>4. /\ inbound'[To[q]] = Append(s, m) /\ held'[To[q]] = held[a]
            /\ got'[q] = got[q] /\ respCh'[q] = respCh[q]
        BY <1>1, <2>3
      <3>5. Before(q, sent'[q] + 1)
        BY <2>1, <3>2
      <3> QED BY <1>2, <3>2, <3>3, <3>4, <3>5, OrderKept
    <2> QED BY <1>1, <2>2, <2>3
  <1>5. CASE q = r
    <2>1. Before(r, sent[r] + 1)
      BY <1>5 DEF OrderInv
    <2>2. InHand(r) => held[a].no < sent[r] + 1
      <3> SUFFICES ASSUME InHand(r) PROVE held[a].no < sent[r] + 1
        OBVIOUS
      <3>1. held[a].no <= sent[r] /\ held[a] \in Messages
        BY <1>1 DEF InHand, PlaceInv, HeldInv
      <3>2. held[a].no \in Nat
        BY <3>1 DEF Messages
      <3> QED BY <1>1, <3>1, <3>2
    <2>3. Before(r, sent[r] + 1 + 1)
      <3>1. /\ got[r] \in Seq(Messages) /\ respCh[r] \in Seq(Messages)
        BY DEF TypeOK
      <3>2. /\ \A i \in 1..Len(got[r]) : got[r][i].no \in Nat
            /\ \A i \in 1..Len(respCh[r]) : respCh[r][i].no \in Nat
        <4>1. \A x \in Messages : x.no \in Nat
          BY DEF Messages
        <4>2. /\ \A i \in 1..Len(got[r]) : got[r][i] \in Messages
              /\ \A i \in 1..Len(respCh[r]) : respCh[r][i] \in Messages
          BY <3>1, ElementOfSeq
        <4> QED BY <4>1, <4>2
      <3>3. \A n \in Nat : n < sent[r] + 1 => n < sent[r] + 1 + 1
        BY <1>1
      <3> QED BY <2>1, <3>2, <3>3 DEF Before
    <2>4. CASE inbound'[a] = s
      <3>1. /\ InHand(r) => Before(r, held[a].no)
            /\ \A i \in 1..Len(s) : s[i].req = r =>
                  Before(r, s[i].no) /\ (InHand(r) => held[a].no < s[i].no)
        BY <1>5 DEF OrderInv
      <3> QED BY <1>1, <1>2, <1>5, <2>3, <2>4, <3>1, OrderKept
    <2>5. CASE inbound'[a] = Append(s, m)
      <3>1. ASSUME NEW i \in 1..Len(Append(s, m)), Append(s, m)[i].req = r
            PROVE  /\ Before(r, Append(s, m)[i].no)
                   /\ InHand(r) => held[a].no < Append(s, m)[i].no
        BY <1>1, <1>3, <1>5, <2>1, <2>2, <3>1 DEF OrderInv
      <3>2. InHand(r) => Before(r, held[a].no)
        BY <1>5 DEF OrderInv
      <3> QED BY <1>1, <1>2, <1>5, <2>3, <2>5, <3>1, <3>2, OrderKept
    <2> QED BY <1>1, <2>4, <2>5
  <1> QED BY <1>4, <1>5

\* Messages may be missing from a reply, but all that is given to the client, in respCh, in
\* hand and on the stream is of that reply, and each message is later than the one before.
THEOREM OrderInvariant == Spec => [](\A r \in Requests : OrderInv(r))
  <1> DEFINE Inv == \A r \in Requests : OrderInv(r)
  <1>1. Init => Inv
    <2> SUFFICES ASSUME Init, NEW r \in Requests PROVE OrderInv(r)
      OBVIOUS
    <2>1. got[r] = <<>> /\ respCh[r] = <<>> /\ inbound[To[r]] = <<>> /\ ~InHand(r)
      BY DEF Init, InHand
    <2>2. \A i \in 1..Len(<<>>) : FALSE
      BY EmptySeq
    <2> QED BY <2>1, <2>2 DEF OrderInv, Before, Rising
  <1>2. TypeOK /\ PlaceInv /\ Inv /\ [Next]_vars => Inv'
    <2> SUFFICES ASSUME TypeOK, PlaceInv, [Next]_vars, NEW q \in Requests, OrderInv(q)
                 PROVE  OrderInv(q)'
      OBVIOUS
    <2>1. ASSUME UNCHANGED <<got, respCh, loop, held, inbound, sent>> PROVE OrderInv(q)'
      BY <2>1, OrderFrame DEF InHand
    <2>2. ASSUME NEW r \in Requests,
                 \/ Start(r) \/ RegisterResponseHandler(r) \/ SendRequest(r) \/ Enqueue(r) \/ GiveUp(r)
                 \/ UnregisterResponseHandler(r)
          PROVE  OrderInv(q)'
      BY <2>1, <2>2 DEF Start, RegisterResponseHandler, SendRequest, Enqueue, GiveUp,
                        UnregisterResponseHandler, http, conn, stream, agent
    <2>3. ASSUME NEW a \in Agents, SendLoop(a) \/ SendLoopDone(a) \/ LinkDown(a)
          PROVE  OrderInv(q)'
      BY <2>1, <2>3 DEF SendLoop, SendLoopDone, LinkDown, http, conn, stream, agent
    <2>4. CASE UNCHANGED vars
      BY <2>1, <2>4 DEF vars, http, conn, stream, agent
    <2> QED BY <2>2, <2>3, <2>4, CollectOrder, DeliverOrder, ReceiveOrder, EndReceiveOrder,
               AgentSendsOrder DEF Next, HandlerStep, ConnectStep
  <1> QED BY <1>1, <1>2, PlaceInvariant, PTL DEF Spec

\* Whatever an agent does with its replies when it loses a connection, a client is given
\* messages of the reply to its own request alone, each of them once and in order.
THEOREM OwnReply == Spec => []OwnReplyInOrder
  <1>1. (\A r \in Requests : OrderInv(r)) => OwnReplyInOrder
    BY DEF OrderInv, OwnReplyInOrder
  <1> QED BY <1>1, OrderInvariant, PTL

-----------------------------------------------------------------------------
(* Whole replies: the proof.                                               *)

LEMMA AmongAppend ==
  ASSUME NEW S, NEW s \in Seq(S), NEW y \in S, NEW r, NEW f, NEW n, NEW k \in 0..Len(s),
         Among(r, s, f, n, k)
  PROVE  Among(r, Append(s, y), f, n, k)
  <1>1. Len(s) \in Nat /\ \A j \in 1..Len(s) : Append(s, y)[j] = s[j]
    BY AppendProperties, LenProperties
  <1>2. \A j \in 1..k : j \in 1..Len(s)
    BY <1>1
  <1> QED BY <1>1, <1>2 DEF Among

LEMMA AmongTail ==
  ASSUME NEW S, NEW s \in Seq(S), s # <<>>, NEW r, NEW f, NEW n, NEW k \in 1..Len(s),
         Among(r, s, f, n, k), \A x \in f..n : s[1] # Message(r, x)
  PROVE  Among(r, Tail(s), f, n, k - 1)
  <1>1. /\ Len(s) \in Nat /\ Len(Tail(s)) = Len(s) - 1
        /\ \A j \in 1..Len(Tail(s)) : Tail(s)[j] = s[j + 1]
    BY HeadTailProperties, LenProperties
  <1>2. ASSUME NEW x \in f..n PROVE \E j \in 1..(k-1) : Tail(s)[j] = Message(r, x)
    <2>1. PICK j \in 1..k : s[j] = Message(r, x)
      BY DEF Among
    <2>2. j # 1
      BY <2>1
    <2>3. /\ j - 1 \in 1..(k-1) /\ j - 1 \in 1..Len(Tail(s)) /\ (j - 1) + 1 = j
      BY <1>1, <2>1, <2>2
    <2>4. Tail(s)[j - 1] = Message(r, x)
      BY <1>1, <2>1, <2>3
    <2> QED BY <2>3, <2>4
  <1> QED BY <1>2 DEF Among

\* What a request needs to keep its parts of the invariant while others are served.
LEMMA QueueKept ==
  ASSUME TypeOK, NEW a \in Agents, QueueInv(a), queue'[a] = queue[a],
         \A r \in Requests : h[r] \notin Unsent => h'[r] \notin Unsent,
         \A r \in Requests : r \notin working /\ sent[r] = 0 /\ To[r] = a =>
                                r \notin working' /\ sent'[r] = 0
  PROVE  QueueInv(a)'
  <1>1. ASSUME NEW i \in 1..Len(queue[a]) PROVE queue[a][i] \in Requests
    BY ElementOfSeq DEF TypeOK
  <1> QED BY <1>1 DEF QueueInv

LEMMA RequestKept ==
  ASSUME NEW r \in Requests, RequestInv(r), h'[r] = h[r], sent'[r] = sent[r],
         r \in working' => r \in working, r \in handlers => r \in handlers'
  PROVE  RequestInv(r)'
  BY DEF RequestInv

LEMMA ReplyKept ==
  ASSUME NEW r \in Requests, ReplyInv(r), r \in lost => r \in lost', got'[r] = got[r], respCh'[r] = respCh[r],
         h'[r] \notin Ended => h[r] \notin Ended, h'[r] = "answered" => h[r] = "answered",
         InHand(r)' => InHand(r) /\ held'[To[r]] = held[To[r]]
  PROVE  ReplyInv(r)'
  BY DEF ReplyInv, Delivered, InOrder

LEMMA NoGapKept ==
  ASSUME NEW r \in Requests, NoGap(r), r \in lost => r \in lost',
         inbound'[To[r]] = inbound[To[r]],
         sent'[r] = sent[r], Passed(r)' = Passed(r), r \in working' => r \in working,
         h'[r] \notin Ended => h[r] \notin Ended
  PROVE  NoGap(r)'
  BY DEF NoGap, Coming, Among

\* Steps that move no message.
LEMMA QuietWhole ==
  ASSUME TypeOK, WholeInv, NEW r \in Requests,
         \A q \in Requests \ {r} : h'[q] = h[q], \A q \in Requests \ {r} : q \in handlers => q \in handlers',
         UNCHANGED <<got, respCh, loop, held, inbound, lost, sent, working>>,
         h[r] \notin Unsent => h'[r] \notin Unsent,
         h'[r] \notin Ended => h[r] \notin Ended, h'[r] = "answered" => h[r] = "answered",
         RequestInv(r)', \A a \in Agents : QueueInv(a)'
  PROVE  WholeInv'
  <1>1. \A q : Passed(q)' = Passed(q) /\ (InHand(q)' <=> InHand(q))
    BY DEF Passed, Delivered, InHand
  <1>2. ASSUME NEW q \in Requests PROVE RequestInv(q)'
    BY RequestKept DEF WholeInv
  <1>3. ASSUME NEW q \in Requests PROVE ReplyInv(q)' /\ NoGap(q)'
    <2>1. ReplyInv(q)'
      BY <1>1, ReplyKept DEF WholeInv
    <2>2. NoGap(q)'
      BY <1>1, NoGapKept DEF WholeInv
    <2> QED BY <2>1, <2>2
  <1> QED BY <1>2, <1>3 DEF WholeInv

LEMMA HandlerWhole ==
  ASSUME TypeOK, WholeInv, NEW r \in Requests,
         \/ Start(r) \/ RegisterResponseHandler(r) \/ SendRequest(r) \/ Enqueue(r) \/ GiveUp(r)
         \/ UnregisterResponseHandler(r)
  PROVE  WholeInv'
  <1>1. /\ UNCHANGED <<got, respCh, loop, held, inbound, lost, sent, working>>
        /\ \A q \in Requests \ {r} : h'[q] = h[q] /\ (q \in handlers => q \in handlers')
    BY DEF Start, RegisterResponseHandler, SendRequest, Enqueue, GiveUp, UnregisterResponseHandler,
           Step, TypeOK, http, conn, stream, agent
  <1>2. /\ h[r] \notin Unsent => h'[r] \notin Unsent
        /\ h'[r] \notin Ended => h[r] \notin Ended
        /\ h'[r] = "answered" => h[r] = "answered"
    BY DEF Start, RegisterResponseHandler, SendRequest, Enqueue, GiveUp, UnregisterResponseHandler,
           Step, TypeOK, Unsent, Ended
  <1>3. RequestInv(r)'
    <2>1. RequestInv(r)
      BY DEF WholeInv
    <2> QED BY <1>1, <2>1 DEF RequestInv, Start, RegisterResponseHandler, SendRequest, Enqueue, GiveUp,
                UnregisterResponseHandler, Step, TypeOK, Unsent
  <1>4. ASSUME NEW a \in Agents, queue'[a] = queue[a] PROVE QueueInv(a)'
    BY <1>1, <1>2, <1>4, QueueKept DEF WholeInv
  <1>5. ASSUME NEW a, a = To[r], NEW s, s = queue[a], queue'[a] = Append(s, r), Enqueue(r)
        PROVE  QueueInv(a)'
    <2>1. a \in Agents /\ s \in Seq(Requests)
      BY <1>5 DEF TypeOK
    <2>2. /\ Len(s) \in Nat /\ Len(Append(s, r)) = Len(s) + 1 /\ Append(s, r)[Len(s) + 1] = r
          /\ \A i \in 1..Len(s) : Append(s, r)[i] = s[i] /\ s[i] \in Requests
      BY <2>1, AppendProperties, LenProperties, ElementOfSeq
    <2>3. h[r] = "sending" /\ sent[r] = 0 /\ r \notin working
      BY <1>5 DEF Enqueue, Step, WholeInv, RequestInv, Unsent
    <2>4. h'[r] = "waiting" \/ h'[r] = "failed"
      BY <1>5 DEF Enqueue, Step, TypeOK
    <2>5. ASSUME NEW i \in 1..Len(s)
          PROVE  /\ To[s[i]] = a /\ h'[s[i]] \notin Unsent /\ s[i] # r
                 /\ sent[s[i]] = 0 /\ s[i] \notin working
                 /\ \A j \in 1..(i-1) : s[j] # s[i]
      <3>1. QueueInv(a)
        BY <2>1 DEF WholeInv
      <3>2. h[s[i]] \notin Unsent
        BY <1>5, <3>1 DEF QueueInv
      <3>3. s[i] # r
        BY <2>3, <3>2 DEF Unsent
      <3> QED BY <1>1, <1>5, <2>2, <3>1, <3>2, <3>3 DEF QueueInv
    <2>6. ASSUME NEW t, t = Append(s, r), NEW i \in 1..Len(t)
          PROVE  /\ To[t[i]] = a /\ h'[t[i]] \notin Unsent
                 /\ sent[t[i]] = 0 /\ t[i] \notin working
                 /\ \A j \in 1..(i-1) : t[j] # t[i]
      <3>1. \A j \in 1..(i-1) : j \in 1..Len(s) /\ t[j] = s[j]
        BY <2>2, <2>6
      <3>2. CASE i \in 1..Len(s)
        BY <2>2, <2>5, <2>6, <3>1, <3>2
      <3>3. CASE i = Len(s) + 1
        BY <1>5, <2>2, <2>3, <2>4, <2>5, <2>6, <3>1, <3>3 DEF Unsent
      <3> QED BY <2>2, <2>6, <3>2, <3>3
    <2> QED BY <1>1, <1>5, <2>6 DEF QueueInv
  <1>6. ASSUME NEW a \in Agents PROVE QueueInv(a)'
    <2>1. CASE queue'[a] = queue[a]
      BY <1>4, <2>1
    <2>2. CASE queue'[a] # queue[a]
      <3>1. a = To[r] /\ Enqueue(r) /\ queue'[a] = Append(queue[a], r)
        BY <2>2 DEF Start, RegisterResponseHandler, SendRequest, Enqueue, GiveUp,
                    UnregisterResponseHandler, TypeOK, conn
      <3> QED BY <1>5, <3>1
    <2> QED BY <2>1, <2>2
  <1> QED BY <1>1, <1>2, <1>3, <1>6, QuietWhole

LEMMA CollectWhole ==
  ASSUME TypeOK, WholeInv, NEW r \in Requests, Collect(r)
  PROVE  WholeInv'
  <1>1. /\ UNCHANGED <<handlers, queue, loop, held, inbound, lost, sent, working>>
        /\ \A q \in Requests \ {r} : h'[q] = h[q] /\ got'[q] = got[q] /\ respCh'[q] = respCh[q]
    BY DEF Collect, TypeOK, http, conn, stream, agent
  <1>2. h[r] = "waiting" /\ h'[r] \in {"waiting", "answered"}
    BY DEF Collect, TypeOK
  <1>3. \A q \in Requests : Delivered(q)' = Delivered(q)
    BY CollectCount
  <1>4. \A q \in Requests : Passed(q)' = Passed(q) /\ (InHand(q)' <=> InHand(q))
    BY <1>1, <1>3 DEF Passed, InHand
  <1>5. ASSUME NEW a \in Agents PROVE QueueInv(a)'
    BY <1>1, <1>2, QueueKept DEF WholeInv, Unsent
  <1>6. ASSUME NEW q \in Requests PROVE RequestInv(q)'
    BY <1>1, <1>2 DEF WholeInv, RequestInv, Unsent
  <1>7. ASSUME NEW q \in Requests PROVE NoGap(q)'
    BY <1>1, <1>2, <1>4, NoGapKept DEF WholeInv, Ended
  <1>8. ASSUME NEW q \in Requests, q # r PROVE ReplyInv(q)'
    BY <1>1, <1>4, <1>8, ReplyKept DEF WholeInv
  <1>10. CASE r \in lost
    BY <1>1, <1>5, <1>6, <1>7, <1>8, <1>10 DEF WholeInv, ReplyInv
  <1>9. ASSUME r \notin lost PROVE ReplyInv(r)'
    <2> DEFINE g == got[r]
               c == respCh[r]
               m == Head(c)
    <2>1. /\ g \in Seq(Messages) /\ c \in Seq(Messages) /\ c # <<>>
          /\ got'[r] = Append(g, m) /\ respCh'[r] = Tail(c)
          /\ h'[r] = IF m.no = ReplyLen THEN "answered" ELSE "waiting"
      BY DEF TypeOK, Collect, Done
    <2>2. /\ InOrder(r, g, 0) /\ InOrder(r, c, Len(g)) /\ Len(g) < ReplyLen
          /\ InHand(r) => held[To[r]].no = Delivered(r) + 1
      BY <1>2, <1>9 DEF WholeInv, ReplyInv, Ended
    <2> HIDE DEF g, c, m
    <2>3. Len(g) \in Nat
      BY <2>1, LenProperties
    <2>4. /\ m = [req |-> r, no |-> Len(g) + 1] /\ m \in Messages
          /\ InOrder(r, Tail(c), Len(g) + 1)
      BY <2>1, <2>2, <2>3, TakeInOrder DEF m
    <2>5. InOrder(r, Append(g, m), 0) /\ Len(Append(g, m)) = Len(g) + 1
      <3>1. m = [req |-> r, no |-> 0 + Len(g) + 1]
        BY <2>3, <2>4
      <3> QED BY <2>1, <2>2, <2>4, <3>1, AppendInOrder
    <2>6. /\ InOrder(r, got[r], 0)'
          /\ InOrder(r, respCh[r], Len(got[r]))'
      BY <2>1, <2>4, <2>5 DEF InOrder
    <2>7. /\ h'[r] = "answered" => Len(got'[r]) = ReplyLen
          /\ h'[r] # "answered" => Len(got'[r]) < ReplyLen
      BY <2>1, <2>2, <2>3, <2>4, <2>5
    <2>8. InHand(r)' => held'[To[r]].no = Delivered(r)' + 1
      BY <1>1, <1>3, <1>4, <2>2
    <2> QED BY <2>6, <2>7, <2>8 DEF ReplyInv, Ended
  <1> QED BY <1>5, <1>6, <1>7, <1>8, <1>9, <1>10 DEF WholeInv

LEMMA DeliverWhole ==
  ASSUME TypeOK, PlaceInv, WholeInv, NEW a \in Agents, Deliver(a)
  PROVE  WholeInv'
  <1> SUFFICES ASSUME NEW m, m = held[a], NEW r, r = m.req PROVE WholeInv'
    OBVIOUS
  <1>1. /\ UNCHANGED <<h, handlers, got, queue, inbound, lost, sent, working>>
        /\ \A q \in Requests \ {r} : respCh'[q] = respCh[q]
        /\ \A b \in Agents \ {a} : held'[b] = held[b]
    BY DEF Deliver, TypeOK, http, conn, stream, agent
  <1>2. /\ r \in Requests /\ To[r] = a /\ InHand(r)
        /\ \A q \in Requests : To[q] = a => ~InHand(q)'
        /\ \A q \in Requests : To[q] # a => (InHand(q)' <=> InHand(q))
        /\ \A q \in Requests : Passed(q)' = Passed(q)
    BY DeliverCount
  <1>3. ASSUME NEW b \in Agents PROVE QueueInv(b)'
    BY <1>1, QueueKept DEF WholeInv
  <1>4. ASSUME NEW q \in Requests PROVE RequestInv(q)'
    BY <1>1, RequestKept DEF WholeInv
  <1>5. ASSUME NEW q \in Requests PROVE NoGap(q)'
    BY <1>1, <1>2, NoGapKept DEF WholeInv
  <1>6. ASSUME NEW q \in Requests, q # r PROVE ReplyInv(q)'
    <2>1. InHand(q)' => InHand(q) /\ held'[To[q]] = held[To[q]]
      <3>1. To[q] \in Agents
        OBVIOUS
      <3> QED BY <1>1, <1>2, <3>1
    <2> QED BY <1>1, <1>6, <2>1, ReplyKept DEF WholeInv
  <1>7. ReplyInv(r)'
    <2>1. ReplyInv(r) /\ h'[r] = h[r] /\ got'[r] = got[r] /\ ~InHand(r)'
      BY <1>1, <1>2 DEF WholeInv
    <2>2. CASE h[r] \in Ended \/ r \in lost
      BY <1>1, <2>1, <2>2 DEF ReplyInv, InOrder
    <2>3. CASE h[r] \notin Ended /\ r \notin lost
      <3> DEFINE g == got[r]
                 c == respCh[r]
      <3>1. /\ c \in Seq(Messages) /\ g \in Seq(Messages) /\ respCh'[r] = Append(c, m)
            /\ m \in Messages
        BY <1>2 DEF TypeOK, Deliver, PlaceInv, HeldInv
      <3>2. InOrder(r, c, Len(g)) /\ m.no = Len(g) + Len(c) + 1
        BY <1>2, <2>1, <2>3 DEF ReplyInv, Delivered
      <3>3. m = [req |-> r, no |-> Len(g) + Len(c) + 1]
        BY <3>1, <3>2 DEF Messages
      <3> HIDE DEF g, c
      <3>4. Len(g) \in Nat
        BY <3>1, LenProperties
      <3>5. InOrder(r, Append(c, m), Len(g))
        BY <3>1, <3>2, <3>3, <3>4, AppendInOrder
      <3>6. InOrder(r, respCh[r], Len(got[r]))'
        BY <2>1, <3>1, <3>5 DEF InOrder, g
      <3>7. InOrder(r, got[r], 0)'
        BY <2>1, <2>3 DEF ReplyInv, InOrder
      <3> QED BY <2>1, <2>3, <3>6, <3>7 DEF ReplyInv
    <2> QED BY <2>2, <2>3
  <1> QED BY <1>3, <1>4, <1>5, <1>6, <1>7 DEF WholeInv

\* The end of a connection, and the next: what is on a broken stream is lost.
LEMMA LoopWhole ==
  ASSUME TypeOK, PlaceInv, WholeInv, NEW a \in Agents,
         EndReceive(a) \/ DeleteLocal(a) \/ Reconnect(a) \/ SendLoopDone(a)
  PROVE  WholeInv'
  <1>1. /\ UNCHANGED <<h, handlers, got, respCh, held, sent, working>>
        /\ \A b \in Agents : loop'[b] = "delivering" <=> loop[b] = "delivering"
        /\ \A b \in Agents : queue'[b] = queue[b] \/ queue'[b] = <<>>
        /\ \A b \in Agents : \/ inbound'[b] = inbound[b]
                             \/ inbound'[b] = <<>> /\ lost' = lost \cup OnStream(b)
        /\ \A q \in Requests : q \in lost => q \in lost'
    BY DEF EndReceive, DeleteLocal, Reconnect, SendLoopDone, TypeOK, http, conn, stream, agent
  <1>2. \A q \in Requests : Passed(q)' = Passed(q) /\ (InHand(q)' <=> InHand(q)) /\ To[q] \in Agents
    BY <1>1 DEF TypeOK, Passed, Delivered, InHand
  <1>3. ASSUME NEW b \in Agents PROVE QueueInv(b)'
    <2>1. CASE queue'[b] = queue[b]
      BY <1>1, <2>1, QueueKept DEF WholeInv
    <2>2. CASE queue'[b] = <<>>
      BY <2>2, EmptySeq DEF QueueInv
    <2> QED BY <1>1, <2>1, <2>2
  <1>4. ASSUME NEW q \in Requests PROVE RequestInv(q)'
    BY <1>1, <1>2, RequestKept DEF WholeInv
  <1>5. ASSUME NEW q \in Requests PROVE ReplyInv(q)'
    BY <1>1, <1>2, ReplyKept DEF WholeInv
  <1>6. ASSUME NEW q \in Requests PROVE NoGap(q)'
    <2>1. CASE inbound'[To[q]] = inbound[To[q]]
      BY <1>1, <1>2, <2>1, NoGapKept DEF WholeInv
    <2>2. CASE inbound'[To[q]] = <<>> /\ lost' = lost \cup OnStream(To[q])
      <3>1. CASE q \in lost'
        BY <3>1 DEF NoGap
      <3>2. CASE h[q] \in Ended
        BY <1>1, <3>2 DEF NoGap
      <3>3. CASE q \notin lost' /\ h[q] \notin Ended
        <4>1. \A i \in 1..Len(inbound[To[q]]) : inbound[To[q]][i].req # q
          BY <2>2, <3>3 DEF OnStream
        <4>2. \A x : \A j \in 1..Len(inbound[To[q]]) : inbound[To[q]][j] # Message(q, x)
          BY <4>1 DEF Message
        <4>3. q \in working => \A x \in (Passed(q) + 1)..sent[q] : FALSE
          BY <1>1, <2>2, <3>3, <4>2 DEF WholeInv, NoGap, Coming, Among
        <4>4. Passed(q)' = Passed(q) /\ sent' = sent /\ working' = working
          BY <1>1, <1>2
        <4> QED BY <2>2, <4>3, <4>4, EmptySeq DEF NoGap, Coming, Among
      <3> QED BY <3>1, <3>2, <3>3
    <2> QED BY <1>1, <1>2, <2>1, <2>2
  <1> QED BY <1>3, <1>4, <1>5, <1>6 DEF WholeInv

\* An agent that loses its connection goes on with its replies, or drops them.
LEMMA LinkDownWhole ==
  ASSUME TypeOK, WholeInv, NEW a \in Agents, LinkDown(a)
  PROVE  WholeInv'
  <1>1. /\ UNCHANGED <<h, handlers, got, respCh, queue, loop, held, inbound, lost, sent>>
        /\ working' \subseteq working
    BY DEF LinkDown, TypeOK, http, conn, stream
  <1>2. \A q \in Requests : Passed(q)' = Passed(q) /\ (InHand(q)' <=> InHand(q)) /\ To[q] \in Agents
    BY <1>1 DEF Passed, Delivered, InHand
  <1>3. ASSUME NEW b \in Agents PROVE QueueInv(b)'
    BY <1>1, QueueKept DEF WholeInv
  <1>4. ASSUME NEW q \in Requests PROVE RequestInv(q)'
    BY <1>1, <1>2, RequestKept DEF WholeInv
  <1>5. ASSUME NEW q \in Requests PROVE ReplyInv(q)'
    BY <1>1, <1>2, ReplyKept DEF WholeInv
  <1>6. ASSUME NEW q \in Requests PROVE NoGap(q)'
    BY <1>1, <1>2, NoGapKept DEF WholeInv
  <1> QED BY <1>3, <1>4, <1>5, <1>6 DEF WholeInv

\* A request leaves the queue of its agent, which may begin its reply.
LEMMA SendLoopWhole ==
  ASSUME TypeOK, PlaceInv, WholeInv, NEW a \in Agents, SendLoop(a)
  PROVE  WholeInv'
  <1> SUFFICES ASSUME NEW s, s = queue[a], NEW r, r = Head(s) PROVE WholeInv'
    OBVIOUS
  <1>1. /\ UNCHANGED <<h, handlers, got, respCh, loop, held, inbound, lost, sent>>
        /\ queue'[a] = Tail(s) /\ \A b \in Agents \ {a} : queue'[b] = queue[b]
        /\ working' = working \/ working' = working \cup {r}
    BY DEF SendLoop, TypeOK, http, stream
  <1>2. /\ s \in Seq(Requests) /\ Len(s) \in Nat \ {0} /\ r = s[1] /\ r \in Requests
        /\ Len(Tail(s)) = Len(s) - 1 /\ \A i \in 1..Len(Tail(s)) : Tail(s)[i] = s[i + 1]
    <2>1. s \in Seq(Requests) /\ s # <<>>
      BY DEF SendLoop, TypeOK
    <2> QED BY <2>1, HeadTailProperties, EmptySeq, LenProperties
  <1>3. ASSUME NEW i \in 1..Len(s)
        PROVE  /\ To[s[i]] = a /\ h[s[i]] \notin Unsent
               /\ sent[s[i]] = 0 /\ s[i] \notin working
               /\ \A j \in 1..(i-1) : s[j] # s[i]
    BY DEF WholeInv, QueueInv
  <1>4. To[r] = a /\ h[r] \notin Unsent /\ sent[r] = 0 /\ r \notin working
    <2>1. 1 \in 1..Len(s)
      BY <1>2
    <2> QED BY <1>2, <1>3, <2>1
  <1>5. \A q \in Requests : Passed(q)' = Passed(q) /\ (InHand(q)' <=> InHand(q)) /\ To[q] \in Agents
    BY <1>1 DEF Passed, Delivered, InHand
  <1>6. ASSUME NEW b \in Agents PROVE QueueInv(b)'
    <2>1. CASE b # a
      <3>1. \A q \in Requests : To[q] = b /\ q \notin working => q \notin working'
        BY <1>1, <1>4, <2>1
      <3> QED BY <1>1, <2>1, <3>1, QueueKept DEF WholeInv
    <2>2. CASE b = a
      <3>1. ASSUME NEW t, t = Tail(s), NEW i \in 1..Len(t)
            PROVE  /\ To[t[i]] = a /\ h[t[i]] \notin Unsent
                   /\ sent[t[i]] = 0 /\ t[i] \notin working'
                   /\ \A j \in 1..(i-1) : t[j] # t[i]
        <4>1. /\ t[i] = s[i + 1] /\ i + 1 \in 1..Len(s) /\ 1 \in 1..((i + 1) - 1)
              /\ \A j \in 1..(i-1) : t[j] = s[j + 1] /\ j + 1 \in 1..((i + 1) - 1)
          BY <1>2, <3>1
        <4>2. \A j \in 1..((i + 1) - 1) : s[j] # s[i + 1]
          BY <1>3, <4>1
        <4>3. t[i] # r
          BY <1>2, <4>1, <4>2
        <4> QED BY <1>1, <1>3, <4>1, <4>2, <4>3
      <3>2. queue'[b] = Tail(s) /\ h' = h /\ sent' = sent
        BY <1>1, <2>2
      <3> QED BY <2>2, <3>1, <3>2 DEF QueueInv
    <2> QED BY <2>1, <2>2
  <1>7. ASSUME NEW q \in Requests PROVE RequestInv(q)'
    BY <1>1, <1>4 DEF WholeInv, RequestInv
  <1>8. ASSUME NEW q \in Requests PROVE ReplyInv(q)'
    BY <1>1, <1>5, ReplyKept DEF WholeInv
  <1>9. ASSUME NEW q \in Requests, q # r \/ working' = working PROVE NoGap(q)'
    BY <1>1, <1>5, <1>9, NoGapKept DEF WholeInv
  <1>10. NoGap(r)'
    <2>1. (Passed(r) + 1)..sent[r] = {}
      BY <1>2, <1>4, Counts
    <2>2. NoGap(r)
      BY <1>2 DEF WholeInv
    <2> QED BY <1>1, <1>5, <1>2, <2>1, <2>2 DEF NoGap, Coming, Among
  <1> QED BY <1>6, <1>7, <1>8, <1>9, <1>10 DEF WholeInv

\* While the HTTP handler waits, the message that comes is the next one for it; a
\* message that is dropped is for an HTTP handler that has ended.
LEMMA ReceiveNext ==
  ASSUME TypeOK, PlaceInv, WholeInv, NEW a \in Agents, Receive(a), NEW m, m = Head(inbound[a]),
         NEW r, r = m.req, h[r] \notin Ended, r \notin lost
  PROVE  /\ r \in handlers /\ m = Message(r, Passed(r) + 1) /\ Passed(r) \in Nat
         /\ Delivered(r)' = Delivered(r) /\ Passed(r) = Delivered(r)
         /\ InHand(r)' /\ held'[a] = m /\ Passed(r)' = Passed(r) + 1
  <1> SUFFICES ASSUME NEW s, s = inbound[a]
               PROVE  /\ r \in handlers /\ m = Message(r, Passed(r) + 1) /\ Passed(r) \in Nat
                      /\ Delivered(r)' = Delivered(r) /\ Passed(r) = Delivered(r)
                      /\ InHand(r)' /\ held'[a] = m /\ Passed(r)' = Passed(r) + 1
    OBVIOUS
  <1>1. inbound[a] # <<>>
    BY DEF Receive
  <1>2. /\ r \in Requests /\ To[r] = a /\ m.no \in 1..ReplyLen
        /\ Passed(r) < m.no /\ m.no <= sent[r] /\ m = s[1] /\ Len(s) \in Nat \ {0}
    BY <1>1, FirstOnStream
  <1>3. Passed(r) \in Nat /\ sent[r] \in Nat
    BY <1>2, Counts
  <1>4. r \in handlers
    <2>1. sent[r] # 0
      BY <1>2, <1>3
    <2> QED BY <1>2, <2>1 DEF WholeInv, RequestInv, TypeOK, Unsent, Ended
  <1>5. InHand(r)' /\ Delivered(r)' = Delivered(r) /\ ~InHand(r) /\ held'[a] = m
    <2>1. InHand(r)' /\ Delivered(r)' = Delivered(r) /\ ~InHand(r)
      BY <1>2, <1>4, ReceiveCount
    <2> QED BY <1>4, <2>1 DEF Receive, TypeOK
  <1>6. Passed(r)' = Passed(r) + 1 /\ Passed(r) = Delivered(r)
    BY <1>5 DEF Passed
  <1>7. m = Message(r, Passed(r) + 1)
    <2>1. 1 \in 1..Len(s) /\ Passed(r) + 1 \in (Passed(r) + 1)..m.no
      BY <1>2, <1>3
    <2>2. Coming(r, m.no, 1)
      BY <1>2, <2>1 DEF WholeInv, NoGap
    <2>3. PICK j \in 1..1 : s[j] = Message(r, Passed(r) + 1)
      BY <1>2, <2>1, <2>2 DEF Coming, Among
    <2>4. j = 1
      BY <2>3
    <2> QED BY <1>2, <2>3, <2>4
  <1> QED BY <1>3, <1>4, <1>5, <1>6, <1>7

LEMMA ReceiveWhole ==
  ASSUME TypeOK, PlaceInv, WholeInv, NEW a \in Agents, Receive(a)
  PROVE  WholeInv'
  <1> SUFFICES ASSUME NEW m, m = Head(inbound[a]), NEW s, s = inbound[a], NEW r, r = m.req
               PROVE  WholeInv'
    OBVIOUS
  <1>1. /\ UNCHANGED <<h, handlers, got, respCh, queue, lost, sent, working>>
        /\ inbound'[a] = Tail(s) /\ s # <<>>
        /\ \A b \in Agents \ {a} : inbound'[b] = inbound[b] /\ held'[b] = held[b]
    BY DEF Receive, TypeOK, http, agent
  <1>2. /\ m \in Messages /\ r \in Requests /\ To[r] = a
        /\ s \in Seq(Messages) /\ Len(s) \in Nat \ {0} /\ m = s[1]
        /\ Len(Tail(s)) = Len(s) - 1
        /\ \A i \in 1..Len(Tail(s)) : Tail(s)[i] = s[i + 1] /\ i + 1 \in 1..Len(s)
    BY <1>1, FirstOnStream
  <1>3. \A q \in Requests \ {r} : /\ InHand(q)' => InHand(q) /\ To[q] # a
                                  /\ Passed(q)' = Passed(q) /\ To[q] \in Agents
    <2>1. \A q \in Requests \ {r} : (InHand(q)' <=> InHand(q)) /\ (InHand(q)' => To[q] # a)
      BY <1>2, ReceiveCount
    <2>2. \A q \in Requests : Delivered(q)' = Delivered(q) /\ To[q] \in Agents
      BY ReceiveCount
    <2> QED BY <2>1, <2>2 DEF Passed
  <1>4. ASSUME NEW b \in Agents PROVE QueueInv(b)'
    BY <1>1, QueueKept DEF WholeInv
  <1>5. ASSUME NEW q \in Requests PROVE RequestInv(q)'
    BY <1>1, RequestKept DEF WholeInv
  <1>6. ASSUME NEW q \in Requests PROVE ReplyInv(q)'
    <2>1. CASE q # r
      BY <1>1, <1>3, <2>1, ReplyKept DEF WholeInv
    <2>2. CASE q = r /\ (h[r] \in Ended \/ r \in lost)
      BY <1>1, <2>2 DEF WholeInv, ReplyInv, InOrder
    <2>3. CASE q = r /\ h[r] \notin Ended /\ r \notin lost
      <3>1. /\ held'[a] = m /\ m = Message(r, Passed(r) + 1)
            /\ Delivered(r)' = Delivered(r) /\ Passed(r) = Delivered(r)
        BY <2>3, ReceiveNext
      <3>2. held'[To[r]].no = Delivered(r)' + 1
        BY <1>2, <3>1 DEF Message
      <3> QED BY <1>1, <1>2, <2>3, <3>2 DEF WholeInv, ReplyInv, InOrder
    <2> QED BY <2>1, <2>2, <2>3
  <1>7. ASSUME NEW q \in Requests PROVE NoGap(q)'
    <2>1. CASE To[q] # a
      BY <1>1, <1>2, <1>3, <2>1, NoGapKept DEF WholeInv
    <2>2. CASE h[q] \in Ended \/ q \in lost
      BY <1>1, <2>2 DEF NoGap
    <2>3. CASE To[q] = a /\ h[q] \notin Ended /\ q \notin lost
      <3>1. ASSUME NEW n, NEW k \in 1..Len(s), Among(q, s, Passed(q) + 1, n, k)
            PROVE  Among(q, Tail(s), Passed(q)' + 1, n, k - 1)
        <4>1. /\ \A x \in (Passed(q)' + 1)..n : s[1] # Message(q, x)
              /\ \A x \in (Passed(q)' + 1)..n : x \in (Passed(q) + 1)..n
          <5>1. CASE q # r
            BY <1>2, <1>3, <5>1 DEF Message
          <5>2. CASE q = r
            <6>1. m = Message(r, Passed(r) + 1) /\ Passed(r)' = Passed(r) + 1 /\ Passed(r) \in Nat
              BY <2>3, <5>2, ReceiveNext
            <6>2. s[1].no = Passed(q) + 1
              BY <1>2, <5>2, <6>1 DEF Message
            <6> QED BY <5>2, <6>1, <6>2 DEF Message
          <5> QED BY <5>1, <5>2
        <4>2. Among(q, s, Passed(q)' + 1, n, k)
          BY <3>1, <4>1 DEF Among
        <4> QED BY <1>1, <1>2, <4>1, <4>2, AmongTail
      <3>2. ASSUME NEW i \in 1..Len(Tail(s)), Tail(s)[i].req = q
            PROVE  Among(q, Tail(s), Passed(q)' + 1, Tail(s)[i].no, i)
        <4>1. Tail(s)[i] = s[i + 1] /\ i + 1 \in 1..Len(s) /\ (i + 1) - 1 = i
          BY <1>2
        <4>2. Among(q, s, Passed(q) + 1, s[i + 1].no, i + 1)
          BY <2>3, <3>2, <4>1 DEF WholeInv, NoGap, Coming
        <4>3. Among(q, Tail(s), Passed(q)' + 1, s[i + 1].no, (i + 1) - 1)
          BY <3>1, <4>1, <4>2
        <4> QED BY <4>1, <4>3
      <3>3. ASSUME q \in working
            PROVE  Among(q, Tail(s), Passed(q)' + 1, sent[q], Len(Tail(s)))
        <4>1. Len(s) \in 1..Len(s)
          BY <1>2
        <4>2. Among(q, s, Passed(q) + 1, sent[q], Len(s))
          BY <2>3, <3>3 DEF WholeInv, NoGap, Coming
        <4>3. Among(q, Tail(s), Passed(q)' + 1, sent[q], Len(s) - 1)
          BY <3>1, <4>1, <4>2
        <4> QED BY <1>2, <4>3
      <3> QED BY <1>1, <2>3, <3>2, <3>3 DEF NoGap, Coming
    <2> QED BY <2>1, <2>2, <2>3
  <1> QED BY <1>4, <1>5, <1>6, <1>7 DEF WholeInv

LEMMA AgentSendsWhole ==
  ASSUME TypeOK, PlaceInv, WholeInv, NEW r \in Requests, AgentSends(r)
  PROVE  WholeInv'
  <1> SUFFICES ASSUME NEW a, a = To[r],
                      NEW m, m = Message(r, sent[r] + 1), NEW s, s = inbound[a]
               PROVE  WholeInv'
    OBVIOUS
  <1>1. /\ r \in working
        /\ sent[r] \in Nat /\ m.req = r /\ m.no = sent[r] + 1
        /\ sent'[r] = sent[r] + 1 /\ \A q \in Requests \ {r} : sent'[q] = sent[q]
        /\ UNCHANGED <<h, handlers, got, respCh, queue, loop, held, link, working>>
        /\ a \in Agents /\ s \in Seq(Messages) /\ Len(s) \in Nat
        /\ \A b \in Agents \ {a} : inbound'[b] = inbound[b]
        /\ inbound'[a] = IF link[a] = "up" THEN Append(s, m) ELSE s
        /\ Len(Append(s, m)) = Len(s) + 1 /\ Append(s, m)[Len(s) + 1] = m
        /\ \A i \in 1..Len(s) : Append(s, m)[i] = s[i]
        /\ lost' = IF link[a] = "up" THEN lost ELSE lost \cup {r}
    BY AgentSendsOnStream
  <1>2. m \in Messages /\ h[r] \notin Unsent
    <2>1. h[r] \notin Unsent
      BY <1>1 DEF WholeInv, RequestInv
    <2>2. sent[r] + 1 \in 1..ReplyLen
      BY <1>1 DEF AgentSends, TypeOK
    <2> QED BY <1>1, <2>1, <2>2 DEF Message, Messages
  <1>3. \A q \in Requests : Passed(q)' = Passed(q) /\ (InHand(q)' <=> InHand(q)) /\ To[q] \in Agents
    BY <1>1 DEF Passed, Delivered, InHand
  <1>4. ASSUME NEW b \in Agents PROVE QueueInv(b)'
    <2>1. \A q \in Requests : q \notin working /\ sent[q] = 0 => q \notin working' /\ sent'[q] = 0
      BY <1>1
    <2> QED BY <1>1, <2>1, QueueKept DEF WholeInv
  <1>5. ASSUME NEW q \in Requests PROVE RequestInv(q)'
    BY <1>1, <1>2 DEF WholeInv, RequestInv
  <1>6. ASSUME NEW q \in Requests PROVE ReplyInv(q)'
    BY <1>1, <1>3, ReplyKept DEF WholeInv
  <1>7. ASSUME NEW q \in Requests, To[q] # a \/ (q # r /\ link[a] # "up") PROVE NoGap(q)'
    BY <1>1, <1>3, <1>7, NoGapKept DEF WholeInv
  <1>8. ASSUME NEW q \in Requests, To[q] = a, link[a] = "up", h[q] \notin Ended, q \notin lost
        PROVE  NoGap(q)'
    <2> DEFINE t == Append(s, m)
               f == Passed(q) + 1
    <2>1. ASSUME NEW n, NEW k \in 0..Len(s), Among(q, s, f, n, k)
          PROVE  Among(q, t, f, n, k)
      BY <1>1, <1>2, <2>1, AmongAppend
    <2>2. ASSUME NEW i \in 1..Len(s), s[i].req = q PROVE Among(q, t, f, s[i].no, i)
      <3>1. i \in 0..Len(s) /\ Among(q, s, f, s[i].no, i)
        BY <1>8, <2>2 DEF WholeInv, NoGap, Coming
      <3> QED BY <2>1, <3>1
    <2>3. ASSUME q \in working PROVE Among(q, t, f, sent[q], Len(s))
      <3>1. Len(s) \in 0..Len(s) /\ Among(q, s, f, sent[q], Len(s))
        BY <1>1, <1>8, <2>3 DEF WholeInv, NoGap, Coming
      <3> QED BY <2>1, <3>1
    <2>4. Passed(q) \in Nat
      BY Counts
    <2> HIDE DEF t, f
    <2>5. t[Len(s) + 1] = Message(r, sent[r] + 1) /\ Len(t) = Len(s) + 1
      BY <1>1 DEF t
    <2>6. ASSUME q = r PROVE Among(q, t, f, sent[q] + 1, Len(s) + 1)
      <3>1. Among(q, t, f, sent[q], Len(s)) /\ sent[q] \in Nat /\ f \in Nat
        BY <1>1, <2>3, <2>4, <2>6 DEF f
      <3>2. \A x \in f..(sent[q] + 1) : x \in f..sent[q] \/ x = sent[q] + 1
        BY <3>1
      <3>3. /\ Len(s) + 1 \in 1..(Len(s) + 1)
            /\ \A j \in 1..Len(s) : j \in 1..(Len(s) + 1)
        BY <1>1
      <3> QED BY <2>5, <2>6, <3>1, <3>2, <3>3 DEF Among
    <2>7. ASSUME q # r, q \in working PROVE Among(q, t, f, sent'[q], Len(t))
      <3>1. Among(q, t, f, sent[q], Len(s)) /\ sent'[q] = sent[q]
        BY <1>1, <2>3, <2>7
      <3>2. \A j \in 1..Len(s) : j \in 1..Len(t)
        BY <1>1, <2>5
      <3> QED BY <3>1, <3>2 DEF Among
    <2>8. ASSUME NEW i \in 1..Len(t), t[i].req = q PROVE Among(q, t, f, t[i].no, i)
      <3>1. CASE i \in 1..Len(s)
        BY <1>1, <2>2, <2>8, <3>1 DEF t
      <3>2. CASE i = Len(s) + 1
        BY <1>1, <2>5, <2>6, <2>8, <3>2 DEF Message
      <3> QED BY <1>1, <2>5, <3>1, <3>2
    <2>9. q \in working => Among(q, t, f, sent'[q], Len(t))
      BY <1>1, <2>5, <2>6, <2>7
    <2>10. inbound'[To[q]] = t /\ Passed(q)' + 1 = f /\ working' = working
      BY <1>1, <1>2, <1>3, <1>8 DEF t, f
    <2> QED BY <2>8, <2>9, <2>10 DEF NoGap, Coming
  <1>9. ASSUME NEW q \in Requests PROVE NoGap(q)'
    <2>1. CASE h[q] \in Ended \/ q \in lost'
      BY <1>1, <2>1 DEF NoGap
    <2> QED BY <1>1, <1>7, <1>8, <2>1
  <1> QED BY <1>4, <1>5, <1>6, <1>9 DEF WholeInv

LEMMA InitWhole == Init => WholeInv
  <1> SUFFICES ASSUME Init PROVE WholeInv
    OBVIOUS
  <1>1. Len(<<>>) = 0
    BY EmptySeq
  <1>2. \A a \in Agents : QueueInv(a)
    BY <1>1 DEF Init, QueueInv
  <1>3. \A r \in Requests : RequestInv(r)
    BY DEF Init, RequestInv
  <1>4. ASSUME NEW r \in Requests PROVE ReplyInv(r) /\ NoGap(r)
    <2>1. /\ h[r] = "idle" /\ got[r] = <<>> /\ respCh[r] = <<>> /\ inbound[To[r]] = <<>>
          /\ r \notin working /\ ~InHand(r)
      BY DEF Init, InHand
    <2>2. ReplyInv(r)
      BY <1>1, <2>1, EmptyInOrder DEF ReplyInv, Ended
    <2>3. NoGap(r)
      BY <1>1, <2>1 DEF NoGap
    <2> QED BY <2>2, <2>3
  <1> QED BY <1>2, <1>3, <1>4 DEF WholeInv

LEMMA WholeNext ==
  ASSUME TypeOK, PlaceInv, WholeInv, [Next]_vars
  PROVE  WholeInv'
  <1>1. CASE UNCHANGED vars
    <2>1. UNCHANGED <<h, handlers, got, respCh, queue, loop, held, inbound, lost, working, sent>>
      BY <1>1 DEF vars, http, conn, stream, agent
    <2>2. \A q \in Requests : Passed(q)' = Passed(q) /\ (InHand(q)' <=> InHand(q))
      BY <2>1 DEF Passed, Delivered, InHand
    <2>3. ASSUME NEW a \in Agents PROVE QueueInv(a)'
      BY <2>1, QueueKept DEF WholeInv
    <2>4. ASSUME NEW q \in Requests PROVE RequestInv(q)'
      BY <2>1, RequestKept DEF WholeInv
    <2>5. ASSUME NEW q \in Requests PROVE ReplyInv(q)'
      BY <2>1, <2>2, ReplyKept DEF WholeInv
    <2>6. ASSUME NEW q \in Requests PROVE NoGap(q)'
      BY <2>1, <2>2, NoGapKept DEF WholeInv
    <2> QED BY <2>3, <2>4, <2>5, <2>6 DEF WholeInv
  <1> QED BY <1>1, HandlerWhole, CollectWhole, DeliverWhole, LoopWhole, LinkDownWhole, SendLoopWhole,
             ReceiveWhole, AgentSendsWhole DEF Next, HandlerStep, ConnectStep

\* As long as the HTTP handler of a request waits, no message of its reply is passed
\* over, unless a broken stream lost one.
THEOREM WholeInvariant == Spec => [](TypeOK /\ PlaceInv /\ WholeInv)
  <1>1. TypeOK /\ PlaceInv /\ WholeInv /\ [Next]_vars => WholeInv'
    BY WholeNext
  <1> QED BY InitWhole, <1>1, PlaceInvariant, PTL DEF Spec

\* A client that is answered has the whole reply to its own request, every message once
\* and in order, whatever breaks, ends or is given up meanwhile, unless a broken stream
\* lost a message of it; also from an agent that goes on over its next stream.
THEOREM WholeAnswer == Spec => []AnswerIsWhole
  <1>1. TypeOK /\ PlaceInv /\ WholeInv => AnswerIsWhole
    <2> SUFFICES ASSUME TypeOK, WholeInv, NEW r \in Requests, h[r] = "answered", r \notin lost
                 PROVE  got[r] = [i \in 1..ReplyLen |-> Message(r, i)]
      BY DEF AnswerIsWhole, Reply
    <2>1. got[r] \in Seq(Messages) /\ InOrder(r, got[r], 0) /\ Len(got[r]) = ReplyLen
      BY DEF TypeOK, WholeInv, ReplyInv
    <2>2. got[r] = [i \in 1..Len(got[r]) |-> [req |-> r, no |-> i]]
      BY <2>1, WholeInOrder
    <2> QED BY <2>1, <2>2 DEF Message
  <1> QED BY <1>1, WholeInvariant, PTL

-----------------------------------------------------------------------------
(* Dispatch implements ChatReply: every step is a step of ChatReply or     *)
(* changes nothing that it speaks of.                                      *)

LEMMA SameStatus ==
  ASSUME UNCHANGED <<h, got, lost>>
  PROVE  UNCHANGED Promise!vars
  BY DEF Promise!vars, Status

\* A message is lost, or several are.
LEMMA BreakRefines ==
  ASSUME UNCHANGED <<h, got>>, NEW R \in SUBSET Requests, lost' = lost \cup R
  PROVE  Promise!Next
  BY DEF Promise!Next, Promise!Break, Status

LEMMA StatusStep ==
  ASSUME TypeOK, NEW r \in Requests, NEW y, h' = [h EXCEPT ![r] = y]
  PROVE  Status' = [Status EXCEPT ![r] = Shown(y)] /\ Status[r] = Shown(h[r])
  BY DEF TypeOK, Status

LEMMA HandlerRefines ==
  ASSUME TypeOK, NEW r \in Requests, Start(r) \/ HandlerStep(r), ~Collect(r)
  PROVE  [Promise!Next]_(Promise!vars)
  <1> USE DEF Promise!Turn, Shown
  <1>1. ASSUME NEW x, NEW y, Step(r, x, y), UNCHANGED <<got, lost>>,
               \/ Shown(x) = Shown(y)
               \/ Shown(x) = "idle" /\ Shown(y) \in {"open", "forwarded"}
               \/ Shown(x) = "open" /\ Shown(y) = "failed"
        PROVE  [Promise!Next]_(Promise!vars)
    <2>1. Status' = [Status EXCEPT ![r] = Shown(y)] /\ Status[r] = Shown(x)
      BY <1>1, StatusStep DEF Step
    <2>2. CASE Shown(x) = Shown(y)
      BY <1>1, <2>1, <2>2 DEF Promise!vars, Status
    <2>3. CASE Shown(x) = "idle" /\ Shown(y) = "open"
      BY <1>1, <2>1, <2>3 DEF Promise!Next, Promise!Ask
    <2>4. CASE Shown(x) = "idle" /\ Shown(y) = "forwarded"
      BY <1>1, <2>1, <2>4 DEF Promise!Next, Promise!Forward
    <2>5. CASE Shown(x) = "open" /\ Shown(y) = "failed"
      BY <1>1, <2>1, <2>5 DEF Promise!Next, Promise!Fail
    <2> QED BY <1>1, <2>2, <2>3, <2>4, <2>5
  <1>2. CASE Start(r)
    BY <1>1, <1>2 DEF Start, stream
  <1>3. CASE RegisterResponseHandler(r)
    BY <1>1, <1>3 DEF RegisterResponseHandler, stream
  <1>4. CASE SendRequest(r)
    BY <1>1, <1>4 DEF SendRequest, stream
  <1>7. CASE Enqueue(r)
    BY <1>1, <1>7 DEF Enqueue, stream
  <1>5. CASE GiveUp(r)
    BY <1>1, <1>5 DEF GiveUp, stream
  <1>6. CASE UnregisterResponseHandler(r)
    BY <1>6, SameStatus DEF UnregisterResponseHandler, stream
  <1> QED BY <1>2, <1>3, <1>4, <1>5, <1>6, <1>7 DEF HandlerStep

LEMMA CollectRefines ==
  ASSUME TypeOK, NEW r \in Requests, ReplyInv(r), OrderInv(r), Collect(r)
  PROVE  Promise!Show(r)
  <1> SUFFICES ASSUME NEW g, g = got[r], NEW c, c = respCh[r], NEW m, m = Head(c),
                      NEW n, n = m.no
               PROVE  Promise!Show(r)
    OBVIOUS
  <1>1. /\ g \in Seq(Messages) /\ c \in Seq(Messages) /\ c # <<>> /\ h[r] = "waiting"
        /\ h' = [h EXCEPT ![r] = IF n = ReplyLen THEN "answered" ELSE "waiting"]
        /\ got' = [got EXCEPT ![r] = Append(@, m)] /\ lost' = lost
    BY DEF Collect, TypeOK, Done, stream
  <1>2. m \in Messages /\ m.req = r /\ 1 \in 1..Len(c) /\ m = c[1]
    BY <1>1, TailRising DEF OrderInv
  <1>3. n \in 1..ReplyLen /\ m = Promise!Message(r, n)
    BY <1>2 DEF Messages, Promise!Message
  <1>4. Len(g) \in Nat /\ (g # <<>> => Len(g) \in 1..Len(g))
    BY <1>1, EmptySeq, LenProperties
  <1>5. n > Promise!Last(g)
    <2>1. \A j \in 1..Len(g) : g[j] \in Messages /\ g[j].no < n
      BY <1>1, <1>2, ElementOfSeq DEF OrderInv
    <2>2. \A j \in 1..Len(g) : g[j].no \in Nat
      BY <2>1 DEF Messages
    <2> QED BY <1>3, <1>4, <2>1, <2>2 DEF Promise!Last
  <1>6. ASSUME r \notin lost PROVE n = Promise!Last(g) + 1
    <2>1. InOrder(r, g, 0) /\ InOrder(r, c, Len(g))
      BY <1>1, <1>6 DEF ReplyInv, Ended
    <2>2. n = Len(g) + 1
      <3>1. c[1] = [req |-> r, no |-> Len(g) + 1]
        BY <1>2, <2>1, AtInOrder
      <3> QED BY <1>2, <3>1
    <2>3. \A j \in 1..Len(g) : g[j].no = j
      <3> SUFFICES ASSUME NEW j \in 1..Len(g) PROVE g[j].no = j
        OBVIOUS
      <3>1. g[j] = [req |-> r, no |-> 0 + j]
        BY <2>1, AtInOrder
      <3>2. 0 + j = j
        BY <1>4
      <3> QED BY <3>1, <3>2
    <2>4. CASE g = <<>>
      BY <2>2, <2>4, EmptySeq DEF Promise!Last
    <2>5. CASE g # <<>>
      BY <1>4, <2>2, <2>3, <2>5 DEF Promise!Last
    <2> QED BY <2>4, <2>5
  <1>7. /\ Status' = [Status EXCEPT ![r] = IF n = ReplyLen THEN "answered" ELSE "open"]
        /\ Status[r] = "open"
    BY <1>1, StatusStep DEF Shown
  <1> QED BY <1>1, <1>3, <1>5, <1>6, <1>7 DEF Promise!Show, Promise!Turn

LEMMA StepRefines ==
  ASSUME TypeOK, WholeInv, \A r \in Requests : OrderInv(r), [Next]_vars
  PROVE  [Promise!Next]_(Promise!vars)
  <1>1. ASSUME NEW r \in Requests, Start(r) \/ HandlerStep(r)
        PROVE  [Promise!Next]_(Promise!vars)
    <2>1. CASE Collect(r)
      BY <2>1, CollectRefines DEF WholeInv, Promise!Next
    <2> QED BY <1>1, <2>1, HandlerRefines
  <1>2. ASSUME NEW r \in Requests, AgentSends(r) PROVE [Promise!Next]_(Promise!vars)
    <2>1. UNCHANGED <<h, got>> /\ (lost' = lost \/ lost' = lost \cup {r})
      BY <1>2 DEF AgentSends, http
    <2>2. CASE lost' = lost
      BY <2>1, <2>2, SameStatus
    <2>3. CASE lost' = lost \cup {r}
      <3>1. {r} \in SUBSET Requests
        OBVIOUS
      <3>2. UNCHANGED <<h, got>>
        BY <2>1
      <3> QED BY <2>3, <3>1, <3>2, BreakRefines
    <2> QED BY <2>1, <2>2, <2>3
  <1>3. ASSUME NEW a \in Agents, EndReceive(a) PROVE [Promise!Next]_(Promise!vars)
    <2>1. UNCHANGED <<h, got>> /\ lost' = lost \cup OnStream(a)
      BY <1>3 DEF EndReceive, http
    <2> QED BY <2>1, OnStreamRequests, BreakRefines
  <1>4. ASSUME NEW a \in Agents,
               \/ Receive(a) \/ Deliver(a) \/ DeleteLocal(a)
               \/ SendLoop(a) \/ SendLoopDone(a) \/ LinkDown(a) \/ Reconnect(a)
        PROVE  UNCHANGED <<h, got, lost>>
    BY <1>4 DEF Receive, Deliver, DeleteLocal, SendLoop, SendLoopDone, LinkDown, Reconnect,
                http, stream
  <1>5. CASE UNCHANGED vars
    BY <1>5, SameStatus DEF vars, http, stream
  <1> QED BY <1>1, <1>2, <1>3, <1>4, <1>5, SameStatus DEF Next, ConnectStep

\* The local path keeps the safety part of ChatReply: a request ends once, the message
\* that is shown is a later one of its own reply, and the very next one unless a broken
\* stream lost some, "answered" comes with the last one, and nothing is shown after it.
THEOREM LocalPathRefines == Spec => Promise!Init /\ [][Promise!Next]_(Promise!vars)
  <1>1. Init => Promise!Init
    BY DEF Init, Promise!Init, Status, Shown
  <1>2. TypeOK /\ WholeInv /\ (\A r \in Requests : OrderInv(r)) /\ [Next]_vars
           => [Promise!Next]_(Promise!vars)
    BY StepRefines
  <1> QED BY <1>1, <1>2, WholeInvariant, OrderInvariant, PTL DEF Spec
=============================================================================
