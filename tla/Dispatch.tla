------------------------------- MODULE Dispatch -------------------------------
(***************************************************************************)
(* How a chat request travels inside one gateway: the HTTP handler of      *)
(* internal/handler/chat.go (the local path; ForwardRequest of             *)
(* internal/agent/grpc_internal.go serves a peer gateway the same way),    *)
(* and the response handlers, send loop, receive loop and teardown of      *)
(* internal/agent/grpc_server.go.                                          *)
(*                                                                         *)
(* The agent is external (pkg/agentsdk): it replies to a request with      *)
(* ReplyLen messages, the last one marked done, and when its connection    *)
(* breaks it may go on with the reply over the next one.  A message stands *)
(* for its request and its place in the reply.                             *)
(***************************************************************************)
EXTENDS Naturals, Sequences

CONSTANTS
    Requests,       \* request IDs, each used once (uuid)
    Agents,         \* agents, each with at most one connection
    To,             \* the agent that a request is routed to
    ReplyLen,       \* messages in a reply
    RespCap,        \* capacity of respCh, 16 in the code
    ReqCap,         \* capacity of agentConn.requests, requestChannelSize
    MaxReconnects,  \* bound on reconnections of an agent
    NoMessage

ASSUME DispatchAssumption ==
    /\ To \in [Requests -> Agents]
    /\ ReplyLen \in Nat \ {0}
    /\ RespCap \in Nat \ {0}
    /\ ReqCap \in Nat \ {0}
    /\ MaxReconnects \in Nat

VARIABLES
    h,          \* where the HTTP handler of a request stands
    handlers,   \* requests with an entry in responseHandlers
    respCh,     \* channel between the response handler and the HTTP handler
    got,        \* messages that the HTTP handler has taken
    queue,      \* agentConn.requests
    stale,      \* requests on their way to the channel of a connection that was replaced
    sender,     \* sendLoop
    loop,       \* recvLoop and what follows it in Connect
    held,       \* message that recvLoop is handing to its response handler
    link,       \* the stream, as the network has it
    inbound,    \* messages on the stream, from the agent
    lost,       \* requests of whose replies a message was lost on a broken stream
    working,    \* requests that the agent is replying to
    sent,       \* messages it has sent for each
    reconnects

http  == <<h, handlers, got>>
conn  == <<queue, sender, loop, held>>
stream == <<inbound, lost>>
agent == <<link, working, sent, reconnects, stale>>
vars  == <<http, respCh, conn, stream, agent>>

Message(r, n) == [req |-> r, no |-> n]
\* Mutant of Done: the first response is taken for the whole reply.
DoneAtOnce(m) == TRUE

Done(m) == m.no = ReplyLen

-----------------------------------------------------------------------------
(* The HTTP handler.                                                       *)

Step(r, from, to) == h[r] = from /\ h' = [h EXCEPT ![r] = to]

\* localAgents has the agent until Connect deletes it, after the receive loop.
HasLocalAgent(a) == loop[a] # "gone"

Start(r) ==
    /\ IF HasLocalAgent(To[r]) THEN Step(r, "idle", "local")
                               ELSE Step(r, "idle", "forwarded")
    /\ UNCHANGED <<handlers, got, respCh, conn, stream, agent>>

RegisterResponseHandler(r) ==
    /\ Step(r, "local", "registered")
    /\ handlers' = handlers \cup {r}
    /\ UNCHANGED <<got, respCh, conn, stream, agent>>

\* SendRequest reads the connection of the agent under the lock; it may be gone.
SendRequest(r) ==
    /\ Step(r, "registered", IF HasLocalAgent(To[r]) THEN "sending" ELSE "failed")
    /\ UNCHANGED <<handlers, got, respCh, conn, stream, agent>>

\* Mutant of Enqueue: off by one at the capacity of the channel.
EnqueueOverfull(r) ==
    LET a == To[r] IN
    /\ r \notin stale
    /\ Len(queue[a]) <= ReqCap
    /\ Step(r, "sending", "waiting")
    /\ queue' = [queue EXCEPT ![a] = Append(@, r)]
    /\ UNCHANGED <<handlers, got, respCh, sender, loop, held, stream, agent>>

\* It writes to the channel of that connection, or fails when it is full.  The
\* connection may have ended meanwhile, or another one taken its place, whose
\* channel is not this one: the request then waits for a reply and nobody has it.
Enqueue(r) ==
    LET a == To[r] IN
    /\ \/ /\ r \notin stale /\ Len(queue[a]) < ReqCap
          /\ Step(r, "sending", "waiting")
          /\ queue' = [queue EXCEPT ![a] = Append(@, r)]
       \/ /\ r \notin stale /\ Len(queue[a]) >= ReqCap
          /\ Step(r, "sending", "failed")
          /\ UNCHANGED queue
       \/ /\ r \in stale
          /\ Step(r, "sending", "waiting") \/ Step(r, "sending", "failed")
          /\ UNCHANGED queue
    /\ UNCHANGED <<handlers, got, respCh, sender, loop, held, stream, agent>>

\* A response: the last one ends the wait.
Collect(r) ==
    /\ h[r] = "waiting"
    /\ respCh[r] # <<>>
    /\ respCh' = [respCh EXCEPT ![r] = Tail(@)]
    /\ got' = [got EXCEPT ![r] = Append(@, Head(respCh[r]))]
    /\ h' = [h EXCEPT ![r] = IF Done(Head(respCh[r])) THEN "answered" ELSE "waiting"]
    /\ UNCHANGED <<handlers, conn, stream, agent>>

\* Mutant of GiveUp: there is no timer, and the wait ends with the connection only.
GiveUpWhenGone(r) ==
    /\ ~HasLocalAgent(To[r])
    /\ Step(r, "waiting", "failed")
    /\ UNCHANGED <<handlers, got, respCh, conn, stream, agent>>

\* responseTimeout, or the client is gone.  select takes it even when there is
\* a response too.
GiveUp(r) ==
    /\ Step(r, "waiting", "failed")
    /\ UNCHANGED <<handlers, got, respCh, conn, stream, agent>>

\* Mutant of UnregisterResponseHandler: not deferred, an early return skips it.
UnregisterWhenAnswered(r) ==
    /\ h[r] = "answered"
    /\ r \in handlers
    /\ handlers' = handlers \ {r}
    /\ UNCHANGED <<h, got, respCh, conn, stream, agent>>

\* The deferred call, on every way out.
UnregisterResponseHandler(r) ==
    /\ h[r] \in {"answered", "failed"}
    /\ r \in handlers
    /\ handlers' = handlers \ {r}
    /\ UNCHANGED <<h, got, respCh, conn, stream, agent>>

-----------------------------------------------------------------------------
(* The connection.                                                         *)

\* sendLoop takes a request.  Send on a broken stream may fail, which ends the
\* loop and not the connection, or may not notice; the request is lost.
SendLoop(a) ==
    /\ sender[a] = "running"
    /\ queue[a] # <<>>
    /\ queue' = [queue EXCEPT ![a] = Tail(@)]
    /\ \/ /\ link[a] = "up"
          /\ working' = working \cup {Head(queue[a])}
          /\ UNCHANGED sender
       \/ /\ link[a] = "down"
          /\ \/ sender' = [sender EXCEPT ![a] = "stopped"]
             \/ UNCHANGED sender
          /\ UNCHANGED working
    /\ UNCHANGED <<http, respCh, loop, held, stream, link, sent, reconnects, stale>>

\* conn.done is closed: sendLoop returns and the requests in the channel are lost.
SendLoopDone(a) ==
    /\ loop[a] \in {"closing", "gone"}
    /\ sender[a] = "running"
    /\ sender' = [sender EXCEPT ![a] = "stopped"]
    /\ UNCHANGED <<http, respCh, queue, loop, held, stream, agent>>

\* Mutant of Receive: responses are handed on by goroutines of their own.
ReceiveAnyOrder(a) == \E i \in 1..Len(inbound[a]) :
    /\ loop[a] = "receiving"
    /\ inbound' = [inbound EXCEPT ![a] =
                      SubSeq(@, 1, i - 1) \o SubSeq(@, i + 1, Len(@))]
    /\ IF inbound[a][i].req \in handlers
         THEN /\ loop' = [loop EXCEPT ![a] = "delivering"]
              /\ held' = [held EXCEPT ![a] = inbound[a][i]]
         ELSE UNCHANGED <<loop, held>>
    /\ UNCHANGED <<http, respCh, queue, sender, lost, agent>>

\* recvLoop takes a response and looks its handler up, under the lock.
Receive(a) ==
    /\ loop[a] = "receiving"
    /\ inbound[a] # <<>>
    /\ inbound' = [inbound EXCEPT ![a] = Tail(@)]
    /\ IF Head(inbound[a]).req \in handlers
         THEN /\ loop' = [loop EXCEPT ![a] = "delivering"]
              /\ held' = [held EXCEPT ![a] = Head(inbound[a])]
         ELSE UNCHANGED <<loop, held>>
    /\ UNCHANGED <<http, respCh, queue, sender, lost, agent>>

\* Mutant of Deliver: a delivery that went well is tried again.
DeliverAgain(a) ==
    LET r == held[a].req IN
    /\ loop[a] = "delivering"
    /\ Len(respCh[r]) < RespCap
    /\ respCh' = [respCh EXCEPT ![r] = Append(@, held[a])]
    /\ UNCHANGED <<http, conn, stream, agent>>

\* The response handler, called without the lock, blocks while respCh is full.
Deliver(a) ==
    LET r == held[a].req IN
    /\ loop[a] = "delivering"
    /\ Len(respCh[r]) < RespCap
    /\ respCh' = [respCh EXCEPT ![r] = Append(@, held[a])]
    /\ held' = [held EXCEPT ![a] = NoMessage]
    /\ loop' = [loop EXCEPT ![a] = "receiving"]
    /\ UNCHANGED <<http, queue, sender, stream, agent>>

\* The requests that have a message on the stream.
OnStream(a) == {inbound[a][i].req : i \in 1..Len(inbound[a])}

\* Mutant of EndReceive: an error of Recv is logged and the loop goes on.
EndReceiveNever(a) ==
    /\ loop[a] = "receiving"
    /\ link[a] = "down"
    /\ inbound' = [inbound EXCEPT ![a] = <<>>]
    /\ lost' = lost \cup OnStream(a)
    /\ UNCHANGED <<http, respCh, conn, agent>>

\* Recv fails; what is still on the stream is lost.  Connect closes conn.done.
EndReceive(a) ==
    /\ loop[a] = "receiving"
    /\ link[a] = "down"
    /\ loop' = [loop EXCEPT ![a] = "closing"]
    /\ inbound' = [inbound EXCEPT ![a] = <<>>]
    /\ lost' = lost \cup OnStream(a)
    /\ UNCHANGED <<http, respCh, queue, sender, held, agent>>

\* Connect deletes the agent from localAgents.
DeleteLocal(a) ==
    /\ loop[a] = "closing"
    /\ loop' = [loop EXCEPT ![a] = "gone"]
    /\ UNCHANGED <<http, respCh, queue, sender, held, stream, agent>>

-----------------------------------------------------------------------------
(* The agent and the network.                                              *)

\* The next message of a reply; it is lost when the stream is down.
AgentSends(r) ==
    LET a == To[r] IN
    /\ r \in working
    /\ sent[r] < ReplyLen
    /\ sent' = [sent EXCEPT ![r] = @ + 1]
    /\ \/ /\ link[a] = "up"
          /\ inbound' = [inbound EXCEPT ![a] = Append(@, Message(r, sent[r] + 1))]
          /\ UNCHANGED lost
       \/ /\ link[a] = "down"
          /\ lost' = lost \cup {r}
          /\ UNCHANGED inbound
    /\ UNCHANGED <<http, respCh, conn, link, working, reconnects, stale>>

\* The stream breaks or the agent closes it.  The agent goes on with its replies, and
\* sends the rest on its next stream (send in sdk.go takes a.stream), or drops them.
LinkDown(a) ==
    /\ link[a] = "up"
    /\ link' = [link EXCEPT ![a] = "down"]
    /\ working' \in {working, {r \in working : To[r] # a}}
    /\ UNCHANGED <<http, respCh, conn, stream, sent, reconnects, stale>>

\* The agent connects again: a new agentConn, with a channel of its own.
Reconnect(a) ==
    /\ reconnects[a] < MaxReconnects
    /\ link[a] = "down" /\ loop[a] = "gone"
    /\ reconnects' = [reconnects EXCEPT ![a] = @ + 1]
    /\ link' = [link EXCEPT ![a] = "up"]
    /\ loop' = [loop EXCEPT ![a] = "receiving"]
    /\ sender' = [sender EXCEPT ![a] = "running"]
    /\ queue' = [queue EXCEPT ![a] = <<>>]
    /\ stale' = stale \cup {r \in Requests : h[r] = "sending" /\ To[r] = a}
    /\ UNCHANGED <<http, respCh, held, stream, working, sent>>

-----------------------------------------------------------------------------
Init ==
    /\ h = [r \in Requests |-> "idle"]
    /\ handlers = {}
    /\ respCh = [r \in Requests |-> <<>>]
    /\ got = [r \in Requests |-> <<>>]
    /\ queue = [a \in Agents |-> <<>>]
    /\ sender = [a \in Agents |-> "running"]
    /\ loop = [a \in Agents |-> "receiving"]
    /\ held = [a \in Agents |-> NoMessage]
    /\ link = [a \in Agents |-> "up"]
    /\ inbound = [a \in Agents |-> <<>>]
    /\ working = {}
    /\ sent = [r \in Requests |-> 0]
    /\ reconnects = [a \in Agents |-> 0]
    /\ stale = {} /\ lost = {}

HandlerStep(r) ==
    \/ RegisterResponseHandler(r) \/ SendRequest(r) \/ Enqueue(r) \/ Collect(r)
    \/ GiveUp(r) \/ UnregisterResponseHandler(r)

ConnectStep(a) == Receive(a) \/ Deliver(a) \/ EndReceive(a) \/ DeleteLocal(a)

Next ==
    \/ \E r \in Requests : Start(r) \/ HandlerStep(r) \/ AgentSends(r)
    \/ \E a \in Agents : ConnectStep(a) \/ SendLoop(a) \/ SendLoopDone(a)
    \/ \E a \in Agents : LinkDown(a) \/ Reconnect(a)

Spec == Init /\ [][Next]_vars

(* The goroutines of the HTTP handler and of Connect run, and the timer of a
   waiting handler fires.  Nothing is assumed of the agent. *)
Fairness ==
    /\ \A r \in Requests : WF_vars(HandlerStep(r))
    /\ \A a \in Agents : WF_vars(ConnectStep(a))

FairSpec == Spec /\ Fairness

-----------------------------------------------------------------------------
Messages == [req : Requests, no : 1..ReplyLen]

\* The types of the variables, and the capacities of the channels.
TypeOK ==
    /\ h \in [Requests -> {"idle", "forwarded", "local", "registered", "sending",
                           "waiting", "answered", "failed"}]
    /\ handlers \subseteq Requests
    /\ respCh \in [Requests -> Seq(Messages)]
    /\ \A r \in Requests : Len(respCh[r]) <= RespCap
    /\ got \in [Requests -> Seq(Messages)]
    /\ queue \in [Agents -> Seq(Requests)]
    /\ \A a \in Agents : Len(queue[a]) <= ReqCap
    /\ sender \in [Agents -> {"running", "stopped"}]
    /\ loop \in [Agents -> {"receiving", "delivering", "closing", "gone"}]
    /\ held \in [Agents -> Messages \cup {NoMessage}]
    /\ link \in [Agents -> {"up", "down"}]
    /\ inbound \in [Agents -> Seq(Messages)]
    /\ working \subseteq Requests
    /\ sent \in [Requests -> 0..ReplyLen]
    /\ reconnects \in [Agents -> 0..MaxReconnects]
    /\ stale \subseteq Requests /\ lost \subseteq Requests

\* The beginning of the reply to r, of n messages.
Reply(r, n) == [i \in 1..n |-> Message(r, i)]

\* A client that is answered has the whole reply to its own request, every message
\* once and in order, unless a broken stream lost one: the gateway itself, with the
\* stream, the lookup, two channels and handlers that come and go, loses none.
AnswerIsWhole == \A r \in Requests :
    h[r] = "answered" /\ r \notin lost => got[r] = Reply(r, ReplyLen)

\* The same without the exception.  It does not hold: an agent may go on with a reply
\* over its next stream, and nobody notices the messages that were lost in between.
AnswersAreWhole == \A r \in Requests : h[r] = "answered" => got[r] = Reply(r, ReplyLen)

\* The receive loop, which also reads the heartbeats and the replies to the other
\* requests of the agent, is never held up by a client that has left, as long as a
\* reply has no more messages than respCh has room for.
ShortRepliesNeverBlock ==
    ReplyLen <= RespCap =>
        \A a \in Agents : loop[a] = "delivering" => Len(respCh[held[a].req]) < RespCap

\* When the stream is broken the receive loop finds out, and the agent is taken
\* off the gateway.
DeadConnectionEnds == \A a \in Agents : link[a] = "down" ~> loop[a] = "gone"

\* Each response handler is removed, on every way out of the HTTP handler.
ResponseHandlerIsRemoved == \A r \in Requests : r \in handlers ~> r \notin handlers

\* How far a request is when its HTTP handler stands at y.
Shown(y) == IF y \in {"local", "registered", "sending", "waiting"} THEN "open" ELSE y

Status == [r \in Requests |-> Shown(h[r])]

Promise == INSTANCE ChatReply WITH status <- Status, shown <- got, broken <- lost

\* Dispatch keeps the promise of ChatReply: replies in order, without a gap but for what
\* a broken stream lost, and an end for every request.
KeepsPromise == Promise!Spec
=============================================================================
