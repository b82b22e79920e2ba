------------------------------ MODULE Forwarding ------------------------------
(***************************************************************************)
(* A chat request whose agent is connected to another gateway: the record  *)
(* that the other gateway, the peer, keeps of itself in Redis and the call *)
(* that is sent to it (internal/agent/forwarder.go), and the remote path   *)
(* of internal/handler/chat.go.                                            *)
(*                                                                         *)
(* What the peer does with the call (ForwardRequest in                     *)
(* internal/agent/grpc_internal.go) is taken from ChatReply, without its   *)
(* fairness: Dispatch implements ChatReply, and the peer sets no timer.    *)
(***************************************************************************)
EXTENDS Naturals, Sequences

CONSTANTS
    Requests,     \* request IDs
    ReplyLen,     \* messages in a reply
    RespCap,      \* capacity of respCh in ForwardToRemote, 16 in the code
    Addrs,        \* addresses that the peer may listen on
    NoAddr,
    ExpiryRaces,  \* the record may expire while its gateway is alive
    LateDelete,   \* a DEL of an earlier life may reach Redis after the next start
    MaxBoots      \* bound on starts of the peer

ASSUME ForwardingAssumption ==
    /\ ReplyLen \in Nat \ {0}
    /\ RespCap \in Nat \ {0}
    /\ NoAddr \notin Addrs
    /\ ExpiryRaces \in BOOLEAN
    /\ LateDelete \in BOOLEAN
    /\ MaxBoots \in Nat

VARIABLES
    gw,       \* the process of the peer
    listen,   \* the address it listens on
    boots,
    record,   \* hash gateway:<instance>
    pending,  \* an EXPIRE of the record is on its way, after its HSET
    deleting, \* the DEL of the record is on its way
    streaming, \* requests whose client asked for a stream
    h,        \* the HTTP handler of each request
    dial,     \* the address that LookupInstance gave it
    reader,   \* the goroutine of ForwardToRemote
    read,     \* messages that Recv has returned to it
    respCh,   \* its channel to the HTTP handler
    got,      \* messages that the HTTP handler has taken
    cut,      \* the call is cancelled or its connection broken
    closed,   \* Forwarder.Close was called
    peer,     \* how far the peer is with the request
    sent,     \* messages it has sent back
    lost      \* requests of whose replies a broken stream to the peer lost a message

gateway == <<gw, listen, boots, record, pending, deleting>>
call    == <<dial, reader, read, respCh>>
http    == <<h, got, streaming>>
serving == <<peer, sent, lost>>
vars    == <<gateway, call, http, cut, closed, serving>>

Peer == INSTANCE ChatReply WITH status <- peer, shown <- sent, broken <- lost

-----------------------------------------------------------------------------
(* The peer and its record.  HSET and EXPIRE are two commands of a pipeline *)
(* that is no MULTI; a command on its way when the process dies may reach   *)
(* Redis or not.                                                            *)

Absent == [addr |-> NoAddr, alive |-> FALSE, ttl |-> FALSE]

\* The pod starts, perhaps under another address.
Boot(a) ==
    /\ gw = "down" /\ boots < MaxBoots
    /\ LateDelete \/ ~deleting
    /\ gw' = "starting" /\ listen' = a /\ boots' = boots + 1
    /\ UNCHANGED <<record, pending, deleting, call, http, cut, closed, serving>>

\* Mutant of RegisterInstance: fields that are there are kept (HSETNX).
RegisterInstanceOnce ==
    /\ gw = "starting"
    /\ gw' = "serving"
    /\ record' = [record EXCEPT !.addr = IF @ = NoAddr THEN listen ELSE @,
                                !.alive = TRUE]
    /\ pending' = TRUE
    /\ UNCHANGED <<listen, boots, deleting, call, http, cut, closed, serving>>

RegisterInstance ==
    /\ gw = "starting"
    /\ gw' = "serving"
    /\ record' = [record EXCEPT !.addr = listen, !.alive = TRUE]
    /\ pending' = TRUE
    /\ UNCHANGED <<listen, boots, deleting, call, http, cut, closed, serving>>

\* The HSET of last_keepalive, whatever became of the record.
RefreshKeepalive ==
    /\ gw = "serving" /\ ~pending
    /\ record' = [record EXCEPT !.alive = TRUE]
    /\ pending' = TRUE
    /\ UNCHANGED <<gw, listen, boots, deleting, call, http, cut, closed, serving>>

\* EXPIRE; it does nothing to a key that is gone.
ExpireCommand ==
    /\ pending
    /\ pending' = FALSE
    /\ record' = [record EXCEPT !.ttl = record.alive]
    /\ UNCHANGED <<gw, listen, boots, deleting, call, http, cut, closed, serving>>

\* The DEL is sent, and carried out.
UnregisterInstance ==
    /\ gw = "serving"
    /\ gw' = "leaving"
    /\ deleting' = TRUE
    /\ UNCHANGED <<listen, boots, record, pending, call, http, cut, closed, serving>>

DeleteCommand ==
    /\ deleting
    /\ deleting' = FALSE
    /\ record' = Absent
    /\ UNCHANGED <<gw, listen, boots, pending, call, http, cut, closed, serving>>

\* The process ends, in the ordinary way or not, and its calls with it.
Stop ==
    /\ gw # "down"
    /\ gw' = "down" /\ listen' = NoAddr
    /\ pending' \in {pending, FALSE} /\ deleting' \in {deleting, FALSE}
    /\ cut' = [r \in Requests |-> cut[r] \/ peer[r] = "open"]
    /\ peer' = [r \in Requests |-> IF peer[r] = "open" THEN "failed" ELSE peer[r]]
    /\ UNCHANGED <<boots, record, call, http, closed, sent, lost>>

\* Redis drops the record when its TTL has run out.
ExpireRecord ==
    /\ record.ttl
    /\ ExpiryRaces \/ gw # "serving"
    /\ record' = Absent
    /\ UNCHANGED <<gw, listen, boots, pending, deleting, call, http, cut, closed, serving>>

-----------------------------------------------------------------------------
(* The HTTP handler up to the call: dialRemoteAgent.                       *)

Step(r, from, to) == h[r] = from /\ h' = [h EXCEPT ![r] = to]

\* HasLocalAgent says no, and Get finds the agent's record, or does not.
GetAgent(r) ==
    /\ Step(r, "idle", "lookup") \/ Step(r, "lookup", "failed") \/ Step(r, "lookup", "found")
    /\ UNCHANGED <<gateway, call, got, streaming, cut, closed, serving>>

\* HGET addr, which may also fail.
LookupInstance(r) ==
    /\ \/ /\ record.addr # NoAddr
          /\ Step(r, "found", "dial")
          /\ dial' = [dial EXCEPT ![r] = record.addr]
       \/ Step(r, "found", "failed") /\ UNCHANGED dial
    /\ UNCHANGED <<gateway, reader, read, respCh, got, streaming, cut, closed, serving>>

\* The call is opened and its goroutine started; or it fails at once, which it always
\* does after Close (getOrDial writes to a nil map, and the panic ends the request).
ForwardToRemote(r) ==
    /\ \/ /\ ~closed
          /\ Step(r, "dial", "waiting")
          /\ reader' = [reader EXCEPT ![r] = "receiving"]
       \/ Step(r, "dial", "failed") /\ UNCHANGED reader
    /\ UNCHANGED <<gateway, dial, read, respCh, got, streaming, cut, closed, serving>>

-----------------------------------------------------------------------------
(* The peer, as ChatReply has it, and the connection to it.                *)

\* The call arrives: the agent is connected to the peer, or is not (NotFound).
PeerAccepts(r) ==
    /\ reader[r] = "receiving" /\ ~cut[r]
    /\ listen = dial[r]
    /\ Peer!Ask(r) \/ Peer!Forward(r)
    /\ UNCHANGED <<gateway, call, http, cut, closed>>

PeerSends(r) ==
    /\ ~cut[r]
    /\ Peer!Show(r)
    /\ UNCHANGED <<gateway, call, http, cut, closed>>

\* The stream of the agent to the peer breaks with a message of the reply on it.
PeerLoses(r) ==
    /\ peer[r] = "open" /\ r \notin lost
    /\ Peer!Break({r})
    /\ UNCHANGED <<gateway, call, http, cut, closed>>

\* SendRequest fails, or the context of the stream is done.
PeerFails(r) ==
    /\ Peer!Fail(r)
    /\ UNCHANGED <<gateway, call, http, cut, closed>>

\* The connection breaks, or cannot be made.
Cut(r) ==
    /\ reader[r] \in {"receiving", "putting"} /\ ~cut[r]
    /\ cut' = [cut EXCEPT ![r] = TRUE]
    /\ UNCHANGED <<gateway, call, http, closed, serving>>

\* Close closes the connections, and every call on them.
Close ==
    /\ ~closed /\ closed' = TRUE
    /\ cut' = [r \in Requests |-> cut[r] \/ reader[r] # "none"]
    /\ UNCHANGED <<gateway, call, http, serving>>

-----------------------------------------------------------------------------
(* The goroutine of ForwardToRemote.                                       *)

\* Recv returns a message, also one that came before the connection broke.
ReaderRecv(r) ==
    /\ reader[r] = "receiving"
    /\ read[r] < Len(sent[r])
    /\ read' = [read EXCEPT ![r] = @ + 1]
    /\ reader' = [reader EXCEPT ![r] = "putting"]
    /\ UNCHANGED <<gateway, dial, respCh, http, cut, closed, serving>>

\* The message that Recv returned.
Arrived(r) == sent[r][read[r]]

\* Mutant of ReaderPut: off by one at the capacity of the channel.
ReaderPutOverfull(r) ==
    /\ reader[r] = "putting"
    /\ Len(respCh[r]) <= RespCap
    /\ respCh' = [respCh EXCEPT ![r] = Append(@, Arrived(r))]
    /\ reader' = [reader EXCEPT ![r] = IF Arrived(r).no = ReplyLen THEN "ended" ELSE "receiving"]
    /\ UNCHANGED <<gateway, dial, read, http, cut, closed, serving>>

\* Mutant of ReaderPut: the channel has one place less.
ReaderPutEarly(r) ==
    /\ reader[r] = "putting"
    /\ Len(respCh[r]) < RespCap - 1
    /\ respCh' = [respCh EXCEPT ![r] = Append(@, Arrived(r))]
    /\ reader' = [reader EXCEPT ![r] = IF Arrived(r).no = ReplyLen THEN "ended" ELSE "receiving"]
    /\ UNCHANGED <<gateway, dial, read, http, cut, closed, serving>>

\* Mutant of ReaderPut: a select with the context, which passes the message over and goes on.
ReaderPutOrDrop(r) ==
    /\ reader[r] = "putting"
    /\ \/ Len(respCh[r]) < RespCap /\ respCh' = [respCh EXCEPT ![r] = Append(@, Arrived(r))]
       \/ cut[r] /\ UNCHANGED respCh
    /\ reader' = [reader EXCEPT ![r] = IF Arrived(r).no = ReplyLen THEN "ended" ELSE "receiving"]
    /\ UNCHANGED <<gateway, dial, read, http, cut, closed, serving>>

\* It blocks while respCh is full, and ends after the last message.
ReaderPut(r) ==
    /\ reader[r] = "putting"
    /\ Len(respCh[r]) < RespCap
    /\ respCh' = [respCh EXCEPT ![r] = Append(@, Arrived(r))]
    /\ reader' = [reader EXCEPT ![r] = IF Arrived(r).no = ReplyLen THEN "ended" ELSE "receiving"]
    /\ UNCHANGED <<gateway, dial, read, http, cut, closed, serving>>

\* Recv returns an error: the call is cut, or the peer ended it with one.  respCh is
\* closed; what the peer has sent and Recv has not returned is lost.
ReaderEnd(r) ==
    /\ reader[r] = "receiving"
    /\ \/ cut[r]
       \/ peer[r] \in {"failed", "forwarded"} /\ read[r] = Len(sent[r])
    /\ reader' = [reader EXCEPT ![r] = "ended"]
    /\ UNCHANGED <<gateway, dial, read, respCh, http, cut, closed, serving>>

-----------------------------------------------------------------------------
(* The HTTP handler takes the reply: collectNonStreamResponse and           *)
(* writeStreamResponses.  When it returns, the context of the request, and  *)
(* with it the call, is cancelled.                                          *)

Collect(r) ==
    LET m == Head(respCh[r]) IN
    /\ h[r] = "waiting" /\ respCh[r] # <<>>
    /\ respCh' = [respCh EXCEPT ![r] = Tail(@)]
    /\ got' = [got EXCEPT ![r] = Append(@, m)]
    /\ h' = [h EXCEPT ![r] = IF m.no = ReplyLen THEN "answered" ELSE "waiting"]
    /\ cut' = [cut EXCEPT ![r] = cut[r] \/ m.no = ReplyLen]
    /\ UNCHANGED <<gateway, dial, reader, read, streaming, closed, serving>>

\* Mutant of ChannelClosed: what has been collected so far is the answer.
ChannelClosedAnswers(r) ==
    /\ respCh[r] = <<>> /\ reader[r] = "ended"
    /\ Step(r, "waiting", "answered")
    /\ cut' = [cut EXCEPT ![r] = TRUE]
    /\ UNCHANGED <<gateway, call, got, streaming, closed, serving>>

\* respCh is closed and empty: an error, but for a stream [DONE] as after a whole reply.
ChannelClosed(r) ==
    /\ respCh[r] = <<>> /\ reader[r] = "ended"
    /\ Step(r, "waiting", IF r \in streaming THEN "answered" ELSE "failed")
    /\ cut' = [cut EXCEPT ![r] = TRUE]
    /\ UNCHANGED <<gateway, call, got, streaming, closed, serving>>

\* Mutant of GiveUp: the call has a context of its own.
GiveUpAlone(r) ==
    /\ Step(r, "waiting", "failed")
    /\ UNCHANGED <<gateway, call, got, streaming, cut, closed, serving>>

\* responseTimeout without a message, or the client is gone.
GiveUp(r) ==
    /\ Step(r, "waiting", "failed")
    /\ cut' = [cut EXCEPT ![r] = TRUE]
    /\ UNCHANGED <<gateway, call, got, streaming, closed, serving>>

-----------------------------------------------------------------------------
Init ==
    /\ gw = "down" /\ listen = NoAddr /\ boots = 0
    /\ record = Absent /\ pending = FALSE /\ deleting = FALSE
    /\ streaming \in SUBSET Requests
    /\ h = [r \in Requests |-> "idle"]
    /\ dial = [r \in Requests |-> NoAddr]
    /\ reader = [r \in Requests |-> "none"]
    /\ read = [r \in Requests |-> 0]
    /\ respCh = [r \in Requests |-> <<>>]
    /\ got = [r \in Requests |-> <<>>]
    /\ cut = [r \in Requests |-> FALSE]
    /\ closed = FALSE
    /\ Peer!Init

HandlerStep(r) ==
    \/ GetAgent(r) \/ LookupInstance(r) \/ ForwardToRemote(r)
    \/ Collect(r) \/ ChannelClosed(r) \/ GiveUp(r)

ReaderStep(r) == ReaderRecv(r) \/ ReaderPut(r) \/ ReaderEnd(r)

PeerStep(r) ==
    PeerAccepts(r) \/ PeerSends(r) \/ PeerLoses(r) \/ PeerFails(r) \/ Cut(r)

GatewayStep ==
    \/ \E a \in Addrs : Boot(a)
    \/ RegisterInstance \/ RefreshKeepalive \/ ExpireCommand
    \/ UnregisterInstance \/ DeleteCommand \/ Stop \/ ExpireRecord

Next ==
    \/ \E r \in Requests : HandlerStep(r) \/ ReaderStep(r) \/ PeerStep(r)
    \/ GatewayStep \/ Close

Spec == Init /\ [][Next]_vars

(* The goroutines run, a waiting handler's timer fires, the peer sees that a
   call is cancelled, and Redis runs what reaches it and drops a record that
   nobody refreshes.  Nothing else is assumed of the peer or of the network. *)
Fairness ==
    /\ \A r \in Requests :
          WF_vars(h[r] # "idle" /\ HandlerStep(r)) /\ WF_vars(ReaderStep(r))
    /\ \A r \in Requests : WF_vars(cut[r] /\ PeerFails(r))
    /\ WF_vars(ExpireCommand) /\ WF_vars(DeleteCommand)
    /\ WF_vars(gw = "down" /\ ExpireRecord)

FairSpec == Spec /\ Fairness

-----------------------------------------------------------------------------
Messages == [req : Requests, no : 1..ReplyLen]

GatewayTypeOK ==
    /\ gw \in {"down", "starting", "serving", "leaving"}
    /\ listen \in Addrs \cup {NoAddr}
    /\ boots \in 0..MaxBoots
    /\ record \in [addr : Addrs \cup {NoAddr}, alive : BOOLEAN, ttl : BOOLEAN]
    /\ pending \in BOOLEAN /\ deleting \in BOOLEAN

CallTypeOK ==
    /\ dial \in [Requests -> Addrs \cup {NoAddr}]
    /\ reader \in [Requests -> {"none", "receiving", "putting", "ended"}]
    /\ read \in [Requests -> 0..ReplyLen]
    /\ respCh \in [Requests -> Seq(Messages)]
    /\ \A r \in Requests : Len(respCh[r]) <= RespCap
    /\ cut \in [Requests -> BOOLEAN]
    /\ closed \in BOOLEAN

\* The types of the variables.
TypeOK ==
    /\ GatewayTypeOK /\ CallTypeOK
    /\ streaming \subseteq Requests
    /\ h \in [Requests -> {"idle", "lookup", "found", "dial", "waiting", "answered", "failed"}]
    /\ got \in [Requests -> Seq(Messages)]
    /\ peer \in [Requests -> {"idle", "forwarded", "open", "answered", "failed"}]
    /\ sent \in [Requests -> Seq(Messages)]
    /\ lost \subseteq Requests

\* While a gateway serves, Redis has the address that it listens on now, after any
\* restart and although the record of its last life, or an EXPIRE of it, is still there;
\* what LookupInstance gives is where the agents of that gateway are.  (As long as
\* keepalives are in time and the DEL of the last life is not still on its way.)
RunningGatewayIsFound == gw = "serving" => record.addr = listen

\* An answer is the whole reply, for a stream as for a single body, unless the agent's
\* stream lost a message of it.
AnswerIsWhole == \A r \in Requests :
    h[r] = "answered" /\ r \notin lost => got[r] = [i \in 1..ReplyLen |-> Peer!Message(r, i)]

\* What a client is given, streamed or not, is the beginning of what the peer sent for
\* its own request, across the stream, the goroutine and the channel.
NothingSkipped == \A r \in Requests :
    /\ Len(got[r]) <= Len(sent[r])
    /\ got[r] = SubSeq(sent[r], 1, Len(got[r]))

\* When the client's handler has left, the peer's handler leaves too, which has no
\* timer: giving up travels from one gateway to the other.
PeerHandlerEnds == \A r \in Requests : peer[r] = "open" ~> peer[r] # "open"

\* The goroutine of a call ends, whatever the client does, when respCh has room for all
\* that its client was not yet given; nothing else bounds what an abandoned call leaves.
ReaderEnds == \A r \in Requests :
    reader[r] \in {"receiving", "putting"} /\ ReplyLen - Len(got[r]) <= RespCap
        ~> reader[r] = "ended"

\* The same of every call.  It does not hold: a client that leaves early leaves a
\* goroutine behind that waits for a place in respCh.
ReaderAlwaysEnds == \A r \in Requests :
    reader[r] \in {"receiving", "putting"} ~> reader[r] = "ended"

\* A gateway that is gone is forgotten.  It does not hold when the process dies after
\* the HSET of its registration and the EXPIRE never reaches Redis.
DeadGatewayForgotten == gw = "down" ~> (record = Absent \/ gw # "down")

\* What the place of a handler is to its client.
Shown(y) == IF y \in {"lookup", "found", "dial", "waiting"} THEN "open" ELSE y

\* A request for a single answer, and a stream, which nothing is promised here.
Status == [r \in Requests |-> IF r \in streaming THEN "idle" ELSE Shown(h[r])]

Collected == [r \in Requests |-> IF r \in streaming THEN <<>> ELSE got[r]]

Promise == INSTANCE ChatReply WITH status <- Status, shown <- Collected, broken <- lost

\* The remote path keeps the promise of ChatReply to a client that asked for a single
\* answer, as long as the peer keeps the safety part of it.
KeepsPromise == Promise!Spec
=============================================================================
