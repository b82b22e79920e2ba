---------------------------- MODULE AgentSDKProofs ----------------------------
(***************************************************************************)
(* Theorems about AgentSDK, for any number of streams, messages, requests  *)
(* and calls of Close.                                                     *)
(***************************************************************************)
EXTENDS AgentSDK, SequenceTheorems, TLAPS

USE AgentSDKAssumption

-----------------------------------------------------------------------------
(* The invariant.  Run holds a stream from connect to the end of a session; *)
(* in the rest of its life there is none.                                  *)

Connecting == {"register", "publish"}
InSession  == {"start", "session", "receiving", "ended", "lost"}

\* a.stream is nil or the newest stream, and nil until connect has published it.
StreamIsNewest ==
    /\ run \in Connecting \cup InSession => Newest > 0
    /\ stream # 0 => stream = Newest /\ run \in InSession

\* A stream that a session has and a.stream has not was closed, and Close did it.
ClosedByClose ==
    /\ run \in Connecting => link[Newest] # "closed"
    /\ run \in InSession /\ stream = 0 => link[Newest] = "closed"
    /\ run \in {"start", "session", "receiving"} /\ link[Newest] = "closed" => done
    /\ run = "ended" => done

\* The gateway has the registration of every open stream, but of one about to send it.
Registered ==
    /\ run = "register" => wire[Newest] = <<>>
    /\ \A n \in DOMAIN link :
          link[n] = "open" /\ ~(n = Newest /\ run = "register") => wire[n] # <<>>

SDKInv ==
    /\ StreamIsNewest
    /\ ClosedByClose
    /\ Registered
    /\ SessionsDoNotOverlap
    /\ RegisterFirst
    /\ KeepsReconnecting

-----------------------------------------------------------------------------
(* The streams: what each way of changing them leaves, stream by stream.   *)

LEMMA StreamsAre ==
  ASSUME StreamsTypeOK
  PROVE  /\ Newest \in Nat
         /\ DOMAIN link = 1..Newest /\ DOMAIN wire = 1..Newest
         /\ \A n \in 1..Newest : /\ link[n] \in {"open", "broken", "closed"}
                                 /\ wire[n] \in Seq(Messages)
  <1>1. Newest \in Nat /\ DOMAIN link = 1..Newest
    BY LenProperties DEF StreamsTypeOK, Newest
  <1>2. DOMAIN wire = 1..Newest
    BY LenProperties DEF StreamsTypeOK, Newest
  <1>3. \A n \in 1..Newest : link[n] \in {"open", "broken", "closed"}
    BY ElementOfSeq DEF StreamsTypeOK, Newest
  <1>4. \A n \in 1..Newest : wire[n] \in Seq(Messages)
    BY ElementOfSeq DEF StreamsTypeOK, Newest
  <1> QED BY <1>1, <1>2, <1>3, <1>4

LEMMA SendStep ==
  ASSUME StreamsTypeOK, NEW n \in 1..Newest, NEW m \in Messages, Send(n, m)
  PROVE  /\ StreamsTypeOK' /\ link' = link
         /\ \A k \in 1..Newest :
               wire'[k] = IF k = n /\ link[n] = "open" THEN Append(wire[n], m) ELSE wire[k]
  <1>1. CASE link[n] = "open"
    <2>1. wire[n] \in Seq(Messages) /\ n \in 1..Len(wire)
      BY StreamsAre DEF StreamsTypeOK, Newest
    <2>2. Append(wire[n], m) \in Seq(Messages)
      BY <2>1, AppendProperties
    <2>3. wire' = [wire EXCEPT ![n] = Append(wire[n], m)] /\ link' = link
      BY <1>1 DEF Send
    <2>4. wire' \in Seq(Seq(Messages)) /\ Len(wire') = Len(wire)
      BY <2>1, <2>2, <2>3, ExceptSeq DEF StreamsTypeOK
    <2>5. \A k \in 1..Newest : wire'[k] = IF k = n THEN Append(wire[n], m) ELSE wire[k]
      BY <2>3, StreamsAre
    <2> QED BY <1>1, <2>3, <2>4, <2>5 DEF StreamsTypeOK
  <1>2. CASE link[n] # "open"
    BY <1>2 DEF Send, StreamsTypeOK
  <1> QED BY <1>1, <1>2

LEMMA LinkStep ==
  ASSUME StreamsTypeOK, NEW n \in 1..Newest, NEW x \in {"open", "broken", "closed"},
         link' = [link EXCEPT ![n] = x], wire' = wire
  PROVE  /\ StreamsTypeOK' /\ Newest' = Newest
         /\ \A k \in 1..Newest : link'[k] = IF k = n THEN x ELSE link[k]
  <1>1. link' \in Seq({"open", "broken", "closed"}) /\ Len(link') = Len(link)
    BY ExceptSeq DEF StreamsTypeOK, Newest
  <1> QED BY <1>1, StreamsAre DEF StreamsTypeOK, Newest

LEMMA OpenStep ==
  ASSUME StreamsTypeOK, NEW x \in {"open", "broken", "closed"},
         link' = Append(link, x), wire' = Append(wire, <<>>)
  PROVE  /\ StreamsTypeOK' /\ Newest' = Newest + 1
         /\ \A k \in 1..Newest : link'[k] = link[k] /\ wire'[k] = wire[k]
         /\ link'[Newest + 1] = x /\ wire'[Newest + 1] = <<>>
  <1>1. <<>> \in Seq(Messages)
    BY EmptySeq
  <1>2. /\ link' \in Seq({"open", "broken", "closed"}) /\ Len(link') = Newest + 1
        /\ \A k \in 1..Newest : link'[k] = link[k]
        /\ link'[Newest + 1] = x
    BY AppendProperties DEF StreamsTypeOK, Newest
  <1>3. /\ wire' \in Seq(Seq(Messages)) /\ Len(wire') = Newest + 1
        /\ \A k \in 1..Newest : wire'[k] = wire[k]
        /\ wire'[Newest + 1] = <<>>
    BY <1>1, AppendProperties DEF StreamsTypeOK, Newest
  <1> QED BY <1>2, <1>3 DEF StreamsTypeOK, Newest

LEMMA CancelStep ==
  ASSUME StreamsTypeOK, Cancel
  PROVE  /\ StreamsTypeOK' /\ Newest' = Newest
         /\ \A k \in 1..Newest :
               link'[k] = IF link[k] = "open" THEN "broken" ELSE link[k]
  <1>1. link' = [k \in 1..Newest |-> IF link[k] = "open" THEN "broken" ELSE link[k]]
    BY StreamsAre DEF Cancel
  <1>2. link' \in [1..Newest -> {"open", "broken", "closed"}]
    BY <1>1, StreamsAre
  <1>3. link' \in Seq({"open", "broken", "closed"})
    BY <1>2, StreamsAre, SeqDef
  <1>4. DOMAIN link' = 1..Newest /\ DOMAIN link' = 1..Len(link') /\ Len(link') \in Nat
    BY <1>1, <1>3, LenProperties
  <1>5. Len(link') = Newest
    BY <1>4, StreamsAre
  <1> QED BY <1>1, <1>3, <1>5 DEF Cancel, StreamsTypeOK, Newest

LEMMA CleanupStep ==
  ASSUME StreamsTypeOK, stream \in {0} \cup DOMAIN link, Cleanup
  PROVE  /\ StreamsTypeOK' /\ Newest' = Newest /\ stream' = 0 /\ wire' = wire
         /\ \A k \in 1..Newest : link'[k] = IF k = stream THEN "closed" ELSE link[k]
  <1>1. CASE stream = 0
    BY <1>1, StreamsAre DEF Cleanup, StreamsTypeOK, Newest
  <1>2. CASE stream # 0
    <2>1. stream \in 1..Newest /\ link' = [link EXCEPT ![stream] = "closed"]
      BY <1>2, StreamsAre DEF Cleanup
    <2> QED BY <2>1, LinkStep DEF Cleanup
  <1> QED BY <1>1, <1>2

LEMMA StreamsAreNext ==
  ASSUME StreamsTypeOK'
  PROVE  Newest' \in Nat /\ DOMAIN link' = 1..Newest' /\ DOMAIN wire' = 1..Newest'
  BY LenProperties DEF StreamsTypeOK, Newest

-----------------------------------------------------------------------------
(* Steps that open no stream, change none and send nothing on one.         *)

LEMMA QuietStep ==
  ASSUME TypeOK, SDKInv,
         \/ Top \/ Publish \/ RunSession \/ ReadStream \/ ReceiveError \/ ReceiveEOF
         \/ ConnectFailed \/ Wait
         \/ \E r \in Requests : Receive(r) \/ HandlerReturns(r)
         \/ \E n \in DOMAIN link : HeartbeatEnds(n)
         \/ \E c \in Closers : CloseCheck(c) \/ CloseDone(c)
         \/ Panic \/ UNCHANGED vars
  PROVE  TypeOK' /\ SDKInv'
  <1>1. link' = link /\ wire' = wire /\ StreamsTypeOK' /\ Newest' = Newest
    BY DEF Top, Publish, RunSession, ReadStream, ReceiveError, ReceiveEOF, ConnectFailed,
           Wait, Receive, HandlerReturns, HeartbeatEnds, CloseCheck, CloseDone, Panic, vars,
           streams, TypeOK, StreamsTypeOK, Newest
  <1>2. DOMAIN link = 1..Newest /\ Newest \in Nat
    BY StreamsAre DEF TypeOK
  <1> USE DEF Goto, option, streams, TypeOK, SDKInv, StreamIsNewest, ClosedByClose, Registered,
              SessionsDoNotOverlap, RegisterFirst, KeepsReconnecting, Connecting, InSession
  <1>3. CASE Top
    BY <1>1, <1>2, <1>3 DEF Top
  <1>4. CASE Publish
    BY <1>1, <1>2, <1>4 DEF Publish
  <1>5. CASE RunSession
    BY <1>1, <1>2, <1>5 DEF RunSession
  <1>6. CASE ReadStream
    BY <1>1, <1>2, <1>6 DEF ReadStream, Panic
  <1>7. CASE ReceiveError
    BY <1>1, <1>2, <1>7 DEF ReceiveError
  <1>8. CASE ReceiveEOF
    BY <1>1, <1>2, <1>8 DEF ReceiveEOF
  <1>9. CASE ConnectFailed
    BY <1>1, <1>2, <1>9 DEF ConnectFailed
  <1>10. CASE Wait
    BY <1>1, <1>2, <1>10 DEF Wait
  <1>11. ASSUME NEW r \in Requests, Receive(r) \/ HandlerReturns(r)
         PROVE  TypeOK' /\ SDKInv'
    BY <1>1, <1>2, <1>11 DEF Receive, HandlerReturns
  <1>12. ASSUME NEW n \in DOMAIN link, HeartbeatEnds(n)
         PROVE  TypeOK' /\ SDKInv'
    BY <1>1, <1>2, <1>12 DEF HeartbeatEnds
  <1>13. ASSUME NEW c \in Closers, CloseCheck(c) \/ CloseDone(c)
         PROVE  TypeOK' /\ SDKInv'
    <2>1. CASE Panic
      BY <1>1, <1>2, <2>1 DEF Panic
    <2>2. CASE CloseCheck(c)
      BY <1>1, <1>2, <2>2 DEF CloseCheck
    <2>3. CASE CloseDone(c) /\ ~Panic
      <3>1. ~done /\ done' = TRUE /\ closer' = [closer EXCEPT ![c] = "cleanup"]
        BY <2>3 DEF CloseDone
      <3>2. UNCHANGED <<option, panicked, run, stream, streams, beating, handler>>
        BY <2>3 DEF CloseDone
      <3> QED BY <1>1, <1>2, <3>1, <3>2
    <2> QED BY <1>13, <2>1, <2>2, <2>3
  <1>14. CASE Panic
    BY <1>1, <1>2, <1>14 DEF Panic
  <1>15. CASE UNCHANGED vars
    BY <1>1, <1>2, <1>15 DEF vars
  <1> QED BY <1>3, <1>4, <1>5, <1>6, <1>7, <1>8, <1>9, <1>10, <1>11, <1>12, <1>13, <1>14, <1>15

-----------------------------------------------------------------------------
(* Steps that open a stream, send on one or change one.                    *)

LEMMA ConnectKeeps ==
  ASSUME TypeOK, SDKInv, Connect
  PROVE  TypeOK' /\ SDKInv'
  <1> USE DEF Goto, option, streams, TypeOK, SDKInv, StreamIsNewest, ClosedByClose, Registered,
              SessionsDoNotOverlap, RegisterFirst, KeepsReconnecting, Connecting, InSession
  <1>1. DOMAIN link = 1..Newest /\ DOMAIN wire = 1..Newest /\ Newest \in Nat
    BY StreamsAre
  <1>2. CASE Goto("dialing", "failed") /\ UNCHANGED streams
    BY <1>1, <1>2 DEF Connect, StreamsTypeOK, Newest
  <1>3. CASE /\ Goto("dialing", "register")
             /\ link' = Append(link, IF cancelled THEN "broken" ELSE "open")
             /\ wire' = Append(wire, <<>>)
    <2> DEFINE x == IF cancelled THEN "broken" ELSE "open"
    <2>1. /\ x \in {"open", "broken"} /\ x \in {"open", "broken", "closed"}
          /\ link' = Append(link, x) /\ wire' = Append(wire, <<>>) /\ StreamsTypeOK
      BY <1>3
    <2> HIDE DEF x
    <2>2. /\ StreamsTypeOK' /\ Newest' = Newest + 1
          /\ \A k \in 1..Newest : link'[k] = link[k] /\ wire'[k] = wire[k]
          /\ link'[Newest + 1] = x /\ wire'[Newest + 1] = <<>>
      BY <2>1, OpenStep
    <2>3. DOMAIN link' = 1..Newest' /\ DOMAIN wire' = 1..Newest'
      BY <2>2, StreamsAreNext
    <2>4. TypeOK'
      BY <1>1, <1>3, <2>2, <2>3 DEF Connect
    <2>5. StreamIsNewest' /\ ClosedByClose' /\ Registered' /\ KeepsReconnecting'
      BY <1>1, <1>3, <2>1, <2>2, <2>3 DEF Connect
    <2>6. SessionsDoNotOverlap'
      BY <1>1, <1>3, <2>2, <2>3 DEF Connect
    <2>7. RegisterFirst'
      BY <1>1, <1>3, <2>2, <2>3 DEF Connect
    <2> QED BY <2>4, <2>5, <2>6, <2>7
  <1> QED BY <1>2, <1>3 DEF Connect

LEMMA SendRegisterKeeps ==
  ASSUME TypeOK, SDKInv, SendRegister
  PROVE  TypeOK' /\ SDKInv'
  <1> USE DEF Goto, option, TypeOK, SDKInv, StreamIsNewest, ClosedByClose, Registered,
              SessionsDoNotOverlap, RegisterFirst, KeepsReconnecting, Connecting, InSession
  <1>1. DOMAIN link = 1..Newest /\ DOMAIN wire = 1..Newest /\ Newest \in Nat
    BY StreamsAre
  <1>2. Newest \in 1..Newest
    BY <1>1 DEF SendRegister
  <1>3. CASE Goto("register", "publish") /\ Send(Newest, "register")
    <2>1. /\ StreamsTypeOK' /\ link' = link
          /\ \A k \in 1..Newest : wire'[k] =
                IF k = Newest /\ link[Newest] = "open" THEN Append(wire[Newest], "register")
                                                       ELSE wire[k]
      BY <1>2, <1>3, SendStep DEF Messages
    <2>2. Newest' = Newest /\ DOMAIN wire' = 1..Newest
      BY <2>1, StreamsAreNext DEF Newest
    <2>3. /\ wire[Newest] = <<>> /\ Append(<<>>, "register") # <<>>
          /\ DOMAIN Append(<<>>, "register") = 1..1 /\ Append(<<>>, "register")[1] = "register"
      <3>1. wire[Newest] = <<>>
        BY <1>3
      <3>2. <<>> \in Seq(Messages) /\ Len(<<>>) = 0 /\ "register" \in Messages
        BY EmptySeq DEF Messages
      <3> QED BY <3>1, <3>2, AppendProperties, LenProperties
    <2>4. TypeOK'
      BY <1>1, <1>3, <2>1, <2>2 DEF SendRegister
    <2>5. StreamIsNewest' /\ ClosedByClose' /\ KeepsReconnecting' /\ SessionsDoNotOverlap'
      BY <1>1, <1>3, <2>1, <2>2 DEF SendRegister
    <2>6. Registered'
      BY <1>1, <1>3, <2>1, <2>2, <2>3 DEF SendRegister
    <2>7. RegisterFirst'
      BY <1>1, <1>3, <2>1, <2>2, <2>3 DEF SendRegister
    <2> QED BY <2>4, <2>5, <2>6, <2>7
  <1>4. CASE /\ Goto("register", "failed")
             /\ link' = [link EXCEPT ![Newest] = "closed"]
             /\ UNCHANGED wire
    <2>1. /\ StreamsTypeOK' /\ Newest' = Newest
          /\ \A k \in 1..Newest : link'[k] = IF k = Newest THEN "closed" ELSE link[k]
      BY <1>2, <1>4, LinkStep
    <2>2. DOMAIN link' = 1..Newest
      BY <2>1, StreamsAreNext
    <2> QED BY <1>1, <1>4, <2>1, <2>2 DEF SendRegister
  <1> QED BY <1>3, <1>4 DEF SendRegister

\* A heartbeat, or a message of a reply: there is a registration before it.
LEMMA SendKeeps ==
  ASSUME TypeOK, SDKInv, stream # 0, NEW m \in {"heartbeat"} \cup Requests, Send(stream, m),
         UNCHANGED <<option, done, panicked, run, stream, beating, closer>>,
         handler' \in [Requests -> {"none", "running", "replying", "returned"}]
  PROVE  TypeOK' /\ SDKInv'
  <1> USE DEF option, TypeOK, SDKInv, StreamIsNewest, ClosedByClose, Registered,
              SessionsDoNotOverlap, RegisterFirst, KeepsReconnecting, Connecting, InSession
  <1>1. DOMAIN link = 1..Newest /\ DOMAIN wire = 1..Newest /\ Newest \in Nat
    BY StreamsAre
  <1>2. stream \in 1..Newest /\ m \in Messages /\ m # "register"
    BY <1>1 DEF Messages
  <1>3. /\ StreamsTypeOK' /\ link' = link
        /\ \A k \in 1..Newest : wire'[k] =
              IF k = stream /\ link[stream] = "open" THEN Append(wire[stream], m) ELSE wire[k]
    BY <1>2, SendStep
  <1>4. Newest' = Newest /\ DOMAIN wire' = 1..Newest
    BY <1>3, StreamsAreNext DEF Newest
  <1>5. wire[stream] \in Seq(Messages)
    BY <1>2, StreamsAre
  <1>6. TypeOK'
    BY <1>1, <1>3, <1>4
  <1>7. StreamIsNewest' /\ ClosedByClose' /\ KeepsReconnecting' /\ SessionsDoNotOverlap'
    BY <1>1, <1>3, <1>4
  <1>8. Append(wire[stream], m) # <<>>
    BY <1>2, <1>5, AppendProperties
  <1>9. Registered'
    BY <1>1, <1>3, <1>4, <1>8
  <1>10. ASSUME link[stream] = "open", NEW i \in DOMAIN Append(wire[stream], m)
         PROVE  Append(wire[stream], m)[i] = "register" <=> i = 1
    <2>1. wire[stream] # <<>>
      BY <1>1, <1>2, <1>10
    <2>2. Len(wire[stream]) \in Nat \ {0}
      BY <1>5, <2>1, EmptySeq
    <2>3. DOMAIN Append(wire[stream], m) = 1..Len(wire[stream]) + 1
      BY <1>2, <1>5, AppendProperties, LenProperties
    <2>4. DOMAIN wire[stream] = 1..Len(wire[stream])
      BY <1>5, LenProperties
    <2>5. CASE i = Len(wire[stream]) + 1
      BY <1>2, <1>5, <2>2, <2>5, AppendProperties
    <2>6. CASE i \in 1..Len(wire[stream])
      BY <1>1, <1>2, <1>5, <2>4, <2>6, AppendProperties
    <2> QED BY <1>10, <2>2, <2>3, <2>5, <2>6
  <1>11. RegisterFirst'
    <2> SUFFICES ASSUME NEW k \in 1..Newest, NEW i \in DOMAIN wire'[k]
                 PROVE  wire'[k][i] = "register" <=> i = 1
      BY <1>4
    <2>1. CASE k = stream /\ link[stream] = "open"
      BY <1>2, <1>3, <1>10, <2>1
    <2>2. CASE wire'[k] = wire[k]
      BY <1>1, <2>2
    <2> QED BY <1>3, <2>1, <2>2
  <1> QED BY <1>6, <1>7, <1>9, <1>11

LEMMA GoroutineKeeps ==
  ASSUME TypeOK, SDKInv,
         \/ \E n \in DOMAIN link : Heartbeat(n)
         \/ \E r \in Requests : Reply(r)
  PROVE  TypeOK' /\ SDKInv'
  <1>1. CASE Panic
    BY <1>1, QuietStep
  <1>2. ASSUME NEW n \in DOMAIN link, Heartbeat(n), ~Panic
        PROVE  TypeOK' /\ SDKInv'
    BY <1>2, SendKeeps DEF Heartbeat, TypeOK
  <1>3. ASSUME NEW r \in Requests, Reply(r), ~Panic
        PROVE  TypeOK' /\ SDKInv'
    <2>1. handler' \in [Requests -> {"none", "running", "replying", "returned"}]
      BY <1>3 DEF Reply, TypeOK
    <2> QED BY <1>3, <2>1, SendKeeps DEF Reply
  <1> QED BY <1>1, <1>2, <1>3

LEMMA CleanupKeeps ==
  ASSUME TypeOK, SDKInv, EndSession \/ \E c \in Closers : CloseCleanup(c)
  PROVE  TypeOK' /\ SDKInv'
  <1> USE DEF Goto, option, TypeOK, SDKInv, StreamIsNewest, ClosedByClose, Registered,
              SessionsDoNotOverlap, RegisterFirst, KeepsReconnecting, Connecting, InSession
  <1>1. DOMAIN link = 1..Newest /\ DOMAIN wire = 1..Newest /\ Newest \in Nat
    BY StreamsAre
  <1>2. /\ StreamsTypeOK' /\ Newest' = Newest /\ stream' = 0 /\ wire' = wire
        /\ \A k \in 1..Newest : link'[k] = IF k = stream THEN "closed" ELSE link[k]
    BY CleanupStep DEF EndSession, CloseCleanup
  <1>3. DOMAIN link' = 1..Newest
    BY <1>2, StreamsAreNext
  <1>4. CASE EndSession
    BY <1>1, <1>2, <1>3, <1>4 DEF EndSession
  <1>5. ASSUME NEW c \in Closers, CloseCleanup(c)
        PROVE  TypeOK' /\ SDKInv'
    <2>1. done
      BY <1>5 DEF CloseCleanup
    <2>2. TypeOK'
      BY <1>1, <1>2, <1>3, <1>5 DEF CloseCleanup
    <2> QED BY <1>1, <1>2, <1>3, <1>5, <2>1, <2>2 DEF CloseCleanup
  <1> QED BY <1>4, <1>5

LEMMA OutsideKeeps ==
  ASSUME TypeOK, SDKInv, Cancel \/ \E n \in DOMAIN link : Break(n)
  PROVE  TypeOK' /\ SDKInv'
  <1> USE DEF option, TypeOK, SDKInv, StreamIsNewest, ClosedByClose, Registered,
              SessionsDoNotOverlap, RegisterFirst, KeepsReconnecting, Connecting, InSession
  <1>1. DOMAIN link = 1..Newest /\ DOMAIN wire = 1..Newest /\ Newest \in Nat
    BY StreamsAre
  <1>2. CASE Cancel
    <2>1. /\ StreamsTypeOK' /\ Newest' = Newest
          /\ \A k \in 1..Newest : link'[k] = IF link[k] = "open" THEN "broken" ELSE link[k]
      BY <1>2, CancelStep
    <2>2. DOMAIN link' = 1..Newest
      BY <2>1, StreamsAreNext
    <2> QED BY <1>1, <1>2, <2>1, <2>2 DEF Cancel
  <1>3. ASSUME NEW n \in DOMAIN link, Break(n)
        PROVE  TypeOK' /\ SDKInv'
    <2>1. /\ StreamsTypeOK' /\ Newest' = Newest
          /\ \A k \in 1..Newest : link'[k] = IF k = n THEN "broken" ELSE link[k]
      BY <1>1, <1>3, LinkStep DEF Break
    <2>2. DOMAIN link' = 1..Newest
      BY <2>1, StreamsAreNext
    <2> QED BY <1>1, <1>3, <2>1, <2>2 DEF Break
  <1> QED BY <1>2, <1>3

-----------------------------------------------------------------------------
LEMMA InitInv == Init => TypeOK /\ SDKInv
  <1> SUFFICES ASSUME Init PROVE TypeOK /\ SDKInv
    OBVIOUS
  <1>1. StreamsTypeOK /\ Newest = 0 /\ DOMAIN link = {} /\ DOMAIN wire = {}
    BY EmptySeq DEF Init, StreamsTypeOK, Newest
  <1> QED BY <1>1 DEF Init, TypeOK, SDKInv, StreamIsNewest, ClosedByClose, Registered,
              SessionsDoNotOverlap, RegisterFirst, KeepsReconnecting, Connecting, InSession

LEMMA NextInv == TypeOK /\ SDKInv /\ [Next]_vars => TypeOK' /\ SDKInv'
  BY QuietStep, ConnectKeeps, SendRegisterKeeps, GoroutineKeeps, CleanupKeeps, OutsideKeeps
     DEF Next, RunStep, HandlerStep, CloseStep

\* The invariant of Run and its streams holds in every state: a.stream is nil or the newest
\* stream, and every stream before it is closed.
THEOREM Invariant == Spec => [](TypeOK /\ SDKInv)
  BY InitInv, NextInv, PTL DEF Spec

\* The variables have their types in every state: a.stream names a stream that was
\* opened, and Close is past its check of a.done only when a.done is closed.
THEOREM TypeCorrect == Spec => []TypeOK
  BY Invariant, PTL

\* Whatever breaks, ticks, replies or closes: a registration is the first message of each
\* stream that the gateway gets a message on, and comes once.
THEOREM RegistrationFirst == Spec => []RegisterFirst
  <1>1. TypeOK /\ SDKInv => RegisterFirst
    BY DEF SDKInv
  <1> QED BY <1>1, Invariant, PTL

\* A session leaves no connection of the agent behind.
THEOREM OneSessionAtATime == Spec => []SessionsDoNotOverlap
  <1>1. TypeOK /\ SDKInv => SessionsDoNotOverlap
    BY DEF SDKInv
  <1> QED BY <1>1, Invariant, PTL

\* Run returns only when it was told to stop, or when the session or the attempt to
\* connect failed and it is not to reconnect.
THEOREM RunKeepsOn == Spec => []KeepsReconnecting
  <1>1. TypeOK /\ SDKInv => KeepsReconnecting
    BY DEF SDKInv
  <1> QED BY <1>1, Invariant, PTL
=============================================================================
