------------------------------- MODULE AgentSDK -------------------------------
(***************************************************************************)
(* The Go SDK of agents, pkg/agentsdk/sdk.go: Run with its reconnections,  *)
(* the heartbeat loop of each session, the goroutines that handle requests *)
(* and Close.  They share a.stream, which mu guards but in recvLoop, and   *)
(* the channel a.done.                                                     *)
(*                                                                         *)
(* A panic, of a goroutine or of Run, ends the process.                    *)
(***************************************************************************)
EXTENDS Naturals, Sequences

CONSTANTS
    Requests,    \* requests that the gateway sends to the agent, with any stream
    Closers,     \* goroutines that call Close once
    MaxStreams,  \* bound on streams opened
    MaxWire      \* bound on messages sent on a stream

ASSUME AgentSDKAssumption ==
    /\ MaxStreams \in Nat /\ MaxWire \in Nat
    /\ "register" \notin Requests /\ "heartbeat" \notin Requests

VARIABLES
    reconnect,  \* the option
    cancelled,  \* the context given to Run is done
    done,       \* a.done is closed
    panicked,
    run,        \* where Run stands
    stream,     \* a.stream and a.conn: the number of the stream, 0 for nil
    link,       \* each stream: open, broken (by gateway or network), closed (by the agent)
    wire,       \* the messages that the gateway is sent on it
    beating,    \* streams whose heartbeat loop has not ended
    handler,    \* the goroutine of each request
    closer      \* where the calls of Close stand

streams == <<link, wire>>
option  == <<reconnect, cancelled>>
vars    == <<option, done, panicked, run, stream, streams, beating, handler, closer>>

Newest == Len(link)

Goto(from, to) == run = from /\ run' = to

Panic ==
    /\ panicked' = TRUE
    /\ UNCHANGED <<option, done, run, stream, streams, beating, handler, closer>>

\* stream.Send: the message is lost without a word when the stream is not open.
Send(n, m) ==
    /\ wire' = IF link[n] = "open" THEN [wire EXCEPT ![n] = Append(@, m)] ELSE wire
    /\ UNCHANGED link

-----------------------------------------------------------------------------
(* Run.                                                                    *)

Top ==
    /\ Goto("top", IF done \/ cancelled THEN "returned" ELSE "dialing")
    /\ UNCHANGED <<option, done, panicked, stream, streams, beating, handler, closer>>

\* Mutant of Connect: the stream is published in a.stream before the registration.
ConnectPublishes ==
    /\ \/ /\ Goto("dialing", "register")
          /\ Newest < MaxStreams
          /\ link' = Append(link, IF cancelled THEN "broken" ELSE "open")
          /\ wire' = Append(wire, <<>>)
          /\ stream' = Newest + 1
       \/ Goto("dialing", "failed") /\ UNCHANGED <<stream, streams>>
    /\ UNCHANGED <<option, done, panicked, beating, handler, closer>>

\* connect: dial the gateway and open a stream, or fail.
Connect ==
    /\ \/ /\ Goto("dialing", "register")
          /\ Newest < MaxStreams
          /\ link' = Append(link, IF cancelled THEN "broken" ELSE "open")
          /\ wire' = Append(wire, <<>>)
       \/ Goto("dialing", "failed") /\ UNCHANGED streams
    /\ UNCHANGED <<option, done, panicked, stream, beating, handler, closer>>

\* Send may notice that the stream is broken; the connection is closed then.
SendRegister ==
    /\ \/ Goto("register", "publish") /\ Send(Newest, "register")
       \/ /\ Goto("register", "failed")
          /\ link[Newest] = "broken"
          /\ link' = [link EXCEPT ![Newest] = "closed"]
          /\ UNCHANGED wire
    /\ UNCHANGED <<option, done, panicked, stream, beating, handler, closer>>

Publish ==
    /\ Goto("publish", "start")
    /\ stream' = Newest
    /\ UNCHANGED <<option, done, panicked, streams, beating, handler, closer>>

\* runSession starts the heartbeat loop.
RunSession ==
    /\ Goto("start", "session")
    /\ beating' = beating \cup {Newest}
    /\ UNCHANGED <<option, done, panicked, stream, streams, handler, closer>>

\* recvLoop reads a.stream, without the lock: Close may have made it nil.
ReadStream ==
    \/ run = "session" /\ stream = 0 /\ Panic
    \/ /\ Goto("session", "receiving") /\ stream # 0
       /\ UNCHANGED <<option, done, panicked, stream, streams, beating, handler, closer>>

\* Recv returns a request, and a goroutine is started for it.
Receive(r) ==
    /\ Goto("receiving", "session")
    /\ link[Newest] = "open"
    /\ handler[r] = "none"
    /\ handler' = [handler EXCEPT ![r] = "running"]
    /\ UNCHANGED <<option, done, panicked, stream, streams, beating, closer>>

\* Mutant of ReceiveError: any error is taken for the end.
ReceiveErrorEnds ==
    /\ Goto("receiving", "ended")
    /\ link[Newest] # "open"
    /\ UNCHANGED <<option, done, panicked, stream, streams, beating, handler, closer>>

\* Recv returns an error, which is none when Close was called.
ReceiveError ==
    /\ Goto("receiving", IF done THEN "ended" ELSE "lost")
    /\ link[Newest] # "open"
    /\ UNCHANGED <<option, done, panicked, stream, streams, beating, handler, closer>>

\* The gateway ends a stream without an error only after the CloseSend of the agent.
ReceiveEOF ==
    /\ Goto("receiving", "ended")
    /\ link[Newest] = "closed"
    /\ UNCHANGED <<option, done, panicked, stream, streams, beating, handler, closer>>

\* Mutant of Cleanup: the stream is forgotten and its connection is not closed.
CleanupForgets == stream' = 0 /\ UNCHANGED <<link, wire>>

\* cleanup, called by Run and by Close.
Cleanup ==
    /\ stream' = 0
    /\ link' = IF stream = 0 THEN link ELSE [link EXCEPT ![stream] = "closed"]
    /\ UNCHANGED wire

\* The session is over.
EndSession ==
    /\ \/ Goto("ended", "returned")
       \/ Goto("lost", IF reconnect THEN "wait" ELSE "returned")
    /\ Cleanup
    /\ UNCHANGED <<option, done, panicked, beating, handler, closer>>

ConnectFailed ==
    /\ Goto("failed", IF reconnect THEN "wait" ELSE "returned")
    /\ UNCHANGED <<option, done, panicked, stream, streams, beating, handler, closer>>

\* The delay goes by, or Run is told to stop.
Wait ==
    /\ \/ Goto("wait", "top")
       \/ Goto("wait", "returned") /\ (done \/ cancelled)
    /\ UNCHANGED <<option, done, panicked, stream, streams, beating, handler, closer>>

-----------------------------------------------------------------------------
(* The other goroutines.                                                   *)

\* heartbeatCtx: cancelled when recvLoop returns, and with the context of Run.
HeartbeatCancelled(n) ==
    cancelled \/ n # Newest \/ run \notin {"session", "receiving"}

\* The ticker fires; select may take it although the loop is to end.
Heartbeat(n) ==
    /\ n \in beating
    /\ \/ stream = 0 /\ Panic
       \/ /\ stream # 0 /\ Len(wire[stream]) < MaxWire
          /\ Send(stream, "heartbeat")
          /\ UNCHANGED <<option, done, panicked, run, stream, beating, handler, closer>>

HeartbeatEnds(n) ==
    /\ n \in beating /\ (done \/ HeartbeatCancelled(n))
    /\ beating' = beating \ {n}
    /\ UNCHANGED <<option, done, panicked, run, stream, streams, handler, closer>>

\* A message of the reply, on whatever stream is the agent's now.  A handler sends at
\* least one: finish and handleRequest see to it.
Reply(r) ==
    /\ handler[r] \in {"running", "replying"}
    /\ \/ stream = 0 /\ Panic
       \/ /\ stream # 0 /\ Len(wire[stream]) < MaxWire
          /\ Send(stream, r)
          /\ handler' = [handler EXCEPT ![r] = "replying"]
          /\ UNCHANGED <<option, done, panicked, run, stream, beating, closer>>

HandlerReturns(r) ==
    /\ handler[r] = "replying"
    /\ handler' = [handler EXCEPT ![r] = "returned"]
    /\ UNCHANGED <<option, done, panicked, run, stream, streams, beating, closer>>

\* Close looks at a.done...
CloseCheck(c) ==
    /\ closer[c] = "none"
    /\ closer' = [closer EXCEPT ![c] = IF done THEN "returned" ELSE "checked"]
    /\ UNCHANGED <<option, done, panicked, run, stream, streams, beating, handler>>

\* Mutant of CloseDone: the stream is closed before a.done.
CloseDoneLate(c) ==
    /\ closer[c] = "checked"
    /\ closer' = [closer EXCEPT ![c] = "cleanup"]
    /\ UNCHANGED <<option, done, panicked, run, stream, streams, beating, handler>>

\* ... closes it, which panics if another call has done so meanwhile...
CloseDone(c) ==
    /\ closer[c] = "checked"
    /\ \/ done /\ Panic
       \/ /\ ~done /\ done' = TRUE
          /\ closer' = [closer EXCEPT ![c] = "cleanup"]
          /\ UNCHANGED <<option, panicked, run, stream, streams, beating, handler>>

\* Mutant of CloseCleanup: it relies on a.done alone.
CloseForgets(c) ==
    /\ closer[c] = "cleanup"
    /\ closer' = [closer EXCEPT ![c] = "returned"]
    /\ UNCHANGED <<option, done, panicked, run, stream, streams, beating, handler>>

\* ... and closes the stream, if there is one by now.
CloseCleanup(c) ==
    /\ closer[c] = "cleanup"
    /\ closer' = [closer EXCEPT ![c] = "returned"]
    /\ Cleanup
    /\ UNCHANGED <<option, done, panicked, run, beating, handler>>

-----------------------------------------------------------------------------
(* Outside.                                                                *)

\* The gateway refuses the registration, ends the stream or dies, or the network fails.
Break(n) ==
    /\ link[n] = "open"
    /\ link' = [link EXCEPT ![n] = "broken"]
    /\ UNCHANGED <<option, done, panicked, run, stream, wire, beating, handler, closer>>

\* The context of Run, and with it of every stream.
Cancel ==
    /\ ~cancelled /\ cancelled' = TRUE
    /\ link' = [n \in DOMAIN link |-> IF link[n] = "open" THEN "broken" ELSE link[n]]
    /\ UNCHANGED <<reconnect, done, panicked, run, stream, wire, beating, handler, closer>>

-----------------------------------------------------------------------------
Init ==
    /\ reconnect \in BOOLEAN
    /\ cancelled = FALSE /\ done = FALSE /\ panicked = FALSE
    /\ run = "top" /\ stream = 0
    /\ link = <<>> /\ wire = <<>>
    /\ beating = {}
    /\ handler = [r \in Requests |-> "none"]
    /\ closer = [c \in Closers |-> "none"]

RunStep ==
    \/ Top \/ Connect \/ SendRegister \/ Publish \/ RunSession \/ ReadStream
    \/ ReceiveError \/ ReceiveEOF \/ EndSession \/ ConnectFailed \/ Wait

HandlerStep(r) == Reply(r) \/ HandlerReturns(r)

CloseStep(c) == CloseCheck(c) \/ CloseDone(c) \/ CloseCleanup(c)

Next ==
    /\ ~panicked
    /\ \/ RunStep \/ Cancel
       \/ \E r \in Requests : Receive(r) \/ HandlerStep(r)
       \/ \E n \in DOMAIN link : Heartbeat(n) \/ HeartbeatEnds(n) \/ Break(n)
       \/ \E c \in Closers : CloseStep(c)

Spec == Init /\ [][Next]_vars

(* Run goes on and its timers fire; what is ready in a select is taken at some
   time; and a Close that has closed a.done goes on to its cleanup.  Nothing is
   assumed of the network, of handlers, of heartbeats or of when Close is called. *)
Fairness ==
    /\ WF_vars(~panicked /\ RunStep)
    /\ \A c \in Closers : WF_vars(~panicked /\ CloseCleanup(c))

FairSpec == Spec /\ Fairness

-----------------------------------------------------------------------------
Messages == {"register", "heartbeat"} \cup Requests

StreamsTypeOK ==
    /\ link \in Seq({"open", "broken", "closed"})
    /\ wire \in Seq(Seq(Messages))
    /\ Len(wire) = Len(link)

\* The types of the variables; a.stream names a stream that was opened, and Close
\* closes it only after a.done.
TypeOK ==
    /\ reconnect \in BOOLEAN /\ cancelled \in BOOLEAN
    /\ done \in BOOLEAN /\ panicked \in BOOLEAN
    /\ run \in {"top", "dialing", "register", "publish", "start", "session",
                "receiving", "ended", "lost", "failed", "wait", "returned"}
    /\ StreamsTypeOK
    /\ stream \in {0} \cup DOMAIN link
    /\ beating \subseteq DOMAIN link
    /\ handler \in [Requests -> {"none", "running", "replying", "returned"}]
    /\ closer \in [Closers -> {"none", "checked", "cleanup", "returned"}]
    /\ \A c \in Closers : closer[c] = "cleanup" => done

\* The gateway refuses a stream whose first message is not a registration: the
\* registration is the first message of every stream and comes once, although heartbeat
\* loops and handlers of earlier sessions go on sending on the stream of the moment.
RegisterFirst == \A n \in DOMAIN wire : \A i \in DOMAIN wire[n] :
    wire[n][i] = "register" <=> i = 1

\* Run keeps the agent connected: it returns only when it was told to stop.
KeepsReconnecting == run = "returned" => done \/ cancelled \/ ~reconnect

\* An agent is never connected twice, which the gateway could not tell apart: a session
\* leaves no connection behind, neither when another one begins nor when Run waits or
\* has returned.
SessionsDoNotOverlap == \A n \in DOMAIN link : link[n] # "closed" =>
    n = Newest /\ run \notin {"top", "dialing", "failed", "wait", "returned"}

\* A Close that does not fall between the dialling of a stream and its publication ends
\* Run, also the Run that is waiting in Recv on a stream which the gateway keeps open.
CloseEndsRun == \A c \in Closers :
    closer[c] = "cleanup" /\ run \notin {"dialing", "register", "publish"}
        ~> run = "returned" \/ panicked

\* Any Close ends Run.  It does not: sdk_close.cfg.
CloseAlwaysEndsRun == done ~> run = "returned" \/ panicked

\* An agent that reconnects, and that nobody told to stop, outlives the loss of its stream.
SurvivesDisconnect == panicked => done \/ cancelled \/ ~reconnect
=============================================================================
