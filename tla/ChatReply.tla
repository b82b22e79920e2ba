------------------------------- MODULE ChatReply -------------------------------
(***************************************************************************)
(* What a chat client is promised, whatever happens between the gateway    *)
(* and the agent: the messages of the agent's reply to this request reach  *)
(* it one by one and in order, and without a gap unless a stream broke     *)
(* with a message of the reply on it; "answered" means that it has the     *)
(* last one; and every request that was taken up comes to an end.          *)
(***************************************************************************)
EXTENDS Naturals, Sequences

CONSTANTS
    Requests,   \* request IDs
    ReplyLen    \* messages in a reply, at least one, the last one marked done

VARIABLES
    status,     \* how far each request is
    shown,      \* the messages its client has been given
    broken      \* requests of whose replies a message was lost

vars == <<status, shown, broken>>

Message(r, n) == [req |-> r, no |-> n]

\* The number of the last message of s, a part of a reply.
Last(s) == IF s = <<>> THEN 0 ELSE s[Len(s)].no

Turn(r, from, to) == status[r] = from /\ status' = [status EXCEPT ![r] = to]

Ask(r)     == Turn(r, "idle", "open") /\ UNCHANGED <<shown, broken>>
Forward(r) == Turn(r, "idle", "forwarded") /\ UNCHANGED <<shown, broken>>
Fail(r)    == Turn(r, "open", "failed") /\ UNCHANGED <<shown, broken>>

\* The next message, or a later one when some were lost.
Show(r) == \E n \in 1..ReplyLen :
    /\ n > Last(shown[r])
    /\ r \notin broken => n = Last(shown[r]) + 1
    /\ Turn(r, "open", IF n = ReplyLen THEN "answered" ELSE "open")
    /\ shown' = [shown EXCEPT ![r] = Append(@, Message(r, n))]
    /\ UNCHANGED broken

\* Messages of the replies to the requests in R are lost.
Break(R) == broken' = broken \cup R /\ UNCHANGED <<status, shown>>

Init ==
    /\ status = [r \in Requests |-> "idle"]
    /\ shown = [r \in Requests |-> <<>>]
    /\ broken = {}

Next ==
    \/ \E r \in Requests : Ask(r) \/ Forward(r) \/ Fail(r) \/ Show(r)
    \/ \E R \in SUBSET Requests : Break(R)

Spec == Init /\ [][Next]_vars /\ \A r \in Requests : WF_vars(Show(r) \/ Fail(r))
=============================================================================
