--------------------------- MODULE ForwardingProofs ---------------------------
(***************************************************************************)
(* Theorems about Forwarding, for any number of requests, any length of    *)
(* replies and any capacity of respCh.                                     *)
(***************************************************************************)
EXTENDS Forwarding, ReplyLemmas

USE ForwardingAssumption

-----------------------------------------------------------------------------
(* The invariant: a reply on its way, from the peer to the client.         *)

\* The goroutine has a message in its hands.
InHand(r) == IF reader[r] = "putting" THEN 1 ELSE 0

\* The sequence s has those elements of t that come after the k-th.
PartOf(s, t, k) == \A i \in 1..Len(s) : s[i] = t[k + i]

\* The sequence s has messages of the reply to r, each later than the one before it.
RisingPart(r, s) ==
    /\ Len(s) <= Peer!Last(s)
    /\ \A i \in 1..Len(s) : s[i].req = r
    /\ \A i \in 1..Len(s) : i > 1 => s[i - 1].no < s[i].no

\* The peer sends such messages, and all of them unless a stream that it has them from
\* lost one.
SentInOrder(r) ==
    /\ RisingPart(r, sent[r])
    /\ r \notin lost => InOrder(r, sent[r], 0)

\* What the client was given, respCh and the message in hand make up what was read.
PassedOn(r) ==
    /\ read[r] = Len(got[r]) + Len(respCh[r]) + InHand(r)
    /\ read[r] <= Len(sent[r])
    /\ PartOf(got[r], sent[r], 0)
    /\ PartOf(respCh[r], sent[r], Len(got[r]))

\* The call is made last of all, and a single body is whole when the last message came.
HandlerInv(r) ==
    /\ h[r] \in {"idle", "lookup", "found", "dial"} => reader[r] = "none"
    /\ h[r] = "answered" /\ r \notin streaming => Peer!Last(got[r]) = ReplyLen

CallInv(r) == SentInOrder(r) /\ PassedOn(r) /\ HandlerInv(r)

ForwardingInv == \A r \in Requests : CallInv(r)

-----------------------------------------------------------------------------
(* Parts of a sequence, as they are appended to and taken from.             *)

LEMMA PartAppend ==
  ASSUME NEW S, NEW s \in Seq(S), NEW t, NEW k \in Nat, NEW m \in S,
         PartOf(s, t, k), m = t[k + Len(s) + 1]
  PROVE  /\ PartOf(Append(s, m), t, k)
         /\ Append(s, m) \in Seq(S) /\ Len(Append(s, m)) = Len(s) + 1
  <1>1. /\ Append(s, m) \in Seq(S) /\ Len(Append(s, m)) = Len(s) + 1 /\ Len(s) \in Nat
        /\ \A i \in 1..Len(s) : Append(s, m)[i] = s[i]
        /\ Append(s, m)[Len(s) + 1] = m
    BY AppendProperties, LenProperties
  <1>2. ASSUME NEW i \in 1..(Len(s) + 1)
        PROVE  Append(s, m)[i] = t[k + i]
    <2>1. CASE i \in 1..Len(s)
      BY <1>1, <2>1 DEF PartOf
    <2>2. CASE i = Len(s) + 1
      <3>1. k + i = k + Len(s) + 1
        BY <1>1, <2>2
      <3> QED BY <1>1, <2>2, <3>1
    <2> QED BY <1>1, <2>1, <2>2
  <1> QED BY <1>1, <1>2 DEF PartOf

LEMMA PartTake ==
  ASSUME NEW S, NEW s \in Seq(S), NEW t, NEW k \in Nat, PartOf(s, t, k), s # <<>>
  PROVE  /\ Head(s) = t[k + 1] /\ Head(s) \in S
         /\ PartOf(Tail(s), t, k + 1)
         /\ Tail(s) \in Seq(S) /\ Len(Tail(s)) = Len(s) - 1 /\ Len(s) \in Nat \ {0}
  <1>1. /\ Head(s) \in S /\ Tail(s) \in Seq(S) /\ Len(Tail(s)) = Len(s) - 1
        /\ \A i \in 1..Len(Tail(s)) : Tail(s)[i] = s[i + 1]
    BY HeadTailProperties
  <1>2. Len(s) \in Nat \ {0} /\ Head(s) = s[1]
    BY EmptySeq, LenProperties
  <1>3. Head(s) = t[k + 1]
    <2>1. 1 \in 1..Len(s)
      BY <1>2
    <2> QED BY <1>2, <2>1 DEF PartOf
  <1>4. ASSUME NEW i \in 1..Len(Tail(s))
        PROVE  Tail(s)[i] = t[(k + 1) + i]
    <2>1. i + 1 \in 1..Len(s) /\ k + (i + 1) = (k + 1) + i
      BY <1>1, <1>2
    <2>2. s[i + 1] = t[k + (i + 1)]
      BY <2>1 DEF PartOf
    <2> QED BY <1>1, <2>1, <2>2
  <1> QED BY <1>1, <1>2, <1>3, <1>4 DEF PartOf

\* It is still a part when the other sequence grows.
LEMMA PartGrows ==
  ASSUME NEW S, NEW s \in Seq(S), NEW t \in Seq(S), NEW k \in Nat, NEW m \in S,
         PartOf(s, t, k), k + Len(s) <= Len(t)
  PROVE  PartOf(s, Append(t, m), k)
  <1>1. Len(s) \in Nat /\ Len(t) \in Nat /\ \A j \in 1..Len(t) : Append(t, m)[j] = t[j]
    BY AppendProperties, LenProperties
  <1>2. ASSUME NEW i \in 1..Len(s) PROVE s[i] = Append(t, m)[k + i]
    <2>1. k + i \in 1..Len(t)
      BY <1>1
    <2> QED BY <1>1, <2>1 DEF PartOf
  <1> QED BY <1>2 DEF PartOf

\* What was given and what lies in respCh was read, and what was read was sent.
LEMMA ReadBounds ==
  ASSUME TypeOK, NEW r \in Requests, PassedOn(r)
  PROVE  /\ Len(got[r]) \in Nat /\ Len(respCh[r]) \in Nat /\ Len(sent[r]) \in Nat
         /\ Len(got[r]) + Len(respCh[r]) <= Len(sent[r])
         /\ Len(got[r]) <= Len(sent[r])
         /\ \A i \in 1..Len(got[r]) : i \in 1..Len(sent[r]) /\ 0 + i = i
         /\ respCh[r] # <<>> => Len(got[r]) + 1 \in 1..Len(sent[r])
  <1> DEFINE a == Len(got[r])
             b == Len(respCh[r])
             l == Len(sent[r])
             n == read[r]
             i == InHand(r)
  <1>1. a \in Nat /\ b \in Nat /\ l \in Nat /\ n \in Nat /\ i \in {0, 1}
    BY LenProperties DEF TypeOK, CallTypeOK, InHand
  <1>2. n = a + b + i /\ n <= l
    BY DEF PassedOn
  <1>3. respCh[r] # <<>> => b # 0
    BY EmptySeq DEF TypeOK, CallTypeOK
  <1> HIDE DEF a, b, l, n, i
  <1>4. /\ a + b <= l /\ a <= l /\ (b # 0 => a + 1 \in 1..l)
        /\ \A j \in 1..a : j \in 1..l /\ 0 + j = j
    BY <1>1, <1>2
  <1> QED BY <1>1, <1>3, <1>4 DEF a, b, l

\* The last message of a reply has a number in it.
LEMMA LastType ==
  ASSUME NEW s \in Seq(Messages)
  PROVE  /\ Peer!Last(s) \in 0..ReplyLen /\ Len(s) \in Nat
         /\ s = <<>> <=> Len(s) = 0
         /\ s # <<>> => Len(s) \in 1..Len(s) /\ Peer!Last(s) = s[Len(s)].no
  <1>1. Len(s) \in Nat /\ (s = <<>> <=> Len(s) = 0)
    BY EmptySeq, LenProperties
  <1>2. CASE s = <<>>
    BY <1>1, <1>2 DEF Peer!Last
  <1>3. CASE s # <<>>
    <2>1. Len(s) \in 1..Len(s)
      BY <1>1, <1>3
    <2>2. s[Len(s)] \in Messages
      BY <2>1, ElementOfSeq
    <2> QED BY <1>1, <1>3, <2>1, <2>2 DEF Peer!Last, Messages
  <1> QED BY <1>2, <1>3

\* The last message after one more.
LEMMA LastAppended ==
  ASSUME NEW s \in Seq(Messages), NEW m \in Messages
  PROVE  Peer!Last(Append(s, m)) = m.no
  <1>1. /\ Len(Append(s, m)) = Len(s) + 1 /\ Append(s, m)[Len(s) + 1] = m
        /\ Append(s, m) \in Seq(Messages) /\ Len(s) \in Nat
    BY AppendProperties, LenProperties
  <1>2. Append(s, m) # <<>>
    <2>1. Len(s) + 1 # 0
      BY <1>1
    <2> QED BY <1>1, <2>1, EmptySeq
  <1> QED BY <1>1, <1>2 DEF Peer!Last

-----------------------------------------------------------------------------
(* Types, one lemma for each part.                                         *)

LEMMA GatewayType ==
  ASSUME TypeOK, GatewayStep \/ Close \/ UNCHANGED vars
  PROVE  TypeOK'
  <1> USE DEF TypeOK, GatewayTypeOK, CallTypeOK, gateway, call, http, serving
  <1>1. ASSUME NEW a \in Addrs, Boot(a) PROVE TypeOK'
    BY <1>1 DEF Boot
  <1>2. CASE RegisterInstance
    BY <1>2 DEF RegisterInstance
  <1>3. CASE RefreshKeepalive
    BY <1>3 DEF RefreshKeepalive
  <1>4. CASE ExpireCommand
    BY <1>4 DEF ExpireCommand
  <1>5. CASE UnregisterInstance
    BY <1>5 DEF UnregisterInstance
  <1>10. CASE DeleteCommand
    BY <1>10 DEF DeleteCommand, Absent
  <1>6. CASE Stop
    BY <1>6 DEF Stop
  <1>7. CASE ExpireRecord
    BY <1>7 DEF ExpireRecord, Absent
  <1>8. CASE Close
    BY <1>8 DEF Close
  <1>9. CASE UNCHANGED vars
    BY <1>9 DEF vars
  <1> QED BY <1>1, <1>2, <1>3, <1>4, <1>5, <1>6, <1>7, <1>8, <1>9, <1>10 DEF GatewayStep

LEMMA HandlerType ==
  ASSUME TypeOK, NEW r \in Requests, HandlerStep(r)
  PROVE  TypeOK'
  <1> USE DEF TypeOK, GatewayTypeOK, CallTypeOK, gateway, call, http, serving, Step
  <1>1. CASE GetAgent(r)
    BY <1>1 DEF GetAgent
  <1>2. CASE LookupInstance(r)
    BY <1>2 DEF LookupInstance
  <1>3. CASE ForwardToRemote(r)
    BY <1>3 DEF ForwardToRemote
  <1>4. CASE Collect(r)
    <2>1. /\ Head(respCh[r]) \in Messages /\ Tail(respCh[r]) \in Seq(Messages)
          /\ Len(Tail(respCh[r])) <= RespCap
      BY <1>4, HeadTailProperties DEF Collect
    <2>2. Append(got[r], Head(respCh[r])) \in Seq(Messages)
      BY <2>1, AppendProperties
    <2> QED BY <1>4, <2>1, <2>2 DEF Collect
  <1>5. CASE ChannelClosed(r)
    BY <1>5 DEF ChannelClosed
  <1>6. CASE GiveUp(r)
    BY <1>6 DEF GiveUp
  <1> QED BY <1>1, <1>2, <1>3, <1>4, <1>5, <1>6 DEF HandlerStep

LEMMA ReaderType ==
  ASSUME TypeOK, NEW r \in Requests, CallInv(r), ReaderStep(r)
  PROVE  TypeOK'
  <1> USE DEF TypeOK, GatewayTypeOK, CallTypeOK, gateway, call, http, serving
  <1>0. Len(sent[r]) \in Nat /\ Len(respCh[r]) \in Nat /\ Len(got[r]) \in Nat
    BY LenProperties
  <1>1. CASE ReaderRecv(r)
    <2>1. Peer!Last(sent[r]) \in 0..ReplyLen
      BY LastType
    <2>2. Len(sent[r]) <= ReplyLen
      BY <1>0, <2>1 DEF CallInv, SentInOrder, RisingPart
    <2>3. read[r] + 1 \in 0..ReplyLen
      BY <1>0, <1>1, <2>2 DEF ReaderRecv
    <2> QED BY <1>1, <2>3 DEF ReaderRecv
  <1>2. CASE ReaderPut(r)
    <2>1. read[r] \in 1..Len(sent[r])
      BY <1>0, <1>2 DEF ReaderPut, CallInv, PassedOn, InHand
    <2>2. sent[r][read[r]] \in Messages
      BY <2>1, ElementOfSeq
    <2>3. /\ Append(respCh[r], sent[r][read[r]]) \in Seq(Messages)
          /\ Len(Append(respCh[r], sent[r][read[r]])) <= RespCap
      BY <1>0, <1>2, <2>2, AppendProperties DEF ReaderPut
    <2> QED BY <1>2, <2>3 DEF ReaderPut, Arrived
  <1>3. CASE ReaderEnd(r)
    BY <1>3 DEF ReaderEnd
  <1> QED BY <1>1, <1>2, <1>3 DEF ReaderStep

LEMMA PeerType ==
  ASSUME TypeOK, NEW r \in Requests, CallInv(r), PeerStep(r)
  PROVE  TypeOK'
  <1> USE DEF TypeOK, GatewayTypeOK, CallTypeOK, gateway, call, http, serving, Peer!Turn
  <1>1. CASE PeerAccepts(r)
    BY <1>1 DEF PeerAccepts, Peer!Ask, Peer!Forward
  <1>2. CASE PeerSends(r)
    <2>1. PICK n \in 1..ReplyLen : sent' = [sent EXCEPT ![r] = Append(@, Peer!Message(r, n))]
      BY <1>2 DEF PeerSends, Peer!Show
    <2>2. Peer!Message(r, n) \in Messages
      BY DEF Peer!Message, Messages
    <2>3. Append(sent[r], Peer!Message(r, n)) \in Seq(Messages)
      BY <2>2, AppendProperties
    <2> QED BY <1>2, <2>1, <2>3 DEF PeerSends, Peer!Show
  <1>5. CASE PeerLoses(r)
    BY <1>5 DEF PeerLoses, Peer!Break
  <1>3. CASE PeerFails(r)
    BY <1>3 DEF PeerFails, Peer!Fail
  <1>4. CASE Cut(r)
    BY <1>4 DEF Cut
  <1> QED BY <1>1, <1>2, <1>3, <1>4, <1>5 DEF PeerStep

-----------------------------------------------------------------------------
(* The invariant of one request.                                           *)

\* It holds on while nothing of that request changes, but for messages that are lost.
LEMMA CallFrame ==
  ASSUME NEW q \in Requests, CallInv(q), streaming' = streaming, h'[q] = h[q],
         got'[q] = got[q], reader'[q] = reader[q], read'[q] = read[q],
         respCh'[q] = respCh[q], sent'[q] = sent[q], q \notin lost' => q \notin lost
  PROVE  CallInv(q)'
  BY DEF CallInv, SentInOrder, PassedOn, HandlerInv, InHand, InOrder, PartOf, RisingPart, Peer!Last

LEMMA HandlerKeeps ==
  ASSUME TypeOK, NEW r \in Requests, CallInv(r), HandlerStep(r)
  PROVE  CallInv(r)'
  <1> USE DEF TypeOK, GatewayTypeOK, CallTypeOK, gateway, call, http, serving, Step
  <1>1. CASE GetAgent(r) \/ LookupInstance(r) \/ ForwardToRemote(r) \/ GiveUp(r)
    BY <1>1 DEF GetAgent, LookupInstance, ForwardToRemote, GiveUp, CallInv, SentInOrder,
                PassedOn, HandlerInv, InHand, InOrder, PartOf, RisingPart, Peer!Last
  <1>2. CASE ChannelClosed(r)
    BY <1>2 DEF ChannelClosed, CallInv, SentInOrder, PassedOn, HandlerInv, InHand, InOrder,
                PartOf, RisingPart, Peer!Last
  <1>3. CASE Collect(r)
    <2> DEFINE g == got[r]
               c == respCh[r]
               m == Head(c)
    <2>1. g \in Seq(Messages) /\ c \in Seq(Messages) /\ c # <<>> /\ read[r] \in Nat
      BY <1>3 DEF Collect
    <2>2. /\ got'[r] = Append(g, m) /\ respCh'[r] = Tail(c) /\ lost' = lost
          /\ sent' = sent /\ read' = read /\ reader' = reader /\ streaming' = streaming
          /\ h'[r] = IF m.no = ReplyLen THEN "answered" ELSE "waiting"
      BY <1>3 DEF Collect
    <2>3. /\ PartOf(g, sent[r], 0) /\ PartOf(c, sent[r], Len(g))
          /\ read[r] = Len(g) + Len(c) + InHand(r) /\ read[r] <= Len(sent[r])
      BY DEF CallInv, PassedOn
    <2>4. InHand(r)' = InHand(r) /\ InHand(r) \in {0, 1}
      BY <2>2 DEF InHand
    <2>5. SentInOrder(r)'
      BY <2>2 DEF CallInv, SentInOrder, InOrder, RisingPart, Peer!Last
    <2> HIDE DEF g, c, m, TypeOK, GatewayTypeOK, CallTypeOK, gateway, call, http, serving, Step
    <2>6. Len(g) \in Nat
      BY <2>1, LenProperties
    <2>7. /\ m = sent[r][Len(g) + 1] /\ m \in Messages
          /\ PartOf(Tail(c), sent[r], Len(g) + 1)
          /\ Tail(c) \in Seq(Messages) /\ Len(Tail(c)) = Len(c) - 1 /\ Len(c) \in Nat \ {0}
      BY <2>1, <2>3, <2>6, PartTake DEF m
    <2>8. PartOf(Append(g, m), sent[r], 0) /\ Len(Append(g, m)) = Len(g) + 1
      <3>1. m = sent[r][0 + Len(g) + 1]
        BY <2>6, <2>7
      <3> QED BY <2>1, <2>3, <2>7, <3>1, PartAppend
    <2>9. read[r] = Len(Append(g, m)) + Len(Tail(c)) + InHand(r)
      BY <2>1, <2>3, <2>4, <2>6, <2>7, <2>8
    <2>10. PassedOn(r)'
      BY <2>2, <2>3, <2>4, <2>7, <2>8, <2>9 DEF PassedOn, PartOf
    <2>11. HandlerInv(r)'
      <3>1. Peer!Last(Append(g, m)) = m.no
        BY <2>1, <2>7, LastAppended
      <3> QED BY <2>2, <3>1 DEF HandlerInv, Peer!Last
    <2> QED BY <2>5, <2>10, <2>11 DEF CallInv
  <1> QED BY <1>1, <1>2, <1>3 DEF HandlerStep

LEMMA ReaderKeeps ==
  ASSUME TypeOK, NEW r \in Requests, CallInv(r), ReaderStep(r)
  PROVE  CallInv(r)'
  <1> DEFINE g == got[r]
             c == respCh[r]
             s == sent[r]
             n == read[r]
  <1>1. /\ g \in Seq(Messages) /\ c \in Seq(Messages) /\ s \in Seq(Messages) /\ n \in Nat
        /\ Len(g) \in Nat /\ Len(c) \in Nat /\ Len(s) \in Nat
    BY LenProperties DEF TypeOK, CallTypeOK
  <1>2. /\ PartOf(g, s, 0) /\ PartOf(c, s, Len(g))
        /\ n = Len(g) + Len(c) + InHand(r) /\ n <= Len(s)
    BY DEF CallInv, PassedOn
  <1>3. /\ got' = got /\ sent' = sent /\ lost' = lost /\ h' = h /\ streaming' = streaming
        /\ (ReaderRecv(r) \/ ReaderEnd(r)) => respCh' = respCh
    BY DEF ReaderStep, ReaderRecv, ReaderPut, ReaderEnd, http, serving
  <1>4. SentInOrder(r)' /\ HandlerInv(r)'
    <2>1. reader[r] # "none" => h[r] \notin {"idle", "lookup", "found", "dial"}
      BY DEF CallInv, HandlerInv
    <2>2. reader[r] # "none"
      BY DEF ReaderStep, ReaderRecv, ReaderPut, ReaderEnd
    <2> QED BY <1>3, <2>1, <2>2 DEF CallInv, SentInOrder, HandlerInv, InOrder, RisingPart, Peer!Last
  <1>5. CASE ReaderRecv(r)
    <2>1. read'[r] = n + 1 /\ n < Len(s) /\ InHand(r) = 0 /\ InHand(r)' = 1
      BY <1>5 DEF ReaderRecv, InHand, TypeOK, CallTypeOK
    <2> HIDE DEF g, c, s, n
    <2>2. n + 1 = Len(g) + Len(c) + 1 /\ n + 1 <= Len(s)
      BY <1>1, <1>2, <2>1
    <2> QED BY <1>2, <1>3, <1>4, <1>5, <2>1, <2>2 DEF CallInv, PassedOn, PartOf, g, c, s
  <1>6. CASE ReaderPut(r)
    <2> DEFINE m == s[n]
    <2>1. /\ respCh'[r] = Append(c, m) /\ read'[r] = n /\ InHand(r) = 1 /\ InHand(r)' = 0
      BY <1>6 DEF ReaderPut, Arrived, InHand, TypeOK, CallTypeOK
    <2> HIDE DEF g, c, s, n
    <2>2. n \in 1..Len(s) /\ n = Len(g) + Len(c) + 1 
      BY <1>1, <1>2, <2>1
    <2>3. m \in Messages /\ m = s[Len(g) + Len(c) + 1]
      BY <1>1, <2>2, ElementOfSeq
    <2> HIDE DEF m
    <2>4. PartOf(Append(c, m), s, Len(g)) /\ Len(Append(c, m)) = Len(c) + 1
      BY <1>1, <1>2, <2>3, PartAppend
    <2>5. n = Len(g) + Len(Append(c, m)) + 0
      BY <1>1, <2>2, <2>4
    <2> QED BY <1>2, <1>3, <1>4, <2>1, <2>4, <2>5 DEF CallInv, PassedOn, PartOf, g, s
  <1>7. CASE ReaderEnd(r)
    <2>1. read' = read /\ InHand(r)' = InHand(r)
      BY <1>7 DEF ReaderEnd, InHand, TypeOK, CallTypeOK
    <2> QED BY <1>2, <1>3, <1>4, <1>7, <2>1 DEF CallInv, PassedOn, PartOf
  <1> QED BY <1>5, <1>6, <1>7 DEF ReaderStep

\* The peer sends one more message: the next one, or one behind a gap.
LEMMA SentGrows ==
  ASSUME NEW r \in Requests, NEW s \in Seq(Messages), NEW n \in 1..ReplyLen,
         NEW m, m = Peer!Message(r, n), n > Peer!Last(s), RisingPart(r, s)
  PROVE  /\ Append(s, m) \in Seq(Messages) /\ m \in Messages
         /\ Len(Append(s, m)) = Len(s) + 1 /\ Len(s) \in Nat
         /\ RisingPart(r, Append(s, m))
  <1>1. m \in Messages /\ m.no = n /\ m.req = r
    BY DEF Peer!Message, Messages
  <1>2. /\ Append(s, m) \in Seq(Messages) /\ Len(Append(s, m)) = Len(s) + 1
        /\ \A i \in 1..Len(s) : Append(s, m)[i] = s[i]
        /\ Append(s, m)[Len(s) + 1] = m
    BY <1>1, AppendProperties
  <1>3. Len(s) \in Nat /\ Peer!Last(s) \in Nat /\ Peer!Last(Append(s, m)) = n
    <2>1. Peer!Last(s) \in 0..ReplyLen /\ Len(s) \in Nat
      BY LastType
    <2>2. Peer!Last(Append(s, m)) = n
      BY <1>1, LastAppended
    <2> QED BY <2>1, <2>2
  <1>4. Len(s) + 1 <= n
    BY <1>3 DEF RisingPart
  <1>5. ASSUME NEW i \in 1..(Len(s) + 1) PROVE Append(s, m)[i].req = r
    <2>1. i \in 1..Len(s) \/ i = Len(s) + 1
      BY <1>3
    <2> QED BY <1>1, <1>2, <2>1 DEF RisingPart
  <1>6. ASSUME NEW i \in 1..(Len(s) + 1), i > 1
        PROVE  Append(s, m)[i - 1].no < Append(s, m)[i].no
    <2>1. i - 1 \in 1..Len(s)
      BY <1>3, <1>6
    <2>2. CASE i \in 1..Len(s)
      BY <1>2, <1>6, <2>1, <2>2 DEF RisingPart
    <2>3. CASE i = Len(s) + 1
      <3>1. i - 1 = Len(s) /\ s # <<>>
        BY <1>3, <2>1, <2>3, EmptySeq
      <3>2. s[Len(s)].no < n
        BY <1>3, <3>1, LastType
      <3> QED BY <1>1, <1>2, <2>1, <2>3, <3>1, <3>2
    <2>4. i \in 1..Len(s) \/ i = Len(s) + 1
      BY <1>3
    <2> QED BY <2>2, <2>3, <2>4
  <1> QED BY <1>1, <1>2, <1>3, <1>4, <1>5, <1>6 DEF RisingPart

LEMMA PeerSendsKeeps ==
  ASSUME TypeOK, NEW r \in Requests, CallInv(r), PeerSends(r)
  PROVE  CallInv(r)'
  <1> PICK n \in 1..ReplyLen :
        /\ n > Peer!Last(sent[r])
        /\ r \notin lost => n = Peer!Last(sent[r]) + 1
        /\ sent' = [sent EXCEPT ![r] = Append(@, Peer!Message(r, n))]
        /\ lost' = lost
    BY DEF PeerSends, Peer!Show
  <1> SUFFICES ASSUME NEW s, s = sent[r], NEW m, m = Peer!Message(r, n),
                      NEW g, g = got[r], NEW c, c = respCh[r]
               PROVE  CallInv(r)'
    OBVIOUS
  <1>1. /\ s \in Seq(Messages) /\ g \in Seq(Messages) /\ c \in Seq(Messages)
        /\ read[r] \in Nat /\ sent'[r] = Append(s, m)
        /\ UNCHANGED <<got, respCh, read, reader, h, streaming>>
    BY DEF TypeOK, CallTypeOK, PeerSends, call, http
  <1>2. /\ RisingPart(r, s)
        /\ r \notin lost => InOrder(r, s, 0)
        /\ read[r] = Len(g) + Len(c) + InHand(r) /\ read[r] <= Len(s)
        /\ PartOf(g, s, 0) /\ PartOf(c, s, Len(g))
    BY DEF CallInv, SentInOrder, PassedOn
  <1>3. /\ Append(s, m) \in Seq(Messages) /\ m \in Messages
        /\ Len(Append(s, m)) = Len(s) + 1 /\ Len(s) \in Nat
        /\ RisingPart(r, Append(s, m))
    <2>1. n > Peer!Last(s)
      OBVIOUS
    <2> QED BY <1>1, <1>2, <2>1, SentGrows
  <1>4. ASSUME r \notin lost PROVE InOrder(r, Append(s, m), 0)
    <2>1. InOrder(r, s, 0) /\ n = Peer!Last(s) + 1
      BY <1>2, <1>4
    <2>2. Peer!Last(s) = Len(s)
      <3>1. CASE s = <<>>
        BY <3>1, EmptySeq DEF Peer!Last
      <3>2. CASE s # <<>>
        <4>1. Len(s) \in 1..Len(s) /\ Peer!Last(s) = s[Len(s)].no
          BY <1>1, <3>2, LastType
        <4>2. s[Len(s)] = [req |-> r, no |-> 0 + Len(s)]
          BY <2>1, <4>1, AtInOrder
        <4> QED BY <1>3, <4>1, <4>2
      <3> QED BY <3>1, <3>2
    <2>3. m = [req |-> r, no |-> 0 + Len(s) + 1]
      BY <1>3, <2>1, <2>2 DEF Peer!Message
    <2> QED BY <1>1, <1>3, <2>1, <2>3, AppendInOrder
  <1>5. SentInOrder(r)'
    BY <1>1, <1>3, <1>4 DEF SentInOrder, InOrder, RisingPart, Peer!Last
  <1>6. PassedOn(r)'
    <2>1. InHand(r)' = InHand(r) /\ InHand(r) \in {0, 1} /\ Len(g) \in Nat /\ Len(c) \in Nat
      BY <1>1, LenProperties DEF InHand
    <2>2. 0 + Len(g) <= Len(s) /\ Len(g) + Len(c) <= Len(s) /\ read[r] <= Len(s) + 1
      <3>1. PassedOn(r)
        BY DEF CallInv
      <3>2. Len(g) <= Len(s) /\ Len(g) + Len(c) <= Len(s)
        BY <3>1, ReadBounds
      <3>3. 0 + Len(g) <= Len(s)
        BY <2>1, <3>2
      <3>4. \A x \in Nat, y \in Nat : x <= y => x <= y + 1
        OBVIOUS
      <3>5. read[r] <= Len(s) + 1
        BY <1>1, <1>2, <1>3, <3>4
      <3> QED BY <3>2, <3>3, <3>5
    <2>3. PartOf(g, Append(s, m), 0) /\ PartOf(c, Append(s, m), Len(g))
      BY <1>1, <1>2, <1>3, <2>1, <2>2, PartGrows
    <2> QED BY <1>1, <1>2, <1>3, <2>1, <2>2, <2>3 DEF PassedOn, PartOf
  <1>7. HandlerInv(r)'
    BY <1>1 DEF CallInv, HandlerInv, Peer!Last
  <1> QED BY <1>5, <1>6, <1>7 DEF CallInv

LEMMA PeerKeeps ==
  ASSUME TypeOK, NEW r \in Requests, CallInv(r), PeerStep(r)
  PROVE  CallInv(r)'
  <1> USE DEF gateway, call, http, serving
  <1>1. CASE PeerSends(r)
    BY <1>1, PeerSendsKeeps
  <1>2. CASE PeerAccepts(r) \/ PeerFails(r) \/ Cut(r)
    BY <1>2, CallFrame DEF PeerAccepts, PeerFails, Cut, Peer!Ask, Peer!Forward, Peer!Fail
  <1>3. CASE PeerLoses(r)
    BY <1>3, CallFrame DEF PeerLoses, Peer!Break
  <1> QED BY <1>1, <1>2, <1>3 DEF PeerStep

\* What one request does leaves the others alone.
LEMMA OthersKeep ==
  ASSUME TypeOK, NEW r \in Requests, NEW q \in Requests, q # r, CallInv(q),
         HandlerStep(r) \/ ReaderStep(r) \/ PeerStep(r)
  PROVE  CallInv(q)'
  <1> USE DEF TypeOK, CallTypeOK, gateway, call, http, serving
  <1>1. CASE HandlerStep(r)
    BY <1>1, CallFrame DEF HandlerStep, GetAgent, LookupInstance, ForwardToRemote, Collect,
                           ChannelClosed, GiveUp, Step
  <1>2. CASE ReaderStep(r)
    BY <1>2, CallFrame DEF ReaderStep, ReaderRecv, ReaderPut, ReaderEnd
  <1>3. CASE PeerStep(r)
    BY <1>3, CallFrame DEF PeerStep, PeerAccepts, PeerSends, PeerLoses, PeerFails, Cut, Peer!Turn,
                           Peer!Ask, Peer!Forward, Peer!Show, Peer!Break, Peer!Fail
  <1> QED BY <1>1, <1>2, <1>3

\* So does what the peer's process, its record and Close do.
LEMMA GatewayKeeps ==
  ASSUME TypeOK, NEW q \in Requests, CallInv(q), GatewayStep \/ Close \/ UNCHANGED vars
  PROVE  CallInv(q)'
  <1> USE DEF TypeOK, CallTypeOK, call, http, serving
  <1>1. CASE Stop
    BY <1>1, CallFrame DEF Stop
  <1>2. CASE GatewayStep /\ ~Stop
    BY <1>2, CallFrame DEF GatewayStep, Boot, RegisterInstance, RefreshKeepalive,
                           ExpireCommand, UnregisterInstance, DeleteCommand, ExpireRecord
  <1>3. CASE Close \/ UNCHANGED vars
    BY <1>3, CallFrame DEF Close, vars
  <1> QED BY <1>1, <1>2, <1>3

-----------------------------------------------------------------------------
LEMMA InitInv == Init => TypeOK /\ ForwardingInv
  <1> SUFFICES ASSUME Init PROVE TypeOK /\ ForwardingInv
    OBVIOUS
  <1>1. <<>> \in Seq(Messages) /\ Len(<<>>) = 0
    BY EmptySeq
  <1>2. TypeOK
    <2>1. GatewayTypeOK
      <3>1. Absent \in [addr : Addrs \cup {NoAddr}, alive : BOOLEAN, ttl : BOOLEAN]
        BY DEF Absent
      <3>2. record = Absent /\ boots = 0 /\ listen = NoAddr
        BY DEF Init
      <3>3. gw = "down" /\ pending = FALSE /\ deleting = FALSE
        BY DEF Init
      <3>4. boots \in 0..MaxBoots
        BY <3>2
      <3>5. pending \in BOOLEAN /\ deleting \in BOOLEAN
        BY <3>3
      <3> QED BY <3>1, <3>2, <3>3, <3>4, <3>5 DEF GatewayTypeOK
    <2>2. CallTypeOK
      <3>1. respCh \in [Requests -> Seq(Messages)] /\ \A r \in Requests : respCh[r] = <<>>
        BY <1>1 DEF Init
      <3>2. Len(<<>>) <= RespCap
        BY <1>1
      <3>3. \A r \in Requests : Len(respCh[r]) <= RespCap
        BY <3>1, <3>2
      <3>4. /\ dial \in [Requests -> Addrs \cup {NoAddr}]
            /\ reader \in [Requests -> {"none", "receiving", "putting", "ended"}]
            /\ read \in [Requests -> 0..ReplyLen]
        BY DEF Init
      <3>5. cut \in [Requests -> BOOLEAN] /\ closed \in BOOLEAN
        BY DEF Init
      <3> QED BY <3>1, <3>3, <3>4, <3>5 DEF CallTypeOK
    <2> QED BY <1>1, <2>1, <2>2 DEF Init, Peer!Init, TypeOK
  <1>3. ASSUME NEW r \in Requests PROVE CallInv(r)
    <2>1. /\ sent[r] = <<>> /\ got[r] = <<>> /\ respCh[r] = <<>> /\ read[r] = 0
          /\ h[r] = "idle" /\ reader[r] = "none"
      BY DEF Init, Peer!Init
    <2>2. Peer!Last(<<>>) = 0
      BY DEF Peer!Last
    <2>3. SentInOrder(r)
      BY <1>1, <2>1, <2>2, EmptyInOrder DEF SentInOrder, RisingPart
    <2>4. PassedOn(r) /\ HandlerInv(r)
      BY <1>1, <2>1 DEF PassedOn, HandlerInv, InHand, PartOf
    <2> QED BY <2>3, <2>4 DEF CallInv
  <1> QED BY <1>2, <1>3 DEF ForwardingInv

LEMMA NextInv ==
  ASSUME TypeOK, ForwardingInv, [Next]_vars
  PROVE  TypeOK' /\ ForwardingInv'
  <1>1. ASSUME NEW r \in Requests, HandlerStep(r) \/ ReaderStep(r) \/ PeerStep(r)
        PROVE  TypeOK' /\ ForwardingInv'
    <2>1. CallInv(r)
      BY DEF ForwardingInv
    <2>2. TypeOK'
      BY <1>1, <2>1, HandlerType, ReaderType, PeerType
    <2>3. CallInv(r)'
      BY <1>1, <2>1, HandlerKeeps, ReaderKeeps, PeerKeeps
    <2>4. ASSUME NEW q \in Requests, q # r PROVE CallInv(q)'
      BY <1>1, <2>4, OthersKeep DEF ForwardingInv
    <2> QED BY <2>2, <2>3, <2>4 DEF ForwardingInv
  <1>2. CASE GatewayStep \/ Close \/ UNCHANGED vars
    BY <1>2, GatewayType, GatewayKeeps DEF ForwardingInv
  <1> QED BY <1>1, <1>2 DEF Next

\* The invariant of a reply on its way holds in every state: what the client was given,
\* respCh and the message in hand are what was read of the peer's reply.
THEOREM Invariant == Spec => [](TypeOK /\ ForwardingInv)
  <1>1. TypeOK /\ ForwardingInv /\ [Next]_vars => (TypeOK /\ ForwardingInv)'
    BY NextInv
  <1> QED BY InitInv, <1>1, PTL DEF Spec

\* The variables have their types in every state, and respCh is never overfull.
THEOREM TypeCorrect == Spec => []TypeOK
  BY Invariant, PTL

\* While no message of the reply is lost, the client has the beginning of the reply.
LEMMA GivenInOrder ==
  ASSUME TypeOK, NEW r \in Requests, CallInv(r), r \notin lost
  PROVE  InOrder(r, got[r], 0)
  <1> SUFFICES ASSUME NEW g, g = got[r], NEW c, c = respCh[r], NEW s, s = sent[r],
                      NEW i \in 1..Len(g)
               PROVE  g[i] = [req |-> r, no |-> 0 + i]
    BY DEF InOrder
  <1>1. /\ read[r] = Len(g) + Len(c) + InHand(r) /\ read[r] <= Len(s)
        /\ PartOf(g, s, 0) /\ InOrder(r, s, 0)
    BY DEF CallInv, SentInOrder, PassedOn
  <1>2. Len(g) \in Nat /\ Len(c) \in Nat /\ Len(s) \in Nat /\ InHand(r) \in {0, 1}
    BY LenProperties DEF TypeOK, CallTypeOK, InHand
  <1>3. i \in 1..Len(s) /\ 0 + i = i
    BY ReadBounds DEF CallInv
  <1>4. g[i] = s[i]
    BY <1>1, <1>3 DEF PartOf
  <1> QED BY <1>1, <1>3, <1>4, AtInOrder

\* Whatever is cut, closed, lost or given up: a client is given the beginning of what the
\* peer sent for its own request, without a gap.
THEOREM ReplyWithoutGap == Spec => []NothingSkipped
  <1>1. TypeOK /\ ForwardingInv => NothingSkipped
    <2> SUFFICES ASSUME TypeOK, ForwardingInv, NEW r \in Requests,
                        NEW g, g = got[r], NEW c, c = respCh[r], NEW s, s = sent[r]
                 PROVE  Len(g) <= Len(s) /\ g = SubSeq(s, 1, Len(g))
      BY DEF NothingSkipped
    <2>1. /\ g \in Seq(Messages) /\ c \in Seq(Messages) /\ s \in Seq(Messages)
          /\ read[r] \in Nat
      BY DEF TypeOK, CallTypeOK
    <2>2. /\ read[r] = Len(g) + Len(c) + InHand(r) /\ read[r] <= Len(s)
          /\ PartOf(g, s, 0)
      BY DEF ForwardingInv, CallInv, PassedOn
    <2>3. Len(g) \in Nat /\ Len(c) \in Nat /\ Len(s) \in Nat /\ InHand(r) \in {0, 1}
      BY <2>1, LenProperties DEF InHand
    <2>4. Len(g) <= Len(s)
      BY ReadBounds DEF ForwardingInv, CallInv
    <2>5. \A i \in 1..Len(g) : g[i] = s[i]
      <3> SUFFICES ASSUME NEW i \in 1..Len(g) PROVE g[i] = s[i]
        OBVIOUS
      <3>1. 0 + i = i
        BY <2>3
      <3> QED BY <2>2, <3>1 DEF PartOf
    <2>6. /\ SubSeq(s, 1, Len(g)) \in Seq(Messages) /\ Len(SubSeq(s, 1, Len(g))) = Len(g)
          /\ \A i \in 1..Len(g) : SubSeq(s, 1, Len(g))[i] = s[i]
      <3>1. 1 \in 1..(Len(s) + 1) /\ Len(g) \in (1 - 1)..Len(s)
        BY <2>3, <2>4
      <3> QED BY <2>1, <2>3, <2>4, <3>1, SubSeqProperties
    <2>7. g = SubSeq(s, 1, Len(g))
      BY <2>1, <2>5, <2>6, SeqEqual
    <2> QED BY <2>4, <2>7
  <1> QED BY <1>1, Invariant, PTL

\* What AnswerIsWhole says, of requests for a single body alone.
SingleAnswerIsWhole == \A r \in Requests \ streaming :
    h[r] = "answered" /\ r \notin lost => got[r] = [i \in 1..ReplyLen |-> Peer!Message(r, i)]

\* A client that asked for a single body is not answered with less than the whole reply,
\* however the calls between the gateways break, unless the agent's stream to the peer
\* lost a message of it: for the rest, clients that asked for a stream are the only
\* exception to AnswerIsWhole.
THEOREM SingleAnswers == Spec => []SingleAnswerIsWhole
  <1>1. TypeOK /\ ForwardingInv => SingleAnswerIsWhole
    <2> SUFFICES ASSUME TypeOK, ForwardingInv, NEW r \in Requests \ streaming,
                        h[r] = "answered", r \notin lost, NEW g, g = got[r]
                 PROVE  g = [i \in 1..ReplyLen |-> Peer!Message(r, i)]
      BY DEF SingleAnswerIsWhole
    <2>1. g \in Seq(Messages) /\ Peer!Last(g) = ReplyLen /\ InOrder(r, g, 0)
      BY GivenInOrder DEF TypeOK, ForwardingInv, CallInv, HandlerInv
    <2>2. Len(g) = ReplyLen
      <3>1. Len(g) \in Nat /\ Len(g) \in 1..Len(g) /\ g[Len(g)].no = ReplyLen
        BY <2>1, LastType DEF Peer!Last
      <3>2. g[Len(g)] = [req |-> r, no |-> 0 + Len(g)]
        BY <2>1, <3>1, AtInOrder
      <3> QED BY <3>1, <3>2
    <2>3. g = [i \in 1..Len(g) |-> Peer!Message(r, i)]
      BY <2>1, WholeInOrder DEF Peer!Message
    <2> QED BY <2>2, <2>3
  <1> QED BY <1>1, Invariant, PTL

\* While keepalives are in time and the DEL of an earlier life has reached Redis or never
\* will, Redis has the address that a serving gateway listens on, however often and under
\* whatever addresses it was started, and whatever record of an earlier life is still in
\* Redis or EXPIRE of it on its way there.
THEOREM GatewayIsFound == ~ExpiryRaces /\ ~LateDelete => (Spec => []RunningGatewayIsFound)
  <1> DEFINE Found == /\ RunningGatewayIsFound
                      /\ deleting => gw \in {"leaving", "down"}
  <1> SUFFICES ASSUME ~ExpiryRaces, ~LateDelete PROVE Spec => []RunningGatewayIsFound
    OBVIOUS
  <1>1. Init => Found
    BY DEF Init, RunningGatewayIsFound
  <1>2. ASSUME TypeOK, Found, [Next]_vars
        PROVE  Found'
    <2> USE DEF RunningGatewayIsFound, TypeOK, GatewayTypeOK, gateway
    <2>1. CASE \E r \in Requests : HandlerStep(r)
      BY <1>2, <2>1 DEF HandlerStep, GetAgent, LookupInstance, ForwardToRemote, Collect,
                        ChannelClosed, GiveUp
    <2>2. CASE \E r \in Requests : ReaderStep(r) \/ PeerStep(r)
      BY <1>2, <2>2 DEF ReaderStep, ReaderRecv, ReaderPut, ReaderEnd,
                        PeerStep, PeerAccepts, PeerSends, PeerLoses, PeerFails, Cut
    <2>3. CASE GatewayStep
      <3>1. CASE \E a \in Addrs : Boot(a)
        BY <1>2, <3>1 DEF Boot
      <3>2. CASE RegisterInstance
        BY <1>2, <3>2 DEF RegisterInstance
      <3>3. CASE RefreshKeepalive \/ ExpireCommand
        BY <1>2, <3>3 DEF RefreshKeepalive, ExpireCommand
      <3>4. CASE UnregisterInstance \/ Stop
        BY <1>2, <3>4 DEF UnregisterInstance, Stop
      <3>5. CASE DeleteCommand
        BY <1>2, <3>5 DEF DeleteCommand
      <3>6. CASE ExpireRecord
        BY <1>2, <3>6 DEF ExpireRecord
      <3> QED BY <2>3, <3>1, <3>2, <3>3, <3>4, <3>5, <3>6 DEF GatewayStep
    <2>4. CASE Close \/ UNCHANGED vars
      BY <1>2, <2>4 DEF Close, vars
    <2> QED BY <1>2, <2>1, <2>2, <2>3, <2>4 DEF Next
  <1>3. TypeOK /\ Found /\ [Next]_vars => Found'
    BY <1>2
  <1>4. Found => RunningGatewayIsFound
    OBVIOUS
  <1> HIDE DEF Found
  <1> QED BY <1>1, <1>3, <1>4, TypeCorrect, PTL DEF Spec

-----------------------------------------------------------------------------
(* The remote path implements ChatReply, for clients that want one answer:  *)
(* every step is a step of ChatReply or changes nothing that it speaks of.  *)

LEMMA SameStatus ==
  ASSUME UNCHANGED <<h, got, streaming, lost>>
  PROVE  UNCHANGED Promise!vars
  BY DEF Promise!vars, Status, Collected

\* A message is lost.
LEMMA BreakRefines ==
  ASSUME UNCHANGED <<h, got, streaming>>, NEW R \in SUBSET Requests, lost' = lost \cup R
  PROVE  Promise!Next
  BY DEF Promise!Next, Promise!Break, Status, Collected

\* A step of a handler whose client wants a stream is not seen.
LEMMA StreamNotSeen ==
  ASSUME TypeOK, NEW r \in streaming, UNCHANGED <<streaming, lost>>, NEW y, NEW g,
         h' = [h EXCEPT ![r] = y], got' = [got EXCEPT ![r] = g]
  PROVE  UNCHANGED Promise!vars
  BY DEF TypeOK, Promise!vars, Status, Collected

\* A step of another handler changes its place and what its client has.
LEMMA StatusStep ==
  ASSUME TypeOK, NEW r \in Requests \ streaming, streaming' = streaming, NEW y,
         h' = [h EXCEPT ![r] = y]
  PROVE  Status' = [Status EXCEPT ![r] = Shown(y)] /\ Status[r] = Shown(h[r])
  BY DEF TypeOK, Status

LEMMA CollectedStep ==
  ASSUME TypeOK, NEW r \in Requests \ streaming, streaming' = streaming, NEW g,
         got' = [got EXCEPT ![r] = g]
  PROVE  Collected' = [Collected EXCEPT ![r] = g] /\ Collected[r] = got[r]
  BY DEF TypeOK, Collected

LEMMA CollectedSame ==
  ASSUME UNCHANGED <<got, streaming>>
  PROVE  Collected' = Collected
  BY DEF Collected

\* The message at the head of respCh is the one that the client is to have next.
LEMMA NextGiven ==
  ASSUME TypeOK, NEW r \in Requests, CallInv(r), respCh[r] # <<>>,
         NEW g, g = got[r], NEW m, m = Head(respCh[r])
  PROVE  /\ m.no \in 1..ReplyLen /\ m = Promise!Message(r, m.no)
         /\ m.no > Promise!Last(g)
         /\ r \notin lost => m.no = Promise!Last(g) + 1
  <1> SUFFICES ASSUME NEW c, c = respCh[r], NEW s, s = sent[r], NEW k, k = Len(g) + 1
               PROVE  /\ m.no \in 1..ReplyLen /\ m = Promise!Message(r, m.no)
                      /\ m.no > Promise!Last(g)
                      /\ r \notin lost => m.no = Promise!Last(g) + 1
    OBVIOUS
  <1>1. /\ g \in Seq(Messages) /\ c \in Seq(Messages) /\ s \in Seq(Messages)
        /\ read[r] \in Nat /\ c # <<>>
    BY DEF TypeOK, CallTypeOK
  <1>2. /\ read[r] = Len(g) + Len(c) + InHand(r) /\ read[r] <= Len(s)
        /\ PartOf(g, s, 0) /\ PartOf(c, s, Len(g))
        /\ \A i \in 1..Len(s) : s[i].req = r
        /\ \A i \in 1..Len(s) : i > 1 => s[i - 1].no < s[i].no
        /\ r \notin lost => InOrder(r, s, 0)
    BY DEF CallInv, SentInOrder, PassedOn, RisingPart
  <1>3. /\ Len(g) \in Nat /\ Len(s) \in Nat /\ InHand(r) \in {0, 1}
        /\ g = <<>> <=> Len(g) = 0
    BY <1>1, LenProperties, EmptySeq DEF InHand
  <1>4. m = s[k] /\ m \in Messages /\ Len(c) \in Nat \ {0}
    BY <1>1, <1>2, <1>3, PartTake
  <1>5. k \in 1..Len(s) /\ 0 + k = k
    <2>1. Len(g) + 1 \in 1..Len(s)
      BY ReadBounds DEF CallInv
    <2> QED BY <2>1
  <1>6. m.no \in 1..ReplyLen /\ m = Promise!Message(r, m.no)
    BY <1>2, <1>4, <1>5 DEF Messages, Promise!Message
  <1>7. ASSUME r \notin lost, NEW i \in 1..Len(s) PROVE s[i].no = i
    <2>1. s[i] = [req |-> r, no |-> 0 + i] /\ 0 + i = i
      BY <1>2, <1>3, <1>7, AtInOrder
    <2> QED BY <2>1
  <1>8. CASE g = <<>>
    BY <1>3, <1>4, <1>5, <1>6, <1>7, <1>8 DEF Promise!Last
  <1>9. CASE g # <<>>
    <2>1. k > 1 /\ k - 1 = Len(g) /\ Len(g) \in 1..Len(g) /\ Len(g) \in 1..Len(s) /\ 0 + Len(g) = Len(g)
      BY <1>3, <1>5, <1>9
    <2>2. Promise!Last(g) = s[Len(g)].no
      BY <1>2, <1>9, <2>1 DEF Promise!Last, PartOf
    <2>3. s[Len(g)].no < s[k].no
      BY <1>2, <1>5, <2>1
    <2> QED BY <1>3, <1>4, <1>5, <1>6, <1>7, <2>1, <2>2, <2>3
  <1> QED BY <1>6, <1>8, <1>9

LEMMA HandlerRefines ==
  ASSUME TypeOK, NEW r \in Requests, CallInv(r), HandlerStep(r)
  PROVE  [Promise!Next]_(Promise!vars)
  <1>0. streaming' = streaming /\ lost' = lost
    BY DEF HandlerStep, GetAgent, LookupInstance, ForwardToRemote, Collect, ChannelClosed,
           GiveUp, serving
  <1>1. CASE r \in streaming
    <2>1. \E y : h' = [h EXCEPT ![r] = y]
      BY DEF HandlerStep, GetAgent, LookupInstance, ForwardToRemote, Collect, ChannelClosed,
             GiveUp, Step
    <2>2. \E g : got' = [got EXCEPT ![r] = g]
      <3>1. CASE got' = got
        BY <3>1 DEF TypeOK
      <3> QED BY <3>1 DEF HandlerStep, GetAgent, LookupInstance, ForwardToRemote, Collect,
                          ChannelClosed, GiveUp
    <2> QED BY <1>0, <1>1, <2>1, <2>2, StreamNotSeen
  <1>2. CASE r \notin streaming
    <2> USE DEF Promise!Turn, Shown
    <2>1. ASSUME NEW x, NEW y, Step(r, x, y), UNCHANGED got, x # y,
                 \/ Shown(x) = Shown(y)
                 \/ Shown(x) = "idle" /\ Shown(y) = "open"
                 \/ Shown(x) = "open" /\ Shown(y) = "failed"
          PROVE  [Promise!Next]_(Promise!vars)
      <3>1. Status' = [Status EXCEPT ![r] = Shown(y)] /\ Status[r] = Shown(x)
        BY <1>0, <1>2, <2>1, StatusStep DEF Step
      <3>2. Collected' = Collected
        BY <1>0, <2>1, CollectedSame
      <3>3. CASE Shown(x) = Shown(y)
        BY <1>0, <3>1, <3>2, <3>3 DEF Promise!vars, Status
      <3>4. CASE Shown(x) = "idle" /\ Shown(y) = "open"
        BY <1>0, <3>1, <3>2, <3>4 DEF Promise!Next, Promise!Ask
      <3>5. CASE Shown(x) = "open" /\ Shown(y) = "failed"
        BY <1>0, <3>1, <3>2, <3>5 DEF Promise!Next, Promise!Fail
      <3> QED BY <2>1, <3>3, <3>4, <3>5
    <2>2. CASE GetAgent(r)
      BY <2>1, <2>2 DEF GetAgent
    <2>3. CASE LookupInstance(r)
      BY <2>1, <2>3 DEF LookupInstance
    <2>4. CASE ForwardToRemote(r)
      BY <2>1, <2>4 DEF ForwardToRemote
    <2>5. CASE ChannelClosed(r)
      BY <1>2, <2>1, <2>5 DEF ChannelClosed
    <2>6. CASE GiveUp(r)
      BY <2>1, <2>6 DEF GiveUp
    <2>7. CASE Collect(r)
      <3> SUFFICES ASSUME NEW g, g = got[r], NEW m, m = Head(respCh[r]), NEW n, n = m.no
                   PROVE  [Promise!Next]_(Promise!vars)
        OBVIOUS
      <3>1. /\ n \in 1..ReplyLen /\ m = Promise!Message(r, n)
            /\ n > Promise!Last(g) /\ (r \notin lost => n = Promise!Last(g) + 1)
        BY <2>7, NextGiven DEF Collect
      <3>2. /\ h' = [h EXCEPT ![r] = IF n = ReplyLen THEN "answered" ELSE "waiting"]
            /\ got' = [got EXCEPT ![r] = Append(g, m)] /\ h[r] = "waiting"
        BY <2>7 DEF Collect
      <3>3. /\ Status' = [Status EXCEPT ![r] = IF n = ReplyLen THEN "answered" ELSE "open"]
            /\ Status[r] = "open"
        <4>1. /\ Status' = [Status EXCEPT ![r] = Shown(IF n = ReplyLen THEN "answered" ELSE "waiting")]
              /\ Status[r] = Shown(h[r])
          BY <1>0, <1>2, <3>2, StatusStep
        <4> QED BY <3>2, <4>1
      <3>4. Collected' = [Collected EXCEPT ![r] = Append(@, m)] /\ Collected[r] = g
        BY <1>0, <1>2, <3>2, CollectedStep
      <3>5. Promise!Show(r)
        BY <1>0, <3>1, <3>3, <3>4 DEF Promise!Show
      <3> QED BY <3>5 DEF Promise!Next
    <2> QED BY <2>2, <2>3, <2>4, <2>5, <2>6, <2>7 DEF HandlerStep
  <1> QED BY <1>1, <1>2

LEMMA StepRefines ==
  ASSUME TypeOK, ForwardingInv, [Next]_vars
  PROVE  [Promise!Next]_(Promise!vars)
  <1>1. CASE \E r \in Requests : HandlerStep(r)
    BY <1>1, HandlerRefines DEF ForwardingInv
  <1>2. ASSUME NEW r \in Requests, ReaderStep(r) PROVE UNCHANGED Promise!vars
    BY <1>2, SameStatus DEF ReaderStep, ReaderRecv, ReaderPut, ReaderEnd, http, serving
  <1>3. ASSUME NEW r \in Requests, PeerStep(r) PROVE [Promise!Next]_(Promise!vars)
    <2>1. CASE PeerLoses(r)
      <3>1. UNCHANGED <<h, got, streaming>> /\ lost' = lost \cup {r} /\ {r} \in SUBSET Requests
        BY <2>1 DEF PeerLoses, Peer!Break, http
      <3> QED BY <3>1, BreakRefines
    <2>2. CASE ~PeerLoses(r)
      BY <1>3, <2>2, SameStatus DEF PeerStep, PeerAccepts, PeerSends, PeerFails, Cut, Peer!Ask,
             Peer!Forward, Peer!Show, Peer!Fail, http, serving
    <2> QED BY <2>1, <2>2
  <1>4. CASE GatewayStep \/ Close \/ UNCHANGED vars
    BY <1>4, SameStatus DEF GatewayStep, Boot, RegisterInstance, RefreshKeepalive,
           ExpireCommand, UnregisterInstance, DeleteCommand, Stop, ExpireRecord, Close, vars,
           http, serving
  <1> QED BY <1>1, <1>2, <1>3, <1>4 DEF Next

\* The remote path keeps the safety part of ChatReply to a client that asked for a single
\* answer, given a peer that keeps it: the message shown is a later one of its own reply,
\* and the very next one unless the agent's stream lost some, "answered" comes with the
\* last one, and nothing is shown after the end.
THEOREM RemotePathRefines == Spec => Promise!Init /\ [][Promise!Next]_(Promise!vars)
  <1>1. Init => Promise!Init
    BY DEF Init, Peer!Init, Promise!Init, Status, Shown, Collected
  <1>2. TypeOK /\ ForwardingInv /\ [Next]_vars => [Promise!Next]_(Promise!vars)
    BY StepRefines
  <1> QED BY <1>1, <1>2, Invariant, PTL DEF Spec
=============================================================================
