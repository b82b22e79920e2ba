----------------------------- MODULE ReplyLemmas -----------------------------
(***************************************************************************)
(* Consecutive messages of one reply, as they lie in a channel, on a       *)
(* stream or with the client: lemmas for the proofs about Dispatch and     *)
(* Forwarding.                                                             *)
(***************************************************************************)
EXTENDS Naturals, Sequences, SequenceTheorems, TLAPS

\* The sequence s has the messages of the reply to r that come after the k-th.
InOrder(r, s, k) == \A i \in 1..Len(s) : s[i] = [req |-> r, no |-> k + i]

\* An empty channel.
LEMMA EmptyInOrder ==
  ASSUME NEW r, NEW k
  PROVE  InOrder(r, <<>>, k)
  BY DEF InOrder

\* The next message is put behind the others.
LEMMA AppendInOrder ==
  ASSUME NEW r, NEW S, NEW s \in Seq(S), NEW k \in Nat, NEW m \in S,
         InOrder(r, s, k), m = [req |-> r, no |-> k + Len(s) + 1]
  PROVE  /\ InOrder(r, Append(s, m), k)
         /\ Append(s, m) \in Seq(S) /\ Len(Append(s, m)) = Len(s) + 1
  <1>1. /\ Append(s, m) \in Seq(S) /\ Len(Append(s, m)) = Len(s) + 1 /\ Len(s) \in Nat
        /\ \A i \in 1..Len(s) : Append(s, m)[i] = s[i]
        /\ Append(s, m)[Len(s) + 1] = m
    BY AppendProperties, LenProperties
  <1>2. ASSUME NEW i \in 1..Len(s) + 1
        PROVE  Append(s, m)[i] = [req |-> r, no |-> k + i]
    <2>1. CASE i \in 1..Len(s)
      BY <1>1, <2>1 DEF InOrder
    <2>2. CASE i = Len(s) + 1
      <3>1. k + i = k + Len(s) + 1
        BY <1>1, <2>2
      <3> QED BY <1>1, <2>2, <3>1
    <2> QED BY <1>1, <2>1, <2>2
  <1> QED BY <1>1, <1>2 DEF InOrder

\* The first one is taken.
LEMMA TakeInOrder ==
  ASSUME NEW r, NEW S, NEW s \in Seq(S), NEW k \in Nat, InOrder(r, s, k), s # <<>>
  PROVE  /\ Head(s) = [req |-> r, no |-> k + 1] /\ Head(s) \in S
         /\ InOrder(r, Tail(s), k + 1)
         /\ Tail(s) \in Seq(S) /\ Len(Tail(s)) = Len(s) - 1 /\ Len(s) \in Nat \ {0}
  <1>1. /\ Head(s) \in S /\ Tail(s) \in Seq(S) /\ Len(Tail(s)) = Len(s) - 1
        /\ \A i \in 1..Len(Tail(s)) : Tail(s)[i] = s[i + 1]
    BY HeadTailProperties
  <1>2. Len(s) \in Nat \ {0} /\ Head(s) = s[1]
    BY EmptySeq
  <1>3. Head(s) = [req |-> r, no |-> k + 1]
    <2>1. 1 \in 1..Len(s)
      BY <1>2
    <2> QED BY <1>2, <2>1 DEF InOrder
  <1>4. ASSUME NEW i \in 1..Len(Tail(s))
        PROVE  Tail(s)[i] = [req |-> r, no |-> (k + 1) + i]
    <2>1. i + 1 \in 1..Len(s) /\ k + (i + 1) = (k + 1) + i
      BY <1>1, <1>2
    <2>2. s[i + 1] = [req |-> r, no |-> k + (i + 1)]
      BY <2>1 DEF InOrder
    <2> QED BY <1>1, <2>1, <2>2
  <1> QED BY <1>1, <1>2, <1>3, <1>4 DEF InOrder

\* Any one of them.
LEMMA AtInOrder ==
  ASSUME NEW r, NEW s, NEW k, InOrder(r, s, k), NEW i \in 1..Len(s)
  PROVE  s[i] = [req |-> r, no |-> k + i]
  BY DEF InOrder

\* From the first message on, it is the beginning of the reply.
LEMMA WholeInOrder ==
  ASSUME NEW r, NEW S, NEW s \in Seq(S), InOrder(r, s, 0)
  PROVE  s = [i \in 1..Len(s) |-> [req |-> r, no |-> i]]
  <1>1. s \in [1..Len(s) -> S] /\ Len(s) \in Nat
    BY LenProperties
  <1>2. \A i \in 1..Len(s) : s[i] = [req |-> r, no |-> i]
    <2> SUFFICES ASSUME NEW i \in 1..Len(s) PROVE s[i] = [req |-> r, no |-> i]
      OBVIOUS
    <2>1. 0 + i = i
      BY <1>1
    <2> QED BY <2>1 DEF InOrder
  <1> QED BY <1>1, <1>2
=============================================================================
