------------------------------ MODULE MCSessions ------------------------------
(* Instances of Sessions for TLC. *)
EXTENDS Sessions, TLC

CONSTANTS a1, a2, q1, q2

\* Two agents of one type, and requests for that type and for another one.
Type      == <<"t">>
SameType  == a1 :> Type @@ a2 :> Type
TwoModels == {Type, <<"u">>}

\* Both agents give out the same raw ID, with a colon in it.
SharedRaw == a1 :> {<<"y", ":", "x">>} @@ a2 :> {<<"y", ":", "x">>}

\* Agent a1 gives out one raw ID, agent a2 one with a colon in it.
OneRawEach == a1 :> {<<"x">>} @@ a2 :> {<<"y", ":", "x">>}
=============================================================================
