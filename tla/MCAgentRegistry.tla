--------------------------- MODULE MCAgentRegistry ---------------------------
(* Instances of AgentRegistry for TLC. *)
EXTENDS AgentRegistry, TLC

CONSTANTS a1, a2, c1, c2, c3, g1, g2

\* Agent a1 with a connection to each gateway, agent a2 with one to g1.
TwoAndOne == c1 :> a1 @@ c2 :> a1 @@ c3 :> a2
Shared    == c1 :> g1 @@ c2 :> g2 @@ c3 :> g1

\* One agent with two connections, to one gateway or to each of two.
Twice       == c1 :> a1 @@ c2 :> a1
SameGateway == c1 :> g1 @@ c2 :> g1
EachGateway == c1 :> g1 @@ c2 :> g2

\* Two agents with a connection each.
OneEach == c1 :> a1 @@ c2 :> a2

CallerSymmetry == Permutations(Callers)
=============================================================================
