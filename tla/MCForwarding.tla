----------------------------- MODULE MCForwarding -----------------------------
(* Instances of Forwarding for TLC. *)
EXTENDS Forwarding, TLC

CONSTANTS r1, r2, addr1, addr2
=============================================================================
