---------------------------- MODULE MCVpnClient ----------------------------
(***************************************************************************)
(* Instances of VpnClient for TLC: packets that can be told apart.         *)
(***************************************************************************)
EXTENDS VpnClient

MCPackets == {[bytes |-> b] : b \in {"first", "second", "third"}}

=============================================================================
