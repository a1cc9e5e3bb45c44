---------------------------- MODULE MCVpnSystem ----------------------------
(***************************************************************************)
(* An instance of VpnSystem for TLC: a host that opens a connection, a     *)
(* client that may be restarted once, and frames for other hosts.          *)
(***************************************************************************)
EXTENDS VpnSystem

MCEndpoints == {<<10, 1>>}

MCRequests ==
    {[valid |-> TRUE, ep |-> <<10, 1>>, syn |-> TRUE, ack |-> FALSE,
      fin |-> FALSE, seq |-> 3, ack_seq |-> 0]}

MCNoise ==
    {[pkttype |-> "other", valid |-> TRUE, port |-> 4, syn |-> TRUE,
      ack |-> TRUE, fin |-> FALSE, seq |-> 0, ack_seq |-> 4]}

MCAddresses == <<"first", "second">>

MCCountZero == {0}

=============================================================================
