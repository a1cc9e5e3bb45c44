---------------------------- MODULE MCVpnServer ----------------------------
(***************************************************************************)
(* Instances of VpnServer for TLC: one client endpoint more than there are *)
(* ports, and the packets of a handshake.                                  *)
(***************************************************************************)
EXTENDS VpnServer

MCEndpoints == {<<10, 1>>, <<10, 2>>, <<10, 3>>}

Datagram(from, ep, syn, ack, ack_seq) ==
    [from |-> from, valid |-> TRUE, ep |-> ep, syn |-> syn, ack |-> ack,
     fin |-> FALSE, seq |-> 3, ack_seq |-> ack_seq]

Frame(pkttype, port, syn) ==
    [pkttype |-> pkttype, valid |-> TRUE, port |-> port, syn |-> syn,
     ack |-> TRUE, fin |-> FALSE, seq |-> 5, ack_seq |-> 4]

\* SYNs of all endpoints, an acknowledgement, a packet that is not TCP, and an
\* empty datagram.
MCDatagrams ==
    {Datagram("home", ep, TRUE, FALSE, 0) : ep \in MCEndpoints} \cup
    {Datagram("home", <<10, 1>>, FALSE, TRUE, 6),
     [Datagram("home", <<10, 1>>, TRUE, FALSE, 0)
         EXCEPT !.valid = FALSE],
     [from |-> "home"]}

\* A SYN-ACK for the first port of the range, and a frame for another host
\* that has the second port and may be taken for one to this host.
MCFrames == {Frame("host", 4, TRUE), Frame("other", 5, FALSE)}

MCHostFrames == {Frame("host", 4, TRUE)}
MCSyns == {Datagram("home", <<10, 1>>, TRUE, FALSE, 0)}

MCCountGarbage == {-1, 0, 2}

=============================================================================
