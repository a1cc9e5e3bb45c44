---------------------------- MODULE TcpTracking ----------------------------
(***************************************************************************)
(* One TCP connection through the VPN server: a client host, a host of the *)
(* outside world, and between them handle_client_packet and                *)
(* handle_world_packet, which watch the segments go by and keep syn_state, *)
(* client_fin_state and server_fin_state of the session.                   *)
(*                                                                         *)
(* The two hosts are not part of the repository: they are TCP endpoints    *)
(* that number the bytes of their stream from their initial sequence       *)
(* number (SYN and FIN take a number each), acknowledge cumulatively, and  *)
(* retransmit.  The networks on both sides of the server may delay,        *)
(* duplicate, reorder and lose segments: they are the sets of segments     *)
(* sent so far, any of which may arrive at any time or never.  The session *)
(* does not expire while the connection lasts.                             *)
(***************************************************************************)
EXTENDS PacketHandler, FiniteSets

CONSTANTS
    U32,         \* number of sequence numbers (2^32 in the build)
    ClientISN,   \* initial sequence number of the client
    WorldISN,    \* initial sequence number of the world host
    ClientData,  \* bytes the client may send
    WorldData,   \* bytes the world host may send
    MaxSegments, \* bound on the different segments a host sends
    Coalesce     \* TRUE if a FIN may be retransmitted together with data

ASSUME TrackingAssumption ==
    /\ U32 \in Nat \ {0}
    /\ ClientISN \in 0 .. U32 - 1 /\ WorldISN \in 0 .. U32 - 1
    /\ ClientData \in Nat /\ WorldData \in Nat /\ MaxSegments \in Nat
    /\ Coalesce \in BOOLEAN

VARIABLES
    session,     \* the fields of the session that packet_handler.c updates
    client,      \* the client host
    world,       \* the world host
    up,          \* segments the client sent
    forwarded,   \* segments the server passed on to the world
    down,        \* segments the world sent
    returned     \* segments the server passed back to the client

vars == <<session, client, world, up, forwarded, down, returned>>

-----------------------------------------------------------------------------
(* The hosts                                                               *)

\* nxt: next stream position to send; una: first one not acknowledged;
\* rcv: next position expected from the peer; fin: position of the FIN, 0
\* until the host has closed.
Host(sends, receives) ==
    [nxt : 0 .. sends + 2, una : 0 .. sends + 2, fin : 0 .. sends + 1,
     rcv : 0 .. receives + 2]

IdleHost == [nxt |-> 0, una |-> 0, rcv |-> 0, fin |-> 0]

\* A segment of host h: positions pos .. pos + len - 1 of its stream, and what
\* it expects from its peer.
Segment(h, isn, peer_isn, pos, len) ==
    [syn |-> pos = 0,
     fin |-> h.fin # 0 /\ len > 0 /\ pos + len = h.fin + 1,
     ack |-> h.rcv > 0,
     seq |-> (isn + pos) % U32,
     ack_seq |-> IF h.rcv > 0 THEN (peer_isn + h.rcv) % U32 ELSE 0,
     pos |-> pos, len |-> len, rcv |-> h.rcv]

\* The runs of positions <<pos, len>> a host may send: its SYN until that is
\* acknowledged; then a bare acknowledgement, any position not acknowledged
\* yet, and with Coalesce the FIN together with data before it.
MaySend(h) ==
    IF h.una = 0
    THEN {<<0, 1>>}
    ELSE {<<h.nxt, 0>>} \cup {<<o, 1>> : o \in h.una .. h.nxt - 1} \cup
         {<<o, h.fin + 1 - o>> :
             o \in {o \in h.una .. h.fin - 1 : Coalesce /\ h.fin # 0}}

\* Host h takes segment p: the acknowledgement counts, and what the segment
\* carries counts if nothing before it is missing.
Take(h, p) ==
    [h EXCEPT !.una = IF p.rcv > @ THEN p.rcv ELSE @,
              !.rcv = IF p.pos <= @ /\ p.pos + p.len > @
                      THEN p.pos + p.len ELSE @]

\* The connection is open for a host when its SYN has been acknowledged.
Open(h) == h.una > 0

\* The application hands over one more byte, or closes its direction.
Write(h) == [h EXCEPT !.nxt = @ + 1]
Close(h) == [h EXCEPT !.nxt = @ + 1, !.fin = h.nxt]

Writable(h) == Open(h) /\ h.fin = 0

-----------------------------------------------------------------------------
Init ==
    /\ session = NewTrack
    /\ client = [IdleHost EXCEPT !.nxt = 1]
    /\ world = IdleHost
    /\ up = {} /\ forwarded = {} /\ down = {} /\ returned = {}

ClientWrites ==
    /\ Writable(client)
    /\ \/ client.nxt <= ClientData /\ client' = Write(client)
       \/ client' = Close(client)
    /\ UNCHANGED <<session, world, up, forwarded, down, returned>>

ClientSends ==
    /\ Cardinality(up) < MaxSegments
    /\ \E m \in MaySend(client) :
          up' = up \cup {Segment(client, ClientISN, WorldISN, m[1], m[2])}
    /\ UNCHANGED <<session, client, world, forwarded, down, returned>>

ClientReceives ==
    /\ \E p \in returned : client' = Take(client, p)
    /\ UNCHANGED <<session, world, up, forwarded, down, returned>>

WorldWrites ==
    /\ Writable(world)
    /\ \/ world.nxt <= WorldData /\ world' = Write(world)
       \/ world' = Close(world)
    /\ UNCHANGED <<session, client, up, forwarded, down, returned>>

\* The world host is silent until it has a SYN to answer.
WorldSends ==
    /\ world.nxt > 0
    /\ Cardinality(down) < MaxSegments
    /\ \E m \in MaySend(world) :
          down' = down \cup {Segment(world, WorldISN, ClientISN, m[1], m[2])}
    /\ UNCHANGED <<session, client, world, up, forwarded, returned>>

WorldReceives ==
    /\ \E p \in forwarded :
          world' = LET h == Take(world, p)
                   IN  IF h.nxt = 0 /\ p.syn THEN [h EXCEPT !.nxt = 1] ELSE h
    /\ UNCHANGED <<session, client, up, forwarded, down, returned>>

\* The server: the flags are looked at, then the packet is passed on.
handle_client_packet(p) ==
    /\ session' = ClientFlags(session, p)
    /\ forwarded' = forwarded \cup {p}
    /\ UNCHANGED <<client, world, up, down, returned>>

handle_world_packet(p) ==
    /\ session' = WorldFlags(session, p)
    /\ returned' = returned \cup {p}
    /\ UNCHANGED <<client, world, up, forwarded, down>>

Next ==
    \/ ClientWrites \/ ClientSends \/ ClientReceives
    \/ WorldWrites \/ WorldSends \/ WorldReceives
    \/ \E p \in up : handle_client_packet(p)
    \/ \E p \in down : handle_world_packet(p)

Spec == Init /\ [][Next]_vars

-----------------------------------------------------------------------------
(* Properties                                                              *)

\* The session fields and the hosts have their types.
TypeOK ==
    /\ session \in Track(0 .. U32 - 1)
    /\ client \in Host(ClientData, WorldData)
    /\ world \in Host(WorldData, ClientData)

\* The server never records more than has happened (session_struct.h:23-42):
\* syn_state 3 means the client has the SYN of the world and answered it;
\* server_fin_state 2 means the world has received the FIN of the client, and
\* client_fin_state 2 the other way round.
NeverAhead ==
    /\ session.syn_state = 3 => client.rcv > 0
    /\ session.server_fin_state = 2 => client.fin # 0 /\ world.rcv > client.fin
    /\ session.client_fin_state = 2 => world.fin # 0 /\ client.rcv > world.fin

\* What a host learns through the server, the server has recorded: the world
\* sees its SYN acknowledged only with syn_state 3, and a host sees its FIN
\* acknowledged only with the matching state 2.
NeverBehind ==
    /\ Open(world) => session.syn_state = 3
    /\ client.fin # 0 /\ client.una > client.fin => session.server_fin_state = 2
    /\ world.fin # 0 /\ world.una > world.fin => session.client_fin_state = 2

=============================================================================
