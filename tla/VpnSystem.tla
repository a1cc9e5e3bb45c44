----------------------------- MODULE VpnSystem -----------------------------
(***************************************************************************)
(* A VPN client and the VPN server together, with the host whose packets   *)
(* the client takes, the Internet between the two and the servers of the   *)
(* world that answer.  VpnServer is extended and VpnClient instantiated;   *)
(* what one program sends is what the other one receives.                  *)
(*                                                                         *)
(* Datagrams may be lost, doubled and reordered: whatever was sent once    *)
(* may be delivered any number of times, at any later time, or never.  The *)
(* client may die at any point and be started again, on another UDP port.  *)
(* System calls succeed; VpnServer and VpnClient have the ones that fail.   *)
(***************************************************************************)
EXTENDS VpnServer

CONSTANTS
    Requests,    \* the SYN packets the host sends and repeats
    Addresses    \* the UDP addresses of the client, one for each time it is
                 \* started; a bound on how often that is

ASSUME SystemAssumption ==
    /\ Requests \subseteq [valid : {TRUE}, ep : Endpoints, syn : {TRUE}, ack : BOOLEAN,
                           fin : BOOLEAN, seq : Nat, ack_seq : Nat]
    /\ Addresses # <<>> /\ \A a \in ToSet(Addresses) : a # NoAddr
    /\ ~ MayFail

VARIABLES
    c_at, c_open, c_tunfd, c_dev, c_flags,    \* the variables of VpnClient
    c_tun_in, c_udp_in, c_buf,
    c_start,   \* how often the client has been started
    up,        \* the datagrams sent to the server
    wire,      \* the packets the server sent to the world
    down,      \* the datagrams sent to the client
    got        \* what the client wrote to its interface

client == <<c_at, c_open, c_tunfd, c_dev, c_flags, c_tun_in, c_udp_in, c_buf>>
network == <<up, wire, down, got>>
sysvars == <<allvars, client, c_start, network>>

Client == INSTANCE VpnClient WITH
    StackFlags <- {"plain"}, DatagramKinds <- {}, Packets <- Requests,
    at <- c_at, open <- c_open, tunfd <- c_tunfd, dev <- c_dev,
    flags <- c_flags, tun_in <- c_tun_in, udp_in <- c_udp_in, buf <- c_buf

\* The UDP address of the client.
c_addr == Addresses[c_start]

SystemInit ==
    /\ ServerInit
    /\ Client!Init
    /\ c_start = 1
    /\ up = {} /\ wire = {} /\ down = {} /\ got = {}

-----------------------------------------------------------------------------
(* The programs                                                            *)

ClientRuns ==
    /\ Client!ClientStep
    /\ up' = IF c_at = "send udp" /\ c_at' # "exit"
             THEN up \cup {[from |-> c_addr, pkt |-> c_buf]}
             ELSE up
    /\ got' = IF c_at = "write tun" /\ c_at' # "exit" THEN got \cup {c_buf} ELSE got
    /\ UNCHANGED <<allvars, c_start, wire, down>>

ServerRuns ==
    /\ ServerStep
    /\ wire' = IF at = "send raw" THEN wire \cup {[port |-> buf.port, seq |-> buf.seq]}
                                  ELSE wire
    /\ down' = IF at = "send udp"
               THEN down \cup {[to |-> raddr, ep |-> buf.ep, ack_seq |-> buf.ack_seq]}
               ELSE down
    /\ UNCHANGED <<client, c_start, up, got>>

\* The client dies, and what its socket and its interface held is gone.
ClientRestarts ==
    /\ c_start < Len(Addresses)
    /\ c_start' = c_start + 1
    /\ c_at' = "get udp socket"
    /\ c_open' = {} /\ c_tunfd' = "-1" /\ c_dev' = {}
    /\ c_tun_in' = <<>> /\ c_udp_in' = <<>>
    /\ c_buf' = Client!Empty
    /\ UNCHANGED <<allvars, c_flags, network>>

-----------------------------------------------------------------------------
(* Everything around them                                                  *)

HostSends(p) ==
    /\ Client!Route(p)
    /\ UNCHANGED <<allvars, c_start, network>>

\* The packet of a datagram with the address it comes from.
Received(d) ==
    [x \in {"from"} \cup DOMAIN d.pkt |-> IF x = "from" THEN d.from ELSE d.pkt[x]]

UpDelivered(d) ==
    /\ d \in up
    /\ Len(udp_in) < QueueLimit
    /\ udp_in' = Append(udp_in, Received(d))
    /\ UNCHANGED <<vars, server, raw_in, client, c_start, network>>

\* A server of the world accepts the connection it was asked for.
WorldAnswers(w) ==
    /\ w \in wire
    /\ Len(raw_in) < FrameLimit
    /\ raw_in' = Append(raw_in,
          [pkttype |-> "host", valid |-> TRUE, port |-> w.port, syn |-> TRUE,
           ack |-> TRUE, fin |-> FALSE, seq |-> 0, ack_seq |-> w.seq + 1])
    /\ UNCHANGED <<vars, server, udp_in, client, c_start, network>>

DownDelivered(d) ==
    /\ d \in down
    /\ d.to = c_addr
    /\ Client!Arrive(d)
    /\ UNCHANGED <<allvars, c_start, network>>

\* Frames nobody asked for.
NoiseArrives == FrameArrives /\ UNCHANGED <<client, c_start, network>>

TimePasses == ClockTicks /\ UNCHANGED <<client, c_start, network>>

\* What can be on the way.
Ups == [from : ToSet(Addresses), pkt : Requests]
Wires == [port : Ports, seq : {p.seq : p \in Requests}]
Downs == [to : ToSet(Addresses), ep : Endpoints, ack_seq : {p.seq + 1 : p \in Requests}]

SystemNext ==
    \/ ClientRuns
    \/ ServerRuns
    \/ ClientRestarts
    \/ \E p \in Requests : HostSends(p)
    \/ \E d \in Ups : UpDelivered(d)
    \/ \E w \in Wires : WorldAnswers(w)
    \/ \E d \in Downs : DownDelivered(d)
    \/ NoiseArrives
    \/ TimePasses

\* A packet the client sent since it was last started is delivered.
PresentUp(p) == UpDelivered([from |-> c_addr, pkt |-> p])

\* An answer sent to the present address of the client is delivered.
PresentDown(ep, n) == DownDelivered([to |-> c_addr, ep |-> ep, ack_seq |-> n])

\* Both programs go on running, as their descriptors never block; what can be
\* delivered again and again is not lost for ever, except for the datagrams of
\* a client that died, of which none has to arrive.
SystemSpec ==
    /\ SystemInit /\ [][SystemNext]_sysvars
    /\ WF_sysvars(ClientRuns) /\ WF_sysvars(ServerRuns)
    /\ \A p \in Requests : SF_sysvars(PresentUp(p))
    /\ \A w \in Wires : SF_sysvars(WorldAnswers(w))
    /\ \A ep \in Endpoints, n \in {p.seq + 1 : p \in Requests} :
          SF_sysvars(PresentDown(ep, n))

-----------------------------------------------------------------------------
(* Properties                                                              *)

\* Every frame that is taken for one to this host answers a packet of the
\* server: the others that come are recognised as frames to other hosts.
Quiet == SockLens = {"enough"} /\ \A f \in Frames : f.pkttype # "host"

\* Whatever is lost, doubled, late or reordered on the way, and although the
\* server has one buffer and one remote address for all and the client may have
\* been restarted: what the server sends, and what the client writes to its
\* interface, goes to an address a request came from and to an endpoint that
\* sent a request; in a quiet world it answers that request.
AnswersAsked ==
    \A d \in down \cup got :
        /\ \E u \in up : u.from = d.to
        /\ \E u \in up : u.pkt.ep = d.ep /\ (Quiet => d.ack_seq = u.pkt.seq + 1)

\* main keeps leaving get_ip_packet, whose loop has no bound.
ReadsEnd == []<>(at # "read raw")

\* From some time on, no datagram of the client before its last restart arrives.
OldForgotten == <>[](\A i \in DOMAIN udp_in : udp_in[i].from = c_addr)

\* The client has sent p since it was last started.
Sent(p) == [from |-> c_addr, pkt |-> p] \in up

\* A request that reached the network is answered in the end, unless its
\* session expires or the client dies.  The answer finds the client at its
\* present address, although the server keeps one remote address only and late
\* datagrams of the client before its restart may set it back; and the UDP
\* socket is served although frames keep coming, if get_ip_packet returns.
RequestAnswered ==
    ReadsEnd /\ OldForgotten =>
        \A p \in Requests :
            Sent(p) ~>
                \/ \E d \in got : d.to = c_addr /\ d.ep = p.ep
                \/ \E s \in DOMAIN heap : heap[s].client = p.ep /\ session_expired(s)
                \/ ~ Sent(p)

=============================================================================
