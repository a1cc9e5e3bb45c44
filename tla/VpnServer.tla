----------------------------- MODULE VpnServer -----------------------------
(***************************************************************************)
(* The VPN server (server/main.c): one thread that takes turns between the *)
(* UDP socket of the VPN clients and the raw socket of the outside world,  *)
(* with one packet buffer, one remote address and the session table of     *)
(* SessionTable.  Around it run the kernel, which queues packets and drops *)
(* what a full queue cannot take, and the clock.                           *)
(*                                                                         *)
(* A packet is what the handlers look at: "valid" says whether             *)
(* validate_ip_tcp accepts it, and syn, ack, fin, seq and ack_seq are as   *)
(* in PacketHandler.  A datagram of a client also has the UDP address      *)
(* "from" and the TCP endpoint "ep" it comes from; a frame of the world    *)
(* has its link-layer type "pkttype" and the TCP port "port" it goes to.   *)
(***************************************************************************)
EXTENDS SessionTable, PacketHandler

CONSTANTS
    Datagrams,      \* what may arrive on the UDP socket
    Frames,         \* what may arrive on the raw socket
    SessionTimeout, \* the 10 seconds handle_client_packet passes
    SockLens,       \* what the uninitialised sock_len may be good for
    MayFail,        \* TRUE if socket calls may fail
    QueueLimit,     \* bound on the datagrams the UDP socket queues
    FrameLimit      \* bound on the frames the raw socket queues

NoAddr == "none"                   \* an address never set

\* A datagram of no bytes has nothing but the address it comes from.
IsEmpty(d) == DOMAIN d = {"from"}

ASSUME ServerAssumption ==
    /\ \A d \in Datagrams : d.from # NoAddr
    /\ \A d \in Datagrams : IsEmpty(d) \/ (d.ep \in Endpoints /\ d.seq \in Nat)
    /\ \A f \in Frames : f.port \in Nat /\ f.seq \in Nat
    /\ SessionTimeout \in Timeouts
    /\ SockLens \subseteq {"enough", "short", "negative"}
    /\ MayFail \in BOOLEAN
    /\ QueueLimit \in Nat \ {0} /\ FrameLimit \in Nat \ {0}

VARIABLES
    track,     \* per session, the fields packet_handler.c updates
    udp_in,    \* queue of the UDP socket
    raw_in,    \* queue of the raw socket
    at,        \* where main stands
    buf,       \* the packet in s.buf
    raddr,     \* s.raddr, the address replies go to
    owner      \* history: the endpoints each port was used for on the wire

server == <<track, at, buf, raddr, owner>>
allvars == <<vars, server, udp_in, raw_in>>

Empty == [holds |-> "nothing"]     \* a buffer never filled
Reset == [holds |-> "reset"]       \* what fillin_reset leaves in the buffer

\* The places where main reads, handles, sends, sleeps or has exited.
Places == {"read udp", "handle client", "send raw", "read raw",
           "handle world", "send udp", "sleep", "exit"}

\* Unless both sockets open and bind, the server exits.
OpenSockets == at = "read udp" \/ (MayFail /\ at = "exit")

\* init_vpn_server
ServerInit ==
    /\ Init
    /\ track = <<>>
    /\ udp_in = <<>> /\ raw_in = <<>>
    /\ OpenSockets
    /\ buf = Empty
    /\ raddr = NoAddr
    /\ owner = [port \in Ports |-> {}]

\* perror and exit(-1)
Fails ==
    /\ MayFail
    /\ at \in {"read udp", "send raw", "read raw", "send udp"}
    /\ at' = "exit"
    /\ UNCHANGED <<vars, track, udp_in, raw_in, buf, raddr, owner>>

-----------------------------------------------------------------------------
(* From the client to the world                                            *)

\* read_msg_udp, with the remote address it sets when there is a datagram; an
\* empty one sets it too, and is taken for none.
ReadMsg(remote) ==
    /\ at = "read udp"
    /\ \/ /\ udp_in = <<>>
          /\ at' = "read raw"
          /\ UNCHANGED <<udp_in, buf, raddr>>
       \/ /\ udp_in # <<>>
          /\ raddr' = remote
          /\ udp_in' = Tail(udp_in)
          /\ IF IsEmpty(Head(udp_in))
             THEN at' = "read raw" /\ UNCHANGED buf
             ELSE at' = "handle client" /\ buf' = Head(udp_in)
    /\ UNCHANGED <<vars, track, raw_in, owner>>

\* Mutant: the remote address is kept once it is known.
read_msg_udp_first_address ==
    ReadMsg(IF raddr = NoAddr THEN Head(udp_in).from ELSE raddr)

\* Mutant: the address of the sender is not asked for.
read_msg_udp_no_address == ReadMsg(raddr)

\* recvfrom fills in the buffer and the remote address.
read_msg_udp == ReadMsg(Head(udp_in).from)

\* add_tcp_session may just have allocated the session.
TrackNow == IF Len(heap') > Len(track) THEN Append(track, NewTrack) ELSE track

\* A session was found or made and has not expired.
ValidSession(s) == s # NULL /\ ~ now > heap'[s].expire

\* Either handler replaces an endpoint by the port, or the port by the endpoint.
Rewritten(ep, port) ==
    [ep |-> ep, port |-> port, seq |-> buf.seq, ack_seq |-> buf.ack_seq]

\* The rest of handle_client_packet, once it has looked up session s; main goes
\* on at the given place if the packet is refused.
LookedUp(s, refused) ==
    \/ /\ ~ ValidSession(s)
       /\ track' = TrackNow
       /\ buf' = Reset
       /\ at' = refused
    \/ /\ ValidSession(s)
       /\ track' = [TrackNow EXCEPT ![s] = ClientFlags(@, buf)]
       /\ buf' = Rewritten(buf.ep, heap'[s].server_port)
       /\ at' = "send raw"

\* Mutant: a packet that is refused takes main back to its start.
ClientLookedUp_continues(s) == LookedUp(s, "read udp")

ClientLookedUp(s) == LookedUp(s, "read raw")

handle_client_packet ==
    /\ at = "handle client"
    /\ \/ /\ ~ buf.valid
          /\ buf' = Reset
          /\ at' = "read raw"
          /\ UNCHANGED <<vars, track>>
       \/ /\ buf.valid /\ buf.syn
          /\ \E c \in CountInit : add_tcp_session(buf.ep, SessionTimeout, c)
          /\ ClientLookedUp(ret')
       \/ /\ buf.valid /\ ~ buf.syn
          /\ UNCHANGED vars
          /\ ClientLookedUp(get_tcp_session_by_client(buf.ep))
    /\ UNCHANGED <<udp_in, raw_in, raddr, owner>>

send_ip_packet ==
    /\ at = "send raw"
    /\ owner' = [owner EXCEPT ![buf.port] = @ \cup {buf.ep}]
    /\ at' = "read raw"
    /\ UNCHANGED <<vars, track, udp_in, raw_in, buf, raddr>>

-----------------------------------------------------------------------------
(* From the world to the client                                            *)

\* One turn of the loop of get_ip_packet that finds a frame; type "host" stands
\* for PACKET_HOST with a hardware address.  With a sock_len too short the type
\* of the frame is whatever the stack held; with a negative one recvfrom drops
\* the frame and fails.  (The first turn of a call leaves a proper sock_len to
\* the next; choosing anew in each turn allows more.)
ReadFrame(sock_len) ==
    /\ raw_in # <<>>
    /\ raw_in' = Tail(raw_in)
    /\ buf' = Head(raw_in)
    /\ \/ sock_len = "enough" /\ Head(raw_in).pkttype = "host"
          /\ at' = "handle world"
       \/ sock_len = "enough" /\ Head(raw_in).pkttype # "host"
          /\ at' = "read raw"
       \/ sock_len = "short" /\ at' \in {"handle world", "read raw"}
       \/ sock_len = "negative" /\ at' = "exit"

get_ip_packet ==
    /\ at = "read raw"
    /\ \/ /\ raw_in = <<>>
          /\ at' = "sleep"
          /\ UNCHANGED <<raw_in, buf>>
       \/ \E sock_len \in SockLens : ReadFrame(sock_len)
    /\ UNCHANGED <<vars, track, udp_in, raddr, owner>>

handle_world_packet ==
    /\ at = "handle world"
    /\ UNCHANGED <<vars, udp_in, raw_in, raddr, owner>>
    /\ LET s == get_tcp_session_by_server(buf.port)
           accepted == buf.valid /\ ValidSession(s)
       IN  \/ /\ ~ accepted
              /\ buf' = Reset
              /\ at' = "read udp"
              /\ UNCHANGED track
           \/ /\ accepted
              /\ track' = [track EXCEPT ![s] = WorldFlags(@, buf)]
              /\ buf' = Rewritten(heap[s].client, buf.port)
              /\ at' = "send udp"

\* "assume only 1 client": the reply goes to the address of the last datagram.
send_msg_udp ==
    /\ at = "send udp"
    /\ at' = "read udp"
    /\ UNCHANGED <<vars, track, udp_in, raw_in, buf, raddr, owner>>

sleep ==
    /\ at = "sleep"
    /\ at' = "read udp"
    /\ UNCHANGED <<vars, track, udp_in, raw_in, buf, raddr, owner>>

-----------------------------------------------------------------------------
(* The kernel and the clock                                                *)

DatagramArrives ==
    /\ Len(udp_in) < QueueLimit
    /\ \E d \in Datagrams : udp_in' = Append(udp_in, d)
    /\ UNCHANGED <<vars, server, raw_in>>

FrameArrives ==
    /\ Len(raw_in) < FrameLimit
    /\ \E f \in Frames : raw_in' = Append(raw_in, f)
    /\ UNCHANGED <<vars, server, udp_in>>

ClockTicks == Tick /\ UNCHANGED <<server, udp_in, raw_in>>

\* main, as long as it runs
ServerStep ==
    \/ read_msg_udp \/ handle_client_packet \/ send_ip_packet
    \/ get_ip_packet \/ handle_world_packet \/ send_msg_udp \/ sleep

ServerNext ==
    \/ ServerStep
    \/ Fails
    \/ DatagramArrives
    \/ FrameArrives
    \/ ClockTicks

ServerSpec == ServerInit /\ [][ServerNext]_allvars

\* Both sockets are non-blocking: main never waits for anything but sleep(1).
FairServerSpec == ServerSpec /\ WF_allvars(ServerStep)

-----------------------------------------------------------------------------
(* Properties                                                              *)

\* The types of the variables of main; the table keeps its own.
ServerTypeOK ==
    /\ TypeOK
    /\ track \in Seq(Track(Nat))
    /\ Len(track) = Len(heap)
    /\ at \in Places
    /\ owner \in [Ports -> SUBSET Endpoints]

\* A packet of the world that is passed to the client carries the endpoint
\* that alone ever used its port, however long ago: no endpoint receives what
\* was sent to another one, and the address it is sent to has been set.
ReplyReachesOwner ==
    at = "send udp" =>
        /\ owner[buf.port] = {buf.ep}
        /\ raddr # NoAddr

\* A frame for this host has been read: it is going to be handled, or was
\* skipped because the uninitialised sock_len cost it its type.
HostFrameRead ==
    /\ at \in {"handle world", "read raw"}
    /\ "pkttype" \in DOMAIN buf /\ buf.pkttype = "host"

\* A frame for this host that is queued is read in the end, unless the server
\* exits: main comes to the raw socket however many datagrams keep coming and
\* are refused, and get_ip_packet gets past the frames for other hosts that
\* stand before it, although more of them keep coming.
FrameServed ==
    (\E i \in DOMAIN raw_in : raw_in[i].pkttype = "host")
        ~> (HostFrameRead \/ at = "exit")

\* packet_handler.c:55-57, "if session_expire(session): delete_session(...)":
\* an endpoint whose session has expired and that keeps retrying its SYN is
\* refused only until the expired session is out of its way.
ServedAgain ==
    \A ep \in Endpoints :
        []<>(at = "handle client" /\ buf.valid /\ buf.syn /\ buf.ep = ep)
            => []<>(at = "send raw" /\ buf.ep = ep)

=============================================================================
