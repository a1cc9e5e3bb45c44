----------------------------- MODULE VpnClient -----------------------------
(***************************************************************************)
(* The VPN client (client/main.c) and the set-up of its tun interface      *)
(* (lib/ip_command.c): one thread that opens a UDP socket, makes an        *)
(* interface all traffic is routed to, and then takes turns between the    *)
(* two, with one buffer for both directions.                               *)
(*                                                                         *)
(* The client never looks into a packet: any set of values will do.        *)
(***************************************************************************)
EXTENDS Integers, Sequences, SequencesExt

CONSTANTS
    StackFlags,     \* what the uninitialised ifr_flags of add_tun may ask for
                    \* besides a tun: "plain" nothing, "vnet" a header before
                    \* each packet, "invalid" something a tun cannot have
    DatagramKinds,  \* what may arrive on the UDP socket: "packet"; "empty", a
                    \* datagram of no bytes; "junk", bytes that are no packet
    MayFail,        \* TRUE if system calls may fail
    Packets,        \* the packets the host and the server send
    QueueLimit      \* bound on the packets a descriptor queues

Empty == [bytes |-> "none"]            \* a datagram of no bytes
Junk == [bytes |-> "junk"]             \* bytes that are no IP packet

ASSUME ClientAssumption ==
    /\ StackFlags \subseteq {"plain", "vnet", "invalid"}
    /\ DatagramKinds \subseteq {"packet", "empty", "junk"}
    /\ MayFail \in BOOLEAN
    /\ QueueLimit \in Nat \ {0}
    /\ Empty \notin Packets

VARIABLES
    at,         \* where init_vpn_client and main stand
    open,       \* the open descriptors: "udp", "tun", "ctl"
    tunfd,      \* what setup_tun returned: "tun", or "-1"
    dev,        \* what has been done to the interface benker-vpn-tun
    flags,      \* the flags the interface was made with
    tun_in,     \* packets routed to the interface, not yet read
    udp_in,     \* datagrams of the server, not yet read
    buf         \* the packet in client.buf

queues == <<tun_in, udp_in>>
vars == <<at, open, tunfd, dev, flags, queues, buf>>

Complete == {"made", "up", "addr", "route"}

SetupPlaces == {"get udp socket", "add tun", "set int up", "set default ip addr",
                "set default route"}
RelayPlaces == {"send udp", "read udp", "write tun"}

\* Closing the descriptor of the tun removes the interface with its address
\* and its route.
CloseTun(others) ==
    /\ open' = others
    /\ dev' = {}

\* exit(-1), which closes every descriptor
Exit ==
    /\ at' = "exit"
    /\ CloseTun({})
    /\ UNCHANGED <<tunfd, flags, queues, buf>>

-----------------------------------------------------------------------------
(* setup_tun                                                               *)

Init ==
    /\ at = "get udp socket"
    /\ open = {} /\ tunfd = "-1" /\ dev = {}
    /\ flags = "plain"
    /\ tun_in = <<>> /\ udp_in = <<>>
    /\ buf = Empty

\* The result is not checked.
get_udp_socket_client ==
    /\ at = "get udp socket"
    /\ at' = "add tun"
    /\ \/ open' = {"udp"}
       \/ MayFail /\ open' = {}
    /\ UNCHANGED <<tunfd, dev, flags, queues, buf>>

\* Mutant: the descriptor of the tun is not closed.
SetupFails_keeps_tun(leaked) ==
    /\ MayFail
    /\ at' = "read tun"
    /\ open' = open \cup leaked
    /\ UNCHANGED <<tunfd, dev>>

\* FAIL_SETUP_TUN, after a part that left the descriptors in leaked open; main
\* goes on with a tunfd of -1.
SetupFails(leaked) ==
    /\ MayFail
    /\ at' = "read tun"
    /\ CloseTun((open \ {"tun"}) \cup leaked)
    /\ UNCHANGED tunfd

add_tun ==
    /\ at = "add tun"
    /\ \/ \E f \in StackFlags \ {"invalid"} :
             /\ flags' = f
             /\ open' = open \cup {"tun"}
             /\ dev' = {"made"}
             /\ at' = "set int up"
       \/ /\ MayFail \/ "invalid" \in StackFlags
          /\ at' = "read tun"
          /\ UNCHANGED <<open, dev, flags>>
    /\ UNCHANGED <<tunfd, queues, buf>>

\* do_chflags: the control socket may not open, and when one of the two ioctls
\* fails it is not closed.
set_int_up ==
    /\ at = "set int up"
    /\ \/ /\ dev' = dev \cup {"up"}
          /\ at' = "set default ip addr"
          /\ UNCHANGED <<open, tunfd>>
       \/ SetupFails({})
       \/ SetupFails({"ctl"})
    /\ UNCHANGED <<flags, queues, buf>>

\* rtnl_open or rtnl_talk may fail; rtnl_close follows either way.
set_default_ip_addr ==
    /\ at = "set default ip addr"
    /\ \/ /\ dev' = dev \cup {"addr"}
          /\ at' = "set default route"
          /\ UNCHANGED <<open, tunfd>>
       \/ SetupFails({})
    /\ UNCHANGED <<flags, queues, buf>>

set_default_route ==
    /\ at = "set default route"
    /\ \/ /\ dev' = dev \cup {"route"}
          /\ at' = "read tun"
          /\ tunfd' = "tun"
          /\ UNCHANGED open
       \/ SetupFails({})
    /\ UNCHANGED <<flags, queues, buf>>

-----------------------------------------------------------------------------
(* main                                                                    *)

\* Any call may fail, and it does on a descriptor of -1.
CallFails(fd) == MayFail \/ fd \notin open

read_tun ==
    /\ at = "read tun"
    /\ \/ /\ tunfd \in open /\ tun_in = <<>>
          /\ at' = "read udp"
          /\ UNCHANGED <<open, tunfd, dev, flags, queues, buf>>
       \/ /\ tunfd \in open /\ tun_in # <<>>
          /\ buf' = Head(tun_in)
          /\ tun_in' = Tail(tun_in)
          /\ at' = "send udp"
          /\ UNCHANGED <<open, tunfd, dev, flags, udp_in>>
       \/ CallFails(tunfd) /\ Exit

\* The packet is sent and main goes on at the given place.
SendThen(place) ==
    /\ at = "send udp"
    /\ \/ /\ "udp" \in open
          /\ at' = place
          /\ UNCHANGED <<open, tunfd, dev, flags, queues, buf>>
       \/ CallFails("udp") /\ Exit

\* Mutant: main starts over when the packet is sent.
send_msg_udp_continues == SendThen("read tun")

send_msg_udp == SendThen("read udp")

\* What read_msg_udp returned is 0 (none) if there is no datagram or an empty
\* one, which leaves the buffer alone.
ReadThen(none) ==
    /\ at = "read udp"
    /\ \/ /\ "udp" \in open /\ udp_in = <<>>
          /\ at' = none
          /\ UNCHANGED <<open, tunfd, dev, flags, queues, buf>>
       \/ /\ "udp" \in open /\ udp_in # <<>>
          /\ udp_in' = Tail(udp_in)
          /\ IF Head(udp_in) = Empty
             THEN at' = none /\ UNCHANGED buf
             ELSE at' = "write tun" /\ buf' = Head(udp_in)
          /\ UNCHANGED <<open, tunfd, dev, flags, tun_in>>
       \/ CallFails("udp") /\ Exit

\* Mutant: nothing read is written to the tun like anything else.
read_msg_udp_falls_through == ReadThen("write tun")

read_msg_udp == ReadThen("read tun")

\* The interface takes a packet if it is one; with a header expected before
\* each packet it may take or refuse what is written.
WriteThen(place) ==
    /\ at = "write tun"
    /\ \/ /\ buf # Junk \/ flags = "vnet"
          /\ at' = place
          /\ UNCHANGED <<open, tunfd, dev, flags, queues, buf>>
       \/ /\ MayFail \/ buf = Junk \/ flags = "vnet"
          /\ Exit

\* Mutant: the next datagram is read when one is written.
write_tun_reads_on == WriteThen("read udp")

write_tun == WriteThen("read tun")

-----------------------------------------------------------------------------
(* The kernel                                                              *)

\* All traffic of the host is routed to an interface that is set up.
Route(p) ==
    /\ "route" \in dev
    /\ Len(tun_in) < QueueLimit
    /\ tun_in' = Append(tun_in, p)
    /\ UNCHANGED <<at, open, tunfd, dev, flags, udp_in, buf>>

Arrive(d) ==
    /\ "udp" \in open
    /\ Len(udp_in) < QueueLimit
    /\ udp_in' = Append(udp_in, d)
    /\ UNCHANGED <<at, open, tunfd, dev, flags, tun_in, buf>>

PacketRouted == \E p \in Packets : Route(p)

DatagramArrives ==
    \/ "packet" \in DatagramKinds /\ \E p \in Packets : Arrive(p)
    \/ "empty" \in DatagramKinds /\ Arrive(Empty)
    \/ "junk" \in DatagramKinds /\ Arrive(Junk)

ClientStep ==
    \/ get_udp_socket_client \/ add_tun \/ set_int_up \/ set_default_ip_addr
    \/ set_default_route \/ read_tun \/ send_msg_udp \/ read_msg_udp \/ write_tun

Next == ClientStep \/ PacketRouted \/ DatagramArrives

Spec == Init /\ [][Next]_vars

\* No call of the client waits: both descriptors are read without blocking.
FairSpec == Spec /\ WF_vars(ClientStep)

-----------------------------------------------------------------------------
(* Properties                                                              *)

\* The types of the variables, and what the buffer holds when it is sent.
TypeOK ==
    /\ at \in SetupPlaces \cup RelayPlaces \cup {"read tun", "exit"}
    /\ open \subseteq {"udp", "tun", "ctl"}
    /\ tunfd \in {"tun", "-1"}
    /\ dev \subseteq Complete
    /\ flags \in {"plain", "vnet"}
    /\ tun_in \in Seq(Packets)
    /\ udp_in \in Seq(Packets \cup {Empty, Junk})
    /\ buf \in Packets \cup {Empty, Junk}
    /\ at = "send udp" => buf \in Packets
    /\ at = "write tun" => buf # Empty

\* ip_command.h:29, "tunnel-fd if success, -1 if any parts fail": a set-up
\* that fails in any of its parts leaves no interface, no route and no
\* descriptor of the tun behind, and although main checks neither descriptor
\* it gets no further than its first read; nothing is relayed before every
\* part is done.  What do_chflags does leave open after a failed ioctl, its
\* control socket, stays so only until that read ends the client.
SetupAllOrNothing ==
    /\ at \notin SetupPlaces /\ tunfd = "-1" =>
          at \in {"read tun", "exit"} /\ dev = {} /\ "tun" \notin open
    /\ at \in RelayPlaces => dev = Complete /\ open \subseteq {"udp", "tun"}
    /\ "ctl" \in open => at = "read tun" /\ tunfd = "-1"

\* What is on its way through the client, oldest first: the packet in the
\* buffer, if main is about to pass it on, and those in the queue.
Pipe(place, queue) ==
    (IF at = place THEN <<buf>> ELSE <<>>) \o queue
PipeUp == Pipe("send udp", tun_in)
PipeDown == Pipe("write tun", udp_in)

\* Packets enter at one end and leave, passed on, at the other; what is no
\* packet may be dropped there.
FirstInFirstOut(pipe, after, arrives, passes) ==
    \/ after = pipe
    \/ arrives /\ after # <<>> /\ Front(after) = pipe
    \/ /\ pipe # <<>> /\ after = Tail(pipe)
       /\ passes \/ Head(pipe) \notin Packets

\* client/main.c:43, "directly sent the whole packet": in both directions
\* no packet is lost, doubled, reordered or turned around, although one
\* buffer serves both, until a call fails and the client exits.
RelayInOrder ==
    [][at' # "exit" =>
          /\ FirstInFirstOut(PipeUp, PipeUp', Len(tun_in') > Len(tun_in), at = "send udp")
          /\ FirstInFirstOut(PipeDown, PipeDown', Len(udp_in') > Len(udp_in), at = "write tun")]_vars

\* ip_command.h:24, "ip tuntap dev benker-vpn-tun mode tun": what is read from
\* the interface and sent to the server is a packet and nothing else.
SendsWholePacket == [][at = "send udp" /\ at' = "read udp" => flags = "plain"]_vars

\* Neither descriptor starves the other, while packets keep coming on both,
\* unless a call fails and the client exits.
TunServed == (tun_in # <<>>) ~> (at \in {"send udp", "exit"})
UdpServed == (\E i \in DOMAIN udp_in : udp_in[i] \in Packets) ~> (at \in {"write tun", "exit"})

=============================================================================
