-------------------------- MODULE VpnServerProofs --------------------------
(***************************************************************************)
(* Proofs about VpnServer, for every set of datagrams and frames, port     *)
(* range and number of buckets, whatever count and sock_len held and       *)
(* whichever calls fail.  The invariant says what the packets in the       *)
(* queues are like and not where they come from, so that it serves for a   *)
(* server among others as well.                                            *)
(***************************************************************************)
EXTENDS VpnServer, SessionTableCalls

-----------------------------------------------------------------------------
(* The inductive invariant                                                 *)

\* The server never unlinks and never frees a session.
AllListed ==
    /\ pc = "ready" /\ freed = {}
    /\ \A s \in DOMAIN heap : /\ s \in Listed(list_client_key)
                              /\ s \in Listed(list_server_key)

\* What the handlers rely on, in a datagram and in a frame.
GoodDatagram(d) ==
    d.from # NoAddr /\ (IsEmpty(d) \/ (d.ep \in Endpoints /\ d.seq \in Nat))
GoodFrame(f) == f.port \in Nat /\ f.seq \in Nat

GoodDatagrams(q) == \E S : q \in Seq(S) /\ \A d \in S : GoodDatagram(d)
GoodFrames(q) == \E S : q \in Seq(S) /\ \A f \in S : GoodFrame(f)

\* What is queued, and what the buffer holds at the places that look into it.
BufferOK ==
    /\ GoodDatagrams(udp_in)
    /\ GoodFrames(raw_in)
    /\ at = "handle client" => GoodDatagram(buf) /\ ~ IsEmpty(buf)
    /\ at = "handle world" => GoodFrame(buf)
    /\ at \in {"send raw", "send udp"} =>
          \E s \in DOMAIN heap : /\ buf.port = heap[s].server_port
                                 /\ buf.ep = heap[s].client

\* Once a session exists, a datagram has been received.
AddressKnown ==
    heap # <<>> \/ at = "handle client" => raddr # NoAddr

Used(port) == \E s \in DOMAIN heap : heap[s].server_port = port

\* The port of a session was used on the wire for its endpoint alone, and it
\* was, unless its first packet is yet to be sent or could not be.
Owned ==
    /\ \A s \in DOMAIN heap :
          \/ owner[heap[s].server_port] = {heap[s].client}
          \/ /\ owner[heap[s].server_port] = {}
             /\ \/ at = "exit"
                \/ at = "send raw" /\ buf.port = heap[s].server_port
    /\ \A port \in Ports : ~ Used(port) => owner[port] = {}

\* Ports are handed out one after the other until none is left, and NULL is
\* returned only then.
Sequential ==
    \/ \A port \in Ports : Used(port)
    \/ /\ next_num < mod_num
       /\ \A port \in Ports : Used(port) <=> port < MinPort + next_num
       /\ ret # NULL

ServerInv ==
    IInv /\ ServerTypeOK /\ AllListed /\ BufferOK /\ AddressKnown /\ Owned /\ Sequential

-----------------------------------------------------------------------------
(* Queues                                                                  *)

\* What the sockets may receive in VpnServer is good.
LEMMA ArrivalsGood ==
    (\A d \in Datagrams : GoodDatagram(d)) /\ (\A f \in Frames : GoodFrame(f))
BY ServerAssumption DEF GoodDatagram, GoodFrame

LEMMA EmptyQueues == GoodDatagrams(<<>>) /\ GoodFrames(<<>>)
<1>1. PICK S : S = {}
  OBVIOUS
<1>2. <<>> \in Seq(S)
  OBVIOUS
<1>3. \A d \in S : GoodDatagram(d)
  BY <1>1
<1>4. \A d \in S : GoodFrame(d)
  BY <1>1
<1>5. GoodDatagrams(<<>>)
  BY <1>2, <1>3, Zenon DEF GoodDatagrams
<1>6. GoodFrames(<<>>)
  BY <1>2, <1>4, Zenon DEF GoodFrames
<1> QED
  BY <1>5, <1>6

LEMMA QueueOfDatagrams ==
    ASSUME NEW q, GoodDatagrams(q)
    PROVE  /\ q # <<>> => GoodDatagram(Head(q)) /\ GoodDatagrams(Tail(q))
           /\ \A d : GoodDatagram(d) => GoodDatagrams(Append(q, d))
<1>1. PICK S : q \in Seq(S) /\ \A d \in S : GoodDatagram(d)
  BY DEF GoodDatagrams
<1>2. q # <<>> => Head(q) \in S /\ Tail(q) \in Seq(S)
  BY <1>1
<1>3. ASSUME NEW d, GoodDatagram(d) PROVE GoodDatagrams(Append(q, d))
  <2>1. q \in Seq(S \cup {d})
    BY <1>1, SeqDef
  <2>2. Append(q, d) \in Seq(S \cup {d})
    BY <2>1, AppendProperties
  <2> QED
    BY <1>1, <1>3, <2>2 DEF GoodDatagrams
<1> QED
  BY <1>1, <1>2, <1>3 DEF GoodDatagrams

LEMMA QueueOfFrames ==
    ASSUME NEW q, GoodFrames(q)
    PROVE  /\ q # <<>> => GoodFrame(Head(q)) /\ GoodFrames(Tail(q))
           /\ \A f : GoodFrame(f) => GoodFrames(Append(q, f))
<1>1. PICK S : q \in Seq(S) /\ \A f \in S : GoodFrame(f)
  BY DEF GoodFrames
<1>2. q # <<>> => Head(q) \in S /\ Tail(q) \in Seq(S)
  BY <1>1
<1>3. ASSUME NEW f, GoodFrame(f) PROVE GoodFrames(Append(q, f))
  <2>1. q \in Seq(S \cup {f})
    BY <1>1, SeqDef
  <2>2. Append(q, f) \in Seq(S \cup {f})
    BY <2>1, AppendProperties
  <2> QED
    BY <1>1, <1>3, <2>2 DEF GoodFrames
<1> QED
  BY <1>1, <1>2, <1>3 DEF GoodFrames

-----------------------------------------------------------------------------
(* The fields the packet handlers update                                   *)

\* The handlers keep the types of the fields, whatever packet comes.
LEMMA FlagsType ==
    ASSUME NEW t \in Track(Nat), NEW p, p.seq \in Nat
    PROVE  ClientFlags(t, p) \in Track(Nat) /\ WorldFlags(t, p) \in Track(Nat)
<1>1. ClientAck(t, p) \in Track(Nat) /\ WorldAck(t, p) \in Track(Nat)
  BY DEF ClientAck, WorldAck, Track
<1>2. ASSUME NEW u \in Track(Nat)
      PROVE  ClientFin(u, p) \in Track(Nat) /\ WorldFin(u, p) \in Track(Nat)
  <2>0. 1 \in 0 .. 2
    OBVIOUS
  <2>1. [u EXCEPT !.server_fin_state = 1, !.client_last_state_seq = p.seq] \in Track(Nat)
    BY <2>0 DEF Track
  <2>2. [u EXCEPT !.client_fin_state = 1, !.server_last_state_seq = p.seq] \in Track(Nat)
    BY <2>0 DEF Track
  <2> QED
    BY <2>1, <2>2 DEF ClientFin, WorldFin
<1>3. /\ [t EXCEPT !.client_last_state_seq = p.seq] \in Track(Nat)
      /\ [t EXCEPT !.syn_state = 2, !.server_last_state_seq = p.seq] \in Track(Nat)
  BY DEF Track
<1> QED
  BY <1>1, <1>2, <1>3 DEF ClientFlags, WorldFlags

\* A step that changes the fields of one session.
LEMMA TrackExcept ==
    ASSUME NEW tr \in Seq(Track(Nat)), NEW s \in 1 .. Len(tr), NEW u \in Track(Nat)
    PROVE  /\ [tr EXCEPT ![s] = u] \in Seq(Track(Nat))
           /\ Len([tr EXCEPT ![s] = u]) = Len(tr)
           /\ tr[s] \in Track(Nat)
BY ExceptSeq

\* A session that was just allocated has fields, too.
LEMMA TrackNowType ==
    ASSUME track \in Seq(Track(Nat)), Len(track) = Len(heap), Len(heap) \in Nat,
           Len(heap') = Len(heap) \/ Len(heap') = Len(heap) + 1
    PROVE  TrackNow \in Seq(Track(Nat)) /\ Len(TrackNow) = Len(heap')
<1>1. NewTrack \in Track(Nat)
  BY DEF NewTrack, Track
<1>2. CASE Len(heap') = Len(heap)
  <2>1. ~ Len(heap') > Len(track)
    BY <1>2
  <2> QED
    BY <1>2, <2>1 DEF TrackNow
<1>3. CASE Len(heap') = Len(heap) + 1
  <2>1. Len(heap') > Len(track)
    BY <1>3
  <2>2. /\ Append(track, NewTrack) \in Seq(Track(Nat))
        /\ Len(Append(track, NewTrack)) = Len(track) + 1
    BY <1>1, AppendProperties
  <2> QED
    BY <1>3, <2>1, <2>2 DEF TrackNow
<1> QED
  BY <1>2, <1>3

-----------------------------------------------------------------------------
(* Sessions and ports                                                      *)

\* As long as nothing is unlinked, a port is busy if and only if it was given
\* to a session, and each port was given to one session.
LEMMA UsedBusy ==
    ASSUME IInv, AllListed
    PROVE  /\ \A port \in Ports : PortBusy(port) <=> Used(port)
           /\ \A s, t \in DOMAIN heap :
                 heap[s].server_port = heap[t].server_port => s = t
<1>1. \A s \in DOMAIN heap :
         s # NULL /\ get_tcp_session_by_server(heap[s].server_port) = s
  BY SearchFinds, HeapTypes DEF IInv, AllListed, NULL
<1>2. \A port \in Ports : PortBusy(port) => Used(port)
  BY SearchResult, HashRange DEF IInv, PortBusy, Used
<1> QED
  BY <1>1, <1>2 DEF PortBusy, Used

\* The first port a search tries is the first that was never given out.
LEMMA FirstTry ==
    ASSUME next_num \in Nat, next_num < mod_num
    PROVE  PortTried(0) = MinPort + next_num /\ PortTried(0) \in Ports
<1>1. /\ mod_num \in Nat \ {0} /\ U32 \in Nat \ {0} /\ mod_num <= U32 /\ MinPort \in Nat
      /\ mod_num = MaxPort - MinPort + 1 /\ MaxPort \in Nat
  BY TableAssumption DEF mod_num
<1>2. (next_num + 0) % U32 = next_num
  BY <1>1
<1>3. next_num % mod_num = next_num
  BY <1>1
<1> QED
  BY <1>1, <1>2, <1>3 DEF PortTried, Ports

\* A step that leaves the table alone.
LEMMA SameVars ==
    ASSUME ServerInv, UNCHANGED vars
    PROVE  /\ IInv' /\ AllListed' /\ Sequential'
           /\ UNCHANGED <<heap, now>>
           /\ \A port : Used(port)' <=> Used(port)
<1>1. IInv'
  BY NextIInv DEF ServerInv
<1>2. /\ UNCHANGED <<heap, freed, list_client_key, list_server_key, next_num,
                     now, pc, ret>>
  BY DEF vars
<1>3. \A port : Used(port)' <=> Used(port)
  BY <1>2 DEF Used
<1>4. AllListed' /\ Sequential'
  BY <1>2, <1>3 DEF ServerInv, AllListed, Sequential, Listed
<1> QED
  BY <1>1, <1>2, <1>3, <1>4

-----------------------------------------------------------------------------
(* The steps                                                               *)

\* The start of the server.
LEMMA InitServerInv == ServerInit => ServerInv
<1> SUFFICES ASSUME ServerInit PROVE ServerInv
  OBVIOUS
<1>1. IInv /\ heap = <<>> /\ DOMAIN heap = {} /\ freed = {} /\ pc = "ready"
      /\ next_num = 0 /\ ret # NULL /\ Len(heap) = 0
  BY InitIInv DEF ServerInit, Init, NULL, NoResult
<1>2. \A S : <<>> \in Seq(S)
  OBVIOUS
<1>3. /\ track = <<>> /\ Len(track) = 0 /\ udp_in = <<>> /\ raw_in = <<>>
      /\ at \in {"read udp", "exit"}
      /\ owner = [port \in Ports |-> {}] /\ raddr = NoAddr
  BY DEF ServerInit, OpenSockets
<1>4. ServerTypeOK
  BY <1>1, <1>2, <1>3 DEF ServerTypeOK, IInv, Places
<1>5. AllListed /\ BufferOK /\ AddressKnown
  <2>1. GoodDatagrams(udp_in) /\ GoodFrames(raw_in)
    BY <1>3, EmptyQueues
  <2> QED
    BY <1>1, <1>3, <2>1 DEF AllListed, BufferOK, AddressKnown
<1>6. Owned
  BY <1>1, <1>3 DEF Owned
<1>7. Sequential
  <2>1. next_num < mod_num /\ \A port \in Ports : ~ port < MinPort + next_num
    BY <1>1, TableAssumption DEF mod_num, Ports
  <2> QED
    BY <1>1, <2>1 DEF Sequential, Used
<1> QED
  BY <1>1, <1>4, <1>5, <1>6, <1>7 DEF ServerInv

\* A step of main that leaves the table, the fields and the owners alone.
LEMMA PassingStep ==
    ASSUME ServerInv, UNCHANGED <<vars, track, owner>>, at' \in Places,
           BufferOK', AddressKnown',
           \/ at # "send raw" /\ at # "exit"
           \/ at' = "exit"
           \/ at' = at /\ buf' = buf
    PROVE  ServerInv'
<1>1. /\ IInv' /\ AllListed' /\ Sequential' /\ UNCHANGED heap
      /\ \A port : Used(port)' <=> Used(port)
  BY SameVars
<1>2. ServerTypeOK'
  BY <1>1 DEF ServerInv, ServerTypeOK, IInv
<1>3. Owned'
  BY <1>1 DEF ServerInv, Owned
<1> QED
  BY <1>1, <1>2, <1>3 DEF ServerInv

\* read_msg_udp: a datagram comes with the address of its sender.
LEMMA ReadMsgStep ==
    ASSUME ServerInv, read_msg_udp
    PROVE  ServerInv'
<1>1. /\ at = "read udp" /\ UNCHANGED <<vars, track, raw_in, owner, heap>>
      /\ at' \in {"read raw", "handle client"}
  BY DEF read_msg_udp, ReadMsg, vars
<1>2. GoodDatagrams(udp_in) /\ GoodFrames(raw_in)
  BY DEF ServerInv, BufferOK
<1>3. udp_in # <<>> => GoodDatagram(Head(udp_in)) /\ GoodDatagrams(Tail(udp_in))
  BY <1>2, QueueOfDatagrams
<1>4. BufferOK'
  BY <1>1, <1>2, <1>3 DEF read_msg_udp, ReadMsg, BufferOK
<1>5. AddressKnown'
  <2>1. CASE udp_in # <<>>
    BY <1>3, <2>1 DEF read_msg_udp, ReadMsg, AddressKnown, GoodDatagram
  <2>2. CASE udp_in = <<>>
    BY <1>1, <2>2 DEF read_msg_udp, ReadMsg, ServerInv, AddressKnown
  <2> QED
    BY <2>1, <2>2
<1> QED
  BY <1>1, <1>4, <1>5, PassingStep DEF Places

\* get_ip_packet: only frames of the queue get into the buffer.
LEMMA GetPacketStep ==
    ASSUME ServerInv, get_ip_packet
    PROVE  ServerInv'
<1>1. /\ at = "read raw" /\ UNCHANGED <<vars, track, udp_in, raddr, owner, heap>>
      /\ at' \in {"sleep", "handle world", "read raw", "exit"}
  BY DEF get_ip_packet, ReadFrame, vars
<1>2. GoodDatagrams(udp_in) /\ GoodFrames(raw_in)
  BY DEF ServerInv, BufferOK
<1>3. raw_in # <<>> => GoodFrame(Head(raw_in)) /\ GoodFrames(Tail(raw_in))
  BY <1>2, QueueOfFrames
<1>4. BufferOK'
  BY <1>1, <1>2, <1>3 DEF get_ip_packet, ReadFrame, BufferOK
<1>5. AddressKnown'
  BY <1>1 DEF ServerInv, AddressKnown
<1> QED
  BY <1>1, <1>4, <1>5, PassingStep DEF Places

\* A packet arrives, wherever it comes from.
LEMMA ArrivalStep ==
    ASSUME ServerInv, UNCHANGED <<vars, server>>,
           udp_in' = udp_in \/ \E d : GoodDatagram(d) /\ udp_in' = Append(udp_in, d),
           raw_in' = raw_in \/ \E f : GoodFrame(f) /\ raw_in' = Append(raw_in, f)
    PROVE  ServerInv'
<1>1. UNCHANGED <<vars, track, owner, heap, buf, raddr, at>>
  BY DEF vars, server
<1>2. GoodDatagrams(udp_in') /\ GoodFrames(raw_in')
  BY QueueOfDatagrams, QueueOfFrames DEF ServerInv, BufferOK
<1>3. BufferOK' /\ AddressKnown' /\ at' \in Places
  BY <1>1, <1>2 DEF ServerInv, BufferOK, AddressKnown, ServerTypeOK
<1> QED
  BY <1>1, <1>3, PassingStep

\* The steps in which main only moves on or fails.
LEMMA MovingStep ==
    ASSUME ServerInv, send_msg_udp \/ sleep \/ Fails
    PROVE  ServerInv'
<1>1. /\ UNCHANGED <<vars, track, owner, heap, buf, raddr, udp_in, raw_in>>
      /\ at' \in {"read udp", "exit"} /\ at \in Places
  BY DEF send_msg_udp, sleep, Fails, vars, Places
<1>2. BufferOK' /\ AddressKnown' /\ at' \in Places
  BY <1>1 DEF ServerInv, BufferOK, AddressKnown, Places
<1>3. \/ at # "send raw" /\ at # "exit"
      \/ at' = "exit"
  BY DEF send_msg_udp, sleep, Fails
<1> QED
  BY <1>1, <1>2, <1>3, PassingStep

\* The clock ticks.
LEMMA ClockStep ==
    ASSUME ServerInv, ClockTicks
    PROVE  ServerInv'
<1>1. /\ UNCHANGED <<heap, freed, list_client_key, list_server_key, next_num, pc, ret>>
      /\ UNCHANGED <<track, at, buf, raddr, owner, udp_in, raw_in>>
      /\ IInv'
  BY TickStep DEF ServerInv, ClockTicks, Tick, table, server
<1>2. \A port : Used(port)' <=> Used(port)
  BY <1>1 DEF Used
<1>3. ServerTypeOK' /\ AllListed' /\ Sequential'
  BY <1>1, <1>2 DEF ServerInv, ServerTypeOK, IInv, AllListed, Sequential, Listed
<1>4. BufferOK' /\ AddressKnown'
  BY <1>1 DEF ServerInv, BufferOK, AddressKnown
<1>5. Owned'
  BY <1>1, <1>2 DEF ServerInv, Owned
<1> QED
  BY <1>1, <1>3, <1>4, <1>5 DEF ServerInv

\* send_ip_packet: the packet in the buffer carries the port of one session
\* and comes from its endpoint.
LEMMA SendRawStep ==
    ASSUME ServerInv, send_ip_packet
    PROVE  ServerInv'
<1>1. /\ at = "send raw" /\ at' = "read raw"
      /\ owner' = [owner EXCEPT ![buf.port] = @ \cup {buf.ep}]
      /\ UNCHANGED <<vars, track, udp_in, raw_in, buf, raddr>>
  BY DEF send_ip_packet
<1>2. /\ IInv' /\ AllListed' /\ Sequential' /\ UNCHANGED heap
      /\ \A port : Used(port)' <=> Used(port)
  BY <1>1, SameVars
<1>3. PICK s \in DOMAIN heap : buf.port = heap[s].server_port /\ buf.ep = heap[s].client
  BY <1>1 DEF ServerInv, BufferOK
<1>4. /\ \A t \in DOMAIN heap : /\ heap[t].server_port \in Ports
                                /\ heap[t].client \in Endpoints
      /\ \A t \in DOMAIN heap : heap[t].server_port = buf.port => t = s
      /\ owner \in [Ports -> SUBSET Endpoints]
  BY <1>3, HeapTypes, UsedBusy DEF ServerInv, IInv, ServerTypeOK
<1>5. ServerTypeOK'
  <2>1. owner' \in [Ports -> SUBSET Endpoints]
    BY <1>1, <1>3, <1>4
  <2> QED
    BY <1>1, <1>2, <2>1 DEF ServerInv, ServerTypeOK, IInv, Places
<1>6. BufferOK' /\ AddressKnown'
  BY <1>1, <1>2 DEF ServerInv, BufferOK, AddressKnown
<1>7. Owned'
  <2>1. ASSUME NEW t \in DOMAIN heap
        PROVE  owner'[heap[t].server_port] = {heap[t].client}
    <3>1. CASE t = s
      <4>1. owner[buf.port] = {} \/ owner[buf.port] = {buf.ep}
        BY <1>3 DEF ServerInv, Owned
      <4> QED
        BY <1>1, <1>3, <1>4, <3>1, <4>1
    <3>2. CASE t # s
      BY <1>1, <1>4, <3>2 DEF ServerInv, Owned
    <3> QED
      BY <3>1, <3>2
  <2>2. ASSUME NEW port \in Ports, ~ Used(port)
        PROVE  owner'[port] = {}
    BY <1>1, <1>3, <1>4, <2>2 DEF ServerInv, Owned, Used
  <2> QED
    BY <1>2, <2>1, <2>2 DEF Owned
<1> QED
  BY <1>2, <1>5, <1>6, <1>7 DEF ServerInv

\* handle_world_packet: a reply that is passed on carries the endpoint of the
\* session on its port, which alone has used that port.
LEMMA WorldStep ==
    ASSUME ServerInv, handle_world_packet
    PROVE  ServerInv'
<1>1. /\ at = "handle world" /\ UNCHANGED <<vars, udp_in, raw_in, raddr, owner>>
      /\ at' \in {"read udp", "send udp"}
  BY DEF handle_world_packet
<1>2. /\ IInv' /\ AllListed' /\ Sequential' /\ UNCHANGED <<heap, now>>
      /\ \A port : Used(port)' <=> Used(port)
  BY <1>1, SameVars
<1>3. buf.port \in Nat /\ buf.seq \in Nat
  BY <1>1 DEF ServerInv, BufferOK, GoodFrame
<1> DEFINE s == get_tcp_session_by_server(buf.port)
<1>4. s = NULL \/ (s \in DOMAIN heap /\ heap[s].server_port = buf.port)
  <2>1. hash_server(buf.port) \in Buckets
    <3>1. NumEntry \in Nat \ {0}
      BY TableAssumption
    <3> QED
      BY <1>3, <3>1, ModRange DEF hash_server, Buckets
  <2> QED
    BY <2>1, SearchResult DEF ServerInv, IInv
<1> HIDE DEF s
<1>5. /\ track \in Seq(Track(Nat)) /\ Len(track) = Len(heap)
      /\ DOMAIN heap = 1 .. Len(heap) /\ Len(heap) \in Nat
  BY HeapTypes DEF ServerInv, IInv, ServerTypeOK
<1>6. \/ /\ at' = "read udp" /\ track' = track
      \/ /\ s \in DOMAIN heap
         /\ track' = [track EXCEPT ![s] = WorldFlags(track[s], buf)]
         /\ buf' = Rewritten(heap[s].client, buf.port)
         /\ at' = "send udp"
  BY <1>2, <1>4 DEF handle_world_packet, ValidSession, s
<1>7. ServerTypeOK'
  <2>1. track' \in Seq(Track(Nat)) /\ Len(track') = Len(heap)
    <3>1. CASE track' = track
      BY <1>5, <3>1
    <3>2. CASE s \in DOMAIN heap /\ track' = [track EXCEPT ![s] = WorldFlags(track[s], buf)]
      <4>1. s \in 1 .. Len(track)
        BY <1>5, <3>2
      <4>2. track[s] \in Track(Nat)
        BY <1>5, <4>1
      <4>3. WorldFlags(track[s], buf) \in Track(Nat)
        BY <1>3, <4>2, FlagsType
      <4> QED
        BY <1>5, <3>2, <4>1, <4>3, TrackExcept
    <3> QED
      BY <1>6, <3>1, <3>2
  <2> QED
    BY <1>1, <1>2, <2>1 DEF ServerInv, ServerTypeOK, IInv, Places
<1>8. BufferOK'
  <2>1. CASE at' = "read udp"
    BY <1>1, <2>1 DEF ServerInv, BufferOK
  <2>2. CASE at' = "send udp"
    <3>1. /\ s \in DOMAIN heap /\ s # NULL
          /\ buf' = Rewritten(heap[s].client, buf.port)
      <4>1. s \in DOMAIN heap /\ buf' = Rewritten(heap[s].client, buf.port)
        BY <1>6, <2>2
      <4>2. s # NULL
        BY <1>5, <4>1 DEF NULL
      <4> QED
        BY <4>1, <4>2
    <3>2. buf'.port = heap[s].server_port /\ buf'.ep = heap[s].client
      BY <1>4, <3>1 DEF Rewritten
    <3> QED
      BY <1>1, <1>2, <2>2, <3>1, <3>2 DEF ServerInv, BufferOK
  <2> QED
    BY <1>1, <2>1, <2>2
<1>9. AddressKnown' /\ Owned'
  BY <1>1, <1>2 DEF ServerInv, AddressKnown, Owned
<1> QED
  BY <1>2, <1>7, <1>8, <1>9 DEF ServerInv

-----------------------------------------------------------------------------
(* handle_client_packet                                                    *)

\* The table after add_tcp_session, in the server: the session is the old one
\* of the endpoint, or a new one on a port never used, or there is no port left.
LEMMA AddInServer ==
    ASSUME ServerInv, NEW ep \in Endpoints, NEW count \in Int,
           add_tcp_session(ep, SessionTimeout, count)
    PROVE  /\ IInv' /\ AllListed' /\ Sequential' /\ now' = now
           /\ \/ /\ heap' = heap
                 /\ ret' = NULL \/ (ret' \in DOMAIN heap /\ heap[ret'].client = ep)
              \/ /\ DOMAIN heap' = DOMAIN heap \cup {ret'}
                 /\ ret' # NULL /\ ret' = Len(heap) + 1 /\ ret' \notin DOMAIN heap
                 /\ Len(heap') = Len(heap) + 1
                 /\ \A t \in DOMAIN heap : heap'[t] = heap[t]
                 /\ heap'[ret'].client = ep /\ heap'[ret'].server_port \in Ports
                 /\ ~ Used(heap'[ret'].server_port)
                 /\ ~ now > heap'[ret'].expire
<1>0. /\ IInv /\ AllListed /\ Sequential /\ TypeOK /\ IInv'
      /\ SessionTimeout \in Nat /\ now \in Nat
  <2>1. SessionTimeout \in Nat /\ IInv
    BY ServerAssumption, TableAssumption DEF ServerInv
  <2>2. IInv'
    BY <2>1, AddStep
  <2> QED
    BY <2>1, <2>2 DEF ServerInv, IInv, TypeOK
<1>1. CASE get_tcp_session_by_client(ep) # NULL
  <2>1. /\ ret' = get_tcp_session_by_client(ep)
        /\ UNCHANGED <<heap, freed, list_client_key, list_server_key, next_num, now, pc>>
    BY <1>1 DEF add_tcp_session, AddExisting, table
  <2>2. ret' # NULL /\ ret' \in DOMAIN heap /\ heap[ret'].client = ep
    BY <1>0, <1>1, <2>1, SearchResult, HashRange
  <2>3. AllListed'
    BY <1>0, <2>1 DEF AllListed, Listed
  <2>4. Sequential'
    BY <1>0, <2>1, <2>2 DEF Sequential, Used
  <2> QED
    BY <1>0, <2>1, <2>2, <2>3, <2>4
<1>2. CASE AddFails(LastTurn(count))
  <2>1. /\ ret' = NULL
        /\ UNCHANGED <<heap, freed, list_client_key, list_server_key, now, pc>>
        /\ \A k \in 0 .. LastTurn(count) : PortBusy(PortTried(k))
    BY <1>2 DEF AddFails
  <2>2. AllListed'
    BY <1>0, <2>1 DEF AllListed, Listed
  <2>3. \A port \in Ports : Used(port)
    <3>1. PortBusy(PortTried(0))
      <4>1. 0 \in 0 .. LastTurn(count)
        BY TableAssumption DEF LastTurn, mod_num
      <4> QED
        BY <2>1, <4>1
    <3>2. ASSUME next_num < mod_num,
                 \A port \in Ports : Used(port) <=> port < MinPort + next_num
          PROVE  FALSE
      <4>1. next_num \in Nat /\ MinPort \in Nat
        BY <1>0, TableAssumption DEF TypeOK
      <4>2. PortTried(0) = MinPort + next_num /\ PortTried(0) \in Ports
        BY <3>2, <4>1, FirstTry
      <4>3. Used(PortTried(0))
        BY <1>0, <3>1, <4>2, UsedBusy
      <4>4. MinPort + next_num < MinPort + next_num
        BY <3>2, <4>2, <4>3
      <4> QED
        BY <4>1, <4>4
    <3> QED
      BY <1>0, <3>2 DEF Sequential
  <2>4. Sequential'
    BY <2>1, <2>3 DEF Sequential, Used
  <2> QED
    BY <1>0, <2>1, <2>2, <2>4
<1>3. ASSUME NEW k \in 0 .. LastTurn(count), AddNew(ep, SessionTimeout, k),
             get_tcp_session_by_client(ep) = NULL
      PROVE  /\ AllListed' /\ Sequential' /\ now' = now
             /\ DOMAIN heap' = DOMAIN heap \cup {ret'}
             /\ ret' # NULL /\ ret' = Len(heap) + 1 /\ ret' \notin DOMAIN heap
             /\ Len(heap') = Len(heap) + 1
             /\ \A t \in DOMAIN heap : heap'[t] = heap[t]
             /\ heap'[ret'].client = ep /\ heap'[ret'].server_port \in Ports
             /\ ~ Used(heap'[ret'].server_port)
             /\ ~ now > heap'[ret'].expire
  <2>1. k \in Nat /\ pc = "ready"
    BY <1>0, TableAssumption DEF LastTurn, mod_num, AllListed
  <2> DEFINE port == PortTried(k)
             e == [client |-> ep, server_port |-> port, expire |-> now + SessionTimeout]
  <2>2. /\ port \in Ports
        /\ DOMAIN heap' = DOMAIN heap \cup {Len(heap) + 1}
        /\ Len(heap) + 1 \notin DOMAIN heap
        /\ Len(heap') = Len(heap) + 1
        /\ \A s \in DOMAIN heap : heap'[s] = heap[s]
        /\ heap'[Len(heap) + 1] = e
        /\ Listed(list_client_key') = Listed(list_client_key) \cup {Len(heap) + 1}
        /\ Listed(list_server_key') = Listed(list_server_key) \cup {Len(heap) + 1}
    BY <1>0, <1>3, <2>1, AddNewStep
  <2>3. /\ ret' = Len(heap) + 1 /\ UNCHANGED <<freed, now, pc>>
        /\ next_num' = (next_num + k + 1) % U32
        /\ ~ PortBusy(port) /\ \A j \in 0 .. k - 1 : PortBusy(PortTried(j))
    BY <1>3 DEF AddNew
  <2>4. e.client = ep /\ e.server_port = port /\ e.expire = now + SessionTimeout
    OBVIOUS
  <2> HIDE DEF e, port
  <2>5. ret' # NULL
    BY <1>0, <2>3, HeapTypes DEF NULL
  <2>6. ~ now > heap'[ret'].expire
    <3>1. ~ now > now + SessionTimeout
      BY <1>0
    <3> QED
      BY <2>2, <2>3, <2>4, <3>1
  <2>7. ~ Used(port)
    BY <1>0, <2>2, <2>3, UsedBusy
  <2>8. AllListed'
    BY <1>0, <2>2, <2>3 DEF AllListed, Listed
  <2>9. \A p : Used(p)' <=> Used(p) \/ p = port
    BY <2>2, <2>4 DEF Used
  <2>10. Sequential'
    <3>1. /\ next_num < mod_num
          /\ \A p \in Ports : Used(p) <=> p < MinPort + next_num
      BY <1>0, <2>2, <2>7 DEF Sequential
    <3>2. /\ next_num \in Nat /\ MinPort \in Nat /\ MaxPort \in Nat /\ U32 \in Nat \ {0}
          /\ mod_num = MaxPort - MinPort + 1 /\ mod_num <= U32
      BY <1>0, TableAssumption DEF TypeOK, mod_num
    <3>3. PortTried(0) = MinPort + next_num /\ PortTried(0) \in Ports
      BY <3>1, <3>2, FirstTry
    <3>4. ~ Used(PortTried(0))
      <4>1. ~ PortTried(0) < MinPort + next_num
        BY <3>2, <3>3
      <4> QED
        BY <3>1, <3>3, <4>1
    <3>5. k = 0
      <4>1. ~ PortBusy(PortTried(0))
        BY <1>0, <3>3, <3>4, UsedBusy
      <4>2. ~ 0 \in 0 .. k - 1
        BY <2>3, <4>1
      <4> QED
        BY <2>1, <4>2
    <3>6. port = MinPort + next_num /\ next_num' = (next_num + 1) % U32
      BY <2>3, <3>2, <3>3, <3>5 DEF port
    <3>7. \A p \in Ports : Used(p)' <=> p < MinPort + (next_num + 1)
      <4>1. \A p \in Ports : p < MinPort + (next_num + 1) <=>
                                p < MinPort + next_num \/ p = MinPort + next_num
        BY <3>2 DEF Ports
      <4> QED
        BY <2>9, <3>1, <3>6, <4>1
    <3>8. CASE next_num + 1 < mod_num
      <4>1. next_num' = next_num + 1
        BY <3>2, <3>6, <3>8
      <4> QED
        BY <2>5, <3>7, <3>8, <4>1 DEF Sequential
    <3>9. CASE ~ next_num + 1 < mod_num
      <4>1. \A p \in Ports : p < MinPort + (next_num + 1)
        BY <3>1, <3>2, <3>9 DEF Ports
      <4> QED
        BY <3>7, <4>1 DEF Sequential
    <3> QED
      BY <3>8, <3>9
  <2> QED
    BY <2>2, <2>3, <2>4, <2>5, <2>6, <2>7, <2>8, <2>10
<1> QED
  BY <1>0, <1>1, <1>2, <1>3 DEF add_tcp_session

\* The rest of handle_client_packet, for a session that was found, made or
\* refused.
LEMMA LookedUpStep ==
    ASSUME ServerInv, at = "handle client", NEW s, ClientLookedUp(s),
           UNCHANGED <<udp_in, raw_in, raddr, owner>>,
           IInv', AllListed', Sequential',
           \/ /\ heap' = heap
              /\ s = NULL \/ (s \in DOMAIN heap /\ heap[s].client = buf.ep)
           \/ /\ DOMAIN heap' = DOMAIN heap \cup {s}
              /\ s # NULL /\ s = Len(heap) + 1 /\ s \notin DOMAIN heap
              /\ Len(heap') = Len(heap) + 1
              /\ \A t \in DOMAIN heap : heap'[t] = heap[t]
              /\ heap'[s].client = buf.ep /\ heap'[s].server_port \in Ports
              /\ ~ Used(heap'[s].server_port)
              /\ ~ now > heap'[s].expire
    PROVE  ServerInv'
<1>0. /\ track \in Seq(Track(Nat)) /\ Len(track) = Len(heap)
      /\ DOMAIN heap = 1 .. Len(heap) /\ Len(heap) \in Nat
      /\ DOMAIN heap' = 1 .. Len(heap') /\ Len(heap') \in Nat
      /\ buf.seq \in Nat
  <2>1. TypeOK /\ heap' \in Seq(Session)
    BY DEF ServerInv, IInv, TypeOK
  <2>2. buf.seq \in Nat
    BY DEF ServerInv, BufferOK, GoodDatagram
  <2>3. DOMAIN heap' = 1 .. Len(heap') /\ Len(heap') \in Nat
    BY <2>1, LenProperties
  <2> QED
    BY <2>1, <2>2, <2>3, HeapTypes DEF ServerInv, ServerTypeOK
<1>1. \/ /\ ~ ValidSession(s) /\ track' = TrackNow /\ buf' = Reset /\ at' = "read raw"
      \/ /\ ValidSession(s)
         /\ track' = [TrackNow EXCEPT ![s] = ClientFlags(TrackNow[s], buf)]
         /\ buf' = Rewritten(buf.ep, heap'[s].server_port)
         /\ at' = "send raw"
  BY DEF ClientLookedUp, LookedUp
<1>2. s # NULL => s \in DOMAIN heap' /\ heap'[s].client = buf.ep
  OBVIOUS
<1>3. ServerTypeOK'
  <2>1. TrackNow \in Seq(Track(Nat)) /\ Len(TrackNow) = Len(heap')
    BY <1>0, TrackNowType
  <2>2. track' \in Seq(Track(Nat)) /\ Len(track') = Len(heap')
    <3>1. CASE track' = TrackNow
      BY <2>1, <3>1
    <3>2. CASE /\ ValidSession(s)
               /\ track' = [TrackNow EXCEPT ![s] = ClientFlags(TrackNow[s], buf)]
      <4>1. s \in 1 .. Len(TrackNow)
        BY <1>0, <1>2, <2>1, <3>2 DEF ValidSession
      <4>2. TrackNow[s] \in Track(Nat)
        BY <2>1, <4>1, ElementOfSeq
      <4>3. ClientFlags(TrackNow[s], buf) \in Track(Nat)
        BY <1>0, <4>2, FlagsType
      <4> QED
        BY <2>1, <3>2, <4>1, <4>3, TrackExcept
    <3> QED
      BY <1>1, <3>1, <3>2
  <2>3. at' \in Places /\ owner' \in [Ports -> SUBSET Endpoints]
    BY <1>1 DEF ServerInv, ServerTypeOK, Places
  <2> QED
    BY <2>2, <2>3 DEF ServerTypeOK, IInv
<1>4. BufferOK'
  <2>1. CASE at' = "read raw"
    BY <2>1 DEF ServerInv, BufferOK
  <2>2. CASE at' = "send raw"
    <3>1. /\ s \in DOMAIN heap' /\ heap'[s].client = buf.ep
          /\ buf' = Rewritten(buf.ep, heap'[s].server_port)
      BY <1>1, <1>2, <2>2 DEF ValidSession
    <3>2. buf'.port = heap'[s].server_port /\ buf'.ep = heap'[s].client
      BY <3>1 DEF Rewritten
    <3> QED
      BY <2>2, <3>1, <3>2 DEF ServerInv, BufferOK
  <2> QED
    BY <1>1, <2>1, <2>2
<1>5. AddressKnown'
  BY DEF ServerInv, AddressKnown
<1>6. Owned'
  <2>0. /\ \A t \in DOMAIN heap : owner[heap[t].server_port] = {heap[t].client}
        /\ \A port \in Ports : ~ Used(port) => owner[port] = {}
    BY DEF ServerInv, Owned
  <2>1. CASE heap' = heap
    BY <2>0, <2>1 DEF Owned, Used
  <2>2. CASE /\ DOMAIN heap' = DOMAIN heap \cup {s} /\ s # NULL
             /\ \A t \in DOMAIN heap : heap'[t] = heap[t]
             /\ heap'[s].server_port \in Ports
             /\ ~ Used(heap'[s].server_port)
             /\ ~ now > heap'[s].expire
    <3>1. /\ at' = "send raw" /\ buf' = Rewritten(buf.ep, heap'[s].server_port)
      BY <1>1, <2>2 DEF ValidSession
    <3>2. buf'.port = heap'[s].server_port
      BY <3>1 DEF Rewritten
    <3>3. owner[heap'[s].server_port] = {}
      BY <2>0, <2>2
    <3>4. \A port : Used(port) => Used(port)'
      BY <2>2 DEF Used
    <3> QED
      BY <2>0, <2>2, <3>1, <3>2, <3>3, <3>4 DEF Owned
  <2> QED
    BY <2>1, <2>2
<1> QED
  BY <1>3, <1>4, <1>5, <1>6 DEF ServerInv

\* handle_client_packet, with whatever the uninitialised count held.
LEMMA ClientStepKeeps ==
    ASSUME ServerInv, handle_client_packet
    PROVE  ServerInv'
<1>0. /\ at = "handle client" /\ UNCHANGED <<udp_in, raw_in, raddr, owner>>
      /\ buf.ep \in Endpoints
  BY DEF handle_client_packet, ServerInv, BufferOK, GoodDatagram
<1>1. CASE buf' = Reset /\ at' = "read raw" /\ UNCHANGED <<vars, track>>
  <2>1. UNCHANGED heap
    BY <1>1 DEF vars
  <2>2. BufferOK' /\ AddressKnown'
    BY <1>0, <1>1, <2>1 DEF ServerInv, BufferOK, AddressKnown
  <2> QED
    BY <1>0, <1>1, <2>2, PassingStep DEF Places
<1>2. ASSUME NEW c \in CountInit, add_tcp_session(buf.ep, SessionTimeout, c),
             ClientLookedUp(ret')
      PROVE  ServerInv'
  <2>1. c \in Int
    BY TableAssumption
  <2> QED
    BY <1>0, <1>2, <2>1, AddInServer, LookedUpStep
<1>3. CASE UNCHANGED vars /\ ClientLookedUp(get_tcp_session_by_client(buf.ep))
  <2> DEFINE s == get_tcp_session_by_client(buf.ep)
  <2>1. s = NULL \/ (s \in DOMAIN heap /\ heap[s].client = buf.ep)
    BY <1>0, SearchResult, HashRange DEF ServerInv, IInv
  <2>2. IInv' /\ AllListed' /\ Sequential' /\ heap' = heap
    BY <1>3, SameVars
  <2>3. ClientLookedUp(s)
    BY <1>3
  <2> HIDE DEF s
  <2> QED
    BY <1>0, <2>1, <2>2, <2>3, LookedUpStep
<1> QED
  BY <1>1, <1>2, <1>3 DEF handle_client_packet

\* Every step of main keeps the invariant.
LEMMA MainKeeps ==
    ASSUME ServerInv, ServerStep
    PROVE  ServerInv'
BY ReadMsgStep, ClientStepKeeps, SendRawStep, GetPacketStep, WorldStep, MovingStep
   DEF ServerStep

\* Every step of the server and around it keeps the invariant.
LEMMA NextServerInv == ServerInv /\ [ServerNext]_allvars => ServerInv'
<1> SUFFICES ASSUME ServerInv, [ServerNext]_allvars PROVE ServerInv'
  OBVIOUS
<1>1. CASE ServerStep \/ Fails
  BY <1>1, MainKeeps, MovingStep
<1>2. CASE DatagramArrives \/ FrameArrives
  BY <1>2, ArrivalsGood, ArrivalStep DEF DatagramArrives, FrameArrives
<1>3. CASE ClockTicks
  BY <1>3, ClockStep
<1>4. CASE UNCHANGED allvars
  <2>1. UNCHANGED <<vars, track, at, buf, raddr, owner, udp_in, raw_in, heap>>
    BY <1>4 DEF allvars, server, vars
  <2>2. BufferOK' /\ AddressKnown' /\ at' \in Places
    BY <2>1 DEF ServerInv, BufferOK, AddressKnown, ServerTypeOK
  <2> QED
    BY <2>1, <2>2, PassingStep
<1> QED
  BY <1>1, <1>2, <1>3, <1>4 DEF ServerNext

\* main changes the table through add_tcp_session alone.
LEMMA MainUsesTable ==
    ASSUME ServerInv, ServerStep \/ Fails
    PROVE  [Next]_vars
<1>1. CASE UNCHANGED vars
  BY <1>1
<1>2. CASE ~ UNCHANGED vars
  <2>1. at = "handle client"
        /\ \E c \in CountInit : add_tcp_session(buf.ep, SessionTimeout, c)
    BY <1>2 DEF ServerStep, Fails, read_msg_udp, ReadMsg, handle_client_packet,
       send_ip_packet, get_ip_packet, handle_world_packet, send_msg_udp, sleep
  <2>2. buf.ep \in Endpoints /\ SessionTimeout \in Timeouts
    BY <2>1, ServerAssumption DEF ServerInv, BufferOK, GoodDatagram
  <2> QED
    BY <2>1, <2>2 DEF Next
<1> QED
  BY <1>1, <1>2

\* The server uses the table as SessionTable allows, so that all that is proved
\* of the table holds of the one in the server.
LEMMA ServerUsesTable == ServerSpec => Spec
<1>1. ServerInit => Init
  BY DEF ServerInit
<1>2. ServerInv /\ [ServerNext]_allvars => [Next]_vars
  <2> SUFFICES ASSUME ServerInv, [ServerNext]_allvars PROVE [Next]_vars
    OBVIOUS
  <2>1. CASE ServerStep \/ Fails
    BY <2>1, MainUsesTable
  <2>2. CASE ClockTicks
    BY <2>2 DEF ClockTicks, Next
  <2>3. CASE DatagramArrives \/ FrameArrives \/ UNCHANGED allvars
    BY <2>3 DEF DatagramArrives, FrameArrives, allvars
  <2> QED
    BY <2>1, <2>2, <2>3 DEF ServerNext
<1> QED
  BY <1>1, <1>2, InitServerInv, NextServerInv, PTL DEF ServerSpec, Spec

\* The invariant holds in every state of the server.
LEMMA SpecServerInv == ServerSpec => []ServerInv
BY InitServerInv, NextServerInv, PTL DEF ServerSpec

-----------------------------------------------------------------------------
(* The theorems                                                            *)

\* What has an element is not the empty sequence.
LEMMA Inhabited == \A q : \A i \in DOMAIN q : q # <<>>
<1>1. DOMAIN <<>> = {}
  OBVIOUS
<1> QED
  BY <1>1

\* The variables of main and of the table keep their types; each session has
\* the fields the packet handlers update.
THEOREM ServerTypeCorrect == ServerSpec => []ServerTypeOK
<1>1. ServerInv => ServerTypeOK
  BY DEF ServerInv
<1> QED
  BY <1>1, SpecServerInv, PTL

LEMMA InvReplyReachesOwner == ServerInv => ReplyReachesOwner
<1> SUFFICES ASSUME ServerInv, at = "send udp"
             PROVE  owner[buf.port] = {buf.ep} /\ raddr # NoAddr
  BY DEF ReplyReachesOwner
<1>1. PICK s \in DOMAIN heap : buf.port = heap[s].server_port /\ buf.ep = heap[s].client
  BY DEF ServerInv, BufferOK
<1>2. owner[buf.port] = {buf.ep}
  BY <1>1 DEF ServerInv, Owned
<1>3. heap # <<>>
  BY <1>1, Inhabited
<1> QED
  BY <1>2, <1>3 DEF ServerInv, AddressKnown

\* A packet of the world is passed on with the endpoint that alone ever used
\* its port, to an address that was set: whatever arrives on either socket, in
\* whichever order, and however long ago the port was last used.
THEOREM ReplyReachesOwnerHolds == ServerSpec => []ReplyReachesOwner
BY InvReplyReachesOwner, SpecServerInv, PTL

\* In the server add_tcp_session returns NULL only when each port of the range
\* is taken, whatever the uninitialised count held and however next_num
\* wrapped: since the server gives no port back, the first turn of the search
\* finds a free port as long as there is one.
THEOREM ServerNullMeansExhausted == ServerSpec => []NullMeansExhausted
<1>1. ServerInv => NullMeansExhausted
  BY UsedBusy DEF ServerInv, Sequential, NullMeansExhausted
<1> QED
  BY <1>1, SpecServerInv, PTL

\* What the server translates by is a set of one-to-one bindings that end when
\* they expire, whatever comes in on its sockets and whichever calls fail.
THEOREM ServerImplementsNatTable == ServerSpec => ImplementsNatTable
BY ServerUsesTable, Implements, PTL

=============================================================================
