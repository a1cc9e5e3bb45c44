-------------------------- MODULE VpnSystemProofs --------------------------
(***************************************************************************)
(* Proofs about VpnSystem, for every set of requests, any number of        *)
(* restarts of the client and any noise: the server keeps its invariant    *)
(* among the others, and no answer comes from nowhere.                     *)
(***************************************************************************)
EXTENDS VpnSystem, VpnServerProofs

-----------------------------------------------------------------------------
(* The inductive invariant                                                 *)

\* The datagram d is one of those sent, sent being what the client sent so far.
SentUp(sent, d) ==
    \E u \in sent : d.from = u.from /\ d.ep = u.pkt.ep /\ d.seq = u.pkt.seq

\* The packet p carries the endpoint and the number of a request.
Asks(sent, p) == \E u \in sent : p.ep = u.pkt.ep /\ p.seq = u.pkt.seq

\* The packet w on the wire is a request of an endpoint that used its port.
Asked(sent, users, w) ==
    /\ w.port \in Ports
    /\ \E u \in sent : u.pkt.seq = w.seq /\ u.pkt.ep \in users[w.port]

\* The frame f answers a request of an endpoint that used its port.
Answers(sent, users, f) ==
    /\ f.port \in Ports
    /\ \E u \in sent : f.ack_seq = u.pkt.seq + 1 /\ u.pkt.ep \in users[f.port]

IsAnswer(sent, users, f) == f.pkttype = "host" => Answers(sent, users, f)

QueueUp(sent, q) == \E S : q \in Seq(S) /\ \A d \in S : SentUp(sent, d)
QueueDown(sent, users, q) ==
    \E S : q \in Seq(S) /\ \A f \in S : IsAnswer(sent, users, f)

\* From the client to the world: what is queued, in the buffer or on the wire,
\* what the remote address was set from and what the ports were used for.
TrailUp ==
    /\ QueueUp(up, udp_in)
    /\ at = "handle client" => SentUp(up, buf)
    /\ at = "send raw" => Asks(up, buf)
    /\ raddr # NoAddr => \E u \in up : u.from = raddr
    /\ \A port \in Ports : \A ep \in owner[port] : \E u \in up : u.pkt.ep = ep
    /\ \A w \in wire : Asked(up, owner, w)

\* From the world to the server, unless there is noise.
TrailDown ==
    Quiet => /\ QueueDown(up, owner, raw_in)
             /\ at \in {"handle world", "send udp"} => Answers(up, owner, buf)

\* From the server to the interface of the client.
TrailBack ==
    /\ c_udp_in \in Seq(down)
    /\ c_at = "write tun" => c_buf \in down
    /\ got \subseteq down

SystemInv == ServerInv /\ TrailUp /\ TrailDown /\ TrailBack /\ AnswersAsked

-----------------------------------------------------------------------------
(* Nothing that was asked is forgotten                                     *)

\* The ports in users were used at least as much afterwards.
MoreUsed(users, after) == \A port \in Ports : users[port] \subseteq after[port]

\* As the sets grow, what was sent, asked and answered stays so.
LEMMA Grows ==
    ASSUME NEW sent, NEW more, sent \subseteq more,
           NEW users, NEW after, MoreUsed(users, after)
    PROVE  /\ \A d : SentUp(sent, d) => SentUp(more, d)
           /\ \A p : Asks(sent, p) => Asks(more, p)
           /\ \A w : Asked(sent, users, w) => Asked(more, after, w)
           /\ \A f : Answers(sent, users, f) => Answers(more, after, f)
           /\ \A q : QueueUp(sent, q) => QueueUp(more, q)
           /\ \A q : QueueDown(sent, users, q) => QueueDown(more, after, q)
<1>1. \A d : SentUp(sent, d) => SentUp(more, d)
  BY DEF SentUp
<1>2. \A p : Asks(sent, p) => Asks(more, p)
  BY DEF Asks
<1>3. \A w : Asked(sent, users, w) => Asked(more, after, w)
  BY DEF Asked, MoreUsed
<1>4. \A f : Answers(sent, users, f) => Answers(more, after, f)
  BY DEF Answers, MoreUsed
<1>5. \A f : IsAnswer(sent, users, f) => IsAnswer(more, after, f)
  BY <1>4 DEF IsAnswer
<1>6. \A q : QueueUp(sent, q) => QueueUp(more, q)
  BY <1>1 DEF QueueUp
<1>7. \A q : QueueDown(sent, users, q) => QueueDown(more, after, q)
  BY <1>5 DEF QueueDown
<1> QED
  BY <1>1, <1>2, <1>3, <1>4, <1>6, <1>7

LEMMA SeqGrows ==
    ASSUME NEW S, NEW T, S \subseteq T, NEW q \in Seq(S)
    PROVE  q \in Seq(T)
BY SeqDef

LEMMA QueueOfSent ==
    ASSUME NEW sent, NEW q, QueueUp(sent, q)
    PROVE  /\ q # <<>> => SentUp(sent, Head(q)) /\ QueueUp(sent, Tail(q))
           /\ \A d : SentUp(sent, d) => QueueUp(sent, Append(q, d))
<1>1. PICK S : q \in Seq(S) /\ \A d \in S : SentUp(sent, d)
  BY DEF QueueUp
<1>2. q # <<>> => Head(q) \in S /\ Tail(q) \in Seq(S)
  BY <1>1
<1>3. ASSUME NEW d, SentUp(sent, d) PROVE QueueUp(sent, Append(q, d))
  <2>1. q \in Seq(S \cup {d})
    BY <1>1, SeqDef
  <2>2. Append(q, d) \in Seq(S \cup {d})
    BY <2>1, AppendProperties
  <2> QED
    BY <1>1, <1>3, <2>2 DEF QueueUp
<1> QED
  BY <1>1, <1>2, <1>3 DEF QueueUp

LEMMA QueueOfAnswers ==
    ASSUME NEW sent, NEW users, NEW q, QueueDown(sent, users, q)
    PROVE  /\ q # <<>> => /\ IsAnswer(sent, users, Head(q))
                          /\ QueueDown(sent, users, Tail(q))
           /\ \A f : IsAnswer(sent, users, f) => QueueDown(sent, users, Append(q, f))
<1>1. PICK S : q \in Seq(S) /\ \A f \in S : IsAnswer(sent, users, f)
  BY DEF QueueDown
<1>2. q # <<>> => Head(q) \in S /\ Tail(q) \in Seq(S)
  BY <1>1
<1>3. ASSUME NEW f, IsAnswer(sent, users, f) PROVE QueueDown(sent, users, Append(q, f))
  <2>1. q \in Seq(S \cup {f})
    BY <1>1, SeqDef
  <2>2. Append(q, f) \in Seq(S \cup {f})
    BY <2>1, AppendProperties
  <2> QED
    BY <1>1, <1>3, <2>2 DEF QueueDown
<1> QED
  BY <1>1, <1>2, <1>3 DEF QueueDown

\* What was answered stays answered, if nothing more is sent down.
LEMMA StillAsked ==
    ASSUME SystemInv, up \subseteq up', down' = down, got' \subseteq down
    PROVE  AnswersAsked'
BY DEF SystemInv, AnswersAsked

-----------------------------------------------------------------------------
(* The start                                                               *)

LEMMA InitSystemInv == SystemInit => SystemInv
<1> SUFFICES ASSUME SystemInit PROVE SystemInv
  OBVIOUS
<1>1. /\ ServerInv /\ udp_in = <<>> /\ raw_in = <<>> /\ at \in {"read udp", "exit"}
      /\ owner = [port \in Ports |-> {}] /\ raddr = NoAddr
  BY InitServerInv DEF SystemInit, ServerInit, OpenSockets
<1>2. up = {} /\ wire = {} /\ down = {} /\ got = {}
  BY DEF SystemInit
<1>3. c_udp_in = <<>> /\ c_at = "get udp socket"
  BY DEF SystemInit, Client!Init
<1>4. PICK S : S = {}
  OBVIOUS
<1>5. <<>> \in Seq(S)
  OBVIOUS
<1>6. \A d \in S : SentUp(up, d)
  BY <1>4
<1>7. \A f \in S : IsAnswer(up, owner, f)
  BY <1>4
<1>8. QueueUp(up, <<>>)
  BY <1>5, <1>6, Zenon DEF QueueUp
<1>9. QueueDown(up, owner, <<>>)
  BY <1>5, <1>7, Zenon DEF QueueDown
<1>10. TrailUp
  BY <1>1, <1>2, <1>8 DEF TrailUp
<1>11. TrailDown
  BY <1>1, <1>9 DEF TrailDown
<1>12. TrailBack
  <2>1. <<>> \in Seq(down)
    OBVIOUS
  <2> QED
    BY <2>1, <1>2, <1>3 DEF TrailBack
<1>13. AnswersAsked
  BY <1>2 DEF AnswersAsked
<1> QED
  BY <1>1, <1>10, <1>11, <1>12, <1>13 DEF SystemInv

-----------------------------------------------------------------------------
(* Everything around the server                                            *)

\* A packet arrives, or more is sent; main has not moved.
LEMMA AroundStep ==
    ASSUME SystemInv, UNCHANGED <<at, buf, raddr, owner, wire>>, up \subseteq up',
           udp_in' = udp_in \/ \E d : SentUp(up, d) /\ udp_in' = Append(udp_in, d),
           raw_in' = raw_in
             \/ \E f : (Quiet => IsAnswer(up, owner, f)) /\ raw_in' = Append(raw_in, f)
    PROVE  TrailUp' /\ TrailDown'
<1>1. MoreUsed(owner, owner)
  BY DEF MoreUsed
<1>2. QueueUp(up, udp_in')
  BY QueueOfSent DEF SystemInv, TrailUp
<1>3. Quiet => QueueDown(up, owner, raw_in')
  BY QueueOfAnswers DEF SystemInv, TrailDown
<1>4. /\ \A d : SentUp(up, d) => SentUp(up', d)
      /\ \A p : Asks(up, p) => Asks(up', p)
      /\ \A w : Asked(up, owner, w) => Asked(up', owner, w)
      /\ \A f : Answers(up, owner, f) => Answers(up', owner, f)
      /\ \A q : QueueUp(up, q) => QueueUp(up', q)
      /\ \A q : QueueDown(up, owner, q) => QueueDown(up', owner, q)
  BY <1>1, Grows
<1>5. TrailUp'
  BY <1>2, <1>4 DEF SystemInv, TrailUp
<1>6. TrailDown'
  BY <1>3, <1>4 DEF SystemInv, TrailDown, Quiet
<1> QED
  BY <1>5, <1>6

\* What the client does concerns the server only through what it sends.
LEMMA ClientSide ==
    ASSUME SystemInv, UNCHANGED <<allvars, wire, down>>, up \subseteq up', TrailBack'
    PROVE  SystemInv'
<1>1. UNCHANGED <<vars, server, at, buf, raddr, owner, udp_in, raw_in>>
  BY DEF allvars, server
<1>2. ServerInv'
  BY <1>1, ArrivalStep DEF SystemInv
<1>3. TrailUp' /\ TrailDown'
  BY <1>1, AroundStep
<1>4. AnswersAsked'
  BY StillAsked DEF TrailBack
<1> QED
  BY <1>2, <1>3, <1>4 DEF SystemInv

\* The client relays what it has received, in whichever order the parts of its
\* set-up and its calls come.
LEMMA ClientRunsStep ==
    ASSUME SystemInv, ClientRuns
    PROVE  SystemInv'
<1>1. /\ c_udp_in \in Seq(down) /\ got \subseteq down
      /\ c_at = "write tun" => c_buf \in down
  BY DEF SystemInv, TrailBack
<1>2. UNCHANGED <<allvars, wire, down>> /\ up \subseteq up'
  BY DEF ClientRuns
<1>3. got' \subseteq down
  BY <1>1 DEF ClientRuns
<1>4. /\ c_udp_in' \in Seq(down)
      /\ c_at' = "write tun" => c_buf' \in down
  <2>1. CASE Client!read_msg_udp
    <3>1. c_udp_in # <<>> => Head(c_udp_in) \in down /\ Tail(c_udp_in) \in Seq(down)
      BY <1>1, HeadTailProperties
    <3> QED
      BY <1>1, <2>1, <3>1 DEF Client!read_msg_udp, Client!ReadThen, Client!Exit,
         Client!queues
  <2>2. CASE Client!get_udp_socket_client \/ Client!add_tun \/ Client!set_int_up
             \/ Client!set_default_ip_addr \/ Client!set_default_route
    BY <1>1, <2>2 DEF Client!get_udp_socket_client, Client!add_tun, Client!set_int_up,
       Client!set_default_ip_addr, Client!set_default_route, Client!SetupFails, Client!queues
  <2>3. CASE Client!read_tun \/ Client!send_msg_udp \/ Client!write_tun
    BY <1>1, <2>3 DEF Client!read_tun, Client!send_msg_udp, Client!SendThen,
       Client!write_tun, Client!WriteThen, Client!Exit, Client!queues
  <2> QED
    BY <2>1, <2>2, <2>3 DEF ClientRuns, Client!ClientStep
<1> QED
  BY <1>2, <1>3, <1>4, ClientSide DEF TrailBack

\* A restart empties the queue of the client.
LEMMA ClientRestartsStep ==
    ASSUME SystemInv, ClientRestarts
    PROVE  SystemInv'
<1>1. UNCHANGED <<allvars, up, wire, down, got>> /\ c_udp_in' = <<>>
      /\ c_at' = "get udp socket"
  BY DEF ClientRestarts, network
<1>2. <<>> \in Seq(down)
  OBVIOUS
<1>3. TrailBack'
  BY <1>1, <1>2 DEF SystemInv, TrailBack
<1> QED
  BY <1>1, <1>3, ClientSide

LEMMA HostSendsStep ==
    ASSUME SystemInv, NEW p \in Requests, HostSends(p)
    PROVE  SystemInv'
<1>1. UNCHANGED <<allvars, up, wire, down, got, c_udp_in, c_at, c_buf>>
  BY DEF HostSends, network, Client!Route
<1>2. TrailBack'
  BY <1>1 DEF SystemInv, TrailBack
<1> QED
  BY <1>1, <1>2, ClientSide

LEMMA DownDeliveredStep ==
    ASSUME SystemInv, NEW d \in Downs, DownDelivered(d)
    PROVE  SystemInv'
<1>1. /\ UNCHANGED <<allvars, up, wire, down, got, c_at, c_buf>>
      /\ c_udp_in' = Append(c_udp_in, d) /\ d \in down
  BY DEF DownDelivered, network, Client!Arrive
<1>2. c_udp_in' \in Seq(down)
  BY <1>1, AppendProperties DEF SystemInv, TrailBack
<1>3. TrailBack'
  BY <1>1, <1>2 DEF SystemInv, TrailBack
<1> QED
  BY <1>1, <1>3, ClientSide

\* A step around the server that leaves the client alone.
LEMMA NetworkSide ==
    ASSUME SystemInv, ServerInv', TrailUp', TrailDown', UNCHANGED <<client, network>>
    PROVE  SystemInv'
<1>1. UNCHANGED <<c_at, c_udp_in, c_buf, up, down, got>>
  BY DEF client, network
<1>2. TrailBack'
  BY <1>1 DEF SystemInv, TrailBack
<1>3. AnswersAsked'
  BY <1>1, <1>2, StillAsked DEF TrailBack
<1> QED
  BY <1>2, <1>3 DEF SystemInv

\* A datagram of the client is delivered, for the first time or again.
LEMMA UpDeliveredStep ==
    ASSUME SystemInv, NEW d \in Ups, UpDelivered(d)
    PROVE  SystemInv'
<1>1. /\ d \in up /\ UNCHANGED <<vars, server, raw_in, client, network>>
      /\ udp_in' = Append(udp_in, Received(d))
  BY DEF UpDelivered
<1>2. PICK m : m = Received(d)
  OBVIOUS
<1>3. d.pkt \in Requests /\ d.from # NoAddr
  BY SystemAssumption DEF Ups
<1>4. /\ d.pkt.ep \in Endpoints /\ d.pkt.seq \in Nat
      /\ DOMAIN d.pkt = {"valid", "ep", "syn", "ack", "fin", "seq", "ack_seq"}
  BY <1>3, SystemAssumption
<1>5. m = [x \in {"from"} \cup DOMAIN d.pkt |-> IF x = "from" THEN d.from ELSE d.pkt[x]]
  BY <1>2 DEF Received
<1>6. m.from = d.from /\ m.ep = d.pkt.ep /\ m.seq = d.pkt.seq
  BY <1>4, <1>5
<1>7. GoodDatagram(m) /\ SentUp(up, m)
  BY <1>1, <1>3, <1>4, <1>6 DEF GoodDatagram, SentUp
<1>8. ServerInv'
  BY <1>1, <1>2, <1>7, ArrivalStep DEF SystemInv
<1>9. TrailUp' /\ TrailDown'
  BY <1>1, <1>2, <1>7, AroundStep DEF server, network
<1> QED
  BY <1>1, <1>8, <1>9, NetworkSide

LEMMA WorldAnswersStep ==
    ASSUME SystemInv, NEW w \in Wires, WorldAnswers(w)
    PROVE  SystemInv'
<1>1. PICK f : f = [pkttype |-> "host", valid |-> TRUE, port |-> w.port, syn |-> TRUE,
                    ack |-> TRUE, fin |-> FALSE, seq |-> 0, ack_seq |-> w.seq + 1]
  OBVIOUS
<1>2. /\ w \in wire /\ UNCHANGED <<vars, server, udp_in, client, network>>
      /\ raw_in' = Append(raw_in, f)
  BY <1>1 DEF WorldAnswers
<1>3. f.port = w.port /\ f.seq = 0 /\ f.ack_seq = w.seq + 1
  BY <1>1
<1>4. w.port \in Nat
  BY TableAssumption DEF Wires, Ports
<1>5. Asked(up, owner, w)
  BY <1>2 DEF SystemInv, TrailUp
<1>6. GoodFrame(f) /\ IsAnswer(up, owner, f)
  BY <1>3, <1>4, <1>5 DEF GoodFrame, IsAnswer, Answers, Asked
<1>7. ServerInv'
  BY <1>2, <1>6, ArrivalStep DEF SystemInv
<1>8. TrailUp' /\ TrailDown'
  BY <1>2, <1>6, AroundStep DEF server, network
<1> QED
  BY <1>2, <1>7, <1>8, NetworkSide

LEMMA NoiseArrivesStep ==
    ASSUME SystemInv, NoiseArrives
    PROVE  SystemInv'
<1>1. PICK f \in Frames : raw_in' = Append(raw_in, f)
  BY DEF NoiseArrives, FrameArrives
<1>2. UNCHANGED <<vars, server, udp_in, client, network>>
  BY DEF NoiseArrives, FrameArrives
<1>3. GoodFrame(f) /\ (Quiet => IsAnswer(up, owner, f))
  BY ArrivalsGood DEF Quiet, IsAnswer
<1>4. ServerInv'
  BY <1>1, <1>2, <1>3, ArrivalStep DEF SystemInv
<1>5. TrailUp' /\ TrailDown'
  BY <1>1, <1>2, <1>3, AroundStep DEF server, network
<1> QED
  BY <1>2, <1>4, <1>5, NetworkSide

LEMMA TimePassesStep ==
    ASSUME SystemInv, TimePasses
    PROVE  SystemInv'
<1>1. ClockTicks /\ UNCHANGED <<server, udp_in, raw_in, client, network>>
  BY DEF TimePasses, ClockTicks
<1>2. ServerInv'
  BY <1>1, ClockStep DEF SystemInv
<1>3. TrailUp' /\ TrailDown'
  BY <1>1, AroundStep DEF server, network
<1> QED
  BY <1>1, <1>2, <1>3, NetworkSide

-----------------------------------------------------------------------------
(* The server                                                              *)

\* A step of main that sends nothing to the world.
LEMMA MainStep ==
    ASSUME SystemInv, UNCHANGED <<up, owner, wire>>,
           QueueUp(up, udp_in'),
           at' = "handle client" => SentUp(up, buf'),
           at' = "send raw" => Asks(up, buf'),
           raddr' = raddr \/ \E u \in up : u.from = raddr',
           Quiet => QueueDown(up, owner, raw_in'),
           Quiet /\ at' \in {"handle world", "send udp"} => Answers(up, owner, buf')
    PROVE  TrailUp' /\ TrailDown'
<1>1. TrailUp'
  BY DEF SystemInv, TrailUp
<1>2. TrailDown'
  BY DEF TrailDown, Quiet
<1> QED
  BY <1>1, <1>2

\* What the handlers replace, and what they leave in the packet.
LEMMA RewrittenFields ==
    \A ep, port : /\ Rewritten(ep, port).ep = ep
                  /\ Rewritten(ep, port).port = port
                  /\ Rewritten(ep, port).seq = buf.seq
                  /\ Rewritten(ep, port).ack_seq = buf.ack_seq
BY DEF Rewritten

LEMMA ReadMsgTrail ==
    ASSUME SystemInv, read_msg_udp, UNCHANGED <<up, wire>>
    PROVE  TrailUp' /\ TrailDown'
<1>1. /\ UNCHANGED <<owner, raw_in>> /\ at' \in {"read raw", "handle client"}
      /\ QueueUp(up, udp_in) /\ (Quiet => QueueDown(up, owner, raw_in))
  BY DEF SystemInv, TrailUp, TrailDown, read_msg_udp, ReadMsg
<1>2. udp_in # <<>> => SentUp(up, Head(udp_in)) /\ QueueUp(up, Tail(udp_in))
  BY <1>1, QueueOfSent
<1>3. udp_in # <<>> => \E u \in up : u.from = Head(udp_in).from
  BY <1>2 DEF SentUp
<1>4. QueueUp(up, udp_in') /\ (at' = "handle client" => SentUp(up, buf'))
  BY <1>1, <1>2 DEF read_msg_udp, ReadMsg
<1>5. raddr' = raddr \/ \E u \in up : u.from = raddr'
  BY <1>3 DEF read_msg_udp, ReadMsg
<1> QED
  BY <1>1, <1>4, <1>5, MainStep

\* The packet that handle_client_packet passes on keeps endpoint and number.
LEMMA HandleClientTrail ==
    ASSUME SystemInv, handle_client_packet, UNCHANGED <<up, wire>>
    PROVE  TrailUp' /\ TrailDown'
<1>1. /\ UNCHANGED <<udp_in, raw_in, raddr, owner>> /\ SentUp(up, buf)
      /\ QueueUp(up, udp_in) /\ (Quiet => QueueDown(up, owner, raw_in))
  BY DEF SystemInv, TrailUp, TrailDown, handle_client_packet
<1>2. /\ at' \in {"read raw", "send raw"}
      /\ at' = "send raw" => buf'.ep = buf.ep /\ buf'.seq = buf.seq
  <2>1. ASSUME NEW s, ClientLookedUp(s)
        PROVE  /\ at' \in {"read raw", "send raw"}
               /\ at' = "send raw" => buf'.ep = buf.ep /\ buf'.seq = buf.seq
    <3>1. \/ at' = "read raw"
          \/ at' = "send raw" /\ buf' = Rewritten(buf.ep, heap'[s].server_port)
      BY <2>1 DEF ClientLookedUp, LookedUp
    <3>2. CASE at' = "send raw"
      <4>1. buf' = Rewritten(buf.ep, heap'[s].server_port)
        BY <3>1, <3>2
      <4>2. buf'.ep = buf.ep
        BY <4>1, RewrittenFields
      <4>3. buf'.seq = buf.seq
        BY <4>1, RewrittenFields
      <4> QED
        BY <3>2, <4>2, <4>3
    <3> QED
      BY <3>1, <3>2
  <2>2. at' = "read raw" \/ \E s : ClientLookedUp(s)
    BY DEF handle_client_packet
  <2> QED
    BY <2>1, <2>2
<1>3. at' = "send raw" => Asks(up, buf')
  BY <1>1, <1>2 DEF SentUp, Asks
<1> QED
  BY <1>1, <1>2, <1>3, MainStep

\* send_ip_packet: from now on, the endpoint has used the port.
LEMMA SendRawTrail ==
    ASSUME SystemInv, send_ip_packet, UNCHANGED up,
           wire' = wire \cup {[port |-> buf.port, seq |-> buf.seq]}
    PROVE  TrailUp' /\ TrailDown'
<1>1. /\ at = "send raw" /\ at' = "read raw" /\ UNCHANGED <<udp_in, raw_in, raddr, buf>>
      /\ owner' = [owner EXCEPT ![buf.port] = @ \cup {buf.ep}]
  BY DEF send_ip_packet
<1>2. Asks(up, buf) /\ owner \in [Ports -> SUBSET Endpoints]
  BY <1>1 DEF SystemInv, TrailUp, ServerInv, ServerTypeOK
<1>3. buf.port \in Ports
  BY <1>1, HeapTypes DEF SystemInv, ServerInv, BufferOK, IInv
<1>4. /\ MoreUsed(owner, owner')
      /\ owner'[buf.port] = owner[buf.port] \cup {buf.ep}
      /\ \A port \in Ports : port # buf.port => owner'[port] = owner[port]
  BY <1>1, <1>2, <1>3 DEF MoreUsed
<1>5. /\ \A w : Asked(up, owner, w) => Asked(up, owner', w)
      /\ \A q : QueueDown(up, owner, q) => QueueDown(up, owner', q)
  BY <1>4, Grows
<1>6. PICK n : n = [port |-> buf.port, seq |-> buf.seq]
  OBVIOUS
<1>7. Asked(up, owner', n)
  BY <1>2, <1>3, <1>4, <1>6 DEF Asked, Asks
<1>8. \A w \in wire' : Asked(up, owner', w)
  BY <1>5, <1>6, <1>7 DEF SystemInv, TrailUp
<1>9. \A port \in Ports : \A ep \in owner'[port] : \E u \in up : u.pkt.ep = ep
  BY <1>2, <1>4 DEF SystemInv, TrailUp, Asks
<1>10. TrailUp'
  BY <1>1, <1>8, <1>9 DEF SystemInv, TrailUp
<1>11. TrailDown'
  BY <1>1, <1>5 DEF SystemInv, TrailDown, Quiet
<1> QED
  BY <1>10, <1>11

\* In a quiet world main leaves get_ip_packet with an answer.
LEMMA GetPacketTrail ==
    ASSUME SystemInv, get_ip_packet, UNCHANGED <<up, wire>>
    PROVE  TrailUp' /\ TrailDown'
<1>1. /\ UNCHANGED <<owner, udp_in, raddr>>
      /\ at' \in {"sleep", "handle world", "read raw", "exit"}
      /\ QueueUp(up, udp_in) /\ (Quiet => QueueDown(up, owner, raw_in))
  BY DEF SystemInv, TrailUp, TrailDown, get_ip_packet, ReadFrame
<1>2. Quiet /\ raw_in # <<>> => /\ IsAnswer(up, owner, Head(raw_in))
                               /\ QueueDown(up, owner, Tail(raw_in))
  BY <1>1, QueueOfAnswers
<1>3. Quiet => QueueDown(up, owner, raw_in')
  BY <1>1, <1>2 DEF get_ip_packet, ReadFrame
<1>4. Quiet /\ at' = "handle world" => Answers(up, owner, buf')
  BY <1>2 DEF get_ip_packet, ReadFrame, Quiet, IsAnswer
<1> QED
  BY <1>1, <1>3, <1>4, MainStep

\* The packet that handle_world_packet passes on keeps its port and what it
\* acknowledges.
LEMMA HandleWorldTrail ==
    ASSUME SystemInv, handle_world_packet, UNCHANGED <<up, wire>>
    PROVE  TrailUp' /\ TrailDown'
<1>1. /\ UNCHANGED <<udp_in, raw_in, raddr, owner>>
      /\ QueueUp(up, udp_in) /\ (Quiet => QueueDown(up, owner, raw_in))
      /\ Quiet => Answers(up, owner, buf)
  BY DEF SystemInv, TrailUp, TrailDown, handle_world_packet
<1>2. /\ at' \in {"read udp", "send udp"}
      /\ at' = "send udp" => buf'.port = buf.port /\ buf'.ack_seq = buf.ack_seq
  <2>1. \/ at' = "read udp"
        \/ at' = "send udp" /\ \E ep : buf' = Rewritten(ep, buf.port)
    BY DEF handle_world_packet
  <2>2. CASE at' = "send udp"
    <3>1. PICK ep : buf' = Rewritten(ep, buf.port)
      BY <2>1, <2>2
    <3>2. buf'.port = buf.port
      BY <3>1, RewrittenFields
    <3>3. buf'.ack_seq = buf.ack_seq
      BY <3>1, RewrittenFields
    <3> QED
      BY <2>2, <3>2, <3>3
  <2> QED
    BY <2>1, <2>2
<1>3. Quiet /\ at' = "send udp" => Answers(up, owner, buf')
  BY <1>1, <1>2 DEF Answers
<1> QED
  BY <1>1, <1>2, <1>3, MainStep

LEMMA MovesOnTrail ==
    ASSUME SystemInv, send_msg_udp \/ sleep, UNCHANGED <<up, wire>>
    PROVE  TrailUp' /\ TrailDown'
<1>1. /\ UNCHANGED <<udp_in, raw_in, raddr, owner>> /\ at' = "read udp"
      /\ QueueUp(up, udp_in) /\ (Quiet => QueueDown(up, owner, raw_in))
  BY DEF SystemInv, TrailUp, TrailDown, send_msg_udp, sleep
<1> QED
  BY <1>1, MainStep

\* The reply goes to an address a request came from and to the endpoint that
\* alone used its port, which is the one that asked.
LEMMA ReplyAsked ==
    ASSUME SystemInv, at = "send udp", UNCHANGED <<up, got>>,
           down' = down \cup {[to |-> raddr, ep |-> buf.ep, ack_seq |-> buf.ack_seq]}
    PROVE  AnswersAsked'
<1>1. owner[buf.port] = {buf.ep} /\ raddr # NoAddr
  BY InvReplyReachesOwner DEF SystemInv, ReplyReachesOwner
<1>2. buf.port \in Ports
  BY HeapTypes DEF SystemInv, ServerInv, BufferOK, IInv
<1>3. PICK n : n = [to |-> raddr, ep |-> buf.ep, ack_seq |-> buf.ack_seq]
  OBVIOUS
<1>4. \E u \in up : u.from = n.to
  BY <1>1, <1>3 DEF SystemInv, TrailUp
<1>5. \E u \in up : u.pkt.ep = n.ep
  BY <1>1, <1>2, <1>3 DEF SystemInv, TrailUp
<1>6. Quiet => \E u \in up : u.pkt.ep = n.ep /\ n.ack_seq = u.pkt.seq + 1
  BY <1>1, <1>3 DEF SystemInv, TrailDown, Answers
<1> QED
  BY <1>3, <1>4, <1>5, <1>6 DEF SystemInv, AnswersAsked, Quiet

LEMMA ServerRunsStep ==
    ASSUME SystemInv, ServerRuns
    PROVE  SystemInv'
<1>1. /\ ServerStep /\ UNCHANGED <<client, up, got>>
      /\ wire' = IF at = "send raw"
                 THEN wire \cup {[port |-> buf.port, seq |-> buf.seq]} ELSE wire
      /\ down' = IF at = "send udp"
                 THEN down \cup {[to |-> raddr, ep |-> buf.ep, ack_seq |-> buf.ack_seq]}
                 ELSE down
  BY DEF ServerRuns
<1>2. ServerInv'
  BY <1>1, MainKeeps DEF SystemInv
<1>3. TrailUp' /\ TrailDown'
  <2>1. CASE send_ip_packet
    BY <1>1, <2>1, SendRawTrail DEF send_ip_packet
  <2>2. CASE ~ send_ip_packet
    <3>1. UNCHANGED <<up, wire>>
      BY <1>1, <2>2 DEF ServerStep, read_msg_udp, ReadMsg, handle_client_packet,
         get_ip_packet, handle_world_packet, send_msg_udp, sleep
    <3> QED
      BY <1>1, <2>2, <3>1, ReadMsgTrail, HandleClientTrail, GetPacketTrail,
         HandleWorldTrail, MovesOnTrail DEF ServerStep
  <2> QED
    BY <2>1, <2>2
<1>4. TrailBack'
  <2>1. UNCHANGED <<c_at, c_udp_in, c_buf, got>> /\ down \subseteq down'
    BY <1>1 DEF client
  <2>2. c_udp_in \in Seq(down')
    BY <2>1, SeqGrows DEF SystemInv, TrailBack
  <2> QED
    BY <2>1, <2>2 DEF SystemInv, TrailBack
<1>5. AnswersAsked'
  <2>1. CASE at = "send udp"
    BY <1>1, <2>1, ReplyAsked
  <2>2. CASE at # "send udp"
    BY <1>1, <2>2, StillAsked DEF SystemInv, TrailBack
  <2> QED
    BY <2>1, <2>2
<1> QED
  BY <1>2, <1>3, <1>4, <1>5 DEF SystemInv

-----------------------------------------------------------------------------
(* The theorems                                                            *)

LEMMA NextSystemInv == SystemInv /\ [SystemNext]_sysvars => SystemInv'
<1> SUFFICES ASSUME SystemInv, [SystemNext]_sysvars PROVE SystemInv'
  OBVIOUS
<1>1. CASE UNCHANGED sysvars
  <2>1. UNCHANGED <<allvars, up, wire, down, got, c_udp_in, c_at, c_buf>>
    BY <1>1 DEF sysvars, network, client
  <2>2. TrailBack'
    BY <2>1 DEF SystemInv, TrailBack
  <2> QED
    BY <2>1, <2>2, ClientSide
<1>2. CASE ClientRuns
  BY <1>2, ClientRunsStep
<1>3. CASE ServerRuns
  BY <1>3, ServerRunsStep
<1>4. CASE ClientRestarts
  BY <1>4, ClientRestartsStep
<1>5. CASE \E p \in Requests : HostSends(p)
  BY <1>5, HostSendsStep
<1>6. CASE \E d \in Ups : UpDelivered(d)
  BY <1>6, UpDeliveredStep
<1>7. CASE \E w \in Wires : WorldAnswers(w)
  BY <1>7, WorldAnswersStep
<1>8. CASE \E d \in Downs : DownDelivered(d)
  BY <1>8, DownDeliveredStep
<1>9. CASE NoiseArrives
  BY <1>9, NoiseArrivesStep
<1>10. CASE TimePasses
  BY <1>10, TimePassesStep
<1> QED
  BY <1>1, <1>2, <1>3, <1>4, <1>5, <1>6, <1>7, <1>8, <1>9, <1>10 DEF SystemNext

LEMMA SpecSystemInv == SystemSpec => []SystemInv
BY InitSystemInv, NextSystemInv, PTL DEF SystemSpec

\* Whatever the client asks, wherever it is restarted and whatever the network
\* loses, doubles, delays or reorders: no answer is sent or relayed that was
\* not asked for, neither to another address nor to another endpoint.
THEOREM AnswersAskedHolds == SystemSpec => []AnswersAsked
<1>1. SystemInv => AnswersAsked
  BY DEF SystemInv
<1> QED
  BY <1>1, SpecSystemInv, PTL

\* The server keeps its promise among a client that dies, late datagrams and a
\* world that answers: a packet of the world is passed to the endpoint that
\* alone used its port, and the address it is sent to has been set.
THEOREM SystemReplyReachesOwner == SystemSpec => []ReplyReachesOwner
<1>1. SystemInv => ReplyReachesOwner
  BY InvReplyReachesOwner DEF SystemInv
<1> QED
  BY <1>1, SpecSystemInv, PTL

\* And what it translates by is still a set of one-to-one bindings that end
\* when they expire: the abstract table is all one has to know of the server's.
THEOREM SystemImplementsNatTable == SystemSpec => ImplementsNatTable
<1>1. SystemInit => Init
  BY DEF SystemInit, ServerInit
<1>2. SystemInv /\ [SystemNext]_sysvars => [Next]_vars
  <2> SUFFICES ASSUME SystemInv, [SystemNext]_sysvars PROVE [Next]_vars
    OBVIOUS
  <2>1. CASE ServerRuns
    BY <2>1, MainUsesTable DEF ServerRuns, SystemInv
  <2>2. CASE TimePasses
    BY <2>2 DEF TimePasses, ClockTicks, Next
  <2>3. CASE UNCHANGED allvars \/ UNCHANGED vars
    BY <2>3 DEF allvars
  <2>4. \/ ServerRuns \/ TimePasses
        \/ UNCHANGED allvars \/ UNCHANGED vars
    BY DEF SystemNext, sysvars, ClientRuns, ClientRestarts, HostSends, UpDelivered,
       WorldAnswers, DownDelivered, NoiseArrives, FrameArrives
  <2> QED
    BY <2>1, <2>2, <2>3, <2>4
<1>3. SystemSpec => Spec
  BY <1>1, <1>2, InitSystemInv, NextSystemInv, PTL DEF SystemSpec, Spec
<1> QED
  BY <1>3, Implements, PTL

=============================================================================
