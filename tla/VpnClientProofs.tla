-------------------------- MODULE VpnClientProofs --------------------------
(***************************************************************************)
(* Proofs about VpnClient, for every set of packets and queue length,      *)
(* whatever the stack held and whichever calls fail.                       *)
(***************************************************************************)
EXTENDS VpnClient, SequenceTheorems, TLAPS

\* How far setup_tun has come at each place: no part is done out of turn, a
\* tunfd other than -1 comes with every part, and main leaves "read tun" only
\* with such a tunfd.
SetupProgress ==
    /\ at = "get udp socket" => open = {} /\ dev = {}
    /\ at = "add tun" => open \subseteq {"udp"} /\ dev = {}
    /\ at = "set int up" => dev = {"made"}
    /\ at = "set default ip addr" => dev = {"made", "up"}
    /\ at = "set default route" => dev = {"made", "up", "addr"}
    /\ at \in SetupPlaces => tunfd = "-1" /\ open \subseteq {"udp", "tun"}
    /\ at \in RelayPlaces => tunfd = "tun"
    /\ tunfd = "tun" /\ at # "exit" => dev = Complete /\ open \subseteq {"udp", "tun"}
    /\ tunfd = "-1" /\ at \notin SetupPlaces => dev = {} /\ "tun" \notin open
    /\ at = "exit" => dev = {} /\ open = {}

IInv == TypeOK /\ SetupProgress

-----------------------------------------------------------------------------
(* The queues                                                              *)

\* What is read from a queue, and what it leaves.
LEMMA ReadQueue ==
    ASSUME NEW S, NEW q \in Seq(S), q # <<>>
    PROVE  /\ Head(q) \in S /\ Tail(q) \in Seq(S)
           /\ q = <<Head(q)>> \o Tail(q)
           /\ ~ Len(Tail(q)) > Len(q)
<1>1. /\ Head(q) \in S /\ Tail(q) \in Seq(S)
      /\ Len(Tail(q)) = Len(q) - 1 /\ Len(q) \in Nat
  OBVIOUS
<1>2. q = <<Head(q)>> \o Tail(q)
  OBVIOUS
<1> QED
  BY <1>1, <1>2

\* The part of a pipe that is in the buffer is a sequence like the queue.
LEMMA BufferType ==
    ASSUME NEW S, NEW e
    PROVE  <<>> \in Seq(S) /\ (e \in S => <<e>> \in Seq(S))
OBVIOUS

\* A datagram that arrives comes after everything in the pipe.
LEMMA Arrived ==
    ASSUME NEW S, NEW q \in Seq(S), NEW d \in S, NEW pre \in Seq(S)
    PROVE  /\ Append(q, d) \in Seq(S)
           /\ Len(Append(q, d)) > Len(q)
           /\ pre \o Append(q, d) # <<>>
           /\ Front(pre \o Append(q, d)) = pre \o q
<1>0. Append(q, d) \in Seq(S) /\ Len(Append(q, d)) = Len(q) + 1 /\ Len(q) \in Nat
  OBVIOUS
<1>1. /\ pre \o q \in Seq(S)
      /\ pre \o Append(q, d) = Append(pre \o q, d)
  OBVIOUS
<1>2. ASSUME NEW p \in Seq(S)
      PROVE  Append(p, d) # <<>> /\ Front(Append(p, d)) = p
  <2>1. /\ Append(p, d) \in Seq(S) /\ Len(Append(p, d)) = Len(p) + 1
        /\ \A i \in 1 .. Len(p) : Append(p, d)[i] = p[i]
        /\ Len(p) \in Nat
    OBVIOUS
  <2>2. SubSeq(Append(p, d), 1, Len(p)) = p
    BY <2>1
  <2>3. Append(p, d) # <<>>
    BY AppendProperties
  <2>4. Len(Append(p, d)) - 1 = Len(p)
    BY <2>1
  <2> QED
    BY <2>2, <2>3, <2>4 DEF Front
<1>3. Len(Append(q, d)) > Len(q)
  BY <1>0
<1> QED
  BY <1>0, <1>1, <1>2, <1>3, Zenon

-----------------------------------------------------------------------------
(* The inductive invariant                                                 *)

\* The client starts with nothing set up.
LEMMA InitIInv == Init => IInv
<1>1. \A S : <<>> \in Seq(S)
  OBVIOUS
<1> QED
  BY <1>1 DEF Init, IInv, TypeOK, SetupProgress, SetupPlaces, RelayPlaces, Complete

\* exit(-1) from main leaves nothing open.
LEMMA ExitStep ==
    ASSUME IInv, Exit
    PROVE  IInv'
BY DEF Exit, CloseTun, queues, IInv, TypeOK, SetupProgress, SetupPlaces,
       RelayPlaces, Complete

\* A part of setup_tun that fails takes the interface down again.
LEMMA SetupFailsStep ==
    ASSUME IInv, at \in SetupPlaces, NEW leaked \in SUBSET {"ctl"},
           SetupFails(leaked), UNCHANGED <<flags, queues, buf>>
    PROVE  IInv'
BY DEF SetupFails, CloseTun, queues, IInv, TypeOK, SetupProgress, SetupPlaces,
       RelayPlaces, Complete

\* The parts of setup_tun, each done or failed.
LEMMA SetupStep ==
    ASSUME IInv,
           \/ get_udp_socket_client \/ add_tun \/ set_int_up
           \/ set_default_ip_addr \/ set_default_route
    PROVE  IInv'
<1> USE DEF IInv, TypeOK, SetupProgress, SetupPlaces, RelayPlaces, Complete, queues
<1>1. CASE get_udp_socket_client
  BY <1>1 DEF get_udp_socket_client
<1>2. CASE add_tun
  BY <1>2, ClientAssumption DEF add_tun
<1>3. CASE set_int_up
  <2>1. CASE SetupFails({}) \/ SetupFails({"ctl"})
    BY <1>3, <2>1, SetupFailsStep DEF set_int_up
  <2> QED
    BY <1>3, <2>1 DEF set_int_up
<1>4. CASE set_default_ip_addr
  <2>1. CASE SetupFails({})
    BY <1>4, <2>1, SetupFailsStep DEF set_default_ip_addr
  <2> QED
    BY <1>4, <2>1 DEF set_default_ip_addr
<1>5. CASE set_default_route
  <2>1. CASE SetupFails({})
    BY <1>5, <2>1, SetupFailsStep DEF set_default_route
  <2> QED
    BY <1>5, <2>1 DEF set_default_route
<1> QED
  BY <1>1, <1>2, <1>3, <1>4, <1>5

\* The turns of main.
LEMMA MainStep ==
    ASSUME IInv, read_tun \/ send_msg_udp \/ read_msg_udp \/ write_tun
    PROVE  IInv'
<1> USE DEF IInv, TypeOK, SetupProgress, SetupPlaces, RelayPlaces, Complete, queues
<1>1. CASE read_tun
  <2>1. CASE Exit
    BY <2>1, ExitStep
  <2>2. tun_in # <<>> => Head(tun_in) \in Packets /\ Tail(tun_in) \in Seq(Packets)
    BY ReadQueue
  <2> QED
    BY <1>1, <2>1, <2>2 DEF read_tun
<1>2. CASE send_msg_udp
  BY <1>2, ExitStep DEF send_msg_udp, SendThen
<1>3. CASE read_msg_udp
  <2>1. CASE Exit
    BY <2>1, ExitStep
  <2>2. udp_in # <<>> => /\ Head(udp_in) \in Packets \cup {Empty, Junk}
                         /\ Tail(udp_in) \in Seq(Packets \cup {Empty, Junk})
    BY ReadQueue
  <2> QED
    BY <1>3, <2>1, <2>2 DEF read_msg_udp, ReadThen
<1>4. CASE write_tun
  BY <1>4, ExitStep DEF write_tun, WriteThen
<1> QED
  BY <1>1, <1>2, <1>3, <1>4

\* Every step of the client and of the kernel keeps the invariant.
LEMMA NextIInv == IInv /\ [Next]_vars => IInv'
<1> SUFFICES ASSUME IInv, [Next]_vars PROVE IInv'
  OBVIOUS
<1>1. CASE ClientStep
  BY <1>1, SetupStep, MainStep DEF ClientStep
<1>2. CASE PacketRouted
  <2>1. PICK p \in Packets : Route(p)
    BY <1>2 DEF PacketRouted
  <2>2. Append(tun_in, p) \in Seq(Packets)
    BY Arrived, EmptySeq DEF IInv, TypeOK
  <2> QED
    BY <2>1, <2>2 DEF Route, IInv, TypeOK, SetupProgress
<1>3. CASE DatagramArrives
  <2>1. PICK d \in Packets \cup {Empty, Junk} : Arrive(d)
    BY <1>3 DEF DatagramArrives
  <2>2. Append(udp_in, d) \in Seq(Packets \cup {Empty, Junk})
    BY Arrived, EmptySeq DEF IInv, TypeOK
  <2> QED
    BY <2>1, <2>2 DEF Arrive, IInv, TypeOK, SetupProgress
<1>4. CASE UNCHANGED vars
  BY <1>4 DEF vars, queues, IInv, TypeOK, SetupProgress
<1> QED
  BY <1>1, <1>2, <1>3, <1>4 DEF Next

\* The invariant holds in every state of the client.
LEMMA SpecIInv == Spec => []IInv
BY InitIInv, NextIInv, PTL DEF Spec

-----------------------------------------------------------------------------
(* The pipes                                                               *)

\* A pipe whose head is in the buffer, and one whose head is in the queue.
LEMMA PipeShapes ==
    ASSUME NEW S, NEW q \in Seq(S), NEW e \in S
    PROVE  /\ <<>> \o q = q
           /\ <<e>> \o q # <<>> /\ Tail(<<e>> \o q) = q
<1>1. <<>> \o q = q
  BY ConcatEmptySeq
<1>2. /\ <<e>> \o q \in Seq(S) /\ Len(<<e>> \o q) = Len(q) + 1
      /\ \A i \in 1 .. Len(q) : (<<e>> \o q)[i + 1] = q[i]
      /\ Len(q) \in Nat
  OBVIOUS
<1>3. <<e>> \o q # <<>>
  BY <1>2
<1>4. /\ Tail(<<e>> \o q) \in Seq(S) /\ Len(Tail(<<e>> \o q)) = Len(q)
      /\ \A i \in 1 .. Len(q) : Tail(<<e>> \o q)[i] = (<<e>> \o q)[i + 1]
  BY <1>2, <1>3, HeadTailProperties
<1>5. Tail(<<e>> \o q) = q
  BY <1>2, <1>4, SeqEqual
<1> QED
  BY <1>1, <1>3, <1>5

\* What may happen to the packets on their way to the server.
LEMMA UpInOrder ==
    ASSUME IInv, [Next]_vars, at' # "exit"
    PROVE  FirstInFirstOut(PipeUp, PipeUp', Len(tun_in') > Len(tun_in),
                           at = "send udp")
<1>0. tun_in \in Seq(Packets) /\ (at = "send udp" => buf \in Packets)
  BY DEF IInv, TypeOK
<1>1. CASE /\ tun_in' = tun_in /\ at # "send udp" /\ at' # "send udp"
  BY <1>1 DEF PipeUp, Pipe, FirstInFirstOut
<1>2. CASE read_tun /\ at' = "send udp"
  <2>1. /\ tun_in # <<>> /\ buf' = Head(tun_in) /\ tun_in' = Tail(tun_in)
        /\ at = "read tun"
    BY <1>2 DEF read_tun, Exit
  <2>2. PipeUp = <<>> \o tun_in /\ PipeUp' = <<Head(tun_in)>> \o Tail(tun_in)
    BY <1>2, <2>1 DEF PipeUp, Pipe
  <2>3. <<>> \o tun_in = tun_in /\ <<Head(tun_in)>> \o Tail(tun_in) = tun_in
    BY <1>0, <2>1, ReadQueue, ConcatEmptySeq
  <2> QED
    BY <2>2, <2>3 DEF FirstInFirstOut
<1>3. CASE send_msg_udp
  <2>1. at = "send udp" /\ at' = "read udp" /\ UNCHANGED <<tun_in, buf>>
    BY <1>3 DEF send_msg_udp, SendThen, Exit, queues
  <2>2. PipeUp = <<buf>> \o tun_in /\ PipeUp' = <<>> \o tun_in
    BY <2>1 DEF PipeUp, Pipe
  <2>3. /\ <<>> \o tun_in = tun_in
        /\ <<buf>> \o tun_in # <<>> /\ Tail(<<buf>> \o tun_in) = tun_in
    BY <1>0, <2>1, PipeShapes
  <2> QED
    BY <2>1, <2>2, <2>3 DEF FirstInFirstOut
<1>4. CASE PacketRouted
  <2>1. PICK p \in Packets : Route(p)
    BY <1>4 DEF PacketRouted
  <2> DEFINE pre == IF at = "send udp" THEN <<buf>> ELSE <<>>
  <2>2. pre \in Seq(Packets)
    BY <1>0, BufferType
  <2>3. PipeUp = pre \o tun_in /\ PipeUp' = pre \o Append(tun_in, p)
    BY <2>1 DEF PipeUp, Pipe, Route
  <2> HIDE DEF pre
  <2>4. /\ pre \o Append(tun_in, p) # <<>>
        /\ Front(pre \o Append(tun_in, p)) = pre \o tun_in
        /\ Len(Append(tun_in, p)) > Len(tun_in)
    BY <1>0, <2>2, Arrived
  <2>5. tun_in' = Append(tun_in, p)
    BY <2>1 DEF Route, Arrive
  <2> QED
    BY <2>3, <2>4, <2>5 DEF FirstInFirstOut
<1>5. CASE DatagramArrives \/ UNCHANGED vars
  BY <1>5 DEF DatagramArrives, Arrive, vars, queues, PipeUp, Pipe, FirstInFirstOut
<1>6. CASE ClientStep /\ ~ send_msg_udp /\ ~ (read_tun /\ at' = "send udp")
  BY <1>1, <1>6
  DEF ClientStep, get_udp_socket_client, add_tun, set_int_up,
      set_default_ip_addr, set_default_route, SetupFails, read_tun,
      read_msg_udp, ReadThen, write_tun, WriteThen, Exit, queues
<1> QED
  BY <1>2, <1>3, <1>4, <1>5, <1>6 DEF Next

\* What may happen to the datagrams on their way to the interface: an empty
\* one is dropped.
LEMMA DownInOrder ==
    ASSUME IInv, [Next]_vars, at' # "exit"
    PROVE  FirstInFirstOut(PipeDown, PipeDown', Len(udp_in') > Len(udp_in),
                           at = "write tun")
<1> DEFINE Things == Packets \cup {Empty, Junk}
<1>0. udp_in \in Seq(Things) /\ buf \in Things
  BY DEF IInv, TypeOK
<1> HIDE DEF Things
<1>1. CASE /\ udp_in' = udp_in /\ at # "write tun" /\ at' # "write tun"
  BY <1>1 DEF PipeDown, Pipe, FirstInFirstOut
<1>2. CASE read_msg_udp /\ udp_in # <<>>
  <2>1. /\ udp_in' = Tail(udp_in) /\ at = "read udp"
        /\ IF Head(udp_in) = Empty
           THEN at' = "read tun"
           ELSE at' = "write tun" /\ buf' = Head(udp_in)
    BY <1>2 DEF read_msg_udp, ReadThen, Exit
  <2>2. /\ <<>> \o udp_in = udp_in /\ <<Head(udp_in)>> \o Tail(udp_in) = udp_in
        /\ <<>> \o Tail(udp_in) = Tail(udp_in)
    BY <1>0, <1>2, ReadQueue, ConcatEmptySeq
  <2>3. PipeDown = <<>> \o udp_in
    BY <2>1 DEF PipeDown, Pipe
  <2>4. CASE Head(udp_in) = Empty
    <3>1. PipeDown' = <<>> \o Tail(udp_in)
      BY <2>1, <2>4 DEF PipeDown, Pipe
    <3> QED
      BY <1>2, <2>2, <2>3, <2>4, <3>1, ClientAssumption DEF FirstInFirstOut
  <2>5. CASE Head(udp_in) # Empty
    <3>1. PipeDown' = <<Head(udp_in)>> \o Tail(udp_in)
      BY <2>1, <2>5 DEF PipeDown, Pipe
    <3> QED
      BY <2>2, <2>3, <3>1 DEF FirstInFirstOut
  <2> QED
    BY <2>4, <2>5
<1>3. CASE write_tun
  <2>1. at = "write tun" /\ at' = "read tun" /\ UNCHANGED <<udp_in, buf>>
    BY <1>3 DEF write_tun, WriteThen, Exit, queues
  <2>2. PipeDown = <<buf>> \o udp_in /\ PipeDown' = <<>> \o udp_in
    BY <2>1 DEF PipeDown, Pipe
  <2>3. /\ <<>> \o udp_in = udp_in
        /\ <<buf>> \o udp_in # <<>> /\ Tail(<<buf>> \o udp_in) = udp_in
    BY <1>0, PipeShapes
  <2> QED
    BY <2>1, <2>2, <2>3 DEF FirstInFirstOut
<1>4. CASE DatagramArrives
  <2>1. PICK d \in Things : Arrive(d)
    BY <1>4 DEF DatagramArrives, Things
  <2> DEFINE pre == IF at = "write tun" THEN <<buf>> ELSE <<>>
  <2>2. pre \in Seq(Things)
    BY <1>0, BufferType
  <2>3. PipeDown = pre \o udp_in /\ PipeDown' = pre \o Append(udp_in, d)
    BY <2>1 DEF PipeDown, Pipe, Arrive
  <2> HIDE DEF pre
  <2>4. /\ pre \o Append(udp_in, d) # <<>>
        /\ Front(pre \o Append(udp_in, d)) = pre \o udp_in
        /\ Len(Append(udp_in, d)) > Len(udp_in)
    BY <1>0, <2>2, Arrived
  <2>5. udp_in' = Append(udp_in, d)
    BY <2>1 DEF Route, Arrive
  <2> QED
    BY <2>3, <2>4, <2>5 DEF FirstInFirstOut
<1>5. CASE PacketRouted \/ UNCHANGED vars
  BY <1>5 DEF PacketRouted, Route, vars, queues, PipeDown, Pipe, FirstInFirstOut
<1>6. CASE ClientStep /\ ~ write_tun /\ ~ (read_msg_udp /\ udp_in # <<>>)
  BY <1>1, <1>6
  DEF ClientStep, get_udp_socket_client, add_tun, set_int_up,
      set_default_ip_addr, set_default_route, SetupFails, read_tun,
      read_msg_udp, ReadThen, send_msg_udp, SendThen, Exit, queues
<1> QED
  BY <1>2, <1>3, <1>4, <1>5, <1>6 DEF Next

-----------------------------------------------------------------------------
(* The theorems                                                            *)

\* The variables keep their types; in particular what is sent to the server
\* was read from the interface, and what is written to it was read before.
THEOREM TypeCorrect == Spec => []TypeOK
<1>1. IInv => TypeOK
  BY DEF IInv
<1> QED
  BY <1>1, SpecIInv, PTL

\* Whichever parts of setup_tun fail, no interface, no route and no descriptor
\* of the tun are left behind, the control socket of do_chflags is open at most
\* until the first read of main fails, and nothing is relayed before all parts
\* are done.
THEOREM SetupAllOrNothingHolds == Spec => []SetupAllOrNothing
<1>1. IInv => SetupAllOrNothing
  BY DEF IInv, TypeOK, SetupProgress, SetupAllOrNothing, SetupPlaces, RelayPlaces
<1> QED
  BY <1>1, SpecIInv, PTL

\* Until the client exits, every packet of either direction leaves it in the
\* order in which it came, once, and on the other side, although both share
\* one buffer and the reads of main jump over each other's sends.
THEOREM RelayInOrderHolds == Spec => RelayInOrder
<1>1. IInv /\ [Next]_vars =>
         [at' # "exit" =>
             /\ FirstInFirstOut(PipeUp, PipeUp', Len(tun_in') > Len(tun_in),
                                at = "send udp")
             /\ FirstInFirstOut(PipeDown, PipeDown', Len(udp_in') > Len(udp_in),
                                at = "write tun")]_vars
  BY UpInOrder, DownInOrder
<1> QED
  BY <1>1, SpecIInv, PTL DEF Spec, RelayInOrder

=============================================================================
