------------------------- MODULE TcpTrackingProofs -------------------------
(***************************************************************************)
(* The state the packet handlers keep of a connection is right for every   *)
(* pair of initial sequence numbers, every amount of data and every order  *)
(* of delivery, as long as no sequence number wraps and a FIN is always    *)
(* sent on its own: without the first the comparison of uint32_t values is *)
(* no comparison of sequence numbers, without the second the number that   *)
(* is kept is not the one of the FIN.                                      *)
(*                                                                         *)
(* HostInv says what the hosts and the segments between them are, whatever *)
(* the server does; SynTracked and the two halves of FinTracked relate the *)
(* fields of the session to them.                                          *)
(***************************************************************************)
EXTENDS TcpTracking, TLAPS

-----------------------------------------------------------------------------
(* The invariant                                                           *)

\* A host that may send "data" bytes: the FIN is the last of its positions.
HostOK(h, data) ==
    /\ h \in [nxt : Nat, una : Nat, rcv : Nat, fin : Nat]
    /\ h.nxt <= data + 2
    /\ h.fin = 0 => h.nxt <= data + 1
    /\ h.fin # 0 => h.nxt = h.fin + 1

\* No host is ahead of the other: it has received no more than was sent, and
\* no more was acknowledged than was received.
Hosts ==
    /\ HostOK(client, ClientData) /\ HostOK(world, WorldData)
    /\ client.nxt > 0
    /\ client.rcv <= world.nxt /\ world.rcv <= client.nxt
    /\ client.una <= world.rcv /\ world.una <= client.rcv
    /\ world.nxt > 0 => world.rcv > 0
    /\ client.una > 0 => client.rcv > 0

\* Segment p was sent by host h, in its present or in an earlier state.
SentBy(p, h, isn, peer_isn) ==
    /\ p.pos \in Nat /\ p.len \in Nat /\ p.rcv \in Nat
    /\ p.pos + p.len <= h.nxt
    /\ p.rcv <= h.rcv
    /\ p.pos = 0 => p.len = 1
    /\ p.pos # 0 => h.una > 0 /\ p.rcv > 0
    /\ p.len <= 1 \/ Coalesce
    /\ p.syn <=> p.pos = 0
    /\ p.ack <=> p.rcv > 0
    /\ p.seq = (isn + p.pos) % U32
    /\ p.rcv > 0 => p.ack_seq = (peer_isn + p.rcv) % U32
    /\ p.fin <=> h.fin # 0 /\ p.len > 0 /\ p.pos + p.len = h.fin + 1

Segments ==
    /\ \A p \in up : SentBy(p, client, ClientISN, WorldISN)
    /\ \A p \in down : SentBy(p, world, WorldISN, ClientISN) /\ p.rcv > 0
    /\ forwarded \subseteq up /\ returned \subseteq down

HostInv ==
    Hosts /\ Segments /\ session \in Track(0 .. U32 - 1)

\* The handshake: until the world has answered nothing but SYNs are under way,
\* and the world sees its SYN acknowledged by what the server has seen.
SynTracked ==
    /\ returned # {} => session.syn_state # 0
    /\ client.rcv > 0 => session.syn_state # 0
    /\ session.syn_state = 0 =>
          /\ session.client_last_state_seq \in {0, ClientISN}
          /\ session.client_fin_state = 0 /\ session.server_fin_state = 0
    /\ session.syn_state = 2 =>
          session.server_last_state_seq = WorldISN /\ session.client_fin_state = 0
    /\ \A p \in forwarded : p.rcv > 0 => session.syn_state = 3
    /\ world.una > 0 => session.syn_state = 3
    /\ session.syn_state = 3 => client.rcv > 0

\* A half-close of host h, whose numbers start at isn, towards the host peer:
\* state and last are the fields of the session, passed the segments of h
\* that the server passed on and answers the ones of the peer.
FinTracked(state, last, h, peer, isn, passed, answers) ==
    /\ state # 0 => h.fin # 0 /\ last = isn + h.fin
    /\ \A p \in passed : p.fin => state # 0
    /\ h.fin # 0 /\ peer.rcv > h.fin => state # 0
    /\ \A p \in answers : h.fin # 0 /\ p.rcv > h.fin => state = 2
    /\ h.fin # 0 /\ h.una > h.fin => state = 2
    /\ state = 2 => peer.rcv > h.fin

ClientFinTracked ==
    FinTracked(session.server_fin_state, session.client_last_state_seq,
               client, world, ClientISN, forwarded, returned)

WorldFinTracked ==
    FinTracked(session.client_fin_state, session.server_last_state_seq,
               world, client, WorldISN, returned, forwarded)

TrackInv == HostInv /\ SynTracked /\ ClientFinTracked /\ WorldFinTracked

\* No sequence number of the connection wraps, and FINs travel alone.
Plain ==
    /\ ClientISN + ClientData + 2 < U32 /\ WorldISN + WorldData + 2 < U32
    /\ ~ Coalesce

-----------------------------------------------------------------------------
(* The operators                                                           *)

HostRecord == [nxt : Nat, una : Nat, rcv : Nat, fin : Nat]

\* What MaySend allows, a segment of the host carries.
LEMMA SegmentSent ==
    ASSUME NEW h \in HostRecord, NEW isn \in Nat, NEW peer_isn \in Nat,
           h.nxt > 0, h.una <= h.nxt, h.una > 0 => h.rcv > 0,
           h.fin # 0 => h.nxt = h.fin + 1,
           NEW m \in MaySend(h)
    PROVE  /\ SentBy(Segment(h, isn, peer_isn, m[1], m[2]), h, isn, peer_isn)
           /\ Segment(h, isn, peer_isn, m[1], m[2]).rcv = h.rcv
<1> DEFINE p == Segment(h, isn, peer_isn, m[1], m[2])
<1>1. /\ h.nxt \in Nat /\ h.una \in Nat /\ h.rcv \in Nat /\ h.fin \in Nat
  BY DEF HostRecord
<1>2. /\ m[1] \in Nat /\ m[2] \in Nat /\ m[1] + m[2] <= h.nxt
      /\ m[1] = 0 => m[2] = 1
      /\ m[1] # 0 => h.una > 0
      /\ m[2] <= 1 \/ Coalesce
  <2>1. CASE h.una = 0
    BY <1>1, <2>1 DEF MaySend
  <2>2. CASE h.una # 0
    <3>1. \/ m = <<h.nxt, 0>>
          \/ \E o \in h.una .. h.nxt - 1 : m = <<o, 1>>
          \/ \E o \in h.una .. h.fin - 1 : Coalesce /\ h.fin # 0 /\ m = <<o, h.fin + 1 - o>>
      BY <2>2 DEF MaySend
    <3>2. CASE m = <<h.nxt, 0>>
      BY <1>1, <2>2, <3>2
    <3>3. CASE \E o \in h.una .. h.nxt - 1 : m = <<o, 1>>
      BY <1>1, <2>2, <3>3
    <3>4. CASE \E o \in h.una .. h.fin - 1 : Coalesce /\ h.fin # 0 /\ m = <<o, h.fin + 1 - o>>
      BY <1>1, <2>2, <3>4
    <3> QED
      BY <3>1, <3>2, <3>3, <3>4
  <2> QED
    BY <2>1, <2>2
<1>3. /\ p.pos = m[1] /\ p.len = m[2] /\ p.rcv = h.rcv
      /\ p.syn <=> m[1] = 0
      /\ p.ack <=> h.rcv > 0
      /\ p.seq = (isn + m[1]) % U32
      /\ h.rcv > 0 => p.ack_seq = (peer_isn + h.rcv) % U32
      /\ p.fin <=> h.fin # 0 /\ m[2] > 0 /\ m[1] + m[2] = h.fin + 1
  BY DEF Segment
<1> HIDE DEF p
<1>4. SentBy(p, h, isn, peer_isn)
  BY <1>1, <1>2, <1>3 DEF SentBy
<1> QED
  BY <1>3, <1>4 DEF p

\* A segment stays one of its host while the host goes on: a FIN that is
\* added later comes after all that was sent.
LEMMA SentStays ==
    ASSUME NEW h \in HostRecord, NEW g \in HostRecord, NEW isn, NEW peer_isn, NEW p,
           SentBy(p, h, isn, peer_isn),
           h.nxt <= g.nxt, h.rcv <= g.rcv, h.una <= g.una,
           g.fin = h.fin \/ (h.fin = 0 /\ g.fin = h.nxt)
    PROVE  SentBy(p, g, isn, peer_isn)
<1>1. /\ h.nxt \in Nat /\ h.una \in Nat /\ h.rcv \in Nat /\ h.fin \in Nat
      /\ g.nxt \in Nat /\ g.una \in Nat /\ g.rcv \in Nat /\ g.fin \in Nat
  BY DEF HostRecord
<1>2. (h.fin # 0 /\ p.len > 0 /\ p.pos + p.len = h.fin + 1)
         <=> (g.fin # 0 /\ p.len > 0 /\ p.pos + p.len = g.fin + 1)
  BY <1>1 DEF SentBy
<1> QED
  BY <1>1, <1>2 DEF SentBy

\* What a host that takes a segment changes.
LEMMA TakeFacts ==
    ASSUME NEW h \in HostRecord, NEW p, p.pos \in Nat, p.len \in Nat, p.rcv \in Nat
    PROVE  LET g == Take(h, p)
           IN  /\ g \in HostRecord
               /\ g.nxt = h.nxt /\ g.fin = h.fin
               /\ \/ g.una = h.una /\ p.rcv <= h.una
                  \/ g.una = p.rcv /\ p.rcv > h.una
               /\ \/ g.rcv = h.rcv /\ ~ (p.pos <= h.rcv /\ p.pos + p.len > h.rcv)
                  \/ g.rcv = p.pos + p.len /\ p.pos <= h.rcv /\ p.pos + p.len > h.rcv
<1> DEFINE a == IF p.rcv > h.una THEN p.rcv ELSE h.una
           r == IF p.pos <= h.rcv /\ p.pos + p.len > h.rcv THEN p.pos + p.len ELSE h.rcv
<1>1. h.nxt \in Nat /\ h.una \in Nat /\ h.rcv \in Nat /\ h.fin \in Nat
  BY DEF HostRecord
<1>2. Take(h, p) = [h EXCEPT !.una = a, !.rcv = r]
  BY DEF Take
<1>3. a \in Nat /\ r \in Nat
  BY <1>1
<1>4. /\ Take(h, p) \in HostRecord
      /\ Take(h, p).nxt = h.nxt /\ Take(h, p).fin = h.fin
      /\ Take(h, p).una = a /\ Take(h, p).rcv = r
  <2> HIDE DEF a, r
  <2> QED
    BY <1>2, <1>3 DEF HostRecord
<1> QED
  BY <1>1, <1>4

\* What the application changes.
LEMMA WriteFacts ==
    ASSUME NEW h \in HostRecord
    PROVE  /\ Write(h) \in HostRecord /\ Close(h) \in HostRecord
           /\ Write(h).nxt = h.nxt + 1 /\ Write(h).fin = h.fin
           /\ Close(h).nxt = h.nxt + 1 /\ Close(h).fin = h.nxt
           /\ Write(h).una = h.una /\ Write(h).rcv = h.rcv
           /\ Close(h).una = h.una /\ Close(h).rcv = h.rcv
<1>1. h.nxt \in Nat /\ h.una \in Nat /\ h.rcv \in Nat /\ h.fin \in Nat
  BY DEF HostRecord
<1>2. /\ Write(h) \in HostRecord
      /\ Write(h).nxt = h.nxt + 1 /\ Write(h).fin = h.fin
      /\ Write(h).una = h.una /\ Write(h).rcv = h.rcv
  BY <1>1 DEF Write, HostRecord
<1>3. Close(h) = [h EXCEPT !.nxt = h.nxt + 1, !.fin = h.nxt] /\ h.nxt + 1 \in Nat
  BY <1>1 DEF Close
<1> QED
  BY <1>1, <1>2, <1>3 DEF HostRecord

\* handle_client_packet, field by field: packet p turns the fields t into u.
ClientHandled(t, p, u) ==
    LET opens == p.syn /\ t.syn_state = 0
        acks == ~ opens /\ Acks(p, t.server_last_state_seq)
        closes == ~ opens /\ p.fin /\ t.server_fin_state = 0
    IN  /\ u.syn_state = IF acks /\ t.syn_state = 2 THEN 3 ELSE t.syn_state
        /\ u.client_fin_state = IF acks /\ t.syn_state # 2 /\ t.client_fin_state = 1
                                THEN 2 ELSE t.client_fin_state
        /\ u.server_fin_state = IF closes THEN 1 ELSE t.server_fin_state
        /\ u.client_last_state_seq = IF opens \/ closes THEN p.seq
                                     ELSE t.client_last_state_seq
        /\ u.server_last_state_seq = t.server_last_state_seq

LEMMA ClientFlagsFacts ==
    ASSUME NEW S, NEW t \in Track(S), NEW p, p.seq \in S
    PROVE  ClientFlags(t, p) \in Track(S) /\ ClientHandled(t, p, ClientFlags(t, p))
<1> USE DEF ClientHandled
<1> DEFINE v == ClientAck(t, p)
<1>0. 1 \in 0 .. 2 /\ 2 \in 0 .. 2
  OBVIOUS
<1>1. /\ v \in Track(S)
      /\ v.syn_state = IF Acks(p, t.server_last_state_seq) /\ t.syn_state = 2
                       THEN 3 ELSE t.syn_state
      /\ v.client_fin_state = IF /\ Acks(p, t.server_last_state_seq) /\ t.syn_state # 2
                                 /\ t.client_fin_state = 1
                              THEN 2 ELSE t.client_fin_state
      /\ v.server_fin_state = t.server_fin_state
      /\ v.client_last_state_seq = t.client_last_state_seq
      /\ v.server_last_state_seq = t.server_last_state_seq
  <2> HIDE DEF v
  <2> DEFINE acks == Acks(p, t.server_last_state_seq)
  <2>1. CASE acks /\ t.syn_state = 2
    <3>1. v = [t EXCEPT !.syn_state = 3]
      BY <2>1 DEF v, ClientAck
    <3> QED
      BY <2>1, <3>1 DEF Track
  <2>2. CASE acks /\ t.syn_state # 2 /\ t.client_fin_state = 1
    <3>1. v = [t EXCEPT !.client_fin_state = 2]
      BY <2>2 DEF v, ClientAck
    <3> QED
      BY <1>0, <2>2, <3>1 DEF Track
  <2>3. CASE ~ acks \/ (t.syn_state # 2 /\ t.client_fin_state # 1)
    <3>1. v = t
      BY <2>3 DEF v, ClientAck
    <3> QED
      BY <2>3, <3>1
  <2> QED
    BY <2>1, <2>2, <2>3
<1> HIDE DEF v
<1>2. CASE p.syn /\ t.syn_state = 0
  <2>1. ClientFlags(t, p) = [t EXCEPT !.client_last_state_seq = p.seq]
    BY <1>2 DEF ClientFlags
  <2> QED
    BY <1>2, <2>1 DEF Track
<1>3. CASE ~ (p.syn /\ t.syn_state = 0)
  <2>1. ClientFlags(t, p) = ClientFin(v, p)
    BY <1>3 DEF ClientFlags, v
  <2>2. CASE p.fin /\ t.server_fin_state = 0
    <3>1. ClientFlags(t, p) = [v EXCEPT !.server_fin_state = 1, !.client_last_state_seq = p.seq]
      BY <1>1, <2>1, <2>2 DEF ClientFin
    <3>2. ClientFlags(t, p) \in Track(S)
      BY <1>0, <1>1, <3>1 DEF Track
    <3>3. /\ ClientFlags(t, p).syn_state = v.syn_state
          /\ ClientFlags(t, p).client_fin_state = v.client_fin_state
          /\ ClientFlags(t, p).server_fin_state = 1
          /\ ClientFlags(t, p).client_last_state_seq = p.seq
          /\ ClientFlags(t, p).server_last_state_seq = v.server_last_state_seq
      BY <1>1, <3>1 DEF Track
    <3> QED
      BY <1>1, <1>3, <2>2, <3>2, <3>3
  <2>3. CASE ~ (p.fin /\ t.server_fin_state = 0)
    <3>1. ClientFlags(t, p) = v
      BY <1>1, <2>1, <2>3 DEF ClientFin
    <3> QED
      BY <1>1, <1>3, <2>3, <3>1
  <2> QED
    BY <2>2, <2>3
<1> QED
  BY <1>2, <1>3

\* handle_world_packet, field by field.
WorldHandled(t, p, u) ==
    LET acks == Acks(p, t.client_last_state_seq)
        opens == p.syn /\ t.syn_state = 0 /\ acks
        closes == ~ opens /\ p.fin /\ t.client_fin_state = 0
    IN  /\ u.syn_state = IF opens THEN 2 ELSE t.syn_state
        /\ u.server_fin_state = IF ~ opens /\ acks /\ t.server_fin_state = 1
                                THEN 2 ELSE t.server_fin_state
        /\ u.client_fin_state = IF closes THEN 1 ELSE t.client_fin_state
        /\ u.server_last_state_seq = IF opens \/ closes THEN p.seq
                                     ELSE t.server_last_state_seq
        /\ u.client_last_state_seq = t.client_last_state_seq

LEMMA WorldFlagsFacts ==
    ASSUME NEW S, NEW t \in Track(S), NEW p, p.seq \in S
    PROVE  WorldFlags(t, p) \in Track(S) /\ WorldHandled(t, p, WorldFlags(t, p))
<1> USE DEF WorldHandled
<1> DEFINE v == WorldAck(t, p)
           opens == p.syn /\ t.syn_state = 0 /\ Acks(p, t.client_last_state_seq)
<1>0. 1 \in 0 .. 2 /\ 2 \in 0 .. 2
  OBVIOUS
<1>1. /\ v \in Track(S)
      /\ v.syn_state = t.syn_state
      /\ v.server_fin_state = IF Acks(p, t.client_last_state_seq) /\ t.server_fin_state = 1
                              THEN 2 ELSE t.server_fin_state
      /\ v.client_fin_state = t.client_fin_state
      /\ v.client_last_state_seq = t.client_last_state_seq
      /\ v.server_last_state_seq = t.server_last_state_seq
  BY <1>0 DEF WorldAck, Track
<1> HIDE DEF v
<1>2. CASE opens
  <2>1. WorldFlags(t, p) = [t EXCEPT !.syn_state = 2, !.server_last_state_seq = p.seq]
    BY <1>2 DEF WorldFlags
  <2>2. /\ WorldFlags(t, p) \in Track(S)
        /\ WorldFlags(t, p).syn_state = 2
        /\ WorldFlags(t, p).client_fin_state = t.client_fin_state
        /\ WorldFlags(t, p).server_fin_state = t.server_fin_state
        /\ WorldFlags(t, p).client_last_state_seq = t.client_last_state_seq
        /\ WorldFlags(t, p).server_last_state_seq = p.seq
    BY <2>1 DEF Track
  <2> QED
    BY <1>2, <2>2
<1>3. CASE ~ opens
  <2>1. WorldFlags(t, p) = WorldFin(v, p)
    BY <1>3 DEF WorldFlags, v
  <2>2. CASE p.fin /\ t.client_fin_state = 0
    <3>1. WorldFlags(t, p) = [v EXCEPT !.client_fin_state = 1, !.server_last_state_seq = p.seq]
      BY <1>1, <2>1, <2>2 DEF WorldFin
    <3>2. WorldFlags(t, p) \in Track(S)
      BY <1>0, <1>1, <3>1 DEF Track
    <3>3. /\ WorldFlags(t, p).syn_state = v.syn_state
          /\ WorldFlags(t, p).server_fin_state = v.server_fin_state
          /\ WorldFlags(t, p).client_fin_state = 1
          /\ WorldFlags(t, p).server_last_state_seq = p.seq
          /\ WorldFlags(t, p).client_last_state_seq = v.client_last_state_seq
      BY <1>1, <3>1 DEF Track
    <3> QED
      BY <1>1, <1>3, <2>2, <3>2, <3>3
  <2>3. CASE ~ (p.fin /\ t.client_fin_state = 0)
    <3>1. WorldFlags(t, p) = v
      BY <1>1, <2>1, <2>3 DEF WorldFin
    <3> QED
      BY <1>1, <1>3, <2>3, <3>1
  <2> QED
    BY <2>2, <2>3
<1> QED
  BY <1>2, <1>3

-----------------------------------------------------------------------------
(* The hosts                                                               *)

LEMMA HostTypes ==
    ASSUME HostInv
    PROVE  /\ client \in HostRecord /\ world \in HostRecord
           /\ client.nxt \in Nat /\ client.una \in Nat /\ client.rcv \in Nat
           /\ client.fin \in Nat
           /\ world.nxt \in Nat /\ world.una \in Nat /\ world.rcv \in Nat
           /\ world.fin \in Nat
           /\ client.una <= client.nxt /\ world.una <= world.nxt
BY DEF HostInv, Hosts, HostOK, HostRecord

\* A step of a host keeps the segments of that host, if it only goes forward.
LEMMA UpStays ==
    ASSUME HostInv, client' \in HostRecord, up' = up,
           client.nxt <= client'.nxt, client.rcv <= client'.rcv, client.una <= client'.una,
           client'.fin = client.fin \/ (client.fin = 0 /\ client'.fin = client.nxt)
    PROVE  \A p \in up' : SentBy(p, client', ClientISN, WorldISN)
<1>1. client \in HostRecord
  BY HostTypes
<1>2. ASSUME NEW p \in up PROVE SentBy(p, client', ClientISN, WorldISN)
  <2>1. SentBy(p, client, ClientISN, WorldISN)
    BY DEF HostInv, Segments
  <2> QED
    BY <1>1, <2>1, SentStays
<1> QED
  BY <1>2

LEMMA DownStays ==
    ASSUME HostInv, world' \in HostRecord, down' = down,
           world.nxt <= world'.nxt, world.rcv <= world'.rcv, world.una <= world'.una,
           world'.fin = world.fin \/ (world.fin = 0 /\ world'.fin = world.nxt)
    PROVE  \A p \in down' : SentBy(p, world', WorldISN, ClientISN) /\ p.rcv > 0
<1>1. world \in HostRecord
  BY HostTypes
<1>2. ASSUME NEW p \in down PROVE SentBy(p, world', WorldISN, ClientISN) /\ p.rcv > 0
  <2>1. SentBy(p, world, WorldISN, ClientISN) /\ p.rcv > 0
    BY DEF HostInv, Segments
  <2> QED
    BY <1>1, <2>1, SentStays
<1> QED
  BY <1>2

\* What the application does.
LEMMA ClientWritesHosts ==
    ASSUME HostInv, ClientWrites
    PROVE  /\ HostInv'
           /\ client'.nxt = client.nxt + 1 /\ client'.una = client.una
           /\ client'.rcv = client.rcv
           /\ client.fin = 0 /\ client'.fin \in {0, client.nxt}
<1>1. client' = Write(client) \/ client' = Close(client)
  BY DEF ClientWrites
<1>2. /\ client' \in HostRecord
      /\ client'.nxt = client.nxt + 1 /\ client'.una = client.una
      /\ client'.rcv = client.rcv
      /\ client.fin = 0 /\ client'.fin \in {0, client.nxt}
  BY <1>1, HostTypes, WriteFacts DEF ClientWrites, Writable
<1>3. \/ client'.fin = 0 /\ client.nxt <= ClientData
      \/ client'.fin = client.nxt
  BY <1>2, HostTypes, WriteFacts DEF ClientWrites
<1>4. Hosts'
  BY <1>2, <1>3, HostTypes, TrackingAssumption
     DEF HostInv, Hosts, HostOK, HostRecord, ClientWrites
<1>5. Segments'
  BY <1>2, HostTypes, UpStays DEF HostInv, Segments, ClientWrites
<1>6. session' = session
  BY DEF ClientWrites
<1> QED
  BY <1>2, <1>4, <1>5, <1>6 DEF HostInv

LEMMA WorldWritesHosts ==
    ASSUME HostInv, WorldWrites
    PROVE  /\ HostInv'
           /\ world'.nxt = world.nxt + 1 /\ world'.una = world.una
           /\ world'.rcv = world.rcv
           /\ world.fin = 0 /\ world'.fin \in {0, world.nxt}
<1>1. world' = Write(world) \/ world' = Close(world)
  BY DEF WorldWrites
<1>2. /\ world' \in HostRecord
      /\ world'.nxt = world.nxt + 1 /\ world'.una = world.una
      /\ world'.rcv = world.rcv
      /\ world.fin = 0 /\ world'.fin \in {0, world.nxt}
  BY <1>1, HostTypes, WriteFacts DEF WorldWrites, Writable
<1>3. \/ world'.fin = 0 /\ world.nxt <= WorldData
      \/ world'.fin = world.nxt
  BY <1>2, HostTypes, WriteFacts DEF WorldWrites
<1>4. world.nxt > 0
  BY HostTypes DEF WorldWrites, Writable, Open
<1>5. Hosts'
  BY <1>2, <1>3, <1>4, HostTypes, TrackingAssumption
     DEF HostInv, Hosts, HostOK, HostRecord, WorldWrites
<1>6. Segments'
  BY <1>2, HostTypes, DownStays DEF HostInv, Segments, WorldWrites
<1>7. session' = session
  BY DEF WorldWrites
<1> QED
  BY <1>2, <1>5, <1>6, <1>7 DEF HostInv

\* What the hosts send.
LEMMA ClientSendsHosts ==
    ASSUME HostInv, ClientSends
    PROVE  HostInv'
<1>1. PICK m \in MaySend(client) :
         up' = up \cup {Segment(client, ClientISN, WorldISN, m[1], m[2])}
  BY DEF ClientSends
<1>2. SentBy(Segment(client, ClientISN, WorldISN, m[1], m[2]), client, ClientISN, WorldISN)
  <2>1. /\ client \in HostRecord /\ ClientISN \in Nat /\ WorldISN \in Nat
        /\ client.nxt > 0 /\ client.una <= client.nxt
        /\ client.una > 0 => client.rcv > 0
        /\ client.fin # 0 => client.nxt = client.fin + 1
    BY HostTypes, TrackingAssumption DEF HostInv, Hosts, HostOK
  <2> QED
    BY <2>1, SegmentSent
<1>3. Segments'
  BY <1>1, <1>2 DEF HostInv, Segments, ClientSends
<1>4. Hosts'
  BY DEF HostInv, Hosts, ClientSends
<1> QED
  BY <1>3, <1>4 DEF HostInv, ClientSends

LEMMA WorldSendsHosts ==
    ASSUME HostInv, WorldSends
    PROVE  HostInv'
<1>1. PICK m \in MaySend(world) :
         down' = down \cup {Segment(world, WorldISN, ClientISN, m[1], m[2])}
  BY DEF WorldSends
<1>2. /\ world.una > 0 => world.rcv > 0
      /\ world.rcv > 0
  BY HostTypes DEF HostInv, Hosts, WorldSends
<1>3. /\ SentBy(Segment(world, WorldISN, ClientISN, m[1], m[2]), world, WorldISN, ClientISN)
      /\ Segment(world, WorldISN, ClientISN, m[1], m[2]).rcv = world.rcv
  <2>1. /\ world \in HostRecord /\ WorldISN \in Nat /\ ClientISN \in Nat
        /\ world.nxt > 0 /\ world.una <= world.nxt
        /\ world.una > 0 => world.rcv > 0
        /\ world.fin # 0 => world.nxt = world.fin + 1
    BY <1>2, HostTypes, TrackingAssumption DEF HostInv, Hosts, HostOK, WorldSends
  <2> QED
    BY <2>1, SegmentSent
<1>4. Segments'
  BY <1>1, <1>2, <1>3 DEF HostInv, Segments, WorldSends
<1>5. Hosts'
  BY DEF HostInv, Hosts, WorldSends
<1> QED
  BY <1>4, <1>5 DEF HostInv, WorldSends

\* What the hosts receive.
LEMMA ClientReceivesHosts ==
    ASSUME HostInv, NEW p \in returned, client' = Take(client, p), ClientReceives
    PROVE  /\ HostInv'
           /\ client'.nxt = client.nxt /\ client'.fin = client.fin
           /\ client'.una = client.una \/ client'.una = p.rcv
           /\ \/ client'.rcv = client.rcv
              \/ client'.rcv = p.pos + p.len /\ p.len > 0
           /\ client.rcv <= client'.rcv
<1>1. p \in down /\ SentBy(p, world, WorldISN, ClientISN) /\ p.rcv > 0
  BY DEF HostInv, Segments
<1>2. /\ client' \in HostRecord
      /\ client'.nxt = client.nxt /\ client'.fin = client.fin
      /\ \/ client'.una = client.una /\ p.rcv <= client.una
         \/ client'.una = p.rcv /\ p.rcv > client.una
      /\ \/ client'.rcv = client.rcv /\ ~ (p.pos <= client.rcv /\ p.pos + p.len > client.rcv)
         \/ client'.rcv = p.pos + p.len /\ p.pos <= client.rcv /\ p.pos + p.len > client.rcv
  BY <1>1, HostTypes, TakeFacts DEF SentBy
<1>3. /\ client.una <= client'.una /\ client.rcv <= client'.rcv
      /\ client'.una <= world.rcv /\ client'.rcv <= world.nxt
      /\ client'.rcv = client.rcv \/ p.len > 0
  BY <1>1, <1>2, HostTypes DEF HostInv, Hosts, SentBy
<1>4. client'.una > 0 => client'.rcv > 0
  <2>1. CASE client.rcv > 0
    BY <1>2, <1>3, <2>1, HostTypes DEF HostRecord
  <2>2. CASE client.rcv = 0
    <3>1. world.una = 0
      BY <2>2, HostTypes DEF HostInv, Hosts
    <3>2. p.pos = 0 /\ p.len = 1
      BY <1>1, <3>1 DEF SentBy
    <3> QED
      BY <1>2, <2>2, <3>2
  <2> QED
    BY <2>1, <2>2, HostTypes
<1>5. Hosts'
  BY <1>2, <1>3, <1>4, HostTypes DEF HostInv, Hosts, HostOK, HostRecord, ClientReceives
<1>6. Segments'
  BY <1>2, <1>3, HostTypes, UpStays DEF HostInv, Segments, ClientReceives
<1>7. session' = session
  BY DEF ClientReceives
<1> QED
  BY <1>2, <1>3, <1>5, <1>6, <1>7 DEF HostInv

LEMMA WorldReceivesHosts ==
    ASSUME HostInv, NEW p \in forwarded, WorldReceives,
           world' = LET h == Take(world, p)
                    IN  IF h.nxt = 0 /\ p.syn THEN [h EXCEPT !.nxt = 1] ELSE h
    PROVE  /\ HostInv'
           /\ world.nxt <= world'.nxt /\ world'.fin = world.fin
           /\ world'.una = world.una \/ world'.una = p.rcv
           /\ \/ world'.rcv = world.rcv
              \/ world'.rcv = p.pos + p.len /\ p.len > 0
           /\ world.rcv <= world'.rcv
<1> DEFINE h == Take(world, p)
<1>1. p \in up /\ SentBy(p, client, ClientISN, WorldISN)
  BY DEF HostInv, Segments
<1>2. /\ h \in HostRecord
      /\ h.nxt = world.nxt /\ h.fin = world.fin
      /\ \/ h.una = world.una /\ p.rcv <= world.una
         \/ h.una = p.rcv /\ p.rcv > world.una
      /\ \/ h.rcv = world.rcv /\ ~ (p.pos <= world.rcv /\ p.pos + p.len > world.rcv)
         \/ h.rcv = p.pos + p.len /\ p.pos <= world.rcv /\ p.pos + p.len > world.rcv
  BY <1>1, HostTypes, TakeFacts DEF SentBy
<1> HIDE DEF h
<1>3. /\ world' \in HostRecord /\ world'.fin = world.fin
      /\ world'.una = h.una /\ world'.rcv = h.rcv
      /\ \/ world'.nxt = world.nxt
         \/ world'.nxt = 1 /\ world.nxt = 0 /\ p.syn
  <2>1. world' = IF h.nxt = 0 /\ p.syn THEN [h EXCEPT !.nxt = 1] ELSE h
    BY DEF h
  <2> QED
    BY <1>2, <2>1 DEF HostRecord
<1>4. /\ world.una <= world'.una /\ world.rcv <= world'.rcv
      /\ world'.una <= client.rcv /\ world'.rcv <= client.nxt
      /\ world'.rcv = world.rcv \/ p.len > 0
      /\ world.nxt <= world'.nxt
  BY <1>1, <1>2, <1>3, HostTypes DEF HostInv, Hosts, SentBy
<1>5. world'.nxt > 0 => world'.rcv > 0
  <2>1. CASE world.rcv > 0
    BY <1>3, <1>4, <2>1, HostTypes DEF HostRecord
  <2>2. CASE world.rcv = 0
    <3>1. world.nxt = 0
      BY <2>2, HostTypes DEF HostInv, Hosts
    <3>2. p.syn => p.pos = 0 /\ p.len = 1
      BY <1>1 DEF SentBy
    <3> QED
      BY <1>2, <1>3, <2>2, <3>1, <3>2
  <2> QED
    BY <2>1, <2>2, HostTypes
<1>6. world.nxt = 0 => world.fin = 0
  BY HostTypes DEF HostInv, Hosts, HostOK
<1>7. Hosts'
  <2>1. HostOK(world', WorldData)
    <3>1. /\ world.nxt \in Nat /\ world.fin \in Nat /\ WorldData \in Nat
          /\ world.nxt <= WorldData + 2
          /\ world.fin = 0 => world.nxt <= WorldData + 1
          /\ world.fin # 0 => world.nxt = world.fin + 1
      BY HostTypes, TrackingAssumption DEF HostInv, Hosts, HostOK
    <3>2. /\ world'.nxt <= WorldData + 2
          /\ world.fin = 0 => world'.nxt <= WorldData + 1
          /\ world.fin # 0 => world'.nxt = world.fin + 1
      BY <1>3, <1>6, <3>1
    <3> QED
      BY <1>3, <3>2 DEF HostOK, HostRecord
  <2>2. client.una > 0 => client.rcv > 0
    BY DEF HostInv, Hosts
  <2>3. /\ world.rcv \in Nat /\ world'.rcv \in Nat /\ world'.nxt \in Nat
        /\ client.una <= world.rcv /\ client.rcv <= world.nxt
    BY <1>3, HostTypes DEF HostInv, Hosts, HostRecord
  <2>4. client.una <= world'.rcv /\ client.rcv <= world'.nxt
    BY <1>4, <2>3, HostTypes
  <2> QED
    BY <1>4, <1>5, <2>1, <2>2, <2>4 DEF HostInv, Hosts, WorldReceives
<1>8. Segments'
  BY <1>3, <1>4, HostTypes, DownStays DEF HostInv, Segments, WorldReceives
<1>9. session' = session
  BY DEF WorldReceives
<1> QED
  BY <1>2, <1>3, <1>4, <1>7, <1>8, <1>9 DEF HostInv

\* What the server does with a packet leaves the hosts alone.
LEMMA ServerHosts ==
    ASSUME HostInv
    PROVE  /\ \A p \in up : handle_client_packet(p) => HostInv'
           /\ \A p \in down : handle_world_packet(p) => HostInv'
<1>1. ASSUME NEW p \in up, handle_client_packet(p) PROVE HostInv'
  <2>1. p.seq \in 0 .. U32 - 1
    BY TrackingAssumption DEF HostInv, Segments, SentBy
  <2>2. session' \in Track(0 .. U32 - 1)
    BY <1>1, <2>1, ClientFlagsFacts DEF HostInv, handle_client_packet
  <2> QED
    BY <1>1, <2>2 DEF HostInv, Hosts, Segments, handle_client_packet
<1>2. ASSUME NEW p \in down, handle_world_packet(p) PROVE HostInv'
  <2>1. p.seq \in 0 .. U32 - 1
    BY TrackingAssumption DEF HostInv, Segments, SentBy
  <2>2. session' \in Track(0 .. U32 - 1)
    BY <1>2, <2>1, WorldFlagsFacts DEF HostInv, handle_world_packet
  <2> QED
    BY <1>2, <2>2 DEF HostInv, Hosts, Segments, handle_world_packet
<1> QED
  BY <1>1, <1>2

LEMMA InitHosts == Init => HostInv
<1> SUFFICES ASSUME Init PROVE HostInv
  OBVIOUS
<1>1. session \in Track(0 .. U32 - 1)
  <2>1. 0 \in 0 .. U32 - 1 /\ 0 \in 0 .. 2
    BY TrackingAssumption
  <2> QED
    BY <2>1 DEF Init, NewTrack, Track
<1>2. client = [nxt |-> 1, una |-> 0, rcv |-> 0, fin |-> 0]
  BY DEF Init, IdleHost
<1>3. world = [nxt |-> 0, una |-> 0, rcv |-> 0, fin |-> 0]
  BY DEF Init, IdleHost
<1>4. Hosts
  BY <1>2, <1>3, TrackingAssumption DEF Hosts, HostOK
<1>5. Segments
  BY DEF Init, Segments
<1> QED
  BY <1>1, <1>4, <1>5 DEF HostInv

LEMMA NextHosts == HostInv /\ [Next]_vars => HostInv'
<1> SUFFICES ASSUME HostInv, [Next]_vars PROVE HostInv'
  OBVIOUS
<1>1. CASE ClientWrites
  BY <1>1, ClientWritesHosts
<1>2. CASE ClientSends
  BY <1>2, ClientSendsHosts
<1>3. CASE ClientReceives
  <2>1. PICK p \in returned : client' = Take(client, p)
    BY <1>3 DEF ClientReceives
  <2> QED
    BY <1>3, <2>1, ClientReceivesHosts
<1>4. CASE WorldWrites
  BY <1>4, WorldWritesHosts
<1>5. CASE WorldSends
  BY <1>5, WorldSendsHosts
<1>6. CASE WorldReceives
  <2>1. PICK p \in forwarded :
           world' = LET h == Take(world, p)
                    IN  IF h.nxt = 0 /\ p.syn THEN [h EXCEPT !.nxt = 1] ELSE h
    BY <1>6 DEF WorldReceives
  <2> QED
    BY <1>6, <2>1, WorldReceivesHosts
<1>7. CASE \E p \in up : handle_client_packet(p)
  BY <1>7, ServerHosts
<1>8. CASE \E p \in down : handle_world_packet(p)
  BY <1>8, ServerHosts
<1>9. CASE UNCHANGED vars
  BY <1>9 DEF vars, HostInv, Hosts, Segments
<1> QED
  BY <1>1, <1>2, <1>3, <1>4, <1>5, <1>6, <1>7, <1>8, <1>9 DEF Next

LEMMA SpecHostInv == Spec => []HostInv
BY InitHosts, NextHosts, PTL DEF Spec

-----------------------------------------------------------------------------
(* The session                                                             *)

\* Without a wrap numbers are positions, shifted.
LEMMA Numbers ==
    ASSUME HostInv, Plain
    PROVE  /\ \A p \in up :
                 /\ p.seq = ClientISN + p.pos
                 /\ p.rcv > 0 => p.ack_seq = WorldISN + p.rcv
           /\ \A p \in down :
                 /\ p.seq = WorldISN + p.pos
                 /\ p.rcv > 0 => p.ack_seq = ClientISN + p.rcv
<1>1. \A n \in Nat : n < U32 => n % U32 = n
  BY TrackingAssumption
<1>2. /\ ClientISN \in Nat /\ WorldISN \in Nat /\ ClientData \in Nat /\ WorldData \in Nat
      /\ U32 \in Nat
      /\ ClientISN + ClientData + 2 < U32 /\ WorldISN + WorldData + 2 < U32
  BY TrackingAssumption DEF Plain
<1>3. /\ client.nxt \in Nat /\ world.nxt \in Nat /\ client.rcv \in Nat /\ world.rcv \in Nat
      /\ client.nxt <= ClientData + 2 /\ world.nxt <= WorldData + 2
      /\ client.rcv <= world.nxt /\ world.rcv <= client.nxt
  BY HostTypes DEF HostInv, Hosts, HostOK
<1>4. ASSUME NEW p \in up
      PROVE  /\ p.seq = ClientISN + p.pos
             /\ p.rcv > 0 => p.ack_seq = WorldISN + p.rcv
  <2>1. /\ p.pos \in Nat /\ p.rcv \in Nat /\ p.len \in Nat
        /\ p.pos + p.len <= client.nxt /\ p.rcv <= client.rcv
        /\ p.seq = (ClientISN + p.pos) % U32
        /\ p.rcv > 0 => p.ack_seq = (WorldISN + p.rcv) % U32
    BY DEF HostInv, Segments, SentBy
  <2>2. p.pos <= ClientData + 2 /\ p.rcv <= WorldData + 2
    BY <1>2, <1>3, <2>1
  <2>3. /\ ClientISN + p.pos \in Nat /\ ClientISN + p.pos < U32
        /\ WorldISN + p.rcv \in Nat /\ WorldISN + p.rcv < U32
    BY <1>2, <2>1, <2>2
  <2> QED
    BY <1>1, <2>1, <2>3
<1>5. ASSUME NEW p \in down
      PROVE  /\ p.seq = WorldISN + p.pos
             /\ p.rcv > 0 => p.ack_seq = ClientISN + p.rcv
  <2>1. /\ p.pos \in Nat /\ p.rcv \in Nat /\ p.len \in Nat
        /\ p.pos + p.len <= world.nxt /\ p.rcv <= world.rcv
        /\ p.seq = (WorldISN + p.pos) % U32
        /\ p.rcv > 0 => p.ack_seq = (ClientISN + p.rcv) % U32
    BY DEF HostInv, Segments, SentBy
  <2>2. p.pos <= WorldData + 2 /\ p.rcv <= ClientData + 2
    BY <1>2, <1>3, <2>1
  <2>3. /\ WorldISN + p.pos \in Nat /\ WorldISN + p.pos < U32
        /\ ClientISN + p.rcv \in Nat /\ ClientISN + p.rcv < U32
    BY <1>2, <2>1, <2>2
  <2> QED
    BY <1>1, <2>1, <2>3
<1> QED
  BY <1>4, <1>5

LEMMA SessionTypes ==
    ASSUME HostInv
    PROVE  /\ session.syn_state \in {0, 2, 3}
           /\ session.client_fin_state \in 0 .. 2 /\ session.server_fin_state \in 0 .. 2
           /\ session.client_last_state_seq \in Nat /\ session.server_last_state_seq \in Nat
BY TrackingAssumption DEF HostInv, Track

\* The application of the client writes or closes: nothing that was sent
\* before acknowledges a FIN that did not exist.
LEMMA ClientWritesTracked ==
    ASSUME TrackInv, ClientWrites
    PROVE  TrackInv'
<1>1. HostInv
  BY DEF TrackInv
<1>2. /\ HostInv'
      /\ client'.nxt = client.nxt + 1 /\ client'.una = client.una
      /\ client'.rcv = client.rcv
      /\ client.fin = 0 /\ client'.fin \in {0, client.nxt}
  BY <1>1, ClientWritesHosts
<1>3. UNCHANGED <<session, world, up, forwarded, down, returned>>
  BY DEF ClientWrites
<1>4. SynTracked'
  BY <1>2, <1>3 DEF TrackInv, SynTracked
<1>5. ClientFinTracked'
  <2>1. session.server_fin_state = 0 /\ \A p \in forwarded : ~ p.fin
    BY <1>2 DEF TrackInv, ClientFinTracked, FinTracked
  <2>2. world.rcv <= client.nxt /\ client.una <= client.nxt
    BY <1>1, HostTypes DEF HostInv, Hosts
  <2>3. \A p \in returned : p.rcv \in Nat /\ p.rcv <= client.nxt
    BY <1>1, <2>2, HostTypes DEF HostInv, Segments, SentBy
  <2> QED
    BY <1>1, <1>2, <1>3, <2>1, <2>2, <2>3, HostTypes DEF ClientFinTracked, FinTracked
<1>6. WorldFinTracked'
  BY <1>2, <1>3 DEF TrackInv, WorldFinTracked, FinTracked
<1> QED
  BY <1>2, <1>4, <1>5, <1>6 DEF TrackInv

LEMMA WorldWritesTracked ==
    ASSUME TrackInv, WorldWrites
    PROVE  TrackInv'
<1>1. HostInv
  BY DEF TrackInv
<1>2. /\ HostInv'
      /\ world'.nxt = world.nxt + 1 /\ world'.una = world.una
      /\ world'.rcv = world.rcv
      /\ world.fin = 0 /\ world'.fin \in {0, world.nxt}
  BY <1>1, WorldWritesHosts
<1>3. UNCHANGED <<session, client, up, forwarded, down, returned>>
  BY DEF WorldWrites
<1>4. SynTracked'
  BY <1>2, <1>3 DEF TrackInv, SynTracked
<1>5. WorldFinTracked'
  <2>1. session.client_fin_state = 0 /\ \A p \in returned : ~ p.fin
    BY <1>2 DEF TrackInv, WorldFinTracked, FinTracked
  <2>2. client.rcv <= world.nxt /\ world.una <= world.nxt
    BY <1>1, HostTypes DEF HostInv, Hosts
  <2>3. \A p \in forwarded : p.rcv \in Nat /\ p.rcv <= world.nxt
    BY <1>1, <2>2, HostTypes DEF HostInv, Segments, SentBy
  <2> QED
    BY <1>1, <1>2, <1>3, <2>1, <2>2, <2>3, HostTypes DEF WorldFinTracked, FinTracked
<1>6. ClientFinTracked'
  BY <1>2, <1>3 DEF TrackInv, ClientFinTracked, FinTracked
<1> QED
  BY <1>2, <1>4, <1>5, <1>6 DEF TrackInv

\* A host receives: what it learns, the server passed on and recorded.
LEMMA ClientReceivesTracked ==
    ASSUME TrackInv, ClientReceives
    PROVE  TrackInv'
<1>1. HostInv
  BY DEF TrackInv
<1>2. PICK p \in returned : client' = Take(client, p)
  BY DEF ClientReceives
<1>3. /\ HostInv'
      /\ client'.nxt = client.nxt /\ client'.fin = client.fin
      /\ client'.una = client.una \/ client'.una = p.rcv
      /\ \/ client'.rcv = client.rcv
         \/ client'.rcv = p.pos + p.len /\ p.len > 0
      /\ client.rcv <= client'.rcv
  BY <1>1, <1>2, ClientReceivesHosts
<1>4. UNCHANGED <<session, world, up, forwarded, down, returned>>
  BY DEF ClientReceives
<1>5. client'.rcv \in Nat
  BY <1>3 DEF HostInv, Hosts, HostOK
<1>6. SynTracked'
  <2>1. session.syn_state # 0
    BY <1>2 DEF TrackInv, SynTracked
  <2>2. session.syn_state = 3 => client'.rcv > 0
    BY <1>1, <1>3, <1>5, HostTypes DEF TrackInv, SynTracked
  <2> QED
    BY <1>4, <2>1, <2>2 DEF TrackInv, SynTracked
<1>7. ClientFinTracked'
  BY <1>2, <1>3, <1>4 DEF TrackInv, ClientFinTracked, FinTracked
<1>8. WorldFinTracked'
  <2>1. world.fin # 0 /\ client'.rcv > world.fin => session.client_fin_state # 0
    <3>1. CASE client'.rcv = client.rcv
      BY <3>1 DEF TrackInv, WorldFinTracked, FinTracked
    <3>2. CASE client'.rcv = p.pos + p.len /\ p.len > 0
      <4>1. SentBy(p, world, WorldISN, ClientISN)
        BY <1>1 DEF HostInv, Segments
      <4>2. world.fin # 0 => world.nxt = world.fin + 1
        BY <1>1 DEF HostInv, Hosts, HostOK
      <4>3. world.fin # 0 /\ client'.rcv > world.fin => p.fin
        BY <1>1, <3>2, <4>1, <4>2, HostTypes DEF SentBy
      <4> QED
        BY <1>2, <4>3 DEF TrackInv, WorldFinTracked, FinTracked
    <3> QED
      BY <1>3, <3>1, <3>2
  <2>2. session.client_fin_state = 2 => client'.rcv > world.fin
    <3>1. session.client_fin_state = 2 => client.rcv > world.fin
      BY DEF TrackInv, WorldFinTracked, FinTracked
    <3> QED
      BY <1>1, <1>3, <1>5, <3>1, HostTypes
  <2> QED
    BY <1>4, <2>1, <2>2 DEF TrackInv, WorldFinTracked, FinTracked
<1> QED
  BY <1>3, <1>6, <1>7, <1>8 DEF TrackInv

LEMMA WorldReceivesTracked ==
    ASSUME TrackInv, WorldReceives
    PROVE  TrackInv'
<1>1. HostInv
  BY DEF TrackInv
<1>2. PICK p \in forwarded :
         world' = LET h == Take(world, p)
                  IN  IF h.nxt = 0 /\ p.syn THEN [h EXCEPT !.nxt = 1] ELSE h
  BY DEF WorldReceives
<1>3. /\ HostInv'
      /\ world.nxt <= world'.nxt /\ world'.fin = world.fin
      /\ world'.una = world.una \/ world'.una = p.rcv
      /\ \/ world'.rcv = world.rcv
         \/ world'.rcv = p.pos + p.len /\ p.len > 0
      /\ world.rcv <= world'.rcv
  BY <1>1, <1>2, WorldReceivesHosts
<1>4. UNCHANGED <<session, client, up, forwarded, down, returned>>
  BY DEF WorldReceives
<1>5. world'.rcv \in Nat
  BY <1>3 DEF HostInv, Hosts, HostOK
<1>6. SynTracked'
  <2>1. world'.una > 0 => session.syn_state = 3
    BY <1>2, <1>3 DEF TrackInv, SynTracked
  <2> QED
    BY <1>4, <2>1 DEF TrackInv, SynTracked
<1>7. WorldFinTracked'
  BY <1>2, <1>3, <1>4 DEF TrackInv, WorldFinTracked, FinTracked
<1>8. ClientFinTracked'
  <2>1. client.fin # 0 /\ world'.rcv > client.fin => session.server_fin_state # 0
    <3>1. CASE world'.rcv = world.rcv
      BY <3>1 DEF TrackInv, ClientFinTracked, FinTracked
    <3>2. CASE world'.rcv = p.pos + p.len /\ p.len > 0
      <4>1. SentBy(p, client, ClientISN, WorldISN)
        BY <1>1 DEF HostInv, Segments
      <4>2. client.fin # 0 => client.nxt = client.fin + 1
        BY <1>1 DEF HostInv, Hosts, HostOK
      <4>3. client.fin # 0 /\ world'.rcv > client.fin => p.fin
        BY <1>1, <3>2, <4>1, <4>2, HostTypes DEF SentBy
      <4> QED
        BY <1>2, <4>3 DEF TrackInv, ClientFinTracked, FinTracked
    <3> QED
      BY <1>3, <3>1, <3>2
  <2>2. session.server_fin_state = 2 => world'.rcv > client.fin
    <3>1. session.server_fin_state = 2 => world.rcv > client.fin
      BY DEF TrackInv, ClientFinTracked, FinTracked
    <3> QED
      BY <1>1, <1>3, <1>5, <3>1, HostTypes
  <2> QED
    BY <1>4, <2>1, <2>2 DEF TrackInv, ClientFinTracked, FinTracked
<1> QED
  BY <1>3, <1>6, <1>7, <1>8 DEF TrackInv

\* The facts about a segment of the client that its handling depends on.
LEMMA FromClient ==
    ASSUME TrackInv, Plain, NEW p \in up
    PROVE  /\ p.seq \in 0 .. U32 - 1
           /\ session.syn_state = 0 => p.syn /\ p.seq = ClientISN /\ p.rcv = 0
           /\ p.rcv > 0 => client.rcv > 0
           /\ Acks(p, session.server_last_state_seq) => p.rcv > 0
           /\ session.syn_state = 2 /\ p.rcv > 0 => Acks(p, session.server_last_state_seq)
           /\ p.fin => ~ p.syn /\ client.fin # 0 /\ p.seq = ClientISN + client.fin
           /\ world.fin # 0 /\ p.rcv > world.fin => client.rcv > world.fin
           /\ session.client_fin_state # 0 =>
                 (Acks(p, session.server_last_state_seq) <=> p.rcv > world.fin)
<1>1. HostInv
  BY DEF TrackInv
<1>2. SentBy(p, client, ClientISN, WorldISN)
  BY <1>1 DEF HostInv, Segments
<1>3. /\ p.seq = ClientISN + p.pos
      /\ p.rcv > 0 => p.ack_seq = WorldISN + p.rcv
  BY <1>1, Numbers
<1>4. /\ ClientISN \in Nat /\ WorldISN \in Nat
      /\ p.pos \in Nat /\ p.rcv \in Nat /\ p.len \in Nat
      /\ client.rcv \in Nat /\ client.fin \in Nat /\ world.fin \in Nat
      /\ p.rcv <= client.rcv
      /\ p.ack <=> p.rcv > 0
      /\ p.syn <=> p.pos = 0
  BY <1>1, <1>2, HostTypes, TrackingAssumption DEF SentBy
<1>5. p.seq \in 0 .. U32 - 1
  BY <1>2, TrackingAssumption DEF SentBy
<1>6. session.syn_state = 0 => p.syn /\ p.seq = ClientISN /\ p.rcv = 0
  <2>1. session.syn_state = 0 => client.rcv = 0
    BY <1>4 DEF TrackInv, SynTracked
  <2>2. client.rcv = 0 => client.una = 0
    BY <1>1, HostTypes DEF HostInv, Hosts
  <2>3. client.una = 0 => p.pos = 0
    BY <1>2 DEF SentBy
  <2> QED
    BY <1>3, <1>4, <2>1, <2>2, <2>3
<1>7. p.fin => ~ p.syn /\ client.fin # 0 /\ p.seq = ClientISN + client.fin
  <2>1. p.len <= 1
    BY <1>2 DEF SentBy, Plain
  <2>2. p.fin => client.fin # 0 /\ p.len > 0 /\ p.pos + p.len = client.fin + 1
    BY <1>2 DEF SentBy
  <2> QED
    BY <1>3, <1>4, <2>1, <2>2
<1>8. session.syn_state = 2 => session.server_last_state_seq = WorldISN
  BY DEF TrackInv, SynTracked
<1>9. session.client_fin_state # 0 =>
         world.fin # 0 /\ session.server_last_state_seq = WorldISN + world.fin
  BY DEF TrackInv, WorldFinTracked, FinTracked
<1>10. Acks(p, session.server_last_state_seq)
          <=> p.rcv > 0 /\ WorldISN + p.rcv > session.server_last_state_seq
  BY <1>3, <1>4 DEF Acks
<1>11. session.syn_state = 2 /\ p.rcv > 0 => Acks(p, session.server_last_state_seq)
  BY <1>4, <1>8, <1>10
<1>12. session.client_fin_state # 0 =>
          (Acks(p, session.server_last_state_seq) <=> p.rcv > world.fin)
  BY <1>4, <1>9, <1>10
<1> QED
  BY <1>4, <1>5, <1>6, <1>7, <1>10, <1>11, <1>12

\* handle_client_packet keeps the session in step with the hosts.
LEMMA ClientPacketTracked ==
    ASSUME TrackInv, Plain, NEW p \in up, handle_client_packet(p)
    PROVE  TrackInv'
<1> DEFINE opens == p.syn /\ session.syn_state = 0
           acks == Acks(p, session.server_last_state_seq)
           closes == ~ opens /\ p.fin /\ session.server_fin_state = 0
<1>1. HostInv /\ HostInv'
  BY ServerHosts DEF TrackInv
<1>2. /\ p.seq \in 0 .. U32 - 1
      /\ session.syn_state = 0 => p.syn /\ p.seq = ClientISN /\ p.rcv = 0
      /\ p.rcv > 0 => client.rcv > 0
      /\ acks => p.rcv > 0
      /\ session.syn_state = 2 /\ p.rcv > 0 => acks
      /\ p.fin => ~ p.syn /\ client.fin # 0 /\ p.seq = ClientISN + client.fin
      /\ world.fin # 0 /\ p.rcv > world.fin => client.rcv > world.fin
      /\ session.client_fin_state # 0 => (acks <=> p.rcv > world.fin)
  BY FromClient
<1>3. /\ UNCHANGED <<client, world, up, down, returned>>
      /\ forwarded' = forwarded \cup {p}
      /\ session' = ClientFlags(session, p)
  BY DEF handle_client_packet
<1>4. /\ session'.syn_state = IF ~ opens /\ acks /\ session.syn_state = 2
                              THEN 3 ELSE session.syn_state
      /\ session'.client_fin_state =
            IF ~ opens /\ acks /\ session.syn_state # 2 /\ session.client_fin_state = 1
            THEN 2 ELSE session.client_fin_state
      /\ session'.server_fin_state = IF closes THEN 1 ELSE session.server_fin_state
      /\ session'.client_last_state_seq = IF opens \/ closes THEN p.seq
                                          ELSE session.client_last_state_seq
      /\ session'.server_last_state_seq = session.server_last_state_seq
  <2>1. session \in Track(0 .. U32 - 1)
    BY <1>1 DEF HostInv
  <2>2. ClientHandled(session, p, session')
    BY <1>2, <1>3, <2>1, ClientFlagsFacts
  <2> QED
    BY <2>2 DEF ClientHandled
<1>5. /\ session.syn_state \in {0, 2, 3}
      /\ session.client_fin_state \in {0, 1, 2} /\ session.server_fin_state \in {0, 1, 2}
  BY <1>1, SessionTypes
<1> HIDE DEF acks
<1>6. SynTracked'
  <2>1. session'.syn_state = 0 => session.syn_state = 0 /\ opens
    BY <1>2, <1>4
  <2>2. session.syn_state = 0 =>
           session.client_fin_state = 0 /\ session.server_fin_state = 0
    BY DEF TrackInv, SynTracked
  <2>3. session'.syn_state = 0 =>
           /\ session'.client_last_state_seq \in {0, ClientISN}
           /\ session'.client_fin_state = 0 /\ session'.server_fin_state = 0
    BY <1>2, <1>4, <2>1, <2>2
  <2>4. session'.syn_state = 2 =>
           session'.server_last_state_seq = WorldISN /\ session'.client_fin_state = 0
    BY <1>4 DEF TrackInv, SynTracked
  <2>5. p.rcv > 0 => session'.syn_state = 3
    BY <1>2, <1>4, <1>5
  <2>6. session.syn_state = 3 => session'.syn_state = 3
    BY <1>4
  <2>7. session'.syn_state = 3 => client.rcv > 0
    BY <1>2, <1>4 DEF TrackInv, SynTracked
  <2>8. session.syn_state # 0 => session'.syn_state # 0
    BY <1>4
  <2> QED
    BY <1>3, <2>3, <2>4, <2>5, <2>6, <2>7, <2>8 DEF TrackInv, SynTracked
<1>7. ClientFinTracked'
  <2>1. session.server_fin_state # 0 => ~ opens
    BY DEF TrackInv, SynTracked
  <2>2. session'.server_fin_state # 0 =>
           client.fin # 0 /\ session'.client_last_state_seq = ClientISN + client.fin
    BY <1>2, <1>4, <2>1 DEF TrackInv, ClientFinTracked, FinTracked
  <2>3. session.server_fin_state # 0 =>
           session'.server_fin_state = session.server_fin_state
    BY <1>4
  <2>4. p.fin => session'.server_fin_state # 0
    BY <1>2, <1>4
  <2>5. session'.server_fin_state = 2 => session.server_fin_state = 2
    BY <1>4
  <2> QED
    BY <1>3, <2>2, <2>3, <2>4, <2>5 DEF TrackInv, ClientFinTracked, FinTracked
<1>8. WorldFinTracked'
  <2>1. session.client_fin_state # 0 => ~ opens /\ session.syn_state # 2
    BY DEF TrackInv, SynTracked
  <2>2. session'.client_fin_state # 0 <=> session.client_fin_state # 0
    BY <1>4
  <2>3. session.client_fin_state = 2 => session'.client_fin_state = 2
    BY <1>4
  <2>4. world.fin # 0 /\ p.rcv > world.fin => session'.client_fin_state = 2
    <3>1. world.fin # 0 /\ p.rcv > world.fin => session.client_fin_state # 0
      BY <1>2 DEF TrackInv, WorldFinTracked, FinTracked
    <3> QED
      BY <1>2, <1>4, <1>5, <2>1, <3>1
  <2>5. session'.client_fin_state = 2 => client.rcv > world.fin
    BY <1>2, <1>4, <1>5 DEF TrackInv, WorldFinTracked, FinTracked
  <2> QED
    BY <1>3, <1>4, <2>2, <2>3, <2>4, <2>5 DEF TrackInv, WorldFinTracked, FinTracked
<1> QED
  BY <1>1, <1>6, <1>7, <1>8 DEF TrackInv

\* The facts about a segment of the world that its handling depends on.
LEMMA FromWorld ==
    ASSUME TrackInv, Plain, NEW p \in down
    PROVE  /\ p.seq \in 0 .. U32 - 1
           /\ session.syn_state # 3 => p.syn /\ p.seq = WorldISN
           /\ session.syn_state = 0 => Acks(p, session.client_last_state_seq)
           /\ p.fin => world.fin # 0 /\ p.seq = WorldISN + world.fin /\ ~ p.syn
           /\ client.fin # 0 /\ p.rcv > client.fin => world.rcv > client.fin
           /\ session.server_fin_state # 0 =>
                 (Acks(p, session.client_last_state_seq) <=> p.rcv > client.fin)
<1>1. HostInv
  BY DEF TrackInv
<1>2. SentBy(p, world, WorldISN, ClientISN) /\ p.rcv > 0
  BY <1>1 DEF HostInv, Segments
<1>3. /\ p.seq = WorldISN + p.pos
      /\ p.ack_seq = ClientISN + p.rcv
  BY <1>1, <1>2, Numbers
<1>4. /\ ClientISN \in Nat /\ WorldISN \in Nat
      /\ p.pos \in Nat /\ p.rcv \in Nat /\ p.len \in Nat
      /\ world.rcv \in Nat /\ client.fin \in Nat /\ world.fin \in Nat
      /\ world.una \in Nat
      /\ p.rcv <= world.rcv
      /\ p.ack
      /\ p.syn <=> p.pos = 0
  BY <1>1, <1>2, HostTypes, TrackingAssumption DEF SentBy
<1>5. p.seq \in 0 .. U32 - 1
  BY <1>2, TrackingAssumption DEF SentBy
<1>6. session.syn_state # 3 => p.syn /\ p.seq = WorldISN
  <2>1. session.syn_state # 3 => world.una = 0
    BY <1>4 DEF TrackInv, SynTracked
  <2>2. world.una = 0 => p.pos = 0
    BY <1>2 DEF SentBy
  <2> QED
    BY <1>3, <1>4, <2>1, <2>2
<1>7. p.fin => world.fin # 0 /\ p.seq = WorldISN + world.fin /\ ~ p.syn
  <2>1. p.len <= 1
    BY <1>2 DEF SentBy, Plain
  <2>2. p.fin => world.fin # 0 /\ p.len > 0 /\ p.pos + p.len = world.fin + 1
    BY <1>2 DEF SentBy
  <2> QED
    BY <1>3, <1>4, <2>1, <2>2
<1>8. Acks(p, session.client_last_state_seq)
         <=> ClientISN + p.rcv > session.client_last_state_seq
  BY <1>3, <1>4 DEF Acks
<1>9. session.syn_state = 0 => session.client_last_state_seq \in {0, ClientISN}
  BY DEF TrackInv, SynTracked
<1>10. session.server_fin_state # 0 => session.client_last_state_seq = ClientISN + client.fin
  BY DEF TrackInv, ClientFinTracked, FinTracked
<1>11. session.syn_state = 0 => Acks(p, session.client_last_state_seq)
  BY <1>2, <1>4, <1>8, <1>9
<1>12. session.server_fin_state # 0 =>
          (Acks(p, session.client_last_state_seq) <=> p.rcv > client.fin)
  BY <1>4, <1>8, <1>10
<1> QED
  BY <1>4, <1>5, <1>6, <1>7, <1>11, <1>12

\* handle_world_packet keeps the session in step with the hosts.
LEMMA WorldPacketTracked ==
    ASSUME TrackInv, Plain, NEW p \in down, handle_world_packet(p)
    PROVE  TrackInv'
<1> DEFINE acks == Acks(p, session.client_last_state_seq)
           opens == p.syn /\ session.syn_state = 0 /\ acks
           closes == ~ opens /\ p.fin /\ session.client_fin_state = 0
<1>1. HostInv /\ HostInv'
  BY ServerHosts DEF TrackInv
<1>2. /\ p.seq \in 0 .. U32 - 1
      /\ session.syn_state # 3 => p.syn /\ p.seq = WorldISN
      /\ session.syn_state = 0 => acks
      /\ p.fin => world.fin # 0 /\ p.seq = WorldISN + world.fin /\ ~ p.syn
      /\ client.fin # 0 /\ p.rcv > client.fin => world.rcv > client.fin
      /\ session.server_fin_state # 0 => (acks <=> p.rcv > client.fin)
  BY FromWorld
<1>3. /\ UNCHANGED <<client, world, up, forwarded, down>>
      /\ returned' = returned \cup {p}
      /\ session' = WorldFlags(session, p)
  BY DEF handle_world_packet
<1>4. /\ session'.syn_state = IF opens THEN 2 ELSE session.syn_state
      /\ session'.server_fin_state = IF ~ opens /\ acks /\ session.server_fin_state = 1
                                     THEN 2 ELSE session.server_fin_state
      /\ session'.client_fin_state = IF closes THEN 1 ELSE session.client_fin_state
      /\ session'.server_last_state_seq = IF opens \/ closes THEN p.seq
                                          ELSE session.server_last_state_seq
      /\ session'.client_last_state_seq = session.client_last_state_seq
  <2>1. session \in Track(0 .. U32 - 1)
    BY <1>1 DEF HostInv
  <2>2. WorldHandled(session, p, session')
    BY <1>2, <1>3, <2>1, WorldFlagsFacts
  <2> QED
    BY <2>2 DEF WorldHandled
<1>5. /\ session.syn_state \in {0, 2, 3}
      /\ session.client_fin_state \in {0, 1, 2} /\ session.server_fin_state \in {0, 1, 2}
  BY <1>1, SessionTypes
<1> HIDE DEF acks
<1>6. /\ session.syn_state = 0 <=> opens
      /\ opens => session.client_fin_state = 0 /\ session.server_fin_state = 0
      /\ closes => session.syn_state = 3
  BY <1>2 DEF TrackInv, SynTracked
<1>7. SynTracked'
  <2>1. session'.syn_state # 0
    BY <1>4, <1>6
  <2>2. session'.syn_state = 2 =>
           session'.server_last_state_seq = WorldISN /\ session'.client_fin_state = 0
    <3>1. CASE opens
      BY <1>2, <1>4, <1>6, <3>1
    <3>2. CASE ~ opens
      BY <1>4, <1>6, <3>2 DEF TrackInv, SynTracked
    <3> QED
      BY <3>1, <3>2
  <2>3. session'.syn_state = 3 <=> session.syn_state = 3
    BY <1>4, <1>6
  <2> QED
    BY <1>3, <2>1, <2>2, <2>3 DEF TrackInv, SynTracked
<1>8. ClientFinTracked'
  <2>1. session'.server_fin_state # 0 <=> session.server_fin_state # 0
    BY <1>4
  <2>2. session.server_fin_state = 2 => session'.server_fin_state = 2
    BY <1>4
  <2>3. client.fin # 0 /\ p.rcv > client.fin => session'.server_fin_state = 2
    <3>1. client.fin # 0 /\ p.rcv > client.fin => session.server_fin_state # 0
      BY <1>2 DEF TrackInv, ClientFinTracked, FinTracked
    <3> QED
      BY <1>2, <1>4, <1>5, <1>6, <3>1
  <2>4. session'.server_fin_state = 2 => world.rcv > client.fin
    BY <1>2, <1>4, <1>5 DEF TrackInv, ClientFinTracked, FinTracked
  <2> QED
    BY <1>3, <1>4, <2>1, <2>2, <2>3, <2>4 DEF TrackInv, ClientFinTracked, FinTracked
<1>9. WorldFinTracked'
  <2>1. session'.client_fin_state # 0 =>
           world.fin # 0 /\ session'.server_last_state_seq = WorldISN + world.fin
    BY <1>2, <1>4, <1>6 DEF TrackInv, WorldFinTracked, FinTracked
  <2>2. session.client_fin_state # 0 =>
           session'.client_fin_state = session.client_fin_state
    BY <1>4
  <2>3. p.fin => session'.client_fin_state # 0
    BY <1>2, <1>4
  <2>4. session'.client_fin_state = 2 => session.client_fin_state = 2
    BY <1>4
  <2> QED
    BY <1>3, <2>1, <2>2, <2>3, <2>4 DEF TrackInv, WorldFinTracked, FinTracked
<1> QED
  BY <1>1, <1>7, <1>8, <1>9 DEF TrackInv

LEMMA InitTracked == Init => TrackInv
<1> SUFFICES ASSUME Init PROVE TrackInv
  OBVIOUS
<1>1. HostInv
  BY InitHosts
<1>2. /\ session.syn_state = 0 /\ session.client_fin_state = 0
      /\ session.server_fin_state = 0 /\ session.client_last_state_seq = 0
  BY DEF Init, NewTrack
<1>3. /\ client.rcv = 0 /\ client.una = 0 /\ client.fin = 0
      /\ world.rcv = 0 /\ world.una = 0 /\ world.fin = 0
  BY DEF Init, IdleHost
<1>4. forwarded = {} /\ returned = {}
  BY DEF Init
<1> QED
  BY <1>1, <1>2, <1>3, <1>4 DEF TrackInv, SynTracked, ClientFinTracked, WorldFinTracked, FinTracked

LEMMA NextTracked ==
    ASSUME Plain
    PROVE  TrackInv /\ [Next]_vars => TrackInv'
<1> SUFFICES ASSUME TrackInv, [Next]_vars PROVE TrackInv'
  OBVIOUS
<1>0. HostInv
  BY DEF TrackInv
<1>1. CASE ClientWrites
  BY <1>1, ClientWritesTracked
<1>2. CASE ClientSends
  BY <1>0, <1>2, ClientSendsHosts
     DEF TrackInv, SynTracked, ClientFinTracked, WorldFinTracked, FinTracked, ClientSends
<1>3. CASE ClientReceives
  BY <1>3, ClientReceivesTracked
<1>4. CASE WorldWrites
  BY <1>4, WorldWritesTracked
<1>5. CASE WorldSends
  BY <1>0, <1>5, WorldSendsHosts
     DEF TrackInv, SynTracked, ClientFinTracked, WorldFinTracked, FinTracked, WorldSends
<1>6. CASE WorldReceives
  BY <1>6, WorldReceivesTracked
<1>7. CASE \E p \in up : handle_client_packet(p)
  BY <1>7, ClientPacketTracked
<1>8. CASE \E p \in down : handle_world_packet(p)
  BY <1>8, WorldPacketTracked
<1>9. CASE UNCHANGED vars
  <2>1. HostInv'
    BY <1>0, NextHosts
  <2> QED
    BY <1>9, <2>1
       DEF vars, TrackInv, SynTracked, ClientFinTracked, WorldFinTracked, FinTracked
<1> QED
  BY <1>1, <1>2, <1>3, <1>4, <1>5, <1>6, <1>7, <1>8, <1>9 DEF Next

LEMMA SpecTracked ==
    ASSUME Plain
    PROVE  Spec => []TrackInv
<1>1. TrackInv /\ [Next]_vars => TrackInv'
  BY NextTracked
<1> QED
  BY <1>1, InitTracked, PTL DEF Spec

-----------------------------------------------------------------------------
(* The theorems                                                            *)

\* The fields of the session are the ones of struct tcp_session, in their
\* ranges, and the hosts stay within their streams, wherever the numbers
\* start and whether or not they wrap.
THEOREM TrackingTypeCorrect == Spec => []TypeOK
<1>1. HostInv => TypeOK
  <2> SUFFICES ASSUME HostInv PROVE TypeOK
    OBVIOUS
  <2>1. /\ client.nxt \in 0 .. ClientData + 2 /\ client.una \in 0 .. ClientData + 2
        /\ client.fin \in 0 .. ClientData + 1 /\ client.rcv \in 0 .. WorldData + 2
    BY HostTypes, TrackingAssumption DEF HostInv, Hosts, HostOK
  <2>2. /\ world.nxt \in 0 .. WorldData + 2 /\ world.una \in 0 .. WorldData + 2
        /\ world.fin \in 0 .. WorldData + 1 /\ world.rcv \in 0 .. ClientData + 2
    BY HostTypes, TrackingAssumption DEF HostInv, Hosts, HostOK
  <2>3. client \in Host(ClientData, WorldData) /\ world \in Host(WorldData, ClientData)
    BY <2>1, <2>2, HostTypes DEF Host, HostRecord
  <2> QED
    BY <2>3 DEF HostInv, TypeOK
<1> QED
  BY <1>1, SpecHostInv, PTL

\* syn_state, server_fin_state and client_fin_state never say more than has
\* happened, whatever is delayed, duplicated, reordered or lost.
THEOREM NeverAheadHolds ==
    ASSUME Plain
    PROVE  Spec => []NeverAhead
<1>1. TrackInv => NeverAhead
  BY SessionTypes
     DEF TrackInv, SynTracked, ClientFinTracked, WorldFinTracked, FinTracked, NeverAhead
<1> QED
  BY <1>1, SpecTracked, PTL

\* What a host has learnt through the server, the session shows.
THEOREM NeverBehindHolds ==
    ASSUME Plain
    PROVE  Spec => []NeverBehind
<1>1. TrackInv => NeverBehind
  BY DEF TrackInv, SynTracked, ClientFinTracked, WorldFinTracked, FinTracked, NeverBehind, Open
<1> QED
  BY <1>1, SpecTracked, PTL

=============================================================================
