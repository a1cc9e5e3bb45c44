--------------------------- MODULE PacketHandler ---------------------------
(***************************************************************************)
(* What lib/packet_handler.c does with the TCP flags of a packet: the      *)
(* fields of struct tcp_session that follow the handshake and the two      *)
(* half-closes of a connection.  Both operators map the fields of a        *)
(* session and a packet to the new fields.                                 *)
(*                                                                         *)
(* A packet has the flags syn, ack and fin and the numbers seq and         *)
(* ack_seq, in host byte order.                                            *)
(***************************************************************************)
EXTENDS Naturals

\* calloc clears a new session
NewTrack == [syn_state |-> 0, client_fin_state |-> 0, server_fin_state |-> 0,
             client_last_state_seq |-> 0, server_last_state_seq |-> 0]

\* The fields when sequence numbers are taken from Seqs.
Track(Seqs) == [syn_state : {0, 2, 3}, client_fin_state : 0 .. 2,
                server_fin_state : 0 .. 2, client_last_state_seq : Seqs,
                server_last_state_seq : Seqs]

\* Mutant: a number that is only reached counts as acknowledged.
Acks_or_equal(p, last_state_seq) == p.ack /\ p.ack_seq >= last_state_seq

\* "if ack larger than this, then the state is acked": a comparison of
\* uint32_t values, not of sequence numbers
Acks(p, last_state_seq) == p.ack /\ p.ack_seq > last_state_seq

\* Mutant: every acknowledgement counts syn_state up.
ClientAck_counts_up(t, p) ==
    IF Acks(p, t.server_last_state_seq)
    THEN [t EXCEPT !.syn_state = @ + 1]
    ELSE t

\* The acknowledgement part of handle_client_packet.
ClientAck(t, p) ==
    CASE Acks(p, t.server_last_state_seq) /\ t.syn_state = 2
            -> [t EXCEPT !.syn_state = 3]
      [] /\ Acks(p, t.server_last_state_seq)
         /\ t.syn_state # 2
         /\ t.client_fin_state = 1
            -> [t EXCEPT !.client_fin_state = 2]
      [] OTHER -> t

ClientFin(t, p) ==
    IF p.fin /\ t.server_fin_state = 0
    THEN [t EXCEPT !.server_fin_state = 1, !.client_last_state_seq = p.seq]
    ELSE t

\* Mutant: the acknowledgement of a packet with FIN is ignored.
ClientFlags_ack_or_fin(t, p) ==
    CASE p.syn /\ t.syn_state = 0 -> [t EXCEPT !.client_last_state_seq = p.seq]
      [] p.fin -> ClientFin(t, p)
      [] OTHER -> ClientAck(t, p)

\* handle_client_packet, "handle tcp flags"
ClientFlags(t, p) ==
    IF p.syn /\ t.syn_state = 0
    THEN [t EXCEPT !.client_last_state_seq = p.seq]
    ELSE ClientFin(ClientAck(t, p), p)

\* The acknowledgement part of handle_world_packet.
WorldAck(t, p) ==
    IF t.server_fin_state = 1 /\ Acks(p, t.client_last_state_seq)
    THEN [t EXCEPT !.server_fin_state = 2]
    ELSE t

WorldFin(t, p) ==
    IF p.fin /\ t.client_fin_state = 0
    THEN [t EXCEPT !.client_fin_state = 1, !.server_last_state_seq = p.seq]
    ELSE t

\* Mutant: the state after the SYN-ACK of the world is 1.
WorldFlags_state_one(t, p) ==
    IF p.syn /\ t.syn_state = 0 /\ Acks(p, t.client_last_state_seq)
    THEN [t EXCEPT !.syn_state = 1, !.server_last_state_seq = p.seq]
    ELSE WorldFin(WorldAck(t, p), p)

\* handle_world_packet, "handle tcp flags"
WorldFlags(t, p) ==
    IF p.syn /\ t.syn_state = 0 /\ Acks(p, t.client_last_state_seq)
    THEN [t EXCEPT !.syn_state = 2, !.server_last_state_seq = p.seq]
    ELSE WorldFin(WorldAck(t, p), p)

=============================================================================
