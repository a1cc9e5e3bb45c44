-------------------------- MODULE ProtocolHeaders --------------------------
(***************************************************************************)
(* The rewriting of packets (lib/protocol_headers.c), byte by byte: the    *)
(* validation of the lengths, the replacement of addresses and ports with  *)
(* the checksums recalculated, and the reset packet.  The specification    *)
(* takes one packet through what a packet handler does with it.  The       *)
(* packet is read into a buffer that is larger than it and was used        *)
(* before, and the handler is told the size of the buffer only.            *)
(*                                                                         *)
(* A buffer is a sequence of bytes; byte number "off" of the C array is    *)
(* buffer[off + 1].  A 32-bit field is a sequence of four bytes.           *)
(***************************************************************************)
EXTENDS Integers, Sequences, SequencesExt

CONSTANTS
    Packets,    \* the packets that are read
    Leftovers,  \* what the buffer may hold before: an earlier packet or
                \* whatever was on the stack
    Addrs,      \* addresses put in, four bytes each
    PortNums    \* ports put in

Bytes == 0 .. 255

\* The buffer has room for the headers and for every packet.
ASSUME PacketsAssumption ==
    /\ Packets \subseteq Seq(Bytes) /\ Leftovers \subseteq Seq(Bytes)
    /\ \A left \in Leftovers : Len(left) >= 40 /\ \A p \in Packets : Len(p) <= Len(left)

ASSUME AddrsAssumption == Addrs \subseteq [1 .. 4 -> Bytes]

ASSUME PortsAssumption == \A port \in PortNums : port \in Nat /\ port < 65536

VARIABLES
    buffer,    \* s.buf
    read_len,  \* the number of bytes read into it
    orig,      \* history: the buffer as it was after the read
    phase      \* "received", or what the handler did: "src", "dst", "reset"

vars == <<buffer, read_len, orig, phase>>

IPPROTO_TCP == 6
SizeofIphdr == 20
SizeofTcphdr == 20

-----------------------------------------------------------------------------
(* Fields                                                                  *)

Byte(b, off) == b[off + 1]
Short(b, off) == 256 * Byte(b, off) + Byte(b, off + 1)        \* ntohs
Field(b, off, n) == SubSeq(b, off + 1, off + n)

\* b with the bytes of f at offset off
Put(b, off, f) ==
    [i \in DOMAIN b |-> IF i \in off + 1 .. off + Len(f) THEN f[i - off] ELSE b[i]]
PutShort(b, off, v) == Put(b, off, <<v \div 256, v % 256>>)   \* htons

ihl(b) == Byte(b, 0) % 16
tot_len(b) == Short(b, 2)
protocol(b) == Byte(b, 9)
saddr(b) == Field(b, 12, 4)
daddr(b) == Field(b, 16, 4)

\* The TCP header starts at offset t.
Tcp(b) == ihl(b) * 4
doff(b, t) == Byte(b, t + 12) \div 16

\* Mutant: only the last byte is increased.
PlusOne_last_byte(f) == [f EXCEPT ![4] = @ + 1]

\* A 32-bit number in network order plus one.
PlusOne(f) ==
    [i \in 1 .. 4 |->
        IF \A j \in i + 1 .. 4 : f[j] = 255 THEN (f[i] + 1) % 256 ELSE f[i]]

-----------------------------------------------------------------------------
(* Checksums                                                               *)

\* Big-endian 16-bit words; an odd last byte is the high byte of one.
Words(f) ==
    [i \in 1 .. (Len(f) + 1) \div 2 |->
        256 * f[2 * i - 1] + (IF 2 * i <= Len(f) THEN f[2 * i] ELSE 0)]

\* The end-around carries.
Carry[n \in Nat] ==
    IF n <= 65535 THEN n ELSE Carry[(n \div 65536) + (n % 65536)]

\* The words of f added to sum.
WordSum(f, sum) == FoldLeft(LAMBDA x, y : x + y, sum, Words(f))

summing(f, sum) == Carry[WordSum(f, sum)]

Not16(n) == 65535 - n

ip_csum(b) == Not16(summing(Field(b, 0, ihl(b) * 4), 0))

\* The pseudo header, then the TCP header, then the data if there is any.
tcp_csum(b, t) ==
    LET tcp_len == (tot_len(b) - ihl(b) * 4) % 65536
        data_len == tot_len(b) - ihl(b) * 4 - doff(b, t) * 4
        pseudo == saddr(b) \o daddr(b) \o
                  <<0, IPPROTO_TCP, tcp_len \div 256, tcp_len % 256>>
        header == summing(Field(b, t, doff(b, t) * 4), summing(pseudo, 0))
    IN  Not16(IF data_len > 0
              THEN summing(Field(b, t + doff(b, t) * 4, data_len), header)
              ELSE header)

-----------------------------------------------------------------------------
(* Operations                                                              *)

\* Mutant: the total length is not compared with the buffer.
validate_ip_tcp_any_total(b) ==
    /\ SizeofIphdr + SizeofTcphdr <= Len(b)
    /\ protocol(b) = IPPROTO_TCP
    /\ Tcp(b) + SizeofTcphdr <= Len(b)
    /\ tot_len(b) >= Tcp(b) + doff(b, Tcp(b)) * 4

validate_ip_tcp(b) ==
    /\ SizeofIphdr + SizeofTcphdr <= Len(b)
    /\ protocol(b) = IPPROTO_TCP
    /\ Tcp(b) + SizeofTcphdr <= Len(b)
    /\ tot_len(b) <= Len(b)
    /\ tot_len(b) >= Tcp(b) + doff(b, Tcp(b)) * 4

PutIpCheck(b) == PutShort(b, 10, ip_csum(PutShort(b, 10, 0)))
PutTcpCheck(b, t) == PutShort(b, t + 16, tcp_csum(PutShort(b, t + 16, 0), t))

replace_src_ip(b, ip) == PutIpCheck(Put(b, 12, ip))
replace_dst_ip(b, ip) == PutIpCheck(Put(b, 16, ip))
replace_src_port(b, port) == PutTcpCheck(PutShort(b, Tcp(b), port), Tcp(b))
\* Mutant: the port is put where the source port is.
replace_dst_port_at_source(b, port) == PutTcpCheck(PutShort(b, Tcp(b), port), Tcp(b))

replace_dst_port(b, port) == PutTcpCheck(PutShort(b, Tcp(b) + 2, port), Tcp(b))

\* Mutant: the port first, with the TCP checksum over the old address.
replace_src_ip_port_swapped(b, ip, port) == replace_src_ip(replace_src_port(b, port), ip)

replace_src_ip_port(b, ip, port) == replace_src_port(replace_src_ip(b, ip), port)
replace_dst_ip_port(b, ip, port) == replace_dst_port(replace_dst_ip(b, ip), port)

\* ip_header->id += 1 adds to a field in network order on a little-endian host
NextId(b) ==
    <<(Byte(b, 4) + 1) % 256,
      IF Byte(b, 4) = 255 THEN (Byte(b, 5) + 1) % 256 ELSE Byte(b, 5)>>

\* The IP header of the reset packet: ihl 5, no fragment, ttl 60, addresses
\* swapped.
ResetIp(b) ==
    LET lengths == PutShort(Put(b, 0, <<16 * (Byte(b, 0) \div 16) + 5>>), 2, 40)
        plain == Put(Put(lengths, 4, NextId(b) \o <<0, 0>>), 8, <<60>>)
    IN  PutIpCheck(Put(plain, 12, daddr(b) \o saddr(b)))

\* Mutant: the ports are swapped without keeping the first one.
ResetTcp_same_ports(b, t) ==
    LET ports == Put(b, t, Field(b, t + 2, 2) \o Field(b, t + 2, 2))
        seqs == Put(ports, t + 4, Field(b, t + 8, 4) \o PlusOne(Field(b, t + 4, 4)))
        flags == Put(seqs, t + 12, <<80 + (Byte(b, t + 12) % 16), 20>>)
    IN  PutTcpCheck(flags, t)

\* The TCP header of the reset packet at offset t: ports swapped, numbers for
\* the answer, doff 5, flags RST and ACK.
ResetTcp(b, t) ==
    LET ports == Put(b, t, Field(b, t + 2, 2) \o Field(b, t, 2))
        seqs == Put(ports, t + 4, Field(b, t + 8, 4) \o PlusOne(Field(b, t + 4, 4)))
        flags == Put(seqs, t + 12, <<80 + (Byte(b, t + 12) % 16), 20>>)
    IN  PutTcpCheck(flags, t)

\* ihl is overwritten before the TCP header is looked for.
fillin_reset(b) == ResetTcp(ResetIp(b), Tcp(ResetIp(b)))

-----------------------------------------------------------------------------
Init ==
    /\ \E p \in Packets, left \in Leftovers :
          /\ orig = p \o SubSeq(left, Len(p) + 1, Len(left))
          /\ read_len = Len(p)
    /\ buffer = orig
    /\ phase = "received"

\* handle_client_packet passes the packet on.
ToWorld(ip, port) ==
    /\ phase = "received" /\ validate_ip_tcp(buffer)
    /\ buffer' = replace_src_ip_port(buffer, ip, port)
    /\ phase' = "src"
    /\ UNCHANGED <<orig, read_len>>

\* handle_world_packet passes the packet on.
ToClient(ip, port) ==
    /\ phase = "received" /\ validate_ip_tcp(buffer)
    /\ buffer' = replace_dst_ip_port(buffer, ip, port)
    /\ phase' = "dst"
    /\ UNCHANGED <<orig, read_len>>

\* Either handler refuses the packet, valid or not.
Refuse ==
    /\ phase = "received"
    /\ buffer' = fillin_reset(buffer)
    /\ phase' = "reset"
    /\ UNCHANGED <<orig, read_len>>

Next ==
    \/ \E ip \in Addrs, port \in PortNums : ToWorld(ip, port) \/ ToClient(ip, port)
    \/ Refuse

Spec == Init /\ [][Next]_vars

-----------------------------------------------------------------------------
(* Properties                                                              *)

\* Buffers keep their length and hold bytes.
TypeOK ==
    /\ phase \in {"received", "src", "dst", "reset"}
    /\ Len(buffer) = Len(orig)
    /\ \A i \in DOMAIN buffer : buffer[i] \in Bytes

\* The checksum test of a receiver (RFC 1071): the one's complement sum of all
\* words is minus zero, that is, a positive multiple of 65535.
SumsToMinusZero(f) ==
    LET sum == WordSum(f, 0)
    IN  sum > 0 /\ sum % 65535 = 0

\* No header is shorter than its fixed part.
FullHeaders(b) == ihl(b) >= 5 /\ doff(b, Tcp(b)) >= 5

\* Whatever the handler did, a receiver accepts both checksums of the packet,
\* for odd and even payloads, options, and checksums that were wrong before.
\* A reset packet is sound whatever it was made from.
ChecksumsValid ==
    phase = "reset" \/ (phase \in {"src", "dst"} /\ FullHeaders(orig)) =>
        LET t == Tcp(buffer)
            len == tot_len(buffer) - t
        IN  /\ SumsToMinusZero(Field(buffer, 0, t))
            /\ SumsToMinusZero(saddr(buffer) \o daddr(buffer) \o
                               <<0, IPPROTO_TCP, len \div 256, len % 256>> \o
                               Field(buffer, t, len))

\* Rewriting touches one address, one port and the two checksums, and leaves
\* every other byte of the packet, options and payload included, as it was.
OnlyRewritten ==
    phase \in {"src", "dst"} =>
        LET t == Tcp(orig)
            addr == IF phase = "src" THEN 12 .. 15 ELSE 16 .. 19
            port == IF phase = "src" THEN t .. t + 1 ELSE t + 2 .. t + 3
            sums == {10, 11, t + 16, t + 17}
        IN  \A off \in 0 .. Len(orig) - 1 :
               off \notin addr \cup port \cup sums =>
                  Byte(buffer, off) = Byte(orig, off)

\* The highest byte the rewriting of a packet reads or writes.
LastTouched(b) ==
    LET t == Tcp(b)
        ends == {SizeofIphdr, t, t + SizeofTcphdr, t + doff(b, t) * 4, tot_len(b)}
    IN  CHOOSE e \in ends : \A f \in ends : f <= e

\* validate_ip_tcp accepts no packet whose rewriting runs off the buffer by the
\* ihl, doff and tot_len that it validated.
InBounds == validate_ip_tcp(orig) => LastTouched(orig) <= Len(orig)

\* protocol_headers.h:26, "the buffer should start with and contains ip header,
\* tcp header, tcp payload": what is summed up and rewritten of a packet that
\* is passed on was read with it, and is nothing an earlier packet left in the
\* buffer.
NothingStale == phase \in {"src", "dst"} => LastTouched(orig) <= read_len

\* protocol_headers.h:92, "the src and dst ip, port will be handled in this
\* function": the reset packet goes back where the packet came from.
ResetReverses ==
    phase = "reset" =>
        LET t == Tcp(buffer)
            u == Tcp(orig)
        IN  /\ saddr(buffer) = daddr(orig) /\ daddr(buffer) = saddr(orig)
            /\ Field(buffer, t, 2) = Field(orig, u + 2, 2)
            /\ Field(buffer, t + 2, 2) = Field(orig, u, 2)
            /\ Field(buffer, t + 8, 4) = PlusOne(Field(orig, u + 4, 4))

\* That holds for packets without IP options, valid or not.
ResetReversesPlain == ihl(orig) = 5 => ResetReverses

=============================================================================
