------------------------- MODULE MCProtocolHeaders -------------------------
(***************************************************************************)
(* Instances of ProtocolHeaders for TLC.  Packet builds a packet of "size" *)
(* bytes whose header fields say ihl, doff and total; the other bytes all  *)
(* are "fill" plus a multiple of their offset, so that no two fields agree *)
(* by accident; fill 255 with step 0 makes every carry happen.             *)
(***************************************************************************)
EXTENDS ProtocolHeaders

Packet(size, h, d, total, proto, fill, step) ==
    LET b == [i \in 1 .. size |-> (fill + step * i) % 256]
        ip == Put(Put(b, 0, <<64 + h, 0, total \div 256, total % 256>>), 9, <<proto>>)
    IN  IF h * 4 + 12 < size THEN Put(ip, h * 4 + 12, <<16 * d + 2>>) ELSE ip

BufLen == 52

\* A fresh stack, and an earlier packet that filled the buffer.
MCLeftovers == {[i \in 1 .. BufLen |-> 0], Packet(BufLen, 5, 5, BufLen, 6, 9, 11)}

\* Packets as they should be: with and without IP and TCP options, an empty,
\* an odd and an even payload, alone or with bytes behind them.
WellFormed(ihls, sizes) ==
    {Packet(h * 4 + d * 4 + n + slack, h, d, h * 4 + d * 4 + n, 6, fill, step) :
        h \in ihls, d \in {5, 6}, n \in sizes, slack \in {0, 1},
        fill \in {0, 200, 255}, step \in {0, 7}}

\* Packets read whole, with bytes behind them, and cut off.
MCCutOff ==
    {Packet(size, 5, 5, total, 6, fill, 7) :
        size \in {40, 43}, total \in {40, 43, 52}, fill \in {0, 200}}

\* Headers whose lengths may contradict each other, the buffer and what was
\* read, down to packets cut off before their TCP header.  (With ihl 0 or 1
\* the replaced address overlaps doff; the 64 bytes that can then be read need
\* the larger buffer of the server.)
MCContradicting ==
    {Packet(size, h, d, total, 6, 1, 7) :
        size \in {20, 28, 40, 43}, h \in 2 .. 9, d \in 0 .. 8,
        total \in {0, 20, 28, 39, 40, 41, 43, 51, 52, 53, 300}} \cup
    {Packet(40, 5, 5, 40, 17, 1, 7)}

MCPackets == WellFormed({5, 6}, {0, 1, 2, 3}) \cup MCContradicting

MCAddrs == {<<192, 168, 122, 234>>, <<0, 0, 0, 0>>, <<255, 255, 255, 255>>}
MCPorts == {0, 40000, 65535}

=============================================================================
