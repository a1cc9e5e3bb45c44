----------------------- MODULE ProtocolHeadersProofs -----------------------
(***************************************************************************)
(* Which bytes of a buffer the rewriting of a packet reads and writes, for *)
(* packets and buffers of every size and every content.  None of it        *)
(* depends on what the checksums are: they are written where they belong,  *)
(* whatever their value.                                                   *)
(***************************************************************************)
EXTENDS ProtocolHeaders, SequenceTheorems, TLAPS

-----------------------------------------------------------------------------
(* Buffers                                                                 *)

\* b is an array of n elements.
Array(b, n) == b = [i \in 1 .. n |-> b[i]]

LEMMA ArrayIsSeq ==
    ASSUME NEW n \in Nat, NEW b, Array(b, n)
    PROVE  /\ b \in Seq({b[i] : i \in 1 .. n})
           /\ Len(b) = n /\ DOMAIN b = 1 .. n
<1> DEFINE S == {b[i] : i \in 1 .. n}
<1>1. b \in [1 .. n -> S]
  BY DEF Array
<1>2. b \in Seq(S)
  BY <1>1, SeqDef
<1>3. DOMAIN b = 1 .. n
  BY DEF Array
<1>4. Len(b) \in Nat /\ DOMAIN b = 1 .. Len(b)
  BY <1>2, LenProperties
<1>5. Len(b) = n
  BY <1>3, <1>4
<1> QED
  BY <1>2, <1>3, <1>5

\* Array c is array b with the k elements of f at offset off.
Stored(c, b, n, off, f, k) ==
    /\ Array(c, n)
    /\ \A o \in 0 .. n - 1 :
          Byte(c, o) = IF o \in off .. off + k - 1 THEN f[o - off + 1] ELSE Byte(b, o)

LEMMA PutBytes ==
    ASSUME NEW n \in Nat, NEW b, Array(b, n), NEW off \in Nat, NEW f, NEW k \in Nat,
           Len(f) = k
    PROVE  Stored(Put(b, off, f), b, n, off, f, k)
<1>1. DOMAIN b = 1 .. n
  BY DEF Array
<1>2. Put(b, off, f) =
         [i \in 1 .. n |-> IF i \in off + 1 .. off + k THEN f[i - off] ELSE b[i]]
  BY <1>1 DEF Put
<1>3. ASSUME NEW o \in 0 .. n - 1
      PROVE  Byte(Put(b, off, f), o) =
                IF o \in off .. off + k - 1 THEN f[o - off + 1] ELSE Byte(b, o)
  <2>1. /\ o + 1 \in 1 .. n /\ (o + 1) - off = o - off + 1
        /\ o + 1 \in off + 1 .. off + k <=> o \in off .. off + k - 1
    OBVIOUS
  <2> QED
    BY <1>2, <2>1 DEF Byte
<1>4. Array(Put(b, off, f), n)
  BY <1>2 DEF Array
<1> QED
  BY <1>3, <1>4 DEF Stored

LEMMA PutShortBytes ==
    ASSUME NEW n \in Nat, NEW b, Array(b, n), NEW off \in Nat, NEW v
    PROVE  /\ Array(PutShort(b, off, v), n)
           /\ \A o \in 0 .. n - 1 \ {off, off + 1} : Byte(PutShort(b, off, v), o) = Byte(b, o)
<1> DEFINE f == <<v \div 256, v % 256>>
<1>0. PutShort(b, off, v) = Put(b, off, f)
  BY DEF PutShort
<1>1. Len(f) = 2
  OBVIOUS
<1>2. \A o \in Nat : o \in off .. off + 2 - 1 <=> o \in {off, off + 1}
  OBVIOUS
<1>3. /\ Array(PutShort(b, off, v), n)
      /\ \A o \in 0 .. n - 1 : o \notin off .. off + 2 - 1 =>
            Byte(PutShort(b, off, v), o) = Byte(b, o)
  <2> HIDE DEF f
  <2>1. 2 \in Nat
    OBVIOUS
  <2>2. Stored(Put(b, off, f), b, n, off, f, 2)
    BY <1>1, <2>1, PutBytes
  <2> QED
    BY <1>0, <2>2 DEF Stored
<1> QED
  BY <1>2, <1>3

\* The checksums are stored and nothing else, whatever their value.
LEMMA IpCheckBytes ==
    ASSUME NEW n \in Nat, NEW b, Array(b, n)
    PROVE  /\ Array(PutIpCheck(b), n)
           /\ \A o \in 0 .. n - 1 \ {10, 11} : Byte(PutIpCheck(b), o) = Byte(b, o)
<1>1. /\ Array(PutIpCheck(b), n)
      /\ \A o \in 0 .. n - 1 \ {10, 10 + 1} : Byte(PutIpCheck(b), o) = Byte(b, o)
  BY PutShortBytes DEF PutIpCheck
<1> QED
  BY <1>1

LEMMA TcpCheckBytes ==
    ASSUME NEW n \in Nat, NEW b, Array(b, n), NEW t \in Nat
    PROVE  /\ Array(PutTcpCheck(b, t), n)
           /\ \A o \in 0 .. n - 1 \ {t + 16, t + 17} : Byte(PutTcpCheck(b, t), o) = Byte(b, o)
<1>1. t + 16 \in Nat /\ t + 16 + 1 = t + 17
  OBVIOUS
<1>2. /\ Array(PutTcpCheck(b, t), n)
      /\ \A o \in 0 .. n - 1 \ {t + 16, t + 16 + 1} : Byte(PutTcpCheck(b, t), o) = Byte(b, o)
  BY <1>1, PutShortBytes DEF PutTcpCheck
<1> QED
  BY <1>1, <1>2

\* f is the field of k bytes of b at offset off.
IsField(f, b, off, k) ==
    Array(f, k) /\ \A i \in 1 .. k : f[i] = Byte(b, off + i - 1)

LEMMA FieldBytes ==
    ASSUME NEW n \in Nat, NEW b, Array(b, n), NEW off \in Nat, NEW k \in Nat, off + k <= n
    PROVE  IsField(Field(b, off, k), b, off, k)
<1> DEFINE S == {b[i] : i \in 1 .. n}
<1>1. \A i \in off + 1 .. off + k : b[i] \in S
  OBVIOUS
<1>2. /\ Field(b, off, k) \in Seq(S)
      /\ Len(Field(b, off, k)) = IF off + 1 <= off + k THEN (off + k) - (off + 1) + 1 ELSE 0
      /\ \A i \in 1 .. (off + k) - (off + 1) + 1 :
            Field(b, off, k)[i] = b[(off + 1) + i - 1]
  <2> HIDE DEF S
  <2> QED
    BY <1>1, SubSeqProperties DEF Field
<1>3. Len(Field(b, off, k)) = k
  BY <1>2
<1>4. \A i \in 1 .. k : Field(b, off, k)[i] = Byte(b, off + i - 1)
  BY <1>2 DEF Byte
<1>5. Field(b, off, k) \in [1 .. k -> S]
  <2> HIDE DEF S
  <2> QED
    BY <1>2, <1>3, LenProperties
<1>6. Array(Field(b, off, k), k)
  BY <1>5 DEF Array
<1> QED
  BY <1>4, <1>6 DEF IsField

\* Two fields that agree byte by byte are the same.
LEMMA SameArray ==
    ASSUME NEW k \in Nat, NEW f, NEW g, Array(f, k), Array(g, k),
           \A i \in 1 .. k : f[i] = g[i]
    PROVE  f = g
BY DEF Array

\* h is f, k elements, and then g, l elements.
Joined(h, f, k, g, l) ==
    /\ Len(h) = k + l
    /\ \A i \in 1 .. k : h[i] = f[i]
    /\ \A i \in 1 .. l : h[k + i] = g[i]

LEMMA ConcatBytes ==
    ASSUME NEW k \in Nat, NEW l \in Nat, NEW f, NEW g, Array(f, k), Array(g, l)
    PROVE  Joined(f \o g, f, k, g, l)
<1> DEFINE S == {f[i] : i \in 1 .. k} \cup {g[i] : i \in 1 .. l}
<1>1. f \in [1 .. k -> S] /\ g \in [1 .. l -> S]
  BY DEF Array
<1> HIDE DEF S
<1>2. f \in Seq(S) /\ g \in Seq(S)
  BY <1>1, SeqDef
<1>3. Len(f) = k /\ Len(g) = l
  BY ArrayIsSeq
<1>4. /\ Len(f \o g) = k + l
      /\ \A i \in 1 .. k + l : (f \o g)[i] = IF i <= k THEN f[i] ELSE g[i - k]
  BY <1>2, <1>3, ConcatProperties
<1>5. \A i \in 1 .. l : k + i \in 1 .. k + l /\ ~ (k + i <= k) /\ k + i - k = i
  OBVIOUS
<1> QED
  BY <1>4, <1>5 DEF Joined

-----------------------------------------------------------------------------
(* The operations                                                          *)

\* The position of the TCP header depends on the first byte only.
LEMMA TcpOffset ==
    ASSUME NEW b, Byte(b, 0) \in Bytes
    PROVE  ihl(b) \in 0 .. 15 /\ Tcp(b) \in Nat
BY DEF Tcp, ihl, Bytes

LEMMA TcpSame ==
    ASSUME NEW b, NEW c, Byte(b, 0) = Byte(c, 0)
    PROVE  Tcp(b) = Tcp(c)
BY DEF Tcp, ihl

\* Replacing an address: four bytes and the checksum of the IP header.
LEMMA AddressBytes ==
    ASSUME NEW n \in Nat, NEW b, Array(b, n), NEW ip, Len(ip) = 4
    PROVE  /\ Array(replace_src_ip(b, ip), n) /\ Array(replace_dst_ip(b, ip), n)
           /\ \A o \in 0 .. n - 1 : o \notin 10 .. 15 =>
                 Byte(replace_src_ip(b, ip), o) = Byte(b, o)
           /\ \A o \in 0 .. n - 1 : o \notin {10, 11} \cup 16 .. 19 =>
                 Byte(replace_dst_ip(b, ip), o) = Byte(b, o)
<1>1. 12 \in Nat /\ 16 \in Nat /\ 4 \in Nat
  OBVIOUS
<1>2. Stored(Put(b, 12, ip), b, n, 12, ip, 4) /\ Stored(Put(b, 16, ip), b, n, 16, ip, 4)
  BY <1>1, PutBytes
<1>3. Array(Put(b, 12, ip), n) /\ Array(Put(b, 16, ip), n)
  BY <1>2 DEF Stored
<1>4. /\ \A o \in 0 .. n - 1 : o \notin 12 .. 15 => Byte(Put(b, 12, ip), o) = Byte(b, o)
      /\ \A o \in 0 .. n - 1 : o \notin 16 .. 19 => Byte(Put(b, 16, ip), o) = Byte(b, o)
  BY <1>2 DEF Stored
<1>5. /\ Array(replace_src_ip(b, ip), n)
      /\ \A o \in 0 .. n - 1 \ {10, 11} : Byte(replace_src_ip(b, ip), o) = Byte(Put(b, 12, ip), o)
  BY <1>3, IpCheckBytes DEF replace_src_ip
<1>6. /\ Array(replace_dst_ip(b, ip), n)
      /\ \A o \in 0 .. n - 1 \ {10, 11} : Byte(replace_dst_ip(b, ip), o) = Byte(Put(b, 16, ip), o)
  BY <1>3, IpCheckBytes DEF replace_dst_ip
<1> QED
  BY <1>4, <1>5, <1>6

\* Replacing a port: two bytes and the checksum of the TCP header.
LEMMA PortBytes ==
    ASSUME NEW n \in Nat, NEW b, Array(b, n), NEW port, Tcp(b) \in Nat
    PROVE  /\ \A o \in 0 .. n - 1 :
                 o \notin {Tcp(b), Tcp(b) + 1, Tcp(b) + 16, Tcp(b) + 17} =>
                    Byte(replace_src_port(b, port), o) = Byte(b, o)
           /\ \A o \in 0 .. n - 1 :
                 o \notin {Tcp(b) + 2, Tcp(b) + 3, Tcp(b) + 16, Tcp(b) + 17} =>
                    Byte(replace_dst_port(b, port), o) = Byte(b, o)
<1> DEFINE t == Tcp(b)
           src == PutShort(b, t, port)
           dst == PutShort(b, t + 2, port)
<1>1. replace_src_port(b, port) = PutTcpCheck(src, t)
  BY DEF replace_src_port
<1>2. replace_dst_port(b, port) = PutTcpCheck(dst, t)
  BY DEF replace_dst_port
<1>3. t \in Nat /\ t + 2 \in Nat /\ (t + 2) + 1 = t + 3
  OBVIOUS
<1> HIDE DEF t
<1>4. /\ Array(src, n)
      /\ \A o \in 0 .. n - 1 \ {t, t + 1} : Byte(src, o) = Byte(b, o)
  BY <1>3, PutShortBytes
<1>5. /\ Array(dst, n)
      /\ \A o \in 0 .. n - 1 \ {t + 2, (t + 2) + 1} : Byte(dst, o) = Byte(b, o)
  BY <1>3, PutShortBytes
<1> HIDE DEF src, dst
<1>6. \A o \in 0 .. n - 1 \ {t + 16, t + 17} : Byte(PutTcpCheck(src, t), o) = Byte(src, o)
  BY <1>3, <1>4, TcpCheckBytes
<1>7. \A o \in 0 .. n - 1 \ {t + 16, t + 17} : Byte(PutTcpCheck(dst, t), o) = Byte(dst, o)
  BY <1>3, <1>5, TcpCheckBytes
<1>8. \A o \in 0 .. n - 1 : o \notin {t, t + 1, t + 16, t + 17} =>
         Byte(replace_src_port(b, port), o) = Byte(b, o)
  BY <1>1, <1>4, <1>6
<1>9. \A o \in 0 .. n - 1 : o \notin {t + 2, t + 3, t + 16, t + 17} =>
         Byte(replace_dst_port(b, port), o) = Byte(b, o)
  BY <1>2, <1>3, <1>5, <1>7
<1> QED
  BY <1>8, <1>9 DEF t

\* Both together: the TCP header is where it was before the address changed.
LEMMA RewriteBytes ==
    ASSUME NEW n \in Nat, n > 0, NEW b, Array(b, n), Byte(b, 0) \in Bytes,
           NEW ip, Len(ip) = 4, NEW port
    PROVE  LET t == Tcp(b)
               src == replace_src_ip_port(b, ip, port)
               dst == replace_dst_ip_port(b, ip, port)
           IN  /\ \A o \in 0 .. n - 1 :
                     o \notin 12 .. 15 \cup t .. t + 1 \cup {10, 11, t + 16, t + 17} =>
                        Byte(src, o) = Byte(b, o)
               /\ \A o \in 0 .. n - 1 :
                     o \notin 16 .. 19 \cup t + 2 .. t + 3 \cup {10, 11, t + 16, t + 17} =>
                        Byte(dst, o) = Byte(b, o)
<1> DEFINE t == Tcp(b)
           c == replace_src_ip(b, ip)
           d == replace_dst_ip(b, ip)
<1>1. /\ Array(c, n) /\ Array(d, n)
      /\ \A o \in 0 .. n - 1 : o \notin 10 .. 15 => Byte(c, o) = Byte(b, o)
      /\ \A o \in 0 .. n - 1 : o \notin {10, 11} \cup 16 .. 19 => Byte(d, o) = Byte(b, o)
  BY AddressBytes
<1>2. t \in Nat
  BY TcpOffset
<1>3. /\ replace_src_ip_port(b, ip, port) = replace_src_port(c, port)
      /\ replace_dst_ip_port(b, ip, port) = replace_dst_port(d, port)
  BY DEF replace_src_ip_port, replace_dst_ip_port
<1> HIDE DEF c, d
<1>4. Byte(c, 0) = Byte(b, 0) /\ Byte(d, 0) = Byte(b, 0)
  BY <1>1
<1>5. Tcp(c) = t /\ Tcp(d) = t
  BY <1>4, TcpSame
<1> HIDE DEF t
<1>6. \A o \in 0 .. n - 1 : o \notin {t, t + 1, t + 16, t + 17} =>
         Byte(replace_src_port(c, port), o) = Byte(c, o)
  BY <1>1, <1>2, <1>5, PortBytes
<1>7. \A o \in 0 .. n - 1 : o \notin {t + 2, t + 3, t + 16, t + 17} =>
         Byte(replace_dst_port(d, port), o) = Byte(d, o)
  BY <1>1, <1>2, <1>5, PortBytes
<1>8. \A o \in 0 .. n - 1 :
         o \notin 12 .. 15 \cup t .. t + 1 \cup {10, 11, t + 16, t + 17} =>
            Byte(replace_src_ip_port(b, ip, port), o) = Byte(b, o)
  BY <1>1, <1>2, <1>3, <1>6
<1>9. \A o \in 0 .. n - 1 :
         o \notin 16 .. 19 \cup t + 2 .. t + 3 \cup {10, 11, t + 16, t + 17} =>
            Byte(replace_dst_ip_port(b, ip, port), o) = Byte(b, o)
  BY <1>1, <1>2, <1>3, <1>7
<1> QED
  BY <1>8, <1>9 DEF t

-----------------------------------------------------------------------------
(* The reset packet                                                        *)

LEMMA SmallArrays ==
    ASSUME NEW x, NEW y
    PROVE  /\ Len(<<x>>) = 1 /\ <<x>>[1] = x
           /\ Len(<<x, y>>) = 2 /\ Array(<<x, y>>, 2)
<1>1. <<x, y>> \in Seq({x, y}) /\ Len(<<x, y>>) = 2
  OBVIOUS
<1>2. <<x, y>> \in [1 .. 2 -> {x, y}]
  BY <1>1, LenProperties
<1>3. Array(<<x, y>>, 2)
  BY <1>2 DEF Array
<1> QED
  BY <1>1, <1>3

\* The IP header of the reset packet: it says that it is 20 bytes long, the
\* addresses have changed places, and what follows has not changed.
LEMMA ResetIpBytes ==
    ASSUME NEW n \in Nat, n >= 40, NEW b, Array(b, n), Byte(b, 0) \in Bytes
    PROVE  /\ Array(ResetIp(b), n)
           /\ Tcp(ResetIp(b)) = 20
           /\ \A i \in 1 .. 4 : Byte(ResetIp(b), 11 + i) = Byte(b, 15 + i)
           /\ \A i \in 1 .. 4 : Byte(ResetIp(b), 15 + i) = Byte(b, 11 + i)
           /\ \A o \in 20 .. n - 1 : Byte(ResetIp(b), o) = Byte(b, o)
<1> DEFINE first == 16 * (Byte(b, 0) \div 16) + 5
           b1 == Put(b, 0, <<first>>)
           b2 == PutShort(b1, 2, 40)
           ids == NextId(b) \o <<0, 0>>
           b3 == Put(b2, 4, ids)
           b4 == Put(b3, 8, <<60>>)
           addrs == daddr(b) \o saddr(b)
           b5 == Put(b4, 12, addrs)
<1>1. ResetIp(b) = PutIpCheck(b5)
  BY DEF ResetIp
<1>2. Stored(b1, b, n, 0, <<first>>, 1)
  <2>1. Len(<<first>>) = 1 /\ 0 \in Nat /\ 1 \in Nat
    OBVIOUS
  <2> HIDE DEF first
  <2> QED
    BY <2>1, PutBytes
<1>3. Len(ids) = 4
  <2>1. Array(NextId(b), 2)
    BY SmallArrays DEF NextId
  <2>2. Array(<<0, 0>>, 2)
    BY SmallArrays
  <2>3. Joined(ids, NextId(b), 2, <<0, 0>>, 2)
    BY <2>1, <2>2, ConcatBytes
  <2> QED
    BY <2>3 DEF Joined
<1>4. /\ Len(addrs) = 8
      /\ \A i \in 1 .. 4 : addrs[i] = Byte(b, 15 + i)
      /\ \A i \in 1 .. 4 : addrs[4 + i] = Byte(b, 11 + i)
  <2>1. IsField(daddr(b), b, 16, 4)
    BY FieldBytes DEF daddr
  <2>2. IsField(saddr(b), b, 12, 4)
    BY FieldBytes DEF saddr
  <2>3. Joined(addrs, daddr(b), 4, saddr(b), 4)
    <3>1. Array(daddr(b), 4) /\ Array(saddr(b), 4)
      BY <2>1, <2>2 DEF IsField
    <3> QED
      BY <3>1, ConcatBytes
  <2> HIDE DEF addrs
  <2>4. \A i \in 1 .. 4 : 16 + i - 1 = 15 + i /\ 12 + i - 1 = 11 + i
    OBVIOUS
  <2>5. /\ \A i \in 1 .. 4 : daddr(b)[i] = Byte(b, 15 + i)
        /\ \A i \in 1 .. 4 : saddr(b)[i] = Byte(b, 11 + i)
    BY <2>1, <2>2, <2>4 DEF IsField
  <2> QED
    BY <2>3, <2>5 DEF Joined
<1> HIDE DEF b1, ids, addrs
<1>5. Array(b1, n)
  BY <1>2 DEF Stored
<1>6. /\ Array(b2, n)
      /\ \A o \in 0 .. n - 1 \ {2, 2 + 1} : Byte(b2, o) = Byte(b1, o)
  BY <1>5, PutShortBytes
<1> HIDE DEF b2
<1>7. Stored(b3, b2, n, 4, ids, 4)
  BY <1>3, <1>6, PutBytes
<1> HIDE DEF b3
<1>8. Stored(b4, b3, n, 8, <<60>>, 1)
  <2>1. Array(b3, n)
    BY <1>7 DEF Stored
  <2>2. Len(<<60>>) = 1
    OBVIOUS
  <2> QED
    BY <2>1, <2>2, PutBytes
<1> HIDE DEF b4
<1>9. Stored(b5, b4, n, 12, addrs, 8)
  <2>1. Array(b4, n)
    BY <1>8 DEF Stored
  <2> QED
    BY <1>4, <2>1, PutBytes
<1> HIDE DEF b5
<1>10. Array(b5, n)
  BY <1>9 DEF Stored
<1>11. /\ Array(ResetIp(b), n)
       /\ \A o \in 0 .. n - 1 \ {10, 11} : Byte(ResetIp(b), o) = Byte(b5, o)
  BY <1>1, <1>10, IpCheckBytes
<1>12. Byte(ResetIp(b), 0) = first
  <2>1. Byte(b1, 0) = first
    BY <1>2 DEF Stored
  <2>2. Byte(b2, 0) = Byte(b1, 0)
    BY <1>6
  <2>3. Byte(b3, 0) = Byte(b2, 0)
    BY <1>7 DEF Stored
  <2>4. Byte(b4, 0) = Byte(b3, 0)
    BY <1>8 DEF Stored
  <2>5. Byte(b5, 0) = Byte(b4, 0)
    BY <1>9 DEF Stored
  <2>6. Byte(ResetIp(b), 0) = Byte(b5, 0)
    BY <1>11
  <2> HIDE DEF first
  <2> QED
    BY <2>1, <2>2, <2>3, <2>4, <2>5, <2>6
<1>13. Tcp(ResetIp(b)) = 20
  <2>1. \A x \in Bytes : (16 * (x \div 16) + 5) % 16 = 5
    BY DEF Bytes
  <2>2. ihl(ResetIp(b)) = 5
    BY <1>12, <2>1 DEF ihl
  <2> QED
    BY <2>2 DEF Tcp
<1>14. \A o \in 20 .. n - 1 : Byte(ResetIp(b), o) = Byte(b, o)
  <2> SUFFICES ASSUME NEW o \in 20 .. n - 1 PROVE Byte(ResetIp(b), o) = Byte(b, o)
    OBVIOUS
  <2>0. /\ o \in 0 .. n - 1
        /\ o \notin 0 .. 0 + 1 - 1 /\ o \notin {2, 2 + 1, 10, 11}
        /\ o \notin 4 .. 4 + 4 - 1 /\ o \notin 8 .. 8 + 1 - 1 /\ o \notin 12 .. 12 + 8 - 1
    OBVIOUS
  <2>1. Byte(b1, o) = Byte(b, o)
    BY <1>2, <2>0 DEF Stored
  <2>2. Byte(b2, o) = Byte(b1, o)
    BY <1>6, <2>0
  <2>3. Byte(b3, o) = Byte(b2, o)
    BY <1>7, <2>0 DEF Stored
  <2>4. Byte(b4, o) = Byte(b3, o)
    BY <1>8, <2>0 DEF Stored
  <2>5. Byte(b5, o) = Byte(b4, o)
    BY <1>9, <2>0 DEF Stored
  <2>6. Byte(ResetIp(b), o) = Byte(b5, o)
    BY <1>11, <2>0
  <2> QED
    BY <2>1, <2>2, <2>3, <2>4, <2>5, <2>6
<1>15. ASSUME NEW i \in 1 .. 4
       PROVE  /\ Byte(ResetIp(b), 11 + i) = Byte(b, 15 + i)
              /\ Byte(ResetIp(b), 15 + i) = Byte(b, 11 + i)
  <2>1. /\ 11 + i \in 0 .. n - 1 /\ 11 + i \notin {10, 11}
        /\ 11 + i \in 12 .. 12 + 8 - 1 /\ 11 + i - 12 + 1 = i
        /\ 15 + i \in 0 .. n - 1 /\ 15 + i \notin {10, 11}
        /\ 15 + i \in 12 .. 12 + 8 - 1 /\ 15 + i - 12 + 1 = 4 + i
    OBVIOUS
  <2>2. Byte(b5, 11 + i) = addrs[i] /\ Byte(b5, 15 + i) = addrs[4 + i]
    BY <1>9, <2>1 DEF Stored
  <2>3. /\ Byte(ResetIp(b), 11 + i) = Byte(b5, 11 + i)
        /\ Byte(ResetIp(b), 15 + i) = Byte(b5, 15 + i)
    BY <1>11, <2>1
  <2> QED
    BY <1>4, <2>2, <2>3
<1> QED
  BY <1>11, <1>13, <1>14, <1>15

\* The k bytes of b at offset off are the ones of c at offset pos.
Agree(b, off, c, pos, k) ==
    \A i \in 1 .. k : Byte(b, off + i - 1) = Byte(c, pos + i - 1)

LEMMA SameField ==
    ASSUME NEW n \in Nat, NEW b, Array(b, n), NEW c, Array(c, n),
           NEW k \in Nat, NEW off \in Nat, off + k <= n, NEW pos \in Nat, pos + k <= n,
           Agree(b, off, c, pos, k)
    PROVE  Field(b, off, k) = Field(c, pos, k)
<1>1. IsField(Field(b, off, k), b, off, k) /\ IsField(Field(c, pos, k), c, pos, k)
  BY FieldBytes
<1> QED
  BY <1>1, SameArray DEF IsField, Agree

\* The TCP header of the reset packet: the ports have changed places, the
\* packet's number plus one is acknowledged, and what is before has not changed.
LEMMA ResetTcpBytes ==
    ASSUME NEW n \in Nat, n >= 40, NEW b, Array(b, n)
    PROVE  LET r == ResetTcp(b, 20)
           IN  /\ Array(r, n)
               /\ \A o \in 0 .. 19 : Byte(r, o) = Byte(b, o)
               /\ \A i \in 1 .. 2 : Byte(r, 19 + i) = Byte(b, 21 + i)
               /\ \A i \in 1 .. 2 : Byte(r, 21 + i) = Byte(b, 19 + i)
               /\ \A i \in 1 .. 4 : Byte(r, 27 + i) = PlusOne(Field(b, 24, 4))[i]
<1> DEFINE ports == Field(b, 22, 2) \o Field(b, 20, 2)
           b1 == Put(b, 20, ports)
           next == PlusOne(Field(b, 24, 4))
           seqs == Field(b, 28, 4) \o next
           b2 == Put(b1, 24, seqs)
           flags == <<80 + (Byte(b, 32) % 16), 20>>
           b3 == Put(b2, 32, flags)
           r == ResetTcp(b, 20)
<1>1. r = PutTcpCheck(b3, 20)
  BY DEF ResetTcp
<1>2. /\ Len(ports) = 4
      /\ \A i \in 1 .. 2 : ports[i] = Byte(b, 21 + i)
      /\ \A i \in 1 .. 2 : ports[2 + i] = Byte(b, 19 + i)
  <2>1. IsField(Field(b, 22, 2), b, 22, 2) /\ IsField(Field(b, 20, 2), b, 20, 2)
    BY FieldBytes
  <2>2. Joined(ports, Field(b, 22, 2), 2, Field(b, 20, 2), 2)
    <3>1. Array(Field(b, 22, 2), 2) /\ Array(Field(b, 20, 2), 2)
      BY <2>1 DEF IsField
    <3> QED
      BY <3>1, ConcatBytes
  <2> HIDE DEF ports
  <2>3. \A i \in 1 .. 2 : 22 + i - 1 = 21 + i /\ 20 + i - 1 = 19 + i
    OBVIOUS
  <2> QED
    BY <2>1, <2>2, <2>3 DEF Joined, IsField
<1>3. Len(seqs) = 8 /\ \A i \in 1 .. 4 : seqs[4 + i] = next[i]
  <2>1. Array(Field(b, 28, 4), 4)
    BY FieldBytes DEF IsField
  <2>2. Array(next, 4)
    BY DEF PlusOne, Array
  <2> HIDE DEF next
  <2>3. Joined(seqs, Field(b, 28, 4), 4, next, 4)
    BY <2>1, <2>2, ConcatBytes
  <2> QED
    BY <2>3 DEF Joined
<1>4. Len(flags) = 2
  OBVIOUS
<1> HIDE DEF ports, seqs, flags, next, r
<1>5. Stored(b1, b, n, 20, ports, 4)
  BY <1>2, PutBytes
<1> HIDE DEF b1
<1>6. Stored(b2, b1, n, 24, seqs, 8)
  <2>1. Array(b1, n)
    BY <1>5 DEF Stored
  <2> QED
    BY <1>3, <2>1, PutBytes
<1> HIDE DEF b2
<1>7. Stored(b3, b2, n, 32, flags, 2)
  <2>1. Array(b2, n)
    BY <1>6 DEF Stored
  <2> QED
    BY <1>4, <2>1, PutBytes
<1> HIDE DEF b3
<1>8. Array(b3, n)
  BY <1>7 DEF Stored
<1>9. /\ Array(r, n)
      /\ \A o \in 0 .. n - 1 \ {20 + 16, 20 + 17} : Byte(r, o) = Byte(b3, o)
  BY <1>1, <1>8, TcpCheckBytes
<1>10. \A o \in 0 .. 31 : Byte(r, o) = Byte(b2, o)
  <2>1. \A o \in 0 .. 31 : o \in 0 .. n - 1 /\ o \notin {20 + 16, 20 + 17} /\ o \notin 32 .. 32 + 2 - 1
    OBVIOUS
  <2> QED
    BY <1>7, <1>9, <2>1 DEF Stored
<1>11. \A o \in 0 .. 23 : Byte(r, o) = Byte(b1, o)
  <2>1. \A o \in 0 .. 23 : o \in 0 .. 31 /\ o \in 0 .. n - 1 /\ o \notin 24 .. 24 + 8 - 1
    OBVIOUS
  <2> QED
    BY <1>6, <1>10, <2>1 DEF Stored
<1>12. \A o \in 0 .. 19 : Byte(r, o) = Byte(b, o)
  <2>1. \A o \in 0 .. 19 : o \in 0 .. 23 /\ o \in 0 .. n - 1 /\ o \notin 20 .. 20 + 4 - 1
    OBVIOUS
  <2> QED
    BY <1>5, <1>11, <2>1 DEF Stored
<1>13. ASSUME NEW i \in 1 .. 2
       PROVE  Byte(r, 19 + i) = Byte(b, 21 + i) /\ Byte(r, 21 + i) = Byte(b, 19 + i)
  <2>1. /\ 19 + i \in 0 .. 23 /\ 19 + i \in 0 .. n - 1 /\ 19 + i \in 20 .. 20 + 4 - 1
        /\ 21 + i \in 0 .. 23 /\ 21 + i \in 0 .. n - 1 /\ 21 + i \in 20 .. 20 + 4 - 1
        /\ 19 + i - 20 + 1 = i /\ 21 + i - 20 + 1 = 2 + i
    OBVIOUS
  <2>2. Byte(b1, 19 + i) = ports[i] /\ Byte(b1, 21 + i) = ports[2 + i]
    BY <1>5, <2>1 DEF Stored
  <2> QED
    BY <1>2, <1>11, <2>1, <2>2
<1>14. ASSUME NEW i \in 1 .. 4 PROVE Byte(r, 27 + i) = next[i]
  <2>1. /\ 27 + i \in 0 .. 31 /\ 27 + i \in 0 .. n - 1 /\ 27 + i \in 24 .. 24 + 8 - 1
        /\ 27 + i - 24 + 1 = 4 + i
    OBVIOUS
  <2>2. Byte(b2, 27 + i) = seqs[4 + i]
    BY <1>6, <2>1 DEF Stored
  <2> QED
    BY <1>3, <1>10, <2>1, <2>2
<1> QED
  BY <1>9, <1>12, <1>13, <1>14 DEF r, next

\* The reset packet made from a packet without IP options.
LEMMA ResetBytes ==
    ASSUME NEW n \in Nat, n >= 40, NEW b, Array(b, n), Byte(b, 0) \in Bytes
    PROVE  LET r == fillin_reset(b)
           IN  /\ Tcp(r) = 20
               /\ saddr(r) = daddr(b) /\ daddr(r) = saddr(b)
               /\ Field(r, 20, 2) = Field(b, 22, 2) /\ Field(r, 22, 2) = Field(b, 20, 2)
               /\ Field(r, 28, 4) = PlusOne(Field(b, 24, 4))
<1> DEFINE c == ResetIp(b)
           r == ResetTcp(c, 20)
<1>1. /\ Array(c, n)
      /\ Tcp(c) = 20
      /\ \A i \in 1 .. 4 : Byte(c, 11 + i) = Byte(b, 15 + i)
      /\ \A i \in 1 .. 4 : Byte(c, 15 + i) = Byte(b, 11 + i)
      /\ \A o \in 20 .. n - 1 : Byte(c, o) = Byte(b, o)
  BY ResetIpBytes
<1>2. fillin_reset(b) = r
  BY <1>1 DEF fillin_reset
<1> HIDE DEF c
<1>3. /\ Array(r, n)
      /\ \A o \in 0 .. 19 : Byte(r, o) = Byte(c, o)
      /\ \A i \in 1 .. 2 : Byte(r, 19 + i) = Byte(c, 21 + i)
      /\ \A i \in 1 .. 2 : Byte(r, 21 + i) = Byte(c, 19 + i)
      /\ \A i \in 1 .. 4 : Byte(r, 27 + i) = PlusOne(Field(c, 24, 4))[i]
  BY <1>1, ResetTcpBytes
<1> HIDE DEF r
<1>4. Tcp(r) = 20
  <2>1. Byte(r, 0) = Byte(c, 0)
    BY <1>3
  <2> QED
    BY <1>1, <2>1, TcpSame
<1>5. saddr(r) = daddr(b)
  <2>1. Agree(r, 12, b, 16, 4)
    <3>1. \A i \in 1 .. 4 : 12 + i - 1 = 11 + i /\ 16 + i - 1 = 15 + i /\ 11 + i \in 0 .. 19
      OBVIOUS
    <3> QED
      BY <1>1, <1>3, <3>1 DEF Agree
  <2> QED
    BY <1>3, <2>1, SameField DEF saddr, daddr
<1>6. daddr(r) = saddr(b)
  <2>1. Agree(r, 16, b, 12, 4)
    <3>1. \A i \in 1 .. 4 : 12 + i - 1 = 11 + i /\ 16 + i - 1 = 15 + i /\ 15 + i \in 0 .. 19
      OBVIOUS
    <3> QED
      BY <1>1, <1>3, <3>1 DEF Agree
  <2> QED
    BY <1>3, <2>1, SameField DEF saddr, daddr
<1>7. Field(r, 20, 2) = Field(b, 22, 2)
  <2>1. Agree(r, 20, b, 22, 2)
    <3>1. \A i \in 1 .. 2 : 20 + i - 1 = 19 + i /\ 22 + i - 1 = 21 + i /\ 21 + i \in 20 .. n - 1
      OBVIOUS
    <3> QED
      BY <1>1, <1>3, <3>1 DEF Agree
  <2> QED
    BY <1>3, <2>1, SameField
<1>8. Field(r, 22, 2) = Field(b, 20, 2)
  <2>1. Agree(r, 22, b, 20, 2)
    <3>1. \A i \in 1 .. 2 : 20 + i - 1 = 19 + i /\ 22 + i - 1 = 21 + i /\ 19 + i \in 20 .. n - 1
      OBVIOUS
    <3> QED
      BY <1>1, <1>3, <3>1 DEF Agree
  <2> QED
    BY <1>3, <2>1, SameField
<1>9. Field(r, 28, 4) = PlusOne(Field(b, 24, 4))
  <2>1. Field(c, 24, 4) = Field(b, 24, 4)
    <3>1. \A i \in 1 .. 4 : 24 + i - 1 \in 20 .. n - 1
      OBVIOUS
    <3>2. Agree(c, 24, b, 24, 4)
      BY <1>1, <3>1 DEF Agree
    <3> QED
      BY <1>1, <3>2, SameField
  <2>2. IsField(Field(r, 28, 4), r, 28, 4)
    BY <1>3, FieldBytes
  <2>3. \A i \in 1 .. 4 : 28 + i - 1 = 27 + i
    OBVIOUS
  <2>4. Array(PlusOne(Field(b, 24, 4)), 4)
    BY DEF PlusOne, Array
  <2>5. \A i \in 1 .. 4 : Field(r, 28, 4)[i] = PlusOne(Field(b, 24, 4))[i]
    BY <1>3, <2>1, <2>2, <2>3 DEF IsField
  <2>6. Array(Field(r, 28, 4), 4)
    BY <2>2 DEF IsField
  <2> QED
    BY <2>4, <2>5, <2>6, SameArray
<1> QED
  BY <1>2, <1>4, <1>5, <1>6, <1>7, <1>8, <1>9

-----------------------------------------------------------------------------
(* The theorems                                                            *)

\* The buffer holds bytes, a handler starts with what was read, and what it
\* leaves behind satisfies what the operations promise.
HeadersInv ==
    /\ orig \in Seq(Bytes) /\ Len(orig) >= 40 /\ read_len \in Nat
    /\ phase = "received" => buffer = orig
    /\ OnlyRewritten
    /\ ResetReversesPlain

LEMMA OrigArray ==
    ASSUME orig \in Seq(Bytes)
    PROVE  /\ Len(orig) \in Nat
           /\ Array(orig, Len(orig))
           /\ \A o \in 0 .. Len(orig) - 1 : Byte(orig, o) \in Bytes
<1>1. Len(orig) \in Nat /\ orig \in [1 .. Len(orig) -> Bytes]
  BY LenProperties
<1>2. Array(orig, Len(orig))
  BY <1>1 DEF Array
<1>3. \A o \in 0 .. Len(orig) - 1 : o + 1 \in 1 .. Len(orig)
  BY <1>1
<1>4. \A o \in 0 .. Len(orig) - 1 : Byte(orig, o) \in Bytes
  BY <1>1, <1>3 DEF Byte
<1> QED
  BY <1>1, <1>2, <1>4

LEMMA InitHeaders == Init => HeadersInv
<1> SUFFICES ASSUME Init PROVE HeadersInv
  OBVIOUS
<1>1. PICK p \in Packets, left \in Leftovers :
         orig = p \o SubSeq(left, Len(p) + 1, Len(left)) /\ read_len = Len(p)
  BY DEF Init
<1>2. /\ p \in Seq(Bytes) /\ left \in Seq(Bytes)
      /\ Len(left) >= 40 /\ Len(p) <= Len(left)
  BY <1>1, PacketsAssumption
<1>3. Len(p) \in Nat /\ Len(left) \in Nat
  BY <1>2, LenProperties
<1>4. \A i \in Len(p) + 1 .. Len(left) : left[i] \in Bytes
  <2>1. \A i \in Len(p) + 1 .. Len(left) : i \in 1 .. Len(left)
    BY <1>3
  <2> QED
    BY <1>2, <2>1, ElementOfSeq
<1> DEFINE rest == SubSeq(left, Len(p) + 1, Len(left))
<1>5. /\ rest \in Seq(Bytes)
      /\ Len(rest) = IF Len(p) + 1 <= Len(left) THEN Len(left) - (Len(p) + 1) + 1 ELSE 0
  BY <1>3, <1>4, SubSeqProperties
<1>6. Len(rest) = Len(left) - Len(p)
  BY <1>2, <1>3, <1>5
<1> HIDE DEF rest
<1>7. p \o rest \in Seq(Bytes) /\ Len(p \o rest) = Len(p) + Len(rest)
  BY <1>2, <1>5, ConcatProperties
<1>8. orig = p \o rest /\ read_len = Len(p)
  BY <1>1 DEF rest
<1>9. orig \in Seq(Bytes) /\ Len(orig) >= 40 /\ read_len \in Nat
  BY <1>2, <1>3, <1>6, <1>7, <1>8
<1>10. phase = "received" /\ buffer = orig
  BY DEF Init
<1> QED
  BY <1>9, <1>10 DEF HeadersInv, OnlyRewritten, ResetReversesPlain, ResetReverses

LEMMA NextHeaders == HeadersInv /\ [Next]_vars => HeadersInv'
<1> SUFFICES ASSUME HeadersInv, [Next]_vars PROVE HeadersInv'
  OBVIOUS
<1> DEFINE n == Len(orig)
<1>1. /\ n \in Nat /\ n >= 40 /\ n > 0
      /\ Array(orig, n)
      /\ Byte(orig, 0) \in Bytes
  BY OrigArray DEF HeadersInv
<1>2. ASSUME NEW ip \in Addrs PROVE Len(ip) = 4
  <2>1. ip \in [1 .. 4 -> Bytes]
    BY AddrsAssumption
  <2>2. Array(ip, 4)
    BY <2>1 DEF Array
  <2> QED
    BY <2>2, ArrayIsSeq
<1>3. ASSUME NEW ip \in Addrs, NEW port \in PortNums, ToWorld(ip, port)
      PROVE  HeadersInv'
  <2>1. /\ buffer = orig /\ buffer' = replace_src_ip_port(orig, ip, port)
        /\ phase' = "src" /\ orig' = orig /\ read_len' = read_len
    BY <1>3 DEF ToWorld, HeadersInv
  <2>2. \A o \in 0 .. n - 1 :
           o \notin 12 .. 15 \cup Tcp(orig) .. Tcp(orig) + 1
                    \cup {10, 11, Tcp(orig) + 16, Tcp(orig) + 17} =>
              Byte(buffer', o) = Byte(orig, o)
    BY <1>1, <1>2, <2>1, RewriteBytes
  <2>3. OnlyRewritten'
    BY <2>1, <2>2 DEF OnlyRewritten
  <2> QED
    BY <2>1, <2>3 DEF HeadersInv, ResetReversesPlain, ResetReverses
<1>4. ASSUME NEW ip \in Addrs, NEW port \in PortNums, ToClient(ip, port)
      PROVE  HeadersInv'
  <2>1. /\ buffer = orig /\ buffer' = replace_dst_ip_port(orig, ip, port)
        /\ phase' = "dst" /\ orig' = orig /\ read_len' = read_len
    BY <1>4 DEF ToClient, HeadersInv
  <2>2. \A o \in 0 .. n - 1 :
           o \notin 16 .. 19 \cup Tcp(orig) + 2 .. Tcp(orig) + 3
                    \cup {10, 11, Tcp(orig) + 16, Tcp(orig) + 17} =>
              Byte(buffer', o) = Byte(orig, o)
    BY <1>1, <1>2, <2>1, RewriteBytes
  <2>3. OnlyRewritten'
    BY <2>1, <2>2 DEF OnlyRewritten
  <2> QED
    BY <2>1, <2>3 DEF HeadersInv, ResetReversesPlain, ResetReverses
<1>5. CASE Refuse
  <2>1. /\ buffer = orig /\ buffer' = fillin_reset(orig)
        /\ phase' = "reset" /\ orig' = orig /\ read_len' = read_len
    BY <1>5 DEF Refuse, HeadersInv
  <2>2. /\ Tcp(buffer') = 20
        /\ saddr(buffer') = daddr(orig) /\ daddr(buffer') = saddr(orig)
        /\ Field(buffer', 20, 2) = Field(orig, 22, 2)
        /\ Field(buffer', 22, 2) = Field(orig, 20, 2)
        /\ Field(buffer', 28, 4) = PlusOne(Field(orig, 24, 4))
    BY <1>1, <2>1, ResetBytes
  <2>3. ihl(orig) = 5 => Tcp(orig) = 20
    BY DEF Tcp
  <2>4. ResetReversesPlain'
    BY <2>1, <2>2, <2>3 DEF ResetReversesPlain, ResetReverses
  <2> QED
    BY <2>1, <2>4 DEF HeadersInv, OnlyRewritten
<1>6. CASE UNCHANGED vars
  BY <1>6 DEF vars, HeadersInv, OnlyRewritten, ResetReversesPlain, ResetReverses
<1> QED
  BY <1>3, <1>4, <1>5, <1>6 DEF Next

LEMMA SpecHeaders == Spec => []HeadersInv
BY InitHeaders, NextHeaders, PTL DEF Spec

\* Rewriting changes one address, one port and the two checksums of a packet,
\* whatever its length, its options and its payload.
THEOREM OnlyRewrittenHolds == Spec => []OnlyRewritten
<1>1. HeadersInv => OnlyRewritten
  BY DEF HeadersInv
<1> QED
  BY <1>1, SpecHeaders, PTL

\* A reset packet made from any packet without IP options goes back where the
\* packet came from and acknowledges its number plus one.
THEOREM ResetReversesPlainHolds == Spec => []ResetReversesPlain
<1>1. HeadersInv => ResetReversesPlain
  BY DEF HeadersInv
<1> QED
  BY <1>1, SpecHeaders, PTL

\* The largest of what the rewriting reaches is one of its ends.
LEMMA LastTouchedIs ==
    ASSUME NEW b, Tcp(b) \in Nat, doff(b, Tcp(b)) \in Nat, tot_len(b) \in Nat
    PROVE  LastTouched(b) \in {20, Tcp(b), Tcp(b) + 20, Tcp(b) + doff(b, Tcp(b)) * 4, tot_len(b)}
<1> DEFINE t == Tcp(b)
           d == doff(b, Tcp(b)) * 4
           l == tot_len(b)
           ends == {20, t, t + 20, t + d, l}
<1>1. t \in Nat /\ d \in Nat /\ l \in Nat
  OBVIOUS
<1>2. LastTouched(b) = CHOOSE e \in ends : \A f \in ends : f <= e
  BY DEF LastTouched, SizeofIphdr, SizeofTcphdr
<1> HIDE DEF t, d, l
<1>3. \E e \in ends : \A f \in ends : f <= e
  <2>1. \E e \in {t + 20, t + d, l} : t + 20 <= e /\ t + d <= e /\ l <= e
    BY <1>1
  <2> QED
    BY <1>1, <2>1
<1>4. LastTouched(b) \in ends
  BY <1>2, <1>3
<1> QED
  BY <1>4 DEF t, d, l

LEMMA LengthTypes ==
    ASSUME HeadersInv, validate_ip_tcp(orig)
    PROVE  /\ Len(orig) \in Nat /\ Tcp(orig) \in Nat
           /\ doff(orig, Tcp(orig)) \in Nat /\ tot_len(orig) \in Nat
           /\ 40 <= Len(orig) /\ Tcp(orig) + 20 <= Len(orig) /\ tot_len(orig) <= Len(orig)
           /\ Tcp(orig) + doff(orig, Tcp(orig)) * 4 <= tot_len(orig)
<1>1. Len(orig) \in Nat /\ \A o \in 0 .. Len(orig) - 1 : Byte(orig, o) \in Bytes
  BY OrigArray DEF HeadersInv
<1>2. /\ 40 <= Len(orig) /\ Tcp(orig) + 20 <= Len(orig) /\ tot_len(orig) <= Len(orig)
      /\ tot_len(orig) >= Tcp(orig) + doff(orig, Tcp(orig)) * 4
  BY DEF validate_ip_tcp, SizeofIphdr, SizeofTcphdr
<1>3. Byte(orig, 0) \in Bytes /\ Byte(orig, 2) \in Bytes /\ Byte(orig, 3) \in Bytes
  BY <1>1, <1>2
<1>4. Tcp(orig) \in Nat
  BY <1>3, TcpOffset
<1>5. Byte(orig, Tcp(orig) + 12) \in Bytes
  <2>1. Tcp(orig) + 12 \in 0 .. Len(orig) - 1
    BY <1>1, <1>2, <1>4
  <2> QED
    BY <1>1, <2>1
<1>6. doff(orig, Tcp(orig)) \in Nat
  BY <1>5 DEF doff, Bytes
<1>7. tot_len(orig) \in Nat
  <2>1. tot_len(orig) = 256 * Byte(orig, 2) + Byte(orig, 3)
    BY DEF tot_len, Short
  <2>2. \A x, y \in Bytes : 256 * x + y \in Nat
    BY DEF Bytes
  <2> QED
    BY <1>3, <2>1, <2>2
<1> QED
  BY <1>1, <1>2, <1>4, <1>6, <1>7

\* validate_ip_tcp keeps the rewriting of every packet it accepts within the
\* buffer, by the header lengths and the total length it has checked.
THEOREM InBoundsHolds == Spec => []InBounds
<1>1. HeadersInv => InBounds
  <2> SUFFICES ASSUME HeadersInv, validate_ip_tcp(orig)
               PROVE  LastTouched(orig) <= Len(orig)
    BY DEF InBounds
  <2> DEFINE d == doff(orig, Tcp(orig)) * 4
  <2>1. LastTouched(orig) \in {20, Tcp(orig), Tcp(orig) + 20, Tcp(orig) + d, tot_len(orig)}
    BY LengthTypes, LastTouchedIs
  <2>2. /\ Len(orig) \in Nat /\ Tcp(orig) \in Nat /\ d \in Nat /\ tot_len(orig) \in Nat
        /\ 40 <= Len(orig) /\ Tcp(orig) + 20 <= Len(orig) /\ tot_len(orig) <= Len(orig)
        /\ Tcp(orig) + d <= tot_len(orig)
    BY LengthTypes
  <2> HIDE DEF d
  <2> QED
    BY <2>1, <2>2
<1> QED
  BY <1>1, SpecHeaders, PTL

=============================================================================
