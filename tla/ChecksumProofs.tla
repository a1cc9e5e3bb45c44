--------------------------- MODULE ChecksumProofs ---------------------------
(***************************************************************************)
(* The checksums of ProtocolHeaders, for packets of every content: what    *)
(* the fold over the words and the recursive carries compute, and that a   *)
(* receiver accepts what the handlers leave behind.                        *)
(*                                                                         *)
(* Inductions over the length of a packet and over the carries are made by *)
(* looking at the least number for which a statement fails.                *)
(***************************************************************************)
EXTENDS ProtocolHeadersProofs, WellFoundedInduction

-----------------------------------------------------------------------------
(* Numbers                                                                 *)

LEMMA LeastNat ==
    ASSUME NEW T, T \subseteq Nat, T # {}
    PROVE  \E m \in T : \A k \in T : m <= k
<1>1. PICK m \in T : \A k \in T : <<k, m>> \notin OpToRel(<, Nat)
  BY WFMin, NatLessThanWellFounded, Zenon
<1>2. \A k \in T : ~ (k < m)
  BY <1>1 DEF OpToRel
<1> QED
  BY <1>2

\* Ranges of this size are written as inequalities, which the provers prefer.
Word(x) == x \in Nat /\ x <= 65535

\* Equal up to multiples of 65535.
Modulus == 65535
Congruent(a, b) == \E q \in Int : a = b + Modulus * q

LEMMA CongruentTrans ==
    ASSUME NEW a \in Int, NEW b \in Int, NEW c \in Int, Congruent(a, b), Congruent(b, c)
    PROVE  Congruent(a, c)
<1>1. PICK q \in Int : a = b + Modulus * q
  BY DEF Congruent
<1>2. PICK r \in Int : b = c + Modulus * r
  BY DEF Congruent
<1>3. a = c + Modulus * (q + r) /\ q + r \in Int
  BY <1>1, <1>2, SMT DEF Modulus
<1> QED
  BY <1>3, Zenon DEF Congruent

LEMMA CongruentPlus ==
    ASSUME NEW a \in Int, NEW b \in Int, NEW c \in Int, Congruent(a, b)
    PROVE  Congruent(a + c, b + c) /\ Congruent(c + a, c + b)
<1>1. PICK q \in Int : a = b + Modulus * q
  BY DEF Congruent
<1>2. a + c = (b + c) + Modulus * q /\ c + a = (c + b) + Modulus * q
  BY <1>1, SMT DEF Modulus
<1> QED
  BY <1>2, Zenon DEF Congruent

-----------------------------------------------------------------------------
(* The carries                                                             *)

\* One end-around carry.
Around(n) == (n \div 65536) + (n % 65536)

LEMMA AroundLess ==
    ASSUME NEW n \in Nat, n > 65535
    PROVE  Around(n) \in Nat /\ Around(n) > 0 /\ Around(n) < n /\ Congruent(n, Around(n))
<1>1. PICK q \in Int, r \in Nat : q = n \div 65536 /\ r = n % 65536
  BY SMT
<1>2. n = 65536 * q + r /\ r <= 65535
  BY <1>1, SMT
<1>3. Around(n) = q + r
  BY <1>1, SMT DEF Around
<1>4. q > 0
  BY <1>2, SMT
<1>5. n = (q + r) + 65535 * q
  BY <1>2, SMT
<1>6. Congruent(n, q + r)
  BY <1>5, SMT DEF Congruent, Modulus
<1> QED
  BY <1>2, <1>3, <1>4, <1>6, SMT

\* The number of 1 .. 65535 a positive number is congruent to.
Residue(n, c) == c \in Nat /\ c > 0 /\ c <= 65535 /\ Congruent(n, c)

LEMMA ResidueExists ==
    ASSUME NEW n \in Nat, n > 0
    PROVE  \E c : Residue(n, c)
<1>1. PICK q \in Int, r \in Nat : q = (n - 1) \div 65535 /\ r = (n - 1) % 65535
  BY SMT
<1>2. n - 1 = 65535 * q + r /\ r <= 65534
  BY <1>1, SMT
<1>3. PICK c \in Nat : c = r + 1
  OBVIOUS
<1>4. n = c + 65535 * q /\ c > 0 /\ c <= 65535
  BY <1>2, <1>3, SMT
<1>5. Congruent(n, c)
  BY <1>4, SMT DEF Congruent, Modulus
<1> QED
  BY <1>4, <1>5, SMT DEF Residue

LEMMA ResidueUnique ==
    ASSUME NEW n \in Nat, NEW c, NEW d, Residue(n, c), Residue(n, d)
    PROVE  c = d
<1>1. PICK q \in Int : n = c + 65535 * q
  BY SMT DEF Residue, Congruent, Modulus
<1>2. PICK r \in Int : n = d + 65535 * r
  BY SMT DEF Residue, Congruent, Modulus
<1>3. c \in Nat /\ c > 0 /\ c <= 65535 /\ d \in Nat /\ d > 0 /\ d <= 65535
  BY SMT DEF Residue
<1> QED
  BY <1>1, <1>2, <1>3, SMT

\* What the carries make of a number, said without recursion.
Carried == [n \in Nat |-> IF n <= 65535 THEN n ELSE CHOOSE c : Residue(n, c)]

LEMMA CarriedResidue ==
    ASSUME NEW n \in Nat, n > 0
    PROVE  Residue(n, Carried[n])
<1>1. CASE n <= 65535
  <2>1. n = n + 65535 * 0
    BY SMT
  <2>2. Congruent(n, n)
    BY <2>1, SMT DEF Congruent, Modulus
  <2> QED
    BY <1>1, <2>2, SMT DEF Carried, Residue
<1>2. CASE n > 65535
  <2>1. Carried[n] = CHOOSE c : Residue(n, c)
    BY <1>2, SMT DEF Carried
  <2> QED
    BY <2>1, ResidueExists, SMT
<1> QED
  BY <1>1, <1>2, SMT

\* Carry satisfies its equation, as Carried does.
LEMMA CarryDef ==
    Carry = [n \in Nat |-> IF n <= 65535 THEN n ELSE Carry[Around(n)]]
<1>1. ASSUME NEW n \in Nat, n > 65535
      PROVE  Carried[n] = Carried[Around(n)]
  <2>1. Around(n) \in Nat /\ Around(n) > 0 /\ Congruent(n, Around(n))
    BY <1>1, AroundLess, SMT
  <2>2. Residue(n, Carried[n]) /\ Residue(Around(n), Carried[Around(n)])
    BY <1>1, <2>1, CarriedResidue, SMT
  <2>3. Residue(n, Carried[Around(n)])
    BY <2>1, <2>2, CongruentTrans, SMT DEF Residue
  <2> QED
    BY <2>2, <2>3, ResidueUnique, SMT
<1>2. Carried = [n \in Nat |-> IF n <= 65535 THEN n ELSE Carried[n]]
  BY SMT DEF Carried
<1>3. Carried = [n \in Nat |-> IF n <= 65535 THEN n ELSE Carried[Around(n)]]
  BY <1>1, <1>2, SMT
<1>4. \E f : f = [n \in Nat |-> IF n <= 65535 THEN n
                                ELSE f[(n \div 65536) + (n % 65536)]]
  BY <1>3, SMT DEF Around
<1>5. Carry = [n \in Nat |-> IF n <= 65535 THEN n
                             ELSE Carry[(n \div 65536) + (n % 65536)]]
  BY <1>4, SMT DEF Carry
<1> QED
  BY <1>5, SMT DEF Around

\* The carries end in 16 bits and change a sum by multiples of 65535 only.
LEMMA CarryIs ==
    ASSUME NEW n \in Nat
    PROVE  Word(Carry[n]) /\ Congruent(n, Carry[n])
<1> DEFINE T == {k \in Nat : ~ (Word(Carry[k]) /\ Congruent(k, Carry[k]))}
<1>1. ASSUME NEW m \in Nat, \A k \in Nat : k < m => Word(Carry[k]) /\ Congruent(k, Carry[k])
      PROVE  Word(Carry[m]) /\ Congruent(m, Carry[m])
  <2>1. CASE m <= 65535
    <3>1. Carry[m] = m
      BY <2>1, CarryDef, SMT
    <3>2. m = m + 65535 * 0
      BY SMT
    <3> QED
      BY <2>1, <3>1, <3>2, SMT DEF Word, Congruent, Modulus
  <2>2. CASE m > 65535
    <3>1. Around(m) \in Nat /\ Around(m) < m /\ Congruent(m, Around(m))
      BY <2>2, AroundLess, SMT
    <3>2. Word(Carry[Around(m)]) /\ Congruent(Around(m), Carry[Around(m)])
      BY <1>1, <3>1, SMT
    <3>3. Carry[m] = Carry[Around(m)]
      BY <2>2, CarryDef, SMT
    <3>4. Congruent(m, Carry[m])
      BY <3>1, <3>2, <3>3, CongruentTrans, SMT DEF Word
    <3> QED
      BY <3>2, <3>3, <3>4, SMT
  <2> QED
    BY <2>1, <2>2, SMT
<1>2. ASSUME T # {} PROVE FALSE
  <2>1. PICK m \in T : \A k \in T : m <= k
    <3>1. T \subseteq Nat
      OBVIOUS
    <3> HIDE DEF T
    <3> QED
      BY <1>2, <3>1, LeastNat
  <2>2. \A k \in Nat : k < m => k \notin T
    BY <2>1, SMT
  <2> QED
    BY <1>1, <2>2
<1> QED
  BY <1>2

-----------------------------------------------------------------------------
(* The sum of the words                                                    *)

\* The function that defines the fold over the positions 1 .. n of w.
Folding(f, n, w, base) ==
    f = [s \in SUBSET (1 .. n) |->
            IF s = {} THEN base ELSE f[s \ {Max(s)}] + w[Max(s)]]

LEMMA MaxIs ==
    ASSUME NEW s, NEW m \in Int, m \in s, \A k \in s : k \in Int /\ k <= m
    PROVE  Max(s) = m
<1>1. \A y \in s : m >= y
  OBVIOUS
<1>2. Max(s) \in s /\ \A y \in s : Max(s) >= y
  BY <1>1, Zenon DEF Max
<1>3. Max(s) \in Int /\ Max(s) <= m /\ Max(s) >= m
  BY <1>2
<1> QED
  BY <1>3

\* The fold of n + 1 elements exists if the fold of n does.
LEMMA FoldingNext ==
    ASSUME NEW n \in Nat, NEW w, NEW base, NEW f, Folding(f, n, w, base)
    PROVE  \E g : Folding(g, n + 1, w, base)
<1> DEFINE g == [s \in SUBSET (1 .. n + 1) |->
                    IF n + 1 \in s THEN f[s \ {n + 1}] + w[n + 1] ELSE f[s]]
<1>1. ASSUME NEW s \in SUBSET (1 .. n + 1)
      PROVE  g[s] = IF s = {} THEN base ELSE g[s \ {Max(s)}] + w[Max(s)]
  <2>1. CASE n + 1 \in s
    <3>1. Max(s) = n + 1
      <4>1. n + 1 \in Int /\ \A k \in s : k \in Int /\ k <= n + 1
        OBVIOUS
      <4> QED
        BY <2>1, <4>1, MaxIs
    <3>2. s \ {n + 1} \in SUBSET (1 .. n + 1) /\ n + 1 \notin s \ {n + 1} /\ s # {}
      BY <2>1
    <3>3. g[s \ {n + 1}] = f[s \ {n + 1}]
      BY <3>2
    <3>4. g[s] = f[s \ {n + 1}] + w[n + 1]
      BY <2>1
    <3> HIDE DEF g
    <3> QED
      BY <3>1, <3>2, <3>3, <3>4
  <2>2. CASE n + 1 \notin s
    <3>1. s \in SUBSET (1 .. n)
      BY <2>2
    <3>2. f[s] = IF s = {} THEN base ELSE f[s \ {Max(s)}] + w[Max(s)]
      BY <3>1 DEF Folding
    <3>3. g[s] = f[s]
      BY <2>2
    <3>4. g[s \ {Max(s)}] = f[s \ {Max(s)}]
      BY <2>2
    <3> HIDE DEF g
    <3> QED
      BY <3>2, <3>3, <3>4
  <2> QED
    BY <2>1, <2>2
<1>2. g = [s \in SUBSET (1 .. n + 1) |-> g[s]]
  OBVIOUS
<1> HIDE DEF g
<1>3. Folding(g, n + 1, w, base)
  BY <1>1, <1>2 DEF Folding
<1> QED
  BY <1>3

LEMMA FoldingExists ==
    ASSUME NEW n \in Nat, NEW w, NEW base
    PROVE  \E f : Folding(f, n, w, base)
<1> DEFINE T == {k \in Nat : ~ \E f : Folding(f, k, w, base)}
<1>1. 0 \notin T
  <2> DEFINE f == [s \in SUBSET (1 .. 0) |-> base]
  <2>1. \A s \in SUBSET (1 .. 0) : s = {}
    OBVIOUS
  <2>2. Folding(f, 0, w, base)
    BY <2>1 DEF Folding
  <2> HIDE DEF f
  <2> QED
    BY <2>2
<1>2. ASSUME T # {} PROVE FALSE
  <2>1. PICK m \in T : \A k \in T : m <= k
    <3>1. T \subseteq Nat
      OBVIOUS
    <3> HIDE DEF T
    <3> QED
      BY <1>2, <3>1, LeastNat
  <2>2. m \in Nat /\ m # 0
    BY <1>1
  <2>3. m - 1 \in Nat /\ m - 1 \notin T /\ (m - 1) + 1 = m
    <3> HIDE DEF T
    <3> QED
      BY <2>1, <2>2
  <2>4. PICK f : Folding(f, m - 1, w, base)
    BY <2>3
  <2>5. \E g : Folding(g, m, w, base)
    BY <2>3, <2>4, FoldingNext
  <2> QED
    BY <2>5
<1> QED
  BY <1>2

\* p are the partial sums of the n elements of w.
Sums(p, w, n) ==
    /\ \A k \in 0 .. n : p[k] \in Int
    /\ \A k \in 1 .. n : w[k] \in Int /\ p[k] = p[k - 1] + w[k]

LEMMA WordSumIs ==
    ASSUME NEW n \in Nat, NEW f, DOMAIN Words(f) = 1 .. n, NEW base \in Int,
           \A i \in 1 .. n : Words(f)[i] \in Int
    PROVE  \E p : Sums(p, Words(f), n) /\ p[0] = base /\ WordSum(f, base) = p[n]
<1> DEFINE w == Words(f)
           it == CHOOSE g : Folding(g, n, w, base)
           p == [k \in 0 .. n |-> it[1 .. k]]
<1>1. WordSum(f, base) = it[DOMAIN w]
  BY DEF WordSum, FoldLeft, MapThenFoldSet, Folding
<1>2. Folding(it, n, w, base)
  BY FoldingExists
<1> HIDE DEF it
<1>3. \A k \in 0 .. n : p[k] = it[1 .. k]
  OBVIOUS
<1> HIDE DEF p
<1>4. p[0] = base
  <2>1. 1 .. 0 \in SUBSET (1 .. n) /\ 1 .. 0 = {}
    OBVIOUS
  <2>2. it[1 .. 0] = base
    BY <1>2, <2>1 DEF Folding
  <2>3. 0 \in 0 .. n
    OBVIOUS
  <2> QED
    BY <1>3, <2>2, <2>3
<1>5. ASSUME NEW k \in 1 .. n
      PROVE  p[k] = p[k - 1] + w[k]
  <2>1. Max(1 .. k) = k
    <3>1. k \in Int /\ k \in 1 .. k /\ \A j \in 1 .. k : j \in Int /\ j <= k
      OBVIOUS
    <3> QED
      BY <3>1, MaxIs
  <2>2. 1 .. k \in SUBSET (1 .. n) /\ 1 .. k # {} /\ (1 .. k) \ {k} = 1 .. k - 1
    <3>1. \A j : j \in 1 .. k => j \in 1 .. n
      OBVIOUS
    <3>2. k \in 1 .. k
      OBVIOUS
    <3>3. \A j : j \in (1 .. k) \ {k} <=> j \in 1 .. k - 1
      OBVIOUS
    <3> QED
      BY <3>1, <3>2, <3>3
  <2>3. it[1 .. k] = it[(1 .. k) \ {Max(1 .. k)}] + w[Max(1 .. k)]
    BY <1>2, <2>2 DEF Folding
  <2>4. k \in 0 .. n /\ k - 1 \in 0 .. n
    OBVIOUS
  <2> QED
    BY <1>3, <2>1, <2>2, <2>3, <2>4
<1> DEFINE T == {k \in Nat : k <= n /\ p[k] \notin Int}
<1>6. ASSUME T # {} PROVE FALSE
  <2>1. PICK m \in T : \A k \in T : m <= k
    <3>1. T \subseteq Nat
      OBVIOUS
    <3> HIDE DEF T
    <3> QED
      BY <1>6, <3>1, LeastNat
  <2>2. m \in 1 .. n /\ p[m - 1] \in Int
    BY <1>4, <2>1
  <2> QED
    BY <1>5, <2>2
<1>7. \A k \in 0 .. n : p[k] \in Int
  BY <1>6
<1>8. WordSum(f, base) = p[n]
  BY <1>1, <1>3
<1> QED
  BY <1>4, <1>5, <1>7, <1>8 DEF Sums

\* After position i of w come the same l elements as after position j of v.
Alike(w, i, v, j, l) == \A k \in 1 .. l : w[i + k] = v[j + k]

\* p are the partial sums of w, of which position a is l elements after i.
Span(p, w, i, l, a) ==
    \E n \in Nat : Sums(p, w, n) /\ i \in Nat /\ l \in Nat /\ a = i + l /\ a <= n

\* Over equal elements two partial sums grow alike.
LEMMA SumsAlike ==
    ASSUME NEW p, NEW w, NEW q, NEW v, NEW i, NEW j, NEW l, NEW a, NEW b,
           Span(p, w, i, l, a), Span(q, v, j, l, b), Alike(w, i, v, j, l)
    PROVE  p[a] - p[i] = q[b] - q[j]
<1>0. PICK n \in Nat : Sums(p, w, n) /\ i \in Nat /\ l \in Nat /\ a = i + l /\ a <= n
  BY DEF Span
<1>b. PICK m \in Nat : Sums(q, v, m) /\ j \in Nat /\ b = j + l /\ b <= m
  BY DEF Span
<1> DEFINE T == {k \in Nat : k <= l /\ p[i + k] - p[i] # q[j + k] - q[j]}
<1>1. \A k \in 0 .. l : p[i + k] \in Int /\ q[j + k] \in Int
  BY <1>0, <1>b DEF Sums
<1>2. ASSUME T # {} PROVE FALSE
  <2>1. PICK x \in T : \A k \in T : x <= k
    <3>1. T \subseteq Nat
      OBVIOUS
    <3> HIDE DEF T
    <3> QED
      BY <1>2, <3>1, LeastNat
  <2>2. x \in Nat /\ x <= l /\ p[i + x] - p[i] # q[j + x] - q[j]
    OBVIOUS
  <2>3. x # 0
    <3> SUFFICES ASSUME x = 0 PROVE FALSE
      OBVIOUS
    <3>1. i + x = i /\ j + x = j /\ x \in 0 .. l
      BY <1>0, <1>b
    <3>2. p[i] \in Int /\ q[j] \in Int
      BY <1>1, <3>1
    <3>3. p[i] - p[i] = q[j] - q[j]
      BY <3>2
    <3> QED
      BY <2>2, <3>1, <3>3
  <2> DEFINE y == x - 1
  <2>4. y \in Nat /\ y <= l /\ y < x
    BY <1>0, <2>2, <2>3
  <2>5. p[i + y] - p[i] = q[j + y] - q[j]
    <3>1. y \notin T
      <4> HIDE DEF T, y
      <4> QED
        BY <2>1, <2>2, <2>4
    <3> QED
      BY <2>4, <3>1
  <2>6. /\ i + x \in 1 .. n /\ j + x \in 1 .. m /\ x \in 1 .. l
        /\ i + x - 1 = i + y /\ j + x - 1 = j + y
    BY <1>0, <1>b, <2>2, <2>3
  <2>7. p[i + x] = p[i + y] + w[i + x] /\ q[j + x] = q[j + y] + v[j + x]
    BY <1>0, <1>b, <2>6 DEF Sums
  <2>8. w[i + x] = v[j + x] /\ w[i + x] \in Int
    BY <1>0, <1>b, <2>6 DEF Sums, Alike
  <2>9. /\ p[i] \in Int /\ q[j] \in Int /\ p[i + y] \in Int /\ q[j + y] \in Int
        /\ p[i + x] \in Int /\ q[j + x] \in Int
    <3>1. 0 \in 0 .. l /\ x \in 0 .. l /\ y \in 0 .. l /\ i + 0 = i /\ j + 0 = j
      BY <1>0, <1>b, <2>2, <2>4
    <3> HIDE DEF y
    <3> QED
      BY <1>1, <3>1
  <2>10. p[i + x] - p[i + y] = q[j + x] - q[j + y]
    BY <2>7, <2>8, <2>9
  <2> QED
    BY <2>2, <2>5, <2>9, <2>10
<1>3. T = {}
  <2> HIDE DEF T
  <2> QED
    BY <1>2
<1>4. l \in Nat /\ l <= l
  BY <1>0
<1>5. p[i + l] - p[i] = q[j + l] - q[j]
  BY <1>3, <1>4
<1> QED
  BY <1>0, <1>b, <1>5

-----------------------------------------------------------------------------
(* Sums over bytes                                                         *)

LEMMA ByteIs == \A x : x \in Bytes <=> x \in Nat /\ x <= 255
BY DEF Bytes

\* The number of words of k bytes.
Half(k) == (k + 1) \div 2

LEMMA HalfIs ==
    ASSUME NEW k \in Nat
    PROVE  Half(k) \in Nat /\ (2 * Half(k) = k \/ 2 * Half(k) = k + 1)
BY DEF Half

\* w are the words of the k bytes of f.
WordsOf(w, f, k) ==
    /\ DOMAIN w = 1 .. Half(k)
    /\ \A i \in 1 .. Half(k) :
          /\ w[i] = 256 * f[2 * i - 1] + (IF 2 * i <= k THEN f[2 * i] ELSE 0)
          /\ w[i] \in Nat

LEMMA WordsAre ==
    ASSUME NEW k \in Nat, NEW f \in [1 .. k -> Bytes]
    PROVE  WordsOf(Words(f), f, k)
<1>1. Len(f) = k
  <2>1. Array(f, k)
    BY DEF Array
  <2> QED
    BY <2>1, ArrayIsSeq
<1>2. Words(f) = [i \in 1 .. Half(k) |->
                     256 * f[2 * i - 1] + (IF 2 * i <= k THEN f[2 * i] ELSE 0)]
  BY <1>1 DEF Words, Half
<1>3. ASSUME NEW i \in 1 .. Half(k)
      PROVE  256 * f[2 * i - 1] + (IF 2 * i <= k THEN f[2 * i] ELSE 0) \in Nat
  <2>1. 2 * i - 1 \in 1 .. k
    <3>1. Half(k) \in Nat /\ (2 * Half(k) = k \/ 2 * Half(k) = k + 1)
      BY HalfIs
    <3>2. i \in Int /\ 1 <= i /\ i <= Half(k)
      BY <3>1
    <3> QED
      BY <3>1, <3>2
  <2>2. f[2 * i - 1] \in Nat
    BY <2>1, ByteIs
  <2>3. 2 * i <= k => f[2 * i] \in Nat
    <3>1. 2 * i <= k => 2 * i \in 1 .. k
      OBVIOUS
    <3> QED
      BY <3>1, ByteIs
  <2> QED
    BY <2>2, <2>3
<1> QED
  BY <1>2, <1>3 DEF WordsOf

LEMMA SumsGrow ==
    ASSUME NEW n \in Nat, NEW p, NEW w, Sums(p, w, n), \A k \in 1 .. n : w[k] \in Nat
    PROVE  p[n] >= p[0]
<1> DEFINE T == {k \in Nat : k <= n /\ ~ p[k] >= p[0]}
<1>1. ASSUME T # {} PROVE FALSE
  <2>1. PICK x \in T : \A k \in T : x <= k
    <3>1. T \subseteq Nat
      OBVIOUS
    <3> HIDE DEF T
    <3> QED
      BY <1>1, <3>1, LeastNat
  <2>2. x \in Nat /\ x <= n /\ ~ p[x] >= p[0]
    OBVIOUS
  <2>3. 0 \in 0 .. n /\ p[0] \in Int
    BY DEF Sums
  <2>4. x # 0
    BY <2>2, <2>3
  <2>5. x - 1 \in Nat /\ x - 1 <= n /\ x - 1 < x
    BY <2>2, <2>4
  <2>6. p[x - 1] >= p[0]
    <3>1. x - 1 \notin T
      <4> HIDE DEF T
      <4> QED
        BY <2>1, <2>2, <2>5
    <3> QED
      BY <2>5, <3>1
  <2>7. x \in 1 .. n /\ x - 1 \in 0 .. n
    BY <2>2, <2>4
  <2>8. p[x] = p[x - 1] + w[x] /\ w[x] \in Nat /\ p[x - 1] \in Int
    BY <2>7 DEF Sums
  <2> QED
    BY <2>2, <2>3, <2>6, <2>8
<1>2. n \notin T
  BY <1>1
<1> QED
  BY <1>2

\* The partial sums of the words of f.
LEMMA WordSums ==
    ASSUME NEW k \in Nat, NEW f \in [1 .. k -> Bytes], NEW s \in Nat
    PROVE  \E p : Sums(p, Words(f), Half(k)) /\ p[0] = s /\ p[Half(k)] = WordSum(f, s)
<1>1. /\ DOMAIN Words(f) = 1 .. Half(k)
      /\ \A i \in 1 .. Half(k) : Words(f)[i] \in Int
  BY WordsAre DEF WordsOf
<1>2. Half(k) \in Nat /\ s \in Int
  BY HalfIs
<1>3. \E p : Sums(p, Words(f), Half(k)) /\ p[0] = s /\ WordSum(f, s) = p[Half(k)]
  BY <1>1, <1>2, WordSumIs
<1> QED
  BY <1>3

\* A sum can be added before or after.
LEMMA WordSumAdd ==
    ASSUME NEW k \in Nat, NEW f \in [1 .. k -> Bytes], NEW s \in Nat
    PROVE  WordSum(f, 0) \in Nat /\ WordSum(f, s) = s + WordSum(f, 0)
<1> DEFINE n == Half(k)
           w == Words(f)
<1>0. n \in Nat /\ 0 + n = n
  BY HalfIs
<1>1. PICK p : Sums(p, w, n) /\ p[0] = s /\ p[n] = WordSum(f, s)
  BY WordSums
<1>2. PICK q : Sums(q, w, n) /\ q[0] = 0 /\ q[n] = WordSum(f, 0)
  BY WordSums
<1>3. \A i \in 1 .. n : w[i] \in Nat
  BY WordsAre DEF WordsOf
<1> HIDE DEF n, w
<1>4. p[n] - p[0] = q[n] - q[0]
  <2>1. Alike(w, 0, w, 0, n)
    BY DEF Alike
  <2>2. Span(p, w, 0, n, n) /\ Span(q, w, 0, n, n)
    BY <1>0, <1>1, <1>2 DEF Span
  <2> QED
    BY <2>1, <2>2, SumsAlike
<1>5. p[n] \in Int /\ q[n] \in Int
  <2>1. n \in 0 .. n
    BY <1>0
  <2> QED
    BY <1>1, <1>2, <2>1 DEF Sums
<1>6. q[n] >= q[0]
  BY <1>0, <1>2, <1>3, SumsGrow
<1> QED
  BY <1>0, <1>1, <1>2, <1>4, <1>5, <1>6

\* The bytes h are the k bytes f and then the l bytes g, and k is even.
Pieces(h, f, k, g, l) ==
    \E c \in Nat, n \in Nat :
        /\ k \in Nat /\ k = 2 * c /\ l \in Nat /\ n = k + l
        /\ f \in [1 .. k -> Bytes] /\ g \in [1 .. l -> Bytes] /\ h \in [1 .. n -> Bytes]
        /\ Joined(h, f, k, g, l)

\* The sum of two pieces is the sum of their sums.
LEMMA WordSumJoin ==
    ASSUME NEW h, NEW f, NEW k, NEW g, NEW l, Pieces(h, f, k, g, l)
    PROVE  WordSum(h, 0) = WordSum(f, 0) + WordSum(g, 0)
<1> SUFFICES ASSUME NEW c \in Nat, NEW n \in Nat,
                    k \in Nat, k = 2 * c, l \in Nat, n = k + l,
                    f \in [1 .. k -> Bytes], g \in [1 .. l -> Bytes],
                    h \in [1 .. n -> Bytes], Joined(h, f, k, g, l)
             PROVE  WordSum(h, 0) = WordSum(f, 0) + WordSum(g, 0)
  BY Zenon DEF Pieces
<1> DEFINE m == Half(l)
           u == Half(n)
<1>1. m \in Nat /\ (2 * m = l \/ 2 * m = l + 1)
  BY HalfIs
<1>2. u \in Nat /\ (2 * u = n \/ 2 * u = n + 1)
  BY HalfIs
<1>3. Half(k) \in Nat /\ (2 * Half(k) = k \/ 2 * Half(k) = k + 1)
  BY HalfIs
<1>4. Half(k) = c
  BY <1>3
<1>5. u = c + m
  <2> HIDE DEF u, m
  <2> QED
    BY <1>1, <1>2
<1>6. PICK p : Sums(p, Words(h), u) /\ p[0] = 0 /\ p[u] = WordSum(h, 0)
  BY WordSums
<1>7. PICK q : Sums(q, Words(f), c) /\ q[0] = 0 /\ q[c] = WordSum(f, 0)
  <2>0. 0 \in Nat
    OBVIOUS
  <2>1. \E q : Sums(q, Words(f), Half(k)) /\ q[0] = 0 /\ q[Half(k)] = WordSum(f, 0)
    BY <2>0, WordSums, Zenon
  <2> QED
    BY <1>4, <2>1
<1>8. PICK r : Sums(r, Words(g), m) /\ r[0] = 0 /\ r[m] = WordSum(g, 0)
  BY WordSums
<1>0. WordsOf(Words(h), h, n) /\ WordsOf(Words(f), f, k) /\ WordsOf(Words(g), g, l)
  BY WordsAre
<1>9. ASSUME NEW i \in 1 .. c PROVE Words(h)[i] = Words(f)[i]
  <2>1. 2 * i - 1 \in 1 .. k /\ 2 * i \in 1 .. k /\ 2 * i <= k /\ i \in 1 .. u /\ 2 * i <= n
    <3> HIDE DEF u, m
    <3> QED
      BY <1>1, <1>5
  <2>2. h[2 * i - 1] = f[2 * i - 1] /\ h[2 * i] = f[2 * i]
    BY <2>1 DEF Joined
  <2>3. Words(h)[i] = 256 * h[2 * i - 1] + (IF 2 * i <= n THEN h[2 * i] ELSE 0)
    BY <1>0, <2>1 DEF WordsOf
  <2>4. Words(f)[i] = 256 * f[2 * i - 1] + (IF 2 * i <= k THEN f[2 * i] ELSE 0)
    BY <1>0, <1>4 DEF WordsOf
  <2> QED
    BY <2>1, <2>2, <2>3, <2>4
<1>10. ASSUME NEW i \in 1 .. m PROVE Words(h)[c + i] = Words(g)[i]
  <2> DEFINE e == c + i
  <2>1. /\ 2 * i - 1 \in 1 .. l /\ e \in 1 .. u
        /\ 2 * e - 1 = k + (2 * i - 1) /\ 2 * e = k + 2 * i
        /\ 2 * e <= n <=> 2 * i <= l
        /\ 2 * i <= l => 2 * i \in 1 .. l
    <3> HIDE DEF u, m
    <3> QED
      BY <1>1, <1>5
  <2>2. h[k + (2 * i - 1)] = g[2 * i - 1] /\ (2 * i <= l => h[k + 2 * i] = g[2 * i])
    BY <2>1 DEF Joined
  <2> HIDE DEF e
  <2>3. Words(h)[e] = 256 * h[2 * e - 1] + (IF 2 * e <= n THEN h[2 * e] ELSE 0)
    BY <1>0, <2>1 DEF WordsOf
  <2>4. Words(g)[i] = 256 * g[2 * i - 1] + (IF 2 * i <= l THEN g[2 * i] ELSE 0)
    BY <1>0 DEF WordsOf
  <2>5. Words(h)[e] = Words(g)[i]
    BY <2>1, <2>2, <2>3, <2>4
  <2> QED
    BY <2>5 DEF e
<1> HIDE DEF m, u
<1>11. p[c] - p[0] = q[c] - q[0]
  <2>1. Alike(Words(h), 0, Words(f), 0, c)
    BY <1>9 DEF Alike
  <2>2. c = 0 + c /\ c <= u /\ c <= c
    BY <1>1, <1>5
  <2>3. Span(p, Words(h), 0, c, c) /\ Span(q, Words(f), 0, c, c)
    BY <1>2, <1>6, <1>7, <2>2 DEF Span
  <2> QED
    BY <2>1, <2>3, SumsAlike
<1>12. p[u] - p[c] = r[m] - r[0]
  <2>1. Alike(Words(h), c, Words(g), 0, m)
    BY <1>10 DEF Alike
  <2>2. u = c + m /\ u <= u /\ m = 0 + m /\ m <= m
    BY <1>1, <1>2, <1>5
  <2>3. Span(p, Words(h), c, m, u) /\ Span(r, Words(g), 0, m, m)
    BY <1>1, <1>2, <1>6, <1>8, <2>2 DEF Span
  <2> QED
    BY <2>1, <2>3, SumsAlike
<1>13. p[c] \in Int /\ p[u] \in Int /\ q[c] \in Int /\ r[m] \in Int
  <2>1. c \in 0 .. u /\ u \in 0 .. u /\ c \in 0 .. c /\ m \in 0 .. m
    BY <1>1, <1>2, <1>5
  <2> QED
    BY <1>6, <1>7, <1>8, <2>1 DEF Sums
<1> QED
  BY <1>6, <1>7, <1>8, <1>11, <1>12, <1>13

\* A word put where there was zero adds its value.
LEMMA WordSumChange ==
    ASSUME NEW k \in Nat, NEW f \in [1 .. k -> Bytes], NEW g \in [1 .. k -> Bytes],
           NEW j \in Nat, j > 0, 2 * j <= k,
           f[2 * j - 1] = 0, f[2 * j] = 0,
           \A i \in 1 .. k : i # 2 * j - 1 /\ i # 2 * j => g[i] = f[i]
    PROVE  WordSum(g, 0) = WordSum(f, 0) + (256 * g[2 * j - 1] + g[2 * j])
<1> DEFINE n == Half(k)
           v == Words(g)
           w == Words(f)
           x == 256 * g[2 * j - 1] + g[2 * j]
<1>1. n \in Nat /\ (2 * n = k \/ 2 * n = k + 1)
  BY HalfIs
<1>2. PICK p : Sums(p, v, n) /\ p[0] = 0 /\ p[n] = WordSum(g, 0)
  BY WordSums
<1>3. PICK q : Sums(q, w, n) /\ q[0] = 0 /\ q[n] = WordSum(f, 0)
  BY WordSums
<1>0. WordsOf(v, g, k) /\ WordsOf(w, f, k)
  BY WordsAre
<1>4. ASSUME NEW i \in 1 .. n, i # j PROVE v[i] = w[i]
  <2>1. /\ 2 * i - 1 \in 1 .. k /\ (2 * i <= k => 2 * i \in 1 .. k)
        /\ 2 * i - 1 # 2 * j - 1 /\ 2 * i - 1 # 2 * j /\ 2 * i # 2 * j - 1 /\ 2 * i # 2 * j
    BY <1>1, <1>4
  <2>2. g[2 * i - 1] = f[2 * i - 1] /\ (2 * i <= k => g[2 * i] = f[2 * i])
    BY <2>1
  <2>3. v[i] = 256 * g[2 * i - 1] + (IF 2 * i <= k THEN g[2 * i] ELSE 0)
    BY <1>0 DEF WordsOf
  <2>4. w[i] = 256 * f[2 * i - 1] + (IF 2 * i <= k THEN f[2 * i] ELSE 0)
    BY <1>0 DEF WordsOf
  <2> QED
    BY <2>2, <2>3, <2>4
<1>5. j \in 1 .. n /\ j - 1 \in Nat /\ n - j \in Nat
  BY <1>1
<1>6. v[j] = x /\ w[j] = 0 /\ x \in Int
  <2>1. v[j] = 256 * g[2 * j - 1] + (IF 2 * j <= k THEN g[2 * j] ELSE 0) /\ v[j] \in Nat
    BY <1>0, <1>5 DEF WordsOf
  <2>2. w[j] = 256 * f[2 * j - 1] + (IF 2 * j <= k THEN f[2 * j] ELSE 0)
    BY <1>0, <1>5 DEF WordsOf
  <2> QED
    BY <2>1, <2>2
<1> HIDE DEF n, v, w, x
<1>7. PICK y \in Nat : y = j - 1
  BY <1>5
<1>8. PICK z \in Nat : z = n - j
  BY <1>5
<1>9. p[y] - p[0] = q[y] - q[0]
  <2>1. Alike(v, 0, w, 0, y)
    <3>1. \A i \in 1 .. y : 0 + i \in 1 .. n /\ 0 + i # j
      BY <1>1, <1>5, <1>7
    <3> QED
      BY <1>4, <3>1 DEF Alike
  <2>2. y = 0 + y /\ y <= n
    BY <1>1, <1>5, <1>7
  <2>3. Span(p, v, 0, y, y) /\ Span(q, w, 0, y, y)
    BY <1>1, <1>2, <1>3, <2>2 DEF Span
  <2> QED
    BY <2>1, <2>3, SumsAlike
<1>10. p[n] - p[j] = q[n] - q[j]
  <2>1. Alike(v, j, w, j, z)
    <3>1. \A i \in 1 .. z : j + i \in 1 .. n /\ j + i # j
      BY <1>1, <1>5, <1>8
    <3> QED
      BY <1>4, <3>1 DEF Alike
  <2>2. n = j + z /\ n <= n
    BY <1>1, <1>5, <1>8
  <2>3. Span(p, v, j, z, n) /\ Span(q, w, j, z, n)
    BY <1>1, <1>2, <1>3, <2>2 DEF Span
  <2> QED
    BY <2>1, <2>3, SumsAlike
<1>11. p[j] = p[y] + x /\ q[j] = q[y] + 0
  BY <1>2, <1>3, <1>5, <1>6, <1>7 DEF Sums
<1>12. /\ p[y] \in Int /\ p[j] \in Int /\ p[n] \in Int
       /\ q[y] \in Int /\ q[j] \in Int /\ q[n] \in Int
  <2>1. y \in 0 .. n /\ j \in 0 .. n /\ n \in 0 .. n
    BY <1>1, <1>5, <1>7
  <2> QED
    BY <1>2, <1>3, <2>1 DEF Sums
<1>13. WordSum(g, 0) = WordSum(f, 0) + x
  <2>1. p[y] = q[y]
    BY <1>2, <1>3, <1>9, <1>12
  <2>2. p[j] = q[j] + x
    BY <1>6, <1>11, <1>12, <2>1
  <2>3. p[n] = q[n] + x
    <3>1. PICK pn \in Int, pj \in Int, qn \in Int, qj \in Int :
             pn = p[n] /\ pj = p[j] /\ qn = q[n] /\ qj = q[j]
      BY <1>12, Zenon
    <3>2. pn - pj = qn - qj /\ pj = qj + x
      BY <1>10, <2>2, <3>1, Zenon
    <3>3. pn = qn + x
      BY <1>6, <3>2
    <3> QED
      BY <3>1, <3>3, Zenon
  <2> QED
    BY <1>2, <1>3, <2>3
<1> QED
  BY <1>13 DEF x

-----------------------------------------------------------------------------
(* Arrays of bytes                                                         *)

ByteArray(b, n) == b \in [1 .. n -> Bytes]

LEMMA ByteArrayIs ==
    ASSUME NEW n \in Nat, NEW b, ByteArray(b, n)
    PROVE  Array(b, n) /\ Len(b) = n /\ \A o \in 0 .. n - 1 : Byte(b, o) \in Bytes
<1>1. Array(b, n)
  BY DEF ByteArray, Array
<1>2. Len(b) = n
  BY <1>1, ArrayIsSeq
<1>3. \A o \in 0 .. n - 1 : o + 1 \in 1 .. n
  OBVIOUS
<1>4. \A o \in 0 .. n - 1 : Byte(b, o) \in Bytes
  BY <1>3 DEF ByteArray, Byte
<1> QED
  BY <1>1, <1>2, <1>4

LEMMA ArrayOfBytes ==
    ASSUME NEW n \in Nat, NEW b, Array(b, n), \A i \in 1 .. n : b[i] \in Bytes
    PROVE  ByteArray(b, n)
BY DEF Array, ByteArray

LEMMA PutTyped ==
    ASSUME NEW n \in Nat, NEW b, ByteArray(b, n), NEW off \in Nat,
           NEW k \in Nat, NEW f, ByteArray(f, k)
    PROVE  ByteArray(Put(b, off, f), n) /\ Stored(Put(b, off, f), b, n, off, f, k)
<1> DEFINE c == Put(b, off, f)
<1>1. Array(b, n) /\ Len(f) = k
  BY ByteArrayIs
<1>2. Stored(c, b, n, off, f, k)
  BY <1>1, PutBytes
<1>3. c = [i \in 1 .. n |-> IF i \in off + 1 .. off + k THEN f[i - off] ELSE b[i]]
  BY <1>1 DEF Put, Array
<1>4. \A i \in 1 .. n : i \in off + 1 .. off + k => i - off \in 1 .. k
  OBVIOUS
<1>5. c \in [1 .. n -> Bytes]
  BY <1>3, <1>4 DEF ByteArray
<1> QED
  BY <1>2, <1>5 DEF ByteArray

LEMMA FieldTyped ==
    ASSUME NEW n \in Nat, NEW b, ByteArray(b, n), NEW off \in Nat, NEW k \in Nat, off + k <= n
    PROVE  ByteArray(Field(b, off, k), k) /\ IsField(Field(b, off, k), b, off, k)
<1>1. Array(b, n) /\ \A o \in 0 .. n - 1 : Byte(b, o) \in Bytes
  BY ByteArrayIs
<1>2. IsField(Field(b, off, k), b, off, k)
  BY <1>1, FieldBytes
<1>3. \A i \in 1 .. k : off + i - 1 \in 0 .. n - 1
  OBVIOUS
<1>4. \A i \in 1 .. k : Field(b, off, k)[i] \in Bytes
  BY <1>1, <1>2, <1>3 DEF IsField
<1>5. Array(Field(b, off, k), k)
  BY <1>2 DEF IsField
<1> QED
  BY <1>2, <1>4, <1>5, ArrayOfBytes

LEMMA ConcatTyped ==
    ASSUME NEW k \in Nat, NEW l \in Nat, NEW f, NEW g, ByteArray(f, k), ByteArray(g, l)
    PROVE  ByteArray(f \o g, k + l) /\ Joined(f \o g, f, k, g, l)
<1>1. f \in Seq(Bytes) /\ g \in Seq(Bytes) /\ Len(f) = k /\ Len(g) = l
  BY ByteArrayIs, SeqDef DEF ByteArray
<1>2. Joined(f \o g, f, k, g, l)
  BY ByteArrayIs, ConcatBytes
<1>3. f \o g \in Seq(Bytes) /\ Len(f \o g) = k + l
  BY <1>1, ConcatProperties
<1>4. f \o g \in [1 .. k + l -> Bytes]
  BY <1>3, LenProperties
<1> QED
  BY <1>2, <1>4 DEF ByteArray

LEMMA PairTyped ==
    ASSUME NEW x \in Bytes, NEW y \in Bytes
    PROVE  ByteArray(<<x, y>>, 2) /\ ByteArray(<<x>>, 1)
<1>1. <<x, y>> \in Seq(Bytes) /\ Len(<<x, y>>) = 2
  OBVIOUS
<1>2. <<x>> \in Seq(Bytes) /\ Len(<<x>>) = 1
  OBVIOUS
<1>3. <<x, y>> \in [1 .. 2 -> Bytes] /\ <<x>> \in [1 .. 1 -> Bytes]
  BY <1>1, <1>2, LenProperties
<1> QED
  BY <1>3 DEF ByteArray

\* The two bytes of a word.
LEMMA ShortBytes ==
    ASSUME NEW v, Word(v)
    PROVE  /\ v \div 256 \in Bytes /\ v % 256 \in Bytes
           /\ 256 * (v \div 256) + (v % 256) = v
<1>1. v \in Nat /\ v <= 65535
  BY SMT DEF Word
<1>2. v \div 256 \in Nat /\ v % 256 \in Nat /\ v % 256 <= 255 /\ v \div 256 <= 255
  BY <1>1, SMT
<1>3. 256 * (v \div 256) + (v % 256) = v
  BY <1>1, SMT
<1> QED
  BY <1>2, <1>3, ByteIs, SMT

LEMMA PutShortTyped ==
    ASSUME NEW n \in Nat, NEW b, ByteArray(b, n), NEW off \in Nat, off + 2 <= n,
           NEW v, Word(v)
    PROVE  /\ ByteArray(PutShort(b, off, v), n)
           /\ \A o \in 0 .. n - 1 : o # off /\ o # off + 1 =>
                 Byte(PutShort(b, off, v), o) = Byte(b, o)
           /\ Byte(PutShort(b, off, v), off) = v \div 256
           /\ Byte(PutShort(b, off, v), off + 1) = v % 256
<1> DEFINE f == <<v \div 256, v % 256>>
           c == PutShort(b, off, v)
<1>1. ByteArray(f, 2)
  BY ShortBytes, PairTyped
<1>2. c = Put(b, off, f)
  BY DEF PutShort
<1>3. f[1] = v \div 256 /\ f[2] = v % 256
  OBVIOUS
<1> HIDE DEF f, c
<1>4. ByteArray(c, n) /\ Stored(c, b, n, off, f, 2)
  BY <1>1, <1>2, PutTyped
<1>5. \A o \in 0 .. n - 1 :
         Byte(c, o) = IF o \in off .. off + 2 - 1 THEN f[o - off + 1] ELSE Byte(b, o)
  BY <1>4 DEF Stored
<1>6. /\ off \in 0 .. n - 1 /\ off \in off .. off + 2 - 1 /\ off - off + 1 = 1
      /\ off + 1 \in 0 .. n - 1 /\ off + 1 \in off .. off + 2 - 1 /\ (off + 1) - off + 1 = 2
  OBVIOUS
<1>7. Byte(c, off) = f[1] /\ Byte(c, off + 1) = f[2]
  BY <1>5, <1>6
<1>8. \A o \in 0 .. n - 1 : o # off /\ o # off + 1 => o \notin off .. off + 2 - 1
  OBVIOUS
<1>9. \A o \in 0 .. n - 1 : o # off /\ o # off + 1 => Byte(c, o) = Byte(b, o)
  BY <1>5, <1>8
<1> QED
  BY <1>3, <1>4, <1>7, <1>9 DEF c

-----------------------------------------------------------------------------
(* Checksums                                                               *)

\* u is what the carries have made of the sum s so far.
Sound(s, u) == s \in Nat /\ Word(u) /\ Congruent(s, u) /\ (s = 0 => u = 0)

LEMMA SoundZero == Sound(0, 0)
<1>1. 0 = 0 + Modulus * 0
  BY SMT DEF Modulus
<1>2. Congruent(0, 0)
  BY <1>1, 0 \in Int, Zenon DEF Congruent
<1>3. Word(0)
  BY SMT DEF Word
<1> QED
  BY <1>2, <1>3, SMT DEF Sound

\* Each call of summing adds the words of what it is given.
LEMMA SummingSound ==
    ASSUME NEW k \in Nat, NEW f, ByteArray(f, k), NEW s, NEW u, Sound(s, u)
    PROVE  Sound(s + WordSum(f, 0), summing(f, u))
<1>1. s \in Nat /\ u \in Nat /\ Word(u) /\ Congruent(s, u) /\ (s = 0 => u = 0)
  BY SMT DEF Sound, Word
<1>2. f \in [1 .. k -> Bytes]
  BY DEF ByteArray
<1>3. PICK w \in Nat : w = WordSum(f, 0) /\ WordSum(f, u) = u + w
  BY <1>1, <1>2, WordSumAdd
<1>4. PICK c : c = Carry[u + w]
  OBVIOUS
<1>5. summing(f, u) = c
  BY <1>3, <1>4, Zenon DEF summing
<1>6. u + w \in Nat /\ s + w \in Nat
  BY <1>1
<1>7. Word(c) /\ Congruent(u + w, c)
  BY <1>4, <1>6, CarryIs, Zenon
<1>8. Congruent(s + w, u + w)
  <2>1. s \in Int /\ u \in Int /\ w \in Int
    BY <1>1
  <2> QED
    BY <1>1, <2>1, CongruentPlus, Zenon
<1>9. c \in Int
  BY <1>7, SMT DEF Word
<1>10. Congruent(s + w, c)
  <2>1. s + w \in Int /\ u + w \in Int
    BY <1>6
  <2> QED
    BY <1>7, <1>8, <1>9, <2>1, CongruentTrans, Zenon
<1>11. s + w = 0 => c = 0
  <2>1. s + w = 0 => u + w = 0
    BY <1>1
  <2>2. Carry[0] = 0
    BY CarryDef, SMT
  <2> QED
    BY <1>4, <2>1, <2>2, Zenon
<1> QED
  BY <1>3, <1>5, <1>6, <1>7, <1>10, <1>11, Zenon DEF Sound

\* Adding the complement gives minus zero.
LEMMA ComplementSound ==
    ASSUME NEW s, NEW u, Sound(s, u)
    PROVE  /\ Word(Not16(u))
           /\ s + Not16(u) \in Nat /\ s + Not16(u) > 0 /\ (s + Not16(u)) % 65535 = 0
<1>1. s \in Nat /\ u \in Nat /\ u <= 65535 /\ (s = 0 => u = 0)
  BY SMT DEF Sound, Word
<1>2. PICK q \in Int : s = u + 65535 * q
  BY SMT DEF Sound, Congruent, Modulus
<1>3. Not16(u) = 65535 - u
  BY SMT DEF Not16
<1>4. s + Not16(u) = 65535 * (q + 1)
  BY <1>1, <1>2, <1>3, SMT
<1>5. (65535 * (q + 1)) % 65535 = 0
  BY SMT
<1> QED
  BY <1>1, <1>3, <1>4, <1>5, SMT DEF Word

LEMMA MinusZero ==
    ASSUME NEW f, NEW s \in Nat, WordSum(f, 0) = s, s > 0, s % 65535 = 0
    PROVE  SumsToMinusZero(f)
BY SMT DEF SumsToMinusZero

\* Offset off is where word j of the k bytes at offset o is.
WordAt(off, o, j, k) ==
    off \in Nat /\ o \in Nat /\ j \in Nat /\ k \in Nat /\ j > 0 /\ 2 * j <= k /\ off = o + 2 * j - 2

\* A word of a field adds its value to the sum of the field.
LEMMA CheckField ==
    ASSUME NEW n \in Nat, NEW b, ByteArray(b, n), NEW off, NEW o, NEW j, NEW k,
           WordAt(off, o, j, k), o + k <= n, NEW v, Word(v)
    PROVE  WordSum(Field(PutShort(b, off, v), o, k), 0) =
              WordSum(Field(PutShort(b, off, 0), o, k), 0) + v
<1> DEFINE c == PutShort(b, off, v)
           z == PutShort(b, off, 0)
           g == Field(c, o, k)
           f == Field(z, o, k)
<1>0. /\ off \in Nat /\ o \in Nat /\ j \in Nat /\ k \in Nat
      /\ j > 0 /\ 2 * j <= k /\ off = o + 2 * j - 2
  BY DEF WordAt
<1>1. off + 2 <= n /\ Word(0)
  BY <1>0, SMT DEF Word
<1>2. /\ ByteArray(c, n)
      /\ \A e \in 0 .. n - 1 : e # off /\ e # off + 1 => Byte(c, e) = Byte(b, e)
      /\ Byte(c, off) = v \div 256 /\ Byte(c, off + 1) = v % 256
  BY <1>0, <1>1, PutShortTyped
<1>3. /\ ByteArray(z, n)
      /\ \A e \in 0 .. n - 1 : e # off /\ e # off + 1 => Byte(z, e) = Byte(b, e)
      /\ Byte(z, off) = 0 \div 256 /\ Byte(z, off + 1) = 0 % 256
  BY <1>0, <1>1, PutShortTyped
<1>4. 0 \div 256 = 0 /\ 0 % 256 = 0
  OBVIOUS
<1> HIDE DEF c, z
<1>5. ByteArray(g, k) /\ IsField(g, c, o, k) /\ ByteArray(f, k) /\ IsField(f, z, o, k)
  BY <1>0, <1>2, <1>3, FieldTyped
<1> HIDE DEF f, g
<1>6. /\ 2 * j - 1 \in 1 .. k /\ 2 * j \in 1 .. k
      /\ o + (2 * j - 1) - 1 = off /\ o + 2 * j - 1 = off + 1
  BY <1>0
<1>7. f[2 * j - 1] = 0 /\ f[2 * j] = 0 /\ g[2 * j - 1] = v \div 256 /\ g[2 * j] = v % 256
  BY <1>2, <1>3, <1>4, <1>5, <1>6 DEF IsField
<1>8. ASSUME NEW i \in 1 .. k, i # 2 * j - 1, i # 2 * j PROVE g[i] = f[i]
  <2>1. o + i - 1 \in 0 .. n - 1 /\ o + i - 1 # off /\ o + i - 1 # off + 1
    BY <1>0, <1>8
  <2> QED
    BY <1>2, <1>3, <1>5, <2>1 DEF IsField
<1>9. WordSum(g, 0) = WordSum(f, 0) + (256 * g[2 * j - 1] + g[2 * j])
  <2>1. f \in [1 .. k -> Bytes] /\ g \in [1 .. k -> Bytes]
    BY <1>5 DEF ByteArray
  <2> QED
    BY <1>0, <1>7, <1>8, <2>1, WordSumChange
<1>10. 256 * (v \div 256) + (v % 256) = v
  BY ShortBytes
<1>11. WordSum(g, 0) = WordSum(f, 0) + v
  BY <1>7, <1>9, <1>10
<1> QED
  BY <1>11 DEF c, z, f, g

-----------------------------------------------------------------------------
(* The checksum of the IP header                                           *)

LEMMA TcpIs ==
    ASSUME NEW n \in Nat, n >= 40, NEW b, ByteArray(b, n)
    PROVE  /\ ihl(b) \in Nat /\ ihl(b) <= 15 /\ Tcp(b) \in Nat /\ Tcp(b) = 4 * ihl(b)
           /\ tot_len(b) \in Nat /\ Word(tot_len(b))
<1>1. Byte(b, 0) \in Bytes /\ Byte(b, 2) \in Bytes /\ Byte(b, 3) \in Bytes
  BY ByteArrayIs
<1>2. ihl(b) \in Nat /\ ihl(b) <= 15
  BY <1>1, ByteIs DEF ihl
<1>3. Tcp(b) \in Nat /\ Tcp(b) = 4 * ihl(b)
  BY <1>2 DEF Tcp
<1>4. tot_len(b) = 256 * Byte(b, 2) + Byte(b, 3)
  BY DEF tot_len, Short
<1>5. tot_len(b) \in Nat /\ tot_len(b) <= 65535
  BY <1>1, <1>4, ByteIs, SMT
<1> QED
  BY <1>2, <1>3, <1>5, SMT DEF Word

\* Storing the checksum changes two bytes of 0 .. 255, and the header sums to
\* minus zero.
LEMMA IpCheckValid ==
    ASSUME NEW n \in Nat, n >= 40, NEW b, ByteArray(b, n), Tcp(b) <= n
    PROVE  /\ ByteArray(PutIpCheck(b), n)
           /\ \A o \in 0 .. n - 1 : o # 10 /\ o # 11 => Byte(PutIpCheck(b), o) = Byte(b, o)
           /\ Tcp(b) >= 20 => SumsToMinusZero(Field(PutIpCheck(b), 0, Tcp(b)))
<1> DEFINE t == Tcp(b)
           z == PutShort(b, 10, 0)
           f == Field(z, 0, t)
           u == summing(f, 0)
           c == PutIpCheck(b)
<1>0. 10 + 2 <= n /\ 10 + 1 = 11 /\ Word(0) /\ 10 \in Nat
  BY SMT DEF Word
<1>1. t \in Nat /\ t = 4 * ihl(b) /\ ihl(b) \in Nat
  BY TcpIs
<1>2. /\ ByteArray(z, n)
      /\ \A e \in 0 .. n - 1 : e # 10 /\ e # 10 + 1 => Byte(z, e) = Byte(b, e)
  BY <1>0, PutShortTyped
<1>3. ihl(z) = ihl(b)
  <2>1. Byte(z, 0) = Byte(b, 0)
    BY <1>2
  <2> QED
    BY <2>1 DEF ihl
<1>4. ip_csum(z) = Not16(u)
  BY <1>3 DEF ip_csum, Tcp
<1>5. c = PutShort(b, 10, Not16(u))
  BY <1>4 DEF PutIpCheck
<1> HIDE DEF c, z
<1>6. ByteArray(f, t)
  <2>1. 0 + t <= n
    BY <1>1
  <2> QED
    BY <1>1, <1>2, <2>1, FieldTyped
<1>7. PICK s : s = WordSum(f, 0) /\ s \in Nat /\ Sound(s, u)
  <2>1. Sound(0 + WordSum(f, 0), u)
    BY <1>1, <1>6, SoundZero, SummingSound
  <2>2. WordSum(f, 0) \in Nat
    BY <1>1, <1>6, WordSumAdd DEF ByteArray
  <2>3. 0 + WordSum(f, 0) = WordSum(f, 0)
    BY <2>2
  <2> QED
    BY <2>1, <2>2, <2>3
<1>8. PICK v : v = Not16(u) /\ Word(v) /\ s + v \in Nat /\ s + v > 0 /\ (s + v) % 65535 = 0
  BY <1>7, ComplementSound
<1> HIDE DEF t, f, u
<1>9. /\ ByteArray(c, n)
      /\ \A e \in 0 .. n - 1 : e # 10 /\ e # 10 + 1 => Byte(c, e) = Byte(b, e)
  BY <1>0, <1>5, <1>8, PutShortTyped
<1>10. ASSUME t >= 20 PROVE SumsToMinusZero(Field(c, 0, t))
  <2>1. 0 + t <= n /\ WordAt(10, 0, 6, t)
    BY <1>1, <1>10 DEF t, WordAt
  <2>2. WordSum(Field(c, 0, t), 0) = WordSum(Field(z, 0, t), 0) + v
    <3>1. c = PutShort(b, 10, v) /\ z = PutShort(b, 10, 0)
      BY <1>5, <1>8 DEF z
    <3> QED
      BY <1>0, <1>1, <1>8, <2>1, <3>1, CheckField
  <2>3. WordSum(Field(c, 0, t), 0) = s + v
    BY <1>7, <2>2 DEF f
  <2> QED
    BY <1>8, <2>3, MinusZero
<1> QED
  BY <1>0, <1>9, <1>10 DEF c, t

-----------------------------------------------------------------------------
(* The checksum of the TCP header                                          *)

\* The pseudo header of a segment of len bytes.
Pseudo(b, len) ==
    saddr(b) \o daddr(b) \o <<0, IPPROTO_TCP, len \div 256, len % 256>>

LEMMA PseudoTyped ==
    ASSUME NEW n \in Nat, n >= 40, NEW b, ByteArray(b, n), NEW len, Word(len)
    PROVE  ByteArray(Pseudo(b, len), 12)
<1> DEFINE x == len \div 256
           y == len % 256
           l == <<0, 6, x, y>>
<1>1. x \in Bytes /\ y \in Bytes /\ 0 \in Bytes /\ 6 \in Bytes
  BY ShortBytes, ByteIs
<1> HIDE DEF x, y
<1>2. ByteArray(l, 4)
  <2>1. l \in Seq(Bytes) /\ Len(l) = 4
    BY <1>1
  <2>2. l \in [1 .. 4 -> Bytes]
    BY <2>1, LenProperties
  <2> QED
    BY <2>2 DEF ByteArray
<1>3. ByteArray(saddr(b), 4) /\ ByteArray(daddr(b), 4)
  BY FieldTyped DEF saddr, daddr
<1>4. ByteArray(saddr(b) \o daddr(b), 4 + 4)
  BY <1>3, ConcatTyped
<1>5. ByteArray(saddr(b) \o daddr(b), 8)
  BY <1>4
<1> HIDE DEF l
<1>6. ByteArray((saddr(b) \o daddr(b)) \o l, 8 + 4)
  BY <1>2, <1>5, ConcatTyped
<1> QED
  BY <1>6 DEF Pseudo, IPPROTO_TCP, l, x, y

\* The packet in b has a TCP header of d bytes at offset t, and with the data
\* its segment has len bytes, all of them in the buffer of n bytes.
Segment(b, n, t, d, len) ==
    /\ t = Tcp(b) /\ t \in Nat /\ d = doff(b, t) * 4 /\ t + 20 <= n
    /\ len = tot_len(b) - t /\ d <= len /\ t + len <= n

LEMMA SegmentIs ==
    ASSUME NEW n \in Nat, n >= 40, NEW b, ByteArray(b, n), NEW t, NEW d, NEW len,
           Segment(b, n, t, d, len)
    PROVE  /\ t = ihl(b) * 4 /\ ihl(b) \in Nat
           /\ d = 2 * (2 * doff(b, t)) /\ 2 * doff(b, t) \in Nat /\ d \in Nat
           /\ len \in Nat /\ Word(len)
           /\ (tot_len(b) - ihl(b) * 4) % 65536 = len
           /\ tot_len(b) - ihl(b) * 4 - doff(b, t) * 4 = len - d
<1>1. /\ ihl(b) \in Nat /\ t = 4 * ihl(b) /\ t \in Nat
      /\ tot_len(b) \in Nat /\ Word(tot_len(b))
  BY TcpIs DEF Segment
<1>2. doff(b, t) \in Nat
  <2>1. t + 12 \in 0 .. n - 1
    BY <1>1 DEF Segment
  <2>2. Byte(b, t + 12) \in Bytes
    BY <2>1, ByteArrayIs
  <2> QED
    BY <2>2, ByteIs DEF doff
<1>3. d = doff(b, t) * 4 /\ len = tot_len(b) - t /\ d <= len
  BY DEF Segment
<1>4. d \in Nat /\ len \in Nat /\ len <= 65535
  BY <1>1, <1>2, <1>3, SMT DEF Word
<1>5. len % 65536 = len
  BY <1>4, SMT
<1>6. tot_len(b) - ihl(b) * 4 = len /\ t = ihl(b) * 4
  BY <1>1, <1>3
<1> QED
  BY <1>1, <1>2, <1>3, <1>4, <1>5, <1>6, SMT DEF Word

\* tcp_csum is the complement of what the carries make of the pseudo header,
\* the TCP header and the data, in one piece.
LEMMA TcpSum ==
    ASSUME NEW n \in Nat, n >= 40, NEW b, ByteArray(b, n), NEW t, NEW d, NEW len,
           Segment(b, n, t, d, len)
    PROVE  \E u : /\ tcp_csum(b, t) = Not16(u)
                  /\ Sound(WordSum(Pseudo(b, len), 0) + WordSum(Field(b, t, len), 0), u)
<1> DEFINE head == Field(b, t, d)
           data == Field(b, t + d, len - d)
           P == WordSum(Pseudo(b, len), 0)
           H == WordSum(head, 0)
           D == WordSum(data, 0)
           pseudoSum == summing(Pseudo(b, len), 0)
           headSum == summing(head, pseudoSum)
           dataSum == summing(data, headSum)
<1>1. /\ t = ihl(b) * 4
      /\ d = 2 * (2 * doff(b, t)) /\ 2 * doff(b, t) \in Nat /\ d \in Nat
      /\ len \in Nat /\ Word(len)
      /\ (tot_len(b) - ihl(b) * 4) % 65536 = len
      /\ tot_len(b) - ihl(b) * 4 - doff(b, t) * 4 = len - d
  BY SegmentIs
<1>2. t \in Nat /\ d <= len /\ t + len <= n /\ d = doff(b, t) * 4
  BY DEF Segment
<1>3. len - d \in Nat /\ t + d \in Nat /\ t + d <= n /\ (t + d) + (len - d) <= n
  BY <1>1, <1>2
<1>4. tcp_csum(b, t) = Not16(IF len - d > 0 THEN dataSum ELSE headSum)
  BY <1>1, <1>2, SMT DEF tcp_csum, Pseudo
<1>5. ByteArray(Pseudo(b, len), 12)
  BY <1>1, PseudoTyped
<1>6. ByteArray(head, d)
  BY <1>1, <1>2, <1>3, FieldTyped
<1>7. ByteArray(data, len - d)
  BY <1>3, FieldTyped
<1>8. ByteArray(Field(b, t, len), len)
  BY <1>1, <1>2, FieldTyped
<1>9. P \in Nat /\ H \in Nat /\ D \in Nat
  <2>1. ASSUME NEW k \in Nat, NEW f, ByteArray(f, k) PROVE WordSum(f, 0) \in Nat
    BY <2>1, WordSumAdd DEF ByteArray
  <2> QED
    BY <1>1, <1>3, <1>5, <1>6, <1>7, <2>1
<1>10. Sound(P, pseudoSum)
  <2>1. Sound(0 + P, pseudoSum)
    BY <1>5, SoundZero, SummingSound
  <2>2. 0 + P = P
    BY <1>9
  <2> QED
    BY <2>1, <2>2
<1> HIDE DEF P, pseudoSum
<1>11. Sound(P + H, headSum)
  BY <1>1, <1>6, <1>10, SummingSound
<1> HIDE DEF headSum
<1>12. Sound((P + H) + D, dataSum)
  BY <1>3, <1>7, <1>11, SummingSound
<1> HIDE DEF dataSum
<1>13. WordSum(Field(b, t, len), 0) = H + D
  <2>1. Joined(Field(b, t, len), head, d, data, len - d)
    <3>1. /\ IsField(Field(b, t, len), b, t, len) /\ Len(Field(b, t, len)) = len
          /\ IsField(head, b, t, d) /\ IsField(data, b, t + d, len - d)
      <4>1. IsField(Field(b, t, len), b, t, len) /\ Len(Field(b, t, len)) = len
        BY <1>1, <1>2, <1>8, FieldTyped, ByteArrayIs
      <4>2. IsField(head, b, t, d)
        BY <1>1, <1>2, <1>3, FieldTyped
      <4>3. IsField(data, b, t + d, len - d)
        BY <1>3, FieldTyped
      <4> QED
        BY <4>1, <4>2, <4>3
    <3>2. \A i \in 1 .. d : i \in 1 .. len
      BY <1>1, <1>2
    <3>3. \A i \in 1 .. len - d : d + i \in 1 .. len /\ t + (d + i) - 1 = (t + d) + i - 1
      BY <1>1, <1>2
    <3>4. d + (len - d) = len
      BY <1>1
    <3> HIDE DEF head, data
    <3> QED
      BY <3>1, <3>2, <3>3, <3>4 DEF Joined, IsField
  <2>2. PICK c \in Nat, l \in Nat : d = 2 * c /\ l = len - d /\ len = d + l
    BY <1>1, <1>3
  <2>3. /\ head \in [1 .. d -> Bytes] /\ data \in [1 .. l -> Bytes]
        /\ Field(b, t, len) \in [1 .. len -> Bytes]
        /\ Joined(Field(b, t, len), head, d, data, l)
    <3> HIDE DEF head, data
    <3> QED
      BY <1>6, <1>7, <1>8, <2>1, <2>2, Zenon DEF ByteArray
  <2>4. PICK f, g, h : f = head /\ g = data /\ h = Field(b, t, len)
    OBVIOUS
  <2>5. /\ f \in [1 .. d -> Bytes] /\ g \in [1 .. l -> Bytes]
        /\ h \in [1 .. len -> Bytes] /\ Joined(h, f, d, g, l)
    BY <2>3, <2>4, Zenon
  <2>6. WordSum(h, 0) = WordSum(f, 0) + WordSum(g, 0)
    <3>1. d \in Nat /\ len \in Nat
      BY <1>1
    <3>2. Pieces(h, f, d, g, l)
      BY <2>2, <2>5, <3>1, Zenon DEF Pieces
    <3> QED
      BY <3>2, WordSumJoin
  <2> QED
    BY <2>4, <2>6, Zenon DEF H, D
<1>14. CASE len - d > 0
  <2>1. (P + H) + D = P + (H + D)
    BY <1>9
  <2>2. Sound(P + WordSum(Field(b, t, len), 0), dataSum) /\ tcp_csum(b, t) = Not16(dataSum)
    BY <1>4, <1>12, <1>13, <1>14, <2>1, Zenon
  <2> QED
    BY <2>2, Zenon DEF P
<1>15. CASE ~ (len - d > 0)
  <2>1. len = d
    BY <1>1, <1>3, <1>15
  <2>2. WordSum(Field(b, t, len), 0) = H
    BY <2>1 DEF H
  <2>3. Sound(P + WordSum(Field(b, t, len), 0), headSum) /\ tcp_csum(b, t) = Not16(headSum)
    BY <1>4, <1>11, <1>15, <2>2, Zenon
  <2> QED
    BY <2>3, Zenon DEF P
<1> QED
  BY <1>14, <1>15

\* The lengths depend on four bytes.
LEMMA SegmentKept ==
    ASSUME NEW n, NEW b, NEW c, NEW t, NEW d, NEW len, Segment(b, n, t, d, len),
           Byte(c, 0) = Byte(b, 0), Byte(c, 2) = Byte(b, 2), Byte(c, 3) = Byte(b, 3),
           Byte(c, t + 12) = Byte(b, t + 12)
    PROVE  Segment(c, n, t, d, len)
<1>1. Tcp(c) = Tcp(b)
  BY TcpSame
<1>2. 2 + 1 = 3
  OBVIOUS
<1>3. tot_len(c) = tot_len(b)
  BY <1>2, Zenon DEF tot_len, Short
<1>4. doff(c, t) = doff(b, t)
  BY DEF doff
<1> QED
  BY <1>1, <1>3, <1>4, Zenon DEF Segment

\* The pseudo header depends on the addresses.
LEMMA PseudoKept ==
    ASSUME NEW n \in Nat, n >= 40, NEW b, ByteArray(b, n), NEW c, ByteArray(c, n), NEW len,
           \A o \in 12 .. 19 : Byte(c, o) = Byte(b, o)
    PROVE  Pseudo(c, len) = Pseudo(b, len)
<1>1. Array(b, n) /\ Array(c, n)
  BY ByteArrayIs
<1>2. \A i \in 1 .. 4 : 12 + i - 1 \in 12 .. 19 /\ 16 + i - 1 \in 12 .. 19
  OBVIOUS
<1>3. Agree(c, 12, b, 12, 4) /\ Agree(c, 16, b, 16, 4)
  BY <1>2 DEF Agree
<1>4. saddr(c) = saddr(b) /\ daddr(c) = daddr(b)
  BY <1>1, <1>3, SameField DEF saddr, daddr
<1> QED
  BY <1>4, Zenon DEF Pseudo

\* Storing the checksum changes two bytes of 0 .. 255, and pseudo header and
\* segment sum to minus zero.
LEMMA TcpCheckValid ==
    ASSUME NEW n \in Nat, n >= 40, NEW b, ByteArray(b, n), NEW t, NEW d, NEW len,
           Segment(b, n, t, d, len), t >= 8
    PROVE  LET c == PutTcpCheck(b, t)
           IN  /\ ByteArray(c, n)
               /\ \A o \in 0 .. n - 1 : o # t + 16 /\ o # t + 17 => Byte(c, o) = Byte(b, o)
               /\ Segment(c, n, t, d, len)
               /\ d >= 20 => SumsToMinusZero(Pseudo(c, len) \o Field(c, t, len))
<1> DEFINE c == PutTcpCheck(b, t)
           z == PutShort(b, t + 16, 0)
           P == Pseudo(b, len)
           S == WordSum(P, 0) + WordSum(Field(z, t, len), 0)
<1>1. /\ t \in Nat /\ t + 16 \in Nat /\ (t + 16) + 2 <= n /\ (t + 16) + 1 = t + 17
      /\ t + 20 <= n /\ t + len <= n /\ d <= len /\ Word(0)
  BY SMT DEF Segment, Word
<1>2. d \in Nat /\ len \in Nat /\ Word(len)
  BY SegmentIs
<1>3. /\ 0 \in 0 .. n - 1 /\ 0 # t + 16 /\ 0 # t + 17
      /\ 2 \in 0 .. n - 1 /\ 2 # t + 16 /\ 2 # t + 17
      /\ 3 \in 0 .. n - 1 /\ 3 # t + 16 /\ 3 # t + 17
      /\ t + 12 \in 0 .. n - 1 /\ t + 12 # t + 16 /\ t + 12 # t + 17
      /\ \A o \in 12 .. 19 : o \in 0 .. n - 1 /\ o # t + 16 /\ o # t + 17
  BY <1>1
<1>4. ASSUME NEW a, ByteArray(a, n),
             \A o \in 0 .. n - 1 : o # t + 16 /\ o # t + 17 => Byte(a, o) = Byte(b, o)
      PROVE  Segment(a, n, t, d, len) /\ Pseudo(a, len) = P
  <2>1. /\ Byte(a, 0) = Byte(b, 0) /\ Byte(a, 2) = Byte(b, 2) /\ Byte(a, 3) = Byte(b, 3)
        /\ Byte(a, t + 12) = Byte(b, t + 12)
        /\ \A o \in 12 .. 19 : Byte(a, o) = Byte(b, o)
    BY <1>3, <1>4, Zenon
  <2>2. Segment(a, n, t, d, len)
    BY <2>1, SegmentKept, Zenon
  <2>3. Pseudo(a, len) = P
    BY <1>4, <2>1, PseudoKept
  <2> QED
    BY <2>2, <2>3
<1>5. /\ ByteArray(z, n)
      /\ \A o \in 0 .. n - 1 : o # t + 16 /\ o # t + 17 => Byte(z, o) = Byte(b, o)
  BY <1>1, PutShortTyped
<1>6. Segment(z, n, t, d, len) /\ Pseudo(z, len) = P
  <2> HIDE DEF z, P
  <2> QED
    BY <1>4, <1>5, Zenon
<1>7. PICK u : tcp_csum(z, t) = Not16(u) /\ Sound(S, u)
  <2> HIDE DEF z, P
  <2>1. \E u : /\ tcp_csum(z, t) = Not16(u)
               /\ Sound(WordSum(Pseudo(z, len), 0) + WordSum(Field(z, t, len), 0), u)
    BY <1>5, <1>6, TcpSum
  <2> QED
    BY <1>6, <2>1, Zenon
<1>8. PICK v : /\ v = Not16(u) /\ Word(v)
               /\ S + v \in Nat /\ S + v > 0 /\ (S + v) % 65535 = 0
  <2> HIDE DEF S
  <2> QED
    BY <1>7, ComplementSound
<1>9. c = PutShort(b, t + 16, v)
  <2>1. v = tcp_csum(z, t)
    <3> HIDE DEF z, S
    <3> QED
      BY <1>7, <1>8, SMT
  <2> QED
    BY <2>1, Zenon DEF PutTcpCheck
<1> HIDE DEF c, P
<1>10. /\ ByteArray(c, n)
       /\ \A o \in 0 .. n - 1 : o # t + 16 /\ o # t + 17 => Byte(c, o) = Byte(b, o)
  BY <1>1, <1>8, <1>9, PutShortTyped
<1>11. Segment(c, n, t, d, len) /\ Pseudo(c, len) = P
  BY <1>4, <1>10, Zenon
<1>12. ASSUME d >= 20 PROVE SumsToMinusZero(P \o Field(c, t, len))
  <2>1. WordAt(t + 16, t, 9, len)
    BY <1>1, <1>2, <1>12 DEF WordAt
  <2>2. WordSum(Field(c, t, len), 0) = WordSum(Field(z, t, len), 0) + v
    BY <1>1, <1>8, <1>9, <2>1, CheckField
  <2> HIDE DEF z
  <2>3. ByteArray(P, 12)
    BY <1>2, PseudoTyped DEF P
  <2>4. ByteArray(Field(c, t, len), len) /\ ByteArray(Field(z, t, len), len)
    BY <1>1, <1>2, <1>5, <1>10, FieldTyped
  <2>5. /\ ByteArray(P \o Field(c, t, len), 12 + len)
        /\ Joined(P \o Field(c, t, len), P, 12, Field(c, t, len), len)
    BY <1>2, <2>3, <2>4, ConcatTyped
  <2>6. Pieces(P \o Field(c, t, len), P, 12, Field(c, t, len), len)
    <3>1. PICK m \in Nat : m = 12 + len
      BY <1>2
    <3>2. 6 \in Nat /\ 12 \in Nat /\ 12 = 2 * 6
      OBVIOUS
    <3> QED
      BY <1>2, <2>3, <2>4, <2>5, <3>1, <3>2, Zenon DEF Pieces, ByteArray
  <2>7. WordSum(P \o Field(c, t, len), 0) = WordSum(P, 0) + WordSum(Field(c, t, len), 0)
    BY <2>6, WordSumJoin
  <2>8. /\ WordSum(P, 0) \in Nat /\ WordSum(Field(z, t, len), 0) \in Nat
    <3>1. WordSum(P, 0) \in Nat
      BY <2>3, WordSumAdd DEF ByteArray
    <3> QED
      BY <1>2, <2>4, <3>1, WordSumAdd DEF ByteArray
  <2>9. v \in Nat
    BY <1>8, SMT DEF Word
  <2>10. WordSum(P \o Field(c, t, len), 0) = S + v
    BY <2>2, <2>7, <2>8, <2>9
  <2> HIDE DEF S
  <2> QED
    BY <1>8, <2>10, MinusZero
<1> QED
  BY <1>10, <1>11, <1>12, Zenon DEF c

-----------------------------------------------------------------------------
(* Packets that are passed on                                              *)

\* A receiver accepts the checksum of the IP header, t bytes long, and the one
\* of the segment of len bytes that follows.
Accepted(b, t, len) ==
    /\ SumsToMinusZero(Field(b, 0, t))
    /\ SumsToMinusZero(Pseudo(b, len) \o Field(b, t, len))

\* c is b with other checksums, address (at offset 12 or 16) and port.
LEMMA RewriteValid ==
    ASSUME NEW n \in Nat, n >= 40, NEW b, ByteArray(b, n), NEW t, NEW d, NEW len,
           Segment(b, n, t, d, len), t >= 8,
           NEW at \in {12, 16}, NEW ip, ByteArray(ip, 4),
           NEW off, off = t \/ off = t + 2, NEW port, Word(port)
    PROVE  LET a == PutIpCheck(Put(b, at, ip))
               c == PutTcpCheck(PutShort(a, off, port), t)
           IN  /\ Tcp(a) = t
               /\ ByteArray(c, n)
               /\ Segment(c, n, t, d, len)
               /\ t >= 20 /\ d >= 20 => Accepted(c, t, len)
<1> DEFINE e == Put(b, at, ip)
           a == PutIpCheck(e)
           p == PutShort(a, off, port)
           c == PutTcpCheck(p, t)
<1>1. /\ t \in Nat /\ t = Tcp(b) /\ t + 20 <= n /\ t <= n
      /\ off \in Nat /\ off + 2 <= n /\ at \in Nat
  BY DEF Segment
<1>2. ByteArray(e, n) /\ Stored(e, b, n, at, ip, 4)
  BY <1>1, PutTyped
<1>3. \A o \in 0 .. n - 1 : o < 12 \/ o >= 20 => Byte(e, o) = Byte(b, o)
  <2>1. \A o \in 0 .. n - 1 : o < 12 \/ o >= 20 => o \notin at .. at + 4 - 1
    OBVIOUS
  <2> QED
    BY <1>2, <2>1 DEF Stored
<1> HIDE DEF e
<1>4. Tcp(e) = t
  <2>1. Byte(e, 0) = Byte(b, 0)
    BY <1>3
  <2> QED
    BY <1>1, <2>1, TcpSame
<1>5. /\ ByteArray(a, n)
      /\ \A o \in 0 .. n - 1 : o # 10 /\ o # 11 => Byte(a, o) = Byte(e, o)
      /\ t >= 20 => SumsToMinusZero(Field(a, 0, t))
  BY <1>1, <1>2, <1>4, IpCheckValid
<1> HIDE DEF a
<1>6. Tcp(a) = t
  <2>1. Byte(a, 0) = Byte(e, 0)
    BY <1>5
  <2> QED
    BY <1>4, <2>1, TcpSame
<1>7. /\ ByteArray(p, n)
      /\ \A o \in 0 .. n - 1 : o # off /\ o # off + 1 => Byte(p, o) = Byte(a, o)
  BY <1>1, <1>5, PutShortTyped
<1> HIDE DEF p
<1>8. \A o \in 0 .. n - 1 : o < 8 \/ (o >= 20 /\ o # off /\ o # off + 1) => Byte(p, o) = Byte(b, o)
  BY <1>1, <1>3, <1>5, <1>7
<1>9. Segment(p, n, t, d, len)
  <2>1. Byte(p, 0) = Byte(b, 0) /\ Byte(p, 2) = Byte(b, 2) /\ Byte(p, 3) = Byte(b, 3)
    <3>1. 0 \in 0 .. n - 1 /\ 2 \in 0 .. n - 1 /\ 3 \in 0 .. n - 1 /\ 0 < 8 /\ 2 < 8 /\ 3 < 8
      OBVIOUS
    <3> QED
      BY <1>8, <3>1
  <2>2. Byte(p, t + 12) = Byte(b, t + 12)
    <3>1. t + 12 \in 0 .. n - 1 /\ t + 12 >= 20 /\ t + 12 # off /\ t + 12 # off + 1
      BY <1>1
    <3> QED
      BY <1>8, <3>1
  <2> QED
    BY <2>1, <2>2, SegmentKept, Zenon
<1>10. /\ ByteArray(c, n)
       /\ \A o \in 0 .. n - 1 : o # t + 16 /\ o # t + 17 => Byte(c, o) = Byte(p, o)
       /\ Segment(c, n, t, d, len)
       /\ d >= 20 => SumsToMinusZero(Pseudo(c, len) \o Field(c, t, len))
  BY <1>7, <1>9, TcpCheckValid
<1> HIDE DEF c
<1>11. ASSUME t >= 20 PROVE SumsToMinusZero(Field(c, 0, t))
  <2>1. \A o \in 0 .. n - 1 : o < t => Byte(c, o) = Byte(a, o)
    BY <1>1, <1>7, <1>10
  <2>2. \A i \in 1 .. t : 0 + i - 1 \in 0 .. n - 1 /\ 0 + i - 1 < t
    BY <1>1
  <2>3. Agree(c, 0, a, 0, t)
    BY <2>1, <2>2 DEF Agree
  <2>4. Field(c, 0, t) = Field(a, 0, t)
    <3>1. Array(c, n) /\ Array(a, n) /\ 0 + t <= n
      BY <1>1, <1>5, <1>10, ByteArrayIs
    <3> QED
      BY <1>1, <2>3, <3>1, SameField
  <2> QED
    BY <1>5, <1>11, <2>4
<1> QED
  BY <1>6, <1>10, <1>11, Zenon DEF c, p, a, e, Accepted

-----------------------------------------------------------------------------
(* The reset packet                                                        *)

LEMMA ResetIpValid ==
    ASSUME NEW n \in Nat, n >= 40, NEW b, ByteArray(b, n)
    PROVE  LET c == ResetIp(b)
           IN  /\ ByteArray(c, n)
               /\ Tcp(c) = 20 /\ tot_len(c) = 40
               /\ SumsToMinusZero(Field(c, 0, 20))
<1> DEFINE first == 16 * (Byte(b, 0) \div 16) + 5
           b1 == Put(b, 0, <<first>>)
           b2 == PutShort(b1, 2, 40)
           ids == NextId(b) \o <<0, 0>>
           b3 == Put(b2, 4, ids)
           b4 == Put(b3, 8, <<60>>)
           addrs == daddr(b) \o saddr(b)
           b5 == Put(b4, 12, addrs)
           c == ResetIp(b)
<1>1. c = PutIpCheck(b5)
  BY DEF ResetIp
<1>2. \A o \in 0 .. n - 1 : Byte(b, o) \in Bytes
  BY ByteArrayIs
<1>3. first \in Bytes /\ first % 16 = 5
  <2>1. Byte(b, 0) \in Bytes
    BY <1>2
  <2> QED
    BY <2>1, ByteIs
<1>4. 0 \in Bytes /\ 60 \in Bytes /\ Word(40) /\ 40 \div 256 = 0 /\ 40 % 256 = 40
  <2>1. Word(40)
    BY SMT DEF Word
  <2> QED
    BY <2>1, ByteIs
<1> HIDE DEF first
<1>5. ByteArray(<<first>>, 1) /\ ByteArray(<<60>>, 1) /\ ByteArray(<<0, 0>>, 2)
  BY <1>3, <1>4, PairTyped
<1>6. ByteArray(ids, 4)
  <2>1. Byte(b, 4) \in Bytes /\ Byte(b, 5) \in Bytes
    BY <1>2
  <2>2. \A x \in Bytes : (x + 1) % 256 \in Bytes
    BY ByteIs
  <2>3. ByteArray(NextId(b), 2)
    <3>1. PICK x \in Bytes, y \in Bytes :
             /\ x = (Byte(b, 4) + 1) % 256
             /\ y = IF Byte(b, 4) = 255 THEN (Byte(b, 5) + 1) % 256 ELSE Byte(b, 5)
      BY <2>1, <2>2
    <3>2. NextId(b) = <<x, y>>
      BY <3>1 DEF NextId
    <3> QED
      BY <3>2, PairTyped
  <2>4. ByteArray(ids, 2 + 2)
    BY <1>5, <2>3, ConcatTyped
  <2> QED
    BY <2>4
<1>7. ByteArray(addrs, 8)
  <2>1. ByteArray(saddr(b), 4) /\ ByteArray(daddr(b), 4)
    BY FieldTyped DEF saddr, daddr
  <2>2. ByteArray(addrs, 4 + 4)
    BY <2>1, ConcatTyped
  <2> QED
    BY <2>2
<1> HIDE DEF ids, addrs
<1>8. ByteArray(b1, n) /\ Stored(b1, b, n, 0, <<first>>, 1)
  BY <1>5, PutTyped
<1> HIDE DEF b1
<1>9. /\ ByteArray(b2, n)
      /\ \A o \in 0 .. n - 1 : o # 2 /\ o # 2 + 1 => Byte(b2, o) = Byte(b1, o)
      /\ Byte(b2, 2) = 40 \div 256 /\ Byte(b2, 2 + 1) = 40 % 256
  BY <1>4, <1>8, PutShortTyped
<1> HIDE DEF b2
<1>10. ByteArray(b3, n) /\ Stored(b3, b2, n, 4, ids, 4)
  BY <1>6, <1>9, PutTyped
<1> HIDE DEF b3
<1>11. ByteArray(b4, n) /\ Stored(b4, b3, n, 8, <<60>>, 1)
  BY <1>5, <1>10, PutTyped
<1> HIDE DEF b4
<1>12. ByteArray(b5, n) /\ Stored(b5, b4, n, 12, addrs, 8)
  BY <1>7, <1>11, PutTyped
<1> HIDE DEF b5, c
<1>13. ASSUME NEW o \in 0 .. 3 PROVE Byte(b5, o) = Byte(b2, o)
  <2>0. o \in 0 .. n - 1 /\ o \notin 4 .. 4 + 4 - 1 /\ o \notin 8 .. 8 + 1 - 1
        /\ o \notin 12 .. 12 + 8 - 1
    OBVIOUS
  <2>1. Byte(b3, o) = Byte(b2, o)
    BY <1>10, <2>0 DEF Stored
  <2>2. Byte(b4, o) = Byte(b3, o)
    BY <1>11, <2>0 DEF Stored
  <2>3. Byte(b5, o) = Byte(b4, o)
    BY <1>12, <2>0 DEF Stored
  <2> QED
    BY <2>1, <2>2, <2>3
<1>14. Byte(b1, 0) = first
  BY <1>8 DEF Stored
<1>15. Byte(b5, 0) = first /\ Byte(b5, 2) = 0 /\ Byte(b5, 3) = 40
  BY <1>4, <1>9, <1>13, <1>14
<1>16. Tcp(b5) = 20
  BY <1>3, <1>15 DEF Tcp, ihl
<1>17. /\ ByteArray(c, n)
       /\ \A o \in 0 .. n - 1 : o # 10 /\ o # 11 => Byte(c, o) = Byte(b5, o)
       /\ SumsToMinusZero(Field(c, 0, 20))
  BY <1>1, <1>12, <1>16, IpCheckValid
<1>18. Byte(c, 0) = Byte(b5, 0) /\ Byte(c, 2) = 0 /\ Byte(c, 3) = 40
  BY <1>15, <1>17
<1>19. Tcp(c) = 20
  BY <1>16, <1>18, TcpSame
<1>20. tot_len(c) = 40
  <2>1. tot_len(c) = 256 * Byte(c, 2) + Byte(c, 2 + 1)
    BY DEF tot_len, Short
  <2> QED
    BY <1>18, <2>1
<1> QED
  BY <1>17, <1>19, <1>20 DEF c

LEMMA ResetTcpValid ==
    ASSUME NEW n \in Nat, n >= 40, NEW b, ByteArray(b, n), Tcp(b) = 20, tot_len(b) = 40,
           SumsToMinusZero(Field(b, 0, 20))
    PROVE  LET c == ResetTcp(b, 20)
           IN  ByteArray(c, n) /\ Segment(c, n, 20, 20, 20) /\ Accepted(c, 20, 20)
<1> DEFINE ports == Field(b, 22, 2) \o Field(b, 20, 2)
           next == PlusOne(Field(b, 24, 4))
           seqs == Field(b, 28, 4) \o next
           flag == 80 + (Byte(b, 32) % 16)
           b1 == Put(b, 20, ports)
           b2 == Put(b1, 24, seqs)
           b3 == Put(b2, 32, <<flag, 20>>)
           c == ResetTcp(b, 20)
<1>1. c = PutTcpCheck(b3, 20)
  BY DEF ResetTcp
<1>2. ByteArray(ports, 4)
  <2>1. ByteArray(Field(b, 22, 2), 2) /\ ByteArray(Field(b, 20, 2), 2)
    BY FieldTyped
  <2>2. ByteArray(ports, 2 + 2)
    BY <2>1, ConcatTyped
  <2> QED
    BY <2>2
<1>3. ByteArray(seqs, 8)
  <2>1. ByteArray(Field(b, 28, 4), 4) /\ ByteArray(Field(b, 24, 4), 4)
    BY FieldTyped
  <2>2. \A x \in Bytes : (x + 1) % 256 \in Bytes
    BY ByteIs
  <2>3. ByteArray(next, 4)
    BY <2>1, <2>2 DEF PlusOne, ByteArray
  <2> HIDE DEF next
  <2>4. ByteArray(seqs, 4 + 4)
    BY <2>1, <2>3, ConcatTyped
  <2> QED
    BY <2>4
<1>4. flag \in Bytes /\ 20 \in Bytes /\ flag \div 16 = 5
  <2>1. Byte(b, 32) \in Bytes
    BY ByteArrayIs
  <2> QED
    BY <2>1, ByteIs
<1> HIDE DEF ports, seqs, flag
<1>5. ByteArray(<<flag, 20>>, 2)
  BY <1>4, PairTyped
<1>6. ByteArray(b1, n) /\ Stored(b1, b, n, 20, ports, 4)
  BY <1>2, PutTyped
<1> HIDE DEF b1
<1>7. ByteArray(b2, n) /\ Stored(b2, b1, n, 24, seqs, 8)
  BY <1>3, <1>6, PutTyped
<1> HIDE DEF b2
<1>8. ByteArray(b3, n) /\ Stored(b3, b2, n, 32, <<flag, 20>>, 2)
  BY <1>5, <1>7, PutTyped
<1> HIDE DEF b3
<1>9. ASSUME NEW o \in 0 .. 19 PROVE Byte(b3, o) = Byte(b, o)
  <2>0. o \in 0 .. n - 1 /\ o \notin 20 .. 20 + 4 - 1 /\ o \notin 24 .. 24 + 8 - 1
        /\ o \notin 32 .. 32 + 2 - 1
    OBVIOUS
  <2>1. Byte(b1, o) = Byte(b, o)
    BY <1>6, <2>0 DEF Stored
  <2>2. Byte(b2, o) = Byte(b1, o)
    BY <1>7, <2>0 DEF Stored
  <2>3. Byte(b3, o) = Byte(b2, o)
    BY <1>8, <2>0 DEF Stored
  <2> QED
    BY <2>1, <2>2, <2>3
<1>10. Byte(b3, 32) = flag
  <2>1. 32 \in 0 .. n - 1 /\ 32 \in 32 .. 32 + 2 - 1 /\ 32 - 32 + 1 = 1 /\ <<flag, 20>>[1] = flag
    OBVIOUS
  <2> QED
    BY <1>8, <2>1 DEF Stored
<1>11. Segment(b3, n, 20, 20, 20)
  <2>1. Byte(b3, 0) = Byte(b, 0) /\ Byte(b3, 2) = Byte(b, 2) /\ Byte(b3, 3) = Byte(b, 3)
    BY <1>9
  <2>2. Tcp(b3) = 20
    BY <2>1, TcpSame
  <2>3. tot_len(b3) = 40
    <3>1. 2 + 1 = 3
      OBVIOUS
    <3> QED
      BY <2>1, <3>1, Zenon DEF tot_len, Short
  <2>4. doff(b3, 20) = 5
    BY <1>4, <1>10 DEF doff
  <2> QED
    BY <2>2, <2>3, <2>4 DEF Segment
<1> HIDE DEF c
<1>12. /\ ByteArray(c, n)
       /\ \A o \in 0 .. n - 1 : o # 20 + 16 /\ o # 20 + 17 => Byte(c, o) = Byte(b3, o)
       /\ Segment(c, n, 20, 20, 20)
       /\ SumsToMinusZero(Pseudo(c, 20) \o Field(c, 20, 20))
  BY <1>1, <1>8, <1>11, TcpCheckValid
<1>13. Field(c, 0, 20) = Field(b, 0, 20)
  <2>1. \A i \in 1 .. 20 : /\ 0 + i - 1 \in 0 .. 19 /\ 0 + i - 1 \in 0 .. n - 1
                           /\ 0 + i - 1 # 20 + 16 /\ 0 + i - 1 # 20 + 17
    OBVIOUS
  <2>2. Agree(c, 0, b, 0, 20)
    BY <1>9, <1>12, <2>1 DEF Agree
  <2>3. Array(c, n) /\ Array(b, n)
    BY <1>12, ByteArrayIs
  <2> QED
    BY <2>2, <2>3, SameField
<1> QED
  BY <1>12, <1>13, Zenon DEF c, Accepted

LEMMA ResetValid ==
    ASSUME NEW n \in Nat, n >= 40, NEW b, ByteArray(b, n)
    PROVE  /\ ByteArray(fillin_reset(b), n)
           /\ Segment(fillin_reset(b), n, 20, 20, 20)
           /\ Accepted(fillin_reset(b), 20, 20)
<1>1. /\ ByteArray(ResetIp(b), n)
      /\ Tcp(ResetIp(b)) = 20 /\ tot_len(ResetIp(b)) = 40
      /\ SumsToMinusZero(Field(ResetIp(b), 0, 20))
  BY ResetIpValid
<1>2. fillin_reset(b) = ResetTcp(ResetIp(b), 20)
  BY <1>1 DEF fillin_reset
<1> QED
  BY <1>1, <1>2, ResetTcpValid

-----------------------------------------------------------------------------
(* The theorems                                                            *)

\* What a handler leaves in the buffer: bytes, and of full headers the lengths
\* they had before and sums that a receiver accepts.  With fewer than two
\* words of IP header the ports are put over the lengths the checksum goes by.
ChecksumInv ==
    /\ HeadersInv
    /\ phase \in {"received", "src", "dst", "reset"}
    /\ ihl(orig) >= 2 \/ phase \in {"received", "reset"} => ByteArray(buffer, Len(orig))
    /\ ChecksumsValid

LEMMA InitChecksum == Init => ChecksumInv
<1> SUFFICES ASSUME Init PROVE ChecksumInv
  OBVIOUS
<1>1. HeadersInv
  BY InitHeaders
<1>2. phase = "received" /\ buffer = orig
  BY DEF Init
<1>3. ByteArray(buffer, Len(orig))
  BY <1>1, <1>2, LenProperties DEF HeadersInv, ByteArray
<1> QED
  BY <1>1, <1>2, <1>3 DEF ChecksumInv, ChecksumsValid

\* What validate_ip_tcp and the fixed size of the buffer say of a packet.
LEMMA ValidSegment ==
    ASSUME HeadersInv, validate_ip_tcp(orig)
    PROVE  /\ Segment(orig, Len(orig), Tcp(orig), doff(orig, Tcp(orig)) * 4,
                      tot_len(orig) - Tcp(orig))
           /\ ihl(orig) >= 2 => Tcp(orig) >= 8
           /\ FullHeaders(orig) => Tcp(orig) >= 20 /\ doff(orig, Tcp(orig)) * 4 >= 20
<1>1. /\ Len(orig) \in Nat /\ Tcp(orig) \in Nat
      /\ doff(orig, Tcp(orig)) \in Nat /\ tot_len(orig) \in Nat
      /\ 40 <= Len(orig) /\ Tcp(orig) + 20 <= Len(orig) /\ tot_len(orig) <= Len(orig)
      /\ Tcp(orig) + doff(orig, Tcp(orig)) * 4 <= tot_len(orig)
  BY LengthTypes
<1>2. ihl(orig) \in 0 .. 15
  BY OrigArray, TcpOffset, <1>1 DEF HeadersInv
<1>3. Segment(orig, Len(orig), Tcp(orig), doff(orig, Tcp(orig)) * 4, tot_len(orig) - Tcp(orig))
  BY <1>1 DEF Segment
<1>4. ihl(orig) >= 2 => Tcp(orig) >= 8
  BY <1>2 DEF Tcp
<1>5. FullHeaders(orig) => Tcp(orig) >= 20
  BY <1>2 DEF Tcp, FullHeaders
<1>6. FullHeaders(orig) => doff(orig, Tcp(orig)) * 4 >= 20
  BY <1>1 DEF FullHeaders
<1> QED
  BY <1>3, <1>4, <1>5, <1>6

\* The TCP header is looked for again after the address has changed.
LEMMA RewriteIs ==
    ASSUME NEW n \in Nat, n >= 40, NEW b, ByteArray(b, n), NEW ip, ByteArray(ip, 4), NEW port
    PROVE  LET t == Tcp(b)
           IN  /\ replace_src_ip_port(b, ip, port) =
                     PutTcpCheck(PutShort(PutIpCheck(Put(b, 12, ip)), t, port), t)
               /\ replace_dst_ip_port(b, ip, port) =
                     PutTcpCheck(PutShort(PutIpCheck(Put(b, 16, ip)), t + 2, port), t)
<1>1. Array(b, n) /\ Len(ip) = 4
  BY ByteArrayIs
<1>2. /\ \A o \in 0 .. n - 1 : o \notin 10 .. 15 =>
            Byte(replace_src_ip(b, ip), o) = Byte(b, o)
      /\ \A o \in 0 .. n - 1 : o \notin {10, 11} \cup 16 .. 19 =>
            Byte(replace_dst_ip(b, ip), o) = Byte(b, o)
  BY <1>1, AddressBytes
<1>3. /\ Byte(replace_src_ip(b, ip), 0) = Byte(b, 0)
      /\ Byte(replace_dst_ip(b, ip), 0) = Byte(b, 0)
  BY <1>2
<1>4. Tcp(replace_src_ip(b, ip)) = Tcp(b) /\ Tcp(replace_dst_ip(b, ip)) = Tcp(b)
  BY <1>3, TcpSame
<1>5. replace_src_ip_port(b, ip, port) =
         PutTcpCheck(PutShort(replace_src_ip(b, ip), Tcp(b), port), Tcp(b))
  BY <1>4, Zenon DEF replace_src_ip_port, replace_src_port
<1>6. replace_dst_ip_port(b, ip, port) =
         PutTcpCheck(PutShort(replace_dst_ip(b, ip), Tcp(b) + 2, port), Tcp(b))
  BY <1>4, Zenon DEF replace_dst_ip_port, replace_dst_port
<1> QED
  BY <1>5, <1>6, Zenon DEF replace_src_ip, replace_dst_ip

LEMMA NextChecksum == ChecksumInv /\ [Next]_vars => ChecksumInv'
<1> SUFFICES ASSUME ChecksumInv, [Next]_vars PROVE ChecksumInv'
  OBVIOUS
<1> DEFINE n == Len(orig)
           t == Tcp(orig)
           d == doff(orig, Tcp(orig)) * 4
           len == tot_len(orig) - Tcp(orig)
<1>0. HeadersInv /\ HeadersInv'
  BY NextHeaders DEF ChecksumInv
<1>1. n \in Nat /\ n >= 40 /\ ByteArray(orig, n)
  BY <1>0, LenProperties DEF HeadersInv, ByteArray
<1>2. ASSUME NEW ip \in Addrs PROVE ByteArray(ip, 4)
  BY AddrsAssumption DEF ByteArray
<1>3. ASSUME NEW port \in PortNums PROVE Word(port)
  BY PortsAssumption, SMT DEF Word
\* Both ways of passing a packet on.
<1>4. ASSUME NEW at \in {12, 16}, NEW off, off = t \/ off = t + 2,
             NEW ip \in Addrs, NEW port \in PortNums,
             validate_ip_tcp(orig), orig' = orig, phase' \in {"src", "dst"},
             buffer' = PutTcpCheck(PutShort(PutIpCheck(Put(orig, at, ip)), off, port), t)
      PROVE  ChecksumInv'
  <2> HIDE DEF n, t, d, len
  <2>1. /\ Segment(orig, n, t, d, len)
        /\ ihl(orig) >= 2 => t >= 8
        /\ FullHeaders(orig) => t >= 20 /\ d >= 20
    BY <1>0, <1>4, ValidSegment DEF n, t, d, len
  <2>2. ASSUME t >= 8
        PROVE  /\ ByteArray(buffer', n) /\ Segment(buffer', n, t, d, len)
               /\ t >= 20 /\ d >= 20 => Accepted(buffer', t, len)
    BY <1>1, <1>2, <1>3, <1>4, <2>1, <2>2, RewriteValid
  <2>3. ihl(orig) >= 2 => ByteArray(buffer', n)
    BY <2>1, <2>2
  <2>4. ASSUME FullHeaders(orig) PROVE ChecksumsValid'
    <3>1. t \in Nat /\ t >= 20 /\ d >= 20
      BY <2>1, <2>4 DEF Segment
    <3>2. t >= 8
      BY <3>1
    <3>3. Segment(buffer', n, t, d, len) /\ Accepted(buffer', t, len)
      BY <2>2, <3>1, <3>2
    <3>4. Tcp(buffer') = t /\ tot_len(buffer') - t = len
      BY <3>3, Zenon DEF Segment
    <3> QED
      BY <3>3, <3>4, Zenon DEF ChecksumsValid, Accepted, Pseudo
  <2>5. ~ FullHeaders(orig) => ChecksumsValid'
    BY <1>4 DEF ChecksumsValid
  <2> QED
    BY <1>0, <1>4, <2>3, <2>4, <2>5 DEF ChecksumInv, n
<1>5. ASSUME NEW ip \in Addrs, NEW port \in PortNums, ToWorld(ip, port)
      PROVE  ChecksumInv'
  <2>1. /\ validate_ip_tcp(orig) /\ buffer' = replace_src_ip_port(orig, ip, port)
        /\ phase' = "src" /\ orig' = orig
    BY <1>0, <1>5 DEF ToWorld, HeadersInv
  <2>2. buffer' = PutTcpCheck(PutShort(PutIpCheck(Put(orig, 12, ip)), t, port), t)
    BY <1>1, <1>2, <2>1, RewriteIs
  <2> HIDE DEF t
  <2> QED
    BY <1>4, <2>1, <2>2
<1>6. ASSUME NEW ip \in Addrs, NEW port \in PortNums, ToClient(ip, port)
      PROVE  ChecksumInv'
  <2>1. /\ validate_ip_tcp(orig) /\ buffer' = replace_dst_ip_port(orig, ip, port)
        /\ phase' = "dst" /\ orig' = orig
    BY <1>0, <1>6 DEF ToClient, HeadersInv
  <2>2. buffer' = PutTcpCheck(PutShort(PutIpCheck(Put(orig, 16, ip)), t + 2, port), t)
    BY <1>1, <1>2, <2>1, RewriteIs
  <2> HIDE DEF t
  <2> QED
    BY <1>4, <2>1, <2>2
<1>7. CASE Refuse
  <2>1. buffer' = fillin_reset(orig) /\ phase' = "reset" /\ orig' = orig
    BY <1>0, <1>7 DEF Refuse, HeadersInv
  <2>2. /\ ByteArray(buffer', n) /\ Segment(buffer', n, 20, 20, 20)
        /\ Accepted(buffer', 20, 20)
    BY <1>1, <2>1, ResetValid
  <2>3. Tcp(buffer') = 20 /\ tot_len(buffer') - 20 = 20
    BY <2>2, Zenon DEF Segment
  <2>4. ChecksumsValid'
    BY <2>2, <2>3, Zenon DEF ChecksumsValid, Accepted, Pseudo
  <2> QED
    BY <1>0, <2>1, <2>2, <2>4 DEF ChecksumInv
<1>8. CASE UNCHANGED vars
  BY <1>0, <1>8 DEF vars, ChecksumInv, ChecksumsValid
<1> QED
  BY <1>5, <1>6, <1>7, <1>8 DEF Next

LEMMA SpecChecksum == Spec => []ChecksumInv
BY InitChecksum, NextChecksum, PTL DEF Spec

\* A receiver accepts both checksums of every packet with full headers that is
\* passed on, and of every reset packet: for every length and parity of the
\* payload, all options, whatever the checksums were before and whatever the
\* buffer held, and although summing ends the carries in 16 bits three times.
THEOREM ChecksumsValidHolds == Spec => []ChecksumsValid
<1>1. ChecksumInv => ChecksumsValid
  BY DEF ChecksumInv
<1> QED
  BY <1>1, SpecChecksum, PTL

\* The buffer keeps its length and holds bytes, whatever packet with an IP
\* header of at least two words is handled, accepted or refused: every sum and
\* every field that is read lies in it.
THEOREM TypeOKHolds == Spec /\ ihl(orig) >= 2 => []TypeOK
<1> DEFINE Inv == ChecksumInv /\ ihl(orig) >= 2
<1>1. Init /\ ihl(orig) >= 2 => Inv
  BY InitChecksum
<1>2. Inv /\ [Next]_vars => Inv'
  <2> SUFFICES ASSUME Inv, [Next]_vars PROVE Inv'
    OBVIOUS
  <2>1. orig' = orig
    BY DEF Next, ToWorld, ToClient, Refuse, vars
  <2> QED
    BY <2>1, NextChecksum
<1>3. Inv => TypeOK
  <2> SUFFICES ASSUME Inv PROVE TypeOK
    OBVIOUS
  <2>1. Len(orig) \in Nat /\ ByteArray(buffer, Len(orig))
    BY LenProperties DEF ChecksumInv, HeadersInv
  <2>2. Len(buffer) = Len(orig)
    BY <2>1, ByteArrayIs
  <2> QED
    BY <2>1, <2>2 DEF TypeOK, ChecksumInv, ByteArray
<1> HIDE DEF Inv
<1> QED
  BY <1>1, <1>2, <1>3, PTL DEF Spec

=============================================================================
