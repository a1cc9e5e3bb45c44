------------------------- MODULE SessionTableProofs -------------------------
(***************************************************************************)
(* Proofs about SessionTable, for every number of buckets, port range,     *)
(* width of next_num, content of the uninitialised count and set of        *)
(* endpoints.                                                              *)
(***************************************************************************)
EXTENDS SessionTable, SequenceTheorems, WellFoundedInduction, TLAPS

\* list without its k-th node
Unlinked(list, k) ==
    [j \in 1 .. Len(list) - 1 |-> IF j < k THEN list[j] ELSE list[j + 1]]

\* The result of unlinking is a list of the same sessions.
LEMMA UnlinkedType ==
    ASSUME NEW S, NEW list \in Seq(S), NEW k \in 1 .. Len(list)
    PROVE  /\ Unlinked(list, k) \in Seq(S)
           /\ Len(Unlinked(list, k)) = Len(list) - 1
           /\ DOMAIN Unlinked(list, k) = 1 .. Len(list) - 1
           /\ \A j \in 1 .. Len(list) - 1 :
                 Unlinked(list, k)[j] = IF j < k THEN list[j] ELSE list[j + 1]
BY DEF Unlinked

\* Unlinking a node, as the loop of delete_expired_session does it.
LEMMA RemoveAtUnlinks ==
    ASSUME NEW S, NEW list \in Seq(S), NEW k \in 1 .. Len(list)
    PROVE  RemoveAt(list, k) = Unlinked(list, k)
<1>0. Len(list) \in Nat
  OBVIOUS
<1> DEFINE pre == SubSeq(list, 1, k - 1)
           post == SubSeq(list, k + 1, Len(list))
<1>1. /\ pre \in Seq(S) /\ Len(pre) = k - 1
      /\ \A j \in 1 .. k - 1 : pre[j] = list[j]
  OBVIOUS
<1>2. /\ post \in Seq(S) /\ Len(post) = Len(list) - k
      /\ \A j \in 1 .. Len(list) - k : post[j] = list[j + k]
  OBVIOUS
<1> HIDE DEF pre, post
<1>3. /\ pre \o post \in Seq(S)
      /\ Len(pre \o post) = Len(list) - 1
  <2>1. Len(pre \o post) = Len(pre) + Len(post)
    BY <1>1, <1>2, ConcatProperties
  <2> QED
    BY <1>0, <1>1, <1>2, <2>1, ConcatProperties
<1>4. ASSUME NEW j \in 1 .. Len(list) - 1
      PROVE  (pre \o post)[j] = Unlinked(list, k)[j]
  <2>1. CASE j < k
    <3>1. j \in 1 .. k - 1
      BY <2>1
    <3>2. (pre \o post)[j] = pre[j]
      BY <1>1, <1>2, <3>1
    <3>3. pre[j] = list[j]
      BY <1>1, <3>1
    <3> QED
      BY <3>2, <3>3, <2>1, UnlinkedType
  <2>2. CASE j >= k
    <3>1. (pre \o post)[j] = post[j - (k - 1)]
      BY <1>1, <1>2, <2>2
    <3>2. j - (k - 1) \in 1 .. Len(list) - k
      BY <2>2
    <3>3. post[j - (k - 1)] = list[j + 1]
      BY SMTT(30), <1>2, <3>2
    <3> QED
      BY <3>1, <3>3, <2>2, UnlinkedType
  <2>3. j < k \/ j >= k
    BY <1>0
  <2> QED
    BY <2>1, <2>2, <2>3
<1>5. pre \o post = Unlinked(list, k)
  <2>1. /\ Unlinked(list, k) \in Seq(S)
        /\ Len(Unlinked(list, k)) = Len(list) - 1
    BY UnlinkedType
  <2> QED
    BY <1>3, <1>4, <2>1, SeqEqual
<1> QED
  BY <1>5 DEF RemoveAt, pre, post

\* Unlinking the head, as delete_expired_session does it last.
LEMMA TailUnlinks ==
    ASSUME NEW S, NEW list \in Seq(S), list # <<>>
    PROVE  Tail(list) = Unlinked(list, 1)
<1>1. 1 \in 1 .. Len(list)
  OBVIOUS
<1>2. /\ Tail(list) \in Seq(S)
      /\ Len(Tail(list)) = Len(list) - 1
      /\ \A j \in 1 .. Len(list) - 1 : Tail(list)[j] = list[j + 1]
  OBVIOUS
<1> QED
  BY <1>1, <1>2, UnlinkedType, SeqEqual

-----------------------------------------------------------------------------
(* Arithmetic of the hashes and of the port search                         *)

\* What the % of the hashes and of the port search returns.
LEMMA ModRange ==
    ASSUME NEW a \in Nat, NEW n \in Nat \ {0}
    PROVE  a % n \in 0 .. n - 1
OBVIOUS

\* The hashes are indices of the arrays.
LEMMA HashRange ==
    /\ \A ep \in Endpoints : hash_client(ep) \in Buckets
    /\ \A port \in Ports : hash_server(port) \in Buckets
<1>1. ASSUME NEW ep \in Endpoints
      PROVE  hash_client(ep) \in Buckets
  <2>1. /\ ep[1] + ep[2] \in Nat
        /\ U32 \in Nat \ {0} /\ NumEntry \in Nat \ {0}
    BY TableAssumption
  <2>2. (ep[1] + ep[2]) % U32 \in Nat
    BY <2>1, ModRange
  <2> QED
    BY <2>1, <2>2, ModRange DEF hash_client, Buckets
<1>2. ASSUME NEW port \in Ports
      PROVE  hash_server(port) \in Buckets
  <2>1. port \in Nat /\ NumEntry \in Nat \ {0}
    BY TableAssumption DEF Ports
  <2> QED
    BY <2>1, ModRange DEF hash_server, Buckets
<1> QED
  BY <1>1, <1>2

\* The port search stays in the range init_hash_table was given, also when
\* next_num wraps.
LEMMA PortTriedRange ==
    ASSUME next_num \in Nat, NEW k \in Nat
    PROVE  PortTried(k) \in Ports
<1> DEFINE n == (next_num + k) % U32
<1>1. /\ U32 \in Nat \ {0} /\ mod_num \in Nat \ {0} /\ MinPort \in Nat
      /\ MaxPort = MinPort + mod_num - 1
  BY TableAssumption DEF mod_num
<1>2. n \in Nat
  BY <1>1, ModRange
<1> HIDE DEF n
<1>3. n % mod_num \in 0 .. mod_num - 1
  BY <1>1, <1>2, ModRange
<1>4. (n % mod_num) + MinPort \in MinPort .. MaxPort
  BY <1>1, <1>3
<1> QED
  BY <1>4 DEF PortTried, Ports, n

-----------------------------------------------------------------------------
(* One array of lists.  place gives the bucket a session belongs in and key *)
(* the value it is searched by; addresses are 1 .. n.                       *)

Placed(lists, place) ==
    \A b \in Buckets : \A k \in DOMAIN lists[b] : place[lists[b][k]] = b

Distinct(lists, key) ==
    \A b \in Buckets : \A k, l \in DOMAIN lists[b] :
        key[lists[b][k]] = key[lists[b][l]] => k = l

\* the array without the k-th node of bucket b
Unlink(lists, b, k) == [lists EXCEPT ![b] = Unlinked(lists[b], k)]

\* What it means for a session to hang in an array of lists.
LEMMA ListedIff ==
    ASSUME NEW lists, NEW s
    PROVE  s \in Listed(lists) <=>
              \E b \in Buckets : \E k \in DOMAIN lists[b] : lists[b][k] = s
BY DEF Listed

\* Unlinking the k-th node of bucket b, seen on the whole array.
LEMMA UnlinkEntries ==
    ASSUME NEW S, NEW lists \in [Buckets -> Seq(S)], NEW b \in Buckets,
           NEW k \in 1 .. Len(lists[b]),
           NEW new, new = Unlink(lists, b, k)
    PROVE  /\ new \in [Buckets -> Seq(S)]
           /\ \A c \in Buckets : c # b => new[c] = lists[c]
           /\ DOMAIN new[b] = 1 .. Len(lists[b]) - 1
           /\ Len(new[b]) = Len(lists[b]) - 1
           /\ DOMAIN lists[b] = 1 .. Len(lists[b])
           /\ \A j \in DOMAIN new[b] :
                 new[b][j] = IF j < k THEN lists[b][j] ELSE lists[b][j + 1]
<1>1. lists[b] \in Seq(S)
  OBVIOUS
<1>2. /\ Unlinked(lists[b], k) \in Seq(S)
      /\ Len(Unlinked(lists[b], k)) = Len(lists[b]) - 1
      /\ DOMAIN Unlinked(lists[b], k) = 1 .. Len(lists[b]) - 1
      /\ \A j \in 1 .. Len(lists[b]) - 1 :
            Unlinked(lists[b], k)[j] = IF j < k THEN lists[b][j]
                                                ELSE lists[b][j + 1]
  BY <1>1, UnlinkedType
<1> QED
  BY <1>1, <1>2 DEF Unlink

\* Unlinking a node drops that session and disturbs nothing else.
LEMMA UnlinkKeeps ==
    ASSUME NEW S, NEW lists \in [Buckets -> Seq(S)], NEW b \in Buckets,
           NEW k \in 1 .. Len(lists[b]),
           NEW new, new = Unlink(lists, b, k),
           NEW place, NEW key, Placed(lists, place), Distinct(lists, key)
    PROVE  /\ Placed(new, place)
           /\ Distinct(new, key)
           /\ Listed(new) \subseteq Listed(lists)
           /\ \A s \in Listed(lists) : s # lists[b][k] => s \in Listed(new)
<1>0. /\ new \in [Buckets -> Seq(S)]
      /\ \A c \in Buckets : c # b => new[c] = lists[c]
      /\ DOMAIN new[b] = 1 .. Len(lists[b]) - 1
      /\ DOMAIN lists[b] = 1 .. Len(lists[b])
      /\ \A j \in DOMAIN new[b] :
            new[b][j] = IF j < k THEN lists[b][j] ELSE lists[b][j + 1]
  BY UnlinkEntries
<1>1. Len(lists[b]) \in Nat
  OBVIOUS
<1>2. ASSUME NEW j \in DOMAIN new[b]
      PROVE  \E i \in DOMAIN lists[b] :
                /\ new[b][j] = lists[b][i]
                /\ i = IF j < k THEN j ELSE j + 1
  BY <1>0, <1>1
<1>3. Placed(new, place)
  <2> SUFFICES ASSUME NEW c \in Buckets, NEW j \in DOMAIN new[c]
               PROVE  place[new[c][j]] = c
    BY DEF Placed
  <2>1. CASE c # b
    BY <1>0, <2>1 DEF Placed
  <2>2. CASE c = b
    BY <1>2, <2>2 DEF Placed
  <2> QED
    BY <2>1, <2>2
<1>4. Distinct(new, key)
  <2> SUFFICES ASSUME NEW c \in Buckets, NEW j \in DOMAIN new[c],
                      NEW l \in DOMAIN new[c],
                      key[new[c][j]] = key[new[c][l]]
               PROVE  j = l
    BY DEF Distinct
  <2>1. CASE c # b
    BY <1>0, <2>1 DEF Distinct
  <2>2. CASE c = b
    <3>1. PICK i \in DOMAIN lists[b] :
             new[b][j] = lists[b][i] /\ i = IF j < k THEN j ELSE j + 1
      BY <1>2, <2>2
    <3>2. PICK m \in DOMAIN lists[b] :
             new[b][l] = lists[b][m] /\ m = IF l < k THEN l ELSE l + 1
      BY <1>2, <2>2
    <3>3. i = m
      BY <2>2, <3>1, <3>2 DEF Distinct
    <3>4. j \in Int /\ l \in Int /\ k \in Int
      BY <1>0, <1>1, <2>2
    <3> QED
      BY <3>1, <3>2, <3>3, <3>4
  <2> QED
    BY <2>1, <2>2
<1>5. Listed(new) \subseteq Listed(lists)
  <2> SUFFICES ASSUME NEW s, s \in Listed(new)
               PROVE  s \in Listed(lists)
    OBVIOUS
  <2>1a. PICK c \in Buckets : \E j \in DOMAIN new[c] : new[c][j] = s
    BY ListedIff
  <2>1. PICK j \in DOMAIN new[c] : new[c][j] = s
    BY <2>1a
  <2>2. CASE c # b
    BY <1>0, <2>1, <2>2, ListedIff
  <2>3. CASE c = b
    BY <1>2, <2>1, <2>3, ListedIff
  <2> QED
    BY <2>2, <2>3
<1>6. ASSUME NEW s \in Listed(lists), s # lists[b][k]
      PROVE  s \in Listed(new)
  <2>1a. PICK c \in Buckets : \E i \in DOMAIN lists[c] : lists[c][i] = s
    BY ListedIff
  <2>1. PICK i \in DOMAIN lists[c] : lists[c][i] = s
    BY <2>1a
  <2>2. CASE c # b
    BY <1>0, <2>1, <2>2, ListedIff
  <2>3. CASE c = b
    <3>1. i # k /\ i \in 1 .. Len(lists[b])
      BY <1>0, <1>6, <2>1, <2>3
    <3>2. \E j \in DOMAIN new[b] : new[b][j] = lists[b][i]
      <4>1. CASE i < k
        BY <1>0, <1>1, <3>1, <4>1
      <4>2. CASE i > k
        <5>1. i - 1 \in DOMAIN new[b] /\ ~ (i - 1 < k) /\ (i - 1) + 1 = i
          BY <1>0, <1>1, <3>1, <4>2
        <5> QED
          BY <1>0, <5>1
      <4>3. i < k \/ i > k
        BY <1>1, <3>1
      <4> QED
        BY <4>1, <4>2, <4>3
    <3> QED
      BY <2>1, <2>3, <3>2, ListedIff
  <2> QED
    BY <2>2, <2>3
<1> QED
  BY <1>3, <1>4, <1>5, <1>6

\* Appending the session at the new address n + 1 to its own bucket, when no
\* session there has its key.
LEMMA InsertKeeps ==
    ASSUME NEW n \in Nat, NEW lists \in [Buckets -> Seq(1 .. n)],
           NEW place, NEW key, Placed(lists, place), Distinct(lists, key),
           place[n + 1] \in Buckets,
           \A k \in DOMAIN lists[place[n + 1]] :
               key[lists[place[n + 1]][k]] # key[n + 1],
           NEW new, new = insert_tcp_session(lists, place[n + 1], n + 1)
    PROVE  /\ new \in [Buckets -> Seq(1 .. n + 1)]
           /\ Placed(new, place)
           /\ Distinct(new, key)
           /\ Listed(new) = Listed(lists) \cup {n + 1}
<1> DEFINE b == place[n + 1]
<1>1. /\ b \in Buckets /\ lists[b] \in Seq(1 .. n) /\ Len(lists[b]) \in Nat
      /\ DOMAIN lists[b] = 1 .. Len(lists[b])
  OBVIOUS
<1>2. ASSUME NEW c \in Buckets
      PROVE  lists[c] \in Seq(1 .. n + 1)
  <2>1. /\ lists[c] \in Seq(1 .. n)
        /\ \A i \in 1 .. Len(lists[c]) : lists[c][i] \in 1 .. n + 1
    OBVIOUS
  <2> QED
    BY <2>1
<1>3. /\ new[b] = Append(lists[b], n + 1)
      /\ \A c \in Buckets : c # b => new[c] = lists[c]
      /\ DOMAIN new = Buckets
  BY <1>1 DEF insert_tcp_session
<1>4. /\ new[b] \in Seq(1 .. n + 1)
      /\ Len(new[b]) = Len(lists[b]) + 1
      /\ \A i \in 1 .. Len(lists[b]) : new[b][i] = lists[b][i]
      /\ new[b][Len(lists[b]) + 1] = n + 1
  <2>1. lists[b] \in Seq(1 .. n + 1) /\ n + 1 \in 1 .. n + 1
    BY <1>1, <1>2
  <2>2. /\ Append(lists[b], n + 1) \in Seq(1 .. n + 1)
        /\ Len(Append(lists[b], n + 1)) = Len(lists[b]) + 1
        /\ \A i \in 1 .. Len(lists[b]) :
              Append(lists[b], n + 1)[i] = lists[b][i]
        /\ Append(lists[b], n + 1)[Len(lists[b]) + 1] = n + 1
    BY <2>1, AppendProperties
  <2> QED
    BY <1>3, <2>2
<1>5. DOMAIN new[b] = (DOMAIN lists[b]) \cup {Len(lists[b]) + 1}
  BY SMTT(30), <1>1, <1>4
<1>6. new \in [Buckets -> Seq(1 .. n + 1)]
  <2>1. \A c \in Buckets : new[c] \in Seq(1 .. n + 1)
    BY <1>2, <1>3, <1>4
  <2>2. new = [c \in Buckets |-> new[c]]
    BY <1>3 DEF insert_tcp_session
  <2> QED
    BY <2>1, <2>2
<1> HIDE DEF b
<1>7. Placed(new, place)
  <2> SUFFICES ASSUME NEW c \in Buckets, NEW j \in DOMAIN new[c]
               PROVE  place[new[c][j]] = c
    BY DEF Placed
  <2>1. CASE c # b
    BY <1>3, <2>1 DEF Placed
  <2>2. CASE c = b /\ j \in DOMAIN lists[b]
    BY <1>1, <1>4, <2>2 DEF Placed
  <2>3. CASE c = b /\ j = Len(lists[b]) + 1
    BY <1>4, <2>3 DEF b
  <2> QED
    BY <1>5, <2>1, <2>2, <2>3
<1>8. Distinct(new, key)
  <2> SUFFICES ASSUME NEW c \in Buckets, NEW j \in DOMAIN new[c],
                      NEW l \in DOMAIN new[c],
                      key[new[c][j]] = key[new[c][l]]
               PROVE  j = l
    BY DEF Distinct
  <2>1. CASE c # b
    BY <1>3, <2>1 DEF Distinct
  <2>2. CASE c = b
    <3>1. \A i \in DOMAIN lists[b] : key[lists[b][i]] # key[n + 1]
      BY DEF b
    <3>2. \A i \in DOMAIN lists[b] : new[b][i] = lists[b][i]
      BY <1>1, <1>4
    <3>3. CASE j \in DOMAIN lists[b] /\ l \in DOMAIN lists[b]
      BY <1>1, <2>2, <3>2, <3>3 DEF Distinct
    <3>4. CASE j = Len(lists[b]) + 1 /\ l \in DOMAIN lists[b]
      BY <1>4, <2>2, <3>1, <3>2, <3>4
    <3>5. CASE j \in DOMAIN lists[b] /\ l = Len(lists[b]) + 1
      BY <1>4, <2>2, <3>1, <3>2, <3>5
    <3> QED
      BY <1>5, <2>2, <3>3, <3>4, <3>5
  <2> QED
    BY <2>1, <2>2
<1>9. Listed(new) = Listed(lists) \cup {n + 1}
  <2>1. ASSUME NEW s
        PROVE  s \in Listed(new) <=> s \in Listed(lists) \/ s = n + 1
    <3>1. ASSUME s \in Listed(new) PROVE s \in Listed(lists) \/ s = n + 1
      <4>1a. PICK c \in Buckets : \E j \in DOMAIN new[c] : new[c][j] = s
        BY <3>1 DEF Listed
      <4>1. PICK j \in DOMAIN new[c] : new[c][j] = s
        BY <4>1a
      <4>2. CASE c # b
        BY <1>3, <4>1, <4>2, ListedIff
      <4>3. CASE c = b
        BY <1>1, <1>4, <1>5, <4>1, <4>3, ListedIff
      <4> QED
        BY <4>2, <4>3
    <3>2. ASSUME s \in Listed(lists) PROVE s \in Listed(new)
      <4>1a. PICK c \in Buckets : \E j \in DOMAIN lists[c] : lists[c][j] = s
        BY <3>2, ListedIff
      <4>1. PICK j \in DOMAIN lists[c] : lists[c][j] = s
        BY <4>1a
      <4>2. j \in DOMAIN new[c] /\ new[c][j] = s
        BY <1>1, <1>3, <1>4, <1>5, <4>1
      <4> QED
        BY <4>2, ListedIff
    <3>3. n + 1 \in Listed(new)
      BY <1>1, <1>4, <1>5, ListedIff
    <3> QED
      BY <3>1, <3>2, <3>3
  <2> QED
    BY <2>1
<1> QED
  BY <1>6, <1>7, <1>8, <1>9

-----------------------------------------------------------------------------
(* The inductive invariant                                                 *)

ClientPlace == [s \in DOMAIN heap |-> hash_client(heap[s].client)]
ServerPlace == [s \in DOMAIN heap |-> hash_server(heap[s].server_port)]
ClientKey == [s \in DOMAIN heap |-> heap[s].client]
ServerKey == [s \in DOMAIN heap |-> heap[s].server_port]

ListsOK ==
    /\ Placed(list_client_key, ClientPlace)
    /\ Placed(list_server_key, ServerPlace)
    /\ Distinct(list_client_key, ClientKey)
    /\ Distinct(list_server_key, ServerKey)

\* A list holds no freed session.
NotFreed ==
    \A s \in freed : s \notin Listed(list_client_key)
                  /\ s \notin Listed(list_server_key)

\* A session leaves a list only once it has expired, or to be freed.
LiveListed ==
    \A s \in DOMAIN heap \ freed :
        ~ session_expired(s) => /\ s \in Listed(list_client_key)
                                /\ s \in Listed(list_server_key)

\* After delete_hash_table nothing hangs in the lists.
DeletedEmpty ==
    pc = "deleted" => /\ list_client_key = EmptyLists
                      /\ list_server_key = EmptyLists

IInv == TypeOK /\ ListsOK /\ NotFreed /\ LiveListed /\ DeletedEmpty

\* The fields of an allocated session have their types.
LEMMA HeapTypes ==
    ASSUME TypeOK
    PROVE  /\ DOMAIN heap = 1 .. Len(heap) /\ Len(heap) \in Nat
           /\ \A s \in DOMAIN heap :
                 /\ heap[s].client \in Endpoints
                 /\ heap[s].server_port \in Ports
                 /\ heap[s].expire \in Nat
                 /\ hash_client(heap[s].client) \in Buckets
                 /\ hash_server(heap[s].server_port) \in Buckets
<1>1. /\ DOMAIN heap = 1 .. Len(heap) /\ Len(heap) \in Nat
      /\ \A s \in DOMAIN heap : heap[s] \in Session
  BY DEF TypeOK
<1> QED
  BY <1>1, HashRange DEF Session

-----------------------------------------------------------------------------
(* The searches                                                            *)

\* The first hit of a search is one of its hits.
LEMMA MinInSet ==
    ASSUME NEW T \in SUBSET Nat, T # {}
    PROVE  Min(T) \in T
<1> DEFINE R == OpToRel(<, Nat)
<1>1. IsWellFoundedOn(R, Nat)
  BY NatLessThanWellFounded
<1>2. \A x, y \in Nat : <<y, x>> \in R <=> y < x
  BY DEF OpToRel
<1> HIDE DEF R
<1>3. PICK x \in T : \A y \in T : ~ (<<y, x>> \in R)
  BY <1>1, WFMin
<1>4. ASSUME NEW y \in T PROVE x <= y
  <2>1. x \in Nat /\ y \in Nat
    OBVIOUS
  <2>2. ~ (y < x)
    BY <1>2, <1>3, <2>1, Zenon
  <2> QED
    BY <2>1, <2>2
<1> QED
  BY <1>4 DEF Min

\* A search that comes back empty-handed has met no session with the key.
LEMMA SearchNull ==
    ASSUME TypeOK, NEW list \in Seq(DOMAIN heap)
    PROVE  /\ \A ep : search_tcp_session_by_client(list, ep) = NULL =>
                 \A k \in DOMAIN list : heap[list[k]].client # ep
           /\ \A port : search_tcp_session_by_server(list, port) = NULL =>
                 \A k \in DOMAIN list : heap[list[k]].server_port # port
<1>0. /\ DOMAIN list \in SUBSET Nat
      /\ \A k \in DOMAIN list : list[k] # NULL
  BY HeapTypes DEF NULL
<1>1. ASSUME NEW ep, search_tcp_session_by_client(list, ep) = NULL
      PROVE  \A k \in DOMAIN list : heap[list[k]].client # ep
  <2> DEFINE hits == {k \in DOMAIN list : heap[list[k]].client = ep}
  <2>1. hits \in SUBSET Nat /\ hits \subseteq DOMAIN list
    BY <1>0
  <2>2. IF hits = {} THEN TRUE ELSE list[Min(hits)] = NULL
    BY <1>1 DEF search_tcp_session_by_client
  <2> HIDE DEF hits
  <2>3. hits = {}
    BY <1>0, <2>1, <2>2, MinInSet
  <2> QED
    BY <2>3 DEF hits
<1>2. ASSUME NEW port, search_tcp_session_by_server(list, port) = NULL
      PROVE  \A k \in DOMAIN list : heap[list[k]].server_port # port
  <2> DEFINE hits == {k \in DOMAIN list : heap[list[k]].server_port = port}
  <2>1. hits \in SUBSET Nat /\ hits \subseteq DOMAIN list
    BY <1>0
  <2>2. IF hits = {} THEN TRUE ELSE list[Min(hits)] = NULL
    BY <1>2 DEF search_tcp_session_by_server
  <2> HIDE DEF hits
  <2>3. hits = {}
    BY <1>0, <2>1, <2>2, MinInSet
  <2> QED
    BY <2>3 DEF hits
<1> QED
  BY <1>1, <1>2

\* What a search finds hangs in the list and has the key.
LEMMA SearchResult ==
    ASSUME TypeOK
    PROVE  /\ \A ep : hash_client(ep) \in Buckets =>
                 LET s == get_tcp_session_by_client(ep)
                 IN  \/ s = NULL
                     \/ /\ s \in DOMAIN heap /\ s \in Listed(list_client_key)
                        /\ heap[s].client = ep
           /\ \A port : hash_server(port) \in Buckets =>
                 LET s == get_tcp_session_by_server(port)
                 IN  \/ s = NULL
                     \/ /\ s \in DOMAIN heap /\ s \in Listed(list_server_key)
                        /\ heap[s].server_port = port
<1>0. /\ list_client_key \in [Buckets -> Seq(DOMAIN heap)]
      /\ list_server_key \in [Buckets -> Seq(DOMAIN heap)]
  BY DEF TypeOK
<1>1. ASSUME NEW ep, hash_client(ep) \in Buckets,
             get_tcp_session_by_client(ep) # NULL
      PROVE  LET s == get_tcp_session_by_client(ep)
             IN  /\ s \in DOMAIN heap /\ s \in Listed(list_client_key)
                 /\ heap[s].client = ep
  <2> DEFINE list == list_client_key[hash_client(ep)]
             hits == {k \in DOMAIN list : heap[list[k]].client = ep}
  <2>1. list \in Seq(DOMAIN heap)
    BY <1>0, <1>1
  <2>2. hits \in SUBSET Nat /\ hits \subseteq DOMAIN list
    BY <2>1
  <2>3. hits # {} /\ get_tcp_session_by_client(ep) = list[Min(hits)]
    BY <1>1 DEF get_tcp_session_by_client, search_tcp_session_by_client
  <2>4. Min(hits) \in hits
    <3> HIDE DEF hits
    <3> QED
      BY <2>2, <2>3, MinInSet
  <2>5. PICK k \in DOMAIN list : heap[list[k]].client = ep /\ k = Min(hits)
    BY <2>4
  <2>6. list[k] \in DOMAIN heap
    BY <2>1
  <2>7. list[k] \in Listed(list_client_key)
    BY <1>1, ListedIff
  <2> QED
    BY <2>3, <2>5, <2>6, <2>7
<1>2. ASSUME NEW port, hash_server(port) \in Buckets,
             get_tcp_session_by_server(port) # NULL
      PROVE  LET s == get_tcp_session_by_server(port)
             IN  /\ s \in DOMAIN heap /\ s \in Listed(list_server_key)
                 /\ heap[s].server_port = port
  <2> DEFINE list == list_server_key[hash_server(port)]
             hits == {k \in DOMAIN list : heap[list[k]].server_port = port}
  <2>1. list \in Seq(DOMAIN heap)
    BY <1>0, <1>2
  <2>2. hits \in SUBSET Nat /\ hits \subseteq DOMAIN list
    BY <2>1
  <2>3. hits # {} /\ get_tcp_session_by_server(port) = list[Min(hits)]
    BY <1>2 DEF get_tcp_session_by_server, search_tcp_session_by_server
  <2>4. Min(hits) \in hits
    <3> HIDE DEF hits
    <3> QED
      BY <2>2, <2>3, MinInSet
  <2>5. PICK k \in DOMAIN list : heap[list[k]].server_port = port /\ k = Min(hits)
    BY <2>4
  <2>6. list[k] \in DOMAIN heap
    BY <2>1
  <2>7. list[k] \in Listed(list_server_key)
    BY <1>2, ListedIff
  <2> QED
    BY <2>3, <2>5, <2>6, <2>7
<1> QED
  BY <1>1, <1>2

\* A search through lists in order finds the session that hangs there.
LEMMA SearchFinds ==
    ASSUME TypeOK, ListsOK, NEW s \in DOMAIN heap
    PROVE  /\ s \in Listed(list_client_key) =>
                 get_tcp_session_by_client(heap[s].client) = s
           /\ s \in Listed(list_server_key) =>
                 get_tcp_session_by_server(heap[s].server_port) = s
<1>0. /\ list_client_key \in [Buckets -> Seq(DOMAIN heap)]
      /\ list_server_key \in [Buckets -> Seq(DOMAIN heap)]
  BY DEF TypeOK
<1>1. ASSUME s \in Listed(list_client_key)
      PROVE  get_tcp_session_by_client(heap[s].client) = s
  <2>1. PICK b \in Buckets :
           \E k \in DOMAIN list_client_key[b] : list_client_key[b][k] = s
    BY <1>1, ListedIff
  <2>2. PICK k \in DOMAIN list_client_key[b] : list_client_key[b][k] = s
    BY <2>1
  <2>3. b = hash_client(heap[s].client)
    BY <2>2 DEF ListsOK, Placed, ClientPlace
  <2> DEFINE list == list_client_key[b]
             hits == {j \in DOMAIN list : heap[list[j]].client = heap[s].client}
  <2>4. list \in Seq(DOMAIN heap) /\ k \in Nat
    BY <1>0
  <2>5. \A j \in DOMAIN list : heap[list[j]].client = heap[s].client => j = k
    <3>1. \A j \in DOMAIN list : list[j] \in DOMAIN heap
      BY <2>4
    <3> QED
      BY <2>2, <3>1 DEF ListsOK, Distinct, ClientKey
  <2>6. hits = {k}
    BY <2>2, <2>5
  <2>7. Min({k}) = k
    BY <2>4 DEF Min
  <2> QED
    BY <2>2, <2>3, <2>6, <2>7
    DEF get_tcp_session_by_client, search_tcp_session_by_client
<1>2. ASSUME s \in Listed(list_server_key)
      PROVE  get_tcp_session_by_server(heap[s].server_port) = s
  <2>1. PICK b \in Buckets :
           \E k \in DOMAIN list_server_key[b] : list_server_key[b][k] = s
    BY <1>2, ListedIff
  <2>2. PICK k \in DOMAIN list_server_key[b] : list_server_key[b][k] = s
    BY <2>1
  <2>3. b = hash_server(heap[s].server_port)
    BY <2>2 DEF ListsOK, Placed, ServerPlace
  <2> DEFINE list == list_server_key[b]
             hits == {j \in DOMAIN list :
                        heap[list[j]].server_port = heap[s].server_port}
  <2>4. list \in Seq(DOMAIN heap) /\ k \in Nat
    BY <1>0
  <2>5. \A j \in DOMAIN list :
           heap[list[j]].server_port = heap[s].server_port => j = k
    <3>1. \A j \in DOMAIN list : list[j] \in DOMAIN heap
      BY <2>4
    <3> QED
      BY <2>2, <3>1 DEF ListsOK, Distinct, ServerKey
  <2>6. hits = {k}
    BY <2>2, <2>5
  <2>7. Min({k}) = k
    BY <2>4 DEF Min
  <2> QED
    BY <2>2, <2>3, <2>6, <2>7
    DEF get_tcp_session_by_server, search_tcp_session_by_server
<1> QED
  BY <1>1, <1>2

-----------------------------------------------------------------------------
(* The steps                                                               *)

\* The initial state.
LEMMA InitIInv == Init => IInv
<1> SUFFICES ASSUME Init PROVE IInv
  OBVIOUS
<1>1. /\ DOMAIN heap = {} /\ 0 \in Buckets
      /\ EmptyLists \in [Buckets -> Seq(DOMAIN heap)]
      /\ \A b \in Buckets : EmptyLists[b] = <<>> /\ DOMAIN EmptyLists[b] = {}
  BY TableAssumption DEF Init, Buckets, EmptyLists
<1>2. TypeOK
  BY <1>1, TableAssumption
  DEF Init, TypeOK, Start, Sides, CurList
<1>3. ListsOK
  BY <1>1 DEF Init, ListsOK, Placed, Distinct
<1>4. NotFreed /\ LiveListed
  BY <1>1 DEF Init, NotFreed, LiveListed
<1>5. DeletedEmpty
  BY DEF Init, DeletedEmpty
<1> QED
  BY <1>2, <1>3, <1>4, <1>5 DEF IInv

\* A step that unlinks one expired session from one list, whichever it is,
\* keeps the lists in order.
LEMMA UnlinkStep ==
    ASSUME IInv, NEW k \in 1 .. Len(CurList),
           session_expired(CurList[k]),
           SetCurList(Unlinked(CurList, k)),
           UNCHANGED <<heap, freed, now>>
    PROVE  /\ list_client_key' \in [Buckets -> Seq(DOMAIN heap)]
           /\ list_server_key' \in [Buckets -> Seq(DOMAIN heap)]
           /\ ListsOK' /\ NotFreed' /\ LiveListed'
<1>0. /\ list_client_key \in [Buckets -> Seq(DOMAIN heap)]
      /\ list_server_key \in [Buckets -> Seq(DOMAIN heap)]
      /\ cursor.i \in Buckets
      /\ cursor.side \in {"client", "server"}
  BY DEF IInv, TypeOK, Sides
<1>1. /\ ClientPlace' = ClientPlace /\ ServerPlace' = ServerPlace
      /\ ClientKey' = ClientKey /\ ServerKey' = ServerKey
  BY DEF ClientPlace, ServerPlace, ClientKey, ServerKey, hash_client,
         hash_server
<1>2. /\ \A s : session_expired(s)' <=> session_expired(s)
      /\ Listed(list_client_key)' = Listed(list_client_key')
      /\ Listed(list_server_key)' = Listed(list_server_key')
  BY DEF session_expired, Listed
<1>3. CASE cursor.side = "client"
  <2>1. /\ list_client_key' = Unlink(list_client_key, cursor.i, k)
        /\ list_server_key' = list_server_key
        /\ k \in 1 .. Len(list_client_key[cursor.i])
    BY <1>3 DEF SetCurList, CurList, Unlink
  <2>2. session_expired(list_client_key[cursor.i][k])
    BY <1>3 DEF CurList
  <2>3. /\ Placed(list_client_key', ClientPlace)
        /\ Distinct(list_client_key', ClientKey)
        /\ Listed(list_client_key') \subseteq Listed(list_client_key)
        /\ \A s \in Listed(list_client_key) :
              s # list_client_key[cursor.i][k] => s \in Listed(list_client_key')
    <3>1. Placed(list_client_key, ClientPlace) /\ Distinct(list_client_key, ClientKey)
      BY DEF IInv, ListsOK
    <3> QED
      BY SMTT(30), <1>0, <2>1, <3>1, UnlinkKeeps
  <2>4. list_client_key' \in [Buckets -> Seq(DOMAIN heap)]
    BY <1>0, <2>1, UnlinkEntries
  <2>5. ListsOK'
    BY <1>1, <2>1, <2>3 DEF IInv, ListsOK
  <2>6. NotFreed'
    BY <1>2, <2>1, <2>3 DEF IInv, NotFreed
  <2>7. LiveListed'
    BY <1>2, <2>1, <2>3, <2>2 DEF IInv, LiveListed
  <2> QED
    BY <1>0, <2>1, <2>4, <2>5, <2>6, <2>7
<1>4. CASE cursor.side = "server"
  <2>1. /\ list_server_key' = Unlink(list_server_key, cursor.i, k)
        /\ list_client_key' = list_client_key
        /\ k \in 1 .. Len(list_server_key[cursor.i])
    BY <1>4 DEF SetCurList, CurList, Unlink
  <2>2. session_expired(list_server_key[cursor.i][k])
    BY <1>4 DEF CurList
  <2>3. /\ Placed(list_server_key', ServerPlace)
        /\ Distinct(list_server_key', ServerKey)
        /\ Listed(list_server_key') \subseteq Listed(list_server_key)
        /\ \A s \in Listed(list_server_key) :
              s # list_server_key[cursor.i][k] => s \in Listed(list_server_key')
    <3>1. Placed(list_server_key, ServerPlace) /\ Distinct(list_server_key, ServerKey)
      BY DEF IInv, ListsOK
    <3> QED
      BY SMTT(30), <1>0, <2>1, <3>1, UnlinkKeeps
  <2>4. list_server_key' \in [Buckets -> Seq(DOMAIN heap)]
    BY <1>0, <2>1, UnlinkEntries
  <2>5. ListsOK'
    BY <1>1, <2>1, <2>3 DEF IInv, ListsOK
  <2>6. NotFreed'
    BY <1>2, <2>1, <2>3 DEF IInv, NotFreed
  <2>7. LiveListed'
    BY <1>2, <2>1, <2>3, <2>2 DEF IInv, LiveListed
  <2> QED
    BY <1>0, <2>1, <2>4, <2>5, <2>6, <2>7
<1> QED
  BY <1>0, <1>3, <1>4

\* A step that leaves the table, the heap and the clock alone keeps the lists
\* in order.
LEMMA SameTable ==
    ASSUME IInv, UNCHANGED <<heap, freed, now, list_client_key,
                             list_server_key>>
    PROVE  ListsOK' /\ NotFreed' /\ LiveListed'
<1>1. /\ ClientPlace' = ClientPlace /\ ServerPlace' = ServerPlace
      /\ ClientKey' = ClientKey /\ ServerKey' = ServerKey
  BY DEF ClientPlace, ServerPlace, ClientKey, ServerKey, hash_client,
         hash_server
<1>2. /\ \A s : session_expired(s)' <=> session_expired(s)
      /\ Listed(list_client_key)' = Listed(list_client_key)
      /\ Listed(list_server_key)' = Listed(list_server_key)
  BY DEF session_expired, Listed
<1>3. ListsOK'
  BY <1>1 DEF IInv, ListsOK, Placed, Distinct
<1>4. NotFreed' /\ LiveListed'
  BY <1>2 DEF IInv, NotFreed, LiveListed
<1> QED
  BY <1>3, <1>4

\* add_tcp_session on a new endpoint: the port search has found a port that no
\* listed session has, and the session is appended under both keys.
LEMMA AddNewStep ==
    ASSUME IInv, pc = "ready", NEW ep \in Endpoints, NEW timeout \in Nat,
           NEW k \in Nat, get_tcp_session_by_client(ep) = NULL,
           AddNew(ep, timeout, k)
    PROVE  /\ IInv'
           /\ PortTried(k) \in Ports
           /\ DOMAIN heap' = DOMAIN heap \cup {Len(heap) + 1}
           /\ Len(heap) + 1 \notin DOMAIN heap
           /\ Len(heap') = Len(heap) + 1
           /\ \A s \in DOMAIN heap : heap'[s] = heap[s]
           /\ heap'[Len(heap) + 1] = [client |-> ep, server_port |-> PortTried(k),
                                      expire |-> now + timeout]
           /\ Listed(list_client_key') = Listed(list_client_key) \cup {Len(heap) + 1}
           /\ Listed(list_server_key') = Listed(list_server_key) \cup {Len(heap) + 1}
<1> DEFINE n == Len(heap)
           port == PortTried(k)
           e == [client |-> ep, server_port |-> port, expire |-> now + timeout]
<1>1. /\ DOMAIN heap = 1 .. n /\ n \in Nat /\ heap \in Seq(Session)
      /\ list_client_key \in [Buckets -> Seq(1 .. n)]
      /\ list_server_key \in [Buckets -> Seq(1 .. n)]
      /\ freed \subseteq DOMAIN heap
  BY HeapTypes DEF IInv, TypeOK
<1>2. /\ port \in Ports /\ e \in Session
      /\ hash_client(ep) \in Buckets /\ hash_server(port) \in Buckets
  <2>1. port \in Ports
    BY PortTriedRange, TableAssumption DEF IInv, TypeOK
  <2> HIDE DEF port
  <2>2. now + timeout \in Nat
    BY TableAssumption DEF IInv, TypeOK
  <2> QED
    BY <2>1, <2>2, HashRange DEF Session
<1> HIDE DEF port
<1>3. /\ heap' = Append(heap, e)
      /\ list_client_key' =
            insert_tcp_session(list_client_key, hash_client(ep), n + 1)
      /\ list_server_key' =
            insert_tcp_session(list_server_key, hash_server(port), n + 1)
      /\ UNCHANGED <<freed, now, pc, cursor, sweep>>
      /\ ret' = n + 1 /\ next_num' = (next_num + k + 1) % U32
  BY DEF AddNew, port
<1>4. /\ heap' \in Seq(Session) /\ Len(heap') = n + 1
      /\ DOMAIN heap' = 1 .. n + 1
      /\ \A s \in 1 .. n : heap'[s] = heap[s]
      /\ heap'[n + 1] = e
  BY <1>1, <1>2, <1>3, AppendProperties
<1>5. /\ e.client = ep /\ e.server_port = port
  OBVIOUS
<1> HIDE DEF e
<1>6. /\ DOMAIN ClientPlace' = 1 .. n + 1 /\ DOMAIN ServerPlace' = 1 .. n + 1
      /\ \A s \in 1 .. n : /\ ClientPlace'[s] = ClientPlace[s]
                           /\ ServerPlace'[s] = ServerPlace[s]
                           /\ ClientKey'[s] = ClientKey[s]
                           /\ ServerKey'[s] = ServerKey[s]
                           /\ ClientKey[s] = heap[s].client
                           /\ ServerKey[s] = heap[s].server_port
      /\ ClientPlace'[n + 1] = hash_client(ep) /\ ClientKey'[n + 1] = ep
      /\ ServerPlace'[n + 1] = hash_server(port) /\ ServerKey'[n + 1] = port
  BY <1>1, <1>4, <1>5
  DEF ClientPlace, ServerPlace, ClientKey, ServerKey, hash_client, hash_server
<1>7. /\ Placed(list_client_key, ClientPlace') /\ Distinct(list_client_key, ClientKey')
      /\ Placed(list_server_key, ServerPlace') /\ Distinct(list_server_key, ServerKey')
  <2>1. \A b \in Buckets :
           /\ \A i \in DOMAIN list_client_key[b] : list_client_key[b][i] \in 1 .. n
           /\ \A i \in DOMAIN list_server_key[b] : list_server_key[b][i] \in 1 .. n
    BY <1>1
  <2> QED
    BY <1>6, <2>1 DEF IInv, ListsOK, Placed, Distinct
<1>8. /\ \A i \in DOMAIN list_client_key[hash_client(ep)] :
            ClientKey'[list_client_key[hash_client(ep)][i]] # ep
      /\ \A i \in DOMAIN list_server_key[hash_server(port)] :
            ServerKey'[list_server_key[hash_server(port)][i]] # port
  <2>1. /\ list_client_key[hash_client(ep)] \in Seq(1 .. n)
        /\ list_server_key[hash_server(port)] \in Seq(1 .. n)
    BY <1>1, <1>2
  <2>2. \A i \in DOMAIN list_client_key[hash_client(ep)] :
           heap[list_client_key[hash_client(ep)][i]].client # ep
    BY <1>1, <2>1, SearchNull DEF IInv, get_tcp_session_by_client
  <2>3. \A i \in DOMAIN list_server_key[hash_server(port)] :
           heap[list_server_key[hash_server(port)][i]].server_port # port
    BY <1>1, <2>1, SearchNull
    DEF IInv, AddNew, PortBusy, port, get_tcp_session_by_server
  <2>4. /\ \A i \in DOMAIN list_client_key[hash_client(ep)] :
              list_client_key[hash_client(ep)][i] \in 1 .. n
        /\ \A i \in DOMAIN list_server_key[hash_server(port)] :
              list_server_key[hash_server(port)][i] \in 1 .. n
    BY <2>1
  <2>5. \A s \in 1 .. n : ClientKey'[s] = heap[s].client /\ ServerKey'[s] = heap[s].server_port
    BY <1>6
  <2>6. \A i \in DOMAIN list_client_key[hash_client(ep)] :
           ClientKey'[list_client_key[hash_client(ep)][i]] # ep
    BY <2>2, <2>4, <2>5, Zenon
  <2>7. \A i \in DOMAIN list_server_key[hash_server(port)] :
           ServerKey'[list_server_key[hash_server(port)][i]] # port
    BY <2>3, <2>4, <2>5, Zenon
  <2> QED
    BY <2>6, <2>7
<1>9. /\ list_client_key' \in [Buckets -> Seq(1 .. n + 1)]
      /\ Placed(list_client_key', ClientPlace')
      /\ Distinct(list_client_key', ClientKey')
      /\ Listed(list_client_key') = Listed(list_client_key) \cup {n + 1}
  <2> DEFINE place == ClientPlace'
             key == ClientKey'
  <2>1. /\ place[n + 1] \in Buckets
        /\ \A i \in DOMAIN list_client_key[place[n + 1]] :
              key[list_client_key[place[n + 1]][i]] # key[n + 1]
        /\ list_client_key' =
              insert_tcp_session(list_client_key, place[n + 1], n + 1)
    BY <1>2, <1>3, <1>6, <1>8
  <2>2. Placed(list_client_key, place) /\ Distinct(list_client_key, key)
    BY <1>7
  <2> HIDE DEF place, key
  <2>3. /\ list_client_key' \in [Buckets -> Seq(1 .. n + 1)]
        /\ Placed(list_client_key', place)
        /\ Distinct(list_client_key', key)
        /\ Listed(list_client_key') = Listed(list_client_key) \cup {n + 1}
    BY <1>1, <2>1, <2>2, InsertKeeps
  <2> QED
    BY <2>3 DEF place, key
<1>10. /\ list_server_key' \in [Buckets -> Seq(1 .. n + 1)]
       /\ Placed(list_server_key', ServerPlace')
       /\ Distinct(list_server_key', ServerKey')
       /\ Listed(list_server_key') = Listed(list_server_key) \cup {n + 1}
  <2> DEFINE place == ServerPlace'
             key == ServerKey'
  <2>1. /\ place[n + 1] \in Buckets
        /\ \A i \in DOMAIN list_server_key[place[n + 1]] :
              key[list_server_key[place[n + 1]][i]] # key[n + 1]
        /\ list_server_key' =
              insert_tcp_session(list_server_key, place[n + 1], n + 1)
    BY <1>2, <1>3, <1>6, <1>8
  <2>2. Placed(list_server_key, place) /\ Distinct(list_server_key, key)
    BY <1>7
  <2> HIDE DEF place, key
  <2>3. /\ list_server_key' \in [Buckets -> Seq(1 .. n + 1)]
        /\ Placed(list_server_key', place)
        /\ Distinct(list_server_key', key)
        /\ Listed(list_server_key') = Listed(list_server_key) \cup {n + 1}
    BY <1>1, <2>1, <2>2, InsertKeeps
  <2> QED
    BY <2>3 DEF place, key
<1>11. TypeOK'
  <2>1. /\ freed' \subseteq DOMAIN heap' /\ ret' \in DOMAIN heap'
    BY <1>1, <1>3, <1>4
  <2>2. next_num' \in 0 .. U32 - 1
    <3>1. next_num + k + 1 \in Nat /\ U32 \in Nat \ {0}
      BY TableAssumption DEF IInv, TypeOK
    <3> QED
      BY <1>3, <3>1, ModRange
  <2> QED
    BY <1>3, <1>4, <1>9, <1>10, <2>1, <2>2 DEF IInv, TypeOK
<1>12. ListsOK'
  BY <1>9, <1>10 DEF ListsOK
<1>13. /\ Listed(list_client_key)' = Listed(list_client_key')
       /\ Listed(list_server_key)' = Listed(list_server_key')
  BY DEF Listed
<1>14. NotFreed'
  BY <1>1, <1>3, <1>9, <1>10, <1>13 DEF IInv, NotFreed
<1>15. LiveListed'
  <2>1. \A s \in 1 .. n : session_expired(s)' <=> session_expired(s)
    BY <1>3, <1>4 DEF session_expired
  <2>2. DOMAIN heap' = DOMAIN heap \cup {n + 1}
    BY <1>1, <1>4
  <2> QED
    BY <1>1, <1>3, <1>9, <1>10, <1>13, <2>1, <2>2 DEF IInv, LiveListed
<1>16. DeletedEmpty'
  BY <1>3 DEF DeletedEmpty
<1>17. IInv'
  BY <1>11, <1>12, <1>14, <1>15, <1>16 DEF IInv
<1>18. DOMAIN heap' = DOMAIN heap \cup {n + 1} /\ n + 1 \notin DOMAIN heap
  BY <1>1, <1>4
<1> QED
  BY <1>1, <1>2, <1>4, <1>9, <1>10, <1>17, <1>18 DEF port, e

\* add_tcp_session, whatever count starts from.
LEMMA AddStep ==
    ASSUME IInv, NEW ep \in Endpoints, NEW timeout \in Nat,
           NEW count \in Int, add_tcp_session(ep, timeout, count)
    PROVE  IInv'
<1>1. LastTurn(count) \in Nat
  BY TableAssumption DEF LastTurn, mod_num
<1>2. CASE AddExisting(ep)
  <2>2. get_tcp_session_by_client(ep) \in DOMAIN heap \cup {NULL}
    BY SearchResult, HashRange DEF IInv
  <2>3. UNCHANGED <<heap, freed, table, now, pc, cursor, sweep>>
        /\ ret' = get_tcp_session_by_client(ep)
    BY <1>2 DEF AddExisting
  <2>4. TypeOK'
    BY <2>2, <2>3 DEF IInv, TypeOK, table, CurList
  <2> QED
    BY <2>3, <2>4, SameTable DEF IInv, table, DeletedEmpty, EmptyLists
<1>3. ASSUME NEW k \in 0 .. LastTurn(count), AddNew(ep, timeout, k),
             get_tcp_session_by_client(ep) = NULL
      PROVE  IInv'
  <2>1. k \in Nat /\ pc = "ready"
    BY <1>1 DEF add_tcp_session
  <2> QED
    BY <1>3, <2>1, AddNewStep
<1>4. CASE AddFails(LastTurn(count))
  <2>1. next_num' \in 0 .. U32 - 1
    <3>1. next_num + LastTurn(count) + 1 \in Nat /\ U32 \in Nat \ {0}
      BY <1>1, TableAssumption DEF IInv, TypeOK
    <3> QED
      BY <1>4, <3>1, ModRange DEF AddFails
  <2>2. TypeOK'
    BY <1>4, <2>1 DEF IInv, TypeOK, AddFails, CurList
  <2> QED
    BY <1>4, <2>2, SameTable DEF IInv, AddFails, DeletedEmpty, EmptyLists
<1> QED
  BY <1>2, <1>3, <1>4 DEF add_tcp_session

\* The move to the next list, or the return.
LEMMA NextListType ==
    ASSUME IInv, NextList
    PROVE  /\ cursor' \in [i : Buckets, side : Sides, cur : Nat \ {0}]
           /\ cursor'.cur = 1
           /\ pc' \in {pc, "ready"}
           /\ pc' # pc => cursor' = Start
           /\ sweep' \in [began : Nat, done : Nat]
<1>1. /\ cursor \in [i : Buckets, side : Sides, cur : Nat \ {0}]
      /\ sweep \in [began : Nat, done : Nat]
      /\ NumEntry \in Nat \ {0}
  BY TableAssumption DEF IInv, TypeOK
<1>2. CASE cursor.side = "client"
  <2>1. /\ cursor' = [cursor EXCEPT !.side = "server", !.cur = 1]
        /\ pc' = pc /\ sweep' = sweep
    BY <1>2 DEF NextList
  <2>2. cursor' = [i |-> cursor.i, side |-> "server", cur |-> 1]
    BY <1>1, <2>1
  <2> QED
    BY <1>1, <2>1, <2>2 DEF Sides
<1>3. CASE cursor.side = "server" /\ cursor.i + 1 < NumEntry
  BY <1>1, <1>3 DEF NextList, Sides, Buckets
<1>4. CASE cursor.side = "server" /\ cursor.i + 1 = NumEntry
  BY <1>1, <1>4 DEF NextList, Sides, Buckets, Start
<1> QED
  BY <1>2, <1>3, <1>4 DEF NextList

\* Any list is nonempty exactly when its length is at least 1.
LEMMA CurListType ==
    ASSUME list_client_key \in [Buckets -> Seq(DOMAIN heap)],
           list_server_key \in [Buckets -> Seq(DOMAIN heap)],
           cursor.i \in Buckets
    PROVE  /\ CurList \in Seq(DOMAIN heap) /\ Len(CurList) \in Nat
           /\ CurList # <<>> => 1 <= Len(CurList)
BY DEF CurList

\* One node of the walk of clean_expired_session, whichever list it is in.
LEMMA CleanStepKeeps ==
    ASSUME IInv, CleanStep
    PROVE  IInv'
<1>0. /\ CurList \in Seq(DOMAIN heap) /\ Len(CurList) \in Nat
      /\ cursor \in [i : Buckets, side : Sides, cur : Nat \ {0}]
      /\ pc = "scan"
  BY CurListType
  DEF IInv, TypeOK, CleanStep, delete_expired_empty, delete_expired_next,
      delete_expired_head
<1>1. ASSUME delete_expired_empty \/ delete_expired_head
      PROVE  IInv'
  <2>1. /\ NextList
        /\ UNCHANGED <<heap, freed, next_num, now, ret>>
    BY <1>1 DEF delete_expired_empty, delete_expired_head, table
  <2>2. \/ UNCHANGED <<list_client_key, list_server_key>>
        \/ /\ CurList # <<>> /\ session_expired(Head(CurList))
           /\ SetCurList(Tail(CurList))
    BY <1>1 DEF delete_expired_empty, delete_expired_head, table
  <2>3. /\ list_client_key' \in [Buckets -> Seq(DOMAIN heap)]
        /\ list_server_key' \in [Buckets -> Seq(DOMAIN heap)]
        /\ ListsOK' /\ NotFreed' /\ LiveListed'
    <3>1. CASE UNCHANGED <<list_client_key, list_server_key>>
      BY <2>1, <3>1, SameTable DEF IInv, TypeOK
    <3>2. CASE /\ CurList # <<>> /\ session_expired(Head(CurList))
               /\ SetCurList(Tail(CurList))
      <4>1. /\ 1 \in 1 .. Len(CurList) /\ Head(CurList) = CurList[1]
            /\ Tail(CurList) = Unlinked(CurList, 1)
        BY <1>0, <3>2, TailUnlinks
      <4> QED
        BY <2>1, <3>2, <4>1, UnlinkStep
    <3> QED
      BY <2>2, <3>1, <3>2
  <2>4. /\ cursor' \in [i : Buckets, side : Sides, cur : Nat \ {0}]
        /\ cursor'.cur = 1 /\ pc' \in {pc, "ready"}
        /\ pc' # pc => cursor' = Start
        /\ sweep' \in [began : Nat, done : Nat]
    BY <2>1, NextListType
  <2>5. CurList' # <<>> => 1 <= Len(CurList')
    BY <2>1, <2>3, <2>4 DEF CurList
  <2>6. TypeOK'
    BY <1>0, <2>1, <2>3, <2>4, <2>5 DEF IInv, TypeOK
  <2> QED
    BY <1>0, <2>3, <2>4, <2>6 DEF IInv, DeletedEmpty
<1>2. CASE delete_expired_next
  <2>0. /\ UNCHANGED <<heap, freed, next_num, now, pc, ret, sweep>>
        /\ cursor.cur < Len(CurList)
    BY <1>2 DEF delete_expired_next
  <2>1. CASE /\ session_expired(CurList[cursor.cur + 1])
             /\ SetCurList(RemoveAt(CurList, cursor.cur + 1))
             /\ UNCHANGED cursor
    <3>1. /\ cursor.cur + 1 \in 1 .. Len(CurList)
          /\ RemoveAt(CurList, cursor.cur + 1)
                = Unlinked(CurList, cursor.cur + 1)
      BY <1>0, <2>0, RemoveAtUnlinks
    <3>2. /\ list_client_key' \in [Buckets -> Seq(DOMAIN heap)]
          /\ list_server_key' \in [Buckets -> Seq(DOMAIN heap)]
          /\ ListsOK' /\ NotFreed' /\ LiveListed'
      BY <2>0, <2>1, <3>1, UnlinkStep
    <3>3. CurList' = Unlinked(CurList, cursor.cur + 1)
      BY <1>0, <2>1, <3>1 DEF CurList, SetCurList, IInv, TypeOK
    <3>4. cursor'.cur <= Len(CurList')
      <4>1. Len(CurList') = Len(CurList) - 1
        BY <1>0, <3>1, <3>3, UnlinkedType
      <4> QED
        BY <1>0, <2>0, <2>1, <4>1
    <3>5. TypeOK'
      BY <2>0, <2>1, <3>2, <3>4, <1>0 DEF IInv, TypeOK
    <3> QED
      BY <1>0, <2>0, <3>2, <3>5 DEF IInv, DeletedEmpty
  <2>2. CASE /\ cursor' = [cursor EXCEPT !.cur = @ + 1]
             /\ UNCHANGED <<list_client_key, list_server_key>>
    <3>1. /\ cursor' \in [i : Buckets, side : Sides, cur : Nat \ {0}]
          /\ cursor'.cur = cursor.cur + 1 /\ CurList' = CurList
      BY <1>0, <2>2 DEF CurList
    <3>2. TypeOK'
      BY SMTT(30), <1>0, <2>0, <2>2, <3>1 DEF IInv, TypeOK
    <3> QED
      BY <1>0, <2>0, <2>2, <3>2, SameTable DEF IInv, DeletedEmpty
  <2> QED
    BY <1>2, <2>1, <2>2 DEF delete_expired_next
<1> QED
  BY <1>1, <1>2 DEF CleanStep

\* delete_hash_table frees what the server lists hold; whatever has not
\* expired is there.
LEMMA DeleteStep ==
    ASSUME IInv, delete_hash_table
    PROVE  IInv'
<1>1. /\ EmptyLists \in [Buckets -> Seq(DOMAIN heap)]
      /\ Listed(EmptyLists) = {}
      /\ \A b \in Buckets : DOMAIN EmptyLists[b] = {}
  BY DEF EmptyLists, Listed
<1>2. Listed(list_server_key) \subseteq DOMAIN heap
  BY ListedIff DEF IInv, TypeOK
<1>3. TypeOK'
  BY <1>1, <1>2 DEF delete_hash_table, IInv, TypeOK
<1>4. ListsOK'
  BY <1>1 DEF delete_hash_table, ListsOK, Placed, Distinct
<1>5. NotFreed'
  <2>1. Listed(list_client_key)' = {} /\ Listed(list_server_key)' = {}
    BY <1>1 DEF delete_hash_table, Listed
  <2> QED
    BY <2>1 DEF NotFreed
<1>6. LiveListed'
  <2> SUFFICES ASSUME NEW s \in DOMAIN heap' \ freed', ~ session_expired(s)'
               PROVE  FALSE
    BY DEF LiveListed
  <2>1. s \in DOMAIN heap \ freed /\ s \notin Listed(list_server_key)
    BY DEF delete_hash_table
  <2>2. ~ session_expired(s)
    BY DEF delete_hash_table, session_expired
  <2> QED
    BY <2>1, <2>2 DEF IInv, LiveListed
<1>7. DeletedEmpty'
  BY DEF delete_hash_table, DeletedEmpty, EmptyLists
<1> QED
  BY <1>3, <1>4, <1>5, <1>6, <1>7 DEF IInv

\* init_hash_table after delete_hash_table: the arrays are empty again.
LEMMA InitTableStep ==
    ASSUME IInv, init_hash_table
    PROVE  IInv'
<1>1. UNCHANGED <<heap, freed, now, list_client_key, list_server_key>>
  BY DEF init_hash_table, IInv, DeletedEmpty
<1>2. TypeOK'
  BY <1>1, TableAssumption DEF init_hash_table, IInv, TypeOK
<1>3. DeletedEmpty'
  BY DEF init_hash_table, DeletedEmpty
<1> QED
  BY <1>1, <1>2, <1>3, SameTable DEF IInv

\* Between calls and while the clock ticks: time only expires sessions.
LEMMA TickStep ==
    ASSUME IInv, Tick
    PROVE  IInv'
<1>1. /\ UNCHANGED <<heap, freed, list_client_key, list_server_key, next_num,
                     pc, cursor, ret, sweep>>
      /\ now' = now + 1 /\ now \in Nat
  BY DEF Tick, table, IInv, TypeOK
<1>2. TypeOK'
  BY SMTT(30), <1>1 DEF IInv, TypeOK, CurList
<1>3. ListsOK'
  <2>1. /\ ClientPlace' = ClientPlace /\ ServerPlace' = ServerPlace
        /\ ClientKey' = ClientKey /\ ServerKey' = ServerKey
    BY <1>1 DEF ClientPlace, ServerPlace, ClientKey, ServerKey, hash_client,
                hash_server
  <2> QED
    BY <1>1, <2>1 DEF IInv, ListsOK, Placed, Distinct
<1>4. /\ Listed(list_client_key)' = Listed(list_client_key)
      /\ Listed(list_server_key)' = Listed(list_server_key)
  BY <1>1 DEF Listed
<1>5. \A s \in DOMAIN heap : ~ session_expired(s)' => ~ session_expired(s)
  BY <1>1, HeapTypes DEF session_expired, IInv
<1>6. NotFreed' /\ LiveListed'
  BY <1>1, <1>4, <1>5 DEF IInv, NotFreed, LiveListed
<1>7. DeletedEmpty'
  BY <1>1 DEF IInv, DeletedEmpty, EmptyLists
<1> QED
  BY <1>2, <1>3, <1>6, <1>7 DEF IInv

\* Every step of the table keeps the invariant.
LEMMA NextIInv == IInv /\ [Next]_vars => IInv'
<1> SUFFICES ASSUME IInv, [Next]_vars PROVE IInv'
  OBVIOUS
<1>1. ASSUME NEW ep \in Endpoints, NEW t \in Timeouts, NEW c \in CountInit,
             add_tcp_session(ep, t, c)
      PROVE  IInv'
  BY <1>1, AddStep, TableAssumption
<1>2. CASE clean_expired_session
  <2>1. /\ cursor' = Start /\ pc' = "scan" /\ ret' = NoResult
        /\ sweep' = [sweep EXCEPT !.began = now]
        /\ UNCHANGED <<heap, freed, list_client_key, list_server_key,
                       next_num, now>>
    BY <1>2 DEF clean_expired_session, table
  <2>2. cursor' \in [i : Buckets, side : Sides, cur : Nat \ {0}]
        /\ cursor'.cur = 1
    BY <2>1, TableAssumption DEF Start, Sides, Buckets
  <2>3. CurList' # <<>> => cursor'.cur <= Len(CurList')
    <3>1. /\ list_client_key \in [Buckets -> Seq(DOMAIN heap)]
          /\ list_server_key \in [Buckets -> Seq(DOMAIN heap)]
          /\ cursor'.i \in Buckets
      BY <2>2 DEF IInv, TypeOK
    <3>2. \A list \in Seq(DOMAIN heap) : list # <<>> => 1 <= Len(list)
      OBVIOUS
    <3>3. CurList' \in Seq(DOMAIN heap)
      BY <2>1, <3>1 DEF CurList
    <3> QED
      BY <2>2, <3>2, <3>3
  <2>4. sweep' \in [began : Nat, done : Nat]
    BY <2>1 DEF IInv, TypeOK
  <2>5. TypeOK'
    BY <2>1, <2>2, <2>3, <2>4 DEF IInv, TypeOK
  <2> QED
    BY <2>1, <2>5, SameTable DEF IInv, DeletedEmpty
<1>3. CASE CleanStep
  BY <1>3, CleanStepKeeps
<1>4. CASE delete_hash_table
  BY <1>4, DeleteStep
<1>5. CASE init_hash_table
  BY <1>5, InitTableStep
<1>6. CASE Tick
  BY <1>6, TickStep
<1>7. CASE UNCHANGED vars
  <2>1. TypeOK'
    BY <1>7 DEF vars, IInv, TypeOK, CurList
  <2> QED
    BY <1>7, <2>1, SameTable DEF vars, IInv, DeletedEmpty, EmptyLists
<1> QED
  BY <1>1, <1>2, <1>3, <1>4, <1>5, <1>6, <1>7 DEF Next

\* The invariant says what the properties ask.
LEMMA IInvImplies == IInv => TypeOK /\ RoundTrip /\ MemorySafe
<1> SUFFICES ASSUME IInv PROVE TypeOK /\ RoundTrip /\ MemorySafe
  OBVIOUS
<1>1. TypeOK
  BY DEF IInv
<1>2. RoundTrip
  BY SearchFinds DEF IInv, LiveListed, RoundTrip
<1>3. ASSUME NEW b \in Buckets, NEW c \in Buckets,
             NEW k \in DOMAIN list_server_key[b],
             NEW l \in DOMAIN list_server_key[c],
             list_server_key[b][k] = list_server_key[c][l]
      PROVE  b = c /\ k = l
  <2>1. b = c
    BY <1>3 DEF IInv, ListsOK, Placed
  <2> QED
    BY <1>3, <2>1 DEF IInv, ListsOK, Distinct
<1>4. MemorySafe
  BY <1>3 DEF IInv, NotFreed, MemorySafe
<1> QED
  BY <1>1, <1>2, <1>4

-----------------------------------------------------------------------------
(* The theorems                                                            *)

\* The invariant holds in every state of the table.
LEMMA SpecIInv == Spec => []IInv
BY InitIInv, NextIInv, PTL DEF Spec

\* The variables keep their types and the cursor of clean_expired_session
\* stays on the list it walks.
THEOREM TypeCorrect == Spec => []TypeOK
BY SpecIInv, IInvImplies, PTL

\* Whatever sequence of calls is made, a session that has not expired is found
\* under both of its keys, and so owns its server port alone: for every port
\* range, number of buckets, width of next_num and content of the
\* uninitialised count.
THEOREM RoundTripHolds == Spec => []RoundTrip
BY SpecIInv, IInvImplies, PTL

\* delete_hash_table neither frees a session twice nor leaves one it freed
\* in a list.
THEOREM MemorySafeHolds == Spec => []MemorySafe
BY SpecIInv, IInvImplies, PTL

=============================================================================
