------------------------- MODULE SessionTableCalls -------------------------
(***************************************************************************)
(* What the calls of SessionTable do for their callers, from the invariant *)
(* of SessionTableProofs: they implement NatTable, clean_expired_session   *)
(* unlinks all that had expired when it was called, and add_tcp_session    *)
(* gives up only when every port is taken.                                 *)
(***************************************************************************)
EXTENDS SessionTableProofs

-----------------------------------------------------------------------------
(***************************************************************************)
(* NatTable.  The mapped variables ask the lookups of the code; the        *)
(* invariant makes both equal to the set of sessions that are neither      *)
(* freed nor expired, and each call is then a step of NatTable or none.    *)
(***************************************************************************)

\* What the lookups of the two sides find: by_client and by_server of NatTable.
ByClient == UNION {Found(get_tcp_session_by_client(ep)) : ep \in Endpoints}
ByServer == UNION {Found(get_tcp_session_by_server(port)) : port \in Ports}

\* The sessions in use.
Living == {s \in DOMAIN heap \ freed : ~ session_expired(s)}
LiveSet == {heap[s] : s \in Living}

Mapped == ByClient = LiveSet /\ ByServer = LiveSet

-----------------------------------------------------------------------------
(* The mapping                                                             *)

\* Either side of the table shows the sessions in use, and nothing else.
LEMMA MappedHolds == IInv => Mapped
<1> SUFFICES ASSUME IInv PROVE Mapped
  OBVIOUS
<1>0. TypeOK /\ RoundTrip /\ NotFreed
  BY IInvImplies DEF IInv
<1>1. \A s \in DOMAIN heap : heap[s].client \in Endpoints /\ heap[s].server_port \in Ports
                             /\ s # NULL
  BY <1>0, HeapTypes DEF NULL
<1>2. ASSUME NEW b, b \in LiveSet
      PROVE  b \in ByClient /\ b \in ByServer
  <2>1. PICK s \in Living : b = heap[s]
    BY <1>2 DEF LiveSet
  <2>2. /\ s \in DOMAIN heap \ freed /\ ~ session_expired(s) /\ s # NULL
        /\ get_tcp_session_by_client(heap[s].client) = s
        /\ get_tcp_session_by_server(heap[s].server_port) = s
    BY <1>0, <1>1 DEF Living, RoundTrip
  <2>3. Found(s) = {b}
    BY <2>1, <2>2 DEF Found
  <2> QED
    BY <1>1, <2>2, <2>3 DEF ByClient, ByServer
<1>3. ASSUME NEW b, b \in ByClient
      PROVE  b \in LiveSet
  <2>1. PICK ep \in Endpoints : b \in Found(get_tcp_session_by_client(ep))
    BY <1>3 DEF ByClient
  <2> DEFINE s == get_tcp_session_by_client(ep)
  <2>2. s # NULL /\ ~ session_expired(s) /\ b = heap[s]
    BY <2>1 DEF Found
  <2>3. s \in DOMAIN heap /\ s \in Listed(list_client_key)
    BY <1>0, <2>2, SearchResult, HashRange
  <2> QED
    BY <1>0, <2>2, <2>3 DEF NotFreed, LiveSet, Living
<1>4. ASSUME NEW b, b \in ByServer
      PROVE  b \in LiveSet
  <2>1. PICK port \in Ports : b \in Found(get_tcp_session_by_server(port))
    BY <1>4 DEF ByServer
  <2> DEFINE s == get_tcp_session_by_server(port)
  <2>2. s # NULL /\ ~ session_expired(s) /\ b = heap[s]
    BY <2>1 DEF Found
  <2>3. s \in DOMAIN heap /\ s \in Listed(list_server_key)
    BY <1>0, <2>2, SearchResult, HashRange
  <2> QED
    BY <1>0, <2>2, <2>3 DEF NotFreed, LiveSet, Living
<1> QED
  BY <1>2, <1>3, <1>4 DEF Mapped

\* The same in the state after a step.
LEMMA MappedNext == IInv' => Mapped'
BY MappedHolds, PTL

\* A step of NatTable, said of the sessions in use.
LEMMA AbstractStep ==
    ASSUME IInv, IInv'
    PROVE  /\ UNCHANGED <<LiveSet, now>> => UNCHANGED Abstract!vars
           /\ LiveSet' = {} /\ now' = now => Abstract!Clear
           /\ now' = now + 1 /\ LiveSet' = {b \in LiveSet : ~ now' > b.expire}
                 => Abstract!Tick
           /\ \A ep \in Endpoints, port \in Ports, t \in Timeouts :
                 /\ \A b \in LiveSet : b.client # ep /\ b.server_port # port
                 /\ LiveSet' = LiveSet \cup
                       {[client |-> ep, server_port |-> port, expire |-> now + t]}
                 /\ now' = now
                 => Abstract!Bind(ep, port, t)
<1>1. /\ ByClient = LiveSet /\ ByServer = LiveSet
      /\ ByClient' = LiveSet' /\ ByServer' = LiveSet'
  BY MappedHolds, MappedNext DEF Mapped
<1> QED
  BY <1>1
  DEF Abstract!vars, Abstract!Clear, Abstract!Tick, Abstract!Live, Abstract!Bind, ByClient, ByServer

-----------------------------------------------------------------------------
(* The steps                                                               *)

\* A step that leaves the sessions and the clock alone is none of NatTable,
\* whatever it does to the lists.
LEMMA SameLiving ==
    ASSUME UNCHANGED <<heap, freed, now>>
    PROVE  UNCHANGED <<LiveSet, now>>
BY DEF LiveSet, Living, session_expired

\* A new session is a new binding: its endpoint and its port were free.
LEMMA AddBinds ==
    ASSUME IInv, NEW ep \in Endpoints, NEW timeout \in Timeouts,
           NEW count \in Int, add_tcp_session(ep, timeout, count)
    PROVE  Abstract!Next \/ UNCHANGED Abstract!vars
<1>0. timeout \in Nat /\ IInv' /\ pc = "ready"
  <2>1. timeout \in Nat
    BY TableAssumption
  <2> QED
    BY <2>1, AddStep DEF add_tcp_session
<1>1. CASE AddExisting(ep) \/ AddFails(LastTurn(count))
  <2>1. UNCHANGED <<heap, freed, now>>
    BY <1>1 DEF AddExisting, AddFails
  <2> QED
    BY <1>0, <2>1, SameLiving, AbstractStep
<1>2. ASSUME NEW k \in 0 .. LastTurn(count), AddNew(ep, timeout, k),
             get_tcp_session_by_client(ep) = NULL
      PROVE  Abstract!Next
  <2>1. k \in Nat
    BY TableAssumption DEF LastTurn, mod_num
  <2> DEFINE n == Len(heap) + 1
             b == [client |-> ep, server_port |-> PortTried(k), expire |-> now + timeout]
  <2>2. /\ PortTried(k) \in Ports
        /\ DOMAIN heap' = DOMAIN heap \cup {n} /\ n \notin DOMAIN heap
        /\ \A s \in DOMAIN heap : heap'[s] = heap[s]
        /\ heap'[n] = b
    BY <1>0, <1>2, <2>1, AddNewStep
  <2>3. UNCHANGED <<freed, now>> /\ ~ PortBusy(PortTried(k))
    BY <1>2 DEF AddNew
  <2>4. /\ now \in Nat /\ freed \subseteq DOMAIN heap
    BY DEF IInv, TypeOK
  <2>5. Living' = Living \cup {n}
    <3>1. ~ now' > heap'[n].expire
      <4>1. b.expire = now + timeout
        OBVIOUS
      <4>2. ~ now > now + timeout
        BY <1>0, <2>4
      <4> QED
        BY <2>2, <2>3, <4>1, <4>2
    <3>2. Living' = {s \in DOMAIN heap' \ freed' : ~ now' > heap'[s].expire}
      BY DEF Living, session_expired
    <3>3. Living = {s \in DOMAIN heap \ freed : ~ now > heap[s].expire}
      BY DEF Living, session_expired
    <3> HIDE DEF n, b
    <3> QED
      BY <2>2, <2>3, <2>4, <3>1, <3>2, <3>3
  <2>6. LiveSet' = LiveSet \cup {b}
    <3>1. \A s \in Living : heap'[s] = heap[s]
      BY <2>2 DEF Living
    <3> HIDE DEF n, b
    <3> QED
      BY <2>2, <2>5, <3>1 DEF LiveSet
  <2>7. ASSUME NEW s \in Living
        PROVE  heap[s].client # ep /\ heap[s].server_port # PortTried(k)
    <3>1. /\ s # NULL
          /\ get_tcp_session_by_client(heap[s].client) = s
          /\ get_tcp_session_by_server(heap[s].server_port) = s
      BY IInvImplies, HeapTypes DEF Living, RoundTrip, NULL
    <3> QED
      BY <1>2, <2>3, <3>1 DEF PortBusy
  <2>8. \A c \in LiveSet : c.client # ep /\ c.server_port # PortTried(k)
    BY <2>7 DEF LiveSet
  <2>9. Abstract!Bind(ep, PortTried(k), timeout)
    BY <1>0, <2>2, <2>3, <2>6, <2>8, AbstractStep
  <2> QED
    BY <2>2, <2>9 DEF Abstract!Next
<1> QED
  BY <1>1, <1>2 DEF add_tcp_session

\* The clock ends bindings as NatTable says.
LEMMA TickEnds ==
    ASSUME IInv, Tick
    PROVE  Abstract!Tick
<1>0. IInv' /\ now' = now + 1 /\ UNCHANGED <<heap, freed>>
  BY TickStep DEF Tick
<1>1. now \in Nat /\ \A s \in DOMAIN heap : heap[s].expire \in Nat
  BY HeapTypes DEF IInv, TypeOK
<1>2. \A s \in DOMAIN heap :
         (~ session_expired(s)') <=> (~ session_expired(s)) /\ ~ now' > heap[s].expire
  BY <1>0, <1>1 DEF session_expired
<1>3. LiveSet' = {b \in LiveSet : ~ now' > b.expire}
  <2>1. Living' = {s \in Living : ~ now' > heap[s].expire}
    BY <1>0, <1>2 DEF Living
  <2> QED
    BY <1>0, <2>1 DEF LiveSet
<1> QED
  BY <1>0, <1>3, AbstractStep

\* delete_hash_table ends all of them.
LEMMA DeleteClears ==
    ASSUME IInv, delete_hash_table
    PROVE  Abstract!Clear
<1>1. IInv' /\ now' = now
  BY DeleteStep DEF delete_hash_table
<1>2. Listed(list_client_key)' = {}
  BY DEF delete_hash_table, Listed, EmptyLists
<1>3. LiveSet' = {}
  BY <1>1, <1>2 DEF IInv, LiveListed, LiveSet, Living
<1> QED
  BY <1>1, <1>3, AbstractStep

\* Every step of the table is one of NatTable or none.
LEMMA NextRefines == IInv /\ [Next]_vars => [Abstract!Next]_(Abstract!vars)
<1> SUFFICES ASSUME IInv, [Next]_vars
             PROVE  Abstract!Next \/ UNCHANGED Abstract!vars
  OBVIOUS
<1>0. IInv'
  BY NextIInv
<1>1. ASSUME NEW ep \in Endpoints, NEW t \in Timeouts, NEW c \in CountInit,
             add_tcp_session(ep, t, c)
      PROVE  Abstract!Next \/ UNCHANGED Abstract!vars
  BY <1>1, AddBinds, TableAssumption
<1>2. CASE clean_expired_session \/ CleanStep \/ init_hash_table \/ UNCHANGED vars
  <2>1. UNCHANGED <<heap, freed, now>>
    BY <1>2
    DEF clean_expired_session, CleanStep, delete_expired_empty,
        delete_expired_next, delete_expired_head, init_hash_table, vars
  <2> QED
    BY <1>0, <2>1, SameLiving, AbstractStep
<1>3. CASE delete_hash_table
  BY <1>3, DeleteClears DEF Abstract!Next
<1>4. CASE Tick
  BY <1>4, TickEnds DEF Abstract!Next
<1> QED
  BY <1>1, <1>2, <1>3, <1>4 DEF Next

\* Through its lookups the table cannot be told from a set of one-to-one
\* bindings that end when they expire, for every port range, number of
\* buckets, width of next_num and content of the uninitialised count.
THEOREM Implements == Spec => ImplementsNatTable
<1>1. Init => Abstract!Init
  <2> SUFFICES ASSUME Init PROVE Abstract!Init
    OBVIOUS
  <2>1. LiveSet = {} /\ now = 0
    BY DEF Init, LiveSet, Living
  <2>2. ByClient = {} /\ ByServer = {}
    BY <2>1, InitIInv, MappedHolds DEF Mapped
  <2> QED
    BY <2>1, <2>2 DEF Abstract!Init, ByClient, ByServer
<1> QED
  BY <1>1, SpecIInv, NextRefines, PTL DEF Spec, ImplementsNatTable, Abstract!Spec

-----------------------------------------------------------------------------
(***************************************************************************)
(* clean_expired_session unlinks every session that had expired when it    *)
(* was called, although the clock moves during its walk, it goes on from   *)
(* the node it stands on after unlinking the next, and it looks at the     *)
(* head of each list last.                                                 *)
(***************************************************************************)

\* The list of bucket b in one of the two arrays.
ListOf(side, b) == IF side = "client" THEN list_client_key[b] ELSE list_server_key[b]

\* The walk is done with this list.
Walked(side, b) ==
    \/ b < cursor.i
    \/ b = cursor.i /\ side = "client" /\ cursor.side = "server"

\* Session s had not expired when the walk began.
Fresh(s) == ~ sweep.began > heap[s].expire

\* The beginning of a walk is in the past.
SweepPast == sweep.began <= now /\ sweep.done <= now

\* The lists that are done with hold no session that was expired when the walk
\* began, and neither does the list it is in, from the second node to the one
\* the cursor is on.
WalkedFresh ==
    pc = "scan" =>
        /\ \A side \in Sides, b \in Buckets :
              Walked(side, b) =>
                  \A j \in DOMAIN ListOf(side, b) : Fresh(ListOf(side, b)[j])
        /\ \A j \in DOMAIN CurList : j > 1 /\ j <= cursor.cur => Fresh(CurList[j])

SweepInv == SweepPast /\ WalkedFresh /\ CleanComplete

-----------------------------------------------------------------------------
(* Lists                                                                   *)

\* The types a step of the walk relies on.
LEMMA SweepTypes ==
    ASSUME IInv
    PROVE  /\ \A side \in Sides, b \in Buckets : ListOf(side, b) \in Seq(DOMAIN heap)
           /\ \A side \in Sides, b \in Buckets :
                 /\ DOMAIN ListOf(side, b) \subseteq Nat \ {0}
                 /\ \A j \in DOMAIN ListOf(side, b) : ListOf(side, b)[j] \in DOMAIN heap
           /\ \A s \in DOMAIN heap : heap[s].expire \in Nat
           /\ now \in Nat /\ sweep.began \in Nat /\ sweep.done \in Nat
           /\ sweep \in [began : Nat, done : Nat]
           /\ cursor.side \in Sides /\ cursor.i \in Buckets /\ cursor.cur \in Nat \ {0}
           /\ cursor \in [i : Buckets, side : Sides, cur : Nat \ {0}]
           /\ CurList = ListOf(cursor.side, cursor.i)
<1>1. \A side \in Sides, b \in Buckets : ListOf(side, b) \in Seq(DOMAIN heap)
  BY DEF IInv, TypeOK, ListOf
<1>2. \A list \in Seq(DOMAIN heap) :
         /\ DOMAIN list \subseteq Nat \ {0}
         /\ \A j \in DOMAIN list : list[j] \in DOMAIN heap
  OBVIOUS
<1>3. \A s \in DOMAIN heap : heap[s].expire \in Nat
  BY HeapTypes DEF IInv
<1>4. /\ cursor.side \in Sides /\ cursor.i \in Buckets /\ cursor.cur \in Nat \ {0}
      /\ cursor \in [i : Buckets, side : Sides, cur : Nat \ {0}]
      /\ sweep \in [began : Nat, done : Nat]
      /\ now \in Nat /\ sweep.began \in Nat /\ sweep.done \in Nat
  BY DEF IInv, TypeOK
<1>5. CurList = ListOf(cursor.side, cursor.i)
  BY DEF CurList, ListOf
<1> QED
  BY <1>1, <1>2, <1>3, <1>4, <1>5

\* Unlinking changes the list the cursor is in and no other.
LEMMA SetCurListEffect ==
    ASSUME IInv, NEW list, SetCurList(list)
    PROVE  \A side \in Sides, b \in Buckets :
              ListOf(side, b)' = IF side = cursor.side /\ b = cursor.i
                                 THEN list ELSE ListOf(side, b)
BY DEF SetCurList, ListOf, Sides, IInv, TypeOK

-----------------------------------------------------------------------------
(* The walk                                                                *)

\* The walk leaves a list in which nothing is left that was expired when it
\* began, for the next list or for its caller.
LEMMA LeaveList ==
    ASSUME IInv, IInv', SweepInv, pc = "scan", NextList, UNCHANGED <<heap, now>>,
           \A side \in Sides, b \in Buckets :
              IF side = cursor.side /\ b = cursor.i
              THEN \A j \in DOMAIN ListOf(side, b)' : Fresh(ListOf(side, b)'[j])
              ELSE ListOf(side, b)' = ListOf(side, b)
    PROVE  SweepInv'
<1>0. SweepPast /\ WalkedFresh
  BY DEF SweepInv
<1>1. /\ now \in Nat /\ sweep.began \in Nat /\ sweep.done \in Nat
      /\ sweep \in [began : Nat, done : Nat]
      /\ cursor \in [i : Buckets, side : Sides, cur : Nat \ {0}]
      /\ cursor.i \in Nat /\ Buckets \subseteq Nat /\ NumEntry \in Nat
      /\ \A b \in Buckets : b < NumEntry
  BY <1>0, SweepTypes, TableAssumption DEF Buckets
<1>2. ASSUME NEW j \in DOMAIN CurList'
      PROVE  j > 1 => ~ j <= 1
  <2>1. CurList' \in Seq(DOMAIN heap')
    BY DEF IInv, TypeOK, CurList
  <2>2. j \in Nat
    BY <2>1
  <2> QED
    BY <2>2
<1>3. ASSUME NEW side \in Sides, NEW b \in Buckets,
             Walked(side, b) \/ (side = cursor.side /\ b = cursor.i)
      PROVE  \A j \in DOMAIN ListOf(side, b)' : Fresh(ListOf(side, b)'[j])
  BY <1>0, <1>3 DEF WalkedFresh
<1>4. CASE cursor.side = "client"
  <2>1. /\ cursor' = [cursor EXCEPT !.side = "server", !.cur = 1]
        /\ pc' = pc /\ sweep' = sweep
    BY <1>4 DEF NextList
  <2>2. cursor'.i = cursor.i /\ cursor'.side = "server" /\ cursor'.cur = 1
    BY <1>1, <2>1
  <2>3. ASSUME NEW side \in Sides, NEW b \in Buckets, Walked(side, b)'
        PROVE  Walked(side, b) \/ (side = cursor.side /\ b = cursor.i)
    BY <1>4, <2>2, <2>3 DEF Walked
  <2>4. /\ \A s : Fresh(s)' = Fresh(s)
        /\ SweepPast'
    BY <1>0, <2>1 DEF Fresh, SweepPast
  <2>5. \A j \in DOMAIN CurList' : ~ (j > 1 /\ j <= cursor'.cur)
    BY <1>2, <2>2
  <2>6. WalkedFresh'
    BY <1>3, <2>3, <2>4, <2>5 DEF WalkedFresh
  <2> QED
    BY <2>1, <2>4, <2>6 DEF SweepInv, CleanComplete
<1>5. CASE cursor.side = "server" /\ cursor.i + 1 < NumEntry
  <2>1. /\ cursor'.i = cursor.i + 1 /\ cursor'.side = "client" /\ cursor'.cur = 1
        /\ pc' = pc /\ sweep' = sweep
    BY <1>1, <1>5 DEF NextList
  <2>3. ASSUME NEW side \in Sides, NEW b \in Buckets, Walked(side, b)'
        PROVE  Walked(side, b) \/ (side = cursor.side /\ b = cursor.i)
    <3>1. b < cursor.i + 1
      BY <2>1, <2>3 DEF Walked
    <3>2. b < cursor.i \/ b = cursor.i
      BY <1>1, <3>1
    <3> QED
      BY <1>5, <3>2 DEF Walked, Sides
  <2>4. /\ \A s : Fresh(s)' = Fresh(s)
        /\ SweepPast'
    BY <1>0, <2>1 DEF Fresh, SweepPast
  <2>5. \A j \in DOMAIN CurList' : ~ (j > 1 /\ j <= cursor'.cur)
    BY <1>2, <2>1
  <2>6. WalkedFresh'
    BY <1>3, <2>3, <2>4, <2>5 DEF WalkedFresh
  <2> QED
    BY <2>1, <2>4, <2>6 DEF SweepInv, CleanComplete
<1>6. CASE cursor.side = "server" /\ cursor.i + 1 = NumEntry
  <2>1. pc' = "ready" /\ sweep' = [sweep EXCEPT !.done = sweep.began]
    BY <1>1, <1>6 DEF NextList
  <2>2. sweep'.done = sweep.began /\ sweep'.began = sweep.began
    BY <1>1, <2>1
  <2>3. ASSUME NEW side \in Sides, NEW b \in Buckets
        PROVE  Walked(side, b) \/ (side = cursor.side /\ b = cursor.i)
    <3>1. b < cursor.i \/ b = cursor.i
      BY <1>1, <1>6
    <3> QED
      BY <1>6, <3>1 DEF Walked, Sides
  <2>4. \A side \in Sides, b \in Buckets : \A j \in DOMAIN ListOf(side, b)' :
           ~ sweep'.done > heap'[ListOf(side, b)'[j]].expire
    BY <1>3, <2>2, <2>3 DEF Fresh
  <2>5. CleanComplete'
    <3>1. ASSUME NEW s \in Listed(list_client_key') \cup Listed(list_server_key')
          PROVE  ~ sweep'.done > heap'[s].expire
      <4>1. \E side \in Sides, b \in Buckets : \E j \in DOMAIN ListOf(side, b)' :
               ListOf(side, b)'[j] = s
        BY <3>1, ListedIff DEF Sides, ListOf
      <4> QED
        BY <2>4, <4>1
    <3> QED
      BY <3>1 DEF CleanComplete, Listed
  <2>6. SweepPast' /\ WalkedFresh'
    BY <1>0, <2>1, <2>2 DEF SweepPast, WalkedFresh
  <2> QED
    BY <2>5, <2>6 DEF SweepInv
<1> QED
  BY <1>4, <1>5, <1>6 DEF NextList

\* One node of the walk of clean_expired_session.
LEMMA WalkStep ==
    ASSUME IInv, SweepInv, CleanStep
    PROVE  SweepInv'
<1>0. SweepPast /\ WalkedFresh /\ pc = "scan" /\ IInv'
  BY CleanStepKeeps
  DEF SweepInv, CleanStep, delete_expired_empty, delete_expired_next,
      delete_expired_head
<1>1. /\ CurList = ListOf(cursor.side, cursor.i)
      /\ CurList \in Seq(DOMAIN heap) /\ Len(CurList) \in Nat
      /\ \A j \in DOMAIN CurList : CurList[j] \in DOMAIN heap /\ j \in Nat \ {0}
      /\ cursor.side \in Sides /\ cursor.i \in Buckets /\ cursor.cur \in Nat \ {0}
  BY <1>0, SweepTypes, CurListType DEF IInv, TypeOK
<1>2. ASSUME NEW s \in DOMAIN heap, ~ session_expired(s)
      PROVE  Fresh(s)
  <2>1. now \in Nat /\ sweep.began \in Nat /\ heap[s].expire \in Nat
    BY <1>0, SweepTypes
  <2> QED
    BY <1>0, <1>2, <2>1 DEF session_expired, SweepPast, Fresh
<1>3. CASE delete_expired_empty
  <2>1. /\ CurList = <<>> /\ NextList /\ UNCHANGED <<heap, now>>
        /\ UNCHANGED <<list_client_key, list_server_key>>
    BY <1>3 DEF delete_expired_empty, table
  <2>2. \A side \in Sides, b \in Buckets : ListOf(side, b)' = ListOf(side, b)
    BY <2>1 DEF ListOf
  <2>3. DOMAIN CurList = {}
    BY <2>1
  <2> QED
    BY <1>0, <1>1, <2>1, <2>2, <2>3, LeaveList
<1>4. CASE delete_expired_head
  <2>1. /\ CurList # <<>> /\ cursor.cur = Len(CurList) /\ NextList
        /\ UNCHANGED <<heap, now>>
    BY <1>4 DEF delete_expired_head
  <2>2. /\ 1 \in 1 .. Len(CurList) /\ Head(CurList) = CurList[1]
        /\ DOMAIN CurList = 1 .. Len(CurList)
        /\ Tail(CurList) = Unlinked(CurList, 1)
    BY <1>1, <2>1, TailUnlinks
  <2>3. \A j \in 2 .. Len(CurList) : Fresh(CurList[j])
    BY <1>0, <1>1, <2>1, <2>2 DEF WalkedFresh
  <2>4. CASE /\ session_expired(Head(CurList))
             /\ SetCurList(Tail(CurList))
    <3>1. \A side \in Sides, b \in Buckets :
             ListOf(side, b)' = IF side = cursor.side /\ b = cursor.i
                                THEN Tail(CurList) ELSE ListOf(side, b)
      BY <2>4, SetCurListEffect
    <3>2. ASSUME NEW j \in DOMAIN Tail(CurList)
          PROVE  Fresh(Tail(CurList)[j])
      <4>1. j \in 1 .. Len(CurList) - 1 /\ Tail(CurList)[j] = CurList[j + 1]
        BY <1>1, <2>2, <3>2, UnlinkedType
      <4> QED
        BY <1>1, <2>3, <4>1
    <3> QED
      BY <1>0, <2>1, <3>1, <3>2, LeaveList
  <2>5. CASE /\ ~ session_expired(Head(CurList))
             /\ UNCHANGED <<list_client_key, list_server_key>>
    <3>1. \A side \in Sides, b \in Buckets : ListOf(side, b)' = ListOf(side, b)
      BY <2>5 DEF ListOf
    <3>2. Fresh(CurList[1])
      BY <1>1, <1>2, <2>2, <2>5
    <3>3. \A j \in DOMAIN CurList : Fresh(CurList[j])
      BY <1>1, <2>2, <2>3, <3>2
    <3> QED
      BY <1>0, <1>1, <2>1, <3>1, <3>3, LeaveList
  <2> QED
    BY <1>4, <2>4, <2>5 DEF delete_expired_head
<1>5. CASE delete_expired_next
  <2>1. /\ UNCHANGED <<heap, now, pc, sweep>> /\ cursor.cur < Len(CurList)
        /\ cursor.cur + 1 \in 1 .. Len(CurList)
        /\ DOMAIN CurList = 1 .. Len(CurList)
    BY <1>1, <1>5 DEF delete_expired_next
  <2>2. /\ \A s : Fresh(s)' = Fresh(s)
        /\ SweepPast'
        /\ CleanComplete'
    BY <1>0, <2>1 DEF Fresh, SweepPast, CleanComplete
  <2>3. CASE /\ session_expired(CurList[cursor.cur + 1])
             /\ SetCurList(RemoveAt(CurList, cursor.cur + 1))
             /\ UNCHANGED cursor
    <3> DEFINE new == Unlinked(CurList, cursor.cur + 1)
    <3>1. \A side \in Sides, b \in Buckets :
             ListOf(side, b)' = IF side = cursor.side /\ b = cursor.i
                                THEN new ELSE ListOf(side, b)
      BY <1>1, <2>1, <2>3, SetCurListEffect, RemoveAtUnlinks
    <3>2. CurList' = new
      <4>1. CurList' = ListOf(cursor.side, cursor.i)'
        BY DEF CurList, ListOf
      <4> QED
        BY <1>1, <2>3, <3>1, <4>1
    <3>3. ASSUME NEW j \in DOMAIN new, j > 1, j <= cursor.cur
          PROVE  Fresh(new[j])
      <4>1. /\ DOMAIN new = 1 .. Len(CurList) - 1
            /\ \A i \in 1 .. Len(CurList) - 1 :
                  new[i] = IF i < cursor.cur + 1 THEN CurList[i] ELSE CurList[i + 1]
        BY <1>1, <2>1, UnlinkedType
      <4>2. j \in DOMAIN CurList /\ new[j] = CurList[j]
        BY <1>1, <2>1, <3>3, <4>1
      <4> QED
        BY <1>0, <3>3, <4>2 DEF WalkedFresh
    <3>4. ASSUME NEW side \in Sides, NEW b \in Buckets, Walked(side, b)'
          PROVE  Walked(side, b) /\ ListOf(side, b)' = ListOf(side, b)
      <4>1. Walked(side, b) /\ b \in Int /\ cursor.i \in Int
        BY <1>1, <2>3, <3>4 DEF Walked, Buckets
      <4>2. ~ (side = cursor.side /\ b = cursor.i)
        BY <4>1 DEF Walked
      <4> QED
        BY <3>1, <4>1, <4>2
    <3> HIDE DEF new
    <3>5. WalkedFresh'
      BY <1>0, <2>2, <2>3, <3>2, <3>3, <3>4 DEF WalkedFresh
    <3> QED
      BY <2>2, <3>5 DEF SweepInv
  <2>4. CASE /\ ~ session_expired(CurList[cursor.cur + 1])
             /\ cursor' = [cursor EXCEPT !.cur = @ + 1]
             /\ UNCHANGED <<list_client_key, list_server_key>>
    <3>1. /\ cursor'.i = cursor.i /\ cursor'.side = cursor.side
          /\ cursor'.cur = cursor.cur + 1
      BY <1>0, <2>4, SweepTypes
    <3>2. /\ \A side, b : ListOf(side, b)' = ListOf(side, b)
          /\ \A side, b : Walked(side, b)' <=> Walked(side, b)
          /\ CurList' = CurList
      BY <2>4, <3>1 DEF ListOf, Walked, CurList
    <3>3. Fresh(CurList[cursor.cur + 1])
      BY <1>1, <1>2, <2>1, <2>4
    <3>4. ASSUME NEW j \in DOMAIN CurList, j > 1, j <= cursor.cur + 1
          PROVE  Fresh(CurList[j])
      <4>1. j <= cursor.cur \/ j = cursor.cur + 1
        BY <1>1, <3>4
      <4> QED
        BY <1>0, <3>3, <3>4, <4>1 DEF WalkedFresh
    <3>5. WalkedFresh'
      BY <1>0, <2>2, <3>1, <3>2, <3>4 DEF WalkedFresh
    <3> QED
      BY <2>2, <3>5 DEF SweepInv
  <2> QED
    BY <1>5, <2>3, <2>4 DEF delete_expired_next
<1> QED
  BY <1>3, <1>4, <1>5 DEF CleanStep

-----------------------------------------------------------------------------
(* The other calls                                                         *)

\* A session made after the last clean-up began expires after its beginning.
LEMMA AddSweep ==
    ASSUME IInv, SweepInv, NEW ep \in Endpoints, NEW timeout \in Nat,
           NEW count \in Int, add_tcp_session(ep, timeout, count)
    PROVE  SweepInv'
<1>0. SweepPast /\ CleanComplete /\ pc = "ready"
  BY DEF SweepInv, add_tcp_session
<1>1. CASE AddExisting(ep) \/ AddFails(LastTurn(count))
  BY <1>0, <1>1
  DEF AddExisting, AddFails, table, SweepInv, SweepPast, WalkedFresh, CleanComplete, Listed
<1>2. ASSUME NEW k \in 0 .. LastTurn(count), AddNew(ep, timeout, k),
             get_tcp_session_by_client(ep) = NULL
      PROVE  SweepInv'
  <2>1. k \in Nat
    BY TableAssumption DEF LastTurn, mod_num
  <2>2. /\ \A s \in DOMAIN heap : heap'[s] = heap[s]
        /\ heap'[Len(heap) + 1] = [client |-> ep, server_port |-> PortTried(k),
                                   expire |-> now + timeout]
        /\ Listed(list_client_key') = Listed(list_client_key) \cup {Len(heap) + 1}
        /\ Listed(list_server_key') = Listed(list_server_key) \cup {Len(heap) + 1}
    BY <1>0, <1>2, <2>1, AddNewStep
  <2>3. UNCHANGED <<pc, now, sweep>>
    BY <1>2 DEF AddNew
  <2>4. \A s \in Listed(list_client_key) \cup Listed(list_server_key) : s \in DOMAIN heap
    BY ListedIff DEF IInv, TypeOK
  <2>5. ~ sweep.done > now + timeout
    BY <1>0, SweepTypes DEF SweepPast
  <2>6. CleanComplete'
    <3>1. heap'[Len(heap) + 1].expire = now + timeout
      BY <2>2
    <3>2. \A s \in Listed(list_client_key') \cup Listed(list_server_key') :
             ~ sweep.done > heap'[s].expire
      BY <1>0, <2>2, <2>4, <2>5, <3>1 DEF CleanComplete
    <3> QED
      BY <2>3, <3>2 DEF CleanComplete, Listed
  <2> QED
    BY <1>0, <2>3, <2>6 DEF SweepInv, SweepPast, WalkedFresh
<1> QED
  BY <1>1, <1>2 DEF add_tcp_session

\* Every step keeps the invariant of the walk.
LEMMA NextSweep == IInv /\ SweepInv /\ [Next]_vars => SweepInv'
<1> SUFFICES ASSUME IInv, SweepInv, [Next]_vars PROVE SweepInv'
  OBVIOUS
<1>0. /\ now \in Nat /\ sweep.began \in Nat /\ sweep.done \in Nat
      /\ sweep \in [began : Nat, done : Nat]
  BY SweepTypes
<1>1. ASSUME NEW ep \in Endpoints, NEW t \in Timeouts, NEW c \in CountInit,
             add_tcp_session(ep, t, c)
      PROVE  SweepInv'
  BY <1>1, AddSweep, TableAssumption
<1>2. CASE clean_expired_session
  <2>1. /\ pc' = "scan" /\ cursor' = Start /\ now' = now
        /\ sweep'.began = now /\ sweep'.done = sweep.done
    BY <1>0, <1>2 DEF clean_expired_session
  <2>2. ASSUME NEW side \in Sides, NEW b \in Buckets PROVE ~ Walked(side, b)'
    BY <2>1, TableAssumption DEF Walked, Start, Buckets
  <2>3. ASSUME NEW j \in DOMAIN CurList', j > 1 PROVE ~ j <= cursor'.cur
    <3>1. IInv'
      BY NextIInv
    <3>2. CurList' \in Seq(DOMAIN heap')
      BY <3>1 DEF IInv, TypeOK, CurList
    <3> QED
      BY <2>1, <2>3, <3>2 DEF Start
  <2> QED
    BY <1>0, <2>1, <2>2, <2>3 DEF SweepInv, SweepPast, WalkedFresh, CleanComplete
<1>3. CASE CleanStep
  BY <1>3, WalkStep
<1>4. CASE delete_hash_table
  BY <1>4 DEF delete_hash_table, SweepInv, SweepPast, WalkedFresh, CleanComplete
<1>5. CASE init_hash_table
  <2>1. Listed(EmptyLists) = {}
    BY DEF Listed, EmptyLists
  <2> QED
    BY <1>5, <2>1
    DEF init_hash_table, SweepInv, SweepPast, WalkedFresh, CleanComplete, Listed
<1>6. CASE Tick
  <2>1. now' = now + 1 /\ UNCHANGED <<heap, list_client_key, list_server_key, pc,
                                      cursor, sweep>>
    BY <1>6 DEF Tick, table
  <2>2. SweepPast'
    BY <1>0, <2>1 DEF SweepInv, SweepPast
  <2> QED
    BY <2>1, <2>2
    DEF SweepInv, WalkedFresh, CleanComplete, Listed, Walked, Fresh, ListOf, CurList
<1>7. CASE UNCHANGED vars
  BY <1>7
  DEF vars, SweepInv, SweepPast, WalkedFresh, CleanComplete, Listed, Walked,
      Fresh, ListOf, CurList
<1> QED
  BY <1>1, <1>2, <1>3, <1>4, <1>5, <1>6, <1>7 DEF Next

\* clean_expired_session leaves no session in either array that had expired
\* when it was called: for any lists, however the clock moves meanwhile.
THEOREM CleanCompleteHolds == Spec => []CleanComplete
<1>1. Init => SweepInv
  <2>1. Listed(EmptyLists) = {}
    BY DEF Listed, EmptyLists
  <2> QED
    BY <2>1 DEF Init, SweepInv, SweepPast, WalkedFresh, CleanComplete
<1>2. SweepInv => CleanComplete
  BY DEF SweepInv
<1> QED
  BY <1>1, <1>2, SpecIInv, NextSweep, PTL DEF Spec

-----------------------------------------------------------------------------
(***************************************************************************)
(* The port search of add_tcp_session gives up only when every port is     *)
(* taken, provided that count starts at 0 or 1 or below and the numbers it *)
(* tries do not wrap out of step with the range of ports.                  *)
(***************************************************************************)

\* The numbers a search tries are consecutive modulo mod_num.
InStep == U32 % mod_num = 0 \/ next_num + mod_num <= U32

-----------------------------------------------------------------------------
(* Arithmetic                                                              *)

\* What the remainder of a number is, if it is written as a multiple and a rest.
LEMMA ModUnique ==
    ASSUME NEW m \in Nat \ {0}, NEW q \in Int, NEW d \in 0 .. m - 1
    PROVE  (m * q + d) % m = d
OBVIOUS

\* Every number is a multiple and a rest.
LEMMA ModSplit ==
    ASSUME NEW m \in Nat \ {0}, NEW a \in Nat
    PROVE  a % m \in 0 .. m - 1 /\ \E q \in Int : a = m * q + (a % m)
<1>1. a \div m \in Int /\ a = m * (a \div m) + (a % m)
  OBVIOUS
<1> QED
  BY <1>1, ModRange

\* mod_num turns from any number on meet every remainder.
LEMMA TurnFor ==
    ASSUME NEW m \in Nat \ {0}, NEW n \in Nat, NEW d \in 0 .. m - 1
    PROVE  \E k \in 0 .. m - 1, q \in Int : n + k = m * q + d
<1>1. PICK q \in Int : n = m * q + (n % m)
  BY ModSplit
<1> DEFINE r == n % m
<1>2. r \in 0 .. m - 1 /\ n = m * q + r
  BY <1>1, ModSplit
<1> HIDE DEF r
<1>3. CASE d >= r
  <2>1. d - r \in 0 .. m - 1 /\ n + (d - r) = m * q + d
    BY <1>2, <1>3
  <2> QED
    BY <2>1
<1>4. CASE d < r
  <2>1. d - r + m \in 0 .. m - 1
    BY <1>2, <1>4
  <2>2. m * (q + 1) = m * q + m
    OBVIOUS
  <2>3. n + (d - r + m) = m * (q + 1) + d
    BY <1>2, <2>2
  <2> QED
    BY <2>1, <2>3
<1> QED
  BY <1>2, <1>3, <1>4

\* Every port is tried in one of mod_num turns.
LEMMA EveryPortTried ==
    ASSUME next_num \in 0 .. U32 - 1, InStep, NEW port \in Ports
    PROVE  \E k \in 0 .. mod_num - 1 : PortTried(k) = port
<1> DEFINE m == mod_num
           d == port - MinPort
<1>0. /\ m \in Nat \ {0} /\ d \in 0 .. m - 1 /\ U32 \in Nat \ {0} /\ MinPort \in Nat
      /\ next_num \in Nat /\ port = d + MinPort /\ next_num < U32
  BY TableAssumption DEF mod_num, Ports
<1> HIDE DEF m, d
<1>1. PICK k \in 0 .. m - 1, q \in Int : next_num + k = m * q + d
  BY <1>0, TurnFor
<1>2. (next_num + k) % m = d
  BY <1>0, <1>1, ModUnique
<1>3. ((next_num + k) % U32) % m = d
  <2>1. CASE next_num + k < U32
    <3>1. (next_num + k) % U32 = next_num + k
      BY <1>0, <1>1, <2>1
    <3> QED
      BY <1>2, <3>1
  <2>2. CASE next_num + k >= U32
    <3>1. U32 % m = 0
      BY <1>0, <1>1, <2>2 DEF InStep, m
    <3>2. PICK u \in Int : U32 = m * u
      <4>1. PICK u \in Int : U32 = m * u + (U32 % m)
        BY <1>0, ModSplit
      <4>2. m * u \in Int /\ U32 = m * u + 0
        BY <1>0, <3>1, <4>1
      <4>3. U32 = m * u
        BY <4>2
      <4> QED
        BY <4>3
    <3>3. m <= U32
      <4>1. ASSUME U32 < m PROVE FALSE
        <5>1. U32 \in 0 .. m - 1 /\ m * 0 + U32 = U32
          BY <1>0, <4>1
        <5>2. (m * 0 + U32) % m = U32
          BY <1>0, <5>1, ModUnique
        <5> QED
          BY <1>0, <3>1, <5>1, <5>2
      <4> QED
        BY <1>0, <4>1
    <3>4. (next_num + k) % U32 = next_num + k - U32
      <4>1. next_num + k - U32 \in 0 .. U32 - 1
        BY <1>0, <1>1, <2>2, <3>3
      <4>2. next_num + k = U32 * 1 + (next_num + k - U32)
        BY <1>0, <1>1
      <4> QED
        BY <1>0, <4>1, <4>2, ModUnique
    <3>5. next_num + k - U32 = m * (q - u) + d
      <4>1. m * (q - u) = m * q - m * u
        BY <1>0
      <4> QED
        BY <1>0, <1>1, <3>2, <4>1
    <3>6. (m * (q - u) + d) % m = d
      <4>1. q - u \in Int
        OBVIOUS
      <4> QED
        BY <1>0, <4>1, ModUnique
    <3> QED
      BY <3>4, <3>5, <3>6
  <2> QED
    BY <1>0, <1>1, <2>1, <2>2
<1> QED
  BY <1>0, <1>3 DEF PortTried, m

-----------------------------------------------------------------------------
(* The search                                                              *)

\* A search that gives up after at least mod_num turns has seen every port
\* taken.
LEMMA FailsExhausted ==
    ASSUME IInv, InStep, NEW last \in Nat, last >= mod_num - 1, AddFails(last)
    PROVE  NullMeansExhausted'
<1>1. ASSUME NEW port \in Ports PROVE PortBusy(port)
  <2>1. PICK k \in 0 .. mod_num - 1 : PortTried(k) = port
    BY EveryPortTried DEF IInv, TypeOK
  <2>2. k \in 0 .. last
    BY TableAssumption DEF mod_num
  <2> QED
    BY <2>1, <2>2 DEF AddFails
<1>2. UNCHANGED <<heap, list_server_key>>
  BY DEF AddFails
<1>3. ASSUME NEW port \in Ports PROVE PortBusy(port)' <=> PortBusy(port)
  BY <1>2
  DEF PortBusy, get_tcp_session_by_server, search_tcp_session_by_server, hash_server
<1> QED
  BY <1>1, <1>3 DEF NullMeansExhausted

\* Nothing changes the table between a NULL and the next call.
NullKept == NullMeansExhausted /\ (ret = NULL => pc = "ready")

\* A step that leaves the server lists alone leaves the taken ports taken.
LEMMA SameBusy ==
    ASSUME NullKept, UNCHANGED <<heap, list_server_key, ret, pc>>
    PROVE  NullKept'
<1>1. ASSUME NEW port \in Ports PROVE PortBusy(port)' <=> PortBusy(port)
  BY DEF PortBusy, get_tcp_session_by_server, search_tcp_session_by_server, hash_server
<1> QED
  BY <1>1 DEF NullKept, NullMeansExhausted

\* add_tcp_session returns NULL only when each port of the range is taken: for
\* every port range, as long as count starts from 0 or 1 or below, and the
\* numbers of a search do not wrap out of step with the range, which they first
\* do after some 2^32 sessions.
THEOREM NullMeansExhaustedHolds ==
    ASSUME \A c \in CountInit : c <= 1
    PROVE  Spec /\ []InStep => []NullMeansExhausted
<1>1. Init => NullKept
  BY DEF Init, NullKept, NullMeansExhausted, NULL, NoResult
<1>2. IInv /\ InStep /\ NullKept /\ [Next]_vars => NullKept'
  <2> SUFFICES ASSUME IInv, InStep, NullKept, [Next]_vars PROVE NullKept'
    OBVIOUS
  <2>1. ASSUME NEW ep \in Endpoints, NEW t \in Timeouts, NEW c \in CountInit,
               add_tcp_session(ep, t, c)
        PROVE  NullKept'
    <3>1. pc = "ready" /\ pc' = "ready"
      BY <2>1 DEF add_tcp_session, AddExisting, AddNew, AddFails
    <3>2. CASE AddFails(LastTurn(c))
      <4>1. LastTurn(c) \in Nat /\ LastTurn(c) >= mod_num - 1
        BY TableAssumption DEF LastTurn, mod_num
      <4> QED
        BY <3>1, <3>2, <4>1, FailsExhausted DEF NullKept
    <3>3. CASE ~ AddFails(LastTurn(c))
      <4>1. ret' # NULL
        <5>1. Len(heap) \in Nat /\ Len(heap) + 1 # NULL
          BY HeapTypes DEF IInv, NULL
        <5> QED
          BY <2>1, <3>3, <5>1 DEF add_tcp_session, AddExisting, AddNew
      <4> QED
        BY <4>1 DEF NullKept, NullMeansExhausted
    <3> QED
      BY <3>2, <3>3
  <2>2. CASE clean_expired_session \/ delete_hash_table \/ init_hash_table
    BY <2>2
    DEF clean_expired_session, delete_hash_table, init_hash_table, NullKept,
        NullMeansExhausted, NULL, NoResult
  <2>3. CASE CleanStep
    <3>1. pc = "scan" /\ ret' = ret
      BY <2>3
      DEF CleanStep, delete_expired_empty, delete_expired_next, delete_expired_head
    <3> QED
      BY <3>1 DEF NullKept, NullMeansExhausted
  <2>4. CASE Tick \/ UNCHANGED vars
    BY <2>4, SameBusy DEF Tick, table, vars
  <2> QED
    BY <2>1, <2>2, <2>3, <2>4 DEF Next
<1>3. NullKept => NullMeansExhausted
  BY DEF NullKept
<1> QED
  BY <1>1, <1>2, <1>3, SpecIInv, PTL DEF Spec

=============================================================================
