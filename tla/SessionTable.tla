---------------------------- MODULE SessionTable ----------------------------
(***************************************************************************)
(* The session hash table of the VPN server (lib/session_struct.c): the    *)
(* translation table that gives each client endpoint a port of the server. *)
(* Every session hangs in two arrays of linked lists, one hashed by the    *)
(* client endpoint and one hashed by the server port.                      *)
(*                                                                         *)
(* The table is used by one thread, but the wall clock runs meanwhile:     *)
(* clean_expired_session reads it once per list node, so its walk over the *)
(* lists is modelled node by node and Tick may fall between any two nodes. *)
(* The other calls read the clock at most once and are single steps.       *)
(***************************************************************************)
EXTENDS Integers, Sequences, FiniteSetsExt, SequencesExt

CONSTANTS
    Endpoints,    \* the client <<ip, port>> pairs the callers pass
    NumEntry,     \* num_entry, the number of lists in each array
    MinPort,      \* min_port, the smallest server port handed out
    MaxPort,      \* max_port, the largest one
    U32,          \* number of values of a uint32_t (2^32 in the build)
    Timeouts,     \* values of default_timeout_in_second the callers pass
    CountInit,    \* what the uninitialised "int count" may hold
    MaxTime,      \* bound on the clock
    MaxSessions   \* bound on the number of sessions ever allocated

ASSUME TableAssumption ==
    /\ Endpoints \subseteq Nat \X Nat
    /\ NumEntry \in Nat \ {0}
    /\ MinPort \in Nat /\ MaxPort \in Nat
    /\ MinPort <= MaxPort
    /\ MaxPort - MinPort + 1 < 65536     \* else mod_num, a uint16_t, is 0
    /\ U32 \in Nat \ {0}
    /\ MaxPort - MinPort + 1 <= U32      \* a uint16_t fits in a uint32_t
    /\ Timeouts \subseteq Nat
    /\ CountInit \subseteq Int
    /\ MaxTime \in Nat /\ MaxSessions \in Nat

VARIABLES
    heap,              \* the sessions in the order they were allocated; a
                       \* session's position in heap stands for its address
    freed,             \* the sessions given to free()
    list_client_key,   \* array of lists of sessions, by hash_client
    list_server_key,   \* array of lists of sessions, by hash_server
    next_num,          \* next port number to try
    now,               \* time(NULL)
    pc,                \* "ready": between calls; "scan": inside
                       \* clean_expired_session; "deleted": after
                       \* delete_hash_table
    cursor,            \* where the walk of clean_expired_session is
    ret,               \* what the last add_tcp_session returned
    sweep              \* history: when the clean_expired_session under way
                       \* began, and when the last finished one had begun

table == <<list_client_key, list_server_key, next_num>>
vars == <<heap, freed, list_client_key, list_server_key, next_num, now, pc,
          cursor, ret, sweep>>

NULL == 0              \* no session is at address 0
NoResult == -1         \* the last call was not add_tcp_session

Buckets == 0 .. NumEntry - 1
Ports == MinPort .. MaxPort
mod_num == MaxPort - MinPort + 1

\* struct tcp_session without the fields that only the packet handlers use
Session == [client : Endpoints, server_port : Ports, expire : Nat]

Sides == {"client", "server"}
Start == [i |-> 0, side |-> "client", cur |-> 1]

-----------------------------------------------------------------------------
(* Lookups                                                                 *)

\* client_ip + client_port is a uint32_t sum and wraps
hash_client(ep) == ((ep[1] + ep[2]) % U32) % NumEntry

hash_server(port) == port % NumEntry

\* Mutant: a session expires in its last second.
session_expired_early(s) == now >= heap[s].expire

\* difftime(time(NULL), expire) > 0.0
session_expired(s) == now > heap[s].expire

\* The first session of list for client endpoint ep.
search_tcp_session_by_client(list, ep) ==
    LET hits == {k \in DOMAIN list : heap[list[k]].client = ep}
    IN  IF hits = {} THEN NULL ELSE list[Min(hits)]

\* The first session of list on server port "port".
search_tcp_session_by_server(list, port) ==
    LET hits == {k \in DOMAIN list : heap[list[k]].server_port = port}
    IN  IF hits = {} THEN NULL ELSE list[Min(hits)]

get_tcp_session_by_client(ep) ==
    search_tcp_session_by_client(list_client_key[hash_client(ep)], ep)

\* Mutant: the list is taken from the other array.
get_tcp_session_by_server_other_array(port) ==
    search_tcp_session_by_server(list_client_key[hash_server(port)], port)

get_tcp_session_by_server(port) ==
    search_tcp_session_by_server(list_server_key[hash_server(port)], port)

-----------------------------------------------------------------------------
(* init_hash_table and add_tcp_session                                     *)

EmptyLists == [b \in Buckets |-> <<>>]

Init ==
    /\ heap = <<>>
    /\ freed = {}
    /\ list_client_key = EmptyLists
    /\ list_server_key = EmptyLists
    /\ next_num = 0
    /\ now = 0
    /\ pc = "ready"
    /\ cursor = Start
    /\ ret = NoResult
    /\ sweep = [began |-> 0, done |-> 0]

\* A table that was deleted may be set up again.
init_hash_table ==
    /\ pc = "deleted"
    /\ pc' = "ready"
    /\ list_client_key' = EmptyLists
    /\ list_server_key' = EmptyLists
    /\ next_num' = 0
    /\ ret' = NoResult
    /\ UNCHANGED <<heap, freed, now, cursor, sweep>>

\* Append session s to the list at bucket b (calloc is assumed to succeed).
insert_tcp_session(lists, b, s) == [lists EXCEPT ![b] = Append(@, s)]

\* Mutant: the number of ports is MaxPort - MinPort.
PortTried_one_port_less(k) == (((next_num + k) % U32) % (mod_num - 1)) + MinPort

\* The port tried in the k-th turn (from 0) of the do loop.
PortTried(k) == (((next_num + k) % U32) % mod_num) + MinPort

\* Mutant: a port whose session has expired is taken for free.
PortBusy_unless_expired(port) ==
    LET s == get_tcp_session_by_server(port)
    IN  s # NULL /\ ~ session_expired(s)

PortBusy(port) == get_tcp_session_by_server(port) # NULL

\* The loop gives up in the first turn k that finds its port busy and has
\* count + k + 1 > mod_num.  count is not initialised in the code.
LastTurn(count) == IF count < mod_num THEN mod_num - count ELSE 0

\* "already exist"
AddExisting(ep) ==
    /\ ret' = get_tcp_session_by_client(ep)
    /\ UNCHANGED <<heap, freed, table, now, pc, cursor, sweep>>

\* The k-th turn is the first to find its port free.
AddNew(ep, timeout, k) ==
    /\ ~ PortBusy(PortTried(k))
    /\ \A j \in 0 .. k - 1 : PortBusy(PortTried(j))
    /\ Len(heap) < MaxSessions
    /\ LET port == PortTried(k)
           s == Len(heap) + 1
       IN  /\ heap' = Append(heap, [client |-> ep, server_port |-> port,
                                    expire |-> now + timeout])
           /\ list_client_key' =
                 insert_tcp_session(list_client_key, hash_client(ep), s)
           /\ list_server_key' =
                 insert_tcp_session(list_server_key, hash_server(port), s)
           /\ ret' = s
    /\ next_num' = (next_num + k + 1) % U32
    /\ UNCHANGED <<freed, now, pc, cursor, sweep>>

\* "no available port"
AddFails(last) ==
    /\ \A k \in 0 .. last : PortBusy(PortTried(k))
    /\ ret' = NULL
    /\ next_num' = (next_num + last + 1) % U32
    /\ UNCHANGED <<heap, freed, list_client_key, list_server_key, now, pc,
                   cursor, sweep>>

add_tcp_session(ep, timeout, count) ==
    /\ pc = "ready"
    /\ IF get_tcp_session_by_client(ep) # NULL
       THEN AddExisting(ep)
       ELSE \/ \E k \in 0 .. LastTurn(count) : AddNew(ep, timeout, k)
            \/ AddFails(LastTurn(count))

-----------------------------------------------------------------------------
(* clean_expired_session                                                   *)

clean_expired_session ==
    /\ pc = "ready"
    /\ pc' = "scan"
    /\ cursor' = Start
    /\ ret' = NoResult
    /\ sweep' = [sweep EXCEPT !.began = now]
    /\ UNCHANGED <<heap, freed, table, now>>

\* The list that is being walked.
CurList == IF cursor.side = "client" THEN list_client_key[cursor.i]
                                     ELSE list_server_key[cursor.i]

SetCurList(list) ==
    IF cursor.side = "client"
    THEN /\ list_client_key' = [list_client_key EXCEPT ![cursor.i] = list]
         /\ UNCHANGED list_server_key
    ELSE /\ list_server_key' = [list_server_key EXCEPT ![cursor.i] = list]
         /\ UNCHANGED list_client_key

\* Mutant: i is not incremented.
NextList_same_bucket ==
    /\ cursor' = [cursor EXCEPT !.side = IF @ = "client" THEN "server" ELSE "client",
                                !.cur = 1]
    /\ UNCHANGED <<pc, sweep>>

\* The client list of a bucket, then its server list, then the next bucket.
NextList ==
    \/ /\ cursor.side = "client"
       /\ cursor' = [cursor EXCEPT !.side = "server", !.cur = 1]
       /\ UNCHANGED <<pc, sweep>>
    \/ /\ cursor.side = "server"
       /\ cursor.i + 1 < NumEntry
       /\ cursor' = [i |-> cursor.i + 1, side |-> "client", cur |-> 1]
       /\ UNCHANGED <<pc, sweep>>
    \/ /\ cursor.side = "server"
       /\ cursor.i + 1 = NumEntry
       /\ cursor' = Start
       /\ pc' = "ready"
       /\ sweep' = [sweep EXCEPT !.done = sweep.began]

\* delete_expired_session on an empty list returns at once.
delete_expired_empty ==
    /\ pc = "scan"
    /\ CurList = <<>>
    /\ NextList
    /\ UNCHANGED <<heap, freed, table, now, ret>>

\* Mutant: moves on after unlinking a node, too.
delete_expired_next_skips ==
    /\ pc = "scan"
    /\ cursor.cur < Len(CurList)
    /\ \/ /\ session_expired(CurList[cursor.cur + 1])
          /\ SetCurList(RemoveAt(CurList, cursor.cur + 1))
       \/ /\ ~ session_expired(CurList[cursor.cur + 1])
          /\ UNCHANGED <<list_client_key, list_server_key>>
    /\ cursor' = [cursor EXCEPT !.cur = @ + 1]
    /\ UNCHANGED <<heap, freed, next_num, now, pc, ret, sweep>>

\* Mutant: frees the session with its first node.
delete_expired_next_frees ==
    /\ pc = "scan"
    /\ cursor.cur < Len(CurList)
    /\ LET s == CurList[cursor.cur + 1]
       IN  \/ /\ session_expired(s)
              /\ SetCurList(RemoveAt(CurList, cursor.cur + 1))
              /\ freed' = freed \cup {s}
              /\ UNCHANGED cursor
           \/ /\ ~ session_expired(s)
              /\ cursor' = [cursor EXCEPT !.cur = @ + 1]
              /\ UNCHANGED <<freed, list_client_key, list_server_key>>
    /\ UNCHANGED <<heap, next_num, now, pc, ret, sweep>>

\* One turn of its loop: unlink the node after current if that session has
\* expired, else move on.  The node is freed, the session is not.
delete_expired_next ==
    /\ pc = "scan"
    /\ cursor.cur < Len(CurList)
    /\ \/ /\ session_expired(CurList[cursor.cur + 1])
          /\ SetCurList(RemoveAt(CurList, cursor.cur + 1))
          /\ UNCHANGED cursor
       \/ /\ ~ session_expired(CurList[cursor.cur + 1])
          /\ cursor' = [cursor EXCEPT !.cur = @ + 1]
          /\ UNCHANGED <<list_client_key, list_server_key>>
    /\ UNCHANGED <<heap, freed, next_num, now, pc, ret, sweep>>

\* Mutant: the head is not checked.
delete_expired_head_unchecked ==
    /\ pc = "scan"
    /\ CurList # <<>>
    /\ cursor.cur = Len(CurList)
    /\ NextList
    /\ UNCHANGED <<heap, freed, table, now, ret>>

\* The head is checked last.
delete_expired_head ==
    /\ pc = "scan"
    /\ CurList # <<>>
    /\ cursor.cur = Len(CurList)
    /\ \/ /\ session_expired(Head(CurList))
          /\ SetCurList(Tail(CurList))
       \/ /\ ~ session_expired(Head(CurList))
          /\ UNCHANGED <<list_client_key, list_server_key>>
    /\ NextList
    /\ UNCHANGED <<heap, freed, next_num, now, ret>>

CleanStep == delete_expired_empty \/ delete_expired_next \/ delete_expired_head

-----------------------------------------------------------------------------
(* delete_hash_table                                                       *)

\* The sessions hanging in an array of lists.
Listed(lists) == UNION {{lists[b][k] : k \in DOMAIN lists[b]} : b \in Buckets}

\* Both arrays are torn down; the sessions are freed through the server lists.
delete_hash_table ==
    /\ pc = "ready"
    /\ pc' = "deleted"
    /\ freed' = freed \cup Listed(list_server_key)
    /\ list_client_key' = EmptyLists
    /\ list_server_key' = EmptyLists
    /\ ret' = NoResult
    /\ UNCHANGED <<heap, next_num, now, cursor, sweep>>

Tick ==
    /\ now < MaxTime
    /\ now' = now + 1
    /\ UNCHANGED <<heap, freed, table, pc, cursor, ret, sweep>>

-----------------------------------------------------------------------------
Next ==
    \/ \E ep \in Endpoints, t \in Timeouts, c \in CountInit :
          add_tcp_session(ep, t, c)
    \/ clean_expired_session
    \/ CleanStep
    \/ delete_hash_table
    \/ init_hash_table
    \/ Tick

Spec == Init /\ [][Next]_vars

\* A call that has been entered runs on: the thread never blocks inside it.
FairSpec == Spec /\ WF_vars(CleanStep)

-----------------------------------------------------------------------------
(* Properties                                                              *)

\* The types of the variables; while clean_expired_session walks a list its
\* cursor stands on a node of that list.
TypeOK ==
    /\ heap \in Seq(Session)
    /\ freed \subseteq DOMAIN heap
    /\ list_client_key \in [Buckets -> Seq(DOMAIN heap)]
    /\ list_server_key \in [Buckets -> Seq(DOMAIN heap)]
    /\ next_num \in 0 .. U32 - 1
    /\ now \in Nat
    /\ pc \in {"ready", "scan", "deleted"}
    /\ cursor \in [i : Buckets, side : Sides, cur : Nat \ {0}]
    /\ pc = "scan" /\ CurList # <<>> => cursor.cur <= Len(CurList)
    /\ pc # "scan" => cursor = Start
    /\ ret \in DOMAIN heap \cup {NULL, NoResult}
    /\ sweep \in [began : Nat, done : Nat]

\* A session that was handed out and has not expired is found under both of
\* its keys, whatever sequence of calls came before and also in the middle of
\* a clean-up: replies to its server port reach exactly the client endpoint
\* it was made for, and so no two live sessions share a server port.
RoundTrip ==
    \A s \in DOMAIN heap \ freed :
        ~ session_expired(s) =>
            /\ get_tcp_session_by_client(heap[s].client) = s
            /\ get_tcp_session_by_server(heap[s].server_port) = s

\* No list holds a session that was freed, and no session hangs twice in the
\* server lists: delete_hash_table, which frees what it finds there, neither
\* leaves a dangling pointer nor frees a session twice.
MemorySafe ==
    /\ \A s \in Listed(list_client_key) \cup Listed(list_server_key) :
          s \notin freed
    /\ \A b, c \in Buckets :
          \A k \in DOMAIN list_server_key[b], l \in DOMAIN list_server_key[c] :
             list_server_key[b][k] = list_server_key[c][l] => b = c /\ k = l

\* After clean_expired_session, no list holds a session that had already
\* expired when the call began: consecutive expired nodes and an expired head
\* are unlinked too, although the clock moves during the walk.
CleanComplete ==
    pc = "ready" =>
        \A s \in Listed(list_client_key) \cup Listed(list_server_key) :
            ~ sweep.done > heap[s].expire

\* clean_expired_session returns, although the clock may expire further
\* sessions during its walk.
CleanTerminates == (pc = "scan") ~> (pc = "ready")

\* session_struct.h:124, "NULL if all ports used up": add_tcp_session returns
\* NULL only when each port of the range is taken.
NullMeansExhausted ==
    ret = NULL => \A port \in Ports : PortBusy(port)

\* What a lookup that found session s gives its caller.
Found(s) == IF s = NULL \/ session_expired(s) THEN {} ELSE {heap[s]}

Abstract == INSTANCE NatTable WITH
    clock <- now,
    by_client <- UNION {Found(get_tcp_session_by_client(ep)) : ep \in Endpoints},
    by_server <- UNION {Found(get_tcp_session_by_server(port)) : port \in Ports}

\* Through its lookups the table cannot be told from a set of one-to-one
\* bindings that end when they expire: hashing, lists that disagree, expired
\* sessions in the way and a clean-up that unlinks from one array after the
\* other are never seen.
ImplementsNatTable == Abstract!Spec

\* session_struct.h:99, "remove all entries (linked list), and free all memory
\* allocated".
AllFreed == pc = "deleted" => freed = DOMAIN heap

=============================================================================
