# benker-vpn: TLA+ specifications, checks and proofs

benker-vpn is a VPN client and a VPN server in C. The client makes a tun
interface that takes all traffic of its host and sends every IP packet in a
UDP datagram to the server. The server rewrites the source of each TCP packet
to its own address and a port of its own, sends it out through a raw socket,
and takes the answers the opposite way. Paths below are relative to
`src/src/` of the repository.

## Inventory

| Part | State | Operations | What makes it correct |
|---|---|---|---|
| Session table, `lib/session_struct.c` | two arrays of linked lists of the same sessions, `next_num`; a session has a client endpoint, a server port and an expiry time | `init_hash_table`, `add_tcp_session`, `get_tcp_session_by_client/server`, `clean_expired_session`, `delete_hash_table` | a live session is found under both keys, no two share a port, memory is freed once, a refusal means no port is left |
| Packet handlers, `lib/packet_handler.c` | `syn_state`, `client_fin_state`, `server_fin_state` and two sequence numbers per session | `handle_client_packet`, `handle_world_packet` | the recorded state agrees with what both TCP hosts know, however segments are delayed or repeated |
| Protocol headers, `lib/protocol_headers.c` | the packet buffer | `validate_ip_tcp`, `replace_{src,dst}_{ip,port,ip_port}`, `fillin_reset` | valid checksums, nothing else changed, no access outside the buffer |
| Server, `server/main.c`, with `lib/udp.c`, `lib/vpn_raw_sock.c` | one buffer, one remote address, the table, two sockets | the loop: read UDP, handle, send raw, read raw, handle, send UDP, sleep | replies reach the endpoint that owns the port; neither socket starves the other |
| Client, `client/main.c`, with `lib/udp.c`, `lib/ip_command.c` | one buffer, two descriptors, the tun interface with its address and route | `setup_tun` and its parts; the loop: read tun, send UDP, read UDP, write tun | set-up is all or nothing; packets are relayed in order, without loss; neither side starves |
| Trial programs `*/main_trial.c`, `POC/` | | | not built by `CMakeLists.txt`, not modelled |

How the parts interact: both programs are single-threaded loops over two
non-blocking descriptors. The server's loop calls the packet handlers, which
call the table and the header functions; client and server exchange UDP
datagrams, without acknowledgement or retry of their own; everything else
(arrivals, failing calls, the clock) is the kernel. The server has one remote
address, which every datagram it reads overwrites: that is how an answer finds
the client, and how a restarted client is found again.

What is hard here: the clock runs while the table is being walked; variables
that are read without having been set (`count`, `sock_len`, `ifr_flags`);
counters and sequence numbers that wrap; TCP segments that are lost, doubled,
reordered and retransmitted; one buffer for two directions; set-up in four
parts each of which may fail; two descriptors served in turn with `goto`; a
buffer that still holds the packet before; a client that is restarted while
datagrams of the one before are on the way. The
list with source lines is "hazards" in `PROJECT.json`.

## Modules

| Module | Models | Uses |
|---|---|---|
| `NatTable` | what the session table promises its callers | |
| `SessionTable` | the session table | instance of `NatTable` |
| `SessionTableProofs` | the invariant of `SessionTable` and its theorems | `SessionTable` |
| `SessionTableCalls` | refinement, clean-up and port search of `SessionTable` | `SessionTableProofs` |
| `PacketHandler` | the flag handling of both handlers, as operators | |
| `TcpTracking` | one connection through the handlers | `PacketHandler` |
| `TcpTrackingProofs` | theorems about `TcpTracking` | `TcpTracking` |
| `VpnServer` | the server's loop and sockets | `SessionTable`, `PacketHandler` |
| `VpnServerProofs` | theorems about `VpnServer` | `VpnServer`, `SessionTableCalls` |
| `ProtocolHeaders` | validation and rewriting, byte by byte | |
| `ProtocolHeadersProofs` | what the operations of `ProtocolHeaders` store, and its theorems | `ProtocolHeaders` |
| `ChecksumProofs` | what the checksum functions compute, and its theorems | `ProtocolHeadersProofs` |
| `VpnClient` | the client's set-up and loop | |
| `VpnClientProofs` | theorems about `VpnClient` | `VpnClient` |
| `VpnSystem` | client, server, the Internet between them and the hosts at both ends | `VpnServer`, instance of `VpnClient` |
| `VpnSystemProofs` | theorems about `VpnSystem` | `VpnSystem`, `VpnServerProofs` |
| `MCSessionTable`, `MCVpnServer`, `MCProtocolHeaders`, `MCVpnClient`, `MCVpnSystem` | the sets the configurations need | |

Definitions keep the names of the C functions. `PROJECT.json` "map" gives the
lines of each. Definitions marked *Mutant* are variants of the definition that
follows them with one plausible mistake; they are used by no specification and
serve to confirm that each property can fail ("mutants" in `PROJECT.json`).

**SessionTable.** `heap` is the sequence of sessions ever allocated, and a
session's position in it stands for its address; `freed` are those given to
`free`. The lists are sequences of addresses. `add_tcp_session` is one step:
it reads the clock once. Its port search is described by the turn `k` in which
it ends: `AddNew` when turn `k` is the first with a free port, `AddFails` when
all turns up to `LastTurn(count)` found theirs busy, `count` being whatever
the uninitialised variable holds. `clean_expired_session` reads the clock once
per node, so it is one step per node (`delete_expired_next`,
`delete_expired_head`, `delete_expired_empty`), with `Tick` possible in
between. `sweep` is a history variable for `CleanComplete`. `calloc` is
assumed to succeed and the clock not to go backwards.

**NatTable.** The bindings a caller can find from either side, which begin
together when a session is added and end together when the clock passes their
expiry. `SessionTable` implements it with `by_client` and `by_server` mapped to
the live sessions its two lookups return (`Found`): a session unlinked from
one array and not yet from the other, a bucket that two keys share, an expired
session that is in the way, are not seen through the lookups.

**PacketHandler, TcpTracking.** The operators map the fields of a session and
a packet to new fields. `TcpTracking` puts them between two TCP hosts, which
are not part of the repository: they number a stream that begins with SYN and
ends with FIN, acknowledge cumulatively and may retransmit anything not yet
acknowledged. Networks are sets of segments sent; any of them may be delivered
any number of times, in any order, or never.

**VpnServer.** `at` is the place in `main`; each read, handler call, send and
sleep is one step, so arrivals and clock ticks may fall between any two. The
handlers run with `add_tcp_session` and the flag operators inside them. A
packet is a record of what the handlers look at; whether `validate_ip_tcp`
accepts it is a field. A datagram of no bytes sets the remote address and is
otherwise taken for none. `owner` is a history variable: the endpoints each port
has been used for on the wire. `get_ip_packet` passes an uninitialised
`sock_len`: long enough, too short (the packet type is what the stack held) or
negative (the call fails). `sendto` and `recvfrom` may fail, which ends the
server, and so may the opening of either socket.

**ProtocolHeaders.** Buffers are sequences of bytes, and the checksum
functions sum words with end-around carry as the code does. The packet is read
over the bytes an earlier one left in the buffer, `read_len` of them, and the
handler is told the size of the buffer, as `main` does.

**VpnClient.** `open` are the open descriptors, `dev` what has been done to
the interface, `tunfd` what `setup_tun` returned. The kernel removes the
interface, its address and its route with the last descriptor. The client
never looks into a packet, so packets are any values; besides packets there are
empty datagrams and datagrams that are no IP packet.

**VpnSystem.** What the client sends is what the server's UDP socket may
receive, and the other way round. `up`, `wire` and `down` hold everything ever
sent to the server, to the world and to the client; any of it may be delivered
at any later time, any number of times, or never. The host repeats its SYN;
servers of the world answer with SYN-ACK. The client may die at any point and
is started again on another UDP port (`ClientRestarts`), its queues and its
buffer gone, while datagrams from its old port may still arrive. The server
has no restart: its table is in memory, a new one starts as `ServerInit`.

## Runs

All instances are small in the sizes that only multiply states and large
enough for the cases that matter: two buckets, so that there is a next one,
two ports and one endpoint more, a clock that can pass an expiry in the middle
of a walk, a `U32` so small that `next_num` wraps. In the runs of the table all
three endpoints hash to one bucket of the client array, whose list reaches
three nodes: with two ports, the third comes when a clean-up has unlinked an
expired session from its server list and not from its client list, and so two
expired nodes behind the head occur. Server lists have at most one node there,
as neighbouring ports hash to different buckets; longer ones are left to the
theorems. In the runs of the server the endpoints use both client buckets.

| Run | Result | Shows |
|---|---|---|
| `SessionTable` | pass | `RoundTrip`, `MemorySafe`, `CleanComplete`, `CleanTerminates` for every order of calls, `next_num` wrapping, the clock ticking inside the clean-up; with `count` starting from 0 and mod_num dividing `U32`, NULL means that every port is taken (`NullMeansExhausted`); the table implements `NatTable` (`ImplementsNatTable`) |
| `SessionTableNullGarbage` | violation | with garbage in `count`, NULL does not mean that |
| `SessionTableLeak` | violation | `delete_hash_table` does not free the sessions a clean-up unlinked (`AllFreed`) |
| `TcpTracking` | pass | the tracked state is neither ahead of nor behind the hosts (`NeverAhead`, `NeverBehind`) |
| `TcpTrackingCoalesce` | violation | it is ahead when a FIN is retransmitted with data |
| `VpnServer` | pass | `ReplyReachesOwner`; as the server never cleans its table, `NullMeansExhausted` holds in it whatever `count` holds; a frame for this host is read in the end, although datagrams keep coming, accepted and refused, and frames for other hosts stand before it (`FrameServed`) |
| `VpnSystem` | pass | what the server sends and what the client writes to its interface was asked for, by that endpoint and from that address (`AnswersAsked`); a request is answered, to the address the client has now, unless its session expires or the client dies (`RequestAnswered`) |
| `VpnServerRetry` | violation | an endpoint whose session has expired is refused however often it retries (`ServedAgain`) |
| `ProtocolHeaders` | pass | `ChecksumsValid`, `OnlyRewritten`; `InBounds` for contradicting lengths, by those that were validated; `ResetReversesPlain` for packets without IP options |
| `ProtocolHeadersStale` | violation | bytes an earlier packet left in the buffer count as part of a packet that is shorter than its total length says (`NothingStale`) |
| `VpnClient` | pass | `SetupAllOrNothing`, `RelayInOrder`; both descriptors are served (`TunServed`, `UdpServed`) |
| `VpnClientFlags` | violation | garbage in `ifr_flags` may put a header before each packet |

The violations are disagreements between the code and what a comment or a
header says of it; "findings" in `PROJECT.json` quotes both. Further
disagreements that need no run of their own:

* `next_num` wraps at 2^32, which is no multiple of the 1001 ports: a search
  across the wrap misses ports (`NullMeansExhausted` fails with `MaxPort = 6`
  and `U32 = 5` in `SessionTable.cfg`);
* acknowledgements are compared as plain numbers: with an initial sequence
  number just before the wrap `syn_state` never becomes 3 (`NeverBehind` fails
  with `WorldISN = 31` in `TcpTracking.cfg`);
* `clean_expired_session` reads the clock anew for every node, so a session
  that expires between the walks of its two lists stays in one of them, against
  `session_struct.h:54` ("the two list are storing same element"); by
  `ImplementsNatTable` no lookup shows it;
* `fillin_reset` sets ihl to 5 before it locates the TCP header with it, so the
  reset packet made from a packet with IP options takes its ports and numbers
  from the options, against `protocol_headers.h:92` ("the src and dst ip, port
  will be handled in this function"); `ResetReverses` fails as an invariant of
  `ProtocolHeaders.cfg`, `ResetReversesPlain` therefore asks for ihl 5, and no
  reset packet is sent;
* an endpoint that opens its next connection while the session of the last one
  exists keeps its `syn_state` and fin states, and the new one is not tracked;
  nothing reads these states yet;
* no packet extends the expiry of its session, against `packet_handler.c:59`
  ("update the session info, and expire time");
* `validate_ip_tcp` accepts an ihl or doff below 5, against
  `protocol_headers.h:11` ("validate the ip header len, tcp type, tcp header
  len"); `ChecksumsValid` therefore asks for full headers.

Bounds. `MaxTime`, `MaxSessions`, `MaxSegments`, `QueueLimit`, `FrameLimit` and
the length of `Addresses` (how often the client is started) bound the instances
and appear in guards only. In the runs of the table,
`MaxSessions` leaves room for more sessions than there are ports; in those
of the server it is never reached, as nothing is removed from its table. A
full queue drops what arrives, as the kernel does. `TcpTracking` has one byte
of data, enough for a segment between SYN and FIN, and up to five different
segments per host: SYN, handshake acknowledgement, data, FIN and the last
acknowledgement. The packets of `ProtocolHeaders` combine IP and TCP options,
payloads of zero to three bytes and buffers larger than the packet, with
contents that make carries happen everywhere. `VpnClient` has three packets
and queues of three, so that a lost, doubled or swapped one is seen.
`VpnServer` and `VpnSystem` have a raw socket that queues two frames, so that a
frame for another host may stand before one for this host, and elsewhere
queues of one. The frames of `VpnServer` are a SYN-ACK for this host and one
for another host that a short `sock_len` may pass on all the same; closing a
connection is left to `TcpTracking`, and a frame that is not TCP is refused
like one without a session. `VpnSystem` has one connection and one restart: two
connections make states by the million without a new interaction, as the
server treats them alike (`VpnServer` has three endpoints). With one request
only the address in `AnswersAsked` can be wrong there; that endpoint and number
are right among several is what the theorem says.

Deadlock is checked except where the system stops: the programs exit when a
call fails, and a packet is rewritten once.

Fairness. `FairSpec` of the table: a call that was entered goes on, as no step
of it blocks. `FairServerSpec` and `FairSpec` of the client: the program goes
on taking steps until it exits, as both descriptors are non-blocking and
`sleep(1)` returns. Nothing is assumed of arrivals or of the clock there.
`SystemSpec` adds strong fairness of the deliveries: TCP hosts repeat a SYN
that is not answered, so a datagram that can be delivered again and again is
not lost every time. Of what a client sent before it died nothing has to arrive
(`PresentUp`). `RequestAnswered` has two conditions the code does not
guarantee: `get_ip_packet` returns again and again (`ReadsEnd`; it reads on
without end as long as frames for other hosts are queued, during which the UDP
socket waits), and old datagrams stop coming at some time (`OldForgotten`; each
of them takes the replies to the old address until a new datagram is read).

## Proofs

Every theorem holds for all values of the constants. The assumptions on the
constants are the named ASSUMEs of the modules that declare them, which TLC
evaluates in the runs; conditions beyond them are hypotheses of the theorem and
named below.

| Theorem | States | Invariant |
|---|---|---|
| `SessionTableProofs!TypeCorrect` | `Spec => []TypeOK` | `IInv` |
| `SessionTableProofs!RoundTripHolds` | `Spec => []RoundTrip` | `IInv` |
| `SessionTableProofs!MemorySafeHolds` | `Spec => []MemorySafe` | `IInv` |
| `SessionTableCalls!CleanCompleteHolds` | `Spec => []CleanComplete` | `IInv /\ SweepInv` |
| `SessionTableCalls!Implements` | `Spec => ImplementsNatTable` | `IInv` |
| `SessionTableCalls!NullMeansExhaustedHolds` | `Spec /\ []InStep => []NullMeansExhausted`, if `count` starts from at most 1 | `IInv` |
| `TcpTrackingProofs!TrackingTypeCorrect` | `Spec => []TypeOK` | `HostInv` |
| `TcpTrackingProofs!NeverAheadHolds`, `NeverBehindHolds` | `Spec => []NeverAhead`, `Spec => []NeverBehind`, under `Plain` | `TrackInv` |
| `VpnServerProofs!ServerTypeCorrect` | `ServerSpec => []ServerTypeOK` | `ServerInv` |
| `VpnServerProofs!ReplyReachesOwnerHolds` | `ServerSpec => []ReplyReachesOwner` | `ServerInv` |
| `VpnServerProofs!ServerNullMeansExhausted` | `ServerSpec => []NullMeansExhausted` | `ServerInv` |
| `VpnServerProofs!ServerImplementsNatTable` | `ServerSpec => ImplementsNatTable` | `ServerInv` |
| `VpnSystemProofs!AnswersAskedHolds` | `SystemSpec => []AnswersAsked` | `SystemInv` |
| `VpnSystemProofs!SystemReplyReachesOwner`, `SystemImplementsNatTable` | `SystemSpec => []ReplyReachesOwner`, `SystemSpec => ImplementsNatTable` | `SystemInv` |
| `ProtocolHeadersProofs!OnlyRewrittenHolds`, `ResetReversesPlainHolds`, `InBoundsHolds` | `Spec => []P` of the property in the name | `HeadersInv` |
| `ChecksumProofs!ChecksumsValidHolds` | `Spec => []ChecksumsValid` | `ChecksumInv` |
| `ChecksumProofs!TypeOKHolds` | `Spec => []TypeOK`, if the IP header has two words or more | `ChecksumInv` |
| `VpnClientProofs!TypeCorrect`, `SetupAllOrNothingHolds` | `Spec => []TypeOK`, `Spec => []SetupAllOrNothing` | `IInv` |
| `VpnClientProofs!RelayInOrderHolds` | `Spec => RelayInOrder` (an action property) | `IInv` |

**The session table.** `TableAssumption` asks of the constants what the types
of the code give: mod_num, a `uint16_t`, is not 0 and no larger than a
`uint32_t` can be. Neither `RoundTrip` nor `MemorySafe` is inductive by itself.
A search returns the *first* session with a key, so to know that it returns
*the* session one must know that no other in the array has that key and that
it hangs in the bucket its key hashes to; and the arrays may disagree, so both
must be stated for each array by itself. The invariant `IInv` adds to `TypeOK`:

* `ListsOK`: every listed session is in the bucket of its key, and no two
  positions of an array hold the same key;
* `NotFreed`: no array holds a freed session;
* `LiveListed`: a session that is neither freed nor expired is in both arrays;
* `DeletedEmpty`: after `delete_hash_table` the arrays are empty.

`UnlinkKeeps` and `InsertKeeps` say what removing a node and appending a
session do to any array in order; `SearchNull` and `SearchFinds` say what the
searches return on one. With these each action has its lemma (`AddStep`,
`CleanStepKeeps`, `DeleteStep`, `InitTableStep`, `TickStep`), and `NextIInv`
collects them. That time never makes an expired session live again is what
makes `LiveListed` inductive.

*The clean-up.* `CleanComplete` speaks of the end of a call, so `SweepInv` says
how far the walk has come: the lists behind the cursor, and of the list it is
in the nodes from the second to the one under the cursor, hold no session that
had expired at the start (`WalkedFresh`); the head is looked at last, which is
why it is left out. The start of a walk lies in the past (`SweepPast`), so a
node that is kept was alive at the start.

*The refinement.* `MappedHolds` derives from `IInv` that both mapped variables
are the set of sessions neither freed nor expired (`LiveSet`); then an
insertion adds one binding, a tick takes those that end, a deletion all, and
the steps of a clean-up, which touch expired sessions only, none.

*The port search.* mod_num consecutive numbers meet every remainder modulo
mod_num (`TurnFor`), hence a search of mod_num turns tries every port
(`EveryPortTried`) and gives up only if all are busy (`FailsExhausted`). Two
conditions are needed and are the two ways in which the code does not keep the
promise: `count` starts from at most 1 (run `SessionTableNullGarbage`), and
`InStep`, the search does not cross the wrap of `next_num` unless mod_num
divides 2^32.

**The server.** `ServerAssumption` gives the datagrams and frames the fields
the handlers read, and says that the timeout the handler passes is one of those
the table is used with. `ServerInv` carries `IInv` over to the loop and adds
what is special about the server: it never unlinks a session (`AllListed`), the
buffer holds what each place in `main` expects (`BufferOK`), a session exists
only after a datagram has set the remote address (`AddressKnown`), the port of
a session has been used for its endpoint alone (`Owned`, which has to allow for
a session whose first packet is in the buffer or could not be sent), and ports
are handed out in order until all are taken (`Sequential`). The last gives
`NullMeansExhausted` without the two conditions of the table: in the server the
first turn of a search finds a free port as long as there is one. What is
queued is described by what it is like (`GoodDatagram`, `GoodFrame`) and not by
the sets it is taken from, so that the same lemmas serve for the server in
`VpnSystem`. `ServerUsesTable` says that `main` changes the table through
`add_tcp_session` only, with arguments the table allows; what is proved of the
table, the refinement of `NatTable` first, is then true of the server's.

**The composed system.** `SystemAssumption` gives the requests the fields of a
SYN packet and says that no address of the client is the one that stands for
none. `SystemInv` is `ServerInv` and the trail of each packet, link by link:
what is in the server's queue, its buffer, its remote address and on the wire
comes from datagrams the client sent, and every endpoint a port was used for
has asked (`TrailUp`); a frame taken for one to this host answers a request of
an endpoint that used its port (`TrailDown`); what the client holds and has
written was sent to it (`TrailBack`). The two halves meet at `send_msg_udp`:
by `ReplyReachesOwner` one endpoint alone ever used the port, so the endpoint
the reply carries is the one whose request it answers. All sets of the trail
only grow, which is why loss, repetition, delay and restarts cannot break it.
`TrailDown`, and with it the acknowledged number in `AnswersAsked`, has the
condition `Quiet`: no frame that answers nothing is taken for one to this host.
Without it (anyone may send to a port of the server, and a short `sock_len`
makes any frame look like one to this host) the address and the endpoint still
come from requests, the contents need not.

**The tracked connection.** `HostInv` says what the hosts and the segments are,
whatever the server does: nothing is received that was not sent, nothing
acknowledged that was not received, and a segment sent earlier stays one of
its host (`SentStays`; a FIN is added behind everything sent before).
`SynTracked` adds that nothing but SYNs is under way until the world's answer
has passed the server; `FinTracked`, used once per direction, that the FIN has
passed the server before the peer can have received it, that the number the
session keeps is the number of that FIN, and that its acknowledgement has
passed before its sender can have received it. `Plain` is the condition: the
sequence numbers of the connection do not wrap and FINs are sent without data.
Without it both properties fail (see Runs). `TypeOK` needs neither.

**The headers.** `Stored` says what `Put` leaves in an array, `IsField` what a
field reads from one; with them `RewriteBytes`, `ResetIpBytes` and
`ResetTcpBytes` follow the operations store by store. The point of
`OnlyRewritten` is that the TCP header is found again after the address was
replaced; of `ResetReversesPlain` that later stores do not hit what earlier
ones put in place. No value of a checksum is used for these.
`PacketsAssumption` says that a buffer has room for two headers and for every
packet, as both `s.buf` have.

*The checksums.* `ChecksumsValid` needs to know what `summing` computes, which
the model defines by a fold over the words (`WordSum`) and a recursive function
for the carries (`Carry`). Induction over data is replaced by looking at the
least number for which a statement fails (`LeastNat`, from the well-foundedness
of the natural numbers). `CarryDef` shows that `Carry` satisfies its equation,
by exhibiting a function that does (`Carried`, written without recursion);
`CarryIs` that the carries end in 16 bits and change a sum by multiples of
65535 only. `WordSumIs` says that the fold is the last of the partial sums;
`WordSumAdd`, `WordSumJoin` and `WordSumChange` what becomes of it with an
initial sum, for two pieces after each other and for a word that was zero. From
these `tcp_csum`, which sums pseudo header, TCP header and data in separate
calls, is the complement of the sum of the three in one piece (`TcpSum`), and
storing a complement where zero was makes the whole minus zero
(`ComplementSound`, `CheckField`), which is what a receiver looks for. An odd
last byte is a word whose second byte is zero; only the last piece may end in
one, as headers consist of 32-bit words. `TypeOK` has the condition that ihl is
at least 2: `validate_ip_tcp` accepts 0 and 1, the port is then written into
the first eight bytes, where ihl and the total length are, and the TCP checksum
goes by other lengths than those that were validated.

**The client.** `SetupProgress` gives for each place of `setup_tun` the parts
that are done and the descriptors that are open, and ties `tunfd` to them,
since `main` goes on without looking at what `setup_tun` returned. One thing a
failed set-up does leave open, the control socket of `do_chflags`
(`ip_command.c:35`, `:44`); `SetupAllOrNothing` says that it is open only until
the first read of `main`, which fails and ends the client. For
`RelayInOrder` each step is compared with the pipe of either direction: the
packet in the buffer, if it is due to go that way, followed by the queue.

Only model-checked is liveness, which is beyond the prover: `CleanTerminates`,
`TunServed`, `UdpServed`, `FrameServed`, `RequestAnswered`. Every invariant and
every action property of a passing run is also a theorem.

## Not modelled

* The trial programs (not built, and written against function signatures the
  headers no longer have), `POC/` (stand-alone experiments), printing, and the
  contents of netlink messages.
* More than one VPN client at a time: `server/main.c:152` assumes one.
* Frames without any byte, which Ethernet does not carry.
* Packets with ihl 0 or 1 in the run of `ProtocolHeaders`: the address that is
  written then overlaps the TCP header it is measured by; the buffer of the
  server is large enough for any such header.
* The seconds themselves: handlers read the clock once or twice within a step,
  which is short against the ten seconds of a session.

The server never calls `clean_expired_session`: a session ends ten seconds
after its first SYN, and from then on its endpoint is refused and its port
stays taken; after 1001 endpoints every new one is refused. The reset packets
the handlers prepare are not sent.

## Plan

Done: the modules above, the refinement of `NatTable`, the composition
`VpnSystem` and the theorems listed under Proofs. What could follow:

1. A second VPN client, once the server keeps an address per session
   (`server/main.c:152` has one for all).
2. The second connection of an endpoint through the session of its first, once
   something reads the tracked states.
3. `clean_expired_session` in the server's loop, once `main` calls it:
   `AllListed` and `Sequential` then have to give way to `InStep`.
