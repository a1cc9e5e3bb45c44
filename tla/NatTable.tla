------------------------------ MODULE NatTable ------------------------------
(***************************************************************************)
(* What the session table promises its callers: a set of bindings of one   *)
(* client endpoint to one server port each, that can be looked up from     *)
(* either side until they expire.  There are no lists, no hashing, no      *)
(* search for a port and no clean-up here: SessionTable has all that and   *)
(* is shown to implement this specification.                               *)
(***************************************************************************)
EXTENDS Naturals

CONSTANTS
    Endpoints,    \* the client endpoints
    Ports,        \* the server ports
    Timeouts      \* how long a binding may last

VARIABLES
    by_client,    \* the bindings a lookup by client endpoint finds
    by_server,    \* the bindings a lookup by server port finds
    clock

vars == <<by_client, by_server, clock>>

Live(bindings, time) == {b \in bindings : ~ time > b.expire}

Init == by_client = {} /\ by_server = {} /\ clock = 0

\* A binding shares its endpoint and its port with no other one, and is found
\* from both sides at once.
Bind(ep, port, timeout) ==
    /\ \A b \in by_client : b.client # ep
    /\ \A b \in by_server : b.server_port # port
    /\ LET b == [client |-> ep, server_port |-> port, expire |-> clock + timeout]
       IN  by_client' = by_client \cup {b} /\ by_server' = by_server \cup {b}
    /\ UNCHANGED clock

\* Time alone ends a binding, on both sides at once.
Tick ==
    /\ clock' = clock + 1
    /\ by_client' = Live(by_client, clock')
    /\ by_server' = Live(by_server, clock')

\* The table is deleted.
Clear == by_client' = {} /\ by_server' = {} /\ UNCHANGED clock

Next ==
    \/ \E ep \in Endpoints, port \in Ports, t \in Timeouts : Bind(ep, port, t)
    \/ Tick
    \/ Clear

Spec == Init /\ [][Next]_vars

=============================================================================
