-------------------------------- MODULE RealIP --------------------------------
(***************************************************************************)
(* The effective client of a request, internal/httpmw/realip.go.           *)
(*                                                                         *)
(* A request reaches the server from its TCP peer and carries the values   *)
(* of its X-Forwarded-For headers, each a sequence of entries.  An entry   *)
(* is an address, or something that does not parse as one: empty, or       *)
(* malformed.                                                              *)
(***************************************************************************)
EXTENDS Naturals, Sequences

CONSTANTS
    Clients,    \* addresses outside the trusted networks
    Proxies,    \* addresses inside them
    Malformed,  \* an entry that is no address
    Empty       \* an entry of blanks

ASSUME AddressAssumption ==
    /\ Clients \cap Proxies = {}
    /\ {Malformed, Empty} \cap (Clients \cup Proxies) = {}

Addresses == Clients \cup Proxies

\* TrustedProxySet.contains
contains(ip) == ip \in Proxies

Entries == Addresses \cup {Malformed, Empty}

\* An entry is found by the value it is in and its place there.
Places(xff) == UNION {{i} \X DOMAIN xff[i] : i \in DOMAIN xff}

After(p, q) == p[1] > q[1] \/ (p[1] = q[1] /\ p[2] > q[2])

\* The entries that are not passed over: empty, malformed and trusted ones are.
Untrusted(xff) ==
    {p \in Places(xff) : xff[p[1]][p[2]] \in Addresses /\ ~contains(xff[p[1]][p[2]])}

\* Faulty variant: the hop named first is taken for the client.
FirstHop(peer, xff) ==
    LET left == Untrusted(xff)
        p == CHOOSE p \in left : \A q \in left : ~After(p, q)
    IN  IF left = {} THEN peer ELSE xff[p[1]][p[2]]

\* The walk from the right, value by value: the first entry left is the client,
\* and the peer if none is.
LastHop(peer, xff) ==
    LET left == Untrusted(xff)
        p == CHOOSE p \in left : \A q \in left : ~After(q, p)
    IN  IF left = {} THEN peer ELSE xff[p[1]][p[2]]

\* resolveClientIP: the header is believed only if the peer is a proxy.
resolveClientIP(r) ==
    IF contains(r.peer) THEN LastHop(r.peer, r.xff) ELSE r.peer
-----------------------------------------------------------------------------
(* How requests come to be: the client writes any header it likes, and each *)
(* proxy on the way notes whom it got the request from, at the end of the   *)
(* last value or in a value of its own.                                     *)

\* A hop is the proxy that forwards and whether it adds a value of its own.
Hops == [by : Proxies, own : BOOLEAN]

Forward(r, hop) ==
    [peer |-> hop.by,
     xff  |-> IF hop.own \/ r.xff = <<>> THEN Append(r.xff, <<r.peer>>)
              ELSE [r.xff EXCEPT ![Len(r.xff)] = Append(@, r.peer)]]

\* The request as it leaves the client and after each hop.
Trip(client, written, route) ==
    LET trip[k \in 0..Len(route)] ==
            IF k = 0 THEN [peer |-> client, xff |-> written] ELSE Forward(trip[k - 1], route[k])
    IN  trip

Forwarded(client, written, route) == Trip(client, written, route)[Len(route)]
=============================================================================
