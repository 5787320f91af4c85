--------------------------- MODULE RateLimiterProofs ---------------------------
(***************************************************************************)
(* For any number of clients and workers, any header a client writes and   *)
(* any route, any rates, bursts, caps and delays: a request is keyed by    *)
(* the client it came from, the map stays within its cap, idle entries go  *)
(* in time, and a client that the cap spares has one bucket in effect.     *)
(*                                                                         *)
(* That the walk over the header finds the client is an induction over the *)
(* hops of its route.  The cap needs nothing else: the bound and the map   *)
(* being finite are inductive together.  The rest is one inductive         *)
(* invariant, IInv: types; that requests and buckets are those of one      *)
(* client (Named); the janitor's clock (Sweeps); and that a spared         *)
(* client's bucket holds what it is owed, is the one all its requests      *)
(* hold, and has been filling since the last of them (Held).               *)
(***************************************************************************)
EXTENDS RateLimiter, FiniteSetTheorems, SequenceTheorems, WellFoundedInduction, TLAPS
-----------------------------------------------------------------------------
(* The client of a request (RealIP)                                        *)

\* The order of the naturals, as the well-founded relation that induction needs.
Below == {pair \in Nat \X Nat : pair[1] < pair[2]}

\* Induction over the naturals, for a set of them.
LEMMA Induction ==
    ASSUME NEW S \in SUBSET Nat, 0 \in S, \A n \in S : n + 1 \in S
    PROVE  S = Nat
<1> SUFFICES ASSUME Nat \ S # {} PROVE FALSE
  OBVIOUS
<1>1. IsWellFoundedOn(Below, Nat)
  BY NatLessThanWellFounded DEF OpToRel, Below
<1>2. PICK least \in Nat \ S : \A n \in Nat \ S : ~(<<n, least>> \in Below)
  BY <1>1, WFMin
<1>3. least \in Nat /\ least # 0 /\ least - 1 \in Nat /\ least - 1 < least /\ (least - 1) + 1 = least
  BY <1>2
<1>4. <<least - 1, least>> \in Below
  BY <1>3 DEF Below
<1>5. least - 1 \in S
  BY <1>2, <1>3, <1>4
<1> QED
  BY <1>2, <1>3, <1>5

\* The request after every hop is what that hop made of the one before.
LEMMA TripByHops ==
    ASSUME NEW client, NEW written, NEW route \in Seq(Hops)
    PROVE  LET trip == Trip(client, written, route)
           IN  /\ trip[0] = [peer |-> client, xff |-> written]
               /\ \A k \in 1..Len(route) : trip[k] = Forward(trip[k - 1], route[k])
<1> DEFINE step(r, k) == Forward(r, route[k])
           start == [peer |-> client, xff |-> written]
           IsTrip(t, n) == t = [k \in 0..n |-> IF k = 0 THEN start ELSE step(t[k - 1], k)]
<1>1. ASSUME NEW n \in Nat PROVE \E t : IsTrip(t, n)
  <2> DEFINE S == {m \in Nat : \E t : IsTrip(t, m)}
  <2>1. 0 \in S
    <3>1. IsTrip([k \in 0..0 |-> start], 0)
      OBVIOUS
    <3> QED
      BY <3>1
  <2>2. ASSUME NEW m \in S PROVE m + 1 \in S
    <3>1. PICK t : IsTrip(t, m)
      BY <2>2
    <3> DEFINE u == [k \in 0..(m + 1) |-> IF k <= m THEN t[k] ELSE step(t[m], m + 1)]
    <3>2. IsTrip(u, m + 1)
      <4> HIDE DEF step, start
      <4> QED BY <3>1
    <3>3. \E v : IsTrip(v, m + 1)
      <4> HIDE DEF IsTrip, u
      <4> QED BY <3>2
    <3> HIDE DEF IsTrip
    <3> QED
      BY <3>3
  <2>3. S = Nat
    <3> HIDE DEF S
    <3>1. S \in SUBSET Nat BY DEF S
    <3> QED
    BY <2>1, <2>2, <3>1, Induction
  <2> QED
    BY <2>3
<1>2. Len(route) \in Nat
  OBVIOUS
<1>3. IsTrip(Trip(client, written, route), Len(route))
  BY <1>1, <1>2 DEF Trip
<1> QED
  BY <1>2, <1>3

\* What a hop adds is one entry, the peer, after all the others.
LEMMA AddsLast ==
    ASSUME NEW r, r.xff \in Seq(Seq(Entries)), r.peer \in Addresses, NEW hop \in Hops
    PROVE  LET xff == Forward(r, hop).xff
           IN  /\ xff \in Seq(Seq(Entries))
               /\ \E new \in Places(xff) :
                     /\ xff[new[1]][new[2]] = r.peer
                     /\ \A p \in Places(r.xff) : ~After(p, new)
                     /\ Places(xff) = Places(r.xff) \cup {new}
               /\ \A p \in Places(r.xff) : xff[p[1]][p[2]] = r.xff[p[1]][p[2]]
<1> DEFINE old == r.xff
           xff == Forward(r, hop).xff
<1>0. r.peer \in Entries /\ Len(old) \in Nat /\ DOMAIN old = 1..Len(old)
  BY DEF Entries
<1>1. CASE hop.own \/ old = <<>>
  <2>1. xff = Append(old, <<r.peer>>)
    BY <1>1 DEF Forward
  <2>2. <<r.peer>> \in Seq(Entries) /\ DOMAIN <<r.peer>> = {1}
    BY <1>0
  <2>3. /\ xff \in Seq(Seq(Entries)) /\ DOMAIN xff = 1..(Len(old) + 1)
        /\ \A i \in 1..Len(old) : xff[i] = old[i]
        /\ xff[Len(old) + 1] = <<r.peer>>
    BY <1>0, <2>1, <2>2
  <2> HIDE DEF xff, old
  <2> DEFINE new == <<Len(old) + 1, 1>>
  <2>4. /\ new \in Places(xff) /\ xff[new[1]][new[2]] = r.peer
        /\ Places(xff) = Places(old) \cup {new}
    BY <1>0, <2>2, <2>3 DEF Places
  <2>5. ASSUME NEW p \in Places(old) PROVE ~After(p, new) /\ xff[p[1]][p[2]] = old[p[1]][p[2]]
    BY <1>0, <2>3 DEF Places, After
  <2> QED
    BY <2>3, <2>4, <2>5 DEF xff, old
<1>2. CASE ~(hop.own \/ old = <<>>)
  <2> DEFINE n == Len(old)
  <2>1. n \in DOMAIN old /\ old[n] \in Seq(Entries)
    BY <1>0, <1>2
  <2>2. xff = [old EXCEPT ![n] = Append(old[n], r.peer)]
    BY <1>2 DEF Forward
  <2>3. /\ Append(old[n], r.peer) \in Seq(Entries)
        /\ DOMAIN old[n] = 1..Len(old[n]) /\ Len(old[n]) \in Nat
        /\ DOMAIN Append(old[n], r.peer) = 1..(Len(old[n]) + 1)
        /\ \A j \in 1..Len(old[n]) : Append(old[n], r.peer)[j] = old[n][j]
        /\ Append(old[n], r.peer)[Len(old[n]) + 1] = r.peer
    BY <1>0, <2>1
  <2>4. /\ xff \in Seq(Seq(Entries)) /\ DOMAIN xff = 1..n
        /\ \A i \in 1..n : i # n => xff[i] = old[i]
        /\ xff[n] = Append(old[n], r.peer)
    BY <1>0, <2>1, <2>2, <2>3
  <2> DEFINE new == <<n, Len(old[n]) + 1>>
  <2> HIDE DEF xff, old
  <2>5. /\ DOMAIN xff[n] = DOMAIN old[n] \cup {Len(old[n]) + 1}
        /\ \A i \in DOMAIN old : i # n => DOMAIN xff[i] = DOMAIN old[i]
        /\ n \in Nat /\ \A i \in DOMAIN old : i \in Nat /\ i <= n
    <3>1. xff[n] = Append(old[n], r.peer)
      BY <2>4
    <3>2. 1..(Len(old[n]) + 1) = 1..Len(old[n]) \cup {Len(old[n]) + 1}
      BY <2>3
    <3>3. DOMAIN xff[n] = DOMAIN old[n] \cup {Len(old[n]) + 1}
      BY <2>3, <3>1, <3>2
    <3>4. ASSUME NEW i \in DOMAIN old, i # n PROVE xff[i] = old[i]
      BY <1>0, <2>4, <3>4
    <3> QED
      BY <1>0, <3>3, <3>4
  <2>6. xff[new[1]][new[2]] = r.peer /\ DOMAIN xff = DOMAIN old
    BY <1>0, <2>1, <2>3, <2>4
  <2> HIDE DEF n
  <2>7. Places(xff) = Places(old) \cup {new}
    <3>1. Places(xff) \subseteq Places(old) \cup {new}
      BY <2>1, <2>5, <2>6 DEF Places
    <3>2. Places(old) \cup {new} \subseteq Places(xff)
      BY <2>1, <2>5, <2>6 DEF Places
    <3> QED
      BY <3>1, <3>2
  <2>8. ASSUME NEW p \in Places(old) PROVE ~After(p, new) /\ xff[p[1]][p[2]] = old[p[1]][p[2]]
    <3>1. p[1] \in DOMAIN old /\ p[2] \in DOMAIN old[p[1]]
      BY DEF Places
    <3>2. p[1] = n => p[2] \in 1..Len(old[n])
      BY <2>3, <3>1
    <3>3. ~After(p, new)
      BY <2>3, <2>5, <3>1, <3>2 DEF After
    <3>4. xff[p[1]][p[2]] = old[p[1]][p[2]]
      <4>1. CASE p[1] = n
        BY <2>3, <2>4, <3>2, <4>1
      <4>2. CASE p[1] # n
        BY <1>0, <2>4, <3>1, <4>2 DEF n
      <4> QED
        BY <4>1, <4>2
    <3> QED
      BY <3>3, <3>4
  <2> QED
    BY <2>4, <2>6, <2>7, <2>8 DEF xff, old
<1> QED
  BY <1>1, <1>2

\* Either the request still comes from the client itself, or proxies sent it on
\* and the client is the last entry in it that no proxy made of another proxy.
Honest(client, r) ==
    /\ r.xff \in Seq(Seq(Entries))
    /\ \/ r.peer = client
       \/ /\ r.peer \in Proxies
          /\ \E p \in Untrusted(r.xff) : /\ r.xff[p[1]][p[2]] = client
                                         /\ \A q \in Untrusted(r.xff) : ~After(q, p)

LEMMA ForwardHonest ==
    ASSUME NEW client \in Clients, NEW r, Honest(client, r), NEW hop \in Hops
    PROVE  Honest(client, Forward(r, hop))
<1> DEFINE xff == Forward(r, hop).xff
<1>1. r.peer \in Addresses /\ Forward(r, hop).peer \in Proxies
  BY DEF Honest, Addresses, Forward, Hops
<1>2. /\ xff \in Seq(Seq(Entries))
      /\ \A p \in Places(r.xff) : xff[p[1]][p[2]] = r.xff[p[1]][p[2]]
  BY <1>1, AddsLast DEF Honest
<1>3. PICK new \in Places(xff) : /\ xff[new[1]][new[2]] = r.peer
                                 /\ \A p \in Places(r.xff) : ~After(p, new)
                                 /\ Places(xff) = Places(r.xff) \cup {new}
  BY <1>1, AddsLast DEF Honest
<1> HIDE DEF xff
<1>4. CASE r.peer = client
  <2>1. new \in Untrusted(xff)
    BY <1>1, <1>3, <1>4, AddressAssumption DEF Untrusted, contains
  <2>2. ASSUME NEW q \in Untrusted(xff) PROVE ~After(q, new)
    <3>1. new[1] \in Nat /\ new[2] \in Nat
      BY <1>2, <1>3 DEF Places
    <3> QED
      BY <1>3, <3>1 DEF Untrusted, After
  <2> QED
    BY <1>1, <1>2, <1>3, <1>4, <2>1, <2>2 DEF Honest, xff
<1>5. CASE r.peer \in Proxies
  <2>1. Untrusted(xff) = Untrusted(r.xff)
    BY <1>2, <1>3, <1>5 DEF Untrusted, contains
  <2>2. r.peer # client
    BY <1>5, AddressAssumption
  <2>3. PICK p \in Untrusted(r.xff) : /\ r.xff[p[1]][p[2]] = client
                                      /\ \A q \in Untrusted(r.xff) : ~After(q, p)
    BY <2>2 DEF Honest
  <2>4. xff[p[1]][p[2]] = client
    BY <1>2, <2>3 DEF Untrusted
  <2> QED
    BY <1>1, <1>2, <2>1, <2>3, <2>4 DEF Honest, xff
<1> QED
  BY <1>4, <1>5 DEF Honest

\* The walk from the right ends at the client the request came from.
LEMMA HonestResolves ==
    ASSUME NEW client \in Clients, NEW r, Honest(client, r)
    PROVE  resolveClientIP(r) = client
<1>1. CASE r.peer = client
  BY <1>1, AddressAssumption DEF resolveClientIP, contains
<1>2. CASE r.peer # client
  <2> DEFINE left == Untrusted(r.xff)
             last == CHOOSE p \in left : \A q \in left : ~After(q, p)
  <2>1. PICK p \in left : r.xff[p[1]][p[2]] = client /\ \A q \in left : ~After(q, p)
    BY <1>2 DEF Honest
  <2>2. last \in left /\ \A q \in left : ~After(q, last)
    BY <2>1
  <2>3. last = p
    <3>1. ASSUME NEW q \in left PROVE q = <<q[1], q[2]>> /\ q[1] \in Nat /\ q[2] \in Nat
      BY DEF Honest, Untrusted, Places
    <3> HIDE DEF left, last
    <3>2. ~After(last, p) /\ ~After(p, last)
      BY <2>1, <2>2
    <3>3. /\ last = <<last[1], last[2]>> /\ last[1] \in Nat /\ last[2] \in Nat
          /\ p = <<p[1], p[2]>> /\ p[1] \in Nat /\ p[2] \in Nat
      BY <2>1, <2>2, <3>1
    <3>4. last[1] = p[1] /\ last[2] = p[2]
      BY <3>2, <3>3 DEF After
    <3> QED
      BY <3>3, <3>4
  <2>4. contains(r.peer) /\ left # {}
    BY <1>2, <2>1 DEF Honest, contains
  <2>5. LastHop(r.peer, r.xff) = r.xff[last[1]][last[2]]
    BY <2>4 DEF LastHop
  <2> HIDE DEF last
  <2> QED
    BY <2>1, <2>3, <2>4, <2>5 DEF resolveClientIP
<1> QED
  BY <1>1, <1>2

\* Whatever the client wrote and however many proxies the request passed.
LEMMA ResolvesToOrigin ==
    ASSUME NEW client \in Clients, NEW written \in Seq(Seq(Entries)), NEW route \in Seq(Hops)
    PROVE  resolveClientIP(Forwarded(client, written, route)) = client
<1> DEFINE trip == Trip(client, written, route)
           S == {k \in Nat : k <= Len(route) => Honest(client, trip[k])}
<1>0. Len(route) \in Nat /\ \A k \in 1..Len(route) : route[k] \in Hops
  OBVIOUS
<1>1. /\ trip[0] = [peer |-> client, xff |-> written]
      /\ \A k \in 1..Len(route) : trip[k] = Forward(trip[k - 1], route[k])
  BY TripByHops
<1> HIDE DEF trip
<1>2. 0 \in S
  BY <1>1 DEF Honest
<1>3. ASSUME NEW k \in S PROVE k + 1 \in S
  <2> SUFFICES ASSUME k + 1 <= Len(route) PROVE Honest(client, trip[k + 1])
    OBVIOUS
  <2>1. Honest(client, trip[k]) /\ k + 1 \in 1..Len(route) /\ (k + 1) - 1 = k
    BY <1>0
  <2>2. trip[k + 1] = Forward(trip[k], route[k + 1])
    BY <1>1, <2>1
  <2> QED
    BY <1>0, <2>1, <2>2, ForwardHonest
<1>4. S = Nat
  <2> HIDE DEF S
  <2>1. S \in SUBSET Nat
    BY DEF S
  <2> QED
    BY <1>2, <1>3, <2>1, Induction
<1>5. Honest(client, trip[Len(route)])
  BY <1>0, <1>4
<1> QED
  BY <1>5, HonestResolves DEF Forwarded, trip
-----------------------------------------------------------------------------
(* The cap                                                                 *)

\* The map is finite and within the cap.
Bounded ==
    /\ IsFiniteSet(DOMAIN data)
    /\ WithinCap

\* What is left of a function that is restricted is indexed by less.
LEMMA DomainOfRestriction ==
    ASSUME NEW f, NEW S
    PROVE  DOMAIN Restrict(f, S) = S
BY DEF Restrict

\* A set that loses elements stays finite and within a bound.
LEMMA SubsetWithin ==
    ASSUME NEW S, IsFiniteSet(S), Cardinality(S) <= HardCap, NEW T \in SUBSET S
    PROVE  IsFiniteSet(T) /\ Cardinality(T) <= HardCap
<1>1. IsFiniteSet(T) /\ Cardinality(T) <= Cardinality(S)
  BY FS_Subset
<1>2. Cardinality(T) \in Nat /\ Cardinality(S) \in Nat
  BY <1>1, FS_CardinalityType
<1> QED
  BY <1>1, <1>2, LimitsAssumption

\* The insertion of limiterFor: an entry that is there, or one for another.
LEMMA Insertion ==
    ASSUME NEW w, Bounded,
           NEW gone \in IF req[w].client \notin DOMAIN data THEN Victims(data) ELSE {{}}
    PROVE  LET S == (DOMAIN data \ gone) \cup {req[w].client}
           IN  IsFiniteSet(S) /\ Cardinality(S) <= HardCap
<1> DEFINE c == req[w].client
<1> USE DEF Bounded, WithinCap
<1>0. HardCap \in Nat \ {0} /\ Cardinality(DOMAIN data) \in Nat
  BY LimitsAssumption, FS_CardinalityType
<1>1. CASE c \in DOMAIN data
  <2>1. (DOMAIN data \ gone) \cup {c} = DOMAIN data
    BY <1>1
  <2> QED
    BY <2>1
<1>2. CASE c \notin DOMAIN data /\ Cardinality(DOMAIN data) < HardCap
  <2>1. gone = {}
    BY <1>2 DEF Victims
  <2>2. /\ IsFiniteSet(DOMAIN data \cup {c})
        /\ Cardinality(DOMAIN data \cup {c}) = Cardinality(DOMAIN data) + 1
    BY <1>2, FS_AddElement
  <2>3. (DOMAIN data \ gone) \cup {c} = DOMAIN data \cup {c}
    BY <2>1
  <2> QED
    BY <1>0, <1>2, <2>2, <2>3
<1>3. CASE c \notin DOMAIN data /\ ~(Cardinality(DOMAIN data) < HardCap)
  <2>1. PICK o \in DOMAIN data : gone = {o}
    BY <1>3 DEF Victims
  <2>2. /\ IsFiniteSet(DOMAIN data \ {o})
        /\ Cardinality(DOMAIN data \ {o}) = Cardinality(DOMAIN data) - 1
    BY <2>1, FS_RemoveElement
  <2>3. c \notin DOMAIN data \ {o}
    BY <1>3
  <2>4. /\ IsFiniteSet((DOMAIN data \ {o}) \cup {c})
        /\ Cardinality((DOMAIN data \ {o}) \cup {c}) = Cardinality(DOMAIN data \ {o}) + 1
    BY <2>2, <2>3, FS_AddElement
  <2>5. (DOMAIN data \ gone) \cup {c} = (DOMAIN data \ {o}) \cup {c}
    BY <2>1
  <2>6. Cardinality((DOMAIN data \ {o}) \cup {c}) <= HardCap
    BY <1>0, <2>2, <2>4 DEF Bounded, WithinCap
  <2> QED
    BY <2>4, <2>5, <2>6
<1> QED
  BY <1>1, <1>2, <1>3

\* The map is empty at first and every step keeps it within the cap.
LEMMA BoundedInductive ==
    /\ Init => Bounded
    /\ Bounded /\ [Next]_vars => Bounded'
<1>1. Init => Bounded
  <2>1. DOMAIN << >> = {}
    OBVIOUS
  <2> QED
    BY <2>1, FS_EmptySet, LimitsAssumption DEF Init, Bounded, WithinCap
<1>2. ASSUME Bounded, [Next]_vars PROVE Bounded'
  <2>1. ASSUME NEW w \in Workers, LimiterFor(w) PROVE Bounded'
    <3>1. PICK gone \in IF req[w].client \notin DOMAIN data THEN Victims(data) ELSE {{}} :
            DOMAIN data' = DOMAIN Restrict(data, DOMAIN data \ gone) \cup {req[w].client}
      BY <2>1 DEF LimiterFor
    <3>2. DOMAIN data' = (DOMAIN data \ gone) \cup {req[w].client}
      BY <3>1, DomainOfRestriction
    <3> QED
      BY <1>2, <3>2, Insertion DEF Bounded, WithinCap
  <2>2. ASSUME EvictIdle PROVE Bounded'
    <3>1. DOMAIN data' = DOMAIN data \ Stale(swept)
      BY <2>2, DomainOfRestriction DEF EvictIdle
    <3> QED
      BY <1>2, <3>1, SubsetWithin DEF Bounded, WithinCap
  <2>3. ASSUME UNCHANGED data PROVE Bounded'
    BY <1>2, <2>3 DEF Bounded, WithinCap
  <2>4. ASSUME NEW w \in Workers, Receive(w) \/ Allow(w) PROVE UNCHANGED data
    BY <2>4 DEF Receive, Allow
  <2>5. ASSUME JanitorTick \/ JanitorStop \/ Stop \/ Tick PROVE UNCHANGED data
    BY <2>5 DEF JanitorTick, JanitorStop, Stop, Tick
  <2> QED
    BY <1>2, <2>1, <2>2, <2>3, <2>4, <2>5 DEF Next, Janitor, vars
<1> QED
  BY <1>1, <1>2

\* The map of the limiter never holds more than rateLimitHardCap clients,
\* whatever the order of insertions, janitor runs and Stop (ratelimit.go:170-205).
THEOREM WithinCapHolds == Spec => []WithinCap
<1>1. Bounded => WithinCap
  BY DEF Bounded
<1> QED
  BY <1>1, BoundedInductive, PTL DEF Spec
-----------------------------------------------------------------------------
(* Types, names and what the workers do                                    *)

Names == Clients \X Nat

Request == [pc : {"idle", "limiterFor", "allow"}, client : Clients \cup {None},
            origin : Clients \cup {None}, now : Nat, bucket : Names \cup {None}]

Typed ==
    /\ clock \in 0..MaxClock /\ swept \in 0..clock
    /\ rps \in Rates /\ burst \in Nat
    /\ DOMAIN data \subseteq Clients
    /\ data \in [DOMAIN data -> [bucket : Names, lastSeen : 0..clock]]
    /\ req \in [Workers -> Request]
    /\ \A w \in Workers : req[w].now <= clock
    /\ tokens \in [InUse(data, req) -> 0..burst]
    /\ stopCh \in {"open", "closed"}
    /\ janitor \in {"select", "evict", "stopped"}
    /\ displaced \subseteq Clients
    /\ owed \in [Clients -> Int]

\* A request is that of the client it came from and no older than MaxDelay, and
\* a bucket is its client's.
Named ==
    /\ KeyedByOrigin
    /\ \A c \in DOMAIN data : data[c].bucket[1] = c
    /\ \A w \in Workers :
         /\ req[w].pc # "idle" => req[w].client \in Clients /\ clock <= req[w].now + MaxDelay
         /\ req[w].pc = "allow" => req[w].bucket \in Names /\ req[w].bucket[1] = req[w].client

LEMMA InitTyped == Init => Typed /\ Named
<1> SUFFICES ASSUME Init PROVE Typed /\ Named
  OBVIOUS
<1> USE DEF Init
<1>1. DOMAIN data = {} /\ data = [x \in {} |-> x] /\ tokens = [x \in {} |-> x]
  OBVIOUS
<1>2. InUse(data, req) = {}
  BY <1>1 DEF InUse, Idle
<1>3. burst \in Nat /\ rps \in Nat
  BY LimitsAssumption
<1>4. Idle \in Request
  BY DEF Idle, Request
<1>5. Typed
  <2>1. clock \in 0..MaxClock /\ swept \in 0..clock
    BY LimitsAssumption
  <2>2. data \in [DOMAIN data -> [bucket : Names, lastSeen : 0..clock]]
    BY <1>1
  <2>3. tokens \in [InUse(data, req) -> 0..burst]
    BY <1>1, <1>2
  <2>4. req \in [Workers -> Request] /\ \A w \in Workers : req[w].now <= clock
    BY <1>4 DEF Idle
  <2>5. owed \in [Clients -> Int]
    BY <1>3
  <2> QED
    BY <1>1, <1>3, <2>1, <2>2, <2>3, <2>4, <2>5 DEF Typed
<1>6. Named
  BY <1>1 DEF Named, KeyedByOrigin, Idle
<1> QED
  BY <1>5, <1>6

\* A client without an entry finds a name that no request uses.
LEMMA FreshName ==
    ASSUME Typed, Named, NEW c \in Clients, c \notin DOMAIN data
    PROVE  FreshBucket(c) \in {c} \X Nat /\ FreshBucket(c) \notin InUse(data, req)
<1> DEFINE N == Cardinality(Workers)
           names == {<<c, n>> : n \in 0..N}
<1>1. IsFiniteSet(Workers) /\ N \in Nat
  BY WireAssumption, FS_CardinalityType
<1>2. \E b \in names : b \notin InUse(data, req)
  <2> SUFFICES ASSUME \A b \in names : b \in InUse(data, req) PROVE FALSE
    OBVIOUS
  <2>1. ASSUME NEW n \in 0..N PROVE \E w \in Workers : req[w].bucket = <<c, n>>
    <3>1. <<c, n>> \in InUse(data, req)
      OBVIOUS
    <3>2. \A d \in DOMAIN data : data[d].bucket # <<c, n>>
      BY DEF Named
    <3> QED
      BY <3>1, <3>2 DEF InUse
  <2> DEFINE holder == [n \in 0..N |-> CHOOSE w \in Workers : req[w].bucket = <<c, n>>]
  <2>2. \A n \in 0..N : holder[n] \in Workers /\ req[holder[n]].bucket = <<c, n>>
    BY <2>1
  <2>3. holder \in [0..N -> Workers]
    BY <2>2
  <2>4. IsFiniteSet(0..N) /\ Cardinality(0..N) = N + 1
    BY <1>1, FS_Interval
  <2> HIDE DEF holder
  <2>5. \E x, y \in 0..N : x # y /\ holder[x] = holder[y]
    BY <1>1, <2>3, <2>4, FS_PigeonHole
  <2> QED
    BY <2>2, <2>5
<1>3. FreshBucket(c) \in names /\ FreshBucket(c) \notin InUse(data, req)
  BY <1>2 DEF FreshBucket
<1> QED
  BY <1>1, <1>3

\* What limiterFor does: the entry it makes or renews, the clients it evicts,
\* and the buckets that are in use then.
Inserts(w, gone, id) ==
    LET c == req[w].client
        new == c \notin DOMAIN data
    IN  /\ gone \subseteq DOMAIN data /\ c \in Clients /\ c \notin gone
        /\ id \in Names /\ id[1] = c
        /\ ~new => gone = {} /\ id = data[c].bucket
        /\ DOMAIN data' = (DOMAIN data \ gone) \cup {c}
        /\ data' \in [DOMAIN data' -> {data'[e] : e \in DOMAIN data'}]
        /\ data'[c] = [bucket |-> id, lastSeen |-> req[w].now]
        /\ \A e \in DOMAIN data \ gone : e # c => data'[e] = data[e]
        /\ req' = [req EXCEPT ![w] = [req[w] EXCEPT !.pc = "allow", !.bucket = id]]
        /\ InUse(data', req') \subseteq InUse(data, req) \cup {id}
        /\ tokens' = [i \in InUse(data', req') |-> IF new /\ i = id THEN burst ELSE tokens[i]]
        /\ displaced' = displaced \cup gone
        /\ owed' = [o \in Clients |-> IF o \in gone THEN burst ELSE owed[o]]
        /\ req[w].pc = "limiterFor"
        /\ UNCHANGED <<clock, limiterVars>>

LEMMA LimiterForDoes ==
    ASSUME Typed, Named, NEW w \in Workers, LimiterFor(w)
    PROVE  \E gone, id : Inserts(w, gone, id)
<1> DEFINE c == req[w].client
           new == c \notin DOMAIN data
           id == IF new THEN FreshBucket(c) ELSE data[c].bucket
<1>1. req[w].pc = "limiterFor" /\ c \in Clients
  BY DEF LimiterFor, Named
<1>2. PICK gone \in IF new THEN Victims(data) ELSE {{}} :
        LET kept == Restrict(data, DOMAIN data \ gone)
        IN  /\ data' = [e \in DOMAIN kept \cup {c} |->
                          IF e = c THEN [bucket |-> id, lastSeen |-> req[w].now] ELSE kept[e]]
            /\ req' = [req EXCEPT ![w].pc = "allow", ![w].bucket = id]
            /\ tokens' = [i \in InUse(data', req') |-> IF new /\ i = id THEN burst ELSE tokens[i]]
            /\ displaced' = displaced \cup gone
            /\ owed' = [o \in Clients |-> IF o \in gone THEN burst ELSE owed[o]]
  BY DEF LimiterFor
<1>3. gone \subseteq DOMAIN data /\ c \notin gone /\ (~new => gone = {})
  BY <1>2 DEF Victims
<1>4. id \in Names /\ id[1] = c
  <2>1. CASE new
    BY <1>1, <2>1, FreshName DEF Names
  <2>2. CASE ~new
    BY <1>1, <2>2 DEF Typed, Named
  <2> QED
    BY <2>1, <2>2
<1>5. data' = [e \in (DOMAIN data \ gone) \cup {c} |->
                 IF e = c THEN [bucket |-> id, lastSeen |-> req[w].now] ELSE data[e]]
  BY <1>2 DEF Restrict
<1>6. req' = [req EXCEPT ![w] = [req[w] EXCEPT !.pc = "allow", !.bucket = id]]
  BY <1>2 DEF Typed
<1> HIDE DEF id
<1>7. InUse(data', req') \subseteq InUse(data, req) \cup {id}
  <2>1. ASSUME NEW e \in DOMAIN data' PROVE data'[e].bucket \in InUse(data, req) \cup {id}
    BY <1>5, <2>1 DEF InUse
  <2>2. ASSUME NEW v \in Workers, req'[v].pc = "allow"
        PROVE  req'[v].bucket \in InUse(data, req) \cup {id}
    <3>1. CASE v = w
      BY <1>6, <3>1 DEF Typed, Request
    <3>2. CASE v # w
      BY <1>6, <2>2, <3>2 DEF Typed, InUse
    <3> QED
      BY <3>1, <3>2
  <2> QED
    BY <2>1, <2>2 DEF InUse
<1>8. UNCHANGED <<clock, limiterVars>>
  BY DEF LimiterFor
<1>9. /\ DOMAIN data' = (DOMAIN data \ gone) \cup {c}
      /\ data' \in [DOMAIN data' -> {data'[e] : e \in DOMAIN data'}]
      /\ data'[c] = [bucket |-> id, lastSeen |-> req[w].now]
      /\ \A e \in DOMAIN data \ gone : e # c => data'[e] = data[e]
  BY <1>5
<1>10. ~new => id = data[c].bucket
  BY DEF id
<1>11. Inserts(w, gone, id)
  BY <1>1, <1>2, <1>3, <1>4, <1>6, <1>7, <1>8, <1>9, <1>10 DEF Inserts
<1> QED
  BY <1>11

\* The steps, those without a worker one by one.
LEMMA StepsOf ==
    ASSUME [Next]_vars
    PROVE  \/ \E w \in Workers : Receive(w) \/ LimiterFor(w) \/ Allow(w)
           \/ JanitorTick \/ EvictIdle \/ JanitorStop \/ Stop \/ Tick \/ UNCHANGED vars
BY DEF Next, Janitor

\* What a request becomes that arrives: its client is the one it comes from.
LEMMA ReceiveDoes ==
    ASSUME Typed, NEW w \in Workers, Receive(w)
    PROVE  /\ \E c \in Clients :
                req' = [req EXCEPT ![w] = [pc |-> "limiterFor", client |-> c, origin |-> c,
                                           now |-> clock, bucket |-> None]]
           /\ InUse(data', req') = InUse(data, req)
           /\ rps > 0 /\ req[w].pc = "idle"
           /\ UNCHANGED <<clock, data, tokens, owed, displaced, limiterVars>>
<1>1. PICK c \in Clients, h \in Written, route \in Routes :
        req' = [req EXCEPT ![w] = [pc |-> "limiterFor", origin |-> c, now |-> clock, bucket |-> None,
                                   client |-> resolveClientIP(Forwarded(c, h, route))]]
  BY DEF Receive
<1>2. h \in Seq(Seq(Entries)) /\ route \in Seq(Hops)
  BY WireAssumption
<1>3. resolveClientIP(Forwarded(c, h, route)) = c
  BY <1>2, ResolvesToOrigin
<1>4. req' = [req EXCEPT ![w] = [pc |-> "limiterFor", client |-> c, origin |-> c,
                                 now |-> clock, bucket |-> None]]
  BY <1>1, <1>3
<1>5. InUse(data', req') = InUse(data, req)
  <2>1. UNCHANGED data /\ req[w].pc = "idle"
    BY DEF Receive
  <2>2. ASSUME NEW v \in Workers PROVE /\ req'[v].pc = "allow" <=> req[v].pc = "allow"
                                       /\ req'[v].pc = "allow" => req'[v].bucket = req[v].bucket
    BY <1>4, <2>1 DEF Typed, Request
  <2> QED
    BY <2>1, <2>2 DEF InUse
<1> QED
  BY <1>4, <1>5 DEF Receive

\* What a request leaves behind that is let through or refused.
LEMMA AllowDoes ==
    ASSUME Typed, Named, NEW w \in Workers, Allow(w)
    PROVE  LET b == req[w].bucket
               c == req[w].client
           IN  /\ req[w].pc = "allow" /\ c \in Clients /\ b \in Names /\ b[1] = c
               /\ req' = [req EXCEPT ![w] = Idle]
               /\ InUse(data', req') \subseteq InUse(data, req)
               /\ tokens' = [i \in InUse(data', req') |->
                               IF i = b /\ tokens[i] > 0 THEN tokens[i] - 1 ELSE tokens[i]]
               /\ owed' = IF tokens[b] = 0 \/ c \in displaced THEN owed
                          ELSE [owed EXCEPT ![c] = IF @ < 1 THEN -1 ELSE @ - 1]
               /\ UNCHANGED <<clock, data, displaced, limiterVars>>
<1>1. req[w].pc = "allow" /\ req' = [req EXCEPT ![w] = Idle] /\ UNCHANGED data
  BY DEF Allow
<1>2. InUse(data', req') \subseteq InUse(data, req)
  <2>1. ASSUME NEW v \in Workers, req'[v].pc = "allow"
        PROVE  req[v].pc = "allow" /\ req'[v].bucket = req[v].bucket
    BY <1>1, <2>1 DEF Typed, Idle
  <2> QED
    BY <1>1, <2>1 DEF InUse
<1>3. req[w].origin = req[w].client
  BY DEF Named, KeyedByOrigin
<1> QED
  BY <1>1, <1>2, <1>3 DEF Allow, Named

LEMMA NextTyped == Typed /\ Named /\ [Next]_vars => Typed'
<1> SUFFICES ASSUME Typed, Named, [Next]_vars PROVE Typed'
  OBVIOUS
<1>0. /\ clock \in Nat /\ swept \in Nat /\ swept <= clock /\ clock <= MaxClock /\ MaxClock \in Nat
      /\ rps \in Nat /\ burst \in Nat
  BY LimitsAssumption DEF Typed
<1>1. ASSUME NEW w \in Workers, Receive(w) PROVE Typed'
  <2>1. PICK c \in Clients :
          req' = [req EXCEPT ![w] = [pc |-> "limiterFor", client |-> c, origin |-> c,
                                     now |-> clock, bucket |-> None]]
    BY <1>1, ReceiveDoes
  <2>2. req' \in [Workers -> Request] /\ \A v \in Workers : req'[v].now <= clock
    BY <1>0, <2>1 DEF Typed, Request
  <2>3. InUse(data', req') = InUse(data, req) /\ UNCHANGED <<clock, data, tokens, owed, displaced, limiterVars>>
    BY <1>1, ReceiveDoes
  <2> QED
    BY <2>2, <2>3 DEF Typed, limiterVars
<1>2. ASSUME NEW w \in Workers, LimiterFor(w) PROVE Typed'
  <2> DEFINE c == req[w].client
             new == c \notin DOMAIN data
  <2>1. PICK gone, id : Inserts(w, gone, id)
    BY <1>2, LimiterForDoes
  <2> USE <2>1 DEF Inserts
  <2>2. DOMAIN data' \subseteq Clients
    BY <2>1 DEF Typed
  <2>3. req[w].now \in 0..clock
    BY <1>0 DEF Typed, Request
  <2>4. ASSUME NEW e \in DOMAIN data' PROVE data'[e] \in [bucket : Names, lastSeen : 0..clock]
    <3>1. CASE e = c
      BY <2>1, <2>3, <3>1
    <3>2. CASE e # c
      BY <2>1, <3>2 DEF Typed
    <3> QED
      BY <3>1, <3>2
  <2>5. req' \in [Workers -> Request] /\ \A v \in Workers : req'[v].now <= clock
    <3> DEFINE r == [req[w] EXCEPT !.pc = "allow", !.bucket = id]
    <3>1. r \in Request /\ r.now = req[w].now
      <4>1. req[w] \in Request /\ id \in Names
        BY DEF Typed
      <4> HIDE <2>1
      <4> QED
        BY <4>1 DEF Request
    <3>2. req' = [req EXCEPT ![w] = r]
      OBVIOUS
    <3> HIDE DEF r
    <3> QED
      BY <1>0, <2>3, <3>1, <3>2 DEF Typed
  <2>6. tokens' \in [InUse(data', req') -> 0..burst]
    <3>1. ASSUME NEW i \in InUse(data', req'), ~(new /\ i = id) PROVE tokens[i] \in 0..burst
      <4>1. i \in InUse(data, req)
        <5>1. CASE i # id
          BY <5>1
        <5>2. CASE ~new
          BY <5>2 DEF InUse
        <5> QED
          BY <3>1, <5>1, <5>2
      <4> QED
        BY <4>1 DEF Typed
    <3>2. burst \in 0..burst
      BY <1>0
    <3>3. tokens' = [i \in InUse(data', req') |-> IF new /\ i = id THEN burst ELSE tokens[i]]
      OBVIOUS
    <3> HIDE <2>1
    <3> QED
      BY <3>1, <3>2, <3>3
  <2>7. owed' \in [Clients -> Int] /\ displaced' \subseteq Clients
    BY <1>0, <2>1 DEF Typed
  <2>8. data' \in [DOMAIN data' -> [bucket : Names, lastSeen : 0..clock]]
    BY <2>1, <2>4
  <2>9. UNCHANGED <<clock, limiterVars>>
    BY <2>1
  <2> QED
    BY <2>2, <2>5, <2>6, <2>7, <2>8, <2>9 DEF Typed, limiterVars
<1>3. ASSUME NEW w \in Workers, Allow(w) PROVE Typed'
  <2>1. Idle \in Request /\ Idle.now <= clock
    BY <1>0 DEF Idle, Request
  <2>2. req' \in [Workers -> Request] /\ \A v \in Workers : req'[v].now <= clock
    BY <1>3, <2>1, AllowDoes DEF Typed
  <2>3. tokens' \in [InUse(data', req') -> 0..burst]
    <3>1. ASSUME NEW i \in InUse(data', req') PROVE tokens[i] \in 0..burst
      BY <1>3, AllowDoes DEF Typed
    <3>2. tokens' = [i \in InUse(data', req') |->
                       IF i = req[w].bucket /\ tokens[i] > 0 THEN tokens[i] - 1 ELSE tokens[i]]
      BY <1>3, AllowDoes
    <3> QED
      BY <1>0, <3>1, <3>2
  <2>4. owed' \in [Clients -> Int]
    BY <1>3, AllowDoes DEF Typed
  <2>5. UNCHANGED <<clock, data, displaced, limiterVars>>
    BY <1>3, AllowDoes
  <2> QED
    BY <2>2, <2>3, <2>4, <2>5 DEF Typed, limiterVars
<1>4. CASE EvictIdle
  <2>1. /\ data' = [e \in DOMAIN data \ Stale(swept) |-> data[e]]
        /\ tokens' = [i \in InUse(data', req) |-> tokens[i]]
        /\ janitor' = "select"
        /\ UNCHANGED <<clock, rps, burst, req, stopCh, swept, owed, displaced>>
    BY <1>4 DEF EvictIdle, Restrict
  <2>2. InUse(data', req') \subseteq InUse(data, req)
    BY <2>1 DEF InUse
  <2>3. tokens' \in [InUse(data', req') -> 0..burst]
    BY <2>1, <2>2 DEF Typed
  <2>4. DOMAIN data' \subseteq Clients /\ data' \in [DOMAIN data' -> [bucket : Names, lastSeen : 0..clock]]
    BY <2>1 DEF Typed
  <2> QED
    BY <2>1, <2>3, <2>4 DEF Typed
<1>5. CASE JanitorTick \/ JanitorStop \/ Stop
  BY <1>0, <1>5 DEF JanitorTick, JanitorStop, Stop, Typed, limiterVars
<1>6. CASE Tick
  <2>1. /\ clock' = clock + 1 /\ clock < MaxClock
        /\ tokens' = [b \in DOMAIN tokens |-> Least(burst, tokens[b] + rps)]
        /\ UNCHANGED <<data, req, displaced, limiterVars>>
        /\ owed' = [c \in Clients |-> IF c \in displaced \/ owed[c] = -1 THEN owed[c]
                                     ELSE Least(burst, owed[c] + rps)]
    BY <1>6 DEF Tick
  <2>2. InUse(data', req') = InUse(data, req) /\ DOMAIN tokens = InUse(data, req)
    BY <2>1 DEF Typed
  <2>3. ASSUME NEW b \in InUse(data, req) PROVE Least(burst, tokens[b] + rps) \in 0..burst
    BY <1>0 DEF Typed, Least
  <2>4. tokens' \in [InUse(data', req') -> 0..burst]
    BY <2>1, <2>2, <2>3
  <2>5. owed' \in [Clients -> Int]
    BY <1>0, <2>1 DEF Typed, Least
  <2>6. clock' \in 0..MaxClock /\ swept \in 0..clock' /\ 0..clock \subseteq 0..clock'
    BY <1>0, <2>1
  <2>7. data' \in [DOMAIN data' -> [bucket : Names, lastSeen : 0..clock']]
    BY <2>1, <2>6 DEF Typed
  <2>8. \A w \in Workers : req'[w].now <= clock'
    BY <1>0, <2>1 DEF Typed, Request
  <2> QED
    BY <2>1, <2>4, <2>5, <2>6, <2>7, <2>8 DEF Typed, limiterVars
<1>7. CASE UNCHANGED vars
  BY <1>7 DEF vars, limiterVars, Typed, InUse
<1> QED
  BY StepsOf, <1>1, <1>2, <1>3, <1>4, <1>5, <1>6, <1>7

LEMMA NextNamed == Typed /\ Named /\ [Next]_vars => Named'
<1> SUFFICES ASSUME Typed, Named, [Next]_vars PROVE Named'
  OBVIOUS
<1>0. /\ clock \in Nat /\ MaxDelay \in Nat
      /\ \A w \in Workers : req[w].now \in Nat /\ req[w].now <= clock
  BY LimitsAssumption DEF Typed, Request
<1>1. ASSUME NEW w \in Workers, Receive(w) PROVE Named'
  <2>1. PICK c \in Clients :
          req' = [req EXCEPT ![w] = [pc |-> "limiterFor", client |-> c, origin |-> c,
                                     now |-> clock, bucket |-> None]]
    BY <1>1, ReceiveDoes
  <2>2. UNCHANGED <<clock, data>>
    BY <1>1, ReceiveDoes
  <2> QED
    BY <1>0, <2>1, <2>2 DEF Named, KeyedByOrigin, Typed
<1>2. ASSUME NEW w \in Workers, LimiterFor(w) PROVE Named'
  <2> DEFINE c == req[w].client
  <2>1. PICK gone, id : Inserts(w, gone, id)
    BY <1>2, LimiterForDoes
  <2> USE <2>1 DEF Inserts
  <2>2. \A e \in DOMAIN data' : data'[e].bucket[1] = e
    BY <2>1 DEF Named
  <2>3. /\ req'[w].client = c /\ req'[w].origin = req[w].origin /\ req'[w].now = req[w].now
        /\ req'[w].bucket = id
        /\ \A v \in Workers : v # w => req'[v] = req[v]
    BY <2>1 DEF Typed, Request
  <2>4. c \in Clients /\ clock <= req[w].now + MaxDelay /\ req[w].origin = c
    BY <2>1 DEF Named, KeyedByOrigin
  <2> QED
    BY <2>1, <2>2, <2>3, <2>4 DEF Named, KeyedByOrigin
<1>3. ASSUME NEW w \in Workers, Allow(w) PROVE Named'
  <2>1. req' = [req EXCEPT ![w] = Idle] /\ UNCHANGED <<clock, data>>
    BY <1>3, AllowDoes
  <2> QED
    BY <2>1 DEF Named, KeyedByOrigin, Idle, Typed
<1>4. CASE EvictIdle
  BY <1>4 DEF EvictIdle, Restrict, Named, KeyedByOrigin
<1>5. CASE JanitorTick \/ JanitorStop \/ Stop \/ UNCHANGED vars
  BY <1>5 DEF JanitorTick, JanitorStop, Stop, vars, Named, KeyedByOrigin
<1>6. CASE Tick
  <2>1. clock' = clock + 1 /\ UNCHANGED <<data, req>>
    BY <1>6 DEF Tick
  <2>2. \A w \in Workers : req[w].pc # "idle" => clock + 1 <= req[w].now + MaxDelay
    BY <1>0, <1>6 DEF Tick
  <2> QED
    BY <2>1, <2>2 DEF Named, KeyedByOrigin
<1> QED
  BY StepsOf, <1>1, <1>2, <1>3, <1>4, <1>5, <1>6

LEMMA TypeOKFollows == Typed /\ Named => TypeOK
<1> SUFFICES ASSUME Typed, Named PROVE TypeOK
  OBVIOUS
<1>1. \A c \in DOMAIN data : data[c].lastSeen \in 0..clock /\ data[c].bucket \in DOMAIN tokens
  BY DEF Typed, InUse
<1>2. \A w \in Workers : req[w].now \in 0..clock
  BY DEF Typed, Request
<1>3. DOMAIN data \subseteq Addresses /\ displaced \subseteq Addresses
  BY DEF Typed, Addresses
<1>4. \A w \in Workers : /\ req[w].pc \in {"idle", "limiterFor", "allow"}
                         /\ req[w].client \in Addresses \cup {None}
                         /\ req[w].origin \in Clients \cup {None}
  BY DEF Typed, Request, Addresses
<1>5. DOMAIN tokens = InUse(data, req) /\ \A b \in DOMAIN tokens : tokens[b] \in 0..burst
  BY DEF Typed
<1> QED
  BY <1>1, <1>2, <1>3, <1>4, <1>5 DEF TypeOK, Typed
-----------------------------------------------------------------------------
(* The janitor                                                             *)

\* The janitor's time is that of its work, and what it left was not idle then.
Sweeps ==
    /\ janitor = "evict" => swept = clock
    /\ janitor = "select" => clock <= swept + JanitorInterval
    /\ janitor = "stopped" /\ stopCh = "open" => rps = 0
    /\ rps = 0 => DOMAIN data = {} /\ \A w \in Workers : req[w].pc = "idle"
    /\ MaxDelay <= IdleEviction => \A c \in DOMAIN data :
         /\ janitor = "select" => swept <= data[c].lastSeen + IdleEviction
         /\ janitor = "evict" => clock <= data[c].lastSeen + IdleEviction + JanitorInterval

LEMMA InitSweeps == Init => Sweeps
BY LimitsAssumption DEF Init, Sweeps, Idle

LEMMA NextSweeps == Typed /\ Named /\ Sweeps /\ [Next]_vars => Sweeps'
<1> SUFFICES ASSUME Typed, Named, Sweeps, [Next]_vars PROVE Sweeps'
  OBVIOUS
<1>0. /\ clock \in Nat /\ swept \in Nat /\ swept <= clock /\ rps \in Nat
      /\ {MaxDelay, IdleEviction, JanitorInterval} \subseteq Nat
      /\ \A w \in Workers : req[w].now \in Nat
      /\ \A c \in DOMAIN data : data[c].lastSeen \in Nat
  BY LimitsAssumption DEF Typed, Request
<1>1. ASSUME NEW w \in Workers, Receive(w) PROVE Sweeps'
  BY <1>1, ReceiveDoes DEF Sweeps, limiterVars
<1>2. ASSUME NEW w \in Workers, LimiterFor(w) PROVE Sweeps'
  <2> DEFINE c == req[w].client
  <2>1. PICK gone, id : Inserts(w, gone, id)
    BY <1>2, LimiterForDoes
  <2>2. rps # 0 /\ clock <= req[w].now + MaxDelay /\ req[w].now \in Nat
    BY <1>0, <2>1 DEF Inserts, Sweeps, Named
  <2>3. \A e \in DOMAIN data' : \/ e \in DOMAIN data /\ data'[e] = data[e]
                                \/ data'[e].lastSeen = req[w].now
    BY <2>1 DEF Inserts
  <2>4. UNCHANGED <<clock, rps, stopCh, janitor, swept>>
    BY <2>1 DEF Inserts, limiterVars
  <2> QED
    BY <1>0, <2>2, <2>3, <2>4, SMTT(30) DEF Sweeps
<1>3. ASSUME NEW w \in Workers, Allow(w) PROVE Sweeps'
  <2>1. req' = [req EXCEPT ![w] = Idle] /\ UNCHANGED <<clock, data, limiterVars>>
    BY <1>3, AllowDoes
  <2> QED
    BY <2>1 DEF Sweeps, limiterVars, Idle, Typed
<1>4. CASE JanitorTick
  BY <1>0, <1>4 DEF JanitorTick, Sweeps
<1>5. CASE EvictIdle
  <2>1. /\ DOMAIN data' = DOMAIN data \ Stale(swept) /\ janitor = "evict" /\ janitor' = "select"
        /\ \A c \in DOMAIN data' : data'[c] = data[c]
        /\ UNCHANGED <<clock, rps, req, stopCh, swept>>
    BY <1>5 DEF EvictIdle, Restrict
  <2>2. \A c \in DOMAIN data' : swept <= data'[c].lastSeen + IdleEviction
    BY <1>0, <2>1 DEF Stale
  <2> QED
    BY <1>0, <2>1, <2>2 DEF Sweeps
<1>6. CASE JanitorStop \/ Stop
  BY <1>6 DEF JanitorStop, Stop, Sweeps, limiterVars
<1>7. CASE Tick
  <2>1. /\ clock' = clock + 1 /\ UNCHANGED <<data, req, rps, stopCh, janitor, swept>>
        /\ janitor = "select" => clock - swept < JanitorInterval
        /\ janitor # "evict"
    BY <1>7 DEF Tick, limiterVars
  <2> QED
    BY <1>0, <2>1 DEF Sweeps
<1>8. CASE UNCHANGED vars
  BY <1>8 DEF vars, Sweeps
<1> QED
  BY StepsOf, <1>1, <1>2, <1>3, <1>4, <1>5, <1>6, <1>7, <1>8

LEMMA ReapedFollows == Typed /\ Sweeps => Reaped
<1> SUFFICES ASSUME Typed, Sweeps, stopCh = "open", MaxDelay <= IdleEviction, NEW c \in DOMAIN data
             PROVE  clock - data[c].lastSeen <= IdleEviction + JanitorInterval
  BY DEF Reaped
<1>1. /\ clock \in Nat /\ swept \in Nat /\ data[c].lastSeen \in Nat
      /\ {IdleEviction, JanitorInterval} \subseteq Nat
  BY LimitsAssumption DEF Typed
<1>2. janitor \in {"select", "evict"}
  BY DEF Typed, Sweeps
<1> QED
  BY <1>1, <1>2 DEF Sweeps
-----------------------------------------------------------------------------
(* One bucket for each client                                              *)

\* What is owed to a client that the cap never evicted: a full bucket while it has
\* no entry; else what its bucket holds, and as much as filled it since the last
\* request that may have spent from it.
Due(c) == rps * (clock - data[c].lastSeen - 2 * MaxDelay)

Kept(c) ==
    IF c \notin DOMAIN data
    THEN /\ owed[c] = burst
         /\ \A w \in Workers : req[w].pc = "allow" => req[w].client # c
    ELSE /\ owed[c] = tokens[data[c].bucket]
         /\ owed[c] = burst \/ Due(c) <= owed[c]
         /\ \A w \in Workers : req[w].pc = "allow" /\ req[w].client = c =>
               req[w].bucket = data[c].bucket /\ req[w].now <= data[c].lastSeen + MaxDelay

Held == FillsWhileIdle => \A c \in Clients \ displaced : Kept(c)

LEMMA Products ==
    ASSUME NEW r \in Nat, NEW x \in Int, NEW y \in Int
    PROVE  /\ r * x \in Int
           /\ x <= 0 => r * x <= 0
           /\ x <= y => r * x <= r * y
           /\ r * (x + 1) = r * x + r
<1>1. r * x \in Int /\ r * (x + 1) = r * x + r
  OBVIOUS
<1>2. x <= 0 => r * x <= 0
  OBVIOUS
<1>3. x <= y => r * x <= r * y
  OBVIOUS
<1> QED
  BY <1>1, <1>2, <1>3

LEMMA Numbers ==
    ASSUME Typed
    PROVE  /\ clock \in Nat /\ swept \in Nat /\ swept <= clock /\ rps \in Nat /\ burst \in Nat
           /\ MaxDelay \in Nat /\ IdleEviction \in Nat /\ JanitorInterval \in Nat
           /\ \A w \in Workers : req[w].now \in Nat /\ req[w].now <= clock
           /\ \A c \in DOMAIN data : /\ data[c].lastSeen \in Nat /\ data[c].bucket \in InUse(data, req)
                                     /\ tokens[data[c].bucket] \in 0..burst
BY LimitsAssumption DEF Typed, Request, InUse

LEMMA InitHeld == Init => Held
<1> SUFFICES ASSUME Init, NEW c \in Clients PROVE Kept(c)
  BY DEF Held
<1>1. c \notin DOMAIN data
  BY DEF Init
<1>2. owed[c] = burst /\ \A w \in Workers : req[w].pc # "allow"
  BY DEF Init, Idle
<1> QED
  BY <1>1, <1>2 DEF Kept

LEMMA LimiterForHeld ==
    ASSUME Typed, Named, Held, FillsWhileIdle, NEW w \in Workers, LimiterFor(w),
           NEW c \in Clients \ displaced'
    PROVE  Kept(c)'
<1> DEFINE own == req[w].client
<1>1. PICK gone, id : Inserts(w, gone, id)
  BY LimiterForDoes
<1>2. c \notin displaced /\ c \notin gone /\ owed'[c] = owed[c] /\ UNCHANGED <<clock, rps, burst>>
  BY <1>1 DEF Inserts, limiterVars
<1>3. Kept(c)
  BY <1>2 DEF Held
<1>4. /\ req'[w].pc = "allow" /\ req'[w].client = own /\ req'[w].bucket = id
      /\ req'[w].now = req[w].now
      /\ \A v \in Workers : v # w => req'[v] = req[v]
  BY <1>1 DEF Inserts, Typed, Request
<1>5. CASE c # own
  <2>1. c \in DOMAIN data' <=> c \in DOMAIN data
    BY <1>1, <1>2, <1>5 DEF Inserts
  <2>2. CASE c \notin DOMAIN data
    BY <1>2, <1>3, <1>4, <1>5, <2>1, <2>2 DEF Kept
  <2>3. CASE c \in DOMAIN data
    <3>1. data'[c] = data[c] /\ c \in DOMAIN data'
      BY <1>1, <1>2, <1>5, <2>3 DEF Inserts
    <3>2. data[c].bucket # id
      BY <1>1, <1>5, <2>3 DEF Inserts, Named
    <3>3. data[c].bucket \in InUse(data', req')
      BY <3>1 DEF InUse
    <3>4. tokens'[data[c].bucket] = tokens[data[c].bucket]
      BY <1>1, <3>2, <3>3 DEF Inserts
    <3>5. Due(c)' = Due(c)
      BY <1>2, <3>1 DEF Due
    <3> QED
      BY <1>2, <1>3, <1>4, <1>5, <2>3, <3>1, <3>4, <3>5 DEF Kept
  <2> QED
    BY <2>2, <2>3
<1>6. CASE c = own
  <2>1. data'[c].bucket = id /\ data'[c].lastSeen = req[w].now /\ c \in DOMAIN data'
    BY <1>1, <1>6 DEF Inserts
  <2>2. clock <= req[w].now + MaxDelay
    BY <1>1 DEF Inserts, Named
  <2>3. \A v \in Workers : req'[v].now <= data'[c].lastSeen + MaxDelay
    BY <1>4, <2>1, <2>2, Numbers
  <2>4. id \in InUse(data', req')
    BY <2>1 DEF InUse
  <2>5. /\ owed'[c] = tokens'[id]
        /\ \A v \in Workers : req'[v].pc = "allow" /\ req'[v].client = c => req'[v].bucket = id
    <3>1. CASE c \in DOMAIN data
      BY <1>1, <1>2, <1>3, <1>4, <1>6, <2>4, <3>1 DEF Inserts, Kept
    <3>2. CASE c \notin DOMAIN data
      BY <1>1, <1>2, <1>3, <1>4, <1>6, <2>4, <3>2 DEF Inserts, Kept
    <3> QED
      BY <3>1, <3>2
  <2>6. owed'[c] \in Nat
    BY <1>2, <1>3, Numbers DEF Kept
  <2>7. Due(c)' <= owed'[c]
    <3>1. clock - req[w].now - 2 * MaxDelay \in Int /\ clock - req[w].now - 2 * MaxDelay <= 0
      BY <2>2, Numbers
    <3>2. Due(c)' = rps * (clock - req[w].now - 2 * MaxDelay)
      BY <1>2, <2>1, LimitsAssumption DEF Due
    <3> QED
      BY <2>6, <3>1, <3>2, Numbers, Products
  <2> QED
    BY <2>1, <2>3, <2>5, <2>7 DEF Kept
<1> QED
  BY <1>5, <1>6

LEMMA AllowHeld ==
    ASSUME Typed, Named, Held, FillsWhileIdle, NEW w \in Workers, Allow(w),
           NEW c \in Clients \ displaced
    PROVE  Kept(c)'
<1> DEFINE own == req[w].client
           b == req[w].bucket
<1>1. /\ req[w].pc = "allow" /\ b[1] = own
      /\ req' = [req EXCEPT ![w] = Idle]
      /\ tokens' = [i \in InUse(data', req') |->
                      IF i = b /\ tokens[i] > 0 THEN tokens[i] - 1 ELSE tokens[i]]
      /\ owed' = IF tokens[b] = 0 \/ own \in displaced THEN owed
                 ELSE [owed EXCEPT ![own] = IF @ < 1 THEN -1 ELSE @ - 1]
      /\ UNCHANGED <<clock, data, rps, burst>>
  BY AllowDoes DEF limiterVars
<1>2. Kept(c)
  BY DEF Held
<1>3. \A v \in Workers : req'[v].pc = "allow" => req'[v] = req[v]
  BY <1>1 DEF Idle, Typed
<1>4. c \in DOMAIN data => /\ data[c].bucket \in InUse(data', req')
                           /\ tokens[data[c].bucket] \in 0..burst
  BY <1>1, Numbers DEF InUse
<1>5. Due(c)' = Due(c)
  BY <1>1 DEF Due
<1>6. CASE c # own
  <2>1. owed'[c] = owed[c]
    BY <1>1, <1>6 DEF Typed
  <2>2. c \in DOMAIN data => tokens'[data[c].bucket] = tokens[data[c].bucket]
    BY <1>1, <1>4, <1>6 DEF Named
  <2> QED
    BY <1>1, <1>2, <1>3, <1>5, <2>1, <2>2 DEF Kept
<1>7. CASE c = own
  <2>1. c \in DOMAIN data /\ data[c].bucket = b /\ req[w].now <= data[c].lastSeen + MaxDelay
    BY <1>1, <1>2, <1>7 DEF Kept
  <2>2. tokens[b] \in 0..burst /\ owed[c] = tokens[b] /\ b \in InUse(data', req')
    BY <1>2, <1>4, <2>1 DEF Kept
  <2>3. owed'[c] = tokens'[b] /\ owed'[c] \in Nat
    <3>1. CASE tokens[b] = 0
      BY <1>1, <2>2, <3>1, Numbers
    <3>2. CASE tokens[b] # 0
      <4>1. tokens'[b] = tokens[b] - 1 /\ tokens[b] - 1 \in Nat
        BY <1>1, <2>2, <3>2, Numbers
      <4>2. owed'[c] = tokens[b] - 1
        BY <1>1, <1>7, <2>2, <3>2, Numbers DEF Typed
      <4> QED
        BY <4>1, <4>2
    <3> QED
      BY <3>1, <3>2
  <2>4. Due(c)' <= owed'[c]
    <3>1. /\ clock - data[c].lastSeen - 2 * MaxDelay \in Int
          /\ clock - data[c].lastSeen - 2 * MaxDelay <= 0
      BY <1>1, <2>1, Numbers DEF Named
    <3> QED
      BY <1>5, <2>3, <3>1, Numbers, Products DEF Due
  <2> QED
    BY <1>1, <1>2, <1>3, <2>1, <2>3, <2>4 DEF Kept
<1> QED
  BY <1>6, <1>7

\* When the janitor drops an entry its bucket is full again, and nobody holds it:
\* the last of its requests is older than the limiter lets one be.
LEMMA EvictHeld ==
    ASSUME Typed, Named, Held, FillsWhileIdle, EvictIdle, NEW c \in Clients \ displaced
    PROVE  Kept(c)'
<1>1. /\ DOMAIN data' = DOMAIN data \ Stale(swept)
      /\ \A e \in DOMAIN data' : data'[e] = data[e]
      /\ tokens' = [i \in InUse(data', req) |-> tokens[i]]
      /\ UNCHANGED <<clock, rps, burst, req, owed>>
  BY DEF EvictIdle, Restrict
<1>2. Kept(c)
  BY DEF Held
<1>3. CASE c \notin DOMAIN data
  BY <1>1, <1>2, <1>3 DEF Kept
<1>4. CASE c \in DOMAIN data'
  <2>1. data[c].bucket \in InUse(data', req)
    BY <1>1, <1>4 DEF InUse
  <2>2. Due(c)' = Due(c)
    BY <1>1, <1>4 DEF Due
  <2> QED
    BY <1>1, <1>2, <1>4, <2>1, <2>2 DEF Kept
<1>5. CASE c \in DOMAIN data /\ c \in Stale(swept)
  <2> DEFINE idle == clock - data[c].lastSeen - 2 * MaxDelay
             least == IdleEviction + 1 - 2 * MaxDelay
  <2>1. data[c].lastSeen + IdleEviction < clock
    BY <1>5, Numbers DEF Stale
  <2>2. ASSUME NEW w \in Workers, req[w].pc = "allow" PROVE req[w].client # c
    <3> SUFFICES ASSUME req[w].client = c PROVE FALSE
      OBVIOUS
    <3>1. req[w].now <= data[c].lastSeen + MaxDelay
      BY <1>2, <1>5, <2>2 DEF Kept
    <3>2. clock <= req[w].now + MaxDelay
      BY <2>2 DEF Named
    <3> QED
      BY <1>5, <2>1, <3>1, <3>2, Numbers DEF FillsWhileIdle
  <2>3. owed[c] = burst
    <3>1. owed[c] \in 0..burst /\ (owed[c] = burst \/ Due(c) <= owed[c])
      BY <1>2, <1>5, Numbers DEF Kept
    <3>2. idle \in Int /\ least \in Int /\ least <= idle
      BY <1>5, <2>1, Numbers
    <3>3. rps * least <= rps * idle /\ rps * least \in Int /\ rps * idle \in Int
      BY <3>2, Numbers, Products
    <3>4. burst <= rps * least /\ Due(c) = rps * idle
      BY DEF FillsWhileIdle, Due
    <3> HIDE DEF idle, least
    <3> QED
      BY <3>1, <3>3, <3>4, Numbers
  <2> QED
    BY <1>1, <1>5, <2>2, <2>3 DEF Kept
<1> QED
  BY <1>1, <1>3, <1>4, <1>5

LEMMA TickHeld ==
    ASSUME Typed, Named, Held, FillsWhileIdle, Tick, NEW c \in Clients \ displaced
    PROVE  Kept(c)'
<1>1. /\ clock' = clock + 1
      /\ tokens' = [b \in DOMAIN tokens |-> Least(burst, tokens[b] + rps)]
      /\ owed' = [o \in Clients |-> IF o \in displaced \/ owed[o] = -1 THEN owed[o]
                                   ELSE Least(burst, owed[o] + rps)]
      /\ UNCHANGED <<data, req, rps, burst>>
  BY DEF Tick, limiterVars
<1>2. Kept(c)
  BY DEF Held
<1>3. owed[c] \in 0..burst
  BY <1>2, Numbers DEF Kept
<1>4. owed'[c] = Least(burst, owed[c] + rps)
  BY <1>1, <1>3, Numbers
<1>5. CASE c \notin DOMAIN data
  <2>1. owed'[c] = burst
    BY <1>2, <1>4, <1>5, Numbers DEF Kept, Least
  <2> QED
    BY <1>1, <1>2, <1>5, <2>1 DEF Kept
<1>6. CASE c \in DOMAIN data
  <2>1. owed'[c] = tokens'[data[c].bucket]
    BY <1>1, <1>2, <1>4, <1>6, Numbers DEF Kept, Typed
  <2>2. owed'[c] = burst \/ Due(c)' <= owed'[c]
    <3> DEFINE idle == clock - data[c].lastSeen - 2 * MaxDelay
    <3>1. idle \in Int /\ (clock + 1) - data[c].lastSeen - 2 * MaxDelay = idle + 1
      BY <1>6, Numbers
    <3>2. Due(c) = rps * idle /\ Due(c)' = rps * (idle + 1)
      BY <1>1, <3>1, LimitsAssumption DEF Due
    <3>3. Due(c) \in Int /\ Due(c)' = Due(c) + rps
      BY <3>1, <3>2, Numbers, Products
    <3>4. owed[c] = burst \/ Due(c) <= owed[c]
      BY <1>2, <1>6 DEF Kept
    <3> HIDE DEF idle
    <3> QED
      BY <1>3, <1>4, <3>3, <3>4, Numbers DEF Least
  <2> QED
    BY <1>1, <1>2, <1>6, <2>1, <2>2 DEF Kept
<1> QED
  BY <1>5, <1>6

LEMMA NextHeld == Typed /\ Named /\ Held /\ [Next]_vars => Held'
<1> SUFFICES ASSUME Typed, Named, Held, [Next]_vars, FillsWhileIdle',
                    NEW c \in Clients \ displaced'
             PROVE  Kept(c)'
  BY DEF Held
<1>1. UNCHANGED <<rps, burst>>
  BY DEF Next, Receive, LimiterFor, Allow, Janitor, JanitorTick, EvictIdle, JanitorStop, Stop, Tick,
         vars, limiterVars
<1>2. FillsWhileIdle
  BY <1>1, LimitsAssumption DEF FillsWhileIdle
<1>3. c \in Clients \ displaced
  BY DEF Next, Receive, LimiterFor, Allow, Janitor, JanitorTick, EvictIdle, JanitorStop, Stop, Tick,
         vars, limiterVars
<1>4. ASSUME NEW w \in Workers, Receive(w) PROVE Kept(c)'
  <2>1. PICK d \in Clients :
          req' = [req EXCEPT ![w] = [pc |-> "limiterFor", client |-> d, origin |-> d,
                                     now |-> clock, bucket |-> None]]
    BY <1>4, ReceiveDoes
  <2>2. UNCHANGED <<clock, data, tokens, owed, rps, burst>>
    BY <1>4, ReceiveDoes DEF limiterVars
  <2>3. \A v \in Workers : req'[v].pc = "allow" => req'[v] = req[v]
    BY <2>1 DEF Typed
  <2>4. Due(c)' = Due(c)
    BY <2>2 DEF Due
  <2> QED
    BY <1>2, <1>3, <2>2, <2>3, <2>4 DEF Held, Kept
<1>5. CASE JanitorTick \/ JanitorStop \/ Stop \/ UNCHANGED vars
  <2>1. UNCHANGED <<clock, data, tokens, owed, req, rps, burst>>
    BY <1>5 DEF JanitorTick, JanitorStop, Stop, vars, limiterVars
  <2>2. Due(c)' = Due(c)
    BY <2>1 DEF Due
  <2> QED
    BY <1>2, <1>3, <2>1, <2>2 DEF Held, Kept
<1> QED
  BY StepsOf, <1>2, <1>3, <1>4, <1>5, LimiterForHeld, AllowHeld, EvictHeld, TickHeld

LEMMA OneBucketFollows == Typed /\ Held => OneBucketEach
<1> SUFFICES ASSUME Typed, Held, FillsWhileIdle, NEW c \in Clients \ displaced
             PROVE  owed[c] >= 0
  BY DEF OneBucketEach
<1>1. Kept(c)
  BY DEF Held
<1> QED
  BY <1>1, Numbers DEF Kept
-----------------------------------------------------------------------------
(* Theorems                                                                *)

IInv == Typed /\ Named /\ Sweeps /\ Held

LEMMA Inductive == Spec => []IInv
<1>1. Init => IInv
  BY InitTyped, InitSweeps, InitHeld DEF IInv
<1>2. IInv /\ [Next]_vars => IInv'
  BY NextTyped, NextNamed, NextSweeps, NextHeld DEF IInv
<1> QED
  BY <1>1, <1>2, PTL DEF Spec

\* Every component keeps its type; above all, no bucket holds more than the burst
\* and every entry has one.
THEOREM TypeCorrect == Spec => []TypeOK
<1>1. IInv => TypeOK
  BY TypeOKFollows DEF IInv
<1> QED
  BY <1>1, Inductive, PTL

\* Requests are keyed by the client they come from, for any header it writes and
\* any number of proxies (realip.go:92-97).
THEOREM KeyedByOriginHolds == Spec => []KeyedByOrigin
<1>1. IInv => KeyedByOrigin
  BY DEF IInv, Named
<1> QED
  BY <1>1, Inductive, PTL

\* Whatever the janitor drops meanwhile, a client that the cap never evicted is let
\* through no more often than one bucket would let it (ratelimit.go:145-186).
THEOREM OneBucketEachHolds == Spec => []OneBucketEach
<1>1. IInv => OneBucketEach
  BY OneBucketFollows DEF IInv
<1> QED
  BY <1>1, Inductive, PTL

\* An idle entry is gone one janitor interval after its time (ratelimit.go:145-159).
THEOREM ReapedHolds == Spec => []Reaped
<1>1. IInv => Reaped
  BY ReapedFollows DEF IInv
<1> QED
  BY <1>1, Inductive, PTL
=============================================================================
