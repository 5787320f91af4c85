------------------------------ MODULE RateLimiter ------------------------------
(***************************************************************************)
(* The per-client limiter of the public endpoint, internal/httpmw:         *)
(* ratelimit.go, keyed by the client that realip.go resolves.              *)
(*                                                                         *)
(* A request names its client and reads the time, then takes its bucket    *)
(* under the mutex, then spends a token outside it.  A janitor reaps idle  *)
(* entries and the insertion of a new client at the cap evicts the oldest. *)
(* Buckets (golang.org/x/time/rate) gain rps tokens a tick up to burst;    *)
(* the code does that lazily, here every tick does.                        *)
(***************************************************************************)
EXTENDS RealIP, FiniteSets, Functions

CONSTANTS
    Workers,   \* goroutines that serve requests
    Written,   \* header values a client may write itself
    Routes,    \* sequences of hops a request may take
    Rates,     \* rates an operator may configure; 0 disables the limiter
    Bursts,    \* bursts an operator may configure
    IdleEviction,     \* rateLimitIdleEviction, in ticks
    JanitorInterval,  \* rateLimitJanitorInterval, in ticks
    HardCap,          \* rateLimitHardCap
    MaxDelay,  \* a request spends at most this long after it read the time
    MaxClock,  \* bound: the clock stops there
    None       \* no client yet

ASSUME LimitsAssumption ==
    /\ Rates \subseteq Nat
    /\ Bursts \subseteq Nat
    /\ {IdleEviction, JanitorInterval, HardCap} \subseteq Nat \ {0}
    /\ {MaxDelay, MaxClock} \subseteq Nat
    /\ None \notin Addresses

ASSUME WireAssumption ==
    /\ IsFiniteSet(Workers)
    /\ Written \subseteq Seq(Seq(Entries))
    /\ Routes \subseteq Seq(Hops)

VARIABLES
    clock,     \* time.Now()
    rps,       \* RateLimiter.rps
    burst,     \* RateLimiter.burst, clamped
    data,      \* RateLimiter.data: client -> [bucket, lastSeen]
    tokens,    \* tokens of every bucket in use
    req,       \* worker -> the request it serves
    stopCh,    \* "open" or "closed"
    janitor,   \* "select", "evict" or "stopped"
    swept,     \* when the janitor last read the time
    owed,      \* history: client -> tokens left in one bucket kept for ever;
               \* -1 if it was let through without one
    displaced  \* history: clients whose entry the cap evicted

vars == <<clock, rps, burst, data, tokens, req, stopCh, janitor, swept, owed, displaced>>

limiterVars == <<rps, burst, stopCh, janitor, swept>>

Idle == [pc |-> "idle", client |-> None, origin |-> None, now |-> 0, bucket |-> None]

\* NewRateLimiter: a burst below one is raised, no janitor runs if disabled.
Init ==
    /\ clock = 0
    /\ rps \in Rates
    /\ \E b \in Bursts : burst = IF rps > 0 /\ b < 1 THEN 1 ELSE b
    /\ data = <<>>
    /\ tokens = <<>>
    /\ req = [w \in Workers |-> Idle]
    /\ stopCh = "open"
    /\ janitor = IF rps = 0 THEN "stopped" ELSE "select"
    /\ swept = 0
    /\ owed = [c \in Clients |-> burst]
    /\ displaced = {}

\* Faulty variant: a bucket overflows.
Unbounded(a, b) == b

Least(a, b) == IF a < b THEN a ELSE b

\* The buckets some entry or some request still refers to.
InUse(d, q) ==
    {d[c].bucket : c \in DOMAIN d} \cup {q[w].bucket : w \in {v \in Workers : q[v].pc = "allow"}}

\* A name for a new bucket of a client; requests may still hold old ones.
FreshBucket(c) ==
    CHOOSE b \in {<<c, n>> : n \in 0..Cardinality(Workers)} : b \notin InUse(data, req)
-----------------------------------------------------------------------------
(* RateLimiter.Middleware                                                  *)

\* ClientIP and time.Now(), before any lock.
Receive(w) ==
    /\ rps > 0
    /\ req[w].pc = "idle"
    /\ \E c \in Clients, h \in Written, route \in Routes :
         req' = [req EXCEPT ![w] =
             [pc |-> "limiterFor", origin |-> c, now |-> clock, bucket |-> None,
              client |-> resolveClientIP(Forwarded(c, h, route))]]
    /\ UNCHANGED <<clock, data, tokens, owed, displaced, limiterVars>>

\* Faulty variant: one entry too many is let in.
VictimsAboveCap(d) ==
    IF Cardinality(DOMAIN d) <= HardCap THEN {{}}
    ELSE {{c} : c \in {o \in DOMAIN d : \A e \in DOMAIN d : d[o].lastSeen <= d[e].lastSeen}}

\* evictOldestLocked, if the map is full: any of the oldest may be met first.
Victims(d) ==
    IF Cardinality(DOMAIN d) < HardCap THEN {{}}
    ELSE {{c} : c \in {o \in DOMAIN d : \A e \in DOMAIN d : d[o].lastSeen <= d[e].lastSeen}}

\* limiterFor, under the mutex: the entry of the client, or a new full bucket.
LimiterFor(w) ==
    LET c == req[w].client
        new == c \notin DOMAIN data
    IN  /\ req[w].pc = "limiterFor"
        /\ \E gone \in IF new THEN Victims(data) ELSE {{}} :
             LET kept == Restrict(data, DOMAIN data \ gone)
                 id == IF new THEN FreshBucket(c) ELSE data[c].bucket
             IN  /\ data' = [e \in DOMAIN kept \cup {c} |->
                               IF e = c THEN [bucket |-> id, lastSeen |-> req[w].now]
                               ELSE kept[e]]
                 /\ req' = [req EXCEPT ![w].pc = "allow", ![w].bucket = id]
                 /\ tokens' = [i \in InUse(data', req') |->
                                 IF new /\ i = id THEN burst ELSE tokens[i]]
                 /\ displaced' = displaced \cup gone
                 /\ owed' = [o \in Clients |-> IF o \in gone THEN burst ELSE owed[o]]
        /\ UNCHANGED <<clock, limiterVars>>

\* Limiter.Allow, outside the mutex: a token is spent or the request refused.
\* owed is spent with it, for the client the request really came from.
Allow(w) ==
    LET b == req[w].bucket
    IN  /\ req[w].pc = "allow"
        /\ req' = [req EXCEPT ![w] = Idle]
        /\ tokens' = [i \in InUse(data, req') |->
                        IF i = b /\ tokens[i] > 0 THEN tokens[i] - 1 ELSE tokens[i]]
        /\ owed' = IF tokens[b] = 0 \/ req[w].origin \in displaced THEN owed
                   ELSE [owed EXCEPT ![req[w].origin] = IF @ < 1 THEN -1 ELSE @ - 1]
        /\ UNCHANGED <<clock, data, displaced, limiterVars>>
-----------------------------------------------------------------------------
(* RateLimiter.janitor                                                     *)

\* The ticker fires and the janitor reads the time.
JanitorTick ==
    /\ janitor = "select"
    /\ clock - swept >= JanitorInterval
    /\ janitor' = "evict"
    /\ swept' = clock
    /\ UNCHANGED <<clock, rps, burst, data, tokens, req, stopCh, owed, displaced>>

\* Faulty variant: an entry goes as soon as the janitor finds it unused.
StaleSinceSweep(now) == {c \in DOMAIN data : data[c].lastSeen + JanitorInterval < now}

\* Faulty variant: an entry is idle once a whole interval more has gone by.
StaleLate(now) ==
    {c \in DOMAIN data : data[c].lastSeen + IdleEviction + JanitorInterval < now}

\* lastSeen.Before(now - rateLimitIdleEviction)
Stale(now) == {c \in DOMAIN data : data[c].lastSeen + IdleEviction < now}

\* evictIdle, under the mutex, with the time read before it.
EvictIdle ==
    /\ janitor = "evict"
    /\ data' = Restrict(data, DOMAIN data \ Stale(swept))
    /\ tokens' = Restrict(tokens, InUse(data', req))
    /\ janitor' = "select"
    /\ UNCHANGED <<clock, rps, burst, req, stopCh, swept, owed, displaced>>

JanitorStop ==
    /\ janitor = "select"
    /\ stopCh = "closed"
    /\ janitor' = "stopped"
    /\ UNCHANGED <<clock, rps, burst, data, tokens, req, stopCh, swept, owed, displaced>>

\* Stop, as far as stopOnce: it then waits for janitor = "stopped".
Stop ==
    /\ stopCh = "open"
    /\ stopCh' = "closed"
    /\ UNCHANGED <<clock, rps, burst, data, tokens, req, janitor, swept, owed, displaced>>
-----------------------------------------------------------------------------
\* Time passes: buckets fill.  It does not run away from a request that is
\* being served, nor from a janitor that has work.
Tick ==
    /\ clock < MaxClock
    /\ \A w \in Workers : req[w].pc = "idle" \/ clock - req[w].now < MaxDelay
    /\ janitor = "select" => clock - swept < JanitorInterval
    /\ janitor # "evict"
    /\ clock' = clock + 1
    /\ tokens' = [b \in DOMAIN tokens |-> Least(burst, tokens[b] + rps)]
    /\ owed' = [c \in Clients |-> IF c \in displaced \/ owed[c] = -1 THEN owed[c]
                                 ELSE Least(burst, owed[c] + rps)]
    /\ UNCHANGED <<data, req, displaced, limiterVars>>

Janitor == JanitorTick \/ EvictIdle \/ JanitorStop

Next ==
    \/ \E w \in Workers : Receive(w) \/ LimiterFor(w) \/ Allow(w)
    \/ Janitor
    \/ Stop
    \/ Tick

Spec == Init /\ [][Next]_vars
-----------------------------------------------------------------------------
(* Properties                                                              *)

\* Every component keeps its type.
TypeOK ==
    /\ clock \in 0..MaxClock /\ swept \in 0..clock
    /\ rps \in Rates /\ burst \in Nat
    /\ DOMAIN data \subseteq Addresses
    /\ \A c \in DOMAIN data : data[c].lastSeen \in 0..clock /\ data[c].bucket \in DOMAIN tokens
    /\ DOMAIN tokens = InUse(data, req)
    /\ \A b \in DOMAIN tokens : tokens[b] \in 0..burst
    /\ \A w \in Workers :
         /\ req[w].pc \in {"idle", "limiterFor", "allow"}
         /\ req[w].client \in Addresses \cup {None}
         /\ req[w].origin \in Clients \cup {None}
         /\ req[w].now \in 0..clock
    /\ stopCh \in {"open", "closed"}
    /\ janitor \in {"select", "evict", "stopped"}
    /\ displaced \subseteq Addresses

\* The map never exceeds rateLimitHardCap, between janitor runs and after
\* Stop alike (ratelimit.go:24-31).
WithinCap == Cardinality(DOMAIN data) <= HardCap

\* A request is charged to the client it came from, whatever the client wrote
\* into the header and however many proxies added to it (realip.go:92-97).
KeyedByOrigin == \A w \in Workers : req[w].client = req[w].origin

\* A client whose entry the cap never evicted is let through no more often
\* than one bucket kept for it for ever would let it, although the janitor
\* drops its entry and requests hold buckets outside the mutex.  The bucket
\* must fill while its entry is idle, slow requests counted twice: one may set
\* the time stamp of another back, and a third may still spend.
FillsWhileIdle ==
    /\ 2 * MaxDelay <= IdleEviction
    /\ burst <= rps * (IdleEviction + 1 - 2 * MaxDelay)

OneBucketEach ==
    FillsWhileIdle => \A c \in Clients \ displaced : owed[c] >= 0

\* No entry outlives its idle time by more than one janitor interval, until
\* Stop, although slow requests set time stamps back.
Reaped ==
    stopCh = "open" /\ MaxDelay <= IdleEviction =>
        \A c \in DOMAIN data :
            clock - data[c].lastSeen <= IdleEviction + JanitorInterval
=============================================================================
