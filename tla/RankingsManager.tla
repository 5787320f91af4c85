--------------------------- MODULE RankingsManager ---------------------------
(***************************************************************************)
(* The rankings cache of internal/rankings/manager.go, at the granularity  *)
(* of its locks and its file operations.                                   *)
(*                                                                         *)
(* Several server processes (one per stdio client) share one cache         *)
(* directory.  Each process owns a Manager: a positive and a negative      *)
(* in-memory cache under one RWMutex, and a map of per-key mutexes under   *)
(* another.  A caller is a goroutine running GetRole; it reads the two     *)
(* caches in two separate critical sections, takes the per-key mutex,      *)
(* reads them again, then tries the file and finally the upstream.         *)
(* A process may crash between any two steps; only the files survive.      *)
(***************************************************************************)
EXTENDS Naturals, FiniteSets

CONSTANTS
    Procs,       \* server processes sharing the cache directory
    Callers,     \* goroutines that call GetRole
    Home,        \* the process each caller runs in
    Requests,    \* the (cup, cap, role) arguments passed to GetRole
    UnsafeCups,  \* cup ids with a path separator or a ".." component
    Bodies,      \* payloads that decode as a list of entries
    NullBody,    \* the JSON document null: decodes, to a nil slice
    Torn,        \* bytes that do not decode (partial or not JSON)
    None,        \* absent
    TTL,         \* cacheTTL
    MaxClock     \* bound on the clock, for model checking

SupportedCaps == {500, 1500, 2500, 10000}

ResolveCup(cup) == IF cup = "" THEN "all" ELSE cup

ValidateAndKey(r) ==
    IF r.cap \notin SupportedCaps \/ r.cup \in UnsafeCups
    THEN None
    ELSE [cap  |-> r.cap,
          cup  |-> ResolveCup(r.cup),
          role |-> IF r.role = "" THEN "overall" ELSE r.role]

Keys == {ValidateAndKey(r) : r \in Requests} \ {None}

Times == 0..MaxClock

\* A decoded payload and the time its bytes were written to disk.
Snapshots == [body : Bodies, at : Times]

\* What the path of a key may hold: whole or torn bytes, and their mtime.
Contents == [body : Bodies \cup {Torn}, at : Times]

ASSUME HomeAssumption == Home \in [Callers -> Procs]

ASSUME ClockAssumption == TTL \in Nat /\ MaxClock \in Nat

ASSUME AbsentAssumption ==
    /\ None \notin Callers \cup Keys \cup Snapshots \cup Contents
    /\ Torn \notin Bodies

VARIABLES
    \* goroutines
    pc,          \* the next statement of each caller
    key,         \* its cacheKey
    mu,          \* its perKey mutex: the caller that allocated it
    entries,     \* its local variable: decoded payload
    tmp,         \* its temporary file
    result,      \* the outcome it returned last
    \* one Manager per process
    cache,       \* Manager.cache
    notFound,    \* Manager.notFound
    fetchMu,     \* Manager.fetchMu
    owner,       \* who holds the mutex that a caller allocated for a key
    \* shared by all processes
    file,        \* localPath(key)
    clock

callVars == <<pc, key, mu, entries, tmp, result>>
memVars  == <<cache, notFound, fetchMu, owner>>
diskVars == <<file, clock>>
vars     == <<callVars, memVars, diskVars>>

Statuses == {"none", "ok", "unknown", "error"}

\* Statements executed with the per-key mutex held.
Locked == {"relookup", "reNotFound", "stat", "read", "fetch", "response",
           "createTemp", "write", "rename", "store", "storeNotFound", "unlock"}

\* Statements of fetchUpstream.
Fetching == {"fetch", "response", "createTemp", "write", "rename"}

Labels == {"idle", "lookup", "isNotFound", "lockFor", "lock"} \cup Locked

NoResult == [status |-> "none", entries |-> None]

Init ==
    /\ pc = [c \in Callers |-> "idle"]
    /\ key = [c \in Callers |-> None]
    /\ mu = [c \in Callers |-> None]
    /\ entries = [c \in Callers |-> None]
    /\ tmp = [c \in Callers |-> None]
    /\ result = [c \in Callers |-> NoResult]
    /\ cache = [p \in Procs |-> [k \in Keys |-> None]]
    /\ notFound = [p \in Procs |-> {}]
    /\ fetchMu = [p \in Procs |-> [k \in Keys |-> None]]
    /\ owner = [m \in Callers |-> [k \in Keys |-> None]]
    /\ file = [k \in Keys |-> None]
    /\ clock = 0

Go(c, from, to) ==
    /\ pc[c] = from
    /\ pc' = [pc EXCEPT ![c] = to]

\* The caller's return values, fixed before the deferred Unlock runs.
Give(c, status, snap) ==
    result' = [result EXCEPT ![c] = [status |-> status, entries |-> snap]]

Cached(c)  == cache[Home[c]][key[c]]
Decodes(b) == b # Torn

\* len and nil aside, Go's "entries != nil".
NonNil(snap) == snap # None /\ snap.body # NullBody

-----------------------------------------------------------------------------
(* GetRole before the per-key mutex                                        *)

\* A context that is already done, or a request that fails validation,
\* returns an error before any state is read.
Call(c) == \E r \in Requests, done \in BOOLEAN :
    LET k == ValidateAndKey(r) IN
    /\ pc[c] = "idle"
    /\ \/ /\ done \/ k = None
          /\ key' = [key EXCEPT ![c] = None]
          /\ Give(c, "error", None)
          /\ UNCHANGED pc
       \/ /\ ~done /\ k # None
          /\ pc' = [pc EXCEPT ![c] = "lookup"]
          /\ key' = [key EXCEPT ![c] = k]
          /\ Give(c, "none", None)
    /\ UNCHANGED <<mu, entries, tmp, memVars, diskVars>>

\* cachedOrNotFound, first half: the positive cache under RLock.  A key that
\* is present ends the function, even when its value is nil; the caller
\* then returns if the value is not nil and goes on if it is.
Lookup(c, from, hit, absent, nil) ==
    /\ pc[c] = from
    /\ \/ /\ NonNil(Cached(c))
          /\ pc' = [pc EXCEPT ![c] = hit]
          /\ Give(c, "ok", Cached(c))
       \/ /\ ~NonNil(Cached(c))
          /\ pc' = [pc EXCEPT ![c] = IF Cached(c) = None THEN absent ELSE nil]
          /\ UNCHANGED result
    /\ UNCHANGED <<key, mu, entries, tmp, memVars, diskVars>>

\* cachedOrNotFound, second half: the negative cache under another RLock.
IsNotFound(c, from, hit, absent) ==
    /\ pc[c] = from
    /\ \/ /\ key[c] \in notFound[Home[c]]
          /\ pc' = [pc EXCEPT ![c] = hit]
          /\ Give(c, "unknown", None)
       \/ /\ key[c] \notin notFound[Home[c]]
          /\ pc' = [pc EXCEPT ![c] = absent]
          /\ UNCHANGED result
    /\ UNCHANGED <<key, mu, entries, tmp, memVars, diskVars>>

FastLookup(c)     == Lookup(c, "lookup", "idle", "isNotFound", "lockFor")
FastIsNotFound(c) == IsNotFound(c, "isNotFound", "idle", "lockFor")

\* Faulty variant: the mutex found in the map is not reused.
LockForFresh(c) ==
    /\ Go(c, "lockFor", "lock")
    /\ fetchMu' = [fetchMu EXCEPT ![Home[c]][key[c]] = c]
    /\ mu' = [mu EXCEPT ![c] = c]
    /\ UNCHANGED <<key, entries, tmp, result, cache, notFound, owner, diskVars>>

\* lockFor: find or allocate the per-key mutex, under fetchMuG.
LockFor(c) ==
    LET found == fetchMu[Home[c]][key[c]]
        m     == IF found = None THEN c ELSE found
    IN  /\ Go(c, "lockFor", "lock")
        /\ fetchMu' = [fetchMu EXCEPT ![Home[c]][key[c]] = m]
        /\ mu' = [mu EXCEPT ![c] = m]
        /\ UNCHANGED <<key, entries, tmp, result,
                       cache, notFound, owner, diskVars>>

\* perKey.Lock(): blocks, whatever the state of the caller's context.
Lock(c) ==
    /\ Go(c, "lock", "relookup")
    /\ owner[mu[c]][key[c]] = None
    /\ owner' = [owner EXCEPT ![mu[c]][key[c]] = c]
    /\ UNCHANGED <<key, mu, entries, tmp, result,
                   cache, notFound, fetchMu, diskVars>>
-----------------------------------------------------------------------------
(* loadOrFetchLocked, with the per-key mutex held                          *)

\* Faulty variants: no second look at a cache once the mutex is held.
ReLookupSkipped(c) ==
    /\ Go(c, "relookup", "reNotFound")
    /\ UNCHANGED <<key, mu, entries, tmp, result, memVars, diskVars>>

ReLookup(c)     == Lookup(c, "relookup", "unlock", "reNotFound", "stat")
ReIsNotFound(c) == IsNotFound(c, "reNotFound", "unlock", "stat")

\* loadLocal: an error, no file, or a file older than the TTL falls through to
\* the upstream.
Stat(c) ==
    /\ pc[c] = "stat"
    /\ \/ /\ file[key[c]] # None
          /\ clock - file[key[c]].at <= TTL
          /\ pc' = [pc EXCEPT ![c] = "read"]
       \/ pc' = [pc EXCEPT ![c] = "fetch"]
    /\ UNCHANGED <<key, mu, entries, tmp, result, memVars, diskVars>>

\* loadLocal: ReadFile opens the path again, so another process may have
\* replaced the file since Stat.  A read error or undecodable bytes fall through
\* as well.
Read(c) ==
    /\ pc[c] = "read"
    /\ LET f == file[key[c]]
       IN  \/ /\ Decodes(f.body)
              /\ pc' = [pc EXCEPT ![c] = "store"]
              /\ entries' = [entries EXCEPT ![c] = f]
           \/ /\ pc' = [pc EXCEPT ![c] = "fetch"]
              /\ UNCHANGED entries
    /\ UNCHANGED <<key, mu, tmp, result, memVars, diskVars>>

Fetch(c) ==
    /\ Go(c, "fetch", "response")
    /\ UNCHANGED <<key, mu, entries, tmp, result, memVars, diskVars>>

Fail(c) ==
    /\ pc' = [pc EXCEPT ![c] = "unlock"]
    /\ Give(c, "error", None)
    /\ UNCHANGED entries

\* Faulty variant: the body is kept without decoding it.
ResponseUnchecked(c) ==
    /\ Go(c, "response", "createTemp")
    /\ \E b \in Bodies \cup {Torn} :
          entries' = [entries EXCEPT ![c] = [body |-> b, at |-> clock]]
    /\ UNCHANGED <<key, mu, tmp, result, memVars, diskVars>>

\* The request fails, because of a timeout, a transport error, a status other
\* than 200 and 404, or a context that is done by now; or the upstream
\* answers 404; or it answers 200 with a body that does or does not decode.
Response(c) ==
    /\ pc[c] = "response"
    /\ \/ Fail(c)
       \/ /\ pc' = [pc EXCEPT ![c] = "storeNotFound"]
          /\ UNCHANGED <<entries, result>>
       \/ \E b \in Bodies \cup {Torn} :
             \/ ~Decodes(b) /\ Fail(c)
             \/ /\ Decodes(b)
                /\ pc' = [pc EXCEPT ![c] = "createTemp"]
                /\ entries' = [entries EXCEPT ![c] = [body |-> b, at |-> clock]]
                /\ UNCHANGED result
    /\ UNCHANGED <<key, mu, tmp, memVars, diskVars>>

\* Faulty variant: the bytes are written at the path itself.
CreateInPlace(c) ==
    /\ Go(c, "createTemp", "write")
    /\ tmp' = [tmp EXCEPT ![c] = [body |-> Torn, at |-> clock]]
    /\ file' = [file EXCEPT ![key[c]] = [body |-> Torn, at |-> clock]]
    /\ UNCHANGED <<key, mu, entries, result, memVars, clock>>

\* persist: a fresh temporary file, its bytes, then the rename.  Each step can
\* fail, which fails the whole fetch; the temporary file is removed.
CreateTemp(c) ==
    /\ pc[c] = "createTemp"
    /\ \/ Fail(c) /\ UNCHANGED tmp
       \/ /\ pc' = [pc EXCEPT ![c] = "write"]
          /\ tmp' = [tmp EXCEPT ![c] = [body |-> Torn, at |-> clock]]
          /\ UNCHANGED <<entries, result>>
    /\ UNCHANGED <<key, mu, memVars, diskVars>>

Write(c) ==
    /\ pc[c] = "write"
    /\ \/ Fail(c) /\ tmp' = [tmp EXCEPT ![c] = None]
       \/ /\ pc' = [pc EXCEPT ![c] = "rename"]
          /\ LET whole == [body |-> entries[c].body, at |-> clock]
             IN  /\ tmp' = [tmp EXCEPT ![c] = whole]
                 /\ entries' = [entries EXCEPT ![c] = whole]
          /\ UNCHANGED result
    /\ UNCHANGED <<key, mu, memVars, diskVars>>

Rename(c) ==
    /\ pc[c] = "rename"
    /\ tmp' = [tmp EXCEPT ![c] = None]
    /\ \/ Fail(c) /\ UNCHANGED file
       \/ /\ pc' = [pc EXCEPT ![c] = "store"]
          /\ file' = [file EXCEPT ![key[c]] = tmp[c]]
          /\ UNCHANGED <<entries, result>>
    /\ UNCHANGED <<key, mu, memVars, clock>>

\* Faulty variant: the entries are returned and not kept.
StoreSkipped(c) ==
    /\ Go(c, "store", "unlock")
    /\ Give(c, "ok", entries[c])
    /\ UNCHANGED <<key, mu, entries, tmp, memVars, diskVars>>

StoreInMemory(c) ==
    /\ Go(c, "store", "unlock")
    /\ cache' = [cache EXCEPT ![Home[c]][key[c]] = entries[c]]
    /\ Give(c, "ok", entries[c])
    /\ UNCHANGED <<key, mu, entries, tmp,
                   notFound, fetchMu, owner, diskVars>>

StoreNotFound(c) ==
    /\ Go(c, "storeNotFound", "unlock")
    /\ notFound' = [notFound EXCEPT ![Home[c]] = @ \cup {key[c]}]
    /\ Give(c, "unknown", None)
    /\ UNCHANGED <<key, mu, entries, tmp,
                   cache, fetchMu, owner, diskVars>>

\* Faulty variant: a return path that forgets to unlock.
UnlockForgotten(c) ==
    /\ Go(c, "unlock", "idle")
    /\ UNCHANGED <<key, mu, entries, tmp, result, memVars, diskVars>>

\* The deferred Unlock, on every path out of loadOrFetchLocked.
Unlock(c) ==
    /\ Go(c, "unlock", "idle")
    /\ owner' = [owner EXCEPT ![mu[c]][key[c]] = None]
    /\ mu' = [mu EXCEPT ![c] = None]
    /\ entries' = [entries EXCEPT ![c] = None]
    /\ UNCHANGED <<key, tmp, result, cache, notFound, fetchMu, diskVars>>
-----------------------------------------------------------------------------
(* The environment                                                         *)

Tick ==
    /\ clock < MaxClock
    /\ clock' = clock + 1
    /\ UNCHANGED <<callVars, memVars, file>>

\* The process dies and is started again: NewManager makes empty maps.
Crash(p) ==
    LET Lost(f, v) == [c \in Callers |-> IF Home[c] = p THEN v ELSE f[c]]
        NoKey      == [k \in Keys |-> None]
    IN  /\ pc' = Lost(pc, "idle")
        /\ key' = Lost(key, None)
        /\ mu' = Lost(mu, None)
        /\ entries' = Lost(entries, None)
        /\ tmp' = Lost(tmp, None)
        /\ result' = Lost(result, NoResult)
        /\ cache' = [cache EXCEPT ![p] = NoKey]
        /\ notFound' = [notFound EXCEPT ![p] = {}]
        /\ fetchMu' = [fetchMu EXCEPT ![p] = NoKey]
        /\ owner' = Lost(owner, NoKey)
        /\ UNCHANGED diskVars

Step(c) ==
    \/ FastLookup(c) \/ FastIsNotFound(c) \/ LockFor(c) \/ Lock(c)
    \/ ReLookup(c) \/ ReIsNotFound(c) \/ Stat(c) \/ Read(c)
    \/ Fetch(c) \/ Response(c) \/ CreateTemp(c) \/ Write(c) \/ Rename(c)
    \/ StoreInMemory(c) \/ StoreNotFound(c) \/ Unlock(c)

Next ==
    \/ \E c \in Callers : Call(c) \/ Step(c)
    \/ \E p \in Procs : Crash(p)
    \/ Tick

Spec == Init /\ [][Next]_vars

\* A goroutine that can run does run, and the 30 s client timeout bounds the
\* wait for a response.  sync.Mutex is fair to waiters (its starvation mode
\* hands the lock over in order), hence the strong fairness of Lock.
FairSpec ==
    /\ Spec
    /\ \A c \in Callers : WF_vars(Step(c)) /\ SF_vars(Lock(c))
-----------------------------------------------------------------------------
(* Properties                                                              *)

\* Every variable has its type; only a caller inside loadOrFetchLocked has a
\* mutex, a decoded payload or a temporary file (manager.go:123-159, 270-302).
TypeOK ==
    /\ pc \in [Callers -> Labels]
    /\ key \in [Callers -> Keys \cup {None}]
    /\ mu \in [Callers -> Callers \cup {None}]
    /\ entries \in [Callers -> Snapshots \cup {None}]
    /\ tmp \in [Callers -> Contents \cup {None}]
    /\ result \in [Callers -> [status : Statuses, entries : Snapshots \cup {None}]]
    /\ cache \in [Procs -> [Keys -> Snapshots \cup {None}]]
    /\ notFound \in [Procs -> SUBSET Keys]
    /\ fetchMu \in [Procs -> [Keys -> Callers \cup {None}]]
    /\ owner \in [Callers -> [Keys -> Callers \cup {None}]]
    /\ file \in [Keys -> Contents \cup {None}]
    /\ clock \in Times

\* At most one goroutine of a process downloads a given key at a time, however
\* the mutexes came to be allocated: the per-key mutexes of manager.go:265-302.
SingleFlight ==
    \A c, d \in Callers :
        /\ c # d
        /\ Home[c] = Home[d]
        /\ key[c] = key[d]
        /\ pc[c] \in Fetching
        => pc[d] \notin Fetching

\* A goroutine reads the file or calls the upstream only while its process has
\* no answer for the key, positive or negative: once one caller has an answer,
\* every later or waiting caller is served from memory (manager.go:133-136,
\* 144-149, 275-278).
Loading == Fetching \cup {"stat", "read", "store", "storeNotFound"}

NoRedundantLoad ==
    \A c \in Callers :
        pc[c] \in Loading => Cached(c) = None /\ key[c] \notin notFound[Home[c]]

\* The positive and the negative cache never both hold a key, and whatever a
\* call returned is what its process still holds, so two callers of a process
\* never see different answers (manager.go:316-323, 380-385).
Coherent ==
    /\ \A p \in Procs, k \in Keys : cache[p][k] # None => k \notin notFound[p]
    /\ \A c \in Callers :
        /\ result[c].status = "ok" => result[c].entries = Cached(c)
        /\ result[c].status = "unknown" => key[c] \in notFound[Home[c]]

\* No reader of any process, after any crash, finds torn bytes at the path of a
\* key; and whatever a process serves from memory is also on disk for the next
\* one (manager.go:474-514, and the write-through order of fetchUpstream).
FilesWhole ==
    /\ \A k \in Keys : file[k] # None => Decodes(file[k].body)
    /\ \A p \in Procs, k \in Keys : cache[p][k] # None => file[k] # None

\* A GetRole call returns (or its process dies), however many callers queue on
\* the per-key mutex and whatever the upstream does.
EveryCallReturns ==
    \A c \in Callers : pc[c] # "idle" ~> pc[c] = "idle"

\* Per process and key, the two caches are one write-once cell.
Cell(p, k) ==
    CASE cache[p][k] # None -> [status |-> "ok", entries |-> cache[p][k]]
      [] cache[p][k] = None /\ k \in notFound[p] -> [status |-> "unknown", entries |-> None]
      [] OTHER -> NoResult

Memo == INSTANCE RankingsMemo WITH
            memo <- [p \in Procs |-> [k \in Keys |-> Cell(p, k)]]

\* Every step of the manager is a step of the write-once cell or leaves it
\* alone (manager.go:133-136, 181-188).
RefinesMemo == Memo!Spec
=============================================================================
