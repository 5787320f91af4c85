------------------------ MODULE RankingsManagerProofs ------------------------
(***************************************************************************)
(* Theorems of RankingsManager, for any number of processes, callers and   *)
(* keys.                                                                   *)
(***************************************************************************)
EXTENDS RankingsManager, TLAPS

\* The local variables of a goroutine that its next statement relies on.
LocalInv ==
    \A c \in Callers :
        /\ pc[c] # "idle" => key[c] \in Keys
        /\ pc[c] \in {"createTemp", "write", "rename", "store"}
           => entries[c] \in Snapshots
        /\ pc[c] = "read" => file[key[c]] # None
        /\ pc[c] = "write" => tmp[c] \in Contents
        /\ pc[c] = "rename" => tmp[c] \in Snapshots

\* Mutexes stay in their process, every goroutine uses the one in the map, and
\* the goroutines past Lock own theirs.
MutexInv ==
    /\ \A p \in Procs, k \in Keys :
          fetchMu[p][k] # None => Home[fetchMu[p][k]] = p
    /\ \A c \in Callers :
          pc[c] = "lock" \/ pc[c] \in Locked
          => /\ mu[c] \in Callers
             /\ fetchMu[Home[c]][key[c]] = mu[c]
    /\ \A c \in Callers : pc[c] \in Locked => owner[mu[c]][key[c]] = c

Inv == TypeOK /\ LocalInv /\ MutexInv

LEMMA KeysNotNone == None \notin Keys
  BY DEF Keys

\* A snapshot is a whole file.
LEMMA SnapshotsWhole ==
    /\ Snapshots \subseteq Contents
    /\ \A s \in Snapshots : s.body \in Bodies /\ s.at \in Times
    /\ \A f \in Contents : Decodes(f.body) => f \in Snapshots
    /\ \A f \in Snapshots : Decodes(f.body)
  BY AbsentAssumption DEF Snapshots, Contents, Decodes

LEMMA InitInv == Init => Inv
  BY HomeAssumption, ClockAssumption, AbsentAssumption
  DEF Init, Inv, TypeOK, LocalInv, MutexInv, Labels, Locked, NoResult, Statuses, Times

ResultType == [status : Statuses, entries : Snapshots \cup {None}]

\* A call either is refused or names a key.
LEMMA CallEffect ==
  ASSUME NEW c, Call(c)
  PROVE  /\ pc[c] = "idle"
         /\ UNCHANGED <<mu, entries, tmp, memVars, diskVars>>
         /\ \/ /\ key' = [key EXCEPT ![c] = None]
               /\ Give(c, "error", None)
               /\ UNCHANGED pc
            \/ \E k \in Keys : /\ key' = [key EXCEPT ![c] = k]
                               /\ pc' = [pc EXCEPT ![c] = "lookup"]
                               /\ Give(c, "none", None)
<1>1. PICK r \in Requests, done \in BOOLEAN :
        LET k == ValidateAndKey(r) IN
        /\ pc[c] = "idle"
        /\ \/ /\ done \/ k = None
              /\ key' = [key EXCEPT ![c] = None]
              /\ Give(c, "error", None)
              /\ UNCHANGED pc
           \/ /\ ~done /\ k # None
              /\ pc' = [pc EXCEPT ![c] = "lookup"]
              /\ key' = [key EXCEPT ![c] = k]
              /\ Give(c, "none", None)
        /\ UNCHANGED <<mu, entries, tmp, memVars, diskVars>>
  BY DEF Call
<1>2. ValidateAndKey(r) # None => ValidateAndKey(r) \in Keys
  BY DEF Keys
<1> QED
  BY <1>1, <1>2

LEMMA GiveType ==
  ASSUME result \in [Callers -> ResultType],
         NEW c \in Callers, NEW status \in Statuses, NEW snap \in Snapshots \cup {None},
         Give(c, status, snap)
  PROVE  result' \in [Callers -> ResultType]
  BY DEF Give, ResultType

LEMMA LookupTypeOK ==
  ASSUME Inv, NEW c \in Callers, NEW from \in Labels \ {"idle"}, NEW hit \in Labels,
         NEW absent \in Labels, NEW nil \in Labels,
         Lookup(c, from, hit, absent, nil)
  PROVE  TypeOK'
<1> USE DEF Inv
<1>1. Cached(c) \in Snapshots \cup {None}
  BY HomeAssumption DEF Lookup, LocalInv, TypeOK, Cached
<1>2. result' \in [Callers -> ResultType]
  BY <1>1, GiveType DEF Lookup, TypeOK, Statuses, ResultType
<1>3. pc' \in [Callers -> Labels]
  BY DEF Lookup, TypeOK
<1> QED
  BY <1>2, <1>3 DEF Lookup, TypeOK, ResultType, memVars, diskVars

LEMMA IsNotFoundTypeOK ==
  ASSUME Inv, NEW c \in Callers, NEW from, NEW hit \in Labels, NEW absent \in Labels,
         IsNotFound(c, from, hit, absent)
  PROVE  TypeOK'
<1> USE DEF Inv
<1>1. result' \in [Callers -> ResultType]
  BY GiveType DEF IsNotFound, TypeOK, Statuses, ResultType
<1>2. pc' \in [Callers -> Labels]
  BY DEF IsNotFound, TypeOK
<1> QED
  BY <1>1, <1>2 DEF IsNotFound, TypeOK, ResultType, memVars, diskVars

LEMMA NextTypeOK == Inv /\ [Next]_vars => TypeOK'
<1> SUFFICES ASSUME Inv, [Next]_vars PROVE TypeOK'
  OBVIOUS
<1> USE HomeAssumption, ClockAssumption, AbsentAssumption, KeysNotNone DEF Inv
<1>1. ASSUME NEW c \in Callers, Call(c) PROVE TypeOK'
  <2>1. UNCHANGED pc \/ pc' = [pc EXCEPT ![c] = "lookup"]
    BY <1>1, CallEffect
  <2>4. pc' \in [Callers -> Labels]
    BY <2>1 DEF TypeOK, Labels
  <2>2. key' \in [Callers -> Keys \cup {None}]
    BY <1>1, CallEffect DEF TypeOK
  <2>3. result' \in [Callers -> ResultType]
    BY <1>1, CallEffect, GiveType DEF TypeOK, Statuses, ResultType
  <2> QED
    BY <1>1, CallEffect, <2>4, <2>2, <2>3 DEF TypeOK, ResultType, memVars, diskVars
<1>2. ASSUME NEW c \in Callers, FastLookup(c) \/ ReLookup(c) PROVE TypeOK'
  <2>1. CASE FastLookup(c)
    BY <2>1, LookupTypeOK DEF FastLookup, Labels, Locked
  <2>2. CASE ReLookup(c)
    BY <2>2, LookupTypeOK DEF ReLookup, Labels, Locked
  <2> QED
    BY <1>2, <2>1, <2>2
<1>3. ASSUME NEW c \in Callers, FastIsNotFound(c) \/ ReIsNotFound(c) PROVE TypeOK'
  <2>1. CASE FastIsNotFound(c)
    BY <2>1, IsNotFoundTypeOK DEF FastIsNotFound, Labels, Locked
  <2>2. CASE ReIsNotFound(c)
    BY <2>2, IsNotFoundTypeOK DEF ReIsNotFound, Labels, Locked
  <2> QED
    BY <1>3, <2>1, <2>2
<1>4. ASSUME NEW c \in Callers, LockFor(c) PROVE TypeOK'
  BY <1>4 DEF TypeOK, LockFor, Go, LocalInv, Labels, diskVars
<1>5. ASSUME NEW c \in Callers, Lock(c) PROVE TypeOK'
  BY <1>5 DEF TypeOK, Lock, Go, Labels, Locked, diskVars
<1>6. ASSUME NEW c \in Callers, Stat(c) PROVE TypeOK'
  BY <1>6 DEF TypeOK, Stat, Labels, Locked, memVars, diskVars
<1>7. ASSUME NEW c \in Callers, Read(c) PROVE TypeOK'
  <2>1. key[c] \in Keys /\ file[key[c]] \in Contents
    BY <1>7 DEF Read, LocalInv, TypeOK
  <2>2. Decodes(file[key[c]].body) => file[key[c]] \in Snapshots
    BY <2>1, SnapshotsWhole
  <2>3. pc' \in [Callers -> Labels]
    <3>1. "store" \in Labels /\ "fetch" \in Labels
      BY DEF Labels, Locked
    <3>2. pc' = [pc EXCEPT ![c] = "store"] \/ pc' = [pc EXCEPT ![c] = "fetch"]
      BY <1>7 DEF Read
    <3> QED
      BY <3>1, <3>2 DEF TypeOK
  <2>4. entries' \in [Callers -> Snapshots \cup {None}]
    BY <1>7, <2>2 DEF TypeOK, Read
  <2> QED
    BY <1>7, <2>3, <2>4 DEF TypeOK, Read, memVars, diskVars
<1>8. ASSUME NEW c \in Callers, Fetch(c) PROVE TypeOK'
  BY <1>8 DEF TypeOK, Fetch, Go, Labels, Locked, memVars, diskVars
<1>9. ASSUME NEW c \in Callers, Fail(c)
      PROVE /\ pc' \in [Callers -> Labels]
            /\ entries' \in [Callers -> Snapshots \cup {None}]
            /\ result' \in [Callers -> [status : Statuses, entries : Snapshots \cup {None}]]
  <2>1. pc' \in [Callers -> Labels]
    BY <1>9 DEF TypeOK, Fail, Labels, Locked
  <2> QED
    BY <1>9, <2>1 DEF TypeOK, Fail, Give, Statuses
<1>10. ASSUME NEW c \in Callers, Response(c) PROVE TypeOK'
  <2>1. ASSUME NEW b \in Bodies \cup {Torn}, Decodes(b)
        PROVE [body |-> b, at |-> clock] \in Snapshots
    BY <2>1 DEF TypeOK, Snapshots, Decodes
  <2>2. UNCHANGED <<key, mu, tmp, memVars, diskVars>>
    BY <1>10 DEF Response
  <2>3. CASE Fail(c)
    BY <1>9, <2>2, <2>3 DEF TypeOK, memVars, diskVars
  <2>4. CASE pc' = [pc EXCEPT ![c] = "storeNotFound"] /\ UNCHANGED <<entries, result>>
    BY <2>2, <2>4 DEF TypeOK, memVars, diskVars, Labels, Locked
  <2>5. CASE \E b \in Bodies \cup {Torn} :
               /\ Decodes(b)
               /\ pc' = [pc EXCEPT ![c] = "createTemp"]
               /\ entries' = [entries EXCEPT ![c] = [body |-> b, at |-> clock]]
               /\ UNCHANGED result
    <3>1. pc' \in [Callers -> Labels]
      BY <2>5 DEF TypeOK, Labels, Locked
    <3> QED
      BY <2>1, <2>2, <2>5, <3>1 DEF TypeOK, memVars, diskVars
  <2> QED
    BY <1>10, <2>3, <2>4, <2>5 DEF Response
<1>11. ASSUME NEW c \in Callers, CreateTemp(c) PROVE TypeOK'
  <2>1. UNCHANGED <<key, mu, memVars, diskVars>>
    BY <1>11 DEF CreateTemp
  <2>2. CASE Fail(c) /\ UNCHANGED tmp
    BY <1>9, <2>1, <2>2 DEF TypeOK, memVars, diskVars
  <2>3. CASE /\ pc' = [pc EXCEPT ![c] = "write"]
             /\ tmp' = [tmp EXCEPT ![c] = [body |-> Torn, at |-> clock]]
             /\ UNCHANGED <<entries, result>>
    <3>1. [body |-> Torn, at |-> clock] \in Contents
      BY DEF TypeOK, Contents
    <3>2. pc' \in [Callers -> Labels]
      BY <2>3 DEF TypeOK, Labels, Locked
    <3> QED
      BY <2>1, <2>3, <3>1, <3>2 DEF TypeOK, memVars, diskVars
  <2> QED
    BY <1>11, <2>2, <2>3 DEF CreateTemp
<1>12. ASSUME NEW c \in Callers, Write(c) PROVE TypeOK'
  <2>1. UNCHANGED <<key, mu, memVars, diskVars>>
    BY <1>12 DEF Write
  <2>2. CASE Fail(c) /\ tmp' = [tmp EXCEPT ![c] = None]
    BY <1>9, <2>1, <2>2 DEF TypeOK, memVars, diskVars
  <2>3. CASE /\ pc' = [pc EXCEPT ![c] = "rename"]
             /\ LET whole == [body |-> entries[c].body, at |-> clock]
                IN  /\ tmp' = [tmp EXCEPT ![c] = whole]
                    /\ entries' = [entries EXCEPT ![c] = whole]
             /\ UNCHANGED result
    <3>1. [body |-> entries[c].body, at |-> clock] \in Snapshots
      BY <1>12 DEF Write, LocalInv, TypeOK, Snapshots
    <3>2. pc' \in [Callers -> Labels]
      BY <2>3 DEF TypeOK, Labels, Locked
    <3>3. /\ entries' \in [Callers -> Snapshots \cup {None}]
          /\ tmp' \in [Callers -> Contents \cup {None}]
      BY <2>3, <3>1, SnapshotsWhole DEF TypeOK
    <3> QED
      BY <2>1, <2>3, <3>2, <3>3 DEF TypeOK, memVars, diskVars
  <2> QED
    BY <1>12, <2>2, <2>3 DEF Write
<1>13. ASSUME NEW c \in Callers, Rename(c) PROVE TypeOK'
  <2>1. UNCHANGED <<key, mu, memVars, clock>> /\ tmp' = [tmp EXCEPT ![c] = None]
    BY <1>13 DEF Rename
  <2>2. CASE Fail(c) /\ UNCHANGED file
    BY <1>9, <2>1, <2>2 DEF TypeOK, memVars
  <2>3. CASE /\ pc' = [pc EXCEPT ![c] = "store"]
             /\ file' = [file EXCEPT ![key[c]] = tmp[c]]
             /\ UNCHANGED <<entries, result>>
    <3>1. file' \in [Keys -> Contents \cup {None}]
      BY <1>13, <2>3, SnapshotsWhole DEF Rename, LocalInv, TypeOK
    <3>2. pc' \in [Callers -> Labels]
      BY <2>3 DEF TypeOK, Labels, Locked
    <3> QED
      BY <2>1, <2>3, <3>1, <3>2 DEF TypeOK, memVars
  <2> QED
    BY <1>13, <2>2, <2>3 DEF Rename
<1>14. ASSUME NEW c \in Callers, StoreInMemory(c) PROVE TypeOK'
  <2>1. key[c] \in Keys /\ entries[c] \in Snapshots
    BY <1>14 DEF StoreInMemory, Go, LocalInv
  <2>2. cache' \in [Procs -> [Keys -> Snapshots \cup {None}]]
    BY <1>14, <2>1 DEF StoreInMemory, TypeOK
  <2>3. pc' \in [Callers -> Labels]
    BY <1>14 DEF StoreInMemory, Go, TypeOK, Labels, Locked
  <2>4. result' \in [Callers -> [status : Statuses, entries : Snapshots \cup {None}]]
    BY <1>14, <2>1 DEF StoreInMemory, Give, TypeOK, Statuses
  <2> QED
    BY <1>14, <2>2, <2>3, <2>4 DEF StoreInMemory, TypeOK, diskVars
<1>15. ASSUME NEW c \in Callers, StoreNotFound(c) PROVE TypeOK'
  <2>1. notFound' \in [Procs -> SUBSET Keys]
    BY <1>15 DEF StoreNotFound, Go, LocalInv, TypeOK
  <2>2. pc' \in [Callers -> Labels]
    BY <1>15 DEF StoreNotFound, Go, TypeOK, Labels, Locked
  <2>3. result' \in [Callers -> [status : Statuses, entries : Snapshots \cup {None}]]
    BY <1>15 DEF StoreNotFound, Give, TypeOK, Statuses
  <2> QED
    BY <1>15, <2>1, <2>2, <2>3 DEF StoreNotFound, TypeOK, diskVars
<1>16. ASSUME NEW c \in Callers, Unlock(c) PROVE TypeOK'
  <2>1. mu[c] \in Callers /\ key[c] \in Keys
    BY <1>16 DEF Unlock, Go, MutexInv, LocalInv, Locked
  <2> QED
    BY <1>16, <2>1 DEF Unlock, Go, TypeOK, Labels, diskVars
<1>17. ASSUME NEW p \in Procs, Crash(p) PROVE TypeOK'
  BY <1>17 DEF Crash, TypeOK, NoResult, Labels, Statuses, diskVars
<1>18. CASE Tick
  BY <1>18 DEF Tick, TypeOK, Times, callVars, memVars
<1>19. CASE UNCHANGED vars
  BY <1>19 DEF TypeOK, vars, callVars, memVars, diskVars
<1> QED
  BY <1>1, <1>2, <1>3, <1>4, <1>5, <1>6, <1>7, <1>8, <1>10, <1>11, <1>12, <1>13,
     <1>14, <1>15, <1>16, <1>17, <1>18, <1>19 DEF Next, Step

LEMMA NextLocalInv == Inv /\ [Next]_vars => LocalInv'
<1> SUFFICES ASSUME Inv, [Next]_vars PROVE LocalInv'
  OBVIOUS
<1> USE HomeAssumption, AbsentAssumption, KeysNotNone DEF Inv
<1>1. ASSUME NEW c \in Callers, Call(c) PROVE LocalInv'
  <2>1. CASE key' = [key EXCEPT ![c] = None] /\ UNCHANGED pc
    BY <1>1, CallEffect, <2>1 DEF TypeOK, LocalInv, memVars, diskVars
  <2>2. CASE \E k \in Keys : /\ key' = [key EXCEPT ![c] = k]
                              /\ pc' = [pc EXCEPT ![c] = "lookup"]
    <3>1. /\ pc'[c] = "lookup" /\ key'[c] \in Keys
          /\ \A d \in Callers : d # c => pc'[d] = pc[d] /\ key'[d] = key[d]
      BY <2>2 DEF TypeOK
    <3>2. UNCHANGED <<entries, tmp, file>>
      BY <1>1, CallEffect DEF diskVars
    <3> QED
      BY <3>1, <3>2 DEF LocalInv
  <2> QED
    BY <1>1, CallEffect, <2>1, <2>2
<1>2. ASSUME NEW c \in Callers, FastLookup(c) PROVE LocalInv'
  BY <1>2 DEF TypeOK, LocalInv, FastLookup, Lookup, memVars, diskVars
<1>3. ASSUME NEW c \in Callers, ReLookup(c) PROVE LocalInv'
  BY <1>3 DEF TypeOK, LocalInv, ReLookup, Lookup, memVars, diskVars
<1>4. ASSUME NEW c \in Callers, FastIsNotFound(c) PROVE LocalInv'
  BY <1>4 DEF TypeOK, LocalInv, FastIsNotFound, IsNotFound, memVars, diskVars
<1>5. ASSUME NEW c \in Callers, ReIsNotFound(c) PROVE LocalInv'
  BY <1>5 DEF TypeOK, LocalInv, ReIsNotFound, IsNotFound, memVars, diskVars
<1>6. ASSUME NEW c \in Callers, LockFor(c) \/ Lock(c) \/ Fetch(c) PROVE LocalInv'
  BY <1>6 DEF TypeOK, LocalInv, LockFor, Lock, Fetch, Go, memVars, diskVars
<1>7. ASSUME NEW c \in Callers, Stat(c) PROVE LocalInv'
  BY <1>7 DEF TypeOK, LocalInv, Stat, memVars, diskVars
<1>8. ASSUME NEW c \in Callers, Read(c) PROVE LocalInv'
  <2>1. Decodes(file[key[c]].body) => file[key[c]] \in Snapshots
    BY <1>8, SnapshotsWhole DEF Read, LocalInv, TypeOK
  <2> QED
    BY <1>8, <2>1 DEF TypeOK, LocalInv, Read, memVars, diskVars
<1>9. ASSUME NEW c \in Callers, Response(c) PROVE LocalInv'
  <2>1. \A b \in Bodies \cup {Torn} : Decodes(b) => [body |-> b, at |-> clock] \in Snapshots
    BY DEF TypeOK, Snapshots, Decodes
  <2> QED
    BY <1>9, <2>1 DEF TypeOK, LocalInv, Response, Fail, memVars, diskVars
<1>10. ASSUME NEW c \in Callers, CreateTemp(c) PROVE LocalInv'
  <2>1. [body |-> Torn, at |-> clock] \in Contents
    BY DEF TypeOK, Contents
  <2> QED
    BY <1>10, <2>1 DEF TypeOK, LocalInv, CreateTemp, Fail, memVars, diskVars
<1>11. ASSUME NEW c \in Callers, Write(c) PROVE LocalInv'
  <2>1. [body |-> entries[c].body, at |-> clock] \in Snapshots
    BY <1>11 DEF Write, LocalInv, TypeOK, Snapshots
  <2> QED
    BY <1>11, <2>1 DEF TypeOK, LocalInv, Write, Fail, memVars, diskVars
<1>12. ASSUME NEW c \in Callers, Rename(c) PROVE LocalInv'
  <2>1. tmp[c] # None
    BY <1>12 DEF Rename, LocalInv
  <2> QED
    BY <1>12, <2>1 DEF TypeOK, LocalInv, Rename, Fail, memVars
<1>13. ASSUME NEW c \in Callers, StoreInMemory(c) \/ StoreNotFound(c) \/ Unlock(c)
       PROVE LocalInv'
  BY <1>13 DEF TypeOK, LocalInv, StoreInMemory, StoreNotFound, Unlock, Go, diskVars
<1>14. ASSUME NEW p \in Procs, Crash(p) PROVE LocalInv'
  BY <1>14 DEF TypeOK, LocalInv, Crash, diskVars
<1>15. CASE Tick \/ UNCHANGED vars
  BY <1>15 DEF Tick, LocalInv, vars, callVars, memVars, diskVars
<1> QED
  BY <1>1, <1>2, <1>3, <1>4, <1>5, <1>6, <1>7, <1>8, <1>9, <1>10, <1>11, <1>12,
     <1>13, <1>14, <1>15 DEF Next, Step

\* Each action either leaves the mutexes alone and moves one goroutine among
\* statements with the same claim on them, or allocates, takes or releases one.
LEMMA NextMutexInv == Inv /\ [Next]_vars => MutexInv'
<1> SUFFICES ASSUME Inv, [Next]_vars PROVE MutexInv'
  OBVIOUS
<1> USE HomeAssumption, AbsentAssumption, KeysNotNone DEF Inv
<1> DEFINE Keep(c) == /\ UNCHANGED <<key, mu, fetchMu, owner>>
                      /\ \E l \in Labels : pc' = [pc EXCEPT ![c] = l]
                      /\ pc'[c] \in {"lock"} \cup Locked => pc[c] \in Locked
<1>1. ASSUME NEW c \in Callers, Keep(c) PROVE MutexInv'
  <2>1. \A d \in Callers : pc'[d] = "lock" \/ pc'[d] \in Locked
                          => pc[d] = "lock" \/ pc[d] \in Locked
    BY <1>1 DEF TypeOK
  <2>2. \A d \in Callers : pc'[d] \in Locked => pc[d] \in Locked
    BY <1>1 DEF TypeOK
  <2> QED
    BY <1>1, <2>1, <2>2 DEF MutexInv
<1>2. ASSUME NEW c \in Callers, Call(c) PROVE MutexInv'
  <2>1. /\ UNCHANGED <<mu, fetchMu, owner>>
        /\ \A d \in Callers : d # c => pc'[d] = pc[d] /\ key'[d] = key[d]
        /\ pc'[c] \in {"idle", "lookup"}
    BY <1>2, CallEffect DEF TypeOK, memVars
  <2> QED
    BY <2>1 DEF MutexInv, Locked
<1>3. ASSUME NEW c \in Callers, FastLookup(c) \/ ReLookup(c) PROVE MutexInv'
  <2>1. /\ UNCHANGED <<key, mu, fetchMu, owner>>
        /\ \/ pc[c] = "lookup" /\ \E l \in {"idle", "isNotFound", "lockFor"} : pc' = [pc EXCEPT ![c] = l]
           \/ pc[c] \in Locked /\ \E l \in Labels : pc' = [pc EXCEPT ![c] = l]
    BY <1>3 DEF FastLookup, ReLookup, Lookup, Labels, Locked, memVars
  <2>2. pc'[c] \in {"lock"} \cup Locked => pc[c] \in Locked
    BY <2>1 DEF TypeOK, Locked
  <2> QED
    BY <1>1, <2>1, <2>2 DEF Labels
<1>4. ASSUME NEW c \in Callers, FastIsNotFound(c) \/ ReIsNotFound(c) PROVE MutexInv'
  BY <1>1, <1>4 DEF FastIsNotFound, ReIsNotFound, IsNotFound, TypeOK, Labels, Locked, memVars
<1>5. ASSUME NEW c \in Callers, LockFor(c) PROVE MutexInv'
  BY <1>5 DEF TypeOK, MutexInv, LocalInv, LockFor, Go, Locked, diskVars
<1>6. ASSUME NEW c \in Callers, Lock(c) PROVE MutexInv'
  BY <1>6 DEF TypeOK, MutexInv, LocalInv, Lock, Go, Locked, diskVars
<1>7. ASSUME NEW c \in Callers, Stat(c) \/ Read(c) \/ Fetch(c) PROVE MutexInv'
  BY <1>1, <1>7 DEF Stat, Read, Fetch, Go, TypeOK, Labels, Locked, memVars
<1>8. ASSUME NEW c \in Callers, Response(c) \/ CreateTemp(c) \/ Write(c) \/ Rename(c)
      PROVE MutexInv'
  BY <1>1, <1>8 DEF Response, CreateTemp, Write, Rename, Fail, TypeOK, Labels, Locked, memVars
<1>9. ASSUME NEW c \in Callers, StoreInMemory(c) \/ StoreNotFound(c) PROVE MutexInv'
  BY <1>1, <1>9 DEF StoreInMemory, StoreNotFound, Go, TypeOK, Labels, Locked
<1>10. ASSUME NEW c \in Callers, Unlock(c) PROVE MutexInv'
  BY <1>10 DEF TypeOK, MutexInv, LocalInv, Unlock, Go, Locked
<1>11. ASSUME NEW p \in Procs, Crash(p) PROVE MutexInv'
  BY <1>11 DEF TypeOK, MutexInv, LocalInv, Crash, Locked
<1>12. CASE Tick \/ UNCHANGED vars
  BY <1>12 DEF Tick, MutexInv, vars, callVars, memVars
<1> QED
  BY <1>2, <1>3, <1>4, <1>5, <1>6, <1>7, <1>8, <1>9, <1>10, <1>11, <1>12 DEF Next, Step

\* Every variable keeps its type in every behaviour of the manager.
THEOREM TypeCorrect == Spec => []TypeOK
<1>1. Init => Inv
  BY InitInv
<1>2. Inv /\ [Next]_vars => Inv'
  BY NextTypeOK, NextLocalInv, NextMutexInv DEF Inv
<1>3. Inv => TypeOK
  BY DEF Inv
<1> QED
  BY <1>1, <1>2, <1>3, PTL DEF Spec

LEMMA Exclusion ==
  ASSUME Inv, NEW c \in Callers, NEW d \in Callers,
         pc[c] \in Locked, pc[d] \in Locked, Home[c] = Home[d], key[c] = key[d]
  PROVE  c = d
  BY DEF Inv, MutexInv

\* At most one goroutine of a process downloads a key at a time, for any
\* number of callers and crashes: the per-key mutexes of loadOrFetchLocked.
THEOREM SingleFlightHolds == Spec => []SingleFlight
<1>1. Init => Inv
  BY InitInv
<1>2. Inv /\ [Next]_vars => Inv'
  BY NextTypeOK, NextLocalInv, NextMutexInv DEF Inv
<1>3. Inv => SingleFlight
  BY Exclusion DEF SingleFlight, Fetching, Locked
<1> QED
  BY <1>1, <1>2, <1>3, PTL DEF Spec

-----------------------------------------------------------------------------
(* Files                                                                   *)

FilesInv ==
    /\ FilesWhole
    /\ \A c \in Callers : pc[c] = "store" => file[key[c]] # None

LEMMA NextFilesInv == Inv /\ FilesInv /\ [Next]_vars => FilesInv'
<1> SUFFICES ASSUME Inv, FilesInv, [Next]_vars PROVE FilesInv'
  OBVIOUS
<1> USE HomeAssumption, AbsentAssumption, KeysNotNone DEF Inv
<1> DEFINE Keep(c) == /\ UNCHANGED <<key, cache, file>>
                      /\ \A d \in Callers : d # c => pc'[d] = pc[d]
                      /\ pc'[c] # "store"
<1>1. ASSUME NEW c \in Callers, Keep(c) PROVE FilesInv'
  BY <1>1 DEF FilesInv, FilesWhole, Decodes
<1>2. ASSUME NEW c \in Callers, Call(c) PROVE FilesInv'
  <2>1. /\ UNCHANGED <<cache, file>>
        /\ \A d \in Callers : d # c => pc'[d] = pc[d] /\ key'[d] = key[d]
        /\ pc'[c] \in {"idle", "lookup"}
    BY <1>2, CallEffect DEF TypeOK, memVars, diskVars
  <2> QED
    BY <2>1 DEF FilesInv, FilesWhole, Decodes
<1>3. ASSUME NEW c \in Callers, FastLookup(c) \/ ReLookup(c) PROVE FilesInv'
  BY <1>1, <1>3 DEF FastLookup, ReLookup, Lookup, TypeOK, memVars, diskVars
<1>4. ASSUME NEW c \in Callers, FastIsNotFound(c) \/ ReIsNotFound(c) PROVE FilesInv'
  BY <1>1, <1>4 DEF FastIsNotFound, ReIsNotFound, IsNotFound, TypeOK, memVars, diskVars
<1>5. ASSUME NEW c \in Callers, LockFor(c) \/ Lock(c) \/ Stat(c) \/ Fetch(c) \/ Unlock(c)
      PROVE FilesInv'
  BY <1>1, <1>5 DEF LockFor, Lock, Stat, Fetch, Unlock, Go, TypeOK, memVars, diskVars
<1>6. ASSUME NEW c \in Callers, Read(c) PROVE FilesInv'
  BY <1>6 DEF Read, FilesInv, FilesWhole, LocalInv, TypeOK, memVars, diskVars
<1>7. ASSUME NEW c \in Callers, Response(c) \/ CreateTemp(c) \/ Write(c) PROVE FilesInv'
  BY <1>1, <1>7 DEF Response, CreateTemp, Write, Fail, TypeOK, memVars, diskVars
<1>8. ASSUME NEW c \in Callers, Rename(c) PROVE FilesInv'
  <2>1. tmp[c] # None /\ Decodes(tmp[c].body) /\ key[c] \in Keys
    BY <1>8, SnapshotsWhole DEF Rename, LocalInv
  <2> QED
    <3>1. \A k \in Keys : /\ file'[k] = file[k] \/ file'[k] = tmp[c]
                          /\ UNCHANGED cache
      BY <1>8, <2>1 DEF Rename, TypeOK, memVars
    <3>2. /\ \A d \in Callers : d # c => pc'[d] = pc[d]
          /\ UNCHANGED key
          /\ pc'[c] = "store" => file'[key[c]] = tmp[c]
      BY <1>8, <2>1 DEF Rename, Fail, TypeOK
    <3> QED
      BY <2>1, <3>1, <3>2 DEF FilesInv, FilesWhole, LocalInv, Decodes
<1>9. ASSUME NEW c \in Callers, StoreInMemory(c) PROVE FilesInv'
  <2>1. file[key[c]] # None /\ key[c] \in Keys
    BY <1>9 DEF StoreInMemory, Go, FilesInv, LocalInv
  <2> QED
    BY <1>9, <2>1 DEF StoreInMemory, Go, FilesInv, FilesWhole, TypeOK, diskVars, Decodes
<1>10. ASSUME NEW c \in Callers, StoreNotFound(c) PROVE FilesInv'
  BY <1>1, <1>10 DEF StoreNotFound, Go, TypeOK, diskVars
<1>11. ASSUME NEW p \in Procs, Crash(p) PROVE FilesInv'
  BY <1>11 DEF Crash, FilesInv, FilesWhole, TypeOK, diskVars, Decodes
<1>12. CASE Tick \/ UNCHANGED vars
  BY <1>12 DEF Tick, FilesInv, FilesWhole, vars, callVars, memVars, diskVars, Decodes
<1> QED
  BY <1>2, <1>3, <1>4, <1>5, <1>6, <1>7, <1>8, <1>9, <1>10, <1>11, <1>12 DEF Next, Step

\* Whatever crashes or overlaps between processes, the path of a key never
\* holds torn bytes, and what a process serves from memory is also on disk:
\* persist's temporary file and rename, and its place before storeInMemory.
THEOREM FilesWholeHolds == Spec => []FilesWhole
<1>1. Init => Inv /\ FilesInv
  BY InitInv DEF Init, FilesInv, FilesWhole
<1>2. Inv /\ FilesInv /\ [Next]_vars => Inv' /\ FilesInv'
  BY NextTypeOK, NextLocalInv, NextMutexInv, NextFilesInv DEF Inv
<1>3. FilesInv => FilesWhole
  BY DEF FilesInv
<1> QED
  BY <1>1, <1>2, <1>3, PTL DEF Spec

-----------------------------------------------------------------------------
(* Answers                                                                 *)

\* A nil slice in the cache is not an answer, so what follows needs an upstream
\* that never serves the document null.
NoNull == NullBody \notin Bodies

Exclusive ==
    \A p \in Procs, k \in Keys : cache[p][k] # None => k \notin notFound[p]

\* What a goroutine knows of the two caches at its next statement, and what
\* they say of the outcome it returned.
Knows(c) ==
    /\ pc[c] \in Loading => Cached(c) = None /\ key[c] \notin notFound[Home[c]]
    /\ pc[c] = "reNotFound" => Cached(c) = None
    /\ pc[c] \notin {"idle", "unlock"} => result[c] = NoResult
    /\ result[c].status = "ok"
       => key[c] \in Keys /\ Cached(c) # None /\ result[c].entries = Cached(c)
    /\ result[c].status = "unknown"
       => /\ key[c] \in Keys /\ key[c] \in notFound[Home[c]]
          /\ result[c].entries = None

AnswerInv == Exclusive /\ \A c \in Callers : Knows(c)

\* c's step leaves the caches and the other goroutines alone.
Quiet(c) ==
    /\ UNCHANGED <<cache, notFound>>
    /\ \A d \in Callers \ {c} : /\ pc'[d] = pc[d] /\ key'[d] = key[d]
                               /\ result'[d] = result[d]

LEMMA QuietAnswerInv ==
  ASSUME AnswerInv, NEW c \in Callers, Quiet(c), Knows(c)'
  PROVE  AnswerInv'
<1>1. \A d \in Callers \ {c} : Knows(d)'
  BY DEF AnswerInv, Knows, Quiet, Cached
<1> QED
  BY <1>1 DEF AnswerInv, Exclusive, Quiet

\* A failed call gives up its claim on the caches.
LEMMA FailKnows ==
  ASSUME TypeOK, NEW c \in Callers, Fail(c), UNCHANGED <<key, cache, notFound>>
  PROVE  Quiet(c) /\ Knows(c)'
  BY DEF TypeOK, Fail, Give, Quiet, Knows, Loading, Fetching

LEMMA NextAnswerInv == NoNull /\ Inv /\ AnswerInv /\ [Next]_vars => AnswerInv'
<1> SUFFICES ASSUME NoNull, Inv, AnswerInv, [Next]_vars PROVE AnswerInv'
  OBVIOUS
<1> USE HomeAssumption, AbsentAssumption, KeysNotNone DEF Inv
<1>1. ASSUME NEW c \in Callers, Call(c) PROVE AnswerInv'
  <2>1. Quiet(c)
    BY <1>1, CallEffect DEF TypeOK, Give, Quiet, memVars
  <2>2. \/ pc'[c] = "lookup" /\ result'[c] = NoResult
        \/ pc'[c] = "idle" /\ result'[c].status = "error"
    BY <1>1, CallEffect DEF TypeOK, Give, NoResult
  <2>3. Knows(c)'
    BY <2>2 DEF Knows, Loading, Fetching, NoResult
  <2> QED
    BY <2>1, <2>3, QuietAnswerInv
<1>2. ASSUME NEW c \in Callers, FastLookup(c) PROVE AnswerInv'
  <2>1. Quiet(c)
    BY <1>2 DEF FastLookup, Lookup, Give, Quiet, TypeOK, memVars
  <2>2. Knows(c)'
    BY <1>2 DEF FastLookup, Lookup, Give, Knows, AnswerInv, LocalInv, TypeOK, memVars,
                Cached, NonNil, Loading, Fetching, NoResult
  <2> QED
    BY <2>1, <2>2, QuietAnswerInv
<1>3. ASSUME NEW c \in Callers, ReLookup(c) PROVE AnswerInv'
  <2>1. Quiet(c)
    BY <1>3 DEF ReLookup, Lookup, Give, Quiet, TypeOK, memVars
  <2>2. NonNil(Cached(c)) \/ Cached(c) = None
    BY <1>3 DEF ReLookup, Lookup, NonNil, LocalInv, TypeOK, Cached, NoNull, Snapshots
  <2>3. /\ UNCHANGED <<key, cache, notFound>>
        /\ key[c] \in Keys
        /\ \/ /\ pc'[c] = "unlock" /\ Cached(c) # None
              /\ result'[c] = [status |-> "ok", entries |-> Cached(c)]
           \/ /\ pc'[c] = "reNotFound" /\ Cached(c) = None
              /\ result'[c] = result[c]
    BY <1>3, <2>2 DEF ReLookup, Lookup, Give, LocalInv, TypeOK, memVars, NonNil
  <2>4. Cached(c)' = Cached(c) /\ result[c] = NoResult
    BY <1>3, <2>3 DEF ReLookup, Lookup, AnswerInv, Knows, Cached
  <2>5. Knows(c)'
    BY <2>3, <2>4 DEF Knows, Loading, Fetching, NoResult
  <2> QED
    BY <2>1, <2>5, QuietAnswerInv
<1>4. ASSUME NEW c \in Callers, FastIsNotFound(c) PROVE AnswerInv'
  <2>1. Quiet(c)
    BY <1>4 DEF FastIsNotFound, IsNotFound, Give, Quiet, TypeOK, memVars
  <2>2. /\ UNCHANGED <<key, cache, notFound>>
        /\ key[c] \in Keys
        /\ \/ /\ pc'[c] = "idle" /\ key[c] \in notFound[Home[c]]
              /\ result'[c] = [status |-> "unknown", entries |-> None]
           \/ pc'[c] = "lockFor" /\ result'[c] = result[c]
    BY <1>4 DEF FastIsNotFound, IsNotFound, Give, LocalInv, TypeOK, memVars
  <2>3. result[c] = NoResult
    BY <1>4 DEF FastIsNotFound, IsNotFound, AnswerInv, Knows
  <2>4. Knows(c)'
    BY <2>2, <2>3 DEF Knows, Loading, Fetching, NoResult
  <2> QED
    BY <2>1, <2>4, QuietAnswerInv
<1>5. ASSUME NEW c \in Callers, ReIsNotFound(c) PROVE AnswerInv'
  <2>1. Quiet(c)
    BY <1>5 DEF ReIsNotFound, IsNotFound, Give, Quiet, TypeOK, memVars
  <2>2. /\ UNCHANGED <<key, cache, notFound>>
        /\ key[c] \in Keys
        /\ \/ /\ pc'[c] = "unlock" /\ key[c] \in notFound[Home[c]]
              /\ result'[c] = [status |-> "unknown", entries |-> None]
           \/ /\ pc'[c] = "stat" /\ key[c] \notin notFound[Home[c]]
              /\ result'[c] = result[c]
    BY <1>5 DEF ReIsNotFound, IsNotFound, Give, LocalInv, TypeOK, memVars
  <2>3. Cached(c) = None /\ Cached(c)' = Cached(c) /\ result[c] = NoResult
    BY <1>5, <2>2 DEF ReIsNotFound, IsNotFound, AnswerInv, Knows, Cached
  <2>4. Knows(c)'
    BY <2>2, <2>3 DEF Knows, Loading, Fetching, NoResult
  <2> QED
    BY <2>1, <2>4, QuietAnswerInv
<1>6. ASSUME NEW c \in Callers, LockFor(c) \/ Lock(c) PROVE AnswerInv'
  <2>1. Quiet(c)
    BY <1>6 DEF LockFor, Lock, Go, Quiet, TypeOK
  <2>2. /\ UNCHANGED <<key, cache, notFound, result>>
        /\ pc[c] \in {"lockFor", "lock"} /\ pc'[c] \in {"lock", "relookup"}
    BY <1>6 DEF LockFor, Lock, Go, TypeOK
  <2>3. result[c] = NoResult
    BY <2>2 DEF AnswerInv, Knows
  <2>4. Knows(c)'
    BY <2>2, <2>3 DEF Knows, Loading, Fetching, NoResult
  <2> QED
    BY <2>1, <2>4, QuietAnswerInv
<1>7. ASSUME NEW c \in Callers, Stat(c) \/ Read(c) \/ Fetch(c) PROVE AnswerInv'
  <2>1. Quiet(c)
    BY <1>7 DEF Stat, Read, Fetch, Go, Quiet, TypeOK, memVars
  <2>2. Knows(c)'
    BY <1>7 DEF Stat, Read, Fetch, Go, Knows, AnswerInv, TypeOK, memVars, Cached,
                Loading, Fetching, NoResult
  <2> QED
    BY <2>1, <2>2, QuietAnswerInv
<1>8. ASSUME NEW c \in Callers, pc[c] \in Fetching, ~Fail(c),
             Response(c) \/ CreateTemp(c) \/ Write(c) \/ Rename(c)
      PROVE  AnswerInv'
  <2>1. /\ UNCHANGED <<key, cache, notFound, result>>
        /\ \E l \in Loading : pc' = [pc EXCEPT ![c] = l]
    BY <1>8 DEF Response, CreateTemp, Write, Rename, memVars, Loading, Fetching
  <2>2. Quiet(c) /\ pc'[c] \in Loading
    BY <2>1 DEF Quiet, TypeOK
  <2>3. Knows(c)'
    BY <1>8, <2>1, <2>2 DEF Knows, AnswerInv, Cached, Loading, Fetching, NoResult
  <2> QED
    BY <2>2, <2>3, QuietAnswerInv
<1>9. ASSUME NEW c \in Callers, Fail(c),
             Response(c) \/ CreateTemp(c) \/ Write(c) \/ Rename(c)
      PROVE  AnswerInv'
  <2>1. UNCHANGED <<key, cache, notFound>>
    BY <1>9 DEF Response, CreateTemp, Write, Rename, memVars
  <2> QED
    BY <1>9, <2>1, FailKnows, QuietAnswerInv
<1>10. ASSUME NEW c \in Callers, StoreInMemory(c) PROVE AnswerInv'
  <2>1. /\ pc[c] = "store" /\ key[c] \in Keys /\ entries[c] \in Snapshots
        /\ entries[c] # None
        /\ Cached(c) = None /\ key[c] \notin notFound[Home[c]]
    BY <1>10 DEF StoreInMemory, Go, LocalInv, AnswerInv, Knows, Loading
  <2>2. \A p \in Procs, k \in Keys :
           cache'[p][k] = IF p = Home[c] /\ k = key[c] THEN entries[c] ELSE cache[p][k]
    BY <1>10, <2>1 DEF StoreInMemory, TypeOK
  <2>3. UNCHANGED <<key, notFound>>
    BY <1>10 DEF StoreInMemory
  <2>4. \A d \in Callers : d # c => pc'[d] = pc[d] /\ result'[d] = result[d]
    BY <1>10 DEF StoreInMemory, Go, Give, TypeOK
  <2>5. \A d \in Callers : d # c /\ pc[d] \in Locked => Home[d] # Home[c] \/ key[d] # key[c]
    BY <2>1, Exclusion DEF Locked
  <2>6. ASSUME NEW d \in Callers, d # c PROVE Knows(d)'
    <3>1. CASE Home[d] = Home[c] /\ key[d] = key[c]
      BY <2>1, <2>3, <2>4, <2>5, <2>6, <3>1
      DEF AnswerInv, Knows, Cached, Loading, Fetching, Locked
    <3>2. CASE key[d] \in Keys /\ ~(Home[d] = Home[c] /\ key[d] = key[c])
      BY <2>2, <2>3, <2>4, <2>6, <3>2 DEF AnswerInv, Knows, Cached
    <3>3. CASE key[d] \notin Keys
      BY <2>3, <2>4, <2>6, <3>3
      DEF AnswerInv, Knows, LocalInv, Loading, Fetching
    <3> QED
      BY <3>1, <3>2, <3>3
  <2>7. Knows(c)'
    <3>1. /\ pc'[c] = "unlock" /\ result'[c].status = "ok"
          /\ result'[c].entries = entries[c] /\ Cached(c)' = entries[c]
      BY <1>10, <2>1, <2>2, <2>3 DEF StoreInMemory, Go, Give, TypeOK, Cached
    <3> QED
      BY <2>1, <2>3, <3>1 DEF Knows, Loading, Fetching
  <2>8. Exclusive'
    BY <2>1, <2>2, <2>3 DEF AnswerInv, Exclusive
  <2> QED
    BY <2>6, <2>7, <2>8 DEF AnswerInv
<1>11. ASSUME NEW c \in Callers, StoreNotFound(c) PROVE AnswerInv'
  <2>1. /\ pc[c] = "storeNotFound" /\ key[c] \in Keys
        /\ Cached(c) = None /\ key[c] \notin notFound[Home[c]]
    BY <1>11 DEF StoreNotFound, Go, LocalInv, AnswerInv, Knows, Loading
  <2>2. \A p \in Procs, k \in Keys :
           k \in notFound'[p] <=> k \in notFound[p] \/ (p = Home[c] /\ k = key[c])
    BY <1>11 DEF StoreNotFound, TypeOK
  <2>3. UNCHANGED <<key, cache>>
    BY <1>11 DEF StoreNotFound
  <2>4. \A d \in Callers : d # c => pc'[d] = pc[d] /\ result'[d] = result[d]
    BY <1>11 DEF StoreNotFound, Go, Give, TypeOK
  <2>5. \A d \in Callers : d # c /\ pc[d] \in Locked => Home[d] # Home[c] \/ key[d] # key[c]
    BY <2>1, Exclusion DEF Locked
  <2>6. ASSUME NEW d \in Callers, d # c PROVE Knows(d)'
    <3>1. Home[d] \in Procs /\ Cached(d)' = Cached(d)
      BY <2>3 DEF Cached
    <3>2. pc[d] \in Loading => key[d] \in Keys
      BY DEF LocalInv, Loading, Fetching
    <3>3. pc[d] \in Loading => key[d] \notin notFound'[Home[d]]
      BY <2>2, <2>5, <2>6, <3>1, <3>2 DEF AnswerInv, Knows, Loading, Fetching, Locked
    <3> QED
      BY <2>2, <2>3, <2>4, <2>6, <3>1, <3>3 DEF AnswerInv, Knows
  <2>7. Knows(c)'
    <3>1. /\ pc'[c] = "unlock" /\ result'[c].status = "unknown"
          /\ result'[c].entries = None
      BY <1>11 DEF StoreNotFound, Go, Give, TypeOK
    <3> QED
      BY <2>1, <2>2, <2>3, <3>1 DEF Knows, Loading, Fetching
  <2>8. Exclusive'
    BY <2>1, <2>2, <2>3 DEF AnswerInv, Exclusive, Cached
  <2> QED
    BY <2>6, <2>7, <2>8 DEF AnswerInv
<1>12. ASSUME NEW c \in Callers, Unlock(c) PROVE AnswerInv'
  <2>1. Quiet(c)
    BY <1>12 DEF Unlock, Go, Quiet, TypeOK
  <2>2. Knows(c)'
    BY <1>12 DEF Unlock, Go, Knows, AnswerInv, TypeOK, Cached, Loading, Fetching
  <2> QED
    BY <2>1, <2>2, QuietAnswerInv
<1>13. ASSUME NEW p \in Procs, Crash(p) PROVE AnswerInv'
  <2>1. ASSUME NEW d \in Callers, Home[d] = p PROVE Knows(d)'
    BY <1>13, <2>1 DEF Crash, Knows, NoResult, Loading, Fetching
  <2>2. ASSUME NEW d \in Callers, Home[d] # p PROVE Knows(d)'
    <3>1. /\ pc'[d] = pc[d] /\ key'[d] = key[d] /\ result'[d] = result[d]
          /\ cache'[Home[d]] = cache[Home[d]] /\ notFound'[Home[d]] = notFound[Home[d]]
      BY <1>13, <2>2 DEF Crash, TypeOK
    <3> QED
      BY <3>1 DEF AnswerInv, Knows, Cached
  <2>3. Exclusive'
    BY <1>13 DEF Crash, AnswerInv, Exclusive, TypeOK
  <2> QED
    BY <2>1, <2>2, <2>3 DEF AnswerInv
<1>14. CASE Tick \/ UNCHANGED vars
  BY <1>14 DEF Tick, AnswerInv, Exclusive, Knows, Cached, vars, callVars, memVars, diskVars
<1>15. ASSUME NEW c \in Callers, Response(c) \/ CreateTemp(c) \/ Write(c) \/ Rename(c)
       PROVE  pc[c] \in Fetching
  BY <1>15 DEF Response, CreateTemp, Write, Rename, Fetching
<1> QED
  BY <1>1, <1>2, <1>3, <1>4, <1>5, <1>6, <1>7, <1>8, <1>9, <1>10, <1>11, <1>12,
     <1>13, <1>14, <1>15 DEF Next, Step

LEMMA InitAnswerInv == Init => AnswerInv
  BY DEF Init, AnswerInv, Exclusive, Knows, NoResult, Loading, Fetching

\* Once a process holds an answer for a key, no goroutine of it reads the file
\* or calls the upstream for that key again.
THEOREM NoRedundantLoadHolds == NoNull => (Spec => []NoRedundantLoad)
<1> SUFFICES ASSUME NoNull PROVE Spec => []NoRedundantLoad
  OBVIOUS
<1>1. Init => Inv /\ AnswerInv
  BY InitInv, InitAnswerInv
<1>2. Inv /\ AnswerInv /\ [Next]_vars => Inv' /\ AnswerInv'
  BY NextTypeOK, NextLocalInv, NextMutexInv, NextAnswerInv DEF Inv
<1>3. AnswerInv => NoRedundantLoad
  BY DEF AnswerInv, Knows, NoRedundantLoad
<1> QED
  BY <1>1, <1>2, <1>3, PTL DEF Spec

\* The positive and the negative cache never disagree, and what a call returned
\* is what its process still holds.
THEOREM CoherentHolds == NoNull => (Spec => []Coherent)
<1> SUFFICES ASSUME NoNull PROVE Spec => []Coherent
  OBVIOUS
<1>1. Init => Inv /\ AnswerInv
  BY InitInv, InitAnswerInv
<1>2. Inv /\ AnswerInv /\ [Next]_vars => Inv' /\ AnswerInv'
  BY NextTypeOK, NextLocalInv, NextMutexInv, NextAnswerInv DEF Inv
<1>3. AnswerInv => Coherent
  BY DEF AnswerInv, Exclusive, Knows, Coherent
<1> QED
  BY <1>1, <1>2, <1>3, PTL DEF Spec

-----------------------------------------------------------------------------
(* Refinement                                                              *)

Cells == [p \in Procs |-> [k \in Keys |-> Cell(p, k)]]

LEMMA CellsValue ==
  ASSUME TypeOK, NEW p \in Procs, NEW k \in Keys
  PROVE  /\ Cells[p][k] = Cell(p, k)
         /\ cache[p][k] # None => Cell(p, k) = [status |-> "ok", entries |-> cache[p][k]]
         /\ cache[p][k] = None /\ k \in notFound[p]
            => Cell(p, k) = [status |-> "unknown", entries |-> None]
         /\ cache[p][k] = None /\ k \notin notFound[p] => Cell(p, k) = NoResult
  BY DEF Cells, Cell

LEMMA CellsStable == UNCHANGED <<cache, notFound>> => UNCHANGED Cells
  BY DEF Cells, Cell, NoResult

LEMMA FailMemo ==
  ASSUME Inv, AnswerInv, NEW c \in Callers, pc[c] \in Loading, Fail(c),
         UNCHANGED <<key, cache, notFound>>
  PROVE  Memo!Fail(c)
<1>1. key[c] \in Keys /\ key[c] # None /\ Home[c] \in Procs
  BY HomeAssumption, KeysNotNone DEF Inv, LocalInv, Loading, Fetching
<1>2. Cell(Home[c], key[c]) = NoResult /\ result[c] = NoResult
  BY <1>1, CellsValue DEF Inv, AnswerInv, Knows, Cached, Loading, Fetching
<1> QED
  BY <1>1, <1>2, CellsValue, CellsStable
  DEF Fail, Give, Inv, Cells, Memo!Fail, Memo!Waiting, Memo!Cell, Memo!Unset,
      Memo!Failed, NoResult

LEMMA HitMemo ==
  ASSUME Inv, AnswerInv, NEW c \in Callers, pc[c] \notin {"idle", "unlock"},
         NEW answer, answer # NoResult, Cell(Home[c], key[c]) = answer,
         result' = [result EXCEPT ![c] = answer],
         UNCHANGED <<key, cache, notFound>>
  PROVE  Memo!Answer(c)
<1>1. key[c] \in Keys /\ key[c] # None /\ Home[c] \in Procs
  BY HomeAssumption, KeysNotNone DEF Inv, LocalInv
<1>2. result[c] = NoResult
  BY DEF AnswerInv, Knows
<1> QED
  BY <1>1, <1>2, CellsValue, CellsStable
  DEF Inv, Cells, Memo!Answer, Memo!Waiting, Memo!Cell, Memo!Unset, NoResult

LEMMA StepMemo ==
    NoNull /\ Inv /\ AnswerInv /\ [Next]_vars => [Memo!Next]_(Memo!vars)
<1> SUFFICES ASSUME NoNull, Inv, AnswerInv, [Next]_vars
             PROVE  Memo!Next \/ UNCHANGED <<Cells, key, result>>
  BY DEF Memo!vars, Cells
<1> USE HomeAssumption, AbsentAssumption, KeysNotNone
<1>1. ASSUME NEW c \in Callers, Call(c) PROVE Memo!Next
  <2>1. UNCHANGED Cells
    BY <1>1, CallEffect, CellsStable DEF memVars
  <2>2. CASE key' = [key EXCEPT ![c] = None] /\ Give(c, "error", None)
    BY <2>1, <2>2 DEF Cells, Give, Memo!Next, Memo!Refuse, Memo!Failed
  <2>3. CASE \E k \in Keys : key' = [key EXCEPT ![c] = k] /\ Give(c, "none", None)
    BY <2>1, <2>3 DEF Cells, Give, Memo!Next, Memo!Ask, Memo!Unset
  <2> QED
    BY <1>1, <2>2, <2>3, CallEffect
<1>2. ASSUME NEW c \in Callers, FastLookup(c) \/ ReLookup(c)
      PROVE  Memo!Next \/ UNCHANGED <<Cells, key, result>>
  <2>1. /\ UNCHANGED <<key, cache, notFound>> /\ pc[c] \notin {"idle", "unlock"}
        /\ \/ Cached(c) # None /\ Give(c, "ok", Cached(c))
           \/ UNCHANGED result
    BY <1>2 DEF FastLookup, ReLookup, Lookup, NonNil, memVars
  <2>2. key[c] \in Keys /\ Home[c] \in Procs
    BY <2>1 DEF Inv, LocalInv
  <2>3. CASE Cached(c) # None /\ Give(c, "ok", Cached(c))
    <3>1. Cell(Home[c], key[c]) = [status |-> "ok", entries |-> Cached(c)]
      BY <2>2, <2>3, CellsValue DEF Inv, Cached
    <3>2. Memo!Answer(c)
      BY <2>1, <2>3, <3>1, HitMemo DEF Give, NoResult
    <3> QED
      BY <3>2 DEF Memo!Next
  <2>4. CASE UNCHANGED result
    BY <2>1, <2>4, CellsStable
  <2> QED
    BY <2>1, <2>3, <2>4
<1>3. ASSUME NEW c \in Callers, FastIsNotFound(c) \/ ReIsNotFound(c)
      PROVE  Memo!Next \/ UNCHANGED <<Cells, key, result>>
  <2>1. /\ UNCHANGED <<key, cache, notFound>> /\ pc[c] \notin {"idle", "unlock"}
        /\ \/ key[c] \in notFound[Home[c]] /\ Give(c, "unknown", None)
           \/ UNCHANGED result
    BY <1>3 DEF FastIsNotFound, ReIsNotFound, IsNotFound, memVars
  <2>2. key[c] \in Keys /\ Home[c] \in Procs
    BY <2>1 DEF Inv, LocalInv
  <2>3. CASE key[c] \in notFound[Home[c]] /\ Give(c, "unknown", None)
    <3>1. cache[Home[c]][key[c]] = None
      BY <2>2, <2>3 DEF AnswerInv, Exclusive
    <3>2. Cell(Home[c], key[c]) = [status |-> "unknown", entries |-> None]
      BY <2>2, <2>3, <3>1, CellsValue DEF Inv
    <3>3. Memo!Answer(c)
      BY <2>1, <2>3, <3>2, HitMemo DEF Give, NoResult
    <3> QED
      BY <3>3 DEF Memo!Next
  <2>4. CASE UNCHANGED result
    BY <2>1, <2>4, CellsStable
  <2> QED
    BY <2>1, <2>3, <2>4
<1>4. ASSUME NEW c \in Callers,
             LockFor(c) \/ Lock(c) \/ Stat(c) \/ Read(c) \/ Fetch(c) \/ Unlock(c)
      PROVE  UNCHANGED <<Cells, key, result>>
  BY <1>4, CellsStable DEF LockFor, Lock, Stat, Read, Fetch, Unlock, memVars
<1>5. ASSUME NEW c \in Callers, Response(c) \/ CreateTemp(c) \/ Write(c) \/ Rename(c)
      PROVE  Memo!Next \/ UNCHANGED <<Cells, key, result>>
  <2>1. UNCHANGED <<key, cache, notFound>> /\ pc[c] \in Loading
    BY <1>5 DEF Response, CreateTemp, Write, Rename, memVars, Loading, Fetching
  <2>2. Fail(c) \/ UNCHANGED result
    BY <1>5 DEF Response, CreateTemp, Write, Rename
  <2>3. CASE Fail(c)
    BY <2>1, <2>3, FailMemo DEF Memo!Next
  <2>4. CASE UNCHANGED result
    BY <2>1, <2>4, CellsStable
  <2> QED
    BY <2>2, <2>3, <2>4
<1>6. ASSUME NEW c \in Callers, StoreInMemory(c) PROVE Memo!Next
  <2>1. /\ key[c] \in Keys /\ Home[c] \in Procs /\ entries[c] \in Snapshots
        /\ entries[c] # None /\ result[c] = NoResult
        /\ cache[Home[c]][key[c]] = None /\ key[c] \notin notFound[Home[c]]
    BY <1>6 DEF StoreInMemory, Go, Inv, LocalInv, AnswerInv, Knows, Cached, Loading
  <2> DEFINE v == [status |-> "ok", entries |-> entries[c]]
  <2>2. Cell(Home[c], key[c]) = NoResult
    BY <2>1, CellsValue DEF Inv
  <2>3. \A p \in Procs, k \in Keys :
          Cell(p, k)' = IF p = Home[c] /\ k = key[c] THEN v ELSE Cell(p, k)
    <3>1. \A p \in Procs, k \in Keys :
            cache'[p][k] = IF p = Home[c] /\ k = key[c] THEN entries[c] ELSE cache[p][k]
      BY <1>6, <2>1 DEF StoreInMemory, Inv, TypeOK
    <3> QED
      BY <1>6, <2>1, <3>1 DEF StoreInMemory, Cell, NoResult
  <2>4. Cells' = [Cells EXCEPT ![Home[c]][key[c]] = v]
    BY <2>1, <2>3 DEF Cells
  <2>5. v \in Memo!Known
    BY <2>1 DEF Memo!Known
  <2>6. Memo!Resolve(c, v)
    BY <1>6, <2>1, <2>2, <2>4
    DEF StoreInMemory, Give, Cells, NoResult, Memo!Resolve, Memo!Waiting, Memo!Cell,
        Memo!Unset
  <2> QED
    BY <2>5, <2>6 DEF Memo!Next
<1>7. ASSUME NEW c \in Callers, StoreNotFound(c) PROVE Memo!Next
  <2>1. /\ key[c] \in Keys /\ Home[c] \in Procs /\ result[c] = NoResult
        /\ cache[Home[c]][key[c]] = None /\ key[c] \notin notFound[Home[c]]
    BY <1>7 DEF StoreNotFound, Go, Inv, LocalInv, AnswerInv, Knows, Cached, Loading
  <2> DEFINE v == [status |-> "unknown", entries |-> None]
  <2>2. Cell(Home[c], key[c]) = NoResult
    BY <2>1, CellsValue DEF Inv
  <2>3. \A p \in Procs, k \in Keys :
          Cell(p, k)' = IF p = Home[c] /\ k = key[c] THEN v ELSE Cell(p, k)
    <3>1. \A p \in Procs, k \in Keys :
            k \in notFound'[p] <=> k \in notFound[p] \/ (p = Home[c] /\ k = key[c])
      BY <1>7 DEF StoreNotFound, Inv, TypeOK
    <3>2. UNCHANGED cache
      BY <1>7 DEF StoreNotFound
    <3> QED
      BY <2>1, <3>1, <3>2 DEF Cell, NoResult
  <2>4. Cells' = [Cells EXCEPT ![Home[c]][key[c]] = v]
    BY <2>1, <2>3 DEF Cells
  <2>5. Memo!Resolve(c, v)
    BY <1>7, <2>1, <2>2, <2>4
    DEF StoreNotFound, Give, Cells, NoResult, Memo!Resolve, Memo!Waiting, Memo!Cell,
        Memo!Unset
  <2> QED
    BY <2>5 DEF Memo!Next, Memo!Unknown
<1>8. ASSUME NEW p \in Procs, Crash(p) PROVE Memo!Next
  <2>1. \A q \in Procs, k \in Keys : Cell(q, k)' = IF q = p THEN NoResult ELSE Cell(q, k)
    BY <1>8 DEF Crash, Cell, NoResult, Inv, TypeOK
  <2>2. Cells' = [Cells EXCEPT ![p] = [k \in Keys |-> NoResult]]
    BY <2>1 DEF Cells
  <2>3. Memo!Restart(p)
    BY <1>8, <2>2 DEF Crash, Cells, NoResult, Memo!Restart, Memo!Unset
  <2> QED
    BY <2>3 DEF Memo!Next
<1>9. CASE Tick \/ UNCHANGED vars
  BY <1>9, CellsStable DEF Tick, vars, callVars, memVars
<1> QED
  BY <1>1, <1>2, <1>3, <1>4, <1>5, <1>6, <1>7, <1>8, <1>9 DEF Next, Step

LEMMA InitMemo == Init => Memo!Init
  BY DEF Init, Cell, NoResult, Memo!Init, Memo!Unset

\* The manager implements the write-once cell: however callers, processes and
\* crashes interleave, a process answers a key in one way only.
THEOREM Refinement == NoNull => (Spec => RefinesMemo)
<1> SUFFICES ASSUME NoNull PROVE Spec => RefinesMemo
  OBVIOUS
<1>1. Init => Inv /\ AnswerInv
  BY InitInv, InitAnswerInv
<1>2. Inv /\ AnswerInv /\ [Next]_vars => Inv' /\ AnswerInv'
  BY NextTypeOK, NextLocalInv, NextMutexInv, NextAnswerInv DEF Inv
<1>3. Init => Memo!Init
  BY InitMemo
<1>4. Inv /\ AnswerInv /\ [Next]_vars => [Memo!Next]_(Memo!vars)
  BY StepMemo
<1> QED
  BY <1>1, <1>2, <1>3, <1>4, PTL DEF Spec, RefinesMemo, Memo!Spec
=============================================================================
