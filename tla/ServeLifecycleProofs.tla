------------------------- MODULE ServeLifecycleProofs -------------------------
(***************************************************************************)
(* For any configurations, graces, back-off and requests: the server       *)
(* starts whole or not, a closed done channel means that its listener is   *)
(* quiet, and shutdown keeps its graces.                                   *)
(***************************************************************************)
EXTENDS ServeLifecycle, TLAPS

Waits == {"waitRefresh", "waitDebug", "waitMCP"}

Ended == {"exited", "failed", "misconfigured"}

Unprimed == {"config", "managers", "load", "prime", "backoff"}

Phases == Unprimed \cup {"start", "stdio", "stop"} \cup Waits \cup Ended

\* The types the proofs need.  The goroutine of runServe sleeps for the back-off
\* before it waits for anybody, and only the waits are counted below.
Types ==
    /\ main \in Phases
    /\ ctx \in {"live", "done"}
    /\ listener \in [Listeners -> {"off", "listening", "closed"}]
    /\ watcher \in [Listeners -> {"off", "watch", "drain", "stopLimiter", "done"}]
    /\ busy \in [Listeners -> Nat]
    /\ DOMAIN timer = Timers
    /\ \A l \in Listeners : timer[l] \in Nat
    /\ janitor \in {"off", "select", "evict", "stopped"}
    /\ since \in Nat
-----------------------------------------------------------------------------
(* Start-up                                                                *)

\* What is behind the next step of runServe: a configuration that Load accepted,
\* a gamemaster, and the goroutines of every listener that is wanted.
Started ==
    /\ main \notin {"config", "failed"} => Validate(config)
    /\ main # "misconfigured"
    /\ main \in Unprimed \cup {"start"} => refresh = "off"
    /\ main \notin Unprimed \cup {"failed"} => loaded = "yes"
    /\ refresh # "off" =>
          /\ loaded = "yes"
          /\ \A l \in Wanted(config) : listener[l] # "off"
    /\ (\E l \in Listeners : listener[l] # "off") => refresh # "off"
    /\ refresh \in {"off", "select", "refreshing", "done"}

\* What a listener, its watcher and its requests owe each other.
Paired(l) ==
    /\ watcher[l] = "off" <=> listener[l] = "off"
    /\ listener[l] = "off" => busy[l] = 0
    /\ watcher[l] \in {"drain", "stopLimiter", "done"} => listener[l] = "closed"
    /\ watcher[l] \in {"stopLimiter", "done"} => busy[l] = 0 \/ timer[l] = 0
    /\ watcher[l] = "stopLimiter" => l = "mcp"
    /\ l = "mcp" /\ watcher[l] # "off" => janitor # "off"
    /\ l = "mcp" /\ watcher[l] = "done" => janitor = "stopped"

AllPaired == \A l \in Listeners : Paired(l)

LEMMA ValidIsEnough ==
    ASSUME Validate(config)
    PROVE  LoggerBuilds(config) /\ ManagersBuild(config) /\ TickerBuilds(config) /\ ProxiesParse(config)
  BY DEF Validate, ValidMCPHTTP, ValidLog, ValidDataPlane,
         LoggerBuilds, ManagersBuild, TickerBuilds, ProxiesParse

LEMMA WantedType == Wanted(config) \subseteq Listeners
  BY DEF Wanted, Listeners

LEMMA InitTypes == Init => Types
  BY DEF Init, Types, Phases, Unprimed, Timers, Listeners

LEMMA InitPaired == Init => AllPaired
  BY DEF Init, AllPaired, Paired

LEMMA InitStarted == Init => Started
  BY DEF Init, Started, Unprimed, Listeners

\* Every step, sorted by whose it is; those of runServe one by one.
LEMMA StepsOf ==
    ASSUME [Next]_vars
    PROVE  \/ Signal
           \/ PrimeSucceeds \/ PrimeFails \/ StdioEnds
           \/ Configure \/ BuildManagers \/ LoadLocal \/ Backoff \/ StartAll
           \/ StopAll \/ WaitRefresh \/ WaitDebug \/ WaitMCP
           \/ RefreshDone \/ RefreshTicks \/ RefreshReturns \/ RefreshCancelled
           \/ \E l \in Listeners : \/ Accept(l) \/ Respond(l) \/ ListenFails(l)
                                   \/ Shutdown(l) \/ Drained(l)
           \/ LimiterStopped \/ JanitorTicks \/ JanitorEvicts \/ JanitorStops
           \/ Tick \/ UNCHANGED vars
  BY DEF Next, Main, Watcher, Gone

LEMMA NeedsType ==
    ASSUME NEW l \in Listeners, NEW n \in Needs(l)
    PROVE  /\ n \in Nat \ {0}
           /\ (\A t \in Tiers : config.timeout[t] \in 1..Grace["mcp"]) /\ l = "mcp" => n <= Grace["mcp"]
  <1>1. Budget[l] \in Nat \ {0} /\ Grace["mcp"] \in Nat \ {0}
    BY GraceAssumption DEF Listeners
  <1>2. CASE l = "debug"
    BY <1>1, <1>2 DEF Needs
  <1>3. CASE l # "debug"
    <2>1. PICK t \in Tiers : n = CallBudget(config, t, Budget[l])
      BY <1>3 DEF Needs
    <2>2. CASE config.timeout[t] \in 1..Budget[l]
      BY <1>1, <2>1, <2>2 DEF CallBudget
    <2>3. CASE config.timeout[t] \notin 1..Budget[l]
      BY <1>1, <2>1, <2>3 DEF CallBudget
    <2> QED
      BY <2>2, <2>3
  <1> QED
    BY <1>2, <1>3

LEMMA NextTypes == Types /\ [Next]_vars => Types'
  <1> SUFFICES ASSUME Types, [Next]_vars PROVE Types'
    OBVIOUS
  <1> USE GraceAssumption DEF Types, serverVars
  <1>1. CASE \/ Signal \/ PrimeSucceeds \/ StdioEnds \/ Configure \/ BuildManagers \/ LoadLocal
    BY <1>1 DEF Signal, PrimeSucceeds, StdioEnds, Configure, BuildManagers, LoadLocal,
                Phases, Unprimed, Waits, Ended
  <1>2. CASE PrimeFails \/ Backoff
    <2>1. /\ UNCHANGED <<ctx, serverVars, since>> /\ main' \in Phases
          /\ DOMAIN timer' = DOMAIN timer
          /\ \A l \in Listeners : timer'[l] = timer[l]
      BY <1>2 DEF PrimeFails, Backoff, Phases, Unprimed, Ended, Timers, Listeners
    <2> QED
      BY <2>1
  <1>3. CASE StartAll
    BY <1>3 DEF StartAll, Phases, Unprimed, Waits, Ended
  <1>4. CASE StopAll \/ WaitRefresh \/ WaitDebug \/ WaitMCP
    <2>1. /\ UNCHANGED <<serverVars, since>> /\ main' \in Phases /\ ctx' \in {"live", "done"}
          /\ DOMAIN timer' = DOMAIN timer
          /\ \A l \in Listeners : timer'[l] = timer[l]
      BY <1>4 DEF StopAll, WaitRefresh, WaitDebug, WaitMCP, Phases, Waits, Ended, Timers, Listeners
    <2> QED
      BY <2>1
  <1>5. CASE RefreshDone \/ RefreshTicks \/ RefreshReturns \/ RefreshCancelled
    BY <1>5 DEF RefreshDone, RefreshTicks, RefreshReturns, RefreshCancelled, Loop
  <1>6. ASSUME NEW l \in Listeners, Accept(l) PROVE Types'
    BY <1>6, NeedsType DEF Accept
  <1>7. ASSUME NEW l \in Listeners, Respond(l) \/ ListenFails(l) \/ Drained(l) PROVE Types'
    BY <1>7 DEF Respond, ListenFails, Drained
  <1>8. ASSUME NEW l \in Listeners, Shutdown(l) PROVE Types'
    BY <1>8 DEF Shutdown, Timers
  <1>9. CASE LimiterStopped \/ JanitorTicks \/ JanitorEvicts \/ JanitorStops
    BY <1>9 DEF LimiterStopped, JanitorTicks, JanitorEvicts, JanitorStops, Sweep
  <1>10. CASE Tick
    <2>1. busy' \in [Listeners -> Nat]
      BY <1>10 DEF Tick
    <2>2. DOMAIN timer' = Timers /\ \A l \in Listeners : timer'[l] \in Nat
      BY <1>10 DEF Tick, Timers
    <2>3. since' \in Nat
      BY <1>10 DEF Tick
    <2> QED
      BY <1>10, <2>1, <2>2, <2>3 DEF Tick
  <1>11. CASE UNCHANGED vars
    BY <1>11 DEF vars
  <1> QED
    BY StepsOf, <1>1, <1>2, <1>3, <1>4, <1>5, <1>6, <1>7, <1>8, <1>9, <1>10, <1>11

LEMMA NextPaired == Types /\ Started /\ AllPaired /\ [Next]_vars => AllPaired'
  <1> SUFFICES ASSUME Types, Started, AllPaired, [Next]_vars, NEW l \in Listeners
               PROVE  Paired(l)'
    BY DEF AllPaired
  <1>0. Paired(l)
    BY DEF AllPaired
  <1> USE <1>0 DEF Paired, Types, serverVars
  <1>1. CASE \/ Signal \/ PrimeSucceeds \/ PrimeFails \/ StdioEnds \/ Configure \/ BuildManagers
             \/ LoadLocal \/ Backoff \/ StopAll \/ WaitRefresh \/ WaitDebug \/ WaitMCP
    <2>1. /\ UNCHANGED serverVars
          /\ \A m \in Listeners : timer'[m] = timer[m]
      BY <1>1 DEF Signal, PrimeSucceeds, PrimeFails, StdioEnds, Configure, BuildManagers, LoadLocal,
                  Backoff, StopAll, WaitRefresh, WaitDebug, WaitMCP, Timers, Listeners
    <2> QED
      BY <2>1
  <1>2. CASE StartAll
    <2>1. listener[l] = "off" /\ busy[l] = 0
      BY <1>2 DEF StartAll, Started
    <2> QED
      BY <1>2, <2>1 DEF StartAll
  <1>3. CASE RefreshDone \/ RefreshTicks \/ RefreshReturns \/ RefreshCancelled
    BY <1>3 DEF RefreshDone, RefreshTicks, RefreshReturns, RefreshCancelled, Loop
  <1>4. ASSUME NEW m \in Listeners, Accept(m) PROVE Paired(l)'
    BY <1>4 DEF Accept
  <1>5. ASSUME NEW m \in Listeners, Respond(m) \/ ListenFails(m) \/ Drained(m) PROVE Paired(l)'
    BY <1>5 DEF Respond, ListenFails, Drained, DrainEnds, AllPaired
  <1>6. ASSUME NEW m \in Listeners, Shutdown(m) PROVE Paired(l)'
    BY <1>6 DEF Shutdown, Woken, Timers, AllPaired
  <1>7. CASE LimiterStopped \/ JanitorTicks \/ JanitorEvicts \/ JanitorStops
    BY <1>7 DEF LimiterStopped, JanitorTicks, JanitorEvicts, JanitorStops, Sweep
  <1>8. CASE Tick
    BY <1>8 DEF Tick, Timers
  <1>9. CASE UNCHANGED vars
    BY <1>9 DEF vars
  <1> QED
    BY StepsOf, <1>1, <1>2, <1>3, <1>4, <1>5, <1>6, <1>7, <1>8, <1>9

LEMMA NextStarted == Types /\ AllPaired /\ Started /\ [Next]_vars => Started'
  <1> SUFFICES ASSUME Types, AllPaired, Started, [Next]_vars PROVE Started'
    OBVIOUS
  <1> USE DEF Started, serverVars
  <1>1. CASE \/ PrimeSucceeds \/ StdioEnds \/ LoadLocal \/ PrimeFails \/ Backoff
             \/ StopAll \/ WaitRefresh \/ WaitDebug \/ WaitMCP \/ Signal
    BY <1>1 DEF Signal, PrimeSucceeds, StdioEnds, LoadLocal, PrimeFails, Backoff,
                StopAll, WaitRefresh, WaitDebug, WaitMCP, Unprimed, Waits, Ended
  <1>2. CASE Configure
    BY <1>2, ValidIsEnough DEF Configure, Unprimed
  <1>3. CASE BuildManagers
    BY <1>3, ValidIsEnough DEF BuildManagers, Unprimed
  <1>4. CASE StartAll
    <2>1. Validate(config) /\ loaded = "yes"
      BY <1>4 DEF StartAll, Unprimed
    <2>2. /\ \A l \in Listeners : listener'[l] # "off" <=> l \in Wanted(config)
          /\ main' = "stdio" /\ refresh' = "select"
      BY <1>4, <2>1, ValidIsEnough DEF StartAll
    <2> QED
      BY <1>4, <2>1, <2>2, WantedType DEF StartAll, Unprimed
  <1>5. CASE RefreshDone \/ RefreshTicks \/ RefreshReturns \/ RefreshCancelled
    BY <1>5 DEF RefreshDone, RefreshTicks, RefreshReturns, RefreshCancelled, Loop
  <1>6. ASSUME NEW l \in Listeners,
               Accept(l) \/ Respond(l) \/ Drained(l)
        PROVE  Started'
    BY <1>6 DEF Accept, Respond, Drained
  <1>7. ASSUME NEW l \in Listeners, ListenFails(l) \/ Shutdown(l) PROVE Started'
    <2>1. UNCHANGED <<config, main, loaded, refresh>>
      BY <1>7 DEF ListenFails, Shutdown
    <2>2. \A m \in Listeners : listener'[m] = "off" <=> listener[m] = "off"
      <3>1. listener[l] # "off"
        BY <1>7 DEF ListenFails, Shutdown, Woken, AllPaired, Paired
      <3> QED
        BY <1>7, <3>1 DEF ListenFails, Shutdown, Types
    <2> QED
      BY <2>1, <2>2, WantedType
  <1>8. CASE LimiterStopped \/ JanitorTicks \/ JanitorEvicts \/ JanitorStops
    BY <1>8 DEF LimiterStopped, JanitorTicks, JanitorEvicts, JanitorStops, Sweep
  <1>9. CASE Tick \/ UNCHANGED vars
    BY <1>9 DEF Tick, vars
  <1> QED
    BY StepsOf, <1>1, <1>2, <1>3, <1>4, <1>5, <1>6, <1>7, <1>8, <1>9
-----------------------------------------------------------------------------
(* Shutdown                                                                *)

\* The two waits that have a window of their own after the first.
Later == {"waitDebug", "waitMCP"}

\* Time since stop(): it goes on only while somebody is waited for who drains,
\* and what drains was told to no later than the first tick.
Windows ==
    /\ main \notin Waits \cup {"exited"} => since = 0
    /\ main \in Waits => ctx = "done" /\ timer["main"] \in Nat
    /\ main = "waitRefresh" => since + timer["main"] <= RefreshGrace
    /\ main \in Waits => \A l \in Listeners : watcher[l] = "watch" => since = 0
    /\ \A l \in Listeners : watcher[l] = "drain" => since + timer[l] <= Grace[l]
    /\ ExitsWithinGraces

\* Calls have a deadline within the grace of the public listener.
Short == \A t \in Tiers : config.timeout[t] \in 1..Grace["mcp"]

\* A call ends before its listener's drain does, and the drain of the public
\* listener before the wait for it.
Served ==
    /\ Short =>
          /\ busy["mcp"] <= Grace["mcp"]
          /\ watcher["mcp"] = "drain" => busy["mcp"] <= timer["mcp"]
          /\ watcher["mcp"] \in {"stopLimiter", "done"} => busy["mcp"] = 0
          /\ main = "exited" => busy["mcp"] = 0
    /\ main = "waitMCP" /\ watcher["mcp"] = "watch" => timer["main"] = Grace["mcp"]
    /\ main = "waitMCP" /\ watcher["mcp"] = "drain" => timer["mcp"] <= timer["main"]

LEMMA InitWindows == Init => Windows
  <1> SUFFICES ASSUME Init PROVE Windows
    OBVIOUS
  <1>1. RefreshGrace \in Nat /\ since = 0
    BY GraceAssumption DEF Init
  <1>2. ExitsWithinGraces
    BY <1>1 DEF ExitsWithinGraces
  <1> QED
    BY <1>2 DEF Init, Windows, Waits

LEMMA InitServed == Init => Served
  BY GraceAssumption DEF Init, Served, Listeners

\* While a listener that was told to stop is not done, only its drain takes time.
LEMMA TickWaits ==
    ASSUME Types, AllPaired, Tick
    PROVE  /\ \A l \in Listeners : /\ watcher[l] = "watch" => ctx # "done"
                                   /\ watcher[l] = "drain" => busy[l] > 0 /\ timer[l] > 0
                                   /\ watcher[l] # "stopLimiter"
           /\ main = "waitRefresh" => timer["main"] # 0
           /\ main = "waitDebug" => timer["main"] # 0 /\ watcher["debug"] \in {"watch", "drain"}
           /\ main = "waitMCP" => timer["main"] # 0 /\ watcher["mcp"] \in {"watch", "drain"}
  <1>1. ~Ready
    BY DEF Tick
  <1>2. ASSUME NEW l \in Listeners
        PROVE  /\ watcher[l] = "watch" => ctx # "done"
               /\ watcher[l] = "drain" => busy[l] > 0 /\ timer[l] > 0
    BY <1>1 DEF Ready, Woken, DrainEnds, Types
  <1>3. ASSUME NEW l \in Listeners PROVE watcher[l] # "stopLimiter"
    BY <1>1 DEF Ready, AllPaired, Paired, Types
  <1> QED
    BY <1>1, <1>2, <1>3 DEF Ready, MainReady, RefreshAwaited, Awaited, Elapsed, Types, Listeners

LEMMA TickWindows ==
    ASSUME Types, AllPaired, Windows, Tick
    PROVE  Windows'
  <1> USE GraceAssumption DEF Types
  <1>1. \A l \in Listeners : timer'[l] = IF timer[l] = 0 THEN 0 ELSE timer[l] - 1
    BY DEF Tick, Timers
  <1>2. timer'["main"] = IF timer["main"] = 0 THEN 0 ELSE timer["main"] - 1
    BY DEF Tick, Timers
  <1>3. UNCHANGED <<main, ctx, watcher>>
    BY DEF Tick
  <1>4. since' = IF main \in Waits THEN since + 1 ELSE since
    BY DEF Tick, Waits
  <1>5. main # "exited"
    BY DEF Tick, Running
  <1>6. ASSUME NEW l \in Listeners, watcher[l] = "drain"
        PROVE  since' + timer'[l] <= Grace[l]
    <2>1. timer[l] \in Nat /\ timer[l] > 0 /\ since + timer[l] <= Grace[l] /\ Grace[l] \in Nat
      BY <1>6, TickWaits DEF Windows
    <2>2. timer'[l] = timer[l] - 1
      BY <1>1, <2>1
    <2> QED
      BY <1>4, <2>1, <2>2
  <1>7. ASSUME main \in Waits, NEW l \in Listeners PROVE watcher[l] # "watch"
    BY <1>7, TickWaits DEF Windows
  <1>8. main = "waitRefresh" => since' + timer'["main"] <= RefreshGrace
    <2> SUFFICES ASSUME main = "waitRefresh" PROVE since' + timer'["main"] <= RefreshGrace
      OBVIOUS
    <2>1. timer["main"] \in Nat /\ timer["main"] # 0 /\ since + timer["main"] <= RefreshGrace
      BY TickWaits DEF Windows, Waits
    <2>2. timer'["main"] = timer["main"] - 1 /\ since' = since + 1
      BY <1>2, <1>4, <2>1 DEF Waits
    <2> QED
      BY <2>1, <2>2
  <1>9. ExitsWithinGraces'
    <2>1. CASE main \notin Waits
      BY <1>4, <2>1 DEF Windows, ExitsWithinGraces
    <2>2. CASE main = "waitRefresh"
      <3>1. timer'["main"] \in Nat /\ since' \in Nat
        BY <1>2, <1>4, <2>2 DEF Windows, Waits
      <3>2. since' <= RefreshGrace
        BY <1>8, <2>2, <3>1
      <3> QED
        BY <3>2 DEF ExitsWithinGraces
    <2>3. ASSUME NEW l \in Listeners, watcher[l] = "drain" PROVE since' <= Grace[l]
      BY <1>1, <1>4, <1>6, <2>3
    <2>4. CASE main = "waitDebug"
      <3>1. watcher["debug"] = "drain"
        BY <1>7, <2>4, TickWaits DEF Waits, Listeners
      <3> QED
        BY <2>3, <3>1 DEF ExitsWithinGraces, Listeners
    <2>5. CASE main = "waitMCP"
      <3>1. watcher["mcp"] = "drain"
        BY <1>7, <2>5, TickWaits DEF Waits, Listeners
      <3> QED
        BY <2>3, <3>1 DEF ExitsWithinGraces, Listeners
    <2> QED
      BY <2>1, <2>2, <2>4, <2>5 DEF Waits
  <1>10. main \in Waits => timer'["main"] \in Nat
    BY <1>2 DEF Windows
  <1> QED
    BY <1>3, <1>4, <1>5, <1>6, <1>7, <1>8, <1>9, <1>10 DEF Windows

LEMMA NextWindows == Types /\ AllPaired /\ Windows /\ [Next]_vars => Windows'
  <1> SUFFICES ASSUME Types, AllPaired, Windows, [Next]_vars PROVE Windows'
    OBVIOUS
  <1> USE GraceAssumption DEF Types, serverVars
  <1>0. UNCHANGED since => ExitsWithinGraces'
    BY DEF Windows, ExitsWithinGraces
  <1>1. CASE \/ Signal \/ PrimeSucceeds \/ PrimeFails \/ StdioEnds \/ Configure \/ BuildManagers
             \/ LoadLocal \/ Backoff \/ StartAll
    <2>1. /\ UNCHANGED since
          /\ main' \in Waits => main' = main /\ ctx' = "done" /\ timer' = timer /\ watcher' = watcher
          /\ main \notin Waits /\ main' \notin Waits => since = 0
          /\ \A l \in Listeners : timer'[l] = timer[l] /\ (watcher'[l] = "drain" => watcher[l] = "drain")
      BY <1>1 DEF Signal, PrimeSucceeds, PrimeFails, StdioEnds, Configure, BuildManagers, LoadLocal, Backoff,
                  StartAll, Windows, Waits, Running, Timers, Listeners
    <2> QED
      BY <1>0, <1>1, <2>1 DEF Windows, Waits, Signal, PrimeSucceeds, PrimeFails, StdioEnds, Configure,
                    BuildManagers, LoadLocal, Backoff, StartAll, Running
  <1>2. CASE StopAll
    <2>1. /\ UNCHANGED <<watcher, since>> /\ since = 0 /\ main' = "waitRefresh" /\ ctx' = "done"
          /\ timer' = [timer EXCEPT !["main"] = RefreshGrace]
      BY <1>2 DEF StopAll, Windows, Waits
    <2>2. timer'["main"] = RefreshGrace /\ \A l \in Listeners : timer'[l] = timer[l]
      BY <2>1 DEF Timers, Listeners
    <2> QED
      BY <1>0, <2>1, <2>2 DEF Windows, Waits
  <1>3. CASE WaitRefresh \/ WaitDebug
    <2>1. /\ UNCHANGED <<watcher, since, ctx>> /\ main \in Waits /\ main' \in Later
          /\ \A l \in Listeners : timer'[l] = timer[l]
          /\ timer'["main"] \in Nat
      BY <1>3 DEF WaitRefresh, WaitDebug, Waits, Later, Timers, Listeners
    <2> QED
      BY <1>0, <2>1 DEF Windows, Waits, Later
  <1>4. CASE WaitMCP
    BY <1>0, <1>4 DEF WaitMCP, Windows, Waits
  <1>5. CASE \/ RefreshDone \/ RefreshTicks \/ RefreshReturns \/ RefreshCancelled
             \/ JanitorTicks \/ JanitorEvicts \/ JanitorStops \/ UNCHANGED vars
    <2>1. UNCHANGED <<main, ctx, watcher, timer, since>>
      BY <1>5 DEF RefreshDone, RefreshTicks, RefreshReturns, RefreshCancelled, Loop,
                  JanitorTicks, JanitorEvicts, JanitorStops, Sweep, vars
    <2> QED
      BY <1>0, <2>1 DEF Windows
  <1>6. ASSUME NEW l \in Listeners, Accept(l) \/ Respond(l) \/ ListenFails(l) \/ Drained(l) \/ LimiterStopped
        PROVE  Windows'
    <2>1. UNCHANGED <<main, ctx, timer, since>>
      BY <1>6 DEF Accept, Respond, ListenFails, Drained, LimiterStopped
    <2>2. \A m \in Listeners : watcher'[m] \in {"watch", "drain"} => watcher'[m] = watcher[m]
      BY <1>6 DEF Accept, Respond, ListenFails, Drained, LimiterStopped, Listeners
    <2> QED
      BY <1>0, <2>1, <2>2 DEF Windows
  <1>7. ASSUME NEW l \in Listeners, Shutdown(l) PROVE Windows'
    <2>1. /\ UNCHANGED <<main, ctx, since>> /\ main # "exited" /\ watcher[l] = "watch"
          /\ timer' = [timer EXCEPT ![l] = Grace[l]] /\ watcher' = [watcher EXCEPT ![l] = "drain"]
      BY <1>7 DEF Shutdown, Woken, Running
    <2>2. since = 0
      BY <2>1 DEF Windows
    <2>3. timer'["main"] = timer["main"]
      BY <2>1 DEF Timers, Listeners
    <2>4. \A m \in Listeners : watcher'[m] = "drain" => since' + timer'[m] <= Grace[m]
      BY <2>1, <2>2 DEF Windows, Timers
    <2> QED
      BY <1>0, <2>1, <2>2, <2>3, <2>4 DEF Windows
  <1>8. CASE Tick
    BY <1>8, TickWindows
  <1> QED
    BY StepsOf, <1>1, <1>2, <1>3, <1>4, <1>5, <1>6, <1>7, <1>8 DEF Listeners

LEMMA TickServed ==
    ASSUME Types, AllPaired, Windows, Served, Tick
    PROVE  Served'
  <1> USE GraceAssumption DEF Types
  <1>1. /\ busy["mcp"] \in Nat /\ busy'["mcp"] = IF busy["mcp"] = 0 THEN 0 ELSE busy["mcp"] - 1
        /\ timer["mcp"] \in Nat /\ timer'["mcp"] = IF timer["mcp"] = 0 THEN 0 ELSE timer["mcp"] - 1
        /\ UNCHANGED <<config, main, ctx, watcher>> /\ main # "exited"
    BY DEF Tick, Timers, Listeners, Running
  <1>2. watcher["mcp"] = "drain" => busy["mcp"] > 0 /\ timer["mcp"] > 0
    BY TickWaits DEF Listeners
  <1>3. CASE main = "waitMCP"
    <2>1. watcher["mcp"] = "drain" /\ timer["main"] \in Nat /\ timer["main"] # 0
      BY <1>3, TickWaits DEF Windows, Waits, Listeners
    <2>2. timer'["main"] = timer["main"] - 1
      BY <2>1 DEF Tick, Timers
    <2>3. Short' <=> Short
      BY <1>1 DEF Short
    <2>4. Short => /\ busy'["mcp"] <= Grace["mcp"] /\ busy'["mcp"] <= timer'["mcp"]
      BY <1>1, <1>2, <2>1, GraceAssumption DEF Served, Listeners
    <2>5. timer'["mcp"] <= timer'["main"]
      BY <1>1, <1>2, <1>3, <2>1, <2>2 DEF Served
    <2> QED
      BY <1>1, <1>3, <2>1, <2>3, <2>4, <2>5 DEF Served
  <1>4. CASE main # "waitMCP"
    BY <1>1, <1>2, <1>4 DEF Served, Short, Listeners
  <1> QED
    BY <1>3, <1>4

LEMMA NextServed == Types /\ AllPaired /\ Windows /\ Served /\ [Next]_vars => Served'
  <1> SUFFICES ASSUME Types, AllPaired, Windows, Served, [Next]_vars PROVE Served'
    OBVIOUS
  <1>0. "mcp" \in Listeners /\ Grace["mcp"] \in Nat \ {0}
    BY GraceAssumption DEF Listeners
  <1> USE <1>0 DEF Types, serverVars
  <1>1. CASE \/ Signal \/ PrimeSucceeds \/ PrimeFails \/ StdioEnds \/ LoadLocal \/ Backoff
             \/ Configure \/ BuildManagers \/ StopAll \/ WaitRefresh
    <2>1. /\ UNCHANGED <<config, busy, watcher>> /\ timer'["mcp"] = timer["mcp"]
          /\ main' # "exited"
          /\ main' = "waitMCP" => main = "waitMCP" /\ timer' = timer
      BY <1>1 DEF Signal, PrimeSucceeds, PrimeFails, StdioEnds, LoadLocal, Backoff, Configure,
                  BuildManagers, StopAll, WaitRefresh, Timers, Listeners, Running
    <2> QED
      BY <2>1 DEF Served, Short
  <1>2. CASE StartAll
    <2>1. /\ UNCHANGED <<config, busy, timer>> /\ watcher'["mcp"] \in {"off", "watch"}
          /\ main' \notin {"waitMCP", "exited"}
      BY <1>2 DEF StartAll
    <2> QED
      BY <2>1 DEF Served, Short
  <1>3. CASE WaitDebug
    <2>1. /\ UNCHANGED <<config, busy, watcher>> /\ main' = "waitMCP"
          /\ timer'["mcp"] = timer["mcp"] /\ timer'["main"] = Grace["mcp"]
      BY <1>3 DEF WaitDebug, Timers, Listeners
    <2>2. watcher["mcp"] = "drain" => timer["mcp"] <= Grace["mcp"]
      BY DEF Windows
    <2> QED
      BY <2>1, <2>2 DEF Served, Short
  <1>4. CASE WaitMCP
    <2>1. UNCHANGED <<config, busy, watcher, timer>> /\ main = "waitMCP" /\ main' = "exited"
      BY <1>4 DEF WaitMCP
    <2>2. Short => busy["mcp"] = 0
      <3>1. CASE watcher["mcp"] = "off"
        BY <3>1 DEF AllPaired, Paired
      <3>2. CASE watcher["mcp"] \in {"stopLimiter", "done"}
        BY <3>2 DEF Served
      <3>3. CASE watcher["mcp"] \in {"watch", "drain"}
        <4>1. timer["main"] = 0
          BY <1>4, <3>3 DEF WaitMCP, Awaited, Elapsed
        <4> QED
          BY <2>1, <3>3, <4>1 DEF Served
      <3> QED
        BY <3>1, <3>2, <3>3
    <2> QED
      BY <2>1, <2>2 DEF Served, Short
  <1>5. CASE \/ RefreshDone \/ RefreshTicks \/ RefreshReturns \/ RefreshCancelled
             \/ JanitorTicks \/ JanitorEvicts \/ JanitorStops \/ UNCHANGED vars
    <2>1. UNCHANGED <<config, main, busy, watcher, timer>>
      BY <1>5 DEF RefreshDone, RefreshTicks, RefreshReturns, RefreshCancelled, Loop,
                  JanitorTicks, JanitorEvicts, JanitorStops, Sweep, vars
    <2> QED
      BY <2>1 DEF Served, Short
  <1>6. ASSUME NEW l \in Listeners, Accept(l) PROVE Served'
    <2>1. PICK n \in Needs(l) : busy' = [busy EXCEPT ![l] = n]
      BY <1>6 DEF Accept
    <2>2. UNCHANGED <<config, main, watcher, timer>> /\ main # "exited" /\ listener[l] = "listening"
      BY <1>6 DEF Accept, Running
    <2>3. n \in Nat /\ (Short /\ l = "mcp" => n <= Grace["mcp"])
      BY NeedsType DEF Short
    <2>4. watcher[l] \notin {"drain", "stopLimiter", "done"}
      BY <2>2 DEF AllPaired, Paired
    <2> QED
      BY <2>1, <2>2, <2>3, <2>4 DEF Served, Short
  <1>7. ASSUME NEW l \in Listeners, Respond(l) \/ ListenFails(l) \/ LimiterStopped PROVE Served'
    <2>1. /\ UNCHANGED <<config, main, timer>> /\ main # "exited"
          /\ busy'["mcp"] \in {0, busy["mcp"]}
          /\ watcher' = watcher \/ (watcher["mcp"] = "stopLimiter" /\ watcher'["mcp"] = "done")
      <3>1. CASE Respond(l)
        <4>1. busy' = [busy EXCEPT ![l] = 0]
          BY <3>1 DEF Respond
        <4>2. busy'["mcp"] = IF l = "mcp" THEN 0 ELSE busy["mcp"]
          BY <4>1
        <4>3. UNCHANGED <<config, main, timer, watcher>> /\ main # "exited"
          BY <3>1 DEF Respond, Running
        <4> QED
          BY <4>2, <4>3
      <3>2. CASE ListenFails(l)
        BY <3>2 DEF ListenFails, Running
      <3>3. CASE LimiterStopped
        BY <3>3 DEF LimiterStopped, Running
      <3> QED
        BY <1>7, <3>1, <3>2, <3>3
    <2> QED
      BY <2>1 DEF Served, Short
  <1>8. ASSUME NEW l \in Listeners, Drained(l) PROVE Served'
    <2>1. /\ UNCHANGED <<config, main, timer, busy>> /\ main # "exited"
          /\ l # "mcp" => watcher'["mcp"] = watcher["mcp"]
          /\ l = "mcp" => /\ watcher["mcp"] = "drain" /\ watcher'["mcp"] = "stopLimiter"
                          /\ busy["mcp"] = 0 \/ timer["mcp"] = 0
      BY <1>8 DEF Drained, DrainEnds, Running
    <2> QED
      BY <2>1 DEF Served, Short
  <1>9. ASSUME NEW l \in Listeners, Shutdown(l) PROVE Served'
    <2>1. /\ UNCHANGED <<config, main, busy>> /\ main # "exited" /\ watcher[l] = "watch"
          /\ timer' = [timer EXCEPT ![l] = Grace[l]] /\ watcher' = [watcher EXCEPT ![l] = "drain"]
      BY <1>9 DEF Shutdown, Woken, Running
    <2>2. timer'["main"] = timer["main"]
      BY <2>1 DEF Timers, Listeners
    <2>3. CASE l = "mcp"
      <3>1. timer'["mcp"] = Grace["mcp"] /\ watcher'["mcp"] = "drain"
        BY <2>1, <2>3 DEF Timers
      <3> QED
        BY <2>1, <2>2, <2>3, <3>1 DEF Served, Short
    <2>4. CASE l # "mcp"
      BY <2>1, <2>2, <2>4 DEF Served, Short
    <2> QED
      BY <2>3, <2>4
  <1>10. CASE Tick
    BY <1>10, TickServed
  <1> QED
    BY StepsOf, <1>1, <1>2, <1>3, <1>4, <1>5, <1>6, <1>7, <1>8, <1>9, <1>10 DEF Listeners
-----------------------------------------------------------------------------
(* Theorems                                                                *)

\* None of its parts is inductive alone: that a drain takes no request with it
\* rests on the windows, these on who is paired with whom, and that on start-up.
IInv == Types /\ Started /\ AllPaired /\ Windows /\ Served

LEMMA Inductive == Spec => []IInv
  <1>1. Init => IInv
    BY InitTypes, InitStarted, InitPaired, InitWindows, InitServed DEF IInv
  <1>2. IInv /\ [Next]_vars => IInv'
    BY NextTypes, NextStarted, NextPaired, NextWindows, NextServed DEF IInv
  <1> QED
    BY <1>1, <1>2, PTL DEF Spec

\* What Load accepts starts whole, and nothing is served before a gamemaster is
\* loaded, whatever the configuration and however priming goes (serve.go:100-178).
THEOREM StartsWholeOrNotHolds == Spec => []StartsWholeOrNot
  <1>1. IInv => StartsWholeOrNot
    BY DEF IInv, Started, StartsWholeOrNot, NothingServedUnloaded, AcceptedStarts, Unprimed
  <1> QED
    BY <1>1, Inductive, PTL

\* When a listener's done channel is closed, it and its janitor have stopped and
\* no request runs but one that outlived the grace (serve.go:563-567, 643-648).
THEOREM DoneMeansQuietHolds == Spec => []DoneMeansQuiet
  <1>1. IInv => DoneMeansQuiet
    BY DEF IInv, AllPaired, Paired, Types, DoneMeansQuiet
  <1> QED
    BY <1>1, Inductive, PTL

\* The exit cuts no call whose deadline is within the grace, and comes within the
\* longest of the three windows, for any graces (serve.go:95-98, 221-250).
THEOREM GracesKeptHolds == Spec => []GracesKept
  <1>1. IInv => GracesKept
    BY DEF IInv, Windows, Served, Short, GracesKept, NoRequestCut
  <1> QED
    BY <1>1, Inductive, PTL
=============================================================================
