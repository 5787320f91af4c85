---------------------------- MODULE ServeLifecycle ----------------------------
(***************************************************************************)
(* The life of one "serve" process, internal/cli/serve.go: configuration,  *)
(* priming, the start of the refresh loop and the two HTTP listeners, the  *)
(* stdio transport, and the shutdown that waits for each of them in turn.  *)
(*                                                                         *)
(* Every listener has two goroutines: ListenAndServe, and a watcher that   *)
(* shuts it down.  Goroutines share only the context and done channels.    *)
(* Time is counted in ticks; a tick does not come while a goroutine could  *)
(* go on without waiting, for scheduling takes no time next to the graces. *)
(***************************************************************************)
EXTENDS Config, FiniteSets

CONSTANTS
    RefreshGrace,      \* refreshGrace
    Grace,             \* debugServerShutdownGrace and mcpHTTPShutdownGrace
    Budget,            \* ticks the longest request to a listener needs
    Configs,           \* configurations an operator may write
    BootstrapRetries,  \* bootstrapRetries
    BackoffBase,       \* bootstrapBackoffBase
    BackoffFactor      \* bootstrapBackoffFactor

Listeners == {"debug", "mcp"}

ASSUME GraceAssumption ==
    /\ {RefreshGrace, BootstrapRetries, BackoffBase, BackoffFactor} \subseteq Nat \ {0}
    /\ Grace \in [Listeners -> Nat \ {0}]
    /\ Budget \in [Listeners -> Nat \ {0}]

VARIABLES
    config,    \* what the file and the environment say
    ctx,       \* the context of NotifyContext: "live" or "done"
    main,      \* the next step of runServe
    attempt,   \* attempts of primeGamemaster
    loaded,    \* whether the manager has a gamemaster
    refresh,   \* the refresh loop
    listener,  \* ListenAndServe
    watcher,   \* the goroutine that closes the listener's done channel
    busy,      \* ticks left to the request a listener serves; 0 for none
    janitor,   \* the limiter's janitor
    timer,     \* ticks until a goroutine's time.After or deadline fires
    since      \* history: ticks since runServe called stop

vars == <<config, ctx, main, attempt, loaded, refresh, listener, watcher, busy,
          janitor, timer, since>>

serverVars == <<listener, watcher, busy, janitor>>

Timers == Listeners \cup {"main"}

Init ==
    /\ config \in Configs
    /\ ctx = "live"
    /\ main = "config"
    /\ attempt = 1
    /\ loaded = "no"
    /\ refresh = "off"
    /\ listener = [l \in Listeners |-> "off"]
    /\ watcher = [l \in Listeners |-> "off"]
    /\ busy = [l \in Listeners |-> 0]
    /\ janitor = "off"
    /\ timer = [t \in Timers |-> 0]
    /\ since = 0

Running == main \notin {"exited", "failed", "misconfigured"}

\* SIGINT or SIGTERM, once runServe handles them.
Signal ==
    /\ Running /\ ctx = "live" /\ main # "config"
    /\ ctx' = "done"
    /\ UNCHANGED <<config, main, attempt, loaded, refresh, serverVars, timer, since>>
-----------------------------------------------------------------------------
(* Start-up as far as primeGamemaster                                      *)

\* buildRuntime: Load, then the logger.
Configure ==
    /\ main = "config"
    /\ main' = IF ~Validate(config) THEN "failed"
               ELSE IF LoggerBuilds(config) THEN "managers" ELSE "misconfigured"
    /\ UNCHANGED <<ctx, attempt, config, loaded, refresh, serverVars, timer, since>>

\* buildManagers
BuildManagers ==
    /\ main = "managers"
    /\ main' = IF ManagersBuild(config) THEN "load" ELSE "misconfigured"
    /\ UNCHANGED <<ctx, attempt, config, loaded, refresh, serverVars, timer, since>>

LoadLocal ==
    /\ main = "load"
    /\ \/ main' = "start" /\ loaded' = "yes"
       \/ main' = "prime" /\ UNCHANGED loaded
    /\ UNCHANGED <<config, ctx, attempt, refresh, serverVars, timer, since>>

PrimeSucceeds ==
    /\ main = "prime" /\ ctx = "live"
    /\ main' = "start"
    /\ loaded' = "yes"
    /\ UNCHANGED <<config, ctx, attempt, refresh, serverVars, timer, since>>

\* The upstream fails, or the context is done.
PrimeFails ==
    /\ main = "prime"
    /\ IF attempt = BootstrapRetries
       THEN main' = "failed" /\ UNCHANGED timer
       ELSE /\ main' = "backoff"
            /\ timer' = [timer EXCEPT !["main"] = BackoffBase * BackoffFactor ^ (attempt - 1)]
    /\ UNCHANGED <<config, ctx, attempt, loaded, refresh, serverVars, since>>

\* The goroutine of runServe sleeps no longer.
Elapsed == timer["main"] = 0

Backoff ==
    /\ main = "backoff"
    /\ \/ ctx = "done" /\ main' = "failed" /\ UNCHANGED attempt
       \/ Elapsed /\ main' = "prime" /\ attempt' = attempt + 1
    /\ UNCHANGED <<config, ctx, loaded, refresh, serverVars, timer, since>>
-----------------------------------------------------------------------------
(* runServe                                                                *)

\* startRefreshLoop, startDebugServer and startMCPHTTPServer: goroutines that
\* have not run yet.  BuildMCPHTTPMiddlewareChain refuses a malformed list
\* before it makes the limiter, and runServe then stops what it has started.
StartAll ==
    LET refused == "mcp" \in Wanted(config) /\ ~ProxiesParse(config)
        on == Wanted(config) \ (IF refused THEN {"mcp"} ELSE {})
    IN  /\ main = "start"
        /\ refresh' = "select"
        /\ listener' = [l \in Listeners |-> IF l \in on THEN "listening" ELSE "off"]
        /\ watcher' = [l \in Listeners |-> IF l \in on THEN "watch" ELSE "off"]
        /\ janitor' = IF "mcp" \notin on THEN "off"
                      ELSE IF config.rps > 0 THEN "select" ELSE "stopped"
        /\ main' = IF ~TickerBuilds(config) THEN "misconfigured"
                   ELSE IF refused THEN "stop" ELSE "stdio"
        /\ UNCHANGED <<config, ctx, attempt, loaded, busy, timer, since>>

\* server.Run returns when the client hangs up, or the context is done.
StdioEnds ==
    /\ main = "stdio"
    /\ main' = "stop"
    /\ UNCHANGED <<config, ctx, attempt, loaded, refresh, serverVars, timer, since>>

\* stop() cancels the context; the first wait begins.
StopAll ==
    /\ main = "stop"
    /\ ctx' = "done"
    /\ main' = "waitRefresh"
    /\ timer' = [timer EXCEPT !["main"] = RefreshGrace]
    /\ UNCHANGED <<config, attempt, loaded, refresh, serverVars, since>>

\* A wait of waitForBackgroundShutdown ends when the goroutine is done or when
\* the grace is over; a listener that was never started is not waited for.
RefreshAwaited == refresh = "done" \/ Elapsed

Awaited(l) == watcher[l] \in {"off", "done"} \/ Elapsed

WaitRefresh ==
    /\ main = "waitRefresh"
    /\ RefreshAwaited
    /\ main' = "waitDebug"
    /\ timer' = [timer EXCEPT !["main"] = Grace["debug"]]
    /\ UNCHANGED <<config, ctx, attempt, loaded, refresh, serverVars, since>>

\* Faulty variant: one window is shared by both listeners.
WaitDebugSharedWindow ==
    /\ main = "waitDebug"
    /\ Awaited("debug")
    /\ main' = "waitMCP"
    /\ UNCHANGED <<config, ctx, attempt, loaded, refresh, serverVars, timer, since>>

WaitDebug ==
    /\ main = "waitDebug"
    /\ Awaited("debug")
    /\ main' = "waitMCP"
    /\ timer' = [timer EXCEPT !["main"] = Grace["mcp"]]
    /\ UNCHANGED <<config, ctx, attempt, loaded, refresh, serverVars, since>>

\* runServe returns, and with it the process and all its goroutines.
WaitMCP ==
    /\ main = "waitMCP"
    /\ Awaited("mcp")
    /\ main' = "exited"
    /\ UNCHANGED <<config, ctx, attempt, loaded, refresh, serverVars, timer, since>>

Main ==
    \/ Configure \/ BuildManagers
    \/ LoadLocal \/ Backoff \/ StartAll \/ StopAll \/ WaitRefresh \/ WaitDebug \/ WaitMCP
-----------------------------------------------------------------------------
(* runRefreshLoop                                                          *)

Loop(from, to) ==
    /\ Running
    /\ refresh = from
    /\ refresh' = to
    /\ UNCHANGED <<config, ctx, main, attempt, loaded, serverVars, timer, since>>

\* Both cases of the select may be ready: either is taken.
RefreshDone == ctx = "done" /\ Loop("select", "done")

RefreshTicks == Loop("select", "refreshing")

\* The refresh succeeds or fails for another reason than the context.
RefreshReturns == Loop("refreshing", "select")

RefreshCancelled == ctx = "done" /\ Loop("refreshing", "done")
-----------------------------------------------------------------------------
(* Listeners                                                               *)

\* How long a request to a listener may take: a call of a tool ends when the
\* deadline of its tier does.
Needs(l) ==
    IF l = "debug" THEN {Budget[l]} ELSE {CallBudget(config, t, Budget[l]) : t \in Tiers}

\* A request comes in.
Accept(l) ==
    /\ Running
    /\ listener[l] = "listening" /\ busy[l] = 0
    /\ \E n \in Needs(l) : busy' = [busy EXCEPT ![l] = n]
    /\ UNCHANGED <<config, ctx, main, attempt, loaded, refresh, listener, watcher, janitor, timer, since>>

Respond(l) ==
    /\ Running
    /\ busy[l] > 0
    /\ busy' = [busy EXCEPT ![l] = 0]
    /\ UNCHANGED <<config, ctx, main, attempt, loaded, refresh, listener, watcher, janitor, timer, since>>

\* ListenAndServe fails on its own: the address is taken.
ListenFails(l) ==
    /\ Running
    /\ listener[l] = "listening" /\ busy[l] = 0
    /\ listener' = [listener EXCEPT ![l] = "closed"]
    /\ UNCHANGED <<config, ctx, main, attempt, loaded, refresh, watcher, busy, janitor, timer, since>>

\* Faulty variant: the watcher waits for the context alone.
ShutdownOnCancel(l) ==
    /\ Running
    /\ watcher[l] = "watch"
    /\ ctx = "done"
    /\ watcher' = [watcher EXCEPT ![l] = "drain"]
    /\ listener' = [listener EXCEPT ![l] = "closed"]
    /\ timer' = [timer EXCEPT ![l] = Grace[l]]
    /\ UNCHANGED <<config, ctx, main, attempt, loaded, refresh, busy, janitor, since>>

\* watchAndShutdown: the context is done or serverDone is closed; Shutdown
\* closes the listener and waits for requests on a deadline of its own.
Woken(l) == watcher[l] = "watch" /\ (ctx = "done" \/ listener[l] = "closed")

Shutdown(l) ==
    /\ Running
    /\ Woken(l)
    /\ watcher' = [watcher EXCEPT ![l] = "drain"]
    /\ listener' = [listener EXCEPT ![l] = "closed"]
    /\ timer' = [timer EXCEPT ![l] = Grace[l]]
    /\ UNCHANGED <<config, ctx, main, attempt, loaded, refresh, busy, janitor, since>>

\* Shutdown returns.  The deferred calls run last in, first out: the watcher
\* of the MCP listener stops the limiter before it closes done.
DrainEnds(l) == watcher[l] = "drain" /\ (busy[l] = 0 \/ timer[l] = 0)

Drained(l) ==
    /\ Running
    /\ DrainEnds(l)
    /\ watcher' = [watcher EXCEPT ![l] = IF l = "mcp" THEN "stopLimiter" ELSE "done"]
    /\ UNCHANGED <<config, ctx, main, attempt, loaded, refresh, listener, busy, janitor, timer, since>>

\* Faulty variant: done is closed without waiting for the janitor.
LimiterAbandoned ==
    /\ Running
    /\ watcher["mcp"] = "stopLimiter"
    /\ watcher' = [watcher EXCEPT !["mcp"] = "done"]
    /\ UNCHANGED <<config, ctx, main, attempt, loaded, refresh, listener, busy, janitor, timer, since>>

\* RateLimiter.Stop has closed stopCh and waits for the janitor.
LimiterStopped ==
    /\ Running
    /\ watcher["mcp"] = "stopLimiter"
    /\ janitor = "stopped"
    /\ watcher' = [watcher EXCEPT !["mcp"] = "done"]
    /\ UNCHANGED <<config, ctx, main, attempt, loaded, refresh, listener, busy, janitor, timer, since>>

Sweep(from, to) ==
    /\ Running
    /\ janitor = from
    /\ janitor' = to
    /\ UNCHANGED <<config, ctx, main, attempt, loaded, refresh, listener, watcher, busy, timer, since>>

JanitorTicks   == Sweep("select", "evict")
JanitorEvicts  == Sweep("evict", "select")
JanitorStops   == watcher["mcp"] = "stopLimiter" /\ Sweep("select", "stopped")

Watcher(l) == Shutdown(l) \/ Drained(l) \/ (l = "mcp" /\ LimiterStopped)
-----------------------------------------------------------------------------
\* Some goroutine could go on without waiting: Main, a watcher, or the janitor
\* with entries to evict or a limiter that is being stopped.
MainReady ==
    \/ main \in {"config", "managers", "load", "start", "stop"}
    \/ main = "backoff" /\ (ctx = "done" \/ Elapsed)
    \/ main = "waitRefresh" /\ RefreshAwaited
    \/ main = "waitDebug" /\ Awaited("debug")
    \/ main = "waitMCP" /\ Awaited("mcp")

Ready ==
    \/ MainReady
    \/ \E l \in Listeners : Woken(l) \/ DrainEnds(l)
    \/ watcher["mcp"] = "stopLimiter" /\ janitor \in {"select", "stopped"}
    \/ janitor = "evict"

Tick ==
    /\ Running
    /\ ~Ready
    /\ \A l \in Listeners : busy[l] # 1
    /\ \/ \E t \in Timers : timer[t] > 0
       \/ \E l \in Listeners : busy[l] > 0
    /\ timer' = [t \in Timers |-> IF timer[t] = 0 THEN 0 ELSE timer[t] - 1]
    /\ busy' = [l \in Listeners |-> IF busy[l] = 0 THEN 0 ELSE busy[l] - 1]
    /\ since' = IF main \in {"waitRefresh", "waitDebug", "waitMCP"} THEN since + 1 ELSE since
    /\ UNCHANGED <<config, ctx, main, attempt, loaded, refresh, listener, watcher, janitor>>

\* The process is gone.
Gone == ~Running /\ UNCHANGED vars

Next ==
    \/ Signal \/ PrimeSucceeds \/ PrimeFails \/ StdioEnds \/ Main
    \/ RefreshDone \/ RefreshTicks \/ RefreshReturns \/ RefreshCancelled
    \/ \E l \in Listeners : Accept(l) \/ Respond(l) \/ ListenFails(l) \/ Watcher(l)
    \/ JanitorTicks \/ JanitorEvicts \/ JanitorStops
    \/ Tick \/ Gone

Spec == Init /\ [][Next]_vars

\* Goroutines that can run do and time does not stop, as often as the janitor
\* may run meanwhile; the HTTP client of a bootstrap
\* attempt has a timeout; the SDK returns once the context is done; a request
\* that is due ends.  A select with two ready cases takes each in the long
\* run.  Neither the refresh loop nor the client of stdio owes anything.
FairSpec ==
    /\ Spec
    /\ WF_vars(Main) /\ SF_vars(Tick)
    /\ WF_vars(PrimeSucceeds \/ PrimeFails)
    /\ WF_vars(ctx = "done" /\ StdioEnds)
    /\ \A l \in Listeners : WF_vars(Watcher(l)) /\ WF_vars(busy[l] = 1 /\ Respond(l))
    /\ WF_vars(JanitorEvicts) /\ SF_vars(JanitorStops)
-----------------------------------------------------------------------------
(* Properties                                                              *)

\* Nothing is served before a gamemaster is loaded (serve.go:100-106).
NothingServedUnloaded ==
    (\E l \in Listeners : listener[l] # "off") \/ refresh # "off" \/ main = "stdio"
        => loaded = "yes"

\* When done is closed the listener is, its janitor is gone, and a request
\* still runs only if it outlived the grace (serve.go:563-567, 643-648).
DoneMeansQuiet ==
    \A l \in Listeners : watcher[l] = "done" =>
        /\ listener[l] = "closed"
        /\ busy[l] > 0 => timer[l] = 0
        /\ l = "mcp" => janitor = "stopped"

\* What Load accepts, nobody refuses later: no constructor fails, the refresh
\* loop does not panic, and every listener that is wanted is started
\* (config.go:330-338).
AcceptedStarts ==
    /\ main # "misconfigured"
    /\ refresh # "off" => \A l \in Wanted(config) : listener[l] # "off"

\* A server starts with everything that was asked for, or serves nothing: what is
\* read of the configuration, the primed gamemaster and the goroutines go together.
StartsWholeOrNot == NothingServedUnloaded /\ AcceptedStarts

\* No request to the public endpoint is cut by the exit of the process, in
\* whatever order the waits end, if the calls have a deadline within the grace;
\* Validate asks for neither (serve.go:95-98).
NoRequestCut ==
    main = "exited" /\ (\A t \in Tiers : config.timeout[t] \in 1..Grace["mcp"]) => busy["mcp"] = 0

\* However long the refresh and the requests take, shutdown takes no longer
\* than its longest window: the waits come one after another, but what they
\* wait for drains at the same time (serve.go:221-225).
ExitsWithinGraces ==
    \E window \in {RefreshGrace, Grace["debug"], Grace["mcp"]} : since <= window

\* The windows are long enough for the calls and short enough for the operator.
GracesKept == NoRequestCut /\ ExitsWithinGraces

\* A process that is told to end does, although nobody waits for the refresh
\* loop; so does one whose priming fails.
Ends == (ctx = "done") ~> ~Running

\* A listener that dies leaves no goroutine behind (serve.go:470-473).
NoWatcherLeft ==
    \A l \in Listeners : (listener[l] = "closed") ~> (watcher[l] = "done" \/ ~Running)

\* Whatever dies first, the context or a listener, what depends on it ends too.
ShutsDown == Ends /\ NoWatcherLeft
=============================================================================
