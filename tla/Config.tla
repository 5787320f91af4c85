-------------------------------- MODULE Config --------------------------------
(***************************************************************************)
(* What internal/config/config.go accepts, and what the readers of a       *)
(* configuration go on to refuse by themselves.  A configuration is a      *)
(* record of its fields; a string is told apart only by whether its reader *)
(* can use it.                                                             *)
(***************************************************************************)
EXTENDS Integers

CONSTANTS
    CIDRs   \* entries net.ParseCIDR accepts once trimmed

Tiers == {"default", "heavy"}
Levels == {"debug", "info", "warn", "error"}
Formats == {"text", "json"}
maxPort == 65535

\* A listen address: empty, or what net.SplitHostPort and strconv.Atoi make of it.
Unset == [form |-> "empty"]
Malformed == [form |-> "malformed"]
At(port) == [form |-> "split", port |-> port]

\* validateListenAddress: port 0 would be another one after every restart.
Listenable(addr) == addr.form = "split" /\ addr.port \in 1..maxPort

\* validateTransportAndDebug
ValidTransport(c) == c.transport = "stdio" /\ c.httpPort \in 0..maxPort

\* Faulty variant: the proxies are left to the listener that reads them.
ValidMCPHTTPButProxies(c) ==
    /\ c.mcpListen # Unset => Listenable(c.mcpListen)
    /\ c.rps >= 0 /\ c.burst >= 0 /\ c.maxBytes >= 0
    /\ \A t \in Tiers : c.timeout[t] >= 0

\* validateMCPHTTPPhase3: zero or empty turns a control off.
ValidMCPHTTP(c) ==
    /\ c.mcpListen # Unset => Listenable(c.mcpListen)
    /\ c.rps >= 0 /\ c.burst >= 0 /\ c.maxBytes >= 0
    /\ \A t \in Tiers : c.timeout[t] >= 0
    /\ c.proxies \subseteq CIDRs

\* validateLog
ValidLog(c) == c.level \in Levels /\ c.format \in Formats

\* validateDataPlane
ValidDataPlane(c) ==
    c.goroutines >= 0 /\ c.interval > 0 /\ c.source # "" /\ c.localPath # ""

\* Validate, which Load ends with.
Validate(c) == ValidTransport(c) /\ ValidMCPHTTP(c) /\ ValidLog(c) /\ ValidDataPlane(c)
-----------------------------------------------------------------------------
\* startDebugServer and startMCPHTTPServer: which listeners are wanted.
Wanted(c) ==
    (IF c.httpPort = 0 THEN {} ELSE {"debug"}) \cup (IF c.mcpListen = Unset THEN {} ELSE {"mcp"})

\* NewLogger
LoggerBuilds(c) == c.level \in Levels /\ c.format \in Formats

\* NewManager of the gamemaster; that of the rankings gets a directory beside
\* its file and a constant address.
ManagersBuild(c) == c.source # "" /\ c.localPath # ""

\* time.NewTicker panics unless its interval is positive.
TickerBuilds(c) == c.interval > 0

\* ParseTrustedProxies
ProxiesParse(c) == c.proxies \subseteq CIDRs

\* Timeout of mcpmw: how long a call may take that needs some time, with the
\* deadline of its tier; zero is none.
CallBudget(c, tier, needs) == IF c.timeout[tier] \in 1..needs THEN c.timeout[tier] ELSE needs
=============================================================================
