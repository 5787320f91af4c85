--------------------------- MODULE MCServeLifecycle ---------------------------
(* Instances of ServeLifecycle for TLC. *)
EXTENDS ServeLifecycle, TLC

\* The graces in the order of the code; a POST /refresh may outlive its own, and
\* so may a call of a tool that has no deadline.
MCGrace  == "debug" :> 2 @@ "mcp" :> 4
MCBudget == "debug" :> 3 @@ "mcp" :> 5

Timeouts(heavy) == "default" :> 2 @@ "heavy" :> heavy

Sound(port, listen, rps, heavy) ==
    [transport |-> "stdio", httpPort |-> port, mcpListen |-> listen, rps |-> rps, burst |-> 0,
     maxBytes |-> 0, timeout |-> Timeouts(heavy), proxies |-> {"10.0.0.0/8"}, level |-> "info",
     format |-> "text", goroutines |-> 0, interval |-> 1, source |-> "url", localPath |-> "path"]

SoundConfigs ==
    {Sound(port, listen, rps, heavy) :
        port \in {0, 65535}, listen \in {Unset, At(1)}, rps \in {0, 10}, heavy \in {0, 4}}

Full == Sound(8081, At(8080), 10, 4)

\* One field at a time that somebody cannot use.
Defective ==
    {[Full EXCEPT !.transport = "http"], [Full EXCEPT !.httpPort = -1],
     [Full EXCEPT !.httpPort = 65536], [Full EXCEPT !.mcpListen = Malformed],
     [Full EXCEPT !.mcpListen = At(0)], [Full EXCEPT !.mcpListen = At(65536)],
     [Full EXCEPT !.rps = -1], [Full EXCEPT !.burst = -1], [Full EXCEPT !.maxBytes = -1],
     [Full EXCEPT !.timeout["heavy"] = -1], [Full EXCEPT !.proxies = {"10.0.0.0/8", "10.0.0.1"}],
     [Full EXCEPT !.level = "trace"], [Full EXCEPT !.format = "xml"],
     [Full EXCEPT !.goroutines = -1], [Full EXCEPT !.interval = 0],
     [Full EXCEPT !.source = ""], [Full EXCEPT !.localPath = ""]}

MCConfigs == SoundConfigs \cup Defective
=============================================================================
