-------------------------- MODULE GamemasterManager --------------------------
(***************************************************************************)
(* The gamemaster snapshot of internal/gamemaster/manager.go and the code  *)
(* that refreshes it: the refresh loop and the start-up of cli/serve.go,   *)
(* POST /refresh of debug/server.go and the fetch-gm command.              *)
(*                                                                         *)
(* A process holds one snapshot and the ETag it came with under one lock.  *)
(* Refresh reads the ETag under that lock, and much later writes snapshot  *)
(* and ETag under it again; in between it talks to the upstream and        *)
(* replaces the cache file, which all processes share.  Nothing else       *)
(* orders two refreshes.                                                   *)
(***************************************************************************)
EXTENDS Naturals, FiniteSets

CONSTANTS
    Procs,         \* operating-system processes sharing the cache file
    Refreshers,    \* goroutines that call Refresh
    Home,          \* the process of a refresher
    Own,           \* the refreshers that are their process's own thread of
                   \* control (primeGamemaster then the loop, or fetch-gm);
                   \* the others are POST /refresh handlers
    Commands,      \* the processes that run fetch-gm rather than serve
    Crashing,      \* the processes that may die and be started again
    Versions,      \* gamemaster documents the upstream publishes
    Torn,          \* bytes ParseGamemaster rejects
    None,          \* nil snapshot, empty ETag, absent file
    TagsAlways,    \* whether every 200 answer carries an ETag
    MaxPublishes   \* bound on upstream changes, for model checking

ASSUME HomeAssumption == Home \in [Refreshers -> Procs]

ASSUME AbsentAssumption == None \notin Versions \cup {Torn} /\ Torn \notin Versions

ASSUME ProcsAssumption == 
    Own \subseteq Refreshers /\ Commands \subseteq Procs /\ Crashing \subseteq Procs

ASSUME BoundAssumption == MaxPublishes \in Nat /\ TagsAlways \in BOOLEAN

VARIABLES
    pc,         \* the next statement of each refresher
    sent,       \* the If-None-Match it sends
    body,       \* the body it received
    tag,        \* the ETag header it received
    tmp,        \* its temporary file
    current,    \* Manager.current of each process
    etag,       \* Manager.etag of each process
    phase,      \* "starting" before LoadLocal, "priming" until a first refresh
                \* succeeds, then "serving"
    file,       \* the cache file
    upstream,   \* what the upstream publishes; its ETag is the version itself
    publishes   \* how often it changed

threadVars == <<pc, sent, body, tag, tmp>>
memVars    == <<current, etag, phase>>
envVars    == <<upstream, publishes>>
vars       == <<threadVars, memVars, file, envVars>>

Labels == {"idle", "send", "response", "createTemp", "write", "rename", "swap"}

\* fetch-gm does not read the file first.
FirstPhase(p) == IF p \in Commands THEN "priming" ELSE "starting"

Init ==
    /\ pc = [r \in Refreshers |-> "idle"]
    /\ sent = [r \in Refreshers |-> None]
    /\ body = [r \in Refreshers |-> None]
    /\ tag = [r \in Refreshers |-> None]
    /\ tmp = [r \in Refreshers |-> None]
    /\ current = [p \in Procs |-> None]
    /\ etag = [p \in Procs |-> None]
    /\ phase = [p \in Procs |-> FirstPhase(p)]
    /\ file = None
    /\ upstream \in Versions
    /\ publishes = 0

Parses(b) == b \in Versions

Go(r, from, to) ==
    /\ pc[r] = from
    /\ pc' = [pc EXCEPT ![r] = to]

\* The locals of Refresh are gone once it returns.
Return(r) ==
    /\ pc' = [pc EXCEPT ![r] = "idle"]
    /\ sent' = [sent EXCEPT ![r] = None]
    /\ body' = [body EXCEPT ![r] = None]
    /\ tag' = [tag EXCEPT ![r] = None]
    /\ tmp' = [tmp EXCEPT ![r] = None]

\* An error return: a temporary file is removed, nothing else changes.
Fail(r) == Return(r) /\ UNCHANGED <<memVars, file, envVars>>

-----------------------------------------------------------------------------
(* Start-up                                                                *)

\* Faulty variant: a file that cannot be loaded does not stop start-up.
LoadLocalIgnored(p) ==
    /\ phase[p] = "starting"
    /\ current' = [current EXCEPT ![p] = IF Parses(file) THEN file ELSE None]
    /\ phase' = [phase EXCEPT ![p] = "serving"]
    /\ UNCHANGED <<threadVars, etag, file, envVars>>

\* primeGamemaster: serve the cache file if it parses, else go on to Refresh.
LoadLocal(p) ==
    /\ phase[p] = "starting"
    /\ \/ /\ Parses(file)
          /\ current' = [current EXCEPT ![p] = file]
          /\ phase' = [phase EXCEPT ![p] = "serving"]
       \/ /\ ~Parses(file)
          /\ phase' = [phase EXCEPT ![p] = "priming"]
          /\ UNCHANGED current
    /\ UNCHANGED <<threadVars, etag, file, envVars>>

\* Faulty variant: a process that serves refreshes on demand only.
RefreshOnDemand(r) ==
    /\ Go(r, "idle", "send")
    /\ \/ phase[Home[r]] = "priming" /\ r \in Own
       \/ phase[Home[r]] = "serving" /\ Home[r] \notin Commands /\ r \notin Own
    /\ sent' = [sent EXCEPT ![r] = etag[Home[r]]]
    /\ UNCHANGED <<body, tag, tmp, memVars, file, envVars>>

\* primeGamemaster and fetch-gm run one refresh after another; once serving,
\* every tick of the loop and every POST /refresh runs one.  Refresh begins by
\* reading the ETag under the read lock.
Refresh(r) ==
    /\ Go(r, "idle", "send")
    /\ \/ phase[Home[r]] = "priming" /\ r \in Own
       \/ phase[Home[r]] = "serving" /\ Home[r] \notin Commands
    /\ sent' = [sent EXCEPT ![r] = etag[Home[r]]]
    /\ UNCHANGED <<body, tag, tmp, memVars, file, envVars>>
-----------------------------------------------------------------------------
(* Refresh after the ETag is read                                          *)

\* A nil error ends primeGamemaster's retries.
Finish(r) ==
    /\ Return(r)
    /\ phase' = [phase EXCEPT ![Home[r]] = "serving"]

\* The answer is made from what the upstream publishes at this moment.
Answer(r) ==
    /\ pc[r] = "send"
    /\ sent[r] # upstream
    /\ pc' = [pc EXCEPT ![r] = "response"]
    /\ \E b \in {upstream, Torn} : body' = [body EXCEPT ![r] = b]
    /\ \E t \in IF TagsAlways THEN {upstream} ELSE {upstream, None} :
          tag' = [tag EXCEPT ![r] = t]
    /\ UNCHANGED <<sent, tmp, memVars, file, envVars>>

\* 304: the ETag sent is that of the published document; everything is kept.
NotModified(r) ==
    /\ pc[r] = "send"
    /\ sent[r] = upstream
    /\ Finish(r)
    /\ UNCHANGED <<current, etag, file, envVars>>

\* Timeout, transport error, cancelled context, other status.
FetchFails(r) == pc[r] = "send" /\ Fail(r)

\* applyPayload: nothing is stored before the body parses.
Parse(r) ==
    \/ /\ pc[r] = "response" /\ Parses(body[r])
       /\ pc' = [pc EXCEPT ![r] = "createTemp"]
       /\ UNCHANGED <<sent, body, tag, tmp, memVars, file, envVars>>
    \/ pc[r] = "response" /\ ~Parses(body[r]) /\ Fail(r)

CreateTemp(r) ==
    \/ /\ Go(r, "createTemp", "write")
       /\ tmp' = [tmp EXCEPT ![r] = Torn]
       /\ UNCHANGED <<sent, body, tag, memVars, file, envVars>>
    \/ pc[r] = "createTemp" /\ Fail(r)

\* Faulty variant: the bytes go to the path itself.
WriteInPlace(r) ==
    /\ Go(r, "write", "rename")
    /\ tmp' = [tmp EXCEPT ![r] = body[r]]
    /\ file' = Torn
    /\ UNCHANGED <<sent, body, tag, memVars, envVars>>

Write(r) ==
    \/ /\ Go(r, "write", "rename")
       /\ tmp' = [tmp EXCEPT ![r] = body[r]]
       /\ UNCHANGED <<sent, body, tag, memVars, file, envVars>>
    \/ pc[r] = "write" /\ Fail(r)

\* The snapshot is swapped only once the file is replaced.
Rename(r) ==
    \/ /\ Go(r, "rename", "swap")
       /\ file' = tmp[r]
       /\ tmp' = [tmp EXCEPT ![r] = None]
       /\ UNCHANGED <<sent, body, tag, memVars, envVars>>
    \/ pc[r] = "rename" /\ Fail(r)

\* Faulty variant: the ETag is written without the snapshot it names.
SwapTagOnly(r) ==
    /\ pc[r] = "swap"
    /\ current' = [current EXCEPT ![Home[r]] = IF @ = None THEN body[r] ELSE @]
    /\ etag' = [etag EXCEPT ![Home[r]] = IF tag[r] = None THEN @ ELSE tag[r]]
    /\ Finish(r)
    /\ UNCHANGED <<file, envVars>>

\* Snapshot and ETag change under one write lock; a missing ETag keeps the old.
Swap(r) ==
    /\ pc[r] = "swap"
    /\ current' = [current EXCEPT ![Home[r]] = body[r]]
    /\ etag' = [etag EXCEPT ![Home[r]] = IF tag[r] = None THEN @ ELSE tag[r]]
    /\ Finish(r)
    /\ UNCHANGED <<file, envVars>>
-----------------------------------------------------------------------------
(* The environment                                                         *)

\* The upstream replaces its document, by a new one or by an old one.
Publish ==
    /\ publishes < MaxPublishes
    /\ publishes' = publishes + 1
    /\ \E v \in Versions \ {upstream} : upstream' = v
    /\ UNCHANGED <<threadVars, memVars, file>>

\* A process dies, or gives up starting, and is started again.
Restart(p) ==
    LET Lost(f, v) == [r \in Refreshers |-> IF Home[r] = p THEN v ELSE f[r]]
    IN  /\ p \in Crashing
        /\ pc' = Lost(pc, "idle")
        /\ sent' = Lost(sent, None)
        /\ body' = Lost(body, None)
        /\ tag' = Lost(tag, None)
        /\ tmp' = Lost(tmp, None)
        /\ current' = [current EXCEPT ![p] = None]
        /\ etag' = [etag EXCEPT ![p] = None]
        /\ phase' = [phase EXCEPT ![p] = FirstPhase(p)]
        /\ UNCHANGED <<file, envVars>>

Step(r) ==
    \/ Answer(r) \/ NotModified(r) \/ FetchFails(r) \/ Parse(r)
    \/ CreateTemp(r) \/ Write(r) \/ Rename(r) \/ Swap(r)

Next ==
    \/ \E r \in Refreshers : Refresh(r) \/ Step(r)
    \/ \E p \in Procs : LoadLocal(p) \/ Restart(p)
    \/ Publish

Spec == Init /\ [][Next]_vars

\* What the refresh loop of a running server and its environment owe: ticks keep
\* coming, the goroutine keeps running, and no stage of a refresh fails for
\* ever.  Nothing is owed by other refreshers.
Stage(r, from, to) == pc[r] = from /\ Step(r) /\ pc'[r] = to

FairLoop(r) ==
    /\ WF_vars(LoadLocal(Home[r]))
    /\ WF_vars(Refresh(r))
    /\ WF_vars(Step(r))
    /\ SF_vars(Answer(r) /\ Parses(body'[r]))
    /\ SF_vars(NotModified(r))
    /\ SF_vars(Stage(r, "createTemp", "write"))
    /\ SF_vars(Stage(r, "write", "rename"))
    /\ SF_vars(Stage(r, "rename", "swap"))
-----------------------------------------------------------------------------
(* Properties                                                              *)

\* Every variable has its type (manager.go:41-49).
TypeOK ==
    /\ pc \in [Refreshers -> Labels]
    /\ sent \in [Refreshers -> Versions \cup {None}]
    /\ body \in [Refreshers -> Versions \cup {Torn, None}]
    /\ tag \in [Refreshers -> Versions \cup {None}]
    /\ tmp \in [Refreshers -> Versions \cup {Torn, None}]
    /\ current \in [Procs -> Versions \cup {None}]
    /\ etag \in [Procs -> Versions \cup {None}]
    /\ phase \in [Procs -> {"starting", "priming", "serving"}]
    /\ file \in Versions \cup {Torn, None}
    /\ upstream \in Versions
    /\ publishes \in 0..MaxPublishes

\* A process that got past start-up has a snapshot: no 304 and no failed write
\* lets it serve without one (manager.go:84-118, serve.go:252-302).
ServingHasSnapshot ==
    \A p \in Procs : phase[p] = "serving" => current[p] # None

\* No process, at start-up after any crash, finds a torn cache file
\* (manager.go:172-213).
FileWhole == file # Torn

\* The ETag sent with the next request names the snapshot in memory, so a 304
\* means that this snapshot is the published one, provided the upstream always
\* sends ETags (manager.go:161-167).
EtagNamesSnapshot ==
    TagsAlways => \A p \in Procs : etag[p] # None => etag[p] = current[p]

\* Once the upstream stops changing, a server that is not restarted for ever
\* ends up with the published document for good, whatever older answers are in
\* flight, whatever refreshes overlap and whatever a fetch-gm does to its cache
\* file (manager.go:84-118, serve.go:307-332).
Converges ==
    \A p \in Procs \ Commands :
        []<><<Restart(p)>>_vars \/ <>[](current[p] = upstream)
=============================================================================
