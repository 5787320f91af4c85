------------------------ MODULE GamemasterManagerProofs ------------------------
(***************************************************************************)
(* Theorems of GamemasterManager, for any number of processes, refreshers  *)
(* and upstream versions.                                                  *)
(***************************************************************************)
EXTENDS GamemasterManager, TLAPS

\* Past Parse, the payload is a document.
Parsed == {"createTemp", "write", "rename", "swap"}

\* What a refresher's locals guarantee, and why a 304 cannot reach a process
\* without a snapshot: a tag is sent only by a process that has one.
Local(r) ==
    /\ pc[r] \in Parsed => body[r] \in Versions
    /\ pc[r] = "rename" => tmp[r] = body[r]
    /\ sent[r] # None => current[Home[r]] # None
    /\ pc[r] \in Parsed \cup {"response"} /\ TagsAlways => body[r] \in {tag[r], Torn}

Inv ==
    /\ TypeOK
    /\ FileWhole
    /\ ServingHasSnapshot
    /\ EtagNamesSnapshot
    /\ \A p \in Procs : etag[p] # None => current[p] # None /\ phase[p] # "starting"
    /\ \A r \in Refreshers : Local(r)

LEMMA InitInv == Init => Inv
  BY HomeAssumption, AbsentAssumption, ProcsAssumption, BoundAssumption
  DEF Init, Inv, TypeOK, FileWhole, ServingHasSnapshot, EtagNamesSnapshot, Local,
      Labels, Parsed, FirstPhase

LEMMA ReturnTypes ==
  ASSUME TypeOK, NEW r \in Refreshers, Return(r)
  PROVE  /\ pc' \in [Refreshers -> Labels]
         /\ sent' \in [Refreshers -> Versions \cup {None}]
         /\ body' \in [Refreshers -> Versions \cup {Torn, None}]
         /\ tag' \in [Refreshers -> Versions \cup {None}]
         /\ tmp' \in [Refreshers -> Versions \cup {Torn, None}]
  BY DEF TypeOK, Return, Labels

LEMMA ReturnLocal ==
  ASSUME Inv, NEW r \in Refreshers, Return(r)
  PROVE  /\ pc'[r] = "idle" /\ sent'[r] = None
         /\ \A q \in Refreshers : q # r =>
              /\ pc'[q] = pc[q] /\ sent'[q] = sent[q] /\ body'[q] = body[q]
              /\ tag'[q] = tag[q] /\ tmp'[q] = tmp[q]
  BY DEF Inv, TypeOK, Return

LEMMA FailInv ==
  ASSUME Inv, NEW r \in Refreshers, Fail(r)
  PROVE  Inv'
<1> USE HomeAssumption, AbsentAssumption
<1>1. TypeOK'
  BY ReturnTypes DEF Inv, TypeOK, Fail, memVars, envVars
<1>2. \A q \in Refreshers : Local(q)'
  BY ReturnLocal DEF Inv, Local, Fail, Parsed, memVars
<1> QED
  BY <1>1, <1>2
  DEF Inv, FileWhole, ServingHasSnapshot, EtagNamesSnapshot, Fail, memVars

LEMMA NextInv == Inv /\ [Next]_vars => Inv'
<1> SUFFICES ASSUME Inv, [Next]_vars PROVE Inv'
  OBVIOUS
<1> USE HomeAssumption, AbsentAssumption, ProcsAssumption, BoundAssumption
<1>1. ASSUME NEW p \in Procs, LoadLocal(p) PROVE Inv'
  <2>1. TypeOK'
    BY <1>1 DEF LoadLocal, Inv, TypeOK, Parses, threadVars, envVars
  <2>2. \A q \in Procs : q # p => current'[q] = current[q] /\ phase'[q] = phase[q]
    BY <1>1 DEF LoadLocal, Inv, TypeOK
  <2>3. /\ etag[p] = None /\ UNCHANGED <<threadVars, etag, file>>
        /\ phase'[p] = "serving" => current'[p] # None
        /\ current[p] # None => current'[p] # None
    BY <1>1 DEF LoadLocal, Inv, TypeOK, Parses
  <2>4. \A r \in Refreshers : Local(r)'
    BY <2>2, <2>3 DEF Inv, Local, Parsed, threadVars
  <2> QED
    BY <2>1, <2>2, <2>3, <2>4 DEF Inv, FileWhole, ServingHasSnapshot, EtagNamesSnapshot
<1>2. ASSUME NEW r \in Refreshers, Refresh(r) PROVE Inv'
  <2>1. TypeOK'
    BY <1>2 DEF Refresh, Go, Inv, TypeOK, Labels, memVars, envVars
  <2>2. \A q \in Refreshers : Local(q)'
    BY <1>2 DEF Refresh, Go, Inv, Local, TypeOK, Parsed, memVars
  <2> QED
    BY <1>2, <2>1, <2>2
    DEF Refresh, Inv, FileWhole, ServingHasSnapshot, EtagNamesSnapshot, memVars
<1>3. ASSUME NEW r \in Refreshers, Answer(r) PROVE Inv'
  <2>1. TypeOK'
    BY <1>3 DEF Answer, Inv, TypeOK, Labels, memVars, envVars
  <2>2. \A q \in Refreshers : Local(q)'
    BY <1>3 DEF Answer, Inv, Local, TypeOK, Parsed, memVars
  <2> QED
    BY <1>3, <2>1, <2>2
    DEF Answer, Inv, FileWhole, ServingHasSnapshot, EtagNamesSnapshot, memVars
<1>4. ASSUME NEW r \in Refreshers, NotModified(r) PROVE Inv'
  <2>1. TypeOK'
    BY <1>4, ReturnTypes DEF NotModified, Finish, Inv, TypeOK, envVars
  <2>2. current[Home[r]] # None
    BY <1>4 DEF NotModified, Inv, Local, TypeOK
  <2>3. \A q \in Refreshers : Local(q)'
    BY <1>4, ReturnLocal DEF NotModified, Finish, Inv, Local, Parsed
  <2>4. ServingHasSnapshot'
    BY <1>4, <2>2 DEF NotModified, Finish, Inv, TypeOK, ServingHasSnapshot
  <2>5. \A p \in Procs : etag'[p] # None => current'[p] # None /\ phase'[p] # "starting"
    BY <1>4 DEF NotModified, Finish, Inv, TypeOK
  <2> QED
    BY <1>4, <2>1, <2>3, <2>4, <2>5
    DEF NotModified, Inv, FileWhole, EtagNamesSnapshot
<1>5. ASSUME NEW r \in Refreshers, FetchFails(r) PROVE Inv'
  BY <1>5, FailInv DEF FetchFails
<1>6. ASSUME NEW r \in Refreshers, Parse(r), ~Fail(r) PROVE Inv'
  <2>1. TypeOK'
    BY <1>6 DEF Parse, Inv, TypeOK, Labels, memVars, envVars
  <2>2. \A q \in Refreshers : Local(q)'
    BY <1>6 DEF Parse, Parses, Inv, Local, TypeOK, Parsed, memVars
  <2> QED
    BY <1>6, <2>1, <2>2
    DEF Parse, Inv, FileWhole, ServingHasSnapshot, EtagNamesSnapshot, memVars
<1>7. ASSUME NEW r \in Refreshers, CreateTemp(r) \/ Write(r), ~Fail(r) PROVE Inv'
  <2>1. TypeOK'
    BY <1>7 DEF CreateTemp, Write, Go, Inv, TypeOK, Labels, memVars, envVars
  <2>2. \A q \in Refreshers : Local(q)'
    BY <1>7 DEF CreateTemp, Write, Go, Inv, Local, TypeOK, Parsed, memVars
  <2> QED
    BY <1>7, <2>1, <2>2
    DEF CreateTemp, Write, Inv, FileWhole, ServingHasSnapshot, EtagNamesSnapshot, memVars
<1>8. ASSUME NEW r \in Refreshers, Rename(r), ~Fail(r) PROVE Inv'
  <2>1. file' \in Versions
    BY <1>8 DEF Rename, Go, Inv, Local, Parsed
  <2>2. TypeOK'
    BY <1>8, <2>1 DEF Rename, Go, Inv, TypeOK, Labels, memVars, envVars
  <2>3. \A q \in Refreshers : Local(q)'
    BY <1>8 DEF Rename, Go, Inv, Local, TypeOK, Parsed, memVars
  <2> QED
    BY <1>8, <2>1, <2>2, <2>3
    DEF Rename, Inv, FileWhole, ServingHasSnapshot, EtagNamesSnapshot, memVars
<1>9. ASSUME NEW r \in Refreshers, Swap(r) PROVE Inv'
  <2>1. /\ body[r] \in Versions /\ tag[r] \in Versions \cup {None}
        /\ TagsAlways => tag[r] = body[r]
        /\ Home[r] \in Procs
    BY <1>9 DEF Swap, Inv, Local, TypeOK, Parsed
  <2>2. /\ current' = [current EXCEPT ![Home[r]] = body[r]]
        /\ etag' = [etag EXCEPT ![Home[r]] = IF tag[r] = None THEN @ ELSE tag[r]]
        /\ phase' = [phase EXCEPT ![Home[r]] = "serving"]
        /\ Return(r) /\ UNCHANGED <<file, envVars>>
    BY <1>9 DEF Swap, Finish
  <2>3. TypeOK'
    BY <2>1, <2>2, ReturnTypes DEF Inv, TypeOK, envVars
  <2>4. \A p \in Procs : /\ current'[p] = IF p = Home[r] THEN body[r] ELSE current[p]
                         /\ phase'[p] = IF p = Home[r] THEN "serving" ELSE phase[p]
                         /\ etag'[p] = IF p = Home[r] /\ tag[r] # None
                                       THEN tag[r] ELSE etag[p]
    BY <2>2 DEF Inv, TypeOK
  <2>5. \A q \in Refreshers : Local(q)'
    BY <2>1, <2>2, <2>4, ReturnLocal DEF Inv, Local, Parsed
  <2> QED
    BY <2>1, <2>2, <2>3, <2>4, <2>5
    DEF Inv, FileWhole, ServingHasSnapshot, EtagNamesSnapshot
<1>10. ASSUME NEW p \in Procs, Restart(p) PROVE Inv'
  <2>1. TypeOK'
    BY <1>10 DEF Restart, FirstPhase, Inv, TypeOK, Labels, envVars
  <2>2. \A q \in Refreshers : Local(q)'
    BY <1>10 DEF Restart, Inv, Local, TypeOK, Parsed
  <2> QED
    BY <1>10, <2>1, <2>2
    DEF Restart, FirstPhase, Inv, TypeOK, FileWhole, ServingHasSnapshot, EtagNamesSnapshot
<1>11. CASE Publish
  BY <1>11
  DEF Publish, Inv, TypeOK, FileWhole, ServingHasSnapshot, EtagNamesSnapshot, Local,
      Parsed, threadVars, memVars
<1>12. CASE UNCHANGED vars
  BY <1>12
  DEF Inv, TypeOK, FileWhole, ServingHasSnapshot, EtagNamesSnapshot, Local,
      Parsed, threadVars, memVars, envVars, vars
<1> QED
  BY <1>1, <1>2, <1>3, <1>4, <1>5, <1>6, <1>7, <1>8, <1>9, <1>10, <1>11, <1>12, FailInv
  DEF Next, Step

\* Every variable keeps its type.
THEOREM TypeCorrect == Spec => []TypeOK
<1>1. Inv => TypeOK
  BY DEF Inv
<1> QED
  BY InitInv, NextInv, <1>1, PTL DEF Spec

\* A process past start-up always has a snapshot to serve, whichever of its
\* refreshes fail, overlap or are answered with 304.
THEOREM ServingHasSnapshotHolds == Spec => []ServingHasSnapshot
<1>1. Inv => ServingHasSnapshot
  BY DEF Inv
<1> QED
  BY InitInv, NextInv, <1>1, PTL DEF Spec

\* The cache file is never torn, whichever process dies and when.
THEOREM FileWholeHolds == Spec => []FileWhole
<1>1. Inv => FileWhole
  BY DEF Inv
<1> QED
  BY InitInv, NextInv, <1>1, PTL DEF Spec

\* With an upstream that always sends ETags, the ETag of the next conditional
\* request names the snapshot in memory, however refreshes overlap.
THEOREM EtagNamesSnapshotHolds == Spec => []EtagNamesSnapshot
<1>1. Inv => EtagNamesSnapshot
  BY DEF Inv
<1> QED
  BY InitInv, NextInv, <1>1, PTL DEF Spec
=============================================================================
