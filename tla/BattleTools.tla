----------------------------- MODULE BattleTools -----------------------------
(***************************************************************************)
(* The tools that put fighters against each other: pvp_matchup,            *)
(* pvp_team_analysis, pvp_threat_coverage and pvp_counter_finder           *)
(* (internal/tools, matchup.go, team_analysis.go, threat_coverage.go,      *)
(* counter_finder.go).                                                     *)
(*                                                                         *)
(* A call prepares fighters: it refuses restricted moves, fills in the     *)
(* movesets that were left out, builds the fighters and takes the top of a *)
(* ranking as the meta, in an order of its own.  Then it sweeps over pairs *)
(* and looks at its context between rows.  Fighters of the client are the  *)
(* side "team" (the two of a matchup, the target of a counter search) and  *)
(* the side "pool".                                                        *)
(***************************************************************************)
EXTENDS ToolCall, FiniteSets

CONSTANTS
    Requests,           \* calls: [tool, team, pool, noLegacy, noElite, scenarios, top, limit]
    Rating(_, _, _),    \* ratingFor: attacker, defender, shields; None if it fails
    TeamSize,           \* TeamSize
    Threshold,          \* uncoveredThreshold
    MaxCandidates       \* defaultThreatCoverageCandidates

VARIABLES
    call,     \* the parameters
    pc,       \* "enter", "prepare", "sweep", "threats", "finish" or "stop"
    plan,     \* stages of the preparation still to run
    at,       \* the fighter whose moveset is being filled in, the threat looked at
    doc,      \* the snapshot the call holds
    filler,   \* the snapshot movesets are filled in with
    specs,    \* side -> the client's fighters, filled in so far
    fighters, \* side -> the engine's fighters
    kept,     \* the ranking entries behind the meta
    rows,     \* ratings of the rows swept so far
    threats,  \* threat_coverage: the uncovered list so far
    answer,   \* the result
    outcome   \* "running", "ok", "error" or "restricted"

toolVars == <<call, pc, plan, at, doc, filler, specs, fighters, kept, rows, threats, answer, outcome>>
vars == <<envVars, toolVars>>

Cup == "all"
Tools == {"matchup", "team_analysis", "threat_coverage", "counter_finder"}

\* Whatever a client may say of a fighter, and some ranking of a species.
Sent == UNION {ToSet(request.team) \cup ToSet(request.pool) : request \in Requests}
Published == UNION {ToSet(list) : list \in Lists[Cup]}

\* Lists are lists, a fighter is described by these fields, and a move that was
\* left out is none.
ASSUME BattleAssumption ==
    /\ Cup \in DOMAIN Lists
    /\ \A list \in Lists[Cup] : list \in Seq(ToSet(list))
    /\ \A entry \in Published : entry.moveset \in Seq(ToSet(entry.moveset))
    /\ \A d \in Docs : None \notin DOMAIN d.moves
    /\ \A request \in Requests :
          /\ request.tool \in Tools /\ request.top \in Nat /\ request.limit \in Nat
          /\ request.scenarios \in Seq(ToSet(request.scenarios)) /\ request.scenarios # <<>>
          /\ request.tool = "counter_finder" => Len(request.team) = 1
          /\ request.team \in Seq(ToSet(request.team)) /\ request.pool \in Seq(ToSet(request.pool))
    /\ \A spec \in Sent :
          spec = [species |-> spec.species, shadow |-> spec.shadow, fast |-> spec.fast,
                  charged |-> spec.charged, valid |-> spec.valid]

\* uncoveredThreshold is 400 and defaultThreatCoverageCandidates is 3.
ASSUME BoundsAssumption == Threshold \in Nat \ {0} /\ MaxCandidates \in Nat

\* A ranking has a species once: what is told of the meta is keyed by species.
ASSUME RankingAssumption ==
    \A list \in Lists[Cup] : \A m, n \in DOMAIN list : list[m].species = list[n].species => m = n

\* The engine's fighter for a ranking entry.
MetaFighter(entry) ==
    [species |-> entry.species, resolved |-> entry.species, missing |-> FALSE,
     fast |-> Head(entry.moveset), charged |-> Tail(entry.moveset),
     dark |-> entry.species[2] = shadowSuffix]

\* Whoever can be put into a fight, with moves that were sent or are recommended.
Movesets == {entry.moveset : entry \in Published} \ {<<>>}
Equipped ==
    {spec \in Sent : spec.fast # None}
    \cup {Equip(spec, moveset) : spec \in Sent, moveset \in Movesets}
Fielded ==
    {Built(d, spec) : d \in Docs, spec \in Equipped}
    \cup {MetaFighter(entry) : entry \in {e \in Published : e.moveset \in Movesets}}

\* A simulation that succeeds has a rating, from 0 to 1000.
ASSUME RatingAssumption ==
    /\ None \notin Nat
    /\ \A attacker, defender \in Fielded : \A request \in Requests : \A s \in DOMAIN request.scenarios :
          Rating(attacker, defender, request.scenarios[s]) \in Nat \cup {None}

Init ==
    /\ EnvInit
    /\ call \in Requests
    /\ pc = "enter" /\ outcome = "running"
    /\ plan = <<>> /\ at = 1 /\ doc = None /\ filler = None
    /\ specs = [team |-> call.team, pool |-> call.pool]
    /\ fighters = [team |-> <<>>, pool |-> <<>>, meta |-> <<>>]
    /\ kept = <<>> /\ rows = <<>> /\ threats = <<>> /\ answer = None

----------------------------------------------------------------------------
(* Preparation.                                                            *)

Stage(do, who) == [do |-> do, who |-> who]

Plan(request) ==
    LET gate(who)  == Stage("gate", who)
        fill(who)  == Stage("fill", who)
        build(who) == Stage("build", who)
        meta       == Stage("meta", "meta")
    IN  CASE request.tool = "matchup" ->
                IF \E n \in DOMAIN request.team : request.team[n].fast = None
                THEN <<Stage("reread", "team"), fill("team"), build("team")>>
                ELSE <<fill("team"), build("team")>>
          [] request.tool = "team_analysis" -> <<meta, gate("team"), fill("team"), build("team")>>
          [] request.tool = "threat_coverage" ->
                <<gate("team"), fill("team"), build("team"),
                  gate("pool"), fill("pool"), build("pool"), meta>>
          [] request.tool = "counter_finder" ->
                IF request.pool = <<>> THEN <<fill("team"), build("team"), meta>>
                ELSE <<fill("team"), build("team"), gate("pool"), fill("pool"), build("pool")>>

\* Whose moves the flags of the call are about: the client's own.
Guarded(request, who) ==
    \/ request.tool \in {"team_analysis", "threat_coverage"}
    \/ request.tool = "counter_finder" /\ who # "team"

NoLegacy(who) == call.noLegacy /\ Guarded(call, who)
NoElite(who)  == call.noElite /\ Guarded(call, who)

Give(how) == pc' = "stop" /\ outcome' = how

Quiet == UNCHANGED envVars

\* The cheap checks, and the read of the gamemaster pointer.
Enter ==
    /\ pc = "enter"
    /\ IF \/ ctx = "done"
          \/ call.tool \in {"team_analysis", "threat_coverage"} /\ Len(call.team) # TeamSize
       THEN Give("error") /\ UNCHANGED <<plan, doc, filler>>
       ELSE /\ plan' = Plan(call) /\ doc' = current /\ filler' = current
            /\ pc' = "prepare" /\ UNCHANGED outcome
    /\ Quiet /\ UNCHANGED <<call, at, specs, fighters, kept, rows, threats, answer>>

Due(do) == pc = "prepare" /\ plan # <<>> /\ Head(plan).do = do

\* applyDefaults of a matchup reads the pointer again to fill in movesets.
Reread ==
    /\ Due("reread")
    /\ filler' = current
    /\ plan' = Tail(plan)
    /\ Quiet /\ UNCHANGED <<call, pc, at, doc, specs, fighters, kept, rows, threats, answer, outcome>>

\* rejectTeamRestricted
Gate ==
    /\ Due("gate")
    /\ LET who == Head(plan).who
       IN  IF \E n \in DOMAIN specs[who] :
                 SentConflict(doc, specs[who][n], NoLegacy(who), NoElite(who))
           THEN Give("restricted") /\ UNCHANGED plan
           ELSE plan' = Tail(plan) /\ UNCHANGED <<pc, outcome>>
    /\ Quiet /\ UNCHANGED <<call, at, doc, filler, specs, fighters, kept, rows, threats, answer>>

\* applyMovesetDefaults for one fighter.
Fill ==
    /\ Due("fill")
    /\ LET who == Head(plan).who
       IN
       \/ /\ at > Len(specs[who])
          /\ plan' = Tail(plan) /\ at' = 1
          /\ Quiet /\ UNCHANGED <<pc, specs, outcome>>
       \/ /\ at <= Len(specs[who]) /\ specs[who][at].fast # None
          /\ at' = at + 1
          /\ Quiet /\ UNCHANGED <<pc, plan, specs, outcome>>
       \/ /\ at <= Len(specs[who]) /\ specs[who][at].fast = None
          /\ \E reply \in {Failed, Unknown} \cup {Known(l) : l \in Lists[Cup]} :
                /\ Ask(Cup, reply)
                /\ LET spec == specs[who][at]
                       list == reply.entries
                   IN  IF ~Recommends(list, MovesetId(filler, spec))
                       THEN Give("error") /\ UNCHANGED <<at, specs>>
                       ELSE IF FilledConflict(filler, list, spec, NoLegacy(who), NoElite(who))
                       THEN Give("restricted") /\ UNCHANGED <<at, specs>>
                       ELSE /\ specs' = [specs EXCEPT ![who][at] = Defaulted(filler, list, @)]
                            /\ at' = at + 1 /\ UNCHANGED <<pc, outcome>>
          /\ UNCHANGED plan
    /\ UNCHANGED <<call, doc, filler, fighters, kept, rows, threats, answer>>

\* buildTeamCombatants: one fighter that cannot be built fails the call.
Build ==
    /\ Due("build")
    /\ LET who == Head(plan).who
       IN  IF \A n \in DOMAIN specs[who] : Buildable(doc, specs[who][n])
           THEN /\ fighters' = [fighters EXCEPT ![who] =
                      [n \in DOMAIN specs[who] |-> Built(doc, specs[who][n])]]
                /\ plan' = Tail(plan) /\ UNCHANGED <<pc, outcome>>
           ELSE Give("error") /\ UNCHANGED <<plan, fighters>>
    /\ Quiet /\ UNCHANGED <<call, at, doc, filler, specs, kept, rows, threats, answer>>

\* filterRestrictedMetaEntries, for the candidates of a counter search.
Allowed(list) ==
    IF call.tool # "counter_finder" THEN list
    ELSE Without(list, {e \in ToSet(list) :
            ToSet(e.moveset) \cap Restricted(doc, e.species, NoLegacy("meta"), NoElite("meta")) # {}})

\* resolveMeta, resolveMetaCandidates: the candidates are on the client's side.
Meta ==
    /\ Due("meta")
    /\ \E reply \in {Failed, Unknown} \cup {Known(l) : l \in Lists[Cup]} :
          LET usable == Kept(doc, Allowed(TopOf(reply.entries, call.top)))
          IN  /\ Ask(Cup, reply)
              /\ IF reply \in {Failed, Unknown}
                 THEN Give("error") /\ UNCHANGED <<plan, kept, fighters>>
                 ELSE /\ kept' = usable
                      /\ fighters' = [fighters EXCEPT !.meta =
                            [n \in DOMAIN usable |-> MetaFighter(usable[n])]]
                      /\ plan' = Tail(plan) /\ UNCHANGED <<pc, outcome>>
    /\ UNCHANGED <<call, at, doc, filler, specs, rows, threats, answer>>

Prepared ==
    /\ pc = "prepare" /\ plan = <<>>
    /\ pc' = "sweep"
    /\ Quiet /\ UNCHANGED <<call, plan, at, doc, filler, specs, fighters, kept, rows, threats, answer, outcome>>

----------------------------------------------------------------------------
(* The sweeps.  A row is what is rated between two looks at the context.   *)

\* One rating per shield scenario.
Cells(attacker, defender) ==
    [s \in DOMAIN call.scenarios |-> Rating(attacker, defender, call.scenarios[s])]

Rated(cells) == {s \in DOMAIN cells : cells[s] # None}

\* averageMatrixRow, averageRatingAcrossScenarios
Mean(cells) ==
    IF Rated(cells) = {} THEN None
    ELSE MapThenSumSet(LAMBDA s : cells[s], Rated(cells)) \div Cardinality(Rated(cells))

\* Whoever is swept over, and against whom.
Rows == IF call.tool = "counter_finder" /\ call.pool # <<>> THEN fighters.pool
        ELSE IF call.tool = "counter_finder" THEN fighters.meta ELSE fighters.team

Opponents == IF call.tool = "counter_finder" THEN fighters.team ELSE fighters.meta

\* simulateTeamMatrix, computeTeamCoverage, scoreCandidates: a context that has
\* ended stops the sweep; only the second says so at once.
Sweep ==
    /\ pc = "sweep" /\ call.tool # "matchup"
    /\ \/ /\ ctx = "live" /\ Len(rows) < Len(Rows)
          /\ rows' = Append(rows, [j \in DOMAIN Opponents |->
                                      Cells(Rows[Len(rows) + 1], Opponents[j])])
          /\ UNCHANGED <<pc, outcome>>
       \/ /\ ctx = "done" /\ Len(rows) < Len(Rows)
          /\ IF call.tool = "threat_coverage" THEN Give("error") ELSE pc' = "finish" /\ UNCHANGED outcome
          /\ UNCHANGED rows
       \/ /\ Len(rows) = Len(Rows)
          /\ pc' = IF call.tool = "threat_coverage" THEN "threats" ELSE "finish"
          /\ UNCHANGED <<rows, outcome>>
    /\ Quiet /\ UNCHANGED <<call, plan, at, doc, filler, specs, fighters, kept, threats, answer>>

\* The cell of a row that was not swept is a failure.
Swept(i, j, s) == IF i <= Len(rows) THEN rows[i][j][s] ELSE None

OverallTable ==
    [i \in DOMAIN Rows |-> [j \in DOMAIN Opponents |->
        Mean([s \in DOMAIN call.scenarios |-> Swept(i, j, s)])]]

ScenarioTable(s) ==
    [i \in DOMAIN Rows |-> [j \in DOMAIN Opponents |-> Swept(i, j, s)]]

\* aggregateOneMember: the best rating of the team, zero if there is none.
BestOf(table, j) == Max({0} \cup {table[i][j] : i \in {n \in DOMAIN table : table[n][j] # None}})

\* aggregateFromRatings
Aggregate(table) ==
    [failures  |-> Cardinality({p \in (DOMAIN table) \X (DOMAIN kept) : table[p[1]][p[2]] = None}),
     coverage  |-> [j \in DOMAIN kept |-> BestOf(table, j)],
     uncovered |-> {kept[j].species : j \in {n \in DOMAIN kept : BestOf(table, n) < Threshold}}]

\* A stable sort by rating, best first, of a sequence of [who, rating].
ByRating(list) ==
    LET before == {p \in (DOMAIN list) \X (DOMAIN list) :
                      \/ list[p[1]].rating > list[p[2]].rating
                      \/ list[p[1]].rating = list[p[2]].rating /\ p[1] < p[2]}
    IN  [n \in DOMAIN list |-> list[OrderedBy(DOMAIN list, before)[n]]]

\* The rated ones of a number of fighters, each with its rating.
Graded(marks, fails) ==
    LET good == Without([n \in DOMAIN marks |-> n], fails)
    IN  [n \in DOMAIN good |-> [who |-> good[n], rating |-> marks[good[n]]]]

\* The pool members that cover a threat (scorePoolAgainstThreat).
Covering(threat) ==
    LET marks == [n \in DOMAIN fighters.pool |-> Mean(Cells(fighters.pool[n], threat))]
    IN  Graded(marks, {n \in DOMAIN marks : ~(marks[n] # None /\ marks[n] >= Threshold)})

TopCandidates(threat) == TopOf(ByRating(Covering(threat)), MaxCandidates)

\* buildUncoveredEntries, one meta entry at a time.
Threats ==
    /\ pc = "threats"
    /\ \/ /\ ctx = "done" \/ at > Len(kept)
          /\ pc' = "finish" /\ UNCHANGED <<at, threats>>
       \/ /\ ctx = "live" /\ at <= Len(kept)
          /\ at' = at + 1
          /\ threats' = IF BestOf(OverallTable, at) < Threshold
                        THEN Append(threats, [threat |-> kept[at].species, best |-> BestOf(OverallTable, at),
                                              candidates |-> TopCandidates(fighters.meta[at])])
                        ELSE threats
          /\ UNCHANGED pc
    /\ Quiet /\ UNCHANGED <<call, plan, doc, filler, specs, fighters, kept, rows, answer, outcome>>

Marks == [n \in DOMAIN rows |-> Mean(rows[n][1])]
Unrated == {n \in DOMAIN Marks : Marks[n] = None}

\* Faulty variant: whoever was not rated is a failure, those the sweep did not come to
\* included.
CountersUntried ==
    [list |-> TopOf(ByRating(Graded(Marks, Unrated)), call.limit),
     failures |-> Len(Rows) - Len(Graded(Marks, Unrated))]

\* Counters, best first; a candidate no scenario could rate is a failure.
Counters ==
    [list |-> TopOf(ByRating(Graded(Marks, Unrated)), call.limit), failures |-> Cardinality(Unrated)]

Result ==
    CASE call.tool = "matchup" -> Rating(fighters.team[1], fighters.team[2], call.scenarios[1])
      [] call.tool = "team_analysis" ->
            [overall |-> Aggregate(OverallTable),
             perScenario |-> [s \in DOMAIN call.scenarios |-> Aggregate(ScenarioTable(s))]]
      [] call.tool = "threat_coverage" ->
            [coverage |-> [j \in DOMAIN kept |-> BestOf(OverallTable, j)],
             uncovered |-> threats]
      [] call.tool = "counter_finder" -> Counters

\* A matchup is one simulation and nothing after it.
Simulate ==
    /\ pc = "sweep" /\ call.tool = "matchup"
    /\ IF Result = None THEN Give("error") /\ UNCHANGED answer
       ELSE Give("ok") /\ answer' = Result
    /\ Quiet /\ UNCHANGED <<call, plan, at, doc, filler, specs, fighters, kept, rows, threats>>

\* Faulty variant: no tool looks at the context once the sweep is over.
FinishAnyway ==
    /\ pc = "finish"
    /\ Give("ok") /\ answer' = Result
    /\ Quiet /\ UNCHANGED <<call, plan, at, doc, filler, specs, fighters, kept, rows, threats>>

\* The end of a handler: two of the three sweeping tools look at the context
\* once more, counter_finder does not.
Finish ==
    /\ pc = "finish"
    /\ IF ctx = "done" /\ call.tool # "counter_finder"
       THEN Give("error") /\ UNCHANGED answer
       ELSE Give("ok") /\ answer' = Result
    /\ Quiet /\ UNCHANGED <<call, plan, at, doc, filler, specs, fighters, kept, rows, threats>>

Around == (Refresh \/ Cancel) /\ pc # "stop" /\ UNCHANGED toolVars

Next ==
    \/ Enter \/ Reread \/ Gate \/ Fill \/ Build \/ Meta \/ Prepared
    \/ Sweep \/ Threats \/ Simulate \/ Finish \/ Around

Spec == Init /\ [][Next]_vars

----------------------------------------------------------------------------
(* Properties                                                              *)

\* A moveset that was left out is the one the rankings recommend for the form
\* that fights: the shadow form if the fighter is flagged as one and the document
\* has it, however its id was spelt.  Only a matchup reads the document twice.
FormsMatch ==
    outcome = "ok" /\ (call.tool = "matchup" => refreshed = "no") =>
       \A who \in {"team", "pool"} : \A n \in DOMAIN fighters[who] :
          call[who][n].fast = None =>
             LET fighter == fighters[who][n]
                 list    == memo[Cup].entries
             IN  /\ Recommends(list, fighter.resolved)
                 /\ Recommended(list, fighter.resolved) = <<fighter.fast>> \o fighter.charged
                 /\ call[who][n].shadow /\ <<fighter.resolved[1], shadowSuffix>> \in DOMAIN doc.pokemon
                       => fighter.resolved[2] = shadowSuffix /\ ~fighter.missing

\* No fighter the flags are about has a restricted move of the form it fights
\* as, whether the client sent it, the rankings recommended it or the candidates
\* came from the meta.
FlagsHonoured ==
    outcome = "ok" =>
       \A who \in {"team", "pool"} \cup (IF call.tool = "counter_finder" THEN {"meta"} ELSE {}) :
          \A n \in DOMAIN fighters[who] :
             LET fighter == fighters[who][n]
             IN  ({fighter.fast} \cup ToSet(fighter.charged))
                    \cap Restricted(doc, fighter.resolved, NoLegacy(who), NoElite(who)) = {}

\* A call is refused over the flags only for a fighter of the client's own: the
\* target of a counter search may have every move it likes.
OwnMovesRefused ==
    outcome = "restricted" =>
       \E who \in {"team", "pool"} :
          /\ call.tool = "counter_finder" => who = "pool"
          /\ \E n \in DOMAIN call[who] :
                LET form == MovesetId(doc, call[who][n])
                    banned == Restricted(doc, form, call.noLegacy, call.noElite)
                IN  \/ MovesOf(call[who][n]) \cap banned # {}
                    \/ /\ call[who][n].fast = None /\ Recommends(memo[Cup].entries, form)
                       /\ ToSet(Recommended(memo[Cup].entries, form)) \cap banned # {}

\* The flags keep restricted moves out of every fight they are about, and
\* refuse nothing else.
RestrictionsKept == FlagsHonoured /\ OwnMovesRefused

\* What each pair is worth, from the fighters and the ranking alone.
Worth(fighter, entry) == Mean(Cells(fighter, MetaFighter(entry)))

Reach(entry) ==
    Max({0} \cup {Worth(f, entry) : f \in {g \in ToSet(fighters.team) : Worth(g, entry) # None}})

\* An answer about a team is about every member and every entry of the meta that
\* the document knows: no row that a cancelled call left out counts as a row of
\* failures, and both tools tell the same coverage for the same team.
CoverageComplete ==
    outcome = "ok" /\ call.tool \in {"team_analysis", "threat_coverage"} =>
       LET entries == Kept(doc, TopOf(memo[Cup].entries, call.top))
       IN  IF call.tool = "team_analysis"
           THEN /\ answer.overall.coverage = [j \in DOMAIN entries |-> Reach(entries[j])]
                /\ answer.overall.uncovered = {e.species : e \in {x \in ToSet(entries) : Reach(x) < Threshold}}
                /\ answer.overall.failures =
                      Cardinality({p \in (DOMAIN fighters.team) \X (DOMAIN entries) :
                                      Worth(fighters.team[p[1]], entries[p[2]]) = None})
           ELSE /\ answer.coverage = [j \in DOMAIN entries |-> Reach(entries[j])]
                /\ {t.threat : t \in ToSet(answer.uncovered)} =
                      {e.species : e \in {x \in ToSet(entries) : Reach(x) < Threshold}}

\* The averaged view does not contradict the views per scenario: what it calls
\* covered is covered in some scenario, and it has no failure they do not all have.
OverallWithinScenarios ==
    outcome = "ok" /\ call.tool = "team_analysis" =>
       /\ \A j \in DOMAIN kept :
             kept[j].species \in answer.overall.uncovered
             \/ \E s \in DOMAIN call.scenarios : kept[j].species \notin answer.perScenario[s].uncovered
       /\ \A s \in DOMAIN call.scenarios : answer.overall.failures <= answer.perScenario[s].failures

\* The candidates listed against a threat cover it, and no member of the pool
\* that was left out covers it better than one that is listed.
CandidatesBest ==
    outcome = "ok" /\ call.tool = "threat_coverage" =>
       \A t \in ToSet(answer.uncovered) :
          LET entry   == CHOOSE e \in ToSet(kept) : e.species = t.threat
              mark(n) == Worth(fighters.pool[n], entry)
              covers  == {n \in DOMAIN fighters.pool : mark(n) # None /\ mark(n) >= Threshold}
              listed  == {c.who : c \in ToSet(t.candidates)}
          IN  /\ listed \subseteq covers
              /\ Cardinality(listed) = Len(t.candidates)
              /\ Len(t.candidates) = Min({Cardinality(covers), MaxCandidates})
              /\ \A n \in covers \ listed, m \in listed : mark(n) <= mark(m)

\* What is said of a team's coverage: complete, the same in every view of it, and
\* with the best candidates the pool has for the gaps.
CoverageSound == CoverageComplete /\ OverallWithinScenarios /\ CandidatesBest

\* A counter search says "ok" even if its context ended in the sweep, and does not say
\* where it stopped.  Only then may it have left candidates untried, and what it says is
\* true of those it came to: it lists the best of them, best first, and counts as failed
\* those that could not be rated, not those it never tried.
CountersComplete ==
    outcome = "ok" /\ call.tool = "counter_finder" =>
       LET target  == fighters.team[1]
           mark(n) == Mean(Cells(Rows[n], target))
           tried   == DOMAIN rows
           rated   == {n \in tried : mark(n) # None}
           listed  == {c.who : c \in ToSet(answer.list)}
       IN  /\ ctx = "live" => tried = DOMAIN Rows
           /\ answer.failures = Cardinality(tried) - Cardinality(rated)
           /\ listed \subseteq rated /\ Cardinality(listed) = Min({Cardinality(rated), call.limit})
           /\ \A n \in rated \ listed, m \in listed : mark(n) <= mark(m)
           /\ \A a, b \in DOMAIN answer.list : a < b => answer.list[a].rating >= answer.list[b].rating
=============================================================================
