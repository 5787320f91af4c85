------------------------------ MODULE Calculations ------------------------------
(***************************************************************************)
(* The tools that compute an answer from one look at the gamemaster, and   *)
(* the diff-gm command: internal/tools, powerup_cost.go,                   *)
(* second_move_cost.go, team_builder_costs.go, level_from_cp.go,           *)
(* cplimits.go, encounter_cp_range.go, rank.go, evolution_preview.go,      *)
(* evolution_target.go and meta.go.                                        *)
(*                                                                         *)
(* Each of them reads the pointer once, so a refresh during the call       *)
(* changes nothing and is left out.  The context may end before any step;  *)
(* the search for a ceiling asks for it before every attack value, and     *)
(* pvp_meta through the four rankings it fetches.                          *)
(***************************************************************************)
EXTENDS ToolCall, Evolution, MemberCost, MetaRoles, GamemasterDiff

CONSTANTS
    Scenarios,                  \* a sequence of [docs, calls]: a call and a document it finds
    defaultMetaTopN,            \* 30
    defaultTargetPercentOfBest  \* 95

VARIABLES
    call,   \* the parameters
    work,   \* what a handler of several steps has so far
    answer  \* None while it runs

calcVars == <<call, work, answer>>
vars == <<envVars, calcVars>>

Error(why) == [status |-> "error", why |-> why]
Result(r) == [status |-> "ok", result |-> r]
OrError(r) == IF r = None THEN Error("invalid") ELSE Result(r)

Init ==
    /\ \E n \in DOMAIN Scenarios : current \in Scenarios[n].docs /\ call \in Scenarios[n].calls
    /\ ctx = "live" /\ refreshed = "no"
    /\ memo = [cup \in DOMAIN Lists |-> Unset]
    /\ work = None /\ answer = None

Running(kind) == call.kind = kind /\ answer = None

Reply(a) == answer' = a /\ UNCHANGED <<envVars, call, work>>

\* The species a call names, as the document has it.
Species == current.pokemon[Lookup(current, call.species, call.shadow).id]

\* The checks the handlers share: the context, the species, and its IVs.
Entry(handler) ==
    CASE ctx = "done" -> Error("cancelled")
      [] ctx = "live" /\ ~Lookup(current, call.species, call.shadow).ok -> Error("unknown species")
      [] ctx = "live" /\ Lookup(current, call.species, call.shadow).ok -> handler

----------------------------------------------------------------------------
(* Handlers of one step.                                                   *)

\* PowerupCostTool.handle does not look at the context.
Powerup ==
    /\ Running("powerup")
    /\ Reply(OrError(PowerupCost(call.from, call.to, call.options)))

SecondMove ==
    /\ Running("second_move")
    /\ Reply(Entry(Result(SecondMoveCost(Species, call.options))))

\* attachTeamAnalysisCosts and computePoolBreakdowns, for one member that has
\* passed validateMemberForLeague.
Member ==
    /\ Running("member")
    /\ Reply(IF ~TargetLevelOK(call.explicit) THEN Error("target level")
             ELSE Entry(IF CP(Species.stats, call.iv, MinLevel) > LeagueCP[call.league]
                        THEN Error("level 1 exceeds cap")
                        ELSE Result(MemberCost(Species, call.level, LeagueCP[call.league],
                                               call.explicit, call.options))))

LevelOfCP ==
    /\ Running("level_from_cp")
    /\ Reply(Entry(IF call.iv \notin IVs THEN Error("iv")
                   ELSE OrError(LevelFromCP(Species.stats, call.iv, call.cp, call.xl))))

CPLimits ==
    /\ Running("cp_limits")
    /\ Reply(Entry(IF call.iv \notin IVs THEN Error("iv")
                   ELSE Result([league \in CPLimitLeagues |->
                            LeagueLimit(Species.stats, call.iv, LeagueCP[league], call.xl)])))

\* EncounterCPRangeTool.handle: an empty query is about every encounter, and
\* the species is looked up by its id alone.
Encounters ==
    /\ Running("encounters")
    /\ LET asked == IF call.query = None THEN DOMAIN EncounterRules
                    ELSE {call.query} \cap DOMAIN EncounterRules
       IN  Reply(IF ctx = "done" THEN Error("cancelled")
                 ELSE IF call.species \notin DOMAIN current.pokemon THEN Error("unknown species")
                 ELSE IF asked = {} THEN Error("unknown encounter")
                 ELSE Result([t \in asked |->
                          EncounterRange(current.pokemon[call.species].stats, EncounterRules[t])]))

\* RankTool.handle as far as buildRankResult; it looks at the context itself.
Rank ==
    /\ Running("rank")
    /\ Reply(Entry(LET cpCap == ResolveCPCap(call.league, call.override)
                   IN  IF cpCap = None THEN Error("league")
                       ELSE IF call.iv \notin IVs THEN Error("iv")
                       ELSE OrError(RankResult(Species.stats, call.iv, cpCap, call.xl))))

\* EvolutionPreviewTool.handle
Preview ==
    /\ Running("preview")
    /\ Reply(Entry(
           LET base  == Lookup(current, call.species, call.shadow).id
               level == LevelForCP(Species.stats, call.iv, call.cp, call.xl)
           IN  IF call.iv \notin IVs THEN Error("iv")
               ELSE IF level = None THEN Error("unreachable")
               ELSE Result([level |-> level, cp |-> CP(Species.stats, call.iv, level),
                            stages |-> Stages(current, base, call.iv, level)])))

\* diff-gm
DiffGM ==
    /\ Running("diff")
    /\ Reply(Result(RunDiffGM(call.local, call.remote)))

----------------------------------------------------------------------------
(* EvolutionTargetTool.handle: a sweep of IVs, one attack value a step.    *)

TargetInputs ==
    LET chain == Chain(current, Lookup(current, call.species, call.shadow).id)
        cpCap == LeagueCP[call.league]
    IN  [chain |-> chain, target |-> Species.stats, root |-> current.pokemon[Head(chain)].stats,
         cpCap |-> cpCap, xl |-> call.xl,
         threshold |-> IF call.threshold = 0 THEN defaultTargetPercentOfBest ELSE call.threshold,
         best |-> BestProduct(Species.stats, cpCap, call.xl)]

\* preHandleValidation, and the best spread.
TargetBegin ==
    /\ Running("target") /\ work = None
    /\ LET refused ==
               Entry(IF call.threshold \notin 0 .. 100 THEN Error("threshold")
                     ELSE IF Species.pre = None THEN Error("not in a chain")
                     ELSE IF call.league \notin DOMAIN LeagueCP THEN Error("league")
                     ELSE IF TargetInputs.best = None THEN Error("best spread") ELSE None)
       IN  IF refused # None THEN Reply(refused)
           ELSE /\ work' = [inputs |-> TargetInputs, atk |-> 0, candidate |-> NoCandidate]
                /\ UNCHANGED <<envVars, call, answer>>

\* Faulty variant: a context that ends after the first find stops the sweep and
\* keeps what it has.
TargetRowBreaks ==
    /\ Running("target") /\ work # None
    /\ work.atk <= MaxIV
    /\ work' = IF ctx = "done" /\ work.candidate # NoCandidate THEN [work EXCEPT !.atk = MaxIV + 1]
               ELSE [work EXCEPT !.atk = @ + 1,
                                 !.candidate = EvaluateRow(work.inputs, @, work.atk)]
    /\ UNCHANGED <<envVars, call, answer>>

\* One turn of the outer loop of searchEvolutionTargetCeiling.
TargetRow ==
    /\ Running("target") /\ work # None
    /\ work.atk <= MaxIV
    /\ IF ctx = "done" THEN Reply(Error("cancelled mid-sweep"))
       ELSE /\ work' = [work EXCEPT !.atk = @ + 1,
                                    !.candidate = EvaluateRow(work.inputs, @, work.atk)]
            /\ UNCHANGED <<envVars, call, answer>>

TargetEnd ==
    /\ Running("target") /\ work # None
    /\ work.atk > MaxIV
    /\ Reply(IF work.candidate.cp = 0 THEN Error("threshold unreachable")
             ELSE Result([chain |-> work.inputs.chain, ceiling |-> work.candidate]))

----------------------------------------------------------------------------
(* MetaTool.handle: the overall ranking, then one of every role.           *)

Roles == <<"leads", "switches", "closers">>

MetaTopN == IF call.topN = 0 THEN defaultMetaTopN ELSE call.topN

\* The overall ranking; buildMetaEntries reads the pointer next, and the moves
\* a species of the document restricts are marked.
MetaBegin ==
    /\ Running("meta") /\ work = None
    /\ IF ctx = "done" \/ call.topN < 0 \/ call.league \notin DOMAIN LeagueCP
       THEN Reply(Error("refused"))
       ELSE \E got \in {Failed, Unknown} \cup {Known(l) : l \in Lists["overall"]} :
              /\ Ask("overall", got)
              /\ UNCHANGED call
              /\ IF got.status # "ok" THEN answer' = Error("rankings") /\ UNCHANGED work
                 ELSE /\ work' = [entries |-> TopOf(got.entries, MetaTopN), indexes |-> <<>>]
                      /\ UNCHANGED answer

\* indexRole; a failed fetch is an empty index.
MetaRole ==
    /\ Running("meta") /\ work # None
    /\ Len(work.indexes) < Len(Roles)
    /\ LET role == Roles[Len(work.indexes) + 1]
       IN  \E got \in {Failed, Unknown} \cup {Known(l) : l \in Lists[role]} :
             /\ Ask(role, got)
             /\ work' = [work EXCEPT !.indexes =
                            Append(@, Index(IF got.status = "ok" THEN got.entries ELSE <<>>))]
    /\ UNCHANGED <<call, answer>>

\* The rest of assignRoles.
MetaEnd ==
    /\ Running("meta") /\ work # None
    /\ Len(work.indexes) = Len(Roles)
    /\ Reply(Result([n \in DOMAIN work.entries |->
           LET entry == work.entries[n]
           IN  [rank |-> n, species |-> entry.species,
                restricted |-> ToSet(entry.moveset)
                                  \cap Restricted(current, entry.species, TRUE, TRUE),
                role |-> ClassifyRole(entry.species, work.indexes)]]))

----------------------------------------------------------------------------

EndOfContext == answer = None /\ Cancel /\ UNCHANGED calcVars

Next ==
    \/ Powerup \/ SecondMove \/ Member \/ LevelOfCP \/ CPLimits \/ Encounters
    \/ Rank \/ Preview \/ DiffGM
    \/ TargetBegin \/ TargetRow \/ TargetEnd
    \/ MetaBegin \/ MetaRole \/ MetaEnd
    \/ EndOfContext

Spec == Init /\ [][Next]_vars

----------------------------------------------------------------------------
(* Properties.                                                             *)

Answered(kind) == call.kind = kind /\ answer # None /\ answer.status = "ok"

\* The price of the half-level that starts at a doubled level: every two whole
\* levels are one tier.
Tiers == <<200, 400, 600, 800, 1000, 1300, 1600, 1900, 2200, 2500, 3000, 3500, 4000, 4500,
           5000, 6000, 7000, 8000, 9000, 10000, 11000, 12000, 13000, 14000, 15000>>
StepPrice(doubled) == Tiers[((doubled \div 2) + 1) \div 2]

OnGrid(quarters) == quarters % 2 = 0 /\ 4 <= quarters /\ quarters <= 200

Discount(options) ==
    (IF "shadow" \in options THEN 12 ELSE 10) * (IF "purified" \in options THEN 9 ELSE 10)
    * (IF "lucky" \in options THEN 5 ELSE 10)

ClimbSteps(from, to) == (from \div 2) .. (to \div 2) - 1

\* Two tables, an offset of two, half-levels and three stacked discounts give
\* the price of the tiers the climb passes, exactly, and refuse only what is off
\* the grid or empty; the steps that start at level 40 or above are the XL ones.
CostsExact ==
    call.kind = "powerup" /\ answer # None =>
        IF OnGrid(call.from) /\ OnGrid(call.to) /\ call.from < call.to
        THEN LET steps == ClimbSteps(call.from, call.to)
                 price == FoldFunction(+, 0, [d \in steps |-> StepPrice(d)])
             IN  /\ answer.status = "ok"
                 /\ answer.result.steps = Cardinality(steps)
                 /\ answer.result.stardust * 1000 = price * Discount(call.options)
                 /\ answer.result.xl = Cardinality({d \in steps : d >= 80})
        ELSE answer.status = "error"

\* The breakdown of a team and the cost tools are two pieces of code: a member
\* is priced as they price it, or a flag says why its climb is not, and the level
\* it is meant to reach by default is one the table covers and a 15/15/15 may have
\* under the cap, if there is one.
MembersPricedAlike ==
    Answered("member") =>
        LET cost   == answer.result
            single == PowerupCost(call.level, cost.target, call.options)
        IN  /\ IF cost.climb.flag # None
               THEN cost.climb.stardust = 0 /\ (single = None \/ call.level >= cost.target)
               ELSE single # None /\ single.stardust = cost.climb.stardust /\ single.xl = cost.climb.xl
            /\ cost.second = SecondMoveCost(Species, call.options)
            /\ call.explicit = 0 /\ cost.target > 0 =>
                  /\ OnGrid(cost.target)
                  /\ \/ LeagueCP[call.league] >= masterLeagueCap
                     \/ CP(Species.stats, HundoIV, cost.target \div 2) <= LeagueCP[call.league]

\* Code that prices a climb, in the cost tools and beside them, agrees with the
\* tiers of the game.
PricesAgree == CostsExact /\ MembersPricedAlike

\* A CP is called out of reach exactly when no level under the ceiling attains
\* it, and the level that is given is the last that does not exceed it.
ReachableWhenAttained ==
    Answered("level_from_cp") =>
        LET r == answer.result
        IN  /\ r.reachable <=> \E l \in Grid(call.xl) : CP(Species.stats, call.iv, l) >= call.cp
            /\ r.cp <= call.cp
            /\ \A l \in Grid(call.xl) : l > r.level => CP(Species.stats, call.iv, l) > call.cp

\* Whatever may be caught in an encounter has a CP in the range given for it, and
\* pvp_level_from_cp explains that CP: it is met exactly, without XL candy, at the
\* level of the catch or a later one that looks the same.
CatchesExplained ==
    Answered("encounters") =>
        \A t \in DOMAIN answer.result :
            LET rule == EncounterRules[t]
                stats == current.pokemon[call.species].stats
                Floored == {iv \in IVs : \A n \in 1 .. 3 : iv[n] >= IVFloor[rule.floor]}
            IN  \A iv \in Floored, l \in rule.from .. rule.to :
                    LET cp == CP(stats, iv, l)
                        found == LevelFromCP(stats, iv, cp, FALSE)
                    IN  /\ cp \in answer.result[t].min .. answer.result[t].max
                        /\ found.exact /\ found.reachable /\ found.level >= l

\* Walking down the grid, which pvp_rank and pvp_cp_limits do on their own, finds
\* what the engine's inverse finds; a larger cap never means a lower level.
SearchesAgree ==
    /\ Answered("cp_limits") =>
           \A a, b \in DOMAIN answer.result :
               LET found == LevelForCP(Species.stats, call.iv, LeagueCP[a], call.xl)
               IN  /\ answer.result[a].fits <=> found # None
                   /\ found # None => answer.result[a].level = found
                   /\ LeagueCP[a] <= LeagueCP[b] => answer.result[a].level <= answer.result[b].level
    /\ Answered("rank") =>
           answer.result.level = LevelForCP(Species.stats, call.iv,
                                            ResolveCPCap(call.league, call.override), call.xl)

\* No spread is rated above the best one, which comes from a search of the
\* engine and not from the walk; the hundo comparison is of the same search, and
\* is only dropped where there is no cap.
RankWithinBest ==
    Answered("rank") =>
        LET r == answer.result
            cpCap == ResolveCPCap(call.league, call.override)
        IN  /\ r.product <= r.best
            /\ \E iv \in IVs :
                   LET level == FindSpread(Species.stats, iv, cpCap, call.xl)
                   IN  level # None /\ Product(Species.stats, iv, level) = r.best
            /\ cpCap < masterLeagueCap /\ call.iv = HundoIV =>
                   r.hundo = [level |-> r.level, product |-> r.product]
            /\ cpCap >= masterLeagueCap => r.hundo = None

\* Every search of the grid, in four tools and in the engine, finds the level that
\* the others find.
LevelsFound == ReachableWhenAttained /\ CatchesExplained /\ SearchesAgree /\ RankWithinBest

\* The species within a number of hops, over species the document has.
Within(doc, base) ==
    LET reach[n \in 0 .. maxEvolutionDepth] ==
            IF n = 0 THEN {base}
            ELSE reach[n - 1] \cup {id \in DOMAIN doc.pokemon :
                     \E from \in reach[n - 1] : id \in ToSet(doc.pokemon[from].evolutions)}
    IN  reach

\* Over diamonds, cycles, repeated and unknown ids the preview shows every later
\* form within the depth once and along a shortest path, at the level of the catch.
PreviewComplete ==
    Answered("preview") =>
        LET base   == Lookup(current, call.species, call.shadow).id
            reach  == Within(current, base)
            stages == answer.result.stages
        IN  /\ {stages[n].species : n \in DOMAIN stages} = reach[maxEvolutionDepth] \ {base}
            /\ \A m, n \in DOMAIN stages :
                   /\ m # n => stages[m].species # stages[n].species
                   /\ m < n => Len(stages[m].path) <= Len(stages[n].path)
            /\ \A n \in DOMAIN stages :
                   LET path == <<base>> \o stages[n].path
                   IN  /\ Last(path) = stages[n].species
                       /\ Last(path) \notin reach[Len(path) - 2]
                       /\ \A i \in 1 .. Len(path) - 1 :
                              path[i + 1] \in ToSet(current.pokemon[path[i]].evolutions)
                       /\ stages[n].cp =
                              CP(current.pokemon[Last(path)].stats, call.iv, answer.result.level)

\* What is shown leads from an ancestor to the wanted form, one evolution at a
\* time, and stops at a form that has none before it unless the document is broken.
ChainLeadsToTarget ==
    Answered("target") =>
        LET chain == answer.result.chain
        IN  /\ Last(chain) = Lookup(current, call.species, call.shadow).id
            /\ Len(chain) \in 2 .. maxPreEvolutionDepth + 1
                  \/ current.pokemon[Last(chain)].pre \notin DOMAIN current.pokemon
            /\ \A n \in 1 .. Len(chain) - 1 : current.pokemon[chain[n + 1]].pre = chain[n]
            /\ Len(chain) <= maxPreEvolutionDepth =>
                   current.pokemon[Head(chain)].pre \notin DOMAIN current.pokemon

\* The ceiling is the highest CP of the root over every spread that clears the
\* threshold, with the level and the product of one and the same spread, however
\* the sweep is cut into rows; a sweep that is cut short is no answer.
CeilingOfAllSpreads ==
    Answered("target") =>
        LET inputs  == TargetInputs
            ceiling == answer.result.ceiling
            Level(iv) == LevelForCP(inputs.target, iv, inputs.cpCap, inputs.xl)
            cleared == {iv \in IVs : /\ Level(iv) # None
                                     /\ Product(inputs.target, iv, Level(iv)) * 100
                                           >= inputs.threshold * inputs.best}
        IN  /\ \A iv \in cleared : CP(inputs.root, iv, Level(iv)) <= ceiling.cp
            /\ \E iv \in cleared :
                   ceiling = [cp |-> CP(inputs.root, iv, Level(iv)), level |-> Level(iv),
                              product |-> Product(inputs.target, iv, Level(iv))]

\* The sweep tests the spreads the threshold is a share of, so no threshold of
\* 100 percent or less is out of reach.
ThresholdReached ==
    call.kind = "target" /\ answer # None => answer # Error("threshold unreachable")

\* Walks down and up the evolutions, and the search for a ceiling at the end of one.
EvolutionsFollowed ==
    PreviewComplete /\ ChainLeadsToTarget /\ CeilingOfAllSpreads /\ ThresholdReached

\* The rank of a species in the rankings that were fetched.
RoleRank(r, id) == RankFrom(work.indexes[r], id)

\* A species is called a lead, switch or closer exactly when it is ranked in
\* that role five places before it is in either other, and nothing only when no
\* role ranks it.  A role that could not be fetched is never given, and takes no
\* role away from a species that has one by all three rankings.
RolesEarned ==
    Answered("meta") =>
        \A n \in DOMAIN answer.result :
            LET entry == answer.result[n]
                id    == entry.species
                Earned(r) == \A o \in (1 .. 3) \ {r} : RoleRank(r, id) + roleRankGapThreshold <= RoleRank(o, id)
                Published(r) == RankFrom(Index(memo[Roles[r]].entries), id)
                Deserved(r) == \A o \in (1 .. 3) \ {r} : Published(r) + roleRankGapThreshold <= Published(o)
            IN  /\ \A r \in 1 .. 3 : entry.role = RoleNames[r] <=> Earned(r)
                /\ entry.role = "" <=> \A r \in 1 .. 3 : RoleRank(r, id) = missingRank
                /\ \A r \in 1 .. 3 :
                      /\ entry.role = RoleNames[r] => memo[Roles[r]].status = "ok"
                      /\ (Deserved(r) /\ RoleRank(r, id) = Published(r)) => entry.role = RoleNames[r]

\* What the fights and the lists of moves depend on, order aside.
Bagged(seq) == [x \in ToSet(seq) |-> Cardinality({n \in DOMAIN seq : seq[n] = x})]
Essence(s) == [stats |-> s.stats, types |-> Bagged(s.types),
               fast |-> Bagged(s.fast), charged |-> Bagged(s.charged)]
EssenceOf(doc) == [pokemon |-> [id \in DOMAIN doc.pokemon |-> Essence(doc.pokemon[id])],
                   moves |-> [id \in DOMAIN doc.moves |->
                                 [field \in DOMAIN doc.moves[id] \ {"name"} |-> doc.moves[id][field]]]]

\* diff-gm calls two documents in sync exactly when no fight could tell them
\* apart, and its report, read against the local copy, gives the remote one.  A
\* side that could not be loaded is never in sync, but for a missing cache.
DiffTellsApart ==
    Answered("diff") =>
        LET report == answer.result
            old    == EssenceOf(LocalCache(call.local).doc)
            new    == EssenceOf(call.remote.doc)
            Patched(ids, added, removed) == (ids \ removed) \cup added
        IN  IF call.remote.status # "ok" \/ call.local.status = "broken"
            THEN report.verdict = "failed"
            ELSE /\ report.verdict = "clean" <=> old = new
                 /\ report.verdict # "failed"
                 /\ Patched(DOMAIN old.pokemon, report.diff.addedSpecies, report.diff.removedSpecies)
                        = DOMAIN new.pokemon
                 /\ Patched(DOMAIN old.moves, report.diff.addedMoves, report.diff.removedMoves)
                        = DOMAIN new.moves
                 /\ \A id \in DOMAIN old.pokemon \cap DOMAIN new.pokemon :
                        LET found == {c \in report.diff.changedSpecies : c.id = id}
                        IN  IF found = {} THEN old.pokemon[id] = new.pokemon[id]
                            ELSE \A c \in found : /\ Essence(c.before) = old.pokemon[id]
                                                  /\ Essence(c.after) = new.pokemon[id]
                 /\ \A id \in DOMAIN old.moves \cap DOMAIN new.moves :
                        (\E c \in report.diff.changedMoves : c.id = id)
                            <=> old.moves[id] # new.moves[id]
=============================================================================
