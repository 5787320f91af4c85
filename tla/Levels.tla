-------------------------------- MODULE Levels --------------------------------
(***************************************************************************)
(* Searches of the level grid: rank.go, cplimits.go, level_from_cp.go,     *)
(* encounter_cp_range.go and evolution_target.go of internal/tools, over   *)
(* an engine seen through two functions.  CP grows with the level, and so  *)
(* does the stat product.  Levels are doubled.  Stat products are whole    *)
(* numbers here and floats in the code; only their order and their ratios  *)
(* to the best are used.                                                   *)
(***************************************************************************)
EXTENDS Combatants, Integers

CONSTANTS
    MaxIV,                             \* pogopvp.MaxIV
    MinLevel, NoXLMaxLevel, MaxLevel,  \* the ends of the grid
    CP(_, _, _),                       \* pogopvp.ComputeCP: stats, IV, level
    Product(_, _, _),                  \* pogopvp.ComputeStatProduct
    LeagueCP,                          \* cap of every league
    masterLeagueCap,
    IVFloor                            \* the IV floors: "wild", "boosted" and "gift"

IVs == (0 .. MaxIV) \X (0 .. MaxIV) \X (0 .. MaxIV)
HundoIV == <<MaxIV, MaxIV, MaxIV>>

TopLevel(xl) == IF xl THEN MaxLevel ELSE NoXLMaxLevel
Grid(xl) == MinLevel .. TopLevel(xl)

\* resolveCPCap
ResolveCPCap(league, override) ==
    CASE override < 0 -> None
      [] override > 0 -> override
      [] override = 0 -> IF league \in DOMAIN LeagueCP THEN LeagueCP[league] ELSE None

\* Faulty variant: a level that fits exactly is passed over.
FindSpreadStrict(stats, iv, cpCap, xl) ==
    LET walk[l \in MinLevel - 1 .. TopLevel(xl)] ==
            IF l < MinLevel THEN None
            ELSE IF CP(stats, iv, l) >= cpCap THEN walk[l - 1] ELSE l
    IN  walk[TopLevel(xl)]

\* findSpreadForSpecies and computeLeagueLimit: down the grid to the first level
\* that fits.
FindSpread(stats, iv, cpCap, xl) ==
    LET walk[l \in MinLevel - 1 .. TopLevel(xl)] ==
            IF l < MinLevel THEN None
            ELSE IF CP(stats, iv, l) > cpCap THEN walk[l - 1] ELSE l
    IN  walk[TopLevel(xl)]

\* pogopvp.LevelForCP: the highest level that does not exceed a CP.
LevelForCP(stats, iv, target, xl) ==
    LET under == {l \in Grid(xl) : CP(stats, iv, l) <= target}
    IN  IF under = {} THEN None ELSE Max(under)

\* pogopvp.FindOptimalSpread: the best stat product of any IV.
BestProduct(stats, cpCap, xl) ==
    LET legal == {Product(stats, iv, l) : <<iv, l>> \in
                     {p \in IVs \X Grid(xl) : CP(stats, p[1], p[2]) <= cpCap}}
    IN  IF legal = {} THEN None ELSE Max(legal)

\* reachableCP
ReachableCP(level, cp, target, xl) == cp >= target \/ level < TopLevel(xl)

\* LevelFromCPTool.handle, once the species is known.
LevelFromCP(stats, iv, target, xl) ==
    LET level == LevelForCP(stats, iv, target, xl)
        cp    == CP(stats, iv, level)
    IN  IF level = None THEN None
        ELSE [level |-> level, cp |-> cp, exact |-> cp = target,
              reachable |-> ReachableCP(level, cp, target, xl)]

\* computeLeagueLimit: level 1 when nothing fits.
LeagueLimit(stats, iv, cpCap, xl) ==
    LET level == FindSpread(stats, iv, cpCap, xl)
        shown == IF level = None THEN MinLevel ELSE level
    IN  [fits |-> level # None, level |-> shown, cp |-> CP(stats, iv, shown)]

\* computeEncounterRange: the ends of a window of levels and IVs.
EncounterRange(stats, rule) ==
    LET least == <<IVFloor[rule.floor], IVFloor[rule.floor], IVFloor[rule.floor]>>
    IN  [min |-> CP(stats, least, rule.from), max |-> CP(stats, HundoIV, rule.to)]

\* encounterRules, with doubled levels.
EncounterRules ==
    LET Rule(from, to, floor) == [from |-> 2 * from, to |-> 2 * to, floor |-> floor]
    IN  [gbl_reward |-> Rule(20, 20, "wild"), hatch_egg |-> Rule(20, 20, "gift"),
         raid |-> Rule(20, 20, "gift"), raid_boosted |-> Rule(25, 25, "gift"),
         research |-> Rule(15, 15, "gift"), rocket_shadow |-> Rule(8, 8, "wild"),
         wild_boosted |-> Rule(6, 35, "boosted"), wild_unboosted |-> Rule(1, 30, "wild")]

\* cpLimitLeagues
CPLimitLeagues == {league \in DOMAIN LeagueCP : LeagueCP[league] < masterLeagueCap}

\* computeHundo
Hundo(stats, cpCap, xl) ==
    LET level == FindSpread(stats, HundoIV, cpCap, xl)
    IN  IF cpCap >= masterLeagueCap \/ level = None THEN None
        ELSE [level |-> level, product |-> Product(stats, HundoIV, level)]

\* buildRankResult; percentOfBest is the quotient of the two products.
RankResult(stats, iv, cpCap, xl) ==
    LET level == FindSpread(stats, iv, cpCap, xl)
        best  == BestProduct(stats, cpCap, xl)
    IN  IF level = None \/ best = None \/ best = 0 THEN None
        ELSE [level |-> level, cp |-> CP(stats, iv, level),
              product |-> Product(stats, iv, level), best |-> best,
              hundo |-> Hundo(stats, cpCap, xl)]
=============================================================================
