------------------------------ MODULE PowerupCost ------------------------------
(***************************************************************************)
(* What a power-up and a second charged move cost: internal/tools,         *)
(* powerup_cost.go and second_move_cost.go.                                *)
(*                                                                         *)
(* A level a client sends is counted in quarters, so that half of them lie *)
(* off the grid of half-levels.  The floating-point multipliers are        *)
(* products of 12/10, 9/10 and 1/2 and are counted in thousandths.         *)
(***************************************************************************)
EXTENDS Combatants, Integers

minPowerupLevel == 1
maxPowerupLevel == 50
preXLTotalSteps == 78

\* Buckets of the table: how many half-level steps at what price.
PreXL == << <<4, 200>>, <<4, 400>>, <<4, 600>>, <<4, 800>>, <<4, 1000>>, <<4, 1300>>,
           <<4, 1600>>, <<4, 1900>>, <<4, 2200>>, <<4, 2500>>, <<4, 3000>>, <<4, 3500>>,
           <<4, 4000>>, <<4, 4500>>, <<4, 5000>>, <<4, 6000>>, <<4, 7000>>, <<4, 8000>>,
           <<4, 9000>>, <<2, 10000>> >>
XLEra == << <<2, 10000>>, <<4, 11000>>, <<4, 12000>>, <<4, 13000>>, <<4, 14000>>, <<2, 15000>> >>

\* powerupStardustTable; TLA+ counts from 1, the code from 0.
StardustTable ==
    FlattenSeq([n \in DOMAIN (PreXL \o XLEra) |->
        [step \in 1 .. (PreXL \o XLEra)[n][1] |-> (PreXL \o XLEra)[n][2]]])

\* doubleLevelOnHalfGrid: the doubled level, if it is on the grid and not too low.
Doubled(quarters) ==
    IF quarters % 2 = 0 /\ quarters \div 2 >= 2 * minPowerupLevel THEN quarters \div 2 ELSE None

\* validatePowerupRange: the indices of the first step and of the one after the last.
StepRange(from, to) ==
    IF \/ Doubled(from) = None \/ Doubled(to) = None
       \/ Doubled(from) > 2 * maxPowerupLevel \/ Doubled(to) > 2 * maxPowerupLevel
       \/ Doubled(to) <= Doubled(from)
    THEN None ELSE <<Doubled(from) - 2 * minPowerupLevel, Doubled(to) - 2 * minPowerupLevel>>

Baseline(fromIdx, toIdx) ==
    LET sum[n \in fromIdx .. toIdx] ==
            IF n = fromIdx THEN 0 ELSE sum[n - 1] + StardustTable[n]
    IN  sum[toIdx]

\* costMultiplierFor
CostMultiplier(options) ==
    LET shadow == IF "shadow" \in options THEN 1200 ELSE 1000
    IN  IF "purified" \in options THEN (shadow * 9) \div 10 ELSE shadow

\* powerupStardustMultiplierFor
StardustMultiplier(options) ==
    IF "lucky" \in options THEN CostMultiplier(options) \div 2 ELSE CostMultiplier(options)

\* scaleStardust: a stacked multiplier is rounded to the nearest.
ScaleStardust(baseline, multiplier) ==
    CASE multiplier = 1000 -> baseline
      [] multiplier = 1200 -> (baseline * 12) \div 10
      [] multiplier = 900  -> (baseline * 9) \div 10
      [] multiplier = 500  -> baseline \div 2
      [] OTHER             -> (baseline * multiplier + 500) \div 1000

\* countXLSteps
CountXLSteps(fromIdx, toIdx) ==
    CASE toIdx <= preXLTotalSteps   -> 0
      [] fromIdx >= preXLTotalSteps -> toIdx - fromIdx
      [] OTHER                      -> toIdx - preXLTotalSteps

\* PowerupCostTool.handle
PowerupCost(from, to, options) ==
    LET range == StepRange(from, to)
        base  == Baseline(range[1], range[2])
        xl    == CountXLSteps(range[1], range[2])
    IN  IF range = None THEN None
        ELSE [steps |-> range[2] - range[1], baseline |-> base,
              stardust |-> ScaleStardust(base, StardustMultiplier(options)),
              xl |-> xl, crosses |-> xl > 0]

\* scaleCost
ScaleCost(cost, multiplier) ==
    CASE multiplier = 1000 -> cost
      [] multiplier = 1200 -> (cost * 12) \div 10
      [] multiplier = 900  -> (cost * 9) \div 10
      [] multiplier = 1080 -> (cost * 108) \div 100

\* candyCostFromBuddy: candy by kilometres.
BuddyKm == {1, 3, 5, 20}
CandyFor(km) == CASE km = 1 -> 25 [] km = 3 -> 50 [] km = 5 -> 75 [] km = 20 -> 100

\* buildSecondMoveCostResult
SecondMoveCost(species, options) ==
    LET km == species.buddy
    IN  [stardust |-> ScaleCost(species.thirdMove, CostMultiplier(options)),
         candy |-> IF km \in BuddyKm THEN ScaleCost(CandyFor(km), CostMultiplier(options)) ELSE 0,
         stardustKnown |-> species.thirdMove > 0, candyKnown |-> km \in BuddyKm]
=============================================================================
