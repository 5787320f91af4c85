------------------------------ MODULE MemberCost ------------------------------
(***************************************************************************)
(* What it costs to finish a member of a team, as team_builder and         *)
(* team_analysis report it: internal/tools/team_builder_costs.go.  It      *)
(* prices the climb and the second move with the tables of the two cost    *)
(* tools, but along code of its own.                                       *)
(***************************************************************************)
EXTENDS Levels, PowerupCost

\* validateTargetLevel; 0 is an omitted level.
TargetLevelOK(quarters) ==
    quarters = 0 \/ (Doubled(quarters) # None /\ Doubled(quarters) <= 2 * maxPowerupLevel)

\* Faulty variant: the level of the engine's search is taken as it is.
DefaultTargetUnclamped(stats, cpCap) ==
    IF cpCap >= masterLeagueCap THEN 4 * maxPowerupLevel
    ELSE LET level == LevelForCP(stats, HundoIV, cpCap, TRUE)
         IN  IF level = None THEN 0 ELSE 2 * level

\* resolveTargetLevelForSpecies without an explicit level: what a 15/15/15 can
\* reach, no higher than the price table goes; 0 if there is none.
DefaultTarget(stats, cpCap) ==
    IF cpCap >= masterLeagueCap THEN 4 * maxPowerupLevel
    ELSE LET level == LevelForCP(stats, HundoIV, cpCap, TRUE)
         IN  CASE level = None -> 0
               [] level # None /\ level > 2 * maxPowerupLevel -> 4 * maxPowerupLevel
               [] level # None /\ level <= 2 * maxPowerupLevel -> 2 * level

\* populatePowerupPortion
PowerupPortion(level, target, options) ==
    LET free(flag) == [baseline |-> 0, stardust |-> 0, xl |-> 0, flag |-> flag]
        range == StepRange(level, target)
        base  == Baseline(range[1], range[2])
    IN  CASE target <= 0 -> free("target_level_unresolved")
          [] target > 0 /\ level >= target -> free("already_at_or_above_target")
          [] target > 0 /\ level < target /\ range = None -> free("powerup_pricing_skipped")
          [] target > 0 /\ level < target /\ range # None ->
                [baseline |-> base,
                 stardust |-> ScaleStardust(base, StardustMultiplier(options)),
                 xl |-> CountXLSteps(range[1], range[2]), flag |-> None]

\* populateSecondMovePortion: what is not known stays zero.
SecondMovePortion(species, options) ==
    LET multiplier == CostMultiplier(options)
    IN  [stardust |-> IF species.thirdMove > 0
                      THEN ScaleCost(species.thirdMove, multiplier) ELSE 0,
         candy |-> IF species.buddy \in BuddyKm
                   THEN ScaleCost(CandyFor(species.buddy), multiplier) ELSE 0,
         stardustKnown |-> species.thirdMove > 0,
         candyKnown |-> species.buddy \in BuddyKm]

\* computeMemberCost
MemberCost(species, level, cpCap, explicit, options) ==
    LET target == IF explicit > 0 THEN explicit ELSE DefaultTarget(species.stats, cpCap)
    IN  [target |-> target, climb |-> PowerupPortion(level, target, options),
         second |-> SecondMovePortion(species, options)]
=============================================================================
