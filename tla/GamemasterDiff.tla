---------------------------- MODULE GamemasterDiff ----------------------------
(***************************************************************************)
(* What diff-gm reports: internal/gamemaster/differ.go and                 *)
(* internal/cli/diff_gm.go.                                                *)
(*                                                                         *)
(* The slices of a Diff are sorted by id, so they are sets here.  A side   *)
(* is a document or says why there is none.                                *)
(***************************************************************************)
EXTENDS Integers, Sequences, SequencesExt

\* speciesMap and movesMap of a nil snapshot
NoDocument == [pokemon |-> << >>, moves |-> << >>]

\* stringSetEqual: equal once sorted.
SameMembers(a, b) ==
    /\ Len(a) = Len(b)
    /\ \A x \in ToSet(a) \cup ToSet(b) :
           Cardinality({n \in DOMAIN a : a[n] = x}) = Cardinality({n \in DOMAIN b : b[n] = x})

\* speciesChanged
SpeciesChanged(old, new) ==
    \/ old.stats # new.stats
    \/ ~SameMembers(old.types, new.types)
    \/ ~SameMembers(old.fast, new.fast)
    \/ ~SameMembers(old.charged, new.charged)

\* Faulty variant: the energy a fast move gains is not compared.
MoveChangedButGain(old, new) ==
    \/ old.type # new.type \/ old.power # new.power
    \/ old.energy # new.energy
    \/ old.cooldown # new.cooldown \/ old.turns # new.turns

\* moveChanged; the name is not compared.
MoveChanged(old, new) ==
    \/ old.type # new.type \/ old.power # new.power
    \/ old.energy # new.energy \/ old.energyGain # new.energyGain
    \/ old.cooldown # new.cooldown \/ old.turns # new.turns

SpeciesProjection(s) == [stats |-> s.stats, types |-> s.types, fast |-> s.fast, charged |-> s.charged]

\* DiffGamemasters
DiffGamemasters(before, after) ==
    [addedSpecies   |-> DOMAIN after.pokemon \ DOMAIN before.pokemon,
     removedSpecies |-> DOMAIN before.pokemon \ DOMAIN after.pokemon,
     changedSpecies |->
        {[id |-> id, before |-> SpeciesProjection(before.pokemon[id]),
                     after |-> SpeciesProjection(after.pokemon[id])] :
            id \in {i \in DOMAIN before.pokemon \cap DOMAIN after.pokemon :
                       SpeciesChanged(before.pokemon[i], after.pokemon[i])}},
     addedMoves     |-> DOMAIN after.moves \ DOMAIN before.moves,
     removedMoves   |-> DOMAIN before.moves \ DOMAIN after.moves,
     changedMoves   |->
        {[id |-> id, before |-> before.moves[id], after |-> after.moves[id]] :
            id \in {i \in DOMAIN before.moves \cap DOMAIN after.moves :
                       MoveChanged(before.moves[i], after.moves[i])}}]

\* Diff.Empty
Empty(diff) == \A part \in DOMAIN diff : diff[part] = {}

\* loadLocalCache: a missing file is an empty baseline.
LocalCache(side) == IF side.status = "missing" THEN [status |-> "ok", doc |-> NoDocument] ELSE side

\* runDiffGM; an --against file that is missing is an error, as is a bad answer.
RunDiffGM(local, remote) ==
    LET baseline == LocalCache(local)
        diff     == DiffGamemasters(baseline.doc, remote.doc)
    IN  IF baseline.status # "ok" \/ remote.status # "ok" THEN [verdict |-> "failed"]
        ELSE [verdict |-> IF Empty(diff) THEN "clean" ELSE "dirty", diff |-> diff]
=============================================================================
