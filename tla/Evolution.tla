------------------------------- MODULE Evolution -------------------------------
(***************************************************************************)
(* Walks of the evolution graph of a document: internal/tools,             *)
(* evolution_preview.go forward and evolution_target.go backward.          *)
(***************************************************************************)
EXTENDS Levels

CONSTANTS
    maxEvolutionDepth,     \* 5
    maxPreEvolutionDepth   \* 5

\* The ids of a list that are not queued yet, each once.
Fresh(ids, seen) ==
    FoldLeft(LAMBDA kept, id : IF id \in seen \cup ToSet(kept) THEN kept ELSE Append(kept, id),
             <<>>, ids)

\* The loop of collectEvolutionStages: the paths of the stages, breadth first.
\* An id the document does not have is dropped.
RECURSIVE Walk(_, _, _)
Walk(doc, seen, frontier) ==
    IF frontier = <<>> THEN <<>>
    ELSE LET path == Head(frontier)
             here == IF Last(path) \in DOMAIN doc.pokemon THEN <<path>> ELSE <<>>
             next == IF here = <<>> \/ Len(path) >= maxEvolutionDepth THEN <<>>
                     ELSE Fresh(doc.pokemon[Last(path)].evolutions, seen)
         IN  here \o Walk(doc, seen \cup ToSet(next),
                          Tail(frontier) \o [n \in DOMAIN next |-> Append(path, next[n])])

\* leaguesFitting
LeaguesFitting(cp) == {league \in DOMAIN LeagueCP : cp <= LeagueCP[league]}

\* collectEvolutionStages; the sort of EvolutionPreviewTool.handle keeps shorter
\* paths first and only orders those of one length by name.
Stages(doc, base, iv, level) ==
    LET first == Fresh(doc.pokemon[base].evolutions, {base})
        paths == Walk(doc, {base} \cup ToSet(first), [n \in DOMAIN first |-> <<first[n]>>])
        cp(n) == CP(doc.pokemon[Last(paths[n])].stats, iv, level)
    IN  [n \in DOMAIN paths |->
            [species |-> Last(paths[n]), path |-> paths[n],
             cp |-> cp(n), leagues |-> LeaguesFitting(cp(n))]]

\* walkPreEvolutionChain: the chain that ends in a species; its head is the root.
RECURSIVE Climb(_, _, _)
Climb(doc, chain, hops) ==
    LET pre == doc.pokemon[Head(chain)].pre
    IN  IF hops = 0 \/ pre = None \/ pre \notin DOMAIN doc.pokemon THEN chain
        ELSE Climb(doc, <<pre>> \o chain, hops - 1)

Chain(doc, target) == Climb(doc, <<target>>, maxPreEvolutionDepth)

NoCandidate == [cp |-> 0, level |-> 0, product |-> 0]

\* evaluateIVCandidate and targetFitAndStatProduct
Evaluate(inputs, candidate, iv) ==
    LET level == LevelForCP(inputs.target, iv, inputs.cpCap, inputs.xl)
        value == Product(inputs.target, iv, level)
        cp    == CP(inputs.root, iv, level)
    IN  IF level = None \/ value * 100 < inputs.threshold * inputs.best \/ cp <= candidate.cp
        THEN candidate ELSE [cp |-> cp, level |-> level, product |-> value]

\* The inner loops of searchEvolutionTargetCeiling: every IV of one attack value.
Row(atk) == [n \in 1 .. (MaxIV + 1) * (MaxIV + 1) |->
                <<atk, (n - 1) \div (MaxIV + 1), (n - 1) % (MaxIV + 1)>>]

EvaluateRow(inputs, candidate, atk) ==
    FoldLeft(LAMBDA found, iv : Evaluate(inputs, found, iv), candidate, Row(atk))
=============================================================================
