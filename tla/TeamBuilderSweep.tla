-------------------------- MODULE TeamBuilderSweep --------------------------
(***************************************************************************)
(* The search of internal/tools/team_builder.go: the rating matrix filled  *)
(* by one goroutine per pool member behind a semaphore, then the walk over *)
(* every three of them, for one call whose context may be cancelled at any *)
(* moment.                                                                 *)
(*                                                                         *)
(* A row of the matrix is made by the caller's goroutine and written by    *)
(* its own goroutine only; a cancellation leaves rows that were never made *)
(* (nil) or only partly filled.                                            *)
(***************************************************************************)
EXTENDS Naturals, Sequences, FiniteSets, FiniteSetsExt, SequencesExt, Lists

CONSTANTS
    PoolSize,    \* members of the filtered pool
    MetaSize,    \* opponents
    NumCPU,      \* runtime.NumCPU()
    Ratings,     \* ratings a battle can end with
    Failed,      \* an entry whose OK is false: not simulated, or in error
    None,        \* nil row, no team
    Sims,        \* what the battle engine may answer, one function per engine
    SpeciesOf,   \* the species of each pool member
    Required,    \* sets of species a caller may require
    Modes        \* values of optimize_for a caller may pass

Rows      == 1..PoolSize
Opps      == 1..MetaSize
Scenarios == 0..2

\* One row of the matrix as the engine would fill it.
Row     == [Opps -> [Scenarios -> Ratings \cup {Failed}]]
ZeroRow == [o \in Opps |-> [s \in Scenarios |-> Failed]]

ASSUME SizesAssumption == PoolSize \in Nat /\ MetaSize \in Nat /\ NumCPU \in Nat \ {0}

ASSUME RatingsAssumption == Ratings \subseteq Nat /\ Failed \notin Ratings

ASSUME SimsAssumption == Sims \subseteq [Rows -> Row]

\* TeamBuilderTeam: its members, its score as a sum and a count, its label.
Labels == {"best 0-shield", "best 1-shield", "best 2-shield", "best overall"}
Teams  == [rows : Rows \X Rows \X Rows, score : [sum : Nat, count : Nat], label : Labels]

ASSUME NilAssumption == None \notin Row /\ None \notin Teams

\* selectScenario; a value the tool does not know counts as "overall".
ScenarioFor(m) == IF m = "0s" THEN 0 ELSE IF m = "2s" THEN 2 ELSE 1

ScenarioLabel(s) == <<"best 0-shield", "best 1-shield", "best 2-shield">>[s + 1]

LabelFor(m) == IF m \in {"0s", "1s", "2s"} THEN ScenarioLabel(ScenarioFor(m))
               ELSE "best overall"

VARIABLES
    sim,         \* the engine
    mode,        \* params.OptimizeFor
    required,    \* the required species
    ctx,         \* "live", then "cancelled" for good
    main,        \* the next statement of the caller's goroutine
    next,        \* its loop variable
    entries,     \* result.Entries
    worker,      \* the next statement of each row's goroutine
    opp,         \* its loop variable
    fails,       \* its local count of failures
    sem,         \* the rows whose goroutine holds a slot of the semaphore
    failures,    \* the atomic counter
    teams,       \* teams found so far
    best,        \* champions of the Pareto search
    evaluated    \* triples considered

inputVars  == <<sim, mode, required>>
matrixVars == <<entries, worker, opp, fails, sem, failures>>
searchVars == <<teams, best, evaluated>>
vars == <<inputVars, ctx, main, next, matrixVars, searchVars>>

\* The fourth champion of the Pareto search, beside those of the scenarios.
Overall   == 3
Champions == Scenarios \cup {Overall}

Init ==
    /\ sim \in Sims
    /\ mode \in Modes
    /\ required \in Required
    /\ ctx = "live"
    /\ main = "spawn"
    /\ next = 1
    /\ entries = [r \in Rows |-> None]
    /\ worker = [r \in Rows |-> "none"]
    /\ opp = [r \in Rows |-> 1]
    /\ fails = [r \in Rows |-> 0]
    /\ sem = {}
    /\ failures = 0
    /\ teams = <<>>
    /\ best = [x \in Champions |-> None]
    /\ evaluated = 0

\* The client goes away or its deadline passes.
Cancel ==
    /\ main # "done"
    /\ ctx = "live"
    /\ ctx' = "cancelled"
    /\ UNCHANGED <<inputVars, main, next, matrixVars, searchVars>>

-----------------------------------------------------------------------------
(* precomputeRatingMatrix: the caller's goroutine                          *)

Workers == IF NumCPU < PoolSize THEN NumCPU ELSE PoolSize

\* The loop ends after the last row, or early once the context is done.
Spawn ==
    /\ main = "spawn"
    /\ next <= PoolSize /\ ctx = "live"
    /\ main' = "acquire"
    /\ entries' = [entries EXCEPT ![next] = ZeroRow]
    /\ UNCHANGED <<inputVars, ctx, next, worker, opp, fails, sem, failures, searchVars>>

SpawnEnds ==
    /\ main = "spawn"
    /\ next > PoolSize \/ ctx # "live"
    /\ main' = "wait"
    /\ UNCHANGED <<inputVars, ctx, next, matrixVars, searchVars>>

\* sem <- struct{}{}, then the go statement.
Acquire ==
    /\ main = "acquire"
    /\ Cardinality(sem) < Workers
    /\ sem' = sem \cup {next}
    /\ worker' = [worker EXCEPT ![next] = "fill"]
    /\ next' = next + 1
    /\ main' = "spawn"
    /\ UNCHANGED <<inputVars, ctx, entries, opp, fails, failures, searchVars>>

\* Faulty variant: a goroutine is counted only once it has begun to work.
WaitUncounted ==
    /\ main = "wait"
    /\ \A r \in Rows : worker[r] \in {"none", "done"} \/ opp[r] = 1
    /\ main' = "walk"
    /\ next' = 1
    /\ UNCHANGED <<inputVars, ctx, matrixVars, searchVars>>

\* wg.Wait(): every goroutine that was started has called Done.
Wait ==
    /\ main = "wait"
    /\ \A r \in Rows : worker[r] \in {"none", "done"}
    /\ main' = "walk"
    /\ next' = 1
    /\ UNCHANGED <<inputVars, ctx, matrixVars, searchVars>>
-----------------------------------------------------------------------------
(* fillRatingMatrixRow: a row's goroutine                                  *)

RowFails(r, o) == Cardinality({s \in Scenarios : sim[r][o][s] = Failed})

\* Faulty variant: the failures of the last opponent replace the others.
FillLastFails(r) ==
    /\ worker[r] = "fill"
    /\ opp[r] <= MetaSize /\ ctx = "live"
    /\ entries' = [entries EXCEPT ![r][opp[r]] = sim[r][opp[r]]]
    /\ fails' = [fails EXCEPT ![r] = RowFails(r, opp[r])]
    /\ opp' = [opp EXCEPT ![r] = @ + 1]
    /\ UNCHANGED <<inputVars, ctx, main, next, worker, sem, failures, searchVars>>

\* One opponent: its three scenarios follow one look at the context.
Fill(r) ==
    /\ worker[r] = "fill"
    /\ opp[r] <= MetaSize /\ ctx = "live"
    /\ entries' = [entries EXCEPT ![r][opp[r]] = sim[r][opp[r]]]
    /\ fails' = [fails EXCEPT ![r] = @ + RowFails(r, opp[r])]
    /\ opp' = [opp EXCEPT ![r] = @ + 1]
    /\ UNCHANGED <<inputVars, ctx, main, next, worker, sem, failures, searchVars>>

\* failuresAll.Add, once the row is full or the context done.
AddFails(r) ==
    /\ worker[r] = "fill"
    /\ opp[r] > MetaSize \/ ctx # "live"
    /\ failures' = failures + fails[r]
    /\ worker' = [worker EXCEPT ![r] = "release"]
    /\ UNCHANGED <<inputVars, ctx, main, next, entries, opp, fails, sem, searchVars>>

\* Faulty variant: the slot is not given back.
ReleaseForgotten(r) ==
    /\ worker[r] = "release"
    /\ worker' = [worker EXCEPT ![r] = "finish"]
    /\ UNCHANGED <<inputVars, ctx, main, next, entries, opp, fails, sem, failures, searchVars>>

\* The deferred calls, last one first: the slot, then wg.Done.
Release(r) ==
    /\ worker[r] = "release"
    /\ worker' = [worker EXCEPT ![r] = "finish"]
    /\ sem' = sem \ {r}
    /\ UNCHANGED <<inputVars, ctx, main, next, entries, opp, fails, failures, searchVars>>

Done(r) ==
    /\ worker[r] = "finish"
    /\ worker' = [worker EXCEPT ![r] = "done"]
    /\ UNCHANGED <<inputVars, ctx, main, next, entries, opp, fails, sem, failures, searchVars>>
-----------------------------------------------------------------------------
(* Scores; a mean is a pair of a sum and a count                           *)

\* scoreTripleFromMatrix over a matrix m: failed entries count for nothing.
Score(m, t, s) ==
    LET valid == {c \in ToSet(t) \X Opps : m[c[1]][c[2]][s] # Failed}
        rating == [c \in valid |-> m[c[1]][c[2]][s]]
    IN  [sum |-> MapThenSumSet(LAMBDA c : rating[c], valid), count |-> Cardinality(valid)]

\* averageScenarioScore: the mean of the scenarios that have a mean.
Average(m, t) ==
    LET mean  == <<Score(m, t, 0), Score(m, t, 1), Score(m, t, 2)>>
        valid == {n \in 1..3 : mean[n].count > 0}
        N(n)  == IF n \in valid THEN mean[n].count ELSE 1
    IN  [sum   |-> mean[1].sum * N(2) * N(3) + mean[2].sum * N(1) * N(3) + mean[3].sum * N(1) * N(2),
         count |-> N(1) * N(2) * N(3) * Cardinality(valid)]

ScoreFor(m, t, x) == IF x = Overall THEN Average(m, t) ELSE Score(m, t, x)

Better(a, b) == a.sum * b.count > b.sum * a.count

Team(m, t, x, label) == [rows |-> t, score |-> ScoreFor(m, t, x), label |-> label]

ChampionLabel(x) == IF x = Overall THEN "best overall" ELSE ScenarioLabel(x)

\* containsAllSpecies
Eligible(t) == required \subseteq {SpeciesOf[r] : r \in ToSet(t)}

LexLess(t, u) == t[2] < u[2] \/ (t[2] = u[2] /\ t[3] < u[3])

\* The eligible triples that start at row i; the two loops come to them in the
\* order of LexLess.
TriplesAt(i) == {t \in {i} \X Rows \X Rows : i < t[2] /\ t[2] < t[3] /\ Eligible(t)}

\* Scoring a triple whose first row was made and another was not indexes a nil
\* slice.
ReadsNil(i) ==
    /\ MetaSize > 0 /\ entries[i] # None
    /\ \E t \in TriplesAt(i) : entries[t[2]] = None \/ entries[t[3]] = None

\* The teams of some triples, but for those whose score is "no valid sample".
Entrants(m, triples, x, label) ==
    {c \in {Team(m, t, x, label) : t \in triples} : c.score.count > 0}

EntrantsAt(i, x, label) ==
    IF entries[i] = None THEN {} ELSE Entrants(entries, TriplesAt(i), x, label)

InLoopOrder(S) == OrderedBy(S, {p \in S \X S : LexLess(p[1].rows, p[2].rows)})

\* Those that no other beats.
Leaders(i, x) ==
    LET all == EntrantsAt(i, x, ChampionLabel(x))
    IN  {c \in all : ~\E d \in all : Better(d.score, c.score)}

\* Faulty variant: a later triple with the same score replaces the champion.
ChampionLast(i, x, champion) ==
    LET last == CHOOSE c \in Leaders(i, x) : \A d \in Leaders(i, x) \ {c} : LexLess(d.rows, c.rows)
    IN  IF Leaders(i, x) = {} THEN champion
        ELSE IF champion # None /\ Better(champion.score, last.score) THEN champion
        ELSE last

\* updateScenarioBests and updateOverallBest: only a strictly better triple
\* replaces a champion.
Champion(i, x, champion) ==
    LET first == CHOOSE c \in Leaders(i, x) : \A d \in Leaders(i, x) \ {c} : LexLess(c.rows, d.rows)
    IN  IF Leaders(i, x) = {} THEN champion
        ELSE IF champion # None /\ ~Better(first.score, champion.score) THEN champion
        ELSE first
-----------------------------------------------------------------------------
(* enumerateTeams and buildParetoFrontier                                  *)

\* One anchor: its triples are scored without another look at the context.
WalkAnchor ==
    \/ ReadsNil(next) /\ main' = "panic" /\ UNCHANGED <<next, searchVars>>
    \/ /\ ~ReadsNil(next)
       /\ next' = next + 1
       /\ evaluated' = evaluated + Cardinality(TriplesAt(next))
       /\ \/ /\ mode = "all_pareto"
             /\ best' = [x \in Champions |-> Champion(next, x, best[x])]
             /\ UNCHANGED teams
          \/ /\ mode # "all_pareto"
             /\ teams' = teams \o InLoopOrder(EntrantsAt(next, ScenarioFor(mode), LabelFor(mode)))
             /\ UNCHANGED best
       /\ UNCHANGED main

Walk ==
    /\ main = "walk"
    /\ next <= PoolSize /\ ctx = "live"
    /\ WalkAnchor
    /\ UNCHANGED <<inputVars, ctx, matrixVars>>

\* assembleFrontier: the overall champion first, then each scenario's unless
\* its triple is already there.
Assemble(b) ==
    LET all == <<b[Overall], b[0], b[1], b[2]>>
        New(n) == /\ all[n] # None
                  /\ ~\E m \in 1..(n - 1) : all[m] # None /\ all[m].rows = all[n].rows
        kept == OrderedBy({n \in 1..4 : New(n)}, {p \in (1..4) \X (1..4) : p[1] < p[2]})
    IN  [n \in 1..Len(kept) |-> all[kept[n]]]

WalkEnds ==
    /\ main = "walk"
    /\ next > PoolSize \/ ctx # "live"
    /\ main' = "check"
    /\ teams' = IF mode = "all_pareto" THEN Assemble(best) ELSE teams
    /\ UNCHANGED <<inputVars, ctx, next, matrixVars, best, evaluated>>

\* handle looks at the context once more before it uses the teams.
Return ==
    /\ main = "check"
    /\ main' = IF ctx # "live" THEN "cancelled" ELSE "done"
    /\ UNCHANGED <<inputVars, ctx, next, matrixVars, searchVars>>

Main == Spawn \/ SpawnEnds \/ Acquire \/ Wait \/ Walk \/ WalkEnds \/ Return

Worker(r) == Fill(r) \/ AddFails(r) \/ Release(r) \/ Done(r)

Next == Main \/ (\E r \in Rows : Worker(r)) \/ Cancel

Spec == Init /\ [][Next]_vars

\* Every goroutine that can run does; nothing is assumed of the context.
FairSpec == Spec /\ WF_vars(Main) /\ \A r \in Rows : WF_vars(Worker(r))
-----------------------------------------------------------------------------
(* Properties                                                              *)

\* No cancellation, at whatever moment, makes the walk index a row that was
\* never made (team_builder.go:922-926, 983-986, 1192-1195, 1282-1284).
NoNilRow == main # "panic"

\* The matrix is read only after the last goroutine has stopped writing it, and
\* no goroutine outlives the search (team_builder.go:1199-1212).
NoStrayWriter ==
    main \in {"walk", "check", "done", "cancelled", "panic"}
    => /\ sem = {}
       /\ \A r \in Rows : worker[r] \in {"none", "done"}

\* A search that is not cancelled walks over the whole matrix, whatever order the
\* goroutines ran in (team_builder.go:1165-1171, 1197-1209).
FullMatrix ==
    main \in {"walk", "check", "done"} /\ ctx = "live" => entries = sim

\* What a cancellation and the goroutines could do to the matrix, in one: the walk
\* neither indexes a row that is not there, nor reads one that is still being
\* written, nor, unless it is cancelled, misses a fight.
MatrixSound == NoNilRow /\ NoStrayWriter /\ FullMatrix

\* It has counted each failed battle once (team_builder.go:1207-1214).
FailuresCounted ==
    main \in {"walk", "check", "done"} /\ ctx = "live"
    => failures = Cardinality({c \in Rows \X Opps \X Scenarios :
                                 sim[c[1]][c[2]][c[3]] = Failed})

Triples == UNION {TriplesAt(i) : i \in Rows}

\* Teams that reach the client are every eligible triple with a valid sample,
\* once, with the score of the complete matrix: never a cancelled search's
\* part of them (team_builder.go:387-392, 914-964).
AllOrCancelled ==
    main = "done" /\ mode # "all_pareto"
    => LET found == Entrants(sim, Triples, ScenarioFor(mode), LabelFor(mode))
       IN  /\ evaluated = Cardinality(Triples)
           /\ Len(teams) = Cardinality(found)
           /\ ToSet(teams) = found

\* The teams that compete for a place on the frontier, and who has it: nobody is
\* better, and nobody as good comes earlier.
Contest(x) == Entrants(sim, Triples, x, ChampionLabel(x))

Ahead(t, u) == t[1] < u[1] \/ (t[1] = u[1] /\ LexLess(t, u))

Beats(c, d) == \/ Better(c.score, d.score)
               \/ ~Better(d.score, c.score) /\ Ahead(c.rows, d.rows)

Winners(x) == {c \in Contest(x) : \A d \in Contest(x) \ {c} : Beats(c, d)}

\* The frontier holds one team per triple; each scenario, and the average of
\* the scenarios, has a team in it that no eligible triple beats, and the
\* earliest such triple in pool order; a team's score is the one its label
\* names (team_builder.go:966-1085).
FrontierBest ==
    main = "done" /\ mode = "all_pareto"
    => /\ \A m, n \in 1..Len(teams) : teams[m].rows = teams[n].rows => m = n
       /\ \A x \in Champions : Contest(x) # {} =>
             \E n \in 1..Len(teams) : \E c \in Winners(x) : teams[n].rows = c.rows
       /\ \A n \in 1..Len(teams) : \E x \in Champions : teams[n] \in Winners(x)

\* An answer, in every mode, is the one the whole matrix gives
\* (team_builder.go:845-883).
SearchComplete == AllOrCancelled /\ FrontierBest

\* The search ends, cancelled or not, with fewer slots than rows.
SearchEnds == <>(main \in {"done", "cancelled"})
=============================================================================
