----------------------------- MODULE TeamBuilder -----------------------------
(***************************************************************************)
(* One pvp_team_builder call, internal/tools/team_builder.go, around the   *)
(* search of TeamBuilderSweep: evolution, moveset defaults, ban filter,    *)
(* budget, and the two coordinate systems of the answer.                   *)
(*                                                                         *)
(* The call reads the gamemaster three times (resolveTeamBuilderInputs,    *)
(* defaultPoolMovesets, preHandleValidation) while refreshes go on.  What  *)
(* lies between two reads touches nothing shared and is one step.          *)
(*                                                                         *)
(* A document maps species to what the call looks at: the evolutions, the  *)
(* CP at level 1 (all members have the same IVs), the legacy and the elite *)
(* moves, and the stardust a member costs.  Shadow forms are left out.     *)
(***************************************************************************)
EXTENDS Naturals, Sequences, FiniteSets, SequencesExt, Lists

CONSTANTS
    MaxPoolSize,         \* members a pool may have
    autoEvolveMaxDepth,  \* hops a walk along an evolution line may take
    Docs,         \* gamemaster documents a refresh may bring
    Recommended,  \* species -> recommended moveset, of the rankings
    Calls,        \* parameters a client may send
    CPCap,        \* the cap of the league
    Scores,       \* scores a team can have
    None          \* an omitted move, no score

TeamSize == 3

\* In the code they are 50 and 5.
ASSUME LimitsAssumption == MaxPoolSize \in Nat /\ autoEvolveMaxDepth \in Nat \ {0}

\* A pool may have any length: it is Build that refuses one that is too long.
ASSUME CallsAssumption ==
    \A p \in Calls :
       /\ p.pool \in Seq(ToSet(p.pool))
       /\ p.max \in Nat /\ p.budget.limit \in Nat

\* What a species evolves into is a list, which may lead into a cycle, and no
\* species is none.
ASSUME DocsAssumption ==
    \A d \in Docs :
       /\ None \notin DOMAIN d
       /\ \A s \in DOMAIN d : d[s].evolutions \in Seq(ToSet(d[s].evolutions))

ASSUME ScoresAssumption == Scores \subseteq Nat /\ None \notin Scores

VARIABLES
    current,   \* Manager.current
    params,    \* the call
    pc,        \* its next step
    reads,     \* the documents it has read
    pool,      \* its copy of params.pool
    filtered,  \* the pool without the banned members
    found,     \* the scored teams, in positions of filtered
    teams,     \* the teams of the answer
    members    \* PoolMembers of the answer

vars == <<current, params, pc, reads, pool, filtered, found, teams, members>>

\* A member as the client sent it.
Fresh(spec, i) ==
    [species |-> spec.species, fast |-> spec.fast, charged |-> spec.charged,
     from |-> None, skip |-> "", index |-> i]

Init ==
    /\ current \in Docs
    /\ params \in Calls
    /\ pc = "resolve"
    /\ reads = <<>>
    /\ pool = [i \in 1..Len(params.pool) |-> Fresh(params.pool[i], i)]
    /\ filtered = <<>>
    /\ found = {}
    /\ teams = <<>>
    /\ members = <<>>

\* Manager.Refresh swaps the document at any moment.
Refresh ==
    /\ \E d \in Docs \ {current} : current' = d
    /\ UNCHANGED <<params, pc, reads, pool, filtered, found, teams, members>>

Refuse ==
    /\ pc' = "refused"
    /\ UNCHANGED <<pool, filtered, found, teams, members>>

Moves(m) == ToSet(m.charged) \cup ({m.fast} \ {None})

\* The moves of a species the client does not want; none if it is not known.
Restricted(doc, species) ==
    IF species \notin DOMAIN doc THEN {}
    ELSE (IF params.noLegacy THEN doc[species].legacy ELSE {})
         \cup (IF params.noElite THEN doc[species].elite ELSE {})
-----------------------------------------------------------------------------
(* autoEvolvePool                                                          *)

\* Faulty variant: the next form may be over the cap.
CanStepAnywhere(doc, s) ==
    /\ Len(doc[s].evolutions) = 1
    /\ doc[s].evolutions[1] \in DOMAIN doc

\* advanceEvolveStep: one known evolution, which fits the cap at level 1.
CanStep(doc, s) ==
    /\ Len(doc[s].evolutions) = 1
    /\ doc[s].evolutions[1] \in DOMAIN doc
    /\ doc[doc[s].evolutions[1]].floor <= CPCap

\* walkEvolutionChain: the last form that fits, within the limit of hops.
Terminal(doc, base) ==
    LET form[n \in 0..autoEvolveMaxDepth] ==
            IF n = 0 THEN base
            ELSE IF CanStep(doc, form[n - 1]) THEN doc[form[n - 1]].evolutions[1]
            ELSE form[n - 1]
    IN  form[autoEvolveMaxDepth]

\* Why the first hop is refused, if it is.
Skip(doc, s) ==
    IF Len(doc[s].evolutions) > 1 THEN "branching"
    ELSE IF Len(doc[s].evolutions) = 1 /\ doc[s].evolutions[1] \in DOMAIN doc
            /\ ~CanStep(doc, s) THEN "over_cap"
    ELSE ""

\* Faulty variant: a promoted member keeps the moves of its old form.
EvolvedKeepsMoves(doc, m) ==
    IF m.species \notin DOMAIN doc THEN m
    ELSE IF Skip(doc, m.species) # ""
         THEN [m EXCEPT !.from = m.species, !.skip = Skip(doc, m.species)]
    ELSE IF Terminal(doc, m.species) = m.species THEN m
    ELSE [m EXCEPT !.species = Terminal(doc, m.species), !.from = m.species]

\* autoEvolveMember
Evolved(doc, m) ==
    IF m.species \notin DOMAIN doc THEN m
    ELSE IF Skip(doc, m.species) # ""
         THEN [m EXCEPT !.from = m.species, !.skip = Skip(doc, m.species)]
    ELSE IF Terminal(doc, m.species) = m.species THEN m
    ELSE [m EXCEPT !.species = Terminal(doc, m.species), !.from = m.species,
                   !.fast = None, !.charged = <<>>]

\* First read.  A done context, an invalid parameter or an unknown league refuse
\* the call; so does a forbidden move of any member, banned or to be evolved as
\* it may be.
Resolve ==
    /\ pc = "resolve"
    /\ reads' = <<current>>
    /\ \/ Refuse
       \/ /\ \A i \in DOMAIN pool :
                Moves(pool[i]) \cap Restricted(current, pool[i].species) = {}
          /\ pc' = "default"
          /\ pool' = IF params.evolve
                     THEN [i \in DOMAIN pool |-> Evolved(current, pool[i])] ELSE pool
          /\ UNCHANGED <<filtered, found, teams, members>>
    /\ UNCHANGED <<current, params>>
-----------------------------------------------------------------------------
(* defaultPoolMovesets and buildTeamBuilderInputs                          *)

\* ResolveMoveset
HasDefault(s) == s \in DOMAIN Recommended

\* applyMovesetDefaults: an omitted fast move replaces the whole moveset.
Defaulted(m) ==
    IF m.fast # None THEN m
    ELSE [m EXCEPT !.fast = Recommended[m.species].fast,
                   !.charged = Recommended[m.species].charged]

\* Second read.  The rankings may be out of reach, but only a member without a
\* fast move asks for them.
Default ==
    /\ pc = "default"
    /\ reads' = Append(reads, current)
    /\ LET blank == {i \in DOMAIN pool : pool[i].fast = None}
       IN  \/ blank # {} /\ Refuse
           \/ /\ \A i \in blank :
                    /\ HasDefault(pool[i].species)
                    /\ Moves(Defaulted(pool[i])) \cap Restricted(current, pool[i].species) = {}
              /\ pc' = "build"
              /\ pool' = [i \in DOMAIN pool |-> Defaulted(pool[i])]
              /\ UNCHANGED <<filtered, found, teams, members>>
    /\ UNCHANGED <<current, params>>

\* Faulty variant: a ban on the form the client sent is lost on evolution.
FilteredBySpecies(p) == Without(p, {m \in ToSet(p) : m.species \in params.banned})

\* filterPool
Filtered(p) ==
    Without(p, {m \in ToSet(p) : m.species \in params.banned \/ m.from \in params.banned})

\* preparePool, resolveRequired and prepareMeta, on the document of the first
\* read; the rankings of the meta may be out of reach.
Build ==
    /\ pc = "build"
    /\ \/ Refuse
       \/ /\ Len(pool) <= MaxPoolSize
          /\ Len(Filtered(pool)) >= TeamSize
          /\ \A i \in DOMAIN Filtered(pool) : Filtered(pool)[i].species \in DOMAIN reads[1]
          /\ \A s \in params.required : \E i \in DOMAIN Filtered(pool) :
                Filtered(pool)[i].species = s
          /\ pc' = "validate"
          /\ filtered' = Filtered(pool)
          /\ UNCHANGED <<pool, found, teams, members>>
    /\ UNCHANGED <<current, params, reads>>

\* Third read: every member exists and fits the league.
Validate ==
    /\ pc = "validate"
    /\ reads' = Append(reads, current)
    /\ LET Fits(m) == m.species \in DOMAIN current /\ current[m.species].floor <= CPCap
       IN  \/ /\ \E i \in DOMAIN filtered : ~Fits(filtered[i])
              /\ Refuse
           \/ /\ \A i \in DOMAIN filtered : Fits(filtered[i])
              /\ pc' = "search"
              /\ UNCHANGED <<pool, filtered, found, teams, members>>
    /\ UNCHANGED <<current, params>>
-----------------------------------------------------------------------------
(* The search and finaliseTeams                                            *)

\* Increasing positions among n.
Triples(n) == {t \in (1..n) \X (1..n) \X (1..n) : t[1] < t[2] /\ t[2] < t[3]}

Species(t) == {filtered[t[k]].species : k \in 1..TeamSize}

\* TeamBuilderSweep: any scores, or none, for the triples that hold the required
\* species; or the context is done.
Search ==
    /\ pc = "search"
    /\ \/ Refuse
       \/ \E score \in [{t \in Triples(Len(filtered)) : params.required \subseteq Species(t)}
                        -> Scores \cup {None}] :
             /\ found' = {[rows |-> t, score |-> score[t]] :
                            t \in {u \in DOMAIN score : score[u] # None}}
             /\ pc' = "finish"
             /\ UNCHANGED <<pool, filtered, teams, members>>
    /\ UNCHANGED <<current, params, reads>>

\* The last document read prices the teams.
Total(price) == price[1] + price[2] + price[3]

Cost(t) == Total([k \in 1..TeamSize |-> reads[3][filtered[t[k]].species].dust])

\* countTeamEliteMoves
Elite(m) == reads[3][m.species].elite

EliteFast(t) ==
    Cardinality({k \in 1..TeamSize : filtered[t[k]].fast \in Elite(filtered[t[k]])})

\* A charged move listed twice counts twice.
EliteCharged(t) ==
    LET OfMember(m) == Cardinality({j \in DOMAIN m.charged : m.charged[j] \in Elite(m)})
    IN  Total([k \in 1..TeamSize |-> OfMember(filtered[t[k]])])

Gated == params.budget.limit > 0 \/ params.budget.fastTM > 0 \/ params.budget.chargedTM > 0

\* applyBudgetFilter: each limit applies when it is positive.  slack stands for
\* the whole stardust of the tolerance.
Affordable(t) ==
    LET b == params.budget
    IN  /\ b.chargedTM > 0 => EliteCharged(t) <= b.chargedTM
        /\ b.fastTM > 0 => EliteFast(t) <= b.fastTM
        /\ b.limit > 0 => Cost(t) <= b.limit + b.slack

\* The stable sort.  Teams of one score stay as they were found: by their rows or,
\* with all_pareto, as assembleFrontier has put them.  Here it is any order.
Rankings(f) ==
    {list \in SetToSeqs(f) : \A i, j \in DOMAIN list : i < j => list[i].score >= list[j].score}

Prefix(s) == SubSeq(s, 1, IF Len(s) < params.max THEN Len(s) ELSE params.max)

\* Faulty variant: the window is cut before the budget is applied.
WindowsTrimmedFirst(f) ==
    {Without(Prefix(list), {t \in f : ~Affordable(t.rows)}) : list \in Rankings(f)}

\* Sorted, then filtered, then trimmed.
Windows(f) == {Prefix(list) : list \in Rankings({t \in f : Affordable(t.rows)})}

\* newTeam, budget flags, and remapPoolIndicesToOriginal.
Answered(t) ==
    LET aggregate == IF Gated THEN Cost(t.rows) ELSE 0
        limit == params.budget.limit
    IN  [indices   |-> [k \in 1..TeamSize |-> filtered[t.rows[k]].index],
         members   |-> [k \in 1..TeamSize |-> filtered[t.rows[k]]],
         score     |-> t.score,
         aggregate |-> aggregate,
         exceeded  |-> limit > 0 /\ aggregate > limit]

\* classifyAutoEvolveAction
EvolveAction(m) ==
    IF m.from = None THEN "kept" ELSE IF m.skip = "" THEN "evolved" ELSE m.skip

Status(m, in) ==
    LET original == IF m.from = None THEN m.species ELSE m.from
    IN  [original |-> original, resolved |-> m.species, action |-> EvolveAction(m),
         banned |-> original \in params.banned \/ m.species \in params.banned,
         inTeam |-> in]

\* Faulty variant: the indices are remapped before the statuses are made.
StatusesAfterRemap(ts) ==
    LET rows == UNION {{filtered[ts[n].rows[k]].index : k \in 1..TeamSize} : n \in DOMAIN ts}
        in   == {filtered[r].index : r \in rows \cap DOMAIN filtered}
    IN  [i \in DOMAIN pool |-> Status(pool[i], i \in in)]

\* buildPoolMemberStatuses, while rows are still positions of filtered.
Statuses(ts) ==
    LET in == UNION {{filtered[ts[n].rows[k]].index : k \in 1..TeamSize} : n \in DOMAIN ts}
    IN  [i \in DOMAIN pool |-> Status(pool[i], i \in in)]

Finish ==
    /\ pc = "finish"
    /\ pc' = "done"
    /\ \E window \in Windows(found) :
          /\ teams' = [n \in DOMAIN window |-> Answered(window[n])]
          /\ members' = Statuses(window)
    /\ UNCHANGED <<current, params, reads, pool, filtered, found>>

Next ==
    \/ Resolve \/ Default \/ Build \/ Validate \/ Search \/ Finish
    \/ Refresh

Spec == Init /\ [][Next]_vars
-----------------------------------------------------------------------------
(* Properties                                                              *)

\* The indices of a returned team and the list of pool members speak of the
\* positions the client sent: the member there has the species the team shows
\* and is marked as playing, and no other is (team_builder.go:434-441, 446-524).
IndicesAgree ==
    pc = "done" =>
        /\ DOMAIN members = DOMAIN params.pool
        /\ \A i \in DOMAIN members : members[i].original = params.pool[i].species
        /\ \A n \in DOMAIN teams : \A k \in 1..TeamSize :
              /\ members[teams[n].indices[k]].resolved = teams[n].members[k].species
              /\ k > 1 => teams[n].indices[k - 1] < teams[n].indices[k]
        /\ \A i \in DOMAIN members :
              members[i].inTeam <=> \E n \in DOMAIN teams : i \in ToSet(teams[n].indices)

\* A ban holds for the species sent and for the species it evolved into, and the
\* members' list reports exactly the banned (team_builder.go:761-792, 486-497).
BanHonoured ==
    pc = "done" =>
        \A i \in DOMAIN members :
            /\ members[i].banned <=>
                  params.pool[i].species \in params.banned \/ pool[i].species \in params.banned
            /\ members[i].banned => ~members[i].inTeam

\* Unless a refresh comes between the reads, no member of a returned team plays
\* a move the client ruled out, whether the client, the rankings or an evolution
\* gave it the moveset (team_builder.go:604-616, legacy.go:188-342).
RestrictionsHold ==
    pc = "done" /\ reads[1] = reads[2] =>
        \A n \in DOMAIN teams : \A k \in 1..TeamSize :
            LET m == teams[n].members[k]
            IN  Moves(m) \cap Restricted(reads[1], m.species) = {}

\* A member ends where a walk from the form sent ends: each hop is the only one
\* there is and leads to a form that fits the cap, and from the last form there is
\* no such hop unless the limit of hops is reached.  A branch or a form over the cap
\* ahead does not undo the hops before it (team_builder_evolve.go:165-262, 280-309,
\* and not the comment at 204-208).
EvolvesAsFarAsFits ==
    pc = "default" /\ params.evolve =>
        LET doc == reads[1]
            Hop(s, t) == doc[s].evolutions = <<t>> /\ t \in DOMAIN doc /\ doc[t].floor <= CPCap
        IN  \A i \in DOMAIN pool : params.pool[i].species \in DOMAIN doc =>
                \E n \in 0..autoEvolveMaxDepth : \E c \in [0..n -> DOMAIN doc] :
                    /\ c[0] = params.pool[i].species /\ c[n] = pool[i].species
                    /\ \A j \in 1..n : Hop(c[j - 1], c[j])
                    /\ n < autoEvolveMaxDepth => ~\E t \in DOMAIN doc : Hop(c[n], t)

\* The answer is the best the budget allows: sorted, no team beyond the
\* tolerance, every flagged team above the limit and no other, and no affordable
\* team left out while a worse or none is returned (team_builder_budget.go:7-125,
\* team_builder.go:422-432).
BestAffordable ==
    pc = "done" =>
        LET afford == {t \in found : Affordable(t.rows)}
            In(t) == \E n \in DOMAIN teams :
                        teams[n].indices = [k \in 1..TeamSize |-> filtered[t.rows[k]].index]
            Paid(n) == LET m == teams[n].members IN
                reads[3][m[1].species].dust + reads[3][m[2].species].dust + reads[3][m[3].species].dust
        IN  /\ \A n \in DOMAIN teams :
                /\ n > 1 => teams[n - 1].score >= teams[n].score
                /\ params.budget.limit > 0 =>
                      /\ Paid(n) <= params.budget.limit + params.budget.slack
                      /\ teams[n].exceeded <=> Paid(n) > params.budget.limit
            /\ Len(teams) = IF Cardinality(afford) < params.max
                            THEN Cardinality(afford) ELSE params.max
            /\ \A t \in afford : ~In(t) => \A n \in DOMAIN teams : teams[n].score >= t.score

\* "the downstream cost-breakdown pass sees the same gamemaster pointer as
\* everything else in the request, not a second .Current() read"
\* (team_builder.go:553-557).
OneSnapshot == pc = "done" => Cardinality(ToSet(reads)) = 1
=============================================================================
