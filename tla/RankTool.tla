------------------------------- MODULE RankTool -------------------------------
(***************************************************************************)
(* pvp_rank and pvp_rank_batch (internal/tools/rank.go, rank_batch.go).    *)
(*                                                                         *)
(* An entry reads the gamemaster pointer when it resolves the species,     *)
(* again for every alternative moveset and again for the list of cups, and *)
(* asks the rankings for each of them, so a refresh, a failed fetch or the *)
(* end of the context may fall between any two parts of one answer.  A     *)
(* batch runs the entries one after another and hoists the cups of the     *)
(* first that has any.                                                     *)
(*                                                                         *)
(* Of the arithmetic an entry is left what can fail it: a species has a    *)
(* floor, the CP at level 1 of each set of IVs, and it may be degenerate,  *)
(* with no stat product to compare with.                                   *)
(***************************************************************************)
EXTENDS ToolCall, Integers

CONSTANTS
    Requests,     \* calls: [batch, species, shadow, ivs, cap, cup]; a cap that does
                  \* not resolve is none
    Rating(_, _), \* average rating of a fast move and charged moves in the meta
    MetaTop       \* nonLegacyMetaTopN

openLeagueCupID == "all"

\* The moves some document lets some species learn.
Learned ==
    UNION {UNION {ToSet(d.pokemon[id].fast) \cup ToSet(d.pokemon[id].charged) :
                      id \in DOMAIN d.pokemon} : d \in Docs}

\* An alternative to a moveset, or why there is none; "by" is history: the
\* document it was scored with.
Alternatives ==
    [why : {"answered", "nomoves", "nometa", "unscored"}, fast : Learned \cup {None},
     charged : Seq(Learned), delta : Int, by : Docs \cup {None}]

\* Whatever some ranking says of a species.
Published == UNION {UNION {ToSet(list) : list \in Lists[cup]} : cup \in DOMAIN Lists}

\* Lists are lists, the cups of a document have a ranking that can be asked for,
\* a move or an alternative that is left out is none, and ratings are numbers.
ASSUME RankAssumption ==
    /\ openLeagueCupID \in DOMAIN Lists
    /\ \A cup \in DOMAIN Lists : \A list \in Lists[cup] : list \in Seq(ToSet(list))
    /\ \A entry \in Published :
          /\ entry.moveset \in Seq(ToSet(entry.moveset))
          /\ entry.moveset # <<>> => Rating(Head(entry.moveset), Tail(entry.moveset)) \in Int
    /\ \A d \in Docs :
          /\ d.cups \in Seq(DOMAIN Lists)
          /\ \A id \in DOMAIN d.pokemon :
                LET species == d.pokemon[id]
                IN  /\ species.fast \in Seq(ToSet(species.fast))
                    /\ species.charged \in Seq(ToSet(species.charged))
                    /\ None \notin species.legacy \cup species.elite
    /\ None \notin Learned /\ None \notin Alternatives
    /\ \A fast, one, two \in Learned :
          Rating(fast, <<one>>) \in Int /\ Rating(fast, <<one, two>>) \in Int
    /\ \A request \in Requests :
          request.batch \in BOOLEAN /\ request.ivs \in Seq(ToSet(request.ivs))

VARIABLES
    call,     \* the parameters
    pc,       \* what the handler does next
    k,        \* the entry it is at
    held,     \* rankInputs: the species as the first read of the entry found it
    result,   \* RankResult so far
    scan,     \* the enumeration of movesets that is under way
    cupIDs,   \* cups still to be looked up
    entries,  \* RankBatchEntry so far
    hoisted,  \* the batch's rankings_by_cup
    outcome   \* "running", "ok" or "error"

rankVars == <<call, pc, k, held, result, scan, cupIDs, entries, hoisted, outcome>>
vars == <<envVars, rankVars>>

NoResult == [optimal |-> None, legacy |-> None, elite |-> None, cups |-> <<>>]

Init ==
    /\ EnvInit
    /\ call \in Requests
    /\ pc = "validate" /\ k = 1 /\ outcome = "running"
    /\ held = None /\ result = NoResult /\ scan = None
    /\ cupIDs = <<>> /\ entries = <<>> /\ hoisted = <<>>

----------------------------------------------------------------------------
(* The moveset of an entry, with the flags of the species.                 *)

\* movesetFromEntry
MovesetFrom(species, entry) ==
    IF entry.moveset = <<>> THEN None
    ELSE [moves |-> entry.moveset,
          hasLegacy |-> ToSet(entry.moveset) \cap species.legacy # {},
          hasElite |-> ToSet(entry.moveset) \cap species.elite # {}]

\* averageMovesetRating: a moveset the document cannot resolve scores zero.
Score(doc, fast, charged) ==
    IF IsMove(doc, fast, "fast") /\ \A n \in DOMAIN charged : IsMove(doc, charged[n], "charged")
    THEN Rating(fast, charged) ELSE 0

\* Faulty variant: a tie goes to the later build.
BetterLater(doc, best, fast, charged) ==
    LET score == Score(doc, fast, charged)
    IN  IF best.fast = None \/ score >= best.score
        THEN [fast |-> fast, charged |-> charged, score |-> score] ELSE best

\* The running best: a tie goes to the earlier build.
Better(doc, best, fast, charged) ==
    LET score == Score(doc, fast, charged)
    IN  IF best.fast = None \/ score > best.score
        THEN [fast |-> fast, charged |-> charged, score |-> score] ELSE best

\* The i-th charged move on its own, then with each that follows it.
Pairs(doc, best, fast, chargeds, i) ==
    LET after[n \in 0 .. Len(chargeds) - i] ==
            IF n = 0 THEN Better(doc, best, fast, <<chargeds[i]>>)
            ELSE Better(doc, after[n - 1], fast, <<chargeds[i], chargeds[i + n]>>)
    IN  after[Len(chargeds) - i]

bestPerFast(doc, best, fast, chargeds) ==
    LET after[i \in 0 .. Len(chargeds)] ==
            IF i = 0 THEN best ELSE Pairs(doc, after[i - 1], fast, chargeds, i)
    IN  after[Len(chargeds)]

Banned(species, category) == IF category = "legacy" THEN species.legacy ELSE species.elite

----------------------------------------------------------------------------
(* The handler.                                                            *)

Quiet == UNCHANGED envVars

\* Faulty variant: the batch does not look the species up.
ValidateLoose ==
    /\ pc = "validate"
    /\ IF ~call.batch THEN pc' = "enter" /\ UNCHANGED outcome
       ELSE IF ctx = "done" \/ call.cap = None
            THEN pc' = "stop" /\ outcome' = "error" ELSE pc' = "next" /\ UNCHANGED outcome
    /\ Quiet /\ UNCHANGED <<call, k, held, result, scan, cupIDs, entries, hoisted>>

\* validateBatch: the cap is a positive override or that of the league, and no more
\* is asked of it.  pvp_rank has no such step.
Validate ==
    /\ pc = "validate"
    /\ IF ~call.batch THEN pc' = "enter" /\ UNCHANGED outcome
       ELSE IF ctx = "done" \/ ~Lookup(current, call.species, call.shadow).ok \/ call.cap = None
            THEN pc' = "stop" /\ outcome' = "error" ELSE pc' = "next" /\ UNCHANGED outcome
    /\ Quiet /\ UNCHANGED <<call, k, held, result, scan, cupIDs, entries, hoisted>>

\* The loop of the batch.
NextEntry ==
    /\ pc = "next"
    /\ \/ ctx = "done" /\ pc' = "stop" /\ outcome' = "error"
       \/ ctx = "live" /\ k > Len(call.ivs) /\ pc' = "stop" /\ outcome' = "ok"
       \/ ctx = "live" /\ k <= Len(call.ivs) /\ pc' = "enter" /\ UNCHANGED outcome
    /\ Quiet /\ UNCHANGED <<call, k, held, result, scan, cupIDs, entries, hoisted>>

\* runRankBatchEntry: an error of the single handler is a failed entry.
Fail ==
    /\ IF call.batch
       THEN /\ pc' = "next" /\ k' = k + 1 /\ UNCHANGED outcome
            /\ entries' = Append(entries, [ok |-> FALSE, result |-> NoResult, held |-> None])
       ELSE pc' = "stop" /\ outcome' = "error" /\ UNCHANGED <<k, entries>>
    /\ result' = NoResult /\ held' = None
    /\ UNCHANGED hoisted

\* buildRankResult: the IVs are IVs, some level brings them under the cap (so the
\* search among all IVs finds something too), and there is a product to compare with.
Rankable(species, iv) ==
    /\ iv \in DOMAIN species.floor
    /\ species.floor[iv] <= call.cap
    /\ ~species.degenerate

\* resolveRankInputs and buildRankResult.
Enter ==
    /\ pc = "enter"
    /\ LET found == Lookup(current, call.species, call.shadow)
       IN  IF \/ ctx = "done" \/ ~found.ok \/ call.cap = None
              \/ ~Rankable(current.pokemon[found.id], call.ivs[k])
           THEN Fail
           ELSE /\ held' = [id |-> found.id, species |-> current.pokemon[found.id]]
                /\ pc' = "optimal"
                /\ UNCHANGED <<k, result, entries, hoisted, outcome>>
    /\ Quiet /\ UNCHANGED <<call, scan, cupIDs>>

\* lookupMoveset
Optimal ==
    /\ pc = "optimal"
    /\ \E answer \in {Failed, Unknown} \cup {Known(l) : l \in Lists[openLeagueCupID]} :
          LET at == EntryIndex(answer.entries, held.id)
          IN  /\ Ask(openLeagueCupID, answer)
              /\ result' = [result EXCEPT !.optimal =
                               IF at = 0 THEN None
                               ELSE MovesetFrom(held.species, answer.entries[at])]
    /\ pc' = "legacy"
    /\ UNCHANGED <<call, k, held, scan, cupIDs, entries, hoisted, outcome>>

AfterCategory(category) == IF category = "legacy" THEN "elite" ELSE "cups"

Why(reason) == [why |-> reason, fast |-> None, charged |-> <<>>, delta |-> 0, by |-> None]

Conclude(category, alternative) ==
    /\ result' = [result EXCEPT ![category] = alternative]
    /\ pc' = AfterCategory(category)
    /\ scan' = None

\* nonRestrictedAlternative up to the enumeration, for one category.
Alternative(category) ==
    LET optimal  == result.optimal
        flagged  == optimal # None /\ (IF category = "legacy" THEN optimal.hasLegacy ELSE optimal.hasElite)
        fasts    == Without(held.species.fast, Banned(held.species, category))
        chargeds == Without(held.species.charged, Banned(held.species, category))
    IN
    /\ pc = category
    /\ \/ ~flagged /\ Quiet /\ Conclude(category, None)
       \/ /\ flagged /\ (fasts = <<>> \/ chargeds = <<>>)
          /\ Quiet /\ Conclude(category, Why("nomoves"))
       \/ /\ flagged /\ fasts # <<>> /\ chargeds # <<>>
          /\ \E answer \in {Failed, Unknown} \cup {Known(l) : l \in Lists[openLeagueCupID]} :
                /\ Ask(openLeagueCupID, answer)
                /\ IF Kept(current, TopOf(answer.entries, MetaTop)) = <<>>
                   THEN Conclude(category, Why("nometa"))
                   ELSE /\ scan' = [category |-> category, doc |-> current,
                                    fasts |-> fasts, chargeds |-> chargeds, tried |-> 0,
                                    base |-> Score(current, Head(optimal.moves), Tail(optimal.moves)),
                                    best |-> [fast |-> None, charged |-> <<>>, score |-> 0]]
                        /\ pc' = "scan" /\ UNCHANGED result
    /\ UNCHANGED <<call, k, held, cupIDs, entries, hoisted, outcome>>

\* enumerateNonLegacyMovesets, one fast move at a time.
Scan ==
    /\ pc = "scan"
    /\ \/ /\ ctx = "live" /\ scan.tried < Len(scan.fasts)
          /\ scan' = [scan EXCEPT
                !.tried = @ + 1,
                !.best = bestPerFast(scan.doc, @, scan.fasts[scan.tried + 1], scan.chargeds)]
          /\ UNCHANGED <<pc, result>>
       \/ /\ ctx = "done" \/ scan.tried = Len(scan.fasts)
          /\ Conclude(scan.category,
                IF scan.best.fast = None THEN Why("unscored")
                ELSE [why |-> "answered", fast |-> scan.best.fast, charged |-> scan.best.charged,
                      delta |-> scan.best.score - scan.base, by |-> scan.doc])
    /\ Quiet /\ UNCHANGED <<call, k, held, cupIDs, entries, hoisted, outcome>>

\* cupIDsForLookup; the empty id of the open league is spelt as its cache key.
CupIDs(doc, filter) ==
    IF filter = openLeagueCupID THEN <<openLeagueCupID>>
    ELSE IF filter # None THEN (IF filter \in ToSet(doc.cups) THEN <<filter>> ELSE <<>>)
    ELSE <<openLeagueCupID>> \o Without(doc.cups, {openLeagueCupID})

\* buildRankingsByCup reads the cups; a batch passes no filter on.
Cups ==
    /\ pc = "cups"
    /\ cupIDs' = CupIDs(current, IF call.batch THEN None ELSE call.cup)
    /\ pc' = "cup"
    /\ Quiet /\ UNCHANGED <<call, k, held, result, scan, entries, hoisted, outcome>>

\* lookupCupRanking
CupRanking(cup, list) ==
    LET at == EntryIndex(list, held.id)
    IN  [cup |-> cup, rank |-> at, moveset |-> MovesetFrom(held.species, list[at])]

Cup ==
    /\ pc = "cup"
    /\ \/ /\ ctx = "done" \/ cupIDs = <<>>
          /\ pc' = "check" /\ cupIDs' = <<>>
          /\ Quiet /\ UNCHANGED result
       \/ /\ ctx = "live" /\ cupIDs # <<>>
          /\ \E answer \in {Failed, Unknown} \cup {Known(l) : l \in Lists[Head(cupIDs)]} :
                /\ Ask(Head(cupIDs), answer)
                /\ result' = IF EntryIndex(answer.entries, held.id) = 0 THEN result
                             ELSE [result EXCEPT !.cups =
                                      Append(@, CupRanking(Head(cupIDs), answer.entries))]
          /\ cupIDs' = Tail(cupIDs)
          /\ UNCHANGED pc
    /\ UNCHANGED <<call, k, held, scan, entries, hoisted, outcome>>

\* Faulty variant: the batch keeps the cups of the last entry.
SucceedKeepsLast ==
    /\ entries' = Append(entries, [ok |-> TRUE, result |-> result, held |-> held])
    /\ hoisted' = result.cups
    /\ IF call.batch THEN pc' = "next" /\ k' = k + 1 /\ UNCHANGED outcome
       ELSE pc' = "stop" /\ outcome' = "ok" /\ UNCHANGED k
    /\ result' = NoResult /\ held' = None

\* The entry succeeds; the batch keeps the first cups it sees and strips them
\* from the entry.  Here the entry keeps them, and its species, as history.
Succeed ==
    /\ entries' = Append(entries, [ok |-> TRUE, result |-> result, held |-> held])
    /\ hoisted' = IF call.batch /\ hoisted = <<>> THEN result.cups ELSE hoisted
    /\ IF call.batch THEN pc' = "next" /\ k' = k + 1 /\ UNCHANGED outcome
       ELSE pc' = "stop" /\ outcome' = "ok" /\ UNCHANGED k
    /\ result' = NoResult /\ held' = None

\* The last look at the context.
Check ==
    /\ pc = "check"
    /\ IF ctx = "done" THEN Fail ELSE Succeed
    /\ Quiet /\ UNCHANGED <<call, scan, cupIDs>>

Around == (Refresh \/ Cancel) /\ pc # "stop" /\ UNCHANGED rankVars

Next ==
    \/ Validate \/ NextEntry \/ Enter \/ Optimal
    \/ \E category \in {"legacy", "elite"} : Alternative(category)
    \/ Scan \/ Cups \/ Cup \/ Check \/ Around

Spec == Init /\ [][Next]_vars

----------------------------------------------------------------------------
(* Properties                                                              *)

Good == {n \in DOMAIN entries : entries[n].ok}

\* Every unrestricted build of a species: the place of its fast move, and of its
\* charged moves, equal if it has only one.
AllBuilds(fasts, chargeds) ==
    {b \in (DOMAIN fasts) \X (DOMAIN chargeds) \X (DOMAIN chargeds) : b[2] <= b[3]}

ChargedOf(chargeds, b) ==
    IF b[2] = b[3] THEN <<chargeds[b[2]]>> ELSE <<chargeds[b[2]], chargeds[b[3]]>>

\* The order in which the loops of the code come to them.
Sooner(b, c) ==
    \/ b[1] < c[1]
    \/ b[1] = c[1] /\ (b[2] < c[2] \/ (b[2] = c[2] /\ b[3] < c[3]))

\* A choice among some builds is the best of them by a document, and the first of those.
FirstBest(doc, fasts, chargeds, builds, choice) ==
    LET mark(b) == Score(doc, fasts[b[1]], ChargedOf(chargeds, b))
    IN  \E b \in builds :
          /\ choice.fast = fasts[b[1]] /\ choice.charged = ChargedOf(chargeds, b)
          /\ choice.score = mark(b)
          /\ \A c \in builds : mark(c) <= mark(b) /\ (Sooner(c, b) => mark(c) < mark(b))

\* The alternative is the best of all builds by the document it was scored with.
BestOf(alternative, optimal, species, category) ==
    LET doc      == alternative.by
        fasts    == Without(species.fast, Banned(species, category))
        chargeds == Without(species.charged, Banned(species, category))
        base     == Score(doc, Head(optimal.moves), Tail(optimal.moves))
    IN  FirstBest(doc, fasts, chargeds, AllBuilds(fasts, chargeds),
                  [fast |-> alternative.fast, charged |-> alternative.charged,
                   score |-> alternative.delta + base])

\* An alternative that is answered was chosen over every build, the first of the
\* best, and is compared with the recommended moveset on the same terms: the
\* enumeration stops early when the context ends, and the partial best must not
\* get out.
CompleteAlternative ==
    \A n \in Good, category \in {"legacy", "elite"} :
       LET optimal     == entries[n].result.optimal
           alternative == entries[n].result[category]
       IN  alternative # None =>
             /\ alternative.why # "unscored"
             /\ alternative.why = "answered" =>
                  BestOf(alternative, optimal, entries[n].held.species, category)

\* There is an alternative exactly when the recommended moveset has a move of
\* the category, and no alternative has one, whatever document came in since.
UnrestrictedAlternative ==
    \A n \in Good, category \in {"legacy", "elite"} :
       LET optimal     == entries[n].result.optimal
           alternative == entries[n].result[category]
           banned      == Banned(entries[n].held.species, category)
       IN  /\ alternative # None <=> optimal # None /\ ToSet(optimal.moves) \cap banned # {}
           /\ alternative # None =>
                ({alternative.fast} \cup ToSet(alternative.charged)) \cap banned = {}

\* The alternatives of an answer: allowed, and the best of all that are.
AlternativesSound == CompleteAlternative /\ UnrestrictedAlternative

\* The recommended moveset and the open league's line in the list of cups come
\* from two fetches of one ranking: if the first succeeded, the list has the
\* line (unless a filter asked for another cup) and both tell the same.
OpenCupAgrees ==
    \A n \in Good :
       LET r == entries[n].result
       IN  /\ r.optimal # None /\ (call.batch \/ call.cup \in {None, openLeagueCupID}) =>
                 \E line \in ToSet(r.cups) : line.cup = openLeagueCupID
           /\ \A line \in ToSet(r.cups) :
                 line.cup = openLeagueCupID /\ r.optimal # None => line.moveset = r.optimal

EmptyBefore(n) == \A m \in Good : m < n => entries[m].result.cups = <<>>

\* What the batch hoists from one entry speaks for every later one: absent a
\* refresh, each of its lines is in their lists too, word for word.
HoistSound ==
    call.batch /\ refreshed = "no" =>
       \A n \in Good :
          LET lines == entries[n].result.cups
          IN  ToSet(hoisted) \subseteq ToSet(lines) \/ (lines = <<>> /\ EmptyBefore(n))

\* Lists of cups that were fetched apart tell the same.
CupsAgree == OpenCupAgrees /\ HoistSound

\* What fails a batch as a whole has refused it before its first entry: absent a
\* refresh, an entry never meets an unknown species or a cap that does not resolve.
\* It fails if its IVs are none, do not get under the cap or have no product to be
\* compared with, or the context has ended, and it succeeds only if they are and do.
\* (The comment at rank_batch.go:116-123 says more than the code keeps: under a cap
\* below every spread all entries fail, each with the same error.)
BatchFailures ==
    call.batch /\ refreshed = "no" =>
       \A n \in DOMAIN entries :
          LET found == Lookup(current, call.species, call.shadow)
              fits  == Rankable(current.pokemon[found.id], call.ivs[n])
          IN  /\ found.ok /\ call.cap # None
              /\ entries[n].ok => fits
              /\ ~entries[n].ok => ~fits \/ ctx = "done"
=============================================================================
