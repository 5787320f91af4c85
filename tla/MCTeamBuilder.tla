---------------------------- MODULE MCTeamBuilder ----------------------------
(* Instances of TeamBuilder for TLC. *)
EXTENDS TeamBuilder, TLC

Form(evolutions, floor, legacy, elite, dust) ==
    [evolutions |-> evolutions, floor |-> floor, legacy |-> legacy, elite |-> elite, dust |-> dust]

\* A line that branches after one hop, one whose last form is over the cap, and a
\* malformed one that never ends.
MCDoc ==
       "oddish"  :> Form(<<"gloom">>, 1, {}, {}, 1)
    @@ "gloom"   :> Form(<<"vileplume", "bellossom">>, 2, {"acid"}, {"sludge"}, 2)
    @@ "machop"  :> Form(<<"machoke">>, 1, {}, {}, 1)
    @@ "machoke" :> Form(<<"machamp">>, 2, {}, {"chop"}, 3)
    @@ "machamp" :> Form(<<>>, 9, {}, {}, 5)
    @@ "snorlax" :> Form(<<>>, 3, {"yawn"}, {}, 4)
    @@ "porygon"  :> Form(<<"porygon2">>, 1, {}, {}, 1)
    @@ "porygon2" :> Form(<<"porygonz">>, 2, {}, {}, 2)
    @@ "porygonz" :> Form(<<"porygon">>, 3, {}, {}, 3)

\* After a refresh a form is gone, another is over the cap, and moves and prices
\* have changed.
MCNewDoc ==
       "oddish"  :> Form(<<"gloom">>, 1, {"acid"}, {}, 1)
    @@ "machop"  :> Form(<<"machoke">>, 1, {}, {"chop"}, 2)
    @@ "machoke" :> Form(<<>>, 9, {}, {}, 3)
    @@ "snorlax" :> Form(<<>>, 3, {}, {"lick"}, 1)

MCDocs == {MCDoc, MCNewDoc}

Moveset(fast, charged) == [fast |-> fast, charged |-> charged]

MCRecommended ==
    "gloom" :> Moveset("leaf", <<"sludge">>) @@ "machop" :> Moveset("punch", <<"chop">>)
    @@ "machoke" :> Moveset("punch", <<"chop">>) @@ "snorlax" :> Moveset("lick", <<"slam">>)
    @@ "porygonz" :> Moveset("lick", <<"slam">>)

Member(species, fast, charged) == [species |-> species, fast |-> fast, charged |-> charged]

\* The last pool is one member too many.
MCPools ==
    LET gloom   == Member("gloom", "leaf", <<"sludge", "sludge">>)
        machop  == Member("machop", None, <<"slam">>)
        snorlax == Member("snorlax", "lick", <<"slam">>)
    IN  {<<Member("oddish", "acid", <<>>), machop, gloom, snorlax>>,
         <<Member("machop", "punch", <<>>), machop, Member("snorlax", "yawn", <<>>),
           Member("machoke", None, <<>>)>>,
         <<Member("porygon", "lick", <<>>), gloom, snorlax>>,
         <<gloom, gloom, gloom, snorlax, snorlax>>}

NoBudget == [limit |-> 0, slack |-> 0, fastTM |-> 0, chargedTM |-> 0]

MCBudgets ==
    {NoBudget, [NoBudget EXCEPT !.limit = 7, !.slack = 1],
     [NoBudget EXCEPT !.fastTM = 1, !.chargedTM = 1]}

MCCalls ==
    {[pool |-> p, banned |-> b, required |-> r, noLegacy |-> no[1], noElite |-> no[2],
      evolve |-> e, budget |-> g, max |-> n] :
        p \in MCPools, b \in {{}, {"oddish"}, {"machoke"}}, r \in {{}, {"snorlax"}},
        no \in {<<FALSE, FALSE>>, <<TRUE, FALSE>>, <<FALSE, TRUE>>}, e \in BOOLEAN,
        g \in MCBudgets, n \in {1, 5}}
=============================================================================
