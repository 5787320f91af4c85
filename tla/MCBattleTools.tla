---------------------------- MODULE MCBattleTools ----------------------------
(* Three species, one with a shadow form; two documents that disagree on the   *)
(* shadow form and on a move; two rankings, one with an entry neither document *)
(* knows and one that recommends nothing for a species.                        *)
EXTENDS BattleTools

A == <<"a", "">>
B == <<"b", "">>
C == <<"c", "">>
ADark == <<"a", shadowSuffix>>
Ghost == <<"ghost", "">>

Form(legacy, elite) == [legacy |-> legacy, elite |-> elite]

MCMoves == [f1 |-> "fast", f2 |-> "fast", c1 |-> "charged", c2 |-> "charged", c3 |-> "charged"]

Old == [pokemon |-> (A :> Form({}, {"c1"}) @@ ADark :> Form({"c3"}, {}) @@ B :> Form({"c2"}, {}) @@ C :> Form({}, {})),
        moves |-> MCMoves]
New == [pokemon |-> (A :> Form({}, {}) @@ B :> Form({}, {}) @@ C :> Form({}, {})),
        moves |-> [x \in DOMAIN MCMoves \ {"c2"} |-> MCMoves[x]]]

Entry(id, moveset) == [species |-> id, moveset |-> moveset]

MCDocs == {Old, New}
MCLists == [all |-> {<<Entry(A, <<"f1", "c1">>), Entry(Ghost, <<"f1", "c1">>), Entry(C, <<"f1", "c3">>),
                       Entry(ADark, <<"f2", "c3">>), Entry(B, <<"f2", "c2", "c1">>)>>,
                     <<Entry(C, <<"f2", "c1">>), Entry(A, <<"f1", "c3">>), Entry(B, <<>>)>>}]

\* How hard a fighter hits, its shields aside; c3 against b cannot be simulated
\* without shields, and nothing can against c with f1 and c3.
Power(fighter) ==
    (IF fighter.resolved[1] = "a" THEN 3 ELSE IF fighter.resolved[1] = "b" THEN 2 ELSE 1)
    + (IF fighter.dark THEN 2 ELSE 0) + (IF "c1" \in ToSet(fighter.charged) THEN 1 ELSE 0)

MCRating(attacker, defender, shields) ==
    IF \/ shields = 0 /\ "c3" \in ToSet(attacker.charged) /\ defender.resolved = B
       \/ defender.resolved = C /\ defender.fast = "f1" /\ "c3" \in ToSet(defender.charged)
    THEN None
    ELSE 500 + (IF shields = 0 THEN 80 ELSE 60) * (Power(attacker) - Power(defender)) - (IF shields = 0 THEN 60 ELSE 0)

Spec_(id, shadow, fast, charged) ==
    [species |-> id, shadow |-> shadow, fast |-> fast, charged |-> charged, valid |-> TRUE]
Auto(id) == Spec_(id, FALSE, None, <<>>)
AutoDark(id) == Spec_(id, TRUE, None, <<>>)

Call(tool, team, pool, noLegacy, noElite, limit) ==
    [tool |-> tool, team |-> team, pool |-> pool, noLegacy |-> noLegacy, noElite |-> noElite,
     scenarios |-> IF tool = "matchup" THEN <<1>> ELSE <<0, 1>>, top |-> 4, limit |-> limit]

\* Fighters the client may name: sent or left out, flagged or spelt as a shadow,
\* restricted or not, one with a move in the wrong slot.
Weak == <<Spec_(B, FALSE, "f2", <<"c2">>), Spec_(C, FALSE, "f1", <<>>)>>
Members ==
    {Auto(A), AutoDark(A), AutoDark(ADark), Auto(C), Spec_(A, TRUE, "f2", <<"c3">>),
     Spec_(B, FALSE, "f2", <<"c2">>), Spec_(C, FALSE, "c1", <<>>)}
Teams == {<<x, y>> : x \in Members, y \in Members} \cup {Weak}
Pools == {<<>>, <<Auto(C), Spec_(A, FALSE, "f1", <<"c3">>), AutoDark(A)>>,
          <<Auto(A), Spec_(A, TRUE, "f2", <<"c3">>)>>}

MCRequests ==
    {Call("matchup", t, <<>>, FALSE, FALSE, 0) : t \in Teams}
    \cup {Call("team_analysis", t, <<>>, legacy, elite, 0) :
             t \in Teams \cup {<<Auto(A)>>}, legacy \in BOOLEAN, elite \in BOOLEAN}
    \cup {Call("threat_coverage", t, p, legacy, FALSE, 0) :
             t \in {Weak, <<Auto(A), Auto(C)>>}, p \in Pools, legacy \in BOOLEAN}
    \cup {Call("counter_finder", <<t>>, p, legacy, elite, n) :
             t \in Members, p \in Pools, legacy \in BOOLEAN, elite \in BOOLEAN, n \in 1 .. 2}
===============================================================================
