---------------------------- MODULE MCCalculations ----------------------------
(* The real level grid and leagues, IVs of 0 to 2 worth ten points each, and  *)
(* an engine whose CP has a floor of 10 and plateaus at low levels.           *)
EXTENDS Calculations

Big(a, b) == IF a > b THEN a ELSE b

MCCP(s, iv, l) ==
    Big(10, ((s.atk + 10 * iv[1]) * (s.bulk + 10 * (iv[2] + iv[3])) * l) \div 1000)

MCProduct(s, iv, l) ==
    LET bulk == s.bulk + 10 * (iv[2] + iv[3])
    IN  ((s.atk + 10 * iv[1]) * ((bulk * bulk) \div 100) * l) \div 1000

MCLeagueCP == [little |-> 500, great |-> 1500, ultra |-> 2500, master |-> 10000]

MCIVFloor == [wild |-> 0, boosted |-> 1, gift |-> 1]

A == <<"a", "">>
B == <<"b", "">>
C == <<"c", "">>
D == <<"d", "">>
X == <<"x", "">>   \* in no document
ADark == <<"a", shadowSuffix>>

Stats(atk, bulk) == [atk |-> atk, bulk |-> bulk]

Plain(stats, pre, evolutions) ==
    [stats |-> stats, pre |-> pre, evolutions |-> evolutions,
     legacy |-> {"m1"}, elite |-> {}, thirdMove |-> 10000, buddy |-> 3]

Weak == Stats(20, 30)
Fair == Stats(180, 150)
Strong == Stats(700, 400)  \* over 500 CP at level 1

\* A weak line of three forms; d is too strong for the little league.
Line ==
    [pokemon |-> (A :> [Plain(Weak, None, <<B>>) EXCEPT !.buddy = 1]
                  @@ B :> Plain(Stats(90, 110), A, <<C, D>>)
                  @@ C :> [Plain(Fair, B, <<>>) EXCEPT !.thirdMove = 75000, !.buddy = 20]
                  @@ D :> [Plain(Strong, B, <<>>) EXCEPT !.thirdMove = 0, !.buddy = 7]
                  @@ ADark :> [Plain(Weak, None, <<>>) EXCEPT !.thirdMove = 12500, !.buddy = 5])]

Options == SUBSET {"shadow", "purified", "lucky"}
Quarters == {0, 2, 3, 4, 5, 6, 8, 12, 14, 154, 156, 158, 160, 161, 162, 164, 196, 198, 200, 202}
Low == <<0, 0, 0>>
BadIV == <<3, 0, 0>>

PowerupCalls == [kind : {"powerup"}, from : Quarters, to : Quarters, options : Options]
SecondMoveCalls ==
    [kind : {"second_move"}, species : {A, B, C, D, X}, shadow : BOOLEAN, options : Options]
MemberCalls ==
    [kind : {"member"}, species : {A, C, D}, shadow : {FALSE}, options : {{}, {"shadow", "lucky"}},
     iv : {Low, HundoIV}, level : {4, 6, 159, 160, 200, 202},
     explicit : {0, 3, 6, 160, 200, 202}, league : DOMAIN MCLeagueCP]
LevelCalls ==
    [kind : {"level_from_cp"}, species : {A, C, D, X}, shadow : {FALSE},
     iv : {Low, <<2, 0, 1>>, BadIV}, cp : {5, 10, 11, 57, 500, 1500, 2500, 9999}, xl : BOOLEAN]
LimitCalls == [kind : {"cp_limits"}, species : {A, C, D}, shadow : BOOLEAN, iv : IVs, xl : BOOLEAN]
EncounterCalls ==
    [kind : {"encounters"}, species : {A, ADark, C, D, X}, shadow : {FALSE},
     query : {None, "raid", "wild_boosted", "trade"}]
RankCalls ==
    [kind : {"rank"}, species : {A, B, C, D}, shadow : {FALSE}, xl : BOOLEAN,
     iv : {Low, <<0, 2, 2>>, <<1, 2, 0>>, HundoIV, BadIV},
     league : {"little", "great", "master", "copper"}, override : {-1, 0, 5, 600, 10000}]
PreviewCalls ==
    [kind : {"preview"}, species : {A, B, X}, shadow : BOOLEAN, iv : {Low, BadIV},
     cp : {5, 10, 200}, xl : BOOLEAN]
TargetCalls ==
    [kind : {"target"}, species : {A, B, C, D, X}, shadow : {FALSE}, xl : BOOLEAN,
     league : {"little", "great", "master", "copper"}, threshold : {-1, 0, 40, 99, 100, 101}]
MetaCalls == [kind : {"meta"}, topN : {-1, 0, 1, 5}, league : {"great", "copper"}]

\* Diamonds, cycles, repeated ids and an id no document has.
Futures == {<<>>, <<B>>, <<C, B>>, <<B, B, C>>, <<X, C>>, <<D, A>>, <<D>>}
Graphs ==
    {[pokemon |-> [id \in {A, B, C, D} |-> Plain(Stats(80 + 40 * Len(f[id]), 110), None, f[id])]] :
        f \in [{A, B, C, D} -> Futures]}

\* Every way to name what comes before three forms, cycles included.
Ancestries ==
    {[pokemon |-> [id \in {A, B, C} |->
         Plain(CASE id = C -> Fair [] id = B -> Stats(60, 140) [] id = A -> Weak, f[id], <<>>)]] :
        f \in [{A, B, C} -> {None, A, B, C, X}]}

Place(id) == [species |-> id, moveset |-> <<"m0", "m1">>]
\* A ranking of twelve places with a and b at two of them.
Ranked(a, b) == [n \in 1 .. 12 |-> Place(CASE n = a -> A [] n = b -> B [] OTHER -> C)]

MCLists ==
    [overall |-> {<<Place(A), Place(B), Place(D)>>, <<>>},
     leads |-> {Ranked(1, 7), Ranked(2, 11), Ranked(6, 0)},
     switches |-> {Ranked(3, 6), Ranked(7, 2), Ranked(0, 12)},
     closers |-> {Ranked(1, 6), Ranked(12, 1), <<Place(B), Place(A), Place(B)>>}]

\* Documents that differ in numbers, in types, in moves, in any one field of a move, and in
\* mere names and order.
Sheet(stats, types, fast, charged) ==
    [stats |-> stats, types |-> types, fast |-> fast, charged |-> charged]
Sheets ==
    {Sheet(1, t, f, <<"c1", "c2">>) :
        t \in {<<"ice">>, <<"ice", "fire">>, <<"fire", "ice">>}, f \in {<<"f1">>, <<"f1", "f2">>}}
    \cup {Sheet(1, <<"ice">>, <<"f2", "f1">>, <<"c2", "c1">>), Sheet(2, <<"ice">>, <<"f1">>, <<"c1">>)}
Bite == [type |-> "dark", power |-> 4, energy |-> 0, energyGain |-> 2,
         cooldown |-> 500, turns |-> 1, name |-> "Bite"]
Bites ==
    {Bite, [Bite EXCEPT !.type = "fairy"], [Bite EXCEPT !.power = 5], [Bite EXCEPT !.energy = 35],
     [Bite EXCEPT !.energyGain = 3], [Bite EXCEPT !.cooldown = 1000], [Bite EXCEPT !.turns = 2],
     [Bite EXCEPT !.name = "Nip"]}
Documents ==
    {[pokemon |-> p, moves |-> m] :
        p \in {<<>>, B :> Sheet(1, <<"ice">>, <<"f1">>, <<"c1">>)} \cup {A :> s : s \in Sheets},
        m \in {<<>>} \cup {"f1" :> b : b \in Bites}}
Sides == {[status |-> s, doc |-> NoDocument] : s \in {"missing", "broken"}}
         \cup {[status |-> "ok", doc |-> d] : d \in Documents}

OnLine(calls) == [docs |-> {Line}, calls |-> calls]

MCScenarios ==
    <<OnLine(PowerupCalls), OnLine(SecondMoveCalls), OnLine(MemberCalls), OnLine(LevelCalls),
      OnLine(LimitCalls), OnLine(EncounterCalls), OnLine(RankCalls),
      OnLine(PreviewCalls), OnLine(TargetCalls),
      OnLine(MetaCalls), OnLine([kind : {"diff"}, local : Sides, remote : Sides]),
      [docs |-> Graphs,
       calls |-> [kind : {"preview"}, species : {A}, shadow : {FALSE}, iv : {<<1, 0, 2>>},
                  cp : {300}, xl : {FALSE}]],
      [docs |-> Ancestries,
       calls |-> [kind : {"target"}, species : {C}, shadow : {FALSE}, league : {"great"},
                  threshold : {0, 100}, xl : {FALSE}]]>>
===============================================================================
