------------------------------ MODULE MCRankTool ------------------------------
(* One species with its shadow form, two fast and three charged moves; two     *)
(* documents that disagree on which moves are legacy, on a move and on cups.   *)
EXTENDS RankTool

A == <<"a", "">>
B == <<"b", "">>
ADark == <<"a", shadowSuffix>>
Z == <<"z", "">>

Form(legacy, elite) ==
    [fast |-> <<"f1", "f2">>, charged |-> <<"c1", "c2", "c3">>, legacy |-> legacy, elite |-> elite,
     floor |-> [lean |-> 10, rich |-> 12], degenerate |-> FALSE]

MCMoves == [f1 |-> "fast", f2 |-> "fast", c1 |-> "charged", c2 |-> "charged", c3 |-> "charged"]

Old == [pokemon |-> (A :> Form({"c1"}, {"f1"}) @@ ADark :> Form({"c1", "c2", "c3"}, {})
                     @@ Z :> [Form({}, {}) EXCEPT !.degenerate = TRUE]),
        moves |-> MCMoves, cups |-> <<"spring">>]

\* The base form loses its elite move and gets stronger, the shadow form is gone, c2
\* has become unknown.
New == [pokemon |-> (A :> [Form({"c1"}, {}) EXCEPT !.floor.lean = 12] @@ B :> Form({}, {})),
        moves |-> [x \in DOMAIN MCMoves \ {"c2"} |-> MCMoves[x]], cups |-> <<"all", "autumn", "spring">>]

Entry(id, moveset) == [species |-> id, moveset |-> moveset]

MCDocs == {Old, New}

MCLists ==
    [all |-> {<<Entry(A, <<"f1", "c1", "c2">>), Entry(ADark, <<"f2", "c3">>)>>,
              <<Entry(B, <<"f1", "c2">>), Entry(A, <<"f2", "c1">>)>>},
     spring |-> {<<Entry(A, <<"f2", "c2">>)>>},
     autumn |-> {<<Entry(B, <<>>), Entry(A, <<>>)>>}]

\* Ties are on purpose: f2 with c2 and f2 with c3 are worth the same.
MCRating(fast, charged) ==
    (IF fast = "f1" THEN 1 ELSE 2) + (IF Len(charged) = 2 THEN 1 ELSE 0)
    + (IF "c1" \in ToSet(charged) THEN 2 ELSE 0)

Single(species, shadow, ivs, cap, cup) ==
    [batch |-> FALSE, species |-> species, shadow |-> shadow, ivs |-> ivs, cap |-> cap, cup |-> cup]
Batch(species, shadow, ivs, cap) ==
    [batch |-> TRUE, species |-> species, shadow |-> shadow, ivs |-> ivs, cap |-> cap, cup |-> None]

\* Under a cap of 11 only lean IVs fit, and after a refresh none; under 5 none ever do.
MCRequests ==
    {Single(A, FALSE, <<"lean">>, 500, c) : c \in {None, "all", "autumn", "winter"}}
    \cup {Single(ADark, TRUE, <<"lean">>, 500, None), Single(B, FALSE, <<"rich">>, 11, None)}
    \cup {Batch(A, FALSE, <<"lean", "bad", "lean">>, 500), Batch(A, TRUE, <<"lean", "lean">>, 500),
          Batch(A, FALSE, <<"rich", "lean">>, 11), Batch(A, FALSE, <<"lean", "rich">>, 5),
          Batch(A, FALSE, <<"lean">>, None), Batch(B, FALSE, <<"lean">>, 500),
          Batch(Z, FALSE, <<"lean">>, 500)}
===============================================================================
