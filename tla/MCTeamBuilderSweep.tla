------------------------- MODULE MCTeamBuilderSweep -------------------------
(* Instances of TeamBuilderSweep for TLC. *)
EXTENDS TeamBuilderSweep

MCSpecies == <<"azumarill", "medicham", "azumarill", "registeel">>

MCRequired == {{}, {"azumarill", "registeel"}}

\* Engines: every battle alike, so that all triples tie; the later member the
\* stronger, but the weaker the more shields; two members that never complete a
\* battle in scenario 1; every battle lost outright, or not completed by one member, so
\* that a mean of zero stands beside none; no battle that completes.
MCSims ==
    LET Engine(f(_, _, _)) == [r \in Rows |-> [o \in Opps |-> [s \in Scenarios |-> f(r, o, s)]]]
    IN  {Engine(LAMBDA r, o, s : 500),
         Engine(LAMBDA r, o, s : IF s = 2 THEN 500 - r ELSE 500 + r * o),
         Engine(LAMBDA r, o, s : IF s = 1 /\ r \in {1, 4} THEN Failed ELSE 500 + r),
         Engine(LAMBDA r, o, s : IF r = 2 THEN Failed ELSE 0),
         Engine(LAMBDA r, o, s : Failed)}

MCRatings == {0} \cup 496..508
=============================================================================
