-------------------------- MODULE MCRankingsManager --------------------------
(* Instances of RankingsManager for TLC. *)
EXTENDS RankingsManager, TLC

CONSTANTS p1, p2, c1, c2, c3, v1, v2

\* Two callers of one process compete for the mutex; the third belongs to a
\* second process that shares only the files.
MCHome == c1 :> p1 @@ c2 :> p1 @@ c3 :> p2

MCHomeOne == c1 :> p1 @@ c2 :> p1

Req(cap, cup, role) == [cap |-> cap, cup |-> cup, role |-> role]

\* Two spellings of the open league, and two requests that are refused.
MCOneKey == {Req(1500, "", ""), Req(1500, "all", "overall"),
             Req(1000, "all", ""), Req(1500, "../x", "")}

MCTwoKeys == {Req(1500, "", ""), Req(1500, "spring", "leads")}

MCUnsafe == {"../x"}

\* Callers of one process, and payloads, are interchangeable.
MCSymmetry == Permutations({c1, c2}) \cup Permutations({v1, v2})
=============================================================================
