------------------------------- MODULE MetaRoles -------------------------------
(***************************************************************************)
(* The role pvp_meta gives a species: internal/tools/meta.go.              *)
(***************************************************************************)
EXTENDS Integers, Sequences, SequencesExt

roleRankGapThreshold == 5
missingRank == 1048576

RoleNames == <<"lead", "switch", "closer">>

\* indexRole: ranks by species; a species listed twice keeps the later rank.
Index(entries) ==
    [id \in {entries[n].species : n \in DOMAIN entries} |->
        Max({n \in DOMAIN entries : entries[n].species = id})]

\* rankFromIndex
RankFrom(index, id) == IF id \in DOMAIN index THEN index[id] ELSE missingRank

\* Faulty variant: a third that beats only the runner-up goes unnoticed.
ContestOfTwo(ranks) ==
    LET first == IF ranks[2] < ranks[1] THEN <<2, 1>> ELSE <<1, 2>>
    IN  IF ranks[3] < ranks[first[1]] THEN <<3, first[1]>> ELSE first

\* The best of three ranks and the runner-up; the earlier one wins a tie.
Contest(ranks) ==
    LET first == IF ranks[2] < ranks[1] THEN <<2, 1>> ELSE <<1, 2>>
    IN  CASE ranks[3] < ranks[first[1]] -> <<3, first[1]>>
          [] ranks[first[1]] <= ranks[3] /\ ranks[3] < ranks[first[2]] -> <<first[1], 3>>
          [] OTHER -> first

\* classifyRole
ClassifyRole(id, indexes) ==
    LET ranks == [r \in 1 .. 3 |-> RankFrom(indexes[r], id)]
        top   == Contest(ranks)
    IN  IF \A r \in 1 .. 3 : ranks[r] = missingRank THEN ""
        ELSE IF ranks[top[2]] - ranks[top[1]] >= roleRankGapThreshold
             THEN RoleNames[top[1]] ELSE "flex"
=============================================================================
