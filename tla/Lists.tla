-------------------------------- MODULE Lists --------------------------------
(***************************************************************************)
(* The filter loops and the sorts of internal/tools, as functions whose    *)
(* meaning is in their definition.                                         *)
(***************************************************************************)
EXTENDS Naturals, Sequences, FiniteSets

\* filterMovesByCategory, filterPool and their like: a list without some of its
\* elements, in its order.
Without(list, left) ==
    LET kept[n \in 0 .. Len(list)] ==
            IF n = 0 THEN <<>>
            ELSE IF list[n] \in left THEN kept[n - 1] ELSE Append(kept[n - 1], list[n])
    IN  kept[Len(list)]

\* sort.SliceStable and the order of nested loops: the elements of a set, each at the
\* place that leaves room for those before it.
OrderedBy(S, before) ==
    [n \in 1 .. Cardinality(S) |->
        CHOOSE a \in S : Cardinality({b \in S : <<b, a>> \in before}) = n - 1]
=============================================================================
