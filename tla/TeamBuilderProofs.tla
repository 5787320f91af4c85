--------------------------- MODULE TeamBuilderProofs ---------------------------
(***************************************************************************)
(* Proofs about TeamBuilder.                                               *)
(*                                                                         *)
(* The inductive invariant, IInv, follows the pool of one call.  Whatever  *)
(* becomes of a member, it stays at its index and can be traced to the     *)
(* species the client sent (PoolKept); the filter keeps the order of what  *)
(* it keeps (WithoutInOrder), so positions of the filtered pool map to     *)
(* increasing positions of the client's (FilteredOfPool).  Moves are       *)
(* checked on the document of the read that fills them in (Unforbidden).   *)
(*                                                                         *)
(* The rest is about the operators: the walk of autoEvolvePool ends where  *)
(* no hop is left or the limit of hops is reached (TerminalIsLast), on any *)
(* line and in any cycle; and the sorted list of finaliseTeams has every   *)
(* team (RanksAll).                                                        *)
(***************************************************************************)
EXTENDS TeamBuilder, FiniteSetTheorems, SequenceTheorems, TLAPS
-----------------------------------------------------------------------------
(* Lists                                                                   *)

\* The order of the naturals, as the well-founded relation that induction needs.
Below == {pair \in Nat \X Nat : pair[1] < pair[2]}

\* Induction over the naturals, for a set of them.
LEMMA Induction ==
    ASSUME NEW S \in SUBSET Nat, 0 \in S, \A n \in S : n + 1 \in S
    PROVE  S = Nat
<1> SUFFICES ASSUME Nat \ S # {} PROVE FALSE
  OBVIOUS
<1>1. IsWellFoundedOn(Below, Nat)
  BY NatLessThanWellFounded DEF OpToRel, Below
<1>2. PICK least \in Nat \ S : \A n \in Nat \ S : ~(<<n, least>> \in Below)
  BY <1>1, WFMin
<1>3. least \in Nat /\ least # 0 /\ least - 1 \in Nat /\ least - 1 < least /\ (least - 1) + 1 = least
  BY <1>2
<1>4. <<least - 1, least>> \in Below
  BY <1>3 DEF Below
<1>5. least - 1 \in S
  BY <1>2, <1>3, <1>4
<1> QED
  BY <1>2, <1>3, <1>5

\* What is recursively defined: a start and, after it, a step from what came before.
Unfolds(f, start, step, n) ==
    f[0] = start /\ \A q \in 1..n : f[q] = step[<<q, f[q - 1]>>]

\* There is a function to any recursive definition.
LEMMA Recursion ==
    ASSUME NEW V, NEW start \in V, NEW n \in Nat, NEW step \in [(1..n) \X V -> V]
    PROVE  \E f \in [0..n -> V] : Unfolds(f, start, step, n)
<1> DEFINE Fits(f, m) == f[0] = start /\ \A q \in 1..m : f[q] = step[<<q, f[q - 1]>>]
           S == {m \in Nat : m <= n => \E f \in [0..m -> V] : Fits(f, m)}
<1>1. 0 \in S
  <2>1. [q \in 0..0 |-> start] \in [0..0 -> V] /\ Fits([q \in 0..0 |-> start], 0)
    OBVIOUS
  <2> QED
    BY <2>1
<1>2. ASSUME NEW m \in S, m + 1 <= n PROVE \E f \in [0..(m + 1) -> V] : Fits(f, m + 1)
  <2>1. m \in Nat /\ m <= n
    BY <1>2
  <2>2. PICK f \in [0..m -> V] : Fits(f, m)
    <3> HIDE DEF Fits
    <3> QED BY <1>2, <2>1
  <2> DEFINE g == [q \in 0..(m + 1) |-> IF q <= m THEN f[q] ELSE step[<<m + 1, f[m]>>]]
  <2>3. step[<<m + 1, f[m]>>] \in V
    BY <1>2, <2>1
  <2>4. g \in [0..(m + 1) -> V]
    BY <2>1, <2>3
  <2>5. Fits(g, m + 1)
    <3>1. g[0] = start
      BY <2>1, <2>2
    <3>2. ASSUME NEW q \in 1..(m + 1) PROVE g[q] = step[<<q, g[q - 1]>>]
      <4>1. q - 1 \in 0..m /\ q \in 0..(m + 1) /\ q - 1 <= m /\ q - 1 \in 0..(m + 1) /\ (q = m + 1 => q - 1 = m)
        BY <2>1
      <4>2. g[q - 1] = f[q - 1]
        BY <4>1
      <4>3. CASE q <= m
        BY <2>1, <2>2, <4>1, <4>2, <4>3
      <4>4. CASE q = m + 1
        BY <2>1, <4>1, <4>2, <4>4
      <4> QED
        BY <2>1, <4>3, <4>4
    <3> QED
      BY <3>1, <3>2
  <2> QED
    BY <2>4, <2>5
<1>3. S = Nat
  <2> HIDE DEF Fits
  <2>1. \A m \in S : m + 1 \in S
    BY <1>2
  <2>2. S \in SUBSET Nat
    OBVIOUS
  <2> HIDE DEF S
  <2> QED
    BY <1>1, <2>1, <2>2, Induction
<1> QED
  BY <1>3 DEF Unfolds

\* The lists a filter has sofar after each element are there, so it has one.
LEMMA WithoutByElements ==
    ASSUME NEW T, NEW list \in Seq(T), NEW left
    PROVE  \E sofar : /\ sofar = [n \in 0 .. Len(list) |->
                                   IF n = 0 THEN <<>>
                                   ELSE IF list[n] \in left THEN sofar[n - 1]
                                   ELSE Append(sofar[n - 1], list[n])]
                     /\ Without(list, left) = sofar[Len(list)]
<1> DEFINE N == Len(list)
           Kept1(s, n) == IF list[n] \in left THEN s ELSE Append(s, list[n])
           IsKept(t) == t = [q \in 0..N |-> IF q = 0 THEN <<>> ELSE Kept1(t[q - 1], q)]
           step == [p \in (1..N) \X Seq(T) |-> Kept1(p[2], p[1])]
<1>1. N \in Nat /\ DOMAIN list = 1..N
  OBVIOUS
<1>2. step \in [(1..N) \X Seq(T) -> Seq(T)]
  OBVIOUS
<1>3. PICK f \in [0..N -> Seq(T)] : f[0] = <<>> /\ \A q \in 1..N : f[q] = step[<<q, f[q - 1]>>]
  <2> DEFINE start == <<>>
             V == Seq(T)
  <2>1. start \in V
    OBVIOUS
  <2> HIDE DEF step, start, V, N
  <2>2. \E f \in [0..N -> V] : Unfolds(f, start, step, N)
    BY <1>1, <1>2, <2>1, Recursion DEF V
  <2> QED BY <2>2 DEF start, V, Unfolds
<1>4. ASSUME NEW q \in 1..N PROVE f[q] = Kept1(f[q - 1], q)
  <2>1. q - 1 \in 0..N
    BY <1>1
  <2>2. f[q - 1] \in Seq(T)
    BY <1>3, <2>1
  <2> HIDE DEF Kept1
  <2> QED BY <1>3, <2>2
<1>5. IsKept(f)
  <2> HIDE DEF Kept1
  <2> QED BY <1>1, <1>3, <1>4
<1> DEFINE sofar == CHOOSE t : IsKept(t)
<1>6. IsKept(sofar)
  <2> HIDE DEF IsKept
  <2> QED BY <1>5
<1>7. Without(list, left) = sofar[Len(list)]
  BY DEF Without
<1> QED
  BY <1>6, <1>7

\* A filter keeps the order of what it keeps, here of members that are in the order
\* of their indices.
LEMMA WithoutInOrder ==
    ASSUME NEW T, NEW list \in Seq(T), NEW left,
           \A i \in 1..Len(list) : list[i].index = i
    PROVE  /\ Without(list, left) \in Seq(T \ left)
           /\ \A b \in 1..Len(Without(list, left)) : \A a \in 1..(b - 1) :
                 Without(list, left)[a].index < Without(list, left)[b].index
<1>1. PICK sofar : /\ sofar = [n \in 0 .. Len(list) |->
                                IF n = 0 THEN <<>>
                                ELSE IF list[n] \in left THEN sofar[n - 1]
                                ELSE Append(sofar[n - 1], list[n])]
                  /\ Without(list, left) = sofar[Len(list)]
  BY WithoutByElements
<1> DEFINE Upto(s, n) == \A i \in 1..Len(s) : s[i].index \in 1..n
           Rising(s) == \A b \in 1..Len(s) : \A a \in 1..(b - 1) : s[a].index < s[b].index
           Fine(n) == sofar[n] \in Seq(T \ left) /\ Upto(sofar[n], n) /\ Rising(sofar[n])
           S == {n \in Nat : n <= Len(list) => Fine(n)}
<1>2. 0 \in S
  <2>1. sofar[0] = <<>>
    BY <1>1
  <2>2. <<>> \in Seq(T \ left) /\ Len(<<>>) = 0 /\ 1..0 = {}
    OBVIOUS
  <2> QED
    BY <2>1, <2>2
<1>3. ASSUME NEW n \in S, n + 1 <= Len(list) PROVE Fine(n + 1)
  <2>1. n \in Nat /\ n <= Len(list) /\ n + 1 \in 1..Len(list) /\ DOMAIN list = 1..Len(list)
    <3>1. n \in Nat /\ Len(list) \in Nat /\ DOMAIN list = 1..Len(list)
      BY <1>3
    <3> QED BY <1>3, <3>1
  <2>2. Fine(n)
    <3> HIDE DEF Fine
    <3> QED BY <1>3, <2>1
  <2>3. sofar[n + 1] = IF list[n + 1] \in left THEN sofar[n] ELSE Append(sofar[n], list[n + 1])
    <3>1. n + 1 \in 0..Len(list) /\ n + 1 # 0 /\ (n + 1) - 1 = n
      BY <2>1
    <3> QED
      BY <1>1, <3>1
  <2> DEFINE s == sofar[n]
             e == list[n + 1]
             u == sofar[n + 1]
  <2>4. /\ s \in Seq(T \ left) /\ Upto(s, n) /\ Rising(s)
        /\ e \in T /\ e.index = n + 1
        /\ u = IF e \in left THEN s ELSE Append(s, e)
    <3> HIDE DEF Upto, Rising
    <3> QED BY <2>1, <2>2, <2>3
  <2> SUFFICES u \in Seq(T \ left) /\ Upto(u, n + 1) /\ Rising(u)
    OBVIOUS
  <2> HIDE DEF s, e, u, Fine
  <2>5. CASE e \in left
    BY <2>1, <2>4, <2>5
  <2>6. CASE e \notin left
    <3>1. u \in Seq(T \ left) /\ Len(u) = Len(s) + 1 /\ Len(s) \in Nat /\ u[Len(s) + 1] = e
      BY <2>4, <2>6
    <3>2. \A i \in 1..Len(s) : u[i] = s[i]
      BY <2>4, <2>6
    <3>3. \A i \in 1..(Len(s) + 1) : i \in 1..Len(s) \/ i = Len(s) + 1
      BY <3>1
    <3>4. Upto(u, n + 1)
      <4> SUFFICES ASSUME NEW i \in 1..(Len(s) + 1) PROVE u[i].index \in 1..(n + 1)
        BY <3>1
      <4>1. CASE i \in 1..Len(s)
        BY <2>1, <2>4, <3>2, <4>1
      <4>2. CASE i = Len(s) + 1
        BY <2>1, <2>4, <3>1, <4>2
      <4> QED
        BY <3>3, <4>1, <4>2
    <3>5. Rising(u)
      <4> SUFFICES ASSUME NEW b \in 1..(Len(s) + 1), NEW a \in 1..(b - 1)
                   PROVE  u[a].index < u[b].index
        BY <3>1
      <4>1. a \in 1..Len(s) /\ u[a] = s[a]
        <5>1. Len(s) \in Nat
          BY <3>1
        <5>2. a \in 1..Len(s)
          BY <5>1
        <5> QED
          BY <3>2, <5>2
      <4>2. CASE b \in 1..Len(s)
        BY <2>4, <3>2, <4>1, <4>2
      <4>3. CASE b = Len(s) + 1
        BY <2>1, <2>4, <3>1, <4>1, <4>3
      <4> QED
        BY <3>3, <4>2, <4>3
    <3> QED
      BY <3>1, <3>4, <3>5
  <2> QED
    BY <2>5, <2>6
<1>4. S = Nat
  <2> HIDE DEF Fine
  <2>1. \A n \in S : n + 1 \in S
    BY <1>3
  <2>2. S \in SUBSET Nat
    OBVIOUS
  <2> HIDE DEF S
  <2> QED
    BY <1>2, <2>1, <2>2, Induction
<1>5. Len(list) \in Nat
  OBVIOUS
<1>6. Fine(Len(list))
  <2> HIDE DEF Fine
  <2>1. Len(list) \in S
    BY <1>4, <1>5
  <2> QED
    BY <1>5, <2>1
<1> QED
  BY <1>1, <1>6
-----------------------------------------------------------------------------
(* The ranking                                                             *)

\* The teams a search can find in a pool of n.
Scored(n) == [rows : Triples(n), score : Scores]

Sorted(list, n) == \A i, j \in 1..n : i < j => list[i].score >= list[j].score

\* A ranking of teams lists each of them, once, the better before the worse.
LEMMA RanksAll ==
    ASSUME NEW f, IsFiniteSet(f), NEW list \in Rankings(f)
    PROVE  /\ Cardinality(f) \in Nat
           /\ list \in [1..Cardinality(f) -> f]
           /\ Sorted(list, Cardinality(f))
           /\ \A t \in f : \E i \in 1..Cardinality(f) : list[i] = t
<1> DEFINE n == Cardinality(f)
<1>1. n \in Nat
  BY FS_CardinalityType
<1>2. /\ list \in [1..n -> f] /\ Sorted(list, n)
      /\ \A i, j \in 1..n : i # j => list[i] # list[j]
  <2>1. /\ list \in SetToSeqs(f)
        /\ \A i, j \in DOMAIN list : i < j => list[i].score >= list[j].score
    BY DEF Rankings
  <2>2. list \in [1..n -> f] /\ \A i, j \in 1..n : i # j => list[i] # list[j]
    BY <2>1 DEF SetToSeqs
  <2> HIDE DEF n
  <2> QED
    BY <2>1, <2>2 DEF Sorted
<1>3. ASSUME NEW t \in f, \A i \in 1..n : list[i] # t PROVE FALSE
  <2>1. IsFiniteSet(f \ {t}) /\ Cardinality(f \ {t}) = n - 1
    BY FS_RemoveElement
  <2>2. list \in [1..n -> f \ {t}]
    BY <1>2, <1>3
  <2>3. IsFiniteSet(1..n) /\ Cardinality(1..n) = n
    BY <1>1, FS_Interval
  <2> HIDE DEF n
  <2>4. Cardinality(f \ {t}) < Cardinality(1..n)
    BY <1>1, <2>1, <2>3
  <2> DEFINE places == 1..n
             rest == f \ {t}
  <2>5. /\ IsFiniteSet(places) /\ IsFiniteSet(rest) /\ Cardinality(rest) < Cardinality(places)
        /\ list \in [places -> rest]
    BY <2>1, <2>2, <2>3, <2>4
  <2>6. \A x, y \in places : x # y => list[x] # list[y]
    BY <1>2
  <2> HIDE DEF places, rest
  <2>7. \E x, y \in places : x # y /\ list[x] = list[y]
    BY <2>5, FS_PigeonHole
  <2> QED
    BY <2>6, <2>7
<1> QED
  BY <1>1, <1>2, <1>3
-----------------------------------------------------------------------------
(* Evolution                                                               *)

\* A species evolves into another, in that way only, and the other fits the cap.
Hop(doc, s, t) == doc[s].evolutions = <<t>> /\ t \in DOMAIN doc /\ doc[t].floor <= CPCap

Line(doc, c, n) == \A j \in 1..n : Hop(doc, c[j - 1], c[j])

\* advanceEvolveStep goes on if there is a hop, and makes that hop.
LEMMA StepIsHop ==
    ASSUME NEW doc \in Docs, NEW s \in DOMAIN doc
    PROVE  /\ CanStep(doc, s) => Hop(doc, s, doc[s].evolutions[1])
           /\ \A t \in DOMAIN doc : Hop(doc, s, t) => CanStep(doc, s)
<1> DEFINE list == doc[s].evolutions
<1>1. list \in Seq(ToSet(list))
  BY DocsAssumption
<1>2. ASSUME CanStep(doc, s) PROVE Hop(doc, s, list[1])
  <2>1. Len(list) = 1 /\ list[1] \in DOMAIN doc /\ doc[list[1]].floor <= CPCap
    BY <1>2 DEF CanStep
  <2> HIDE DEF list
  <2>2. list = <<list[1]>>
    BY <1>1, <2>1
  <2> QED
    BY <2>1, <2>2 DEF Hop, list
<1>3. ASSUME NEW t \in DOMAIN doc, Hop(doc, s, t) PROVE CanStep(doc, s)
  <2>1. list = <<t>> /\ doc[t].floor <= CPCap
    BY <1>3 DEF Hop
  <2>2. Len(list) = 1 /\ list[1] = t
    BY <2>1
  <2> QED
    BY <2>1, <2>2 DEF CanStep
<1> QED
  BY <1>2, <1>3

\* The walk along a line, form by form.
LEMMA TerminalByForms ==
    ASSUME NEW doc \in Docs, NEW base \in DOMAIN doc
    PROVE  \E form \in [0..autoEvolveMaxDepth -> DOMAIN doc] :
              /\ form[0] = base
              /\ \A n \in 1..autoEvolveMaxDepth : form[n] = IF CanStep(doc, form[n - 1])
                                          THEN doc[form[n - 1]].evolutions[1] ELSE form[n - 1]
              /\ Terminal(doc, base) = form[autoEvolveMaxDepth]
<1> DEFINE Onward(s) == IF CanStep(doc, s) THEN doc[s].evolutions[1] ELSE s
           IsForm(t) == t = [n \in 0..autoEvolveMaxDepth |-> IF n = 0 THEN base ELSE Onward(t[n - 1])]
           V == DOMAIN doc
           step == [p \in (1..autoEvolveMaxDepth) \X V |-> Onward(p[2])]
<1>0. autoEvolveMaxDepth \in Nat /\ autoEvolveMaxDepth > 0
  BY LimitsAssumption
<1>1. ASSUME NEW s \in V PROVE Onward(s) \in V
  BY DEF CanStep
<1>2. step \in [(1..autoEvolveMaxDepth) \X V -> V]
  <2> HIDE DEF Onward, V
  <2> QED BY <1>1
<1>3. PICK f \in [0..autoEvolveMaxDepth -> V] :
         f[0] = base /\ \A q \in 1..autoEvolveMaxDepth : f[q] = step[<<q, f[q - 1]>>]
  <2>1. base \in V
    OBVIOUS
  <2> HIDE DEF step, V
  <2>2. \E f \in [0..autoEvolveMaxDepth -> V] : Unfolds(f, base, step, autoEvolveMaxDepth)
    BY <1>0, <1>2, <2>1, Recursion
  <2> QED BY <2>2 DEF Unfolds
<1>4. ASSUME NEW q \in 1..autoEvolveMaxDepth PROVE f[q] = Onward(f[q - 1])
  <2>1. f[q - 1] \in V
    BY <1>0, <1>3
  <2> HIDE DEF Onward, V
  <2> QED BY <1>3, <2>1
<1>5. IsForm(f)
  <2> HIDE DEF Onward
  <2> QED BY <1>0, <1>3, <1>4
<1> DEFINE form == CHOOSE t : IsForm(t)
<1>6. IsForm(form)
  <2> HIDE DEF IsForm
  <2> QED BY <1>5
<1>7. Terminal(doc, base) = form[autoEvolveMaxDepth]
  BY DEF Terminal
<1> HIDE DEF form
<1>8. \A n \in 1..autoEvolveMaxDepth : form[n] = Onward(form[n - 1])
  <2> HIDE DEF Onward
  <2> QED BY <1>0, <1>6
<1>9. \A n \in 0..autoEvolveMaxDepth : form[n] \in V
  <2> DEFINE S == {n \in Nat : n <= autoEvolveMaxDepth => form[n] \in V}
  <2>1. 0 \in S
    BY <1>0, <1>6
  <2>2. ASSUME NEW n \in S PROVE n + 1 \in S
    <3> SUFFICES ASSUME n + 1 <= autoEvolveMaxDepth PROVE form[n + 1] \in V
      OBVIOUS
    <3>1. n + 1 \in 1..autoEvolveMaxDepth /\ (n + 1) - 1 = n /\ form[n] \in V
      BY <1>0
    <3> HIDE DEF Onward, V
    <3> QED BY <1>1, <1>8, <3>1
  <2>3. S \in SUBSET Nat
    OBVIOUS
  <2> HIDE DEF S
  <2>4. S = Nat
    BY <2>1, <2>2, <2>3, Induction
  <2> QED
    BY <1>0, <2>4 DEF S
<1>10. form \in [0..autoEvolveMaxDepth -> V] /\ form[0] = base
  <2>1. 0 \in 0..autoEvolveMaxDepth
    BY <1>0
  <2> HIDE DEF Onward, V
  <2> QED BY <1>6, <1>9, <2>1
<1> QED
  BY <1>7, <1>8, <1>10

\* Where a species ends: at the end of a line of hops, with no hop left that the
\* limit allows.
EndsAt(doc, base, last) ==
    \E n \in 0..autoEvolveMaxDepth : \E c \in [0..n -> DOMAIN doc] :
        /\ c[0] = base /\ c[n] = last /\ Line(doc, c, n)
        /\ n < autoEvolveMaxDepth => ~\E t \in DOMAIN doc : Hop(doc, c[n], t)

\* The walk goes along hops, and where it ends before the limit no hop is left.
LEMMA TerminalIsLast ==
    ASSUME NEW doc \in Docs, NEW base \in DOMAIN doc
    PROVE  EndsAt(doc, base, Terminal(doc, base))
<1>0. autoEvolveMaxDepth \in Nat /\ autoEvolveMaxDepth > 0
  BY LimitsAssumption
<1>1. PICK form \in [0..autoEvolveMaxDepth -> DOMAIN doc] :
         /\ form[0] = base
         /\ \A n \in 1..autoEvolveMaxDepth : form[n] = IF CanStep(doc, form[n - 1])
                                     THEN doc[form[n - 1]].evolutions[1] ELSE form[n - 1]
         /\ Terminal(doc, base) = form[autoEvolveMaxDepth]
  BY TerminalByForms
<1> DEFINE Gone(n) == \E k \in 0..n : \E c \in [0..k -> DOMAIN doc] :
              /\ c[0] = base /\ c[k] = form[n] /\ Line(doc, c, k)
              /\ k < n => ~CanStep(doc, form[n])
           S == {n \in Nat : n <= autoEvolveMaxDepth => Gone(n)}
<1>2. 0 \in S
  <2>1. [i \in 0..0 |-> base] \in [0..0 -> DOMAIN doc] /\ 0 \in 0..0
    OBVIOUS
  <2>2. Line(doc, [i \in 0..0 |-> base], 0)
    BY DEF Line
  <2>3. [i \in 0..0 |-> base][0] = base /\ form[0] = base
    BY <1>0, <1>1
  <2>4. Gone(0)
    BY <2>1, <2>2, <2>3
  <2> QED
    BY <2>4
<1>3. ASSUME NEW k \in Nat, NEW c \in [0..k -> DOMAIN doc], Line(doc, c, k), CanStep(doc, c[k])
      PROVE  \E d \in [0..(k + 1) -> DOMAIN doc] :
                d[0] = c[0] /\ d[k + 1] = doc[c[k]].evolutions[1] /\ Line(doc, d, k + 1)
  <2> DEFINE next == doc[c[k]].evolutions[1]
             d == [i \in 0..(k + 1) |-> IF i = k + 1 THEN next ELSE c[i]]
  <2>1. c[k] \in DOMAIN doc /\ next \in DOMAIN doc /\ Hop(doc, c[k], next)
    BY <1>3, StepIsHop DEF CanStep
  <2> HIDE DEF next
  <2>2. \A i \in 0..(k + 1) : i = k + 1 \/ i \in 0..k
    OBVIOUS
  <2>3. d \in [0..(k + 1) -> DOMAIN doc]
    BY <2>1, <2>2
  <2>4. ASSUME NEW j \in 1..(k + 1) PROVE Hop(doc, d[j - 1], d[j])
    <3>1. j - 1 \in 0..k /\ d[j - 1] = c[j - 1]
      OBVIOUS
    <3>2. CASE j = k + 1
      BY <2>1, <3>1, <3>2
    <3>3. CASE j \in 1..k
      <4>1. d[j] = c[j]
        BY <3>3
      <4> HIDE DEF d
      <4> QED BY <1>3, <3>1, <3>3, <4>1 DEF Line
    <3> QED
      BY <3>2, <3>3
  <2>5. d[0] = c[0] /\ d[k + 1] = next
    OBVIOUS
  <2> HIDE DEF d
  <2> QED
    BY <2>3, <2>4, <2>5 DEF Line, next
<1>4. ASSUME NEW n \in S, n + 1 <= autoEvolveMaxDepth PROVE Gone(n + 1)
  <2>1. n \in Nat /\ n + 1 \in 1..autoEvolveMaxDepth /\ (n + 1) - 1 = n /\ n <= autoEvolveMaxDepth
    BY <1>0, <1>4
  <2>2. PICK k \in 0..n : \E c \in [0..k -> DOMAIN doc] :
           /\ c[0] = base /\ c[k] = form[n] /\ Line(doc, c, k)
           /\ k < n => ~CanStep(doc, form[n])
    <3>1. Gone(n)
      <4> HIDE DEF Gone
      <4> QED BY <2>1
    <3> QED BY <3>1
  <2>3. PICK c \in [0..k -> DOMAIN doc] :
           /\ c[0] = base /\ c[k] = form[n] /\ Line(doc, c, k)
           /\ k < n => ~CanStep(doc, form[n])
    BY <2>2
  <2>4. form[n + 1] = IF CanStep(doc, form[n]) THEN doc[form[n]].evolutions[1] ELSE form[n]
    BY <1>1, <2>1
  <2>5. CASE CanStep(doc, form[n])
    <3>1. k = n /\ k \in Nat
      BY <2>1, <2>3, <2>5
    <3>2. PICK d \in [0..(k + 1) -> DOMAIN doc] :
             d[0] = c[0] /\ d[k + 1] = doc[c[k]].evolutions[1] /\ Line(doc, d, k + 1)
      <4>1. CanStep(doc, c[k])
        BY <2>3, <2>5
      <4> QED
        BY <1>3, <2>3, <3>1, <4>1
    <3>3. /\ n + 1 \in 0..(n + 1) /\ ~(n + 1 < n + 1)
          /\ d \in [0..(n + 1) -> DOMAIN doc]
          /\ d[0] = base /\ d[n + 1] = form[n + 1] /\ Line(doc, d, n + 1)
      BY <2>1, <2>3, <2>4, <2>5, <3>1, <3>2
    <3> QED
      BY <3>3
  <2>6. CASE ~CanStep(doc, form[n])
    <3>1. form[n + 1] = form[n] /\ k \in 0..(n + 1)
      BY <2>1, <2>4, <2>6
    <3> QED
      BY <2>3, <2>6, <3>1
  <2> QED
    BY <2>5, <2>6
<1>5. S = Nat
  <2> HIDE DEF Gone
  <2>1. \A n \in S : n + 1 \in S
    BY <1>4
  <2>2. S \in SUBSET Nat
    OBVIOUS
  <2> HIDE DEF S
  <2> QED
    BY <1>2, <2>1, <2>2, Induction
<1>6. PICK k \in 0..autoEvolveMaxDepth : \E c \in [0..k -> DOMAIN doc] :
         /\ c[0] = base /\ c[k] = form[autoEvolveMaxDepth] /\ Line(doc, c, k)
         /\ k < autoEvolveMaxDepth => ~CanStep(doc, form[autoEvolveMaxDepth])
  <2>1. Gone(autoEvolveMaxDepth)
    <3> HIDE DEF Gone
    <3>1. autoEvolveMaxDepth \in S
      BY <1>0, <1>5
    <3> QED BY <3>1
  <2> QED BY <2>1
<1>7. PICK c \in [0..k -> DOMAIN doc] :
         /\ c[0] = base /\ c[k] = form[autoEvolveMaxDepth] /\ Line(doc, c, k)
         /\ k < autoEvolveMaxDepth => ~CanStep(doc, form[autoEvolveMaxDepth])
  BY <1>6
<1>8. ASSUME k < autoEvolveMaxDepth, NEW t \in DOMAIN doc PROVE ~Hop(doc, c[k], t)
  BY <1>7, <1>8, StepIsHop
<1> QED
  BY <1>1, <1>7, <1>8 DEF EndsAt
-----------------------------------------------------------------------------
(* Members                                                                 *)

IsMember(m) ==
    m = [species |-> m.species, fast |-> m.fast, charged |-> m.charged,
         from |-> m.from, skip |-> m.skip, index |-> m.index]

\* The species the client sent.
Original(m) == IF m.from = None THEN m.species ELSE m.from

\* A member that evolves keeps its place and remembers its species; it loses its
\* moves if it becomes another.
LEMMA EvolvedKeeps ==
    ASSUME NEW doc \in Docs, NEW m, IsMember(m), m.from = None
    PROVE  /\ IsMember(Evolved(doc, m)) /\ Evolved(doc, m).index = m.index
           /\ Original(Evolved(doc, m)) = m.species
           /\ \/ /\ Evolved(doc, m).species = m.species
                 /\ Moves(Evolved(doc, m)) = Moves(m)
              \/ Moves(Evolved(doc, m)) = {}
<1>1. CASE m.species \notin DOMAIN doc
  BY <1>1 DEF Evolved, Original
<1>2. CASE m.species \in DOMAIN doc
  <2>1. m.species # None
    BY <1>2, DocsAssumption
  <2>2. CASE Skip(doc, m.species) # ""
    <3>1. Evolved(doc, m) = [species |-> m.species, fast |-> m.fast, charged |-> m.charged,
                             from |-> m.species, skip |-> Skip(doc, m.species), index |-> m.index]
      BY <1>2, <2>2 DEF Evolved, IsMember
    <3> QED
      BY <2>1, <3>1 DEF IsMember, Original, Moves
  <2>3. CASE Skip(doc, m.species) = "" /\ Terminal(doc, m.species) = m.species
    <3>1. Evolved(doc, m) = m
      BY <1>2, <2>3 DEF Evolved
    <3> QED
      BY <3>1 DEF Original
  <2>4. CASE Skip(doc, m.species) = "" /\ Terminal(doc, m.species) # m.species
    <3>1. Evolved(doc, m) = [species |-> Terminal(doc, m.species), fast |-> None, charged |-> <<>>,
                             from |-> m.species, skip |-> m.skip, index |-> m.index]
      BY <1>2, <2>4 DEF Evolved, IsMember
    <3>2. ToSet(<<>>) = {}
      BY DEF ToSet
    <3> QED
      BY <2>1, <3>1, <3>2 DEF IsMember, Original, Moves
  <2> QED
    BY <2>2, <2>3, <2>4
<1> QED
  BY <1>1, <1>2

\* A member of a known species ends where the walk along its line ends.
LEMMA EvolvedIsLast ==
    ASSUME NEW doc \in Docs, NEW m, IsMember(m), m.species \in DOMAIN doc
    PROVE  EndsAt(doc, m.species, Evolved(doc, m).species)
<1>1. CASE Skip(doc, m.species) # ""
  <2>1. Evolved(doc, m).species = m.species
    <3>1. Evolved(doc, m) = [m EXCEPT !.from = m.species, !.skip = Skip(doc, m.species)]
      BY <1>1 DEF Evolved
    <3> QED
      BY <3>1 DEF IsMember
  <2>2. ASSUME NEW t \in DOMAIN doc, Hop(doc, m.species, t) PROVE FALSE
    <3>1. CanStep(doc, m.species)
      BY <2>2, StepIsHop
    <3>2. Len(doc[m.species].evolutions) = 1
      BY <3>1 DEF CanStep
    <3> QED
      BY <1>1, <3>1, <3>2 DEF Skip
  <2> DEFINE c == [i \in 0..0 |-> m.species]
  <2>3. c \in [0..0 -> DOMAIN doc] /\ c[0] = m.species /\ 0 \in 0..autoEvolveMaxDepth
    BY LimitsAssumption
  <2>4. Line(doc, c, 0)
    BY DEF Line
  <2> HIDE DEF c
  <2> QED
    BY <2>1, <2>2, <2>3, <2>4 DEF EndsAt
<1>2. CASE Skip(doc, m.species) = ""
  <2>1. Evolved(doc, m).species = Terminal(doc, m.species)
    <3>1. Evolved(doc, m) = IF Terminal(doc, m.species) = m.species THEN m
                            ELSE [m EXCEPT !.species = Terminal(doc, m.species), !.from = m.species,
                                           !.fast = None, !.charged = <<>>]
      BY <1>2 DEF Evolved
    <3> QED
      BY <3>1 DEF IsMember
  <2> QED
    BY <2>1, TerminalIsLast
<1> QED
  BY <1>1, <1>2

\* A moveset of the rankings changes nothing else of a member.
LEMMA DefaultedKeeps ==
    ASSUME NEW m, IsMember(m)
    PROVE  /\ IsMember(Defaulted(m))
           /\ Defaulted(m).index = m.index /\ Defaulted(m).species = m.species
           /\ Defaulted(m).from = m.from /\ (m.fast # None => Defaulted(m) = m)
<1>1. CASE m.fast # None
  BY <1>1 DEF Defaulted
<1>2. CASE m.fast = None
  <2>1. Defaulted(m) = [species |-> m.species, fast |-> Recommended[m.species].fast,
                        charged |-> Recommended[m.species].charged,
                        from |-> m.from, skip |-> m.skip, index |-> m.index]
    BY <1>2 DEF Defaulted, IsMember
  <2> QED
    BY <1>2, <2>1 DEF IsMember
<1> QED
  BY <1>1, <1>2
-----------------------------------------------------------------------------
(* The inductive invariant                                                 *)

\* From the step on that makes it, a value stays.
AfterDefault == {"build", "validate", "search", "finish", "done"}
AfterBuild   == {"validate", "search", "finish", "done"}
AfterSearch  == {"finish", "done"}

\* How many documents the call has read.
Reading ==
    /\ current \in Docs /\ params \in Calls /\ reads \in Seq(Docs)
    /\ pc \in {"resolve", "default", "refused"} \cup AfterDefault
    /\ pc = "resolve" => Len(reads) = 0
    /\ pc = "default" => Len(reads) = 1
    /\ pc \in {"build", "validate"} => Len(reads) = 2
    /\ pc \in {"search"} \cup AfterSearch => Len(reads) = 3

\* The pool is that of the client, in its order, whatever has become of a member.
PoolKept ==
    /\ pool = [i \in 1..Len(params.pool) |-> pool[i]]
    /\ \A i \in 1..Len(params.pool) :
          /\ IsMember(pool[i]) /\ pool[i].index = i
          /\ Original(pool[i]) = params.pool[i].species
    /\ pc = "resolve" => pool = [i \in 1..Len(params.pool) |-> Fresh(params.pool[i], i)]

Walked ==
    pc = "default" /\ params.evolve =>
        \A i \in 1..Len(params.pool) : params.pool[i].species \in DOMAIN reads[1] =>
            EndsAt(reads[1], params.pool[i].species, pool[i].species)

\* The restrictions are checked on the document of the first read, and after the
\* defaults they hold on it if the second read brought the same one.
Unforbidden ==
    (pc = "default" \/ (pc \in AfterDefault /\ reads[1] = reads[2])) =>
        \A i \in 1..Len(params.pool) :
            Moves(pool[i]) \cap Restricted(reads[1], pool[i].species) = {}

Filtering == pc \in AfterBuild => filtered = Filtered(pool)

Finding ==
    pc \in AfterSearch =>
        found \in SUBSET Scored(Len(filtered)) /\ IsFiniteSet(found)

\* The answer that a window makes.
Answers(window) ==
    /\ teams = [n \in DOMAIN window |-> Answered(window[n])]
    /\ members = Statuses(window)

Answering ==
    pc = "done" => \E window \in Windows(found) : Answers(window)

IInv ==
    /\ Reading /\ PoolKept /\ Walked /\ Unforbidden
    /\ Filtering /\ Finding /\ Answering
-----------------------------------------------------------------------------
(* Init and the steps                                                      *)

LEMMA InitInv == Init => IInv
<1> SUFFICES ASSUME Init PROVE IInv
  OBVIOUS
<1>1. /\ current \in Docs /\ params \in Calls /\ pc = "resolve" /\ reads = <<>>
      /\ pool = [i \in 1..Len(params.pool) |-> Fresh(params.pool[i], i)]
  BY DEF Init
<1>2. Reading
  BY <1>1 DEF Reading, AfterDefault, AfterSearch
<1>3. PoolKept
  BY <1>1 DEF PoolKept, Fresh, IsMember, Original
<1>4. /\ Walked /\ Unforbidden /\ Filtering /\ Finding /\ Answering
  BY <1>1 DEF Walked, Unforbidden, Filtering, Finding, Answering,
              AfterDefault, AfterBuild, AfterSearch
<1> QED
  BY <1>2, <1>3, <1>4 DEF IInv

\* The state of a call does not depend on the current document.
LEMMA RefreshKeeps == IInv /\ (Refresh \/ UNCHANGED vars) => IInv'
<1> SUFFICES ASSUME IInv, Refresh \/ UNCHANGED vars PROVE IInv'
  OBVIOUS
<1>1. /\ UNCHANGED <<params, pc, reads, pool, filtered, found, teams, members>>
      /\ current' \in Docs
  BY DEF IInv, Reading, Refresh, vars
<1>2. Reading' /\ PoolKept'
  BY <1>1 DEF IInv, Reading, PoolKept
<1>3. Walked'
  BY <1>1 DEF IInv, Walked
<1>4. Unforbidden'
  BY <1>1 DEF IInv, Unforbidden, Restricted
<1>5. Filtering' /\ Finding'
  BY <1>1 DEF IInv, Filtering, Filtered, Finding
<1>6. Answering'
  <2>1. \A t : (Affordable(t))' = Affordable(t)
    BY <1>1 DEF Affordable, Cost, EliteFast, EliteCharged, Elite
  <2>2. (Windows(found))' = Windows(found)
    BY <1>1, <2>1 DEF Windows, Prefix
  <2>3. \A t : (Answered(t))' = Answered(t)
    BY <1>1 DEF Answered, Gated, Cost
  <2>4. \A window : (Statuses(window))' = Statuses(window)
    BY <1>1 DEF Statuses, Status
  <2> QED
    BY <1>1, <2>2, <2>3, <2>4 DEF IInv, Answering, Answers
<1> QED
  BY <1>2, <1>3, <1>4, <1>5, <1>6 DEF IInv

\* A call that is refused makes no answer.
LEMMA RefuseKeeps ==
    ASSUME IInv, Refuse, UNCHANGED <<current, params>>, reads' \in Seq(Docs)
    PROVE  IInv'
<1>1. pc' = "refused" /\ UNCHANGED <<current, params, pool>>
  BY DEF Refuse
<1>2. Reading'
  BY <1>1 DEF IInv, Reading, AfterDefault, AfterSearch
<1>3. PoolKept'
  BY <1>1 DEF IInv, PoolKept
<1>4. (Walked /\ Unforbidden /\ Filtering /\ Finding /\ Answering)'
  BY <1>1 DEF Walked, Unforbidden, Filtering, Finding, Answering,
              AfterDefault, AfterBuild, AfterSearch
<1> QED
  BY <1>2, <1>3, <1>4 DEF IInv

\* What one more read leaves of the others.
LEMMA OneMoreRead ==
    ASSUME NEW T, NEW list \in Seq(T), NEW e \in T
    PROVE  /\ Append(list, e) \in Seq(T) /\ Len(Append(list, e)) = Len(list) + 1
           /\ \A i \in 1..Len(list) : Append(list, e)[i] = list[i]
           /\ Append(list, e)[Len(list) + 1] = e
OBVIOUS

\* The evolution of the pool keeps its order, and a member that changes its species
\* has no moves.
LEMMA ResolveKeeps == IInv /\ Resolve => IInv'
<1> SUFFICES ASSUME IInv, Resolve PROVE IInv'
  OBVIOUS
<1>1. /\ pc = "resolve" /\ reads' = <<current>> /\ UNCHANGED <<current, params>>
      /\ current \in Docs /\ params \in Calls /\ reads' \in Seq(Docs)
      /\ reads'[1] = current /\ Len(reads') = 1
  BY DEF Resolve, IInv, Reading
<1>2. CASE Refuse
  BY <1>1, <1>2, RefuseKeeps
<1>3. CASE /\ \A i \in DOMAIN pool :
                 Moves(pool[i]) \cap Restricted(current, pool[i].species) = {}
           /\ pc' = "default"
           /\ pool' = IF params.evolve
                      THEN [i \in DOMAIN pool |-> Evolved(current, pool[i])] ELSE pool
           /\ UNCHANGED <<filtered, found, teams, members>>
  <2> DEFINE I == 1..Len(params.pool)
  <2>1. /\ DOMAIN pool = I
        /\ pool = [i \in I |-> Fresh(params.pool[i], i)]
        /\ \A i \in I : /\ IsMember(pool[i]) /\ pool[i].index = i
                        /\ Original(pool[i]) = params.pool[i].species
    BY <1>1 DEF IInv, PoolKept
  <2>2. \A i \in I : pool[i].from = None /\ pool[i].species = params.pool[i].species
    BY <2>1 DEF Fresh
  <2> HIDE DEF I
  <2>3. Reading'
    BY <1>1, <1>3 DEF Reading, AfterDefault, AfterSearch
  <2>4. \A i \in I : pool'[i] = IF params.evolve THEN Evolved(current, pool[i]) ELSE pool[i]
    BY <1>3, <2>1
  <2>5. PoolKept'
    <3>1. pool' = [i \in I |-> pool'[i]]
      BY <1>3, <2>1
    <3>2. ASSUME NEW i \in I
          PROVE  /\ IsMember(pool'[i]) /\ pool'[i].index = i
                 /\ Original(pool'[i]) = params.pool[i].species
      <4> DEFINE m == pool[i]
      <4>1. IsMember(m) /\ m.from = None /\ m.index = i /\ m.species = params.pool[i].species
        BY <2>1, <2>2
      <4> HIDE DEF m
      <4>2. /\ IsMember(Evolved(current, m)) /\ Evolved(current, m).index = i
            /\ Original(Evolved(current, m)) = params.pool[i].species
        BY <1>1, <4>1, EvolvedKeeps
      <4> QED
        BY <2>1, <2>4, <4>2 DEF m
    <3> QED
      BY <1>1, <1>3, <3>1, <3>2 DEF PoolKept, I
  <2>6. Walked'
    <3> SUFFICES ASSUME params.evolve, NEW i \in I, params.pool[i].species \in DOMAIN current
                 PROVE  EndsAt(current, params.pool[i].species, pool'[i].species)
      BY <1>1 DEF Walked, I
    <3> DEFINE m == pool[i]
    <3>1. IsMember(m) /\ m.species = params.pool[i].species /\ pool'[i] = Evolved(current, m)
      BY <2>1, <2>2, <2>4
    <3> HIDE DEF m
    <3> QED
      BY <1>1, <3>1, EvolvedIsLast
  <2>7. Unforbidden'
    <3> SUFFICES ASSUME NEW i \in I
                 PROVE  Moves(pool'[i]) \cap Restricted(current, pool'[i].species) = {}
      <4>1. \A i : (Restricted(reads[1], pool[i].species))' = Restricted(current, pool'[i].species)
        BY <1>1 DEF Restricted
      <4>2. Unforbidden' <=> (\A i \in I : Moves(pool'[i]) \cap (Restricted(reads[1], pool[i].species))' = {})
        BY <1>1, <1>3 DEF Unforbidden, AfterDefault, I
      <4> QED
        BY <4>1, <4>2
    <3> DEFINE m == pool[i]
               e == Evolved(current, m)
    <3>1. IsMember(m) /\ m.from = None /\ Moves(m) \cap Restricted(current, m.species) = {}
      BY <1>3, <2>1, <2>2
    <3>2. pool'[i] = IF params.evolve THEN e ELSE m
      BY <2>4
    <3> HIDE DEF m
    <3>3. (e.species = m.species /\ Moves(e) = Moves(m)) \/ Moves(e) = {}
      BY <1>1, <3>1, EvolvedKeeps
    <3> HIDE DEF e
    <3> QED
      BY <3>1, <3>2, <3>3
  <2>8. (Filtering /\ Finding /\ Answering)'
    BY <1>3 DEF Filtering, Finding, Answering, AfterBuild, AfterSearch
  <2> QED
    BY <2>3, <2>5, <2>6, <2>7, <2>8 DEF IInv
<1> QED
  BY <1>2, <1>3 DEF Resolve

\* A moveset filled in is checked on the document of the second read, and the others
\* stay as they were.
LEMMA DefaultKeeps == IInv /\ Default => IInv'
<1> SUFFICES ASSUME IInv, Default PROVE IInv'
  OBVIOUS
<1> DEFINE blank == {i \in DOMAIN pool : pool[i].fast = None}
<1>1. /\ pc = "default" /\ reads' = Append(reads, current) /\ UNCHANGED <<current, params>>
      /\ current \in Docs /\ params \in Calls /\ reads \in Seq(Docs) /\ Len(reads) = 1
  BY DEF Default, IInv, Reading
<1>2. reads' \in Seq(Docs) /\ reads'[1] = reads[1] /\ reads'[2] = current /\ Len(reads') = 2
  <2> DEFINE more == Append(reads, current)
  <2>1. /\ more \in Seq(Docs) /\ Len(more) = Len(reads) + 1
        /\ \A i \in 1..Len(reads) : more[i] = reads[i]
        /\ more[Len(reads) + 1] = current
    BY <1>1, OneMoreRead
  <2> HIDE DEF more
  <2>2. reads' = more
    BY <1>1 DEF more
  <2> QED
    BY <1>1, <2>1, <2>2
<1>3. CASE Refuse
  BY <1>1, <1>2, <1>3, RefuseKeeps
<1>4. CASE /\ \A i \in blank :
                 Moves(Defaulted(pool[i])) \cap Restricted(current, pool[i].species) = {}
           /\ pc' = "build"
           /\ pool' = [i \in DOMAIN pool |-> Defaulted(pool[i])]
           /\ UNCHANGED <<filtered, found, teams, members>>
  <2> DEFINE I == 1..Len(params.pool)
  <2>1. /\ DOMAIN pool = I
        /\ \A i \in I : /\ IsMember(pool[i]) /\ pool[i].index = i
                        /\ Original(pool[i]) = params.pool[i].species
    BY DEF IInv, PoolKept
  <2>2. \A i \in I : Moves(pool[i]) \cap Restricted(reads[1], pool[i].species) = {}
    BY <1>1 DEF IInv, Unforbidden
  <2> HIDE DEF I
  <2>3. /\ pool' = [i \in I |-> pool'[i]]
        /\ \A i \in I : pool'[i] = Defaulted(pool[i])
    BY <1>4, <2>1
  <2>4. Reading'
    BY <1>1, <1>2, <1>4 DEF Reading, AfterDefault, AfterSearch
  <2>5. PoolKept'
    <3>1. ASSUME NEW i \in I
          PROVE  /\ IsMember(pool'[i]) /\ pool'[i].index = i
                 /\ Original(pool'[i]) = params.pool[i].species
      <4> DEFINE m == pool[i]
      <4>1. IsMember(m) /\ m.index = i /\ Original(m) = params.pool[i].species
        BY <2>1
      <4> HIDE DEF m
      <4>2. /\ IsMember(Defaulted(m)) /\ Defaulted(m).index = m.index
            /\ Defaulted(m).species = m.species /\ Defaulted(m).from = m.from
        BY <4>1, DefaultedKeeps
      <4> QED
        BY <2>3, <4>1, <4>2 DEF m, Original
    <3> QED
      BY <1>1, <1>4, <2>3, <3>1 DEF PoolKept, I
  <2>6. Unforbidden'
    <3> SUFFICES ASSUME reads[1] = current, NEW i \in I
                 PROVE  Moves(pool'[i]) \cap Restricted(reads[1], pool'[i].species) = {}
      <4>1. \A i : (Restricted(reads[1], pool[i].species))' = Restricted(reads[1], pool'[i].species)
        BY <1>1, <1>2 DEF Restricted
      <4> QED
        BY <1>1, <1>2, <1>4 DEF Unforbidden, I, Restricted
    <3> DEFINE m == pool[i]
               d == Defaulted(m)
    <3>1. /\ IsMember(m) /\ Moves(m) \cap Restricted(reads[1], m.species) = {}
          /\ m.fast = None => Moves(d) \cap Restricted(reads[1], m.species) = {}
          /\ pool'[i] = d
      BY <1>4, <2>1, <2>2, <2>3
    <3> HIDE DEF m
    <3>2. d.species = m.species /\ (m.fast # None => d = m)
      BY <3>1, DefaultedKeeps
    <3> HIDE DEF d
    <3> QED
      BY <3>1, <3>2
  <2>7. (Walked /\ Filtering /\ Finding /\ Answering)'
    BY <1>4 DEF Walked, Filtering, Finding, Answering, AfterBuild, AfterSearch
  <2> QED
    BY <2>4, <2>5, <2>6, <2>7 DEF IInv
<1> QED
  BY <1>3, <1>4 DEF Default

LEMMA BuildKeeps == IInv /\ Build => IInv'
<1> SUFFICES ASSUME IInv, Build PROVE IInv'
  OBVIOUS
<1>1. pc = "build" /\ UNCHANGED <<current, params, reads>> /\ reads' \in Seq(Docs)
  BY DEF Build, IInv, Reading
<1>2. CASE Refuse
  BY <1>1, <1>2, RefuseKeeps
<1>3. CASE pc' = "validate" /\ filtered' = Filtered(pool) /\ UNCHANGED <<pool, found, teams, members>>
  <2>1. Reading'
    BY <1>1, <1>3 DEF IInv, Reading, AfterDefault, AfterSearch
  <2>2. PoolKept'
    BY <1>1, <1>3 DEF IInv, PoolKept
  <2>3. Unforbidden'
    BY <1>1, <1>3 DEF IInv, Unforbidden, Restricted, AfterDefault
  <2>4. Filtering'
    BY <1>1, <1>3 DEF Filtering, Filtered
  <2>5. (Walked /\ Finding /\ Answering)'
    BY <1>3 DEF Walked, Finding, Answering, AfterSearch
  <2> QED
    BY <2>1, <2>2, <2>3, <2>4, <2>5 DEF IInv
<1> QED
  BY <1>2, <1>3 DEF Build

LEMMA ValidateKeeps == IInv /\ Validate => IInv'
<1> SUFFICES ASSUME IInv, Validate PROVE IInv'
  OBVIOUS
<1>1. /\ pc = "validate" /\ reads' = Append(reads, current) /\ UNCHANGED <<current, params>>
      /\ current \in Docs /\ reads \in Seq(Docs) /\ Len(reads) = 2
  BY DEF Validate, IInv, Reading
<1>2. /\ reads' \in Seq(Docs) /\ reads'[1] = reads[1] /\ reads'[2] = reads[2] /\ Len(reads') = 3
  <2> DEFINE more == Append(reads, current)
  <2>1. /\ more \in Seq(Docs) /\ Len(more) = Len(reads) + 1
        /\ \A i \in 1..Len(reads) : more[i] = reads[i]
        /\ more[Len(reads) + 1] = current
    BY <1>1, OneMoreRead
  <2> HIDE DEF more
  <2>2. reads' = more
    BY <1>1 DEF more
  <2> QED
    BY <1>1, <2>1, <2>2
<1>3. CASE Refuse
  BY <1>1, <1>2, <1>3, RefuseKeeps
<1>4. CASE pc' = "search" /\ UNCHANGED <<pool, filtered, found, teams, members>>
  <2>1. Reading'
    BY <1>1, <1>2, <1>4 DEF IInv, Reading, AfterDefault, AfterSearch
  <2>2. PoolKept'
    BY <1>1, <1>4 DEF IInv, PoolKept
  <2>3. Unforbidden'
    BY <1>1, <1>2, <1>4 DEF IInv, Unforbidden, Restricted, AfterDefault
  <2>4. Filtering'
    BY <1>1, <1>4 DEF IInv, Filtering, Filtered, AfterBuild
  <2>5. (Walked /\ Finding /\ Answering)'
    BY <1>4 DEF Walked, Finding, Answering, AfterSearch
  <2> QED
    BY <2>1, <2>2, <2>3, <2>4, <2>5 DEF IInv
<1> QED
  BY <1>3, <1>4 DEF Validate

\* The pool after the bans: members at their places, in order, none of them banned.
LEMMA FilteredOfPool ==
    ASSUME IInv, pc \in AfterBuild
    PROVE  /\ \A r \in 1..Len(filtered) :
                 /\ filtered[r].index \in 1..Len(params.pool)
                 /\ pool[filtered[r].index] = filtered[r]
                 /\ filtered[r].species \notin params.banned /\ filtered[r].from \notin params.banned
           /\ \A b \in 1..Len(filtered) : \A a \in 1..(b - 1) : filtered[a].index < filtered[b].index
           /\ Len(filtered) \in Nat
<1> DEFINE L == Len(params.pool)
           T == ToSet(pool)
           left == {m \in T : m.species \in params.banned \/ m.from \in params.banned}
<1>1. L \in Nat
  BY CallsAssumption DEF IInv, Reading
<1>2. pool = [i \in 1..L |-> pool[i]] /\ \A i \in 1..L : pool[i].index = i
  BY DEF IInv, PoolKept
<1>3. filtered = Without(pool, left)
  BY DEF IInv, Filtering, Filtered
<1> HIDE DEF L
<1>4. T = {pool[i] : i \in 1..L}
  BY <1>2 DEF ToSet
<1>5. pool \in Seq(T) /\ Len(pool) = L
  <2>1. pool \in [1..L -> T]
    BY <1>2, <1>4
  <2> HIDE DEF T
  <2> QED
    BY <1>1, <2>1
<1>6. \A i \in 1..Len(pool) : pool[i].index = i
  BY <1>2, <1>5
<1> HIDE DEF T, left
<1>7. /\ filtered \in Seq(T \ left)
      /\ \A b \in 1..Len(filtered) : \A a \in 1..(b - 1) : filtered[a].index < filtered[b].index
  BY <1>3, <1>5, <1>6, WithoutInOrder
<1>8. Len(filtered) \in Nat /\ \A r \in 1..Len(filtered) : filtered[r] \in T \ left
  BY <1>7
<1>9. ASSUME NEW r \in 1..Len(filtered)
      PROVE  /\ filtered[r].index \in 1..L /\ pool[filtered[r].index] = filtered[r]
             /\ filtered[r].species \notin params.banned /\ filtered[r].from \notin params.banned
  BY <1>2, <1>4, <1>8 DEF left
<1> QED
  BY <1>7, <1>8, <1>9 DEF L

LEMMA TriplesFinite == ASSUME NEW n \in Nat PROVE IsFiniteSet(Triples(n))
<1> DEFINE P == 1..n
           Q == P \X P
           T == Triples(n)
<1>1. IsFiniteSet(P)
  BY FS_Interval
<1>2. \A t \in T : t \in P \X P \X P
  BY DEF Triples
<1> HIDE DEF P, T
<1>3. IsFiniteSet(Q)
  BY <1>1, FS_Product
<1>4. IsFiniteSet(Q \X P)
  <2> HIDE DEF Q
  <2> QED BY <1>1, <1>3, FS_Product
<1> DEFINE code == [t \in T |-> <<<<t[1], t[2]>>, t[3]>>]
<1>5. code \in Injection(T, Q \X P)
  <2>1. code \in [T -> Q \X P]
    BY <1>2
  <2>2. ASSUME NEW t \in T, NEW u \in T, code[t] = code[u] PROVE t = u
    <3>1. t = <<t[1], t[2], t[3]>> /\ u = <<u[1], u[2], u[3]>>
      BY <1>2
    <3>2. t[1] = u[1] /\ t[2] = u[2] /\ t[3] = u[3]
      BY <2>2
    <3> QED
      BY <3>1, <3>2
  <2> HIDE DEF code, Q
  <2> QED
    BY <2>1, <2>2 DEF Injection, IsInjective
<1> HIDE DEF code
<1>6. \E S : S = Q \X P /\ IsFiniteSet(S) /\ code \in Injection(T, S)
  BY <1>4, <1>5
<1> QED
  BY <1>6, FS_Injection DEF T

\* A search finds as many teams as there are triples, at most.
LEMMA SearchKeeps == IInv /\ Search => IInv'
<1> SUFFICES ASSUME IInv, Search PROVE IInv'
  OBVIOUS
<1>1. pc = "search" /\ UNCHANGED <<current, params, reads>> /\ reads' \in Seq(Docs)
  BY DEF Search, IInv, Reading
<1>2. CASE Refuse
  BY <1>1, <1>2, RefuseKeeps
<1>3. ASSUME NEW score \in [{t \in Triples(Len(filtered)) : params.required \subseteq Species(t)}
                             -> Scores \cup {None}],
             found' = {[rows |-> t, score |-> score[t]] :
                         t \in {u \in DOMAIN score : score[u] # None}},
             pc' = "finish", UNCHANGED <<pool, filtered, teams, members>>
      PROVE  IInv'
  <2>0. Len(filtered) \in Nat
    BY <1>1, FilteredOfPool DEF AfterBuild
  <2> DEFINE D == {u \in DOMAIN score : score[u] # None}
             team == [t \in D |-> [rows |-> t, score |-> score[t]]]
  <2>1. D \subseteq Triples(Len(filtered)) /\ \A t \in D : score[t] \in Scores
    BY <1>3
  <2>2. found' = {team[t] : t \in D}
    BY <1>3
  <2>3. \A t \in D : team[t] \in Scored(Len(filtered))
    BY <2>1 DEF Scored
  <2> HIDE DEF D, team
  <2>4. found' \in SUBSET Scored(Len(filtered))
    BY <2>2, <2>3
  <2>5. IsFiniteSet(found')
    <3>1. IsFiniteSet(D)
      BY <2>0, <2>1, TriplesFinite, FS_Subset
    <3>2. team \in Surjection(D, found')
      BY <2>2 DEF Surjection, team
    <3> QED
      BY <3>1, <3>2, FS_Surjection
  <2>6. Finding'
    BY <1>3, <2>4, <2>5 DEF Finding
  <2>7. Reading'
    BY <1>1, <1>3 DEF IInv, Reading, AfterDefault, AfterSearch
  <2>8. PoolKept'
    BY <1>1, <1>3 DEF IInv, PoolKept
  <2>9. Unforbidden'
    BY <1>1, <1>3 DEF IInv, Unforbidden, Restricted, AfterDefault
  <2>10. Filtering'
    BY <1>1, <1>3 DEF IInv, Filtering, Filtered, AfterBuild
  <2>11. (Walked /\ Answering)'
    BY <1>3 DEF Walked, Answering
  <2> QED
    BY <2>6, <2>7, <2>8, <2>9, <2>10, <2>11 DEF IInv
<1> QED
  BY <1>2, <1>3 DEF Search

LEMMA FinishKeeps == IInv /\ Finish => IInv'
<1> SUFFICES ASSUME IInv, Finish PROVE IInv'
  OBVIOUS
<1>1. /\ pc = "finish" /\ pc' = "done" /\ UNCHANGED <<current, params, reads, pool, filtered, found>>
      /\ \E window \in Windows(found) :
            /\ teams' = [n \in DOMAIN window |-> Answered(window[n])]
            /\ members' = Statuses(window)
  BY DEF Finish
<1>2. Reading'
  BY <1>1 DEF IInv, Reading, AfterDefault, AfterSearch
<1>3. PoolKept'
  BY <1>1 DEF IInv, PoolKept
<1>4. Unforbidden'
  BY <1>1 DEF IInv, Unforbidden, Restricted, AfterDefault
<1>5. Filtering' /\ Finding'
  BY <1>1 DEF IInv, Filtering, Filtered, Finding, AfterBuild, AfterSearch
<1>6. Walked'
  BY <1>1 DEF Walked
<1>7. Answering'
  <2>1. \A t : (Affordable(t))' = Affordable(t)
    BY <1>1 DEF Affordable, Cost, EliteFast, EliteCharged, Elite
  <2>2. (Windows(found))' = Windows(found)
    BY <1>1, <2>1 DEF Windows, Prefix
  <2>3. \A t : (Answered(t))' = Answered(t)
    BY <1>1 DEF Answered, Gated, Cost
  <2>4. \A window : (Statuses(window))' = Statuses(window)
    BY <1>1 DEF Statuses, Status
  <2> QED
    BY <1>1, <2>2, <2>3, <2>4 DEF Answering, Answers
<1> QED
  BY <1>2, <1>3, <1>4, <1>5, <1>6, <1>7 DEF IInv

THEOREM Inductive == Spec => []IInv
<1>1. Init => IInv
  BY InitInv
<1>2. IInv /\ [Next]_vars => IInv'
  BY RefreshKeeps, ResolveKeeps, DefaultKeeps, BuildKeeps, ValidateKeeps, SearchKeeps, FinishKeeps
     DEF Next
<1> QED
  BY <1>1, <1>2, PTL DEF Spec
-----------------------------------------------------------------------------
(* What the answer is made of                                              *)

Affordables == {t \in found : Affordable(t.rows)}

Size == IF Cardinality(Affordables) < params.max THEN Cardinality(Affordables) ELSE params.max

\* The window that the answer shows.
Returned == CHOOSE window \in Windows(found) : Answers(window)

\* The n-th team, as it was found.
Chosen(n) == Returned[n]

\* A ranking begins with the teams of the answer.
Begins(list) == /\ list \in Rankings(Affordables)
                /\ \A n \in 1..Size : Chosen(n) = list[n]

\* The teams of the answer are the first of a ranking of those within the budget.
LEMMA WindowIsTop ==
    ASSUME IInv, pc = "done"
    PROVE  /\ Affordables \in SUBSET Scored(Len(filtered)) /\ IsFiniteSet(Affordables)
           /\ Size \in Nat /\ Size <= Cardinality(Affordables)
           /\ Answers(Returned) /\ DOMAIN Returned = 1..Size
           /\ \E list : Begins(list)
<1> DEFINE A == Affordables
           n == Cardinality(A)
<1>1. A \in SUBSET Scored(Len(filtered)) /\ IsFiniteSet(A)
  <2>1. found \in SUBSET Scored(Len(filtered)) /\ IsFiniteSet(found)
    BY DEF IInv, Finding, AfterSearch
  <2>2. A \in SUBSET found
    BY DEF Affordables
  <2> QED
    BY <2>1, <2>2, FS_Subset
<1>2. Returned \in Windows(found) /\ Answers(Returned)
  BY DEF IInv, Answering, Returned
<1>3. PICK list \in Rankings(A) : Returned = Prefix(list)
  BY <1>2 DEF Windows, Affordables
<1>4. n \in Nat /\ list \in [1..n -> A]
  BY <1>1, RanksAll
<1>5. params.max \in Nat
  BY CallsAssumption DEF IInv, Reading
<1>6. Size = (IF n < params.max THEN n ELSE params.max)
  BY DEF Size
<1> HIDE DEF A, n
<1>7. Size \in Nat /\ Size <= n
  BY <1>4, <1>5, <1>6
<1>8. Len(list) = n
  BY <1>4
<1>9. Returned = SubSeq(list, 1, Size)
  BY <1>3, <1>6, <1>8 DEF Prefix
<1>10. DOMAIN SubSeq(list, 1, Size) = 1..Size /\ \A i \in 1..Size : SubSeq(list, 1, Size)[i] = list[i]
  BY <1>4, <1>7
<1>11. Begins(list)
  BY <1>3, <1>9, <1>10 DEF Begins, Chosen, A
<1> QED
  BY <1>1, <1>2, <1>7, <1>9, <1>10, <1>11 DEF A, n

\* A team of the answer is a team that was found and that the budget allows.
LEMMA TeamsAreFound ==
    ASSUME IInv, pc = "done"
    PROVE  /\ DOMAIN teams = 1..Size
           /\ \A n \in 1..Size :
                 /\ Chosen(n) \in Affordables
                 /\ teams[n] = Answered(Chosen(n))
                 /\ \A k \in 1..3 : /\ Chosen(n).rows[k] \in 1..Len(filtered)
                                    /\ k > 1 => Chosen(n).rows[k - 1] < Chosen(n).rows[k]
<1>1. DOMAIN teams = 1..Size /\ \A n \in 1..Size : teams[n] = Answered(Chosen(n))
  BY WindowIsTop DEF Answers, Chosen
<1>2. ASSUME NEW n \in 1..Size PROVE Chosen(n) \in Affordables
  <2> DEFINE N == Cardinality(Affordables)
  <2>1. PICK list : Begins(list)
    BY WindowIsTop
  <2>2. N \in Nat /\ list \in [1..N -> Affordables] /\ Chosen(n) = list[n]
    BY <2>1, WindowIsTop, RanksAll DEF Begins
  <2>3. Size \in Nat /\ Size <= N
    BY WindowIsTop
  <2> HIDE DEF N
  <2>4. n \in 1..N
    BY <2>2, <2>3
  <2> QED
    BY <2>2, <2>4
<1>3. ASSUME NEW t \in Affordables, NEW k \in 1..3
      PROVE  t.rows[k] \in 1..Len(filtered) /\ (k > 1 => t.rows[k - 1] < t.rows[k])
  <2> DEFINE r == t.rows
             L == Len(filtered)
  <2>1. r \in Triples(L)
    BY DEF Affordables, IInv, Finding, AfterSearch, Scored
  <2> HIDE DEF r, L
  <2>2. r[1] \in 1..L /\ r[2] \in 1..L /\ r[3] \in 1..L /\ r[1] < r[2] /\ r[2] < r[3]
    BY <2>1 DEF Triples
  <2>3. k = 1 \/ k = 2 \/ k = 3
    OBVIOUS
  <2> QED
    BY <2>2, <2>3 DEF r, L
<1> QED
  BY <1>1, <1>2, <1>3

\* What the answer says of a team.
LEMMA TeamTells ==
    ASSUME IInv, pc = "done", NEW n \in 1..Size
    PROVE  /\ teams[n].indices = [k \in 1..3 |-> filtered[Chosen(n).rows[k]].index]
           /\ teams[n].members = [k \in 1..3 |-> filtered[Chosen(n).rows[k]]]
           /\ teams[n].score = Chosen(n).score
           /\ params.budget.limit > 0 =>
                 (teams[n].exceeded <=> Cost(Chosen(n).rows) > params.budget.limit)
<1> DEFINE team == Answered(Chosen(n))
<1>1. teams[n] = team
  BY TeamsAreFound
<1>2. team.indices = [k \in 1..3 |-> filtered[Chosen(n).rows[k]].index]
  BY DEF Answered, TeamSize
<1>3. team.members = [k \in 1..3 |-> filtered[Chosen(n).rows[k]]]
  BY DEF Answered, TeamSize
<1>4. team.score = Chosen(n).score
  BY DEF Answered
<1>5. ASSUME params.budget.limit > 0
      PROVE  team.exceeded <=> Cost(Chosen(n).rows) > params.budget.limit
  BY <1>5 DEF Answered, Gated
<1> HIDE DEF team
<1> QED
  BY <1>1, <1>2, <1>3, <1>4, <1>5

\* Who plays in a team has passed the bans.
LEMMA PlayersAreFiltered ==
    ASSUME IInv, pc = "done", NEW n \in 1..Size
    PROVE  \A j \in 1..3 : \E r \in 1..Len(filtered) : teams[n].members[j] = filtered[r]
<1>1. teams[n].members = [k \in 1..3 |-> filtered[Chosen(n).rows[k]]]
  BY TeamTells
<1>2. \A j \in 1..3 : Chosen(n).rows[j] \in 1..Len(filtered)
  BY TeamsAreFound
<1> QED
  BY <1>1, <1>2

\* What the list of members says.
LEMMA MembersListed ==
    ASSUME IInv, pc = "done"
    PROVE  /\ DOMAIN members = 1..Len(params.pool)
           /\ \A i \in 1..Len(params.pool) :
                 /\ members[i].original = params.pool[i].species
                 /\ members[i].resolved = pool[i].species
                 /\ members[i].banned <=> params.pool[i].species \in params.banned
                                           \/ pool[i].species \in params.banned
                 /\ members[i].inTeam <=> \E n \in 1..Size : \E k \in 1..3 :
                                             i = filtered[Chosen(n).rows[k]].index
<1> DEFINE W == Returned
           in == UNION {{filtered[W[n].rows[k]].index : k \in 1..3} : n \in DOMAIN W}
<1>1. members = [i \in DOMAIN pool |-> Status(pool[i], i \in in)]
  BY WindowIsTop DEF Answers, Statuses, TeamSize
<1>2. DOMAIN pool = 1..Len(params.pool)
  BY DEF IInv, PoolKept
<1>3. DOMAIN W = 1..Size
  BY WindowIsTop
<1> HIDE DEF W
<1>4. \A i : i \in in <=> \E n \in 1..Size : \E k \in 1..3 : i = filtered[Chosen(n).rows[k]].index
  BY <1>3 DEF Chosen, W
<1> HIDE DEF in
<1>5. ASSUME NEW i \in 1..Len(params.pool)
      PROVE  /\ members[i].original = params.pool[i].species
             /\ members[i].resolved = pool[i].species
             /\ members[i].banned <=> params.pool[i].species \in params.banned
                                       \/ pool[i].species \in params.banned
             /\ members[i].inTeam <=> i \in in
  <2>1. Original(pool[i]) = params.pool[i].species
    BY DEF IInv, PoolKept
  <2>2. i \in DOMAIN pool
    BY <1>2
  <2>3. members[i].original = Original(pool[i]) /\ members[i].resolved = pool[i].species
    BY <1>1, <2>2 DEF Status, Original
  <2>4. members[i].banned <=> Original(pool[i]) \in params.banned \/ pool[i].species \in params.banned
    BY <1>1, <2>2 DEF Status, Original
  <2>5. members[i].inTeam <=> i \in in
    BY <1>1, <2>2 DEF Status
  <2> QED
    BY <2>1, <2>3, <2>4, <2>5
<1> QED
  BY <1>1, <1>2, <1>4, <1>5
-----------------------------------------------------------------------------
(* The properties                                                          *)

\* Positions of the filtered pool never leak into the answer: the teams' indices
\* and the list of members speak of the pool the client sent
\* (remapPoolIndicesToOriginal, buildPoolMemberStatuses).
THEOREM IndicesAgreeHolds == Spec => []IndicesAgree
<1>1. IInv => IndicesAgree
  <2> SUFFICES ASSUME IInv, pc = "done" PROVE IndicesAgree
    BY DEF IndicesAgree
  <2> DEFINE Row(n, k) == Chosen(n).rows[k]
  <2>1. /\ DOMAIN teams = 1..Size
        /\ \A n \in 1..Size :
              /\ DOMAIN teams[n].indices = 1..3
              /\ \A k \in 1..3 : /\ teams[n].indices[k] = filtered[Row(n, k)].index
                                 /\ teams[n].members[k] = filtered[Row(n, k)]
    <3>1. DOMAIN teams = 1..Size
      BY TeamsAreFound
    <3>2. ASSUME NEW n \in 1..Size
          PROVE  /\ DOMAIN teams[n].indices = 1..3
                 /\ \A k \in 1..3 : /\ teams[n].indices[k] = filtered[Row(n, k)].index
                                    /\ teams[n].members[k] = filtered[Row(n, k)]
      <4>1. /\ teams[n].indices = [k \in 1..3 |-> filtered[Row(n, k)].index]
            /\ teams[n].members = [k \in 1..3 |-> filtered[Row(n, k)]]
        BY TeamTells
      <4> QED
        BY <4>1
    <3> HIDE DEF Row
    <3> QED
      BY <3>1, <3>2
  <2>2. ASSUME NEW n \in 1..Size, NEW k \in 1..3
        PROVE  /\ Row(n, k) \in 1..Len(filtered)
               /\ k > 1 => Row(n, k - 1) \in 1..(Row(n, k) - 1)
    <3>1. /\ Row(n, k) \in 1..Len(filtered)
          /\ k > 1 => Row(n, k - 1) < Row(n, k)
      BY TeamsAreFound
    <3>2. ASSUME k > 1 PROVE Row(n, k - 1) \in 1..Len(filtered)
      <4>1. k - 1 \in 1..3
        BY <3>2
      <4> QED
        BY <4>1, TeamsAreFound
    <3>3. Len(filtered) \in Nat
      BY FilteredOfPool DEF AfterBuild
    <3> HIDE DEF Row
    <3> QED
      BY <3>1, <3>2, <3>3
  <2> HIDE DEF Row
  <2>3. /\ DOMAIN members = 1..Len(params.pool)
        /\ \A i \in 1..Len(params.pool) :
              /\ members[i].original = params.pool[i].species
              /\ members[i].resolved = pool[i].species
              /\ members[i].inTeam <=> \E n \in 1..Size : \E k \in 1..3 :
                                          i = filtered[Row(n, k)].index
    BY MembersListed DEF Row
  <2>4. /\ \A r \in 1..Len(filtered) : /\ filtered[r].index \in 1..Len(params.pool)
                                       /\ pool[filtered[r].index] = filtered[r]
        /\ \A b \in 1..Len(filtered) : \A a \in 1..(b - 1) : filtered[a].index < filtered[b].index
    BY FilteredOfPool DEF AfterBuild
  <2>5. DOMAIN members = DOMAIN params.pool
    <3>1. DOMAIN params.pool = 1..Len(params.pool)
      BY CallsAssumption DEF IInv, Reading
    <3> QED
      BY <2>3, <3>1
  <2>6. ASSUME NEW n \in DOMAIN teams, NEW k \in 1..3
        PROVE  /\ members[teams[n].indices[k]].resolved = teams[n].members[k].species
               /\ k > 1 => teams[n].indices[k - 1] < teams[n].indices[k]
    <3>1. /\ n \in 1..Size /\ teams[n].indices[k] = filtered[Row(n, k)].index
          /\ teams[n].members[k] = filtered[Row(n, k)]
      BY <2>1
    <3>2. members[filtered[Row(n, k)].index].resolved = filtered[Row(n, k)].species
      <4> DEFINE r == Row(n, k)
      <4>1. r \in 1..Len(filtered)
        BY <2>2, <3>1
      <4> HIDE DEF r
      <4>2. filtered[r].index \in 1..Len(params.pool) /\ pool[filtered[r].index] = filtered[r]
        BY <2>4, <4>1
      <4>3. members[filtered[r].index].resolved = pool[filtered[r].index].species
        BY <2>3, <4>2
      <4> QED
        BY <4>2, <4>3 DEF r
    <3>3. ASSUME k > 1 PROVE teams[n].indices[k - 1] < teams[n].indices[k]
      <4>1. k - 1 \in 1..3
        BY <3>3
      <4>2. teams[n].indices[k - 1] = filtered[Row(n, k - 1)].index
        BY <2>1, <3>1, <4>1
      <4> QED
        BY <2>2, <2>4, <3>1, <3>3, <4>2
    <3> QED
      BY <3>1, <3>2, <3>3
  <2>7. ASSUME NEW i \in DOMAIN members
        PROVE  members[i].inTeam <=> \E n \in DOMAIN teams : i \in ToSet(teams[n].indices)
    <3>1. ASSUME NEW n \in 1..Size
          PROVE  i \in ToSet(teams[n].indices) <=> \E k \in 1..3 : i = filtered[Row(n, k)].index
      <4>1. ToSet(teams[n].indices) = {teams[n].indices[k] : k \in 1..3}
        BY <2>1 DEF ToSet
      <4> QED
        BY <2>1, <4>1
    <3>2. DOMAIN teams = 1..Size
      BY <2>1
    <3>3. members[i].inTeam <=> \E n \in 1..Size : \E k \in 1..3 : i = filtered[Row(n, k)].index
      BY <2>3
    <3> QED
      BY <3>1, <3>2, <3>3
  <2> QED
    BY <2>3, <2>5, <2>6, <2>7 DEF IndicesAgree, TeamSize
<1> QED
  BY <1>1, Inductive, PTL

\* No ban is lost on the way, on the form the client sent or on the one it became,
\* and the list of members tells of each (filterPool, buildPoolMemberStatuses).
THEOREM BanHonouredHolds == Spec => []BanHonoured
<1>1. IInv => BanHonoured
  <2> SUFFICES ASSUME IInv, pc = "done", NEW i \in 1..Len(params.pool)
               PROVE  /\ members[i].banned <=> params.pool[i].species \in params.banned
                                                \/ pool[i].species \in params.banned
                      /\ members[i].banned => ~members[i].inTeam
    BY MembersListed DEF BanHonoured
  <2>1. /\ members[i].banned <=> params.pool[i].species \in params.banned
                                  \/ pool[i].species \in params.banned
        /\ members[i].inTeam <=> \E n \in 1..Size : \E k \in 1..3 :
                                    i = filtered[Chosen(n).rows[k]].index
    BY MembersListed
  <2>2. ASSUME members[i].banned, members[i].inTeam PROVE FALSE
    <3>1. PICK n \in 1..Size, k \in 1..3 : i = filtered[Chosen(n).rows[k]].index
      BY <2>1, <2>2
    <3> DEFINE r == Chosen(n).rows[k]
    <3>2. r \in 1..Len(filtered)
      BY TeamsAreFound
    <3> HIDE DEF r
    <3>3. pool[i] = filtered[r] /\ pool[i].species \notin params.banned /\ pool[i].from \notin params.banned
      BY <3>1, <3>2, FilteredOfPool DEF AfterBuild, r
    <3>4. params.pool[i].species = pool[i].species \/ params.pool[i].species = pool[i].from
      BY DEF IInv, PoolKept, Original
    <3> QED
      BY <2>1, <2>2, <3>3, <3>4
  <2> QED
    BY <2>1, <2>2
<1> QED
  BY <1>1, Inductive, PTL

\* A ruled-out move is in no team of the answer, from whichever source a member has
\* its moves, if the reads before the search saw one document
\* (filterMovesByCategory's callers in resolveTeamBuilderInputs and
\* defaultPoolMovesets).
THEOREM RestrictionsHoldHolds == Spec => []RestrictionsHold
<1>1. IInv => RestrictionsHold
  <2> SUFFICES ASSUME IInv, pc = "done", reads[1] = reads[2], NEW n \in DOMAIN teams, NEW j \in 1..3
               PROVE  Moves(teams[n].members[j])
                         \cap Restricted(reads[1], teams[n].members[j].species) = {}
    BY DEF RestrictionsHold, TeamSize
  <2>1. PICK r \in 1..Len(filtered) : teams[n].members[j] = filtered[r]
    <3>1. n \in 1..Size
      BY TeamsAreFound
    <3> QED
      BY <3>1, PlayersAreFiltered
  <2>2. filtered[r].index \in 1..Len(params.pool) /\ pool[filtered[r].index] = filtered[r]
    BY <2>1, FilteredOfPool DEF AfterBuild
  <2>3. \A i \in 1..Len(params.pool) : Moves(pool[i]) \cap Restricted(reads[1], pool[i].species) = {}
    BY DEF IInv, Unforbidden, AfterDefault
  <2> QED
    BY <2>1, <2>2, <2>3
<1> QED
  BY <1>1, Inductive, PTL

\* A promoted member is as far on its line as the cap and the limit of hops let it
\* go, by forms that fit (walkEvolutionChain), whatever comes after on the line: a
\* branch, a form over the cap or a cycle.
THEOREM EvolvesAsFarAsFitsHolds == Spec => []EvolvesAsFarAsFits
<1>1. IInv => EvolvesAsFarAsFits
  <2> SUFFICES ASSUME IInv, pc = "default", params.evolve PROVE EvolvesAsFarAsFits
    BY DEF EvolvesAsFarAsFits
  <2>1. DOMAIN pool = 1..Len(params.pool)
    BY DEF IInv, PoolKept
  <2>2. ASSUME NEW i \in DOMAIN pool, params.pool[i].species \in DOMAIN reads[1]
        PROVE  EndsAt(reads[1], params.pool[i].species, pool[i].species)
    BY <2>1, <2>2 DEF IInv, Walked
  <2>3. ASSUME NEW i \in DOMAIN pool, params.pool[i].species \in DOMAIN reads[1]
        PROVE  \E n \in 0..autoEvolveMaxDepth : \E c \in [0..n -> DOMAIN reads[1]] :
                  /\ c[0] = params.pool[i].species /\ c[n] = pool[i].species
                  /\ \A j \in 1..n : Hop(reads[1], c[j - 1], c[j])
                  /\ n < autoEvolveMaxDepth =>
                        ~\E t \in DOMAIN reads[1] : Hop(reads[1], c[n], t)
    BY <2>2, <2>3 DEF EndsAt, Line
  <2> QED
    BY <2>3 DEF EvolvesAsFarAsFits, Hop
<1> QED
  BY <1>1, Inductive, PTL

\* The budget is applied before the answer is cut to size, so what is left out is no
\* better than what is returned, and no returned team costs more than the tolerance
\* allows or goes unflagged (applyBudgetFilter, finaliseTeams, newTeam).
THEOREM BestAffordableHolds == Spec => []BestAffordable
<1>1. IInv => BestAffordable
  <2> SUFFICES ASSUME IInv, pc = "done" PROVE BestAffordable
    BY DEF BestAffordable
  <2>0. PICK list : Begins(list)
    BY WindowIsTop
  <2> DEFINE N == Cardinality(Affordables)
             In(t) == \E n \in DOMAIN teams :
                         teams[n].indices = [k \in 1..TeamSize |-> filtered[t.rows[k]].index]
             Paid(n) == reads[3][teams[n].members[1].species].dust
                        + reads[3][teams[n].members[2].species].dust
                        + reads[3][teams[n].members[3].species].dust
  <2>1. /\ DOMAIN teams = 1..Size /\ Size \in Nat /\ Size <= N
        /\ \A n \in 1..Size : Chosen(n) \in Affordables /\ Chosen(n) = list[n]
    BY <2>0, TeamsAreFound, WindowIsTop DEF Begins
  <2>2. /\ N \in Nat /\ list \in [1..N -> Affordables] /\ Sorted(list, N)
        /\ \A t \in Affordables : \E i \in 1..N : list[i] = t
    BY <2>0, WindowIsTop, RanksAll DEF Begins
  <2>3. \A t \in Affordables : Affordable(t.rows)
    BY DEF Affordables
  <2>4. ASSUME NEW i \in 1..N, NEW j \in 1..N, i < j PROVE list[i].score >= list[j].score
    BY <2>2, <2>4 DEF Sorted
  <2> HIDE DEF N
  <2>5. ASSUME NEW n \in 1..Size
        PROVE  /\ n \in 1..N /\ teams[n].score = list[n].score
               /\ teams[n].indices = [k \in 1..TeamSize |-> filtered[list[n].rows[k]].index]
    <3>1. /\ teams[n].score = Chosen(n).score
          /\ teams[n].indices = [k \in 1..TeamSize |-> filtered[Chosen(n).rows[k]].index]
      BY TeamTells DEF TeamSize
    <3> QED
      BY <2>1, <2>2, <3>1
  <2>6. ASSUME NEW n \in 1..Size, n > 1 PROVE teams[n - 1].score >= teams[n].score
    <3>1. n - 1 \in 1..Size /\ n \in 1..N /\ n - 1 \in 1..N /\ n - 1 < n
      BY <2>1, <2>2, <2>6
    <3> QED
      BY <2>4, <2>5, <3>1
  <2>7. ASSUME NEW n \in 1..Size, params.budget.limit > 0
        PROVE  /\ Paid(n) <= params.budget.limit + params.budget.slack
               /\ teams[n].exceeded <=> Paid(n) > params.budget.limit
    <3> DEFINE t == Chosen(n)
               paid == Cost(t.rows)
    <3>1. paid <= params.budget.limit + params.budget.slack
      BY <2>1, <2>3, <2>7 DEF Affordable
    <3>2. teams[n].exceeded <=> paid > params.budget.limit
      BY <2>7, TeamTells
    <3>3. Paid(n) = paid
      <4> HIDE DEF t
      <4>1. teams[n].members = [k \in 1..3 |-> filtered[t.rows[k]]]
        BY TeamTells DEF t
      <4>2. paid = reads[3][filtered[t.rows[1]].species].dust
                   + reads[3][filtered[t.rows[2]].species].dust
                   + reads[3][filtered[t.rows[3]].species].dust
        BY DEF Cost, Total, TeamSize
      <4> QED
        BY <4>1, <4>2
    <3> QED
      BY <3>1, <3>2, <3>3
  <2>8. Len(teams) = Size
    <3> DEFINE T == {Answered(Chosen(n)) : n \in 1..Size}
    <3>1. teams = [n \in 1..Size |-> Answered(Chosen(n))]
      BY WindowIsTop DEF Answers, Chosen
    <3>2. teams \in [1..Size -> T]
      BY <3>1
    <3> HIDE DEF T
    <3> QED
      BY <2>1, <3>2
  <2>9. ASSUME NEW t \in Affordables, ~In(t), NEW n \in 1..Size PROVE teams[n].score >= t.score
    <3>1. PICK i \in 1..N : list[i] = t
      BY <2>2
    <3>2. i \notin 1..Size
      <4> SUFFICES ASSUME i \in 1..Size PROVE In(t)
        BY <2>9
      <4> QED
        BY <2>1, <2>5, <3>1
    <3>3. n \in 1..N /\ n < i
      BY <2>1, <2>2, <3>2
    <3> QED
      BY <2>4, <2>5, <3>1, <3>3
  <2> QED
    BY <2>1, <2>6, <2>7, <2>8, <2>9 DEF BestAffordable, Affordables, Size
<1> QED
  BY <1>1, Inductive, PTL
=============================================================================
