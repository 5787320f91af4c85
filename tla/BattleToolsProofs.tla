--------------------------- MODULE BattleToolsProofs ---------------------------
(***************************************************************************)
(* Proofs about BattleTools.                                               *)
(*                                                                         *)
(* The inductive invariant, IInv, follows a call through its preparation.  *)
(* Planned says which stages are left and in which order, so that Passed   *)
(* is known of the others; Resolved and Fought trace each fighter back to  *)
(* what the client sent, filled in by what the rankings manager remembers  *)
(* and past the gate its flags ask for; Ranked does so for the meta.       *)
(* SweptSoFar says that a row is the row of its fighter and a threat list  *)
(* is that of the entries looked at, so that an answer is about all.       *)
(* Compared, which rests on IInv, says what such an answer tells of the    *)
(* ratings: sums exist and means lie between their ratings, a sorted list  *)
(* has everyone once, and what is cut off is no better than what is kept.  *)
(*                                                                         *)
(* What is remembered never changes, which is why a moveset filled in      *)
(* early is still the recommended one when the call answers.               *)
(***************************************************************************)
EXTENDS BattleTools, FiniteSetTheorems, WellFoundedInduction, SequenceTheorems, TLAPS
-----------------------------------------------------------------------------
(* Lists                                                                   *)

\* The order of the naturals, as the well-founded relation that induction needs.
Below == {pair \in Nat \X Nat : pair[1] < pair[2]}

\* Induction over the naturals, for a set of them.
LEMMA Induction ==
    ASSUME NEW S \in SUBSET Nat, 0 \in S, \A n \in S : n + 1 \in S
    PROVE  S = Nat
<1> SUFFICES ASSUME Nat \ S # {} PROVE FALSE
  OBVIOUS
<1>1. IsWellFoundedOn(Below, Nat)
  BY NatLessThanWellFounded DEF OpToRel, Below
<1>2. PICK least \in Nat \ S : \A n \in Nat \ S : ~(<<n, least>> \in Below)
  BY <1>1, WFMin
<1>3. least \in Nat /\ least # 0 /\ least - 1 \in Nat /\ least - 1 < least /\ (least - 1) + 1 = least
  BY <1>2
<1>4. <<least - 1, least>> \in Below
  BY <1>3 DEF Below
<1>5. least - 1 \in S
  BY <1>2, <1>3, <1>4
<1> QED
  BY <1>2, <1>3, <1>5

\* What is recursively defined: a start and, after it, a step from what came before.
Unfolds(f, start, step, n) ==
    f[0] = start /\ \A q \in 1..n : f[q] = step[<<q, f[q - 1]>>]

\* There is a function to any recursive definition.
LEMMA Recursion ==
    ASSUME NEW V, NEW start \in V, NEW n \in Nat, NEW step \in [(1..n) \X V -> V]
    PROVE  \E f \in [0..n -> V] : Unfolds(f, start, step, n)
<1> DEFINE Fits(f, m) == f[0] = start /\ \A q \in 1..m : f[q] = step[<<q, f[q - 1]>>]
           S == {m \in Nat : m <= n => \E f \in [0..m -> V] : Fits(f, m)}
<1>1. 0 \in S
  <2>1. [q \in 0..0 |-> start] \in [0..0 -> V] /\ Fits([q \in 0..0 |-> start], 0)
    OBVIOUS
  <2> QED
    BY <2>1
<1>2. ASSUME NEW m \in S, m + 1 <= n PROVE \E f \in [0..(m + 1) -> V] : Fits(f, m + 1)
  <2>1. m \in Nat /\ m <= n
    BY <1>2
  <2>2. PICK f \in [0..m -> V] : Fits(f, m)
    <3> HIDE DEF Fits
    <3> QED BY <1>2, <2>1
  <2> DEFINE g == [q \in 0..(m + 1) |-> IF q <= m THEN f[q] ELSE step[<<m + 1, f[m]>>]]
  <2>3. step[<<m + 1, f[m]>>] \in V
    BY <1>2, <2>1
  <2>4. g \in [0..(m + 1) -> V]
    BY <2>1, <2>3
  <2>5. Fits(g, m + 1)
    <3>1. g[0] = start
      BY <2>1, <2>2
    <3>2. ASSUME NEW q \in 1..(m + 1) PROVE g[q] = step[<<q, g[q - 1]>>]
      <4>1. q - 1 \in 0..m /\ q \in 0..(m + 1) /\ q - 1 <= m /\ q - 1 \in 0..(m + 1) /\ (q = m + 1 => q - 1 = m)
        BY <2>1
      <4>2. g[q - 1] = f[q - 1]
        BY <4>1
      <4>3. CASE q <= m
        BY <2>1, <2>2, <4>1, <4>2, <4>3
      <4>4. CASE q = m + 1
        BY <2>1, <4>1, <4>2, <4>4
      <4> QED
        BY <2>1, <4>3, <4>4
    <3> QED
      BY <3>1, <3>2
  <2> QED
    BY <2>4, <2>5
<1>3. S = Nat
  <2> HIDE DEF Fits
  <2>1. \A m \in S : m + 1 \in S
    BY <1>2
  <2>2. S \in SUBSET Nat
    OBVIOUS
  <2> HIDE DEF S
  <2> QED
    BY <1>1, <2>1, <2>2, Induction
<1> QED
  BY <1>3 DEF Unfolds

\* What appending an element does to a sequence and to its elements.
LEMMA AppendKeeps ==
    ASSUME NEW T, NEW list \in Seq(T), NEW e \in T
    PROVE  /\ Append(list, e) \in Seq(T)
           /\ ToSet(Append(list, e)) = ToSet(list) \cup {e}
<1> DEFINE new == Append(list, e)
           n == Len(list) + 1
<1>1. /\ new \in Seq(T) /\ DOMAIN list = 1..Len(list) /\ Len(list) \in Nat
      /\ DOMAIN new = 1..n /\ new[n] = e
      /\ \A i \in 1..Len(list) : new[i] = list[i]
  OBVIOUS
<1> HIDE DEF new
<1>2. DOMAIN new = DOMAIN list \cup {n} /\ \A i \in DOMAIN list : new[i] = list[i]
  BY <1>1
<1> HIDE DEF n
<1> QED
  BY <1>1, <1>2 DEF ToSet, new

\* The lists a filter has sofar after each element are there, so it has one.
LEMMA WithoutByElements ==
    ASSUME NEW T, NEW list \in Seq(T), NEW left
    PROVE  \E sofar : /\ sofar = [n \in 0 .. Len(list) |->
                                   IF n = 0 THEN <<>>
                                   ELSE IF list[n] \in left THEN sofar[n - 1]
                                   ELSE Append(sofar[n - 1], list[n])]
                     /\ Without(list, left) = sofar[Len(list)]
<1> DEFINE N == Len(list)
           Kept1(s, n) == IF list[n] \in left THEN s ELSE Append(s, list[n])
           IsKept(t) == t = [q \in 0..N |-> IF q = 0 THEN <<>> ELSE Kept1(t[q - 1], q)]
           step == [p \in (1..N) \X Seq(T) |-> Kept1(p[2], p[1])]
<1>1. N \in Nat /\ DOMAIN list = 1..N
  OBVIOUS
<1>2. step \in [(1..N) \X Seq(T) -> Seq(T)]
  OBVIOUS
<1>3. PICK f \in [0..N -> Seq(T)] : f[0] = <<>> /\ \A q \in 1..N : f[q] = step[<<q, f[q - 1]>>]
  <2> DEFINE start == <<>>
             V == Seq(T)
  <2>1. start \in V
    OBVIOUS
  <2> HIDE DEF step, start, V, N
  <2>2. \E f \in [0..N -> V] : Unfolds(f, start, step, N)
    BY <1>1, <1>2, <2>1, Recursion DEF V
  <2> QED BY <2>2 DEF start, V, Unfolds
<1>4. ASSUME NEW q \in 1..N PROVE f[q] = Kept1(f[q - 1], q)
  <2>1. q - 1 \in 0..N
    BY <1>1
  <2>2. f[q - 1] \in Seq(T)
    BY <1>3, <2>1
  <2> HIDE DEF Kept1
  <2> QED BY <1>3, <2>2
<1>5. IsKept(f)
  <2> HIDE DEF Kept1
  <2> QED BY <1>1, <1>3, <1>4
<1> DEFINE sofar == CHOOSE t : IsKept(t)
<1>6. IsKept(sofar)
  <2> HIDE DEF IsKept
  <2> QED BY <1>5
<1>7. Without(list, left) = sofar[Len(list)]
  BY DEF Without
<1> QED
  BY <1>6, <1>7

\* A filter picks the places of what it keeps, in their order.
PicksOf(list, left, out, pick) ==
    /\ pick \in [1 .. Len(out) -> 1 .. Len(list)]
    /\ \A k \in 1 .. Len(out) : out[k] = list[pick[k]]
    /\ \A k, l \in 1 .. Len(out) : k < l => pick[k] < pick[l]
    /\ \A i \in 1 .. Len(list) : list[i] \notin left => \E k \in 1 .. Len(out) : pick[k] = i

LEMMA WithoutPicks ==
    ASSUME NEW T, NEW list \in Seq(T), NEW left
    PROVE  /\ Without(list, left) \in Seq(T \ left)
           /\ \E pick : PicksOf(list, left, Without(list, left), pick)
<1>1. PICK sofar : /\ sofar = [n \in 0 .. Len(list) |->
                                IF n = 0 THEN <<>>
                                ELSE IF list[n] \in left THEN sofar[n - 1]
                                ELSE Append(sofar[n - 1], list[n])]
                  /\ Without(list, left) = sofar[Len(list)]
  BY WithoutByElements
<1> DEFINE Picks(out, pick, n) ==
             /\ pick \in [1 .. Len(out) -> 1 .. n]
             /\ \A k \in 1 .. Len(out) : out[k] = list[pick[k]]
             /\ \A k, l \in 1 .. Len(out) : k < l => pick[k] < pick[l]
             /\ \A i \in 1 .. n : list[i] \notin left => \E k \in 1 .. Len(out) : pick[k] = i
           Fine(n) == sofar[n] \in Seq(T \ left) /\ \E pick : Picks(sofar[n], pick, n)
           S == {n \in Nat : n <= Len(list) => Fine(n)}
<1>2. Len(list) \in Nat /\ DOMAIN list = 1..Len(list) /\ \A n \in 1..Len(list) : list[n] \in T
  OBVIOUS
<1>3. 0 \in S
  <2>1. sofar[0] = <<>>
    BY <1>1, <1>2
  <2>2. <<>> \in Seq(T \ left) /\ Len(<<>>) = 0 /\ 1..0 = {}
    OBVIOUS
  <2>3. Picks(<<>>, [k \in 1..0 |-> k], 0)
    BY <2>2
  <2> HIDE DEF Picks
  <2> QED
    BY <2>1, <2>2, <2>3
<1>4. ASSUME NEW n \in S, n + 1 <= Len(list) PROVE Fine(n + 1)
  <2>1. Fine(n) /\ n \in Nat /\ n <= Len(list) /\ n + 1 \in 1..Len(list)
    <3>1. n \in Nat
      OBVIOUS
    <3>2. n <= Len(list) /\ n + 1 \in 1..Len(list)
      BY <1>2, <1>4, <3>1
    <3> HIDE DEF Fine
    <3> QED BY <3>1, <3>2
  <2> DEFINE old == sofar[n]
             e == list[n + 1]
             m == Len(old)
  <2>2. sofar[n + 1] = IF e \in left THEN old ELSE Append(old, e)
    <3>1. n + 1 \in 0..Len(list) /\ n + 1 # 0 /\ (n + 1) - 1 = n
      BY <1>2, <2>1
    <3> HIDE DEF Fine
    <3> QED
      BY <1>1, <3>1
  <2>3. old \in Seq(T \ left) /\ m \in Nat /\ e \in T
    <3>1. old \in Seq(T \ left)
      BY <2>1
    <3> QED BY <1>2, <2>1, <3>1
  <2>4. PICK pick : Picks(old, pick, n)
    BY <2>1
  <2> HIDE DEF old, e, m
  <2>5. CASE e \in left
    <3>1. Picks(old, pick, n + 1)
      <4>1. \A i \in 1..(n + 1) : i \in 1..n \/ i = n + 1
        BY <2>1
      <4>2. \A i \in 1..n : i \in 1..(n + 1)
        BY <2>1
      <4> QED
        BY <2>4, <2>5, <4>1, <4>2 DEF e
    <3> HIDE DEF Picks
    <3> QED
      BY <2>2, <2>3, <2>5, <3>1
  <2>6. CASE e \notin left
    <3> DEFINE new == Append(old, e)
               longer == [k \in 1..(m + 1) |-> IF k = m + 1 THEN n + 1 ELSE pick[k]]
    <3>1. /\ new \in Seq(T \ left) /\ Len(new) = m + 1 /\ new[m + 1] = e
          /\ \A k \in 1..m : new[k] = old[k]
      BY <2>3, <2>6 DEF m
    <3>2. Picks(new, longer, n + 1)
      <4> HIDE DEF new
      <4>1. \A k \in 1..(m + 1) : k = m + 1 \/ (k \in 1..m /\ k # m + 1)
        BY <2>3
      <4>2. \A k \in 1..m : k \in 1..(m + 1) /\ k # m + 1 /\ pick[k] \in 1..n /\ longer[k] = pick[k]
        <5>1. \A k \in 1..m : k \in 1..(m + 1) /\ k # m + 1
          BY <2>3
        <5>2. \A k \in 1..m : pick[k] \in 1..n
          BY <2>4 DEF m
        <5>3. \A k \in 1..m : longer[k] = pick[k]
          BY <5>1
        <5> QED BY <5>1, <5>2, <5>3
      <4>3. m + 1 \in 1..(m + 1) /\ longer[m + 1] = n + 1 /\ n + 1 \in 1..(n + 1)
        BY <2>1, <2>3
      <4>4. \A i \in 1..(n + 1) : i \in 1..n \/ i = n + 1
        BY <2>1
      <4>5. \A i \in 1..n : i \in 1..(n + 1) /\ i < n + 1
        BY <2>1
      <4>6. longer \in [1 .. Len(new) -> 1 .. (n + 1)]
        BY <3>1, <4>1, <4>2, <4>3, <4>5
      <4>7. \A k \in 1 .. Len(new) : new[k] = list[longer[k]]
        BY <2>4, <3>1, <4>1, <4>2, <4>3 DEF e, m
      <4>8. ASSUME NEW k \in 1 .. Len(new), NEW l \in 1 .. Len(new), k < l PROVE longer[k] < longer[l]
        <5>1. k \in 1..m
          BY <2>3, <3>1, <4>8
        <5>2. CASE l = m + 1
          BY <4>2, <4>3, <4>5, <5>1, <5>2
        <5>3. CASE l \in 1..m
          BY <2>4, <4>2, <4>8, <5>1, <5>3 DEF m
        <5> QED BY <3>1, <4>1, <5>2, <5>3
      <4>9. \A i \in 1 .. (n + 1) : list[i] \notin left => \E k \in 1 .. Len(new) : longer[k] = i
        BY <2>4, <3>1, <4>2, <4>3, <4>4 DEF m
      <4> HIDE DEF longer
      <4> QED
        BY <4>6, <4>7, <4>8, <4>9
    <3> HIDE DEF Picks, longer, new
    <3>3. sofar[n + 1] = new
      BY <2>2, <2>6 DEF new
    <3> QED
      BY <3>1, <3>2, <3>3
  <2> QED
    BY <2>5, <2>6
<1>5. S = Nat
  <2> HIDE DEF Fine
  <2>1. \A n \in S : n + 1 \in S
    BY <1>4
  <2>2. S \in SUBSET Nat
    OBVIOUS
  <2> HIDE DEF S
  <2> QED
    BY <1>3, <2>1, <2>2, Induction
<1>6. Fine(Len(list))
  <2> HIDE DEF Fine
  <2> QED
    BY <1>2, <1>5
<1> DEFINE out == Without(list, left)
<1>7. out \in Seq(T \ left) /\ \E pick : Picks(out, pick, Len(list))
  <2> HIDE DEF Picks
  <2> QED BY <1>1, <1>6
<1> HIDE DEF out
<1>8. \E pick : PicksOf(list, left, out, pick)
  BY <1>7 DEF PicksOf
<1> QED
  BY <1>7, <1>8 DEF out

\* A filter keeps what it does not leave out, and nothing else.
LEMMA WithoutKeeps ==
    ASSUME NEW T, NEW list \in Seq(T), NEW left
    PROVE  /\ Without(list, left) \in Seq(T \ left)
           /\ ToSet(Without(list, left)) = ToSet(list) \ left
<1> DEFINE out == Without(list, left)
<1>1. out \in Seq(T \ left) /\ \E pick : PicksOf(list, left, out, pick)
  BY WithoutPicks
<1> HIDE DEF out
<1>2. PICK pick : PicksOf(list, left, out, pick)
  BY <1>1
<1>3. /\ DOMAIN out = 1 .. Len(out) /\ DOMAIN list = 1 .. Len(list)
      /\ \A k \in 1 .. Len(out) : out[k] \notin left
  BY <1>1
<1>4. ASSUME NEW x \in ToSet(out) PROVE x \in ToSet(list) \ left
  <2>1. PICK k \in 1 .. Len(out) : x = out[k]
    BY <1>3 DEF ToSet
  <2>2. pick[k] \in DOMAIN list /\ x = list[pick[k]]
    BY <1>2, <1>3, <2>1 DEF PicksOf
  <2> QED BY <1>3, <2>1, <2>2 DEF ToSet
<1>5. ASSUME NEW x \in ToSet(list) \ left PROVE x \in ToSet(out)
  <2>1. PICK i \in 1 .. Len(list) : x = list[i]
    BY <1>3 DEF ToSet
  <2>2. PICK k \in 1 .. Len(out) : pick[k] = i
    BY <1>2, <2>1 DEF PicksOf
  <2>3. x = out[k] /\ k \in DOMAIN out
    BY <1>2, <1>3, <2>1, <2>2 DEF PicksOf
  <2> QED BY <2>3 DEF ToSet
<1> QED
  BY <1>1, <1>4, <1>5 DEF out


\* A list is its head and its tail.
LEMMA HeadAndTail ==
    ASSUME NEW T, NEW list \in Seq(T), list # <<>>
    PROVE  ToSet(list) = {Head(list)} \cup ToSet(Tail(list))
<1> DEFINE tail == Tail(list)
           n == Len(list)
<1>1. /\ n \in Nat \ {0} /\ DOMAIN list = 1..n /\ Head(list) = list[1]
      /\ DOMAIN tail = 1..(n - 1) /\ \A i \in 1..(n - 1) : tail[i] = list[i + 1]
  BY HeadTailProperties
<1> HIDE DEF tail, n
<1>2. \A i \in 1..(n - 1) : i + 1 \in 1..n
  BY <1>1
<1>3. \A i \in 1..n : i = 1 \/ (i - 1 \in 1..(n - 1) /\ (i - 1) + 1 = i)
  BY <1>1
<1>4. 1 \in 1..n
  BY <1>1
<1>5. ASSUME NEW x \in ToSet(list) PROVE x = Head(list) \/ x \in ToSet(tail)
  <2>1. PICK i \in 1..n : x = list[i]
    BY <1>1 DEF ToSet
  <2>2. CASE i = 1
    BY <1>1, <2>1, <2>2
  <2>3. CASE i # 1
    <3>1. i - 1 \in 1..(n - 1) /\ (i - 1) + 1 = i
      BY <1>3, <2>3
    <3>2. tail[i - 1] = x
      BY <1>1, <2>1, <3>1
    <3> QED
      BY <1>1, <3>1, <3>2 DEF ToSet
  <2> QED
    BY <2>2, <2>3
<1>6. ASSUME NEW x \in ToSet(tail) PROVE x \in ToSet(list)
  BY <1>1, <1>2 DEF ToSet
<1>7. Head(list) \in ToSet(list)
  BY <1>1, <1>4 DEF ToSet
<1> QED
  BY <1>5, <1>6, <1>7 DEF tail

\* The place of a species in a list, or zero.
LEMMA IndexIn ==
    ASSUME NEW T, NEW list \in Seq(T), NEW id
    PROVE  EntryIndex(list, id) \in 0 .. Len(list)
<1> DEFINE I == {i \in 1..Len(list) : list[i].species = id}
<1>1. EntryIndex(list, id) = IF I # {} THEN CHOOSE x \in I : \A y \in I : x <= y ELSE 0
  BY DEF EntryIndex, SelectInSeq, Min
<1>2. Len(list) \in Nat
  OBVIOUS
<1>3. ASSUME I # {} PROVE \E x \in I : \A y \in I : x <= y
  <2>1. IsWellFoundedOn(Below, Nat)
    BY NatLessThanWellFounded DEF OpToRel, Below
  <2>2. I \subseteq Nat
    BY <1>2
  <2> HIDE DEF I
  <2>3. PICK x \in I : \A y \in I : ~(<<y, x>> \in Below)
    BY <1>3, <2>1, <2>2, WFMin
  <2>4. ASSUME NEW y \in I PROVE x <= y
    <3>1. x \in Nat /\ y \in Nat /\ ~(<<y, x>> \in Below)
      BY <2>2, <2>3
    <3> QED
      BY <3>1 DEF Below
  <2> QED
    BY <2>4
<1>4. CASE I # {}
  <2> HIDE DEF I
  <2>1. EntryIndex(list, id) \in I
    BY <1>1, <1>3, <1>4
  <2> QED
    BY <1>2, <2>1 DEF I
<1> QED
  BY <1>1, <1>2, <1>4

-----------------------------------------------------------------------------
(* Ratings: their means, and lists in their order                          *)

\* The sums over the subsets of a finite set are there, each from a smaller one.
Chosen(s) == CHOOSE x \in s : TRUE

SumsOf(w, S, f) ==
    f = [s \in SUBSET S |-> IF s = {} THEN 0 ELSE w[Chosen(s)] + f[s \ {Chosen(s)}]]

LEMMA SumsExist ==
    ASSUME NEW S, IsFiniteSet(S), NEW w, \A x \in S : w[x] \in Int
    PROVE  \E f \in [SUBSET S -> Int] : SumsOf(w, S, f)
<1> DEFINE N == Cardinality(S)
           V == [SUBSET S -> Int]
           More(g) == [s \in SUBSET S |-> IF s = {} THEN 0 ELSE w[Chosen(s)] + g[s \ {Chosen(s)}]]
           start == [s \in SUBSET S |-> 0]
           step == [p \in (1 .. N + 1) \X V |-> More(p[2])]
<1>1. N \in Nat
  BY FS_CardinalityType
<1>2. ASSUME NEW s \in SUBSET S, s # {} PROVE Chosen(s) \in s /\ s \ {Chosen(s)} \in SUBSET S
  BY <1>2 DEF Chosen
<1>3. ASSUME NEW g \in V PROVE More(g) \in V
  <2>1. ASSUME NEW s \in SUBSET S, s # {} PROVE w[Chosen(s)] + g[s \ {Chosen(s)}] \in Int
    <3>1. w[Chosen(s)] \in Int /\ g[s \ {Chosen(s)}] \in Int
      BY <1>2, <2>1
    <3> QED BY <3>1
  <2> QED BY <2>1
<1>4. step \in [(1 .. N + 1) \X V -> V]
  <2> HIDE DEF More, V
  <2> QED BY <1>3
<1>5. start \in V
  OBVIOUS
<1>6. PICK f \in [0 .. N + 1 -> V] : f[0] = start /\ \A q \in 1 .. N + 1 : f[q] = step[<<q, f[q - 1]>>]
  <2> HIDE DEF V, start, step, N
  <2>1. N + 1 \in Nat
    BY <1>1
  <2>2. \E f \in [0 .. N + 1 -> V] : Unfolds(f, start, step, N + 1)
    BY <1>4, <1>5, <2>1, Recursion
  <2> QED BY <2>2 DEF Unfolds
<1>7. ASSUME NEW q \in 0 .. N PROVE f[q + 1] = More(f[q]) /\ f[q] \in V
  <2> HIDE DEF More, V, start, N
  <2>1. q + 1 \in 1 .. N + 1 /\ (q + 1) - 1 = q /\ q \in 0 .. N + 1
    BY <1>1
  <2>2. f[q] \in V /\ f[q + 1] = step[<<q + 1, f[q]>>]
    BY <1>6, <2>1
  <2> QED BY <2>1, <2>2
<1> DEFINE Stable(q) == \A s \in SUBSET S : Cardinality(s) <= q => f[q + 1][s] = f[q][s]
           Q == {q \in Nat : q <= N => Stable(q)}
<1>8. 0 \in Q
  <2> SUFFICES ASSUME NEW s \in SUBSET S, Cardinality(s) <= 0 PROVE f[0 + 1][s] = f[0][s]
    OBVIOUS
  <2>1. IsFiniteSet(s) /\ Cardinality(s) \in Nat
    BY FS_Subset, FS_CardinalityType
  <2>2. s = {}
    BY <2>1, FS_EmptySet
  <2>3. 0 \in 0 .. N
    BY <1>1
  <2>4. f[0 + 1] = More(f[0])
    <3> HIDE DEF N, More
    <3> QED BY <1>7, <2>3
  <2> QED
    BY <1>6, <2>2, <2>4
<1>9. ASSUME NEW q \in Q PROVE q + 1 \in Q
  <2> SUFFICES ASSUME q + 1 <= N, NEW s \in SUBSET S, Cardinality(s) <= q + 1
               PROVE  f[(q + 1) + 1][s] = f[q + 1][s]
    OBVIOUS
  <2>1. q \in 0 .. N /\ q + 1 \in 0 .. N /\ Stable(q)
    <3>1. q \in Nat
      OBVIOUS
    <3>2. q \in 0 .. N /\ q + 1 \in 0 .. N /\ q <= N
      <4> HIDE DEF N
      <4> QED BY <1>1, <3>1
    <3> HIDE DEF Stable, N
    <3> QED BY <3>1, <3>2
  <2>2. f[(q + 1) + 1] = More(f[q + 1]) /\ f[q + 1] = More(f[q])
    <3> HIDE DEF More, N
    <3> QED BY <1>7, <2>1
  <2>3. CASE s = {}
    BY <2>2, <2>3
  <2>4. CASE s # {}
    <3> DEFINE rest == s \ {Chosen(s)}
    <3>1. Chosen(s) \in s /\ rest \in SUBSET S
      BY <1>2, <2>4
    <3>2. Cardinality(rest) <= q
      <4>1. IsFiniteSet(s) /\ Cardinality(s) \in Nat
        BY FS_Subset, FS_CardinalityType
      <4>2. Cardinality(rest) = Cardinality(s) - 1
        BY <3>1, <4>1, FS_RemoveElement
      <4> HIDE DEF rest
      <4> QED BY <4>1, <4>2
    <3>3. f[q + 1][rest] = f[q][rest]
      <4> HIDE DEF rest
      <4> QED BY <2>1, <3>1, <3>2
    <3>4. f[(q + 1) + 1][s] = w[Chosen(s)] + f[q + 1][rest] /\ f[q + 1][s] = w[Chosen(s)] + f[q][rest]
      BY <2>2, <2>4
    <3> QED BY <3>3, <3>4
  <2> QED BY <2>3, <2>4
<1>10. Stable(N)
  <2>1. Q = Nat
    <3> HIDE DEF Stable
    <3>1. Q \in SUBSET Nat
      OBVIOUS
    <3> HIDE DEF Q
    <3> QED BY <1>8, <1>9, <3>1, Induction
  <2>2. N \in Q
    <3> HIDE DEF Q, N
    <3> QED BY <1>1, <2>1
  <2> HIDE DEF Stable
  <2> QED BY <1>1, <2>2
<1>11. N \in 0 .. N
  BY <1>1
<1>12. f[N] \in V /\ f[N + 1] \in V /\ f[N + 1] = More(f[N])
  <2> HIDE DEF V, More, N
  <2> QED BY <1>3, <1>7, <1>11
<1>13. f[N] = f[N + 1]
  <2>1. \A s \in SUBSET S : Cardinality(s) <= N
    BY FS_Subset
  <2> HIDE DEF N
  <2> QED BY <1>10, <1>12, <2>1
<1> HIDE DEF N
<1>14. SumsOf(w, S, f[N])
  BY <1>12, <1>13 DEF SumsOf
<1> QED
  BY <1>12, <1>14

\* One more or one less of what is multiplied.
LEMMA Times ==
    ASSUME NEW n \in Int, NEW b \in Int
    PROVE  n * b \in Int /\ (n + 1) * b = n * b + b /\ n * (b - 1) = n * b - n
<1>1. n * b \in Int
  OBVIOUS
<1>2. (n + 1) * b = n * b + b
  OBVIOUS
<1>3. n * (b - 1) = n * b - n
  OBVIOUS
<1> QED BY <1>1, <1>2, <1>3

SumOf(w, S) == MapThenSumSet(LAMBDA x : w[x], S)

\* A sum over a finite set is a number that its bounds bound.
LEMMA SumIs ==
    ASSUME NEW S, IsFiniteSet(S), NEW w, \A x \in S : w[x] \in Int
    PROVE  /\ SumOf(w, S) \in Int
           /\ \A b \in Int : (\A x \in S : w[x] <= b) => SumOf(w, S) <= Cardinality(S) * b
           /\ \A b \in Int : (\A x \in S : b <= w[x]) => Cardinality(S) * b <= SumOf(w, S)
<1> DEFINE sum == SumOf(w, S)
           iter == CHOOSE f : SumsOf(w, S, f)
<1>1. sum = iter[S]
  BY DEF SumOf, MapThenSumSet, MapThenFoldSet, SumsOf, Chosen
<1>2. SumsOf(w, S, iter)
  BY SumsExist
<1> HIDE DEF iter
<1>3. ASSUME NEW s \in SUBSET S
      PROVE  iter[s] = IF s = {} THEN 0 ELSE w[Chosen(s)] + iter[s \ {Chosen(s)}]
  BY <1>2 DEF SumsOf
<1> DEFINE Bounded(s, n) == /\ iter[s] \in Int
                            /\ \A b \in Int : (\A x \in S : w[x] <= b) => iter[s] <= n * b
                            /\ \A b \in Int : (\A x \in S : b <= w[x]) => n * b <= iter[s]
           Q == {n \in Nat : \A s \in SUBSET S : Cardinality(s) = n => Bounded(s, n)}
<1>4. \A s \in SUBSET S : IsFiniteSet(s) /\ Cardinality(s) \in Nat
  BY FS_Subset, FS_CardinalityType
<1>5. 0 \in Q
  <2> SUFFICES ASSUME NEW s \in SUBSET S, Cardinality(s) = 0 PROVE Bounded(s, 0)
    OBVIOUS
  <2>1. s = {}
    BY <1>4, FS_EmptySet
  <2>2. iter[s] = 0
    BY <1>3, <2>1
  <2> QED BY <2>2
<1>6. ASSUME NEW n \in Q PROVE n + 1 \in Q
  <2> SUFFICES ASSUME NEW s \in SUBSET S, Cardinality(s) = n + 1 PROVE Bounded(s, n + 1)
    OBVIOUS
  <2> DEFINE rest == s \ {Chosen(s)}
  <2>1. s # {}
    BY <1>4, FS_EmptySet
  <2>2. Chosen(s) \in s /\ rest \in SUBSET S
    BY <2>1 DEF Chosen
  <2>3. Cardinality(rest) = n
    BY <1>4, <2>2, FS_RemoveElement
  <2>4. iter[s] = w[Chosen(s)] + iter[rest] /\ w[Chosen(s)] \in Int
    BY <1>3, <2>1, <2>2
  <2>5. n \in Nat /\ Bounded(rest, n)
    <3> HIDE DEF rest, Bounded
    <3> QED BY <2>2, <2>3
  <2> HIDE DEF rest
  <2>6. iter[s] \in Int
    BY <2>4, <2>5
  <2>7. ASSUME NEW b \in Int, \A x \in S : w[x] <= b PROVE iter[s] <= (n + 1) * b
    <3>1. w[Chosen(s)] <= b /\ iter[rest] <= n * b /\ iter[rest] \in Int
      BY <2>2, <2>5, <2>7
    <3>2. n * b \in Int /\ (n + 1) * b = n * b + b
      BY <2>5, Times
    <3> QED BY <2>4, <3>1, <3>2
  <2>8. ASSUME NEW b \in Int, \A x \in S : b <= w[x] PROVE (n + 1) * b <= iter[s]
    <3>1. b <= w[Chosen(s)] /\ n * b <= iter[rest] /\ iter[rest] \in Int
      BY <2>2, <2>5, <2>8
    <3>2. n * b \in Int /\ (n + 1) * b = n * b + b
      BY <2>5, Times
    <3> QED BY <2>4, <3>1, <3>2
  <2> QED BY <2>6, <2>7, <2>8
<1>7. Q = Nat
  <2> HIDE DEF Bounded
  <2>1. Q \in SUBSET Nat
    OBVIOUS
  <2> HIDE DEF Q
  <2> QED BY <1>5, <1>6, <2>1, Induction
<1>8. Bounded(S, Cardinality(S))
  <2>1. Cardinality(S) \in Q
    <3> HIDE DEF Q
    <3> QED BY <1>4, <1>7
  <2> HIDE DEF Bounded
  <2> QED BY <2>1
<1> HIDE DEF sum
<1>9. /\ sum \in Int
      /\ \A b \in Int : (\A x \in S : w[x] <= b) => sum <= Cardinality(S) * b
      /\ \A b \in Int : (\A x \in S : b <= w[x]) => Cardinality(S) * b <= sum
  BY <1>1, <1>8
<1> QED
  BY <1>9 DEF sum

\* A quotient lies between the bounds its dividend has as a multiple of the divisor.
LEMMA Quotient ==
    ASSUME NEW sum \in Nat, NEW k \in Nat \ {0}
    PROVE  /\ sum \div k \in Nat
           /\ \A b \in Int : b <= sum \div k => k * b <= sum
<1>1. sum \div k \in Nat
  OBVIOUS
<1>2. k * (sum \div k) <= sum
  OBVIOUS
<1> DEFINE q == sum \div k
<1> HIDE DEF q
<1>3. \A b \in Int : b <= q => k * b <= k * q
  BY <1>1 DEF q
<1>4. k * q <= sum /\ q \in Nat /\ k * q \in Int
  BY <1>1, <1>2 DEF q
<1>5. ASSUME NEW b \in Int, b <= q PROVE k * b <= sum
  <2>1. k * b <= k * q /\ k * b \in Int
    BY <1>3, <1>5
  <2> QED BY <1>4, <2>1
<1> QED
  BY <1>1, <1>5 DEF q

\* Among zero and finitely many numbers there is a greatest.
LEMMA Greatest ==
    ASSUME NEW n \in Nat, NEW I \in SUBSET (1 .. n), NEW w, \A i \in I : w[i] \in Nat
    PROVE  LET S == {0} \cup {w[i] : i \in I}
           IN  Max(S) \in S /\ \A x \in S : x <= Max(S)
<1> DEFINE S(m) == {0} \cup {w[i] : i \in {j \in I : j <= m}}
           Top(m) == \E x \in S(m) : \A y \in S(m) : y <= x
           Q == {m \in Nat : Top(m)}
<1>1. 0 \in Q
  <2>1. S(0) = {0}
    OBVIOUS
  <2> QED BY <2>1
<1>2. ASSUME NEW m \in Q PROVE m + 1 \in Q
  <2>1. PICK x \in S(m) : \A y \in S(m) : y <= x
    OBVIOUS
  <2>2. m \in Nat /\ x \in Nat
    BY <2>1
  <2>3. \A i \in I : i <= m + 1 <=> i <= m \/ i = m + 1
    BY <2>2
  <2>4. CASE m + 1 \in I /\ x <= w[m + 1]
    <3>1. S(m + 1) = S(m) \cup {w[m + 1]} /\ w[m + 1] \in Nat
      BY <2>3, <2>4
    <3>2. \A y \in S(m) : y \in Nat
      OBVIOUS
    <3> HIDE DEF S
    <3>3. \A y \in S(m + 1) : y <= w[m + 1]
      BY <2>1, <2>2, <2>4, <3>1, <3>2
    <3> QED BY <2>2, <3>1, <3>3
  <2>5. CASE m + 1 \in I /\ ~(x <= w[m + 1])
    <3>1. S(m + 1) = S(m) \cup {w[m + 1]} /\ w[m + 1] \in Nat
      BY <2>3, <2>5
    <3> HIDE DEF S
    <3>2. \A y \in S(m + 1) : y <= x
      BY <2>1, <2>2, <2>5, <3>1
    <3> QED BY <2>1, <2>2, <3>1, <3>2
  <2>6. CASE m + 1 \notin I
    <3>1. S(m + 1) = S(m)
      BY <2>3, <2>6
    <3> HIDE DEF S
    <3> QED BY <2>1, <2>2, <3>1
  <2> QED BY <2>4, <2>5, <2>6
<1>3. Q = Nat
  <2> HIDE DEF Top
  <2>1. Q \in SUBSET Nat
    OBVIOUS
  <2> HIDE DEF Q
  <2> QED BY <1>1, <1>2, <2>1, Induction
<1>4. Top(n)
  <2> HIDE DEF Top
  <2> QED BY <1>3
<1>5. S(n) = {0} \cup {w[i] : i \in I}
  OBVIOUS
<1> DEFINE all == {0} \cup {w[i] : i \in I}
<1>6. \E x \in all : \A y \in all : y <= x
  <2> HIDE DEF all
  <2>1. S(n) = all
    BY <1>5 DEF all
  <2> HIDE DEF S
  <2> QED BY <1>4, <2>1
<1>7. \A x \in all : x \in Nat
  OBVIOUS
<1> HIDE DEF all
<1>8. \E x \in all : \A y \in all : x >= y
  BY <1>6, <1>7
<1>9. Max(all) \in all /\ \A y \in all : Max(all) >= y
  BY <1>8 DEF Max
<1>10. \A x \in all : x <= Max(all)
  BY <1>7, <1>9
<1> QED
  BY <1>9, <1>10 DEF all

\* The mean of the ratings there are, if there are any; one of them is no less.
LEMMA MeanIs ==
    ASSUME NEW n \in Nat, NEW cells, DOMAIN cells = 1 .. n, \A s \in 1 .. n : cells[s] \in Nat \cup {None}
    PROVE  /\ Mean(cells) \in Nat \cup {None}
           /\ Mean(cells) = None <=> \A s \in 1 .. n : cells[s] = None
           /\ \A b \in Nat : Mean(cells) # None /\ Mean(cells) >= b =>
                 \E s \in 1 .. n : cells[s] # None /\ cells[s] >= b
<1> DEFINE R == Rated(cells)
           k == Cardinality(R)
           sum == SumOf(cells, R)
<1>1. R \in SUBSET (1 .. n) /\ \A s \in R : cells[s] \in Nat
  BY DEF Rated
<1>2. IsFiniteSet(R)
  <2>1. IsFiniteSet(1 .. n)
    BY FS_Interval
  <2> HIDE DEF R
  <2> QED BY <1>1, <2>1, FS_Subset
<1>3. Mean(cells) = IF R = {} THEN None ELSE sum \div k
  BY DEF Mean, SumOf
<1>4. \A s \in 1 .. n : s \in R <=> cells[s] # None
  BY DEF Rated
<1>5. CASE R = {}
  BY <1>3, <1>4, <1>5
<1>6. CASE R # {}
  <2>1. k \in Nat \ {0}
    <3> HIDE DEF R
    <3> QED BY <1>2, <1>6, FS_CardinalityType, FS_EmptySet
  <2>2. /\ sum \in Int
        /\ \A b \in Int : (\A x \in R : cells[x] <= b) => sum <= k * b
        /\ \A b \in Int : (\A x \in R : b <= cells[x]) => k * b <= sum
    <3> HIDE DEF R
    <3>1. \A x \in R : cells[x] \in Int
      BY <1>1
    <3> QED BY <1>2, <3>1, SumIs
  <2> HIDE DEF R, sum, k
  <2>3. sum \in Nat
    <3>1. \A x \in R : 0 <= cells[x]
      BY <1>1
    <3>2. k * 0 <= sum
      BY <2>2, <3>1
    <3> QED BY <2>1, <2>2, <3>2
  <2>4. sum \div k \in Nat /\ \A b \in Int : b <= sum \div k => k * b <= sum
    BY <2>1, <2>3, Quotient
  <2>5. Mean(cells) = sum \div k
    BY <1>3, <1>6
  <2>6. Mean(cells) # None
    BY <2>4, <2>5, RatingAssumption
  <2>7. ASSUME NEW b \in Nat, Mean(cells) >= b PROVE \E s \in 1 .. n : cells[s] # None /\ cells[s] >= b
    <3>1. k * b <= sum
      BY <2>4, <2>5, <2>7
    <3> SUFFICES ASSUME \A s \in R : cells[s] <= b - 1 PROVE FALSE
      BY <1>1, <1>4
    <3>2. sum <= k * (b - 1)
      BY <2>2
    <3>3. k * (b - 1) = k * b - k /\ k * b \in Int
      BY <2>1, Times
    <3> QED BY <2>1, <2>2, <3>1, <3>2, <3>3
  <2> QED BY <1>1, <1>4, <1>6, <2>4, <2>5, <2>6, <2>7
<1> QED BY <1>5, <1>6

\* Sorted elements are all there, once, in their order.
LEMMA OrderedBySorts ==
    ASSUME NEW S, IsFiniteSet(S), NEW before,
           \A a, b \in S : ~(<<a, b>> \in before /\ <<b, a>> \in before),
           \A a, b, c \in S : <<a, b>> \in before /\ <<b, c>> \in before => <<a, c>> \in before,
           \A a, b \in S : a = b \/ <<a, b>> \in before \/ <<b, a>> \in before
    PROVE  /\ Cardinality(S) \in Nat
           /\ OrderedBy(S, before) \in [1 .. Cardinality(S) -> S]
           /\ \A i, j \in 1 .. Cardinality(S) :
                 i < j => <<OrderedBy(S, before)[i], OrderedBy(S, before)[j]>> \in before
           /\ \A a \in S : \E i \in 1 .. Cardinality(S) : OrderedBy(S, before)[i] = a
<1> DEFINE N == Cardinality(S)
           ahead(a) == {b \in S : <<b, a>> \in before}
           place == [a \in S |-> Cardinality(ahead(a)) + 1]
           list == OrderedBy(S, before)
<1>1. N \in Nat
  BY FS_CardinalityType
<1>2. ASSUME NEW a \in S PROVE IsFiniteSet(ahead(a)) /\ Cardinality(ahead(a)) \in Nat /\ place[a] \in 1..N
  <2>1. IsFiniteSet(S \ {a}) /\ Cardinality(S \ {a}) = N - 1
    BY FS_RemoveElement
  <2>2. ahead(a) \in SUBSET (S \ {a})
    OBVIOUS
  <2>3. IsFiniteSet(ahead(a)) /\ Cardinality(ahead(a)) <= N - 1
    <3> DEFINE others == S \ {a}
    <3> HIDE DEF others, ahead
    <3> QED BY <2>1, <2>2, FS_Subset DEF others
  <2>4. Cardinality(ahead(a)) \in Nat
    BY <2>3, FS_CardinalityType
  <2> HIDE DEF N, ahead
  <2> QED
    BY <1>1, <2>3, <2>4
<1>3. ASSUME NEW a \in S, NEW b \in S, <<a, b>> \in before PROVE place[a] < place[b]
  <2>1. a \notin ahead(a) /\ ahead(a) \cup {a} \in SUBSET ahead(b)
    BY <1>3
  <2>2. Cardinality(ahead(a) \cup {a}) = Cardinality(ahead(a)) + 1
    BY <1>2, <2>1, FS_AddElement
  <2>3. Cardinality(ahead(a) \cup {a}) <= Cardinality(ahead(b))
    BY <1>2, <2>1, FS_Subset
  <2>4. Cardinality(ahead(a)) \in Nat /\ Cardinality(ahead(b)) \in Nat
    BY <1>2
  <2> HIDE DEF ahead
  <2> QED
    BY <2>2, <2>3, <2>4
<1>4. ASSUME NEW a \in S, NEW b \in S, place[a] = place[b] PROVE a = b
  <2>1. place[a] \in Nat
    <3> HIDE DEF place, N, ahead
    <3> QED BY <1>1, <1>2
  <2>2. ~(<<a, b>> \in before) /\ ~(<<b, a>> \in before)
    <3> HIDE DEF place
    <3> QED BY <1>3, <1>4, <2>1
  <2> QED
    BY <2>2
<1>5. \A n \in 1..N : \E a \in S : place[a] = n
  <2> DEFINE places == 1..N
  <2>1. IsFiniteSet(places) /\ Cardinality(places) = N
    BY <1>1, FS_Interval
  <2>2. place \in Injection(S, places)
    <3>1. place \in [S -> places]
      BY <1>2
    <3> HIDE DEF place, places
    <3> QED
      BY <1>4, <3>1 DEF Injection, IsInjective
  <2> HIDE DEF place, places
  <2>3. place \in Surjection(S, places)
    BY <2>1, <2>2, FS_Injection DEF N
  <2> QED
    BY <2>3 DEF Surjection, places
<1>6. ASSUME NEW n \in 1..N PROVE list[n] \in S /\ place[list[n]] = n
  <2>1. list[n] = CHOOSE a \in S : Cardinality(ahead(a)) = n - 1
    BY DEF OrderedBy
  <2>2. PICK a \in S : place[a] = n
    BY <1>5
  <2>3. Cardinality(ahead(a)) = n - 1
    <3>1. Cardinality(ahead(a)) \in Nat /\ Cardinality(ahead(a)) + 1 = n
      BY <1>2, <2>2
    <3> HIDE DEF ahead
    <3> QED BY <3>1
  <2> HIDE DEF list, ahead
  <2>4. list[n] \in S /\ Cardinality(ahead(list[n])) = n - 1
    BY <2>1, <2>3
  <2> QED
    BY <1>1, <2>4
<1>7. list \in [1..N -> S]
  <2> DEFINE nth(n) == CHOOSE a \in S : Cardinality(ahead(a)) = n - 1
  <2>1. list = [n \in 1..N |-> nth(n)]
    BY DEF OrderedBy
  <2> HIDE DEF list, nth
  <2> QED BY <1>6, <2>1
<1>8. ASSUME NEW i \in 1..N, NEW j \in 1..N, i < j PROVE <<list[i], list[j]>> \in before
  <2>1. list[i] \in S /\ list[j] \in S /\ place[list[i]] = i /\ place[list[j]] = j
    BY <1>6
  <2> HIDE DEF list, place, N
  <2>2. list[i] # list[j] /\ ~(<<list[j], list[i]>> \in before)
    BY <1>1, <1>3, <1>8, <2>1
  <2> QED BY <2>1, <2>2
<1>9. ASSUME NEW a \in S PROVE \E i \in 1..N : list[i] = a
  <2> HIDE DEF list, place, N
  <2>1. place[a] \in 1..N /\ list[place[a]] \in S /\ place[list[place[a]]] = place[a]
    BY <1>2, <1>6
  <2>2. list[place[a]] = a
    BY <1>4, <2>1
  <2> QED BY <2>1, <2>2
<1> QED
  BY <1>1, <1>7, <1>8, <1>9

\* A list sorted by rating: every place of it once, none before a better one.
Sorts(list, order) ==
    /\ order \in [1 .. Len(list) -> 1 .. Len(list)]
    /\ \A i \in 1 .. Len(list) : \E k \in 1 .. Len(list) : order[k] = i
    /\ \A k, l \in 1 .. Len(list) : k < l => order[k] # order[l]
    /\ \A k, l \in 1 .. Len(list) : k < l => list[order[k]].rating >= list[order[l]].rating
    /\ ByRating(list) = [k \in 1 .. Len(list) |-> list[order[k]]]

LEMMA ByRatingIs ==
    ASSUME NEW list, list \in Seq(ToSet(list)), \A i \in DOMAIN list : list[i].rating \in Nat
    PROVE  \E order : Sorts(list, order)
<1> DEFINE n == Len(list)
           places == 1 .. n
           before == {p \in (DOMAIN list) \X (DOMAIN list) :
                        \/ list[p[1]].rating > list[p[2]].rating
                        \/ list[p[1]].rating = list[p[2]].rating /\ p[1] < p[2]}
           order == OrderedBy(DOMAIN list, before)
<1>1. n \in Nat /\ DOMAIN list = places
  OBVIOUS
<1>2. IsFiniteSet(places) /\ Cardinality(places) = n
  BY <1>1, FS_Interval
<1>3. ByRating(list) = [k \in places |-> list[order[k]]]
  BY <1>1 DEF ByRating
<1>4. \A a, b \in places : <<a, b>> \in before <=> list[a].rating > list[b].rating \/ (list[a].rating = list[b].rating /\ a < b)
  BY <1>1
<1> HIDE DEF before
<1>5. /\ \A a, b \in places : ~(<<a, b>> \in before /\ <<b, a>> \in before)
      /\ \A a, b \in places : a = b \/ <<a, b>> \in before \/ <<b, a>> \in before
  BY <1>1, <1>4
<1>6. ASSUME NEW a \in places, NEW b \in places, NEW c \in places, <<a, b>> \in before, <<b, c>> \in before
      PROVE  <<a, c>> \in before
  <2>1. /\ list[a].rating \in Nat /\ list[b].rating \in Nat /\ list[c].rating \in Nat
        /\ a \in Nat /\ b \in Nat /\ c \in Nat
    BY <1>1
  <2>2. list[a].rating > list[b].rating \/ (list[a].rating = list[b].rating /\ a < b)
    BY <1>4, <1>6
  <2>3. list[b].rating > list[c].rating \/ (list[b].rating = list[c].rating /\ b < c)
    BY <1>4, <1>6
  <2>4. list[a].rating > list[c].rating \/ (list[a].rating = list[c].rating /\ a < c)
    BY <2>1, <2>2, <2>3
  <2> QED BY <1>4, <2>4
<1>7. /\ order \in [places -> places]
      /\ \A i, j \in places : i < j => <<order[i], order[j]>> \in before
      /\ \A a \in places : \E i \in places : order[i] = a
  <2> DEFINE o == OrderedBy(places, before)
  <2>1. o = order
    BY <1>1
  <2>2. /\ o \in [1 .. Cardinality(places) -> places]
        /\ \A i, j \in 1 .. Cardinality(places) : i < j => <<o[i], o[j]>> \in before
        /\ \A a \in places : \E i \in 1 .. Cardinality(places) : o[i] = a
    <3> HIDE DEF places
    <3> QED BY <1>2, <1>5, <1>6, OrderedBySorts
  <2> HIDE DEF o, order
  <2> QED BY <1>2, <2>1, <2>2
<1> HIDE DEF order
<1>8. \A k, l \in places : k < l => order[k] # order[l]
  <2> SUFFICES ASSUME NEW k \in places, NEW l \in places, k < l PROVE order[k] # order[l]
    OBVIOUS
  <2>1. order[k] \in places /\ order[l] \in places /\ <<order[k], order[l]>> \in before
    BY <1>7
  <2> HIDE DEF places
  <2> QED BY <1>5, <2>1
<1>9. \A k, l \in places : k < l => list[order[k]].rating >= list[order[l]].rating
  <2> SUFFICES ASSUME NEW k \in places, NEW l \in places, k < l PROVE list[order[k]].rating >= list[order[l]].rating
    OBVIOUS
  <2>1. order[k] \in places /\ order[l] \in places /\ <<order[k], order[l]>> \in before
    BY <1>7
  <2>2. list[order[k]].rating \in Nat /\ list[order[l]].rating \in Nat
    BY <1>1, <2>1
  <2>3. list[order[k]].rating > list[order[l]].rating \/ list[order[k]].rating = list[order[l]].rating
    BY <1>4, <2>1
  <2> QED BY <2>2, <2>3
<1> QED
  BY <1>3, <1>7, <1>8, <1>9 DEF Sorts

\* The fighters that are graded are those that do not fail, each once.
Grades(n, marks, fails, m, pick) ==
    /\ pick \in [1 .. m -> (1 .. n) \ fails]
    /\ \A i \in (1 .. n) \ fails : \E k \in 1 .. m : pick[k] = i
    /\ \A k, l \in 1 .. m : k < l => pick[k] < pick[l]
    /\ Graded(marks, fails) = [k \in 1 .. m |-> [who |-> pick[k], rating |-> marks[pick[k]]]]

LEMMA GradedIs ==
    ASSUME NEW n \in Nat, NEW marks, DOMAIN marks = 1 .. n, NEW fails
    PROVE  \E m \in Nat : \E pick : Grades(n, marks, fails, m, pick)
<1> DEFINE all == [i \in 1 .. n |-> i]
           good == Without(all, fails)
           m == Len(good)
<1>1. all \in Seq(1 .. n) /\ Len(all) = n
  OBVIOUS
<1>2. Graded(marks, fails) = [k \in DOMAIN good |-> [who |-> good[k], rating |-> marks[good[k]]]]
  BY DEF Graded
<1> HIDE DEF all
<1>3. good \in Seq((1 .. n) \ fails) /\ \E pick : PicksOf(all, fails, good, pick)
  BY <1>1, WithoutPicks
<1> HIDE DEF good
<1>4. m \in Nat /\ DOMAIN good = 1 .. m
  BY <1>3
<1>5. PICK pick \in [1 .. m -> 1 .. n] :
            /\ \A k \in 1 .. m : good[k] = all[pick[k]]
            /\ \A k, l \in 1 .. m : k < l => pick[k] < pick[l]
            /\ \A i \in 1 .. n : all[i] \notin fails => \E k \in 1 .. m : pick[k] = i
  BY <1>1, <1>3 DEF PicksOf
<1> HIDE DEF m
<1>6. \A k \in 1 .. m : good[k] = pick[k]
  BY <1>5 DEF all
<1>7. pick \in [1 .. m -> (1 .. n) \ fails]
  <2>1. \A k \in 1 .. m : good[k] \in (1 .. n) \ fails
    BY <1>3, <1>4
  <2> QED BY <1>5, <1>6, <2>1
<1>8. \A i \in (1 .. n) \ fails : \E k \in 1 .. m : pick[k] = i
  BY <1>5 DEF all
<1>9. Graded(marks, fails) = [k \in 1 .. m |-> [who |-> pick[k], rating |-> marks[pick[k]]]]
  BY <1>2, <1>4, <1>6
<1>10. Grades(n, marks, fails, m, pick)
  BY <1>4, <1>5, <1>7, <1>8, <1>9 DEF Grades
<1> QED
  BY <1>4, <1>10

\* The top of a sorted list of graded fighters: as many as there are and fit, each
\* once, and none that is not listed is better.
LEMMA BestGraded ==
    ASSUME NEW n \in Nat, NEW marks, DOMAIN marks = 1 .. n, NEW fails, NEW limit \in Nat,
           \A i \in (1 .. n) \ fails : marks[i] \in Nat
    PROVE  LET out    == TopOf(ByRating(Graded(marks, fails)), limit)
               good   == (1 .. n) \ fails
               listed == {c.who : c \in ToSet(out)}
           IN  /\ listed \subseteq good /\ Cardinality(listed) = Len(out)
               /\ Len(out) = Min({Cardinality(good), limit})
               /\ \A i \in good \ listed, j \in listed : marks[i] <= marks[j]
               /\ \A k, l \in DOMAIN out : k < l => out[k].rating >= out[l].rating
<1> DEFINE good == (1 .. n) \ fails
           list == Graded(marks, fails)
           out  == TopOf(ByRating(list), limit)
           listed == {c.who : c \in ToSet(out)}
<1> HIDE DEF good
<1>1. PICK m \in Nat : \E pick : Grades(n, marks, fails, m, pick)
  BY GradedIs
<1>2. PICK pick : Grades(n, marks, fails, m, pick)
  BY <1>1
<1>3. /\ pick \in [1 .. m -> good]
      /\ \A i \in good : \E k \in 1 .. m : pick[k] = i
      /\ \A k, l \in 1 .. m : k < l => pick[k] < pick[l]
      /\ list = [k \in 1 .. m |-> [who |-> pick[k], rating |-> marks[pick[k]]]]
  BY <1>2 DEF Grades, good
<1> HIDE DEF list
<1>4. \A k \in 1 .. m : pick[k] \in good
  BY <1>3
<1>5. \A i \in good : \E k \in 1 .. m : pick[k] = i
  BY <1>3
<1>6. \A k, l \in 1 .. m : k < l => pick[k] < pick[l]
  BY <1>3
<1>7. good \in SUBSET Nat /\ \A i \in good : marks[i] \in Nat
  BY DEF good
<1>8. /\ list \in Seq(ToSet(list)) /\ Len(list) = m /\ DOMAIN list = 1 .. m
      /\ \A k \in 1 .. m : list[k].who = pick[k] /\ list[k].rating = marks[pick[k]] /\ list[k].rating \in Nat
  <2>1. DOMAIN list = 1 .. m
    BY <1>3
  <2>2. list \in [1 .. m -> ToSet(list)]
    <3>1. \A k \in 1 .. m : list[k] \in ToSet(list)
      BY <2>1 DEF ToSet
    <3> QED BY <1>3, <3>1
  <2>3. list \in Seq(ToSet(list)) /\ Len(list) = m
    BY <2>1, <2>2
  <2> QED BY <1>3, <1>7, <2>1, <2>3
<1>9. PICK order : Sorts(list, order)
  <2>1. \A i \in DOMAIN list : list[i].rating \in Nat
    BY <1>8
  <2> QED BY <1>8, <2>1, ByRatingIs
<1>10. order \in [1 .. m -> 1 .. m]
  BY <1>8, <1>9 DEF Sorts
<1>11. \A i \in 1 .. m : \E k \in 1 .. m : order[k] = i
  BY <1>8, <1>9 DEF Sorts
<1>12. \A k, l \in 1 .. m : k < l => order[k] # order[l]
  BY <1>8, <1>9 DEF Sorts
<1>13. \A k, l \in 1 .. m : k < l => list[order[k]].rating >= list[order[l]].rating
  BY <1>8, <1>9 DEF Sorts
<1>14. ByRating(list) = [k \in 1 .. m |-> list[order[k]]]
  BY <1>8, <1>9 DEF Sorts
<1> DEFINE h == [k \in 1 .. m |-> pick[order[k]]]
           sorted == ByRating(list)
<1>15. /\ h \in [1 .. m -> good]
       /\ \A i \in good : \E k \in 1 .. m : h[k] = i
       /\ \A k, l \in 1 .. m : k < l => h[k] # h[l]
  <2>1. \A k, l \in 1 .. m : k # l => pick[k] # pick[l]
    <3> SUFFICES ASSUME NEW k \in 1 .. m, NEW l \in 1 .. m, k # l PROVE pick[k] # pick[l]
      OBVIOUS
    <3>1. pick[k] \in good /\ pick[l] \in good
      BY <1>4
    <3>4. pick[k] \in Nat /\ pick[l] \in Nat
      BY <1>7, <3>1
    <3>5. k < l \/ l < k
      OBVIOUS
    <3>2. k < l => pick[k] < pick[l]
      BY <1>6
    <3>3. l < k => pick[l] < pick[k]
      BY <1>6
    <3>6. pick[k] < pick[l] => pick[k] # pick[l]
      BY <3>4
    <3>7. pick[l] < pick[k] => pick[k] # pick[l]
      BY <3>4
    <3> QED BY <3>2, <3>3, <3>5, <3>6, <3>7
  <2>2. \A k \in 1 .. m : order[k] \in 1 .. m
    BY <1>10
  <2>3. ASSUME NEW i \in good PROVE \E k \in 1 .. m : h[k] = i
    <3>1. PICK j \in 1 .. m : pick[j] = i
      BY <1>5
    <3>2. PICK k \in 1 .. m : order[k] = j
      BY <1>11
    <3> QED BY <3>1, <3>2
  <2>4. h \in [1 .. m -> good]
    BY <1>4, <2>2
  <2>5. ASSUME NEW k \in 1 .. m, NEW l \in 1 .. m, k < l PROVE h[k] # h[l]
    <3>1. order[k] # order[l]
      BY <1>12, <2>5
    <3> QED BY <2>1, <2>2, <3>1
  <2> HIDE DEF h
  <2> QED BY <2>3, <2>4, <2>5
<1>16. \A k \in 1 .. m : sorted[k].who = h[k] /\ sorted[k].rating = marks[h[k]]
  BY <1>8, <1>10, <1>14
<1>17. \A k, l \in 1 .. m : k < l => marks[h[k]] >= marks[h[l]]
  <2> SUFFICES ASSUME NEW k \in 1 .. m, NEW l \in 1 .. m, k < l PROVE marks[h[k]] >= marks[h[l]]
    OBVIOUS
  <2>1. order[k] \in 1 .. m /\ order[l] \in 1 .. m
    BY <1>10
  <2>2. list[order[k]].rating >= list[order[l]].rating
    BY <1>13
  <2>3. list[order[k]].rating = marks[h[k]] /\ list[order[l]].rating = marks[h[l]]
    BY <1>8, <2>1
  <2> QED BY <2>2, <2>3
<1>18. sorted \in Seq(ToSet(sorted)) /\ Len(sorted) = m /\ DOMAIN sorted = 1 .. m
  <2>1. DOMAIN sorted = 1 .. m
    BY <1>14
  <2>2. sorted \in [1 .. m -> ToSet(sorted)]
    <3>1. \A k \in 1 .. m : sorted[k] \in ToSet(sorted)
      BY <2>1 DEF ToSet
    <3> QED BY <1>14, <3>1
  <2> HIDE DEF sorted
  <2> QED BY <2>1, <2>2
<1> DEFINE c == IF limit < m THEN limit ELSE m
<1>19. /\ DOMAIN out = 1 .. c /\ Len(out) = c /\ c \in Nat /\ c <= m /\ c <= limit /\ (c = m \/ c = limit)
       /\ \A k \in 1 .. c : out[k] = sorted[k]
  <2>1. c \in Nat /\ c <= m /\ c <= limit /\ (c = m \/ c = limit)
    OBVIOUS
  <2>2. out = SubSeq(sorted, 1, c)
    BY <1>18 DEF TopOf
  <2> HIDE DEF out, sorted, c
  <2> QED BY <1>18, <2>1, <2>2
<1> HIDE DEF h, sorted, c, out
<1>20. listed = {h[k] : k \in 1 .. c}
  <2>1. \A k \in 1 .. c : k \in 1 .. m /\ out[k].who = h[k]
    <3>1. \A k \in 1 .. c : k \in 1 .. m
      BY <1>19
    <3> QED BY <1>16, <1>19, <3>1
  <2>2. ToSet(out) = {out[k] : k \in 1 .. c}
    BY <1>19 DEF ToSet
  <2> QED BY <2>1, <2>2
<1>21. listed \in SUBSET good
  <2>1. \A k \in 1 .. c : k \in 1 .. m
    BY <1>19
  <2>2. \A k \in 1 .. m : h[k] \in good
    BY <1>15
  <2> QED BY <1>20, <2>1, <2>2
<1>22. Cardinality(good) = m
  <2>1. h \in Bijection(1 .. m, good)
    <3>1. \A k, l \in 1 .. m : h[k] = h[l] => k = l
      BY <1>15
    <3> QED BY <1>15, <3>1 DEF Bijection, Injection, Surjection, IsInjective
  <2>2. IsFiniteSet(1 .. m) /\ Cardinality(1 .. m) = m
    BY FS_Interval
  <2> QED BY <2>1, <2>2, FS_Bijection DEF ExistsBijection
<1>23. Cardinality(listed) = c
  <2> DEFINE g == [k \in 1 .. c |-> h[k]]
  <2>1. g \in Bijection(1 .. c, listed)
    <3>1. \A k \in 1 .. c : k \in 1 .. m /\ k \in Nat
      BY <1>19
    <3>2. \A k, l \in 1 .. c : g[k] = g[l] => k = l
      BY <1>15, <3>1
    <3>3. g \in [1 .. c -> listed] /\ \A x \in listed : \E k \in 1 .. c : g[k] = x
      BY <1>20
    <3> HIDE DEF g, listed
    <3> QED BY <3>2, <3>3 DEF Bijection, Injection, Surjection, IsInjective
  <2>2. IsFiniteSet(1 .. c) /\ Cardinality(1 .. c) = c
    BY <1>19, FS_Interval
  <2> HIDE DEF g, listed
  <2> QED BY <2>1, <2>2, FS_Bijection DEF ExistsBijection
<1>24. ASSUME NEW i \in good \ listed, NEW j \in listed PROVE marks[i] <= marks[j]
  <2>1. PICK k \in 1 .. m : h[k] = i
    BY <1>15
  <2>2. PICK l \in 1 .. c : h[l] = j
    BY <1>20
  <2>3. ~(k \in 1 .. c)
    BY <1>20, <2>1
  <2>4. l \in 1 .. m /\ l < k
    BY <1>19, <2>3
  <2>5. marks[h[l]] >= marks[h[k]] /\ marks[i] \in Nat /\ marks[j] \in Nat
    BY <1>7, <1>17, <1>21, <2>4
  <2> QED BY <2>1, <2>2, <2>5
<1>25. ASSUME NEW k \in DOMAIN out, NEW l \in DOMAIN out, k < l PROVE out[k].rating >= out[l].rating
  <2>1. k \in 1 .. c /\ l \in 1 .. c /\ k \in 1 .. m /\ l \in 1 .. m
    <3>1. \A i \in 1 .. c : i \in 1 .. m
      BY <1>19
    <3> QED BY <1>19, <3>1
  <2>2. out[k].rating = marks[h[k]] /\ out[l].rating = marks[h[l]]
    BY <1>16, <1>19, <2>1
  <2> QED BY <1>17, <1>25, <2>1, <2>2
<1>26. c = Min({Cardinality(good), limit})
  <2>1. \A y \in {m, limit} : c <= y
    BY <1>19
  <2>2. Min({m, limit}) \in {m, limit} /\ \A y \in {m, limit} : Min({m, limit}) <= y
    <3>1. \E x \in {m, limit} : \A y \in {m, limit} : x <= y
      BY <1>19
    <3> QED BY <3>1 DEF Min
  <2> QED BY <1>19, <1>22, <2>1, <2>2
<1> HIDE DEF listed
<1>27. /\ listed \subseteq good /\ Cardinality(listed) = Len(out)
       /\ Len(out) = Min({Cardinality(good), limit})
       /\ \A i \in good \ listed, j \in listed : marks[i] <= marks[j]
       /\ \A k, l \in DOMAIN out : k < l => out[k].rating >= out[l].rating
  BY <1>19, <1>21, <1>23, <1>24, <1>25, <1>26
<1> QED
  BY <1>27 DEF good, listed, out, list

-----------------------------------------------------------------------------
(* The inductive invariant                                                 *)

Sides  == {"team", "pool"}
Places == {"enter", "prepare", "sweep", "threats", "finish", "stop"}
Stages ==
    {Stage("reread", "team"), Stage("meta", "meta")}
    \cup {Stage(do, who) : do \in {"gate", "fill", "build"}, who \in Sides}
Answers == {Unknown} \cup {Known(list) : list \in Lists[Cup]}

\* A fighter as it was sent or filled in.
Recommending == {entry \in Published : entry.moveset # <<>>}
Specs ==
    [species : {spec.species : spec \in Sent},
     shadow  : {spec.shadow : spec \in Sent},
     fast    : {spec.fast : spec \in Sent} \cup {Head(entry.moveset) : entry \in Recommending},
     charged : {spec.charged : spec \in Sent} \cup {Tail(entry.moveset) : entry \in Recommending},
     valid   : {spec.valid : spec \in Sent}]

\* What the environment of a call keeps.
EnvTyped ==
    /\ current \in Docs /\ ctx \in {"live", "done"} /\ refreshed \in {"no", "yes"}
    /\ DOMAIN memo = DOMAIN Lists /\ memo[Cup] \in {Unset} \cup Answers

Typed ==
    /\ EnvTyped
    /\ call \in Requests /\ pc \in Places /\ at \in Nat \ {0} /\ plan \in Seq(Stages)
    /\ pc \in Places \ {"enter", "stop"} => doc \in Docs
    /\ specs \in [team : Seq(Specs), pool : Seq(Specs)]
    /\ \A who \in Sides : Len(specs[who]) = Len(call[who])
    /\ DOMAIN fighters = Sides \cup {"meta"}
    /\ \A who \in Sides \cup {"meta"} : fighters[who] \in Seq(ToSet(fighters[who]))
    /\ kept \in Seq(Published) /\ rows \in Seq(ToSet(rows)) /\ threats \in Seq(ToSet(threats))
    /\ outcome \in {"running", "ok", "error", "restricted"}
    /\ pc = "stop" <=> outcome # "running"

\* For one side, the stages that are left are in this order.
Turn == [reread |-> 0, gate |-> 1, meta |-> 1, fill |-> 2, build |-> 3]
InTurn(list) ==
    \A i, j \in DOMAIN list :
       i < j /\ list[i].who = list[j].who => Turn[list[i].do] < Turn[list[j].do]
Planned ==
    /\ ToSet(plan) \subseteq ToSet(Plan(call))
    /\ InTurn(plan)
    /\ pc \in {"enter", "sweep", "threats", "finish"} \/ outcome = "ok" => plan = <<>>
    /\ pc \in {"enter", "prepare", "sweep"} /\ at # 1 => plan # <<>> /\ Head(plan).do = "fill"

\* A stage has been passed.
Running == pc # "enter" /\ outcome # "error"
Passed(do, who) == Running /\ Stage(do, who) \in ToSet(Plan(call)) \ ToSet(plan)

\* Only a matchup that a refresh comes between fills in from another document.
Consistent ==
    Running =>
       /\ refreshed = "no" => doc = current /\ filler = doc
       /\ call.tool # "matchup" => filler = doc

\* A fighter has been filled in from what the rankings manager remembers.
FilledIn(who, n) ==
    LET sent    == call[who][n]
        spec    == specs[who][n]
        form    == MovesetId(filler, sent)
        entries == memo[Cup].entries
    IN  /\ sent.fast = None /\ memo[Cup] # Unset /\ Recommends(entries, form)
        /\ spec.species = sent.species /\ spec.shadow = sent.shadow
        /\ spec.fast = Head(Recommended(entries, form)) /\ spec.charged = Tail(Recommended(entries, form))
        /\ ToSet(Recommended(entries, form)) \cap Restricted(filler, form, NoLegacy(who), NoElite(who)) = {}

\* Until the gate has been passed the fighters are those that were sent.
Unfilled(who) ==
    pc = "enter" \/ Stage("gate", who) \in ToSet(plan) \/ Stage("reread", "team") \in ToSet(plan)
Resolved ==
    \A who \in Sides :
       /\ Unfilled(who) => specs[who] = call[who]
       /\ \A n \in DOMAIN call[who] : specs[who][n] = call[who][n] \/ FilledIn(who, n)
       /\ Passed("gate", who) =>
             \A n \in DOMAIN call[who] : ~SentConflict(doc, call[who][n], NoLegacy(who), NoElite(who))

\* The fighters are those of the client, past the gate and with every move.
FoughtBy(who, n) ==
    LET spec == specs[who][n]
    IN  /\ n \in DOMAIN call[who]
        /\ fighters[who][n] = Built(doc, spec) /\ Lookup(doc, spec.species, spec.shadow).ok
        /\ spec.fast # None
Fought ==
    outcome # "error" =>
       \A who \in Sides : fighters[who] # <<>> =>
          /\ \A n \in DOMAIN fighters[who] : FoughtBy(who, n)
          /\ Running /\ ~Unfilled(who) /\ Stage("fill", who) \notin ToSet(plan)
          /\ Guarded(call, who) => Passed("gate", who)

\* The meta is the top of the ranking, without what the flags and the document rule out.
Taken ==
    /\ memo[Cup] # Unset
    /\ kept = Kept(doc, Allowed(TopOf(memo[Cup].entries, call.top)))
Ranked ==
    /\ DOMAIN fighters.meta = DOMAIN kept
    /\ \A n \in DOMAIN kept : fighters.meta[n] = MetaFighter(kept[n])
    /\ kept # <<>> => pc # "enter" /\ Taken
    /\ Passed("meta", "meta") => Taken

\* The tools that tell of a team's coverage answer after a whole sweep, and of every
\* threat; "to" is the first meta entry that was not looked at.
RowOf(i) == [j \in DOMAIN Opponents |-> Cells(Rows[i], Opponents[j])]
OfTeam == call.tool \in {"team_analysis", "threat_coverage"}
Whole == Len(rows) = Len(Rows)
Told(to) ==
    {t.threat : t \in ToSet(threats)} =
       {kept[j].species : j \in {m \in DOMAIN kept : m < to /\ BestOf(OverallTable, m) < Threshold}}
Answered ==
    /\ Whole
    /\ call.tool = "threat_coverage" => Told(Len(kept) + 1)
Said ==
    IF call.tool = "team_analysis" THEN answer.overall = Aggregate(OverallTable)
    ELSE answer.coverage = [j \in DOMAIN kept |-> BestOf(OverallTable, j)] /\ answer.uncovered = threats
SweptSoFar ==
    /\ pc \in {"enter", "prepare"} => rows = <<>>
    /\ pc \in {"enter", "prepare", "sweep"} => threats = <<>>
    /\ \A i \in DOMAIN rows : i \in DOMAIN Rows /\ rows[i] = RowOf(i)
    /\ pc = "threats" => call.tool = "threat_coverage" /\ Whole /\ Told(at)
    /\ pc = "finish" /\ OfTeam /\ ctx = "live" => Answered
    /\ outcome = "ok" /\ OfTeam => Answered /\ Said

IInv ==
    /\ Typed /\ Planned /\ Consistent /\ Resolved /\ Fought /\ Ranked /\ SweptSoFar
    /\ OwnMovesRefused

-----------------------------------------------------------------------------
(* The preparation of a call                                               *)

Gating(who) == Stage("gate", who)
Filling(who) == Stage("fill", who)
Building(who) == Stage("build", who)

\* The plans there are.
LEMMA PlanCases ==
    ASSUME NEW request \in Requests
    PROVE  \/ /\ request.tool = "matchup"
              /\ \/ Plan(request) = <<Filling("team"), Building("team")>>
                 \/ Plan(request) = <<Stage("reread", "team"), Filling("team"), Building("team")>>
           \/ request.tool = "team_analysis" /\ Plan(request) = <<Stage("meta", "meta"), Gating("team"), Filling("team"), Building("team")>>
           \/ request.tool = "threat_coverage" /\ Plan(request) =
                 <<Gating("team"), Filling("team"), Building("team"), Gating("pool"), Filling("pool"), Building("pool"), Stage("meta", "meta")>>
           \/ /\ request.tool = "counter_finder"
              /\ \/ Plan(request) = <<Filling("team"), Building("team"), Stage("meta", "meta")>>
                 \/ Plan(request) = <<Filling("team"), Building("team"), Gating("pool"), Filling("pool"), Building("pool")>>
<1>1. request.tool \in Tools BY BattleAssumption
<1>2. CASE request.tool = "matchup"
  BY <1>2 DEF Plan, Filling, Building
<1>3. CASE request.tool = "team_analysis"
  BY <1>3 DEF Plan, Filling, Building, Gating
<1>4. CASE request.tool = "threat_coverage"
  BY <1>4 DEF Plan, Filling, Building, Gating
<1>5. CASE request.tool = "counter_finder"
  BY <1>5 DEF Plan, Filling, Building, Gating
<1> QED BY <1>1, <1>2, <1>3, <1>4, <1>5 DEF Tools

\* What the plans of all tools have in common.
LEMMA PlanFacts ==
    ASSUME NEW request \in Requests
    PROVE  LET stages == ToSet(Plan(request))
           IN  /\ Plan(request) \in Seq(Stages)
               /\ InTurn(Plan(request))
               /\ Stage("reread", "team") \in stages =>
                     /\ request.tool = "matchup"
                     /\ \A do, who : who # "team" => Stage(do, who) \notin stages
               /\ \A who : Guarded(request, who) /\ Stage("build", who) \in stages => Stage("gate", who) \in stages
               /\ request.tool \in {"team_analysis", "threat_coverage"} => Stage("meta", "meta") \in stages
<1> DEFINE steps == Plan(request)
<1>0. \A do, who : Stage(do, who).do = do /\ Stage(do, who).who = who
  BY DEF Stage
<1>1. CASE steps = <<Filling("team"), Building("team")>> /\ request.tool = "matchup"
  BY <1>0, <1>1 DEF Filling, Building, Stages, InTurn, Turn, ToSet, Guarded, Sides
<1>2. CASE steps = <<Stage("reread", "team"), Filling("team"), Building("team")>> /\ request.tool = "matchup"
  BY <1>0, <1>2 DEF Filling, Building, Stages, InTurn, Turn, ToSet, Guarded, Sides
<1>3. CASE steps = <<Stage("meta", "meta"), Gating("team"), Filling("team"), Building("team")>> /\ request.tool = "team_analysis"
  BY <1>0, <1>3 DEF Gating, Filling, Building, Stages, InTurn, Turn, ToSet, Guarded, Sides
<1>4. CASE /\ steps = <<Gating("team"), Filling("team"), Building("team"), Gating("pool"), Filling("pool"), Building("pool"), Stage("meta", "meta")>>
           /\ request.tool = "threat_coverage"
  BY <1>0, <1>4 DEF Gating, Filling, Building, Stages, InTurn, Turn, ToSet, Guarded, Sides
<1>5. CASE steps = <<Filling("team"), Building("team"), Stage("meta", "meta")>> /\ request.tool = "counter_finder"
  BY <1>0, <1>5 DEF Gating, Filling, Building, Stages, InTurn, Turn, ToSet, Guarded, Sides
<1>6. CASE steps = <<Filling("team"), Building("team"), Gating("pool"), Filling("pool"), Building("pool")>> /\ request.tool = "counter_finder"
  BY <1>0, <1>6 DEF Gating, Filling, Building, Stages, InTurn, Turn, ToSet, Guarded, Sides
<1> QED
  BY <1>1, <1>2, <1>3, <1>4, <1>5, <1>6, PlanCases

\* The first stage of a plan comes before all others of its side.
LEMMA Dropping ==
    ASSUME Typed, Planned, plan # <<>>
    PROVE  LET rest == Tail(plan)
           IN  /\ Head(plan) \in Stages /\ rest \in Seq(Stages) /\ InTurn(rest)
               /\ ToSet(plan) = {Head(plan)} \cup ToSet(rest)
               /\ \A stage \in ToSet(rest) :
                     stage.who = Head(plan).who => Turn[Head(plan).do] < Turn[stage.do]
               /\ Head(plan) \notin ToSet(rest)
<1> DEFINE rest == Tail(plan)
<1>1. /\ plan \in Seq(Stages) /\ Len(plan) \in Nat \ {0} /\ DOMAIN plan = 1..Len(plan)
      /\ Head(plan) = plan[1] /\ Head(plan) \in Stages /\ rest \in Seq(Stages)
      /\ DOMAIN rest = 1..(Len(plan) - 1) /\ \A i \in DOMAIN rest : rest[i] = plan[i + 1]
  BY HeadTailProperties DEF Typed
<1>2. ToSet(plan) = {Head(plan)} \cup ToSet(rest)
  BY <1>1, HeadAndTail
<1> HIDE DEF rest
<1>3. \A i, j \in DOMAIN plan :
         i < j /\ plan[i].who = plan[j].who => Turn[plan[i].do] < Turn[plan[j].do]
  BY DEF Planned, InTurn
<1>4. InTurn(rest)
  <2> SUFFICES ASSUME NEW i \in DOMAIN rest, NEW j \in DOMAIN rest, i < j, rest[i].who = rest[j].who
               PROVE  Turn[rest[i].do] < Turn[rest[j].do]
    BY DEF InTurn
  <2>1. i + 1 \in DOMAIN plan /\ j + 1 \in DOMAIN plan /\ i + 1 < j + 1
    BY <1>1
  <2> QED
    BY <1>1, <1>3, <2>1
<1>5. ASSUME NEW stage \in ToSet(rest), stage.who = Head(plan).who
      PROVE  Turn[Head(plan).do] < Turn[stage.do]
  <2>1. PICK i \in DOMAIN rest : stage = rest[i]
    BY DEF ToSet
  <2>2. i + 1 \in DOMAIN plan /\ 1 \in DOMAIN plan /\ 1 < i + 1 /\ stage = plan[i + 1]
    BY <1>1, <2>1
  <2> QED
    BY <1>1, <1>3, <1>5, <2>2
<1>6. Turn[Head(plan).do] \in Nat
  BY <1>1 DEF Stages, Stage, Turn
<1>7. Head(plan) \notin ToSet(rest)
  <2>1. ~(Turn[Head(plan).do] < Turn[Head(plan).do])
    BY <1>6
  <2> QED
    BY <1>5, <2>1
<1> QED
  BY <1>1, <1>2, <1>4, <1>5, <1>7 DEF rest

\* What a question to the rankings changes and answers.
LEMMA AskDoes ==
    ASSUME EnvTyped, NEW reply \in {Failed, Unknown} \cup {Known(list) : list \in Lists[Cup]},
           Ask(Cup, reply)
    PROVE  /\ EnvTyped'
           /\ UNCHANGED <<current, ctx, refreshed>>
           /\ memo[Cup] # Unset => memo'[Cup] = memo[Cup]
           /\ reply.entries = <<>> \/ reply.entries \in Lists[Cup]
           /\ reply.entries # <<>> => reply # Failed
           /\ reply # Failed => memo'[Cup] # Unset /\ memo'[Cup] = reply
<1>1. /\ Unset.status = "none" /\ Unknown.status = "unknown" /\ Failed.status = "error"
      /\ Unset.entries = <<>> /\ Unknown.entries = <<>> /\ Failed.entries = <<>>
      /\ \A list : Known(list).status = "ok" /\ Known(list).entries = list
  BY DEF Unset, Unknown, Failed, Known
<1>2. UNCHANGED <<current, ctx, refreshed>> /\ Get(Cup, reply)
  BY DEF Ask
<1>3. Cup \in DOMAIN memo
  BY BattleAssumption DEF EnvTyped
<1>4. reply.entries = <<>> \/ reply.entries \in Lists[Cup]
  BY <1>1
<1>5. reply # Failed => reply # Unset /\ reply \in Answers
  BY <1>1 DEF Answers
<1>6. CASE ctx = "live" /\ memo[Cup] # Unset /\ reply = memo[Cup] /\ UNCHANGED memo
  BY <1>1, <1>2, <1>4, <1>5, <1>6 DEF EnvTyped
<1>7. CASE (memo[Cup] = Unset \/ ctx = "done") /\ reply = Failed /\ UNCHANGED memo
  BY <1>1, <1>2, <1>4, <1>7 DEF EnvTyped
<1>8. CASE /\ ctx = "live" /\ memo[Cup] = Unset
           /\ reply \in {Known(l) : l \in Lists[Cup]} \cup {Unknown}
           /\ memo' = [memo EXCEPT ![Cup] = reply]
  <2>1. memo'[Cup] = reply /\ DOMAIN memo' = DOMAIN memo
    BY <1>3, <1>8
  <2>2. reply # Failed
    BY <1>1, <1>8
  <2> QED
    BY <1>2, <1>4, <1>5, <1>8, <2>1, <2>2 DEF EnvTyped
<1> QED
  BY <1>2, <1>6, <1>7, <1>8 DEF Get

\* What a call keeps from one step to the next.
Onward ==
    /\ call' = call
    /\ memo[Cup] # Unset => memo'[Cup] = memo[Cup]
    /\ ctx = "done" => ctx' = "done"
    /\ refreshed' = "no" => refreshed = "no" /\ current' = current
    /\ EnvTyped'
LEMMA NextOnward == ASSUME Typed, [Next]_vars PROVE Onward
<1> USE DEF Onward
<1>1. EnvTyped
  BY DEF Typed
<1>2. CASE UNCHANGED vars
  BY <1>1, <1>2 DEF vars, envVars, toolVars, EnvTyped
<1>3. CASE UNCHANGED envVars /\ UNCHANGED call
  BY <1>1, <1>3 DEF envVars, EnvTyped
<1>4. CASE Enter \/ Reread \/ Gate \/ Build \/ Prepared \/ Sweep \/ Threats \/ Simulate \/ Finish
  BY <1>3, <1>4 DEF Enter, Reread, Gate, Build, Prepared, Sweep, Threats, Simulate, Finish, Quiet
<1>5. ASSUME NEW reply \in {Failed, Unknown} \cup {Known(list) : list \in Lists[Cup]},
             Ask(Cup, reply), UNCHANGED call
      PROVE  Onward
  BY <1>1, <1>5, AskDoes
<1>6. CASE Fill
  BY <1>3, <1>5, <1>6 DEF Fill, Quiet
<1>7. CASE Meta
  BY <1>5, <1>7 DEF Meta
<1>8. CASE Around
  BY <1>1, <1>8 DEF Around, Refresh, Cancel, toolVars, EnvTyped
<1> QED
  BY <1>2, <1>4, <1>6, <1>7, <1>8 DEF Next

-----------------------------------------------------------------------------
(* Types                                                                   *)

\* The moveset a ranking recommends.
LEMMA Recommendation ==
    ASSUME NEW list \in Lists[Cup], NEW id, Recommends(list, id)
    PROVE  LET moveset == Recommended(list, id)
           IN  /\ moveset \in Seq(ToSet(moveset)) /\ moveset # <<>>
               /\ Head(moveset) \in {Head(entry.moveset) : entry \in Recommending}
               /\ Tail(moveset) \in {Tail(entry.moveset) : entry \in Recommending}
<1> DEFINE place == EntryIndex(list, id)
<1>1. list \in Seq(ToSet(list))
  BY BattleAssumption
<1>2. place \in 0 .. Len(list) /\ Len(list) \in Nat /\ DOMAIN list = 1..Len(list)
  BY <1>1, IndexIn
<1>3. place > 0 /\ list[place].moveset # <<>> /\ Recommended(list, id) = list[place].moveset
  BY DEF Recommends, Recommended
<1> HIDE DEF place
<1>4. place \in DOMAIN list
  BY <1>2, <1>3
<1>5. list[place] \in Recommending
  BY <1>3, <1>4 DEF Recommending, Published, ToSet
<1>6. list[place].moveset \in Seq(ToSet(list[place].moveset))
  BY <1>5, BattleAssumption DEF Recommending
<1> QED
  BY <1>3, <1>5, <1>6

\* A fighter that is filled in.
LEMMA DefaultedIs ==
    ASSUME NEW snapshot, NEW list \in Lists[Cup], NEW spec \in Specs, spec.fast = None,
           Recommends(list, MovesetId(snapshot, spec))
    PROVE  LET moveset == Recommended(list, MovesetId(snapshot, spec))
               filled  == Defaulted(snapshot, list, spec)
           IN  /\ filled \in Specs
               /\ filled.species = spec.species /\ filled.shadow = spec.shadow
               /\ filled.fast = Head(moveset) /\ filled.charged = Tail(moveset)
<1> DEFINE moveset == Recommended(list, MovesetId(snapshot, spec))
<1>1. /\ Head(moveset) \in {Head(entry.moveset) : entry \in Recommending}
      /\ Tail(moveset) \in {Tail(entry.moveset) : entry \in Recommending}
  BY Recommendation
<1>2. Defaulted(snapshot, list, spec) = [spec EXCEPT !.fast = Head(moveset), !.charged = Tail(moveset)]
  BY DEF Defaulted, Equip
<1> HIDE DEF moveset
<1> QED
  BY <1>1, <1>2 DEF Specs, moveset

\* What a client sent is a fighter.
LEMMA SentTyped ==
    ASSUME NEW request \in Requests
    PROVE  request.team \in Seq(Specs) /\ request.pool \in Seq(Specs)
<1>1. ASSUME NEW spec \in Sent PROVE spec \in Specs
  <2>1. spec = [species |-> spec.species, shadow |-> spec.shadow, fast |-> spec.fast,
                charged |-> spec.charged, valid |-> spec.valid]
    BY BattleAssumption
  <2> QED
    BY <2>1 DEF Specs
<1>2. ToSet(request.team) \subseteq Sent /\ ToSet(request.pool) \subseteq Sent
  BY DEF Sent
<1>3. /\ request.team \in Seq(ToSet(request.team))
      /\ request.pool \in Seq(ToSet(request.pool))
  BY BattleAssumption
<1>4. ASSUME NEW S, NEW list \in Seq(S), S \subseteq Specs PROVE list \in Seq(Specs)
  BY <1>4
<1> QED
  BY <1>1, <1>2, <1>3, <1>4

\* What has a value for each place of a list is a list as well.
LEMMA ListOf ==
    ASSUME NEW T, NEW list \in Seq(T), NEW new, new = [n \in DOMAIN list |-> new[n]]
    PROVE  new \in Seq(ToSet(new)) /\ Len(new) = Len(list) /\ DOMAIN new = DOMAIN list
<1>1. DOMAIN new = 1..Len(list) /\ Len(list) \in Nat /\ DOMAIN list = 1..Len(list)
  OBVIOUS
<1>2. new \in [1..Len(list) -> ToSet(new)]
  BY <1>1 DEF ToSet
<1>3. new \in Seq(ToSet(new))
  BY <1>1, <1>2
<1> QED
  BY <1>1, <1>3

\* A list and one more element is a list.
LEMMA Longer ==
    ASSUME NEW list, list \in Seq(ToSet(list)), NEW e
    PROVE  /\ Append(list, e) \in Seq(ToSet(Append(list, e)))
           /\ ToSet(Append(list, e)) = ToSet(list) \cup {e}
<1> DEFINE T == ToSet(list) \cup {e}
<1>1. list \in Seq(T) /\ e \in T
  OBVIOUS
<1> HIDE DEF T
<1>2. Append(list, e) \in Seq(T) /\ ToSet(Append(list, e)) = ToSet(list) \cup {e}
  BY <1>1, AppendKeeps
<1> QED
  BY <1>2 DEF T

\* What is left of a ranking for the meta.
LEMMA KeptIs ==
    ASSUME call \in Requests, NEW list, list = <<>> \/ list \in Lists[Cup]
    PROVE  LET usable == Kept(doc, Allowed(TopOf(list, call.top)))
           IN  /\ usable \in Seq(Published)
               /\ \A e \in ToSet(usable) :
                     /\ e \in Published /\ Usable(doc, e)
                     /\ call.tool = "counter_finder" =>
                           ToSet(e.moveset) \cap Restricted(doc, e.species, NoLegacy("meta"), NoElite("meta")) = {}
<1> DEFINE top == TopOf(list, call.top)
           fine == Allowed(top)
           banned == {e \in ToSet(top) :
                        ToSet(e.moveset) \cap Restricted(doc, e.species, NoLegacy("meta"), NoElite("meta")) # {}}
           useless == {e \in ToSet(fine) : ~Usable(doc, e)}
<1>1. list \in Seq(Published)
  <2>1. CASE list = <<>>
    BY <2>1
  <2>2. CASE list \in Lists[Cup]
    <3>1. list \in Seq(ToSet(list)) /\ ToSet(list) \subseteq Published
      BY <2>2, BattleAssumption DEF Published
    <3> QED
      BY <3>1
  <2> QED
    BY <2>1, <2>2
<1>2. top \in Seq(Published)
  <2> DEFINE n == IF call.top < Len(list) THEN call.top ELSE Len(list)
  <2>1. n \in Int /\ n <= Len(list) /\ Len(list) \in Nat
    BY <1>1, BattleAssumption
  <2>2. \A i \in 1..n : list[i] \in Published
    BY <1>1, <2>1
  <2> HIDE DEF n
  <2>3. SubSeq(list, 1, n) \in Seq(Published)
    BY <2>1, <2>2, SubSeqProperties
  <2> QED
    BY <2>3 DEF TopOf, n
<1> HIDE DEF top
<1>3. /\ fine \in Seq(Published)
      /\ call.tool = "counter_finder" => ToSet(fine) = ToSet(top) \ banned
  <2>1. CASE call.tool # "counter_finder"
    BY <1>2, <2>1 DEF Allowed
  <2>2. CASE call.tool = "counter_finder"
    <3>1. fine = Without(top, banned)
      BY <2>2 DEF Allowed
    <3> HIDE DEF banned
    <3>2. Without(top, banned) \in Seq(Published \ banned) /\ ToSet(Without(top, banned)) = ToSet(top) \ banned
      BY <1>2, WithoutKeeps
    <3> QED
      BY <3>1, <3>2
  <2> QED
    BY <2>1, <2>2
<1> HIDE DEF fine
<1>4. /\ Kept(doc, fine) \in Seq(Published)
      /\ ToSet(Kept(doc, fine)) = ToSet(fine) \ useless
  <2>1. Kept(doc, fine) = Without(fine, useless)
    BY DEF Kept
  <2> HIDE DEF useless
  <2>2. Without(fine, useless) \in Seq(Published \ useless) /\ ToSet(Without(fine, useless)) = ToSet(fine) \ useless
    BY <1>3, WithoutKeeps
  <2> QED
    BY <2>1, <2>2
<1>5. ToSet(fine) \subseteq Published
  BY <1>3 DEF ToSet
<1> QED
  BY <1>3, <1>4, <1>5 DEF fine, top

LEMMA InitTyped == Init => Typed
<1> SUFFICES ASSUME Init PROVE Typed
  OBVIOUS
<1> USE DEF Init
<1>1. EnvTyped
  <2>1. Cup \in DOMAIN Lists
    BY BattleAssumption
  <2> QED
    BY <2>1 DEF EnvInit, EnvTyped
<1>2. specs \in [team : Seq(Specs), pool : Seq(Specs)] /\ \A who \in Sides : Len(specs[who]) = Len(call[who])
  BY SentTyped DEF Sides
<1>3. \A who \in Sides \cup {"meta"} : fighters[who] = <<>>
  BY DEF Sides
<1>4. DOMAIN fighters = Sides \cup {"meta"}
  BY DEF Sides
<1>5. \A T : <<>> \in Seq(T)
  OBVIOUS
<1>6. /\ call \in Requests /\ pc = "enter" /\ outcome = "running" /\ at = 1
      /\ plan = <<>> /\ kept = <<>> /\ rows = <<>> /\ threats = <<>>
  OBVIOUS
<1>7. /\ \A who \in Sides \cup {"meta"} : fighters[who] \in Seq(ToSet(fighters[who]))
      /\ rows \in Seq(ToSet(rows)) /\ threats \in Seq(ToSet(threats)) /\ kept \in Seq(Published)
      /\ plan \in Seq(Stages)
  BY <1>3, <1>5, <1>6
<1> HIDE DEF Init
<1> QED
  BY <1>1, <1>2, <1>4, <1>6, <1>7 DEF Typed, Places

\* An empty list recommends nothing.
LEMMA NothingRecommended == ASSUME NEW id PROVE ~Recommends(<<>>, id)
<1>1. EntryIndex(<<>>, id) \in 0 .. Len(<<>>)
  <2>1. <<>> \in Seq(Nat)
    OBVIOUS
  <2> QED
    BY <2>1, IndexIn
<1> QED
  BY <1>1 DEF Recommends

\* What filling in a moveset does to the fighters.
LEMMA FillChanges ==
    ASSUME Typed, Planned, Fill, specs' # specs
    PROVE  LET who == Head(plan).who
               spec == specs[who][at]
           IN  /\ who \in Sides /\ Head(plan) = Stage("fill", who)
               /\ at \in DOMAIN specs[who] /\ spec.fast = None
               /\ UNCHANGED <<plan, outcome, pc>>
               /\ \E list \in Lists[Cup] :
                     /\ memo'[Cup] # Unset /\ memo'[Cup].entries = list
                     /\ Recommends(list, MovesetId(filler, spec))
                     /\ ~FilledConflict(filler, list, spec, NoLegacy(who), NoElite(who))
                     /\ specs' = [specs EXCEPT ![who][at] = Defaulted(filler, list, spec)]
<1> DEFINE who == Head(plan).who
           spec == specs[who][at]
<1>1. pc = "prepare" /\ plan # <<>> /\ Head(plan).do = "fill"
  BY DEF Fill, Due
<1>2. Head(plan) = Stage("fill", who) /\ who \in Sides
  <2>1. Head(plan) \in Stages
    BY <1>1, Dropping
  <2> QED
    BY <1>1, <2>1 DEF Stages, Stage
<1>3. /\ at <= Len(specs[who]) /\ spec.fast = None /\ UNCHANGED plan
      /\ \E reply \in {Failed, Unknown} \cup {Known(l) : l \in Lists[Cup]} :
            /\ Ask(Cup, reply)
            /\ IF ~Recommends(reply.entries, MovesetId(filler, spec))
               THEN Give("error") /\ UNCHANGED <<at, specs>>
               ELSE IF FilledConflict(filler, reply.entries, spec, NoLegacy(who), NoElite(who))
               THEN Give("restricted") /\ UNCHANGED <<at, specs>>
               ELSE /\ specs' = [specs EXCEPT ![who][at] = Defaulted(filler, reply.entries, @)]
                    /\ at' = at + 1 /\ UNCHANGED <<pc, outcome>>
  BY DEF Fill
<1>4. PICK reply \in {Failed, Unknown} \cup {Known(l) : l \in Lists[Cup]} :
            /\ Ask(Cup, reply)
            /\ Recommends(reply.entries, MovesetId(filler, spec))
            /\ ~FilledConflict(filler, reply.entries, spec, NoLegacy(who), NoElite(who))
            /\ specs' = [specs EXCEPT ![who][at] = Defaulted(filler, reply.entries, spec)]
            /\ UNCHANGED <<pc, outcome>>
  BY <1>3
<1>5. reply.entries \in Lists[Cup] /\ memo'[Cup] # Unset /\ memo'[Cup] = reply
  <2>1. reply.entries # <<>>
    BY <1>4, NothingRecommended
  <2> QED
    BY <1>4, <2>1, AskDoes DEF Typed
<1>6. at \in DOMAIN specs[who]
  <2>1. specs[who] \in Seq(Specs) /\ at \in Nat \ {0}
    BY <1>2 DEF Typed, Sides
  <2> QED
    BY <1>3, <2>1
<1> QED
  BY <1>2, <1>3, <1>4, <1>5, <1>6

\* What building the fighters of a side does.
LEMMA BuildDoes ==
    ASSUME Typed, Planned, Build
    PROVE  LET who == Head(plan).who
           IN  /\ who \in Sides /\ Head(plan) = Stage("build", who)
               /\ \/ outcome' = "error" /\ UNCHANGED fighters
                  \/ /\ \A n \in DOMAIN specs[who] : Buildable(doc, specs[who][n])
                     /\ fighters' = [fighters EXCEPT ![who] =
                                      [n \in DOMAIN specs[who] |-> Built(doc, specs[who][n])]]
                     /\ plan' = Tail(plan) /\ UNCHANGED <<pc, outcome>>
<1> DEFINE who == Head(plan).who
<1>1. pc = "prepare" /\ plan # <<>> /\ Head(plan).do = "build"
  BY DEF Build, Due
<1>2. Head(plan) = Stage("build", who) /\ who \in Sides
  <2>1. Head(plan) \in Stages
    BY <1>1, Dropping
  <2> QED
    BY <1>1, <2>1 DEF Stages, Stage
<1>3. IF \A n \in DOMAIN specs[who] : Buildable(doc, specs[who][n])
      THEN /\ fighters' = [fighters EXCEPT ![who] =
                 [n \in DOMAIN specs[who] |-> Built(doc, specs[who][n])]]
           /\ plan' = Tail(plan) /\ UNCHANGED <<pc, outcome>>
      ELSE Give("error") /\ UNCHANGED <<plan, fighters>>
  BY DEF Build
<1> HIDE DEF who
<1> QED
  BY <1>2, <1>3 DEF Give, who

\* What taking the meta from a ranking does.
LEMMA MetaDoes ==
    ASSUME Typed, Planned, Meta
    PROVE  /\ Head(plan) = Stage("meta", "meta")
           /\ \/ outcome' = "error" /\ UNCHANGED <<fighters, kept>>
              \/ /\ Taken' /\ memo'[Cup].entries \in Lists[Cup] /\ kept' \in Seq(Published)
                 /\ fighters' = [fighters EXCEPT !.meta = [n \in DOMAIN kept' |-> MetaFighter(kept'[n])]]
                 /\ plan' = Tail(plan) /\ UNCHANGED <<pc, outcome>>
<1>1. pc = "prepare" /\ plan # <<>> /\ Head(plan).do = "meta"
  BY DEF Meta, Due
<1>2. Head(plan) = Stage("meta", "meta")
  <2>1. Head(plan) \in Stages
    BY <1>1, Dropping
  <2> QED
    BY <1>1, <2>1 DEF Stages, Stage
<1>3. PICK reply \in {Failed, Unknown} \cup {Known(l) : l \in Lists[Cup]} :
         /\ Ask(Cup, reply)
         /\ IF reply \in {Failed, Unknown}
            THEN Give("error") /\ UNCHANGED <<plan, kept, fighters>>
            ELSE LET usable == Kept(doc, Allowed(TopOf(reply.entries, call.top)))
                 IN  /\ kept' = usable
                     /\ fighters' = [fighters EXCEPT !.meta =
                            [n \in DOMAIN usable |-> MetaFighter(usable[n])]]
                     /\ plan' = Tail(plan) /\ UNCHANGED <<pc, outcome>>
  BY DEF Meta
<1>4. UNCHANGED <<call, doc>>
  BY DEF Meta
<1>5. CASE reply \in {Failed, Unknown}
  BY <1>2, <1>3, <1>5 DEF Give
<1>6. CASE reply \notin {Failed, Unknown}
  <2>1. PICK list \in Lists[Cup] : reply = Known(list)
    BY <1>6
  <2>2. memo'[Cup] # Unset /\ memo'[Cup].entries = list /\ reply.entries = list
    BY <1>3, <1>6, <2>1, AskDoes DEF Typed, Known
  <2> DEFINE usable == Kept(doc, Allowed(TopOf(list, call.top)))
  <2>3. usable \in Seq(Published)
    BY KeptIs DEF Typed
  <2>4. /\ kept' = usable /\ fighters' = [fighters EXCEPT !.meta = [n \in DOMAIN usable |-> MetaFighter(usable[n])]]
        /\ plan' = Tail(plan) /\ UNCHANGED <<pc, outcome>>
    BY <1>3, <1>6, <2>2
  <2>5. Taken'
    BY <1>4, <2>2, <2>4 DEF Taken, Allowed, NoLegacy, NoElite
  <2> HIDE DEF usable
  <2> QED
    BY <1>2, <2>2, <2>3, <2>4, <2>5
<1> QED
  BY <1>5, <1>6

\* Each action keeps the types.
LEMMA NextTyped == Typed /\ Planned /\ [Next]_vars => Typed'
<1> SUFFICES ASSUME Typed, Planned, [Next]_vars PROVE Typed'
  OBVIOUS
<1>0. EnvTyped' /\ call' = call
  BY NextOnward DEF Onward
<1>1. ASSUME plan # <<>> PROVE Tail(plan) \in Seq(Stages) /\ Head(plan) \in Stages
  BY <1>1, Dropping
<1>2. CASE Enter
  <2>1. Plan(call) \in Seq(Stages) /\ current \in Docs
    BY PlanFacts DEF Typed, EnvTyped
  <2> QED
    BY <1>0, <1>2, <2>1 DEF Enter, Give, Typed, Places, Quiet
<1>3. CASE Reread \/ Gate
  <2>1. pc = "prepare" /\ plan # <<>>
    BY <1>3 DEF Reread, Gate, Due
  <2>2. /\ pc' \in {"prepare", "stop"} /\ doc' = doc /\ (pc' = "stop" <=> outcome' # "running")
        /\ outcome' \in {"running", "restricted"} /\ plan' \in {plan, Tail(plan)}
        /\ UNCHANGED <<at, specs, fighters, kept, rows, threats>>
    BY <1>3, <2>1 DEF Reread, Gate, Give, Typed
  <2> QED
    BY <1>0, <1>1, <2>1, <2>2 DEF Typed, Places
<1>4. CASE Fill
  <2>1. pc = "prepare" /\ plan # <<>>
    BY <1>4 DEF Fill, Due
  <2>2. /\ pc' \in {"prepare", "stop"} /\ doc' = doc /\ (pc' = "stop" <=> outcome' # "running")
        /\ outcome' \in {"running", "error", "restricted"} /\ plan' \in {plan, Tail(plan)}
        /\ at' \in {1, at, at + 1}
        /\ UNCHANGED <<fighters, kept, rows, threats>>
    BY <1>4, <2>1 DEF Fill, Give, Typed
  <2>3. specs' \in [team : Seq(Specs), pool : Seq(Specs)] /\ \A who \in Sides : Len(specs'[who]) = Len(specs[who])
    <3>1. CASE specs' = specs
      BY <3>1 DEF Typed
    <3>2. ASSUME NEW who \in Sides, at \in DOMAIN specs[who], NEW spec \in Specs,
                 specs' = [specs EXCEPT ![who][at] = spec]
          PROVE  specs' \in [team : Seq(Specs), pool : Seq(Specs)] /\ \A w \in Sides : Len(specs'[w]) = Len(specs[w])
      <4> DEFINE new == [specs[who] EXCEPT ![at] = spec]
      <4>1. specs[who] \in Seq(Specs)
        BY DEF Typed, Sides
      <4>2. new \in Seq(Specs) /\ Len(new) = Len(specs[who])
        BY <3>2, <4>1
      <4>3. specs' = [specs EXCEPT ![who] = new]
        BY <3>2
      <4> HIDE DEF new
      <4> QED
        BY <4>2, <4>3 DEF Typed, Sides
    <3>3. CASE specs' # specs
      <4> DEFINE who == Head(plan).who
                 spec == specs[who][at]
      <4>1. who \in Sides /\ at \in DOMAIN specs[who] /\ spec.fast = None
        BY <1>4, <3>3, FillChanges
      <4>2. PICK list \in Lists[Cup] :
               /\ Recommends(list, MovesetId(filler, spec))
               /\ specs' = [specs EXCEPT ![who][at] = Defaulted(filler, list, spec)]
        BY <1>4, <3>3, FillChanges
      <4>3. spec \in Specs
        BY <4>1 DEF Typed, Sides
      <4> HIDE DEF who, spec
      <4>4. Defaulted(filler, list, spec) \in Specs
        BY <4>1, <4>2, <4>3, DefaultedIs
      <4> QED
        BY <3>2, <4>1, <4>2, <4>4
    <3> QED
      BY <3>1, <3>3
  <2>4. at' \in Nat \ {0}
    BY <2>2 DEF Typed
  <2>5. \A who \in Sides : Len(specs'[who]) = Len(call'[who])
    BY <1>0, <2>3 DEF Typed
  <2> QED
    BY <1>0, <1>1, <2>1, <2>2, <2>3, <2>4, <2>5 DEF Typed, Places
<1>5. CASE Build
  <2>1. pc = "prepare" /\ plan # <<>>
    BY <1>5 DEF Build, Due
  <2>2. /\ pc' \in {"prepare", "stop"} /\ doc' = doc /\ (pc' = "stop" <=> outcome' # "running")
        /\ outcome' \in {"running", "error"} /\ plan' \in {plan, Tail(plan)}
        /\ UNCHANGED <<at, specs, kept, rows, threats>>
    BY <1>5, <2>1 DEF Build, Give, Typed
  <2>3. /\ DOMAIN fighters' = Sides \cup {"meta"}
        /\ \A who \in Sides \cup {"meta"} : fighters'[who] \in Seq(ToSet(fighters'[who]))
    <3>1. CASE UNCHANGED fighters
      BY <3>1 DEF Typed
    <3>2. CASE \E who \in Sides : fighters' = [fighters EXCEPT ![who] =
                                             [n \in DOMAIN specs[who] |-> Built(doc, specs[who][n])]]
      <4>1. PICK who \in Sides : fighters' = [fighters EXCEPT ![who] =
                                             [n \in DOMAIN specs[who] |-> Built(doc, specs[who][n])]]
        BY <3>2
      <4> DEFINE new == [n \in DOMAIN specs[who] |-> Built(doc, specs[who][n])]
      <4>2. specs[who] \in Seq(Specs)
        BY DEF Typed, Sides
      <4>3. new = [n \in DOMAIN specs[who] |-> new[n]]
        OBVIOUS
      <4> HIDE DEF new
      <4>4. new \in Seq(ToSet(new))
        BY <4>2, <4>3, ListOf
      <4> QED
        BY <4>1, <4>4 DEF Typed, new
    <3> QED
      BY <1>5, <3>1, <3>2, BuildDoes
  <2> QED
    BY <1>0, <1>1, <2>1, <2>2, <2>3 DEF Typed, Places
<1>6. CASE Meta
  <2>1. pc = "prepare" /\ plan # <<>>
    BY <1>6 DEF Meta, Due
  <2>2. /\ pc' \in {"prepare", "stop"} /\ doc' = doc /\ (pc' = "stop" <=> outcome' # "running")
        /\ outcome' \in {"running", "error"} /\ plan' \in {plan, Tail(plan)}
        /\ UNCHANGED <<at, specs, rows, threats>>
    BY <1>6, <2>1 DEF Meta, Give, Typed
  <2>3. /\ kept' \in Seq(Published) /\ DOMAIN fighters' = Sides \cup {"meta"}
        /\ \A who \in Sides \cup {"meta"} : fighters'[who] \in Seq(ToSet(fighters'[who]))
    <3>1. CASE UNCHANGED <<fighters, kept>>
      BY <3>1 DEF Typed
    <3>2. CASE /\ kept' \in Seq(Published)
               /\ fighters' = [fighters EXCEPT !.meta = [n \in DOMAIN kept' |-> MetaFighter(kept'[n])]]
      <4> DEFINE new == [n \in DOMAIN kept' |-> MetaFighter(kept'[n])]
      <4>1. new = [n \in DOMAIN kept' |-> new[n]]
        OBVIOUS
      <4> HIDE DEF new
      <4>2. new \in Seq(ToSet(new))
        BY <3>2, <4>1, ListOf
      <4> QED
        BY <3>2, <4>2 DEF Typed, new
    <3> QED
      BY <1>6, <3>1, <3>2, MetaDoes
  <2> QED
    BY <1>0, <1>1, <2>1, <2>2, <2>3 DEF Typed, Places
<1>7. CASE Prepared
  BY <1>0, <1>7 DEF Prepared, Typed, Places
<1>8. CASE Sweep
  <2>1. /\ pc = "sweep" /\ pc' \in {"sweep", "threats", "finish", "stop"} /\ (pc' = "stop" <=> outcome' # "running")
        /\ outcome' \in {"running", "error"}
        /\ UNCHANGED <<call, plan, at, doc, specs, fighters, kept, threats>>
    BY <1>8 DEF Sweep, Give, Typed
  <2>2. rows' \in Seq(ToSet(rows'))
    <3>1. rows' = rows \/ \E row : rows' = Append(rows, row)
      BY <1>8 DEF Sweep
    <3>2. ASSUME NEW row, rows' = Append(rows, row) PROVE rows' \in Seq(ToSet(rows'))
      <4>1. rows \in Seq(ToSet(rows))
        BY DEF Typed
      <4> QED
        BY <3>2, <4>1, Longer
    <3> QED
      BY <3>1, <3>2 DEF Typed
  <2> QED
    BY <1>0, <2>1, <2>2 DEF Typed, Places
<1>9. CASE Threats
  <2>1. /\ pc = "threats" /\ pc' \in {"threats", "finish"} /\ at' \in {at, at + 1}
        /\ UNCHANGED <<call, plan, doc, specs, fighters, kept, rows, outcome>>
    BY <1>9 DEF Threats
  <2>2. threats' \in Seq(ToSet(threats'))
    <3>1. threats' = threats \/ \E threat : threats' = Append(threats, threat)
      BY <1>9 DEF Threats
    <3>2. ASSUME NEW threat, threats' = Append(threats, threat) PROVE threats' \in Seq(ToSet(threats'))
      <4>1. threats \in Seq(ToSet(threats))
        BY DEF Typed
      <4> QED
        BY <3>2, <4>1, Longer
    <3> QED
      BY <3>1, <3>2 DEF Typed
  <2> QED
    BY <1>0, <2>1, <2>2 DEF Typed, Places
<1>10. CASE Simulate \/ Finish
  BY <1>0, <1>10 DEF Simulate, Finish, Give, Typed, Places
<1>11. CASE Around \/ UNCHANGED vars
  BY <1>0, <1>11 DEF Around, vars, toolVars, Typed
<1> QED
  BY <1>2, <1>3, <1>4, <1>5, <1>6, <1>7, <1>8, <1>9, <1>10, <1>11 DEF Next

-----------------------------------------------------------------------------
(* The plan                                                                *)

\* The first step of a call, and what no later one changes.
LEMMA AtEntry == ASSUME [Next]_vars, pc = "enter" PROVE Enter \/ UNCHANGED toolVars
BY DEF Next, Enter, Reread, Gate, Fill, Build, Meta, Prepared, Sweep, Threats, Simulate, Finish, Around,
       Due, vars

LEMMA Later ==
    ASSUME Typed, Planned, [Next]_vars, pc # "enter"
    PROVE  /\ doc' = doc /\ pc' # "enter" /\ (outcome = "error" => outcome' = "error")
           /\ plan' = plan \/ (plan # <<>> /\ plan' = Tail(plan))
           /\ ToSet(plan') \subseteq ToSet(plan)
           /\ filler' = filler \/ Reread
<1>1. /\ doc' = doc /\ pc' # "enter" /\ (outcome = "error" => outcome' = "error")
      /\ plan' = plan \/ (plan # <<>> /\ plan' = Tail(plan))
      /\ filler' = filler \/ Reread
  <2>1. CASE Reread \/ Gate \/ Fill \/ Build \/ Meta
    BY <2>1 DEF Reread, Gate, Fill, Build, Meta, Due, Give, Typed
  <2>2. CASE Prepared \/ Sweep \/ Threats \/ Simulate \/ Finish
    BY <2>2 DEF Prepared, Sweep, Threats, Simulate, Finish, Give, Typed
  <2>3. CASE Around \/ UNCHANGED vars
    BY <2>3 DEF Around, toolVars, vars
  <2> QED
    BY <2>1, <2>2, <2>3 DEF Next, Enter
<1>2. plan # <<>> => ToSet(Tail(plan)) \subseteq ToSet(plan)
  BY Dropping
<1> QED
  BY <1>1, <1>2

\* Nothing happens to a call that has stopped.
LEMMA Stopped == ASSUME [Next]_vars, pc = "stop" PROVE UNCHANGED vars
BY DEF Next, Enter, Reread, Gate, Fill, Build, Meta, Prepared, Sweep, Threats, Simulate, Finish, Around, Due

LEMMA NextPlanned == Typed /\ Planned /\ [Next]_vars => Planned'
<1> SUFFICES ASSUME Typed, Planned, [Next]_vars PROVE Planned'
  OBVIOUS
<1>0. call' = call
  BY NextOnward DEF Onward
<1>1. ASSUME plan # <<>>
      PROVE  InTurn(Tail(plan)) /\ ToSet(Tail(plan)) \subseteq ToSet(plan)
  BY <1>1, Dropping
<1>2. CASE Enter
  <2>1. InTurn(Plan(call))
    BY PlanFacts DEF Typed
  <2>2. pc = "enter" /\ plan = <<>> /\ at = 1 /\ at' = at
    BY <1>2 DEF Enter, Planned
  <2>3. \/ pc' = "stop" /\ outcome' = "error" /\ plan' = plan
        \/ pc' = "prepare" /\ outcome' = "running" /\ plan' = Plan(call)
    BY <1>2, <2>2 DEF Enter, Give, Typed
  <2> QED
    BY <1>0, <2>1, <2>2, <2>3 DEF Planned
<1>3. CASE Reread \/ Gate \/ Build \/ Meta
  <2>1. /\ pc = "prepare" /\ plan # <<>> /\ Head(plan).do # "fill" /\ at' = at
        /\ plan' \in {plan, Tail(plan)} /\ pc' \in {"prepare", "stop"} /\ outcome' # "ok"
    BY <1>3 DEF Reread, Gate, Build, Meta, Due, Give, Typed
  <2>2. at = 1
    BY <2>1 DEF Planned
  <2> QED
    BY <1>0, <1>1, <2>1, <2>2 DEF Planned
<1>4. CASE Fill
  <2>1. /\ pc = "prepare" /\ plan # <<>> /\ Head(plan).do = "fill"
        /\ plan' = plan \/ (plan' = Tail(plan) /\ at' = 1)
        /\ pc' \in {"prepare", "stop"} /\ outcome' # "ok"
    BY <1>4 DEF Fill, Due, Give, Typed
  <2> QED
    BY <1>0, <1>1, <2>1 DEF Planned
<1>5. CASE Prepared \/ Sweep
  <2>1. /\ pc \in {"prepare", "sweep"} /\ plan = <<>> /\ at = 1 /\ UNCHANGED <<plan, at>>
    BY <1>5 DEF Prepared, Sweep, Planned
  <2> QED
    BY <1>0, <2>1 DEF Planned
<1>6. CASE Threats \/ Simulate \/ Finish
  <2>1. pc \in {"sweep", "threats", "finish"} /\ pc' \in {"threats", "finish", "stop"} /\ UNCHANGED plan
    BY <1>6 DEF Threats, Simulate, Finish, Give
  <2> QED
    BY <1>0, <2>1 DEF Planned
<1>7. CASE Around \/ UNCHANGED vars
  BY <1>0, <1>7 DEF Around, toolVars, vars, Planned
<1> QED
  BY <1>2, <1>3, <1>4, <1>5, <1>6, <1>7 DEF Next

\* The two documents of a call.
LEMMA NextConsistent == Typed /\ Planned /\ Consistent /\ [Next]_vars => Consistent'
<1> SUFFICES ASSUME Typed, Planned, Consistent, [Next]_vars, Running'
             PROVE  /\ refreshed' = "no" => doc' = current' /\ filler' = doc'
                    /\ call'.tool # "matchup" => filler' = doc'
  BY DEF Consistent
<1>0. call' = call /\ (refreshed' = "no" => refreshed = "no" /\ current' = current)
  BY NextOnward DEF Onward
<1>1. CASE pc = "enter"
  <2>1. CASE Enter
    <3>1. doc' = current /\ filler' = current
      BY <2>1 DEF Running, Enter, Give
    <3> QED
      BY <1>0, <3>1
  <2>2. CASE UNCHANGED toolVars
    BY <1>1, <2>2 DEF toolVars, Running
  <2> QED
    BY <1>1, <2>1, <2>2, AtEntry
<1>2. CASE pc # "enter"
  <2>1. Running /\ doc' = doc
    BY <1>2, Later DEF Running
  <2>2. CASE filler' = filler
    BY <1>0, <2>1, <2>2 DEF Consistent
  <2>3. CASE Reread
    <3>1. filler' = current /\ plan # <<>> /\ Head(plan).do = "reread"
      BY <2>3 DEF Reread, Due
    <3>2. Head(plan) \in Stages /\ Head(plan) \in ToSet(Plan(call))
      BY <3>1, Dropping DEF Planned
    <3>3. Head(plan) = Stage("reread", "team")
      BY <3>1, <3>2 DEF Stages, Stage
    <3>4. call.tool = "matchup"
      BY <3>2, <3>3, PlanFacts DEF Typed
    <3> QED
      BY <1>0, <2>1, <3>1, <3>4 DEF Consistent
  <2> QED
    BY <1>2, <2>2, <2>3, Later
<1> QED
  BY <1>1, <1>2

-----------------------------------------------------------------------------
(* The fighters of the client                                              *)

\* What is filled in stays filled in while the fighter and the snapshot stay.
LEMMA FilledStays ==
    ASSUME Typed, [Next]_vars, filler' = filler, NEW who \in Sides, NEW n \in DOMAIN call[who],
           specs'[who][n] = specs[who][n], FilledIn(who, n)
    PROVE  FilledIn(who, n)'
<1>1. call' = call /\ (memo[Cup] # Unset => memo'[Cup] = memo[Cup])
  BY NextOnward DEF Onward
<1> QED
  BY <1>1 DEF FilledIn, NoLegacy, NoElite

\* A gate that has been passed since is the one a step has just passed.
LEMMA JustPassed ==
    ASSUME Typed, Planned, [Next]_vars, pc # "enter", NEW do, NEW who,
           Passed(do, who)', ~Passed(do, who)
    PROVE  plan # <<>> /\ Head(plan) = Stage(do, who) /\ plan' = Tail(plan)
<1>1. call' = call
  BY NextOnward DEF Onward
<1>2. Running
  BY Later DEF Running, Passed
<1>3. Stage(do, who) \in ToSet(plan) /\ Stage(do, who) \notin ToSet(plan')
  BY <1>1, <1>2 DEF Passed
<1>4. plan # <<>> /\ plan' = Tail(plan)
  BY <1>3, Later
<1> QED
  BY <1>3, <1>4, Dropping

\* The only steps that touch what has been resolved so far.
LEMMA ResolvedStays ==
    ASSUME Typed, Planned, Resolved, [Next]_vars, pc # "enter", UNCHANGED <<specs, filler>>,
           plan' = plan \/ Head(plan).do # "gate"
    PROVE  Resolved'
<1> SUFFICES ASSUME NEW who \in Sides
             PROVE  /\ Unfilled(who)' => specs'[who] = call'[who]
                    /\ \A n \in DOMAIN call'[who] : specs'[who][n] = call'[who][n] \/ FilledIn(who, n)'
                    /\ Passed("gate", who)' =>
                          \A n \in DOMAIN call'[who] :
                             ~SentConflict(doc', call'[who][n], NoLegacy(who)', NoElite(who)')
  BY DEF Resolved
<1>1. call' = call
  BY NextOnward DEF Onward
<1>2. doc' = doc /\ ToSet(plan') \subseteq ToSet(plan) /\ pc' # "enter"
  BY Later
<1>3. Unfilled(who)' => Unfilled(who)
  BY <1>2 DEF Unfilled
<1>4. ASSUME NEW n \in DOMAIN call[who] PROVE specs'[who][n] = call[who][n] \/ FilledIn(who, n)'
  BY <1>4, FilledStays DEF Resolved
<1>5. Passed("gate", who)' => Passed("gate", who)
  <2>1. Stage("gate", who).do = "gate"
    BY DEF Stage
  <2> QED
    BY <2>1, JustPassed, Dropping
<1> QED
  BY <1>1, <1>2, <1>3, <1>4, <1>5 DEF Resolved, NoLegacy, NoElite

\* At the entry nothing is resolved.
LEMMA EntryResolved == ASSUME Typed, Planned, Resolved, [Next]_vars, pc = "enter" PROVE Resolved'
<1>1. call' = call
  BY NextOnward DEF Onward
<1>2. UNCHANGED specs /\ \A who \in Sides : specs[who] = call[who]
  BY AtEntry DEF Enter, toolVars, Resolved, Unfilled
<1>3. ASSUME NEW who \in Sides PROVE ~Passed("gate", who)'
  <2>1. CASE Enter
    BY <1>1, <2>1 DEF Enter, Give, Passed, Running
  <2>2. CASE UNCHANGED toolVars
    BY <2>2 DEF toolVars, Passed, Running
  <2> QED
    BY <2>1, <2>2, AtEntry
<1> QED
  BY <1>1, <1>2, <1>3 DEF Resolved

\* Reading the pointer again is before any moveset is filled in.
LEMMA RereadResolved == ASSUME Typed, Planned, Resolved, [Next]_vars, Reread PROVE Resolved'
<1>1. call' = call
  BY NextOnward DEF Onward
<1>2. /\ pc = "prepare" /\ plan # <<>> /\ Head(plan).do = "reread" /\ UNCHANGED <<specs, doc>>
  BY DEF Reread, Due
<1>3. Head(plan) = Stage("reread", "team") /\ Head(plan) \in ToSet(plan)
  BY <1>2, Dropping DEF Stages, Stage
<1>4. \A who \in Sides : specs[who] = call[who]
  BY <1>3 DEF Resolved, Unfilled
<1>5. ASSUME NEW who \in Sides PROVE Passed("gate", who)' => Passed("gate", who)
  <2>1. Stage("gate", who).do = "gate"
    BY DEF Stage
  <2> QED
    BY <1>2, <2>1, JustPassed
<1> QED
  BY <1>1, <1>2, <1>4, <1>5 DEF Resolved, NoLegacy, NoElite

\* The gate lets nobody through with a move against the flags.
LEMMA GateResolved == ASSUME Typed, Planned, Resolved, [Next]_vars, Gate PROVE Resolved'
<1>1. call' = call
  BY NextOnward DEF Onward
<1>2. /\ pc = "prepare" /\ plan # <<>> /\ UNCHANGED <<specs, doc, filler>>
  BY DEF Gate, Due
<1>3. CASE plan' = plan
  BY <1>2, <1>3, ResolvedStays
<1>4. CASE plan' # plan
  <2> DEFINE side == Head(plan).who
  <2>1. /\ \A n \in DOMAIN specs[side] : ~SentConflict(doc, specs[side][n], NoLegacy(side), NoElite(side))
        /\ plan' = Tail(plan) /\ pc' = pc
    BY <1>4 DEF Gate
  <2>2. /\ Head(plan) = Stage("gate", side) /\ side \in Sides /\ Head(plan) \in ToSet(plan)
    BY <1>2, Dropping DEF Stages, Stage, Gate, Due
  <2>3. specs[side] = call[side]
    BY <2>2 DEF Resolved, Unfilled
  <2> HIDE DEF side
  <2>4. ToSet(plan') \subseteq ToSet(plan)
    BY <1>2, Later
  <2> SUFFICES ASSUME NEW who \in Sides
               PROVE  /\ Unfilled(who)' => specs[who] = call[who]
                      /\ \A n \in DOMAIN call[who] : specs[who][n] = call[who][n] \/ FilledIn(who, n)'
                      /\ Passed("gate", who)' =>
                            \A n \in DOMAIN call[who] :
                               ~SentConflict(doc, call[who][n], NoLegacy(who), NoElite(who))
    BY <1>1, <1>2 DEF Resolved, NoLegacy, NoElite
  <2>5. Unfilled(who)' => specs[who] = call[who]
    BY <1>2, <2>1, <2>4 DEF Unfilled, Resolved
  <2>6. ASSUME NEW n \in DOMAIN call[who] PROVE specs[who][n] = call[who][n] \/ FilledIn(who, n)'
    BY <1>2, FilledStays DEF Resolved
  <2>7. ASSUME Passed("gate", who)', NEW n \in DOMAIN call[who]
        PROVE  ~SentConflict(doc, call[who][n], NoLegacy(who), NoElite(who))
    <3>1. CASE Passed("gate", who)
      BY <3>1 DEF Resolved
    <3>2. CASE ~Passed("gate", who)
      <4>1. Head(plan) = Stage("gate", who)
        BY <1>2, <2>7, <3>2, JustPassed
      <4>2. who = side
        BY <2>2, <4>1 DEF Stage
      <4> QED
        BY <2>1, <2>3, <4>2
    <3> QED
      BY <3>1, <3>2
  <2> QED
    BY <2>5, <2>6, <2>7
<1> QED
  BY <1>3, <1>4

\* When a side is filled in or built, the stages before have been passed.
LEMMA InOrder ==
    ASSUME Typed, Planned, plan # <<>>, NEW do \in {"fill", "build"}, NEW side \in Sides,
           Head(plan) = Stage(do, side)
    PROVE  /\ Stage("gate", side) \notin ToSet(plan) /\ Stage("reread", "team") \notin ToSet(plan)
           /\ do = "build" => Stage("fill", side) \notin ToSet(plan)
<1>1. \A stage \in ToSet(plan) : stage # Head(plan) /\ stage.who = side => Turn[do] < Turn[stage.do]
  BY Dropping DEF Stage
<1>2. \A x, who : Stage(x, who).do = x /\ Stage(x, who).who = who
  BY DEF Stage
<1>3. Stage("gate", side) \notin ToSet(plan) /\ (do = "build" => Stage("fill", side) \notin ToSet(plan))
  BY <1>1, <1>2 DEF Turn
<1>4. Stage("reread", "team") \notin ToSet(plan)
  <2> SUFFICES ASSUME Stage("reread", "team") \in ToSet(plan) PROVE FALSE
    OBVIOUS
  <2>1. side = "team"
    <3>1. Stage("reread", "team") \in ToSet(Plan(call)) /\ Stage(do, side) \in ToSet(Plan(call))
      BY Dropping DEF Planned
    <3> QED
      BY <3>1, PlanFacts DEF Typed
  <2> QED
    BY <1>1, <1>2, <2>1 DEF Turn
<1> QED
  BY <1>3, <1>4

\* What a moveset that was left out is filled in with.
LEMMA FillResolved == ASSUME Typed, Planned, Resolved, [Next]_vars, Fill PROVE Resolved'
<1>1. call' = call
  BY NextOnward DEF Onward
<1>2. /\ pc = "prepare" /\ plan # <<>> /\ Head(plan).do = "fill" /\ UNCHANGED <<doc, filler>>
  BY DEF Fill, Due
<1>3. CASE specs' = specs
  BY <1>2, <1>3, ResolvedStays
<1>4. CASE specs' # specs
  <2>1. PICK side, place : side = Head(plan).who /\ place = at
    OBVIOUS
  <2>2. PICK old : old = specs[side][place]
    OBVIOUS
  <2>3. /\ side \in Sides /\ Head(plan) = Stage("fill", side)
        /\ place \in DOMAIN specs[side] /\ old.fast = None
        /\ UNCHANGED <<plan, outcome, pc>>
    BY <1>4, <2>1, <2>2, FillChanges
  <2>4. PICK list \in Lists[Cup] :
           /\ memo'[Cup] # Unset /\ memo'[Cup].entries = list
           /\ Recommends(list, MovesetId(filler, old))
           /\ ~FilledConflict(filler, list, old, NoLegacy(side), NoElite(side))
           /\ specs' = [specs EXCEPT ![side][place] = Defaulted(filler, list, old)]
    BY <1>4, <2>1, <2>2, FillChanges
  <2> DEFINE new == Defaulted(filler, list, old)
  <2>5. old \in Specs
    BY <2>3, <2>2 DEF Typed, Sides
  <2>6. LET moveset == Recommended(list, MovesetId(filler, old))
        IN  /\ new.species = old.species /\ new.shadow = old.shadow
            /\ new.fast = Head(moveset) /\ new.charged = Tail(moveset)
    BY <2>3, <2>4, <2>5, DefaultedIs
  <2> HIDE DEF new
  <2>7. /\ specs'[side][place] = new
        /\ \A n \in DOMAIN call[side] : n # place => specs'[side][n] = specs[side][n]
        /\ \A who \in Sides : who # side => specs'[who] = specs[who]
    <3>1. /\ specs' = [specs EXCEPT ![side][place] = new] /\ side \in DOMAIN specs
          /\ place \in DOMAIN specs[side]
      BY <2>3, <2>4 DEF Typed, Sides, new
    <3> DEFINE changed == [specs[side] EXCEPT ![place] = new]
    <3>2. specs' = [specs EXCEPT ![side] = changed] /\ DOMAIN specs = Sides
      BY <3>1 DEF Typed, Sides
    <3>3. changed[place] = new /\ \A n \in DOMAIN specs[side] : n # place => changed[n] = specs[side][n]
      BY <3>1
    <3>4. DOMAIN specs[side] = DOMAIN call[side]
      <4>1. specs[side] \in Seq(Specs) /\ call[side] \in Seq(Specs) /\ Len(specs[side]) = Len(call[side])
        BY <2>3, SentTyped DEF Typed, Sides
      <4> QED
        BY <4>1
    <3> HIDE DEF changed
    <3> QED
      BY <2>3, <3>2, <3>3, <3>4
  <2>8. ~Unfilled(side)
    <3>1. Head(plan) = Stage("fill", side)
      BY <2>3
    <3> QED
      BY <1>2, <2>3, <3>1, InOrder DEF Unfilled
  <2>9. place \in DOMAIN call[side] /\ FilledIn(side, place)'
    <3> DEFINE sent == call[side][place]
    <3>1. place \in DOMAIN call[side]
      <4>1. specs[side] \in Seq(Specs) /\ call[side] \in Seq(Specs) /\ Len(specs[side]) = Len(call[side])
        BY <2>3, SentTyped DEF Typed, Sides
      <4> QED
        BY <2>3, <4>1
    <3>2. old = sent \/ FilledIn(side, place)
      BY <2>2, <2>3, <3>1 DEF Resolved
    <3>3. sent.fast = None /\ old.species = sent.species /\ old.shadow = sent.shadow
      BY <2>2, <2>3, <3>2 DEF FilledIn
    <3>4. MovesetId(filler, old) = MovesetId(filler, sent)
      BY <3>3 DEF MovesetId
    <3> HIDE DEF sent
    <3>5. ToSet(Recommended(list, MovesetId(filler, sent)))
             \cap Restricted(filler, MovesetId(filler, sent), NoLegacy(side), NoElite(side)) = {}
      BY <2>3, <2>4, <3>4 DEF FilledConflict
    <3> QED
      BY <1>1, <1>2, <2>4, <2>6, <2>7, <3>1, <3>3, <3>4, <3>5 DEF FilledIn, NoLegacy, NoElite, sent
  <2> SUFFICES ASSUME NEW who \in Sides
               PROVE  /\ Unfilled(who)' => specs'[who] = call[who]
                      /\ \A n \in DOMAIN call[who] : specs'[who][n] = call[who][n] \/ FilledIn(who, n)'
                      /\ Passed("gate", who)' =>
                            \A n \in DOMAIN call[who] :
                               ~SentConflict(doc, call[who][n], NoLegacy(who), NoElite(who))
    BY <1>1, <1>2 DEF Resolved, NoLegacy, NoElite
  <2>10. Unfilled(who)' => specs'[who] = call[who]
    BY <2>3, <2>7, <2>8 DEF Unfilled, Resolved
  <2>11. ASSUME NEW n \in DOMAIN call[who] PROVE specs'[who][n] = call[who][n] \/ FilledIn(who, n)'
    <3>1. CASE who = side /\ n = place
      BY <2>9, <3>1
    <3>2. CASE ~(who = side /\ n = place)
      <4>1. specs'[who][n] = specs[who][n]
        BY <2>7, <3>2
      <4> QED
        BY <1>2, <4>1, FilledStays DEF Resolved
    <3> QED
      BY <3>1, <3>2
  <2>12. Passed("gate", who)' => Passed("gate", who)
    BY <1>1, <2>3 DEF Passed, Running
  <2> QED
    BY <2>10, <2>11, <2>12 DEF Resolved
<1> QED
  BY <1>3, <1>4

LEMMA NextResolved == Typed /\ Planned /\ Resolved /\ [Next]_vars => Resolved'
<1> SUFFICES ASSUME Typed, Planned, Resolved, [Next]_vars PROVE Resolved'
  OBVIOUS
<1>1. CASE pc = "enter"
  BY <1>1, EntryResolved
<1>2. CASE Reread \/ Gate \/ Fill
  BY <1>2, RereadResolved, GateResolved, FillResolved
<1>3. CASE pc # "enter" /\ ~(Reread \/ Gate \/ Fill)
  <2>1. UNCHANGED <<specs, filler>> /\ (plan' = plan \/ Head(plan).do # "gate")
    BY <1>3 DEF Next, Enter, Build, Meta, Prepared, Sweep, Threats, Simulate, Finish, Around, Due, toolVars, vars
  <2> QED
    BY <1>3, <2>1, ResolvedStays
<1> QED
  BY <1>1, <1>2, <1>3

\* A fighter that can be built has a fast move.
LEMMA HasFast ==
    ASSUME NEW snapshot \in Docs, NEW spec, Buildable(snapshot, spec)
    PROVE  Lookup(snapshot, spec.species, spec.shadow).ok /\ spec.fast # None
BY BattleAssumption DEF Buildable, IsMove

\* The only steps that touch the fighters of a side.
LEMMA NextFought == Typed /\ Planned /\ Fought /\ [Next]_vars => Fought'
<1> SUFFICES ASSUME Typed, Planned, Fought, [Next]_vars, outcome' # "error",
                    NEW who \in Sides, fighters'[who] # <<>>
             PROVE  /\ \A n \in DOMAIN fighters'[who] : FoughtBy(who, n)'
                    /\ Running' /\ ~Unfilled(who)' /\ Stage("fill", who) \notin ToSet(plan')
                    /\ Guarded(call', who) => Passed("gate", who)'
  BY DEF Fought
<1>1. call' = call
  BY NextOnward DEF Onward
<1>2. CASE pc = "enter"
  <2>1. fighters' = fighters
    BY <1>2, AtEntry DEF Enter, toolVars
  <2>2. outcome # "error"
    BY <1>2 DEF Typed
  <2> QED
    BY <1>2, <2>1, <2>2 DEF Fought, Running
<1>3. CASE pc # "enter" /\ fighters'[who] = fighters[who]
  <2>1. /\ doc' = doc /\ pc' # "enter" /\ outcome # "error" /\ ToSet(plan') \subseteq ToSet(plan)
    BY <1>3, Later
  <2>2. /\ \A n \in DOMAIN fighters[who] : FoughtBy(who, n)
        /\ Running /\ ~Unfilled(who) /\ Stage("fill", who) \notin ToSet(plan)
        /\ Guarded(call, who) => Passed("gate", who)
    BY <1>3, <2>1 DEF Fought
  <2>3. specs'[who] = specs[who]
    <3>1. CASE Fill /\ specs' # specs
      <4> DEFINE side == Head(plan).who
      <4>1. /\ side \in Sides /\ Head(plan) = Stage("fill", side)
            /\ \E spec : specs' = [specs EXCEPT ![side][at] = spec]
        BY <3>1, FillChanges
      <4>2. Head(plan) \in ToSet(plan)
        BY <3>1, Dropping DEF Fill, Due
      <4>3. side # who
        BY <2>2, <4>1, <4>2
      <4> QED
        BY <4>1, <4>3 DEF Typed, Sides
    <3>2. CASE ~Fill
      BY <3>2 DEF Next, Enter, Reread, Gate, Build, Meta, Prepared, Sweep, Threats, Simulate, Finish,
                 Around, toolVars, vars
    <3> QED
      BY <3>1, <3>2
  <2>4. \A n \in DOMAIN fighters'[who] : FoughtBy(who, n)'
    BY <1>1, <1>3, <2>1, <2>2, <2>3 DEF FoughtBy
  <2> QED
    BY <1>1, <2>1, <2>2, <2>4 DEF Running, Unfilled, Passed
<1>4. CASE pc # "enter" /\ fighters'[who] # fighters[who]
  <2>1. CASE Build
    <3>1. PICK side : side = Head(plan).who
      OBVIOUS
    <3>2. /\ side \in Sides /\ Head(plan) = Stage("build", side)
          /\ \A n \in DOMAIN specs[side] : Buildable(doc, specs[side][n])
          /\ fighters' = [fighters EXCEPT ![side] = [n \in DOMAIN specs[side] |-> Built(doc, specs[side][n])]]
          /\ plan' = Tail(plan) /\ UNCHANGED <<pc, outcome>>
      BY <1>4, <2>1, <3>1, BuildDoes
    <3>3. /\ pc = "prepare" /\ plan # <<>> /\ doc \in Docs /\ UNCHANGED <<specs, doc>>
      BY <2>1 DEF Build, Due, Typed, Places
    <3>4. who = side /\ fighters'[who] = [n \in DOMAIN specs[who] |-> Built(doc, specs[who][n])]
      BY <1>4, <3>2 DEF Typed
    <3>5. DOMAIN specs[who] = DOMAIN call[who]
      <4>1. specs[who] \in Seq(Specs) /\ call[who] \in Seq(Specs) /\ Len(specs[who]) = Len(call[who])
        BY SentTyped DEF Typed, Sides
      <4> QED
        BY <4>1
    <3>6. ASSUME NEW n \in DOMAIN fighters'[who] PROVE FoughtBy(who, n)'
      <4>1. n \in DOMAIN specs[who] /\ fighters'[who][n] = Built(doc, specs[who][n])
        BY <3>4
      <4>2. Lookup(doc, specs[who][n].species, specs[who][n].shadow).ok /\ specs[who][n].fast # None
        BY <3>2, <3>3, <3>4, <4>1, HasFast
      <4> QED
        BY <1>1, <3>3, <3>5, <4>1, <4>2 DEF FoughtBy
    <3>7. ToSet(plan') \subseteq ToSet(plan)
      BY <3>3, Later
    <3>8. Running' /\ ~Unfilled(who)' /\ Stage("fill", who) \notin ToSet(plan')
      BY <3>2, <3>3, <3>4, <3>7, InOrder DEF Running, Unfilled
    <3>9. Guarded(call', who) => Passed("gate", who)'
      <4>1. Stage("build", who) \in ToSet(Plan(call))
        BY <3>2, <3>3, <3>4, Dropping DEF Planned
      <4>2. Guarded(call, who) => Stage("gate", who) \in ToSet(Plan(call))
        BY <4>1, PlanFacts DEF Typed
      <4> QED
        BY <1>1, <3>8, <4>2 DEF Passed, Unfilled
    <3> QED
      BY <3>6, <3>8, <3>9
  <2>2. CASE Meta
    <3>1. fighters' = fighters \/ \E list : fighters' = [fighters EXCEPT !.meta = list]
      BY <2>2, MetaDoes
    <3> QED
      BY <1>4, <3>1 DEF Typed, Sides
  <2>3. CASE ~(Build \/ Meta)
    BY <1>4, <2>3 DEF Next, Enter, Reread, Gate, Fill, Prepared, Sweep, Threats, Simulate, Finish,
                      Around, toolVars, vars
  <2> QED
    BY <2>1, <2>2, <2>3
<1> QED
  BY <1>2, <1>3, <1>4

-----------------------------------------------------------------------------
(* The meta                                                                *)

LEMMA NextRanked == Typed /\ Planned /\ Ranked /\ [Next]_vars => Ranked'
<1> SUFFICES ASSUME Typed, Planned, Ranked, [Next]_vars PROVE Ranked'
  OBVIOUS
<1>1. call' = call /\ (memo[Cup] # Unset => memo'[Cup] = memo[Cup])
  BY NextOnward DEF Onward
<1>2. CASE pc = "enter"
  <2>1. UNCHANGED <<kept, fighters>> /\ kept = <<>>
    BY <1>2, AtEntry DEF Enter, toolVars, Ranked
  <2>2. ~Passed("meta", "meta")'
    <3>1. CASE Enter
      BY <1>1, <3>1 DEF Enter, Give, Passed, Running
    <3>2. CASE UNCHANGED toolVars
      BY <1>2, <3>2 DEF toolVars, Passed, Running
    <3> QED
      BY <1>2, <3>1, <3>2, AtEntry
  <2> QED
    BY <2>1, <2>2 DEF Ranked
<1>3. CASE pc # "enter" /\ (~Meta \/ (outcome' = "error" /\ UNCHANGED <<fighters, kept>>))
  <2>1. kept' = kept /\ fighters'.meta = fighters.meta
    <3>1. CASE Build
      <4>1. fighters' = fighters \/ \E who \in Sides : \E list : fighters' = [fighters EXCEPT ![who] = list]
        BY <3>1, BuildDoes
      <4> QED
        BY <3>1, <4>1 DEF Build, Typed, Sides
    <3>2. CASE ~Build
      BY <1>3, <3>2 DEF Next, Enter, Reread, Gate, Fill, Prepared, Sweep, Threats, Simulate, Finish,
                        Around, toolVars, vars
    <3> QED
      BY <3>1, <3>2
  <2>2. doc' = doc /\ pc' # "enter"
    BY <1>3, Later
  <2>3. Taken => Taken'
    BY <1>1, <2>1, <2>2 DEF Taken, Allowed, NoLegacy, NoElite
  <2>4. Passed("meta", "meta")' => Taken
    <3>1. CASE Passed("meta", "meta")
      BY <3>1 DEF Ranked
    <3>2. CASE Passed("meta", "meta")' /\ ~Passed("meta", "meta")
      <4>1. plan # <<>> /\ Head(plan) = Stage("meta", "meta") /\ plan' # plan
        BY <1>3, <3>2, JustPassed, Dropping
      <4>2. Meta
        <5>1. Head(plan).do = "meta" /\ ~UNCHANGED plan
          BY <4>1 DEF Stage
        <5>2. Reread \/ Gate \/ Fill \/ Build \/ Meta
          BY <1>3, <5>1 DEF Next, Enter, Prepared, Sweep, Threats, Simulate, Finish, Around, toolVars, vars
        <5> QED
          BY <5>1, <5>2 DEF Reread, Gate, Fill, Build, Due
      <4> QED
        BY <1>3, <3>2, <4>2 DEF Passed, Running
    <3> QED
      BY <3>1, <3>2
  <2> QED
    BY <2>1, <2>2, <2>3, <2>4 DEF Ranked
<1>4. CASE pc # "enter" /\ Meta /\ ~(outcome' = "error" /\ UNCHANGED <<fighters, kept>>)
  <2>1. /\ Taken'
        /\ fighters' = [fighters EXCEPT !.meta = [n \in DOMAIN kept' |-> MetaFighter(kept'[n])]]
    BY <1>4, MetaDoes
  <2>2. pc' # "enter"
    BY <1>4, Later
  <2>3. fighters'.meta = [n \in DOMAIN kept' |-> MetaFighter(kept'[n])]
    BY <2>1 DEF Typed
  <2> QED
    BY <2>1, <2>2, <2>3 DEF Ranked
<1> QED
  BY <1>2, <1>3, <1>4

-----------------------------------------------------------------------------
(* Refusals                                                                *)


\* A refusal over the flags is over a fighter of the client's own.
LEMMA RefusedFor ==
    ASSUME NEW who \in Sides, NEW snapshot, NEW form, NEW moves,
           moves \cap Restricted(snapshot, form, NoLegacy(who), NoElite(who)) # {}
    PROVE  /\ call.tool = "counter_finder" => who = "pool"
           /\ call.tool # "matchup"
           /\ moves \cap Restricted(snapshot, form, call.noLegacy, call.noElite) # {}
<1>1. CASE Guarded(call, who)
  BY <1>1 DEF Guarded, Sides, Restricted, NoLegacy, NoElite
<1>2. CASE ~Guarded(call, who)
  BY <1>2 DEF Restricted, NoLegacy, NoElite
<1> QED
  BY <1>1, <1>2

\* What a refusal over a recommended moveset means.
LEMMA FillRefuses ==
    ASSUME Typed, Planned, Fill, outcome' = "restricted"
    PROVE  LET who == Head(plan).who
               spec == specs[who][at]
           IN  /\ who \in Sides /\ at \in DOMAIN specs[who]
               /\ \E list \in Lists[Cup] :
                     /\ memo'[Cup].entries = list /\ Recommends(list, MovesetId(filler, spec))
                     /\ FilledConflict(filler, list, spec, NoLegacy(who), NoElite(who))
<1> DEFINE who == Head(plan).who
           spec == specs[who][at]
<1>1. pc = "prepare" /\ plan # <<>> /\ Head(plan).do = "fill" /\ outcome # "restricted"
  BY DEF Fill, Due, Typed
<1>2. who \in Sides
  <2>1. Head(plan) \in Stages
    BY <1>1, Dropping
  <2> QED
    BY <1>1, <2>1 DEF Stages, Stage
<1>3. /\ at <= Len(specs[who])
      /\ \E reply \in {Failed, Unknown} \cup {Known(l) : l \in Lists[Cup]} :
            /\ Ask(Cup, reply)
            /\ IF ~Recommends(reply.entries, MovesetId(filler, spec))
               THEN Give("error") /\ UNCHANGED <<at, specs>>
               ELSE IF FilledConflict(filler, reply.entries, spec, NoLegacy(who), NoElite(who))
               THEN Give("restricted") /\ UNCHANGED <<at, specs>>
               ELSE /\ specs' = [specs EXCEPT ![who][at] = Defaulted(filler, reply.entries, @)]
                    /\ at' = at + 1 /\ UNCHANGED <<pc, outcome>>
  BY <1>1 DEF Fill
<1>4. PICK reply \in {Failed, Unknown} \cup {Known(l) : l \in Lists[Cup]} :
            /\ Ask(Cup, reply)
            /\ Recommends(reply.entries, MovesetId(filler, spec))
            /\ FilledConflict(filler, reply.entries, spec, NoLegacy(who), NoElite(who))
  BY <1>1, <1>3 DEF Give
<1>5. reply.entries \in Lists[Cup] /\ memo'[Cup] = reply
  <2>1. reply.entries # <<>>
    BY <1>4, NothingRecommended
  <2> QED
    BY <1>4, <2>1, AskDoes DEF Typed
<1>6. at \in DOMAIN specs[who]
  <2>1. specs[who] \in Seq(Specs) /\ at \in Nat \ {0}
    BY <1>2 DEF Typed, Sides
  <2> QED
    BY <1>3, <2>1
<1> QED
  BY <1>2, <1>4, <1>5, <1>6

\* Why a call is refused: a move that was sent, or one that is recommended.
Refused(list, document, request, who, n) ==
    LET form == MovesetId(document, request[who][n])
        banned == Restricted(document, form, request.noLegacy, request.noElite)
    IN  \/ MovesOf(request[who][n]) \cap banned # {}
        \/ /\ request[who][n].fast = None /\ Recommends(list, form)
           /\ ToSet(Recommended(list, form)) \cap banned # {}
SomeRefused(list, document, request) ==
    \E who \in Sides :
       /\ request.tool = "counter_finder" => who = "pool"
       /\ \E n \in DOMAIN request[who] : Refused(list, document, request, who, n)
LEMMA RefusedIs ==
    /\ OwnMovesRefused <=> (outcome = "restricted" => SomeRefused(memo[Cup].entries, doc, call))
    /\ OwnMovesRefused' <=> (outcome' = "restricted" => SomeRefused(memo'[Cup].entries, doc', call'))
BY DEF OwnMovesRefused, SomeRefused, Refused, Sides

\* Nobody is refused for anything else.
LEMMA NextRefused ==
    Typed /\ Planned /\ Consistent /\ Resolved /\ OwnMovesRefused /\ [Next]_vars => OwnMovesRefused'
<1> SUFFICES ASSUME Typed, Planned, Consistent, Resolved, OwnMovesRefused, [Next]_vars, outcome' = "restricted"
             PROVE  SomeRefused(memo'[Cup].entries, doc', call')
  BY RefusedIs
<1>1. call' = call
  BY NextOnward DEF Onward
<1>2. CASE outcome = "restricted"
  <2>1. UNCHANGED vars
    BY <1>2, Stopped DEF Typed
  <2> QED
    BY <1>2, <2>1, RefusedIs DEF vars, envVars, toolVars
<1>3. CASE Gate
  <2>1. PICK side : side = Head(plan).who
    OBVIOUS
  <2>2. pc = "prepare" /\ plan # <<>> /\ Head(plan).do = "gate" /\ UNCHANGED <<doc, memo>>
    BY <1>3 DEF Gate, Due, Quiet, envVars
  <2>3. Head(plan) = Stage("gate", side) /\ side \in Sides /\ Head(plan) \in ToSet(plan)
    BY <2>1, <2>2, Dropping DEF Stages, Stage
  <2>4. specs[side] = call[side]
    BY <2>3 DEF Resolved, Unfilled
  <2>5. PICK n \in DOMAIN call[side] : SentConflict(doc, call[side][n], NoLegacy(side), NoElite(side))
    BY <1>3, <2>1, <2>2, <2>4 DEF Gate, Typed
  <2> DEFINE form == MovesetId(doc, call[side][n])
  <2>6. MovesOf(call[side][n]) \cap Restricted(doc, form, NoLegacy(side), NoElite(side)) # {}
    BY <2>5 DEF SentConflict, MovesetId
  <2> HIDE DEF form
  <2>7. /\ call.tool = "counter_finder" => side = "pool"
        /\ MovesOf(call[side][n]) \cap Restricted(doc, form, call.noLegacy, call.noElite) # {}
    BY <2>3, <2>6, RefusedFor
  <2>8. Refused(memo[Cup].entries, doc, call, side, n)
    BY <2>7 DEF Refused, form
  <2> QED
    BY <1>1, <2>2, <2>3, <2>7, <2>8 DEF SomeRefused
<1>4. CASE Fill
  <2>1. PICK side, place, spec : side = Head(plan).who /\ place = at /\ spec = specs[side][place]
    OBVIOUS
  <2>2. /\ pc = "prepare" /\ outcome = "running" /\ UNCHANGED doc
    BY <1>4 DEF Fill, Due, Typed
  <2>3. /\ side \in Sides /\ place \in DOMAIN specs[side]
        /\ \E list \in Lists[Cup] :
              /\ memo'[Cup].entries = list /\ Recommends(list, MovesetId(filler, spec))
              /\ FilledConflict(filler, list, spec, NoLegacy(side), NoElite(side))
    BY <1>4, <2>1, FillRefuses
  <2>4. PICK list \in Lists[Cup] :
              /\ memo'[Cup].entries = list /\ Recommends(list, MovesetId(filler, spec))
              /\ FilledConflict(filler, list, spec, NoLegacy(side), NoElite(side))
    BY <2>3
  <2> DEFINE sent == call[side][place]
             form == MovesetId(filler, sent)
             moves == ToSet(Recommended(list, form))
  <2>5. place \in DOMAIN call[side]
    <3>1. specs[side] \in Seq(Specs) /\ call[side] \in Seq(Specs) /\ Len(specs[side]) = Len(call[side])
      BY <2>3, SentTyped DEF Typed, Sides
    <3> QED
      BY <2>3, <3>1
  <2>6. spec.fast = None
    BY <2>4 DEF FilledConflict
  <2>7. sent.fast = None /\ spec.species = sent.species /\ spec.shadow = sent.shadow
    <3>1. spec = sent \/ FilledIn(side, place)
      BY <2>1, <2>3, <2>5 DEF Resolved
    <3> QED
      BY <2>1, <2>6, <3>1 DEF FilledIn
  <2>8. MovesetId(filler, spec) = form
    BY <2>7 DEF MovesetId
  <2> HIDE DEF form
  <2>9. moves \cap Restricted(filler, form, NoLegacy(side), NoElite(side)) # {}
    BY <2>4, <2>8 DEF FilledConflict
  <2> HIDE DEF moves
  <2>10. /\ call.tool = "counter_finder" => side = "pool"
         /\ call.tool # "matchup"
         /\ moves \cap Restricted(filler, form, call.noLegacy, call.noElite) # {}
    BY <2>3, <2>9, RefusedFor
  <2>11. filler = doc
    BY <2>2, <2>10 DEF Consistent, Running
  <2>12. Refused(list, doc, call, side, place)
    BY <2>4, <2>7, <2>8, <2>10, <2>11 DEF Refused, form, moves
  <2> QED
    BY <1>1, <2>2, <2>3, <2>4, <2>5, <2>10, <2>12 DEF SomeRefused
<1>5. CASE outcome # "restricted" /\ ~(Gate \/ Fill)
  BY <1>5 DEF Next, Enter, Reread, Build, Meta, Prepared, Sweep, Threats, Simulate, Finish, Give,
              Around, toolVars, vars
<1> QED
  BY <1>2, <1>3, <1>4, <1>5

-----------------------------------------------------------------------------
(* The sweeps                                                              *)

\* While the fighters, the rows and the meta stay, so does what is computed of them.
LEMMA TablesStay ==
    ASSUME UNCHANGED <<call, fighters, rows>>
    PROVE  /\ Rows' = Rows /\ Opponents' = Opponents /\ (Whole' <=> Whole)
           /\ OverallTable' = OverallTable
           /\ \A i : RowOf(i)' = RowOf(i)
<1>1. Rows' = Rows /\ Opponents' = Opponents
  BY DEF Rows, Opponents
<1>2. Whole' <=> Whole
  BY <1>1 DEF Whole
<1>3. \A i, j, s : Swept(i, j, s)' = Swept(i, j, s)
  BY DEF Swept
<1>4. OverallTable' = OverallTable
  BY <1>1, <1>3 DEF OverallTable
<1>5. \A i : RowOf(i)' = RowOf(i)
  BY <1>1 DEF RowOf, Cells
<1> QED
  BY <1>1, <1>2, <1>4, <1>5

LEMMA AnswerStays ==
    ASSUME UNCHANGED <<call, fighters, rows, kept, threats>>
    PROVE  /\ \A to : Told(to)' <=> Told(to)
           /\ Answered' <=> Answered
           /\ answer' = answer => (Said' <=> Said)
<1>1. OverallTable' = OverallTable /\ (Whole' <=> Whole)
  BY TablesStay
<1>2. \A to : Told(to)' <=> Told(to)
  BY <1>1 DEF Told
<1>3. Answered' <=> Answered
  BY <1>1, <1>2 DEF Answered
<1>4. Aggregate(OverallTable)' = Aggregate(OverallTable)
  BY <1>1 DEF Aggregate
<1>5. answer' = answer => (Said' <=> Said)
  BY <1>1, <1>4 DEF Said
<1> QED
  BY <1>2, <1>3, <1>5

\* What is swept over and against are lists.
LEMMA RowsAre == ASSUME Typed PROVE Rows \in Seq(ToSet(Rows)) /\ Opponents \in Seq(ToSet(Opponents))
BY DEF Typed, Rows, Opponents, Sides


\* So long as no row is added, what was swept is what was to be.
LEMMA RowsStay ==
    ASSUME SweptSoFar, UNCHANGED <<call, fighters, rows>>
    PROVE  \A i \in DOMAIN rows' : i \in DOMAIN Rows' /\ rows'[i] = RowOf(i)'
<1>1. Rows' = Rows /\ \A i : RowOf(i)' = RowOf(i)
  BY TablesStay
<1> QED
  BY <1>1 DEF SweptSoFar

\* A row at a time.
LEMMA SweepSwept == ASSUME Typed, Planned, SweptSoFar, Sweep PROVE SweptSoFar'
<1>1. /\ pc = "sweep" /\ at = 1 /\ threats = <<>> /\ outcome = "running"
      /\ UNCHANGED <<call, at, ctx, fighters, kept, threats>>
  BY DEF Sweep, Typed, Planned, SweptSoFar, Quiet, envVars
<1>2. CASE /\ ctx = "live" /\ Len(rows) < Len(Rows)
           /\ rows' = Append(rows, [j \in DOMAIN Opponents |-> Cells(Rows[Len(rows) + 1], Opponents[j])])
           /\ UNCHANGED <<pc, outcome>>
  <2> DEFINE n == Len(rows) + 1
             row == RowOf(n)
  <2>1. rows \in Seq(ToSet(rows)) /\ Rows \in Seq(ToSet(Rows))
    BY RowsAre DEF Typed
  <2>2. /\ n \in DOMAIN Rows /\ DOMAIN rows' = DOMAIN rows \cup {n} /\ rows'[n] = row
        /\ \A i \in DOMAIN rows : rows'[i] = rows[i]
    <3>1. /\ Len(rows) \in Nat /\ DOMAIN rows = 1..Len(rows) /\ DOMAIN Rows = 1..Len(Rows) /\ Len(Rows) \in Nat
      BY <2>1
    <3>2. rows' = Append(rows, row)
      BY <1>2 DEF RowOf
    <3> HIDE DEF row
    <3>3. /\ DOMAIN Append(rows, row) = 1..n /\ Append(rows, row)[n] = row
          /\ \A i \in 1..Len(rows) : Append(rows, row)[i] = rows[i]
      BY <2>1
    <3> QED
      BY <1>2, <3>1, <3>2, <3>3
  <2>3. \A i \in DOMAIN rows : i \in DOMAIN Rows /\ rows[i] = RowOf(i)
    BY DEF SweptSoFar
  <2>4. Rows' = Rows
    BY <1>1 DEF Rows
  <2>5. ASSUME NEW i PROVE RowOf(i)' = RowOf(i)
    <3>1. Opponents' = Opponents
      BY <1>1 DEF Opponents
    <3> QED
      BY <1>1, <2>4, <3>1 DEF RowOf, Cells
  <2> HIDE DEF n
  <2>6. \A i \in DOMAIN rows' : i \in DOMAIN Rows' /\ rows'[i] = RowOf(i)'
    BY <2>2, <2>3, <2>4, <2>5
  <2> QED
    BY <1>1, <1>2, <2>6 DEF SweptSoFar
<1>3. CASE UNCHANGED rows /\ (ctx = "done" \/ Whole)
  <2>1. Answered' <=> Answered
    BY <1>1, <1>3, AnswerStays
  <2>2. Whole' <=> Whole
    BY <1>1, <1>3, TablesStay
  <2>3. Told(1)' <=> Told(1)
    BY <1>1, <1>3, AnswerStays
  <2>4. Told(1)
    <3>1. kept \in Seq(Published)
      BY DEF Typed
    <3>2. {m \in DOMAIN kept : m < 1 /\ BestOf(OverallTable, m) < Threshold} = {}
      BY <3>1
    <3>3. ToSet(threats) = {}
      BY <1>1 DEF ToSet
    <3> QED
      BY <3>2, <3>3 DEF Told
  <2>5. \A i \in DOMAIN rows' : i \in DOMAIN Rows' /\ rows'[i] = RowOf(i)'
    BY <1>1, <1>3, RowsStay
  <2>6. pc' = "threats" => call.tool = "threat_coverage" /\ Whole
    BY <1>1, <1>3 DEF Sweep, Give, Whole
  <2>7. pc' = "finish" /\ OfTeam /\ ctx = "live" => Answered
    BY <1>1, <1>3 DEF Sweep, Give, Whole, OfTeam, Answered
  <2>8. outcome' # "ok" /\ pc' \notin {"enter", "prepare", "sweep"}
    BY <1>1, <1>3 DEF Sweep, Give, Whole
  <2>9. (OfTeam' <=> OfTeam) /\ ctx' = ctx /\ at' = 1 /\ call' = call
    BY <1>1 DEF OfTeam
  <2> HIDE DEF Told, Answered, Whole, OfTeam
  <2> QED
    BY <2>1, <2>2, <2>3, <2>4, <2>5, <2>6, <2>7, <2>8, <2>9 DEF SweptSoFar
<1> QED
  BY <1>2, <1>3 DEF Sweep, Whole

\* A threat at a time.
LEMMA ThreatsSwept == ASSUME Typed, Planned, SweptSoFar, Threats PROVE SweptSoFar'
<1>1. /\ pc = "threats" /\ outcome = "running" /\ at \in Nat \ {0} /\ kept \in Seq(Published)
      /\ threats \in Seq(ToSet(threats)) /\ call.tool = "threat_coverage" /\ Whole /\ Told(at)
      /\ UNCHANGED <<call, ctx, fighters, kept, rows, outcome>>
  BY DEF Threats, Typed, SweptSoFar, Quiet, envVars
<1>2. OverallTable' = OverallTable /\ (Whole' <=> Whole)
  BY <1>1, TablesStay
<1>3. \A i \in DOMAIN rows' : i \in DOMAIN Rows' /\ rows'[i] = RowOf(i)'
  BY <1>1, RowsStay
<1>4. DOMAIN kept = 1..Len(kept) /\ Len(kept) \in Nat
  BY <1>1
<1> DEFINE Gap(m) == BestOf(OverallTable, m) < Threshold
           Gaps(to) == {m \in DOMAIN kept : m < to /\ Gap(m)}
           Names(S) == {kept[j].species : j \in S}
<1>5. \A to : Told(to) <=> {t.threat : t \in ToSet(threats)} = Names(Gaps(to))
  BY DEF Told
<1>6. CASE (ctx = "done" \/ at > Len(kept)) /\ pc' = "finish" /\ UNCHANGED threats
  <2>1. Answered' <=> Answered
    BY <1>1, <1>6, AnswerStays
  <2>2. ctx = "live" => Answered
    <3>1. CASE at > Len(kept)
      <4>1. \A m \in DOMAIN kept : m < at /\ m < Len(kept) + 1
        BY <1>1, <1>4, <3>1
      <4> HIDE DEF Gap
      <4>2. Gaps(at) = Gaps(Len(kept) + 1)
        BY <4>1
      <4> HIDE DEF Gaps, Names
      <4>3. Told(Len(kept) + 1)
        BY <1>1, <1>5, <4>2
      <4> QED
        BY <1>1, <4>3 DEF Answered
    <3> QED
      BY <1>6, <3>1
  <2> HIDE DEF Answered
  <2> QED
    BY <1>1, <1>3, <1>6, <2>1, <2>2 DEF SweptSoFar
<1>7. CASE /\ at <= Len(kept) /\ at' = at + 1 /\ UNCHANGED pc
           /\ threats' = IF Gap(at)
                         THEN Append(threats, [threat |-> kept[at].species, best |-> BestOf(OverallTable, at),
                                               candidates |-> TopCandidates(fighters.meta[at])])
                         ELSE threats
  <2>1. at \in DOMAIN kept /\ \A m \in DOMAIN kept : m < at + 1 <=> m < at \/ m = at
    BY <1>1, <1>4, <1>7
  <2>2. Gaps(at + 1) = IF Gap(at) THEN Gaps(at) \cup {at} ELSE Gaps(at)
    <3> HIDE DEF Gap
    <3>1. ~(at < at)
      BY <1>1
    <3> QED
      BY <2>1, <3>1
  <2>3. {t.threat : t \in ToSet(threats')} =
           IF Gap(at) THEN {t.threat : t \in ToSet(threats)} \cup {kept[at].species} ELSE {t.threat : t \in ToSet(threats)}
    <3>1. CASE ~Gap(at)
      <4> HIDE DEF Gap
      <4> QED BY <1>7, <3>1
    <3>2. CASE Gap(at)
      <4> DEFINE new == [threat |-> kept[at].species, best |-> BestOf(OverallTable, at),
                         candidates |-> TopCandidates(fighters.meta[at])]
      <4>1. threats' = Append(threats, new)
        BY <1>7, <3>2
      <4>2. new.threat = kept[at].species
        OBVIOUS
      <4> HIDE DEF new
      <4>3. ToSet(threats') = ToSet(threats) \cup {new}
        BY <1>1, <4>1, Longer
      <4> HIDE DEF Gap
      <4> QED
        BY <3>2, <4>2, <4>3
    <3> QED
      BY <3>1, <3>2
  <2>4. {t.threat : t \in ToSet(threats')} = Names(Gaps(at + 1))
    <3>1. {t.threat : t \in ToSet(threats)} = Names(Gaps(at))
      <4> HIDE DEF Gaps, Names
      <4> QED BY <1>1, <1>5
    <3> HIDE DEF Gaps, Gap
    <3> QED
      BY <2>2, <2>3, <3>1
  <2>5. Told(at)'
    <3>1. Told(at)' <=> {t.threat : t \in ToSet(threats')} = {kept'[j].species : j \in {m \in DOMAIN kept' : m < at' /\ BestOf(OverallTable', m) < Threshold}}
      BY DEF Told, BestOf
    <3>2. {kept'[j].species : j \in {m \in DOMAIN kept' : m < at' /\ BestOf(OverallTable', m) < Threshold}} = Names(Gaps(at + 1))
      BY <1>1, <1>2, <1>7
    <3> HIDE DEF Gaps, Gap, Names
    <3> QED
      BY <2>4, <3>1, <3>2
  <2> QED
    BY <1>1, <1>2, <1>3, <1>7, <2>5 DEF SweptSoFar
<1> QED
  BY <1>6, <1>7 DEF Threats

\* The answer is what the sweep and the list of threats say.
LEMMA FinishSwept == ASSUME Typed, SweptSoFar, Finish PROVE SweptSoFar'
<1>1. /\ pc = "finish" /\ pc' = "stop" /\ UNCHANGED <<call, ctx, at, fighters, kept, rows, threats>>
      /\ outcome' \in {"ok", "error"}
      /\ outcome' = "ok" => answer' = Result /\ (ctx = "live" \/ call.tool = "counter_finder")
  BY DEF Finish, Give, Quiet, envVars, Typed, EnvTyped
<1>2. \A i \in DOMAIN rows' : i \in DOMAIN Rows' /\ rows'[i] = RowOf(i)'
  BY <1>1, RowsStay
<1>3. OverallTable' = OverallTable /\ (Answered' <=> Answered) /\ (OfTeam' <=> OfTeam)
  BY <1>1, TablesStay, AnswerStays DEF OfTeam
<1>4. ASSUME outcome' = "ok", OfTeam PROVE Answered /\ Said'
  <2>1. ctx = "live" /\ Answered
    BY <1>1, <1>4 DEF OfTeam, Typed, EnvTyped, SweptSoFar
  <2>2. CASE call.tool = "team_analysis"
    <3>1. answer'.overall = Aggregate(OverallTable)
      BY <1>1, <1>4, <2>2 DEF Result
    <3>2. Aggregate(OverallTable)' = Aggregate(OverallTable)
      BY <1>1, <1>3 DEF Aggregate, BestOf
    <3> QED
      BY <1>1, <2>1, <2>2, <3>1, <3>2 DEF Said
  <2>3. CASE call.tool = "threat_coverage"
    <3>1. /\ answer'.coverage = [j \in DOMAIN kept |-> BestOf(OverallTable, j)]
          /\ answer'.uncovered = threats
      BY <1>1, <1>4, <2>3 DEF Result
    <3> QED
      BY <1>1, <1>3, <2>1, <2>3, <3>1 DEF Said, BestOf
  <2> QED
    BY <1>4, <2>2, <2>3 DEF OfTeam
<1> HIDE DEF Answered, Said, OfTeam
<1> QED
  BY <1>1, <1>2, <1>3, <1>4 DEF SweptSoFar

\* Before the sweeps and outside the calls nothing of this changes.
LEMMA NextSwept == Typed /\ Planned /\ SweptSoFar /\ [Next]_vars => SweptSoFar'
<1> SUFFICES ASSUME Typed, Planned, SweptSoFar, [Next]_vars PROVE SweptSoFar'
  OBVIOUS
<1>1. CASE Enter \/ Reread \/ Gate \/ Fill \/ Build \/ Meta \/ Prepared
  <2>1. /\ pc \in {"enter", "prepare"} /\ pc' \in {"prepare", "sweep", "stop"} /\ outcome' # "ok"
        /\ rows' = <<>> /\ threats' = <<>>
    BY <1>1 DEF Enter, Reread, Gate, Fill, Build, Meta, Prepared, Due, Give, Typed, SweptSoFar
  <2> QED
    BY <2>1 DEF SweptSoFar
<1>2. CASE Simulate
  <2>1. /\ pc = "sweep" /\ pc' = "stop" /\ call.tool = "matchup" /\ UNCHANGED <<call, fighters, rows, threats>>
    BY <1>2 DEF Simulate, Give
  <2>2. \A i \in DOMAIN rows' : i \in DOMAIN Rows' /\ rows'[i] = RowOf(i)'
    BY <2>1, RowsStay
  <2> QED
    BY <2>1, <2>2 DEF SweptSoFar, OfTeam
<1>3. CASE Around \/ UNCHANGED vars
  <2>1. UNCHANGED toolVars /\ (ctx' = "live" => ctx = "live")
    BY <1>3 DEF Around, Refresh, Cancel, vars, envVars
  <2>2. UNCHANGED <<call, pc, at, fighters, kept, rows, threats, answer, outcome>>
    BY <2>1 DEF toolVars
  <2>3. \A i \in DOMAIN rows' : i \in DOMAIN Rows' /\ rows'[i] = RowOf(i)'
    BY <2>2, RowsStay
  <2>4. /\ \A to : Told(to)' <=> Told(to)
        /\ (Answered' <=> Answered) /\ (Said' <=> Said) /\ (Whole' <=> Whole) /\ (OfTeam' <=> OfTeam)
    BY <2>2, AnswerStays, TablesStay DEF OfTeam
  <2>5. at' = at /\ (Told(at)' <=> Told(at))
    <3>1. OverallTable' = OverallTable
      BY <2>2, TablesStay
    <3> QED
      BY <2>2, <3>1 DEF Told, BestOf
  <2> HIDE DEF Told, Answered, Said, Whole, OfTeam
  <2> QED
    BY <2>1, <2>2, <2>3, <2>4, <2>5 DEF SweptSoFar
<1>4. CASE Sweep \/ Threats \/ Finish
  BY <1>4, SweepSwept, ThreatsSwept, FinishSwept
<1> QED
  BY <1>1, <1>2, <1>3, <1>4 DEF Next
-----------------------------------------------------------------------------
(* What the invariant says of an answer                                    *)

\* A list is its head before its tail.
LEMMA HeadBeforeTail ==
    ASSUME NEW T, NEW list \in Seq(T), list # <<>>
    PROVE  <<Head(list)>> \o Tail(list) = list
<1> DEFINE first == <<Head(list)>>
           rest  == Tail(list)
<1>1. /\ Head(list) \in T /\ Head(list) = list[1] /\ rest \in Seq(T) /\ Len(list) \in Nat \ {0}
      /\ Len(rest) = Len(list) - 1 /\ \A i \in 1 .. Len(rest) : rest[i] = list[i + 1]
  BY HeadTailProperties
<1>2. first \in Seq(T) /\ Len(first) = 1 /\ first[1] = list[1]
  BY <1>1
<1> HIDE DEF first, rest
<1>3. /\ first \o rest \in Seq(T) /\ Len(first \o rest) = Len(list)
      /\ \A i \in 1 .. Len(list) : (first \o rest)[i] = IF i <= 1 THEN first[i] ELSE rest[i - 1]
  <2>1. Len(first) + Len(rest) = Len(list) /\ 1 .. Len(first) + Len(rest) = 1 .. Len(list)
    BY <1>1, <1>2
  <2>2. /\ first \o rest \in Seq(T) /\ Len(first \o rest) = Len(first) + Len(rest)
        /\ \A i \in 1 .. Len(first) + Len(rest) :
              (first \o rest)[i] = IF i <= Len(first) THEN first[i] ELSE rest[i - Len(first)]
    BY <1>1, <1>2, ConcatProperties
  <2> QED
    BY <1>2, <2>1, <2>2
<1>4. \A i \in 1 .. Len(list) : (first \o rest)[i] = list[i]
  <2> SUFFICES ASSUME NEW i \in 1 .. Len(list) PROVE (first \o rest)[i] = list[i]
    OBVIOUS
  <2>1. CASE i = 1
    BY <1>2, <1>3, <2>1
  <2>2. CASE i # 1
    <3>1. i - 1 \in 1 .. Len(rest) /\ (i - 1) + 1 = i /\ ~(i <= 1)
      BY <1>1, <2>2
    <3> QED
      BY <1>1, <1>3, <3>1
  <2> QED
    BY <2>1, <2>2
<1>5. first \o rest = list
  BY <1>3, <1>4, SeqEqual
<1> QED
  BY <1>5 DEF first, rest

\* What is remembered of the ranking.
LEMMA Remembered == ASSUME Typed, memo[Cup] # Unset PROVE memo[Cup].entries = <<>> \/ memo[Cup].entries \in Lists[Cup]
BY DEF Typed, EnvTyped, Answers, Unknown, Known

\* A fighter whose moveset was left out, and what it is filled in with.
LEMMA LeftOut ==
    ASSUME IInv, outcome = "ok", NEW who \in Sides, NEW n \in DOMAIN fighters[who],
           call.tool = "matchup" => refreshed = "no"
    PROVE  LET sent    == call[who][n]
               fighter == fighters[who][n]
               found   == Lookup(doc, sent.species, sent.shadow)
               moveset == Recommended(memo[Cup].entries, fighter.resolved)
           IN  /\ found.ok /\ fighter.resolved = found.id /\ fighter.missing = found.missing
               /\ fighter.fast # None /\ n \in DOMAIN call[who]
               /\ \/ fighter.fast = sent.fast /\ fighter.charged = sent.charged
                  \/ /\ sent.fast = None /\ Recommends(memo[Cup].entries, fighter.resolved)
                     /\ moveset \in Seq(ToSet(moveset)) /\ moveset # <<>>
                     /\ fighter.fast = Head(moveset) /\ fighter.charged = Tail(moveset)
                     /\ ToSet(moveset) \cap Restricted(doc, fighter.resolved, NoLegacy(who), NoElite(who)) = {}
<1> DEFINE sent    == call[who][n]
           spec    == specs[who][n]
           fighter == fighters[who][n]
<1>1. filler = doc
  BY DEF IInv, Typed, Consistent, Running
<1>2. FoughtBy(who, n)
  <2>1. fighters[who] # <<>>
    OBVIOUS
  <2> QED
    BY <2>1 DEF IInv, Fought
<1>3. /\ fighter = Built(doc, spec) /\ Lookup(doc, spec.species, spec.shadow).ok
      /\ spec.fast # None /\ n \in DOMAIN call[who]
  BY <1>2 DEF FoughtBy
<1>4. /\ fighter.resolved = Lookup(doc, spec.species, spec.shadow).id
      /\ fighter.missing = Lookup(doc, spec.species, spec.shadow).missing
      /\ fighter.fast = spec.fast /\ fighter.charged = spec.charged
  BY <1>3 DEF Built
<1>5. spec = sent \/ FilledIn(who, n)
  BY <1>3 DEF IInv, Resolved
<1>6. CASE spec = sent
  BY <1>3, <1>4, <1>6
<1>7. CASE FilledIn(who, n)
  <2> DEFINE form == MovesetId(doc, sent)
             entries == memo[Cup].entries
  <2>1. /\ sent.fast = None /\ memo[Cup] # Unset /\ Recommends(entries, form)
        /\ spec.species = sent.species /\ spec.shadow = sent.shadow
        /\ spec.fast = Head(Recommended(entries, form)) /\ spec.charged = Tail(Recommended(entries, form))
        /\ ToSet(Recommended(entries, form)) \cap Restricted(doc, form, NoLegacy(who), NoElite(who)) = {}
    BY <1>1, <1>7 DEF FilledIn
  <2>2. form = fighter.resolved
    BY <1>3, <1>4, <2>1 DEF MovesetId
  <2>3. entries \in Lists[Cup]
    BY <2>1, Remembered, NothingRecommended DEF IInv
  <2> HIDE DEF form, entries
  <2>4. Recommended(entries, form) \in Seq(ToSet(Recommended(entries, form))) /\ Recommended(entries, form) # <<>>
    BY <2>1, <2>3, Recommendation
  <2> QED
    BY <1>3, <1>4, <2>1, <2>2, <2>4 DEF entries
<1> QED
  BY <1>5, <1>6, <1>7

LEMMA InvFormsMatch == IInv => FormsMatch
<1> SUFFICES ASSUME IInv, outcome = "ok", call.tool = "matchup" => refreshed = "no",
                    NEW who \in Sides, NEW n \in DOMAIN fighters[who], call[who][n].fast = None
             PROVE  LET fighter == fighters[who][n]
                        list    == memo[Cup].entries
                    IN  /\ Recommends(list, fighter.resolved)
                        /\ Recommended(list, fighter.resolved) = <<fighter.fast>> \o fighter.charged
                        /\ call[who][n].shadow /\ <<fighter.resolved[1], shadowSuffix>> \in DOMAIN doc.pokemon
                              => fighter.resolved[2] = shadowSuffix /\ ~fighter.missing
  BY DEF FormsMatch, Sides
<1> DEFINE sent    == call[who][n]
           fighter == fighters[who][n]
           found   == Lookup(doc, sent.species, sent.shadow)
           moveset == Recommended(memo[Cup].entries, fighter.resolved)
<1>1. /\ found.ok /\ fighter.resolved = found.id /\ fighter.missing = found.missing
      /\ Recommends(memo[Cup].entries, fighter.resolved)
      /\ moveset \in Seq(ToSet(moveset)) /\ moveset # <<>>
      /\ fighter.fast = Head(moveset) /\ fighter.charged = Tail(moveset)
  BY LeftOut
<1>2. moveset = <<fighter.fast>> \o fighter.charged
  <2> HIDE DEF moveset
  <2> QED
    BY <1>1, HeadBeforeTail
<1>3. sent.shadow /\ <<fighter.resolved[1], shadowSuffix>> \in DOMAIN doc.pokemon
         => fighter.resolved[2] = shadowSuffix /\ ~fighter.missing
  <2> HIDE DEF fighter, sent
  <2> QED
    BY <1>1 DEF Lookup
<1> QED
  BY <1>1, <1>2, <1>3

LEMMA InvFlagsHonoured == IInv => FlagsHonoured
<1> SUFFICES ASSUME IInv, outcome = "ok" PROVE FlagsHonoured
  BY DEF FlagsHonoured
<1>1. ASSUME NEW who \in Sides, NEW n \in DOMAIN fighters[who]
      PROVE  LET fighter == fighters[who][n]
             IN  ({fighter.fast} \cup ToSet(fighter.charged))
                    \cap Restricted(doc, fighter.resolved, NoLegacy(who), NoElite(who)) = {}
  <2> DEFINE fighter == fighters[who][n]
             sent == call[who][n]
  <2>1. CASE ~Guarded(call, who)
    BY <2>1 DEF Restricted, NoLegacy, NoElite
  <2>2. CASE Guarded(call, who)
    <3>1. call.tool # "matchup"
      BY <2>2 DEF Guarded
    <3>2. CASE fighter.fast = sent.fast /\ fighter.charged = sent.charged
      <4>1. fighter.fast # None /\ n \in DOMAIN call[who]
            /\ Lookup(doc, sent.species, sent.shadow).ok
            /\ fighter.resolved = Lookup(doc, sent.species, sent.shadow).id
        BY <3>1, LeftOut
      <4>2. Passed("gate", who)
        <5>1. fighters[who] # <<>>
          OBVIOUS
        <5> QED
          BY <2>2, <5>1 DEF IInv, Fought
      <4>3. ~SentConflict(doc, sent, NoLegacy(who), NoElite(who))
        BY <4>1, <4>2 DEF IInv, Resolved
      <4>4. MovesOf(sent) = {fighter.fast} \cup ToSet(fighter.charged)
        BY <3>2, <4>1 DEF MovesOf
      <4> HIDE DEF fighter, sent
      <4> QED
        BY <4>1, <4>3, <4>4 DEF SentConflict, fighter
    <3>3. CASE ~(fighter.fast = sent.fast /\ fighter.charged = sent.charged)
      <4> DEFINE moveset == Recommended(memo[Cup].entries, fighter.resolved)
      <4>1. /\ moveset \in Seq(ToSet(moveset)) /\ moveset # <<>>
            /\ fighter.fast = Head(moveset) /\ fighter.charged = Tail(moveset)
            /\ ToSet(moveset) \cap Restricted(doc, fighter.resolved, NoLegacy(who), NoElite(who)) = {}
        BY <3>1, <3>3, LeftOut
      <4> HIDE DEF moveset
      <4>2. ToSet(moveset) = {fighter.fast} \cup ToSet(fighter.charged)
        BY <4>1, HeadAndTail
      <4> QED
        BY <4>1, <4>2
    <3> QED
      BY <3>2, <3>3
  <2> QED
    BY <2>1, <2>2
<1>2. ASSUME call.tool = "counter_finder", NEW n \in DOMAIN fighters["meta"]
      PROVE  LET fighter == fighters["meta"][n]
             IN  ({fighter.fast} \cup ToSet(fighter.charged))
                    \cap Restricted(doc, fighter.resolved, NoLegacy("meta"), NoElite("meta")) = {}
  <2> DEFINE entry == kept[n]
  <2>1. n \in DOMAIN kept /\ fighters["meta"][n] = MetaFighter(entry)
    BY <1>2 DEF IInv, Ranked
  <2>2. memo[Cup] # Unset /\ kept = Kept(doc, Allowed(TopOf(memo[Cup].entries, call.top)))
    <3>1. kept # <<>>
      BY <2>1
    <3> QED
      BY <3>1 DEF IInv, Ranked, Taken
  <2>3. entry \in ToSet(kept)
    BY <2>1 DEF ToSet
  <2>4. /\ entry \in Published /\ Usable(doc, entry)
        /\ ToSet(entry.moveset) \cap Restricted(doc, entry.species, NoLegacy("meta"), NoElite("meta")) = {}
    BY <1>2, <2>2, <2>3, Remembered, KeptIs DEF IInv, Typed
  <2> HIDE DEF entry
  <2> DEFINE moveset == entry.moveset
  <2>5. moveset \in Seq(ToSet(moveset)) /\ moveset # <<>>
    BY <2>4, BattleAssumption DEF Usable
  <2> HIDE DEF moveset
  <2>6. ToSet(moveset) = {Head(moveset)} \cup ToSet(Tail(moveset))
    BY <2>5, HeadAndTail
  <2>7. /\ fighters["meta"][n].fast = Head(moveset) /\ fighters["meta"][n].charged = Tail(moveset)
        /\ fighters["meta"][n].resolved = entry.species
    BY <2>1 DEF MetaFighter, moveset
  <2> QED
    BY <2>4, <2>6, <2>7 DEF moveset
<1> QED
  BY <1>1, <1>2 DEF FlagsHonoured, Sides


-----------------------------------------------------------------------------
(* The coverage of a team                                                  *)

\* After a whole sweep a cell of the table is what its pair is worth.
LEMMA TableIs ==
    ASSUME IInv, OfTeam, Whole, kept # <<>> => Taken
    PROVE  /\ DOMAIN OverallTable = DOMAIN fighters.team
           /\ \A i \in DOMAIN fighters.team, j \in DOMAIN kept :
                 OverallTable[i][j] = Worth(fighters.team[i], kept[j])
<1>1. Rows = fighters.team /\ Opponents = fighters.meta
  BY DEF OfTeam, Rows, Opponents
<1>2. DOMAIN OverallTable = DOMAIN fighters.team
  BY <1>1 DEF OverallTable
<1>3. ASSUME NEW i \in DOMAIN fighters.team, NEW j \in DOMAIN kept
      PROVE  OverallTable[i][j] = Worth(fighters.team[i], kept[j])
  <2>1. j \in DOMAIN Opponents /\ Opponents[j] = MetaFighter(kept[j])
    BY <1>1 DEF IInv, Ranked
  <2>2. i \in DOMAIN rows /\ i <= Len(rows)
    <3>1. rows \in Seq(ToSet(rows)) /\ Rows \in Seq(ToSet(Rows))
      BY RowsAre DEF IInv, Typed
    <3>2. DOMAIN rows = 1..Len(rows) /\ DOMAIN Rows = 1..Len(Rows) /\ Len(rows) = Len(Rows)
      BY <3>1 DEF Whole
    <3> QED
      BY <1>1, <3>1, <3>2
  <2>3. rows[i] = RowOf(i)
    BY <2>2 DEF IInv, SweptSoFar
  <2>4. rows[i][j] = Cells(fighters.team[i], MetaFighter(kept[j]))
    BY <1>1, <2>1, <2>3 DEF RowOf
  <2>5. [s \in DOMAIN call.scenarios |-> Swept(i, j, s)] = Cells(fighters.team[i], MetaFighter(kept[j]))
    <3> DEFINE cells == Cells(fighters.team[i], MetaFighter(kept[j]))
    <3>1. cells = [s \in DOMAIN call.scenarios |-> cells[s]]
      BY DEF Cells
    <3>2. \A s : Swept(i, j, s) = cells[s]
      BY <2>2, <2>4 DEF Swept
    <3> HIDE DEF cells
    <3>3. [s \in DOMAIN call.scenarios |-> Swept(i, j, s)] = cells
      BY <3>1, <3>2
    <3> QED
      BY <3>3 DEF cells
  <2>6. OverallTable[i][j] = Mean([s \in DOMAIN call.scenarios |-> Swept(i, j, s)])
    BY <1>1, <2>1 DEF OverallTable
  <2> QED
    BY <2>5, <2>6 DEF Worth
<1> QED
  BY <1>2, <1>3

\* What is said of a team's coverage is about every member and every usable entry.
LEMMA InvCoverageComplete == IInv => CoverageComplete
<1> SUFFICES ASSUME IInv, outcome = "ok", call.tool \in {"team_analysis", "threat_coverage"} PROVE CoverageComplete
  BY DEF CoverageComplete
<1> DEFINE entries == Kept(doc, TopOf(memo[Cup].entries, call.top))
<1>1. OfTeam /\ Answered /\ Whole /\ Said
  BY DEF OfTeam, IInv, SweptSoFar, Answered
<1>2. Taken /\ kept = entries
  <2>1. pc = "stop" /\ plan = <<>> /\ call \in Requests
    BY DEF IInv, Typed, Planned
  <2>2. Stage("meta", "meta") \in ToSet(Plan(call)) /\ ToSet(plan) = {}
    BY <2>1, PlanFacts DEF ToSet
  <2>3. Passed("meta", "meta")
    BY <2>1, <2>2 DEF Passed, Running
  <2>4. Taken
    BY <2>3 DEF IInv, Ranked
  <2> QED
    BY <2>4 DEF Taken, Allowed
<1>3. /\ DOMAIN OverallTable = DOMAIN fighters.team
      /\ \A i \in DOMAIN fighters.team, j \in DOMAIN kept :
            OverallTable[i][j] = Worth(fighters.team[i], kept[j])
  BY <1>1, <1>2, TableIs
<1>4. ASSUME NEW j \in DOMAIN kept PROVE BestOf(OverallTable, j) = Reach(kept[j])
  <2>1. {OverallTable[i][j] : i \in {n \in DOMAIN OverallTable : OverallTable[n][j] # None}} =
           {Worth(f, kept[j]) : f \in {g \in ToSet(fighters.team) : Worth(g, kept[j]) # None}}
    BY <1>3 DEF ToSet
  <2> QED
    BY <2>1 DEF BestOf, Reach
<1>5. [j \in DOMAIN kept |-> BestOf(OverallTable, j)] = [j \in DOMAIN kept |-> Reach(kept[j])]
  BY <1>4
<1>6. {kept[j].species : j \in {n \in DOMAIN kept : BestOf(OverallTable, n) < Threshold}} =
         {e.species : e \in {x \in ToSet(kept) : Reach(x) < Threshold}}
  <2> HIDE DEF entries
  <2>1. {kept[j].species : j \in {n \in DOMAIN kept : BestOf(OverallTable, n) < Threshold}} =
           {kept[j].species : j \in {n \in DOMAIN kept : Reach(kept[n]) < Threshold}}
    BY <1>4
  <2>2. {kept[j].species : j \in {n \in DOMAIN kept : Reach(kept[n]) < Threshold}} =
           {e.species : e \in {x \in ToSet(kept) : Reach(x) < Threshold}}
    BY DEF ToSet
  <2> QED
    BY <2>1, <2>2
<1>7. CASE call.tool = "team_analysis"
  <2>1. answer.overall = Aggregate(OverallTable)
    BY <1>1, <1>7 DEF Said
  <2>2. answer.overall.coverage = [j \in DOMAIN kept |-> Reach(kept[j])]
    BY <1>5, <2>1 DEF Aggregate
  <2>3. answer.overall.uncovered = {e.species : e \in {x \in ToSet(kept) : Reach(x) < Threshold}}
    BY <1>6, <2>1 DEF Aggregate
  <2>4. {p \in (DOMAIN OverallTable) \X (DOMAIN kept) : OverallTable[p[1]][p[2]] = None} =
           {p \in (DOMAIN fighters.team) \X (DOMAIN kept) : Worth(fighters.team[p[1]], kept[p[2]]) = None}
    <3> DEFINE T == OverallTable
               W(i, j) == Worth(fighters.team[i], kept[j])
               D == DOMAIN fighters.team
               K == DOMAIN kept
    <3>1. DOMAIN T = D /\ \A i \in D, j \in K : T[i][j] = W(i, j)
      BY <1>3
    <3> HIDE DEF T, W, D, K
    <3>2. {p \in (DOMAIN T) \X K : T[p[1]][p[2]] = None} = {p \in D \X K : W(p[1], p[2]) = None}
      BY <3>1
    <3> QED
      BY <3>2 DEF T, W, D, K
  <2>5. answer.overall.failures =
           Cardinality({p \in (DOMAIN fighters.team) \X (DOMAIN kept) : Worth(fighters.team[p[1]], kept[p[2]]) = None})
    <3>1. Aggregate(OverallTable).failures =
             Cardinality({p \in (DOMAIN OverallTable) \X (DOMAIN kept) : OverallTable[p[1]][p[2]] = None})
      BY DEF Aggregate
    <3> QED
      BY <2>1, <2>4, <3>1
  <2> HIDE DEF entries
  <2>6. /\ answer.overall.coverage = [j \in DOMAIN entries |-> Reach(entries[j])]
        /\ answer.overall.uncovered = {e.species : e \in {x \in ToSet(entries) : Reach(x) < Threshold}}
        /\ answer.overall.failures =
              Cardinality({p \in (DOMAIN fighters.team) \X (DOMAIN entries) :
                              Worth(fighters.team[p[1]], entries[p[2]]) = None})
    BY <1>2, <2>2, <2>3, <2>5
  <2> QED
    BY <1>7, <2>6 DEF CoverageComplete, entries
<1>8. CASE call.tool = "threat_coverage"
  <2>1. answer.coverage = [j \in DOMAIN kept |-> BestOf(OverallTable, j)] /\ answer.uncovered = threats
    BY <1>1, <1>8 DEF Said
  <2>2. {t.threat : t \in ToSet(threats)} =
           {kept[j].species : j \in {n \in DOMAIN kept : BestOf(OverallTable, n) < Threshold}}
    <3>1. Told(Len(kept) + 1)
      BY <1>1, <1>8 DEF Answered
    <3>2. kept \in Seq(Published)
      BY DEF IInv, Typed
    <3>3. \A m \in DOMAIN kept : m < Len(kept) + 1
      BY <3>2
    <3> HIDE DEF entries
    <3> QED
      BY <3>1, <3>3 DEF Told
  <2> HIDE DEF entries
  <2>3. /\ answer.coverage = [j \in DOMAIN entries |-> Reach(entries[j])]
        /\ {t.threat : t \in ToSet(answer.uncovered)} = {e.species : e \in {x \in ToSet(entries) : Reach(x) < Threshold}}
    BY <1>2, <1>5, <1>6, <2>1, <2>2
  <2> QED
    BY <1>8, <2>3 DEF CoverageComplete, entries
<1> QED
  BY <1>7, <1>8

-----------------------------------------------------------------------------
(* What is compared: the candidates, the counters and the views of a team  *)

\* A species is in the meta once.
Distinct(list) == \A m, n \in DOMAIN list : list[m].species = list[n].species => m = n

LEMMA WithoutDistinct ==
    ASSUME NEW T, NEW list \in Seq(T), NEW left, Distinct(list)
    PROVE  Distinct(Without(list, left))
<1> DEFINE out == Without(list, left)
<1>1. out \in Seq(T \ left) /\ \E pick : PicksOf(list, left, out, pick)
  BY WithoutPicks
<1> HIDE DEF out
<1>2. PICK pick : PicksOf(list, left, out, pick)
  BY <1>1
<1>3. DOMAIN out = 1 .. Len(out) /\ Len(out) \in Nat /\ DOMAIN list = 1 .. Len(list)
  BY <1>1
<1>4. ASSUME NEW m \in DOMAIN out, NEW n \in DOMAIN out, m < n PROVE out[m].species # out[n].species
  <2>1. /\ pick[m] \in DOMAIN list /\ pick[n] \in DOMAIN list /\ pick[m] < pick[n]
        /\ out[m] = list[pick[m]] /\ out[n] = list[pick[n]]
    BY <1>2, <1>3, <1>4 DEF PicksOf
  <2>2. pick[m] # pick[n]
    BY <1>3, <2>1
  <2> QED BY <2>1, <2>2 DEF Distinct
<1>5. \A m, n \in DOMAIN out : m = n \/ m < n \/ n < m
  BY <1>3
<1> QED
  BY <1>4, <1>5 DEF Distinct, out

LEMMA KeptDistinct ==
    ASSUME call \in Requests, NEW list, list = <<>> \/ list \in Lists[Cup]
    PROVE  Distinct(Kept(doc, Allowed(TopOf(list, call.top))))
<1> DEFINE top == TopOf(list, call.top)
           fine == Allowed(top)
<1>1. list \in Seq(Published) /\ Distinct(list)
  <2>1. CASE list = <<>>
    BY <2>1 DEF Distinct
  <2>2. CASE list \in Lists[Cup]
    <3>1. list \in Seq(ToSet(list)) /\ ToSet(list) \subseteq Published
      BY <2>2, BattleAssumption DEF Published
    <3> QED
      BY <2>2, <3>1, RankingAssumption DEF Distinct
  <2> QED
    BY <2>1, <2>2
<1>2. top \in Seq(Published) /\ Distinct(top)
  <2> DEFINE n == IF call.top < Len(list) THEN call.top ELSE Len(list)
             cut == SubSeq(list, 1, n)
  <2>1. n \in Nat /\ n <= Len(list) /\ Len(list) \in Nat
    BY <1>1, BattleAssumption
  <2> HIDE DEF n
  <2>2. cut \in Seq(Published) /\ DOMAIN cut = 1 .. n /\ \A i \in 1 .. n : cut[i] = list[i]
    BY <1>1, <2>1
  <2>3. \A i \in 1 .. n : i \in DOMAIN list
    BY <1>1, <2>1
  <2> HIDE DEF cut
  <2>4. Distinct(cut)
    BY <1>1, <2>2, <2>3 DEF Distinct
  <2> QED
    BY <2>2, <2>4 DEF TopOf, n, cut
<1> HIDE DEF top
<1>3. fine \in Seq(Published) /\ Distinct(fine)
  <2> DEFINE banned == {e \in ToSet(top) :
                          ToSet(e.moveset) \cap Restricted(doc, e.species, NoLegacy("meta"), NoElite("meta")) # {}}
  <2>1. CASE call.tool # "counter_finder"
    BY <1>2, <2>1 DEF Allowed
  <2>2. CASE call.tool = "counter_finder"
    <3>1. fine = Without(top, banned)
      BY <2>2 DEF Allowed
    <3> HIDE DEF banned
    <3>2. Without(top, banned) \in Seq(Published \ banned) /\ Distinct(Without(top, banned))
      BY <1>2, WithoutPicks, WithoutDistinct
    <3> QED
      BY <3>1, <3>2
  <2> QED
    BY <2>1, <2>2
<1> HIDE DEF fine
<1>4. Distinct(Kept(doc, fine))
  BY <1>3, WithoutDistinct DEF Kept
<1> QED
  BY <1>4 DEF fine, top

\* The invariant beyond IInv: an answer that compares has all there is to compare.
Searching == call.tool = "counter_finder"
Searched == Searching /\ ctx = "live"
Offered ==
    \A t \in ToSet(threats) : \E j \in DOMAIN kept :
       t.threat = kept[j].species /\ t.candidates = TopCandidates(fighters.meta[j])
TeamBuilt == Passed("build", "team") => DOMAIN fighters.team = DOMAIN call.team
PerScenario ==
    answer.perScenario = [s \in DOMAIN call.scenarios |-> Aggregate(ScenarioTable(s))]
Compared ==
    /\ outcome = "ok" => doc \in Docs
    /\ TeamBuilt
    /\ Offered
    /\ pc = "finish" /\ Searched => Whole
    /\ outcome = "ok" /\ Searched => Whole
    /\ outcome = "ok" /\ Searching => answer = Counters
    /\ outcome = "ok" /\ call.tool = "team_analysis" => PerScenario

\* While the fighters, the rows and the meta stay, so does what is compared.
LEMMA ComparisonStays ==
    ASSUME UNCHANGED <<call, fighters, rows, kept>>
    PROVE  /\ Counters' = Counters
           /\ \A s : Aggregate(ScenarioTable(s))' = Aggregate(ScenarioTable(s))
           /\ \A threat : TopCandidates(threat)' = TopCandidates(threat)
<1>1. Rows' = Rows /\ Opponents' = Opponents
  BY DEF Rows, Opponents
<1>2. Marks' = Marks /\ Unrated' = Unrated
  BY DEF Marks, Unrated
<1>3. Counters' = Counters
  BY <1>2 DEF Counters
<1>4. \A i, j, s : Swept(i, j, s)' = Swept(i, j, s)
  BY DEF Swept
<1>5. \A s : ScenarioTable(s)' = ScenarioTable(s)
  BY <1>1, <1>4 DEF ScenarioTable
<1>6. \A s : Aggregate(ScenarioTable(s))' = Aggregate(ScenarioTable(s))
  BY <1>5 DEF Aggregate
<1>7. \A threat : Covering(threat)' = Covering(threat)
  BY DEF Covering, Cells
<1>8. \A threat : TopCandidates(threat)' = TopCandidates(threat)
  BY <1>7 DEF TopCandidates
<1> QED
  BY <1>3, <1>6, <1>8

LEMMA InitCompared == Init => Compared
<1> SUFFICES ASSUME Init PROVE Compared
  OBVIOUS
<1>1. pc = "enter" /\ outcome = "running" /\ threats = <<>>
  BY DEF Init
<1> QED
  BY <1>1 DEF Compared, TeamBuilt, Passed, Running, Offered, ToSet

\* The team is built when its stage has been passed, and stays.
LEMMA NextTeamBuilt == Typed /\ Planned /\ TeamBuilt /\ [Next]_vars => TeamBuilt'
<1> SUFFICES ASSUME Typed, Planned, TeamBuilt, [Next]_vars, Passed("build", "team")'
             PROVE  DOMAIN fighters'.team = DOMAIN call'.team
  BY DEF TeamBuilt
<1>1. call' = call
  BY NextOnward DEF Onward
<1>2. pc # "enter"
  <2> SUFFICES ASSUME pc = "enter" PROVE FALSE
    OBVIOUS
  <2>1. CASE Enter
    BY <1>1, <2>1 DEF Enter, Give, Passed, Running
  <2>2. CASE UNCHANGED toolVars
    BY <2>2 DEF toolVars, Passed, Running
  <2> QED
    BY <2>1, <2>2, AtEntry
<1>3. CASE Build
  <2> DEFINE who == Head(plan).who
  <2>1. /\ who \in Sides /\ Head(plan) = Stage("build", who) /\ outcome' # "error"
        /\ \/ outcome' = "error" /\ UNCHANGED fighters
           \/ /\ fighters' = [fighters EXCEPT ![who] = [n \in DOMAIN specs[who] |-> Built(doc, specs[who][n])]]
              /\ plan' = Tail(plan)
    BY <1>3, BuildDoes DEF Passed, Running
  <2>2. CASE who = "team"
    <3>1. specs.team \in Seq(Specs) /\ call.team \in Seq(Specs) /\ Len(specs.team) = Len(call.team)
      BY SentTyped DEF Typed, Sides
    <3>2. DOMAIN specs.team = DOMAIN call.team
      BY <3>1
    <3>3. DOMAIN fighters'.team = DOMAIN specs.team
      BY <2>1, <2>2 DEF Typed, Sides
    <3> QED
      BY <1>1, <3>2, <3>3
  <2>3. CASE who # "team"
    <3>1. fighters'.team = fighters.team
      BY <2>1, <2>3 DEF Typed, Sides
    <3>2. Passed("build", "team")
      <4> SUFFICES ASSUME ~Passed("build", "team") PROVE FALSE
        OBVIOUS
      <4>1. Head(plan) = Stage("build", "team")
        BY <1>2, JustPassed
      <4> QED
        BY <2>3, <4>1 DEF Stage
    <3> QED
      BY <1>1, <3>1, <3>2 DEF TeamBuilt
  <2> QED
    BY <2>2, <2>3
<1>4. CASE ~Build
  <2>1. fighters'.team = fighters.team
    <3>1. CASE Meta
      <4>1. fighters' = fighters \/ \E list : fighters' = [fighters EXCEPT !.meta = list]
        BY <3>1, MetaDoes
      <4> QED
        BY <4>1 DEF Typed, Sides
    <3>2. CASE ~Meta
      BY <1>4, <3>2 DEF Next, Enter, Reread, Gate, Fill, Prepared, Sweep, Threats, Simulate, Finish,
                        Around, toolVars, vars
    <3> QED
      BY <3>1, <3>2
  <2>2. Passed("build", "team")
    <3> SUFFICES ASSUME ~Passed("build", "team") PROVE FALSE
      OBVIOUS
    <3>1. plan # <<>> /\ Head(plan) = Stage("build", "team") /\ plan' # plan
      BY <1>2, JustPassed, Dropping
    <3>2. Head(plan).do = "build" /\ ~UNCHANGED plan
      BY <3>1 DEF Stage
    <3>3. Reread \/ Gate \/ Fill \/ Meta
      BY <1>2, <1>4, <3>2 DEF Next, Enter, Prepared, Sweep, Threats, Simulate, Finish, Around, toolVars, vars
    <3> QED
      BY <3>2, <3>3 DEF Reread, Gate, Fill, Meta, Due
  <2> QED
    BY <1>1, <2>1, <2>2 DEF TeamBuilt
<1> QED
  BY <1>3, <1>4

\* A threat that is listed has the candidates for the entry it is about.
LEMMA NextOffered == Typed /\ SweptSoFar /\ SweptSoFar' /\ Offered /\ [Next]_vars => Offered'
<1> SUFFICES ASSUME Typed, SweptSoFar, SweptSoFar', Offered, [Next]_vars PROVE Offered'
  OBVIOUS
<1>1. CASE threats' = <<>>
  BY <1>1 DEF Offered, ToSet
<1>2. CASE threats' # <<>>
  <2>1. UNCHANGED <<call, fighters, rows, kept>>
    <3>1. pc' \notin {"enter", "prepare", "sweep"}
      BY <1>2 DEF SweptSoFar
    <3>2. CASE Enter \/ Reread \/ Gate \/ Fill \/ Build \/ Meta \/ Prepared \/ Sweep \/ Simulate
      <4>1. threats = <<>> /\ threats' = threats
        BY <3>2 DEF Enter, Reread, Gate, Fill, Build, Meta, Prepared, Sweep, Simulate, Due, SweptSoFar
      <4> QED
        BY <1>2, <4>1
    <3>3. CASE Threats \/ Finish \/ Around \/ UNCHANGED vars
      BY <3>3 DEF Threats, Finish, Around, toolVars, vars
    <3> QED
      BY <3>2, <3>3 DEF Next
  <2>2. \A threat : TopCandidates(threat)' = TopCandidates(threat)
    BY <2>1, ComparisonStays
  <2>3. CASE threats' = threats
    BY <2>1, <2>2, <2>3 DEF Offered
  <2>4. CASE threats' # threats
    <3> DEFINE new == [threat |-> kept[at].species, best |-> BestOf(OverallTable, at),
                       candidates |-> TopCandidates(fighters.meta[at])]
    <3>1. Threats
      BY <2>4 DEF Next, Enter, Reread, Gate, Fill, Build, Meta, Prepared, Sweep, Simulate, Finish,
                  Around, toolVars, vars
    <3>2. at <= Len(kept) /\ threats' = Append(threats, new)
      BY <2>4, <3>1 DEF Threats
    <3>3. at \in DOMAIN kept
      BY <3>2 DEF Typed
    <3>4. new.threat = kept[at].species /\ new.candidates = TopCandidates(fighters.meta[at])
      OBVIOUS
    <3> HIDE DEF new
    <3>5. ToSet(threats') = ToSet(threats) \cup {new}
      BY <3>2, Longer DEF Typed
    <3> QED
      BY <2>1, <2>2, <3>3, <3>4, <3>5 DEF Offered
  <2> QED
    BY <2>3, <2>4
<1> QED
  BY <1>1, <1>2

LEMMA NextCompared == IInv /\ IInv' /\ Compared /\ [Next]_vars => Compared'
<1> SUFFICES ASSUME IInv, IInv', Compared, [Next]_vars PROVE Compared'
  OBVIOUS
<1>1. Typed /\ Planned /\ SweptSoFar /\ SweptSoFar' /\ Typed'
  BY DEF IInv
<1>2. TeamBuilt' /\ Offered'
  BY <1>1, NextTeamBuilt, NextOffered DEF Compared
<1>3. call' = call /\ (ctx' = "live" => ctx = "live")
  BY <1>1, NextOnward DEF Onward, Typed, EnvTyped
<1>4. CASE pc = "stop"
  <2>1. UNCHANGED vars
    BY <1>4, Stopped
  <2>2. UNCHANGED <<call, fighters, rows, kept, doc, pc, ctx, outcome, answer>>
    BY <2>1 DEF vars, toolVars, envVars
  <2>3. /\ (Whole' <=> Whole) /\ Counters' = Counters
        /\ \A s : Aggregate(ScenarioTable(s))' = Aggregate(ScenarioTable(s))
    BY <2>2, TablesStay, ComparisonStays
  <2>4. PerScenario' <=> PerScenario
    BY <2>2, <2>3 DEF PerScenario
  <2> HIDE DEF Whole, Counters, PerScenario
  <2> QED
    BY <1>2, <2>2, <2>3, <2>4 DEF Compared, Searched, Searching
<1>5. CASE pc # "stop"
  <2>1. outcome = "running"
    BY <1>1, <1>5 DEF Typed
  <2>2. pc' = "finish" /\ Searched' => Whole'
    <3> SUFFICES ASSUME pc' = "finish", Searched' PROVE Whole'
      OBVIOUS
    <3>1. Searched
      BY <1>3 DEF Searched, Searching
    <3>2. CASE pc = "finish"
      <4>1. UNCHANGED <<call, fighters, rows>>
        BY <3>2 DEF Next, Enter, Reread, Gate, Fill, Build, Meta, Prepared, Sweep, Threats, Simulate, Finish,
                    Due, Give, Around, toolVars, vars
      <4>2. Whole
        BY <3>1, <3>2 DEF Compared
      <4> QED
        BY <4>1, <4>2, TablesStay
    <3>3. CASE pc # "finish"
      <4>1. Sweep \/ Threats
        BY <3>3 DEF Next, Enter, Reread, Gate, Fill, Build, Meta, Prepared, Simulate, Finish,
                    Due, Give, Around, toolVars, vars
      <4>2. Sweep
        BY <1>1, <3>1, <4>1 DEF Threats, SweptSoFar, Searched, Searching
      <4>3. Whole /\ UNCHANGED <<call, fighters, rows>>
        BY <3>1, <3>3, <4>2 DEF Sweep, Searched, Searching, Whole
      <4> QED
        BY <4>3, TablesStay
    <3> QED
      BY <3>2, <3>3
  <2>3. CASE outcome' = "ok"
    <3>1. Simulate \/ Finish
      BY <2>1, <2>3 DEF Next, Enter, Reread, Gate, Fill, Build, Meta, Prepared, Sweep, Threats,
                        Due, Give, Around, toolVars, vars
    <3>2. /\ pc \in {"sweep", "finish"} /\ UNCHANGED <<call, doc, fighters, rows, kept, ctx>>
          /\ (pc = "finish" \/ call.tool = "matchup") /\ answer' = Result
      BY <2>3, <3>1 DEF Simulate, Finish, Give, Quiet, envVars
    <3>3. doc' \in Docs
      BY <1>1, <3>2 DEF Typed, Places
    <3>4. /\ (Whole' <=> Whole) /\ Counters' = Counters
          /\ \A s : Aggregate(ScenarioTable(s))' = Aggregate(ScenarioTable(s))
      BY <3>2, TablesStay, ComparisonStays
    <3>5. (Searched' => Whole') /\ (Searching' => answer' = Counters')
      <4> SUFFICES ASSUME Searching' PROVE (Searched' => Whole') /\ answer' = Counters'
        BY DEF Searched
      <4>1. call.tool = "counter_finder" /\ pc = "finish" /\ (Searched' => Searched)
        BY <3>2 DEF Searched, Searching
      <4>2. Result = Counters
        BY <4>1 DEF Result
      <4>3. Searched => Whole
        BY <4>1 DEF Compared
      <4> HIDE DEF Whole, Counters, Searched
      <4> QED
        BY <3>2, <3>4, <4>1, <4>2, <4>3
    <3>6. call'.tool = "team_analysis" => PerScenario'
      <4> SUFFICES ASSUME call'.tool = "team_analysis" PROVE PerScenario'
        OBVIOUS
      <4>1. Result.perScenario = [s \in DOMAIN call.scenarios |-> Aggregate(ScenarioTable(s))]
        BY <3>2 DEF Result
      <4> QED
        BY <3>2, <3>4, <4>1 DEF PerScenario
    <3> QED
      BY <1>2, <2>2, <3>3, <3>5, <3>6 DEF Compared
  <2>4. CASE outcome' # "ok"
    BY <1>2, <2>2, <2>4 DEF Compared
  <2> QED
    BY <2>3, <2>4
<1> QED
  BY <1>4, <1>5

\* Whoever fights is someone the ratings are about.
LEMMA EquippedHas ==
    /\ \A spec \in Sent : spec.fast # None => spec \in Equipped
    /\ \A spec \in Sent, moveset \in Movesets : Equip(spec, moveset) \in Equipped
<1>1. \A x \in Sent : x.fast # None => x \in Equipped
  BY DEF Equipped
<1>2. \A x \in Sent, m \in Movesets : Equip(x, m) \in Equipped
  BY DEF Equipped
<1> QED
  BY <1>1, <1>2

LEMMA AllFielded ==
    ASSUME IInv, Compared, outcome = "ok", NEW who \in Sides \cup {"meta"}, NEW n \in DOMAIN fighters[who]
    PROVE  fighters[who][n] \in Fielded
<1>1. doc \in Docs /\ call \in Requests
  BY DEF Compared, IInv, Typed
<1>2. CASE who \in Sides
  <2> DEFINE sent == call[who][n]
             spec == specs[who][n]
  <2>1. FoughtBy(who, n)
    <3>1. fighters[who] # <<>>
      OBVIOUS
    <3> QED
      BY <1>2, <3>1 DEF IInv, Fought
  <2>2. fighters[who][n] = Built(doc, spec) /\ spec.fast # None /\ n \in DOMAIN call[who]
    BY <2>1 DEF FoughtBy
  <2>3. sent \in Sent
    BY <1>1, <1>2, <2>2 DEF Sent, Sides, ToSet
  <2>4. CASE spec = sent
    <3>1. spec \in Equipped
      <4>1. sent.fast # None
        BY <2>2, <2>4
      <4>2. sent \in Equipped
        <5> HIDE DEF sent
        <5> QED BY <2>3, <4>1, EquippedHas
      <4> QED BY <2>4, <4>2
    <3> QED
      BY <1>1, <2>2, <3>1 DEF Fielded
  <2>5. CASE FilledIn(who, n)
    <3> DEFINE moveset == Recommended(memo[Cup].entries, MovesetId(filler, sent))
               filled == Equip(sent, moveset)
    <3>1. /\ memo[Cup] # Unset /\ Recommends(memo[Cup].entries, MovesetId(filler, sent))
          /\ spec.species = sent.species /\ spec.shadow = sent.shadow
          /\ spec.fast = Head(moveset) /\ spec.charged = Tail(moveset)
      BY <2>5 DEF FilledIn
    <3>2. memo[Cup].entries \in Lists[Cup]
      BY <3>1, Remembered, NothingRecommended DEF IInv
    <3>3. moveset \in Movesets
      <4> DEFINE list == memo[Cup].entries
                 place == EntryIndex(list, MovesetId(filler, sent))
      <4>1. list \in Seq(ToSet(list))
        BY <3>2, BattleAssumption
      <4>2. place \in 0 .. Len(list) /\ Len(list) \in Nat /\ DOMAIN list = 1 .. Len(list)
        BY <4>1, IndexIn
      <4>3. place > 0 /\ list[place].moveset # <<>> /\ moveset = list[place].moveset
        BY <3>1 DEF Recommends, Recommended
      <4> HIDE DEF place, moveset, list
      <4>4. place \in DOMAIN list
        BY <4>2, <4>3
      <4>5. list[place] \in Published
        BY <3>2, <4>4 DEF Published, ToSet, list
      <4> QED
        BY <4>3, <4>5 DEF Movesets
    <3> HIDE DEF moveset
    <3>4. filled \in Equipped
      <4> HIDE DEF sent
      <4> QED BY <2>3, <3>3, EquippedHas
    <3>5. sent = [species |-> sent.species, shadow |-> sent.shadow, fast |-> sent.fast,
                  charged |-> sent.charged, valid |-> sent.valid]
      BY <2>3, BattleAssumption
    <3>6. filled.species = spec.species /\ filled.shadow = spec.shadow /\ filled.fast = spec.fast /\ filled.charged = spec.charged
      BY <3>1, <3>5 DEF Equip
    <3>7. Built(doc, filled) = Built(doc, spec)
      <4> HIDE DEF filled, spec
      <4> QED BY <3>6 DEF Built
    <3> QED
      BY <1>1, <2>2, <3>4, <3>7 DEF Fielded
  <2>6. spec = sent \/ FilledIn(who, n)
    BY <1>2, <2>2 DEF IInv, Resolved
  <2> QED
    BY <2>4, <2>5, <2>6
<1>3. CASE who = "meta"
  <2>1. n \in DOMAIN kept /\ fighters.meta[n] = MetaFighter(kept[n]) /\ kept \in Seq(Published)
    BY <1>3 DEF IInv, Ranked, Typed
  <2>2. Taken
    BY <2>1 DEF IInv, Ranked
  <2>3. kept[n] \in Published /\ Usable(doc, kept[n])
    <3>1. kept[n] \in ToSet(kept)
      BY <2>1 DEF ToSet
    <3>2. memo[Cup].entries = <<>> \/ memo[Cup].entries \in Lists[Cup]
      BY <2>2, Remembered DEF IInv, Taken
    <3> QED
      BY <1>1, <2>2, <3>1, <3>2, KeptIs DEF Taken
  <2>4. kept[n].moveset \in Movesets
    <3>1. kept[n].moveset \in Seq(ToSet(kept[n].moveset)) /\ Len(kept[n].moveset) >= 2
      BY <2>3, BattleAssumption DEF Usable
    <3>2. kept[n].moveset # <<>>
      BY <3>1
    <3> QED
      BY <2>3, <3>2 DEF Movesets
  <2> QED
    BY <1>3, <2>1, <2>3, <2>4 DEF Fielded
<1> QED
  BY <1>2, <1>3

\* One rating per scenario, or none.
LEMMA CellsAre ==
    ASSUME call \in Requests, NEW a \in Fielded, NEW b \in Fielded
    PROVE  /\ Len(call.scenarios) \in Nat /\ DOMAIN call.scenarios = 1 .. Len(call.scenarios)
           /\ DOMAIN Cells(a, b) = 1 .. Len(call.scenarios)
           /\ \A s \in 1 .. Len(call.scenarios) : Cells(a, b)[s] \in Nat \cup {None}
           /\ Mean(Cells(a, b)) \in Nat \cup {None}
<1>1. call.scenarios \in Seq(ToSet(call.scenarios))
  BY BattleAssumption
<1>2. Len(call.scenarios) \in Nat /\ DOMAIN call.scenarios = 1 .. Len(call.scenarios)
  BY <1>1
<1>3. DOMAIN Cells(a, b) = 1 .. Len(call.scenarios)
  BY <1>2 DEF Cells
<1>4. \A s \in 1 .. Len(call.scenarios) : Cells(a, b)[s] \in Nat \cup {None}
  BY <1>2, RatingAssumption DEF Cells
<1> QED
  BY <1>2, <1>3, <1>4, MeanIs

\* A counter search lists the best of the candidates it came to, all of them unless it
\* was cancelled.
LEMMA InvCountersComplete == IInv /\ Compared => CountersComplete
<1> SUFFICES ASSUME IInv, Compared, outcome = "ok", call.tool = "counter_finder" PROVE CountersComplete
  BY DEF CountersComplete
<1> DEFINE target == fighters.team[1]
           mark(i) == Mean(Cells(Rows[i], target))
           N == Len(rows)
<1>1. (ctx = "live" => Whole) /\ answer = Counters /\ call \in Requests /\ pc = "stop" /\ plan = <<>>
  BY DEF Compared, Searched, Searching, IInv, Typed, Planned
<1>2. 1 \in DOMAIN fighters.team /\ Opponents = fighters.team
  <2>1. Stage("build", "team") \in ToSet(Plan(call))
    BY <1>1, PlanCases DEF Building, ToSet
  <2>2. Passed("build", "team")
    BY <1>1, <2>1 DEF Passed, Running, ToSet
  <2>3. call.team \in Seq(ToSet(call.team)) /\ Len(call.team) = 1
    BY <1>1, BattleAssumption
  <2>4. 1 \in DOMAIN call.team
    BY <2>3
  <2> QED
    BY <2>2, <2>4 DEF Compared, TeamBuilt, Opponents
<1>3. /\ N \in Nat /\ DOMAIN rows = 1 .. N /\ 1 .. N \subseteq DOMAIN Rows
      /\ ctx = "live" => DOMAIN rows = DOMAIN Rows
  <2>1. rows \in Seq(ToSet(rows)) /\ Rows \in Seq(ToSet(Rows))
    BY RowsAre DEF IInv, Typed
  <2>2. /\ N \in Nat /\ DOMAIN rows = 1 .. N
        /\ Len(Rows) \in Nat /\ DOMAIN Rows = 1 .. Len(Rows)
    BY <2>1
  <2>3. 1 .. N \subseteq DOMAIN Rows
    BY <2>2 DEF IInv, SweptSoFar
  <2>4. ctx = "live" => N = Len(Rows)
    BY <1>1 DEF Whole
  <2> QED
    BY <2>2, <2>3, <2>4
<1>4. target \in Fielded
  BY <1>2, AllFielded DEF Sides
<1>5. ASSUME NEW i \in 1 .. N PROVE Rows[i] \in Fielded
  <2>1. \/ Rows = fighters.pool
        \/ Rows = fighters.meta
    BY DEF Rows
  <2> QED
    BY <1>3, <2>1, AllFielded DEF Sides
<1>6. ASSUME NEW i \in 1 .. N PROVE mark(i) \in Nat \cup {None}
  BY <1>1, <1>4, <1>5, CellsAre
<1> HIDE DEF N, target
<1>7. ASSUME NEW i \in 1 .. N PROVE rows[i][1] = Cells(Rows[i], target)
  <2>1. rows[i] = RowOf(i)
    BY <1>3 DEF IInv, SweptSoFar
  <2> QED
    BY <1>2, <2>1 DEF RowOf, target
<1>8. DOMAIN Marks = 1 .. N /\ \A i \in 1 .. N : Marks[i] = mark(i)
  BY <1>3, <1>7 DEF Marks
<1>9. Unrated = {i \in 1 .. N : mark(i) = None}
  BY <1>8 DEF Unrated
<1> DEFINE rated == {i \in DOMAIN rows : mark(i) # None}
           out == answer.list
           listed == {c.who : c \in ToSet(out)}
<1>10. rated = (1 .. N) \ Unrated
  BY <1>3, <1>9
<1> HIDE DEF mark
<1>11. out = TopOf(ByRating(Graded(Marks, Unrated)), call.limit) /\ answer.failures = Cardinality(Unrated)
  BY <1>1 DEF Counters
<1>12. call.limit \in Nat
  BY <1>1, BattleAssumption
<1>13. \A i \in (1 .. N) \ Unrated : Marks[i] \in Nat
  BY <1>6, <1>8, <1>9
<1> DEFINE best == TopOf(ByRating(Graded(Marks, Unrated)), call.limit)
           good == (1 .. N) \ Unrated
           names == {c.who : c \in ToSet(best)}
<1>14. /\ names \subseteq good /\ Cardinality(names) = Len(best)
       /\ Len(best) = Min({Cardinality(good), call.limit})
       /\ \A i \in good \ names, j \in names : Marks[i] <= Marks[j]
       /\ \A k, l \in DOMAIN best : k < l => best[k].rating >= best[l].rating
  BY <1>3, <1>8, <1>12, <1>13, BestGraded
<1>15. best = out /\ good = rated /\ names = listed
  BY <1>10, <1>11
<1> HIDE DEF best, good, names, rated, listed, out
<1>16. /\ listed \subseteq rated /\ Cardinality(listed) = Min({Cardinality(rated), call.limit})
       /\ \A k, l \in DOMAIN out : k < l => out[k].rating >= out[l].rating
  BY <1>14, <1>15
<1>17. \A i \in rated \ listed, j \in listed : mark(i) <= mark(j)
  <2> SUFFICES ASSUME NEW i \in rated \ listed, NEW j \in listed PROVE mark(i) <= mark(j)
    OBVIOUS
  <2>1. Marks[i] <= Marks[j]
    BY <1>14, <1>15
  <2>2. i \in 1 .. N /\ j \in 1 .. N
    BY <1>10, <1>16
  <2> QED
    BY <1>8, <2>1, <2>2
<1>18. answer.failures = Cardinality(DOMAIN rows) - Cardinality(rated)
  <2>1. IsFiniteSet(1 .. N) /\ Cardinality(1 .. N) = N
    BY <1>3, FS_Interval
  <2>2. Unrated \in SUBSET (1 .. N)
    BY <1>9
  <2>3. IsFiniteSet(Unrated) /\ Cardinality(Unrated) \in Nat
    BY <2>1, <2>2, FS_Subset, FS_CardinalityType
  <2>4. (1 .. N) \cap Unrated = Unrated
    BY <2>2
  <2>5. Cardinality(rated) = N - Cardinality(Unrated) /\ Cardinality(DOMAIN rows) = N
    <3>1. Cardinality((1 .. N) \ Unrated) = Cardinality(1 .. N) - Cardinality((1 .. N) \cap Unrated)
      BY <2>1, FS_Difference
    <3> QED
      BY <1>3, <1>10, <2>1, <2>4, <3>1
  <2> QED
    BY <1>3, <1>11, <2>3, <2>5
<1> QED
  BY <1>3, <1>16, <1>17, <1>18 DEF CountersComplete, mark, rated, listed, out, N, target

\* The candidates against a threat are the best the pool has.
LEMMA InvCandidatesBest == IInv /\ Compared => CandidatesBest
<1> SUFFICES ASSUME IInv, Compared, outcome = "ok", call.tool = "threat_coverage", NEW t \in ToSet(answer.uncovered)
             PROVE  LET entry   == CHOOSE e \in ToSet(kept) : e.species = t.threat
                        mark(n) == Worth(fighters.pool[n], entry)
                        covers  == {n \in DOMAIN fighters.pool : mark(n) # None /\ mark(n) >= Threshold}
                        listed  == {c.who : c \in ToSet(t.candidates)}
                    IN  /\ listed \subseteq covers
                        /\ Cardinality(listed) = Len(t.candidates)
                        /\ Len(t.candidates) = Min({Cardinality(covers), MaxCandidates})
                        /\ \A n \in covers \ listed, m \in listed : mark(n) <= mark(m)
  BY DEF CandidatesBest
<1>1. answer.uncovered = threats /\ call \in Requests /\ kept \in Seq(Published)
  BY DEF IInv, SweptSoFar, OfTeam, Said, Typed
<1>2. PICK j \in DOMAIN kept : t.threat = kept[j].species /\ t.candidates = TopCandidates(fighters.meta[j])
  BY <1>1 DEF Compared, Offered
<1>3. Taken /\ fighters.meta[j] = MetaFighter(kept[j]) /\ j \in DOMAIN fighters.meta
  BY DEF IInv, Ranked
<1>4. Distinct(kept)
  <2>1. memo[Cup].entries = <<>> \/ memo[Cup].entries \in Lists[Cup]
    BY <1>3, Remembered DEF IInv, Taken
  <2> QED
    BY <1>1, <1>3, <2>1, KeptDistinct DEF Taken
<1> DEFINE entry   == CHOOSE e \in ToSet(kept) : e.species = t.threat
           mark(n) == Worth(fighters.pool[n], entry)
           covers  == {n \in DOMAIN fighters.pool : mark(n) # None /\ mark(n) >= Threshold}
           out     == t.candidates
           listed  == {c.who : c \in ToSet(out)}
           N       == Len(fighters.pool)
           threat  == fighters.meta[j]
<1>5. entry = kept[j]
  <2>1. kept[j] \in ToSet(kept) /\ kept[j].species = t.threat
    BY <1>2 DEF ToSet
  <2>2. entry \in ToSet(kept) /\ entry.species = t.threat
    BY <2>1
  <2> HIDE DEF entry
  <2>3. PICK k \in DOMAIN kept : entry = kept[k]
    BY <2>2 DEF ToSet
  <2> QED
    BY <1>2, <1>4, <2>2, <2>3 DEF Distinct
<1> HIDE DEF entry
<1>6. N \in Nat /\ DOMAIN fighters.pool = 1 .. N
  BY DEF IInv, Typed, Sides
<1>7. \A i \in 1 .. N : mark(i) = Mean(Cells(fighters.pool[i], threat)) /\ mark(i) \in Nat \cup {None}
  <2> SUFFICES ASSUME NEW i \in 1 .. N
               PROVE  mark(i) = Mean(Cells(fighters.pool[i], threat)) /\ mark(i) \in Nat \cup {None}
    OBVIOUS
  <2>1. fighters.pool[i] \in Fielded /\ threat \in Fielded
    BY <1>3, <1>6, AllFielded DEF Sides
  <2>2. mark(i) = Mean(Cells(fighters.pool[i], threat))
    BY <1>3, <1>5 DEF Worth
  <2> HIDE DEF mark, threat
  <2> QED
    BY <1>1, <2>1, <2>2, CellsAre
<1> HIDE DEF N, mark, threat
<1> DEFINE marks == [i \in DOMAIN fighters.pool |-> Mean(Cells(fighters.pool[i], threat))]
           fails == {i \in DOMAIN marks : ~(marks[i] # None /\ marks[i] >= Threshold)}
           best  == TopOf(ByRating(Graded(marks, fails)), MaxCandidates)
           good  == (1 .. N) \ fails
           names == {c.who : c \in ToSet(best)}
<1>8. out = best
  BY <1>2 DEF TopCandidates, Covering, threat
<1>9. DOMAIN marks = 1 .. N /\ \A i \in 1 .. N : marks[i] = mark(i)
  BY <1>6, <1>7
<1>10. good = covers
  BY <1>6, <1>9
<1>11. \A i \in good : marks[i] \in Nat
  BY <1>7, <1>9
<1>12. MaxCandidates \in Nat
  BY BoundsAssumption
<1> HIDE DEF marks, fails
<1>13. /\ names \subseteq good /\ Cardinality(names) = Len(best)
       /\ Len(best) = Min({Cardinality(good), MaxCandidates})
       /\ \A i \in good \ names, k \in names : marks[i] <= marks[k]
       /\ \A k, l \in DOMAIN best : k < l => best[k].rating >= best[l].rating
  BY <1>6, <1>9, <1>11, <1>12, BestGraded
<1>14. names = listed
  BY <1>8
<1> HIDE DEF best, names, out, listed, good, covers
<1>15. /\ listed \subseteq covers /\ Cardinality(listed) = Len(out)
       /\ Len(out) = Min({Cardinality(covers), MaxCandidates})
  BY <1>8, <1>10, <1>13, <1>14
<1>16. ASSUME NEW n \in covers \ listed, NEW m \in listed PROVE mark(n) <= mark(m)
  <2>1. marks[n] <= marks[m]
    BY <1>10, <1>13, <1>14
  <2>2. n \in 1 .. N /\ m \in 1 .. N
    BY <1>10, <1>15 DEF good
  <2> QED
    BY <1>9, <2>1, <2>2
<1> QED
  BY <1>15, <1>16 DEF entry, mark, covers, listed, out

\* The best rating of a column is a rating of it, or zero, and none is better.
LEMMA BestIs ==
    ASSUME NEW n \in Nat, NEW table, DOMAIN table = 1 .. n, NEW j,
           \A i \in 1 .. n : table[i][j] \in Nat \cup {None}
    PROVE  /\ BestOf(table, j) \in Nat
           /\ \A i \in 1 .. n : table[i][j] # None => table[i][j] <= BestOf(table, j)
           /\ BestOf(table, j) = 0 \/ \E i \in 1 .. n : table[i][j] # None /\ table[i][j] = BestOf(table, j)
<1> DEFINE I == {i \in 1 .. n : table[i][j] # None}
           w == [i \in I |-> table[i][j]]
           S == {0} \cup {w[i] : i \in I}
<1>1. \A i \in I : w[i] \in Nat
  OBVIOUS
<1>2. I \in SUBSET (1 .. n)
  OBVIOUS
<1>3. BestOf(table, j) = Max(S)
  <2>1. S = {0} \cup {table[i][j] : i \in {m \in DOMAIN table : table[m][j] # None}}
    OBVIOUS
  <2> QED
    BY <2>1 DEF BestOf
<1>4. Max(S) \in S /\ \A x \in S : x <= Max(S)
  <2> HIDE DEF I, w
  <2> QED BY <1>1, <1>2, Greatest
<1>5. S \in SUBSET Nat
  <2>1. \A x \in S : x = 0 \/ \E i \in I : x = w[i]
    OBVIOUS
  <2> HIDE DEF I, w, S
  <2> QED BY <1>1, <2>1
<1>6. \A i \in 1 .. n : table[i][j] # None => table[i][j] \in S
  OBVIOUS
<1>7. \A x \in S : x = 0 \/ \E i \in 1 .. n : table[i][j] # None /\ table[i][j] = x
  OBVIOUS
<1> HIDE DEF S
<1> QED
  BY <1>3, <1>4, <1>5, <1>6, <1>7

\* What the averaged view covers, some scenario does, and its failures are all of theirs.
LEMMA InvOverallWithinScenarios == IInv /\ Compared => OverallWithinScenarios
<1> SUFFICES ASSUME IInv, Compared, outcome = "ok", call.tool = "team_analysis"
             PROVE  OverallWithinScenarios
  BY DEF OverallWithinScenarios
<1> DEFINE n == Len(fighters.team)
           T == OverallTable
<1>1. /\ Whole /\ answer.overall = Aggregate(OverallTable) /\ PerScenario
      /\ Rows = fighters.team /\ Opponents = fighters.meta /\ call \in Requests
      /\ DOMAIN fighters.meta = DOMAIN kept /\ kept \in Seq(Published)
  BY DEF IInv, SweptSoFar, OfTeam, Answered, Said, Compared, Rows, Opponents, Ranked, Typed
<1>2. n \in Nat /\ DOMAIN fighters.team = 1 .. n /\ DOMAIN rows = 1 .. n /\ Len(rows) = n
  <2>1. rows \in Seq(ToSet(rows)) /\ Rows \in Seq(ToSet(Rows))
    BY RowsAre DEF IInv, Typed
  <2> QED
    BY <1>1, <2>1 DEF Whole
<1>3. ASSUME NEW i \in 1 .. n, NEW j \in DOMAIN kept
      PROVE  LET cells == Cells(fighters.team[i], fighters.meta[j])
             IN  /\ T[i][j] = Mean(cells)
                 /\ \A s \in DOMAIN call.scenarios : ScenarioTable(s)[i][j] = cells[s]
                 /\ fighters.team[i] \in Fielded /\ fighters.meta[j] \in Fielded
  <2> DEFINE cells == Cells(fighters.team[i], fighters.meta[j])
  <2>1. rows[i][j] = cells
    <3>1. rows[i] = RowOf(i)
      BY <1>2 DEF IInv, SweptSoFar
    <3> QED
      BY <1>1, <3>1 DEF RowOf
  <2>2. i <= Len(rows)
    BY <1>2
  <2>3. \A s : Swept(i, j, s) = cells[s]
    BY <2>1, <2>2 DEF Swept
  <2>4. cells = [s \in DOMAIN call.scenarios |-> cells[s]]
    BY DEF Cells
  <2> HIDE DEF cells
  <2>5. [s \in DOMAIN call.scenarios |-> Swept(i, j, s)] = cells
    BY <2>3, <2>4
  <2>6. T[i][j] = Mean(cells)
    BY <1>1, <1>2, <2>5 DEF OverallTable
  <2>7. \A s \in DOMAIN call.scenarios : ScenarioTable(s)[i][j] = cells[s]
    BY <1>1, <1>2, <2>3 DEF ScenarioTable
  <2>8. fighters.team[i] \in Fielded /\ fighters.meta[j] \in Fielded
    BY <1>1, <1>2, AllFielded DEF Sides
  <2> QED
    BY <2>6, <2>7, <2>8 DEF cells
<1>4. DOMAIN T = 1 .. n /\ \A s : DOMAIN ScenarioTable(s) = 1 .. n
  BY <1>1, <1>2 DEF OverallTable, ScenarioTable
<1> HIDE DEF T, n
<1> DEFINE len == Len(call.scenarios)
<1>5. ASSUME NEW i \in 1 .. n, NEW j \in DOMAIN kept
      PROVE  /\ T[i][j] \in Nat \cup {None}
             /\ T[i][j] = None => \A s \in DOMAIN call.scenarios : ScenarioTable(s)[i][j] = None
             /\ \A b \in Nat : T[i][j] # None /\ T[i][j] >= b =>
                   \E s \in DOMAIN call.scenarios : ScenarioTable(s)[i][j] # None /\ ScenarioTable(s)[i][j] >= b
             /\ \A s \in DOMAIN call.scenarios : ScenarioTable(s)[i][j] \in Nat \cup {None}
  <2> DEFINE cells == Cells(fighters.team[i], fighters.meta[j])
  <2>1. /\ T[i][j] = Mean(cells)
        /\ \A s \in DOMAIN call.scenarios : ScenarioTable(s)[i][j] = cells[s]
        /\ fighters.team[i] \in Fielded /\ fighters.meta[j] \in Fielded
    BY <1>3
  <2>2. /\ len \in Nat /\ DOMAIN call.scenarios = 1 .. len /\ DOMAIN cells = 1 .. len
        /\ \A s \in 1 .. len : cells[s] \in Nat \cup {None}
    BY <1>1, <2>1, CellsAre
  <2> HIDE DEF cells, len
  <2>3. /\ Mean(cells) \in Nat \cup {None}
        /\ Mean(cells) = None <=> \A s \in 1 .. len : cells[s] = None
        /\ \A b \in Nat : Mean(cells) # None /\ Mean(cells) >= b =>
              \E s \in 1 .. len : cells[s] # None /\ cells[s] >= b
    BY <2>2, MeanIs
  <2> DEFINE mark == T[i][j]
             told(s) == ScenarioTable(s)[i][j]
  <2>4. /\ mark = Mean(cells)
        /\ \A s \in 1 .. len : told(s) = cells[s] /\ told(s) \in Nat \cup {None}
    BY <2>1, <2>2
  <2> HIDE DEF mark, told
  <2>5. mark \in Nat \cup {None} /\ (mark = None => \A s \in 1 .. len : told(s) = None)
    BY <2>3, <2>4
  <2>6. ASSUME NEW b \in Nat, mark # None, mark >= b PROVE \E s \in 1 .. len : told(s) # None /\ told(s) >= b
    <3>1. \E s \in 1 .. len : cells[s] # None /\ cells[s] >= b
      BY <2>3, <2>4, <2>6
    <3> QED BY <2>4, <3>1
  <2> QED
    BY <2>2, <2>4, <2>5, <2>6 DEF mark, told
<1>6. ASSUME NEW j \in DOMAIN kept, kept[j].species \notin answer.overall.uncovered
      PROVE  \E s \in DOMAIN call.scenarios : kept[j].species \notin answer.perScenario[s].uncovered
  <2>1. ~(BestOf(T, j) < Threshold)
    BY <1>1, <1>6 DEF Aggregate, T
  <2>2. /\ BestOf(T, j) \in Nat
        /\ BestOf(T, j) = 0 \/ \E i \in 1 .. n : T[i][j] # None /\ T[i][j] = BestOf(T, j)
    <3>1. n \in Nat /\ DOMAIN T = 1 .. n /\ \A i \in 1 .. n : T[i][j] \in Nat \cup {None}
      BY <1>2, <1>4, <1>5 DEF n
    <3> QED
      BY <3>1, BestIs
  <2>3. PICK i \in 1 .. n : T[i][j] # None /\ T[i][j] >= Threshold
    BY <2>1, <2>2, BoundsAssumption
  <2>4. PICK s \in DOMAIN call.scenarios : ScenarioTable(s)[i][j] # None /\ ScenarioTable(s)[i][j] >= Threshold
    BY <1>5, <2>3, BoundsAssumption
  <2> DEFINE S == ScenarioTable(s)
  <2>5. BestOf(S, j) \in Nat /\ S[i][j] <= BestOf(S, j) /\ S[i][j] \in Nat
    <3>1. n \in Nat /\ DOMAIN S = 1 .. n /\ \A k \in 1 .. n : S[k][j] \in Nat \cup {None}
      BY <1>2, <1>4, <1>5 DEF n
    <3> HIDE DEF S
    <3>2. BestOf(S, j) \in Nat /\ \A k \in 1 .. n : S[k][j] # None => S[k][j] <= BestOf(S, j)
      BY <3>1, BestIs
    <3> QED
      BY <2>4, <3>1, <3>2 DEF S
  <2>6. ~(BestOf(S, j) < Threshold)
    <3> HIDE DEF S
    <3> QED BY <2>4, <2>5, BoundsAssumption DEF S
  <2>7. answer.perScenario[s].uncovered = {kept[k].species : k \in {m \in DOMAIN kept : BestOf(S, m) < Threshold}}
    BY <1>1 DEF PerScenario, Aggregate
  <2>8. Distinct(kept)
    <3>1. Taken
      BY DEF IInv, Ranked
    <3>2. memo[Cup].entries = <<>> \/ memo[Cup].entries \in Lists[Cup]
      BY <3>1, Remembered DEF IInv, Taken
    <3> QED
      BY <1>1, <3>1, <3>2, KeptDistinct DEF Taken
  <2> HIDE DEF S
  <2>9. kept[j].species \notin answer.perScenario[s].uncovered
    BY <2>6, <2>7, <2>8 DEF Distinct
  <2> QED
    BY <2>9
<1>7. ASSUME NEW s \in DOMAIN call.scenarios
      PROVE  answer.overall.failures <= answer.perScenario[s].failures
  <2> DEFINE S == ScenarioTable(s)
             cells == (1 .. n) \X (DOMAIN kept)
             missed(table) == {p \in (DOMAIN table) \X (DOMAIN kept) : table[p[1]][p[2]] = None}
  <2>1. answer.overall.failures = Cardinality(missed(T)) /\ answer.perScenario[s].failures = Cardinality(missed(S))
    BY <1>1 DEF PerScenario, Aggregate, T
  <2>2. DOMAIN S = 1 .. n
    BY <1>4
  <2>3. \A i \in 1 .. n, j \in DOMAIN kept : T[i][j] = None => S[i][j] = None
    BY <1>5
  <2> HIDE DEF S
  <2>4. missed(T) \in SUBSET missed(S) /\ missed(S) \in SUBSET cells
    BY <1>4, <2>2, <2>3
  <2>5. IsFiniteSet(cells)
    <3>1. IsFiniteSet(1 .. n)
      BY <1>2, FS_Interval DEF n
    <3>2. IsFiniteSet(DOMAIN kept)
      <4>1. DOMAIN kept = 1 .. Len(kept) /\ Len(kept) \in Nat
        BY <1>1
      <4> QED
        BY <4>1, FS_Interval
    <3> QED
      BY <3>1, <3>2, FS_Product
  <2> HIDE DEF missed, cells
  <2>6. IsFiniteSet(missed(S))
    BY <2>4, <2>5, FS_Subset
  <2>7. Cardinality(missed(T)) <= Cardinality(missed(S))
    BY <2>4, <2>6, FS_Subset
  <2> QED
    BY <2>1, <2>7
<1> QED
  BY <1>6, <1>7 DEF OverallWithinScenarios

-----------------------------------------------------------------------------
(* The theorems                                                            *)

LEMMA InitIInv == Init => IInv
<1> SUFFICES ASSUME Init PROVE IInv
  OBVIOUS
<1>1. Typed
  BY InitTyped
<1>2. pc = "enter" /\ outcome = "running" /\ plan = <<>> /\ at = 1 /\ specs = [team |-> call.team, pool |-> call.pool]
      /\ fighters = [team |-> <<>>, pool |-> <<>>, meta |-> <<>>] /\ kept = <<>> /\ rows = <<>> /\ threats = <<>>
  BY DEF Init
<1>3. Planned
  BY <1>2 DEF Planned, InTurn, ToSet
<1>4. Consistent
  BY <1>2 DEF Consistent, Running
<1>5. Resolved
  BY <1>2 DEF Resolved, Unfilled, Passed, Running, Sides
<1>6. Fought
  BY <1>2 DEF Fought, Sides
<1>7. Ranked
  BY <1>2 DEF Ranked, Passed, Running
<1>8. SweptSoFar
  BY <1>2 DEF SweptSoFar
<1>9. OwnMovesRefused
  BY <1>2 DEF OwnMovesRefused
<1> QED
  BY <1>1, <1>3, <1>4, <1>5, <1>6, <1>7, <1>8, <1>9 DEF IInv

LEMMA NextIInv == IInv /\ [Next]_vars => IInv'
BY NextTyped, NextPlanned, NextConsistent, NextResolved, NextFought, NextRanked, NextSwept, NextRefused DEF IInv

\* In every state of every call, the stages that are left, the fighters that were
\* filled in and built, the meta and the rows swept fit the parameters, the
\* document and what the rankings manager remembers.
THEOREM Inductive == Spec => []IInv
<1>1. IInv /\ UNCHANGED vars => IInv'
  BY NextIInv
<1> QED
  BY InitIInv, NextIInv, PTL DEF Spec

\* A moveset that was left out is always the one the rankings recommend for the
\* form that fights (applyMovesetDefaults and buildEngineCombatant agree).
THEOREM FormsMatchHolds == Spec => []FormsMatch
BY Inductive, InvFormsMatch, PTL

\* No call answers about a fighter whose moves the flags forbid, and none is
\* refused over moves that the flags are not about.
THEOREM RestrictionsKeptHolds == Spec => []RestrictionsKept
<1>1. IInv => RestrictionsKept
  BY InvFlagsHonoured DEF RestrictionsKept, IInv
<1> QED
  BY <1>1, Inductive, PTL

\* The coverage both team tools tell is that of every member against every entry
\* of the meta, however the context ends.
THEOREM CoverageCompleteHolds == Spec => []CoverageComplete
BY Inductive, InvCoverageComplete, PTL

\* In every state of every call, what an answer compares is all there is.
THEOREM ComparedHolds == Spec => []Compared
<1>1. Compared /\ IInv /\ IInv' /\ UNCHANGED vars => Compared'
  BY NextCompared
<1> QED
  BY InitCompared, NextCompared, Inductive, PTL DEF Spec

\* The coverage of a team is complete and the same in every view of it, and the
\* candidates for its gaps are the best the pool has.
THEOREM CoverageSoundHolds == Spec => []CoverageSound
<1>1. IInv /\ Compared => CoverageSound
  BY InvCoverageComplete, InvOverallWithinScenarios, InvCandidatesBest DEF CoverageSound
<1> QED
  BY <1>1, Inductive, ComparedHolds, PTL

\* A counter search lists the best of the candidates it came to and counts the failures
\* among them, and only one that was cancelled has not come to all: counter_finder.go,
\* scoreCandidates and handle.
THEOREM CountersCompleteHolds == Spec => []CountersComplete
BY InvCountersComplete, Inductive, ComparedHolds, PTL
=============================================================================
