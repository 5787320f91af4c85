---------------------------- MODULE RankToolProofs ----------------------------
(***************************************************************************)
(* Proofs about RankTool.                                                  *)
(*                                                                         *)
(* The inductive invariant, IInv, relates what the parts of one answer say *)
(* to each other through what the rankings manager remembers.  All a       *)
(* result tells of rankings is what is remembered, and what is remembered  *)
(* stays (Recalled), so a part that is fetched later tells the same; what  *)
(* is not told yet is still to be asked (OpenListed, Hoisted).  The        *)
(* enumeration of movesets leads all builds it has come to (ScanSound),    *)
(* so a best that is published is the best of all (Alternated).  And the   *)
(* entries of a batch are counted, and the one that is under way has IVs   *)
(* that fit (Counted), so that each can be held against its own IVs        *)
(* (BatchFailures).                                                        *)
(*                                                                         *)
(* The loops of the code are recursive functions in the model.  Induction  *)
(* and Recursion below are what is needed to reason about them.            *)
(***************************************************************************)
EXTENDS RankTool, WellFoundedInduction, SequenceTheorems, TLAPS
-----------------------------------------------------------------------------
(* Operators                                                               *)

\* The order of the naturals, as the well-founded relation that induction needs.
Below == {pair \in Nat \X Nat : pair[1] < pair[2]}

\* Induction over the naturals, for a set of them.
LEMMA Induction ==
    ASSUME NEW S \in SUBSET Nat, 0 \in S, \A n \in S : n + 1 \in S
    PROVE  S = Nat
<1> SUFFICES ASSUME Nat \ S # {} PROVE FALSE
  OBVIOUS
<1>1. IsWellFoundedOn(Below, Nat)
  BY NatLessThanWellFounded DEF OpToRel, Below
<1>2. PICK least \in Nat \ S : \A n \in Nat \ S : ~(<<n, least>> \in Below)
  BY <1>1, WFMin
<1>3. least \in Nat /\ least # 0 /\ least - 1 \in Nat /\ least - 1 < least /\ (least - 1) + 1 = least
  BY <1>2
<1>4. <<least - 1, least>> \in Below
  BY <1>3 DEF Below
<1>5. least - 1 \in S
  BY <1>2, <1>3, <1>4
<1> QED
  BY <1>2, <1>3, <1>5

\* Induction up to a number, for what holds of some set of numbers.
LEMMA InductionUpto ==
    ASSUME NEW n \in Nat, NEW S, 0 \in S, \A q \in 1..n : q - 1 \in S => q \in S
    PROVE  \A q \in 0..n : q \in S
<1> DEFINE A == {m \in Nat : m <= n => m \in S}
<1>1. 0 \in A
  OBVIOUS
<1>2. ASSUME NEW m \in A PROVE m + 1 \in A
  <2>1. CASE m + 1 <= n
    <3>1. m \in S /\ m + 1 \in 1..n /\ (m + 1) - 1 = m
      BY <1>2, <2>1
    <3> QED
      BY <3>1
  <2>2. CASE ~(m + 1 <= n)
    BY <2>2
  <2> QED
    BY <2>1, <2>2
<1>3. A = Nat
  <2>1. A \in SUBSET Nat
    OBVIOUS
  <2> HIDE DEF A
  <2> QED BY <1>1, <1>2, <2>1, Induction
<1> QED
  BY <1>3

\* What is recursively defined: a start and, after it, a step from what came before.
Unfolds(f, start, step, n) ==
    f[0] = start /\ \A q \in 1..n : f[q] = step[<<q, f[q - 1]>>]

\* There is a function to any recursive definition.
LEMMA Recursion ==
    ASSUME NEW V, NEW start \in V, NEW n \in Nat, NEW step \in [(1..n) \X V -> V]
    PROVE  \E f \in [0..n -> V] : Unfolds(f, start, step, n)
<1> DEFINE Fits(f, m) == f[0] = start /\ \A q \in 1..m : f[q] = step[<<q, f[q - 1]>>]
           S == {m \in Nat : m <= n => \E f \in [0..m -> V] : Fits(f, m)}
<1>1. 0 \in S
  <2>1. [q \in 0..0 |-> start] \in [0..0 -> V] /\ Fits([q \in 0..0 |-> start], 0)
    OBVIOUS
  <2> QED
    BY <2>1
<1>2. ASSUME NEW m \in S, m + 1 <= n PROVE \E f \in [0..(m + 1) -> V] : Fits(f, m + 1)
  <2>1. m \in Nat /\ m <= n
    BY <1>2
  <2>2. PICK f \in [0..m -> V] : Fits(f, m)
    <3> HIDE DEF Fits
    <3> QED BY <1>2, <2>1
  <2> DEFINE g == [q \in 0..(m + 1) |-> IF q <= m THEN f[q] ELSE step[<<m + 1, f[m]>>]]
  <2>3. step[<<m + 1, f[m]>>] \in V
    BY <1>2, <2>1
  <2>4. g \in [0..(m + 1) -> V]
    BY <2>1, <2>3
  <2>5. Fits(g, m + 1)
    <3>1. g[0] = start
      BY <2>1, <2>2
    <3>2. ASSUME NEW q \in 1..(m + 1) PROVE g[q] = step[<<q, g[q - 1]>>]
      <4>1. q - 1 \in 0..m /\ q \in 0..(m + 1) /\ q - 1 <= m /\ q - 1 \in 0..(m + 1) /\ (q = m + 1 => q - 1 = m)
        BY <2>1
      <4>2. g[q - 1] = f[q - 1]
        BY <4>1
      <4>3. CASE q <= m
        BY <2>1, <2>2, <4>1, <4>2, <4>3
      <4>4. CASE q = m + 1
        BY <2>1, <4>1, <4>2, <4>4
      <4> QED
        BY <2>1, <4>3, <4>4
    <3> QED
      BY <3>1, <3>2
  <2> QED
    BY <2>4, <2>5
<1>3. S = Nat
  <2> HIDE DEF Fits
  <2>1. \A m \in S : m + 1 \in S
    BY <1>2
  <2>2. S \in SUBSET Nat
    OBVIOUS
  <2> HIDE DEF S
  <2> QED
    BY <1>1, <2>1, <2>2, Induction
<1> QED
  BY <1>3 DEF Unfolds

\* What appending an element does to a sequence and to its elements.
LEMMA AppendKeeps ==
    ASSUME NEW T, NEW list \in Seq(T), NEW e \in T
    PROVE  /\ Append(list, e) \in Seq(T)
           /\ ToSet(Append(list, e)) = ToSet(list) \cup {e}
<1> DEFINE new == Append(list, e)
           n == Len(list) + 1
<1>1. /\ new \in Seq(T) /\ DOMAIN list = 1..Len(list) /\ Len(list) \in Nat
      /\ DOMAIN new = 1..n /\ new[n] = e
      /\ \A i \in 1..Len(list) : new[i] = list[i]
  OBVIOUS
<1> HIDE DEF new
<1>2. DOMAIN new = DOMAIN list \cup {n} /\ \A i \in DOMAIN list : new[i] = list[i]
  BY <1>1
<1> HIDE DEF n
<1> QED
  BY <1>1, <1>2 DEF ToSet, new

\* The lists a filter has kept after each element are there, so it has one.
LEMMA WithoutByElements ==
    ASSUME NEW T, NEW list \in Seq(T), NEW left
    PROVE  \E kept : /\ kept = [n \in 0 .. Len(list) |->
                                   IF n = 0 THEN <<>>
                                   ELSE IF list[n] \in left THEN kept[n - 1]
                                   ELSE Append(kept[n - 1], list[n])]
                     /\ Without(list, left) = kept[Len(list)]
<1> DEFINE N == Len(list)
           Kept1(s, n) == IF list[n] \in left THEN s ELSE Append(s, list[n])
           IsKept(t) == t = [q \in 0..N |-> IF q = 0 THEN <<>> ELSE Kept1(t[q - 1], q)]
           step == [p \in (1..N) \X Seq(T) |-> Kept1(p[2], p[1])]
<1>1. N \in Nat /\ DOMAIN list = 1..N
  OBVIOUS
<1>2. step \in [(1..N) \X Seq(T) -> Seq(T)]
  OBVIOUS
<1>3. PICK f \in [0..N -> Seq(T)] : f[0] = <<>> /\ \A q \in 1..N : f[q] = step[<<q, f[q - 1]>>]
  <2> DEFINE start == <<>>
             V == Seq(T)
  <2>1. start \in V
    OBVIOUS
  <2> HIDE DEF step, start, V, N
  <2>2. \E f \in [0..N -> V] : Unfolds(f, start, step, N)
    BY <1>1, <1>2, <2>1, Recursion DEF V
  <2> QED BY <2>2 DEF start, V, Unfolds
<1>4. ASSUME NEW q \in 1..N PROVE f[q] = Kept1(f[q - 1], q)
  <2>1. q - 1 \in 0..N
    BY <1>1
  <2>2. f[q - 1] \in Seq(T)
    BY <1>3, <2>1
  <2> HIDE DEF Kept1
  <2> QED BY <1>3, <2>2
<1>5. IsKept(f)
  <2> HIDE DEF Kept1
  <2> QED BY <1>1, <1>3, <1>4
<1> DEFINE kept == CHOOSE t : IsKept(t)
<1>6. IsKept(kept)
  <2> HIDE DEF IsKept
  <2> QED BY <1>5
<1>7. Without(list, left) = kept[Len(list)]
  BY DEF Without
<1> QED
  BY <1>6, <1>7

\* A filter keeps what it does not leave out, and nothing else.
LEMMA WithoutKeeps ==
    ASSUME NEW T, NEW list \in Seq(T), NEW left
    PROVE  /\ Without(list, left) \in Seq(T \ left)
           /\ ToSet(Without(list, left)) = ToSet(list) \ left
<1>1. PICK kept : /\ kept = [n \in 0 .. Len(list) |->
                                IF n = 0 THEN <<>>
                                ELSE IF list[n] \in left THEN kept[n - 1]
                                ELSE Append(kept[n - 1], list[n])]
                  /\ Without(list, left) = kept[Len(list)]
  BY WithoutByElements
<1> DEFINE Fine(n) == /\ kept[n] \in Seq(T \ left)
                      /\ ToSet(kept[n]) = {list[m] : m \in 1..n} \ left
           S == {n \in Nat : n <= Len(list) => Fine(n)}
<1>2. 0 \in S
  <2>1. kept[0] = <<>>
    BY <1>1
  <2>2. <<>> \in Seq(T \ left) /\ ToSet(<<>>) = {} /\ 1..0 = {}
    BY DEF ToSet
  <2>3. {list[m] : m \in 1..0} = {}
    BY <2>2
  <2> QED
    BY <2>1, <2>2, <2>3
<1>3. ASSUME NEW n \in S, n + 1 <= Len(list) PROVE Fine(n + 1)
  <2>1. Fine(n) /\ n \in Nat /\ n + 1 \in DOMAIN list
    <3>1. n \in Nat /\ n <= Len(list) /\ n + 1 \in 1..Len(list) /\ DOMAIN list = 1..Len(list)
      <4>1. n \in Nat /\ Len(list) \in Nat /\ DOMAIN list = 1..Len(list)
        BY <1>3
      <4> QED BY <1>3, <4>1
    <3>2. Fine(n)
      <4> HIDE DEF Fine
      <4> QED BY <1>3, <3>1
    <3> QED
      BY <3>1, <3>2
  <2>2. kept[n + 1] = IF list[n + 1] \in left THEN kept[n] ELSE Append(kept[n], list[n + 1])
    <3> HIDE DEF Fine
    <3>1. n + 1 \in 0..Len(list) /\ n + 1 # 0 /\ (n + 1) - 1 = n
      BY <2>1
    <3> QED
      BY <1>1, <3>1
  <2>3. {list[m] : m \in 1..(n + 1)} = {list[m] : m \in 1..n} \cup {list[n + 1]}
    <3>1. n \in Nat
      BY <2>1
    <3>2. 1..(n + 1) = 1..n \cup {n + 1}
      BY <3>1
    <3> QED
      BY <3>2
  <2>4. list[n + 1] \in T
    BY <2>1
  <2>5. CASE list[n + 1] \in left
    BY <2>1, <2>2, <2>3, <2>5
  <2>6. CASE list[n + 1] \notin left
    <3>1. /\ kept[n + 1] \in Seq(T \ left)
          /\ ToSet(kept[n + 1]) = ToSet(kept[n]) \cup {list[n + 1]}
      <4>1. kept[n] \in Seq(T \ left) /\ list[n + 1] \in T \ left /\ kept[n + 1] = Append(kept[n], list[n + 1])
        BY <2>1, <2>2, <2>4, <2>6
      <4> DEFINE old == kept[n]
                 e == list[n + 1]
      <4>2. old \in Seq(T \ left) /\ e \in T \ left
        BY <4>1
      <4> HIDE DEF old, e
      <4>3. ToSet(Append(old, e)) = ToSet(old) \cup {e} /\ Append(old, e) \in Seq(T \ left)
        BY <4>2, AppendKeeps
      <4> QED BY <4>1, <4>3 DEF old, e
    <3> QED
      BY <2>1, <2>3, <2>6, <3>1
  <2> QED
    BY <2>5, <2>6
<1>4. S = Nat
  <2> HIDE DEF Fine
  <2>1. \A n \in S : n + 1 \in S
    BY <1>3
  <2>2. S \in SUBSET Nat
    OBVIOUS
  <2> HIDE DEF S
  <2> QED
    BY <1>2, <2>1, <2>2, Induction
<1>5. Len(list) \in Nat /\ DOMAIN list = 1..Len(list)
  OBVIOUS
<1>6. Fine(Len(list))
  <2> HIDE DEF Fine
  <2>1. Len(list) \in S
    BY <1>4, <1>5
  <2> QED
    BY <1>5, <2>1
<1> QED
  BY <1>1, <1>5, <1>6 DEF ToSet
-----------------------------------------------------------------------------
(* The enumeration of movesets                                             *)

Candidates == [fast : Learned \cup {None}, charged : Seq(Learned), score : Int]

\* Among no builds there is no choice.
Leads(doc, fasts, chargeds, builds, choice) ==
    IF builds = {} THEN choice.fast = None
    ELSE FirstBest(doc, fasts, chargeds, builds, choice)

\* The builds a loop has come to when it is done with a place.
Upto(fasts, chargeds, place) == {b \in AllBuilds(fasts, chargeds) : ~Sooner(place, b)}

\* A build of learned moves has a score.
LEMMA Scored ==
    ASSUME NEW doc, NEW fasts \in Seq(Learned), NEW chargeds \in Seq(Learned),
           NEW b \in AllBuilds(fasts, chargeds)
    PROVE  /\ fasts[b[1]] \in Learned /\ ChargedOf(chargeds, b) \in Seq(Learned)
           /\ Score(doc, fasts[b[1]], ChargedOf(chargeds, b)) \in Int
<1>1. /\ b[1] \in DOMAIN fasts /\ b[2] \in DOMAIN chargeds /\ b[3] \in DOMAIN chargeds
      /\ fasts[b[1]] \in Learned /\ chargeds[b[2]] \in Learned /\ chargeds[b[3]] \in Learned
  BY DEF AllBuilds
<1> DEFINE charged == ChargedOf(chargeds, b)
           fast == fasts[b[1]]
<1>2. charged \in Seq(Learned)
  BY <1>1 DEF ChargedOf
<1>3. Rating(fast, charged) \in Int
  BY <1>1, RankAssumption DEF ChargedOf
<1> HIDE DEF charged, fast
<1>4. Score(doc, fast, charged) \in Int
  BY <1>3 DEF Score
<1> QED
  BY <1>1, <1>2, <1>4 DEF charged, fast

\* One more build, later than all before: the running best is the first of the
\* best again.
LEMMA RunningBest ==
    ASSUME NEW doc, NEW fasts \in Seq(Learned), NEW chargeds \in Seq(Learned),
           NEW builds \in SUBSET AllBuilds(fasts, chargeds),
           NEW choice \in Candidates, Leads(doc, fasts, chargeds, builds, choice),
           NEW b \in AllBuilds(fasts, chargeds),
           \A c \in builds : ~Sooner(b, c) /\ Sooner(c, b)
    PROVE  LET new == Better(doc, choice, fasts[b[1]], ChargedOf(chargeds, b))
           IN  new \in Candidates /\ Leads(doc, fasts, chargeds, builds \cup {b}, new)
<1> DEFINE mark(c) == Score(doc, fasts[c[1]], ChargedOf(chargeds, c))
           fast == fasts[b[1]]
           charged == ChargedOf(chargeds, b)
           new == Better(doc, choice, fast, charged)
           made == [fast |-> fast, charged |-> charged, score |-> mark(b)]
<1>1. /\ \A c \in builds \cup {b} : mark(c) \in Int /\ fasts[c[1]] \in Learned
      /\ fast \in Learned /\ charged \in Seq(Learned)
  BY Scored
<1>2. new = IF choice.fast = None \/ mark(b) > choice.score THEN made ELSE choice
  BY DEF Better
<1>3. made \in Candidates
  BY <1>1 DEF Candidates
<1>4. new \in Candidates
  BY <1>2, <1>3
<1>5. ~Sooner(b, b)
  BY DEF Sooner, AllBuilds
<1>6. FirstBest(doc, fasts, chargeds, builds \cup {b}, new)
      <=> \E c \in builds \cup {b} :
            /\ new.fast = fasts[c[1]] /\ new.charged = ChargedOf(chargeds, c)
            /\ new.score = mark(c)
            /\ \A d \in builds \cup {b} : mark(d) <= mark(c) /\ (Sooner(d, c) => mark(d) < mark(c))
  BY DEF FirstBest
<1>7. CASE builds = {}
  <2>1. new = made
    BY <1>2, <1>7 DEF Leads
  <2> HIDE DEF mark, new
  <2> QED
    BY <1>1, <1>4, <1>5, <1>6, <1>7, <2>1 DEF Leads, new
<1>8. CASE builds # {}
  <2>1. PICK c \in builds :
            /\ choice.fast = fasts[c[1]] /\ choice.charged = ChargedOf(chargeds, c)
            /\ choice.score = mark(c)
            /\ \A d \in builds : mark(d) <= mark(c) /\ (Sooner(d, c) => mark(d) < mark(c))
    BY <1>8 DEF Leads, FirstBest
  <2>2. choice.fast # None
    BY <1>1, <2>1, RankAssumption
  <2>3. mark(c) \in Int /\ mark(b) \in Int /\ \A d \in builds : mark(d) \in Int
    BY <1>1
  <2>4. CASE mark(b) > mark(c)
    <3>1. new = made
      BY <1>2, <2>1, <2>4
    <3> HIDE DEF mark, new
    <3>2. \A d \in builds \cup {b} : mark(d) <= mark(b) /\ (Sooner(d, b) => mark(d) < mark(b))
      BY <1>5, <2>1, <2>3, <2>4
    <3> QED
      BY <1>4, <1>6, <3>1, <3>2 DEF Leads, new
  <2>5. CASE ~(mark(b) > mark(c))
    <3>1. new = choice
      BY <1>2, <2>1, <2>2, <2>5
    <3> HIDE DEF mark, new
    <3>2. \A d \in builds \cup {b} : mark(d) <= mark(c) /\ (Sooner(d, c) => mark(d) < mark(c))
      BY <2>1, <2>3, <2>5
    <3> QED
      BY <1>4, <1>6, <2>1, <3>1, <3>2 DEF Leads, new
  <2> QED
    BY <2>4, <2>5
<1> QED
  BY <1>7, <1>8

\* A better build is a choice.
LEMMA BetterChoice ==
    ASSUME NEW doc, NEW choice \in Candidates, NEW fast \in Learned,
           NEW one \in Learned, NEW two \in Learned
    PROVE  /\ Better(doc, choice, fast, <<one>>) \in Candidates
           /\ Better(doc, choice, fast, <<one, two>>) \in Candidates
<1>1. Score(doc, fast, <<one>>) \in Int /\ Score(doc, fast, <<one, two>>) \in Int
  <2>1. Rating(fast, <<one>>) \in Int /\ Rating(fast, <<one, two>>) \in Int
    BY RankAssumption
  <2> QED
    BY <2>1 DEF Score
<1>2. <<one>> \in Seq(Learned) /\ <<one, two>> \in Seq(Learned)
  OBVIOUS
<1> QED
  BY <1>1, <1>2 DEF Better, Candidates

\* The choices of the inner loop, step by step.
PairsGo(after, doc, choice, fast, chargeds, i) ==
    /\ after \in [0 .. Len(chargeds) - i -> Candidates]
    /\ after[0] = Better(doc, choice, fast, <<chargeds[i]>>)
    /\ \A n \in 1 .. Len(chargeds) - i :
          after[n] = Better(doc, after[n - 1], fast, <<chargeds[i], chargeds[i + n]>>)
    /\ Pairs(doc, choice, fast, chargeds, i) = after[Len(chargeds) - i]

\* The inner loop goes like that.
LEMMA PairsBySteps ==
    ASSUME NEW doc, NEW choice \in Candidates, NEW fast \in Learned,
           NEW chargeds \in Seq(Learned), NEW i \in 1..Len(chargeds)
    PROVE  \E after : PairsGo(after, doc, choice, fast, chargeds, i)
<1> DEFINE N == Len(chargeds) - i
           start == Better(doc, choice, fast, <<chargeds[i]>>)
           Then(c, n) == Better(doc, c, fast, <<chargeds[i], chargeds[i + n]>>)
           Is(t) == t = [n \in 0..N |-> IF n = 0 THEN start ELSE Then(t[n - 1], n)]
           step == [p \in (1..N) \X Candidates |-> Then(p[2], p[1])]
<1>1. /\ N \in Nat /\ chargeds[i] \in Learned
      /\ \A n \in 1..N : chargeds[i + n] \in Learned
  OBVIOUS
<1>2. start \in Candidates /\ \A n \in 1..N, c \in Candidates : Then(c, n) \in Candidates
  BY <1>1, BetterChoice
<1>3. step \in [(1..N) \X Candidates -> Candidates]
  <2> HIDE DEF Then
  <2> QED BY <1>2
<1> HIDE DEF start, Then, N
<1>4. PICK f \in [0..N -> Candidates] :
         f[0] = start /\ \A q \in 1..N : f[q] = step[<<q, f[q - 1]>>]
  <2> HIDE DEF step
  <2>1. \E f \in [0..N -> Candidates] : Unfolds(f, start, step, N)
    BY <1>1, <1>2, <1>3, Recursion
  <2> QED BY <2>1 DEF Unfolds
<1>5. ASSUME NEW q \in 1..N PROVE f[q] = Then(f[q - 1], q)
  <2>1. q - 1 \in 0..N
    BY <1>1
  <2>2. f[q - 1] \in Candidates
    BY <1>4, <2>1
  <2> QED BY <1>4, <2>2
<1>6. Is(f)
  BY <1>1, <1>4, <1>5
<1> DEFINE after == CHOOSE t : Is(t)
<1>7. Is(after)
  <2> HIDE DEF Is
  <2> QED BY <1>6
<1>8. Pairs(doc, choice, fast, chargeds, i) = after[N]
  BY DEF Pairs, start, Then, N
<1>9. /\ DOMAIN after = 0..N /\ after[0] = start
      /\ \A n \in 1..N : after[n] = Then(after[n - 1], n)
  <2> HIDE DEF after
  <2>1. 0 \in 0..N /\ \A n \in 1..N : n \in 0..N /\ n # 0
    BY <1>1
  <2> QED BY <1>7, <2>1
<1>10. after \in [0..N -> Candidates]
  <2> DEFINE S == {n \in 0..N : after[n] \in Candidates}
  <2>1. 0 \in S
    BY <1>1, <1>2, <1>9
  <2>2. ASSUME NEW n \in 1..N, n - 1 \in S PROVE n \in S
    <3> HIDE DEF after
    <3>1. after[n] = Then(after[n - 1], n) /\ after[n - 1] \in Candidates /\ n \in 0..N
      BY <1>1, <1>9, <2>2
    <3> QED
      BY <1>2, <3>1
  <2>3. \A n \in 0..N : n \in S
    <3> HIDE DEF S
    <3> QED BY <1>1, <2>1, <2>2, InductionUpto
  <2> HIDE DEF after
  <2>4. after = [n \in 0..N |-> after[n]]
    BY <1>7, <1>9
  <2> QED BY <2>3, <2>4
<1> QED
  <2> HIDE DEF after
  <2> QED BY <1>8, <1>9, <1>10 DEF start, Then, N, PairsGo

\* The choices of the outer loop, step by step.
BestGoes(after, doc, choice, fast, chargeds) ==
    /\ after[0] = choice
    /\ \A i \in 1 .. Len(chargeds) : after[i] = Pairs(doc, after[i - 1], fast, chargeds, i)
    /\ bestPerFast(doc, choice, fast, chargeds) = after[Len(chargeds)]

\* The outer loop goes like that.
LEMMA BestBySteps ==
    ASSUME NEW doc, NEW choice \in Candidates, NEW fast \in Learned, NEW chargeds \in Seq(Learned)
    PROVE  \E after : BestGoes(after, doc, choice, fast, chargeds)
<1> DEFINE N == Len(chargeds)
           Then(c, i) == Pairs(doc, c, fast, chargeds, i)
           Is(t) == t = [i \in 0..N |-> IF i = 0 THEN choice ELSE Then(t[i - 1], i)]
           step == [p \in (1..N) \X Candidates |-> Then(p[2], p[1])]
<1>1. N \in Nat
  OBVIOUS
<1>2. ASSUME NEW i \in 1..N, NEW c \in Candidates PROVE Then(c, i) \in Candidates
  <2>1. Len(chargeds) - i \in 0 .. Len(chargeds) - i
    BY <1>1
  <2>2. PICK after : PairsGo(after, doc, c, fast, chargeds, i)
    BY PairsBySteps
  <2> QED
    BY <2>1, <2>2 DEF PairsGo
<1>3. step \in [(1..N) \X Candidates -> Candidates]
  <2> HIDE DEF Then
  <2> QED BY <1>2
<1> HIDE DEF Then, N
<1>4. PICK f \in [0..N -> Candidates] :
         f[0] = choice /\ \A q \in 1..N : f[q] = step[<<q, f[q - 1]>>]
  <2> HIDE DEF step
  <2>1. \E f \in [0..N -> Candidates] : Unfolds(f, choice, step, N)
    BY <1>1, <1>3, Recursion
  <2> QED BY <2>1 DEF Unfolds
<1>5. ASSUME NEW q \in 1..N PROVE f[q] = Then(f[q - 1], q)
  <2>1. q - 1 \in 0..N
    BY <1>1
  <2>2. f[q - 1] \in Candidates
    BY <1>4, <2>1
  <2> QED BY <1>4, <2>2
<1>6. Is(f)
  BY <1>1, <1>4, <1>5
<1> DEFINE after == CHOOSE t : Is(t)
<1>7. Is(after)
  <2> HIDE DEF Is
  <2> QED BY <1>6
<1>8. bestPerFast(doc, choice, fast, chargeds) = after[N]
  BY DEF bestPerFast, Then, N
<1>9. after[0] = choice /\ \A i \in 1..N : after[i] = Then(after[i - 1], i)
  <2> HIDE DEF after
  <2>1. 0 \in 0..N /\ \A i \in 1..N : i \in 0..N /\ i # 0
    BY <1>1
  <2> QED BY <1>7, <2>1
<1> QED
  <2> HIDE DEF after
  <2> QED BY <1>8, <1>9 DEF Then, N, BestGoes

\* The loops under one fast move leave the best of all builds up to it.
LEMMA PerFast ==
    ASSUME NEW doc, NEW fasts \in Seq(Learned), NEW chargeds \in Seq(Learned),
           NEW f \in DOMAIN fasts, NEW choice \in Candidates,
           Leads(doc, fasts, chargeds, {b \in AllBuilds(fasts, chargeds) : b[1] < f}, choice)
    PROVE  LET new == bestPerFast(doc, choice, fasts[f], chargeds)
           IN  /\ new \in Candidates
               /\ Leads(doc, fasts, chargeds, {b \in AllBuilds(fasts, chargeds) : b[1] <= f}, new)
<1> DEFINE N == Len(chargeds)
           builds == AllBuilds(fasts, chargeds)
           done(i, j) == Upto(fasts, chargeds, <<f, i, j>>)
           Holds(i, j, c) == c \in Candidates /\ Leads(doc, fasts, chargeds, done(i, j), c)
<1>1. N \in Nat /\ DOMAIN chargeds = 1..N /\ DOMAIN fasts = 1..Len(fasts) /\ Len(fasts) \in Nat /\ f \in Nat
  OBVIOUS
<1>2. builds = {b \in (DOMAIN fasts) \X (1..N) \X (1..N) : b[2] <= b[3]}
  BY <1>1 DEF AllBuilds
\* A step of the inner loop.
<1>3. ASSUME NEW i \in 1..N, NEW j \in i..N, NEW c,
             Holds(IF i = j THEN i - 1 ELSE i, IF i = j THEN N ELSE j - 1, c)
      PROVE  Holds(i, j, Better(doc, c, fasts[f], IF i = j THEN <<chargeds[i]>>
                                                  ELSE <<chargeds[i], chargeds[j]>>))
  <2> DEFINE b == <<f, i, j>>
             before == done(IF i = j THEN i - 1 ELSE i, IF i = j THEN N ELSE j - 1)
  <2>1. b \in builds /\ b[1] = f /\ b[2] = i /\ b[3] = j
    BY <1>1, <1>2
  <2>2. /\ done(i, j) = before \cup {b} /\ before \in SUBSET builds
        /\ \A d \in before : ~Sooner(b, d) /\ Sooner(d, b)
    <3> DEFINE p == IF i = j THEN i - 1 ELSE i
               q == IF i = j THEN N ELSE j - 1
    <3>1. i \in Nat /\ j \in Nat /\ 1 <= i /\ i <= j /\ j <= N
      BY <1>1
    <3>2. ASSUME NEW d \in builds
          PROVE  /\ ~Sooner(b, d) <=> ~Sooner(<<f, p, q>>, d) \/ d = b
                 /\ ~Sooner(<<f, p, q>>, d) => Sooner(d, b)
      <4>1. /\ d = <<d[1], d[2], d[3]>> /\ d[1] \in Nat /\ d[2] \in 1..N /\ d[3] \in 1..N /\ d[2] <= d[3]
        BY <1>1, <1>2
      <4>2. CASE i = j
        BY <1>1, <3>1, <4>1, <4>2 DEF Sooner
      <4>3. CASE i # j
        BY <1>1, <3>1, <4>1, <4>3 DEF Sooner
      <4> QED
        BY <4>2, <4>3
    <3>3. ~Sooner(b, b)
      BY <1>1, <3>1 DEF Sooner
    <3>4. /\ done(i, j) = {d \in builds : ~Sooner(b, d)}
          /\ before = {d \in builds : ~Sooner(<<f, p, q>>, d)}
      BY DEF Upto
    <3>5. ASSUME NEW d \in before PROVE d \in builds /\ ~Sooner(b, d) /\ Sooner(d, b)
      <4> HIDE DEF b, p, q, before, done, builds
      <4> QED
        BY <3>2, <3>4, <3>5
    <3> HIDE DEF b, p, q, before, done, builds
    <3> QED
      BY <2>1, <3>2, <3>3, <3>4, <3>5
  <2>3. ChargedOf(chargeds, b) = IF i = j THEN <<chargeds[i]>> ELSE <<chargeds[i], chargeds[j]>>
    BY <2>1 DEF ChargedOf
  <2> HIDE DEF b, before, done, builds
  <2>4. LET new == Better(doc, c, fasts[b[1]], ChargedOf(chargeds, b))
        IN  new \in Candidates /\ Leads(doc, fasts, chargeds, before \cup {b}, new)
    <3>1. c \in Candidates /\ Leads(doc, fasts, chargeds, before, c)
      BY <1>3 DEF before
    <3>2. b \in AllBuilds(fasts, chargeds) /\ before \in SUBSET AllBuilds(fasts, chargeds)
      BY <2>1, <2>2 DEF builds
    <3> HIDE DEF Holds
    <3> QED
      BY <2>2, <3>1, <3>2, RunningBest
  <2> QED
    BY <2>1, <2>2, <2>3, <2>4
\* A step of the outer loop.
<1>4. ASSUME NEW i \in 1..N, NEW c, Holds(i - 1, N, c)
      PROVE  Holds(i, N, Pairs(doc, c, fasts[f], chargeds, i))
  <2>1. c \in Candidates /\ fasts[f] \in Learned /\ N - i \in Nat
    BY <1>1, <1>4
  <2>2. PICK after : PairsGo(after, doc, c, fasts[f], chargeds, i)
    BY <2>1, PairsBySteps
  <2>20. /\ after[0] = Better(doc, c, fasts[f], <<chargeds[i]>>)
         /\ \A n \in 1 .. N - i :
               after[n] = Better(doc, after[n - 1], fasts[f], <<chargeds[i], chargeds[i + n]>>)
         /\ Pairs(doc, c, fasts[f], chargeds, i) = after[N - i]
    BY <2>2 DEF PairsGo
  <2> DEFINE S == {n \in 0 .. N - i : Holds(i, i + n, after[n])}
  <2> HIDE DEF Holds
  <2>3. 0 \in S
    <3>1. i \in i..N /\ i + 0 = i /\ 0 \in 0 .. N - i
      BY <1>1, <2>1
    <3>2. Holds(i, i, after[0])
      BY <1>3, <1>4, <2>20, <3>1
    <3> QED
      BY <3>1, <3>2
  <2>4. ASSUME NEW n \in 1 .. N - i, n - 1 \in S PROVE n \in S
    <3> DEFINE j == i + n
    <3>1. j \in i..N /\ i # j /\ i + (n - 1) = j - 1 /\ n \in 0 .. N - i
      BY <1>1, <2>1
    <3>2. Holds(i, j - 1, after[n - 1])
      BY <2>4, <3>1
    <3>3. after[n] = Better(doc, after[n - 1], fasts[f], <<chargeds[i], chargeds[j]>>)
      BY <2>20
    <3> HIDE DEF j
    <3>4. Holds(i, j, after[n])
      BY <1>3, <3>1, <3>2, <3>3
    <3> QED
      BY <3>1, <3>4 DEF j
  <2>5. \A n \in 0 .. N - i : n \in S
    <3> HIDE DEF S
    <3> QED BY <2>1, <2>3, <2>4, InductionUpto
  <2>6. Holds(i, i + (N - i), after[N - i]) /\ i + (N - i) = N
    BY <1>1, <2>1, <2>5
  <2> QED
    BY <2>20, <2>6
<1>50. PICK after : BestGoes(after, doc, choice, fasts[f], chargeds)
  <2>1. fasts[f] \in Learned
    BY <1>1
  <2> QED
    BY <2>1, BestBySteps
<1>5. /\ after[0] = choice
      /\ \A i \in 1 .. N : after[i] = Pairs(doc, after[i - 1], fasts[f], chargeds, i)
      /\ bestPerFast(doc, choice, fasts[f], chargeds) = after[N]
  BY <1>50 DEF BestGoes
<1>6. /\ done(0, N) = {b \in builds : b[1] < f}
      /\ done(N, N) = {b \in builds : b[1] <= f}
  BY <1>1, <1>2 DEF Upto, Sooner
<1>7. \A i \in 0..N : i \in {n \in 0..N : Holds(n, N, after[n])}
  <2> DEFINE S == {n \in 0..N : Holds(n, N, after[n])}
  <2>1. 0 \in S
    <3>1. Leads(doc, fasts, chargeds, done(0, N), choice)
      BY <1>6
    <3> QED
      BY <1>1, <1>5, <3>1
  <2> HIDE DEF Holds
  <2>2. ASSUME NEW n \in 1..N, n - 1 \in S PROVE n \in S
    <3>1. n \in 0..N /\ Holds(n - 1, N, after[n - 1])
      BY <1>1, <2>2
    <3> QED
      BY <1>4, <1>5, <3>1
  <2> HIDE DEF S
  <2>3. \A n \in 0..N : n \in S
    BY <1>1, <2>1, <2>2, InductionUpto
  <2> QED
    BY <2>3 DEF S
<1>8. Holds(N, N, after[N])
  <2> HIDE DEF Holds
  <2> QED BY <1>1, <1>7
<1> QED
  BY <1>5, <1>6, <1>8
-----------------------------------------------------------------------------
(* The inductive invariant                                                 *)

Categories == {"legacy", "elite"}
Busy == {"optimal", "legacy", "elite", "scan", "cups", "cup", "check"}
Places == {"validate", "next", "enter", "stop"} \cup Busy

Forms ==
    UNION {{[id |-> id, species |-> d.pokemon[id]] : id \in DOMAIN d.pokemon} : d \in Docs}
Movesets ==
    [moves : {entry.moveset : entry \in Published} \ {<<>>}, hasLegacy : BOOLEAN, hasElite : BOOLEAN]
Lines == [cup : DOMAIN Lists, rank : Nat, moveset : Movesets \cup {None}]
Results ==
    [optimal : Movesets \cup {None}, legacy : Alternatives \cup {None},
     elite : Alternatives \cup {None}, cups : Seq(Lines)]
Answers(cup) == {Unknown} \cup {Known(list) : list \in Lists[cup]}
Scans ==
    [category : Categories, doc : Docs, fasts : Seq(Learned), chargeds : Seq(Learned),
     tried : Nat, base : Int, best : Candidates]

\* What the environment of a call keeps.
EnvTyped ==
    /\ current \in Docs /\ ctx \in {"live", "done"} /\ refreshed \in {"no", "yes"}
    /\ memo \in [DOMAIN Lists -> {Unset} \cup UNION {Answers(cup) : cup \in DOMAIN Lists}]
    /\ \A cup \in DOMAIN Lists : memo[cup] \in {Unset} \cup Answers(cup)

\* Between two entries there is no result, and no cup is listed before their turn.
Typed ==
    /\ EnvTyped
    /\ call \in Requests /\ pc \in Places /\ k \in Nat \ {0}
    /\ held \in Forms \cup {None} /\ (pc \in Busy => held \in Forms)
    /\ result \in Results
    /\ pc \notin Busy => result = NoResult
    /\ pc \in Busy \ {"cup", "check"} => result.cups = <<>>
    /\ pc = "scan" => scan \in Scans
    /\ cupIDs \in Seq(DOMAIN Lists)
    /\ entries \in Seq([ok : BOOLEAN, result : Results, held : Forms \cup {None}])
    /\ hoisted \in Seq(Lines)

\* What a cup's ranking says of a form.
Listed(m, cup, form) ==
    m[cup] # Unset /\ EntryIndex(m[cup].entries, form.id) # 0
LineOf(m, cup, form) ==
    LET list == m[cup].entries
        at   == EntryIndex(list, form.id)
    IN  [cup |-> cup, rank |-> at, moveset |-> MovesetFrom(form.species, list[at])]

\* All that a result tells of rankings is what the manager still remembers of them.
Recalls(m, r, form) ==
    /\ r.optimal # None =>
          Listed(m, openLeagueCupID, form) /\ r.optimal = LineOf(m, openLeagueCupID, form).moveset
    /\ \A line \in ToSet(r.cups) : Listed(m, line.cup, form) /\ line = LineOf(m, line.cup, form)
Recalled ==
    /\ Recalls(memo, result, held)
    /\ \A n \in Good : entries[n].held \in Forms /\ Recalls(memo, entries[n].result, entries[n].held)

\* The open league is listed beside the recommended moveset, or still to come.
Wanted(r) == r.optimal # None /\ (call.batch \/ call.cup \in {None, openLeagueCupID})
HasOpen(r) == \E line \in ToSet(r.cups) : line.cup = openLeagueCupID
OpenListed ==
    /\ pc = "cup" /\ Wanted(result) => HasOpen(result) \/ openLeagueCupID \in ToSet(cupIDs)
    /\ pc = "check" /\ Wanted(result) => HasOpen(result) \/ ctx = "done"
    /\ \A n \in Good : Wanted(entries[n].result) => HasOpen(entries[n].result)

\* The form every entry of a batch is about, absent a refresh, and the cups it asks for.
TheForm ==
    LET id == Lookup(current, call.species, call.shadow).id
    IN  [id |-> id, species |-> current.pokemon[id]]
AllCups == ToSet(CupIDs(current, None))

\* Every entry is about it;
OneForm ==
    /\ pc \in Busy => held = TheForm
    /\ \A n \in Good : entries[n].held = TheForm
\* its lines are about those cups;
CupsKnown ==
    /\ \A line \in ToSet(result.cups) \cup ToSet(hoisted) : line.cup \in AllCups
    /\ pc = "cup" => ToSet(cupIDs) \subseteq AllCups
\* and a line that is hoisted comes again in every entry.
LinesCome ==
    /\ \A line \in ToSet(hoisted) : Listed(memo, line.cup, TheForm) /\ line = LineOf(memo, line.cup, TheForm)
    /\ pc = "cup" =>
          \A line \in ToSet(hoisted) : line \in ToSet(result.cups) \/ line.cup \in ToSet(cupIDs)
    /\ pc = "check" => ctx = "done" \/ ToSet(hoisted) \subseteq ToSet(result.cups)

\* A batch that no refresh disturbs.
Undisturbed == call.batch /\ refreshed = "no"

\* Nothing is hoisted while no entry has cups.
NoneYet == call.batch /\ hoisted = <<>> => \A n \in Good : entries[n].result.cups = <<>>
Hoisted ==
    /\ NoneYet
    /\ Undisturbed => OneForm /\ CupsKnown /\ LinesCome /\ HoistSound

\* There is an alternative to a moveset with a banned move, and only to such a one.
Allowed(category, optimal, alternative, form) ==
    LET banned == Banned(form.species, category)
    IN  /\ alternative # None <=> optimal # None /\ ToSet(optimal.moves) \cap banned # {}
        /\ alternative # None => ({alternative.fast} \cup ToSet(alternative.charged)) \cap banned = {}
\* It was chosen among all builds.
Chosen(category, optimal, alternative, form) ==
    alternative # None =>
        /\ alternative.why # "unscored"
        /\ alternative.why = "answered" => BestOf(alternative, optimal, form.species, category)
\* A category is concluded, as it will be answered unless the context has ended.
Settled(category) ==
    /\ Allowed(category, result.optimal, result[category], held)
    /\ ctx = "done" \/ Chosen(category, result.optimal, result[category], held)

\* The enumeration so far.
ScanSound ==
    LET category == scan.category
        optimal  == result.optimal
    IN  /\ optimal # None /\ ToSet(optimal.moves) \cap Banned(held.species, category) # {}
        /\ scan.fasts = Without(held.species.fast, Banned(held.species, category))
        /\ scan.chargeds = Without(held.species.charged, Banned(held.species, category))
        /\ scan.fasts # <<>> /\ scan.chargeds # <<>>
        /\ scan.base = Score(scan.doc, Head(optimal.moves), Tail(optimal.moves))
        /\ scan.tried \in 0 .. Len(scan.fasts)
        /\ Leads(scan.doc, scan.fasts, scan.chargeds,
                 {b \in AllBuilds(scan.fasts, scan.chargeds) : b[1] <= scan.tried}, scan.best)
        /\ scan.category = "elite" => Settled("legacy")

\* The categories that are concluded by now.
Decided ==
    IF pc = "elite" THEN {"legacy"} ELSE IF pc \in {"cups", "cup", "check"} THEN Categories ELSE {}
Concluding ==
    /\ pc = "scan" => ScanSound
    /\ \A category \in Decided : Settled(category)
Alternated ==
    /\ Concluding
    /\ \A n \in Good, category \in Categories :
          LET r == entries[n].result
          IN  /\ Allowed(category, r.optimal, r[category], entries[n].held)
              /\ Chosen(category, r.optimal, r[category], entries[n].held)

\* The IVs of an entry get under the cap, and there is a product to compare with.
Fits(n) ==
    LET id == Lookup(current, call.species, call.shadow).id
    IN  Rankable(current.pokemon[id], call.ivs[n])

\* Every entry that a batch is done with has its line, the species is still known and
\* the cap resolves, and the entry that is under way fits.
Counted ==
    call.batch =>
        /\ Len(entries) = k - 1
        /\ refreshed = "no" /\ pc \notin {"validate", "stop"} =>
              Lookup(current, call.species, call.shadow).ok /\ call.cap # None
        /\ refreshed = "no" /\ pc \in Busy => Fits(k)

IInv == Typed /\ Recalled /\ OpenListed /\ Hoisted /\ Alternated /\ Counted /\ BatchFailures

-----------------------------------------------------------------------------
(* Rankings and cups                                                       *)

\* The place of a species in a list, or zero.
LEMMA IndexIn ==
    ASSUME NEW T, NEW list \in Seq(T), NEW id
    PROVE  EntryIndex(list, id) \in 0 .. Len(list)
<1> DEFINE I == {i \in 1..Len(list) : list[i].species = id}
<1>1. EntryIndex(list, id) = IF I # {} THEN CHOOSE x \in I : \A y \in I : x <= y ELSE 0
  BY DEF EntryIndex, SelectInSeq, Min
<1>2. Len(list) \in Nat
  OBVIOUS
<1>3. ASSUME I # {} PROVE \E x \in I : \A y \in I : x <= y
  <2>1. IsWellFoundedOn(Below, Nat)
    BY NatLessThanWellFounded DEF OpToRel, Below
  <2>2. I \subseteq Nat
    BY <1>2
  <2> HIDE DEF I
  <2>3. PICK x \in I : \A y \in I : ~(<<y, x>> \in Below)
    BY <1>3, <2>1, <2>2, WFMin
  <2>4. ASSUME NEW y \in I PROVE x <= y
    <3>1. x \in Nat /\ y \in Nat /\ ~(<<y, x>> \in Below)
      BY <2>2, <2>3
    <3> QED
      BY <3>1 DEF Below
  <2> QED
    BY <2>4
<1>4. CASE I # {}
  <2> HIDE DEF I
  <2>1. EntryIndex(list, id) \in I
    BY <1>1, <1>3, <1>4
  <2> QED
    BY <1>2, <2>1 DEF I
<1> QED
  BY <1>1, <1>2, <1>4

\* An empty list has nobody.
LEMMA IndexInNone == ASSUME NEW id PROVE EntryIndex(<<>>, id) = 0
<1>1. EntryIndex(<<>>, id) \in 0 .. Len(<<>>)
  <2>1. <<>> \in Seq(Nat)
    OBVIOUS
  <2> QED
    BY <2>1, IndexIn
<1> QED
  BY <1>1

\* The moveset of a published entry.
LEMMA PublishedMoveset ==
    ASSUME NEW cup \in DOMAIN Lists, NEW list \in Lists[cup], NEW form, EntryIndex(list, form.id) # 0
    PROVE  LET at == EntryIndex(list, form.id)
           IN  /\ at \in Nat
               /\ list[at] \in Published
               /\ MovesetFrom(form.species, list[at]) \in Movesets \cup {None}
<1> DEFINE at == EntryIndex(list, form.id)
<1>1. list \in Seq(ToSet(list))
  BY RankAssumption
<1>2. at \in 0 .. Len(list) /\ Len(list) \in Nat /\ DOMAIN list = 1..Len(list)
  BY <1>1, IndexIn
<1> HIDE DEF at
<1>3. at \in DOMAIN list /\ at \in Nat
  BY <1>2 DEF at
<1>4. list[at] \in Published
  BY <1>3 DEF Published, ToSet
<1>5. MovesetFrom(form.species, list[at]) \in Movesets \cup {None}
  BY <1>4 DEF MovesetFrom, Movesets
<1> QED
  BY <1>3, <1>4, <1>5 DEF at

\* What a question to the rankings changes and answers.
LEMMA AskDoes ==
    ASSUME EnvTyped, NEW cup \in DOMAIN Lists,
           NEW answer \in {Failed, Unknown} \cup {Known(list) : list \in Lists[cup]}, Ask(cup, answer)
    PROVE  /\ EnvTyped'
           /\ UNCHANGED <<current, ctx, refreshed>>
           /\ \A c \in DOMAIN Lists : memo[c] # Unset => memo'[c] = memo[c]
           /\ answer.entries = <<>> \/ answer.entries \in Lists[cup]
           /\ answer.entries # <<>> => memo'[cup] # Unset /\ memo'[cup] = answer
           /\ ctx = "live" /\ memo[cup] # Unset => answer = memo[cup]
<1>1. /\ Unset.status = "none" /\ Unknown.status = "unknown" /\ Failed.status = "error"
      /\ Unset.entries = <<>> /\ Unknown.entries = <<>> /\ Failed.entries = <<>>
      /\ \A list : Known(list).status = "ok" /\ Known(list).entries = list
  BY DEF Unset, Unknown, Failed, Known
<1>2. UNCHANGED <<current, ctx, refreshed>> /\ Get(cup, answer)
  BY DEF Ask
<1>3. memo[cup] \in {Unset} \cup Answers(cup)
  BY DEF EnvTyped
<1>4. answer.entries = <<>> \/ answer.entries \in Lists[cup]
  BY <1>1
<1>5. answer.entries # <<>> => answer # Failed /\ answer # Unset /\ answer # Unknown
  BY <1>1
<1>6. CASE ctx = "live" /\ memo[cup] # Unset /\ answer = memo[cup] /\ UNCHANGED memo
  BY <1>2, <1>4, <1>5, <1>6 DEF EnvTyped
<1>7. CASE /\ memo[cup] = Unset \/ ctx = "done"
           /\ answer = Failed /\ UNCHANGED memo
  BY <1>2, <1>4, <1>5, <1>7 DEF EnvTyped
<1>8. CASE /\ ctx = "live" /\ memo[cup] = Unset
           /\ answer \in {Known(l) : l \in Lists[cup]} \cup {Unknown}
           /\ memo' = [memo EXCEPT ![cup] = answer]
  <2>1. answer \in Answers(cup) /\ answer # Unset
    BY <1>1, <1>8 DEF Answers
  <2>2. /\ memo'[cup] = answer /\ DOMAIN memo' = DOMAIN Lists
        /\ \A c \in DOMAIN Lists : c # cup => memo'[c] = memo[c]
    BY <1>8 DEF EnvTyped
  <2>3. \A c \in DOMAIN Lists : memo'[c] \in {Unset} \cup Answers(c)
    BY <2>1, <2>2 DEF EnvTyped
  <2>4. memo' = [c \in DOMAIN Lists |-> memo'[c]]
    BY <1>8 DEF EnvTyped
  <2>5. memo' \in [DOMAIN Lists -> {Unset} \cup UNION {Answers(c) : c \in DOMAIN Lists}]
    BY <2>3, <2>4
  <2> QED
    BY <1>2, <1>4, <1>5, <1>8, <2>1, <2>2, <2>3, <2>5 DEF EnvTyped
<1> QED
  BY <1>2, <1>6, <1>7, <1>8 DEF Get

\* The cups to look up, the open league among them unless a filter names another.
LEMMA CupIDsIn ==
    ASSUME NEW doc \in Docs, NEW filter
    PROVE  /\ CupIDs(doc, filter) \in Seq(DOMAIN Lists)
           /\ filter \in {None, openLeagueCupID} => openLeagueCupID \in ToSet(CupIDs(doc, filter))
<1>1. doc.cups \in Seq(DOMAIN Lists) /\ openLeagueCupID \in DOMAIN Lists
  BY RankAssumption
<1>2. \A c \in ToSet(doc.cups) : c \in DOMAIN Lists
  BY <1>1 DEF ToSet
<1>3. CASE filter = openLeagueCupID
  <2> DEFINE only == <<openLeagueCupID>>
  <2>1. only \in Seq(DOMAIN Lists) /\ 1 \in DOMAIN only /\ only[1] = openLeagueCupID
    BY <1>1
  <2>2. CupIDs(doc, filter) = only
    BY <1>3 DEF CupIDs
  <2> QED
    BY <2>1, <2>2 DEF ToSet
<1>4. CASE filter # openLeagueCupID /\ filter # None
  <2>1. \A c \in DOMAIN Lists : <<c>> \in Seq(DOMAIN Lists)
    OBVIOUS
  <2>2. <<>> \in Seq(DOMAIN Lists)
    OBVIOUS
  <2>3. CupIDs(doc, filter) = IF filter \in ToSet(doc.cups) THEN <<filter>> ELSE <<>>
    BY <1>4 DEF CupIDs
  <2> HIDE DEF openLeagueCupID
  <2> QED
    BY <1>2, <1>4, <2>1, <2>2, <2>3
<1>5. CASE filter # openLeagueCupID /\ filter = None
  <2> DEFINE rest == Without(doc.cups, {openLeagueCupID})
             first == <<openLeagueCupID>>
  <2>1. rest \in Seq(DOMAIN Lists \ {openLeagueCupID})
    BY <1>1, WithoutKeeps
  <2> HIDE DEF rest
  <2>2. rest \in Seq(DOMAIN Lists)
    BY <2>1
  <2>3. first \in Seq(DOMAIN Lists) /\ Len(first) = 1 /\ first[1] = openLeagueCupID
    BY <1>1
  <2> HIDE DEF first
  <2>4. /\ first \o rest \in Seq(DOMAIN Lists)
        /\ 1 \in DOMAIN (first \o rest) /\ (first \o rest)[1] = openLeagueCupID
    <3>1. Len(first) + Len(rest) \in Nat /\ 1 \in 1 .. Len(first) + Len(rest)
      BY <2>2, <2>3
    <3> QED
      BY <2>2, <2>3, <3>1, ConcatProperties
  <2>5. CupIDs(doc, filter) = first \o rest
    BY <1>5 DEF CupIDs, first, rest
  <2> QED
    BY <2>4, <2>5 DEF ToSet
<1> QED
  BY <1>3, <1>4, <1>5

\* A list is its head and its tail.
LEMMA HeadAndTail ==
    ASSUME NEW T, NEW list \in Seq(T), list # <<>>
    PROVE  ToSet(list) = {Head(list)} \cup ToSet(Tail(list))
<1> DEFINE tail == Tail(list)
           n == Len(list)
<1>1. /\ n \in Nat \ {0} /\ DOMAIN list = 1..n /\ Head(list) = list[1]
      /\ DOMAIN tail = 1..(n - 1) /\ \A i \in 1..(n - 1) : tail[i] = list[i + 1]
  BY HeadTailProperties
<1> HIDE DEF tail, n
<1>2. \A i \in 1..(n - 1) : i + 1 \in 1..n
  BY <1>1
<1>3. \A i \in 1..n : i = 1 \/ (i - 1 \in 1..(n - 1) /\ (i - 1) + 1 = i)
  BY <1>1
<1>4. 1 \in 1..n
  BY <1>1
<1>5. ASSUME NEW x \in ToSet(list) PROVE x = Head(list) \/ x \in ToSet(tail)
  <2>1. PICK i \in 1..n : x = list[i]
    BY <1>1 DEF ToSet
  <2>2. CASE i = 1
    BY <1>1, <2>1, <2>2
  <2>3. CASE i # 1
    <3>1. i - 1 \in 1..(n - 1) /\ (i - 1) + 1 = i
      BY <1>3, <2>3
    <3>2. tail[i - 1] = x
      BY <1>1, <2>1, <3>1
    <3> QED
      BY <1>1, <3>1, <3>2 DEF ToSet
  <2> QED
    BY <2>2, <2>3
<1>6. ASSUME NEW x \in ToSet(tail) PROVE x \in ToSet(list)
  BY <1>1, <1>2 DEF ToSet
<1>7. Head(list) \in ToSet(list)
  BY <1>1, <1>4 DEF ToSet
<1> QED
  BY <1>5, <1>6, <1>7 DEF tail

-----------------------------------------------------------------------------
(* Types                                                                   *)

\* The moves of a form that a category leaves are moves that can be learned.
LEMMA FormMoves ==
    ASSUME NEW form \in Forms, NEW category
    PROVE  LET banned == Banned(form.species, category)
           IN  /\ Without(form.species.fast, banned) \in Seq(Learned)
               /\ Without(form.species.charged, banned) \in Seq(Learned)
               /\ ToSet(Without(form.species.fast, banned)) \cap banned = {}
               /\ ToSet(Without(form.species.charged, banned)) \cap banned = {}
               /\ None \notin form.species.legacy \cup form.species.elite
<1>0. PICK d \in Docs : form \in {[id |-> id, species |-> d.pokemon[id]] : id \in DOMAIN d.pokemon}
  BY DEF Forms
<1>1. PICK id \in DOMAIN d.pokemon : form.species = d.pokemon[id]
  BY <1>0
<1> DEFINE species == d.pokemon[id]
           fast == species.fast
           charged == species.charged
           banned == Banned(species, category)
<1>2. /\ fast \in Seq(ToSet(fast)) /\ charged \in Seq(ToSet(charged))
      /\ None \notin species.legacy \cup species.elite
  BY <1>1, RankAssumption
<1>3. ToSet(fast) \subseteq Learned /\ ToSet(charged) \subseteq Learned
  BY <1>1 DEF Learned
<1> HIDE DEF fast, charged, banned
<1>4. /\ Without(fast, banned) \in Seq(ToSet(fast) \ banned)
      /\ ToSet(Without(fast, banned)) = ToSet(fast) \ banned
      /\ Without(charged, banned) \in Seq(ToSet(charged) \ banned)
      /\ ToSet(Without(charged, banned)) = ToSet(charged) \ banned
  BY <1>2, WithoutKeeps
<1>5. Without(fast, banned) \in Seq(Learned) /\ Without(charged, banned) \in Seq(Learned)
  <2>1. ToSet(fast) \ banned \subseteq Learned /\ ToSet(charged) \ banned \subseteq Learned
    BY <1>3
  <2> QED
    BY <1>4, <2>1, SeqMonotonic
<1> QED
  BY <1>1, <1>2, <1>4, <1>5 DEF fast, charged, banned

\* An answer for one category leaves the rest of the result alone.
LEMMA ResultWith ==
    ASSUME NEW r \in Results, NEW category \in Categories, NEW alternative \in Alternatives \cup {None}
    PROVE  LET new == [r EXCEPT ![category] = alternative]
           IN  /\ new \in Results /\ new[category] = alternative
               /\ new.optimal = r.optimal /\ new.cups = r.cups
               /\ \A other \in Categories : other # category => new[other] = r[other]
<1>1. CASE category = "legacy"
  BY <1>1 DEF Results, Categories
<1>2. CASE category = "elite"
  BY <1>2 DEF Results, Categories
<1> QED
  BY <1>1, <1>2 DEF Categories

\* The score of a recommended moveset is a number.
LEMMA OptimalScored ==
    ASSUME NEW doc, NEW moveset \in Movesets
    PROVE  Score(doc, Head(moveset.moves), Tail(moveset.moves)) \in Int
<1>1. PICK entry \in Published : moveset.moves = entry.moveset /\ entry.moveset # <<>>
  BY DEF Movesets
<1>2. Rating(Head(entry.moveset), Tail(entry.moveset)) \in Int
  BY <1>1, RankAssumption
<1> QED
  BY <1>1, <1>2 DEF Score

\* Nothing is known of an entry before it begins.
LEMMA NothingYet == NoResult \in Results /\ NoResult.optimal = None /\ NoResult.cups = <<>>
  BY DEF NoResult, Results

\* Why there is no alternative.
LEMMA WhyTyped ==
    ASSUME NEW reason \in {"nomoves", "nometa", "unscored"}
    PROVE  /\ Why(reason) \in Alternatives
           /\ Why(reason).why = reason /\ Why(reason).fast = None /\ Why(reason).charged = <<>>
<1>1. <<>> \in Seq(Learned)
  BY EmptySeq
<1> QED
  BY <1>1 DEF Why, Alternatives

\* A call begins with its types in order.
LEMMA InitTyped == Init => Typed
<1> SUFFICES ASSUME Init PROVE Typed
  OBVIOUS
<1>1. EnvTyped
  BY DEF Init, EnvInit, EnvTyped
<1>2. <<>> \in Seq(DOMAIN Lists) /\ <<>> \in Seq(Lines)
      /\ <<>> \in Seq([ok : BOOLEAN, result : Results, held : Forms \cup {None}])
  OBVIOUS
<1> QED
  BY <1>1, <1>2, NothingYet DEF Init, Typed, Busy, Places

\* The next entry of a batch, whichever way this one ended.
LEMMA EntryAdded ==
    ASSUME Typed, NEW ok \in BOOLEAN, NEW r \in Results, NEW form \in Forms \cup {None}
    PROVE  Append(entries, [ok |-> ok, result |-> r, held |-> form])
              \in Seq([ok : BOOLEAN, result : Results, held : Forms \cup {None}])
  BY DEF Typed

\* A failed entry.
LEMMA FailTyped ==
    ASSUME Typed, Fail, UNCHANGED <<envVars, call, scan, cupIDs>>
    PROVE  Typed'
<1>1. EnvTyped'
  BY DEF Typed, EnvTyped, envVars
<1>2. Append(entries, [ok |-> FALSE, result |-> NoResult, held |-> None])
         \in Seq([ok : BOOLEAN, result : Results, held : Forms \cup {None}])
  BY EntryAdded, NothingYet
<1>3. pc' \in {"next", "stop"} /\ k' \in Nat \ {0} /\ result' = NoResult /\ held' = None
      /\ hoisted' = hoisted
      /\ entries' \in Seq([ok : BOOLEAN, result : Results, held : Forms \cup {None}])
  <2> HIDE DEF NoResult
  <2>1. CASE call.batch
    <3>1. /\ pc' = "next" /\ k' = k + 1 /\ result' = NoResult /\ held' = None /\ hoisted' = hoisted
          /\ entries' = Append(entries, [ok |-> FALSE, result |-> NoResult, held |-> None])
      BY <2>1 DEF Fail
    <3>2. k + 1 \in Nat \ {0}
      BY DEF Typed
    <3> QED
      BY <1>2, <3>1, <3>2
  <2>2. CASE ~call.batch
    BY <2>2 DEF Fail, Typed
  <2> QED
    BY <2>1, <2>2
<1> QED
  BY <1>1, <1>3, NothingYet DEF Typed, Busy, Places

\* The steps that change no result.
LEMMA ControlTyped ==
    ASSUME Typed, Validate \/ NextEntry \/ Cups \/ Around PROVE Typed'
<1>1. CASE Validate
  <2>1. pc' \in {"enter", "stop", "next"} /\ EnvTyped'
    BY <1>1 DEF Validate, Quiet, Typed, EnvTyped, envVars
  <2> QED
    BY <1>1, <2>1 DEF Validate, Typed, Busy, Places
<1>2. CASE NextEntry
  <2>1. pc' \in {"enter", "stop"} /\ EnvTyped'
    BY <1>2 DEF NextEntry, Quiet, Typed, EnvTyped, envVars
  <2> QED
    BY <1>2, <2>1 DEF NextEntry, Typed, Busy, Places
<1>3. CASE Cups
  <2>1. EnvTyped' /\ current \in Docs
    BY <1>3 DEF Cups, Quiet, Typed, EnvTyped, envVars
  <2>2. cupIDs' \in Seq(DOMAIN Lists)
    BY <1>3, <2>1, CupIDsIn DEF Cups
  <2> QED
    BY <1>3, <2>1, <2>2 DEF Cups, Typed, Busy, Places
<1>4. CASE Around
  <2>1. EnvTyped'
    BY <1>4 DEF Around, Refresh, Cancel, Typed, EnvTyped
  <2> QED
    BY <1>4, <2>1 DEF Around, rankVars, Typed
<1> QED
  BY <1>1, <1>2, <1>3, <1>4

\* An entry begins.
LEMMA EnterTyped == ASSUME Typed, Enter PROVE Typed'
<1> DEFINE found == Lookup(current, call.species, call.shadow)
<1>1. EnvTyped' /\ current \in Docs /\ UNCHANGED <<envVars, call, scan, cupIDs>>
  BY DEF Enter, Quiet, Typed, EnvTyped, envVars
<1>2. CASE ctx = "done" \/ ~found.ok \/ call.cap = None
           \/ ~Rankable(current.pokemon[found.id], call.ivs[k])
  <2>1. Fail
    BY <1>2 DEF Enter
  <2> QED
    BY <1>1, <2>1, FailTyped
<1>3. CASE ~(\/ ctx = "done" \/ ~found.ok \/ call.cap = None
             \/ ~Rankable(current.pokemon[found.id], call.ivs[k]))
  <2>1. found.id \in DOMAIN current.pokemon
    BY <1>3 DEF Lookup
  <2> HIDE DEF found
  <2>2. held' = [id |-> found.id, species |-> current.pokemon[found.id]]
        /\ pc' = "optimal" /\ UNCHANGED <<k, result, entries, hoisted, outcome>>
    BY <1>3 DEF Enter, found
  <2>3. held' \in Forms
    BY <1>1, <2>1, <2>2 DEF Forms
  <2>4. result' = NoResult
    BY <2>2 DEF Enter, Typed, Busy
  <2> QED
    BY <1>1, <2>2, <2>3, <2>4, NothingYet DEF Typed, Busy, Places
<1> QED
  BY <1>2, <1>3

\* The recommended moveset.
LEMMA OptimalTyped == ASSUME Typed, Optimal PROVE Typed'
<1>1. PICK answer \in {Failed, Unknown} \cup {Known(l) : l \in Lists[openLeagueCupID]} :
         /\ Ask(openLeagueCupID, answer)
         /\ result' = [result EXCEPT !.optimal =
               IF EntryIndex(answer.entries, held.id) = 0 THEN None
               ELSE MovesetFrom(held.species, answer.entries[EntryIndex(answer.entries, held.id)])]
  BY DEF Optimal
<1>2. openLeagueCupID \in DOMAIN Lists
  BY RankAssumption
<1>3. EnvTyped' /\ (answer.entries = <<>> \/ answer.entries \in Lists[openLeagueCupID])
  BY <1>1, <1>2, AskDoes DEF Typed
<1> DEFINE optimal == IF EntryIndex(answer.entries, held.id) = 0 THEN None
                      ELSE MovesetFrom(held.species, answer.entries[EntryIndex(answer.entries, held.id)])
<1>4. optimal \in Movesets \cup {None}
  BY <1>2, <1>3, IndexInNone, PublishedMoveset
<1>5. result' \in Results /\ result'.cups = <<>>
  <2> HIDE DEF optimal
  <2>1. result' = [result EXCEPT !.optimal = optimal] /\ result \in Results /\ result.cups = <<>>
    BY <1>1 DEF optimal, Typed, Optimal, Busy
  <2> QED
    BY <1>4, <2>1 DEF Results
<1> QED
  BY <1>3, <1>5 DEF Optimal, Typed, Busy, Places

\* A category is concluded.
LEMMA ConcludeTyped ==
    ASSUME Typed, EnvTyped', NEW category \in Categories, NEW alternative \in Alternatives \cup {None},
           Conclude(category, alternative), pc \in {"legacy", "elite", "scan"},
           UNCHANGED <<call, k, held, cupIDs, entries, hoisted, outcome>>
    PROVE  Typed'
<1>1. pc' \in {"elite", "cups"} /\ result' = [result EXCEPT ![category] = alternative]
  BY DEF Conclude, AfterCategory
<1>2. result \in Results /\ result.cups = <<>> /\ held \in Forms
  BY DEF Typed, Busy
<1>3. result' \in Results /\ result'.cups = <<>>
  <2> DEFINE new == [result EXCEPT ![category] = alternative]
  <2>1. new \in Results /\ new.cups = result.cups
    BY <1>2, ResultWith
  <2> HIDE DEF new
  <2>2. result' = new
    BY <1>1 DEF new
  <2> QED
    BY <1>2, <2>1, <2>2
<1> QED
  BY <1>1, <1>2, <1>3 DEF Typed, Busy, Places

\* A category is passed over, or its enumeration begins.
LEMMA AlternativeTyped ==
    ASSUME Typed, NEW category \in Categories, Alternative(category), Recalls(memo, result, held)
    PROVE  Typed'
<1> DEFINE optimal  == result.optimal
           flagged  == optimal # None /\ (IF category = "legacy" THEN optimal.hasLegacy ELSE optimal.hasElite)
           fasts    == Without(held.species.fast, Banned(held.species, category))
           chargeds == Without(held.species.charged, Banned(held.species, category))
<1>1. pc = category /\ pc \in {"legacy", "elite"} /\ held \in Forms
      /\ UNCHANGED <<call, k, held, cupIDs, entries, hoisted, outcome>>
  BY DEF Alternative, Categories, Typed, Busy
<1>2. CASE ~flagged /\ Quiet /\ Conclude(category, None)
  <2>1. EnvTyped'
    BY <1>2 DEF Quiet, Typed, EnvTyped, envVars
  <2> QED
    BY <1>1, <1>2, <2>1, ConcludeTyped
<1>3. CASE flagged /\ (fasts = <<>> \/ chargeds = <<>>) /\ Quiet /\ Conclude(category, Why("nomoves"))
  <2>1. EnvTyped'
    BY <1>3 DEF Quiet, Typed, EnvTyped, envVars
  <2> QED
    BY <1>1, <1>3, <2>1, ConcludeTyped, WhyTyped
<1>4. ASSUME flagged, fasts # <<>>, chargeds # <<>>,
             NEW answer \in {Failed, Unknown} \cup {Known(l) : l \in Lists[openLeagueCupID]},
             Ask(openLeagueCupID, answer),
             IF Kept(current, TopOf(answer.entries, MetaTop)) = <<>>
             THEN Conclude(category, Why("nometa"))
             ELSE /\ scan' = [category |-> category, doc |-> current,
                              fasts |-> fasts, chargeds |-> chargeds, tried |-> 0,
                              base |-> Score(current, Head(optimal.moves), Tail(optimal.moves)),
                              best |-> [fast |-> None, charged |-> <<>>, score |-> 0]]
                  /\ pc' = "scan" /\ UNCHANGED result
      PROVE Typed'
  <2>1. EnvTyped' /\ current \in Docs
    <3>1. openLeagueCupID \in DOMAIN Lists
      BY RankAssumption
    <3> QED
      BY <1>4, <3>1, AskDoes DEF Typed, EnvTyped
  <2>2. CASE Kept(current, TopOf(answer.entries, MetaTop)) = <<>>
    BY <1>1, <1>4, <2>1, <2>2, ConcludeTyped, WhyTyped
  <2>3. CASE Kept(current, TopOf(answer.entries, MetaTop)) # <<>>
    <3>1. optimal \in Movesets
      BY <1>4 DEF Typed, Results
    <3>2. Score(current, Head(optimal.moves), Tail(optimal.moves)) \in Int
      BY <3>1, OptimalScored
    <3>3. fasts \in Seq(Learned) /\ chargeds \in Seq(Learned)
      BY <1>1, FormMoves
    <3>4. [fast |-> None, charged |-> <<>>, score |-> 0] \in Candidates
      <4>1. <<>> \in Seq(Learned)
        BY EmptySeq
      <4> QED
        BY <4>1 DEF Candidates
    <3> DEFINE base == Score(current, Head(optimal.moves), Tail(optimal.moves))
               best == [fast |-> None, charged |-> <<>>, score |-> 0]
    <3>5. /\ scan' = [category |-> category, doc |-> current, fasts |-> fasts, chargeds |-> chargeds,
                      tried |-> 0, base |-> base, best |-> best]
          /\ pc' = "scan" /\ UNCHANGED result
      BY <1>4, <2>3
    <3> HIDE DEF base, best, fasts, chargeds, optimal
    <3>6. scan' \in Scans
      BY <2>1, <3>2, <3>3, <3>4, <3>5 DEF Scans, base, best
    <3> QED
      BY <1>1, <2>1, <3>5, <3>6 DEF Typed, Busy, Places
  <2> QED
    BY <2>2, <2>3
<1> QED
  BY <1>2, <1>3, <1>4 DEF Alternative

\* The enumeration goes on.
LEMMA ScanGoes ==
    ASSUME Typed, pc = "scan", ScanSound, scan.tried < Len(scan.fasts)
    PROVE  LET fast == scan.fasts[scan.tried + 1]
               best == bestPerFast(scan.doc, scan.best, fast, scan.chargeds)
           IN  /\ best \in Candidates
               /\ scan.tried + 1 \in 0 .. Len(scan.fasts)
               /\ Leads(scan.doc, scan.fasts, scan.chargeds,
                        {b \in AllBuilds(scan.fasts, scan.chargeds) : b[1] <= scan.tried + 1}, best)
<1> DEFINE fasts == scan.fasts
           chargeds == scan.chargeds
           f == scan.tried + 1
<1>1. /\ fasts \in Seq(Learned) /\ chargeds \in Seq(Learned) /\ scan.best \in Candidates
      /\ scan.tried \in Nat
  BY DEF Typed, Scans
<1>2. f \in DOMAIN fasts /\ f \in 0 .. Len(fasts)
  BY <1>1
<1>3. {b \in AllBuilds(fasts, chargeds) : b[1] <= scan.tried} = {b \in AllBuilds(fasts, chargeds) : b[1] < f}
  BY <1>1 DEF AllBuilds
<1>4. Leads(scan.doc, fasts, chargeds, {b \in AllBuilds(fasts, chargeds) : b[1] < f}, scan.best)
  BY <1>3 DEF ScanSound
<1> HIDE DEF f, fasts, chargeds
<1>5. LET new == bestPerFast(scan.doc, scan.best, fasts[f], chargeds)
      IN  /\ new \in Candidates
          /\ Leads(scan.doc, fasts, chargeds, {b \in AllBuilds(fasts, chargeds) : b[1] <= f}, new)
  BY <1>1, <1>2, <1>4, PerFast
<1> QED
  BY <1>2, <1>5 DEF f, fasts, chargeds

\* What the enumeration comes to.
Found ==
    IF scan.best.fast = None THEN Why("unscored")
    ELSE [why |-> "answered", fast |-> scan.best.fast, charged |-> scan.best.charged,
          delta |-> scan.best.score - scan.base, by |-> scan.doc]

\* It is an alternative, or why there is none.
LEMMA FoundTyped == ASSUME Typed, pc = "scan" PROVE Found \in Alternatives
<1>1. scan.best \in Candidates /\ scan.base \in Int /\ scan.doc \in Docs
  BY DEF Typed, Scans
<1>2. scan.best.score - scan.base \in Int
  BY <1>1 DEF Candidates
<1>3. CASE scan.best.fast = None
  BY <1>3, WhyTyped DEF Found
<1>4. CASE scan.best.fast # None
  BY <1>1, <1>2, <1>4 DEF Found, Alternatives, Candidates
<1> QED
  BY <1>3, <1>4

\* A step of the enumeration, or its end.
LEMMA ScanTyped == ASSUME Typed, Alternated, Scan PROVE Typed'
<1>1. EnvTyped' /\ pc = "scan" /\ scan \in Scans /\ scan.category \in Categories /\ held \in Forms
      /\ UNCHANGED <<call, k, held, cupIDs, entries, hoisted, outcome>>
  BY DEF Scan, Quiet, Typed, EnvTyped, envVars, Scans, Busy
<1>2. ScanSound
  BY <1>1 DEF Alternated, Concluding
<1>3. CASE /\ ctx = "live" /\ scan.tried < Len(scan.fasts)
           /\ scan' = [scan EXCEPT
                 !.tried = @ + 1,
                 !.best = bestPerFast(scan.doc, @, scan.fasts[scan.tried + 1], scan.chargeds)]
           /\ UNCHANGED <<pc, result>>
  <2> DEFINE chosen == bestPerFast(scan.doc, scan.best, scan.fasts[scan.tried + 1], scan.chargeds)
  <2>1. chosen \in Candidates
    BY <1>1, <1>2, <1>3, ScanGoes
  <2>2. scan' = [scan EXCEPT !.tried = scan.tried + 1, !.best = chosen]
    BY <1>3
  <2> HIDE DEF chosen
  <2>3. scan' \in Scans
    <3>1. scan.tried + 1 \in Nat
      BY <1>1 DEF Scans
    <3> QED
      BY <1>1, <2>1, <2>2, <3>1 DEF Scans
  <2> QED
    BY <1>1, <1>3, <2>3 DEF Typed
<1>4. CASE Conclude(scan.category, Found)
  BY <1>1, <1>4, ConcludeTyped, FoundTyped
<1> QED
  BY <1>3, <1>4 DEF Scan, Found

\* The next cup is asked, or the list is at its end.
CupAsked(answer) ==
    LET cup == Head(cupIDs)
    IN  /\ ctx = "live" /\ cupIDs # <<>> /\ Ask(cup, answer)
        /\ result' = IF EntryIndex(answer.entries, held.id) = 0 THEN result
                     ELSE [result EXCEPT !.cups = Append(result.cups, CupRanking(cup, answer.entries))]
        /\ cupIDs' = Tail(cupIDs) /\ UNCHANGED pc

\* The two cases of that step, and what a question to the rankings takes.
LEMMA CupCases ==
    ASSUME Typed, Cup
    PROVE  /\ pc = "cup" /\ held \in Forms /\ UNCHANGED <<call, k, held, scan, entries, hoisted, outcome>>
           /\ \/ /\ ctx = "done" \/ cupIDs = <<>>
                 /\ pc' = "check" /\ cupIDs' = <<>> /\ Quiet /\ UNCHANGED result
              \/ /\ cupIDs # <<>> /\ Head(cupIDs) \in DOMAIN Lists /\ Tail(cupIDs) \in Seq(DOMAIN Lists)
                 /\ ToSet(cupIDs) = {Head(cupIDs)} \cup ToSet(Tail(cupIDs))
                 /\ \E answer \in {Failed, Unknown} \cup {Known(l) : l \in Lists[Head(cupIDs)]} :
                       CupAsked(answer)
<1>1. pc = "cup" /\ held \in Forms /\ UNCHANGED <<call, k, held, scan, entries, hoisted, outcome>>
  BY DEF Cup, Typed, Busy
<1>2. CASE /\ ctx = "done" \/ cupIDs = <<>>
           /\ pc' = "check" /\ cupIDs' = <<>> /\ Quiet /\ UNCHANGED result
  BY <1>1, <1>2
<1>3. ASSUME ctx = "live", cupIDs # <<>>, cupIDs' = Tail(cupIDs), UNCHANGED pc,
             NEW answer \in {Failed, Unknown} \cup {Known(l) : l \in Lists[Head(cupIDs)]},
             Ask(Head(cupIDs), answer),
             result' = IF EntryIndex(answer.entries, held.id) = 0 THEN result
                       ELSE [result EXCEPT !.cups = Append(@, CupRanking(Head(cupIDs), answer.entries))]
      PROVE /\ cupIDs # <<>> /\ Head(cupIDs) \in DOMAIN Lists /\ Tail(cupIDs) \in Seq(DOMAIN Lists)
            /\ ToSet(cupIDs) = {Head(cupIDs)} \cup ToSet(Tail(cupIDs))
            /\ CupAsked(answer)
  <2>1. cupIDs \in Seq(DOMAIN Lists)
    BY DEF Typed
  <2>2. Head(cupIDs) \in DOMAIN Lists /\ Tail(cupIDs) \in Seq(DOMAIN Lists)
    BY <1>3, <2>1, HeadTailProperties
  <2>3. ToSet(cupIDs) = {Head(cupIDs)} \cup ToSet(Tail(cupIDs))
    BY <1>3, <2>1, HeadAndTail
  <2> QED
    BY <1>3, <2>2, <2>3 DEF CupAsked
<1> QED
  BY <1>1, <1>2, <1>3 DEF Cup

\* A line for a cup has its type.
LEMMA CupTyped == ASSUME Typed, Cup PROVE Typed'
<1>1. pc = "cup" /\ held \in Forms /\ UNCHANGED <<call, k, held, scan, entries, hoisted, outcome>>
  BY CupCases
<1>2. CASE pc' = "check" /\ cupIDs' = <<>> /\ Quiet /\ UNCHANGED result
  <2>1. EnvTyped' /\ <<>> \in Seq(DOMAIN Lists)
    BY <1>2, EmptySeq DEF Quiet, Typed, EnvTyped, envVars
  <2> QED
    BY <1>1, <1>2, <2>1 DEF Typed, Busy, Places
<1>3. ASSUME Head(cupIDs) \in DOMAIN Lists, Tail(cupIDs) \in Seq(DOMAIN Lists),
             NEW answer \in {Failed, Unknown} \cup {Known(l) : l \in Lists[Head(cupIDs)]},
             CupAsked(answer)
      PROVE Typed'
  <2> DEFINE cup == Head(cupIDs)
             at == EntryIndex(answer.entries, held.id)
             line == CupRanking(cup, answer.entries)
  <2>1. EnvTyped' /\ (answer.entries = <<>> \/ answer.entries \in Lists[cup])
    <3>1. Ask(cup, answer)
      BY <1>3 DEF CupAsked
    <3> QED
      BY <1>3, <3>1, AskDoes DEF Typed
  <2>2. at # 0 => line \in Lines
    <3>1. at # 0 => answer.entries \in Lists[cup]
      BY <2>1, IndexInNone
    <3>2. at # 0 => at \in Nat /\ MovesetFrom(held.species, answer.entries[at]) \in Movesets \cup {None}
      BY <1>3, <3>1, PublishedMoveset
    <3> HIDE DEF at
    <3> QED
      BY <1>3, <3>2 DEF CupRanking, Lines, at
  <2>3. result' \in Results
    <3>1. result \in Results /\ result.cups \in Seq(Lines)
      BY DEF Typed, Results
    <3>2. result' = IF at = 0 THEN result ELSE [result EXCEPT !.cups = Append(result.cups, line)]
      BY <1>3 DEF CupAsked
    <3> HIDE DEF at, line
    <3>3. at # 0 => Append(result.cups, line) \in Seq(Lines)
      BY <2>2, <3>1
    <3> QED
      BY <3>1, <3>2, <3>3 DEF Results
  <2>4. cupIDs' \in Seq(DOMAIN Lists) /\ pc' = "cup"
    BY <1>1, <1>3 DEF CupAsked
  <2> QED
    BY <1>1, <2>1, <2>3, <2>4 DEF Typed, Busy, Places
<1> QED
  BY <1>2, <1>3, CupCases

\* The end of an entry.
LEMMA CheckTyped == ASSUME Typed, Check PROVE Typed'
<1>1. UNCHANGED <<envVars, call, scan, cupIDs>> /\ pc = "check" /\ held \in Forms
  BY DEF Check, Quiet, Typed, Busy
<1>2. CASE Fail
  BY <1>1, <1>2, FailTyped
<1>3. CASE Succeed
  <2>1. EnvTyped'
    BY <1>1 DEF Typed, EnvTyped, envVars
  <2>2. Append(entries, [ok |-> TRUE, result |-> result, held |-> held])
           \in Seq([ok : BOOLEAN, result : Results, held : Forms \cup {None}])
    BY EntryAdded DEF Typed
  <2>3. entries' \in Seq([ok : BOOLEAN, result : Results, held : Forms \cup {None}])
    BY <1>3, <2>2 DEF Succeed
  <2>4. pc' \in {"next", "stop"} /\ k' \in Nat \ {0}
    <3>1. k + 1 \in Nat \ {0} /\ k \in Nat \ {0}
      BY DEF Typed
    <3> QED
      BY <1>3, <3>1 DEF Succeed
  <2>5. hoisted' \in Seq(Lines)
    BY <1>3 DEF Succeed, Typed, Results
  <2>6. result' = NoResult /\ held' = None
    BY <1>3 DEF Succeed
  <2> HIDE DEF NoResult
  <2> QED
    BY <1>1, <2>1, <2>3, <2>4, <2>5, <2>6, NothingYet DEF Typed, Busy, Places
<1> QED
  BY <1>2, <1>3 DEF Check

\* Every step keeps the types.
LEMMA NextTyped == Typed /\ Recalled /\ Alternated /\ [Next]_vars => Typed'
<1> SUFFICES ASSUME Typed, Recalled, Alternated, [Next]_vars PROVE Typed'
  OBVIOUS
<1>1. CASE UNCHANGED vars
  BY <1>1 DEF vars, envVars, rankVars, Typed, EnvTyped
<1>2. CASE Validate \/ NextEntry \/ Cups \/ Around
  BY <1>2, ControlTyped
<1>3. ASSUME NEW category \in {"legacy", "elite"}, Alternative(category) PROVE Typed'
  BY <1>3, AlternativeTyped DEF Categories, Recalled
<1> QED
  BY <1>1, <1>2, <1>3, EnterTyped, OptimalTyped, ScanTyped, CupTyped, CheckTyped DEF Next

-----------------------------------------------------------------------------
(* What every step leaves alone                                            *)

\* What is known of a cup stays known, and neither an end of the context nor a
\* refresh is taken back.
Onward ==
    /\ \A cup \in DOMAIN Lists : memo[cup] # Unset => memo'[cup] = memo[cup]
    /\ ctx = "done" => ctx' = "done"
    /\ refreshed = "yes" => refreshed' = "yes"
    /\ refreshed' = "no" => refreshed = "no" /\ current' = current
    /\ UNCHANGED call

\* A question to the rankings leads onward.
LEMMA AskOnward ==
    ASSUME EnvTyped, NEW cup \in DOMAIN Lists,
           NEW answer \in {Failed, Unknown} \cup {Known(list) : list \in Lists[cup]}, Ask(cup, answer),
           UNCHANGED call
    PROVE  Onward
  BY AskDoes DEF Onward

\* So does every step.
LEMMA StepsOnward == Typed /\ [Next]_vars => Onward
<1> SUFFICES ASSUME Typed, [Next]_vars PROVE Onward
  OBVIOUS
<1>1. CASE UNCHANGED vars
  BY <1>1 DEF vars, envVars, rankVars, Onward
<1>2. CASE Validate \/ NextEntry \/ Enter \/ Scan \/ Cups \/ Check
  BY <1>2 DEF Validate, NextEntry, Enter, Scan, Cups, Check, Quiet, envVars, Onward
<1>3. CASE Optimal
  BY <1>3, AskOnward, RankAssumption DEF Optimal, Typed
<1>4. ASSUME NEW category \in {"legacy", "elite"}, Alternative(category) PROVE Onward
  <2>1. CASE Quiet
    BY <1>4, <2>1 DEF Alternative, Quiet, envVars, Onward
  <2>2. ASSUME NEW answer \in {Failed, Unknown} \cup {Known(l) : l \in Lists[openLeagueCupID]},
               Ask(openLeagueCupID, answer)
        PROVE  Onward
    BY <1>4, <2>2, AskOnward, RankAssumption DEF Alternative, Typed
  <2> QED
    BY <1>4, <2>1, <2>2 DEF Alternative
<1>5. CASE Cup
  <2>1. CASE Quiet
    BY <1>5, <2>1, CupCases DEF Quiet, envVars, Onward
  <2>2. ASSUME Head(cupIDs) \in DOMAIN Lists,
               NEW answer \in {Failed, Unknown} \cup {Known(l) : l \in Lists[Head(cupIDs)]},
               CupAsked(answer)
        PROVE  Onward
    BY <1>5, <2>2, AskOnward, CupCases DEF CupAsked, Typed
  <2> QED
    BY <1>5, <2>1, <2>2, CupCases
<1>6. CASE Around
  BY <1>6 DEF Around, Refresh, Cancel, rankVars, Onward, Typed, EnvTyped
<1> QED
  BY <1>1, <1>2, <1>3, <1>4, <1>5, <1>6 DEF Next

\* An entry is added to those there were.
Adds(ok, r, form) == entries' = Append(entries, [ok |-> ok, result |-> r, held |-> form])

\* The entries change only when one ends, and the hoisted cups only when it succeeds.
LEMMA EntriesMove ==
    ASSUME Typed, [Next]_vars
    PROVE  \/ UNCHANGED <<entries, hoisted>>
           \/ /\ Fail /\ UNCHANGED <<envVars, call>>
              /\ \/ pc \in {"enter", "check"} /\ ctx = "done"
                 \/ pc = "enter" /\ ~Lookup(current, call.species, call.shadow).ok
                 \/ pc = "enter" /\ call.cap = None
                 \/ pc = "enter" /\ ~Fits(k)
              /\ call.batch => Adds(FALSE, NoResult, None)
           \/ /\ Succeed /\ pc = "check" /\ ctx # "done" /\ UNCHANGED <<envVars, call>>
              /\ Adds(TRUE, result, held)
<1>1. CASE UNCHANGED vars
  BY <1>1 DEF vars, rankVars
<1>2. CASE Validate \/ NextEntry \/ Cups \/ Optimal \/ Scan \/ Cup \/ Around
  BY <1>2 DEF Validate, NextEntry, Cups, Optimal, Scan, Cup, Around, rankVars
<1>3. CASE \E category \in {"legacy", "elite"} : Alternative(category)
  BY <1>3 DEF Alternative
<1>4. CASE Enter
  BY <1>4 DEF Enter, Quiet, Fail, Adds, Fits
<1>5. CASE Check
  BY <1>5 DEF Check, Quiet, Fail, Succeed, Adds
<1> QED
  BY <1>1, <1>2, <1>3, <1>4, <1>5 DEF Next

\* Adding one changes none of the others.
LEMMA AddsOne ==
    ASSUME Typed, NEW ok \in BOOLEAN, NEW r, NEW form, Adds(ok, r, form)
    PROVE  /\ Len(entries) \in Nat /\ Len(entries') = Len(entries) + 1
           /\ DOMAIN entries = 1..Len(entries) /\ DOMAIN entries' = 1..(Len(entries) + 1)
           /\ \A n \in 1..Len(entries) : entries'[n] = entries[n]
           /\ entries'[Len(entries) + 1] = [ok |-> ok, result |-> r, held |-> form]
           /\ Good' = IF ok THEN Good \cup {Len(entries) + 1} ELSE Good
           /\ Good \subseteq 1..Len(entries)
<1> DEFINE n == Len(entries) + 1
           new == [ok |-> ok, result |-> r, held |-> form]
<1>1. /\ Len(entries) \in Nat /\ DOMAIN entries = 1..Len(entries)
      /\ Len(entries') = n /\ DOMAIN entries' = 1..n
      /\ \A i \in 1..Len(entries) : entries'[i] = entries[i]
      /\ entries'[n] = new
  BY DEF Adds, Typed
<1>2. 1..n = 1..Len(entries) \cup {n} /\ n \notin 1..Len(entries)
  BY <1>1
<1>3. new.ok = ok
  OBVIOUS
<1> HIDE DEF n, new
<1>4. Good' = IF ok THEN Good \cup {n} ELSE Good
  BY <1>1, <1>2, <1>3 DEF Good
<1> QED
  BY <1>1, <1>4 DEF n, new, Good

\* So an entry is an old one, or the one added.
LEMMA OldOrAdded ==
    ASSUME Typed, NEW ok \in BOOLEAN, NEW r, NEW form, Adds(ok, r, form), NEW n \in DOMAIN entries'
    PROVE  \/ n \in DOMAIN entries /\ entries'[n] = entries[n]
           \/ n = Len(entries) + 1 /\ entries'[n].ok = ok
<1> DEFINE new == [ok |-> ok, result |-> r, held |-> form]
<1>1. /\ Len(entries) \in Nat /\ DOMAIN entries = 1..Len(entries) /\ DOMAIN entries' = 1..(Len(entries) + 1)
      /\ \A i \in 1..Len(entries) : entries'[i] = entries[i]
      /\ entries'[Len(entries) + 1] = new
  BY AddsOne
<1>2. new.ok = ok
  OBVIOUS
<1> HIDE DEF new
<1> QED
  BY <1>1, <1>2

-----------------------------------------------------------------------------
(* Answers agree with what the manager remembers                           *)

\* A line that is remembered stays as it is.
LEMMA ListedOn ==
    ASSUME Onward, NEW cup \in DOMAIN Lists, NEW form, Listed(memo, cup, form)
    PROVE  Listed(memo', cup, form) /\ LineOf(memo', cup, form) = LineOf(memo, cup, form)
<1>1. memo'[cup] = memo[cup]
  BY DEF Onward, Listed
<1> QED
  BY <1>1 DEF Listed, LineOf

\* The lines of a result are about cups.
LEMMA LineCups ==
    ASSUME NEW lines \in Seq(Lines)
    PROVE  \A line \in ToSet(lines) : line \in Lines /\ line.cup \in DOMAIN Lists
<1>1. \A i \in DOMAIN lines : lines[i] \in Lines
  OBVIOUS
<1>2. \A line \in Lines : line.cup \in DOMAIN Lists
  BY DEF Lines
<1> QED
  BY <1>1, <1>2 DEF ToSet

\* A result of a form tells the same after any step.
LEMMA RecallsOn ==
    ASSUME Onward, NEW r \in Results, NEW form, Recalls(memo, r, form)
    PROVE  Recalls(memo', r, form)
<1>1. \A line \in ToSet(r.cups) : line.cup \in DOMAIN Lists
  BY LineCups DEF Results
<1>2. openLeagueCupID \in DOMAIN Lists
  BY RankAssumption
<1> QED
  BY <1>1, <1>2, ListedOn DEF Recalls

\* So does the result under way, if the step adds nothing of rankings to it.
LEMMA RecallsSame ==
    ASSUME Typed, Onward, Recalls(memo, result, held), held' = held,
           result'.optimal = result.optimal, result'.cups = result.cups
    PROVE  Recalls(memo', result', held')
<1>1. Recalls(memo', result, held)
  BY RecallsOn DEF Typed
<1> QED
  BY <1>1 DEF Recalls

\* An empty result tells nothing.
LEMMA RecallsNothing == ASSUME result' = NoResult PROVE Recalls(memo', result', held')
<1>1. result'.optimal = None /\ result'.cups = <<>>
  BY NothingYet
<1>2. ToSet(result'.cups) = {}
  BY <1>1 DEF ToSet
<1> QED
  BY <1>1, <1>2 DEF Recalls

\* The moveset is that of the open league.
LEMMA OptimalRecalls == ASSUME Typed, Optimal PROVE Recalls(memo', result', held')
<1>1. PICK answer \in {Failed, Unknown} \cup {Known(l) : l \in Lists[openLeagueCupID]} :
         /\ Ask(openLeagueCupID, answer)
         /\ result' = [result EXCEPT !.optimal =
               IF EntryIndex(answer.entries, held.id) = 0 THEN None
               ELSE MovesetFrom(held.species, answer.entries[EntryIndex(answer.entries, held.id)])]
  BY DEF Optimal
<1>2. openLeagueCupID \in DOMAIN Lists /\ held' = held
  BY RankAssumption DEF Optimal
<1>3. result \in Results /\ result.cups = <<>>
  BY DEF Typed, Optimal, Busy
<1> DEFINE at == EntryIndex(answer.entries, held.id)
           moveset == MovesetFrom(held.species, answer.entries[at])
<1>4. result'.cups = <<>> /\ result'.optimal = IF at = 0 THEN None ELSE moveset
  <2> HIDE DEF at, moveset
  <2>1. result' = [result EXCEPT !.optimal = IF at = 0 THEN None ELSE moveset]
    BY <1>1 DEF at, moveset
  <2> QED
    BY <1>3, <2>1 DEF Results
<1>5. at # 0 => memo'[openLeagueCupID] # Unset /\ memo'[openLeagueCupID] = answer
  BY <1>1, <1>2, AskDoes, IndexInNone DEF Typed
<1>6. at # 0 => /\ Listed(memo', openLeagueCupID, held)
                /\ LineOf(memo', openLeagueCupID, held).moveset = moveset
  BY <1>5 DEF Listed, LineOf
<1>7. ToSet(result'.cups) = {}
  BY <1>4 DEF ToSet
<1> QED
  BY <1>2, <1>4, <1>6, <1>7 DEF Recalls

\* The line of a cup is what its ranking says.
CupLine(answer) ==
    LET cup == Head(cupIDs)
        new == LineOf(memo', cup, held)
    IN  /\ EntryIndex(answer.entries, held.id) = 0 => UNCHANGED result
        /\ EntryIndex(answer.entries, held.id) # 0 =>
             /\ memo'[cup] = answer
             /\ Listed(memo', cup, held) /\ new.cup = cup
             /\ result'.cups = Append(result.cups, new)
             /\ ToSet(result'.cups) = ToSet(result.cups) \cup {new}
             /\ result'.optimal = result.optimal

\* Adding to a list adds to its elements.
LEMMA AddedTo ==
    ASSUME NEW T, NEW list \in Seq(T), NEW x
    PROVE  ToSet(Append(list, x)) = ToSet(list) \cup {x}
<1> DEFINE U == T \cup {x}
<1>1. T \subseteq U /\ x \in U
  OBVIOUS
<1> HIDE DEF U
<1>2. list \in Seq(U)
  BY <1>1, SeqMonotonic
<1> QED
  BY <1>1, <1>2, AppendKeeps

\* Asking for a cup adds its line, if it has one.
LEMMA CupAdds ==
    ASSUME Typed, Cup, Head(cupIDs) \in DOMAIN Lists,
           NEW answer \in {Failed, Unknown} \cup {Known(l) : l \in Lists[Head(cupIDs)]},
           CupAsked(answer)
    PROVE  CupLine(answer)
<1> DEFINE cup == Head(cupIDs)
           at == EntryIndex(answer.entries, held.id)
           line == CupRanking(cup, answer.entries)
           new == LineOf(memo', cup, held)
<1>1. Ask(cup, answer)
      /\ result' = IF at = 0 THEN result
                   ELSE [result EXCEPT !.cups = Append(result.cups, line)]
  BY DEF CupAsked
<1>2. CASE at = 0
  BY <1>1, <1>2 DEF CupLine
<1>3. CASE at # 0
  <2>1. memo'[cup] # Unset /\ memo'[cup] = answer
    BY <1>1, <1>3, AskDoes, IndexInNone DEF Typed
  <2>2. Listed(memo', cup, held) /\ new.cup = cup /\ line = new
    BY <1>3, <2>1 DEF Listed, LineOf, CupRanking
  <2>3. result \in Results /\ result.cups \in Seq(Lines)
    BY DEF Typed, Results
  <2> HIDE DEF line, new, at, cup
  <2>5. result' = [result EXCEPT !.cups = Append(result.cups, line)]
    BY <1>1, <1>3
  <2>6. result'.cups = Append(result.cups, line) /\ result'.optimal = result.optimal
    BY <2>3, <2>5 DEF Results
  <2>7. ToSet(Append(result.cups, line)) = ToSet(result.cups) \cup {line}
    BY <2>3, AddedTo
  <2> QED
    BY <1>3, <2>1, <2>2, <2>6, <2>7 DEF CupLine, cup, at, new
<1> QED
  BY <1>2, <1>3

\* The result under way tells what the manager remembers, after every step.
LEMMA NextRecalls ==
    Typed /\ Recalls(memo, result, held) /\ [Next]_vars => Recalls(memo', result', held')
<1> SUFFICES ASSUME Typed, Recalls(memo, result, held), [Next]_vars PROVE Recalls(memo', result', held')
  OBVIOUS
<1>1. Onward
  BY StepsOnward
<1>2. CASE UNCHANGED vars \/ Validate \/ NextEntry \/ Cups \/ Around
  <2>1. UNCHANGED <<result, held>>
    BY <1>2 DEF vars, Validate, NextEntry, Cups, Around, rankVars
  <2> QED
    BY <1>1, <2>1, RecallsSame
<1>3. CASE Enter
  <2>1. result = NoResult
    BY <1>3 DEF Enter, Typed, Busy
  <2>2. result' = NoResult
    BY <1>3, <2>1 DEF Enter, Fail
  <2> QED
    BY <2>2, RecallsNothing
<1>4. CASE Optimal
  BY <1>4, OptimalRecalls
<1>5. ASSUME held' = held, NEW category \in Categories, NEW alternative \in Alternatives \cup {None},
             Conclude(category, alternative)
      PROVE  Recalls(memo', result', held')
  <2>1. result \in Results /\ result' = [result EXCEPT ![category] = alternative]
    BY <1>5 DEF Conclude, Typed
  <2> DEFINE new == [result EXCEPT ![category] = alternative]
  <2>2. new.optimal = result.optimal /\ new.cups = result.cups
    BY <2>1, ResultWith
  <2> HIDE DEF new
  <2>3. result' = new
    BY <2>1 DEF new
  <2> QED
    BY <1>1, <1>5, <2>2, <2>3, RecallsSame
<1>6. ASSUME NEW category \in {"legacy", "elite"}, Alternative(category)
      PROVE  Recalls(memo', result', held')
  <2>1. CASE UNCHANGED result
    BY <1>1, <1>6, <2>1, RecallsSame DEF Alternative
  <2>2. ASSUME NEW alternative \in {None, Why("nomoves"), Why("nometa")}, Conclude(category, alternative)
        PROVE  Recalls(memo', result', held')
    <3>1. alternative \in Alternatives \cup {None} /\ category \in Categories /\ held' = held
      BY <1>6, WhyTyped DEF Alternative, Categories
    <3> QED
      BY <1>5, <2>2, <3>1
  <2> QED
    BY <1>6, <2>1, <2>2 DEF Alternative
<1>7. CASE Scan
  <2>1. pc = "scan" /\ held' = held /\ scan.category \in Categories
    BY <1>7 DEF Scan, Typed, Scans
  <2>2. UNCHANGED result \/ Conclude(scan.category, Found)
    BY <1>7 DEF Scan, Found
  <2> QED
    BY <1>1, <1>5, <2>1, <2>2, RecallsSame, FoundTyped
<1>8. CASE Cup
  <2>1. CASE UNCHANGED result
    BY <1>1, <1>8, <2>1, RecallsSame, CupCases
  <2>2. ASSUME Head(cupIDs) \in DOMAIN Lists,
               NEW answer \in {Failed, Unknown} \cup {Known(l) : l \in Lists[Head(cupIDs)]},
               CupAsked(answer)
        PROVE  Recalls(memo', result', held')
    <3>1. CupLine(answer)
      BY <1>8, <2>2, CupAdds
    <3>2. CASE EntryIndex(answer.entries, held.id) = 0
      BY <2>1, <3>1, <3>2 DEF CupLine
    <3>3. CASE EntryIndex(answer.entries, held.id) # 0
      <4>1. held' = held /\ Recalls(memo', result, held)
        BY <1>1, <1>8, CupCases, RecallsOn DEF Typed
      <4> QED
        BY <3>1, <3>3, <4>1 DEF Recalls, CupLine
    <3> QED
      BY <3>2, <3>3
  <2> QED
    BY <1>8, <2>1, <2>2, CupCases
<1>9. CASE Check
  <2>1. result' = NoResult
    BY <1>9 DEF Check, Fail, Succeed
  <2> QED
    BY <2>1, RecallsNothing
<1> QED
  BY <1>2, <1>3, <1>4, <1>6, <1>7, <1>8, <1>9 DEF Next

\* What holds of the good entries, and of the result of an entry that succeeds,
\* holds of all good entries after a step.
LEMMA EntriesKeep ==
    ASSUME Typed, [Next]_vars
    PROVE  \A n \in Good' :
              \/ n \in Good /\ entries'[n] = entries[n]
              \/ /\ n = Len(entries) + 1 /\ pc = "check" /\ ctx # "done" /\ Succeed
                 /\ UNCHANGED <<envVars, call>>
                 /\ held \in Forms /\ entries'[n].result = result /\ entries'[n].held = held
<1>1. CASE UNCHANGED <<entries, hoisted>>
  BY <1>1 DEF Good
<1>2. CASE Fail /\ (call.batch => Adds(FALSE, NoResult, None))
  <2>1. CASE call.batch
    BY <1>2, <2>1, AddsOne
  <2>2. CASE ~call.batch
    BY <1>1, <1>2, <2>2 DEF Fail
  <2> QED
    BY <2>1, <2>2
<1>3. CASE Succeed /\ pc = "check" /\ ctx # "done" /\ UNCHANGED <<envVars, call>> /\ Adds(TRUE, result, held)
  <2>1. held \in Forms
    BY <1>3 DEF Typed, Busy
  <2>2. /\ Good' = Good \cup {Len(entries) + 1} /\ Good \subseteq 1..Len(entries)
        /\ \A n \in 1..Len(entries) : entries'[n] = entries[n]
        /\ entries'[Len(entries) + 1] = [ok |-> TRUE, result |-> result, held |-> held]
    BY <1>3, AddsOne
  <2>3. ASSUME NEW n \in Good', n # Len(entries) + 1 PROVE n \in Good /\ entries'[n] = entries[n]
    BY <2>2, <2>3
  <2>4. entries'[Len(entries) + 1].result = result /\ entries'[Len(entries) + 1].held = held
    BY <2>2
  <2> HIDE DEF Succeed
  <2> QED
    BY <1>3, <2>1, <2>3, <2>4
<1> QED
  BY <1>1, <1>2, <1>3, EntriesMove

\* The results of the good entries have their type.
LEMMA GoodTyped ==
    ASSUME Typed, NEW n \in Good
    PROVE  n \in 1..Len(entries) /\ entries[n].result \in Results
<1> DEFINE Each == [ok : BOOLEAN, result : Results, held : Forms \cup {None}]
<1>1. entries \in Seq(Each)
  BY DEF Typed
<1>2. \A e \in Each : e.result \in Results
  OBVIOUS
<1> HIDE DEF Each
<1>3. n \in 1..Len(entries)
  BY <1>1 DEF Good
<1> QED
  BY <1>1, <1>2, <1>3

\* So do the results of the entries.
LEMMA NextRecalled == Typed /\ Recalled /\ [Next]_vars => Recalled'
<1> SUFFICES ASSUME Typed, Recalled, [Next]_vars PROVE Recalled'
  OBVIOUS
<1>1. Recalls(memo', result', held') /\ Onward
  BY NextRecalls, StepsOnward DEF Recalled
<1>2. ASSUME NEW n \in Good'
      PROVE  entries'[n].held \in Forms /\ Recalls(memo', entries'[n].result, entries'[n].held)
  <2>1. CASE n \in Good /\ entries'[n] = entries[n]
    BY <1>1, <2>1, GoodTyped, RecallsOn DEF Recalled
  <2>2. CASE held \in Forms /\ entries'[n].result = result /\ entries'[n].held = held
    <3>1. Recalls(memo', result, held)
      BY <1>1, RecallsOn DEF Recalled, Typed
    <3> QED
      BY <2>2, <3>1
  <2> QED
    BY <2>1, <2>2, EntriesKeep
<1> QED
  BY <1>1, <1>2 DEF Recalled
-----------------------------------------------------------------------------
(* The open league is listed beside the recommended moveset                *)

\* The last two places of an entry are reached by the steps of the cups alone.
LEMMA Arrives ==
    ASSUME Typed, [Next]_vars, pc' \in {"cup", "check"}
    PROVE  Cups \/ Cup \/ (UNCHANGED rankVars /\ memo' = memo)
<1>1. CASE UNCHANGED vars
  BY <1>1 DEF vars, envVars
<1>2. CASE Validate \/ NextEntry \/ Optimal \/ Check
  BY <1>2 DEF Validate, NextEntry, Optimal, Check, Fail, Succeed
<1>3. CASE Enter
  BY <1>3 DEF Enter, Fail
<1>4. ASSUME NEW category, NEW alternative, Conclude(category, alternative) PROVE FALSE
  BY <1>4 DEF Conclude, AfterCategory
<1>5. ASSUME NEW category \in {"legacy", "elite"}, Alternative(category) PROVE FALSE
  BY <1>4, <1>5 DEF Alternative
<1>6. CASE Scan
  BY <1>4, <1>6 DEF Scan
<1>7. CASE Around
  BY <1>7 DEF Around, Refresh, Cancel
<1> QED
  BY <1>1, <1>2, <1>3, <1>5, <1>6, <1>7 DEF Next

\* What the manager remembers is the answer.
LEMMA Remembered ==
    ASSUME Typed, NEW answer, Head(cupIDs) \in DOMAIN Lists,
           answer \in {Failed, Unknown} \cup {Known(l) : l \in Lists[Head(cupIDs)]},
           CupAsked(answer), Listed(memo, Head(cupIDs), held)
    PROVE  EntryIndex(answer.entries, held.id) # 0
<1>1. ctx = "live" /\ Ask(Head(cupIDs), answer)
  BY DEF CupAsked
<1>2. answer = memo[Head(cupIDs)]
  BY <1>1, AskDoes DEF Typed, Listed
<1> QED
  BY <1>2 DEF Listed

\* The line of the open league is there, or still to come, after every step.
LEMMA NextOpenListed == Typed /\ Recalled /\ OpenListed /\ [Next]_vars => OpenListed'
<1> SUFFICES ASSUME Typed, Recalled, OpenListed, [Next]_vars PROVE OpenListed'
  OBVIOUS
<1>1. Onward /\ call' = call
  BY StepsOnward DEF Onward
<1>2. \A r : Wanted(r)' <=> Wanted(r)
  BY <1>1 DEF Wanted
<1>3. ASSUME NEW n \in Good', Wanted(entries'[n].result) PROVE HasOpen(entries'[n].result)
  <2>1. CASE n \in Good /\ entries'[n] = entries[n]
    BY <1>3, <2>1 DEF OpenListed
  <2>2. CASE pc = "check" /\ ctx # "done" /\ entries'[n].result = result
    BY <1>3, <2>2 DEF OpenListed
  <2> QED
    BY <2>1, <2>2, EntriesKeep
<1>4. ASSUME pc' \in {"cup", "check"}, Wanted(result')
      PROVE  /\ pc' = "cup" => HasOpen(result') \/ openLeagueCupID \in ToSet(cupIDs')
             /\ pc' = "check" => HasOpen(result') \/ ctx' = "done"
  <2>1. CASE UNCHANGED rankVars
    BY <1>1, <1>4, <2>1 DEF OpenListed, rankVars, Onward
  <2>2. CASE Cups
    <3>1. current \in Docs /\ pc' = "cup"
      BY <2>2 DEF Cups, Typed, EnvTyped
    <3>2. (IF call.batch THEN None ELSE call.cup) \in {None, openLeagueCupID}
      BY <1>4 DEF Wanted
    <3> DEFINE filter == IF call.batch THEN None ELSE call.cup
    <3>3. cupIDs' = CupIDs(current, filter)
      BY <2>2 DEF Cups
    <3> HIDE DEF filter
    <3> QED
      BY <3>1, <3>2, <3>3, CupIDsIn DEF filter
  <2>3. CASE Cup
    <3>1. CASE (ctx = "done" \/ cupIDs = <<>>) /\ pc' = "check" /\ Quiet /\ UNCHANGED result
      <4>1. openLeagueCupID \in ToSet(cupIDs) => cupIDs # <<>>
        BY DEF ToSet
      <4>2. pc = "cup" /\ ctx' = ctx
        BY <2>3, <3>1, CupCases DEF Quiet, envVars
      <4> QED
        BY <1>4, <3>1, <4>1, <4>2 DEF OpenListed
    <3>2. ASSUME cupIDs # <<>>, Head(cupIDs) \in DOMAIN Lists,
                 ToSet(cupIDs) = {Head(cupIDs)} \cup ToSet(Tail(cupIDs)),
                 NEW answer \in {Failed, Unknown} \cup {Known(l) : l \in Lists[Head(cupIDs)]},
                 CupAsked(answer)
          PROVE  HasOpen(result') \/ openLeagueCupID \in ToSet(cupIDs')
      <4> DEFINE new == LineOf(memo', Head(cupIDs), held)
      <4>1. CupLine(answer) /\ pc = "cup" /\ cupIDs' = Tail(cupIDs)
        BY <2>3, <3>2, CupAdds, CupCases DEF CupAsked
      <4>2. result'.optimal = result.optimal /\ ToSet(result.cups) \subseteq ToSet(result'.cups)
        BY <4>1 DEF CupLine
      <4>3. CASE HasOpen(result)
        BY <4>2, <4>3 DEF HasOpen
      <4>4. CASE ~HasOpen(result) /\ Head(cupIDs) # openLeagueCupID
        BY <1>4, <3>2, <4>1, <4>2, <4>4 DEF OpenListed, Wanted
      <4>5. CASE Head(cupIDs) = openLeagueCupID
        <5>1. Listed(memo, Head(cupIDs), held)
          BY <1>4, <4>2, <4>5 DEF Wanted, Recalled, Recalls
        <5>2. EntryIndex(answer.entries, held.id) # 0
          BY <3>2, <5>1, Remembered
        <5>3. new \in ToSet(result'.cups) /\ new.cup = openLeagueCupID
          BY <4>1, <4>5, <5>2 DEF CupLine
        <5> QED
          BY <5>3 DEF HasOpen
      <4> QED
        BY <4>3, <4>4, <4>5
    <3> QED
      BY <2>3, <3>1, <3>2, CupCases DEF CupAsked
  <2> QED
    BY <1>4, <2>1, <2>2, <2>3, Arrives
<1> QED
  BY <1>2, <1>3, <1>4 DEF OpenListed
-----------------------------------------------------------------------------
(* What is hoisted speaks for every entry                                  *)

\* An entry keeps its form from its beginning to its end.
LEMMA HeldKept ==
    ASSUME Typed, [Next]_vars, pc' \in Busy
    PROVE  \/ pc \in Busy /\ held' = held
           \/ held' = TheForm /\ UNCHANGED <<current, call>>
<1>1. CASE UNCHANGED vars \/ Around
  BY <1>1 DEF vars, rankVars, Around
<1>2. CASE Validate \/ NextEntry
  BY <1>2 DEF Validate, NextEntry, Busy
<1>3. CASE Enter
  <2>1. CASE Fail
    BY <1>3, <2>1 DEF Fail, Busy
  <2>2. CASE /\ held' = [id |-> Lookup(current, call.species, call.shadow).id,
                         species |-> current.pokemon[Lookup(current, call.species, call.shadow).id]]
             /\ UNCHANGED envVars /\ UNCHANGED call
    BY <2>2 DEF TheForm, envVars
  <2> QED
    BY <1>3, <2>1, <2>2 DEF Enter, Quiet
<1>4. CASE Optimal \/ Scan \/ Cups \/ Cup
  BY <1>4 DEF Optimal, Scan, Cups, Cup, Busy
<1>5. CASE \E category \in {"legacy", "elite"} : Alternative(category)
  BY <1>5 DEF Alternative, Busy
<1>6. CASE Check
  BY <1>6 DEF Check, Fail, Succeed, Busy
<1> QED
  BY <1>1, <1>2, <1>3, <1>4, <1>5, <1>6 DEF Next

\* What is hoisted is what was, or the cups of the entry that succeeds.
LEMMA HoistMoves ==
    ASSUME Typed, [Next]_vars, call.batch
    PROVE  \/ hoisted' = hoisted
           \/ hoisted = <<>> /\ hoisted' = result.cups /\ Succeed /\ pc = "check"
  BY EntriesMove DEF Fail, Succeed

\* No step hoists nothing from something.
LEMMA NextNoneYet == Typed /\ NoneYet /\ [Next]_vars => NoneYet'
<1> SUFFICES ASSUME Typed, NoneYet, [Next]_vars, call.batch, hoisted' = <<>>, NEW n \in Good'
             PROVE  entries'[n].result.cups = <<>>
  BY StepsOnward DEF NoneYet, Onward
<1>1. hoisted = <<>>
  BY HoistMoves
<1>2. CASE n \in Good /\ entries'[n] = entries[n]
  BY <1>1, <1>2 DEF NoneYet
<1>3. CASE Succeed /\ entries'[n].result = result
  BY <1>1, <1>3 DEF Succeed
<1> QED
  BY <1>2, <1>3, EntriesKeep

\* It was undisturbed before.
LEMMA UndisturbedBefore ==
    ASSUME Typed, [Next]_vars, Undisturbed'
    PROVE  Undisturbed /\ TheForm' = TheForm /\ AllCups' = AllCups /\ UNCHANGED <<current, call>>
<1>1. call' = call /\ refreshed = "no" /\ current' = current
  BY StepsOnward DEF Onward, Undisturbed
<1> QED
  BY <1>1 DEF Undisturbed, TheForm, AllCups

LEMMA NextOneForm == ASSUME Typed, OneForm, [Next]_vars, Undisturbed' PROVE OneForm'
<1>1. TheForm' = TheForm
  BY UndisturbedBefore
<1>2. pc' \in Busy => held' = TheForm
  BY HeldKept DEF OneForm
<1>3. ASSUME NEW n \in Good' PROVE entries'[n].held = TheForm
  <2>1. CASE n \in Good /\ entries'[n] = entries[n]
    BY <2>1 DEF OneForm
  <2>2. CASE pc = "check" /\ entries'[n].held = held
    BY <2>2 DEF OneForm, Busy
  <2> QED
    BY <2>1, <2>2, EntriesKeep
<1> QED
  BY <1>1, <1>2, <1>3 DEF OneForm

\* Before the cups of an entry, and after it, its result has no lines.
LEMMA CupsChange ==
    ASSUME Typed, Typed', [Next]_vars
    PROVE  \/ ToSet(result'.cups) = {} /\ pc' \notin {"cup", "check"}
           \/ Cups /\ UNCHANGED <<result, hoisted>>
           \/ Cup /\ UNCHANGED hoisted
           \/ UNCHANGED rankVars
<1>1. CASE pc' \in {"cup", "check"}
  BY <1>1, Arrives, CupCases DEF Cups
<1>2. CASE pc' \notin {"cup", "check"}
  <2>1. result'.cups = <<>>
    <3>1. pc' \notin Busy => result' = NoResult
      BY DEF Typed
    <3>2. pc' \in Busy \ {"cup", "check"} => result'.cups = <<>>
      BY DEF Typed
    <3> QED
      BY <1>2, <3>1, <3>2, NothingYet
  <2> QED
    BY <1>2, <2>1 DEF ToSet
<1> QED
  BY <1>1, <1>2

LEMMA NextCupsKnown == ASSUME Typed, Typed', CupsKnown, [Next]_vars, Undisturbed' PROVE CupsKnown'
<1>1. AllCups' = AllCups /\ Undisturbed
  BY UndisturbedBefore
<1>2. ToSet(hoisted') \subseteq ToSet(hoisted) \cup ToSet(result.cups)
  BY <1>1, HoistMoves DEF Undisturbed
<1>3. \A line \in ToSet(hoisted') : line.cup \in AllCups
  BY <1>2 DEF CupsKnown
<1>4. CASE ToSet(result'.cups) = {} /\ pc' \notin {"cup", "check"}
  BY <1>1, <1>3, <1>4 DEF CupsKnown
<1>5. CASE Cups
  <2>1. cupIDs' = CupIDs(current, None) /\ result' = result
    BY <1>1, <1>5 DEF Cups, Undisturbed
  <2> QED
    BY <1>1, <1>3, <2>1 DEF CupsKnown, AllCups
<1>6. CASE Cup
  <2>1. CASE pc' = "check" /\ UNCHANGED result
    BY <1>1, <1>3, <2>1 DEF CupsKnown
  <2>2. ASSUME Head(cupIDs) \in DOMAIN Lists, ToSet(cupIDs) = {Head(cupIDs)} \cup ToSet(Tail(cupIDs)),
               NEW answer \in {Failed, Unknown} \cup {Known(l) : l \in Lists[Head(cupIDs)]},
               CupAsked(answer)
        PROVE  CupsKnown'
    <3> DEFINE new == LineOf(memo', Head(cupIDs), held)
    <3>1. pc = "cup" /\ cupIDs' = Tail(cupIDs) /\ CupLine(answer)
      BY <1>6, <2>2, CupCases, CupAdds DEF CupAsked
    <3>2. Head(cupIDs) \in AllCups /\ ToSet(cupIDs') \subseteq AllCups
      BY <2>2, <3>1 DEF CupsKnown
    <3>3. new.cup = Head(cupIDs)
      BY DEF LineOf
    <3>4. ToSet(result'.cups) \subseteq ToSet(result.cups) \cup {new}
      BY <3>1 DEF CupLine
    <3> HIDE DEF new
    <3>5. \A line \in ToSet(result'.cups) : line.cup \in AllCups
      BY <3>2, <3>3, <3>4 DEF CupsKnown
    <3> QED
      BY <1>1, <1>3, <3>2, <3>5 DEF CupsKnown
  <2> QED
    BY <1>6, <2>1, <2>2, CupCases
<1>7. CASE UNCHANGED rankVars
  BY <1>1, <1>7 DEF CupsKnown, rankVars
<1> QED
  BY <1>4, <1>5, <1>6, <1>7, CupsChange

\* A hoisted line is remembered, and comes again.
LEMMA NextLinesCome ==
    ASSUME Typed, Typed', Recalled, OneForm, CupsKnown, LinesCome, [Next]_vars, Undisturbed'
    PROVE  LinesCome'
<1>1. TheForm' = TheForm /\ Undisturbed /\ Onward
  BY UndisturbedBefore, StepsOnward
<1>2. PICK form : form = TheForm
  OBVIOUS
<1>3. \A line \in ToSet(hoisted) : line.cup \in DOMAIN Lists
  BY LineCups DEF Typed
<1>4. ASSUME NEW line \in ToSet(hoisted')
      PROVE  Listed(memo', line.cup, form) /\ line = LineOf(memo', line.cup, form)
  <2>1. CASE line \in ToSet(hoisted)
    BY <1>1, <1>2, <1>3, <2>1, ListedOn DEF LinesCome
  <2>2. CASE line \in ToSet(result.cups) /\ pc = "check"
    <3>1. held = form
      BY <1>2, <2>2 DEF OneForm, Busy
    <3>2. Recalls(memo', result, held)
      BY <1>1, RecallsOn DEF Recalled, Typed
    <3> QED
      BY <2>2, <3>1, <3>2 DEF Recalls
  <2>3. line \in ToSet(hoisted) \/ (line \in ToSet(result.cups) /\ pc = "check")
    BY <1>1, <1>4, HoistMoves DEF Undisturbed
  <2> QED
    BY <2>1, <2>2, <2>3
<1>5. CASE pc' \notin {"cup", "check"}
  BY <1>1, <1>2, <1>4, <1>5 DEF LinesCome
<1>6. CASE Cups
  <2>1. cupIDs' = CupIDs(current, None) /\ pc' = "cup" /\ hoisted' = hoisted
    BY <1>1, <1>6 DEF Cups, Undisturbed
  <2>2. \A line \in ToSet(hoisted') : line.cup \in ToSet(cupIDs')
    BY <2>1 DEF CupsKnown, AllCups
  <2> QED
    BY <1>1, <1>2, <1>4, <2>1, <2>2 DEF LinesCome
<1>7. CASE Cup
  <2>1. pc = "cup" /\ hoisted' = hoisted /\ held = form
    BY <1>2, <1>7, CupCases DEF OneForm, Busy
  <2>2. CASE (ctx = "done" \/ cupIDs = <<>>) /\ pc' = "check" /\ Quiet /\ UNCHANGED result
    <3>1. cupIDs = <<>> => ToSet(cupIDs) = {}
      BY DEF ToSet
    <3>2. ctx' = ctx
      BY <2>2 DEF Quiet, envVars
    <3>3. ctx' = "done" \/ ToSet(hoisted') \subseteq ToSet(result'.cups)
      BY <2>1, <2>2, <3>1, <3>2 DEF LinesCome
    <3> QED
      BY <1>1, <1>2, <1>4, <2>2, <3>3 DEF LinesCome
  <2>3. ASSUME Head(cupIDs) \in DOMAIN Lists, ToSet(cupIDs) = {Head(cupIDs)} \cup ToSet(Tail(cupIDs)),
               NEW answer \in {Failed, Unknown} \cup {Known(l) : l \in Lists[Head(cupIDs)]},
               CupAsked(answer)
        PROVE  LinesCome'
    <3>1. cupIDs' = Tail(cupIDs) /\ pc' = "cup" /\ CupLine(answer)
      BY <1>7, <2>1, <2>3, CupAdds DEF CupAsked
    <3>2. ToSet(result.cups) \subseteq ToSet(result'.cups)
      BY <3>1 DEF CupLine
    <3>3. ASSUME NEW line \in ToSet(hoisted)
          PROVE  line \in ToSet(result'.cups) \/ line.cup \in ToSet(cupIDs')
      <4>1. CASE line \in ToSet(result.cups) \/ line.cup # Head(cupIDs)
        BY <2>1, <2>3, <3>1, <3>2, <3>3, <4>1 DEF LinesCome
      <4>2. CASE line.cup = Head(cupIDs)
        <5>1. Listed(memo, Head(cupIDs), held) /\ line = LineOf(memo, Head(cupIDs), held)
          BY <1>2, <2>1, <3>3, <4>2 DEF LinesCome
        <5>2. EntryIndex(answer.entries, held.id) # 0
          BY <2>3, <5>1, Remembered
        <5>3. LineOf(memo', Head(cupIDs), held) = LineOf(memo, Head(cupIDs), held)
          BY <1>1, <2>3, <5>1, ListedOn
        <5> QED
          BY <3>1, <5>1, <5>2, <5>3 DEF CupLine
      <4> QED
        BY <4>1, <4>2
    <3> QED
      BY <1>1, <1>2, <1>4, <2>1, <3>1, <3>3 DEF LinesCome
  <2> QED
    BY <1>7, <2>2, <2>3, CupCases
<1>8. CASE UNCHANGED rankVars
  <2>1. UNCHANGED <<pc, result, cupIDs, hoisted>> /\ (ctx = "done" => ctx' = "done")
    BY <1>1, <1>8 DEF rankVars, Onward
  <2> QED
    BY <1>1, <1>2, <1>4, <2>1 DEF LinesCome
<1> QED
  BY <1>5, <1>6, <1>7, <1>8, CupsChange

\* What the batch hoisted, or hoists now, is in the lists of every entry after.
LEMMA NextHoistSound ==
    ASSUME Typed, NoneYet, OneForm, LinesCome, HoistSound, [Next]_vars, Undisturbed'
    PROVE  HoistSound'
<1>1. Undisturbed
  BY UndisturbedBefore
<1>2. \A n \in Good : n \in 1..Len(entries) /\ Len(entries) \in Nat
  BY GoodTyped DEF Typed
<1>3. CASE hoisted' = hoisted
  <2>1. ASSUME NEW n \in Good', n \in Good, entries'[n] = entries[n]
        PROVE  ToSet(hoisted') \subseteq ToSet(entries'[n].result.cups)
               \/ (entries'[n].result.cups = <<>> /\ EmptyBefore(n)')
    <3>1. CASE ToSet(hoisted) \subseteq ToSet(entries[n].result.cups)
      BY <1>3, <2>1, <3>1
    <3>2. CASE entries[n].result.cups = <<>> /\ EmptyBefore(n)
      <4>1. ASSUME NEW m \in Good', m < n PROVE entries'[m].result.cups = <<>>
        <5>1. m # Len(entries) + 1
          BY <1>2, <2>1, <4>1
        <5>2. m \in Good /\ entries'[m] = entries[m]
          BY <5>1, EntriesKeep
        <5> QED
          BY <3>2, <4>1, <5>2 DEF EmptyBefore
      <4> QED
        BY <2>1, <3>2, <4>1 DEF EmptyBefore
    <3> QED
      BY <1>1, <2>1, <3>1, <3>2 DEF HoistSound, Undisturbed
  <2>2. ASSUME NEW n \in Good', pc = "check", ctx # "done", entries'[n].result = result
        PROVE  ToSet(hoisted') \subseteq ToSet(entries'[n].result.cups)
    BY <1>3, <2>2 DEF LinesCome
  <2> QED
    BY <2>1, <2>2, EntriesKeep DEF HoistSound
<1>4. CASE hoisted = <<>> /\ hoisted' = result.cups
  <2>1. \A n \in Good : entries[n].result.cups = <<>>
    BY <1>1, <1>4 DEF NoneYet, Undisturbed
  <2>2. ASSUME NEW n \in Good', n \in Good, entries'[n] = entries[n]
        PROVE  entries'[n].result.cups = <<>> /\ EmptyBefore(n)'
    <3>1. ASSUME NEW m \in Good', m < n PROVE entries'[m].result.cups = <<>>
      <4>1. m # Len(entries) + 1
        BY <1>2, <2>2, <3>1
      <4>2. m \in Good /\ entries'[m] = entries[m]
        BY <4>1, EntriesKeep
      <4> QED
        BY <2>1, <4>2
    <3> QED
      BY <2>1, <2>2, <3>1 DEF EmptyBefore
  <2>3. ASSUME NEW n \in Good', entries'[n].result = result
        PROVE  ToSet(hoisted') \subseteq ToSet(entries'[n].result.cups)
    BY <1>4, <2>3
  <2> QED
    BY <2>2, <2>3, EntriesKeep DEF HoistSound
<1> QED
  BY <1>1, <1>3, <1>4, HoistMoves DEF Undisturbed

\* What is hoisted keeps speaking for every entry.
LEMMA NextHoisted == Typed /\ Typed' /\ Recalled /\ Hoisted /\ [Next]_vars => Hoisted'
<1> SUFFICES ASSUME Typed, Typed', Recalled, Hoisted, [Next]_vars PROVE Hoisted'
  OBVIOUS
<1>1. NoneYet'
  BY NextNoneYet DEF Hoisted
<1>2. ASSUME Undisturbed' PROVE (OneForm /\ CupsKnown /\ LinesCome /\ HoistSound)'
  <2>1. OneForm /\ CupsKnown /\ LinesCome /\ HoistSound /\ NoneYet
    BY <1>2, UndisturbedBefore DEF Hoisted
  <2> QED
    BY <1>2, <2>1, NextOneForm, NextCupsKnown, NextLinesCome, NextHoistSound
<1> QED
  BY <1>1, <1>2 DEF Hoisted
-----------------------------------------------------------------------------
(* Alternatives are allowed, and the best of all                           *)

\* The flags of the recommended moveset are true.
LEMMA Flagged ==
    ASSUME Recalls(memo, result, held), result.optimal # None
    PROVE  /\ result.optimal.hasLegacy <=> ToSet(result.optimal.moves) \cap Banned(held.species, "legacy") # {}
           /\ result.optimal.hasElite <=> ToSet(result.optimal.moves) \cap Banned(held.species, "elite") # {}
<1>1. PICK entry : result.optimal = MovesetFrom(held.species, entry)
  BY DEF Recalls, LineOf
<1> DEFINE old == ToSet(entry.moveset) \cap held.species.legacy # {}
           rare == ToSet(entry.moveset) \cap held.species.elite # {}
<1>2. result.optimal = [moves |-> entry.moveset, hasLegacy |-> old, hasElite |-> rare]
  BY <1>1 DEF MovesetFrom
<1> HIDE DEF old, rare
<1>3. result.optimal.moves = entry.moveset /\ result.optimal.hasLegacy = old /\ result.optimal.hasElite = rare
  BY <1>2
<1>4. Banned(held.species, "legacy") = held.species.legacy /\ Banned(held.species, "elite") = held.species.elite
  BY DEF Banned
<1> QED
  BY <1>3, <1>4, Zenon DEF old, rare

\* None is no alternative to a moveset without banned moves.
LEMMA NoneSettles ==
    ASSUME NEW category, NEW optimal, NEW form,
           optimal = None \/ ToSet(optimal.moves) \cap Banned(form.species, category) = {}
    PROVE  Allowed(category, optimal, None, form) /\ Chosen(category, optimal, None, form)
  BY DEF Allowed, Chosen

\* A reason why there is none stands for one.
LEMMA WhySettles ==
    ASSUME NEW category, NEW optimal, NEW form \in Forms, NEW reason \in {"nomoves", "nometa", "unscored"},
           optimal # None, ToSet(optimal.moves) \cap Banned(form.species, category) # {}
    PROVE  /\ Allowed(category, optimal, Why(reason), form)
           /\ reason # "unscored" => Chosen(category, optimal, Why(reason), form)
<1>1. Why(reason) # None /\ Why(reason).why = reason /\ reason # "answered"
  BY WhyTyped, RankAssumption
<1>2. {Why(reason).fast} \cup ToSet(Why(reason).charged) = {None}
  BY WhyTyped DEF ToSet
<1>3. None \notin Banned(form.species, category)
  BY FormMoves DEF Banned
<1> QED
  BY <1>1, <1>2, <1>3 DEF Allowed, Chosen

\* The moves of a build are among those it is chosen from.
LEMMA BuildMoves ==
    ASSUME NEW fasts, NEW chargeds, NEW b \in AllBuilds(fasts, chargeds)
    PROVE  fasts[b[1]] \in ToSet(fasts) /\ ToSet(ChargedOf(chargeds, b)) \subseteq ToSet(chargeds)
<1>1. b[1] \in DOMAIN fasts /\ b[2] \in DOMAIN chargeds /\ b[3] \in DOMAIN chargeds
  BY DEF AllBuilds
<1> DEFINE one == chargeds[b[2]]
           two == chargeds[b[3]]
<1>2. one \in ToSet(chargeds) /\ two \in ToSet(chargeds) /\ fasts[b[1]] \in ToSet(fasts)
  BY <1>1 DEF ToSet
<1>3. ChargedOf(chargeds, b) = IF b[2] = b[3] THEN <<one>> ELSE <<one, two>>
  BY DEF ChargedOf
<1> HIDE DEF one, two
<1>4. ToSet(<<one>>) = {one} /\ ToSet(<<one, two>>) = {one, two}
  BY DEF ToSet
<1> QED
  BY <1>2, <1>3, <1>4

\* So is what the enumeration found; over all builds, it is the best of them.
LEMMA FoundSettles ==
    ASSUME Typed, pc = "scan", ScanSound
    PROVE  /\ Allowed(scan.category, result.optimal, Found, held)
           /\ scan.tried = Len(scan.fasts) => Chosen(scan.category, result.optimal, Found, held)
<1> DEFINE category == scan.category
           optimal == result.optimal
           doc == scan.doc
           fasts == scan.fasts
           chargeds == scan.chargeds
           best == scan.best
           builds == {b \in AllBuilds(fasts, chargeds) : b[1] <= scan.tried}
<1>1. /\ held \in Forms /\ result \in Results /\ scan \in Scans
      /\ fasts \in Seq(Learned) /\ chargeds \in Seq(Learned) /\ best \in Candidates /\ scan.base \in Int
  BY DEF Typed, Scans, Busy
<1>2. /\ optimal # None /\ ToSet(optimal.moves) \cap Banned(held.species, category) # {}
      /\ fasts = Without(held.species.fast, Banned(held.species, category))
      /\ chargeds = Without(held.species.charged, Banned(held.species, category))
      /\ fasts # <<>> /\ chargeds # <<>>
      /\ scan.base = Score(doc, Head(optimal.moves), Tail(optimal.moves))
      /\ Leads(doc, fasts, chargeds, builds, best)
  BY DEF ScanSound
<1>3. ToSet(fasts) \cap Banned(held.species, category) = {}
      /\ ToSet(chargeds) \cap Banned(held.species, category) = {}
  BY <1>1, <1>2, FormMoves
<1>4. builds \subseteq AllBuilds(fasts, chargeds)
  OBVIOUS
<1>5. scan.tried = Len(fasts) => builds = AllBuilds(fasts, chargeds) /\ builds # {}
  <2>1. Len(fasts) \in Nat \ {0} /\ Len(chargeds) \in Nat \ {0}
    BY <1>1, <1>2
  <2>2. \A b \in AllBuilds(fasts, chargeds) : b[1] <= Len(fasts)
    BY <1>1 DEF AllBuilds
  <2>3. <<1, 1, 1>> \in AllBuilds(fasts, chargeds)
    BY <1>1, <2>1 DEF AllBuilds
  <2> QED
    BY <2>2, <2>3
<1> HIDE DEF fasts, chargeds, best, optimal, builds, doc, category
<1>6. CASE best.fast = None
  <2>1. Found = Why("unscored")
    BY <1>6 DEF Found, best
  <2>2. scan.tried # Len(fasts)
    <3>1. ASSUME builds # {} PROVE FALSE
      <4>1. PICK b \in builds : best.fast = fasts[b[1]]
        BY <1>2, <3>1 DEF Leads, FirstBest
      <4>2. fasts[b[1]] \in Learned
        BY <1>1, <1>4 DEF AllBuilds
      <4> QED
        BY <1>6, <4>1, <4>2, RankAssumption
    <3> QED
      BY <1>5, <3>1
  <2> QED
    BY <1>1, <1>2, <2>1, <2>2, WhySettles DEF optimal, category, fasts
<1>7. CASE best.fast # None
  <2>1. Found = [why |-> "answered", fast |-> best.fast, charged |-> best.charged,
                 delta |-> best.score - scan.base, by |-> doc]
    BY <1>7 DEF Found, best, doc
  <2>2. FirstBest(doc, fasts, chargeds, builds, best)
    BY <1>2, <1>7 DEF Leads
  <2>3. PICK b \in builds : best.fast = fasts[b[1]] /\ best.charged = ChargedOf(chargeds, b)
    BY <2>2 DEF FirstBest
  <2>4. best.fast \in ToSet(fasts) /\ ToSet(best.charged) \subseteq ToSet(chargeds)
    BY <1>4, <2>3, BuildMoves
  <2>5. Found # None
    BY FoundTyped, RankAssumption
  <2>6. Allowed(category, optimal, Found, held)
    BY <1>2, <1>3, <2>1, <2>4, <2>5 DEF Allowed
  <2>7. ASSUME scan.tried = Len(fasts) PROVE BestOf(Found, optimal, held.species, category)
    <3> DEFINE choice == [fast |-> Found.fast, charged |-> Found.charged,
                          score |-> Found.delta + Score(doc, Head(optimal.moves), Tail(optimal.moves))]
    <3>1. /\ choice.fast = best.fast /\ choice.charged = best.charged /\ choice.score = best.score
          /\ Found.by = doc
      <4>1. best.score \in Int /\ (best.score - scan.base) + scan.base = best.score
        BY <1>1 DEF Candidates
      <4> QED
        BY <1>2, <2>1, <4>1
    <3> HIDE DEF choice
    <3>2. FirstBest(doc, fasts, chargeds, AllBuilds(fasts, chargeds), choice)
      BY <1>5, <2>2, <2>7, <3>1 DEF FirstBest
    <3> QED
      BY <1>2, <3>1, <3>2 DEF BestOf, choice
  <2>8. Found.why # "unscored"
    BY <2>1
  <2> QED
    BY <2>6, <2>7, <2>8 DEF Chosen, category, optimal, fasts
<1> QED
  BY <1>6, <1>7

\* A category that is concluded remains so.
LEMMA SettledOn ==
    ASSUME Onward, NEW category, Settled(category), held' = held,
           result'.optimal = result.optimal, result'[category] = result[category]
    PROVE  Settled(category)'
  BY DEF Onward, Settled

\* The end of a category: its answer is allowed, and the best unless the context
\* has ended.
LEMMA ConcludeSettles ==
    ASSUME Typed, Onward, NEW category \in Categories, NEW alternative \in Alternatives \cup {None},
           Conclude(category, alternative), UNCHANGED held,
           category = "elite" => Settled("legacy"),
           Allowed(category, result.optimal, alternative, held),
           ctx = "done" \/ Chosen(category, result.optimal, alternative, held)
    PROVE  pc' # "scan" /\ \A other \in Decided' : Settled(other)'
<1> DEFINE new == [result EXCEPT ![category] = alternative]
<1>1. result \in Results /\ result' = new /\ pc' = AfterCategory(category)
  BY DEF Typed, Conclude
<1>2. /\ new[category] = alternative /\ new.optimal = result.optimal
      /\ \A other \in Categories : other # category => new[other] = result[other]
  BY <1>1, ResultWith
<1> HIDE DEF new
<1>3. Settled(category)'
  BY <1>1, <1>2 DEF Settled, Onward
<1>4. CASE category = "legacy"
  <2>1. pc' = "elite" /\ Decided' = {"legacy"}
    BY <1>1, <1>4 DEF AfterCategory, Decided
  <2> QED
    BY <1>3, <1>4, <2>1
<1>5. CASE category = "elite"
  <2>1. pc' = "cups" /\ Decided' = Categories
    BY <1>1, <1>5 DEF AfterCategory, Decided
  <2>2. Settled("legacy")'
    BY <1>1, <1>2, <1>5, SettledOn DEF Categories
  <2> QED
    BY <1>3, <1>5, <2>1, <2>2 DEF Categories
<1> QED
  BY <1>4, <1>5 DEF Categories

\* The step that decides whether a category has an alternative.
LEMMA AlternativeSettles ==
    ASSUME Typed, Recalled, Concluding, Onward, NEW category \in Categories, Alternative(category)
    PROVE  Concluding'
<1> DEFINE optimal  == result.optimal
           flagged  == optimal # None /\ (IF category = "legacy" THEN optimal.hasLegacy ELSE optimal.hasElite)
           banned   == Banned(held.species, category)
           fasts    == Without(held.species.fast, banned)
           chargeds == Without(held.species.charged, banned)
<1>1. pc = category /\ held \in Forms /\ UNCHANGED held /\ Recalls(memo, result, held)
  BY DEF Alternative, Typed, Busy, Recalled, Categories
<1>2. flagged <=> optimal # None /\ ToSet(optimal.moves) \cap banned # {}
  BY <1>1, Flagged DEF Categories
<1>3. category = "elite" => Settled("legacy")
  BY <1>1 DEF Concluding, Decided
<1>4. CASE ~flagged /\ Conclude(category, None)
  <2>1. Allowed(category, optimal, None, held) /\ Chosen(category, optimal, None, held)
    BY <1>2, <1>4, NoneSettles
  <2> QED
    BY <1>1, <1>3, <1>4, <2>1, ConcludeSettles DEF Concluding
<1>5. ASSUME flagged, NEW reason \in {"nomoves", "nometa"}, Conclude(category, Why(reason))
      PROVE  pc' # "scan" /\ \A other \in Decided' : Settled(other)'
  <2>1. /\ Allowed(category, optimal, Why(reason), held) /\ Chosen(category, optimal, Why(reason), held)
        /\ Why(reason) \in Alternatives
    BY <1>1, <1>2, <1>5, WhySettles, WhyTyped
  <2> QED
    BY <1>1, <1>3, <1>5, <2>1, ConcludeSettles
<1>6. ASSUME flagged, fasts # <<>>, chargeds # <<>>,
             scan' = [category |-> category, doc |-> current,
                      fasts |-> fasts, chargeds |-> chargeds, tried |-> 0,
                      base |-> Score(current, Head(optimal.moves), Tail(optimal.moves)),
                      best |-> [fast |-> None, charged |-> <<>>, score |-> 0]],
             pc' = "scan", UNCHANGED result
      PROVE  ScanSound' /\ Decided' = {}
  <2> DEFINE base == Score(current, Head(optimal.moves), Tail(optimal.moves))
             best == [fast |-> None, charged |-> <<>>, score |-> 0]
  <2>1. fasts \in Seq(Learned)
    BY <1>1, FormMoves
  <2> HIDE DEF base, best, fasts, chargeds, flagged
  <2>2. {b \in AllBuilds(fasts, chargeds) : b[1] <= 0} = {}
    <3>1. \A i \in 1..Len(fasts) : ~(i <= 0)
      BY <2>1
    <3> QED
      BY <2>1, <3>1 DEF AllBuilds
  <2>3. 0 \in 0 .. Len(fasts)
    BY <2>1
  <2>4. best.fast = None
    BY DEF best
  <2>5. category = "elite" => Settled("legacy")'
    BY <1>1, <1>3, <1>6, SettledOn
  <2>6. Decided' = {}
    BY <1>6 DEF Decided
  <2>7. Leads(current, fasts, chargeds, {b \in AllBuilds(fasts, chargeds) : b[1] <= 0}, best)
    BY <2>2, <2>4 DEF Leads
  <2>8. /\ scan'.category = category /\ scan'.doc = current /\ scan'.fasts = fasts
        /\ scan'.chargeds = chargeds /\ scan'.tried = 0 /\ scan'.base = base /\ scan'.best = best
    BY <1>6 DEF base, best
  <2>9. /\ held' = held /\ result'.optimal = optimal
        /\ optimal # None /\ ToSet(optimal.moves) \cap banned # {}
    BY <1>1, <1>2, <1>6
  <2>10. base = Score(current, Head(optimal.moves), Tail(optimal.moves))
    BY DEF base
  <2>11. fasts = Without(held.species.fast, banned) /\ chargeds = Without(held.species.charged, banned)
    BY DEF fasts, chargeds
  <2> HIDE DEF optimal
  <2> QED
    BY <1>6, <2>3, <2>5, <2>6, <2>7, <2>8, <2>9, <2>10, <2>11 DEF ScanSound
<1> QED
  BY <1>4, <1>5, <1>6 DEF Alternative, Concluding

\* A step of the enumeration takes in the builds of one more fast move.
LEMMA ScanSettles ==
    ASSUME Typed, Concluding, Onward, Scan
    PROVE  Concluding'
<1>1. /\ pc = "scan" /\ ScanSound /\ scan \in Scans /\ scan.category \in Categories
      /\ UNCHANGED held
  BY DEF Scan, Concluding, Typed, Scans
<1>2. CASE /\ scan.tried < Len(scan.fasts)
           /\ scan' = [scan EXCEPT
                 !.tried = @ + 1,
                 !.best = bestPerFast(scan.doc, @, scan.fasts[scan.tried + 1], scan.chargeds)]
           /\ UNCHANGED <<pc, result>>
  <2> DEFINE best == bestPerFast(scan.doc, scan.best, scan.fasts[scan.tried + 1], scan.chargeds)
             tried == scan.tried + 1
  <2>1. /\ tried \in 0 .. Len(scan.fasts)
        /\ Leads(scan.doc, scan.fasts, scan.chargeds,
                 {b \in AllBuilds(scan.fasts, scan.chargeds) : b[1] <= tried}, best)
    BY <1>1, <1>2, ScanGoes
  <2>2. scan' = [scan EXCEPT !.tried = tried, !.best = best]
    BY <1>2
  <2> HIDE DEF best, tried
  <2>3. /\ scan'.category = scan.category /\ scan'.doc = scan.doc /\ scan'.fasts = scan.fasts
        /\ scan'.chargeds = scan.chargeds /\ scan'.base = scan.base
        /\ scan'.tried = tried /\ scan'.best = best
    BY <1>1, <2>2 DEF Scans
  <2>4. scan.category = "elite" => Settled("legacy")'
    BY <1>1, <1>2, SettledOn DEF ScanSound
  <2>5. Decided' = {} /\ UNCHANGED <<result, held>>
    BY <1>1, <1>2 DEF Decided
  <2> QED
    BY <1>1, <2>1, <2>3, <2>4, <2>5 DEF ScanSound, Concluding
<1>3. CASE (ctx = "done" \/ scan.tried = Len(scan.fasts)) /\ Conclude(scan.category, Found)
  <2>1. Found \in Alternatives
    BY <1>1, FoundTyped
  <2>2. /\ Allowed(scan.category, result.optimal, Found, held)
        /\ ctx = "done" \/ Chosen(scan.category, result.optimal, Found, held)
    BY <1>1, <1>3, FoundSettles
  <2>3. scan.category = "elite" => Settled("legacy")
    BY <1>1 DEF ScanSound
  <2> QED
    BY <1>1, <1>3, <2>1, <2>2, <2>3, ConcludeSettles DEF Concluding
<1> QED
  BY <1>2, <1>3 DEF Scan, Found, Concluding

\* The cups leave the alternatives alone.
LEMMA CupLeaves ==
    ASSUME Typed, Cup
    PROVE  /\ pc = "cup" /\ pc' \in {"cup", "check"} /\ held' = held
           /\ result'.optimal = result.optimal
           /\ \A category \in Categories : result'[category] = result[category]
<1>1. CASE UNCHANGED result
  BY <1>1 DEF Cup
<1>2. ASSUME NEW cups, result' = [result EXCEPT !.cups = cups]
      PROVE  /\ result'.optimal = result.optimal
             /\ \A category \in Categories : result'[category] = result[category]
  <2>1. result \in Results
    BY DEF Typed
  <2> QED
    BY <1>2, <2>1 DEF Results, Categories
<1> QED
  BY <1>1, <1>2 DEF Cup

\* No step breaks what is concluded.
LEMMA NextConcluding ==
    ASSUME Typed, Recalled, Concluding, Onward, [Next]_vars PROVE Concluding'
<1>1. CASE UNCHANGED rankVars
  <2>1. pc' = "scan" => ScanSound'
    <3>1. UNCHANGED <<pc, scan, result, held>>
      BY <1>1 DEF rankVars
    <3>2. Settled("legacy") => Settled("legacy")'
      BY <3>1, SettledOn
    <3> QED
      BY <3>1, <3>2 DEF Concluding, ScanSound
  <2>2. \A category \in Decided : Settled(category)'
    BY <1>1, SettledOn DEF Concluding, rankVars
  <2>3. Decided' = Decided
    BY <1>1 DEF Decided, rankVars
  <2> QED
    BY <2>1, <2>2, <2>3 DEF Concluding
<1>2. ASSUME pc' \in {"next", "stop", "enter", "optimal", "legacy"} PROVE Concluding'
  BY <1>2 DEF Decided, Concluding
<1>3. CASE Validate \/ NextEntry \/ Optimal \/ Check
  BY <1>2, <1>3 DEF Validate, NextEntry, Optimal, Check, Fail, Succeed
<1>4. CASE Enter
  BY <1>2, <1>4 DEF Enter, Fail
<1>5. ASSUME NEW category \in {"legacy", "elite"}, Alternative(category) PROVE Concluding'
  BY <1>5, AlternativeSettles DEF Categories
<1>6. CASE Scan
  BY <1>6, ScanSettles
<1>7. ASSUME pc \in {"cups", "cup"}, pc' \in {"cup", "check"}, held' = held,
             result'.optimal = result.optimal,
             \A category \in Categories : result'[category] = result[category]
      PROVE  Concluding'
  <2>1. Decided = Categories /\ Decided' = Categories
    BY <1>7 DEF Decided
  <2>2. \A category \in Categories : Settled(category)'
    BY <1>7, <2>1, SettledOn DEF Concluding
  <2> QED
    BY <1>7, <2>1, <2>2 DEF Concluding
<1>8. CASE Cups
  BY <1>7, <1>8 DEF Cups
<1>9. CASE Cup
  BY <1>7, <1>9, CupLeaves
<1>10. CASE UNCHANGED vars \/ Around
  BY <1>1, <1>10 DEF vars, Around
<1> QED
  BY <1>3, <1>4, <1>5, <1>6, <1>8, <1>9, <1>10 DEF Next

\* Every step keeps the alternatives allowed, and the best.
LEMMA NextAlternated == Typed /\ Recalled /\ Alternated /\ [Next]_vars => Alternated'
<1> SUFFICES ASSUME Typed, Recalled, Alternated, [Next]_vars PROVE Alternated'
  OBVIOUS
<1>1. Concluding'
  BY StepsOnward, NextConcluding DEF Alternated
<1>2. ASSUME NEW n \in Good', NEW category \in Categories
      PROVE  LET r == entries'[n].result
             IN  /\ Allowed(category, r.optimal, r[category], entries'[n].held)
                 /\ Chosen(category, r.optimal, r[category], entries'[n].held)
  <2>1. CASE n \in Good /\ entries'[n] = entries[n]
    BY <2>1 DEF Alternated
  <2>2. CASE pc = "check" /\ ctx # "done" /\ entries'[n].result = result /\ entries'[n].held = held
    <3>1. Settled(category)
      BY <2>2 DEF Alternated, Concluding, Decided
    <3> QED
      BY <2>2, <3>1 DEF Settled
  <2> QED
    BY <2>1, <2>2, EntriesKeep
<1> QED
  BY <1>1, <1>2 DEF Alternated

-----------------------------------------------------------------------------
(* An entry fails for its own sake                                         *)

\* An entry that is under way fits, from its beginning to its end.
LEMMA FitKept ==
    ASSUME Typed, [Next]_vars, pc' \in Busy
    PROVE  k' = k /\ (pc \in Busy \/ Fits(k))
<1>1. CASE UNCHANGED vars \/ Around
  BY <1>1 DEF vars, rankVars, Around
<1>2. CASE Validate \/ NextEntry
  BY <1>2 DEF Validate, NextEntry, Busy
<1>3. CASE Enter
  <2>1. CASE Fail
    BY <1>3, <2>1 DEF Fail, Busy
  <2>2. CASE ~Fail
    BY <1>3, <2>2 DEF Enter, Fits
  <2> QED
    BY <2>1, <2>2
<1>4. CASE Optimal \/ Scan \/ Cups \/ Cup
  BY <1>4 DEF Optimal, Scan, Cups, Cup, Busy
<1>5. CASE \E category \in {"legacy", "elite"} : Alternative(category)
  BY <1>5 DEF Alternative, Busy
<1>6. CASE Check
  BY <1>6 DEF Check, Fail, Succeed, Busy
<1> QED
  BY <1>1, <1>2, <1>3, <1>4, <1>5, <1>6 DEF Next

\* The entries of a batch are counted, its species stays known and its cap resolved,
\* and the entry that is under way fits.
LEMMA NextCounted == Typed /\ Counted /\ [Next]_vars => Counted'
<1> SUFFICES ASSUME Typed, Counted, [Next]_vars, call.batch PROVE Counted'
  BY StepsOnward DEF Counted, Onward
<1>1. Onward /\ Len(entries) = k - 1 /\ k \in Nat
  BY StepsOnward DEF Counted, Typed
<1>2. Len(entries') = k' - 1
  <2>1. CASE UNCHANGED <<entries, hoisted>>
    <3>1. k' = k
      <4>1. CASE UNCHANGED vars \/ Around
        BY <4>1 DEF vars, rankVars, Around
      <4>2. ASSUME NEW r, entries' = Append(entries, r) PROVE FALSE
        BY <2>1, <4>2 DEF Typed
      <4>3. CASE Validate \/ NextEntry \/ Optimal \/ Scan \/ Cups \/ Cup
        BY <4>3 DEF Validate, NextEntry, Optimal, Scan, Cups, Cup
      <4>4. CASE Enter \/ Check
        BY <4>2, <4>4 DEF Enter, Check, Fail, Succeed
      <4>5. CASE \E category \in {"legacy", "elite"} : Alternative(category)
        BY <4>5 DEF Alternative
      <4> QED
        BY <4>1, <4>3, <4>4, <4>5 DEF Next
    <3> QED
      BY <1>1, <2>1, <3>1
  <2>2. CASE Fail /\ Adds(FALSE, NoResult, None)
    <3>1. Len(entries') = Len(entries) + 1
      BY <2>2, AddsOne
    <3>2. k' = k + 1
      BY <2>2 DEF Fail
    <3> QED
      BY <1>1, <3>1, <3>2
  <2>3. CASE Succeed /\ Adds(TRUE, result, held)
    <3>1. Len(entries') = Len(entries) + 1
      BY <2>3, AddsOne
    <3>2. k' = k + 1
      BY <2>3 DEF Succeed
    <3> QED
      BY <1>1, <3>1, <3>2
  <2> QED
    BY <2>1, <2>2, <2>3, EntriesMove
<1>3. ASSUME refreshed' = "no", pc' \notin {"validate", "stop"}
      PROVE  Lookup(current', call'.species, call'.shadow).ok /\ call'.cap # None
  <2>1. refreshed = "no" /\ current' = current /\ call' = call
    BY <1>1, <1>3 DEF Onward
  <2>2. CASE pc \notin {"validate", "stop"}
    BY <2>1, <2>2 DEF Counted
  <2>3. CASE Validate
    BY <1>3, <2>1, <2>3 DEF Validate
  <2>4. pc \in {"validate", "stop"} => Validate \/ pc' = pc
    BY DEF Next, vars, rankVars, NextEntry, Enter, Optimal, Alternative, Scan, Cups, Cup, Check, Around
  <2> QED
    BY <1>3, <2>1, <2>2, <2>3, <2>4
<1>4. ASSUME refreshed' = "no", pc' \in Busy PROVE Fits(k)'
  <2>1. refreshed = "no" /\ current' = current /\ call' = call
    BY <1>1, <1>4 DEF Onward
  <2>2. CASE pc \in Busy /\ k' = k
    <3>1. Fits(k)
      BY <2>1, <2>2 DEF Counted
    <3> QED
      BY <2>1, <2>2, <3>1 DEF Fits, Rankable
  <2>3. CASE Fits(k) /\ k' = k
    BY <2>1, <2>3 DEF Fits, Rankable
  <2> QED
    BY <1>4, <2>2, <2>3, FitKept
<1> QED
  BY <1>2, <1>3, <1>4 DEF Counted

\* An old entry is what it was, and what is said of it still holds.
LEMMA OldFailures ==
    ASSUME Typed, BatchFailures, Onward, call.batch, refreshed' = "no",
           NEW n \in DOMAIN entries, entries'[n] = entries[n]
    PROVE  /\ Lookup(current, call.species, call.shadow).ok /\ call.cap # None
           /\ entries'[n].ok => Fits(n)
           /\ ~entries'[n].ok => ~Fits(n) \/ ctx' = "done"
<1>1. refreshed = "no" /\ (ctx = "done" => ctx' = "done")
  BY DEF Onward
<1> QED
  BY <1>1 DEF BatchFailures, Fits

\* An entry fails for its own IVs or the end of the context, and succeeds with IVs that fit.
LEMMA NextBatchFailures == Typed /\ Counted /\ BatchFailures /\ [Next]_vars => BatchFailures'
<1> SUFFICES ASSUME Typed, Counted, BatchFailures, [Next]_vars PROVE BatchFailures'
  OBVIOUS
<1>1. Onward
  BY StepsOnward
<1>2. ASSUME call.batch, refreshed' = "no", NEW n \in DOMAIN entries'
      PROVE  /\ Lookup(current, call.species, call.shadow).ok /\ call.cap # None
             /\ entries'[n].ok => Fits(n)
             /\ ~entries'[n].ok => ~Fits(n) \/ ctx' = "done"
  <2>1. refreshed = "no" /\ (ctx = "done" => ctx' = "done")
    BY <1>1, <1>2 DEF Onward
  <2>2. CASE n \in DOMAIN entries /\ entries'[n] = entries[n]
    BY <1>1, <1>2, <2>2, OldFailures
  <2>3. Len(entries) + 1 = k
    BY <1>2 DEF Counted, Typed
  <2>4. pc \in {"enter", "check"} => Lookup(current, call.species, call.shadow).ok /\ call.cap # None
    BY <1>2, <2>1 DEF Counted
  <2>5. CASE Fail /\ Adds(FALSE, NoResult, None)
             /\ \/ pc \in {"enter", "check"} /\ ctx = "done"
                \/ pc = "enter" /\ ~Lookup(current, call.species, call.shadow).ok
                \/ pc = "enter" /\ call.cap = None
                \/ pc = "enter" /\ ~Fits(k)
    <3>1. (n \in DOMAIN entries /\ entries'[n] = entries[n]) \/ (n = k /\ entries'[n].ok = FALSE)
      BY <1>2, <2>3, <2>5, OldOrAdded
    <3>2. pc \in {"enter", "check"} /\ (~Fits(k) \/ ctx = "done")
      BY <2>4, <2>5
    <3> QED
      BY <2>1, <2>2, <2>4, <3>1, <3>2
  <2>6. CASE Adds(TRUE, result, held) /\ pc = "check"
    <3>1. (n \in DOMAIN entries /\ entries'[n] = entries[n]) \/ (n = k /\ entries'[n].ok = TRUE)
      BY <1>2, <2>3, <2>6, OldOrAdded
    <3>2. Fits(k)
      BY <1>2, <2>1, <2>6 DEF Counted, Busy
    <3> QED
      BY <2>2, <2>4, <2>6, <3>1, <3>2
  <2> QED
    BY <1>2, <2>2, <2>5, <2>6, EntriesMove
<1>3. ASSUME call.batch, refreshed' = "no" PROVE current' = current /\ call' = call
  BY <1>1, <1>3 DEF Onward
<1>4. call' = call
  BY <1>1 DEF Onward
<1>5. ASSUME call.batch, refreshed' = "no", NEW n \in DOMAIN entries'
      PROVE  /\ Lookup(current, call.species, call.shadow)'.ok /\ call'.cap # None
             /\ entries'[n].ok => Fits(n)'
             /\ ~entries'[n].ok => ~Fits(n)' \/ ctx' = "done"
  BY <1>2, <1>3, <1>5 DEF Fits, Rankable
<1> QED
  BY <1>4, <1>5 DEF BatchFailures, Fits

-----------------------------------------------------------------------------
(* The theorems                                                            *)

\* The inductive invariant.
LEMMA InitIInv == Init => IInv
<1> SUFFICES ASSUME Init PROVE IInv
  OBVIOUS
<1>1. Typed
  BY InitTyped
<1>2. pc = "validate" /\ entries = <<>> /\ hoisted = <<>> /\ k = 1 /\ held = None /\ result = NoResult
  BY DEF Init
<1>3. Good = {} /\ DOMAIN entries = {} /\ Len(entries) = 0
  BY <1>2 DEF Good
<1>4. result.cups = <<>> /\ result.optimal = None /\ ToSet(result.cups) = {} /\ ToSet(hoisted) = {}
  <2>1. result.cups = <<>> /\ result.optimal = None
    BY <1>2, NothingYet
  <2> QED
    BY <1>2, <2>1 DEF ToSet
<1>5. Recalled
  BY <1>3, <1>4 DEF Recalled, Recalls
<1>6. OpenListed
  BY <1>2, <1>3 DEF OpenListed
<1>7. Hoisted
  <2>1. NoneYet /\ OneForm /\ HoistSound
    BY <1>2, <1>3 DEF NoneYet, OneForm, HoistSound, Busy
  <2>2. CupsKnown /\ LinesCome
    BY <1>2, <1>4 DEF CupsKnown, LinesCome
  <2> QED
    BY <2>1, <2>2 DEF Hoisted
<1>8. Alternated
  BY <1>2, <1>3 DEF Alternated, Concluding, Decided
<1>9. Counted /\ BatchFailures
  BY <1>2, <1>3 DEF Counted, BatchFailures, Busy
<1> QED
  BY <1>1, <1>5, <1>6, <1>7, <1>8, <1>9 DEF IInv

\* It holds in every state of the calls, and every step preserves it: what a
\* result says of rankings stays what the manager remembers, what is still to be
\* looked up completes it, and the enumeration is ahead of no build.
THEOREM Inductive == Spec => []IInv
<1>1. IInv /\ [Next]_vars => IInv'
  <2> SUFFICES ASSUME IInv, [Next]_vars PROVE IInv'
    OBVIOUS
  <2>1. Typed /\ Recalled /\ OpenListed /\ Hoisted /\ Alternated /\ Counted /\ BatchFailures
    BY DEF IInv
  <2>2. Typed'
    BY <2>1, NextTyped
  <2>3. Recalled'
    BY <2>1, NextRecalled
  <2>4. OpenListed'
    BY <2>1, NextOpenListed
  <2>5. Hoisted'
    BY <2>1, <2>2, NextHoisted
  <2>6. Alternated'
    BY <2>1, NextAlternated
  <2>7. Counted' /\ BatchFailures'
    BY <2>1, NextCounted, NextBatchFailures
  <2> QED
    BY <2>2, <2>3, <2>4, <2>5, <2>6, <2>7 DEF IInv
<1> QED
  BY InitIInv, <1>1, PTL DEF Spec

\* An alternative without the restricted moves is given exactly to a recommended
\* moveset that has one, has none itself, and was chosen over every build by the
\* document it was scored with: rank.go, nonRestrictedAlternative.  The partial
\* best of an enumeration that the end of the context cut short is never
\* published.
THEOREM AlternativesSoundHolds == Spec => []AlternativesSound
<1>1. IInv => AlternativesSound
  <2> SUFFICES ASSUME IInv PROVE AlternativesSound
    OBVIOUS
  <2>1. Alternated
    BY DEF IInv
  <2>2. CompleteAlternative
    BY <2>1 DEF Alternated, Chosen, CompleteAlternative, Categories
  <2>3. UnrestrictedAlternative
    BY <2>1 DEF Alternated, Allowed, UnrestrictedAlternative, Categories
  <2> QED
    BY <2>2, <2>3 DEF AlternativesSound
<1> QED
  BY Inductive, <1>1, PTL

\* The recommended moveset and the open league's line in the list of cups, which
\* are asked for apart, tell the same, and the cups that a batch hoists from one
\* entry are in the lists of every other unless a refresh came between: rank.go,
\* lookupMoveset and buildRankingsByCup; rank_batch.go, the hoist.
THEOREM CupsAgreeHolds == Spec => []CupsAgree
<1>1. IInv => CupsAgree
  <2> SUFFICES ASSUME IInv PROVE CupsAgree
    OBVIOUS
  <2>1. Recalled /\ OpenListed /\ Hoisted
    BY DEF IInv
  <2>2. ASSUME NEW n \in Good
        PROVE  LET r == entries[n].result
               IN  /\ r.optimal # None /\ (call.batch \/ call.cup \in {None, openLeagueCupID}) =>
                         \E line \in ToSet(r.cups) : line.cup = openLeagueCupID
                   /\ \A line \in ToSet(r.cups) :
                         line.cup = openLeagueCupID /\ r.optimal # None => line.moveset = r.optimal
    <3>1. Wanted(entries[n].result) => HasOpen(entries[n].result)
      BY <2>1 DEF OpenListed
    <3>2. Recalls(memo, entries[n].result, entries[n].held)
      BY <2>1 DEF Recalled
    <3> QED
      BY <3>1, <3>2 DEF Wanted, HasOpen, Recalls
  <2>3. OpenCupAgrees
    BY <2>2 DEF OpenCupAgrees
  <2>4. HoistSound
    BY <2>1 DEF Hoisted, Undisturbed, HoistSound
  <2> QED
    BY <2>3, <2>4 DEF CupsAgree
<1> QED
  BY Inductive, <1>1, PTL

\* Absent a refresh, no entry of a batch meets an unknown species or a cap that does
\* not resolve, and which entries fail is a matter of their own IVs, the cap they are
\* to get under and the end of the context: rank_batch.go, validateBatch and the
\* loop; rank.go, buildRankResult.
THEOREM BatchFailuresHolds == Spec => []BatchFailures
<1>1. IInv => BatchFailures
  BY DEF IInv
<1> QED
  BY Inductive, <1>1, PTL
===============================================================================
