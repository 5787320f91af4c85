----------------------- MODULE TeamBuilderSweepProofs -----------------------
(***************************************************************************)
(* For every pool, meta, number of processors and engine: the walk never   *)
(* indexes a nil row, and never reads the matrix while a goroutine writes. *)
(*                                                                         *)
(* The inductive invariant says which rows exist (Made): a row's goroutine *)
(* was started exactly when the loop has passed it, and its row was made   *)
(* by then; once the loop is over and the context is not done, it has      *)
(* passed every row.  Since a context that is done stays done, an anchor   *)
(* is only ever taken when all rows were made.                             *)
(*                                                                         *)
(* And what an uncancelled search answers is what the whole matrix gives:  *)
(* Searched says that its teams, and its champions, are at every row those *)
(* that the triples passed so far give.  Teams are ordered by their means, *)
(* compared crosswise, and then by their rows (BeatsOrders), so that one   *)
(* leads, and a champion of the rows before need only be compared with the *)
(* first of the best of one row more (ChampionLeads).                      *)
(***************************************************************************)
EXTENDS TeamBuilderSweep, FiniteSetTheorems, WellFoundedInduction, TLAPS

Phase == {"spawn", "acquire", "wait", "walk", "check", "done", "cancelled", "panic"}

Filling == {"spawn", "acquire", "wait"}

\* The types the proofs need.
Types ==
    /\ sim \in [Rows -> Row]
    /\ ctx \in {"live", "cancelled"}
    /\ main \in Phase
    /\ next \in Nat \ {0}
    /\ entries \in [Rows -> Row \cup {None}]
    /\ worker \in [Rows -> {"none", "fill", "release", "finish", "done"}]
    /\ opp \in [Rows -> Nat \ {0}]
    /\ sem \in SUBSET Rows

\* Which rows exist, by the position of the loop.
Made ==
    /\ \A r \in Rows : worker[r] # "none" => entries[r] # None
    /\ main = "acquire" => next \in Rows /\ entries[next] # None
    /\ main \in {"spawn", "acquire"} =>
          \A r \in Rows : worker[r] # "none" <=> r < next
    /\ main \notin {"spawn", "acquire"} /\ ctx = "live" =>
          \A r \in Rows : worker[r] # "none"

\* A slot of the semaphore is held by a goroutine that has not released it.
Slots == \A r \in sem : worker[r] \in {"fill", "release"}

\* Goroutines end before the matrix is read.
Ended == main \notin Filling => \A r \in Rows : worker[r] \in {"none", "done"}

Inv == Types /\ Made /\ Slots /\ Ended /\ NoNilRow

\* What a goroutine has written agrees with the engine.
WrittenBy(r) ==
    /\ \A o \in Opps : o < opp[r] => entries[r][o] = sim[r][o]
    /\ worker[r] \in {"release", "finish", "done"} /\ ctx = "live" => opp[r] > MetaSize

Written ==
    \A r \in Rows : IF worker[r] = "none" THEN opp[r] = 1 ELSE WrittenBy(r)
-----------------------------------------------------------------------------
LEMMA ZeroRowType == ZeroRow \in Row
  BY DEF ZeroRow, Row

LEMMA InitInv == Init => Inv
  <1> SUFFICES ASSUME Init PROVE Inv
    OBVIOUS
  <1>1. Types
    <2>1. sim \in [Rows -> Row]
      BY SimsAssumption DEF Init
    <2>2. /\ entries \in [Rows -> Row \cup {None}]
          /\ worker \in [Rows -> {"none", "fill", "release", "finish", "done"}]
          /\ opp \in [Rows -> Nat \ {0}]
      BY DEF Init
    <2>3. ctx \in {"live", "cancelled"} /\ main \in Phase /\ next \in Nat \ {0} /\ sem \in SUBSET Rows
      BY DEF Init, Phase
    <2> QED
      BY <2>1, <2>2, <2>3 DEF Types
  <1>2. Made
    BY SizesAssumption DEF Init, Made, Rows
  <1>3. Slots /\ Ended /\ NoNilRow
    BY DEF Init, Slots, Ended, NoNilRow, Filling
  <1> QED
    BY <1>1, <1>2, <1>3 DEF Inv

\* An anchor is taken only when every row was made, so no row it reads is nil.
LEMMA WalkIsSafe ==
  ASSUME Inv, Walk
  PROVE  ~ReadsNil(next)
  <1>1. \A r \in Rows : entries[r] # None
    BY DEF Inv, Made, Walk
  <1>2. ASSUME NEW t \in TriplesAt(next) PROVE t[2] \in Rows /\ t[3] \in Rows
    BY DEF TriplesAt
  <1> QED
    BY <1>1, <1>2 DEF ReadsNil

LEMMA NextInv == Inv /\ [Next]_vars => Inv'
  <1> SUFFICES ASSUME Inv, [Next]_vars PROVE Inv'
    OBVIOUS
  <1> USE SizesAssumption DEF Inv
  <1>1. CASE Spawn
    <2>1. next \in Rows
      BY <1>1 DEF Spawn, Types, Rows
    <2>2. entries' \in [Rows -> Row \cup {None}]
      BY <1>1, ZeroRowType DEF Spawn, Types
    <2>3. Types'
      BY <1>1, <2>2 DEF Spawn, Types, Phase, inputVars
    <2>4. \A r \in Rows : entries'[r] = IF r = next THEN ZeroRow ELSE entries[r]
      BY <1>1 DEF Spawn, Types
    <2>5. Made'
      BY <1>1, <2>1, <2>4, ZeroRowType, NilAssumption DEF Spawn, Made
    <2>6. (Slots /\ Ended /\ NoNilRow)'
      BY <1>1 DEF Spawn, Slots, Ended, NoNilRow, Filling
    <2> QED
      BY <2>3, <2>5, <2>6
  <1>2. CASE SpawnEnds
    <2>1. Types'
      BY <1>2 DEF SpawnEnds, Types, Phase, inputVars, matrixVars
    <2>2. Made'
      BY <1>2 DEF SpawnEnds, Made, Types, matrixVars, Rows
    <2>3. (Slots /\ Ended /\ NoNilRow)'
      BY <1>2 DEF SpawnEnds, Slots, Ended, NoNilRow, Filling, matrixVars
    <2> QED
      BY <2>1, <2>2, <2>3
  <1>3. CASE Acquire
    <2>1. next \in Rows /\ main = "acquire"
      BY <1>3 DEF Acquire, Made
    <2>2. Types'
      BY <1>3, <2>1 DEF Acquire, Types, Phase, inputVars
    <2>3. \A r \in Rows : worker'[r] = IF r = next THEN "fill" ELSE worker[r]
      BY <1>3 DEF Acquire, Types
    <2>4. Made'
      <3>1. \A r \in Rows : worker'[r] # "none" => entries'[r] # None
        BY <1>3, <2>3 DEF Acquire, Made
      <3>2. \A r \in Rows : worker'[r] # "none" <=> r < next'
        BY <1>3, <2>3 DEF Acquire, Made, Types, Rows
      <3> QED
        BY <1>3, <3>1, <3>2 DEF Acquire, Made
    <2>5. Slots'
      BY <1>3, <2>1, <2>3 DEF Acquire, Slots, Types
    <2>6. (Ended /\ NoNilRow)'
      BY <1>3 DEF Acquire, Ended, NoNilRow, Filling
    <2> QED
      BY <2>2, <2>4, <2>5, <2>6
  <1>4. CASE Wait
    <2>1. Types'
      BY <1>4 DEF Wait, Types, Phase, inputVars, matrixVars
    <2>2. (Made /\ Slots /\ Ended /\ NoNilRow)'
      BY <1>4 DEF Wait, Made, Slots, Ended, NoNilRow, Filling, matrixVars
    <2> QED
      BY <2>1, <2>2
  <1>5. CASE Walk
    <2>1. main' = "walk" /\ next' = next + 1 /\ main = "walk"
      BY <1>5, WalkIsSafe DEF Walk, WalkAnchor
    <2>2. UNCHANGED <<inputVars, ctx, matrixVars>>
      BY <1>5 DEF Walk
    <2>3. Types'
      BY <2>1, <2>2 DEF Types, Phase, inputVars, matrixVars
    <2>4. (Made /\ Slots /\ Ended /\ NoNilRow)'
      BY <2>1, <2>2 DEF Made, Slots, Ended, NoNilRow, Filling, matrixVars
    <2> QED
      BY <2>3, <2>4
  <1>6. CASE WalkEnds \/ Return
    <2>1. Types'
      BY <1>6 DEF WalkEnds, Return, Types, Phase, inputVars, matrixVars
    <2>2. (Made /\ Slots /\ Ended /\ NoNilRow)'
      BY <1>6 DEF WalkEnds, Return, Made, Slots, Ended, NoNilRow, Filling, matrixVars
    <2> QED
      BY <2>1, <2>2
  <1>7. ASSUME NEW r \in Rows, Fill(r) PROVE Inv'
    <2>1. sim[r][opp[r]] \in [Scenarios -> Ratings \cup {Failed}] /\ entries[r] \in Row
      BY <1>7 DEF Fill, Types, Made, Opps, Row
    <2>2. entries' \in [Rows -> Row \cup {None}]
      BY <1>7, <2>1 DEF Fill, Types, Row
    <2>3. Types'
      BY <1>7, <2>2 DEF Fill, Types, inputVars
    <2>4. \A q \in Rows : entries[q] # None => entries'[q] # None
      <3>1. entries'[r] = [entries[r] EXCEPT ![opp[r]] = sim[r][opp[r]]]
        BY <1>7 DEF Fill, Types
      <3>2. entries'[r] # None
        BY <2>1, <3>1, NilAssumption DEF Row
      <3> QED
        BY <1>7, <3>2 DEF Fill, Types
    <2>5. (Made /\ Slots /\ Ended /\ NoNilRow)'
      BY <1>7, <2>4 DEF Fill, Made, Slots, Ended, NoNilRow
    <2> QED
      BY <2>3, <2>5
  <1>8. ASSUME NEW r \in Rows, AddFails(r) \/ Release(r) \/ Done(r) PROVE Inv'
    <2>1. Types'
      BY <1>8 DEF AddFails, Release, Done, Types, inputVars
    <2>2. /\ worker[r] # "none" /\ worker'[r] # "none"
          /\ \A q \in Rows : q = r \/ worker'[q] = worker[q]
      BY <1>8 DEF AddFails, Release, Done, Types
    <2>3. (Made /\ NoNilRow)'
      <3>1. /\ main' = main /\ next' = next
            /\ entries' = entries /\ ctx' = ctx
        BY <1>8 DEF AddFails, Release, Done
      <3>2. \A q \in Rows : worker'[q] # "none" => entries'[q] # None
        BY <2>2, <3>1 DEF Made
      <3>3. main' = "acquire" => next' \in Rows /\ entries'[next'] # None
        BY <3>1 DEF Made
      <3>4. main' \in {"spawn", "acquire"} =>
              \A q \in Rows : worker'[q] # "none" <=> q < next'
        BY <2>2, <3>1 DEF Made
      <3>5. main' \notin {"spawn", "acquire"} /\ ctx' = "live" =>
              \A q \in Rows : worker'[q] # "none"
        BY <2>2, <3>1 DEF Made
      <3> QED
        BY <3>1, <3>2, <3>3, <3>4, <3>5 DEF Made, NoNilRow
    <2>4. Slots'
      BY <1>8 DEF AddFails, Release, Done, Slots, Types
    <2>5. Ended'
      BY <1>8, <2>2 DEF AddFails, Release, Done, Ended, Types
    <2> QED
      BY <2>1, <2>3, <2>4, <2>5
  <1>9. CASE Cancel
    <2>1. Types'
      BY <1>9 DEF Cancel, Types, inputVars, matrixVars
    <2>2. (Made /\ Slots /\ Ended /\ NoNilRow)'
      BY <1>9 DEF Cancel, Made, Slots, Ended, NoNilRow, matrixVars
    <2> QED
      BY <2>1, <2>2
  <1>10. CASE UNCHANGED vars
    BY <1>10 DEF vars, inputVars, matrixVars, Types, Made, Slots, Ended, NoNilRow
  <1> QED
    BY <1>1, <1>2, <1>3, <1>4, <1>5, <1>6, <1>7, <1>8, <1>9, <1>10 DEF Next, Main, Worker

LEMMA SpecInv == Spec => []Inv
  BY InitInv, NextInv, PTL DEF Spec

\* No cancellation, at whatever moment, makes the walk index a row that was
\* never made: for every pool, meta, number of processors and engine.
THEOREM NoNilRowHolds == Spec => []NoNilRow
  <1>1. Inv => NoNilRow
    BY DEF Inv
  <1> QED
    BY <1>1, SpecInv, PTL

\* The matrix is read only after every goroutine has stopped writing it, and
\* none outlives the search.
THEOREM NoStrayWriterHolds == Spec => []NoStrayWriter
  <1>1. Inv => NoStrayWriter
    <2> SUFFICES ASSUME Inv, main \notin Filling PROVE NoStrayWriter
      BY DEF NoStrayWriter, Filling
    <2>1. \A r \in Rows : worker[r] \in {"none", "done"}
      BY DEF Inv, Ended
    <2>2. sem = {}
      BY <2>1 DEF Inv, Slots, Types
    <2> QED
      BY <2>1, <2>2 DEF NoStrayWriter
  <1> QED
    BY <1>1, SpecInv, PTL

LEMMA InitWritten == Init => Written
  BY DEF Init, Written

LEMMA NextWritten == Inv /\ Inv' /\ Written /\ [Next]_vars => Written'
  <1> SUFFICES ASSUME Inv, Inv', Written, [Next]_vars PROVE Written'
    OBVIOUS
  <1> USE SizesAssumption DEF Inv
  <1>1. CASE Spawn
    <2>1. next \in Rows /\ worker[next] = "none"
      BY <1>1 DEF Spawn, Made, Types, Rows
    <2>2. \A q \in Rows : q = next \/ entries'[q] = entries[q]
      BY <1>1 DEF Spawn, Types
    <2> QED
      BY <1>1, <2>1, <2>2 DEF Spawn, Written, WrittenBy, inputVars
  <1>2. CASE Acquire
    <2>1. next \in Rows /\ worker[next] = "none"
      BY <1>2 DEF Acquire, Made, Types, Rows
    <2>2. worker'[next] = "fill" /\ \A q \in Rows : q = next \/ worker'[q] = worker[q]
      BY <1>2, <2>1 DEF Acquire, Types
    <2>3. opp[next] = 1 /\ \A o \in Opps : ~(o < opp[next])
      BY <2>1 DEF Written, Opps
    <2>4. UNCHANGED <<opp, entries, sim, ctx>>
      BY <1>2 DEF Acquire, inputVars
    <2> QED
      BY <2>1, <2>2, <2>3, <2>4 DEF Written, WrittenBy
  <1>3. CASE SpawnEnds \/ Wait \/ Walk \/ WalkEnds \/ Return
    <2>1. UNCHANGED <<worker, opp, entries, sim, ctx>>
      BY <1>3 DEF SpawnEnds, Wait, Walk, WalkEnds, Return, inputVars, matrixVars
    <2> QED
      BY <2>1 DEF Written, WrittenBy
  <1>4. ASSUME NEW r \in Rows, Fill(r) PROVE Written'
    <2>1. WrittenBy(r) /\ worker[r] = "fill" /\ opp[r] \in Opps
      BY <1>4 DEF Fill, Written, Types, Opps
    <2>2. sim[r][opp[r]] \in [Scenarios -> Ratings \cup {Failed}] /\ entries[r] \in Row
      BY <1>4 DEF Fill, Types, Made, Opps, Row
    <2>3. /\ entries'[r] = [entries[r] EXCEPT ![opp[r]] = sim[r][opp[r]]]
          /\ opp'[r] = opp[r] + 1
      BY <1>4 DEF Fill, Types
    <2>4. \A o \in Opps : o < opp'[r] => entries'[r][o] = sim[r][o]
      <3> SUFFICES ASSUME NEW o \in Opps, o < opp[r] + 1 PROVE entries'[r][o] = sim[r][o]
        BY <2>3
      <3>1. CASE o = opp[r]
        BY <2>2, <2>3, <3>1 DEF Row
      <3>2. CASE o # opp[r]
        <4>1. o < opp[r]
          BY <2>1, <3>2 DEF Opps
        <4> QED
          BY <2>1, <2>2, <2>3, <3>2, <4>1 DEF WrittenBy, Row
      <3> QED
        BY <3>1, <3>2
    <2>5. UNCHANGED <<worker, sim, ctx>>
      BY <1>4 DEF Fill, inputVars
    <2>6. \A q \in Rows : q = r \/ (entries'[q] = entries[q] /\ opp'[q] = opp[q])
      BY <1>4 DEF Fill, Types
    <2> QED
      BY <2>1, <2>4, <2>5, <2>6 DEF Written, WrittenBy
  <1>5. ASSUME NEW r \in Rows, AddFails(r) \/ Release(r) \/ Done(r) PROVE Written'
    <2>1. UNCHANGED <<opp, entries, sim, ctx>>
      BY <1>5 DEF AddFails, Release, Done, inputVars
    <2>2. /\ worker[r] # "none" /\ worker'[r] # "none"
          /\ \A q \in Rows : q = r \/ worker'[q] = worker[q]
      BY <1>5 DEF AddFails, Release, Done, Types
    <2>3. WrittenBy(r)
      BY <2>2 DEF Written
    <2>4. ctx = "live" => opp[r] > MetaSize
      BY <1>5, <2>3 DEF AddFails, Release, Done, WrittenBy
    <2>5. WrittenBy(r)'
      BY <2>1, <2>3, <2>4 DEF WrittenBy
    <2> QED
      BY <2>1, <2>2, <2>5 DEF Written, WrittenBy
  <1>6. CASE Cancel
    BY <1>6 DEF Cancel, Written, WrittenBy, inputVars, matrixVars
  <1>7. CASE UNCHANGED vars
    BY <1>7 DEF vars, inputVars, matrixVars, Written, WrittenBy
  <1> QED
    BY <1>1, <1>2, <1>3, <1>4, <1>5, <1>6, <1>7 DEF Next, Main, Worker

\* A search that is not cancelled walks over the whole matrix, in whatever order
\* the goroutines filled it: for every pool, meta, number of processors and
\* engine.
THEOREM FullMatrixHolds == Spec => []FullMatrix
  <1>1. Inv /\ Written => FullMatrix
    <2> SUFFICES ASSUME Inv, Written, main \in {"walk", "check", "done"}, ctx = "live"
                 PROVE  entries = sim
      BY DEF FullMatrix
    <2>1. ASSUME NEW r \in Rows PROVE entries[r] = sim[r]
      <3>1. worker[r] = "done"
        BY DEF Inv, Made, Ended, Filling
      <3>2. WrittenBy(r) /\ opp[r] > MetaSize
        BY <3>1 DEF Written, WrittenBy
      <3>3. entries[r] \in Row /\ sim[r] \in Row
        BY <3>1 DEF Inv, Types, Made
      <3>4. \A o \in Opps : entries[r][o] = sim[r][o]
        BY <3>2, SizesAssumption DEF WrittenBy, Opps, Inv, Types
      <3> QED
        BY <3>3, <3>4 DEF Row
    <2> QED
      BY <2>1 DEF Inv, Types
  <1>2. Spec => []Written
    BY InitWritten, NextWritten, SpecInv, PTL DEF Spec
  <1> QED
    BY <1>1, <1>2, SpecInv, PTL

\* All three at once, as the run checks them.
THEOREM MatrixSoundHolds == Spec => []MatrixSound
  BY NoNilRowHolds, NoStrayWriterHolds, FullMatrixHolds, PTL DEF MatrixSound
-----------------------------------------------------------------------------
(* Failures                                                                *)

Cells == Rows \X Opps \X Scenarios

Fails(c) == sim[c[1]][c[2]][c[3]] = Failed

\* The failed battles of a row against the opponents before one.
Before(r, o) == {c \in Cells : c[1] = r /\ c[2] < o /\ Fails(c)}

\* Rows whose failures were added to the counter of the matrix.
Added == {r \in Rows : worker[r] \in {"release", "finish", "done"}}

AddedCells == {c \in Cells : c[1] \in Added /\ c[2] < opp[c[1]] /\ Fails(c)}

\* Each count is that of the failed battles behind it.
Counted ==
    /\ fails \in [Rows -> Nat]
    /\ \A r \in Rows : fails[r] = Cardinality(Before(r, opp[r]))
    /\ failures = Cardinality(AddedCells)

LEMMA TripleFinite ==
    ASSUME NEW A, NEW B, NEW C, IsFiniteSet(A), IsFiniteSet(B), IsFiniteSet(C)
    PROVE  IsFiniteSet(A \X B \X C)
<1> DEFINE pairs == (A \X B) \X C
           triple == [q \in pairs |-> <<q[1][1], q[1][2], q[2]>>]
<1>1. IsFiniteSet(pairs)
  BY FS_Product
<1>2. triple \in Surjection(pairs, A \X B \X C)
  <2>1. triple \in [pairs -> A \X B \X C]
    OBVIOUS
  <2>2. ASSUME NEW c \in A \X B \X C PROVE \E q \in pairs : triple[q] = c
    <3>1. c = <<c[1], c[2], c[3]>> /\ c[1] \in A /\ c[2] \in B /\ c[3] \in C
      OBVIOUS
    <3>2. << <<c[1], c[2]>>, c[3]>> \in pairs
      BY <3>1
    <3>3. triple[<< <<c[1], c[2]>>, c[3]>>] = c
      BY <3>1, <3>2
    <3> QED
      BY <3>2, <3>3
  <2> QED
    BY <2>1, <2>2 DEF Surjection
<1> QED
  BY <1>1, <1>2, FS_Surjection

LEMMA SidesFinite == IsFiniteSet(Rows) /\ IsFiniteSet(Opps)
<1>1. PoolSize \in Int /\ MetaSize \in Int /\ 1 \in Int
  BY SizesAssumption
<1>2. IsFiniteSet(1..PoolSize) /\ IsFiniteSet(1..MetaSize)
  BY <1>1, FS_Interval
<1> QED
  BY <1>2 DEF Rows, Opps

LEMMA ScenariosFinite == IsFiniteSet(Scenarios)
  <1>1. 0 \in Int /\ 2 \in Int
    OBVIOUS
  <1>2. IsFiniteSet(0..2)
    BY <1>1, FS_Interval
  <1> QED
    BY <1>2 DEF Scenarios

\* The matrix is finite, so every set of its cells has a count.
LEMMA CellsFinite ==
  /\ IsFiniteSet(Cells)
  /\ \A S \in SUBSET Cells : IsFiniteSet(S) /\ Cardinality(S) \in Nat
  <1>1. IsFiniteSet(Cells)
    BY SidesFinite, ScenariosFinite, TripleFinite DEF Cells
  <1> QED
    BY <1>1, FS_Subset, FS_CardinalityType

\* Two sets of cells that do not meet are counted one after the other.
LEMMA DisjointCells ==
  ASSUME NEW S \in SUBSET Cells, NEW T \in SUBSET Cells, S \cap T = {}
  PROVE  Cardinality(S \cup T) = Cardinality(S) + Cardinality(T)
  <1>1. IsFiniteSet(S) /\ IsFiniteSet(T)
    BY CellsFinite
  <1>2. Cardinality(S \cup T) = Cardinality(S) + Cardinality(T) - Cardinality({})
    BY <1>1, FS_Union
  <1> QED
    BY <1>2, CellsFinite, FS_EmptySet

\* One opponent more: the failures of its three battles.
LEMMA OneMore ==
  ASSUME NEW r \in Rows, NEW o \in Opps
  PROVE  Cardinality(Before(r, o + 1)) = Cardinality(Before(r, o)) + RowFails(r, o)
  <1> DEFINE S == {s \in Scenarios : sim[r][o][s] = Failed}
             T == {c \in Cells : c[1] = r /\ c[2] = o /\ Fails(c)}
             cell == [s \in S |-> <<r, o, s>>]
  <1>1. Cardinality(S) = Cardinality(T) /\ IsFiniteSet(S)
    <2>1. IsFiniteSet(S)
      BY ScenariosFinite, FS_Subset
    <2>2. \A s \in S : cell[s] \in T
      BY DEF Cells, Fails
    <2>3. \A s, u \in S : cell[s] = cell[u] => s = u
      OBVIOUS
    <2>4. ASSUME NEW c \in T PROVE \E s \in S : cell[s] = c
      <3>1. c = <<r, o, c[3]>> /\ c[3] \in S
        BY DEF Cells, Fails
      <3> QED
        BY <3>1
    <2> HIDE DEF S, T
    <2>5. cell \in [S -> T]
      BY <2>2
    <2> HIDE DEF cell
    <2>6. cell \in Bijection(S, T)
      BY <2>3, <2>4, <2>5 DEF Bijection, Injection, Surjection, IsInjective
    <2> QED
      BY <2>1, <2>6, FS_Bijection DEF ExistsBijection
  <1>2. Before(r, o + 1) = Before(r, o) \cup T /\ Before(r, o) \cap T = {}
    BY DEF Before, Cells, Opps
  <1>3. Cardinality(Before(r, o + 1)) = Cardinality(Before(r, o)) + Cardinality(T)
    BY <1>2, DisjointCells DEF Before
  <1> QED
    BY <1>1, <1>3 DEF RowFails

LEMMA InitCounted == Init => Counted
  <1> SUFFICES ASSUME Init PROVE Counted
    OBVIOUS
  <1>1. Added = {} /\ fails = [r \in Rows |-> 0] /\ opp = [r \in Rows |-> 1] /\ failures = 0
    BY DEF Init, Added
  <1>2. \A r \in Rows : Before(r, 1) = {}
    BY SizesAssumption DEF Before, Cells, Opps
  <1>3. AddedCells = {}
    BY <1>1 DEF AddedCells
  <1> QED
    BY <1>1, <1>2, <1>3, FS_EmptySet DEF Counted

\* The counts are right after every step of a row, and no other step touches them.
LEMMA NextCounted == Inv /\ Counted /\ [Next]_vars => Counted'
  <1> SUFFICES ASSUME Inv, Counted, [Next]_vars PROVE Counted'
    OBVIOUS
  <1> USE DEF Inv
  <1>1. ASSUME UNCHANGED <<sim, opp, fails, failures>>, Added' = Added PROVE Counted'
    BY <1>1 DEF Counted, AddedCells, Before, Fails
  <1>2. ASSUME NEW r \in Rows, Fill(r) PROVE Counted'
    <2>1. opp[r] \in Opps /\ worker[r] = "fill" /\ UNCHANGED <<sim, worker, failures>>
      BY <1>2 DEF Fill, Types, Opps, inputVars
    <2>2. \A q \in Rows : opp'[q] = IF q = r THEN opp[r] + 1 ELSE opp[q]
      BY <1>2 DEF Fill, Types
    <2>3. Cardinality(Before(r, opp[r] + 1)) = fails[r] + RowFails(r, opp[r])
      BY <2>1, OneMore DEF Counted
    <2>4. fails' = [fails EXCEPT ![r] = Cardinality(Before(r, opp[r] + 1))]
      BY <1>2, <2>3 DEF Fill, Counted
    <2>5. Cardinality(Before(r, opp[r] + 1)) \in Nat
      BY CellsFinite DEF Before
    <2>6. \A q \in Rows, o \in Nat : Before(q, o)' = Before(q, o)
      BY <2>1, <2>2 DEF Before, Fails
    <2>7. AddedCells' = AddedCells
      <3>1. Added' = Added /\ r \notin Added
        BY <2>1 DEF Added
      <3> QED
        BY <2>1, <2>2, <3>1 DEF AddedCells, Cells, Fails
    <2>8. \A q \in Rows : fails'[q] = Cardinality(Before(q, opp[q])')
      BY <2>1, <2>2, <2>4, <2>6 DEF Counted, Types, Opps
    <2> QED
      BY <2>1, <2>4, <2>5, <2>7, <2>8 DEF Counted
  <1>3. ASSUME NEW r \in Rows, AddFails(r) PROVE Counted'
    <2>1. /\ worker[r] = "fill" /\ worker'[r] = "release"
          /\ \A q \in Rows : q # r => worker'[q] = worker[q]
          /\ failures' = failures + fails[r]
          /\ UNCHANGED <<sim, opp, fails>>
      BY <1>3 DEF AddFails, Types, inputVars
    <2>2. r \notin Added /\ Added' = Added \cup {r}
      BY <2>1 DEF Added
    <2>3. /\ AddedCells' = AddedCells \cup Before(r, opp[r])
          /\ AddedCells \cap Before(r, opp[r]) = {}
      BY <2>1, <2>2 DEF AddedCells, Before, Fails
    <2>4. Cardinality(AddedCells') = Cardinality(AddedCells) + Cardinality(Before(r, opp[r]))
      BY <2>3, DisjointCells DEF AddedCells, Before
    <2> QED
      BY <2>1, <2>4 DEF Counted, Before, Fails
  <1>4. ASSUME NEW r \in Rows, Release(r) \/ Done(r) PROVE Counted'
    <2>1. /\ worker[r] \in {"release", "finish"} /\ worker'[r] \in {"finish", "done"}
          /\ \A q \in Rows : q # r => worker'[q] = worker[q]
          /\ UNCHANGED <<sim, opp, fails, failures>>
      BY <1>4 DEF Release, Done, Types, inputVars
    <2>2. Added' = Added
      BY <2>1 DEF Added
    <2> QED
      BY <1>1, <2>1, <2>2
  <1>5. CASE Acquire
    <2>1. worker[next] = "none" /\ next \in Rows
      BY <1>5, SizesAssumption DEF Acquire, Made, Types, Rows
    <2>2. Added' = Added
      BY <1>5, <2>1 DEF Acquire, Added, Types
    <2> QED
      BY <1>1, <1>5, <2>2 DEF Acquire, inputVars
  <1>6. CASE Spawn \/ SpawnEnds \/ Wait \/ Walk \/ WalkEnds \/ Return \/ Cancel \/ UNCHANGED vars
    <2>1. UNCHANGED <<sim, worker, opp, fails, failures>>
      BY <1>6 DEF Spawn, SpawnEnds, Wait, Walk, WalkEnds, Return, Cancel, vars, inputVars, matrixVars
    <2>2. Added' = Added
      BY <2>1 DEF Added
    <2> QED
      BY <1>1, <2>1, <2>2
  <1> QED
    BY <1>2, <1>3, <1>4, <1>5, <1>6 DEF Next, Main, Worker

\* A search that is not cancelled has counted each failed battle once, in whatever
\* order the goroutines add theirs: for every pool, meta and engine.
THEOREM FailuresCountedHolds == Spec => []FailuresCounted
  <1>1. Inv /\ Written /\ Counted => FailuresCounted
    <2> SUFFICES ASSUME Inv, Written, Counted, main \in {"walk", "check", "done"}, ctx = "live"
                 PROVE  failures = Cardinality({c \in Cells : Fails(c)})
      BY DEF FailuresCounted, Cells, Fails
    <2>1. ASSUME NEW r \in Rows PROVE r \in Added /\ \A o \in Opps : o < opp[r]
      <3>1. worker[r] = "done"
        BY DEF Inv, Made, Ended, Filling
      <3>2. opp[r] > MetaSize
        BY <3>1 DEF Written, WrittenBy
      <3> QED
        BY <3>1, <3>2, SizesAssumption DEF Added, Opps, Inv, Types
    <2>2. AddedCells = {c \in Cells : Fails(c)}
      BY <2>1 DEF AddedCells, Cells
    <2> QED
      BY <2>2 DEF Counted
  <1>2. Spec => []Counted
    BY InitCounted, NextCounted, SpecInv, PTL DEF Spec
  <1>3. Spec => []Written
    BY InitWritten, NextWritten, SpecInv, PTL DEF Spec
  <1> QED
    BY <1>1, <1>2, <1>3, SpecInv, PTL
-----------------------------------------------------------------------------
(* Induction, lists in their order, and sums                              *)

\* The order of the naturals, as the well-founded relation that induction needs.
Below == {pair \in Nat \X Nat : pair[1] < pair[2]}

\* Induction over the naturals, for a set of them.
LEMMA Induction ==
    ASSUME NEW S \in SUBSET Nat, 0 \in S, \A n \in S : n + 1 \in S
    PROVE  S = Nat
<1> SUFFICES ASSUME Nat \ S # {} PROVE FALSE
  OBVIOUS
<1>1. IsWellFoundedOn(Below, Nat)
  BY NatLessThanWellFounded DEF OpToRel, Below
<1>2. PICK least \in Nat \ S : \A n \in Nat \ S : ~(<<n, least>> \in Below)
  BY <1>1, WFMin
<1>3. least \in Nat /\ least # 0 /\ least - 1 \in Nat /\ least - 1 < least /\ (least - 1) + 1 = least
  BY <1>2
<1>4. <<least - 1, least>> \in Below
  BY <1>3 DEF Below
<1>5. least - 1 \in S
  BY <1>2, <1>3, <1>4
<1> QED
  BY <1>2, <1>3, <1>5

\* What is recursively defined: a start and, after it, a step from what came before.
Unfolds(f, start, step, n) ==
    f[0] = start /\ \A q \in 1..n : f[q] = step[<<q, f[q - 1]>>]

\* There is a function to any recursive definition.
LEMMA Recursion ==
    ASSUME NEW V, NEW start \in V, NEW n \in Nat, NEW step \in [(1..n) \X V -> V]
    PROVE  \E f \in [0..n -> V] : Unfolds(f, start, step, n)
<1> DEFINE Fits(f, m) == f[0] = start /\ \A q \in 1..m : f[q] = step[<<q, f[q - 1]>>]
           S == {m \in Nat : m <= n => \E f \in [0..m -> V] : Fits(f, m)}
<1>1. 0 \in S
  <2>1. [q \in 0..0 |-> start] \in [0..0 -> V] /\ Fits([q \in 0..0 |-> start], 0)
    OBVIOUS
  <2> QED
    BY <2>1
<1>2. ASSUME NEW m \in S, m + 1 <= n PROVE \E f \in [0..(m + 1) -> V] : Fits(f, m + 1)
  <2>1. m \in Nat /\ m <= n
    BY <1>2
  <2>2. PICK f \in [0..m -> V] : Fits(f, m)
    <3> HIDE DEF Fits
    <3> QED BY <1>2, <2>1
  <2> DEFINE g == [q \in 0..(m + 1) |-> IF q <= m THEN f[q] ELSE step[<<m + 1, f[m]>>]]
  <2>3. step[<<m + 1, f[m]>>] \in V
    BY <1>2, <2>1
  <2>4. g \in [0..(m + 1) -> V]
    BY <2>1, <2>3
  <2>5. Fits(g, m + 1)
    <3>1. g[0] = start
      BY <2>1, <2>2
    <3>2. ASSUME NEW q \in 1..(m + 1) PROVE g[q] = step[<<q, g[q - 1]>>]
      <4>1. q - 1 \in 0..m /\ q \in 0..(m + 1) /\ q - 1 <= m /\ q - 1 \in 0..(m + 1) /\ (q = m + 1 => q - 1 = m)
        BY <2>1
      <4>2. g[q - 1] = f[q - 1]
        BY <4>1
      <4>3. CASE q <= m
        BY <2>1, <2>2, <4>1, <4>2, <4>3
      <4>4. CASE q = m + 1
        BY <2>1, <4>1, <4>2, <4>4
      <4> QED
        BY <2>1, <4>3, <4>4
    <3> QED
      BY <3>1, <3>2
  <2> QED
    BY <2>4, <2>5
<1>3. S = Nat
  <2> HIDE DEF Fits
  <2>1. \A m \in S : m + 1 \in S
    BY <1>2
  <2>2. S \in SUBSET Nat
    OBVIOUS
  <2> HIDE DEF S
  <2> QED
    BY <1>1, <2>1, <2>2, Induction
<1> QED
  BY <1>3 DEF Unfolds

\* Sorted elements are all there, once, in their order.
LEMMA OrderedBySorts ==
    ASSUME NEW S, IsFiniteSet(S), NEW before,
           \A a, b \in S : ~(<<a, b>> \in before /\ <<b, a>> \in before),
           \A a, b, c \in S : <<a, b>> \in before /\ <<b, c>> \in before => <<a, c>> \in before,
           \A a, b \in S : a = b \/ <<a, b>> \in before \/ <<b, a>> \in before
    PROVE  /\ Cardinality(S) \in Nat
           /\ OrderedBy(S, before) \in [1 .. Cardinality(S) -> S]
           /\ \A i, j \in 1 .. Cardinality(S) :
                 i < j => <<OrderedBy(S, before)[i], OrderedBy(S, before)[j]>> \in before
           /\ \A a \in S : \E i \in 1 .. Cardinality(S) : OrderedBy(S, before)[i] = a
<1> DEFINE N == Cardinality(S)
           ahead(a) == {b \in S : <<b, a>> \in before}
           place == [a \in S |-> Cardinality(ahead(a)) + 1]
           list == OrderedBy(S, before)
<1>1. N \in Nat
  BY FS_CardinalityType
<1>2. ASSUME NEW a \in S PROVE IsFiniteSet(ahead(a)) /\ Cardinality(ahead(a)) \in Nat /\ place[a] \in 1..N
  <2>1. IsFiniteSet(S \ {a}) /\ Cardinality(S \ {a}) = N - 1
    BY FS_RemoveElement
  <2>2. ahead(a) \in SUBSET (S \ {a})
    OBVIOUS
  <2>3. IsFiniteSet(ahead(a)) /\ Cardinality(ahead(a)) <= N - 1
    <3> DEFINE others == S \ {a}
    <3> HIDE DEF others, ahead
    <3> QED BY <2>1, <2>2, FS_Subset DEF others
  <2>4. Cardinality(ahead(a)) \in Nat
    BY <2>3, FS_CardinalityType
  <2> HIDE DEF N, ahead
  <2> QED
    BY <1>1, <2>3, <2>4
<1>3. ASSUME NEW a \in S, NEW b \in S, <<a, b>> \in before PROVE place[a] < place[b]
  <2>1. a \notin ahead(a) /\ ahead(a) \cup {a} \in SUBSET ahead(b)
    BY <1>3
  <2>2. Cardinality(ahead(a) \cup {a}) = Cardinality(ahead(a)) + 1
    BY <1>2, <2>1, FS_AddElement
  <2>3. Cardinality(ahead(a) \cup {a}) <= Cardinality(ahead(b))
    BY <1>2, <2>1, FS_Subset
  <2>4. Cardinality(ahead(a)) \in Nat /\ Cardinality(ahead(b)) \in Nat
    BY <1>2
  <2> HIDE DEF ahead
  <2> QED
    BY <2>2, <2>3, <2>4
<1>4. ASSUME NEW a \in S, NEW b \in S, place[a] = place[b] PROVE a = b
  <2>1. place[a] \in Nat
    <3> HIDE DEF place, N, ahead
    <3> QED BY <1>1, <1>2
  <2>2. ~(<<a, b>> \in before) /\ ~(<<b, a>> \in before)
    <3> HIDE DEF place
    <3> QED BY <1>3, <1>4, <2>1
  <2> QED
    BY <2>2
<1>5. \A n \in 1..N : \E a \in S : place[a] = n
  <2> DEFINE places == 1..N
  <2>1. IsFiniteSet(places) /\ Cardinality(places) = N
    BY <1>1, FS_Interval
  <2>2. place \in Injection(S, places)
    <3>1. place \in [S -> places]
      BY <1>2
    <3> HIDE DEF place, places
    <3> QED
      BY <1>4, <3>1 DEF Injection, IsInjective
  <2> HIDE DEF place, places
  <2>3. place \in Surjection(S, places)
    BY <2>1, <2>2, FS_Injection DEF N
  <2> QED
    BY <2>3 DEF Surjection, places
<1>6. ASSUME NEW n \in 1..N PROVE list[n] \in S /\ place[list[n]] = n
  <2>1. list[n] = CHOOSE a \in S : Cardinality(ahead(a)) = n - 1
    BY DEF OrderedBy
  <2>2. PICK a \in S : place[a] = n
    BY <1>5
  <2>3. Cardinality(ahead(a)) = n - 1
    <3>1. Cardinality(ahead(a)) \in Nat /\ Cardinality(ahead(a)) + 1 = n
      BY <1>2, <2>2
    <3> HIDE DEF ahead
    <3> QED BY <3>1
  <2> HIDE DEF list, ahead
  <2>4. list[n] \in S /\ Cardinality(ahead(list[n])) = n - 1
    BY <2>1, <2>3
  <2> QED
    BY <1>1, <2>4
<1>7. list \in [1..N -> S]
  <2> DEFINE nth(n) == CHOOSE a \in S : Cardinality(ahead(a)) = n - 1
  <2>1. list = [n \in 1..N |-> nth(n)]
    BY DEF OrderedBy
  <2> HIDE DEF list, nth
  <2> QED BY <1>6, <2>1
<1>8. ASSUME NEW i \in 1..N, NEW j \in 1..N, i < j PROVE <<list[i], list[j]>> \in before
  <2>1. list[i] \in S /\ list[j] \in S /\ place[list[i]] = i /\ place[list[j]] = j
    BY <1>6
  <2> HIDE DEF list, place, N
  <2>2. list[i] # list[j] /\ ~(<<list[j], list[i]>> \in before)
    BY <1>1, <1>3, <1>8, <2>1
  <2> QED BY <2>1, <2>2
<1>9. ASSUME NEW a \in S PROVE \E i \in 1..N : list[i] = a
  <2> HIDE DEF list, place, N
  <2>1. place[a] \in 1..N /\ list[place[a]] \in S /\ place[list[place[a]]] = place[a]
    BY <1>2, <1>6
  <2>2. list[place[a]] = a
    BY <1>4, <2>1
  <2> QED BY <2>1, <2>2
<1> QED
  BY <1>1, <1>7, <1>8, <1>9

\* The sums over the subsets of a finite set are there, each from a smaller one.
Chosen(s) == CHOOSE x \in s : TRUE

SumsOf(w, S, f) ==
    f = [s \in SUBSET S |-> IF s = {} THEN 0 ELSE w[Chosen(s)] + f[s \ {Chosen(s)}]]

LEMMA SumsExist ==
    ASSUME NEW S, IsFiniteSet(S), NEW w, \A x \in S : w[x] \in Int
    PROVE  \E f \in [SUBSET S -> Int] : SumsOf(w, S, f)
<1> DEFINE N == Cardinality(S)
           V == [SUBSET S -> Int]
           More(g) == [s \in SUBSET S |-> IF s = {} THEN 0 ELSE w[Chosen(s)] + g[s \ {Chosen(s)}]]
           start == [s \in SUBSET S |-> 0]
           step == [p \in (1 .. N + 1) \X V |-> More(p[2])]
<1>1. N \in Nat
  BY FS_CardinalityType
<1>2. ASSUME NEW s \in SUBSET S, s # {} PROVE Chosen(s) \in s /\ s \ {Chosen(s)} \in SUBSET S
  BY <1>2 DEF Chosen
<1>3. ASSUME NEW g \in V PROVE More(g) \in V
  <2>1. ASSUME NEW s \in SUBSET S, s # {} PROVE w[Chosen(s)] + g[s \ {Chosen(s)}] \in Int
    <3>1. w[Chosen(s)] \in Int /\ g[s \ {Chosen(s)}] \in Int
      BY <1>2, <2>1
    <3> QED BY <3>1
  <2> QED BY <2>1
<1>4. step \in [(1 .. N + 1) \X V -> V]
  <2> HIDE DEF More, V
  <2> QED BY <1>3
<1>5. start \in V
  OBVIOUS
<1>6. PICK f \in [0 .. N + 1 -> V] : f[0] = start /\ \A q \in 1 .. N + 1 : f[q] = step[<<q, f[q - 1]>>]
  <2> HIDE DEF V, start, step, N
  <2>1. N + 1 \in Nat
    BY <1>1
  <2>2. \E f \in [0 .. N + 1 -> V] : Unfolds(f, start, step, N + 1)
    BY <1>4, <1>5, <2>1, Recursion
  <2> QED BY <2>2 DEF Unfolds
<1>7. ASSUME NEW q \in 0 .. N PROVE f[q + 1] = More(f[q]) /\ f[q] \in V
  <2> HIDE DEF More, V, start, N
  <2>1. q + 1 \in 1 .. N + 1 /\ (q + 1) - 1 = q /\ q \in 0 .. N + 1
    BY <1>1
  <2>2. f[q] \in V /\ f[q + 1] = step[<<q + 1, f[q]>>]
    BY <1>6, <2>1
  <2> QED BY <2>1, <2>2
<1> DEFINE Stable(q) == \A s \in SUBSET S : Cardinality(s) <= q => f[q + 1][s] = f[q][s]
           Q == {q \in Nat : q <= N => Stable(q)}
<1>8. 0 \in Q
  <2> SUFFICES ASSUME NEW s \in SUBSET S, Cardinality(s) <= 0 PROVE f[0 + 1][s] = f[0][s]
    OBVIOUS
  <2>1. IsFiniteSet(s) /\ Cardinality(s) \in Nat
    BY FS_Subset, FS_CardinalityType
  <2>2. s = {}
    BY <2>1, FS_EmptySet
  <2>3. 0 \in 0 .. N
    BY <1>1
  <2>4. f[0 + 1] = More(f[0])
    <3> HIDE DEF N, More
    <3> QED BY <1>7, <2>3
  <2> QED
    BY <1>6, <2>2, <2>4
<1>9. ASSUME NEW q \in Q PROVE q + 1 \in Q
  <2> SUFFICES ASSUME q + 1 <= N, NEW s \in SUBSET S, Cardinality(s) <= q + 1
               PROVE  f[(q + 1) + 1][s] = f[q + 1][s]
    OBVIOUS
  <2>1. q \in 0 .. N /\ q + 1 \in 0 .. N /\ Stable(q)
    <3>1. q \in Nat
      OBVIOUS
    <3>2. q \in 0 .. N /\ q + 1 \in 0 .. N /\ q <= N
      <4> HIDE DEF N
      <4> QED BY <1>1, <3>1
    <3> HIDE DEF Stable, N
    <3> QED BY <3>1, <3>2
  <2>2. f[(q + 1) + 1] = More(f[q + 1]) /\ f[q + 1] = More(f[q])
    <3> HIDE DEF More, N
    <3> QED BY <1>7, <2>1
  <2>3. CASE s = {}
    BY <2>2, <2>3
  <2>4. CASE s # {}
    <3> DEFINE rest == s \ {Chosen(s)}
    <3>1. Chosen(s) \in s /\ rest \in SUBSET S
      BY <1>2, <2>4
    <3>2. Cardinality(rest) <= q
      <4>1. IsFiniteSet(s) /\ Cardinality(s) \in Nat
        BY FS_Subset, FS_CardinalityType
      <4>2. Cardinality(rest) = Cardinality(s) - 1
        BY <3>1, <4>1, FS_RemoveElement
      <4> HIDE DEF rest
      <4> QED BY <4>1, <4>2
    <3>3. f[q + 1][rest] = f[q][rest]
      <4> HIDE DEF rest
      <4> QED BY <2>1, <3>1, <3>2
    <3>4. f[(q + 1) + 1][s] = w[Chosen(s)] + f[q + 1][rest] /\ f[q + 1][s] = w[Chosen(s)] + f[q][rest]
      BY <2>2, <2>4
    <3> QED BY <3>3, <3>4
  <2> QED BY <2>3, <2>4
<1>10. Stable(N)
  <2>1. Q = Nat
    <3> HIDE DEF Stable
    <3>1. Q \in SUBSET Nat
      OBVIOUS
    <3> HIDE DEF Q
    <3> QED BY <1>8, <1>9, <3>1, Induction
  <2>2. N \in Q
    <3> HIDE DEF Q, N
    <3> QED BY <1>1, <2>1
  <2> HIDE DEF Stable
  <2> QED BY <1>1, <2>2
<1>11. N \in 0 .. N
  BY <1>1
<1>12. f[N] \in V /\ f[N + 1] \in V /\ f[N + 1] = More(f[N])
  <2> HIDE DEF V, More, N
  <2> QED BY <1>3, <1>7, <1>11
<1>13. f[N] = f[N + 1]
  <2>1. \A s \in SUBSET S : Cardinality(s) <= N
    BY FS_Subset
  <2> HIDE DEF N
  <2> QED BY <1>10, <1>12, <2>1
<1> HIDE DEF N
<1>14. SumsOf(w, S, f[N])
  BY <1>12, <1>13 DEF SumsOf
<1> QED
  BY <1>12, <1>14

\* One more or one less of what is multiplied.
LEMMA Times ==
    ASSUME NEW n \in Int, NEW b \in Int
    PROVE  n * b \in Int /\ (n + 1) * b = n * b + b /\ n * (b - 1) = n * b - n
<1>1. n * b \in Int
  OBVIOUS
<1>2. (n + 1) * b = n * b + b
  OBVIOUS
<1>3. n * (b - 1) = n * b - n
  OBVIOUS
<1> QED BY <1>1, <1>2, <1>3

SumOf(w, S) == MapThenSumSet(LAMBDA x : w[x], S)

\* A sum over a finite set is a number that its bounds bound.
LEMMA SumIs ==
    ASSUME NEW S, IsFiniteSet(S), NEW w, \A x \in S : w[x] \in Int
    PROVE  /\ SumOf(w, S) \in Int
           /\ \A b \in Int : (\A x \in S : w[x] <= b) => SumOf(w, S) <= Cardinality(S) * b
           /\ \A b \in Int : (\A x \in S : b <= w[x]) => Cardinality(S) * b <= SumOf(w, S)
<1> DEFINE sum == SumOf(w, S)
           iter == CHOOSE f : SumsOf(w, S, f)
<1>1. sum = iter[S]
  BY DEF SumOf, MapThenSumSet, MapThenFoldSet, SumsOf, Chosen
<1>2. SumsOf(w, S, iter)
  BY SumsExist
<1> HIDE DEF iter
<1>3. ASSUME NEW s \in SUBSET S
      PROVE  iter[s] = IF s = {} THEN 0 ELSE w[Chosen(s)] + iter[s \ {Chosen(s)}]
  BY <1>2 DEF SumsOf
<1> DEFINE Bounded(s, n) == /\ iter[s] \in Int
                            /\ \A b \in Int : (\A x \in S : w[x] <= b) => iter[s] <= n * b
                            /\ \A b \in Int : (\A x \in S : b <= w[x]) => n * b <= iter[s]
           Q == {n \in Nat : \A s \in SUBSET S : Cardinality(s) = n => Bounded(s, n)}
<1>4. \A s \in SUBSET S : IsFiniteSet(s) /\ Cardinality(s) \in Nat
  BY FS_Subset, FS_CardinalityType
<1>5. 0 \in Q
  <2> SUFFICES ASSUME NEW s \in SUBSET S, Cardinality(s) = 0 PROVE Bounded(s, 0)
    OBVIOUS
  <2>1. s = {}
    BY <1>4, FS_EmptySet
  <2>2. iter[s] = 0
    BY <1>3, <2>1
  <2> QED BY <2>2
<1>6. ASSUME NEW n \in Q PROVE n + 1 \in Q
  <2> SUFFICES ASSUME NEW s \in SUBSET S, Cardinality(s) = n + 1 PROVE Bounded(s, n + 1)
    OBVIOUS
  <2> DEFINE rest == s \ {Chosen(s)}
  <2>1. s # {}
    BY <1>4, FS_EmptySet
  <2>2. Chosen(s) \in s /\ rest \in SUBSET S
    BY <2>1 DEF Chosen
  <2>3. Cardinality(rest) = n
    BY <1>4, <2>2, FS_RemoveElement
  <2>4. iter[s] = w[Chosen(s)] + iter[rest] /\ w[Chosen(s)] \in Int
    BY <1>3, <2>1, <2>2
  <2>5. n \in Nat /\ Bounded(rest, n)
    <3> HIDE DEF rest, Bounded
    <3> QED BY <2>2, <2>3
  <2> HIDE DEF rest
  <2>6. iter[s] \in Int
    BY <2>4, <2>5
  <2>7. ASSUME NEW b \in Int, \A x \in S : w[x] <= b PROVE iter[s] <= (n + 1) * b
    <3>1. w[Chosen(s)] <= b /\ iter[rest] <= n * b /\ iter[rest] \in Int
      BY <2>2, <2>5, <2>7
    <3>2. n * b \in Int /\ (n + 1) * b = n * b + b
      BY <2>5, Times
    <3> QED BY <2>4, <3>1, <3>2
  <2>8. ASSUME NEW b \in Int, \A x \in S : b <= w[x] PROVE (n + 1) * b <= iter[s]
    <3>1. b <= w[Chosen(s)] /\ n * b <= iter[rest] /\ iter[rest] \in Int
      BY <2>2, <2>5, <2>8
    <3>2. n * b \in Int /\ (n + 1) * b = n * b + b
      BY <2>5, Times
    <3> QED BY <2>4, <3>1, <3>2
  <2> QED BY <2>6, <2>7, <2>8
<1>7. Q = Nat
  <2> HIDE DEF Bounded
  <2>1. Q \in SUBSET Nat
    OBVIOUS
  <2> HIDE DEF Q
  <2> QED BY <1>5, <1>6, <2>1, Induction
<1>8. Bounded(S, Cardinality(S))
  <2>1. Cardinality(S) \in Q
    <3> HIDE DEF Q
    <3> QED BY <1>4, <1>7
  <2> HIDE DEF Bounded
  <2> QED BY <2>1
<1> HIDE DEF sum
<1>9. /\ sum \in Int
      /\ \A b \in Int : (\A x \in S : w[x] <= b) => sum <= Cardinality(S) * b
      /\ \A b \in Int : (\A x \in S : b <= w[x]) => Cardinality(S) * b <= sum
  BY <1>1, <1>8
<1> QED
  BY <1>9 DEF sum
-----------------------------------------------------------------------------
(* Scores                                                                  *)

Means == [sum : Nat, count : Nat]

\* The triples of a pool, of which there are finitely many.
Trios == Rows \X Rows \X Rows

LEMMA TriosFinite ==
    /\ IsFiniteSet(Trios)
    /\ \A T \in SUBSET Trios : IsFiniteSet(T) /\ Cardinality(T) \in Nat
<1>1. IsFiniteSet(Trios)
  BY SidesFinite, TripleFinite DEF Trios
<1> QED
  BY <1>1, FS_Subset, FS_CardinalityType

\* A score adds up ratings and counts them.
LEMMA ScoreIs ==
    ASSUME NEW m \in [Rows -> Row], NEW t \in Trios, NEW s \in Scenarios
    PROVE  Score(m, t, s) \in Means
<1> DEFINE all == ToSet(t) \X Opps
           valid == {c \in all : m[c[1]][c[2]][s] # Failed}
           rating == [c \in valid |-> m[c[1]][c[2]][s]]
<1>1. t = <<t[1], t[2], t[3]>> /\ t[1] \in Rows /\ t[2] \in Rows /\ t[3] \in Rows
  BY DEF Trios
<1>2. ToSet(t) \in SUBSET Rows
  BY <1>1 DEF ToSet
<1>3. IsFiniteSet(all)
  BY <1>2, SidesFinite, FS_Subset, FS_Product
<1>4. IsFiniteSet(valid) /\ Cardinality(valid) \in Nat
  <2>1. valid \in SUBSET all
    OBVIOUS
  <2> HIDE DEF valid, all
  <2> QED
    BY <1>3, <2>1, FS_Subset, FS_CardinalityType
<1>5. ASSUME NEW c \in valid PROVE rating[c] \in Nat
  <2>1. c[1] \in Rows /\ c[2] \in Opps /\ m[c[1]][c[2]][s] # Failed
    BY <1>2
  <2>2. m[c[1]][c[2]][s] \in Ratings \cup {Failed}
    BY <2>1 DEF Row
  <2> QED
    BY <2>1, <2>2, RatingsAssumption
<1>6. Score(m, t, s) = [sum |-> SumOf(rating, valid), count |-> Cardinality(valid)]
  BY DEF Score, SumOf
<1> HIDE DEF valid, rating
<1>7. SumOf(rating, valid) \in Int /\ Cardinality(valid) * 0 <= SumOf(rating, valid)
  BY <1>4, <1>5, SumIs
<1>8. SumOf(rating, valid) \in Nat
  BY <1>4, <1>7
<1> QED
  BY <1>4, <1>6, <1>8 DEF Means

LEMMA AverageIs ==
    ASSUME NEW m \in [Rows -> Row], NEW t \in Trios
    PROVE  Average(m, t) \in Means
<1> DEFINE mean == <<Score(m, t, 0), Score(m, t, 1), Score(m, t, 2)>>
           valid == {n \in 1..3 : mean[n].count > 0}
           N(n) == IF n \in valid THEN mean[n].count ELSE 1
<1>1. /\ mean[1] \in Means /\ mean[2] \in Means /\ mean[3] \in Means
  BY ScoreIs DEF Scenarios
<1>2. Cardinality(valid) \in Nat
  <2>1. IsFiniteSet(1..3)
    <3>1. 1 \in Int /\ 3 \in Int
      OBVIOUS
    <3> QED
      BY <3>1, FS_Interval
  <2>2. valid \in SUBSET (1..3)
    OBVIOUS
  <2> HIDE DEF valid
  <2> QED
    BY <2>1, <2>2, FS_Subset, FS_CardinalityType
<1> DEFINE sum == mean[1].sum * N(2) * N(3) + mean[2].sum * N(1) * N(3) + mean[3].sum * N(1) * N(2)
           count == N(1) * N(2) * N(3) * Cardinality(valid)
<1>3. Average(m, t) = [sum |-> sum, count |-> count]
  BY DEF Average
<1> HIDE DEF mean, valid
<1>4. /\ mean[1].sum \in Nat /\ mean[2].sum \in Nat /\ mean[3].sum \in Nat
      /\ N(1) \in Nat /\ N(2) \in Nat /\ N(3) \in Nat
  BY <1>1 DEF Means
<1> HIDE DEF N
<1>5. \A a, b \in Nat : a * b \in Nat
  OBVIOUS
<1> DEFINE first == mean[1].sum * N(2) * N(3)
           second == mean[2].sum * N(1) * N(3)
           third == mean[3].sum * N(1) * N(2)
<1>6. first \in Nat /\ second \in Nat /\ third \in Nat
  BY <1>4, <1>5
<1>7. count \in Nat
  BY <1>2, <1>4, <1>5
<1>8. sum = first + second + third
  OBVIOUS
<1> HIDE DEF sum, count, first, second, third
<1>9. sum \in Nat
  BY <1>6, <1>8
<1> QED
  BY <1>3, <1>7, <1>9 DEF Means

LEMMA TeamIs ==
    ASSUME NEW m \in [Rows -> Row], NEW t \in Trios, NEW x \in Champions, NEW label \in Labels
    PROVE  Team(m, t, x, label) \in Teams
<1>1. x # Overall => x \in Scenarios
  BY DEF Champions
<1>2. ScoreFor(m, t, x) \in Means
  BY <1>1, ScoreIs, AverageIs DEF ScoreFor
<1> QED
  BY <1>2 DEF Team, Teams, Means, Trios

LEMMA LabelsAre ==
    /\ \A x \in Champions : ChampionLabel(x) \in Labels
    /\ \A how : LabelFor(how) \in Labels /\ ScenarioFor(how) \in Champions
<1>1. \A s \in Scenarios : ScenarioLabel(s) \in Labels
  <2>1. ScenarioLabel(0) = "best 0-shield"
    BY DEF ScenarioLabel
  <2>2. ScenarioLabel(1) = "best 1-shield"
    BY DEF ScenarioLabel
  <2>3. ScenarioLabel(2) = "best 2-shield"
    BY DEF ScenarioLabel
  <2>4. \A s \in Scenarios : s = 0 \/ s = 1 \/ s = 2
    BY DEF Scenarios
  <2> QED
    BY <2>1, <2>2, <2>3, <2>4 DEF Labels
<1>2. "best overall" \in Labels
  BY DEF Labels
<1>3. \A how : ScenarioFor(how) \in Scenarios
  BY DEF ScenarioFor, Scenarios
<1>4. \A x \in Champions : x = Overall \/ x \in Scenarios
  BY DEF Champions
<1>5. ASSUME NEW how PROVE LabelFor(how) \in Labels /\ ScenarioFor(how) \in Champions
  BY <1>1, <1>3, <1>2 DEF LabelFor, Champions
<1>6. \A x \in Champions : ChampionLabel(x) \in Labels
  BY <1>1, <1>4, <1>2 DEF ChampionLabel
<1> QED
  BY <1>5, <1>6
-----------------------------------------------------------------------------
(* The order of the teams                                                  *)

LEMMA Scaling ==
    ASSUME NEW x \in Nat, NEW y \in Nat, NEW k \in Nat \ {0}
    PROVE  /\ x * k \in Nat /\ y * k \in Nat
           /\ x <= y <=> x * k <= y * k
<1>1. x * k \in Nat /\ y * k \in Nat
  OBVIOUS
<1>2. x <= y => x * k <= y * k
  OBVIOUS
<1>3. ~(x <= y) => ~(x * k <= y * k)
  OBVIOUS
<1> QED
  BY <1>1, <1>2, <1>3

LEMMA Products ==
    ASSUME NEW x \in Nat, NEW y \in Nat, NEW z \in Nat
    PROVE  x * y \in Nat /\ (x * y) * z = (x * z) * y
  OBVIOUS

\* Quotients are compared as they should be.
LEMMA Chain ==
    ASSUME NEW p \in Nat, NEW q \in Nat, NEW r \in Nat,
           NEW a \in Nat \ {0}, NEW b \in Nat \ {0}, NEW c \in Nat \ {0}
    PROVE  /\ q * a <= p * b /\ r * b <= q * c => r * a <= p * c
           /\ ~(p * b <= q * a) /\ r * b <= q * c => ~(p * c <= r * a)
           /\ q * a <= p * b /\ ~(q * c <= r * b) => ~(p * c <= r * a)
<1> DEFINE pb == p * b
           pc == p * c
           qa == q * a
           qc == q * c
           ra == r * a
           rb == r * b
<1>1. /\ pb \in Nat /\ pc \in Nat /\ qa \in Nat /\ qc \in Nat /\ ra \in Nat /\ rb \in Nat
      /\ pb * c = pc * b /\ qa * c = qc * a /\ rb * a = ra * b
  BY Products
<1> HIDE DEF pb, pc, qa, qc, ra, rb
<1>2. /\ qa <= pb <=> qa * c <= pb * c
      /\ pb <= qa <=> pb * c <= qa * c
  BY <1>1, Scaling
<1>3. /\ rb <= qc <=> rb * a <= qc * a
      /\ qc <= rb <=> qc * a <= rb * a
  BY <1>1, Scaling
<1>4. /\ ra <= pc <=> ra * b <= pc * b
      /\ pc <= ra <=> pc * b <= ra * b
  BY <1>1, Scaling
<1> DEFINE one == pc * b
           two == qc * a
           three == ra * b
<1>5. one \in Nat /\ two \in Nat /\ three \in Nat
  BY <1>1, Products
<1>6. /\ qa <= pb <=> two <= one
      /\ pb <= qa <=> one <= two
      /\ rb <= qc <=> three <= two
      /\ qc <= rb <=> two <= three
      /\ ra <= pc <=> three <= one
      /\ pc <= ra <=> one <= three
  BY <1>1, <1>2, <1>3, <1>4
<1> HIDE DEF one, two, three
<1>7. /\ qa <= pb /\ rb <= qc => ra <= pc
      /\ ~(pb <= qa) /\ rb <= qc => ~(pc <= ra)
      /\ qa <= pb /\ ~(qc <= rb) => ~(pc <= ra)
  BY <1>5, <1>6
<1> QED
  BY <1>7 DEF pb, pc, qa, qc, ra, rb

\* A mean that there is.
Scores == {a \in Means : a.count > 0}

LEMMA BetterOrders ==
    ASSUME NEW a \in Scores, NEW b \in Scores, NEW c \in Scores
    PROVE  /\ Better(a, b) => ~Better(b, a)
           /\ ~Better(b, a) /\ ~Better(c, b) => ~Better(c, a)
           /\ Better(a, b) /\ ~Better(c, b) => Better(a, c)
           /\ ~Better(b, a) /\ Better(b, c) => Better(a, c)
<1>1. /\ a.sum \in Nat /\ b.sum \in Nat /\ c.sum \in Nat
      /\ a.count \in Nat \ {0} /\ b.count \in Nat \ {0} /\ c.count \in Nat \ {0}
  BY DEF Scores, Means
<1>2. \A x, y \in {a, b, c} : x.sum * y.count \in Nat
  BY <1>1, Products
<1>3. \A x, y \in {a, b, c} : Better(x, y) <=> ~(x.sum * y.count <= y.sum * x.count)
  BY <1>2 DEF Better
<1>4. Better(a, b) => ~Better(b, a)
  BY <1>2 DEF Better
<1>5. /\ b.sum * a.count <= a.sum * b.count /\ c.sum * b.count <= b.sum * c.count
           => c.sum * a.count <= a.sum * c.count
      /\ ~(a.sum * b.count <= b.sum * a.count) /\ c.sum * b.count <= b.sum * c.count
           => ~(a.sum * c.count <= c.sum * a.count)
      /\ b.sum * a.count <= a.sum * b.count /\ ~(b.sum * c.count <= c.sum * b.count)
           => ~(a.sum * c.count <= c.sum * a.count)
  <2> DEFINE p == a.sum
             q == b.sum
             r == c.sum
             k == a.count
             l == b.count
             m == c.count
  <2>1. p \in Nat /\ q \in Nat /\ r \in Nat /\ k \in Nat \ {0} /\ l \in Nat \ {0} /\ m \in Nat \ {0}
    BY <1>1
  <2> HIDE DEF p, q, r, k, l, m
  <2>2. /\ q * k <= p * l /\ r * l <= q * m => r * k <= p * m
        /\ ~(p * l <= q * k) /\ r * l <= q * m => ~(p * m <= r * k)
        /\ q * k <= p * l /\ ~(q * m <= r * l) => ~(p * m <= r * k)
    BY <2>1, Chain
  <2> QED
    BY <2>2 DEF p, q, r, k, l, m
<1> QED
  BY <1>3, <1>4, <1>5

\* The order in which the loops come to the triples.
LEMMA AheadOrders ==
    ASSUME NEW t \in Trios, NEW u \in Trios, NEW v \in Trios
    PROVE  /\ Ahead(t, u) => ~Ahead(u, t)
           /\ Ahead(t, u) /\ Ahead(u, v) => Ahead(t, v)
           /\ t = u \/ Ahead(t, u) \/ Ahead(u, t)
           /\ t[1] = u[1] => (Ahead(t, u) <=> LexLess(t, u))
<1>1. /\ t = <<t[1], t[2], t[3]>> /\ t[1] \in Nat /\ t[2] \in Nat /\ t[3] \in Nat
      /\ u = <<u[1], u[2], u[3]>> /\ u[1] \in Nat /\ u[2] \in Nat /\ u[3] \in Nat
      /\ v = <<v[1], v[2], v[3]>> /\ v[1] \in Nat /\ v[2] \in Nat /\ v[3] \in Nat
  BY SizesAssumption DEF Trios, Rows
<1>2. Ahead(t, u) => ~Ahead(u, t)
  BY <1>1 DEF Ahead, LexLess
<1>3. Ahead(t, u) /\ Ahead(u, v) => Ahead(t, v)
  BY <1>1 DEF Ahead, LexLess
<1>4. t = u \/ Ahead(t, u) \/ Ahead(u, t)
  BY <1>1 DEF Ahead, LexLess
<1>5. t[1] = u[1] => (Ahead(t, u) <=> LexLess(t, u))
  BY <1>1 DEF Ahead
<1> QED
  BY <1>2, <1>3, <1>4, <1>5

\* Teams that compete: one per triple.
Field(S) ==
    /\ S \in SUBSET {c \in Teams : c.score.count > 0}
    /\ \A c, d \in S : c.rows = d.rows => c = d

LEMMA BeatsOrders ==
    ASSUME NEW S, Field(S), NEW c \in S, NEW d \in S, NEW e \in S
    PROVE  /\ Beats(c, d) => ~Beats(d, c)
           /\ Beats(c, d) /\ Beats(d, e) => Beats(c, e)
           /\ c = d \/ Beats(c, d) \/ Beats(d, c)
<1>1. /\ c.score \in Scores /\ d.score \in Scores /\ e.score \in Scores
      /\ c.rows \in Trios /\ d.rows \in Trios /\ e.rows \in Trios
      /\ c.rows = d.rows => c = d
  BY DEF Field, Teams, Scores, Means, Trios
<1>2. /\ Better(c.score, d.score) => ~Better(d.score, c.score)
      /\ Better(d.score, c.score) => ~Better(c.score, d.score)
      /\ Ahead(c.rows, d.rows) => ~Ahead(d.rows, c.rows)
      /\ c.rows = d.rows \/ Ahead(c.rows, d.rows) \/ Ahead(d.rows, c.rows)
      /\ Ahead(c.rows, d.rows) /\ Ahead(d.rows, e.rows) => Ahead(c.rows, e.rows)
  BY <1>1, BetterOrders, AheadOrders
<1>3. /\ ~Better(d.score, c.score) /\ ~Better(e.score, d.score) => ~Better(e.score, c.score)
      /\ Better(c.score, d.score) /\ ~Better(e.score, d.score) => Better(c.score, e.score)
      /\ ~Better(d.score, c.score) /\ Better(d.score, e.score) => Better(c.score, e.score)
      /\ Better(d.score, e.score) => ~Better(e.score, d.score)
  BY <1>1, BetterOrders
<1> QED
  BY <1>1, <1>2, <1>3 DEF Beats

\* Among finitely many that compete one beats the others.
LEMMA OneLeads ==
    ASSUME NEW S, Field(S), IsFiniteSet(S), S # {}
    PROVE  \E c \in S : \A d \in S \ {c} : Beats(c, d)
<1> DEFINE before == {p \in S \X S : Beats(p[1], p[2])}
           list == OrderedBy(S, before)
           n == Cardinality(S)
<1>1. \A c, d \in S : <<c, d>> \in before <=> Beats(c, d)
  OBVIOUS
<1> HIDE DEF before
<1>2. /\ \A c, d \in S : ~(<<c, d>> \in before /\ <<d, c>> \in before)
      /\ \A c, d, e \in S : <<c, d>> \in before /\ <<d, e>> \in before => <<c, e>> \in before
      /\ \A c, d \in S : c = d \/ <<c, d>> \in before \/ <<d, c>> \in before
  BY <1>1, BeatsOrders
<1>3. /\ n \in Nat /\ list \in [1 .. n -> S]
      /\ \A i, j \in 1 .. n : i < j => <<list[i], list[j]>> \in before
      /\ \A a \in S : \E i \in 1 .. n : list[i] = a
  BY <1>2, OrderedBySorts
<1> HIDE DEF list, n
<1>4. 1 \in 1 .. n
  BY <1>3
<1>5. list[1] \in S
  BY <1>3, <1>4
<1>6. ASSUME NEW d \in S \ {list[1]} PROVE Beats(list[1], d)
  <2>1. PICK i \in 1 .. n : list[i] = d
    BY <1>3
  <2>2. i # 1
    BY <2>1
  <2>3. 1 < i
    BY <1>3, <2>2
  <2>4. <<list[1], d>> \in before
    BY <1>3, <1>4, <2>1, <2>3
  <2> QED
    BY <1>1, <1>5, <2>4
<1> QED
  BY <1>5, <1>6
-----------------------------------------------------------------------------
(* The walk over the triples                                               *)

\* The triples that the walk has passed when it comes to a row.
Passed(n) == {t \in Triples : t[1] < n}

LEMMA TriplesAtIs ==
    ASSUME NEW i \in Rows
    PROVE  /\ TriplesAt(i) \in SUBSET Trios
           /\ \A t \in TriplesAt(i) : t[1] = i
  BY DEF TriplesAt, Trios

\* Row by row the walk passes them all, each once.
LEMMA PassedIs ==
    /\ \A n \in Nat : Passed(n) \in SUBSET Trios
    /\ Passed(1) = {}
    /\ \A n \in Rows : /\ Passed(n + 1) = Passed(n) \cup TriplesAt(n)
                       /\ Passed(n) \cap TriplesAt(n) = {}
                       /\ Cardinality(Passed(n + 1)) = Cardinality(Passed(n)) + Cardinality(TriplesAt(n))
    /\ \A n \in Nat : n > PoolSize => Passed(n) = Triples
<1>1. \A t \in Triples : t \in Trios /\ t[1] \in Rows /\ t \in TriplesAt(t[1])
  BY TriplesAtIs DEF Triples
<1>2. \A n \in Nat : Passed(n) \in SUBSET Trios
  BY <1>1 DEF Passed
<1>3. \A i \in Rows : i \in Nat /\ 1 <= i /\ i <= PoolSize
  BY SizesAssumption DEF Rows
<1>4. Passed(1) = {}
  BY <1>1, <1>3 DEF Passed
<1>5. ASSUME NEW n \in Nat, n > PoolSize PROVE Passed(n) = Triples
  <2>1. \A i \in Rows : i < n
    BY <1>3, <1>5, SizesAssumption
  <2> QED
    BY <1>1, <2>1 DEF Passed
<1>6. ASSUME NEW n \in Rows
      PROVE  /\ Passed(n + 1) = Passed(n) \cup TriplesAt(n)
             /\ Passed(n) \cap TriplesAt(n) = {}
             /\ Cardinality(Passed(n + 1)) = Cardinality(Passed(n)) + Cardinality(TriplesAt(n))
  <2>1. \A i \in Rows : i < n + 1 <=> i < n \/ i = n
    BY <1>3
  <2>2. TriplesAt(n) \in SUBSET Triples /\ \A t \in TriplesAt(n) : t[1] = n
    BY TriplesAtIs DEF Triples
  <2>3. \A t \in Triples : t[1] = n <=> t \in TriplesAt(n)
    BY <1>1, <2>2
  <2>4. Passed(n + 1) = Passed(n) \cup TriplesAt(n)
    BY <1>1, <2>1, <2>2, <2>3 DEF Passed
  <2>5. Passed(n) \cap TriplesAt(n) = {}
    BY <1>3, <2>2 DEF Passed
  <2>6. IsFiniteSet(Passed(n)) /\ IsFiniteSet(TriplesAt(n))
    BY <1>2, <1>3, TriplesAtIs, TriosFinite
  <2>7. Cardinality(Passed(n)) \in Nat /\ Cardinality(TriplesAt(n)) \in Nat /\ Cardinality({}) = 0
    BY <2>6, FS_CardinalityType, FS_EmptySet
  <2>8. Cardinality(Passed(n) \cup TriplesAt(n))
          = Cardinality(Passed(n)) + Cardinality(TriplesAt(n)) - Cardinality({})
    BY <2>5, <2>6, FS_Union
  <2>9. Cardinality(Passed(n) \cup TriplesAt(n)) = Cardinality(Passed(n)) + Cardinality(TriplesAt(n))
    BY <2>7, <2>8
  <2> QED
    BY <2>4, <2>5, <2>9
<1> QED
  BY <1>2, <1>4, <1>5, <1>6

\* The teams of triples: one for each that has a score, and none is missing.
LEMMA EntrantsAre ==
    ASSUME NEW m \in [Rows -> Row], NEW T \in SUBSET Trios,
           NEW x \in Champions, NEW label \in Labels
    PROVE  /\ Field(Entrants(m, T, x, label))
           /\ IsFiniteSet(Entrants(m, T, x, label))
           /\ \A c \in Entrants(m, T, x, label) : c # None /\ c.rows \in T
<1> DEFINE E == Entrants(m, T, x, label)
           team == [t \in T |-> Team(m, t, x, label)]
           all == {Team(m, t, x, label) : t \in T}
<1>1. \A t \in T : Team(m, t, x, label) \in Teams /\ Team(m, t, x, label).rows = t
  BY TeamIs DEF Team
<1>2. E = {c \in all : c.score.count > 0}
  BY DEF Entrants
<1>3. IsFiniteSet(all)
  <2>1. team \in [T -> all]
    OBVIOUS
  <2>2. \A c \in all : \E t \in T : team[t] = c
    OBVIOUS
  <2>3. IsFiniteSet(T)
    BY TriosFinite
  <2> HIDE DEF team, all
  <2>4. team \in Surjection(T, all)
    BY <2>1, <2>2 DEF Surjection
  <2> QED
    BY <2>3, <2>4, FS_Surjection
<1>4. \A c \in all : c \in Teams /\ c.rows \in T
  BY <1>1
<1>5. \A c, d \in all : c.rows = d.rows => c = d
  BY <1>1
<1> HIDE DEF all
<1>6. Field(E)
  BY <1>2, <1>4, <1>5 DEF Field
<1>7. IsFiniteSet(E)
  BY <1>2, <1>3, FS_Subset
<1>8. \A c \in E : c # None /\ c.rows \in T
  BY <1>2, <1>4, NilAssumption
<1> QED
  BY <1>6, <1>7, <1>8

\* One row more: its triples compete with those before.
LEMMA EntrantsGrow ==
    ASSUME NEW m \in [Rows -> Row], NEW n \in Rows, NEW x \in Champions, NEW label \in Labels
    PROVE  /\ Entrants(m, Passed(n + 1), x, label)
                = Entrants(m, Passed(n), x, label) \cup Entrants(m, TriplesAt(n), x, label)
           /\ Field(Entrants(m, Passed(n + 1), x, label))
           /\ \A c \in Entrants(m, Passed(n), x, label), d \in Entrants(m, TriplesAt(n), x, label) :
                 c # d /\ Ahead(c.rows, d.rows)
<1>1. Passed(n + 1) = Passed(n) \cup TriplesAt(n) /\ Passed(n) \cap TriplesAt(n) = {}
  BY PassedIs
<1>2. n \in Nat /\ n + 1 \in Nat
  BY SizesAssumption DEF Rows
<1>3. Passed(n) \in SUBSET Trios /\ Passed(n + 1) \in SUBSET Trios /\ TriplesAt(n) \in SUBSET Trios
  BY <1>2, PassedIs, TriplesAtIs
<1>4. Entrants(m, Passed(n + 1), x, label)
        = Entrants(m, Passed(n), x, label) \cup Entrants(m, TriplesAt(n), x, label)
  BY <1>1 DEF Entrants
<1>5. Field(Entrants(m, Passed(n + 1), x, label))
  BY <1>3, EntrantsAre
<1>6. ASSUME NEW c \in Entrants(m, Passed(n), x, label), NEW d \in Entrants(m, TriplesAt(n), x, label)
      PROVE  c # d /\ Ahead(c.rows, d.rows)
  <2>1. c.rows \in Passed(n) /\ d.rows \in TriplesAt(n)
    BY <1>3, EntrantsAre
  <2>2. c.rows[1] < n /\ d.rows[1] = n
    BY <2>1, TriplesAtIs DEF Passed
  <2> QED
    BY <1>1, <2>1, <2>2 DEF Ahead
<1> QED
  BY <1>4, <1>5, <1>6

\* A champion among some teams.
Leading(S, c) ==
    IF S = {} THEN c = None ELSE c \in S /\ \A d \in S \ {c} : Beats(c, d)

\* What the loops over a row's triples keep of the teams they come to, the first
\* of those that no other is better than, leads among them.
LEMMA FirstLeads ==
    ASSUME NEW B, Field(B), IsFiniteSet(B), B # {}, NEW i, \A c \in B : c.rows[1] = i,
           NEW L, \A c : c \in L <=> c \in B /\ ~\E d \in B : Better(d.score, c.score)
    PROVE  /\ \E c \in L : \A d \in L \ {c} : LexLess(c.rows, d.rows)
           /\ \A c \in L : (\A d \in L \ {c} : LexLess(c.rows, d.rows))
                           => \A d \in B \ {c} : Beats(c, d)
<1>1. PICK c \in B : \A d \in B \ {c} : Beats(c, d)
  BY OneLeads
<1>2. \A d \in B : /\ d.score \in Scores /\ d.rows \in Trios
                   /\ ~Better(d.score, d.score)
  <2>1. \A d \in B : d.score \in Scores /\ d.rows \in Trios
    BY DEF Field, Teams, Scores, Means, Trios
  <2> QED
    BY <2>1, BetterOrders
<1>3. \A d, e \in B : Ahead(d.rows, e.rows) <=> LexLess(d.rows, e.rows)
  BY <1>2, AheadOrders
<1>4. \A d \in B : ~Better(d.score, c.score)
  <2> SUFFICES ASSUME NEW d \in B, d # c PROVE ~Better(d.score, c.score)
    BY <1>2
  <2>1. Beats(c, d)
    BY <1>1
  <2> QED
    BY <1>2, <2>1, BetterOrders DEF Beats
<1>5. c \in L
  BY <1>4
<1>6. ASSUME NEW d \in L \ {c} PROVE LexLess(c.rows, d.rows)
  <2>1. d \in B /\ Beats(c, d) /\ ~Better(c.score, d.score)
    BY <1>1
  <2>2. Ahead(c.rows, d.rows)
    BY <2>1 DEF Beats
  <2> QED
    BY <1>3, <2>1, <2>2
<1>7. ASSUME NEW e \in L, \A d \in L \ {e} : LexLess(e.rows, d.rows) PROVE e = c
  <2> SUFFICES ASSUME e # c PROVE FALSE
    OBVIOUS
  <2>1. LexLess(e.rows, c.rows) /\ LexLess(c.rows, e.rows) /\ e \in B
    BY <1>5, <1>6, <1>7
  <2> QED
    BY <1>2, <1>3, <2>1, AheadOrders
<1> QED
  BY <1>1, <1>5, <1>6, <1>7

\* A champion of the rows before, defended against those of one more row.
LEMMA ChampionLeads ==
    ASSUME NEW i \in Rows, NEW x \in Champions, sim \in [Rows -> Row], entries = sim,
           entries[i] # None, NEW held,
           Leading(Entrants(sim, Passed(i), x, ChampionLabel(x)), held)
    PROVE  Leading(Entrants(sim, Passed(i + 1), x, ChampionLabel(x)), Champion(i, x, held))
<1> DEFINE A == Entrants(sim, Passed(i), x, ChampionLabel(x))
           B == Entrants(sim, TriplesAt(i), x, ChampionLabel(x))
           all == Entrants(sim, Passed(i + 1), x, ChampionLabel(x))
           L == Leaders(i, x)
           first == CHOOSE c \in L : \A d \in L \ {c} : LexLess(c.rows, d.rows)
<1>1. ChampionLabel(x) \in Labels /\ i \in Nat
  BY LabelsAre, SizesAssumption DEF Rows
<1>2. TriplesAt(i) \in SUBSET Trios /\ Passed(i) \in SUBSET Trios /\ \A t \in TriplesAt(i) : t[1] = i
  BY <1>1, TriplesAtIs, PassedIs
<1>3. /\ Field(B) /\ IsFiniteSet(B) /\ \A c \in B : c # None /\ c.rows[1] = i
      /\ Field(A) /\ \A c \in A : c # None
  BY <1>1, <1>2, EntrantsAre
<1>4. /\ all = A \cup B /\ Field(all)
      /\ \A c \in A, d \in B : c # d /\ Ahead(c.rows, d.rows)
  BY <1>1, EntrantsGrow
<1>5. \A c : c \in L <=> c \in B /\ ~\E d \in B : Better(d.score, c.score)
  BY DEF Leaders, EntrantsAt
<1>6. Champion(i, x, held) = IF L = {} THEN held
                             ELSE IF held # None /\ ~Better(first.score, held.score) THEN held
                             ELSE first
  BY DEF Champion
<1>7. Leading(A, held)
  OBVIOUS
<1>8. B # {} => L # {} /\ first \in B /\ \A d \in B \ {first} : Beats(first, d)
  <2> HIDE DEF B, L
  <2> SUFFICES ASSUME B # {} PROVE L # {} /\ first \in B /\ \A d \in B \ {first} : Beats(first, d)
    OBVIOUS
  <2>1. /\ \E c \in L : \A d \in L \ {c} : LexLess(c.rows, d.rows)
        /\ \A c \in L : (\A d \in L \ {c} : LexLess(c.rows, d.rows))
                        => \A d \in B \ {c} : Beats(c, d)
    <3>1. Field(B) /\ IsFiniteSet(B) /\ \A c \in B : c.rows[1] = i
      BY <1>3
    <3> QED
      BY <1>5, <3>1, FirstLeads
  <2>2. first \in L /\ \A d \in L \ {first} : LexLess(first.rows, d.rows)
    BY <2>1
  <2> HIDE DEF first
  <2> QED
    BY <1>5, <2>1, <2>2
<1>9. B = {} => L = {}
  BY <1>5
<1> SUFFICES Leading(all, Champion(i, x, held))
  OBVIOUS
<1> HIDE DEF A, B, all, L, first
<1>10. CASE B = {}
  BY <1>4, <1>6, <1>7, <1>9, <1>10
<1>11. CASE B # {} /\ A = {}
  <2>1. held = None /\ all = B /\ Champion(i, x, held) = first
    BY <1>4, <1>6, <1>7, <1>8, <1>11 DEF Leading
  <2> QED
    BY <1>8, <1>11, <2>1 DEF Leading
<1>12. CASE B # {} /\ A # {} /\ Better(first.score, held.score)
  <2>1. first \in all /\ held \in all /\ all # {} /\ Beats(first, held) /\ Champion(i, x, held) = first
    BY <1>4, <1>6, <1>7, <1>8, <1>12 DEF Leading, Beats
  <2>2. ASSUME NEW d \in all \ {first} PROVE Beats(first, d)
    <3>1. CASE d \in B
      BY <1>8, <1>12, <3>1
    <3>2. CASE d = held
      BY <2>1, <3>2
    <3>3. CASE d \in A /\ d # held
      <4>1. Beats(held, d)
        BY <1>7, <3>3 DEF Leading
      <4> QED
        BY <1>4, <2>1, <4>1, BeatsOrders
    <3> QED
      BY <1>4, <3>1, <3>2, <3>3
  <2> QED
    BY <2>1, <2>2 DEF Leading
<1>13. CASE B # {} /\ A # {} /\ ~Better(first.score, held.score)
  <2>1. held \in A /\ held # None /\ all # {} /\ \A d \in A \ {held} : Beats(held, d)
    BY <1>3, <1>4, <1>7, <1>13 DEF Leading
  <2>2. first \in all /\ held \in all /\ Beats(held, first) /\ Champion(i, x, held) = held
    BY <1>4, <1>6, <1>8, <1>13, <2>1 DEF Beats
  <2>3. ASSUME NEW d \in all \ {held} PROVE Beats(held, d)
    <3>1. CASE d \in A
      BY <2>1, <3>1
    <3>2. CASE d = first
      BY <2>2, <3>2
    <3>3. CASE d \in B /\ d # first
      <4>1. Beats(first, d)
        BY <1>8, <3>3
      <4> QED
        BY <1>4, <2>2, <4>1, BeatsOrders
    <3> QED
      BY <1>4, <3>1, <3>2, <3>3
  <2> QED
    BY <2>1, <2>2, <2>3 DEF Leading
<1> QED
  BY <1>10, <1>11, <1>12, <1>13
-----------------------------------------------------------------------------
(* The frontier                                                            *)

\* A list of n things.
LEMMA ListIs ==
    ASSUME NEW n \in Nat, NEW T, NEW list \in [1 .. n -> T]
    PROVE  list \in Seq(T) /\ Len(list) = n
  OBVIOUS

\* What the champions amount to once nobody is left to beat them.
LEMMA FrontierIs ==
    ASSUME sim \in [Rows -> Row], NEW b, \A x \in Champions : Leading(Contest(x), b[x]),
           NEW list, list = Assemble(b)
    PROVE  /\ \A m, n \in 1..Len(list) : list[m].rows = list[n].rows => m = n
           /\ \A x \in Champions : Contest(x) # {} =>
                 \E n \in 1..Len(list) : \E c \in Winners(x) : list[n].rows = c.rows
           /\ \A n \in 1..Len(list) : \E x \in Champions : list[n] \in Winners(x)
<1> DEFINE all == <<b[Overall], b[0], b[1], b[2]>>
           New(n) == /\ all[n] # None
                     /\ ~\E m \in 1..(n - 1) : all[m] # None /\ all[m].rows = all[n].rows
           K == {n \in 1..4 : New(n)}
           before == {p \in (1..4) \X (1..4) : p[1] < p[2]}
           kept == OrderedBy(K, before)
           N == Cardinality(K)
           of == <<Overall, 0, 1, 2>>
<1>1. list = [n \in 1..Len(kept) |-> all[kept[n]]]
  BY DEF Assemble
<1>2. /\ \A n \in 1..4 : all[n] = b[of[n]] /\ of[n] \in Champions
      /\ \A x \in Champions : \E n \in 1..4 : of[n] = x
  <2>1. \A n \in 1..4 : n = 1 \/ n = 2 \/ n = 3 \/ n = 4
    OBVIOUS
  <2>2. \A x \in Champions : x = Overall \/ x = 0 \/ x = 1 \/ x = 2
    BY DEF Champions, Scenarios
  <2>3. Overall \in Champions /\ 0 \in Champions /\ 1 \in Champions /\ 2 \in Champions
    BY DEF Champions, Scenarios
  <2> QED
    BY <2>1, <2>2, <2>3
<1> HIDE DEF all
<1>3. \A x \in Champions : /\ Contest(x) = {} => b[x] = None
                           /\ Contest(x) # {} => b[x] # None /\ b[x] \in Winners(x)
  <2>1. \A T \in SUBSET Trios : \A x \in Champions : \A c \in Entrants(sim, T, x, ChampionLabel(x)) : c # None
    BY LabelsAre, EntrantsAre
  <2>2. Triples \in SUBSET Trios
    BY TriplesAtIs DEF Triples
  <2>3. \A x \in Champions : \A c \in Contest(x) : c # None
    BY <2>1, <2>2 DEF Contest
  <2> QED
    BY <2>3 DEF Leading, Winners
<1>4. \A n \in 1..4 : all[n] # None => all[n] \in Winners(of[n])
  BY <1>2, <1>3
<1> HIDE DEF of
<1>5. /\ N \in Nat /\ kept \in [1..N -> K] /\ Len(kept) = N
      /\ \A i, j \in 1..N : i < j => kept[i] < kept[j]
      /\ \A n \in K : \E i \in 1..N : kept[i] = n
  <2> HIDE DEF New
  <2>1. IsFiniteSet(K)
    <3>1. 1 \in Int /\ 4 \in Int
      OBVIOUS
    <3>2. IsFiniteSet(1..4)
      BY <3>1, FS_Interval
    <3>3. K \in SUBSET (1..4)
      OBVIOUS
    <3> HIDE DEF K
    <3> QED
      BY <3>2, <3>3, FS_Subset
  <2>2. \A i, j \in K : <<i, j>> \in before <=> i < j
    OBVIOUS
  <2>3. \A i \in K : i \in Nat
    OBVIOUS
  <2> HIDE DEF K, before
  <2>4. /\ \A i, j \in K : ~(<<i, j>> \in before /\ <<j, i>> \in before)
        /\ \A i, j, k \in K : <<i, j>> \in before /\ <<j, k>> \in before => <<i, k>> \in before
        /\ \A i, j \in K : i = j \/ <<i, j>> \in before \/ <<j, i>> \in before
    BY <2>2, <2>3
  <2>5. /\ N \in Nat /\ kept \in [1..N -> K]
        /\ \A i, j \in 1..N : i < j => <<kept[i], kept[j]>> \in before
        /\ \A n \in K : \E i \in 1..N : kept[i] = n
    BY <2>1, <2>4, OrderedBySorts
  <2> HIDE DEF kept, N
  <2>6. Len(kept) = N
    BY <2>5, ListIs
  <2> QED
    BY <2>2, <2>5, <2>6
<1>6. \A n \in K : n \in 1..4 /\ New(n)
  OBVIOUS
<1>7. \A n \in 1..4 : New(n) => n \in K
  OBVIOUS
<1> HIDE DEF K, kept, N
<1>8. Len(list) = N /\ \A n \in 1..N : list[n] = all[kept[n]] /\ kept[n] \in 1..4 /\ New(kept[n])
  <2>1. list = [n \in 1..N |-> all[kept[n]]]
    BY <1>1, <1>5
  <2>2. Len(list) = N
    BY <1>5, <2>1
  <2>3. \A n \in 1..N : kept[n] \in K /\ list[n] = all[kept[n]]
    BY <1>5, <2>1
  <2> HIDE DEF New
  <2> QED
    BY <1>6, <2>2, <2>3
<1>9. ASSUME NEW m \in 1..N, NEW n \in 1..N, m < n PROVE list[m].rows # list[n].rows
  <2>1. kept[m] \in 1..4 /\ kept[n] \in 1..4 /\ kept[m] < kept[n]
    BY <1>5, <1>8, <1>9
  <2>2. kept[m] \in 1..(kept[n] - 1)
    BY <2>1
  <2> QED
    BY <1>8, <2>2
<1>10. \A m, n \in 1..N : list[m].rows = list[n].rows => m = n
  <2>1. \A m, n \in 1..N : m = n \/ m < n \/ n < m
    BY <1>5
  <2> QED
    BY <1>9, <2>1
<1>11. ASSUME NEW x \in Champions, Contest(x) # {}
       PROVE  \E n \in 1..N : \E c \in Winners(x) : list[n].rows = c.rows
  <2>1. PICK p \in 1..4 : of[p] = x
    BY <1>2
  <2>2. all[p] # None /\ all[p] \in Winners(x)
    BY <1>2, <1>3, <1>11, <2>1
  <2> DEFINE same == {m \in 1..4 : all[m] # None /\ all[m].rows = all[p].rows}
  <2>3. \E m \in same : \A n \in same : m <= n
    <3>1. p \in same /\ \A m \in same : m = 1 \/ m = 2 \/ m = 3 \/ m = 4
      BY <2>2
    <3> HIDE DEF same
    <3> QED
      BY <3>1
  <2>4. PICK m \in same : \A n \in same : m <= n
    BY <2>3
  <2>5. New(m)
    <3> SUFFICES ASSUME NEW n \in 1..(m - 1), all[n] # None, all[n].rows = all[m].rows PROVE FALSE
      OBVIOUS
    <3>1. n \in 1..4 /\ ~(m <= n)
      OBVIOUS
    <3> QED
      BY <2>4, <3>1
  <2>6. PICK i \in 1..N : kept[i] = m
    <3> HIDE DEF New
    <3> QED
      BY <1>5, <1>7, <2>4, <2>5
  <2>7. list[i].rows = all[p].rows
    BY <1>8, <2>6
  <2> QED
    BY <2>2, <2>7
<1>12. ASSUME NEW n \in 1..N PROVE \E x \in Champions : list[n] \in Winners(x)
  <2>1. all[kept[n]] # None /\ kept[n] \in 1..4 /\ list[n] = all[kept[n]]
    BY <1>8
  <2> QED
    BY <1>2, <1>4, <2>1
<1> QED
  BY <1>8, <1>10, <1>11, <1>12
-----------------------------------------------------------------------------
(* What a search has found                                                 *)

\* The teams found of those that compete under a label.
Found(x, label) == Entrants(sim, Passed(next), x, label)

\* Nothing is found while the matrix is filled.
Unsearched ==
    main \in Filling =>
        teams = <<>> /\ evaluated = 0 /\ best = [x \in Champions |-> None]

\* A search that nobody cancels leaves out no row, and answers only if nobody did.
Passing ==
    /\ main = "done" => ctx = "live"
    /\ main \in {"check", "done"} /\ ctx = "live" => next > PoolSize

Reading == main \in {"walk", "check", "done"} /\ ctx = "live"

\* What it has found is what the triples that it has passed give.
FoundTeams ==
    Reading /\ mode # "all_pareto"
    => LET found == Found(ScenarioFor(mode), LabelFor(mode))
       IN  teams \in Seq(found) /\ Len(teams) = Cardinality(found) /\ ToSet(teams) = found

FoundChampions ==
    Reading /\ mode = "all_pareto"
    => /\ \A x \in Champions : Leading(Found(x, ChampionLabel(x)), best[x])
       /\ main # "walk" => teams = Assemble(best)

Searched ==
    /\ Unsearched
    /\ Passing
    /\ Reading => evaluated = Cardinality(Passed(next))
    /\ FoundTeams
    /\ FoundChampions

LEMMA InitSearched == Init => Searched
  BY DEF Init, Searched, Unsearched, Passing, Reading, FoundTeams, FoundChampions, Filling

\* What was found depends on the champions, the triples passed and the engine only.
LEMMA SameFound ==
    ASSUME UNCHANGED <<sim, mode, required, next, best>>
    PROVE  /\ Passed(next)' = Passed(next)
           /\ Found(ScenarioFor(mode), LabelFor(mode))' = Found(ScenarioFor(mode), LabelFor(mode))
           /\ \A x \in Champions :
                 Leading(Found(x, ChampionLabel(x)), best[x])' <=> Leading(Found(x, ChampionLabel(x)), best[x])
           /\ Assemble(best)' = Assemble(best)
<1>1. Passed(next)' = Passed(next)
  <2>1. \A i : TriplesAt(i)' = TriplesAt(i)
    BY DEF TriplesAt, Eligible
  <2>2. Triples' = Triples
    BY <2>1 DEF Triples
  <2> QED
    BY <2>2 DEF Passed
<1>2. \A x, label : Found(x, label)' = Found(x, label)
  BY <1>1 DEF Found
<1>3. Found(ScenarioFor(mode), LabelFor(mode))' = Found(ScenarioFor(mode), LabelFor(mode))
  BY <1>1 DEF Found
<1>4. ASSUME NEW x \in Champions
      PROVE  Leading(Found(x, ChampionLabel(x)), best[x])' <=> Leading(Found(x, ChampionLabel(x)), best[x])
  <2>1. Found(x, ChampionLabel(x))' = Found(x, ChampionLabel(x))
    BY <1>2
  <2> QED
    BY <2>1 DEF Leading
<1>5. Assemble(best)' = Assemble(best)
  BY DEF Assemble
<1> QED
  BY <1>1, <1>3, <1>4, <1>5

\* Steps that leave alone what the search has found, and where it is.
LEMMA SearchedStays ==
    ASSUME Searched, UNCHANGED <<sim, mode, required, next, main, searchVars>>,
           ctx' = ctx \/ (ctx' = "cancelled" /\ main # "done")
    PROVE  Searched'
<1>1. UNCHANGED <<mode, next, main, teams, best, evaluated>> /\ (Reading' => Reading)
  BY DEF searchVars, Reading
<1>2. Unsearched' /\ Passing'
  BY <1>1 DEF Searched, Unsearched, Passing
<1>3. (Reading' => evaluated' = Cardinality(Passed(next)')) /\ FoundTeams'
  BY <1>1, SameFound DEF Searched, FoundTeams
<1>4. FoundChampions'
  BY <1>1, SameFound DEF Searched, FoundChampions
<1> QED
  BY <1>2, <1>3, <1>4 DEF Searched

\* The teams of a row are listed once each.
LEMMA LoopOrderIs ==
    ASSUME NEW B, Field(B), IsFiniteSet(B), NEW i, \A c \in B : c.rows[1] = i
    PROVE  /\ InLoopOrder(B) \in Seq(B)
           /\ Len(InLoopOrder(B)) = Cardinality(B)
           /\ ToSet(InLoopOrder(B)) = B
<1> DEFINE before == {p \in B \X B : LexLess(p[1].rows, p[2].rows)}
           list == OrderedBy(B, before)
           N == Cardinality(B)
<1>1. \A c, d \in B : <<c, d>> \in before <=> LexLess(c.rows, d.rows)
  OBVIOUS
<1>2. \A c \in B : c.rows \in Trios
  BY DEF Field, Teams, Trios
<1>3. \A c, d \in B : <<c, d>> \in before <=> Ahead(c.rows, d.rows)
  BY <1>1, <1>2, AheadOrders
<1> HIDE DEF before
<1>4. /\ \A c, d \in B : ~(<<c, d>> \in before /\ <<d, c>> \in before)
      /\ \A c, d, e \in B : <<c, d>> \in before /\ <<d, e>> \in before => <<c, e>> \in before
      /\ \A c, d \in B : c = d \/ <<c, d>> \in before \/ <<d, c>> \in before
  BY <1>2, <1>3, AheadOrders DEF Field
<1>5. N \in Nat /\ list \in [1..N -> B] /\ \A c \in B : \E n \in 1..N : list[n] = c
  BY <1>4, OrderedBySorts
<1>6. InLoopOrder(B) = list
  BY DEF InLoopOrder, before
<1> HIDE DEF list, N
<1>7. list \in Seq(B) /\ Len(list) = N
  BY <1>5, ListIs
<1>8. ToSet(list) = B
  BY <1>5 DEF ToSet
<1> QED
  BY <1>6, <1>7, <1>8 DEF N

\* One list after another.
LEMMA Joined ==
    ASSUME NEW A, NEW B, IsFiniteSet(A), IsFiniteSet(B), A \cap B = {},
           NEW s \in Seq(A), Len(s) = Cardinality(A), ToSet(s) = A,
           NEW t \in Seq(B), Len(t) = Cardinality(B), ToSet(t) = B
    PROVE  /\ s \o t \in Seq(A \cup B)
           /\ Len(s \o t) = Cardinality(A \cup B)
           /\ ToSet(s \o t) = A \cup B
<1>1. Cardinality(A) \in Nat /\ Cardinality(B) \in Nat /\ Cardinality({}) = 0
  BY FS_CardinalityType, FS_EmptySet
<1>2. Cardinality(A \cup B) = Cardinality(A) + Cardinality(B) - Cardinality({})
  BY FS_Union
<1>3. s \in Seq(A \cup B) /\ t \in Seq(A \cup B)
  OBVIOUS
<1>4. /\ s \o t \in Seq(A \cup B)
      /\ Len(s \o t) = Len(s) + Len(t)
      /\ \A n \in 1..Len(s) : (s \o t)[n] = s[n]
      /\ \A n \in 1..Len(t) : (s \o t)[Len(s) + n] = t[n]
  BY <1>3
<1>5. /\ DOMAIN s = 1..Len(s) /\ DOMAIN t = 1..Len(t) /\ DOMAIN (s \o t) = 1..(Len(s) + Len(t))
      /\ Len(s) \in Nat /\ Len(t) \in Nat
  BY <1>4
<1> DEFINE st == s \o t
<1>6. ASSUME NEW e \in A \cup B PROVE \E n \in DOMAIN st : st[n] = e
  <2>1. CASE e \in A
    <3>1. PICK n \in 1..Len(s) : s[n] = e
      BY <1>5, <2>1 DEF ToSet
    <3>2. n \in DOMAIN st /\ st[n] = e
      BY <1>4, <1>5, <3>1
    <3> QED
      BY <3>2
  <2>2. CASE e \in B
    <3>1. PICK n \in 1..Len(t) : t[n] = e
      BY <1>5, <2>2 DEF ToSet
    <3>2. Len(s) + n \in DOMAIN st /\ st[Len(s) + n] = e
      BY <1>4, <1>5, <3>1
    <3> QED
      BY <3>2
  <2> QED
    BY <2>1, <2>2
<1>7. \A n \in DOMAIN st : st[n] \in A \cup B
  BY <1>4, <1>5
<1> HIDE DEF st
<1>8. ToSet(st) = A \cup B
  BY <1>6, <1>7 DEF ToSet
<1>9. Len(s \o t) = Cardinality(A \cup B)
  BY <1>1, <1>2, <1>4
<1> QED
  BY <1>4, <1>8, <1>9 DEF st

\* A row whose triples the walk scores.
LEMMA WalkSearches ==
    ASSUME Inv, FullMatrix, Searched, Walk
    PROVE  Searched'
<1>1. /\ main = "walk" /\ ctx = "live" /\ next <= PoolSize
      /\ main' = "walk" /\ next' = next + 1
      /\ evaluated' = evaluated + Cardinality(TriplesAt(next))
      /\ UNCHANGED <<sim, mode, required, ctx>>
  BY WalkIsSafe DEF Walk, WalkAnchor, inputVars
<1>2. /\ mode = "all_pareto" => /\ best' = [x \in Champions |-> Champion(next, x, best[x])]
                                /\ teams' = teams
      /\ mode # "all_pareto" =>
            teams' = teams \o InLoopOrder(EntrantsAt(next, ScenarioFor(mode), LabelFor(mode)))
  BY WalkIsSafe DEF Walk, WalkAnchor
<1>3. /\ Reading /\ entries = sim /\ sim \in [Rows -> Row]
      /\ next \in Rows /\ entries[next] # None
  BY <1>1, SizesAssumption DEF Reading, FullMatrix, Inv, Types, Made, Rows
<1>4. Triples' = Triples
  <2>1. \A i : TriplesAt(i)' = TriplesAt(i)
    BY <1>1 DEF TriplesAt, Eligible
  <2> QED
    BY <2>1 DEF Triples
<1>5. Passed(next)' = Passed(next + 1)
  BY <1>1, <1>4 DEF Passed
<1>6. \A x, label : Found(x, label)' = Entrants(sim, Passed(next + 1), x, label)
  BY <1>1, <1>5 DEF Found
<1>7. evaluated' = Cardinality(Passed(next)')
  BY <1>1, <1>3, <1>5, PassedIs DEF Searched
<1>8. FoundTeams'
  <2> SUFFICES ASSUME mode # "all_pareto" PROVE FoundTeams'
    BY <1>1 DEF FoundTeams
  <2> DEFINE x == ScenarioFor(mode)
             label == LabelFor(mode)
             A == Entrants(sim, Passed(next), x, label)
             B == Entrants(sim, TriplesAt(next), x, label)
             all == Entrants(sim, Passed(next + 1), x, label)
             list == InLoopOrder(B)
  <2>1. x \in Champions /\ label \in Labels
    BY LabelsAre
  <2>2. /\ TriplesAt(next) \in SUBSET Trios /\ \A t \in TriplesAt(next) : t[1] = next
        /\ Passed(next) \in SUBSET Trios
    BY <1>3, TriplesAtIs, PassedIs, SizesAssumption DEF Rows
  <2>3. /\ Field(B) /\ IsFiniteSet(B) /\ \A c \in B : c.rows[1] = next
        /\ IsFiniteSet(A)
    BY <1>3, <2>1, <2>2, EntrantsAre
  <2>4. all = A \cup B /\ A \cap B = {}
    BY <1>3, <2>1, EntrantsGrow
  <2>5. teams \in Seq(A) /\ Len(teams) = Cardinality(A) /\ ToSet(teams) = A
    BY <1>3 DEF Searched, FoundTeams, Found
  <2>6. teams' = teams \o list
    BY <1>2, <1>3 DEF EntrantsAt
  <2> HIDE DEF A, B
  <2>7. list \in Seq(B) /\ Len(list) = Cardinality(B) /\ ToSet(list) = B
    BY <2>3, LoopOrderIs
  <2> HIDE DEF list, all
  <2>8. teams' \in Seq(all) /\ Len(teams') = Cardinality(all) /\ ToSet(teams') = all
    <3>1. IsFiniteSet(A) /\ IsFiniteSet(B) /\ A \cap B = {}
      BY <2>3, <2>4
    <3>2. /\ teams \o list \in Seq(A \cup B)
          /\ Len(teams \o list) = Cardinality(A \cup B)
          /\ ToSet(teams \o list) = A \cup B
      BY <2>5, <2>7, <3>1, Joined
    <3> QED
      BY <2>4, <2>6, <3>2
  <2>9. Found(ScenarioFor(mode), LabelFor(mode))' = all
    BY <1>1, <1>5 DEF Found, all, x, label
  <2> QED
    BY <2>8, <2>9 DEF FoundTeams
<1>9. FoundChampions'
  <2> SUFFICES ASSUME mode = "all_pareto", NEW x \in Champions
               PROVE  Leading(Found(x, ChampionLabel(x)), best[x])'
    BY <1>1 DEF FoundChampions
  <2>1. Leading(Entrants(sim, Passed(next), x, ChampionLabel(x)), best[x])
    BY <1>3 DEF Searched, FoundChampions, Found
  <2>2. Leading(Entrants(sim, Passed(next + 1), x, ChampionLabel(x)), Champion(next, x, best[x]))
    BY <1>3, <2>1, ChampionLeads
  <2>3. best'[x] = Champion(next, x, best[x])
    BY <1>2
  <2>4. Found(x, ChampionLabel(x))' = Entrants(sim, Passed(next + 1), x, ChampionLabel(x))
    BY <1>1, <1>5 DEF Found
  <2> QED
    BY <2>2, <2>3, <2>4 DEF Leading
<1>10. Unsearched' /\ Passing'
  BY <1>1 DEF Unsearched, Passing, Filling
<1> QED
  BY <1>7, <1>8, <1>9, <1>10 DEF Searched

\* The matrix is there: the walk begins with nothing passed.
LEMMA WaitSearches ==
    ASSUME Searched, Wait
    PROVE  Searched'
<1>1. /\ main' = "walk" /\ next' = 1 /\ mode' = mode /\ sim' = sim
      /\ teams' = <<>> /\ evaluated' = 0 /\ best' = [x \in Champions |-> None]
  BY DEF Wait, Searched, Unsearched, Filling, searchVars, inputVars
<1>2. Passed(next)' = {}
  <2>1. Triples' = Triples
    BY DEF Wait, inputVars, Triples, TriplesAt, Eligible
  <2> QED
    BY <1>1, <2>1, PassedIs DEF Passed
<1>3. \A x, label : Found(x, label)' = {}
  BY <1>2 DEF Found, Entrants
<1>4. evaluated' = Cardinality(Passed(next)') /\ Cardinality({}) = 0
  BY <1>1, <1>2, FS_EmptySet
<1>5. FoundTeams'
  <2>1. <<>> \in Seq({}) /\ Len(<<>>) = 0 /\ ToSet(<<>>) = {}
    BY DEF ToSet
  <2>2. Found(ScenarioFor(mode), LabelFor(mode))' = {}
    BY <1>3
  <2> QED
    BY <1>1, <1>4, <2>1, <2>2 DEF FoundTeams
<1>6. FoundChampions'
  <2>1. \A x \in Champions : Found(x, ChampionLabel(x))' = {} /\ best'[x] = None
    BY <1>1, <1>3
  <2> QED
    BY <1>1, <2>1 DEF FoundChampions, Leading
<1>7. Unsearched' /\ Passing'
  BY <1>1 DEF Unsearched, Passing, Filling
<1> QED
  BY <1>4, <1>5, <1>6, <1>7 DEF Searched

\* The walk is over, and the frontier is made of the champions; then the tool looks
\* once more at the context before it answers.
LEMMA EndSearches ==
    ASSUME Searched, WalkEnds \/ Return
    PROVE  Searched'
<1>1. /\ UNCHANGED <<sim, mode, required, next, ctx, best, evaluated>>
      /\ mode # "all_pareto" => teams' = teams
      /\ Reading' => Reading
  BY DEF WalkEnds, Return, inputVars, searchVars, Reading
<1>2. /\ mode = "all_pareto" => teams' = IF main = "walk" THEN Assemble(best) ELSE teams
      /\ main \in {"walk", "check"} /\ main' # "walk"
  BY DEF WalkEnds, Return, searchVars
<1>3. Unsearched' /\ Passing'
  BY DEF WalkEnds, Return, Searched, Unsearched, Passing, Filling
<1>4. (Reading' => evaluated' = Cardinality(Passed(next)')) /\ FoundTeams'
  BY <1>1, SameFound DEF Searched, FoundTeams
<1>5. FoundChampions'
  BY <1>1, <1>2, SameFound DEF Searched, FoundChampions
<1> QED
  BY <1>3, <1>4, <1>5 DEF Searched

LEMMA NextSearched == Inv /\ FullMatrix /\ Searched /\ [Next]_vars => Searched'
<1> SUFFICES ASSUME Inv, FullMatrix, Searched, [Next]_vars PROVE Searched'
  OBVIOUS
<1>1. CASE Spawn \/ SpawnEnds \/ Acquire
  <2>1. /\ main \in Filling /\ main' \in Filling
        /\ UNCHANGED <<teams, evaluated, best>>
    BY <1>1 DEF Spawn, SpawnEnds, Acquire, Filling, searchVars
  <2>2. Unsearched'
    BY <2>1 DEF Searched, Unsearched
  <2>3. ~Reading' /\ Passing'
    BY <2>1 DEF Reading, Passing, Filling
  <2> QED
    BY <2>2, <2>3 DEF Searched, FoundTeams, FoundChampions
<1>2. CASE Wait
  BY <1>2, WaitSearches
<1>3. CASE Walk
  BY <1>3, WalkSearches
<1>4. CASE WalkEnds \/ Return
  BY <1>4, EndSearches
<1>5. ASSUME NEW r \in Rows, Worker(r) PROVE Searched'
  <2>1. UNCHANGED <<sim, mode, required, next, main, searchVars>> /\ ctx' = ctx
    BY <1>5 DEF Worker, Fill, AddFails, Release, Done, inputVars
  <2> QED
    BY <2>1, SearchedStays
<1>6. CASE Cancel
  <2>1. UNCHANGED <<sim, mode, required, next, main, searchVars>> /\ ctx' = "cancelled" /\ main # "done"
    BY <1>6 DEF Cancel, inputVars
  <2> QED
    BY <2>1, SearchedStays
<1>7. CASE UNCHANGED vars
  <2>1. UNCHANGED <<sim, mode, required, next, main, searchVars>> /\ ctx' = ctx
    BY <1>7 DEF vars, inputVars
  <2> QED
    BY <2>1, SearchedStays
<1> QED
  BY <1>1, <1>2, <1>3, <1>4, <1>5, <1>6, <1>7 DEF Next, Main

\* An answer, in every mode, is the one that the whole matrix gives, for every
\* pool, meta, engine, required species and moment of a cancellation: each
\* eligible team with a valid sample once, or a frontier on which every scenario
\* and their mean has a team that no eligible one beats, the earliest such.
THEOREM SearchCompleteHolds == Spec => []SearchComplete
<1>1. Inv /\ Searched => SearchComplete
  <2> SUFFICES ASSUME Inv, Searched, main = "done" PROVE SearchComplete
    BY DEF SearchComplete, AllOrCancelled, FrontierBest
  <2>1. Reading /\ next > PoolSize /\ next \in Nat /\ sim \in [Rows -> Row]
    BY DEF Searched, Passing, Reading, Inv, Types
  <2>2. Passed(next) = Triples
    BY <2>1, PassedIs
  <2>3. AllOrCancelled
    BY <2>1, <2>2 DEF AllOrCancelled, Searched, FoundTeams, Found
  <2>4. CASE mode = "all_pareto"
    <3>1. \A x \in Champions : Leading(Contest(x), best[x])
      BY <2>1, <2>2, <2>4 DEF Searched, FoundChampions, Found, Contest
    <3>2. teams = Assemble(best)
      BY <2>1, <2>4 DEF Searched, FoundChampions
    <3>3. /\ \A m, n \in 1..Len(teams) : teams[m].rows = teams[n].rows => m = n
          /\ \A x \in Champions : Contest(x) # {} =>
                \E n \in 1..Len(teams) : \E c \in Winners(x) : teams[n].rows = c.rows
          /\ \A n \in 1..Len(teams) : \E x \in Champions : teams[n] \in Winners(x)
      BY <2>1, <3>1, <3>2, FrontierIs
    <3> QED
      BY <2>3, <3>3 DEF SearchComplete, FrontierBest
  <2> QED
    BY <2>3, <2>4 DEF SearchComplete, FrontierBest
<1>2. Spec => []Searched
  BY InitSearched, NextSearched, SpecInv, FullMatrixHolds, PTL DEF Spec
<1> QED
  BY <1>1, <1>2, SpecInv, PTL
=============================================================================
