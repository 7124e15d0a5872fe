--------------------------- MODULE ModeSearch_proofs ---------------------------
(***************************************************************************)
(* The loops of the mode searches return what ModeTable says they do, for    *)
(* every mode loop and every content of the registry.                        *)
(***************************************************************************)
EXTENDS ModeSearch, WellFoundedInduction, TLAPS

-------------------------------------------------------------------------------
(* A counted loop.  The recursion of its definition is taken apart by hand: the *)
(* least length of loop that no function computes would be one more than a      *)
(* length that one does.                                                        *)

\* A set of numbers has a least one.
LEMMA LeastNumber ==
  ASSUME NEW S \in SUBSET Nat, S # {}
  PROVE  \E k \in S : \A j \in S : k <= j
<1>1. PICK k \in S : \A j \in S : ~(<<j, k>> \in OpToRel(<, Nat))
  BY NatLessThanWellFounded, WFMin, Zenon
<1>2. \A j \in S : k <= j
  <2>1. \A j \in S : ~(j < k)
    BY <1>1, Zenon DEF OpToRel
  <2> QED BY <2>1, SMT
<1> QED BY <1>2

\* What f must be to be the history of the first m rounds.
History(f, m, S, start, step) ==
  /\ f \in [0 .. m -> S]
  /\ f[0] = start
  /\ \A k \in 1 .. m : f[k] = step[k][f[k - 1]]

LEMMA HistoryExists ==
  ASSUME NEW n \in Nat, NEW S, NEW start \in S, NEW step \in [1 .. n -> [S -> S]]
  PROVE  \E f : History(f, n, S, start, step)
<1> DEFINE Bad == {m \in 0 .. n : ~ \E f : History(f, m, S, start, step)}
<1> SUFFICES ASSUME ~ \E f : History(f, n, S, start, step) PROVE FALSE
  OBVIOUS
<1>0. n \in Bad
  BY SMT
<1>1. PICK m \in Bad : \A j \in Bad : m <= j
  <2>1. Bad \in SUBSET Nat
    BY SMT
  <2> HIDE DEF Bad
  <2> QED BY <1>0, <2>1, LeastNumber
<1>2. CASE m = 0
  <2> DEFINE f == [k \in 0 .. 0 |-> start]
  <2>1. History(f, m, S, start, step)
    BY <1>2, SMT DEF History
  <2> QED BY <2>1, <1>1
<1>3. CASE m # 0
  <2>1. m \in 1 .. n /\ m - 1 \in 0 .. n /\ m - 1 \notin Bad
    BY <1>1, <1>3, SMT
  <2>2. PICK g : History(g, m - 1, S, start, step)
    BY <2>1
  <2> DEFINE f == [k \in 0 .. m |-> IF k = m THEN step[m][g[m - 1]] ELSE g[k]]
  <2>3. g[m - 1] \in S /\ step[m] \in [S -> S]
    BY <2>1, <2>2, SMT DEF History
  <2>4. step[m][g[m - 1]] \in S
    BY <2>3
  <2>5. f \in [0 .. m -> S]
    BY <2>1, <2>2, <2>4, SMT DEF History
  <2>6. f[0] = start
    BY <2>1, <2>2, SMT DEF History
  <2>7. \A k \in 1 .. m : f[k] = step[k][f[k - 1]]
    BY <2>1, <2>2, SMT DEF History
  <2>8. History(f, m, S, start, step)
    BY <2>5, <2>6, <2>7 DEF History
  <2> QED BY <2>8, <1>1
<1> QED BY <1>2, <1>3

\* What holds at the start of a loop and is kept by every round holds at its end.
LEMMA RoundsKeep ==
  ASSUME NEW n \in Nat, NEW S, NEW start \in S, NEW step \in [1 .. n -> [S -> S]],
         NEW Good \in SUBSET ((0 .. n) \X S),
         <<0, start>> \in Good,
         \A k \in 1 .. n, v \in S : <<k - 1, v>> \in Good => <<k, step[k][v]>> \in Good
  PROVE  <<n, Rounds(n, start, step)>> \in Good
<1> DEFINE Eq(f) == f = [k \in 0 .. n |-> IF k = 0 THEN start ELSE step[k][f[k - 1]]]
           f == CHOOSE f : Eq(f)
<1>1. \E g : Eq(g)
  <2>1. PICK g : History(g, n, S, start, step)
    BY HistoryExists
  <2>2. g = [k \in 0 .. n |-> g[k]]
    BY <2>1, Zenon DEF History
  <2>3. \A k \in 0 .. n : g[k] = IF k = 0 THEN start ELSE step[k][g[k - 1]]
    BY <2>1, SMT DEF History
  <2>4. [k \in 0 .. n |-> g[k]] = [k \in 0 .. n |-> IF k = 0 THEN start ELSE step[k][g[k - 1]]]
    BY <2>3, Zenon
  <2>5. Eq(g)
    BY <2>2, <2>4, Zenon
  <2> QED BY <2>5
<1>2. Eq(f)
  BY <1>1, Zenon
<1> HIDE DEF f
<1> DEFINE Bad == {k \in 0 .. n : <<k, f[k]>> \notin Good}
<1>3. Bad = {}
  <2> SUFFICES ASSUME Bad # {} PROVE FALSE
    OBVIOUS
  <2>1. PICK k \in Bad : \A j \in Bad : k <= j
    <3>1. Bad \in SUBSET Nat
      BY SMT
    <3> HIDE DEF Bad
    <3> QED BY <3>1, LeastNumber
  <2>2. k # 0
    BY <1>2, <2>1, SMT
  <2>3. k \in 1 .. n /\ k - 1 \in 0 .. n /\ k - 1 \notin Bad
    BY <2>1, <2>2, SMT
  <2>4. f[k] = step[k][f[k - 1]]
    BY <1>2, <2>3, SMT
  <2>5. <<k - 1, f[k - 1]>> \in Good /\ f[k - 1] \in S
    BY <2>3
  <2>6. <<k, step[k][f[k - 1]]>> \in Good
    BY <2>3, <2>5
  <2> QED BY <2>1, <2>4, <2>6
<1>4. n \in 0 .. n /\ n \notin Bad
  BY <1>3, SMT
<1>5. <<n, f[n]>> \in Good
  BY <1>4
<1>6. Rounds(n, start, step) = f[n]
  BY Zenon DEF Rounds, f
<1> QED BY <1>5, <1>6

-------------------------------------------------------------------------------
(* The table. *)

LEMMA Rows ==
  /\ Lines = 1 .. 17 /\ Len(ResourcesAppMask) = 17
  /\ ResourcesAppMask[1].mode = Waiting /\ PrioOf(1) = 0 /\ Waiting \in Modes
  /\ \A j \in Lines : /\ ResourcesAppMask[j].mode \in Modes
                      /\ PrioOf(j) \in 0 .. 6
<1>1. Lines = 1 .. 17 /\ Len(ResourcesAppMask) = 17
  BY SMT DEF Lines, ResourcesAppMask
<1>2. \A j \in 1 .. 17 : PrioOf(j) \in 0 .. 6
  BY SMT DEF ResourcesAppMask, Row, PrioOf
<1>3. ResourcesAppMask[1].mode = Waiting /\ PrioOf(1) = 0
  BY SMT DEF ResourcesAppMask, Row, PrioOf, Waiting
<1>4. 1 \in Lines
  BY <1>1, SMT
<1> QED BY <1>1, <1>2, <1>3, <1>4 DEF Modes

\* A mode has one row.
LEMMA OneRow ==
  \A i, j \in Lines : ResourcesAppMask[i].mode = ResourcesAppMask[j].mode => i = j
<1>1. \A i, j \in 1 .. 17 : ResourcesAppMask[i].mode = ResourcesAppMask[j].mode => i = j
  BY SMTT(60) DEF ResourcesAppMask, Row
<1> QED BY <1>1, Rows

LEMMA RowOfMode ==
  ASSUME NEW j \in Lines
  PROVE  /\ LineOf(ResourcesAppMask[j].mode) = j
         /\ CheckModeResource(ResourcesAppMask[j].mode, ready) <=> Has(j)
<1>1. LineOf(ResourcesAppMask[j].mode) = j
  BY OneRow, Zenon DEF LineOf
<1>2. CheckModeResource(ResourcesAppMask[j].mode, ready) <=> Has(j)
  BY OneRow, Zenon DEF CheckModeResource, Has
<1> QED BY <1>1, <1>2

\* The mode loop is a non-empty sequence of rows of the table.
LEMMA LoopRows ==
  /\ N \in Nat \ {0} /\ Places = 1 .. N
  /\ \A i \in Places : /\ ModeLoop[i] \in Modes \ {Waiting}
                       /\ LineOf(ModeLoop[i]) \in Lines
                       /\ ResourcesAppMask[LineOf(ModeLoop[i])].mode = ModeLoop[i]
                       /\ Prio(i) = PrioOf(LineOf(ModeLoop[i])) /\ Prio(i) \in 0 .. 6
                       /\ CheckModeResource(ModeLoop[i], ready) <=> Has(LineOf(ModeLoop[i]))
<1>1. /\ N \in Nat \ {0} /\ Places = 1 .. N
      /\ \A i \in Places : ModeLoop[i] \in Modes \ {Waiting}
  BY LoopAssumption, SMT DEF N, Places
<1>2. ASSUME NEW i \in Places
      PROVE  /\ LineOf(ModeLoop[i]) \in Lines
             /\ ResourcesAppMask[LineOf(ModeLoop[i])].mode = ModeLoop[i]
             /\ Prio(i) = PrioOf(LineOf(ModeLoop[i])) /\ Prio(i) \in 0 .. 6
             /\ CheckModeResource(ModeLoop[i], ready) <=> Has(LineOf(ModeLoop[i]))
  <2>1. PICK j \in Lines : ModeLoop[i] = ResourcesAppMask[j].mode
    BY <1>1 DEF Modes
  <2>2. /\ LineOf(ModeLoop[i]) = j
        /\ CheckModeResource(ModeLoop[i], ready) <=> Has(j)
    BY <2>1, RowOfMode
  <2>3. Prio(i) = PrioOf(j)
    BY <2>2 DEF Prio, PrioOf
  <2> QED BY <2>1, <2>2, <2>3, Rows
<1> QED BY <1>1, <1>2

-------------------------------------------------------------------------------
(* FindPriorityMode. *)

\* After k places the line found is the first row, and no place so far is open,
\* or that of the open place so far that none exceeds, the last of equals.
BestPlace(k, i) ==
  /\ i \in Open(ready) /\ i <= k
  /\ \A j \in Open(ready) : j <= k => \/ Prio(j) < Prio(i)
                                      \/ Prio(j) = Prio(i) /\ j <= i

FoundPlace(k, found) ==
  \/ found = 1 /\ \A i \in Open(ready) : i > k
  \/ \E i \in Places : BestPlace(k, i) /\ found = LineOf(ModeLoop[i])

LEMMA PlaceRound ==
  ASSUME NEW k \in Places, NEW found \in Lines, FoundPlace(k - 1, found)
  PROVE  FoundPlace(k, TryPlace[k][found])
<1> DEFINE j == LineOf(ModeLoop[k])
<1>1. TryPlace[k][found] = IF Has(j) THEN Better(found, j) ELSE found
  BY DEF TryPlace
<1>2. k \in Open(ready) <=> Has(j)
  BY LoopRows DEF Open
<1>3. k \in 1 .. N /\ N \in Nat /\ PrioOf(j) = Prio(k) /\ Prio(k) \in 0 .. 6
  BY LoopRows
<1>4. \A i \in Open(ready) : i \in 1 .. N /\ i \in Places /\ Prio(i) \in 0 .. 6
  BY LoopRows DEF Open
<1> HIDE DEF j
<1>5. CASE ~ Has(j)
  <2>1. \A i \in Open(ready) : i <= k <=> i <= k - 1
    BY <1>2, <1>3, <1>4, <1>5, SMT
  <2>2. \A i \in Open(ready) : i > k <=> i > k - 1
    BY <1>2, <1>3, <1>4, <1>5, SMT
  <2>3. FoundPlace(k, found)
    BY <2>1, <2>2, Zenon DEF FoundPlace, BestPlace
  <2> QED BY <1>1, <1>5, <2>3
<1>6. CASE Has(j)
  <2>1. CASE found = 1 /\ \A i \in Open(ready) : i > k - 1
    <3>1. Better(found, j) = j
      BY <2>1, <1>3, Rows, SMT DEF Better
    <3>2. BestPlace(k, k)
      BY <2>1, <1>2, <1>3, <1>4, <1>6, SMT DEF BestPlace
    <3> QED BY <1>1, <1>6, <3>1, <3>2 DEF FoundPlace, j
  <2>2. CASE \E i \in Places : BestPlace(k - 1, i) /\ found = LineOf(ModeLoop[i])
    <3>1. PICK i \in Places : BestPlace(k - 1, i) /\ found = LineOf(ModeLoop[i])
      BY <2>2
    <3>2. i \in Open(ready) /\ i <= k - 1 /\ i \in 1 .. N /\ Prio(i) \in 0 .. 6
      BY <3>1, <1>4 DEF BestPlace
    <3>3. PrioOf(found) = Prio(i)
      BY <3>1, LoopRows
    <3>4. ASSUME NEW h \in Open(ready), h <= k - 1
          PROVE  \/ Prio(h) < Prio(i)
                 \/ Prio(h) = Prio(i) /\ h <= i
      BY <3>1, <3>4 DEF BestPlace
    <3>5. CASE Prio(i) <= Prio(k)
      <4>1. Better(found, j) = j
        BY <3>5, <3>3, <1>3, SMT DEF Better
      <4>2. BestPlace(k, k)
        BY <3>2, <3>4, <3>5, <1>2, <1>3, <1>4, <1>6, SMT DEF BestPlace
      <4> QED BY <1>1, <1>6, <4>1, <4>2 DEF FoundPlace, j
    <3>6. CASE ~(Prio(i) <= Prio(k))
      <4>1. Better(found, j) = found
        BY <3>6, <3>3, <1>3, SMT DEF Better
      <4>2. BestPlace(k, i)
        BY <3>2, <3>4, <3>6, <1>2, <1>3, <1>4, <1>6, SMT DEF BestPlace
      <4> QED BY <1>1, <1>6, <4>1, <4>2, <3>1 DEF FoundPlace
    <3> QED BY <3>5, <3>6
  <2> QED BY <2>1, <2>2 DEF FoundPlace
<1> QED BY <1>5, <1>6

LEMMA PriorityLoopAgrees == FindPriorityLoop = FindPriorityMode(ready)
<1> DEFINE Good == {p \in (0 .. N) \X Lines : FoundPlace(p[1], p[2])}
           found == Rounds(N, 1, TryPlace)
<1>1. N \in Nat /\ Places = 1 .. N /\ 1 \in Lines
  BY LoopRows, Rows, SMT
<1>2. TryPlace \in [1 .. N -> [Lines -> Lines]]
  BY <1>1, LoopRows DEF TryPlace, Better
<1>3. \A i \in Open(ready) : i \in 1 .. N /\ i \in Places
  BY LoopRows DEF Open
<1>4. <<0, 1>> \in Good
  <2>1. FoundPlace(0, 1)
    BY <1>3, SMT DEF FoundPlace
  <2> QED BY <1>1, <2>1, SMT
<1>5. \A k \in 1 .. N, v \in Lines : <<k - 1, v>> \in Good => <<k, TryPlace[k][v]>> \in Good
  <2> SUFFICES ASSUME NEW k \in 1 .. N, NEW v \in Lines, <<k - 1, v>> \in Good
               PROVE  <<k, TryPlace[k][v]>> \in Good
    OBVIOUS
  <2>1. FoundPlace(k - 1, v)
    OBVIOUS
  <2>2. FoundPlace(k, TryPlace[k][v])
    BY <1>1, <2>1, PlaceRound
  <2>3. TryPlace[k][v] \in Lines /\ k \in 0 .. N
    BY <1>2, SMT
  <2> QED BY <2>2, <2>3
<1>6. <<N, found>> \in Good
  <2>1. Good \in SUBSET ((0 .. N) \X Lines)
    OBVIOUS
  <2> HIDE DEF Good
  <2> QED BY <1>1, <1>2, <1>4, <1>5, <2>1, RoundsKeep
<1>7. FoundPlace(N, found)
  BY <1>6
<1> HIDE DEF found
<1>8. CASE found = 1 /\ \A i \in Open(ready) : i > N
  <2>1. Open(ready) = {}
    BY <1>8, <1>3, <1>1, SMT
  <2> QED BY <1>8, <2>1, Rows DEF FindPriorityLoop, FindPriorityMode, found
<1>9. CASE \E i \in Places : BestPlace(N, i) /\ found = LineOf(ModeLoop[i])
  <2>1. PICK i \in Places : BestPlace(N, i) /\ found = LineOf(ModeLoop[i])
    BY <1>9
  <2> DEFINE Best(h) == \A j \in Open(ready) : \/ Prio(j) < Prio(h)
                                               \/ Prio(j) = Prio(h) /\ j <= h
  <2>2. i \in Open(ready) /\ Best(i)
    BY <2>1, <1>3, <1>1, SMT DEF BestPlace
  <2>3. \A h \in Open(ready) : Best(h) => h = i
    <3>1. \A h \in Open(ready) : Prio(h) \in 0 .. 6 /\ h \in 1 .. N
      BY <1>3, LoopRows
    <3> QED BY <2>2, <3>1, <1>1, SMT
  <2>4. (CHOOSE h \in Open(ready) : Best(h)) = i
    <3> HIDE DEF Best
    <3> QED BY <2>2, <2>3
  <2>5. FindPriorityMode(ready) = ModeLoop[i]
    BY <2>2, <2>4 DEF FindPriorityMode
  <2> QED BY <2>1, <2>5, LoopRows DEF FindPriorityLoop, found
<1> QED BY <1>7, <1>8, <1>9 DEF FoundPlace

-------------------------------------------------------------------------------
(* FindResourceMode: the same over the lines of the table. *)

BestLine(res, k, i) ==
  /\ i \in Users(res, ready) /\ i <= k
  /\ \A j \in Users(res, ready) : j <= k => \/ PrioOf(j) < PrioOf(i)
                                            \/ PrioOf(j) = PrioOf(i) /\ j <= i

FoundLine(res, k, found) ==
  \/ found = 1 /\ \A i \in Users(res, ready) : i > k
  \/ BestLine(res, k, found)

LEMMA LineRound ==
  ASSUME NEW res, NEW k \in Lines, NEW found \in Lines, FoundLine(res, k - 1, found)
  PROVE  FoundLine(res, k, TryLine(res)[k][found])
<1>1. k \in Users(res, ready) <=> res \in ResourcesAppMask[k].need /\ Has(k) /\ InLoop(k)
  BY DEF Users, Has, InLoop
<1>2. TryLine(res)[k][found] = IF k \in Users(res, ready) THEN Better(found, k) ELSE found
  BY <1>1 DEF TryLine
<1>3. k \in 1 .. 17 /\ found \in 1 .. 17 /\ PrioOf(k) \in 0 .. 6 /\ PrioOf(found) \in 0 .. 6
  BY Rows
<1>4. \A i \in Users(res, ready) : i \in 1 .. 17 /\ PrioOf(i) \in 0 .. 6
  BY Rows DEF Users
<1>5. CASE k \notin Users(res, ready)
  <2>1. \A i \in Users(res, ready) : i <= k <=> i <= k - 1
    BY <1>3, <1>4, <1>5, SMT
  <2>2. \A i \in Users(res, ready) : i > k <=> i > k - 1
    BY <1>3, <1>4, <1>5, SMT
  <2>3. FoundLine(res, k, found)
    BY <2>1, <2>2, Zenon DEF FoundLine, BestLine
  <2> QED BY <1>2, <1>5, <2>3
<1>6. CASE k \in Users(res, ready)
  <2>1. CASE found = 1 /\ \A i \in Users(res, ready) : i > k - 1
    <3>1. Better(found, k) = k
      BY <2>1, <1>3, Rows, SMT DEF Better
    <3>2. BestLine(res, k, k)
      BY <2>1, <1>3, <1>4, <1>6, SMT DEF BestLine
    <3> QED BY <1>2, <1>6, <3>1, <3>2 DEF FoundLine
  <2>2. CASE BestLine(res, k - 1, found)
    <3>1. found \in Users(res, ready) /\ found <= k - 1
      BY <2>2 DEF BestLine
    <3>2. ASSUME NEW h \in Users(res, ready), h <= k - 1
          PROVE  \/ PrioOf(h) < PrioOf(found)
                 \/ PrioOf(h) = PrioOf(found) /\ h <= found
      BY <2>2, <3>2 DEF BestLine
    <3>3. CASE PrioOf(found) <= PrioOf(k)
      <4>1. Better(found, k) = k
        BY <3>3 DEF Better
      <4>2. BestLine(res, k, k)
        BY <3>1, <3>2, <3>3, <1>3, <1>4, <1>6, SMT DEF BestLine
      <4> QED BY <1>2, <1>6, <4>1, <4>2 DEF FoundLine
    <3>4. CASE ~(PrioOf(found) <= PrioOf(k))
      <4>1. Better(found, k) = found
        BY <3>4 DEF Better
      <4>2. BestLine(res, k, found)
        BY <3>1, <3>2, <3>4, <1>3, <1>4, <1>6, SMT DEF BestLine
      <4> QED BY <1>2, <1>6, <4>1, <4>2 DEF FoundLine
    <3> QED BY <3>3, <3>4
  <2> QED BY <2>1, <2>2 DEF FoundLine
<1> QED BY <1>5, <1>6

LEMMA ResourceLoopAgrees ==
  ASSUME NEW res
  PROVE  FindResourceLoop(res) = FindResourceMode(res, ready)
<1> DEFINE U == Users(res, ready)
           step == TryLine(res)
           Good == {p \in (0 .. 17) \X Lines : FoundLine(res, p[1], p[2])}
           found == Rounds(17, 1, step)
<1>1. Lines = 1 .. 17 /\ 1 \in Lines /\ 17 \in Nat
  BY Rows, SMT
<1>2. step \in [1 .. 17 -> [Lines -> Lines]]
  BY <1>1 DEF TryLine, Better
<1>3. \A i \in U : i \in 1 .. 17 /\ i \in Lines /\ PrioOf(i) \in 0 .. 6
  BY Rows DEF Users
<1>4. <<0, 1>> \in Good
  <2>1. FoundLine(res, 0, 1)
    BY <1>3, SMT DEF FoundLine
  <2> QED BY <1>1, <2>1, SMT
<1>5. \A k \in 1 .. 17, v \in Lines : <<k - 1, v>> \in Good => <<k, step[k][v]>> \in Good
  <2> SUFFICES ASSUME NEW k \in 1 .. 17, NEW v \in Lines, <<k - 1, v>> \in Good
               PROVE  <<k, step[k][v]>> \in Good
    OBVIOUS
  <2>1. FoundLine(res, k - 1, v)
    OBVIOUS
  <2>2. FoundLine(res, k, step[k][v])
    BY <1>1, <2>1, LineRound
  <2>3. step[k][v] \in Lines /\ k \in 0 .. 17
    BY <1>2, SMT
  <2> QED BY <2>2, <2>3
<1>6. <<17, found>> \in Good
  <2>1. Good \in SUBSET ((0 .. 17) \X Lines)
    OBVIOUS
  <2> HIDE DEF Good, step
  <2> QED BY <1>1, <1>2, <1>4, <1>5, <2>1, RoundsKeep
<1>7. FoundLine(res, 17, found)
  BY <1>6
<1>8. FindResourceLoop(res) = ResourcesAppMask[found].mode
  BY Rows DEF FindResourceLoop
<1> HIDE DEF found
<1>9. CASE found = 1 /\ \A i \in U : i > 17
  <2>1. U = {}
    BY <1>9, <1>3, SMT
  <2> QED BY <1>8, <1>9, <2>1, Rows DEF FindResourceMode
<1>10. CASE BestLine(res, 17, found)
  <2> DEFINE Best(h) == \A j \in U : \/ PrioOf(j) < PrioOf(h)
                                     \/ PrioOf(j) = PrioOf(h) /\ j <= h
  <2>1. found \in U /\ Best(found)
    BY <1>10, <1>3, SMT DEF BestLine
  <2>2. \A h \in U : Best(h) => h = found
    BY <2>1, <1>3, SMT
  <2>3. (CHOOSE h \in U : Best(h)) = found
    <3> HIDE DEF Best, U
    <3> QED BY <2>1, <2>2
  <2>4. FindResourceMode(res, ready) = ResourcesAppMask[found].mode
    BY <2>1, <2>3 DEF FindResourceMode, PrioOf
  <2> QED BY <2>4, <1>8
<1> QED BY <1>7, <1>9, <1>10 DEF FoundLine

-------------------------------------------------------------------------------
(* NextAppMode. *)

LEMMA Wraps ==
  ASSUME NEW n \in Nat \ {0}, NEW a \in 0 .. 2 * n - 1
  PROVE  a % n = IF a < n THEN a ELSE a - n
<1>1. CASE a < n
  BY <1>1, SMT
<1>2. CASE ~(a < n)
  <2> DEFINE b == a - n
  <2>1. b \in 0 .. n - 1
    BY <1>2, SMT
  <2>2. a = b + n
    BY SMT
  <2> HIDE DEF b
  <2>3. (b + n) % n = b
    BY <2>1, SMT
  <2>4. a % n = b
    BY <2>2, <2>3
  <2>5. b = a - n
    BY <2>1, <2>2, SMT
  <2> QED BY <1>2, <2>4, <2>5
<1> QED BY <1>1, <1>2

\* The k-th place the search visits, and the index it has before round k + 1.
LEMMA Visits ==
  ASSUME NEW mode
  PROVE  /\ FirstIndex(mode) = PlaceOf(mode) /\ PlaceOf(mode) \in 0 .. N
         /\ \A k \in 1 .. N : /\ (PlaceOf(mode) + k - 1) % N \in 0 .. N - 1
                             /\ After(mode, k) = ModeLoop[((PlaceOf(mode) + k - 1) % N) + 1]
                             /\ After(mode, k) \in Modes \ {Waiting}
<1>1. FirstIndex(mode) = PlaceOf(mode)
  BY DEF FirstIndex, PlaceOf
<1>2. PlaceOf(mode) \in 0 .. N
  <2>1. CASE \E i \in Places : ModeLoop[i] = mode
    <3> DEFINE p == CHOOSE i \in Places : ModeLoop[i] = mode
    <3>1. p \in Places /\ PlaceOf(mode) = p
      BY <2>1 DEF PlaceOf
    <3> HIDE DEF p
    <3> QED BY <3>1, LoopRows, SMT
  <2>2. CASE ~ \E i \in Places : ModeLoop[i] = mode
    <3>1. PlaceOf(mode) = 0
      BY <2>2, Zenon DEF PlaceOf
    <3> QED BY <3>1, LoopRows, SMT
  <2> QED BY <2>1, <2>2
<1>3. ASSUME NEW k \in 1 .. N
      PROVE  /\ (PlaceOf(mode) + k - 1) % N \in 0 .. N - 1
             /\ After(mode, k) = ModeLoop[((PlaceOf(mode) + k - 1) % N) + 1]
             /\ After(mode, k) \in Modes \ {Waiting}
  <2> DEFINE a == PlaceOf(mode) + k - 1
  <2>1. a \in 0 .. 2 * N - 1
    BY <1>2, LoopRows, SMT
  <2> HIDE DEF a
  <2>2. a % N \in 0 .. N - 1
    BY <2>1, LoopRows, Wraps, SMT
  <2>3. (a % N) + 1 \in Places
    BY <2>2, LoopRows, SMT
  <2>4. After(mode, k) = ModeLoop[(a % N) + 1]
    BY DEF After, a
  <2> QED BY <2>2, <2>3, <2>4, LoopRows DEF a
<1> QED BY <1>1, <1>2, <1>3

\* Before it returns, the search stands behind the places it has visited, and none
\* was available; what it returns is the first one available.
Standing(mode, k, s) ==
  /\ s.mode = Waiting
  /\ s.index = IF k = 0 THEN PlaceOf(mode) ELSE ((PlaceOf(mode) + k - 1) % N) + 1
  /\ \A j \in Steps(mode, ready) : j > k

Returned(mode, k, s) ==
  \E i \in Steps(mode, ready) : /\ i <= k /\ s.mode = After(mode, i)
                              /\ \A j \in Steps(mode, ready) : i <= j

LEMMA IndexRound ==
  ASSUME NEW mode, NEW k \in Places, NEW s \in Searches,
         Standing(mode, k - 1, s) \/ Returned(mode, k - 1, s)
  PROVE  LET t == TryIndex[k][s]
         IN  /\ t \in Searches
             /\ Standing(mode, k, t) \/ Returned(mode, k, t)
<1> DEFINE index == s.index % N
           t == TryIndex[k][s]
           a == PlaceOf(mode) + k - 1
<1>1. /\ k \in 1 .. N /\ N \in Nat \ {0} /\ s.index \in 0 .. N
      /\ PlaceOf(mode) \in 0 .. N
  BY LoopRows, Visits DEF Searches
<1>2. t = IF s.mode # Waiting THEN s
          ELSE IF CheckModeResource(ModeLoop[index + 1], ready)
            THEN [index |-> index, mode |-> ModeLoop[index + 1]]
            ELSE [index |-> index + 1, mode |-> Waiting]
  BY DEF TryIndex
<1>3. Waiting \in Modes
  BY Rows
<1>4. CASE Returned(mode, k - 1, s)
  <2>1. PICK i \in Steps(mode, ready) : /\ i <= k - 1 /\ s.mode = After(mode, i)
                                        /\ \A j \in Steps(mode, ready) : i <= j
    BY <1>4 DEF Returned
  <2>2. i \in 1 .. N
    BY <2>1 DEF Steps
  <2>3. s.mode # Waiting
    BY <2>1, <2>2, Visits
  <2>4. t = s
    BY <1>2, <2>3
  <2>5. i <= k
    BY <2>1, <2>2, <1>1, SMT
  <2>6. Returned(mode, k, s)
    BY <2>1, <2>5, Zenon DEF Returned
  <2> QED BY <2>4, <2>6
<1>5. CASE Standing(mode, k - 1, s)
  <2>1. index = a % N
    <3>1. CASE k = 1
      <4>1. s.index = PlaceOf(mode) /\ a = PlaceOf(mode)
        BY <3>1, <1>1, <1>5, SMT DEF Standing
      <4> QED BY <4>1
    <3>2. CASE k # 1
      <4>1. k - 1 \in 1 .. N /\ k - 1 # 0 /\ a - 1 = PlaceOf(mode) + (k - 1) - 1
        BY <3>2, <1>1, SMT
      <4>2. s.index = ((a - 1) % N) + 1
        BY <4>1, <1>5, Zenon DEF Standing
      <4>3. a \in 1 .. 2 * N - 1
        BY <3>2, <1>1, SMT
      <4> HIDE DEF a
      <4>4. /\ a % N = IF a < N THEN a ELSE a - N
            /\ (a - 1) % N = IF a - 1 < N THEN a - 1 ELSE a - 1 - N
        <5>1. a \in 0 .. 2 * N - 1 /\ a - 1 \in 0 .. 2 * N - 1
          BY <4>3, <1>1, SMT
        <5> QED BY <5>1, <1>1, Wraps
      <4>5. s.index % N = IF s.index < N THEN s.index ELSE s.index - N
        <5>1. s.index \in 0 .. 2 * N - 1
          BY <1>1, SMT
        <5> QED BY <5>1, <1>1, Wraps
      <4> HIDE DEF index
      <4>6. index = IF s.index < N THEN s.index ELSE s.index - N
        BY <4>5 DEF index
      <4> QED BY <4>2, <4>3, <4>4, <4>6, <1>1, SMT
    <3> QED BY <3>1, <3>2
  <2>2. /\ index \in 0 .. N - 1 /\ After(mode, k) = ModeLoop[index + 1]
        /\ After(mode, k) \in Modes \ {Waiting}
    BY <2>1, <1>1, Visits
  <2>3. s.mode = Waiting /\ \A j \in Steps(mode, ready) : j > k - 1
    BY <1>5 DEF Standing
  <2>4. \A j \in Steps(mode, ready) : j \in 1 .. N
    BY DEF Steps
  <2>5. a = PlaceOf(mode) + k - 1
    OBVIOUS
  <2> HIDE DEF index, t, a
  <2>6. CASE CheckModeResource(ModeLoop[index + 1], ready)
    <3>1. t = [index |-> index, mode |-> After(mode, k)]
      BY <1>2, <2>2, <2>3, <2>6
    <3>2. k \in Steps(mode, ready)
      BY <1>1, <2>2, <2>6 DEF Steps
    <3>3. \A j \in Steps(mode, ready) : k <= j
      BY <2>3, <2>4, <1>1, SMT
    <3>4. t \in Searches /\ t.mode = After(mode, k) /\ k <= k
      BY <3>1, <2>2, <1>1, SMT DEF Searches
    <3>5. Returned(mode, k, t)
      BY <3>2, <3>3, <3>4, Zenon DEF Returned
    <3> QED BY <3>4, <3>5 DEF t
  <2>7. CASE ~ CheckModeResource(ModeLoop[index + 1], ready)
    <3>1. t = [index |-> index + 1, mode |-> Waiting]
      BY <1>2, <2>3, <2>7
    <3>2. k \notin Steps(mode, ready)
      BY <2>2, <2>7 DEF Steps
    <3>3. \A j \in Steps(mode, ready) : j > k
      BY <2>3, <2>4, <3>2, <1>1, SMT
    <3>4. t \in Searches /\ t.mode = Waiting /\ t.index = index + 1
      BY <3>1, <2>2, <1>1, <1>3, SMT DEF Searches
    <3>5. t.index = IF k = 0 THEN PlaceOf(mode) ELSE ((PlaceOf(mode) + k - 1) % N) + 1
      BY <3>4, <2>1, <2>5, <1>1, SMT
    <3>6. Standing(mode, k, t)
      BY <3>3, <3>4, <3>5, Zenon DEF Standing
    <3> QED BY <3>4, <3>6 DEF t
  <2> QED BY <2>6, <2>7
<1> QED BY <1>4, <1>5

LEMMA NextLoopAgrees ==
  ASSUME NEW mode
  PROVE  NextAppLoop(mode) = NextAppMode(mode, ready)
<1> DEFINE start == [index |-> FirstIndex(mode), mode |-> Waiting]
           Good == {p \in (0 .. N) \X Searches :
                      Standing(mode, p[1], p[2]) \/ Returned(mode, p[1], p[2])}
           end == Rounds(N, start, TryIndex)
           S == Steps(mode, ready)
<1>1. N \in Nat /\ Places = 1 .. N /\ 0 \in 0 .. N
  BY LoopRows, SMT
<1>2. start \in Searches
  <2>1. Waiting \in Modes
    BY Rows
  <2> QED BY <2>1, Visits DEF Searches
<1>3. TryIndex \in [1 .. N -> [Searches -> Searches]]
  <2>1. ASSUME NEW k \in 1 .. N, NEW s \in Searches
        PROVE  TryIndex[k][s] \in Searches
    <3> DEFINE index == s.index % N
    <3>1. s.index \in 0 .. 2 * N - 1 /\ s.mode \in Modes /\ N \in Nat \ {0}
      BY LoopRows, SMT DEF Searches
    <3>2. index \in 0 .. N - 1
      BY <3>1, Wraps, SMT
    <3> HIDE DEF index
    <3>3. index + 1 \in Places /\ index \in 0 .. N /\ index + 1 \in 0 .. N
      BY <3>1, <3>2, <1>1, SMT
    <3>4. ModeLoop[index + 1] \in Modes /\ Waiting \in Modes
      BY <3>3, LoopRows, Rows, Zenon
    <3>5. TryIndex[k][s] =
            IF s.mode # Waiting THEN s
            ELSE IF CheckModeResource(ModeLoop[index + 1], ready)
              THEN [index |-> index, mode |-> ModeLoop[index + 1]]
              ELSE [index |-> index + 1, mode |-> Waiting]
      BY <1>1 DEF TryIndex, index
    <3> QED BY <3>3, <3>4, <3>5 DEF Searches
  <2>2. TryIndex = [k \in 1 .. N |-> [s \in Searches |-> TryIndex[k][s]]]
    BY <1>1, Zenon DEF TryIndex
  <2> QED BY <2>1, <2>2, Zenon
<1>4. \A j \in S : j \in 1 .. N
  BY DEF Steps
<1>5. <<0, start>> \in Good
  <2>1. \A j \in S : j > 0
    BY <1>4, SMT
  <2>2. Standing(mode, 0, start)
    BY <2>1, Visits DEF Standing
  <2> QED BY <1>1, <1>2, <2>2
<1>6. \A k \in 1 .. N, v \in Searches : <<k - 1, v>> \in Good => <<k, TryIndex[k][v]>> \in Good
  <2> SUFFICES ASSUME NEW k \in 1 .. N, NEW v \in Searches, <<k - 1, v>> \in Good
               PROVE  <<k, TryIndex[k][v]>> \in Good
    OBVIOUS
  <2>1. Standing(mode, k - 1, v) \/ Returned(mode, k - 1, v)
    OBVIOUS
  <2>2. /\ TryIndex[k][v] \in Searches
        /\ Standing(mode, k, TryIndex[k][v]) \/ Returned(mode, k, TryIndex[k][v])
    BY <1>1, <2>1, IndexRound
  <2>3. k \in 0 .. N
    BY <1>1, SMT
  <2> QED BY <2>2, <2>3
<1>7. <<N, end>> \in Good
  <2>1. Good \in SUBSET ((0 .. N) \X Searches)
    OBVIOUS
  <2> HIDE DEF Good, start
  <2> QED BY <1>1, <1>2, <1>3, <1>5, <1>6, <2>1, RoundsKeep
<1>8. Standing(mode, N, end) \/ Returned(mode, N, end)
  BY <1>7
<1>9. NextAppLoop(mode) = end.mode
  BY DEF NextAppLoop
<1> HIDE DEF end
<1>10. CASE Standing(mode, N, end)
  <2>1. S = {}
    BY <1>10, <1>4, <1>1, SMT DEF Standing
  <2>2. end.mode = Waiting
    BY <1>10 DEF Standing
  <2> QED BY <1>9, <2>1, <2>2 DEF NextAppMode
<1>11. CASE Returned(mode, N, end)
  <2>1. PICK i \in S : end.mode = After(mode, i) /\ \A j \in S : i <= j
    BY <1>11 DEF Returned
  <2>2. \A h \in S : (\A j \in S : h <= j) => h = i
    BY <2>1, <1>4, SMT
  <2>3. (CHOOSE h \in S : \A j \in S : h <= j) = i
    <3> HIDE DEF S
    <3> QED BY <2>1, <2>2
  <2>4. NextAppMode(mode, ready) = After(mode, i)
    BY <2>1, <2>3 DEF NextAppMode
  <2> QED BY <1>9, <2>1, <2>4
<1> QED BY <1>8, <1>10, <1>11

-------------------------------------------------------------------------------
\* Whatever is registered, FindPriorityMode and FindResourceMode return the
\* available mode of highest priority, the last of equals (mode_switch_api.c:778).
THEOREM PrioritySearch == PriorityAgrees
BY PriorityLoopAgrees, ResourceLoopAgrees DEF PriorityAgrees

\* Whatever is registered, NextAppMode returns the first available mode after the
\* given one, going round, and Waiting when there is none (mode_switch_api.c:840).
THEOREM NextSearch == NextAgrees
BY NextLoopAgrees DEF NextAgrees
===============================================================================
