-------------------------- MODULE BreakPoint_proofs --------------------------
(***************************************************************************)
(* The power-off memory finds the newest settings again, for every number  *)
(* of blocks and of images in a block, wherever the power fails.           *)
(***************************************************************************)
EXTENDS BreakPoint, SequenceTheorems, WellFoundedInduction, TLAPS

Used == UsedIn(image)
Full(im, b) == im[b][Subs] # Blank
Room(im) == {b \in UsedIn(im) : ~Full(im, b)}

\* In a block the images stand one behind the other from its start, each with the
\* ids of its place; at most one block is partly filled, and unless the last block is
\* in use it is the highest one.
Runs(im) == \A b \in Block : \A s \in Sub :
    im[b][s] # Blank => /\ im[b][s].id = b /\ im[b][s].sub = s
                        /\ \A t \in 1 .. s : im[b][t] # Blank
OneRoom(im) == \A b, c \in Room(im) : b = c
RoomIsLast(im) == Blocks \notin UsedIn(im) => \A b \in Room(im), c \in UsedIn(im) : c <= b

\* Blocks 1 to j are filled in their order; those behind j are full, with older images.
FilledTo(im, i, j) == \A b \in UsedIn(im) : b <= j => \A c \in i .. b - 1 : Full(im, c)
Shape(im, j) == FilledTo(im, 1, j) /\ \A c \in Block : c > j => Full(im, c)
Shaped(im, l) == /\ l = "nothing" => Shape(im, Blocks)
                 /\ l = "end" => \E j \in Block : Shape(im, j)

\* The last block's image passes for the newest.
EndIsNewest(im) == /\ Room(im) = {} /\ Blocks \in UsedIn(im)
                   /\ 1 \in UsedIn(im) => Block \ UsedIn(im) = {}

\* The calls left when the blocks from c on are still to be erased.
ErasesFrom(c, v) ==
    [i \in 1 .. Blocks + 2 - c |-> IF i = Blocks + 2 - c THEN Write(1, 1, v)
                                   ELSE Erase(c + i - 1)]

LoadsSaved == ~Misread => LoadedFrom(image) = saved

Fresh == ~(NextSlot.sub = 1 /\ NextSlot.block \in Used)

\* The three phases: nothing to do, one write into the slot behind the newest
\* image, or the blocks from c on to erase.
Resting == Idle /\ Shaped(image, left) /\ LoadsSaved
Writing ==
    /\ calls = <<Write(NextSlot.block, NextSlot.sub, info)>>
    /\ Fresh
    /\ Shaped(image, left) /\ (NewestIsWhole(image) => LoadsSaved)
ErasingFrom(c) ==
    /\ calls = ErasesFrom(c, info)
    /\ \A b \in 1 .. c - 1 : b \notin Used
    /\ Used # {} /\ ~EndIsNewest(image) => ~NewestIsWhole(image)
    /\ left = "nothing" => /\ FilledTo(image, c, Blocks)
                           /\ NewestIsWhole(image) => LoadedFrom(image) = saved
    /\ left = "end" /\ 1 \in Used => Shaped(image, left)

IInv == /\ TypeOK /\ Runs(image) /\ OneRoom(image) /\ RoomIsLast(image)
        /\ Resting \/ Writing \/ \E c \in Block : ErasingFrom(c)

\* A set of numbers has a least one, and a bounded one a greatest.
LEMMA LeastExists ==
  ASSUME NEW S \in SUBSET Nat, S # {}
  PROVE  First(S) \in S /\ \A m \in S : First(S) <= m
<1>1. PICK k \in S : \A j \in S : ~(<<j, k>> \in OpToRel(<, Nat))
  BY NatLessThanWellFounded, WFMin, Zenon
<1>2. \A j \in S : k <= j
  <2>1. \A j \in S : ~(j < k)
    BY <1>1, Zenon DEF OpToRel
  <2> QED BY <2>1, SMT
<1> QED BY <1>2 DEF First

LEMMA LastExists ==
  ASSUME NEW n \in Nat, NEW S \in SUBSET (0 .. n), S # {}
  PROVE  Last(S) \in S /\ \A m \in S : m <= Last(S)
<1> DEFINE T == {x \in 0 .. n : n - x \in S}
<1>1. T \in SUBSET Nat /\ T # {}
  <2>1. PICK x \in S : x \in 0 .. n
    OBVIOUS
  <2>2. n - x \in T
    BY <2>1, SMT
  <2>3. T \in SUBSET Nat
    BY SMT
  <2> QED BY <2>2, <2>3, Zenon
<1>2. First(T) \in T /\ \A m \in T : First(T) <= m
  <2> HIDE DEF T
  <2> QED BY <1>1, LeastExists
<1> DEFINE k == n - First(T)
<1>3. k \in S
  BY <1>2
<1>4. \A m \in S : k >= m
  <2> TAKE m \in S
  <2>1. n - m \in T /\ m \in 0 .. n
    BY SMT
  <2>2. First(T) \in 0 .. n /\ First(T) <= n - m
    BY <1>2, <2>1
  <2> QED BY <2>1, <2>2, SMT
<1>5. \E x \in S : \A m \in S : x >= m
  <2> HIDE DEF k
  <2> QED BY <1>3, <1>4, Zenon
<1>6. Last(S) \in S /\ \A m \in S : Last(S) >= m
  BY <1>5, Zenon DEF Last
<1>7. \A m \in S : m \in 0 .. n
  OBVIOUS
<1> QED BY <1>6, <1>7, SMT

\* The one number with the property of First, or of Last.
LEMMA FirstIs ==
  ASSUME NEW S \in SUBSET Nat, NEW k \in S, \A m \in S : k <= m
  PROVE  First(S) = k
<1>1. First(S) \in S /\ \A m \in S : First(S) <= m
  BY LeastExists
<1>2. k \in Nat /\ First(S) \in Nat /\ k <= First(S) /\ First(S) <= k
  BY <1>1
<1> QED BY <1>2, SMT

LEMMA LastIs ==
  ASSUME NEW n \in Nat, NEW S \in SUBSET (0 .. n), NEW k \in S, \A m \in S : m <= k
  PROVE  Last(S) = k
<1>1. Last(S) \in S /\ \A m \in S : m <= Last(S)
  BY LastExists
<1>2. k \in 0 .. n /\ Last(S) \in 0 .. n /\ k <= Last(S) /\ Last(S) <= k
  BY <1>1
<1> QED BY <1>2, SMT

-----------------------------------------------------------------------------
(* What the search finds in images of this shape. *)

Images == [Block -> [Sub -> Image \cup {Blank}]]

\* n images stand in block b.
Holds(im, b, n) == n \in Sub /\ im[b][n] # Blank /\ (n = Subs \/ im[b][n + 1] = Blank)

LEMMA SubsAreNumbers ==
  /\ Blocks \in Nat /\ Blocks > 1 /\ Subs \in Nat /\ Subs > 1
  /\ Block \in SUBSET Nat /\ Block \in SUBSET (0 .. Blocks)
  /\ Sub \in SUBSET Nat /\ Sub \in SUBSET (0 .. Subs)
  /\ 1 \in Block /\ Blocks \in Block /\ 1 \in Sub /\ Subs \in Sub
  BY SizesAssumption, SMT DEF Block, Sub

LEMMA NewestOfHolds ==
  ASSUME NEW im \in Images, Runs(im), NEW b \in UsedIn(im)
  PROVE  /\ b \in Block
         /\ \E n \in Sub : Holds(im, b, n)
         /\ \A n \in Sub : Holds(im, b, n) => NewestOf(im[b]) = im[b][n]
<1> DEFINE S == {s \in Sub : \A t \in 1 .. s : im[b][t] # Blank}
<1>1. b \in Block /\ im[b][1] # Blank
  BY DEF UsedIn
<1>2. S \in SUBSET (0 .. Subs) /\ 1 \in S
  BY <1>1, SubsAreNumbers, SMT DEF Sub
<1>3. \A s \in Sub : s \in S <=> im[b][s] # Blank
  BY <1>1, SubsAreNumbers, SMT DEF Runs, Sub
<1>4. \E n \in Sub : Holds(im, b, n)
  <2> DEFINE n == Last(S)
  <2>1. n \in S /\ \A m \in S : m <= n
    BY <1>2, LastExists, SubsAreNumbers
  <2>2. n \in Sub /\ im[b][n] # Blank
    BY <1>3, <2>1
  <2>3. ASSUME n # Subs PROVE im[b][n + 1] = Blank
    <3>1. n + 1 \in Sub /\ ~(n + 1 <= n)
      BY <2>2, <2>3, SubsAreNumbers, SMT DEF Sub
    <3>2. n + 1 \notin S
      BY <2>1, <3>1
    <3> QED BY <3>1, <3>2, <1>3
  <2> QED BY <2>2, <2>3 DEF Holds
<1>5. ASSUME NEW n \in Sub, Holds(im, b, n)
      PROVE  NewestOf(im[b]) = im[b][n]
  <2>1. n \in S
    BY <1>3, <1>5 DEF Holds
  <2>2. \A m \in S : m <= n
    <3> SUFFICES ASSUME NEW m \in S, ~(m <= n) PROVE FALSE
      OBVIOUS
    <3>1. m \in Sub /\ im[b][m] # Blank
      BY <1>3
    <3>2. n + 1 \in 1 .. m /\ n # Subs
      BY <3>1, <1>5, SubsAreNumbers, SMT DEF Sub
    <3>3. im[b][n + 1] # Blank
      BY <1>1, <3>1, <3>2 DEF Runs
    <3> QED BY <3>2, <3>3, <1>5 DEF Holds
  <2>3. Last(S) = n
    <3> HIDE DEF S
    <3> QED BY <1>2, <2>1, <2>2, LastIs, SubsAreNumbers
  <2> QED BY <2>3 DEF NewestOf
<1> QED BY <1>1, <1>4, <1>5

\* What LatestIn reads from a used block: its id, and whether it has room.
LEMMA NewestIds ==
  ASSUME NEW im \in Images, Runs(im), NEW b \in UsedIn(im)
  PROVE  /\ NewestOf(im[b]).id = b
         /\ NewestOf(im[b]).sub < Subs <=> b \in Room(im)
         /\ \A n \in Sub : Holds(im, b, n) => NewestOf(im[b]).sub = n
<1>1. PICK n \in Sub : Holds(im, b, n)
  BY NewestOfHolds
<1>2. b \in Block /\ NewestOf(im[b]) = im[b][n] /\ im[b][n] # Blank
  BY <1>1, NewestOfHolds DEF Holds
<1>3. NewestOf(im[b]).id = b /\ NewestOf(im[b]).sub = n
  BY <1>2 DEF Runs
<1>4. n < Subs <=> b \in Room(im)
  <2>1. CASE n = Subs
    BY <2>1, <1>2, SubsAreNumbers, SMT DEF Room, Full
  <2>2. CASE n # Subs
    <3>1. n < Subs /\ n + 1 \in 1 .. Subs /\ im[b][n + 1] = Blank
      BY <2>2, <1>1, SubsAreNumbers, SMT DEF Holds, Sub
    <3>2. im[b][Subs] = Blank
      BY <3>1, <1>2, SubsAreNumbers DEF Runs
    <3> QED BY <3>1, <3>2 DEF Room, Full
  <2> QED BY <2>1, <2>2
<1>5. \A m \in Sub : Holds(im, b, m) => NewestOf(im[b]).sub = m
  BY <1>2, NewestOfHolds DEF Holds, Runs
<1> QED BY <1>3, <1>4, <1>5

\* The set of blocks with room, as LatestIn computes it.
LEMMA RoomIsRoom ==
  ASSUME NEW im \in Images, Runs(im)
  PROVE  LET newest == [b \in UsedIn(im) |-> NewestOf(im[b])]
         IN  {b \in UsedIn(im) : newest[b].sub < Subs} = Room(im)
  BY NewestIds, Zenon DEF Room

\* A block with room holds the newest image.
LEMMA LatestInRoom ==
  ASSUME NEW im \in Images, Runs(im), OneRoom(im), NEW k \in Room(im),
         NEW n \in Sub, Holds(im, k, n)
  PROVE  LatestIn(im) = Place(k, n) /\ n < Subs
<1> DEFINE newest == [b \in UsedIn(im) |-> NewestOf(im[b])]
           room == {b \in UsedIn(im) : newest[b].sub < Subs}
<1>1. room = Room(im)
  BY RoomIsRoom
<1>2. k \in UsedIn(im) /\ k \in Block
  BY DEF Room, UsedIn
<1>3. newest[k].sub = n /\ n < Subs
  BY <1>2, NewestIds
<1>4. First(Room(im)) = k
  <2>1. Room(im) \in SUBSET Nat /\ k \in Nat
    BY SubsAreNumbers DEF Room, UsedIn
  <2>2. \A m \in Room(im) : m = k
    BY DEF OneRoom
  <2> QED BY <2>1, <2>2, FirstIs
<1>5. LatestIn(im) = Place(First(room), newest[First(room)].sub)
  BY <1>1 DEF LatestIn
<1> QED BY <1>1, <1>3, <1>4, <1>5

\* Without room it is the last image of the highest block, unless blocks are being
\* filled again before it: then of the block before the first blank one.
Refilled(im) == Blocks \in UsedIn(im) /\ 1 \in UsedIn(im) /\ Block \ UsedIn(im) # {}

LEMMA LatestFull ==
  ASSUME NEW im \in Images, Runs(im), Room(im) = {},
         NEW h \in UsedIn(im), \A c \in UsedIn(im) : c <= h
  PROVE  LatestIn(im) = IF Refilled(im) THEN Place(First(Block \ UsedIn(im)) - 1, Subs)
                        ELSE Place(h, Subs)
<1> DEFINE used == UsedIn(im)
           newest == [b \in UsedIn(im) |-> NewestOf(im[b])]
           highs == {b \in used : \A c \in used : newest[c].id <= newest[b].id}
<1>1. used \in SUBSET Block /\ used \in SUBSET (0 .. Blocks)
  BY SubsAreNumbers DEF UsedIn
<1>2. \A b \in used : newest[b].id = b
  BY NewestIds
<1>3. highs = {b \in used : \A c \in used : c <= b}
  BY <1>2
<1>4. h \in highs /\ \A b \in highs : b <= h
  BY <1>3
<1>5. Last(highs) = h
  <2>1. highs \in SUBSET (0 .. Blocks)
    BY <1>1
  <2> HIDE DEF highs
  <2> QED BY <2>1, <1>4, LastIs, SubsAreNumbers
<1>6. {b \in used : newest[b].sub < Subs} = {}
  BY RoomIsRoom
<1>7. newest[h].sub = Subs
  <2>1. Holds(im, h, Subs)
    BY <1>1, SubsAreNumbers DEF Holds, Room, Full
  <2> QED BY <2>1, NewestIds, SubsAreNumbers
<1>8. LatestIn(im) = IF h = Blocks /\ 1 \in used /\ Block \ used # {}
                     THEN Place(First(Block \ used) - 1, Subs)
                     ELSE Place(h, newest[h].sub)
  BY <1>5, <1>6 DEF LatestIn
<1>9. h = Blocks <=> Blocks \in used
  <2>1. \A c \in used : c \in Nat /\ c <= Blocks /\ c <= h
    BY <1>1
  <2> QED BY <2>1, SubsAreNumbers, SMT
<1> QED BY <1>7, <1>8, <1>9 DEF Refilled

\* There is a highest used block; and the block before the first blank one is used.
LEMMA HighestUsed ==
  ASSUME NEW im, UsedIn(im) # {}
  PROVE  \E h \in UsedIn(im) : \A c \in UsedIn(im) : c <= h
<1>1. UsedIn(im) \in SUBSET (0 .. Blocks)
  BY SubsAreNumbers DEF UsedIn
<1> QED BY <1>1, LastExists, SubsAreNumbers

LEMMA FirstBlank ==
  ASSUME NEW im, Refilled(im)
  PROVE  LET f == First(Block \ UsedIn(im))
         IN  /\ f \in Block \ UsedIn(im) /\ f - 1 \in UsedIn(im)
             /\ \A b \in 1 .. f - 1 : b \in UsedIn(im)
<1> DEFINE blank == Block \ UsedIn(im)
           f == First(blank)
<1>1. f \in blank /\ \A m \in blank : f <= m
  <2>1. blank \in SUBSET Nat /\ blank # {}
    BY SubsAreNumbers DEF Refilled
  <2> HIDE DEF blank
  <2> QED BY <2>1, LeastExists
<1>2. f \in Block /\ f # 1
  BY <1>1 DEF Refilled
<1>3. f \in Nat /\ f > 1 /\ f <= Blocks
  BY <1>2, SubsAreNumbers, SMT DEF Block
<1>4. \A b \in 1 .. f - 1 : b \in UsedIn(im)
  <2> SUFFICES ASSUME NEW b \in 1 .. f - 1 PROVE b \in UsedIn(im)
    OBVIOUS
  <2>1. b \in Block /\ ~(f <= b)
    BY <1>3, SubsAreNumbers, SMT DEF Block
  <2> QED BY <1>1, <2>1
<1>5. f - 1 \in 1 .. f - 1
  BY <1>3, SMT
<1> QED BY <1>1, <1>4, <1>5

\* The newest image is the last one of its block.
LEMMA LatestIsImage ==
  ASSUME NEW im \in Images, Runs(im), OneRoom(im), UsedIn(im) # {}
  PROVE  \E b \in UsedIn(im), s \in Sub :
            /\ LatestIn(im) = Place(b, s) /\ Holds(im, b, s)
            /\ IF Room(im) = {} THEN s = Subs ELSE b \in Room(im) /\ s < Subs
<1>1. CASE Room(im) # {}
  <2>1. PICK k \in Room(im) : TRUE
    BY <1>1
  <2>2. k \in UsedIn(im)
    BY DEF Room
  <2>3. PICK n \in Sub : Holds(im, k, n)
    BY <2>2, NewestOfHolds
  <2>4. LatestIn(im) = Place(k, n) /\ n < Subs
    BY <2>3, LatestInRoom
  <2> QED BY <1>1, <2>2, <2>3, <2>4
<1>2. CASE Room(im) = {}
  <2>1. \A b \in UsedIn(im) : Holds(im, b, Subs)
    BY <1>2, SubsAreNumbers DEF Holds, Room, Full
  <2>2. PICK h \in UsedIn(im) : \A c \in UsedIn(im) : c <= h
    BY HighestUsed
  <2>3. \E b \in UsedIn(im) : LatestIn(im) = Place(b, Subs)
    BY <1>2, <2>2, LatestFull, FirstBlank
  <2> QED BY <1>2, <2>1, <2>3, SubsAreNumbers
<1> QED BY <1>1, <1>2

LEMMA RemainderBelow ==
  ASSUME NEW x \in Int
  PROVE  /\ x \in 0 .. Blocks - 1 => x % Blocks = x
         /\ (x % Blocks) + 1 \in Block
  BY SubsAreNumbers, SMT DEF Block

LEMMA ValueAtType ==
  ASSUME NEW im \in Images, NEW b \in Block, NEW s \in Sub, im[b][s] # Blank
  PROVE  im[b][s].value \in Settings \cup {Torn}
<1>1. im[b][s] \in Image
  BY DEF Images
<1> QED BY <1>1 DEF Image

\* A start loads settings, or nothing.
LEMMA LoadedType ==
  ASSUME NEW im \in Images, Runs(im), OneRoom(im)
  PROVE  LoadedFrom(im) \in Settings \cup {Torn}
<1>1. CASE UsedIn(im) = {}
  BY <1>1 DEF LoadedFrom
<1>2. CASE UsedIn(im) # {}
  <2>1. PICK b \in UsedIn(im), s \in Sub : LatestIn(im) = Place(b, s) /\ Holds(im, b, s)
    BY <1>2, LatestIsImage
  <2>2. b \in Block /\ ValueAt(im, LatestIn(im)) = im[b][s].value
    BY <2>1 DEF UsedIn, ValueAt, Place
  <2>3. ValueAt(im, LatestIn(im)) \in Settings \cup {Torn}
    BY <2>1, <2>2, ValueAtType DEF Holds
  <2>4. Fallback(im, b) \in Settings \cup {Torn}
    <3> DEFINE tried == [i \in 1 .. Blocks |-> im[((b + i - 2) % Blocks) + 1][Subs]]
               decided == {i \in 1 .. Blocks : tried[i] = Blank \/ tried[i].value # Torn}
    <3>1. \A i \in 1 .. Blocks : /\ ((b + i - 2) % Blocks) + 1 \in Block
                                 /\ tried[i] # Blank => tried[i].value \in Settings \cup {Torn}
      <4> SUFFICES ASSUME NEW i \in 1 .. Blocks
                   PROVE  /\ ((b + i - 2) % Blocks) + 1 \in Block
                          /\ tried[i] # Blank => tried[i].value \in Settings \cup {Torn}
        OBVIOUS
      <4>1. b + i - 2 \in Int
        BY <2>2, SubsAreNumbers, SMT DEF Block
      <4>2. ((b + i - 2) % Blocks) + 1 \in Block
        BY <4>1, RemainderBelow
      <4> QED BY <4>2, ValueAtType, SubsAreNumbers
    <3>2. decided # {} => First(decided) \in 1 .. Blocks
      <4>1. decided \in SUBSET Nat /\ decided \in SUBSET (1 .. Blocks)
        BY SubsAreNumbers, SMT
      <4> HIDE DEF decided
      <4> QED BY <4>1, LeastExists
    <3>3. Fallback(im, b) = IF decided = {} \/ tried[First(decided)] = Blank THEN Torn
                            ELSE tried[First(decided)].value
      BY Zenon DEF Fallback
    <3> HIDE DEF decided, tried
    <3> QED BY <3>1, <3>2, <3>3
  <2>5. LatestIn(im).block = b
    BY <2>1 DEF Place
  <2> QED BY <1>2, <2>3, <2>4, <2>5 DEF LoadedFrom
<1> QED BY <1>1, <1>2

\* When the newest image is torn and its block is not full, nothing is loaded: the
\* first slot that is tried instead is blank.
LEMMA TornRoomIsLost ==
  ASSUME NEW im \in Images, Runs(im), OneRoom(im), Room(im) # {},
         ValueAt(im, LatestIn(im)) = Torn
  PROVE  LoadedFrom(im) = Torn
<1>1. UsedIn(im) # {}
  BY DEF Room
<1>2. PICK b \in UsedIn(im), s \in Sub : LatestIn(im) = Place(b, s) /\ b \in Room(im)
  BY <1>1, LatestIsImage
<1>3. b \in Block /\ im[b][Subs] = Blank
  BY <1>2 DEF Room, Full, UsedIn
<1> DEFINE tried == [i \in 1 .. Blocks |-> im[((b + i - 2) % Blocks) + 1][Subs]]
           decided == {i \in 1 .. Blocks : tried[i] = Blank \/ tried[i].value # Torn}
<1>4. tried[1] = Blank
  <2>1. b + 1 - 2 \in 0 .. Blocks - 1 /\ (b + 1 - 2) + 1 = b /\ 1 \in 1 .. Blocks
    BY <1>3, SubsAreNumbers, SMT DEF Block
  <2>2. ((b + 1 - 2) % Blocks) + 1 = b
    BY <2>1, RemainderBelow
  <2> QED BY <1>3, <2>1, <2>2
<1>5. 1 \in decided /\ \A m \in decided : 1 <= m
  BY <1>4, SubsAreNumbers
<1>6. First(decided) = 1
  <2>1. decided \in SUBSET Nat
    OBVIOUS
  <2> HIDE DEF decided
  <2> QED BY <1>5, <2>1, FirstIs
<1>7. Fallback(im, b) = IF decided = {} \/ tried[First(decided)] = Blank THEN Torn
                        ELSE tried[First(decided)].value
  BY Zenon DEF Fallback
<1>8. Fallback(im, b) = Torn
  <2> HIDE DEF decided, tried
  <2> QED BY <1>4, <1>6, <1>7
<1>9. LatestIn(im).block = b
  BY <1>2 DEF Place
<1> QED BY <1>1, <1>8, <1>9 DEF LoadedFrom

\* A whole newest image is what a start loads.
LEMMA WholeIsLoaded ==
  ASSUME NEW im, UsedIn(im) # {}, ValueAt(im, LatestIn(im)) # Torn
  PROVE  LoadedFrom(im) = ValueAt(im, LatestIn(im))
  BY DEF LoadedFrom

-----------------------------------------------------------------------------
(* A write goes into a free slot, keeps the shape, and is the newest image. *)

LEMMA FullIsUsed ==
  ASSUME NEW im, Runs(im), NEW b \in Block, Full(im, b)
  PROVE  b \in UsedIn(im) /\ \A s \in Sub : im[b][s] # Blank
<1>1. \A t \in 1 .. Subs : im[b][t] # Blank
  BY SubsAreNumbers DEF Runs, Full
<1> QED BY <1>1, SubsAreNumbers DEF UsedIn, Sub

\* The slot behind the newest image, in the cases NextSlot tells apart.
LEMMA NextSlotIs ==
  ASSUME image \in Images, Runs(image), OneRoom(image)
  PROVE  /\ Used = {} => NextSlot = Place(1, 1)
         /\ \A b \in Used, s \in Sub :
               LatestIn(image) = Place(b, s) =>
                  NextSlot = IF s < Subs THEN Place(b, s + 1)
                             ELSE IF b < Blocks THEN Place(b + 1, 1) ELSE Place(1, 1)
<1>1. Used = {} => NextSlot = Place(1, 1)
  BY DEF NextSlot, Used
<1>2. ASSUME NEW b \in Used, NEW s \in Sub, LatestIn(image) = Place(b, s)
      PROVE  NextSlot = IF s < Subs THEN Place(b, s + 1)
                        ELSE IF b < Blocks THEN Place(b + 1, 1) ELSE Place(1, 1)
  <2>1. LatestIn(image).block = b /\ LatestIn(image).sub = s /\ Used # {}
    BY <1>2 DEF Place
  <2>2. NewestOf(image[b]).id = b
    BY NewestIds DEF Used
  <2> QED BY <2>1, <2>2 DEF NextSlot, Used
<1> QED BY <1>1, <1>2

LEMMA SlotIsFree ==
  ASSUME image \in Images, Runs(image), OneRoom(image), Fresh,
         NEW p, NEW s, p = NextSlot.block, s = NextSlot.sub
  PROVE  /\ p \in Block /\ s \in Sub /\ NextSlot = Place(p, s)
         /\ image[p][s] = Blank /\ \A t \in 1 .. s - 1 : image[p][t] # Blank
         /\ Room(image) = IF s = 1 THEN {} ELSE {p}
         /\ s = 1 <=> p \notin Used
         /\ s = 1 /\ Used # {} =>
               \E b \in Used : /\ LatestIn(image) = Place(b, Subs)
                               /\ p = IF b < Blocks THEN b + 1 ELSE 1
<1>1. CASE Used = {}
  <2>1. NextSlot = Place(1, 1) /\ p = 1 /\ s = 1
    BY <1>1, NextSlotIs DEF Place
  <2> QED BY <1>1, <2>1, SubsAreNumbers, SMT DEF Room, Used, UsedIn
<1>2. CASE Used # {} /\ Room(image) # {}
  <2>1. PICK b \in Used, n \in Sub : /\ LatestIn(image) = Place(b, n) /\ Holds(image, b, n)
                                     /\ b \in Room(image) /\ n < Subs
    BY <1>2, LatestIsImage DEF Used
  <2>2. NextSlot = Place(b, n + 1)
    BY <2>1, NextSlotIs
  <2>3. p = b /\ s = n + 1
    BY <2>2 DEF Place
  <2>4. p \in Block /\ n \in Nat /\ 0 < n /\ s \in Sub
    BY <2>1, <2>3, SubsAreNumbers, SMT DEF Sub, Used, UsedIn
  <2>5. \A t \in 1 .. s - 1 : image[p][t] # Blank
    BY <2>1, <2>3, <2>4 DEF Holds, Runs
  <2>6. Room(image) = {p}
    BY <2>1, <2>3 DEF OneRoom
  <2>7. s # 1 /\ image[p][s] = Blank
    BY <2>1, <2>3, <2>4, SMT DEF Holds
  <2> QED BY <2>1, <2>2, <2>3, <2>4, <2>5, <2>6, <2>7
<1>3. CASE Used # {} /\ Room(image) = {}
  <2>1. PICK b \in Used : LatestIn(image) = Place(b, Subs)
    BY <1>3, LatestIsImage DEF Used
  <2>2. b \in Block /\ NextSlot = IF b < Blocks THEN Place(b + 1, 1) ELSE Place(1, 1)
    BY <2>1, NextSlotIs, SubsAreNumbers, SMT DEF Used, UsedIn
  <2>3. s = 1 /\ p = (IF b < Blocks THEN b + 1 ELSE 1) /\ NextSlot = Place(p, s)
    BY <2>2 DEF Place
  <2>4. p \in Block /\ s \in Sub
    BY <2>2, <2>3, SubsAreNumbers, SMT DEF Block
  <2>5. p \notin Used
    BY <2>3 DEF Fresh
  <2>6. image[p][s] = Blank
    BY <2>3, <2>4, <2>5 DEF Used, UsedIn
  <2>7. \A t \in 1 .. s - 1 : image[p][t] # Blank
    BY <2>3, SMT
  <2> QED BY <1>3, <2>1, <2>3, <2>4, <2>5, <2>6, <2>7
<1> QED BY <1>1, <1>2, <1>3

\* Where the blocks up to j are filled in their order, so is the slot's block next.
LEMMA SlotInOrder ==
  ASSUME image \in Images, Runs(image), OneRoom(image), Fresh,
         NEW j \in Block, Shape(image, j)
  PROVE  /\ NextSlot.block <= j
         /\ \A c \in 1 .. NextSlot.block - 1 : Full(image, c)
<1> DEFINE p == NextSlot.block
           s == NextSlot.sub
<1>1. /\ p \in Block /\ s \in Sub /\ image[p][s] = Blank
      /\ Room(image) = IF s = 1 THEN {} ELSE {p}
      /\ s = 1 <=> p \notin Used
      /\ s = 1 /\ Used # {} => \E b \in Used : /\ LatestIn(image) = Place(b, Subs)
                                               /\ p = IF b < Blocks THEN b + 1 ELSE 1
  BY SlotIsFree
<1> HIDE DEF p, s
<1>2. p \in Nat /\ j \in Nat /\ p <= j
  <2>1. ~Full(image, p)
    BY <1>1, FullIsUsed
  <2> QED BY <1>1, <2>1, SubsAreNumbers DEF Shape
<1>3. CASE s # 1
  <2>1. p \in UsedIn(image)
    BY <1>1, <1>3 DEF Used
  <2> QED BY <1>2, <2>1 DEF Shape, FilledTo, p
<1>4. CASE s = 1 /\ p = 1
  BY <1>2, <1>4, SMT DEF p
<1>5. CASE s = 1 /\ p # 1
  <2>1. Used # {}
    BY <1>5, NextSlotIs DEF p, Place
  <2>2. PICK b \in Used : LatestIn(image) = Place(b, Subs) /\ b < Blocks /\ p = b + 1
    BY <1>1, <1>5, <2>1
  <2>3. Room(image) = {} /\ b \in Block
    BY <1>1, <1>5 DEF Used, UsedIn
  <2>4. \A c \in Used : Full(image, c)
    BY <2>3 DEF Room, Used
  <2>5. PICK h \in Used : \A c \in Used : c <= h
    BY <2>1, HighestUsed DEF Used
  <2>6. LatestIn(image) = IF Refilled(image)
                          THEN Place(First(Block \ UsedIn(image)) - 1, Subs) ELSE Place(h, Subs)
    BY <2>3, <2>5, LatestFull DEF Used
  <2>7. CASE Refilled(image)
    <3>1. b = First(Block \ UsedIn(image)) - 1
      BY <2>2, <2>6, <2>7 DEF Place
    <3>2. \A c \in 1 .. b : c \in Used
      BY <2>7, <3>1, FirstBlank DEF Used
    <3>3. \A c \in 1 .. p - 1 : c \in Used
      BY <2>2, <2>3, <3>2, SubsAreNumbers
    <3> QED BY <1>2, <2>4, <3>3 DEF p
  <2>8. CASE ~Refilled(image)
    <3>1. b = h
      BY <2>2, <2>6, <2>8 DEF Place
    <3>2. Blocks \notin Used
      BY <2>2, <2>3, <2>5, <3>1, SubsAreNumbers
    <3>3. ~Full(image, Blocks)
      BY <3>2, FullIsUsed, SubsAreNumbers DEF Used
    <3>4. b <= j
      BY <2>2, <2>3, <3>3, SubsAreNumbers, SMT DEF Shape, Block
    <3>5. \A c \in 1 .. b - 1 : Full(image, c)
      BY <3>4 DEF Shape, FilledTo, Used
    <3>6. \A c \in 1 .. p - 1 : c \in 1 .. b - 1 \/ c = b
      BY <2>2, <2>3, SubsAreNumbers, SMT
    <3> QED BY <1>2, <2>4, <3>5, <3>6 DEF p
  <2> QED BY <2>7, <2>8
<1> QED BY <1>3, <1>4, <1>5

\* The image written there: it keeps every image in its place, and the shape.
Written(i) == [image EXCEPT ![NextSlot.block][NextSlot.sub] = i]
Fits(i) == i \in Image /\ i.id = NextSlot.block /\ i.sub = NextSlot.sub

LEMMA WriteKeepsShape ==
  ASSUME image \in Images, Runs(image), OneRoom(image), Fresh,
         NEW i, Fits(i), NEW im, im = Written(i)
  PROVE  /\ im \in Images /\ Runs(im) /\ UsedIn(im) = Used \cup {NextSlot.block}
         /\ im[NextSlot.block][NextSlot.sub] = i
         /\ Room(im) = IF NextSlot.sub < Subs THEN {NextSlot.block} ELSE {}
         /\ Holds(im, NextSlot.block, NextSlot.sub)
         /\ \A j \in Block : Shape(image, j) => Shape(im, j)
<1> DEFINE p == NextSlot.block
           s == NextSlot.sub
<1>1. /\ p \in Block /\ s \in Sub /\ image[p][s] = Blank
      /\ \A t \in 1 .. s - 1 : image[p][t] # Blank
      /\ Room(image) = IF s = 1 THEN {} ELSE {p}
      /\ s = 1 <=> p \notin Used
  BY SlotIsFree
<1>2. \A j \in Block : Shape(image, j) =>
         p <= j /\ \A c \in 1 .. p - 1 : Full(image, c)
  BY SlotInOrder
<1>3. im = [image EXCEPT ![p][s] = i] /\ i \in Image /\ i.id = p /\ i.sub = s
  BY DEF Written, Fits
<1> HIDE DEF p, s
<1>4. i # Blank
  BY <1>3, BlankAssumption
<1>5. /\ im \in Images /\ im[p][s] = i
      /\ \A b \in Block, t \in Sub : b # p \/ t # s => im[b][t] = image[b][t]
  BY <1>1, <1>3 DEF Images
<1>6. \A t \in Sub : t > s => image[p][t] = Blank
  <2> SUFFICES ASSUME NEW t \in Sub, t > s, image[p][t] # Blank PROVE FALSE
    OBVIOUS
  <2>1. s \in 1 .. t
    BY <1>1, SubsAreNumbers, SMT DEF Sub
  <2> QED BY <1>1, <2>1 DEF Runs
<1>7. Runs(im)
  <2> SUFFICES ASSUME NEW b \in Block, NEW t \in Sub, im[b][t] # Blank
               PROVE  /\ im[b][t].id = b /\ im[b][t].sub = t
                      /\ \A u \in 1 .. t : im[b][u] # Blank
    BY DEF Runs
  <2>1. CASE b # p
    <3>1. \A u \in Sub : im[b][u] = image[b][u]
      BY <1>5, <2>1
    <3>2. 1 .. t \subseteq Sub
      BY SubsAreNumbers, SMT DEF Sub
    <3> QED BY <3>1, <3>2 DEF Runs
  <2>2. CASE b = p
    <3>1. t <= s
      BY <1>1, <1>5, <1>6, <2>2, SubsAreNumbers
    <3>2. \A u \in 1 .. t : u \in Sub /\ (u = s \/ u \in 1 .. s - 1)
      BY <1>1, <3>1, SubsAreNumbers, SMT DEF Sub
    <3>3. \A u \in 1 .. t : im[p][u] # Blank
      BY <1>1, <1>4, <1>5, <3>2
    <3>4. t # s => im[p][t] = image[p][t]
      BY <1>1, <1>5
    <3> QED BY <1>1, <1>3, <1>5, <2>2, <3>3, <3>4 DEF Runs
  <2> QED BY <2>1, <2>2
<1>8. UsedIn(im) = Used \cup {p}
  <2>1. \A b \in Block : b # p => im[b][1] = image[b][1]
    BY <1>5, SubsAreNumbers
  <2>2. im[p][1] # Blank
    <3>1. 1 \in 1 .. s
      BY <1>1, SubsAreNumbers, SMT DEF Sub
    <3> QED BY <1>1, <1>4, <1>5, <1>7, <3>1 DEF Runs
  <2> QED BY <1>1, <2>1, <2>2 DEF Used, UsedIn
<1>9. \A b \in Block : b # p => (Full(im, b) <=> Full(image, b))
  BY <1>5, SubsAreNumbers DEF Full
<1>10. Full(im, p) <=> s = Subs
  <2>1. s # Subs => im[p][Subs] = Blank
    <3>1. Subs \in Sub /\ (s # Subs => Subs > s)
      BY <1>1, SubsAreNumbers, SMT DEF Sub
    <3> QED BY <1>1, <1>5, <1>6, <3>1
  <2> QED BY <1>4, <1>5, <2>1 DEF Full
<1>11. s < Subs <=> s # Subs
  BY <1>1, SubsAreNumbers, SMT DEF Sub
<1>12. Room(im) = IF s < Subs THEN {p} ELSE {}
  <2>1. \A b \in Room(im) : b = p
    <3> SUFFICES ASSUME NEW b \in Room(im), b # p PROVE FALSE
      OBVIOUS
    <3>1. b \in Used /\ b \in Block /\ ~Full(image, b)
      BY <1>8, <1>9 DEF Room, Used, UsedIn
    <3>2. b \in Room(image)
      BY <3>1 DEF Room, Used
    <3> QED BY <1>1, <3>2
  <2>2. p \in Room(im) <=> s # Subs
    BY <1>8, <1>10 DEF Room
  <2> QED BY <1>11, <2>1, <2>2
<1>13. Holds(im, p, s)
  <2>1. s # Subs => s + 1 \in Sub /\ s + 1 > s /\ s + 1 # s
    BY <1>1, SubsAreNumbers, SMT DEF Sub
  <2>2. s # Subs => im[p][s + 1] = Blank
    BY <1>1, <1>5, <1>6, <2>1
  <2> QED BY <1>1, <1>4, <1>5, <2>2 DEF Holds
<1>14. ASSUME NEW j \in Block, Shape(image, j)
       PROVE  Shape(im, j)
  <2>1. p <= j /\ \A c \in 1 .. p - 1 : Full(image, c)
    BY <1>2, <1>14
  <2>2. \A b \in Block : \A c \in 1 .. b - 1 : c \in Block /\ c < b
    BY SubsAreNumbers, SMT DEF Block
  <2>3. \A c \in Block : c > j => Full(im, c)
    <3>1. \A c \in Block : c > j => c # p
      BY <1>1, <2>1, SubsAreNumbers
    <3> QED BY <1>9, <1>14, <3>1 DEF Shape
  <2>4. ASSUME NEW b \in UsedIn(im), b <= j, NEW c \in 1 .. b - 1
        PROVE  Full(im, c)
    <3>1. b \in Block /\ c \in Block /\ c < b
      BY <2>2 DEF UsedIn
    <3>2. CASE b = p
      <4>1. c # p /\ Full(image, c)
        BY <2>1, <3>1, <3>2, SubsAreNumbers
      <4> QED BY <1>9, <3>1, <4>1
    <3>3. CASE b # p
      <4>1. Full(image, c)
        BY <1>8, <1>14, <2>4, <3>3 DEF Shape, FilledTo, Used
      <4>2. c # p
        BY <1>1, <3>1, <4>1, FullIsUsed
      <4> QED BY <1>9, <3>1, <4>1, <4>2
    <3> QED BY <3>2, <3>3
  <2> QED BY <2>3, <2>4 DEF Shape, FilledTo
<1> QED BY <1>5, <1>7, <1>8, <1>12, <1>13, <1>14 DEF p, s

\* It is the newest image for the search, unless the blocks are full again in front
\* of older ones.
LEMMA WriteIsNewest ==
  ASSUME image \in Images, Runs(image), OneRoom(image), Fresh,
         NEW i, Fits(i), NEW im, im = Written(i),
         NEW j \in Block, Shape(image, j),
         j # Blocks => \E b \in Block : ~Full(im, b)
  PROVE  LatestIn(im) = NextSlot
<1> DEFINE p == NextSlot.block
           s == NextSlot.sub
<1>1. /\ p \in Block /\ s \in Sub /\ NextSlot = Place(p, s)
      /\ Room(image) = IF s = 1 THEN {} ELSE {p}
  BY SlotIsFree
<1>2. p <= j /\ \A c \in 1 .. p - 1 : Full(image, c)
  BY SlotInOrder
<1>3. /\ im \in Images /\ Runs(im) /\ UsedIn(im) = Used \cup {p}
      /\ Room(im) = IF s < Subs THEN {p} ELSE {}
      /\ Holds(im, p, s) /\ Shape(im, j)
  BY WriteKeepsShape
<1>4. OneRoom(im)
  BY <1>3 DEF OneRoom
<1> HIDE DEF p, s
<1>5. CASE s < Subs
  <2>1. p \in Room(im)
    BY <1>3, <1>5
  <2> QED BY <1>1, <1>3, <1>4, <2>1, LatestInRoom
<1>6. CASE ~(s < Subs)
  <2>1. s = Subs /\ s # 1
    BY <1>1, <1>6, SubsAreNumbers, SMT DEF Sub
  <2>2. p \in UsedIn(image) /\ ~Full(image, p) /\ UsedIn(im) = UsedIn(image)
    BY <1>1, <1>3, <2>1 DEF Room, Used
  <2>3. Room(im) = {}
    BY <1>3, <1>6
  <2>4. \A b \in UsedIn(im) : b <= j => b <= p
    <3> SUFFICES ASSUME NEW b \in UsedIn(image), b <= j, ~(b <= p) PROVE FALSE
      BY <2>2
    <3>1. p \in 1 .. b - 1
      BY <1>1, SubsAreNumbers, SMT DEF Block, UsedIn
    <3> QED BY <2>2, <3>1 DEF Shape, FilledTo
  <2>5. \A b \in UsedIn(im) : Full(im, b)
    BY <2>3 DEF Room
  <2>6. \A c \in 1 .. p : c \in UsedIn(im)
    <3>1. \A c \in 1 .. p : c \in Block /\ (c = p \/ c \in 1 .. p - 1)
      BY <1>1, SubsAreNumbers, SMT DEF Block
    <3> QED BY <1>2, <2>2, <3>1, FullIsUsed
  <2>7. \A c \in Block : c > j => c \in UsedIn(im)
    BY <1>3, FullIsUsed DEF Shape
  <2>8. PICK h \in UsedIn(im) : \A c \in UsedIn(im) : c <= h
    BY <2>2, HighestUsed
  <2>9. LatestIn(im) = IF Refilled(im) THEN Place(First(Block \ UsedIn(im)) - 1, Subs)
                       ELSE Place(h, Subs)
    BY <1>3, <2>3, <2>8, LatestFull
  <2>10. CASE Refilled(im)
    <3> DEFINE f == First(Block \ UsedIn(im))
    <3>1. f \in Block \ UsedIn(im) /\ f - 1 \in UsedIn(im)
          /\ \A b \in 1 .. f - 1 : b \in UsedIn(im)
      BY <2>10, FirstBlank
    <3> HIDE DEF f
    <3>2. ~(f <= p)
      <4>1. f <= p => f \in 1 .. p
        BY <1>1, <3>1, SubsAreNumbers, SMT DEF Block
      <4> QED BY <2>6, <3>1, <4>1
    <3>3. f <= j
      BY <2>7, <3>1, SubsAreNumbers
    <3>4. f - 1 <= p
      <4>1. f - 1 <= j
        BY <1>1, <3>1, <3>3, SubsAreNumbers, SMT DEF Block
      <4> QED BY <2>4, <3>1, <4>1
    <3>5. f - 1 = p
      BY <1>1, <3>1, <3>2, <3>4, SubsAreNumbers, SMT DEF Block
    <3> QED BY <1>1, <2>1, <2>9, <2>10, <3>5 DEF f
  <2>11. CASE ~Refilled(im)
    <3>1. 1 \in UsedIn(im)
      <4>1. 1 \in 1 .. p
        BY <1>1, SubsAreNumbers, SMT DEF Block
      <4> QED BY <2>6, <4>1
    <3>2. j = Blocks
      <4> SUFFICES ASSUME j # Blocks PROVE FALSE
        OBVIOUS
      <4>1. Blocks \in UsedIn(im)
        BY <2>7, SubsAreNumbers, SMT DEF Block
      <4>2. Block \ UsedIn(im) = {}
        BY <2>11, <3>1, <4>1 DEF Refilled
      <4>3. \A b \in Block : Full(im, b)
        BY <2>5, <4>2
      <4> QED BY <4>3
    <3>3. \A c \in UsedIn(im) : c \in Block /\ c <= j
      BY <3>2, SubsAreNumbers, SMT DEF UsedIn, Block
    <3>4. h = p
      <4>1. h <= p /\ p <= h /\ h \in Block
        BY <2>2, <2>4, <2>8, <3>3
      <4> QED BY <1>1, <4>1, SubsAreNumbers
    <3> QED BY <1>1, <2>1, <2>9, <2>11, <3>4
  <2> QED BY <2>10, <2>11
<1> QED BY <1>5, <1>6

\* Unless the last block is in use, the block that is written is the highest one.
LEMMA WriteKeepsRoomLast ==
  ASSUME image \in Images, Runs(image), OneRoom(image), RoomIsLast(image), Fresh,
         NEW i, Fits(i), NEW im, im = Written(i)
  PROVE  OneRoom(im) /\ RoomIsLast(im)
<1> DEFINE p == NextSlot.block
           s == NextSlot.sub
<1>1. /\ p \in Block /\ s \in Sub
      /\ Room(image) = IF s = 1 THEN {} ELSE {p}
      /\ s = 1 /\ Used # {} =>
            \E b \in Used : /\ LatestIn(image) = Place(b, Subs)
                            /\ p = IF b < Blocks THEN b + 1 ELSE 1
  BY SlotIsFree
<1>2. /\ UsedIn(im) = Used \cup {p}
      /\ Room(im) = IF s < Subs THEN {p} ELSE {}
  BY WriteKeepsShape
<1> HIDE DEF p, s
<1>3. ASSUME Blocks \notin UsedIn(im), NEW c \in UsedIn(im) PROVE c <= p
  <2>1. Blocks \notin Used
    BY <1>2, <1>3
  <2>2. CASE c = p
    BY <1>1, <2>2, SubsAreNumbers
  <2>3. CASE c # p /\ s # 1
    BY <1>1, <1>2, <1>3, <2>1, <2>3 DEF RoomIsLast, Used
  <2>4. CASE c # p /\ s = 1
    <3>1. c \in Used /\ Room(image) = {}
      BY <1>1, <1>2, <1>3, <2>4
    <3>2. PICK h \in Used : \A d \in Used : d <= h
      BY <3>1, HighestUsed DEF Used
    <3>3. PICK b \in Used : /\ LatestIn(image) = Place(b, Subs)
                            /\ p = IF b < Blocks THEN b + 1 ELSE 1
      BY <1>1, <2>4, <3>1
    <3>4. LatestIn(image) = Place(h, Subs)
      BY <2>1, <3>1, <3>2, LatestFull DEF Refilled, Used
    <3>5. b = h
      BY <3>3, <3>4 DEF Place
    <3>6. b \in Block /\ b # Blocks /\ c \in Block /\ c <= b
      BY <2>1, <3>1, <3>2, <3>5 DEF Used, UsedIn
    <3> QED BY <3>3, <3>6, SubsAreNumbers, SMT DEF Block
  <2> QED BY <2>2, <2>3, <2>4
<1>4. \A b \in Room(im) : b = p
  BY <1>2
<1> QED BY <1>3, <1>4 DEF OneRoom, RoomIsLast

-----------------------------------------------------------------------------
(* Erasing the blocks from the first on. *)

LEMMA ErasesAreCalls ==
  ASSUME NEW c \in 1 .. Blocks + 1, NEW v \in Settings
  PROVE  /\ ErasesFrom(c, v) \in Seq(Call) /\ Len(ErasesFrom(c, v)) = Blocks + 2 - c
         /\ \A i \in 1 .. Blocks + 2 - c :
               ErasesFrom(c, v)[i] = IF i = Blocks + 2 - c THEN Write(1, 1, v)
                                     ELSE Erase(c + i - 1)
<1> DEFINE n == Blocks + 2 - c
           E == ErasesFrom(c, v)
<1>1. n \in Nat
  BY SubsAreNumbers, SMT
<1>2. E = [i \in 1 .. n |-> IF i = n THEN Write(1, 1, v) ELSE Erase(c + i - 1)]
  BY Zenon DEF ErasesFrom
<1>3. \A i \in 1 .. n : (IF i = n THEN Write(1, 1, v) ELSE Erase(c + i - 1)) \in Call
  <2> SUFFICES ASSUME NEW i \in 1 .. n
               PROVE  (IF i = n THEN Write(1, 1, v) ELSE Erase(c + i - 1)) \in Call
    OBVIOUS
  <2>1. Write(1, 1, v) \in Call
    BY SubsAreNumbers DEF Call, Write
  <2>2. CASE i # n
    <3>1. c + i - 1 \in Block
      BY <2>2, SubsAreNumbers, SMT DEF Block
    <3> QED BY <2>2, <3>1 DEF Call, Erase
  <2> QED BY <2>1, <2>2
<1>4. E \in [1 .. n -> Call]
  BY <1>2, <1>3
<1>5. E \in Seq(Call) /\ Len(E) = n
  <2> HIDE DEF E, n
  <2> QED BY <1>1, <1>4
<1>6. \A i \in 1 .. n : E[i] = IF i = n THEN Write(1, 1, v) ELSE Erase(c + i - 1)
  BY <1>2, Zenon
<1> QED BY <1>5, <1>6

\* The first of these calls erases c; the rest are those from the next block on.
LEMMA EraseCalls ==
  ASSUME NEW c \in Block, NEW v \in Settings
  PROVE  /\ ErasesFrom(c, v) \in Seq(Call) /\ ErasesFrom(c, v) # <<>>
         /\ Head(ErasesFrom(c, v)) = Erase(c)
         /\ c # Blocks => c + 1 \in Block /\ Tail(ErasesFrom(c, v)) = ErasesFrom(c + 1, v)
         /\ c = Blocks => Tail(ErasesFrom(c, v)) = <<Write(1, 1, v)>>
<1> DEFINE n == Blocks + 2 - c
           E == ErasesFrom(c, v)
           F == ErasesFrom(c + 1, v)
<1>1. /\ c \in 1 .. Blocks + 1 /\ c + 1 \in 1 .. Blocks + 1 /\ (c # Blocks => c + 1 \in Block)
      /\ n \in Nat /\ n >= 2 /\ Blocks + 2 - (c + 1) = n - 1
  BY SubsAreNumbers, SMT DEF Block
<1>2. /\ E \in Seq(Call) /\ Len(E) = n
      /\ \A i \in 1 .. n : E[i] = IF i = n THEN Write(1, 1, v) ELSE Erase(c + i - 1)
  BY <1>1, ErasesAreCalls
<1>3. /\ F \in Seq(Call) /\ Len(F) = n - 1
      /\ \A i \in 1 .. n - 1 : F[i] = IF i = n - 1 THEN Write(1, 1, v)
                                      ELSE Erase((c + 1) + i - 1)
  <2>1. /\ F \in Seq(Call) /\ Len(F) = Blocks + 2 - (c + 1)
        /\ \A i \in 1 .. Blocks + 2 - (c + 1) :
              F[i] = IF i = Blocks + 2 - (c + 1) THEN Write(1, 1, v) ELSE Erase((c + 1) + i - 1)
    BY <1>1, ErasesAreCalls
  <2> QED BY <1>1, <2>1
<1>4. 1 \in 1 .. n /\ 1 # n /\ c + 1 - 1 = c
  BY <1>1, SMT DEF Block
<1>5. E # <<>> /\ E[1] = Erase(c)
  <2>1. E[1] = Erase(c)
    BY <1>2, <1>4
  <2> HIDE DEF E, F, n
  <2> QED BY <1>1, <1>2, <2>1
<1>6. /\ Tail(E) \in Seq(Call) /\ Len(Tail(E)) = n - 1 /\ Head(E) = E[1]
      /\ \A i \in 1 .. n - 1 : Tail(E)[i] = E[i + 1]
  <2> HIDE DEF E, F, n
  <2> QED BY <1>1, <1>2, <1>5, HeadTailProperties
<1>7. Tail(E) = F
  <2>1. \A i \in 1 .. n - 1 : i + 1 \in 1 .. n /\ (i + 1 = n <=> i = n - 1)
                             /\ c + (i + 1) - 1 = (c + 1) + i - 1
    BY <1>1, SMT DEF Block
  <2>2. \A i \in 1 .. n - 1 : Tail(E)[i] = F[i]
    <3> HIDE DEF E, F, n
    <3> QED BY <1>2, <1>3, <1>6, <2>1
  <2> HIDE DEF E, F, n
  <2> QED BY <1>3, <1>6, <2>2, SeqEqual
<1>8. c = Blocks => F = <<Write(1, 1, v)>>
  <2> SUFFICES ASSUME c = Blocks PROVE F = <<Write(1, 1, v)>>
    OBVIOUS
  <2>1. n - 1 = 1
    BY SubsAreNumbers, SMT
  <2>2. Len(F) = 1 /\ F[1] = Write(1, 1, v)
    <3> HIDE DEF E, F, n
    <3>1. 1 \in 1 .. n - 1
      BY <2>1
    <3> QED BY <1>3, <2>1, <3>1
  <2>3. /\ <<Write(1, 1, v)>> \in Seq(Call) /\ Len(<<Write(1, 1, v)>>) = 1
        /\ <<Write(1, 1, v)>>[1] = Write(1, 1, v)
    BY SubsAreNumbers DEF Call, Write
  <2>4. \A i \in 1 .. 1 : F[i] = <<Write(1, 1, v)>>[i]
    <3> HIDE DEF E, F, n
    <3> QED BY <2>2, <2>3
  <2> HIDE DEF E, F, n
  <2> QED BY <1>3, <2>2, <2>3, <2>4, SeqEqual
<1> QED BY <1>1, <1>2, <1>5, <1>6, <1>7, <1>8

LEMMA AllErases ==
  ASSUME NEW v \in Settings
  PROVE  EraseAll \o <<Write(1, 1, v)>> = ErasesFrom(1, v)
<1>1. EraseAll \in Seq(Call) /\ Len(EraseAll) = Blocks
  <2>1. EraseAll \in [1 .. Blocks -> Call]
    BY DEF EraseAll, Block, Call, Erase
  <2> QED BY <2>1, SubsAreNumbers
<1>2. <<Write(1, 1, v)>> \in Seq(Call)
  BY SubsAreNumbers DEF Call, Write
<1>3. EraseAll \o <<Write(1, 1, v)>> =
        [i \in 1 .. Blocks + 1 |-> IF i <= Blocks THEN EraseAll[i] ELSE Write(1, 1, v)]
  BY <1>1, <1>2, SubsAreNumbers
<1>4. \A i \in 1 .. Blocks + 1 :
        (IF i <= Blocks THEN EraseAll[i] ELSE Write(1, 1, v)) =
        (IF i = Blocks + 1 THEN Write(1, 1, v) ELSE Erase(1 + i - 1))
  <2>1. \A i \in 1 .. Blocks : EraseAll[i] = Erase(i)
    BY DEF EraseAll, Block
  <2> QED BY <2>1, SubsAreNumbers, SMT
<1>5. ErasesFrom(1, v) = [i \in 1 .. Blocks + 1 |-> IF i = Blocks + 1 THEN Write(1, 1, v)
                                                    ELSE Erase(1 + i - 1)]
  <2>1. Blocks + 2 - 1 = Blocks + 1
    BY SubsAreNumbers, SMT
  <2> QED BY <2>1, Zenon DEF ErasesFrom
<1> QED BY <1>3, <1>4, <1>5

LEMMA EraseKeepsShape ==
  ASSUME image \in Images, Runs(image), OneRoom(image), RoomIsLast(image),
         NEW c \in Block, \A b \in 1 .. c - 1 : b \notin Used,
         NEW im, im = [image EXCEPT ![c] = BlankBlock]
  PROVE  /\ im \in Images /\ Runs(im) /\ OneRoom(im)
         /\ UsedIn(im) = Used \ {c} /\ Room(im) = Room(image) \ {c}
         /\ \A b \in Block : b # c => im[b] = image[b]
         /\ \A b \in Used \ {c} : c < b
         /\ RoomIsLast(im)
<1>1. BlankBlock \in [Sub -> Image \cup {Blank}] /\ \A s \in Sub : BlankBlock[s] = Blank
  BY DEF BlankBlock
<1>2. /\ im \in Images /\ im[c] = BlankBlock
      /\ \A b \in Block : b # c => im[b] = image[b]
  BY <1>1 DEF Images
<1>3. Runs(im)
  BY <1>1, <1>2 DEF Runs
<1>4. UsedIn(im) = Used \ {c}
  BY <1>1, <1>2, SubsAreNumbers DEF Used, UsedIn
<1>5. Room(im) = Room(image) \ {c}
  BY <1>2, <1>4 DEF Room, Full, Used, UsedIn
<1>6. OneRoom(im)
  BY <1>5 DEF OneRoom
<1>7. \A b \in Used \ {c} : c < b
  <2> SUFFICES ASSUME NEW b \in Used \ {c}, ~(c < b) PROVE FALSE
    OBVIOUS
  <2>1. b \in 1 .. c - 1
    BY SubsAreNumbers, SMT DEF Used, UsedIn, Block
  <2> QED BY <2>1
<1>8. RoomIsLast(im)
  <2>1. CASE c = Blocks
    <3>1. Used \ {c} = {}
      <4>1. \A b \in Used : b <= Blocks
        BY SubsAreNumbers, SMT DEF Used, UsedIn, Block
      <4> QED BY <1>7, <2>1, <4>1, SubsAreNumbers DEF Used, UsedIn
    <3> QED BY <1>4, <3>1 DEF RoomIsLast
  <2>2. CASE c # Blocks
    BY <1>4, <1>5, <2>2 DEF RoomIsLast, Used
  <2> QED BY <2>1, <2>2
<1> QED BY <1>2, <1>3, <1>4, <1>5, <1>6, <1>7, <1>8

\* The newest image is still the newest when a block before it is erased.
LEMMA EraseKeepsLatest ==
  ASSUME image \in Images, Runs(image), OneRoom(image), RoomIsLast(image),
         NEW c \in Block, \A b \in 1 .. c - 1 : b \notin Used,
         NEW im, im = [image EXCEPT ![c] = BlankBlock],
         UsedIn(im) # {},
         Room(image) \ {c} # {} \/ (Room(image) = {} /\ ~Refilled(image))
  PROVE  /\ LatestIn(im) = LatestIn(image)
         /\ ValueAt(im, LatestIn(im)) = ValueAt(image, LatestIn(image))
<1>1. /\ im \in Images /\ Runs(im) /\ OneRoom(im)
      /\ UsedIn(im) = Used \ {c} /\ Room(im) = Room(image) \ {c}
      /\ \A b \in Block : b # c => im[b] = image[b]
      /\ \A b \in Used \ {c} : c < b
  BY EraseKeepsShape
<1>2. ASSUME NEW b \in Block, NEW s \in Sub, b # c,
             LatestIn(im) = Place(b, s), LatestIn(image) = Place(b, s)
      PROVE  ValueAt(im, LatestIn(im)) = ValueAt(image, LatestIn(image))
  <2>1. LatestIn(im).block = b /\ LatestIn(im).sub = s
        /\ LatestIn(image).block = b /\ LatestIn(image).sub = s
    BY <1>2 DEF Place
  <2>2. im[b] = image[b]
    BY <1>1, <1>2
  <2> QED BY <2>1, <2>2, Zenon DEF ValueAt
<1>3. CASE Room(image) \ {c} # {}
  <2>1. PICK k \in Room(im) : k \in Room(image) /\ k # c
    BY <1>1, <1>3
  <2>2. k \in Block /\ k \in UsedIn(image)
    BY <2>1 DEF Room, UsedIn
  <2>3. PICK n \in Sub : Holds(image, k, n)
    BY <2>2, NewestOfHolds
  <2>4. Holds(im, k, n)
    BY <1>1, <2>1, <2>2, <2>3 DEF Holds
  <2>5. LatestIn(im) = Place(k, n) /\ LatestIn(image) = Place(k, n)
    BY <1>1, <2>1, <2>3, <2>4, LatestInRoom
  <2> QED BY <1>2, <2>1, <2>2, <2>5
<1>4. CASE Room(image) = {} /\ ~Refilled(image)
  <2>1. PICK h \in UsedIn(im) : \A d \in UsedIn(im) : d <= h
    BY HighestUsed
  <2>2. h \in Used /\ h # c /\ c < h /\ h \in Block
    BY <1>1, <2>1 DEF Used, UsedIn
  <2>3. \A d \in Used : d <= h
    <3>1. c <= h
      BY <2>2, SubsAreNumbers
    <3> QED BY <1>1, <2>1, <3>1
  <2>4. LatestIn(image) = Place(h, Subs)
    BY <1>4, <2>2, <2>3, LatestFull DEF Used
  <2>5. ~Refilled(im)
    <3>1. ~(c < 1)
      BY SMT DEF Block
    <3>2. 1 \notin UsedIn(im)
      BY <1>1, <3>1, Zenon
    <3> QED BY <3>2 DEF Refilled
  <2>6. LatestIn(im) = Place(h, Subs)
    BY <1>1, <1>4, <2>1, <2>5, LatestFull
  <2> QED BY <1>2, <2>2, <2>4, <2>6, SubsAreNumbers
<1> QED BY <1>3, <1>4

-----------------------------------------------------------------------------
(* The steps. *)

LEMMA EmptyThenOne ==
  ASSUME NEW x
  PROVE  <<>> \o <<x>> = <<x>>
<1>1. <<x>> \in Seq({x})
  OBVIOUS
<1> QED BY <1>1, ConcatEmptySeq

\* What a call of the flash driver leaves, and what a write cut short leaves.
LEMMA DoneCalls ==
  /\ \A b \in Block : Done(Erase(b)) = [image EXCEPT ![b] = BlankBlock]
  /\ \A b \in Block, s \in Sub, v \in Settings \cup {Torn} :
        /\ Done(Write(b, s, v)) = [image EXCEPT ![b][s] = [id |-> b, sub |-> s, value |-> v]]
        /\ [Write(b, s, v) EXCEPT !.value = Torn] = Write(b, s, Torn)
        /\ Write(b, s, v).call = "write"
        /\ \A c \in Block : Write(b, s, v) # Erase(c)
<1>1. \A b \in Block : Erase(b).call = "erase" /\ Erase(b).block = b
  BY DEF Erase
<1>2. ASSUME NEW b \in Block, NEW s \in Sub, NEW v \in Settings \cup {Torn}
      PROVE  /\ Write(b, s, v).call = "write" /\ Write(b, s, v).block = b
             /\ Write(b, s, v).sub = s /\ Write(b, s, v).value = v
             /\ [Write(b, s, v) EXCEPT !.value = Torn] = Write(b, s, Torn)
  BY DEF Write
<1>3. "write" # "erase"
  OBVIOUS
<1>4. \A b \in Block : Done(Erase(b)) = [image EXCEPT ![b] = BlankBlock]
  <2> TAKE b \in Block
  <2> DEFINE w == Erase(b)
  <2>1. w.call = "erase" /\ w.block = b
    BY <1>1
  <2> HIDE DEF w
  <2>2. Done(w) = [image EXCEPT ![w.block] = BlankBlock]
    BY <2>1 DEF Done
  <2>3. Done(w) = [image EXCEPT ![b] = BlankBlock]
    BY <2>1, <2>2
  <2> QED BY <2>3 DEF w
<1>5. ASSUME NEW b \in Block, NEW s \in Sub, NEW v \in Settings \cup {Torn}
      PROVE  Done(Write(b, s, v)) = [image EXCEPT ![b][s] = [id |-> b, sub |-> s, value |-> v]]
  <2> DEFINE w == Write(b, s, v)
  <2>1. w.call # "erase" /\ w.block = b /\ w.sub = s /\ w.value = v
    BY <1>2, <1>3
  <2>2. Done(w) = [image EXCEPT ![w.block][w.sub] =
                     [id |-> w.block, sub |-> w.sub, value |-> w.value]]
    <3> HIDE DEF w
    <3>1. w.call # "erase"
      BY <2>1
    <3> QED BY <3>1 DEF Done
  <2> HIDE DEF w
  <2>3. Done(w) = [image EXCEPT ![b][s] = [id |-> b, sub |-> s, value |-> v]]
    BY <2>1, <2>2
  <2> QED BY <2>3, Zenon DEF w
<1>6. \A b, c \in Block, s \in Sub, v \in Settings \cup {Torn} : Write(b, s, v) # Erase(c)
  <2> TAKE b, c \in Block, s \in Sub, v \in Settings \cup {Torn}
  <2>1. Write(b, s, v).call = "write" /\ Erase(c).call = "erase"
    BY <1>1, <1>2
  <2> QED BY <1>3, <2>1, Zenon
<1> QED BY <1>2, <1>4, <1>5, <1>6

LEMMA Phases ==
  ASSUME TypeOK
  PROVE  /\ Writing => /\ ~Idle /\ Tail(calls) = <<>>
                       /\ Head(calls) = Write(NextSlot.block, NextSlot.sub, info)
         /\ \A c \in Block : ErasingFrom(c) => ~Idle /\ Head(calls) = Erase(c)
<1>1. info \in Settings
  BY DEF TypeOK
<1>2. Writing => /\ ~Idle /\ Tail(calls) = <<>>
                 /\ Head(calls) = Write(NextSlot.block, NextSlot.sub, info)
  BY DEF Writing, Idle
<1>3. \A c \in Block : ErasingFrom(c) => ~Idle /\ Head(calls) = Erase(c)
  BY <1>1, EraseCalls, Zenon DEF ErasingFrom, Idle
<1> QED BY <1>2, <1>3

\* When the next slot is not free, all blocks are full, or were left full at the end.
LEMMA StaleSlot ==
  ASSUME image \in Images, Runs(image), OneRoom(image), ~Fresh
  PROVE  EndIsNewest(image)
<1>1. NextSlot.sub = 1 /\ NextSlot.block \in Used
  BY DEF Fresh
<1>2. PICK b \in Used, s \in Sub : /\ LatestIn(image) = Place(b, s)
                                   /\ IF Room(image) = {} THEN s = Subs ELSE s < Subs
  BY <1>1, LatestIsImage DEF Used
<1>3. NextSlot = IF s < Subs THEN Place(b, s + 1)
                 ELSE IF b < Blocks THEN Place(b + 1, 1) ELSE Place(1, 1)
  BY <1>2, NextSlotIs
<1>4. Room(image) = {} /\ s = Subs /\ b \in Block
      /\ NextSlot.block = IF b < Blocks THEN b + 1 ELSE 1
  <2>1. s + 1 # 1
    BY SubsAreNumbers, SMT DEF Sub
  <2>2. ~(s < Subs)
    BY <1>1, <1>3, <2>1 DEF Place
  <2> QED BY <1>2, <1>3, <2>2 DEF Place, Used, UsedIn
<1>5. PICK h \in Used : \A c \in Used : c <= h
  BY <1>1, HighestUsed DEF Used
<1>6. LatestIn(image) = IF Refilled(image)
                        THEN Place(First(Block \ UsedIn(image)) - 1, Subs) ELSE Place(h, Subs)
  BY <1>4, <1>5, LatestFull DEF Used
<1>7. ~Refilled(image)
  <2> SUFFICES ASSUME Refilled(image) PROVE FALSE
    OBVIOUS
  <2> DEFINE f == First(Block \ UsedIn(image))
  <2>1. f \in Block /\ f \notin Used
    BY FirstBlank DEF Used
  <2>2. b = f - 1
    BY <1>2, <1>4, <1>6 DEF Place
  <2> HIDE DEF f
  <2>3. b < Blocks /\ b + 1 = f
    BY <2>1, <2>2, SubsAreNumbers, SMT DEF Block
  <2> QED BY <1>1, <1>4, <2>1, <2>3
<1>8. b = h
  BY <1>2, <1>4, <1>6, <1>7 DEF Place
<1>9. ~(b < Blocks)
  <2>1. b < Blocks => ~(b + 1 <= b)
    BY <1>4, SubsAreNumbers, SMT DEF Block
  <2> QED BY <1>1, <1>4, <1>5, <1>8, <2>1
<1>10. b = Blocks /\ 1 \in Used
  BY <1>1, <1>4, <1>9, SubsAreNumbers, SMT DEF Block
<1> QED BY <1>4, <1>7, <1>10 DEF EndIsNewest, Refilled, Used

LEMMA StartSaving ==
  ASSUME IInv, NEW v \in Settings, SaveInfo(v)
  PROVE  IInv'
<1>1. /\ image' = image /\ saved' = saved /\ left' = left /\ info' = v
      /\ calls' = SaveCalls(v)
  BY DEF SaveInfo
<1>2. TypeOK /\ Runs(image) /\ OneRoom(image) /\ RoomIsLast(image) /\ image \in Images
  BY DEF IInv, TypeOK, Images
<1>3. Resting
  BY <1>2, Phases DEF IInv, SaveInfo
<1>4. /\ NextSlot' = NextSlot /\ (Fresh' <=> Fresh) /\ Used' = Used
      /\ (LoadsSaved' <=> LoadsSaved)
  BY <1>1 DEF NextSlot, Fresh, Used, LoadsSaved, Misread, AllFull
<1>5. CASE Fresh
  <2>1. NextSlot.block \in Block /\ NextSlot.sub \in Sub
    BY <1>2, <1>5, SlotIsFree
  <2>2. calls' = <<Write(NextSlot.block, NextSlot.sub, v)>>
    BY <1>1, <1>5, Zenon, EmptyThenOne DEF SaveCalls, Fresh, Used
  <2>3. calls' \in Seq(Call)
    BY <2>1, <2>2 DEF Call, Write
  <2>4. Writing'
    BY <1>1, <1>3, <1>4, <1>5, <2>2, Zenon DEF Writing, Resting
  <2>5. TypeOK'
    BY <1>1, <1>2, <2>3 DEF TypeOK
  <2> QED BY <1>1, <1>2, <2>4, <2>5 DEF IInv
<1>6. CASE ~Fresh
  <2>1. NextSlot.sub = 1 /\ NextSlot.block \in Used /\ EndIsNewest(image)
    BY <1>2, <1>6, StaleSlot DEF Fresh
  <2>2. NextSlot = Place(1, 1)
    <3>1. PICK b \in Used, s \in Sub : LatestIn(image) = Place(b, s)
      BY <1>2, <2>1, LatestIsImage DEF Used
    <3>2. PICK h \in Used : \A c \in Used : c <= h
      BY <2>1, HighestUsed DEF Used
    <3>3. LatestIn(image) = Place(h, Subs)
      BY <1>2, <2>1, <3>2, LatestFull DEF EndIsNewest, Refilled, Used
    <3>4. ~(h < Blocks)
      BY <2>1, <3>2, SubsAreNumbers, SMT DEF EndIsNewest, Used, UsedIn, Block
    <3> QED BY <1>2, <3>3, <3>4, NextSlotIs, SubsAreNumbers
  <2>3. calls' = ErasesFrom(1, v)
    <3>1. calls' = EraseAll \o <<Write(1, 1, v)>>
      BY <1>1, <2>1, <2>2, Zenon DEF SaveCalls, Place, Used
    <3> QED BY <3>1, AllErases
  <2>4. TypeOK'
    BY <1>1, <1>2, <2>3, EraseCalls, SubsAreNumbers DEF TypeOK
  <2>5. ErasingFrom(1)'
    <3>1. left = "nothing" => /\ FilledTo(image, 1, Blocks)
                              /\ LoadedFrom(image) = saved
      BY <1>3 DEF Resting, Shaped, Shape, LoadsSaved, Misread
    <3>2. Shaped(image, left)
      BY <1>3 DEF Resting
    <3>3. \A b \in 1 .. 1 - 1 : b \notin Used
      BY SMT
    <3> QED BY <1>1, <1>4, <2>1, <2>3, <3>1, <3>2, <3>3, Zenon DEF ErasingFrom
  <2> QED BY <1>1, <1>2, <2>4, <2>5, SubsAreNumbers DEF IInv
<1> QED BY <1>5, <1>6

LEMMA FinishWriting ==
  ASSUME TypeOK, Runs(image), OneRoom(image), RoomIsLast(image), Writing, FlashStep
  PROVE  IInv'
<1> DEFINE p == NextSlot.block
           s == NextSlot.sub
           i == [id |-> p, sub |-> s, value |-> info]
<1>1. image \in Images /\ info \in Settings /\ info # Torn
  BY SettingsAssumption DEF TypeOK, Images
<1>2. Fresh /\ Shaped(image, left) /\ p \in Block /\ s \in Sub
  BY <1>1, SlotIsFree DEF Writing
<1>3. /\ image' = Written(i) /\ calls' = <<>> /\ saved' = info /\ info' = info /\ left' = left
  <2>1. Head(calls) = Write(p, s, info) /\ Tail(calls) = <<>>
    BY Phases
  <2>2. Head(calls) # Erase(Blocks)
    BY <1>1, <1>2, <2>1, DoneCalls, SubsAreNumbers
  <2>3. Done(Head(calls)) = Written(i)
    BY <1>1, <1>2, <2>1, DoneCalls DEF Written
  <2> QED BY <2>1, <2>2, <2>3 DEF FlashStep
<1>4. Fits(i)
  BY <1>1, <1>2 DEF Fits, Image
<1>5. /\ image' \in Images /\ Runs(image') /\ UsedIn(image') = Used \cup {p}
      /\ image'[p][s] = i
      /\ \A j \in Block : Shape(image, j) => Shape(image', j)
  BY <1>1, <1>2, <1>3, <1>4, WriteKeepsShape
<1>6. OneRoom(image') /\ RoomIsLast(image')
  BY <1>1, <1>2, <1>3, <1>4, WriteKeepsRoomLast
<1>7. Shaped(image', left)
  BY <1>2, <1>5, SubsAreNumbers DEF Shaped
<1>8. ~Misread' => LoadedFrom(image') = saved'
  <2> SUFFICES ASSUME ~Misread' PROVE LoadedFrom(image') = info
    BY <1>3
  <2>1. \E j \in Block : /\ Shape(image, j)
                         /\ j # Blocks => \E b \in Block : ~Full(image', b)
    <3>1. CASE left = "nothing"
      BY <1>2, <3>1, SubsAreNumbers DEF Shaped
    <3>2. CASE left = "end"
      BY <1>2, <1>3, <3>2 DEF Shaped, Misread, AllFull, Full
    <3>3. CASE left = "pieces"
      BY <1>3, <3>3 DEF Misread
    <3> QED BY <3>1, <3>2, <3>3 DEF TypeOK
  <2>2. LatestIn(image') = NextSlot
    BY <1>1, <1>2, <1>3, <1>4, <2>1, WriteIsNewest
  <2>3. ValueAt(image', LatestIn(image')) = info
    BY <1>5, <2>2 DEF ValueAt
  <2> QED BY <1>1, <1>5, <2>3, WholeIsLoaded
<1>9. TypeOK'
  BY <1>1, <1>3, <1>5 DEF TypeOK, Images
<1> HIDE DEF p, s, i
<1>10. Resting'
  BY <1>3, <1>7, <1>8 DEF Resting, Idle, LoadsSaved
<1> QED BY <1>5, <1>6, <1>9, <1>10 DEF IInv

LEMMA BlankIsShaped ==
  ASSUME NEW im, UsedIn(im) = {}
  PROVE  Shape(im, Blocks)
<1>1. \A c \in Block : ~(c > Blocks)
  BY SubsAreNumbers, SMT DEF Block
<1> QED BY <1>1 DEF Shape, FilledTo

LEMMA FinishErasing ==
  ASSUME TypeOK, Runs(image), OneRoom(image), RoomIsLast(image),
         NEW c \in Block, ErasingFrom(c), FlashStep
  PROVE  IInv' /\ (c # Blocks /\ NewestIsWhole(image) => LoadedFrom(image') = LoadedFrom(image))
<1>1. image \in Images /\ info \in Settings /\ calls = ErasesFrom(c, info)
  BY DEF TypeOK, Images, ErasingFrom
<1>2. \A b \in 1 .. c - 1 : b \notin Used
  BY DEF ErasingFrom
<1>3. /\ image' = [image EXCEPT ![c] = BlankBlock] /\ calls' = Tail(calls) /\ info' = info
      /\ Head(calls) = Erase(c)
  BY <1>1, EraseCalls, DoneCalls DEF FlashStep
<1>4. /\ image' \in Images /\ Runs(image') /\ OneRoom(image') /\ RoomIsLast(image')
      /\ Used' = Used \ {c} /\ UsedIn(image') = Used \ {c}
      /\ Room(image') = Room(image) \ {c}
      /\ \A b \in Block : b # c => image'[b] = image[b]
      /\ \A b \in Used \ {c} : c < b
  BY <1>1, <1>2, <1>3, EraseKeepsShape DEF Used
<1>5. CASE c = Blocks
  <2>1. Used' = {} /\ UsedIn(image') = {}
    <3>1. \A b \in Used : ~(Blocks < b)
      BY SubsAreNumbers, SMT DEF Used, UsedIn, Block
    <3> QED BY <1>4, <1>5, <3>1 DEF Used, UsedIn
  <2>2. calls' = <<Write(1, 1, info)>>
    BY <1>1, <1>3, <1>5, EraseCalls
  <2>3. left' = "nothing" /\ saved' = saved
    <3>1. Tail(calls) # <<>>
      <4>1. \A x : <<x>> # <<>>
        OBVIOUS
      <4> QED BY <1>3, <2>2, <4>1, Zenon
    <3>2. Head(calls) = Erase(Blocks)
      BY <1>3, <1>5
    <3> QED BY <3>1, <3>2 DEF FlashStep
  <2>4. NextSlot' = Place(1, 1)
    BY <2>1, Zenon DEF NextSlot
  <2>5. Fresh'
    BY <2>1 DEF Fresh
  <2>6. Shaped(image', left')
    BY <2>1, <2>3, BlankIsShaped DEF Shaped
  <2>7. ~NewestIsWhole(image')
    BY <2>1 DEF NewestIsWhole
  <2>8. Writing'
    BY <1>3, <2>2, <2>4, <2>5, <2>6, <2>7 DEF Writing, Place
  <2>9. calls' \in Seq(Call)
    BY <1>1, <2>2, SubsAreNumbers DEF Call, Write
  <2>10. TypeOK'
    BY <1>1, <1>3, <1>4, <2>3, <2>9 DEF TypeOK, Images
  <2> QED BY <1>4, <1>5, <2>8, <2>10 DEF IInv
<1>6. CASE c # Blocks
  <2>1. c + 1 \in Block /\ calls' = ErasesFrom(c + 1, info)
    BY <1>1, <1>3, <1>6, EraseCalls
  <2>2. calls' \in Seq(Call) /\ calls' # <<>>
    BY <1>1, <2>1, EraseCalls
  <2>3. left' = left /\ saved' = saved
    <3>1. Erase(c) # Erase(Blocks)
      <4>1. Erase(c).block = c /\ Erase(Blocks).block = Blocks
        BY DEF Erase
      <4> QED BY <1>6, <4>1
    <3> QED BY <1>3, <2>2, <3>1 DEF FlashStep
  <2>4. \A b \in 1 .. (c + 1) - 1 : b \notin Used'
    <3>1. \A b \in Used' : ~(b < c + 1)
      BY <1>4, SubsAreNumbers, SMT DEF Used, UsedIn, Block
    <3>2. \A b \in 1 .. (c + 1) - 1 : b < c + 1
      BY SMT DEF Block
    <3> QED BY <3>1, <3>2
  <2>5. 1 \notin Used'
    <3>1. 1 \in 1 .. (c + 1) - 1
      BY SMT DEF Block
    <3> QED BY <2>4, <3>1
  <2>6. ASSUME Used' # {}, \/ Room(image) \ {c} # {}
                           \/ Room(image) = {} /\ ~Refilled(image)
        PROVE  /\ LatestIn(image') = LatestIn(image) /\ Used # {}
               /\ ValueAt(image', LatestIn(image')) = ValueAt(image, LatestIn(image))
               /\ (NewestIsWhole(image') <=> NewestIsWhole(image))
               /\ (NewestIsWhole(image) => LoadedFrom(image') = LoadedFrom(image))
    <3>1. /\ LatestIn(image') = LatestIn(image)
          /\ ValueAt(image', LatestIn(image')) = ValueAt(image, LatestIn(image))
      BY <1>1, <1>2, <1>3, <1>4, <2>6, EraseKeepsLatest
    <3>2. Used # {} /\ UsedIn(image') # {} /\ UsedIn(image) # {}
      BY <1>4, <2>6 DEF Used
    <3>3. NewestIsWhole(image') <=> NewestIsWhole(image)
      BY <3>1, <3>2 DEF NewestIsWhole
    <3>4. NewestIsWhole(image) => LoadedFrom(image') = LoadedFrom(image)
      BY <3>1, <3>2, WholeIsLoaded DEF NewestIsWhole
    <3> QED BY <3>1, <3>2, <3>3, <3>4
  <2>7. NewestIsWhole(image) => LoadedFrom(image') = LoadedFrom(image)
    <3> SUFFICES ASSUME NewestIsWhole(image) PROVE LoadedFrom(image') = LoadedFrom(image)
      OBVIOUS
    <3>1. EndIsNewest(image)
      BY DEF ErasingFrom, NewestIsWhole, Used
    <3>2. Blocks \in Used' /\ Room(image) = {} /\ ~Refilled(image)
      BY <1>4, <1>6, <3>1 DEF EndIsNewest, Refilled, Used
    <3> QED BY <2>6, <3>2
  <2>8. Used' # {} /\ ~EndIsNewest(image') => ~NewestIsWhole(image')
    <3> SUFFICES ASSUME Used' # {}, ~EndIsNewest(image') PROVE ~NewestIsWhole(image')
      OBVIOUS
    <3>1. CASE Room(image') # {}
      <4>1. Room(image) \ {c} # {} /\ ~EndIsNewest(image)
        BY <1>4, <3>1 DEF EndIsNewest
      <4> QED BY <2>6, <4>1 DEF ErasingFrom
    <3>2. CASE Room(image') = {}
      <4>1. Blocks \notin Used
        BY <1>4, <1>6, <2>5, <3>2 DEF EndIsNewest
      <4>2. Room(image) = {}
        <5> SUFFICES ASSUME Room(image) # {} PROVE FALSE
          OBVIOUS
        <5>1. c \in Room(image)
          BY <1>4, <3>2
        <5>2. \A b \in Used : b <= c
          BY <4>1, <5>1 DEF RoomIsLast, Used
        <5>3. PICK b \in Used : b # c /\ c < b
          BY <1>4
        <5> QED BY <5>2, <5>3, SubsAreNumbers DEF Used, UsedIn
      <4>3. ~Refilled(image) /\ ~EndIsNewest(image)
        BY <4>1 DEF Refilled, EndIsNewest, Used
      <4> QED BY <2>6, <4>2, <4>3 DEF ErasingFrom
    <3> QED BY <3>1, <3>2
  <2>9. left = "nothing" => /\ FilledTo(image', c + 1, Blocks)
                            /\ NewestIsWhole(image') => LoadedFrom(image') = saved
    <3> SUFFICES ASSUME left = "nothing"
                 PROVE  /\ FilledTo(image', c + 1, Blocks)
                        /\ NewestIsWhole(image') => LoadedFrom(image') = saved
      OBVIOUS
    <3>1. FilledTo(image, c, Blocks) /\ (NewestIsWhole(image) => LoadedFrom(image) = saved)
      BY DEF ErasingFrom
    <3>2. \A b \in Used : \A d \in c .. b - 1 : Full(image, d)
      <4>1. \A b \in Used : b <= Blocks
        BY SubsAreNumbers, SMT DEF Used, UsedIn, Block
      <4> QED BY <3>1, <4>1 DEF FilledTo, Used
    <3>3. FilledTo(image', c + 1, Blocks)
      <4> SUFFICES ASSUME NEW b \in Used \ {c}, NEW d \in (c + 1) .. b - 1
                   PROVE  Full(image', d)
        BY <1>4 DEF FilledTo
      <4>1. d \in Block /\ d # c /\ d \in c .. b - 1
        BY SubsAreNumbers, SMT DEF Used, UsedIn, Block
      <4> QED BY <1>4, <3>2, <4>1 DEF Full
    <3>4. ASSUME NewestIsWhole(image') PROVE LoadedFrom(image') = saved
      <4>1. Used' # {}
        BY <3>4 DEF NewestIsWhole, Used
      <4>2. PICK b \in Used : b # c /\ c < b
        BY <1>4, <4>1
      <4>3. c \in c .. b - 1
        BY <4>2, SubsAreNumbers, SMT DEF Used, UsedIn, Block
      <4>4. Full(image, c)
        BY <3>2, <4>2, <4>3
      <4>5. c \notin Room(image)
        BY <4>4 DEF Room
      <4>6. ~Refilled(image)
        <5> SUFFICES ASSUME Refilled(image) PROVE FALSE
          OBVIOUS
        <5>1. 1 \in Used /\ Blocks \in Used
          BY DEF Refilled, Used
        <5>2. c = 1
          <6>1. c # 1 => 1 \in 1 .. c - 1
            BY SMT DEF Block
          <6> QED BY <1>2, <5>1, <6>1
        <5>3. \A d \in Block : d = Blocks \/ d \in c .. Blocks - 1
          BY <5>2, SubsAreNumbers, SMT DEF Block
        <5>4. \A d \in Block : d \in Used
          BY <3>2, <5>1, <5>3, FullIsUsed DEF Used
        <5> QED BY <5>4 DEF Refilled, Used
      <4>7. \/ Room(image) \ {c} # {}
            \/ Room(image) = {} /\ ~Refilled(image)
        BY <4>5, <4>6
      <4> QED BY <2>6, <3>1, <3>4, <4>1, <4>7
    <3> QED BY <3>3, <3>4
  <2>10. ErasingFrom(c + 1)'
    BY <1>3, <2>1, <2>3, <2>4, <2>5, <2>8, <2>9, Zenon DEF ErasingFrom
  <2>11. TypeOK'
    BY <1>1, <1>3, <1>4, <2>2, <2>3 DEF TypeOK, Images
  <2> QED BY <1>4, <2>1, <2>7, <2>10, <2>11 DEF IInv
<1> QED BY <1>5, <1>6

\* A start finds images in one of the phases: loaded, nothing there, or nothing that
\* can be loaded.
LEMMA AfterLoad ==
  ASSUME image' \in Images, Runs(image'), OneRoom(image'), RoomIsLast(image'),
         info' = IF LoadedFrom(image') = Torn THEN Default ELSE LoadedFrom(image'),
         calls' = LoadCalls(image'), saved' = info', left' \in {"nothing", "end", "pieces"},
         \/ Shaped(image', left')
         \/ /\ 1 \notin UsedIn(image') /\ UsedIn(image') # {}
            /\ LoadedFrom(image') = Torn /\ left' # "nothing"
  PROVE  IInv'
<1>1. info' \in Settings /\ saved' \in Settings /\ Default \in Settings /\ Torn \notin Settings
  BY LoadedType, SettingsAssumption
<1>2. ASSUME calls' \in Seq(Call) PROVE TypeOK'
  BY <1>1, <1>2 DEF TypeOK, Images
<1>3. CASE LoadedFrom(image') # Torn
  <2>1. calls' = <<>> /\ Shaped(image', left') /\ info' = LoadedFrom(image')
    BY <1>3 DEF LoadCalls
  <2>2. Resting'
    BY <2>1 DEF Resting, Idle, LoadsSaved
  <2> QED BY <1>2, <2>1, <2>2 DEF IInv
<1>4. CASE LoadedFrom(image') = Torn /\ UsedIn(image') = {}
  <2>1. calls' = <<Write(1, 1, Default)>> /\ info' = Default
    BY <1>4, EmptyThenOne DEF LoadCalls
  <2>2. NextSlot' = Place(1, 1) /\ Used' = {}
    BY <1>4, Zenon DEF NextSlot, Used
  <2>3. Fresh' /\ ~NewestIsWhole(image') /\ Shaped(image', left')
    BY <1>4, <2>2 DEF Fresh, NewestIsWhole
  <2>4. Writing'
    BY <2>1, <2>2, <2>3 DEF Writing, Place
  <2>5. calls' \in Seq(Call)
    BY <1>1, <2>1, SubsAreNumbers DEF Call, Write
  <2> QED BY <1>2, <2>4, <2>5 DEF IInv
<1>5. CASE LoadedFrom(image') = Torn /\ UsedIn(image') # {}
  <2>1. calls' = ErasesFrom(1, info')
    <3>1. calls' = EraseAll \o <<Write(1, 1, Default)>> /\ info' = Default
      BY <1>5, Zenon DEF LoadCalls
    <3> QED BY <1>1, <3>1, AllErases
  <2>2. ~NewestIsWhole(image')
    BY <1>5, WholeIsLoaded DEF NewestIsWhole
  <2>3. left' = "nothing" => FilledTo(image', 1, Blocks)
    BY DEF Shaped, Shape
  <2>4. \A b \in 1 .. 1 - 1 : b \notin Used'
    BY SMT
  <2>5. left' = "end" /\ 1 \in Used' => Shaped(image', left')
    BY DEF Used
  <2>6. ErasingFrom(1)'
    BY <2>1, <2>2, <2>3, <2>4, <2>5, Zenon DEF ErasingFrom
  <2>7. calls' \in Seq(Call)
    BY <1>1, <2>1, EraseCalls, SubsAreNumbers
  <2> QED BY <1>2, <2>6, <2>7, SubsAreNumbers DEF IInv
<1> QED BY <1>3, <1>4, <1>5

\* What an erase that was cut short leaves has its shape, or nothing is loaded from it.
LEMMA LeftShaped ==
  ASSUME image \in Images, Runs(image), OneRoom(image), 1 \notin Used,
         Used # {} /\ ~EndIsNewest(image) => ~NewestIsWhole(image)
  PROVE  \/ Shaped(image, LeftIn(Used))
         \/ Used # {} /\ LoadedFrom(image) = Torn /\ LeftIn(Used) # "nothing"
<1>1. CASE Used = {}
  BY <1>1, BlankIsShaped DEF Shaped, LeftIn, Used
<1>2. CASE Used # {} /\ Room(image) # {}
  <2>1. ValueAt(image, LatestIn(image)) = Torn
    BY <1>2 DEF EndIsNewest, NewestIsWhole, Used
  <2>2. LoadedFrom(image) = Torn
    BY <1>2, <2>1, TornRoomIsLost
  <2>3. LeftIn(Used) # "nothing"
    BY <1>2 DEF LeftIn
  <2> QED BY <1>2, <2>2, <2>3
<1>3. CASE Used # {} /\ Room(image) = {} /\ LeftIn(Used) = "end"
  <2>1. \A b \in Used : b = Blocks \/ b + 1 \in Used
    BY <1>3 DEF LeftIn
  <2> DEFINE f == First(Used)
  <2>2. f \in Used /\ \A b \in Used : f <= b
    <3>1. Used \in SUBSET Nat
      BY SubsAreNumbers DEF Used, UsedIn
    <3> QED BY <1>3, <3>1, LeastExists
  <2> HIDE DEF f
  <2>3. f - 1 \in Block /\ f \in Block
    BY <2>2, SubsAreNumbers, SMT DEF Used, UsedIn, Block
  <2>4. \A c \in Block : c > f - 1 => c \in Used
    <3> SUFFICES ASSUME NEW c \in Block, c > f - 1, c \notin Used PROVE FALSE
      OBVIOUS
    <3> DEFINE G == {d \in Block : d > f - 1 /\ d \notin Used}
               g == First(G)
    <3>1. g \in G /\ \A d \in G : g <= d
      <4>1. G \in SUBSET Nat /\ G # {}
        BY SubsAreNumbers
      <4> HIDE DEF G
      <4> QED BY <4>1, LeastExists
    <3> HIDE DEF g
    <3>2. g # f /\ g - 1 \in Block /\ g - 1 > f - 1 /\ ~(g <= g - 1) /\ g - 1 # Blocks
          /\ (g - 1) + 1 = g
      BY <2>2, <2>3, <3>1, SubsAreNumbers, SMT DEF Block
    <3>3. g - 1 \in Used
      BY <3>1, <3>2
    <3> QED BY <2>1, <3>1, <3>2, <3>3
  <2>5. \A c \in Block : c > f - 1 => Full(image, c)
    BY <1>3, <2>4 DEF Room, Used
  <2>6. \A b \in UsedIn(image) : ~(b <= f - 1)
    BY <2>2, <2>3, SubsAreNumbers, SMT DEF Used, UsedIn, Block
  <2>7. Shape(image, f - 1)
    BY <2>5, <2>6 DEF Shape, FilledTo
  <2> QED BY <1>3, <2>3, <2>7 DEF Shaped
<1>4. CASE Used # {} /\ LeftIn(Used) # "end"
  <2>1. LeftIn(Used) = "pieces"
    BY <1>4 DEF LeftIn
  <2> QED BY <2>1 DEF Shaped
<1> QED BY <1>1, <1>2, <1>3, <1>4

LEMMA LosePower ==
  ASSUME IInv, PowerCut
  PROVE  IInv'
<1>1. TypeOK /\ Runs(image) /\ OneRoom(image) /\ RoomIsLast(image) /\ image \in Images
  BY DEF IInv, TypeOK, Images
<1>2. /\ info' = IF LoadedFrom(image') = Torn THEN Default ELSE LoadedFrom(image')
      /\ calls' = LoadCalls(image') /\ saved' = info'
  BY DEF PowerCut
<1>3. left' \in {"nothing", "end", "pieces"}
  BY <1>1 DEF PowerCut, LeftIn, TypeOK
<1>4. CASE Resting
  <2>1. Idle
    BY <1>4 DEF Resting
  <2>2. image' = image /\ left' = left
    BY <2>1 DEF PowerCut
  <2>3. Shaped(image', left')
    BY <1>4, <2>2 DEF Resting
  <2> QED BY <1>1, <1>2, <1>3, <2>2, <2>3, AfterLoad
<1>5. CASE Writing
  <2> DEFINE p == NextSlot.block
             s == NextSlot.sub
             i == [id |-> p, sub |-> s, value |-> Torn]
  <2>1. Fresh /\ Shaped(image, left) /\ p \in Block /\ s \in Sub
    BY <1>1, <1>5, SlotIsFree DEF Writing
  <2>2. info \in Settings /\ Head(calls) = Write(p, s, info)
    BY <1>1, <1>5, Phases DEF TypeOK
  <2>3. /\ Done([Head(calls) EXCEPT !.value = Torn]) = Written(i)
        /\ Head(calls).call = "write"
    BY <2>1, <2>2, DoneCalls DEF Written
  <2>4. left' = left
    BY <2>3 DEF PowerCut
  <2>5. CASE image' = image
    BY <1>1, <1>2, <1>3, <2>1, <2>4, <2>5, AfterLoad
  <2>6. CASE image' = Written(i)
    <3>1. Fits(i)
      BY <2>1 DEF Fits, Image
    <3> HIDE DEF i
    <3>2. /\ image' \in Images /\ Runs(image')
          /\ \A j \in Block : Shape(image, j) => Shape(image', j)
      BY <1>1, <2>1, <2>6, <3>1, WriteKeepsShape
    <3>3. OneRoom(image') /\ RoomIsLast(image')
      BY <1>1, <2>1, <2>6, <3>1, WriteKeepsRoomLast
    <3>4. Shaped(image', left')
      BY <2>1, <2>4, <3>2, SubsAreNumbers DEF Shaped
    <3> QED BY <1>2, <1>3, <3>2, <3>3, <3>4, AfterLoad
  <2> QED BY <2>3, <2>5, <2>6 DEF PowerCut
<1>6. ASSUME NEW c \in Block, ErasingFrom(c) PROVE IInv'
  <2>1. ~Idle /\ Head(calls) = Erase(c) /\ Head(calls).call = "erase"
    <3>1. Erase(c).call = "erase"
      BY DEF Erase
    <3> QED BY <1>1, <1>6, <3>1, Phases
  <2>2. image' = image
    BY <2>1 DEF PowerCut
  <2>3. CASE 1 \in Used
    <3>1. c = 1
      <4>1. c # 1 => 1 \in 1 .. c - 1
        BY SMT DEF Block
      <4> QED BY <1>6, <2>3, <4>1 DEF ErasingFrom
    <3>2. left' = left
      BY <2>1, <2>3 DEF PowerCut, Used
    <3>3. left = "nothing" => Shaped(image, left)
      <4>1. \A b \in Block : ~(b > Blocks)
        BY SubsAreNumbers, SMT DEF Block
      <4> QED BY <1>6, <3>1, <4>1 DEF ErasingFrom, Shaped, Shape
    <3>4. left = "pieces" => Shaped(image, left)
      BY DEF Shaped
    <3>5. Shaped(image, left)
      BY <1>1, <1>6, <2>3, <3>3, <3>4 DEF ErasingFrom, TypeOK
    <3> QED BY <1>1, <1>2, <1>3, <2>2, <3>2, <3>5, AfterLoad
  <2>4. CASE 1 \notin Used
    <3>1. left' = LeftIn(Used)
      BY <2>1, <2>4 DEF PowerCut, Used
    <3>2. \/ Shaped(image, LeftIn(Used))
          \/ Used # {} /\ LoadedFrom(image) = Torn /\ LeftIn(Used) # "nothing"
      BY <1>1, <1>6, <2>4, LeftShaped DEF ErasingFrom
    <3>3. \/ Shaped(image', left')
          \/ /\ 1 \notin UsedIn(image') /\ UsedIn(image') # {}
             /\ LoadedFrom(image') = Torn /\ left' # "nothing"
      BY <2>2, <2>4, <3>1, <3>2 DEF Used
    <3> QED BY <1>1, <1>2, <1>3, <2>2, <3>3, AfterLoad
  <2> QED BY <2>3, <2>4
<1> QED BY <1>4, <1>5, <1>6 DEF IInv

-----------------------------------------------------------------------------
(* The theorems. *)

LEMMA Starts == Init => IInv
<1> SUFFICES ASSUME Init PROVE IInv
  OBVIOUS
<1>1. /\ \A b \in Block, s \in Sub : image[b][s] = Blank
      /\ image \in Images
  BY DEF Init, BlankBlock, Images
<1>2. Used = {} /\ UsedIn(image) = {}
  BY <1>1, SubsAreNumbers DEF Used, UsedIn
<1>3. Runs(image) /\ OneRoom(image) /\ RoomIsLast(image)
  BY <1>1, <1>2 DEF Runs, OneRoom, RoomIsLast, Room
<1>4. TypeOK
  <2>1. calls \in Seq(Call)
    BY SettingsAssumption, SubsAreNumbers DEF Init, Call, Write
  <2> QED BY <1>1, <2>1, SettingsAssumption DEF Init, TypeOK, Images
<1>5. NextSlot = Place(1, 1) /\ info = Default /\ calls = <<Write(1, 1, Default)>>
  BY <1>2, Zenon DEF NextSlot, Init
<1>6. Shaped(image, left) /\ ~NewestIsWhole(image) /\ Fresh
  BY <1>2, BlankIsShaped DEF Shaped, Init, NewestIsWhole, Fresh
<1>7. Writing
  BY <1>5, <1>6 DEF Writing, Place
<1> QED BY <1>3, <1>4, <1>7 DEF IInv

LEMMA Keeps == IInv /\ [Next]_vars => IInv'
<1> SUFFICES ASSUME IInv, [Next]_vars PROVE IInv'
  OBVIOUS
<1>1. CASE FlashStep
  <2>1. TypeOK /\ Runs(image) /\ OneRoom(image) /\ RoomIsLast(image)
    BY DEF IInv
  <2>2. ~Resting
    BY <1>1 DEF FlashStep, Resting
  <2> QED BY <1>1, <2>1, <2>2, FinishWriting, FinishErasing DEF IInv
<1>2. CASE PowerCut
  BY <1>2, LosePower
<1>3. CASE \E v \in Settings : SaveInfo(v)
  BY <1>3, StartSaving
<1>4. CASE UNCHANGED vars
  <2>1. /\ image' = image /\ info' = info /\ calls' = calls /\ saved' = saved /\ left' = left
    BY <1>4 DEF vars
  <2>2. TypeOK' /\ Runs(image') /\ OneRoom(image') /\ RoomIsLast(image')
    BY <2>1 DEF IInv, TypeOK
  <2>3. /\ NextSlot' = NextSlot /\ (Fresh' <=> Fresh) /\ Used' = Used
        /\ (LoadsSaved' <=> LoadsSaved)
    BY <2>1 DEF NextSlot, Fresh, Used, LoadsSaved, Misread, AllFull
  <2>4. Resting => Resting'
    BY <2>1, <2>3 DEF Resting, Idle
  <2>5. Writing => Writing'
    BY <2>1, <2>3, Zenon DEF Writing
  <2>6. \A c \in Block : ErasingFrom(c) => ErasingFrom(c)'
    BY <2>1, <2>3, Zenon DEF ErasingFrom
  <2> QED BY <2>2, <2>4, <2>5, <2>6 DEF IInv
<1> QED BY <1>1, <1>2, <1>3, <1>4 DEF Next

LEMMA Invariance == Spec => []IInv
<1> QED BY Starts, Keeps, PTL DEF Spec

\* Every write goes to a slot inside a block: the search never names a slot that is
\* not there, whatever a power cut left (breakpoint.c, FindLatestBPBak).
THEOREM SlotsExist == Spec => []TypeOK
<1>1. IInv => TypeOK
  BY DEF IInv
<1> QED BY <1>1, Invariance, PTL

\* Between saves a restart loads the settings that were saved last, unless an erase
\* that was cut short left older images (breakpoint.c, LoadBPInfoFromFlash).
THEOREM LoadsTheNewest == Spec => []NewestIsLoaded
<1>1. IInv => NewestIsLoaded
  <2> SUFFICES ASSUME IInv, Idle PROVE ~Misread => LoadedFrom(image) = saved
    BY DEF NewestIsLoaded
  <2>1. Resting
    BY Phases DEF IInv
  <2> QED BY <2>1 DEF Resting, LoadsSaved
<1> QED BY <1>1, Invariance, PTL

\* Erasing the full blocks loses nothing before the last of them is erased
\* (breakpoint.c, SaveBakBPInfo).
THEOREM ErasesOldestFirst == Spec => EraseKeepsNewest
<1>1. IInv /\ [Next]_vars =>
        [(ErasesNotLast /\ NewestIsWhole(image)) => LoadedFrom(image') = LoadedFrom(image)]_vars
  <2> SUFFICES ASSUME IInv, Next, ErasesNotLast, NewestIsWhole(image)
               PROVE  LoadedFrom(image') = LoadedFrom(image)
    OBVIOUS
  <2>1. TypeOK /\ Runs(image) /\ OneRoom(image) /\ RoomIsLast(image) /\ image \in Images
    BY DEF IInv, TypeOK, Images
  <2>2. PICK b \in 1 .. Blocks - 1 : Head(calls) = Erase(b) /\ ~Idle
    BY DEF ErasesNotLast
  <2>3. Head(calls).call = "erase" /\ Head(calls).block = b
    BY <2>2 DEF Erase
  <2>4. CASE PowerCut
    BY <2>3, <2>4 DEF PowerCut
  <2>5. CASE FlashStep
    <3>1. ~Writing
      <4> SUFFICES ASSUME Writing PROVE FALSE
        OBVIOUS
      <4>1. Head(calls) = Write(NextSlot.block, NextSlot.sub, info)
        BY <2>1, Phases
      <4>2. Head(calls).call = "write"
        BY <4>1 DEF Write
      <4> QED BY <2>3, <4>2
    <3>2. PICK c \in Block : ErasingFrom(c)
      BY <2>2, <3>1 DEF IInv, Resting
    <3>3. Erase(c).block = c
      BY DEF Erase
    <3>4. c = b
      BY <2>1, <2>3, <3>2, <3>3, Phases
    <3>5. c # Blocks
      BY <3>4, SubsAreNumbers, SMT
    <3> QED BY <2>1, <2>5, <3>2, <3>5, FinishErasing
  <2>6. CASE \E v \in Settings : SaveInfo(v)
    BY <2>2, <2>6 DEF SaveInfo
  <2> QED BY <2>4, <2>5, <2>6 DEF Next
<1> QED BY <1>1, Invariance, PTL DEF Spec, EraseKeepsNewest

\* A power cut that leaves the newest image whole brings back the settings of the last
\* save, and none that are older (breakpoint.c, LoadBPInfoFromFlash).
THEOREM CutBringsBackTheLast == Spec => NothingOlderComesBack
<1>1. IInv /\ [Next]_vars =>
        [(PowerCut /\ NewestIsWhole(image') /\ (left = "nothing" \/ ~(Misread' \/ Erasing)))
            => info' = saved]_vars
  <2> SUFFICES ASSUME IInv, PowerCut, NewestIsWhole(image'),
                      left = "nothing" \/ ~(Misread' \/ Erasing)
               PROVE  info' = saved
    OBVIOUS
  <2>1. TypeOK /\ Runs(image) /\ OneRoom(image) /\ RoomIsLast(image) /\ image \in Images
    BY DEF IInv, TypeOK, Images
  <2>2. info' = LoadedFrom(image')
    BY WholeIsLoaded DEF PowerCut, NewestIsWhole
  <2>3. ASSUME image' = image, left' = left, LoadsSaved, ~Erasing PROVE info' = saved
    <3>1. ~Misread
      BY <2>3 DEF Misread, AllFull
    <3> QED BY <2>2, <2>3, <3>1 DEF LoadsSaved
  <2>4. CASE Resting
    <3>1. Idle /\ image' = image /\ left' = left
      BY <2>4 DEF Resting, PowerCut
    <3> QED BY <2>3, <2>4, <3>1 DEF Resting, Erasing
  <2>5. CASE Writing
    <3> DEFINE p == NextSlot.block
               s == NextSlot.sub
               i == [id |-> p, sub |-> s, value |-> Torn]
    <3>1. Fresh /\ Shaped(image, left) /\ p \in Block /\ s \in Sub
      BY <2>1, <2>5, SlotIsFree DEF Writing
    <3>2. info \in Settings /\ Head(calls) = Write(p, s, info)
      BY <2>1, <2>5, Phases DEF TypeOK
    <3>3. /\ Done([Head(calls) EXCEPT !.value = Torn]) = Written(i)
          /\ Head(calls).call = "write"
      BY <3>1, <3>2, DoneCalls DEF Written
    <3>4. left' = left /\ ~Erasing
      BY <3>3 DEF PowerCut, Erasing
    <3>5. CASE image' = image
      BY <2>3, <2>5, <3>4, <3>5 DEF Writing
    <3>6. CASE image' = Written(i)
      <4>1. Fits(i) /\ i.value = Torn
        BY <3>1 DEF Fits, Image
      <4> HIDE DEF i
      <4>2. \E j \in Block : /\ Shape(image, j)
                             /\ j # Blocks => \E b \in Block : ~Full(image', b)
        <5>1. CASE left = "nothing"
          BY <3>1, <5>1, SubsAreNumbers DEF Shaped
        <5>2. CASE left = "end"
          BY <3>1, <3>4, <5>2 DEF Shaped, Misread, AllFull, Full
        <5>3. CASE left = "pieces"
          BY <3>4, <5>3 DEF Misread
        <5> QED BY <2>1, <5>1, <5>2, <5>3 DEF TypeOK
      <4>3. LatestIn(image') = NextSlot
        BY <2>1, <3>1, <3>6, <4>1, <4>2, WriteIsNewest
      <4>4. image'[p][s] = i
        BY <2>1, <3>1, <3>6, <4>1, WriteKeepsShape
      <4>5. ValueAt(image', LatestIn(image')) = Torn
        BY <4>1, <4>3, <4>4 DEF ValueAt
      <4> QED BY <4>5 DEF NewestIsWhole
    <3> QED BY <3>3, <3>5, <3>6 DEF PowerCut
  <2>6. ASSUME NEW c \in Block, ErasingFrom(c) PROVE info' = saved
    <3>1. ~Idle /\ Head(calls) = Erase(c) /\ Head(calls).call = "erase"
      <4>1. Erase(c).call = "erase"
        BY DEF Erase
      <4> QED BY <2>1, <2>6, <4>1, Phases
    <3>2. image' = image /\ left = "nothing"
      BY <3>1 DEF PowerCut, Erasing
    <3> QED BY <2>2, <2>6, <3>2 DEF ErasingFrom
  <2> QED BY <2>4, <2>5, <2>6 DEF IInv
<1> QED BY <1>1, Invariance, PTL DEF Spec, NothingOlderComesBack
=============================================================================
