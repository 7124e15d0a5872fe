---------------------------- MODULE BtDdb_proofs ----------------------------
(***************************************************************************)
(* What a restart finds of the paired devices and of the last one, for     *)
(* every number of devices, of blocks and of log entries, and wherever the *)
(* power fails.  The invariant says what the handlers' calls of the flash  *)
(* driver still have to do, and what the two logs hold meanwhile.          *)
(***************************************************************************)
EXTENDS BtDdb, SequenceTheorems, WellFoundedInduction, TLAPS

\* The list of saved records has no hole, and Total records.
Total == TotalIn(saving)
Gapless == \A i \in Slot : i > Total => saving[i] = None

Header(b) == [call |-> "header", block |-> b, count |-> Total]
Record(b, i) == [call |-> "record", block |-> b, index |-> i, cell |-> saving[i]]
Named(name) == [call |-> name]

\* Blocks below those in use are blank.
Clean == \A b \in 1 .. Blocks : (\A c \in UsedBlocks : b < c) => records[b] = BlankBlock

\* From the call k on, the list is saved in block b ...
SaveFrom(k, b) ==
    /\ Len(todo) = k + Total /\ todo[k] = Header(b)
    /\ \A n \in 1 .. Total : todo[k + n] = Record(b, n)
    /\ Gapless
\* ... or the last device is forgotten too, after a reset.
After(k) ==
    \/ SaveFrom(k, Blocks)
    \/ Len(todo) = k /\ todo[k] = Named("eraseLast") /\ saving = EmptyList /\ lastAddr = None

\* The last device in flash is the one in RAM.
Agrees == lastAddr # None =>
    /\ NewestLast # 0 /\ lastSlot = NewestLast
    /\ last[lastSlot] = [addr |-> lastAddr, profiles |-> lastProfiles]

\* The phases of a handler's calls: none left ...
Resting == /\ todo = <<>> /\ Agrees
           /\ ~halfErased => Clean /\ Loaded = committed
\* ... both sectors to erase, or the high one, and then more ...
EraseBoth == /\ Len(todo) > 2 /\ todo[1] = Named("eraseLow") /\ todo[2] = Named("eraseHigh")
             /\ After(3) /\ Agrees
             /\ ~halfErased => Clean /\ Loaded = committed
EraseHigh == /\ Len(todo) > 1 /\ todo[1] = Named("eraseHigh")
             /\ After(2) /\ Agrees /\ halfErased
\* ... a header to write into block b below those in use ...
Heading(b) == /\ SaveFrom(1, b) /\ Agrees
              /\ ~halfErased => /\ Clean /\ \A c \in UsedBlocks : b < c
                                /\ Loaded \in {committed, EmptyList}
\* ... some of its records, those before them being there ...
FilledIn(r, l, b, done) ==
    /\ r[b] = [count |-> TotalIn(l),
               cells |-> [i \in Slot |-> IF i <= done THEN l[i] ELSE BlankCell]]
    /\ \A c \in 1 .. Blocks : c < b => r[c] = BlankBlock
Filling(b) ==
    LET done == Total - Len(todo)
    IN  /\ Len(todo) \in 1 .. Total /\ Gapless /\ Agrees
        /\ \A n \in 1 .. Len(todo) : todo[n] = Record(b, done + n)
        /\ ~halfErased => FilledIn(records, saving, b, done)
\* ... or calls that concern the last device only.
LastCall(s) == [call |-> "last", slot |-> s, addr |-> lastAddr, profiles |-> lastProfiles]
Naming ==
    /\ \/ Len(todo) = 1 /\ todo[1] = Named("eraseLast") /\ lastAddr = None
       \/ /\ Len(todo) = 2 /\ todo[1] = Named("eraseLast") /\ todo[2] = LastCall(LastSlots)
          /\ lastAddr # None
       \/ \E s \in 1 .. LastSlots :
            /\ Len(todo) = 1 /\ todo[1] = LastCall(s) /\ lastAddr # None
            /\ \A t \in 1 .. LastSlots : t < s => last[t].addr = Blank
       \/ /\ Len(todo) = 1 /\ lastSlot = NewestLast /\ lastSlot # 0 /\ lastAddr # None
          /\ todo[1] = [call |-> "profile", slot |-> lastSlot, profiles |-> lastProfiles]
          /\ last[lastSlot].addr = lastAddr /\ last[lastSlot].profiles \subseteq lastProfiles
    /\ ~halfErased => Clean /\ Loaded = saving

Phases == \/ Resting \/ EraseBoth \/ EraseHigh \/ Naming
          \/ \E b \in 1 .. Blocks : Heading(b) \/ Filling(b)

\* A device that is connected is the last one.
OnLine == /\ connected # {} => remote # None /\ lastAddr = remote
          /\ linkUp => connected # {}

\* Behind an unused place of the list, except the first, there is no record; and as long
\* as the list is not marked, its records are those saved.
OneHole == \A i, j \in Slot : 1 < i /\ i < j /\ list[i] = None => list[j] = None
Within(l) == l = EmptyList \/ \A i \in Slot : list[i] = None \/ \E j \in Slot : l[j] = list[i]
Known == ~ddbUpdate => /\ todo = <<>> => Within(committed)
                       /\ todo # <<>> => Within(saving)

Call ==
    {Named("eraseLow"), Named("eraseHigh"), Named("eraseLast")}
    \cup [call : {"header"}, block : 1 .. Blocks, count : 0 .. MaxDevices]
    \cup [call : {"record"}, block : 1 .. Blocks, index : Slot, cell : Cell]
    \cup [call : {"last"}, slot : 1 .. LastSlots, addr : Device, profiles : SUBSET Profile]
    \cup [call : {"profile"}, slot : 1 .. LastSlots, profiles : SUBSET Profile]
Types ==
    /\ records \in [1 .. Blocks -> [count : 0 .. MaxDevices \cup {Blank},
                                    cells : [Slot -> Cell]]]
    /\ last \in [1 .. LastSlots -> [addr : Device \cup {Blank}, profiles : SUBSET Profile]]
    /\ list \in [Slot -> Cell \cup {None}] /\ saving \in [Slot -> Cell \cup {None}]
    /\ committed \in [Slot -> Cell \cup {None}]
    /\ ddbUpdate \in BOOLEAN /\ linkUp \in BOOLEAN /\ halfErased \in BOOLEAN
    /\ lastAddr \in Device \cup {None} /\ remote \in Device \cup {None}
    /\ lastProfiles \subseteq Profile /\ connected \subseteq Profile
    /\ lastSlot \in 0 .. LastSlots /\ pairings \in 0 .. MaxPairings
    /\ todo \in Seq(Call)

IInv == Types /\ Phases /\ OnLine /\ OneHole /\ Known

-----------------------------------------------------------------------------
(* Numbers and lists. *)

LEMMA Sizes ==
    /\ MaxDevices \in Nat /\ MaxDevices >= 1 /\ Slot = 1 .. MaxDevices
    /\ Blocks \in Nat /\ Blocks >= 2 /\ LastSlots \in Nat /\ LastSlots >= 1
    /\ Straddling \in 2 .. Blocks
BY GeometryAssumption DEF Slot

LEMMA Marks ==
    /\ Blank # Mixed /\ None # Blank /\ None # Mixed /\ None \notin Cell
    /\ Blank \notin Device /\ None \notin Device /\ Blank \notin 0 .. MaxDevices
BY DistinctAssumption, RecordAssumption

\* A set of numbers has a least one, and only one.
LEMMA FirstIsLeast ==
  ASSUME NEW S \in SUBSET Nat, S # {}
  PROVE  First(S) \in S /\ \A m \in S : First(S) <= m
<1>1. PICK k \in S : \A j \in S : ~(<<j, k>> \in OpToRel(<, Nat))
  BY NatLessThanWellFounded, WFMin, Zenon
<1>2. \A j \in S : k <= j
  <2>1. \A j \in S : ~(j < k)
    BY <1>1, Zenon DEF OpToRel
  <2> QED BY <2>1, SMT
<1> QED BY <1>2 DEF First

LEMMA FirstIs ==
  ASSUME NEW S \in SUBSET Nat, NEW k \in S, \A m \in S : k <= m
  PROVE  First(S) = k
<1>1. First(S) \in S /\ \A m \in S : First(S) <= m
  BY FirstIsLeast
<1>2. k \in Nat /\ First(S) \in Nat /\ k <= First(S) /\ First(S) <= k
  BY <1>1
<1> QED BY <1>2, SMT

\* What GetCurTotaBtRecNum counts.
LEMMA TotalCounts ==
  ASSUME NEW l
  PROVE  /\ TotalIn(l) \in 0 .. MaxDevices
         /\ \A i \in Slot : i <= TotalIn(l) => l[i] # None
         /\ \A i \in Slot : i = TotalIn(l) + 1 => l[i] = None
<1> DEFINE unused == {i \in Slot : l[i] = None}
<1>1. unused \in SUBSET Nat
  BY Sizes
<1>2. CASE unused = {}
  <2>1. TotalIn(l) = MaxDevices
    BY <1>2 DEF TotalIn
  <2> QED BY <1>2, <2>1, Sizes
<1>3. CASE unused # {}
  <2>1. First(unused) \in unused /\ \A m \in unused : First(unused) <= m
    BY <1>1, <1>3, FirstIsLeast
  <2>2. TotalIn(l) = First(unused) - 1
    BY <1>3 DEF TotalIn
  <2>3. First(unused) \in Slot /\ l[First(unused)] = None
    BY <2>1
  <2>4. \A i \in Slot : i < First(unused) => l[i] # None
    BY <2>1, <2>3, Sizes
  <2> HIDE DEF unused
  <2> QED BY <2>2, <2>3, <2>4, Sizes
<1> QED BY <1>2, <1>3

\* The saved part of a list has as many records, and no hole.
LEMMA PrefixIsGapless ==
  ASSUME NEW l, NEW s, s = [i \in Slot |-> IF i <= TotalIn(l) THEN l[i] ELSE None]
  PROVE  TotalIn(s) = TotalIn(l) /\ \A i \in Slot : i > TotalIn(s) => s[i] = None
<1> DEFINE t == TotalIn(l)
<1>1. /\ t \in 0 .. MaxDevices /\ \A i \in Slot : i <= t => l[i] # None
  BY TotalCounts
<1>2. \A i \in Slot : s[i] = None <=> i > t
  <2> HIDE DEF t
  <2>1. s = [i \in Slot |-> IF i <= t THEN l[i] ELSE None]
    BY DEF t
  <2> QED BY <1>1, <2>1, Sizes
<1>3. /\ TotalIn(s) \in 0 .. MaxDevices /\ \A i \in Slot : i <= TotalIn(s) => s[i] # None
      /\ \A i \in Slot : i = TotalIn(s) + 1 => s[i] = None
  BY TotalCounts
<1> HIDE DEF t
<1>4. TotalIn(s) = t
  <2>1. CASE t < TotalIn(s)
    <3>1. t + 1 \in Slot /\ t + 1 <= TotalIn(s)
      BY <1>1, <1>3, <2>1, Sizes
    <3> QED BY <1>1, <1>2, <1>3, <3>1
  <2>2. CASE TotalIn(s) < t
    <3>1. TotalIn(s) + 1 \in Slot /\ TotalIn(s) + 1 <= t
      BY <1>1, <1>3, <2>2, Sizes
    <3> QED BY <1>1, <1>2, <1>3, <3>1, Sizes
  <2> QED BY <1>1, <1>3, <2>1, <2>2
<1> QED BY <1>2, <1>4 DEF t

\* The queue of calls, taken one by one.
LEMMA CallTaken ==
  ASSUME NEW S, NEW q \in Seq(S), q # <<>>
  PROVE  /\ Len(q) \in Nat \ {0} /\ Head(q) = q[1] /\ Head(q) \in S
         /\ Tail(q) \in Seq(S) /\ Len(Tail(q)) = Len(q) - 1
         /\ \A n \in 1 .. Len(q) - 1 : Tail(q)[n] = q[n + 1]
         /\ Tail(q) = <<>> <=> Len(q) = 1
<1>1. Len(q) \in Nat \ {0}
  BY EmptySeq
<1>2. /\ Head(q) \in S /\ Tail(q) \in Seq(S) /\ Len(Tail(q)) = Len(q) - 1
      /\ \A n \in 1 .. Len(Tail(q)) : Tail(q)[n] = q[n + 1]
  BY HeadTailProperties
<1>3. Head(q) = q[1]
  OBVIOUS
<1>4. Tail(q) = <<>> <=> Len(Tail(q)) = 0
  BY <1>2, EmptySeq
<1> QED BY <1>1, <1>2, <1>3, <1>4

LEMMA OneMore ==
  ASSUME NEW S, NEW q \in Seq(S), NEW x \in S
  PROVE  /\ q \o <<x>> \in Seq(S) /\ Len(q \o <<x>>) = Len(q) + 1
         /\ (q \o <<x>>)[Len(q) + 1] = x
         /\ \A i \in 1 .. Len(q) : (q \o <<x>>)[i] = q[i]
BY AppendProperties, AppendIsConcat

-----------------------------------------------------------------------------
(* The two logs, for whatever they hold. *)

UsedIn(r) == {b \in 1 .. Blocks : r[b].count # Blank}
LoadedIn(r) ==
    [i \in Slot |->
        IF UsedIn(r) = {} THEN None
        ELSE LET block == r[First(UsedIn(r))]
             IN  IF i > block.count THEN None ELSE block.cells[i]]
CleanIn(r) == \A b \in 1 .. Blocks : (\A c \in UsedIn(r) : b < c) => r[b] = BlankBlock
NewestIn(l) ==
    IF {s \in 1 .. LastSlots : l[s].addr # Blank} = {} THEN 0
    ELSE First({s \in 1 .. LastSlots : l[s].addr # Blank})

Logs == [1 .. Blocks -> [count : 0 .. MaxDevices \cup {Blank}, cells : [Slot -> Cell]]]
Lasts == [1 .. LastSlots -> [addr : Device \cup {Blank}, profiles : SUBSET Profile]]
Lists == [Slot -> Cell \cup {None}]

LEMMA LogsAre ==
  /\ UsedBlocks = UsedIn(records) /\ Loaded = LoadedIn(records)
  /\ Loaded' = LoadedIn(records') /\ UsedBlocks' = UsedIn(records')
  /\ Clean = CleanIn(records) /\ Clean' = CleanIn(records')
  /\ NewestLast = NewestIn(last) /\ NewestLast' = NewestIn(last')
BY DEF UsedBlocks, UsedIn, Loaded, LoadedIn, Clean, CleanIn, NewestLast, NewestIn

\* The lowest block in use is the one that is loaded.
LEMMA LowestIsLoaded ==
  ASSUME NEW r, NEW b \in UsedIn(r), \A c \in UsedIn(r) : b <= c
  PROVE  LoadedIn(r) = [i \in Slot |-> IF i > r[b].count THEN None ELSE r[b].cells[i]]
<1>1. UsedIn(r) \in SUBSET Nat
  BY Sizes DEF UsedIn
<1>2. First(UsedIn(r)) = b /\ UsedIn(r) # {}
  BY <1>1, FirstIs
<1> QED BY <1>2 DEF LoadedIn

LEMMA NoneIsLoaded ==
  ASSUME NEW r, UsedIn(r) = {} PROVE LoadedIn(r) = EmptyList
BY DEF LoadedIn, EmptyList

LEMMA LoadedIsAList ==
  ASSUME NEW r \in Logs
  PROVE  /\ LoadedIn(r) \in Lists
         /\ \A i \in Slot : LoadedIn(r)[i] = None => \A j \in Slot : j > i => LoadedIn(r)[j] = None
<1>1. CASE UsedIn(r) = {}
  <2>1. \A i \in Slot : LoadedIn(r)[i] = None
    BY <1>1, NoneIsLoaded DEF EmptyList
  <2> QED BY <1>1, <2>1, NoneIsLoaded DEF EmptyList, Lists
<1>2. CASE UsedIn(r) # {}
  <2>1. UsedIn(r) \in SUBSET Nat
    BY Sizes DEF UsedIn
  <2>2. PICK b \in UsedIn(r) : \A c \in UsedIn(r) : b <= c
    BY <1>2, <2>1, FirstIsLeast
  <2>3. /\ r[b].count \in 0 .. MaxDevices /\ r[b].cells \in [Slot -> Cell]
    BY <2>2 DEF UsedIn, Logs
  <2>4. LoadedIn(r) = [i \in Slot |-> IF i > r[b].count THEN None ELSE r[b].cells[i]]
    BY <2>2, LowestIsLoaded
  <2>5. \A i \in Slot : r[b].cells[i] \in Cell /\ r[b].cells[i] # None
    BY <2>3, Marks
  <2> DEFINE count == r[b].count
             cells == r[b].cells
  <2> HIDE DEF count, cells
  <2> QED BY <2>3, <2>4, <2>5, Sizes DEF Lists, count, cells
<1> QED BY <1>1, <1>2

LEMMA NewestIsUsed ==
  ASSUME NEW l \in Lasts
  PROVE  /\ NewestIn(l) \in 0 .. LastSlots
         /\ NewestIn(l) # 0 => l[NewestIn(l)].addr \in Device
         /\ \A s \in 1 .. LastSlots : s < NewestIn(l) \/ NewestIn(l) = 0 => l[s].addr = Blank
<1> DEFINE used == {s \in 1 .. LastSlots : l[s].addr # Blank}
<1>1. used \in SUBSET Nat
  BY Sizes
<1>2. CASE used = {}
  BY <1>2, Sizes DEF NewestIn
<1>3. CASE used # {}
  <2>1. First(used) \in used /\ \A m \in used : First(used) <= m
    BY <1>1, <1>3, FirstIsLeast
  <2>2. NewestIn(l) = First(used)
    BY <1>3 DEF NewestIn
  <2>3. First(used) \in 1 .. LastSlots /\ l[First(used)].addr # Blank
    BY <2>1
  <2>4. \A s \in 1 .. LastSlots : s < First(used) => l[s].addr = Blank
    BY <2>1, <2>3, Sizes
  <2>5. l[First(used)].addr \in Device
    BY <2>3 DEF Lasts
  <2> HIDE DEF used
  <2> QED BY <2>2, <2>3, <2>4, <2>5, Sizes
<1> QED BY <1>2, <1>3

LEMMA NewestIs ==
  ASSUME NEW l, NEW s \in 1 .. LastSlots, l[s].addr # Blank,
         \A t \in 1 .. LastSlots : t < s => l[t].addr = Blank
  PROVE  NewestIn(l) = s
<1> DEFINE used == {t \in 1 .. LastSlots : l[t].addr # Blank}
<1>1. used \in SUBSET Nat /\ s \in used /\ \A t \in used : s <= t
  BY Sizes
<1>2. First(used) = s /\ used # {}
  <2> HIDE DEF used
  <2> QED BY <1>1, FirstIs
<1> QED BY <1>2 DEF NewestIn

-----------------------------------------------------------------------------
(* One call of the flash driver. *)

LEMMA CallFields ==
  ASSUME NEW c \in Call
  PROVE  /\ c.call \in {"eraseLow", "eraseHigh", "eraseLast", "header", "record", "last", "profile"}
         /\ c.call = "header" => c.block \in 1 .. Blocks /\ c.count \in 0 .. MaxDevices
         /\ c.call = "record" => c.block \in 1 .. Blocks /\ c.index \in Slot /\ c.cell \in Cell
         /\ c.call = "last" => c.slot \in 1 .. LastSlots /\ c.addr \in Device
                               /\ c.profiles \subseteq Profile
         /\ c.call = "profile" => c.slot \in 1 .. LastSlots /\ c.profiles \subseteq Profile
<1>1. CASE c \in {Named("eraseLow"), Named("eraseHigh"), Named("eraseLast")}
  BY <1>1 DEF Named
<1>2. CASE c \in [call : {"header"}, block : 1 .. Blocks, count : 0 .. MaxDevices]
  BY <1>2
<1>3. CASE c \in [call : {"record"}, block : 1 .. Blocks, index : Slot, cell : Cell]
  BY <1>3
<1>4. CASE c \in [call : {"last"}, slot : 1 .. LastSlots, addr : Device, profiles : SUBSET Profile]
  BY <1>4
<1>5. CASE c \in [call : {"profile"}, slot : 1 .. LastSlots, profiles : SUBSET Profile]
  BY <1>5
<1> QED BY <1>1, <1>2, <1>3, <1>4, <1>5 DEF Call

LEMMA BlankIsBlank ==
  /\ BlankCell \in Cell
  /\ BlankBlock \in [count : 0 .. MaxDevices \cup {Blank}, cells : [Slot -> Cell]]
  /\ BlankBlock.count = Blank
<1>1. BlankCell \in Cell
  BY DEF BlankCell, Cell
<1> QED BY <1>1 DEF BlankBlock

\* The log when a sector, or both, is erased.
LowErased(r) == [b \in 1 .. Blocks |-> IF b < Straddling THEN BlankBlock
                                       ELSE IF b = Straddling THEN Scarred(r[b]) ELSE r[b]]
AllErased == [b \in 1 .. Blocks |-> BlankBlock]

LEMMA AllErasedIsClean ==
  /\ AllErased \in Logs /\ UsedIn(AllErased) = {} /\ CleanIn(AllErased)
  /\ LoadedIn(AllErased) = EmptyList
<1>1. AllErased \in Logs
  BY BlankIsBlank DEF AllErased, Logs
<1>2. \A b \in 1 .. Blocks : AllErased[b] = BlankBlock
  BY DEF AllErased
<1>3. UsedIn(AllErased) = {}
  BY <1>2, BlankIsBlank DEF UsedIn
<1> QED BY <1>1, <1>2, <1>3, NoneIsLoaded DEF CleanIn

LEMMA ScarredIsABlock ==
  ASSUME NEW block \in [count : 0 .. MaxDevices \cup {Blank}, cells : [Slot -> Cell]]
  PROVE  Scarred(block) \in [count : 0 .. MaxDevices \cup {Blank}, cells : [Slot -> Cell]]
<1> DEFINE key == IF block.cells[1].key = Blank THEN Blank ELSE Mixed
           scar == [addr |-> Blank, key |-> key]
<1>1. scar \in Cell
  BY DEF Cell
<1>2. block.cells \in [Slot -> Cell] /\ 1 \in Slot
  BY Sizes
<1>3. [block.cells EXCEPT ![1] = scar] \in [Slot -> Cell]
  <2> HIDE DEF scar
  <2> QED BY <1>1, <1>2
<1>4. Scarred(block) = [block EXCEPT !.count = Blank, !.cells[1] = scar]
  BY DEF Scarred
<1> HIDE DEF scar
<1>5. Scarred(block) = [count |-> Blank, cells |-> [block.cells EXCEPT ![1] = scar]]
  BY <1>4
<1> QED BY <1>3, <1>5

LEMMA AndIsAByte ==
  ASSUME NEW A, NEW old \in A \cup {Blank, Mixed}, NEW new \in A \cup {Blank, Mixed}
  PROVE  And(old, new) \in A \cup {Blank, Mixed} /\ And(Blank, new) = new
BY DEF And

LEMMA EffectKeepsTypes ==
  ASSUME NEW c \in Call, Types, Effect(c)
  PROVE  /\ records' \in Logs /\ last' \in Lasts /\ lastSlot' \in 0 .. LastSlots
         /\ halfErased' \in BOOLEAN
<1>1. /\ records \in Logs /\ last \in Lasts /\ lastSlot \in 0 .. LastSlots
      /\ halfErased \in BOOLEAN
  BY DEF Types, Logs, Lasts
<1>2. CASE c.call = "eraseLow"
  <2>1. records' = LowErased(records) /\ halfErased' = TRUE /\ UNCHANGED <<last, lastSlot>>
    BY <1>2 DEF Effect, LowErased
  <2>2. LowErased(records) \in Logs
    <3> DEFINE Block == [count : 0 .. MaxDevices \cup {Blank}, cells : [Slot -> Cell]]
    <3>1. \A b \in 1 .. Blocks : records[b] \in Block /\ Scarred(records[b]) \in Block
      BY <1>1, ScarredIsABlock DEF Logs
    <3>2. BlankBlock \in Block
      BY BlankIsBlank
    <3> HIDE DEF Block
    <3>3. LowErased(records) \in [1 .. Blocks -> Block]
      BY <3>1, <3>2 DEF LowErased
    <3> QED BY <3>3 DEF Block, Logs
  <2> QED BY <1>1, <2>1, <2>2
<1>3. CASE c.call = "eraseHigh"
  <2>1. records' = AllErased /\ halfErased' = FALSE /\ UNCHANGED <<last, lastSlot>>
    BY <1>3 DEF Effect, AllErased
  <2> QED BY <1>1, <2>1, AllErasedIsClean
<1>4. CASE c.call = "header"
  <2>1. /\ records' = [records EXCEPT ![c.block].count = c.count]
        /\ UNCHANGED <<last, lastSlot, halfErased>>
    BY <1>4 DEF Effect
  <2>2. c.block \in 1 .. Blocks /\ c.count \in 0 .. MaxDevices
    BY <1>4, CallFields
  <2>3. records' \in Logs
    BY <1>1, <2>1, <2>2 DEF Logs
  <2> QED BY <1>1, <2>1, <2>3
<1>5. CASE c.call = "record"
  <2> DEFINE new(old) == [addr |-> And(old.addr, c.cell.addr), key |-> And(old.key, c.cell.key)]
  <2>1. /\ records' = [records EXCEPT ![c.block].cells[c.index] = new(@)]
        /\ UNCHANGED <<last, lastSlot, halfErased>>
    BY <1>5 DEF Effect
  <2>2. c.block \in 1 .. Blocks /\ c.index \in Slot /\ c.cell \in Cell
    BY <1>5, CallFields
  <2>3. \A old \in Cell : new(old) \in Cell
    BY <2>2, AndIsAByte DEF Cell
  <2>4. records' \in Logs
    <3> HIDE DEF new
    <3> QED BY <1>1, <2>1, <2>2, <2>3 DEF Logs
  <2> QED BY <1>1, <2>1, <2>4
<1>6. CASE c.call = "eraseLast"
  <2>1. last' = [s \in 1 .. LastSlots |-> BlankLast] /\ UNCHANGED <<records, lastSlot, halfErased>>
    BY <1>6 DEF Effect
  <2> QED BY <1>1, <2>1 DEF Lasts, BlankLast
<1>7. CASE c.call = "last"
  <2>1. /\ last' = [last EXCEPT ![c.slot] = [addr |-> c.addr, profiles |-> c.profiles]]
        /\ lastSlot' = c.slot /\ UNCHANGED <<records, halfErased>>
    BY <1>7 DEF Effect
  <2>2. c.slot \in 1 .. LastSlots /\ c.addr \in Device /\ c.profiles \subseteq Profile
    BY <1>7, CallFields
  <2>3. last' \in Lasts
    BY <1>1, <2>1, <2>2 DEF Lasts
  <2> QED BY <1>1, <2>1, <2>2, <2>3, Sizes
<1>8. CASE c.call = "profile"
  <2>1. /\ last' = [last EXCEPT ![c.slot].profiles = @ \cup c.profiles]
        /\ UNCHANGED <<records, lastSlot, halfErased>>
    BY <1>8 DEF Effect
  <2>2. c.slot \in 1 .. LastSlots /\ c.profiles \subseteq Profile
    BY <1>8, CallFields
  <2>3. last' \in Lasts
    BY <1>1, <2>1, <2>2 DEF Lasts
  <2> QED BY <1>1, <2>1, <2>3
<1> QED BY <1>2, <1>3, <1>4, <1>5, <1>6, <1>7, <1>8, CallFields

LEMMA Effects ==
  /\ Effect(Named("eraseLow")) => halfErased' = TRUE /\ UNCHANGED <<last, lastSlot>>
  /\ Effect(Named("eraseHigh")) =>
       records' = AllErased /\ halfErased' = FALSE /\ UNCHANGED <<last, lastSlot>>
  /\ Effect(Named("eraseLast")) =>
       /\ last' = [s \in 1 .. LastSlots |-> BlankLast]
       /\ UNCHANGED <<records, lastSlot, halfErased>>
  /\ \A b : Effect(Header(b)) =>
       /\ records' = [records EXCEPT ![b].count = Total]
       /\ UNCHANGED <<last, lastSlot, halfErased>>
  /\ \A b, i : Effect(Record(b, i)) =>
       /\ records' = [records EXCEPT ![b].cells[i] =
            [addr |-> And(@.addr, saving[i].addr), key |-> And(@.key, saving[i].key)]]
       /\ UNCHANGED <<last, lastSlot, halfErased>>
  /\ \A s : Effect(LastCall(s)) =>
       /\ last' = [last EXCEPT ![s] = [addr |-> lastAddr, profiles |-> lastProfiles]]
       /\ lastSlot' = s /\ UNCHANGED <<records, halfErased>>
<1>1. Effect(Named("eraseLow")) => halfErased' = TRUE /\ UNCHANGED <<last, lastSlot>>
  BY DEF Effect, Named
<1>2. Effect(Named("eraseHigh")) =>
        records' = AllErased /\ halfErased' = FALSE /\ UNCHANGED <<last, lastSlot>>
  BY DEF Effect, Named, AllErased
<1>3. Effect(Named("eraseLast")) =>
        /\ last' = [s \in 1 .. LastSlots |-> BlankLast]
        /\ UNCHANGED <<records, lastSlot, halfErased>>
  BY DEF Effect, Named
<1>4. ASSUME NEW b, Effect(Header(b))
      PROVE  /\ records' = [records EXCEPT ![b].count = Total]
             /\ UNCHANGED <<last, lastSlot, halfErased>>
  BY <1>4 DEF Effect, Header
<1>5. ASSUME NEW b, NEW i, Effect(Record(b, i))
      PROVE  /\ records' = [records EXCEPT ![b].cells[i] =
                  [addr |-> And(@.addr, saving[i].addr), key |-> And(@.key, saving[i].key)]]
             /\ UNCHANGED <<last, lastSlot, halfErased>>
  BY <1>5 DEF Effect, Record
<1>6. ASSUME NEW s, Effect(LastCall(s))
      PROVE  /\ last' = [last EXCEPT ![s] = [addr |-> lastAddr, profiles |-> lastProfiles]]
             /\ lastSlot' = s /\ UNCHANGED <<records, halfErased>>
  BY <1>6 DEF Effect, LastCall
<1> QED BY <1>1, <1>2, <1>3, <1>4, <1>5, <1>6

\* A block that is being filled is the one that is loaded.
LEMMA FilledIsLoaded ==
  ASSUME NEW r \in Logs, NEW l \in Lists, NEW b \in 1 .. Blocks, NEW done \in 0 .. TotalIn(l),
         FilledIn(r, l, b, done), \A i \in Slot : i > TotalIn(l) => l[i] = None
  PROVE  /\ CleanIn(r)
         /\ LoadedIn(r) = [i \in Slot |-> IF i <= done \/ l[i] = None THEN l[i] ELSE BlankCell]
         /\ done = TotalIn(l) => LoadedIn(r) = l
<1> DEFINE total == TotalIn(l)
           part  == [i \in Slot |-> IF i <= done THEN l[i] ELSE BlankCell]
<1>1. /\ total \in 0 .. MaxDevices /\ \A i \in Slot : i <= total => l[i] # None
  BY TotalCounts
<1>2. /\ r[b].count = total /\ r[b].cells = part
      /\ \A c \in 1 .. Blocks : c < b => r[c] = BlankBlock
  BY DEF FilledIn
<1> HIDE DEF total
<1>3. b \in UsedIn(r) /\ \A c \in UsedIn(r) : b <= c
  <2>1. r[b].count # Blank
    BY <1>1, <1>2, Marks
  <2>2. \A c \in 1 .. Blocks : c < b => r[c].count = Blank
    BY <1>2, BlankIsBlank
  <2> QED BY <2>1, <2>2, Sizes DEF UsedIn
<1>4. CleanIn(r)
  BY <1>2, <1>3 DEF CleanIn
<1>5. LoadedIn(r) = [i \in Slot |-> IF i > total THEN None ELSE part[i]]
  BY <1>2, <1>3, LowestIsLoaded
<1>6. \A i \in Slot : (IF i > total THEN None ELSE part[i])
                       = IF i <= done \/ l[i] = None THEN l[i] ELSE BlankCell
  BY <1>1, Sizes DEF total
<1>7. LoadedIn(r) = [i \in Slot |-> IF i <= done \/ l[i] = None THEN l[i] ELSE BlankCell]
  <2> HIDE DEF part
  <2> QED BY <1>5, <1>6
<1>8. ASSUME done = total PROVE LoadedIn(r) = l
  <2>1. \A i \in Slot : LoadedIn(r)[i] = l[i]
    BY <1>7, <1>8, Sizes DEF total
  <2> QED BY <2>1, LoadedIsAList DEF Lists
<1> QED BY <1>4, <1>7, <1>8 DEF total

\* What all steps of the driver have in common.
LEMMA CallsGoOn ==
  ASSUME IInv, FlashStep
  PROVE  /\ Len(todo) \in Nat \ {0} /\ todo[1] \in Call /\ Effect(todo[1])
         /\ todo' \in Seq(Call) /\ Len(todo') = Len(todo) - 1
         /\ \A n \in 1 .. Len(todo) - 1 : todo'[n] = todo[n + 1]
         /\ todo' = <<>> <=> Len(todo) = 1
         /\ committed' = IF Len(todo) = 1 THEN saving ELSE committed
         /\ UNCHANGED <<list, ddbUpdate, lastAddr, lastProfiles, remote, connected, linkUp,
                        saving, pairings>>
         /\ Total' = Total /\ (Gapless => Gapless')
         /\ Total \in 0 .. MaxDevices
         /\ records \in Logs /\ last \in Lasts /\ saving \in Lists /\ committed \in Lists
<1>1. todo \in Seq(Call) /\ todo # <<>>
  BY DEF IInv, Types, FlashStep
<1>2. Total \in 0 .. MaxDevices
  BY TotalCounts DEF Total
<1>3. UNCHANGED <<list, ddbUpdate, lastAddr, lastProfiles, link, saving, pairings>>
      /\ todo' = Tail(todo) /\ Effect(Head(todo))
      /\ committed' = IF Len(todo) = 1 THEN saving ELSE committed
  BY DEF FlashStep
<1>4. records \in Logs /\ last \in Lasts /\ saving \in Lists /\ committed \in Lists
  BY DEF IInv, Types, Logs, Lasts, Lists
<1> QED BY <1>1, <1>2, <1>3, <1>4, CallTaken DEF link, Total, Gapless

LEMMA LowGoes == ASSUME IInv, FlashStep, EraseBoth PROVE Phases'
<1> USE CallsGoOn
<1>1. todo[1] = Named("eraseLow") /\ todo[2] = Named("eraseHigh") /\ Len(todo) > 2
      /\ After(3) /\ Agrees
  BY DEF EraseBoth
<1>2. halfErased' = TRUE /\ UNCHANGED <<last, lastSlot>>
  BY <1>1, Effects
<1>3. Agrees'
  BY <1>1, <1>2, LogsAre DEF Agrees
<1>4. todo'[1] = Named("eraseHigh")
  BY <1>1 DEF Named
<1>5. After(2)'
  <2>1. CASE SaveFrom(3, Blocks)
    <3>1. Len(todo') = 2 + Total' /\ todo'[2] = Header(Blocks)'
      BY <2>1 DEF SaveFrom, Header
    <3>2. \A n \in 1 .. Total : todo'[2 + n] = todo[3 + n]
      BY <2>1 DEF SaveFrom
    <3>3. \A n \in 1 .. Total' : todo'[2 + n] = Record(Blocks, n)'
      BY <2>1, <3>2 DEF SaveFrom, Record
    <3>4. Gapless'
      BY <2>1 DEF SaveFrom
    <3> QED BY <3>1, <3>3, <3>4 DEF After, SaveFrom
  <2>2. CASE Len(todo) = 3 /\ todo[3] = Named("eraseLast") /\ saving = EmptyList /\ lastAddr = None
    <3>1. Len(todo') = 2 /\ todo'[2] = Named("eraseLast")'
      BY <2>2 DEF Named
    <3>2. saving' = EmptyList /\ lastAddr' = None
      BY <2>2
    <3> QED BY <3>1, <3>2 DEF After, EmptyList
  <2> QED BY <1>1, <2>1, <2>2 DEF After
<1>6. EraseHigh'
  <2>1. Len(todo') > 1
    BY <1>1
  <2> QED BY <1>2, <1>3, <1>4, <1>5, <2>1 DEF EraseHigh, Named
<1> QED BY <1>6 DEF Phases

LEMMA HighGoes == ASSUME IInv, FlashStep, EraseHigh PROVE Phases'
<1> USE CallsGoOn
<1>1. todo[1] = Named("eraseHigh") /\ Len(todo) > 1 /\ After(2) /\ Agrees
  BY DEF EraseHigh
<1>2. records' = AllErased /\ halfErased' = FALSE /\ UNCHANGED <<last, lastSlot>>
  BY <1>1, Effects
<1>3. Agrees'
  BY <1>1, <1>2, LogsAre DEF Agrees
<1>4. Clean' /\ Loaded' = EmptyList /\ UsedBlocks' = {}
  BY <1>2, LogsAre, AllErasedIsClean
<1>5. CASE SaveFrom(2, Blocks)
  <2>1. Len(todo') = 1 + Total' /\ todo'[1] = Header(Blocks)'
    BY <1>5 DEF SaveFrom, Header
  <2>2. \A n \in 1 .. Total : todo'[1 + n] = todo[2 + n]
    BY <1>5 DEF SaveFrom
  <2>3. \A n \in 1 .. Total' : todo'[1 + n] = Record(Blocks, n)'
    BY <1>5, <2>2 DEF SaveFrom, Record
  <2>4. SaveFrom(1, Blocks)'
    BY <1>5, <2>1, <2>3 DEF SaveFrom
  <2>5. Heading(Blocks)'
    BY <1>3, <1>4, <2>4 DEF Heading, EmptyList
  <2> QED BY <2>5, Sizes DEF Phases
<1>6. CASE Len(todo) = 2 /\ todo[2] = Named("eraseLast") /\ saving = EmptyList /\ lastAddr = None
  <2>1. Len(todo') = 1 /\ todo'[1] = Named("eraseLast")' /\ lastAddr' = None
    BY <1>6 DEF Named
  <2>2. Loaded' = saving'
    BY <1>4, <1>6
  <2>3. Naming'
    BY <1>4, <2>1, <2>2 DEF Naming
  <2> QED BY <2>3 DEF Phases
<1> QED BY <1>1, <1>5, <1>6 DEF After

LEMMA HeaderGoes ==
  ASSUME IInv, FlashStep, NEW b \in 1 .. Blocks, Heading(b)
  PROVE  Phases'
<1> USE CallsGoOn
<1>1. /\ Len(todo) = 1 + Total /\ todo[1] = Header(b) /\ Gapless /\ Agrees
      /\ \A n \in 1 .. Total : todo[1 + n] = Record(b, n)
      /\ ~halfErased => Clean /\ \A c \in UsedBlocks : b < c
  BY DEF Heading, SaveFrom
<1>2. records' = [records EXCEPT ![b].count = Total] /\ UNCHANGED <<last, lastSlot, halfErased>>
  BY <1>1, Effects
<1>3. Agrees' /\ Gapless'
  BY <1>1, <1>2, LogsAre DEF Agrees
<1>4. ASSUME ~halfErased' PROVE FilledIn(records', saving', b, 0)
  <2>1. \A c \in 1 .. Blocks : c <= b => records[c] = BlankBlock
    <3>1. CleanIn(records) /\ \A c \in UsedIn(records) : b < c
      BY <1>1, <1>2, <1>4, LogsAre
    <3>2. \A c \in 1 .. Blocks : c <= b => \A d \in UsedIn(records) : c < d
      BY <3>1, Sizes DEF UsedIn
    <3> QED BY <3>1, <3>2 DEF CleanIn
  <2>2. records' \in [1 .. Blocks -> [count : 0 .. MaxDevices \cup {Blank}, cells : [Slot -> Cell]]]
    BY EffectKeepsTypes DEF IInv, Logs
  <2>3. records'[b] = [count |-> Total, cells |-> BlankBlock.cells]
    BY <1>2, <2>1 DEF Logs, BlankBlock
  <2>4. BlankBlock.cells = [i \in Slot |-> IF i <= 0 THEN saving[i] ELSE BlankCell]
    BY Sizes DEF BlankBlock
  <2>5. \A c \in 1 .. Blocks : c < b => records'[c] = BlankBlock
    BY <1>2, <2>1 DEF Logs
  <2>6. TotalIn(saving') = Total
    BY DEF Total
  <2> QED BY <2>3, <2>4, <2>5, <2>6 DEF FilledIn
<1>5. CASE Total = 0
  <2>1. todo' = <<>> /\ committed' = saving
    BY <1>1, <1>5
  <2>2. ASSUME ~halfErased' PROVE Clean' /\ Loaded' = committed'
    <3>1. FilledIn(records', saving, b, 0)
      BY <1>4, <2>2
    <3>2. records' \in Logs
      BY EffectKeepsTypes DEF IInv
    <3>3. \A i \in Slot : i > TotalIn(saving) => saving[i] = None
      BY <1>1 DEF Gapless, Total
    <3>4. CleanIn(records') /\ LoadedIn(records') = saving
      BY <1>5, <3>1, <3>2, <3>3, FilledIsLoaded DEF Total
    <3> QED BY <2>1, <3>4, LogsAre
  <2> QED BY <1>3, <2>1, <2>2 DEF Phases, Resting
<1>6. CASE Total # 0
  <2>1. Len(todo') = Total /\ \A n \in 1 .. Total : todo'[n] = todo[1 + n]
    BY <1>1
  <2>2. Len(todo') \in 1 .. Total' /\ Total' - Len(todo') = 0
    BY <1>6, <2>1
  <2>3. \A n \in 1 .. Len(todo') : todo'[n] = Record(b, 0 + n)'
    <3> TAKE n \in 1 .. Len(todo')
    <3>1. 0 + n = n /\ n \in 1 .. Total
      BY <2>1
    <3>2. todo'[n] = Record(b, n)
      BY <1>1, <2>1, <3>1
    <3> QED BY <3>1, <3>2 DEF Record
  <2>4. Filling(b)'
    BY <1>3, <1>4, <2>2, <2>3 DEF Filling
  <2> QED BY <2>4 DEF Phases
<1> QED BY <1>5, <1>6

LEMMA RecordGoes ==
  ASSUME IInv, FlashStep, NEW b \in 1 .. Blocks, Filling(b)
  PROVE  Phases'
<1> USE CallsGoOn
<1> DEFINE done == Total - Len(todo)
           i == done + 1
<1>1. /\ Len(todo) \in 1 .. Total /\ Gapless /\ Agrees
      /\ \A n \in 1 .. Len(todo) : todo[n] = Record(b, done + n)
      /\ ~halfErased => FilledIn(records, saving, b, done)
  BY DEF Filling
<1>2. i \in Slot /\ i <= Total /\ done \in 0 .. Total
  BY <1>1, Sizes
<1>3. todo[1] = Record(b, i)
  BY <1>1
<1>4. /\ records' = [records EXCEPT ![b].cells[i] =
            [addr |-> And(@.addr, saving[i].addr), key |-> And(@.key, saving[i].key)]]
      /\ UNCHANGED <<last, lastSlot, halfErased>>
  <2> HIDE DEF i
  <2> QED BY <1>3, Effects
<1>5. Agrees' /\ Gapless'
  BY <1>1, <1>4, LogsAre DEF Agrees
<1>6. records' \in Logs
  BY EffectKeepsTypes DEF IInv
<1>7. saving[i] \in Cell
  <2>1. saving[i] # None
    BY <1>2, TotalCounts DEF Total
  <2> QED BY <1>2, <2>1 DEF Lists
<1>8. ASSUME ~halfErased' PROVE FilledIn(records', saving', b, i)
  <2> DEFINE part(n) == [j \in Slot |-> IF j <= n THEN saving[j] ELSE BlankCell]
             old == records[b].cells[i]
             new == [addr |-> And(old.addr, saving[i].addr), key |-> And(old.key, saving[i].key)]
  <2>1. /\ records[b] = [count |-> Total, cells |-> part(done)]
        /\ \A c \in 1 .. Blocks : c < b => records[c] = BlankBlock
    BY <1>1, <1>4, <1>8 DEF FilledIn, Total
  <2>2. old = BlankCell
    BY <1>2, <2>1
  <2>3. new = saving[i]
    <3>1. /\ saving[i].addr \in Device \cup {Blank, Mixed} /\ saving[i].key \in Key \cup {Blank, Mixed}
          /\ saving[i] = [addr |-> saving[i].addr, key |-> saving[i].key]
      BY <1>7 DEF Cell
    <3>2. And(Blank, saving[i].addr) = saving[i].addr /\ And(Blank, saving[i].key) = saving[i].key
      BY DEF And
    <3>3. old.addr = Blank /\ old.key = Blank
      BY <2>2 DEF BlankCell
    <3> HIDE DEF old, i
    <3> QED BY <3>1, <3>2, <3>3
  <2>4. records'[b] = [records[b] EXCEPT !.cells[i] = saving[i]]
    <3>1. records' = [records EXCEPT ![b].cells[i] = new]
      BY <1>4
    <3> HIDE DEF new, i, old
    <3> QED BY <2>3, <3>1 DEF Logs
  <2>5. records'[b] = [count |-> Total, cells |-> part(i)]
    <3>1. [part(done) EXCEPT ![i] = saving[i]] = part(i)
      <4>1. i = done + 1 /\ done \in Nat /\ i \in 1 .. MaxDevices
        BY <1>2, Sizes
      <4> HIDE DEF i, done
      <4>2. \A j \in Slot : j <= i <=> j <= done \/ j = i
        BY <4>1, Sizes
      <4> QED BY <4>1, <4>2, Sizes
    <3>2. records'[b] = [count |-> Total, cells |-> [part(done) EXCEPT ![i] = saving[i]]]
      <4> HIDE DEF part, i
      <4> QED BY <2>1, <2>4
    <3> QED BY <3>1, <3>2
  <2>6. \A c \in 1 .. Blocks : c < b => records'[c] = BlankBlock
    <3>1. \A c \in 1 .. Blocks : c # b => records'[c] = records[c]
      BY <1>4 DEF Logs
    <3> QED BY <2>1, <3>1
  <2>7. TotalIn(saving') = Total
    BY DEF Total
  <2> QED BY <2>5, <2>6, <2>7 DEF FilledIn
<1>9. CASE Len(todo) = 1
  <2>1. todo' = <<>> /\ committed' = saving /\ i = TotalIn(saving)
    BY <1>1, <1>9 DEF Total
  <2>2. ASSUME ~halfErased' PROVE Clean' /\ Loaded' = committed'
    <3>1. FilledIn(records', saving, b, i)
      BY <1>8, <2>2
    <3>2. \A j \in Slot : j > TotalIn(saving) => saving[j] = None
      BY <1>1 DEF Gapless, Total
    <3>3. i \in 0 .. TotalIn(saving)
      BY <1>2, <2>1
    <3> HIDE DEF i
    <3>4. CleanIn(records') /\ LoadedIn(records') = saving
      BY <1>6, <2>1, <3>1, <3>2, <3>3, FilledIsLoaded
    <3> QED BY <2>1, <3>4, LogsAre
  <2> QED BY <1>5, <2>1, <2>2 DEF Phases, Resting
<1>10. CASE Len(todo) # 1
  <2>1. Len(todo') \in 1 .. Total' /\ (Total - Len(todo))' = i
    BY <1>1, <1>10
  <2>2. \A n \in 1 .. Len(todo') : todo'[n] = Record(b, Total - Len(todo) + n)'
    <3> TAKE n \in 1 .. Len(todo')
    <3>1. n + 1 \in 1 .. Len(todo)
      BY <1>1
    <3>2. done + (n + 1) = (Total - Len(todo) + n)'
      BY <1>1
    <3>3. todo'[n] = Record(b, done + (n + 1))
      <4> HIDE DEF done
      <4> QED BY <1>1, <3>1
    <3> HIDE DEF i, done
    <3> QED BY <3>2, <3>3 DEF Record
  <2>3. ~halfErased' => FilledIn(records', saving', b, (Total - Len(todo))')
    BY <1>8, <2>1, Zenon
  <2>4. Filling(b)'
    BY <1>5, <2>1, <2>2, <2>3 DEF Filling
  <2> QED BY <2>4 DEF Phases
<1> QED BY <1>9, <1>10

LEMMA NameGoes == ASSUME IInv, FlashStep, Naming PROVE Phases'
<1> USE CallsGoOn
<1>1. ~halfErased => Clean /\ Loaded = saving
  BY DEF Naming
<1>2. ASSUME UNCHANGED <<records, halfErased>>, Len(todo) = 1
      PROVE  todo' = <<>> /\ (~halfErased' => Clean' /\ Loaded' = committed')
  BY <1>1, <1>2, LogsAre
<1>3. CASE Len(todo) = 1 /\ todo[1] = Named("eraseLast") /\ lastAddr = None
  <2>1. UNCHANGED <<records, halfErased>>
    BY <1>3, Effects
  <2>2. Agrees'
    BY <1>3 DEF Agrees
  <2> QED BY <1>2, <1>3, <2>1, <2>2 DEF Phases, Resting
<1>4. CASE /\ Len(todo) = 2 /\ todo[1] = Named("eraseLast") /\ todo[2] = LastCall(LastSlots)
           /\ lastAddr # None
  <2>1. last' = [s \in 1 .. LastSlots |-> BlankLast] /\ UNCHANGED <<records, lastSlot, halfErased>>
    BY <1>4, Effects
  <2>2. \A t \in 1 .. LastSlots : t < LastSlots => last'[t].addr = Blank
    BY <2>1, Sizes DEF BlankLast
  <2>3. Len(todo') = 1 /\ todo'[1] = LastCall(LastSlots)' /\ lastAddr' # None
    BY <1>4 DEF LastCall
  <2>4. LastSlots \in 1 .. LastSlots
    BY Sizes
  <2>5. ~halfErased' => Clean' /\ Loaded' = saving'
    BY <1>1, <2>1, LogsAre
  <2> QED BY <2>2, <2>3, <2>4, <2>5 DEF Phases, Naming
<1>5. ASSUME NEW s \in 1 .. LastSlots, Len(todo) = 1, todo[1] = LastCall(s), lastAddr # None,
             \A t \in 1 .. LastSlots : t < s => last[t].addr = Blank
      PROVE  Phases'
  <2>1. /\ last' = [last EXCEPT ![s] = [addr |-> lastAddr, profiles |-> lastProfiles]]
        /\ lastSlot' = s /\ UNCHANGED <<records, halfErased>>
    BY <1>5, Effects
  <2>2. last'[s] = [addr |-> lastAddr, profiles |-> lastProfiles]
        /\ \A t \in 1 .. LastSlots : t < s => last'[t].addr = Blank
    BY <1>5, <2>1 DEF Lasts
  <2>3. lastAddr # Blank
    BY <1>5, Marks DEF IInv, Types
  <2>4. NewestIn(last') = s
    BY <2>2, <2>3, NewestIs
  <2>5. Agrees'
    BY <2>1, <2>2, <2>4, Sizes, LogsAre DEF Agrees
  <2> QED BY <1>2, <1>5, <2>1, <2>5 DEF Phases, Resting
<1>6. CASE /\ Len(todo) = 1 /\ lastSlot = NewestLast /\ lastSlot # 0 /\ lastAddr # None
           /\ todo[1] = [call |-> "profile", slot |-> lastSlot, profiles |-> lastProfiles]
           /\ last[lastSlot].addr = lastAddr /\ last[lastSlot].profiles \subseteq lastProfiles
  <2>1. /\ last' = [last EXCEPT ![lastSlot].profiles = @ \cup lastProfiles]
        /\ UNCHANGED <<records, lastSlot, halfErased>>
    BY <1>6 DEF Effect
  <2>2. lastSlot \in 1 .. LastSlots
    BY <1>6, Sizes DEF IInv, Types
  <2>3. last'[lastSlot] = [addr |-> lastAddr, profiles |-> lastProfiles]
    <3>1. last[lastSlot].profiles \cup lastProfiles = lastProfiles
      BY <1>6
    <3> DEFINE old == last[lastSlot]
    <3>2. old \in [addr : Device \cup {Blank}, profiles : SUBSET Profile] /\ old.addr = lastAddr
      BY <1>6, <2>2 DEF Lasts
    <3>3. last'[lastSlot] = [old EXCEPT !.profiles = last[lastSlot].profiles \cup lastProfiles]
      BY <2>1, <2>2 DEF Lasts
    <3> HIDE DEF old
    <3> QED BY <3>1, <3>2, <3>3
  <2>4. \A t \in 1 .. LastSlots : t < lastSlot => last'[t].addr = Blank
    <3>1. \A t \in 1 .. LastSlots : t < lastSlot => last[t].addr = Blank
      BY <1>6, NewestIsUsed, LogsAre
    <3>2. \A t \in 1 .. LastSlots : t < lastSlot => last'[t] = last[t]
      BY <2>1, <2>2 DEF Lasts
    <3> QED BY <3>1, <3>2
  <2>5. lastAddr # Blank
    BY <1>6, Marks DEF IInv, Types
  <2>6. NewestIn(last') = lastSlot
    BY <2>2, <2>3, <2>4, <2>5, NewestIs
  <2>7. Agrees'
    BY <1>6, <2>1, <2>3, <2>6, LogsAre DEF Agrees
  <2> QED BY <1>2, <1>6, <2>1, <2>7 DEF Phases, Resting
<1> QED BY <1>3, <1>4, <1>5, <1>6 DEF Naming

LEMMA FlashStepKeeps == ASSUME IInv, FlashStep PROVE IInv'
<1> USE CallsGoOn
<1>1. Phases'
  <2>1. ~Resting
    BY DEF Resting, FlashStep
  <2>2. EraseBoth \/ EraseHigh \/ Naming \/ \E b \in 1 .. Blocks : Heading(b) \/ Filling(b)
    BY <2>1 DEF IInv, Phases
  <2> QED BY <2>2, LowGoes, HighGoes, HeaderGoes, RecordGoes, NameGoes
<1>2. Types'
  <2>1. /\ records' \in Logs /\ last' \in Lasts /\ lastSlot' \in 0 .. LastSlots
        /\ halfErased' \in BOOLEAN
    BY EffectKeepsTypes DEF IInv
  <2>2. committed' \in Lists
    OBVIOUS
  <2> QED BY <2>1, <2>2 DEF IInv, Types, Logs, Lasts, Lists
<1>3. OnLine' /\ OneHole'
  BY DEF IInv, OnLine, OneHole
<1>4. Known'
  <2>1. ~ddbUpdate => Within(saving)
    BY DEF IInv, Known, FlashStep
  <2>2. ~ddbUpdate' => Within(saving)'
    BY <2>1 DEF Within
  <2>3. todo' = <<>> => committed' = saving
    OBVIOUS
  <2> QED BY <2>2, <2>3 DEF Known, Within
<1> QED BY <1>1, <1>2, <1>3, <1>4 DEF IInv

-----------------------------------------------------------------------------
(* The handlers. *)

\* A handler begins when the calls of the last one are done.
LEMMA IdleRests ==
  ASSUME IInv, Idle
  PROVE  /\ Resting /\ todo = <<>> /\ Agrees
         /\ ~halfErased => Clean /\ Loaded = committed
         /\ records \in Logs /\ last \in Lasts /\ list \in Lists /\ committed \in Lists
<1>1. todo = <<>> /\ Len(todo) = 0
  BY DEF Idle
<1>2. ~EraseBoth /\ ~EraseHigh /\ ~Naming
  BY <1>1 DEF EraseBoth, EraseHigh, Naming
<1>3. \A b : ~Heading(b) /\ ~Filling(b)
  <2>1. Total \in Nat
    BY TotalCounts, Sizes DEF Total
  <2> QED BY <1>1, <2>1 DEF Heading, Filling, SaveFrom
<1>4. Resting
  BY <1>2, <1>3 DEF IInv, Phases
<1> QED BY <1>1, <1>4 DEF Resting, IInv, Types, Logs, Lasts, Lists

LEMMA FindIs ==
  ASSUME NEW d, Find(d) # 0
  PROVE  Find(d) \in Slot /\ list[Find(d)] # None /\ list[Find(d)].addr = d
<1> DEFINE hits == {i \in Slot : list[i] # None /\ list[i].addr = d}
<1>1. hits \in SUBSET Nat /\ hits # {} /\ Find(d) = First(hits)
  BY Sizes DEF Find
<1>2. First(hits) \in hits
  <2> HIDE DEF hits
  <2> QED BY <1>1, FirstIsLeast
<1> QED BY <1>1, <1>2

LEMMA Changed ==
  ASSUME IInv, Idle, list' \in Lists, OneHole', ddbUpdate' \in BOOLEAN,
         pairings' \in 0 .. MaxPairings, ~ddbUpdate' => ~ddbUpdate /\ Within(committed)',
         UNCHANGED <<flash, lastRam, link, todo, saving, committed, halfErased>>
  PROVE  IInv'
<1> USE DEF flash, lastRam, link
<1>1. Resting
  BY IdleRests
<1>2. Phases'
  BY <1>1, LogsAre DEF Phases, Resting, Agrees
<1>3. Types'
  BY DEF IInv, Types, Lists
<1>4. OnLine'
  BY DEF IInv, OnLine
<1>5. Known'
  BY IdleRests DEF Known
<1> QED BY <1>2, <1>3, <1>4, <1>5 DEF IInv

LEMMA AddKeeps ==
  ASSUME IInv, NEW d \in Device, NEW k \in Key, AddOneRecord(d, k) PROVE IInv'
<1> DEFINE cell == [addr |-> d, key |-> k]
<1>1. /\ Idle /\ ddbUpdate' = TRUE
      /\ list' = IF Find(d) = 0 THEN Allocated(cell) ELSE [list EXCEPT ![Find(d)] = cell]
      /\ UNCHANGED <<flash, lastRam, link, todo, saving, committed, halfErased>>
      /\ pairings < MaxPairings /\ pairings' = pairings + 1
  BY DEF AddOneRecord
<1>2. cell \in Cell /\ cell # None /\ list \in Lists /\ OneHole
  BY <1>1, IdleRests, Marks DEF Cell, IInv
<1> HIDE DEF cell
<1>3. ASSUME Find(d) # 0 PROVE list' \in Lists /\ OneHole'
  <2>1. list' \in Lists /\ \A i \in Slot : list'[i] = None <=> list[i] = None
    BY <1>1, <1>2, <1>3, FindIs DEF Lists
  <2> QED BY <1>2, <2>1 DEF OneHole
<1>4. ASSUME Find(d) = 0 PROVE list' \in Lists /\ OneHole'
  <2> DEFINE unused == {i \in Slot : list[i] = None}
  <2>1. CASE unused # {}
    <3>1. unused \in SUBSET Nat
      BY Sizes
    <3>2. First(unused) \in unused /\ \A i \in unused : First(unused) <= i
      BY <2>1, <3>1, FirstIsLeast
    <3>3. list' = [list EXCEPT ![First(unused)] = cell]
      BY <1>1, <1>4, <2>1 DEF Allocated
    <3> DEFINE f == First(unused)
    <3>4. f \in Slot /\ \A i \in Slot : list[i] = None => f <= i
      BY <3>2
    <3> HIDE DEF f
    <3>5. list' \in Lists /\ \A i \in Slot : list'[i] = None <=> list[i] = None /\ i # f
      BY <1>2, <3>3, <3>4 DEF Lists, f
    <3>6. OneHole'
      BY <1>2, <3>4, <3>5, Sizes DEF OneHole
    <3> QED BY <3>5, <3>6
  <2>2. CASE unused = {}
    <3>1. list' = [DropFirst EXCEPT ![MaxDevices] = cell]
      BY <1>1, <1>4, <2>2 DEF Allocated
    <3>2. \A i \in Slot : list[i] \in Cell
      BY <1>2, <2>2 DEF Lists
    <3>3. \A i \in Slot : i < MaxDevices => i + 1 \in Slot
      BY Sizes
    <3>4. DropFirst \in Lists /\ \A i \in Slot : i < MaxDevices => DropFirst[i] \in Cell
      BY <3>2, <3>3 DEF DropFirst, Lists
    <3>5. list' \in Lists /\ \A i \in Slot : list'[i] \in Cell
      BY <1>2, <3>1, <3>4, Sizes DEF Lists
    <3> QED BY <3>5, Marks DEF OneHole
  <2> QED BY <2>1, <2>2
<1>5. list' \in Lists /\ OneHole'
  BY <1>3, <1>4
<1>6. pairings' \in 0 .. MaxPairings
  BY <1>1, GeometryAssumption DEF IInv, Types
<1> QED BY <1>1, <1>5, <1>6, Changed

LEMMA DeleteKeeps ==
  ASSUME IInv, NEW d \in Device, DeleteRecord(d) PROVE IInv'
<1> DEFINE f == Find(d)
<1>1. /\ Idle /\ f # 0
      /\ list' = IF f # MaxDevices
                 THEN [i \in Slot |-> IF i < f THEN list[i]
                                      ELSE IF i < MaxDevices THEN list[i + 1] ELSE None]
                 ELSE [list EXCEPT ![1] = None]
      /\ UNCHANGED <<flash, ddbUpdate, lastRam, link, todo, history>>
  BY DEF DeleteRecord
<1>2. f \in Slot /\ list[f] # None /\ list \in Lists /\ OneHole
  BY <1>1, FindIs, IdleRests DEF IInv
<1> HIDE DEF f
<1>3. \A i \in Slot : i < MaxDevices => i + 1 \in Slot
  BY Sizes
<1>4. ASSUME f # MaxDevices
      PROVE  /\ list' \in Lists /\ OneHole'
             /\ \A i \in Slot : list'[i] = None \/ \E j \in Slot : list'[i] = list[j]
  <2>1. list' = [i \in Slot |-> IF i < f THEN list[i]
                                ELSE IF i < MaxDevices THEN list[i + 1] ELSE None]
    BY <1>1, <1>4
  <2>2. list' \in Lists
    BY <1>2, <1>3, <2>1 DEF Lists
  <2>3. \A i \in Slot : list'[i] = None \/ \E j \in Slot : list'[i] = list[j]
    BY <1>3, <2>1
  <2>4. OneHole'
    <3> SUFFICES ASSUME NEW i \in Slot, NEW j \in Slot, 1 < i, i < j, list'[i] = None
                 PROVE  list'[j] = None
      BY DEF OneHole
    <3>1. ~(i < f)
      BY <1>2, <2>1, Sizes DEF OneHole
    <3>2. list[i + 1] = None /\ i + 1 \in Slot
      BY <1>3, <2>1, <3>1, Sizes
    <3>3. CASE j < MaxDevices
      <4>1. list[j + 1] = None
        BY <1>2, <1>3, <3>2, <3>3, Sizes DEF OneHole
      <4> QED BY <1>2, <2>1, <3>1, <3>3, <4>1, Sizes
    <3>4. CASE ~(j < MaxDevices)
      BY <1>2, <2>1, <3>1, <3>4, Sizes
    <3> QED BY <3>3, <3>4
  <2> QED BY <2>2, <2>3, <2>4
<1>5. ASSUME f = MaxDevices
      PROVE  /\ list' \in Lists /\ OneHole'
             /\ \A i \in Slot : list'[i] = None \/ \E j \in Slot : list'[i] = list[j]
  <2>1. list' = [list EXCEPT ![1] = None] /\ 1 \in Slot
    BY <1>1, <1>5, Sizes
  <2>2. list' \in Lists /\ \A i \in Slot : list'[i] = IF i = 1 THEN None ELSE list[i]
    BY <1>2, <2>1 DEF Lists
  <2>3. OneHole'
    BY <1>2, <2>2, Sizes DEF OneHole
  <2> QED BY <2>2, <2>3
<1>6. /\ list' \in Lists /\ OneHole'
      /\ \A i \in Slot : list'[i] = None \/ \E j \in Slot : list'[i] = list[j]
  BY <1>4, <1>5
<1>7. ~ddbUpdate' => ~ddbUpdate /\ Within(committed)'
  <2>1. ASSUME ~ddbUpdate PROVE Within(committed)
    BY <1>1, <2>1, IdleRests DEF IInv, Known
  <2>2. committed' = committed /\ ddbUpdate' = ddbUpdate
    BY <1>1 DEF history
  <2> QED BY <1>6, <2>1, <2>2 DEF Within, EmptyList
<1>8. ddbUpdate' \in BOOLEAN /\ pairings' \in 0 .. MaxPairings
  BY <1>1 DEF history, IInv, Types
<1> QED BY <1>1, <1>6, <1>7, <1>8, Changed DEF history

LEMMA ArriveKeeps ==
  ASSUME IInv, NEW d \in Device, Arrive(d) PROVE IInv'
<1>1. /\ Idle /\ connected = {} /\ ~linkUp /\ remote' = d
      /\ UNCHANGED <<flash, list, ddbUpdate, lastRam, connected, linkUp, todo, history>>
  BY DEF Arrive
<1> USE DEF flash, lastRam, history
<1>2. Resting
  BY <1>1, IdleRests
<1>3. Phases'
  BY <1>1, <1>2, LogsAre DEF Phases, Resting, Agrees
<1>4. Types' /\ OnLine' /\ OneHole' /\ Known'
  BY <1>1 DEF IInv, Types, OnLine, OneHole, Known, Within, EmptyList
<1> QED BY <1>3, <1>4 DEF IInv

LEMMA DisconnectKeeps ==
  ASSUME IInv, NEW p \in Profile, ProfileDisconnected(p) PROVE IInv'
<1>1. /\ Idle /\ connected' = connected \ {p} /\ linkUp' = (linkUp /\ connected' # {})
      /\ UNCHANGED <<flash, list, ddbUpdate, lastRam, remote, todo, history>>
  BY DEF ProfileDisconnected
<1> USE DEF flash, lastRam, history
<1>2. Resting
  BY <1>1, IdleRests
<1>3. Phases'
  BY <1>1, <1>2, LogsAre DEF Phases, Resting, Agrees
<1>4. Types'
  <2>1. linkUp' \in BOOLEAN
    BY <1>1
  <2> QED BY <1>1, <2>1 DEF IInv, Types
<1>5. OnLine' /\ OneHole' /\ Known'
  BY <1>1 DEF IInv, OnLine, OneHole, Known, Within, EmptyList
<1> QED BY <1>3, <1>4, <1>5 DEF IInv

\* The calls of a save (SaveTotalDevRec2Flash).
LEMMA SaveIs ==
  ASSUME IInv, Idle
  PROVE  LET total == TotalIn(list)
             head  == [call |-> "header", block |-> WriteBlock, count |-> total]
             k     == IF ListsAreFull THEN 3 ELSE 1
         IN  /\ SaveCalls \in Seq(Call) /\ Len(SaveCalls) = k + total
             /\ ListsAreFull => SaveCalls[1] = Named("eraseLow") /\ SaveCalls[2] = Named("eraseHigh")
             /\ SaveCalls[k] = head
             /\ \A n \in 1 .. total : SaveCalls[k + n] =
                  [call |-> "record", block |-> WriteBlock, index |-> n, cell |-> list[n]]
             /\ WriteBlock \in 1 .. Blocks
             /\ ListsAreFull => WriteBlock = Blocks
             /\ ~ListsAreFull /\ ~halfErased => \A c \in UsedBlocks : WriteBlock < c
<1> DEFINE total == TotalIn(list)
           head  == [call |-> "header", block |-> WriteBlock, count |-> total]
           rec(n) == [call |-> "record", block |-> WriteBlock, index |-> n, cell |-> list[n]]
           recs  == [n \in 1 .. total |-> rec(n)]
           erase == IF ListsAreFull THEN EraseLists ELSE <<>>
           k     == IF ListsAreFull THEN 3 ELSE 1
<1>1. /\ total \in 0 .. MaxDevices /\ \A i \in Slot : i <= total => list[i] # None
  BY TotalCounts
<1>2. /\ WriteBlock \in 1 .. Blocks /\ (ListsAreFull => WriteBlock = Blocks)
      /\ ~ListsAreFull => \A c \in UsedBlocks : WriteBlock < c
  <2>1. UsedBlocks \in SUBSET (1 .. Blocks)
    BY DEF UsedBlocks
  <2>2. CASE UsedBlocks = {} \/ ListsAreFull
    BY <2>2, Sizes DEF WriteBlock
  <2>3. CASE UsedBlocks # {} /\ ~ListsAreFull
    <3>1. First(UsedBlocks) \in UsedBlocks /\ \A c \in UsedBlocks : First(UsedBlocks) <= c
      BY <2>1, <2>3, FirstIsLeast
    <3> DEFINE f == First(UsedBlocks)
    <3>2. WriteBlock = f - 1 /\ f # 1
      BY <2>3, <3>1 DEF WriteBlock, ListsAreFull
    <3>3. f \in 1 .. Blocks /\ \A c \in UsedBlocks : f <= c
      BY <2>1, <3>1
    <3> HIDE DEF f
    <3>4. \A c \in UsedBlocks : c \in 1 .. Blocks
      BY <2>1
    <3>5. WriteBlock \in 1 .. Blocks /\ \A c \in UsedBlocks : WriteBlock < c
      BY <3>2, <3>3, <3>4, Sizes
    <3> QED BY <2>3, <3>5
  <2> QED BY <2>2, <2>3
<1>3. head \in Call
  BY <1>1, <1>2 DEF Call
<1>4. recs \in Seq(Call) /\ Len(recs) = total /\ \A n \in 1 .. total : recs[n] = rec(n)
  <2>1. \A n \in 1 .. total : list[n] \in Cell /\ n \in Slot
    BY <1>1, IdleRests, Sizes DEF Lists
  <2>2. \A n \in 1 .. total : rec(n) \in Call
    BY <1>2, <2>1 DEF Call
  <2> HIDE DEF rec, total
  <2> QED BY <1>1, <2>2, Sizes
<1>5. /\ erase \in Seq(Call) /\ Len(erase) = k - 1
      /\ ListsAreFull => erase[1] = Named("eraseLow") /\ erase[2] = Named("eraseHigh")
  <2>1. Named("eraseLow") \in Call /\ Named("eraseHigh") \in Call
    BY DEF Call
  <2>2. EraseLists = <<Named("eraseLow"), Named("eraseHigh")>>
    BY DEF EraseLists, Named
  <2>3. CASE ListsAreFull
    BY <2>1, <2>2, <2>3
  <2>4. CASE ~ListsAreFull
    BY <2>4
  <2> QED BY <2>3, <2>4
<1>6. SaveCalls = (erase \o <<head>>) \o recs
  BY DEF SaveCalls
<1> HIDE DEF head, recs, erase, rec, total
<1>7. <<head>> \in Seq(Call) /\ Len(<<head>>) = 1 /\ <<head>>[1] = head
  BY <1>3
<1>8. /\ erase \o <<head>> \in Seq(Call) /\ Len(erase \o <<head>>) = k
      /\ (erase \o <<head>>)[k] = head
      /\ ListsAreFull => /\ (erase \o <<head>>)[1] = Named("eraseLow")
                         /\ (erase \o <<head>>)[2] = Named("eraseHigh")
  <2>1. k \in {1, 3} /\ (ListsAreFull => k = 3)
    BY DEF k
  <2>2. Len(erase) = k - 1 /\ erase \in Seq(Call)
    BY <1>5
  <2> HIDE DEF k
  <2>3. /\ erase \o <<head>> \in Seq(Call) /\ Len(erase \o <<head>>) = Len(erase) + 1
        /\ (erase \o <<head>>)[Len(erase) + 1] = head
        /\ \A i \in 1 .. Len(erase) : (erase \o <<head>>)[i] = erase[i]
    BY <1>3, <2>2, OneMore
  <2>4. Len(erase) + 1 = k
    BY <2>1, <2>2
  <2>5. ListsAreFull => 1 \in 1 .. Len(erase) /\ 2 \in 1 .. Len(erase)
    BY <2>1, <2>2
  <2> QED BY <1>5, <2>3, <2>4, <2>5
<1>9. /\ SaveCalls \in Seq(Call) /\ Len(SaveCalls) = k + total
      /\ \A i \in 1 .. k : SaveCalls[i] = (erase \o <<head>>)[i]
      /\ \A n \in 1 .. total : SaveCalls[k + n] = rec(n)
  <2> DEFINE front == erase \o <<head>>
  <2>1. front \in Seq(Call) /\ Len(front) = k /\ k \in {1, 3} /\ SaveCalls = front \o recs
    BY <1>6, <1>8
  <2> HIDE DEF front, k
  <2>2. /\ SaveCalls \in Seq(Call) /\ Len(SaveCalls) = k + total
        /\ \A i \in 1 .. k + total : SaveCalls[i] = IF i <= k THEN front[i] ELSE recs[i - k]
    BY <1>4, <2>1, ConcatProperties
  <2>3. total \in Nat
    BY <1>1, Sizes
  <2>4. \A n \in 1 .. total : SaveCalls[k + n] = rec(n)
    <3> TAKE n \in 1 .. total
    <3>1. k + n \in 1 .. k + total /\ ~(k + n <= k) /\ (k + n) - k = n
      BY <2>1, <2>3
    <3> QED BY <1>4, <2>2, <3>1
  <2>5. \A i \in 1 .. k : SaveCalls[i] = front[i]
    BY <2>1, <2>2, <2>3
  <2> QED BY <2>2, <2>4, <2>5 DEF front
<1>10. /\ SaveCalls[k] = head
       /\ ListsAreFull => SaveCalls[1] = Named("eraseLow") /\ SaveCalls[2] = Named("eraseHigh")
  BY <1>8, <1>9
<1> QED BY <1>2, <1>9, <1>10 DEF head, rec, total

LEMMA LinkKeeps == ASSUME IInv, LinkConnected PROVE IInv'
<1>1. /\ Idle /\ {"a2dp", "avrcp"} \subseteq connected /\ linkUp' = TRUE /\ ddbUpdate' = FALSE
      /\ ddbUpdate => /\ todo' = SaveCalls
                      /\ saving' = [i \in Slot |-> IF i <= TotalIn(list) THEN list[i] ELSE None]
      /\ ~ddbUpdate => UNCHANGED <<todo, saving>>
      /\ UNCHANGED <<records, last, list, lastAddr, lastProfiles, lastSlot, remote, connected,
                     committed, pairings, halfErased>>
  BY DEF LinkConnected, flash, lastRam
<1>2. /\ Resting /\ todo = <<>> /\ Agrees
      /\ ~halfErased => Clean /\ Loaded = committed
      /\ records \in Logs /\ last \in Lasts /\ list \in Lists /\ committed \in Lists
  BY <1>1, IdleRests
<1>3. OnLine' /\ OneHole' /\ Agrees'
  BY <1>1, <1>2, LogsAre DEF IInv, OnLine, OneHole, Agrees
<1>4. Clean' = Clean /\ Loaded' = Loaded /\ UsedBlocks' = UsedBlocks
  BY <1>1, LogsAre
<1>5. CASE ~ddbUpdate
  <2>1. Types'
    BY <1>1, <1>5 DEF IInv, Types
  <2>2. Phases'
    BY <1>1, <1>2, <1>3, <1>4, <1>5 DEF Phases, Resting
  <2>3. Within(committed)
    BY <1>2, <1>5 DEF IInv, Known
  <2>4. Known'
    BY <1>1, <1>2, <1>5, <2>3 DEF Known, Within, EmptyList
  <2> QED BY <1>3, <2>1, <2>2, <2>4 DEF IInv
<1>6. CASE ddbUpdate
  <2> DEFINE total == TotalIn(list)
  <2>1. /\ todo' = SaveCalls
        /\ saving' = [i \in Slot |-> IF i <= total THEN list[i] ELSE None]
    BY <1>1, <1>6
  <2>2. Total' = total /\ Gapless'
    BY <2>1, PrefixIsGapless DEF Total, Gapless
  <2>3. total \in 0 .. MaxDevices /\ \A i \in Slot : i = total + 1 => list[i] = None
    BY TotalCounts
  <2>4. PICK b \in 1 .. Blocks : b = WriteBlock
    BY <1>1, SaveIs
  <2> PICK k \in {1, 3} : k = IF ListsAreFull THEN 3 ELSE 1
    OBVIOUS
  <2>5. /\ SaveCalls \in Seq(Call) /\ Len(SaveCalls) = k + total
        /\ ListsAreFull => SaveCalls[1] = Named("eraseLow") /\ SaveCalls[2] = Named("eraseHigh")
        /\ SaveCalls[k] = [call |-> "header", block |-> b, count |-> total]
        /\ \A n \in 1 .. total : SaveCalls[k + n] =
              [call |-> "record", block |-> b, index |-> n, cell |-> list[n]]
        /\ ListsAreFull => b = Blocks
        /\ ~ListsAreFull /\ ~halfErased => \A c \in UsedBlocks : b < c
    BY <1>1, <2>4, SaveIs
  <2> HIDE DEF total
  <2>6. SaveFrom(k, b)'
    <3>1. todo'[k] = Header(b)' /\ Len(todo') = k + Total'
      BY <2>1, <2>2, <2>5 DEF Header
    <3>2. \A n \in 1 .. total : saving'[n] = list[n]
      BY <2>1, <2>3, Sizes
    <3>3. \A n \in 1 .. Total' : todo'[k + n] = Record(b, n)'
      BY <2>1, <2>2, <2>5, <3>2 DEF Record
    <3> QED BY <2>2, <3>1, <3>3 DEF SaveFrom
  <2>7. Phases'
    <3>1. CASE ListsAreFull
      <4>1. SaveFrom(3, Blocks)'
        BY <2>5, <2>6, <3>1
      <4>2. Len(todo') > 2 /\ todo'[1] = Named("eraseLow")' /\ todo'[2] = Named("eraseHigh")'
        BY <2>1, <2>3, <2>5, <3>1, Sizes DEF Named
      <4>3. EraseBoth'
        BY <1>1, <1>2, <1>3, <1>4, <4>1, <4>2 DEF EraseBoth, After
      <4> QED BY <4>3 DEF Phases
    <3>2. CASE ~ListsAreFull
      <4>1. SaveFrom(1, b)'
        BY <2>6, <3>2
      <4>2. Heading(b)'
        BY <1>1, <1>2, <1>3, <1>4, <2>5, <3>2, <4>1 DEF Heading
      <4> QED BY <4>2 DEF Phases
    <3> QED BY <3>1, <3>2
  <2>8. saving' \in Lists
    BY <1>2, <2>1 DEF Lists
  <2>9. Types'
    BY <1>1, <2>1, <2>5, <2>8 DEF IInv, Types, Lists
  <2>10. Within(saving)'
    <3>1. CASE total = 0
      <4>1. saving' = EmptyList
        BY <2>1, <3>1 DEF EmptyList, Slot
      <4> QED BY <4>1 DEF Within, EmptyList
    <3>2. CASE total # 0
      <4> SUFFICES ASSUME NEW i \in Slot, list[i] # None PROVE saving'[i] = list[i]
        BY <1>1 DEF Within
      <4>1. i <= total
        <5>1. SUFFICES ASSUME total < i PROVE FALSE
          BY <2>3, Sizes
        <5>2. total + 1 \in Slot /\ 1 < total + 1 /\ list[total + 1] = None
          BY <2>3, <3>2, <5>1, Sizes
        <5>3. OneHole
          BY DEF IInv
        <5>4. i = total + 1 \/ total + 1 < i
          BY <2>3, <5>1, Sizes
        <5> QED BY <5>2, <5>3, <5>4 DEF OneHole
      <4> QED BY <2>1, <4>1
    <3> QED BY <3>1, <3>2
  <2>11. todo' # <<>>
    <3>1. Len(todo') # 0
      BY <2>1, <2>3, <2>5, Sizes
    <3> QED BY <3>1, <2>1, <2>5, EmptySeq
  <2>12. Known'
    BY <2>10, <2>11 DEF Known
  <2> QED BY <1>3, <2>7, <2>9, <2>12 DEF IInv
<1> QED BY <1>5, <1>6

\* The calls that name a last device (BtDdb_UpgradeLastBtAddr).
LEMMA NameIs ==
  ASSUME last \in Lasts, NEW d \in Device, NEW ps \in SUBSET Profile
  PROVE  LET calls == LastCalls(d, ps)
             name(s) == [call |-> "last", slot |-> s, addr |-> d, profiles |-> ps]
         IN  /\ calls \in Seq(Call)
             /\ LastIsFull => /\ Len(calls) = 2 /\ calls[1] = Named("eraseLast")
                              /\ calls[2] = name(LastSlots)
             /\ ~LastIsFull => /\ Len(calls) = 1
                               /\ \E s \in 1 .. LastSlots :
                                    /\ calls[1] = name(s)
                                    /\ \A t \in 1 .. LastSlots : t < s => last[t].addr = Blank
<1> DEFINE calls == LastCalls(d, ps)
           name(s) == [call |-> "last", slot |-> s, addr |-> d, profiles |-> ps]
           erase == IF LastIsFull THEN <<Named("eraseLast")>> ELSE <<>>
<1>1. /\ NewestLast \in 0 .. LastSlots
      /\ NewestLast # 0 => last[NewestLast].addr \in Device
      /\ \A s \in 1 .. LastSlots : s < NewestLast \/ NewestLast = 0 => last[s].addr = Blank
  BY NewestIsUsed, LogsAre
<1>2. /\ LastWriteSlot \in 1 .. LastSlots
      /\ LastIsFull => LastWriteSlot = LastSlots
      /\ ~LastIsFull => \A t \in 1 .. LastSlots : t < LastWriteSlot => last[t].addr = Blank
  <2>1. CASE NewestLast = 0 \/ LastIsFull
    BY <1>1, <2>1, Sizes DEF LastWriteSlot
  <2>2. CASE NewestLast # 0 /\ ~LastIsFull
    <3>1. NewestLast # 1
      BY <1>1, <2>2, Marks DEF LastIsFull
    <3>2. LastWriteSlot = NewestLast - 1
      BY <2>2 DEF LastWriteSlot
    <3> QED BY <1>1, <2>2, <3>1, <3>2, Sizes
  <2> QED BY <2>1, <2>2
<1>3. name(LastWriteSlot) \in Call
  BY <1>2 DEF Call
<1>4. /\ erase \in Seq(Call) /\ Len(erase) = IF LastIsFull THEN 1 ELSE 0
      /\ LastIsFull => erase[1] = Named("eraseLast")
  <2>1. Named("eraseLast") \in Call
    BY DEF Call
  <2>2. CASE LastIsFull
    BY <2>1, <2>2
  <2>3. CASE ~LastIsFull
    BY <2>3
  <2> QED BY <2>2, <2>3
<1>5. calls = erase \o <<name(LastWriteSlot)>>
  BY DEF LastCalls, Named
<1> HIDE DEF calls, erase
<1>6. /\ calls \in Seq(Call) /\ Len(calls) = Len(erase) + 1
      /\ calls[Len(erase) + 1] = name(LastWriteSlot)
      /\ \A i \in 1 .. Len(erase) : calls[i] = erase[i]
  <2> HIDE DEF name
  <2> QED BY <1>3, <1>4, <1>5, OneMore
<1>7. CASE LastIsFull
  BY <1>2, <1>4, <1>6, <1>7 DEF calls
<1>8. CASE ~LastIsFull
  <2>1. Len(calls) = 1 /\ calls[1] = name(LastWriteSlot) /\ calls \in Seq(Call)
    BY <1>4, <1>6, <1>8
  <2> QED BY <1>2, <1>8, <2>1 DEF calls
<1> QED BY <1>7, <1>8

LEMMA ConnectKeeps ==
  ASSUME IInv, NEW p \in Profile, ProfileConnected(p) PROVE IInv'
<1> DEFINE now == connected \cup {p}
<1>1. /\ Idle /\ remote # None /\ connected' = now /\ saving' = committed
      /\ UNCHANGED <<records, last, list, ddbUpdate, lastSlot, remote, linkUp, committed,
                     pairings, halfErased>>
  BY DEF ProfileConnected, flash
<1>2. /\ todo = <<>> /\ Agrees
      /\ ~halfErased => Clean /\ Loaded = committed
      /\ last \in Lasts /\ committed \in Lists
  BY <1>1, IdleRests
<1>3. ~halfErased' => Clean' /\ Loaded' = committed' /\ Loaded' = saving'
  BY <1>1, <1>2, LogsAre
<1>4. Known'
  <2>1. ~ddbUpdate => Within(committed)
    BY <1>2 DEF IInv, Known
  <2> QED BY <1>1, <2>1 DEF Known, Within
<1>5. OneHole' /\ now \subseteq Profile /\ now # {} /\ remote \in Device
  BY <1>1 DEF IInv, OneHole, Types
<1>6. ASSUME lastAddr' = remote, lastProfiles' \subseteq Profile, todo' \in Seq(Call), Phases'
      PROVE  IInv'
  <2>1. Types'
    BY <1>1, <1>2, <1>5, <1>6 DEF IInv, Types, Lists
  <2>2. OnLine'
    BY <1>1, <1>5, <1>6 DEF OnLine
  <2> QED BY <1>4, <1>5, <1>6, <2>1, <2>2 DEF IInv
<1>7. ASSUME UNCHANGED lastAddr, lastAddr = remote, lastProfiles' = lastProfiles, todo' = <<>>
      PROVE  IInv'
  <2>1. Agrees'
    BY <1>1, <1>2, <1>7, LogsAre DEF Agrees
  <2>2. Phases'
    BY <1>3, <1>7, <2>1 DEF Phases, Resting
  <2>3. lastProfiles' \subseteq Profile
    BY <1>7 DEF IInv, Types
  <2> QED BY <1>6, <1>7, <2>2, <2>3
<1>8. CASE now = {p} /\ lastAddr = remote /\ p \in lastProfiles
  <2>1. UNCHANGED <<lastAddr, lastProfiles, todo>>
    BY <1>8 DEF ProfileConnected
  <2> QED BY <1>2, <1>7, <1>8, <2>1
<1>9. CASE now = {p} /\ ~(lastAddr = remote /\ p \in lastProfiles)
  <2>1. lastProfiles' = now /\ lastAddr' = remote /\ todo' = LastCalls(remote, now)
    BY <1>9 DEF ProfileConnected
  <2> DEFINE calls == LastCalls(remote, now)
  <2>2. /\ calls \in Seq(Call)
        /\ LastIsFull => /\ Len(calls) = 2 /\ calls[1] = Named("eraseLast")
                         /\ calls[2] = LastCall(LastSlots)'
        /\ ~LastIsFull => /\ Len(calls) = 1
                          /\ \E s \in 1 .. LastSlots :
                               /\ calls[1] = LastCall(s)'
                               /\ \A t \in 1 .. LastSlots : t < s => last'[t].addr = Blank
    <3> DEFINE name(s) == [call |-> "last", slot |-> s, addr |-> remote, profiles |-> now]
    <3>1. last \in Lasts /\ remote \in Device /\ now \in SUBSET Profile
      BY <1>2, <1>5
    <3>2. /\ calls \in Seq(Call)
          /\ LastIsFull => /\ Len(calls) = 2 /\ calls[1] = Named("eraseLast")
                           /\ calls[2] = name(LastSlots)
          /\ ~LastIsFull => /\ Len(calls) = 1
                            /\ \E s \in 1 .. LastSlots :
                                 /\ calls[1] = name(s)
                                 /\ \A t \in 1 .. LastSlots : t < s => last[t].addr = Blank
      <4> HIDE DEF now
      <4> QED BY <3>1, NameIs
    <3>3. \A s \in 1 .. LastSlots : name(s) = LastCall(s)'
      BY <1>1, <2>1 DEF LastCall
    <3>4. last' = last /\ LastSlots \in 1 .. LastSlots
      BY <1>1, Sizes
    <3> HIDE DEF name, calls
    <3> QED BY <3>2, <3>3, <3>4
  <2> HIDE DEF calls
  <2>3. todo' = calls /\ lastAddr' # None
    BY <1>1, <2>1 DEF calls
  <2>4. Naming'
    <3>1. CASE LastIsFull
      BY <1>3, <2>2, <2>3, <3>1 DEF Naming, Named
    <3>2. CASE ~LastIsFull
      BY <1>3, <2>2, <2>3, <3>2 DEF Naming
    <3> QED BY <3>1, <3>2
  <2> QED BY <1>5, <1>6, <2>1, <2>2, <2>3, <2>4 DEF Phases
<1>10. CASE now # {p}
  <2>1. /\ UNCHANGED lastAddr /\ lastProfiles' = lastProfiles \cup {p}
        /\ todo' = IF p \in lastProfiles THEN <<>> ELSE ProfileCalls(remote, lastProfiles')
    BY <1>10 DEF ProfileConnected
  <2>2. lastAddr = remote /\ lastAddr # None
    BY <1>10 DEF IInv, OnLine
  <2>3. /\ NewestLast # 0 /\ lastSlot = NewestLast
        /\ last[lastSlot] = [addr |-> lastAddr, profiles |-> lastProfiles]
    BY <1>2, <2>2 DEF Agrees
  <2>4. CASE p \in lastProfiles
    <3>1. lastProfiles' = lastProfiles /\ todo' = <<>>
      BY <2>1, <2>4
    <3> QED BY <1>7, <2>1, <2>2, <3>1
  <2>5. CASE p \notin lastProfiles
    <3>1. todo' = <<[call |-> "profile", slot |-> lastSlot, profiles |-> lastProfiles']>>
      BY <2>1, <2>2, <2>3, <2>5 DEF ProfileCalls
    <3>2. /\ Len(todo') = 1
          /\ todo'[1] = [call |-> "profile", slot |-> lastSlot, profiles |-> lastProfiles]'
      BY <1>1, <3>1
    <3>3. lastProfiles' \subseteq Profile /\ lastSlot \in 1 .. LastSlots
      BY <2>1, <2>3, Sizes DEF IInv, Types
    <3>4. todo' \in Seq(Call)
      <4>1. [call |-> "profile", slot |-> lastSlot, profiles |-> lastProfiles'] \in Call
        BY <3>3 DEF Call
      <4> QED BY <3>1, <4>1
    <3>5. /\ lastSlot' = NewestLast' /\ lastSlot' # 0 /\ lastAddr' # None
          /\ last'[lastSlot'].addr = lastAddr' /\ last'[lastSlot'].profiles \subseteq lastProfiles'
      BY <1>1, <2>1, <2>2, <2>3, LogsAre
    <3>6. Naming'
      BY <1>3, <3>2, <3>5 DEF Naming
    <3> QED BY <1>6, <2>1, <2>2, <3>3, <3>4, <3>6 DEF Phases
  <2> QED BY <2>4, <2>5
<1> QED BY <1>8, <1>9, <1>10

LEMMA ResetKeeps == ASSUME IInv, FactoryReset PROVE IInv'
<1>1. /\ Idle /\ connected = {} /\ remote' = None /\ lastAddr' = None
      /\ todo' = EraseLists \o <<Named("eraseLast")>> /\ saving' = EmptyList
      /\ UNCHANGED <<records, last, list, ddbUpdate, lastProfiles, lastSlot, connected, linkUp,
                     committed, pairings, halfErased>>
  BY DEF FactoryReset, flash, Named
<1>2. ~halfErased' => Clean' /\ Loaded' = committed'
  BY <1>1, IdleRests, LogsAre
<1>3. /\ todo' \in Seq(Call) /\ Len(todo') = 3 /\ todo'[1] = Named("eraseLow")
      /\ todo'[2] = Named("eraseHigh") /\ todo'[3] = Named("eraseLast")
  <2>1. EraseLists = <<Named("eraseLow"), Named("eraseHigh")>>
    BY DEF EraseLists, Named
  <2>2. Named("eraseLow") \in Call /\ Named("eraseHigh") \in Call /\ Named("eraseLast") \in Call
    BY DEF Call
  <2>3. /\ EraseLists \in Seq(Call) /\ Len(EraseLists) = 2
        /\ EraseLists[1] = Named("eraseLow") /\ EraseLists[2] = Named("eraseHigh")
    BY <2>1, <2>2
  <2>4. /\ todo' \in Seq(Call) /\ Len(todo') = Len(EraseLists) + 1
        /\ todo'[Len(EraseLists) + 1] = Named("eraseLast")
        /\ \A i \in 1 .. Len(EraseLists) : todo'[i] = EraseLists[i]
    <3> DEFINE more == EraseLists \o <<Named("eraseLast")>>
    <3>1. /\ more \in Seq(Call) /\ Len(more) = Len(EraseLists) + 1
          /\ more[Len(EraseLists) + 1] = Named("eraseLast")
          /\ \A i \in 1 .. Len(EraseLists) : more[i] = EraseLists[i]
      <4>1. EraseLists \in Seq(Call) /\ Named("eraseLast") \in Call
        BY <2>2, <2>3
      <4> QED BY <4>1, OneMore, Zenon
    <3>2. todo' = more
      BY <1>1
    <3> HIDE DEF more
    <3> QED BY <3>1, <3>2
  <2> QED BY <2>3, <2>4
<1>4. EraseBoth'
  <2>1. Agrees'
    BY <1>1 DEF Agrees
  <2>2. After(3)'
    BY <1>1, <1>3 DEF After, Named, EmptyList
  <2> QED BY <1>2, <1>3, <2>1, <2>2 DEF EraseBoth, Named
<1>5. EmptyList \in Lists
  BY DEF EmptyList, Lists
<1>6. Types'
  BY <1>1, <1>3, <1>5 DEF IInv, Types, Lists
<1>7. OnLine' /\ OneHole'
  BY <1>1 DEF IInv, OnLine, OneHole
<1>8. Known'
  <2>1. todo' # <<>>
    BY <1>3
  <2> QED BY <1>1, <2>1 DEF Known, Within, EmptyList
<1> QED BY <1>4, <1>6, <1>7, <1>8 DEF IInv, Phases

\* Wherever the power fails, no block below those in use was written.
LEMMA CleanAlways == ASSUME IInv, ~halfErased PROVE Clean
<1>1. ASSUME NEW b \in 1 .. Blocks, Filling(b) PROVE Clean
  <2> DEFINE done == Total - Len(todo)
  <2>1. /\ FilledIn(records, saving, b, done) /\ Gapless /\ Len(todo) \in 1 .. Total
    BY <1>1 DEF Filling
  <2>2. done \in 0 .. TotalIn(saving) /\ records \in Logs /\ saving \in Lists
    <3>1. Total \in Nat
      BY TotalCounts, Sizes DEF Total
    <3>2. done \in 0 .. Total
      BY <2>1, <3>1
    <3> QED BY <3>2 DEF IInv, Types, Logs, Lists, Total
  <2>3. \A i \in Slot : i > TotalIn(saving) => saving[i] = None
    BY <2>1 DEF Gapless, Total
  <2> HIDE DEF done
  <2>4. CleanIn(records)
    BY <2>1, <2>2, <2>3, FilledIsLoaded
  <2> QED BY <2>4, LogsAre
<1>2. ASSUME NEW b \in 1 .. Blocks, Heading(b) PROVE Clean
  BY <1>2 DEF Heading
<1> QED BY <1>1, <1>2 DEF IInv, Phases, Resting, EraseBoth, EraseHigh, Naming

LEMMA CutKeeps == ASSUME IInv, PowerCut PROVE IInv'
<1>1. /\ todo' = <<>> /\ list' = Loaded /\ lastSlot' = NewestLast
      /\ lastAddr' = IF NewestLast = 0 THEN None ELSE last[NewestLast].addr
      /\ lastProfiles' = IF NewestLast = 0 THEN {} ELSE last[NewestLast].profiles
      /\ ddbUpdate' = FALSE /\ linkUp' = FALSE /\ remote' = None /\ connected' = {}
      /\ saving' = Loaded /\ committed' = Loaded
      /\ UNCHANGED <<records, last, pairings, halfErased>>
  BY DEF PowerCut, flash
<1>2. records \in Logs /\ last \in Lasts
  BY DEF IInv, Types, Logs, Lasts
<1>3. /\ Loaded \in Lists
      /\ \A i \in Slot : Loaded[i] = None => \A j \in Slot : j > i => Loaded[j] = None
  BY <1>2, LoadedIsAList, LogsAre
<1>4. NewestLast \in 0 .. LastSlots /\ (NewestLast # 0 => last[NewestLast].addr \in Device)
  BY <1>2, NewestIsUsed, LogsAre
<1>5. NewestLast # 0 => last[NewestLast] = [addr |-> last[NewestLast].addr,
                                            profiles |-> last[NewestLast].profiles]
                        /\ last[NewestLast].profiles \subseteq Profile
  BY <1>2, <1>4, Sizes DEF Lasts
<1>6. Agrees'
  <2>1. NewestLast' = NewestLast /\ last' = last
    BY <1>1, LogsAre
  <2> QED BY <1>1, <1>5, <2>1 DEF Agrees
<1>7. Phases'
  <2>1. ~halfErased' => Clean' /\ Loaded' = committed'
    BY <1>1, CleanAlways, LogsAre
  <2> QED BY <1>1, <1>6, <2>1 DEF Phases, Resting
<1>8. Types'
  <2>1. lastAddr' \in Device \cup {None} /\ lastProfiles' \subseteq Profile
    BY <1>1, <1>4, <1>5
  <2>2. todo' \in Seq(Call)
    BY <1>1
  <2> QED BY <1>1, <1>3, <1>4, <2>1, <2>2 DEF IInv, Types, Lists
<1>9. OnLine' /\ Known'
  BY <1>1 DEF OnLine, Known, Within
<1>10. OneHole'
  BY <1>1, <1>3, Sizes DEF OneHole
<1> QED BY <1>7, <1>8, <1>9, <1>10 DEF IInv

LEMMA Starts == ASSUME Init PROVE IInv
<1>1. /\ records = AllErased /\ todo = <<>> /\ lastAddr = None
      /\ list = EmptyList /\ saving = EmptyList /\ committed = EmptyList
      /\ connected = {} /\ linkUp = FALSE
  BY DEF Init, AllErased
<1>2. Phases
  BY <1>1, AllErasedIsClean, LogsAre DEF Phases, Resting, Agrees
<1>3. Types
  <2>1. records \in Logs
    BY <1>1, AllErasedIsClean
  <2>2. last \in Lasts
    BY DEF Init, BlankLast, Lasts
  <2>3. EmptyList \in Lists
    BY DEF EmptyList, Lists
  <2>4. pairings \in 0 .. MaxPairings /\ lastSlot \in 0 .. LastSlots
    BY GeometryAssumption DEF Init
  <2>5. todo \in Seq(Call)
    BY <1>1
  <2> QED BY <1>1, <2>1, <2>2, <2>3, <2>4, <2>5 DEF Init, Types, Logs, Lasts, Lists
<1>4. OnLine /\ OneHole /\ Known
  BY <1>1 DEF OnLine, OneHole, Known, Within, EmptyList
<1> QED BY <1>2, <1>3, <1>4 DEF IInv

LEMMA StutterKeeps == ASSUME IInv, UNCHANGED vars PROVE IInv'
<1>1. UNCHANGED <<records, last, list, ddbUpdate, lastAddr, lastProfiles, lastSlot, remote,
                  connected, linkUp, todo, saving, committed, pairings, halfErased>>
  BY DEF vars, flash, lastRam, link, history
<1>2. Clean' = Clean /\ Loaded' = Loaded /\ UsedBlocks' = UsedBlocks /\ NewestLast' = NewestLast
  BY <1>1, LogsAre
<1>3. Agrees' = Agrees /\ Total' = Total /\ Gapless' = Gapless
  BY <1>1, <1>2 DEF Agrees, Total, Gapless
<1>4. \A k, b : SaveFrom(k, b)' = SaveFrom(k, b)
  BY <1>1, <1>3 DEF SaveFrom, Header, Record
<1>5. Resting' = Resting
  BY <1>1, <1>2, <1>3 DEF Resting
<1>6. EraseBoth' = EraseBoth /\ EraseHigh' = EraseHigh
  BY <1>1, <1>2, <1>3, <1>4 DEF EraseBoth, EraseHigh, After, Named, EmptyList
<1>7. \A b \in 1 .. Blocks : Heading(b)' = Heading(b) /\ Filling(b)' = Filling(b)
  BY <1>1, <1>2, <1>3, <1>4 DEF Heading, Filling, Record, FilledIn
<1>8. Naming' = Naming
  BY <1>1, <1>2 DEF Naming, Named, LastCall
<1>9. Phases'
  BY <1>5, <1>6, <1>7, <1>8 DEF IInv, Phases
<1>10. Types' /\ OnLine' /\ OneHole' /\ Known'
  BY <1>1 DEF IInv, Types, OnLine, OneHole, Known, Within, EmptyList
<1> QED BY <1>9, <1>10 DEF IInv

LEMMA Invariance == Spec => []IInv
<1>1. IInv /\ [Next]_vars => IInv'
  <2> SUFFICES ASSUME IInv, [Next]_vars PROVE IInv'
    OBVIOUS
  <2>1. CASE FlashStep
    BY <2>1, FlashStepKeeps
  <2>2. CASE \E d \in Device, k \in Key : AddOneRecord(d, k)
    BY <2>2, AddKeeps
  <2>3. CASE \E d \in Device : DeleteRecord(d) \/ Arrive(d)
    BY <2>3, DeleteKeeps, ArriveKeeps
  <2>4. CASE \E p \in Profile : ProfileConnected(p) \/ ProfileDisconnected(p)
    BY <2>4, ConnectKeeps, DisconnectKeeps
  <2>5. CASE LinkConnected
    BY <2>5, LinkKeeps
  <2>6. CASE FactoryReset
    BY <2>6, ResetKeeps
  <2>7. CASE PowerCut
    BY <2>7, CutKeeps
  <2>8. CASE UNCHANGED vars
    BY <2>8, StutterKeeps
  <2> QED BY <2>1, <2>2, <2>3, <2>4, <2>5, <2>6, <2>7, <2>8 DEF Next
<1> QED BY <1>1, Starts, PTL DEF Spec

-----------------------------------------------------------------------------
(* The theorems. *)

\* Every variable keeps its type, and every call of the flash driver a handler makes is for
\* a block, a record and a slot that exist.
THEOREM DatabaseTypes == Spec => []TypeOK
<1>1. ASSUME IInv PROVE TypeOK
  <2>1. Types
    BY <1>1 DEF IInv
  <2>2. \A n \in DOMAIN todo : todo[n].call \in
           {"eraseLow", "eraseHigh", "eraseLast", "header", "record", "last", "profile"}
    <3>1. \A n \in DOMAIN todo : todo[n] \in Call
      BY <2>1 DEF Types
    <3> QED BY <3>1, CallFields
  <2> QED BY <2>1, <2>2 DEF Types, TypeOK
<1> QED BY <1>1, Invariance, PTL

\* The list the last completed save wrote is the one a restart loads, for every number of
\* blocks and records: FlshGetPairingInfoWriteOffset, SaveTotalDevRec2Flash and
\* FlshLoad1of8Dev agree about the place of the newest list.
THEOREM SavedListIsFound == Spec => []SavedListSurvives
<1>1. ASSUME IInv PROVE SavedListSurvives
  BY <1>1, IdleRests DEF SavedListSurvives
<1> QED BY <1>1, Invariance, PTL

\* Wherever in a save or a reset the power fails, a restart loads the old list, no list, or
\* the first records of the new one with blank ones behind them.
THEOREM CutKeepsOneList == Spec => []CutLeavesOldOrNew
<1>1. ASSUME IInv, ~Idle, ~halfErased
      PROVE  Loaded \in {committed, EmptyList} \cup {Torn(n) : n \in 0 .. MaxDevices}
  <2>1. saving \in Lists /\ records \in Logs
    BY <1>1 DEF IInv, Types, Lists, Logs
  <2>2. ASSUME Naming PROVE Loaded = Torn(MaxDevices)
    <3>1. Loaded = saving
      BY <1>1, <2>2 DEF Naming
    <3>2. \A i \in Slot : i <= MaxDevices
      BY Sizes
    <3>3. Torn(MaxDevices) = saving
      BY <2>1, <3>2 DEF Torn, Lists
    <3> QED BY <3>1, <3>3
  <2>3. ASSUME NEW b \in 1 .. Blocks, Filling(b)
        PROVE  \E n \in 0 .. MaxDevices : Loaded = Torn(n)
    <3> DEFINE done == Total - Len(todo)
    <3>1. FilledIn(records, saving, b, done) /\ Gapless /\ Len(todo) \in 1 .. Total
      BY <1>1, <2>3 DEF Filling
    <3>2. Total \in 0 .. MaxDevices
      BY TotalCounts DEF Total
    <3>3. done \in 0 .. TotalIn(saving) /\ done \in 0 .. MaxDevices
      BY <3>1, <3>2, Sizes DEF Total
    <3>4. \A i \in Slot : i > TotalIn(saving) => saving[i] = None
      BY <3>1 DEF Gapless, Total
    <3> HIDE DEF done
    <3>5. Loaded = Torn(done)
      BY <2>1, <3>1, <3>3, <3>4, FilledIsLoaded, LogsAre DEF Torn
    <3> QED BY <3>3, <3>5
  <2>4. ASSUME NEW b \in 1 .. Blocks, Heading(b) PROVE Loaded \in {committed, EmptyList}
    BY <1>1, <2>4 DEF Heading
  <2>5. ASSUME EraseBoth PROVE Loaded = committed
    BY <1>1, <2>5 DEF EraseBoth
  <2>6. ~Resting /\ ~EraseHigh
    BY <1>1 DEF Idle, Resting, EraseHigh
  <2> DEFINE torn == {Torn(n) : n \in 0 .. MaxDevices}
  <2>7. \A n \in 0 .. MaxDevices : Torn(n) \in torn
    OBVIOUS
  <2>8. MaxDevices \in 0 .. MaxDevices
    BY Sizes
  <2> HIDE DEF torn
  <2>9. Loaded \in {committed, EmptyList} \cup torn
    BY <1>1, <2>2, <2>3, <2>4, <2>5, <2>6, <2>7, <2>8 DEF IInv, Phases
  <2> QED BY <2>9 DEF torn
<1>2. ASSUME IInv PROVE CutLeavesOldOrNew
  BY <1>1, <1>2 DEF CutLeavesOldOrNew
<1> QED BY <1>2, Invariance, PTL

\* The last device and its profiles in flash are those in RAM, and the entry the next
\* profile is added to is the one BtDdb_GetLastBtAddr finds.
THEOREM LastDeviceIsFound == Spec => []LastDeviceAgrees
<1>1. ASSUME IInv PROVE LastDeviceAgrees
  BY <1>1, IdleRests DEF LastDeviceAgrees, Agrees
<1> QED BY <1>1, Invariance, PTL

\* A device that is linked, with its list saved, is found by the same key after a restart.
THEOREM LinkedDeviceIsFound == Spec => []LinkedDeviceIsKnown
<1>1. ASSUME IInv, Idle, ~halfErased, committed # EmptyList, ~ddbUpdate,
             Find(remote) \in 1 .. TotalIn(list)
      PROVE  \E i \in Slot : Loaded[i] = list[Find(remote)]
  <2>1. Find(remote) \in Slot /\ list[Find(remote)] # None
    <3>1. Find(remote) # 0
      BY <1>1
    <3> QED BY <3>1, FindIs
  <2>2. todo = <<>> /\ Loaded = committed
    BY <1>1, IdleRests
  <2>3. Within(committed)
    BY <1>1, <2>2 DEF IInv, Known
  <2> QED BY <1>1, <2>1, <2>2, <2>3 DEF Within
<1>2. ASSUME IInv PROVE LinkedDeviceIsKnown
  BY <1>1, <1>2 DEF LinkedDeviceIsKnown
<1> QED BY <1>2, Invariance, PTL
=============================================================================
