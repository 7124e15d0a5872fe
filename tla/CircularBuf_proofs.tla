-------------------------- MODULE CircularBuf_proofs --------------------------
(***************************************************************************)
(* The byte ring never tears, loses or repeats a byte, for every depth,     *)
(* chunk size and stream length, as long as its producer checks the space.  *)
(***************************************************************************)
EXTENDS MCCircularBuf, SequenceTheorems, TLAPS

\* The cell of an index below twice the depth, without the remainder.
Cell(i) == IF i < BufDepth THEN i ELSE i - BufDepth

\* The remainder the code takes is that cell (mcu_circular_buf.c:56, 116).
LEMMA RemainderIsCell ==
  ASSUME NEW i \in 0 .. 2 * BufDepth - 1
  PROVE  i % BufDepth = Cell(i) /\ Cell(i) \in 0 .. BufDepth - 1
<1>1. CASE i < BufDepth
  BY <1>1, DepthAssumption, SMT DEF Cell
<1>2. CASE i >= BufDepth
  BY <1>2, DepthAssumption, SMT DEF Cell
<1> QED BY <1>1, <1>2, DepthAssumption

\* Why the ring is right: the write index is the read index plus the unread
\* bytes; each unread cell, and each cell the pending put has filled, holds the
\* byte the stream has there; the pending put fits; the pending get is not
\* longer than what is unread and what it has copied is the front of it.
Indices == /\ wr - rd \in 0 .. BufDepth - 1
           /\ W = Cell(R + (wr - rd))
Content == \A j \in 0 .. (wr - rd) + put.done - 1 : buf[Cell(R + j)] = rd + j
PutFits == put.kind = "PutData" => (wr - rd) + put.len < BufDepth
PutIdle == put.kind = "none" => put = NoPut
GetFits == /\ get.len <= wr - rd /\ get.len <= MaxLen
           /\ Len(get.out) <= get.len

GetIdle == get.kind = "none" => get = NoGet

IInv == /\ TypeOK /\ Indices /\ Content
        /\ PutFits /\ PutIdle /\ GetFits /\ GetIdle /\ FifoIntact

\* The ranges of everything that is a number.
LEMMA Numbers ==
  ASSUME TypeOK
  PROVE  /\ BufDepth \in Nat /\ 0 < BufDepth /\ MaxLen \in Nat /\ MaxLen <= BufDepth
         /\ R \in Nat /\ R < BufDepth /\ W \in Nat /\ W < BufDepth
         /\ put.len \in Nat /\ put.len <= MaxLen /\ put.kind \in {"none", "PutData"}
         /\ put.done \in Nat /\ put.done <= put.len
         /\ get.len \in Nat /\ wr \in Nat /\ rd \in Nat
  BY DepthAssumption, LenAssumption, SMT DEF TypeOK

\* The ring reports the true amount of data and of space.
LEMMA LengthsExact ==
  ASSUME TypeOK, Indices
  PROVE  /\ DataLen = wr - rd
         /\ SpaceLen = BufDepth - (wr - rd)
<1> USE Numbers DEF Indices, Cell
<1>1. DataLen = wr - rd
  BY SMT DEF DataLen
<1>2. ASSUME R # W PROVE SpaceLen = BufDepth - (wr - rd)
  <2>1. BufDepth + R - W \in 0 .. 2 * BufDepth - 1
    BY SMT
  <2>2. (BufDepth + R - W) % BufDepth = Cell(BufDepth + R - W)
    BY <2>1, RemainderIsCell
  <2>3. SpaceLen = Cell(BufDepth + R - W)
    BY <1>2, <2>2, Zenon DEF SpaceLen
  <2> QED BY <1>2, <2>3, SMT
<1>3. ASSUME R = W PROVE SpaceLen = BufDepth - (wr - rd)
  BY <1>3, SMT DEF SpaceLen
<1> QED BY <1>1, <1>2, <1>3

LEMMA InitIInv == Init => IInv
  BY DepthAssumption, LenAssumption, SMT
     DEF Init, IInv, TypeOK, Indices, Content, PutFits, PutIdle, GetFits,
         GetIdle, FifoIntact, Cell, NoPut, NoGet, Kinds, Free

LEMMA PutBeginStep ==
  ASSUME IInv, Checked, NEW len \in 1 .. MaxLen, PutBegin(len)
  PROVE  IInv'
<1> USE DepthAssumption, LenAssumption DEF IInv
<1>1. len < BufDepth - (wr - rd)
  BY LengthsExact, SMT DEF PutBegin
<1>2. TypeOK'
  BY SMT DEF PutBegin, TypeOK
<1>3. /\ put.done = 0 /\ put'.done = 0 /\ put'.len = len /\ put'.kind = "PutData"
      /\ UNCHANGED <<buf, R, W, get, wr, rd>>
  BY SMT DEF PutBegin, PutIdle, NoPut
<1>4. Indices' /\ Content'
  BY <1>3, SMT DEF Indices, Content, Cell
<1>5. PutFits' /\ PutIdle'
  BY <1>1, <1>3, Numbers, SMT DEF PutFits, PutIdle, Indices
<1>6. GetFits' /\ GetIdle' /\ FifoIntact'
  BY <1>3 DEF GetFits, GetIdle, FifoIntact
<1> QED BY <1>2, <1>4, <1>5, <1>6

LEMMA PutByteStep ==
  ASSUME IInv, PutByte
  PROVE  IInv'
<1> USE DEF IInv
<1> DEFINE n    == wr - rd
           cell == Cell(W + put.done)
<1>1. /\ put.kind = "PutData" /\ put.done < put.len
      /\ buf' = [buf EXCEPT ![(W + put.done) % BufDepth] = wr + put.done]
      /\ put' = [put EXCEPT !.done = put.done + 1]
      /\ UNCHANGED <<R, W, get, wr, rd>>
  BY Zenon DEF PutByte
<1>2. n \in Nat /\ n + put.len < BufDepth /\ W = Cell(R + n)
  BY <1>1, Numbers, SMT DEF Indices, PutFits
<1>3. /\ (W + put.done) % BufDepth = cell
      /\ cell \in 0 .. BufDepth - 1
      /\ cell = Cell(R + (n + put.done))
  <2>1. W + put.done \in 0 .. 2 * BufDepth - 1
    BY Numbers, SMT
  <2>2. cell = Cell(R + (n + put.done))
    BY <1>1, <1>2, Numbers, SMT DEF Cell
  <2> QED BY <2>1, <2>2, RemainderIsCell
<1>4. buf \in [0 .. BufDepth - 1 -> {Free} \cup Nat]
  BY DEF TypeOK
<1>5. /\ buf' \in [0 .. BufDepth - 1 -> {Free} \cup Nat]
      /\ buf'[cell] = wr + put.done
      /\ \A c \in 0 .. BufDepth - 1 : c # cell => buf'[c] = buf[c]
  <2>1. wr + put.done \in {Free} \cup Nat
    BY Numbers, SMT
  <2>2. buf' = [buf EXCEPT ![cell] = wr + put.done]
    BY <1>1, <1>3, Zenon
  <2> HIDE DEF cell
  <2> QED BY <1>3, <1>4, <2>1, <2>2, Zenon
<1>6. /\ put'.kind = put.kind /\ put'.len = put.len /\ put'.done = put.done + 1
      /\ put' \in [kind : {"none", "PutData"}, len : 0 .. MaxLen, done : 0 .. MaxLen]
  <2>1. put \in [kind : {"none", "PutData"}, len : 0 .. MaxLen, done : 0 .. MaxLen]
    BY DEF TypeOK
  <2>2. put.done + 1 \in 0 .. MaxLen
    BY <1>1, Numbers, SMT
  <2> QED BY <1>1, <2>1, <2>2, SMT
<1>7. TypeOK'
  BY <1>1, <1>5, <1>6, Numbers, SMT DEF TypeOK
<1>8. Content'
  <2>1. SUFFICES ASSUME NEW j \in 0 .. n + put.done
                 PROVE  buf'[Cell(R + j)] = rd + j
    BY <1>1, <1>6, Numbers, SMT DEF Content, Cell
  <2>2. CASE j = n + put.done
    BY <1>3, <1>5, <2>2, Numbers, SMT
  <2>3. CASE j < n + put.done
    <3>1. buf[Cell(R + j)] = rd + j
      BY <1>2, <2>3, Numbers, SMT DEF Content
    <3>2. Cell(R + j) \in 0 .. BufDepth - 1 /\ Cell(R + j) # cell
      BY <1>1, <1>2, <1>3, <2>3, Numbers, SMT DEF Cell
    <3> QED BY <1>5, <3>1, <3>2
  <2> QED BY <1>2, <2>2, <2>3, Numbers, SMT
<1>9. Indices' /\ PutFits' /\ PutIdle' /\ GetFits' /\ GetIdle' /\ FifoIntact'
  BY <1>1, <1>6, SMT DEF Indices, PutFits, PutIdle, GetFits, GetIdle, FifoIntact, Cell
<1> QED BY <1>7, <1>8, <1>9

LEMMA PutPublishStep ==
  ASSUME IInv, PutPublish
  PROVE  IInv'
<1> USE DepthAssumption, LenAssumption DEF IInv
<1>1. /\ W' = Cell(W + put.len)
      /\ Cell(W + put.len) \in 0 .. BufDepth - 1
  <2>1. W + put.len \in 0 .. 2 * BufDepth - 1
    BY Numbers, SMT
  <2>2. W' = (W + put.len) % BufDepth
    BY DEF PutPublish
  <2> QED BY <2>1, <2>2, RemainderIsCell, Zenon
<1>2. put.kind = "PutData" /\ put.done = put.len /\ wr' = wr + put.len /\ put' = NoPut
  BY DEF PutPublish
<1>3. UNCHANGED <<buf, R, get, rd>>
  BY DEF PutPublish
<1>4. TypeOK'
  BY <1>1, <1>2, <1>3, Numbers, SMT DEF TypeOK, NoPut
<1>5. Indices'
  BY <1>1, <1>2, <1>3, Numbers, SMT DEF Indices, PutFits, Cell
<1>6. Content'
  <2>1. SUFFICES ASSUME NEW j \in 0 .. (wr' - rd') + put'.done - 1
                 PROVE  buf[Cell(R + j)] = rd + j
    BY <1>3, SMT DEF Content, Cell
  <2>2. j \in 0 .. (wr - rd) + put.done - 1
    BY <1>2, <1>3, <2>1, Numbers, SMT DEF NoPut
  <2> QED BY <2>2 DEF Content
<1>7. PutFits' /\ PutIdle' /\ GetFits' /\ GetIdle' /\ FifoIntact'
  BY <1>2, <1>3, SMT DEF TypeOK, Indices, PutFits, PutIdle, GetFits, GetIdle, FifoIntact, NoPut
<1> QED BY <1>4, <1>5, <1>6, <1>7

LEMMA GetBeginStep ==
  ASSUME IInv, NEW kind \in Kinds, NEW max \in 1 .. MaxLen, GetBegin(kind, max)
  PROVE  IInv'
<1> USE DepthAssumption, LenAssumption DEF IInv
<1>1. Least(DataLen, max) \in 0 .. wr - rd /\ Least(DataLen, max) <= MaxLen
  BY LengthsExact, Numbers, SMT DEF Indices, Least
<1>2. /\ get'.len = Least(DataLen, max) /\ get'.out = <<>>
      /\ get' = [kind |-> kind, len |-> Least(DataLen, max), out |-> <<>>]
      /\ UNCHANGED <<buf, R, W, put, wr, rd>>
  BY SMT DEF GetBegin
<1>3. TypeOK'
  BY <1>1, <1>2, SMT DEF TypeOK, Indices
<1>4. Indices' /\ Content' /\ PutFits' /\ PutIdle'
  BY <1>2, SMT DEF Indices, Content, PutFits, PutIdle, Cell, NoPut
<1>5. GetFits' /\ GetIdle' /\ FifoIntact'
  BY <1>1, <1>2, SMT DEF GetFits, GetIdle, FifoIntact, TypeOK, Kinds
<1> QED BY <1>3, <1>4, <1>5

LEMMA GetByteStep ==
  ASSUME IInv, GetByte
  PROVE  IInv'
<1> USE DepthAssumption, LenAssumption DEF IInv
<1> DEFINE n == Len(get.out)
<1>1. n \in Nat /\ n < get.len /\ n < wr - rd
  BY SMT DEF GetByte, TypeOK, GetFits
<1>2. buf[(R + n) % BufDepth] = rd + n
  <2>1. R + n \in 0 .. 2 * BufDepth - 1
    BY <1>1, Numbers, SMT DEF Indices
  <2>2. (R + n) % BufDepth = Cell(R + n)
    BY <2>1, RemainderIsCell
  <2>3. n \in 0 .. (wr - rd) + put.done - 1
    BY <1>1, Numbers, SMT
  <2>4. buf[Cell(R + n)] = rd + n
    BY <2>3, Zenon DEF Content
  <2> QED BY <2>2, <2>4, Zenon
<1>3. /\ get' = [get EXCEPT !.out = Append(get.out, rd + n)]
      /\ UNCHANGED <<buf, R, W, put, wr, rd>>
  BY <1>2, Zenon DEF GetByte
<1> DEFINE o == Append(get.out, rd + n)
<1>4. /\ get'.out = o /\ get'.len = get.len /\ get'.kind = get.kind
      /\ get' \in [kind : Kinds \cup {"none"}, len : 0 .. BufDepth, out : Seq({Free} \cup Nat)]
  <2>1. get \in [kind : Kinds \cup {"none"}, len : 0 .. BufDepth, out : Seq({Free} \cup Nat)]
    BY DEF TypeOK
  <2>2. o \in Seq({Free} \cup Nat)
    BY <1>1, <2>1, Numbers, SMT
  <2>3. get' = [get EXCEPT !.out = o]
    BY <1>3
  <2> HIDE DEF o
  <2> QED BY <2>1, <2>2, <2>3, SMT
<1>5. Len(get'.out) = n + 1
  BY <1>4, SMT DEF TypeOK
<1>6. TypeOK'
  BY <1>1, <1>3, <1>4, SMT DEF TypeOK
<1>7. Indices' /\ Content' /\ PutFits' /\ PutIdle' /\ GetFits' /\ GetIdle'
  BY <1>1, <1>3, <1>4, <1>5, SMT
     DEF Indices, Content, PutFits, PutIdle, GetFits, GetIdle, Cell, NoPut, TypeOK, NoGet
<1>8. FifoIntact'
  BY <1>1, <1>3, <1>4, <1>5, SMT DEF FifoIntact, TypeOK
<1> QED BY <1>6, <1>7, <1>8

LEMMA GetPublishStep ==
  ASSUME IInv, GetPublish
  PROVE  IInv'
<1> USE DepthAssumption, LenAssumption DEF IInv
<1>1. /\ get' = NoGet
      /\ UNCHANGED <<buf, W, put, wr>>
  BY DEF GetPublish
<1>2. CASE get.kind = "ReadData"
  <2>1. UNCHANGED <<R, rd>>
    BY <1>2 DEF GetPublish
  <2>2. TypeOK'
    BY <1>1, <2>1, SMT DEF TypeOK, NoGet
  <2>3. Indices' /\ Content' /\ PutFits' /\ PutIdle'
    BY <1>1, <2>1 DEF Indices, Content, PutFits, PutIdle, Cell
  <2>4. GetFits' /\ GetIdle' /\ FifoIntact'
    BY <1>1, <2>1, Numbers, SMT DEF GetFits, GetIdle, FifoIntact, NoGet, Indices
  <2> QED BY <2>2, <2>3, <2>4
<1>3. CASE get.kind # "ReadData"
  <2>1. R' = Cell(R + get.len) /\ Cell(R + get.len) \in 0 .. BufDepth - 1
    <3>1. R + get.len \in 0 .. 2 * BufDepth - 1
      BY Numbers, SMT DEF GetFits, Indices
    <3>2. R' = (R + get.len) % BufDepth
      BY <1>3 DEF GetPublish
    <3> QED BY <3>1, <3>2, RemainderIsCell, Zenon
  <2>2. rd' = rd + get.len
    BY <1>3 DEF GetPublish
  <2>3. TypeOK'
    BY <1>1, <2>1, <2>2, SMT DEF TypeOK, NoGet
  <2>4. Indices'
    <3>1. get.len <= wr - rd /\ wr - rd \in 0 .. BufDepth - 1 /\ W = Cell(R + (wr - rd))
      BY DEF Indices, GetFits
    <3>2. wr - rd' = (wr - rd) - get.len /\ wr - rd' \in 0 .. BufDepth - 1
      BY <2>2, <3>1, Numbers, SMT
    <3>3. W = Cell(R' + (wr - rd'))
      BY <2>1, <3>1, <3>2, Numbers, SMT DEF Cell
    <3> QED BY <1>1, <3>2, <3>3, SMT DEF Indices, Cell
  <2>5. Content'
    <3>1. SUFFICES ASSUME NEW j \in 0 .. (wr - rd') + put.done - 1
                   PROVE  buf[Cell(R' + j)] = rd' + j
      BY <1>1, SMT DEF Content, Cell
    <3>2. get.len + j \in 0 .. (wr - rd) + put.done - 1
      <4>1. (wr - rd') = (wr - rd) - get.len
        BY <2>2, Numbers, SMT
      <4>2. j \in Int /\ 0 <= j /\ j <= (wr - rd) - get.len + put.done - 1
        BY <3>1, <4>1, Numbers, SMT
      <4> QED BY <4>2, Numbers, SMT
    <3>3. Cell(R' + j) = Cell(R + (get.len + j))
      <4>1. (wr - rd) + put.done < BufDepth
        BY Numbers, SMT DEF Indices, PutFits, PutIdle, NoPut
      <4> QED BY <2>1, <3>2, <4>1, Numbers, SMT DEF Cell
    <3>4. buf[Cell(R + (get.len + j))] = rd + (get.len + j)
      BY <3>2, Zenon DEF Content
    <3> QED BY <2>2, <3>2, <3>3, <3>4, Numbers, SMT
  <2>6. PutFits' /\ PutIdle' /\ GetFits' /\ GetIdle' /\ FifoIntact'
    <3>1. wr - rd' <= wr - rd /\ wr - rd' \in Nat
      <4>1. get.len <= wr - rd
        BY Zenon DEF GetFits
      <4> QED BY <2>2, <4>1, Numbers, SMT
    <3>2. Len(get'.out) = 0 /\ get'.len = 0
      BY <1>1, SMT DEF NoGet
    <3>3. PutFits'
      <4>1. put' = put /\ wr' = wr
        BY <1>1
      <4>2. CASE put.kind = "PutData"
        <5>1. (wr - rd) + put.len < BufDepth /\ wr - rd \in Nat
          BY <4>2, SMT DEF PutFits, Indices
        <5>2. (wr - rd') + put.len < BufDepth
          BY <3>1, <5>1, Numbers, SMT
        <5> QED BY <4>1, <5>2, Zenon DEF PutFits
      <4>3. CASE put.kind # "PutData"
        BY <4>1, <4>3, Zenon DEF PutFits
      <4> QED BY <4>2, <4>3
    <3> QED BY <1>1, <3>1, <3>2, <3>3, SMT DEF PutIdle, GetFits, GetIdle, FifoIntact
  <2> QED BY <2>3, <2>4, <2>5, <2>6
<1> QED BY <1>2, <1>3

LEMMA ConfigStep ==
  ASSUME IInv, Config
  PROVE  IInv'
<1> USE Numbers DEF IInv
<1>1. /\ put.kind = "none" /\ get.kind = "none" /\ put = NoPut
      /\ R' = 0 /\ W' = 0 /\ rd' = wr /\ UNCHANGED <<buf, put, get, wr>>
  BY DEF Config, PutIdle
<1>2. get.len = 0 /\ get.out = <<>>
  BY <1>1 DEF GetIdle, NoGet
<1>3. TypeOK'
  BY <1>1, SMT DEF TypeOK
<1>4. Indices' /\ Content' /\ PutFits' /\ PutIdle' /\ GetFits' /\ GetIdle' /\ FifoIntact'
  BY <1>1, <1>2, SMT DEF Indices, Content, PutFits, PutIdle, GetFits, GetIdle, FifoIntact, Cell, NoPut
<1> QED BY <1>3, <1>4

LEMMA NextStep ==
  ASSUME IInv, Checked, [Next]_vars
  PROVE  IInv'
<1>1. CASE Producer
  BY <1>1, PutBeginStep, PutByteStep, PutPublishStep DEF Producer
<1>2. CASE Consumer
  BY <1>2, GetBeginStep, GetByteStep, GetPublishStep DEF Consumer
<1>3. CASE Config
  BY <1>3, ConfigStep
<1>4. CASE UNCHANGED vars
  BY <1>4, SMT DEF vars, IInv, TypeOK, Indices, Content, PutFits, PutIdle, GetFits,
                   GetIdle, FifoIntact, Cell, NoPut
<1> QED BY <1>1, <1>2, <1>3, <1>4 DEF Next

LEMMA Inductive == ASSUME Checked PROVE Spec => []IInv
<1>1. IInv /\ [Next]_vars => IInv'
  BY NextStep
<1> QED BY InitIInv, <1>1, PTL DEF Spec

\* With a producer that asks for the space first, GetData and ReadData hand out
\* exactly the next unread bytes whatever the interleaving with PutData
\* (mcu_circular_buf.c:41, 85, 124), for every depth, chunk and stream length.
THEOREM RingIsIntact == ASSUME Checked PROVE Spec => []FifoIntact
<1>1. IInv => FifoIntact
  BY DEF IInv
<1> QED BY Inductive, <1>1, PTL

\* Its two length functions are exact between any two steps of the calls, and
\* equal indices always mean that nothing is unread (mcu_circular_buf.c:28, 59).
THEOREM RingLengthsAreExact ==
  ASSUME Checked PROVE Spec => [](LenExact /\ CoincideOnlyWhenEmpty)
<1>1. ASSUME IInv PROVE LenExact /\ CoincideOnlyWhenEmpty
  <2>1. DataLen = wr - rd
    BY <1>1, LengthsExact DEF IInv
  <2>2. R = W => DataLen = 0
    BY DEF DataLen
  <2>3. R = W => wr = rd
    BY <1>1, <2>1, <2>2, Numbers, SMT DEF IInv
  <2> QED BY <2>1, <2>3 DEF LenExact, CoincideOnlyWhenEmpty
<1> QED BY Inductive, <1>1, PTL

-------------------------------------------------------------------------------
(* The types, for a producer that checks as for one that does not. *)

LEMMA TypesKept == ASSUME TypeOK, [Next]_vars PROVE TypeOK'
<1> USE DepthAssumption, LenAssumption
<1>r. \A i \in Nat : i % BufDepth \in 0 .. BufDepth - 1
  BY SMT
<1>b. \A i \in 0 .. BufDepth - 1 : buf[i] \in {Free} \cup Nat
  BY DEF TypeOK
<1>1. CASE \E len \in 1 .. MaxLen : PutBegin(len)
  BY <1>1, SMT DEF PutBegin, TypeOK
<1>2. CASE PutByte
  <2>1. /\ put.done < put.len
        /\ buf' = [buf EXCEPT ![(W + put.done) % BufDepth] = wr + put.done]
        /\ put' = [put EXCEPT !.done = put.done + 1]
        /\ UNCHANGED <<R, W, get, wr, rd>>
    BY <1>2, Zenon DEF PutByte
  <2>2. (W + put.done) % BufDepth \in 0 .. BufDepth - 1 /\ wr + put.done \in Nat
    BY <1>r, Numbers, SMT
  <2>3. buf' \in [0 .. BufDepth - 1 -> {Free} \cup Nat]
    BY <2>1, <2>2, SMT DEF TypeOK
  <2>4. /\ put' \in [kind : {"none", "PutData"}, len : 0 .. MaxLen, done : 0 .. MaxLen]
        /\ put'.done <= put'.len
    <3>1. put.done + 1 \in 0 .. MaxLen /\ put.done + 1 <= put.len
      BY <2>1, Numbers, SMT
    <3>2. put \in [kind : {"none", "PutData"}, len : 0 .. MaxLen, done : 0 .. MaxLen]
      BY DEF TypeOK
    <3> QED BY <2>1, <3>1, <3>2, SMT
  <2> QED BY <2>1, <2>3, <2>4, SMT DEF TypeOK
<1>3. CASE PutPublish
  <2>1. W' \in 0 .. BufDepth - 1 /\ wr' \in Nat
    BY <1>3, <1>r, Numbers, SMT DEF PutPublish
  <2> QED BY <1>3, <2>1, SMT DEF PutPublish, TypeOK, NoPut
<1>4. CASE \E kind \in Kinds, max \in 1 .. MaxLen : GetBegin(kind, max)
  <2>1. DataLen \in 0 .. BufDepth
    BY SMT DEF DataLen, TypeOK
  <2>2. PICK kind \in Kinds, max \in 1 .. MaxLen : GetBegin(kind, max)
    BY <1>4
  <2>3. Least(DataLen, max) \in 0 .. BufDepth
    BY <2>1, SMT DEF Least
  <2> QED BY <2>2, <2>3, SMT DEF GetBegin, TypeOK
<1>5. CASE GetByte
  <2> DEFINE byte == buf[(R + Len(get.out)) % BufDepth]
             out  == Append(get.out, byte)
  <2>1. get' = [get EXCEPT !.out = out] /\ UNCHANGED <<buf, R, W, put, wr, rd>>
    BY <1>5, Zenon DEF GetByte
  <2>2. get.out \in Seq({Free} \cup Nat)
    BY DEF TypeOK
  <2>3. byte \in {Free} \cup Nat
    <3>1. R + Len(get.out) \in Nat
      BY <2>2, Numbers, SMT
    <3> QED BY <3>1, <1>r, <1>b
  <2>4. out \in Seq({Free} \cup Nat)
    BY <2>2, <2>3
  <2> HIDE DEF out
  <2>5. get' \in [kind : Kinds \cup {"none"}, len : 0 .. BufDepth, out : Seq({Free} \cup Nat)]
    <3>1. get \in [kind : Kinds \cup {"none"}, len : 0 .. BufDepth, out : Seq({Free} \cup Nat)]
      BY DEF TypeOK
    <3> QED BY <2>1, <2>4, <3>1, SMT
  <2> QED BY <2>1, <2>5 DEF TypeOK
<1>6. CASE GetPublish
  <2>1. R' \in 0 .. BufDepth - 1 /\ rd' \in Nat
    <3>1. R + get.len \in Nat
      BY Numbers, SMT
    <3> QED BY <1>6, <1>r, <3>1, Numbers, SMT DEF GetPublish
  <2>2. <<>> \in Seq({Free} \cup Nat)
    OBVIOUS
  <2> QED BY <1>6, <2>1, <2>2, SMT DEF GetPublish, TypeOK, NoGet
<1>7. CASE Config
  BY <1>7, SMT DEF Config, TypeOK
<1>8. CASE UNCHANGED vars
  BY <1>8 DEF vars, TypeOK
<1> QED BY <1>1, <1>2, <1>3, <1>4, <1>5, <1>6, <1>7, <1>8 DEF Next, Producer, Consumer

\* Every cell, index, call and counter keeps to the values the code gives it, also under a
\* producer that does not ask for the space (mcu_circular_buf.c:41, 85, 124).
THEOREM RingTypes == Spec => []TypeOK
<1>1. Init => TypeOK
  BY DepthAssumption, LenAssumption, SMT DEF Init, TypeOK, NoPut, NoGet
<1>2. TypeOK /\ [Next]_vars => TypeOK'
  BY TypesKept
<1> QED BY <1>1, <1>2, PTL DEF Spec

-------------------------------------------------------------------------------
(* The refinement.  What lies unread in the ring is a piece of the stream, so that a   *)
(* step of the ring is one of the queue, or none, by what it does to the two counters. *)

Stream(from, to) == [i \in 1 .. to - from |-> from + i - 1]

LEMMA UnreadIsStream == IInv => Unread = Stream(rd, wr)
<1> SUFFICES ASSUME IInv PROVE Unread = Stream(rd, wr)
  OBVIOUS
<1>1. DataLen = wr - rd /\ wr - rd \in 0 .. BufDepth - 1
  BY LengthsExact DEF IInv, Indices
<1>2. ASSUME NEW i \in 1 .. wr - rd PROVE buf[(R + i - 1) % BufDepth] = rd + i - 1
  <2>1. R + i - 1 \in 0 .. 2 * BufDepth - 1 /\ i - 1 \in 0 .. (wr - rd) + put.done - 1
        /\ R + i - 1 = R + (i - 1)
    BY <1>1, Numbers, SMT DEF IInv
  <2>2. (R + i - 1) % BufDepth = Cell(R + (i - 1))
    BY <2>1, RemainderIsCell
  <2>3. buf[Cell(R + (i - 1))] = rd + (i - 1)
    BY <2>1, Zenon DEF IInv, Content
  <2> QED BY <1>1, <2>2, <2>3, Numbers, SMT DEF IInv
<1> QED BY <1>1, <1>2 DEF Unread, Stream

LEMMA StreamIsSeq ==
  ASSUME NEW r \in Nat, NEW w \in Nat, r <= w
  PROVE  Stream(r, w) \in Seq(Nat) /\ Len(Stream(r, w)) = w - r
<1>1. w - r \in Nat /\ \A i \in 1 .. w - r : r + i - 1 \in Nat
  OBVIOUS
<1> QED BY <1>1 DEF Stream

\* Bytes put behind the stream, and bytes taken from its front.
LEMMA StreamGrows ==
  ASSUME NEW r \in Nat, NEW w \in Nat, r <= w, NEW n \in Nat
  PROVE  Stream(r, w + n) = Stream(r, w) \o [i \in 1 .. n |-> w + i - 1]
<1>1. Stream(w, w + n) = [i \in 1 .. n |-> w + i - 1]
  BY DEF Stream
<1>2. /\ Stream(r, w) \in Seq(Nat) /\ Len(Stream(r, w)) = w - r
      /\ Stream(w, w + n) \in Seq(Nat) /\ Len(Stream(w, w + n)) = n
      /\ Stream(r, w + n) \in Seq(Nat) /\ Len(Stream(r, w + n)) = w + n - r
  <2>1. w + n \in Nat /\ r <= w + n /\ w <= w + n /\ w + n - w = n
    OBVIOUS
  <2>2. Stream(r, w) \in Seq(Nat) /\ Len(Stream(r, w)) = w - r
    BY StreamIsSeq
  <2>3. Stream(w, w + n) \in Seq(Nat) /\ Len(Stream(w, w + n)) = n
    BY <2>1, StreamIsSeq
  <2>4. Stream(r, w + n) \in Seq(Nat) /\ Len(Stream(r, w + n)) = w + n - r
    BY <2>1, StreamIsSeq
  <2> QED BY <2>2, <2>3, <2>4
<1>3. \A i \in 1 .. w + n - r :
         Stream(r, w + n)[i] = (Stream(r, w) \o Stream(w, w + n))[i]
  <2> SUFFICES ASSUME NEW i \in 1 .. w + n - r
               PROVE  Stream(r, w + n)[i] = (Stream(r, w) \o Stream(w, w + n))[i]
    OBVIOUS
  <2>1. (Stream(r, w) \o Stream(w, w + n))[i] =
           IF i <= w - r THEN Stream(r, w)[i] ELSE Stream(w, w + n)[i - (w - r)]
    BY <1>2
  <2> QED BY <2>1 DEF Stream
<1>4. /\ Stream(r, w) \o Stream(w, w + n) \in Seq(Nat)
      /\ Len(Stream(r, w) \o Stream(w, w + n)) = w + n - r
  BY <1>2
<1>5. Stream(r, w + n) = Stream(r, w) \o Stream(w, w + n)
  BY <1>2, <1>3, <1>4, SeqEqual
<1> QED BY <1>1, <1>5

LEMMA StreamShrinks ==
  ASSUME NEW r \in Nat, NEW w \in Nat, NEW n \in Nat, r + n <= w
  PROVE  Stream(r + n, w) = SubSeq(Stream(r, w), n + 1, Len(Stream(r, w)))
<1>1. Len(Stream(r, w)) = w - r /\ Stream(r, w) \in Seq(Nat)
  BY StreamIsSeq
<1> QED BY <1>1 DEF Stream

\* Every step of the ring is one of the queue, or leaves the queue as it is.
LEMMA StepImplements ==
  ASSUME IInv, IInv', [Next]_vars
  PROVE  [Abstract!Next]_<<Unread, wr>>
<1>1. Unread = Stream(rd, wr) /\ Unread' = Stream(rd', wr')
  <2>1. Unread = Stream(rd, wr)
    BY UnreadIsStream
  <2>2. (Unread = Stream(rd, wr))'
    BY UnreadIsStream, PTL
  <2> QED BY <2>1, <2>2
<1>2. /\ rd \in Nat /\ wr \in Nat /\ rd <= wr /\ wr - rd <= BufDepth - 1
      /\ Len(Unread) = wr - rd
  <2>1. rd \in Nat /\ wr \in Nat /\ rd <= wr /\ wr - rd <= BufDepth - 1
    BY Numbers, SMT DEF IInv, Indices
  <2> QED BY <1>1, <2>1, StreamIsSeq
<1>3. CASE UNCHANGED <<rd, wr>>
  BY <1>1, <1>3
<1>4. CASE PutPublish
  <2>1. /\ put.len \in 0 .. MaxLen /\ put.len \in Nat /\ wr' = wr + put.len /\ rd' = rd
        /\ wr - rd + put.len <= BufDepth - 1
    BY <1>2, <1>4, Numbers, SMT DEF PutPublish, IInv, PutFits
  <2>2. Unread' = Unread \o [i \in 1 .. put.len |-> wr + i - 1]
    BY <1>1, <1>2, <2>1, StreamGrows
  <2>3. Abstract!Enqueue(put.len)
    BY <1>2, <2>1, <2>2 DEF Abstract!Enqueue
  <2>4. CASE put.len = 0
    BY <1>3, <2>1, <2>4, <1>2
  <2> QED BY <2>1, <2>3, <2>4 DEF Abstract!Next
<1>5. CASE GetPublish
  <2>1. /\ get.len \in Nat /\ get.len <= MaxLen /\ get.len <= wr - rd /\ wr' = wr
        /\ rd' = rd \/ rd' = rd + get.len
    BY <1>5, Numbers DEF GetPublish, IInv, GetFits
  <2>2. CASE rd' = rd
    BY <1>3, <2>1, <2>2
  <2>3. CASE rd' # rd
    <3>1. rd' = rd + get.len /\ get.len \in 1 .. MaxLen /\ rd + get.len <= wr
      BY <1>2, <2>1, <2>3, LenAssumption
    <3>2. Unread' = SubSeq(Unread, get.len + 1, Len(Unread))
      BY <1>1, <1>2, <2>1, <3>1, StreamShrinks
    <3>3. Abstract!Remove(get.len)
      BY <1>2, <2>1, <3>1, <3>2 DEF Abstract!Remove
    <3> QED BY <3>1, <3>3 DEF Abstract!Next
  <2> QED BY <2>2, <2>3
<1>6. CASE Config
  <2>1. rd' = wr /\ wr' = wr
    BY <1>6 DEF Config
  <2>2. Stream(wr, wr) = <<>>
    <3>1. Stream(wr, wr) \in Seq(Nat) /\ Len(Stream(wr, wr)) = 0
      BY <1>2, StreamIsSeq
    <3> QED BY <3>1
  <2> QED BY <1>1, <2>1, <2>2 DEF Abstract!Next, Abstract!Reset
<1> QED BY <1>3, <1>4, <1>5, <1>6
        DEF Next, Producer, Consumer, PutBegin, PutByte, GetBegin, GetByte, vars

\* With a producer that asks for the space first the ring is a first-in first-out queue of
\* BufDepth - 1 bytes, for every depth and chunk: a PutData puts all its bytes in one step
\* and a GetData or AbortData takes them in one, whatever the interleaving of their copies
\* (mcu_circular_buf.c:41, 85, 103, 124).
THEOREM RingIsAFifo == ASSUME Checked PROVE Spec => ImplementsFifo
<1>1. Init /\ IInv => Abstract!Init
  <2> SUFFICES ASSUME Init, IInv PROVE Abstract!Init
    OBVIOUS
  <2>1. Unread = Stream(0, 0) /\ wr = 0
    BY UnreadIsStream DEF Init
  <2>2. Stream(0, 0) \in Seq(Nat) /\ Len(Stream(0, 0)) = 0
    BY StreamIsSeq
  <2> QED BY <2>1, <2>2 DEF Abstract!Init
<1>2. IInv /\ IInv' /\ [Next]_vars => [Abstract!Next]_<<Unread, wr>>
  BY StepImplements
<1> QED BY Inductive, <1>1, <1>2, PTL DEF Spec, ImplementsFifo, Abstract!Spec
===============================================================================
