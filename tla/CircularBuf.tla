----------------------------- MODULE CircularBuf -----------------------------
(***************************************************************************)
(* The MCU_CIRCULAR byte ring of middleware/mv_utils/src/mcu_circular_buf.c *)
(* used by one producer (a decoder task, a USB interrupt, an input DMA) and *)
(* one consumer (the audio core, an encoder), neither of which takes a lock *)
(* inside the ring.  A call is therefore not atomic: it samples the indices,*)
(* copies the bytes one by one, and only then moves its own index, and the  *)
(* two calls interleave between any two of those steps.                     *)
(*                                                                          *)
(* Byte number k of the stream has value k, so that a lost, repeated or     *)
(* torn byte shows in what the consumer is given.  wr and rd count the      *)
(* bytes put and taken; the code keeps no such counters.                    *)
(***************************************************************************)
EXTENDS Integers, Sequences

CONSTANTS
  BufDepth,   \* bytes in the ring
  MaxLen,     \* longest chunk a caller hands to one call
  MaxBytes,   \* bound on the bytes of the stream
  Checked     \* TRUE: the producer asks MCUCircular_GetSpaceLen first

ASSUME DepthAssumption == BufDepth \in Nat \ {0}
\* The fields are uint32_t, but the calls keep indices and lengths in uint16_t
\* (mcu_circular_buf.c 61-62, 87-88): of a longer ring they would lose the top.
ASSUME WidthAssumption == BufDepth < 65536
ASSUME LenAssumption   == MaxLen \in 1 .. BufDepth
ASSUME BytesAssumption == MaxBytes \in Nat
ASSUME CheckAssumption == Checked \in BOOLEAN

VARIABLES
  buf,   \* CircularBuf[]: what each cell holds
  R, W,  \* read and write index
  put,   \* the producer's call: inside PutData or not, its Len, bytes copied
  get,   \* the consumer's call: which one, its Len, the bytes copied out
  wr, rd

vars == <<buf, R, W, put, get, wr, rd>>

Free    == -1                    \* a cell that was never written
NoPut   == [kind |-> "none", len |-> 0, done |-> 0]
NoGet   == [kind |-> "none", len |-> 0, out |-> <<>>]
Kinds   == {"GetData", "ReadData", "AbortData"}
Least(a, b) == IF a < b THEN a ELSE b

\* A slip of SpaceLen that forgets the byte that keeps full and empty apart.
SpaceLenOffByOne == IF R = W THEN BufDepth ELSE ((BufDepth + R - W) % BufDepth) + 1

\* MCUCircular_GetSpaceLen: equal indices mean an empty ring, never a full one.
SpaceLen == IF R = W THEN BufDepth ELSE (BufDepth + R - W) % BufDepth

\* MCUCircular_GetDataLen
DataLen == IF R = W THEN 0 ELSE IF R < W THEN W - R ELSE BufDepth + W - R

-------------------------------------------------------------------------------
Init ==
  /\ buf = [i \in 0 .. BufDepth - 1 |-> Free]
  /\ R = 0 /\ W = 0
  /\ put = NoPut /\ get = NoGet
  /\ wr = 0 /\ rd = 0

\* A producer that checks keeps one byte free, as decoder_service.c (four
\* samples) and spdif_mode.c (sixteen bytes) do; the USB packet handler of
\* otg_device_audio.c does not ask.
PutBegin(len) ==
  /\ put.kind = "none"
  /\ wr + len <= MaxBytes
  /\ Checked => len < SpaceLen
  /\ put' = [kind |-> "PutData", len |-> len, done |-> 0]
  /\ UNCHANGED <<buf, R, W, get, wr, rd>>

\* One byte of the one or two memcpy of PutData.
PutByte ==
  /\ put.kind = "PutData" /\ put.done < put.len
  /\ buf' = [buf EXCEPT ![(W + put.done) % BufDepth] = wr + put.done]
  /\ put' = [put EXCEPT !.done = @ + 1]
  /\ UNCHANGED <<R, W, get, wr, rd>>

\* A slip of PutPublish that leaves out the remainder.
PutPublishNoWrap ==
  /\ put.kind = "PutData" /\ put.done = put.len
  /\ W' = W + put.len
  /\ wr' = wr + put.len
  /\ put' = NoPut
  /\ UNCHANGED <<buf, R, get, rd>>

PutPublish ==
  /\ put.kind = "PutData" /\ put.done = put.len
  /\ W' = (W + put.len) % BufDepth
  /\ wr' = wr + put.len
  /\ put' = NoPut
  /\ UNCHANGED <<buf, R, get, rd>>

\* GetData, ReadData and AbortData sample W once, for their Len.
GetBegin(kind, max) ==
  /\ get.kind = "none"
  /\ get' = [kind |-> kind, len |-> Least(DataLen, max), out |-> <<>>]
  /\ UNCHANGED <<buf, R, W, put, wr, rd>>

GetByte ==
  /\ get.kind \in {"GetData", "ReadData"}
  /\ Len(get.out) < get.len
  /\ get' = [get EXCEPT !.out = Append(@, buf[(R + Len(get.out)) % BufDepth])]
  /\ UNCHANGED <<buf, R, W, put, wr, rd>>

\* GetData and AbortData consume; ReadData leaves R where it was.
GetPublish ==
  /\ \/ get.kind \in {"GetData", "ReadData"} /\ Len(get.out) = get.len
     \/ get.kind = "AbortData"
  /\ IF get.kind = "ReadData"
       THEN UNCHANGED <<R, rd>>
       ELSE /\ R' = (R + get.len) % BufDepth
            /\ rd' = rd + get.len
  /\ get' = NoGet
  /\ UNCHANGED <<buf, W, put, wr>>

\* MCUCircular_Config empties the ring; its callers do so before the two sides
\* run or while they hold the fifo's mutex.
Config ==
  /\ put.kind = "none" /\ get.kind = "none"
  /\ R' = 0 /\ W' = 0
  /\ rd' = wr
  /\ UNCHANGED <<buf, put, get, wr>>

Producer == (\E len \in 1 .. MaxLen : PutBegin(len)) \/ PutByte \/ PutPublish
Consumer == \/ \E kind \in Kinds, max \in 1 .. MaxLen : GetBegin(kind, max)
            \/ GetByte
            \/ GetPublish

Next == Producer \/ Consumer \/ Config

Spec == Init /\ [][Next]_vars

-------------------------------------------------------------------------------
TypeOK ==
  /\ buf \in [0 .. BufDepth - 1 -> {Free} \cup Nat]
  /\ R \in 0 .. BufDepth - 1 /\ W \in 0 .. BufDepth - 1
  /\ put \in [kind : {"none", "PutData"}, len : 0 .. MaxLen, done : 0 .. MaxLen]
  /\ put.done <= put.len
  /\ get \in [kind : Kinds \cup {"none"}, len : 0 .. BufDepth, out : Seq({Free} \cup Nat)]
  /\ wr \in Nat /\ rd \in Nat

\* Whatever a GetData or ReadData has copied so far is the next unread bytes of
\* the stream, in order: none lost, repeated or torn by a PutData that runs
\* between two bytes of the copy (mcu_circular_buf.c: PutData, GetData).
FifoIntact == \A i \in 1 .. Len(get.out) : get.out[i] = rd + i - 1

\* "The read and write pointers coincide only when the fifo is initialised or
\* has been played empty" (comment of MCUCircular_GetSpaceLen): equal indices
\* always mean that every byte put was taken.
CoincideOnlyWhenEmpty == R = W => wr = rd

\* The length the ring reports is the number of unread bytes, between any two
\* steps of the two calls (MCUCircular_GetDataLen).
LenExact == DataLen = wr - rd
===============================================================================
