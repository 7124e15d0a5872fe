---------------------------- MODULE MCCircularBuf ----------------------------
(***************************************************************************)
(* Model checking of the byte ring, and its refinement of ByteFifo.         *)
(***************************************************************************)
EXTENDS CircularBuf

\* The unread bytes as they lie in memory.
Unread == [i \in 1 .. DataLen |-> buf[(R + i - 1) % BufDepth]]

Abstract == INSTANCE ByteFifo
              WITH Cap <- BufDepth - 1, queue <- Unread, next <- wr

\* The ring implements a first-in first-out queue of BufDepth - 1 bytes: every
\* step of PutData, GetData, ReadData, AbortData and Config is a step of the
\* queue or leaves its content alone.
ImplementsFifo == Abstract!Spec
===============================================================================
