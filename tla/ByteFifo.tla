------------------------------- MODULE ByteFifo -------------------------------
(***************************************************************************)
(* What the byte ring promises its two users: a queue of at most Cap bytes. *)
(* A put appends the next bytes of the stream in one step; a take or a      *)
(* discard removes bytes from the front; a reset empties it.                *)
(***************************************************************************)
EXTENDS Integers, Sequences

CONSTANTS Cap, MaxLen

VARIABLES queue, next   \* the unread bytes, the number of the next byte put

Enqueue(n) ==
  /\ Len(queue) + n <= Cap
  /\ queue' = queue \o [i \in 1 .. n |-> next + i - 1]
  /\ next' = next + n

Remove(n) ==
  /\ n <= Len(queue)
  /\ queue' = SubSeq(queue, n + 1, Len(queue))
  /\ UNCHANGED next

Reset == queue' = <<>> /\ UNCHANGED next

Init == queue = <<>> /\ next = 0

Next == \/ \E n \in 1 .. MaxLen : Enqueue(n) \/ Remove(n)
        \/ Reset

Spec == Init /\ [][Next]_<<queue, next>>
===============================================================================
