---------------------------- MODULE BoundedQueue ----------------------------
(***************************************************************************)
(* What a ckfifo promises: a queue of at most Size bytes.  A put takes as  *)
(* many bytes as there is room for and says how many, a get hands out as   *)
(* many as there are, in the order they went in.                           *)
(***************************************************************************)
EXTENDS Integers, Sequences

CONSTANTS Size,
          Data,   \* the byte strings callers put
          Sizes   \* the lengths callers ask for

VARIABLES queue,  \* the bytes in the queue, oldest first
          last    \* the last call: its name, its argument, its result

vars == <<queue, last>>

Least(a, b) == IF a < b THEN a ELSE b

Init == queue = <<>> /\ last = <<>>

Put(data) ==
  LET n == Least(Len(data), Size - Len(queue))
  IN  /\ queue' = queue \o SubSeq(data, 1, n)
      /\ last' = <<"put", data, <<n>> >>

Get(size) ==
  LET n == Least(size, Len(queue))
  IN  /\ last' = <<"get", <<size>>, SubSeq(queue, 1, n)>>
      /\ queue' = SubSeq(queue, n + 1, Len(queue))

Next ==
  \/ \E data \in Data : Put(data)
  \/ \E size \in Sizes : Get(size)

Spec == Init /\ [][Next]_vars
=============================================================================
