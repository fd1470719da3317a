------------------------------- MODULE CkFifo -------------------------------
(***************************************************************************)
(* The ring buffer of com/cfifo.c.  in and out are unsigned counters that  *)
(* run past the size of the buffer and past their own width; they are set  *)
(* back to 0 only by a get that empties the buffer.  Every call holds the  *)
(* lock from its first access to its last, so it is one step.              *)
(***************************************************************************)
EXTENDS Integers, Sequences

CONSTANTS Size,    \* a power of two, or ckfifo_init refuses it
          Width,   \* 2^32: the values of a uint32_t
          Bytes,   \* what a byte can be
          Data,    \* the buffers callers put
          Sizes    \* the lengths callers ask for

ASSUME SizeAssumption == Size \in Nat \ {0} /\ Width \in Nat \ {0}
\* Both are powers of two and the size is a uint32_t, so it divides the width.
ASSUME WidthAssumption == \E m \in 2..Width : Width = m * Size
ASSUME DataAssumption == Data \subseteq Seq(Bytes) /\ Sizes \subseteq Nat

VARIABLES
  buffer,  \* the bytes of the buffer
  in, out, \* the counters
  last     \* history: the last call, its argument and its result

vars == <<buffer, in, out, last>>

Places == 0..(Size - 1)
Min2(a, b) == IF a < b THEN a ELSE b
Mask(i) == i % Size                 \* i & (size - 1)
Length == (in - out) % Width        \* __ckfifo_len
Room == (Size - in + out) % Width

TypeOK ==
  /\ buffer \in [Places -> Bytes]
  /\ in \in 0..(Width - 1)
  /\ out \in 0..(Width - 1)

\* malloc'ed by the caller: any bytes.
Init ==
  /\ buffer \in [Places -> Bytes]
  /\ in = 0
  /\ out = 0
  /\ last = <<>>

----------------------------------------------------------------------------
(* Plausible slips in cfifo.c, used only to show that properties notice. *)

\* The second memcpy goes behind the first.
SlipCopyIn(data, n) ==
  LET at    == Mask(in)
      first == Min2(n, Size - at)
  IN  [i \in Places |-> CASE i >= at /\ i < at + first -> data[i - at + 1]
                          [] i < n - first -> data[i + 1]
                          [] OTHER -> buffer[i]]

----------------------------------------------------------------------------
Advance(i, n) == (i + n) % Width

\* The two memcpys of __ckfifo_put: up to the end, then from the start.
CopyIn(data, n) ==
  LET at    == Mask(in)
      first == Min2(n, Size - at)
  IN  [i \in Places |-> CASE i >= at /\ i < at + first -> data[i - at + 1]
                          [] i < n - first -> data[first + i + 1]
                          [] OTHER -> buffer[i]]

\* The two memcpys of __ckfifo_get.
CopyOut(n) ==
  LET at    == Mask(out)
      first == Min2(n, Size - at)
  IN  [k \in 1..n |-> IF k <= first THEN buffer[at + k - 1] ELSE buffer[k - first - 1]]

Put(data) ==
  LET n == Min2(Len(data), Room)
  IN  /\ buffer' = CopyIn(data, n)
      /\ in' = Advance(in, n)
      /\ last' = <<"put", data, <<n>> >>
      /\ UNCHANGED out

\* After a get: both counters, set back when they have met.
Reset(o) == IF in = o THEN <<0, 0>> ELSE <<in, o>>

Get(size) ==
  LET n == Min2(size, Length)
  IN  /\ last' = <<"get", <<size>>, CopyOut(n)>>
      /\ in' = Reset(Advance(out, n))[1]
      /\ out' = Reset(Advance(out, n))[2]
      /\ UNCHANGED buffer

Next ==
  \/ \E data \in Data : Put(data)
  \/ \E size \in Sizes : Get(size)

Spec == Init /\ [][Next]_vars

----------------------------------------------------------------------------
(* Properties. *)

(* The distance of the counters is the number of bytes in the buffer, also
   when in has wrapped round and out has not. *)
NeverOverfull == Length <= Size /\ Room = Size - Length

(* Every call does to the bytes in the buffer what a bounded queue does. *)
Contents == [k \in 1..Length |-> buffer[Mask(out + k - 1)]]
Queue == INSTANCE BoundedQueue WITH queue <- Contents
ImplementsQueue == Queue!Spec
=============================================================================
