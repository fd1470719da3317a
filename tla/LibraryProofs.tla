---------------------------- MODULE LibraryProofs ---------------------------
(***************************************************************************)
(* Proofs about the containers: the ring buffer (CkFifo), for every size   *)
(* and counter width, the linked lists (LinkedList), for any heads and     *)
(* entries, the blobs of serialization (Serialize), for any finite set of  *)
(* them, the AVL tree (AvlTree), for any keys and height, and the          *)
(* endpoints (Endpoint), for any texts, addresses and ports.               *)
(***************************************************************************)
EXTENDS MCContainers, SequenceTheorems, FiniteSetTheorems, WellFoundedInduction, TLAPS

-----------------------------------------------------------------------------
(* The ring buffer.  Arithmetic on the wrapped counters comes first: which of
   the two or three remainders a sum or a difference has, and that Mask does
   not see a wrap, because the size divides the width. *)
LEMMA SizeBelowWidth == Size \in Nat /\ Width \in Nat /\ 0 < Size /\ 2 * Size <= Width
  BY SizeAssumption, WidthAssumption

LEMMA ModNone ==
  ASSUME NEW a \in Int, 0 <= a, a < Width PROVE a % Width = a
  BY SizeAssumption

LEMMA ModMinus ==
  ASSUME NEW a \in Int, Width <= a, a < 2 * Width PROVE a % Width = a - Width
  BY SizeAssumption

LEMMA ModPlus ==
  ASSUME NEW a \in Int, -Width <= a, a < 0 PROVE a % Width = a + Width
  BY SizeAssumption

LEMMA MaskRange ==
  ASSUME NEW i \in Nat PROVE Mask(i) \in Nat /\ Mask(i) < Size /\ Mask(i) \in Places
  BY SizeAssumption DEF Mask, Places

\* The remainder is the only one in range, and the rest is a multiple of Size.
LEMMA MaskUnique ==
  ASSUME NEW i \in Nat, NEW q \in Int, NEW r \in 0..(Size - 1), i = Size * q + r
  PROVE  Mask(i) = r
<1>1. Size \in Nat /\ Size > 0
  BY SizeAssumption
<1> QED
  BY <1>1, Z3 DEF Mask

LEMMA MaskSplit ==
  ASSUME NEW i \in Nat PROVE \E q \in Int : i = Size * q + Mask(i)
<1>1. Size \in Nat /\ Size > 0
  BY SizeAssumption
<1>2. i = (i \div Size) * Size + (i % Size)
  BY <1>1, Z3
<1>3. i \div Size \in Int /\ (i \div Size) * Size = Size * (i \div Size)
  BY <1>1, Z3
<1> QED
  BY <1>2, <1>3 DEF Mask

LEMMA Distribute ==
  ASSUME NEW a \in Int, NEW b \in Int, NEW c \in Int PROVE a * (b + c) = a * b + a * c
  BY Z3

\* One lap of the buffer at most.
LEMMA MaskStep ==
  ASSUME NEW i \in Nat, NEW j \in Nat, j <= Size
  PROVE  Mask(i + j) = IF Mask(i) + j < Size THEN Mask(i) + j ELSE Mask(i) + j - Size
<1>1. PICK q \in Int : i = Size * q + Mask(i)
  BY MaskSplit
<1>2. Size \in Int /\ Size * q \in Int /\ Mask(i) \in 0..(Size - 1)
  BY MaskRange, SizeAssumption
<1>3. CASE Mask(i) + j < Size
  <2>1. i + j = Size * q + (Mask(i) + j) /\ Mask(i) + j \in 0..(Size - 1)
    BY <1>1, <1>2, <1>3
  <2> QED
    BY <1>3, <2>1, MaskUnique
<1>4. CASE ~(Mask(i) + j < Size)
  <2>1. Size * (q + 1) = Size * q + Size
    BY <1>2, Distribute
  <2>2. i + j = Size * (q + 1) + (Mask(i) + j - Size) /\ Mask(i) + j - Size \in 0..(Size - 1)
    BY <1>1, <1>2, <1>4, <2>1
  <2> QED
    BY <1>4, <2>2, MaskUnique
<1> QED
  BY <1>3, <1>4

LEMMA MaskDistinct ==
  ASSUME NEW i \in Nat, NEW j \in Nat, 0 < j, j < Size PROVE Mask(i + j) # Mask(i)
<1>1. Mask(i + j) = IF Mask(i) + j < Size THEN Mask(i) + j ELSE Mask(i) + j - Size
  <2>1. j <= Size
    BY SizeAssumption
  <2> QED
    BY <2>1, MaskStep
<1>2. Mask(i) \in Nat /\ Size \in Nat
  BY MaskRange, SizeAssumption
<1> QED
  BY <1>1, <1>2

LEMMA MaskWidth ==
  ASSUME NEW i \in Nat PROVE Mask(i + Width) = Mask(i)
<1>1. PICK m \in 2..Width : Width = m * Size
  BY WidthAssumption
<1>2. PICK q \in Int : i = Size * q + Mask(i)
  BY MaskSplit
<1>3. Size \in Int /\ Size * q \in Int /\ Size * m \in Int /\ Mask(i) \in 0..(Size - 1)
  BY MaskRange, SizeAssumption
<1>4. Width = Size * m
  BY <1>1, <1>3, Z3
<1>5. Size * (q + m) = Size * q + Width
  BY <1>3, <1>4, Distribute
<1>6. i + Width \in Nat /\ i + Width = (Size * q + Mask(i)) + Width
  BY <1>2, SizeBelowWidth
<1>7. i + Width = Size * (q + m) + Mask(i)
  BY <1>3, <1>5, <1>6, SizeBelowWidth
<1> QED
  BY <1>3, <1>6, <1>7, MaskUnique

----------------------------------------------------------------------------
(* The distance of the counters. *)

Inv == TypeOK /\ Length <= Size

LEMMA LengthCases ==
  ASSUME TypeOK
  PROVE  /\ Length = IF in >= out THEN in - out ELSE in - out + Width
         /\ Length \in Nat /\ Length < Width
<1>1. in \in Int /\ out \in Int /\ in - out < Width /\ -Width < in - out
  BY SizeBelowWidth DEF TypeOK
<1>2. CASE in >= out
  BY <1>1, <1>2, ModNone DEF Length
<1>3. CASE ~(in >= out)
  BY <1>1, <1>3, ModPlus, SizeBelowWidth DEF Length
<1> QED
  BY <1>2, <1>3

LEMMA RoomIsRest == ASSUME Inv PROVE Room = Size - Length
<1>1. in \in Int /\ out \in Int /\ Length \in Nat /\ Length <= Size
  BY LengthCases DEF Inv, TypeOK
<1>2. CASE in >= out
  <2>1. Size - in + out = Size - Length /\ 0 <= Size - Length /\ Size - Length < Width
    BY <1>1, <1>2, LengthCases, SizeBelowWidth DEF Inv
  <2> QED
    BY <2>1, ModNone, <1>1, SizeBelowWidth DEF Room
<1>3. CASE ~(in >= out)
  <2>1. /\ Size - in + out = Size - Length + Width
        /\ Width <= Size - Length + Width /\ Size - Length + Width < 2 * Width
        /\ Size - Length + Width \in Int
    BY <1>1, <1>3, LengthCases, SizeBelowWidth DEF Inv
  <2> QED
    BY <2>1, ModMinus, <1>1, SizeBelowWidth DEF Room
<1> QED
  BY <1>2, <1>3

\* The difference of two counters, one of which has advanced.
LEMMA AdvanceCases ==
  ASSUME NEW i \in 0..(Width - 1), NEW n \in 0..Size
  PROVE  /\ Advance(i, n) = IF i + n < Width THEN i + n ELSE i + n - Width
         /\ Advance(i, n) \in 0..(Width - 1)
<1>1. CASE i + n < Width
  BY <1>1, ModNone, SizeBelowWidth DEF Advance
<1>2. CASE ~(i + n < Width)
  <2>1. i + n \in Int /\ Width <= i + n /\ i + n < 2 * Width
    BY <1>2, SizeBelowWidth
  <2>2. Advance(i, n) = i + n - Width
    <3>1. (i + n) % Width = (i + n) - Width
      BY <2>1, ModMinus, SizeBelowWidth
    <3> QED
      BY <3>1, SizeBelowWidth DEF Advance
  <2> QED
    BY <1>2, <2>1, <2>2, SizeBelowWidth
<1> QED
  BY <1>1, <1>2

\* The length after a put of n bytes.
LEMMA PutLength ==
  ASSUME Inv, NEW n \in 0..(Size - Length), in' = Advance(in, n), out' = out
  PROVE  /\ in' \in 0..(Width - 1)
         /\ Length' = Length + n
<1>1. /\ in \in 0..(Width - 1) /\ out \in 0..(Width - 1) /\ n \in 0..Size
      /\ Length \in Nat /\ Length + n <= Size
  BY LengthCases, SizeBelowWidth DEF Inv, TypeOK
<1>2. in' = (IF in + n < Width THEN in + n ELSE in + n - Width) /\ in' \in 0..(Width - 1)
  BY <1>1, AdvanceCases
<1>3. Length = IF in >= out THEN in - out ELSE in - out + Width
  BY LengthCases DEF Inv
<1>4. Length' = (in' - out) % Width
  BY DEF Length
<1>5. CASE in' >= out
  <2>1. in' - out = Length + n
    BY <1>1, <1>2, <1>3, <1>5, SizeBelowWidth
  <2> QED
    BY <1>1, <1>2, <1>4, <2>1, ModNone, SizeBelowWidth
<1>6. CASE ~(in' >= out)
  <2>1. in' - out + Width = Length + n
    BY <1>1, <1>2, <1>3, <1>6, SizeBelowWidth
  <2>2. in' - out \in Int /\ -Width <= in' - out /\ in' - out < 0
    BY <1>1, <1>2, <1>6, SizeBelowWidth
  <2> QED
    BY <1>2, <1>4, <2>1, <2>2, ModPlus
<1> QED
  BY <1>5, <1>6

\* The distance after a get of n bytes, before the counters are set back.
LEMMA GetLength ==
  ASSUME Inv, NEW n \in 0..Length
  PROVE  /\ Advance(out, n) \in 0..(Width - 1)
         /\ (in - Advance(out, n)) % Width = Length - n
         /\ in = Advance(out, n) <=> n = Length
<1> DEFINE o == Advance(out, n)
<1>1. /\ in \in 0..(Width - 1) /\ out \in 0..(Width - 1) /\ n \in 0..Size
      /\ Length \in Nat /\ n <= Length /\ Length < Width
  BY LengthCases, SizeBelowWidth DEF Inv, TypeOK
<1>2. o = (IF out + n < Width THEN out + n ELSE out + n - Width) /\ o \in 0..(Width - 1)
  BY <1>1, AdvanceCases
<1>3. Length = IF in >= out THEN in - out ELSE in - out + Width
  BY LengthCases DEF Inv
<1> HIDE DEF o
<1>5. CASE in >= o
  <2>1. in - o = Length - n
    BY <1>1, <1>2, <1>3, <1>5, SizeBelowWidth
  <2>2. (in - o) % Width = in - o
    BY <1>1, <1>2, <1>5, ModNone, SizeBelowWidth
  <2> QED
    BY <1>1, <1>2, <2>1, <2>2 DEF o
<1>6. CASE ~(in >= o)
  <2>1. in - o + Width = Length - n
    BY <1>1, <1>2, <1>3, <1>6, SizeBelowWidth
  <2>2. in - o \in Int /\ -Width <= in - o /\ in - o < 0
    BY <1>1, <1>2, <1>6, SizeBelowWidth
  <2>3. (in - o) % Width = Length - n
    BY <2>1, <2>2, ModPlus
  <2>4. n # Length
    BY <1>1, <1>2, <2>1, <2>2, SizeBelowWidth
  <2> QED
    BY <1>2, <1>6, <2>3, <2>4, <1>1, SizeBelowWidth DEF o
<1> QED
  BY <1>5, <1>6

----------------------------------------------------------------------------
(* What the copies do to the buffer. *)

LEMMA PutMoves ==
  ASSUME Inv, NEW data \in Data
  PROVE  /\ Min2(Len(data), Room) \in 0..(Size - Length)
         /\ Min2(Len(data), Room) <= Len(data)
         /\ Min2(Len(data), Room) = Queue!Least(Len(data), Size - Length)
         /\ Len(data) \in Nat
<1>1. Len(data) \in Nat
  BY DataAssumption
<1>2. Room = Size - Length /\ Length \in Nat /\ Length <= Size
  BY RoomIsRest, LengthCases DEF Inv
<1> QED
  BY <1>1, <1>2, SizeBelowWidth DEF Min2, Queue!Least

LEMMA GetMoves ==
  ASSUME Inv, NEW size \in Sizes
  PROVE  /\ Min2(size, Length) \in 0..Length
         /\ Min2(size, Length) = Queue!Least(size, Length)
<1>1. size \in Nat /\ Length \in Nat
  BY DataAssumption, LengthCases DEF Inv
<1> QED
  BY <1>1 DEF Min2, Queue!Least

\* The j-th byte put lies j - 1 places behind in.
LEMMA CopiedIn ==
  ASSUME NEW i0 \in Nat, i0 = in, NEW n \in 0..Size, NEW data, NEW j \in 1..n
  PROVE  CopyIn(data, n)[Mask(in + (j - 1))] = data[j]
<1>1. /\ Mask(in) \in Nat /\ Mask(in) < Size /\ Size \in Nat
      /\ Mask(in + (j - 1)) \in Places
  BY MaskRange, SizeBelowWidth
<1>2. Mask(in + (j - 1)) = IF Mask(in) + (j - 1) < Size THEN Mask(in) + (j - 1) ELSE Mask(in) + (j - 1) - Size
  BY MaskStep, SizeBelowWidth
<1>3. CASE Mask(in) + (j - 1) < Size
  BY <1>1, <1>2, <1>3 DEF CopyIn, Min2
<1>4. CASE ~(Mask(in) + (j - 1) < Size)
  BY <1>1, <1>2, <1>4 DEF CopyIn, Min2
<1> QED
  BY <1>3, <1>4

\* A place none of the bytes goes to keeps what it had.
LEMMA KeptByCopy ==
  ASSUME NEW i0 \in Nat, i0 = in, NEW n \in 0..Size, NEW data, NEW p \in Places,
         \A j \in 1..n : Mask(in + (j - 1)) # p
  PROVE  CopyIn(data, n)[p] = buffer[p]
<1>1. /\ Mask(in) \in Nat /\ Mask(in) < Size /\ Size \in Nat /\ p \in 0..(Size - 1)
  BY MaskRange, SizeBelowWidth DEF Places
<1>2. ASSUME p >= Mask(in), p < Mask(in) + Min2(n, Size - Mask(in)) PROVE FALSE
  <2>1. p - Mask(in) + 1 \in 1..n
    BY <1>1, <1>2 DEF Min2
  <2>2. Mask(in + ((p - Mask(in) + 1) - 1)) = p
    BY <1>1, <1>2, <2>1, MaskStep DEF Min2
  <2> QED
    BY <2>1, <2>2
<1>3. ASSUME p < n - Min2(n, Size - Mask(in)) PROVE FALSE
  <2>1. Size - Mask(in) + p + 1 \in 1..n
    BY <1>1, <1>3 DEF Min2
  <2>2. Mask(in + ((Size - Mask(in) + p + 1) - 1)) = p
    <3>1. PICK d \in Nat : d = Size - Mask(in) + p /\ d <= Size
      BY <1>1, <1>3 DEF Min2
    <3>2. ~(Mask(in) + d < Size) /\ Mask(in) + d - Size = p
      BY <1>1, <3>1
    <3>3. Mask(in + d) = p
      BY <3>1, <3>2, MaskStep
    <3> QED
      BY <1>1, <3>1, <3>3
  <2> QED
    BY <2>1, <2>2
<1> QED
  BY <1>2, <1>3 DEF CopyIn

\* The k-th byte got lies k - 1 places behind out.
LEMMA CopiedOut ==
  ASSUME NEW o0 \in Nat, o0 = out, NEW n \in 0..Size, NEW k \in 1..n
  PROVE  CopyOut(n)[k] = buffer[Mask(out + (k - 1))]
<1>1. Mask(out) \in Nat /\ Mask(out) < Size /\ Size \in Nat
  BY MaskRange, SizeBelowWidth
<1>2. Mask(out + (k - 1)) = IF Mask(out) + (k - 1) < Size THEN Mask(out) + (k - 1) ELSE Mask(out) + (k - 1) - Size
  BY MaskStep, SizeBelowWidth
<1>3. CASE Mask(out) + (k - 1) < Size
  BY <1>1, <1>2, <1>3 DEF CopyOut, Min2
<1>4. CASE ~(Mask(out) + (k - 1) < Size)
  BY <1>1, <1>2, <1>4 DEF CopyOut, Min2
<1> QED
  BY <1>3, <1>4

----------------------------------------------------------------------------
(* The invariant: the counters stay in range and never more than Size apart. *)

LEMMA InvInit == Init => Inv
<1> SUFFICES ASSUME Init PROVE Inv
  OBVIOUS
<1>1. in = 0 /\ out = 0 /\ buffer \in [Places -> Bytes]
  BY DEF Init
<1>2. TypeOK
  BY <1>1, SizeBelowWidth DEF TypeOK
<1>3. Length = 0
  BY <1>1, <1>2, LengthCases, SizeBelowWidth
<1> QED
  BY <1>2, <1>3, SizeBelowWidth DEF Inv

LEMMA CopyInType ==
  ASSUME Inv, NEW data \in Data, NEW n \in 0..Size, n <= Len(data)
  PROVE  CopyIn(data, n) \in [Places -> Bytes]
<1>0. in \in Nat
  BY SizeBelowWidth DEF Inv, TypeOK
<1>1. /\ Mask(in) \in Nat /\ Mask(in) < Size /\ Size \in Nat
      /\ Len(data) \in Nat /\ \A i \in 1..Len(data) : data[i] \in Bytes
  <2>1. data \in Seq(Bytes)
    BY DataAssumption
  <2>2. Mask(in) \in Nat /\ Mask(in) < Size /\ Size \in Nat
    BY <1>0, MaskRange, SizeBelowWidth
  <2>3. Len(data) \in Nat /\ \A i \in 1..Len(data) : data[i] \in Bytes
    BY <2>1
  <2> QED
    BY <2>2, <2>3
<1>2. ASSUME NEW i \in Places PROVE CopyIn(data, n)[i] \in Bytes
  <2>1. i \in 0..(Size - 1) /\ buffer[i] \in Bytes
    BY DEF Inv, TypeOK, Places
  <2>2. CASE i >= Mask(in) /\ i < Mask(in) + Min2(n, Size - Mask(in))
    <3>0. ~(i < n - Min2(n, Size - Mask(in)))
      BY <1>1, <2>1, <2>2 DEF Min2
    <3>1. CopyIn(data, n)[i] = data[i - Mask(in) + 1]
      BY <2>2, <3>0 DEF CopyIn
    <3>2. i - Mask(in) + 1 \in 1..Len(data)
      BY <1>1, <2>1, <2>2 DEF Min2
    <3> QED
      BY <1>1, <3>1, <3>2
  <2>3. CASE ~(i >= Mask(in) /\ i < Mask(in) + Min2(n, Size - Mask(in))) /\ i < n - Min2(n, Size - Mask(in))
    <3>1. CopyIn(data, n)[i] = data[Min2(n, Size - Mask(in)) + i + 1]
      BY <2>3 DEF CopyIn
    <3>2. Min2(n, Size - Mask(in)) + i + 1 \in 1..Len(data)
      BY <1>1, <2>1, <2>3 DEF Min2
    <3> QED
      BY <1>1, <3>1, <3>2
  <2>4. CASE ~(i >= Mask(in) /\ i < Mask(in) + Min2(n, Size - Mask(in))) /\ ~(i < n - Min2(n, Size - Mask(in)))
    <3>1. CopyIn(data, n)[i] = buffer[i]
      BY <2>4 DEF CopyIn
    <3> QED
      BY <2>1, <3>1
  <2> QED
    BY <2>2, <2>3, <2>4
<1> QED
  BY <1>2 DEF CopyIn

LEMMA InvStep == Inv /\ [Next]_vars => Inv'
<1> SUFFICES ASSUME Inv, [Next]_vars PROVE Inv'
  OBVIOUS
<1>1. ASSUME NEW data \in Data, Put(data) PROVE Inv'
  <2>1. PICK n \in 0..(Size - Length) :
           n <= Len(data) /\ in' = Advance(in, n) /\ out' = out /\ buffer' = CopyIn(data, n)
    BY <1>1, PutMoves DEF Put
  <2>2. n \in 0..Size /\ Length + n <= Size
    BY LengthCases, SizeBelowWidth DEF Inv
  <2>3. buffer' \in [Places -> Bytes]
    BY <2>1, <2>2, CopyInType
  <2>4. in' \in 0..(Width - 1) /\ Length' = Length + n
    BY <2>1, PutLength
  <2> QED
    BY <2>1, <2>2, <2>3, <2>4 DEF Inv, TypeOK
<1>2. ASSUME NEW size \in Sizes, Get(size) PROVE Inv'
  <2>1. PICK n \in 0..Length :
           in' = Reset(Advance(out, n))[1] /\ out' = Reset(Advance(out, n))[2] /\ buffer' = buffer
    BY <1>2, GetMoves DEF Get
  <2>2. /\ Advance(out, n) \in 0..(Width - 1)
        /\ (in - Advance(out, n)) % Width = Length - n
    BY GetLength
  <2>3. CASE in = Advance(out, n)
    <3>1. in' = 0 /\ out' = 0
      BY <2>1, <2>3 DEF Reset
    <3>2. TypeOK'
      BY <2>1, <3>1, SizeBelowWidth DEF Inv, TypeOK
    <3>3. Length' = 0
      BY <3>1, ModNone, SizeBelowWidth DEF Length
    <3> QED
      BY <3>2, <3>3, SizeBelowWidth DEF Inv
  <2>4. CASE in # Advance(out, n)
    <3>1. in' = in /\ out' = Advance(out, n)
      BY <2>1, <2>4 DEF Reset
    <3>2. TypeOK'
      BY <2>1, <2>2, <3>1 DEF Inv, TypeOK
    <3>3. Length' = Length - n
      BY <2>2, <3>1 DEF Length
    <3> QED
      BY <3>2, <3>3, LengthCases, SizeBelowWidth DEF Inv
  <2> QED
    BY <2>3, <2>4
<1>3. CASE UNCHANGED vars
  BY <1>3 DEF vars, Inv, TypeOK, Length
<1> QED
  BY <1>1, <1>2, <1>3 DEF Next

(* The counters and the bytes keep their types. *)
THEOREM BufferTypeCorrect == Spec => []TypeOK
<1>1. Inv => TypeOK
  BY DEF Inv
<1> QED
  BY <1>1, InvInit, InvStep, PTL DEF Spec

(* The buffer never holds more than its size, and the room a put sees is what
   is left of it, on either side of a wrap of the counters. *)
THEOREM NeverOverfullHolds == Spec => []NeverOverfull
<1>1. Inv => NeverOverfull
  BY RoomIsRest DEF Inv, NeverOverfull
<1> QED
  BY <1>1, InvInit, InvStep, PTL DEF Spec

----------------------------------------------------------------------------
(* The refinement: Contents goes through the steps of a bounded queue. *)

ContentsFact ==
  /\ Contents \in Seq(Bytes) /\ Len(Contents) = Length
  /\ \A k \in 1..Length : Contents[k] = buffer[Mask(out + (k - 1))]

LEMMA ContentsSeq == Inv => ContentsFact
<1> SUFFICES ASSUME Inv PROVE ContentsFact
  OBVIOUS
<1>1. Length \in Nat /\ out \in Nat
  BY LengthCases, SizeBelowWidth DEF Inv, TypeOK
<1>2. ASSUME NEW k \in 1..Length PROVE out + k - 1 = out + (k - 1) /\ buffer[Mask(out + (k - 1))] \in Bytes
  <2>1. out + (k - 1) \in Nat /\ out + k - 1 = out + (k - 1)
    BY <1>1
  <2> QED
    BY <2>1, MaskRange DEF Inv, TypeOK
<1>3. Contents = [k \in 1..Length |-> buffer[Mask(out + (k - 1))]]
  BY <1>2 DEF Contents
<1> QED
  BY <1>1, <1>2, <1>3 DEF ContentsFact

\* in is Length places behind out, up to a wrap that Mask does not see.
LEMMA BehindOut ==
  ASSUME Inv, NEW j \in Nat
  PROVE  Mask(in + j) = Mask(out + Length + j)
<1>1. in \in Nat /\ out \in Nat /\ Length \in Nat
  BY LengthCases, SizeBelowWidth DEF Inv, TypeOK
<1>2. out + Length = in \/ out + Length = in + Width
  BY <1>1, LengthCases, SizeBelowWidth DEF Inv
<1>3. Mask((in + j) + Width) = Mask(in + j)
  BY <1>1, MaskWidth
<1>4. (in + Width) + j = (in + j) + Width
  BY <1>1, SizeBelowWidth
<1> QED
  BY <1>2, <1>3, <1>4

LEMMA PutRefines ==
  ASSUME Inv, Inv', NEW data \in Data, Put(data)
  PROVE  Queue!Put(data)
<1> DEFINE n == Min2(Len(data), Room)
           added == SubSeq(data, 1, n)
<1>1. /\ n \in 0..(Size - Length) /\ n <= Len(data)
      /\ n = Queue!Least(Len(data), Size - Length) /\ Len(data) \in Nat
  BY PutMoves
<1>2. /\ in' = Advance(in, n) /\ out' = out /\ buffer' = CopyIn(data, n)
      /\ last' = <<"put", data, <<n>> >>
  BY DEF Put
<1> HIDE DEF n
<1>3. in \in Nat /\ out \in Nat /\ Length \in Nat /\ n \in 0..Size /\ Length + n <= Size /\ data \in Seq(Bytes)
  BY <1>1, LengthCases, SizeBelowWidth, DataAssumption DEF Inv, TypeOK
<1>4. Length' = Length + n
  BY <1>1, <1>2, PutLength
<1>5. added \in Seq(Bytes) /\ Len(added) = n /\ \A j \in 1..n : added[j] = data[j]
  BY <1>1, <1>3
<1>6. /\ Contents \in Seq(Bytes) /\ Len(Contents) = Length
      /\ \A k \in 1..Length : Contents[k] = buffer[Mask(out + (k - 1))]
  BY ContentsSeq DEF ContentsFact
<1>7a. Inv' => ContentsFact'
  BY ContentsSeq, PTL
<1>7. /\ Contents' \in Seq(Bytes) /\ Len(Contents') = Length + n
      /\ \A k \in 1..(Length + n) : Contents'[k] = buffer'[Mask(out + (k - 1))]
  BY <1>2, <1>4, <1>7a DEF ContentsFact
<1> HIDE DEF added
<1>8. ASSUME NEW k \in 1..(Length + n) PROVE Contents'[k] = (Contents \o added)[k]
  <2>1. CASE k <= Length
    <3>1. ASSUME NEW j \in 1..n PROVE Mask(in + (j - 1)) # Mask(out + (k - 1))
      <4>1. PICK d \in Nat : d = Length + j - k /\ 0 < d /\ d < Size
        BY <1>3, <2>1, SizeBelowWidth
      <4>2. Mask(in + (j - 1)) = Mask(out + Length + (j - 1))
        <5>1. PICK i \in Nat : i = j - 1
          OBVIOUS
        <5> QED
          BY <5>1, BehindOut
      <4>3. out + Length + (j - 1) = (out + (k - 1)) + d /\ out + (k - 1) \in Nat
        BY <1>3, <4>1
      <4> QED
        BY <4>1, <4>2, <4>3, MaskDistinct
    <3>2. Mask(out + (k - 1)) \in Places
      BY <1>3, MaskRange
    <3>3. buffer'[Mask(out + (k - 1))] = buffer[Mask(out + (k - 1))]
      BY <1>2, <1>3, <3>1, <3>2, KeptByCopy
    <3> QED
      BY <1>5, <1>6, <1>7, <2>1, <3>3
  <2>2. CASE k > Length
    <3>1. PICK j \in 1..n : k = Length + j
      BY <1>3, <2>2
    <3>2. Mask(in + (j - 1)) = Mask(out + Length + (j - 1))
      <4>1. PICK i \in Nat : i = j - 1
        OBVIOUS
      <4> QED
        BY <4>1, BehindOut
    <3>3. out + Length + (j - 1) = out + (k - 1)
      BY <1>3, <3>1
    <3>4. buffer'[Mask(in + (j - 1))] = data[j]
      BY <1>2, <1>3, CopiedIn
    <3>5. (Contents \o added)[k] = added[j]
      BY <1>5, <1>6, <3>1, <1>3
    <3> QED
      BY <1>5, <1>7, <3>2, <3>3, <3>4, <3>5
  <2>3. k <= Length \/ k > Length
    BY <1>3
  <2> QED
    BY <2>1, <2>2, <2>3
<1>9. Contents \o added \in Seq(Bytes) /\ Len(Contents \o added) = Length + n
  BY <1>5, <1>6, ConcatProperties
<1>10. Contents' = Contents \o added
  BY <1>7, <1>8, <1>9, SeqEqual
<1> QED
  BY <1>1, <1>2, <1>6, <1>10 DEF Queue!Put, added

LEMMA GetRefines ==
  ASSUME Inv, Inv', NEW size \in Sizes, Get(size)
  PROVE  Queue!Get(size)
<1> DEFINE n == Min2(size, Length)
           o == Advance(out, n)
<1>1. n \in 0..Length /\ n = Queue!Least(size, Length)
  BY GetMoves
<1>2. /\ in' = Reset(o)[1] /\ out' = Reset(o)[2] /\ buffer' = buffer
      /\ last' = <<"get", <<size>>, CopyOut(n)>>
  BY DEF Get
<1> HIDE DEF n
<1>3. in \in Nat /\ out \in Nat /\ Length \in Nat /\ Length <= Size /\ n \in Nat /\ n \in 0..Size /\ n <= Length
  BY <1>1, LengthCases, SizeBelowWidth DEF Inv, TypeOK
<1>4. /\ o \in Nat /\ (in - o) % Width = Length - n
      /\ in = o <=> n = Length
  BY <1>1, GetLength, SizeBelowWidth
<1>5. o = out + n \/ o + Width = out + n
  BY <1>3, AdvanceCases, SizeBelowWidth DEF Inv, TypeOK
<1> HIDE DEF o
<1>6. /\ Contents \in Seq(Bytes) /\ Len(Contents) = Length
      /\ \A k \in 1..Length : Contents[k] = buffer[Mask(out + (k - 1))]
  BY ContentsSeq DEF ContentsFact
<1>7. ContentsFact'
  BY ContentsSeq, PTL
<1>8. CopyOut(n) = SubSeq(Contents, 1, n)
  <2>1. CopyOut(n) = [k \in 1..n |-> CopyOut(n)[k]]
    BY DEF CopyOut
  <2>2. SubSeq(Contents, 1, n) = [k \in 1..n |-> Contents[k]]
    BY <1>3, <1>6
  <2>3. ASSUME NEW k \in 1..n PROVE CopyOut(n)[k] = Contents[k]
    <3>1. k \in 1..Length
      BY <1>3
    <3>2. CopyOut(n)[k] = buffer[Mask(out + (k - 1))]
      BY <1>3, CopiedOut
    <3> QED
      BY <1>6, <3>1, <3>2
  <2> QED
    BY <2>1, <2>2, <2>3
<1>9. Contents' = SubSeq(Contents, n + 1, Len(Contents))
  <2>1. Length' = Length - n
    <3>1. CASE in = o
      <4>1. in' = 0 /\ out' = 0
        BY <1>2, <3>1 DEF Reset
      <4>2. Length' = 0
        BY <4>1, ModNone, SizeBelowWidth DEF Length
      <4> QED
        BY <1>3, <1>4, <3>1, <4>2
    <3>2. CASE in # o
      <4>1. in' = in /\ out' = o
        BY <1>2, <3>2 DEF Reset
      <4> QED
        BY <1>4, <4>1 DEF Length
    <3> QED
      BY <3>1, <3>2
  <2>2. /\ Contents' \in Seq(Bytes) /\ Len(Contents') = Length - n
        /\ \A k \in 1..(Length - n) : Contents'[k] = buffer[Mask(out' + (k - 1))]
    BY <1>2, <1>7, <2>1 DEF ContentsFact
  <2>3. /\ SubSeq(Contents, n + 1, Length) \in Seq(Bytes)
        /\ Len(SubSeq(Contents, n + 1, Length)) = Length - n
        /\ \A k \in 1..(Length - n) : SubSeq(Contents, n + 1, Length)[k] = Contents[n + k]
    BY <1>3, <1>6
  <2>4. ASSUME NEW k \in 1..(Length - n) PROVE Contents'[k] = Contents[n + k]
    <3>1. in # o /\ out' = o
      BY <1>2, <1>3, <1>4 DEF Reset
    <3>2. Mask(o + (k - 1)) = Mask(out + (n + k - 1))
      <4>1. PICK i \in Nat : i = o + (k - 1)
        BY <1>3, <1>4
      <4>2. out + (n + k - 1) = i \/ out + (n + k - 1) = i + Width
        BY <1>3, <1>4, <1>5, <4>1, SizeBelowWidth
      <4>3. Mask(i + Width) = Mask(i)
        BY MaskWidth
      <4> QED
        BY <4>1, <4>2, <4>3
    <3>3. n + k \in 1..Length
      BY <1>3
    <3>4. Contents[n + k] = buffer[Mask(out + (n + k - 1))]
      <4>1. PICK m \in 1..Length : m = n + k
        BY <3>3
      <4>2. Contents[m] = buffer[Mask(out + (m - 1))]
        BY <1>6
      <4>3. n + k - 1 = m - 1
        BY <1>3, <4>1
      <4> QED
        BY <4>1, <4>2, <4>3
    <3>5. Contents'[k] = buffer[Mask(o + (k - 1))]
      BY <1>2, <2>2, <3>1
    <3> QED
      BY <3>2, <3>4, <3>5
  <2> QED
    BY <1>6, <2>2, <2>3, <2>4, SeqEqual
<1> QED
  BY <1>1, <1>2, <1>6, <1>8, <1>9 DEF Queue!Get

(* The ring buffer implements the bounded queue: through any wrap of the
   buffer or of the counters, bytes come out once each, in order, and exactly
   those that were accepted. *)
THEOREM BufferRefinement == Spec => ImplementsQueue
<1>1. Init => Queue!Init
  <2> SUFFICES ASSUME Init PROVE Contents = <<>> /\ last = <<>>
    BY DEF Queue!Init
  <2>1. ContentsFact
    BY InvInit, ContentsSeq
  <2>2. Length = 0
    BY ModNone, SizeBelowWidth DEF Init, Length
  <2> QED
    BY <2>1, <2>2 DEF Init, ContentsFact
<1>2. Inv /\ Inv' /\ [Next]_vars => [Queue!Next]_(Queue!vars)
  <2> SUFFICES ASSUME Inv, Inv', [Next]_vars PROVE Queue!Next \/ UNCHANGED Queue!vars
    OBVIOUS
  <2>1. ASSUME NEW data \in Data, Put(data) PROVE Queue!Next
    BY <2>1, PutRefines DEF Queue!Next
  <2>2. ASSUME NEW size \in Sizes, Get(size) PROVE Queue!Next
    BY <2>2, GetRefines DEF Queue!Next
  <2>3. CASE UNCHANGED vars
    BY <2>3 DEF vars, Queue!vars, Contents, Length
  <2> QED
    BY <2>1, <2>2, <2>3 DEF Next
<1> QED
  BY <1>1, <1>2, InvInit, InvStep, PTL DEF Spec, ImplementsQueue, Queue!Spec

-----------------------------------------------------------------------------
(* Sequences of nodes. *)
Runs == Seq(Lists!Nodes)

Over(s) == {s[i] : i \in 1..Len(s)}
FirstOf(s) == s[1]
LastOf(s) == s[Len(s)]
Distinct(s) == \A i, j \in 1..Len(s) : s[i] = s[j] => i = j

LEMMA RunsHaveEnds ==
  ASSUME NEW s \in Runs
  PROVE  /\ Len(s) \in Nat /\ Over(s) \subseteq Lists!Nodes
         /\ s # <<>> => /\ Len(s) >= 1 /\ 1 \in 1..Len(s) /\ Len(s) \in 1..Len(s)
                        /\ FirstOf(s) \in Over(s) /\ LastOf(s) \in Over(s)
                        /\ FirstOf(s) \in Lists!Nodes /\ LastOf(s) \in Lists!Nodes
         /\ s = <<>> => Len(s) = 0 /\ Over(s) = {}
<1>1. Len(s) \in Nat /\ Over(s) \subseteq Lists!Nodes
  BY ElementOfSeq DEF Runs, Over
<1>2. ASSUME s # <<>> PROVE Len(s) >= 1 /\ 1 \in 1..Len(s) /\ Len(s) \in 1..Len(s)
  BY <1>2, EmptySeq DEF Runs
<1>3. s = <<>> => Len(s) = 0 /\ Over(s) = {}
  BY DEF Over
<1> QED
  BY <1>1, <1>2, <1>3 DEF Over, FirstOf, LastOf

LEMMA Single ==
  ASSUME NEW x \in Lists!Nodes
  PROVE  /\ <<x>> \in Runs /\ <<x>> # <<>> /\ Over(<<x>>) = {x} /\ Distinct(<<x>>)
         /\ FirstOf(<<x>>) = x /\ LastOf(<<x>>) = x /\ Len(<<x>>) = 1
BY DEF Runs, Over, Distinct, FirstOf, LastOf

(* The places of two runs, one after the other. *)
LEMMA Places2 ==
  ASSUME NEW a \in Runs, NEW b \in Runs
  PROVE  /\ a \o b \in Runs /\ Len(a \o b) = Len(a) + Len(b)
         /\ \A i \in 1..Len(a) : i \in 1..Len(a) + Len(b) /\ (a \o b)[i] = a[i]
         /\ \A j \in 1..Len(b) : Len(a) + j \in 1..Len(a) + Len(b) /\ (a \o b)[Len(a) + j] = b[j]
         /\ \A k \in 1..Len(a) + Len(b) : k \in 1..Len(a) \/ (k - Len(a) \in 1..Len(b) /\ Len(a) + (k - Len(a)) = k)
<1>1. Len(a) \in Nat /\ Len(b) \in Nat
  BY RunsHaveEnds
<1>2. /\ a \o b \in Runs /\ Len(a \o b) = Len(a) + Len(b)
      /\ \A i \in 1..Len(a) + Len(b) : (a \o b)[i] = IF i <= Len(a) THEN a[i] ELSE b[i - Len(a)]
  BY ConcatProperties DEF Runs
<1>3. \A i \in 1..Len(a) : i \in 1..Len(a) + Len(b) /\ i <= Len(a)
  BY <1>1
<1>4. \A j \in 1..Len(b) : Len(a) + j \in 1..Len(a) + Len(b) /\ ~(Len(a) + j <= Len(a)) /\ (Len(a) + j) - Len(a) = j
  BY <1>1
<1>5. \A k \in 1..Len(a) + Len(b) : k \in 1..Len(a) \/ (k - Len(a) \in 1..Len(b) /\ Len(a) + (k - Len(a)) = k)
  BY <1>1
<1> QED
  BY <1>2, <1>3, <1>4, <1>5

LEMMA Joined ==
  ASSUME NEW a \in Runs, NEW b \in Runs
  PROVE  /\ a \o b \in Runs /\ Over(a \o b) = Over(a) \cup Over(b)
         /\ a \o b = <<>> <=> a = <<>> /\ b = <<>>
         /\ a # <<>> => FirstOf(a \o b) = FirstOf(a)
         /\ b # <<>> => LastOf(a \o b) = LastOf(b)
         /\ a \o <<>> = a /\ <<>> \o a = a
<1>1. /\ a \o b \in Runs /\ Len(a \o b) = Len(a) + Len(b)
      /\ \A i \in 1..Len(a) : i \in 1..Len(a) + Len(b) /\ (a \o b)[i] = a[i]
      /\ \A j \in 1..Len(b) : Len(a) + j \in 1..Len(a) + Len(b) /\ (a \o b)[Len(a) + j] = b[j]
      /\ \A k \in 1..Len(a) + Len(b) : k \in 1..Len(a) \/ (k - Len(a) \in 1..Len(b) /\ Len(a) + (k - Len(a)) = k)
  BY Places2
<1>2. Over(a \o b) = Over(a) \cup Over(b)
  BY <1>1 DEF Over
<1>3. a \o b = <<>> <=> a = <<>> /\ b = <<>>
  BY ConcatEqualIffEmpty DEF Runs
<1>4. a # <<>> => FirstOf(a \o b) = FirstOf(a)
  BY <1>1, RunsHaveEnds DEF FirstOf
<1>5. b # <<>> => LastOf(a \o b) = LastOf(b)
  BY <1>1, RunsHaveEnds DEF LastOf
<1>6. a \o <<>> = a /\ <<>> \o a = a
  BY ConcatEmptySeq DEF Runs
<1> QED
  BY <1>1, <1>2, <1>3, <1>4, <1>5, <1>6

LEMMA JoinedThrice ==
  ASSUME NEW a \in Runs, NEW b \in Runs, NEW c \in Runs PROVE (a \o b) \o c = a \o (b \o c)
BY ConcatAssociative DEF Runs

LEMMA DistinctJoined ==
  ASSUME NEW a \in Runs, NEW b \in Runs
  PROVE  Distinct(a \o b) <=> Distinct(a) /\ Distinct(b) /\ Over(a) \cap Over(b) = {}
<1>0. Len(a) \in Nat /\ Len(b) \in Nat
  BY RunsHaveEnds
<1>1. /\ Len(a \o b) = Len(a) + Len(b)
      /\ \A i \in 1..Len(a) : i \in 1..Len(a) + Len(b) /\ (a \o b)[i] = a[i]
      /\ \A j \in 1..Len(b) : Len(a) + j \in 1..Len(a) + Len(b) /\ (a \o b)[Len(a) + j] = b[j]
      /\ \A k \in 1..Len(a) + Len(b) : k \in 1..Len(a) \/ (k - Len(a) \in 1..Len(b) /\ Len(a) + (k - Len(a)) = k)
  BY Places2
<1>2. ASSUME Distinct(a \o b) PROVE Distinct(a)
  BY <1>1, <1>2 DEF Distinct
<1>3. ASSUME Distinct(a \o b) PROVE Distinct(b)
  <2> SUFFICES ASSUME NEW i \in 1..Len(b), NEW j \in 1..Len(b), b[i] = b[j] PROVE i = j
    BY DEF Distinct
  <2>1. Len(a) + i = Len(a) + j
    BY <1>1, <1>3 DEF Distinct
  <2> QED
    BY <1>0, <2>1
<1>4. ASSUME Distinct(a \o b) PROVE Over(a) \cap Over(b) = {}
  <2> SUFFICES ASSUME NEW i \in 1..Len(a), NEW j \in 1..Len(b), a[i] = b[j] PROVE FALSE
    BY DEF Over
  <2>1. i = Len(a) + j
    BY <1>1, <1>4 DEF Distinct
  <2> QED
    BY <1>0, <2>1
<1>5. ASSUME Distinct(a), Distinct(b), Over(a) \cap Over(b) = {} PROVE Distinct(a \o b)
  <2> SUFFICES ASSUME NEW k \in 1..Len(a) + Len(b), NEW l \in 1..Len(a) + Len(b), (a \o b)[k] = (a \o b)[l]
               PROVE  k = l
    BY <1>1 DEF Distinct
  <2>1. CASE k \in 1..Len(a) /\ l \in 1..Len(a)
    BY <1>1, <1>5, <2>1 DEF Distinct
  <2>2. CASE k \in 1..Len(a) /\ l - Len(a) \in 1..Len(b) /\ Len(a) + (l - Len(a)) = l
    <3>1. a[k] = b[l - Len(a)]
      BY <1>1, <2>2
    <3> QED
      BY <1>5, <2>2, <3>1 DEF Over
  <2>3. CASE l \in 1..Len(a) /\ k - Len(a) \in 1..Len(b) /\ Len(a) + (k - Len(a)) = k
    <3>1. a[l] = b[k - Len(a)]
      BY <1>1, <2>3
    <3> QED
      BY <1>5, <2>3, <3>1 DEF Over
  <2>4. CASE /\ k - Len(a) \in 1..Len(b) /\ Len(a) + (k - Len(a)) = k
             /\ l - Len(a) \in 1..Len(b) /\ Len(a) + (l - Len(a)) = l
    <3>1. b[k - Len(a)] = b[l - Len(a)]
      BY <1>1, <2>4
    <3>2. k - Len(a) = l - Len(a)
      BY <1>5, <2>4, <3>1 DEF Distinct
    <3> QED
      BY <2>4, <3>2
  <2> QED
    BY <1>1, <2>1, <2>2, <2>3, <2>4
<1> QED
  BY <1>2, <1>3, <1>4, <1>5

-----------------------------------------------------------------------------
(* Rings of nodes. *)
Links == [Lists!Nodes -> [next : Lists!Nodes, prev : Lists!Nodes]]

Elsewhere(m, w, changed) == \A n \in Lists!Nodes \ changed : w[n] = m[n]
Joint(m, x, y) == m[x].next = y /\ m[y].prev = x
Linked(m, s) == \A i \in 1..Len(s) - 1 : Joint(m, s[i], s[i + 1])
Cycle(m, c) == c # <<>> /\ Linked(m, c) /\ Joint(m, LastOf(c), FirstOf(c))

LEMMA LinkedJoined ==
  ASSUME NEW m, NEW a \in Runs, NEW b \in Runs
  PROVE  Linked(m, a \o b) <=>
           Linked(m, a) /\ Linked(m, b) /\ (a # <<>> /\ b # <<>> => Joint(m, LastOf(a), FirstOf(b)))
<1>0. Len(a) \in Nat /\ Len(b) \in Nat /\ (a = <<>> => Len(a) = 0) /\ (b = <<>> => Len(b) = 0)
      /\ (a # <<>> => Len(a) >= 1) /\ (b # <<>> => Len(b) >= 1)
  BY RunsHaveEnds
<1>1. /\ Len(a \o b) = Len(a) + Len(b)
      /\ \A i \in 1..Len(a) : (a \o b)[i] = a[i]
      /\ \A j \in 1..Len(b) : (a \o b)[Len(a) + j] = b[j]
  BY Places2
<1>2. \A i \in 1..Len(a) - 1 : i \in 1..Len(a) /\ i + 1 \in 1..Len(a) /\ i \in 1..Len(a) + Len(b) - 1
  BY <1>0
<1>3. \A j \in 1..Len(b) - 1 : /\ j \in 1..Len(b) /\ j + 1 \in 1..Len(b) /\ Len(a) + j \in 1..Len(a) + Len(b) - 1
                               /\ (Len(a) + j) + 1 = Len(a) + (j + 1)
  BY <1>0
<1>4. ASSUME Linked(m, a \o b) PROVE Linked(m, a)
  BY <1>1, <1>2, <1>4 DEF Linked
<1>5. ASSUME Linked(m, a \o b) PROVE Linked(m, b)
  <2> SUFFICES ASSUME NEW j \in 1..Len(b) - 1 PROVE Joint(m, b[j], b[j + 1])
    BY DEF Linked
  <2>1. Joint(m, (a \o b)[Len(a) + j], (a \o b)[(Len(a) + j) + 1])
    <3>1. Len(a) + j \in 1..Len(a \o b) - 1
      BY <1>1, <1>3
    <3> QED
      BY <1>5, <3>1 DEF Linked
  <2> QED
    BY <1>1, <1>3, <2>1
<1>6. ASSUME a # <<>>, b # <<>>
      PROVE  /\ Len(a) \in 1..Len(a) + Len(b) - 1
             /\ (a \o b)[Len(a)] = LastOf(a) /\ (a \o b)[Len(a) + 1] = FirstOf(b)
  <2>1. Len(a) \in 1..Len(a) + Len(b) - 1 /\ Len(a) \in 1..Len(a) /\ 1 \in 1..Len(b)
    BY <1>0, <1>6
  <2> QED
    BY <1>1, <2>1 DEF LastOf, FirstOf
<1>7. ASSUME Linked(m, a \o b), a # <<>>, b # <<>> PROVE Joint(m, LastOf(a), FirstOf(b))
  BY <1>1, <1>6, <1>7 DEF Linked
<1>8. ASSUME Linked(m, a), Linked(m, b), a # <<>> /\ b # <<>> => Joint(m, LastOf(a), FirstOf(b))
      PROVE  Linked(m, a \o b)
  <2> SUFFICES ASSUME NEW k \in 1..Len(a) + Len(b) - 1 PROVE Joint(m, (a \o b)[k], (a \o b)[k + 1])
    BY <1>1 DEF Linked
  <2>1. CASE k \in 1..Len(a) - 1
    BY <1>1, <1>2, <1>8, <2>1 DEF Linked
  <2>2. CASE k = Len(a) /\ a # <<>> /\ b # <<>>
    BY <1>6, <1>8, <2>2
  <2>3. CASE k - Len(a) \in 1..Len(b) - 1 /\ Len(a) + (k - Len(a)) = k
    <3>1. Joint(m, b[k - Len(a)], b[(k - Len(a)) + 1])
      BY <1>8, <2>3 DEF Linked
    <3>2. (a \o b)[k] = b[k - Len(a)] /\ (a \o b)[k + 1] = b[(k - Len(a)) + 1]
      <4>1. k - Len(a) \in 1..Len(b) /\ (k - Len(a)) + 1 \in 1..Len(b) /\ Len(a) + ((k - Len(a)) + 1) = k + 1
        BY <1>0, <2>3
      <4> QED
        BY <1>1, <2>3, <4>1
    <3> QED
      BY <3>1, <3>2
  <2>4. k \in 1..Len(a) - 1 \/ (k = Len(a) /\ Len(a) # 0 /\ Len(b) # 0) \/ (k - Len(a) \in 1..Len(b) - 1 /\ Len(a) + (k - Len(a)) = k)
    BY <1>0
  <2> QED
    BY <1>0, <2>1, <2>2, <2>3, <2>4
<1> QED
  BY <1>4, <1>5, <1>7, <1>8

LEMMA SingleLinked == ASSUME NEW m, NEW x \in Lists!Nodes PROVE Linked(m, <<x>>)
BY Single DEF Linked

(* Stores elsewhere, or at the outer pointers of the ends, leave a run linked. *)
LEMMA StaysLinked ==
  ASSUME NEW m, NEW w, NEW s \in Runs, Distinct(s), Linked(m, s),
         \A x \in Over(s) : (x = LastOf(s) \/ w[x].next = m[x].next) /\ (x = FirstOf(s) \/ w[x].prev = m[x].prev)
  PROVE  Linked(w, s)
<1>1. Len(s) \in Nat
  BY RunsHaveEnds
<1> SUFFICES ASSUME NEW i \in 1..Len(s) - 1 PROVE Joint(w, s[i], s[i + 1])
  BY DEF Linked
<1>2. i \in 1..Len(s) /\ i + 1 \in 1..Len(s) /\ i # Len(s) /\ i + 1 # 1 /\ Len(s) \in 1..Len(s) /\ 1 \in 1..Len(s)
  BY <1>1
<1>3. s[i] # LastOf(s) /\ s[i + 1] # FirstOf(s) /\ s[i] \in Over(s) /\ s[i + 1] \in Over(s)
  BY <1>2 DEF Distinct, LastOf, FirstOf, Over
<1>4. Joint(m, s[i], s[i + 1])
  BY DEF Linked
<1> QED
  BY <1>3, <1>4 DEF Joint

LEMMA CycleOf ==
  ASSUME NEW m, NEW x \in Lists!Nodes, NEW t \in Runs
  PROVE  Cycle(m, <<x>> \o t) <=>
           IF t = <<>> THEN Joint(m, x, x)
           ELSE Joint(m, x, FirstOf(t)) /\ Linked(m, t) /\ Joint(m, LastOf(t), x)
<1>1. <<x>> \in Runs /\ <<x>> # <<>> /\ FirstOf(<<x>>) = x /\ LastOf(<<x>>) = x /\ Linked(m, <<x>>)
  BY Single, SingleLinked
<1>2. /\ <<x>> \o t # <<>> /\ FirstOf(<<x>> \o t) = x
      /\ (t # <<>> => LastOf(<<x>> \o t) = LastOf(t)) /\ <<x>> \o <<>> = <<x>>
  BY <1>1, Joined
<1>3. Linked(m, <<x>> \o t) <=> Linked(m, t) /\ (t # <<>> => Joint(m, x, FirstOf(t)))
  BY <1>1, LinkedJoined
<1>4. CASE t = <<>>
  BY <1>1, <1>2, <1>4 DEF Cycle
<1>5. CASE t # <<>>
  BY <1>2, <1>3, <1>5 DEF Cycle
<1> QED
  BY <1>4, <1>5

LEMMA CycleTurns ==
  ASSUME NEW m, NEW a \in Runs, NEW b \in Runs, Cycle(m, a \o b) PROVE Cycle(m, b \o a)
<1>1. /\ a \o b # <<>>
      /\ (a # <<>> => FirstOf(a \o b) = FirstOf(a)) /\ (b # <<>> => LastOf(a \o b) = LastOf(b))
      /\ (b # <<>> => FirstOf(b \o a) = FirstOf(b)) /\ (a # <<>> => LastOf(b \o a) = LastOf(a))
      /\ a \o <<>> = a /\ <<>> \o a = a /\ b \o <<>> = b /\ <<>> \o b = b
      /\ (b \o a = <<>> <=> a = <<>> /\ b = <<>>) /\ (a \o b = <<>> <=> a = <<>> /\ b = <<>>)
  BY Joined DEF Cycle
<1>2. CASE a = <<>> \/ b = <<>>
  BY <1>1, <1>2
<1>3. CASE a # <<>> /\ b # <<>>
  BY <1>1, <1>3, LinkedJoined DEF Cycle
<1> QED
  BY <1>2, <1>3

(* Stores elsewhere leave a ring as it is. *)
LEMMA CycleStays ==
  ASSUME NEW m, NEW w, NEW c \in Runs, Cycle(m, c), \A x \in Over(c) : w[x] = m[x]
  PROVE  Cycle(w, c)
<1>1. Len(c) \in Nat /\ c # <<>> /\ FirstOf(c) \in Over(c) /\ LastOf(c) \in Over(c)
  BY RunsHaveEnds DEF Cycle
<1>2. \A i \in 1..Len(c) - 1 : i \in 1..Len(c) /\ i + 1 \in 1..Len(c)
  BY <1>1
<1>3. \A i \in 1..Len(c) - 1 : c[i] \in Over(c) /\ c[i + 1] \in Over(c)
  BY <1>2 DEF Over
<1>4. Linked(w, c)
  BY <1>3 DEF Cycle, Linked, Joint
<1> QED
  BY <1>1, <1>4 DEF Cycle, Joint

-----------------------------------------------------------------------------
(* The stores of the operations. *)
LEMMA StoreNext ==
  ASSUME NEW m \in Links, NEW a \in Lists!Nodes, NEW v \in Lists!Nodes
  PROVE  LET w == [m EXCEPT ![a].next = v]
         IN  /\ w \in Links
             /\ \A n \in Lists!Nodes : w[n].next = (IF n = a THEN v ELSE m[n].next) /\ w[n].prev = m[n].prev
BY DEF Links

LEMMA StorePrev ==
  ASSUME NEW m \in Links, NEW a \in Lists!Nodes, NEW v \in Lists!Nodes
  PROVE  LET w == [m EXCEPT ![a].prev = v]
         IN  /\ w \in Links
             /\ \A n \in Lists!Nodes : w[n].prev = (IF n = a THEN v ELSE m[n].prev) /\ w[n].next = m[n].next
BY DEF Links

LEMMA PointersLeadToNodes ==
  ASSUME NEW m \in Links, NEW x \in Lists!Nodes PROVE m[x].next \in Lists!Nodes /\ m[x].prev \in Lists!Nodes
BY DEF Links

LEMMA AddBetweenStores ==
  ASSUME NEW m \in Links, NEW e \in Lists!Nodes, NEW x \in Lists!Nodes, NEW y \in Lists!Nodes, e # x, e # y
  PROVE  LET w == Lists!AddBetween(m, e, x, y)
         IN  /\ w \in Links
             /\ \A n \in Lists!Nodes : /\ w[n].next = IF n = x THEN e ELSE IF n = e THEN y ELSE m[n].next
                                       /\ w[n].prev = IF n = y THEN e ELSE IF n = e THEN x ELSE m[n].prev
BY DEF Links, Lists!AddBetween

LEMMA UnlinkStores ==
  ASSUME NEW m \in Links, NEW e \in Lists!Nodes
  PROVE  LET w == Lists!Unlink(m, e)
         IN  /\ w \in Links
             /\ \A n \in Lists!Nodes : /\ w[n].next = IF n = m[e].prev THEN m[e].next ELSE m[n].next
                                       /\ w[n].prev = IF n = m[e].next THEN m[e].prev ELSE m[n].prev
BY DEF Links, Lists!Unlink

LEMMA InitListHeadStores ==
  ASSUME NEW m \in Links, NEW e \in Lists!Nodes
  PROVE  LET w == Lists!InitListHead(m, e)
         IN  /\ w \in Links /\ Joint(w, e, e)
             /\ Elsewhere(m, w, {e})
BY DEF Links, Lists!InitListHead, Joint, Elsewhere

LEMMA ReplaceStores ==
  ASSUME NEW m \in Links, NEW x \in Lists!Nodes, NEW y \in Lists!Nodes, x # y, m[x].next # y
  PROVE  LET w == Lists!Replace(m, x, y)
             before == IF m[x].next = x THEN y ELSE m[x].prev
         IN  /\ w \in Links
             /\ \A n \in Lists!Nodes : /\ w[n].next = IF n = before THEN y ELSE IF n = y THEN m[x].next ELSE m[n].next
                                       /\ w[n].prev = IF n = y THEN before ELSE IF n = m[x].next THEN y ELSE m[n].prev
<1> DEFINE before == IF m[x].next = x THEN y ELSE m[x].prev
           w1 == [m EXCEPT ![y].next = m[x].next]
           w2 == [w1 EXCEPT ![m[x].next].prev = y]
           w3 == [w2 EXCEPT ![y].prev = w2[x].prev]
           w4 == [w3 EXCEPT ![w3[y].prev].next = y]
<1>1. Lists!Replace(m, x, y) = w4
  BY DEF Lists!Replace
<1>2. m[x].next \in Lists!Nodes /\ m[x].prev \in Lists!Nodes
  BY PointersLeadToNodes
<1>3. w1 \in Links /\ \A n \in Lists!Nodes : w1[n].next = (IF n = y THEN m[x].next ELSE m[n].next) /\ w1[n].prev = m[n].prev
  BY <1>2, StoreNext
<1> HIDE DEF w1
<1>4. w2 \in Links /\ \A n \in Lists!Nodes : w2[n].prev = (IF n = m[x].next THEN y ELSE w1[n].prev) /\ w2[n].next = w1[n].next
  BY <1>2, <1>3, StorePrev
<1> HIDE DEF w2
<1>5. w2[x].prev = before /\ before \in Lists!Nodes
  BY <1>2, <1>3, <1>4
<1>6. w3 \in Links /\ \A n \in Lists!Nodes : w3[n].prev = (IF n = y THEN before ELSE w2[n].prev) /\ w3[n].next = w2[n].next
  BY <1>4, <1>5, StorePrev
<1> HIDE DEF w3
<1>7. w3[y].prev = before
  BY <1>6
<1>8. w4 \in Links /\ \A n \in Lists!Nodes : w4[n].next = (IF n = before THEN y ELSE w3[n].next) /\ w4[n].prev = w3[n].prev
  BY <1>5, <1>6, <1>7, StoreNext
<1> HIDE DEF w4, before
<1>9. \A n \in Lists!Nodes : /\ w4[n].next = IF n = before THEN y ELSE IF n = y THEN m[x].next ELSE m[n].next
                             /\ w4[n].prev = IF n = y THEN before ELSE IF n = m[x].next THEN y ELSE m[n].prev
  BY <1>3, <1>4, <1>6, <1>8
<1> QED
  BY <1>1, <1>8, <1>9 DEF before

LEMMA CutBetweenStores ==
  ASSUME NEW m \in Links, NEW y \in Lists!Nodes, NEW h \in Lists!Nodes, NEW e \in Lists!Nodes,
         h # y, h # e, y # e, m[h].next # y, m[h].next # h, m[e].next # m[h].next, m[e].next # y
  PROVE  LET w == Lists!CutBetween(m, y, h, e)
         IN  /\ w \in Links
             /\ \A n \in Lists!Nodes :
                  /\ w[n].next = IF n = h THEN m[e].next ELSE IF n = e THEN y ELSE IF n = y THEN m[h].next ELSE m[n].next
                  /\ w[n].prev = IF n = m[e].next THEN h ELSE IF n = y THEN e ELSE IF n = m[h].next THEN y ELSE m[n].prev
<1>0. PICK first, rest : first = m[h].next /\ rest = m[e].next
  OBVIOUS
<1> DEFINE w1 == [m EXCEPT ![y].next = first]
           w2 == [w1 EXCEPT ![first].prev = y]
           w3 == [w2 EXCEPT ![y].prev = e]
           w4 == [w3 EXCEPT ![e].next = y]
           w5 == [w4 EXCEPT ![h].next = rest]
           w6 == [w5 EXCEPT ![rest].prev = h]
<1>1. Lists!CutBetween(m, y, h, e) = w6
  BY <1>0 DEF Lists!CutBetween
<1>2. first \in Lists!Nodes /\ rest \in Lists!Nodes
  BY <1>0, PointersLeadToNodes
<1>3. w1 \in Links /\ \A n \in Lists!Nodes : w1[n].next = (IF n = y THEN first ELSE m[n].next) /\ w1[n].prev = m[n].prev
  BY <1>2, StoreNext
<1> HIDE DEF w1
<1>4. w2 \in Links /\ \A n \in Lists!Nodes : w2[n].prev = (IF n = first THEN y ELSE w1[n].prev) /\ w2[n].next = w1[n].next
  BY <1>2, <1>3, StorePrev
<1> HIDE DEF w2
<1>5. w3 \in Links /\ \A n \in Lists!Nodes : w3[n].prev = (IF n = y THEN e ELSE w2[n].prev) /\ w3[n].next = w2[n].next
  BY <1>4, StorePrev
<1> HIDE DEF w3
<1>6. w4 \in Links /\ \A n \in Lists!Nodes : w4[n].next = (IF n = e THEN y ELSE w3[n].next) /\ w4[n].prev = w3[n].prev
  BY <1>5, StoreNext
<1> HIDE DEF w4
<1>7. w5 \in Links /\ \A n \in Lists!Nodes : w5[n].next = (IF n = h THEN rest ELSE w4[n].next) /\ w5[n].prev = w4[n].prev
  BY <1>2, <1>6, StoreNext
<1> HIDE DEF w5
<1>8. w6 \in Links /\ \A n \in Lists!Nodes : w6[n].prev = (IF n = rest THEN h ELSE w5[n].prev) /\ w6[n].next = w5[n].next
  BY <1>2, <1>7, StorePrev
<1> HIDE DEF w6
<1>9. \A n \in Lists!Nodes :
        /\ w6[n].next = IF n = h THEN rest ELSE IF n = e THEN y ELSE IF n = y THEN first ELSE m[n].next
        /\ w6[n].prev = IF n = rest THEN h ELSE IF n = y THEN e ELSE IF n = first THEN y ELSE m[n].prev
  BY <1>0, <1>3, <1>4, <1>5, <1>6, <1>7, <1>8
<1> QED
  BY <1>0, <1>1, <1>8, <1>9

LEMMA SpliceBetweenStores ==
  ASSUME NEW m \in Links, NEW from \in Lists!Nodes, NEW x \in Lists!Nodes, NEW y \in Lists!Nodes,
         m[from].next # y, m[from].prev # x
  PROVE  LET w == Lists!SpliceBetween(m, from, x, y)
         IN  /\ w \in Links
             /\ \A n \in Lists!Nodes :
                  /\ w[n].next = IF n = x THEN m[from].next ELSE IF n = m[from].prev THEN y ELSE m[n].next
                  /\ w[n].prev = IF n = m[from].next THEN x ELSE IF n = y THEN m[from].prev ELSE m[n].prev
<1> DEFINE w1 == [m EXCEPT ![m[from].next].prev = x]
           w2 == [w1 EXCEPT ![x].next = m[from].next]
           w3 == [w2 EXCEPT ![m[from].prev].next = y]
           w4 == [w3 EXCEPT ![y].prev = m[from].prev]
<1>1. Lists!SpliceBetween(m, from, x, y) = w4
  BY DEF Lists!SpliceBetween
<1>2. m[from].next \in Lists!Nodes /\ m[from].prev \in Lists!Nodes
  BY PointersLeadToNodes
<1>3. w1 \in Links /\ \A n \in Lists!Nodes : w1[n].prev = (IF n = m[from].next THEN x ELSE m[n].prev) /\ w1[n].next = m[n].next
  BY <1>2, StorePrev
<1> HIDE DEF w1
<1>4. w2 \in Links /\ \A n \in Lists!Nodes : w2[n].next = (IF n = x THEN m[from].next ELSE w1[n].next) /\ w2[n].prev = w1[n].prev
  BY <1>2, <1>3, StoreNext
<1> HIDE DEF w2
<1>5. w3 \in Links /\ \A n \in Lists!Nodes : w3[n].next = (IF n = m[from].prev THEN y ELSE w2[n].next) /\ w3[n].prev = w2[n].prev
  BY <1>2, <1>4, StoreNext
<1> HIDE DEF w3
<1>6. w4 \in Links /\ \A n \in Lists!Nodes : w4[n].prev = (IF n = y THEN m[from].prev ELSE w3[n].prev) /\ w4[n].next = w3[n].next
  BY <1>2, <1>5, StorePrev
<1> HIDE DEF w4
<1>7. \A n \in Lists!Nodes :
        /\ w4[n].next = IF n = x THEN m[from].next ELSE IF n = m[from].prev THEN y ELSE m[n].next
        /\ w4[n].prev = IF n = m[from].next THEN x ELSE IF n = y THEN m[from].prev ELSE m[n].prev
  BY <1>3, <1>4, <1>5, <1>6
<1> QED
  BY <1>1, <1>6, <1>7

LEMMA SameNode ==
  ASSUME NEW m \in Links, NEW w \in Links, NEW n \in Lists!Nodes,
         w[n].next = m[n].next, w[n].prev = m[n].prev
  PROVE  w[n] = m[n]
BY DEF Links

-----------------------------------------------------------------------------
(* What the operations make of rings. *)

\* What a ring that begins with x says of the links.
LEMMA RingFrom ==
  ASSUME NEW m, NEW x \in Lists!Nodes, NEW t \in Runs, Cycle(m, <<x>> \o t), Distinct(<<x>> \o t)
  PROVE  /\ x \notin Over(t) /\ Distinct(t) /\ Over(<<x>> \o t) = {x} \cup Over(t)
         /\ t = <<>> => m[x].next = x /\ m[x].prev = x
         /\ t # <<>> => /\ Linked(m, t) /\ m[x].next = FirstOf(t) /\ m[x].prev = LastOf(t)
                        /\ m[FirstOf(t)].prev = x /\ m[LastOf(t)].next = x
                        /\ FirstOf(t) \in Over(t) /\ LastOf(t) \in Over(t)
                        /\ FirstOf(t) \in Lists!Nodes /\ LastOf(t) \in Lists!Nodes
<1>1. x \notin Over(t) /\ Distinct(t) /\ Over(<<x>> \o t) = {x} \cup Over(t)
  BY Single, Joined, DistinctJoined
<1> QED
  BY <1>1, CycleOf, RunsHaveEnds DEF Joint

LEMMA RingGains ==
  ASSUME NEW m \in Links, NEW x \in Lists!Nodes, NEW t \in Runs, Cycle(m, <<x>> \o t), Distinct(<<x>> \o t),
         NEW e \in Lists!Nodes, e \notin Over(<<x>> \o t)
  PROVE  LET w == Lists!AddBetween(m, e, x, m[x].next)
         IN  /\ w \in Links /\ Cycle(w, <<x>> \o (<<e>> \o t))
             /\ Elsewhere(m, w, {e} \cup Over(<<x>> \o t))
<1> DEFINE w == Lists!AddBetween(m, e, x, m[x].next)
<1>1. PICK y : y = m[x].next
  OBVIOUS
<1>2. /\ x \notin Over(t) /\ Distinct(t) /\ Over(<<x>> \o t) = {x} \cup Over(t)
      /\ t = <<>> => m[x].next = x /\ m[x].prev = x
      /\ t # <<>> => /\ Linked(m, t) /\ m[x].next = FirstOf(t) /\ m[x].prev = LastOf(t)
                     /\ m[FirstOf(t)].prev = x /\ m[LastOf(t)].next = x
                     /\ FirstOf(t) \in Over(t) /\ LastOf(t) \in Over(t)
                     /\ FirstOf(t) \in Lists!Nodes /\ LastOf(t) \in Lists!Nodes
  BY RingFrom
<1>3. y \in Lists!Nodes /\ y \in Over(<<x>> \o t) /\ y # e /\ x # e /\ e \notin Over(t)
  BY <1>1, <1>2
<1>4. /\ w \in Links
      /\ \A n \in Lists!Nodes : /\ w[n].next = IF n = x THEN e ELSE IF n = e THEN y ELSE m[n].next
                                /\ w[n].prev = IF n = y THEN e ELSE IF n = e THEN x ELSE m[n].prev
  <2>1. w = Lists!AddBetween(m, e, x, y)
    BY <1>1
  <2>2. LET v == Lists!AddBetween(m, e, x, y)
        IN  /\ v \in Links
            /\ \A n \in Lists!Nodes : /\ v[n].next = IF n = x THEN e ELSE IF n = e THEN y ELSE m[n].next
                                      /\ v[n].prev = IF n = y THEN e ELSE IF n = e THEN x ELSE m[n].prev
    BY <1>3, AddBetweenStores
  <2> HIDE DEF w
  <2> QED
    BY <2>1, <2>2
<1> HIDE DEF w
<1>5. Elsewhere(m, w, {e} \cup Over(<<x>> \o t))
  BY <1>2, <1>3, <1>4, SameNode DEF Elsewhere
<1>6. CASE t = <<>>
  <2>1. Joint(w, x, e) /\ Joint(w, e, x)
    BY <1>1, <1>2, <1>3, <1>4, <1>6 DEF Joint
  <2>2. <<e>> \in Runs /\ <<e>> # <<>> /\ FirstOf(<<e>>) = e /\ LastOf(<<e>>) = e /\ <<e>> \o t = <<e>>
    BY <1>6, Single, Joined
  <2>3. Cycle(w, <<x>> \o <<e>>)
    BY <2>1, <2>2, CycleOf, SingleLinked
  <2> QED
    BY <1>4, <1>5, <2>2, <2>3 DEF w
<1>7. CASE t # <<>>
  <2>1. y = FirstOf(t) /\ \A n \in Over(t) : n # x /\ n # e /\ n \in Lists!Nodes
    BY <1>1, <1>2, <1>3, <1>7, RunsHaveEnds
  <2>2. Linked(w, t)
    BY <1>2, <1>4, <1>7, <2>1, StaysLinked
  <2>3. Joint(w, x, e) /\ Joint(w, e, FirstOf(t)) /\ Joint(w, LastOf(t), x)
    BY <1>2, <1>3, <1>4, <1>7, <2>1 DEF Joint
  <2>4. /\ <<e>> \in Runs /\ <<e>> # <<>> /\ FirstOf(<<e>>) = e /\ LastOf(<<e>>) = e /\ Linked(w, <<e>>)
    BY Single, SingleLinked
  <2>5. /\ <<e>> \o t \in Runs /\ <<e>> \o t # <<>> /\ FirstOf(<<e>> \o t) = e /\ LastOf(<<e>> \o t) = LastOf(t)
    BY <1>7, <2>4, Joined
  <2>6. Linked(w, <<e>> \o t)
    BY <2>2, <2>3, <2>4, LinkedJoined
  <2>7. Cycle(w, <<x>> \o (<<e>> \o t))
    BY <2>3, <2>5, <2>6, CycleOf
  <2> QED
    BY <1>4, <1>5, <2>7 DEF w
<1> QED
  BY <1>6, <1>7

LEMMA RingLoses ==
  ASSUME NEW m \in Links, NEW e \in Lists!Nodes, NEW t \in Runs, t # <<>>,
         Cycle(m, <<e>> \o t), Distinct(<<e>> \o t)
  PROVE  LET w == Lists!Unlink(m, e)
         IN  /\ w \in Links /\ Cycle(w, t)
             /\ Elsewhere(m, w, Over(t))
<1> DEFINE w == Lists!Unlink(m, e)
<1>1. PICK first, final : first = m[e].next /\ final = m[e].prev
  OBVIOUS
<1>2. /\ e \notin Over(t) /\ Distinct(t) /\ Linked(m, t) /\ first = FirstOf(t) /\ final = LastOf(t)
      /\ first \in Over(t) /\ final \in Over(t) /\ first \in Lists!Nodes /\ final \in Lists!Nodes
  <2> HIDE DEF w
  <2>1. /\ e \notin Over(t) /\ Distinct(t) /\ Linked(m, t) /\ m[e].next = FirstOf(t) /\ m[e].prev = LastOf(t)
        /\ FirstOf(t) \in Over(t) /\ LastOf(t) \in Over(t) /\ FirstOf(t) \in Lists!Nodes /\ LastOf(t) \in Lists!Nodes
    BY RingFrom
  <2> QED
    BY <1>1, <2>1
<1>3. /\ w \in Links
      /\ \A n \in Lists!Nodes : /\ w[n].next = IF n = final THEN first ELSE m[n].next
                                /\ w[n].prev = IF n = first THEN final ELSE m[n].prev
  BY <1>1, UnlinkStores
<1> HIDE DEF w
<1>4. Elsewhere(m, w, Over(t))
  BY <1>2, <1>3, SameNode DEF Elsewhere
<1>5. Linked(w, t)
  <2>1. \A n \in Over(t) : n \in Lists!Nodes
    BY RunsHaveEnds
  <2> QED
    BY <1>2, <1>3, <2>1, StaysLinked
<1>6. Joint(w, LastOf(t), FirstOf(t))
  BY <1>2, <1>3 DEF Joint
<1> QED
  BY <1>3, <1>4, <1>5, <1>6 DEF w, Cycle

LEMMA RingReplaced ==
  ASSUME NEW m \in Links, NEW x \in Lists!Nodes, NEW t \in Runs, Cycle(m, <<x>> \o t), Distinct(<<x>> \o t),
         NEW y \in Lists!Nodes, y \notin Over(<<x>> \o t)
  PROVE  LET w == Lists!Replace(m, x, y)
         IN  /\ w \in Links /\ Cycle(w, <<y>> \o t)
             /\ Elsewhere(m, w, {y} \cup Over(<<x>> \o t))
<1> DEFINE w == Lists!Replace(m, x, y)
<1>1. PICK first, before : first = m[x].next /\ before = IF m[x].next = x THEN y ELSE m[x].prev
  OBVIOUS
<1>2. /\ x \notin Over(t) /\ Distinct(t) /\ Over(<<x>> \o t) = {x} \cup Over(t)
      /\ t = <<>> => m[x].next = x /\ m[x].prev = x
      /\ t # <<>> => /\ Linked(m, t) /\ m[x].next = FirstOf(t) /\ m[x].prev = LastOf(t)
                     /\ m[FirstOf(t)].prev = x /\ m[LastOf(t)].next = x
                     /\ FirstOf(t) \in Over(t) /\ LastOf(t) \in Over(t)
                     /\ FirstOf(t) \in Lists!Nodes /\ LastOf(t) \in Lists!Nodes
  BY RingFrom
<1>3. first \in Over(<<x>> \o t) /\ first # y /\ x # y /\ y \notin Over(t)
  BY <1>1, <1>2
<1>4. /\ w \in Links
      /\ \A n \in Lists!Nodes : /\ w[n].next = IF n = before THEN y ELSE IF n = y THEN first ELSE m[n].next
                                /\ w[n].prev = IF n = y THEN before ELSE IF n = first THEN y ELSE m[n].prev
  BY <1>1, <1>3, ReplaceStores
<1> HIDE DEF w
<1>5. before = y \/ before \in Over(<<x>> \o t)
  BY <1>1, <1>2
<1>6. Elsewhere(m, w, {y} \cup Over(<<x>> \o t))
  BY <1>3, <1>4, <1>5, SameNode DEF Elsewhere
<1>7. CASE t = <<>>
  <2>1. Joint(w, y, y)
    BY <1>1, <1>2, <1>4, <1>7 DEF Joint
  <2>2. Cycle(w, <<y>> \o t)
    BY <1>7, <2>1, CycleOf
  <2> QED
    BY <1>4, <1>6, <2>2 DEF w
<1>8. CASE t # <<>>
  <2>1. before = LastOf(t) /\ first = FirstOf(t) /\ \A n \in Over(t) : n # y /\ n # x /\ n \in Lists!Nodes
    BY <1>1, <1>2, <1>3, <1>8, RunsHaveEnds
  <2>2. Linked(w, t)
    BY <1>2, <1>4, <1>8, <2>1, StaysLinked
  <2>3. Joint(w, y, FirstOf(t)) /\ Joint(w, LastOf(t), y)
    BY <1>2, <1>4, <1>8, <2>1 DEF Joint
  <2>4. Cycle(w, <<y>> \o t)
    BY <1>8, <2>2, <2>3, CycleOf
  <2> QED
    BY <1>4, <1>6, <2>4 DEF w
<1> QED
  BY <1>7, <1>8

LEMMA RingCut ==
  ASSUME NEW m \in Links, NEW h \in Lists!Nodes, NEW a \in Runs, NEW b \in Runs, a # <<>>,
         Cycle(m, <<h>> \o (a \o b)), Distinct(<<h>> \o (a \o b)),
         NEW y \in Lists!Nodes, y \notin Over(<<h>> \o (a \o b))
  PROVE  LET w == Lists!CutBetween(m, y, h, LastOf(a))
         IN  /\ w \in Links /\ Cycle(w, <<y>> \o a) /\ Cycle(w, <<h>> \o b)
             /\ Elsewhere(m, w, {y} \cup Over(<<h>> \o (a \o b)))
<1> DEFINE w == Lists!CutBetween(m, y, h, LastOf(a))
<1>1. PICK first, e, rest : first = m[h].next /\ e = LastOf(a) /\ rest = m[e].next
  OBVIOUS
<1>2. /\ a \o b \in Runs /\ a \o b # <<>> /\ FirstOf(a \o b) = FirstOf(a) /\ Over(a \o b) = Over(a) \cup Over(b)
      /\ b # <<>> => LastOf(a \o b) = LastOf(b)
      /\ b = <<>> => LastOf(a \o b) = LastOf(a)
  BY Joined
<1>3. /\ h \notin Over(a) /\ h \notin Over(b) /\ y \notin Over(a) /\ y \notin Over(b) /\ y # h
      /\ Over(<<h>> \o (a \o b)) = {h} \cup Over(a) \cup Over(b)
      /\ Distinct(a) /\ Distinct(b) /\ Over(a) \cap Over(b) = {}
      /\ Linked(m, a \o b) /\ first = FirstOf(a) /\ m[LastOf(a \o b)].next = h
  <2> HIDE DEF w
  <2> DEFINE t == a \o b
  <2>1. t \in Runs /\ t # <<>> /\ Cycle(m, <<h>> \o t) /\ Distinct(<<h>> \o t)
    BY <1>2
  <2> HIDE DEF t
  <2>2. /\ h \notin Over(t) /\ Distinct(t) /\ Over(<<h>> \o t) = {h} \cup Over(t)
        /\ Linked(m, t) /\ m[h].next = FirstOf(t) /\ m[LastOf(t)].next = h
    <3>1. h \notin Over(t) /\ Distinct(t) /\ Over(<<h>> \o t) = {h} \cup Over(t)
      BY <2>1, RingFrom
    <3>2. Joint(m, h, FirstOf(t)) /\ Linked(m, t) /\ Joint(m, LastOf(t), h)
      BY <2>1, CycleOf
    <3> QED
      BY <3>1, <3>2 DEF Joint
  <2>3. Distinct(a) /\ Distinct(b) /\ Over(a) \cap Over(b) = {}
    BY <2>2, DistinctJoined DEF t
  <2> QED
    BY <1>1, <1>2, <2>1, <2>2, <2>3 DEF t
<1>4. /\ Linked(m, a) /\ Linked(m, b)
      /\ b # <<>> => rest = FirstOf(b)
      /\ b = <<>> => rest = h
  BY <1>1, <1>2, <1>3, LinkedJoined DEF Joint
<1>5. /\ first \in Over(a) /\ e \in Over(a) /\ first \in Lists!Nodes /\ e \in Lists!Nodes
      /\ b # <<>> => FirstOf(b) \in Over(b) /\ LastOf(b) \in Over(b) /\ FirstOf(b) \in Lists!Nodes /\ LastOf(b) \in Lists!Nodes
      /\ Over(a) \subseteq Lists!Nodes /\ Over(b) \subseteq Lists!Nodes
  BY <1>1, <1>3, RunsHaveEnds
<1>6. h # e /\ y # e /\ first # y /\ first # h /\ rest # first /\ rest # y /\ rest \notin Over(a)
  BY <1>3, <1>4, <1>5
<1>7. /\ w \in Links
      /\ \A n \in Lists!Nodes :
           /\ w[n].next = IF n = h THEN rest ELSE IF n = e THEN y ELSE IF n = y THEN first ELSE m[n].next
           /\ w[n].prev = IF n = rest THEN h ELSE IF n = y THEN e ELSE IF n = first THEN y ELSE m[n].prev
  <2>1. w = Lists!CutBetween(m, y, h, e)
    BY <1>1
  <2>2. m[h].next # y /\ m[h].next # h /\ m[e].next # m[h].next /\ m[e].next # y /\ h # y /\ h # e /\ y # e
    BY <1>1, <1>3, <1>6
  <2>3. LET v == Lists!CutBetween(m, y, h, e)
        IN  /\ v \in Links
            /\ \A n \in Lists!Nodes :
                 /\ v[n].next = IF n = h THEN m[e].next ELSE IF n = e THEN y ELSE IF n = y THEN m[h].next ELSE m[n].next
                 /\ v[n].prev = IF n = m[e].next THEN h ELSE IF n = y THEN e ELSE IF n = m[h].next THEN y ELSE m[n].prev
    BY <1>5, <2>2, CutBetweenStores
  <2> HIDE DEF w
  <2> QED
    BY <1>1, <2>1, <2>3
<1> HIDE DEF w
<1>8. Elsewhere(m, w, {y} \cup Over(<<h>> \o (a \o b)))
  <2>1. rest = h \/ rest \in Over(b)
    BY <1>4, <1>5
  <2> QED
    BY <1>3, <1>5, <1>7, <2>1, SameNode DEF Elsewhere
<1>9. Cycle(w, <<y>> \o a)
  <2>1. \A n \in Over(a) : n # y /\ n # h /\ n # rest /\ n \in Lists!Nodes
    BY <1>3, <1>5, <1>6
  <2>2. Linked(w, a)
    BY <1>1, <1>3, <1>4, <1>7, <2>1, StaysLinked
  <2>3. Joint(w, y, FirstOf(a)) /\ Joint(w, LastOf(a), y)
    BY <1>1, <1>3, <1>5, <1>6, <1>7 DEF Joint
  <2> QED
    BY <2>2, <2>3, CycleOf
<1>10. Cycle(w, <<h>> \o b)
  <2>1. CASE b = <<>>
    <3>1. Joint(w, h, h)
      BY <1>4, <1>7, <2>1 DEF Joint
    <3> QED
      BY <2>1, <3>1, CycleOf
  <2>2. CASE b # <<>>
    <3>1. \A n \in Over(b) : n # y /\ n # h /\ n # first /\ n # e /\ n \in Lists!Nodes
      BY <1>3, <1>5
    <3>2. Linked(w, b)
      BY <1>3, <1>4, <1>7, <2>2, <3>1, StaysLinked
    <3>3. Joint(w, h, FirstOf(b)) /\ Joint(w, LastOf(b), h)
      <4>1. m[LastOf(b)].next = h /\ m[h].prev = LastOf(b)
        <5>1. m[h].prev = LastOf(a \o b)
          BY <1>2, RingFrom
        <5> QED
          BY <1>2, <1>3, <2>2, <5>1
      <4>2. w[h].prev = LastOf(b)
        BY <1>3, <1>4, <1>5, <1>6, <1>7, <2>2, <4>1
      <4>3. w[LastOf(b)].next = h
        BY <1>5, <1>7, <2>2, <3>1, <4>1
      <4>4. w[h].next = FirstOf(b) /\ w[FirstOf(b)].prev = h
        BY <1>4, <1>5, <1>7, <2>2
      <4> QED
        BY <4>2, <4>3, <4>4 DEF Joint
    <3> QED
      BY <2>2, <3>2, <3>3, CycleOf
  <2> QED
    BY <2>1, <2>2
<1> QED
  BY <1>7, <1>8, <1>9, <1>10 DEF w

LEMMA RingsSpliced ==
  ASSUME NEW m \in Links, NEW from \in Lists!Nodes, NEW s \in Runs, s # <<>>,
         Cycle(m, <<from>> \o s), Distinct(<<from>> \o s),
         NEW x \in Lists!Nodes, NEW t \in Runs, Cycle(m, <<x>> \o t), Distinct(<<x>> \o t),
         Over(<<from>> \o s) \cap Over(<<x>> \o t) = {}
  PROVE  LET w == Lists!SpliceBetween(m, from, x, m[x].next)
         IN  /\ w \in Links /\ Cycle(w, <<x>> \o (s \o t))
             /\ Elsewhere(m, w, Over(s) \cup Over(<<x>> \o t))
<1> DEFINE w == Lists!SpliceBetween(m, from, x, m[x].next)
<1>1. PICK first, final, y : first = m[from].next /\ final = m[from].prev /\ y = m[x].next
  OBVIOUS
<1>2. /\ Distinct(s) /\ Linked(m, s) /\ first = FirstOf(s) /\ final = LastOf(s)
      /\ first \in Over(s) /\ final \in Over(s) /\ first \in Lists!Nodes /\ final \in Lists!Nodes
      /\ from \notin Over(s) /\ Over(<<from>> \o s) = {from} \cup Over(s)
  <2> HIDE DEF w
  <2>1. /\ Distinct(s) /\ Linked(m, s) /\ m[from].next = FirstOf(s) /\ m[from].prev = LastOf(s)
        /\ FirstOf(s) \in Over(s) /\ LastOf(s) \in Over(s) /\ FirstOf(s) \in Lists!Nodes /\ LastOf(s) \in Lists!Nodes
        /\ from \notin Over(s) /\ Over(<<from>> \o s) = {from} \cup Over(s)
    <3>1. from \notin Over(s) /\ Distinct(s) /\ Over(<<from>> \o s) = {from} \cup Over(s)
      BY RingFrom
    <3>2. Joint(m, from, FirstOf(s)) /\ Linked(m, s) /\ Joint(m, LastOf(s), from)
      BY CycleOf
    <3> QED
      BY <3>1, <3>2, RunsHaveEnds DEF Joint
  <2> QED
    BY <1>1, <2>1
<1>3. /\ x \notin Over(t) /\ Distinct(t) /\ Over(<<x>> \o t) = {x} \cup Over(t)
      /\ t = <<>> => m[x].next = x /\ m[x].prev = x
      /\ t # <<>> => /\ Linked(m, t) /\ m[x].next = FirstOf(t) /\ m[x].prev = LastOf(t)
                     /\ m[FirstOf(t)].prev = x /\ m[LastOf(t)].next = x
                     /\ FirstOf(t) \in Over(t) /\ LastOf(t) \in Over(t)
                     /\ FirstOf(t) \in Lists!Nodes /\ LastOf(t) \in Lists!Nodes
  BY RingFrom
<1>4. /\ y \in Lists!Nodes /\ y \in Over(<<x>> \o t) /\ y \notin Over(s) /\ x \notin Over(s)
      /\ Over(s) \subseteq Lists!Nodes /\ Over(t) \subseteq Lists!Nodes
  BY <1>1, <1>2, <1>3, RunsHaveEnds
<1>5. /\ w \in Links
      /\ \A n \in Lists!Nodes :
           /\ w[n].next = IF n = x THEN first ELSE IF n = final THEN y ELSE m[n].next
           /\ w[n].prev = IF n = first THEN x ELSE IF n = y THEN final ELSE m[n].prev
  <2>1. w = Lists!SpliceBetween(m, from, x, y)
    BY <1>1
  <2> HIDE DEF w
  <2>2. first # y /\ final # x
    BY <1>2, <1>4
  <2> QED
    BY <1>1, <1>4, <2>1, <2>2, SpliceBetweenStores
<1> HIDE DEF w
<1>6. Elsewhere(m, w, Over(s) \cup Over(<<x>> \o t))
  BY <1>2, <1>3, <1>4, <1>5, SameNode DEF Elsewhere
<1>7. Linked(w, s)
  BY <1>2, <1>4, <1>5, StaysLinked
<1>8. Joint(w, x, FirstOf(s))
  BY <1>2, <1>4, <1>5 DEF Joint
<1>9. CASE t = <<>>
  <2>1. s \o t = s
    BY <1>9, Joined
  <2>2. Joint(w, LastOf(s), x)
    BY <1>1, <1>2, <1>3, <1>4, <1>5, <1>9 DEF Joint
  <2>3. Cycle(w, <<x>> \o s)
    BY <1>7, <1>8, <2>2, CycleOf
  <2> QED
    BY <1>5, <1>6, <2>1, <2>3 DEF w
<1>10. CASE t # <<>>
  <2>1. y = FirstOf(t) /\ \A n \in Over(t) : n # x /\ n # first /\ n # final /\ n \in Lists!Nodes
    BY <1>1, <1>2, <1>3, <1>4, <1>10
  <2>2. Linked(w, t)
    BY <1>3, <1>5, <1>10, <2>1, StaysLinked
  <2>3. Joint(w, LastOf(s), FirstOf(t))
    BY <1>2, <1>3, <1>4, <1>5, <1>10, <2>1 DEF Joint
  <2>4. Linked(w, s \o t)
    BY <1>7, <2>2, <2>3, LinkedJoined
  <2>5. w[LastOf(t)].next = x
    BY <1>3, <1>5, <1>10, <2>1
  <2>6. w[x].prev = LastOf(t)
    BY <1>2, <1>3, <1>4, <1>5, <1>10, <2>1
  <2>7. s \o t \in Runs /\ s \o t # <<>> /\ FirstOf(s \o t) = FirstOf(s) /\ LastOf(s \o t) = LastOf(t)
    BY <1>10, Joined
  <2>8. Cycle(w, <<x>> \o (s \o t))
    <3>1. Joint(w, x, FirstOf(s \o t)) /\ Joint(w, LastOf(s \o t), x)
      BY <1>8, <2>5, <2>6, <2>7 DEF Joint
    <3> QED
      BY <2>4, <2>7, <3>1, CycleOf
  <2> QED
    BY <1>5, <1>6, <2>8 DEF w
<1> QED
  BY <1>9, <1>10

LEMMA EndsWith ==
  ASSUME NEW c \in Runs, c # <<>>
  PROVE  \E a \in Runs, x \in Lists!Nodes : c = a \o <<x>> /\ x = LastOf(c)
<1>1. PICK a \in Runs, x \in Lists!Nodes : c = Append(a, x)
  BY SequenceEmptyOrAppend DEF Runs
<1>2. c = a \o <<x>>
  BY <1>1, AppendIsConcat DEF Runs
<1>3. LastOf(c) = x
  BY <1>2, Single, Joined
<1> QED
  BY <1>2, <1>3

(* A ring may be read from the node before the one it begins with. *)
LEMMA RingFromBefore ==
  ASSUME NEW m \in Links, NEW h \in Lists!Nodes, NEW t \in Runs, Cycle(m, <<h>> \o t), Distinct(<<h>> \o t)
  PROVE  \E a \in Runs, x \in Lists!Nodes :
           /\ <<h>> \o t = a \o <<x>> /\ x = m[h].prev /\ m[x].next = h
           /\ Cycle(m, <<x>> \o a) /\ Distinct(<<x>> \o a) /\ Over(<<x>> \o a) = Over(<<h>> \o t)
<1>1. /\ <<h>> \in Runs /\ <<h>> # <<>> /\ FirstOf(<<h>>) = h
      /\ <<h>> \o t \in Runs /\ <<h>> \o t # <<>> /\ FirstOf(<<h>> \o t) = h
  BY Single, Joined
<1>2. PICK a \in Runs, x \in Lists!Nodes : <<h>> \o t = a \o <<x>> /\ x = LastOf(<<h>> \o t)
  BY <1>1, EndsWith
<1>3. x = m[h].prev /\ m[x].next = h
  BY <1>1, <1>2 DEF Cycle, Joint
<1>4. <<x>> \in Runs
  BY Single
<1>5. Cycle(m, <<x>> \o a)
  BY <1>2, <1>4, CycleTurns
<1>6. Distinct(<<x>> \o a)
  <2>1. Distinct(a \o <<x>>)
    BY <1>2
  <2>2. Distinct(a) /\ Distinct(<<x>>) /\ Over(a) \cap Over(<<x>>) = {}
    BY <1>4, <2>1, DistinctJoined
  <2>3. Over(<<x>>) \cap Over(a) = {}
    BY <2>2
  <2> QED
    BY <1>4, <2>2, <2>3, DistinctJoined
<1>7. Over(<<x>> \o a) = Over(<<h>> \o t)
  <2>1. Over(a \o <<x>>) = Over(a) \cup Over(<<x>>) /\ Over(<<x>> \o a) = Over(<<x>>) \cup Over(a)
    BY <1>4, Joined
  <2> QED
    BY <1>2, <2>1
<1> QED
  BY <1>2, <1>3, <1>5, <1>6, <1>7

(* A ring read from x that gained s after x gained it at the end of the ring
   read from h. *)
LEMMA GainedAtTheEnd ==
  ASSUME NEW w, NEW h \in Lists!Nodes, NEW t \in Runs, NEW x \in Lists!Nodes, NEW a \in Runs, NEW s \in Runs,
         <<h>> \o t = a \o <<x>>, Cycle(w, <<x>> \o (s \o a))
  PROVE  Cycle(w, <<h>> \o (t \o s))
<1>1. <<h>> \in Runs /\ <<x>> \in Runs
  BY Single
<1>2. s \o a \in Runs /\ a \o <<x>> \in Runs /\ t \o s \in Runs
  BY <1>1, Joined
<1>3. Cycle(w, (s \o a) \o <<x>>)
  BY <1>1, <1>2, CycleTurns
<1>4. (s \o a) \o <<x>> = s \o (a \o <<x>>)
  BY <1>1, JoinedThrice
<1>5. Cycle(w, (a \o <<x>>) \o s)
  BY <1>2, <1>3, <1>4, CycleTurns
<1>6. (<<h>> \o t) \o s = <<h>> \o (t \o s)
  BY <1>1, JoinedThrice
<1> QED
  BY <1>5, <1>6

LEMMA RingGainsLast ==
  ASSUME NEW m \in Links, NEW h \in Lists!Nodes, NEW t \in Runs, Cycle(m, <<h>> \o t), Distinct(<<h>> \o t),
         NEW e \in Lists!Nodes, e \notin Over(<<h>> \o t)
  PROVE  LET w == Lists!AddLast(m, e, h)
         IN  /\ w \in Links /\ Cycle(w, <<h>> \o (t \o <<e>>))
             /\ Elsewhere(m, w, {e} \cup Over(<<h>> \o t))
<1>1. PICK w : w = Lists!AddLast(m, e, h)
  OBVIOUS
<1>2. PICK a \in Runs, x \in Lists!Nodes :
        /\ <<h>> \o t = a \o <<x>> /\ x = m[h].prev /\ m[x].next = h
        /\ Cycle(m, <<x>> \o a) /\ Distinct(<<x>> \o a) /\ Over(<<x>> \o a) = Over(<<h>> \o t)
  BY RingFromBefore
<1>3. w = Lists!AddBetween(m, e, x, m[x].next)
  BY <1>1, <1>2 DEF Lists!AddLast
<1>4. /\ w \in Links /\ Cycle(w, <<x>> \o (<<e>> \o a))
      /\ Elsewhere(m, w, {e} \cup Over(<<x>> \o a))
  BY <1>2, <1>3, RingGains
<1>5. Cycle(w, <<h>> \o (t \o <<e>>))
  <2>1. <<e>> \in Runs /\ <<h>> \o t = a \o <<x>> /\ Cycle(w, <<x>> \o (<<e>> \o a))
    BY <1>2, <1>4, Single
  <2> QED
    BY <2>1, GainedAtTheEnd
<1> QED
  BY <1>1, <1>2, <1>4, <1>5

LEMMA RingsSplicedTail ==
  ASSUME NEW m \in Links, NEW from \in Lists!Nodes, NEW s \in Runs, s # <<>>,
         Cycle(m, <<from>> \o s), Distinct(<<from>> \o s),
         NEW h \in Lists!Nodes, NEW t \in Runs, Cycle(m, <<h>> \o t), Distinct(<<h>> \o t),
         Over(<<from>> \o s) \cap Over(<<h>> \o t) = {}
  PROVE  LET w == Lists!SpliceBetween(m, from, m[h].prev, h)
         IN  /\ w \in Links /\ Cycle(w, <<h>> \o (t \o s))
             /\ Elsewhere(m, w, Over(s) \cup Over(<<h>> \o t))
<1>1. PICK w : w = Lists!SpliceBetween(m, from, m[h].prev, h)
  OBVIOUS
<1>2. PICK a \in Runs, x \in Lists!Nodes :
        /\ <<h>> \o t = a \o <<x>> /\ x = m[h].prev /\ m[x].next = h
        /\ Cycle(m, <<x>> \o a) /\ Distinct(<<x>> \o a) /\ Over(<<x>> \o a) = Over(<<h>> \o t)
  BY RingFromBefore
<1>3. w = Lists!SpliceBetween(m, from, x, m[x].next)
  BY <1>1, <1>2
<1>4. /\ w \in Links /\ Cycle(w, <<x>> \o (s \o a))
      /\ Elsewhere(m, w, Over(s) \cup Over(<<x>> \o a))
  <2>1. a \in Runs /\ x \in Lists!Nodes /\ Over(<<from>> \o s) \cap Over(<<x>> \o a) = {} /\ Cycle(m, <<x>> \o a) /\ Distinct(<<x>> \o a)
    BY <1>2
  <2> QED
    BY <1>3, <2>1, RingsSpliced
<1>5. Cycle(w, <<h>> \o (t \o s))
  <2>1. a \in Runs /\ x \in Lists!Nodes /\ <<h>> \o t = a \o <<x>> /\ Cycle(w, <<x>> \o (s \o a))
    BY <1>2, <1>4
  <2> QED
    BY <2>1, GainedAtTheEnd
<1> QED
  BY <1>1, <1>2, <1>4, <1>5

(* A ring read from one of its nodes, and from another. *)
LEMMA Around ==
  ASSUME NEW m, NEW h \in Lists!Nodes, NEW a \in Runs, NEW e \in Lists!Nodes, NEW b \in Runs,
         Cycle(m, <<h>> \o (a \o (<<e>> \o b)))
  PROVE  Cycle(m, <<e>> \o (b \o (<<h>> \o a)))
<1>1. <<h>> \in Runs /\ <<e>> \in Runs
  BY Single
<1>2. <<h>> \o a \in Runs /\ <<e>> \o b \in Runs
  BY <1>1, Joined
<1>3. Cycle(m, (<<h>> \o a) \o (<<e>> \o b))
  <2>1. (<<h>> \o a) \o (<<e>> \o b) = <<h>> \o (a \o (<<e>> \o b))
    BY <1>1, <1>2, JoinedThrice
  <2> QED
    BY <2>1
<1>4. Cycle(m, (<<e>> \o b) \o (<<h>> \o a))
  BY <1>2, <1>3, CycleTurns
<1>5. (<<e>> \o b) \o (<<h>> \o a) = <<e>> \o (b \o (<<h>> \o a))
  BY <1>1, <1>2, JoinedThrice
<1> QED
  BY <1>4, <1>5

LEMMA AroundDistinct ==
  ASSUME NEW h \in Lists!Nodes, NEW a \in Runs, NEW e \in Lists!Nodes, NEW b \in Runs,
         Distinct(<<h>> \o (a \o (<<e>> \o b)))
  PROVE  /\ Distinct(<<e>> \o (b \o (<<h>> \o a)))
         /\ Over(<<e>> \o (b \o (<<h>> \o a))) = Over(<<h>> \o (a \o (<<e>> \o b)))
         /\ h # e /\ Distinct(a \o b) /\ Over(a \o b) = Over(a) \cup Over(b)
         /\ Over(a \o (<<e>> \o b)) = {e} \cup Over(a) \cup Over(b)
         /\ e \notin Over(a) /\ e \notin Over(b) /\ h \notin Over(a) /\ h \notin Over(b)
<1>1. <<h>> \in Runs /\ <<e>> \in Runs /\ Over(<<h>>) = {h} /\ Over(<<e>>) = {e} /\ Distinct(<<h>>) /\ Distinct(<<e>>)
  BY Single
<1>2. /\ <<h>> \o a \in Runs /\ Over(<<h>> \o a) = {h} \cup Over(a)
      /\ <<e>> \o b \in Runs /\ Over(<<e>> \o b) = {e} \cup Over(b)
  BY <1>1, Joined
<1>3. /\ a \o (<<e>> \o b) \in Runs /\ Over(a \o (<<e>> \o b)) = Over(a) \cup Over(<<e>> \o b)
      /\ b \o (<<h>> \o a) \in Runs /\ Over(b \o (<<h>> \o a)) = Over(b) \cup Over(<<h>> \o a)
      /\ Over(a \o b) = Over(a) \cup Over(b)
  BY <1>2, Joined
<1>4. /\ Over(<<h>> \o (a \o (<<e>> \o b))) = Over(<<h>>) \cup Over(a \o (<<e>> \o b))
      /\ Over(<<e>> \o (b \o (<<h>> \o a))) = Over(<<e>>) \cup Over(b \o (<<h>> \o a))
  BY <1>1, <1>3, Joined
<1>5. Distinct(a \o (<<e>> \o b)) /\ Over(<<h>>) \cap Over(a \o (<<e>> \o b)) = {}
  BY <1>1, <1>3, DistinctJoined
<1>6. Distinct(a) /\ Distinct(<<e>> \o b) /\ Over(a) \cap Over(<<e>> \o b) = {}
  BY <1>2, <1>5, DistinctJoined
<1>7. Distinct(b) /\ Over(<<e>>) \cap Over(b) = {}
  BY <1>1, <1>6, DistinctJoined
<1>8. h # e /\ e \notin Over(a) /\ e \notin Over(b) /\ h \notin Over(a) /\ h \notin Over(b) /\ Over(a) \cap Over(b) = {}
  BY <1>1, <1>2, <1>3, <1>5, <1>6, <1>7
<1>9. Distinct(a \o b)
  BY <1>6, <1>7, <1>8, DistinctJoined
<1>10. Distinct(<<h>> \o a)
  BY <1>1, <1>6, <1>8, DistinctJoined
<1>11. Distinct(b \o (<<h>> \o a))
  <2>1. Over(b) \cap Over(<<h>> \o a) = {}
    BY <1>2, <1>8
  <2> QED
    BY <1>2, <1>7, <1>10, <2>1, DistinctJoined
<1>12. Distinct(<<e>> \o (b \o (<<h>> \o a)))
  <2>1. Over(<<e>>) \cap Over(b \o (<<h>> \o a)) = {}
    BY <1>1, <1>2, <1>3, <1>8
  <2> QED
    BY <1>1, <1>3, <1>11, <2>1, DistinctJoined
<1>13. Over(<<e>> \o (b \o (<<h>> \o a))) = Over(<<h>> \o (a \o (<<e>> \o b)))
  BY <1>1, <1>2, <1>3, <1>4
<1>14. Over(a \o (<<e>> \o b)) = {e} \cup Over(a) \cup Over(b)
  BY <1>2, <1>3
<1> QED
  BY <1>3, <1>8, <1>9, <1>12, <1>13, <1>14

LEMMA RingLosesEntry ==
  ASSUME NEW m \in Links, NEW h \in Lists!Nodes, NEW a \in Runs, NEW e \in Lists!Nodes, NEW b \in Runs,
         Cycle(m, <<h>> \o (a \o (<<e>> \o b))), Distinct(<<h>> \o (a \o (<<e>> \o b)))
  PROVE  LET w == Lists!Unlink(m, e)
         IN  w \in Links /\ Cycle(w, <<h>> \o (a \o b)) /\ Elsewhere(m, w, Over(<<h>> \o (a \o b)))
<1>0. PICK w : w = Lists!Unlink(m, e)
  OBVIOUS
<1>1. <<h>> \in Runs /\ <<h>> # <<>>
  BY Single
<1>2. PICK t : t = b \o (<<h>> \o a)
  OBVIOUS
<1>3. <<h>> \o a \in Runs /\ <<h>> \o a # <<>>
  BY <1>1, Joined
<1>4. t \in Runs /\ t # <<>> /\ Over(t) = Over(b) \cup Over(<<h>> \o a)
  BY <1>2, <1>3, Joined
<1>5. Cycle(m, <<e>> \o t) /\ Distinct(<<e>> \o t)
  BY <1>2, Around, AroundDistinct
<1>6. w \in Links /\ Cycle(w, t) /\ Elsewhere(m, w, Over(t))
  BY <1>0, <1>4, <1>5, RingLoses
<1>7. Cycle(w, (<<h>> \o a) \o b)
  BY <1>2, <1>3, <1>6, CycleTurns
<1>8. (<<h>> \o a) \o b = <<h>> \o (a \o b)
  BY <1>1, JoinedThrice
<1>9. Over(<<h>> \o (a \o b)) = Over(t)
  <2>1. Over((<<h>> \o a) \o b) = Over(<<h>> \o a) \cup Over(b)
    BY <1>3, Joined
  <2> QED
    BY <1>4, <1>8, <2>1
<1>10. w \in Links /\ Cycle(w, <<h>> \o (a \o b)) /\ Elsewhere(m, w, Over(<<h>> \o (a \o b)))
  BY <1>6, <1>7, <1>8, <1>9
<1> QED
  BY <1>0, <1>10

-----------------------------------------------------------------------------
(* The heads that are usable have rings through their entries, and no two of
   them have a node in common. *)
Rings(m, ls, us) ==
  /\ m \in Links /\ ls \in [Heads -> Seq(Entries)] /\ us \subseteq Heads
  /\ \A h \in Heads \ us : ls[h] = <<>>
  /\ \A h \in us : Cycle(m, <<h>> \o ls[h]) /\ Distinct(ls[h])
  /\ \A h, g \in us : h # g => Over(ls[h]) \cap Over(ls[g]) = {}

LEMMA ListsAreRuns ==
  ASSUME NEW s \in Seq(Entries)
  PROVE  s \in Runs /\ Over(s) \subseteq Entries /\ Lists!ToSet(s) = Over(s)
<1>1. s \in Runs
  BY SeqMonotonic DEF Runs, Lists!Nodes
<1>2. Over(s) \subseteq Entries
  BY ElementOfSeq DEF Over
<1>3. DOMAIN s = 1..Len(s)
  BY LenProperties
<1> QED
  BY <1>1, <1>2, <1>3 DEF Lists!ToSet, Over

LEMMA HeadsAndEntriesAreNodes == Heads \subseteq Lists!Nodes /\ Entries \subseteq Lists!Nodes
BY DEF Lists!Nodes

LEMMA RingOf ==
  ASSUME NEW m, NEW ls, NEW us, Rings(m, ls, us), NEW h \in us
  PROVE  /\ h \in Heads /\ h \in Lists!Nodes /\ h \notin Entries /\ m \in Links
         /\ ls[h] \in Seq(Entries) /\ ls[h] \in Runs /\ Over(ls[h]) \subseteq Entries /\ Distinct(ls[h])
         /\ <<h>> \o ls[h] \in Runs /\ Cycle(m, <<h>> \o ls[h]) /\ Distinct(<<h>> \o ls[h])
         /\ Over(<<h>> \o ls[h]) = {h} \cup Over(ls[h])
         /\ \A g \in us : g # h => Over(<<h>> \o ls[h]) \cap Over(<<g>> \o ls[g]) = {}
<1>1. \A g \in us : /\ g \in Heads /\ g \in Lists!Nodes /\ g \notin Entries
                    /\ ls[g] \in Seq(Entries) /\ ls[g] \in Runs /\ Over(ls[g]) \subseteq Entries /\ Distinct(ls[g])
  BY ListsAreRuns, HeadsAndEntriesAreNodes, HeadsAssumption DEF Rings
<1>2. ASSUME NEW g \in us PROVE <<g>> \o ls[g] \in Runs /\ Over(<<g>> \o ls[g]) = {g} \cup Over(ls[g])
  <2>1. g \in Lists!Nodes /\ ls[g] \in Runs
    BY <1>1
  <2>2. <<g>> \in Runs /\ Over(<<g>>) = {g}
    BY <2>1, Single
  <2> QED
    BY <2>1, <2>2, Joined
<1>3. Cycle(m, <<h>> \o ls[h]) /\ m \in Links
  BY DEF Rings
<1>4. Distinct(<<h>> \o ls[h])
  <2>1. <<h>> \in Runs /\ Distinct(<<h>>) /\ Over(<<h>>) = {h}
    BY <1>1, Single
  <2>2. Over(<<h>>) \cap Over(ls[h]) = {}
    BY <1>1, <2>1
  <2> QED
    BY <1>1, <2>1, <2>2, DistinctJoined
<1>5. ASSUME NEW g \in us, g # h PROVE Over(<<h>> \o ls[h]) \cap Over(<<g>> \o ls[g]) = {}
  <2>1. Over(ls[h]) \cap Over(ls[g]) = {}
    BY <1>5 DEF Rings
  <2>2. h \notin Over(ls[g]) /\ g \notin Over(ls[h])
    BY <1>1
  <2>3. Over(<<h>> \o ls[h]) = {h} \cup Over(ls[h]) /\ Over(<<g>> \o ls[g]) = {g} \cup Over(ls[g])
    BY <1>2
  <2> QED
    BY <1>5, <2>1, <2>2, <2>3
<1> QED
  BY <1>1, <1>2, <1>3, <1>4, <1>5

\* The rings of all but the heads touched are as they were.
Kept(m, ls, us, w, ls2, us2, touched) ==
  /\ w \in Links /\ ls2 \in [Heads -> Seq(Entries)] /\ us2 \subseteq Heads
  /\ \A h \in Heads \ us2 : ls2[h] = <<>>
  /\ \A h \in us2 \ touched : h \in us /\ ls2[h] = ls[h] /\ \A n \in Over(<<h>> \o ls[h]) : w[n] = m[n]

Remade(w, ls2, us2, touched) ==
  /\ \A h \in us2 \cap touched : Cycle(w, <<h>> \o ls2[h]) /\ Distinct(ls2[h])
  /\ \A h \in us2 \cap touched, g \in us2 : h # g => Over(ls2[h]) \cap Over(ls2[g]) = {}

LEMMA RingsAfter ==
  ASSUME NEW m, NEW ls, NEW us, Rings(m, ls, us),
         NEW w, NEW ls2, NEW us2, NEW touched,
         Kept(m, ls, us, w, ls2, us2, touched), Remade(w, ls2, us2, touched)
  PROVE  Rings(w, ls2, us2)
<1>0. /\ w \in Links /\ ls2 \in [Heads -> Seq(Entries)] /\ us2 \subseteq Heads
      /\ \A h \in Heads \ us2 : ls2[h] = <<>>
  BY DEF Kept
<1>1. ASSUME NEW h \in us2 PROVE Cycle(w, <<h>> \o ls2[h]) /\ Distinct(ls2[h])
  <2>1. CASE h \in touched
    BY <2>1 DEF Remade
  <2>2. CASE h \notin touched
    <3>1. h \in us /\ ls2[h] = ls[h] /\ \A n \in Over(<<h>> \o ls[h]) : w[n] = m[n]
      BY <2>2 DEF Kept
    <3>2. <<h>> \o ls[h] \in Runs /\ Cycle(m, <<h>> \o ls[h]) /\ Distinct(ls[h])
      BY <3>1, RingOf
    <3> QED
      BY <3>1, <3>2, CycleStays
  <2> QED
    BY <2>1, <2>2
<1>2. ASSUME NEW h \in us2, NEW g \in us2, h # g PROVE Over(ls2[h]) \cap Over(ls2[g]) = {}
  <2>1. CASE h \in touched \/ g \in touched
    BY <1>2, <2>1 DEF Remade
  <2>2. CASE h \notin touched /\ g \notin touched
    BY <1>2, <2>2 DEF Rings, Kept
  <2> QED
    BY <2>1, <2>2
<1> QED
  BY <1>0, <1>1, <1>2 DEF Rings

(* One list changes, and the links of its nodes only. *)
LEMMA OneRingAfter ==
  ASSUME NEW m, NEW ls, NEW us, Rings(m, ls, us), NEW h \in us,
         NEW w \in Links, NEW s \in Seq(Entries), Cycle(w, <<h>> \o s), Distinct(s),
         \A g \in us : g # h => Over(s) \cap Over(ls[g]) = {},
         \A g \in us : g # h => \A n \in Over(<<g>> \o ls[g]) : w[n] = m[n]
  PROVE  Rings(w, [ls EXCEPT ![h] = s], us)
<1> DEFINE ls2 == [ls EXCEPT ![h] = s]
<1>1. us \in SUBSET Heads /\ ls \in [Heads -> Seq(Entries)] /\ \A g \in Heads \ us : ls[g] = <<>>
  BY DEF Rings
<1>2. ls2 \in [Heads -> Seq(Entries)] /\ ls2[h] = s /\ \A g \in Heads : g # h => ls2[g] = ls[g]
  BY <1>1
<1> HIDE DEF ls2
<1>3. Kept(m, ls, us, w, ls2, us, {h})
  BY <1>1, <1>2 DEF Kept
<1>4. Remade(w, ls2, us, {h})
  BY <1>1, <1>2 DEF Remade
<1>5. Rings(w, ls2, us)
  BY <1>3, <1>4, RingsAfter
<1> QED
  BY <1>5 DEF ls2

(* The links of the list that changes change, and those of nodes of no list. *)
LEMMA RingChanged ==
  ASSUME NEW m, NEW ls, NEW us, Rings(m, ls, us), NEW h \in us,
         NEW w \in Links, NEW s \in Seq(Entries), Cycle(w, <<h>> \o s), Distinct(s),
         NEW free, Elsewhere(m, w, free \cup Over(<<h>> \o ls[h])),
         \A g \in us : g # h => free \cap Over(<<g>> \o ls[g]) = {} /\ Over(s) \cap Over(ls[g]) = {}
  PROVE  Rings(w, [ls EXCEPT ![h] = s], us)
<1>1. ASSUME NEW g \in us, g # h, NEW n \in Over(<<g>> \o ls[g]) PROVE w[n] = m[n]
  <2>1. <<g>> \o ls[g] \in Runs
    BY RingOf
  <2>2. n \in Lists!Nodes /\ n \notin free
    BY <1>1, <2>1, RunsHaveEnds
  <2>3. Over(<<h>> \o ls[h]) \cap Over(<<g>> \o ls[g]) = {}
    BY <1>1, RingOf
  <2> QED
    BY <2>2, <2>3 DEF Elsewhere
<1> QED
  BY <1>1, OneRingAfter

(* A node of no ring may be initialised. *)
LEMMA FreeNodeInit ==
  ASSUME NEW m, NEW ls, NEW us, Rings(m, ls, us),
         NEW e \in Lists!Nodes, \A g \in us : e \notin Over(<<g>> \o ls[g])
  PROVE  Rings(Lists!InitListHead(m, e), ls, us)
<1>1. m \in Links /\ ls \in [Heads -> Seq(Entries)] /\ us \in SUBSET Heads /\ \A g \in Heads \ us : ls[g] = <<>>
  BY DEF Rings
<1>2. PICK w : w = Lists!InitListHead(m, e)
  OBVIOUS
<1>3. w \in Links /\ Elsewhere(m, w, {e})
  BY <1>1, <1>2, InitListHeadStores
<1>4. \A g \in us : \A n \in Over(<<g>> \o ls[g]) : w[n] = m[n]
  <2> SUFFICES ASSUME NEW g \in us, NEW n \in Over(<<g>> \o ls[g]) PROVE w[n] = m[n]
    OBVIOUS
  <2>1. <<g>> \o ls[g] \in Runs
    BY RingOf
  <2>2. n \in Lists!Nodes /\ n # e
    BY <2>1, RunsHaveEnds
  <2> QED
    BY <1>3, <2>2 DEF Elsewhere
<1>5. Kept(m, ls, us, w, ls, us, {}) /\ Remade(w, ls, us, {})
  BY <1>1, <1>3, <1>4 DEF Kept, Remade
<1>6. Rings(w, ls, us)
  BY <1>5, RingsAfter
<1> QED
  BY <1>2, <1>6

(* The list around one of its entries. *)
LEMMA Holding ==
  ASSUME NEW s \in Seq(Entries), NEW i \in 1..Len(s)
  PROVE  /\ SubSeq(s, 1, i - 1) \in Seq(Entries) /\ SubSeq(s, i + 1, Len(s)) \in Seq(Entries) /\ s[i] \in Entries
         /\ Len(SubSeq(s, 1, i - 1)) = i - 1
         /\ s = SubSeq(s, 1, i - 1) \o (<<s[i]>> \o SubSeq(s, i + 1, Len(s)))
<1>1. Len(s) \in Nat /\ \A j \in 1..Len(s) : s[j] \in Entries
  BY ElementOfSeq, LenProperties
<1>2. SubSeq(s, 1, i - 1) \in Seq(Entries) /\ Len(SubSeq(s, 1, i - 1)) = i - 1
  <2>1. 1 \in Int /\ i - 1 \in Int /\ \A j \in 1..(i - 1) : s[j] \in Entries
    BY <1>1
  <2> QED
    BY <1>1, <2>1, SubSeqProperties
<1>3. SubSeq(s, i + 1, Len(s)) \in Seq(Entries)
  <2>1. i + 1 \in Int /\ Len(s) \in Int /\ \A j \in i + 1..Len(s) : s[j] \in Entries
    BY <1>1
  <2> QED
    BY <2>1, SubSeqProperties
<1>4. SubSeq(s, 1, i - 1) \o SubSeq(s, (i - 1) + 1, Len(s)) = SubSeq(s, 1, Len(s))
  <2>1. 1 \in 1..Len(s) + 1 /\ i - 1 \in (1 - 1)..Len(s) /\ Len(s) \in (i - 1)..Len(s)
    BY <1>1
  <2> QED
    BY <2>1, ConcatAdjacentSubSeq
<1>5. SubSeq(s, 1, Len(s)) = s
  BY SubSeqFull
<1>6. SubSeq(s, i, Len(s)) = <<s[i]>> \o SubSeq(s, i + 1, Len(s))
  <2>1. Len(s) \in i..Len(s)
    BY <1>1
  <2> QED
    BY <2>1, SubSeqRecursiveFirst
<1>7. (i - 1) + 1 = i
  BY <1>1
<1> QED
  BY <1>1, <1>2, <1>3, <1>4, <1>5, <1>6, <1>7

LEMMA WithoutIs ==
  ASSUME NEW s \in Seq(Entries), Distinct(s), NEW e \in Over(s)
  PROVE  \E a, b \in Seq(Entries) : s = a \o (<<e>> \o b) /\ Lists!Without(s, e) = a \o b
<1>1. PICK i \in 1..Len(s) : s[i] = e
  BY DEF Over
<1>2. DOMAIN s = 1..Len(s)
  BY LenProperties
<1>3. (CHOOSE j \in DOMAIN s : s[j] = e) = i
  <2>1. \A j \in DOMAIN s : s[j] = e => j = i
    BY <1>1, <1>2 DEF Distinct
  <2> QED
    BY <1>1, <1>2, <2>1
<1>4. Lists!Without(s, e) = SubSeq(s, 1, i - 1) \o SubSeq(s, i + 1, Len(s))
  BY <1>3 DEF Lists!Without, Lists!RemoveAt
<1> QED
  BY <1>1, <1>4, Holding

LEMMA UnlinkStep ==
  ASSUME NEW m, NEW ls, NEW us, Rings(m, ls, us), NEW h \in us, NEW e \in Over(ls[h])
  PROVE  LET ls2 == [ls EXCEPT ![h] = Lists!Without(ls[h], e)]
         IN  /\ Rings(Lists!Unlink(m, e), ls2, us)
             /\ \A g \in us : e \notin Over(<<g>> \o ls2[g]) /\ e \notin Over(ls2[g])
<1>1. /\ h \in Heads /\ h \in Lists!Nodes /\ h \notin Entries /\ m \in Links
      /\ ls[h] \in Seq(Entries) /\ ls[h] \in Runs /\ Over(ls[h]) \subseteq Entries /\ Distinct(ls[h])
      /\ Cycle(m, <<h>> \o ls[h]) /\ Distinct(<<h>> \o ls[h]) /\ Over(<<h>> \o ls[h]) = {h} \cup Over(ls[h])
  BY RingOf
<1>2. PICK a, b \in Seq(Entries) : ls[h] = a \o (<<e>> \o b) /\ Lists!Without(ls[h], e) = a \o b
  BY <1>1, WithoutIs
<1>3. a \in Runs /\ b \in Runs /\ a \o b \in Seq(Entries) /\ e \in Lists!Nodes /\ e \in Entries
  BY <1>1, <1>2, ListsAreRuns, ConcatProperties, HeadsAndEntriesAreNodes
<1>4. /\ Distinct(a \o b) /\ Over(a \o b) = Over(a) \cup Over(b) /\ e \notin Over(a \o b)
      /\ Over(a \o b) \subseteq Over(ls[h])
  BY <1>1, <1>2, <1>3, AroundDistinct
<1>5. PICK w, ls2 : w = Lists!Unlink(m, e) /\ ls2 = [ls EXCEPT ![h] = a \o b]
  OBVIOUS
<1>6. w \in Links /\ Cycle(w, <<h>> \o (a \o b)) /\ Elsewhere(m, w, Over(<<h>> \o (a \o b)))
  BY <1>1, <1>2, <1>3, <1>5, RingLosesEntry
<1>7. Elsewhere(m, w, {} \cup Over(<<h>> \o ls[h]))
  <2>1. <<h>> \in Runs /\ Over(<<h>>) = {h} /\ a \o b \in Runs
    BY <1>1, <1>3, Single, Joined
  <2>2. Over(<<h>> \o (a \o b)) = {h} \cup Over(a \o b)
    BY <2>1, Joined
  <2> QED
    BY <1>1, <1>4, <1>6, <2>2 DEF Elsewhere
<1>8. \A g \in us : g # h => {} \cap Over(<<g>> \o ls[g]) = {} /\ Over(a \o b) \cap Over(ls[g]) = {}
  BY <1>4 DEF Rings
<1>9. Rings(w, ls2, us)
  BY <1>3, <1>4, <1>5, <1>6, <1>7, <1>8, RingChanged
<1>10. ASSUME NEW g \in us PROVE e \notin Over(<<g>> \o ls2[g]) /\ e \notin Over(ls2[g])
  <2>1. Over(<<g>> \o ls2[g]) = {g} \cup Over(ls2[g]) /\ g \notin Entries
    BY <1>9, RingOf
  <2>2. CASE g = h
    <3>1. ls2[g] = a \o b
      BY <1>5, <2>2 DEF Rings
    <3> QED
      BY <1>3, <1>4, <2>1, <3>1
  <2>3. CASE g # h
    <3>1. ls2[g] = ls[g]
      BY <1>5, <2>3 DEF Rings
    <3>2. e \notin Over(ls[g])
      BY <2>3 DEF Rings
    <3> QED
      BY <1>3, <2>1, <3>1, <3>2
  <2> QED
    BY <2>2, <2>3
<1> QED
  BY <1>2, <1>5, <1>9, <1>10

LEMMA AddStep ==
  ASSUME NEW m, NEW ls, NEW us, Rings(m, ls, us), NEW h \in us,
         NEW e \in Entries, \A g \in us : e \notin Over(ls[g])
  PROVE  /\ Rings(Lists!AddFirst(m, e, h), [ls EXCEPT ![h] = <<e>> \o ls[h]], us)
         /\ Rings(Lists!AddLast(m, e, h), [ls EXCEPT ![h] = ls[h] \o <<e>>], us)
<1>1. PICK t : t = ls[h]
  OBVIOUS
<1>2. /\ h \in Lists!Nodes /\ m \in Links /\ t \in Seq(Entries) /\ t \in Runs /\ Distinct(t)
      /\ Cycle(m, <<h>> \o t) /\ Distinct(<<h>> \o t) /\ Over(<<h>> \o t) = {h} \cup Over(t)
      /\ h # e /\ e \in Lists!Nodes /\ e \notin Over(t)
  BY <1>1, RingOf, HeadsAndEntriesAreNodes
<1>3. <<e>> \in Seq(Entries) /\ <<e>> \in Runs /\ Over(<<e>>) = {e} /\ Distinct(<<e>>)
  BY <1>2, Single
<1>4. <<e>> \o t \in Seq(Entries) /\ t \o <<e>> \in Seq(Entries)
  BY <1>2, <1>3, ConcatProperties
<1>5. Over(<<e>> \o t) = {e} \cup Over(t) /\ Over(t \o <<e>>) = {e} \cup Over(t)
  BY <1>2, <1>3, Joined
<1>6. Distinct(<<e>> \o t) /\ Distinct(t \o <<e>>)
  BY <1>2, <1>3, DistinctJoined
<1>7. ASSUME NEW g \in us, g # h
      PROVE  {e} \cap Over(<<g>> \o ls[g]) = {} /\ ({e} \cup Over(t)) \cap Over(ls[g]) = {}
  <2>1. Over(<<g>> \o ls[g]) = {g} \cup Over(ls[g]) /\ g \notin Entries
    BY RingOf
  <2>2. Over(t) \cap Over(ls[g]) = {}
    BY <1>1, <1>7 DEF Rings
  <2> QED
    BY <2>1, <2>2
<1>8. Rings(Lists!AddFirst(m, e, h), [ls EXCEPT ![h] = <<e>> \o t], us)
  <2>1. PICK w : w = Lists!AddFirst(m, e, h)
    OBVIOUS
  <2>2. w \in Links /\ Cycle(w, <<h>> \o (<<e>> \o t)) /\ Elsewhere(m, w, {e} \cup Over(<<h>> \o t))
    BY <1>2, <2>1, RingGains DEF Lists!AddFirst
  <2>3. \A g \in us : g # h => {e} \cap Over(<<g>> \o ls[g]) = {} /\ Over(<<e>> \o t) \cap Over(ls[g]) = {}
    BY <1>5, <1>7
  <2>4. Elsewhere(m, w, {e} \cup Over(<<h>> \o ls[h]))
    BY <1>1, <2>2
  <2>5. <<e>> \o t \in Seq(Entries) /\ Distinct(<<e>> \o t)
    BY <1>4, <1>6
  <2> QED
    BY <2>1, <2>2, <2>3, <2>4, <2>5, RingChanged
<1>9. Rings(Lists!AddLast(m, e, h), [ls EXCEPT ![h] = t \o <<e>>], us)
  <2>1. PICK w : w = Lists!AddLast(m, e, h)
    OBVIOUS
  <2>2. w \in Links /\ Cycle(w, <<h>> \o (t \o <<e>>)) /\ Elsewhere(m, w, {e} \cup Over(<<h>> \o t))
    BY <1>2, <2>1, RingGainsLast
  <2>3. \A g \in us : g # h => {e} \cap Over(<<g>> \o ls[g]) = {} /\ Over(t \o <<e>>) \cap Over(ls[g]) = {}
    BY <1>5, <1>7
  <2>4. Elsewhere(m, w, {e} \cup Over(<<h>> \o ls[h]))
    BY <1>1, <2>2
  <2>5. t \o <<e>> \in Seq(Entries) /\ Distinct(t \o <<e>>)
    BY <1>4, <1>6
  <2> QED
    BY <2>1, <2>2, <2>3, <2>4, <2>5, RingChanged
<1> QED
  BY <1>1, <1>8, <1>9

(* A head of no entries may be initialised, again or for the first time. *)
LEMMA HeadInit ==
  ASSUME NEW m, NEW ls, NEW us, Rings(m, ls, us), NEW h \in Heads, ls[h] = <<>>
  PROVE  Rings(Lists!InitListHead(m, h), ls, us \cup {h})
<1>1. m \in Links /\ ls \in [Heads -> Seq(Entries)] /\ us \subseteq Heads /\ \A g \in Heads \ us : ls[g] = <<>>
  BY DEF Rings
<1>2. PICK w : w = Lists!InitListHead(m, h)
  OBVIOUS
<1>3. h \in Lists!Nodes /\ w \in Links /\ Joint(w, h, h) /\ Elsewhere(m, w, {h})
  BY <1>1, <1>2, InitListHeadStores, HeadsAndEntriesAreNodes
<1>4. ASSUME NEW g \in us, g # h, NEW n \in Over(<<g>> \o ls[g]) PROVE w[n] = m[n]
  <2>1. <<g>> \o ls[g] \in Runs /\ Over(<<g>> \o ls[g]) = {g} \cup Over(ls[g]) /\ Over(ls[g]) \subseteq Entries
    BY RingOf
  <2>2. n \in Lists!Nodes /\ n # h
    BY <1>4, <2>1, RunsHaveEnds, HeadsAssumption
  <2> QED
    BY <1>3, <2>2 DEF Elsewhere
<1>5. Kept(m, ls, us, w, ls, us \cup {h}, {h})
  BY <1>1, <1>3, <1>4 DEF Kept
<1>6. Cycle(w, <<h>> \o ls[h]) /\ Distinct(ls[h]) /\ Over(ls[h]) = {}
  <2>1. <<>> \in Runs /\ Len(<<>>) = 0 /\ Over(<<>>) = {}
    BY EmptySeq, RunsHaveEnds DEF Runs
  <2>2. Cycle(w, <<h>> \o <<>>)
    BY <1>3, <2>1, CycleOf
  <2>3. Distinct(<<>>)
    BY <2>1 DEF Distinct
  <2> QED
    BY <2>1, <2>2, <2>3
<1>7. Remade(w, ls, us \cup {h}, {h})
  BY <1>6 DEF Remade
<1> QED
  BY <1>2, <1>5, <1>7, RingsAfter

\* What list_replace makes of the list.
Replaced(s, e, new) == [i \in DOMAIN s |-> IF s[i] = e THEN new ELSE s[i]]

LEMMA ReplacedIs ==
  ASSUME NEW a \in Seq(Entries), NEW e \in Entries, NEW b \in Seq(Entries), NEW new \in Entries,
         e \notin Over(a), e \notin Over(b)
  PROVE  Replaced(a \o (<<e>> \o b), e, new) = a \o (<<new>> \o b)
<1>1. a \in Runs /\ b \in Runs /\ <<e>> \in Runs /\ <<new>> \in Runs
      /\ Len(<<e>>) = 1 /\ Len(<<new>>) = 1 /\ Len(a) \in Nat /\ Len(b) \in Nat
  BY ListsAreRuns, Single, HeadsAndEntriesAreNodes, RunsHaveEnds
<1>2. \A i \in 1..Len(a) : a[i] # e
  BY DEF Over
<1>3. \A i \in 1..Len(b) : b[i] # e
  BY DEF Over
<1> DEFINE Around2(x) == a \o (<<x>> \o b)
<1>4. ASSUME NEW x \in Entries
      PROVE  /\ Around2(x) \in Seq(Entries) /\ Len(Around2(x)) = Len(a) + 1 + Len(b)
             /\ \A i \in 1..Len(a) + 1 + Len(b) :
                  Around2(x)[i] = IF i <= Len(a) THEN a[i] ELSE IF i = Len(a) + 1 THEN x ELSE b[i - Len(a) - 1]
  <2>1. <<x>> \in Seq(Entries) /\ Len(<<x>>) = 1 /\ <<x>>[1] = x
    OBVIOUS
  <2>2. PICK c : c = <<x>> \o b
    OBVIOUS
  <2>3. /\ c \in Seq(Entries) /\ Len(c) = 1 + Len(b)
        /\ \A i \in 1..1 + Len(b) : c[i] = IF i <= 1 THEN <<x>>[i] ELSE b[i - 1]
    BY <2>1, <2>2, ConcatProperties
  <2>4. PICK d : d = a \o c
    OBVIOUS
  <2>5. /\ d \in Seq(Entries) /\ Len(d) = Len(a) + Len(c)
        /\ \A i \in 1..Len(a) + Len(c) : d[i] = IF i <= Len(a) THEN a[i] ELSE c[i - Len(a)]
    BY <2>3, <2>4, ConcatProperties
  <2>6. Len(d) = Len(a) + 1 + Len(b)
    BY <1>1, <2>3, <2>5
  <2>7. ASSUME NEW i \in 1..Len(a) + 1 + Len(b)
        PROVE  d[i] = IF i <= Len(a) THEN a[i] ELSE IF i = Len(a) + 1 THEN x ELSE b[i - Len(a) - 1]
    <3>1. d[i] = IF i <= Len(a) THEN a[i] ELSE c[i - Len(a)]
      <4>1. Len(a) + Len(c) = Len(a) + 1 + Len(b)
        BY <1>1, <2>3
      <4> QED
        BY <2>5, <4>1
    <3>2. ~(i <= Len(a)) => i - Len(a) \in 1..1 + Len(b) /\ (i - Len(a) <= 1 <=> i = Len(a) + 1)
      BY <1>1, <2>7
    <3>3. i = Len(a) + 1 => i - Len(a) = 1
      BY <1>1
    <3> QED
      BY <2>1, <2>3, <3>1, <3>2, <3>3
  <2> QED
    BY <2>2, <2>4, <2>5, <2>6, <2>7
<1>5. PICK s, r : s = Around2(e) /\ r = Around2(new)
  OBVIOUS
<1> HIDE DEF Around2
<1>6. /\ s \in Seq(Entries) /\ r \in Seq(Entries) /\ Len(s) = Len(r)
      /\ \A i \in 1..Len(s) : r[i] = IF s[i] = e THEN new ELSE s[i]
  <2>1. /\ Len(s) = Len(a) + 1 + Len(b) /\ Len(r) = Len(a) + 1 + Len(b) /\ s \in Seq(Entries) /\ r \in Seq(Entries)
    BY <1>4, <1>5
  <2>2. ASSUME NEW i \in 1..Len(a) + 1 + Len(b) PROVE r[i] = IF s[i] = e THEN new ELSE s[i]
    <3>1. s[i] = IF i <= Len(a) THEN a[i] ELSE IF i = Len(a) + 1 THEN e ELSE b[i - Len(a) - 1]
      BY <1>4, <1>5
    <3>2. r[i] = IF i <= Len(a) THEN a[i] ELSE IF i = Len(a) + 1 THEN new ELSE b[i - Len(a) - 1]
      BY <1>4, <1>5
    <3>3. i <= Len(a) => i \in 1..Len(a)
      BY <1>1
    <3>4. ~(i <= Len(a)) /\ i # Len(a) + 1 => i - Len(a) - 1 \in 1..Len(b)
      BY <1>1
    <3> QED
      BY <1>2, <1>3, <3>1, <3>2, <3>3, <3>4
  <2> QED
    BY <2>1, <2>2
<1>7. DOMAIN s = 1..Len(s) /\ DOMAIN r = 1..Len(s) /\ r = [i \in DOMAIN r |-> r[i]]
  BY <1>6, LenProperties
<1>8. Replaced(s, e, new) = r
  BY <1>6, <1>7 DEF Replaced
<1> QED
  BY <1>5, <1>8 DEF Around2

LEMMA ReplaceStep ==
  ASSUME NEW m, NEW ls, NEW us, Rings(m, ls, us), NEW h \in us,
         NEW e \in Over(ls[h]), NEW new \in Entries, \A g \in us : new \notin Over(ls[g])
  PROVE  LET ls2 == [ls EXCEPT ![h] = Replaced(ls[h], e, new)]
         IN  /\ Rings(Lists!Replace(m, e, new), ls2, us)
             /\ \A g \in us : e \notin Over(<<g>> \o ls2[g])
<1>1. /\ h \in Heads /\ h \in Lists!Nodes /\ h \notin Entries /\ m \in Links
      /\ ls[h] \in Seq(Entries) /\ ls[h] \in Runs /\ Over(ls[h]) \subseteq Entries /\ Distinct(ls[h])
      /\ Cycle(m, <<h>> \o ls[h]) /\ Distinct(<<h>> \o ls[h]) /\ Over(<<h>> \o ls[h]) = {h} \cup Over(ls[h])
  BY RingOf
<1>2. PICK a, b \in Seq(Entries) : ls[h] = a \o (<<e>> \o b) /\ Lists!Without(ls[h], e) = a \o b
  BY <1>1, WithoutIs
<1>3. a \in Runs /\ b \in Runs /\ e \in Entries /\ e \in Lists!Nodes /\ new \in Lists!Nodes /\ new \notin Over(ls[h]) /\ new # h
  BY <1>1, <1>2, ListsAreRuns, HeadsAndEntriesAreNodes
<1>4. PICK t : t = b \o (<<h>> \o a)
  OBVIOUS
<1>5. t \in Runs
  BY <1>1, <1>3, <1>4, Single, Joined
<1>6. Cycle(m, <<e>> \o t)
  BY <1>1, <1>2, <1>3, <1>4, Around
<1>7. /\ Distinct(<<e>> \o t) /\ Over(<<e>> \o t) = Over(<<h>> \o ls[h])
      /\ Over(ls[h]) = {e} \cup Over(a) \cup Over(b) /\ e \notin Over(a) /\ e \notin Over(b)
      /\ Distinct(a \o b)
  BY <1>1, <1>2, <1>3, <1>4, AroundDistinct
<1>8. PICK w : w = Lists!Replace(m, e, new)
  OBVIOUS
<1>9. w \in Links /\ Cycle(w, <<new>> \o t) /\ Elsewhere(m, w, {new} \cup Over(<<h>> \o ls[h]))
  BY <1>1, <1>3, <1>5, <1>6, <1>7, <1>8, RingReplaced
<1>10. PICK s : s = a \o (<<new>> \o b)
  OBVIOUS
<1>11. Cycle(w, <<h>> \o s)
  BY <1>1, <1>3, <1>4, <1>9, <1>10, Around
<1>12. Replaced(ls[h], e, new) = s
  <2>1. a \in Seq(Entries) /\ b \in Seq(Entries) /\ e \notin Over(a) /\ e \notin Over(b)
    BY <1>2, <1>7
  <2>2. Replaced(a \o (<<e>> \o b), e, new) = a \o (<<new>> \o b)
    BY <1>3, <2>1, ReplacedIs
  <2> QED
    BY <1>2, <1>10, <2>2
<1>13. s \in Seq(Entries) /\ Distinct(s) /\ Over(s) = {new} \cup Over(a) \cup Over(b)
  <2>1. <<new>> \in Seq(Entries) /\ <<new>> \in Runs /\ Over(<<new>>) = {new} /\ Distinct(<<new>>)
    BY <1>3, Single
  <2>2. <<new>> \o b \in Seq(Entries)
    BY <2>1, ConcatProperties
  <2>3. s \in Seq(Entries)
    BY <1>10, <2>2, ConcatProperties
  <2>4. <<new>> \o b \in Runs /\ Over(<<new>> \o b) = {new} \cup Over(b)
    BY <1>3, <2>1, Joined
  <2>5. Over(s) = {new} \cup Over(a) \cup Over(b)
    BY <1>3, <1>10, <2>4, Joined
  <2>6. Distinct(a) /\ Distinct(b) /\ Over(a) \cap Over(b) = {}
    BY <1>3, <1>7, DistinctJoined
  <2>7. Distinct(<<new>> \o b)
    BY <1>3, <1>7, <2>1, <2>6, DistinctJoined
  <2>8. Over(a) \cap Over(<<new>> \o b) = {}
    BY <1>3, <1>7, <2>4, <2>6
  <2>9. Distinct(s)
    BY <1>3, <1>10, <2>4, <2>6, <2>7, <2>8, DistinctJoined
  <2> QED
    BY <2>3, <2>5, <2>9
<1>14. ASSUME NEW g \in us, g # h
       PROVE  {new} \cap Over(<<g>> \o ls[g]) = {} /\ Over(s) \cap Over(ls[g]) = {}
  <2>1. Over(<<g>> \o ls[g]) = {g} \cup Over(ls[g]) /\ g \notin Entries
    BY RingOf
  <2>2. Over(ls[h]) \cap Over(ls[g]) = {}
    BY <1>14 DEF Rings
  <2> QED
    BY <1>7, <1>13, <2>1, <2>2
<1>15. PICK ls2 : ls2 = [ls EXCEPT ![h] = s]
  OBVIOUS
<1>16. Rings(w, ls2, us)
  BY <1>9, <1>11, <1>13, <1>14, <1>15, RingChanged
<1>17. ASSUME NEW g \in us PROVE e \notin Over(<<g>> \o ls2[g])
  <2>1. Over(<<g>> \o ls2[g]) = {g} \cup Over(ls2[g]) /\ g \notin Entries
    BY <1>16, RingOf
  <2>2. CASE g = h
    <3>1. ls2[g] = s
      BY <1>15, <2>2 DEF Rings
    <3> QED
      BY <1>3, <1>7, <1>13, <2>1, <3>1
  <2>3. CASE g # h
    <3>1. ls2[g] = ls[g]
      BY <1>15, <2>3 DEF Rings
    <3>2. e \notin Over(ls[g])
      BY <2>3 DEF Rings
    <3> QED
      BY <1>3, <2>1, <3>1, <3>2
  <2> QED
    BY <2>2, <2>3
<1> QED
  BY <1>8, <1>12, <1>15, <1>16, <1>17

LEMMA HeadReplaceStep ==
  ASSUME NEW m, NEW ls, NEW us, Rings(m, ls, us), NEW old \in us,
         NEW new \in Heads, new # old, ls[new] = <<>>
  PROVE  Rings(Lists!Replace(m, old, new), [ls EXCEPT ![new] = ls[old], ![old] = <<>>], (us \ {old}) \cup {new})
<1>1. PICK t : t = ls[old]
  OBVIOUS
<1>2. /\ old \in Heads /\ old \in Lists!Nodes /\ m \in Links
      /\ t \in Seq(Entries) /\ t \in Runs /\ Over(t) \subseteq Entries /\ Distinct(t)
      /\ Cycle(m, <<old>> \o t) /\ Distinct(<<old>> \o t) /\ Over(<<old>> \o t) = {old} \cup Over(t)
  BY <1>1, RingOf
<1>3. new \in Lists!Nodes /\ new \notin Over(<<old>> \o t)
  BY <1>2, HeadsAndEntriesAreNodes, HeadsAssumption
<1>4. PICK w : w = Lists!Replace(m, old, new)
  OBVIOUS
<1>5. w \in Links /\ Cycle(w, <<new>> \o t) /\ Elsewhere(m, w, {new} \cup Over(<<old>> \o t))
  BY <1>2, <1>3, <1>4, RingReplaced
<1>6. PICK ls2, us2 : ls2 = [ls EXCEPT ![new] = t, ![old] = <<>>] /\ us2 = (us \ {old}) \cup {new}
  OBVIOUS
<1>7. ls \in [Heads -> Seq(Entries)] /\ us \subseteq Heads /\ \A g \in Heads \ us : ls[g] = <<>>
  BY DEF Rings
<1>8. /\ ls2 \in [Heads -> Seq(Entries)] /\ us2 \subseteq Heads /\ ls2[new] = t /\ ls2[old] = <<>>
      /\ \A g \in Heads : g # new /\ g # old => ls2[g] = ls[g]
  <2>1. <<>> \in Seq(Entries)
    OBVIOUS
  <2> QED
    BY <1>2, <1>6, <1>7, <2>1
<1>9. ASSUME NEW g \in us2, g # new, NEW n \in Over(<<g>> \o ls[g]) PROVE w[n] = m[n]
  <2>1. g \in us /\ g # old /\ g \in Heads
    BY <1>6, <1>7, <1>9
  <2>2. <<g>> \o ls[g] \in Runs /\ Over(<<g>> \o ls[g]) = {g} \cup Over(ls[g]) /\ Over(ls[g]) \subseteq Entries
    BY <2>1, RingOf
  <2>3. n \in Lists!Nodes /\ n # new
    BY <1>9, <2>2, RunsHaveEnds, HeadsAssumption
  <2>4. Over(<<old>> \o t) \cap Over(<<g>> \o ls[g]) = {}
    BY <1>1, <2>1, RingOf
  <2> QED
    BY <1>5, <1>9, <2>3, <2>4 DEF Elsewhere
<1>10. Kept(m, ls, us, w, ls2, us2, {new})
  <2>1. \A g \in Heads \ us2 : ls2[g] = <<>>
    BY <1>6, <1>7, <1>8
  <2>2. \A g \in us2 \ {new} : g \in us /\ ls2[g] = ls[g]
    BY <1>6, <1>7, <1>8
  <2> QED
    BY <1>5, <1>8, <1>9, <2>1, <2>2 DEF Kept
<1>11. Remade(w, ls2, us2, {new})
  <2>1. ASSUME NEW g \in us2, g # new PROVE Over(ls2[new]) \cap Over(ls2[g]) = {}
    <3>1. g \in us /\ g # old /\ ls2[g] = ls[g]
      BY <1>6, <1>7, <1>8, <2>1
    <3> QED
      BY <1>1, <1>8, <3>1 DEF Rings
  <2> QED
    BY <1>2, <1>5, <1>8, <2>1 DEF Remade
<1>12. Rings(w, ls2, us2)
  BY <1>10, <1>11, RingsAfter
<1> QED
  BY <1>1, <1>4, <1>6, <1>8, <1>12

LEMMA CutStep ==
  ASSUME NEW m, NEW ls, NEW us, Rings(m, ls, us), NEW h \in us,
         NEW new \in Heads, new # h, ls[new] = <<>>, NEW i \in 1..Len(ls[h])
  PROVE  Rings(Lists!CutBetween(m, new, h, ls[h][i]),
               [ls EXCEPT ![new] = SubSeq(ls[h], 1, i), ![h] = SubSeq(ls[h], i + 1, Len(ls[h]))],
               us \cup {new})
<1>1. PICK s, a, b : s = ls[h] /\ a = SubSeq(s, 1, i) /\ b = SubSeq(s, i + 1, Len(s))
  OBVIOUS
<1>2. /\ h \in Heads /\ h \in Lists!Nodes /\ m \in Links
      /\ s \in Seq(Entries) /\ s \in Runs /\ Over(s) \subseteq Entries /\ Distinct(s)
      /\ Cycle(m, <<h>> \o s) /\ Distinct(<<h>> \o s) /\ Over(<<h>> \o s) = {h} \cup Over(s)
  BY <1>1, RingOf
<1>3. Len(s) \in Nat /\ i \in 1..Len(s) /\ \A j \in 1..Len(s) : s[j] \in Entries
  BY <1>1, <1>2, ElementOfSeq, LenProperties
<1>4. a \in Seq(Entries) /\ Len(a) = i /\ \A j \in 1..i : a[j] = s[j]
  <2>1. 1 \in Int /\ i \in Int /\ \A j \in 1..i : s[j] \in Entries
    BY <1>3
  <2>2. /\ SubSeq(s, 1, i) \in Seq(Entries) /\ Len(SubSeq(s, 1, i)) = IF 1 <= i THEN i - 1 + 1 ELSE 0
        /\ \A j \in 1..i - 1 + 1 : SubSeq(s, 1, i)[j] = s[1 + j - 1]
    BY <2>1, SubSeqProperties
  <2> QED
    BY <1>1, <1>3, <2>2
<1>5. b \in Seq(Entries)
  <2>1. i + 1 \in Int /\ Len(s) \in Int /\ \A j \in i + 1..Len(s) : s[j] \in Entries
    BY <1>3
  <2> QED
    BY <1>1, <2>1, SubSeqProperties
<1>6. s = a \o b
  <2>1. 1 \in 1..Len(s) + 1 /\ i \in (1 - 1)..Len(s) /\ Len(s) \in i..Len(s)
    BY <1>3
  <2>2. SubSeq(s, 1, i) \o SubSeq(s, i + 1, Len(s)) = SubSeq(s, 1, Len(s))
    BY <1>2, <2>1, ConcatAdjacentSubSeq
  <2> QED
    BY <1>1, <1>2, <2>2, SubSeqFull
<1>7. a \in Runs /\ b \in Runs /\ a # <<>> /\ LastOf(a) = s[i] /\ Over(a) \subseteq Entries /\ Over(b) \subseteq Entries
  BY <1>3, <1>4, <1>5, ListsAreRuns DEF LastOf
<1>8. Distinct(a) /\ Distinct(b) /\ Over(a) \cap Over(b) = {} /\ Over(s) = Over(a) \cup Over(b)
  BY <1>2, <1>6, <1>7, Joined, DistinctJoined
<1>9. new \in Lists!Nodes /\ new \notin Over(<<h>> \o s)
  BY <1>2, HeadsAndEntriesAreNodes, HeadsAssumption
<1>10. PICK w : w = Lists!CutBetween(m, new, h, s[i])
  OBVIOUS
<1>11. w \in Links /\ Cycle(w, <<new>> \o a) /\ Cycle(w, <<h>> \o b) /\ Elsewhere(m, w, {new} \cup Over(<<h>> \o s))
  <2>1. Cycle(m, <<h>> \o (a \o b)) /\ Distinct(<<h>> \o (a \o b)) /\ new \notin Over(<<h>> \o (a \o b))
    BY <1>2, <1>6, <1>9
  <2>2. w = Lists!CutBetween(m, new, h, LastOf(a))
    BY <1>7, <1>10
  <2>3. w \in Links /\ Cycle(w, <<new>> \o a) /\ Cycle(w, <<h>> \o b) /\ Elsewhere(m, w, {new} \cup Over(<<h>> \o (a \o b)))
    BY <1>2, <1>7, <1>9, <2>1, <2>2, RingCut
  <2> QED
    BY <1>6, <2>3
<1>12. PICK ls2, us2 : ls2 = [ls EXCEPT ![new] = a, ![h] = b] /\ us2 = us \cup {new}
  OBVIOUS
<1>13. ls \in [Heads -> Seq(Entries)] /\ us \subseteq Heads /\ \A g \in Heads \ us : ls[g] = <<>>
  BY DEF Rings
<1>14. /\ ls2 \in [Heads -> Seq(Entries)] /\ us2 \subseteq Heads /\ ls2[new] = a /\ ls2[h] = b
       /\ \A g \in Heads : g # new /\ g # h => ls2[g] = ls[g]
  BY <1>2, <1>4, <1>5, <1>12, <1>13
<1>15. ASSUME NEW g \in us2, g \notin {new, h}, NEW n \in Over(<<g>> \o ls[g]) PROVE w[n] = m[n]
  <2>1. g \in us /\ g # h /\ g \in Heads
    BY <1>12, <1>13, <1>15
  <2>2. <<g>> \o ls[g] \in Runs /\ Over(<<g>> \o ls[g]) = {g} \cup Over(ls[g]) /\ Over(ls[g]) \subseteq Entries
    BY <2>1, RingOf
  <2>3. n \in Lists!Nodes /\ n # new
    BY <1>15, <2>2, RunsHaveEnds, HeadsAssumption
  <2>4. Over(<<h>> \o s) \cap Over(<<g>> \o ls[g]) = {}
    BY <1>1, <2>1, RingOf
  <2> QED
    BY <1>11, <1>15, <2>3, <2>4 DEF Elsewhere
<1>16. Kept(m, ls, us, w, ls2, us2, {new, h})
  <2>1. \A g \in Heads \ us2 : ls2[g] = <<>>
    BY <1>12, <1>13, <1>14
  <2>2. \A g \in us2 \ {new, h} : g \in us /\ ls2[g] = ls[g]
    BY <1>12, <1>13, <1>14
  <2> QED
    BY <1>11, <1>14, <1>15, <2>1, <2>2 DEF Kept
<1>17. Remade(w, ls2, us2, {new, h})
  <2>1. ASSUME NEW g \in us2, g \notin {new, h} PROVE Over(s) \cap Over(ls2[g]) = {}
    <3>1. g \in us /\ g # h /\ ls2[g] = ls[g]
      BY <1>12, <1>13, <1>14, <2>1
    <3> QED
      BY <1>1, <3>1 DEF Rings
  <2> QED
    BY <1>8, <1>11, <1>14, <2>1 DEF Remade
<1>18. Rings(w, ls2, us2)
  BY <1>16, <1>17, RingsAfter
<1> QED
  BY <1>1, <1>10, <1>12, <1>18

LEMMA SpliceStep ==
  ASSUME NEW m, NEW ls, NEW us, Rings(m, ls, us), NEW from \in us, NEW h \in us, from # h,
         ls[from] # <<>>
  PROVE  /\ Rings(Lists!SpliceBetween(m, from, h, m[h].next),
                   [ls EXCEPT ![from] = <<>>, ![h] = ls[from] \o ls[h]], us \ {from})
         /\ Rings(Lists!SpliceBetween(m, from, m[h].prev, h),
                   [ls EXCEPT ![from] = <<>>, ![h] = ls[h] \o ls[from]], us \ {from})
<1>1. PICK s, t : s = ls[from] /\ t = ls[h]
  OBVIOUS
<1>2. /\ h \in Heads /\ h \in Lists!Nodes /\ m \in Links
      /\ t \in Seq(Entries) /\ t \in Runs /\ Over(t) \subseteq Entries /\ Distinct(t)
      /\ Cycle(m, <<h>> \o t) /\ Distinct(<<h>> \o t) /\ Over(<<h>> \o t) = {h} \cup Over(t)
  BY <1>1, RingOf
<1>3. /\ from \in Heads /\ from \in Lists!Nodes /\ s # <<>>
      /\ s \in Seq(Entries) /\ s \in Runs /\ Over(s) \subseteq Entries /\ Distinct(s)
      /\ Cycle(m, <<from>> \o s) /\ Distinct(<<from>> \o s) /\ Over(<<from>> \o s) = {from} \cup Over(s)
  BY <1>1, RingOf
<1>4. Over(<<from>> \o s) \cap Over(<<h>> \o t) = {}
  BY <1>1, RingOf
<1>5. ls \in [Heads -> Seq(Entries)] /\ us \subseteq Heads /\ \A g \in Heads \ us : ls[g] = <<>>
  BY DEF Rings
<1>6. ASSUME NEW w, NEW c, c \in Seq(Entries), Distinct(c), Over(c) = Over(s) \cup Over(t),
             w \in Links, Cycle(w, <<h>> \o c), Elsewhere(m, w, Over(s) \cup Over(<<h>> \o t))
      PROVE  Rings(w, [ls EXCEPT ![from] = <<>>, ![h] = c], us \ {from})
  <2>1. PICK ls2, us2 : ls2 = [ls EXCEPT ![from] = <<>>, ![h] = c] /\ us2 = us \ {from}
    OBVIOUS
  <2>2. /\ ls2 \in [Heads -> Seq(Entries)] /\ us2 \subseteq Heads /\ ls2[h] = c /\ ls2[from] = <<>>
        /\ \A g \in Heads : g # h /\ g # from => ls2[g] = ls[g]
    <3>1. <<>> \in Seq(Entries)
      OBVIOUS
    <3> QED
      BY <1>2, <1>3, <1>5, <1>6, <2>1, <3>1
  <2>3. ASSUME NEW g \in us2, g # h, NEW n \in Over(<<g>> \o ls[g]) PROVE w[n] = m[n]
    <3>1. g \in us /\ g # from
      BY <2>1
    <3>2. <<g>> \o ls[g] \in Runs
      BY <3>1, RingOf
    <3>3. n \in Lists!Nodes
      BY <2>3, <3>2, RunsHaveEnds
    <3>4. Over(<<h>> \o t) \cap Over(<<g>> \o ls[g]) = {}
      BY <1>1, <2>3, <3>1, RingOf
    <3>5. Over(<<from>> \o s) \cap Over(<<g>> \o ls[g]) = {}
      BY <1>1, <3>1, RingOf
    <3> QED
      BY <1>3, <1>6, <2>3, <3>3, <3>4, <3>5 DEF Elsewhere
  <2>4. Kept(m, ls, us, w, ls2, us2, {h})
    <3>1. \A g \in Heads \ us2 : ls2[g] = <<>>
      BY <1>5, <2>1, <2>2
    <3>2. \A g \in us2 \ {h} : g \in us /\ ls2[g] = ls[g]
      BY <1>5, <2>1, <2>2
    <3> QED
      BY <1>6, <2>2, <2>3, <3>1, <3>2 DEF Kept
  <2>5. Remade(w, ls2, us2, {h})
    <3>1. ASSUME NEW g \in us2, g # h PROVE Over(ls2[h]) \cap Over(ls2[g]) = {}
      <4>1. g \in us /\ g # from /\ ls2[g] = ls[g]
        BY <1>5, <2>1, <2>2, <3>1
      <4>2. Over(s) \cap Over(ls[g]) = {} /\ Over(t) \cap Over(ls[g]) = {}
        BY <1>1, <3>1, <4>1 DEF Rings
      <4> QED
        BY <1>6, <2>2, <4>1, <4>2
    <3> QED
      BY <1>6, <2>2, <3>1 DEF Remade
  <2>6. Rings(w, ls2, us2)
    BY <2>4, <2>5, RingsAfter
  <2> QED
    BY <2>1, <2>6
<1>7. /\ s \o t \in Seq(Entries) /\ Distinct(s \o t) /\ Over(s \o t) = Over(s) \cup Over(t)
      /\ t \o s \in Seq(Entries) /\ Distinct(t \o s) /\ Over(t \o s) = Over(s) \cup Over(t)
  <2>1. s \o t \in Seq(Entries) /\ t \o s \in Seq(Entries)
    BY <1>2, <1>3, ConcatProperties
  <2>2. Over(s) \cap Over(t) = {} /\ Over(t) \cap Over(s) = {}
    BY <1>2, <1>3, <1>4
  <2>3. Over(s \o t) = Over(s) \cup Over(t) /\ Over(t \o s) = Over(t) \cup Over(s)
    BY <1>2, <1>3, Joined
  <2>4. Distinct(s \o t) /\ Distinct(t \o s)
    BY <1>2, <1>3, <2>2, DistinctJoined
  <2> QED
    BY <2>1, <2>3, <2>4
<1>8. Rings(Lists!SpliceBetween(m, from, h, m[h].next), [ls EXCEPT ![from] = <<>>, ![h] = s \o t], us \ {from})
  <2>1. PICK w : w = Lists!SpliceBetween(m, from, h, m[h].next)
    OBVIOUS
  <2>2. w \in Links /\ Cycle(w, <<h>> \o (s \o t)) /\ Elsewhere(m, w, Over(s) \cup Over(<<h>> \o t))
    BY <1>2, <1>3, <1>4, <2>1, RingsSpliced
  <2> QED
    BY <1>6, <1>7, <2>1, <2>2
<1>9. Rings(Lists!SpliceBetween(m, from, m[h].prev, h), [ls EXCEPT ![from] = <<>>, ![h] = t \o s], us \ {from})
  <2>1. PICK w : w = Lists!SpliceBetween(m, from, m[h].prev, h)
    OBVIOUS
  <2>2. w \in Links /\ Cycle(w, <<h>> \o (t \o s)) /\ Elsewhere(m, w, Over(s) \cup Over(<<h>> \o t))
    BY <1>2, <1>3, <1>4, <2>1, RingsSplicedTail
  <2> QED
    BY <1>6, <1>7, <2>1, <2>2
<1> QED
  BY <1>1, <1>8, <1>9

LEMMA EmptyRing ==
  ASSUME NEW m, NEW ls, NEW us, Rings(m, ls, us), NEW h \in us, ls[h] = <<>>
  PROVE  m[h].next = h /\ m[h].prev = h
<1>1. PICK t : t = ls[h]
  OBVIOUS
<1>2. h \in Lists!Nodes /\ t \in Runs /\ Cycle(m, <<h>> \o t) /\ t = <<>>
  BY <1>1, RingOf
<1>3. Joint(m, h, h)
  BY <1>2, CycleOf
<1> QED
  BY <1>3 DEF Joint

LEMMA FullRing ==
  ASSUME NEW m, NEW ls, NEW us, Rings(m, ls, us), NEW h \in us, ls[h] # <<>>
  PROVE  /\ m[h].next = FirstOf(ls[h]) /\ m[FirstOf(ls[h])].prev = h
         /\ m[h].prev = LastOf(ls[h]) /\ m[LastOf(ls[h])].next = h
         /\ Linked(m, ls[h]) /\ FirstOf(ls[h]) \in Over(ls[h]) /\ LastOf(ls[h]) \in Over(ls[h])
<1>1. PICK t : t = ls[h]
  OBVIOUS
<1>2. h \in Lists!Nodes /\ t \in Runs /\ Cycle(m, <<h>> \o t) /\ t # <<>>
  BY <1>1, RingOf
<1>3. Joint(m, h, FirstOf(t)) /\ Linked(m, t) /\ Joint(m, LastOf(t), h)
  BY <1>2, CycleOf
<1> QED
  BY <1>1, <1>2, <1>3, RunsHaveEnds DEF Joint

-----------------------------------------------------------------------------
(* Every call keeps the rings. *)
RingsHold == Rings(link, list, usable)

LEMMA ListsAreTyped ==
  ASSUME RingsHold
  PROVE  /\ link \in Links /\ list \in [Heads -> Seq(Entries)] /\ usable \subseteq Heads
         /\ \A h \in Heads : list[h] \in Seq(Entries) /\ Lists!ToSet(list[h]) = Over(list[h])
         /\ \A h \in Heads \ usable : list[h] = <<>>
BY ListsAreRuns DEF RingsHold, Rings

LEMMA OfNoList ==
  ASSUME RingsHold, NEW e, e \notin Lists!InSome PROVE \A g \in usable : e \notin Over(list[g])
BY ListsAreTyped DEF Lists!InSome

LEMMA ListInitKeepsRings ==
  ASSUME RingsHold, NEW h \in Heads, Lists!ListInit(h) PROVE RingsHold'
<1>1. list[h] = <<>> /\ link' = Lists!InitListHead(link, h) /\ usable' = usable \cup {h}
  BY ListsAreTyped DEF Lists!ListInit
<1>2. list' = list
  BY <1>1, ListsAreTyped DEF Lists!ListInit
<1>3. Rings(Lists!InitListHead(link, h), list, usable \cup {h})
  BY <1>1, HeadInit DEF RingsHold
<1> QED
  BY <1>1, <1>2, <1>3 DEF RingsHold

LEMMA ListAddKeepsRings ==
  ASSUME RingsHold, NEW h \in Heads, NEW e \in Entries, Lists!ListAdd(e, h) PROVE RingsHold'
<1>1. h \in usable /\ \A g \in usable : e \notin Over(list[g])
  BY OfNoList DEF Lists!ListAdd
<1>2. /\ Rings(Lists!AddFirst(link, e, h), [list EXCEPT ![h] = <<e>> \o list[h]], usable)
      /\ Rings(Lists!AddLast(link, e, h), [list EXCEPT ![h] = list[h] \o <<e>>], usable)
  BY <1>1, AddStep DEF RingsHold
<1> QED
  BY <1>2 DEF RingsHold, Lists!ListAdd

LEMMA ListDelKeepsRings ==
  ASSUME RingsHold, NEW h \in Heads, NEW e \in Entries, Lists!ListDel(e, h) PROVE RingsHold'
<1>1. h \in usable /\ e \in Over(list[h]) /\ e \in Lists!Nodes
  BY ListsAreTyped, HeadsAndEntriesAreNodes DEF Lists!ListDel
<1>2. PICK w, ls : w = Lists!Unlink(link, e) /\ ls = [list EXCEPT ![h] = Lists!Without(list[h], e)]
  OBVIOUS
<1>3. Rings(w, ls, usable) /\ \A g \in usable : e \notin Over(<<g>> \o ls[g])
  BY <1>1, <1>2, UnlinkStep DEF RingsHold
<1>4. Rings(Lists!InitListHead(w, e), ls, usable)
  BY <1>1, <1>3, FreeNodeInit
<1>5. list' = ls /\ usable' = usable /\ (link' = w \/ link' = Lists!InitListHead(w, e))
  BY <1>2 DEF Lists!ListDel
<1> QED
  BY <1>3, <1>4, <1>5 DEF RingsHold

LEMMA ListMoveKeepsRings ==
  ASSUME RingsHold, NEW h \in Heads, NEW from \in Heads, NEW e \in Entries,
         Lists!ListMove(e, from, h)
  PROVE  RingsHold'
<1>1. h \in usable /\ from \in usable /\ e \in Over(list[from])
  BY ListsAreTyped DEF Lists!ListMove
<1>2. PICK w, ls : w = Lists!Unlink(link, e) /\ ls = [list EXCEPT ![from] = Lists!Without(list[from], e)]
  OBVIOUS
<1>3. Rings(w, ls, usable) /\ \A g \in usable : e \notin Over(ls[g])
  BY <1>1, <1>2, UnlinkStep DEF RingsHold
<1>4. /\ Rings(Lists!AddFirst(w, e, h), [ls EXCEPT ![h] = <<e>> \o ls[h]], usable)
      /\ Rings(Lists!AddLast(w, e, h), [ls EXCEPT ![h] = ls[h] \o <<e>>], usable)
  BY <1>1, <1>3, AddStep
<1>5. /\ usable' = usable
      /\ \/ link' = Lists!AddFirst(w, e, h) /\ list' = [ls EXCEPT ![h] = <<e>> \o ls[h]]
         \/ link' = Lists!AddLast(w, e, h) /\ list' = [ls EXCEPT ![h] = ls[h] \o <<e>>]
  BY <1>2 DEF Lists!ListMove
<1> QED
  BY <1>4, <1>5 DEF RingsHold

LEMMA ListReplaceKeepsRings ==
  ASSUME RingsHold, NEW h \in Heads, NEW e \in Entries, NEW new \in Entries,
         Lists!ListReplace(e, new, h)
  PROVE  RingsHold'
<1>1. h \in usable /\ e \in Over(list[h]) /\ e \in Lists!Nodes /\ \A g \in usable : new \notin Over(list[g])
  BY ListsAreTyped, OfNoList, HeadsAndEntriesAreNodes DEF Lists!ListReplace
<1>2. PICK w, ls : w = Lists!Replace(link, e, new) /\ ls = [list EXCEPT ![h] = Replaced(list[h], e, new)]
  OBVIOUS
<1>3. Rings(w, ls, usable) /\ \A g \in usable : e \notin Over(<<g>> \o ls[g])
  BY <1>1, <1>2, ReplaceStep DEF RingsHold
<1>4. Rings(Lists!InitListHead(w, e), ls, usable)
  BY <1>1, <1>3, FreeNodeInit
<1>5. list' = ls /\ usable' = usable /\ (link' = w \/ link' = Lists!InitListHead(w, e))
  BY <1>2 DEF Lists!ListReplace, Replaced
<1> QED
  BY <1>3, <1>4, <1>5 DEF RingsHold

LEMMA HeadReplaceKeepsRings ==
  ASSUME RingsHold, NEW old \in Heads, NEW new \in Heads, Lists!HeadReplace(old, new)
  PROVE  RingsHold'
<1>1. old \in usable /\ new # old /\ list[new] = <<>>
  BY ListsAreTyped DEF Lists!HeadReplace
<1>2. PICK w, ls : w = Lists!Replace(link, old, new) /\ ls = [list EXCEPT ![new] = list[old], ![old] = <<>>]
  OBVIOUS
<1>3. Rings(w, ls, (usable \ {old}) \cup {new}) /\ ls[old] = <<>>
  <2>1. Rings(link, list, usable)
    BY DEF RingsHold
  <2>2. Rings(Lists!Replace(link, old, new), [list EXCEPT ![new] = list[old], ![old] = <<>>],
              (usable \ {old}) \cup {new})
    BY <1>1, <2>1, HeadReplaceStep
  <2>3. ls[old] = <<>>
    BY <1>1, <1>2, ListsAreTyped
  <2> QED
    BY <1>2, <2>2, <2>3
<1>4. Rings(Lists!InitListHead(w, old), ls, ((usable \ {old}) \cup {new}) \cup {old})
  BY <1>3, HeadInit
<1>5. ((usable \ {old}) \cup {new}) \cup {old} = usable \cup {new}
  BY <1>1
<1>6. /\ list' = ls
      /\ \/ link' = w /\ usable' = (usable \ {old}) \cup {new}
         \/ link' = Lists!InitListHead(w, old) /\ usable' = usable \cup {new}
  BY <1>2 DEF Lists!HeadReplace
<1> QED
  BY <1>3, <1>4, <1>5, <1>6 DEF RingsHold

LEMMA RotateKeepsRings ==
  ASSUME RingsHold, NEW h \in Heads, Lists!ListRotateLeft(h) PROVE RingsHold'
<1>1. /\ h \in usable /\ usable' = usable /\ Rings(link, list, usable)
      /\ link' = Lists!RotateLeft(link, h)
      /\ list' = [list EXCEPT ![h] = IF list[h] = <<>> THEN list[h] ELSE Tail(list[h]) \o <<Head(list[h])>>]
  BY DEF Lists!ListRotateLeft, RingsHold
<1>2. /\ link \in Links /\ list \in [Heads -> Seq(Entries)] /\ h \in Lists!Nodes /\ h \notin Entries
      /\ list[h] \in Seq(Entries) /\ list[h] \in Runs /\ Distinct(list[h])
      /\ Cycle(link, <<h>> \o list[h]) /\ Distinct(<<h>> \o list[h]) /\ Over(list[h]) \subseteq Entries
  BY <1>1, RingOf DEF Rings
<1>3. CASE list[h] = <<>>
  <2>1. link[h].next = h
    BY <1>1, <1>3, EmptyRing
  <2>2. link' = link
    BY <1>1, <2>1 DEF Lists!RotateLeft, Lists!IsEmpty
  <2>3. list' = list
    BY <1>1, <1>2, <1>3
  <2> QED
    BY <1>1, <2>2, <2>3 DEF RingsHold
<1>4. CASE list[h] # <<>>
  <2>1. PICK e : e = FirstOf(list[h])
    OBVIOUS
  <2>2. /\ link[h].next = e /\ e # h /\ e \in Over(list[h]) /\ e \in Entries /\ Len(list[h]) \in Nat
        /\ 1 \in 1..Len(list[h]) /\ list[h][1] = e /\ Head(list[h]) = e
    BY <1>2, <1>4, <2>1, CycleOf, RunsHaveEnds DEF Joint, FirstOf
  <2>3. PICK w, ls : w = Lists!Unlink(link, e) /\ ls = [list EXCEPT ![h] = Lists!Without(list[h], e)]
    OBVIOUS
  <2>4. Rings(w, ls, usable) /\ \A g \in usable : e \notin Over(ls[g])
    BY <1>1, <2>2, <2>3, UnlinkStep
  <2>5. Lists!Without(list[h], e) = Tail(list[h])
    <3>1. (CHOOSE i \in DOMAIN list[h] : list[h][i] = e) = 1
      <4>1. DOMAIN list[h] = 1..Len(list[h])
        BY <1>2, LenProperties
      <4>2. \A i \in DOMAIN list[h] : list[h][i] = e => i = 1
        BY <1>2, <2>2, <4>1 DEF Distinct
      <4> QED
        BY <2>2, <4>1, <4>2
    <3>2. Lists!Without(list[h], e) = SubSeq(list[h], 1, 1 - 1) \o SubSeq(list[h], 1 + 1, Len(list[h]))
      BY <3>1 DEF Lists!Without, Lists!RemoveAt
    <3>3. SubSeq(list[h], 1, 0) = <<>>
      BY SubSeqEmpty
    <3>4. Tail(list[h]) \in Seq(Entries) /\ Tail(list[h]) = SubSeq(list[h], 2, Len(list[h]))
      BY <1>2, <1>4, HeadTailProperties, TailIsSubSeq
    <3> QED
      BY <3>2, <3>3, <3>4, ConcatEmptySeq
  <2>6. ls[h] = Tail(list[h]) /\ h \in usable /\ ls \in [Heads -> Seq(Entries)]
    BY <1>1, <1>2, <2>3, <2>4, <2>5 DEF Rings
  <2>7. Rings(Lists!AddLast(w, e, h), [ls EXCEPT ![h] = ls[h] \o <<e>>], usable)
    BY <1>1, <2>2, <2>4, AddStep
  <2>8. link' = Lists!AddLast(w, e, h)
    BY <1>1, <2>2, <2>3 DEF Lists!RotateLeft, Lists!IsEmpty
  <2>9. list' = [ls EXCEPT ![h] = ls[h] \o <<e>>]
    BY <1>1, <1>2, <1>4, <2>2, <2>3, <2>6
  <2> QED
    BY <1>1, <2>7, <2>8, <2>9 DEF RingsHold
<1> QED
  BY <1>3, <1>4

LEMMA SpliceKeepsRings ==
  ASSUME RingsHold, NEW from \in Heads, NEW h \in Heads, Lists!ListSplice(from, h)
  PROVE  RingsHold'
<1>1. from \in usable /\ h \in usable /\ from # h /\ Rings(link, list, usable)
  BY DEF Lists!ListSplice, RingsHold
<1>2. PICK tail \in BOOLEAN, init \in BOOLEAN :
        LET after == IF tail THEN Lists!SpliceTail(link, from, h) ELSE Lists!Splice(link, from, h)
            moved == list[from] # <<>>
        IN  /\ link' = IF init /\ moved THEN Lists!InitListHead(after, from) ELSE after
            /\ usable' = IF init \/ ~moved THEN usable ELSE usable \ {from}
            /\ list' = [list EXCEPT ![from] = <<>>,
                          ![h] = IF tail THEN list[h] \o list[from] ELSE list[from] \o list[h]]
  BY <1>1 DEF Lists!ListSplice
<1>3. PICK after, ls : /\ after = IF tail THEN Lists!SpliceTail(link, from, h) ELSE Lists!Splice(link, from, h)
                       /\ ls = [list EXCEPT ![from] = <<>>,
                                  ![h] = IF tail THEN list[h] \o list[from] ELSE list[from] \o list[h]]
  OBVIOUS
<1>4. /\ link \in Links /\ from \in Lists!Nodes /\ from \in Heads /\ h \in Heads
      /\ list \in [Heads -> Seq(Entries)]
      /\ list[from] \in Runs /\ list[from] \in Seq(Entries) /\ list[h] \in Seq(Entries)
      /\ Cycle(link, <<from>> \o list[from]) /\ Over(list[from]) \subseteq Entries /\ from \notin Entries
  BY <1>1, RingOf, ListsAreTyped
<1>5. CASE list[from] = <<>>
  <2>1. link[from].next = from
    BY <1>1, <1>5, EmptyRing
  <2>2. link' = link /\ usable' = usable
    BY <1>2, <1>5, <2>1 DEF Lists!SpliceTail, Lists!Splice, Lists!IsEmpty
  <2>3. list[h] \o <<>> = list[h] /\ <<>> \o list[h] = list[h]
    BY <1>4, ConcatEmptySeq
  <2>4. list' = list
    BY <1>2, <1>4, <1>5, <2>3
  <2> QED
    BY <1>1, <2>2, <2>4 DEF RingsHold
<1>6. CASE list[from] # <<>>
  <2>1. link[from].next # from
    <3>1. link[from].next = FirstOf(list[from])
      BY <1>4, <1>6, CycleOf DEF Joint
    <3> QED
      BY <1>4, <1>6, <3>1, RunsHaveEnds
  <2>2. after = IF tail THEN Lists!SpliceBetween(link, from, link[h].prev, h)
                ELSE Lists!SpliceBetween(link, from, h, link[h].next)
    BY <1>3, <2>1 DEF Lists!SpliceTail, Lists!Splice, Lists!IsEmpty
  <2>3. Rings(after, ls, usable \ {from})
    <3>1. /\ Rings(Lists!SpliceBetween(link, from, h, link[h].next),
                   [list EXCEPT ![from] = <<>>, ![h] = list[from] \o list[h]], usable \ {from})
          /\ Rings(Lists!SpliceBetween(link, from, link[h].prev, h),
                   [list EXCEPT ![from] = <<>>, ![h] = list[h] \o list[from]], usable \ {from})
      BY <1>1, <1>6, SpliceStep
    <3>2. CASE tail
      BY <1>3, <2>2, <3>1, <3>2
    <3>3. CASE ~tail
      BY <1>3, <2>2, <3>1, <3>3
    <3> QED
      BY <3>2, <3>3
  <2>4. ls[from] = <<>>
    BY <1>1, <1>3, <1>4
  <2>5. Rings(Lists!InitListHead(after, from), ls, (usable \ {from}) \cup {from})
    BY <1>4, <2>3, <2>4, HeadInit
  <2>6. (usable \ {from}) \cup {from} = usable
    BY <1>1
  <2>7. /\ list' = ls
        /\ init => link' = Lists!InitListHead(after, from) /\ usable' = usable
        /\ ~init => link' = after /\ usable' = usable \ {from}
    BY <1>2, <1>3, <1>6
  <2> QED
    BY <2>3, <2>5, <2>6, <2>7 DEF RingsHold
<1> QED
  BY <1>5, <1>6

LEMMA CutKeepsRings ==
  ASSUME RingsHold, NEW new \in Heads, NEW h \in Heads, NEW entry \in Lists!Nodes,
         Lists!ListCutPosition(new, h, entry)
  PROVE  RingsHold'
<1>1. /\ h \in usable /\ new # h /\ list[new] = <<>> /\ Rings(link, list, usable)
      /\ entry \in Over(list[h]) \cup {h} /\ link' = Lists!CutPosition(link, new, h, entry)
      /\ usable' = IF list[h] = <<>> THEN usable ELSE usable \cup {new}
  BY ListsAreTyped DEF Lists!ListCutPosition, RingsHold
<1>2. PICK s, at : s = list[h] /\ at = IF entry = h THEN 0 ELSE CHOOSE i \in DOMAIN s : s[i] = entry
  OBVIOUS
<1>3. /\ list \in [Heads -> Seq(Entries)] /\ s \in Seq(Entries) /\ s \in Runs /\ h \notin Entries
      /\ Over(s) \subseteq Entries /\ Distinct(s) /\ Len(s) \in Nat /\ DOMAIN s = 1..Len(s)
  <2>1. list \in [Heads -> Seq(Entries)] /\ h \in usable
    BY <1>1 DEF Rings, Lists!ListCutPosition
  <2>2. /\ list[h] \in Seq(Entries) /\ list[h] \in Runs /\ h \notin Entries
        /\ Over(list[h]) \subseteq Entries /\ Distinct(list[h])
    BY <1>1, <2>1, RingOf
  <2>3. s \in Seq(Entries)
    BY <1>2, <2>2
  <2> QED
    BY <1>2, <2>1, <2>2, <2>3, LenProperties
<1>4. list' = [list EXCEPT ![new] = SubSeq(s, 1, at), ![h] = SubSeq(s, at + 1, Len(s))]
  <2>1. list' = [list EXCEPT ![new] = SubSeq(s, 1, at), ![h] = SubSeq(@, at + 1, Len(@))]
    BY <1>2 DEF Lists!ListCutPosition
  <2> QED
    BY <1>1, <1>2, <1>3, <2>1
<1>5. ASSUME at = 0 PROVE list' = list
  <2>1. SubSeq(s, 1, 0) = <<>>
    BY SubSeqEmpty
  <2>2. SubSeq(s, 0 + 1, Len(s)) = s
    BY <1>3, SubSeqFull
  <2> QED
    BY <1>1, <1>2, <1>3, <1>4, <1>5, <2>1, <2>2
<1>6. CASE s = <<>>
  <2>1. entry = h /\ at = 0
    BY <1>1, <1>2, <1>3, <1>6, RunsHaveEnds
  <2>2. link[h].next = h
    <3>1. list[h] = <<>>
      BY <1>2, <1>6
    <3> QED
      BY <1>1, <3>1, EmptyRing
  <2>3. link' = link /\ usable' = usable
    BY <1>1, <1>2, <1>6, <2>2 DEF Lists!CutPosition, Lists!IsEmpty
  <2> QED
    BY <1>1, <1>5, <2>1, <2>3 DEF RingsHold
<1>7. CASE s # <<>>
  <2>1. /\ link[h].next = FirstOf(s) /\ link[h].prev = LastOf(s)
        /\ FirstOf(s) \in Over(s) /\ FirstOf(s) # h /\ usable' = usable \cup {new}
    BY <1>1, <1>2, <1>3, <1>7, FullRing
  <2>2. CASE entry = h
    <3>1. link' = Lists!InitListHead(link, new)
      BY <1>1, <2>1, <2>2 DEF Lists!CutPosition, Lists!IsEmpty
    <3>2. list' = list
      BY <1>2, <1>5, <2>2
    <3>3. Rings(Lists!InitListHead(link, new), list, usable \cup {new})
      BY <1>1, HeadInit
    <3> QED
      BY <2>1, <3>1, <3>2, <3>3 DEF RingsHold
  <2>3. CASE entry # h
    <3>1. entry \in Over(s)
      BY <1>1, <1>2, <2>3
    <3>2. at \in 1..Len(s) /\ s[at] = entry
      BY <1>2, <1>3, <2>3, <3>1 DEF Over
    <3>3. FirstOf(s) = LastOf(s) => entry = FirstOf(s)
      <4>1. ASSUME FirstOf(s) = LastOf(s) PROVE 1 = Len(s)
        BY <1>3, <1>7, <4>1, RunsHaveEnds DEF Distinct, FirstOf, LastOf
      <4> QED
        BY <3>2, <4>1 DEF FirstOf
    <3>4. link' = Lists!CutBetween(link, new, h, entry)
      BY <1>1, <2>1, <2>3, <3>3 DEF Lists!CutPosition, Lists!IsEmpty, Lists!IsSingular
    <3>5. Rings(Lists!CutBetween(link, new, h, s[at]),
                [list EXCEPT ![new] = SubSeq(s, 1, at), ![h] = SubSeq(s, at + 1, Len(s))], usable \cup {new})
      <4>1. at \in 1..Len(list[h])
        BY <1>2, <3>2
      <4>2. Rings(Lists!CutBetween(link, new, h, list[h][at]),
                  [list EXCEPT ![new] = SubSeq(list[h], 1, at), ![h] = SubSeq(list[h], at + 1, Len(list[h]))],
                  usable \cup {new})
        BY <1>1, <4>1, CutStep
      <4> QED
        BY <1>2, <4>2
    <3> QED
      BY <1>4, <2>1, <3>2, <3>4, <3>5 DEF RingsHold
  <2> QED
    BY <2>2, <2>3
<1> QED
  BY <1>6, <1>7

LEMMA OperationsKeepRings == ASSUME RingsHold, Lists!Operation PROVE RingsHold'
<1>1. CASE \E h \in Heads : Lists!ListInit(h) \/ Lists!ListRotateLeft(h)
  BY <1>1, ListInitKeepsRings, RotateKeepsRings
<1>2. CASE \E h \in Heads, e \in Entries : Lists!ListAdd(e, h) \/ Lists!ListDel(e, h)
  BY <1>2, ListAddKeepsRings, ListDelKeepsRings
<1>3. CASE \E h, from \in Heads, e \in Entries : Lists!ListMove(e, from, h)
  BY <1>3, ListMoveKeepsRings
<1>4. CASE \E h \in Heads, e, new \in Entries : Lists!ListReplace(e, new, h)
  BY <1>4, ListReplaceKeepsRings
<1>5. CASE \E old, new \in Heads : Lists!HeadReplace(old, new) \/ Lists!ListSplice(old, new)
  BY <1>5, HeadReplaceKeepsRings, SpliceKeepsRings
<1>6. CASE \E new, h \in Heads, entry \in Lists!Nodes : Lists!ListCutPosition(new, h, entry)
  BY <1>6, CutKeepsRings
<1> QED
  BY <1>1, <1>2, <1>3, <1>4, <1>5, <1>6 DEF Lists!Operation

-----------------------------------------------------------------------------
(* The loops that read one entry ahead. *)
Directions == {"next", "prev"}

\* The j-th stop of a loop over the entries all of head.
Stop(all, head, j) == IF j <= Len(all) THEN all[j] ELSE head

WalkIn(w, m, ls, us) ==
  /\ w \in [to : Directions, head : Heads, pos : Lists!Nodes, n : Lists!Nodes, seen : Seq(Entries), all : Seq(Entries)]
  /\ w.head \in us /\ Distinct(w.all)
  /\ Len(w.seen) <= Len(w.all) /\ \A i \in 1..Len(w.seen) : w.seen[i] = w.all[i]
  /\ w.pos = Stop(w.all, w.head, Len(w.seen) + 1)
  /\ Len(w.seen) < Len(w.all) => w.n = Stop(w.all, w.head, Len(w.seen) + 2)
  /\ \A j \in Len(w.seen) + 2..Len(w.all) :
       w.all[j] \in Over(ls[w.head]) /\ m[w.all[j]][w.to] = Stop(w.all, w.head, j + 1)

WalkHolds == walk # Lists!NoWalk => WalkIn(walk, link, list, usable)

(* The pointers of an entry of a list, and those to it. *)
LEMMA Neighbours ==
  ASSUME NEW m, NEW ls, NEW us, Rings(m, ls, us), NEW h \in us, NEW e \in Over(ls[h])
  PROVE  /\ e \in Lists!Nodes /\ e \in Entries
         /\ m[e].next \in Lists!Nodes /\ m[m[e].next].prev = e
         /\ m[e].prev \in Lists!Nodes /\ m[m[e].prev].next = e
<1>1. /\ h \in Lists!Nodes /\ m \in Links
      /\ ls[h] \in Seq(Entries) /\ Distinct(ls[h]) /\ Over(ls[h]) \subseteq Entries
      /\ Cycle(m, <<h>> \o ls[h])
  BY RingOf
<1>2. PICK a, b \in Seq(Entries) : ls[h] = a \o (<<e>> \o b) /\ Lists!Without(ls[h], e) = a \o b
  BY <1>1, WithoutIs
<1>3. a \in Runs /\ b \in Runs /\ e \in Lists!Nodes /\ e \in Entries
  BY <1>1, <1>2, ListsAreRuns, HeadsAndEntriesAreNodes
<1>4. PICK t : t = b \o (<<h>> \o a)
  OBVIOUS
<1>5. t \in Runs /\ t # <<>>
  <2>1. <<h>> \in Runs /\ <<h>> # <<>>
    BY <1>1, Single
  <2>2. <<h>> \o a \in Runs /\ <<h>> \o a # <<>>
    BY <1>3, <2>1, Joined
  <2> QED
    BY <1>3, <1>4, <2>2, Joined
<1>6. Cycle(m, <<e>> \o t)
  BY <1>1, <1>2, <1>3, <1>4, Around
<1>7. Joint(m, e, FirstOf(t)) /\ Joint(m, LastOf(t), e)
  BY <1>3, <1>5, <1>6, CycleOf
<1>8. FirstOf(t) \in Lists!Nodes /\ LastOf(t) \in Lists!Nodes
  BY <1>5, RunsHaveEnds
<1> QED
  BY <1>3, <1>7, <1>8 DEF Joint

LEMMA WithoutLeaves ==
  ASSUME NEW s \in Seq(Entries), Distinct(s), NEW e \in Over(s)
  PROVE  Lists!Without(s, e) \in Seq(Entries) /\ Over(Lists!Without(s, e)) = Over(s) \ {e}
<1>1. PICK a, b \in Seq(Entries) : s = a \o (<<e>> \o b) /\ Lists!Without(s, e) = a \o b
  BY WithoutIs
<1>2. /\ a \in Runs /\ b \in Runs /\ e \in Lists!Nodes /\ <<e>> \in Runs /\ Over(<<e>>) = {e}
      /\ a \o b \in Seq(Entries)
  BY <1>1, ListsAreRuns, HeadsAndEntriesAreNodes, Single, ConcatProperties
<1>3. <<e>> \o b \in Runs /\ Over(<<e>> \o b) = {e} \cup Over(b) /\ Over(a \o b) = Over(a) \cup Over(b)
  BY <1>2, Joined
<1>4. Over(s) = Over(a) \cup {e} \cup Over(b)
  BY <1>1, <1>2, <1>3, Joined
<1>5. Distinct(<<e>> \o b) /\ Over(a) \cap Over(<<e>> \o b) = {}
  BY <1>1, <1>2, <1>3, DistinctJoined
<1>6. Over(<<e>>) \cap Over(b) = {}
  BY <1>2, <1>5, DistinctJoined
<1> QED
  BY <1>1, <1>2, <1>3, <1>4, <1>5, <1>6

LEMMA AddChanges ==
  ASSUME NEW m, NEW ls, NEW us, Rings(m, ls, us), NEW h \in us,
         NEW e \in Entries, e \notin Over(ls[h])
  PROVE  /\ Elsewhere(m, Lists!AddFirst(m, e, h), {e} \cup Over(<<h>> \o ls[h]))
         /\ Elsewhere(m, Lists!AddLast(m, e, h), {e} \cup Over(<<h>> \o ls[h]))
<1>1. PICK t : t = ls[h]
  OBVIOUS
<1>2. /\ h \in Lists!Nodes /\ m \in Links /\ t \in Runs
      /\ Cycle(m, <<h>> \o t) /\ Distinct(<<h>> \o t) /\ Over(<<h>> \o t) = {h} \cup Over(t)
      /\ h # e /\ e \in Lists!Nodes /\ e \notin Over(t)
  BY <1>1, RingOf, HeadsAndEntriesAreNodes
<1>3. Elsewhere(m, Lists!AddFirst(m, e, h), {e} \cup Over(<<h>> \o t))
  BY <1>2, RingGains DEF Lists!AddFirst
<1>4. Elsewhere(m, Lists!AddLast(m, e, h), {e} \cup Over(<<h>> \o t))
  BY <1>2, RingGainsLast
<1> QED
  BY <1>1, <1>3, <1>4

LEMMA WalkGoesOn ==
  ASSUME NEW w, NEW m, NEW ls, NEW us, WalkIn(w, m, ls, us), NEW m2, NEW ls2, w.head \in us,
         \A j \in Len(w.seen) + 2..Len(w.all) :
           w.all[j] \in Over(ls2[w.head]) /\ m2[w.all[j]][w.to] = m[w.all[j]][w.to]
  PROVE  WalkIn(w, m2, ls2, us)
BY DEF WalkIn

\* The body takes out the entry the loop is at: what lies ahead is as it was.
LEMMA UnlinkKeepsAhead ==
  ASSUME NEW m, NEW ls, NEW us, Rings(m, ls, us),
         NEW w, WalkIn(w, m, ls, us), w.pos \in Entries, w.pos \in Over(ls[w.head]),
         NEW j \in Len(w.seen) + 2..Len(w.all)
  PROVE  /\ w.all[j] \in Lists!Nodes /\ w.all[j] # w.pos /\ w.all[j] \in Over(ls[w.head])
         /\ Lists!Unlink(m, w.pos)[w.all[j]][w.to] = m[w.all[j]][w.to]
<1>1. PICK e, x, k : e = w.pos /\ x = w.all[j] /\ k = Len(w.seen)
  OBVIOUS
<1>2. /\ w.head \in us /\ w.head \in Heads /\ w.all \in Seq(Entries) /\ Distinct(w.all) /\ w.to \in Directions
      /\ e = Stop(w.all, w.head, k + 1) /\ x \in Over(ls[w.head]) /\ m[x][w.to] = Stop(w.all, w.head, j + 1)
      /\ w.seen \in Seq(Entries)
  BY <1>1 DEF WalkIn
<1>3. k \in Nat /\ Len(w.all) \in Nat /\ j \in 1..Len(w.all) /\ k + 1 \in 1..Len(w.all) /\ k + 1 <= Len(w.all) /\ j # k + 1
  BY <1>1, <1>2, LenProperties
<1>4. e = w.all[k + 1] /\ e \in Over(ls[w.head]) /\ e \in Entries
  BY <1>1, <1>2, <1>3 DEF Stop
<1>5. x # e
  BY <1>1, <1>2, <1>3, <1>4 DEF Distinct
<1>6. m[x][w.to] # e
  <2>1. CASE j + 1 <= Len(w.all)
    <3>1. j + 1 \in 1..Len(w.all) /\ j + 1 # k + 1
      BY <1>1, <1>3, <2>1
    <3>2. w.all[j + 1] # w.all[k + 1]
      BY <1>2, <1>3, <3>1 DEF Distinct
    <3> QED
      BY <1>2, <1>4, <2>1, <3>2 DEF Stop
  <2>2. CASE ~(j + 1 <= Len(w.all))
    BY <1>2, <1>4, <2>2, HeadsAssumption DEF Stop
  <2> QED
    BY <2>1, <2>2
<1>7. /\ e \in Lists!Nodes /\ m[e].next \in Lists!Nodes /\ m[m[e].next].prev = e
      /\ m[e].prev \in Lists!Nodes /\ m[m[e].prev].next = e /\ m \in Links
  <2>1. m \in Links
    BY DEF Rings
  <2> QED
    BY <1>2, <1>4, <2>1, Neighbours
<1>8. x \in Lists!Nodes
  BY <1>2, Neighbours
<1>9. \A n \in Lists!Nodes : /\ Lists!Unlink(m, e)[n].next = IF n = m[e].prev THEN m[e].next ELSE m[n].next
                             /\ Lists!Unlink(m, e)[n].prev = IF n = m[e].next THEN m[e].prev ELSE m[n].prev
  BY <1>7, UnlinkStores
<1>10. Lists!Unlink(m, e)[x][w.to] = m[x][w.to]
  <2>1. CASE w.to = "next"
    <3>1. x # m[e].prev
      BY <1>6, <1>7, <2>1
    <3>2. Lists!Unlink(m, e)[x].next = m[x].next
      BY <1>8, <1>9, <3>1
    <3> QED
      BY <2>1, <3>2
  <2>2. CASE w.to = "prev"
    <3>1. x # m[e].next
      BY <1>6, <1>7, <2>2
    <3>2. Lists!Unlink(m, e)[x].prev = m[x].prev
      BY <1>8, <1>9, <3>1
    <3> QED
      BY <2>2, <3>2
  <2> QED
    BY <1>2, <2>1, <2>2 DEF Directions
<1> QED
  BY <1>1, <1>2, <1>5, <1>8, <1>10

LEMMA BodyKeepsWalk ==
  ASSUME RingsHold, WalkHolds, walk # Lists!NoWalk, Lists!LoopBody
  PROVE  WalkHolds' /\ RingsHold'
<1>1. PICK e, f : e = walk.pos /\ f = walk.head
  OBVIOUS
<1>2. WalkIn(walk, link, list, usable) /\ walk' = walk /\ e \in Entries /\ f \in Heads /\ f \in usable
  BY <1>1 DEF Lists!LoopBody, WalkHolds, WalkIn
<1>3. PICK v, ls : v = Lists!Unlink(link, e) /\ ls = [list EXCEPT ![f] = Lists!Without(list[f], e)]
  OBVIOUS
<1>4. ASSUME e \in Over(list[f])
      PROVE  /\ Rings(v, ls, usable) /\ \A g \in usable : e \notin Over(ls[g])
             /\ list \in [Heads -> Seq(Entries)] /\ Over(ls[f]) = Over(list[f]) \ {e}
             /\ \A j \in Len(walk.seen) + 2..Len(walk.all) :
                  /\ walk.all[j] \in Lists!Nodes /\ walk.all[j] # e
                  /\ walk.all[j] \in Over(list[f]) /\ walk.all[j] \in Over(ls[f])
                  /\ v[walk.all[j]][walk.to] = link[walk.all[j]][walk.to]
  <2>1. Rings(v, ls, usable) /\ \A g \in usable : e \notin Over(ls[g])
    BY <1>2, <1>3, <1>4, UnlinkStep DEF RingsHold
  <2>2. list \in [Heads -> Seq(Entries)] /\ list[f] \in Seq(Entries) /\ Distinct(list[f])
    BY <1>2, RingOf DEF RingsHold, Rings
  <2>3. ls[f] = Lists!Without(list[f], e)
    BY <1>2, <1>3, <2>2
  <2>4. Over(ls[f]) = Over(list[f]) \ {e}
    BY <1>4, <2>2, <2>3, WithoutLeaves
  <2>5. ASSUME NEW j \in Len(walk.seen) + 2..Len(walk.all)
        PROVE  /\ walk.all[j] \in Lists!Nodes /\ walk.all[j] # e /\ walk.all[j] \in Over(list[f])
               /\ v[walk.all[j]][walk.to] = link[walk.all[j]][walk.to]
    BY <1>1, <1>2, <1>3, <1>4, UnlinkKeepsAhead DEF RingsHold
  <2> QED
    BY <2>1, <2>2, <2>4, <2>5
<1>5. CASE Lists!ListDel(e, f)
  <2>1. e \in Over(list[f]) /\ e \in Lists!Nodes
    BY <1>2, <1>5, ListsAreTyped, HeadsAndEntriesAreNodes DEF Lists!ListDel
  <2>2. list' = ls /\ usable' = usable /\ (link' = v \/ link' = Lists!InitListHead(v, e))
    BY <1>3, <1>5 DEF Lists!ListDel
  <2>3. v \in Links
    BY <1>4, <2>1 DEF Rings
  <2>4. Elsewhere(v, Lists!InitListHead(v, e), {e})
    BY <2>1, <2>3, InitListHeadStores
  <2>5. \A j \in Len(walk.seen) + 2..Len(walk.all) :
          walk.all[j] \in Over(list'[walk.head]) /\ link'[walk.all[j]][walk.to] = link[walk.all[j]][walk.to]
    BY <1>1, <1>4, <2>1, <2>2, <2>4 DEF Elsewhere
  <2>6. WalkIn(walk, link', list', usable)
    BY <1>1, <1>2, <2>5, WalkGoesOn
  <2>7. RingsHold'
    BY <1>2, <1>5, ListDelKeepsRings
  <2> QED
    BY <1>2, <2>2, <2>6, <2>7 DEF WalkHolds
<1>6. ASSUME NEW h \in Heads \ {f}, Lists!ListMove(e, f, h) PROVE WalkHolds' /\ RingsHold'
  <2>1. h \in usable /\ e \in Over(list[f])
    BY <1>2, <1>6, ListsAreTyped DEF Lists!ListMove
  <2>2. /\ usable' = usable
        /\ \/ link' = Lists!AddFirst(v, e, h) /\ list' = [ls EXCEPT ![h] = <<e>> \o ls[h]]
           \/ link' = Lists!AddLast(v, e, h) /\ list' = [ls EXCEPT ![h] = ls[h] \o <<e>>]
    BY <1>3, <1>6 DEF Lists!ListMove
  <2>3. Rings(v, ls, usable) /\ e \notin Over(ls[h])
    BY <1>4, <2>1
  <2>4. Elsewhere(v, link', {e} \cup Over(<<h>> \o ls[h]))
    BY <1>2, <2>1, <2>2, <2>3, AddChanges
  <2>5. list'[f] = ls[f]
    BY <1>2, <1>6, <2>2, <2>3 DEF Rings
  <2>6. Over(<<h>> \o ls[h]) \cap Over(ls[f]) = {}
    <3>1. Over(<<h>> \o ls[h]) = {h} \cup Over(ls[h]) /\ h \notin Entries
      BY <2>1, <2>3, RingOf
    <3>2. Over(ls[f]) \subseteq Entries
      BY <1>2, <2>3, RingOf
    <3>3. Over(ls[h]) \cap Over(ls[f]) = {}
      BY <1>2, <1>6, <2>1, <2>3 DEF Rings
    <3> QED
      BY <3>1, <3>2, <3>3
  <2>7. \A j \in Len(walk.seen) + 2..Len(walk.all) :
          walk.all[j] \in Over(list'[walk.head]) /\ link'[walk.all[j]][walk.to] = link[walk.all[j]][walk.to]
    BY <1>1, <1>4, <2>1, <2>4, <2>5, <2>6 DEF Elsewhere
  <2>8. WalkIn(walk, link', list', usable)
    BY <1>1, <1>2, <2>7, WalkGoesOn
  <2>9. RingsHold'
    BY <1>2, <1>6, ListMoveKeepsRings
  <2> QED
    BY <1>2, <2>2, <2>8, <2>9 DEF WalkHolds
<1> QED
  BY <1>1, <1>5, <1>6 DEF Lists!LoopBody

LEMMA AdvanceKeepsWalk ==
  ASSUME RingsHold, WalkHolds, walk # Lists!NoWalk, Lists!Advance PROVE WalkHolds'
<1>1. PICK w, k : w = walk /\ k = Len(w.seen)
  OBVIOUS
<1>2. WalkIn(w, link, list, usable) /\ link' = link /\ list' = list /\ usable' = usable
  BY <1>1 DEF WalkHolds, Lists!Advance
<1>3. /\ w \in [to : Directions, head : Heads, pos : Lists!Nodes, n : Lists!Nodes, seen : Seq(Entries), all : Seq(Entries)]
      /\ w.head \in usable /\ Distinct(w.all) /\ w.to \in Directions /\ w.head \in Heads /\ w.n \in Lists!Nodes
      /\ w.seen \in Seq(Entries) /\ w.all \in Seq(Entries)
      /\ k <= Len(w.all) /\ \A i \in 1..k : w.seen[i] = w.all[i]
      /\ w.pos = Stop(w.all, w.head, k + 1)
      /\ k < Len(w.all) => w.n = Stop(w.all, w.head, k + 2)
      /\ \A j \in k + 2..Len(w.all) :
           w.all[j] \in Over(list[w.head]) /\ link[w.all[j]][w.to] = Stop(w.all, w.head, j + 1)
  BY <1>1, <1>2 DEF WalkIn
<1>4. CASE w.pos = w.head
  BY <1>1, <1>4 DEF Lists!Advance, WalkHolds
<1>5. CASE w.pos # w.head
  <2>1. k < Len(w.all) /\ k \in Nat /\ Len(w.all) \in Nat
    BY <1>1, <1>3, <1>5, LenProperties DEF Stop
  <2>2. w.pos = w.all[k + 1] /\ k + 1 \in 1..Len(w.all) /\ w.pos \in Entries
    BY <1>3, <2>1, ElementOfSeq DEF Stop
  <2>3. PICK seen, next : seen = Append(w.seen, w.pos) /\ next = link[w.n][w.to]
    OBVIOUS
  <2>4. seen \in Seq(Entries) /\ Len(seen) = k + 1 /\ \A i \in 1..k + 1 : seen[i] = w.all[i]
    BY <1>1, <1>3, <2>1, <2>2, <2>3, AppendProperties
  <2>5. walk' = [w EXCEPT !.pos = w.n, !.n = next, !.seen = seen]
    BY <1>1, <1>5, <2>3 DEF Lists!Advance
  <2>6. PICK u : u = walk'
    OBVIOUS
  <2>7. u.to = w.to /\ u.head = w.head /\ u.pos = w.n /\ u.n = next /\ u.seen = seen /\ u.all = w.all
    BY <1>3, <2>5, <2>6
  <2>8. next \in Lists!Nodes
    BY <1>3, <2>3, ListsAreTyped, PointersLeadToNodes DEF Directions
  <2>9. u \in [to : Directions, head : Heads, pos : Lists!Nodes, n : Lists!Nodes, seen : Seq(Entries), all : Seq(Entries)]
    BY <1>3, <2>4, <2>5, <2>6, <2>8
  <2>10. u.pos = Stop(u.all, u.head, Len(u.seen) + 1)
    BY <1>3, <2>1, <2>4, <2>7
  <2>11. ASSUME Len(u.seen) < Len(u.all) PROVE u.n = Stop(u.all, u.head, Len(u.seen) + 2)
    <3>1. k + 2 \in k + 2..Len(w.all) /\ k + 2 <= Len(w.all)
      BY <2>1, <2>4, <2>7, <2>11
    <3>2. w.n = w.all[k + 2]
      BY <1>3, <2>1, <3>1 DEF Stop
    <3>3. next = Stop(w.all, w.head, (k + 2) + 1)
      BY <1>3, <2>3, <3>1, <3>2
    <3>4. (k + 2) + 1 = Len(u.seen) + 2
      BY <2>1, <2>4, <2>7
    <3> QED
      BY <2>7, <3>3, <3>4
  <2>12. ASSUME NEW j \in Len(u.seen) + 2..Len(u.all)
         PROVE  u.all[j] \in Over(list[u.head]) /\ link[u.all[j]][u.to] = Stop(u.all, u.head, j + 1)
    <3>1. j \in k + 2..Len(w.all)
      BY <2>1, <2>4, <2>7
    <3> QED
      BY <1>3, <2>7, <3>1
  <2>13. Len(u.seen) <= Len(u.all) /\ \A i \in 1..Len(u.seen) : u.seen[i] = u.all[i]
    BY <2>1, <2>4, <2>7
  <2>14. WalkIn(u, link, list, usable)
    BY <1>3, <2>7, <2>9, <2>10, <2>11, <2>12, <2>13 DEF WalkIn
  <2> QED
    BY <1>2, <2>6, <2>14 DEF WalkHolds
<1> QED
  BY <1>4, <1>5

LEMMA WalkStarts ==
  ASSUME RingsHold, NEW h \in Heads, NEW to \in Directions, Lists!ForEachSafe(h, to)
  PROVE  WalkHolds'
<1>1. PICK s, all, u : s = list[h] /\ all = (IF to = "next" THEN s ELSE Lists!Reverse(s)) /\ u = walk'
  OBVIOUS
<1>2. /\ u = [to |-> to, head |-> h, pos |-> link[h][to], n |-> link[link[h][to]][to], seen |-> <<>>, all |-> all]
      /\ h \in usable /\ link' = link /\ list' = list /\ usable' = usable /\ Rings(link, list, usable)
  BY <1>1 DEF Lists!ForEachSafe, RingsHold
<1>3. /\ h \in Lists!Nodes /\ link \in Links /\ s \in Seq(Entries) /\ s \in Runs /\ Distinct(s)
      /\ Over(s) \subseteq Entries /\ h \notin Entries /\ Len(s) \in Nat
  <2>1. /\ h \in Lists!Nodes /\ link \in Links /\ list[h] \in Seq(Entries) /\ list[h] \in Runs /\ Distinct(list[h])
        /\ Over(list[h]) \subseteq Entries /\ h \notin Entries
    BY <1>2, RingOf
  <2>2. s \in Seq(Entries)
    BY <1>1, <2>1
  <2> QED
    BY <1>1, <2>1, <2>2, LenProperties
<1>4. /\ link[h][to] \in Lists!Nodes /\ link[link[h][to]][to] \in Lists!Nodes
  BY <1>3, PointersLeadToNodes DEF Directions
<1>5. /\ s = <<>> => link[h].next = h /\ link[h].prev = h
      /\ s # <<>> => /\ link[h].next = FirstOf(s) /\ link[FirstOf(s)].prev = h
                      /\ link[h].prev = LastOf(s) /\ link[LastOf(s)].next = h /\ Linked(link, s)
  <2>1. CASE s = <<>>
    <3>1. list[h] = <<>>
      BY <1>1, <2>1
    <3> QED
      BY <1>2, <2>1, <3>1, EmptyRing
  <2>2. CASE s # <<>>
    BY <1>1, <1>2, <2>2, FullRing
  <2> QED
    BY <2>1, <2>2
<1>6. /\ all \in Seq(Entries) /\ Len(all) = Len(s) /\ Distinct(all)
      /\ \A j \in 1..Len(s) : all[j] \in Over(s) /\ link[all[j]][to] = Stop(all, h, j + 1)
      /\ link[h][to] = Stop(all, h, 1)
  <2>1. CASE to = "next"
    <3>1. all = s
      BY <1>1, <2>1
    <3>2. ASSUME NEW j \in 1..Len(s) PROVE s[j] \in Over(s) /\ link[s[j]].next = Stop(s, h, j + 1)
      <4>1. CASE j + 1 <= Len(s)
        <5>1. j \in 1..Len(s) - 1 /\ s # <<>>
          BY <1>3, <4>1
        <5> QED
          BY <1>5, <4>1, <5>1 DEF Linked, Joint, Stop, Over
      <4>2. CASE ~(j + 1 <= Len(s))
        <5>1. j = Len(s) /\ s # <<>>
          BY <1>3, <4>2
        <5> QED
          BY <1>5, <4>2, <5>1 DEF LastOf, Stop, Over
      <4> QED
        BY <4>1, <4>2
    <3>3. link[h].next = Stop(s, h, 1)
      BY <1>3, <1>5, RunsHaveEnds DEF Stop, FirstOf
    <3> QED
      BY <1>3, <2>1, <3>1, <3>2, <3>3
  <2>2. CASE to = "prev"
    <3>1. all = [i \in 1..Len(s) |-> s[(Len(s) - i) + 1]]
      BY <1>1, <2>2 DEF Lists!Reverse
    <3>2. \A i \in 1..Len(s) : (Len(s) - i) + 1 \in 1..Len(s) /\ s[(Len(s) - i) + 1] \in Entries
      BY <1>3, ElementOfSeq
    <3>3. all \in Seq(Entries) /\ Len(all) = Len(s) /\ \A i \in 1..Len(s) : all[i] = s[(Len(s) - i) + 1]
      BY <1>3, <3>1, <3>2, IsASeq, LenProperties
    <3>4. Distinct(all)
      <4> SUFFICES ASSUME NEW i \in 1..Len(s), NEW j \in 1..Len(s), all[i] = all[j] PROVE i = j
        BY <3>3 DEF Distinct
      <4>1. (Len(s) - i) + 1 = (Len(s) - j) + 1
        BY <1>3, <3>2, <3>3 DEF Distinct
      <4> QED
        BY <1>3, <4>1
    <3>5. ASSUME NEW j \in 1..Len(s) PROVE all[j] \in Over(s) /\ link[all[j]].prev = Stop(all, h, j + 1)
      <4>0. PICK i : i = (Len(s) - j) + 1
        OBVIOUS
      <4>1. i \in 1..Len(s) /\ all[j] = s[i] /\ s[i] \in Over(s)
        BY <3>2, <3>3, <4>0 DEF Over
      <4>2. CASE j + 1 <= Len(s)
        <5>1. /\ i - 1 \in 1..Len(s) - 1 /\ (i - 1) + 1 = i /\ s # <<>> /\ j + 1 \in 1..Len(s)
              /\ (Len(s) - (j + 1)) + 1 = i - 1
          BY <1>3, <4>0, <4>2
        <5>2. link[s[i]].prev = s[i - 1]
          BY <1>5, <5>1 DEF Linked, Joint
        <5>3. all[j + 1] = s[i - 1]
          BY <3>3, <5>1
        <5> QED
          BY <3>3, <4>1, <4>2, <5>2, <5>3 DEF Stop
      <4>3. CASE ~(j + 1 <= Len(s))
        <5>1. i = 1 /\ s # <<>>
          BY <1>3, <4>0, <4>3
        <5> QED
          BY <1>5, <3>3, <4>1, <4>3, <5>1 DEF FirstOf, Stop
      <4> QED
        BY <4>2, <4>3
    <3>6. link[h].prev = Stop(all, h, 1)
      <4>1. CASE s = <<>>
        BY <1>5, <3>3, <4>1 DEF Stop
      <4>2. CASE s # <<>>
        <5>1. 1 \in 1..Len(s) /\ (Len(s) - 1) + 1 = Len(s) /\ 1 <= Len(s)
          BY <1>3, <4>2, RunsHaveEnds
        <5> QED
          BY <1>5, <3>3, <4>2, <5>1 DEF Stop, LastOf
      <4> QED
        BY <4>1, <4>2
    <3> QED
      BY <2>2, <3>3, <3>4, <3>5, <3>6
  <2> QED
    BY <2>1, <2>2 DEF Directions
<1>7. /\ u.to = to /\ u.head = h /\ u.pos = link[h][to] /\ u.n = link[link[h][to]][to] /\ u.seen = <<>> /\ u.all = all
      /\ Len(u.seen) = 0
  BY <1>2
<1>8. u \in [to : Directions, head : Heads, pos : Lists!Nodes, n : Lists!Nodes, seen : Seq(Entries), all : Seq(Entries)]
  BY <1>2, <1>4, <1>6
<1>9. ASSUME 0 < Len(all) PROVE u.n = Stop(all, h, 2)
  <2>1. 1 \in 1..Len(s) /\ 1 <= Len(all)
    BY <1>3, <1>6, <1>9
  <2>2. link[h][to] = all[1] /\ link[all[1]][to] = Stop(all, h, 1 + 1)
    BY <1>6, <2>1 DEF Stop
  <2> QED
    BY <1>7, <2>2
<1>10. WalkIn(u, link, list, usable)
  <2>1. \A j \in 0 + 2..Len(all) : all[j] \in Over(list[h]) /\ link[all[j]][to] = Stop(all, h, j + 1)
    BY <1>1, <1>3, <1>6
  <2> QED
    BY <1>2, <1>3, <1>6, <1>7, <1>8, <1>9, <2>1 DEF WalkIn
<1> QED
  BY <1>1, <1>2, <1>10 DEF WalkHolds

-----------------------------------------------------------------------------
(* Rings and walks are what the module says of them. *)
LEMMA RingsAreClosed == ASSUME RingsHold PROVE Lists!RingsClosed
<1> SUFFICES ASSUME NEW h \in usable
             PROVE  /\ \A i \in 1..Len(list[h]) + 1 :
                         /\ link[Lists!Ring(h)[i]].next = Lists!Ring(h)[i + 1]
                         /\ link[Lists!Ring(h)[i + 1]].prev = Lists!Ring(h)[i]
                    /\ Lists!IsEmpty(link, h) = (list[h] = <<>>)
                    /\ Lists!IsEmptyCareful(link, h) = (list[h] = <<>>)
                    /\ Lists!IsSingular(link, h) = (Len(list[h]) = 1)
                    /\ \A e \in Lists!ToSet(list[h]) : Lists!IsLast(link, e, h) = (e = Lists!Last(list[h]))
  BY DEF Lists!RingsClosed
<1>1. PICK s : s = list[h]
  OBVIOUS
<1>2. /\ h \in Lists!Nodes /\ h \in Heads /\ h \notin Entries /\ link \in Links /\ s \in Runs /\ Over(s) \subseteq Entries
      /\ Distinct(s) /\ <<h>> \o s \in Runs /\ Cycle(link, <<h>> \o s) /\ Lists!ToSet(s) = Over(s)
  <2>1. Rings(link, list, usable)
    BY DEF RingsHold
  <2>2. /\ h \in Lists!Nodes /\ h \in Heads /\ h \notin Entries /\ link \in Links
        /\ list[h] \in Runs /\ list[h] \in Seq(Entries) /\ Over(list[h]) \subseteq Entries
        /\ Distinct(list[h]) /\ <<h>> \o list[h] \in Runs /\ Cycle(link, <<h>> \o list[h])
    BY <2>1, RingOf
  <2>3. Lists!ToSet(list[h]) = Over(list[h])
    BY <2>2, ListsAreRuns
  <2> QED
    BY <1>1, <2>2, <2>3
<1>3. Len(s) \in Nat /\ (s = <<>> => Len(s) = 0) /\ (s # <<>> => Len(s) >= 1)
  BY <1>2, RunsHaveEnds
<1>4. /\ s = <<>> => link[h].next = h /\ link[h].prev = h
      /\ s # <<>> => /\ link[h].next = FirstOf(s) /\ link[h].prev = LastOf(s)
                      /\ FirstOf(s) \in Entries /\ LastOf(s) \in Entries
                      /\ link[LastOf(s)].next = h /\ Linked(link, s)
  <2>1. Rings(link, list, usable)
    BY DEF RingsHold
  <2>2. CASE s = <<>>
    <3>1. list[h] = <<>>
      BY <1>1, <2>2
    <3> QED
      BY <2>1, <2>2, <3>1, EmptyRing
  <2>3. CASE s # <<>>
    BY <1>1, <1>2, <2>1, <2>3, FullRing
  <2> QED
    BY <2>2, <2>3
<1>5. ASSUME NEW i \in 1..Len(s) + 1
      PROVE  /\ link[Lists!Ring(h)[i]].next = Lists!Ring(h)[i + 1]
             /\ link[Lists!Ring(h)[i + 1]].prev = Lists!Ring(h)[i]
  <2>1. PICK c, r : c = <<h>> \o s /\ r = c \o <<h>>
    OBVIOUS
  <2>2. /\ <<h>> \in Runs /\ <<h>> # <<>> /\ Len(<<h>>) = 1 /\ FirstOf(<<h>>) = h /\ Linked(link, <<h>>)
    BY <1>2, Single, SingleLinked
  <2>3. c \in Runs /\ c # <<>> /\ Len(c) = 1 + Len(s) /\ FirstOf(c) = h
    <3>1. Len(<<h>> \o s) = 1 + Len(s)
      BY <1>2, <2>2, Places2
    <3>2. FirstOf(<<h>> \o s) = h /\ <<h>> \o s # <<>>
      BY <1>2, <2>2, Joined
    <3> QED
      BY <1>2, <2>1, <3>1, <3>2
  <2>4. Linked(link, c) /\ Joint(link, LastOf(c), h)
    BY <1>2, <2>1, <2>3 DEF Cycle
  <2>5. Linked(link, r)
    <3>1. Linked(link, c \o <<h>>)
      BY <2>2, <2>3, <2>4, LinkedJoined
    <3> QED
      BY <2>1, <3>1
  <2>6. Len(r) = Len(s) + 2
    <3>1. Len(c \o <<h>>) = Len(c) + 1
      BY <2>2, <2>3, Places2
    <3> QED
      BY <1>3, <2>1, <2>3, <3>1
  <2>7. Lists!Ring(h) = r
    BY <1>1, <2>1 DEF Lists!Ring
  <2>8. i \in 1..Len(r) - 1
    BY <1>3, <2>6
  <2> QED
    BY <2>5, <2>7, <2>8 DEF Linked, Joint
<1>6. /\ Lists!IsEmpty(link, h) <=> s = <<>>
      /\ Lists!IsEmptyCareful(link, h) <=> s = <<>>
  <2>1. link[h] \in [next : Lists!Nodes, prev : Lists!Nodes]
    BY <1>2 DEF Links
  <2>2. link[h] = [next |-> h, prev |-> h] <=> link[h].next = h /\ link[h].prev = h
    BY <2>1
  <2> QED
    BY <1>2, <1>4, <2>2 DEF Lists!IsEmpty, Lists!IsEmptyCareful
<1>7. Lists!IsSingular(link, h) <=> Len(s) = 1
  <2>1. CASE s = <<>>
    BY <1>3, <1>6, <2>1 DEF Lists!IsSingular
  <2>2. CASE s # <<>>
    <3>1. FirstOf(s) = LastOf(s) <=> Len(s) = 1
      <4>1. 1 \in 1..Len(s) /\ Len(s) \in 1..Len(s)
        BY <1>3, <2>2
      <4>2. s[1] = s[Len(s)] => 1 = Len(s)
        BY <1>2, <4>1 DEF Distinct
      <4> QED
        BY <4>2 DEF FirstOf, LastOf
    <3> QED
      BY <1>4, <1>6, <2>2, <3>1 DEF Lists!IsSingular
  <2> QED
    BY <2>1, <2>2
<1>8. ASSUME NEW e \in Over(s) PROVE Lists!IsLast(link, e, h) <=> e = Lists!Last(s)
  <2>1. PICK i \in 1..Len(s) : e = s[i]
    BY DEF Over
  <2>2. s # <<>> /\ Lists!Last(s) = LastOf(s)
    BY <1>3, <2>1 DEF Lists!Last, LastOf
  <2>3. CASE i = Len(s)
    BY <1>4, <2>1, <2>2, <2>3 DEF Lists!IsLast, LastOf
  <2>4. CASE i # Len(s)
    <3>1. i \in 1..Len(s) - 1 /\ i + 1 \in 1..Len(s) /\ Len(s) \in 1..Len(s)
      BY <1>3, <2>1, <2>4
    <3>2. link[e].next = s[i + 1] /\ s[i + 1] \in Over(s)
      BY <1>4, <2>1, <2>2, <3>1 DEF Linked, Joint, Over
    <3>3. s[i] # s[Len(s)]
      BY <1>2, <2>4, <3>1 DEF Distinct
    <3> QED
      BY <1>2, <2>1, <2>2, <3>2, <3>3 DEF Lists!IsLast, LastOf
  <2> QED
    BY <2>3, <2>4
<1>9. /\ Lists!IsEmpty(link, h) \in BOOLEAN /\ Lists!IsEmptyCareful(link, h) \in BOOLEAN
      /\ Lists!IsSingular(link, h) \in BOOLEAN /\ \A e : Lists!IsLast(link, e, h) \in BOOLEAN
  BY DEF Lists!IsEmpty, Lists!IsEmptyCareful, Lists!IsSingular, Lists!IsLast
<1> QED
  BY <1>1, <1>2, <1>5, <1>6, <1>7, <1>8, <1>9

LEMMA WalksDoVisit == ASSUME WalkHolds PROVE Lists!WalksVisitAll
<1> SUFFICES ASSUME walk # Lists!NoWalk
             PROVE  /\ Lists!IsPrefix(walk.seen, walk.all)
                    /\ walk.pos = Append(walk.all, walk.head)[Len(walk.seen) + 1]
  BY DEF Lists!WalksVisitAll
<1>1. /\ walk.seen \in Seq(Entries) /\ walk.all \in Seq(Entries) /\ walk.head \in Heads
      /\ Len(walk.seen) <= Len(walk.all) /\ \A i \in 1..Len(walk.seen) : walk.seen[i] = walk.all[i]
      /\ walk.pos = Stop(walk.all, walk.head, Len(walk.seen) + 1)
  BY DEF WalkHolds, WalkIn
<1>2. PICK seen, all, head, k : seen = walk.seen /\ all = walk.all /\ head = walk.head /\ k = Len(seen)
  OBVIOUS
<1>3. k \in Nat /\ Len(all) \in Nat /\ k <= Len(all) /\ seen \in Seq(Entries) /\ all \in Seq(Entries)
  BY <1>1, <1>2, LenProperties
<1>4. SubSeq(seen, 1, k) = SubSeq(all, 1, k)
  <2>1. \A i \in 1..k : seen[i] \in Entries /\ all[i] \in Entries /\ seen[i] = all[i]
    BY <1>1, <1>2, <1>3, ElementOfSeq
  <2>2. /\ SubSeq(seen, 1, k) \in Seq(Entries) /\ Len(SubSeq(seen, 1, k)) = k
        /\ \A i \in 1..k : SubSeq(seen, 1, k)[i] = seen[i]
    BY <1>3, <2>1, SubSeqProperties
  <2>3. /\ SubSeq(all, 1, k) \in Seq(Entries) /\ Len(SubSeq(all, 1, k)) = k
        /\ \A i \in 1..k : SubSeq(all, 1, k)[i] = all[i]
    BY <1>3, <2>1, SubSeqProperties
  <2> QED
    BY <2>1, <2>2, <2>3, SeqEqual
<1>5. Lists!IsPrefix(seen, all)
  BY <1>2, <1>3, <1>4 DEF Lists!IsPrefix
<1>6. Append(all, head)[k + 1] = Stop(all, head, k + 1)
  <2>1. all \in Seq(Lists!Nodes) /\ head \in Lists!Nodes
    BY <1>1, <1>2, <1>3, ListsAreRuns, HeadsAndEntriesAreNodes DEF Runs
  <2>2. /\ \A i \in 1..Len(all) : Append(all, head)[i] = all[i]
        /\ Append(all, head)[Len(all) + 1] = head
    BY <2>1, AppendProperties
  <2>3. k + 1 \in 1..Len(all) \/ (k + 1 = Len(all) + 1 /\ ~(k + 1 <= Len(all)))
    BY <1>3
  <2> QED
    BY <1>3, <2>2, <2>3 DEF Stop
<1> QED
  BY <1>1, <1>2, <1>5, <1>6

LEMMA InitIsRings == ASSUME Lists!Init PROVE RingsHold /\ WalkHolds
<1>1. link \in Links /\ \A n \in Lists!Nodes : Joint(link, n, n)
  BY DEF Lists!Init, Links, Joint
<1>2. list = [h \in Heads |-> <<>>] /\ usable = Heads /\ walk = Lists!NoWalk
  BY DEF Lists!Init
<1>3. list \in [Heads -> Seq(Entries)] /\ \A h \in Heads : list[h] = <<>>
  <2>1. <<>> \in Seq(Entries)
    OBVIOUS
  <2> QED
    BY <1>2, <2>1
<1>4. <<>> \in Runs /\ Over(<<>>) = {} /\ Distinct(<<>>)
  <2>1. <<>> \in Runs /\ Len(<<>>) = 0
    BY EmptySeq DEF Runs
  <2> QED
    BY <2>1 DEF Over, Distinct
<1>5. ASSUME NEW h \in Heads PROVE Cycle(link, <<h>> \o list[h])
  <2>1. h \in Lists!Nodes /\ Cycle(link, <<h>> \o <<>>)
    BY <1>1, <1>4, CycleOf, HeadsAndEntriesAreNodes
  <2> QED
    BY <1>3, <2>1
<1>6. Rings(link, list, usable)
  BY <1>1, <1>2, <1>3, <1>4, <1>5 DEF Rings
<1> QED
  BY <1>2, <1>6 DEF RingsHold, WalkHolds

LEMMA NextKeepsRings ==
  ASSUME RingsHold, WalkHolds, [Lists!Next]_(Lists!vars) PROVE RingsHold' /\ WalkHolds'
<1>1. CASE walk = Lists!NoWalk /\ Lists!Operation /\ UNCHANGED walk
  BY <1>1, OperationsKeepRings DEF WalkHolds
<1>2. CASE walk = Lists!NoWalk /\ \E h \in Heads, to \in {"next", "prev"} : Lists!ForEachSafe(h, to)
  <2>1. RingsHold'
    BY <1>2 DEF Lists!ForEachSafe, RingsHold
  <2> QED
    BY <1>2, <2>1, WalkStarts DEF Directions
<1>3. CASE walk # Lists!NoWalk /\ Lists!LoopBody
  BY <1>3, BodyKeepsWalk
<1>4. CASE walk # Lists!NoWalk /\ Lists!Advance
  <2>1. RingsHold'
    BY <1>4 DEF Lists!Advance, RingsHold
  <2> QED
    BY <1>4, <2>1, AdvanceKeepsWalk
<1>5. CASE UNCHANGED Lists!vars
  BY <1>5 DEF Lists!vars, RingsHold, WalkHolds
<1> QED
  BY <1>1, <1>2, <1>3, <1>4, <1>5 DEF Lists!Next

(* From a usable head the pointers lead through its entries and back, whatever
   the calls, and a loop visits every entry it found once, in order. *)
THEOREM ListsAreRingsHolds == Lists!Spec => []ListsAreRings
<1>1. Lists!Init => RingsHold /\ WalkHolds
  BY InitIsRings
<1>2. RingsHold /\ WalkHolds /\ [Lists!Next]_(Lists!vars) => (RingsHold /\ WalkHolds)'
  BY NextKeepsRings
<1>3. RingsHold /\ WalkHolds => ListsAreRings
  BY RingsAreClosed, WalksDoVisit DEF ListsAreRings, Lists!ListsAreRings
<1> QED
  BY <1>1, <1>2, <1>3, PTL DEF Lists!Spec

-----------------------------------------------------------------------------
(* Blobs.  Every array of the heap is one blob's, so there are no more of them
   than blobs, and an array that no blob has can be found. *)
BlobsInv ==
  /\ heap \subseteq Proto!Arrays /\ faults = {}
  /\ blob \in [Blobs -> [pointer : Proto!Arrays \cup {Proto!Null}, count : Int]]
  /\ heap = UNION {Proto!Freed(blob[p]) : p \in Blobs}
  /\ \A p, q \in Blobs : p # q => Proto!Freed(blob[p]) \cap Proto!Freed(blob[q]) = {}

LEMMA BlobsInit ==
  ASSUME Proto!Init PROVE BlobsInv
<1>1. \A p \in Blobs : blob[p] = Proto!NoBlob /\ Proto!Freed(blob[p]) = {}
  BY DEF Proto!Init, Proto!NoBlob, Proto!Null, Proto!Freed
<1>2. blob \in [Blobs -> [pointer : Proto!Arrays \cup {Proto!Null}, count : Int]]
  BY DEF Proto!Init, Proto!NoBlob, Proto!Null
<1> QED
  BY <1>1, <1>2 DEF BlobsInv, Proto!Init

LEMMA SameCount ==
  ASSUME NEW S PROVE Proto!Cardinality(S) = Cardinality(S)
BY DEF Proto!Cardinality, Cardinality

LEMMA FreshIsFree ==
  ASSUME BlobsInv PROVE Proto!Fresh \in Proto!Arrays /\ Proto!Fresh \notin heap
<1>1. Cardinality(Blobs) \in Nat
  BY BlobsAssumption, FS_CardinalityType
<1>2. IsFiniteSet(Proto!Arrays) /\ Cardinality(Proto!Arrays) = Cardinality(Blobs) + 1
  <2>1. PICK n \in Nat : n = Cardinality(Blobs)
    BY <1>1
  <2>2. IsFiniteSet(0..n) /\ Cardinality(0..n) = IF 0 > n THEN 0 ELSE n - 0 + 1
    BY <2>1, FS_Interval
  <2>3. Cardinality(0..n) = n + 1
    BY <2>1, <2>2
  <2>4. Proto!Arrays = 0..n
    BY <2>1, SameCount DEF Proto!Arrays
  <2> QED
    BY <2>1, <2>2, <2>3, <2>4
<1>3. \A a \in heap : \E p \in Blobs : a \in Proto!Freed(blob[p])
  BY DEF BlobsInv
<1> DEFINE owner == [a \in heap |-> CHOOSE p \in Blobs : a \in Proto!Freed(blob[p])]
<1>4. \A a \in heap : owner[a] \in Blobs /\ a \in Proto!Freed(blob[owner[a]])
  BY <1>3
<1>5. owner \in [heap -> Blobs]
  BY <1>4
<1> HIDE DEF owner
<1>6. \A a, b \in heap : owner[a] = owner[b] => a = b
  BY <1>4 DEF Proto!Freed
<1>7. owner \in Injection(heap, Blobs)
  BY <1>5, <1>6 DEF Injection, IsInjective
<1>8. IsFiniteSet(heap) /\ Cardinality(heap) <= Cardinality(Blobs)
  BY <1>7, BlobsAssumption, FS_Injection
<1>9. \E array \in Proto!Arrays : array \notin heap
  <2> SUFFICES ASSUME Proto!Arrays \subseteq heap PROVE FALSE
    OBVIOUS
  <2>1. Cardinality(Proto!Arrays) <= Cardinality(heap)
    BY <1>8, FS_Subset
  <2>2. Cardinality(heap) \in Nat
    BY <1>8, FS_CardinalityType
  <2> QED
    BY <1>1, <1>2, <1>8, <2>1, <2>2
<1> QED
  BY <1>9 DEF Proto!Fresh

LEMMA BlobsNext ==
  ASSUME BlobsInv, [Proto!Next]_(Proto!vars) PROVE BlobsInv'
<1> DEFINE Blob == [pointer : Proto!Arrays \cup {Proto!Null}, count : Int]
<1>1. /\ heap \subseteq Proto!Arrays /\ faults = {} /\ blob \in [Blobs -> Blob]
      /\ heap = UNION {Proto!Freed(blob[p]) : p \in Blobs}
      /\ \A p, q \in Blobs : p # q => Proto!Freed(blob[p]) \cap Proto!Freed(blob[q]) = {}
  BY DEF BlobsInv
<1>2. /\ Proto!Null \notin Proto!Arrays /\ Proto!Null \in Int
      /\ Proto!Empty \in Blob /\ Proto!NoBlob \in Blob
      /\ Proto!Freed(Proto!Empty) = {} /\ Proto!Freed(Proto!NoBlob) = {}
  BY BlobsAssumption, FS_CardinalityType DEF Proto!Null, Proto!Arrays, Proto!Empty, Proto!NoBlob, Proto!Freed
<1>3. ASSUME NEW place \in Blobs, Proto!Make(place) PROVE BlobsInv'
  <2>1. blob[place] = Proto!NoBlob /\ faults' = {}
    BY <1>1, <1>3 DEF Proto!Make
  <2>2. PICK count \in Elements, copied \in BOOLEAN :
          IF count > 0
          THEN /\ blob' = [blob EXCEPT ![place] = [pointer |-> Proto!Fresh, count |-> count]]
               /\ heap' = heap \cup {Proto!Fresh}
          ELSE /\ blob' = [blob EXCEPT ![place] = [Proto!Empty EXCEPT !.count = IF copied THEN 0 ELSE count]]
               /\ UNCHANGED heap
    BY <1>3 DEF Proto!Make
  <2>3. CASE count > 0
    <3>1. PICK fresh : fresh = Proto!Fresh
      OBVIOUS
    <3>2. fresh \in Proto!Arrays /\ fresh \notin heap /\ fresh # Proto!Null
      BY <1>2, <3>1, FreshIsFree
    <3>3. PICK b : b = [pointer |-> fresh, count |-> count]
      OBVIOUS
    <3>4. b \in Blob /\ Proto!Freed(b) = {fresh}
      BY BlobsAssumption, <2>2, <2>3, <3>2, <3>3 DEF Proto!Freed
    <3>5. blob' = [blob EXCEPT ![place] = b] /\ heap' = heap \cup {fresh}
      BY <2>2, <2>3, <3>1, <3>3
    <3>6. /\ blob' \in [Blobs -> Blob] /\ Proto!Freed(blob'[place]) = {fresh}
          /\ \A q \in Blobs : q # place => blob'[q] = blob[q]
      BY <1>1, <3>4, <3>5
    <3>7. heap' = UNION {Proto!Freed(blob'[p]) : p \in Blobs}
      BY <1>1, <1>2, <2>1, <3>5, <3>6
    <3>8. \A p, q \in Blobs : p # q => Proto!Freed(blob'[p]) \cap Proto!Freed(blob'[q]) = {}
      BY <1>1, <3>2, <3>6
    <3> QED
      BY <1>1, <2>1, <3>2, <3>5, <3>6, <3>7, <3>8 DEF BlobsInv
  <2>4. CASE ~(count > 0)
    <3>1. PICK b : b = [Proto!Empty EXCEPT !.count = IF copied THEN 0 ELSE count]
      OBVIOUS
    <3>2. b \in Blob /\ Proto!Freed(b) = {}
      BY <2>2, <3>1, BlobsAssumption DEF Proto!Empty, Proto!Freed
    <3>3. blob' = [blob EXCEPT ![place] = b] /\ heap' = heap
      BY <2>2, <2>4, <3>1
    <3>4. blob' \in [Blobs -> Blob] /\ \A q \in Blobs : Proto!Freed(blob'[q]) = Proto!Freed(blob[q])
      BY <1>1, <1>2, <2>1, <3>2, <3>3
    <3> QED
      BY <1>1, <2>1, <3>3, <3>4 DEF BlobsInv
  <2> QED
    BY <2>3, <2>4
<1>4. ASSUME NEW place \in Blobs, NEW source \in Blobs, Proto!CopyConstruct(place, source) PROVE BlobsInv'
  <2>1. blob[place] = Proto!NoBlob /\ blob' = [blob EXCEPT ![place] = Proto!Empty] /\ heap' = heap /\ faults' = faults
    BY <1>4 DEF Proto!CopyConstruct
  <2>2. blob' \in [Blobs -> Blob] /\ \A q \in Blobs : Proto!Freed(blob'[q]) = Proto!Freed(blob[q])
    BY <1>1, <1>2, <2>1
  <2> QED
    BY <1>1, <2>1, <2>2 DEF BlobsInv
<1>5. ASSUME NEW place \in Blobs, NEW source \in Blobs, Proto!MoveConstruct(place, source) PROVE BlobsInv'
  <2>1. /\ blob[place] = Proto!NoBlob /\ blob[source] # Proto!NoBlob /\ heap' = heap /\ faults' = faults
        /\ blob' = [blob EXCEPT ![place] = blob[source], ![source] = Proto!Empty]
    BY <1>5 DEF Proto!MoveConstruct
  <2>2. /\ place # source /\ blob' \in [Blobs -> Blob] /\ blob'[place] = blob[source] /\ blob'[source] = Proto!Empty
        /\ \A q \in Blobs : q # place /\ q # source => blob'[q] = blob[q]
    BY <1>1, <1>2, <2>1
  <2>3. heap' = UNION {Proto!Freed(blob'[p]) : p \in Blobs}
    <3>1. ASSUME NEW a, \E p \in Blobs : a \in Proto!Freed(blob[p]) PROVE \E p \in Blobs : a \in Proto!Freed(blob'[p])
      <4>1. PICK p \in Blobs : a \in Proto!Freed(blob[p])
        BY <3>1
      <4>2. CASE p = source
        BY <2>2, <4>1, <4>2
      <4>3. CASE p # source
        BY <1>2, <2>1, <2>2, <4>1, <4>3
      <4> QED
        BY <4>2, <4>3
    <3>2. ASSUME NEW a, NEW p \in Blobs, a \in Proto!Freed(blob'[p]) PROVE \E q \in Blobs : a \in Proto!Freed(blob[q])
      BY <1>2, <2>2, <3>2
    <3> QED
      BY <1>1, <2>1, <3>1, <3>2
  <2>4. ASSUME NEW p \in Blobs, NEW q \in Blobs, p # q PROVE Proto!Freed(blob'[p]) \cap Proto!Freed(blob'[q]) = {}
    BY <1>1, <1>2, <2>2, <2>4
  <2> QED
    BY <1>1, <2>1, <2>2, <2>3, <2>4 DEF BlobsInv
<1>6. ASSUME NEW place \in Blobs, NEW b \in Blob, Proto!Freed(b) = {}, blob' = [blob EXCEPT ![place] = b],
             Proto!Free(Proto!Freed(blob[place]))
      PROVE  BlobsInv'
  <2>1. heap' = heap \ Proto!Freed(blob[place]) /\ faults' = {}
    BY <1>1, <1>6 DEF Proto!Free
  <2>2. /\ blob' \in [Blobs -> Blob] /\ Proto!Freed(blob'[place]) = {}
        /\ \A q \in Blobs : q # place => blob'[q] = blob[q]
    BY <1>1, <1>6
  <2>3. heap' = UNION {Proto!Freed(blob'[p]) : p \in Blobs}
    BY <1>1, <2>1, <2>2
  <2>4. \A p, q \in Blobs : p # q => Proto!Freed(blob'[p]) \cap Proto!Freed(blob'[q]) = {}
    BY <1>1, <2>2
  <2> QED
    BY <1>1, <2>1, <2>2, <2>3, <2>4 DEF BlobsInv
<1>7. ASSUME NEW place \in Blobs, NEW source \in Blobs, Proto!Assign(place, source) PROVE BlobsInv'
  BY <1>2, <1>6, <1>7 DEF Proto!Assign
<1>8. ASSUME NEW place \in Blobs, Proto!Destroy(place) PROVE BlobsInv'
  BY <1>2, <1>6, <1>8 DEF Proto!Destroy
<1>9. CASE UNCHANGED Proto!vars
  BY <1>1, <1>9 DEF Proto!vars, BlobsInv
<1> QED
  BY <1>3, <1>4, <1>5, <1>7, <1>8, <1>9 DEF Proto!Next

(* No sequence of constructions, moves, assignments and destructions of blobs
   frees an array twice or forgets one. *)
THEOREM ArraysOwnedOnceHolds == Proto!Spec => []ArraysOwnedOnce
<1>1. Proto!Init => BlobsInv
  BY BlobsInit
<1>2. BlobsInv /\ [Proto!Next]_(Proto!vars) => BlobsInv'
  BY BlobsNext
<1>3. BlobsInv => ArraysOwnedOnce
  BY DEF BlobsInv, ArraysOwnedOnce, Proto!ArraysOwnedOnce
<1> QED
  BY <1>1, <1>2, <1>3, PTL DEF Proto!Spec

-----------------------------------------------------------------------------
(* The AVL tree.  The trees first: that there are the sets TreesUpTo, and how
   they lie in each other. *)
Up == AVL!TreesUpTo
Deepest == MaxDepth + 1
Trees == AVL!Trees

LEMMA TreesIs == Trees = Up[Deepest]
  BY DEF Trees, Up, Deepest, AVL!Trees

LEMMA Smallest ==
  ASSUME NEW T \in SUBSET Nat, T # {} PROVE \E x \in T : \A y \in T : x <= y
<1>1. PICK x \in T : \A y \in T : ~(<<y, x>> \in OpToRel(<, Nat))
  BY NatLessThanWellFounded, WFMin
<1>2. \A y \in T : x <= y
  <2> SUFFICES ASSUME NEW y \in T, ~(x <= y) PROVE FALSE
    OBVIOUS
  <2>0. x \in Nat /\ y \in Nat
    BY <1>1, Zenon
  <2>1. y < x
    BY <2>0
  <2>2. <<y, x>> \in Nat \X Nat /\ <<y, x>>[1] < <<y, x>>[2]
    BY <2>0, <2>1
  <2> QED
    BY <2>2, <1>1 DEF OpToRel
<1> QED
  BY <1>1, <1>2

LEMMA DeepestIs == Deepest \in Nat /\ Deepest > 0 /\ Deepest \in 0..Deepest /\ Deepest - 1 = MaxDepth
  BY KeysAssumption DEF Deepest

\* The trees whose children are in S.
Deeper(S) == [key : Keys, lchild : S, rchild : S, height : Int] \cup {AVL!NULL}

LEMMA UpIs == \A n \in 0..Deepest : Up[n] = IF n = 0 THEN {AVL!NULL} ELSE Deeper(Up[n - 1])
<1> DEFINE Is(f, n) == f = [i \in 0..n |-> IF i = 0 THEN {AVL!NULL} ELSE Deeper(f[i - 1])]
           Without == {n \in Nat : ~\E f : Is(f, n)}
<1>1. ASSUME Without # {} PROVE FALSE
  <2>1. PICK n \in Without : \A y \in Without : n <= y
    BY <1>1, Smallest
  <2>2. n \in Nat /\ (n > 0 => n - 1 \in Nat /\ \E f : Is(f, n - 1))
    <3>1. n \in Nat /\ (n > 0 => n - 1 \in Nat /\ ~(n <= n - 1))
      BY <2>1
    <3>2. n > 0 => n - 1 \notin Without
      BY <2>1, <3>1
    <3> QED
      BY <3>1, <3>2
  <2>3. PICK h : n > 0 => Is(h, n - 1)
    BY <2>2
  <2> DEFINE f == [i \in 0..n |-> IF i = 0 THEN {AVL!NULL} ELSE Deeper(h[i - 1])]
  <2> HIDE DEF Without
  <2>4. ASSUME NEW i \in 0..n, i # 0 PROVE f[i - 1] = h[i - 1]
    <3>1. n > 0 /\ i - 1 \in 0..n /\ i - 1 \in 0..(n - 1)
      BY <2>2, <2>4
    <3> QED
      BY <2>3, <3>1
  <2>5. Is(f, n)
    BY <2>4
  <2> QED
    BY <2>1, <2>5 DEF Without
<1>2. \E f : f = [i \in 0..Deepest |-> IF i = 0 THEN {AVL!NULL} ELSE Deeper(f[i - 1])]
  BY <1>1, DeepestIs
<1>3. Up = [i \in 0..Deepest |-> IF i = 0 THEN {AVL!NULL} ELSE Deeper(Up[i - 1])]
  BY <1>2 DEF Up, AVL!TreesUpTo, Deeper, Deepest
<1> QED
  BY <1>3

LEMMA NodeIsNotNull ==
  ASSUME NEW S, NEW t \in [key : Keys, lchild : S, rchild : S, height : Int] PROVE t # AVL!NULL
<1>1. "key" \in DOMAIN t /\ "key" \notin DOMAIN AVL!NULL
  BY DEF AVL!NULL
<1> QED
  BY <1>1

\* A node of depth n has children of depth n - 1.
LEMMA Children ==
  ASSUME NEW n \in 0..Deepest, NEW t \in Up[n], t # AVL!NULL
  PROVE  /\ n > 0
         /\ t \in [key : Keys, lchild : Up[n - 1], rchild : Up[n - 1], height : Int]
         /\ t.lchild \in Up[n - 1] /\ t.rchild \in Up[n - 1]
         /\ t.key \in Keys /\ t.height \in Int
<1>1. n > 0 /\ t \in Deeper(Up[n - 1])
  BY UpIs, DeepestIs
<1>2. t \in [key : Keys, lchild : Up[n - 1], rchild : Up[n - 1], height : Int]
  BY <1>1 DEF Deeper
<1> QED
  BY <1>1, <1>2

LEMMA NullIsTree == \A n \in 0..Deepest : AVL!NULL \in Up[n]
  BY UpIs DEF Deeper

LEMMA Deepens == \A n \in 0..Deepest : n > 0 => Up[n - 1] \subseteq Up[n]
<1> DEFINE Bad == {n \in Nat : n \in 0..Deepest /\ n > 0 /\ ~(Up[n - 1] \subseteq Up[n])}
<1> SUFFICES ASSUME Bad # {} PROVE FALSE
  BY DeepestIs
<1>1. PICK n \in Bad : \A y \in Bad : n <= y
  BY Smallest
<1>2. n \in 0..Deepest /\ n > 0 /\ ~(Up[n - 1] \subseteq Up[n])
  BY <1>1
<1>3. n - 1 \in 0..Deepest /\ (n - 1 > 0 => n - 1 \notin Bad)
  BY <1>1, <1>2, DeepestIs
<1>4. PICK t \in Up[n - 1] : t \notin Up[n]
  BY <1>2
<1>5. t # AVL!NULL
  BY <1>2, <1>4, NullIsTree
<1>6. /\ n - 1 > 0
      /\ t \in [key : Keys, lchild : Up[(n - 1) - 1], rchild : Up[(n - 1) - 1], height : Int]
  BY <1>3, <1>4, <1>5, Children
<1>7. Up[(n - 1) - 1] \subseteq Up[n - 1]
  BY <1>3, <1>6
<1>8. t \in Deeper(Up[n - 1])
  BY <1>6, <1>7 DEF Deeper
<1> QED
  BY <1>2, <1>4, <1>8, UpIs

LEMMA UpInTrees == \A n \in 0..Deepest : Up[n] \subseteq Trees
<1> DEFINE Bad == {d \in Nat : d \in 0..Deepest /\ ~(Up[Deepest - d] \subseteq Trees)}
<1>1. ASSUME Bad # {} PROVE FALSE
  <2>1. PICK d \in Bad : \A y \in Bad : d <= y
    BY <1>1, Smallest
  <2>2. d \in 0..Deepest /\ ~(Up[Deepest - d] \subseteq Trees)
    BY <2>1
  <2>3. d # 0
    BY <2>2, TreesIs, DeepestIs
  <2>4. d - 1 \in Nat /\ d - 1 \in 0..Deepest /\ d - 1 \notin Bad
    BY <2>1, <2>2, <2>3, DeepestIs
  <2>5. Up[Deepest - (d - 1)] \subseteq Trees
    BY <2>4
  <2>6. /\ Deepest - (d - 1) \in 0..Deepest /\ Deepest - (d - 1) > 0
        /\ (Deepest - (d - 1)) - 1 = Deepest - d
    BY <2>2, <2>3, DeepestIs
  <2> QED
    BY <2>2, <2>5, <2>6, Deepens
<1>2. ASSUME NEW n \in 0..Deepest PROVE Up[n] \subseteq Trees
  <2>1. Deepest - n \in Nat /\ Deepest - n \in 0..Deepest /\ Deepest - (Deepest - n) = n
    BY DeepestIs
  <2> QED
    BY <1>1, <2>1
<1> QED
  BY <1>2

\* Induction on trees: a set of trees with NULL and with every node whose
\* children it has is the set of all trees.
LEMMA TreeInduction ==
  ASSUME NEW S, AVL!NULL \in S,
         \A t \in Trees : t # AVL!NULL /\ t.lchild \in S /\ t.rchild \in S => t \in S
  PROVE  \A t \in Trees : t \in S
<1> DEFINE Bad == {n \in Nat : n \in 0..Deepest /\ ~(Up[n] \subseteq S)}
<1>1. ASSUME Bad # {} PROVE FALSE
  <2>1. PICK n \in Bad : \A y \in Bad : n <= y
    BY <1>1, Smallest
  <2>2. n \in 0..Deepest /\ ~(Up[n] \subseteq S)
    BY <2>1
  <2>3. PICK t \in Up[n] : t \notin S
    BY <2>2
  <2>4. n > 0 /\ t.lchild \in Up[n - 1] /\ t.rchild \in Up[n - 1]
    BY <2>2, <2>3, Children
  <2>5. n - 1 \in Nat /\ n - 1 \in 0..Deepest /\ n - 1 \notin Bad
    BY <2>1, <2>2, <2>4, DeepestIs
  <2>6. Up[n - 1] \subseteq S
    BY <2>5
  <2>7. t \in Trees
    BY <2>2, <2>3, UpInTrees
  <2> QED
    BY <2>3, <2>4, <2>6, <2>7
<1> QED
  BY <1>1, DeepestIs, TreesIs

-----------------------------------------------------------------------------
(* Every recursive function on trees exists, and so has the equation of its
   definition: there is one on the trees of depth n, step by step from depth 0. *)
MinOf(t, l, r) ==
  IF t = AVL!NULL \/ t.lchild = AVL!NULL THEN t ELSE l

LEMMA MinIs == \A t \in Trees : AVL!AvlGetMin[t] = MinOf(t, AVL!AvlGetMin[t.lchild], AVL!AvlGetMin[t.rchild])
<1> DEFINE Is(g, n) == g = [t \in Up[n] |-> MinOf(t, g[t.lchild], g[t.rchild])]
           Without == {n \in Nat : n \in 0..Deepest /\ ~\E g : Is(g, n)}
<1>1. \A a, b, c, d : MinOf(AVL!NULL, a, b) = MinOf(AVL!NULL, c, d)
  BY DEF MinOf
<1>2. ASSUME Without # {} PROVE FALSE
  <2>1. PICK n \in Without : \A y \in Without : n <= y
    BY <1>2, Smallest
  <2>2. n \in 0..Deepest /\ (n > 0 => n - 1 \in 0..Deepest /\ \E g : Is(g, n - 1))
    BY <2>1, DeepestIs
  <2>3. PICK h : n > 0 => Is(h, n - 1)
    BY <2>2
  <2> DEFINE g == [t \in Up[n] |-> MinOf(t, h[t.lchild], h[t.rchild])]
  <2> HIDE DEF Without
  <2>4. ASSUME n > 0, NEW s \in Up[n - 1] PROVE g[s] = h[s]
    <3>1. s \in Up[n]
      BY <2>2, <2>4, Deepens
    <3> QED
      BY <2>3, <2>4, <3>1
  <2>5. ASSUME NEW t \in Up[n]
        PROVE  MinOf(t, g[t.lchild], g[t.rchild]) = MinOf(t, h[t.lchild], h[t.rchild])
    <3> HIDE DEF g
    <3>1. CASE t = AVL!NULL
      BY <1>1, <3>1
    <3>2. CASE t # AVL!NULL
      <4>1. n > 0 /\ t.lchild \in Up[n - 1] /\ t.rchild \in Up[n - 1]
        BY <2>2, <3>2, Children
      <4> QED
        BY <2>4, <4>1
    <3> QED
      BY <3>1, <3>2
  <2>6. Is(g, n)
    BY <2>5
  <2> QED
    BY <2>1, <2>6 DEF Without
<1>3. \E g : g = [t \in Trees |-> MinOf(t, g[t.lchild], g[t.rchild])]
  <2>1. \E g : Is(g, Deepest)
    BY <1>2, DeepestIs
  <2> QED
    BY <2>1, TreesIs
<1>4. AVL!AvlGetMin = [t \in Trees |-> MinOf(t, AVL!AvlGetMin[t.lchild], AVL!AvlGetMin[t.rchild])]
  BY <1>3 DEF AVL!AvlGetMin, MinOf, Trees, Up, Deepest, AVL!Trees
<1> QED
  BY <1>4

MaxOf(t, l, r) ==
  IF t = AVL!NULL \/ t.rchild = AVL!NULL THEN t ELSE r

LEMMA MaxIs == \A t \in Trees : AVL!AvlGetMax[t] = MaxOf(t, AVL!AvlGetMax[t.lchild], AVL!AvlGetMax[t.rchild])
<1> DEFINE Is(g, n) == g = [t \in Up[n] |-> MaxOf(t, g[t.lchild], g[t.rchild])]
           Without == {n \in Nat : n \in 0..Deepest /\ ~\E g : Is(g, n)}
<1>1. \A a, b, c, d : MaxOf(AVL!NULL, a, b) = MaxOf(AVL!NULL, c, d)
  BY DEF MaxOf
<1>2. ASSUME Without # {} PROVE FALSE
  <2>1. PICK n \in Without : \A y \in Without : n <= y
    BY <1>2, Smallest
  <2>2. n \in 0..Deepest /\ (n > 0 => n - 1 \in 0..Deepest /\ \E g : Is(g, n - 1))
    BY <2>1, DeepestIs
  <2>3. PICK h : n > 0 => Is(h, n - 1)
    BY <2>2
  <2> DEFINE g == [t \in Up[n] |-> MaxOf(t, h[t.lchild], h[t.rchild])]
  <2> HIDE DEF Without
  <2>4. ASSUME n > 0, NEW s \in Up[n - 1] PROVE g[s] = h[s]
    <3>1. s \in Up[n]
      BY <2>2, <2>4, Deepens
    <3> QED
      BY <2>3, <2>4, <3>1
  <2>5. ASSUME NEW t \in Up[n]
        PROVE  MaxOf(t, g[t.lchild], g[t.rchild]) = MaxOf(t, h[t.lchild], h[t.rchild])
    <3> HIDE DEF g
    <3>1. CASE t = AVL!NULL
      BY <1>1, <3>1
    <3>2. CASE t # AVL!NULL
      <4>1. n > 0 /\ t.lchild \in Up[n - 1] /\ t.rchild \in Up[n - 1]
        BY <2>2, <3>2, Children
      <4> QED
        BY <2>4, <4>1
    <3> QED
      BY <3>1, <3>2
  <2>6. Is(g, n)
    BY <2>5
  <2> QED
    BY <2>1, <2>6 DEF Without
<1>3. \E g : g = [t \in Trees |-> MaxOf(t, g[t.lchild], g[t.rchild])]
  <2>1. \E g : Is(g, Deepest)
    BY <1>2, DeepestIs
  <2> QED
    BY <2>1, TreesIs
<1>4. AVL!AvlGetMax = [t \in Trees |-> MaxOf(t, AVL!AvlGetMax[t.lchild], AVL!AvlGetMax[t.rchild])]
  BY <1>3 DEF AVL!AvlGetMax, MaxOf, Trees, Up, Deepest, AVL!Trees
<1> QED
  BY <1>4

SearchOf(t, l, r) ==
  [k \in Keys |->
    CASE t = AVL!NULL  -> AVL!NULL
      [] t # AVL!NULL /\ k < t.key -> l[k]
      [] t # AVL!NULL /\ k > t.key -> r[k]
      [] OTHER -> t]

LEMMA SearchIs == \A t \in Trees : AVL!AvlSearch[t] = SearchOf(t, AVL!AvlSearch[t.lchild], AVL!AvlSearch[t.rchild])
<1> DEFINE Is(g, n) == g = [t \in Up[n] |-> SearchOf(t, g[t.lchild], g[t.rchild])]
           Without == {n \in Nat : n \in 0..Deepest /\ ~\E g : Is(g, n)}
<1>1. \A a, b, c, d : SearchOf(AVL!NULL, a, b) = SearchOf(AVL!NULL, c, d)
  BY DEF SearchOf
<1>2. ASSUME Without # {} PROVE FALSE
  <2>1. PICK n \in Without : \A y \in Without : n <= y
    BY <1>2, Smallest
  <2>2. n \in 0..Deepest /\ (n > 0 => n - 1 \in 0..Deepest /\ \E g : Is(g, n - 1))
    BY <2>1, DeepestIs
  <2>3. PICK h : n > 0 => Is(h, n - 1)
    BY <2>2
  <2> DEFINE g == [t \in Up[n] |-> SearchOf(t, h[t.lchild], h[t.rchild])]
  <2> HIDE DEF Without
  <2>4. ASSUME n > 0, NEW s \in Up[n - 1] PROVE g[s] = h[s]
    <3>1. s \in Up[n]
      BY <2>2, <2>4, Deepens
    <3> QED
      BY <2>3, <2>4, <3>1
  <2>5. ASSUME NEW t \in Up[n]
        PROVE  SearchOf(t, g[t.lchild], g[t.rchild]) = SearchOf(t, h[t.lchild], h[t.rchild])
    <3> HIDE DEF g
    <3>1. CASE t = AVL!NULL
      BY <1>1, <3>1
    <3>2. CASE t # AVL!NULL
      <4>1. n > 0 /\ t.lchild \in Up[n - 1] /\ t.rchild \in Up[n - 1]
        BY <2>2, <3>2, Children
      <4> QED
        BY <2>4, <4>1
    <3> QED
      BY <3>1, <3>2
  <2>6. Is(g, n)
    BY <2>5
  <2> QED
    BY <2>1, <2>6 DEF Without
<1>3. \E g : g = [t \in Trees |-> SearchOf(t, g[t.lchild], g[t.rchild])]
  <2>1. \E g : Is(g, Deepest)
    BY <1>2, DeepestIs
  <2> QED
    BY <2>1, TreesIs
<1>4. AVL!AvlSearch = [t \in Trees |-> SearchOf(t, AVL!AvlSearch[t.lchild], AVL!AvlSearch[t.rchild])]
  BY <1>3 DEF AVL!AvlSearch, SearchOf, Trees, Up, Deepest, AVL!Trees
<1> QED
  BY <1>4

InsertOf(t, l, r) ==
  [k \in Keys |->
    CASE t = AVL!NULL -> AVL!Node(k, AVL!NULL, AVL!NULL)
      [] t # AVL!NULL /\ k < t.key -> AVL!GrownLeft(t, l[k], k)
      [] t # AVL!NULL /\ k > t.key -> AVL!GrownRight(t, r[k], k)
      [] OTHER -> t]

LEMMA InsertIs == \A t \in Trees : AVL!AvlInsert[t] = InsertOf(t, AVL!AvlInsert[t.lchild], AVL!AvlInsert[t.rchild])
<1> DEFINE Is(g, n) == g = [t \in Up[n] |-> InsertOf(t, g[t.lchild], g[t.rchild])]
           Without == {n \in Nat : n \in 0..Deepest /\ ~\E g : Is(g, n)}
<1>1. \A a, b, c, d : InsertOf(AVL!NULL, a, b) = InsertOf(AVL!NULL, c, d)
  BY DEF InsertOf
<1>2. ASSUME Without # {} PROVE FALSE
  <2>1. PICK n \in Without : \A y \in Without : n <= y
    BY <1>2, Smallest
  <2>2. n \in 0..Deepest /\ (n > 0 => n - 1 \in 0..Deepest /\ \E g : Is(g, n - 1))
    BY <2>1, DeepestIs
  <2>3. PICK h : n > 0 => Is(h, n - 1)
    BY <2>2
  <2> DEFINE g == [t \in Up[n] |-> InsertOf(t, h[t.lchild], h[t.rchild])]
  <2> HIDE DEF Without
  <2>4. ASSUME n > 0, NEW s \in Up[n - 1] PROVE g[s] = h[s]
    <3>1. s \in Up[n]
      BY <2>2, <2>4, Deepens
    <3> QED
      BY <2>3, <2>4, <3>1
  <2>5. ASSUME NEW t \in Up[n]
        PROVE  InsertOf(t, g[t.lchild], g[t.rchild]) = InsertOf(t, h[t.lchild], h[t.rchild])
    <3> HIDE DEF g
    <3>1. CASE t = AVL!NULL
      BY <1>1, <3>1
    <3>2. CASE t # AVL!NULL
      <4>1. n > 0 /\ t.lchild \in Up[n - 1] /\ t.rchild \in Up[n - 1]
        BY <2>2, <3>2, Children
      <4> QED
        BY <2>4, <4>1
    <3> QED
      BY <3>1, <3>2
  <2>6. Is(g, n)
    BY <2>5
  <2> QED
    BY <2>1, <2>6 DEF Without
<1>3. \E g : g = [t \in Trees |-> InsertOf(t, g[t.lchild], g[t.rchild])]
  <2>1. \E g : Is(g, Deepest)
    BY <1>2, DeepestIs
  <2> QED
    BY <2>1, TreesIs
<1>4. AVL!AvlInsert = [t \in Trees |-> InsertOf(t, AVL!AvlInsert[t.lchild], AVL!AvlInsert[t.rchild])]
  BY <1>3 DEF AVL!AvlInsert, InsertOf, Trees, Up, Deepest, AVL!Trees
<1> QED
  BY <1>4

RemoveOf(t, l, r) ==
  [k \in Keys |->
    CASE t = AVL!NULL -> AVL!NULL
      [] t # AVL!NULL /\ k = t.key /\ t.lchild # AVL!NULL /\ t.rchild # AVL!NULL ->
           LET m == AVL!AvlGetMin[t.rchild]
           IN  AVL!Rebalance(AVL!Relink(m, t.lchild, r[m.key]))
      [] t # AVL!NULL /\ k = t.key /\ (t.lchild = AVL!NULL \/ t.rchild = AVL!NULL) ->
           IF t.lchild # AVL!NULL THEN t.lchild ELSE t.rchild
      [] t # AVL!NULL /\ k < t.key -> AVL!Rebalance(AVL!Relink(t, l[k], t.rchild))
      [] t # AVL!NULL /\ k > t.key -> AVL!Rebalance(AVL!Relink(t, t.lchild, r[k]))]

LEMMA RemoveIs == \A t \in Trees : AVL!AvlRemove[t] = RemoveOf(t, AVL!AvlRemove[t.lchild], AVL!AvlRemove[t.rchild])
<1> DEFINE Is(g, n) == g = [t \in Up[n] |-> RemoveOf(t, g[t.lchild], g[t.rchild])]
           Without == {n \in Nat : n \in 0..Deepest /\ ~\E g : Is(g, n)}
<1>1. \A a, b, c, d : RemoveOf(AVL!NULL, a, b) = RemoveOf(AVL!NULL, c, d)
  BY DEF RemoveOf
<1>2. ASSUME Without # {} PROVE FALSE
  <2>1. PICK n \in Without : \A y \in Without : n <= y
    BY <1>2, Smallest
  <2>2. n \in 0..Deepest /\ (n > 0 => n - 1 \in 0..Deepest /\ \E g : Is(g, n - 1))
    BY <2>1, DeepestIs
  <2>3. PICK h : n > 0 => Is(h, n - 1)
    BY <2>2
  <2> DEFINE g == [t \in Up[n] |-> RemoveOf(t, h[t.lchild], h[t.rchild])]
  <2> HIDE DEF Without
  <2>4. ASSUME n > 0, NEW s \in Up[n - 1] PROVE g[s] = h[s]
    <3>1. s \in Up[n]
      BY <2>2, <2>4, Deepens
    <3> QED
      BY <2>3, <2>4, <3>1
  <2>5. ASSUME NEW t \in Up[n]
        PROVE  RemoveOf(t, g[t.lchild], g[t.rchild]) = RemoveOf(t, h[t.lchild], h[t.rchild])
    <3> HIDE DEF g
    <3>1. CASE t = AVL!NULL
      BY <1>1, <3>1
    <3>2. CASE t # AVL!NULL
      <4>1. n > 0 /\ t.lchild \in Up[n - 1] /\ t.rchild \in Up[n - 1]
        BY <2>2, <3>2, Children
      <4> QED
        BY <2>4, <4>1
    <3> QED
      BY <3>1, <3>2
  <2>6. Is(g, n)
    BY <2>5
  <2> QED
    BY <2>1, <2>6 DEF Without
<1>3. \E g : g = [t \in Trees |-> RemoveOf(t, g[t.lchild], g[t.rchild])]
  <2>1. \E g : Is(g, Deepest)
    BY <1>2, DeepestIs
  <2> QED
    BY <2>1, TreesIs
<1>4. AVL!AvlRemove = [t \in Trees |-> RemoveOf(t, AVL!AvlRemove[t.lchild], AVL!AvlRemove[t.rchild])]
  BY <1>3 DEF AVL!AvlRemove, RemoveOf, Trees, Up, Deepest, AVL!Trees
<1> QED
  BY <1>4

RmNodeOf(t, l, r) ==
  [k \in Keys |->
    CASE t = AVL!NULL -> AVL!NoNode
      [] t # AVL!NULL /\ k = t.key -> t.key
      [] t # AVL!NULL /\ k < t.key -> l[k]
      [] t # AVL!NULL /\ k > t.key -> r[k]]

LEMMA RmNodeIs == \A t \in Trees : AVL!RmNode[t] = RmNodeOf(t, AVL!RmNode[t.lchild], AVL!RmNode[t.rchild])
<1> DEFINE Is(g, n) == g = [t \in Up[n] |-> RmNodeOf(t, g[t.lchild], g[t.rchild])]
           Without == {n \in Nat : n \in 0..Deepest /\ ~\E g : Is(g, n)}
<1>1. \A a, b, c, d : RmNodeOf(AVL!NULL, a, b) = RmNodeOf(AVL!NULL, c, d)
  BY DEF RmNodeOf
<1>2. ASSUME Without # {} PROVE FALSE
  <2>1. PICK n \in Without : \A y \in Without : n <= y
    BY <1>2, Smallest
  <2>2. n \in 0..Deepest /\ (n > 0 => n - 1 \in 0..Deepest /\ \E g : Is(g, n - 1))
    BY <2>1, DeepestIs
  <2>3. PICK h : n > 0 => Is(h, n - 1)
    BY <2>2
  <2> DEFINE g == [t \in Up[n] |-> RmNodeOf(t, h[t.lchild], h[t.rchild])]
  <2> HIDE DEF Without
  <2>4. ASSUME n > 0, NEW s \in Up[n - 1] PROVE g[s] = h[s]
    <3>1. s \in Up[n]
      BY <2>2, <2>4, Deepens
    <3> QED
      BY <2>3, <2>4, <3>1
  <2>5. ASSUME NEW t \in Up[n]
        PROVE  RmNodeOf(t, g[t.lchild], g[t.rchild]) = RmNodeOf(t, h[t.lchild], h[t.rchild])
    <3> HIDE DEF g
    <3>1. CASE t = AVL!NULL
      BY <1>1, <3>1
    <3>2. CASE t # AVL!NULL
      <4>1. n > 0 /\ t.lchild \in Up[n - 1] /\ t.rchild \in Up[n - 1]
        BY <2>2, <3>2, Children
      <4> QED
        BY <2>4, <4>1
    <3> QED
      BY <3>1, <3>2
  <2>6. Is(g, n)
    BY <2>5
  <2> QED
    BY <2>1, <2>6 DEF Without
<1>3. \E g : g = [t \in Trees |-> RmNodeOf(t, g[t.lchild], g[t.rchild])]
  <2>1. \E g : Is(g, Deepest)
    BY <1>2, DeepestIs
  <2> QED
    BY <2>1, TreesIs
<1>4. AVL!RmNode = [t \in Trees |-> RmNodeOf(t, AVL!RmNode[t.lchild], AVL!RmNode[t.rchild])]
  BY <1>3 DEF AVL!RmNode, RmNodeOf, Trees, Up, Deepest, AVL!Trees
<1> QED
  BY <1>4

MembersOf(t, l, r) ==
  IF t = AVL!NULL THEN {} ELSE {t.key} \cup l \cup r

LEMMA MembersIs == \A t \in Trees : AVL!Members[t] = MembersOf(t, AVL!Members[t.lchild], AVL!Members[t.rchild])
<1> DEFINE Is(g, n) == g = [t \in Up[n] |-> MembersOf(t, g[t.lchild], g[t.rchild])]
           Without == {n \in Nat : n \in 0..Deepest /\ ~\E g : Is(g, n)}
<1>1. \A a, b, c, d : MembersOf(AVL!NULL, a, b) = MembersOf(AVL!NULL, c, d)
  BY DEF MembersOf
<1>2. ASSUME Without # {} PROVE FALSE
  <2>1. PICK n \in Without : \A y \in Without : n <= y
    BY <1>2, Smallest
  <2>2. n \in 0..Deepest /\ (n > 0 => n - 1 \in 0..Deepest /\ \E g : Is(g, n - 1))
    BY <2>1, DeepestIs
  <2>3. PICK h : n > 0 => Is(h, n - 1)
    BY <2>2
  <2> DEFINE g == [t \in Up[n] |-> MembersOf(t, h[t.lchild], h[t.rchild])]
  <2> HIDE DEF Without
  <2>4. ASSUME n > 0, NEW s \in Up[n - 1] PROVE g[s] = h[s]
    <3>1. s \in Up[n]
      BY <2>2, <2>4, Deepens
    <3> QED
      BY <2>3, <2>4, <3>1
  <2>5. ASSUME NEW t \in Up[n]
        PROVE  MembersOf(t, g[t.lchild], g[t.rchild]) = MembersOf(t, h[t.lchild], h[t.rchild])
    <3> HIDE DEF g
    <3>1. CASE t = AVL!NULL
      BY <1>1, <3>1
    <3>2. CASE t # AVL!NULL
      <4>1. n > 0 /\ t.lchild \in Up[n - 1] /\ t.rchild \in Up[n - 1]
        BY <2>2, <3>2, Children
      <4> QED
        BY <2>4, <4>1
    <3> QED
      BY <3>1, <3>2
  <2>6. Is(g, n)
    BY <2>5
  <2> QED
    BY <2>1, <2>6 DEF Without
<1>3. \E g : g = [t \in Trees |-> MembersOf(t, g[t.lchild], g[t.rchild])]
  <2>1. \E g : Is(g, Deepest)
    BY <1>2, DeepestIs
  <2> QED
    BY <2>1, TreesIs
<1>4. AVL!Members = [t \in Trees |-> MembersOf(t, AVL!Members[t.lchild], AVL!Members[t.rchild])]
  BY <1>3 DEF AVL!Members, MembersOf, Trees, Up, Deepest, AVL!Trees
<1> QED
  BY <1>4

BalanceOf(t, l, r) ==
  t = AVL!NULL \/ /\ t.height = AVL!Height(t.lchild, t.rchild)
                  /\ t.lchild.height - t.rchild.height \in -1..1
                  /\ l /\ r

LEMMA BalanceIs == \A t \in Trees : AVL!IsBalanced[t] = BalanceOf(t, AVL!IsBalanced[t.lchild], AVL!IsBalanced[t.rchild])
<1> DEFINE Is(g, n) == g = [t \in Up[n] |-> BalanceOf(t, g[t.lchild], g[t.rchild])]
           Without == {n \in Nat : n \in 0..Deepest /\ ~\E g : Is(g, n)}
<1>1. \A a, b, c, d : BalanceOf(AVL!NULL, a, b) = BalanceOf(AVL!NULL, c, d)
  BY DEF BalanceOf
<1>2. ASSUME Without # {} PROVE FALSE
  <2>1. PICK n \in Without : \A y \in Without : n <= y
    BY <1>2, Smallest
  <2>2. n \in 0..Deepest /\ (n > 0 => n - 1 \in 0..Deepest /\ \E g : Is(g, n - 1))
    BY <2>1, DeepestIs
  <2>3. PICK h : n > 0 => Is(h, n - 1)
    BY <2>2
  <2> DEFINE g == [t \in Up[n] |-> BalanceOf(t, h[t.lchild], h[t.rchild])]
  <2> HIDE DEF Without
  <2>4. ASSUME n > 0, NEW s \in Up[n - 1] PROVE g[s] = h[s]
    <3>1. s \in Up[n]
      BY <2>2, <2>4, Deepens
    <3> QED
      BY <2>3, <2>4, <3>1
  <2>5. ASSUME NEW t \in Up[n]
        PROVE  BalanceOf(t, g[t.lchild], g[t.rchild]) = BalanceOf(t, h[t.lchild], h[t.rchild])
    <3> HIDE DEF g
    <3>1. CASE t = AVL!NULL
      BY <1>1, <3>1
    <3>2. CASE t # AVL!NULL
      <4>1. n > 0 /\ t.lchild \in Up[n - 1] /\ t.rchild \in Up[n - 1]
        BY <2>2, <3>2, Children
      <4> QED
        BY <2>4, <4>1
    <3> QED
      BY <3>1, <3>2
  <2>6. Is(g, n)
    BY <2>5
  <2> QED
    BY <2>1, <2>6 DEF Without
<1>3. \E g : g = [t \in Trees |-> BalanceOf(t, g[t.lchild], g[t.rchild])]
  <2>1. \E g : Is(g, Deepest)
    BY <1>2, DeepestIs
  <2> QED
    BY <2>1, TreesIs
<1>4. AVL!IsBalanced = [t \in Trees |-> BalanceOf(t, AVL!IsBalanced[t.lchild], AVL!IsBalanced[t.rchild])]
  BY <1>3 DEF AVL!IsBalanced, BalanceOf, Trees, Up, Deepest, AVL!Trees
<1> QED
  BY <1>4

OrderOf(t, l, r) ==
  t = AVL!NULL \/ /\ \A k \in AVL!Members[t.lchild] : k < t.key
                  /\ \A k \in AVL!Members[t.rchild] : t.key < k
                  /\ l /\ r

LEMMA OrderIs == \A t \in Trees : AVL!InOrder[t] = OrderOf(t, AVL!InOrder[t.lchild], AVL!InOrder[t.rchild])
<1> DEFINE Is(g, n) == g = [t \in Up[n] |-> OrderOf(t, g[t.lchild], g[t.rchild])]
           Without == {n \in Nat : n \in 0..Deepest /\ ~\E g : Is(g, n)}
<1>1. \A a, b, c, d : OrderOf(AVL!NULL, a, b) = OrderOf(AVL!NULL, c, d)
  BY DEF OrderOf
<1>2. ASSUME Without # {} PROVE FALSE
  <2>1. PICK n \in Without : \A y \in Without : n <= y
    BY <1>2, Smallest
  <2>2. n \in 0..Deepest /\ (n > 0 => n - 1 \in 0..Deepest /\ \E g : Is(g, n - 1))
    BY <2>1, DeepestIs
  <2>3. PICK h : n > 0 => Is(h, n - 1)
    BY <2>2
  <2> DEFINE g == [t \in Up[n] |-> OrderOf(t, h[t.lchild], h[t.rchild])]
  <2> HIDE DEF Without
  <2>4. ASSUME n > 0, NEW s \in Up[n - 1] PROVE g[s] = h[s]
    <3>1. s \in Up[n]
      BY <2>2, <2>4, Deepens
    <3> QED
      BY <2>3, <2>4, <3>1
  <2>5. ASSUME NEW t \in Up[n]
        PROVE  OrderOf(t, g[t.lchild], g[t.rchild]) = OrderOf(t, h[t.lchild], h[t.rchild])
    <3> HIDE DEF g
    <3>1. CASE t = AVL!NULL
      BY <1>1, <3>1
    <3>2. CASE t # AVL!NULL
      <4>1. n > 0 /\ t.lchild \in Up[n - 1] /\ t.rchild \in Up[n - 1]
        BY <2>2, <3>2, Children
      <4> QED
        BY <2>4, <4>1
    <3> QED
      BY <3>1, <3>2
  <2>6. Is(g, n)
    BY <2>5
  <2> QED
    BY <2>1, <2>6 DEF Without
<1>3. \E g : g = [t \in Trees |-> OrderOf(t, g[t.lchild], g[t.rchild])]
  <2>1. \E g : Is(g, Deepest)
    BY <1>2, DeepestIs
  <2> QED
    BY <2>1, TreesIs
<1>4. AVL!InOrder = [t \in Trees |-> OrderOf(t, AVL!InOrder[t.lchild], AVL!InOrder[t.rchild])]
  BY <1>3 DEF AVL!InOrder, OrderOf, Trees, Up, Deepest, AVL!Trees
<1> QED
  BY <1>4

-----------------------------------------------------------------------------
(* Nodes put together and taken apart.  Sound is what the balanced trees in
   order have; the operators below are only ever used through these facts. *)
Sound(t) == t \in Trees /\ AVL!IsBalanced[t] /\ AVL!InOrder[t]
Members(t) == AVL!Members[t]

\* k is between the keys of two sound trees.
Between(k, l, r) ==
  /\ k \in Keys /\ Sound(l) /\ Sound(r)
  /\ \A x \in Members(l) : x < k
  /\ \A x \in Members(r) : k < x

LEMMA NullIs == Sound(AVL!NULL) /\ Members(AVL!NULL) = {} /\ AVL!NULL.height = -1
<1>1. AVL!NULL \in Trees
  BY NullIsTree, DeepestIs, TreesIs
<1> QED
  BY <1>1, MembersIs, BalanceIs, OrderIs DEF MembersOf, BalanceOf, OrderOf, Sound, Members, AVL!NULL

LEMMA TreeParts ==
  ASSUME NEW t \in Trees, t # AVL!NULL
  PROVE  t.lchild \in Trees /\ t.rchild \in Trees /\ t.key \in Keys /\ t.height \in Int
<1>1. t \in Up[Deepest] /\ Deepest \in 0..Deepest /\ Deepest - 1 \in 0..Deepest
  BY TreesIs, DeepestIs
<1> QED
  BY <1>1, Children, UpInTrees

\* A sound tree is as deep as its height says.
LEMMA Depth ==
  \A t \in Trees : AVL!IsBalanced[t] =>
    /\ t.height \in Int /\ t.height >= -1
    /\ t # AVL!NULL => t.height >= 0
    /\ \A n \in 0..Deepest : t.height < n => t \in Up[n]
<1> DEFINE P(t) == AVL!IsBalanced[t] =>
                     /\ t.height \in Int /\ t.height >= -1
                     /\ t # AVL!NULL => t.height >= 0
                     /\ \A n \in 0..Deepest : t.height < n => t \in Up[n]
           S == {t \in Trees : P(t)}
<1>1. AVL!NULL \in S
  BY NullIs, NullIsTree DEF Sound
<1>2. ASSUME NEW t \in Trees, t # AVL!NULL, t.lchild \in S, t.rchild \in S PROVE t \in S
  <2> SUFFICES ASSUME AVL!IsBalanced[t]
               PROVE  /\ t.height \in Int /\ t.height >= 0
                      /\ \A n \in 0..Deepest : t.height < n => t \in Up[n]
    BY <1>2
  <2> DEFINE l == t.lchild
             r == t.rchild
  <2>1. t.height = AVL!Height(l, r) /\ AVL!IsBalanced[l] /\ AVL!IsBalanced[r]
    BY <1>2, BalanceIs DEF BalanceOf
  <2>2. P(l) /\ P(r)
    BY <1>2
  <2>3. t.height >= 0 /\ l.height < t.height /\ r.height < t.height /\ t.height \in Int
        /\ l.height \in Int /\ r.height \in Int
    BY <2>1, <2>2 DEF AVL!Height
  <2>4. ASSUME NEW n \in 0..Deepest, t.height < n PROVE t \in Up[n]
    <3>1. n > 0 /\ n - 1 \in 0..Deepest /\ l.height < n - 1 /\ r.height < n - 1
      BY <2>3, <2>4, DeepestIs
    <3>2. l \in Up[n - 1] /\ r \in Up[n - 1]
      BY <2>1, <2>2, <3>1
    <3>3. t \in [key : Keys, lchild : Trees, rchild : Trees, height : Int]
      <4>1. Deepest \in 0..Deepest /\ t \in Up[Deepest] /\ Deepest - 1 \in 0..Deepest
        BY DeepestIs, TreesIs
      <4>2. t \in [key : Keys, lchild : Up[Deepest - 1], rchild : Up[Deepest - 1], height : Int]
        BY <4>1, <1>2, Children
      <4> QED
        BY <4>1, <4>2, UpInTrees
    <3>4. t \in Deeper(Up[n - 1])
      BY <3>2, <3>3 DEF Deeper
    <3> QED
      BY <3>1, <3>4, UpIs
  <2> QED
    BY <2>3, <2>4
<1> HIDE DEF S
<1>3. \A t \in Trees : t \in S
  BY <1>1, <1>2, TreeInduction
<1> QED
  BY <1>3 DEF S

LEMMA SoundHeight ==
  ASSUME NEW t, Sound(t)
  PROVE  t.height \in Int /\ t.height >= -1 /\ (t.height = -1 <=> t = AVL!NULL)
BY Depth, NullIs DEF Sound

LEMMA MembersAreKeys == \A t \in Trees : Members(t) \subseteq Keys
<1> DEFINE S == {t \in Trees : Members(t) \subseteq Keys}
<1>1. AVL!NULL \in S
  BY NullIs DEF Sound
<1>2. ASSUME NEW t \in Trees, t # AVL!NULL, t.lchild \in S, t.rchild \in S PROVE t \in S
  <2>1. Members(t) = {t.key} \cup Members(t.lchild) \cup Members(t.rchild)
    BY <1>2, MembersIs DEF MembersOf, Members
  <2> QED
    BY <1>2, <2>1, TreeParts
<1> HIDE DEF S
<1>3. \A t \in Trees : t \in S
  BY <1>1, <1>2, TreeInduction
<1> QED
  BY <1>3 DEF S

LEMMA NodeParts ==
  ASSUME NEW k, NEW l, NEW r
  PROVE  /\ AVL!Node(k, l, r).key = k
         /\ AVL!Node(k, l, r).lchild = l
         /\ AVL!Node(k, l, r).rchild = r
         /\ AVL!Node(k, l, r).height = AVL!Height(l, r)
BY DEF AVL!Node

LEMMA SoundParts ==
  ASSUME NEW t, Sound(t), t # AVL!NULL
  PROVE  /\ Between(t.key, t.lchild, t.rchild)
         /\ t.height = AVL!Height(t.lchild, t.rchild)
         /\ t.lchild.height - t.rchild.height \in -1..1
         /\ Members(t) = {t.key} \cup Members(t.lchild) \cup Members(t.rchild)
<1>1. t \in Trees
  BY DEF Sound
<1>2. t.lchild \in Trees /\ t.rchild \in Trees /\ t.key \in Keys
  BY <1>1, TreeParts
<1>3. BalanceOf(t, AVL!IsBalanced[t.lchild], AVL!IsBalanced[t.rchild])
  BY <1>1, BalanceIs DEF Sound
<1>4. OrderOf(t, AVL!InOrder[t.lchild], AVL!InOrder[t.rchild])
  BY <1>1, OrderIs DEF Sound
<1>5. Members(t) = {t.key} \cup Members(t.lchild) \cup Members(t.rchild)
  BY <1>1, MembersIs DEF MembersOf, Members
<1> QED
  BY <1>2, <1>3, <1>4, <1>5 DEF BalanceOf, OrderOf, Between, Sound, Members

LEMMA SoundNode ==
  ASSUME NEW k, NEW l, NEW r, Between(k, l, r),
         l.height - r.height \in -1..1, l.height < MaxDepth, r.height < MaxDepth
  PROVE  /\ Sound(AVL!Node(k, l, r)) /\ AVL!Node(k, l, r) # AVL!NULL
         /\ Members(AVL!Node(k, l, r)) = {k} \cup Members(l) \cup Members(r)
<1> DEFINE t == AVL!Node(k, l, r)
<1>1. k \in Keys /\ Sound(l) /\ Sound(r)
  BY DEF Between
<1>2. MaxDepth \in 0..Deepest /\ Deepest \in 0..Deepest /\ Deepest > 0 /\ Deepest - 1 = MaxDepth
  BY KeysAssumption DEF Deepest
<1>3. l \in Up[MaxDepth] /\ r \in Up[MaxDepth] /\ l.height \in Int /\ r.height \in Int
  BY <1>1, <1>2, Depth DEF Sound
<1>4. AVL!Height(l, r) \in Int
  BY <1>3 DEF AVL!Height
<1>5. t \in [key : Keys, lchild : Up[MaxDepth], rchild : Up[MaxDepth], height : Int]
  BY <1>1, <1>3, <1>4 DEF AVL!Node
<1>6. t \in Trees /\ t # AVL!NULL
  <2>1. t \in Deeper(Up[MaxDepth])
    BY <1>5 DEF Deeper
  <2> QED
    BY <1>2, <1>5, <2>1, UpIs, TreesIs, NodeIsNotNull
<1>7. t.key = k /\ t.lchild = l /\ t.rchild = r /\ t.height = AVL!Height(l, r)
  BY NodeParts
<1> HIDE DEF t
<1>8. Members(t) = {k} \cup Members(l) \cup Members(r)
  BY <1>6, <1>7, MembersIs DEF MembersOf, Members
<1>9. AVL!IsBalanced[t]
  BY <1>1, <1>6, <1>7, BalanceIs DEF BalanceOf, Sound
<1>10. AVL!InOrder[t]
  BY <1>1, <1>6, <1>7, OrderIs DEF OrderOf, Sound, Between, Members
<1> QED
  BY <1>6, <1>8, <1>9, <1>10 DEF Sound, t
-----------------------------------------------------------------------------
(* Rotations.  A tree with a child two higher than the other is the same set of
   keys in the same order after the rotation that the code chooses, and sound. *)

\* u is a sound tree of k and the keys of l and r.
Holds(u, k, l, r) ==
  /\ Sound(u) /\ u # AVL!NULL
  /\ Members(u) = {k} \cup Members(l) \cup Members(r)

\* What the code rotates or leaves: the key and the children of a node, of
\* whatever height.
Has(t, k, l, r) == t.key = k /\ t.lchild = l /\ t.rchild = r

LEMMA NodeHolds ==
  ASSUME NEW k, NEW l, NEW r, Between(k, l, r),
         l.height - r.height \in -1..1, l.height < MaxDepth, r.height < MaxDepth
  PROVE  /\ Holds(AVL!Node(k, l, r), k, l, r)
         /\ AVL!Node(k, l, r).height = AVL!Height(l, r)
BY SoundNode, NodeParts DEF Holds

LEMMA BetweenHeights ==
  ASSUME NEW k, NEW l, NEW r, Between(k, l, r)
  PROVE  l.height \in Int /\ r.height \in Int /\ l.height >= -1 /\ r.height >= -1
BY SoundHeight DEF Between

LEMMA KeysAreOrdered == \A a, b, c \in Keys : a < b /\ b < c => a < c
  BY KeysAssumption

LEMMA BetweenKeys ==
  ASSUME NEW k, NEW l, NEW r, Between(k, l, r)
  PROVE  Members(l) \subseteq Keys /\ Members(r) \subseteq Keys /\ k \in Keys
BY MembersAreKeys DEF Between, Sound

LEMMA HeightIs ==
  ASSUME NEW l, NEW r, l.height \in Int, r.height \in Int
  PROVE  /\ AVL!Height(l, r) \in Int
         /\ l.height <= AVL!Height(l, r) - 1 /\ r.height <= AVL!Height(l, r) - 1
         /\ l.height = AVL!Height(l, r) - 1 \/ r.height = AVL!Height(l, r) - 1
BY DEF AVL!Height

LEMMA SingleLeft ==
  ASSUME NEW t, NEW k, NEW l, NEW r, Has(t, k, l, r), Between(k, l, r),
         l.height - r.height = 2, l.height < MaxDepth, l.lchild.height = l.height - 1
  PROVE  /\ Holds(AVL!SingleRotateLeft(t), k, l, r)
         /\ AVL!SingleRotateLeft(t).height =
              (IF l.rchild.height = l.height - 1 THEN l.height + 1 ELSE l.height)
<1> DEFINE a == l.lchild
           b == l.rchild
           j == l.key
           low == AVL!Node(k, b, r)
<1>1. l.height \in Int /\ r.height \in Int /\ r.height >= -1 /\ MaxDepth \in Nat
  BY BetweenHeights, KeysAssumption
<1>2. Sound(l) /\ l # AVL!NULL
  BY <1>1, NullIs DEF Between
<1>3. /\ Between(j, a, b) /\ l.height = AVL!Height(a, b) /\ a.height - b.height \in -1..1
      /\ Members(l) = {j} \cup Members(a) \cup Members(b)
  BY <1>2, SoundParts
<1>4. a.height \in Int /\ b.height \in Int
  BY <1>3, BetweenHeights
<1>5. b.height \in {l.height - 1, l.height - 2}
  BY <1>1, <1>3, <1>4 DEF AVL!Height
<1>6. Between(k, b, r)
  BY <1>3 DEF Between
<1>7. Holds(low, k, b, r) /\ low.height = b.height + 1
  <2>1. b.height - r.height \in -1..1 /\ b.height < MaxDepth /\ r.height < MaxDepth
    BY <1>1, <1>4, <1>5
  <2>2. AVL!Height(b, r) = b.height + 1
    BY <1>1, <1>4, <1>5 DEF AVL!Height
  <2> QED
    BY <1>6, <2>1, <2>2, NodeHolds
<1> HIDE DEF low
<1>8. Between(j, a, low)
  <2>1. \A x \in Members(r) : j < x
    BY <1>3, BetweenKeys, KeysAreOrdered DEF Between
  <2> QED
    BY <1>3, <1>7, <2>1 DEF Between, Holds
<1>9. AVL!Height(a, low) = IF b.height = l.height - 1 THEN l.height + 1 ELSE l.height
  BY <1>1, <1>4, <1>5, <1>7 DEF AVL!Height
<1>10. /\ Holds(AVL!Node(j, a, low), j, a, low)
       /\ AVL!Node(j, a, low).height = AVL!Height(a, low)
  <2>1. a.height - low.height \in -1..1 /\ a.height < MaxDepth /\ low.height < MaxDepth
    BY <1>1, <1>4, <1>5, <1>7
  <2> QED
    BY <1>8, <2>1, NodeHolds
<1>11. AVL!SingleRotateLeft(t) = AVL!Node(j, a, low)
  BY DEF AVL!SingleRotateLeft, Has, low
<1> QED
  BY <1>3, <1>7, <1>9, <1>10, <1>11 DEF Holds

LEMMA SingleRight ==
  ASSUME NEW t, NEW k, NEW l, NEW r, Has(t, k, l, r), Between(k, l, r),
         r.height - l.height = 2, r.height < MaxDepth, r.rchild.height = r.height - 1
  PROVE  /\ Holds(AVL!SingleRotateRight(t), k, l, r)
         /\ AVL!SingleRotateRight(t).height =
              (IF r.lchild.height = r.height - 1 THEN r.height + 1 ELSE r.height)
<1> DEFINE a == r.rchild
           b == r.lchild
           j == r.key
           low == AVL!Node(k, l, b)
<1>1. r.height \in Int /\ l.height \in Int /\ l.height >= -1 /\ MaxDepth \in Nat
  BY BetweenHeights, KeysAssumption
<1>2. Sound(r) /\ r # AVL!NULL
  BY <1>1, NullIs DEF Between
<1>3. /\ Between(j, b, a) /\ r.height = AVL!Height(b, a) /\ b.height - a.height \in -1..1
      /\ Members(r) = {j} \cup Members(a) \cup Members(b)
  BY <1>2, SoundParts
<1>4. a.height \in Int /\ b.height \in Int
  BY <1>3, BetweenHeights
<1>5. b.height \in {r.height - 1, r.height - 2}
  BY <1>1, <1>3, <1>4 DEF AVL!Height
<1>6. Between(k, l, b)
  BY <1>3 DEF Between
<1>7. Holds(low, k, l, b) /\ low.height = b.height + 1
  <2>1. l.height - b.height \in -1..1 /\ b.height < MaxDepth /\ l.height < MaxDepth
    BY <1>1, <1>4, <1>5
  <2>2. AVL!Height(l, b) = b.height + 1
    BY <1>1, <1>4, <1>5 DEF AVL!Height
  <2> QED
    BY <1>6, <2>1, <2>2, NodeHolds
<1> HIDE DEF low
<1>8. Between(j, low, a)
  <2>1. \A x \in Members(l) : x < j
    BY <1>3, BetweenKeys, KeysAreOrdered DEF Between
  <2> QED
    BY <1>3, <1>7, <2>1 DEF Between, Holds
<1>9. AVL!Height(low, a) = IF b.height = r.height - 1 THEN r.height + 1 ELSE r.height
  BY <1>1, <1>4, <1>5, <1>7 DEF AVL!Height
<1>10. /\ Holds(AVL!Node(j, low, a), j, low, a)
       /\ AVL!Node(j, low, a).height = AVL!Height(low, a)
  <2>1. low.height - a.height \in -1..1 /\ a.height < MaxDepth /\ low.height < MaxDepth
    BY <1>1, <1>4, <1>5, <1>7
  <2> QED
    BY <1>8, <2>1, NodeHolds
<1>11. AVL!SingleRotateRight(t) = AVL!Node(j, low, a)
  BY DEF AVL!SingleRotateRight, Has, low
<1> QED
  BY <1>3, <1>7, <1>9, <1>10, <1>11 DEF Holds

LEMMA DoubleLeft ==
  ASSUME NEW t, NEW k, NEW l, NEW r, Has(t, k, l, r), Between(k, l, r),
         l.height - r.height = 2, l.height < MaxDepth,
         l.lchild.height # l.height - 1, l.rchild.height = l.height - 1
  PROVE  /\ Holds(AVL!DoubleRotateLeft(t), k, l, r)
         /\ AVL!DoubleRotateLeft(t).height = l.height
<1> DEFINE a == l.lchild
           n == l.rchild
           j == l.key
           p == n.lchild
           q == n.rchild
           i == n.key
           one == AVL!Node(j, a, p)
           two == AVL!Node(k, q, r)
<1>1. l.height \in Int /\ r.height \in Int /\ r.height >= -1 /\ MaxDepth \in Nat
  BY BetweenHeights, KeysAssumption
<1>2. Sound(l) /\ l # AVL!NULL
  BY <1>1, NullIs DEF Between
<1>3. /\ Between(j, a, n) /\ l.height = AVL!Height(a, n) /\ a.height - n.height \in -1..1
      /\ Members(l) = {j} \cup Members(a) \cup Members(n)
  BY <1>2, SoundParts
<1>4. a.height \in Int /\ n.height = l.height - 1 /\ a.height = l.height - 2
  BY <1>1, <1>3, BetweenHeights DEF AVL!Height
<1>5. Sound(n) /\ n # AVL!NULL
  BY <1>1, <1>3, <1>4, NullIs DEF Between
<1>6. /\ Between(i, p, q) /\ n.height = AVL!Height(p, q) /\ p.height - q.height \in -1..1
      /\ Members(n) = {i} \cup Members(p) \cup Members(q)
  BY <1>5, SoundParts
<1>7. /\ p.height \in Int /\ q.height \in Int
      /\ p.height \in {l.height - 2, l.height - 3} /\ q.height \in {l.height - 2, l.height - 3}
      /\ p.height = l.height - 2 \/ q.height = l.height - 2
  <2>1. p.height \in Int /\ q.height \in Int
    BY <1>6, BetweenHeights
  <2>2. /\ p.height = n.height - 1 \/ q.height = n.height - 1
        /\ p.height - q.height \in -1..1 /\ p.height <= n.height - 1 /\ q.height <= n.height - 1
    BY <2>1, <1>6, HeightIs
  <2> HIDE DEF p, q, n
  <2> QED
    BY <2>1, <2>2, <1>1, <1>4
<1>8. Between(j, a, p) /\ Between(k, q, r)
  BY <1>3, <1>6 DEF Between
<1>9. Holds(one, j, a, p) /\ one.height = l.height - 1
  <2>1. a.height - p.height \in -1..1 /\ a.height < MaxDepth /\ p.height < MaxDepth
    BY <1>1, <1>4, <1>7
  <2>2. AVL!Height(a, p) = l.height - 1
    BY <1>1, <1>4, <1>7 DEF AVL!Height
  <2> QED
    BY <1>8, <2>1, <2>2, NodeHolds
<1>10. Holds(two, k, q, r) /\ two.height = l.height - 1
  <2>1. q.height - r.height \in -1..1 /\ q.height < MaxDepth /\ r.height < MaxDepth
    BY <1>1, <1>4, <1>7
  <2>2. AVL!Height(q, r) = l.height - 1
    BY <1>1, <1>4, <1>7 DEF AVL!Height
  <2> QED
    BY <1>8, <2>1, <2>2, NodeHolds
<1> HIDE DEF one, two
<1>11. Between(i, one, two)
  <2>1. i \in Members(n) /\ i \in Members(l) /\ j \in Keys /\ i \in Keys
    BY <1>3, <1>6, BetweenKeys
  <2>2. j < i /\ i < k
    BY <1>3, <2>1 DEF Between
  <2>3. \A x \in Members(one) : x < i
    BY <1>3, <1>6, <1>9, <2>1, <2>2, BetweenKeys, KeysAreOrdered DEF Between, Holds
  <2>4. \A x \in Members(two) : i < x
    BY <1>6, <1>10, <2>1, <2>2, BetweenKeys, KeysAreOrdered DEF Between, Holds
  <2> QED
    BY <1>9, <1>10, <2>1, <2>3, <2>4 DEF Between, Holds
<1>12. Holds(AVL!Node(i, one, two), i, one, two) /\ AVL!Node(i, one, two).height = l.height
  <2>1. one.height - two.height \in -1..1 /\ one.height < MaxDepth /\ two.height < MaxDepth
    BY <1>1, <1>9, <1>10
  <2>2. AVL!Height(one, two) = l.height
    BY <1>1, <1>9, <1>10 DEF AVL!Height
  <2> QED
    BY <1>11, <2>1, <2>2, NodeHolds
<1>13. AVL!DoubleRotateLeft(t) = AVL!Node(i, one, two)
  BY DEF AVL!DoubleRotateLeft, Has, one, two
<1> QED
  BY <1>3, <1>6, <1>9, <1>10, <1>12, <1>13 DEF Holds

LEMMA DoubleRight ==
  ASSUME NEW t, NEW k, NEW l, NEW r, Has(t, k, l, r), Between(k, l, r),
         r.height - l.height = 2, r.height < MaxDepth,
         r.rchild.height # r.height - 1, r.lchild.height = r.height - 1
  PROVE  /\ Holds(AVL!DoubleRotateRight(t), k, l, r)
         /\ AVL!DoubleRotateRight(t).height = r.height
<1> DEFINE a == r.rchild
           n == r.lchild
           j == r.key
           p == n.rchild
           q == n.lchild
           i == n.key
           one == AVL!Node(j, p, a)
           two == AVL!Node(k, l, q)
<1>1. r.height \in Int /\ l.height \in Int /\ l.height >= -1 /\ MaxDepth \in Nat
  BY BetweenHeights, KeysAssumption
<1>2. Sound(r) /\ r # AVL!NULL
  BY <1>1, NullIs DEF Between
<1>3. /\ Between(j, n, a) /\ r.height = AVL!Height(n, a) /\ n.height - a.height \in -1..1
      /\ Members(r) = {j} \cup Members(a) \cup Members(n)
  BY <1>2, SoundParts
<1>4. a.height \in Int /\ n.height = r.height - 1 /\ a.height = r.height - 2
  BY <1>1, <1>3, BetweenHeights DEF AVL!Height
<1>5. Sound(n) /\ n # AVL!NULL
  BY <1>1, <1>3, <1>4, NullIs DEF Between
<1>6. /\ Between(i, q, p) /\ n.height = AVL!Height(q, p) /\ q.height - p.height \in -1..1
      /\ Members(n) = {i} \cup Members(p) \cup Members(q)
  BY <1>5, SoundParts
<1>7. /\ p.height \in Int /\ q.height \in Int
      /\ p.height \in {r.height - 2, r.height - 3} /\ q.height \in {r.height - 2, r.height - 3}
      /\ p.height = r.height - 2 \/ q.height = r.height - 2
  <2>1. p.height \in Int /\ q.height \in Int
    BY <1>6, BetweenHeights
  <2>2. /\ p.height = n.height - 1 \/ q.height = n.height - 1
        /\ q.height - p.height \in -1..1 /\ p.height <= n.height - 1 /\ q.height <= n.height - 1
    BY <2>1, <1>6, HeightIs
  <2> HIDE DEF p, q, n
  <2> QED
    BY <2>1, <2>2, <1>1, <1>4
<1>8. Between(j, p, a) /\ Between(k, l, q)
  BY <1>3, <1>6 DEF Between
<1>9. Holds(one, j, p, a) /\ one.height = r.height - 1
  <2>1. p.height - a.height \in -1..1 /\ a.height < MaxDepth /\ p.height < MaxDepth
    BY <1>1, <1>4, <1>7
  <2>2. AVL!Height(p, a) = r.height - 1
    BY <1>1, <1>4, <1>7 DEF AVL!Height
  <2> QED
    BY <1>8, <2>1, <2>2, NodeHolds
<1>10. Holds(two, k, l, q) /\ two.height = r.height - 1
  <2>1. l.height - q.height \in -1..1 /\ q.height < MaxDepth /\ l.height < MaxDepth
    BY <1>1, <1>4, <1>7
  <2>2. AVL!Height(l, q) = r.height - 1
    BY <1>1, <1>4, <1>7 DEF AVL!Height
  <2> QED
    BY <1>8, <2>1, <2>2, NodeHolds
<1> HIDE DEF one, two
<1>11. Between(i, two, one)
  <2>1. i \in Members(n) /\ i \in Members(r) /\ j \in Keys /\ i \in Keys
    BY <1>3, <1>6, BetweenKeys
  <2>2. i < j /\ k < i
    BY <1>3, <2>1 DEF Between
  <2>3. \A x \in Members(one) : i < x
    BY <1>3, <1>6, <1>9, <2>1, <2>2, BetweenKeys, KeysAreOrdered DEF Between, Holds
  <2>4. \A x \in Members(two) : x < i
    BY <1>6, <1>10, <2>1, <2>2, BetweenKeys, KeysAreOrdered DEF Between, Holds
  <2> QED
    BY <1>9, <1>10, <2>1, <2>3, <2>4 DEF Between, Holds
<1>12. Holds(AVL!Node(i, two, one), i, two, one) /\ AVL!Node(i, two, one).height = r.height
  <2>1. two.height - one.height \in -1..1 /\ one.height < MaxDepth /\ two.height < MaxDepth
    BY <1>1, <1>9, <1>10
  <2>2. AVL!Height(two, one) = r.height
    BY <1>1, <1>9, <1>10 DEF AVL!Height
  <2> QED
    BY <1>11, <2>1, <2>2, NodeHolds
<1>13. AVL!DoubleRotateRight(t) = AVL!Node(i, two, one)
  BY DEF AVL!DoubleRotateRight, Has, one, two
<1> QED
  BY <1>3, <1>6, <1>9, <1>10, <1>12, <1>13 DEF Holds

-----------------------------------------------------------------------------
(* avlinsert and avlremove on the way up. *)
LEMMA RelinkHas ==
  ASSUME NEW t \in Trees, t # AVL!NULL, NEW l, NEW r
  PROVE  Has(AVL!Relink(t, l, r), t.key, l, r)
<1>1. t \in [key : Keys, lchild : Up[MaxDepth], rchild : Up[MaxDepth], height : Int]
  BY TreesIs, DeepestIs, Children
<1> QED
  BY <1>1 DEF AVL!Relink, Has

LEMMA HeightTwice ==
  ASSUME NEW u, Sound(u), u # AVL!NULL PROVE AVL!Node(u.key, u.lchild, u.rchild) = u
<1>1. u \in [key : Keys, lchild : Up[MaxDepth], rchild : Up[MaxDepth], height : Int]
  BY TreesIs, DeepestIs, Children DEF Sound
<1>2. u = [key |-> u.key, lchild |-> u.lchild, rchild |-> u.rchild, height |-> u.height]
  BY <1>1
<1>3. u.height = AVL!Height(u.lchild, u.rchild)
  BY SoundParts
<1> QED
  BY <1>2, <1>3 DEF AVL!Node

\* The rebalancing at the end of avlremove.
RebalanceTo(t, l, r) ==
  CASE l.height - r.height = 2 ->
         (CASE l.lchild.height - r.height = 1 -> AVL!SingleRotateLeft(t)
            [] l.lchild.height - r.height # 1 /\ l.rchild.height - r.height = 1 -> AVL!DoubleRotateLeft(t)
            [] OTHER -> t)
    [] r.height - l.height = 2 ->
         (CASE r.rchild.height - l.height = 1 -> AVL!SingleRotateRight(t)
            [] r.rchild.height - l.height # 1 /\ r.lchild.height - l.height = 1 -> AVL!DoubleRotateRight(t)
            [] OTHER -> t)
    [] OTHER -> t

LEMMA RebalanceIs ==
  ASSUME NEW t
  PROVE  AVL!Rebalance(t) =
           AVL!Node(RebalanceTo(t, t.lchild, t.rchild).key,
                    RebalanceTo(t, t.lchild, t.rchild).lchild,
                    RebalanceTo(t, t.lchild, t.rchild).rchild)
BY DEF AVL!Rebalance, RebalanceTo

\* Which of the grandchildren of a tilted node is high.
LEMMA HighChild ==
  ASSUME NEW t, Sound(t), t.height >= 1
  PROVE  /\ t # AVL!NULL /\ t.lchild.height \in Int /\ t.rchild.height \in Int
         /\ t.lchild.height # t.height - 1 => t.rchild.height = t.height - 1
         /\ t.rchild.height # t.height - 1 => t.lchild.height = t.height - 1
<1>1. t # AVL!NULL /\ t.height \in Int
  BY NullIs, SoundHeight
<1>2. Between(t.key, t.lchild, t.rchild) /\ t.height = AVL!Height(t.lchild, t.rchild)
  BY <1>1, SoundParts
<1>3. t.lchild.height \in Int /\ t.rchild.height \in Int
  BY <1>2, BetweenHeights
<1> QED
  BY <1>1, <1>2, <1>3, HeightIs

LEMMA RebalanceHolds ==
  ASSUME NEW t, NEW k, NEW l, NEW r, Has(t, k, l, r), Between(k, l, r),
         l.height - r.height \in -2..2, l.height < MaxDepth, r.height < MaxDepth
  PROVE  /\ Holds(AVL!Rebalance(t), k, l, r)
         /\ AVL!Rebalance(t).height \in {AVL!Height(l, r), AVL!Height(l, r) - 1}
         /\ l.height - r.height \in -1..1 => AVL!Rebalance(t).height = AVL!Height(l, r)
<1> DEFINE u == RebalanceTo(t, l, r)
<1>0. l.height \in Int /\ r.height \in Int /\ l.height >= -1 /\ r.height >= -1 /\ MaxDepth \in Nat
  BY BetweenHeights, KeysAssumption
<1>1. AVL!Rebalance(t) = AVL!Node(u.key, u.lchild, u.rchild)
  BY RebalanceIs DEF Has
<1>2. CASE l.height - r.height \in -1..1
  <2>1. u = t
    BY <1>0, <1>2 DEF RebalanceTo
  <2>2. AVL!Rebalance(t) = AVL!Node(k, l, r)
    BY <1>1, <2>1 DEF Has
  <2> QED
    BY <1>2, <2>2, NodeHolds
<1>3. CASE l.height - r.height = 2
  <2>1. Sound(l) /\ l.height >= 1
    BY <1>0, <1>3 DEF Between
  <2>2. AVL!Height(l, r) = l.height + 1
    BY <1>0, <1>3 DEF AVL!Height
  <2>3. l.lchild.height \in Int /\ l.rchild.height \in Int
        /\ (l.lchild.height # l.height - 1 => l.rchild.height = l.height - 1)
    BY <2>1, HighChild
  <2>4. CASE l.lchild.height = l.height - 1
    <3>1. u = AVL!SingleRotateLeft(t)
      BY <1>0, <1>3, <2>3, <2>4 DEF RebalanceTo
    <3>2. Holds(u, k, l, r) /\ u.height \in {l.height, l.height + 1}
      BY <1>3, <2>4, <3>1, SingleLeft
    <3>3. AVL!Rebalance(t) = u
      BY <1>1, <3>2, HeightTwice DEF Holds
    <3> QED
      BY <1>0, <1>3, <2>2, <3>2, <3>3
  <2>5. CASE l.lchild.height # l.height - 1
    <3>1. u = AVL!DoubleRotateLeft(t)
      BY <1>0, <1>3, <2>3, <2>5 DEF RebalanceTo
    <3>2. Holds(u, k, l, r) /\ u.height = l.height
      BY <1>3, <2>3, <2>5, <3>1, DoubleLeft
    <3>3. AVL!Rebalance(t) = u
      BY <1>1, <3>2, HeightTwice DEF Holds
    <3> QED
      BY <1>0, <1>3, <2>2, <3>2, <3>3
  <2> QED
    BY <2>4, <2>5
<1>4. CASE r.height - l.height = 2
  <2>1. Sound(r) /\ r.height >= 1
    BY <1>0, <1>4 DEF Between
  <2>2. AVL!Height(l, r) = r.height + 1
    BY <1>0, <1>4 DEF AVL!Height
  <2>3. r.lchild.height \in Int /\ r.rchild.height \in Int
        /\ (r.rchild.height # r.height - 1 => r.lchild.height = r.height - 1)
    BY <2>1, HighChild
  <2>4. CASE r.rchild.height = r.height - 1
    <3>1. u = AVL!SingleRotateRight(t)
      BY <1>0, <1>4, <2>3, <2>4 DEF RebalanceTo
    <3>2. Holds(u, k, l, r) /\ u.height \in {r.height, r.height + 1}
      BY <1>4, <2>4, <3>1, SingleRight
    <3>3. AVL!Rebalance(t) = u
      BY <1>1, <3>2, HeightTwice DEF Holds
    <3> QED
      BY <1>0, <1>4, <2>2, <3>2, <3>3
  <2>5. CASE r.rchild.height # r.height - 1
    <3>1. u = AVL!DoubleRotateRight(t)
      BY <1>0, <1>4, <2>3, <2>5 DEF RebalanceTo
    <3>2. Holds(u, k, l, r) /\ u.height = r.height
      BY <1>4, <2>3, <2>5, <3>1, DoubleRight
    <3>3. AVL!Rebalance(t) = u
      BY <1>1, <3>2, HeightTwice DEF Holds
    <3> QED
      BY <1>0, <1>4, <2>2, <3>2, <3>3
  <2> QED
    BY <2>4, <2>5
<1> QED
  BY <1>0, <1>2, <1>3, <1>4

-----------------------------------------------------------------------------
(* What the operations do, by induction on the tree. *)

\* The tree that inserting k made is as high as it was or higher by one, and
\* then it is its child on the side of k that grew.
Inserted(u, t, k) ==
  /\ Sound(u) /\ u # AVL!NULL /\ Members(u) = Members(t) \cup {k}
  /\ u.height \in {t.height, t.height + 1}
  /\ u.height = t.height + 1 /\ t # AVL!NULL =>
       \/ k < u.key /\ u.lchild.height = u.height - 1 /\ u.rchild.height = u.height - 2
       \/ u.key < k /\ u.rchild.height = u.height - 1 /\ u.lchild.height = u.height - 2

\* The heights of a node t with children s and r, where l takes the place of s.
Grows(t, s, r, l, d) ==
  /\ l < d /\ r < d /\ l - r \in -1..2
  /\ l - r = 2 => s = r + 1 /\ l = s + 1 /\ l = t /\ s # -1
  /\ l - r # 2 =>
       \A u \in Int : l <= u - 1 /\ r <= u - 1 /\ (l = u - 1 \/ r = u - 1) =>
          /\ u \in {t, t + 1}
          /\ u = t + 1 => l = u - 1 /\ r = u - 2

LEMMA Growth ==
  ASSUME NEW t \in Int, NEW s \in Int, NEW r \in Int, NEW l \in Int, NEW d \in Nat,
         t < d, r >= -1, s <= t - 1, r <= t - 1, s = t - 1 \/ r = t - 1,
         s - r \in -1..1, l \in {s, s + 1}
  PROVE  Grows(t, s, r, l, d)
BY DEF Grows

LEMMA GrownLeftHolds ==
  ASSUME NEW t, Sound(t), t # AVL!NULL, t.height < MaxDepth,
         NEW k \in Keys, k < t.key, NEW l, Inserted(l, t.lchild, k)
  PROVE  Inserted(AVL!GrownLeft(t, l, k), t, k)
<1> DEFINE r == t.rchild
           s == t.lchild
           u == AVL!GrownLeft(t, l, k)
           v == AVL!Relink(t, l, r)
<1>1. /\ Between(t.key, s, r) /\ t.height = AVL!Height(s, r) /\ s.height - r.height \in -1..1
      /\ Members(t) = {t.key} \cup Members(s) \cup Members(r)
  BY SoundParts
<1>2. /\ t \in Trees /\ t.height \in Int /\ s.height \in Int /\ r.height \in Int /\ r.height >= -1
      /\ s.height <= t.height - 1 /\ r.height <= t.height - 1
      /\ s.height = t.height - 1 \/ r.height = t.height - 1
      /\ MaxDepth \in Nat /\ s.height - r.height \in -1..1
  BY <1>1, BetweenHeights, HeightIs, KeysAssumption DEF Sound
<1>3. /\ Sound(l) /\ l # AVL!NULL /\ Members(l) = Members(s) \cup {k}
      /\ l.height \in {s.height, s.height + 1} /\ l.height \in Int
  BY <1>2 DEF Inserted
<1>4. Between(t.key, l, r)
  BY <1>1, <1>3 DEF Between
<1>5. Has(v, t.key, l, r)
  BY <1>2, RelinkHas
<1>6. Grows(t.height, s.height, r.height, l.height, MaxDepth)
  <2>1. l.height \in {s.height, s.height + 1} /\ l.height \in Int /\ t.height < MaxDepth
    BY <1>3
  <2> HIDE DEF s, r
  <2> QED
    BY <1>2, <2>1, Growth
<1>7. ASSUME NEW w, Holds(w, t.key, l, r) PROVE Sound(w) /\ w # AVL!NULL /\ Members(w) = Members(t) \cup {k}
  BY <1>1, <1>3, <1>7 DEF Holds
<1>8. CASE l.height - r.height # 2
  <2>1. u = AVL!Node(t.key, l, r)
    BY <1>8 DEF AVL!GrownLeft
  <2>0. l.height - r.height \in -1..1 /\ l.height < MaxDepth /\ r.height < MaxDepth
    BY <1>2, <1>3, <1>6, <1>8 DEF Grows
  <2>2. Holds(u, t.key, l, r) /\ u.height = AVL!Height(l, r)
    BY <2>1, <2>0, <1>4, NodeHolds
  <2>3. u.key = t.key /\ u.lchild = l /\ u.rchild = r
    BY <2>1, NodeParts
  <2>4. /\ u.height \in Int /\ l.height <= u.height - 1 /\ r.height <= u.height - 1
        /\ l.height = u.height - 1 \/ r.height = u.height - 1
    BY <2>2, <1>2, <1>3, HeightIs
  <2>6. /\ u.height \in {t.height, t.height + 1}
        /\ u.height = t.height + 1 => l.height = u.height - 1 /\ r.height = u.height - 2
    <3> HIDE DEF u, r, s
    <3> QED
      BY <2>4, <1>6, <1>8 DEF Grows
  <2>7. Sound(u) /\ u # AVL!NULL /\ Members(u) = Members(t) \cup {k}
    BY <2>2, <1>7
  <2>8. u.height = t.height + 1 =>
          k < u.key /\ u.lchild.height = u.height - 1 /\ u.rchild.height = u.height - 2
    BY <2>3, <2>6
  <2> QED
    BY <2>6, <2>7, <2>8 DEF Inserted, u
<1>9. l.height < MaxDepth
  BY <1>6 DEF Grows
<1>10. l.key \in Nat /\ k \in Nat
  BY <1>3, KeysAssumption, SoundParts DEF Between
<1>11. CASE l.height - r.height = 2
  <2>1. s.height = r.height + 1 /\ l.height = s.height + 1 /\ l.height = t.height /\ s # AVL!NULL
    BY <1>6, <1>11, NullIs DEF Grows
  <2>2. \/ k < l.key /\ l.lchild.height = l.height - 1 /\ l.rchild.height = l.height - 2
        \/ l.key < k /\ l.rchild.height = l.height - 1 /\ l.lchild.height = l.height - 2
    BY <2>1 DEF Inserted
  <2>3. CASE k < l.key
    <3>0. ~(l.key < k)
      BY <2>3, <1>10
    <3>1. l.lchild.height = l.height - 1 /\ l.rchild.height # l.height - 1
      BY <2>2, <3>0, <1>3
    <3>2. u = AVL!SingleRotateLeft(v)
      BY <1>11, <2>3, <3>0 DEF AVL!GrownLeft
    <3>3. Holds(u, t.key, l, r) /\ u.height = l.height
      BY <1>4, <1>5, <1>9, <1>11, <3>1, <3>2, SingleLeft
    <3> QED
      BY <2>1, <3>3, <1>2, <1>7 DEF Inserted
  <2>4. CASE l.key < k
    <3>0. ~(k < l.key)
      BY <2>4, <1>10
    <3>1. l.rchild.height = l.height - 1 /\ l.lchild.height # l.height - 1
      BY <2>2, <3>0, <1>3
    <3>2. u = AVL!DoubleRotateLeft(v)
      BY <1>11, <2>4, <3>0 DEF AVL!GrownLeft
    <3>3. Holds(u, t.key, l, r) /\ u.height = l.height
      BY <1>4, <1>5, <1>9, <1>11, <3>1, <3>2, DoubleLeft
    <3> QED
      BY <2>1, <3>3, <1>2, <1>7 DEF Inserted
  <2> QED
    BY <2>2, <2>3, <2>4
<1> QED
  BY <1>8, <1>11

LEMMA GrownRightHolds ==
  ASSUME NEW t, Sound(t), t # AVL!NULL, t.height < MaxDepth,
         NEW k \in Keys, t.key < k, NEW r, Inserted(r, t.rchild, k)
  PROVE  Inserted(AVL!GrownRight(t, r, k), t, k)
<1> DEFINE l == t.lchild
           s == t.rchild
           u == AVL!GrownRight(t, r, k)
           v == AVL!Relink(t, l, r)
<1>1. /\ Between(t.key, l, s) /\ t.height = AVL!Height(l, s) /\ l.height - s.height \in -1..1
      /\ Members(t) = {t.key} \cup Members(s) \cup Members(l)
  BY SoundParts
<1>2. /\ t \in Trees /\ t.height \in Int /\ s.height \in Int /\ l.height \in Int /\ l.height >= -1
      /\ s.height <= t.height - 1 /\ l.height <= t.height - 1
      /\ s.height = t.height - 1 \/ l.height = t.height - 1
      /\ MaxDepth \in Nat /\ s.height - l.height \in -1..1
  BY <1>1, BetweenHeights, HeightIs, KeysAssumption DEF Sound
<1>3. /\ Sound(r) /\ r # AVL!NULL /\ Members(r) = Members(s) \cup {k}
      /\ r.height \in {s.height, s.height + 1} /\ r.height \in Int
  BY <1>2 DEF Inserted
<1>4. Between(t.key, l, r)
  BY <1>1, <1>3 DEF Between
<1>5. Has(v, t.key, l, r)
  BY <1>2, RelinkHas
<1>6. Grows(t.height, s.height, l.height, r.height, MaxDepth)
  <2>1. r.height \in {s.height, s.height + 1} /\ r.height \in Int /\ t.height < MaxDepth
    BY <1>3
  <2> HIDE DEF s, l
  <2> QED
    BY <1>2, <2>1, Growth
<1>7. ASSUME NEW w, Holds(w, t.key, l, r) PROVE Sound(w) /\ w # AVL!NULL /\ Members(w) = Members(t) \cup {k}
  BY <1>1, <1>3, <1>7 DEF Holds
<1>8. CASE r.height - l.height # 2
  <2>1. u = AVL!Node(t.key, l, r)
    BY <1>8 DEF AVL!GrownRight
  <2>0. l.height - r.height \in -1..1 /\ r.height < MaxDepth /\ l.height < MaxDepth
    BY <1>2, <1>3, <1>6, <1>8 DEF Grows
  <2>2. Holds(u, t.key, l, r) /\ u.height = AVL!Height(l, r)
    BY <2>1, <2>0, <1>4, NodeHolds
  <2>3. u.key = t.key /\ u.rchild = r /\ u.lchild = l
    BY <2>1, NodeParts
  <2>4. /\ u.height \in Int /\ r.height <= u.height - 1 /\ l.height <= u.height - 1
        /\ r.height = u.height - 1 \/ l.height = u.height - 1
    BY <2>2, <1>2, <1>3, HeightIs
  <2>6. /\ u.height \in {t.height, t.height + 1}
        /\ u.height = t.height + 1 => r.height = u.height - 1 /\ l.height = u.height - 2
    <3> HIDE DEF u, l, s
    <3> QED
      BY <2>4, <1>6, <1>8 DEF Grows
  <2>7. Sound(u) /\ u # AVL!NULL /\ Members(u) = Members(t) \cup {k}
    BY <2>2, <1>7
  <2>8. u.height = t.height + 1 =>
          u.key < k /\ u.rchild.height = u.height - 1 /\ u.lchild.height = u.height - 2
    BY <2>3, <2>6
  <2> QED
    BY <2>6, <2>7, <2>8 DEF Inserted, u
<1>9. r.height < MaxDepth
  BY <1>6 DEF Grows
<1>10. r.key \in Nat /\ k \in Nat
  BY <1>3, KeysAssumption, SoundParts DEF Between
<1>11. CASE r.height - l.height = 2
  <2>1. s.height = l.height + 1 /\ r.height = s.height + 1 /\ r.height = t.height /\ s # AVL!NULL
    BY <1>6, <1>11, NullIs DEF Grows
  <2>2. \/ r.key < k /\ r.rchild.height = r.height - 1 /\ r.lchild.height = r.height - 2
        \/ k < r.key /\ r.lchild.height = r.height - 1 /\ r.rchild.height = r.height - 2
    BY <2>1 DEF Inserted
  <2>3. CASE r.key < k
    <3>0. ~(k < r.key)
      BY <2>3, <1>10
    <3>1. r.rchild.height = r.height - 1 /\ r.lchild.height # r.height - 1
      BY <2>2, <3>0, <1>3
    <3>2. u = AVL!SingleRotateRight(v)
      BY <1>11, <2>3, <3>0 DEF AVL!GrownRight
    <3>3. Holds(u, t.key, l, r) /\ u.height = r.height
      BY <1>4, <1>5, <1>9, <1>11, <3>1, <3>2, SingleRight
    <3> QED
      BY <2>1, <3>3, <1>2, <1>7 DEF Inserted
  <2>4. CASE k < r.key
    <3>0. ~(r.key < k)
      BY <2>4, <1>10
    <3>1. r.lchild.height = r.height - 1 /\ r.rchild.height # r.height - 1
      BY <2>2, <3>0, <1>3
    <3>2. u = AVL!DoubleRotateRight(v)
      BY <1>11, <2>4, <3>0 DEF AVL!GrownRight
    <3>3. Holds(u, t.key, l, r) /\ u.height = r.height
      BY <1>4, <1>5, <1>9, <1>11, <3>1, <3>2, DoubleRight
    <3> QED
      BY <2>1, <3>3, <1>2, <1>7 DEF Inserted
  <2> QED
    BY <2>2, <2>3, <2>4
<1> QED
  BY <1>8, <1>11

LEMMA InsertHolds ==
  \A t \in Trees : Sound(t) /\ t.height < MaxDepth =>
    \A k \in Keys : Inserted(AVL!AvlInsert[t][k], t, k)
<1> DEFINE P(t) == Sound(t) /\ t.height < MaxDepth =>
                     \A k \in Keys : Inserted(AVL!AvlInsert[t][k], t, k)
           S == {t \in Trees : P(t)}
<1>1. AVL!NULL \in S
  <2> SUFFICES ASSUME AVL!NULL.height < MaxDepth, NEW k \in Keys
               PROVE  Inserted(AVL!AvlInsert[AVL!NULL][k], AVL!NULL, k)
    BY NullIs DEF Sound
  <2> DEFINE n == AVL!NULL
             u == AVL!Node(k, n, n)
  <2>1. AVL!AvlInsert[n] = InsertOf(n, AVL!AvlInsert[n.lchild], AVL!AvlInsert[n.rchild])
    BY NullIs, InsertIs DEF Sound
  <2>2. AVL!AvlInsert[n][k] = u
    BY <2>1 DEF InsertOf
  <2>3. Between(k, n, n) /\ n.height = -1 /\ n.height - n.height \in -1..1 /\ Members(n) = {}
    BY NullIs DEF Between
  <2>4. Holds(u, k, n, n) /\ u.height = AVL!Height(n, n) /\ AVL!Height(n, n) = n.height + 1
    BY <2>3, NodeHolds DEF AVL!Height
  <2> HIDE DEF u, n
  <2>5. Inserted(u, n, k)
    BY <2>3, <2>4 DEF Inserted, Holds, n
  <2> QED
    BY <2>2, <2>5 DEF n
<1>2. ASSUME NEW t \in Trees, t # AVL!NULL, t.lchild \in S, t.rchild \in S PROVE t \in S
  <2> SUFFICES ASSUME Sound(t), t.height < MaxDepth, NEW k \in Keys
               PROVE  Inserted(AVL!AvlInsert[t][k], t, k)
    OBVIOUS
  <2>1. /\ Sound(t.lchild) /\ t.lchild.height < MaxDepth
        /\ Sound(t.rchild) /\ t.rchild.height < MaxDepth
    <3>1. Between(t.key, t.lchild, t.rchild) /\ t.height = AVL!Height(t.lchild, t.rchild)
      BY <1>2, SoundParts
    <3>2. t.height \in Int /\ MaxDepth \in Nat
      BY SoundHeight, KeysAssumption
    <3> QED
      BY <3>1, <3>2, BetweenHeights, HeightIs DEF Between
  <2>2. /\ Inserted(AVL!AvlInsert[t.lchild][k], t.lchild, k)
        /\ Inserted(AVL!AvlInsert[t.rchild][k], t.rchild, k)
    BY <1>2, <2>1
  <2>3. AVL!AvlInsert[t] = InsertOf(t, AVL!AvlInsert[t.lchild], AVL!AvlInsert[t.rchild])
    BY InsertIs
  <2>4. t.key \in Nat /\ k \in Nat
    BY TreeParts, <1>2, KeysAssumption
  <2>5. CASE k < t.key
    <3>1. ~(k > t.key)
      BY <2>4, <2>5
    <3>2. AVL!AvlInsert[t][k] = AVL!GrownLeft(t, AVL!AvlInsert[t.lchild][k], k)
      BY <1>2, <2>3, <2>5, <3>1 DEF InsertOf
    <3> QED
      BY <1>2, <2>2, <2>5, <3>2, GrownLeftHolds
  <2>6. CASE t.key < k
    <3>1. k > t.key /\ ~(k < t.key)
      BY <2>4, <2>6
    <3>2. AVL!AvlInsert[t][k] = AVL!GrownRight(t, AVL!AvlInsert[t.rchild][k], k)
      BY <1>2, <2>3, <3>1 DEF InsertOf
    <3> QED
      BY <1>2, <2>2, <2>6, <3>2, GrownRightHolds
  <2>7. CASE k = t.key
    <3>1. ~(k > t.key) /\ ~(k < t.key)
      BY <2>4, <2>7
    <3>2. AVL!AvlInsert[t][k] = t
      BY <1>2, <2>3, <3>1 DEF InsertOf
    <3>3. t.height \in Int /\ k \in Members(t)
      BY <1>2, <2>7, SoundParts, SoundHeight
    <3>4. t.height # t.height + 1 /\ Members(t) = Members(t) \cup {k}
      BY <3>3
    <3> QED
      BY <1>2, <3>2, <3>4 DEF Inserted
  <2> QED
    BY <2>4, <2>5, <2>6, <2>7
<1> HIDE DEF S
<1>3. \A t \in Trees : t \in S
  BY <1>1, <1>2, TreeInduction
<1> QED
  BY <1>3 DEF S

\* The least and the greatest key.
LEMMA MinHolds ==
  \A t \in Trees : Sound(t) /\ t # AVL!NULL =>
    /\ AVL!AvlGetMin[t] \in Trees /\ AVL!AvlGetMin[t] # AVL!NULL
    /\ AVL!AvlGetMin[t].key \in Members(t)
    /\ \A k \in Members(t) : AVL!AvlGetMin[t].key <= k
<1> DEFINE m(t) == AVL!AvlGetMin[t]
           Least(t) == /\ m(t) \in Trees /\ m(t) # AVL!NULL
                       /\ m(t).key \in Members(t)
                       /\ \A k \in Members(t) : m(t).key <= k
           S == {t \in Trees : Sound(t) /\ t # AVL!NULL => Least(t)}
<1>1. AVL!NULL \in S
  BY NullIs DEF Sound
<1>2. ASSUME NEW t \in Trees, t # AVL!NULL, t.lchild \in S, t.rchild \in S PROVE t \in S
  <2> SUFFICES ASSUME Sound(t) PROVE Least(t)
    BY <1>2
  <2>1. /\ Between(t.key, t.lchild, t.rchild)
        /\ Members(t) = {t.key} \cup Members(t.lchild) \cup Members(t.rchild)
    BY <1>2, SoundParts
  <2>2. m(t) = MinOf(t, m(t.lchild), m(t.rchild))
    BY MinIs
  <2>3. Members(t.lchild) \subseteq Nat /\ Members(t.rchild) \subseteq Nat /\ t.key \in Nat
    BY <2>1, BetweenKeys, KeysAssumption
  <2> HIDE DEF m
  <2>4. CASE t.lchild = AVL!NULL
    <3>1. m(t) = t /\ Members(t.lchild) = {}
      BY <2>2, <2>4, NullIs DEF MinOf
    <3>2. \A k \in Members(t) : t.key <= k
      BY <2>1, <2>3, <3>1 DEF Between
    <3> QED
      BY <1>2, <2>1, <3>1, <3>2
  <2>5. CASE t.lchild # AVL!NULL
    <3>1. m(t) = m(t.lchild)
      BY <1>2, <2>2, <2>5 DEF MinOf
    <3>2. Least(t.lchild)
      BY <1>2, <2>1, <2>5 DEF Between
    <3>3. m(t).key \in Nat /\ m(t).key < t.key
      BY <2>1, <2>3, <3>1, <3>2 DEF Between
    <3>4. \A k \in Members(t) : m(t).key <= k
      <4> SUFFICES ASSUME NEW k \in Members(t), k \notin Members(t.lchild) PROVE m(t).key <= k
        BY <3>1, <3>2
      <4>1. k \in Nat /\ t.key <= k
        BY <2>1, <2>3 DEF Between
      <4> QED
        BY <2>3, <3>3, <4>1
    <3> QED
      BY <2>1, <3>1, <3>2, <3>4
  <2> QED
    BY <2>4, <2>5
<1> HIDE DEF S
<1>3. \A t \in Trees : t \in S
  BY <1>1, <1>2, TreeInduction
<1> QED
  BY <1>3 DEF S

LEMMA MaxHolds ==
  \A t \in Trees : Sound(t) /\ t # AVL!NULL =>
    /\ AVL!AvlGetMax[t] \in Trees /\ AVL!AvlGetMax[t] # AVL!NULL
    /\ AVL!AvlGetMax[t].key \in Members(t)
    /\ \A k \in Members(t) : k <= AVL!AvlGetMax[t].key
<1> DEFINE m(t) == AVL!AvlGetMax[t]
           Greatest(t) == /\ m(t) \in Trees /\ m(t) # AVL!NULL
                       /\ m(t).key \in Members(t)
                       /\ \A k \in Members(t) : k <= m(t).key
           S == {t \in Trees : Sound(t) /\ t # AVL!NULL => Greatest(t)}
<1>1. AVL!NULL \in S
  BY NullIs DEF Sound
<1>2. ASSUME NEW t \in Trees, t # AVL!NULL, t.rchild \in S, t.lchild \in S PROVE t \in S
  <2> SUFFICES ASSUME Sound(t) PROVE Greatest(t)
    BY <1>2
  <2>1. /\ Between(t.key, t.lchild, t.rchild)
        /\ Members(t) = {t.key} \cup Members(t.rchild) \cup Members(t.lchild)
    BY <1>2, SoundParts
  <2>2. m(t) = MaxOf(t, m(t.lchild), m(t.rchild))
    BY MaxIs
  <2>3. Members(t.rchild) \subseteq Nat /\ Members(t.lchild) \subseteq Nat /\ t.key \in Nat
    BY <2>1, BetweenKeys, KeysAssumption
  <2> HIDE DEF m
  <2>4. CASE t.rchild = AVL!NULL
    <3>1. m(t) = t /\ Members(t.rchild) = {}
      BY <2>2, <2>4, NullIs DEF MaxOf
    <3>2. \A k \in Members(t) : k <= t.key
      BY <2>1, <2>3, <3>1 DEF Between
    <3> QED
      BY <1>2, <2>1, <3>1, <3>2
  <2>5. CASE t.rchild # AVL!NULL
    <3>1. m(t) = m(t.rchild)
      BY <1>2, <2>2, <2>5 DEF MaxOf
    <3>2. Greatest(t.rchild)
      BY <1>2, <2>1, <2>5 DEF Between
    <3>3. m(t).key \in Nat /\ t.key < m(t).key
      BY <2>1, <2>3, <3>1, <3>2 DEF Between
    <3>4. \A k \in Members(t) : k <= m(t).key
      <4> SUFFICES ASSUME NEW k \in Members(t), k \notin Members(t.rchild) PROVE k <= m(t).key
        BY <3>1, <3>2
      <4>1. k \in Nat /\ k <= t.key
        BY <2>1, <2>3 DEF Between
      <4> QED
        BY <2>3, <3>3, <4>1
    <3> QED
      BY <2>1, <3>1, <3>2, <3>4
  <2> QED
    BY <2>4, <2>5
<1> HIDE DEF S
<1>3. \A t \in Trees : t \in S
  BY <1>1, <1>2, TreeInduction
<1> QED
  BY <1>3 DEF S

\* The tree that removing k left is as high as it was or lower by one.
Removed(u, t, k) ==
  /\ Sound(u) /\ Members(u) = Members(t) \ {k}
  /\ u.height \in {t.height, t.height - 1}

\* The heights of a node t with children s and r, where l takes the place of s.
Shrinks(t, r, l, d) ==
  /\ l < d /\ r < d /\ l - r \in -2..2 /\ r - l \in -2..2
  /\ \A h \in Int : l <= h - 1 /\ r <= h - 1 /\ (l = h - 1 \/ r = h - 1) =>
       \/ h = t
       \/ h = t - 1 /\ l - r \in -1..1 /\ r - l \in -1..1

LEMMA Shrink ==
  ASSUME NEW t \in Int, NEW s \in Int, NEW r \in Int, NEW l \in Int, NEW d \in Nat,
         t <= d, s <= t - 1, r <= t - 1, s = t - 1 \/ r = t - 1, s - r \in -1..1, l \in {s, s - 1}
  PROVE  Shrinks(t, r, l, d)
BY DEF Shrinks

\* The way up of avlremove: one child of t became l, and v has it in its place.
LEMMA ShrunkHolds ==
  ASSUME NEW t, Sound(t), t # AVL!NULL, t.height <= MaxDepth,
         NEW v, NEW k, NEW l, NEW r, Has(v, k, l, r), Between(k, l, r),
         \/ l.height \in {t.lchild.height, t.lchild.height - 1} /\ r = t.rchild
         \/ r.height \in {t.rchild.height, t.rchild.height - 1} /\ l = t.lchild
  PROVE  /\ Holds(AVL!Rebalance(v), k, l, r)
         /\ AVL!Rebalance(v).height \in {t.height, t.height - 1}
<1> DEFINE u == AVL!Rebalance(v)
           h == AVL!Height(l, r)
<1>1. /\ Between(t.key, t.lchild, t.rchild) /\ t.height = AVL!Height(t.lchild, t.rchild)
      /\ t.lchild.height - t.rchild.height \in -1..1
  BY SoundParts
<1>2. /\ t.height \in Int /\ t.lchild.height \in Int /\ t.rchild.height \in Int
      /\ t.lchild.height <= t.height - 1 /\ t.rchild.height <= t.height - 1
      /\ t.lchild.height = t.height - 1 \/ t.rchild.height = t.height - 1
      /\ t.lchild.height - t.rchild.height \in -1..1
      /\ t.rchild.height - t.lchild.height \in -1..1
      /\ MaxDepth \in Nat
  BY <1>1, BetweenHeights, HeightIs, KeysAssumption
<1>3. l.height \in Int /\ r.height \in Int
  BY BetweenHeights
<1>4. /\ h \in Int /\ l.height <= h - 1 /\ r.height <= h - 1
      /\ l.height = h - 1 \/ r.height = h - 1
  BY <1>3, HeightIs
<1>5. Shrinks(t.height, r.height, l.height, MaxDepth) \/ Shrinks(t.height, l.height, r.height, MaxDepth)
  <2>1. CASE l.height \in {t.lchild.height, t.lchild.height - 1} /\ r = t.rchild
    <3>1. Shrinks(t.height, t.rchild.height, l.height, MaxDepth)
      BY <1>2, <1>3, <2>1, Shrink
    <3> QED
      BY <2>1, <3>1
  <2>2. CASE r.height \in {t.rchild.height, t.rchild.height - 1} /\ l = t.lchild
    <3>1. Shrinks(t.height, t.lchild.height, r.height, MaxDepth)
      BY <1>2, <1>3, <2>2, Shrink
    <3> QED
      BY <2>2, <3>1
  <2> QED
    BY <2>1, <2>2
<1>6. /\ l.height - r.height \in -2..2 /\ l.height < MaxDepth /\ r.height < MaxDepth
      /\ h = t.height \/ (h = t.height - 1 /\ l.height - r.height \in -1..1)
  <2> HIDE DEF h
  <2> QED
    BY <1>4, <1>5 DEF Shrinks
<1>7. /\ Holds(u, k, l, r) /\ u.height \in {h, h - 1}
      /\ l.height - r.height \in -1..1 => u.height = h
  BY <1>6, RebalanceHolds
<1> HIDE DEF u, h
<1>8. u.height \in {t.height, t.height - 1}
  BY <1>2, <1>4, <1>6, <1>7
<1> QED
  BY <1>7, <1>8 DEF u

LEMMA RemoveHolds ==
  \A t \in Trees : Sound(t) /\ t.height <= MaxDepth =>
    \A k \in Keys : Removed(AVL!AvlRemove[t][k], t, k)
<1> DEFINE P(t) == Sound(t) /\ t.height <= MaxDepth =>
                     \A k \in Keys : Removed(AVL!AvlRemove[t][k], t, k)
           S == {t \in Trees : P(t)}
<1>1. AVL!NULL \in S
  <2> SUFFICES ASSUME NEW k \in Keys PROVE Removed(AVL!AvlRemove[AVL!NULL][k], AVL!NULL, k)
    BY NullIs DEF Sound
  <2> DEFINE n == AVL!NULL
  <2>1. AVL!AvlRemove[n] = RemoveOf(n, AVL!AvlRemove[n.lchild], AVL!AvlRemove[n.rchild])
    BY NullIs, RemoveIs DEF Sound
  <2>2. AVL!AvlRemove[n][k] = n
    BY <2>1 DEF RemoveOf
  <2> QED
    BY <2>2, NullIs DEF Removed
<1>2. ASSUME NEW t \in Trees, t # AVL!NULL, t.lchild \in S, t.rchild \in S PROVE t \in S
  <2> SUFFICES ASSUME Sound(t), t.height <= MaxDepth, NEW k \in Keys
               PROVE  Removed(AVL!AvlRemove[t][k], t, k)
    OBVIOUS
  <2> DEFINE l == t.lchild
             r == t.rchild
             u == AVL!AvlRemove[t][k]
  <2>1. /\ Between(t.key, l, r) /\ t.height = AVL!Height(l, r)
        /\ Members(t) = {t.key} \cup Members(l) \cup Members(r)
    BY <1>2, SoundParts
  <2>2. /\ t.height \in Int /\ MaxDepth \in Nat /\ t.key \in Nat /\ k \in Nat
        /\ l.height \in Int /\ r.height \in Int /\ l.height >= -1 /\ r.height >= -1
        /\ Members(l) \subseteq Nat /\ Members(r) \subseteq Nat
    BY <2>1, SoundHeight, KeysAssumption, TreeParts, BetweenHeights, BetweenKeys
  <2>3. Sound(l) /\ l.height <= MaxDepth /\ Sound(r) /\ r.height <= MaxDepth
    BY <2>1, <2>2, HeightIs DEF Between
  <2>4. \A x \in Keys : Removed(AVL!AvlRemove[l][x], l, x) /\ Removed(AVL!AvlRemove[r][x], r, x)
    BY <1>2, <2>3
  <2>5. AVL!AvlRemove[t] = RemoveOf(t, AVL!AvlRemove[l], AVL!AvlRemove[r])
    BY RemoveIs
  <2>6. CASE k < t.key
    <3> DEFINE s == AVL!AvlRemove[l][k]
               v == AVL!Relink(t, s, r)
    <3>1. u = AVL!Rebalance(v)
      <4>1. k # t.key /\ ~(k > t.key)
        BY <2>2, <2>6
      <4> QED
        BY <1>2, <2>5, <2>6, <4>1 DEF RemoveOf
    <3>2. Sound(s) /\ Members(s) = Members(l) \ {k} /\ s.height \in {l.height, l.height - 1}
      BY <2>4 DEF Removed
    <3> HIDE DEF s
    <3>3. Has(v, t.key, s, r) /\ Between(t.key, s, r)
      BY <1>2, <2>1, <3>2, RelinkHas DEF Between
    <3>4. Holds(AVL!Rebalance(v), t.key, s, r) /\ AVL!Rebalance(v).height \in {t.height, t.height - 1}
      BY <1>2, <3>2, <3>3, ShrunkHolds
    <3>5. k \notin Members(r) /\ k # t.key
      BY <2>1, <2>2, <2>6 DEF Between
    <3>6. {t.key} \cup Members(s) \cup Members(r) = Members(t) \ {k}
      BY <2>1, <3>2, <3>5
    <3> QED
      BY <3>1, <3>4, <3>6 DEF Removed, Holds
  <2>7. CASE t.key < k
    <3> DEFINE s == AVL!AvlRemove[r][k]
               v == AVL!Relink(t, l, s)
    <3>1. u = AVL!Rebalance(v)
      <4>1. k # t.key /\ ~(k < t.key) /\ k > t.key
        BY <2>2, <2>7
      <4> QED
        BY <1>2, <2>5, <4>1 DEF RemoveOf
    <3>2. Sound(s) /\ Members(s) = Members(r) \ {k} /\ s.height \in {r.height, r.height - 1}
      BY <2>4 DEF Removed
    <3> HIDE DEF s
    <3>3. Has(v, t.key, l, s) /\ Between(t.key, l, s)
      BY <1>2, <2>1, <3>2, RelinkHas DEF Between
    <3>4. Holds(AVL!Rebalance(v), t.key, l, s) /\ AVL!Rebalance(v).height \in {t.height, t.height - 1}
      BY <1>2, <3>2, <3>3, ShrunkHolds
    <3>5. k \notin Members(l) /\ k # t.key
      BY <2>1, <2>2, <2>7 DEF Between
    <3>6. {t.key} \cup Members(l) \cup Members(s) = Members(t) \ {k}
      BY <2>1, <3>2, <3>5
    <3> QED
      BY <3>1, <3>4, <3>6 DEF Removed, Holds
  <2>8. ASSUME k = t.key, l # AVL!NULL, r # AVL!NULL PROVE Removed(u, t, k)
    <3> DEFINE m == AVL!AvlGetMin[r]
               s == AVL!AvlRemove[r][m.key]
               v == AVL!Relink(m, l, s)
    <3>1. u = AVL!Rebalance(v)
      <4>1. ~(k < t.key) /\ ~(k > t.key)
        BY <2>2, <2>8
      <4> QED
        BY <1>2, <2>5, <2>8, <4>1 DEF RemoveOf
    <3>2. /\ m \in Trees /\ m # AVL!NULL /\ m.key \in Members(r)
          /\ \A x \in Members(r) : m.key <= x
      BY <2>3, <2>8, MinHolds DEF Sound
    <3>3. m.key \in Keys /\ m.key \in Nat
      BY <3>2, TreeParts, KeysAssumption
    <3>4. Sound(s) /\ Members(s) = Members(r) \ {m.key} /\ s.height \in {r.height, r.height - 1}
      BY <2>4, <3>3 DEF Removed
    <3> HIDE DEF s, m
    <3>5. Has(v, m.key, l, s)
      BY <3>2, RelinkHas
    <3>6. Between(m.key, l, s)
      <4>1. t.key < m.key
        BY <2>1, <3>2 DEF Between
      <4>2. \A x \in Members(l) : x < m.key
        BY <2>1, <2>2, <3>3, <4>1 DEF Between
      <4>3. \A x \in Members(s) : m.key < x
        BY <2>2, <3>2, <3>3, <3>4
      <4> QED
        BY <2>3, <3>3, <3>4, <4>2, <4>3 DEF Between
    <3>7. Holds(AVL!Rebalance(v), m.key, l, s) /\ AVL!Rebalance(v).height \in {t.height, t.height - 1}
      BY <1>2, <3>4, <3>5, <3>6, ShrunkHolds
    <3>8. k \notin Members(l) /\ k \notin Members(r)
      BY <2>1, <2>2, <2>8 DEF Between
    <3>9. {m.key} \cup Members(l) \cup Members(s) = Members(t) \ {k}
      BY <2>1, <2>8, <3>2, <3>4, <3>8
    <3> QED
      BY <3>1, <3>7, <3>9 DEF Removed, Holds
  <2>9. ASSUME k = t.key, l = AVL!NULL \/ r = AVL!NULL PROVE Removed(u, t, k)
    <3> DEFINE w == IF l # AVL!NULL THEN l ELSE r
    <3>1. u = w
      <4>1. ~(k < t.key) /\ ~(k > t.key)
        BY <2>2, <2>9
      <4> QED
        BY <1>2, <2>5, <2>9, <4>1 DEF RemoveOf
    <3>2. k \notin Members(l) /\ k \notin Members(r)
      BY <2>1, <2>2, <2>9 DEF Between
    <3>3. Sound(w) /\ Members(w) = Members(t) \ {k}
      BY <2>1, <2>3, <2>9, <3>2, NullIs
    <3>4. w.height = t.height - 1
      <4>1. CASE l = AVL!NULL
        <5>1. w = r /\ AVL!Height(l, r) = r.height + 1
          BY <2>2, <4>1, NullIs DEF AVL!Height
        <5> QED
          BY <2>1, <2>2, <5>1
      <4>2. CASE l # AVL!NULL
        <5>1. w = l /\ AVL!Height(l, r) = l.height + 1
          BY <2>2, <2>9, <4>2, NullIs DEF AVL!Height
        <5> QED
          BY <2>1, <2>2, <5>1
      <4> QED
        BY <4>1, <4>2
    <3> HIDE DEF w
    <3> QED
      BY <3>1, <3>3, <3>4 DEF Removed
  <2> QED
    BY <2>2, <2>6, <2>7, <2>8, <2>9
<1> HIDE DEF S
<1>3. \A t \in Trees : t \in S
  BY <1>1, <1>2, TreeInduction
<1> QED
  BY <1>3 DEF S

\* A search and a removal come to the same node.
LEMMA SearchHolds ==
  \A t \in Trees : Sound(t) => \A k \in Keys :
    /\ IF k \in Members(t)
       THEN AVL!AvlSearch[t][k] # AVL!NULL /\ AVL!AvlSearch[t][k].key = k
       ELSE AVL!AvlSearch[t][k] = AVL!NULL
    /\ AVL!RmNode[t][k] = IF k \in Members(t) THEN k ELSE AVL!NoNode
<1> DEFINE Finds(t, k) ==
             /\ IF k \in Members(t)
                THEN AVL!AvlSearch[t][k] # AVL!NULL /\ AVL!AvlSearch[t][k].key = k
                ELSE AVL!AvlSearch[t][k] = AVL!NULL
             /\ AVL!RmNode[t][k] = IF k \in Members(t) THEN k ELSE AVL!NoNode
           S == {t \in Trees : Sound(t) => \A k \in Keys : Finds(t, k)}
<1>1. AVL!NULL \in S
  <2> SUFFICES ASSUME NEW k \in Keys PROVE Finds(AVL!NULL, k)
    BY NullIs DEF Sound
  <2> DEFINE n == AVL!NULL
  <2>1. /\ AVL!AvlSearch[n] = SearchOf(n, AVL!AvlSearch[n.lchild], AVL!AvlSearch[n.rchild])
        /\ AVL!RmNode[n] = RmNodeOf(n, AVL!RmNode[n.lchild], AVL!RmNode[n.rchild])
    BY NullIs, SearchIs, RmNodeIs DEF Sound
  <2>2. AVL!AvlSearch[n][k] = n /\ AVL!RmNode[n][k] = AVL!NoNode
    BY <2>1 DEF SearchOf, RmNodeOf
  <2> QED
    BY <2>2, NullIs
<1>2. ASSUME NEW t \in Trees, t # AVL!NULL, t.lchild \in S, t.rchild \in S PROVE t \in S
  <2> SUFFICES ASSUME Sound(t), NEW k \in Keys PROVE Finds(t, k)
    BY <1>2
  <2> DEFINE l == t.lchild
             r == t.rchild
  <2>1. /\ Between(t.key, l, r)
        /\ Members(t) = {t.key} \cup Members(l) \cup Members(r)
    BY <1>2, SoundParts
  <2>2. /\ t.key \in Nat /\ k \in Nat
        /\ Members(l) \subseteq Nat /\ Members(r) \subseteq Nat
    BY <2>1, KeysAssumption, BetweenKeys
  <2>3. Finds(l, k) /\ Finds(r, k)
    BY <1>2, <2>1 DEF Between
  <2>4. /\ AVL!AvlSearch[t] = SearchOf(t, AVL!AvlSearch[l], AVL!AvlSearch[r])
        /\ AVL!RmNode[t] = RmNodeOf(t, AVL!RmNode[l], AVL!RmNode[r])
    BY SearchIs, RmNodeIs
  <2>5. CASE k < t.key
    <3>1. k # t.key /\ ~(k > t.key) /\ k \notin Members(r)
      BY <2>1, <2>2, <2>5 DEF Between
    <3>2. AVL!AvlSearch[t][k] = AVL!AvlSearch[l][k] /\ AVL!RmNode[t][k] = AVL!RmNode[l][k]
      BY <1>2, <2>4, <2>5, <3>1 DEF SearchOf, RmNodeOf
    <3> QED
      BY <2>1, <2>3, <3>1, <3>2
  <2>6. CASE t.key < k
    <3>1. k # t.key /\ ~(k < t.key) /\ k > t.key /\ k \notin Members(l)
      BY <2>1, <2>2, <2>6 DEF Between
    <3>2. AVL!AvlSearch[t][k] = AVL!AvlSearch[r][k] /\ AVL!RmNode[t][k] = AVL!RmNode[r][k]
      BY <1>2, <2>4, <3>1 DEF SearchOf, RmNodeOf
    <3> QED
      BY <2>1, <2>3, <3>1, <3>2
  <2>7. CASE k = t.key
    <3>1. ~(k < t.key) /\ ~(k > t.key) /\ k \in Members(t)
      BY <2>1, <2>2, <2>7
    <3>2. AVL!AvlSearch[t][k] = t /\ AVL!RmNode[t][k] = t.key
      BY <1>2, <2>4, <2>7, <3>1 DEF SearchOf, RmNodeOf
    <3> QED
      BY <1>2, <2>7, <3>1, <3>2
  <2> QED
    BY <2>2, <2>5, <2>6, <2>7
<1> HIDE DEF S
<1>3. \A t \in Trees : t \in S
  BY <1>1, <1>2, TreeInduction
<1> QED
  BY <1>3 DEF S

-----------------------------------------------------------------------------
(* Sequences of insertions and removals. *)
TreeInv == Sound(tree) /\ tree.height < MaxDepth

LEMMA TreeStep == TreeInv /\ [AVL!Next]_tree => TreeInv'
<1> SUFFICES ASSUME TreeInv, [AVL!Next]_tree PROVE TreeInv'
  OBVIOUS
<1>0. tree \in Trees /\ tree.height \in Int /\ MaxDepth \in Nat /\ tree.height <= MaxDepth
  BY SoundHeight, KeysAssumption DEF TreeInv, Sound
<1>1. ASSUME NEW k \in Keys, AVL!Insert(k) PROVE TreeInv'
  <2>1. Sound(AVL!AvlInsert[tree][k])
    BY <1>0, InsertHolds DEF TreeInv, Inserted
  <2>2. tree' = AVL!AvlInsert[tree][k] /\ tree'.height < MaxDepth
    BY <1>1 DEF AVL!Insert
  <2> QED
    BY <2>1, <2>2 DEF TreeInv, Sound
<1>2. ASSUME NEW k \in Keys, AVL!Remove(k) PROVE TreeInv'
  <2>1. Removed(AVL!AvlRemove[tree][k], tree, k)
    BY <1>0, RemoveHolds DEF TreeInv
  <2>2. tree' = AVL!AvlRemove[tree][k]
    BY <1>2 DEF AVL!Remove
  <2>3. tree'.height < MaxDepth
    BY <1>0, <2>1, <2>2 DEF Removed, TreeInv
  <2> QED
    BY <2>1, <2>2, <2>3 DEF TreeInv, Removed, Sound
<1>3. CASE UNCHANGED tree
  BY <1>3 DEF TreeInv, Sound
<1> QED
  BY <1>1, <1>2, <1>3 DEF AVL!Next

LEMMA SoundIsBalancedSet == TreeInv => BalancedSet
<1> SUFFICES ASSUME TreeInv PROVE BalancedSet
  OBVIOUS
<1>0. Sound(tree) /\ tree \in Trees /\ tree.height < MaxDepth /\ tree.height <= MaxDepth
  BY SoundHeight, KeysAssumption DEF TreeInv, Sound
<1>1. ASSUME NEW k \in Keys
      PROVE  /\ Members(AVL!AvlInsert[tree][k]) = Members(tree) \cup {k}
             /\ Members(AVL!AvlRemove[tree][k]) = Members(tree) \ {k}
  BY <1>0, InsertHolds, RemoveHolds DEF Inserted, Removed
<1>2. ASSUME NEW k \in Members(tree)
      PROVE  AVL!AvlGetMin[tree].key <= k /\ k <= AVL!AvlGetMax[tree].key
  <2>1. tree # AVL!NULL
    BY <1>2, NullIs
  <2> QED
    BY <1>0, <1>2, <2>1, MinHolds, MaxHolds
<1>3. \A k \in Keys :
        /\ IF k \in Members(tree)
           THEN AVL!AvlSearch[tree][k] # AVL!NULL /\ AVL!AvlSearch[tree][k].key = k
           ELSE AVL!AvlSearch[tree][k] = AVL!NULL
        /\ AVL!RmNode[tree][k] = IF k \in Members(tree) THEN k ELSE AVL!NoNode
  BY <1>0, SearchHolds
<1> QED
  BY <1>0, <1>1, <1>2, <1>3 DEF BalancedSet, AVL!BalancedSet, Members, Sound

(* The AVL tree is balanced, in order and the set of its keys after every
   insertion and removal, for any keys and any bound on the height. *)
THEOREM BalancedSetHolds == AVL!Spec => []BalancedSet
<1>1. AVL!Init => TreeInv
  BY NullIs, KeysAssumption DEF AVL!Init, TreeInv
<1>2. TreeInv /\ [AVL!Next]_tree => TreeInv'
  BY TreeStep
<1>3. TreeInv => BalancedSet
  BY SoundIsBalancedSet
<1> QED
  BY <1>1, <1>2, <1>3, PTL DEF AVL!Spec

-----------------------------------------------------------------------------
(* Endpoints.  The n-th element of a set of numbers, for the sets that occur:
   three dots in a text, and four parts. *)
LEMMA PointsCount == \A S : Points!Cardinality(S) = Cardinality(S)
BY DEF Points!Cardinality, Cardinality

LEMMA NthIs ==
  ASSUME NEW S, NEW n, NEW k \in S, Cardinality({j \in S : j < k}) = n - 1,
         \A i \in S : Cardinality({j \in S : j < i}) = n - 1 => i = k
  PROVE  Points!Nth(S, n) = k
<1>1. \E i \in S : Cardinality({j \in S : j < i}) = n - 1
  OBVIOUS
<1>2. Points!Nth(S, n) \in S /\ Cardinality({j \in S : j < Points!Nth(S, n)}) = n - 1
  BY <1>1, PointsCount DEF Points!Nth
<1> QED
  BY <1>2

LEMMA NthOfThree ==
  ASSUME NEW a \in Int, NEW b \in Int, NEW c \in Int, a < b, b < c, NEW S, S = {a, b, c}
  PROVE  /\ Points!Nth(S, 1) = a /\ Points!Nth(S, 2) = b /\ Points!Nth(S, 3) = c
         /\ IsFiniteSet(S) /\ Cardinality(S) = 3
<1>1. /\ IsFiniteSet({}) /\ Cardinality({}) = 0
      /\ IsFiniteSet({a}) /\ Cardinality({a}) = 1
  BY FS_EmptySet, FS_Singleton
<1>2. IsFiniteSet({a} \cup {b}) /\ Cardinality({a} \cup {b}) = 2
  BY <1>1, FS_AddElement
<1>3. {a} \cup {b} = {a, b}
  OBVIOUS
<1>4. IsFiniteSet({a, b} \cup {c}) /\ Cardinality({a, b} \cup {c}) = 3
  BY <1>2, <1>3, FS_AddElement
<1>5. {a, b} \cup {c} = S
  OBVIOUS
<1>6. {j \in S : j < a} = {} /\ {j \in S : j < b} = {a} /\ {j \in S : j < c} = {a, b}
  OBVIOUS
<1>7. /\ Cardinality({j \in S : j < a}) = 0
      /\ Cardinality({j \in S : j < b}) = 1
      /\ Cardinality({j \in S : j < c}) = 2
  BY <1>1, <1>2, <1>3, <1>6
<1>8. ASSUME NEW n \in {1, 2, 3}, NEW k \in S, Cardinality({j \in S : j < k}) = n - 1
      PROVE  Points!Nth(S, n) = k
  <2>0. PICK T : T = S
    OBVIOUS
  <2>1. k \in T /\ Cardinality({j \in T : j < k}) = n - 1
    BY <1>8, <2>0
  <2>2. \A i \in S : Cardinality({j \in S : j < i}) = n - 1 => i = k
    BY <1>7, <1>8
  <2>3. \A i \in T : Cardinality({j \in T : j < i}) = n - 1 => i = k
    BY <2>0, <2>2
  <2>4. Points!Nth(T, n) = k
    BY <2>1, <2>3, NthIs, Zenon
  <2> QED
    BY <2>0, <2>4
<1>9. Points!Nth(S, 1) = a /\ Points!Nth(S, 2) = b /\ Points!Nth(S, 3) = c
  BY <1>7, <1>8
<1> QED
  BY <1>4, <1>5, <1>9

LEMMA NthOfFour ==
  /\ \A i \in 1..4 : Points!Nth(1..4, i) = i
  /\ Cardinality(1..4) = 4
<1>1. ASSUME NEW k \in 1..4 PROVE Cardinality({j \in 1..4 : j < k}) = k - 1
  <2>1. {j \in 1..4 : j < k} = 1..(k - 1)
    OBVIOUS
  <2>2. Cardinality(1..(k - 1)) = k - 1
    BY FS_Interval
  <2> QED
    BY <2>1, <2>2
<1>2. ASSUME NEW i \in 1..4 PROVE Points!Nth(1..4, i) = i
  <2>1. Cardinality({j \in 1..4 : j < i}) = i - 1
    BY <1>1
  <2>2. \A k \in 1..4 : Cardinality({j \in 1..4 : j < k}) = i - 1 => k = i
    BY <1>1
  <2> QED
    BY <2>1, <2>2, NthIs
<1>3. \A d \in Nat : Cardinality(1..d) = d
  BY FS_Interval
<1>4. Cardinality(1..4) = 4
  BY <1>3
<1> QED
  BY <1>2, <1>4

LEMMA ThreeFound ==
  ASSUME NEW S \in SUBSET Nat, IsFiniteSet(S), Cardinality(S) = 3
  PROVE  \E a, b, c \in S : a < b /\ b < c /\ S = {a, b, c}
<1>1. PICK a \in S : \A y \in S : a <= y
  BY FS_EmptySet, Smallest
<1>2. /\ IsFiniteSet(S \ {a}) /\ Cardinality(S \ {a}) = 2
  BY FS_RemoveElement
<1>3. PICK b \in S \ {a} : \A y \in S \ {a} : b <= y
  BY <1>2, FS_EmptySet, Smallest
<1>4. /\ IsFiniteSet((S \ {a}) \ {b}) /\ Cardinality((S \ {a}) \ {b}) = 1
  BY <1>2, FS_RemoveElement
<1>5. PICK c : (S \ {a}) \ {b} = {c}
  BY <1>4, FS_Singleton
<1>6. S = {a, b, c} /\ c \in S /\ c # a /\ c # b
  BY <1>1, <1>3, <1>5
<1>7. a < b /\ b < c
  <2>1. a \in Nat /\ b \in Nat /\ c \in Nat
    BY <1>1, <1>3, <1>6
  <2>2. a <= b /\ a # b /\ b <= c
    BY <1>1, <1>3, <1>6
  <2> QED
    BY <2>1, <2>2, <1>6
<1> QED
  BY <1>1, <1>3, <1>6, <1>7

-----------------------------------------------------------------------------
(* A text with three dots has four parts, and one that is empty has one. *)
Chars == Points!Characters

DotsOf(text) == {k \in DOMAIN text : text[k] = Points!Dot}

Dotted(text, a, b, c) ==
  /\ a \in 1 .. Len(text) /\ b \in 1 .. Len(text) /\ c \in 1 .. Len(text)
  /\ a < b /\ b < c
  /\ DotsOf(text) = {a, b, c}

PartOf(text, a, b, c, i) ==
  SubSeq(text, IF i = 1 THEN 1 ELSE (IF i = 2 THEN a ELSE IF i = 3 THEN b ELSE c) + 1,
         IF i = 4 THEN Len(text) ELSE (IF i = 1 THEN a ELSE IF i = 2 THEN b ELSE c) - 1)

LEMMA SplitOfFour ==
  ASSUME NEW text \in Seq(Chars), NEW a, NEW b, NEW c, Dotted(text, a, b, c)
  PROVE  Points!Split(text, Points!Dot) = [i \in 1..4 |-> PartOf(text, a, b, c, i)]
<1> DEFINE at == DotsOf(text)
           from(n) == IF n = 1 THEN 1 ELSE Points!Nth(at, n - 1) + 1
           upto(n) == IF n > Cardinality(at) THEN Len(text) ELSE Points!Nth(at, n) - 1
<1>1. /\ Points!Nth(at, 1) = a /\ Points!Nth(at, 2) = b /\ Points!Nth(at, 3) = c
      /\ Cardinality(at) = 3
  BY NthOfThree DEF Dotted
<1>2. Points!Split(text, Points!Dot) = [n \in 1 .. Cardinality(at) + 1 |-> SubSeq(text, from(n), upto(n))]
  BY PointsCount DEF Points!Split, DotsOf
<1>3. Cardinality(at) + 1 = 4
  BY <1>1
<1>4. ASSUME NEW i \in 1..4 PROVE SubSeq(text, from(i), upto(i)) = PartOf(text, a, b, c, i)
  <2> HIDE DEF at
  <2>0. a \in Int /\ b \in Int /\ c \in Int
    BY DEF Dotted
  <2>1. i = 1 \/ i = 2 \/ i = 3 \/ i = 4
    OBVIOUS
  <2>2. CASE i = 1
    <3>1. from(i) = 1 /\ upto(i) = a - 1
      BY <1>1, <2>2, <2>0
    <3>2. PartOf(text, a, b, c, i) = SubSeq(text, 1, a - 1)
      BY <2>2, <2>0 DEF PartOf
    <3> QED
      BY <3>1, <3>2
  <2>3. CASE i = 2
    <3>1. from(i) = a + 1 /\ upto(i) = b - 1
      BY <1>1, <2>3, <2>0
    <3>2. PartOf(text, a, b, c, i) = SubSeq(text, a + 1, b - 1)
      BY <2>3, <2>0 DEF PartOf
    <3> QED
      BY <3>1, <3>2
  <2>4. CASE i = 3
    <3>1. from(i) = b + 1 /\ upto(i) = c - 1
      BY <1>1, <2>4, <2>0
    <3>2. PartOf(text, a, b, c, i) = SubSeq(text, b + 1, c - 1)
      BY <2>4, <2>0 DEF PartOf
    <3> QED
      BY <3>1, <3>2
  <2>5. CASE i = 4
    <3>1. from(i) = c + 1 /\ upto(i) = Len(text)
      BY <1>1, <2>5, <2>0
    <3>2. PartOf(text, a, b, c, i) = SubSeq(text, c + 1, Len(text))
      BY <2>5, <2>0 DEF PartOf
    <3> QED
      BY <3>1, <3>2
  <2> QED
    BY <2>1, <2>2, <2>3, <2>4, <2>5
<1> HIDE DEF at, from, upto
<1> QED
  BY <1>2, <1>3, <1>4

LEMMA SplitOfNothing == Points!Split(<<>>, Points!Dot) = [i \in 1..1 |-> <<>>]
<1> DEFINE at == {k \in DOMAIN <<>> : <<>>[k] = Points!Dot}
<1>1. at = {} /\ Cardinality(at) = 0
  BY FS_EmptySet
<1>2. Points!Split(<<>>, Points!Dot) =
        [n \in 1 .. Cardinality(at) + 1 |->
           SubSeq(<<>>, IF n = 1 THEN 1 ELSE Points!Nth(at, n - 1) + 1,
                  IF n > Cardinality(at) THEN Len(<<>>) ELSE Points!Nth(at, n) - 1)]
  BY PointsCount DEF Points!Split
<1> HIDE DEF at
<1>3. ASSUME NEW n \in 1..1
      PROVE  SubSeq(<<>>, IF n = 1 THEN 1 ELSE Points!Nth(at, n - 1) + 1,
                    IF n > Cardinality(at) THEN Len(<<>>) ELSE Points!Nth(at, n) - 1) = <<>>
  <2>1. n = 1 /\ Len(<<>>) = 0 /\ SubSeq(<<>>, 1, 0) = <<>>
    BY SubSeqEmpty
  <2> QED
    BY <2>1, <1>1
<1>4. Cardinality(at) + 1 = 1
  BY <1>1
<1> QED
  BY <1>2, <1>3, <1>4

-----------------------------------------------------------------------------
(* Numbers and their digits. *)
Continued(v, s, k) == IF k = 0 THEN 0 ELSE 10 * v[k - 1] + s[k]

LEMMA ValueIs ==
  ASSUME NEW s \in Seq(Points!Digits)
  PROVE  \E v \in [0..Len(s) -> Nat] :
           /\ v[0] = 0 /\ Points!Value(s) = v[Len(s)]
           /\ \A k \in 1..Len(s) : v[k] = 10 * v[k - 1] + s[k]
<1> DEFINE Is(f, n) == f \in [0..n -> Nat] /\ f = [k \in 0..n |-> Continued(f, s, k)]
           Without == {n \in Nat : n <= Len(s) /\ ~\E f : Is(f, n)}
<1>0. Len(s) \in Nat /\ \A k \in 1..Len(s) : s[k] \in Nat
  BY LenProperties, ElementOfSeq DEF Points!Digits
<1>1. ASSUME Without # {} PROVE FALSE
  <2>1. PICK n \in Without : \A y \in Without : n <= y
    BY <1>1, Smallest
  <2>2. n \in Nat /\ n <= Len(s) /\ (n > 0 => \E f : Is(f, n - 1))
    <3>1. n \in Nat /\ n <= Len(s) /\ (n > 0 => n - 1 \in Nat /\ n - 1 <= Len(s) /\ ~(n <= n - 1))
      BY <1>0, <2>1
    <3>2. n > 0 => n - 1 \notin Without
      BY <2>1, <3>1
    <3> QED
      BY <3>1, <3>2
  <2>3. PICK h : n > 0 => Is(h, n - 1)
    BY <2>2
  <2> DEFINE f == [k \in 0..n |-> Continued(h, s, k)]
  <2> HIDE DEF Without
  <2>4. ASSUME NEW k \in 0..n, k # 0 PROVE k - 1 \in 0..n /\ f[k - 1] = h[k - 1] /\ h[k - 1] \in Nat /\ s[k] \in Nat
    <3>1. n > 0 /\ k - 1 \in 0..n /\ k - 1 \in 0..(n - 1) /\ k \in 1..Len(s)
      BY <1>0, <2>2, <2>4
    <3>2. f[k - 1] = Continued(h, s, k - 1) /\ h[k - 1] = Continued(h, s, k - 1)
      BY <2>3, <3>1
    <3> QED
      BY <1>0, <2>3, <3>1, <3>2
  <2>5. ASSUME NEW k \in 0..n PROVE f[k] = Continued(f, s, k) /\ f[k] \in Nat
    <3>1. f[k] = Continued(h, s, k)
      OBVIOUS
    <3> HIDE DEF f
    <3> QED
      BY <2>4, <3>1 DEF Continued
  <2>6. Is(f, n)
    <3>1. f = [k \in 0..n |-> f[k]]
      OBVIOUS
    <3> HIDE DEF f
    <3> QED
      BY <2>5, <3>1
  <2> QED
    BY <2>1, <2>6 DEF Without
<1>2. PICK g : Is(g, Len(s))
  <2>1. Len(s) \in Nat /\ Len(s) <= Len(s) /\ Len(s) \notin Without
    <3> HIDE DEF Without
    <3>1. Without = {}
      BY <1>1
    <3>2. Len(s) \in Nat /\ Len(s) <= Len(s)
      BY <1>0
    <3> QED
      BY <3>1, <3>2
  <2> QED
    BY <2>1
<1> DEFINE v == CHOOSE f : f = [k \in 0..Len(s) |-> IF k = 0 THEN 0 ELSE 10 * f[k - 1] + s[k]]
<1>3. v = [k \in 0..Len(s) |-> IF k = 0 THEN 0 ELSE 10 * v[k - 1] + s[k]]
  BY <1>2 DEF Continued
<1>4. Points!Value(s) = v[Len(s)]
  BY DEF Points!Value
<1> HIDE DEF v
<1>5. \A k \in 0..Len(s) : v[k] \in Nat
  <2> DEFINE Bad == {k \in Nat : k <= Len(s) /\ ~(v[k] \in Nat)}
  <2> SUFFICES ASSUME Bad # {} PROVE FALSE
    BY <1>0
  <2>1. PICK k \in Bad : \A y \in Bad : k <= y
    BY Smallest
  <2>2. k \in Nat /\ k <= Len(s) /\ ~(v[k] \in Nat)
    BY <2>1
  <2>3. k # 0
    BY <1>0, <1>3, <2>2
  <2>4. k - 1 \in Nat /\ k - 1 <= Len(s) /\ ~(k <= k - 1)
    BY <1>0, <2>2, <2>3
  <2>5. v[k - 1] \in Nat
    BY <2>1, <2>4
  <2>6. k \in 0..Len(s) /\ k \in 1..Len(s)
    BY <1>0, <2>2, <2>3
  <2>7. v[k] = 10 * v[k - 1] + s[k]
    BY <1>3, <2>3, <2>6
  <2> QED
    BY <1>0, <2>2, <2>5, <2>6, <2>7
<1>6. v \in [0..Len(s) -> Nat]
  BY <1>3, <1>5
<1>7. v[0] = 0 /\ \A k \in 1..Len(s) : v[k] = 10 * v[k - 1] + s[k]
  <2>1. 0 \in 0..Len(s) /\ \A k \in 1..Len(s) : k \in 0..Len(s) /\ k # 0
    BY <1>0
  <2> QED
    BY <1>3, <2>1
<1> QED
  BY <1>4, <1>6, <1>7

LEMMA DigitsAre ==
  ASSUME NEW s \in Seq(Points!Digits)
  PROVE  Len(s) \in Nat /\ \A k \in 1..Len(s) : s[k] \in Nat /\ s[k] <= 9
BY LenProperties, ElementOfSeq DEF Points!Digits

LEMMA ValueType ==
  ASSUME NEW s \in Seq(Points!Digits) PROVE Points!Value(s) \in Nat
BY ValueIs, LenProperties

LEMMA ValueOf1 ==
  ASSUME NEW s \in Seq(Points!Digits), Len(s) = 1
  PROVE  Points!Value(s) = s[1]
<1>1. PICK v \in [0..1 -> Nat] : v[0] = 0 /\ Points!Value(s) = v[1] /\ \A k \in 1..1 : v[k] = 10 * v[k - 1] + s[k]
  BY ValueIs
<1>2. \A k \in 1..1 : s[k] \in Int
  <2>1. \A k \in 1..Len(s) : s[k] \in Nat
    BY DigitsAre
  <2> QED
    BY <2>1
<1>3. v[1] = 10 * v[0] + s[1]
  <2>1. 1 - 1 = 0 /\ 1 \in 1..1
    OBVIOUS
  <2> QED
    BY <1>1, <2>1
<1> QED
  BY <1>1, <1>2, <1>3

LEMMA ValueOf2 ==
  ASSUME NEW s \in Seq(Points!Digits), Len(s) = 2
  PROVE  Points!Value(s) = 10 * (s[1]) + s[2]
<1>1. PICK v \in [0..2 -> Nat] : v[0] = 0 /\ Points!Value(s) = v[2] /\ \A k \in 1..2 : v[k] = 10 * v[k - 1] + s[k]
  BY ValueIs
<1>2. \A k \in 1..2 : s[k] \in Int
  <2>1. \A k \in 1..Len(s) : s[k] \in Nat
    BY DigitsAre
  <2> QED
    BY <2>1
<1>3. v[1] = 10 * v[0] + s[1] /\ v[2] = 10 * v[1] + s[2]
  <2>1. 1 - 1 = 0 /\ 1 \in 1..2 /\ 2 - 1 = 1 /\ 2 \in 1..2
    OBVIOUS
  <2> QED
    BY <1>1, <2>1
<1> QED
  BY <1>1, <1>2, <1>3

LEMMA ValueOf3 ==
  ASSUME NEW s \in Seq(Points!Digits), Len(s) = 3
  PROVE  Points!Value(s) = 10 * (10 * (s[1]) + s[2]) + s[3]
<1>1. PICK v \in [0..3 -> Nat] : v[0] = 0 /\ Points!Value(s) = v[3] /\ \A k \in 1..3 : v[k] = 10 * v[k - 1] + s[k]
  BY ValueIs
<1>2. \A k \in 1..3 : s[k] \in Int
  <2>1. \A k \in 1..Len(s) : s[k] \in Nat
    BY DigitsAre
  <2> QED
    BY <2>1
<1>3. v[1] = 10 * v[0] + s[1] /\ v[2] = 10 * v[1] + s[2] /\ v[3] = 10 * v[2] + s[3]
  <2>1. 1 - 1 = 0 /\ 1 \in 1..3 /\ 2 - 1 = 1 /\ 2 \in 1..3 /\ 3 - 1 = 2 /\ 3 \in 1..3
    OBVIOUS
  <2> QED
    BY <1>1, <2>1
<1> QED
  BY <1>1, <1>2, <1>3

LEMMA ValueOf4 ==
  ASSUME NEW s \in Seq(Points!Digits), Len(s) = 4
  PROVE  Points!Value(s) = 10 * (10 * (10 * (s[1]) + s[2]) + s[3]) + s[4]
<1>1. PICK v \in [0..4 -> Nat] : v[0] = 0 /\ Points!Value(s) = v[4] /\ \A k \in 1..4 : v[k] = 10 * v[k - 1] + s[k]
  BY ValueIs
<1>2. \A k \in 1..4 : s[k] \in Int
  <2>1. \A k \in 1..Len(s) : s[k] \in Nat
    BY DigitsAre
  <2> QED
    BY <2>1
<1>3. v[1] = 10 * v[0] + s[1] /\ v[2] = 10 * v[1] + s[2] /\ v[3] = 10 * v[2] + s[3] /\ v[4] = 10 * v[3] + s[4]
  <2>1. 1 - 1 = 0 /\ 1 \in 1..4 /\ 2 - 1 = 1 /\ 2 \in 1..4 /\ 3 - 1 = 2 /\ 3 \in 1..4 /\ 4 - 1 = 3 /\ 4 \in 1..4
    OBVIOUS
  <2> QED
    BY <1>1, <2>1
<1> QED
  BY <1>1, <1>2, <1>3

LEMMA ValueOf5 ==
  ASSUME NEW s \in Seq(Points!Digits), Len(s) = 5
  PROVE  Points!Value(s) = 10 * (10 * (10 * (10 * (s[1]) + s[2]) + s[3]) + s[4]) + s[5]
<1>1. PICK v \in [0..5 -> Nat] : v[0] = 0 /\ Points!Value(s) = v[5] /\ \A k \in 1..5 : v[k] = 10 * v[k - 1] + s[k]
  BY ValueIs
<1>2. \A k \in 1..5 : s[k] \in Int
  <2>1. \A k \in 1..Len(s) : s[k] \in Nat
    BY DigitsAre
  <2> QED
    BY <2>1
<1>3. v[1] = 10 * v[0] + s[1] /\ v[2] = 10 * v[1] + s[2] /\ v[3] = 10 * v[2] + s[3] /\ v[4] = 10 * v[3] + s[4] /\ v[5] = 10 * v[4] + s[5]
  <2>1. 1 - 1 = 0 /\ 1 \in 1..5 /\ 2 - 1 = 1 /\ 2 \in 1..5 /\ 3 - 1 = 2 /\ 3 \in 1..5 /\ 4 - 1 = 3 /\ 4 \in 1..5 /\ 5 - 1 = 4 /\ 5 \in 1..5
    OBVIOUS
  <2> QED
    BY <1>1, <2>1
<1> QED
  BY <1>1, <1>2, <1>3

LEMMA TensAre ==
  /\ Points!Tens[1] = 1 /\ Points!Tens[2] = 10 /\ Points!Tens[3] = 100
  /\ Points!Tens[4] = 1000 /\ Points!Tens[5] = 10000
BY DEF Points!Tens

LEMMA OverOne == \A n \in Nat : n \div 1 = n
OBVIOUS

LEMMA OverTen == \A n \in Nat : n \div 10 \in Nat /\ (n < 100 => n \div 10 < 10)
OBVIOUS

LEMMA OverHundred ==
  \A n \in Nat : n \div 100 \in Nat /\ n \div 100 = (n \div 10) \div 10 /\ (n < 1000 => n \div 100 < 10)
OBVIOUS

LEMMA OverThousand ==
  \A n \in Nat : n \div 1000 \in Nat /\ n \div 1000 = (n \div 100) \div 10 /\ (n < 10000 => n \div 1000 < 10)
OBVIOUS

LEMMA OverTenThousand ==
  \A n \in Nat : n \div 10000 \in Nat /\ n \div 10000 = (n \div 1000) \div 10 /\ (n < 100000 => n \div 10000 < 10)
OBVIOUS

LEMMA DigitStep ==
  /\ \A q \in Nat : 10 * (q \div 10) + (q % 10) = q
  /\ \A q \in Nat : q < 10 => q % 10 = q
OBVIOUS

IsDecimal(s, n) ==
  /\ s \in Seq(Points!Digits) /\ Len(s) \in 1..5 /\ Points!Value(s) = n
  /\ n <= 255 => Len(s) <= 3
  /\ Len(s) > 1 => s[1] # 0

LEMMA DecimalIs ==
  ASSUME NEW n \in Nat, n <= 65535 PROVE IsDecimal(Points!Decimal(n), n)
<1> DEFINE Fits(k) == n < 10 * Points!Tens[k] /\ (k = 1 \/ n >= Points!Tens[k])
           length == CHOOSE k \in 1..5 : Fits(k)
           s == Points!Decimal(n)
<1>1. length \in 1..5 /\ Fits(length)
  <2>1. Fits(1) \/ Fits(2) \/ Fits(3) \/ Fits(4) \/ Fits(5)
    BY TensAre
  <2>2. \E k \in 1..5 : Fits(k)
    <3> HIDE DEF Fits
    <3> QED
      BY <2>1
  <2> HIDE DEF Fits
  <2> QED
    BY <2>2
<1> DEFINE place(k) == Points!Tens[length + 1 - k]
           digit(t) == (n \div t) % 10
<1>2. s = [k \in 1..length |-> digit(place(k))]
  BY DEF Points!Decimal
<1> HIDE DEF length, s, digit, place
<1>4. length \in Nat
  BY <1>1
<1>5. Len(s) = length
  BY <1>2, <1>4
<1>6. \A k \in 1..length : s[k] = digit(place(k))
  BY <1>2
<1>3. IsDecimal(s, n)
  <2>1. CASE length = 1
    <3>0. s[1] = digit(1) /\ Len(s) = 1
      <4>1. s[1] = digit(1)
        <5>1. 1 \in 1..length /\ length + 1 - 1 = 1
          BY <2>1
        <5>2. place(1) = 1
          BY <5>1, TensAre DEF place
        <5> QED
          BY <1>6, <5>1, <5>2
      <4> QED
        BY <1>5, <2>1, <4>1
    <3>1. s[1] = ((n \div 1) % 10) /\ Len(s) = 1
      BY <3>0 DEF digit
    <3>2. n < 10
      BY <1>1, <2>1, TensAre
    <3>3. PICK q1 : q1 = n \div 1
      OBVIOUS
    <3>31. q1 = n /\ q1 \in Nat /\ q1 < 10
      <4>1. q1 = n /\ n \in Nat
        BY <3>3, OverOne
      <4> QED
        BY <3>2, <4>1
    <3>32. s[1] = q1 % 10
      BY <3>1, <3>3
    <3>33. s[1] = q1
      BY <3>31, <3>32, DigitStep
    <3>4. \A k \in 1..1 : s[k] \in Points!Digits
      BY <3>1 DEF Points!Digits
    <3>5. s \in Seq(Points!Digits)
      <4>1. s = [k \in 1..1 |-> s[k]]
        BY <1>2, <2>1
      <4> QED
        BY <3>4, <4>1
    <3>6. Points!Value(s) = s[1]
      BY <3>1, <3>5, ValueOf1
    <3>7. Points!Value(s) = n
      BY <3>31, <3>33, <3>6
    <3> QED
      BY <2>1, <3>1, <3>2, <3>5, <3>7 DEF IsDecimal
  <2>2. CASE length = 2
    <3>0. s[1] = digit(10) /\ s[2] = digit(1) /\ Len(s) = 2
      <4>1. s[1] = digit(10)
        <5>1. 1 \in 1..length /\ length + 1 - 1 = 2
          BY <2>2
        <5>2. place(1) = 10
          BY <5>1, TensAre DEF place
        <5> QED
          BY <1>6, <5>1, <5>2
      <4>2. s[2] = digit(1)
        <5>1. 2 \in 1..length /\ length + 1 - 2 = 1
          BY <2>2
        <5>2. place(2) = 1
          BY <5>1, TensAre DEF place
        <5> QED
          BY <1>6, <5>1, <5>2
      <4> QED
        BY <1>5, <2>2, <4>1, <4>2
    <3>1. s[1] = ((n \div 10) % 10) /\ s[2] = ((n \div 1) % 10) /\ Len(s) = 2
      BY <3>0 DEF digit
    <3>2. n < 100 /\ n >= 10
      BY <1>1, <2>2, TensAre
    <3>3. PICK q1, q2 : q1 = n \div 10 /\ q2 = n \div 1
      OBVIOUS
    <3>31. q2 = n /\ q1 \in Nat /\ q2 \in Nat /\ q1 < 10 /\ q1 = q2 \div 10
      <4>2. q2 = n /\ n \in Nat
        BY <3>3, OverOne
      <4>1. q1 \in Nat /\ q1 = q2 \div 10 /\ q1 < 10
        BY <3>2, <3>3, <4>2, OverTen
      <4> QED
        BY <3>2, <4>1, <4>2
    <3>32. s[1] = q1 % 10 /\ s[2] = q2 % 10
      BY <3>1, <3>3
    <3>33. s[1] = q1 /\ 10 * q1 + s[2] = q2
      BY <3>31, <3>32, DigitStep
    <3>4. \A k \in 1..2 : s[k] \in Points!Digits
      BY <3>1 DEF Points!Digits
    <3>5. s \in Seq(Points!Digits)
      <4>1. s = [k \in 1..2 |-> s[k]]
        BY <1>2, <2>2
      <4> QED
        BY <3>4, <4>1
    <3>6. Points!Value(s) = 10 * (s[1]) + s[2]
      BY <3>1, <3>5, ValueOf2
    <3>7. Points!Value(s) = n
      BY <3>31, <3>33, <3>6
    <3>8. s[1] # 0
      BY <3>1, <3>2
    <3> QED
      BY <2>2, <3>1, <3>2, <3>5, <3>7, <3>8 DEF IsDecimal
  <2>3. CASE length = 3
    <3>0. s[1] = digit(100) /\ s[2] = digit(10) /\ s[3] = digit(1) /\ Len(s) = 3
      <4>1. s[1] = digit(100)
        <5>1. 1 \in 1..length /\ length + 1 - 1 = 3
          BY <2>3
        <5>2. place(1) = 100
          BY <5>1, TensAre DEF place
        <5> QED
          BY <1>6, <5>1, <5>2
      <4>2. s[2] = digit(10)
        <5>1. 2 \in 1..length /\ length + 1 - 2 = 2
          BY <2>3
        <5>2. place(2) = 10
          BY <5>1, TensAre DEF place
        <5> QED
          BY <1>6, <5>1, <5>2
      <4>3. s[3] = digit(1)
        <5>1. 3 \in 1..length /\ length + 1 - 3 = 1
          BY <2>3
        <5>2. place(3) = 1
          BY <5>1, TensAre DEF place
        <5> QED
          BY <1>6, <5>1, <5>2
      <4> QED
        BY <1>5, <2>3, <4>1, <4>2, <4>3
    <3>1. s[1] = ((n \div 100) % 10) /\ s[2] = ((n \div 10) % 10) /\ s[3] = ((n \div 1) % 10) /\ Len(s) = 3
      BY <3>0 DEF digit
    <3>2. n < 1000 /\ n >= 100
      BY <1>1, <2>3, TensAre
    <3>3. PICK q1, q2, q3 : q1 = n \div 100 /\ q2 = n \div 10 /\ q3 = n \div 1
      OBVIOUS
    <3>31. q3 = n /\ q1 \in Nat /\ q2 \in Nat /\ q3 \in Nat /\ q1 < 10 /\ q1 = q2 \div 10 /\ q2 = q3 \div 10
      <4>3. q3 = n /\ n \in Nat
        BY <3>3, OverOne
      <4>2. q2 \in Nat /\ q2 = q3 \div 10
        BY <3>2, <3>3, <4>3, OverTen
      <4>1. q1 \in Nat /\ q1 = q2 \div 10 /\ q1 < 10
        BY <3>2, <3>3, <4>3, OverHundred
      <4> QED
        BY <3>2, <4>1, <4>2, <4>3
    <3>32. s[1] = q1 % 10 /\ s[2] = q2 % 10 /\ s[3] = q3 % 10
      BY <3>1, <3>3
    <3>33. s[1] = q1 /\ 10 * q1 + s[2] = q2 /\ 10 * q2 + s[3] = q3
      BY <3>31, <3>32, DigitStep
    <3>4. \A k \in 1..3 : s[k] \in Points!Digits
      BY <3>1 DEF Points!Digits
    <3>5. s \in Seq(Points!Digits)
      <4>1. s = [k \in 1..3 |-> s[k]]
        BY <1>2, <2>3
      <4> QED
        BY <3>4, <4>1
    <3>6. Points!Value(s) = 10 * (10 * (s[1]) + s[2]) + s[3]
      BY <3>1, <3>5, ValueOf3
    <3>7. Points!Value(s) = n
      BY <3>31, <3>33, <3>6
    <3>8. s[1] # 0
      BY <3>1, <3>2
    <3> QED
      BY <2>3, <3>1, <3>2, <3>5, <3>7, <3>8 DEF IsDecimal
  <2>4. CASE length = 4
    <3>0. s[1] = digit(1000) /\ s[2] = digit(100) /\ s[3] = digit(10) /\ s[4] = digit(1) /\ Len(s) = 4
      <4>1. s[1] = digit(1000)
        <5>1. 1 \in 1..length /\ length + 1 - 1 = 4
          BY <2>4
        <5>2. place(1) = 1000
          BY <5>1, TensAre DEF place
        <5> QED
          BY <1>6, <5>1, <5>2
      <4>2. s[2] = digit(100)
        <5>1. 2 \in 1..length /\ length + 1 - 2 = 3
          BY <2>4
        <5>2. place(2) = 100
          BY <5>1, TensAre DEF place
        <5> QED
          BY <1>6, <5>1, <5>2
      <4>3. s[3] = digit(10)
        <5>1. 3 \in 1..length /\ length + 1 - 3 = 2
          BY <2>4
        <5>2. place(3) = 10
          BY <5>1, TensAre DEF place
        <5> QED
          BY <1>6, <5>1, <5>2
      <4>4. s[4] = digit(1)
        <5>1. 4 \in 1..length /\ length + 1 - 4 = 1
          BY <2>4
        <5>2. place(4) = 1
          BY <5>1, TensAre DEF place
        <5> QED
          BY <1>6, <5>1, <5>2
      <4> QED
        BY <1>5, <2>4, <4>1, <4>2, <4>3, <4>4
    <3>1. s[1] = ((n \div 1000) % 10) /\ s[2] = ((n \div 100) % 10) /\ s[3] = ((n \div 10) % 10) /\ s[4] = ((n \div 1) % 10) /\ Len(s) = 4
      BY <3>0 DEF digit
    <3>2. n < 10000 /\ n >= 1000
      BY <1>1, <2>4, TensAre
    <3>3. PICK q1, q2, q3, q4 : q1 = n \div 1000 /\ q2 = n \div 100 /\ q3 = n \div 10 /\ q4 = n \div 1
      OBVIOUS
    <3>31. q4 = n /\ q1 \in Nat /\ q2 \in Nat /\ q3 \in Nat /\ q4 \in Nat /\ q1 < 10 /\ q1 = q2 \div 10 /\ q2 = q3 \div 10 /\ q3 = q4 \div 10
      <4>4. q4 = n /\ n \in Nat
        BY <3>3, OverOne
      <4>3. q3 \in Nat /\ q3 = q4 \div 10
        BY <3>2, <3>3, <4>4, OverTen
      <4>2. q2 \in Nat /\ q2 = q3 \div 10
        BY <3>2, <3>3, <4>4, OverHundred
      <4>1. q1 \in Nat /\ q1 = q2 \div 10 /\ q1 < 10
        BY <3>2, <3>3, <4>4, OverThousand
      <4> QED
        BY <3>2, <4>1, <4>2, <4>3, <4>4
    <3>32. s[1] = q1 % 10 /\ s[2] = q2 % 10 /\ s[3] = q3 % 10 /\ s[4] = q4 % 10
      BY <3>1, <3>3
    <3>33. s[1] = q1 /\ 10 * q1 + s[2] = q2 /\ 10 * q2 + s[3] = q3 /\ 10 * q3 + s[4] = q4
      BY <3>31, <3>32, DigitStep
    <3>4. \A k \in 1..4 : s[k] \in Points!Digits
      BY <3>1 DEF Points!Digits
    <3>5. s \in Seq(Points!Digits)
      <4>1. s = [k \in 1..4 |-> s[k]]
        BY <1>2, <2>4
      <4> QED
        BY <3>4, <4>1
    <3>6. Points!Value(s) = 10 * (10 * (10 * (s[1]) + s[2]) + s[3]) + s[4]
      BY <3>1, <3>5, ValueOf4
    <3>7. Points!Value(s) = n
      BY <3>31, <3>33, <3>6
    <3>8. s[1] # 0
      BY <3>1, <3>2
    <3> QED
      BY <2>4, <3>1, <3>2, <3>5, <3>7, <3>8 DEF IsDecimal
  <2>5. CASE length = 5
    <3>0. s[1] = digit(10000) /\ s[2] = digit(1000) /\ s[3] = digit(100) /\ s[4] = digit(10) /\ s[5] = digit(1) /\ Len(s) = 5
      <4>1. s[1] = digit(10000)
        <5>1. 1 \in 1..length /\ length + 1 - 1 = 5
          BY <2>5
        <5>2. place(1) = 10000
          BY <5>1, TensAre DEF place
        <5> QED
          BY <1>6, <5>1, <5>2
      <4>2. s[2] = digit(1000)
        <5>1. 2 \in 1..length /\ length + 1 - 2 = 4
          BY <2>5
        <5>2. place(2) = 1000
          BY <5>1, TensAre DEF place
        <5> QED
          BY <1>6, <5>1, <5>2
      <4>3. s[3] = digit(100)
        <5>1. 3 \in 1..length /\ length + 1 - 3 = 3
          BY <2>5
        <5>2. place(3) = 100
          BY <5>1, TensAre DEF place
        <5> QED
          BY <1>6, <5>1, <5>2
      <4>4. s[4] = digit(10)
        <5>1. 4 \in 1..length /\ length + 1 - 4 = 2
          BY <2>5
        <5>2. place(4) = 10
          BY <5>1, TensAre DEF place
        <5> QED
          BY <1>6, <5>1, <5>2
      <4>5. s[5] = digit(1)
        <5>1. 5 \in 1..length /\ length + 1 - 5 = 1
          BY <2>5
        <5>2. place(5) = 1
          BY <5>1, TensAre DEF place
        <5> QED
          BY <1>6, <5>1, <5>2
      <4> QED
        BY <1>5, <2>5, <4>1, <4>2, <4>3, <4>4, <4>5
    <3>1. s[1] = ((n \div 10000) % 10) /\ s[2] = ((n \div 1000) % 10) /\ s[3] = ((n \div 100) % 10) /\ s[4] = ((n \div 10) % 10) /\ s[5] = ((n \div 1) % 10) /\ Len(s) = 5
      BY <3>0 DEF digit
    <3>2. n < 100000 /\ n >= 10000
      BY <1>1, <2>5, TensAre
    <3>3. PICK q1, q2, q3, q4, q5 : q1 = n \div 10000 /\ q2 = n \div 1000 /\ q3 = n \div 100 /\ q4 = n \div 10 /\ q5 = n \div 1
      OBVIOUS
    <3>31. q5 = n /\ q1 \in Nat /\ q2 \in Nat /\ q3 \in Nat /\ q4 \in Nat /\ q5 \in Nat /\ q1 < 10 /\ q1 = q2 \div 10 /\ q2 = q3 \div 10 /\ q3 = q4 \div 10 /\ q4 = q5 \div 10
      <4>5. q5 = n /\ n \in Nat
        BY <3>3, OverOne
      <4>4. q4 \in Nat /\ q4 = q5 \div 10
        BY <3>2, <3>3, <4>5, OverTen
      <4>3. q3 \in Nat /\ q3 = q4 \div 10
        BY <3>2, <3>3, <4>5, OverHundred
      <4>2. q2 \in Nat /\ q2 = q3 \div 10
        BY <3>2, <3>3, <4>5, OverThousand
      <4>1. q1 \in Nat /\ q1 = q2 \div 10 /\ q1 < 10
        BY <3>2, <3>3, <4>5, OverTenThousand
      <4> QED
        BY <3>2, <4>1, <4>2, <4>3, <4>4, <4>5
    <3>32. s[1] = q1 % 10 /\ s[2] = q2 % 10 /\ s[3] = q3 % 10 /\ s[4] = q4 % 10 /\ s[5] = q5 % 10
      BY <3>1, <3>3
    <3>33. s[1] = q1 /\ 10 * q1 + s[2] = q2 /\ 10 * q2 + s[3] = q3 /\ 10 * q3 + s[4] = q4 /\ 10 * q4 + s[5] = q5
      BY <3>31, <3>32, DigitStep
    <3>4. \A k \in 1..5 : s[k] \in Points!Digits
      BY <3>1 DEF Points!Digits
    <3>5. s \in Seq(Points!Digits)
      <4>1. s = [k \in 1..5 |-> s[k]]
        BY <1>2, <2>5
      <4> QED
        BY <3>4, <4>1
    <3>6. Points!Value(s) = 10 * (10 * (10 * (10 * (s[1]) + s[2]) + s[3]) + s[4]) + s[5]
      BY <3>1, <3>5, ValueOf5
    <3>7. Points!Value(s) = n
      BY <3>31, <3>33, <3>6
    <3>8. s[1] # 0
      BY <3>1, <3>2
    <3> QED
      BY <2>5, <3>1, <3>2, <3>5, <3>7, <3>8 DEF IsDecimal
  <2>6. length = 1 \/ length = 2 \/ length = 3 \/ length = 4 \/ length = 5
    BY <1>1
  <2> QED
    BY <2>6, <2>1, <2>2, <2>3, <2>4, <2>5
<1> QED
  BY <1>3 DEF s

-----------------------------------------------------------------------------
(* Texts that denote addresses. *)
IsAddress(ip) == ip = [i \in 1..4 |-> ip[i]] /\ \A i \in 1..4 : ip[i] \in Nat /\ ip[i] <= 255

Parts(t, p) == \A i \in 1..4 : p[i] \in Seq(Points!Digits) /\ p[i] # <<>>

\* t is a text with the four parts p.
Quartered(t, p) ==
  /\ t \in Seq(Chars) /\ t # <<>>
  /\ p = [i \in 1..4 |-> p[i]] /\ Parts(t, p)
  /\ \E a, b, c : Dotted(t, a, b, c) /\ p = [i \in 1..4 |-> PartOf(t, a, b, c, i)]

Denotes(t, ip) ==
  /\ IsAddress(ip)
  /\ \E p : Quartered(t, p) /\ \A i \in 1..4 : Points!Value(p[i]) = ip[i]

LEMMA PartIs ==
  ASSUME NEW S, NEW s \in Seq(S), NEW a \in Int, NEW b \in Int, 1 <= a, b <= Len(s)
  PROVE  /\ SubSeq(s, a, b) \in Seq(S) /\ Len(SubSeq(s, a, b)) = IF a <= b THEN b - a + 1 ELSE 0
         /\ \A i \in 1..(b - a + 1) : SubSeq(s, a, b)[i] = s[a + i - 1]
<1>1. \A i \in a..b : s[i] \in S
  <2>1. Len(s) \in Nat /\ \A i \in a..b : i \in 1..Len(s)
    BY LenProperties
  <2> QED
    BY <2>1, ElementOfSeq
<1> QED
  BY <1>1, SubSeqProperties

\* Where the parts lie.
Begin(a, b, c, i) == IF i = 1 THEN 1 ELSE IF i = 2 THEN a + 1 ELSE IF i = 3 THEN b + 1 ELSE c + 1
End(t, a, b, c, i) == IF i = 1 THEN a - 1 ELSE IF i = 2 THEN b - 1 ELSE IF i = 3 THEN c - 1 ELSE Len(t)

Lies(t, first, final, part) ==
  /\ part \in Seq(Chars)
  /\ Len(part) = IF first <= final THEN final - first + 1 ELSE 0
  /\ \A j \in 1..(final - first + 1) : part[j] = t[first + j - 1]

LEMMA PartsLie ==
  \A t \in Seq(Chars) : \A a, b, c : Dotted(t, a, b, c) =>
    \A i \in 1..4 : Lies(t, Begin(a, b, c, i), End(t, a, b, c, i), PartOf(t, a, b, c, i))
<1> SUFFICES ASSUME NEW t \in Seq(Chars), NEW a, NEW b, NEW c, Dotted(t, a, b, c), NEW i \in 1..4
             PROVE  Lies(t, Begin(a, b, c, i), End(t, a, b, c, i), PartOf(t, a, b, c, i))
  OBVIOUS
<1> DEFINE first == Begin(a, b, c, i)
           final == End(t, a, b, c, i)
<1>1. /\ a \in Int /\ b \in Int /\ c \in Int /\ Len(t) \in Nat
      /\ 1 <= a /\ a < b /\ b < c /\ c <= Len(t)
  BY LenProperties DEF Dotted
<1>2. i = 1 \/ i = 2 \/ i = 3 \/ i = 4
  OBVIOUS
<1>3. first \in Int /\ final \in Int /\ 1 <= first /\ final <= Len(t)
  BY <1>1, <1>2 DEF Begin, End
<1>4. PartOf(t, a, b, c, i) = SubSeq(t, first, final)
  <2>1. CASE i = 1
    BY <1>1, <2>1 DEF PartOf, Begin, End
  <2>2. CASE i = 2
    BY <1>1, <2>2 DEF PartOf, Begin, End
  <2>3. CASE i = 3
    BY <1>1, <2>3 DEF PartOf, Begin, End
  <2>4. CASE i = 4
    BY <1>1, <2>4 DEF PartOf, Begin, End
  <2> QED
    BY <1>2, <2>1, <2>2, <2>3, <2>4
<1> HIDE DEF first, final
<1>5. /\ SubSeq(t, first, final) \in Seq(Chars)
      /\ Len(SubSeq(t, first, final)) = IF first <= final THEN final - first + 1 ELSE 0
      /\ \A j \in 1..(final - first + 1) : SubSeq(t, first, final)[j] = t[first + j - 1]
  BY <1>3, PartIs
<1>6. Lies(t, first, final, SubSeq(t, first, final))
  BY <1>5 DEF Lies
<1> QED
  BY <1>4, <1>6 DEF first, final

LEMMA DigitsOfPart ==
  ASSUME NEW s \in Seq(Chars), \A k \in DOMAIN s : s[k] \in Points!Digits
  PROVE  s \in Seq(Points!Digits)
<1>1. Len(s) \in Nat /\ s = [k \in 1..Len(s) |-> s[k]] /\ DOMAIN s = 1..Len(s)
  BY LenProperties, SeqDef
<1> QED
  BY <1>1, SeqDef

\* What is_effective_ipv4 accepts.
LEMMA EffectiveDenotes ==
  ASSUME NEW t \in Seq(Chars), Points!is_effective_ipv4(t)
  PROVE  \E ip : Denotes(t, ip)
<1> DEFINE at == DotsOf(t)
           value == Points!Split(t, Points!Dot)
<1>1. /\ t # <<>> /\ Len(value) = 4
      /\ \A i \in 1..4 : Points!is_digit_str(value[i]) /\ Points!Value(value[i]) <= 255
  BY DEF Points!is_effective_ipv4
<1>2. IsFiniteSet(at) /\ at \in SUBSET Nat /\ at \subseteq 1..Len(t)
  <2>1. Len(t) \in Nat /\ DOMAIN t = 1..Len(t)
    BY LenProperties
  <2>2. at \subseteq 1..Len(t)
    BY <2>1 DEF DotsOf
  <2>3. IsFiniteSet(1..Len(t))
    BY <2>1, FS_Interval
  <2> QED
    BY <2>1, <2>2, <2>3, FS_Subset
<1>3. Cardinality(at) = 3
  <2>1. Cardinality(at) \in Nat
    BY <1>2, FS_CardinalityType
  <2>2. DOMAIN value = 1..(Cardinality(at) + 1)
    BY PointsCount DEF Points!Split, DotsOf
  <2>3. \E f : value = [n \in 1..(Cardinality(at) + 1) |-> f[n]]
    <3> DEFINE f == [n \in 1..(Cardinality(at) + 1) |-> value[n]]
    <3>1. value = f
      BY PointsCount DEF Points!Split, DotsOf
    <3> QED
      BY <3>1
  <2>4. PICK n : n = Cardinality(at)
    OBVIOUS
  <2>5. n \in Nat /\ Len(value) = 4 /\ \E f : value = [k \in 1..(n + 1) |-> f[k]]
    BY <1>1, <2>1, <2>3, <2>4
  <2> HIDE DEF value, at
  <2>6. Len(value) = n + 1
    BY <2>5
  <2>7. n = 3
    BY <2>5, <2>6
  <2> QED
    BY <2>4, <2>7
<1>4. PICK a, b, c \in at : a < b /\ b < c /\ at = {a, b, c}
  BY <1>2, <1>3, ThreeFound
<1>5. Dotted(t, a, b, c)
  BY <1>2, <1>4 DEF Dotted
<1>6. value = [i \in 1..4 |-> PartOf(t, a, b, c, i)]
  BY <1>5, SplitOfFour
<1> HIDE DEF value
<1>7. ASSUME NEW i \in 1..4 PROVE value[i] \in Seq(Points!Digits) /\ value[i] # <<>>
  <2>1. value[i] \in Seq(Chars)
    BY <1>5, <1>6, PartsLie DEF Lies
  <2>2. value[i] # <<>> /\ \A k \in DOMAIN value[i] : value[i][k] \in Points!Digits
    BY <1>1 DEF Points!is_digit_str
  <2> QED
    BY <2>1, <2>2, DigitsOfPart
<1>8. Quartered(t, value)
  <2>1. Parts(t, value)
    BY <1>7 DEF Parts
  <2>2. value = [i \in 1..4 |-> value[i]]
    BY <1>6
  <2> QED
    BY <1>1, <1>5, <1>6, <2>1, <2>2 DEF Quartered
<1> DEFINE ip == [i \in 1..4 |-> Points!Value(value[i])]
<1>9. ASSUME NEW i \in 1..4 PROVE ip[i] = Points!Value(value[i]) /\ ip[i] \in Nat /\ ip[i] <= 255
  BY <1>1, <1>7, ValueType
<1>10. ip = [i \in 1..4 |-> ip[i]]
  OBVIOUS
<1> HIDE DEF ip
<1>11. IsAddress(ip)
  BY <1>9, <1>10 DEF IsAddress
<1>12. Denotes(t, ip)
  BY <1>8, <1>9, <1>11 DEF Denotes
<1> QED
  BY <1>12

LEMMA QuarteredSplit ==
  ASSUME NEW t, NEW p, Quartered(t, p) PROVE Points!Split(t, Points!Dot) = p
BY SplitOfFour DEF Quartered

\* What the texts denote, in either byte order.
LEMMA DenotedIsRead ==
  ASSUME NEW t, NEW ip, Denotes(t, ip)
  PROVE  /\ Points!is_effective_ipv4(t)
         /\ Points!ipv4tou(t, FALSE) = ip
         /\ Points!ByteOrderChanged(Points!ipv4tou(t, TRUE)) = ip
<1>1. PICK p : Quartered(t, p) /\ \A i \in 1..4 : Points!Value(p[i]) = ip[i]
  BY DEF Denotes
<1>2. p = [i \in 1..4 |-> p[i]] /\ Len(p) = 4 /\ DOMAIN p = 1..4
  BY <1>1 DEF Quartered
<1>3. Points!Split(t, Points!Dot) = p /\ t # <<>>
  BY <1>1, QuarteredSplit DEF Quartered
<1>4. \A i \in 1..4 : p[i] \in Seq(Points!Digits) /\ p[i] # <<>>
  BY <1>1 DEF Quartered, Parts
<1>5. \A i \in 1..4 : Points!is_digit_str(p[i]) /\ Points!Value(p[i]) <= 255
  <2>1. \A s \in Seq(Points!Digits) : s # <<>> => Points!is_digit_str(s)
    <3> SUFFICES ASSUME NEW s \in Seq(Points!Digits), s # <<>> PROVE Points!is_digit_str(s)
      OBVIOUS
    <3>1. \A k \in DOMAIN s : s[k] \in Points!Digits
      BY LenProperties, ElementOfSeq
    <3> QED
      BY <3>1 DEF Points!is_digit_str
  <2> QED
    BY <1>1, <1>4, <2>1 DEF Denotes, IsAddress
<1>6. Points!is_effective_ipv4(t)
  BY <1>2, <1>3, <1>5 DEF Points!is_effective_ipv4
<1> DEFINE tokens == {i \in DOMAIN p : p[i] # <<>>}
           bytes == [i \in 1..4 |-> IF i <= Cardinality(tokens) THEN Points!Value(p[Points!Nth(tokens, i)]) % 256 ELSE 0]
<1>7. tokens = 1..4
  BY <1>2, <1>4
<1>8. ASSUME NEW big
      PROVE  Points!ipv4tou(t, big) = IF big THEN Points!Reverse(bytes) ELSE bytes
  BY <1>3, PointsCount DEF Points!ipv4tou
<1>9. ASSUME NEW i \in 1..4
      PROVE  (IF i <= Cardinality(tokens) THEN Points!Value(p[Points!Nth(tokens, i)]) % 256 ELSE 0) = ip[i]
  <2>1. Cardinality(tokens) = 4 /\ Points!Nth(tokens, i) = i
    BY <1>7, NthOfFour
  <2> HIDE DEF tokens
  <2>2. Points!Value(p[i]) = ip[i] /\ ip[i] \in Nat /\ ip[i] <= 255
    BY <1>1 DEF Denotes, IsAddress
  <2>3. ip[i] % 256 = ip[i]
    BY <2>2
  <2> QED
    BY <2>1, <2>2, <2>3
<1>10. ip = [i \in 1..4 |-> ip[i]]
  BY DEF Denotes, IsAddress
<1>11. bytes = ip
  <2> HIDE DEF tokens
  <2>1. bytes = [i \in 1..4 |-> ip[i]]
    BY <1>9
  <2> QED
    BY <1>10, <2>1
<1> HIDE DEF bytes
<1>12. Points!ByteOrderChanged(Points!Reverse(ip)) = ip
  <2>1. Len(ip) = 4
    BY <1>10
  <2>2. Points!Reverse(ip) = [i \in 1..4 |-> ip[(4 - i) + 1]]
    BY <2>1 DEF Points!Reverse
  <2> DEFINE r == [i \in 1..4 |-> ip[(4 - i) + 1]]
  <2>3. Len(r) = 4 /\ \A i \in 1..4 : (4 - i) + 1 \in 1..4 /\ r[(4 - i) + 1] = ip[i]
    <3>1. \A i \in 1..4 : (4 - i) + 1 \in 1..4 /\ (4 - ((4 - i) + 1)) + 1 = i
      OBVIOUS
    <3> QED
      BY <3>1
  <2> HIDE DEF r
  <2>4. Points!ByteOrderChanged(r) = [i \in 1..4 |-> r[(4 - i) + 1]]
    BY <2>3 DEF Points!ByteOrderChanged, Points!Reverse
  <2>5. Points!ByteOrderChanged(r) = [i \in 1..4 |-> ip[i]]
    BY <2>3, <2>4
  <2> QED
    BY <1>10, <2>2, <2>5 DEF r
<1> QED
  BY <1>6, <1>8, <1>11, <1>12

-----------------------------------------------------------------------------
(* The text of an address denotes it. *)
\* In t, u comes after s.
Follows(t, s, u) ==
  /\ \A k \in 1..Len(s) : t[k] = s[k]
  /\ \A j \in 1..Len(u) : t[Len(s) + j] = u[j]

LEMMA JoinFollows == \A s, u \in Seq(Chars) : Follows(s \o u, s, u)
<1> SUFFICES ASSUME NEW s \in Seq(Chars), NEW u \in Seq(Chars) PROVE Follows(s \o u, s, u)
  OBVIOUS
<1>1. Len(s) \in Nat /\ Len(u) \in Nat
  BY LenProperties
<1>2. /\ Len(s \o u) = Len(s) + Len(u)
      /\ \A i \in 1..(Len(s) + Len(u)) : (s \o u)[i] = IF i <= Len(s) THEN s[i] ELSE u[i - Len(s)]
  BY ConcatProperties
<1>3. \A k \in 1..Len(s) : k \in 1..(Len(s) + Len(u)) /\ k <= Len(s)
  BY <1>1
<1>4. \A j \in 1..Len(u) : Len(s) + j \in 1..(Len(s) + Len(u)) /\ ~(Len(s) + j <= Len(s)) /\ (Len(s) + j) - Len(s) = j
  BY <1>1
<1> QED
  BY <1>2, <1>3, <1>4 DEF Follows

LEMMA FollowsBefore ==
  \A t, w, u : \A s, v \in Seq(Chars) :
    Follows(t, w, u) /\ Follows(w, s, v) /\ Len(w) = Len(s) + Len(v) => Follows(t, s, v)
<1> SUFFICES ASSUME NEW t, NEW w, NEW u, NEW s \in Seq(Chars), NEW v \in Seq(Chars),
                    Follows(t, w, u), Follows(w, s, v), Len(w) = Len(s) + Len(v)
             PROVE  Follows(t, s, v)
  OBVIOUS
<1>1. Len(s) \in Nat /\ Len(v) \in Nat
  BY LenProperties
<1>2. \A k \in 1..Len(s) : k \in 1..Len(w)
  BY <1>1
<1>3. \A j \in 1..Len(v) : Len(s) + j \in 1..Len(w)
  BY <1>1
<1> QED
  BY <1>2, <1>3 DEF Follows

LEMMA JoinedIs == \A s, u \in Seq(Chars) : s \o u \in Seq(Chars) /\ Len(s \o u) = Len(s) + Len(u) /\ Len(s) \in Nat
BY ConcatProperties, LenProperties

LEMMA DigitsAreChars == \A s \in Seq(Points!Digits) : s \in Seq(Chars)
<1>1. Points!Digits \subseteq Chars
  BY DEF Points!Digits, Chars, Points!Characters
<1> QED
  BY <1>1, SeqDef

LEMMA SymbolsAreChars == <<Points!Dot>> \in Seq(Chars) /\ <<Points!Colon>> \in Seq(Chars)
<1>1. Points!Dot \in Chars /\ Points!Colon \in Chars
  BY DEF Points!Dot, Points!Colon, Chars, Points!Characters
<1> QED
  BY <1>1

\* Four numbers with dots between them.
LaidOut(t, d1, d2, d3, d4) ==
  LET a == Len(d1) + 1
      b == a + Len(d2) + 1
      c == b + Len(d3) + 1
  IN  /\ t \in Seq(Chars) /\ Len(t) = c + Len(d4)
      /\ \A k \in 1..Len(d1) : t[k] = d1[k]
      /\ t[a] = Points!Dot /\ \A j \in 1..Len(d2) : t[a + j] = d2[j]
      /\ t[b] = Points!Dot /\ \A j \in 1..Len(d3) : t[b + j] = d3[j]
      /\ t[c] = Points!Dot /\ \A j \in 1..Len(d4) : t[c + j] = d4[j]

LEMMA FourNumbers ==
  ASSUME NEW d1 \in Seq(Points!Digits), NEW d2 \in Seq(Points!Digits),
         NEW d3 \in Seq(Points!Digits), NEW d4 \in Seq(Points!Digits)
  PROVE  LaidOut(d1 \o <<Points!Dot>> \o d2 \o <<Points!Dot>> \o d3 \o <<Points!Dot>> \o d4, d1, d2, d3, d4)
<1> DEFINE s1 == d1
           s2 == s1 \o <<Points!Dot>>
           s3 == s2 \o d2
           s4 == s3 \o <<Points!Dot>>
           s5 == s4 \o d3
           s6 == s5 \o <<Points!Dot>>
           t == s6 \o d4
           a == Len(d1) + 1
           b == a + Len(d2) + 1
           c == b + Len(d3) + 1
<1>1. /\ d1 \in Seq(Chars) /\ d2 \in Seq(Chars) /\ d3 \in Seq(Chars) /\ d4 \in Seq(Chars)
      /\ Len(d1) \in Nat /\ Len(d2) \in Nat /\ Len(d3) \in Nat /\ Len(d4) \in Nat
  BY DigitsAreChars, LenProperties
<1>2. <<Points!Dot>> \in Seq(Chars) /\ Len(<<Points!Dot>>) = 1 /\ <<Points!Dot>>[1] = Points!Dot /\ 1 \in 1..1
  BY SymbolsAreChars
<1>3. t = d1 \o <<Points!Dot>> \o d2 \o <<Points!Dot>> \o d3 \o <<Points!Dot>> \o d4
  OBVIOUS
<1> HIDE DEF s2, s3, s4, s5, s6, t
<1>4. s2 \in Seq(Chars) /\ Len(s2) = Len(s1) + Len(<<Points!Dot>>)
  BY <1>1, <1>2, JoinedIs DEF s2
<1>5. s3 \in Seq(Chars) /\ Len(s3) = Len(s2) + Len(d2)
  BY <1>1, <1>2, <1>4, JoinedIs DEF s3
<1>6. s4 \in Seq(Chars) /\ Len(s4) = Len(s3) + Len(<<Points!Dot>>)
  BY <1>1, <1>2, <1>5, JoinedIs DEF s4
<1>7. s5 \in Seq(Chars) /\ Len(s5) = Len(s4) + Len(d3)
  BY <1>1, <1>2, <1>6, JoinedIs DEF s5
<1>8. s6 \in Seq(Chars) /\ Len(s6) = Len(s5) + Len(<<Points!Dot>>)
  BY <1>1, <1>2, <1>7, JoinedIs DEF s6
<1>9. t \in Seq(Chars) /\ Len(t) = Len(s6) + Len(d4)
  BY <1>1, <1>8, JoinedIs DEF t
<1>10. /\ Len(s2) = a /\ Len(s3) = a + Len(d2) /\ Len(s4) = b /\ Len(s5) = b + Len(d3) /\ Len(s6) = c
       /\ Len(t) = c + Len(d4)
       /\ a \in Nat /\ b \in Nat /\ c \in Nat
  BY <1>1, <1>2, <1>4, <1>5, <1>6, <1>7, <1>8, <1>9
<1>91. /\ t \in Seq(Chars) /\ s1 \in Seq(Chars) /\ s2 \in Seq(Chars) /\ s3 \in Seq(Chars)
       /\ s4 \in Seq(Chars) /\ s5 \in Seq(Chars) /\ s6 \in Seq(Chars) /\ <<Points!Dot>> \in Seq(Chars)
       /\ d1 \in Seq(Chars) /\ d2 \in Seq(Chars) /\ d3 \in Seq(Chars) /\ d4 \in Seq(Chars)
  BY <1>1, <1>2, <1>4, <1>5, <1>6, <1>7, <1>8, <1>9
<1>11. Follows(t, s6, d4)
  BY <1>91, JoinFollows DEF t
<1>12. Follows(t, s5, <<Points!Dot>>)
  <2>1. Follows(s6, s5, <<Points!Dot>>)
    BY <1>91, JoinFollows DEF s6
  <2>2. Len(s6) = Len(s5) + Len(<<Points!Dot>>)
    BY <1>8
  <2> QED
    BY <1>91, <1>11, <2>1, <2>2, FollowsBefore
<1>13. Follows(t, s4, d3)
  <2>1. Follows(s5, s4, d3)
    BY <1>91, JoinFollows DEF s5
  <2>2. Len(s5) = Len(s4) + Len(d3)
    BY <1>7
  <2> QED
    BY <1>91, <1>12, <2>1, <2>2, FollowsBefore
<1>14. Follows(t, s3, <<Points!Dot>>)
  <2>1. Follows(s4, s3, <<Points!Dot>>)
    BY <1>91, JoinFollows DEF s4
  <2>2. Len(s4) = Len(s3) + Len(<<Points!Dot>>)
    BY <1>6
  <2> QED
    BY <1>91, <1>13, <2>1, <2>2, FollowsBefore
<1>15. Follows(t, s2, d2)
  <2>1. Follows(s3, s2, d2)
    BY <1>91, JoinFollows DEF s3
  <2>2. Len(s3) = Len(s2) + Len(d2)
    BY <1>5
  <2> QED
    BY <1>91, <1>14, <2>1, <2>2, FollowsBefore
<1>16. Follows(t, s1, <<Points!Dot>>)
  <2>1. Follows(s2, s1, <<Points!Dot>>)
    BY <1>91, JoinFollows DEF s2
  <2>2. Len(s2) = Len(s1) + Len(<<Points!Dot>>)
    BY <1>4
  <2> QED
    BY <1>91, <1>15, <2>1, <2>2, FollowsBefore
<1>17. /\ \A k \in 1..Len(d1) : t[k] = d1[k]
       /\ t[a] = Points!Dot /\ \A j \in 1..Len(d2) : t[a + j] = d2[j]
       /\ t[b] = Points!Dot /\ \A j \in 1..Len(d3) : t[b + j] = d3[j]
       /\ t[c] = Points!Dot /\ \A j \in 1..Len(d4) : t[c + j] = d4[j]
  <2>1. t[Len(s1) + 1] = Points!Dot /\ t[Len(s3) + 1] = Points!Dot /\ t[Len(s5) + 1] = Points!Dot
    BY <1>2, <1>16, <1>14, <1>12 DEF Follows
  <2> QED
    BY <1>10, <1>11, <1>13, <1>15, <1>16, <2>1 DEF Follows
<1>18. LaidOut(t, d1, d2, d3, d4)
  BY <1>9, <1>10, <1>17 DEF LaidOut
<1> QED
  BY <1>3, <1>18

LEMMA Quarters ==
  ASSUME NEW d1 \in Seq(Points!Digits), NEW d2 \in Seq(Points!Digits),
         NEW d3 \in Seq(Points!Digits), NEW d4 \in Seq(Points!Digits),
         d1 # <<>>, d2 # <<>>, d3 # <<>>, d4 # <<>>,
         NEW t, LaidOut(t, d1, d2, d3, d4)
  PROVE  /\ Quartered(t, <<d1, d2, d3, d4>>)
         /\ Len(t) = Len(d1) + Len(d2) + Len(d3) + Len(d4) + 3
<1> DEFINE a == Len(d1) + 1
           b == a + Len(d2) + 1
           c == b + Len(d3) + 1
<1>1. /\ d1 \in Seq(Chars) /\ d2 \in Seq(Chars) /\ d3 \in Seq(Chars) /\ d4 \in Seq(Chars)
      /\ Len(d1) \in Nat \ {0} /\ Len(d2) \in Nat \ {0} /\ Len(d3) \in Nat \ {0} /\ Len(d4) \in Nat \ {0}
  BY DigitsAreChars, LenProperties, EmptySeq
<1>9. t \in Seq(Chars)
  BY DEF LaidOut
<1>10. /\ Len(t) = c + Len(d4)
       /\ a \in Nat /\ b \in Nat /\ c \in Nat
  BY <1>1 DEF LaidOut
<1>17. /\ \A k \in 1..Len(d1) : t[k] = d1[k]
       /\ t[a] = Points!Dot /\ \A j \in 1..Len(d2) : t[a + j] = d2[j]
       /\ t[b] = Points!Dot /\ \A j \in 1..Len(d3) : t[b + j] = d3[j]
       /\ t[c] = Points!Dot /\ \A j \in 1..Len(d4) : t[c + j] = d4[j]
  BY DEF LaidOut
<1>18. \A d \in Seq(Points!Digits) : \A k \in 1..Len(d) : d[k] # Points!Dot
  BY DigitsAre DEF Points!Dot
<1>19. \A k \in 1..Len(t) : t[k] = Points!Dot => k \in {a, b, c}
  <2> HIDE DEF a, b, c
  <2> SUFFICES ASSUME NEW k \in 1..Len(t), k # a, k # b, k # c PROVE t[k] # Points!Dot
    OBVIOUS
  <2>0. k \in Nat /\ 1 <= k /\ k <= c + Len(d4) /\ a = Len(d1) + 1 /\ b = a + Len(d2) + 1 /\ c = b + Len(d3) + 1
    BY <1>10 DEF a, b, c
  <2>1. CASE k < a
    <3>1. k \in 1..Len(d1)
      BY <1>1, <2>0, <2>1
    <3> QED
      BY <1>17, <1>18, <3>1
  <2>2. CASE k > a /\ k < b
    <3>1. k - a \in 1..Len(d2) /\ a + (k - a) = k
      BY <1>1, <1>10, <2>0, <2>2
    <3>2. t[a + (k - a)] = d2[k - a]
      BY <1>17, <3>1
    <3> QED
      BY <1>18, <3>1, <3>2
  <2>3. CASE k > b /\ k < c
    <3>1. k - b \in 1..Len(d3) /\ b + (k - b) = k
      BY <1>1, <1>10, <2>0, <2>3
    <3>2. t[b + (k - b)] = d3[k - b]
      BY <1>17, <3>1
    <3> QED
      BY <1>18, <3>1, <3>2
  <2>4. CASE k > c
    <3>1. k - c \in 1..Len(d4) /\ c + (k - c) = k
      BY <1>1, <1>10, <2>0, <2>4
    <3>2. t[c + (k - c)] = d4[k - c]
      BY <1>17, <3>1
    <3> QED
      BY <1>18, <3>1, <3>2
  <2> QED
    BY <1>10, <2>0, <2>1, <2>2, <2>3, <2>4
<1>20. /\ a \in 1..Len(t) /\ b \in 1..Len(t) /\ c \in 1..Len(t) /\ a < b /\ b < c
  BY <1>1, <1>10
<1>21. Dotted(t, a, b, c)
  <2>1. DOMAIN t = 1..Len(t)
    BY <1>9, LenProperties
  <2> HIDE DEF a, b, c
  <2>2. DotsOf(t) = {a, b, c}
    BY <1>17, <1>19, <1>20, <2>1 DEF DotsOf
  <2> QED
    BY <1>20, <2>2 DEF Dotted
<1> DEFINE p == <<d1, d2, d3, d4>>
<1>22. ASSUME NEW i \in 1..4 PROVE PartOf(t, a, b, c, i) = p[i]
  <2>0. i = 1 \/ i = 2 \/ i = 3 \/ i = 4
    OBVIOUS
  <2>a. a = Len(d1) + 1 /\ b = a + Len(d2) + 1 /\ c = b + Len(d3) + 1
    OBVIOUS
  <2> HIDE DEF a, b, c
  <2> DEFINE part == PartOf(t, a, b, c, i)
             from == Begin(a, b, c, i)
             upto == End(t, a, b, c, i)
  <2>b. /\ part \in Seq(Chars)
        /\ Len(part) = IF from <= upto THEN upto - from + 1 ELSE 0
        /\ \A j \in 1..(upto - from + 1) : part[j] = t[from + j - 1]
    <3> HIDE DEF part, from, upto
    <3>1. Lies(t, from, upto, part)
      BY <1>9, <1>21, PartsLie DEF part, from, upto
    <3> QED
      BY <3>1 DEF Lies
  <2> HIDE DEF part
  <2>1. CASE i = 1
    <3>1. p[i] = d1 /\ d1 \in Seq(Chars) /\ Len(d1) \in Nat /\ Len(d1) > 0
      BY <1>1, <2>1
    <3>2. from = 1 /\ upto = a - 1
      BY <2>1 DEF Begin, End
    <3> HIDE DEF from, upto
    <3>3. from <= upto /\ upto - from + 1 = Len(d1)
      BY <1>1, <1>10, <2>a, <3>2
    <3>4. Len(part) = Len(d1)
      BY <2>b, <3>3
    <3>5. ASSUME NEW k \in 1..Len(d1) PROVE part[k] = d1[k]
      <4>1. part[k] = t[from + k - 1]
        BY <2>b, <3>3
      <4>2. from + k - 1 = k
        BY <1>1, <1>10, <3>1, <3>2
      <4> QED
        BY <1>17, <4>1, <4>2
    <3>6. part \in Seq(Chars) /\ d1 \in Seq(Chars)
      BY <2>b, <3>1
    <3>7. part = d1
      BY <3>4, <3>5, <3>6, SeqEqual
    <3> QED
      BY <3>1, <3>7 DEF part
  <2>2. CASE i = 2
    <3>1. p[i] = d2 /\ d2 \in Seq(Chars) /\ Len(d2) \in Nat /\ Len(d2) > 0
      BY <1>1, <2>2
    <3>2. from = a + 1 /\ upto = b - 1
      BY <2>2 DEF Begin, End
    <3> HIDE DEF from, upto
    <3>3. from <= upto /\ upto - from + 1 = Len(d2)
      BY <1>1, <1>10, <2>a, <3>2
    <3>4. Len(part) = Len(d2)
      BY <2>b, <3>3
    <3>5. ASSUME NEW k \in 1..Len(d2) PROVE part[k] = d2[k]
      <4>1. part[k] = t[from + k - 1]
        BY <2>b, <3>3
      <4>2. from + k - 1 = a + k
        BY <1>1, <1>10, <3>1, <3>2
      <4> QED
        BY <1>17, <4>1, <4>2
    <3>6. part \in Seq(Chars) /\ d2 \in Seq(Chars)
      BY <2>b, <3>1
    <3>7. part = d2
      BY <3>4, <3>5, <3>6, SeqEqual
    <3> QED
      BY <3>1, <3>7 DEF part
  <2>3. CASE i = 3
    <3>1. p[i] = d3 /\ d3 \in Seq(Chars) /\ Len(d3) \in Nat /\ Len(d3) > 0
      BY <1>1, <2>3
    <3>2. from = b + 1 /\ upto = c - 1
      BY <2>3 DEF Begin, End
    <3> HIDE DEF from, upto
    <3>3. from <= upto /\ upto - from + 1 = Len(d3)
      BY <1>1, <1>10, <2>a, <3>2
    <3>4. Len(part) = Len(d3)
      BY <2>b, <3>3
    <3>5. ASSUME NEW k \in 1..Len(d3) PROVE part[k] = d3[k]
      <4>1. part[k] = t[from + k - 1]
        BY <2>b, <3>3
      <4>2. from + k - 1 = b + k
        BY <1>1, <1>10, <3>1, <3>2
      <4> QED
        BY <1>17, <4>1, <4>2
    <3>6. part \in Seq(Chars) /\ d3 \in Seq(Chars)
      BY <2>b, <3>1
    <3>7. part = d3
      BY <3>4, <3>5, <3>6, SeqEqual
    <3> QED
      BY <3>1, <3>7 DEF part
  <2>4. CASE i = 4
    <3>1. p[i] = d4 /\ d4 \in Seq(Chars) /\ Len(d4) \in Nat /\ Len(d4) > 0
      BY <1>1, <2>4
    <3>2. from = c + 1 /\ upto = Len(t)
      BY <2>4 DEF Begin, End
    <3> HIDE DEF from, upto
    <3>3. from <= upto /\ upto - from + 1 = Len(d4)
      BY <1>1, <1>10, <2>a, <3>2
    <3>4. Len(part) = Len(d4)
      BY <2>b, <3>3
    <3>5. ASSUME NEW k \in 1..Len(d4) PROVE part[k] = d4[k]
      <4>1. part[k] = t[from + k - 1]
        BY <2>b, <3>3
      <4>2. from + k - 1 = c + k
        BY <1>1, <1>10, <3>1, <3>2
      <4> QED
        BY <1>17, <4>1, <4>2
    <3>6. part \in Seq(Chars) /\ d4 \in Seq(Chars)
      BY <2>b, <3>1
    <3>7. part = d4
      BY <3>4, <3>5, <3>6, SeqEqual
    <3> QED
      BY <3>1, <3>7 DEF part
  <2> QED
    BY <2>0, <2>1, <2>2, <2>3, <2>4
<1>23. p = [i \in 1..4 |-> p[i]] /\ \A i \in 1..4 : p[i] \in Seq(Points!Digits) /\ p[i] # <<>>
  <2>1. p[1] = d1 /\ p[2] = d2 /\ p[3] = d3 /\ p[4] = d4
    OBVIOUS
  <2>2. p = [i \in 1..4 |-> p[i]]
    OBVIOUS
  <2> HIDE DEF p
  <2>3. \A i \in 1..4 : i = 1 \/ i = 2 \/ i = 3 \/ i = 4
    OBVIOUS
  <2> QED
    BY <2>1, <2>2, <2>3
<1> HIDE DEF p, a, b, c
<1>24. p = [i \in 1..4 |-> PartOf(t, a, b, c, i)]
  BY <1>22, <1>23
<1>25. t # <<>>
  BY <1>20
<1>26. Quartered(t, p)
  BY <1>9, <1>21, <1>23, <1>24, <1>25 DEF Quartered, Parts
<1>27. Len(t) = Len(d1) + Len(d2) + Len(d3) + Len(d4) + 3
  BY <1>1, <1>10 DEF a, b, c
<1> QED
  BY <1>26, <1>27 DEF p

LEMMA TextDenotes ==
  ASSUME NEW ip, IsAddress(ip) PROVE Denotes(Points!ipv4tos(ip, 16), ip)
<1>1. ASSUME NEW i \in 1..4 PROVE IsDecimal(Points!Decimal(ip[i]), ip[i]) /\ ip[i] \in Nat /\ ip[i] <= 255
  <2>1. ip[i] \in Nat /\ ip[i] <= 255
    BY DEF IsAddress
  <2>2. ip[i] <= 65535
    BY <2>1
  <2> QED
    BY <2>1, <2>2, DecimalIs
<1>2. ASSUME NEW i \in 1..4
      PROVE  LET d == Points!Decimal(ip[i])
             IN  d \in Seq(Points!Digits) /\ Len(d) \in 1..3 /\ d # <<>> /\ Points!Value(d) = ip[i]
  <2>1. PICK d : d = Points!Decimal(ip[i])
    OBVIOUS
  <2>2. d \in Seq(Points!Digits) /\ Len(d) \in 1..5 /\ Points!Value(d) = ip[i] /\ Len(d) <= 3
    BY <1>1, <2>1 DEF IsDecimal
  <2>3. PICK n : n = Len(d)
    OBVIOUS
  <2>4. n \in 1..3 /\ n # 0
    BY <2>2, <2>3
  <2>5. d # <<>>
    BY <2>3, <2>4
  <2> QED
    BY <2>1, <2>2, <2>3, <2>4, <2>5
<1>3. PICK d1, d2, d3, d4 :
        d1 = Points!Decimal(ip[1]) /\ d2 = Points!Decimal(ip[2]) /\ d3 = Points!Decimal(ip[3]) /\ d4 = Points!Decimal(ip[4])
  OBVIOUS
<1>4. /\ d1 \in Seq(Points!Digits) /\ Len(d1) \in 1..3 /\ d1 # <<>> /\ Points!Value(d1) = ip[1]
      /\ d2 \in Seq(Points!Digits) /\ Len(d2) \in 1..3 /\ d2 # <<>> /\ Points!Value(d2) = ip[2]
      /\ d3 \in Seq(Points!Digits) /\ Len(d3) \in 1..3 /\ d3 # <<>> /\ Points!Value(d3) = ip[3]
      /\ d4 \in Seq(Points!Digits) /\ Len(d4) \in 1..3 /\ d4 # <<>> /\ Points!Value(d4) = ip[4]
  <2>1. 1 \in 1..4 /\ 2 \in 1..4 /\ 3 \in 1..4 /\ 4 \in 1..4
    OBVIOUS
  <2> QED
    BY <1>2, <1>3, <2>1
<1>5. PICK t : t = d1 \o <<Points!Dot>> \o d2 \o <<Points!Dot>> \o d3 \o <<Points!Dot>> \o d4 /\ LaidOut(t, d1, d2, d3, d4)
  BY <1>4, FourNumbers
<1>6. Quartered(t, <<d1, d2, d3, d4>>) /\ Len(t) = Len(d1) + Len(d2) + Len(d3) + Len(d4) + 3
  <2>1. /\ d1 \in Seq(Points!Digits) /\ d2 \in Seq(Points!Digits) /\ d3 \in Seq(Points!Digits) /\ d4 \in Seq(Points!Digits)
        /\ d1 # <<>> /\ d2 # <<>> /\ d3 # <<>> /\ d4 # <<>>
    BY <1>4
  <2> QED
    BY <1>5, <2>1, Quarters
<1>7. t \in Seq(Chars) /\ Len(t) \in Nat /\ Len(t) < 16
  <2>1. t \in Seq(Chars)
    BY <1>6 DEF Quartered
  <2>2. Len(t) \in Nat
    BY <2>1, LenProperties
  <2>3. PICK n1, n2, n3, n4 : n1 = Len(d1) /\ n2 = Len(d2) /\ n3 = Len(d3) /\ n4 = Len(d4)
    OBVIOUS
  <2>4. n1 \in 1..3 /\ n2 \in 1..3 /\ n3 \in 1..3 /\ n4 \in 1..3
    BY <1>4, <2>3
  <2>5. Len(t) = n1 + n2 + n3 + n4 + 3
    BY <1>6, <2>3
  <2> QED
    BY <2>1, <2>2, <2>4, <2>5
<1>8. Points!ipv4tos(ip, 16) = t
  <2>1. Points!ipv4tos(ip, 16) = SubSeq(t, 1, IF Len(t) < 16 THEN Len(t) ELSE 16 - 1)
    BY <1>3, <1>5 DEF Points!ipv4tos
  <2> QED
    BY <1>7, <2>1, SubSeqFull
<1>9. \A i \in 1..4 : Points!Value(<<d1, d2, d3, d4>>[i]) = ip[i]
  <2>1. \A i \in 1..4 : i = 1 \/ i = 2 \/ i = 3 \/ i = 4
    OBVIOUS
  <2> QED
    BY <1>4, <2>1
<1> QED
  BY <1>6, <1>8, <1>9 DEF Denotes

-----------------------------------------------------------------------------
(* What the checks and parsers answer for such a text. *)
\* There are three dots in it, and digits.
LEMMA QuarteredChars ==
  ASSUME NEW t, NEW p, Quartered(t, p)
  PROVE  \A k \in 1..Len(t) : t[k] \in Points!Digits \cup {Points!Dot}
<1>1. PICK a, b, c : Dotted(t, a, b, c) /\ p = [i \in 1..4 |-> PartOf(t, a, b, c, i)]
  BY DEF Quartered
<1>2. t \in Seq(Chars) /\ \A i \in 1..4 : p[i] \in Seq(Points!Digits)
  BY DEF Quartered, Parts
<1>3. /\ a \in Int /\ b \in Int /\ c \in Int /\ Len(t) \in Nat
      /\ t[a] = Points!Dot /\ t[b] = Points!Dot /\ t[c] = Points!Dot
      /\ 1 <= a /\ a < b /\ b < c /\ c <= Len(t)
  <2>1. Len(t) \in Nat
    BY <1>2, LenProperties
  <2> QED
    BY <1>1, <2>1 DEF Dotted, DotsOf
<1>4. \A i \in 1..4 : Lies(t, Begin(a, b, c, i), End(t, a, b, c, i), p[i])
  BY <1>1, <1>2, PartsLie
<1> SUFFICES ASSUME NEW k \in 1..Len(t), k # a, k # b, k # c PROVE t[k] \in Points!Digits
  BY <1>3
<1>5. \E i \in 1..4 : Begin(a, b, c, i) \in Int /\ End(t, a, b, c, i) \in Int /\ Begin(a, b, c, i) <= k /\ k <= End(t, a, b, c, i)
  <2>1. k < a \/ (a < k /\ k < b) \/ (b < k /\ k < c) \/ c < k
    BY <1>3
  <2>2. CASE k < a
    <3>1. Begin(a, b, c, 1) = 1 /\ End(t, a, b, c, 1) = a - 1
      BY DEF Begin, End
    <3> QED
      BY <1>3, <2>2, <3>1
  <2>3. CASE a < k /\ k < b
    <3>1. Begin(a, b, c, 2) = a + 1 /\ End(t, a, b, c, 2) = b - 1
      BY DEF Begin, End
    <3> QED
      BY <1>3, <2>3, <3>1
  <2>4. CASE b < k /\ k < c
    <3>1. Begin(a, b, c, 3) = b + 1 /\ End(t, a, b, c, 3) = c - 1
      BY DEF Begin, End
    <3> QED
      BY <1>3, <2>4, <3>1
  <2>5. CASE c < k
    <3>1. Begin(a, b, c, 4) = c + 1 /\ End(t, a, b, c, 4) = Len(t)
      BY DEF Begin, End
    <3> QED
      BY <1>3, <2>5, <3>1
  <2> QED
    BY <2>1, <2>2, <2>3, <2>4, <2>5
<1>6. PICK i \in 1..4, first, final \in Int :
        first \in Int /\ first <= k /\ k <= final /\ Lies(t, first, final, p[i])
  BY <1>4, <1>5
<1>7. k - first + 1 \in 1..(final - first + 1) /\ first + (k - first + 1) - 1 = k /\ first <= final
  BY <1>6
<1>8. p[i][k - first + 1] = t[k] /\ Len(p[i]) = final - first + 1
  BY <1>6, <1>7 DEF Lies
<1>9. p[i] \in Seq(Points!Digits) /\ k - first + 1 \in 1..Len(p[i])
  BY <1>2, <1>7, <1>8
<1> QED
  BY <1>8, <1>9, ElementOfSeq

\* A text whose parts are short passes the other check as well.
LEMMA ShortIsEffective ==
  ASSUME NEW t, NEW ip, Denotes(t, ip), \A part \in Points!Range(Points!Split(t, Points!Dot)) : Len(part) <= 3
  PROVE  Points!is_effective_address_v4(t)
<1>1. PICK p : Quartered(t, p) /\ \A i \in 1..4 : Points!Value(p[i]) = ip[i]
  BY DEF Denotes
<1>2. p = [i \in 1..4 |-> p[i]] /\ Len(p) = 4 /\ DOMAIN p = 1..4
  BY <1>1 DEF Quartered
<1>3. Points!Split(t, Points!Dot) = p
  BY <1>1, QuarteredSplit
<1>4. \A i \in 1..4 : p[i] \in Seq(Points!Digits) /\ p[i] # <<>> /\ Len(p[i]) <= 3 /\ Len(p[i]) \in Nat
  <2>1. \A i \in 1..4 : p[i] \in Points!Range(p)
    BY <1>2 DEF Points!Range
  <2>2. \A i \in 1..4 : p[i] \in Seq(Points!Digits) /\ p[i] # <<>>
    BY <1>1 DEF Quartered, Parts
  <2> QED
    BY <1>3, <2>1, <2>2, LenProperties
<1>5. t \in Seq(Chars) /\ Len(t) \in Nat /\ DOMAIN t = 1..Len(t)
  BY <1>1, LenProperties DEF Quartered
<1>6. Len(t) <= 15
  <2>1. PICK a, b, c : Dotted(t, a, b, c) /\ p = [i \in 1..4 |-> PartOf(t, a, b, c, i)]
    BY <1>1 DEF Quartered
  <2>2. a \in Int /\ b \in Int /\ c \in Int /\ 1 <= a /\ a < b /\ b < c /\ c <= Len(t)
    BY <1>5, <2>1 DEF Dotted
  <2>3. \A i \in 1..4 : Lies(t, Begin(a, b, c, i), End(t, a, b, c, i), p[i])
    BY <1>5, <2>1, PartsLie
  <2>4. /\ Begin(a, b, c, 1) = 1 /\ End(t, a, b, c, 1) = a - 1
        /\ Begin(a, b, c, 2) = a + 1 /\ End(t, a, b, c, 2) = b - 1
        /\ Begin(a, b, c, 3) = b + 1 /\ End(t, a, b, c, 3) = c - 1
        /\ Begin(a, b, c, 4) = c + 1 /\ End(t, a, b, c, 4) = Len(t)
    BY DEF Begin, End
  <2>5. Lies(t, 1, a - 1, p[1]) /\ Lies(t, a + 1, b - 1, p[2]) /\ Lies(t, b + 1, c - 1, p[3]) /\ Lies(t, c + 1, Len(t), p[4])
    BY <2>3, <2>4
  <2>6. \A first, final \in Int : \A part : Lies(t, first, final, part) /\ Len(part) <= 3 => final - first <= 2
    BY DEF Lies
  <2>7. a - 1 \in Int /\ a + 1 \in Int /\ b - 1 \in Int /\ b + 1 \in Int /\ c - 1 \in Int /\ c + 1 \in Int /\ Len(t) \in Int /\ 1 \in Int
    BY <1>5, <2>2
  <2>8. Len(p[1]) <= 3 /\ Len(p[2]) <= 3 /\ Len(p[3]) <= 3 /\ Len(p[4]) <= 3
    BY <1>4
  <2>9. /\ (a - 1) - 1 <= 2 /\ (b - 1) - (a + 1) <= 2
        /\ (c - 1) - (b + 1) <= 2 /\ Len(t) - (c + 1) <= 2
    BY <2>5, <2>6, <2>7, <2>8
  <2> QED
    BY <1>5, <2>2, <2>9
<1>7. \A i \in 1..3 : Points!Value(p[i]) <= 255
  BY <1>1 DEF Denotes, IsAddress
<1>8. \A k \in DOMAIN t : t[k] \in Points!Digits \cup {Points!Dot}
  BY <1>1, <1>5, QuarteredChars
<1> QED
  BY <1>2, <1>3, <1>4, <1>6, <1>7, <1>8 DEF Points!is_effective_address_v4

\* The text of an endpoint is parsed back to it.
LEMMA ParsedBack ==
  ASSUME NEW t, NEW ip, Denotes(t, ip), NEW port \in Nat,
         port < Points!INVALID_TCPIP_PORT_NUMBER, IsDecimal(Points!Decimal(port), port)
  PROVE  Points!parse_ep(t \o <<Points!Colon>> \o Points!Decimal(port)) = {[ipv4 |-> t, port |-> port]}
<1>0. Points!is_effective_ipv4(t)
  BY DenotedIsRead
<1>1. PICK d : d = Points!Decimal(port)
  OBVIOUS
<1>2. /\ d \in Seq(Points!Digits) /\ Len(d) \in 1..5 /\ Points!Value(d) = port
      /\ Len(d) > 1 => d[1] # 0
  BY <1>1 DEF IsDecimal
<1>3. PICK p : Quartered(t, p)
  BY DEF Denotes
<1>4. t \in Seq(Chars) /\ t # <<>> /\ Len(t) \in Nat /\ Len(t) > 0
  BY <1>3, LenProperties, EmptySeq DEF Quartered
<1>5. d \in Seq(Chars) /\ Len(d) \in Nat /\ Len(d) > 0
  <2>1. PICK n : n = Len(d)
    OBVIOUS
  <2>2. n \in Nat /\ n > 0
    BY <1>2, <2>1
  <2>3. d \in Seq(Chars)
    BY <1>2, DigitsAreChars
  <2> QED
    BY <2>1, <2>2, <2>3
<1> DEFINE w == t \o <<Points!Colon>>
           text == w \o d
<1>6. w \in Seq(Chars) /\ Len(w) = Len(t) + 1
  <2>1. <<Points!Colon>> \in Seq(Chars) /\ Len(<<Points!Colon>>) = 1
    BY SymbolsAreChars
  <2> QED
    BY <1>4, <2>1, JoinedIs
<1>7. text \in Seq(Chars) /\ Len(text) = Len(w) + Len(d)
  <2> HIDE DEF w
  <2> QED
    BY <1>5, <1>6, JoinedIs
<1>8. Follows(w, t, <<Points!Colon>>)
  <2>1. t \in Seq(Chars) /\ <<Points!Colon>> \in Seq(Chars)
    BY <1>4, SymbolsAreChars
  <2> HIDE DEF text, w
  <2> QED
    BY <2>1, JoinFollows DEF w
<1>9. Follows(text, w, d)
  <2> HIDE DEF w
  <2> QED
    BY <1>5, <1>6, JoinFollows
<1> HIDE DEF w, text
<1>10. /\ \A k \in 1..Len(t) : text[k] = t[k]
       /\ text[Len(t) + 1] = Points!Colon
       /\ \A j \in 1..Len(d) : text[Len(t) + 1 + j] = d[j]
  <2>1. \A k \in 1..Len(t) : k \in 1..Len(w)
    BY <1>4, <1>6
  <2>2. Len(t) + 1 \in 1..Len(w)
    BY <1>4, <1>6
  <2>3. w[Len(t) + 1] = Points!Colon
    <3>1. Len(<<Points!Colon>>) = 1 /\ <<Points!Colon>>[1] = Points!Colon /\ 1 \in 1..1
      OBVIOUS
    <3> QED
      BY <1>8, <3>1 DEF Follows
  <2>4. \A k \in 1..Len(t) : w[k] = t[k]
    BY <1>8 DEF Follows
  <2> QED
    BY <1>6, <1>9, <2>1, <2>2, <2>3, <2>4 DEF Follows
<1>11. \A k \in 1..Len(t) : t[k] # Points!Colon
  BY <1>3, QuarteredChars DEF Points!Digits, Points!Dot, Points!Colon
<1>12. \A j \in 1..Len(d) : d[j] # Points!Colon /\ d[j] \in Points!Digits
  BY <1>2, ElementOfSeq DEF Points!Digits, Points!Colon
<1>13. DOMAIN text = 1..Len(text) /\ DOMAIN t = 1..Len(t) /\ DOMAIN d = 1..Len(d)
  BY <1>4, <1>5, <1>7, LenProperties
<1> DEFINE colons == {k \in DOMAIN text : text[k] = Points!Colon}
           loc == CHOOSE k \in colons : \A j \in colons : k <= j
           host == SubSeq(text, 1, loc - 1)
           rest == SubSeq(text, loc + 1, Len(text))
<1>14. colons = {Len(t) + 1}
  <2>1. ASSUME NEW k \in 1..Len(text), k # Len(t) + 1 PROVE text[k] # Points!Colon
    <3>1. CASE k <= Len(t)
      <4>1. k \in 1..Len(t)
        BY <1>4, <3>1
      <4> QED
        BY <1>10, <1>11, <4>1
    <3>2. CASE k > Len(t)
      <4>1. k - (Len(t) + 1) \in 1..Len(d) /\ Len(t) + 1 + (k - (Len(t) + 1)) = k
        BY <1>4, <1>5, <1>6, <1>7, <2>1, <3>2
      <4>2. text[Len(t) + 1 + (k - (Len(t) + 1))] = d[k - (Len(t) + 1)]
        BY <1>10, <4>1
      <4>3. d[k - (Len(t) + 1)] # Points!Colon
        BY <1>12, <4>1
      <4> QED
        BY <4>1, <4>2, <4>3
    <3> QED
      BY <1>4, <3>1, <3>2
  <2>2. Len(t) + 1 \in 1..Len(text)
    BY <1>4, <1>5, <1>6, <1>7
  <2> QED
    BY <1>10, <1>13, <2>1, <2>2
<1>15. loc = Len(t) + 1
  <2> HIDE DEF colons
  <2>1. \E k \in colons : \A j \in colons : k <= j
    BY <1>4, <1>14
  <2>2. loc \in colons
    BY <2>1
  <2> QED
    BY <1>14, <2>2
<1>16. host = t
  <2> HIDE DEF loc, colons
  <2>1. loc - 1 \in Int /\ loc - 1 = Len(t) /\ 1 <= loc - 1 /\ loc - 1 <= Len(text)
    BY <1>4, <1>5, <1>6, <1>7, <1>15
  <2>2. /\ host \in Seq(Chars) /\ Len(host) = Len(t)
        /\ \A i \in 1..Len(t) : host[i] = text[1 + i - 1]
    <3>1. 1 \in Int /\ (loc - 1) - 1 + 1 = Len(t)
      BY <1>4, <2>1
    <3> QED
      BY <1>7, <2>1, <3>1, PartIs
  <2>3. \A i \in 1..Len(t) : host[i] = t[i]
    <3>1. \A i \in 1..Len(t) : 1 + i - 1 = i
      BY <1>4
    <3> QED
      BY <1>10, <2>2, <3>1
  <2> HIDE DEF host
  <2> QED
    BY <1>4, <2>2, <2>3, SeqEqual
<1>17. rest = d
  <2> HIDE DEF loc, colons
  <2>1. loc + 1 \in Int /\ 1 <= loc + 1 /\ loc + 1 <= Len(text) /\ Len(text) \in Int /\ Len(text) - (loc + 1) + 1 = Len(d)
    BY <1>4, <1>5, <1>6, <1>7, <1>15
  <2>2. /\ rest \in Seq(Chars) /\ Len(rest) = Len(d)
        /\ \A i \in 1..Len(d) : rest[i] = text[(loc + 1) + i - 1]
    BY <1>7, <2>1, PartIs
  <2>3. \A i \in 1..Len(d) : (loc + 1) + i - 1 = Len(t) + 1 + i
    BY <1>4, <1>5, <1>15
  <2>4. \A i \in 1..Len(d) : rest[i] = d[i]
    BY <1>10, <2>2, <2>3
  <2> HIDE DEF rest
  <2> QED
    BY <1>5, <2>2, <2>4, SeqEqual
<1>18. Points!is_effective_port(d)
  <2>1. d # <<>>
    BY <1>2, ValueType, EmptySeq
  <2>2. Points!is_digit_str(d)
    BY <1>12, <1>13, <2>1 DEF Points!is_digit_str
  <2> QED
    BY <1>2, <2>2 DEF Points!is_effective_port
<1>20. t # None
  BY <1>4, EndpointsAssumption DEF Chars
<1>21. ~(colons = {} \/ loc = 1 \/ ~Points!is_effective_port(rest))
  <2> HIDE DEF colons, loc, rest
  <2> QED
    BY <1>4, <1>14, <1>15, <1>17, <1>18
<1>22. Points!parse_ep(text) =
         IF colons = {} \/ loc = 1 \/ ~Points!is_effective_port(rest) THEN {None}
         ELSE {IF x = None THEN None ELSE [ipv4 |-> x, port |-> Points!Value(rest)] :
                 x \in IF Points!is_effective_ipv4(host) THEN {host} ELSE Points!parse_domain(host)}
  BY DEF Points!parse_ep
<1> HIDE DEF colons, loc, host, rest
<1>23. Points!parse_ep(text) = {IF x = None THEN None ELSE [ipv4 |-> x, port |-> Points!Value(d)] : x \in {t}}
  BY <1>0, <1>16, <1>17, <1>21, <1>22
<1>24. Points!parse_ep(text) = {[ipv4 |-> t, port |-> port]}
  BY <1>2, <1>20, <1>23
<1> QED
  BY <1>1, <1>24 DEF text, w

\* The empty text, which is read as the address 0.
LEMMA NothingIsRead ==
  /\ Points!ipv4tou(<<>>, FALSE) = Points!Zero
  /\ Points!ByteOrderChanged(Points!ipv4tou(<<>>, TRUE)) = Points!Zero
<1> DEFINE s == Points!Split(<<>>, Points!Dot)
           tokens == {i \in DOMAIN s : s[i] # <<>>}
           bytes == [i \in 1..4 |-> IF i <= Cardinality(tokens) THEN Points!Value(s[Points!Nth(tokens, i)]) % 256 ELSE 0]
<1>1. tokens = {} /\ Cardinality(tokens) = 0
  BY SplitOfNothing, FS_EmptySet
<1>2. ASSUME NEW big
      PROVE  Points!ipv4tou(<<>>, big) = IF big THEN Points!Reverse(bytes) ELSE bytes
  BY PointsCount DEF Points!ipv4tou
<1> HIDE DEF s, tokens
<1>3. bytes = [i \in 1..4 |-> 0]
  BY <1>1
<1> HIDE DEF bytes
<1>4. Points!Zero = [i \in 1..4 |-> 0]
  BY DEF Points!Zero
<1> DEFINE zero == [i \in 1..4 |-> 0]
<1>5. Points!Reverse(zero) = zero
  <2>1. Len(zero) = 4 /\ \A i \in 1..4 : (4 - i) + 1 \in 1..4
    OBVIOUS
  <2>2. Points!Reverse(zero) = [i \in 1..4 |-> zero[(4 - i) + 1]]
    BY <2>1 DEF Points!Reverse
  <2> QED
    BY <2>1, <2>2
<1> HIDE DEF zero
<1>6. bytes = zero /\ Points!Zero = zero
  BY <1>3, <1>4 DEF zero
<1> QED
  BY <1>2, <1>5, <1>6 DEF Points!ByteOrderChanged

-----------------------------------------------------------------------------
(* Every object keeps a text that denotes its address, or neither; and a port
   of 16 bits once it is built. *)
Labelled(x) ==
  /\ x = [ipstr |-> x.ipstr, address |-> x.address, port |-> x.port]
  /\ (x.ipstr = <<>> /\ x.address = Points!Zero) \/ Denotes(x.ipstr, x.address)

Short(n) == n \in Nat /\ n <= 65535

Settled(x) == Labelled(x) /\ Short(x.port)

EndpointsKept ==
  /\ ep = [p \in Endpoints |-> ep[p]]
  /\ \A p \in Endpoints : ep[p] = Points!NoObject \/ Settled(ep[p])

LEMMA ShortIsDecimal == \A n : Short(n) => IsDecimal(Points!Decimal(n), n) /\ Points!Decimal(n) \in Seq(Chars)
<1>1. \A n : Short(n) => IsDecimal(Points!Decimal(n), n)
  BY DecimalIs DEF Short
<1> QED
  BY <1>1, DigitsAreChars DEF IsDecimal

LEMMA PortsAre == /\ \A n \in Ports : Short(n)
                  /\ Short(0) /\ Short(Points!INVALID_TCPIP_PORT_NUMBER) /\ ~Short(-1)
<1>1. \A n \in Ports : Short(n)
  BY EndpointsAssumption DEF Short
<1>2. Short(0) /\ ~Short(-1)
  BY DEF Short
<1>3. Short(Points!INVALID_TCPIP_PORT_NUMBER)
  BY DEF Short, Points!INVALID_TCPIP_PORT_NUMBER
<1> QED
  BY <1>1, <1>2, <1>3

LEMMA BelowInvalid == \A n : Short(n) /\ n # Points!INVALID_TCPIP_PORT_NUMBER => n < Points!INVALID_TCPIP_PORT_NUMBER
BY DEF Short, Points!INVALID_TCPIP_PORT_NUMBER

LEMMA AddressesAre ==
  /\ \A ip \in Addresses : IsAddress(ip)
  /\ IsAddress(Points!Zero) /\ IsAddress(Points!BOARDCAST_TCPIP_ADDRESS)
<1>1. \A ip \in [1..4 -> 0..255] : IsAddress(ip)
  <2> SUFFICES ASSUME NEW ip \in [1..4 -> 0..255] PROVE IsAddress(ip)
    OBVIOUS
  <2>1. \A n \in 0..255 : n \in Nat /\ n <= 255
    OBVIOUS
  <2> QED
    BY <2>1 DEF IsAddress
<1>2. Points!Zero \in [1..4 -> 0..255] /\ Points!BOARDCAST_TCPIP_ADDRESS \in [1..4 -> 0..255]
  BY DEF Points!Zero, Points!BOARDCAST_TCPIP_ADDRESS
<1> QED
  BY <1>1, <1>2, EndpointsAssumption

LEMMA TextIs ==
  ASSUME NEW ip, IsAddress(ip)
  PROVE  Denotes(Points!ipv4tos(ip, 16), ip) /\ Points!ipv4tos(ip, 16) \in Seq(Chars)
<1>1. Denotes(Points!ipv4tos(ip, 16), ip)
  BY TextDenotes
<1>2. \A t : Denotes(t, ip) => t \in Seq(Chars)
  BY DEF Denotes, Quartered
<1> QED
  BY <1>1, <1>2

LEMMA DomainIs ==
  \A domain : \A t \in Points!parse_domain(domain) : t = None \/ (t \in Seq(Chars) /\ \E ip : Denotes(t, ip))
<1>1. \A ip \in Addresses : Denotes(Points!ipv4tos(ip, 16), ip) /\ Points!ipv4tos(ip, 16) \in Seq(Chars)
  BY AddressesAre, TextIs
<1> QED
  BY <1>1 DEF Points!parse_domain

\* The setters.
LEMMA WithTextKeeps ==
  ASSUME NEW e, Labelled(e), NEW text \in Seq(Chars), NEW x \in Points!WithText(e, text)
  PROVE  Labelled(x) /\ x.port = e.port
<1>1. CASE x = e
  BY <1>1
<1>2. CASE x # e
  <2> DEFINE found == IF Points!is_effective_ipv4(text) THEN {text} ELSE Points!parse_domain(text)
             texts == {t \in found : t = None \/ Points!Fits(t)}
  <2>1. text # <<>> /\ \E t \in texts : t # None /\ x = [e EXCEPT !.ipstr = t, !.address = Points!ipv4tou(t, FALSE)]
    BY <1>2 DEF Points!WithText
  <2>2. PICK t \in texts : t # None /\ x = [e EXCEPT !.ipstr = t, !.address = Points!ipv4tou(t, FALSE)]
    BY <2>1
  <2>3. \E ip : Denotes(t, ip)
    BY <2>2, EffectiveDenotes, DomainIs
  <2>4. PICK ip : Denotes(t, ip)
    BY <2>3
  <2>5. Points!ipv4tou(t, FALSE) = ip
    BY <2>4, DenotedIsRead
  <2>6. e = [ipstr |-> e.ipstr, address |-> e.address, port |-> e.port]
    BY DEF Labelled
  <2>7. x = [ipstr |-> t, address |-> ip, port |-> e.port]
    BY <2>2, <2>5, <2>6
  <2> QED
    BY <2>4, <2>7 DEF Labelled
<1> QED
  BY <1>1, <1>2

LEMMA WithAddressKeeps ==
  ASSUME NEW e, Labelled(e), NEW ip, IsAddress(ip)
  PROVE  Labelled(Points!WithAddress(e, ip)) /\ Points!WithAddress(e, ip).port = e.port
<1>1. e = [ipstr |-> e.ipstr, address |-> e.address, port |-> e.port]
  BY DEF Labelled
<1> DEFINE t == IF ip # Points!Zero THEN Points!ipv4tos(ip, 16) ELSE <<>>
<1>2. Points!WithAddress(e, ip) = [ipstr |-> t, address |-> ip, port |-> e.port]
  <2>1. Points!WithAddress(e, ip) = [e EXCEPT !.address = ip, !.ipstr = t]
    BY DEF Points!WithAddress
  <2> HIDE DEF t
  <2>2. PICK i, a, n : e = [ipstr |-> i, address |-> a, port |-> n]
    BY <1>1
  <2>3. PICK x : x = [e EXCEPT !.address = ip, !.ipstr = t]
    OBVIOUS
  <2>4. x = [ipstr |-> t, address |-> ip, port |-> n] /\ e.port = n
    BY <2>2, <2>3
  <2> QED
    BY <2>1, <2>3, <2>4
<1>3. (t = <<>> /\ ip = Points!Zero) \/ Denotes(t, ip)
  BY TextIs
<1> HIDE DEF t
<1> QED
  BY <1>2, <1>3 DEF Labelled

LEMMA WithPort ==
  ASSUME NEW x, Labelled(x), NEW port, Short(port)
  PROVE  Settled([x EXCEPT !.port = port])
<1>1. x = [ipstr |-> x.ipstr, address |-> x.address, port |-> x.port]
  BY DEF Labelled
<1>2. [x EXCEPT !.port = port] = [ipstr |-> x.ipstr, address |-> x.address, port |-> port]
  BY <1>1
<1> QED
  BY <1>2 DEF Labelled, Settled

\* build from a text.
LEMMA ParsedIs ==
  ASSUME NEW text \in Seq(Chars), NEW r \in Points!parse_ep(text), r # None
  PROVE  r.ipv4 \in Seq(Chars) /\ Short(r.port)
<1> DEFINE colons == {k \in DOMAIN text : text[k] = Points!Colon}
           loc == CHOOSE k \in colons : \A j \in colons : k <= j
           host == SubSeq(text, 1, loc - 1)
           rest == SubSeq(text, loc + 1, Len(text))
<1>1. Len(text) \in Nat /\ DOMAIN text = 1..Len(text)
  BY LenProperties
<1>2. Points!parse_ep(text) =
        IF colons = {} \/ loc = 1 \/ ~Points!is_effective_port(rest) THEN {None}
        ELSE {IF x = None THEN None ELSE [ipv4 |-> x, port |-> Points!Value(rest)] :
                x \in IF Points!is_effective_ipv4(host) THEN {host} ELSE Points!parse_domain(host)}
  BY DEF Points!parse_ep
<1>3. colons \subseteq 1..Len(text)
  BY <1>1
<1> HIDE DEF colons, loc, host, rest
<1>4. /\ colons # {} /\ loc # 1 /\ Points!is_effective_port(rest)
      /\ \E x \in IF Points!is_effective_ipv4(host) THEN {host} ELSE Points!parse_domain(host) :
           x # None /\ r = [ipv4 |-> x, port |-> Points!Value(rest)]
  BY <1>2
<1>5. loc \in 1..Len(text)
  <2>1. colons \in SUBSET Nat
    BY <1>1, <1>3
  <2>2. \E k \in colons : \A j \in colons : k <= j
    BY <1>4, <2>1, Smallest
  <2>3. loc \in colons
    BY <2>2 DEF loc
  <2> QED
    BY <1>3, <2>3
<1>6. host \in Seq(Chars)
  <2>1. \A i \in 1..(loc - 1) : text[i] \in Chars
    BY <1>1, <1>5, ElementOfSeq
  <2> QED
    BY <1>1, <1>5, <2>1, SubSeqProperties DEF host
<1>7. rest \in Seq(Chars)
  <2>1. \A i \in (loc + 1)..Len(text) : text[i] \in Chars
    BY <1>1, <1>5, ElementOfSeq
  <2> QED
    BY <1>1, <1>5, <2>1, SubSeqProperties DEF rest
<1>8. Short(Points!Value(rest))
  <2>1. rest # <<>> /\ (\A k \in DOMAIN rest : rest[k] \in Points!Digits) /\ Points!Value(rest) < Points!INVALID_TCPIP_PORT_NUMBER
    BY <1>4 DEF Points!is_effective_port, Points!is_digit_str
  <2>2. rest \in Seq(Points!Digits)
    BY <1>7, <2>1, DigitsOfPart
  <2>3. Points!Value(rest) \in Nat
    BY <2>2, ValueType
  <2>4. \A n \in Nat : n < Points!INVALID_TCPIP_PORT_NUMBER => Short(n)
    BY DEF Short, Points!INVALID_TCPIP_PORT_NUMBER
  <2> QED
    BY <2>1, <2>3, <2>4
<1>9. PICK x \in IF Points!is_effective_ipv4(host) THEN {host} ELSE Points!parse_domain(host) :
        x # None /\ r = [ipv4 |-> x, port |-> Points!Value(rest)]
  BY <1>4
<1>10. x \in Seq(Chars)
  BY <1>6, <1>9, DomainIs
<1>11. r.ipv4 = x /\ r.port = Points!Value(rest)
  BY <1>9
<1> QED
  BY <1>8, <1>10, <1>11

LEMMA BuiltKeeps ==
  ASSUME NEW e, Labelled(e), NEW text \in Seq(Chars), NEW x \in Points!BuiltFrom(e, text)
  PROVE  x = None \/ Settled(x)
<1>1. PICK r \in Points!parse_ep(text) :
        x \in IF r = None THEN {None} ELSE {[y EXCEPT !.port = r.port] : y \in Points!WithText(e, r.ipv4)}
  BY DEF Points!BuiltFrom
<1>2. CASE r = None
  BY <1>1, <1>2
<1>3. CASE r # None
  <2>1. r.ipv4 \in Seq(Chars) /\ Short(r.port)
    BY <1>3, ParsedIs
  <2>2. PICK y \in Points!WithText(e, r.ipv4) : x = [y EXCEPT !.port = r.port]
    BY <1>1, <1>3
  <2>3. Labelled(y)
    BY <2>1, WithTextKeeps
  <2> QED
    BY <2>1, <2>2, <2>3, WithPort
<1> QED
  BY <1>2, <1>3

LEMMA TextWithPort ==
  ASSUME NEW host \in Seq(Chars), NEW port, Short(port)
  PROVE  host \o <<Points!Colon>> \o Points!Decimal(port) \in Seq(Chars)
<1>1. <<Points!Colon>> \in Seq(Chars) /\ Points!Decimal(port) \in Seq(Chars)
  BY SymbolsAreChars, ShortIsDecimal
<1>2. host \o <<Points!Colon>> \in Seq(Chars)
  BY <1>1, JoinedIs
<1> QED
  BY <1>1, <1>2, JoinedIs

\* What one action does to one object, or two.
LEMMA OneSettled ==
  ASSUME EndpointsKept, NEW p \in Endpoints, NEW x, x = Points!NoObject \/ Settled(x),
         ep' = [ep EXCEPT ![p] = x]
  PROVE  EndpointsKept'
BY DEF EndpointsKept

LEMMA NoObjectIs ==
  /\ Labelled(Points!NoObject) /\ Points!NoObject.port = -1
  /\ ~Settled(Points!NoObject)
  /\ Settled(Points!Invalid) /\ Settled([Points!Invalid EXCEPT !.port = 0])
<1>1. Labelled(Points!NoObject) /\ Points!NoObject.port = -1
  BY DEF Labelled, Points!NoObject
<1>2. ~Settled(Points!NoObject)
  BY <1>1, PortsAre DEF Settled
<1>3. Points!Invalid = [Points!NoObject EXCEPT !.port = Points!INVALID_TCPIP_PORT_NUMBER]
  BY DEF Points!Invalid, Points!NoObject
<1>4. [Points!Invalid EXCEPT !.port = 0] = [Points!NoObject EXCEPT !.port = 0]
  BY DEF Points!Invalid, Points!NoObject
<1> QED
  BY <1>1, <1>2, <1>3, <1>4, PortsAre, WithPort

LEMMA ExistingIs ==
  ASSUME EndpointsKept, NEW p \in Endpoints, Points!Exists(p)
  PROVE  Settled(ep[p]) /\ Labelled(ep[p]) /\ Short(ep[p].port)
BY DEF EndpointsKept, Points!Exists, Settled

LEMMA EndpointStep == EndpointsKept /\ [Points!Next]_(Points!vars) => EndpointsKept'
<1> SUFFICES ASSUME EndpointsKept, [Points!Next]_(Points!vars) PROVE EndpointsKept'
  OBVIOUS
<1>0. CASE UNCHANGED Points!vars
  BY <1>0 DEF Points!vars, EndpointsKept
<1>1. ASSUME NEW p \in Endpoints, Points!Default(p) PROVE EndpointsKept'
  BY <1>1, OneSettled, NoObjectIs DEF Points!Default
<1>2. ASSUME NEW p \in Endpoints, Points!Construct(p) PROVE EndpointsKept'
  <2>1. PICK host \in Texts, port \in Ports :
          \E x \in Points!BuiltFrom(Points!NoObject,
                     (IF host = <<>> THEN Points!ipv4tos(Points!Zero, 16) ELSE host) \o <<Points!Colon>> \o Points!Decimal(port)) :
            ep' = [ep EXCEPT ![p] = IF x = None THEN Points!NoObject ELSE x]
    BY <1>2 DEF Points!Construct
  <2> DEFINE ipstr == IF host = <<>> THEN Points!ipv4tos(Points!Zero, 16) ELSE host
             text == ipstr \o <<Points!Colon>> \o Points!Decimal(port)
  <2>2. ipstr \in Seq(Chars)
    BY AddressesAre, TextIs, EndpointsAssumption DEF Chars
  <2>3. text \in Seq(Chars)
    <3> HIDE DEF ipstr
    <3> QED
      BY <2>2, TextWithPort, PortsAre
  <2>4. PICK x \in Points!BuiltFrom(Points!NoObject, text) :
          ep' = [ep EXCEPT ![p] = IF x = None THEN Points!NoObject ELSE x]
    BY <2>1
  <2> HIDE DEF text
  <2>5. x = None \/ Settled(x)
    BY <2>3, <2>4, BuiltKeeps, NoObjectIs
  <2> DEFINE y == IF x = None THEN Points!NoObject ELSE x
  <2>6. (y = Points!NoObject \/ Settled(y)) /\ ep' = [ep EXCEPT ![p] = y]
    BY <2>4, <2>5
  <2> HIDE DEF y
  <2> QED
    BY <2>6, OneSettled
<1>3. ASSUME NEW p \in Endpoints, Points!Boardcast(p) PROVE EndpointsKept'
  <2>1. PICK port \in Ports :
          LET unset == port \in {0, Points!INVALID_TCPIP_PORT_NUMBER}
              host == Points!ipv4tos(IF unset THEN Points!Zero ELSE Points!BOARDCAST_TCPIP_ADDRESS, 16)
              text == host \o <<Points!Colon>> \o Points!Decimal(IF unset THEN Points!INVALID_TCPIP_PORT_NUMBER ELSE port)
          IN  \E x \in Points!BuiltFrom(Points!NoObject, text) :
                ep' = [ep EXCEPT ![p] = IF x = None THEN Points!NoObject ELSE x]
    BY <1>3 DEF Points!Boardcast
  <2> DEFINE unset == port \in {0, Points!INVALID_TCPIP_PORT_NUMBER}
             ip == IF unset THEN Points!Zero ELSE Points!BOARDCAST_TCPIP_ADDRESS
             number == IF unset THEN Points!INVALID_TCPIP_PORT_NUMBER ELSE port
             text == Points!ipv4tos(ip, 16) \o <<Points!Colon>> \o Points!Decimal(number)
  <2>2. IsAddress(ip) /\ Short(number)
    BY AddressesAre, PortsAre
  <2>3. text \in Seq(Chars)
    <3> HIDE DEF ip, number
    <3>1. Points!ipv4tos(ip, 16) \in Seq(Chars)
      BY <2>2, TextIs
    <3> QED
      BY <2>2, <3>1, TextWithPort
  <2>4. PICK x \in Points!BuiltFrom(Points!NoObject, text) :
          ep' = [ep EXCEPT ![p] = IF x = None THEN Points!NoObject ELSE x]
    BY <2>1
  <2> HIDE DEF text
  <2>5. x = None \/ Settled(x)
    BY <2>3, <2>4, BuiltKeeps, NoObjectIs
  <2> DEFINE y == IF x = None THEN Points!NoObject ELSE x
  <2>6. (y = Points!NoObject \/ Settled(y)) /\ ep' = [ep EXCEPT ![p] = y]
    BY <2>4, <2>5
  <2> HIDE DEF y
  <2> QED
    BY <2>6, OneSettled
<1>4. ASSUME NEW p \in Endpoints, Points!Build(p) PROVE EndpointsKept'
  <2>1. PICK host \in Texts, port \in Ports :
          \E x \in Points!BuiltFrom(ep[p], host \o <<Points!Colon>> \o Points!Decimal(port)) :
            ep' = [ep EXCEPT ![p] = IF x = None THEN ep[p] ELSE x]
    BY <1>4 DEF Points!Build
  <2> DEFINE text == host \o <<Points!Colon>> \o Points!Decimal(port)
  <2>2. text \in Seq(Chars)
    <3>1. host \in Seq(Chars)
      BY EndpointsAssumption DEF Chars
    <3> QED
      BY <3>1, TextWithPort, PortsAre
  <2>3. PICK x \in Points!BuiltFrom(ep[p], text) : ep' = [ep EXCEPT ![p] = IF x = None THEN ep[p] ELSE x]
    BY <2>1
  <2> HIDE DEF text
  <2>4. Settled(ep[p]) /\ Labelled(ep[p])
    BY <1>4, ExistingIs DEF Points!Build
  <2>5. x = None \/ Settled(x)
    BY <2>2, <2>3, <2>4, BuiltKeeps
  <2> DEFINE y == IF x = None THEN ep[p] ELSE x
  <2>6. Settled(y) /\ ep' = [ep EXCEPT ![p] = y]
    BY <2>3, <2>4, <2>5
  <2> HIDE DEF y
  <2> QED
    BY <2>6, OneSettled
<1>5. ASSUME NEW p \in Endpoints, Points!SetText(p) PROVE EndpointsKept'
  <2>1. PICK text \in Texts : \E x \in Points!WithText(ep[p], text) : ep' = [ep EXCEPT ![p] = x]
    BY <1>5 DEF Points!SetText
  <2>2. PICK x \in Points!WithText(ep[p], text) : ep' = [ep EXCEPT ![p] = x]
    BY <2>1
  <2>3. Labelled(ep[p]) /\ Short(ep[p].port)
    BY <1>5, ExistingIs DEF Points!SetText
  <2>4. text \in Seq(Chars)
    BY EndpointsAssumption DEF Chars
  <2>5. Settled(x)
    BY <2>2, <2>3, <2>4, WithTextKeeps DEF Settled
  <2> QED
    BY <2>2, <2>5, OneSettled
<1>6. ASSUME NEW p \in Endpoints, Points!SetAddress(p) PROVE EndpointsKept'
  <2>1. PICK ip \in Addresses : ep' = [ep EXCEPT ![p] = Points!WithAddress(ep[p], ip)]
    BY <1>6 DEF Points!SetAddress
  <2>2. Labelled(ep[p]) /\ Short(ep[p].port)
    BY <1>6, ExistingIs DEF Points!SetAddress
  <2>3. Settled(Points!WithAddress(ep[p], ip))
    BY <2>2, AddressesAre, WithAddressKeeps DEF Settled
  <2> QED
    BY <2>1, <2>3, OneSettled
<1>7. ASSUME NEW p \in Endpoints, Points!SetPort(p) PROVE EndpointsKept'
  <2>1. PICK port \in Ports : ep' = [ep EXCEPT ![p].port = port]
    BY <1>7 DEF Points!SetPort
  <2>2. Labelled(ep[p])
    BY <1>7, ExistingIs DEF Points!SetPort
  <2>3. ep' = [ep EXCEPT ![p] = [ep[p] EXCEPT !.port = port]]
    BY <2>1
  <2>4. Settled([ep[p] EXCEPT !.port = port])
    BY <2>2, PortsAre, WithPort
  <2> QED
    BY <2>3, <2>4, OneSettled
<1>8. ASSUME NEW p \in Endpoints, Points!Disable(p) PROVE EndpointsKept'
  <2> DEFINE x == [Points!WithAddress(ep[p], Points!Zero) EXCEPT !.port = Points!INVALID_TCPIP_PORT_NUMBER]
  <2>1. ep' = [ep EXCEPT ![p] = x]
    BY <1>8 DEF Points!Disable
  <2>2. Labelled(ep[p])
    BY <1>8, ExistingIs DEF Points!Disable
  <2>3. Labelled(Points!WithAddress(ep[p], Points!Zero))
    BY <2>2, AddressesAre, WithAddressKeeps
  <2>4. Settled(x)
    BY <2>3, PortsAre, WithPort
  <2> HIDE DEF x
  <2> QED
    BY <2>1, <2>4, OneSettled
<1>9. ASSUME NEW p \in Endpoints, Points!Destroy(p) PROVE EndpointsKept'
  BY <1>9, OneSettled DEF Points!Destroy
<1>10. ASSUME NEW p \in Endpoints, NEW q \in Endpoints, Points!CopyConstruct(p, q) PROVE EndpointsKept'
  <2>1. ep' = [ep EXCEPT ![p] = ep[q]] /\ Settled(ep[q])
    BY <1>10, ExistingIs DEF Points!CopyConstruct
  <2> QED
    BY <2>1, OneSettled
<1>11. ASSUME NEW p \in Endpoints, NEW q \in Endpoints, Points!MoveConstruct(p, q) PROVE EndpointsKept'
  <2>1. ep' = [ep EXCEPT ![p] = ep[q], ![q] = [Points!Invalid EXCEPT !.port = 0]] /\ Settled(ep[q])
    BY <1>11, ExistingIs DEF Points!MoveConstruct
  <2>2. Settled([Points!Invalid EXCEPT !.port = 0])
    BY NoObjectIs
  <2> DEFINE none == [Points!Invalid EXCEPT !.port = 0]
  <2>3. Settled(none) /\ ep' = [ep EXCEPT ![p] = ep[q], ![q] = none]
    BY <2>1, <2>2
  <2> HIDE DEF none
  <2> QED
    BY <2>1, <2>3 DEF EndpointsKept
<1>12. ASSUME NEW p \in Endpoints, NEW q \in Endpoints, Points!MoveAssign(p, q) PROVE EndpointsKept'
  <2>1. ep' = [ep EXCEPT ![p] = ep[q]] /\ Settled(ep[q])
    BY <1>12, ExistingIs DEF Points!MoveAssign
  <2> QED
    BY <2>1, OneSettled
<1>13. ASSUME NEW p \in Endpoints, NEW q \in Endpoints, Points!CopyAssign(p, q) PROVE EndpointsKept'
  <2>1. PICK x \in Points!WithText(ep[p], ep[q].ipstr) : ep' = [ep EXCEPT ![p] = [x EXCEPT !.port = ep[q].port]]
    BY <1>13 DEF Points!CopyAssign
  <2>2. Labelled(ep[p]) /\ Labelled(ep[q]) /\ Short(ep[q].port)
    BY <1>13, ExistingIs DEF Points!CopyAssign
  <2>3. ep[q].ipstr \in Seq(Chars)
    <3>1. <<>> \in Seq(Chars)
      OBVIOUS
    <3> QED
      BY <2>2, <3>1 DEF Labelled, Denotes, Quartered
  <2>4. Labelled(x)
    BY <2>2, <2>3, WithTextKeeps
  <2>5. Settled([x EXCEPT !.port = ep[q].port])
    BY <2>2, <2>4, WithPort
  <2> QED
    BY <2>1, <2>5, OneSettled
<1>14. CASE Points!Next
  <2>1. \/ \E p \in Endpoints :
             \/ Points!Default(p) \/ Points!Construct(p) \/ Points!Boardcast(p) \/ Points!Build(p) \/ Points!Destroy(p)
             \/ Points!SetText(p) \/ Points!SetAddress(p) \/ Points!SetPort(p) \/ Points!Disable(p)
        \/ \E p, q \in Endpoints :
             Points!CopyConstruct(p, q) \/ Points!MoveConstruct(p, q) \/ Points!MoveAssign(p, q) \/ Points!CopyAssign(p, q)
    BY <1>14 DEF Points!Next
  <2> QED
    BY <2>1, <1>1, <1>2, <1>3, <1>4, <1>5, <1>6, <1>7, <1>8, <1>9, <1>10, <1>11, <1>12, <1>13
<1> QED
  BY <1>0, <1>14

LEMMA KeptAgree == EndpointsKept => TextAndAddressAgree
<1> SUFFICES ASSUME EndpointsKept PROVE Points!TextAndAddressAgree
  BY DEF TextAndAddressAgree
<1>1. ASSUME NEW p \in Endpoints, Points!Exists(p)
      PROVE  /\ ep[p].address = Points!ipv4tou(ep[p].ipstr, FALSE)
             /\ ep[p].address = Points!ByteOrderChanged(Points!ipv4tou(ep[p].ipstr, TRUE))
  <2>1. Labelled(ep[p])
    BY <1>1, ExistingIs
  <2> QED
    BY <2>1, DenotedIsRead, NothingIsRead DEF Labelled
<1>2. ASSUME NEW p \in Endpoints, Points!Exists(p), ep[p].ipstr # <<>>, ep[p].port # Points!INVALID_TCPIP_PORT_NUMBER
      PROVE  Points!parse_ep(Points!to_string(ep[p])) = {[ipv4 |-> ep[p].ipstr, port |-> ep[p].port]}
  <2>1. Labelled(ep[p]) /\ Short(ep[p].port)
    BY <1>2, ExistingIs
  <2>2. Denotes(ep[p].ipstr, ep[p].address)
    BY <1>2, <2>1 DEF Labelled
  <2>3. ep[p].port \in Nat /\ ep[p].port < Points!INVALID_TCPIP_PORT_NUMBER /\ IsDecimal(Points!Decimal(ep[p].port), ep[p].port)
    <3>1. \A n : Short(n) => n \in Nat
      BY DEF Short
    <3> QED
      BY <1>2, <2>1, <3>1, BelowInvalid, ShortIsDecimal
  <2> QED
    BY <2>2, <2>3, ParsedBack DEF Points!to_string
<1>3. ASSUME NEW p \in Endpoints, Points!Exists(p), ep[p].ipstr # <<>>,
             \A part \in Points!Range(Points!Split(ep[p].ipstr, Points!Dot)) : Len(part) <= 3
      PROVE  Points!is_effective_address_v4(ep[p].ipstr)
  <2>1. Labelled(ep[p])
    BY <1>3, ExistingIs
  <2>2. Denotes(ep[p].ipstr, ep[p].address)
    BY <1>3, <2>1 DEF Labelled
  <2> QED
    BY <1>3, <2>2, ShortIsEffective
<1>4. ASSUME NEW p \in Endpoints, NEW q \in Endpoints, Points!Exists(p), Points!Exists(q), Points!Equal(ep[p], ep[q])
      PROVE  ~Points!Below(ep[p], ep[q])
  <2>1. Labelled(ep[p]) /\ Short(ep[p].port)
    BY <1>4, ExistingIs
  <2>2. IsAddress(ep[p].address)
    BY <2>1, AddressesAre DEF Labelled, Denotes
  <2>3. ep[p].address = ep[q].address /\ ep[p].port = ep[q].port
    BY <1>4 DEF Points!Equal
  <2>4. \A i \in 1..4 : ~(ep[p].address[i] < ep[p].address[i])
    BY <2>2 DEF IsAddress
  <2>5. ~(ep[p].port < ep[p].port)
    BY <2>1 DEF Short
  <2> QED
    BY <2>3, <2>4, <2>5 DEF Points!Below
<1> QED
  BY <1>1, <1>2, <1>3, <1>4 DEF Points!TextAndAddressAgree

(* In every endpoint the address is the one its text denotes, in either byte
   order, and the address 0 if it has no text, however it was built, assigned,
   moved or set; its text is parsed back to it, both checks of an address agree
   on it, and no endpoint is below one it is equal to (endpoint.cpp,
   com/posix_naos.c), for any texts, addresses and ports. *)
THEOREM TextAndAddressAgreeHolds == Points!Spec => []TextAndAddressAgree
<1>1. Points!Init => EndpointsKept
  BY DEF Points!Init, EndpointsKept
<1>2. EndpointsKept /\ [Points!Next]_(Points!vars) => EndpointsKept'
  BY EndpointStep
<1>3. EndpointsKept => TextAndAddressAgree
  BY KeptAgree
<1> QED
  BY <1>1, <1>2, <1>3, PTL DEF Points!Spec
=============================================================================
