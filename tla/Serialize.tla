------------------------------ MODULE Serialize -----------------------------
(* The serialization of serialize.hpp: numbers, strings and vectors of strings
   as operators from values to bytes and back, and the life of blobs, which own
   the memory they point to.

   A byte is a number below ByteValues (256 in the code), so that a count of a
   few bytes can be tried at its largest.  A pointer into the bytes is the
   number of bytes before it.  What the code calls cb, the bytes left as the
   caller counts them, is passed along with it.  It is an int, and so is what
   a count is compared with.

   The move assignment of a blob takes a const&& and writes to it: it does not
   compile where it is used, and has no action.  serialize and build of a blob,
   which move as many bytes as there are elements, are left out. *)
EXTENDS Integers, Sequences, FiniteSets, SequencesExt

CONSTANTS
  ByteValues,
  NL,            \* bytes of the count of a string or of a vector
  IntValues,     \* the values of an int (2^32 in the code)
  Blobs,         \* places for blob objects
  Elements       \* the lengths a blob is made with

Null == -1
Overrun == -2    \* where build is when it has read past the bytes: nothing is known

(* The conversion of a length to an int. *)
ToInt(n) ==
  IF n % IntValues < IntValues \div 2 THEN n % IntValues ELSE (n % IntValues) - IntValues

-----------------------------------------------------------------------------
(* proto_crt_t: a number of size bytes, the least significant first. *)

SerializeNumber(value, size) == [k \in 1..size |-> (value \div ByteValues ^ (k - 1)) % ByteValues]

NumberAt(bytes) == FoldLeftDomain(LAMBDA sum, k : sum + bytes[k] * ByteValues ^ (k - 1), 0, bytes)

(* What build returns: where it stopped (Null if it failed), the bytes left and
   the value. *)
Built(at, cb, value) == [at |-> at, cb |-> cb, value |-> value]

BuildNumber(bytes, at, cb, size) ==
  IF cb < size THEN Built(Null, cb, 0)
  ELSE Built(at + size, cb - size, NumberAt(SubSeq(bytes, at + 1, at + size)))

(* The count of a string or vector: cut to NL bytes, and with its bytes turned
   round when the type is declared as big endian. *)
SerializeCount(size, bigEndian) ==
  LET native == SerializeNumber(size % ByteValues ^ NL, NL)
  IN IF bigEndian THEN Reverse(native) ELSE native

BuildCount(bytes, at, cb, bigEndian) ==
  LET head == BuildNumber(bytes, at, cb, NL)
      native == SerializeNumber(head.value, NL)
  IN IF bigEndian THEN [head EXCEPT !.value = NumberAt(Reverse(native))] ELSE head

(* proto_string_t of bytes. *)
StringLength(string) == NL + ToInt(Len(string))
SerializeString(string, bigEndian) == SerializeCount(Len(string), bigEndian) \o string

(* A count of at least half the values is negative as an int: it passes the
   check, and assign copies as many bytes as it says (or throws) from wherever
   the bytes end. *)
BuildString(bytes, at, cb, bigEndian) ==
  LET head == BuildCount(bytes, at, cb, bigEndian)
      acquire_cb == ToInt(head.value)
      end == head.at + acquire_cb
  IN IF head.at = Null \/ head.cb < acquire_cb THEN [head EXCEPT !.at = Null, !.value = <<>>]
     ELSE IF acquire_cb < 0 THEN [head EXCEPT !.at = Overrun, !.value = <<>>]
     ELSE Built(end, head.cb - acquire_cb, SubSeq(bytes, head.at + 1, end))

(* proto_vector_t of such strings. *)
VectorLength(vector) ==
  NL + FoldLeft(LAMBDA sum, string : sum + StringLength(string), 0, vector)

SerializeVector(vector, bigEndian) ==
  SerializeCount(Len(vector), bigEndian) \o
  FlattenSeq([k \in DOMAIN vector |-> SerializeString(vector[k], bigEndian)])

(* The slip the mutant makes: an item that fails to build is kept as well. *)
SlipPushed(vector, item) == Append(vector, item.value)

Pushed(vector, item) == IF item.at < 0 THEN vector ELSE Append(vector, item.value)

(* The items are appended to what the vector holds, and those before one that
   fails stay in it.  A count that fails to build counts as 0. *)
BuildVector(before, bytes, at, cb, bigEndian) ==
  LET head == BuildCount(bytes, at, cb, bigEndian)
      items[i \in 0..head.value] ==
        IF i = 0 THEN [head EXCEPT !.value = before]
        ELSE IF items[i - 1].at < 0 THEN items[i - 1]
        ELSE LET item == BuildString(bytes, items[i - 1].at, items[i - 1].cb, bigEndian)
             IN [item EXCEPT !.value = Pushed(items[i - 1].value, item)]
  IN items[head.value]

(* assemble: the bytes of a string, as many as it has. *)
Assemble(before, bytes, bigEndian) == BuildVector(before, bytes, 0, ToInt(Len(bytes)), bigEndian)

(* A vector that is built from its own bytes is appended to the object as it
   was, from exactly length() bytes, whatever follows them; when any of the
   bytes are missing the build fails and what was appended is a prefix of it;
   and a string that claims more bytes than there are is refused, if the number
   is one that an int holds: beyond that the check is passed (BuildString).  For
   this the counts must fit the bytes they are written in, and the bytes an int. *)
VectorInverts(vector, before, tail, bigEndian) ==
  LET fits(n) == n < ByteValues ^ NL
      counted(n) == n < IntValues \div 2
      bytes == SerializeVector(vector, bigEndian)
      claims(n) == BuildString(SerializeCount(n, bigEndian) \o tail, 0, NL + Len(tail), bigEndian)
  IN /\ fits(Len(vector)) /\ (\A k \in DOMAIN vector : fits(Len(vector[k]))) /\ counted(Len(bytes \o tail)) =>
          /\ Len(bytes) = VectorLength(vector)
          /\ Assemble(before, bytes \o tail, bigEndian) = Built(Len(bytes), Len(tail), before \o vector)
          /\ \A cut \in {Assemble(before, SubSeq(bytes, 1, n), bigEndian) : n \in 0 .. Len(bytes) - 1} :
               /\ cut.at = Null
               /\ IsPrefix(cut.value, before \o vector)
               /\ cut.value # before \o vector \/ vector = <<>>
     /\ \A n \in {k \in Len(tail) + 1 .. ByteValues ^ NL - 1 : counted(k)} : claims(n).at = Null

-----------------------------------------------------------------------------
(* proto_blob_t: objects that own an array.  The arrays are numbered; the heap
   says which are allocated. *)
VARIABLES
  blob,      \* per place: NoBlob, or [pointer, count]
  heap,      \* the arrays that are allocated
  faults     \* arrays freed that were not allocated

vars == <<blob, heap, faults>>

NoBlob == [pointer |-> Null, count |-> Null - 1]
Empty == [pointer |-> Null, count |-> 0]

(* One array for each place, and one more, are as many as can be in use. *)
Arrays == 0..Cardinality(Blobs)
Fresh == CHOOSE array \in Arrays : array \notin heap

Init ==
  /\ blob = [place \in Blobs |-> NoBlob]
  /\ heap = {}
  /\ faults = {}

(* delete[] of what a blob points to, if it counts any. *)
Freed(b) == IF b.pointer # Null /\ b.count > 0 THEN {b.pointer} ELSE {}

Free(arrays) ==
  /\ heap' = heap \ arrays
  /\ faults' = faults \cup (arrays \ heap)

(* proto_blob_t(ptr, count) and proto_blob_t(count): the count of the second is
   kept although it is not positive. *)
Make(place) ==
  /\ blob[place] = NoBlob
  /\ \E count \in Elements, copied \in BOOLEAN :
       IF count > 0
       THEN /\ blob' = [blob EXCEPT ![place] = [pointer |-> Fresh, count |-> count]]
            /\ heap' = heap \cup {Fresh}
       ELSE /\ blob' = [blob EXCEPT ![place] = [Empty EXCEPT !.count = IF copied THEN 0 ELSE count]]
            /\ UNCHANGED heap
  /\ UNCHANGED faults

(* The copy constructor tests the count of the object being made, which is 0:
   the copy is always empty. *)
CopyConstruct(place, source) ==
  /\ blob[place] = NoBlob
  /\ blob[source] # NoBlob
  /\ blob' = [blob EXCEPT ![place] = Empty]
  /\ UNCHANGED <<heap, faults>>

(* The slip the mutant makes: the source keeps what it gave away. *)
SlipMoveConstruct(place, source) ==
  /\ blob[place] = NoBlob
  /\ blob[source] # NoBlob
  /\ blob' = [blob EXCEPT ![place] = blob[source]]
  /\ UNCHANGED <<heap, faults>>

MoveConstruct(place, source) ==
  /\ blob[place] = NoBlob
  /\ blob[source] # NoBlob
  /\ blob' = [blob EXCEPT ![place] = blob[source], ![source] = Empty]
  /\ UNCHANGED <<heap, faults>>

(* operator=: the target gives up its array, and tests its own count, which it
   has just set to 0, before it would take a copy. *)
Assign(place, source) ==
  /\ NoBlob \notin {blob[place], blob[source]}
  /\ place # source
  /\ Free(Freed(blob[place]))
  /\ blob' = [blob EXCEPT ![place] = Empty]

Destroy(place) ==
  /\ blob[place] # NoBlob
  /\ Free(Freed(blob[place]))
  /\ blob' = [blob EXCEPT ![place] = NoBlob]

Next ==
  \/ \E place \in Blobs : Make(place) \/ Destroy(place)
  \/ \E place, source \in Blobs :
       CopyConstruct(place, source) \/ MoveConstruct(place, source) \/ Assign(place, source)

Spec == Init /\ [][Next]_vars

(* Every array that is allocated belongs to exactly one blob, which will free it:
   no sequence of constructions, moves, assignments and destructions frees an
   array twice or forgets one. *)
ArraysOwnedOnce ==
  /\ faults = {}
  /\ \A array \in heap : \E place \in Blobs : array \in Freed(blob[place])
  /\ \A p, q \in Blobs : p # q => Freed(blob[p]) \cap Freed(blob[q]) = {}
=============================================================================
