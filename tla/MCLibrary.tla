------------------------------ MODULE MCLibrary -----------------------------
(* Small instances, for TLC, of the parts of the library that run in one thread:
   containers, digests, codings and endpoints.  A behaviour uses one of them,
   chosen in the initial state, and leaves the others alone.

   The ring buffer: four places and counters of four bits, every string of up
   to three bytes, and two that are longer than the buffer.  The tree: twelve
   keys are the fewest with which one removal rotates twice on its way up.  The
   lists: two heads and three entries, enough for a splice of several entries
   into the middle of others.  Digests: blocks of eight bytes and a count of two
   bytes, so that messages of five blocks carry into the high word.  Counts of
   serialized types: two digits of base eight, as many values as an int has.
   Functions of their input alone are called with each input of a set. *)
EXTENDS MCContainers, MCFunctions, TLC

VARIABLES given,        \* the input of a function on strings or vectors that is running, or <<>>
          used

-----------------------------------------------------------------------------
TwoBytes == {0, 1}
Strings == UNION {[1..n -> TwoBytes] : n \in 0..3} \cup {<<0, 1, 1, 0, 1>>, <<1, 0, 0, 1, 0>>}
Lengths == {0, 1, 2, 3, 5}
TwelveKeys == 1..12
FortyOneBytes == [i \in 1..41 |-> 100 + i]
PiecesOfIt == {0, 1, 3, 4, 5, 8, 13, 17}
LengthsOfBlobs == {-1, 0, 1, 3}

(* A substitution box for each six bits, as irregular as the formula makes it. *)
TheBoxes == [k \in 0..7 |-> [line \in 0..3 |-> [row \in 0..15 |-> (7 * row + 3 * line + k) % 16]]]
TheDefaultKey == <<51, 117, 66, 35, 42, 116, 84, 121>>
Ramp(step, n) == [i \in 1..n |-> (step * i + n) % 256]
Digest16(key) == Ramp(17 * (Len(key) + 1), 16)
AnyByte(page) == (page[1] + 3 * page[2]) % 256
TheDesKeys == {Ramp(13, 8), Ramp(40, 8)}
TheDesInputs == {Ramp(a, n) : a \in {37, 255}, n \in {8, 9, 16}}
TheInputs == {Ramp(a, n) : a \in {0, 37, 85, 255}, n \in 0..11}
TheCipherKeys == {Ramp(91, n) : n \in {0, 5, 16, 17, 24}}
ThePacketLengths == {0, 1, 252, 253, 254, 300, 52428787, 52428788, 52428789}
TheOpcode == <<78, 115, 112, 100>>

(* Addresses, their texts with and without needless zeros, texts that are not
   addresses, one too long for the buffer of an endpoint, and a name. *)
TheAddresses == {<<0, 0, 0, 0>>, <<1, 0, 0, 2>>, <<255, 255, 255, 255>>}
TheTexts == {<<1, 10, 0, 10, 0, 10, 2>>, <<0, 1, 10, 0, 10, 0, 10, 2>>, <<0, 10, 0, 10, 0, 10, 0>>,
             <<1, 10, 0, 10, 0>>, <<2, 5, 6, 10, 0, 10, 0, 10, 1>>,
             <<0, 0, 0, 1, 10, 0, 0, 0, 0, 10, 0, 0, 0, 0, 10, 2>>, <<12>>, <<>>}
ThePorts == {0, 80, 65535}

Text == INSTANCE Strings WITH Aborted <- None, Null <- None

-----------------------------------------------------------------------------
listVars == <<link, list, usable, walk>>
digestVars == <<md5ctx, fed, digest>>
blobVars == <<blob, heap, faults>>
allVars == <<vars, tree, listVars, digestVars, blobVars, ep, call, given, used>>

Parts == {"ckfifo", "avltree", "clist", "digest", "blob", "endpoint", "function", "vector", "string"}

MCInit ==
  /\ Init /\ AVL!Init /\ Lists!Init /\ Digests!Init /\ Proto!Init /\ Points!Init /\ CallInit
  /\ given = <<>>
  /\ used \in Parts
  /\ used # "ckfifo" => buffer = [p \in Places |-> 0]

(* The inputs of the functions on strings and vectors. *)
Letters == {65, 97, 98, 32, 9}
Words == UNION {[1..n -> Letters] : n \in 0..2} \cup [1..3 -> {97, 98, 32}]
Items == UNION {[1..n -> TwoBytes] : n \in 0..2} \cup {<<1, 1, 1>>}
Vectors == UNION {[1..n -> Items] : n \in 0..2} \cup [1..3 -> {<<>>, <<1>>, <<0, 1>>}]

Give ==
  /\ given = <<>>
  /\ \/ used = "vector" /\ given' \in Vectors \X {<<>>, <<<<1>>>>} \X {<<>>, <<1, 0>>} \X BOOLEAN
     \/ used = "string" /\ given' \in Words \X Words

TakeBack ==
  /\ given # <<>>
  /\ given' = <<>>

MCNext ==
  \/ used = "ckfifo" /\ Next /\ UNCHANGED <<tree, listVars, digestVars, blobVars, ep, call, given, used>>
  \/ used = "avltree" /\ AVL!Next /\ UNCHANGED <<vars, listVars, digestVars, blobVars, ep, call, given, used>>
  \/ used = "clist" /\ Lists!Next /\ UNCHANGED <<vars, tree, digestVars, blobVars, ep, call, given, used>>
  \/ used = "digest" /\ Digests!Next /\ UNCHANGED <<vars, tree, listVars, blobVars, ep, call, given, used>>
  \/ used = "blob" /\ Proto!Next /\ UNCHANGED <<vars, tree, listVars, digestVars, ep, call, given, used>>
  \/ used = "endpoint" /\ Points!Next /\ UNCHANGED <<vars, tree, listVars, digestVars, blobVars, call, given, used>>
  \/ used = "function" /\ CallNext /\ UNCHANGED <<vars, tree, listVars, digestVars, blobVars, ep, given, used>>
  \/ (Give \/ TakeBack) /\ UNCHANGED <<vars, tree, listVars, digestVars, blobVars, ep, call, used>>

MCSpec == MCInit /\ [][MCNext]_allVars

Symmetry == Permutations(Entries)

-----------------------------------------------------------------------------
(* A vector that is serialized is built to what it was, after what the target
   holds, and is refused when it is cut short (module Serialize); and the string
   functions keep what they promise of two strings (module Strings). *)
VectorsAndStrings ==
  given # <<>> =>
    /\ used = "vector" => Proto!VectorInverts(given[1], given[2], given[3], given[4])
    /\ used = "string" => Text!StringsBehave(given[1], given[2])
=============================================================================
