--------------------------------- MODULE Des --------------------------------
(* The block cipher of com/hash.c: DES__encrypt and DES__decrypt.

   A block is a sequence of 64 bits.  The tables of the initial and the final
   permutation, of the expansion and of the key schedule are the code's; the
   eight substitution boxes are a constant, since nothing below depends on what
   they hold. *)
EXTENDS Integers, Sequences, SequencesExt

CONSTANTS
  DES_S,        \* the substitution boxes: [0..7 -> [0..3 -> [0..15 -> 0..15]]]
  Keys,         \* the keys a caller passes, sequences of eight bytes
  Default,      \* DEFAULT_DES_KEY
  NULL          \* a null pointer

DES_IP_Table == <<
  58, 50, 42, 34, 26, 18, 10, 2, 60, 52, 44, 36, 28, 20, 12, 4,
  62, 54, 46, 38, 30, 22, 14, 6, 64, 56, 48, 40, 32, 24, 16, 8,
  57, 49, 41, 33, 25, 17, 9, 1, 59, 51, 43, 35, 27, 19, 11, 3,
  61, 53, 45, 37, 29, 21, 13, 5, 63, 55, 47, 39, 31, 23, 15, 7>>

DES_IP_1_Table == <<
  40, 8, 48, 16, 56, 24, 64, 32, 39, 7, 47, 15, 55, 23, 63, 31,
  38, 6, 46, 14, 54, 22, 62, 30, 37, 5, 45, 13, 53, 21, 61, 29,
  36, 4, 44, 12, 52, 20, 60, 28, 35, 3, 43, 11, 51, 19, 59, 27,
  34, 2, 42, 10, 50, 18, 58, 26, 33, 1, 41, 9, 49, 17, 57, 25>>

(* Position k of the table in group k \div 6: the last bit of the group of four
   before it, the group, and the first bit of the one after it. *)
DES_E_Table == [k \in 1..48 |-> ((4 * ((k - 1) \div 6) + ((k - 1) % 6) + 31) % 32) + 1]

DES_P_Table == <<
  16, 7, 20, 21, 29, 12, 28, 17, 1, 15, 23, 26, 5, 18, 31, 10,
  2, 8, 24, 14, 32, 27, 3, 9, 19, 13, 30, 6, 22, 11, 4, 25>>

DES_PC_1 == <<
  57, 49, 41, 33, 25, 17, 9, 1, 58, 50, 42, 34, 26, 18,
  10, 2, 59, 51, 43, 35, 27, 19, 11, 3, 60, 52, 44, 36,
  63, 55, 47, 39, 31, 23, 15, 7, 62, 54, 46, 38, 30, 22,
  14, 6, 61, 53, 45, 37, 29, 21, 13, 5, 28, 20, 12, 4>>

DES_PC_2 == <<
  14, 17, 11, 24, 1, 5, 3, 28, 15, 6, 21, 10,
  23, 19, 12, 4, 26, 8, 16, 7, 27, 20, 13, 2,
  41, 52, 31, 37, 47, 55, 30, 40, 51, 45, 33, 48,
  44, 49, 39, 56, 34, 53, 46, 42, 50, 36, 29, 32>>

DES_MOVE_TIMES == <<1, 1, 2, 2, 2, 2, 2, 2, 1, 2, 2, 2, 2, 2, 2, 1>>

-----------------------------------------------------------------------------
(* The least significant bit of a byte comes first. *)
Weights == <<1, 2, 4, 8, 16, 32, 64, 128>>
ByteToBit(ch) == [k \in 1..8 |-> (ch \div Weights[k]) % 2]
BitToByte(bit) ==
  bit[1] + 2 * bit[2] + 4 * bit[3] + 8 * bit[4] + 16 * bit[5] + 32 * bit[6] + 64 * bit[7] + 128 * bit[8]

Char8ToBit64(ch) == [k \in 1..64 |-> ByteToBit(ch[((k - 1) \div 8) + 1])[((k - 1) % 8) + 1]]
Bit64ToChar8(bit) == [k \in 1..8 |-> BitToByte(SubSeq(bit, 8 * k - 7, 8 * k))]

Permuted(bits, table) == [k \in DOMAIN table |-> bits[table[k]]]
Xor(left, right) == [k \in DOMAIN left |-> (left[k] + right[k]) % 2]

(* Each half of the key turned to the left. *)
DES_ROL(data, time) ==
  [k \in 1..56 |->
     IF k <= 28 THEN data[((k - 1 + time) % 28) + 1] ELSE data[((k - 29 + time) % 28) + 29]]

(* The sixteen keys of the rounds. *)
DES_MakeSubKeys(key) ==
  LET temp[n \in 0..16] ==
        IF n = 0 THEN Permuted(key, DES_PC_1) ELSE DES_ROL(temp[n - 1], DES_MOVE_TIMES[n])
  IN [n \in 1..16 |-> Permuted(temp[n], DES_PC_2)]

DES_SBOX(data) ==
  LET output(k) ==
        LET b(j) == data[6 * k + j]
            line == 2 * b(1) + b(6)
            row == 8 * b(2) + 4 * b(3) + 2 * b(4) + b(5)
        IN DES_S[k][line][row]
  IN [n \in 1..32 |-> (output((n - 1) \div 4) \div Weights[4 - ((n - 1) % 4)]) % 2]

(* What a round combines the left half with. *)
Mangled(right, subKey) == Permuted(DES_SBOX(Xor(Permuted(right, DES_E_Table), subKey)), DES_P_Table)

(* One round: the halves change places unless it is the last. *)
Round(bits, subKey, last) ==
  LET right == SubSeq(bits, 33, 64)
      left == Xor(SubSeq(bits, 1, 32), Mangled(right, subKey))
  IN IF last THEN left \o right ELSE right \o left

DES_EncryptBlock(plainBlock, subKeys) ==
  LET rounds[cnt \in -1..15] ==
        IF cnt = -1 THEN Permuted(Char8ToBit64(plainBlock), DES_IP_Table)
        ELSE Round(rounds[cnt - 1], subKeys[cnt + 1], cnt = 15)
  IN Bit64ToChar8(Permuted(rounds[15], DES_IP_1_Table))

(* The slip the mutant makes: the halves change places after the last round too. *)
SlipDecryptBlock(cipherBlock, subKeys) ==
  LET rounds[cnt \in 0..16] ==
        IF cnt = 16 THEN Permuted(Char8ToBit64(cipherBlock), DES_IP_Table)
        ELSE Round(rounds[cnt + 1], subKeys[cnt + 1], cnt = 15)
  IN Bit64ToChar8(Permuted(rounds[0], DES_IP_1_Table))

DES_DecryptBlock(cipherBlock, subKeys) ==
  LET rounds[cnt \in 0..16] ==
        IF cnt = 16 THEN Permuted(Char8ToBit64(cipherBlock), DES_IP_Table)
        ELSE Round(rounds[cnt + 1], subKeys[cnt + 1], cnt = 0)
  IN Bit64ToChar8(Permuted(rounds[0], DES_IP_1_Table))

-----------------------------------------------------------------------------
(* The key the rounds use.  The default key is copied when none is passed; one
   that is passed is never copied, and the key block is what was on the stack. *)
KeyBlocks(key) == IF key = NULL THEN {Default} ELSE Keys

Aligned(input) == Len(input) > 0 /\ Len(input) % 8 = 0

Blocks(input) == [n \in 1 .. Len(input) \div 8 |-> SubSeq(input, 8 * n - 7, 8 * n)]

SubKeys(keyBlock) == DES_MakeSubKeys(Char8ToBit64(keyBlock))

(* The outputs a call may leave; none when it is refused. *)
DES__encrypt(input, key) ==
  {FlattenSeq([n \in DOMAIN Blocks(input) |-> DES_EncryptBlock(Blocks(input)[n], SubKeys(keyBlock))]) :
     keyBlock \in IF Aligned(input) THEN KeyBlocks(key) ELSE {}}

DES__decrypt(input, key) ==
  {FlattenSeq([n \in DOMAIN Blocks(input) |-> DES_DecryptBlock(Blocks(input)[n], SubKeys(keyBlock))]) :
     keyBlock \in IF Aligned(input) THEN KeyBlocks(key) ELSE {}}

-----------------------------------------------------------------------------
(* What was encrypted with the default key is decrypted to what it was: the
   final permutation undoes the initial one, the rounds run backwards over the
   same keys, and only the last round of each leaves the halves in place.  For
   a key that is passed this is not so, because it is not used: the two calls
   may run with different keys. *)
DecryptInverts(input) ==
  Aligned(input) =>
    \A cipher \in DES__encrypt(input, NULL) : DES__decrypt(cipher, NULL) = {input}
=============================================================================
