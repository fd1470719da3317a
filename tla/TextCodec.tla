------------------------------ MODULE TextCodec -----------------------------
(* Two codings of bytes as text: base64 (com/hash.c, with the wrappers for
   strings in toolkit.cpp) and the cipher of encrypt.cpp, which mixes the bits
   of a message and a key and writes them with an alphabet of its own (with the
   wrappers for strings and vectors in toolkit.cpp).

   Bytes are numbers below 256.  A character of base64 is its place in
   base64char, or Pad for '='; a character of the cipher is its code.  The MD5
   digest of a key is a constant. *)
EXTENDS Integers, Sequences, FiniteSets, SequencesExt

CONSTANTS
  KeyDigest(_),      \* the sixteen bytes of the MD5 digest of a key
  Stale(_)           \* what des[2], which is not initialised, holds at a page

Refused == <<-1>>           \* a call that returns -1 and leaves its output alone

(* x cut into pieces of n, of which the last may be shorter. *)
Pieces(x, n) ==
  [k \in 1 .. (Len(x) + n - 1) \div n |->
     SubSeq(x, n * (k - 1) + 1, IF n * k < Len(x) THEN n * k ELSE Len(x))]

MapEach(F(_), pieces) == FlattenSeq([k \in DOMAIN pieces |-> F(pieces[k])])

-----------------------------------------------------------------------------
(* base64 *)

Pad == 64

base64_encode_len(binlength) ==
  4 * ((binlength + (IF binlength % 3 # 0 THEN 3 - (binlength % 3) ELSE 0)) \div 3)

EncodeGroup(b) ==
  LET first == b[1] \div 4
      second == (b[1] % 4) * 16 + (IF Len(b) > 1 THEN b[2] \div 16 ELSE 0)
      third == (b[2] % 16) * 4 + (IF Len(b) > 2 THEN b[3] \div 64 ELSE 0)
  IN CASE Len(b) = 1 -> <<first, second, Pad, Pad>>
       [] Len(b) = 2 -> <<first, second, third, Pad>>
       [] Len(b) = 3 -> <<first, second, third, b[3] % 64>>

base64_encode(bindata) == MapEach(EncodeGroup, Pieces(bindata, 3))

base64_decode_len(base64) ==
  LET padded(k) == IF base64[k] = Pad THEN 1 ELSE 0
      len == Len(base64)
  IN 3 * (len \div 4) - padded(len) - padded(len - 1)

\* The first of two pads is not looked at.
SlipDecodeGroup(c) ==
  LET first == c[1] * 4 + c[2] \div 16
      second == (c[2] % 16) * 16 + c[3] \div 4
  IN IF c[4] = Pad THEN <<first, second>> ELSE <<first, second, (c[3] % 4) * 64 + c[4]>>

DecodeGroup(c) ==
  LET first == c[1] * 4 + c[2] \div 16
      second == (c[2] % 16) * 16 + c[3] \div 4
      third == (c[3] % 4) * 64 + c[4]
  IN IF c[3] = Pad THEN <<first>>
     ELSE IF c[4] = Pad THEN <<first, second>>
     ELSE <<first, second, third>>

(* The first padded group ends the loop. *)
base64_decode(base64) ==
  LET groups == Pieces(base64, 4)
      padded == {k \in DOMAIN groups : Pad \in {groups[k][3], groups[k][4]}}
      last == IF padded = {} THEN Len(groups) ELSE CHOOSE k \in padded : \A l \in padded : k <= l
  IN MapEach(DecodeGroup, SubSeq(groups, 1, last))

(* The wrappers: without output memory they only compute the length; those of
   toolkit.cpp return a string of that length. *)
base64__encode(input) == IF input = <<>> THEN Refused ELSE base64_encode(input)
base64__decode(input) ==
  IF input = <<>> \/ base64_decode_len(input) <= 0 THEN Refused ELSE base64_decode(input)

-----------------------------------------------------------------------------
(* encrypt.cpp *)

ENCODE_TABLE == <<
  50, 49, 48, 54, 70, 52, 53, 51, 69, 56, 55, 57, 67, 65, 66, 68,
  73, 72, 71, 77, 86, 75, 76, 74, 85, 79, 78, 80, 83, 81, 82, 84,
  89, 88, 87, 99, 108, 97, 98, 90, 107, 101, 100, 102, 105, 103, 104, 106,
  111, 110, 109, 115, 40, 113, 114, 112, 39, 117, 116, 118, 121, 119, 120, 122>>

(* From 32 to 127: no other code is in the alphabet. *)
DECODE_TABLE == <<
  -1, -1, -1, -1, -1, -1, -1, 56, 52, -1, -1, -1, -1, -1, -1, -1,
  2, 1, 0, 7, 5, 6, 3, 10, 9, 11, -1, -1, -1, -1, -1, -1,
  -1, 13, 14, 12, 15, 8, 4, 18, 17, 16, 23, 21, 22, 19, 26, 25,
  27, 29, 30, 28, 31, 24, 20, 34, 33, 32, 39, -1, -1, -1, -1, -1,
  -1, 37, 38, 35, 42, 41, 43, 45, 46, 44, 47, 40, 36, 50, 49, 48,
  55, 53, 54, 51, 58, 57, 59, 61, 62, 60, 63, -1, -1, -1, -1, -1>>

Tilde == 126

SlipDecoded(code) == IF code \in 33..127 THEN DECODE_TABLE[code - 32] ELSE -1    \* the entry before

Decoded(code) == IF code \in 32..127 THEN DECODE_TABLE[code - 31] ELSE -1

(* The even bits of x (0x55) together with the odd bits of y (0xAA). *)
Mixed(x, y) ==
  LET bit(v, weight) == ((v \div weight) % 2) * weight IN
  bit(x, 1) + bit(y, 2) + bit(x, 4) + bit(y, 8) + bit(x, 16) + bit(y, 32) + bit(x, 64) + bit(y, 128)

KeyByte(key, i) == key[((i - 1) % Len(key)) + 1]

(* Each byte of the message becomes two: its odd bits among the even bits of
   the key, and its even bits among the odd bits of the key. *)
Blend(ori, key) ==
  [n \in 1 .. 2 * Len(ori) |->
     LET i == (n + 1) \div 2 IN
     IF n % 2 = 1 THEN Mixed(KeyByte(key, i), ori[i]) ELSE Mixed(ori[i], KeyByte(key, i))]

EncodePage(b) ==
  LET page == <<b[1] \div 4, (b[1] % 4) * 16 + b[2] \div 16,
                (b[2] % 16) * 4 + b[3] \div 64, b[3] % 64>>
  IN [j \in 1..4 |-> ENCODE_TABLE[page[j] + 1]]

encrypt(ori, key) ==
  LET blend == Blend(ori, key)
      symbol_add == IF Len(blend) % 3 = 0 THEN 0 ELSE 3 - (Len(blend) % 3)
      text == MapEach(EncodePage, Pieces(blend \o [k \in 1..symbol_add |-> 0], 3))
      dstlen == Len(text)
  IN IF ori = <<>> \/ Len(key) < 8 THEN Refused
     ELSE [k \in 1..dstlen |-> IF k > dstlen - symbol_add THEN Tilde ELSE text[k]]

\* |= of two bytes.
Or(x, y) ==
  LET bit(weight) == IF (x \div weight) % 2 = 1 \/ (y \div weight) % 2 = 1 THEN weight ELSE 0
  IN bit(1) + bit(2) + bit(4) + bit(8) + bit(16) + bit(32) + bit(64) + bit(128)

(* Three bytes of a page; what a tilde would add is left out, and after a third
   one the last byte is what was there before.  A code outside the alphabet is
   not refused: the byte it is stored in never equals -1, and counts as 255. *)
DecodePage(c) ==
  LET v == [j \in 1..4 |-> IF c[j] = Tilde THEN Tilde
                            ELSE IF Decoded(c[j]) = -1 THEN 255 ELSE Decoded(c[j])]
      first == ((v[1] * 4) % 256) + (v[2] % 64) \div 16
      second == (v[2] % 16) * 16 + (IF c[3] = Tilde THEN 0 ELSE (v[3] % 64) \div 4)
      third == IF c[3] = Tilde THEN Or(Stale(c), IF c[4] = Tilde THEN 0 ELSE v[4]) ELSE (v[3] * 64) % 256
  IN <<first, second, IF Tilde \in {c[3], c[4]} THEN third ELSE IF v[4] = 255 THEN 255 ELSE third + v[4]>>

decrypt(crypt, key) ==
  LET tildes == {k \in DOMAIN crypt : crypt[k] = Tilde /\ k % 4 \in {0, 3}}
      dstlen == 3 * (Len(crypt) \div 4) - Cardinality(tildes)
      blend == MapEach(DecodePage, Pieces(crypt, 4))
      out == [i \in 1 .. dstlen \div 2 |-> Mixed(blend[2 * i], blend[2 * i - 1])]
      keys == [i \in 1 .. dstlen \div 2 |-> Mixed(blend[2 * i - 1], blend[2 * i])]
  IN IF crypt = <<>> \/ Len(crypt) % 4 # 0 \/ Len(key) < 8 \/ dstlen % 2 # 0
        \/ \E i \in DOMAIN keys : keys[i] # KeyByte(key, i)
     THEN Refused
     ELSE out

(* A key that is too short or not a multiple of eight is replaced by its digest. *)
encrypt_key_format(key) == IF Len(key) < 16 \/ Len(key) % 8 # 0 THEN KeyDigest(key) ELSE key

EncryptString(origin, okey) == encrypt(origin, encrypt_key_format(okey))
DecryptString(crypt, okey) == decrypt(crypt, encrypt_key_format(okey))

(* For vectors the text is appended to what the output holds. *)
DecryptVector(crypt, okey, out) ==
  LET text == DecryptString(crypt, okey) IN IF text = Refused THEN out ELSE out \o text

-----------------------------------------------------------------------------
(* What base64 decodes is what it encoded, and the lengths that a caller asks
   for before it allocates are those of the result. *)
Base64Inverts(input) ==
  input # <<>> =>
    LET text == base64__encode(input) IN
    /\ Len(text) = base64_encode_len(Len(input))
    /\ base64_decode_len(text) = Len(input)
    /\ base64__decode(text) = input

(* What was encrypted is decrypted to what it was with the same key, whatever
   the length of the message and of the key, and is refused with a key that
   differs where the message used it. *)
CipherInverts(input, key, other) ==
  input # <<>> =>
    LET text == EncryptString(input, key)
        used == 1..Len(input)
        a == encrypt_key_format(key)
        b == encrypt_key_format(other)
    IN /\ DecryptString(text, key) = input
       /\ DecryptVector(text, key, <<>>) = input
       /\ DecryptString(text, other) =
            IF \A i \in used : KeyByte(a, i) = KeyByte(b, i) THEN input ELSE Refused
=============================================================================
