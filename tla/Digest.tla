------------------------------- MODULE Digest -------------------------------
(* The message digests of com/hash.c: MD5__Init, MD5__Update and MD5__Final,
   which take a message in pieces, and sha256, which takes it at once.

   What the rounds of MD5__Transform and of sha256 compute is left out: a hash
   is the sequence of the blocks that went through the rounds, so that two
   hashes are equal exactly when the same blocks were digested in the same
   order.  The sizes are parameters: a block has 64 bytes in the code, a word 4
   bytes and a byte 256 values.  The bytes of a message are opaque.

   Lengths are numbers here: those that inputLen (32 bits) and orilen (a signed
   int) hold with room for a block and the padding after them.  The shift of
   orilen to bits is taken to wrap, as it does in the builds. *)
EXTENDS Integers, Sequences, SequencesExt

CONSTANTS
  Block,           \* bytes of a block
  WordBytes,       \* bytes of a word
  ByteValues,      \* values of a byte
  Marker,          \* the byte that ends a message in its padding (0x80)
  Message,         \* the longest message of a behaviour
  Pieces           \* the lengths a caller passes to MD5__Update

(* The weights of the bytes of a number, and the values of a word. *)
Power[n \in Nat] == IF n = 0 THEN 1 ELSE ByteValues * Power[n - 1]
Word == Power[WordBytes]
Field == 2 * WordBytes                    \* bytes of the length of a message

VARIABLES
  md5ctx,    \* MD5_CTX: count (low word, high word), buffer, state (the blocks digested)
  fed,       \* how many bytes of Message went through MD5__Update
  digest     \* what the last call returned: the hash, of which message, by which digest

vars == <<md5ctx, fed, digest>>

NULL == <<>>
Zeros(n) == [k \in 1..n |-> 0]

InitialContext == [count |-> <<0, 0>>, buffer |-> Zeros(Block), state |-> <<>>]

Init ==
  /\ md5ctx = InitialContext
  /\ fed = 0
  /\ digest = NULL

-----------------------------------------------------------------------------
(* MD5 *)

(* The bytes of a word, the least significant first. *)
Encode(word) == [k \in 1..WordBytes |-> (word \div Power[k - 1]) % ByteValues]

(* MD5__memcpy into the buffer of a context, from position index on. *)
Copied(buffer, index, input) ==
  [p \in 1..Block |->
     IF p \in index + 1 .. index + Len(input) THEN input[p - index] ELSE buffer[p]]

(* MD5__Transform of some blocks, one after the other. *)
Transform(state, blocks) == state \o blocks

Index(ctx) == (ctx.count[1] \div 8) % Block

Counted(count, len) ==
  LET low == (count[1] + 8 * len) % Word
      carry == IF low < (8 * len) % Word THEN 1 ELSE 0
  IN <<low, (count[2] + carry + (8 * len) \div Word) % Word>>

(* MD5__Update: the buffer is completed and digested once the input reaches its
   end, whole blocks are digested where they are, and the rest is kept. *)
Update(ctx, input) ==
  LET index == Index(ctx)
      partLen == Block - index
      whole == (Len(input) - partLen) \div Block
      done == partLen + whole * Block
      first == Copied(ctx.buffer, index, SubSeq(input, 1, partLen))
      others == [k \in 1..whole |->
                   SubSeq(input, partLen + (k - 1) * Block + 1, partLen + k * Block)]
      count == Counted(ctx.count, Len(input))
  IN IF Len(input) >= partLen
     THEN [count |-> count,
           buffer |-> Copied(first, 0, SubSeq(input, done + 1, Len(input))),
           state |-> Transform(ctx.state, <<first>> \o others)]
     ELSE [ctx EXCEPT !.count = count, !.buffer = Copied(@, index, input)]

(* The slip the mutant makes: the padding is chosen by the wrong boundary. *)
SlipPadLen(index) ==
  IF index <= Block - Field THEN Block - Field - index ELSE 2 * Block - Field - index

(* MD5__Final: the padding up to the field of the length, then the count as it
   was before the padding. *)
PadLen(index) ==
  IF index < Block - Field THEN Block - Field - index ELSE 2 * Block - Field - index

PADDING == <<Marker>> \o Zeros(Block - 1)

Final(ctx) ==
  LET bits == Encode(ctx.count[1]) \o Encode(ctx.count[2])
      padding == SubSeq(PADDING, 1, PadLen(Index(ctx)))
  IN Update(Update(ctx, padding), bits).state

MD5Update ==
  \E length \in Pieces :
    /\ fed + length <= Len(Message)
    /\ md5ctx' = Update(md5ctx, SubSeq(Message, fed + 1, fed + length))
    /\ fed' = fed + length
    /\ digest' = NULL

(* The context is cleared and initialised again: it can take another message. *)
MD5Final ==
  /\ digest' = [by |-> "md5", of |-> fed, hash |-> Final(md5ctx)]
  /\ md5ctx' = InitialContext
  /\ fed' = 0

-----------------------------------------------------------------------------
(* sha256 *)

ActLen(orilen) ==
  orilen + (IF orilen % Block >= (Block - Field)
            THEN 2 * Block - (orilen % Block)
            ELSE Block - (orilen % Block))

(* Where byte i of the message is stored: the bytes of a word are reversed, so
   that the words can be read with the byte order of the processor. *)
Stored(i) == i + (WordBytes - 1) - 2 * (i % WordBytes)

(* The memory the padded message is laid out in.  The two words of the length
   are stored as integers. *)
Laid(input) ==
  LET orilen == Len(input)
      actlen == ActLen(orilen)
      bytes == [p \in 0 .. actlen - 1 |->
                  LET i == Stored(p) IN           \* Stored is its own inverse
                  IF i < orilen THEN input[i + 1] ELSE IF i = orilen THEN Marker ELSE 0]
      low == Encode((orilen * 8) % Word)
      high == Encode((orilen * 8) \div Word)
  IN [p \in 0 .. actlen - 1 |->
        IF p >= actlen - WordBytes THEN low[p - (actlen - WordBytes) + 1]
        ELSE IF p >= actlen - Field THEN high[p - (actlen - Field) + 1]
        ELSE bytes[p]]

(* The bytes of the words of block n, from the most significant of each. *)
Words(memory, n) ==
  [k \in 1..Block |-> memory[n * Block + Stored(k - 1)]]

Sha256Blocks(input) ==
  LET memory == Laid(input) IN
  [n \in 1 .. ActLen(Len(input)) \div Block |-> Words(memory, n - 1)]

(* sha256 of as much of the message as the context was given.  Without memory
   for the padded message a null pointer is returned. *)
Sha256 ==
  /\ \/ digest' = [by |-> "sha256", of |-> fed, hash |-> Sha256Blocks(SubSeq(Message, 1, fed))]
     \/ digest' = NULL
  /\ UNCHANGED <<md5ctx, fed>>

Next == MD5Update \/ MD5Final \/ Sha256

Spec == Init /\ [][Next]_vars

-----------------------------------------------------------------------------
(* The message, the marker, as few zeros as make the whole a multiple of the
   block, and the length in bits. *)
Padded(input, length) ==
  LET n == Len(input)
      zeros == CHOOSE z \in 0 .. Block - 1 : (n + 1 + z + Field) % Block = 0
      whole == input \o <<Marker>> \o Zeros(zeros) \o length
  IN [k \in 1 .. Len(whole) \div Block |-> SubSeq(whole, (k - 1) * Block + 1, k * Block)]

LittleEndian(value) == [k \in 1..Field |-> (value \div Power[k - 1]) % ByteValues]
BigEndian(value) == Reverse(LittleEndian(value))

(* A digest is that of the message, padded as RFC 1321 and FIPS 180 define it,
   however the message was cut into pieces and whatever the context digested
   before: the carry between the words of the count, the block that the padding
   may add and the rest that the buffer keeps between two calls all agree. *)
DigestOfTheMessage ==
  digest # NULL =>
    LET length == 8 * digest.of IN
    digest.hash = Padded(SubSeq(Message, 1, digest.of),
                         IF digest.by = "md5" THEN LittleEndian(length) ELSE BigEndian(length))
=============================================================================
