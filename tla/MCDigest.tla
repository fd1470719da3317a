------------------------------ MODULE MCDigest ------------------------------
(* The digests of com/hash.c with the property that FunctionProofs proves of them
   and MCLibrary checks. *)
EXTENDS Integers, Sequences

CONSTANTS Block, WordBytes, DigestValues, Marker, Message, PieceLengths

VARIABLES md5ctx, fed, digest

Digests == INSTANCE Digest WITH ByteValues <- DigestValues, Pieces <- PieceLengths

\* A block is whole words and longer than the length of a message, and a count
\* of bits that wraps does so at the end of a block: 64, 4 and 256 in the code.
ASSUME DigestAssumption ==
  /\ WordBytes \in Nat \ {0} /\ DigestValues \in Nat \ {0}
  /\ Block \in Nat /\ 2 * WordBytes < Block
  /\ \E n \in 1..Block : Block = WordBytes * n
  /\ \E n \in 1..Digests!Word : Digests!Word = (8 * Block) * n
  /\ Message \in Seq({Message[i] : i \in DOMAIN Message}) /\ PieceLengths \subseteq Nat

(* A digest depends on the message, not on its pieces (module Digest). *)
DigestOfTheMessage == Digests!DigestOfTheMessage
=============================================================================
