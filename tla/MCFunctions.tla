----------------------------- MODULE MCFunctions ----------------------------
(* The functions of the library whose result depends on their input alone: they
   are called one after another, each with any input of a constant set.  With
   them come the digests, and the properties that FunctionProofs proves of all
   these and MCLibrary checks. *)
EXTENDS MCDigest

CONSTANTS
  Boxes, DesKeys, DefaultKey,       \* of Des, DES_S, Keys and Default there
  Opcode,                           \* of Framing, NSPDEF_OPCODE there
  KeyDigest(_), Stale(_),           \* of TextCodec
  Nothing,                          \* no pointer, no header
  DesInputs, PacketLengths, Inputs, CipherKeys

VARIABLE call      \* the function that runs and its input, or <<>>

Cipher == INSTANCE Des WITH
  DES_S <- Boxes, Keys <- DesKeys, Default <- DefaultKey, NULL <- Nothing
Codec == INSTANCE TextCodec
Packets == INSTANCE Framing WITH NSPDEF_OPCODE <- Opcode, NoHeader <- Nothing

\* A byte has eight bits, a substitution box gives numbers, and a length is an int.
ASSUME FunctionsAssumption ==
  /\ Boxes \in [0..7 -> [0..3 -> [0..15 -> Nat]]] /\ DefaultKey \in [1..8 -> 0..255]
  /\ DesInputs \subseteq Seq(0..255)
  /\ Inputs \subseteq Seq(0..255) /\ CipherKeys \subseteq Seq(0..255)
  /\ \A key \in CipherKeys : KeyDigest(key) \in Seq(0..255) /\ Len(KeyDigest(key)) = 16
  /\ \A cb \in PacketLengths : cb \in Nat /\ cb <= 2147483647

Calls ==
  ({"des"} \X DesInputs) \cup ({"packet"} \X PacketLengths) \cup ({"base64"} \X Inputs)
    \cup ({"cipher"} \X Inputs \X CipherKeys \X CipherKeys)

CallInit == call = <<>>

Call ==
  /\ call = <<>>
  /\ call' \in Calls

Return ==
  /\ call # <<>>
  /\ call' = <<>>

CallNext == Call \/ Return

CallSpec == CallInit /\ [][CallNext]_call

Runs(name) == call # <<>> /\ call[1] = name

(* DES with the default key (module Des). *)
DesInverts == Runs("des") => Cipher!DecryptInverts(call[2])

(* base64 (module TextCodec). *)
Base64Inverts == Runs("base64") => Codec!Base64Inverts(call[2])

(* The cipher of encrypt.cpp, which refuses a key that differs from the one that
   was used (module TextCodec). *)
CipherInverts == Runs("cipher") => Codec!CipherInverts(call[2], call[3], call[4])

(* The headers of packets (module Framing). *)
PacketsInvert == Runs("packet") => Packets!FramesInvert(call[2])

(* What was encoded is decoded to what it was, at any boundary of padding,
   blocks, counts and lengths. *)
DecodingInverts == DesInverts /\ Base64Inverts /\ CipherInverts /\ PacketsInvert
=============================================================================
