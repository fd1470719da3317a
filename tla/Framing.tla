------------------------------- MODULE Framing ------------------------------
(* The packet headers of old.hpp, as the pairs of builder and parser that a TCP
   link is given: the builder writes a header before the data of a packet, the
   parser reads the length of the data from it.

   A header is a record of fields, each a sequence of bytes of which the first
   is stored first; the processor is little endian.  The letters of nspdef's
   opcode are a constant. *)
EXTENDS Integers, Sequences, SequencesExt

CONSTANTS NSPDEF_OPCODE, NoHeader

Refused == -1

(* What each byte of a number counts; no field has more than four. *)
Weights == <<1, 256, 65536, 16777216>>
LittleEndian(value, size) == [k \in 1..size |-> (value \div Weights[k]) % 256]
Number(bytes) ==
  LET part(k) == IF k <= Len(bytes) THEN bytes[k] * Weights[k] ELSE 0
  IN part(1) + part(2) + part(3) + part(4)

-----------------------------------------------------------------------------
(* sw: two flags and two lengths in network byte order. *)

PACKET_FLAG_DATA == 65021       \* 0xFDFD
SwLength == 12
SwMaximum == 52428800           \* 50 << 20

(* convert: every field's bytes are turned round; with both directions or
   neither asked for, nothing is written. *)
Convert(head, bNtoH, bHtoN) ==
  IF bNtoH = bHtoN THEN head ELSE [field \in DOMAIN head |-> Reverse(head[field])]

SwBuilder(cb) ==
  Convert([wFlagHead |-> LittleEndian(PACKET_FLAG_DATA, 2), wPacketFlag |-> LittleEndian(0, 2),
           ulPacketLenght |-> LittleEndian(cb, 4), ulSrcLen |-> LittleEndian(cb, 4)], TRUE, FALSE)

SwParser(dat) ==
  LET head == Convert(dat, FALSE, TRUE) IN
  IF Number(head.wFlagHead) # PACKET_FLAG_DATA THEN Refused
  ELSE IF Number(head.ulPacketLenght) + SwLength >= SwMaximum THEN Refused
  ELSE Number(head.ulPacketLenght)

-----------------------------------------------------------------------------
(* ieee104: an opcode and a length of one byte. *)

IEEE104_OPCODE == 104           \* 0x68
MAXIMUM_IEEE104_PKTCB == 253

SlipIeee104Builder(cb) == [op_ |-> <<IEEE104_OPCODE>>, cb_ |-> LittleEndian(cb, 1)]    \* any length

Ieee104Builder(cb) ==
  IF cb > MAXIMUM_IEEE104_PKTCB THEN NoHeader ELSE [op_ |-> <<IEEE104_OPCODE>>, cb_ |-> LittleEndian(cb, 1)]

Ieee104Parser(dat) ==
  IF dat.op_ # <<IEEE104_OPCODE>> THEN Refused ELSE Number(dat.cb_)

-----------------------------------------------------------------------------
(* nspdef: an opcode of four letters and a length of four bytes. *)

NspdefBuilder(cb) ==
  IF cb <= 0 THEN NoHeader ELSE [op_ |-> NSPDEF_OPCODE, cb_ |-> LittleEndian(cb, 4)]

NspdefParser(dat) ==
  IF dat.op_ # NSPDEF_OPCODE THEN Refused ELSE Number(dat.cb_)

-----------------------------------------------------------------------------
(* A packet that a builder accepts is cut from the stream at its own length by
   the parser of the same protocol, up to the length from which the parser
   refuses what the builder made. *)
FramesInvert(cb) ==
  /\ SwParser(SwBuilder(cb)) = IF cb + SwLength < SwMaximum THEN cb ELSE Refused
  /\ Ieee104Builder(cb) # NoHeader => Ieee104Parser(Ieee104Builder(cb)) = cb
  /\ NspdefBuilder(cb) # NoHeader => NspdefParser(NspdefBuilder(cb)) = cb
=============================================================================
