---------------------------- MODULE FileTransfer ----------------------------
(* The file calls of com/posix_ifos.c: open, seek, close and the loops that
   read or write until they are done, by several threads that may share
   descriptors.  There is one file, a sequence of bytes with room for Capacity,
   and /dev/random, which has bytes without end.

   The kernel (external) moves any part of what it is asked to, is interrupted,
   fails, or has nothing more: the end of the file, a full disk. *)
EXTENDS Integers, Sequences, FiniteSets, SequencesExt

CONSTANTS Procs,
          Fds,        \* descriptors; 0 is one like any other
          Sizes,      \* the sizes asked for
          Capacity    \* bytes the disk has room for

VARIABLES
  file,    \* its bytes; Absent before it is created
  desc,    \* per descriptor: closed, or what it was opened for and its offset
  call,    \* per thread: the call it is in, or how its last one returned
  moved    \* history, per thread: the bytes the kernel moved for the call, in order

vars == <<file, desc, call, moved>>

Old == -1              \* what the buffer held before the call
Absent == <<Old>>
Closed == [use |-> "closed", pos |-> 0]
Returned(asked, ret, ended) == [op |-> "idle", asked |-> asked, ret |-> ret, ended |-> ended]
Idle(p) == call[p].op = "idle"

Content == IF file = Absent THEN <<>> ELSE file
Free == {fd \in Fds : desc[fd] = Closed}
Lowest == CHOOSE fd \in Free : \A other \in Free : fd <= other

Init ==
  /\ file = Absent
  /\ desc = [fd \in Fds |-> Closed]
  /\ call = [p \in Procs |-> Returned(0, 0, FALSE)]
  /\ moved = [p \in Procs |-> <<>>]

------------------------------------------------------------------------------
(* posix__file_open: the method is the flag without its lowest bit.  A failure
   leaves the file alone. *)
Methods == {"FF_OPEN_EXISTING", "FF_OPEN_ALWAYS", "FF_CREATE_NEWONE", "FF_CREATE_ALWAYS"}

FileOpen(p, method, use) ==
  /\ Idle(p) /\ Free # {}
  /\ IF file = Absent THEN method # "FF_OPEN_EXISTING" ELSE method # "FF_CREATE_NEWONE"
  /\ file' = IF method = "FF_CREATE_ALWAYS" \/ file = Absent THEN <<>> ELSE file
  /\ desc' = [desc EXCEPT ![Lowest] = [use |-> use, pos |-> 0]]
  /\ UNCHANGED <<call, moved>>

\* Descriptor 0 is never closed.
FileClose(p, fd) ==
  /\ Idle(p) /\ desc[fd].use \in {"rd", "rdwr"}
  /\ \A q \in Procs : ~Idle(q) => call[q].fd # fd
  /\ desc' = IF fd > 0 THEN [desc EXCEPT ![fd] = Closed] ELSE desc
  /\ UNCHANGED <<file, call, moved>>

FileSeek(p, fd) ==
  /\ Idle(p) /\ desc[fd].use \in {"rd", "rdwr"}
  /\ \E pos \in 0..Capacity : desc' = [desc EXCEPT ![fd].pos = pos]
  /\ UNCHANGED <<file, call, moved>>

------------------------------------------------------------------------------
(* posix__file_read, posix__file_write, posix__random_block *)

Begin(p, op, fd, size, buffer) ==
  /\ call' = [call EXCEPT ![p] = [op |-> op, fd |-> fd, size |-> size,
                                  offset |-> 0, buffer |-> buffer]]
  /\ moved' = [moved EXCEPT ![p] = <<>>]

FileRead(p, fd, size) ==
  /\ Idle(p) /\ desc[fd].use \in {"rd", "rdwr"}
  /\ Begin(p, "read", fd, size, [i \in 1..size |-> Old])
  /\ UNCHANGED <<file, desc>>

FileWrite(p, fd, size) ==
  /\ Idle(p) /\ desc[fd].use \in {"rd", "rdwr"}
  /\ Begin(p, "write", fd, size, [i \in 1..size |-> i])
  /\ UNCHANGED <<file, desc>>

RandomBlock(p, size) ==
  /\ Idle(p) /\ Free # {}
  /\ desc' = [desc EXCEPT ![Lowest] = [use |-> "random", pos |-> 0]]
  /\ Begin(p, "random", Lowest, size, [i \in 1..size |-> Old])
  /\ UNCHANGED file

(* The file with n bytes of source stored at pos; a hole reads as zeros. *)
Overwritten(pos, bytes) ==
  [i \in 1..(IF pos + Len(bytes) > Len(Content) THEN pos + Len(bytes) ELSE Len(Content)) |->
     IF i \in pos + 1..pos + Len(bytes) THEN bytes[i - pos]
     ELSE IF i <= Len(Content) THEN Content[i] ELSE 0]

(* What the kernel has for the rest of the call: at most so many bytes. *)
Available(c) ==
  CASE c.op = "random" -> c.size
    [] c.op = "read"   -> IF Len(Content) > desc[c.fd].pos THEN Len(Content) - desc[c.fd].pos ELSE 0
    [] c.op = "write"  -> IF Capacity > desc[c.fd].pos THEN Capacity - desc[c.fd].pos ELSE 0

Permitted(c) == c.op = "write" => desc[c.fd].use = "rdwr"

(* The buffer with n more bytes read; writing leaves it alone. *)
Moved(c, bytes) ==
  IF c.op = "write" THEN c.buffer
  ELSE [i \in 1..c.size |-> IF i \in c.offset + 1..c.offset + Len(bytes)
                            THEN bytes[i - c.offset] ELSE c.buffer[i]]

(* What a system call of n bytes moves. *)
Piece(c, n) ==
  CASE c.op = "write"  -> SubSeq(c.buffer, c.offset + 1, c.offset + n)
    [] c.op = "read"   -> SubSeq(Content, desc[c.fd].pos + 1, desc[c.fd].pos + n)
    [] c.op = "random" -> [i \in 1..n |-> c.offset + i]

(* One system call. *)
Transfer(p) ==
  /\ ~Idle(p)
  /\ LET c == call[p]
     IN \E n \in 1..c.size - c.offset :
          /\ c.offset < c.size /\ n <= Available(c)
          /\ Permitted(c)
          /\ moved' = [moved EXCEPT ![p] = @ \o Piece(c, n)]
          /\ call' = [call EXCEPT ![p] = [c EXCEPT !.offset = @ + n, !.buffer = Moved(c, Piece(c, n))]]
          /\ file' = IF c.op = "write" THEN Overwritten(desc[c.fd].pos, Piece(c, n)) ELSE file
          /\ desc' = [desc EXCEPT ![c.fd].pos = IF c.op = "random" THEN 0 ELSE @ + n]

Return(p, ret, ended) ==
  /\ call' = [call EXCEPT ![p] = Returned(@.size, ret, ended)]
  /\ UNCHANGED <<file, moved>>

(* The buffer is full; or the system call returned 0, or found no space. *)
Finish(p) ==
  /\ ~Idle(p)
  /\ \/ call[p].offset = call[p].size
     \/ Permitted(call[p]) /\ Available(call[p]) = 0
  /\ Return(p, call[p].offset, Available(call[p]) = 0)
  /\ desc' = IF call[p].op = "random" THEN [desc EXCEPT ![call[p].fd] = Closed] ELSE desc

\* An interruption ends the call.
SlipInterrupted(p) ==
  /\ ~Idle(p) /\ call[p].offset < call[p].size
  /\ Return(p, call[p].offset, FALSE)
  /\ UNCHANGED desc

(* EINTR: the loop goes round again. *)
Interrupted(p) ==
  /\ ~Idle(p) /\ call[p].offset < call[p].size
  /\ UNCHANGED vars

(* Any other error is returned in place of the count, whatever was moved
   before; random_block does not close its descriptor then. *)
Fails(p) ==
  /\ ~Idle(p) /\ call[p].offset < call[p].size
  /\ Return(p, -1, FALSE)
  /\ UNCHANGED desc

Next ==
  \E p \in Procs :
    \/ \E method \in Methods, use \in {"rd", "rdwr"} : FileOpen(p, method, use)
    \/ \E fd \in Fds : FileClose(p, fd) \/ FileSeek(p, fd)
    \/ \E fd \in Fds, size \in Sizes : FileRead(p, fd, size) \/ FileWrite(p, fd, size)
    \/ \E size \in Sizes : RandomBlock(p, size)
    \/ Transfer(p) \/ Finish(p) \/ Interrupted(p) \/ Fails(p)

Spec == Init /\ [][Next]_vars

------------------------------------------------------------------------------
(* However the kernel cuts a call into pieces, and whoever else uses the
   descriptor between them: what it moved is the beginning of the buffer, every
   byte once and in order; the count returned is the number of bytes moved; and
   fewer than asked for means that there was no more. *)
CountIsMoved ==
  \A p \in Procs :
    /\ ~Idle(p) => SubSeq(call[p].buffer, 1, call[p].offset) = moved[p]
    /\ Idle(p) /\ call[p].ret >= 0 =>
         /\ call[p].ret = Len(moved[p])
         /\ call[p].ret < call[p].asked => call[p].ended
=============================================================================
