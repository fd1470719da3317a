----------------------------- MODULE FilesProofs ----------------------------
(* The modules about files, for any number of threads, modules, objects and
   descriptors, for files and calls of any length, for any tree: the logger keeps
   one object per module and puts every line in its file, the calls that read and
   write return the number of bytes they have moved, concurrent posix__pmkdirs
   meet, and posix__rm removes what is below its target and nothing else.  The
   specifications and the properties are those that MCFiles checks. *)
EXTENDS MCFiles, SequenceTheorems, WellFoundedInduction, TLAPS

-----------------------------------------------------------------------------
(* The logger's files.  A module gets a new object only when none is live, and
   only log__attach makes or frees one. *)
ObjectsInv ==
  /\ mem \in [Files -> {"live", "free"}]
  /\ module \in [Files -> Modules \cup {None}]
  /\ OneFilePerModule
  /\ DOMAIN pc = Printers /\ DOMAIN line = Printers
  /\ \A p \in Printers : pc[p] = "attach" => line[p][1] \in Modules

LEMMA ObjectsInit == Init => ObjectsInv
BY DEF Init, ObjectsInv, OneFilePerModule, Live

LEMMA ObjectsStep == ObjectsInv /\ [Next]_vars => ObjectsInv'
<1> SUFFICES ASSUME ObjectsInv, [Next]_vars PROVE ObjectsInv'
  OBVIOUS
<1> USE DEF ObjectsInv
<1>1. ASSUME UNCHANGED <<mem, module, line>>, DOMAIN pc' = Printers,
             \A p \in Printers : pc'[p] = "attach" => pc[p] = "attach"
      PROVE  ObjectsInv'
  BY <1>1 DEF OneFilePerModule, Live
<1>2. ASSUME NEW p \in Printers, Attach(p) PROVE ObjectsInv'
  <2> DEFINE m == line[p][1]
  <2>1. PICK o \in IF OfModule(m) # {} THEN OfModule(m) ELSE Files \ Live :
          \/ UNCHANGED <<mem, module>>
          \/ mem' = [mem EXCEPT ![o] = "live"] /\ module' = [module EXCEPT ![o] = m]
          \/ mem' = [mem EXCEPT ![o] = "free"] /\ module' = module
    BY <1>2 DEF Attach, CreateFile, CreateFails, objVars
  <2>2. o \in Files
    BY <2>1 DEF OfModule, Live
  <2>3. /\ line' = line /\ DOMAIN pc' = Printers /\ m \in Modules
        /\ \A q \in Printers : pc'[q] = "attach" => pc[q] = "attach"
    BY <1>2 DEF Attach, At
  <2> HIDE DEF m
  <2>4. mem' \in [Files -> {"live", "free"}] /\ module' \in [Files -> Modules \cup {None}]
    BY <2>1, <2>2, <2>3
  <2>5. OneFilePerModule'
    <3>1. CASE UNCHANGED <<mem, module>>
      BY <3>1 DEF OneFilePerModule, Live
    <3>2. CASE mem' = [mem EXCEPT ![o] = "live"] /\ module' = [module EXCEPT ![o] = m]
      <4>1. \A other \in Live \ {o} : module[other] # m
        BY <2>1 DEF OfModule, OneFilePerModule
      <4> QED
        BY <2>2, <3>2, <4>1 DEF OneFilePerModule, Live
    <3>3. CASE mem' = [mem EXCEPT ![o] = "free"] /\ module' = module
      BY <2>2, <3>3 DEF OneFilePerModule, Live
    <3> QED
      BY <2>1, <3>1, <3>2, <3>3
  <2> QED
    BY <2>3, <2>4, <2>5
<1>3. ASSUME NEW p \in Printers, NEW m \in Modules, Begin(p, m) PROVE ObjectsInv'
  BY <1>3 DEF Begin, At, objVars, OneFilePerModule, Live
<1>4. ASSUME NEW p \in Printers,
             \/ ReadFd(p) \/ WriteLine(p) \/ WriteFails(p) \/ WriteNothing(p)
             \/ LoadCount(p) \/ StoreCount(p) \/ CloseFd(p) \/ ForgetFd(p)
      PROVE  ObjectsInv'
  <2>1. UNCHANGED <<mem, module, line>>
    BY <1>4 DEF ReadFd, WriteLine, WriteFails, WriteNothing, LoadCount, StoreCount, CloseFd, ForgetFd, objVars
  <2>2. PICK there \in {"write", "load", "close", "store", "idle", "forget"} : pc' = [pc EXCEPT ![p] = there]
    BY <1>4 DEF ReadFd, WriteLine, WriteFails, WriteNothing, LoadCount, StoreCount, CloseFd, ForgetFd, At
  <2> QED
    BY <1>1, <2>1, <2>2
<1>5. Tick \/ UNCHANGED vars => ObjectsInv'
  BY <1>1 DEF Tick, vars, objVars
<1> QED
  BY <1>2, <1>3, <1>4, <1>5 DEF Next, Step

(* A module has one file object, however many threads print, and whatever was
   switched, could not be written or could not be created. *)
THEOREM OneFilePerModuleHolds == Spec => []OneFilePerModule
<1>1. ObjectsInv => OneFilePerModule
  BY DEF ObjectsInv
<1> QED
  BY <1>1, ObjectsInit, ObjectsStep, PTL DEF Spec

-----------------------------------------------------------------------------
(* The loops that read and write.  What a call has moved is the part of its
   buffer before its offset; the bytes of the file are numbers. *)
Idling == [op : {"idle"}, asked : Nat, ret : Int, ended : BOOLEAN]
Busy == [op : {"read", "write", "random"}, fd : Fds, size : Nat, offset : Nat, buffer : Seq(Int)]

OpenFiles == [use : {"closed", "rd", "rdwr", "random"}, pos : Nat]

Coherent(c, bytes) ==
  /\ c.op # "idle" =>
       /\ c \in Busy
       /\ Len(c.buffer) = c.size /\ c.offset <= c.size
       /\ Len(bytes) = c.offset
       /\ \A i \in 1..c.offset : c.buffer[i] = bytes[i]
  /\ c.op = "idle" /\ c.ret >= 0 =>
       /\ c.ret = Len(bytes)
       /\ c.ret < c.asked => c.ended

CallsInv ==
  /\ content \in Seq(Int)
  /\ desc \in [Fds -> OpenFiles]
  /\ call \in [Procs -> Idling \cup Busy]
  /\ moved \in [Procs -> Seq(Int)]
  /\ \A p \in Procs : Coherent(call[p], moved[p])

LEMMA LowestIsFree ==
  ASSUME Transfer!Free # {} PROVE Transfer!Lowest \in Transfer!Free
<1>1. Transfer!Free \subseteq Nat
  BY TransferAssumption DEF Transfer!Free
<1>2. PICK low \in Transfer!Free : \A other \in Transfer!Free : ~(<<other, low>> \in OpToRel(<, Nat))
  BY <1>1, NatLessThanWellFounded, WFMin
<1>3. \A other \in Transfer!Free : low <= other
  <2> SUFFICES ASSUME NEW other \in Transfer!Free, other < low PROVE FALSE
    BY <1>1
  <2>1. <<other, low>> \in Nat \X Nat /\ <<other, low>>[1] < <<other, low>>[2]
    BY <1>1
  <2> QED
    BY <2>1, <1>2 DEF OpToRel
<1> QED
  BY <1>2, <1>3 DEF Transfer!Lowest

LEMMA CallsInit == Transfer!Init => CallsInv
BY DEF Transfer!Init, Transfer!Absent, Transfer!Old, Transfer!Closed, Transfer!Returned,
       CallsInv, Coherent, OpenFiles, Idling, Busy

(* Sequences of bytes: a table of n of them, and a part of a sequence. *)
LEMMA Tabulated ==
  ASSUME NEW n \in Nat, NEW f \in [1..n -> Int] PROVE f \in Seq(Int) /\ Len(f) = n
BY SeqDef

LEMMA Part ==
  ASSUME NEW s \in Seq(Int), NEW o \in Nat, NEW n \in Nat, o + n <= Len(s)
  PROVE  /\ SubSeq(s, o + 1, o + n) \in Seq(Int)
         /\ Len(SubSeq(s, o + 1, o + n)) = n
         /\ \A i \in 1..n : SubSeq(s, o + 1, o + n)[i] = s[o + i]
<1>1. o + 1 \in Int /\ o + n \in Int /\ \A i \in o + 1..o + n : s[i] \in Int
  BY ElementOfSeq
<1>2. /\ SubSeq(s, o + 1, o + n) \in Seq(Int)
      /\ Len(SubSeq(s, o + 1, o + n)) = IF o + 1 <= o + n THEN (o + n) - (o + 1) + 1 ELSE 0
      /\ \A i \in 1..(o + n) - (o + 1) + 1 : SubSeq(s, o + 1, o + n)[i] = s[(o + 1) + i - 1]
  BY <1>1, SubSeqProperties
<1>3. Len(SubSeq(s, o + 1, o + n)) = n
  BY <1>2
<1>4. ASSUME NEW i \in 1..n PROVE SubSeq(s, o + 1, o + n)[i] = s[o + i]
  <2>1. i \in 1..(o + n) - (o + 1) + 1 /\ (o + 1) + i - 1 = o + i
    OBVIOUS
  <2> QED
    BY <1>2, <2>1
<1> QED
  BY <1>2, <1>3, <1>4

(* Writing leaves a sequence of bytes. *)
LEMMA OverwrittenIsAFile ==
  ASSUME content \in Seq(Int), NEW pos \in Nat, NEW bytes \in Seq(Int)
  PROVE  Transfer!Overwritten(pos, bytes) \in Seq(Int)
<1>1. Transfer!Content \in Seq(Int)
  BY DEF Transfer!Content
<1> DEFINE n == IF pos + Len(bytes) > Len(Transfer!Content) THEN pos + Len(bytes) ELSE Len(Transfer!Content)
           byte(i) == IF i \in pos + 1..pos + Len(bytes) THEN bytes[i - pos]
                      ELSE IF i <= Len(Transfer!Content) THEN Transfer!Content[i] ELSE 0
<1>2. n \in Nat
  BY <1>1
<1>3. \A i \in 1..n : byte(i) \in Int
  <2> SUFFICES ASSUME NEW i \in 1..n PROVE byte(i) \in Int
    OBVIOUS
  <2>1. i \in pos + 1..pos + Len(bytes) => bytes[i - pos] \in Int
    BY ElementOfSeq, <1>2
  <2>2. i <= Len(Transfer!Content) => Transfer!Content[i] \in Int
    BY <1>1, <1>2
  <2> QED
    BY <2>1, <2>2
<1> HIDE DEF n, byte
<1>4. [i \in 1..n |-> byte(i)] \in [1..n -> Int]
  BY <1>3
<1>5. [i \in 1..n |-> byte(i)] \in Seq(Int)
  BY <1>2, <1>4, SeqDef
<1> QED
  BY <1>5 DEF Transfer!Overwritten, n, byte

(* A system call of n bytes moves n bytes. *)
LEMMA BytesMoved ==
  ASSUME CallsInv, NEW p \in Procs, call[p] \in Busy, NEW n \in 1..call[p].size - call[p].offset,
         n <= Transfer!Available(call[p])
  PROVE  /\ Transfer!Piece(call[p], n) \in Seq(Int) /\ Len(Transfer!Piece(call[p], n)) = n
         /\ call[p].op = "write" => \A i \in 1..n : Transfer!Piece(call[p], n)[i] = call[p].buffer[call[p].offset + i]
<1> DEFINE c == call[p]
           pos == desc[call[p].fd].pos
<1>1. /\ c.op \in {"read", "write", "random"} /\ c.fd \in Fds
      /\ c.size \in Nat /\ c.offset \in Nat /\ c.buffer \in Seq(Int) /\ Len(c.buffer) = c.size
  BY DEF CallsInv, Coherent, Busy
<1>2. pos \in Nat /\ Transfer!Content \in Seq(Int)
  BY <1>1 DEF CallsInv, OpenFiles, Transfer!Content
<1>3. n \in Nat /\ n >= 1 /\ c.offset + n <= c.size
  BY <1>1
<1>4. CASE c.op = "write"
  <2>1. c.offset + n <= Len(c.buffer)
    BY <1>1, <1>3
  <2>2. Transfer!Piece(c, n) = SubSeq(c.buffer, c.offset + 1, c.offset + n)
    BY <1>4 DEF Transfer!Piece
  <2>3. /\ SubSeq(c.buffer, c.offset + 1, c.offset + n) \in Seq(Int)
        /\ Len(SubSeq(c.buffer, c.offset + 1, c.offset + n)) = n
        /\ \A i \in 1..n : SubSeq(c.buffer, c.offset + 1, c.offset + n)[i] = c.buffer[c.offset + i]
    BY <1>1, <1>3, <2>1, Part
  <2> QED
    BY <2>2, <2>3
<1>5. CASE c.op = "read"
  <2>1. pos + n <= Len(Transfer!Content)
    BY <1>2, <1>3, <1>5 DEF Transfer!Available
  <2>2. Transfer!Piece(c, n) = SubSeq(Transfer!Content, pos + 1, pos + n)
    BY <1>5 DEF Transfer!Piece
  <2>3. /\ SubSeq(Transfer!Content, pos + 1, pos + n) \in Seq(Int)
        /\ Len(SubSeq(Transfer!Content, pos + 1, pos + n)) = n
    BY <1>2, <1>3, <2>1, Part
  <2> QED
    BY <1>5, <2>2, <2>3
<1>6. CASE c.op = "random"
  <2>1. Transfer!Piece(c, n) = [i \in 1..n |-> c.offset + i]
    BY <1>6 DEF Transfer!Piece
  <2>2. [i \in 1..n |-> c.offset + i] \in [1..n -> Int]
    BY <1>1
  <2>3. Transfer!Piece(c, n) \in Seq(Int) /\ Len(Transfer!Piece(c, n)) = n
    BY <1>3, <2>1, <2>2, Tabulated
  <2> QED
    BY <1>6, <2>3
<1> QED
  BY <1>1, <1>4, <1>5, <1>6

(* A step of one thread leaves the calls of the others alone. *)
LEMMA OneCall ==
  ASSUME CallsInv, NEW p \in Procs, NEW c \in Idling \cup Busy, NEW bytes \in Seq(Int), Coherent(c, bytes),
         content' \in Seq(Int), desc' \in [Fds -> OpenFiles],
         call' = [call EXCEPT ![p] = c], moved' = [moved EXCEPT ![p] = bytes]
  PROVE  CallsInv'
<1>1. call' \in [Procs -> Idling \cup Busy] /\ moved' \in [Procs -> Seq(Int)]
  BY DEF CallsInv
<1>2. ASSUME NEW q \in Procs PROVE Coherent(call'[q], moved'[q])
  <2>1. CASE q = p
    <3>1. call'[q] = c /\ moved'[q] = bytes
      BY <2>1 DEF CallsInv
    <3> QED
      BY <3>1
  <2>2. CASE q # p
    <3>1. call'[q] = call[q] /\ moved'[q] = moved[q]
      BY <2>2 DEF CallsInv
    <3> QED
      BY <3>1 DEF CallsInv
  <2> QED
    BY <2>1, <2>2
<1>3. (\A q \in Procs : Coherent(call[q], moved[q]))'
  BY <1>2 DEF Coherent
<1> QED
  BY <1>1, <1>3 DEF CallsInv

LEMMA CallsStep == CallsInv /\ [Transfer!Next]_transferVars => CallsInv'
<1> SUFFICES ASSUME CallsInv, [Transfer!Next]_transferVars PROVE CallsInv'
  OBVIOUS
<1>1. ASSUME call' = call, moved' = moved, content' \in Seq(Int), desc' \in [Fds -> OpenFiles]
      PROVE  CallsInv'
  BY <1>1 DEF CallsInv, Coherent
<1>2. ASSUME NEW p \in Procs, NEW method \in Transfer!Methods, NEW use \in {"rd", "rdwr"},
             Transfer!FileOpen(p, method, use)
      PROVE  CallsInv'
  <2>1. content' \in {<<>>, content} /\ content \in Seq(Int) /\ <<>> \in Seq(Int)
    BY <1>2 DEF Transfer!FileOpen, CallsInv
  <2>2. desc' \in [Fds -> OpenFiles]
    BY <1>2 DEF Transfer!FileOpen, CallsInv, OpenFiles
  <2> QED
    BY <1>1, <1>2, <2>1, <2>2 DEF Transfer!FileOpen
<1>3. ASSUME NEW p \in Procs, NEW to \in Fds, Transfer!FileClose(p, to) PROVE CallsInv'
  BY <1>1, <1>3 DEF Transfer!FileClose, Transfer!Closed, CallsInv, OpenFiles
<1>4. ASSUME NEW p \in Procs, NEW to \in Fds, Transfer!FileSeek(p, to) PROVE CallsInv'
  <2>1. PICK pos \in 0..Capacity : desc' = [desc EXCEPT ![to].pos = pos]
    BY <1>4 DEF Transfer!FileSeek
  <2>2. pos \in Nat
    BY TransferAssumption
  <2>3. desc' \in [Fds -> OpenFiles]
    BY <2>1, <2>2 DEF CallsInv, OpenFiles
  <2> QED
    BY <1>1, <1>4, <2>3 DEF Transfer!FileSeek, CallsInv
<1>5. ASSUME NEW p \in Procs, NEW op \in {"read", "write", "random"}, NEW to \in Fds, NEW size \in Nat,
             NEW buffer \in Seq(Int), Len(buffer) = size,
             Transfer!Begin(p, op, to, size, buffer),
             content' = content, desc' \in [Fds -> OpenFiles]
      PROVE  CallsInv'
  <2> DEFINE c == [op |-> op, fd |-> to, size |-> size, offset |-> 0, buffer |-> buffer]
  <2>1. c \in Busy /\ <<>> \in Seq(Int) /\ content' \in Seq(Int)
    BY <1>5 DEF Busy, CallsInv
  <2>2. Coherent(c, <<>>)
    BY <1>5, <2>1 DEF Coherent
  <2>3. call' = [call EXCEPT ![p] = c] /\ moved' = [moved EXCEPT ![p] = <<>>]
    BY <1>5 DEF Transfer!Begin
  <2> QED
    BY <1>5, <2>1, <2>2, <2>3, OneCall
<1>6. ASSUME NEW p \in Procs, NEW to \in Fds, NEW size \in Sizes,
             Transfer!FileRead(p, to, size) \/ Transfer!FileWrite(p, to, size)
      PROVE  CallsInv'
  <2>1. size \in Nat
    BY TransferAssumption
  <2>2. [i \in 1..size |-> Transfer!Old] \in Seq(Int) /\ [i \in 1..size |-> i] \in Seq(Int)
    BY <2>1, SeqDef DEF Transfer!Old
  <2>3. Len([i \in 1..size |-> Transfer!Old]) = size /\ Len([i \in 1..size |-> i]) = size
    BY <2>1
  <2> QED
    BY <1>5, <1>6, <2>1, <2>2, <2>3 DEF Transfer!FileRead, Transfer!FileWrite, CallsInv
<1>7. ASSUME NEW p \in Procs, NEW size \in Sizes, Transfer!RandomBlock(p, size) PROVE CallsInv'
  <2>1. size \in Nat /\ Transfer!Lowest \in Fds
    BY <1>7, TransferAssumption, LowestIsFree DEF Transfer!RandomBlock, Transfer!Free
  <2>2. [i \in 1..size |-> Transfer!Old] \in Seq(Int) /\ Len([i \in 1..size |-> Transfer!Old]) = size
    BY <2>1, SeqDef DEF Transfer!Old
  <2>3. desc' \in [Fds -> OpenFiles]
    BY <1>7 DEF Transfer!RandomBlock, CallsInv, OpenFiles
  <2> QED
    BY <1>5, <1>7, <2>1, <2>2, <2>3 DEF Transfer!RandomBlock
<1>8. ASSUME NEW p \in Procs, Transfer!Transfer(p) PROVE CallsInv'
  <2> DEFINE c == call[p]
             pos == desc[call[p].fd].pos
  <2>1. PICK n \in 1..c.size - c.offset :
          /\ n <= Transfer!Available(c)
          /\ moved' = [moved EXCEPT ![p] = @ \o Transfer!Piece(c, n)]
          /\ call' = [call EXCEPT ![p] = [c EXCEPT !.offset = @ + n, !.buffer = Transfer!Moved(c, Transfer!Piece(c, n))]]
          /\ content' = IF c.op = "write" THEN Transfer!Overwritten(pos, Transfer!Piece(c, n)) ELSE content
          /\ desc' = [desc EXCEPT ![c.fd].pos = IF c.op = "random" THEN 0 ELSE @ + n]
    BY <1>8 DEF Transfer!Transfer, Transfer!Piece
  <2> DEFINE bytes == Transfer!Piece(c, n)
             d == [c EXCEPT !.offset = @ + n, !.buffer = Transfer!Moved(c, bytes)]
  <2>2. c \in Busy /\ Coherent(c, moved[p]) /\ c.op # "idle" /\ moved[p] \in Seq(Int)
    BY <1>8 DEF Transfer!Transfer, Transfer!Idle, CallsInv, Coherent
  <2>3. /\ c.op \in {"read", "write", "random"} /\ c.fd \in Fds
        /\ c.buffer \in Seq(Int) /\ Len(c.buffer) = c.size
        /\ Len(moved[p]) = c.offset /\ \A i \in 1..c.offset : c.buffer[i] = moved[p][i]
    BY <2>2 DEF Coherent, Busy
  <2>n. c.size \in Nat /\ c.offset \in Nat /\ n \in Nat /\ n >= 1 /\ c.offset + n <= c.size
    BY <2>2 DEF Busy
  <2>4. /\ bytes \in Seq(Int) /\ Len(bytes) = n
        /\ c.op = "write" => \A i \in 1..n : bytes[i] = c.buffer[c.offset + i]
    BY <2>1, <2>2, BytesMoved
  <2>5. pos \in Nat /\ desc \in [Fds -> OpenFiles] /\ call \in [Procs -> Idling \cup Busy]
    BY <2>3 DEF CallsInv, OpenFiles
  <2>6. call' = [call EXCEPT ![p] = d] /\ moved' = [moved EXCEPT ![p] = moved[p] \o bytes]
    BY <2>1
  <2>7. content' \in Seq(Int)
    BY <2>1, <2>4, <2>5, OverwrittenIsAFile DEF CallsInv
  <2>8. desc' \in [Fds -> OpenFiles]
    <3> DEFINE next == IF c.op = "random" THEN 0 ELSE pos + n
    <3>1. desc' = [desc EXCEPT ![c.fd].pos = next]
      BY <2>1
    <3>2. next \in Nat
      BY <2>5, <2>n
    <3> HIDE DEF next
    <3> QED
      BY <2>3, <2>5, <3>1, <3>2 DEF OpenFiles
  <2> HIDE DEF bytes, pos, c
  <2>9. Transfer!Moved(c, bytes) \in Seq(Int) /\ Len(Transfer!Moved(c, bytes)) = c.size
        /\ \A i \in 1..c.offset + n : Transfer!Moved(c, bytes)[i] =
             IF i <= c.offset THEN c.buffer[i] ELSE bytes[i - c.offset]
    <3>1. CASE c.op = "write"
      <4>1. Transfer!Moved(c, bytes) = c.buffer
        BY <3>1 DEF Transfer!Moved
      <4>2. ASSUME NEW i \in 1..c.offset + n, ~(i <= c.offset) PROVE c.buffer[i] = bytes[i - c.offset]
        <5>1. i - c.offset \in 1..n /\ c.offset + (i - c.offset) = i
          BY <2>n, <4>2
        <5> QED
          BY <2>4, <3>1, <5>1
      <4> QED
        BY <2>3, <2>n, <4>1, <4>2
    <3>2. CASE c.op # "write"
      <4> DEFINE byte(i) == IF i \in c.offset + 1..c.offset + Len(bytes)
                            THEN bytes[i - c.offset] ELSE c.buffer[i]
      <4>1. Transfer!Moved(c, bytes) = [i \in 1..c.size |-> byte(i)]
        BY <3>2 DEF Transfer!Moved
      <4>2. ASSUME NEW i \in 1..c.size PROVE byte(i) \in Int
        <5>1. i \in c.offset + 1..c.offset + n => i - c.offset \in 1..n
          BY <2>n
        <5>2. c.buffer[i] \in Int
          BY <2>3, ElementOfSeq
        <5> QED
          BY <2>4, <5>1, <5>2, ElementOfSeq
      <4>3. ASSUME NEW i \in 1..c.offset + n
            PROVE  byte(i) = IF i <= c.offset THEN c.buffer[i] ELSE bytes[i - c.offset]
        <5>1. i \in c.offset + 1..c.offset + n <=> ~(i <= c.offset)
          BY <2>n
        <5> QED
          BY <2>4, <5>1
      <4>4. 1..c.offset + n \subseteq 1..c.size
        BY <2>n
      <4> HIDE DEF byte
      <4>5. [i \in 1..c.size |-> byte(i)] \in [1..c.size -> Int]
        BY <4>2
      <4>6. [i \in 1..c.size |-> byte(i)] \in Seq(Int) /\ Len([i \in 1..c.size |-> byte(i)]) = c.size
        BY <4>5, <2>n, Tabulated
      <4>7. ASSUME NEW i \in 1..c.offset + n PROVE Transfer!Moved(c, bytes)[i] = byte(i)
        BY <4>1, <4>4
      <4>8. ASSUME NEW i \in 1..c.offset + n
            PROVE  Transfer!Moved(c, bytes)[i] = IF i <= c.offset THEN c.buffer[i] ELSE bytes[i - c.offset]
        BY <4>3, <4>7
      <4>9. Transfer!Moved(c, bytes) \in Seq(Int) /\ Len(Transfer!Moved(c, bytes)) = c.size
        BY <4>1, <4>6
      <4> QED
        BY <4>8, <4>9
    <3> QED
      BY <3>1, <3>2
  <2>10. /\ d \in Busy /\ d.op # "idle" /\ d.size = c.size /\ d.offset = c.offset + n
         /\ d.buffer = Transfer!Moved(c, bytes)
    <3> DEFINE b == Transfer!Moved(c, bytes)
    <3>1. d = [c EXCEPT !.offset = c.offset + n, !.buffer = b]
      OBVIOUS
    <3>2. b \in Seq(Int) /\ c.offset + n \in Nat /\ c \in Busy
      BY <2>2, <2>n, <2>9
    <3> HIDE DEF b, d
    <3> QED
      BY <3>1, <3>2 DEF Busy, b
  <2> HIDE DEF d
  <2>11. /\ moved[p] \o bytes \in Seq(Int) /\ Len(moved[p] \o bytes) = c.offset + n
         /\ \A i \in 1..c.offset + n : (moved[p] \o bytes)[i] =
              IF i <= c.offset THEN moved[p][i] ELSE bytes[i - c.offset]
    <3>1. /\ moved[p] \o bytes \in Seq(Int) /\ Len(moved[p] \o bytes) = Len(moved[p]) + Len(bytes)
          /\ \A i \in 1..Len(moved[p]) + Len(bytes) : (moved[p] \o bytes)[i] =
               IF i <= Len(moved[p]) THEN moved[p][i] ELSE bytes[i - Len(moved[p])]
      BY <2>2, <2>4, ConcatProperties
    <3> QED
      BY <2>3, <2>4, <3>1
  <2>12. ASSUME NEW i \in 1..c.offset + n PROVE d.buffer[i] = (moved[p] \o bytes)[i]
    <3>1. i <= c.offset => i \in 1..c.offset
      BY <2>n
    <3> QED
      BY <2>3, <2>9, <2>10, <2>11, <3>1
  <2>13. Coherent(d, moved[p] \o bytes)
    BY <2>n, <2>9, <2>10, <2>11, <2>12 DEF Coherent
  <2> QED
    BY <2>6, <2>7, <2>8, <2>10, <2>11, <2>13, OneCall
<1>9. ASSUME NEW p \in Procs, NEW ret \in Int, NEW ended \in BOOLEAN,
             ~Transfer!Idle(p), Transfer!Return(p, ret, ended),
             ret >= 0 => ret = call[p].offset /\ (call[p].offset = call[p].size \/ ended),
             desc' \in [Fds -> OpenFiles]
      PROVE  CallsInv'
  <2> DEFINE c == Transfer!Returned(call[p].size, ret, ended)
  <2>1. call[p] \in Busy /\ moved[p] \in Seq(Int) /\ Len(moved[p]) = call[p].offset /\ content \in Seq(Int)
    BY <1>9 DEF CallsInv, Coherent, Transfer!Idle
  <2>2. c \in Idling /\ c.op = "idle" /\ c.ret = ret /\ c.asked = call[p].size /\ c.ended = ended
    BY <1>9, <2>1 DEF Transfer!Returned, Idling, Busy
  <2>3. call' = [call EXCEPT ![p] = c] /\ moved' = [moved EXCEPT ![p] = moved[p]] /\ content' = content
    BY <1>9 DEF Transfer!Return, CallsInv
  <2> HIDE DEF c
  <2>4. Coherent(c, moved[p])
    BY <1>9, <2>1, <2>2 DEF Coherent, Busy
  <2> QED
    BY <1>9, <2>1, <2>2, <2>3, <2>4, OneCall
<1>10. ASSUME NEW p \in Procs, Transfer!Finish(p) PROVE CallsInv'
  <2>1. call[p].fd \in Fds /\ call[p].offset \in Int
    BY <1>10 DEF Transfer!Finish, Transfer!Idle, CallsInv, Coherent, Busy
  <2>2. desc' \in [Fds -> OpenFiles]
    BY <1>10, <2>1 DEF Transfer!Finish, Transfer!Closed, CallsInv, OpenFiles
  <2>3. Transfer!Return(p, call[p].offset, Transfer!Available(call[p]) = 0) /\ ~Transfer!Idle(p)
        /\ (call[p].offset = call[p].size \/ Transfer!Available(call[p]) = 0)
    BY <1>10 DEF Transfer!Finish
  <2> QED
    BY <1>9, <2>1, <2>2, <2>3
<1>11. ASSUME NEW p \in Procs, Transfer!Fails(p) PROVE CallsInv'
  <2>1. Transfer!Return(p, -1, FALSE) /\ ~Transfer!Idle(p) /\ desc' \in [Fds -> OpenFiles]
    BY <1>11 DEF Transfer!Fails, CallsInv
  <2>2. -1 \in Int /\ ~(-1 >= 0)
    OBVIOUS
  <2> QED
    BY <1>9, <2>1, <2>2
<1>12. UNCHANGED transferVars => CallsInv'
  BY <1>1 DEF transferVars, CallsInv
<1> QED
  BY <1>2, <1>3, <1>4, <1>6, <1>7, <1>8, <1>10, <1>11, <1>12
  DEF Transfer!Next, Transfer!Interrupted, Transfer!vars, transferVars

(* However the kernel cuts a call into pieces, and whoever shares the descriptor:
   what was moved is the beginning of the buffer, the count returned is the number
   of bytes moved, and a short count means that there was no more. *)
THEOREM CountIsMovedHolds == Transfer!Spec => []CountIsMoved
<1>1. CallsInv => CountIsMoved
  <2> SUFFICES ASSUME CallsInv, NEW p \in Procs
               PROVE  /\ ~Transfer!Idle(p) => SubSeq(call[p].buffer, 1, call[p].offset) = moved[p]
                      /\ Transfer!Idle(p) /\ call[p].ret >= 0 =>
                           /\ call[p].ret = Len(moved[p])
                           /\ call[p].ret < call[p].asked => call[p].ended
    BY DEF CountIsMoved, Transfer!CountIsMoved
  <2>1. ASSUME ~Transfer!Idle(p) PROVE SubSeq(call[p].buffer, 1, call[p].offset) = moved[p]
    <3>1. /\ call[p].offset \in Nat /\ call[p].size \in Nat /\ call[p].offset <= call[p].size
          /\ call[p].buffer \in Seq(Int) /\ Len(call[p].buffer) = call[p].size
          /\ moved[p] \in Seq(Int) /\ Len(moved[p]) = call[p].offset
          /\ \A i \in 1..call[p].offset : call[p].buffer[i] = moved[p][i]
      BY <2>1 DEF CallsInv, Coherent, Transfer!Idle, Busy
    <3>2. \A i \in 1..call[p].offset : call[p].buffer[i] \in Int
      BY <3>1, ElementOfSeq
    <3>3. /\ SubSeq(call[p].buffer, 1, call[p].offset) \in Seq(Int)
          /\ Len(SubSeq(call[p].buffer, 1, call[p].offset)) = call[p].offset
          /\ \A i \in 1..call[p].offset : SubSeq(call[p].buffer, 1, call[p].offset)[i] = call[p].buffer[i]
      BY <3>1, <3>2, SubSeqProperties
    <3> QED
      BY <3>1, <3>3, SeqEqual
  <2> QED
    BY <2>1 DEF CallsInv, Coherent, Transfer!Idle
<1> QED
  BY <1>1, CallsInit, CallsStep, PTL DEF Transfer!Spec, Transfer!vars, transferVars

-----------------------------------------------------------------------------
(* The lines of the logger.  While one thread prints at a time, the open
   descriptors belong to the live objects, but for the object whose descriptor
   has been closed and not yet been forgotten; and the object that a printer
   has attached to is still the one of its line when it writes. *)
LogTypes ==
  /\ clock \in Times
  /\ mem \in [Files -> {"live", "free"}]
  /\ module \in [Files -> Modules \cup {None}]
  /\ \A o \in Files : mem[o] = "live" => module[o] \in Modules
  /\ fd \in [Files -> Descriptors \cup {INVALID_FILE_DESCRIPTOR}]
  /\ filest \in [Files -> Times]
  /\ open \in [Descriptors -> Names \cup {None}]
  /\ disk \in [Names -> Seq(Names)]
  /\ pc \in [Printers -> {"idle", "attach", "fd", "write", "load", "store", "close", "forget"}]
  /\ DOMAIN line = Printers /\ DOMAIN file = Printers /\ DOMAIN reg = Printers
  /\ \A p \in Printers : pc[p] # "idle" => line[p] \in Names
  /\ alone \in BOOLEAN

Held == {o \in Live : \A p \in Printers : pc[p] = "forget" => file[p] # o}

OneAtATime == \A p, q \in Printers : pc[p] # "idle" /\ pc[q] # "idle" => p = q

DescriptorsOwned ==
  /\ \A o \in Files \ Live : fd[o] = INVALID_FILE_DESCRIPTOR
  /\ \A o \in Held : fd[o] # INVALID_FILE_DESCRIPTOR => open[fd[o]] = <<module[o], filest[o]>>
  /\ \A f \in Descriptors : open[f] # None => \E o \in Held : fd[o] = f
  /\ \A o1, o2 \in Live : fd[o1] = fd[o2] /\ o1 # o2 => fd[o1] = INVALID_FILE_DESCRIPTOR

Attached ==
  \A p \in Printers : pc[p] \notin {"idle", "attach"} =>
    /\ file[p] \in Live /\ fd[file[p]] # INVALID_FILE_DESCRIPTOR
    /\ module[file[p]] = line[p][1] /\ Day(filest[file[p]]) = Day(line[p][2])
    /\ pc[p] = "write" => reg[p] = fd[file[p]]

LinesRight ==
  \A n \in Names : \A k \in 1..Len(disk[n]) :
    disk[n][k][1] = n[1] /\ Day(disk[n][k][2]) = Day(n[2])

LinesInv ==
  /\ LogTypes
  /\ alone => OneAtATime /\ DescriptorsOwned /\ Attached /\ LinesRight

(* Month and day tell the days of one year apart. *)
OneYear == \A s, t \in Times : MonthAndDay(s) = MonthAndDay(t) => Day(s) = Day(t)

LEMMA LinesInit == Init => LinesInv
<1> SUFFICES ASSUME Init PROVE LinesInv
  OBVIOUS
<1>1. LogTypes
  BY BoundsAssumption, DescriptorsAssumption DEF Init, LogTypes, Times, INVALID_FILE_DESCRIPTOR
<1>2. OneAtATime /\ DescriptorsOwned /\ Attached /\ LinesRight
  BY DEF Init, OneAtATime, DescriptorsOwned, Attached, LinesRight, Held, Live
<1> QED
  BY <1>1, <1>2 DEF LinesInv

LEMMA LinesStep ==
  ASSUME OneYear, LinesInv, [Next]_vars PROVE LinesInv'
<1>1. LogTypes
  BY DEF LinesInv
<1>2. CASE Tick
  <2>1. clock' \in Times /\ UNCHANGED <<mem, module, fd, filest, open, disk, pc, line, file, reg, alone>>
    BY <1>1, <1>2, BoundsAssumption DEF Tick, LogTypes, Times, objVars, osVars
  <2> QED
    BY <2>1, <1>1 DEF LinesInv, LogTypes, OneAtATime, DescriptorsOwned, Attached, LinesRight, Held, Live, Day
<1>3. CASE UNCHANGED vars
  BY <1>1, <1>3 DEF vars, objVars, osVars, LinesInv, LogTypes, OneAtATime, DescriptorsOwned, Attached,
     LinesRight, Held, Live, Day
<1>4. ASSUME NEW p \in Printers, NEW m \in Modules, Begin(p, m) PROVE LinesInv'
  <2>1. LogTypes'
    BY <1>1, <1>4 DEF LogTypes, Begin, At, objVars, osVars, Names
  <2>2. ASSUME alone' PROVE (OneAtATime /\ DescriptorsOwned /\ Attached /\ LinesRight)'
    <3>1. alone /\ \A q \in Printers : pc[q] = "idle"
      BY <1>4, <2>2 DEF Begin
    <3>2. \A q \in Printers \ {p} : pc'[q] = "idle"
      BY <1>1, <1>4, <3>1 DEF Begin, At, LogTypes
    <3>3. pc'[p] = "attach"
      BY <1>1, <1>4 DEF Begin, At, LogTypes
    <3>4. OneAtATime' /\ Attached'
      BY <3>2, <3>3 DEF OneAtATime, Attached
    <3>5. Held' = Held
      BY <1>4, <3>1, <3>2, <3>3 DEF Held, Live, Begin, objVars
    <3> QED
      BY <1>4, <3>1, <3>4, <3>5 DEF LinesInv, DescriptorsOwned, LinesRight, Begin, objVars, osVars, Live, Day
  <2> QED
    BY <2>1, <2>2 DEF LinesInv
<1>5. ASSUME NEW p \in Printers, pc[p] # "idle", UNCHANGED <<mem, module, fd, filest, osVars, line, file, alone>>,
             clock' = clock, DOMAIN reg' = Printers,
             NEW there \in {"idle", "write", "load", "store", "close"}, pc[p] # "attach", pc[p] # "forget",
             pc' = [pc EXCEPT ![p] = there],
             there = "write" => reg'[p] = fd[file[p]]
      PROVE  LinesInv'
  <2>1. LogTypes'
    BY <1>1, <1>5 DEF LogTypes, osVars
  <2>2. ASSUME alone PROVE (OneAtATime /\ DescriptorsOwned /\ Attached /\ LinesRight)'
    <3>1. OneAtATime /\ DescriptorsOwned /\ Attached /\ LinesRight
      BY <2>2 DEF LinesInv
    <3>2. \A q \in Printers \ {p} : pc'[q] = "idle" /\ pc[q] = "idle"
      BY <1>1, <1>5, <3>1 DEF OneAtATime, LogTypes
    <3>3. pc'[p] = there
      BY <1>1, <1>5 DEF LogTypes
    <3>4. OneAtATime'
      BY <3>2 DEF OneAtATime
    <3>5. Attached'
      BY <1>5, <3>1, <3>2, <3>3 DEF Attached, Live
    <3>6. Held' = Held
      BY <1>5, <3>2, <3>3 DEF Held, Live
    <3> QED
      BY <1>5, <3>1, <3>4, <3>5, <3>6 DEF DescriptorsOwned, LinesRight, osVars, Live, Day
  <2> QED
    BY <1>5, <2>1, <2>2 DEF LinesInv
<1>6. ASSUME NEW p \in Printers, ReadFd(p) PROVE LinesInv'
  BY <1>1, <1>5, <1>6 DEF ReadFd, At, LogTypes, objVars
<1>7. ASSUME NEW p \in Printers, WriteFails(p) \/ WriteNothing(p) \/ LoadCount(p) \/ StoreCount(p) PROVE LinesInv'
  <2>1. PICK there \in {"idle", "store", "close"} :
          pc[p] \in {"write", "load", "store"} /\ pc' = [pc EXCEPT ![p] = there]
    BY <1>7 DEF WriteFails, WriteNothing, LoadCount, StoreCount, At
  <2>2. UNCHANGED <<mem, module, fd, filest, osVars, line, file, alone, clock>> /\ DOMAIN reg' = Printers
    BY <1>1, <1>7 DEF WriteFails, WriteNothing, LoadCount, StoreCount, objVars, LogTypes
  <2> QED
    BY <1>5, <2>1, <2>2
<1>8. ASSUME NEW p \in Printers, WriteLine(p) PROVE LinesInv'
  <2> DEFINE n == open[reg[p]]
  <2>1. n \in Names /\ line[p] \in Names /\ disk' = [disk EXCEPT ![n] = Append(@, line[p])]
        /\ pc' = [pc EXCEPT ![p] = "load"] /\ pc[p] = "write"
        /\ UNCHANGED <<clock, objVars, open, line, file, reg, alone>>
    BY <1>1, <1>8 DEF WriteLine, LogTypes, At
  <2> HIDE DEF n
  <2>2. LogTypes'
    <3>1. disk' \in [Names -> Seq(Names)]
      BY <1>1, <2>1 DEF LogTypes
    <3> QED
      BY <1>1, <2>1, <3>1 DEF LogTypes, objVars
  <2>3. ASSUME alone PROVE (OneAtATime /\ DescriptorsOwned /\ Attached /\ LinesRight)'
    <3>1. OneAtATime /\ DescriptorsOwned /\ Attached /\ LinesRight
      BY <2>3 DEF LinesInv
    <3>2. \A q \in Printers \ {p} : pc'[q] = "idle" /\ pc[q] = "idle"
      BY <1>1, <2>1, <3>1 DEF OneAtATime, LogTypes
    <3>3. pc'[p] = "load"
      BY <1>1, <2>1 DEF LogTypes
    <3>4. OneAtATime' /\ Attached'
      BY <2>1, <3>1, <3>2, <3>3 DEF OneAtATime, Attached, Live, objVars
    <3>5. Held' = Held
      BY <2>1, <3>2, <3>3 DEF Held, Live, objVars
    <3>6. DescriptorsOwned'
      BY <2>1, <3>1, <3>5 DEF DescriptorsOwned, Live, objVars
    <3>7. n[1] = line[p][1] /\ Day(n[2]) = Day(line[p][2])
      <4>1. file[p] \in Live /\ fd[file[p]] # INVALID_FILE_DESCRIPTOR /\ reg[p] = fd[file[p]]
            /\ module[file[p]] = line[p][1] /\ Day(filest[file[p]]) = Day(line[p][2])
        BY <2>1, <3>1 DEF Attached
      <4>2. file[p] \in Held
        BY <2>1, <3>2, <4>1 DEF Held
      <4>3. n = <<module[file[p]], filest[file[p]]>>
        BY <3>1, <4>1, <4>2 DEF DescriptorsOwned, n
      <4> QED
        BY <4>1, <4>3
    <3>8. LinesRight'
      <4> SUFFICES ASSUME NEW name \in Names, NEW k \in 1..Len(disk'[name])
                   PROVE  disk'[name][k][1] = name[1] /\ Day(disk'[name][k][2]) = Day(name[2])
        BY DEF LinesRight, Day
      <4>1. CASE name # n
        BY <1>1, <2>1, <3>1, <4>1 DEF LinesRight, LogTypes
      <4>2. CASE name = n
        <5>1. disk[n] \in Seq(Names) /\ disk'[n] = Append(disk[n], line[p])
          BY <1>1, <2>1 DEF LogTypes
        <5>2. (k \in 1..Len(disk[n]) /\ disk'[n][k] = disk[n][k]) \/ disk'[n][k] = line[p]
          BY <4>2, <5>1, AppendProperties
        <5> QED
          BY <2>1, <3>1, <3>7, <4>2, <5>2 DEF LinesRight
      <4> QED
        BY <4>1, <4>2
    <3> QED
      BY <3>4, <3>6, <3>8
  <2> QED
    BY <2>1, <2>2, <2>3 DEF LinesInv
<1>9. ASSUME NEW p \in Printers, CloseFd(p) PROVE LinesInv'
  <2> DEFINE o == file[p]
  <2>1. /\ pc[p] = "close" /\ pc' = [pc EXCEPT ![p] = "forget"] /\ open' = Closed(fd[o])
        /\ UNCHANGED <<clock, mem, module, fd, filest, disk, line, file, reg, alone>>
    BY <1>9 DEF CloseFd, At, objVars
  <2>2. open' \in [Descriptors -> Names \cup {None}]
    BY <1>1, <2>1 DEF Closed, LogTypes
  <2>3. LogTypes'
    BY <1>1, <2>1, <2>2 DEF LogTypes
  <2>4. ASSUME alone PROVE (OneAtATime /\ DescriptorsOwned /\ Attached /\ LinesRight)'
    <3>1. OneAtATime /\ DescriptorsOwned /\ Attached /\ LinesRight
      BY <2>4 DEF LinesInv
    <3>2. \A q \in Printers \ {p} : pc'[q] = "idle" /\ pc[q] = "idle"
      BY <1>1, <2>1, <3>1 DEF OneAtATime, LogTypes
    <3>3. pc'[p] = "forget"
      BY <1>1, <2>1 DEF LogTypes
    <3>4. o \in Live /\ fd[o] \in Descriptors
      BY <1>1, <2>1, <3>1 DEF Attached, LogTypes, Live
    <3>5. OneAtATime' /\ Attached' /\ LinesRight'
      BY <2>1, <3>1, <3>2, <3>3 DEF OneAtATime, Attached, LinesRight, Live, Day
    <3>6. Held' = Live \ {o} /\ Held = Live /\ Live' = Live
      BY <2>1, <3>2, <3>3 DEF Held, Live
    <3>7. open' = [open EXCEPT ![fd[o]] = None]
      BY <2>1, <3>4 DEF Closed
    <3>8. \A other \in Live \ {o} : fd[other] # INVALID_FILE_DESCRIPTOR => fd[other] # fd[o]
      BY <3>1, <3>4 DEF DescriptorsOwned
    <3> HIDE DEF o
    <3>9. \A other \in Held' : fd[other] # INVALID_FILE_DESCRIPTOR => open'[fd[other]] = <<module[other], filest[other]>>
      <4> SUFFICES ASSUME NEW other \in Live \ {o}, fd[other] # INVALID_FILE_DESCRIPTOR
                   PROVE  open'[fd[other]] = <<module[other], filest[other]>>
        BY <3>6
      <4>1. fd[other] \in Descriptors /\ fd[other] # fd[o]
        BY <1>1, <3>8 DEF LogTypes, Live
      <4>2. open[fd[other]] = <<module[other], filest[other]>>
        BY <3>1, <3>6 DEF DescriptorsOwned
      <4> QED
        BY <1>1, <3>7, <4>1, <4>2 DEF LogTypes
    <3>10. \A f \in Descriptors : open'[f] # None => \E other \in Held' : fd[other] = f
      BY <1>1, <3>1, <3>4, <3>6, <3>7 DEF DescriptorsOwned, LogTypes
    <3>11. DescriptorsOwned'
      BY <2>1, <3>1, <3>6, <3>9, <3>10 DEF DescriptorsOwned
    <3> QED
      BY <3>5, <3>11
  <2> QED
    BY <2>1, <2>3, <2>4 DEF LinesInv
<1>10. ASSUME NEW p \in Printers, ForgetFd(p) PROVE LinesInv'
  <2> DEFINE o == file[p]
  <2>1. /\ pc[p] = "forget" /\ pc' = [pc EXCEPT ![p] = "idle"]
        /\ fd' = [fd EXCEPT ![o] = INVALID_FILE_DESCRIPTOR]
        /\ UNCHANGED <<clock, mem, module, filest, open, disk, line, file, reg, alone>>
    BY <1>10 DEF ForgetFd, At, osVars
  <2>2. LogTypes'
    BY <1>1, <2>1 DEF LogTypes
  <2>3. ASSUME alone PROVE (OneAtATime /\ DescriptorsOwned /\ Attached /\ LinesRight)'
    <3>1. OneAtATime /\ DescriptorsOwned /\ Attached /\ LinesRight
      BY <2>3 DEF LinesInv
    <3>2. \A q \in Printers : pc'[q] = "idle"
      BY <1>1, <2>1, <3>1 DEF OneAtATime, LogTypes
    <3>3. o \in Live
      BY <2>1, <3>1 DEF Attached
    <3>4. OneAtATime' /\ Attached' /\ LinesRight'
      BY <2>1, <3>1, <3>2 DEF OneAtATime, Attached, LinesRight, Day
    <3>5. Held' = Live /\ Held = Live \ {o} /\ Live' = Live
      BY <1>1, <2>1, <3>1, <3>2 DEF Held, Live, OneAtATime
    <3> HIDE DEF o
    <3>6. /\ \A other \in Files \ {o} : fd'[other] = fd[other]
          /\ fd'[o] = INVALID_FILE_DESCRIPTOR
      BY <1>1, <2>1, <3>3 DEF LogTypes, Live
    <3>7. \A other \in Live \ {o} : other \in Files
      BY DEF Live
    <3>8. (\A other \in Files \ Live : fd[other] = INVALID_FILE_DESCRIPTOR)'
      BY <3>1, <3>5, <3>6 DEF DescriptorsOwned
    <3>9. (\A other \in Held : fd[other] # INVALID_FILE_DESCRIPTOR => open[fd[other]] = <<module[other], filest[other]>>)'
      BY <2>1, <3>1, <3>5, <3>6, <3>7 DEF DescriptorsOwned
    <3>10. (\A f \in Descriptors : open[f] # None => \E other \in Held : fd[other] = f)'
      BY <2>1, <3>1, <3>5, <3>6, <3>7 DEF DescriptorsOwned
    <3>11. (\A o1, o2 \in Live : fd[o1] = fd[o2] /\ o1 # o2 => fd[o1] = INVALID_FILE_DESCRIPTOR)'
      BY <3>1, <3>5, <3>6, <3>7 DEF DescriptorsOwned
    <3> QED
      BY <3>4, <3>8, <3>9, <3>10, <3>11 DEF DescriptorsOwned
  <2> QED
    BY <2>1, <2>2, <2>3 DEF LinesInv
<1>11. ASSUME NEW p \in Printers, Attach(p) PROVE LinesInv'
  <2>1. pc[p] = "attach" /\ line[p] \in Names /\ UNCHANGED <<clock, line, reg, alone>>
    BY <1>1, <1>11 DEF Attach, At, LogTypes
  <2>2. PICK o \in IF OfModule(line[p][1]) # {} THEN OfModule(line[p][1]) ELSE Files \ Live :
           \/ /\ o \in Live /\ Reusable(o, line[p][2])
              /\ At(p, "attach", "fd")
              /\ file' = [file EXCEPT ![p] = o]
              /\ UNCHANGED <<objVars, osVars>>
           \/ /\ At(p, "attach", "fd")
              /\ file' = [file EXCEPT ![p] = o]
              /\ CreateFile(o, line[p])
           \/ /\ At(p, "attach", "idle")
              /\ CreateFails(o)
              /\ UNCHANGED file
    BY <1>11 DEF Attach
  <2>3. o \in Files /\ (o \in Live => module[o] = line[p][1])
    BY <2>2 DEF OfModule, Live
  <2>4. PICK there \in {"fd", "idle"} : pc' = [pc EXCEPT ![p] = there]
    BY <2>2 DEF At
  <2>5. DOMAIN file' = Printers /\ pc' \in [Printers -> {"idle", "attach", "fd", "write", "load", "store", "close", "forget"}]
        /\ \A q \in Printers : pc'[q] # "idle" => line[q] \in Names
    BY <1>1, <2>1, <2>2, <2>4 DEF LogTypes
  <2>6. Closed(fd[o]) \in [Descriptors -> Names \cup {None}]
    BY <1>1 DEF Closed, LogTypes
  <2>7. ASSUME alone, LinesInv
        PROVE  /\ OneAtATime /\ DescriptorsOwned /\ Attached /\ LinesRight /\ OneAtATime'
               /\ \A q \in Printers \ {p} : pc'[q] = "idle" /\ pc[q] = "idle"
               /\ pc'[p] = there /\ Held = Live
               /\ \A other \in Live \ {o} : fd[other] # INVALID_FILE_DESCRIPTOR => fd[other] # fd[o]
    <3>1. OneAtATime /\ DescriptorsOwned /\ Attached /\ LinesRight
      BY <2>7 DEF LinesInv
    <3>2. \A q \in Printers \ {p} : pc'[q] = "idle" /\ pc[q] = "idle"
      BY <1>1, <2>1, <2>4, <3>1 DEF OneAtATime, LogTypes
    <3>3. pc'[p] = there /\ OneAtATime'
      BY <1>1, <2>4, <3>2 DEF LogTypes, OneAtATime
    <3>4. Held = Live
      BY <2>1, <3>2 DEF Held
    <3>5. \A other \in Live \ {o} : fd[other] # INVALID_FILE_DESCRIPTOR => fd[other] # fd[o]
      BY <2>3, <3>1 DEF DescriptorsOwned, Live
    <3> QED
      BY <3>1, <3>2, <3>3, <3>4, <3>5
  <2>8. CASE /\ o \in Live /\ Reusable(o, line[p][2])
             /\ At(p, "attach", "fd")
             /\ file' = [file EXCEPT ![p] = o]
             /\ UNCHANGED <<objVars, osVars>>
    <3>1. there = "fd" /\ pc'[p] = "fd" /\ file'[p] = o
      BY <1>1, <2>4, <2>8 DEF At, LogTypes
    <3>2. LogTypes'
      BY <1>1, <2>1, <2>5, <2>8 DEF LogTypes, objVars, osVars
    <3>3. ASSUME alone PROVE (OneAtATime /\ DescriptorsOwned /\ Attached /\ LinesRight)'
      <4>1. Held' = Live /\ Live' = Live
        BY <2>7, <2>8, <3>1, <3>3 DEF Held, Live, objVars
      <4>2. filest[o] \in Times /\ line[p][2] \in Times
        BY <1>1, <2>1, <2>3 DEF LogTypes, Names
      <4>3. Day(filest[o]) = Day(line[p][2]) /\ fd[o] # INVALID_FILE_DESCRIPTOR
        BY <2>8, <4>2 DEF OneYear, Reusable
      <4>4. Attached'
        BY <2>1, <2>3, <2>7, <2>8, <3>1, <3>3, <4>1, <4>3 DEF Attached, objVars, Day
      <4> QED
        BY <2>7, <2>8, <3>3, <4>1, <4>4 DEF DescriptorsOwned, LinesRight, objVars, osVars, Day
    <3> QED
      BY <2>1, <3>2, <3>3 DEF LinesInv
  <2>9. CASE At(p, "attach", "fd") /\ file' = [file EXCEPT ![p] = o] /\ CreateFile(o, line[p])
    <3> DEFINE name == line[p]
    <3>1. there = "fd" /\ pc'[p] = "fd" /\ file'[p] = o
      BY <1>1, <2>4, <2>9 DEF At, LogTypes
    <3>2. PICK f \in Descriptors :
            /\ Closed(fd[o])[f] = None
            /\ open' = [Closed(fd[o]) EXCEPT ![f] = name]
            /\ disk' = [disk EXCEPT ![name] = <<>>]
            /\ mem' = [mem EXCEPT ![o] = "live"]
            /\ module' = [module EXCEPT ![o] = name[1]]
            /\ fd' = [fd EXCEPT ![o] = f]
            /\ filest' = [filest EXCEPT ![o] = name[2]]
      BY <2>9 DEF CreateFile
    <3>3. name \in Names /\ name[1] \in Modules /\ name[2] \in Times /\ name = <<name[1], name[2]>> /\ name # None
      BY <2>1, DescriptorsAssumption DEF Names
    <3> HIDE DEF name
    <3>4. /\ open' \in [Descriptors -> Names \cup {None}]
          /\ disk' \in [Names -> Seq(Names)]
          /\ mem' \in [Files -> {"live", "free"}] /\ module' \in [Files -> Modules \cup {None}]
          /\ fd' \in [Files -> Descriptors \cup {INVALID_FILE_DESCRIPTOR}] /\ filest' \in [Files -> Times]
      <4>1. <<>> \in Seq(Names)
        OBVIOUS
      <4> QED
        BY <1>1, <2>3, <2>6, <3>2, <3>3, <4>1 DEF LogTypes
    <3>5. LogTypes'
      <4>1. \A other \in Files : mem'[other] = "live" => module'[other] \in Modules
        BY <1>1, <2>3, <3>2, <3>3 DEF LogTypes
      <4> QED
        BY <1>1, <2>1, <2>5, <3>4, <4>1 DEF LogTypes
    <3>6. ASSUME alone PROVE (OneAtATime /\ DescriptorsOwned /\ Attached /\ LinesRight)'
      <4>1. Held' = Live' /\ Live' = Live \cup {o}
        BY <1>1, <2>3, <2>7, <3>1, <3>2, <3>6 DEF Held, Live, LogTypes
      <4>2. \A other \in Files \ {o} : fd'[other] = fd[other] /\ module'[other] = module[other] /\ filest'[other] = filest[other]
        BY <1>1, <3>2 DEF LogTypes
      <4>3. fd'[o] = f /\ module'[o] = name[1] /\ filest'[o] = name[2]
        BY <1>1, <2>3, <3>2 DEF LogTypes
      <4>4. \A g \in Descriptors : open'[g] = IF g = f THEN name ELSE IF g = fd[o] THEN None ELSE open[g]
        BY <1>1, <2>6, <3>2 DEF Closed, LogTypes
      <4>5. f = fd[o] \/ open[f] = None
        BY <1>1, <3>2 DEF Closed, LogTypes
      <4>6. f # INVALID_FILE_DESCRIPTOR
        BY DescriptorsAssumption DEF INVALID_FILE_DESCRIPTOR
      <4>7. \A other \in Live \ {o} : fd[other] # INVALID_FILE_DESCRIPTOR =>
              /\ fd[other] \in Descriptors /\ fd[other] # fd[o] /\ fd[other] # f
              /\ open[fd[other]] = <<module[other], filest[other]>>
        <5> SUFFICES ASSUME NEW other \in Live \ {o}, fd[other] # INVALID_FILE_DESCRIPTOR
                     PROVE  /\ fd[other] \in Descriptors /\ fd[other] # fd[o] /\ fd[other] # f
                            /\ open[fd[other]] = <<module[other], filest[other]>>
          OBVIOUS
        <5>1. fd[other] \in Descriptors /\ fd[other] # fd[o]
          BY <1>1, <2>7, <3>6 DEF LogTypes, Live
        <5>2. open[fd[other]] = <<module[other], filest[other]>>
          BY <2>7, <3>6 DEF DescriptorsOwned
        <5>3. ASSUME open[fd[other]] = None PROVE FALSE
          <6>1. None = <<module[other], filest[other]>> /\ other \in Files
            BY <5>2, <5>3 DEF Live
          <6> DEFINE mo == module[other]
          <6>2. mo \in Modules /\ filest[other] \in Times
            BY <1>1, <6>1 DEF LogTypes, Live
          <6> QED
            BY <6>1, <6>2, DescriptorsAssumption DEF Names
        <5> QED
          BY <4>5, <5>1, <5>2, <5>3
      <4>8. (\A other \in Files \ Live : fd[other] = INVALID_FILE_DESCRIPTOR)'
        BY <2>7, <3>6, <4>1, <4>2 DEF DescriptorsOwned
      <4>9. (\A other \in Held : fd[other] # INVALID_FILE_DESCRIPTOR => open[fd[other]] = <<module[other], filest[other]>>)'
        <5> SUFFICES ASSUME NEW other \in Live \cup {o}, fd'[other] # INVALID_FILE_DESCRIPTOR
                     PROVE  open'[fd'[other]] = <<module'[other], filest'[other]>>
          BY <4>1
        <5>1. CASE other = o
          BY <3>3, <4>3, <4>4, <5>1
        <5>2. CASE other # o
          BY <4>2, <4>4, <4>7, <5>2 DEF Live
        <5> QED
          BY <5>1, <5>2
      <4>10. (\A g \in Descriptors : open[g] # None => \E other \in Held : fd[other] = g)'
        <5> SUFFICES ASSUME NEW g \in Descriptors, open'[g] # None PROVE \E other \in Live \cup {o} : fd'[other] = g
          BY <4>1
        <5>1. CASE g = f
          BY <4>3, <5>1
        <5>2. CASE g # f
          <6>1. open[g] # None /\ g # fd[o]
            BY <4>4, <5>2
          <6>2. PICK other \in Live : fd[other] = g
            BY <2>7, <3>6, <6>1 DEF DescriptorsOwned
          <6> QED
            BY <4>2, <6>1, <6>2 DEF Live
        <5> QED
          BY <5>1, <5>2
      <4>11. (\A o1, o2 \in Live : fd[o1] = fd[o2] /\ o1 # o2 => fd[o1] = INVALID_FILE_DESCRIPTOR)'
        <5> SUFFICES ASSUME NEW o1 \in Live \cup {o}, NEW o2 \in Live \cup {o}, fd'[o1] = fd'[o2], o1 # o2
                     PROVE  fd'[o1] = INVALID_FILE_DESCRIPTOR
          BY <4>1
        <5>1. CASE o1 = o
          BY <4>2, <4>3, <4>6, <4>7, <5>1 DEF Live
        <5>2. CASE o2 = o
          BY <4>2, <4>3, <4>6, <4>7, <5>2 DEF Live
        <5>3. CASE o1 # o /\ o2 # o
          BY <2>7, <3>6, <4>2, <5>3 DEF DescriptorsOwned, Live
        <5> QED
          BY <5>1, <5>2, <5>3
      <4>12. DescriptorsOwned'
        BY <4>8, <4>9, <4>10, <4>11 DEF DescriptorsOwned
      <4>13. Attached'
        BY <2>1, <2>7, <3>1, <3>6, <4>1, <4>3, <4>6 DEF Attached, Day, name
      <4>14. LinesRight'
        <5> SUFFICES ASSUME NEW n \in Names, NEW k \in 1..Len(disk'[n])
                     PROVE  disk'[n][k][1] = n[1] /\ Day(disk'[n][k][2]) = Day(n[2])
          BY DEF LinesRight, Day
        <5>1. disk'[n] = IF n = name THEN <<>> ELSE disk[n]
          BY <1>1, <3>2 DEF LogTypes
        <5> QED
          BY <2>7, <3>6, <5>1 DEF LinesRight
      <4> QED
        BY <2>7, <3>6, <4>12, <4>13, <4>14
    <3> QED
      BY <2>1, <3>5, <3>6 DEF LinesInv
  <2>10. CASE At(p, "attach", "idle") /\ CreateFails(o) /\ UNCHANGED file
    <3>1. there = "idle" /\ pc'[p] = "idle"
      BY <1>1, <2>4, <2>10 DEF At, LogTypes
    <3>2. /\ open' = Closed(fd[o])
          /\ mem' = [mem EXCEPT ![o] = "free"]
          /\ fd' = [fd EXCEPT ![o] = INVALID_FILE_DESCRIPTOR]
          /\ UNCHANGED <<module, filest, disk, file>>
      BY <2>10 DEF CreateFails
    <3>3. LogTypes'
      BY <1>1, <2>1, <2>5, <2>6, <3>2 DEF LogTypes
    <3>4. ASSUME alone PROVE (OneAtATime /\ DescriptorsOwned /\ Attached /\ LinesRight)'
      <4>1. Held' = Live' /\ Live' = Live \ {o}
        BY <1>1, <2>7, <3>1, <3>2, <3>4 DEF Held, Live, LogTypes
      <4>2. /\ \A other \in Files \ {o} : fd'[other] = fd[other]
            /\ fd'[o] = INVALID_FILE_DESCRIPTOR
        BY <1>1, <2>3, <3>2 DEF LogTypes
      <4>3. \A g \in Descriptors : open'[g] = IF g = fd[o] THEN None ELSE open[g]
        BY <1>1, <3>2 DEF Closed, LogTypes
      <4>4. \A other \in Live \ {o} : other \in Files /\ fd[other] \in Descriptors \cup {INVALID_FILE_DESCRIPTOR}
        BY <1>1 DEF Live, LogTypes
      <4>5. (\A other \in Files \ Live : fd[other] = INVALID_FILE_DESCRIPTOR)'
        BY <2>7, <3>4, <4>1, <4>2 DEF DescriptorsOwned
      <4>6. (\A other \in Held : fd[other] # INVALID_FILE_DESCRIPTOR => open[fd[other]] = <<module[other], filest[other]>>)'
        <5> SUFFICES ASSUME NEW other \in Live \ {o}, fd'[other] # INVALID_FILE_DESCRIPTOR
                     PROVE  open'[fd'[other]] = <<module[other], filest[other]>>
          BY <3>2, <4>1
        <5>1. fd'[other] = fd[other] /\ fd[other] \in Descriptors /\ fd[other] # fd[o]
          BY <2>7, <3>4, <4>2, <4>4
        <5>2. open[fd[other]] = <<module[other], filest[other]>>
          BY <2>7, <3>4, <5>1 DEF DescriptorsOwned
        <5> QED
          BY <4>3, <5>1, <5>2
      <4>7. (\A g \in Descriptors : open[g] # None => \E other \in Held : fd[other] = g)'
        BY <2>7, <3>4, <4>1, <4>2, <4>3, <4>4 DEF DescriptorsOwned
      <4>8. (\A o1, o2 \in Live : fd[o1] = fd[o2] /\ o1 # o2 => fd[o1] = INVALID_FILE_DESCRIPTOR)'
        BY <2>7, <3>4, <4>1, <4>2, <4>4 DEF DescriptorsOwned
      <4>9. Attached' /\ LinesRight'
        BY <2>7, <3>1, <3>2, <3>4 DEF Attached, LinesRight, Day
      <4> QED
        BY <2>7, <3>4, <4>5, <4>6, <4>7, <4>8, <4>9 DEF DescriptorsOwned
    <3> QED
      BY <2>1, <3>3, <3>4 DEF LinesInv
  <2> QED
    BY <2>2, <2>8, <2>9, <2>10
<1> QED
  BY <1>2, <1>3, <1>4, <1>6, <1>7, <1>8, <1>9, <1>10, <1>11 DEF Next, Step

(* A line goes to a file of its module and of its day, and no descriptor leaks or
   is shared, as long as one thread prints at a time and the clock does not go
   through a whole year: log__attach compares the month and the day only. *)
THEOREM LinesInTheirFileHolds ==
  ASSUME OneYear PROVE Spec => []LinesInTheirFile
<1>1. Init => LinesInv
  BY LinesInit
<1>2. LinesInv /\ [Next]_vars => LinesInv'
  BY LinesStep
<1>3. LinesInv => LinesInTheirFile
  <2> SUFFICES ASSUME LinesInv, alone
               PROVE  /\ (\A p \in Printers : pc[p] # "forget") =>
                            /\ \A o \in Live : fd[o] # INVALID_FILE_DESCRIPTOR => open[fd[o]] = <<module[o], filest[o]>>
                            /\ \A f \in Descriptors : open[f] # None => \E o \in Live : fd[o] = f
                            /\ \A o1, o2 \in Live : fd[o1] = fd[o2] /\ o1 # o2 => fd[o1] = INVALID_FILE_DESCRIPTOR
                      /\ LinesRight
    BY DEF LinesInTheirFile, LinesRight
  <2>1. DescriptorsOwned /\ LinesRight
    BY DEF LinesInv
  <2>2. (\A p \in Printers : pc[p] # "forget") => Held = Live
    BY DEF Held
  <2> QED
    BY <2>1, <2>2 DEF DescriptorsOwned
<1> QED
  BY <1>1, <1>2, <1>3, PTL DEF Spec

-----------------------------------------------------------------------------
(* The directory tree.  Paths are sequences over their names. *)
PathNames == UNION {{p[n] : n \in DOMAIN p} : p \in Paths}

LEMMA PathsAreSequences ==
  ASSUME NEW p \in Paths
  PROVE  /\ p \in Seq(PathNames) /\ p # <<>> /\ Len(p) \in Nat /\ Len(p) >= 1
         /\ Tree!Parent(p) \in Seq(PathNames) /\ Len(Tree!Parent(p)) = Len(p) - 1
         /\ \A n \in 1..Len(p) - 1 : Tree!Parent(p)[n] = p[n]
         /\ Tree!Last(p) \in PathNames
<1> DEFINE own == {p[n] : n \in DOMAIN p}
<1>1. p \in Seq(own) /\ p # <<>>
  BY PathsAssumption
<1>2. own \subseteq PathNames
  BY DEF PathNames
<1> HIDE DEF own
<1>3. p \in Seq(PathNames)
  BY <1>1, <1>2, SeqMonotonic
<1>4. Len(p) \in Nat /\ Len(p) >= 1
  BY <1>1, <1>3, EmptySeq
<1>5. \A n \in 1..Len(p) : p[n] \in PathNames
  BY <1>3, ElementOfSeq
<1>6. /\ SubSeq(p, 1, Len(p) - 1) \in Seq(PathNames)
      /\ Len(SubSeq(p, 1, Len(p) - 1)) = IF 1 <= Len(p) - 1 THEN (Len(p) - 1) - 1 + 1 ELSE 0
      /\ \A i \in 1..(Len(p) - 1) - 1 + 1 : SubSeq(p, 1, Len(p) - 1)[i] = p[1 + i - 1]
  BY <1>4, <1>5, SubSeqProperties
<1>7. \A i \in 1..Len(p) - 1 : i \in 1..(Len(p) - 1) - 1 + 1 /\ 1 + i - 1 = i
  BY <1>4
<1>8. Tree!Parent(p) \in Seq(PathNames) /\ Len(Tree!Parent(p)) = Len(p) - 1
  <2>1. (IF 1 <= Len(p) - 1 THEN (Len(p) - 1) - 1 + 1 ELSE 0) = Len(p) - 1
    <3>1. \A n \in Nat : n >= 1 => (IF 1 <= n - 1 THEN (n - 1) - 1 + 1 ELSE 0) = n - 1
      OBVIOUS
    <3> QED
      BY <1>4, <3>1
  <2> QED
    BY <1>6, <2>1 DEF Tree!Parent, Tree!Front
<1>9. \A n \in 1..Len(p) - 1 : Tree!Parent(p)[n] = p[n]
  BY <1>6, <1>7 DEF Tree!Parent, Tree!Front
<1>10. Tree!Last(p) \in PathNames
  BY <1>4, <1>5 DEF Tree!Last
<1> QED
  BY <1>1, <1>3, <1>4, <1>8, <1>9, <1>10

LEMMA PrefixIsPointwise ==
  ASSUME NEW s \in Seq(PathNames), NEW t \in Seq(PathNames)
  PROVE  Tree!IsPrefix(s, t) <=> Len(s) <= Len(t) /\ \A n \in 1..Len(s) : s[n] = t[n]
<1>1. Len(s) \in Nat /\ Len(t) \in Nat
  OBVIOUS
<1>2. SubSeq(s, 1, Len(s)) = s
  BY SubSeqFull
<1>3. ASSUME Len(s) <= Len(t)
      PROVE  /\ SubSeq(t, 1, Len(s)) \in Seq(PathNames) /\ Len(SubSeq(t, 1, Len(s))) = Len(s)
             /\ \A n \in 1..Len(s) : SubSeq(t, 1, Len(s))[n] = t[n]
  <2>1. \A i \in 1..Len(s) : t[i] \in PathNames
    BY <1>1, <1>3, ElementOfSeq
  <2>2. /\ SubSeq(t, 1, Len(s)) \in Seq(PathNames)
        /\ Len(SubSeq(t, 1, Len(s))) = IF 1 <= Len(s) THEN Len(s) - 1 + 1 ELSE 0
        /\ \A i \in 1..Len(s) - 1 + 1 : SubSeq(t, 1, Len(s))[i] = t[1 + i - 1]
    BY <1>1, <2>1, SubSeqProperties
  <2>3. \A i \in 1..Len(s) : i \in 1..Len(s) - 1 + 1 /\ 1 + i - 1 = i
    BY <1>1
  <2> QED
    BY <1>1, <2>2, <2>3
<1>4. ASSUME Len(s) <= Len(t) PROVE (SubSeq(t, 1, Len(s)) = s) <=> \A n \in 1..Len(s) : s[n] = t[n]
  <2>1. (\A n \in 1..Len(s) : s[n] = t[n]) => SubSeq(t, 1, Len(s)) = s
    BY <1>3, <1>4, SeqEqual
  <2> QED
    BY <1>3, <1>4, <2>1
<1> QED
  BY <1>2, <1>4 DEF Tree!IsPrefix

(* The children of a path are those whose parent it is, and only their last
   names tell them apart. *)
LEMMA ChildrenHaveParents ==
  ASSUME NEW d \in Seq(PathNames), NEW p \in Paths
  PROVE  /\ p \in Tree!Children(d) <=> Tree!Parent(p) = d
         /\ p \in Tree!Children(d) => p = Append(d, Tree!Last(p)) /\ Tree!Below(p, d)
<1>1. p \in Seq(PathNames) /\ Len(p) \in Nat /\ Len(p) >= 1 /\ Len(d) \in Nat
      /\ Tree!Parent(p) \in Seq(PathNames) /\ Len(Tree!Parent(p)) = Len(p) - 1
      /\ \A n \in 1..Len(p) - 1 : Tree!Parent(p)[n] = p[n]
  BY PathsAreSequences
<1>2. p \in Tree!Children(d) <=> Len(p) = Len(d) + 1 /\ Tree!IsPrefix(d, p)
  BY DEF Tree!Children
<1>3. ASSUME p \in Tree!Children(d) PROVE Tree!Parent(p) = d
  <2>1. Len(p) = Len(d) + 1 /\ \A n \in 1..Len(d) : d[n] = p[n]
    BY <1>1, <1>2, <1>3, PrefixIsPointwise
  <2> QED
    BY <1>1, <2>1, SeqEqual
<1>4. ASSUME Tree!Parent(p) = d PROVE p \in Tree!Children(d)
  <2>1. Len(p) = Len(d) + 1
    BY <1>1, <1>4
  <2>2. \A n \in 1..Len(d) : d[n] = p[n]
    BY <1>1, <1>4, <2>1
  <2> QED
    BY <1>1, <1>2, <2>1, <2>2, PrefixIsPointwise
<1>5. ASSUME p \in Tree!Children(d) PROVE p = Append(d, Tree!Last(p))
  <2>1. Len(p) = Len(d) + 1 /\ \A n \in 1..Len(d) : d[n] = p[n]
    BY <1>1, <1>2, <1>5, PrefixIsPointwise
  <2>2. Tree!Last(p) \in PathNames /\ Tree!Last(p) = p[Len(d) + 1]
    BY <2>1, PathsAreSequences DEF Tree!Last
  <2>3. /\ Append(d, Tree!Last(p)) \in Seq(PathNames) /\ Len(Append(d, Tree!Last(p))) = Len(d) + 1
        /\ \A n \in 1..Len(d) : Append(d, Tree!Last(p))[n] = d[n]
        /\ Append(d, Tree!Last(p))[Len(d) + 1] = Tree!Last(p)
    BY <2>2, AppendProperties
  <2>4. \A n \in 1..Len(p) : n \in 1..Len(d) \/ n = Len(d) + 1
    BY <1>1, <2>1
  <2>5. \A n \in 1..Len(p) : p[n] = Append(d, Tree!Last(p))[n]
    BY <2>1, <2>2, <2>3, <2>4
  <2> QED
    BY <1>1, <2>1, <2>3, <2>5, SeqEqual
<1> QED
  BY <1>2, <1>3, <1>4, <1>5 DEF Tree!Below

LEMMA BelowIsTransitive ==
  ASSUME NEW a \in Seq(PathNames), NEW b \in Seq(PathNames), NEW c \in Seq(PathNames),
         Tree!Below(b, a), Tree!Below(c, b)
  PROVE  Tree!Below(c, a)
<1>1. Len(a) \in Nat /\ Len(b) \in Nat /\ Len(c) \in Nat
  OBVIOUS
<1>2. Len(a) <= Len(b) /\ (\A n \in 1..Len(a) : a[n] = b[n]) /\ Len(b) <= Len(c) /\ \A n \in 1..Len(b) : b[n] = c[n]
  BY PrefixIsPointwise DEF Tree!Below
<1>3. \A n \in 1..Len(a) : n \in 1..Len(b)
  BY <1>1, <1>2
<1> QED
  BY <1>1, <1>2, <1>3, PrefixIsPointwise DEF Tree!Below

LEMMA BelowIsReflexive == \A p \in Seq(PathNames) : Tree!Below(p, p)
BY PrefixIsPointwise DEF Tree!Below

(* Without a link every name leads to itself. *)
NoLinks == Link \notin Paths

LEMMA PathsLeadToThemselves ==
  ASSUME NoLinks, NEW p
  PROVE  /\ Tree!Follow(p) = p /\ Tree!Node(p) = p
         /\ Tree!Stat(p) = Tree!KindAt(p) /\ Tree!LStat(p) = Tree!KindAt(p)
         /\ p \in Paths => Tree!KindAt(p) = tree[p]
<1>1. Tree!Follow(p) = p
  BY DEF NoLinks, Tree!Follow
<1>2. p \in Paths => p # <<>>
  BY PathsAssumption
<1> QED
  BY <1>1, <1>2 DEF Tree!Node, Tree!Stat, Tree!LStat, Tree!KindAt

LEMMA PrefixesOfPaths ==
  ASSUME NEW t \in Paths, NEW n \in 1..Len(t)
  PROVE  /\ SubSeq(t, 1, n) \in Paths /\ Len(SubSeq(t, 1, n)) = n
         /\ n > 1 => Tree!Parent(SubSeq(t, 1, n)) = SubSeq(t, 1, n - 1)
         /\ n = 1 => Tree!Parent(SubSeq(t, 1, n)) = <<>>
         /\ n = Len(t) => SubSeq(t, 1, n) = t
         /\ \A k \in 1..n : SubSeq(SubSeq(t, 1, n), 1, k) = SubSeq(t, 1, k)
<1>1. t \in Seq(PathNames) /\ Len(t) \in Nat /\ n \in Nat /\ n >= 1 /\ n <= Len(t)
  BY PathsAreSequences
<1>2. SubSeq(t, 1, n) \in Paths
  BY PathsAssumption
<1>3. \A k \in 1..n : SubSeq(SubSeq(t, 1, n), 1, k) = SubSeq(t, 1, k)
  <2> SUFFICES ASSUME NEW k \in 1..n PROVE SubSeq(SubSeq(t, 1, n), 1, k) = SubSeq(t, 1, k)
    OBVIOUS
  <2>1. 1 \in 1..Len(t) /\ 1 \in 1..n - 1 + 1 /\ k \in 1..n - 1 + 1 /\ 1 + 1 - 1 = 1 /\ 1 + k - 1 = k
    BY <1>1
  <2> QED
    BY <1>1, <2>1, SubSeqOfSubSeq
<1>4. Len(SubSeq(t, 1, n)) = n
  <2>1. \A i \in 1..n : t[i] \in PathNames
    BY <1>1, ElementOfSeq
  <2>2. Len(SubSeq(t, 1, n)) = IF 1 <= n THEN n - 1 + 1 ELSE 0
    BY <1>1, <2>1, SubSeqProperties
  <2> QED
    BY <1>1, <2>2
<1>5. Tree!Parent(SubSeq(t, 1, n)) = SubSeq(SubSeq(t, 1, n), 1, n - 1)
  BY <1>4 DEF Tree!Parent, Tree!Front
<1>6. n > 1 => Tree!Parent(SubSeq(t, 1, n)) = SubSeq(t, 1, n - 1)
  BY <1>1, <1>3, <1>5
<1>7. n = 1 => Tree!Parent(SubSeq(t, 1, n)) = <<>>
  BY <1>1, <1>5, SubSeqEmpty
<1>8. n = Len(t) => SubSeq(t, 1, n) = t
  BY <1>1, SubSeqFull
<1> QED
  BY <1>2, <1>3, <1>4, <1>6, <1>7, <1>8

Kinds == {"none", "dir", "file", "special"}

(* What is there has a directory above it. *)
TreeShape ==
  /\ tree \in [Paths -> Kinds]
  /\ \A p \in Paths : tree[p] # "none" => Tree!KindAt(Tree!Parent(p)) = "dir"

(* A set of numbers has a greatest element when it is bounded. *)
LEMMA Greatest ==
  ASSUME NEW bound \in Nat, NEW T \in SUBSET (1..bound), T # {}
  PROVE  \E x \in T : \A y \in T : y <= x
<1> DEFINE Away == {n \in Nat : bound - n \in T}
<1>1. Away # {}
  <2>1. PICK x \in T : TRUE
    OBVIOUS
  <2>2. bound - x \in Nat /\ bound - (bound - x) = x
    BY <2>1
  <2> QED
    BY <2>1, <2>2
<1>2. Away \subseteq Nat
  OBVIOUS
<1> HIDE DEF Away
<1>3. PICK n \in Away : \A k \in Away : ~(<<k, n>> \in OpToRel(<, Nat))
  BY <1>1, <1>2, NatLessThanWellFounded, WFMin
<1>4. \A k \in Away : n <= k
  <2> SUFFICES ASSUME NEW k \in Away, k < n PROVE FALSE
    BY <1>2
  <2>1. <<k, n>> \in Nat \X Nat /\ <<k, n>>[1] < <<k, n>>[2]
    BY <1>2
  <2> QED
    BY <2>1, <1>3 DEF OpToRel
<1>5. \A y \in T : bound - y \in Away
  <2> SUFFICES ASSUME NEW y \in T PROVE bound - y \in Away
    OBVIOUS
  <2>1. bound - y \in Nat /\ bound - (bound - y) = y
    OBVIOUS
  <2> QED
    BY <2>1 DEF Away
<1>6. bound - n \in T /\ n \in Nat
  BY DEF Away
<1>7. \A y \in T : y <= bound - n
  BY <1>4, <1>5, <1>6
<1> QED
  BY <1>6, <1>7

(* Every prefix of a path that is there is there. *)
LEMMA PrefixesAreThere ==
  ASSUME TreeShape, NEW t \in Paths, NEW n \in 1..Len(t), tree[SubSeq(t, 1, n)] # "none"
  PROVE  \A k \in 1..n : tree[SubSeq(t, 1, k)] # "none"
<1> DEFINE Missing == {k \in 1..n : tree[SubSeq(t, 1, k)] = "none"}
<1> SUFFICES ASSUME Missing # {} PROVE FALSE
  OBVIOUS
<1>1. Len(t) \in Nat /\ n \in Nat
  BY PathsAreSequences
<1>2. Missing \in SUBSET (1..n)
  OBVIOUS
<1> HIDE DEF Missing
<1>3. PICK x \in Missing : \A y \in Missing : y <= x
  BY <1>1, <1>2, Greatest
<1>4. x \in 1..n /\ tree[SubSeq(t, 1, x)] = "none" /\ x # n
  BY <1>2 DEF Missing
<1>5. x + 1 \in 1..n /\ x + 1 \in 1..Len(t) /\ ~(x + 1 <= x) /\ (x + 1) - 1 = x /\ x + 1 > 1
  BY <1>1, <1>4
<1>6. tree[SubSeq(t, 1, x + 1)] # "none"
  BY <1>3, <1>5 DEF Missing
<1>7. SubSeq(t, 1, x + 1) \in Paths /\ Tree!Parent(SubSeq(t, 1, x + 1)) = SubSeq(t, 1, x)
  BY <1>5, PrefixesOfPaths
<1>8. x \in 1..Len(t)
  BY <1>1, <1>4
<1>9. SubSeq(t, 1, x) \in Paths /\ SubSeq(t, 1, x) # <<>>
  BY <1>8, PrefixesOfPaths, PathsAssumption
<1>10. Tree!KindAt(SubSeq(t, 1, x)) = "dir"
  BY <1>6, <1>7 DEF TreeShape
<1> QED
  BY <1>4, <1>9, <1>10 DEF Tree!KindAt

Starting == [op : {"new"}]
Making == [op : {"down", "up"}, target : Targets, at : Nat]
Ended == [op : {"done"}, ret : {0, -1}, target : Targets]
Calls == [path : Paths, step : {"isdir", "opendir", "readdir", "remove"},
          caller : {"posix__rm", "__posix__rmdir"}, seen : SUBSET PathNames, ending : BOOLEAN]
Walking == [op : {"rm"}, target : Targets, stack : Seq(Calls)]

NothingRemoved == \A r \in Removers : removed[r] = {}

Blocked(t) == \E n \in 1..Len(t) - 1 : tree[SubSeq(t, 1, n)] \in {"file", "special"}

(* A maker that is on its way up stands below something that is there. *)
MakerOk(c) ==
  /\ c.op \in {"down", "up"} => c \in Making /\ c.at \in 1..Len(c.target)
  /\ c.op = "done" => c \in Ended
  /\ NothingRemoved =>
       /\ c.op = "up" => c.at > 1 /\ tree[SubSeq(c.target, 1, c.at - 1)] # "none"
       /\ c.op = "done" => IF c.ret = 0 THEN tree[c.target] # "none" ELSE Blocked(c.target) \/ refused

(* A remover's calls are each at a child of the path of the one before; what a
   call has seen in its directory is gone, but for what the next one is at; and
   what that one is at is what it takes it for. *)
Expected(f) ==
  /\ f.step = "isdir" => tree[f.path] # "none"
  /\ f.step = "opendir" => tree[f.path] = "dir"
  /\ f.step = "remove" => tree[f.path] = "file"

Emptied(stack, i) ==
  /\ ~stack[i].ending
  /\ i > 1 => Expected(stack[i])
  /\ \A p \in Paths : Tree!Parent(p) = stack[i].path /\ Tree!Last(p) \in stack[i].seen =>
       tree[p] = "none" \/ (i < Len(stack) /\ p = stack[i + 1].path)

InDirectories(stack, t) ==
  /\ stack \in Seq(Calls) /\ Len(stack) >= 1 /\ stack[1].path = t
  /\ \A i \in 1..Len(stack) : Tree!Below(stack[i].path, t)
  /\ \A i \in 1..Len(stack) - 1 : Tree!Parent(stack[i + 1].path) = stack[i].path /\ stack[i].step = "readdir"

(* Nobody lists or removes a socket: that it is one shows at once. *)
Ordinary(f) == f.step \in {"readdir", "remove"} => tree[f.path] # "special"

RemoverOk(r, c) ==
  /\ c.op = "new" => removed[r] = {}
  /\ c.op \in {"rm", "done"} => c.target \in Targets /\ \A p \in removed[r] : Tree!Below(p, c.target)
  /\ c.op = "rm" =>
       /\ c \in Walking /\ InDirectories(c.stack, c.target)
       /\ \A i \in 1..Len(c.stack) : Ordinary(c.stack[i])
       /\ Tree!Undisturbed(r, c.target) => \A i \in 1..Len(c.stack) : Emptied(c.stack, i)
  /\ c.op = "done" /\ c.ret = 0 /\ Tree!Undisturbed(r, c.target) => tree[c.target] = "none"

TreeInv ==
  /\ TreeShape
  /\ made \subseteq Paths /\ removed \in [Removers -> SUBSET Paths] /\ refused \in BOOLEAN
  /\ maker \in [Makers -> Starting \cup Making \cup Ended]
  /\ remover \in [Removers -> Starting \cup Walking \cup Ended]
  /\ \A m \in Makers : MakerOk(maker[m])
  /\ \A r \in Removers : RemoverOk(r, remover[r])

LEMMA TreeInvInit == ASSUME NoLinks, Tree!Init PROVE TreeInv
<1>1. TreeShape
  <2>1. tree \in [Paths -> Kinds]
    BY DEF NoLinks, Tree!Init, Kinds
  <2> QED
    BY <2>1 DEF Tree!Init, TreeShape
<1>2. \A m \in Makers : maker[m] = [op |-> "new"]
  BY DEF Tree!Init
<1>3. \A m \in Makers : MakerOk(maker[m])
  BY <1>2 DEF MakerOk
<1>4. \A r \in Removers : RemoverOk(r, remover[r])
  BY DEF Tree!Init, RemoverOk
<1>5. maker \in [Makers -> Starting \cup Making \cup Ended] /\ remover \in [Removers -> Starting \cup Walking \cup Ended]
  BY DEF Tree!Init, Starting
<1> QED
  BY <1>1, <1>3, <1>4, <1>5 DEF Tree!Init, TreeInv

(* What a step does to the tree: it makes one path, or removes one, or neither. *)
Kept == UNCHANGED <<tree, made, removed>>

MadeOne(q) ==
  /\ q \in Paths /\ tree[q] = "none" /\ Tree!KindAt(Tree!Parent(q)) = "dir"
  /\ tree' = [tree EXCEPT ![q] = "dir"] /\ made' = made \cup {q} /\ removed' = removed

RemovedOne(r, q) ==
  /\ q \in Paths /\ tree[q] \notin {"none", "special"}
  /\ \A p \in Paths : Tree!Parent(p) = q => tree[p] = "none"
  /\ tree' = [tree EXCEPT ![q] = "none"] /\ made' = made
  /\ removed' = [removed EXCEPT ![r] = @ \cup {q}]

MakerStep == Kept \/ \E q \in Paths : MadeOne(q)
ByOther(r) == MakerStep \/ \E s \in Removers \ {r}, q \in Paths : RemovedOne(s, q)
TreeStep == MakerStep \/ \E r \in Removers, q \in Paths : RemovedOne(r, q)

LEMMA TreeStepKeepsShape ==
  ASSUME TreeInv, TreeStep
  PROVE  /\ TreeShape'
         /\ made' \subseteq Paths /\ removed' \in [Removers -> SUBSET Paths] /\ made \subseteq made'
         /\ made' = {} => \A p \in Paths : tree[p] = "none" => tree'[p] = "none"
         /\ NothingRemoved' => NothingRemoved /\ \A p \in Paths : tree[p] # "none" => tree'[p] = tree[p]
         /\ \A p \in Paths : tree'[p] = "special" <=> tree[p] = "special"
         /\ \A s \in Removers : removed[s] \subseteq removed'[s]
<1> USE DEF TreeInv
<1>1. CASE Kept
  BY <1>1 DEF Kept, TreeShape, NothingRemoved, Tree!KindAt
<1>2. ASSUME NEW q \in Paths, MadeOne(q)
      PROVE  /\ TreeShape'
             /\ made' \subseteq Paths /\ removed' \in [Removers -> SUBSET Paths] /\ made \subseteq made'
             /\ made' = {} => \A p \in Paths : tree[p] = "none" => tree'[p] = "none"
             /\ NothingRemoved' => NothingRemoved /\ \A p \in Paths : tree[p] # "none" => tree'[p] = tree[p]
             /\ \A p \in Paths : tree'[p] = "special" <=> tree[p] = "special"
             /\ \A s \in Removers : removed[s] \subseteq removed'[s]
  <2>1. tree' \in [Paths -> Kinds] /\ \A p \in Paths : tree'[p] = IF p = q THEN "dir" ELSE tree[p]
    BY <1>2 DEF MadeOne, TreeShape, Kinds
  <2>2. ASSUME NEW p, Tree!KindAt(p) = "dir" PROVE Tree!KindAt(p)' = "dir"
    BY <2>1, <2>2 DEF Tree!KindAt
  <2>3. ASSUME NEW p \in Paths, tree'[p] # "none" PROVE Tree!KindAt(Tree!Parent(p)) = "dir"
    BY <1>2, <2>1, <2>3 DEF MadeOne, TreeShape
  <2>4. \A p \in Paths : tree'[p] # "none" => Tree!KindAt(Tree!Parent(p))' = "dir"
    BY <2>2, <2>3
  <2>5. TreeShape'
    BY <2>1, <2>4 DEF TreeShape
  <2> QED
    BY <1>2, <2>1, <2>5 DEF MadeOne, NothingRemoved
<1>3. ASSUME NEW r \in Removers, NEW q \in Paths, RemovedOne(r, q)
      PROVE  /\ TreeShape'
             /\ made' \subseteq Paths /\ removed' \in [Removers -> SUBSET Paths] /\ made \subseteq made'
             /\ made' = {} => \A p \in Paths : tree[p] = "none" => tree'[p] = "none"
             /\ NothingRemoved' => NothingRemoved /\ \A p \in Paths : tree[p] # "none" => tree'[p] = tree[p]
             /\ \A p \in Paths : tree'[p] = "special" <=> tree[p] = "special"
             /\ \A s \in Removers : removed[s] \subseteq removed'[s]
  <2>1. tree' \in [Paths -> Kinds] /\ \A p \in Paths : tree'[p] = IF p = q THEN "none" ELSE tree[p]
    BY <1>3 DEF RemovedOne, TreeShape, Kinds
  <2>2. ASSUME NEW p \in Paths, tree'[p] # "none" PROVE Tree!KindAt(Tree!Parent(p))' = "dir"
    <3>1. tree[p] # "none" /\ Tree!Parent(p) # q
      BY <1>3, <2>1, <2>2 DEF RemovedOne
    <3>2. Tree!KindAt(Tree!Parent(p)) = "dir"
      BY <3>1 DEF TreeShape
    <3> QED
      BY <2>1, <3>1, <3>2 DEF Tree!KindAt
  <2>3. TreeShape'
    BY <2>1, <2>2 DEF TreeShape
  <2>4. removed' \in [Removers -> SUBSET Paths] /\ removed'[r] # {}
        /\ \A s \in Removers : removed[s] \subseteq removed'[s]
    BY <1>3 DEF RemovedOne
  <2> QED
    BY <1>3, <2>1, <2>3, <2>4 DEF RemovedOne, NothingRemoved
<1> QED
  BY <1>1, <1>2, <1>3 DEF TreeStep, MakerStep

LEMMA MakerIsKept ==
  ASSUME TreeInv, TreeStep, refused => refused', NEW c, MakerOk(c) PROVE MakerOk(c)'
<1>1. ASSUME NothingRemoved'
      PROVE  NothingRemoved /\ \A p \in Paths : tree[p] # "none" => tree'[p] = tree[p]
  BY <1>1, TreeStepKeepsShape
<1>2. ASSUME c.op = "up", NothingRemoved' PROVE tree'[SubSeq(c.target, 1, c.at - 1)] # "none"
  <2>1. c.at > 1 /\ c \in Making /\ c.at \in 1..Len(c.target) /\ tree[SubSeq(c.target, 1, c.at - 1)] # "none"
    BY <1>1, <1>2 DEF MakerOk
  <2>2. c.target \in Paths /\ c.at - 1 \in 1..Len(c.target)
    BY <2>1, PathsAssumption, PathsAreSequences DEF Making
  <2> QED
    BY <1>1, <1>2, <2>1, <2>2, PrefixesOfPaths
<1>3. ASSUME NEW t \in Targets, Blocked(t), NothingRemoved' PROVE Blocked(t)'
  <2>1. PICK n \in 1..Len(t) - 1 : tree[SubSeq(t, 1, n)] \in {"file", "special"}
    BY <1>3 DEF Blocked
  <2>2. SubSeq(t, 1, n) \in Paths
    <3>1. t \in Paths /\ Len(t) \in Nat
      BY PathsAssumption, PathsAreSequences
    <3>2. n \in 1..Len(t)
      BY <3>1
    <3> QED
      BY <3>1, <3>2, PathsAssumption
  <2> QED
    BY <1>1, <1>3, <2>1, <2>2 DEF Blocked
<1>4. ASSUME c.op = "done", NothingRemoved'
      PROVE  IF c.ret = 0 THEN tree'[c.target] # "none" ELSE Blocked(c.target)' \/ refused'
  <2>1. c \in Ended /\ c.target \in Targets /\ c.target \in Paths
    BY <1>4, PathsAssumption DEF MakerOk, Ended
  <2> QED
    BY <1>1, <1>3, <1>4, <2>1 DEF MakerOk
<1> QED
  BY <1>1, <1>2, <1>4 DEF MakerOk

(* Who is undisturbed now was before, and what is below its target changes only
   by its own steps. *)
LEMMA DisturbedForGood ==
  ASSUME TreeInv, TreeStep, refused => refused', NEW r \in Removers, NEW t, Tree!Undisturbed(r, t)'
  PROVE  /\ Tree!Undisturbed(r, t)
         /\ ByOther(r) => \A p \in Paths : Tree!Below(p, t) => tree'[p] = tree[p]
         /\ \A p \in Paths : tree[p] = "none" => tree'[p] = "none"
<1>1. /\ made' = {} /\ ~refused'
      /\ \A p \in Paths : Tree!Below(p, t) => tree'[p] \in {"none", "dir", "file"}
      /\ \A q \in Removers \ {r} : \A p \in removed'[q] : ~Tree!Below(p, t)
  BY DEF Tree!Undisturbed, Tree!Below, Tree!IsPrefix
<1>2. /\ made = {} /\ ~refused /\ \A p \in Paths : tree[p] = "none" => tree'[p] = "none"
      /\ \A p \in Paths : tree'[p] = "special" <=> tree[p] = "special"
      /\ \A s \in Removers : removed[s] \subseteq removed'[s]
  BY <1>1, TreeStepKeepsShape
<1>3. \A p \in Paths : tree[p] \in Kinds
  BY DEF TreeInv, TreeShape
<1>4. Tree!Undisturbed(r, t)
  BY <1>1, <1>2, <1>3 DEF Tree!Undisturbed, Kinds
<1>5. ASSUME ByOther(r), NEW p \in Paths, Tree!Below(p, t) PROVE tree'[p] = tree[p]
  <2>1. CASE Kept
    BY <2>1 DEF Kept
  <2>2. ASSUME NEW q \in Paths, MadeOne(q) PROVE FALSE
    BY <1>1, <2>2 DEF MadeOne
  <2>3. ASSUME NEW s \in Removers \ {r}, NEW q \in Paths, RemovedOne(s, q) PROVE tree'[p] = tree[p]
    <3>1. q \in removed'[s] /\ tree' = [tree EXCEPT ![q] = "none"]
      BY <2>3 DEF RemovedOne, TreeInv
    <3>2. ~Tree!Below(q, t)
      BY <1>1, <3>1
    <3> QED
      BY <1>5, <3>1, <3>2 DEF TreeInv, TreeShape
  <2> QED
    BY <1>5, <2>1, <2>2, <2>3 DEF ByOther, MakerStep
<1> QED
  BY <1>2, <1>4, <1>5

LEMMA RemoverIsKept ==
  ASSUME TreeInv, TreeStep, refused => refused', NEW r \in Removers, NEW c,
         RemoverOk(r, c), ByOther(r)
  PROVE  RemoverOk(r, c)'
<1>1. removed'[r] = removed[r]
  BY DEF ByOther, MakerStep, Kept, MadeOne, RemovedOne, TreeInv
<1>2. \A p \in Paths : tree'[p] = "special" <=> tree[p] = "special"
  BY TreeStepKeepsShape
<1>3. ASSUME c.op = "rm" PROVE \A i \in 1..Len(c.stack) : Ordinary(c.stack[i])'
  <2>1. c.stack \in Seq(Calls) /\ \A i \in 1..Len(c.stack) : Ordinary(c.stack[i])
    BY <1>3 DEF RemoverOk, InDirectories
  <2>2. \A i \in 1..Len(c.stack) : c.stack[i] \in Calls
    BY <2>1, ElementOfSeq
  <2>3. \A i \in 1..Len(c.stack) : c.stack[i].path \in Paths
    BY <2>2 DEF Calls
  <2> QED
    BY <1>2, <2>1, <2>3 DEF Ordinary
<1>4. ASSUME c.op = "rm", Tree!Undisturbed(r, c.target)', NEW i \in 1..Len(c.stack) PROVE Emptied(c.stack, i)'
  <2>1. /\ Tree!Undisturbed(r, c.target) /\ \A p \in Paths : Tree!Below(p, c.target) => tree'[p] = tree[p]
        /\ \A p \in Paths : tree[p] = "none" => tree'[p] = "none"
    BY <1>4, DisturbedForGood
  <2>2. Emptied(c.stack, i) /\ c.stack \in Seq(Calls) /\ Tree!Below(c.stack[i].path, c.target)
    BY <1>4, <2>1 DEF RemoverOk, InDirectories
  <2>3. c.stack[i] \in Calls
    BY <2>2, ElementOfSeq
  <2>4. c.stack[i].path \in Paths
    BY <2>3 DEF Calls
  <2>5. tree'[c.stack[i].path] = tree[c.stack[i].path]
    BY <2>1, <2>2, <2>4
  <2>6. Expected(c.stack[i]) => Expected(c.stack[i])'
    BY <2>5 DEF Expected
  <2> QED
    BY <2>1, <2>2, <2>6 DEF Emptied
<1>5. ASSUME c.op = "done", c.ret = 0, Tree!Undisturbed(r, c.target)' PROVE tree'[c.target] = "none"
  <2>1. c.target \in Paths
    BY <1>5, PathsAssumption DEF RemoverOk
  <2>2. Tree!Undisturbed(r, c.target) /\ \A p \in Paths : tree[p] = "none" => tree'[p] = "none"
    BY <1>5, DisturbedForGood
  <2> QED
    BY <1>5, <2>1, <2>2 DEF RemoverOk
<1> QED
  BY <1>1, <1>3, <1>4, <1>5 DEF RemoverOk

LEMMA TreeInvAfter ==
  ASSUME TreeInv, TreeStep, refused' \in BOOLEAN, refused => refused',
         maker' \in [Makers -> Starting \cup Making \cup Ended],
         remover' \in [Removers -> Starting \cup Walking \cup Ended],
         \A m \in Makers : maker'[m] = maker[m] \/ MakerOk(maker[m])',
         \A r \in Removers : (remover'[r] = remover[r] /\ ByOther(r)) \/ RemoverOk(r, remover[r])'
  PROVE  TreeInv'
<1>1. ASSUME NEW m \in Makers PROVE MakerOk(maker[m])'
  <2>1. ASSUME maker'[m] = maker[m] PROVE MakerOk(maker[m])'
    <3>1. MakerOk(maker[m])
      BY DEF TreeInv
    <3> QED
      BY <2>1, <3>1, MakerIsKept
  <2> QED
    BY <2>1
<1>2. ASSUME NEW r \in Removers PROVE RemoverOk(r, remover[r])'
  <2>1. ASSUME remover'[r] = remover[r], ByOther(r) PROVE RemoverOk(r, remover[r])'
    <3>1. RemoverOk(r, remover[r])
      BY DEF TreeInv
    <3> QED
      BY <2>1, <3>1, RemoverIsKept
  <2> QED
    BY <2>1
<1> QED
  BY <1>1, <1>2, TreeStepKeepsShape DEF TreeInv

LEMMA PMkdirStep ==
  ASSUME TreeInv, NEW m \in Makers, NEW t \in Targets, Tree!PMkdir(m, t) PROVE TreeInv'
<1> DEFINE c == [op |-> "down", target |-> t, at |-> Len(t)]
<1>1. maker' = [maker EXCEPT ![m] = c] /\ UNCHANGED <<tree, remover, refused, made, removed>>
  BY DEF Tree!PMkdir
<1>2. Len(t) \in Nat /\ Len(t) \in 1..Len(t)
  <2>1. Len(t) \in Nat /\ Len(t) >= 1
    BY PathsAssumption, PathsAreSequences
  <2> QED
    BY <2>1
<1>3. c \in Making /\ c.op = "down" /\ c.at = Len(t) /\ c.target = t
  BY <1>2 DEF Making
<1> HIDE DEF c
<1>4. MakerOk(c)'
  BY <1>2, <1>3 DEF MakerOk
<1>5. maker'[m] = c /\ maker' \in [Makers -> Starting \cup Making \cup Ended]
      /\ \A n \in Makers : n # m => maker'[n] = maker[n]
  BY <1>1, <1>3 DEF TreeInv
<1>6. MakerOk(maker[m])'
  BY <1>4, <1>5
<1>7. TreeStep /\ \A r \in Removers : ByOther(r)
  BY <1>1 DEF TreeStep, ByOther, MakerStep, Kept
<1> QED
  BY <1>1, <1>5, <1>6, <1>7, TreeInvAfter DEF TreeInv

LEMMA MkdirStep ==
  ASSUME TreeInv, NoLinks, NEW m \in Makers, Tree!Mkdir(m) PROVE TreeInv'
<1> DEFINE c == maker[m]
           d == SubSeq(c.target, 1, c.at)
           new == maker'[m]
<1>1. c.op \in {"down", "up"} /\ UNCHANGED <<remover, refused, removed>>
  BY DEF Tree!Mkdir
<1>2. MakerOk(c) /\ c \in Making /\ c.at \in 1..Len(c.target) /\ c.target \in Targets /\ c.target \in Paths
      /\ Len(c.target) \in Nat
  BY <1>1, PathsAssumption, PathsAreSequences DEF TreeInv, MakerOk, Making
<1>3. /\ d \in Paths /\ Len(d) = c.at
      /\ c.at > 1 => Tree!Parent(d) = SubSeq(c.target, 1, c.at - 1)
      /\ c.at = 1 => Tree!Parent(d) = <<>>
      /\ c.at = Len(c.target) => d = c.target
      /\ \A k \in 1..c.at : SubSeq(d, 1, k) = SubSeq(c.target, 1, k)
  BY <1>2, PrefixesOfPaths
<1>4. Tree!LStat(d) = tree[d] /\ Tree!Node(d) = d /\ Tree!Stat(Tree!Parent(d)) = Tree!KindAt(Tree!Parent(d))
  BY <1>3, PathsLeadToThemselves
<1>5. tree \in [Paths -> Kinds]
  BY DEF TreeInv, TreeShape
<1>6. \A n \in Makers : n # m => maker'[n] = maker[n]
  BY DEF Tree!Mkdir, TreeInv
<1>7. ASSUME Tree!MkdirSucceeds(d) PROVE MakerStep /\ tree'[d] # "none"
  <2>1. tree[d] # "none" \/ Tree!KindAt(Tree!Parent(d)) = "dir"
    BY <1>4, <1>7 DEF Tree!MkdirSucceeds
  <2>2. CASE tree[d] = "none"
    <3>1. tree' = [tree EXCEPT ![d] = "dir"] /\ made' = made \cup {d}
      BY <1>4, <1>7, <2>2 DEF Tree!Mkdir
    <3>2. MadeOne(d)
      BY <1>1, <1>3, <2>1, <2>2, <3>1 DEF MadeOne
    <3> QED
      BY <1>3, <1>5, <3>1, <3>2 DEF MakerStep
  <2>3. CASE tree[d] # "none"
    <3>1. tree' = tree /\ made' = made
      BY <1>4, <1>7, <2>3 DEF Tree!Mkdir
    <3> QED
      BY <1>1, <2>3, <3>1 DEF MakerStep, Kept
  <2> QED
    BY <2>2, <2>3
<1>8. ASSUME ~Tree!MkdirSucceeds(d) PROVE MakerStep /\ tree' = tree
  BY <1>1, <1>8 DEF Tree!Mkdir, MakerStep, Kept
<1>9. ASSUME Tree!MkdirSucceeds(d), c.at = Len(c.target)
      PROVE  new \in Ended /\ MakerOk(maker[m])'
  <2>1. new = [op |-> "done", ret |-> 0, target |-> c.target]
    BY <1>9 DEF Tree!Mkdir, Tree!Return, TreeInv
  <2>2. new \in Ended /\ new.op = "done" /\ new.ret = 0 /\ new.target = c.target
    BY <1>2, <2>1 DEF Ended
  <2>3. tree'[c.target] # "none"
    BY <1>3, <1>7, <1>9
  <2> QED
    BY <2>2, <2>3 DEF MakerOk
<1>10. ASSUME Tree!MkdirSucceeds(d), c.at # Len(c.target)
       PROVE  new \in Making /\ MakerOk(maker[m])'
  <2>1. new = [c EXCEPT !.op = "up", !.at = c.at + 1]
    BY <1>10 DEF Tree!Mkdir, TreeInv
  <2>2. new = [op |-> "up", target |-> c.target, at |-> c.at + 1]
    BY <1>2, <2>1 DEF Making
  <2>3. c.at + 1 \in Nat /\ c.at + 1 \in 1..Len(c.target) /\ c.at + 1 > 1 /\ (c.at + 1) - 1 = c.at
    BY <1>2, <1>10
  <2>4. new \in Making /\ new.op = "up" /\ new.at = c.at + 1 /\ new.target = c.target
    BY <1>2, <2>2, <2>3 DEF Making
  <2>5. tree'[SubSeq(new.target, 1, new.at - 1)] # "none"
    BY <1>7, <1>10, <2>3, <2>4
  <2> QED
    BY <2>3, <2>4, <2>5 DEF MakerOk
<1>11. ASSUME ~Tree!MkdirSucceeds(d)
       PROVE  /\ c.at > 1 /\ (NothingRemoved /\ c.op = "up" => Blocked(c.target))
              /\ Tree!Obstructed(d) => Blocked(c.target)
  <2>1. tree[d] = "none" /\ Tree!KindAt(Tree!Parent(d)) # "dir"
    BY <1>4, <1>11 DEF Tree!MkdirSucceeds
  <2>2. c.at > 1
    <3>1. c.at = 1 \/ c.at > 1
      BY <1>2
    <3> QED
      BY <1>3, <2>1, <3>1 DEF Tree!KindAt
  <2>3. c.at - 1 \in 1..Len(c.target) - 1 /\ c.at - 1 \in 1..Len(c.target)
    BY <1>2, <2>2
  <2>4. SubSeq(c.target, 1, c.at - 1) \in Paths
    BY <1>2, <2>3, PathsAssumption
  <2>5. tree[SubSeq(c.target, 1, c.at - 1)] # "dir"
    BY <1>3, <2>1, <2>2, <2>4, PathsAssumption DEF Tree!KindAt
  <2>6. ASSUME NothingRemoved, c.op = "up" PROVE Blocked(c.target)
    <3>1. tree[SubSeq(c.target, 1, c.at - 1)] \in {"file", "special"}
      BY <1>2, <1>5, <2>4, <2>5, <2>6 DEF MakerOk, Kinds
    <3> QED
      BY <2>3, <3>1 DEF Blocked
  <2>7. ASSUME Tree!Obstructed(d) PROVE Blocked(c.target)
    <3>1. PICK n \in 1..Len(d) - 1 : Tree!Stat(SubSeq(d, 1, n)) \in {"file", "special"}
      BY <2>7 DEF Tree!Obstructed
    <3>2. n \in 1..c.at /\ n \in 1..Len(c.target) - 1 /\ n \in 1..Len(c.target)
      BY <1>2, <1>3
    <3>3. SubSeq(c.target, 1, n) \in Paths /\ SubSeq(d, 1, n) = SubSeq(c.target, 1, n)
      BY <1>2, <1>3, <3>2, PathsAssumption
    <3>4. tree[SubSeq(c.target, 1, n)] \in {"file", "special"}
      BY <3>1, <3>3, PathsLeadToThemselves
    <3> QED
      BY <3>2, <3>4 DEF Blocked
  <2> QED
    BY <2>2, <2>6, <2>7
<1>12. ASSUME ~Tree!MkdirSucceeds(d), c.op = "up" \/ Tree!Obstructed(d)
       PROVE  new \in Ended /\ MakerOk(maker[m])'
  <2>1. new = [op |-> "done", ret |-> -1, target |-> c.target]
    BY <1>12 DEF Tree!Mkdir, Tree!Return, TreeInv
  <2>2. new \in Ended /\ new.op = "done" /\ new.ret # 0 /\ new.target = c.target
    BY <1>2, <2>1 DEF Ended
  <2>3. NothingRemoved' => NothingRemoved
    BY <1>1 DEF NothingRemoved
  <2>4. NothingRemoved' => Blocked(c.target)
    BY <1>11, <1>12, <2>3
  <2>5. NothingRemoved' => Blocked(maker[m].target)'
    BY <1>8, <1>12, <2>2, <2>4 DEF Blocked
  <2> QED
    BY <2>2, <2>5 DEF MakerOk
<1>13. ASSUME ~Tree!MkdirSucceeds(d), ~(c.op = "up" \/ Tree!Obstructed(d))
       PROVE  new \in Making /\ MakerOk(maker[m])'
  <2>1. c.at # 1
    BY <1>2, <1>11, <1>13
  <2>2. new = [c EXCEPT !.at = c.at - 1] /\ c.op = "down"
    BY <1>1, <1>13, <2>1 DEF Tree!Mkdir, TreeInv
  <2>3. new = [op |-> "down", target |-> c.target, at |-> c.at - 1]
    BY <1>2, <2>2 DEF Making
  <2>4. c.at - 1 \in Nat /\ c.at - 1 \in 1..Len(c.target)
    BY <1>2, <1>11, <1>13
  <2>5. new \in Making /\ new.op = "down" /\ new.at = c.at - 1 /\ new.target = c.target
    BY <1>2, <2>3, <2>4 DEF Making
  <2> QED
    BY <2>4, <2>5 DEF MakerOk
<1>14. MakerStep /\ new \in Making \cup Ended /\ MakerOk(maker[m])'
  BY <1>7, <1>8, <1>9, <1>10, <1>12, <1>13
<1>15. maker' \in [Makers -> Starting \cup Making \cup Ended]
  BY <1>14 DEF Tree!Mkdir, TreeInv
<1>16. TreeStep /\ \A r \in Removers : ByOther(r)
  BY <1>14 DEF TreeStep, ByOther
<1> HIDE DEF c, d, new
<1> QED
  BY <1>1, <1>6, <1>14, <1>15, <1>16, TreeInvAfter DEF TreeInv

LEMMA MkdirRefusedStep ==
  ASSUME TreeInv, NEW m \in Makers, Tree!MkdirRefused(m) PROVE TreeInv'
<1> DEFINE c == maker[m]
<1>1. c.op \in {"down", "up"} /\ UNCHANGED <<tree, remover, made, removed>> /\ refused' = TRUE
      /\ maker' = [maker EXCEPT ![m] = Tree!Return(c, -1)]
  BY DEF Tree!MkdirRefused
<1>2. c.target \in Targets
  BY <1>1 DEF TreeInv, MakerOk, Making
<1>3. Tree!Return(c, -1) \in Ended
  BY <1>2 DEF Ended, Tree!Return
<1>4. maker'[m] = [op |-> "done", ret |-> -1, target |-> c.target]
      /\ maker' \in [Makers -> Starting \cup Making \cup Ended]
      /\ \A n \in Makers : n # m => maker'[n] = maker[n]
  BY <1>1, <1>3 DEF TreeInv, Tree!Return
<1>5. MakerOk(maker[m])'
  BY <1>1, <1>2, <1>4 DEF MakerOk, Ended
<1>6. TreeStep /\ \A r \in Removers : ByOther(r)
  BY <1>1 DEF TreeStep, ByOther, MakerStep, Kept
<1> QED
  BY <1>1, <1>4, <1>5, <1>6, TreeInvAfter DEF TreeInv

(* What the remover does to its directories. *)
LEMMA FrontsOfStacks ==
  ASSUME NEW stack \in Seq(Calls), Len(stack) >= 1
  PROVE  /\ Tree!Front(stack) \in Seq(Calls) /\ Len(Tree!Front(stack)) = Len(stack) - 1
         /\ \A i \in 1..Len(stack) - 1 : Tree!Front(stack)[i] = stack[i]
<1>1. Len(stack) \in Nat /\ Len(stack) - 1 \in Nat
  OBVIOUS
<1>2. \A i \in 1..Len(stack) - 1 : stack[i] \in Calls
  BY <1>1, ElementOfSeq
<1>3. /\ SubSeq(stack, 1, Len(stack) - 1) \in Seq(Calls)
      /\ Len(SubSeq(stack, 1, Len(stack) - 1)) = IF 1 <= Len(stack) - 1 THEN (Len(stack) - 1) - 1 + 1 ELSE 0
      /\ \A i \in 1..(Len(stack) - 1) - 1 + 1 : SubSeq(stack, 1, Len(stack) - 1)[i] = stack[1 + i - 1]
  BY <1>1, <1>2, SubSeqProperties
<1>4. \A n \in Nat : n >= 1 => (IF 1 <= n - 1 THEN (n - 1) - 1 + 1 ELSE 0) = n - 1
  OBVIOUS
<1>5. \A i \in 1..Len(stack) - 1 : i \in 1..(Len(stack) - 1) - 1 + 1 /\ 1 + i - 1 = i
  BY <1>1
<1> QED
  BY <1>1, <1>3, <1>4, <1>5 DEF Tree!Front

LEMMA LastIsReplaced ==
  ASSUME NEW t \in Paths, NEW stack, InDirectories(stack, t),
         NEW f \in Calls, f.path = Tree!Last(stack).path
  PROVE  LET rest == Append(Tree!Front(stack), f)
         IN  /\ InDirectories(rest, t) /\ Len(rest) = Len(stack) /\ rest[Len(stack)] = f
             /\ \A i \in 1..Len(stack) - 1 : rest[i] = stack[i]
             /\ \A i \in 1..Len(stack) : rest[i].path = stack[i].path
<1> DEFINE L == Len(stack)
           front == Tree!Front(stack)
           rest == Append(front, f)
<1>1. stack \in Seq(Calls) /\ L \in Nat /\ L >= 1 /\ Tree!Last(stack) = stack[L]
  BY DEF InDirectories, Tree!Last
<1>2. front \in Seq(Calls) /\ Len(front) = L - 1 /\ \A i \in 1..L - 1 : front[i] = stack[i]
  BY <1>1, FrontsOfStacks
<1>3. rest \in Seq(Calls) /\ Len(rest) = (L - 1) + 1 /\ rest[(L - 1) + 1] = f
      /\ \A i \in 1..L - 1 : rest[i] = front[i]
  BY <1>2, AppendProperties
<1>4. (L - 1) + 1 = L /\ \A i \in 1..L : i = L \/ i \in 1..L - 1
  BY <1>1
<1>5. Len(rest) = L /\ rest[L] = f /\ \A i \in 1..L - 1 : rest[i] = stack[i]
  BY <1>2, <1>3, <1>4
<1>6. \A i \in 1..L : rest[i].path = stack[i].path
  BY <1>1, <1>4, <1>5
<1>7. 1 \in 1..L /\ \A i \in 1..L - 1 : i \in 1..L /\ i + 1 \in 1..L
  BY <1>1
<1> HIDE DEF rest, front
<1>8. InDirectories(rest, t)
  BY <1>3, <1>5, <1>6, <1>7, <1>1 DEF InDirectories
<1> QED
  BY <1>5, <1>6, <1>8 DEF rest, front

LEMMA DirectoryIsEntered ==
  ASSUME NEW t \in Paths, NEW stack, InDirectories(stack, t),
         NEW f \in Calls, Tree!Parent(f.path) = Tree!Last(stack).path,
         Tree!Last(stack).step = "readdir"
  PROVE  LET deeper == Append(stack, f)
         IN  /\ InDirectories(deeper, t) /\ Len(deeper) = Len(stack) + 1
             /\ deeper[Len(stack) + 1] = f
             /\ \A i \in 1..Len(stack) : deeper[i] = stack[i]
<1> DEFINE L == Len(stack)
           deeper == Append(stack, f)
<1>1. stack \in Seq(Calls) /\ L \in Nat /\ L >= 1 /\ Tree!Last(stack) = stack[L] /\ L \in 1..L /\ 1 \in 1..L
  BY DEF InDirectories, Tree!Last
<1>2. PICK p \in Paths : p = f.path
  BY DEF Calls
<1>3. deeper \in Seq(Calls) /\ Len(deeper) = L + 1 /\ deeper[L + 1] = f
      /\ \A i \in 1..L : deeper[i] = stack[i]
  BY <1>1, <1>2, AppendProperties
<1>4. Tree!Below(p, t)
  <2>1. stack[L] \in Calls
    BY <1>1, ElementOfSeq
  <2>2. stack[L].path \in Paths
    BY <2>1 DEF Calls
  <2>3. Tree!Below(stack[L].path, t)
    BY <1>1 DEF InDirectories
  <2>4. stack[L].path \in Seq(PathNames) /\ p \in Seq(PathNames) /\ t \in Seq(PathNames)
    BY <2>2, PathsAreSequences
  <2>5. Tree!Below(p, stack[L].path)
    BY <1>1, <1>2, <2>4, ChildrenHaveParents
  <2> QED
    BY <2>3, <2>4, <2>5, BelowIsTransitive
<1>5. \A i \in 1..L + 1 : i \in 1..L \/ i = L + 1
  BY <1>1
<1>6. \A i \in 1..(L + 1) - 1 : i \in 1..L /\ ((i \in 1..L - 1 /\ i + 1 \in 1..L) \/ i = L)
  BY <1>1
<1> HIDE DEF deeper
<1>7. \A i \in 1..L + 1 : Tree!Below(deeper[i].path, t)
  BY <1>2, <1>3, <1>4, <1>5 DEF InDirectories
<1>8. \A i \in 1..(L + 1) - 1 : Tree!Parent(deeper[i + 1].path) = deeper[i].path /\ deeper[i].step = "readdir"
  <2> SUFFICES ASSUME NEW i \in 1..(L + 1) - 1 PROVE Tree!Parent(deeper[i + 1].path) = deeper[i].path /\ deeper[i].step = "readdir"
    OBVIOUS
  <2>1. CASE i = L
    BY <1>1, <1>2, <1>3, <2>1
  <2>2. CASE i \in 1..L - 1 /\ i + 1 \in 1..L
    BY <1>3, <1>6, <2>2 DEF InDirectories
  <2> QED
    BY <1>6, <2>1, <2>2
<1>9. InDirectories(deeper, t)
  BY <1>1, <1>3, <1>7, <1>8 DEF InDirectories
<1> QED
  BY <1>3, <1>9 DEF deeper

LEMMA DirectoryIsLeft ==
  ASSUME NEW t \in Paths, NEW stack, InDirectories(stack, t), Len(stack) # 1
  PROVE  /\ InDirectories(Tree!Front(stack), t) /\ Len(Tree!Front(stack)) = Len(stack) - 1
         /\ \A i \in 1..Len(stack) - 1 : Tree!Front(stack)[i] = stack[i]
<1> DEFINE L == Len(stack)
           front == Tree!Front(stack)
<1>1. stack \in Seq(Calls) /\ L \in Nat /\ L >= 1 /\ L # 1
  BY DEF InDirectories
<1>2. front \in Seq(Calls) /\ Len(front) = L - 1 /\ \A i \in 1..L - 1 : front[i] = stack[i]
  BY <1>1, FrontsOfStacks
<1>3. L - 1 >= 1 /\ 1 \in 1..L - 1 /\ (\A i \in 1..L - 1 : i \in 1..L)
      /\ \A i \in 1..(L - 1) - 1 : i \in 1..L - 1 /\ i + 1 \in 1..L - 1
  <2>1. \A n \in Nat : n >= 1 /\ n # 1 => n - 1 >= 1 /\ 1 \in 1..n - 1 /\ (\A i \in 1..n - 1 : i \in 1..n)
    OBVIOUS
  <2>2. \A n \in Nat : \A i \in 1..(n - 1) - 1 : i \in 1..n - 1 /\ i + 1 \in 1..n - 1
    OBVIOUS
  <2> QED
    BY <1>1, <2>1, <2>2
<1> HIDE DEF front
<1>4. InDirectories(front, t)
  BY <1>2, <1>3 DEF InDirectories
<1> QED
  BY <1>2, <1>4 DEF front

(* Removing one path. *)
LEMMA RemovesOneAtMost ==
  ASSUME TreeInv, NoLinks, NEW r \in Removers, NEW p \in Paths, tree[p] # "special",
         Tree!Removes(r, p), made' = made
  PROVE  /\ TreeStep
         /\ \A q \in removed'[r] : q \in removed[r] \/ q = p
         /\ \A s \in Removers : s # r => ByOther(s)
         /\ Tree!Removable(p) => tree'[p] = "none"
         /\ (\A q \in Paths : Tree!Parent(q) = p => tree[q] = "none") => tree'[p] = "none"
         /\ tree[p] # "none" /\ (\A q \in Paths : Tree!Parent(q) = p => tree[q] = "none") => Tree!Removable(p)
<1>1. Tree!LStat(p) = tree[p] /\ Tree!Node(p) = p
  BY PathsLeadToThemselves
<1>2. \A q \in Paths : q \in Tree!Children(p) <=> Tree!Parent(q) = p
  BY PathsAreSequences, ChildrenHaveParents
<1>3. Tree!Removable(p) <=> tree[p] # "none" /\ \A q \in Paths : Tree!Parent(q) = p => tree[q] = "none"
  BY <1>1, <1>2 DEF Tree!Removable, Tree!Children
<1>4. tree \in [Paths -> Kinds] /\ removed \in [Removers -> SUBSET Paths]
  BY DEF TreeInv, TreeShape
<1>5. CASE Tree!Removable(p)
  <2>1. tree' = [tree EXCEPT ![p] = "none"] /\ removed' = [removed EXCEPT ![r] = @ \cup {p}]
    BY <1>1, <1>5 DEF Tree!Removes
  <2>2. RemovedOne(r, p)
    BY <1>3, <1>5, <2>1 DEF RemovedOne
  <2>3. TreeStep /\ \A s \in Removers : s # r => ByOther(s)
    BY <2>2 DEF TreeStep, ByOther
  <2> QED
    BY <1>3, <1>4, <2>1, <2>3
<1>6. CASE ~Tree!Removable(p)
  <2>1. tree' = tree /\ removed' = removed
    BY <1>6 DEF Tree!Removes
  <2>2. TreeStep /\ \A s \in Removers : ByOther(s)
    BY <2>1 DEF TreeStep, ByOther, MakerStep, Kept
  <2> QED
    BY <1>3, <1>6, <2>1, <2>2
<1> QED
  BY <1>5, <1>6

(* A remover that is at work. *)
LEMMA WhereTheRemoverIs ==
  ASSUME TreeInv, NEW r \in Removers, remover[r].op = "rm"
  PROVE  LET c == remover[r]
             D == Tree!Top(r).path
         IN  /\ c \in Walking /\ c.target \in Targets /\ c.target \in Paths
             /\ c = [op |-> "rm", target |-> c.target, stack |-> c.stack]
             /\ InDirectories(c.stack, c.target) /\ c.stack \in Seq(Calls)
             /\ Len(c.stack) \in Nat /\ Len(c.stack) >= 1 /\ (Len(c.stack) = 1 \/ Len(c.stack) > 1)
             /\ Tree!Top(r) \in Calls /\ Tree!Top(r) = c.stack[Len(c.stack)]
             /\ Tree!Top(r) = Tree!Last(c.stack)
             /\ D \in Paths /\ D \in Seq(PathNames) /\ Tree!Below(D, c.target)
             /\ \A i \in 1..Len(c.stack) : Ordinary(c.stack[i])
             /\ Tree!Undisturbed(r, c.target) => \A i \in 1..Len(c.stack) : Emptied(c.stack, i)
<1> DEFINE c == remover[r]
<1>1. /\ c \in Walking /\ InDirectories(c.stack, c.target)
      /\ \A i \in 1..Len(c.stack) : Ordinary(c.stack[i])
      /\ Tree!Undisturbed(r, c.target) => \A i \in 1..Len(c.stack) : Emptied(c.stack, i)
  BY DEF TreeInv, RemoverOk
<1>2. c.target \in Targets /\ c.target \in Paths /\ c = [op |-> "rm", target |-> c.target, stack |-> c.stack]
  BY <1>1, PathsAssumption DEF Walking
<1>3. c.stack \in Seq(Calls) /\ Len(c.stack) \in Nat /\ Len(c.stack) >= 1 /\ Len(c.stack) \in 1..Len(c.stack)
      /\ (Len(c.stack) = 1 \/ Len(c.stack) > 1)
  <2>1. c.stack \in Seq(Calls) /\ Len(c.stack) \in Nat /\ Len(c.stack) >= 1
    BY <1>1 DEF InDirectories
  <2>2. \A n \in Nat : n >= 1 => n \in 1..n /\ (n = 1 \/ n > 1)
    OBVIOUS
  <2> QED
    BY <2>1, <2>2
<1>4. Tree!Top(r) = c.stack[Len(c.stack)] /\ Tree!Top(r) = Tree!Last(c.stack)
  BY DEF Tree!Top, Tree!Last
<1>5. Tree!Top(r) \in Calls
  BY <1>3, <1>4, ElementOfSeq
<1>6. Tree!Top(r).path \in Paths /\ Tree!Top(r).path \in Seq(PathNames)
  BY <1>5, PathsAreSequences DEF Calls
<1>7. Tree!Below(Tree!Top(r).path, c.target)
  BY <1>1, <1>3, <1>4 DEF InDirectories
<1> QED
  BY <1>1, <1>2, <1>3, <1>4, <1>5, <1>6, <1>7

LEMMA RmStep ==
  ASSUME TreeInv, NEW r \in Removers, NEW t \in Targets, Tree!Rm(r, t) PROVE TreeInv'
<1> DEFINE top == Tree!Call(t, "posix__rm")
           stack == <<top>>
           new == [op |-> "rm", target |-> t, stack |-> stack]
<1>1. remover[r].op = "new" /\ UNCHANGED <<tree, maker, refused, made, removed>>
      /\ remover' = [remover EXCEPT ![r] = new]
  BY DEF Tree!Rm
<1>2. t \in Paths /\ t \in Seq(PathNames) /\ Tree!Below(t, t)
  BY PathsAssumption, PathsAreSequences, BelowIsReflexive
<1>3. removed[r] = {} /\ refused \in BOOLEAN
  BY <1>1 DEF TreeInv, RemoverOk
<1>4. top \in Calls /\ top.path = t /\ top.seen = {} /\ ~top.ending /\ top.step = "isdir"
  BY <1>2 DEF Tree!Call, Calls
<1> HIDE DEF top
<1>5. stack \in Seq(Calls) /\ Len(stack) = 1 /\ stack[1] = top
  BY <1>4
<1> HIDE DEF stack
<1>6. new \in Walking /\ new.op = "rm" /\ new.target = t /\ new.stack = stack
  BY <1>5 DEF Walking
<1> HIDE DEF new
<1>7. InDirectories(stack, t)
  BY <1>2, <1>4, <1>5 DEF InDirectories
<1>8. \A i \in 1..Len(stack) : i = 1 /\ Ordinary(stack[i])' /\ Emptied(stack, i)'
  BY <1>4, <1>5 DEF Emptied, Ordinary
<1>9. RemoverOk(r, new)'
  BY <1>1, <1>3, <1>6, <1>7, <1>8 DEF RemoverOk
<1>10. remover'[r] = new /\ remover' \in [Removers -> Starting \cup Walking \cup Ended]
       /\ \A s \in Removers : s # r => remover'[s] = remover[s]
  BY <1>1, <1>6 DEF TreeInv
<1>11. TreeStep /\ (\A s \in Removers : ByOther(s)) /\ RemoverOk(r, remover[r])'
  BY <1>1, <1>9, <1>10 DEF TreeStep, ByOther, MakerStep, Kept
<1> QED
  BY <1>1, <1>3, <1>10, <1>11, TreeInvAfter DEF TreeInv

(* The innermost call goes on to another step, with the tree as it was. *)
LEMMA CallGoesOn ==
  ASSUME TreeInv, NEW r \in Removers, remover[r].op = "rm",
         UNCHANGED <<tree, maker, made, removed>>, refused' \in BOOLEAN, refused => refused',
         NEW f \in Calls, Tree!Becomes(r, f),
         f.path = Tree!Top(r).path, f.seen = Tree!Top(r).seen, f.ending = Tree!Top(r).ending,
         Ordinary(f), ~refused' /\ Len(remover[r].stack) > 1 /\ Tree!Undisturbed(r, remover[r].target) => Expected(f)
  PROVE  TreeInv'
<1>0. PICK c : c = remover[r]
  OBVIOUS
<1> DEFINE L == Len(c.stack)
           rest == Append(Tree!Front(c.stack), f)
           new == [op |-> "rm", target |-> c.target, stack |-> rest]
<1>2. /\ c \in Walking /\ c.target \in Targets /\ c.target \in Paths
      /\ c = [op |-> "rm", target |-> c.target, stack |-> c.stack]
      /\ InDirectories(c.stack, c.target) /\ L \in Nat /\ L >= 1
      /\ Tree!Top(r) = c.stack[L] /\ Tree!Top(r) = Tree!Last(c.stack)
      /\ \A i \in 1..L : Ordinary(c.stack[i])
      /\ Tree!Undisturbed(r, c.target) => \A i \in 1..L : Emptied(c.stack, i)
  BY <1>0, WhereTheRemoverIs
<1>3. /\ InDirectories(rest, c.target) /\ Len(rest) = L /\ rest[L] = f
      /\ \A i \in 1..L - 1 : rest[i] = c.stack[i]
      /\ \A i \in 1..L : rest[i].path = c.stack[i].path
  BY <1>2, LastIsReplaced
<1>4. remover' = [remover EXCEPT ![r].stack = rest]
  BY <1>0 DEF Tree!Becomes
<1>5. remover'[r] = [c EXCEPT !.stack = rest] /\ \A s \in Removers : s # r => remover'[s] = remover[s]
  BY <1>0, <1>4 DEF TreeInv
<1> HIDE DEF rest
<1>6. rest \in Seq(Calls) /\ L \in 1..L /\ \A i \in 1..L : i = L \/ (i \in 1..L - 1 /\ i + 1 \in 1..L /\ i < L)
  BY <1>2, <1>3 DEF InDirectories
<1>7. remover'[r] = new
  BY <1>2, <1>5 DEF Walking
<1>8. new \in Walking /\ new.op = "rm" /\ new.target = c.target /\ new.stack = rest
  BY <1>2, <1>6 DEF Walking
<1> HIDE DEF new
<1>9. TreeStep /\ \A s \in Removers : ByOther(s)
  BY DEF TreeStep, ByOther, MakerStep, Kept
<1>10. \A q \in removed'[r] : Tree!Below(q, c.target)
  BY <1>0 DEF TreeInv, RemoverOk
<1>11. \A i \in 1..L : Ordinary(rest[i])'
  BY <1>2, <1>3, <1>6 DEF Ordinary
<1>12. ASSUME Tree!Undisturbed(r, c.target)', NEW i \in 1..L PROVE Emptied(rest, i)'
  <2>1. Tree!Undisturbed(r, c.target) /\ ~refused'
    BY <1>9, <1>12, DisturbedForGood DEF Tree!Undisturbed
  <2>2. Emptied(c.stack, i)
    BY <1>2, <2>1
  <2>3. CASE i = L
    <3>1. Expected(f) => Expected(f)'
      BY DEF Expected
    <3>2. i > 1 => Expected(f)
      BY <1>0, <2>1, <2>3
    <3>3. i = L /\ L = Len(rest) /\ rest[i] = f /\ ~(i < Len(rest)) /\ ~(i < Len(c.stack))
      BY <1>2, <1>3, <2>3
    <3>4. f.path = c.stack[i].path /\ f.seen = c.stack[i].seen /\ f.ending = c.stack[i].ending
      BY <1>2, <3>3
    <3>5. ~f.ending /\ \A p \in Paths : Tree!Parent(p) = f.path /\ Tree!Last(p) \in f.seen => tree[p] = "none"
      BY <2>2, <3>3, <3>4 DEF Emptied
    <3> QED
      BY <3>1, <3>2, <3>3, <3>5 DEF Emptied
  <2>4. CASE i \in 1..L - 1 /\ i + 1 \in 1..L /\ i < L
    <3>1. rest[i] = c.stack[i] /\ rest[i + 1].path = c.stack[i + 1].path
      BY <1>3, <2>4
    <3>2. Expected(rest[i]) => Expected(rest[i])'
      BY DEF Expected
    <3> QED
      BY <1>3, <2>2, <2>4, <3>1, <3>2 DEF Emptied
  <2> QED
    BY <1>6, <2>3, <2>4
<1>13. RemoverOk(r, new)'
  BY <1>2, <1>3, <1>8, <1>10, <1>11, <1>12 DEF RemoverOk
<1>14. remover' \in [Removers -> Starting \cup Walking \cup Ended] /\ RemoverOk(r, remover[r])'
  BY <1>4, <1>7, <1>8, <1>13 DEF TreeInv
<1> QED
  BY <1>5, <1>9, <1>14, TreeInvAfter DEF TreeInv

(* The innermost call returns: undisturbed, an inner one has left nothing at its
   path and has not failed, and the outermost one that returns 0 neither. *)
LEMMA CallReturns ==
  ASSUME TreeInv, TreeStep, NEW r \in Removers, remover[r].op = "rm",
         \A s \in Removers : s # r => ByOther(s),
         \A q \in removed'[r] : q \in removed[r] \/ q = Tree!Top(r).path,
         UNCHANGED maker, refused' \in BOOLEAN, refused => refused',
         NEW ret \in {0, -1}, Tree!Answers(r, ret),
         NEW t, t = remover[r].target,
         Tree!Undisturbed(r, t)' =>
           IF Len(remover[r].stack) = 1 THEN ret = 0 => tree'[Tree!Top(r).path] = "none"
           ELSE ret = 0 /\ tree'[Tree!Top(r).path] = "none"
  PROVE  TreeInv'
<1>0. PICK c, top : c = remover[r] /\ top = Tree!Top(r)
  OBVIOUS
<1> DEFINE L == Len(c.stack)
           D == top.path
           front == Tree!Front(c.stack)
           fails == ret < 0 /\ top.caller = "posix__rm"
           f == [Tree!Last(front) EXCEPT !.ending = fails]
           rest == Append(Tree!Front(front), f)
           last == [op |-> "done", ret |-> ret, target |-> c.target]
           outer == [op |-> "rm", target |-> c.target, stack |-> rest]
<1>1. remover' = [remover EXCEPT ![r] = IF L = 1 THEN last ELSE [c EXCEPT !.stack = rest]]
  BY <1>0 DEF Tree!Answers, Tree!Return
<1>2. /\ c \in Walking /\ c.target \in Targets /\ c.target \in Paths
      /\ c = [op |-> "rm", target |-> c.target, stack |-> c.stack]
      /\ InDirectories(c.stack, c.target) /\ L \in Nat /\ L >= 1
      /\ top = c.stack[L] /\ Tree!Below(D, c.target)
      /\ \A i \in 1..L : Ordinary(c.stack[i])
      /\ Tree!Undisturbed(r, c.target) => \A i \in 1..L : Emptied(c.stack, i)
  BY <1>0, WhereTheRemoverIs
<1>3. \A q \in removed'[r] : Tree!Below(q, c.target)
  BY <1>0, <1>2 DEF TreeInv, RemoverOk
<1>4. Tree!Undisturbed(r, c.target)' =>
        IF L = 1 THEN ret = 0 => tree'[D] = "none" ELSE ret = 0 /\ tree'[D] = "none"
  BY <1>0
<1>5. \A s \in Removers : s # r => remover'[s] = remover[s]
  BY <1>1 DEF TreeInv
<1> HIDE DEF D, front, fails
<1>6. CASE L = 1
  <2>1. remover'[r] = last
    BY <1>1, <1>6 DEF TreeInv
  <2>2. last \in Ended /\ last.op = "done" /\ last.ret = ret /\ last.target = c.target
    BY <1>2 DEF Ended
  <2> HIDE DEF last
  <2>3. D = c.target
    BY <1>2, <1>6 DEF InDirectories, D
  <2>4. RemoverOk(r, last)'
    BY <1>2, <1>3, <1>4, <1>6, <2>2, <2>3 DEF RemoverOk
  <2>5. remover' \in [Removers -> Starting \cup Walking \cup Ended] /\ RemoverOk(r, remover[r])'
    BY <1>1, <1>6, <2>1, <2>2, <2>4 DEF TreeInv
  <2> QED
    BY <1>5, <2>5, TreeInvAfter DEF TreeInv
<1>7. CASE L # 1
  <2>1. InDirectories(front, c.target) /\ Len(front) = L - 1 /\ \A i \in 1..L - 1 : front[i] = c.stack[i]
    BY <1>2, <1>7, DirectoryIsLeft DEF front
  <2>2. front \in Seq(Calls) /\ L - 1 \in 1..L - 1 /\ L - 1 >= 1 /\ L > 1
    BY <1>2, <1>7, <2>1 DEF InDirectories
  <2>3. Tree!Last(front) = c.stack[L - 1] /\ Tree!Last(front) \in Calls
    <3>1. front[L - 1] \in Calls
      BY <2>1, <2>2, ElementOfSeq
    <3> QED
      BY <2>1, <2>2, <3>1 DEF Tree!Last
  <2>4. f \in Calls /\ f.path = Tree!Last(front).path /\ f.seen = Tree!Last(front).seen
        /\ f.step = Tree!Last(front).step /\ f.ending = fails
    <3>1. fails \in BOOLEAN
      BY DEF fails
    <3> QED
      BY <2>3, <3>1 DEF Calls
  <2> HIDE DEF f
  <2>5. /\ InDirectories(rest, c.target) /\ Len(rest) = L - 1 /\ rest[L - 1] = f
        /\ \A i \in 1..(L - 1) - 1 : rest[i] = front[i]
        /\ \A i \in 1..L - 1 : rest[i].path = front[i].path
    BY <1>2, <2>1, <2>4, LastIsReplaced
  <2>6. remover'[r] = [c EXCEPT !.stack = rest]
    BY <1>1, <1>7 DEF TreeInv
  <2> HIDE DEF rest
  <2>7. rest \in Seq(Calls)
    BY <2>5 DEF InDirectories
  <2>8. remover'[r] = outer
    BY <1>2, <2>6 DEF Walking
  <2>9. outer \in Walking /\ outer.op = "rm" /\ outer.target = c.target /\ outer.stack = rest
    BY <1>2, <2>7 DEF Walking
  <2> HIDE DEF outer
  <2>10. \A i \in 1..L - 1 : /\ i \in 1..L /\ rest[i].path = c.stack[i].path /\ rest[i].step = c.stack[i].step
                             /\ rest[i].seen = c.stack[i].seen /\ i + 1 \in 1..L
    <3> SUFFICES ASSUME NEW i \in 1..L - 1
                 PROVE  /\ i \in 1..L /\ rest[i].path = c.stack[i].path /\ rest[i].step = c.stack[i].step
                        /\ rest[i].seen = c.stack[i].seen /\ i + 1 \in 1..L
      OBVIOUS
    <3>1. i \in 1..L /\ i + 1 \in 1..L /\ (i = L - 1 \/ i \in 1..(L - 1) - 1)
      BY <1>2
    <3>2. CASE i = L - 1
      BY <2>3, <2>4, <2>5, <3>1, <3>2
    <3>3. CASE i \in 1..(L - 1) - 1
      BY <2>1, <2>5, <3>1, <3>3
    <3> QED
      BY <3>1, <3>2, <3>3
  <2>11. \A i \in 1..L - 1 : rest[i].path \in Paths /\ Tree!Below(rest[i].path, c.target)
    <3>1. \A i \in 1..L - 1 : rest[i] \in Calls
      BY <2>5, <2>7, ElementOfSeq
    <3> QED
      BY <2>5, <3>1 DEF Calls, InDirectories
  <2>12. \A i \in 1..L - 1 : Ordinary(rest[i])'
    <3>1. \A p \in Paths : tree'[p] = "special" <=> tree[p] = "special"
      BY TreeStepKeepsShape
    <3> SUFFICES ASSUME NEW i \in 1..L - 1 PROVE Ordinary(rest[i])'
      OBVIOUS
    <3>2. Ordinary(c.stack[i]) /\ rest[i].path \in Paths /\ rest[i].path = c.stack[i].path
          /\ rest[i].step = c.stack[i].step
      BY <1>2, <2>10, <2>11
    <3> QED
      BY <3>1, <3>2 DEF Ordinary
  <2>13. ASSUME Tree!Undisturbed(r, c.target)', NEW i \in 1..L - 1 PROVE Emptied(rest, i)'
    <3>1. Tree!Undisturbed(r, c.target) /\ \A p \in Paths : tree[p] = "none" => tree'[p] = "none"
      BY <2>13, DisturbedForGood
    <3>2. Emptied(c.stack, i) /\ ret = 0 /\ tree'[D] = "none" /\ D = c.stack[L].path
      BY <1>2, <1>4, <1>7, <2>10, <2>13, <3>1 DEF D
    <3>3. ~fails
      BY <3>2 DEF fails
    <3>4. ~rest[i].ending
      <4>1. i = L - 1 \/ i \in 1..(L - 1) - 1
        BY <1>2
      <4>2. CASE i = L - 1
        BY <2>4, <2>5, <3>3, <4>2
      <4>3. CASE i \in 1..(L - 1) - 1
        BY <2>1, <2>5, <2>13, <3>2, <4>3 DEF Emptied
      <4> QED
        BY <4>1, <4>2, <4>3
    <3>5. Expected(rest[i])'
      <4>1. rest[i].step = "readdir"
        BY <1>2, <2>10 DEF InDirectories
      <4> QED
        BY <4>1 DEF Expected
    <3>6. ASSUME NEW p \in Paths, Tree!Parent(p) = rest[i].path, Tree!Last(p) \in rest[i].seen
          PROVE  tree'[p] = "none" \/ (i < Len(rest) /\ p = rest[i + 1].path)
      <4>1. tree[p] = "none" \/ p = c.stack[i + 1].path
        BY <2>10, <3>2, <3>6 DEF Emptied
      <4>2. i + 1 = L \/ (i < L - 1 /\ i + 1 \in 1..L - 1)
        BY <1>2
      <4>3. CASE i + 1 = L
        BY <3>1, <3>2, <3>6, <4>1, <4>3
      <4>4. CASE i < L - 1 /\ i + 1 \in 1..L - 1
        BY <2>5, <2>10, <3>1, <3>6, <4>1, <4>4
      <4> QED
        BY <4>2, <4>3, <4>4
    <3> QED
      BY <3>4, <3>5, <3>6 DEF Emptied
  <2>14. RemoverOk(r, outer)'
    BY <1>2, <1>3, <2>5, <2>9, <2>12, <2>13 DEF RemoverOk
  <2>15. remover' \in [Removers -> Starting \cup Walking \cup Ended] /\ RemoverOk(r, remover[r])'
    BY <1>1, <1>7, <2>6, <2>8, <2>9, <2>14 DEF TreeInv
  <2> QED
    BY <1>5, <2>15, TreeInvAfter DEF TreeInv
<1> QED
  BY <1>6, <1>7

LEMMA IsdirStep ==
  ASSUME TreeInv, NoLinks, NEW r \in Removers, Tree!Isdir(r) PROVE TreeInv'
<1> DEFINE top == Tree!Top(r)
           f == IF Tree!IsDir(top.path) THEN [top EXCEPT !.step = "opendir"]
                ELSE IF top.caller = "posix__rm" THEN [top EXCEPT !.step = "remove"]
                ELSE [top EXCEPT !.caller = "posix__rm"]
<1>1. remover[r].op = "rm" /\ top.step = "isdir" /\ Tree!Becomes(r, f)
      /\ UNCHANGED <<tree, maker, refused, made, removed>>
  BY DEF Tree!Isdir, Tree!At
<1>2. /\ top \in Calls /\ top.path \in Paths
      /\ top = remover[r].stack[Len(remover[r].stack)] /\ Len(remover[r].stack) \in Nat
      /\ Tree!Below(top.path, remover[r].target)
      /\ Tree!Undisturbed(r, remover[r].target) => \A i \in 1..Len(remover[r].stack) : Emptied(remover[r].stack, i)
  BY <1>1, WhereTheRemoverIs
<1>3. Tree!Stat(top.path) = tree[top.path] /\ tree[top.path] \in Kinds
  BY <1>2, PathsLeadToThemselves DEF TreeInv, TreeShape
<1> HIDE DEF top
<1>4. /\ f \in Calls /\ f.path = top.path /\ f.seen = top.seen /\ f.ending = top.ending
      /\ f.step = IF Tree!IsDir(top.path) THEN "opendir" ELSE IF top.caller = "posix__rm" THEN "remove" ELSE "isdir"
  BY <1>1, <1>2 DEF Calls
<1>5. Ordinary(f)
  BY <1>3, <1>4 DEF Ordinary, Tree!IsDir
<1>6. ASSUME Len(remover[r].stack) > 1, Tree!Undisturbed(r, remover[r].target) PROVE Expected(f)
  <2>1. Len(remover[r].stack) \in 1..Len(remover[r].stack)
    BY <1>2, <1>6
  <2>2. tree[top.path] # "none"
    BY <1>1, <1>2, <1>6, <2>1 DEF Emptied, Expected
  <2>3. tree[top.path] # "special"
    BY <1>2, <1>6 DEF Tree!Undisturbed, Tree!Below, Tree!IsPrefix
  <2>4. Tree!IsDir(top.path) => tree[top.path] = "dir"
    BY <1>3, <2>2, <2>3 DEF Tree!IsDir, Kinds
  <2>5. ~Tree!IsDir(top.path) => tree[top.path] = "file"
    BY <1>3, <2>2, <2>3 DEF Tree!IsDir, Kinds
  <2> QED
    BY <1>4, <2>2, <2>4, <2>5 DEF Expected
<1> HIDE DEF f
<1>7. refused' \in BOOLEAN
  BY <1>1 DEF TreeInv
<1> QED
  BY <1>1, <1>4, <1>5, <1>6, <1>7, CallGoesOn DEF top

LEMMA OpendirStep ==
  ASSUME TreeInv, NoLinks, NEW r \in Removers, Tree!Opendir(r) PROVE TreeInv'
<1>0. PICK t : t = remover[r].target
  OBVIOUS
<1> DEFINE top == Tree!Top(r)
           f == [top EXCEPT !.step = "readdir"]
<1>1. remover[r].op = "rm" /\ top.step = "opendir"
      /\ UNCHANGED <<tree, maker, refused, made, removed>>
      /\ IF Tree!Stat(top.path) = "dir" THEN Tree!Becomes(r, f) ELSE Tree!Answers(r, -1)
  BY DEF Tree!Opendir, Tree!At
<1>2. /\ top \in Calls /\ top.path \in Paths
      /\ top = remover[r].stack[Len(remover[r].stack)] /\ Len(remover[r].stack) \in Nat
      /\ (Len(remover[r].stack) = 1 \/ Len(remover[r].stack) > 1)
      /\ Tree!Undisturbed(r, t) => \A i \in 1..Len(remover[r].stack) : Emptied(remover[r].stack, i)
  BY <1>0, <1>1, WhereTheRemoverIs
<1>3. Tree!Stat(top.path) = tree[top.path]
  BY <1>2, PathsLeadToThemselves
<1> HIDE DEF top
<1>4. refused' \in BOOLEAN /\ TreeStep /\ \A s \in Removers : ByOther(s)
  BY <1>1 DEF TreeInv, TreeStep, ByOther, MakerStep, Kept
<1>5. CASE tree[top.path] = "dir"
  <2>1. /\ f \in Calls /\ f.path = top.path /\ f.seen = top.seen /\ f.ending = top.ending
        /\ f.step = "readdir"
    BY <1>2 DEF Calls
  <2>2. Ordinary(f) /\ Expected(f) /\ Tree!Becomes(r, f)
    BY <1>1, <1>3, <1>5, <2>1 DEF Ordinary, Expected
  <2> HIDE DEF f
  <2> QED
    BY <1>1, <1>4, <2>1, <2>2, CallGoesOn DEF top
<1>6. CASE tree[top.path] # "dir"
  <2>1. Tree!Answers(r, -1)
    BY <1>1, <1>3, <1>6
  <2>2. ASSUME Tree!Undisturbed(r, t)' PROVE Len(remover[r].stack) = 1
    <3>1. Tree!Undisturbed(r, t)
      BY <1>1, <1>4, <2>2, DisturbedForGood
    <3>2. Len(remover[r].stack) \in 1..Len(remover[r].stack)
      <4>1. \A n \in Nat : (n = 1 \/ n > 1) => n \in 1..n
        OBVIOUS
      <4> QED
        BY <1>2, <4>1
    <3>3. Emptied(remover[r].stack, Len(remover[r].stack))
      BY <1>2, <3>1, <3>2
    <3>4. ~Expected(top)
      BY <1>1, <1>6 DEF Expected
    <3>5. ~(Len(remover[r].stack) > 1)
      BY <1>2, <3>3, <3>4 DEF Emptied
    <3> QED
      BY <1>2, <3>5
  <2>3. -1 \in {0, -1} /\ -1 # 0
    OBVIOUS
  <2> QED
    BY <1>1, <1>4, <2>1, <2>2, <2>3, <1>0, CallReturns
<1> QED
  BY <1>5, <1>6

LEMMA VisitStep ==
  ASSUME TreeInv, NoLinks, NEW r \in Removers, Tree!Visit(r) PROVE TreeInv'
<1>0. PICK c : c = remover[r]
  OBVIOUS
<1> DEFINE L == Len(c.stack)
           top == Tree!Last(c.stack)
           D == top.path
<1>1. remover[r].op = "rm" /\ Tree!Top(r).step = "readdir" /\ ~Tree!Top(r).ending
      /\ UNCHANGED <<tree, maker, refused, made, removed>>
  BY DEF Tree!Visit, Tree!At
<1>2. /\ c \in Walking /\ c.target \in Targets /\ c.target \in Paths
      /\ c = [op |-> "rm", target |-> c.target, stack |-> c.stack]
      /\ InDirectories(c.stack, c.target) /\ c.stack \in Seq(Calls)
      /\ L \in Nat /\ L >= 1
      /\ Tree!Top(r) = top /\ top \in Calls /\ top = c.stack[L] /\ ~top.ending /\ top.step = "readdir"
      /\ D \in Paths /\ D \in Seq(PathNames)
      /\ \A i \in 1..L : Ordinary(c.stack[i])
      /\ Tree!Undisturbed(r, c.target) => \A i \in 1..L : Emptied(c.stack, i)
  BY <1>0, <1>1, WhereTheRemoverIs
<1> HIDE DEF top
<1>3. PICK p \in Tree!Entries(top) :
        remover' = [remover EXCEPT ![r].stack =
          Append(Append(Tree!Front(c.stack), [top EXCEPT !.seen = @ \cup {Tree!Last(p)}]),
                 Tree!Call(Append(D, Tree!Last(p)), "__posix__rmdir"))]
  BY <1>0, <1>2 DEF Tree!Visit
<1>4. p \in Paths /\ Tree!Parent(p) = D /\ tree[p] # "none" /\ p = Append(D, Tree!Last(p))
      /\ Tree!Last(p) \in PathNames
  <2>1. Tree!Follow(D) = D
    BY PathsLeadToThemselves
  <2>2. p \in Tree!Children(D) /\ tree[p] # "none" /\ p \in Paths
    BY <2>1 DEF Tree!Entries, Tree!Children
  <2> QED
    BY <1>2, <2>2, ChildrenHaveParents, PathsAreSequences
<1> DEFINE f == [top EXCEPT !.seen = @ \cup {Tree!Last(p)}]
           entry == Tree!Call(p, "__posix__rmdir")
           rest == Append(Tree!Front(c.stack), f)
           deeper == Append(rest, entry)
           new == [op |-> "rm", target |-> c.target, stack |-> deeper]
<1>5. f \in Calls /\ f.path = D /\ ~f.ending /\ f.seen = top.seen \cup {Tree!Last(p)} /\ f.step = "readdir"
  BY <1>2, <1>4 DEF Calls
<1>6. remover' = [remover EXCEPT ![r].stack = deeper]
  BY <1>3, <1>4
<1>7. entry \in Calls /\ entry.path = p /\ entry.step = "isdir" /\ entry.seen = {} /\ ~entry.ending
  BY <1>4 DEF Tree!Call, Calls
<1> HIDE DEF f, entry
<1>8. /\ InDirectories(rest, c.target) /\ Len(rest) = L /\ rest[L] = f
      /\ \A i \in 1..L - 1 : rest[i] = c.stack[i]
      /\ \A i \in 1..L : rest[i].path = c.stack[i].path
  BY <1>2, <1>5, LastIsReplaced DEF top
<1> HIDE DEF rest
<1>9. Tree!Last(rest) = f
  BY <1>8 DEF Tree!Last
<1>10. /\ InDirectories(deeper, c.target) /\ Len(deeper) = L + 1 /\ deeper[L + 1] = entry
       /\ \A i \in 1..L : deeper[i] = rest[i]
  BY <1>2, <1>4, <1>5, <1>7, <1>8, <1>9, DirectoryIsEntered
<1>11. remover'[r] = [c EXCEPT !.stack = deeper] /\ \A s \in Removers : s # r => remover'[s] = remover[s]
  BY <1>0, <1>6 DEF TreeInv
<1> HIDE DEF deeper
<1>12. deeper \in Seq(Calls)
  BY <1>10 DEF InDirectories
<1>13. remover'[r] = new
  BY <1>2, <1>11 DEF Walking
<1>14. new \in Walking /\ new.op = "rm" /\ new.target = c.target /\ new.stack = deeper
  BY <1>2, <1>12 DEF Walking
<1> HIDE DEF new
<1>15. TreeStep /\ \A s \in Removers : ByOther(s)
  BY <1>1 DEF TreeStep, ByOther, MakerStep, Kept
<1>16. \A q \in removed'[r] : Tree!Below(q, c.target)
  BY <1>0, <1>1 DEF TreeInv, RemoverOk
<1>17. \A i \in 1..L + 1 : (i \in 1..L - 1 /\ i + 1 \in 1..L /\ i < L) \/ i = L \/ i = L + 1
  BY <1>2
<1>18. L \in 1..L /\ L < L + 1 /\ \A i \in 1..L - 1 : i \in 1..L /\ i < L + 1
  BY <1>2
<1>19. \A i \in 1..L + 1 : Ordinary(deeper[i])'
  BY <1>1, <1>2, <1>5, <1>7, <1>8, <1>10, <1>17, <1>18 DEF Ordinary
<1>20. ASSUME Tree!Undisturbed(r, c.target)', NEW i \in 1..L + 1 PROVE Emptied(deeper, i)'
  <2>1. Tree!Undisturbed(r, c.target)
    BY <1>1, <1>15, <1>20, DisturbedForGood
  <2>2. \A j \in 1..L : Emptied(c.stack, j)
    BY <1>2, <2>1
  <2>3. CASE i \in 1..L - 1 /\ i + 1 \in 1..L /\ i < L
    <3>1. Emptied(c.stack, i)
      BY <1>18, <2>2, <2>3
    <3>2. deeper[i] = c.stack[i] /\ deeper[i + 1].path = c.stack[i + 1].path /\ i < L + 1
      BY <1>8, <1>10, <1>18, <2>3
    <3>3. Expected(deeper[i]) => Expected(deeper[i])'
      BY <1>1 DEF Expected
    <3> QED
      BY <1>1, <1>10, <2>3, <3>1, <3>2, <3>3 DEF Emptied
  <2>4. CASE i = L
    <3>1. deeper[i] = f /\ deeper[i + 1].path = p /\ i < L + 1
      BY <1>7, <1>8, <1>10, <1>18, <2>4
    <3>2. ASSUME NEW q \in Paths, Tree!Parent(q) = D, Tree!Last(q) \in f.seen PROVE tree[q] = "none" \/ q = p
      <4>1. CASE Tree!Last(q) \in top.seen
        <5>1. Emptied(c.stack, L)
          BY <1>18, <2>2
        <5> QED
          BY <1>2, <3>2, <4>1, <5>1 DEF Emptied
      <4>2. CASE Tree!Last(q) = Tree!Last(p)
        <5>1. q = Append(D, Tree!Last(q))
          BY <1>2, <3>2, ChildrenHaveParents
        <5> QED
          BY <1>4, <4>2, <5>1
      <4> QED
        BY <1>5, <3>2, <4>1, <4>2
    <3>3. Expected(f)'
      BY <1>5 DEF Expected
    <3> QED
      BY <1>1, <1>5, <1>10, <3>1, <3>2, <3>3 DEF Emptied
  <2>5. CASE i = L + 1
    <3>1. Expected(entry)'
      BY <1>1, <1>4, <1>7 DEF Expected
    <3> QED
      BY <1>7, <1>10, <2>5, <3>1 DEF Emptied
  <2> QED
    BY <1>17, <2>3, <2>4, <2>5
<1>21. RemoverOk(r, new)'
  BY <1>2, <1>10, <1>14, <1>16, <1>19, <1>20 DEF RemoverOk
<1>22. remover' \in [Removers -> Starting \cup Walking \cup Ended] /\ RemoverOk(r, remover[r])'
  BY <1>6, <1>13, <1>14, <1>21 DEF TreeInv
<1> QED
  BY <1>1, <1>11, <1>15, <1>22, TreeInvAfter DEF TreeInv

LEMMA RemoveFileStep ==
  ASSUME TreeInv, NoLinks, NEW r \in Removers, Tree!RemoveFile(r) PROVE TreeInv'
<1>0. PICK t : t = remover[r].target
  OBVIOUS
<1> DEFINE top == Tree!Top(r)
           ret == IF Tree!Removable(top.path) THEN 0 ELSE -1
<1>1. remover[r].op = "rm" /\ top.step = "remove" /\ UNCHANGED <<maker, refused, made>>
      /\ Tree!Removes(r, top.path) /\ Tree!Answers(r, ret)
  BY DEF Tree!RemoveFile, Tree!At
<1>2. /\ top \in Calls /\ top.path \in Paths
      /\ top = remover[r].stack[Len(remover[r].stack)] /\ Len(remover[r].stack) \in Nat
      /\ (Len(remover[r].stack) = 1 \/ Len(remover[r].stack) > 1)
      /\ \A i \in 1..Len(remover[r].stack) : Ordinary(remover[r].stack[i])
      /\ Tree!Undisturbed(r, t) => \A i \in 1..Len(remover[r].stack) : Emptied(remover[r].stack, i)
  BY <1>0, <1>1, WhereTheRemoverIs
<1>3. Len(remover[r].stack) \in 1..Len(remover[r].stack)
  <2>1. \A n \in Nat : (n = 1 \/ n > 1) => n \in 1..n
    OBVIOUS
  <2> QED
    BY <1>2, <2>1
<1>4. tree[top.path] # "special"
  BY <1>1, <1>2, <1>3 DEF Ordinary
<1>5. /\ TreeStep
      /\ \A q \in removed'[r] : q \in removed[r] \/ q = top.path
      /\ \A s \in Removers : s # r => ByOther(s)
      /\ Tree!Removable(top.path) => tree'[top.path] = "none"
      /\ (\A q \in Paths : Tree!Parent(q) = top.path => tree[q] = "none") => tree'[top.path] = "none"
      /\ tree[top.path] # "none" /\ (\A q \in Paths : Tree!Parent(q) = top.path => tree[q] = "none") =>
           Tree!Removable(top.path)
  BY <1>1, <1>2, <1>4, RemovesOneAtMost
<1> HIDE DEF top
<1>6. ret \in {0, -1} /\ (ret = 0 <=> Tree!Removable(top.path))
  OBVIOUS
<1>7. ASSUME Tree!Undisturbed(r, t)', Len(remover[r].stack) # 1
      PROVE  ret = 0 /\ tree'[top.path] = "none"
  <2>1. Tree!Undisturbed(r, t)
    BY <1>1, <1>5, <1>7, DisturbedForGood
  <2>2. tree[top.path] = "file"
    <3>1. Emptied(remover[r].stack, Len(remover[r].stack)) /\ Len(remover[r].stack) > 1
      BY <1>2, <1>3, <1>7, <2>1
    <3>2. Expected(top)
      BY <1>2, <3>1 DEF Emptied
    <3> QED
      BY <1>1, <3>2 DEF Expected
  <2>3. \A q \in Paths : Tree!Parent(q) = top.path => tree[q] = "none"
    BY <1>2, <2>2, PathsAssumption DEF TreeInv, TreeShape, Tree!KindAt
  <2> QED
    BY <1>5, <1>6, <2>2, <2>3
<1>8. refused' \in BOOLEAN
  BY <1>1 DEF TreeInv
<1> HIDE DEF ret
<1> QED
  BY <1>1, <1>5, <1>6, <1>7, <1>8, <1>0, CallReturns DEF top

LEMMA EndOfDirectoryStep ==
  ASSUME TreeInv, NoLinks, NEW r \in Removers, Tree!EndOfDirectory(r) PROVE TreeInv'
<1>0. PICK t : t = remover[r].target
  OBVIOUS
<1> DEFINE top == Tree!Top(r)
<1>1. remover[r].op = "rm" /\ top.step = "readdir" /\ UNCHANGED <<maker, refused, made>>
      /\ (top.ending \/ Tree!Entries(top) \subseteq made)
      /\ Tree!Removes(r, top.path) /\ Tree!Answers(r, 0)
  BY DEF Tree!EndOfDirectory, Tree!AtEnd, Tree!At
<1>2. /\ top \in Calls /\ top.path \in Paths /\ top.path \in Seq(PathNames)
      /\ top = remover[r].stack[Len(remover[r].stack)] /\ Len(remover[r].stack) \in Nat
      /\ (Len(remover[r].stack) = 1 \/ Len(remover[r].stack) > 1)
      /\ \A i \in 1..Len(remover[r].stack) : Ordinary(remover[r].stack[i])
      /\ Tree!Undisturbed(r, t) => \A i \in 1..Len(remover[r].stack) : Emptied(remover[r].stack, i)
  BY <1>0, <1>1, WhereTheRemoverIs
<1>3. Len(remover[r].stack) \in 1..Len(remover[r].stack)
  <2>1. \A n \in Nat : (n = 1 \/ n > 1) => n \in 1..n
    OBVIOUS
  <2> QED
    BY <1>2, <2>1
<1>4. tree[top.path] # "special"
  BY <1>1, <1>2, <1>3 DEF Ordinary
<1>5. /\ TreeStep
      /\ \A q \in removed'[r] : q \in removed[r] \/ q = top.path
      /\ \A s \in Removers : s # r => ByOther(s)
      /\ (\A q \in Paths : Tree!Parent(q) = top.path => tree[q] = "none") => tree'[top.path] = "none"
  BY <1>1, <1>2, <1>4, RemovesOneAtMost
<1> HIDE DEF top
<1>6. ASSUME Tree!Undisturbed(r, t)' PROVE tree'[top.path] = "none"
  <2>1. Tree!Undisturbed(r, t)
    BY <1>1, <1>5, <1>6, DisturbedForGood
  <2>2. Emptied(remover[r].stack, Len(remover[r].stack))
    BY <1>2, <1>3, <2>1
  <2>3. Tree!Entries(top) = {}
    BY <1>1, <1>2, <2>1, <2>2 DEF Emptied, Tree!Undisturbed
  <2>4. ASSUME NEW q \in Paths, Tree!Parent(q) = top.path PROVE tree[q] = "none"
    <3>1. q \in Tree!Children(Tree!Follow(top.path))
      BY <1>2, <2>4, ChildrenHaveParents, PathsLeadToThemselves
    <3>2. tree[q] = "none" \/ Tree!Last(q) \in top.seen
      BY <2>3, <3>1 DEF Tree!Entries
    <3> QED
      BY <1>2, <2>2, <2>4, <3>2 DEF Emptied
  <2> QED
    BY <1>5, <2>4
<1>7. refused' \in BOOLEAN
  BY <1>1 DEF TreeInv
<1>8. 0 \in {0, -1}
  OBVIOUS
<1> QED
  BY <1>1, <1>5, <1>6, <1>7, <1>8, <1>0, CallReturns DEF top

LEMMA RmRefusedStep ==
  ASSUME TreeInv, NEW r \in Removers, Tree!RmRefused(r) PROVE TreeInv'
<1>0. PICK t : t = remover[r].target
  OBVIOUS
<1> DEFINE top == Tree!Top(r)
           f == [top EXCEPT !.step = "opendir"]
<1>1. remover[r].op = "rm" /\ UNCHANGED <<tree, maker, made, removed>> /\ refused' = TRUE
      /\ ((top.step = "isdir" /\ Tree!Becomes(r, f)) \/ \E ret \in {0, -1} : Tree!Answers(r, ret))
  BY DEF Tree!RmRefused, Tree!AtEnd, Tree!At
<1>2. top \in Calls
  BY <1>0, <1>1, WhereTheRemoverIs
<1> HIDE DEF top
<1>3. ~Tree!Undisturbed(r, t)'
  BY <1>1 DEF Tree!Undisturbed
<1>4. CASE Tree!Becomes(r, f)
  <2>1. /\ f \in Calls /\ f.path = top.path /\ f.seen = top.seen /\ f.ending = top.ending /\ Ordinary(f)
    BY <1>2 DEF Calls, Ordinary
  <2> HIDE DEF f
  <2> QED
    BY <1>1, <1>4, <2>1, CallGoesOn DEF top
<1>5. CASE \E ret \in {0, -1} : Tree!Answers(r, ret)
  <2>1. PICK ret \in {0, -1} : Tree!Answers(r, ret)
    BY <1>5
  <2>2. TreeStep /\ \A s \in Removers : ByOther(s)
    BY <1>1 DEF TreeStep, ByOther, MakerStep, Kept
  <2> QED
    BY <1>1, <1>3, <2>1, <2>2, <1>0, CallReturns
<1> QED
  BY <1>1, <1>4, <1>5

LEMMA TreeInvNext == ASSUME TreeInv, NoLinks, [Tree!Next]_Tree!vars PROVE TreeInv'
<1>1. CASE UNCHANGED Tree!vars
  <2>1. tree' = tree /\ maker' = maker /\ remover' = remover /\ refused' = refused /\ made' = made /\ removed' = removed
    BY <1>1 DEF Tree!vars
  <2>2. TreeStep /\ \A r \in Removers : ByOther(r)
    BY <2>1 DEF TreeStep, ByOther, MakerStep, Kept
  <2> QED
    BY <2>1, <2>2, TreeInvAfter DEF TreeInv
<1>2. CASE Tree!Next
  BY <1>2, PMkdirStep, MkdirStep, MkdirRefusedStep, RmStep, IsdirStep, OpendirStep, VisitStep,
     RemoveFileStep, EndOfDirectoryStep, RmRefusedStep
     DEF Tree!Next
<1> QED
  BY <1>1, <1>2

(* Concurrent posix__pmkdirs do not get in each other's way: one fails only
   because of a file in the way, or of the file system, and what has succeeded
   has left something at every prefix of its path. *)
THEOREM MakersMeetHolds == ASSUME NoLinks PROVE Tree!Spec => []MakersMeet
<1>1. Tree!Init => TreeInv
  BY TreeInvInit
<1>2. TreeInv /\ [Tree!Next]_Tree!vars => TreeInv'
  BY TreeInvNext
<1>3. TreeInv => MakersMeet
  <2> SUFFICES ASSUME TreeInv, NEW m \in Makers, maker[m].op = "done", NothingRemoved
               PROVE  IF maker[m].ret = 0
                      THEN \A n \in 1..Len(maker[m].target) : Tree!KindAt(SubSeq(maker[m].target, 1, n)) # "none"
                      ELSE Tree!Obstructed(maker[m].target) \/ refused
    BY DEF MakersMeet, Tree!MakersMeet, NothingRemoved
  <2> DEFINE t == maker[m].target
  <2>1. MakerOk(maker[m])
    BY DEF TreeInv
  <2>2. maker[m] \in Ended /\ IF maker[m].ret = 0 THEN tree[t] # "none" ELSE Blocked(t) \/ refused
    BY <2>1 DEF MakerOk
  <2>3. t \in Paths /\ Len(t) \in Nat /\ Len(t) >= 1
    BY <2>2, PathsAssumption, PathsAreSequences DEF Ended
  <2> HIDE DEF t
  <2>4. ASSUME tree[t] # "none", NEW n \in 1..Len(t) PROVE Tree!KindAt(SubSeq(t, 1, n)) # "none"
    <3>1. Len(t) \in 1..Len(t) /\ SubSeq(t, 1, Len(t)) = t
      BY <2>3, PrefixesOfPaths
    <3>2. tree[SubSeq(t, 1, n)] # "none"
      BY <2>3, <2>4, <3>1, PrefixesAreThere DEF TreeInv
    <3>3. SubSeq(t, 1, n) \in Paths
      BY <2>3, PathsAssumption
    <3> QED
      BY <3>2, <3>3, PathsLeadToThemselves
  <2>5. ASSUME Blocked(t) PROVE Tree!Obstructed(t)
    <3>1. PICK n \in 1..Len(t) - 1 : tree[SubSeq(t, 1, n)] \in {"file", "special"}
      BY <2>5 DEF Blocked
    <3>2. n \in 1..Len(t)
      BY <2>3
    <3>3. SubSeq(t, 1, n) \in Paths
      BY <2>3, <3>2, PathsAssumption
    <3>4. Tree!Stat(SubSeq(t, 1, n)) \in {"file", "special"}
      BY <3>1, <3>3, PathsLeadToThemselves
    <3> QED
      BY <3>4 DEF Tree!Obstructed
  <2> QED
    BY <2>2, <2>4, <2>5 DEF t
<1> QED
  BY <1>1, <1>2, <1>3, PTL DEF Tree!Spec

(* posix__rm is rm -fr: it removes what is at or below its target and nothing
   else, and what it has returned 0 for undisturbed is gone. *)
THEOREM SameAsRmHolds == ASSUME NoLinks PROVE Tree!Spec => []SameAsRm
<1>1. Tree!Init => TreeInv
  BY TreeInvInit
<1>2. TreeInv /\ [Tree!Next]_Tree!vars => TreeInv'
  BY TreeInvNext
<1>3. TreeInv => SameAsRm
  <2> SUFFICES ASSUME TreeInv, NEW r \in Removers
               PROVE  /\ remover[r].op # "new" => \A p \in removed[r] : Tree!Below(p, remover[r].target)
                      /\ remover[r].op = "done" /\ remover[r].ret = 0 /\ Tree!Undisturbed(r, remover[r].target) =>
                           Tree!KindAt(remover[r].target) = "none"
    BY DEF SameAsRm, Tree!SameAsRm
  <2>1. RemoverOk(r, remover[r]) /\ remover[r] \in Starting \cup Walking \cup Ended
    BY DEF TreeInv
  <2>2. remover[r].op \in {"new", "rm", "done"}
    BY <2>1 DEF Starting, Walking, Ended
  <2>3. ASSUME remover[r].op = "done", remover[r].ret = 0, Tree!Undisturbed(r, remover[r].target)
        PROVE  Tree!KindAt(remover[r].target) = "none"
    <3>1. remover[r].target \in Paths
      BY <2>1, <2>3, PathsAssumption DEF RemoverOk
    <3> QED
      BY <2>1, <2>3, <3>1, PathsLeadToThemselves DEF RemoverOk
  <2> QED
    BY <2>1, <2>2, <2>3 DEF RemoverOk
<1> QED
  BY <1>1, <1>2, <1>3, PTL DEF Tree!Spec
=============================================================================
