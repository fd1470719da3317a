------------------------------ MODULE LogFile ------------------------------
(***************************************************************************)
(* The file half of com/logger.c: log__printf attaches to the log file of  *)
(* a module under __log_file_lock and writes to it after the lock is       *)
(* released.  An object of the list is malloc'ed per module; the file it   *)
(* has open changes with the date and with the number of rows, and when    *)
(* the new file cannot be created the object is freed.                     *)
(*                                                                         *)
(* Printers are the threads that may be in log__printf: the asynchronous   *)
(* thread, and every caller of log__write and of log__flush.  A file is    *)
(* named by its module and the second it was opened in; a line is the      *)
(* module and the second it was logged in.  Descriptors are the kernel's:  *)
(* a closed one is issued again.                                           *)
(***************************************************************************)
EXTENDS Integers, Sequences, FiniteSets

CONSTANTS Printers, Modules,
          Files,         \* addresses of struct log_file_descriptor
          Descriptors,   \* descriptors the kernel issues
          MaxRows,       \* MAXIMUM_LOGFILE_LINE, 5000 in the code
          SecondsPerDay, DaysPerYear,
          MaxTime,       \* bound on the clock
          MaxLines,      \* bound on the lines logged in a behaviour
          None

ASSUME BoundsAssumption == {MaxRows, SecondsPerDay, DaysPerYear} \subseteq Nat \ {0} /\ MaxTime \in Nat
INVALID_FILE_DESCRIPTOR == -1
Times == 0..MaxTime
Names == Modules \X Times

ASSUME DescriptorsAssumption == Descriptors \subseteq Nat \ {0} /\ None \notin Files \cup Names

VARIABLES
  clock,                         \* the second posix__localtime reads
  mem, module, fd, filest, rows, \* per file object: "live" or "free", and its fields
  open,                          \* per descriptor: the file it is open on, or None
  disk,                          \* per name: the lines in the file
  pc, line, file, reg,           \* per printer: its place, its line, its object, a register
  logged,                        \* lines logged so far
  alone                          \* history: no two printers were in log__printf at once

objVars == <<mem, module, fd, filest, rows>>
osVars == <<open, disk>>
vars == <<clock, objVars, osVars, pc, line, file, reg, logged, alone>>

Day(s) == s \div SecondsPerDay
MonthAndDay(s) == Day(s) % DaysPerYear
Live == {o \in Files : mem[o] = "live"}

\* Each printer but one may count a row past the limit: all pass the test before.
TypeOK ==
  /\ clock \in Times
  /\ mem \in [Files -> {"live", "free"}]
  /\ module \in [Files -> Modules \cup {None}]
  /\ fd \in [Files -> Descriptors \cup {INVALID_FILE_DESCRIPTOR}]
  /\ filest \in [Files -> Times]
  /\ rows \in [Files -> 0..(MaxRows + Cardinality(Printers) - 1)]
  /\ open \in [Descriptors -> Names \cup {None}]
  /\ disk \in [Names -> Seq(Names)]
  /\ pc \in [Printers -> {"idle", "attach", "fd", "write", "load", "store", "close", "forget"}]
  /\ line \in [Printers -> Names]
  /\ file \in [Printers -> Files \cup {None}]
  /\ reg \in [Printers -> Int]
  /\ logged \in 0..MaxLines
  /\ alone \in BOOLEAN

Init ==
  /\ clock = 0
  /\ mem = [o \in Files |-> "free"]
  /\ module = [o \in Files |-> None]
  /\ fd = [o \in Files |-> INVALID_FILE_DESCRIPTOR]
  /\ filest = [o \in Files |-> 0]
  /\ rows = [o \in Files |-> 0]
  /\ open = [f \in Descriptors |-> None]
  /\ disk = [n \in Names |-> <<>>]
  /\ pc = [p \in Printers |-> "idle"]
  /\ line \in [Printers -> {<<CHOOSE m \in Modules : TRUE, 0>>}]
  /\ file = [p \in Printers |-> None]
  /\ reg = [p \in Printers |-> 0]
  /\ logged = 0
  /\ alone = TRUE

At(p, here, there) == pc[p] = here /\ pc' = [pc EXCEPT ![p] = there]

----------------------------------------------------------------------------
(* Plausible slips in logger.c, used only to show that properties notice. *)

\* The date is not compared.
SlipAnyDate(o, s) == fd[o] # INVALID_FILE_DESCRIPTOR /\ rows[o] < MaxRows

\* The list is searched for open files only.
SlipOfModule(m) == {o \in Live : module[o] = m /\ fd[o] # INVALID_FILE_DESCRIPTOR}

----------------------------------------------------------------------------
Tick ==
  /\ clock < MaxTime
  /\ clock' = clock + 1
  /\ UNCHANGED <<objVars, osVars, pc, line, file, reg, logged, alone>>

\* log__write, or a node of the asynchronous queue: the line has its time already.
Begin(p, m) ==
  /\ logged < MaxLines
  /\ logged' = logged + 1
  /\ alone' = (alone /\ \A q \in Printers : pc[q] = "idle")
  /\ At(p, "idle", "attach")
  /\ line' = [line EXCEPT ![p] = <<m, clock>>]
  /\ UNCHANGED <<clock, objVars, osVars, file, reg>>

----------------------------------------------------------------------------
(* log__attach, under __log_file_lock. *)

OfModule(m) == {o \in Live : module[o] = m}

\* The year is not compared.
Reusable(o, s) ==
  fd[o] # INVALID_FILE_DESCRIPTOR /\ MonthAndDay(filest[o]) = MonthAndDay(s) /\ rows[o] < MaxRows

\* The descriptors after posix__file_close(f).
Closed(f) == IF f \in Descriptors THEN [open EXCEPT ![f] = None] ELSE open

\* FF_CREATE_ALWAYS: a file of that name is truncated.
CreateFile(o, name) ==
  \E f \in {g \in Descriptors : Closed(fd[o])[g] = None} :
    /\ open' = [Closed(fd[o]) EXCEPT ![f] = name]
    /\ disk' = [disk EXCEPT ![name] = <<>>]
    /\ mem' = [mem EXCEPT ![o] = "live"]
    /\ module' = [module EXCEPT ![o] = name[1]]
    /\ fd' = [fd EXCEPT ![o] = f]
    /\ filest' = [filest EXCEPT ![o] = name[2]]
    /\ rows' = [rows EXCEPT ![o] = 0]

\* The object leaves the list and is freed; a new one never shows.
CreateFails(o) ==
  /\ open' = Closed(fd[o])
  /\ mem' = [mem EXCEPT ![o] = "free"]
  /\ fd' = [fd EXCEPT ![o] = INVALID_FILE_DESCRIPTOR]
  /\ UNCHANGED <<module, filest, rows, disk>>

Attach(p) ==
  LET m  == line[p][1]
      s  == line[p][2]
      os == IF OfModule(m) # {} THEN OfModule(m) ELSE Files \ Live
  IN  /\ \E o \in os :
           \/ /\ o \in Live /\ Reusable(o, s)
              /\ At(p, "attach", "fd")
              /\ file' = [file EXCEPT ![p] = o]
              /\ UNCHANGED <<objVars, osVars>>
           \/ /\ ~(o \in Live /\ Reusable(o, s))
              /\ At(p, "attach", "fd")
              /\ file' = [file EXCEPT ![p] = o]
              /\ CreateFile(o, line[p])
           \/ /\ ~(o \in Live /\ Reusable(o, s))
              /\ At(p, "attach", "idle")
              /\ CreateFails(o)
              /\ UNCHANGED file
      /\ UNCHANGED <<clock, line, reg, logged, alone>>

----------------------------------------------------------------------------
(* The rest of log__printf, without the lock. *)

\* log__fwrite reads file->fd_ ...
ReadFd(p) ==
  /\ At(p, "fd", "write")
  /\ reg' = [reg EXCEPT ![p] = fd[file[p]]]
  /\ UNCHANGED <<clock, objVars, osVars, line, file, logged, alone>>

\* ... and writes to whatever that descriptor is open on now.
WriteLine(p) ==
  /\ reg[p] \in Descriptors /\ open[reg[p]] # None
  /\ At(p, "write", "load")
  /\ disk' = [disk EXCEPT ![open[reg[p]]] = Append(@, line[p])]
  /\ UNCHANGED <<clock, objVars, open, line, file, reg, logged, alone>>

\* An input/output error, or a descriptor that is closed or invalid.
WriteFails(p) ==
  /\ At(p, "write", "close")
  /\ UNCHANGED <<clock, objVars, osVars, line, file, reg, logged, alone>>

\* The device is full: 0 bytes are neither a success nor an error.
WriteNothing(p) ==
  /\ At(p, "write", "idle")
  /\ UNCHANGED <<clock, objVars, osVars, line, file, reg, logged, alone>>

\* line_count_++ is a load and a store.
LoadCount(p) ==
  /\ At(p, "load", "store")
  /\ reg' = [reg EXCEPT ![p] = rows[file[p]]]
  /\ UNCHANGED <<clock, objVars, osVars, line, file, logged, alone>>

StoreCount(p) ==
  /\ At(p, "store", "idle")
  /\ rows' = [rows EXCEPT ![file[p]] = reg[p] + 1]
  /\ UNCHANGED <<clock, mem, module, fd, filest, osVars, line, file, reg, logged, alone>>

\* log__close_file: the descriptor is closed, and then forgotten.
CloseFd(p) ==
  /\ At(p, "close", "forget")
  /\ open' = Closed(fd[file[p]])
  /\ UNCHANGED <<clock, objVars, disk, line, file, reg, logged, alone>>

ForgetFd(p) ==
  /\ At(p, "forget", "idle")
  /\ fd' = [fd EXCEPT ![file[p]] = INVALID_FILE_DESCRIPTOR]
  /\ UNCHANGED <<clock, mem, module, filest, rows, osVars, line, file, reg, logged, alone>>

----------------------------------------------------------------------------
Step(p) ==
  \/ \E m \in Modules : Begin(p, m)
  \/ Attach(p) \/ ReadFd(p)
  \/ WriteLine(p) \/ WriteFails(p) \/ WriteNothing(p)
  \/ LoadCount(p) \/ StoreCount(p)
  \/ CloseFd(p) \/ ForgetFd(p)

Next == Tick \/ \E p \in Printers : Step(p)

Spec == Init /\ [][Next]_vars

----------------------------------------------------------------------------
(* Properties. *)

(* A module has one file object, however often its file was switched, could
   not be written or could not be created, and however many threads print. *)
OneFilePerModule ==
  \A o1, o2 \in Live : module[o1] = module[o2] => o1 = o2

(* Until two threads print at once, no descriptor leaks and none is shared: the
   open ones are those of the live objects, each on the file its object was
   switched to, also when a create or a write failed; and a line goes to a file
   of its module and of its day, whatever was switched, closed or freed before.
   Two threads at once may close a descriptor that the other has taken for its
   own file since. *)
LinesInTheirFile ==
  /\ alone /\ (\A p \in Printers : pc[p] # "forget") =>
       /\ \A o \in Live : fd[o] # INVALID_FILE_DESCRIPTOR => open[fd[o]] = <<module[o], filest[o]>>
       /\ \A f \in Descriptors : open[f] # None => \E o \in Live : fd[o] = f
       /\ \A o1, o2 \in Live : fd[o1] = fd[o2] /\ o1 # o2 => fd[o1] = INVALID_FILE_DESCRIPTOR
  /\ alone => \A n \in Names : \A k \in 1..Len(disk[n]) :
       disk[n][k][1] = n[1] /\ Day(disk[n][k][2]) = Day(n[2])
=============================================================================
