------------------------------ MODULE OnceFlag ------------------------------
(* The once-only initialisation of crc32 (com/hash.c) and of posix__random
   (com/posix_ifos.c): a counter that every caller increments; the caller that
   makes it 1 initialises, every other caller decrements it again.  Nothing
   makes a caller wait for the initialiser, so a call that overlaps it may read
   a row of the table that has not been stored yet. *)
EXTENDS Integers

CONSTANTS Threads,
          Rows       \* rows of crc32_table; 256 in the code

VARIABLES
  inited,   \* is_crc32_inited, rand_begin
  stored,   \* rows of the table that are stored
  pc,       \* per thread: its place in a call
  late,     \* history: the threads whose call began after an initialiser had returned
  done      \* history: an initialiser has returned

vars == <<inited, stored, pc, late, done>>

In(place) == {t \in Threads : pc[t] = place}

At(t, here, there) == pc[t] = here /\ pc' = [pc EXCEPT ![t] = there]

TypeOK ==
  /\ inited \in Nat
  /\ stored \in 0..Rows
  /\ pc \in [Threads -> {"idle", "make", "retract", "use"}]
  /\ late \in SUBSET Threads
  /\ done \in BOOLEAN

Init ==
  /\ inited = 0
  /\ stored = 0
  /\ pc = [t \in Threads |-> "idle"]
  /\ late = {}
  /\ done = FALSE

\* The initialiser takes its own count back as well.
SlipMakeRow(t) ==
  /\ pc[t] = "make"
  /\ stored' = IF stored < Rows THEN stored + 1 ELSE stored
  /\ IF stored = Rows - 1
     THEN At(t, "make", "use") /\ done' = TRUE /\ inited' = inited - 1
     ELSE UNCHANGED <<pc, done, inited>>
  /\ UNCHANGED late

(* posix__atomic_inc returns what it has stored. *)
Increment(t) ==
  /\ inited' = inited + 1
  /\ At(t, "idle", IF inited' = 1 THEN "make" ELSE "retract")
  /\ late' = IF done THEN late \cup {t} ELSE late \ {t}
  /\ UNCHANGED <<stored, done>>

MakeRow(t) ==
  /\ pc[t] = "make"
  /\ stored' = stored + 1
  /\ IF stored' = Rows
     THEN At(t, "make", "use") /\ done' = TRUE
     ELSE UNCHANGED <<pc, done>>
  /\ UNCHANGED <<inited, late>>

Decrement(t) ==
  /\ At(t, "retract", "use")
  /\ inited' = inited - 1
  /\ UNCHANGED <<stored, late, done>>

Use(t) ==
  /\ At(t, "use", "idle")
  /\ UNCHANGED <<inited, stored, late, done>>

Next == \E t \in Threads : Increment(t) \/ MakeRow(t) \/ Decrement(t) \/ Use(t)

Spec == Init /\ [][Next]_vars

------------------------------------------------------------------------------
(* However the increments and decrements of the callers interleave, the counter
   never comes back to 0, so one call initialises; and a call that begins once
   the initialiser has returned never reads a row that was not stored. *)
InitialisedOnce ==
  /\ \A t, u \in In("make") : t = u
  /\ done => In("make") = {}
  /\ \A t \in late : stored = Rows
=============================================================================
