---------------------------- MODULE AsyncLogger ----------------------------
(***************************************************************************)
(* The asynchronous half of com/logger.c: log__save takes a slot of a      *)
(* circular pool, fills it in and queues it; one thread (log__asnyc_proc)  *)
(* and any caller of log__flush take slots off the queue and print them.   *)
(*                                                                         *)
(* The counter of pending saves and the slot index are atomics, the queue  *)
(* has a mutex, the slots themselves have neither: the time a producer     *)
(* spends filling a slot, and a printer reading it, are states.            *)
(*                                                                         *)
(* The field inuse is memset to 0 and only ever stored 0, so the test      *)
(* "1 == inuse" of log__save never succeeds and is not a branch here: a    *)
(* producer may claim a slot that is still in use (covered).  From then on *)
(* two threads may work on one slot, and a slot may be added to the list   *)
(* it is linked into; the list is therefore kept as its pointers.          *)
(* The consumer's alert is a synchronous waitable handle (WaitableHandle). *)
(***************************************************************************)
EXTENDS Integers, Sequences, FiniteSets, SequencesExt

CONSTANTS Producers, Flushers,
          Pool,        \* MAXIMUM_LOGSAVE_COUNT, 500 in the code
          MaxSaves,    \* bound on the calls of log__save per producer
          None

ASSUME ActorsAssumption == IsFiniteSet(Producers) /\ IsFiniteSet(Flushers)
ASSUME PoolAssumption == Pool \in Nat \ {0} /\ MaxSaves \in Nat

Slots == 0..(Pool - 1)
ListHead == Pool                      \* items_, a list head beside the slots
Nodes == Slots \cup {ListHead}
Consumer == "log__asnyc_proc"
Printers == Flushers \cup {Consumer}
Saves == Producers \X (1..MaxSaves)   \* the k-th save of a producer

VARIABLES
  once,      \* __inited__: "todo", "running", "success" or "failed"
  pending,   \* pendding_
  index,     \* misc_index
  link,      \* next and prev of the list's head and of every slot's link_
  text,      \* what a slot holds: a save, or None (nothing, or a mixture)
  alert,     \* the alert's pass_ flag
  pc, slot,  \* per producer: its place in log__save, and its slot
  saves,     \* per producer: saves begun
  ppc, node, \* per printer: its place in the drain loop, and its node
  printed,   \* history: what was printed and by whom, in order
  accepted,  \* history: the saves that were queued
  items,     \* history: the slots that were added and not yet popped, in order
  covered    \* history: whether a slot was claimed while it was still in use

queueVars == <<once, pending, index, link, items, text, alert, covered>>
saveVars == <<pc, slot, saves>>
printVars == <<ppc, node, printed>>
vars == <<queueVars, saveVars, printVars, accepted>>

TypeOK ==
  /\ once \in {"todo", "running", "success", "failed"}
  /\ pending \in Int
  /\ index \in Nat
  /\ link \in [Nodes -> [next : Nodes \cup {None}, prev : Nodes \cup {None}]]
  /\ items \in Seq(Slots)
  /\ covered \in BOOLEAN
  /\ text \in [Slots -> Saves \cup {None}]
  /\ alert \in 0..1
  /\ pc \in [Producers -> {"idle", "init", "count", "uncount", "claim", "write", "add", "signal"}]
  /\ slot \in [Producers -> Slots]
  /\ saves \in [Producers -> 0..MaxSaves]
  /\ ppc \in [Printers -> {"off", "idle", "drain", "print"}]
  /\ node \in [Printers -> Slots]
  /\ printed \in Seq([save : Saves \cup {None}, by : Printers])
  /\ accepted \subseteq Saves

Init ==
  /\ once = "todo"
  /\ pending = 0
  /\ index = 0
  /\ link = [n \in Nodes |-> [next |-> None, prev |-> None]]
  /\ items = <<>>
  /\ covered = FALSE
  /\ text = [i \in Slots |-> None]
  /\ alert = 0
  /\ pc = [p \in Producers |-> "idle"]
  /\ slot = [p \in Producers |-> 0]
  /\ saves = [p \in Producers |-> 0]
  /\ ppc = [d \in Printers |-> IF d = Consumer THEN "off" ELSE "idle"]
  /\ node = [d \in Printers |-> 0]
  /\ printed = <<>>
  /\ accepted = {}

At(p, here, there) == pc[p] = here /\ pc' = [pc EXCEPT ![p] = there]
PrinterAt(d, here, there) == ppc[d] = here /\ ppc' = [ppc EXCEPT ![d] = there]

\* A slip: the node goes to the head of the list (list_add).
SlipAddLast(m, new) ==
  LET first == m[ListHead].next
  IN  [m EXCEPT ![first].prev = new,
                ![new] = [next |-> first, prev |-> ListHead],
                ![ListHead].next = new]

(* list_add_tail and list_del_init, store by store, whatever the pointers. *)
AddLast(m, new) ==
  LET last == m[ListHead].prev
  IN  [m EXCEPT ![ListHead].prev = new,
                ![new] = [next |-> ListHead, prev |-> last],
                ![last].next = new]

\* A slip: the head is initialised in the node's place.
SlipDelInit(m, n) ==
  [m EXCEPT ![m[n].next].prev = m[n].prev,
            ![ListHead] = [next |-> ListHead, prev |-> ListHead]]

DelInit(m, n) ==
  [m EXCEPT ![m[n].next].prev = m[n].prev,
            ![m[n].prev].next = m[n].next,
            ![n] = [next |-> n, prev |-> n]]

\* Who is at work on a slot, and where it is queued.
Writing(i) == {p \in Producers : pc[p] \in {"write", "add"} /\ slot[p] = i}
Printing(i) == {d \in Printers : ppc[d] = "print" /\ node[d] = i}
Queued(i) == {k \in 1..Len(items) : items[k] = i}
InUse(i) == Writing(i) \cup Printing(i) # {} \/ Queued(i) # {}

(* What a thread leaves in a slot, or reads of it, may be a mixture of saves
   once two threads work on one slot. *)
Contents(save) == IF covered THEN {save, None} ELSE {save}

\* __log__init after a successful log__async_init: pool, queue and thread.
AsyncInit ==
  /\ pending' = 0
  /\ index' = 0
  /\ link' = [n \in Nodes |-> IF n = ListHead THEN [next |-> n, prev |-> n]
                              ELSE [next |-> None, prev |-> None]]
  /\ items' = <<>>
  /\ text' = [i \in Slots |-> None]
  /\ ppc' = [ppc EXCEPT ![Consumer] = "idle"]

----------------------------------------------------------------------------
(* Plausible slips in logger.c, used only to show that properties notice. *)

\* A rejected save leaves its count behind.
SlipUncount(p) ==
  /\ At(p, "uncount", "idle")
  /\ UNCHANGED <<queueVars, slot, saves, printVars, accepted>>

\* The consumer prints one line per alert, and waits without a timeout.
SlipWaitReturns ==
  /\ alert = 1
  /\ alert' = 0
  /\ items # <<>>
  /\ items' = Tail(items)
  /\ link' = DelInit(link, Head(items))
  /\ PrinterAt(Consumer, "idle", "idle")
  /\ printed' = Append(printed, [save |-> text[Head(items)], by |-> Consumer])
  /\ pending' = pending - 1
  /\ UNCHANGED <<once, index, text, saveVars, node, accepted, covered>>

----------------------------------------------------------------------------
(* log__save, from the once-only initialisation to the signal. *)

(* The first caller initialises; one that comes while that is running, or
   after it failed, returns and its log is dropped. *)
BeginSave(p) ==
  /\ pc[p] = "idle"
  /\ saves[p] < MaxSaves
  /\ saves' = [saves EXCEPT ![p] = @ + 1]
  /\ pc' = [pc EXCEPT ![p] = CASE once = "todo" -> "init"
                              [] once = "success" -> "count"
                              [] OTHER -> "idle"]
  /\ once' = IF once = "todo" THEN "running" ELSE once
  /\ UNCHANGED <<pending, index, link, items, text, alert, slot, printVars, accepted, covered>>

InitDone(p) ==
  /\ At(p, "init", "count")
  /\ AsyncInit
  /\ once' = "success"
  /\ UNCHANGED <<alert, slot, saves, node, printed, accepted, covered>>

(* malloc or pthread_create fails: nobody tries again. *)
InitFails(p) ==
  /\ At(p, "init", "idle")
  /\ once' = "failed"
  /\ UNCHANGED <<pending, index, link, items, text, alert, slot, saves, printVars, accepted, covered>>

Count(p) ==
  /\ pending' = pending + 1
  /\ At(p, "count", IF pending + 1 >= Pool THEN "uncount" ELSE "claim")
  /\ UNCHANGED <<once, index, link, items, text, alert, slot, saves, printVars, accepted, covered>>

Uncount(p) ==
  /\ At(p, "uncount", "idle")
  /\ pending' = pending - 1
  /\ UNCHANGED <<once, index, link, items, text, alert, slot, saves, printVars, accepted, covered>>

Claim(p) ==
  /\ At(p, "claim", "write")
  /\ index' = index + 1
  /\ slot' = [slot EXCEPT ![p] = (index + 1) % Pool]
  /\ covered' = (covered \/ InUse((index + 1) % Pool))
  /\ UNCHANGED <<once, pending, link, items, text, alert, saves, printVars, accepted>>

(* The slot's fields and its formatted text, complete at the end of the step. *)
Write(p) ==
  /\ At(p, "write", "add")
  /\ \E save \in Contents(<<p, saves[p]>>) : text' = [text EXCEPT ![slot[p]] = save]
  /\ UNCHANGED <<once, pending, index, link, items, alert, slot, saves, printVars, accepted, covered>>

Add(p) ==
  /\ At(p, "add", "signal")
  /\ link' = AddLast(link, slot[p])
  /\ items' = Append(items, slot[p])
  /\ accepted' = accepted \cup {<<p, saves[p]>>}
  /\ UNCHANGED <<once, pending, index, text, alert, slot, saves, printVars, covered>>

Signal(p) ==
  /\ At(p, "signal", "idle")
  /\ alert' = 1
  /\ UNCHANGED <<once, pending, index, link, items, text, slot, saves, printVars, accepted, covered>>

----------------------------------------------------------------------------
(* log__asnyc_proc and log__flush: drain the queue, then wait or return. *)

(* Signalled or after ten seconds: both are >= 0, and both reset the alert. *)
WaitReturns ==
  /\ PrinterAt(Consumer, "idle", "drain")
  /\ alert' = 0
  /\ UNCHANGED <<once, pending, index, link, items, text, saveVars, node, printed, accepted, covered>>

(* log__flush, after an initialisation: it does not initialise by itself, and
   on the zeroed list head of before it fails assert(node). *)
Flush(f) ==
  /\ once = "success"
  /\ PrinterAt(f, "idle", "drain")
  /\ UNCHANGED <<queueVars, saveVars, node, printed, accepted>>

(* The first node of the list, if there is one; its count is given back at
   once. *)
Pop(d) ==
  LET first == link[ListHead].next
  IN  \/ /\ first = ListHead
         /\ PrinterAt(d, "drain", "idle")
         /\ UNCHANGED <<pending, link, items, node>>
      \/ /\ first # ListHead
         /\ PrinterAt(d, "drain", "print")
         /\ pending' = pending - 1
         /\ link' = DelInit(link, first)
         /\ items' = SubSeq(items, 2, Len(items))
         /\ node' = [node EXCEPT ![d] = first]

PopStep(d) ==
  /\ Pop(d)
  /\ UNCHANGED <<once, index, text, alert, saveVars, printed, accepted, covered>>

PrintNode(d) ==
  /\ PrinterAt(d, "print", "drain")
  /\ \E save \in Contents(text[node[d]]) : printed' = Append(printed, [save |-> save, by |-> d])
  /\ UNCHANGED <<queueVars, saveVars, node, accepted>>

----------------------------------------------------------------------------
InSave(p) ==
  \/ InitDone(p) \/ InitFails(p) \/ Count(p) \/ Uncount(p)
  \/ Claim(p) \/ Write(p) \/ Add(p) \/ Signal(p)

Next ==
  \/ \E p \in Producers : BeginSave(p) \/ InSave(p)
  \/ WaitReturns
  \/ \E f \in Flushers : Flush(f)
  \/ \E d \in Printers : PopStep(d) \/ PrintNode(d)

Spec == Init /\ [][Next]_vars

(* Fairness: a save and a print that have begun go on, and the consumer's wait
   ends, at the latest by its timeout.  Nobody has to save or to flush. *)
Fairness ==
  /\ \A p \in Producers : WF_vars(InSave(p))
  /\ WF_vars(WaitReturns)
  /\ \A d \in Printers : WF_vars(PopStep(d)) /\ WF_vars(PrintNode(d))

FairSpec == Spec /\ Fairness

----------------------------------------------------------------------------
(* Properties. *)

(* A slot is written by one producer, or queued once, or printed by one
   printer: none covers a slot that is still in use. *)
SlotExclusive ==
  \A i \in Slots :
    Cardinality(Writing(i)) + Cardinality(Queued(i)) + Cardinality(Printing(i)) <= 1

(* The list leads through the queued slots in order, forwards and backwards. *)
Place(k) == IF k \in 1..Len(items) THEN items[k] ELSE ListHead

Ring ==
  \A k \in 0..Len(items) :
    link[Place(k)].next = Place(k + 1) /\ link[Place(k + 1)].prev = Place(k)

(* Until a slot is covered the list is whole, and the pending counter is the
   queue plus the saves on their way in or out of it: it neither leaks nor
   underflows, and it bounds the backlog, however often the index comes round. *)
Underway == {p \in Producers : pc[p] \in {"claim", "write", "add"}}
Rejected == {p \in Producers : pc[p] = "uncount"}

PendingExact ==
  ~covered =>
    /\ once = "success" => Ring
    /\ pending = Len(items) + Cardinality(Underway) + Cardinality(Rejected)
    /\ Len(items) + Cardinality(Underway) < Pool

\* What has been printed.
Done == {line.save : line \in ToSet(printed)}

(* Until a slot is covered, what was queued is printed at most once and is
   never lost: it is printed, in the queue, or in a printer's hands. *)
NoLossNoDuplicate ==
  LET done    == Done
      waiting == {text[items[k]] : k \in 1..Len(items)}
      inHand  == {text[node[d]] : d \in {e \in Printers : ppc[e] = "print"}}
  IN  ~covered =>
        /\ Len(printed) = Cardinality(done)
        /\ accepted = done \cup waiting \cup inHand
        /\ done \cap (waiting \cup inHand) = {}

(* Until a slot is covered, the lines of one producer that one printer prints
   come out in the order they were saved, whoever else saves and prints. *)
PrintedInOrder ==
  ~covered =>
    \A i, j \in 1..Len(printed) :
      LET a == printed[i]
          b == printed[j]
      IN  i < j /\ a.by = b.by /\ a.save[1] = b.save[1] => a.save[2] < b.save[2]

(* Every save that was queued is printed in the end, whether or not its
   signal reaches the consumer, unless a slot is covered. *)
AcceptedIsPrinted ==
  \A s \in Saves : (s \in accepted) ~> (s \in Done \/ covered)
=============================================================================
