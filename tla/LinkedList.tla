----------------------------- MODULE LinkedList -----------------------------
(* The circular doubly linked lists of icom/clist.h, as the memory they are:
   every node, a head or an entry, holds two pointers.  An operation is a
   sequence of stores; an operator here takes the links before them and returns
   the links after them, and where the code reads a pointer it may just have
   written, the stores are split by LET.

   list is what the callers of the header believe: the sequence of entries of
   each head.  A head that was spliced away without the _init variant still
   points at entries that are another head's; it is not usable until
   INIT_LIST_HEAD. *)
EXTENDS Sequences, FiniteSets, Integers, SequencesExt

CONSTANTS Heads, Entries

VARIABLES
  link,     \* [node |-> [next, prev]]
  list,     \* [head |-> the entries it should lead to, in order]
  usable,   \* the heads that are initialised
  walk      \* the loop list_for_each_safe that is going on, forwards or backwards

vars == <<link, list, usable, walk>>

NoWalk == [to |-> "nowhere"]

Nodes == Heads \cup Entries

InSome == UNION {ToSet(list[h]) : h \in usable}

\* A list holds an entry once.
Without(s, e) == RemoveAt(s, CHOOSE i \in DOMAIN s : s[i] = e)

------------------------------------------------------------------------------
(* Stores *)

InitListHead(m, n) == [m EXCEPT ![n] = [next |-> n, prev |-> n]]

AddBetween(m, new, before, after) ==
  [m EXCEPT ![after].prev = new,
            ![new] = [next |-> after, prev |-> before],
            ![before].next = new]

AddFirst(m, new, head) == AddBetween(m, new, head, m[head].next)

AddLast(m, new, head) == AddBetween(m, new, m[head].prev, head)

Unlink(m, entry) ==
  [m EXCEPT ![m[entry].next].prev = m[entry].prev,
            ![m[entry].prev].next = m[entry].next]

(* The last two stores read what the first two wrote, when old was empty. *)
Replace(m, old, new) ==
  LET m1 == [m EXCEPT ![new].next = m[old].next, ![m[old].next].prev = new]
      m2 == [m1 EXCEPT ![new].prev = m1[old].prev]
  IN  [m2 EXCEPT ![m2[new].prev].next = new]

IsEmpty(m, head) == m[head].next = head

IsEmptyCareful(m, head) == m[head] = [next |-> head, prev |-> head]

IsSingular(m, head) == ~IsEmpty(m, head) /\ m[head].next = m[head].prev

IsLast(m, entry, head) == m[entry].next = head

RotateLeft(m, head) ==
  IF IsEmpty(m, head) THEN m
  ELSE AddLast(Unlink(m, m[head].next), m[head].next, head)

CutBetween(m, new, head, entry) ==
  LET rest == m[entry].next
      m1   == [m EXCEPT ![new].next = m[head].next, ![m[head].next].prev = new]
  IN  [m1 EXCEPT ![new].prev = entry, ![entry].next = new,
                 ![head].next = rest, ![rest].prev = head]

CutPosition(m, new, head, entry) ==
  IF \/ IsEmpty(m, head)
     \/ IsSingular(m, head) /\ entry \notin {head, m[head].next}
  THEN m
  ELSE IF entry = head THEN InitListHead(m, new)
  ELSE CutBetween(m, new, head, entry)

SpliceBetween(m, from, before, after) ==
  [m EXCEPT ![m[from].next].prev = before,
            ![before].next = m[from].next,
            ![m[from].prev].next = after,
            ![after].prev = m[from].prev]

SlipSpliceTail(m, from, head) ==
  IF IsEmpty(m, from) THEN m ELSE SpliceBetween(m, from, m[head].next, head)

Splice(m, from, head) ==
  IF IsEmpty(m, from) THEN m ELSE SpliceBetween(m, from, head, m[head].next)

SpliceTail(m, from, head) ==
  IF IsEmpty(m, from) THEN m ELSE SpliceBetween(m, from, m[head].prev, head)

------------------------------------------------------------------------------
(* Calls *)

Init ==
  /\ link = [n \in Nodes |-> [next |-> n, prev |-> n]]
  /\ list = [h \in Heads |-> <<>>]
  /\ usable = Heads
  /\ walk = NoWalk

ListInit(h) ==
  /\ h \notin usable
  /\ link' = InitListHead(link, h)
  /\ list' = [list EXCEPT ![h] = <<>>]
  /\ usable' = usable \cup {h}

ListAdd(e, h) ==
  /\ e \notin InSome
  /\ h \in usable
  /\ \/ link' = AddFirst(link, e, h) /\ list' = [list EXCEPT ![h] = <<e>> \o @]
     \/ link' = AddLast(link, e, h) /\ list' = [list EXCEPT ![h] = @ \o <<e>>]
  /\ UNCHANGED usable

ListDel(e, h) ==
  /\ h \in usable /\ e \in ToSet(list[h])
  /\ link' \in {Unlink(link, e), InitListHead(Unlink(link, e), e)}
  /\ list' = [list EXCEPT ![h] = Without(@, e)]
  /\ UNCHANGED usable

ListMove(e, from, h) ==
  /\ {from, h} \subseteq usable /\ e \in ToSet(list[from])
  /\ LET rest == [list EXCEPT ![from] = Without(@, e)] IN
     \/ /\ link' = AddFirst(Unlink(link, e), e, h)
        /\ list' = [rest EXCEPT ![h] = <<e>> \o @]
     \/ /\ link' = AddLast(Unlink(link, e), e, h)
        /\ list' = [rest EXCEPT ![h] = @ \o <<e>>]
  /\ UNCHANGED usable

ListReplace(e, new, h) ==
  /\ new \notin InSome
  /\ h \in usable /\ e \in ToSet(list[h])
  /\ LET after == Replace(link, e, new)
     IN  link' \in {after, InitListHead(after, e)}
  /\ list' = [list EXCEPT ![h] = [i \in DOMAIN @ |-> IF @[i] = e THEN new ELSE @[i]]]
  /\ UNCHANGED usable

(* A head may be replaced as well: the new head takes over the whole list. *)
HeadReplace(old, new) ==
  /\ old \in usable /\ new # old
  /\ new \in usable => list[new] = <<>>
  /\ LET after == Replace(link, old, new) IN
     \/ link' = after /\ usable' = (usable \ {old}) \cup {new}
     \/ link' = InitListHead(after, old) /\ usable' = usable \cup {new}
  /\ list' = [list EXCEPT ![new] = list[old], ![old] = <<>>]

ListRotateLeft(h) ==
  /\ h \in usable
  /\ link' = RotateLeft(link, h)
  /\ list' = [list EXCEPT ![h] = IF @ = <<>> THEN @ ELSE Tail(@) \o <<Head(@)>>]
  /\ UNCHANGED usable

(* entry is one of head's, or head itself; a cut of an empty list leaves new as
   it was. *)
ListCutPosition(new, h, entry) ==
  /\ h \in usable /\ new # h
  /\ new \in usable => list[new] = <<>>
  /\ entry \in ToSet(list[h]) \cup {h}
  /\ link' = CutPosition(link, new, h, entry)
  /\ LET at == IF entry = h THEN 0 ELSE CHOOSE i \in DOMAIN list[h] : list[h][i] = entry IN
     list' = [list EXCEPT ![new] = SubSeq(list[h], 1, at),
                          ![h] = SubSeq(@, at + 1, Len(@))]
  /\ usable' = IF list[h] = <<>> THEN usable ELSE usable \cup {new}

ListSplice(from, h) ==
  /\ {from, h} \subseteq usable /\ from # h
  /\ \E tail \in BOOLEAN, init \in BOOLEAN :
       LET after == IF tail THEN SpliceTail(link, from, h) ELSE Splice(link, from, h)
           moved == list[from] # <<>>
       IN  /\ link' = IF init /\ moved THEN InitListHead(after, from) ELSE after
           /\ usable' = IF init \/ ~moved THEN usable ELSE usable \ {from}
           /\ list' = [list EXCEPT ![from] = <<>>,
                         ![h] = IF tail THEN @ \o list[from] ELSE list[from] \o @]

Operation ==
  \/ \E h \in Heads : ListInit(h) \/ ListRotateLeft(h)
  \/ \E h \in Heads, e \in Entries : ListAdd(e, h) \/ ListDel(e, h)
  \/ \E h, from \in Heads, e \in Entries : ListMove(e, from, h)
  \/ \E h \in Heads, e, new \in Entries : ListReplace(e, new, h)
  \/ \E old, new \in Heads : HeadReplace(old, new) \/ ListSplice(old, new)
  \/ \E new, h \in Heads, entry \in Nodes : ListCutPosition(new, h, entry)

(* list_for_each_safe and list_for_each_prev_safe: n is read before the body
   runs, and the body may take pos out of the list, or into another. *)
ForEachSafe(h, to) ==
  /\ h \in usable
  /\ walk' = [to |-> to, head |-> h, pos |-> link[h][to], n |-> link[link[h][to]][to],
              seen |-> <<>>, all |-> IF to = "next" THEN list[h] ELSE Reverse(list[h])]
  /\ UNCHANGED <<link, list, usable>>

LoopBody ==
  /\ walk.pos \in Entries
  /\ \/ ListDel(walk.pos, walk.head)
     \/ \E h \in Heads \ {walk.head} : ListMove(walk.pos, walk.head, h)
  /\ UNCHANGED walk

Advance ==
  /\ walk' = IF walk.pos = walk.head THEN NoWalk
             ELSE [walk EXCEPT !.pos = walk.n, !.n = link[walk.n][walk.to],
                               !.seen = Append(@, walk.pos)]
  /\ UNCHANGED <<link, list, usable>>

Next ==
  \/ walk = NoWalk /\ Operation /\ UNCHANGED walk
  \/ walk = NoWalk /\ \E h \in Heads, to \in {"next", "prev"} : ForEachSafe(h, to)
  \/ walk # NoWalk /\ (LoopBody \/ Advance)

Spec == Init /\ [][Next]_vars

------------------------------------------------------------------------------
Ring(h) == <<h>> \o list[h] \o <<h>>

RingsClosed ==
  \A h \in usable :
    /\ \A i \in 1..Len(list[h]) + 1 :
         /\ link[Ring(h)[i]].next = Ring(h)[i + 1]
         /\ link[Ring(h)[i + 1]].prev = Ring(h)[i]
    /\ IsEmpty(link, h) = (list[h] = <<>>)
    /\ IsEmptyCareful(link, h) = (list[h] = <<>>)
    /\ IsSingular(link, h) = (Len(list[h]) = 1)
    /\ \A e \in ToSet(list[h]) : IsLast(link, e, h) = (e = Last(list[h]))

(* The entries visited, the one the loop is at and those that follow are what
   the list held when the loop began. *)
WalksVisitAll ==
  walk # NoWalk =>
    /\ IsPrefix(walk.seen, walk.all)
    /\ walk.pos = Append(walk.all, walk.head)[Len(walk.seen) + 1]

(* From a usable head the next pointers lead through its entries in order and
   back to it, and the prev pointers the same way back, so that the header's
   tests, which look at one or two pointers, answer right; and a loop that
   removes the entries it is at visits every entry once, in order. *)
ListsAreRings == RingsClosed /\ WalksVisitAll
=============================================================================
