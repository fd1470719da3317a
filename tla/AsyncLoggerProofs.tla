------------------------- MODULE AsyncLoggerProofs -------------------------
(* The asynchronous logger, for any number of producers, of threads that flush,
   of slots and of saves.  Every variable keeps to its type, whatever the
   pointers of the list have become.  Until a producer claims a slot that is
   still in use the list leads through the queued slots, the counter of pending
   saves is exact, although it is taken before a slot is claimed and given back
   before a node is printed, no line is lost or printed twice, and one printer
   keeps the order of one producer, however often the index comes round. *)
EXTENDS AsyncLogger, FiniteSetTheorems, TLAPS

SavePlaces == {"idle", "init", "count", "uncount", "claim", "write", "add", "signal"}
PrintPlaces == {"off", "idle", "drain", "print"}
Pointers == [next : Nodes \cup {None}, prev : Nodes \cup {None}]

(* Before an initialisation has succeeded nobody is past it, and one producer
   at most is in it: so its resetting of the counter forgets nothing. *)
BeforeSuccess ==
  /\ \A p \in Producers : pc[p] = "init" =>
       once = "running" /\ \A q \in Producers : pc[q] = "init" => q = p
  /\ once # "success" =>
       /\ items = <<>> /\ pending = 0 /\ index = 0 /\ printed = <<>> /\ accepted = {}
       /\ ppc[Consumer] = "off" /\ \A d \in Printers : ppc[d] \in {"off", "idle"}
       /\ \A p \in Producers : pc[p] \in {"idle", "init"}

(* Once the list's head is initialised, no pointer that is followed is NULL. *)
Linked == {n \in Nodes : link[n] \in [next : Nodes, prev : Nodes]}

Pointing ==
  /\ once = "success" => ListHead \in Linked
  /\ \A n \in Linked : link[n].next \in Linked /\ link[n].prev \in Linked

Base ==
  /\ TypeOK
  /\ BeforeSuccess
  /\ Pointing
  /\ \A p \in Producers : pc[p] # "idle" => saves[p] # 0

-----------------------------------------------------------------------------
(* The list. *)

LEMMA HeadIsNoSlot ==
  /\ ListHead \in Nodes /\ ListHead \notin Slots /\ Slots \subseteq Nodes
  /\ \A n \in Nodes : n \in Slots \/ n = ListHead
BY PoolAssumption DEF Nodes, Slots, ListHead

(* One store of a next pointer, that of NULL included: it changes nothing. *)
Stored(m, x, y) == [m EXCEPT ![x].next = y]

LEMMA NextStored ==
  ASSUME NEW m \in [Nodes -> Pointers], NEW x, NEW y \in Nodes \cup {None}
  PROVE  /\ Stored(m, x, y) \in [Nodes -> Pointers]
         /\ \A n \in Nodes : /\ Stored(m, x, y)[n].next = IF n = x THEN y ELSE m[n].next
                             /\ Stored(m, x, y)[n].prev = m[n].prev
<1> DEFINE c == [m EXCEPT ![x].next = y]
<1>1. ASSUME NEW n \in Nodes
      PROVE  /\ m[n] \in Pointers /\ c[n] \in Pointers
             /\ c[n].next = IF n = x THEN y ELSE m[n].next
             /\ c[n].prev = m[n].prev
  <2>1. m[n] \in Pointers
    OBVIOUS
  <2>2. CASE n = x
    <3>1. c[n] = [m[n] EXCEPT !.next = y]
      BY <2>2
    <3> HIDE DEF c
    <3> QED
      BY <2>1, <2>2, <3>1 DEF Pointers
  <2>3. CASE n # x
    <3>1. c[n] = m[n]
      BY <2>3
    <3> QED
      BY <2>1, <2>3, <3>1
  <2> QED
    BY <2>2, <2>3
<1>2. c = [n \in Nodes |-> c[n]]
  OBVIOUS
<1> HIDE DEF c
<1>3. c \in [Nodes -> Pointers]
  BY <1>1, <1>2
<1> QED
  BY <1>1, <1>3 DEF c, Stored

LEMMA AddLastIs ==
  ASSUME NEW m \in [Nodes -> Pointers], NEW new \in Slots
  PROVE  /\ AddLast(m, new) \in [Nodes -> Pointers]
         /\ \A n \in Nodes :
              /\ AddLast(m, new)[n].next = IF n = m[ListHead].prev THEN new
                                           ELSE IF n = new THEN ListHead ELSE m[n].next
              /\ AddLast(m, new)[n].prev = IF n = new THEN m[ListHead].prev
                                           ELSE IF n = ListHead THEN new ELSE m[n].prev
<1> DEFINE last == m[ListHead].prev
           a == [m EXCEPT ![ListHead].prev = new]
           b == [a EXCEPT ![new] = [next |-> ListHead, prev |-> last]]
           c == Stored(b, last, new)
<1>1. AddLast(m, new) = c
  BY DEF AddLast, Stored
<1>2. a \in [Nodes -> Pointers]
      /\ \A n \in Nodes : /\ a[n].next = m[n].next
                          /\ a[n].prev = IF n = ListHead THEN new ELSE m[n].prev
  BY HeadIsNoSlot DEF Pointers
<1> HIDE DEF a
<1>3. last \in Nodes \cup {None}
  BY HeadIsNoSlot DEF Pointers
<1> HIDE DEF last
<1>4. b \in [Nodes -> Pointers]
      /\ \A n \in Nodes : /\ b[n].next = IF n = new THEN ListHead ELSE m[n].next
                          /\ b[n].prev = IF n = new THEN last
                                         ELSE IF n = ListHead THEN new ELSE m[n].prev
  <2> DEFINE both == [next |-> ListHead, prev |-> last]
  <2>1. both \in Pointers /\ both.next = ListHead /\ both.prev = last
    BY <1>3, HeadIsNoSlot DEF Pointers
  <2> HIDE DEF both
  <2>2. b \in [Nodes -> Pointers] /\ \A n \in Nodes : b[n] = IF n = new THEN both ELSE a[n]
    BY <1>2, <2>1 DEF both
  <2> QED
    BY <1>2, <2>1, <2>2
<1> HIDE DEF b
<1>5. c \in [Nodes -> Pointers]
      /\ \A n \in Nodes : /\ c[n].next = IF n = last THEN new ELSE b[n].next
                          /\ c[n].prev = b[n].prev
  BY <1>3, <1>4, HeadIsNoSlot, NextStored
<1> QED
  BY <1>1, <1>4, <1>5 DEF last

LEMMA DelInitIs ==
  ASSUME NEW m \in [Nodes -> Pointers], NEW first \in Nodes
  PROVE  /\ DelInit(m, first) \in [Nodes -> Pointers]
         /\ \A n \in Nodes :
              /\ DelInit(m, first)[n].next = IF n = first THEN first
                                             ELSE IF n = m[first].prev THEN m[first].next
                                             ELSE m[n].next
              /\ DelInit(m, first)[n].prev = IF n = first THEN first
                                             ELSE IF n = m[first].next THEN m[first].prev
                                             ELSE m[n].prev
<1> DEFINE x == m[first].next
           y == m[first].prev
           a == [m EXCEPT ![x].prev = y]
           b == Stored(a, y, x)
           c == [b EXCEPT ![first] = [next |-> first, prev |-> first]]
<1>1. DelInit(m, first) = c
  BY DEF DelInit, Stored
<1>2. x \in Nodes \cup {None} /\ y \in Nodes \cup {None}
  BY DEF Pointers
<1> HIDE DEF x, y
<1>3. a \in [Nodes -> Pointers]
      /\ \A n \in Nodes : /\ a[n].next = m[n].next
                          /\ a[n].prev = IF n = x THEN y ELSE m[n].prev
  BY <1>2 DEF Pointers
<1> HIDE DEF a
<1>4. b \in [Nodes -> Pointers]
      /\ \A n \in Nodes : /\ b[n].next = IF n = y THEN x ELSE m[n].next
                          /\ b[n].prev = IF n = x THEN y ELSE m[n].prev
  <2>1. b \in [Nodes -> Pointers]
        /\ \A n \in Nodes : b[n].next = (IF n = y THEN x ELSE a[n].next) /\ b[n].prev = a[n].prev
    BY <1>2, <1>3, NextStored
  <2> QED
    BY <1>3, <2>1
<1> HIDE DEF b
<1>5. c \in [Nodes -> Pointers]
      /\ \A n \in Nodes : /\ c[n].next = IF n = first THEN first ELSE b[n].next
                          /\ c[n].prev = IF n = first THEN first ELSE b[n].prev
  BY <1>4 DEF Pointers
<1> QED
  BY <1>1, <1>4, <1>5 DEF x, y

(* What the places of the list are, before and after. *)
LEMMA PlaceIs ==
  ASSUME items \in Seq(Slots)
  PROVE  /\ Len(items) \in Nat
         /\ \A k \in 1..Len(items) : Place(k) = items[k] /\ items[k] \in Slots
         /\ Place(0) = ListHead /\ Place(Len(items) + 1) = ListHead
         /\ \A k \in 0..(Len(items) + 1) : Place(k) \in Nodes
BY HeadIsNoSlot DEF Place

SlotsOnce == \A j, k \in 1..Len(items) : items[j] = items[k] => j = k

LEMMA RingAdd ==
  ASSUME link \in [Nodes -> Pointers], items \in Seq(Slots), Ring, SlotsOnce,
         NEW new \in Slots, \A k \in 1..Len(items) : items[k] # new,
         link' = AddLast(link, new), items' = Append(items, new)
  PROVE  Ring'
<1>n. PICK n \in Nat : n = Len(items)
  OBVIOUS
<1>last. PICK last : last = Place(n)
  OBVIOUS
<1>1. /\ n \in Nat /\ Len(items') = n + 1 /\ items' \in Seq(Slots)
      /\ items'[n + 1] = new /\ \A k \in 1..n : items'[k] = items[k]
  BY <1>n
<1>2. /\ Place(n)' = IF n = 0 THEN ListHead ELSE items[n]
      /\ \A k \in 0..n : Place(k)' = Place(k)
      /\ Place(n + 1)' = new /\ Place(n + 2)' = ListHead
  BY <1>n, <1>1 DEF Place
<1>3. link[ListHead].prev = last
  BY <1>n, <1>last, <1>1, PlaceIs DEF Ring
<1>4. /\ \A k \in 0..n : Place(k) \in Nodes /\ Place(k) # new
      /\ \A k \in 0..n : k # n => Place(k) # last
      /\ \A k \in 1..n : Place(k) # ListHead
  BY <1>n, <1>last, <1>1, PlaceIs, HeadIsNoSlot DEF SlotsOnce, Place
<1>5. \A x \in Nodes :
         /\ link'[x].next = IF x = last THEN new ELSE IF x = new THEN ListHead ELSE link[x].next
         /\ link'[x].prev = IF x = new THEN last ELSE IF x = ListHead THEN new ELSE link[x].prev
  BY <1>3, AddLastIs
<1>6. ASSUME NEW k \in 0..n, k # n
      PROVE  link'[Place(k)].next = Place(k + 1) /\ link'[Place(k + 1)].prev = Place(k)
  <2>1. k + 1 \in 1..n /\ k + 1 \in 0..n /\ k \in 0..n
    BY <1>1, <1>6
  <2>2. link[Place(k)].next = Place(k + 1) /\ link[Place(k + 1)].prev = Place(k)
    BY <1>n DEF Ring
  <2>3. Place(k) \in Nodes /\ Place(k) # last /\ Place(k) # new
    BY <1>4, <1>6
  <2>4. Place(k + 1) \in Nodes /\ Place(k + 1) # ListHead /\ Place(k + 1) # new
    BY <1>4, <2>1
  <2> QED
    BY <1>5, <2>2, <2>3, <2>4
<1>7. /\ last \in Nodes /\ last # new /\ new # ListHead /\ new \in Nodes /\ ListHead \in Nodes
  BY <1>last, <1>1, <1>4, HeadIsNoSlot
<1>8. /\ link'[last].next = new /\ link'[new].prev = last
      /\ link'[new].next = ListHead /\ link'[ListHead].prev = new
  BY <1>5, <1>7
<1>9. ASSUME NEW k \in 0..(n + 1)
      PROVE  link'[Place(k)'].next = Place(k + 1)' /\ link'[Place(k + 1)'].prev = Place(k)'
  <2>1. CASE k = n + 1
    <3>1. Place(k)' = new /\ Place(k + 1)' = ListHead
      BY <1>1, <1>2, <2>1
    <3> QED
      BY <1>8, <3>1
  <2>2. CASE k = n
    <3>1. Place(k)' = last /\ Place(k + 1)' = new
      BY <1>last, <1>1, <1>2, <2>2
    <3> QED
      BY <1>8, <3>1
  <2>3. CASE k # n /\ k # n + 1
    <3>1. k \in 0..n /\ k + 1 \in 0..n
      BY <1>1, <2>3
    <3>2. Place(k)' = Place(k) /\ Place(k + 1)' = Place(k + 1)
      BY <1>2, <3>1
    <3> QED
      BY <1>6, <2>3, <3>1, <3>2
  <2> QED
    BY <2>1, <2>2, <2>3
<1> QED
  BY <1>1, <1>9 DEF Ring

LEMMA RingPop ==
  ASSUME link \in [Nodes -> Pointers], items \in Seq(Slots), Ring, SlotsOnce, items # <<>>,
         link' = DelInit(link, items[1]), items' = SubSeq(items, 2, Len(items))
  PROVE  Ring'
<1>n. PICK n \in Nat : n = Len(items)
  OBVIOUS
<1>first. PICK first : first = items[1]
  OBVIOUS
<1>second. PICK second : second = Place(2)
  OBVIOUS
<1>1. /\ n \in Nat /\ n >= 1 /\ 1 \in 1..n /\ Len(items') = n - 1 /\ items' \in Seq(Slots)
      /\ \A k \in 1..(n - 1) : items'[k] = items[k + 1]
  <2>1. n >= 1 /\ 1 \in 1..n
    BY <1>n
  <2>2. n = 1 \/ n >= 2
    BY <2>1
  <2>3. CASE n = 1
    <3>1. items' = <<>>
      BY <1>n, <2>3
    <3>a. <<>> \in Seq(Slots) /\ Len(<<>>) = 0
      OBVIOUS
    <3>2. Len(items') = 0 /\ items' \in Seq(Slots)
      BY <3>1, <3>a
    <3>3. n - 1 = 0 /\ 1..(n - 1) = {}
      BY <2>3
    <3> QED
      BY <2>1, <3>2, <3>3
  <2>4. CASE n >= 2
    BY <1>n, <2>1, <2>4
  <2> QED
    BY <2>1, <2>2, <2>3, <2>4
<1>2. /\ \A k \in 1..n : Place(k)' = Place(k + 1)
      /\ Place(0)' = ListHead
  BY <1>n, <1>1 DEF Place
<1>3. /\ first \in Slots /\ Place(1) = first
      /\ link[ListHead].next = first /\ link[first].prev = ListHead
      /\ link[first].next = second /\ link[second].prev = first
  <2>1. Place(0) = ListHead /\ Place(1) = first /\ first \in Slots
    BY <1>n, <1>first, <1>1, PlaceIs
  <2>2. link[Place(0)].next = Place(0 + 1) /\ link[Place(0 + 1)].prev = Place(0)
    BY <1>n, <1>1 DEF Ring
  <2>3. link[Place(1)].next = Place(1 + 1) /\ link[Place(1 + 1)].prev = Place(1)
    BY <1>n, <1>1 DEF Ring
  <2> QED
    BY <1>second, <2>1, <2>2, <2>3
<1>4. second \in Nodes /\ second # first
  <2>1. CASE n = 1
    BY <1>n, <1>second, <1>1, <1>3, <2>1, PlaceIs, HeadIsNoSlot
  <2>2. CASE n # 1
    BY <1>n, <1>first, <1>second, <1>1, <2>2, PlaceIs, HeadIsNoSlot DEF SlotsOnce
  <2> QED
    BY <2>1, <2>2
<1>5. /\ \A k \in 2..n : Place(k) \in Nodes /\ Place(k) # first /\ Place(k) # ListHead
      /\ \A k \in 3..(n + 1) : Place(k) \in Nodes /\ Place(k) # first /\ Place(k) # second
  BY <1>n, <1>first, <1>second, <1>1, PlaceIs, HeadIsNoSlot DEF SlotsOnce, Place
<1>6. \A x \in Nodes :
         /\ link'[x].next = IF x = first THEN first ELSE IF x = ListHead THEN second ELSE link[x].next
         /\ link'[x].prev = IF x = first THEN first ELSE IF x = second THEN ListHead ELSE link[x].prev
  BY <1>first, <1>3, DelInitIs, HeadIsNoSlot
<1>7. ASSUME NEW k \in 0..(n - 1)
      PROVE  link'[Place(k)'].next = Place(k + 1)' /\ link'[Place(k + 1)'].prev = Place(k)'
  <2>1. CASE k = 0
    <3>1. Place(k)' = ListHead /\ Place(k + 1)' = second
      BY <1>second, <1>1, <1>2, <2>1
    <3>2. link'[ListHead].next = second /\ link'[second].prev = ListHead
      BY <1>3, <1>4, <1>6, HeadIsNoSlot
    <3> QED
      BY <3>1, <3>2
  <2>2. CASE k # 0
    <3>1. k + 1 \in 2..n /\ k + 2 \in 3..(n + 1) /\ k + 1 \in 0..n /\ k + 1 \in 1..n /\ k \in 1..n
      BY <1>1, <2>2
    <3>2. Place(k)' = Place(k + 1) /\ Place(k + 1)' = Place(k + 2)
      BY <1>1, <1>2, <3>1
    <3>3. link[Place(k + 1)].next = Place(k + 2) /\ link[Place(k + 2)].prev = Place(k + 1)
      <4>1. link[Place(k + 1)].next = Place(k + 1 + 1) /\ link[Place(k + 1 + 1)].prev = Place(k + 1)
        BY <1>n, <3>1 DEF Ring
      <4> QED
        BY <4>1
    <3>4. /\ Place(k + 1) \in Nodes /\ Place(k + 1) # first /\ Place(k + 1) # ListHead
          /\ Place(k + 2) \in Nodes /\ Place(k + 2) # first /\ Place(k + 2) # second
      BY <1>5, <3>1
    <3> QED
      BY <1>6, <3>2, <3>3, <3>4
  <2> QED
    BY <2>1, <2>2
<1> QED
  BY <1>1, <1>7 DEF Ring

-----------------------------------------------------------------------------
(* Types, and what holds before an initialisation has succeeded. *)

LEMMA InitBase == Init => Base
<1> SUFFICES ASSUME Init PROVE Base
  OBVIOUS
<1> USE PoolAssumption DEF Init
<1>1. 0 \in Slots /\ Consumer \in Printers
  BY DEF Slots, Printers
<1>2. link \in [Nodes -> [next : Nodes \cup {None}, prev : Nodes \cup {None}]]
  OBVIOUS
<1>3. TypeOK
  <2>1. /\ once \in {"todo", "running", "success", "failed"}
        /\ pending \in Int /\ index \in Nat /\ alert \in 0..1
    OBVIOUS
  <2>c. covered \in BOOLEAN
    OBVIOUS
  <2>2. items \in Seq(Slots) /\ printed \in Seq([save : Saves \cup {None}, by : Printers]) /\ accepted \subseteq Saves
    OBVIOUS
  <2>3. /\ text \in [Slots -> Saves \cup {None}]
        /\ slot \in [Producers -> Slots] /\ node \in [Printers -> Slots]
        /\ saves \in [Producers -> 0..MaxSaves]
    BY <1>1
  <2>4. /\ pc \in [Producers -> {"idle", "init", "count", "uncount", "claim", "write", "add", "signal"}]
        /\ ppc \in [Printers -> {"off", "idle", "drain", "print"}]
    OBVIOUS
  <2> QED
    BY <1>2, <2>1, <2>c, <2>2, <2>3, <2>4 DEF TypeOK
<1>4. BeforeSuccess
  BY <1>1 DEF BeforeSuccess
<1>5. Pointing
  <2> SUFFICES ASSUME NEW n \in Linked PROVE link[n].next \in Linked /\ link[n].prev \in Linked
    BY DEF Pointing
  <2>1. n \in Nodes /\ link[n] \in [next : Nodes, prev : Nodes] /\ link[n] = [next |-> None, prev |-> None]
    BY DEF Linked
  <2>2. None \in Nodes
    BY <2>1
  <2> QED
    BY <2>1, <2>2 DEF Linked
<1> QED
  BY <1>3, <1>4, <1>5 DEF Base

(* Slots that come after one another are slots. *)
LEMMA NextSlot ==
  ASSUME index \in Nat
  PROVE  (index + 1) % Pool \in Slots
BY PoolAssumption DEF Slots

(* A printer that finds the list not empty takes a slot or, once the list is
   corrupt, what its head points to. *)
LEMMA FirstIsNode ==
  ASSUME Base, NEW d \in Printers, ppc[d] = "drain"
  PROVE  once = "success" /\ link[ListHead].next \in Nodes
<1>1. once = "success"
  BY DEF Base, BeforeSuccess
<1> QED
  BY <1>1 DEF Base, Pointing, Linked

(* A producer on its way through log__save has begun one of its saves. *)
LEMMA PlaceBegun ==
  ASSUME Base, NEW p \in Producers, pc[p] # "idle"
  PROVE  <<p, saves[p]>> \in Saves
<1>1. saves[p] \in 0..MaxSaves /\ saves[p] # 0
  BY DEF Base, TypeOK
<1>2. saves[p] \in 1..MaxSaves
  BY <1>1, PoolAssumption
<1> QED
  BY <1>2 DEF Saves

LEMMA TypeStep == Base /\ [Next]_vars => TypeOK'
<1> SUFFICES ASSUME Base, [Next]_vars PROVE TypeOK'
  OBVIOUS
<1> USE PoolAssumption
<1>t. TypeOK
  BY DEF Base
<1> USE DEF TypeOK
<1>1. CASE UNCHANGED vars
  BY <1>t, <1>1 DEF vars, queueVars, saveVars, printVars
<1>2. ASSUME NEW p \in Producers, BeginSave(p) PROVE TypeOK'
  BY <1>t, <1>2 DEF BeginSave, printVars
<1>3. ASSUME NEW p \in Producers, InitDone(p) PROVE TypeOK'
  <2>1. link' \in [Nodes -> Pointers]
    <3> DEFINE self == [next |-> ListHead, prev |-> ListHead]
               null == [next |-> None, prev |-> None]
    <3>1. self \in Pointers /\ null \in Pointers
      BY HeadIsNoSlot DEF Pointers
    <3>2. link' = [n \in Nodes |-> IF n = ListHead THEN self ELSE null]
      BY <1>3 DEF InitDone, AsyncInit
    <3> HIDE DEF self, null
    <3> QED
      BY <3>1, <3>2
  <2>2. items' \in Seq(Slots) /\ text' \in [Slots -> Saves \cup {None}]
    BY <1>3 DEF InitDone, AsyncInit
  <2>3. ppc' \in [Printers -> {"off", "idle", "drain", "print"}]
    BY <1>t, <1>3 DEF InitDone, AsyncInit
  <2>4. pc' \in [Producers -> {"idle", "init", "count", "uncount", "claim", "write", "add", "signal"}]
    BY <1>t, <1>3 DEF InitDone, At
  <2> QED
    BY <1>t, <1>3, <2>1, <2>2, <2>3, <2>4 DEF InitDone, AsyncInit, Pointers
<1>4. ASSUME NEW p \in Producers, InitFails(p) \/ Count(p) \/ Uncount(p) \/ Signal(p) PROVE TypeOK'
  <2>1. pc' \in [Producers -> {"idle", "init", "count", "uncount", "claim", "write", "add", "signal"}]
    BY <1>t, <1>4 DEF InitFails, Count, Uncount, Signal, At
  <2>2. pending' \in Int /\ once' \in {"todo", "running", "success", "failed"} /\ alert' \in 0..1
    BY <1>t, <1>4 DEF InitFails, Count, Uncount, Signal, queueVars
  <2>3. UNCHANGED <<index, link, items, text, slot, saves, ppc, node, printed, accepted, covered>>
    BY <1>4 DEF InitFails, Count, Uncount, Signal, queueVars, printVars
  <2> QED
    BY <1>t, <2>1, <2>2, <2>3
<1>5. ASSUME NEW p \in Producers, Claim(p) PROVE TypeOK'
  <2>1. index' \in Nat /\ slot' \in [Producers -> Slots] /\ covered' \in BOOLEAN
    BY <1>t, <1>5, NextSlot DEF Claim
  <2> QED
    BY <1>t, <1>5, <2>1 DEF Claim, At, printVars
<1>6. ASSUME NEW p \in Producers, Write(p) PROVE TypeOK'
  <2>1. <<p, saves[p]>> \in Saves
    BY <1>t, <1>6, PlaceBegun DEF Write, At
  <2>2. text' \in [Slots -> Saves \cup {None}]
    BY <1>t, <1>6, <2>1 DEF Write, Contents
  <2> QED
    BY <1>t, <1>6, <2>2 DEF Write, At, printVars
<1>7. ASSUME NEW p \in Producers, Add(p) PROVE TypeOK'
  <2>1. <<p, saves[p]>> \in Saves
    BY <1>t, <1>7, PlaceBegun DEF Add, At
  <2>2. link' \in [Nodes -> Pointers]
    BY <1>t, <1>7, AddLastIs DEF Add, Pointers
  <2>3. items' \in Seq(Slots) /\ accepted' \subseteq Saves
    <3>1. items' = Append(items, slot[p]) /\ accepted' = accepted \cup {<<p, saves[p]>>} /\ slot[p] \in Slots
      BY <1>t, <1>7 DEF Add
    <3>2. accepted' \subseteq Saves
      BY <1>t, <2>1, <3>1
    <3>3. items' \in Seq(Slots)
      BY <1>t, <3>1
    <3> QED
      BY <3>2, <3>3
  <2> QED
    BY <1>t, <1>7, <2>2, <2>3 DEF Add, At, printVars, Pointers
<1>8. ASSUME WaitReturns PROVE TypeOK'
  <2>1. Consumer \in Printers /\ ppc' = [ppc EXCEPT ![Consumer] = "drain"] /\ alert' = 0
    BY <1>8 DEF WaitReturns, PrinterAt, Printers
  <2>2. UNCHANGED <<once, pending, index, link, items, text, pc, slot, saves, node, printed, accepted, covered>>
    BY <1>8 DEF WaitReturns, saveVars
  <2> QED
    BY <1>t, <2>1, <2>2
<1>9. ASSUME NEW f \in Flushers, Flush(f) PROVE TypeOK'
  BY <1>t, <1>9 DEF Flush, PrinterAt, queueVars, saveVars
<1>10. ASSUME NEW d \in Printers, PopStep(d) PROVE TypeOK'
  <2>1. UNCHANGED <<once, index, text, alert, pc, slot, saves, printed, accepted, covered>>
    BY <1>10 DEF PopStep, saveVars
  <2>2. ppc' \in [Printers -> {"off", "idle", "drain", "print"}]
    BY <1>t, <1>10 DEF PopStep, Pop, PrinterAt
  <2>3. CASE UNCHANGED <<pending, link, items, node>>
    BY <1>t, <2>1, <2>2, <2>3
  <2>4. CASE ~UNCHANGED <<pending, link, items, node>>
    <3>1. /\ ppc[d] = "drain" /\ pending' = pending - 1
          /\ link' = DelInit(link, link[ListHead].next)
          /\ link[ListHead].next # ListHead
          /\ items' = SubSeq(items, 2, Len(items))
          /\ node' = [node EXCEPT ![d] = link[ListHead].next]
      BY <1>10, <2>4 DEF PopStep, Pop, PrinterAt
    <3>2. link[ListHead].next \in Nodes /\ link[ListHead].next \in Slots
      BY <3>1, FirstIsNode, HeadIsNoSlot
    <3>3. link' \in [Nodes -> Pointers]
      BY <1>t, <3>1, <3>2, DelInitIs DEF Pointers
    <3>4. items' \in Seq(Slots)
      BY <1>t, <3>1
    <3> QED
      BY <1>t, <2>1, <2>2, <3>1, <3>2, <3>3, <3>4 DEF Pointers
  <2> QED
    BY <2>3, <2>4
<1>11. ASSUME NEW d \in Printers, PrintNode(d) PROVE TypeOK'
  <2>1. PICK save \in Contents(text[node[d]]) : printed' = Append(printed, [save |-> save, by |-> d])
    BY <1>11 DEF PrintNode
  <2>2. save \in Saves \cup {None}
    BY <1>t, <2>1 DEF Contents
  <2>3. printed' \in Seq([save : Saves \cup {None}, by : Printers])
    BY <1>t, <2>1, <2>2
  <2> QED
    BY <1>t, <1>11, <2>3 DEF PrintNode, PrinterAt, queueVars, saveVars
<1> QED
  BY <1>1, <1>2, <1>3, <1>4, <1>5, <1>6, <1>7, <1>8, <1>9, <1>10, <1>11 DEF Next, InSave

LEMMA BeforeSuccessStep == Base /\ [Next]_vars => BeforeSuccess'
<1> SUFFICES ASSUME Base, [Next]_vars PROVE BeforeSuccess'
  OBVIOUS
<1>b. BeforeSuccess
  BY DEF Base
<1>t. /\ pc \in [Producers -> SavePlaces] /\ ppc \in [Printers -> PrintPlaces]
      /\ Consumer \in Printers
  BY DEF Base, TypeOK, SavePlaces, PrintPlaces, Printers
<1> USE DEF BeforeSuccess
<1>1. CASE UNCHANGED vars
  BY <1>b, <1>1 DEF vars, queueVars, saveVars, printVars
<1>2. ASSUME NEW p \in Producers, BeginSave(p) PROVE BeforeSuccess'
  BY <1>b, <1>t, <1>2 DEF BeginSave, printVars, SavePlaces
<1>3. ASSUME NEW p \in Producers, InSave(p) PROVE BeforeSuccess'
  <2>1. CASE InitDone(p)
    <3>1. pc' = [pc EXCEPT ![p] = "count"] /\ pc[p] = "init" /\ once' = "success"
      BY <2>1 DEF InitDone, At
    <3> QED
      BY <1>b, <1>t, <3>1
  <2>2. CASE InitFails(p)
    <3>1. pc' = [pc EXCEPT ![p] = "idle"] /\ pc[p] = "init" /\ once' = "failed"
      BY <2>2 DEF InitFails, At
    <3>2. UNCHANGED <<items, pending, index, printed, accepted, ppc>>
      BY <2>2 DEF InitFails, printVars
    <3> QED
      BY <1>b, <1>t, <3>1, <3>2
  <2>3. CASE ~InitDone(p) /\ ~InitFails(p)
    <3>1. /\ pc[p] \notin {"idle", "init"} /\ once' = once
          /\ \E there \in SavePlaces : there # "init" /\ pc' = [pc EXCEPT ![p] = there]
      BY <1>3, <2>3 DEF InSave, Count, Uncount, Claim, Write, Add, Signal, At, queueVars, SavePlaces
    <3> QED
      BY <1>b, <1>t, <3>1
  <2> QED
    BY <2>1, <2>2, <2>3
<1>4. WaitReturns => BeforeSuccess'
  BY <1>b, <1>t DEF WaitReturns, PrinterAt, saveVars
<1>5. ASSUME NEW f \in Flushers, Flush(f) PROVE BeforeSuccess'
  BY <1>b, <1>5 DEF Flush, queueVars, saveVars
<1>6. ASSUME NEW d \in Printers, PopStep(d) \/ PrintNode(d) PROVE BeforeSuccess'
  <2>1. ppc[d] \in {"drain", "print"}
    BY <1>6 DEF PopStep, Pop, PrintNode, PrinterAt
  <2>2. once = "success" /\ once' = once /\ pc' = pc
    BY <1>b, <1>6, <2>1 DEF PopStep, PrintNode, queueVars, saveVars
  <2> QED
    BY <1>b, <2>2
<1> QED
  BY <1>1, <1>2, <1>3, <1>4, <1>5, <1>6 DEF Next

LEMMA PointingStep == Base /\ [Next]_vars => Pointing'
<1> SUFFICES ASSUME Base, [Next]_vars PROVE Pointing'
  OBVIOUS
<1>p. Pointing /\ BeforeSuccess /\ link \in [Nodes -> Pointers]
  BY DEF Base, TypeOK, Pointers
<1>q. \A n \in Nodes : n \in Linked <=> link[n].next \in Nodes /\ link[n].prev \in Nodes
  BY <1>p DEF Linked, Pointers
<1>1. ASSUME link' = link, once' = "success" => once = "success" PROVE Pointing'
  BY <1>p, <1>1 DEF Pointing, Linked
<1>2. ASSUME NEW p \in Producers, InitDone(p) PROVE Pointing'
  <2> DEFINE self == [next |-> ListHead, prev |-> ListHead]
             null == [next |-> None, prev |-> None]
  <2>1. link' = [n \in Nodes |-> IF n = ListHead THEN self ELSE null]
    BY <1>2 DEF InitDone, AsyncInit
  <2>2. ListHead \in Nodes /\ self \in [next : Nodes, prev : Nodes]
    BY HeadIsNoSlot
  <2>3. null.next = None /\ null.prev = None /\ self.next = ListHead /\ self.prev = ListHead
    OBVIOUS
  <2>4. null \in [next : Nodes, prev : Nodes] <=> None \in Nodes
    OBVIOUS
  <2> HIDE DEF self, null
  <2>5. /\ link'[ListHead] = self
        /\ \A n \in Nodes : link'[n] = IF n = ListHead THEN self ELSE null
    BY <2>1, <2>2
  <2>6. ListHead \in Linked'
    BY <2>2, <2>5 DEF Linked
  <2>7. ASSUME NEW n \in Linked' PROVE link'[n].next \in Linked' /\ link'[n].prev \in Linked'
    <3>1. n \in Nodes /\ link'[n] \in [next : Nodes, prev : Nodes]
      BY DEF Linked
    <3>2. CASE n = ListHead
      BY <2>3, <2>5, <2>6, <3>2
    <3>3. CASE n # ListHead
      <4>1. link'[n] = null /\ None \in Nodes
        BY <2>4, <2>5, <3>1, <3>3
      <4>2. None \in Linked'
        BY <2>2, <2>4, <2>5, <4>1 DEF Linked
      <4> QED
        BY <2>3, <4>1, <4>2
    <3> QED
      BY <3>2, <3>3
  <2> QED
    BY <2>6, <2>7 DEF Pointing
<1>3. ASSUME NEW p \in Producers, Add(p) PROVE Pointing'
  <2>1. once = "success" /\ once' = once
    BY <1>3, <1>p DEF Add, At, BeforeSuccess
  <2>2. PICK new : new = slot[p] /\ new \in Slots /\ new \in Nodes /\ new # ListHead
    BY HeadIsNoSlot DEF Base, TypeOK
  <2>3. link' = AddLast(link, new)
    BY <1>3, <2>2 DEF Add
  <2>4. PICK last : last = link[ListHead].prev
    OBVIOUS
  <2>5. ListHead \in Nodes /\ ListHead \in Linked /\ last \in Linked /\ last \in Nodes
    BY <1>p, <2>1, <2>4 DEF Pointing, Linked
  <2>6. /\ link' \in [Nodes -> Pointers]
        /\ \A n \in Nodes :
             /\ link'[n].next = IF n = last THEN new ELSE IF n = new THEN ListHead ELSE link[n].next
             /\ link'[n].prev = IF n = new THEN last ELSE IF n = ListHead THEN new ELSE link[n].prev
    BY <1>p, <2>2, <2>3, <2>4, AddLastIs
  <2>7. \A n \in Nodes : n \in Linked' <=> link'[n].next \in Nodes /\ link'[n].prev \in Nodes
    BY <2>6 DEF Linked, Pointers
  <2>8. ASSUME NEW n \in Linked \cup {new} PROVE n \in Linked'
    <3>1. n \in Nodes /\ (n # new => link[n].next \in Nodes /\ link[n].prev \in Nodes)
      BY <1>q, <2>2 DEF Linked
    <3> QED
      BY <2>2, <2>5, <2>6, <2>7, <3>1
  <2>9. ASSUME NEW n \in Linked' PROVE n \in Linked \cup {new}
    <3> SUFFICES ASSUME n # new PROVE n \in Linked
      OBVIOUS
    <3>1. n \in Nodes /\ link'[n].next \in Nodes /\ link'[n].prev \in Nodes
      BY <2>7, <2>9 DEF Linked
    <3>2. CASE n \in {last, ListHead}
      BY <2>5, <3>2
    <3>3. CASE n \notin {last, ListHead}
      BY <1>q, <2>6, <3>1, <3>3
    <3> QED
      BY <3>2, <3>3
  <2>10. ASSUME NEW n \in Linked'
         PROVE  link'[n].next \in Linked \cup {new} /\ link'[n].prev \in Linked \cup {new}
    <3>1. n \in Nodes /\ (n # new => n \in Linked)
      BY <2>9 DEF Linked
    <3>2. n # new => link[n].next \in Linked /\ link[n].prev \in Linked
      BY <1>p, <3>1 DEF Pointing
    <3> QED
      BY <2>5, <2>6, <3>1, <3>2
  <2> QED
    BY <2>5, <2>8, <2>10 DEF Pointing
<1>4. ASSUME NEW d \in Printers, PopStep(d) PROVE Pointing'
  <2>1. once = "success" /\ once' = once
    BY <1>4, FirstIsNode DEF PopStep, Pop, PrinterAt
  <2>2. CASE link' = link
    BY <1>1, <2>1, <2>2
  <2>3. CASE link' # link
    <3>1. PICK first : first = link[ListHead].next /\ link' = DelInit(link, first)
      BY <1>4, <2>3 DEF PopStep, Pop
    <3>2. ListHead \in Linked /\ first \in Linked /\ first \in Nodes
      BY <1>p, <2>1, <3>1 DEF Pointing, Linked
    <3>3. PICK a, b : a = link[first].next /\ b = link[first].prev
      OBVIOUS
    <3>4. a \in Linked /\ b \in Linked
      BY <1>p, <3>2, <3>3 DEF Pointing
    <3>5. /\ link' \in [Nodes -> Pointers]
          /\ \A n \in Nodes :
               /\ link'[n].next = IF n = first THEN first ELSE IF n = b THEN a ELSE link[n].next
               /\ link'[n].prev = IF n = first THEN first ELSE IF n = a THEN b ELSE link[n].prev
      BY <1>p, <3>1, <3>2, <3>3, DelInitIs
    <3>6. \A n \in Nodes : n \in Linked' <=> link'[n].next \in Nodes /\ link'[n].prev \in Nodes
      BY <3>5 DEF Linked, Pointers
    <3>7. a \in Nodes /\ b \in Nodes
      BY <3>4 DEF Linked
    <3>8. ASSUME NEW n \in Linked PROVE n \in Linked'
      BY <1>q, <3>2, <3>5, <3>6, <3>7 DEF Linked
    <3>9. ASSUME NEW n \in Linked' PROVE n \in Linked
      <4>1. n \in Nodes /\ link'[n].next \in Nodes /\ link'[n].prev \in Nodes
        BY <3>6, <3>9 DEF Linked
      <4>2. CASE n \in {first, a, b}
        BY <3>2, <3>4, <4>2
      <4>3. CASE n \notin {first, a, b}
        BY <1>q, <3>5, <4>1, <4>3
      <4> QED
        BY <4>2, <4>3
    <3>10. ASSUME NEW n \in Linked' PROVE link'[n].next \in Linked /\ link'[n].prev \in Linked
      <4>1. n \in Linked /\ n \in Nodes /\ link[n].next \in Linked /\ link[n].prev \in Linked
        BY <1>p, <3>9 DEF Pointing, Linked
      <4> QED
        BY <3>2, <3>4, <3>5, <4>1
    <3> QED
      BY <2>1, <3>2, <3>8, <3>10 DEF Pointing
  <2> QED
    BY <2>2, <2>3
<1>5. CASE UNCHANGED vars
  BY <1>1, <1>5 DEF vars, queueVars
<1>6. ASSUME NEW p \in Producers, BeginSave(p) \/ (InSave(p) /\ ~InitDone(p) /\ ~Add(p))
      PROVE  link' = link /\ (once' = "success" => once = "success")
  BY <1>6 DEF InSave, BeginSave, InitFails, Count, Uncount, Claim, Write, Signal, queueVars
<1>7. ASSUME WaitReturns \/ (\E f \in Flushers : Flush(f)) \/ (\E d \in Printers : PrintNode(d))
      PROVE  link' = link /\ once' = once
  BY <1>7 DEF WaitReturns, Flush, PrintNode, queueVars
<1> QED
  BY <1>1, <1>2, <1>3, <1>4, <1>5, <1>6, <1>7 DEF Next, InSave

LEMMA BegunStep == Base /\ [Next]_vars => \A p \in Producers : pc'[p] # "idle" => saves'[p] # 0
<1> SUFFICES ASSUME Base, [Next]_vars, NEW q \in Producers, pc'[q] # "idle" PROVE saves'[q] # 0
  OBVIOUS
<1>t. /\ pc \in [Producers -> SavePlaces] /\ saves \in [Producers -> 0..MaxSaves]
      /\ pc[q] # "idle" => saves[q] # 0
  BY DEF Base, TypeOK, SavePlaces
<1>1. ASSUME NEW p \in Producers, BeginSave(p) PROVE saves'[q] # 0
  BY <1>t, <1>1, PoolAssumption DEF BeginSave
<1>2. ASSUME NEW p \in Producers, InSave(p) PROVE saves' = saves /\ pc[q] # "idle"
  <2>1. saves' = saves /\ pc[p] # "idle"
    BY <1>2 DEF InSave, InitDone, InitFails, Count, Uncount, Claim, Write, Add, Signal, At
  <2>2. \A r \in Producers : r # p => pc'[r] = pc[r]
    BY <1>t, <1>2 DEF InSave, InitDone, InitFails, Count, Uncount, Claim, Write, Add, Signal, At
  <2> QED
    BY <2>1, <2>2
<1>3. ASSUME \/ WaitReturns \/ (\E f \in Flushers : Flush(f))
             \/ (\E d \in Printers : PopStep(d) \/ PrintNode(d)) \/ UNCHANGED vars
      PROVE  saves' = saves /\ pc' = pc
  BY <1>3 DEF WaitReturns, Flush, PopStep, PrintNode, saveVars, vars
<1> QED
  BY <1>t, <1>1, <1>2, <1>3 DEF Next

LEMMA BaseStep == Base /\ [Next]_vars => Base'
BY TypeStep, BeforeSuccessStep, PointingStep, BegunStep DEF Base

-----------------------------------------------------------------------------
(* Until a slot is covered: nobody fills a slot that another one fills, that is
   queued or that is printed, so no slot is queued twice, the list stays whole
   and every count has its slot. *)
InPrint == {d \in Printers : ppc[d] = "print"}
Filling == {p \in Producers : pc[p] \in {"write", "add"}}

SlotsApart ==
  /\ \A p, q \in Filling : slot[p] = slot[q] => p = q
  /\ \A p \in Filling, k \in 1..Len(items) : items[k] # slot[p]
  /\ \A p \in Filling, d \in InPrint : node[d] # slot[p]
  /\ SlotsOnce

Queue == (~covered => SlotsApart) /\ PendingExact

LEMMA CoveredStays == [Next]_vars /\ covered => covered'
BY DEF Next, InSave, BeginSave, InitDone, InitFails, Count, Uncount, Claim, Write, Add, Signal,
   WaitReturns, Flush, PopStep, PrintNode, queueVars, vars

(* The head of the list is the first queued slot. *)
LEMMA FirstIsHead ==
  ASSUME Base, ~covered, PendingExact, NEW d \in Printers, ppc[d] = "drain"
  PROVE  /\ Ring
         /\ items = <<>> => link[ListHead].next = ListHead
         /\ items # <<>> => /\ link[ListHead].next = items[1] /\ items[1] \in Slots
                            /\ link[ListHead].next # ListHead
<1>1. Ring /\ items \in Seq(Slots)
  BY FirstIsNode DEF PendingExact, Base, TypeOK
<1>2. link[Place(0)].next = Place(0 + 1)
  BY <1>1, PlaceIs DEF Ring
<1>3. Place(0) = ListHead /\ link[ListHead].next = Place(1)
  BY <1>1, <1>2, PlaceIs
<1>4. CASE items = <<>>
  BY <1>1, <1>3, <1>4 DEF Place
<1>5. CASE items # <<>>
  <2>1. 1 \in 1..Len(items)
    BY <1>1, <1>5
  <2> QED
    BY <1>1, <1>3, <1>5, <2>1, PlaceIs, HeadIsNoSlot
<1> QED
  BY <1>1, <1>4, <1>5

LEMMA PopIs ==
  ASSUME Base, ~covered, PendingExact, NEW d \in Printers, PopStep(d)
  PROVE  \/ /\ items = <<>> /\ ppc[d] = "drain" /\ ppc' = [ppc EXCEPT ![d] = "idle"]
            /\ UNCHANGED <<pending, link, items, node>>
         \/ /\ items # <<>> /\ ppc[d] = "drain" /\ ppc' = [ppc EXCEPT ![d] = "print"]
            /\ pending' = pending - 1 /\ items' = SubSeq(items, 2, Len(items))
            /\ link' = DelInit(link, items[1]) /\ node' = [node EXCEPT ![d] = items[1]]
<1>1. ppc[d] = "drain"
  BY DEF PopStep, Pop, PrinterAt
<1>2. CASE items = <<>>
  BY <1>1, <1>2, FirstIsHead DEF PopStep, Pop, PrinterAt
<1>3. CASE items # <<>>
  BY <1>1, <1>3, FirstIsHead DEF PopStep, Pop, PrinterAt
<1> QED
  BY <1>2, <1>3

(* What is left when the first of a sequence is taken away. *)
LEMMA Rest ==
  ASSUME items \in Seq(Slots), items # <<>>, items' = SubSeq(items, 2, Len(items))
  PROVE  /\ Len(items) \in Nat /\ 1 \in 1..Len(items) /\ Len(items') = Len(items) - 1
         /\ \A k \in 1..Len(items') : items'[k] = items[k + 1] /\ k + 1 \in 1..Len(items)
         /\ \A k \in 1..Len(items) : k = 1 \/ (k - 1 \in 1..Len(items') /\ items[k] = items'[k - 1])
<1>1. Len(items) \in Nat /\ Len(items) >= 1
  OBVIOUS
<1>2. Len(items') = Len(items) - 1
  <2>1. Len(items) = 1 \/ Len(items) >= 2
    <3>1. PICK n \in Nat : n = Len(items)
      BY <1>1
    <3>2. n = 1 \/ n >= 2
      BY <1>1, <3>1
    <3> QED
      BY <3>1, <3>2
  <2>2. <<>> \in Seq(Slots) /\ Len(<<>>) = 0
    OBVIOUS
  <2>3. CASE Len(items) = 1
    <3>1. items' = <<>>
      BY <2>3
    <3> QED
      BY <2>2, <2>3, <3>1
  <2>4. CASE Len(items) >= 2
    BY <2>4
  <2> QED
    BY <2>1, <2>3, <2>4
<1>3. \A k \in 1..(Len(items) - 1) : items'[k] = items[k + 1]
  OBVIOUS
<1> QED
  BY <1>1, <1>2, <1>3

LEMMA SlotsApartStep ==
  ASSUME Base, SlotsApart, PendingExact, ~covered', ~covered, [Next]_vars
  PROVE  SlotsApart'
<1>t. /\ pc \in [Producers -> SavePlaces] /\ ppc \in [Printers -> PrintPlaces]
      /\ slot \in [Producers -> Slots] /\ node \in [Printers -> Slots]
      /\ items \in Seq(Slots) /\ Len(items) \in Nat /\ Consumer \in Printers
  BY DEF Base, TypeOK, SavePlaces, PrintPlaces, Printers
<1>a. /\ \A p, q \in Filling : slot[p] = slot[q] => p = q
      /\ \A p \in Filling, k \in 1..Len(items) : items[k] # slot[p]
      /\ \A p \in Filling, d \in InPrint : node[d] # slot[p]
      /\ \A j, k \in 1..Len(items) : items[j] = items[k] => j = k
  BY DEF SlotsApart, SlotsOnce
<1>1. ASSUME Filling' = Filling, InPrint' \subseteq InPrint, UNCHANGED <<items, slot, node>>
      PROVE  SlotsApart'
  BY <1>a, <1>1 DEF SlotsApart, SlotsOnce
<1>2. ASSUME NEW p \in Producers, NEW there \in SavePlaces, pc' = [pc EXCEPT ![p] = there],
             pc[p] \notin {"write", "add"}, there \notin {"write", "add"},
             UNCHANGED <<items, slot, node, ppc>>
      PROVE  SlotsApart'
  <2>1. Filling' = Filling /\ InPrint' = InPrint
    BY <1>t, <1>2 DEF Filling, InPrint
  <2> QED
    BY <1>1, <1>2, <2>1
<1>3. ASSUME NEW p \in Producers, BeginSave(p) PROVE SlotsApart'
  <2>1. \E there \in {"init", "count", "idle"} : pc' = [pc EXCEPT ![p] = there] /\ pc[p] = "idle"
    BY <1>3 DEF BeginSave
  <2> QED
    BY <1>2, <1>3, <2>1 DEF BeginSave, printVars, SavePlaces
<1>4. ASSUME NEW p \in Producers, InitDone(p) PROVE SlotsApart'
  <2>1. items' = <<>> /\ pc' = [pc EXCEPT ![p] = "count"] /\ pc[p] = "init" /\ once # "success"
    BY <1>4 DEF InitDone, At, AsyncInit, Base, BeforeSuccess
  <2>2. Filling' = {}
    BY <1>t, <2>1 DEF Filling, Base, BeforeSuccess
  <2> QED
    BY <2>1, <2>2 DEF SlotsApart, SlotsOnce
<1>5. ASSUME NEW p \in Producers, InitFails(p) \/ Count(p) \/ Uncount(p) \/ Signal(p) PROVE SlotsApart'
  <2>1. UNCHANGED <<items, slot, node, ppc>> /\ pc[p] \notin {"write", "add"}
    BY <1>5 DEF InitFails, Count, Uncount, Signal, At, queueVars, printVars
  <2>2. \E there \in {"idle", "uncount", "claim"} : pc' = [pc EXCEPT ![p] = there]
    BY <1>5 DEF InitFails, Count, Uncount, Signal, At
  <2> QED
    BY <1>2, <2>1, <2>2 DEF SavePlaces
<1>6. ASSUME NEW p \in Producers, Claim(p) PROVE SlotsApart'
  <2>1. PICK new : new = (index + 1) % Pool /\ ~InUse(new) /\ slot' = [slot EXCEPT ![p] = new]
    BY <1>6 DEF Claim
  <2>2. pc[p] = "claim" /\ pc' = [pc EXCEPT ![p] = "write"] /\ UNCHANGED <<items, ppc, node>>
    BY <1>6 DEF Claim, At, printVars
  <2>3. /\ \A q \in Filling : slot[q] # new
        /\ \A k \in 1..Len(items) : items[k] # new
        /\ \A d \in InPrint : node[d] # new
    BY <2>1 DEF InUse, Writing, Queued, Printing, Filling, InPrint
  <2>4. Filling' = Filling \cup {p} /\ p \notin Filling /\ InPrint' = InPrint
    BY <1>t, <2>2 DEF Filling, InPrint
  <2>5. slot'[p] = new /\ \A q \in Filling : slot'[q] = slot[q]
    BY <1>t, <2>1, <2>4 DEF Filling
  <2> QED
    BY <1>a, <2>2, <2>3, <2>4, <2>5 DEF SlotsApart, SlotsOnce
<1>7. ASSUME NEW p \in Producers, Write(p) PROVE SlotsApart'
  <2>1. /\ pc[p] = "write" /\ pc' = [pc EXCEPT ![p] = "add"]
        /\ UNCHANGED <<items, slot, ppc, node>>
    BY <1>7 DEF Write, At, printVars
  <2>2. Filling' = Filling /\ InPrint' = InPrint
    BY <1>t, <2>1 DEF Filling, InPrint
  <2> QED
    BY <1>1, <2>1, <2>2
<1>8. ASSUME NEW p \in Producers, Add(p) PROVE SlotsApart'
  <2>1. /\ pc[p] = "add" /\ pc' = [pc EXCEPT ![p] = "signal"]
        /\ items' = Append(items, slot[p]) /\ UNCHANGED <<slot, ppc, node>>
    BY <1>8 DEF Add, At, printVars
  <2>2. Filling' = Filling \ {p} /\ p \in Filling /\ InPrint' = InPrint
    BY <1>t, <2>1 DEF Filling, InPrint
  <2>3. /\ Len(items') = Len(items) + 1 /\ items'[Len(items) + 1] = slot[p]
        /\ \A k \in 1..Len(items) : items'[k] = items[k]
        /\ 1..Len(items') = 1..Len(items) \cup {Len(items) + 1}
    BY <1>t, <2>1
  <2>4. \A q \in Filling', k \in 1..Len(items') : items'[k] # slot[q]
    BY <1>a, <2>2, <2>3
  <2>5. \A j, k \in 1..Len(items') : items'[j] = items'[k] => j = k
    BY <1>a, <2>2, <2>3
  <2> QED
    BY <1>a, <2>1, <2>2, <2>4, <2>5 DEF SlotsApart, SlotsOnce
<1>9. WaitReturns \/ (\E f \in Flushers : Flush(f)) => SlotsApart'
  <2>1. ASSUME NEW d \in Printers, PrinterAt(d, "idle", "drain"), UNCHANGED <<pc, items, slot, node>>
        PROVE  SlotsApart'
    <3>1. Filling' = Filling /\ InPrint' = InPrint
      BY <1>t, <2>1 DEF Filling, InPrint, PrinterAt
    <3> QED
      BY <1>1, <2>1, <3>1
  <2> QED
    BY <1>t, <2>1 DEF WaitReturns, Flush, queueVars, saveVars, Printers
<1>10. ASSUME NEW d \in Printers, PopStep(d) PROVE SlotsApart'
  <2>1. Filling' = Filling /\ slot' = slot
    BY <1>10 DEF PopStep, saveVars, Filling
  <2>2. CASE items = <<>>
    <3>1. UNCHANGED <<items, node>> /\ ppc' = [ppc EXCEPT ![d] = "idle"]
      BY <1>10, <2>2, PopIs
    <3>2. InPrint' \subseteq InPrint
      BY <1>t, <3>1 DEF InPrint
    <3> QED
      BY <1>1, <2>1, <3>1, <3>2
  <2>3. CASE items # <<>>
    <3>1. /\ items' = SubSeq(items, 2, Len(items))
          /\ ppc' = [ppc EXCEPT ![d] = "print"] /\ node' = [node EXCEPT ![d] = items[1]]
      BY <1>10, <2>3, PopIs
    <3>2. /\ 1 \in 1..Len(items) /\ Len(items') = Len(items) - 1
          /\ \A k \in 1..Len(items') : items'[k] = items[k + 1] /\ k + 1 \in 1..Len(items)
      BY <1>t, <2>3, <3>1, Rest
    <3>3. \A e \in InPrint' : e \in Printers /\ node'[e] = (IF e = d THEN items[1] ELSE node[e]) /\ (e # d => e \in InPrint)
      BY <1>t, <3>1 DEF InPrint
    <3>4. /\ \A q \in Filling, k \in 1..Len(items') : items'[k] # slot[q]
          /\ \A q \in Filling, e \in InPrint' : node'[e] # slot[q]
      BY <1>a, <3>2, <3>3
    <3>5. ASSUME NEW j \in 1..Len(items'), NEW k \in 1..Len(items'), items'[j] = items'[k]
          PROVE  j = k
      <4>1. j + 1 = k + 1
        BY <1>a, <3>2, <3>5
      <4> QED
        BY <1>t, <3>2, <4>1
    <3> QED
      BY <1>a, <2>1, <3>4, <3>5 DEF SlotsApart, SlotsOnce
  <2> QED
    BY <2>2, <2>3
<1>11. ASSUME NEW d \in Printers, PrintNode(d) PROVE SlotsApart'
  <2>1. UNCHANGED <<pc, items, slot, node>> /\ ppc' = [ppc EXCEPT ![d] = "drain"]
    BY <1>11 DEF PrintNode, PrinterAt, queueVars, saveVars
  <2>2. Filling' = Filling /\ InPrint' \subseteq InPrint
    BY <1>t, <2>1 DEF Filling, InPrint
  <2> QED
    BY <1>1, <2>1, <2>2
<1>12. CASE UNCHANGED vars
  <2>1. UNCHANGED <<pc, ppc, items, slot, node>>
    BY <1>12 DEF vars, queueVars, saveVars, printVars
  <2>2. Filling' = Filling /\ InPrint' = InPrint
    BY <2>1 DEF Filling, InPrint
  <2> QED
    BY <1>1, <2>1, <2>2
<1> QED
  BY <1>3, <1>4, <1>5, <1>6, <1>7, <1>8, <1>9, <1>10, <1>11, <1>12 DEF Next, InSave

-----------------------------------------------------------------------------
(* The counter of pending saves. *)

LEMMA SetsAreFinite ==
  /\ IsFiniteSet(Underway) /\ Cardinality(Underway) \in Nat
  /\ IsFiniteSet(Rejected) /\ Cardinality(Rejected) \in Nat
BY ActorsAssumption, FS_Subset, FS_CardinalityType DEF Underway, Rejected

(* What a producer's move does to the two sets. *)
Counted(place) == place \in {"claim", "write", "add"}

LEMMA Moves ==
  ASSUME pc \in [Producers -> SavePlaces], NEW p \in Producers, NEW there \in SavePlaces,
         pc' = [pc EXCEPT ![p] = there]
  PROVE  /\ Counted(there) /\ p \in Underway => Underway' = Underway
         /\ Counted(there) /\ p \notin Underway => Underway' = Underway \cup {p}
         /\ ~Counted(there) /\ p \in Underway => Underway' = Underway \ {p}
         /\ ~Counted(there) /\ p \notin Underway => Underway' = Underway
         /\ there = "uncount" => Rejected' = Rejected \cup {p}
         /\ there # "uncount" /\ p \in Rejected => Rejected' = Rejected \ {p}
         /\ there # "uncount" /\ p \notin Rejected => Rejected' = Rejected
BY DEF Underway, Rejected, Counted, SavePlaces

LEMMA InitQueue == Init => Queue
<1> SUFFICES ASSUME Init PROVE Queue
  OBVIOUS
<1>1. Underway = {} /\ Rejected = {} /\ Filling = {} /\ items = <<>>
  BY DEF Init, Underway, Rejected, Filling
<1>2. SlotsApart
  BY <1>1 DEF SlotsApart, SlotsOnce
<1>3. PendingExact
  BY <1>1, PoolAssumption, FS_EmptySet DEF Init, PendingExact
<1> QED
  BY <1>2, <1>3 DEF Queue

LEMMA PendingExactStep ==
  ASSUME Base, SlotsApart, PendingExact, ~covered', ~covered, [Next]_vars
  PROVE  PendingExact'
<1> USE PoolAssumption
<1>t. /\ pc \in [Producers -> SavePlaces] /\ items \in Seq(Slots) /\ Len(items) \in Nat
      /\ pending \in Int /\ link \in [Nodes -> Pointers] /\ slot \in [Producers -> Slots]
  BY DEF Base, TypeOK, SavePlaces, Pointers
<1>b. BeforeSuccess
  BY DEF Base
<1>e. /\ once = "success" => Ring
      /\ pending = Len(items) + Cardinality(Underway) + Cardinality(Rejected)
      /\ Len(items) + Cardinality(Underway) < Pool
  BY DEF PendingExact
<1>f. /\ Cardinality(Underway) \in Nat /\ Cardinality(Rejected) \in Nat
  BY SetsAreFinite
<1>1. ASSUME UNCHANGED <<pending, items, link>>, Underway' = Underway, Rejected' = Rejected,
             once' = "success" => once = "success"
      PROVE PendingExact'
  <2>1. once' = "success" => Ring'
    BY <1>e, <1>1 DEF Ring, Place
  <2> QED
    BY <1>e, <1>1, <2>1 DEF PendingExact
<1>2. ASSUME NEW p \in Producers, BeginSave(p) PROVE PendingExact'
  <2>1. PICK there \in {"init", "count", "idle"} : pc' = [pc EXCEPT ![p] = there]
    BY <1>2, <1>t DEF BeginSave, SavePlaces
  <2>2. Underway' = Underway /\ Rejected' = Rejected
    BY <1>2, <1>t, <2>1, Moves DEF BeginSave, Underway, Rejected, Counted, SavePlaces
  <2> QED
    BY <1>1, <1>2, <2>2 DEF BeginSave
<1>3. ASSUME NEW p \in Producers, InitDone(p) PROVE PendingExact'
  <2>1. pc' = [pc EXCEPT ![p] = "count"] /\ pc[p] = "init" /\ once = "running"
    BY <1>3, <1>b DEF InitDone, At, BeforeSuccess
  <2>2. Underway' = {} /\ Rejected' = {}
    BY <1>b, <1>t, <2>1 DEF BeforeSuccess, Underway, Rejected, SavePlaces
  <2>3. pending' = 0 /\ items' = <<>> /\ Len(items') = 0
    BY <1>3 DEF InitDone, AsyncInit
  <2>4. Ring'
    <3>1. link'[ListHead] = [next |-> ListHead, prev |-> ListHead]
      BY <1>3, HeadIsNoSlot DEF InitDone, AsyncInit
    <3>2. \A k : Place(k)' = ListHead
      BY <2>3 DEF Place
    <3> QED
      BY <2>3, <3>1, <3>2 DEF Ring
  <2> QED
    BY <2>2, <2>3, <2>4, FS_EmptySet DEF PendingExact
<1>4. ASSUME NEW p \in Producers, InitFails(p) \/ Signal(p) PROVE PendingExact'
  <2>1. pc' = [pc EXCEPT ![p] = "idle"] /\ pc[p] \in {"init", "signal"}
    BY <1>4 DEF InitFails, Signal, At
  <2>2. Underway' = Underway /\ Rejected' = Rejected
    BY <1>t, <2>1, Moves DEF Underway, Rejected, Counted, SavePlaces
  <2> QED
    BY <1>1, <1>4, <2>2 DEF InitFails, Signal
<1>5. ASSUME NEW p \in Producers, Count(p) PROVE PendingExact'
  <2>1. pc[p] = "count" /\ p \notin Underway /\ p \notin Rejected /\ pending' = pending + 1
    BY <1>5 DEF Count, At, Underway, Rejected
  <2>a. items' = items /\ (once' = "success" => Ring')
    BY <1>5, <1>e DEF Count, Ring, Place
  <2>3. CASE pending + 1 >= Pool
    <3>1. pc' = [pc EXCEPT ![p] = "uncount"]
      BY <1>5, <2>3 DEF Count, At
    <3>2. Underway' = Underway /\ Rejected' = Rejected \cup {p}
      BY <1>t, <2>1, <3>1, Moves DEF Counted, SavePlaces
    <3>3. Cardinality(Rejected \cup {p}) = Cardinality(Rejected) + 1
      BY <2>1, SetsAreFinite, FS_AddElement
    <3> QED
      BY <1>t, <1>e, <1>f, <2>1, <2>a, <3>2, <3>3 DEF PendingExact
  <2>4. CASE ~(pending + 1 >= Pool)
    <3>1. pc' = [pc EXCEPT ![p] = "claim"]
      BY <1>5, <2>4 DEF Count, At
    <3>2. Underway' = Underway \cup {p} /\ Rejected' = Rejected
      BY <1>t, <2>1, <3>1, Moves DEF Counted, SavePlaces
    <3>3. Cardinality(Underway \cup {p}) = Cardinality(Underway) + 1
      BY <2>1, SetsAreFinite, FS_AddElement
    <3> QED
      BY <1>t, <1>e, <1>f, <2>1, <2>a, <2>4, <3>2, <3>3 DEF PendingExact
  <2> QED
    BY <2>3, <2>4
<1>6. ASSUME NEW p \in Producers, Uncount(p) PROVE PendingExact'
  <2>1. pc[p] = "uncount" /\ pc' = [pc EXCEPT ![p] = "idle"] /\ p \in Rejected /\ p \notin Underway
    BY <1>6 DEF Uncount, At, Underway, Rejected
  <2>2. Underway' = Underway /\ Rejected' = Rejected \ {p}
    BY <1>t, <2>1, Moves DEF Counted, SavePlaces
  <2>3. Cardinality(Rejected \ {p}) = Cardinality(Rejected) - 1
    BY <2>1, SetsAreFinite, FS_RemoveElement
  <2>4. items' = items /\ pending' = pending - 1 /\ (once' = "success" => Ring')
    BY <1>6, <1>e DEF Uncount, Ring, Place
  <2> QED
    BY <1>t, <1>e, <1>f, <2>2, <2>3, <2>4 DEF PendingExact
<1>7. ASSUME NEW p \in Producers, Claim(p) \/ Write(p) PROVE PendingExact'
  <2>1. PICK there \in {"write", "add"} : pc' = [pc EXCEPT ![p] = there] /\ p \in Underway /\ p \notin Rejected
    BY <1>7 DEF Claim, Write, At, Underway, Rejected
  <2>2. Underway' = Underway /\ Rejected' = Rejected
    BY <1>t, <2>1, Moves DEF Counted, SavePlaces
  <2> QED
    BY <1>1, <1>7, <2>2 DEF Claim, Write
<1>8. ASSUME NEW p \in Producers, Add(p) PROVE PendingExact'
  <2>1. pc[p] = "add" /\ pc' = [pc EXCEPT ![p] = "signal"] /\ p \in Underway /\ p \notin Rejected /\ p \in Filling
    BY <1>8 DEF Add, At, Underway, Rejected, Filling
  <2>2. Underway' = Underway \ {p} /\ Rejected' = Rejected
    BY <1>t, <2>1, Moves DEF Counted, SavePlaces
  <2>3. Cardinality(Underway \ {p}) = Cardinality(Underway) - 1
    BY <2>1, SetsAreFinite, FS_RemoveElement
  <2>4. /\ items' = Append(items, slot[p]) /\ Len(items') = Len(items) + 1
        /\ link' = AddLast(link, slot[p]) /\ pending' = pending /\ slot[p] \in Slots
    BY <1>8, <1>t DEF Add
  <2>5. Ring
    BY <1>e, <1>b, <2>1 DEF BeforeSuccess
  <2>6. SlotsOnce /\ \A k \in 1..Len(items) : items[k] # slot[p]
    BY <2>1 DEF SlotsApart
  <2>7. Ring'
    BY <1>t, <2>4, <2>5, <2>6, RingAdd
  <2> QED
    BY <1>t, <1>e, <1>f, <2>2, <2>3, <2>4, <2>7 DEF PendingExact
<1>9. ASSUME NEW d \in Printers, PopStep(d) PROVE PendingExact'
  <2>1. Underway' = Underway /\ Rejected' = Rejected /\ once' = once
    BY <1>9 DEF PopStep, saveVars, Underway, Rejected
  <2>2. CASE items = <<>>
    BY <1>1, <1>9, <2>1, <2>2, PopIs
  <2>3. CASE items # <<>>
    <3>1. /\ pending' = pending - 1 /\ items' = SubSeq(items, 2, Len(items))
          /\ link' = DelInit(link, items[1]) /\ ppc[d] = "drain"
      BY <1>9, <2>3, PopIs
    <3>2. Len(items') = Len(items) - 1
      BY <1>t, <2>3, <3>1, Rest
    <3>3. Ring /\ SlotsOnce
      BY <3>1, FirstIsHead DEF SlotsApart
    <3>4. Ring'
      BY <1>t, <2>3, <3>1, <3>3, RingPop
    <3> QED
      BY <1>t, <1>e, <1>f, <2>1, <3>1, <3>2, <3>4 DEF PendingExact
  <2> QED
    BY <2>2, <2>3
<1>10. ASSUME \/ WaitReturns \/ (\E f \in Flushers : Flush(f))
              \/ (\E d \in Printers : PrintNode(d)) \/ UNCHANGED vars
       PROVE  PendingExact'
  <2>1. UNCHANGED <<pending, items, link, once, pc>>
    BY <1>10 DEF WaitReturns, Flush, PrintNode, queueVars, saveVars, vars
  <2>2. Underway' = Underway /\ Rejected' = Rejected
    BY <2>1 DEF Underway, Rejected
  <2> QED
    BY <1>1, <2>1, <2>2
<1> QED
  BY <1>2, <1>3, <1>4, <1>5, <1>6, <1>7, <1>8, <1>9, <1>10 DEF Next, InSave

LEMMA QueueStep == Base /\ Queue /\ [Next]_vars => Queue'
<1> SUFFICES ASSUME Base, Queue, [Next]_vars PROVE Queue'
  OBVIOUS
<1>1. CASE covered'
  BY <1>1 DEF Queue, PendingExact
<1>2. CASE ~covered'
  BY <1>2, CoveredStays, SlotsApartStep, PendingExactStep DEF Queue
<1> QED
  BY <1>1, <1>2

LEMMA QueueInductive == Spec => [](Base /\ Queue)
BY InitBase, BaseStep, InitQueue, QueueStep, PTL DEF Spec

(* Every variable keeps to its type, also after a slot was covered, whatever the
   links of the list have become. *)
THEOREM TypeCorrect == Spec => []TypeOK
<1>1. Base => TypeOK
  BY DEF Base
<1> QED
  BY <1>1, QueueInductive, PTL

(* Until a slot is covered the list leads through the queued slots, and the
   pending counter is never off by one, whoever saves, prints and flushes: it
   neither leaks nor underflows, and the queue stays below the pool. *)
THEOREM PendingExactHolds == Spec => []PendingExact
<1>1. Queue => PendingExact
  BY DEF Queue
<1> QED
  BY <1>1, QueueInductive, PTL

-----------------------------------------------------------------------------
(* Until a slot is covered, lines are neither lost nor printed twice, and keep
   their order. *)
Began(p) == pc[p] \in {"init", "count", "claim", "write", "add"}

(* A save is accepted once its slot is queued, and then it is in one place. *)
Waiting == {text[items[k]] : k \in 1..Len(items)}
InHand == {text[node[d]] : d \in InPrint}

TextsApart ==
  /\ \A p \in Producers : pc[p] = "add" => text[slot[p]] = <<p, saves[p]>>
  /\ \A p \in Producers : Began(p) => <<p, saves[p]>> \notin accepted
  /\ \A s \in accepted : s[2] <= saves[s[1]]
  /\ accepted = Done \cup Waiting \cup InHand
  /\ \A j, k \in 1..Len(items) : text[items[j]] = text[items[k]] => j = k
  /\ \A d, e \in InPrint : text[node[d]] = text[node[e]] => d = e
  /\ Waiting \cap InHand = {}
  /\ Done \cap (Waiting \cup InHand) = {}
  /\ IsFiniteSet(Done) /\ Len(printed) = Cardinality(Done)

(* What has left the queue was saved before what is in it. *)
Before(s, t) == s[1] = t[1] => s[2] < t[2]

InOrder ==
  /\ \A j, k \in 1..Len(items) : j < k => Before(text[items[j]], text[items[k]])
  /\ \A s \in Done \cup InHand, t \in Waiting : Before(s, t)
  /\ \A d \in InPrint, i \in 1..Len(printed) :
       printed[i].by = d => Before(printed[i].save, text[node[d]])
  /\ \A i, j \in 1..Len(printed) :
       i < j /\ printed[i].by = printed[j].by => Before(printed[i].save, printed[j].save)

Lines == TextsApart /\ InOrder
Whole == SlotsApart /\ Lines
LineInv == ~covered => Lines

LEMMA InitLineInv == Init => LineInv
<1> SUFFICES ASSUME Init PROVE Lines
  BY DEF LineInv
<1> USE PoolAssumption DEF Init
<1>1. /\ InPrint = {} /\ Done = {} /\ Waiting = {} /\ InHand = {}
      /\ \A p \in Producers : ~Began(p) /\ pc[p] # "add"
  BY DEF InPrint, Done, Waiting, InHand, Began, ToSet
<1>2. InOrder
  BY <1>1 DEF InOrder
<1>3. TextsApart
  BY <1>1, FS_EmptySet DEF TextsApart
<1> QED
  BY <1>2, <1>3 DEF Lines

LEMMA WholeInitDone ==
  ASSUME Base, NEW p \in Producers, InitDone(p)
  PROVE  Lines'
<1>1. once # "success" /\ \A q \in Producers : pc[q] = "init" => q = p
  BY DEF InitDone, At, Base, BeforeSuccess
<1>2. /\ items' = <<>> /\ printed' = <<>> /\ accepted' = {}
      /\ pc' = [pc EXCEPT ![p] = "count"] /\ ppc' = [ppc EXCEPT ![Consumer] = "idle"]
  BY <1>1 DEF InitDone, At, AsyncInit, Base, BeforeSuccess
<1>3. pc \in [Producers -> SavePlaces] /\ \A q \in Producers : pc[q] \in {"idle", "init"}
  BY <1>1 DEF Base, TypeOK, SavePlaces, BeforeSuccess
<1>4. InPrint' = {}
  BY <1>1, <1>2 DEF Base, BeforeSuccess, InPrint, TypeOK
<1>5. Filling' = {} /\ \A q \in Producers : pc'[q] # "add"
  BY <1>2, <1>3 DEF Filling
<1>6. Done' = {} /\ Waiting' = {} /\ InHand' = {}
  BY <1>2, <1>4 DEF Done, Waiting, InHand, ToSet
<1>7. InOrder'
  BY <1>2, <1>4, <1>5, <1>6 DEF InOrder
<1>8. TextsApart'
  BY <1>2, <1>4, <1>5, <1>6, FS_EmptySet DEF TextsApart
<1> QED
  BY <1>7, <1>8 DEF Lines

(* A step that touches no slot, queue, printer or accepted line: it may begin a
   save or move a producer that is not filling a slot. *)
LEMMA WholeQuiet ==
  ASSUME Base, Whole, UNCHANGED <<items, text, slot, ppc, node, printed, accepted>>,
         Filling' = Filling,
         \A p \in Producers : pc'[p] = "add" => pc[p] = "add" /\ saves'[p] = saves[p],
         \A p \in Producers : saves'[p] >= saves[p],
         \A p \in Producers : Began(p)' => <<p, saves'[p]>> \notin accepted,
         \A p \in Producers : saves'[p] \in 0..MaxSaves
  PROVE  Lines'
<1>1. InPrint' = InPrint /\ Done' = Done /\ Waiting' = Waiting
  BY DEF InPrint, Done, Waiting
<1>2. InHand' = InHand
  BY <1>1 DEF InHand
<1>4. \A s \in accepted : s[2] <= saves'[s[1]]
  BY PoolAssumption DEF Whole, Lines, TextsApart, Base, TypeOK, Saves
<1>5. TextsApart'
  BY <1>1, <1>2, <1>4 DEF Whole, Lines, TextsApart
<1>6. InOrder'
  BY <1>1, <1>2 DEF Whole, Lines, InOrder
<1> QED
  BY <1>5, <1>6 DEF Lines

LEMMA WholeClaim ==
  ASSUME Base, Whole, NEW p \in Producers, Claim(p)
  PROVE  Lines'
<1>1. /\ pc[p] = "claim" /\ pc' = [pc EXCEPT ![p] = "write"]
      /\ \E new : slot' = [slot EXCEPT ![p] = new]
      /\ UNCHANGED <<items, text, saves, ppc, node, printed, accepted>>
  BY DEF Claim, At, printVars
<1>2. pc \in [Producers -> SavePlaces] /\ slot \in [Producers -> Slots]
  BY DEF Base, TypeOK, SavePlaces
<1>3. InPrint' = InPrint /\ Done' = Done /\ Waiting' = Waiting
  BY <1>1 DEF InPrint, Done, Waiting
<1>4. InHand' = InHand
  BY <1>1, <1>3 DEF InHand
<1>5. \A q \in Producers : /\ pc'[q] = "add" => pc[q] = "add" /\ slot'[q] = slot[q]
                           /\ Began(q)' => Began(q)
  BY <1>1, <1>2 DEF Began
<1>6. TextsApart'
  BY <1>1, <1>3, <1>4, <1>5 DEF Whole, Lines, TextsApart
<1>7. InOrder'
  BY <1>1, <1>3, <1>4 DEF Whole, Lines, InOrder
<1> QED
  BY <1>6, <1>7 DEF Lines

LEMMA WholeWrite ==
  ASSUME Base, Whole, ~covered, NEW p \in Producers, Write(p)
  PROVE  Lines'
<1>1. /\ pc[p] = "write" /\ pc' = [pc EXCEPT ![p] = "add"]
      /\ text' = [text EXCEPT ![slot[p]] = <<p, saves[p]>>]
      /\ UNCHANGED <<items, slot, saves, ppc, node, printed, accepted>>
  BY DEF Write, At, printVars, Contents
<1>2. /\ pc \in [Producers -> SavePlaces] /\ slot \in [Producers -> Slots]
      /\ text \in [Slots -> Saves \cup {None}]
      /\ \A k \in 1..Len(items) : items[k] \in Slots
      /\ \A d \in InPrint : node[d] \in Slots
  BY DEF Base, TypeOK, SavePlaces, InPrint
<1>3. InPrint' = InPrint /\ Done' = Done /\ Filling' = Filling /\ p \in Filling
  BY <1>1, <1>2 DEF InPrint, Done, Filling
<1>4. /\ \A k \in 1..Len(items) : text'[items[k]] = text[items[k]]
      /\ \A d \in InPrint : text'[node[d]] = text[node[d]]
      /\ \A q \in Producers \ {p} : pc[q] = "add" => text'[slot[q]] = text[slot[q]]
      /\ text'[slot[p]] = <<p, saves[p]>>
  BY <1>1, <1>2, <1>3 DEF Whole, SlotsApart, Filling
<1>5. Waiting' = Waiting /\ InHand' = InHand
  BY <1>1, <1>3, <1>4 DEF Waiting, InHand
<1>7. \A q \in Producers : /\ Began(q)' => Began(q)
                           /\ pc'[q] = "add" => q = p \/ pc[q] = "add"
  BY <1>1, <1>2 DEF Began
<1>8. TextsApart'
  <2>1. \A q \in Producers : pc'[q] = "add" => text'[slot[q]] = <<q, saves[q]>>
    BY <1>4, <1>7 DEF Whole, Lines, TextsApart
  <2>2. \A q \in Producers : Began(q)' => <<q, saves[q]>> \notin accepted
    BY <1>7 DEF Whole, Lines, TextsApart
  <2>3. /\ \A j, k \in 1..Len(items) : text'[items[j]] = text'[items[k]] => j = k
        /\ \A d, e \in InPrint : text'[node[d]] = text'[node[e]] => d = e
    BY <1>4 DEF Whole, Lines, TextsApart
  <2>4. /\ \A s \in accepted : s[2] <= saves[s[1]]
        /\ accepted = Done' \cup Waiting' \cup InHand'
        /\ Waiting' \cap InHand' = {} /\ Done' \cap (Waiting' \cup InHand') = {}
        /\ IsFiniteSet(Done') /\ Len(printed) = Cardinality(Done')
    BY <1>3, <1>5 DEF Whole, Lines, TextsApart
  <2>5. \A q \in Producers : (pc'[q] = "add" => text'[slot'[q]] = <<q, saves'[q]>>)
                            /\ (Began(q)' => <<q, saves'[q]>> \notin accepted')
    BY <1>1, <2>1, <2>2
  <2>6. \A s \in accepted' : s[2] <= saves'[s[1]]
    BY <1>1, <2>4
  <2>7. /\ \A j, k \in 1..Len(items') : text'[items'[j]] = text'[items'[k]] => j = k
        /\ \A d, e \in InPrint' : text'[node'[d]] = text'[node'[e]] => d = e
    BY <1>1, <1>3, <2>3
  <2> QED
    BY <1>1, <2>4, <2>5, <2>6, <2>7 DEF TextsApart
<1>9. InOrder'
  BY <1>1, <1>3, <1>4, <1>5 DEF Whole, Lines, InOrder
<1> QED
  BY <1>8, <1>9 DEF Lines

LEMMA WholeAdd ==
  ASSUME Base, Whole, NEW p \in Producers, Add(p)
  PROVE  Lines'
<1> DEFINE save == <<p, saves[p]>>
           last == Len(items) + 1
<1>1. /\ pc[p] = "add" /\ pc' = [pc EXCEPT ![p] = "signal"]
      /\ items' = Append(items, slot[p]) /\ accepted' = accepted \cup {save}
      /\ UNCHANGED <<text, slot, saves, ppc, node, printed>>
  BY DEF Add, At, printVars
<1>2. /\ pc \in [Producers -> SavePlaces] /\ slot \in [Producers -> Slots] /\ items \in Seq(Slots)
      /\ accepted \subseteq Saves /\ saves[p] \in Nat
  BY PoolAssumption DEF Base, TypeOK, SavePlaces
<1>3. InPrint' = InPrint /\ Done' = Done /\ InHand' = InHand
  BY <1>1 DEF InPrint, Done, InHand
<1>4. Filling' = Filling \ {p} /\ p \in Filling
  BY <1>1, <1>2 DEF Filling
<1>5. /\ Len(items) \in Nat /\ Len(items') = last /\ items'[last] = slot[p]
      /\ \A k \in 1..Len(items) : items'[k] = items[k]
      /\ 1..Len(items') = 1..Len(items) \cup {last} /\ last \notin 1..Len(items)
  BY <1>1, <1>2
<1>6. text[slot[p]] = save /\ save \notin accepted
  BY <1>1 DEF Whole, Lines, TextsApart, Began
<1>7. Waiting' = Waiting \cup {save}
  BY <1>1, <1>5, <1>6 DEF Waiting
<1>8. \A s \in accepted : Before(s, save)
  <2> SUFFICES ASSUME NEW s \in accepted, s[1] = p PROVE s[2] < saves[p]
    BY DEF Before
  <2>1. s = <<p, s[2]>> /\ s[2] \in Nat
    BY <1>2, PoolAssumption DEF Saves
  <2>2. s[2] <= saves[p] /\ s[2] # saves[p]
    BY <1>6, <2>1 DEF Whole, Lines, TextsApart
  <2> QED
    BY <1>2, <2>1, <2>2
<1> HIDE DEF save, last
<1>10. TextsApart'
  <2>1. \A q \in Producers : pc'[q] = "add" => text[slot[q]] = <<q, saves[q]>>
    BY <1>1, <1>2 DEF Whole, Lines, TextsApart
  <2>2. \A q \in Producers : Began(q)' => <<q, saves[q]>> \notin accepted'
    <3> SUFFICES ASSUME NEW q \in Producers, Began(q)' PROVE <<q, saves[q]>> \notin accepted'
      OBVIOUS
    <3>1. q # p /\ Began(q)
      BY <1>1, <1>2 DEF Began
    <3> QED
      BY <1>1, <3>1 DEF Whole, Lines, TextsApart, save
  <2>3. \A s \in accepted' : s[2] <= saves[s[1]]
    <3>1. save[2] <= saves[save[1]]
      BY <1>2 DEF save
    <3> QED
      BY <1>1, <3>1 DEF Whole, Lines, TextsApart
  <2>4. \A k \in 1..Len(items) : text[items[k]] # save
    BY <1>6 DEF Whole, Lines, TextsApart, Waiting
  <2>5. \A j, k \in 1..Len(items') : text[items'[j]] = text[items'[k]] => j = k
    BY <1>5, <1>6, <2>4 DEF Whole, Lines, TextsApart
  <2>6. /\ accepted' = Done' \cup Waiting' \cup InHand'
        /\ Waiting' \cap InHand' = {} /\ Done' \cap (Waiting' \cup InHand') = {}
        /\ IsFiniteSet(Done') /\ Len(printed) = Cardinality(Done')
    BY <1>1, <1>3, <1>6, <1>7 DEF Whole, Lines, TextsApart
  <2>7. \A d, e \in InPrint : text[node[d]] = text[node[e]] => d = e
    BY DEF Whole, Lines, TextsApart
  <2> QED
    BY <1>1, <1>3, <2>1, <2>2, <2>3, <2>5, <2>6, <2>7 DEF TextsApart
<1>11. InOrder'
  <2>1. \A j \in 1..Len(items) : Before(text[items[j]], save)
    BY <1>8 DEF Whole, Lines, TextsApart, Waiting
  <2>2. \A j, k \in 1..Len(items') : j < k => Before(text[items'[j]], text[items'[k]])
    BY <1>5, <1>6, <2>1 DEF Whole, Lines, InOrder, last
  <2>3. \A s \in Done \cup InHand, t \in Waiting' : Before(s, t)
    BY <1>7, <1>8 DEF Whole, Lines, InOrder, TextsApart
  <2>4. /\ \A d \in InPrint, i \in 1..Len(printed) :
             printed[i].by = d => Before(printed[i].save, text[node[d]])
        /\ \A i, j \in 1..Len(printed) :
             i < j /\ printed[i].by = printed[j].by => Before(printed[i].save, printed[j].save)
    BY <1>1 DEF Whole, Lines, InOrder
  <2> QED
    BY <1>1, <1>3, <2>2, <2>3, <2>4 DEF InOrder
<1> QED
  BY <1>10, <1>11 DEF Lines

LEMMA WholePop ==
  ASSUME Base, Whole, PendingExact, ~covered, NEW d \in Printers, PopStep(d), items # <<>>
  PROVE  Lines'
<1> DEFINE head == items[1]
<1>1. /\ ppc[d] = "drain" /\ ppc' = [ppc EXCEPT ![d] = "print"]
      /\ items' = SubSeq(items, 2, Len(items)) /\ node' = [node EXCEPT ![d] = head]
      /\ UNCHANGED <<text, pc, slot, saves, printed, accepted>>
  BY PopIs DEF PopStep, saveVars
<1>2. /\ ppc \in [Printers -> {"off", "idle", "drain", "print"}] /\ node \in [Printers -> Slots]
      /\ items \in Seq(Slots)
  BY DEF Base, TypeOK
<1>3. /\ Len(items) \in Nat /\ 1 \in 1..Len(items) /\ Len(items') = Len(items) - 1
      /\ \A k \in 1..Len(items') : items'[k] = items[k + 1] /\ k + 1 \in 1..Len(items)
      /\ \A k \in 1..Len(items) : k = 1 \/ (k - 1 \in 1..Len(items') /\ items[k] = items'[k - 1])
  BY <1>1, <1>2, Rest
<1> HIDE DEF head
<1>4. InPrint' = InPrint \cup {d} /\ d \notin InPrint
  BY <1>1, <1>2 DEF InPrint
<1>5. node'[d] = head /\ \A e \in InPrint : node'[e] = node[e]
  BY <1>1, <1>2, <1>3, <1>4 DEF InPrint
<1>6. Done' = Done /\ Filling' = Filling
  BY <1>1 DEF Done, Filling
<1>7. Waiting = Waiting' \cup {text[head]}
  <2>1. ASSUME NEW s \in Waiting PROVE s \in Waiting' \cup {text[head]}
    <3>1. PICK k \in 1..Len(items) : s = text[items[k]]
      BY DEF Waiting
    <3>2. CASE k = 1
      BY <3>1, <3>2 DEF head
    <3>3. CASE k # 1
      BY <1>1, <1>3, <3>1, <3>3 DEF Waiting
    <3> QED
      BY <3>2, <3>3
  <2>2. ASSUME NEW s \in Waiting' PROVE s \in Waiting
    BY <1>1, <1>3, <2>2 DEF Waiting
  <2>3. text[head] \in Waiting
    BY <1>3 DEF Waiting, head
  <2> QED
    BY <2>1, <2>2, <2>3
<1>8. text[head] \notin Waiting'
  <2> SUFFICES ASSUME NEW k \in 1..Len(items'), text[items'[k]] = text[head] PROVE FALSE
    BY <1>1 DEF Waiting
  <2>1. k + 1 = 1
    BY <1>3 DEF Whole, Lines, TextsApart, head
  <2> QED
    BY <1>3, <2>1
<1>9. InHand' = InHand \cup {text[head]}
  BY <1>1, <1>4, <1>5 DEF InHand
<1>10. text[head] \notin InHand
  BY <1>7 DEF Whole, Lines, TextsApart
<1>12. TextsApart'
  <2>1. \A j, k \in 1..Len(items') : text[items'[j]] = text[items'[k]] => j = k
    <3> SUFFICES ASSUME NEW j \in 1..Len(items'), NEW k \in 1..Len(items'), text[items'[j]] = text[items'[k]]
                 PROVE  j = k
      OBVIOUS
    <3>1. \A a, b \in 1..Len(items) : text[items[a]] = text[items[b]] => a = b
      BY DEF Whole, Lines, TextsApart
    <3>2. j + 1 = k + 1
      BY <1>3, <3>1
    <3> QED
      BY <1>3, <3>2
  <2>2. \A e \in InPrint : text[node[e]] # text[head]
    BY <1>10 DEF InHand
  <2>3. \A e, f \in InPrint' : text[node'[e]] = text[node'[f]] => e = f
    BY <1>4, <1>5, <2>2 DEF Whole, Lines, TextsApart
  <2>4. /\ accepted = Done' \cup Waiting' \cup InHand'
        /\ Waiting' \cap InHand' = {} /\ Done' \cap (Waiting' \cup InHand') = {}
        /\ IsFiniteSet(Done') /\ Len(printed) = Cardinality(Done')
    BY <1>6, <1>7, <1>8, <1>9 DEF Whole, Lines, TextsApart
  <2>5. /\ \A p \in Producers : pc[p] = "add" => text[slot[p]] = <<p, saves[p]>>
        /\ \A p \in Producers : Began(p) => <<p, saves[p]>> \notin accepted
        /\ \A s \in accepted : s[2] <= saves[s[1]]
    BY DEF Whole, Lines, TextsApart
  <2> QED
    BY <1>1, <2>1, <2>3, <2>4, <2>5 DEF TextsApart, Began
<1>13. InOrder'
  <2>1. \A j, k \in 1..Len(items') : j < k => Before(text[items'[j]], text[items'[k]])
    BY <1>3 DEF Whole, Lines, InOrder
  <2>2. \A t \in Waiting' : Before(text[head], t)
    <3> SUFFICES ASSUME NEW k \in 1..Len(items') PROVE Before(text[head], text[items'[k]])
      BY <1>1 DEF Waiting
    <3>1. 1 < k + 1
      BY <1>3
    <3> QED
      BY <1>3, <3>1 DEF Whole, Lines, InOrder, head
  <2>3. \A s \in Done' \cup InHand', t \in Waiting' : Before(s, t)
    BY <1>6, <1>7, <1>9, <2>2 DEF Whole, Lines, InOrder
  <2>4. \A e \in InPrint', i \in 1..Len(printed) :
          printed[i].by = e => Before(printed[i].save, text[node'[e]])
    <3> SUFFICES ASSUME NEW e \in InPrint', NEW i \in 1..Len(printed), printed[i].by = e
                 PROVE  Before(printed[i].save, text[node'[e]])
      OBVIOUS
    <3>1. CASE e = d
      <4>1. printed[i].save \in Done
        BY DEF Done, ToSet, Base, TypeOK
      <4> QED
        BY <1>5, <1>7, <3>1, <4>1 DEF Whole, Lines, InOrder
    <3>2. CASE e # d
      BY <1>4, <1>5, <3>2 DEF Whole, Lines, InOrder
    <3> QED
      BY <3>1, <3>2
  <2>5. \A i, j \in 1..Len(printed) :
          i < j /\ printed[i].by = printed[j].by => Before(printed[i].save, printed[j].save)
    BY DEF Whole, Lines, InOrder
  <2> QED
    BY <1>1, <2>1, <2>3, <2>4, <2>5 DEF InOrder
<1> QED
  BY <1>12, <1>13 DEF Lines

LEMMA WholePrint ==
  ASSUME Base, Whole, ~covered, NEW d \in Printers, PrintNode(d)
  PROVE  Lines'
<1> DEFINE line == [save |-> text[node[d]], by |-> d]
           last == Len(printed) + 1
<1>1. /\ ppc[d] = "print" /\ ppc' = [ppc EXCEPT ![d] = "drain"]
      /\ printed' = Append(printed, line)
      /\ UNCHANGED <<items, text, pc, slot, saves, node, accepted>>
  BY DEF PrintNode, PrinterAt, queueVars, saveVars, Contents
<1>2. /\ ppc \in [Printers -> {"off", "idle", "drain", "print"}]
      /\ printed \in Seq([save : Saves \cup {None}, by : Printers])
      /\ text[node[d]] \in Saves \cup {None}
  BY DEF Base, TypeOK
<1>3. InPrint' = InPrint \ {d} /\ d \in InPrint
  BY <1>1, <1>2 DEF InPrint
<1>4. Filling' = Filling /\ Waiting' = Waiting
  BY <1>1 DEF Filling, Waiting
<1>5. /\ Len(printed) \in Nat /\ Len(printed') = last /\ printed'[last] = line
      /\ \A k \in 1..Len(printed) : printed'[k] = printed[k]
      /\ 1..Len(printed') = 1..Len(printed) \cup {last} /\ last \notin 1..Len(printed)
  BY <1>1, <1>2
<1>6. line.save = text[node[d]] /\ line.by = d
  OBVIOUS
<1> HIDE DEF line, last
<1>7. Done' = Done \cup {text[node[d]]}
  <2>1. Done = {printed[k].save : k \in 1..Len(printed)}
    BY <1>2 DEF Done, ToSet
  <2>2. printed' \in Seq([save : Saves \cup {None}, by : Printers])
    BY <1>1, <1>2 DEF line
  <2>3. Done' = {printed'[k].save : k \in 1..Len(printed')}
    BY <2>2 DEF Done, ToSet
  <2> QED
    BY <1>5, <1>6, <2>1, <2>3
<1>8. text[node[d]] \in InHand /\ text[node[d]] \notin Done
  BY <1>3 DEF Whole, Lines, TextsApart, InHand
<1>9. InHand' = InHand \ {text[node[d]]}
  BY <1>1, <1>3 DEF Whole, Lines, TextsApart, InHand
<1>11. TextsApart'
  <2>1. IsFiniteSet(Done') /\ Len(printed') = Cardinality(Done')
    <3>1. IsFiniteSet(Done) /\ Len(printed) = Cardinality(Done)
      BY DEF Whole, Lines, TextsApart
    <3>2. /\ IsFiniteSet(Done \cup {text[node[d]]})
          /\ Cardinality(Done \cup {text[node[d]]}) = Cardinality(Done) + 1
      BY <1>8, <3>1, FS_AddElement
    <3> QED
      BY <1>5, <1>7, <3>1, <3>2 DEF last
  <2>2. /\ accepted = Done' \cup Waiting' \cup InHand'
        /\ Waiting' \cap InHand' = {} /\ Done' \cap (Waiting' \cup InHand') = {}
    BY <1>4, <1>7, <1>8, <1>9 DEF Whole, Lines, TextsApart
  <2>3. /\ \A p \in Producers : pc[p] = "add" => text[slot[p]] = <<p, saves[p]>>
        /\ \A p \in Producers : Began(p) => <<p, saves[p]>> \notin accepted
        /\ \A s \in accepted : s[2] <= saves[s[1]]
        /\ \A j, k \in 1..Len(items) : text[items[j]] = text[items[k]] => j = k
        /\ \A e, f \in InPrint' : text[node[e]] = text[node[f]] => e = f
    BY <1>3 DEF Whole, Lines, TextsApart
  <2> QED
    BY <1>1, <2>1, <2>2, <2>3 DEF TextsApart, Began
<1>12. InOrder'
  <2>1. \A s \in Done' \cup InHand', t \in Waiting' : Before(s, t)
    BY <1>4, <1>7, <1>8, <1>9 DEF Whole, Lines, InOrder
  <2>2. \A e \in InPrint', i \in 1..Len(printed') :
          printed'[i].by = e => Before(printed'[i].save, text[node[e]])
    BY <1>3, <1>5, <1>6 DEF Whole, Lines, InOrder
  <2>3. ASSUME NEW i \in 1..Len(printed'), NEW j \in 1..Len(printed'), i < j,
               printed'[i].by = printed'[j].by
        PROVE  Before(printed'[i].save, printed'[j].save)
    <3>1. i \in 1..Len(printed)
      BY <1>5, <2>3 DEF last
    <3>2. CASE j = last
      BY <1>3, <1>5, <1>6, <2>3, <3>1, <3>2 DEF Whole, Lines, InOrder
    <3>3. CASE j # last
      BY <1>5, <2>3, <3>1, <3>3 DEF Whole, Lines, InOrder, Before
    <3> QED
      BY <3>2, <3>3
  <2>4. \A i, j \in 1..Len(printed') :
          i < j /\ printed'[i].by = printed'[j].by => Before(printed'[i].save, printed'[j].save)
    BY <2>3
  <2>5. \A j, k \in 1..Len(items) : j < k => Before(text[items[j]], text[items[k]])
    BY DEF Whole, Lines, InOrder
  <2> QED
    BY <1>1, <2>1, <2>2, <2>4, <2>5 DEF InOrder
<1> QED
  BY <1>11, <1>12 DEF Lines

LEMMA LineInvStep == Base /\ Queue /\ LineInv /\ [Next]_vars => LineInv'
<1> SUFFICES ASSUME Base, Queue, LineInv, [Next]_vars, ~covered' PROVE Lines'
  BY DEF LineInv
<1>a. Base /\ TypeOK
  BY DEF Base
<1>b. Whole /\ ~covered /\ PendingExact
  BY CoveredStays DEF Whole, Queue, LineInv
<1>c. /\ pc \in [Producers -> SavePlaces]
      /\ \A p \in Producers : saves[p] \in 0..MaxSaves /\ saves'[p] \in 0..MaxSaves
  BY <1>a, TypeStep DEF TypeOK, SavePlaces
(* What WholeQuiet asks of a producer that moves without beginning a save. *)
<1>d. ASSUME NEW p \in Producers, NEW there \in SavePlaces, pc' = [pc EXCEPT ![p] = there],
             pc[p] \notin {"write", "add"}, there \notin {"write", "add"},
             Began(p)' => Began(p),
             UNCHANGED <<items, text, slot, saves, ppc, node, printed, accepted>>
      PROVE  Lines'
  <2>1. Filling' = Filling /\ \A q \in Producers : pc'[q] = "add" => pc[q] = "add"
    BY <1>c, <1>d DEF Filling
  <2>2. \A q \in Producers : Began(q)' => Began(q)
    BY <1>c, <1>d DEF Began
  <2>3. \A q \in Producers : /\ saves'[q] = saves[q] /\ saves'[q] >= saves[q]
                             /\ Began(q)' => <<q, saves'[q]>> \notin accepted
    BY <1>d, <1>b, <1>c, <2>2, PoolAssumption DEF Whole, Lines, TextsApart
  <2> QED
    BY <1>a, <1>b, <1>c, <1>d, <2>1, <2>3, WholeQuiet
<1>1. CASE UNCHANGED vars
  <2>1. /\ UNCHANGED <<items, text, slot, ppc, node, printed, accepted>>
        /\ pc' = pc /\ saves' = saves
    BY <1>1 DEF vars, queueVars, saveVars, printVars
  <2>2. Filling' = Filling /\ \A q \in Producers : Began(q)' => Began(q)
    BY <2>1 DEF Filling, Began
  <2>3. \A q \in Producers : /\ saves'[q] = saves[q] /\ saves'[q] >= saves[q]
                             /\ Began(q)' => <<q, saves'[q]>> \notin accepted
    BY <2>1, <1>b, <1>c, <2>2, PoolAssumption DEF Whole, Lines, TextsApart
  <2> QED
    BY <1>a, <1>b, <1>c, <2>1, <2>2, <2>3, WholeQuiet
<1>2. ASSUME NEW p \in Producers, BeginSave(p) PROVE Lines'
  <2>1. /\ UNCHANGED <<items, text, slot, ppc, node, printed, accepted>>
        /\ pc[p] = "idle" /\ saves' = [saves EXCEPT ![p] = @ + 1]
        /\ \A q \in Producers \ {p} : pc'[q] = pc[q]
        /\ pc'[p] \in {"init", "count", "idle"}
    BY <1>2, <1>c DEF BeginSave, printVars
  <2>2. /\ saves'[p] = saves[p] + 1
        /\ \A q \in Producers \ {p} : saves'[q] = saves[q]
    BY <1>a, <2>1 DEF TypeOK
  <2>3. Filling' = Filling /\ \A q \in Producers : pc'[q] = "add" => pc[q] = "add" /\ q # p
    BY <2>1 DEF Filling
  <2>4. \A q \in Producers : saves'[q] >= saves[q]
    BY <1>c, <2>2
  <2>5. <<p, saves'[p]>> \notin accepted
    BY <1>b, <1>c, <2>1, <2>2 DEF Whole, Lines, TextsApart
  <2>6. \A q \in Producers : Began(q)' => <<q, saves'[q]>> \notin accepted
    BY <1>b, <2>1, <2>2, <2>5 DEF Whole, Lines, TextsApart, Began
  <2> QED
    BY <1>a, <1>b, <1>c, <2>1, <2>2, <2>3, <2>4, <2>6, WholeQuiet
<1>3. ASSUME NEW p \in Producers, InitDone(p) PROVE Lines'
  BY <1>3, <1>a, WholeInitDone
<1>4. ASSUME NEW p \in Producers, InitFails(p) \/ Count(p) \/ Uncount(p) \/ Signal(p) PROVE Lines'
  <2>1. UNCHANGED <<items, text, slot, saves, ppc, node, printed, accepted>>
    BY <1>4 DEF InitFails, Count, Uncount, Signal, queueVars, printVars
  <2>2. PICK there \in {"idle", "claim", "uncount"} : pc' = [pc EXCEPT ![p] = there]
    BY <1>4 DEF InitFails, Count, Uncount, Signal, At
  <2>3. pc[p] \notin {"write", "add"} /\ (there = "claim" => pc[p] = "count")
    BY <1>4, <2>2, <1>c DEF InitFails, Count, Uncount, Signal, At, SavePlaces
  <2>4. Began(p)' => Began(p)
    BY <2>2, <2>3, <1>c DEF Began
  <2> QED
    BY <1>d, <2>1, <2>2, <2>3, <2>4 DEF SavePlaces
<1>5. ASSUME NEW p \in Producers, Claim(p) PROVE Lines'
  BY <1>5, <1>a, <1>b, WholeClaim
<1>6. ASSUME NEW p \in Producers, Write(p) PROVE Lines'
  BY <1>6, <1>a, <1>b, WholeWrite DEF Write
<1>7. ASSUME NEW p \in Producers, Add(p) PROVE Lines'
  BY <1>7, <1>a, <1>b, WholeAdd DEF Add
<1>8. ASSUME NEW d \in Printers, \/ PrinterAt(d, "idle", "drain") \/ PrinterAt(d, "drain", "idle"),
             UNCHANGED <<items, text, pc, slot, saves, node, printed, accepted>>
      PROVE  Lines'
  <2>1. InPrint' = InPrint
    BY <1>8, <1>a DEF PrinterAt, InPrint, TypeOK
  <2>2. Done' = Done /\ Waiting' = Waiting /\ Filling' = Filling /\ InHand' = InHand
    BY <1>8, <2>1 DEF Done, Waiting, Filling, InHand
  <2>4. TextsApart'
    BY <1>8, <1>b, <2>1, <2>2 DEF Whole, Lines, TextsApart, Began
  <2>5. InOrder'
    BY <1>8, <1>b, <2>1, <2>2 DEF Whole, Lines, InOrder
  <2> QED
    BY <2>4, <2>5 DEF Lines
<1>9. WaitReturns \/ (\E f \in Flushers : Flush(f)) => Lines'
  BY <1>8 DEF WaitReturns, Flush, queueVars, saveVars, Printers
<1>10. ASSUME NEW d \in Printers, PopStep(d) PROVE Lines'
  <2>1. CASE items = <<>>
    BY <1>8, <1>10, <1>b, <2>1, PopIs DEF PopStep, PrinterAt, saveVars
  <2>2. CASE items # <<>>
    BY <1>10, <1>a, <1>b, <2>2, WholePop DEF PopStep
  <2> QED
    BY <2>1, <2>2
<1>11. ASSUME NEW d \in Printers, PrintNode(d) PROVE Lines'
  BY <1>11, <1>a, <1>b, WholePrint DEF PrintNode, queueVars
<1> QED
  BY <1>1, <1>2, <1>3, <1>4, <1>5, <1>6, <1>7, <1>9, <1>10, <1>11 DEF Next, InSave

LEMMA LinesInductive == Spec => []LineInv
BY InitBase, BaseStep, InitQueue, QueueStep, InitLineInv, LineInvStep, PTL DEF Spec

(* Until a slot is covered, what was queued is printed once or still on its
   way, whoever saves, prints and flushes. *)
THEOREM NothingIsLost == Spec => []NoLossNoDuplicate
<1>1. ASSUME LineInv PROVE NoLossNoDuplicate
  BY <1>1 DEF LineInv, Lines, TextsApart, Waiting, InHand, InPrint, NoLossNoDuplicate
<1> QED
  BY <1>1, LinesInductive, PTL

(* Until a slot is covered, one printer prints the lines of one producer in the
   order they were saved. *)
THEOREM OrderIsKept == Spec => []PrintedInOrder
<1>1. ASSUME LineInv PROVE PrintedInOrder
  BY <1>1 DEF LineInv, Lines, InOrder, Before, PrintedInOrder
<1> QED
  BY <1>1, LinesInductive, PTL
============================================================================
