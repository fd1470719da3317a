---------------------------- MODULE MCContainers ----------------------------
(* Parts of the library for one thread: the ring buffer, the AVL tree, the
   linked lists, the blobs and the endpoints, with the properties that
   LibraryProofs proves of them and MCLibrary checks. *)
EXTENDS CkFifo, FiniteSets

CONSTANTS Keys, MaxDepth,                    \* of AvlTree
          Heads, Entries,                    \* of LinkedList
          Blobs, Elements, ByteValues, NL, IntValues,   \* of Serialize
          Endpoints, Texts, Addresses, Ports, None    \* of Endpoint, Places and Failed there

\* No key is the number that stands for no node, and a tree may have one at least.
ASSUME KeysAssumption == Keys \subseteq Nat /\ MaxDepth \in Nat \ {0}

\* A list_head is a head of a list or a member of an entry, never both.
ASSUME HeadsAssumption == Heads \cap Entries = {}

\* There are finitely many objects, and lengths are numbers, perhaps negative.
ASSUME BlobsAssumption == IsFiniteSet(Blobs) /\ Elements \subseteq Int

VARIABLES tree, ep,
          link, list, usable, walk,
          blob, heap, faults

AVL == INSTANCE AvlTree
Lists == INSTANCE LinkedList
Proto == INSTANCE Serialize
Points == INSTANCE Endpoint WITH Places <- Endpoints, Failed <- None

\* An address has four bytes, a port sixteen bits, and a text of characters is no error.
ASSUME EndpointsAssumption ==
  /\ Texts \subseteq Seq(Points!Characters) /\ None \notin Seq(Points!Characters)
  /\ Addresses \subseteq [1..4 -> 0..255] /\ \A port \in Ports : port \in Nat /\ port <= 65535

(* The tree is the set of the keys inserted and not removed, its heights are
   exact, its nodes in balance and in order (module AvlTree). *)
BalancedSet == AVL!BalancedSet

(* The links of every usable head are a ring through its entries (module
   LinkedList). *)
ListsAreRings == Lists!ListsAreRings

(* Arrays of blobs are neither lost nor freed twice (module Serialize). *)
ArraysOwnedOnce == Proto!ArraysOwnedOnce

(* The text of an endpoint denotes its address (module Endpoint). *)
TextAndAddressAgree == Points!TextAndAddressAgree
=============================================================================
