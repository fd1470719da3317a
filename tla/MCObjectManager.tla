-------------------------- MODULE MCObjectManager --------------------------
(* A small instance of ObjectManager for TLC. *)
EXTENDS ObjectManager
=============================================================================
