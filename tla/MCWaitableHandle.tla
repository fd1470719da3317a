-------------------------- MODULE MCWaitableHandle --------------------------
(* Small instances of WaitableHandle for TLC. *)
EXTENDS WaitableHandle

(* The intervals callers use: infinite (INFINITE is -1 as an int), and a
   timeout. *)
Mixed == {-1, 10}
=============================================================================
