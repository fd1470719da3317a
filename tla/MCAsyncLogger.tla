--------------------------- MODULE MCAsyncLogger ---------------------------
(* Small instances of AsyncLogger for TLC. *)
EXTENDS AsyncLogger

(* The properties are about what comes before a slot is covered, and a covered
   slot stays one: the steps after it are not explored. *)
BoundedNext == Next /\ ~covered

BoundedSpec == Init /\ [][BoundedNext]_vars /\ Fairness
=============================================================================
