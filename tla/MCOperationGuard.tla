--------------------------- MODULE MCOperationGuard ---------------------------
(* Three coroutines over three keys: enough for a queue of two behind a holder *)
(* and for every overlap of two key sets, the crossed ones included.            *)
EXTENDS OperationGuard

MCKeys == 1..3
===============================================================================
