------------------------------ MODULE Serializer ------------------------------
(***************************************************************************)
(* What OperationGuardService promises to the services that call it: a     *)
(* caller asks to run its function under a set of keys, waits, runs and    *)
(* leaves, and two functions that run at the same time never share a key.  *)
(* How locks are taken, in which order and who waits where is left to      *)
(* OperationGuard, which implements this module.                           *)
(***************************************************************************)
CONSTANTS Callers,   \* the coroutines that call the guard
          Keys       \* the logical keys an operation can be serialized by

VARIABLES stage,     \* stage[c]: where caller c is: "out", "waiting" or "inside"
          claim      \* claim[c]: the keys c asked for ({} while out)

vars == <<stage, claim>>

Init == /\ stage = [c \in Callers |-> "out"]
        /\ claim = [c \in Callers |-> {}]

\* c asks for the keys in K; without a key there is nothing to wait for.
Ask(c, K) ==
    /\ stage[c] = "out"
    /\ stage' = [stage EXCEPT ![c] = IF K = {} THEN "inside" ELSE "waiting"]
    /\ claim' = [claim EXCEPT ![c] = K]

\* c's function starts: nobody inside has one of its keys.
Admit(c) ==
    /\ stage[c] = "waiting"
    /\ \A d \in Callers : stage[d] = "inside" => claim[d] \cap claim[c] = {}
    /\ stage' = [stage EXCEPT ![c] = "inside"]
    /\ UNCHANGED claim

\* c's function ended, with a result or with an exception.
Depart(c) ==
    /\ stage[c] = "inside"
    /\ stage' = [stage EXCEPT ![c] = "out"]
    /\ claim' = [claim EXCEPT ![c] = {}]

Next == \E c \in Callers : \/ \E K \in SUBSET Keys : Ask(c, K)
                           \/ Admit(c)
                           \/ Depart(c)

Spec == Init /\ [][Next]_vars
===============================================================================
