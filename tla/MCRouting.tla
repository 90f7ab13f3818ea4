------------------------------- MODULE MCRouting -------------------------------
(* Routing with a client in each of two inbounds. *)
EXTENDS Routing

CONSTANTS r1, u1, u2

TwoUsers == {u1, u2}
TwoInbounds == <<"in1", "in2">>
OneEach == (u1 :> "in1") @@ (u2 :> "in2")
===============================================================================
