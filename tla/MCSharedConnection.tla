-------------------------- MODULE MCSharedConnection --------------------------
(* Values for SharedConnection: calls on two wallets, one of which may owe.      *)
EXTENDS SharedConnection

MCUsers == 1..2

Changes(u, delta, mayOwe, ref) ==
    [kind |-> "change", user |-> u, delta |-> delta, mayOwe |-> mayOwe, ref |-> ref]
Clears(u) == [kind |-> "clear", user |-> u, delta |-> 0, mayOwe |-> FALSE, ref |-> 0]
Notes == [kind |-> "note", user |-> 1, delta |-> 0, mayOwe |-> FALSE, ref |-> 0]

\* Charges, a refund of the first transaction, a reset and an audit row.
MCJobs == {Changes(1, -2, TRUE, 0), Changes(1, 2, FALSE, 1), Changes(2, -1, FALSE, 0),
           Changes(2, 1, FALSE, 0), Clears(1), Notes}

\* A reseller that may owe is charged while the charge of another one is refused.
TwoCharges == {Changes(1, -2, TRUE, 0), Changes(2, -1, FALSE, 0)}
===============================================================================
