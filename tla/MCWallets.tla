------------------------------- MODULE MCWallets -------------------------------
(* Values for Wallets: a root admin 1, a reseller 2 and its sub-reseller 3.       *)
EXTENDS Wallets

MCUsers == 1..3
MCRoots == {1}
MCPrice == [u \in MCUsers |-> IF u = 3 THEN 2 ELSE 1]
MCParent0 == [u \in MCUsers |-> IF u = 3 THEN 2 ELSE NoUser]
MCMoves == {<<3, NoUser>>, <<3, 2>>}

Charge(u) == [kind |-> "charge", user |-> u, amount |-> 0]
SetTo(u, n) == [kind |-> "set", user |-> u, amount |-> n]
AdjustBy(u, n) == [kind |-> "adjust", user |-> u, amount |-> n]
ClearOf(u) == [kind |-> "clear", user |-> u, amount |-> 0]

\* Both levels pay; money comes in and is taken out; a ledger is reset.
MCRequests == 1..3
AllJobs == [r \in MCRequests |->
               IF r = 1 THEN {SetTo(2, 2), AdjustBy(3, 3), AdjustBy(3, 0)}
               ELSE IF r = 2 THEN {Charge(3)}
               ELSE {Charge(3), Charge(1), SetTo(2, 1), ClearOf(3)}]

\* The square case: two root admins, so neither is charged; of the two admins above the
\* admin 5 only the reseller 3 has a price; no wallet may owe and no ledger is reset.
SquareUsers == 1..5
SquareRoots == {1, 2}
SquarePrice == [u \in SquareUsers |-> IF u = 5 THEN 2 ELSE IF u = 3 THEN 1 ELSE 0]
SquareParent0 == [u \in SquareUsers |-> IF u = 5 THEN 4 ELSE IF u = 4 THEN 3 ELSE NoUser]
SquareRequests == 1..4
SquareJobs == [r \in SquareRequests |->
                  IF r = 1 THEN {SetTo(5, 3), AdjustBy(3, 2)}
                  ELSE IF r = 2 THEN {SetTo(3, 1), AdjustBy(3, 2)}
                  ELSE IF r = 3 THEN {Charge(5)}
                  ELSE {Charge(5), Charge(4), Charge(3)}]

\* A chain of three paying admins and no root admin, as in the tests of the service.
ChainUsers == 2..4
ChainPrice == [u \in ChainUsers |-> 1]
ChainParent0 == [u \in ChainUsers |-> IF u = 2 THEN NoUser ELSE u - 1]
OneCharge == [r \in 1..1 |-> {Charge(4)}]
OneRequest == 1..1

\* One reseller that may owe and already does: 3 with a balance below zero.
DebtUsers == 3..3
DebtPrice == [u \in DebtUsers |-> 1]
DebtParent0 == [u \in DebtUsers |-> NoUser]
DebtRequests == 1..2
DebtJobs == [r \in DebtRequests |-> IF r = 1 THEN {AdjustBy(3, -1)} ELSE {Charge(3)}]
===============================================================================
