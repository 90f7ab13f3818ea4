----------------------------- MODULE AtomicLedger -----------------------------
(***************************************************************************)
(* What the wallet code takes FinanceRepository for: a book per user in    *)
(* which a change is entered together with the balance it leaves, and      *)
(* which a reset empties, both in one step that happens or does not.       *)
(* SharedConnection, with its statements, commits, rollbacks and crashes,  *)
(* implements this module while one coroutine at a time uses the           *)
(* connection; Wallets implements it, its changes being single steps.      *)
(***************************************************************************)
EXTENDS Integers, Sequences

CONSTANT Users

VARIABLES balance,   \* user_wallets.balance
          ledger,    \* wallet_transactions of each user, by id
          nextId     \* the id of the next transaction

vars == <<balance, ledger, nextId>>

Init == /\ balance = [u \in Users |-> 0]
        /\ ledger = [u \in Users |-> <<>>]
        /\ nextId = 1

LastRow(u) == ledger[u][Len(ledger[u])]
Listed(u, id) == \E i \in 1..Len(ledger[u]) : ledger[u][i].id = id

\* A change of u's wallet: one row, which carries on from the balance and may refer
\* only to a row of the same book.
Change(u) ==
    /\ ledger'[u] # <<>>
    /\ ledger' = [ledger EXCEPT ![u] = Append(@, LastRow(u)')]
    /\ LET row == LastRow(u)' IN
          /\ row.id = nextId
          /\ row.after = balance[u] + row.amount
          /\ row.ref # 0 => Listed(u, row.ref)
          /\ balance' = [balance EXCEPT ![u] = row.after]
    /\ nextId' = nextId + 1

\* A reset of u's wallet.
Reset(u) ==
    /\ ledger' = [ledger EXCEPT ![u] = <<>>]
    /\ balance' = [balance EXCEPT ![u] = 0]
    /\ UNCHANGED nextId

Next == \E u \in Users : Change(u) \/ Reset(u)

Spec == Init /\ [][Next]_vars
===============================================================================
