-------------------------------- MODULE Wallets --------------------------------
(***************************************************************************)
(* The prepaid wallets of the delegated admins: FinancialService with its  *)
(* FinanceRepository, and the part of AdminProvisioningService that pays   *)
(* for a panel operation and takes the money back when the operation       *)
(* fails.  Requests are coroutines of one event loop; every action below   *)
(* runs from one await to the next.  FinanceRepository.apply_balance_change*)
(* is one step here; SharedConnection looks inside it.                     *)
(*                                                                         *)
(* Locking is OperationGuard, instantiated on the same variables: a user   *)
(* stands for the key "wallet:<user>" of that user's wallet.               *)
(***************************************************************************)
EXTENDS Integers, Sequences

CONSTANTS Users,          \* admins with a wallet: their Telegram ids
          NoUser,         \* no parent admin
          Roots,          \* Settings.admin_ids
          MayOwe,         \* delegated admins with allow_negative_wallet = 1
          Price,          \* Price[u]: what calculate_charge asks u for an operation,
                          \* 0 when u has no price or pays on the consumed basis
          Parent0,        \* Parent0[u]: the parent admin of u at the start
          Moves,          \* <<child, parent>>: changes of parent a root admin may make
          Requests,       \* the coroutines
          Jobs            \* Jobs[r]: what coroutine r may be asked to do

Job == [kind : {"charge", "set", "adjust", "clear"}, user : Users, amount : Int]

ASSUME WalletsAssumption ==
    /\ Users \subseteq Int
    /\ NoUser \notin Users
    /\ Roots \subseteq Users
    /\ MayOwe \subseteq Users
    /\ Price \in [Users -> Nat]
    /\ Parent0 \in [Users -> Users \cup {NoUser}]
    /\ Moves \subseteq Users \X (Users \cup {NoUser})
    /\ Jobs \in [Requests -> SUBSET Job]

VARIABLES phase, need, got, waiters,   \* of OperationGuard
          parent,    \* delegated_admins.parent_user_id
          balance,   \* user_wallets.balance
          ledger,    \* wallet_transactions of each user, by id
          nextId,    \* the id SQLite gives the next transaction (AUTOINCREMENT)
          pc,        \* where the coroutine of each request stands
          job,       \* what it was asked to do
          seen,      \* the balance set_wallet_balance read
          targets,   \* the upstream admins still to be charged, or found so far
          txs,       \* the transactions charge_operation posted for the request
          todo       \* those still to be refunded

guardVars == <<phase, need, got, waiters>>
books == <<balance, ledger, nextId>>
vars == <<guardVars, parent, books, pc, job, seen, targets, txs, todo>>

Guard == INSTANCE OperationGuard WITH Callers <- Requests, Keys <- Users

Entry == [id : Nat, amount : Int, after : Int,
          kind : {"charge", "refund", "manual_set", "manual_adjust"}, ref : Nat]
Tx == [id : Nat, user : Users, amount : Int]
Ended == {"succeeded", "failed"}
Stages == {"new", "planning", "charging", "targeting", "upstream", "panel", "refunding",
           "crediting", "setRead", "setWrite", "adjusting"} \cup Ended

NoJob == [kind |-> "charge", user |-> NoUser, amount |-> 0]

TypeOK == /\ Guard!TypeOK
          /\ parent \in [Users -> Users \cup {NoUser}]
          /\ balance \in [Users -> Int]
          /\ ledger \in [Users -> Seq(Entry)]
          /\ nextId \in Nat \ {0}
          /\ pc \in [Requests -> Stages]
          /\ job \in [Requests -> Job \cup {NoJob}]
          /\ \A r \in Requests : job[r] \in IF pc[r] = "new" THEN {NoJob} ELSE Jobs[r]
          /\ seen \in [Requests -> Int]
          /\ targets \in [Requests -> Seq(Users)]
          /\ txs \in [Requests -> Seq(Tx)]
          /\ todo \in [Requests -> Seq(Tx)]

Init == /\ Guard!Init
        /\ parent = Parent0
        /\ balance = [u \in Users |-> 0]
        /\ ledger = [u \in Users |-> <<>>]
        /\ nextId = 1
        /\ pc = [r \in Requests |-> "new"]
        /\ job = [r \in Requests |-> NoJob]
        /\ seen = [r \in Requests |-> 0]
        /\ targets = [r \in Requests |-> <<>>]
        /\ txs = [r \in Requests |-> <<>>]
        /\ todo = [r \in Requests |-> <<>>]
-------------------------------------------------------------------------------
Owner(r) == job[r].user
Running(r, stage) == pc[r] = stage /\ phase[r] = "running"
GoTo(r, stage) == pc' = [pc EXCEPT ![r] = stage]

\* The coroutine is over.  Inside a guarded function its locks are released.
End(r, outcome) ==
    /\ GoTo(r, outcome)
    /\ IF phase[r] = "running" THEN Guard!Leave(r) ELSE UNCHANGED guardVars

\* apply_balance_change refuses to leave a wallet below zero unless it may owe:
\* whatever the sign of delta.
Allowed(u, delta, mayOwe) == balance[u] + delta >= 0 \/ mayOwe

\* Ids as SQLite gives them to a table without AUTOINCREMENT: one above those still in use.
PostReusingIds(u, delta, kind, ref) ==
    LET Ids == UNION {{ledger[v][i].id : i \in 1..Len(ledger[v])} : v \in Users}
        id == 1 + (IF Ids = {} THEN 0 ELSE CHOOSE n \in Ids : \A m \in Ids : m <= n)
    IN  /\ balance' = [balance EXCEPT ![u] = @ + delta]
        /\ ledger' = [ledger EXCEPT ![u] = Append(@, [id |-> id, amount |-> delta,
                         after |-> balance[u] + delta, kind |-> kind, ref |-> ref])]
        /\ nextId' = nextId + 1

\* What apply_balance_change commits: the new balance and the row that explains it.
Post(u, delta, kind, ref) ==
    /\ balance' = [balance EXCEPT ![u] = @ + delta]
    /\ ledger' = [ledger EXCEPT ![u] = Append(@, [id |-> nextId, amount |-> delta,
                     after |-> balance[u] + delta, kind |-> kind, ref |-> ref])]
    /\ nextId' = nextId + 1

InLedger(tx) == \E i \in 1..Len(ledger[tx.user]) : ledger[tx.user][i].id = tx.id
Refunded(tx) == \E i \in 1..Len(ledger[tx.user]) :
                    /\ ledger[tx.user][i].kind = "refund"
                    /\ ledger[tx.user][i].ref = tx.id
-------------------------------------------------------------------------------
\* set_wallet_balance called outside the guard.
StartSetUnguarded(r) ==
    /\ pc[r] = "new"
    /\ \E j \in Jobs[r] :
          /\ job' = [job EXCEPT ![r] = j]
          /\ \/ /\ j.kind = "charge"
                /\ GoTo(r, "planning")
                /\ UNCHANGED guardVars
             \/ /\ j.kind = "set"
                /\ GoTo(r, "setRead")
                /\ Guard!Enter(r, {})
             \/ /\ j.kind = "adjust"
                /\ GoTo(r, "adjusting")
                /\ Guard!Enter(r, {j.user})
    /\ UNCHANGED <<parent, books, seen, targets, txs, todo>>

\* A handler calls one of the services.  A paid operation first works out which
\* wallets to lock; setting and adjusting a balance lock the one wallet.
Start(r) ==
    /\ pc[r] = "new"
    /\ \E j \in Jobs[r] :
          /\ job' = [job EXCEPT ![r] = j]
          /\ \/ /\ j.kind = "charge"
                /\ GoTo(r, "planning")
                /\ UNCHANGED guardVars
             \/ /\ j.kind = "set"
                /\ GoTo(r, "setRead")
                /\ Guard!Enter(r, {j.user})
             \/ /\ j.kind = "adjust"
                /\ GoTo(r, "adjusting")
                /\ Guard!Enter(r, {j.user})
    /\ UNCHANGED <<parent, books, seen, targets, txs, todo>>

\* A reset that deletes the rows and forgets the balance.
ClearRowsOnly(r) ==
    /\ pc[r] = "new"
    /\ \E j \in Jobs[r] : /\ j.kind = "clear"
                      /\ job' = [job EXCEPT ![r] = j]
                      /\ ledger' = [ledger EXCEPT ![j.user] = <<>>]
    /\ GoTo(r, "succeeded")
    /\ UNCHANGED <<guardVars, parent, balance, nextId, seen, targets, txs, todo>>

\* finance_wallet_reset_apply: clear_wallet_ledger_for_user, under no lock.
Clear(r) ==
    /\ pc[r] = "new"
    /\ \E j \in Jobs[r] :
          /\ j.kind = "clear"
          /\ job' = [job EXCEPT ![r] = j]
          /\ ledger' = [ledger EXCEPT ![j.user] = <<>>]
          /\ balance' = [balance EXCEPT ![j.user] = 0]
    /\ GoTo(r, "succeeded")
    /\ UNCHANGED <<guardVars, parent, nextId, seen, targets, txs, todo>>

\* The event loop at the locks: one step of run_many's acquire loop.
TakeLock(r) ==
    /\ Guard!Acquire(r) \/ Guard!Enqueue(r) \/ Guard!Wake(r)
    /\ UNCHANGED <<parent, books, pc, job, seen, targets, txs, todo>>

\* A root admin gives a delegated admin another parent (or none).
ChangeParent ==
    /\ \E move \in Moves : /\ parent[move[1]] # move[2]
                           /\ parent' = [parent EXCEPT ![move[1]] = move[2]]
    /\ UNCHANGED <<guardVars, books, pc, job, seen, targets, txs, todo>>
-------------------------------------------------------------------------------
\* _upstream_charge_targets: from the actor up along the parents, each row read on
\* its own, stopping at an admin seen already.
Found(r) == {targets[r][i] : i \in 1..Len(targets[r])} \cup {Owner(r)}
Above(r) == IF targets[r] = <<>> THEN parent[Owner(r)]
            ELSE parent[targets[r][Len(targets[r])]]
\* Climbing without a look at whether there is a parent.
CanClimbAnyhow(r) == Owner(r) \notin Roots /\ Above(r) \notin Found(r)

CanClimb(r) == /\ Owner(r) \notin Roots
               /\ Above(r) # NoUser
               /\ Above(r) \notin Found(r)

ClimbOne(r) ==
    /\ pc[r] = "planning" \/ Running(r, "targeting")
    /\ CanClimb(r)
    /\ targets' = [targets EXCEPT ![r] = Append(@, Above(r))]
    /\ UNCHANGED <<guardVars, parent, books, pc, job, seen, txs, todo>>

\* ... and last the root admin, when there is exactly one and it is not among them.
SoleRoot(r) == {u \in Roots \ {Owner(r)} : Roots \ {Owner(r)} = {u}}
LastTarget(r) == IF Owner(r) \in Roots THEN {} ELSE SoleRoot(r) \ Found(r)

\* Only the wallet of the admin who acts is locked.
LockOwnWallet(r) ==
    /\ pc[r] = "planning"
    /\ ~CanClimb(r)
    /\ Guard!Enter(r, {Owner(r)})
    /\ targets' = [targets EXCEPT ![r] = <<>>]
    /\ GoTo(r, "charging")
    /\ UNCHANGED <<parent, books, job, seen, txs, todo>>

\* charge_operation asks for the locks of the actor's wallet and of those found.
LockWallets(r) ==
    /\ pc[r] = "planning"
    /\ ~CanClimb(r)
    /\ Guard!Enter(r, Found(r) \cup LastTarget(r))
    /\ targets' = [targets EXCEPT ![r] = <<>>]
    /\ GoTo(r, "charging")
    /\ UNCHANGED <<parent, books, job, seen, txs, todo>>

\* Under the locks: root admins and operations without a price pay nothing ...
ChargeNothing(r) ==
    /\ Running(r, "charging")
    /\ Owner(r) \in Roots \/ Price[Owner(r)] = 0
    /\ Guard!Leave(r)
    /\ GoTo(r, "panel")
    /\ UNCHANGED <<parent, books, job, seen, targets, txs, todo>>

\* ... a delegated admin outside its limits, or short of money, is turned away ...
RefuseCharge(r) ==
    /\ Running(r, "charging")
    /\ Owner(r) \notin Roots
    /\ End(r, "failed")
    /\ UNCHANGED <<parent, books, job, seen, targets, txs, todo>>

\* ... and the others pay, before the upstream admins are looked up once more.
ChargeActor(r) ==
    /\ Running(r, "charging")
    /\ Owner(r) \notin Roots
    /\ Price[Owner(r)] > 0
    /\ Allowed(Owner(r), -Price[Owner(r)], Owner(r) \in MayOwe)
    /\ Post(Owner(r), -Price[Owner(r)], "charge", 0)
    /\ txs' = [txs EXCEPT ![r] = <<[id |-> nextId, user |-> Owner(r), amount |-> Price[Owner(r)]]>>]
    /\ GoTo(r, "targeting")
    /\ UNCHANGED <<guardVars, parent, job, seen, targets, todo>>

TargetsKnown(r) ==
    /\ Running(r, "targeting")
    /\ ~CanClimb(r)
    /\ \/ /\ LastTarget(r) = {}
          /\ UNCHANGED targets
       \/ \E u \in LastTarget(r) : targets' = [targets EXCEPT ![r] = Append(@, u)]
    /\ GoTo(r, "upstream")
    /\ UNCHANGED <<guardVars, parent, books, job, seen, txs, todo>>
-------------------------------------------------------------------------------
\* The loop over the upstream admins: one without a price is passed over ...
SkipUpstream(r) ==
    /\ Running(r, "upstream")
    /\ targets[r] # <<>>
    /\ Price[Head(targets[r])] = 0
    /\ targets' = [targets EXCEPT ![r] = Tail(@)]
    /\ UNCHANGED <<guardVars, parent, books, pc, job, seen, txs, todo>>

\* ... the others are charged their own price; a root admin may always owe.
ChargeUpstream(r) ==
    /\ Running(r, "upstream")
    /\ targets[r] # <<>>
    /\ LET u == Head(targets[r]) IN
          /\ Price[u] > 0
          /\ Allowed(u, -Price[u], u \in MayOwe \cup Roots)
          /\ Post(u, -Price[u], "charge", 0)
          /\ txs' = [txs EXCEPT ![r] = Append(@, [id |-> nextId, user |-> u, amount |-> Price[u]])]
    /\ targets' = [targets EXCEPT ![r] = Tail(@)]
    /\ UNCHANGED <<guardVars, parent, pc, job, seen, todo>>

\* An upstream wallet is short: the except block refunds the actor's transaction,
\* that one only, and raises.
UpstreamShort(r) ==
    /\ Running(r, "upstream")
    /\ targets[r] # <<>>
    /\ LET u == Head(targets[r]) IN
          /\ Price[u] > 0
          /\ ~Allowed(u, -Price[u], u \in MayOwe \cup Roots)
    /\ todo' = [todo EXCEPT ![r] = <<txs[r][1]>>]
    /\ GoTo(r, "refunding")
    /\ UNCHANGED <<guardVars, parent, books, job, seen, targets, txs>>

\* The panel is called with the locks still taken, and nobody gives them back.
ChargeDoneLocked(r) ==
    /\ Running(r, "upstream")
    /\ targets[r] = <<>>
    /\ GoTo(r, "panel")
    /\ UNCHANGED <<guardVars, parent, books, job, seen, targets, txs, todo>>

\* Everybody paid: the locks are released and the panel is called.
ChargeDone(r) ==
    /\ Running(r, "upstream")
    /\ targets[r] = <<>>
    /\ Guard!Leave(r)
    /\ GoTo(r, "panel")
    /\ UNCHANGED <<parent, books, job, seen, targets, txs, todo>>

\* The bundle forgets related_transaction_ids: the actor alone is refunded.
CallPanelActorOnly(r) ==
    /\ pc[r] = "panel"
    /\ \/ GoTo(r, "succeeded") /\ UNCHANGED todo
       \/ txs[r] = <<>> /\ GoTo(r, "failed") /\ UNCHANGED todo
       \/ /\ txs[r] # <<>>
          /\ GoTo(r, "refunding")
          /\ todo' = [todo EXCEPT ![r] = <<Head(txs[r])>>]
    /\ UNCHANGED <<guardVars, parent, books, job, seen, targets, txs>>

\* The panel call and what follows it in the try block, such as the read-back of its
\* effect: they succeed, or one of them raises and the bundle is to be refunded.
CallPanel(r) ==
    /\ pc[r] = "panel"
    /\ \/ GoTo(r, "succeeded") /\ UNCHANGED todo
       \/ txs[r] = <<>> /\ GoTo(r, "failed") /\ UNCHANGED todo
       \/ /\ txs[r] # <<>>
          /\ GoTo(r, "refunding")
          /\ todo' = [todo EXCEPT ![r] = txs[r]]
    /\ UNCHANGED <<guardVars, parent, books, job, seen, targets, txs>>
-------------------------------------------------------------------------------
\* refund_transaction first looks the transaction up; it raises when the transaction
\* is gone or has a refund, and then the refunds after it are not made either.
CheckRefund(r) ==
    /\ pc[r] = "refunding"
    /\ IF InLedger(Head(todo[r])) /\ ~Refunded(Head(todo[r]))
       THEN GoTo(r, "crediting") /\ UNCHANGED guardVars
       ELSE End(r, "failed")
    /\ UNCHANGED <<parent, books, job, seen, targets, txs, todo>>

\* The except block of charge_operation without its raise: the operation goes on, unpaid.
AfterCreditNoRaise(r) ==
    /\ todo' = [todo EXCEPT ![r] = Tail(@)]
    /\ IF phase[r] = "running" THEN GoTo(r, "panel") /\ Guard!Leave(r)
       ELSE IF Len(todo[r]) = 1 THEN End(r, "failed")
       ELSE GoTo(r, "refunding") /\ UNCHANGED guardVars

\* What remains of the refunds once the first of them is made.
AfterCredit(r) ==
    /\ todo' = [todo EXCEPT ![r] = Tail(@)]
    /\ IF Len(todo[r]) = 1 THEN End(r, "failed") ELSE GoTo(r, "refunding") /\ UNCHANGED guardVars

\* A refund whose row may refer to nothing: no foreign key, or none enforced.
CreditableUnlisted(tx) == Allowed(tx.user, tx.amount, FALSE)

\* Then it credits the amount, as a wallet change that may not leave the wallet below
\* zero and whose row must refer to a row (foreign key) that is still there.
Creditable(tx) == InLedger(tx) /\ Allowed(tx.user, tx.amount, FALSE)

CreditRefund(r) ==
    /\ pc[r] = "crediting"
    /\ LET tx == Head(todo[r]) IN
          IF Creditable(tx)
          THEN Post(tx.user, tx.amount, "refund", tx.id) /\ AfterCredit(r)
          ELSE End(r, "failed") /\ UNCHANGED <<books, todo>>
    /\ UNCHANGED <<parent, job, seen, targets, txs>>
-------------------------------------------------------------------------------
\* set_wallet_balance reads the balance and posts the difference to the amount asked.
SetRead(r) ==
    /\ Running(r, "setRead")
    /\ seen' = [seen EXCEPT ![r] = balance[Owner(r)]]
    /\ GoTo(r, "setWrite")
    /\ UNCHANGED <<guardVars, parent, books, job, targets, txs, todo>>

SetWrite(r) ==
    /\ Running(r, "setWrite")
    /\ Post(Owner(r), job[r].amount - seen[r], "manual_set", 0)
    /\ End(r, "succeeded")
    /\ UNCHANGED <<parent, job, seen, targets, txs, todo>>

\* adjust_wallet_balance refuses a zero amount and lets the wallet go below zero.
Adjust(r) ==
    /\ Running(r, "adjusting")
    /\ \/ /\ job[r].amount = 0
          /\ End(r, "failed")
          /\ UNCHANGED books
       \/ /\ job[r].amount # 0
          /\ Post(Owner(r), job[r].amount, "manual_adjust", 0)
          /\ End(r, "succeeded")
    /\ UNCHANGED <<parent, job, seen, targets, txs, todo>>
-------------------------------------------------------------------------------
\* One step of the coroutine of r, once it is running.
Step(r) == \/ TakeLock(r)
           \/ ClimbOne(r) \/ LockWallets(r)
           \/ ChargeNothing(r) \/ RefuseCharge(r) \/ ChargeActor(r)
           \/ TargetsKnown(r) \/ SkipUpstream(r) \/ ChargeUpstream(r)
           \/ UpstreamShort(r) \/ ChargeDone(r)
           \/ CallPanel(r) \/ CheckRefund(r) \/ CreditRefund(r)
           \/ SetRead(r) \/ SetWrite(r) \/ Adjust(r)

AllEnded == \A r \in Requests : pc[r] \in Ended

\* Everybody has been served; the bot waits for the next update.
Rest == AllEnded /\ UNCHANGED vars

Next == \/ \E r \in Requests : Start(r) \/ Clear(r) \/ Step(r)
        \/ ChangeParent
        \/ Rest

Spec == Init /\ [][Next]_vars

\* The event loop runs every ready coroutine; SQLite calls return, and a panel call
\* ends with its answer or with the timeout of the HTTP client.
Fairness == \A r \in Requests : WF_vars(Step(r))
FairSpec == Spec /\ Fairness
-------------------------------------------------------------------------------
\* The wallets are books in the sense of AtomicLedger: whoever changes one enters a row that
\* carries on from its balance, under an id never used before, and a refund only where the
\* row it refers to is still listed.
Books == INSTANCE AtomicLedger
KeepsBooks == Books!Spec

\* The ledger explains the balance: each row carries on from the one before it, and the
\* last one leaves what the wallet holds.  This is what the wallet screen and the sales
\* reports rely on (a reset empties both).
LedgerExplainsBalance ==
    \A u \in Users :
        /\ balance[u] = IF ledger[u] = <<>> THEN 0 ELSE ledger[u][Len(ledger[u])].after
        /\ \A i \in 1..Len(ledger[u]) :
              ledger[u][i].after = ledger[u][i].amount + (IF i = 1 THEN 0 ELSE ledger[u][i-1].after)

\* Every refund in a ledger pays back, in full, a charge of the same wallet made before
\* it and still listed, and no charge is paid back twice: neither the two places that
\* refund nor a ledger reset between look-up and credit can create money.
RefundsAnswerCharges ==
    \A u \in Users : \A i \in 1..Len(ledger[u]) : ledger[u][i].kind = "refund" =>
        /\ \E j \in 1..(i - 1) : /\ ledger[u][j].id = ledger[u][i].ref
                                 /\ ledger[u][j].kind = "charge"
                                 /\ ledger[u][j].amount = -ledger[u][i].amount
        /\ \A k \in 1..Len(ledger[u]) :
              (ledger[u][k].kind = "refund" /\ ledger[u][k].ref = ledger[u][i].ref) => k = i

\* An operation that succeeded stays paid: whichever way its own refunds, those of others
\* and ledger resets interleave, none of its charges is ever paid back.
SuccessStaysPaid ==
    \A r \in Requests : pc[r] = "succeeded" => \A i \in 1..Len(txs[r]) : ~Refunded(txs[r][i])

\* Whatever wallet a guarded charge takes money from, it holds that wallet's lock: the
\* upstream admins it charges are those it locked.  Holds while nobody's parent changes.
ChargesAreLocked ==
    \A r \in Requests : phase[r] = "running" =>
        \A i \in 1..Len(txs[r]) : txs[r][i].user \in got[r]

\* Between the read of set_wallet_balance and its write no other charge, set or adjustment
\* touches the wallet: only what runs outside the guard, a refund or a reset, can make the
\* balance end up different from the amount asked for.  Holds while nobody's parent changes:
\* after such a change a charge may take money from a wallet it did not lock.
SetIsIsolated ==
    \A r \in Requests : pc[r] = "setWrite" =>
        \/ balance[Owner(r)] = seen[r]
        \/ ledger[Owner(r)] = <<>>
        \/ ledger[Owner(r)][Len(ledger[Owner(r)])].kind = "refund"

\* A paid operation that failed has cost nobody anything: each of its charges, the actor's
\* and the upstream admins', has been refunded.
FailureCostsNothing ==
    \A r \in Requests : pc[r] = "failed" => \A i \in 1..Len(txs[r]) : Refunded(txs[r][i])

\* Every request comes to an end: the locks of crossing charges never block each other for
\* good, and the refunds of a failed operation are not left waiting.
EveryRequestEnds == \A r \in Requests : (pc[r] # "new") ~> (pc[r] \in Ended)
===============================================================================
