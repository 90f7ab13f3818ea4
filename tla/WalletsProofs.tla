----------------------------- MODULE WalletsProofs -----------------------------
(***************************************************************************)
(* Safety of the wallets for any admins, prices, parents, requests and     *)
(* jobs: requests under the guard never share a wallet lock, everything    *)
(* stays typed, the ledger explains the balance, and refunds answer        *)
(* charges.  Then, on conditions each section states: charges are locked,  *)
(* a balance is set undisturbed, and a failed operation costs nothing.     *)
(***************************************************************************)
EXTENDS Wallets, TLAPS

Locks == INSTANCE OperationGuardProofs WITH Callers <- Requests, Keys <- Users

Kinds == {"charge", "refund", "manual_set", "manual_adjust"}

\* What a request still works on is there: refunds to make, transactions to refund.
Pending ==
    \A r \in Requests : /\ pc[r] \in {"refunding", "crediting"} => todo[r] # <<>>
                        /\ pc[r] \in {"targeting", "upstream"} => txs[r] # <<>>

WInv == Locks!IInv /\ TypeOK /\ Pending

\* One thing is not nothing, and nothing has no positions.
LEMMA Emptiness ==
  /\ \A x : <<x>> # <<>>
  /\ Len(<<>>) = 0
  /\ 1..Len(<<>>) = {}
  <1>1. Len(<<>>) = 0 /\ \A x : Len(<<x>>) = 1
    OBVIOUS
  <1>2. \A x : <<x>> # <<>>
    BY <1>1, Zenon
  <1>3. QED
    BY <1>1, <1>2

\* A request that was given a job acts for one of the users, and for an amount.
LEMMA OwnersAreUsers ==
  ASSUME TypeOK, NEW r \in Requests, pc[r] # "new"
  PROVE  Owner(r) \in Users /\ job[r].amount \in Int
  BY WalletsAssumption DEF TypeOK, Owner, Job

\* The admins found so far, the next one and the last one are users.
LEMMA TargetsAreUsers ==
  ASSUME TypeOK, NEW r \in Requests, pc[r] # "new"
  PROVE  /\ Found(r) \subseteq Users
         /\ LastTarget(r) \subseteq Users
         /\ CanClimb(r) => Above(r) \in Users
  <1>1. Owner(r) \in Users
    BY OwnersAreUsers
  <1>2. targets[r] \in Seq(Users)
    BY DEF TypeOK
  <1>3. Found(r) \subseteq Users
    BY <1>1, <1>2 DEF Found
  <1>4. LastTarget(r) \subseteq Users
    BY WalletsAssumption DEF LastTarget, SoleRoot
  <1>5. ASSUME CanClimb(r) PROVE Above(r) \in Users
    <2>1. CASE targets[r] = <<>>
      BY <1>1, <1>5, <2>1 DEF TypeOK, CanClimb, Above
    <2>2. CASE targets[r] # <<>>
      <3>1. targets[r][Len(targets[r])] \in Users
        BY <1>2, <2>2
      <3>2. QED
        BY <1>5, <2>2, <3>1 DEF TypeOK, CanClimb, Above
    <2>3. QED
      BY <2>1, <2>2
  <1>6. QED
    BY <1>3, <1>4, <1>5

\* Ending a coroutine leaves its locks, or touches none.
LEMMA EndLeaves ==
  ASSUME NEW r \in Requests, NEW outcome, End(r, outcome)
  PROVE  Guard!Leave(r) \/ UNCHANGED guardVars
  BY DEF End

\* Every step moves the locks the way the guard does, or not at all.
LEMMA GuardStep ==
  ASSUME TypeOK, [Next]_vars
  PROVE  [Guard!Next]_guardVars
  <1>1. ASSUME NEW r \in Requests, Start(r)
        PROVE  [Guard!Next]_guardVars
    BY <1>1, WalletsAssumption DEF Start, Guard!Next, Job
  <1>2. ASSUME NEW r \in Requests, Clear(r)
        PROVE  [Guard!Next]_guardVars
    BY <1>2 DEF Clear
  <1>3. ASSUME NEW r \in Requests, TakeLock(r)
        PROVE  [Guard!Next]_guardVars
    BY <1>3 DEF TakeLock, Guard!Next
  <1>4. ASSUME NEW r \in Requests, LockWallets(r)
        PROVE  [Guard!Next]_guardVars
    <2>1. Found(r) \cup LastTarget(r) \in SUBSET Users
      BY <1>4, TargetsAreUsers DEF LockWallets
    <2>2. QED
      BY <1>4, <2>1 DEF LockWallets, Guard!Next
  <1>5. ASSUME NEW r \in Requests, ChargeNothing(r) \/ ChargeDone(r)
        PROVE  [Guard!Next]_guardVars
    BY <1>5 DEF ChargeNothing, ChargeDone, Guard!Next
  <1>6. ASSUME NEW r \in Requests,
               \/ RefuseCharge(r) \/ CheckRefund(r) \/ CreditRefund(r)
               \/ SetWrite(r) \/ Adjust(r)
        PROVE  [Guard!Next]_guardVars
    <2>1. Guard!Leave(r) \/ UNCHANGED guardVars
      BY <1>6, EndLeaves DEF RefuseCharge, CheckRefund, CreditRefund, AfterCredit, SetWrite, Adjust
    <2>2. QED
      BY <2>1 DEF Guard!Next
  <1>7. ASSUME NEW r \in Requests,
               \/ ClimbOne(r) \/ ChargeActor(r) \/ TargetsKnown(r) \/ SkipUpstream(r)
               \/ ChargeUpstream(r) \/ UpstreamShort(r) \/ CallPanel(r) \/ SetRead(r)
        PROVE  [Guard!Next]_guardVars
    BY <1>7 DEF ClimbOne, ChargeActor, TargetsKnown, SkipUpstream, ChargeUpstream,
                UpstreamShort, CallPanel, SetRead
  <1>8. QED
    BY <1>1, <1>2, <1>3, <1>4, <1>5, <1>6, <1>7 DEF Next, Step, ChangeParent, Rest, vars, guardVars

\* The locks stay consistent, and so typed.
LEMMA LocksStep ==
  ASSUME Locks!IInv, TypeOK, [Next]_vars
  PROVE  Locks!IInv' /\ Guard!TypeOK'
  <1>1. [Locks!Next]_(Locks!vars)
    <2>1. \A c, k : (Guard!IsNext(c, k) <=> Locks!IsNext(c, k)) /\ (Guard!Take(c, k) <=> Locks!Take(c, k))
      BY DEF Guard!IsNext, Locks!IsNext, Guard!Take, Locks!Take
    <2>2. \A k : Guard!Locked(k) <=> Locks!Locked(k)
      BY DEF Guard!Locked, Locks!Locked
    <2>3. \A c : Guard!Queued(c) <=> Locks!Queued(c)
      BY DEF Guard!Queued, Locks!Queued
    <2>4. ASSUME NEW c PROVE Guard!Acquire(c) <=> Locks!Acquire(c)
      BY <2>1, <2>2, Zenon DEF Guard!Acquire, Locks!Acquire
    <2>5. ASSUME NEW c PROVE Guard!Enqueue(c) <=> Locks!Enqueue(c)
      BY <2>1, <2>2, <2>3, Zenon DEF Guard!Enqueue, Locks!Enqueue
    <2>6. ASSUME NEW c PROVE Guard!Wake(c) <=> Locks!Wake(c)
      BY <2>1, <2>2, Zenon DEF Guard!Wake, Locks!Wake
    <2>7. \A c, K : (Guard!Enter(c, K) <=> Locks!Enter(c, K)) /\ (Guard!Leave(c) <=> Locks!Leave(c))
      BY DEF Guard!Enter, Locks!Enter, Guard!Leave, Locks!Leave
    <2>8. Guard!Next <=> Locks!Next
      BY <2>4, <2>5, <2>6, <2>7 DEF Guard!Next, Locks!Next
    <2>9. QED
      BY GuardStep, <2>8 DEF Locks!vars, guardVars
  <1>2. Locks!IInv'
    BY <1>1, WalletsAssumption, Locks!StepIInv DEF Locks!KeysAreOrdered
  <1>3. QED
    BY <1>2 DEF Locks!IInv, Locks!TypeOK, Guard!TypeOK

\* A wallet change keeps the books typed.
LEMMA PostTyped ==
  ASSUME TypeOK, NEW u \in Users, NEW delta \in Int, NEW kind \in Kinds, NEW ref \in Nat,
         Post(u, delta, kind, ref)
  PROVE  /\ balance' \in [Users -> Int]
         /\ ledger' \in [Users -> Seq(Entry)]
         /\ nextId' \in Nat \ {0}
  <1> DEFINE row == [id |-> nextId, amount |-> delta, after |-> balance[u] + delta,
                     kind |-> kind, ref |-> ref]
  <1>1. row \in Entry
    BY DEF TypeOK, Entry, Kinds
  <1>2. Append(ledger[u], row) \in Seq(Entry)
    BY <1>1 DEF TypeOK
  <1>3. QED
    BY <1>2 DEF Post, TypeOK

\* A user is charged under a transaction of its own, for a positive amount.
LEMMA ChargeTyped ==
  ASSUME TypeOK, NEW u \in Users
  PROVE  /\ Price[u] \in Nat /\ -Price[u] \in Int
         /\ [id |-> nextId, user |-> u, amount |-> Price[u]] \in Tx
  BY WalletsAssumption DEF TypeOK, Tx

\* The head of a queue of transactions is one, and the rest is such a queue.
LEMMA FirstTx ==
  ASSUME NEW q \in Seq(Tx), q # <<>>
  PROVE  /\ Head(q) \in Tx /\ q[1] \in Tx /\ Tail(q) \in Seq(Tx) /\ <<q[1]>> \in Seq(Tx)
         /\ Len(q) # 1 => Tail(q) # <<>>
  <1>1. Len(q) \in Nat /\ Len(q) > 0 /\ q[1] \in Tx /\ Head(q) = q[1]
    OBVIOUS
  <1>2. Tail(q) \in Seq(Tx) /\ Len(Tail(q)) = Len(q) - 1
    OBVIOUS
  <1>3. <<q[1]>> \in Seq(Tx)
    BY <1>1
  <1>4. ASSUME Len(q) # 1 PROVE Tail(q) # <<>>
    <2>1. Len(Tail(q)) # 0
      BY <1>1, <1>2, <1>4
    <2>2. Len(<<>>) = 0
      OBVIOUS
    <2>3. QED
      BY <2>1, <2>2, Zenon
  <1>5. QED
    BY <1>1, <1>2, <1>3, <1>4

\* A coroutine that moves on keeps its job.
MovesOn(r) == /\ pc[r] # "new"
              /\ \E stage \in Stages \ {"new"} : GoTo(r, stage)
              /\ job' = job

LEMMA JobKept ==
  ASSUME TypeOK, NEW r \in Requests, MovesOn(r) \/ UNCHANGED <<pc, job>>
  PROVE  /\ pc' \in [Requests -> Stages]
         /\ job' \in [Requests -> Job \cup {NoJob}]
         /\ \A s \in Requests : job'[s] \in IF pc'[s] = "new" THEN {NoJob} ELSE Jobs[s]
  <1>1. CASE UNCHANGED <<pc, job>>
    BY <1>1 DEF TypeOK
  <1>2. CASE MovesOn(r)
    BY <1>2 DEF MovesOn, GoTo, TypeOK
  <1>3. QED
    BY <1>1, <1>2

\* What the actions change besides the locks stays typed.
LEMMA StartTyped ==
  ASSUME TypeOK, Guard!TypeOK', NEW r \in Requests, Start(r) \/ Clear(r)
  PROVE  TypeOK'
  <1>1. PICK j \in Jobs[r] : job' = [job EXCEPT ![r] = j]
    BY DEF Start, Clear
  <1>2. j \in Job /\ j.user \in Users
    BY WalletsAssumption DEF Job
  <1>3. CASE Start(r)
    BY <1>1, <1>2, <1>3 DEF Start, TypeOK, GoTo, Stages, books
  <1>4. CASE Clear(r)
    BY <1>1, <1>2, <1>4 DEF Clear, TypeOK, GoTo, Stages, Ended
  <1>5. QED
    BY <1>3, <1>4

LEMMA ClimbTyped ==
  ASSUME TypeOK, Guard!TypeOK', NEW r \in Requests, ClimbOne(r) \/ TargetsKnown(r) \/ SkipUpstream(r)
  PROVE  TypeOK'
  <1>1. pc[r] # "new"
    BY DEF ClimbOne, TargetsKnown, SkipUpstream, Running
  <1>2. targets[r] \in Seq(Users)
    BY DEF TypeOK
  <1>3. CASE ClimbOne(r)
    <2>1. Append(targets[r], Above(r)) \in Seq(Users)
      BY <1>1, <1>2, <1>3, TargetsAreUsers DEF ClimbOne
    <2>2. QED
      BY <1>3, <2>1 DEF ClimbOne, TypeOK, books
  <1>4. CASE TargetsKnown(r)
    <2>1. \A u \in LastTarget(r) : Append(targets[r], u) \in Seq(Users)
      BY <1>1, <1>2, TargetsAreUsers
    <2>2. MovesOn(r)
      BY <1>1, <1>4 DEF TargetsKnown, MovesOn, Stages
    <2>3. targets' \in [Requests -> Seq(Users)]
      BY <1>4, <2>1 DEF TargetsKnown, TypeOK
    <2>4. QED
      BY <1>4, <2>2, <2>3, JobKept DEF TargetsKnown, TypeOK, books
  <1>5. CASE SkipUpstream(r)
    <2>1. Tail(targets[r]) \in Seq(Users)
      BY <1>2, <1>5 DEF SkipUpstream
    <2>2. QED
      BY <1>5, <2>1 DEF SkipUpstream, TypeOK, books
  <1>6. QED
    BY <1>3, <1>4, <1>5

LEMMA ChargeActorTyped ==
  ASSUME TypeOK, Guard!TypeOK', NEW r \in Requests, ChargeActor(r)
  PROVE  TypeOK'
  <1>1. Owner(r) \in Users
    BY OwnersAreUsers DEF ChargeActor, Running
  <1>2. <<[id |-> nextId, user |-> Owner(r), amount |-> Price[Owner(r)]]>> \in Seq(Tx)
    BY <1>1, ChargeTyped
  <1>3. /\ balance' \in [Users -> Int]
        /\ ledger' \in [Users -> Seq(Entry)]
        /\ nextId' \in Nat \ {0}
    BY <1>1, ChargeTyped, PostTyped DEF ChargeActor, Kinds
  <1>4. MovesOn(r)
    BY DEF ChargeActor, Running, MovesOn, Stages
  <1>5. txs' \in [Requests -> Seq(Tx)]
    BY <1>2 DEF ChargeActor, TypeOK
  <1>6. QED
    BY <1>3, <1>4, <1>5, JobKept DEF ChargeActor, TypeOK

LEMMA ChargeUpstreamTyped ==
  ASSUME TypeOK, Guard!TypeOK', NEW r \in Requests, ChargeUpstream(r)
  PROVE  TypeOK'
  <1> DEFINE u == Head(targets[r])
  <1>1. u \in Users /\ Tail(targets[r]) \in Seq(Users)
    BY DEF ChargeUpstream, TypeOK
  <1>2. Append(txs[r], [id |-> nextId, user |-> u, amount |-> Price[u]]) \in Seq(Tx)
    BY <1>1, ChargeTyped DEF TypeOK
  <1>3. /\ balance' \in [Users -> Int]
        /\ ledger' \in [Users -> Seq(Entry)]
        /\ nextId' \in Nat \ {0}
    BY <1>1, ChargeTyped, PostTyped DEF ChargeUpstream, Kinds
  <1>4. QED
    BY <1>1, <1>2, <1>3 DEF ChargeUpstream, TypeOK

LEMMA LocksTyped ==
  ASSUME TypeOK, Guard!TypeOK', NEW r \in Requests,
         \/ TakeLock(r) \/ LockWallets(r) \/ ChargeNothing(r) \/ RefuseCharge(r)
         \/ ChargeDone(r) \/ CheckRefund(r)
  PROVE  TypeOK'
  <1>1. CASE TakeLock(r)
    BY <1>1, JobKept DEF TakeLock, TypeOK, books
  <1>2. CASE LockWallets(r)
    <2>1. MovesOn(r)
      BY <1>2 DEF LockWallets, MovesOn, Stages
    <2>2. targets' \in [Requests -> Seq(Users)]
      BY <1>2 DEF LockWallets, TypeOK
    <2>3. QED
      BY <1>2, <2>1, <2>2, JobKept DEF LockWallets, TypeOK, books
  <1>3. CASE ChargeNothing(r) \/ RefuseCharge(r) \/ ChargeDone(r) \/ CheckRefund(r)
    <2>1. MovesOn(r)
      BY <1>3 DEF ChargeNothing, RefuseCharge, ChargeDone, CheckRefund, End, MovesOn,
                  Running, Stages, Ended
    <2>2. UNCHANGED <<parent, books, seen, targets, txs, todo>>
      BY <1>3 DEF ChargeNothing, RefuseCharge, ChargeDone, CheckRefund
    <2>3. QED
      BY <2>1, <2>2, JobKept DEF TypeOK, books
  <1>4. QED
    BY <1>1, <1>2, <1>3

LEMMA RefundTyped ==
  ASSUME TypeOK, Pending, Guard!TypeOK', NEW r \in Requests,
         UpstreamShort(r) \/ CallPanel(r) \/ CreditRefund(r)
  PROVE  TypeOK'
  <1>1. txs[r] \in Seq(Tx) /\ todo[r] \in Seq(Tx)
    BY DEF TypeOK
  <1>2. CASE UpstreamShort(r)
    <2>1. MovesOn(r)
      BY <1>2 DEF UpstreamShort, MovesOn, Running, Stages
    <2>2. <<txs[r][1]>> \in Seq(Tx)
      BY <1>1, <1>2, FirstTx DEF UpstreamShort, Pending, Running
    <2>3. todo' \in [Requests -> Seq(Tx)]
      BY <1>2, <2>2 DEF UpstreamShort, TypeOK
    <2>4. QED
      BY <1>2, <2>1, <2>3, JobKept DEF UpstreamShort, TypeOK, books
  <1>3. CASE CallPanel(r)
    <2>1. MovesOn(r)
      BY <1>3 DEF CallPanel, MovesOn, Stages, Ended
    <2>2. todo' \in [Requests -> Seq(Tx)]
      BY <1>1, <1>3 DEF CallPanel, TypeOK
    <2>3. QED
      BY <1>3, <2>1, <2>2, JobKept DEF CallPanel, TypeOK, books
  <1>4. CASE CreditRefund(r)
    <2> DEFINE tx == Head(todo[r])
    <2>1. MovesOn(r)
      BY <1>4 DEF CreditRefund, AfterCredit, End, MovesOn, Stages, Ended
    <2>2. tx \in Tx /\ Tail(todo[r]) \in Seq(Tx)
      BY <1>1, <1>4, FirstTx DEF CreditRefund, Pending
    <2>3. todo' \in [Requests -> Seq(Tx)]
      BY <1>4, <2>2 DEF CreditRefund, AfterCredit, TypeOK
    <2>4. /\ balance' \in [Users -> Int]
          /\ ledger' \in [Users -> Seq(Entry)]
          /\ nextId' \in Nat \ {0}
      <3>1. CASE Creditable(tx)
        <4>1. tx.user \in Users /\ tx.amount \in Int /\ tx.id \in Nat
          BY <2>2 DEF Tx
        <4>2. Post(tx.user, tx.amount, "refund", tx.id)
          BY <1>4, <3>1 DEF CreditRefund
        <4>3. QED
          BY <4>1, <4>2, PostTyped DEF Kinds
      <3>2. CASE ~Creditable(tx)
        BY <1>4, <3>2 DEF CreditRefund, books, TypeOK
      <3>3. QED
        BY <3>1, <3>2
    <2>5. QED
      BY <1>4, <2>1, <2>3, <2>4, JobKept DEF CreditRefund, TypeOK
  <1>5. QED
    BY <1>2, <1>3, <1>4

LEMMA SetTyped ==
  ASSUME TypeOK, Guard!TypeOK', NEW r \in Requests, SetRead(r) \/ SetWrite(r) \/ Adjust(r)
  PROVE  TypeOK'
  <1>1. Owner(r) \in Users /\ job[r].amount \in Int
    BY OwnersAreUsers DEF SetRead, SetWrite, Adjust, Running
  <1>2. balance[Owner(r)] \in Int /\ job[r].amount - seen[r] \in Int
    BY <1>1 DEF TypeOK
  <1>3. MovesOn(r)
    BY DEF SetRead, SetWrite, Adjust, End, MovesOn, Running, Stages, Ended
  <1>4. seen' \in [Requests -> Int]
    BY <1>2 DEF SetRead, SetWrite, Adjust, TypeOK
  <1>5. /\ balance' \in [Users -> Int]
        /\ ledger' \in [Users -> Seq(Entry)]
        /\ nextId' \in Nat \ {0}
    <2>1. CASE UNCHANGED books
      BY <2>1 DEF books, TypeOK
    <2>2. CASE Post(Owner(r), job[r].amount - seen[r], "manual_set", 0)
      BY <1>1, <1>2, <2>2, PostTyped DEF Kinds
    <2>3. CASE Post(Owner(r), job[r].amount, "manual_adjust", 0)
      BY <1>1, <2>3, PostTyped DEF Kinds
    <2>4. QED
      BY <2>1, <2>2, <2>3 DEF SetRead, SetWrite, Adjust
  <1>6. UNCHANGED <<parent, targets, txs, todo>>
    BY DEF SetRead, SetWrite, Adjust
  <1>7. QED
    BY <1>3, <1>4, <1>5, <1>6, JobKept DEF TypeOK

LEMMA TypeStep ==
  ASSUME TypeOK, Pending, Guard!TypeOK', [Next]_vars
  PROVE  TypeOK'
  <1>1. CASE ChangeParent
    BY <1>1, WalletsAssumption DEF ChangeParent, TypeOK, books
  <1>2. CASE UNCHANGED vars
    BY <1>2 DEF vars, books, TypeOK
  <1>3. QED
    BY <1>1, <1>2, StartTyped, ClimbTyped, ChargeActorTyped, ChargeUpstreamTyped, LocksTyped,
       RefundTyped, SetTyped DEF Next, Step, Rest

\* A step of one request leaves the others where they are.
LEMMA OthersKept ==
  ASSUME TypeOK, NEW r \in Requests, Start(r) \/ Clear(r) \/ Step(r)
  PROVE  \A s \in Requests \ {r} : pc'[s] = pc[s] /\ txs'[s] = txs[s] /\ todo'[s] = todo[s]
  <1>1. \E stage : pc' = [pc EXCEPT ![r] = stage]
    <2>1. pc = [pc EXCEPT ![r] = pc[r]]
      BY DEF TypeOK
    <2>2. QED
      BY <2>1 DEF Start, Clear, Step, TakeLock, ClimbOne, LockWallets, ChargeNothing,
         RefuseCharge, ChargeActor, TargetsKnown, SkipUpstream, ChargeUpstream, UpstreamShort,
         ChargeDone, CallPanel, CheckRefund, CreditRefund, AfterCredit, SetRead, SetWrite,
         Adjust, GoTo, End
  <1>2. /\ \E q : txs' = [txs EXCEPT ![r] = q]
        /\ \E q : todo' = [todo EXCEPT ![r] = q]
    <2>1. txs = [txs EXCEPT ![r] = txs[r]] /\ todo = [todo EXCEPT ![r] = todo[r]]
      BY DEF TypeOK
    <2>2. QED
      BY <2>1 DEF Start, Clear, Step, TakeLock, ClimbOne, LockWallets, ChargeNothing,
         RefuseCharge, ChargeActor, TargetsKnown, SkipUpstream, ChargeUpstream, UpstreamShort,
         ChargeDone, CallPanel, CheckRefund, CreditRefund, AfterCredit, SetRead, SetWrite, Adjust
  <1>3. QED
    BY <1>1, <1>2 DEF TypeOK

\* A refund or an upstream charge only starts with something to work on.
LEMMA PendingStep ==
  ASSUME TypeOK, Pending, [Next]_vars
  PROVE  Pending'
  <1>1. ASSUME NEW r \in Requests, Start(r) \/ Clear(r) \/ Step(r)
        PROVE  Pending'
    <2>3. /\ pc'[r] \in {"refunding", "crediting"} => todo'[r] # <<>>
          /\ pc'[r] \in {"targeting", "upstream"} => txs'[r] # <<>>
      <3>1. txs[r] \in Seq(Tx) /\ todo[r] \in Seq(Tx)
        BY DEF TypeOK
      <3>2. CASE Start(r) \/ Clear(r)
        BY <3>2 DEF Start, Clear, GoTo, TypeOK
      <3>3. CASE TakeLock(r) \/ ClimbOne(r) \/ SkipUpstream(r)
        BY <3>3 DEF TakeLock, ClimbOne, SkipUpstream, Pending
      <3>4. CASE \/ LockWallets(r) \/ ChargeNothing(r) \/ RefuseCharge(r) \/ ChargeDone(r)
                 \/ SetRead(r) \/ SetWrite(r) \/ Adjust(r)
        BY <3>4 DEF LockWallets, ChargeNothing, RefuseCharge, ChargeDone, SetRead, SetWrite,
                    Adjust, GoTo, End, TypeOK
      <3>5. CASE ChargeActor(r)
        BY <3>5, Emptiness DEF ChargeActor, GoTo, TypeOK
      <3>6. CASE TargetsKnown(r)
        BY <3>6 DEF TargetsKnown, Running, GoTo, TypeOK, Pending
      <3>7. CASE ChargeUpstream(r)
        <4>1. PICK tx : txs' = [txs EXCEPT ![r] = Append(txs[r], tx)]
          BY <3>7 DEF ChargeUpstream
        <4>2. Append(txs[r], tx) # <<>>
          <5>1. Len(Append(txs[r], tx)) # 0
            BY <3>1
          <5>2. QED
            BY <5>1, Emptiness, Zenon
        <4>3. pc'[r] = "upstream" /\ txs'[r] # <<>>
          BY <3>7, <4>1, <4>2 DEF ChargeUpstream, Running, TypeOK
        <4>4. QED
          BY <4>3
      <3>8. CASE UpstreamShort(r)
        BY <3>8, Emptiness DEF UpstreamShort, GoTo, TypeOK
      <3>9. CASE CallPanel(r)
        BY <3>9 DEF CallPanel, GoTo, TypeOK
      <3>10. CASE CheckRefund(r)
        BY <3>10 DEF CheckRefund, GoTo, End, TypeOK, Pending
      <3>11. CASE CreditRefund(r)
        BY <3>1, <3>11, FirstTx DEF CreditRefund, AfterCredit, GoTo, End, TypeOK, Pending
      <3>12. QED
        BY <1>1, <3>2, <3>3, <3>4, <3>5, <3>6, <3>7, <3>8, <3>9, <3>10, <3>11 DEF Step
    <2>4. QED
      BY <1>1, <2>3, OthersKept DEF Pending
  <1>2. CASE ChangeParent \/ UNCHANGED vars
    BY <1>2 DEF ChangeParent, vars, Pending
  <1>3. QED
    BY <1>1, <1>2 DEF Next, Rest

LEMMA InitWInv == Init => WInv
  <1> SUFFICES ASSUME Init
               PROVE  WInv
    OBVIOUS
  <1>1. Locks!IInv
    <2>1. Locks!Init
      BY DEF Init, Guard!Init, Locks!Init
    <2>2. QED
      BY <2>1, WalletsAssumption, Locks!InitIInv DEF Locks!KeysAreOrdered
  <1>2. Guard!TypeOK
    BY <1>1 DEF Locks!IInv, Locks!TypeOK, Guard!TypeOK
  <1>3. TypeOK
    BY <1>2, WalletsAssumption DEF Init, TypeOK, Stages
  <1>4. Pending
    BY DEF Init, Pending
  <1>5. QED
    BY <1>1, <1>3, <1>4 DEF WInv

LEMMA StepWInv == WInv /\ [Next]_vars => WInv'
  BY LocksStep, TypeStep, PendingStep DEF WInv

\* The locks are those of the guard, the values typed and the pending work there, always.
THEOREM WalletsInvariant == Spec => []WInv
  BY InitWInv, StepWInv, PTL DEF Spec

\* Every value the wallets keep has its type.
THEOREM WalletsTyped == Spec => []TypeOK
  <1>1. WInv => TypeOK
    BY DEF WInv
  <1>2. QED
    BY <1>1, WalletsInvariant, PTL
-------------------------------------------------------------------------------
\* Two requests that work under the guard at the same time hold no wallet in common.
WalletsExclusive ==
    \A q, r \in Requests :
        (q # r /\ phase[q] = "running" /\ phase[r] = "running") => got[q] \cap got[r] = {}

THEOREM WalletsAreExclusive == Spec => []WalletsExclusive
  <1>1. WInv => WalletsExclusive
    BY DEF WInv, WalletsExclusive, Locks!IInv, Locks!OneHolder
  <1>2. QED
    BY <1>1, WalletsInvariant, PTL
-------------------------------------------------------------------------------
\* A row that carries on from the last one keeps the ledger of u explained.
LEMMA PostExplained ==
  ASSUME TypeOK, LedgerExplainsBalance, NEW u \in Users, NEW delta \in Int, NEW kind \in Kinds,
         NEW ref \in Nat, Post(u, delta, kind, ref)
  PROVE  LedgerExplainsBalance'
  <1> DEFINE row == [id |-> nextId, amount |-> delta, after |-> balance[u] + delta,
                     kind |-> kind, ref |-> ref]
             old == ledger[u]
             new == Append(old, row)
  <1>1. /\ old \in Seq(Entry)
        /\ balance[u] \in Int
        /\ ledger' = [ledger EXCEPT ![u] = new]
        /\ balance' = [balance EXCEPT ![u] = balance[u] + delta]
    BY DEF TypeOK, Post
  <1>2. \A v \in Users \ {u} : ledger'[v] = ledger[v] /\ balance'[v] = balance[v]
    BY <1>1 DEF TypeOK
  <1>3. ledger'[u] = new /\ balance'[u] = balance[u] + delta
    BY <1>1 DEF TypeOK
  <1>4. /\ Len(new) = Len(old) + 1
        /\ Len(old) \in Nat
        /\ new[Len(new)] = row
        /\ \A i \in 1..Len(old) : new[i] = old[i]
        /\ new # <<>>
    BY <1>1
  <1>5. balance[u] = IF Len(old) = 0 THEN 0 ELSE old[Len(old)].after
    <2>1. old = <<>> <=> Len(old) = 0
      BY <1>1
    <2>2. QED
      BY <2>1 DEF LedgerExplainsBalance
  <1>6. balance'[u] = new[Len(new)].after
    BY <1>3, <1>4
  <1>7. ASSUME NEW i \in 1..Len(new)
        PROVE  new[i].after = new[i].amount + (IF i = 1 THEN 0 ELSE new[i - 1].after)
    <2>1. CASE i \in 1..Len(old)
      <3>1. new[i] = old[i] /\ (i # 1 => new[i - 1] = old[i - 1])
        BY <1>4, <2>1
      <3>2. old[i].after = old[i].amount + (IF i = 1 THEN 0 ELSE old[i - 1].after)
        BY <2>1 DEF LedgerExplainsBalance
      <3>3. QED
        BY <3>1, <3>2
    <2>2. CASE i = Len(old) + 1
      <3>1. row.after = balance[u] + delta /\ row.amount = delta
        OBVIOUS
      <3>2. i # 1 => new[i - 1] = old[Len(old)]
        BY <1>4, <2>2
      <3>3. QED
        BY <1>1, <1>4, <1>5, <2>2, <3>1, <3>2
    <2>3. QED
      BY <1>4, <2>1, <2>2
  <1>8. QED
    <2>1. \A v \in Users : v # u => /\ balance'[v] = balance[v]
                                    /\ ledger'[v] = ledger[v]
      BY <1>2
    <2>2. \A v \in Users : v = u => /\ balance'[v] = new[Len(new)].after
                                    /\ ledger'[v] = new
      BY <1>3, <1>6
    <2>3. SUFFICES ASSUME NEW v \in Users
                   PROVE  /\ balance'[v] = IF ledger'[v] = <<>> THEN 0
                                           ELSE ledger'[v][Len(ledger'[v])].after
                          /\ \A i \in 1..Len(ledger'[v]) :
                                ledger'[v][i].after = ledger'[v][i].amount
                                    + (IF i = 1 THEN 0 ELSE ledger'[v][i - 1].after)
      BY DEF LedgerExplainsBalance
    <2>4. CASE v = u
      BY <1>4, <1>7, <2>2, <2>4
    <2>5. CASE v # u
      BY <2>1, <2>5 DEF LedgerExplainsBalance
    <2>6. QED
      BY <2>4, <2>5

LEMMA ExplainedStep ==
  ASSUME WInv, LedgerExplainsBalance, [Next]_vars
  PROVE  LedgerExplainsBalance'
  <1> USE DEF WInv
  <1>1. ASSUME NEW r \in Requests, Clear(r)
        PROVE  LedgerExplainsBalance'
    <2>1. PICK j \in Jobs[r] : /\ ledger' = [ledger EXCEPT ![j.user] = <<>>]
                               /\ balance' = [balance EXCEPT ![j.user] = 0]
      BY <1>1 DEF Clear
    <2>2. j.user \in Users
      BY WalletsAssumption DEF Job
    <2>3. ledger \in [Users -> Seq(Entry)] /\ balance \in [Users -> Int]
      BY DEF TypeOK
    <2>4. /\ ledger'[j.user] = <<>> /\ balance'[j.user] = 0
          /\ \A v \in Users : v # j.user => ledger'[v] = ledger[v] /\ balance'[v] = balance[v]
      BY <2>1, <2>2, <2>3
    <2>5. SUFFICES ASSUME NEW v \in Users
                   PROVE  /\ balance'[v] = IF ledger'[v] = <<>> THEN 0
                                           ELSE ledger'[v][Len(ledger'[v])].after
                          /\ \A i \in 1..Len(ledger'[v]) :
                                ledger'[v][i].after = ledger'[v][i].amount
                                    + (IF i = 1 THEN 0 ELSE ledger'[v][i - 1].after)
      BY DEF LedgerExplainsBalance
    <2>6. CASE v = j.user
      BY <2>4, <2>6, Emptiness
    <2>7. CASE v # j.user
      BY <2>4, <2>7 DEF LedgerExplainsBalance
    <2>8. QED
      BY <2>6, <2>7
  <1>2. ASSUME UNCHANGED books
        PROVE  LedgerExplainsBalance'
    BY <1>2 DEF books, LedgerExplainsBalance
  <1>3. ASSUME NEW r \in Requests, ChargeActor(r)
        PROVE  LedgerExplainsBalance'
    <2>1. Owner(r) \in Users
      BY <1>3, OwnersAreUsers DEF ChargeActor, Running
    <2>2. QED
      BY <1>3, <2>1, ChargeTyped, PostExplained DEF ChargeActor, Kinds
  <1>4. ASSUME NEW r \in Requests, ChargeUpstream(r)
        PROVE  LedgerExplainsBalance'
    <2>1. Head(targets[r]) \in Users
      BY <1>4 DEF ChargeUpstream, TypeOK
    <2>2. QED
      BY <1>4, <2>1, ChargeTyped, PostExplained DEF ChargeUpstream, Kinds
  <1>5. ASSUME NEW r \in Requests, CreditRefund(r)
        PROVE  LedgerExplainsBalance'
    <2>1. Head(todo[r]) \in Tx
      BY <1>5, FirstTx DEF CreditRefund, Pending, TypeOK
    <2>2. CASE Creditable(Head(todo[r]))
      BY <1>5, <2>1, <2>2, PostExplained DEF CreditRefund, Kinds, Tx
    <2>3. CASE ~Creditable(Head(todo[r]))
      BY <1>2, <1>5, <2>3 DEF CreditRefund
    <2>4. QED
      BY <2>2, <2>3
  <1>6. ASSUME NEW r \in Requests, SetWrite(r) \/ Adjust(r)
        PROVE  LedgerExplainsBalance'
    <2>1. Owner(r) \in Users /\ job[r].amount \in Int /\ job[r].amount - seen[r] \in Int
      BY <1>6, OwnersAreUsers DEF SetWrite, Adjust, Running, TypeOK
    <2>2. QED
      BY <1>2, <1>6, <2>1, PostExplained DEF SetWrite, Adjust, Kinds
  <1>7. ASSUME NEW r \in Requests, Start(r) \/ (Step(r) /\ ~ChargeActor(r) /\ ~ChargeUpstream(r)
                 /\ ~CreditRefund(r) /\ ~SetWrite(r) /\ ~Adjust(r))
        PROVE  UNCHANGED books
    BY <1>7 DEF Start, Step, TakeLock, ClimbOne, LockWallets, ChargeNothing, RefuseCharge,
       TargetsKnown, SkipUpstream, UpstreamShort, ChargeDone, CallPanel, CheckRefund, SetRead
  <1>8. CASE ChangeParent \/ UNCHANGED vars
    BY <1>2, <1>8 DEF ChangeParent, vars, books
  <1>9. QED
    BY <1>1, <1>2, <1>3, <1>4, <1>5, <1>6, <1>7, <1>8 DEF Next, Rest, Step

\* The ledger of every wallet explains its balance, whatever the requests, and however
\* charges, refunds, sets, adjustments and resets interleave.
THEOREM LedgersExplainBalances == Spec => []LedgerExplainsBalance
  <1>1. Init => LedgerExplainsBalance
    BY Emptiness DEF Init, LedgerExplainsBalance
  <1>2. WInv /\ LedgerExplainsBalance /\ [Next]_vars => LedgerExplainsBalance'
    BY ExplainedStep
  <1>3. QED
    BY <1>1, <1>2, WalletsInvariant, PTL DEF Spec
-------------------------------------------------------------------------------
\* A wallet change enters one row in one book, and leaves every other row as it was.
LEMMA PostRows ==
  ASSUME TypeOK, NEW u \in Users, NEW delta \in Int, NEW kind \in Kinds, NEW ref \in Nat,
         Post(u, delta, kind, ref)
  PROVE  /\ nextId' = nextId + 1
         /\ \A v \in Users : /\ Len(ledger[v]) \in Nat
                             /\ Len(ledger'[v]) = Len(ledger[v]) + (IF v = u THEN 1 ELSE 0)
                             /\ \A i \in 1..Len(ledger[v]) : ledger'[v][i] = ledger[v][i]
         /\ ledger'[u][Len(ledger[u]) + 1].id = nextId
         /\ ledger'[u][Len(ledger[u]) + 1].amount = delta
         /\ ledger'[u][Len(ledger[u]) + 1].kind = kind
         /\ ledger'[u][Len(ledger[u]) + 1].ref = ref
  <1> DEFINE row == [id |-> nextId, amount |-> delta, after |-> balance[u] + delta,
                     kind |-> kind, ref |-> ref]
  <1>1. \A v \in Users : ledger[v] \in Seq(Entry) /\ Len(ledger[v]) \in Nat
    BY DEF TypeOK
  <1>2. \A v \in Users : ledger'[v] = IF v = u THEN Append(ledger[u], row) ELSE ledger[v]
    BY DEF Post, TypeOK
  <1>3. /\ Len(Append(ledger[u], row)) = Len(ledger[u]) + 1
        /\ \A i \in 1..Len(ledger[u]) : Append(ledger[u], row)[i] = ledger[u][i]
        /\ Append(ledger[u], row)[Len(ledger[u]) + 1] = row
    BY <1>1
  <1>4. ASSUME NEW v \in Users
        PROVE  /\ Len(ledger[v]) \in Nat
               /\ Len(ledger'[v]) = Len(ledger[v]) + (IF v = u THEN 1 ELSE 0)
               /\ \A i \in 1..Len(ledger[v]) : ledger'[v][i] = ledger[v][i]
    <2>1. CASE v = u
      BY <1>1, <1>2, <1>3, <2>1
    <2>2. CASE v # u
      BY <1>1, <1>2, <2>2
    <2>3. QED
      BY <2>1, <2>2
  <1>5. nextId' = nextId + 1
    BY DEF Post
  <1>6. /\ ledger'[u][Len(ledger[u]) + 1].id = nextId
        /\ ledger'[u][Len(ledger[u]) + 1].amount = delta
        /\ ledger'[u][Len(ledger[u]) + 1].kind = kind
        /\ ledger'[u][Len(ledger[u]) + 1].ref = ref
    <2>1. ledger'[u][Len(ledger[u]) + 1] = row
      BY <1>2, <1>3
    <2>2. row.id = nextId /\ row.amount = delta /\ row.kind = kind /\ row.ref = ref
      OBVIOUS
    <2> HIDE DEF row
    <2>3. QED
      BY <2>1, <2>2
  <1>7. QED
    BY <1>4, <1>5, <1>6

\* A change that refers to a listed row, or to none, is a change of AtomicLedger.
LEMMA PostIsChange ==
  ASSUME TypeOK, NEW u \in Users, NEW delta \in Int, NEW kind \in Kinds, NEW ref \in Nat,
         Post(u, delta, kind, ref), ref # 0 => Books!Listed(u, ref)
  PROVE  Books!Change(u)
  <1> DEFINE row == [id |-> nextId, amount |-> delta, after |-> balance[u] + delta,
                     kind |-> kind, ref |-> ref]
  <1>1. ledger[u] \in Seq(Entry) /\ ledger'[u] = Append(ledger[u], row)
    BY DEF Post, TypeOK
  <1>2. Len(ledger'[u]) # 0 /\ ledger'[u][Len(ledger'[u])] = row
    BY <1>1
  <1>3. ledger'[u] # <<>>
    BY <1>2, Emptiness, Zenon
  <1>4. Books!LastRow(u)' = row
    BY <1>2 DEF Books!LastRow
  <1>5. /\ row.id = nextId /\ row.after = balance[u] + row.amount /\ row.ref = ref
        /\ row.after = balance[u] + delta
    OBVIOUS
  <1>6. ledger' = [ledger EXCEPT ![u] = Append(@, row)]
    BY DEF Post
  <1>7. balance' = [balance EXCEPT ![u] = row.after]
    BY <1>5 DEF Post, TypeOK
  <1>8. nextId' = nextId + 1
    BY DEF Post
  <1> HIDE DEF row
  <1>9. QED
    BY <1>3, <1>4, <1>5, <1>6, <1>7, <1>8 DEF Books!Change

\* Whatever changes the books is a change or a reset of one of them.
LEMMA BooksStep ==
  ASSUME WInv, [Next]_vars
  PROVE  [Books!Next]_(Books!vars)
  <1> USE DEF WInv
  <1>1. ASSUME NEW r \in Requests, Clear(r)
        PROVE  Books!Next
    <2>1. PICK j \in Jobs[r] : /\ ledger' = [ledger EXCEPT ![j.user] = <<>>]
                               /\ balance' = [balance EXCEPT ![j.user] = 0]
      BY <1>1 DEF Clear
    <2>2. j.user \in Users
      BY WalletsAssumption DEF Job
    <2>3. Books!Reset(j.user)
      BY <1>1, <2>1 DEF Clear, Books!Reset
    <2>4. QED
      BY <2>2, <2>3 DEF Books!Next
  <1>2. ASSUME NEW r \in Requests, ChargeActor(r)
        PROVE  Books!Next
    <2>1. Owner(r) \in Users
      BY <1>2, OwnersAreUsers DEF ChargeActor, Running
    <2>2. QED
      BY <1>2, <2>1, ChargeTyped, PostIsChange DEF ChargeActor, Kinds, Books!Next
  <1>3. ASSUME NEW r \in Requests, ChargeUpstream(r)
        PROVE  Books!Next
    <2>1. Head(targets[r]) \in Users
      BY <1>3 DEF ChargeUpstream, TypeOK
    <2>2. QED
      BY <1>3, <2>1, ChargeTyped, PostIsChange DEF ChargeUpstream, Kinds, Books!Next
  <1>4. ASSUME NEW r \in Requests, CreditRefund(r)
        PROVE  Books!Next \/ UNCHANGED books
    <2>1. Head(todo[r]) \in Tx
      BY <1>4, FirstTx DEF CreditRefund, Pending, TypeOK
    <2>2. CASE Creditable(Head(todo[r]))
      BY <1>4, <2>1, <2>2, PostIsChange
      DEF CreditRefund, Kinds, Tx, Creditable, InLedger, Books!Listed, Books!Next
    <2>3. CASE ~Creditable(Head(todo[r]))
      BY <1>4, <2>3 DEF CreditRefund
    <2>4. QED
      BY <2>2, <2>3
  <1>5. ASSUME NEW r \in Requests, SetWrite(r) \/ Adjust(r)
        PROVE  Books!Next \/ UNCHANGED books
    <2>1. Owner(r) \in Users /\ job[r].amount \in Int /\ job[r].amount - seen[r] \in Int
      BY <1>5, OwnersAreUsers DEF SetWrite, Adjust, Running, TypeOK
    <2>2. QED
      BY <1>5, <2>1, PostIsChange DEF SetWrite, Adjust, Kinds, Books!Next
  <1>6. ASSUME NEW r \in Requests, Start(r) \/ (Step(r) /\ ~ChargeActor(r) /\ ~ChargeUpstream(r)
                 /\ ~CreditRefund(r) /\ ~SetWrite(r) /\ ~Adjust(r))
        PROVE  UNCHANGED books
    BY <1>6 DEF Start, Step, TakeLock, ClimbOne, LockWallets, ChargeNothing, RefuseCharge,
       TargetsKnown, SkipUpstream, UpstreamShort, ChargeDone, CallPanel, CheckRefund, SetRead
  <1>7. CASE ChangeParent \/ UNCHANGED vars
    BY <1>7 DEF ChangeParent, vars, books, Books!vars
  <1>8. QED
    BY <1>1, <1>2, <1>3, <1>4, <1>5, <1>6, <1>7 DEF Next, Rest, Step, books, Books!vars

\* Wallets implements AtomicLedger.
THEOREM WalletsImplementBooks == Spec => KeepsBooks
  <1>1. Init => Books!Init
    BY DEF Init, Books!Init
  <1>2. WInv /\ [Next]_vars => [Books!Next]_(Books!vars)
    BY BooksStep
  <1>3. QED
    BY <1>1, <1>2, WalletsInvariant, PTL DEF Spec, KeepsBooks, Books!Spec
-------------------------------------------------------------------------------
(* Refunds, for any admins, prices, parents, requests and jobs: each one in a     *)
(* ledger answers one charge, and an operation that succeeded stays paid.         *)

\* What no row has been given yet, no row has or refers to.
IdsBelowNext ==
    \A u \in Users : \A i \in 1..Len(ledger[u]) :
        ledger[u][i].id < nextId /\ ledger[u][i].ref < nextId

\* The row of tx, as long as it is listed, is its charge.
PostedAs(tx) ==
    \A u \in Users : \A k \in 1..Len(ledger[u]) : ledger[u][k].id = tx.id =>
        ledger[u][k].kind = "charge" /\ ledger[u][k].amount = -tx.amount

\* The transactions of a request have been posted.
ChargesPosted ==
    \A r \in Requests : \A i \in 1..Len(txs[r]) :
        txs[r][i].id < nextId /\ PostedAs(txs[r][i])

\* No two requests have a transaction in common.
ChargesOwned ==
    \A r, s \in Requests : \A i \in 1..Len(txs[r]) : \A j \in 1..Len(txs[s]) :
        txs[r][i].id = txs[s][j].id => r = s

\* A request refunds its own transactions.
RefundsOwn ==
    \A r \in Requests : pc[r] \in {"refunding", "crediting"} =>
        \A i \in 1..Len(todo[r]) : \E j \in 1..Len(txs[r]) : todo[r][i] = txs[r][j]

\* What was found not refunded is not refunded when the credit is made.
CreditsOnce ==
    \A r \in Requests : pc[r] = "crediting" => ~Refunded(Head(todo[r]))

\* Only a request that fails has transactions refunded.
PaidUnlessFailing ==
    \A r \in Requests : pc[r] \notin {"refunding", "crediting", "failed"} =>
        \A i \in 1..Len(txs[r]) : ~Refunded(txs[r][i])

RInv == /\ IdsBelowNext
        /\ ChargesPosted
        /\ ChargesOwned
        /\ RefundsOwn
        /\ CreditsOnce
        /\ PaidUnlessFailing
        /\ RefundsAnswerCharges

Failing == {"refunding", "crediting", "failed"}
-------------------------------------------------------------------------------
\* Every row listed is an entry.
LEMMA RowTyped ==
  ASSUME TypeOK, NEW v \in Users, NEW i \in 1..Len(ledger[v])
  PROVE  ledger[v][i] \in Entry
  <1>1. ledger[v] \in Seq(Entry)
    BY DEF TypeOK
  <1>2. QED
    BY <1>1

\* After a wallet change a row is one that was there, or the one entered.
LEMMA OldOrNew ==
  ASSUME TypeOK, NEW u \in Users, NEW delta \in Int, NEW kind \in Kinds, NEW ref \in Nat,
         Post(u, delta, kind, ref), NEW v \in Users, NEW i \in 1..Len(ledger'[v])
  PROVE  \/ i \in 1..Len(ledger[v]) /\ ledger'[v][i] = ledger[v][i]
         \/ /\ v = u
            /\ i = Len(ledger[v]) + 1
            /\ ledger'[v][i].id = nextId
            /\ ledger'[v][i].amount = delta
            /\ ledger'[v][i].kind = kind
            /\ ledger'[v][i].ref = ref
  <1>1. /\ Len(ledger[v]) \in Nat
        /\ Len(ledger'[v]) = Len(ledger[v]) + (IF v = u THEN 1 ELSE 0)
        /\ \A k \in 1..Len(ledger[v]) : ledger'[v][k] = ledger[v][k]
    BY PostRows
  <1>2. CASE i \in 1..Len(ledger[v])
    BY <1>1, <1>2
  <1>3. CASE i \notin 1..Len(ledger[v])
    <2>1. v = u /\ i = Len(ledger[v]) + 1
      <3>1. CASE v = u
        BY <1>1, <1>3, <3>1
      <3>2. CASE v # u
        BY <1>1, <1>3, <3>2
      <3>3. QED
        BY <3>1, <3>2
    <2>2. /\ ledger'[u][Len(ledger[u]) + 1].id = nextId
          /\ ledger'[u][Len(ledger[u]) + 1].amount = delta
          /\ ledger'[u][Len(ledger[u]) + 1].kind = kind
          /\ ledger'[u][Len(ledger[u]) + 1].ref = ref
      BY PostRows
    <2>3. QED
      BY <2>1, <2>2
  <1>4. QED
    BY <1>2, <1>3

\* What a wallet change does to each part.
LEMMA PostKeepsIds ==
  ASSUME TypeOK, IdsBelowNext, NEW u \in Users, NEW delta \in Int, NEW kind \in Kinds, NEW ref \in Nat,
         Post(u, delta, kind, ref), ref < nextId
  PROVE  IdsBelowNext'
  <1> SUFFICES ASSUME NEW v \in Users, NEW i \in 1..Len(ledger'[v])
               PROVE  ledger'[v][i].id < nextId' /\ ledger'[v][i].ref < nextId'
    BY DEF IdsBelowNext
  <1>1. nextId \in Nat /\ nextId' = nextId + 1
    BY PostRows DEF TypeOK
  <1>2. CASE i \in 1..Len(ledger[v]) /\ ledger'[v][i] = ledger[v][i]
    <2>1. ledger[v][i] \in Entry
      BY <1>2, RowTyped
    <2>2. ledger[v][i].id < nextId /\ ledger[v][i].ref < nextId
      BY <1>2 DEF IdsBelowNext
    <2>3. QED
      BY <1>1, <1>2, <2>1, <2>2 DEF Entry
  <1>3. CASE ledger'[v][i].id = nextId /\ ledger'[v][i].ref = ref
    BY <1>1, <1>3
  <1>4. QED
    BY <1>2, <1>3, OldOrNew

LEMMA PostKeepsCharge ==
  ASSUME TypeOK, NEW u \in Users, NEW delta \in Int, NEW kind \in Kinds, NEW ref \in Nat,
         Post(u, delta, kind, ref), NEW tx \in Tx, tx.id < nextId, PostedAs(tx)
  PROVE  PostedAs(tx)'
  <1> SUFFICES ASSUME NEW v \in Users, NEW k \in 1..Len(ledger'[v]), ledger'[v][k].id = tx.id
               PROVE  ledger'[v][k].kind = "charge" /\ ledger'[v][k].amount = -tx.amount
    BY DEF PostedAs
  <1>1. CASE k \in 1..Len(ledger[v]) /\ ledger'[v][k] = ledger[v][k]
    BY <1>1 DEF PostedAs
  <1>2. CASE ledger'[v][k].id = nextId
    <2>1. nextId \in Nat /\ tx.id \in Nat
      BY DEF TypeOK, Tx
    <2>2. QED
      BY <1>2, <2>1
  <1>3. QED
    BY <1>1, <1>2, OldOrNew

LEMMA NewChargePosted ==
  ASSUME TypeOK, IdsBelowNext, NEW u \in Users, NEW tx \in Tx, tx.id = nextId,
         Post(u, -tx.amount, "charge", 0)
  PROVE  PostedAs(tx)'
  <1> SUFFICES ASSUME NEW v \in Users, NEW k \in 1..Len(ledger'[v]), ledger'[v][k].id = tx.id
               PROVE  ledger'[v][k].kind = "charge" /\ ledger'[v][k].amount = -tx.amount
    BY DEF PostedAs
  <1>1. -tx.amount \in Int /\ "charge" \in Kinds /\ 0 \in Nat
    BY DEF Tx, Kinds
  <1>2. CASE k \in 1..Len(ledger[v]) /\ ledger'[v][k] = ledger[v][k]
    <2>1. ledger[v][k] \in Entry /\ ledger[v][k].id < nextId /\ nextId \in Nat
      BY <1>2, RowTyped DEF IdsBelowNext, TypeOK
    <2>2. QED
      BY <1>2, <2>1 DEF Entry
  <1>3. CASE ledger'[v][k].kind = "charge" /\ ledger'[v][k].amount = -tx.amount
    BY <1>3
  <1>4. QED
    BY <1>1, <1>2, <1>3, OldOrNew

\* Only a refund that refers to it makes a transaction refunded.
LEMMA PostRefunds ==
  ASSUME TypeOK, NEW u \in Users, NEW delta \in Int, NEW kind \in Kinds, NEW ref \in Nat,
         Post(u, delta, kind, ref), NEW tx \in Tx, Refunded(tx)'
  PROVE  Refunded(tx) \/ (kind = "refund" /\ ref = tx.id)
  <1>1. PICK v \in Users : v = tx.user
    BY DEF Tx
  <1>2. PICK i \in 1..Len(ledger'[v]) : /\ ledger'[v][i].kind = "refund"
                                       /\ ledger'[v][i].ref = tx.id
    BY <1>1 DEF Refunded
  <1>3. CASE i \in 1..Len(ledger[v]) /\ ledger'[v][i] = ledger[v][i]
    BY <1>1, <1>2, <1>3 DEF Refunded
  <1>4. CASE ledger'[v][i].kind = kind /\ ledger'[v][i].ref = ref
    BY <1>2, <1>4
  <1>5. QED
    BY <1>3, <1>4, OldOrNew

\* A transaction not yet given its id has no refund.
LEMMA NewNotRefunded ==
  ASSUME TypeOK, IdsBelowNext, NEW tx \in Tx, tx.id = nextId
  PROVE  ~Refunded(tx)
  <1> SUFFICES ASSUME Refunded(tx)
               PROVE  FALSE
    OBVIOUS
  <1>1. tx.user \in Users
    BY DEF Tx
  <1>2. PICK i \in 1..Len(ledger[tx.user]) : ledger[tx.user][i].ref = tx.id
    BY DEF Refunded
  <1>3. ledger[tx.user][i] \in Entry /\ ledger[tx.user][i].ref < nextId
    BY <1>1, <1>2 DEF IdsBelowNext, TypeOK
  <1>4. QED
    BY <1>2, <1>3 DEF Entry, TypeOK

LEMMA PostAnswers ==
  ASSUME TypeOK, RefundsAnswerCharges, NEW u \in Users, NEW delta \in Int, NEW kind \in Kinds,
         NEW ref \in Nat, Post(u, delta, kind, ref),
         kind = "refund" =>
            /\ \E j \in 1..Len(ledger[u]) : /\ ledger[u][j].id = ref
                                            /\ ledger[u][j].kind = "charge"
                                            /\ ledger[u][j].amount = -delta
            /\ \A j \in 1..Len(ledger[u]) : ~(ledger[u][j].kind = "refund" /\ ledger[u][j].ref = ref)
  PROVE  RefundsAnswerCharges'
  <1> SUFFICES ASSUME NEW v \in Users, NEW i \in 1..Len(ledger'[v]), ledger'[v][i].kind = "refund"
               PROVE  /\ \E j \in 1..(i - 1) : /\ ledger'[v][j].id = ledger'[v][i].ref
                                               /\ ledger'[v][j].kind = "charge"
                                               /\ ledger'[v][j].amount = -ledger'[v][i].amount
                      /\ \A k \in 1..Len(ledger'[v]) :
                            (ledger'[v][k].kind = "refund" /\ ledger'[v][k].ref = ledger'[v][i].ref)
                              => k = i
    BY DEF RefundsAnswerCharges
  <1> DEFINE n == Len(ledger[v])
  <1>1. /\ n \in Nat
        /\ \A k \in 1..n : ledger'[v][k] = ledger[v][k]
        /\ \A k \in 1..Len(ledger'[v]) : k \notin 1..n => v = u /\ k = n + 1
        /\ \A k \in 1..Len(ledger'[v]) : k \notin 1..n => /\ ledger'[v][k].kind = kind
                                                        /\ ledger'[v][k].ref = ref
                                                        /\ ledger'[v][k].amount = delta
    <2>1. n \in Nat /\ \A k \in 1..n : ledger'[v][k] = ledger[v][k]
      BY PostRows
    <2>2. ASSUME NEW k \in 1..Len(ledger'[v]), k \notin 1..n
          PROVE  /\ v = u /\ k = n + 1
                 /\ ledger'[v][k].kind = kind
                 /\ ledger'[v][k].ref = ref
                 /\ ledger'[v][k].amount = delta
      BY <2>2, OldOrNew
    <2>3. QED
      BY <2>1, <2>2
  <1> HIDE DEF n
  <1>2. CASE i \in 1..n
    <2>1. PICK j \in 1..(i - 1) : /\ ledger[v][j].id = ledger[v][i].ref
                                  /\ ledger[v][j].kind = "charge"
                                  /\ ledger[v][j].amount = -ledger[v][i].amount
      BY <1>1, <1>2 DEF RefundsAnswerCharges, n
    <2>2. j \in 1..n
      BY <1>1, <1>2, <2>1
    <2>3. ASSUME NEW k \in 1..Len(ledger'[v]),
                 ledger'[v][k].kind = "refund", ledger'[v][k].ref = ledger'[v][i].ref
          PROVE  k = i
      <3>1. CASE k \in 1..n
        <4>1. /\ ledger[v][i].kind = "refund"
              /\ ledger[v][k].kind = "refund" /\ ledger[v][k].ref = ledger[v][i].ref
          BY <1>1, <1>2, <2>3, <3>1
        <4>2. QED
          BY <1>2, <3>1, <4>1 DEF RefundsAnswerCharges, n
      <3>2. CASE k \notin 1..n
        <4>1. v = u /\ kind = "refund" /\ ref = ledger[v][i].ref
          BY <1>1, <1>2, <2>3, <3>2
        <4>2. ledger[v][i].kind = "refund"
          BY <1>1, <1>2
        <4>3. QED
          BY <1>2, <4>1, <4>2 DEF n
      <3>3. QED
        BY <3>1, <3>2
    <2>4. QED
      BY <1>1, <1>2, <2>1, <2>2, <2>3
  <1>3. CASE i \notin 1..n
    <2>1. v = u /\ i = n + 1 /\ kind = "refund"
      BY <1>1, <1>3
    <2>2. PICK j \in 1..n : /\ ledger[v][j].id = ref
                            /\ ledger[v][j].kind = "charge"
                            /\ ledger[v][j].amount = -delta
      BY <2>1 DEF n
    <2>3. j \in 1..(i - 1)
      BY <1>1, <2>1, <2>2
    <2>4. ASSUME NEW k \in 1..Len(ledger'[v]),
                 ledger'[v][k].kind = "refund", ledger'[v][k].ref = ledger'[v][i].ref
          PROVE  k = i
      <3>1. CASE k \in 1..n
        <4>1. ledger[v][k].kind = "refund" /\ ledger[v][k].ref = ref
          BY <1>1, <1>3, <2>4, <3>1
        <4>2. QED
          BY <2>1, <3>1, <4>1 DEF n
      <3>2. CASE k \notin 1..n
        BY <1>1, <2>1, <3>2
      <3>3. QED
        BY <3>1, <3>2
    <2>5. /\ ledger'[v][j].id = ledger'[v][i].ref
          /\ ledger'[v][j].kind = "charge"
          /\ ledger'[v][j].amount = -ledger'[v][i].amount
      BY <1>1, <1>3, <2>2
    <2>6. QED
      BY <2>3, <2>4, <2>5
  <1>4. QED
    BY <1>2, <1>3
-------------------------------------------------------------------------------
\* The transactions of a request, and the head of those it has to refund, are transactions.
LEMMA TxTyped ==
  ASSUME WInv, NEW r \in Requests
  PROVE  /\ \A i \in 1..Len(txs[r]) : txs[r][i] \in Tx
         /\ Len(txs[r]) \in Nat /\ Len(todo[r]) \in Nat
         /\ pc[r] \in {"refunding", "crediting"} => Head(todo[r]) \in Tx /\ Head(todo[r]) = todo[r][1]
                                                  /\ Len(todo[r]) > 0
  <1>1. txs[r] \in Seq(Tx) /\ todo[r] \in Seq(Tx)
    BY DEF WInv, TypeOK
  <1>2. ASSUME pc[r] \in {"refunding", "crediting"}
        PROVE  Head(todo[r]) \in Tx /\ Head(todo[r]) = todo[r][1] /\ Len(todo[r]) > 0
    <2>1. todo[r] # <<>>
      BY <1>2 DEF WInv, Pending
    <2>2. QED
      BY <1>1, <2>1
  <1>3. QED
    BY <1>1, <1>2

\* What a request credits is one of its own transactions.
LEMMA HeadIsOwn ==
  ASSUME WInv, RInv, NEW r \in Requests, pc[r] \in {"refunding", "crediting"}
  PROVE  \E j \in 1..Len(txs[r]) : Head(todo[r]) = txs[r][j]
  BY TxTyped DEF RInv, RefundsOwn

\* A step of r that leaves the books and the transactions alone.
LEMMA QuietStep ==
  ASSUME WInv, RInv, NEW r \in Requests, UNCHANGED <<books, txs>>,
         \A s \in Requests \ {r} : pc'[s] = pc[s] /\ todo'[s] = todo[s],
         pc'[r] \in {"refunding", "crediting"} =>
            \A i \in 1..Len(todo'[r]) : \E j \in 1..Len(txs[r]) : todo'[r][i] = txs[r][j],
         pc'[r] = "crediting" => ~Refunded(Head(todo'[r])),
         pc'[r] \notin Failing => pc[r] \notin Failing
  PROVE  RInv'
  <1> USE DEF RInv
  <1>1. IdsBelowNext' /\ ChargesPosted' /\ ChargesOwned' /\ RefundsAnswerCharges'
    BY DEF books, IdsBelowNext, ChargesPosted, PostedAs, ChargesOwned, RefundsAnswerCharges
  <1>2. RefundsOwn'
    BY DEF RefundsOwn
  <1>3. CreditsOnce'
    BY DEF CreditsOnce, Refunded, books
  <1>4. PaidUnlessFailing'
    BY DEF PaidUnlessFailing, Refunded, books, Failing
  <1>5. QED
    BY <1>1, <1>2, <1>3, <1>4

LEMMA QuietActions ==
  ASSUME WInv, RInv, NEW r \in Requests, UNCHANGED <<books, txs>>,
         Start(r) \/ Step(r)
  PROVE  RInv'
  <1> DEFINE Own == pc'[r] \in {"refunding", "crediting"} =>
            \A i \in 1..Len(todo'[r]) : \E j \in 1..Len(txs[r]) : todo'[r][i] = txs[r][j]
             Fresh == pc'[r] = "crediting" => ~Refunded(Head(todo'[r]))
             Onward == pc'[r] \notin Failing => pc[r] \notin Failing
  <1>1. \A s \in Requests \ {r} : pc'[s] = pc[s] /\ todo'[s] = todo[s]
    BY OthersKept DEF WInv
  <1>2. TypeOK
    BY DEF WInv
  <1>3. CASE \/ Start(r) \/ LockWallets(r) \/ ChargeNothing(r) \/ RefuseCharge(r) \/ TargetsKnown(r)
             \/ ChargeDone(r) \/ SetRead(r) \/ SetWrite(r) \/ Adjust(r) \/ ChargeActor(r)
    <2>1. pc'[r] \notin {"refunding", "crediting"} /\ pc[r] \notin Failing
      BY <1>2, <1>3 DEF Start, LockWallets, ChargeNothing, RefuseCharge, TargetsKnown, ChargeDone,
         SetRead, SetWrite, Adjust, ChargeActor, Running, End, GoTo, TypeOK, Failing
    <2>2. Own /\ Fresh /\ Onward
      BY <2>1
    <2>3. QED
      BY <1>1, <2>2, QuietStep
  <1>4. CASE TakeLock(r) \/ ClimbOne(r) \/ SkipUpstream(r) \/ ChargeUpstream(r)
    <2>1. UNCHANGED <<pc, todo>>
      BY <1>4 DEF TakeLock, ClimbOne, SkipUpstream, ChargeUpstream
    <2>2. Own /\ Fresh /\ Onward
      BY <2>1 DEF RInv, RefundsOwn, CreditsOnce
    <2>3. QED
      BY <1>1, <2>2, QuietStep
  <1>5. CASE UpstreamShort(r)
    <2>1. /\ pc[r] = "upstream" /\ pc'[r] = "refunding"
          /\ todo'[r] = <<txs[r][1]>>
      BY <1>2, <1>5 DEF UpstreamShort, Running, GoTo, TypeOK
    <2>2. 1 \in 1..Len(txs[r])
      <3>1. txs[r] \in Seq(Tx) /\ txs[r] # <<>>
        BY <2>1 DEF WInv, TypeOK, Pending
      <3>2. QED
        BY <3>1
    <2>3. Own
      BY <2>1, <2>2
    <2>4. Fresh /\ Onward
      BY <2>1 DEF Failing
    <2>5. QED
      BY <1>1, <2>3, <2>4, QuietStep
  <1>6. CASE CallPanel(r)
    <2>1. /\ pc[r] = "panel"
          /\ pc'[r] \in {"succeeded", "failed"} \/ (pc'[r] = "refunding" /\ todo'[r] = txs[r])
      BY <1>2, <1>6 DEF CallPanel, GoTo, TypeOK
    <2>2. Own /\ Fresh /\ Onward
      BY <2>1 DEF Failing
    <2>3. QED
      BY <1>1, <2>2, QuietStep
  <1>7. CASE CheckRefund(r)
    <2>1. /\ pc[r] = "refunding" /\ todo'[r] = todo[r]
          /\ \/ pc'[r] = "failed"
             \/ pc'[r] = "crediting" /\ ~Refunded(Head(todo[r]))
      BY <1>2, <1>7 DEF CheckRefund, End, GoTo, TypeOK
    <2>2. Own /\ Fresh /\ Onward
      BY <2>1 DEF RInv, RefundsOwn, Failing
    <2>3. QED
      BY <1>1, <2>2, QuietStep
  <1>8. CASE CreditRefund(r)
    <2>1. pc[r] = "crediting"
      BY <1>8 DEF CreditRefund
    <2>2. ~Creditable(Head(todo[r]))
      <3>1. nextId \in Nat /\ nextId' = nextId
        BY <1>2 DEF TypeOK, books
      <3>2. QED
        BY <1>8, <3>1 DEF CreditRefund, Post
    <2>3. pc'[r] = "failed"
      BY <1>2, <1>8, <2>2 DEF CreditRefund, End, GoTo, TypeOK
    <2>4. Own /\ Fresh /\ Onward
      BY <2>3 DEF Failing
    <2>5. QED
      BY <1>1, <2>4, QuietStep
  <1>9. QED
    BY <1>3, <1>4, <1>5, <1>6, <1>7, <1>8 DEF Step
-------------------------------------------------------------------------------
\* A change that is no refund: a charge adds a transaction to those of r, any other change
\* none; r is not failing.
LEMMA PaymentStep ==
  ASSUME WInv, RInv, NEW r \in Requests, NEW u \in Users, NEW delta \in Int,
         NEW kind \in Kinds \ {"refund"}, Post(u, delta, kind, 0), NEW new \in Tx,
         \A s \in Requests \ {r} : pc'[s] = pc[s] /\ txs'[s] = txs[s] /\ todo'[s] = todo[s],
         \A i \in 1..Len(txs'[r]) :
            \/ i \in 1..Len(txs[r]) /\ txs'[r][i] = txs[r][i]
            \/ txs'[r][i] = new /\ new.id = nextId /\ kind = "charge" /\ delta = -new.amount,
         pc[r] \notin Failing, pc'[r] \notin Failing
  PROVE  RInv'
  <1> USE DEF RInv
  <1>1. TypeOK /\ kind \in Kinds /\ 0 \in Nat /\ nextId \in Nat /\ 0 < nextId /\ nextId' = nextId + 1
    BY DEF WInv, TypeOK, Post
  <1>2. IdsBelowNext'
    BY <1>1, PostKeepsIds
  <1>3. RefundsAnswerCharges'
    BY <1>1, PostAnswers
  <1>4. ASSUME NEW tx \in Tx, Refunded(tx)'
        PROVE  Refunded(tx)
    BY <1>1, <1>4, PostRefunds
  \* Each transaction of a request is an old one of the same request, or the new one of r.
  <1>5. ASSUME NEW s \in Requests, NEW i \in 1..Len(txs'[s])
        PROVE  \/ i \in 1..Len(txs[s]) /\ txs'[s][i] = txs[s][i]
               \/ s = r /\ txs'[s][i] = new /\ new.id = nextId /\ kind = "charge" /\ delta = -new.amount
    <2>1. CASE s = r
      BY <2>1
    <2>2. CASE s # r
      BY <2>2
    <2>3. QED
      BY <2>1, <2>2
  <1>6. ASSUME NEW s \in Requests, NEW i \in 1..Len(txs[s])
        PROVE  txs[s][i] \in Tx /\ txs[s][i].id < nextId /\ txs[s][i].id \in Nat
    BY TxTyped DEF ChargesPosted, Tx
  <1>7. ChargesPosted'
    <2> SUFFICES ASSUME NEW s \in Requests, NEW i \in 1..Len(txs'[s])
                 PROVE  txs'[s][i].id < nextId' /\ PostedAs(txs[s][i])'
      BY DEF ChargesPosted
    <2>1. CASE i \in 1..Len(txs[s]) /\ txs'[s][i] = txs[s][i]
      <3>1. PICK tx \in Tx : tx = txs[s][i]
        BY <1>6, <2>1
      <3>2. tx.id < nextId /\ tx.id \in Nat /\ PostedAs(tx)
        BY <1>6, <2>1, <3>1 DEF ChargesPosted
      <3>3. PostedAs(tx)'
        BY <1>1, <3>2, PostKeepsCharge
      <3>4. QED
        BY <1>1, <2>1, <3>1, <3>2, <3>3 DEF PostedAs
    <2>2. CASE txs'[s][i] = new /\ new.id = nextId /\ kind = "charge" /\ delta = -new.amount
      <3>1. PostedAs(new)'
        BY <1>1, <2>2, NewChargePosted
      <3>2. QED
        BY <1>1, <2>2, <3>1 DEF PostedAs
    <2>3. QED
      BY <1>5, <2>1, <2>2
  <1>8. ChargesOwned'
    <2> SUFFICES ASSUME NEW s \in Requests, NEW q \in Requests,
                        NEW i \in 1..Len(txs'[s]), NEW j \in 1..Len(txs'[q]),
                        txs'[s][i].id = txs'[q][j].id
                 PROVE  s = q
      BY DEF ChargesOwned
    <2>1. CASE i \in 1..Len(txs[s]) /\ txs'[s][i] = txs[s][i]
      <3>1. CASE j \in 1..Len(txs[q]) /\ txs'[q][j] = txs[q][j]
        BY <2>1, <3>1 DEF ChargesOwned
      <3>2. CASE txs'[q][j].id = nextId
        BY <1>1, <1>6, <2>1, <3>2
      <3>3. QED
        BY <1>5, <3>1, <3>2
    <2>2. CASE s = r /\ txs'[s][i].id = nextId
      <3>1. CASE j \in 1..Len(txs[q]) /\ txs'[q][j] = txs[q][j]
        BY <1>1, <1>6, <2>2, <3>1
      <3>2. CASE q = r
        BY <2>2, <3>2
      <3>3. QED
        BY <1>5, <3>1, <3>2
    <2>3. QED
      BY <1>5, <2>1, <2>2
  <1>9. RefundsOwn'
    BY DEF RefundsOwn, Failing
  <1>10. CreditsOnce'
    <2> SUFFICES ASSUME NEW s \in Requests, pc'[s] = "crediting"
                 PROVE  ~Refunded(Head(todo[s]))'
      BY DEF CreditsOnce
    <2>1. s # r /\ pc[s] = "crediting" /\ todo'[s] = todo[s]
      BY DEF Failing
    <2>2. PICK tx \in Tx : tx = Head(todo[s])
      BY <2>1, TxTyped
    <2>3. ~Refunded(tx)'
      BY <1>4, <2>1, <2>2 DEF CreditsOnce
    <2>4. QED
      BY <2>1, <2>2, <2>3 DEF Refunded
  <1>11. PaidUnlessFailing'
    <2> SUFFICES ASSUME NEW s \in Requests, pc'[s] \notin Failing, NEW i \in 1..Len(txs'[s])
                 PROVE  ~Refunded(txs[s][i])'
      BY DEF PaidUnlessFailing, Failing
    <2>1. pc[s] \notin Failing
      OBVIOUS
    <2>2. CASE i \in 1..Len(txs[s]) /\ txs'[s][i] = txs[s][i]
      <3>1. PICK tx \in Tx : tx = txs[s][i]
        BY <1>6, <2>2
      <3>2. ~Refunded(tx)'
        BY <1>4, <2>1, <2>2, <3>1 DEF PaidUnlessFailing, Failing
      <3>3. QED
        BY <2>2, <3>1, <3>2 DEF Refunded
    <2>3. CASE txs'[s][i] = new /\ new.id = nextId
      <3>1. ~Refunded(new)'
        BY <1>1, <1>4, <2>3, NewNotRefunded
      <3>2. QED
        BY <2>3, <3>1 DEF Refunded
    <2>4. QED
      BY <1>5, <2>2, <2>3
  <1>12. QED
    BY <1>2, <1>3, <1>7, <1>8, <1>9, <1>10, <1>11

\* The credit of a refund that is due.
LEMMA CreditStep ==
  ASSUME WInv, RInv, NEW r \in Requests, CreditRefund(r), Creditable(Head(todo[r]))
  PROVE  RInv'
  <1> USE DEF RInv
  <1>1. TypeOK /\ nextId \in Nat /\ pc[r] = "crediting" /\ txs' = txs
    BY DEF WInv, TypeOK, CreditRefund
  <1>2. PICK tx \in Tx : tx = Head(todo[r])
    BY <1>1, TxTyped
  <1>3. /\ tx.user \in Users /\ tx.amount \in Int /\ tx.id \in Nat /\ "refund" \in Kinds
        /\ Post(tx.user, tx.amount, "refund", tx.id)
    BY <1>2 DEF CreditRefund, Tx, Kinds
  <1>4. PICK own \in 1..Len(txs[r]) : tx = txs[r][own]
    BY <1>1, <1>2, HeadIsOwn
  <1>5. tx.id < nextId /\ PostedAs(tx)
    BY <1>4 DEF ChargesPosted
  <1>6. ~Refunded(tx)
    BY <1>1, <1>2 DEF CreditsOnce
  <1>7. IdsBelowNext'
    BY <1>1, <1>3, <1>5, PostKeepsIds
  <1>8. RefundsAnswerCharges'
    <2>1. \E j \in 1..Len(ledger[tx.user]) : /\ ledger[tx.user][j].id = tx.id
                                             /\ ledger[tx.user][j].kind = "charge"
                                             /\ ledger[tx.user][j].amount = -tx.amount
      BY <1>2, <1>3, <1>5 DEF Creditable, InLedger, PostedAs
    <2>2. \A j \in 1..Len(ledger[tx.user]) :
             ~(ledger[tx.user][j].kind = "refund" /\ ledger[tx.user][j].ref = tx.id)
      BY <1>6 DEF Refunded
    <2>3. QED
      BY <1>1, <1>3, <2>1, <2>2, PostAnswers
  <1>9. ASSUME NEW other \in Tx, Refunded(other)'
        PROVE  Refunded(other) \/ other.id = tx.id
    BY <1>1, <1>3, <1>9, PostRefunds
  <1>10. \A s \in Requests \ {r} : pc'[s] = pc[s] /\ todo'[s] = todo[s]
    BY <1>1, OthersKept DEF Step
  <1>11. pc'[r] \in {"refunding", "failed"} /\ todo'[r] = Tail(todo[r])
    BY <1>1 DEF CreditRefund, AfterCredit, End, GoTo, TypeOK
  <1>12. ChargesPosted'
    <2> SUFFICES ASSUME NEW s \in Requests, NEW i \in 1..Len(txs[s])
                 PROVE  txs[s][i].id < nextId' /\ PostedAs(txs[s][i])'
      BY <1>1 DEF ChargesPosted
    <2>1. PICK old \in Tx : old = txs[s][i]
      BY TxTyped
    <2>2. old.id < nextId /\ old.id \in Nat /\ PostedAs(old)
      BY <2>1 DEF ChargesPosted, Tx
    <2>3. PostedAs(old)' /\ nextId' = nextId + 1
      BY <1>1, <1>3, <2>2, PostKeepsCharge DEF Post
    <2>4. QED
      BY <1>1, <2>1, <2>2, <2>3 DEF PostedAs
  <1>13. ChargesOwned'
    BY <1>1 DEF ChargesOwned
  <1>14. RefundsOwn'
    <2> SUFFICES ASSUME NEW s \in Requests, pc'[s] \in {"refunding", "crediting"},
                        NEW i \in 1..Len(todo'[s])
                 PROVE  \E j \in 1..Len(txs[s]) : todo'[s][i] = txs[s][j]
      BY <1>1 DEF RefundsOwn
    <2>1. CASE s # r
      BY <1>10, <2>1 DEF RefundsOwn
    <2>2. CASE s = r
      <3>1. todo[r] \in Seq(Tx) /\ todo[r] # <<>>
        BY <1>1 DEF WInv, TypeOK, Pending
      <3>2. i + 1 \in 1..Len(todo[r]) /\ todo'[r][i] = todo[r][i + 1]
        <4>1. /\ Len(todo[r]) \in Nat /\ Len(todo[r]) > 0 /\ Len(Tail(todo[r])) = Len(todo[r]) - 1
              /\ \A k \in 1..Len(Tail(todo[r])) : Tail(todo[r])[k] = todo[r][k + 1]
          BY <3>1
        <4>2. i \in 1..Len(Tail(todo[r])) /\ todo'[r] = Tail(todo[r])
          BY <1>11, <2>2
        <4>3. QED
          BY <4>1, <4>2
      <3>3. QED
        BY <1>1, <2>2, <3>2 DEF RefundsOwn
    <2>3. QED
      BY <2>1, <2>2
  <1>15. CreditsOnce'
    <2> SUFFICES ASSUME NEW s \in Requests, pc'[s] = "crediting"
                 PROVE  ~Refunded(Head(todo[s]))'
      BY DEF CreditsOnce
    <2>1. s # r /\ pc[s] = "crediting" /\ todo'[s] = todo[s]
      BY <1>10, <1>11
    <2>2. PICK other \in Tx : other = Head(todo[s])
      BY <2>1, TxTyped
    <2>3. other.id # tx.id
      <3>1. PICK j \in 1..Len(txs[s]) : other = txs[s][j]
        BY <2>1, <2>2, HeadIsOwn
      <3>2. QED
        BY <1>4, <2>1, <3>1 DEF ChargesOwned
    <2>4. ~Refunded(other)'
      BY <1>9, <2>1, <2>2, <2>3 DEF CreditsOnce
    <2>5. QED
      BY <2>1, <2>2, <2>4 DEF Refunded
  <1>16. PaidUnlessFailing'
    <2> SUFFICES ASSUME NEW s \in Requests, pc'[s] \notin Failing, NEW i \in 1..Len(txs[s])
                 PROVE  ~Refunded(txs[s][i])'
      BY <1>1 DEF PaidUnlessFailing, Failing
    <2>1. s # r /\ pc[s] \notin Failing
      BY <1>10, <1>11 DEF Failing
    <2>2. PICK other \in Tx : other = txs[s][i]
      BY TxTyped
    <2>3. other.id # tx.id
      BY <1>4, <2>1, <2>2 DEF ChargesOwned
    <2>4. ~Refunded(other)'
      BY <1>9, <2>1, <2>2, <2>3 DEF PaidUnlessFailing, Failing
    <2>5. QED
      BY <1>1, <2>2, <2>4 DEF Refunded
  <1>17. QED
    BY <1>7, <1>8, <1>12, <1>13, <1>14, <1>15, <1>16

\* A reset takes rows away and adds none.
LEMMA ClearStep ==
  ASSUME WInv, RInv, NEW r \in Requests, Clear(r)
  PROVE  RInv'
  <1> USE DEF RInv
  <1>1. PICK u \in Users : ledger' = [ledger EXCEPT ![u] = <<>>]
    <2>1. PICK j \in Jobs[r] : ledger' = [ledger EXCEPT ![j.user] = <<>>]
      BY DEF Clear
    <2>2. j.user \in Users
      BY WalletsAssumption DEF Job
    <2>3. QED
      BY <2>1, <2>2
  <1>2. ASSUME NEW v \in Users
        PROVE  \/ Len(ledger'[v]) = 0
               \/ ledger'[v] = ledger[v]
    BY <1>1, Emptiness DEF WInv, TypeOK
  <1>3. UNCHANGED <<nextId, txs, todo>> /\ pc[r] = "new" /\ pc'[r] = "succeeded"
    BY DEF Clear, GoTo, WInv, TypeOK
  <1>4. \A s \in Requests \ {r} : pc'[s] = pc[s]
    BY OthersKept DEF WInv
  <1>5. ASSUME NEW tx \in Tx, Refunded(tx)'
        PROVE  Refunded(tx)
    <2>1. PICK v \in Users : v = tx.user
      BY DEF Tx
    <2>2. PICK i \in 1..Len(ledger'[v]) : ledger'[v][i].kind = "refund" /\ ledger'[v][i].ref = tx.id
      BY <1>5, <2>1 DEF Refunded
    <2>3. ledger'[v] = ledger[v]
      BY <1>2, <2>2
    <2>4. QED
      BY <2>1, <2>2, <2>3 DEF Refunded
  <1>6. IdsBelowNext'
    BY <1>2, <1>3 DEF IdsBelowNext
  <1>7. ChargesPosted'
    BY <1>2, <1>3 DEF ChargesPosted, PostedAs
  <1>8. ChargesOwned' /\ RefundsOwn'
    BY <1>3, <1>4 DEF ChargesOwned, RefundsOwn
  <1>9. CreditsOnce'
    <2> SUFFICES ASSUME NEW s \in Requests, pc'[s] = "crediting"
                 PROVE  ~Refunded(Head(todo[s]))'
      BY DEF CreditsOnce
    <2>1. pc[s] = "crediting"
      BY <1>3, <1>4
    <2>2. PICK tx \in Tx : tx = Head(todo[s])
      BY <2>1, TxTyped
    <2>3. ~Refunded(tx)'
      BY <1>5, <2>1, <2>2 DEF CreditsOnce
    <2>4. QED
      BY <1>3, <2>2, <2>3 DEF Refunded
  <1>10. PaidUnlessFailing'
    <2> SUFFICES ASSUME NEW s \in Requests, pc'[s] \notin Failing, NEW i \in 1..Len(txs[s])
                 PROVE  ~Refunded(txs[s][i])'
      BY <1>3 DEF PaidUnlessFailing, Failing
    <2>1. pc[s] \notin Failing
      BY <1>3, <1>4 DEF Failing
    <2>2. PICK tx \in Tx : tx = txs[s][i]
      BY TxTyped
    <2>3. ~Refunded(tx)'
      BY <1>5, <2>1, <2>2 DEF PaidUnlessFailing, Failing
    <2>4. QED
      BY <1>3, <2>2, <2>3 DEF Refunded
  <1>11. RefundsAnswerCharges'
    BY <1>2 DEF RefundsAnswerCharges
  <1>12. QED
    BY <1>6, <1>7, <1>8, <1>9, <1>10, <1>11

\* A charge adds the transaction it posted to those of the request.
LEMMA ChargeStep ==
  ASSUME WInv, RInv, NEW r \in Requests, ChargeActor(r) \/ ChargeUpstream(r)
  PROVE  RInv'
  <1> DEFINE New(u) == [id |-> nextId, user |-> u, amount |-> Price[u]]
  <1>1. TypeOK /\ txs[r] \in Seq(Tx)
    BY DEF WInv, TypeOK
  <1>2. \A s \in Requests \ {r} : pc'[s] = pc[s] /\ txs'[s] = txs[s] /\ todo'[s] = todo[s]
    BY <1>1, OthersKept DEF Step
  <1>3. pc[r] \notin Failing /\ pc'[r] \notin Failing
    BY <1>1 DEF ChargeActor, ChargeUpstream, Running, GoTo, TypeOK, Failing
  <1>4. \E u \in Users : /\ Post(u, -Price[u], "charge", 0)
                         /\ \/ txs'[r] = <<New(u)>>
                            \/ txs'[r] = Append(txs[r], New(u))
    <2>1. CASE ChargeActor(r)
      <3>1. Owner(r) \in Users
        BY <1>1, <2>1, OwnersAreUsers DEF ChargeActor, Running
      <3>2. QED
        BY <1>1, <2>1, <3>1 DEF ChargeActor, TypeOK
    <2>2. CASE ChargeUpstream(r)
      <3>1. Head(targets[r]) \in Users
        BY <1>1, <2>2 DEF ChargeUpstream, TypeOK
      <3>2. QED
        BY <1>1, <2>2, <3>1 DEF ChargeUpstream, TypeOK
    <2>3. QED
      BY <2>1, <2>2
  <1>5. PICK u \in Users : /\ Post(u, -Price[u], "charge", 0)
                          /\ \/ txs'[r] = <<New(u)>>
                             \/ txs'[r] = Append(txs[r], New(u))
    BY <1>4
  <1>6. New(u) \in Tx /\ -Price[u] \in Int /\ New(u).id = nextId /\ -Price[u] = -New(u).amount
    BY <1>1, ChargeTyped
  <1>7. PICK new \in Tx : new = New(u)
    BY <1>6
  <1> HIDE DEF New
  <1>8. ASSUME NEW i \in 1..Len(txs'[r])
        PROVE  \/ i \in 1..Len(txs[r]) /\ txs'[r][i] = txs[r][i]
               \/ txs'[r][i] = new
    <2>1. CASE txs'[r] = <<new>>
      BY <2>1
    <2>2. CASE txs'[r] = Append(txs[r], new)
      BY <1>1, <2>2
    <2>3. QED
      BY <1>5, <1>7, <2>1, <2>2
  <1>9. "charge" \in Kinds \ {"refund"}
    BY DEF Kinds
  <1>10. QED
    BY <1>2, <1>3, <1>5, <1>6, <1>7, <1>8, <1>9, PaymentStep

\* Setting and adjusting a wallet change no transaction of a request.
LEMMA ManualStep ==
  ASSUME WInv, RInv, NEW r \in Requests, SetWrite(r) \/ Adjust(r)
  PROVE  RInv'
  <1>1. TypeOK
    BY DEF WInv
  <1>2. \A s \in Requests \ {r} : pc'[s] = pc[s] /\ txs'[s] = txs[s] /\ todo'[s] = todo[s]
    BY <1>1, OthersKept DEF Step
  <1>3. pc[r] \notin Failing
    BY DEF SetWrite, Adjust, Running, Failing
  <1>4. UNCHANGED txs
    BY DEF SetWrite, Adjust
  <1>5. Owner(r) \in Users /\ job[r].amount \in Int /\ job[r].amount - seen[r] \in Int
    BY <1>1, OwnersAreUsers DEF SetWrite, Adjust, Running, TypeOK
  <1>6. CASE UNCHANGED books
    BY <1>4, <1>6, QuietActions DEF Step
  <1>7. ASSUME NEW delta \in Int, NEW kind \in Kinds \ {"refund"}, Post(Owner(r), delta, kind, 0),
               pc'[r] = "succeeded"
        PROVE  RInv'
    <2>1. PICK u \in Users : u = Owner(r)
      BY <1>5
    <2>2. PICK new \in Tx : TRUE
      <3>1. [id |-> 0, user |-> u, amount |-> 0] \in Tx
        BY DEF Tx
      <3>2. QED
        BY <3>1
    <2>3. pc'[r] \notin Failing
      BY <1>7 DEF Failing
    <2>4. Post(u, delta, kind, 0)
      BY <1>7, <2>1
    <2>5. QED
      BY <1>2, <1>3, <1>4, <2>3, <2>4, PaymentStep
  <1>8. CASE SetWrite(r)
    BY <1>1, <1>5, <1>7, <1>8 DEF SetWrite, End, GoTo, TypeOK, Kinds
  <1>9. CASE Adjust(r)
    <2>1. CASE UNCHANGED books
      BY <1>6, <2>1
    <2>2. CASE Post(Owner(r), job[r].amount, "manual_adjust", 0) /\ End(r, "succeeded")
      BY <1>1, <1>5, <1>7, <2>2 DEF End, GoTo, TypeOK, Kinds
    <2>3. QED
      BY <1>9, <2>1, <2>2 DEF Adjust
  <1>10. QED
    BY <1>8, <1>9

LEMMA RInvStep ==
  ASSUME WInv, RInv, [Next]_vars
  PROVE  RInv'
  <1>1. CASE ChangeParent \/ UNCHANGED vars
    <2>1. UNCHANGED <<books, txs, pc, todo>>
      BY <1>1 DEF ChangeParent, vars
    <2>2. QED
      BY <2>1 DEF books, RInv, IdsBelowNext, ChargesPosted, PostedAs, ChargesOwned, RefundsOwn,
         CreditsOnce, Refunded, PaidUnlessFailing, RefundsAnswerCharges
  <1>2. ASSUME NEW r \in Requests, Start(r) \/ (Step(r) /\ ~ChargeActor(r) /\ ~ChargeUpstream(r)
                 /\ ~CreditRefund(r) /\ ~SetWrite(r) /\ ~Adjust(r))
        PROVE  RInv'
    <2>1. UNCHANGED <<books, txs>>
      BY <1>2 DEF Start, Step, TakeLock, ClimbOne, LockWallets, ChargeNothing, RefuseCharge,
         TargetsKnown, SkipUpstream, UpstreamShort, ChargeDone, CallPanel, CheckRefund, SetRead
    <2>2. QED
      BY <1>2, <2>1, QuietActions
  <1>3. ASSUME NEW r \in Requests, CreditRefund(r)
        PROVE  RInv'
    <2>1. CASE Creditable(Head(todo[r]))
      BY <1>3, <2>1, CreditStep
    <2>2. CASE ~Creditable(Head(todo[r]))
      BY <1>3, <2>2, QuietActions DEF CreditRefund, Step
    <2>3. QED
      BY <2>1, <2>2
  <1>4. QED
    BY <1>1, <1>2, <1>3, ClearStep, ChargeStep, ManualStep DEF Next, Rest, Step

LEMMA InitRInv == Init => RInv
  <1> SUFFICES ASSUME Init
               PROVE  RInv
    OBVIOUS
  <1>1. /\ \A u \in Users : Len(ledger[u]) = 0
        /\ \A r \in Requests : Len(txs[r]) = 0 /\ pc[r] = "new"
    BY Emptiness DEF Init
  <1>2. QED
    BY <1>1 DEF RInv, IdsBelowNext, ChargesPosted, ChargesOwned, RefundsOwn, CreditsOnce,
       PaidUnlessFailing, RefundsAnswerCharges

THEOREM RefundsInvariant == Spec => []RInv
  <1>1. WInv /\ RInv /\ [Next]_vars => RInv'
    BY RInvStep
  <1>2. QED
    BY <1>1, InitRInv, WalletsInvariant, PTL DEF Spec

\* Every refund pays back, in full and once, a charge of the same wallet listed before it.
THEOREM RefundsAnswer == Spec => []RefundsAnswerCharges
  <1>1. RInv => RefundsAnswerCharges
    BY DEF RInv
  <1>2. QED
    BY <1>1, RefundsInvariant, PTL

\* No charge of an operation that succeeded is ever paid back.
THEOREM SuccessesStayPaid == Spec => []SuccessStaysPaid
  <1>1. RInv => SuccessStaysPaid
    BY DEF RInv, PaidUnlessFailing, SuccessStaysPaid
  <1>2. QED
    BY <1>1, RefundsInvariant, PTL
-------------------------------------------------------------------------------
(* The locks of a charge, as long as nobody's parent changes while one is planned  *)
(* or made: the admins found under the locks are among those that were locked, and *)
(* what is done under a lock keeps others off the wallet.                          *)

\* A request that works out whom to charge, or charges.
Charging(r) == pc[r] \in {"planning", "charging", "targeting", "upstream"}

\* Nobody's parent changes while a charge is planned or made.
ParentsWait == [][parent' = parent \/ \A r \in Requests : ~Charging(r)]_vars

\* Of the admins found so far everybody's parent was found, but for the one above the last.
Climbed(r) == \A u \in Found(r) : parent[u] \in Found(r) \cup {Above(r)}

\* Whoever is found on a second climb is locked: the owner, all above, and the sole root admin.
Covered(r) ==
    /\ Owner(r) \notin Roots
    /\ SoleRoot(r) \subseteq need[r]
    /\ \E above \in SUBSET need[r] : /\ Found(r) \subseteq above
                                     /\ \A u \in above : parent[u] \in above \cup {NoUser}

\* The wallets a request takes money from, or is about to, are among those it locks.
LocksEnough(r) ==
    /\ pc[r] \in {"new", "charging"} => targets[r] = <<>>
    /\ pc[r] \in {"new", "planning", "charging", "setRead", "setWrite", "adjusting"} => txs[r] = <<>>
    /\ pc[r] = "planning" => Climbed(r)
    /\ pc[r] = "charging" => Owner(r) \in Roots \/ Covered(r)
    /\ pc[r] = "targeting" => Covered(r)
    /\ pc[r] = "upstream" => \A i \in 1..Len(targets[r]) : targets[r][i] \in need[r]
    /\ phase[r] # "idle" => \A i \in 1..Len(txs[r]) : txs[r][i].user \in need[r]
    /\ pc[r] \in {"setRead", "setWrite", "adjusting"} => Owner(r) \in need[r]
    /\ pc[r] = "setWrite" => phase[r] = "running"

LocksInv == \A r \in Requests : LocksEnough(r)
-------------------------------------------------------------------------------
\* A step of one request leaves the locks, the targets and the charges of the others alone.
LEMMA OthersUntouched ==
  ASSUME TypeOK, NEW r \in Requests, Start(r) \/ Clear(r) \/ Step(r), NEW s \in Requests \ {r}
  PROVE  /\ parent' = parent
         /\ pc'[s] = pc[s] /\ txs'[s] = txs[s] /\ job'[s] = job[s] /\ targets'[s] = targets[s]
         /\ phase'[s] = phase[s] /\ need'[s] = need[s] /\ got'[s] = got[s]
         /\ seen'[s] = seen[s]
  <1>1. parent' = parent
    BY DEF Start, Clear, Step, TakeLock, ClimbOne, LockWallets, ChargeNothing, RefuseCharge, ChargeActor,
           TargetsKnown, SkipUpstream, ChargeUpstream, UpstreamShort, ChargeDone, CallPanel, CheckRefund,
           CreditRefund, SetRead, SetWrite, Adjust
  <1>2. \E j : job' = [job EXCEPT ![r] = j]
    <2>1. job = [job EXCEPT ![r] = job[r]]
      BY DEF TypeOK
    <2>2. QED
      BY <2>1 DEF Start, Clear, Step, TakeLock, ClimbOne, LockWallets, ChargeNothing, RefuseCharge,
         ChargeActor, TargetsKnown, SkipUpstream, ChargeUpstream, UpstreamShort, ChargeDone, CallPanel,
         CheckRefund, CreditRefund, SetRead, SetWrite, Adjust
  <1>3. /\ \E q : targets' = [targets EXCEPT ![r] = q]
        /\ \E n : seen' = [seen EXCEPT ![r] = n]
    <2>1. targets = [targets EXCEPT ![r] = targets[r]] /\ seen = [seen EXCEPT ![r] = seen[r]]
      BY DEF TypeOK
    <2>2. QED
      BY <2>1 DEF Start, Clear, Step, TakeLock, ClimbOne, LockWallets, ChargeNothing, RefuseCharge,
         ChargeActor, TargetsKnown, SkipUpstream, ChargeUpstream, UpstreamShort, ChargeDone, CallPanel,
         CheckRefund, CreditRefund, SetRead, SetWrite, Adjust
  <1>4. /\ \E p : phase' = [phase EXCEPT ![r] = p]
        /\ \E k : need' = [need EXCEPT ![r] = k]
        /\ \E k : got' = [got EXCEPT ![r] = k]
    <2>1. phase = [phase EXCEPT ![r] = phase[r]] /\ need = [need EXCEPT ![r] = need[r]]
          /\ got = [got EXCEPT ![r] = got[r]]
      BY DEF TypeOK, Guard!TypeOK
    <2>2. \/ UNCHANGED guardVars \/ Guard!Leave(r) \/ (\E k : Guard!Enter(r, k))
          \/ Guard!Acquire(r) \/ Guard!Enqueue(r) \/ Guard!Wake(r)
      BY EndLeaves DEF Start, Clear, Step, TakeLock, ClimbOne, LockWallets, ChargeNothing, RefuseCharge,
         ChargeActor, TargetsKnown, SkipUpstream, ChargeUpstream, UpstreamShort, ChargeDone, CallPanel,
         CheckRefund, CreditRefund, AfterCredit, SetRead, SetWrite, Adjust
    <2>3. QED
      BY <2>1, <2>2 DEF guardVars, Guard!Leave, Guard!Enter, Guard!Acquire, Guard!Enqueue, Guard!Wake, Guard!Take
  <1>5. QED
    BY <1>1, <1>2, <1>3, <1>4, OthersKept DEF TypeOK, Guard!TypeOK

\* What a request locks is enough as long as nothing of its own changes.
LEMMA StillEnough ==
  ASSUME NEW s \in Requests, LocksEnough(s), parent' = parent \/ ~Charging(s),
         pc'[s] = pc[s], txs'[s] = txs[s], job'[s] = job[s], targets'[s] = targets[s],
         phase'[s] = phase[s], need'[s] = need[s]
  PROVE  LocksEnough(s)'
  <1>1. Owner(s)' = Owner(s) /\ Found(s)' = Found(s) /\ SoleRoot(s)' = SoleRoot(s)
    BY DEF Owner, Found, SoleRoot
  <1>2. CASE parent' = parent
    <2>1. Above(s)' = Above(s)
      BY <1>1, <1>2 DEF Above
    <2>2. Climbed(s)' = Climbed(s)
      BY <1>1, <1>2, <2>1 DEF Climbed
    <2>3. Covered(s)' = Covered(s)
      BY <1>1, <1>2 DEF Covered
    <2>4. QED
      BY <1>1, <2>2, <2>3 DEF LocksEnough
  <1>3. CASE ~Charging(s)
    BY <1>1, <1>3 DEF LocksEnough, Charging
  <1>4. QED
    BY <1>2, <1>3

\* The set of those found and the admin above the last, once that one is found too.
LEMMA OneFurther ==
  ASSUME TypeOK, NEW r \in Requests, NEW u, CanClimb(r), u = Above(r), u \in Users,
         targets' = [targets EXCEPT ![r] = Append(@, u)], UNCHANGED <<parent, job>>
  PROVE  Found(r)' = Found(r) \cup {u} /\ Above(r)' = parent[u]
  <1>1. PICK old, new : old = targets[r] /\ new = Append(old, u)
    OBVIOUS
  <1>2. old \in Seq(Users) /\ targets'[r] = new
    BY <1>1 DEF TypeOK
  <1>3. /\ Len(new) = Len(old) + 1 /\ Len(old) \in Nat /\ new # <<>>
        /\ \A i \in 1..Len(old) : new[i] = old[i]
        /\ new[Len(old) + 1] = u
    BY <1>1, <1>2
  <1>4. {new[i] : i \in 1..Len(new)} = {old[i] : i \in 1..Len(old)} \cup {u}
    <2>1. 1..Len(new) = 1..Len(old) \cup {Len(old) + 1}
      BY <1>3
    <2>2. QED
      BY <1>3, <2>1
  <1>5. Found(r)' = Found(r) \cup {u}
    BY <1>1, <1>2, <1>4 DEF Found, Owner
  <1>6. Above(r)' = parent[u]
    BY <1>2, <1>3 DEF Above
  <1>7. QED
    BY <1>5, <1>6

\* The admin above the last is the parent of one that was found.
LEMMA AboveIsParent ==
  ASSUME TypeOK, NEW r \in Requests
  PROVE  \E u \in Found(r) : Above(r) = parent[u]
  <1>1. CASE targets[r] = <<>>
    BY <1>1 DEF Above, Found
  <1>2. CASE targets[r] # <<>>
    <2>1. targets[r] \in Seq(Users)
      BY DEF TypeOK
    <2>2. Len(targets[r]) \in 1..Len(targets[r])
      BY <1>2, <2>1
    <2>3. QED
      BY <1>2, <2>2 DEF Above, Found
  <1>3. QED
    BY <1>1, <1>2

LEMMA ClimbLocks ==
  ASSUME WInv, NEW r \in Requests, LocksEnough(r), ClimbOne(r)
  PROVE  LocksEnough(r)'
  <1>1. PICK u : u = Above(r)
    OBVIOUS
  <1>2. TypeOK /\ pc[r] \in {"planning", "targeting"} /\ CanClimb(r) /\ u # NoUser
    BY <1>1 DEF ClimbOne, Running, WInv, CanClimb
  <1>3. u \in Users
    BY <1>1, <1>2, TargetsAreUsers
  <1>4. targets' = [targets EXCEPT ![r] = Append(@, u)] /\ UNCHANGED <<guardVars, parent, pc, job, txs>>
    BY <1>1 DEF ClimbOne
  <1>5. Found(r)' = Found(r) \cup {u} /\ Above(r)' = parent[u]
    BY <1>1, <1>2, <1>3, <1>4, OneFurther
  <1>6. CASE pc[r] = "planning"
    <2>1. Climbed(r)'
      BY <1>1, <1>4, <1>5, <1>6 DEF LocksEnough, Climbed
    <2>2. QED
      BY <1>4, <1>6, <2>1 DEF LocksEnough, guardVars
  <1>7. CASE pc[r] = "targeting"
    <2>1. PICK above \in SUBSET need[r] : /\ Found(r) \subseteq above
                                          /\ \A v \in above : parent[v] \in above \cup {NoUser}
      BY <1>7 DEF LocksEnough, Covered
    <2>2. u \in above
      BY <1>1, <1>2, <2>1, AboveIsParent
    <2>3. Covered(r)'
      <3>1. Owner(r) \notin Roots /\ SoleRoot(r) \subseteq need[r]
        BY <1>7 DEF LocksEnough, Covered
      <3>2. Owner(r)' = Owner(r) /\ SoleRoot(r)' = SoleRoot(r) /\ need' = need /\ parent' = parent
        BY <1>4 DEF Owner, SoleRoot, guardVars
      <3>3. Found(r)' \subseteq above
        BY <1>5, <2>1, <2>2
      <3>4. QED
        BY <2>1, <3>1, <3>2, <3>3 DEF Covered
    <2>4. QED
      BY <1>4, <1>7, <2>3 DEF LocksEnough, guardVars
  <1>8. QED
    BY <1>2, <1>6, <1>7

LEMMA LockWalletsLocks ==
  ASSUME WInv, NEW r \in Requests, LocksEnough(r), LockWallets(r)
  PROVE  LocksEnough(r)'
  <1>1. TypeOK /\ pc[r] = "planning" /\ ~CanClimb(r) /\ Climbed(r) /\ txs[r] = <<>>
    BY DEF LockWallets, WInv, LocksEnough
  <1>2. PICK found : found = Found(r)
    OBVIOUS
  <1>3. /\ targets'[r] = <<>> /\ pc'[r] = "charging" /\ UNCHANGED <<parent, job, txs>>
        /\ need'[r] = found \cup LastTarget(r)
    BY <1>1, <1>2 DEF LockWallets, GoTo, Guard!Enter, TypeOK, Guard!TypeOK
  <1>4. Owner(r)' = Owner(r) /\ SoleRoot(r)' = SoleRoot(r) /\ Owner(r) \in found
    BY <1>2, <1>3 DEF Owner, SoleRoot, Found
  <1>5. Found(r)' = {Owner(r)}
    <2>1. {targets'[r][i] : i \in 1..Len(targets'[r])} = {}
      BY <1>3, Emptiness
    <2>2. QED
      BY <1>4, <2>1 DEF Found
  <1>6. ASSUME Owner(r) \notin Roots PROVE Covered(r)'
    <2>1. Above(r) \in found \cup {NoUser}
      BY <1>1, <1>2, <1>6 DEF CanClimb
    <2>2. \A u \in found : parent[u] \in found \cup {NoUser}
      BY <1>1, <1>2, <2>1 DEF Climbed
    <2>3. SoleRoot(r) \subseteq need'[r]
      BY <1>2, <1>3, <1>6 DEF LastTarget
    <2>4. found \in SUBSET need'[r]
      BY <1>3
    <2>5. QED
      BY <1>3, <1>4, <1>5, <1>6, <2>2, <2>3, <2>4 DEF Covered
  <1>7. QED
    BY <1>1, <1>3, <1>4, <1>6, Emptiness DEF LocksEnough

LEMMA ChargeActorLocks ==
  ASSUME WInv, NEW r \in Requests, LocksEnough(r), ChargeActor(r)
  PROVE  LocksEnough(r)'
  <1>1. TypeOK /\ pc[r] = "charging" /\ Owner(r) \notin Roots /\ Covered(r) /\ targets[r] = <<>>
    BY DEF ChargeActor, Running, WInv, LocksEnough
  <1>2. PICK tx : tx = [id |-> nextId, user |-> Owner(r), amount |-> Price[Owner(r)]]
    OBVIOUS
  <1>3. /\ txs'[r] = <<tx>> /\ pc'[r] = "targeting"
        /\ UNCHANGED <<guardVars, parent, job, targets>>
    BY <1>1, <1>2 DEF ChargeActor, GoTo, TypeOK
  <1>4. Owner(r)' = Owner(r) /\ SoleRoot(r)' = SoleRoot(r) /\ Found(r)' = Found(r)
    BY <1>3 DEF Owner, SoleRoot, Found
  <1>5. Covered(r)'
    BY <1>1, <1>3, <1>4 DEF Covered, guardVars
  <1>6. Owner(r) \in need[r]
    BY <1>1 DEF Covered, Found
  <1>7. \A i \in 1..Len(txs'[r]) : txs'[r][i].user \in need'[r]
    <2>1. Len(<<tx>>) = 1 /\ <<tx>>[1] = tx /\ tx.user = Owner(r)
      BY <1>2
    <2>2. QED
      BY <1>3, <1>6, <2>1 DEF guardVars
  <1>8. QED
    BY <1>3, <1>5, <1>7 DEF LocksEnough

LEMMA TargetsLocks ==
  ASSUME WInv, NEW r \in Requests, LocksEnough(r), TargetsKnown(r)
  PROVE  LocksEnough(r)'
  <1>1. TypeOK /\ pc[r] = "targeting" /\ Covered(r)
    BY DEF TargetsKnown, Running, WInv, LocksEnough
  <1>2. Found(r) \subseteq need[r] /\ SoleRoot(r) \subseteq need[r]
    BY <1>1 DEF Covered
  <1>3. pc'[r] = "upstream" /\ UNCHANGED <<guardVars, parent, job, txs>>
    BY <1>1 DEF TargetsKnown, GoTo, TypeOK
  <1>4. targets[r] \in Seq(Users) /\ \A i \in 1..Len(targets[r]) : targets[r][i] \in need[r]
    BY <1>1, <1>2 DEF Found, TypeOK
  <1>5. \A i \in 1..Len(targets'[r]) : targets'[r][i] \in need[r]
    <2>1. CASE UNCHANGED targets
      BY <1>4, <2>1
    <2>2. CASE \E u \in LastTarget(r) : targets' = [targets EXCEPT ![r] = Append(@, u)]
      <3>1. PICK u \in LastTarget(r) : targets'[r] = Append(targets[r], u)
        BY <1>1, <2>2 DEF TypeOK
      <3>2. u \in need[r] /\ u \in Users
        BY <1>2, <3>1, WalletsAssumption DEF LastTarget, SoleRoot
      <3>3. \A i \in 1..Len(Append(targets[r], u)) :
               Append(targets[r], u)[i] = u \/ (i \in 1..Len(targets[r]) /\ Append(targets[r], u)[i] = targets[r][i])
        BY <1>4, <3>2
      <3>4. QED
        BY <1>4, <3>1, <3>2, <3>3
    <2>3. QED
      BY <2>1, <2>2 DEF TargetsKnown
  <1>6. QED
    BY <1>1, <1>3, <1>5 DEF LocksEnough, guardVars

LEMMA UpstreamLocks ==
  ASSUME WInv, NEW r \in Requests, LocksEnough(r), SkipUpstream(r) \/ ChargeUpstream(r)
  PROVE  LocksEnough(r)'
  <1>1. TypeOK /\ pc[r] = "upstream" /\ phase[r] = "running" /\ targets[r] # <<>>
    BY DEF SkipUpstream, ChargeUpstream, Running, WInv
  <1>2. /\ targets[r] \in Seq(Users) /\ \A i \in 1..Len(targets[r]) : targets[r][i] \in need[r]
        /\ txs[r] \in Seq(Tx) /\ \A i \in 1..Len(txs[r]) : txs[r][i].user \in need[r]
    BY <1>1 DEF LocksEnough, TypeOK
  <1>3. targets'[r] = Tail(targets[r]) /\ UNCHANGED <<guardVars, parent, job, pc>>
    BY <1>1 DEF SkipUpstream, ChargeUpstream, TypeOK
  <1>4. \A i \in 1..Len(Tail(targets[r])) : Tail(targets[r])[i] \in need[r]
    <2>1. \A i \in 1..Len(Tail(targets[r])) : i + 1 \in 1..Len(targets[r]) /\ Tail(targets[r])[i] = targets[r][i + 1]
      BY <1>1, <1>2
    <2>2. QED
      BY <1>2, <2>1
  <1>5. \A i \in 1..Len(txs'[r]) : txs'[r][i].user \in need[r]
    <2>1. CASE SkipUpstream(r)
      BY <1>2, <2>1 DEF SkipUpstream
    <2>2. CASE ChargeUpstream(r)
      <3>1. PICK u : u = Head(targets[r])
        OBVIOUS
      <3>2. u \in need[r] /\ u \in Users
        <4>1. 1 \in 1..Len(targets[r]) /\ u = targets[r][1]
          BY <1>1, <1>2, <3>1
        <4>2. QED
          BY <1>2, <4>1
      <3>3. PICK tx : tx = [id |-> nextId, user |-> u, amount |-> Price[u]]
        OBVIOUS
      <3>4. txs'[r] = Append(txs[r], tx) /\ tx.user = u /\ tx \in Tx
        BY <1>1, <2>2, <3>1, <3>2, <3>3, ChargeTyped DEF ChargeUpstream, TypeOK
      <3>5. \A i \in 1..Len(Append(txs[r], tx)) :
               Append(txs[r], tx)[i] = tx \/ (i \in 1..Len(txs[r]) /\ Append(txs[r], tx)[i] = txs[r][i])
        BY <1>2, <3>4
      <3>6. QED
        BY <1>2, <3>2, <3>4, <3>5
    <2>3. QED
      BY <2>1, <2>2
  <1>6. QED
    BY <1>1, <1>3, <1>4, <1>5 DEF LocksEnough, guardVars

\* The other steps, which leave all locks, take another, or are those of a manual change.
LEMMA OtherStepsLock ==
  ASSUME WInv, NEW r \in Requests, LocksEnough(r),
         \/ Clear(r) \/ TakeLock(r) \/ ChargeNothing(r) \/ RefuseCharge(r) \/ UpstreamShort(r)
         \/ ChargeDone(r) \/ CallPanel(r) \/ CheckRefund(r) \/ CreditRefund(r) \/ SetRead(r)
         \/ SetWrite(r) \/ Adjust(r)
  PROVE  LocksEnough(r)'
  <1>1. TypeOK
    BY DEF WInv
  <1>2. CASE TakeLock(r)
    <2>1. /\ phase[r] = "acquiring" /\ need' = need /\ UNCHANGED <<parent, pc, job, targets, txs>>
      BY <1>2 DEF TakeLock, Guard!Acquire, Guard!Enqueue, Guard!Wake, Guard!Take
    <2>2. Owner(r)' = Owner(r) /\ Climbed(r)' = Climbed(r) /\ Covered(r)' = Covered(r)
      BY <2>1 DEF Owner, Climbed, Covered, Found, Above, SoleRoot
    <2>3. pc[r] # "setWrite"
      BY <2>1 DEF LocksEnough
    <2>4. QED
      BY <2>1, <2>2, <2>3 DEF LocksEnough
  <1>3. CASE SetRead(r)
    <2>1. /\ pc[r] = "setRead" /\ phase[r] = "running" /\ pc'[r] = "setWrite"
          /\ UNCHANGED <<guardVars, job, txs>>
      BY <1>1, <1>3 DEF SetRead, Running, GoTo, TypeOK
    <2>2. QED
      BY <2>1 DEF LocksEnough, Owner, guardVars
  <1>4. CASE \/ Clear(r) \/ ChargeNothing(r) \/ RefuseCharge(r) \/ UpstreamShort(r)
             \/ ChargeDone(r) \/ CallPanel(r) \/ CheckRefund(r) \/ CreditRefund(r)
             \/ SetWrite(r) \/ Adjust(r)
    <2>1. pc'[r] \in {"panel", "refunding", "crediting", "succeeded", "failed"}
      BY <1>1, <1>4 DEF Clear, ChargeNothing, RefuseCharge, UpstreamShort, ChargeDone, CallPanel, CheckRefund,
         CreditRefund, AfterCredit, SetWrite, Adjust, GoTo, End, TypeOK
    <2>2. txs' = txs
      BY <1>4 DEF Clear, ChargeNothing, RefuseCharge, UpstreamShort, ChargeDone, CallPanel, CheckRefund,
         CreditRefund, SetWrite, Adjust
    <2>3. Guard!Leave(r) \/ UNCHANGED guardVars
      BY <1>4, EndLeaves DEF Clear, ChargeNothing, RefuseCharge, UpstreamShort, ChargeDone, CallPanel,
         CheckRefund, CreditRefund, AfterCredit, SetWrite, Adjust
    <2>4. phase'[r] = "idle" \/ (phase' = phase /\ need' = need)
      BY <1>1, <2>3 DEF Guard!Leave, guardVars, TypeOK, Guard!TypeOK
    <2>5. QED
      BY <2>1, <2>2, <2>4 DEF LocksEnough
  <1>5. QED
    BY <1>2, <1>3, <1>4

LEMMA StartLocks ==
  ASSUME WInv, NEW r \in Requests, LocksEnough(r), Start(r)
  PROVE  LocksEnough(r)'
  <1>1. TypeOK /\ pc[r] = "new" /\ targets[r] = <<>> /\ txs[r] = <<>>
    BY DEF Start, WInv, LocksEnough
  <1>2. PICK j \in Jobs[r] : job' = [job EXCEPT ![r] = j]
    BY DEF Start
  <1>3. Owner(r)' = j.user /\ UNCHANGED <<parent, targets, txs>>
    BY <1>1, <1>2 DEF Start, Owner, TypeOK
  <1>4. CASE pc'[r] = "planning"
    <2>1. {targets'[r][i] : i \in 1..Len(targets'[r])} = {}
      BY <1>1, <1>3, Emptiness
    <2>2. Found(r)' = {Owner(r)'} /\ Above(r)' = parent'[Owner(r)']
      BY <1>1, <1>3, <2>1 DEF Found, Above
    <2>3. Climbed(r)'
      BY <2>2 DEF Climbed
    <2>4. QED
      BY <1>1, <1>3, <1>4, <2>3, Emptiness DEF LocksEnough
  <1>5. CASE pc'[r] # "planning"
    <2>1. pc'[r] \in {"setRead", "adjusting"} /\ \E k \in Jobs[r] : job' = [job EXCEPT ![r] = k] /\ Guard!Enter(r, {k.user})
      BY <1>1, <1>5 DEF Start, GoTo, TypeOK
    <2>2. PICK k \in Jobs[r] : job' = [job EXCEPT ![r] = k] /\ Guard!Enter(r, {k.user})
      BY <2>1
    <2>3. Owner(r)' = k.user /\ need'[r] = {k.user}
      BY <1>1, <2>2 DEF Owner, Guard!Enter, TypeOK, Guard!TypeOK
    <2>4. QED
      BY <1>1, <1>3, <2>1, <2>3, Emptiness DEF LocksEnough
  <1>6. QED
    BY <1>4, <1>5

LEMMA LocksInvStep ==
  ASSUME WInv, LocksInv, [Next]_vars, parent' = parent \/ \A r \in Requests : ~Charging(r)
  PROVE  LocksInv'
  <1>1. ASSUME NEW r \in Requests, Start(r) \/ Clear(r) \/ Step(r)
        PROVE  LocksInv'
    <2>1. LocksEnough(r)
      BY DEF LocksInv
    <2>2. LocksEnough(r)'
      BY <1>1, <2>1, StartLocks, ClimbLocks, LockWalletsLocks, ChargeActorLocks, TargetsLocks, UpstreamLocks,
         OtherStepsLock DEF Step
    <2>3. ASSUME NEW s \in Requests \ {r} PROVE LocksEnough(s)'
      BY <1>1, OthersUntouched, StillEnough DEF WInv, LocksInv
    <2>4. QED
      BY <2>2, <2>3 DEF LocksInv
  <1>2. CASE ChangeParent \/ UNCHANGED vars
    <2>1. ASSUME NEW s \in Requests PROVE LocksEnough(s)'
      <3>1. UNCHANGED <<guardVars, pc, job, targets, txs>>
        BY <1>2 DEF ChangeParent, vars
      <3>2. LocksEnough(s) /\ (parent' = parent \/ ~Charging(s))
        BY DEF LocksInv
      <3>3. QED
        BY <3>1, <3>2, StillEnough DEF guardVars
    <2>2. QED
      BY <2>1 DEF LocksInv
  <1>3. QED
    BY <1>1, <1>2 DEF Next, Rest

LEMMA LocksInvInit ==
  ASSUME Init
  PROVE  LocksInv
  BY Emptiness DEF Init, Guard!Init, LocksInv, LocksEnough

\* While a charge is planned or made and nobody's parent changes, it locks enough.
THEOREM LocksAreEnough == Spec /\ ParentsWait => []LocksInv
  <1>1. Init => LocksInv
    BY LocksInvInit
  <1>2. WInv /\ LocksInv /\ [Next]_vars /\ [parent' = parent \/ \A r \in Requests : ~Charging(r)]_vars
        => LocksInv'
    <2>1. UNCHANGED vars => parent' = parent
      BY DEF vars
    <2>2. QED
      BY <2>1, LocksInvStep
  <1>3. QED
    BY <1>1, <1>2, WalletsInvariant, PTL DEF Spec, ParentsWait

\* Whatever wallet a guarded charge takes money from, it holds that wallet's lock, as long as no
\* parent changes while a charge is planned or made: the upstream admins that charge_operation
\* finds under the locks are among those it found when it asked for them.
THEOREM ChargesLocked == Spec /\ ParentsWait => []ChargesAreLocked
  <1>1. WInv /\ LocksInv => ChargesAreLocked
    BY DEF WInv, LocksInv, LocksEnough, ChargesAreLocked, Locks!IInv, Locks!HoldsWhatItNeeds
  <1>2. QED
    BY <1>1, WalletsInvariant, LocksAreEnough, PTL
-------------------------------------------------------------------------------
\* Nothing but a refund or a reset came between the read of set_wallet_balance and its write.
Isolated(r) == \/ balance[Owner(r)] = seen[r]
               \/ ledger[Owner(r)] = <<>>
               \/ ledger[Owner(r)][Len(ledger[Owner(r)])].kind = "refund"

\* While r is about to write a balance, others that hold a wallet hold another one.
LEMMA OthersHoldOthers ==
  ASSUME WInv, LocksInv, NEW r \in Requests, pc[r] = "setWrite", NEW s \in Requests \ {r},
         phase[s] = "running", NEW u \in need[s]
  PROVE  u # Owner(r)
  <1>1. Owner(r) \in need[r] /\ phase[r] = "running"
    BY DEF LocksInv, LocksEnough
  <1>2. got[r] = need[r] /\ got[s] = need[s] /\ got[r] \cap got[s] = {}
    BY <1>1 DEF WInv, Locks!IInv, Locks!HoldsWhatItNeeds, Locks!OneHolder
  <1>3. QED
    BY <1>1, <1>2

\* A wallet change is of one wallet, and its row is the last one there.
LEMMA PostOnly ==
  ASSUME TypeOK, NEW u \in Users, NEW delta \in Int, NEW kind \in Kinds, NEW ref \in Nat,
         Post(u, delta, kind, ref)
  PROVE  /\ \A v \in Users \ {u} : balance'[v] = balance[v] /\ ledger'[v] = ledger[v]
         /\ ledger'[u][Len(ledger'[u])].kind = kind
  <1>1. \A v \in Users \ {u} : balance'[v] = balance[v] /\ ledger'[v] = ledger[v]
    BY DEF Post, TypeOK
  <1>2. ledger'[u][Len(ledger[u]) + 1].kind = kind /\ Len(ledger'[u]) = Len(ledger[u]) + 1
    BY PostRows
  <1>3. QED
    BY <1>1, <1>2

\* Charges and changes by others under their locks are not of the wallet r is about to set.
LEMMA GuardedElsewhere ==
  ASSUME WInv, LocksInv, NEW r \in Requests, pc[r] = "setWrite", NEW s \in Requests \ {r},
         ChargeActor(s) \/ ChargeUpstream(s) \/ SetWrite(s) \/ Adjust(s)
  PROVE  balance'[Owner(r)] = balance[Owner(r)] /\ ledger'[Owner(r)] = ledger[Owner(r)]
  <1>1. TypeOK /\ Owner(r) \in Users /\ LocksEnough(s)
    BY OwnersAreUsers DEF WInv, LocksInv
  <1>2. "charge" \in Kinds /\ "manual_set" \in Kinds /\ "manual_adjust" \in Kinds /\ 0 \in Nat
    BY DEF Kinds
  <1>3. phase[s] = "running" /\ pc[s] # "new"
    BY DEF ChargeActor, ChargeUpstream, SetWrite, Adjust, Running
  <1>4. Owner(s) \in Users /\ job[s].amount \in Int /\ seen[s] \in Int
    BY <1>1, <1>3, OwnersAreUsers DEF TypeOK
  <1>5. CASE ChargeActor(s)
    <2>1. Covered(s)
      BY <1>1, <1>5 DEF ChargeActor, Running, LocksEnough
    <2>2. Owner(s) \in need[s]
      BY <2>1 DEF Covered, Found
    <2>3. Owner(s) # Owner(r)
      BY <1>3, <2>2, OthersHoldOthers
    <2>4. Post(Owner(s), -Price[Owner(s)], "charge", 0) /\ -Price[Owner(s)] \in Int
      BY <1>1, <1>4, <1>5, ChargeTyped DEF ChargeActor
    <2>5. QED
      BY <1>1, <1>2, <1>4, <2>3, <2>4, PostOnly
  <1>6. CASE ChargeUpstream(s)
    <2>1. PICK u : u = Head(targets[s])
      OBVIOUS
    <2>2. Post(u, -Price[u], "charge", 0) /\ targets[s] # <<>> /\ pc[s] = "upstream"
      BY <1>6, <2>1 DEF ChargeUpstream, Running
    <2>3. u \in Users /\ u \in need[s]
      <3>1. targets[s] \in Seq(Users) /\ \A i \in 1..Len(targets[s]) : targets[s][i] \in need[s]
        BY <1>1, <2>2 DEF LocksEnough, TypeOK
      <3>2. 1 \in 1..Len(targets[s]) /\ u = targets[s][1] /\ u \in Users
        BY <2>1, <2>2, <3>1
      <3>3. QED
        BY <3>1, <3>2
    <2>4. u # Owner(r)
      BY <1>3, <2>3, OthersHoldOthers
    <2>5. -Price[u] \in Int
      BY <1>1, <2>3, ChargeTyped
    <2>6. QED
      BY <1>1, <1>2, <2>2, <2>3, <2>4, <2>5, PostOnly
  <1>7. CASE SetWrite(s) \/ Adjust(s)
    <2>1. Owner(s) \in need[s]
      BY <1>1, <1>7 DEF SetWrite, Adjust, Running, LocksEnough
    <2>2. Owner(s) # Owner(r)
      BY <1>3, <2>1, OthersHoldOthers
    <2>3. \/ UNCHANGED books
          \/ Post(Owner(s), job[s].amount - seen[s], "manual_set", 0)
          \/ Post(Owner(s), job[s].amount, "manual_adjust", 0)
      BY <1>7 DEF SetWrite, Adjust
    <2>4. job[s].amount - seen[s] \in Int
      BY <1>4
    <2>5. CASE UNCHANGED books
      BY <2>5 DEF books
    <2>6. QED
      BY <1>1, <1>2, <1>4, <2>2, <2>3, <2>4, <2>5, PostOnly
  <1>8. QED
    BY <1>5, <1>6, <1>7

\* What others do while r is about to write leaves the wallet as r saw it, or with a refund
\* as its last row, or empty.
LEMMA OthersIsolate ==
  ASSUME WInv, LocksInv, NEW r \in Requests, pc[r] = "setWrite", Isolated(r),
         NEW s \in Requests \ {r}, Start(s) \/ Clear(s) \/ Step(s)
  PROVE  Isolated(r)'
  <1>1. TypeOK /\ Owner(r) \in Users
    BY OwnersAreUsers DEF WInv
  <1>2. Owner(r)' = Owner(r) /\ seen'[r] = seen[r]
    BY <1>1, OthersUntouched DEF Owner
  <1>3. CASE balance'[Owner(r)] = balance[Owner(r)] /\ ledger'[Owner(r)] = ledger[Owner(r)]
    BY <1>2, <1>3 DEF Isolated
  <1>4. CASE UNCHANGED books
    BY <1>3, <1>4 DEF books
  <1>5. CASE Clear(s)
    <2>1. PICK j \in Jobs[s] : ledger' = [ledger EXCEPT ![j.user] = <<>>] /\ balance' = [balance EXCEPT ![j.user] = 0]
      BY <1>5 DEF Clear
    <2>2. CASE j.user = Owner(r)
      <3>1. ledger'[Owner(r)] = <<>>
        BY <1>1, <2>1, <2>2 DEF TypeOK
      <3>2. QED
        BY <1>2, <3>1 DEF Isolated
    <2>3. CASE j.user # Owner(r)
      BY <1>1, <1>3, <2>1, <2>3 DEF TypeOK
    <2>4. QED
      BY <2>2, <2>3
  <1>6. CASE CreditRefund(s)
    <2>1. PICK tx : tx = Head(todo[s])
      OBVIOUS
    <2>2. UNCHANGED books \/ Post(tx.user, tx.amount, "refund", tx.id)
      BY <1>6, <2>1 DEF CreditRefund
    <2>3. tx \in Tx
      BY <1>6, <2>1, TxTyped DEF CreditRefund
    <2>4. tx.user \in Users /\ tx.amount \in Int /\ tx.id \in Nat /\ "refund" \in Kinds
      BY <2>3 DEF Tx, Kinds
    <2>5. CASE Post(tx.user, tx.amount, "refund", tx.id)
      <3>1. /\ \A v \in Users \ {tx.user} : balance'[v] = balance[v] /\ ledger'[v] = ledger[v]
            /\ ledger'[tx.user][Len(ledger'[tx.user])].kind = "refund"
        BY <1>1, <2>4, <2>5, PostOnly
      <3>2. CASE tx.user = Owner(r)
        BY <1>2, <3>1, <3>2 DEF Isolated
      <3>3. CASE tx.user # Owner(r)
        BY <1>1, <1>3, <3>1, <3>3
      <3>4. QED
        BY <3>2, <3>3
    <2>6. QED
      BY <1>4, <2>2, <2>5
  <1>7. CASE ChargeActor(s) \/ ChargeUpstream(s) \/ SetWrite(s) \/ Adjust(s)
    BY <1>3, <1>7, GuardedElsewhere
  <1>8. CASE \/ Start(s) \/ TakeLock(s) \/ ClimbOne(s) \/ LockWallets(s) \/ ChargeNothing(s)
             \/ RefuseCharge(s) \/ TargetsKnown(s) \/ SkipUpstream(s) \/ UpstreamShort(s)
             \/ ChargeDone(s) \/ CallPanel(s) \/ CheckRefund(s) \/ SetRead(s)
    BY <1>4, <1>8 DEF Start, TakeLock, ClimbOne, LockWallets, ChargeNothing, RefuseCharge, TargetsKnown,
       SkipUpstream, UpstreamShort, ChargeDone, CallPanel, CheckRefund, SetRead
  <1>9. QED
    BY <1>5, <1>6, <1>7, <1>8 DEF Step

\* Nobody writes a balance but after reading it.
LEMMA ReadBeforeWrite ==
  ASSUME TypeOK, NEW r \in Requests, LocksEnough(r), Start(r) \/ Clear(r) \/ Step(r), pc'[r] = "setWrite"
  PROVE  SetRead(r)
  <1>1. pc[r] = "setWrite" => phase[r] = "running"
    BY DEF LocksEnough
  <1>2. ~TakeLock(r) \/ pc[r] # "setWrite"
    BY <1>1 DEF TakeLock, Guard!Acquire, Guard!Enqueue, Guard!Wake
  <1>3. ~TakeLock(r)
    BY <1>2 DEF TakeLock
  <1>4. ~ClimbOne(r) /\ ~SkipUpstream(r) /\ ~ChargeUpstream(r)
    BY DEF ClimbOne, SkipUpstream, ChargeUpstream, Running
  <1>5. ~Start(r) /\ ~Clear(r)
    BY DEF Start, Clear, GoTo, TypeOK
  <1>6. \/ SetRead(r)
        \/ \E stage \in Stages \ {"setWrite"} : pc' = [pc EXCEPT ![r] = stage]
    BY <1>3, <1>4, <1>5 DEF Step, LockWallets, ChargeNothing, RefuseCharge, ChargeActor, TargetsKnown,
       UpstreamShort, ChargeDone, CallPanel, CheckRefund, CreditRefund, AfterCredit, SetWrite, Adjust,
       GoTo, End, Stages, Ended
  <1>7. QED
    BY <1>6 DEF TypeOK

\* r itself reads what the wallet holds.
LEMMA OwnStepIsolates ==
  ASSUME WInv, LocksInv, NEW r \in Requests, Start(r) \/ Clear(r) \/ Step(r), pc'[r] = "setWrite"
  PROVE  Isolated(r)'
  <1>1. TypeOK /\ LocksEnough(r)
    BY DEF WInv, LocksInv
  <1>2. SetRead(r)
    BY <1>1, ReadBeforeWrite
  <1>3. seen'[r] = balance[Owner(r)] /\ balance' = balance /\ Owner(r)' = Owner(r)
    BY <1>1, <1>2 DEF SetRead, books, Owner, TypeOK
  <1>4. QED
    BY <1>3 DEF Isolated

\* Between the read of set_wallet_balance and its write no other charge, set or adjustment
\* touches the wallet, as long as no parent changes while a charge is planned or made: the lock
\* of that wallet covers both, and a charge takes money only from wallets it has locked.
THEOREM SetsAreIsolated == Spec /\ ParentsWait => []SetIsIsolated
  <1>1. SetIsIsolated <=> \A r \in Requests : pc[r] = "setWrite" => Isolated(r)
    BY DEF SetIsIsolated, Isolated
  <1>2. Init => SetIsIsolated
    BY DEF Init, SetIsIsolated
  <1>3. WInv /\ LocksInv /\ SetIsIsolated /\ [Next]_vars => SetIsIsolated'
    <2>1. SUFFICES ASSUME WInv, LocksInv, SetIsIsolated, [Next]_vars, NEW r \in Requests, pc'[r] = "setWrite"
                   PROVE  Isolated(r)'
      BY DEF SetIsIsolated, Isolated
    <2>2. pc[r] = "setWrite" => Isolated(r)
      BY <2>1 DEF SetIsIsolated, Isolated
    <2>3. CASE ChangeParent \/ UNCHANGED vars
      <3>1. UNCHANGED <<pc, job, seen, books>>
        BY <2>3 DEF ChangeParent, vars
      <3>2. QED
        BY <2>1, <2>2, <3>1 DEF Isolated, Owner, books
    <2>4. ASSUME NEW s \in Requests, Start(s) \/ Clear(s) \/ Step(s)
          PROVE  Isolated(r)'
      <3>1. CASE s = r
        BY <2>1, <2>4, <3>1, OwnStepIsolates
      <3>2. CASE s # r
        <4>1. pc[r] = "setWrite"
          BY <2>1, <2>4, <3>2, OthersUntouched DEF WInv
        <4>2. QED
          BY <2>1, <2>2, <2>4, <3>2, <4>1, OthersIsolate
      <3>3. QED
        BY <3>1, <3>2
    <2>5. QED
      BY <2>1, <2>3, <2>4 DEF Next, Rest
  <1>4. QED
    BY <1>2, <1>3, WalletsInvariant, LocksAreEnough, PTL DEF Spec
-------------------------------------------------------------------------------
(* What a failed operation costs: nothing, where no wallet may owe, no ledger is   *)
(* reset and one admin at most is charged besides the one who acts.                *)

\* Whoever is, or may become, the parent of somebody.
Superiors == ({Parent0[u] : u \in Users} \cup {move[2] : move \in Moves}) \ {NoUser}

\* No wallet may owe, the root admins have no price, no ledger is reset, no balance is set below
\* zero or adjusted downwards, and of the admins above others one at most has a price.
NoDebts == /\ MayOwe = {}
           /\ \A u \in Roots : Price[u] = 0
           /\ \A r \in Requests : \A j \in Jobs[r] : j.kind # "clear" /\ j.amount >= 0
           /\ \A u, v \in Superiors : Price[u] > 0 /\ Price[v] > 0 => u = v

\* No wallet is below zero, also after a change of the balance that is about to be written.
Solvent == /\ \A u \in Users : balance[u] >= 0
           /\ \A r \in Requests : pc[r] = "setWrite" => balance[Owner(r)] >= seen[r]

ParentsAreSuperiors == \A u \in Users : parent[u] \in Superiors \cup {NoUser}

\* Of the admins above the one who acts, one at most pays.
OneAbovePays(r) ==
    /\ \A i \in 1..Len(targets[r]) : Price[targets[r][i]] > 0 => targets[r][i] \in Superiors
    /\ \A i, j \in 1..Len(targets[r]) : targets[r][i] = targets[r][j] => i = j

\* Whoever of them pays is the second to pay.
SecondPays(r) ==
    /\ pc[r] = "targeting" => Len(txs[r]) = 1
    /\ pc[r] = "upstream" => \/ Len(txs[r]) = 1
                             \/ \A i \in 1..Len(targets[r]) : Price[targets[r][i]] = 0

\* The charges of a request are listed, each under its own id.
ChargesListed(r) ==
    /\ \A i \in 1..Len(txs[r]) : InLedger(txs[r][i]) /\ txs[r][i].amount >= 0
    /\ \A i, j \in 1..Len(txs[r]) : txs[r][i].id = txs[r][j].id => i = j

\* What a failing request has not refunded is in its hands, and nothing else is.
RefundsDue(r) ==
    pc[r] \in {"refunding", "crediting"} =>
        /\ \A i \in 1..Len(txs[r]) : Refunded(txs[r][i]) \/ \E k \in 1..Len(todo[r]) : todo[r][k] = txs[r][i]
        /\ \A k \in 1..Len(todo[r]) : ~Refunded(todo[r][k])
        /\ \A k, l \in 1..Len(todo[r]) : todo[r][k].id = todo[r][l].id => k = l

PaysBack(r) == OneAbovePays(r) /\ SecondPays(r) /\ ChargesListed(r) /\ RefundsDue(r)

PaidBackInv == /\ Solvent
               /\ ParentsAreSuperiors
               /\ \A r \in Requests : PaysBack(r)
               /\ FailureCostsNothing
-------------------------------------------------------------------------------
AllInv == WInv /\ LocksInv /\ RInv /\ PaidBackInv

\* What a step of r does to the wallets: it credits a refund, or is a charge or a change under a lock.
Pays(r, u, delta, kind, ref) ==
    /\ Post(u, delta, kind, ref)
    /\ balance[u] + delta >= 0
    /\ \/ kind = "refund" /\ CreditRefund(r) /\ u = Head(todo[r]).user /\ delta >= 0 /\ ref = Head(todo[r]).id
       \/ kind # "refund" /\ (ChargeActor(r) \/ ChargeUpstream(r) \/ SetWrite(r) \/ Adjust(r))

LEMMA NothingIsReset ==
  ASSUME NoDebts, NEW r \in Requests
  PROVE  ~Clear(r)
  BY DEF NoDebts, Clear

\* A job is one of those that may be asked for.
LEMMA AmountsNatural ==
  ASSUME WInv, NoDebts, NEW r \in Requests, pc[r] # "new"
  PROVE  job[r].amount >= 0
  BY DEF WInv, TypeOK, NoDebts

\* What is to be refunded is a listed charge of r.
LEMMA DueIsListed ==
  ASSUME AllInv, NEW r \in Requests, pc[r] \in {"refunding", "crediting"}, NEW k \in 1..Len(todo[r])
  PROVE  /\ todo[r][k] \in Tx /\ todo[r][k].amount >= 0 /\ InLedger(todo[r][k]) /\ ~Refunded(todo[r][k])
         /\ \E i \in 1..Len(txs[r]) : todo[r][k] = txs[r][i]
  <1>1. PICK i \in 1..Len(txs[r]) : todo[r][k] = txs[r][i]
    BY DEF AllInv, RInv, RefundsOwn
  <1>2. txs[r][i] \in Tx /\ txs[r][i].amount >= 0 /\ InLedger(txs[r][i])
    BY TxTyped DEF AllInv, PaidBackInv, PaysBack, ChargesListed
  <1>3. ~Refunded(todo[r][k])
    BY DEF AllInv, PaidBackInv, PaysBack, RefundsDue
  <1>4. QED
    BY <1>1, <1>2, <1>3

\* The first of the refunds due can be made.
LEMMA FirstIsDue ==
  ASSUME AllInv, NEW r \in Requests, pc[r] \in {"refunding", "crediting"}
  PROVE  /\ Head(todo[r]) \in Tx /\ Head(todo[r]) = todo[r][1] /\ 1 \in 1..Len(todo[r])
         /\ Head(todo[r]).amount >= 0
         /\ InLedger(Head(todo[r])) /\ ~Refunded(Head(todo[r]))
         /\ Creditable(Head(todo[r]))
  <1>1. Head(todo[r]) \in Tx /\ Head(todo[r]) = todo[r][1] /\ 1 \in 1..Len(todo[r])
    BY TxTyped DEF AllInv
  <1>2. PICK tx \in Tx : tx = Head(todo[r])
    BY <1>1
  <1>3. tx.amount >= 0 /\ InLedger(tx) /\ ~Refunded(tx)
    BY <1>1, <1>2, DueIsListed
  <1>4. balance[tx.user] + tx.amount >= 0
    <2>1. tx.user \in Users /\ tx.amount \in Int
      BY DEF Tx
    <2>2. balance[tx.user] \in Int /\ balance[tx.user] >= 0
      BY <2>1 DEF AllInv, WInv, TypeOK, PaidBackInv, Solvent
    <2>3. QED
      BY <1>3, <2>1, <2>2
  <1>5. QED
    BY <1>1, <1>2, <1>3, <1>4 DEF Creditable, Allowed

\* Whatever step r makes pays at most once, and makes nobody owe.
LEMMA StepPays ==
  ASSUME AllInv, NoDebts, NEW r \in Requests, Start(r) \/ Step(r)
  PROVE  \/ UNCHANGED books
         \/ \E u \in Users, delta \in Int, kind \in Kinds, ref \in Nat : Pays(r, u, delta, kind, ref)
  <1>1. TypeOK /\ {"charge", "refund", "manual_set", "manual_adjust"} \subseteq Kinds /\ 0 \in Nat
    BY DEF AllInv, WInv, Kinds
  <1>2. CASE ChargeActor(r)
    <2>1. Owner(r) \in Users /\ -Price[Owner(r)] \in Int
      BY <1>1, <1>2, OwnersAreUsers, ChargeTyped DEF ChargeActor, Running
    <2>2. Pays(r, Owner(r), -Price[Owner(r)], "charge", 0)
      BY <1>2 DEF ChargeActor, Allowed, NoDebts, Pays
    <2>3. QED
      BY <1>1, <2>1, <2>2
  <1>3. CASE ChargeUpstream(r)
    <2>1. PICK u : u = Head(targets[r])
      OBVIOUS
    <2>2. targets[r] # <<>> /\ Price[u] > 0 /\ Post(u, -Price[u], "charge", 0)
          /\ Allowed(u, -Price[u], u \in MayOwe \cup Roots)
      BY <1>3, <2>1 DEF ChargeUpstream
    <2>3. u \in Users /\ -Price[u] \in Int /\ Price[u] \in Nat
      <3>1. targets[r] \in Seq(Users)
        BY <1>1 DEF TypeOK
      <3>2. u \in Users
        BY <2>1, <2>2, <3>1
      <3>3. QED
        BY <1>1, <3>2, ChargeTyped
    <2>4. u \notin MayOwe \cup Roots
      BY <2>2, <2>3 DEF NoDebts
    <2>5. Pays(r, u, -Price[u], "charge", 0)
      BY <1>3, <2>2, <2>4 DEF Allowed, Pays
    <2>6. QED
      BY <1>1, <2>3, <2>5
  <1>4. CASE SetWrite(r)
    <2>1. pc[r] = "setWrite"
      BY <1>4 DEF SetWrite, Running
    <2>2. Owner(r) \in Users /\ job[r].amount \in Int /\ job[r].amount >= 0 /\ seen[r] \in Int
          /\ balance[Owner(r)] \in Int /\ balance[Owner(r)] >= seen[r]
      BY <1>1, <2>1, OwnersAreUsers, AmountsNatural DEF AllInv, TypeOK, PaidBackInv, Solvent
    <2>3. job[r].amount - seen[r] \in Int /\ balance[Owner(r)] + (job[r].amount - seen[r]) >= 0
      BY <2>2
    <2>4. Pays(r, Owner(r), job[r].amount - seen[r], "manual_set", 0)
      BY <1>4, <2>3 DEF SetWrite, Pays
    <2>5. QED
      BY <1>1, <2>2, <2>3, <2>4
  <1>5. CASE Adjust(r)
    <2>1. pc[r] # "new"
      BY <1>5 DEF Adjust, Running
    <2>2. Owner(r) \in Users /\ job[r].amount \in Int /\ job[r].amount >= 0
          /\ balance[Owner(r)] \in Int /\ balance[Owner(r)] >= 0
      BY <1>1, <2>1, OwnersAreUsers, AmountsNatural DEF AllInv, TypeOK, PaidBackInv, Solvent
    <2>3. balance[Owner(r)] + job[r].amount >= 0
      BY <2>2
    <2>4. UNCHANGED books \/ Pays(r, Owner(r), job[r].amount, "manual_adjust", 0)
      BY <1>5, <2>3 DEF Adjust, Pays
    <2>5. QED
      BY <1>1, <2>2, <2>4
  <1>6. CASE CreditRefund(r)
    <2>1. pc[r] = "crediting"
      BY <1>6 DEF CreditRefund
    <2>2. PICK tx \in Tx : tx = Head(todo[r])
      BY <2>1, FirstIsDue
    <2>3. tx.amount >= 0 /\ Creditable(tx) /\ tx.user \in Users /\ tx.amount \in Int /\ tx.id \in Nat
      BY <2>1, <2>2, FirstIsDue DEF Tx
    <2>4. Pays(r, tx.user, tx.amount, "refund", tx.id)
      BY <1>6, <2>2, <2>3 DEF CreditRefund, Pays, Creditable, Allowed
    <2>5. QED
      BY <1>1, <2>3, <2>4
  <1>7. CASE \/ Start(r) \/ TakeLock(r) \/ ClimbOne(r) \/ LockWallets(r) \/ ChargeNothing(r)
             \/ RefuseCharge(r) \/ TargetsKnown(r) \/ SkipUpstream(r) \/ UpstreamShort(r)
             \/ ChargeDone(r) \/ CallPanel(r) \/ CheckRefund(r) \/ SetRead(r)
    BY <1>7 DEF Start, TakeLock, ClimbOne, LockWallets, ChargeNothing, RefuseCharge, TargetsKnown,
       SkipUpstream, UpstreamShort, ChargeDone, CallPanel, CheckRefund, SetRead
  <1>8. QED
    BY <1>2, <1>3, <1>4, <1>5, <1>6, <1>7 DEF Step

\* Rows stay, so what is listed stays listed and what is refunded, refunded.
LEMMA RowsStay ==
  ASSUME AllInv, NoDebts, NEW r \in Requests, Start(r) \/ Step(r), NEW tx \in Tx
  PROVE  /\ InLedger(tx) => InLedger(tx)'
         /\ Refunded(tx) => Refunded(tx)'
  <1>1. CASE UNCHANGED books
    BY <1>1 DEF books, InLedger, Refunded
  <1>2. ASSUME NEW u \in Users, NEW delta \in Int, NEW kind \in Kinds, NEW ref \in Nat,
               Pays(r, u, delta, kind, ref)
        PROVE  /\ InLedger(tx) => InLedger(tx)'
               /\ Refunded(tx) => Refunded(tx)'
    <2>1. PICK v \in Users : v = tx.user
      BY DEF Tx
    <2>2. TypeOK /\ Post(u, delta, kind, ref)
      BY <1>2 DEF AllInv, WInv, Pays
    <2>3. /\ Len(ledger[v]) \in Nat /\ Len(ledger'[v]) \in Nat /\ Len(ledger'[v]) >= Len(ledger[v])
          /\ \A i \in 1..Len(ledger[v]) : ledger'[v][i] = ledger[v][i]
      <3>1. /\ Len(ledger[v]) \in Nat
            /\ Len(ledger'[v]) = Len(ledger[v]) + (IF v = u THEN 1 ELSE 0)
            /\ \A i \in 1..Len(ledger[v]) : ledger'[v][i] = ledger[v][i]
        BY <2>2, PostRows
      <3>2. CASE v = u
        BY <3>1, <3>2
      <3>3. CASE v # u
        BY <3>1, <3>3
      <3>4. QED
        BY <3>2, <3>3
    <2>4. \A i \in 1..Len(ledger[v]) : i \in 1..Len(ledger'[v]) /\ ledger'[v][i] = ledger[v][i]
      BY <2>3
    <2>5. QED
      BY <2>1, <2>4 DEF InLedger, Refunded
  <1>3. QED
    BY <1>1, <1>2, StepPays

\* Only the credit of a request refunds, and only the first of what it has to refund.
LEMMA OnlyCredits ==
  ASSUME AllInv, NoDebts, NEW r \in Requests, Start(r) \/ Step(r), NEW tx \in Tx,
         Refunded(tx)', ~Refunded(tx)
  PROVE  CreditRefund(r) /\ tx.id = Head(todo[r]).id
  <1>1. CASE UNCHANGED books
    BY <1>1 DEF books, Refunded
  <1>2. ASSUME NEW u \in Users, NEW delta \in Int, NEW kind \in Kinds, NEW ref \in Nat,
               Pays(r, u, delta, kind, ref)
        PROVE  CreditRefund(r) /\ tx.id = Head(todo[r]).id
    <2>1. kind = "refund" /\ ref = tx.id
      BY <1>2, PostRefunds DEF AllInv, WInv, Pays
    <2>2. QED
      BY <1>2, <2>1 DEF Pays
  <1>3. QED
    BY <1>1, <1>2, StepPays

LEMMA SolventStep ==
  ASSUME AllInv, NoDebts, NEW r \in Requests, Start(r) \/ Step(r)
  PROVE  Solvent'
  <1>1. TypeOK /\ Solvent
    BY DEF AllInv, WInv, PaidBackInv
  <1>2. ASSUME NEW v \in Users PROVE balance'[v] >= 0
    <2>1. CASE UNCHANGED books
      BY <1>1, <2>1 DEF books, Solvent
    <2>2. ASSUME NEW u \in Users, NEW delta \in Int, NEW kind \in Kinds, NEW ref \in Nat,
                 Pays(r, u, delta, kind, ref)
          PROVE  balance'[v] >= 0
      <3>1. balance'[v] = IF v = u THEN balance[u] + delta ELSE balance[v]
        BY <1>1, <2>2 DEF Pays, Post, TypeOK
      <3>2. QED
        BY <1>1, <2>2, <3>1 DEF Pays, Solvent
    <2>3. QED
      BY <2>1, <2>2, StepPays
  <1>3. ASSUME NEW s \in Requests, pc'[s] = "setWrite"
        PROVE  balance'[Owner(s)'] >= seen'[s]
    <2>1. CASE s = r
      <3>1. SetRead(r)
        BY <1>1, <1>3, <2>1, ReadBeforeWrite DEF AllInv, LocksInv
      <3>2. seen'[r] = balance[Owner(r)] /\ balance' = balance /\ Owner(r)' = Owner(r)
            /\ Owner(r) \in Users
        BY <1>1, <3>1, OwnersAreUsers DEF SetRead, Running, books, Owner, TypeOK
      <3>3. balance[Owner(r)] \in Int
        BY <1>1, <3>2 DEF TypeOK
      <3>4. QED
        BY <2>1, <3>2, <3>3
    <2>2. CASE s # r
      <3>1. /\ pc[s] = "setWrite" /\ Owner(s)' = Owner(s) /\ seen'[s] = seen[s]
        BY <1>1, <1>3, <2>2, OthersUntouched DEF Owner
      <3>2. Owner(s) \in Users /\ balance[Owner(s)] \in Int /\ seen[s] \in Int /\ balance[Owner(s)] >= seen[s]
        BY <1>1, <3>1, OwnersAreUsers DEF TypeOK, Solvent
      <3>3. CASE UNCHANGED books
        BY <3>1, <3>2, <3>3 DEF books
      <3>4. ASSUME NEW u \in Users, NEW delta \in Int, NEW kind \in Kinds, NEW ref \in Nat,
                   Pays(r, u, delta, kind, ref)
            PROVE  balance'[Owner(s)'] >= seen'[s]
        <4>1. CASE ChargeActor(r) \/ ChargeUpstream(r) \/ SetWrite(r) \/ Adjust(r)
          <5>1. balance'[Owner(s)] = balance[Owner(s)]
            BY <2>2, <3>1, <4>1, GuardedElsewhere DEF AllInv
          <5>2. QED
            BY <3>1, <3>2, <5>1
        <4>2. CASE delta >= 0
          <5>1. balance'[Owner(s)] = IF Owner(s) = u THEN balance[u] + delta ELSE balance[Owner(s)]
            BY <1>1, <3>2, <3>4 DEF Pays, Post, TypeOK
          <5>2. QED
            BY <3>1, <3>2, <4>2, <5>1
        <4>3. QED
          BY <3>4, <4>1, <4>2 DEF Pays
      <3>5. QED
        BY <3>3, <3>4, StepPays
    <2>3. QED
      BY <2>1, <2>2
  <1>4. QED
    BY <1>2, <1>3 DEF Solvent
-------------------------------------------------------------------------------
\* Every charge of r has been refunded.
AllRefunded(r) == \A i \in 1..Len(txs[r]) : Refunded(txs[r][i])

\* What a step of r leaves to the others: their charges, and refunds, are as they were.
LEMMA OthersPayBack ==
  ASSUME AllInv, NoDebts, NEW r \in Requests, Start(r) \/ Step(r), NEW s \in Requests \ {r}
  PROVE  PaysBack(s)' /\ (pc'[s] = "failed" => AllRefunded(s)')
  <1>1. PaysBack(s) /\ (pc[s] = "failed" => AllRefunded(s))
    BY DEF AllInv, PaidBackInv, FailureCostsNothing, AllRefunded
  <1>2. pc'[s] = pc[s] /\ txs'[s] = txs[s] /\ targets'[s] = targets[s] /\ todo'[s] = todo[s]
    BY OthersUntouched, OthersKept DEF AllInv, WInv
  <1>3. ASSUME NEW i \in 1..Len(txs[s])
        PROVE  /\ InLedger(txs[s][i]) => InLedger(txs[s][i])'
               /\ Refunded(txs[s][i]) => Refunded(txs[s][i])'
    <2>1. PICK tx \in Tx : tx = txs[s][i]
      BY TxTyped DEF AllInv
    <2>2. (InLedger(tx) => InLedger(tx)') /\ (Refunded(tx) => Refunded(tx)')
      BY RowsStay
    <2>3. QED
      BY <1>2, <2>1, <2>2 DEF InLedger, Refunded
  <1>4. OneAbovePays(s)' /\ SecondPays(s)'
    BY <1>1, <1>2 DEF PaysBack, OneAbovePays, SecondPays
  <1>5. ChargesListed(s)'
    BY <1>1, <1>2, <1>3 DEF PaysBack, ChargesListed
  <1>6. ASSUME pc[s] \in {"refunding", "crediting"}, NEW k \in 1..Len(todo[s])
        PROVE  ~Refunded(todo[s][k])'
    <2>1. PICK tx \in Tx : tx = todo[s][k] /\ ~Refunded(tx) /\ \E i \in 1..Len(txs[s]) : tx = txs[s][i]
      BY <1>6, DueIsListed
    <2>2. ASSUME Refunded(tx)' PROVE FALSE
      <3>1. CreditRefund(r) /\ tx.id = Head(todo[r]).id
        BY <2>1, <2>2, OnlyCredits
      <3>2. PICK j \in 1..Len(txs[r]) : Head(todo[r]) = txs[r][j]
        BY <3>1, HeadIsOwn DEF AllInv, CreditRefund
      <3>3. QED
        BY <2>1, <3>1, <3>2 DEF AllInv, RInv, ChargesOwned
    <2>3. QED
      BY <1>2, <2>1, <2>2 DEF Refunded
  <1>7. RefundsDue(s)'
    BY <1>1, <1>2, <1>3, <1>6 DEF PaysBack, RefundsDue
  <1>8. pc'[s] = "failed" => AllRefunded(s)'
    BY <1>1, <1>2, <1>3 DEF AllRefunded
  <1>9. QED
    BY <1>4, <1>5, <1>7, <1>8 DEF PaysBack

\* The next admin above was not found before, and is above somebody.
LEMMA OwnTargets ==
  ASSUME AllInv, NoDebts, NEW r \in Requests, Start(r) \/ Step(r)
  PROVE  OneAbovePays(r)'
  <1>1. TypeOK /\ OneAbovePays(r) /\ ParentsAreSuperiors
    BY DEF AllInv, WInv, PaidBackInv, PaysBack
  <1>2. targets[r] \in Seq(Users)
    BY <1>1 DEF TypeOK
  <1>3. CASE targets' = targets
    BY <1>1, <1>3 DEF OneAbovePays
  <1>4. CASE LockWallets(r)
    <2>1. targets'[r] = <<>>
      BY <1>1, <1>4 DEF LockWallets, TypeOK
    <2>2. 1..Len(targets'[r]) = {}
      BY <2>1, Emptiness
    <2>3. QED
      BY <2>2 DEF OneAbovePays
  <1>5. ASSUME NEW u \in Users, u \notin Found(r), Price[u] > 0 => u \in Superiors,
               targets' = [targets EXCEPT ![r] = Append(@, u)]
        PROVE  OneAbovePays(r)'
    <2>1. \A i \in 1..Len(targets[r]) : targets[r][i] # u
      BY <1>5 DEF Found
    <2>2. \A i \in 1..Len(targets'[r]) : \/ i \in 1..Len(targets[r]) /\ targets'[r][i] = targets[r][i]
                                         \/ i = Len(targets[r]) + 1 /\ targets'[r][i] = u
      <3>1. \A i \in 1..Len(Append(targets[r], u)) :
               \/ i \in 1..Len(targets[r]) /\ Append(targets[r], u)[i] = targets[r][i]
               \/ i = Len(targets[r]) + 1 /\ Append(targets[r], u)[i] = u
        BY <1>2
      <3>2. targets'[r] = Append(targets[r], u)
        BY <1>1, <1>5 DEF TypeOK
      <3>3. QED
        BY <3>1, <3>2
    <2>3. QED
      BY <1>1, <1>5, <2>1, <2>2 DEF OneAbovePays
  <1>6. CASE ClimbOne(r)
    <2>1. PICK u : u = Above(r)
      OBVIOUS
    <2>2. pc[r] # "new" /\ u # NoUser /\ u \notin Found(r) /\ CanClimb(r)
      BY <1>6, <2>1 DEF ClimbOne, CanClimb, Running
    <2>3. u \in Users
      BY <1>1, <2>1, <2>2, TargetsAreUsers
    <2>4. u \in Superiors
      <3>1. PICK v \in Found(r) : u = parent[v]
        BY <1>1, <2>1, AboveIsParent
      <3>2. v \in Users
        BY <1>1, <2>2, TargetsAreUsers
      <3>3. QED
        BY <1>1, <2>2, <3>1, <3>2 DEF ParentsAreSuperiors
    <2>5. QED
      BY <1>5, <1>6, <2>1, <2>2, <2>3, <2>4 DEF ClimbOne
  <1>7. CASE TargetsKnown(r)
    <2>1. CASE UNCHANGED targets
      BY <1>3, <2>1
    <2>2. ASSUME NEW u \in LastTarget(r), targets' = [targets EXCEPT ![r] = Append(@, u)]
          PROVE  OneAbovePays(r)'
      <3>1. u \in Roots /\ u \notin Found(r)
        BY DEF LastTarget, SoleRoot
      <3>2. u \in Users /\ Price[u] = 0
        BY <3>1, WalletsAssumption DEF NoDebts
      <3>3. Price[u] > 0 => u \in Superiors
        BY <3>2
      <3>4. QED
        BY <1>5, <2>2, <3>1, <3>2, <3>3
    <2>3. QED
      BY <1>7, <2>1, <2>2 DEF TargetsKnown
  <1>8. CASE SkipUpstream(r) \/ ChargeUpstream(r)
    <2>1. targets[r] # <<>> /\ targets'[r] = Tail(targets[r])
      BY <1>1, <1>8 DEF SkipUpstream, ChargeUpstream, TypeOK
    <2>2. \A i \in 1..Len(Tail(targets[r])) : i + 1 \in 1..Len(targets[r]) /\ Tail(targets[r])[i] = targets[r][i + 1]
      BY <1>2, <2>1
    <2>3. QED
      <3>1. ASSUME NEW i \in 1..Len(targets'[r])
            PROVE  Price[targets'[r][i]] > 0 => targets'[r][i] \in Superiors
        BY <1>1, <2>1, <2>2 DEF OneAbovePays
      <3>2. ASSUME NEW i \in 1..Len(targets'[r]), NEW j \in 1..Len(targets'[r]), targets'[r][i] = targets'[r][j]
            PROVE  i = j
        <4>1. i + 1 = j + 1
          BY <1>1, <2>1, <2>2, <3>2 DEF OneAbovePays
        <4>2. QED
          BY <4>1
      <3>3. QED
        BY <3>1, <3>2 DEF OneAbovePays
  <1>9. CASE \/ Start(r) \/ TakeLock(r) \/ ChargeNothing(r) \/ RefuseCharge(r) \/ ChargeActor(r)
             \/ UpstreamShort(r) \/ ChargeDone(r) \/ CallPanel(r) \/ CheckRefund(r) \/ CreditRefund(r)
             \/ SetRead(r) \/ SetWrite(r) \/ Adjust(r)
    BY <1>3, <1>9 DEF Start, TakeLock, ChargeNothing, RefuseCharge, ChargeActor, UpstreamShort,
       ChargeDone, CallPanel, CheckRefund, CreditRefund, SetRead, SetWrite, Adjust
  <1>10. QED
    BY <1>4, <1>6, <1>7, <1>8, <1>9 DEF Step

\* Before an upstream admin has paid, the charge is one; after, nobody is left who pays.
LEMMA OwnSecond ==
  ASSUME AllInv, NoDebts, NEW r \in Requests, Start(r) \/ Step(r)
  PROVE  SecondPays(r)'
  <1>1. TypeOK /\ OneAbovePays(r) /\ SecondPays(r)
    BY DEF AllInv, WInv, PaidBackInv, PaysBack
  <1>2. targets[r] \in Seq(Users) /\ \A u \in Users : Price[u] \in Nat
    BY <1>1, WalletsAssumption DEF TypeOK
  <1>3. CASE ChargeActor(r)
    <2>1. PICK tx : tx = [id |-> nextId, user |-> Owner(r), amount |-> Price[Owner(r)]]
      OBVIOUS
    <2>2. txs'[r] = <<tx>> /\ pc'[r] = "targeting"
      BY <1>1, <1>3, <2>1 DEF ChargeActor, GoTo, TypeOK
    <2>3. Len(<<tx>>) = 1
      OBVIOUS
    <2>4. QED
      BY <2>2, <2>3 DEF SecondPays
  <1>4. CASE TargetsKnown(r)
    BY <1>1, <1>4 DEF TargetsKnown, Running, GoTo, TypeOK, SecondPays
  <1>5. CASE TakeLock(r) \/ ClimbOne(r)
    <2>1. UNCHANGED <<pc, txs>> /\ (TakeLock(r) => targets' = targets)
      BY <1>5 DEF TakeLock, ClimbOne
    <2>2. ClimbOne(r) => pc[r] # "upstream"
      BY DEF ClimbOne, Running
    <2>3. QED
      BY <1>1, <1>5, <2>1, <2>2 DEF SecondPays
  <1>6. CASE SkipUpstream(r) \/ ChargeUpstream(r)
    <2>1. targets[r] # <<>> /\ targets'[r] = Tail(targets[r]) /\ pc[r] = "upstream" /\ pc' = pc
      BY <1>1, <1>6 DEF SkipUpstream, ChargeUpstream, Running, TypeOK
    <2>2. /\ \A i \in 1..Len(Tail(targets[r])) : i + 1 \in 1..Len(targets[r]) /\ Tail(targets[r])[i] = targets[r][i + 1]
          /\ 1 \in 1..Len(targets[r]) /\ Head(targets[r]) = targets[r][1]
      BY <1>2, <2>1
    <2>3. CASE SkipUpstream(r)
      BY <1>1, <2>1, <2>2, <2>3 DEF SkipUpstream, SecondPays
    <2>4. CASE ChargeUpstream(r)
      <3>1. Price[targets[r][1]] > 0
        BY <2>2, <2>4 DEF ChargeUpstream
      <3>2. ASSUME NEW i \in 1..Len(Tail(targets[r])) PROVE Price[Tail(targets[r])[i]] = 0
        <4>1. PICK n \in 1..Len(targets[r]) : n = i + 1
          BY <2>2
        <4>2. targets[r][n] # targets[r][1]
          <5>1. n # 1
            BY <4>1
          <5>2. QED
            BY <1>1, <2>2, <5>1 DEF OneAbovePays
        <4>3. ~(Price[targets[r][n]] > 0)
          BY <1>1, <2>2, <3>1, <4>2 DEF OneAbovePays, NoDebts
        <4>4. targets[r][n] \in Users
          BY <1>2
        <4>5. QED
          BY <1>2, <2>2, <4>1, <4>3, <4>4
      <3>3. QED
        BY <2>1, <3>2 DEF SecondPays
    <2>5. QED
      BY <1>6, <2>3, <2>4
  <1>7. CASE \/ Start(r) \/ LockWallets(r) \/ ChargeNothing(r) \/ RefuseCharge(r)
             \/ UpstreamShort(r) \/ ChargeDone(r) \/ CallPanel(r) \/ CheckRefund(r) \/ CreditRefund(r)
             \/ SetRead(r) \/ SetWrite(r) \/ Adjust(r)
    <2>1. \E stage \in Stages \ {"targeting", "upstream"} : pc' = [pc EXCEPT ![r] = stage]
      BY <1>7 DEF Start, LockWallets, ChargeNothing, RefuseCharge, UpstreamShort, ChargeDone,
         CallPanel, CheckRefund, CreditRefund, AfterCredit, SetRead, SetWrite, Adjust, GoTo, End, Stages, Ended
    <2>2. QED
      BY <1>1, <2>1 DEF TypeOK, SecondPays
  <1>8. QED
    BY <1>3, <1>4, <1>5, <1>6, <1>7 DEF Step
-------------------------------------------------------------------------------
\* What r enters is listed, and under an id of its own.
LEMMA OwnCharges ==
  ASSUME AllInv, NoDebts, NEW r \in Requests, Start(r) \/ Step(r)
  PROVE  ChargesListed(r)'
  <1>1. TypeOK /\ ChargesListed(r) /\ "charge" \in Kinds /\ 0 \in Nat
    BY DEF AllInv, WInv, PaidBackInv, PaysBack, Kinds
  <1>2. ASSUME NEW i \in 1..Len(txs[r])
        PROVE  /\ txs[r][i] \in Tx /\ txs[r][i].amount >= 0 /\ txs[r][i].id < nextId
               /\ \E tx \in Tx : tx = txs[r][i] /\ InLedger(tx)'
    <2>1. PICK tx \in Tx : tx = txs[r][i]
      BY TxTyped DEF AllInv
    <2>2. InLedger(tx) /\ tx.amount >= 0 /\ tx.id < nextId
      BY <1>1, <2>1 DEF ChargesListed, AllInv, RInv, ChargesPosted
    <2>3. QED
      BY <2>1, <2>2, RowsStay
  <1>3. CASE UNCHANGED txs
    <2>1. ASSUME NEW i \in 1..Len(txs[r]) PROVE InLedger(txs[r][i])'
      <3>1. PICK own \in Tx : own = txs[r][i] /\ InLedger(own)'
        BY <1>2
      <3>2. QED
        BY <1>3, <3>1 DEF InLedger
    <2>2. QED
      BY <1>1, <1>3, <2>1 DEF ChargesListed
  <1>4. ASSUME NEW u \in Users, NEW new \in Tx, new.id = nextId, new.user = u, new.amount >= 0,
               Post(u, -Price[u], "charge", 0),
               \A i \in 1..Len(txs'[r]) : \/ i \in 1..Len(txs[r]) /\ txs'[r][i] = txs[r][i]
                                          \/ i = Len(txs[r]) + 1 /\ txs'[r][i] = new
        PROVE  ChargesListed(r)'
    <2>1. InLedger(new)'
      <3>1. -Price[u] \in Int
        BY <1>1, ChargeTyped
      <3>2. /\ ledger'[u][Len(ledger[u]) + 1].id = nextId
            /\ Len(ledger'[u]) = Len(ledger[u]) + 1 /\ Len(ledger[u]) \in Nat
        BY <1>1, <1>4, <3>1, PostRows
      <3>3. Len(ledger[u]) + 1 \in 1..Len(ledger'[u])
        BY <3>2
      <3>4. QED
        BY <1>4, <3>2, <3>3 DEF InLedger
    <2>2. ASSUME NEW i \in 1..Len(txs'[r])
          PROVE  InLedger(txs[r][i])' /\ txs'[r][i].amount >= 0
      <3>1. CASE i \in 1..Len(txs[r]) /\ txs'[r][i] = txs[r][i]
        <4>1. PICK own \in Tx : own = txs[r][i] /\ InLedger(own)'
          BY <1>2, <3>1
        <4>2. own = txs'[r][i] /\ own.amount >= 0
          BY <1>2, <3>1, <4>1
        <4>3. QED
          BY <4>1, <4>2 DEF InLedger
      <3>2. CASE txs'[r][i] = new
        BY <1>4, <2>1, <3>2 DEF InLedger
      <3>3. QED
        BY <1>4, <3>1, <3>2
    <2>3. ASSUME NEW i \in 1..Len(txs'[r]), NEW j \in 1..Len(txs'[r]), txs'[r][i].id = txs'[r][j].id
          PROVE  i = j
      <3>1. nextId \in Nat /\ \A k \in 1..Len(txs[r]) : txs[r][k].id \in Nat
        BY <1>1, <1>2 DEF TypeOK, Tx
      <3>2. \A k \in 1..Len(txs[r]) : txs[r][k].id # nextId
        BY <1>2, <3>1
      <3>3. QED
        BY <1>1, <1>4, <2>3, <3>2 DEF ChargesListed
    <2>4. QED
      BY <2>2, <2>3 DEF ChargesListed
  <1>5. CASE ChargeActor(r)
    <2>1. Owner(r) \in Users /\ Price[Owner(r)] \in Nat
      BY <1>1, <1>5, OwnersAreUsers, ChargeTyped DEF ChargeActor, Running
    <2>2. PICK new \in Tx : new = [id |-> nextId, user |-> Owner(r), amount |-> Price[Owner(r)]]
      BY <1>1, <2>1, ChargeTyped
    <2>3. txs'[r] = <<new>> /\ Post(Owner(r), -Price[Owner(r)], "charge", 0)
      BY <1>1, <1>5, <2>2 DEF ChargeActor, TypeOK
    <2>4. Len(txs[r]) = 0
      BY <1>5, Emptiness DEF AllInv, LocksInv, LocksEnough, ChargeActor, Running
    <2>5. new.id = nextId /\ new.user = Owner(r) /\ new.amount >= 0
      BY <2>1, <2>2
    <2>6. \A i \in 1..Len(txs'[r]) : i = Len(txs[r]) + 1 /\ txs'[r][i] = new
      <3>1. \A i \in 1..Len(<<new>>) : i = 0 + 1 /\ <<new>>[i] = new
        OBVIOUS
      <3>2. QED
        BY <2>3, <2>4, <3>1
    <2>7. QED
      BY <1>4, <2>1, <2>3, <2>5, <2>6
  <1>6. CASE ChargeUpstream(r)
    <2>1. PICK u : u = Head(targets[r])
      OBVIOUS
    <2>2. targets[r] \in Seq(Users) /\ txs[r] \in Seq(Tx) /\ targets[r] # <<>>
      BY <1>1, <1>6 DEF TypeOK, ChargeUpstream
    <2>3. u \in Users
      BY <2>1, <2>2
    <2>4. Price[u] \in Nat /\ [id |-> nextId, user |-> u, amount |-> Price[u]] \in Tx
      BY <1>1, <2>3, ChargeTyped
    <2>5. PICK new \in Tx : new = [id |-> nextId, user |-> u, amount |-> Price[u]]
      BY <2>4
    <2>6. txs'[r] = Append(txs[r], new) /\ Post(u, -Price[u], "charge", 0)
      BY <1>1, <1>6, <2>1, <2>5 DEF ChargeUpstream, TypeOK
    <2>7. new.id = nextId /\ new.user = u /\ new.amount >= 0
      BY <2>4, <2>5
    <2>8. \A i \in 1..Len(Append(txs[r], new)) :
             \/ i \in 1..Len(txs[r]) /\ Append(txs[r], new)[i] = txs[r][i]
             \/ i = Len(txs[r]) + 1 /\ Append(txs[r], new)[i] = new
      BY <2>2
    <2>9. QED
      BY <1>4, <2>3, <2>6, <2>7, <2>8
  <1>7. QED
    BY <1>3, <1>5, <1>6 DEF Step, Start, TakeLock, ClimbOne, LockWallets, ChargeNothing, RefuseCharge,
       TargetsKnown, SkipUpstream, UpstreamShort, ChargeDone, CallPanel, CheckRefund, CreditRefund,
       SetRead, SetWrite, Adjust

\* While r makes no credit, what was refunded of its charges is what it was.
LEMMA OwnRefunds ==
  ASSUME AllInv, NoDebts, NEW r \in Requests, Start(r) \/ Step(r), ~CreditRefund(r), NEW tx \in Tx
  PROVE  Refunded(tx)' <=> Refunded(tx)
  BY RowsStay, OnlyCredits

\* A failing operation takes all it has charged into its hands, and gives up none but by refunding it.
LEMMA OwnRefundsDue ==
  ASSUME AllInv, NoDebts, NEW r \in Requests, Start(r) \/ Step(r), ~CreditRefund(r)
  PROVE  RefundsDue(r)' /\ (pc'[r] = "failed" => AllRefunded(r)')
  <1>1. TypeOK /\ RefundsDue(r) /\ ChargesListed(r) /\ SecondPays(r)
    BY DEF AllInv, WInv, PaidBackInv, PaysBack
  <1>2. ASSUME NEW i \in 1..Len(txs[r])
        PROVE  \E tx \in Tx : tx = txs[r][i] /\ (Refunded(tx)' <=> Refunded(tx))
    BY TxTyped, OwnRefunds DEF AllInv
  <1>3. CASE CheckRefund(r)
    <2>1. pc[r] = "refunding" /\ pc'[r] = "crediting" /\ UNCHANGED <<txs, todo>>
      <3>1. pc[r] = "refunding"
        BY <1>3 DEF CheckRefund
      <3>2. InLedger(Head(todo[r])) /\ ~Refunded(Head(todo[r]))
        BY <3>1, FirstIsDue
      <3>3. QED
        BY <1>1, <1>3, <3>1, <3>2 DEF CheckRefund, GoTo, TypeOK
    <2>2. \A k \in 1..Len(todo[r]) : \E tx \in Tx : tx = todo[r][k] /\ ~Refunded(tx)'
      BY <2>1, DueIsListed, OwnRefunds
    <2>3. RefundsDue(r)'
      <3>1. \A k \in 1..Len(todo'[r]) : ~Refunded(todo[r][k])'
        BY <2>1, <2>2 DEF Refunded
      <3>2. ASSUME NEW i \in 1..Len(txs[r]), Refunded(txs[r][i])
            PROVE  Refunded(txs[r][i])'
        <4>1. PICK own \in Tx : own = txs[r][i] /\ (Refunded(own)' <=> Refunded(own))
          BY <1>2
        <4>2. Refunded(own)'
          BY <3>2, <4>1
        <4>3. QED
          BY <2>1, <4>1, <4>2 DEF Refunded
      <3>3. QED
        BY <1>1, <2>1, <3>1, <3>2 DEF RefundsDue
    <2>4. QED
      BY <2>1, <2>3
  <1>4. CASE CallPanel(r)
    <2>1. pc[r] = "panel" /\ txs' = txs
          /\ \/ pc'[r] = "succeeded"
             \/ pc'[r] = "failed" /\ txs[r] = <<>>
             \/ pc'[r] = "refunding" /\ todo'[r] = txs[r]
      BY <1>1, <1>4 DEF CallPanel, GoTo, TypeOK
    <2>2. ASSUME NEW i \in 1..Len(txs[r]) PROVE ~Refunded(txs[r][i])'
      <3>1. ~Refunded(txs[r][i])
        BY <2>1 DEF AllInv, RInv, PaidUnlessFailing
      <3>2. PICK own \in Tx : own = txs[r][i] /\ (Refunded(own)' <=> Refunded(own))
        BY <1>2
      <3>3. ~Refunded(own)'
        BY <3>1, <3>2
      <3>4. QED
        BY <2>1, <3>2, <3>3 DEF Refunded
    <2>3. CASE pc'[r] = "refunding" /\ todo'[r] = txs[r]
      <3>1. \A k \in 1..Len(todo'[r]) : ~Refunded(todo[r][k])'
        BY <2>1, <2>2, <2>3 DEF Refunded
      <3>2. QED
        BY <1>1, <2>1, <2>3, <3>1 DEF RefundsDue, ChargesListed
    <2>4. CASE pc'[r] = "failed" /\ txs[r] = <<>>
      <3>1. 1..Len(txs'[r]) = {}
        BY <2>1, <2>4, Emptiness
      <3>2. QED
        BY <2>4, <3>1 DEF AllRefunded, RefundsDue
    <2>5. QED
      BY <2>1, <2>3, <2>4 DEF RefundsDue
  <1>5. CASE UpstreamShort(r)
    <2>1. /\ pc[r] = "upstream" /\ pc'[r] = "refunding" /\ txs' = txs /\ todo'[r] = <<txs[r][1]>>
          /\ targets[r] # <<>> /\ Price[Head(targets[r])] > 0
      BY <1>1, <1>5 DEF UpstreamShort, Running, GoTo, TypeOK
    <2>2. Len(txs[r]) = 1
      <3>1. 1 \in 1..Len(targets[r]) /\ Head(targets[r]) = targets[r][1]
        <4>1. targets[r] \in Seq(Users)
          BY <1>1 DEF TypeOK
        <4>2. QED
          BY <2>1, <4>1
      <3>2. QED
        BY <1>1, <2>1, <3>1 DEF SecondPays
    <2>3. PICK tx : tx = txs[r][1]
      OBVIOUS
    <2>4. 1 \in 1..Len(txs[r]) /\ \A i \in 1..Len(txs[r]) : i = 1
      BY <2>2
    <2>5. Len(<<tx>>) = 1 /\ <<tx>>[1] = tx
      OBVIOUS
    <2>6. 1 \in 1..Len(todo'[r]) /\ todo'[r][1] = tx /\ \A k \in 1..Len(todo'[r]) : k = 1
      BY <2>1, <2>3, <2>5
    <2>7. ~Refunded(txs[r][1])
      BY <2>1, <2>4 DEF AllInv, RInv, PaidUnlessFailing
    <2>8. ~Refunded(todo[r][1])'
      <3>1. PICK own \in Tx : own = txs[r][1] /\ (Refunded(own)' <=> Refunded(own))
        BY <1>2, <2>4
      <3>2. ~Refunded(own)'
        BY <2>7, <3>1
      <3>3. todo'[r][1] = own
        BY <2>3, <2>6, <3>1
      <3>4. QED
        BY <3>2, <3>3 DEF Refunded
    <2>9. QED
      BY <2>1, <2>3, <2>4, <2>6, <2>8 DEF RefundsDue
  <1>6. CASE RefuseCharge(r) \/ Adjust(r)
    <2>1. txs[r] = <<>> /\ txs' = txs /\ pc'[r] \in {"failed", "succeeded"}
      BY <1>1, <1>6 DEF RefuseCharge, Adjust, Running, GoTo, End, TypeOK, AllInv, LocksInv, LocksEnough
    <2>2. 1..Len(txs'[r]) = {}
      BY <2>1, Emptiness
    <2>3. QED
      BY <2>1, <2>2 DEF RefundsDue, AllRefunded
  <1>7. CASE TakeLock(r)
    <2>1. UNCHANGED <<pc, txs, todo>>
      BY <1>7 DEF TakeLock
    <2>2. pc[r] = "failed" => AllRefunded(r)
      BY DEF AllInv, PaidBackInv, FailureCostsNothing, AllRefunded
    <2>3. UNCHANGED ledger
      BY <1>7 DEF TakeLock, books
    <2>4. QED
      BY <1>1, <2>1, <2>2, <2>3 DEF RefundsDue, AllRefunded, Refunded
  <1>8. CASE ClimbOne(r) \/ SkipUpstream(r) \/ ChargeUpstream(r)
    <2>1. pc' = pc /\ pc[r] \in {"planning", "targeting", "upstream"}
      BY <1>8 DEF ClimbOne, SkipUpstream, ChargeUpstream, Running
    <2>2. QED
      BY <2>1 DEF RefundsDue
  <1>9. CASE \/ Start(r) \/ LockWallets(r) \/ ChargeNothing(r) \/ ChargeActor(r) \/ TargetsKnown(r)
             \/ ChargeDone(r) \/ SetRead(r) \/ SetWrite(r)
    <2>1. pc'[r] \notin {"refunding", "crediting", "failed"}
      BY <1>1, <1>9 DEF Start, LockWallets, ChargeNothing, ChargeActor, TargetsKnown, ChargeDone, SetRead,
         SetWrite, GoTo, End, TypeOK
    <2>2. QED
      BY <2>1 DEF RefundsDue
  <1>10. QED
    BY <1>3, <1>4, <1>5, <1>6, <1>7, <1>8, <1>9 DEF Step

\* A credit takes the first refund off those due, and after the last one nothing is owed.
LEMMA OwnCredit ==
  ASSUME AllInv, NoDebts, NEW r \in Requests, CreditRefund(r)
  PROVE  RefundsDue(r)' /\ (pc'[r] = "failed" => AllRefunded(r)')
  <1>1. TypeOK /\ pc[r] = "crediting" /\ RefundsDue(r) /\ Step(r)
    BY DEF AllInv, WInv, PaidBackInv, PaysBack, CreditRefund, Step
  <1>2. PICK tx \in Tx : tx = Head(todo[r])
    BY <1>1, FirstIsDue
  <1>3. tx = todo[r][1] /\ 1 \in 1..Len(todo[r]) /\ Creditable(tx)
    BY <1>1, <1>2, FirstIsDue
  <1>4. todo[r] \in Seq(Tx)
    BY <1>1 DEF TypeOK
  <1>5. /\ todo'[r] = Tail(todo[r]) /\ txs' = txs
        /\ Post(tx.user, tx.amount, "refund", tx.id)
        /\ IF Len(todo[r]) = 1 THEN pc'[r] = "failed" ELSE pc'[r] = "refunding"
    BY <1>1, <1>2, <1>3 DEF CreditRefund, AfterCredit, End, GoTo, TypeOK
  <1>6. Refunded(tx)'
    <2>1. tx.user \in Users /\ tx.amount \in Int /\ tx.id \in Nat /\ "refund" \in Kinds
      BY DEF Tx, Kinds
    <2>2. /\ ledger'[tx.user][Len(ledger[tx.user]) + 1].kind = "refund"
          /\ ledger'[tx.user][Len(ledger[tx.user]) + 1].ref = tx.id
          /\ Len(ledger'[tx.user]) = Len(ledger[tx.user]) + 1 /\ Len(ledger[tx.user]) \in Nat
      <3>1. PICK u \in Users, n \in Int, id \in Nat : u = tx.user /\ n = tx.amount /\ id = tx.id
        BY <2>1
      <3>2. Post(u, n, "refund", id)
        BY <1>5, <3>1
      <3>3. /\ Len(ledger[u]) \in Nat /\ Len(ledger'[u]) = Len(ledger[u]) + 1
            /\ ledger'[u][Len(ledger[u]) + 1].kind = "refund" /\ ledger'[u][Len(ledger[u]) + 1].ref = id
        <4>1. TypeOK /\ "refund" \in Kinds
          BY <1>1 DEF Kinds
        <4>2. /\ \A v \in Users : /\ Len(ledger[v]) \in Nat
                                  /\ Len(ledger'[v]) = Len(ledger[v]) + (IF v = u THEN 1 ELSE 0)
              /\ ledger'[u][Len(ledger[u]) + 1].kind = "refund" /\ ledger'[u][Len(ledger[u]) + 1].ref = id
          BY <3>2, <4>1, PostRows
        <4>3. QED
          BY <4>2
      <3>4. QED
        BY <3>1, <3>3
    <2>3. Len(ledger[tx.user]) + 1 \in 1..Len(ledger'[tx.user])
      BY <2>2
    <2>4. QED
      BY <2>2, <2>3 DEF Refunded
  <1>7. /\ Len(todo[r]) \in Nat /\ Len(Tail(todo[r])) = Len(todo[r]) - 1
        /\ \A k \in 1..Len(Tail(todo[r])) : k + 1 \in 1..Len(todo[r]) /\ Tail(todo[r])[k] = todo[r][k + 1]
        /\ \A k \in 1..Len(todo[r]) : k = 1 \/ (k - 1 \in 1..Len(Tail(todo[r])) /\ Tail(todo[r])[k - 1] = todo[r][k])
    BY <1>3, <1>4
  <1>8. ASSUME NEW i \in 1..Len(txs[r])
        PROVE  Refunded(txs[r][i])' \/ \E k \in 1..Len(Tail(todo[r])) : Tail(todo[r])[k] = txs[r][i]
    <2>1. PICK own \in Tx : own = txs[r][i]
      BY TxTyped DEF AllInv
    <2>2. CASE Refunded(own)
      <3>1. Refunded(own)'
        BY <1>1, <2>2, RowsStay
      <3>2. QED
        BY <1>5, <2>1, <3>1 DEF Refunded
    <2>3. CASE \E k \in 1..Len(todo[r]) : todo[r][k] = own
      <3>1. PICK k \in 1..Len(todo[r]) : todo[r][k] = own
        BY <2>3
      <3>2. CASE k = 1
        BY <1>3, <1>5, <1>6, <2>1, <3>1, <3>2 DEF Refunded
      <3>3. CASE k # 1
        BY <1>7, <2>1, <3>1, <3>3
      <3>4. QED
        BY <3>2, <3>3
    <2>4. QED
      BY <1>1, <2>1, <2>2, <2>3 DEF RefundsDue
  <1>9. ASSUME NEW k \in 1..Len(Tail(todo[r]))
        PROVE  ~Refunded(todo[r][k])'
    <2>1. PICK n \in 1..Len(todo[r]) : n = k + 1 /\ Tail(todo[r])[k] = todo[r][n]
      BY <1>7
    <2>2. PICK other \in Tx : other = todo[r][n] /\ ~Refunded(other)
      BY <1>1, DueIsListed
    <2>3. other.id # tx.id
      <3>1. n # 1
        BY <1>7, <2>1
      <3>2. QED
        BY <1>1, <1>3, <2>2, <3>1 DEF RefundsDue
    <2>4. ~Refunded(other)'
      BY <1>1, <1>2, <2>2, <2>3, OnlyCredits
    <2>5. QED
      BY <1>5, <2>1, <2>2, <2>4 DEF Refunded
  <1>10. \A k, l \in 1..Len(Tail(todo[r])) : Tail(todo[r])[k].id = Tail(todo[r])[l].id => k = l
    <2>1. SUFFICES ASSUME NEW k \in 1..Len(Tail(todo[r])), NEW l \in 1..Len(Tail(todo[r])),
                          Tail(todo[r])[k].id = Tail(todo[r])[l].id
                   PROVE  k = l
      OBVIOUS
    <2>2. k + 1 = l + 1
      BY <1>1, <1>7, <2>1 DEF RefundsDue
    <2>3. QED
      BY <2>2
  <1>11. RefundsDue(r)'
    BY <1>5, <1>8, <1>9, <1>10 DEF RefundsDue
  <1>12. ASSUME pc'[r] = "failed" PROVE AllRefunded(r)'
    <2>1. Len(Tail(todo[r])) = 0
      BY <1>5, <1>7, <1>12
    <2>2. QED
      BY <1>5, <1>8, <2>1 DEF AllRefunded
  <1>13. QED
    BY <1>11, <1>12
-------------------------------------------------------------------------------
\* Where neither the ledger changes nor the request moves, nothing comes to be owed.
LEMMA StandsStill ==
  ASSUME NEW s \in Requests, PaysBack(s), UNCHANGED <<ledger, pc, targets, txs, todo>>
  PROVE  PaysBack(s)'
  <1>1. OneAbovePays(s)' /\ SecondPays(s)'
    BY DEF PaysBack, OneAbovePays, SecondPays
  <1>2. ChargesListed(s)'
    BY DEF PaysBack, ChargesListed, InLedger
  <1>3. RefundsDue(s)'
    BY DEF PaysBack, RefundsDue, Refunded
  <1>4. QED
    BY <1>1, <1>2, <1>3 DEF PaysBack

\* All of it is kept by every step.
LEMMA PaidBackStep ==
  ASSUME AllInv, NoDebts, [Next]_vars
  PROVE  PaidBackInv'
  <1>1. PaidBackInv /\ TypeOK
    BY DEF AllInv, WInv
  <1>2. ASSUME NEW r \in Requests, Start(r) \/ Step(r)
        PROVE  PaidBackInv'
    <2>1. Solvent'
      BY <1>2, SolventStep
    <2>2. ParentsAreSuperiors'
      <3>1. parent' = parent
        BY <1>2 DEF Start, Step, TakeLock, ClimbOne, LockWallets, ChargeNothing, RefuseCharge, ChargeActor,
           TargetsKnown, SkipUpstream, ChargeUpstream, UpstreamShort, ChargeDone, CallPanel, CheckRefund,
           CreditRefund, SetRead, SetWrite, Adjust
      <3>2. QED
        BY <1>1, <3>1 DEF PaidBackInv, ParentsAreSuperiors
    <2>3. PaysBack(r)' /\ (pc'[r] = "failed" => AllRefunded(r)')
      BY <1>2, OwnTargets, OwnSecond, OwnCharges, OwnRefundsDue, OwnCredit DEF PaysBack
    <2>4. ASSUME NEW s \in Requests PROVE PaysBack(s)' /\ (pc'[s] = "failed" => AllRefunded(s)')
      <3>1. CASE s = r
        BY <2>3, <3>1
      <3>2. CASE s # r
        BY <1>2, <3>2, OthersPayBack
      <3>3. QED
        BY <3>1, <3>2
    <2>5. FailureCostsNothing'
      BY <2>4 DEF FailureCostsNothing, AllRefunded
    <2>6. QED
      BY <2>1, <2>2, <2>4, <2>5 DEF PaidBackInv
  <1>3. CASE ChangeParent
    <2>1. UNCHANGED <<guardVars, books, pc, job, seen, targets, txs, todo>>
      BY <1>3 DEF ChangeParent
    <2>2. ParentsAreSuperiors'
      <3>1. PICK move \in Moves : parent' = [parent EXCEPT ![move[1]] = move[2]]
        BY <1>3 DEF ChangeParent
      <3>2. move[2] \in Superiors \cup {NoUser}
        BY DEF Superiors
      <3>3. QED
        BY <1>1, <3>1, <3>2 DEF PaidBackInv, ParentsAreSuperiors, TypeOK
    <2>3. Solvent' /\ FailureCostsNothing'
      BY <1>1, <2>1 DEF PaidBackInv, Solvent, FailureCostsNothing, Owner, Refunded, books
    <2>4. ASSUME NEW s \in Requests PROVE PaysBack(s)'
      BY <1>1, <2>1, StandsStill DEF PaidBackInv, books
    <2>5. QED
      BY <2>2, <2>3, <2>4 DEF PaidBackInv
  <1>4. CASE UNCHANGED vars
    <2>1. UNCHANGED <<parent, books, pc, job, seen, targets, txs, todo>>
      BY <1>4 DEF vars
    <2>2. Solvent' /\ FailureCostsNothing' /\ ParentsAreSuperiors'
      BY <1>1, <2>1 DEF PaidBackInv, Solvent, FailureCostsNothing, ParentsAreSuperiors, Owner, Refunded, books
    <2>3. ASSUME NEW s \in Requests PROVE PaysBack(s)'
      BY <1>1, <2>1, StandsStill DEF PaidBackInv, books
    <2>4. QED
      BY <2>2, <2>3 DEF PaidBackInv
  <1>5. QED
    BY <1>2, <1>3, <1>4, NothingIsReset DEF Next, Rest

\* Nobody has paid or been paid back at the start.
LEMMA PaidBackInit ==
  ASSUME Init
  PROVE  PaidBackInv
  <1>1. Solvent
    BY DEF Init, Solvent
  <1>2. ParentsAreSuperiors
    BY WalletsAssumption DEF Init, ParentsAreSuperiors, Superiors
  <1>3. ASSUME NEW r \in Requests
        PROVE  PaysBack(r)
    <2>1. pc[r] = "new" /\ 1..Len(targets[r]) = {} /\ 1..Len(txs[r]) = {}
      BY Emptiness DEF Init
    <2>2. QED
      BY <2>1 DEF PaysBack, OneAbovePays, SecondPays, ChargesListed, RefundsDue
  <1>4. FailureCostsNothing
    BY DEF Init, FailureCostsNothing
  <1>5. QED
    BY <1>1, <1>2, <1>3, <1>4 DEF PaidBackInv

\* A paid operation that failed has cost nobody anything, where no wallet may owe, no ledger is
\* reset and one admin at most is charged besides the one who acts. Without the last two, the
\* except block of charge_operation leaves an upstream admin charged; without the first, the
\* refund of a wallet in debt is refused.
THEOREM FailuresCostNothing ==
  ASSUME NoDebts
  PROVE  Spec /\ ParentsWait => []FailureCostsNothing
  <1>1. Init => PaidBackInv
    BY PaidBackInit
  <1>2. WInv /\ LocksInv /\ RInv /\ PaidBackInv /\ [Next]_vars => PaidBackInv'
    BY PaidBackStep DEF AllInv
  <1>3. PaidBackInv => FailureCostsNothing
    BY DEF PaidBackInv
  <1>4. QED
    BY <1>1, <1>2, <1>3, WalletsInvariant, RefundsInvariant, LocksAreEnough, PTL DEF Spec
===============================================================================
