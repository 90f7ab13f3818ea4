--------------------------- MODULE SharedConnection ---------------------------
(***************************************************************************)
(* The one aiosqlite connection that every coroutine of the bot shares,    *)
(* statement by statement, under the three kinds of work that meet on it:  *)
(*   "change"  FinanceRepository.apply_balance_change                      *)
(*   "clear"   FinancialService.clear_wallet_ledger_for_user               *)
(*   "note"    Database.add_audit_log, which stands for the sixty methods  *)
(*             that write a row and commit                                 *)
(* There is one transaction, that of the connection: a data statement      *)
(* opens it when none is open (the sqlite3 module's default), BEGIN fails  *)
(* when one is, and commit and rollback end it, whoever opened it.  The    *)
(* process may die at any point; what was committed is on the disk.        *)
(***************************************************************************)
EXTENDS Integers, Sequences

CONSTANTS Coroutines,   \* those that use the connection at the same time
          Users,        \* owners of a wallet
          Jobs,         \* calls they may make
          MaxCalls,     \* bound: calls made altogether
          MaxCrashes    \* bound: crashes of the process

Job == [kind : {"change", "clear", "note"}, user : Users, delta : Int,
        mayOwe : BOOLEAN, ref : Nat]

ASSUME ConnectionAssumption == Jobs \subseteq Job /\ MaxCalls \in Nat /\ MaxCrashes \in Nat

VARIABLES disk,      \* the database file: what survives a crash
          mem,       \* the database as the connection sees it
          open,      \* a transaction is open
          pc,        \* the statement each coroutine executes next
          job,       \* what it was called for
          seen,      \* the balance it read
          receipt,   \* the id of the row it inserted (lastrowid)
          calls, crashes

vars == <<disk, mem, open, pc, job, seen, receipt, calls, crashes>>

Row == [id : Nat, amount : Int, after : Int, ref : Nat]
Database == [balance : [Users -> Int], ledger : [Users -> Seq(Row)], nextId : Nat, notes : Nat]
Statements == {"touch", "touched", "begin", "select", "update", "insert", "delete", "zero",
               "note", "commit", "rollback"}
NoJob == [kind |-> "none"]
Quiet == {"idle", "returned", "raised"}

TypeOK == /\ disk \in Database
          /\ mem \in Database
          /\ open \in BOOLEAN
          /\ pc \in [Coroutines -> Statements \cup Quiet]
          /\ job \in [Coroutines -> Jobs \cup {NoJob}]
          /\ seen \in [Coroutines -> Int]
          /\ receipt \in [Coroutines -> Nat]
          /\ calls \in 0..MaxCalls
          /\ crashes \in 0..MaxCrashes

Empty == [balance |-> [u \in Users |-> 0], ledger |-> [u \in Users |-> <<>>],
          nextId |-> 1, notes |-> 0]

Init == /\ disk = Empty
        /\ mem = Empty
        /\ open = FALSE
        /\ pc = [c \in Coroutines |-> "idle"]
        /\ job = [c \in Coroutines |-> NoJob]
        /\ seen = [c \in Coroutines |-> 0]
        /\ receipt = [c \in Coroutines |-> 0]
        /\ calls = 0
        /\ crashes = 0
-------------------------------------------------------------------------------
Move(c, from, to) == pc[c] = from /\ pc' = [pc EXCEPT ![c] = to]
Rest(c) == UNCHANGED <<job, seen, receipt, calls, crashes>>
User(c) == job[c].user
Wanted(c) == seen[c] + job[c].delta

\* A data statement: it opens the transaction if none is.
Write(db) == mem' = db /\ open' = TRUE /\ UNCHANGED disk

\* commit() makes permanent whatever the connection has written, by whomever.
CommitAll == disk' = mem /\ open' = FALSE /\ UNCHANGED mem

Listed(u, id) == \E i \in 1..Len(mem.ledger[u]) : mem.ledger[u][i].id = id
-------------------------------------------------------------------------------
Call(c) ==
    /\ pc[c] \in Quiet
    /\ calls < MaxCalls
    /\ \E j \in Jobs : /\ job' = [job EXCEPT ![c] = j]
                      /\ pc' = [pc EXCEPT ![c] = IF j.kind = "note" THEN "note" ELSE "touch"]
    /\ calls' = calls + 1
    /\ receipt' = [receipt EXCEPT ![c] = 0]
    /\ UNCHANGED <<disk, mem, open, seen, crashes>>

\* ensure_wallet: an upsert that leaves the balance alone, and a commit.
Touch(c) == Move(c, "touch", "touched") /\ Write(mem) /\ Rest(c)

Touched(c) ==
    /\ Move(c, "touched", IF job[c].kind = "clear" THEN "delete" ELSE "begin")
    /\ CommitAll
    /\ Rest(c)

\* BEGIN IMMEDIATE, outside the try block: an error, and no rollback, inside a transaction.
Begin(c) ==
    /\ Move(c, "begin", IF open THEN "raised" ELSE "select")
    /\ open' = TRUE
    /\ UNCHANGED <<disk, mem>>
    /\ Rest(c)

\* The balance is read, and a change that would leave too little is refused.
Select(c) ==
    /\ pc[c] = "select"
    /\ seen' = [seen EXCEPT ![c] = mem.balance[User(c)]]
    /\ LET refused == mem.balance[User(c)] + job[c].delta < 0 /\ ~job[c].mayOwe IN
          Move(c, "select", IF refused THEN "rollback" ELSE "update")
    /\ UNCHANGED <<disk, mem, open, job, receipt, calls, crashes>>

\* An update committed at once, as in autocommit mode.
UpdateCommitted(c) ==
    /\ Move(c, "update", "insert")
    /\ mem' = [mem EXCEPT !.balance[User(c)] = Wanted(c)]
    /\ disk' = mem'
    /\ open' = FALSE
    /\ Rest(c)

Update(c) ==
    /\ Move(c, "update", "insert")
    /\ Write([mem EXCEPT !.balance[User(c)] = Wanted(c)])
    /\ Rest(c)

\* An insert whose cursor has no lastrowid.
InsertNoId(c) ==
    /\ Move(c, "insert", "commit")
    /\ Write([mem EXCEPT !.ledger[User(c)] = Append(@, [id |-> mem.nextId, amount |-> job[c].delta,
                               after |-> Wanted(c), ref |-> job[c].ref]),
                         !.nextId = @ + 1])
    /\ receipt' = [receipt EXCEPT ![c] = -1]
    /\ UNCHANGED <<job, seen, calls, crashes>>

\* The row is inserted; the foreign key fails when the row it refers to is gone.
Insert(c) ==
    /\ pc[c] = "insert"
    /\ IF job[c].ref # 0 /\ ~Listed(User(c), job[c].ref)
       THEN Move(c, "insert", "rollback") /\ Write(mem) /\ UNCHANGED receipt
       ELSE /\ Move(c, "insert", "commit")
            /\ Write([mem EXCEPT !.ledger[User(c)] =
                                     Append(@, [id |-> mem.nextId, amount |-> job[c].delta,
                                                after |-> Wanted(c), ref |-> job[c].ref]),
                                 !.nextId = @ + 1])
            /\ receipt' = [receipt EXCEPT ![c] = mem.nextId]
    /\ UNCHANGED <<job, seen, calls, crashes>>

\* A reset whose first statement is committed on its own.
DeleteCommitted(c) ==
    /\ Move(c, "delete", "zero")
    /\ mem' = [mem EXCEPT !.ledger[User(c)] = <<>>]
    /\ disk' = mem'
    /\ open' = FALSE
    /\ Rest(c)

\* clear_wallet_ledger_for_user: two statements and a commit.
Delete(c) ==
    /\ Move(c, "delete", "zero")
    /\ Write([mem EXCEPT !.ledger[User(c)] = <<>>])
    /\ Rest(c)

Zero(c) ==
    /\ Move(c, "zero", "commit")
    /\ Write([mem EXCEPT !.balance[User(c)] = 0])
    /\ Rest(c)

\* add_audit_log: one statement and a commit.
Note(c) ==
    /\ Move(c, "note", "commit")
    /\ Write([mem EXCEPT !.notes = @ + 1])
    /\ Rest(c)

\* A commit that is forgotten.
CommitForgotten(c) == Move(c, "commit", "returned") /\ UNCHANGED <<disk, mem, open>> /\ Rest(c)

Commit(c) == Move(c, "commit", "returned") /\ CommitAll /\ Rest(c)

\* The exception goes on up without a rollback.
RollbackForgotten(c) == Move(c, "rollback", "raised") /\ UNCHANGED <<disk, mem, open>> /\ Rest(c)

\* The except block: whatever the connection has not committed is undone.
Rollback(c) ==
    /\ Move(c, "rollback", "raised")
    /\ mem' = disk
    /\ open' = FALSE
    /\ UNCHANGED disk
    /\ Rest(c)

\* The process dies and starts again.
Crash ==
    /\ crashes < MaxCrashes
    /\ crashes' = crashes + 1
    /\ mem' = disk
    /\ open' = FALSE
    /\ pc' = [c \in Coroutines |-> "idle"]
    /\ job' = [c \in Coroutines |-> NoJob]
    /\ seen' = [c \in Coroutines |-> 0]
    /\ receipt' = [c \in Coroutines |-> 0]
    /\ UNCHANGED <<disk, calls>>

Step(c) == \/ Touch(c) \/ Touched(c) \/ Begin(c) \/ Select(c) \/ Update(c) \/ Insert(c)
           \/ Delete(c) \/ Zero(c) \/ Note(c) \/ Commit(c) \/ Rollback(c)

Next == \/ \E c \in Coroutines : Call(c) \/ Step(c)
        \/ Crash

Spec == Init /\ [][Next]_vars
-------------------------------------------------------------------------------
\* Whatever the moment of a crash, the file explains its balances: each row carries on
\* from the one before and the last one leaves what the wallet holds.  This is what the
\* transaction of apply_balance_change and the single commit of the reset are for.
DiskExplained ==
    \A u \in Users : LET rows == disk.ledger[u] IN
        /\ disk.balance[u] = IF rows = <<>> THEN 0 ELSE rows[Len(rows)].after
        /\ \A i \in 1..Len(rows) :
              rows[i].after = rows[i].amount + (IF i = 1 THEN 0 ELSE rows[i - 1].after)

\* Between calls no transaction is left open, so that the next BEGIN succeeds and nothing
\* that was refused waits for somebody else's commit.
NothingLeftOpen ==
    (\A c \in Coroutines : pc[c] \in Quiet) => ~open /\ mem = disk

\* A wallet change that returned its transaction is in the file, row and balance.
ReturnedIsStored ==
    \A c \in Coroutines : (pc[c] = "returned" /\ job[c].kind = "change") =>
        LET rows == disk.ledger[User(c)] IN
           /\ \E i \in 1..Len(rows) : /\ rows[i].id = receipt[c]
                                     /\ rows[i].amount = job[c].delta
                                     /\ rows[i].after = Wanted(c)

\* The file is a ledger in the sense of AtomicLedger: calls take effect in one step, or not
\* at all, however they end.
File == INSTANCE AtomicLedger WITH balance <- disk.balance, ledger <- disk.ledger,
                                   nextId <- disk.nextId
FileIsAtomic == File!Spec
===============================================================================
