---------------------------- MODULE ConnectionProofs ----------------------------
(***************************************************************************)
(* What the one connection guarantees for any users, any calls and any     *)
(* number of crashes: its types without further hypothesis, and, as long   *)
(* as calls do not overlap, that the file explains its balances, that no   *)
(* transaction is left over, that what was returned is stored, and that    *)
(* the file implements AtomicLedger.  SharedConnectionOverlap shows what   *)
(* becomes of it when calls do overlap.                                    *)
(***************************************************************************)
EXTENDS SharedConnection, TLAPS

\* At most one call is under way.
OneAtATime ==
    \A c, d \in Coroutines : pc[c] \notin Quiet /\ pc[d] \notin Quiet => c = d

\* While a change waits for its caller, no other coroutine resets the same wallet.
NobodyElseResets ==
    \A c, d \in Coroutines :
        (/\ pc[c] = "returned" /\ job[c].kind = "change"
         /\ pc[d] \notin Quiet /\ job[d].kind = "clear") => User(d) # User(c)

\* A coroutine at a statement has a call, of the kind that has this statement.
AtWork ==
    \A c \in Coroutines :
        /\ pc[c] \notin Quiet => job[c] \in Jobs
        /\ pc[c] \in {"touch", "touched"} => job[c].kind # "note"
        /\ pc[c] \in {"begin", "select", "update", "insert", "rollback"} => job[c].kind = "change"
        /\ pc[c] \in {"delete", "zero"} => job[c].kind = "clear"
        /\ pc[c] = "note" => job[c].kind = "note"

Typed == TypeOK /\ AtWork

\* The row that c inserts, in a ledger whose next id is id.
RowOf(c, id) == [id |-> id, amount |-> job[c].delta, after |-> Wanted(c), ref |-> job[c].ref]

\* The database once c has done what it was called for.
Changed(c) == [disk EXCEPT !.balance[User(c)] = Wanted(c),
                           !.ledger[User(c)] = Append(@, RowOf(c, disk.nextId)),
                           !.nextId = @ + 1]
Cleared(c) == [disk EXCEPT !.balance[User(c)] = 0, !.ledger[User(c)] = <<>>]
Noted == [disk EXCEPT !.notes = @ + 1]

\* The row a change refers to is in the file.
RefStands(c) ==
    job[c].ref # 0 => \E i \in 1..Len(disk.ledger[User(c)]) : disk.ledger[User(c)][i].id = job[c].ref

\* How far the connection is from the file while c is at its statement.
Ahead(c) ==
    /\ pc[c] \in {"touch", "begin", "delete", "note"} => mem = disk /\ ~open
    /\ pc[c] \in {"touched", "select"} => mem = disk
    /\ pc[c] = "update" => mem = disk /\ seen[c] = disk.balance[User(c)]
    /\ pc[c] = "insert" => /\ mem = [disk EXCEPT !.balance[User(c)] = Wanted(c)]
                           /\ seen[c] = disk.balance[User(c)]
    /\ pc[c] = "zero" => mem = [disk EXCEPT !.ledger[User(c)] = <<>>]
    /\ (pc[c] = "commit" /\ job[c].kind = "change") =>
          /\ mem = Changed(c)
          /\ seen[c] = disk.balance[User(c)]
          /\ receipt[c] = disk.nextId
          /\ RefStands(c)
    /\ (pc[c] = "commit" /\ job[c].kind = "clear") => mem = Cleared(c)
    /\ (pc[c] = "commit" /\ job[c].kind = "note") => mem = Noted

AllAhead == \A c \in Coroutines : Ahead(c)

IInv == Typed /\ NothingLeftOpen /\ AllAhead /\ DiskExplained
-------------------------------------------------------------------------------
(* Types.                                                                        *)

\* A coroutine at a statement has a whole call: its fields have their types.
LEMMA CallTyped ==
  ASSUME Typed, NEW c \in Coroutines, pc[c] \notin Quiet
  PROVE  /\ job[c] \in Jobs
         /\ User(c) \in Users
         /\ job[c].kind \in {"change", "clear", "note"}
         /\ job[c].delta \in Int
         /\ job[c].ref \in Nat
         /\ Wanted(c) \in Int
  <1>1. job[c] \in Jobs /\ job[c] \in Job
    BY ConnectionAssumption DEF Typed, AtWork
  <1>2. seen[c] \in Int
    BY DEF Typed, TypeOK
  <1>3. QED
    BY <1>1, <1>2 DEF Job, User, Wanted

\* A row inserted for c is a row, and leaves a ledger of rows.
LEMMA RowTyped ==
  ASSUME Typed, NEW c \in Coroutines, pc[c] \notin Quiet, NEW id \in Nat,
         NEW rows \in Seq(Row)
  PROVE  RowOf(c, id) \in Row /\ Append(rows, RowOf(c, id)) \in Seq(Row)
  <1>1. RowOf(c, id) \in Row
    BY CallTyped DEF RowOf, Row
  <1>2. QED
    BY <1>1

\* The effects of single statements leave a database a database.
LEMMA SetBalanceTyped ==
  ASSUME NEW db \in Database, NEW u \in Users, NEW n \in Int
  PROVE  [db EXCEPT !.balance[u] = n] \in Database
  <1>1. [db.balance EXCEPT ![u] = n] \in [Users -> Int]
    BY DEF Database
  <1>2. QED
    BY <1>1 DEF Database

LEMMA SetLedgerTyped ==
  ASSUME NEW db \in Database, NEW u \in Users, NEW rows \in Seq(Row)
  PROVE  /\ [db EXCEPT !.ledger[u] = rows] \in Database
         /\ [db EXCEPT !.ledger[u] = rows, !.nextId = @ + 1] \in Database
  <1>1. [db.ledger EXCEPT ![u] = rows] \in [Users -> Seq(Row)] /\ db.nextId + 1 \in Nat
    BY DEF Database
  <1>2. [db EXCEPT !.ledger[u] = rows] \in Database
    BY <1>1 DEF Database
  <1>3. [db EXCEPT !.ledger[u] = rows, !.nextId = @ + 1] \in Database
    BY <1>1 DEF Database
  <1>4. QED
    BY <1>2, <1>3

LEMMA AddNoteTyped ==
  ASSUME NEW db \in Database
  PROVE  [db EXCEPT !.notes = @ + 1] \in Database
  <1>1. db.notes + 1 \in Nat
    BY DEF Database
  <1>2. QED
    BY <1>1 DEF Database

LEMMA InitTyped == Init => Typed
  <1> SUFFICES ASSUME Init PROVE Typed
    OBVIOUS
  <1>1. <<>> \in Seq(Row)
    OBVIOUS
  <1>2. Empty \in Database
    BY <1>1 DEF Empty, Database
  <1>3. TypeOK
    <2>1. open \in BOOLEAN
      BY Zenon DEF Init
    <2>2. calls \in 0..MaxCalls /\ crashes \in 0..MaxCrashes
      BY ConnectionAssumption DEF Init
    <2>3. /\ pc \in [Coroutines -> Statements \cup Quiet]
          /\ job \in [Coroutines -> Jobs \cup {NoJob}]
          /\ seen \in [Coroutines -> Int]
          /\ receipt \in [Coroutines -> Nat]
      BY DEF Init, Quiet
    <2>4. QED
      BY <1>2, <2>1, <2>2, <2>3 DEF Init, TypeOK
  <1>4. AtWork
    BY DEF Init, AtWork, Quiet
  <1>5. QED
    BY <1>3, <1>4 DEF Typed

\* One step keeps the types, and every coroutine at a statement of its own call.
LEMMA NextTyped == Typed /\ [Next]_vars => Typed'
  <1> SUFFICES ASSUME Typed, [Next]_vars PROVE Typed'
    OBVIOUS
  <1> USE DEF Typed
  <1>1. ASSUME NEW c \in Coroutines, Call(c) PROVE Typed'
    <2>1. PICK j \in Jobs :
             /\ job' = [job EXCEPT ![c] = j]
             /\ pc' = [pc EXCEPT ![c] = IF j.kind = "note" THEN "note" ELSE "touch"]
      BY <1>1 DEF Call
    <2>2. calls' \in 0..MaxCalls
      BY <1>1, ConnectionAssumption DEF Call, TypeOK
    <2>3. TypeOK'
      BY <1>1, <2>1, <2>2 DEF Call, TypeOK, Statements
    <2>4. AtWork'
      BY <2>1 DEF AtWork, TypeOK, Quiet
    <2>5. QED
      BY <2>3, <2>4
  <1>2. ASSUME NEW c \in Coroutines, Step(c) PROVE Typed'
    <2>1. pc[c] \notin Quiet
      BY <1>2 DEF Step, Touch, Touched, Begin, Select, Update, Insert, Delete, Zero, Note,
                  Commit, Rollback, Move, Quiet
    <2> USE <2>1, CallTyped
    <2>2. job' = job /\ UNCHANGED <<calls, crashes>>
      BY <1>2 DEF Step, Touch, Touched, Begin, Select, Update, Insert, Delete, Zero, Note,
                  Commit, Rollback, Rest
    <2>3. \E to \in Statements \cup Quiet : Move(c, pc[c], to)
      BY <1>2 DEF Step, Touch, Touched, Begin, Select, Update, Insert, Delete, Zero, Note,
                  Commit, Rollback, Move, Statements, Quiet
    <2>4. AtWork'
      <3>1. \A d \in Coroutines : d # c => pc'[d] = pc[d]
        BY <2>3 DEF Move, TypeOK
      <3>2. /\ pc'[c] \notin Quiet => job[c] \in Jobs
            /\ pc'[c] \in {"touch", "touched"} => job[c].kind # "note"
            /\ pc'[c] \in {"begin", "select", "update", "insert", "rollback"}
                  => job[c].kind = "change"
            /\ pc'[c] \in {"delete", "zero"} => job[c].kind = "clear"
            /\ pc'[c] = "note" => job[c].kind = "note"
        BY <1>2 DEF Step, Touch, Touched, Begin, Select, Update, Insert, Delete, Zero, Note,
                    Commit, Rollback, Move, AtWork, TypeOK
      <3>3. QED
        BY <3>1, <3>2, <2>2 DEF AtWork
    <2>5. pc' \in [Coroutines -> Statements \cup Quiet]
      BY <2>3 DEF Move, TypeOK
    <2>6. disk' \in Database /\ mem' \in Database /\ open' \in BOOLEAN
      <3>1. mem \in Database /\ disk \in Database /\ open \in BOOLEAN
        BY DEF TypeOK
      <3>2. CASE Touch(c) \/ Touched(c) \/ Begin(c) \/ Select(c) \/ Commit(c) \/ Rollback(c)
        BY <3>1, <3>2 DEF Touch, Touched, Begin, Select, Commit, Rollback, Write, CommitAll
      <3>3. CASE Update(c)
        <4>1. mem' = [mem EXCEPT !.balance[User(c)] = Wanted(c)] /\ disk' = disk /\ open' = TRUE
          BY <3>3 DEF Update, Write
        <4>2. mem' \in Database
          BY <3>1, <4>1, SetBalanceTyped
        <4>3. QED
          BY <3>1, <4>1, <4>2
      <3>4. CASE Insert(c)
        <4>1. CASE mem' = mem
          BY <3>1, <3>4, <4>1 DEF Insert, Write
        <4>2. CASE mem' # mem
          <5>1. mem.nextId \in Nat /\ mem.ledger[User(c)] \in Seq(Row)
            BY <3>1 DEF Database
          <5>2. /\ mem' = [mem EXCEPT !.ledger[User(c)] =
                                          Append(mem.ledger[User(c)], RowOf(c, mem.nextId)),
                                      !.nextId = @ + 1]
                /\ disk' = disk /\ open' = TRUE
            BY <3>4, <4>2 DEF Insert, Write, RowOf
          <5>3. Append(mem.ledger[User(c)], RowOf(c, mem.nextId)) \in Seq(Row)
            BY <5>1, RowTyped
          <5>4. mem' \in Database
            BY <3>1, <5>2, <5>3, SetLedgerTyped
          <5>5. QED
            BY <3>1, <5>2, <5>4
        <4>3. QED
          BY <4>1, <4>2
      <3>5. CASE Delete(c)
        <4>1. <<>> \in Seq(Row)
          OBVIOUS
        <4>2. mem' = [mem EXCEPT !.ledger[User(c)] = <<>>] /\ disk' = disk /\ open' = TRUE
          BY <3>5 DEF Delete, Write
        <4>3. mem' \in Database
          BY <3>1, <4>1, <4>2, SetLedgerTyped
        <4>4. QED
          BY <3>1, <4>2, <4>3
      <3>6. CASE Zero(c)
        <4>1. mem' = [mem EXCEPT !.balance[User(c)] = 0] /\ disk' = disk /\ open' = TRUE
          BY <3>6 DEF Zero, Write
        <4>2. mem' \in Database
          BY <3>1, <4>1, SetBalanceTyped
        <4>3. QED
          BY <3>1, <4>1, <4>2
      <3>7. CASE Note(c)
        <4>1. mem' = [mem EXCEPT !.notes = @ + 1] /\ disk' = disk /\ open' = TRUE
          BY <3>7 DEF Note, Write
        <4>2. QED
          BY <3>1, <4>1, AddNoteTyped
      <3>8. QED
        BY <1>2, <3>2, <3>3, <3>4, <3>5, <3>6, <3>7 DEF Step
    <2>7. seen' \in [Coroutines -> Int]
      <3>1. mem.balance[User(c)] \in Int
        BY DEF TypeOK, Database
      <3>2. QED
        BY <3>1, <1>2 DEF Step, Touch, Touched, Begin, Select, Update, Insert, Delete, Zero, Note,
                          Commit, Rollback, Rest, TypeOK
    <2>8. receipt' \in [Coroutines -> Nat]
      <3>1. mem.nextId \in Nat
        BY DEF TypeOK, Database
      <3>2. QED
        BY <3>1, <1>2 DEF Step, Touch, Touched, Begin, Select, Update, Insert, Delete, Zero, Note,
                          Commit, Rollback, Rest, TypeOK
    <2>9. QED
      BY <2>2, <2>4, <2>5, <2>6, <2>7, <2>8 DEF TypeOK
  <1>3. CASE Crash
    <2>1. crashes' \in 0..MaxCrashes
      BY <1>3, ConnectionAssumption DEF Crash, TypeOK
    <2>2. TypeOK'
      <3>1. disk' \in Database /\ mem' \in Database /\ calls' \in 0..MaxCalls
        BY <1>3 DEF Crash, TypeOK
      <3>2. open' \in BOOLEAN
        BY <1>3, Zenon DEF Crash
      <3>3. /\ pc' \in [Coroutines -> Statements \cup Quiet]
            /\ job' \in [Coroutines -> Jobs \cup {NoJob}]
            /\ seen' \in [Coroutines -> Int]
            /\ receipt' \in [Coroutines -> Nat]
        BY <1>3 DEF Crash, Quiet
      <3>4. QED
        BY <2>1, <3>1, <3>2, <3>3 DEF TypeOK
    <2>3. AtWork'
      BY <1>3 DEF Crash, AtWork, Quiet
    <2>4. QED
      BY <2>2, <2>3
  <1>4. CASE UNCHANGED vars
    BY <1>4 DEF vars, TypeOK, AtWork, User
  <1>5. QED
    BY <1>1, <1>2, <1>3, <1>4 DEF Next

LEMMA AlwaysTyped == Spec => []Typed
  BY InitTyped, NextTyped, PTL DEF Spec

\* Whatever calls overlap and whenever the process dies, the file and the connection hold a
\* database, and every coroutine is at a statement of a call it was given.
THEOREM ConnectionTyped == Spec => []TypeOK
  <1>1. Typed => TypeOK
    BY DEF Typed
  <1>2. QED
    BY AlwaysTyped, <1>1, PTL
-------------------------------------------------------------------------------
(* How far the connection is from the file.                                      *)

\* While c is at a statement nobody else is, so what c leaves behind is all there is to show.
LEMMA OnlyMover ==
  ASSUME Typed, OneAtATime, NEW c \in Coroutines, pc[c] \notin Quiet,
         NEW to, Move(c, pc[c], to),
         to \notin Quiet => Ahead(c)',
         to \in Quiet => ~open' /\ mem' = disk'
  PROVE  AllAhead' /\ NothingLeftOpen'
  <1>1. \A d \in Coroutines : d # c => pc'[d] \in Quiet
    BY DEF OneAtATime, Move, Typed, TypeOK
  <1>2. pc'[c] = to
    BY DEF Move, Typed, TypeOK
  <1>3. ASSUME NEW d \in Coroutines, pc'[d] \in Quiet PROVE Ahead(d)'
    BY <1>3 DEF Ahead, Quiet
  <1>4. AllAhead'
    BY <1>1, <1>2, <1>3 DEF AllAhead
  <1>5. NothingLeftOpen'
    BY <1>2 DEF NothingLeftOpen
  <1>6. QED
    BY <1>4, <1>5

\* Every statement of a call leaves the connection where the next one expects it.
LEMMA StepAhead ==
  ASSUME Typed, OneAtATime, AllAhead, NEW c \in Coroutines, Step(c)
  PROVE  AllAhead' /\ NothingLeftOpen'
  <1> USE DEF Ahead, Move
  <1>1. Ahead(c) /\ pc \in [Coroutines -> Statements \cup Quiet]
    BY DEF AllAhead, Typed, TypeOK
  <1>2. mem \in Database /\ disk \in Database
    BY DEF Typed, TypeOK
  <1>3. CASE Touch(c)
    <2>1. Ahead(c)'
      BY <1>1, <1>3 DEF Touch, Write
    <2>2. QED
      BY <1>3, <2>1, OnlyMover DEF Touch, Quiet
  <1>4. CASE Touched(c)
    <2>1. Ahead(c)'
      BY <1>1, <1>4 DEF Touched, CommitAll
    <2>2. QED
      BY <1>4, <2>1, OnlyMover DEF Touched, Quiet
  <1>5. CASE Begin(c)
    <2>1. ~open
      BY <1>1, <1>5 DEF Begin
    <2>2. Move(c, "begin", "select") /\ UNCHANGED <<disk, mem>>
      BY <1>5, <2>1 DEF Begin
    <2>3. Ahead(c)'
      BY <1>1, <1>5, <2>2 DEF Begin
    <2>4. QED
      BY <2>2, <2>3, OnlyMover DEF Quiet
  <1>6. CASE Select(c)
    <2>1. PICK to \in {"rollback", "update"} : Move(c, "select", to)
      BY <1>6 DEF Select
    <2>2. seen'[c] = disk.balance[User(c)] /\ UNCHANGED <<disk, mem, job>> /\ mem = disk
      BY <1>1, <1>6 DEF Select, Typed, TypeOK
    <2>3. Ahead(c)'
      BY <1>1, <2>1, <2>2 DEF User
    <2>4. QED
      BY <2>1, <2>3, OnlyMover DEF Quiet
  <1>7. CASE Update(c)
    <2>1. /\ mem' = [disk EXCEPT !.balance[User(c)] = Wanted(c)]
          /\ seen[c] = disk.balance[User(c)]
          /\ UNCHANGED <<disk, job, seen>>
      BY <1>1, <1>7 DEF Update, Write, Rest
    <2>2. User(c)' = User(c) /\ Wanted(c)' = Wanted(c)
      BY <2>1 DEF User, Wanted
    <2>3. Ahead(c)'
      BY <1>1, <1>7, <2>1, <2>2 DEF Update
    <2>4. QED
      BY <1>7, <2>3, OnlyMover DEF Update, Quiet
  <1>8. CASE Insert(c)
    <2>1. /\ mem = [disk EXCEPT !.balance[User(c)] = Wanted(c)]
          /\ seen[c] = disk.balance[User(c)]
          /\ UNCHANGED <<disk, job, seen>>
      BY <1>1, <1>8 DEF Insert, Write
    <2>2. User(c)' = User(c) /\ Wanted(c)' = Wanted(c)
      BY <2>1 DEF User, Wanted
    <2>3. mem.ledger = disk.ledger /\ mem.nextId = disk.nextId
      BY <1>2, <2>1 DEF Database
    <2>4. CASE job[c].ref # 0 /\ ~Listed(User(c), job[c].ref)
      <3>1. Move(c, "insert", "rollback")
        BY <1>8, <2>4 DEF Insert
      <3>2. Ahead(c)'
        BY <1>1, <3>1
      <3>3. QED
        BY <3>1, <3>2, OnlyMover DEF Quiet
    <2>5. CASE ~(job[c].ref # 0 /\ ~Listed(User(c), job[c].ref))
      <3>1. /\ Move(c, "insert", "commit")
            /\ mem' = [mem EXCEPT !.ledger[User(c)] = Append(@, RowOf(c, mem.nextId)),
                                  !.nextId = @ + 1]
            /\ receipt' = [receipt EXCEPT ![c] = mem.nextId]
        BY <1>8, <2>5 DEF Insert, Write, RowOf
      <3>2. mem' = Changed(c)
        BY <1>2, <2>1, <2>3, <3>1 DEF Changed, Database
      <3>3. Changed(c)' = Changed(c)
        BY <2>1, <2>2 DEF Changed, RowOf
      <3>4. receipt'[c] = disk.nextId
        BY <2>3, <3>1 DEF Typed, TypeOK
      <3>5. RefStands(c)'
        BY <2>1, <2>2, <2>3, <2>5 DEF RefStands, Listed
      <3>6. job[c].kind = "change"
        BY <1>8 DEF Insert, Typed, AtWork
      <3>7. pc'[c] = "commit"
        BY <1>1, <3>1
      <3>8. Ahead(c)'
        BY <2>1, <2>2, <3>2, <3>3, <3>4, <3>5, <3>6, <3>7
      <3>9. QED
        BY <3>1, <3>8, OnlyMover DEF Quiet
    <2>6. QED
      BY <2>4, <2>5
  <1>9. CASE Delete(c)
    <2>1. mem' = [disk EXCEPT !.ledger[User(c)] = <<>>] /\ UNCHANGED <<disk, job>>
      BY <1>1, <1>9 DEF Delete, Write, Rest
    <2>2. User(c)' = User(c)
      BY <2>1 DEF User
    <2>3. Ahead(c)'
      BY <1>1, <1>9, <2>1, <2>2 DEF Delete
    <2>4. QED
      BY <1>9, <2>3, OnlyMover DEF Delete, Quiet
  <1>10. CASE Zero(c)
    <2>1. /\ mem = [disk EXCEPT !.ledger[User(c)] = <<>>]
          /\ mem' = [mem EXCEPT !.balance[User(c)] = 0]
          /\ UNCHANGED <<disk, job>>
      BY <1>1, <1>10 DEF Zero, Write, Rest
    <2>2. mem' = Cleared(c)
      BY <1>2, <2>1 DEF Cleared, Database
    <2>3. Cleared(c)' = Cleared(c)
      BY <2>1 DEF Cleared, User
    <2>4. job[c].kind = "clear"
      BY <1>10 DEF Zero, Typed, AtWork
    <2>5. Ahead(c)'
      BY <1>1, <1>10, <2>1, <2>2, <2>3, <2>4 DEF Zero
    <2>6. QED
      BY <1>10, <2>5, OnlyMover DEF Zero, Quiet
  <1>11. CASE Note(c)
    <2>1. mem' = Noted /\ UNCHANGED <<disk, job>>
      BY <1>1, <1>11 DEF Note, Write, Rest, Noted
    <2>2. Noted' = Noted
      BY <2>1 DEF Noted
    <2>3. job[c].kind = "note"
      BY <1>11 DEF Note, Typed, AtWork
    <2>4. Ahead(c)'
      BY <1>1, <1>11, <2>1, <2>2, <2>3 DEF Note
    <2>5. QED
      BY <1>11, <2>4, OnlyMover DEF Note, Quiet
  <1>12. CASE Commit(c)
    BY <1>12, OnlyMover DEF Commit, CommitAll, Quiet
  <1>13. CASE Rollback(c)
    BY <1>13, OnlyMover DEF Rollback, Quiet
  <1>14. QED
    BY <1>3, <1>4, <1>5, <1>6, <1>7, <1>8, <1>9, <1>10, <1>11, <1>12, <1>13 DEF Step
-------------------------------------------------------------------------------
(* What a step does to the file.                                                 *)

\* The database that a commit of c makes permanent.
Outcome(c) == \/ /\ job[c].kind = "change"
                 /\ disk' = Changed(c)
                 /\ seen[c] = disk.balance[User(c)]
                 /\ receipt[c] = disk.nextId
                 /\ RefStands(c)
              \/ job[c].kind = "clear" /\ disk' = Cleared(c)
              \/ job[c].kind = "note" /\ disk' = Noted

\* The file changes only by the commit that ends a call, and by what that call was for.
LEMMA FileSteps ==
  ASSUME Typed, AllAhead, [Next]_vars
  PROVE  \/ disk' = disk
         \/ \E c \in Coroutines : Commit(c) /\ Outcome(c)
  <1>1. ASSUME NEW c \in Coroutines, Commit(c) PROVE Outcome(c)
    <2>1. pc[c] = "commit" /\ disk' = mem
      BY <1>1 DEF Commit, Move, CommitAll
    <2>2. job[c].kind \in {"change", "clear", "note"}
      BY <2>1, CallTyped DEF Quiet
    <2>3. QED
      BY <2>1, <2>2 DEF AllAhead, Ahead, Outcome
  <1>2. ASSUME NEW c \in Coroutines, Touched(c) PROVE disk' = disk
    BY <1>2 DEF Touched, CommitAll, Move, AllAhead, Ahead
  <1>3. ASSUME NEW c \in Coroutines,
               \/ Call(c) \/ Touch(c) \/ Begin(c) \/ Select(c) \/ Update(c) \/ Insert(c)
               \/ Delete(c) \/ Zero(c) \/ Note(c) \/ Rollback(c)
        PROVE  disk' = disk
    BY <1>3 DEF Call, Touch, Begin, Select, Update, Insert, Delete, Zero, Note, Rollback, Write
  <1>4. CASE Crash
    BY <1>4 DEF Crash
  <1>5. CASE UNCHANGED vars
    BY <1>5 DEF vars
  <1>6. QED
    BY <1>1, <1>2, <1>3, <1>4, <1>5 DEF Next, Step

\* What a change and a reset make of each book.
LEMMA BooksAfter ==
  ASSUME Typed, NEW c \in Coroutines, Commit(c), NEW u \in Users
  PROVE  /\ disk' = Changed(c) =>
               /\ disk'.balance[u] = IF u = User(c) THEN Wanted(c) ELSE disk.balance[u]
               /\ disk'.ledger[u] = IF u = User(c) THEN Append(disk.ledger[u], RowOf(c, disk.nextId))
                                                   ELSE disk.ledger[u]
         /\ disk' = Cleared(c) =>
               /\ disk'.balance[u] = IF u = User(c) THEN 0 ELSE disk.balance[u]
               /\ disk'.ledger[u] = IF u = User(c) THEN <<>> ELSE disk.ledger[u]
         /\ disk' = Noted => disk'.balance[u] = disk.balance[u] /\ disk'.ledger[u] = disk.ledger[u]
  <1>1. disk \in Database
    BY DEF Typed, TypeOK
  <1>2. /\ disk.balance \in [Users -> Int]
        /\ disk.ledger \in [Users -> Seq(Row)]
    BY <1>1 DEF Database
  <1>3. /\ Changed(c).balance = [disk.balance EXCEPT ![User(c)] = Wanted(c)]
        /\ Changed(c).ledger = [disk.ledger EXCEPT ![User(c)] = Append(@, RowOf(c, disk.nextId))]
    BY <1>1 DEF Database, Changed
  <1>4. /\ Cleared(c).balance = [disk.balance EXCEPT ![User(c)] = 0]
        /\ Cleared(c).ledger = [disk.ledger EXCEPT ![User(c)] = <<>>]
    BY <1>1 DEF Database, Cleared
  <1>5. Noted.balance = disk.balance /\ Noted.ledger = disk.ledger
    BY <1>1 DEF Database, Noted
  <1>6. QED
    BY <1>2, <1>3, <1>4, <1>5

\* One book explains its balance.
Explained(rows, balance) ==
    /\ balance = IF rows = <<>> THEN 0 ELSE rows[Len(rows)].after
    /\ \A i \in 1..Len(rows) :
          rows[i].after = rows[i].amount + (IF i = 1 THEN 0 ELSE rows[i - 1].after)

\* A row that carries on from the balance keeps a book explained.
LEMMA AppendExplained ==
  ASSUME NEW rows \in Seq(Row), NEW balance, Explained(rows, balance),
         NEW row \in Row, row.after = balance + row.amount
  PROVE  Explained(Append(rows, row), row.after)
  <1> DEFINE more == Append(rows, row)
  <1>1. /\ Len(rows) \in Nat
        /\ Len(more) = Len(rows) + 1
        /\ more # <<>>
        /\ more[Len(rows) + 1] = row
        /\ \A i \in 1..Len(rows) : more[i] = rows[i]
    OBVIOUS
  <1>2. ASSUME NEW i \in 1..Len(more)
        PROVE  more[i].after = more[i].amount + (IF i = 1 THEN 0 ELSE more[i - 1].after)
    <2>1. CASE i \in 1..Len(rows)
      <3>1. rows[i].after = rows[i].amount + (IF i = 1 THEN 0 ELSE rows[i - 1].after)
        BY <2>1 DEF Explained
      <3>2. CASE i = 1
        BY <2>1, <3>1, <3>2, <1>1
      <3>3. CASE i # 1
        <4>1. i - 1 \in 1..Len(rows)
          BY <1>1, <2>1, <3>3
        <4>2. QED
          BY <2>1, <3>1, <3>3, <4>1, <1>1
      <3>4. QED
        BY <3>2, <3>3
    <2>2. CASE i = Len(rows) + 1
      <3>1. row.amount \in Int /\ row.after \in Int
        BY DEF Row
      <3>2. CASE rows = <<>>
        BY <1>1, <2>2, <3>1, <3>2 DEF Explained
      <3>3. CASE rows # <<>>
        <4>1. Len(rows) \in 1..Len(rows) /\ i - 1 = Len(rows) /\ i # 1
          BY <1>1, <2>2, <3>3
        <4>2. balance = rows[Len(rows)].after /\ more[i - 1] = rows[Len(rows)]
          BY <1>1, <3>3, <4>1 DEF Explained
        <4>3. rows[Len(rows)].after \in Int
          <5>1. rows[Len(rows)] \in Row
            BY <4>1
          <5>2. QED
            BY <5>1 DEF Row
        <4>4. QED
          BY <1>1, <2>2, <3>1, <4>1, <4>2, <4>3
      <3>4. QED
        BY <3>2, <3>3
    <2>3. QED
      BY <1>1, <2>1, <2>2
  <1> HIDE DEF more
  <1>3. row.after = IF more = <<>> THEN 0 ELSE more[Len(more)].after
    BY <1>1
  <1>4. QED
    BY <1>2, <1>3 DEF Explained, more

\* No commit leaves a book that does not explain its balance.
LEMMA StepExplained ==
  ASSUME Typed, AllAhead, DiskExplained, [Next]_vars
  PROVE  DiskExplained'
  <1>1. CASE disk' = disk
    BY <1>1 DEF DiskExplained
  <1>2. ASSUME NEW c \in Coroutines, Commit(c), Outcome(c) PROVE DiskExplained'
    <2> SUFFICES ASSUME NEW u \in Users
                 PROVE  Explained(disk'.ledger[u], disk'.balance[u])
      BY DEF DiskExplained, Explained
    <2>1. Explained(disk.ledger[u], disk.balance[u])
      BY DEF DiskExplained, Explained
    <2>2. disk.ledger[u] \in Seq(Row) /\ disk.nextId \in Nat
      BY DEF Typed, TypeOK, Database
    <2>3. pc[c] \notin Quiet
      BY <1>2 DEF Commit, Move, Quiet
    <2>4. CASE disk' = Changed(c) /\ seen[c] = disk.balance[User(c)] /\ u = User(c)
      <3> DEFINE row == RowOf(c, disk.nextId)
      <3>1. row \in Row /\ row.after = Wanted(c) /\ row.amount = job[c].delta
        BY <2>2, <2>3, RowTyped DEF RowOf
      <3>2. Wanted(c) = disk.balance[u] + job[c].delta
        BY <2>4 DEF Wanted
      <3> HIDE DEF row
      <3>3. Explained(Append(disk.ledger[u], row), row.after)
        BY <2>1, <2>2, <3>1, <3>2, AppendExplained
      <3>4. QED
        BY <1>2, <2>4, <3>1, <3>3, BooksAfter DEF row
    <2>5. CASE disk' = Cleared(c) /\ u = User(c)
      <3>1. Explained(<<>>, 0)
        BY DEF Explained
      <3>2. QED
        BY <1>2, <2>5, <3>1, BooksAfter
    <2>6. CASE disk' = Noted \/ u # User(c)
      BY <1>2, <2>1, <2>6, BooksAfter DEF Outcome
    <2>7. QED
      BY <1>2, <2>4, <2>5, <2>6 DEF Outcome
  <1>3. QED
    BY <1>1, <1>2, FileSteps
-------------------------------------------------------------------------------
(* Calls that do not overlap.                                                    *)

LEMMA InitIInv == Init => IInv
  <1> SUFFICES ASSUME Init PROVE IInv
    OBVIOUS
  <1>1. NothingLeftOpen
    BY DEF Init, NothingLeftOpen
  <1>2. AllAhead
    BY DEF Init, AllAhead, Ahead
  <1>3. DiskExplained
    BY DEF Init, Empty, DiskExplained
  <1>4. QED
    BY InitTyped, <1>1, <1>2, <1>3 DEF IInv

\* A call starts at a connection that agrees with the file, and a crash restores one.
LEMMA NextIInv == IInv /\ OneAtATime /\ OneAtATime' /\ [Next]_vars => IInv'
  <1> SUFFICES ASSUME IInv, OneAtATime, OneAtATime', [Next]_vars PROVE IInv'
    OBVIOUS
  <1> USE DEF IInv
  <1>1. Typed' /\ DiskExplained'
    BY NextTyped, StepExplained
  <1>2. ASSUME NEW c \in Coroutines, Call(c) PROVE AllAhead' /\ NothingLeftOpen'
    <2>1. /\ pc[c] \in Quiet
          /\ pc'[c] \in {"touch", "note"}
          /\ \A d \in Coroutines : d # c => pc'[d] = pc[d]
          /\ UNCHANGED <<disk, mem, open>>
      BY <1>2 DEF Call, Typed, TypeOK
    <2>2. \A d \in Coroutines : d # c => pc[d] \in Quiet /\ pc'[d] \in Quiet
      BY <2>1 DEF OneAtATime, Quiet
    <2>3. ~open' /\ mem' = disk'
      BY <2>1, <2>2 DEF NothingLeftOpen
    <2>4. AllAhead'
      BY <2>1, <2>2, <2>3 DEF AllAhead, Ahead, Quiet
    <2>5. QED
      BY <2>3, <2>4 DEF NothingLeftOpen
  <1>3. ASSUME NEW c \in Coroutines, Step(c) PROVE AllAhead' /\ NothingLeftOpen'
    BY <1>3, StepAhead
  <1>4. CASE Crash
    <2>1. /\ \A c \in Coroutines : pc'[c] = "idle"
          /\ ~open' /\ mem' = disk'
      BY <1>4 DEF Crash
    <2>2. AllAhead' /\ NothingLeftOpen'
      BY <2>1 DEF AllAhead, Ahead, NothingLeftOpen
    <2>3. QED
      BY <1>1, <2>2
  <1>5. CASE UNCHANGED vars
    <2>1. NothingLeftOpen'
      BY <1>5 DEF vars, NothingLeftOpen
    <2>2. AllAhead'
      BY <1>5 DEF vars, AllAhead, Ahead, Changed, Cleared, Noted, RefStands, RowOf, User, Wanted
    <2>3. QED
      BY <1>1, <2>1, <2>2
  <1>6. QED
    BY <1>1, <1>2, <1>3, <1>4, <1>5 DEF Next

LEMMA AlwaysIInv == Spec /\ []OneAtATime => []IInv
  BY InitIInv, NextIInv, PTL DEF Spec

\* While calls do not overlap, a crash at any statement leaves a file whose rows add up to
\* its balances: apply_balance_change commits row and balance together or not at all.
THEOREM ConnectionExplains == Spec /\ []OneAtATime => []DiskExplained
  <1>1. IInv => DiskExplained
    BY DEF IInv
  <1>2. QED
    BY AlwaysIInv, <1>1, PTL

\* While calls do not overlap, every call ends its transaction, however it ends: the next
\* BEGIN IMMEDIATE succeeds and nothing waits for somebody else's commit.
THEOREM ConnectionLeavesNothing == Spec /\ []OneAtATime => []NothingLeftOpen
  <1>1. IInv => NothingLeftOpen
    BY DEF IInv
  <1>2. QED
    BY AlwaysIInv, <1>1, PTL
-------------------------------------------------------------------------------
(* What was returned.                                                            *)

\* A row of the file stays there unless its wallet is reset.
LEMMA RowsStay ==
  ASSUME Typed, AllAhead, [Next]_vars, NEW u \in Users, NEW i \in 1..Len(disk.ledger[u]),
         \A c \in Coroutines : (Commit(c) /\ job[c].kind = "clear") => User(c) # u
  PROVE  i \in 1..Len(disk'.ledger[u]) /\ disk'.ledger[u][i] = disk.ledger[u][i]
  <1>1. disk.ledger[u] \in Seq(Row) /\ disk.nextId \in Nat
    BY DEF Typed, TypeOK, Database
  <1>2. ASSUME NEW row \in Row
        PROVE  /\ i \in 1..Len(Append(disk.ledger[u], row))
               /\ Append(disk.ledger[u], row)[i] = disk.ledger[u][i]
    BY <1>1, <1>2
  <1>3. ASSUME NEW c \in Coroutines, Commit(c), Outcome(c)
        PROVE  i \in 1..Len(disk'.ledger[u]) /\ disk'.ledger[u][i] = disk.ledger[u][i]
    <2>1. RowOf(c, disk.nextId) \in Row
      <3>1. pc[c] \notin Quiet
        BY <1>3 DEF Commit, Move, Quiet
      <3>2. QED
        BY <1>1, <3>1, RowTyped
    <2>2. CASE disk' = Changed(c)
      BY <1>2, <1>3, <2>1, <2>2, BooksAfter
    <2>3. CASE disk' = Cleared(c) /\ User(c) # u
      BY <1>3, <2>3, BooksAfter
    <2>4. CASE disk' = Noted
      BY <1>3, <2>4, BooksAfter
    <2>5. QED
      BY <1>3, <2>2, <2>3, <2>4 DEF Outcome
  <1>4. QED
    BY <1>3, FileSteps

LEMMA StepReturned ==
  ASSUME IInv, IInv', ReturnedIsStored, OneAtATime, NobodyElseResets, [Next]_vars
  PROVE  ReturnedIsStored'
  <1> SUFFICES ASSUME NEW c \in Coroutines, pc'[c] = "returned", job'[c].kind = "change"
               PROVE  LET rows == disk'.ledger[User(c)'] IN
                      \E i \in 1..Len(rows) : /\ rows[i].id = receipt'[c]
                                             /\ rows[i].amount = job'[c].delta
                                             /\ rows[i].after = Wanted(c)'
    BY DEF ReturnedIsStored
  <1> USE DEF IInv
  <1>1. CASE Commit(c)
    <2>1. /\ pc[c] = "commit" /\ job[c].kind = "change"
          /\ job' = job /\ seen' = seen /\ receipt' = receipt /\ disk' = mem
      BY <1>1 DEF Commit, Move, Rest, CommitAll
    <2>2. disk' = Changed(c) /\ receipt[c] = disk.nextId
      BY <2>1 DEF AllAhead, Ahead
    <2>3. User(c) \in Users /\ User(c)' = User(c) /\ Wanted(c)' = Wanted(c)
      BY <2>1, CallTyped DEF Quiet, User, Wanted
    <2>4. disk'.ledger[User(c)] = Append(disk.ledger[User(c)], RowOf(c, disk.nextId))
      BY <1>1, <2>2, <2>3, BooksAfter
    <2>5. disk.ledger[User(c)] \in Seq(Row) /\ RowOf(c, disk.nextId) \in Row
      <3>1. disk.ledger[User(c)] \in Seq(Row) /\ disk.nextId \in Nat
        BY <2>3 DEF Typed, TypeOK, Database
      <3>2. QED
        BY <2>1, <3>1, RowTyped DEF Quiet
    <2> DEFINE n == Len(disk.ledger[User(c)]) + 1
    <2>6. n \in 1..Len(disk'.ledger[User(c)]) /\ disk'.ledger[User(c)][n] = RowOf(c, disk.nextId)
      BY <2>4, <2>5
    <2> HIDE DEF n
    <2>7. QED
      BY <2>1, <2>2, <2>3, <2>6 DEF RowOf
  <1>2. CASE ~Commit(c)
    <2>1. /\ pc[c] = "returned" /\ job'[c] = job[c] /\ seen'[c] = seen[c]
          /\ receipt'[c] = receipt[c]
      <3>1. ASSUME NEW d \in Coroutines, Call(d)
            PROVE  d # c /\ pc'[c] = pc[c] /\ UNCHANGED seen /\ job'[c] = job[c]
                   /\ receipt'[c] = receipt[c]
        BY <3>1 DEF Call, Typed, TypeOK
      <3>2. ASSUME NEW d \in Coroutines, Step(d)
            PROVE  d # c /\ pc'[c] = pc[c] /\ UNCHANGED job
        BY <1>2, <3>2 DEF Step, Touch, Touched, Begin, Select, Update, Insert, Delete, Zero, Note,
                          Commit, Rollback, Move, Rest, Typed, TypeOK
      <3>3. ASSUME NEW d \in Coroutines, Step(d), d # c
            PROVE  seen'[c] = seen[c] /\ receipt'[c] = receipt[c]
        BY <3>3 DEF Step, Touch, Touched, Begin, Select, Update, Insert, Delete, Zero, Note,
                    Commit, Rollback, Rest, Typed, TypeOK
      <3>4. ~Crash
        BY DEF Crash
      <3>5. CASE UNCHANGED vars
        BY <3>5 DEF vars
      <3>6. QED
        BY <3>1, <3>2, <3>3, <3>4, <3>5 DEF Next
    <2>2. User(c)' = User(c) /\ Wanted(c)' = Wanted(c) /\ job[c].kind = "change"
      BY <2>1 DEF User, Wanted
    <2>3. PICK i \in 1..Len(disk.ledger[User(c)]) :
             /\ disk.ledger[User(c)][i].id = receipt[c]
             /\ disk.ledger[User(c)][i].amount = job[c].delta
             /\ disk.ledger[User(c)][i].after = Wanted(c)
      BY <2>1, <2>2 DEF ReturnedIsStored
    <2>4. User(c) \in Users
      BY <2>2, ConnectionAssumption DEF User, Typed, TypeOK, NoJob, Job
    <2>5. \A d \in Coroutines : (Commit(d) /\ job[d].kind = "clear") => User(d) # User(c)
      BY <2>1, <2>2 DEF NobodyElseResets, Commit, Move, Quiet
    <2>6. /\ i \in 1..Len(disk'.ledger[User(c)])
          /\ disk'.ledger[User(c)][i] = disk.ledger[User(c)][i]
      BY <2>3, <2>4, <2>5, RowsStay
    <2>7. QED
      BY <2>1, <2>2, <2>3, <2>6
  <1>3. QED
    BY <1>1, <1>2

\* While calls do not overlap, the transaction that apply_balance_change returned is in the
\* file, row and balance, and stays there until somebody resets that wallet.
THEOREM ConnectionStores ==
  Spec /\ []OneAtATime /\ []NobodyElseResets => []ReturnedIsStored
  <1>1. Init => ReturnedIsStored
    BY DEF Init, ReturnedIsStored
  <1>2. ReturnedIsStored /\ UNCHANGED vars => ReturnedIsStored'
    BY DEF ReturnedIsStored, vars, User, Wanted
  <1>3. QED
    BY <1>1, StepReturned, AlwaysIInv, PTL DEF Spec
-------------------------------------------------------------------------------
(* The file as a ledger that changes in single steps.                            *)

\* The commit of a change is one Change of AtomicLedger.
LEMMA CommitIsChange ==
  ASSUME Typed, DiskExplained, NEW c \in Coroutines, Commit(c), disk' = Changed(c),
         seen[c] = disk.balance[User(c)], RefStands(c), NEW u \in Users, u = User(c)
  PROVE  File!Change(u)
  <1> DEFINE row == RowOf(c, disk.nextId)
             rows == disk.ledger[u]
  <1>1. pc[c] \notin Quiet
    BY DEF Commit, Move, Quiet
  <1>2. u \in Users /\ rows \in Seq(Row) /\ disk \in Database /\ disk.nextId \in Nat
    BY <1>1, CallTyped DEF Typed, TypeOK, Database
  <1>3. row \in Row
    BY <1>1, <1>2, RowTyped
  <1>4. /\ disk'.ledger = [disk.ledger EXCEPT ![u] = Append(rows, row)]
        /\ disk'.balance = [disk.balance EXCEPT ![u] = Wanted(c)]
        /\ disk'.nextId = disk.nextId + 1
    BY <1>2 DEF Database, Changed
  <1>5. /\ disk'.ledger[u] = Append(rows, row)
        /\ disk'.ledger[u] # <<>>
        /\ disk'.ledger[u][Len(disk'.ledger[u])] = row
    <2>1. disk.ledger \in [Users -> Seq(Row)]
      BY <1>2 DEF Database
    <2>2. disk'.ledger[u] = Append(rows, row)
      BY <1>2, <1>4, <2>1
    <2>3. QED
      BY <1>2, <1>3, <2>2
  <1>6. /\ row.id = disk.nextId
        /\ row.after = disk.balance[u] + row.amount
        /\ row.after = Wanted(c)
        /\ row.ref # 0 => \E i \in 1..Len(rows) : rows[i].id = row.ref
    BY DEF RowOf, Wanted, RefStands
  <1>7. /\ disk'.balance = [disk.balance EXCEPT ![u] = row.after]
        /\ row = disk'.ledger[u][Len(disk'.ledger[u])]
    BY <1>4, <1>5, <1>6
  <1> HIDE DEF row
  <1>8. QED
    BY <1>4, <1>5, <1>6, <1>7 DEF File!Change, File!LastRow, File!Listed

LEMMA StepFile ==
  ASSUME IInv, [Next]_vars
  PROVE  [File!Next]_(File!vars)
  <1> USE DEF IInv
  <1>1. CASE disk' = disk
    BY <1>1 DEF File!vars
  <1>2. ASSUME NEW c \in Coroutines, Commit(c), Outcome(c) PROVE [File!Next]_(File!vars)
    <2>1. PICK u \in Users : u = User(c)
      BY <1>2, CallTyped DEF Commit, Move, Quiet
    <2>2. CASE disk' = Changed(c) /\ seen[c] = disk.balance[User(c)] /\ RefStands(c)
      BY <1>2, <2>1, <2>2, CommitIsChange DEF File!Next
    <2>3. CASE disk' = Cleared(c)
      <3>1. disk \in Database
        BY DEF Typed, TypeOK
      <3>2. File!Reset(u)
        BY <2>1, <2>3, <3>1 DEF Database, Cleared, File!Reset
      <3>3. QED
        BY <3>2 DEF File!Next
    <2>4. CASE disk' = Noted
      BY <2>4 DEF Typed, TypeOK, Database, Noted, File!vars
    <2>5. QED
      BY <1>2, <2>2, <2>3, <2>4 DEF Outcome
  <1>3. QED
    BY <1>1, <1>2, FileSteps

\* While calls do not overlap, the statements, commits, rollbacks and crashes of the one
\* connection implement a ledger in which a call takes effect in one step or not at all.
THEOREM ConnectionImplementsLedger == Spec /\ []OneAtATime => FileIsAtomic
  <1>1. Init => File!Init
    BY DEF Init, Empty, File!Init
  <1>2. IInv /\ [Next]_vars => [File!Next]_(File!vars)
    BY StepFile
  <1>3. QED
    BY <1>1, <1>2, AlwaysIInv, PTL DEF Spec, FileIsAtomic, File!Spec
===============================================================================
