----------------------------- MODULE ClientsProofs -----------------------------
(***************************************************************************)
(* The clients of a panel, for any clients, admins and loads and any       *)
(* number of requests at a time.  The argument is about the calls that a   *)
(* request has left: a record that is written back was read by the same    *)
(* request right before, a value that is worked out from a first read      *)
(* stands two calls after it, and a uuid that is yet to be given out is    *)
(* known to nobody.  Where a second request is at work on the client,      *)
(* only the last of these is left, and it is enough for the uuids.  The    *)
(* quota is another account: what an admin has, what it may get back, and  *)
(* the creations that are past the check.                                  *)
(***************************************************************************)
EXTENDS PanelClients, FiniteSetTheorems, TLAPS

Steps == Mutations \cup
    {"link", "detail", "address", "depleted", "base", "config", "reset", "enter", "enter_gift",
     "read_back", "list", "delete", "own_to", "list_all", "list_own", "count", "free", "create", "own",
     "comments", "list_child", "unsegmented", "snapshot", "parent"}

\* Mutations worked out from a first read, calls that enter a top-up, calls that give out a
\* uuid, and the calls of an operation that enters a top-up.
Based == {"add", "gift", "extend", "toggle"}
Entering == {"enter", "enter_gift"}
Issuing == {"rotate", "create"}
Topping == {"list_own", "link", "detail", "base", "config", "add", "gift"} \cup Entering

\* One of these calls is yet to come.
Ahead(calling, todo) == \E k \in 1..Len(todo) : todo[k] \in calling

\* How the calls of an operation follow each other: what must have come right before,
Prepared(todo) ==
    \A k \in 1..Len(todo) : k > 1 => /\ todo[k] \in Mutations => todo[k - 1] = "config"
                                     /\ todo[k] = "own" => todo[k - 1] = "create"
                                     /\ todo[k] = "snapshot" => todo[k - 1] = "unsegmented"

\* what comes two calls after the first read,
WorkedOut(todo) == \A k \in 1..Len(todo) : k > 2 => (todo[k] \in Based => todo[k - 2] = "base")

\* what comes last, and goes with nothing but the calls of a top-up,
EntersLast(todo) ==
    \A k \in 1..Len(todo) : todo[k] \in Entering => k = Len(todo) /\ \A i \in 1..Len(todo) : todo[i] \in Topping

\* and what comes once.
IssuesOnce(todo) ==
    \A i, k \in 1..Len(todo) : todo[i] \in Issuing /\ todo[k] \in Issuing => i = k

Fits(todo) == Prepared(todo) /\ WorkedOut(todo) /\ EntersLast(todo) /\ IssuesOnce(todo)

\* An operation from its first call on.
Whole(plan) ==
    /\ plan \in Seq(Steps) /\ plan # <<>>
    /\ Fits(plan)
    /\ plan[1] \notin Mutations \cup {"own", "snapshot"}
    /\ Len(plan) > 1 => plan[2] \notin Based
    /\ Ahead(Entering, plan) => Ahead({"detail"}, plan) /\ Ahead({"base"}, plan)
-------------------------------------------------------------------------------
(* The invariant.                                                                *)

IsRecord(x) == x \in [gb : Nat, days : {x.days}, on : {x.on}, limit : {x.limit}, tg : {x.tg},
                      moaf : {x.moaf}, comment : {x.comment}, key : Nat]
IsJob(j) ==
    /\ j \in [todo : Seq(Steps), c : {j.c}, actor : {j.actor}, key : Nat, fresh : Nat,
              before : {j.before}, known : {j.known}, record : {j.record}, owner : {j.owner},
              under : {j.under}, base : {j.base}, saw : {j.saw}]
    /\ IsRecord(j.before) /\ IsRecord(j.base) /\ IsRecord(j.saw)
    /\ j.todo # <<>> => j.c \in Clients
IsSegment(g) == g \in [c : {g.c}, key : Nat, from : Nat, to : Nat, bill : {g.bill}]

Typed ==
    /\ load \in Loads
    /\ clients = [c \in Clients |-> clients[c]] /\ \A c \in Clients : IsRecord(clients[c])
    /\ due = [c \in Clients |-> due[c]]
    /\ job = [r \in Requests |-> job[r]] /\ \A r \in Requests : IsJob(job[r])
    /\ \A g \in segments : IsSegment(g)
    /\ calls \in Nat \ {0}
    /\ \A x \in retired : x = <<x[1], x[2]>> /\ x[2] \in Nat \ {0}

\* The uuids that are in use, were in use, or are still talked about.
Known == {clients[c].key : c \in Clients} \cup {job[r].key : r \in Requests}
         \cup {job[r].saw.key : r \in Requests} \cup {x[2] : x \in retired} \cup {g.key : g \in segments}

\* A uuid that is yet to be given out is nobody's.
FreshKeys ==
    /\ \A k \in Known : k <= calls
    /\ \A r \in Requests : job[r].fresh <= calls
    /\ \A r \in Requests : Ahead(Issuing, job[r].todo) => job[r].fresh > 0 /\ job[r].fresh \notin Known
    /\ \A r, q \in Requests : r # q /\ Working(r) /\ Working(q) => job[r].fresh # job[q].fresh

\* Two requests at work on a client are noted.
Alone ==
    \A r, q \in Requests : r # q /\ Working(r) /\ Working(q) /\ job[r].c = job[q].c => job[r].c \in clashed

\* The record to write back has the uuid that the request was made for.
Writing(j) == j.todo[1] \in Mutations => j.saw.key = j.key

\* What was read of the client is still so.
UpToDate(j) ==
    /\ j.todo[1] \in Mutations => j.saw = clients[j.c]
    /\ (j.todo[1] \in Based \/ (Len(j.todo) > 1 /\ j.todo[2] \in Based)) => j.base = clients[j.c]

\* What is going to be entered begins where the segments end that are there.
Billing(j) ==
    /\ Ahead(Entering, j.todo) =>
          /\ j.key = clients[j.c].key
          /\ ~Ahead({"detail"}, j.todo) =>
                /\ j.before.gb <= clients[j.c].gb
                /\ \A g \in segments : g.c = j.c /\ g.key = j.key => g.to <= j.before.gb
          /\ ~Ahead({"base"}, j.todo) => (HasSegments(j) => j.known)
    /\ j.todo[1] = "snapshot" /\ j.record => ~HasSegments(j)
    /\ j.todo[1] = "own" =>
          j.key = clients[j.c].key /\ clients[j.c].gb >= 1 /\ ~HasSegments(j)

Sound(j) ==
    /\ Fits(j.todo)
    /\ j.todo # <<>> =>
          /\ Writing(j)
          /\ j.c \notin clashed => UpToDate(j)
          /\ j.c \notin clashed \cup rebased => Billing(j)

\* No segment of a client goes beyond what the client has.
WithinTotal ==
    \A g \in segments : (g.c \in Clients /\ g.c \notin clashed \cup rebased /\ Exists(g.c)
                         /\ g.key = clients[g.c].key) => g.to <= clients[g.c].gb

ClientsInv == /\ Typed
              /\ FreshKeys
              /\ Alone
              /\ \A r \in Requests : Sound(job[r])
              /\ WithinTotal
              /\ UndisturbedEdits
              /\ RotatedKeyStaysDead
              /\ BilledOnce
-------------------------------------------------------------------------------
(* Operations as sequences of calls.                                             *)

\* The rest of an operation that fits, fits; and what comes next in it.
LEMMA RestFits ==
  ASSUME NEW todo \in Seq(Steps), todo # <<>>, Fits(todo), NEW rest, rest = Tail(todo)
  PROVE  /\ rest \in Seq(Steps)
         /\ Fits(rest)
         /\ rest # <<>> =>
               /\ rest[1] \in Mutations => todo[1] = "config"
               /\ rest[1] = "own" => todo[1] = "create"
               /\ rest[1] = "snapshot" => todo[1] = "unsegmented"
         /\ rest # <<>> /\ rest[1] \in Based => Len(todo) > 1 /\ todo[2] \in Based
         /\ Len(rest) > 1 /\ rest[2] \in Based => todo[1] = "base"
  <1>1. /\ rest \in Seq(Steps)
        /\ Len(rest) = Len(todo) - 1
        /\ \A k \in 1..Len(rest) : rest[k] = todo[k + 1] /\ k + 1 \in 1..Len(todo)
        /\ Len(todo) \in Nat \ {0}
    OBVIOUS
  <1>2. Prepared(rest)
    BY <1>1 DEF Fits, Prepared
  <1>2a. WorkedOut(rest)
    BY <1>1 DEF Fits, WorkedOut
  <1>2b. EntersLast(rest)
    <2> SUFFICES ASSUME NEW k \in 1..Len(rest), rest[k] \in Entering
                 PROVE  k = Len(rest) /\ \A i \in 1..Len(rest) : rest[i] \in Topping
      BY DEF EntersLast
    <2>1. k + 1 \in 1..Len(todo) /\ todo[k + 1] \in Entering
      BY <1>1
    <2>2. k + 1 = Len(todo) /\ \A i \in 1..Len(todo) : todo[i] \in Topping
      BY <2>1 DEF Fits, EntersLast
    <2>3. k = Len(rest)
      <3>1. Len(todo) \in Int /\ Len(rest) = Len(todo) - 1 /\ k \in Int
        BY <1>1
      <3>2. QED
        BY <2>2, <3>1
    <2>4. \A i \in 1..Len(rest) : rest[i] \in Topping
      BY <1>1, <2>2
    <2>5. QED
      BY <2>3, <2>4
  <1>2c. IssuesOnce(rest)
    <2> SUFFICES ASSUME NEW i \in 1..Len(rest), NEW k \in 1..Len(rest),
                        rest[i] \in Issuing, rest[k] \in Issuing
                 PROVE  i = k
      BY DEF IssuesOnce
    <2>1. /\ i + 1 \in 1..Len(todo) /\ k + 1 \in 1..Len(todo)
          /\ todo[i + 1] \in Issuing /\ todo[k + 1] \in Issuing
      BY <1>1
    <2>2. i + 1 = k + 1
      BY <2>1 DEF Fits, IssuesOnce
    <2>3. QED
      BY <2>2
  <1>3. ASSUME rest # <<>>
        PROVE  /\ rest[1] \in Mutations => todo[1] = "config"
               /\ rest[1] = "own" => todo[1] = "create"
               /\ rest[1] = "snapshot" => todo[1] = "unsegmented"
    <2>1. 1 \in 1..Len(rest) /\ 2 \in 1..Len(todo) /\ rest[1] = todo[2]
      BY <1>1, <1>3
    <2>2. QED
      BY <2>1 DEF Fits, Prepared
  <1>4. rest # <<>> /\ rest[1] \in Based => Len(todo) > 1 /\ todo[2] \in Based
    BY <1>1
  <1>5. ASSUME Len(rest) > 1, rest[2] \in Based PROVE todo[1] = "base"
    <2>1. 3 \in 1..Len(todo) /\ rest[2] = todo[3]
      BY <1>1, <1>5
    <2>2. QED
      BY <2>1, <1>5 DEF Fits, WorkedOut
  <1>6. QED
    BY <1>1, <1>2, <1>2a, <1>2b, <1>2c, <1>3, <1>4, <1>5 DEF Fits

\* A call that is yet to come is the next one, or to come after it.
LEMMA RestAhead ==
  ASSUME NEW todo \in Seq(Steps), todo # <<>>, NEW rest, rest = Tail(todo), NEW S
  PROVE  Ahead(S, todo) <=> todo[1] \in S \/ Ahead(S, rest)
  <1>1. /\ rest \in Seq(Steps)
        /\ Len(rest) = Len(todo) - 1
        /\ \A k \in 1..Len(rest) : rest[k] = todo[k + 1]
        /\ Len(todo) \in Nat \ {0}
    OBVIOUS
  <1>2. ASSUME NEW k \in 1..Len(todo), todo[k] \in S, k # 1 PROVE Ahead(S, rest)
    <2>1. k - 1 \in 1..Len(rest) /\ rest[k - 1] = todo[k]
      BY <1>1, <1>2
    <2>2. QED
      BY <2>1, <1>2 DEF Ahead
  <1>3. ASSUME NEW k \in 1..Len(rest), rest[k] \in S PROVE Ahead(S, todo)
    <2>1. k + 1 \in 1..Len(todo) /\ todo[k + 1] = rest[k]
      BY <1>1
    <2>2. QED
      BY <2>1, <1>3 DEF Ahead
  <1>4. todo[1] \in S => Ahead(S, todo)
    BY <1>1 DEF Ahead
  <1>5. QED
    BY <1>2, <1>3, <1>4 DEF Ahead

\* Nothing follows the call that enters a top-up; a uuid is given out once.
LEMMA LastOfThem ==
  ASSUME NEW todo \in Seq(Steps), todo # <<>>, Fits(todo)
  PROVE  /\ todo[1] \in Entering => Tail(todo) = <<>>
         /\ todo[1] \in Issuing => ~Ahead(Issuing, Tail(todo))
         /\ Ahead(Entering, todo) => todo[1] \in Topping
  <1> DEFINE rest == Tail(todo)
  <1>1. /\ rest \in Seq(Steps)
        /\ Len(rest) = Len(todo) - 1
        /\ \A k \in 1..Len(rest) : rest[k] = todo[k + 1] /\ k + 1 \in 1..Len(todo)
        /\ 1 \in 1..Len(todo)
    OBVIOUS
  <1>2. ASSUME todo[1] \in Entering PROVE rest = <<>>
    <2>1. Len(todo) = 1
      BY <1>1, <1>2 DEF Fits, EntersLast
    <2>2. QED
      BY <1>1, <2>1
  <1>3. todo[1] \in Issuing => ~Ahead(Issuing, rest)
    <2>1. SUFFICES ASSUME todo[1] \in Issuing, NEW k \in 1..Len(rest), rest[k] \in Issuing PROVE FALSE
      BY DEF Ahead
    <2>2. k + 1 \in 1..Len(todo) /\ todo[k + 1] \in Issuing
      BY <1>1, <2>1
    <2>3. k + 1 = 1
      BY <1>1, <2>1, <2>2 DEF Fits, IssuesOnce
    <2>4. QED
      BY <2>3
  <1>4. Ahead(Entering, todo) => todo[1] \in Topping
    BY <1>1 DEF Fits, EntersLast, Ahead
  <1>5. QED
    BY <1>2, <1>3, <1>4

\* Every operation is whole, and so every operation that may be asked for.
LEMMA PlansWhole ==
  ASSUME NEW op \in Operations, NEW plan \in Plans(op)
  PROVE  Whole(plan)
  <1>1. Whole(AddTraffic) /\ Whole(AddTrafficByLink)
    BY DEF AddTraffic, AddTrafficByLink, ResolveFromLink,
           Whole, Fits, Prepared, WorkedOut, EntersLast, IssuesOnce, Ahead, Steps, Mutations,
           Based, Entering, Topping, Issuing
  <1>2. Whole(GiftTraffic)
    BY DEF GiftTraffic,
           Whole, Fits, Prepared, WorkedOut, EntersLast, IssuesOnce, Ahead, Steps, Mutations,
           Based, Entering, Topping, Issuing
  <1>3. Whole(ExtendExpiry) /\ Whole(AddDaysByLink)
    BY DEF ExtendExpiry, AddDaysByLink, ResolveFromLink,
           Whole, Fits, Prepared, WorkedOut, EntersLast, IssuesOnce, Ahead, Steps, Mutations,
           Based, Entering, Topping, Issuing
  <1>4. Whole(ClientToggleEnable) /\ Whole(EditConfigToggleEnable)
    BY DEF ToggleClient, ClientToggleEnable, EditConfigToggleEnable, ThenShown,
           Whole, Fits, Prepared, WorkedOut, EntersLast, IssuesOnce, Ahead, Steps, Mutations,
           Based, Entering, Topping, Issuing
  <1>5. Whole(SetTgId)
    BY DEF SetTgId,
           Whole, Fits, Prepared, WorkedOut, EntersLast, IssuesOnce, Ahead, Steps, Mutations,
           Based, Entering, Topping, Issuing
  <1>6. Whole(SetTotal) /\ Whole(ClientTrafficSet)
    BY DEF SetTotal, ClientTrafficSet, ThenShown,
           Whole, Fits, Prepared, WorkedOut, EntersLast, IssuesOnce, Ahead, Steps, Mutations,
           Based, Entering, Topping, Issuing
  <1>7. Whole(SetExpiryDays) /\ Whole(ClientExpirySet)
    BY DEF SetExpiryDays, ClientExpirySet, ThenShown,
           Whole, Fits, Prepared, WorkedOut, EntersLast, IssuesOnce, Ahead, Steps, Mutations,
           Based, Entering, Topping, Issuing
  <1>8. Whole(SetLimitIp) /\ Whole(IpLimitSet)
    BY DEF SetLimitIp, IpLimitSet, ThenShown,
           Whole, Fits, Prepared, WorkedOut, EntersLast, IssuesOnce, Ahead, Steps, Mutations,
           Based, Entering, Topping, Issuing
  <1>9. /\ Whole(<<"detail", "reset", "config", "total", "read_back">>)
         /\ Whole(<<"detail", "reset", "config", "total", "config", "days", "read_back">>)
    BY DEF Whole, Fits, Prepared, WorkedOut, EntersLast, IssuesOnce, Ahead, Steps, Mutations,
           Based, Entering, Topping, Issuing
  <1>10. Whole(RotateByUser) /\ Whole(RotateByAdmin)
    BY DEF RotateUuid, RotateByUser, RotateByAdmin,
           Whole, Fits, Prepared, WorkedOut, EntersLast, IssuesOnce, Ahead, Steps, Mutations,
           Based, Entering, Topping, Issuing
  <1>11. Whole(EditConfigDeleteYes) /\ Whole(DeleteByLink)
    BY DEF DeleteClient, EditConfigDeleteYes, DeleteByLink, ResolveFromLink,
           Whole, Fits, Prepared, WorkedOut, EntersLast, IssuesOnce, Ahead, Steps, Mutations,
           Based, Entering, Topping, Issuing
  <1>12. Whole(CleanupDepleted)
    BY DEF CleanupDepleted,
           Whole, Fits, Prepared, WorkedOut, EntersLast, IssuesOnce, Ahead, Steps, Mutations,
           Based, Entering, Topping, Issuing
  <1>13. Whole(SetClientOwner)
    BY DEF SetClientOwner,
           Whole, Fits, Prepared, WorkedOut, EntersLast, IssuesOnce, Ahead, Steps, Mutations,
           Based, Entering, Topping, Issuing
  <1>14. Whole(<<"list_all">>) /\ Whole(<<"list_own">>)
    BY DEF Whole, Fits, Prepared, WorkedOut, EntersLast, IssuesOnce, Ahead, Steps, Mutations,
           Based, Entering, Topping, Issuing
  <1>15. Whole(CreateClient)
    BY DEF CreateClient,
           Whole, Fits, Prepared, WorkedOut, EntersLast, IssuesOnce, Ahead, Steps, Mutations,
           Based, Entering, Topping, Issuing
  <1>16. Whole(ChangeParent)
    BY DEF ChangeParent,
           Whole, Fits, Prepared, WorkedOut, EntersLast, IssuesOnce, Ahead, Steps, Mutations,
           Based, Entering, Topping, Issuing
  <1>17. op = "add" => Whole(plan)
    BY <1>1 DEF Plans
  <1>18. op = "gift" => Whole(plan)
    BY <1>2 DEF Plans
  <1>19. op = "extend" => Whole(plan)
    BY <1>3 DEF Plans
  <1>20. op = "toggle" => Whole(plan)
    BY <1>4 DEF Plans
  <1>21. op = "tg" => Whole(plan)
    BY <1>5 DEF Plans
  <1>22. op = "total" => Whole(plan)
    BY <1>6 DEF Plans
  <1>23. op = "days" => Whole(plan)
    BY <1>7 DEF Plans
  <1>24. op = "limit" => Whole(plan)
    BY <1>8 DEF Plans
  <1>25. op = "reset" => Whole(plan)
    <2>1. ResetTraffic = {<<"detail", "reset", "config", "total", "read_back">>,
                          <<"detail", "reset", "config", "total", "config", "days", "read_back">>}
      BY DEF ResetTraffic
    <2>2. QED
      BY <1>9, <2>1 DEF Plans
  <1>26. op = "rotate" => Whole(plan)
    BY <1>10 DEF Plans
  <1>27. op = "delete" => Whole(plan)
    BY <1>11 DEF Plans
  <1>28. op = "cleanup" => Whole(plan)
    BY <1>12 DEF Plans
  <1>29. op = "owner" => Whole(plan)
    BY <1>13 DEF Plans
  <1>30. op = "list" => Whole(plan)
    BY <1>14 DEF ListClients, Plans
  <1>31. op = "create" => Whole(plan)
    BY <1>15 DEF Plans
  <1>32. op = "parent" => Whole(plan)
    BY <1>16 DEF Plans
  <1>33. QED
    BY <1>17, <1>18, <1>19, <1>20, <1>21, <1>22, <1>23, <1>24, <1>25, <1>26, <1>27, <1>28,
       <1>29, <1>30, <1>31, <1>32 DEF Operations
-------------------------------------------------------------------------------
(* What a step of one request leaves alone.                                      *)

\* The requests of other clients find them as they were, those of the same client are noted.
LEMMA OthersSound ==
  ASSUME ClientsInv, NEW r \in Requests, NEW q \in Requests, q # r, Working(r),
         NEW j, j = job[q],
         \A c \in Clients : c # job[r].c => clients'[c] = clients[c],
         \A g \in segments' : g \in segments \/ g.c = job[r].c,
         clashed \subseteq clashed', rebased \subseteq rebased'
  PROVE  Sound(j)'
  <1>1. Sound(j) /\ IsJob(j)
    BY DEF ClientsInv, Typed
  <1>2. ASSUME j.todo # <<>>, j.c \notin clashed'
        PROVE  j.c \notin clashed /\ j.c # job[r].c /\ clients'[j.c] = clients[j.c]
    <2>1. j.c \notin clashed /\ Working(q)
      BY <1>2 DEF Working
    <2>2. j.c # job[r].c
      BY <2>1 DEF ClientsInv, Alone
    <2>3. j.c \in Clients
      BY <1>1, <1>2 DEF IsJob
    <2>4. QED
      BY <2>1, <2>2, <2>3
  <1>3. ASSUME j.todo # <<>>, j.c \notin clashed' PROVE UpToDate(j)'
    <2>1. UpToDate(j)
      BY <1>1, <1>2, <1>3 DEF Sound
    <2>2. QED
      BY <1>2, <1>3, <2>1 DEF UpToDate
  <1>4. ASSUME j.todo # <<>>, j.c \notin clashed' \cup rebased' PROVE Billing(j)'
    <2>1. Billing(j) /\ clients'[j.c] = clients[j.c] /\ j.c # job[r].c
      BY <1>1, <1>2, <1>4 DEF Sound
    <2>2. \A g \in segments' : g.c = j.c => g \in segments
      BY <2>1
    <2>3. HasSegments(j)' => HasSegments(j)
      BY <2>2 DEF HasSegments
    <2>4. QED
      BY <2>1, <2>2, <2>3 DEF Billing
  <1>5. QED
    BY <1>1, <1>3, <1>4 DEF Sound, Writing

\* A step of request r, after which it stands at j.
Step(r, j) ==
    /\ Working(r)
    /\ job' = [job EXCEPT ![r] = j]
    /\ \/ j = Idle
       \/ j.todo # <<>> /\ j.todo = Tail(job[r].todo) /\ j.c = job[r].c /\ j.fresh = job[r].fresh
    /\ UNCHANGED <<load, version, calls, clashed>>
    /\ rebased \subseteq rebased'
    /\ \A c \in Clients : c # job[r].c => clients'[c] = clients[c] /\ due'[c] = due[c]
    /\ \A g \in segments' : g \in segments \/ (g.c = job[r].c /\ g.key = job[r].key)
    /\ \A x \in retired' : x \in retired \/ x = <<job[r].c, clients[job[r].c].key>>

\* The only uuid it may bring up is the one it gives out.
Issues(r, k) == k \in Known \cup {0} \/ (job[r].todo[1] \in Issuing /\ k = job[r].fresh)

\* A uuid that is yet to be given out stays unknown: a step brings up only its own.
LEMMA StepFresh ==
  ASSUME ClientsInv, NEW r \in Requests, NEW j, Step(r, j), Issues(r, j.key), Issues(r, j.saw.key),
         Issues(r, clients'[job[r].c].key)
  PROVE  FreshKeys'
  <1>1. /\ \A q \in Requests : IsJob(job[q])
        /\ job = [q \in Requests |-> job[q]]
        /\ calls \in Nat \ {0} /\ calls' = calls
        /\ job[r].c \in Clients /\ job[r].todo # <<>>
    BY DEF ClientsInv, Typed, Step, IsJob, Working
  <1>2. job'[r] = j /\ \A q \in Requests : q # r => job'[q] = job[q]
    BY <1>1 DEF Step
  <1>3. \A k \in Known' : Issues(r, k)
    <2>1. \A c \in Clients : Issues(r, clients'[c].key)
      <3>1. \A c \in Clients : clients[c].key \in Known
        BY DEF Known
      <3>2. QED
        BY <3>1 DEF Issues, Step
    <2>2. \A q \in Requests : Issues(r, job'[q].key) /\ Issues(r, job'[q].saw.key)
      <3>1. \A q \in Requests : job[q].key \in Known /\ job[q].saw.key \in Known
        BY DEF Known
      <3>2. QED
        BY <1>2, <3>1 DEF Issues
    <2>3. \A x \in retired' : Issues(r, x[2])
      <3>1. \A x \in retired : x[2] \in Known
        BY DEF Known
      <3>2. clients[job[r].c].key \in Known
        BY <1>1 DEF Known
      <3>3. QED
        BY <3>1, <3>2 DEF Issues, Step
    <2>4. \A g \in segments' : Issues(r, g.key)
      <3>1. \A g \in segments : g.key \in Known
        BY DEF Known
      <3>2. job[r].key \in Known
        BY DEF Known
      <3>3. QED
        BY <3>1, <3>2 DEF Issues, Step
    <2>5. QED
      BY <2>1, <2>2, <2>3, <2>4 DEF Known
  <1>4. \A k \in Known' : k <= calls'
    BY <1>1, <1>3 DEF ClientsInv, FreshKeys, Issues
  <1>5. \A q \in Requests : job'[q].fresh <= calls'
    BY <1>1, <1>2 DEF ClientsInv, FreshKeys, Step, Idle
  <1>6. ASSUME NEW q \in Requests, Ahead(Issuing, job'[q].todo)
        PROVE  job'[q].fresh > 0 /\ job'[q].fresh \notin Known'
    <2>1. job'[q].todo # <<>>
      BY <1>6 DEF Ahead
    <2>2. CASE q # r
      <3>1. Ahead(Issuing, job[q].todo) /\ job'[q] = job[q] /\ Working(q) /\ Working(r)
        BY <1>2, <1>6, <2>1, <2>2 DEF Working, Step
      <3>2. job[q].fresh > 0 /\ job[q].fresh \notin Known /\ job[q].fresh # job[r].fresh
        BY <3>1, <2>2 DEF ClientsInv, FreshKeys
      <3>3. QED
        BY <1>3, <3>1, <3>2 DEF Issues
    <2>3. CASE q = r
      <3>1. j.todo = Tail(job[r].todo) /\ j.fresh = job[r].fresh
        BY <1>2, <2>1, <2>3 DEF Step, Idle
      <3>2. job[r].todo \in Seq(Steps) /\ job[r].todo # <<>> /\ Fits(job[r].todo)
        BY <1>1 DEF IsJob, ClientsInv, Sound
      <3>3. Ahead(Issuing, job[r].todo) /\ job[r].todo[1] \notin Issuing
        <4>1. PICK todo : todo = job[r].todo
          OBVIOUS
        <4>2. Ahead(Issuing, Tail(todo))
          BY <1>2, <1>6, <2>3, <3>1, <4>1
        <4>3. Ahead(Issuing, todo)
          BY <3>2, <4>1, <4>2, RestAhead
        <4>4. todo[1] \notin Issuing
          BY <3>2, <4>1, <4>2, LastOfThem
        <4>5. QED
          BY <4>1, <4>3, <4>4
      <3>4. job[r].fresh > 0 /\ job[r].fresh \notin Known
        BY <3>3 DEF ClientsInv, FreshKeys
      <3>5. QED
        BY <1>2, <1>3, <2>3, <3>1, <3>3, <3>4 DEF Issues
    <2>4. QED
      BY <2>2, <2>3
  <1>7. ASSUME NEW p \in Requests, NEW q \in Requests, p # q, Working(p)', Working(q)'
        PROVE  job'[p].fresh # job'[q].fresh
    <2>1. \A x \in Requests : Working(x)' => Working(x) /\ job'[x].fresh = job[x].fresh
      BY <1>2 DEF Working, Step, Idle
    <2>2. QED
      BY <1>7, <2>1 DEF ClientsInv, FreshKeys
  <1>8. QED
    BY <1>4, <1>5, <1>6, <1>7 DEF FreshKeys

\* Nobody comes to a client by a step.
LEMMA StepAlone ==
  ASSUME ClientsInv, NEW r \in Requests, NEW j, Step(r, j)
  PROVE  Alone'
  <1>1. job'[r] = j /\ \A q \in Requests : q # r => job'[q] = job[q]
    BY DEF ClientsInv, Typed, Step
  <1>2. \A x \in Requests : Working(x)' => Working(x) /\ job'[x].c = job[x].c
    BY <1>1 DEF Working, Step, Idle
  <1>3. QED
    BY <1>2 DEF ClientsInv, Alone, Step

\* What is left to show of a step.
LEMMA StepKeeps ==
  ASSUME ClientsInv, NEW r \in Requests, NEW j, Step(r, j), Issues(r, j.key), Issues(r, j.saw.key),
         Issues(r, clients'[job[r].c].key),
         Typed', Sound(j)', WithinTotal', UndisturbedEdits', RotatedKeyStaysDead', BilledOnce'
  PROVE  ClientsInv'
  <1>1. job'[r] = j /\ \A q \in Requests : q # r => job'[q] = job[q]
    BY DEF ClientsInv, Typed, Step
  <1>2. ASSUME NEW q \in Requests, q # r PROVE Sound(job[q])'
    <2>1. PICK i : i = job[q]
      OBVIOUS
    <2>2. Sound(i)'
      BY <2>1, <1>2, OthersSound DEF Step
    <2>3. i = job'[q]
      BY <1>1, <1>2, <2>1
    <2>4. QED
      BY <2>2, <2>3
  <1>3. Sound(job[r])'
    BY <1>1
  <1>4. QED
    BY <1>2, <1>3, StepFresh, StepAlone DEF ClientsInv
-------------------------------------------------------------------------------
(* Steps that read: nothing changes but where the request stands.                *)

\* A request that has ended is sound.
LEMMA IdleSound == IsJob(Idle) /\ Sound(Idle)
  <1>1. IsRecord(Gone)
    BY DEF IsRecord, Gone
  <1>2. <<>> \in Seq(Steps) /\ Fits(<<>>)
    BY DEF Fits, Prepared, WorkedOut, EntersLast, IssuesOnce
  <1>3. QED
    BY <1>1, <1>2 DEF IsJob, Sound, Idle

\* What is known of every request.
LEMMA ClientTyped ==
  ASSUME ClientsInv, NEW r \in Requests
  PROVE  /\ IsJob(job[r]) /\ Sound(job[r])
         /\ Working(r) => /\ job[r].todo \in Seq(Steps) /\ job[r].todo # <<>> /\ Fits(job[r].todo)
                          /\ job[r].c \in Clients /\ IsRecord(clients[job[r].c])
                          /\ Head(job[r].todo) = job[r].todo[1]
                          /\ clients[job[r].c].key \in Known
         /\ job[r].key \in Known /\ job[r].saw.key \in Known
  BY DEF ClientsInv, Typed, IsJob, Sound, Working, Known

\* Nothing changes that the invariant is about, except where a request stands.
Rests == UNCHANGED <<load, version, clients, segments, calls, due, clashed, rebased, retired>>

\* A request that has read something and is sound leaves everything else as it was.
LEMMA LooksKeep ==
  ASSUME ClientsInv, NEW r \in Requests, NEW j, Working(r), Turns(r, j), Rests,
         IsJob(j), Sound(j),
         j.todo # <<>> => j.todo = Tail(job[r].todo) /\ j.c = job[r].c /\ j.fresh = job[r].fresh,
         Issues(r, j.key), Issues(r, j.saw.key)
  PROVE  ClientsInv'
  <1>1. PICK k : k = IF j.todo = <<>> THEN Idle ELSE j
    OBVIOUS
  <1>2. IsJob(k) /\ Sound(k) /\ job' = [job EXCEPT ![r] = k]
    BY <1>1, IdleSound DEF Turns
  <1>3. Issues(r, k.key) /\ Issues(r, k.saw.key)
    BY <1>1 DEF Issues, Idle, Gone
  <1>4. Issues(r, clients'[job[r].c].key)
    BY ClientTyped DEF Rests, Issues
  <1>5. Step(r, k)
    BY <1>1, <1>2 DEF Step, Rests
  <1>6. Typed'
    <2>1. job' = [q \in Requests |-> job'[q]] /\ \A q \in Requests : IsJob(job'[q])
      BY <1>2 DEF ClientsInv, Typed
    <2>2. QED
      BY <2>1 DEF ClientsInv, Typed, Rests
  <1>7. Sound(k)'
    BY <1>2 DEF Sound, Writing, UpToDate, Billing, HasSegments, Rests
  <1>8. WithinTotal' /\ UndisturbedEdits' /\ RotatedKeyStaysDead' /\ BilledOnce'
    BY DEF ClientsInv, WithinTotal, UndisturbedEdits, RotatedKeyStaysDead, BilledOnce, Exists, Rests
  <1>9. QED
    BY <1>3, <1>4, <1>5, <1>6, <1>7, <1>8, StepKeeps

\* What a read has to bring, so that the request stays sound.
LEMMA LookSound ==
  ASSUME ClientsInv, NEW r \in Requests, Working(r), NEW i, i = job[r], NEW j,
         j.todo = Tail(i.todo), j.c = i.c,
         i.todo[1] \notin Mutations \cup Entering \cup {"create"},
         i.todo[1] = "config" => /\ j.saw = clients[i.c] /\ j.key = i.key
                                 /\ clients[i.c].key = i.key,
         i.todo[1] = "detail" => /\ j.before = clients[i.c]
                                 /\ Exists(i.c) /\ clients[i.c].key = i.key,
         i.todo[1] # "detail" => j.before = i.before,
         i.todo[1] = "base" => j.base = clients[i.c] /\ (HasSegments(i) => j.known),
         i.todo[1] # "base" => j.base = i.base /\ j.known = i.known,
         i.todo[1] \in Topping => j.key = i.key,
         i.todo[1] = "unsegmented" => (j.record => ~HasSegments(j))
  PROVE  Sound(j)
  <1>1. /\ i.todo \in Seq(Steps) /\ i.todo # <<>> /\ Fits(i.todo)
        /\ i.c \in Clients /\ IsRecord(clients[i.c])
        /\ Sound(i)
    BY ClientTyped
  <1>2. /\ Fits(j.todo)
        /\ j.todo # <<>> =>
              /\ j.todo[1] \in Mutations => i.todo[1] = "config"
              /\ j.todo[1] = "own" => i.todo[1] = "create"
              /\ j.todo[1] = "snapshot" => i.todo[1] = "unsegmented"
        /\ j.todo # <<>> /\ j.todo[1] \in Based => Len(i.todo) > 1 /\ i.todo[2] \in Based
        /\ Len(j.todo) > 1 /\ j.todo[2] \in Based => i.todo[1] = "base"
    BY <1>1, RestFits
  <1>3. ASSUME NEW S PROVE Ahead(S, i.todo) <=> i.todo[1] \in S \/ Ahead(S, j.todo)
    BY <1>1, RestAhead
  <1>4. ASSUME j.todo # <<>> PROVE Writing(j)
    BY <1>2, <1>4 DEF Writing
  <1>5. ASSUME j.todo # <<>>, j.c \notin clashed PROVE UpToDate(j)
    <2>1. UpToDate(i)
      BY <1>1, <1>5 DEF Sound
    <2>2. j.todo[1] \in Mutations => j.saw = clients[j.c]
      BY <1>2, <1>5
    <2>3. ASSUME j.todo[1] \in Based PROVE j.base = clients[j.c]
      <3>1. j.todo[1] \in Mutations
        BY <2>3 DEF Based, Mutations
      <3>2. i.todo[1] = "config"
        BY <1>2, <1>5, <3>1
      <3>3. i.base = clients[i.c]
        BY <1>2, <1>5, <2>1, <2>3 DEF UpToDate
      <3>4. QED
        BY <3>2, <3>3
    <2>4. Len(j.todo) > 1 /\ j.todo[2] \in Based => j.base = clients[j.c]
      BY <1>2
    <2>5. QED
      BY <2>2, <2>3, <2>4 DEF UpToDate
  <1>6. ASSUME j.todo # <<>>, j.c \notin clashed \cup rebased PROVE Billing(j)
    <2>1. Billing(i)
      BY <1>1, <1>6 DEF Sound
    <2>2. ASSUME Ahead(Entering, j.todo)
          PROVE  /\ i.key = clients[i.c].key /\ j.key = i.key
                 /\ ~Ahead({"detail"}, j.todo) =>
                       /\ j.before.gb <= clients[j.c].gb
                       /\ \A g \in segments : g.c = j.c /\ g.key = j.key => g.to <= j.before.gb
                 /\ ~Ahead({"base"}, j.todo) => (HasSegments(j) => j.known)
      <3>1. Ahead(Entering, i.todo)
        BY <1>3, <2>2
      <3>2. i.key = clients[i.c].key /\ i.todo[1] \in Topping
        BY <1>1, <2>1, <3>1, LastOfThem DEF Billing
      <3>3. j.key = i.key
        BY <3>2
      <3>4. ASSUME ~Ahead({"detail"}, j.todo)
            PROVE  /\ j.before.gb <= clients[j.c].gb
                   /\ \A g \in segments : g.c = j.c /\ g.key = j.key => g.to <= j.before.gb
        <4>1. CASE i.todo[1] = "detail"
          <5>1. j.before.gb <= clients[j.c].gb
            BY <1>1, <4>1 DEF IsRecord
          <5>2. QED
            BY <1>1, <1>6, <3>2, <3>3, <4>1, <5>1 DEF ClientsInv, WithinTotal
        <4>2. CASE i.todo[1] # "detail"
          <5>1. ~Ahead({"detail"}, i.todo)
            BY <1>3, <3>4, <4>2
          <5>2. QED
            BY <2>1, <3>1, <3>3, <4>2, <5>1 DEF Billing
        <4>3. QED
          BY <4>1, <4>2
      <3>5. ASSUME ~Ahead({"base"}, j.todo), HasSegments(j) PROVE j.known
        <4>1. HasSegments(i)
          BY <3>3, <3>5 DEF HasSegments
        <4>2. CASE i.todo[1] = "base"
          BY <4>1, <4>2
        <4>3. CASE i.todo[1] # "base"
          <5>1. ~Ahead({"base"}, i.todo)
            BY <1>3, <3>5, <4>3
          <5>2. QED
            BY <2>1, <3>1, <4>1, <4>3, <5>1 DEF Billing
        <4>4. QED
          BY <4>2, <4>3
      <3>6. QED
        BY <3>2, <3>3, <3>4, <3>5
    <2>3. j.todo[1] = "snapshot" /\ j.record => ~HasSegments(j)
      BY <1>2, <1>6
    <2>4. j.todo[1] # "own"
      BY <1>2, <1>6
    <2>5. QED
      BY <2>2, <2>3, <2>4 DEF Billing
  <1>7. QED
    BY <1>2, <1>4, <1>5, <1>6 DEF Sound

\* A request that goes on to its next call is the same but for that.
LEMMA OnwardFields ==
  ASSUME ClientsInv, NEW r \in Requests, Working(r), NEW i, i = job[r], NEW j, j = Onward(r)
  PROVE  /\ IsJob(j)
         /\ j.todo = Tail(i.todo) /\ j.c = i.c /\ j.actor = i.actor /\ j.key = i.key
         /\ j.fresh = i.fresh /\ j.before = i.before /\ j.known = i.known /\ j.record = i.record
         /\ j.owner = i.owner /\ j.under = i.under /\ j.base = i.base /\ j.saw = i.saw
  <1>1. IsJob(i) /\ i.todo # <<>> /\ i.todo \in Seq(Steps)
    BY ClientTyped DEF Working
  <1>2. j = [i EXCEPT !.todo = Tail(i.todo)] /\ Tail(i.todo) \in Seq(Steps)
    BY <1>1 DEF Onward
  <1>3. /\ j.todo = Tail(i.todo) /\ j.c = i.c /\ j.actor = i.actor /\ j.key = i.key
        /\ j.fresh = i.fresh /\ j.before = i.before /\ j.known = i.known /\ j.record = i.record
        /\ j.owner = i.owner /\ j.under = i.under /\ j.base = i.base /\ j.saw = i.saw
    BY <1>1, <1>2 DEF IsJob
  <1>4. IsJob(j)
    BY <1>1, <1>2, <1>3 DEF IsJob
  <1>5. QED
    BY <1>3, <1>4

\* The calls that need an argument of their own.
Others == Mutations \cup Entering \cup {"create", "config", "detail", "base", "unsegmented"}

\* The other calls bring nothing that is used later;
LEMMA OnwardKeeps ==
  ASSUME ClientsInv, NEW r \in Requests, Working(r), Turns(r, Onward(r)), Rests,
         job[r].todo[1] \notin Others
  PROVE  ClientsInv'
  <1>1. PICK i : i = job[r]
    OBVIOUS
  <1>2. PICK j : j = Onward(r)
    OBVIOUS
  <1>3. /\ IsJob(j) /\ j.todo = Tail(i.todo) /\ j.c = i.c /\ j.key = i.key /\ j.fresh = i.fresh
        /\ j.before = i.before /\ j.known = i.known /\ j.base = i.base /\ j.saw = i.saw
    BY <1>1, <1>2, OnwardFields
  <1>4. Sound(j)
    BY <1>1, <1>3, LookSound DEF Others
  <1>5. Issues(r, j.key) /\ Issues(r, j.saw.key)
    BY <1>1, <1>3, ClientTyped DEF Issues
  <1>6. QED
    BY <1>1, <1>2, <1>3, <1>4, <1>5, LooksKeep

\* they are these.
LEMMA PassesKeep ==
  ASSUME ClientsInv, NEW r \in Requests,
         \/ FindByUuid(r) \/ FindDepleted(r) \/ ReadBack(r) \/ FindAddress(r) \/ CountOwned(r)
         \/ CheckAddress(r) \/ ResetUsage(r) \/ SetOwner(r) \/ SetParent(r) \/ ListAll(r) \/ ListOwned(r)
  PROVE  ClientsInv'
  <1>1. Working(r) /\ Turns(r, Onward(r)) /\ Rests
    <2>1. CASE FindAddress(r) \/ ListAll(r) \/ ListOwned(r)
      BY <2>1 DEF FindAddress, ListAll, ListOwned, ReadsListIfAny, ReadsList, Lists, Reads, Goes, At, Rests,
             panel, rows, ghosts
    <2>2. CASE CountOwned(r)
      BY <2>2 DEF CountOwned, Admits, Lists, Reads, Goes, At, Rests, panel, rows, ghosts
    <2>3. CASE FindByUuid(r) \/ FindDepleted(r) \/ ReadBack(r) \/ CheckAddress(r)
      BY <2>3 DEF FindByUuid, FindDepleted, ReadBack, CheckAddress, Reads, Goes, At, Rests, panel, rows, ghosts
    <2>4. CASE ResetUsage(r) \/ SetOwner(r) \/ SetParent(r)
      BY <2>4 DEF ResetUsage, SetOwner, SetParent, Goes, At, Rests, panel, rows, ghosts
    <2>5. QED
      BY <2>1, <2>2, <2>3, <2>4
  <1>2. job[r].todo[1] \in {"link", "depleted", "read_back", "list", "count", "free", "reset",
                            "own_to", "parent", "list_all", "list_own"}
    BY <1>1, ClientTyped
       DEF FindByUuid, FindDepleted, ReadBack, FindAddress, CountOwned, CheckAddress, ResetUsage,
           SetOwner, SetParent, ListAll, ListOwned, At
  <1>3. job[r].todo[1] \notin Others
    BY <1>2 DEF Others, Mutations, Entering
  <1>4. QED
    BY <1>1, <1>3, OnwardKeeps

\* A request may stop anywhere.
LEMMA FailKeeps ==
  ASSUME ClientsInv, NEW r \in Requests, Fail(r)
  PROVE  ClientsInv'
  <1>1. Working(r) /\ Turns(r, Idle) /\ Rests
    BY DEF Fail, Reads, Goes, Rests, panel, rows, ghosts
  <1>2. Idle.todo = <<>> /\ Issues(r, Idle.key) /\ Issues(r, Idle.saw.key)
    BY DEF Issues, Idle, Gone
  <1>3. QED
    BY <1>1, <1>2, IdleSound, LooksKeep

\* The first read of a client gives what it has before a top-up.
LEMMA DetailKeeps ==
  ASSUME ClientsInv, NEW r \in Requests, Detail(r)
  PROVE  ClientsInv'
  <1>1. PICK i, o, j : i = job[r] /\ o = Onward(r) /\ j = [o EXCEPT !.before = clients[i.c]]
    OBVIOUS
  <1>2. /\ Working(r) /\ i.todo[1] = "detail" /\ Exists(i.c) /\ clients[i.c].key = i.key
        /\ Turns(r, j) /\ Rests /\ IsRecord(clients[i.c])
    BY <1>1, ClientTyped DEF Detail, At, Found, Reads, Goes, Rests, panel, rows, ghosts
  <1>3. /\ IsJob(o) /\ o.todo = Tail(i.todo) /\ o.c = i.c /\ o.key = i.key /\ o.fresh = i.fresh
        /\ o.before = i.before /\ o.known = i.known /\ o.base = i.base /\ o.saw = i.saw
    BY <1>1, <1>2, OnwardFields
  <1>4. /\ IsJob(j) /\ j.todo = o.todo /\ j.c = o.c /\ j.key = o.key /\ j.fresh = o.fresh
        /\ j.before = clients[i.c] /\ j.known = o.known /\ j.base = o.base /\ j.saw = o.saw
    BY <1>1, <1>2, <1>3 DEF IsJob
  <1>5. Sound(j)
    BY ZenonT(40), <1>1, <1>2, <1>3, <1>4, LookSound DEF Mutations, Entering
  <1>6. Issues(r, j.key) /\ Issues(r, j.saw.key)
    BY <1>1, <1>3, <1>4, ClientTyped DEF Issues
  <1>7. QED
    BY <1>1, <1>2, <1>3, <1>4, <1>5, <1>6, LooksKeep

\* A rotation goes on with the uuid that is there.
LEMMA FindByAddressKeeps ==
  ASSUME ClientsInv, NEW r \in Requests, FindByAddress(r)
  PROVE  ClientsInv'
  <1>1. PICK i, o, j : i = job[r] /\ o = Onward(r) /\ j = [o EXCEPT !.key = clients[i.c].key]
    OBVIOUS
  <1>2. /\ Working(r) /\ i.todo[1] = "address" /\ Turns(r, j) /\ Rests /\ IsRecord(clients[i.c])
        /\ clients[i.c].key \in Known
    BY <1>1, ClientTyped DEF FindByAddress, At, Reads, Goes, Rests, panel, rows, ghosts
  <1>3. /\ IsJob(o) /\ o.todo = Tail(i.todo) /\ o.c = i.c /\ o.key = i.key /\ o.fresh = i.fresh
        /\ o.before = i.before /\ o.known = i.known /\ o.base = i.base /\ o.saw = i.saw
    BY <1>1, <1>2, OnwardFields
  <1>4. clients[i.c].key \in Nat
    BY <1>2 DEF IsRecord
  <1>5. /\ IsJob(j) /\ j.todo = o.todo /\ j.c = o.c /\ j.key = clients[i.c].key /\ j.fresh = o.fresh
        /\ j.before = o.before /\ j.known = o.known /\ j.base = o.base /\ j.saw = o.saw
    BY <1>1, <1>3, <1>4 DEF IsJob
  <1>6. Sound(j)
    BY ZenonT(40), <1>1, <1>2, <1>3, <1>5, LookSound DEF Mutations, Entering, Topping
  <1>7. Issues(r, j.key) /\ Issues(r, j.saw.key)
    BY <1>1, <1>2, <1>3, <1>5, ClientTyped DEF Issues
  <1>8. QED
    BY <1>1, <1>2, <1>3, <1>5, <1>6, <1>7, LooksKeep

\* The value to set is worked out from this read, two calls before it is written.
LEMMA ReadBaseKeeps ==
  ASSUME ClientsInv, NEW r \in Requests, ReadBase(r)
  PROVE  ClientsInv'
  <1>1. PICK i, o : i = job[r] /\ o = Onward(r)
    OBVIOUS
  <1>2. PICK under, record, owner, j :
           /\ j = [o EXCEPT !.base = clients[i.c], !.known = HasSegments(i), !.under = under,
                            !.record = record, !.owner = owner]
           /\ Turns(r, j)
    BY <1>1 DEF ReadBase, Reads, Goes
  <1>3. /\ Working(r) /\ i.todo[1] = "base" /\ Rests /\ IsRecord(clients[i.c])
    BY <1>1, ClientTyped DEF ReadBase, At, Reads, Goes, Rests, panel, rows, ghosts
  <1>4. /\ IsJob(o) /\ o.todo = Tail(i.todo) /\ o.c = i.c /\ o.key = i.key /\ o.fresh = i.fresh
        /\ o.before = i.before /\ o.known = i.known /\ o.base = i.base /\ o.saw = i.saw
    BY <1>1, <1>3, OnwardFields
  <1>5. /\ IsJob(j) /\ j.todo = o.todo /\ j.c = o.c /\ j.key = o.key /\ j.fresh = o.fresh
        /\ j.before = o.before /\ j.known = HasSegments(i) /\ j.base = clients[i.c] /\ j.saw = o.saw
    BY <1>2, <1>3, <1>4 DEF IsJob
  <1>6. Sound(j)
    BY <1>1, <1>3, <1>4, <1>5, LookSound DEF Mutations, Entering
  <1>7. Issues(r, j.key) /\ Issues(r, j.saw.key)
    BY <1>1, <1>4, <1>5, ClientTyped DEF Issues
  <1>8. QED
    BY <1>1, <1>2, <1>3, <1>4, <1>5, <1>6, <1>7, LooksKeep

\* The record that is read is the one that is written back by the next call.
LEMMA ReadConfigKeeps ==
  ASSUME ClientsInv, NEW r \in Requests, ReadConfig(r)
  PROVE  ClientsInv'
  <1>1. PICK i, o, j : i = job[r] /\ o = Onward(r) /\ j = [o EXCEPT !.saw = clients[i.c]]
    OBVIOUS
  <1>2. /\ Working(r) /\ i.todo[1] = "config" /\ clients[i.c].key = i.key /\ clients[i.c].key \in Known
        /\ Turns(r, j) /\ Rests /\ IsRecord(clients[i.c])
    BY <1>1, ClientTyped DEF ReadConfig, At, Found, Reads, Goes, Rests, panel, rows, ghosts
  <1>3. /\ IsJob(o) /\ o.todo = Tail(i.todo) /\ o.c = i.c /\ o.key = i.key /\ o.fresh = i.fresh
        /\ o.before = i.before /\ o.known = i.known /\ o.base = i.base /\ o.saw = i.saw
    BY <1>1, <1>2, OnwardFields
  <1>4. /\ IsJob(j) /\ j.todo = o.todo /\ j.c = o.c /\ j.key = o.key /\ j.fresh = o.fresh
        /\ j.before = o.before /\ j.known = o.known /\ j.base = o.base /\ j.saw = clients[i.c]
    BY <1>1, <1>2, <1>3 DEF IsJob
  <1>5. Sound(j)
    BY ZenonT(40), <1>1, <1>2, <1>3, <1>4, LookSound DEF Mutations, Entering
  <1>6. Issues(r, j.key) /\ Issues(r, j.saw.key)
    BY <1>1, <1>2, <1>3, <1>4, ClientTyped DEF Issues
  <1>7. QED
    BY <1>1, <1>2, <1>3, <1>4, <1>5, <1>6, LooksKeep

\* A change of parent begins with nothing read.
LEMMA UpdateCommentsKeeps ==
  ASSUME ClientsInv, NEW r \in Requests, UpdateComments(r)
  PROVE  ClientsInv'
  <1>1. PICK i, o : i = job[r] /\ o = Onward(r)
    OBVIOUS
  <1>2. PICK under, record, j : j = [o EXCEPT !.under = under, !.record = record] /\ Turns(r, j) /\ Rests
    BY <1>1 DEF UpdateComments, ReadsListIfAny, ReadsList, Lists, Reads, Goes, Rests, panel, rows, ghosts
  <1>3. Working(r) /\ i.todo[1] = "comments"
    BY <1>1, ClientTyped DEF UpdateComments, At
  <1>4. /\ IsJob(o) /\ o.todo = Tail(i.todo) /\ o.c = i.c /\ o.key = i.key /\ o.fresh = i.fresh
        /\ o.before = i.before /\ o.known = i.known /\ o.base = i.base /\ o.saw = i.saw
    BY <1>1, <1>3, OnwardFields
  <1>5. /\ IsJob(j) /\ j.todo = o.todo /\ j.c = o.c /\ j.key = o.key /\ j.fresh = o.fresh
        /\ j.before = o.before /\ j.known = o.known /\ j.base = o.base /\ j.saw = o.saw
    BY <1>2, <1>4 DEF IsJob
  <1>6. Sound(j)
    BY <1>1, <1>3, <1>4, <1>5, LookSound DEF Mutations, Entering
  <1>7. Issues(r, j.key) /\ Issues(r, j.saw.key)
    BY <1>1, <1>4, <1>5, ClientTyped DEF Issues
  <1>8. QED
    BY <1>1, <1>2, <1>3, <1>4, <1>5, <1>6, <1>7, LooksKeep

\* A change of parent goes on with the uuid it has found in the list.
LEMMA ListOfChildKeeps ==
  ASSUME ClientsInv, NEW r \in Requests, ListOfChild(r)
  PROVE  ClientsInv'
  <1>1. PICK i, o : i = job[r] /\ o = Onward(r)
    OBVIOUS
  <1>2. /\ Working(r) /\ i.todo[1] = "list_child" /\ Rests /\ IsRecord(clients[i.c])
        /\ clients[i.c].key \in Known /\ i.key \in Known
    BY <1>1, ClientTyped DEF ListOfChild, At, ReadsList, Lists, Reads, Goes, Rests, panel, rows, ghosts
  <1>3. /\ IsJob(o) /\ o.todo = Tail(i.todo) /\ o.c = i.c /\ o.key = i.key /\ o.fresh = i.fresh
        /\ o.before = i.before /\ o.known = i.known /\ o.base = i.base /\ o.saw = i.saw
    BY <1>1, <1>2, OnwardFields
  <1>4. PICK j : /\ Turns(r, j)
                 /\ \/ j = [o EXCEPT !.record = FALSE]
                    \/ \E record : j = [o EXCEPT !.key = clients[i.c].key, !.record = record]
    BY <1>1 DEF ListOfChild, ReadsList, Lists, Reads, Goes
  <1>5. clients[i.c].key \in Nat
    BY <1>2 DEF IsRecord
  <1>6. /\ IsJob(j) /\ j.todo = o.todo /\ j.c = o.c /\ j.key \in {i.key, clients[i.c].key} /\ j.fresh = o.fresh
        /\ j.before = o.before /\ j.known = o.known /\ j.base = o.base /\ j.saw = o.saw
    BY <1>3, <1>4, <1>5 DEF IsJob
  <1>7. Sound(j)
    BY <1>1, <1>2, <1>3, <1>6, LookSound DEF Mutations, Entering, Topping
  <1>8. Issues(r, j.key) /\ Issues(r, j.saw.key)
    BY <1>1, <1>2, <1>3, <1>6, ClientTyped DEF Issues
  <1>9. QED
    BY <1>1, <1>2, <1>3, <1>4, <1>6, <1>7, <1>8, LooksKeep

\* It enters a segment only where it has found none.
LEMMA FindUnsegmentedKeeps ==
  ASSUME ClientsInv, NEW r \in Requests, FindUnsegmented(r)
  PROVE  ClientsInv'
  <1>1. PICK i, o : i = job[r] /\ o = Onward(r)
    OBVIOUS
  <1>2. /\ Working(r) /\ i.todo[1] = "unsegmented" /\ Rests
    BY <1>1, ClientTyped DEF FindUnsegmented, At, Reads, Goes, Rests, panel, rows, ghosts
  <1>3. /\ IsJob(o) /\ o.todo = Tail(i.todo) /\ o.c = i.c /\ o.key = i.key /\ o.fresh = i.fresh
        /\ o.before = i.before /\ o.known = i.known /\ o.base = i.base /\ o.saw = i.saw
    BY <1>1, <1>2, OnwardFields
  <1>4. PICK record, j : /\ j = [o EXCEPT !.record = record] /\ (record => ~HasSegments(i))
                         /\ Turns(r, j)
    BY <1>1 DEF FindUnsegmented, Reads, Goes
  <1>5. /\ IsJob(j) /\ j.todo = o.todo /\ j.c = o.c /\ j.key = o.key /\ j.fresh = o.fresh
        /\ j.before = o.before /\ j.known = o.known /\ j.base = o.base /\ j.saw = o.saw
        /\ j.record = record
    BY <1>3, <1>4 DEF IsJob
  <1>6. j.record => ~HasSegments(j)
    BY <1>3, <1>4, <1>5 DEF HasSegments
  <1>7. Sound(j)
    BY <1>1, <1>2, <1>3, <1>5, <1>6, LookSound DEF Mutations, Entering, Topping
  <1>8. Issues(r, j.key) /\ Issues(r, j.saw.key)
    BY <1>1, <1>3, <1>5, ClientTyped DEF Issues
  <1>9. QED
    BY <1>1, <1>2, <1>3, <1>4, <1>5, <1>7, <1>8, LooksKeep
-------------------------------------------------------------------------------
(* Steps that write a client.                                                    *)

\* What comes after a write has read nothing yet.
LEMMA AfterWrite ==
  ASSUME ClientsInv, NEW r \in Requests, Working(r), NEW i, i = job[r], NEW j, NEW new,
         j.todo = Tail(i.todo), j.c = i.c, j.before = i.before, j.known = i.known,
         i.todo[1] \in Mutations \cup {"delete", "create"},
         clients'[i.c] = new,
         UNCHANGED <<segments, clashed>>, rebased \subseteq rebased',
         i.todo[1] # "create" => j.key = i.key,
         i.todo[1] \in {"add", "gift"} /\ i.c \notin clashed \cup rebased =>
             new.key = clients[i.c].key /\ new.gb \in Nat /\ clients[i.c].gb <= new.gb,
         i.todo[1] = "create" => j.key = new.key /\ new.gb >= 1 /\ ~HasSegments(j)
  PROVE  Sound(j)'
  <1>1. /\ i.todo \in Seq(Steps) /\ i.todo # <<>> /\ Fits(i.todo)
        /\ i.c \in Clients /\ IsRecord(clients[i.c]) /\ IsJob(i)
        /\ Sound(i)
    BY ClientTyped
  <1>2. /\ Fits(j.todo)
        /\ j.todo # <<>> =>
              /\ j.todo[1] \in Mutations => i.todo[1] = "config"
              /\ j.todo[1] = "own" => i.todo[1] = "create"
              /\ j.todo[1] = "snapshot" => i.todo[1] = "unsegmented"
        /\ Len(j.todo) > 1 /\ j.todo[2] \in Based => i.todo[1] = "base"
    BY <1>1, RestFits
  <1>3. ASSUME NEW S PROVE Ahead(S, i.todo) <=> i.todo[1] \in S \/ Ahead(S, j.todo)
    BY <1>1, RestAhead
  <1>4. i.todo[1] \notin {"config", "base", "unsegmented", "detail"}
    BY DEF Mutations
  <1>5. clients'[i.c] = new
    OBVIOUS
  <1>6. ASSUME j.todo # <<>>
        PROVE  /\ j.todo[1] \notin Mutations
               /\ Len(j.todo) > 1 => j.todo[2] \notin Based
               /\ j.todo[1] \notin Based
    BY <1>2, <1>4, <1>6 DEF Based, Mutations
  <1>7. ASSUME j.todo # <<>> PROVE Writing(j)' /\ UpToDate(j)'
    BY <1>6, <1>7 DEF Writing, UpToDate
  <1>8. ASSUME j.todo # <<>>, j.c \notin clashed' \cup rebased' PROVE Billing(j)'
    <2>1. Billing(i) /\ i.c \notin clashed \cup rebased
      BY <1>1, <1>8 DEF Sound
    <2>2. ASSUME Ahead(Entering, j.todo)
          PROVE  /\ j.key = clients'[j.c].key
                 /\ ~Ahead({"detail"}, j.todo) =>
                       /\ j.before.gb <= clients'[j.c].gb
                       /\ \A g \in segments' : g.c = j.c /\ g.key = j.key => g.to <= j.before.gb
                 /\ ~Ahead({"base"}, j.todo) => (HasSegments(j)' => j.known)
      <3>1. Ahead(Entering, i.todo)
        BY <1>3, <2>2
      <3>2. i.key = clients[i.c].key /\ i.todo[1] \in {"add", "gift"}
        <4>1. i.key = clients[i.c].key /\ i.todo[1] \in Topping
          BY <1>1, <2>1, <3>1, LastOfThem DEF Billing
        <4>2. QED
          BY <4>1 DEF Topping, Entering, Mutations
      <3>3. j.key = i.key /\ new.key = clients[i.c].key /\ new.gb \in Nat /\ clients[i.c].gb <= new.gb
        BY <2>1, <3>2
      <3>4. j.key = clients'[j.c].key
        BY <1>5, <3>2, <3>3
      <3>5. ASSUME ~Ahead({"detail"}, j.todo)
            PROVE  /\ j.before.gb <= clients'[j.c].gb
                   /\ \A g \in segments' : g.c = j.c /\ g.key = j.key => g.to <= j.before.gb
        <4>1. ~Ahead({"detail"}, i.todo)
          BY <1>3, <1>4, <3>5
        <4>2. /\ i.before.gb <= clients[i.c].gb
              /\ \A g \in segments : g.c = i.c /\ g.key = i.key => g.to <= i.before.gb
          BY <2>1, <3>1, <4>1 DEF Billing
        <4>3. i.before.gb \in Nat /\ clients[i.c].gb \in Nat
          BY <1>1 DEF IsJob, IsRecord
        <4>4. j.before.gb <= clients'[j.c].gb
          BY <1>5, <3>3, <4>2, <4>3
        <4>5. QED
          BY <3>3, <4>2, <4>4
      <3>6. ASSUME ~Ahead({"base"}, j.todo), HasSegments(j)' PROVE j.known
        <4>1. ~Ahead({"base"}, i.todo) /\ HasSegments(i)
          BY <1>3, <1>4, <3>3, <3>6 DEF HasSegments
        <4>2. QED
          BY <2>1, <3>1, <4>1 DEF Billing
      <3>7. QED
        BY <3>4, <3>5, <3>6
    <2>3. j.todo[1] # "snapshot"
      BY <1>2, <1>4, <1>8
    <2>4. j.todo[1] = "own" => j.key = clients'[j.c].key /\ clients'[j.c].gb >= 1 /\ ~HasSegments(j)'
      BY <1>2, <1>5, <1>8 DEF HasSegments
    <2>5. QED
      BY <2>2, <2>3, <2>4 DEF Billing
  <1>9. QED
    BY <1>2, <1>7, <1>8 DEF Sound

\* One client is set.
Sets(new, old, c, x) ==
    /\ new = [d \in Clients |-> new[d]]
    /\ new[c] = x
    /\ \A d \in Clients : d # c => new[d] = old[d]

\* A step that sets one client, to what the operation amounts to.
LEMMA WritesKeep ==
  ASSUME ClientsInv, NEW r \in Requests, Working(r), NEW c, c = job[r].c, NEW j, NEW new,
         Turns(r, j), IsJob(j), Sound(j)',
         j.todo = Tail(job[r].todo), j.c = job[r].c, j.fresh = job[r].fresh,
         Issues(r, j.key), Issues(r, j.saw.key), Issues(r, new.key),
         IsRecord(new), Sets(clients', clients, c, new),
         UNCHANGED <<load, version, segments, calls, clashed>>, rebased \subseteq rebased',
         NEW total, Sets(due', due, c, total), c \notin clashed => total = new,
         \A x \in retired' : x \in retired \/ (x = <<c, clients[c].key>> /\ Exists(c)),
         version = "legacy" => <<c, new.key>> \notin retired',
         c \notin clashed \cup rebased' /\ new.key > 0 =>
             \A g \in segments : g.c = c /\ g.key = new.key => g.to <= new.gb
  PROVE  ClientsInv'
  <1>1. PICK k : k = IF j.todo = <<>> THEN Idle ELSE j
    OBVIOUS
  <1>2. IsJob(k) /\ job' = [job EXCEPT ![r] = k]
    BY <1>1, IdleSound DEF Turns
  <1>3. Sound(k)'
    <2>1. Sound(Idle)'
      BY IdleSound DEF Sound, Idle
    <2>2. QED
      BY <1>1, <2>1
  <1>4. Issues(r, k.key) /\ Issues(r, k.saw.key)
    BY <1>1 DEF Issues, Idle, Gone
  <1>5. c \in Clients /\ clients'[c] = new /\ \A d \in Clients : d # c => clients'[d] = clients[d]
    BY ClientTyped DEF Sets
  <1>6. due'[c] = total /\ \A d \in Clients : d # c => due'[d] = due[d]
    BY DEF Sets
  <1>7. Step(r, k)
    BY <1>1, <1>2, <1>5, <1>6 DEF Step
  <1>8. Typed'
    <2>1. job' = [q \in Requests |-> job'[q]] /\ \A q \in Requests : IsJob(job'[q])
      BY <1>2 DEF ClientsInv, Typed
    <2>2. clients' = [d \in Clients |-> clients'[d]] /\ \A d \in Clients : IsRecord(clients'[d])
      BY <1>5 DEF ClientsInv, Typed, Sets
    <2>3. \A x \in retired' : x = <<x[1], x[2]>> /\ x[2] \in Nat \ {0}
      <3>1. \A x \in retired : x = <<x[1], x[2]>> /\ x[2] \in Nat \ {0}
        BY DEF ClientsInv, Typed
      <3>2. Exists(c) => clients[c].key \in Nat \ {0}
        BY <1>5 DEF ClientsInv, Typed, Exists, IsRecord
      <3>3. QED
        BY <3>1, <3>2
    <2>4. due' = [d \in Clients |-> due'[d]]
      BY DEF Sets
    <2>5. QED
      BY <2>1, <2>2, <2>3, <2>4 DEF ClientsInv, Typed
  <1>9. WithinTotal'
    <2> SUFFICES ASSUME NEW g \in segments, g.c \in Clients, g.c \notin clashed \cup rebased',
                        Exists(g.c)', g.key = clients'[g.c].key
                 PROVE  g.to <= clients'[g.c].gb
      BY DEF WithinTotal
    <2>1. CASE g.c = c
      BY <1>5, <2>1 DEF Exists
    <2>2. CASE g.c # c
      BY <1>5, <2>2 DEF ClientsInv, WithinTotal, Exists
    <2>3. QED
      BY <2>1, <2>2
  <1>10. UndisturbedEdits'
    BY <1>5, <1>6 DEF ClientsInv, UndisturbedEdits
  <1>11. RotatedKeyStaysDead'
    <2> SUFFICES ASSUME version = "legacy", NEW d \in Clients, <<d, clients'[d].key>> \in retired'
                 PROVE  FALSE
      BY DEF RotatedKeyStaysDead
    <2>1. d # c
      BY <1>5
    <2>2. <<d, clients[d].key>> \in retired \/ <<d, clients[d].key>> = <<c, clients[c].key>>
      BY <1>5, <2>1
    <2>3. QED
      BY <2>1, <2>2 DEF ClientsInv, RotatedKeyStaysDead
  <1>12. BilledOnce'
    BY DEF ClientsInv, BilledOnce
  <1>13. QED
    BY <1>3, <1>4, <1>5, <1>7, <1>8, <1>9, <1>10, <1>11, <1>12, StepKeeps

\* What the mutators change, and what they keep.
Keeps(h, rec, base, fresh, new) ==
    /\ IsRecord(new)
    /\ h = "rotate" => new.key = fresh
    /\ h # "rotate" => new.key = rec.key
    /\ h \in {"add", "gift"} => new.gb = base.gb + 1
    /\ h \notin {"add", "gift", "total"} => new.gb = rec.gb

\* A mutation changes the uuid only when it rotates, and the traffic only when it is about it.
LEMMA ChangedFields ==
  ASSUME NEW h \in Mutations, NEW rec, IsRecord(rec), NEW base, IsRecord(base), NEW j, j.fresh \in Nat,
         NEW new, new = Changed(h, rec, base, j)
  PROVE  Keeps(h, rec, base, j.fresh, new)
  <1> USE DEF IsRecord, Keeps
  <1>1. CASE h \in {"add", "gift"}
    <2>1. PICK n, who, moaf : n = base.gb + 1 /\ new = [rec EXCEPT !.gb = n, !.comment = who, !.moaf = moaf]
      BY <1>1 DEF Changed, AddGb, GiftGb
    <2>2. n \in Nat
      BY <2>1
    <2>3. new.gb = n /\ new.key = rec.key /\ IsRecord(new)
      BY <2>1, <2>2
    <2>4. QED
      BY <1>1, <2>1, <2>3
  <1>3. CASE h = "extend"
    BY <1>3 DEF Changed, ExtendDays
  <1>4. CASE h = "toggle"
    BY <1>4 DEF Changed, Toggle
  <1>5. CASE h = "total"
    BY <1>5 DEF Changed, TotalGb
  <1>6. CASE h = "days"
    BY <1>6 DEF Changed, ExpiryDays
  <1>7. CASE h = "limit"
    BY <1>7 DEF Changed, LimitIp
  <1>8. CASE h = "tg"
    BY <1>8 DEF Changed, TgId
  <1>9. CASE h = "rotate"
    BY <1>9 DEF Changed, NewUuid
  <1>10. QED
    BY <1>1, <1>3, <1>4, <1>5, <1>6, <1>7, <1>8, <1>9 DEF Mutations

\* Only these mutations look at the first read.
LEMMA ChangedAlone ==
  ASSUME NEW h \in Mutations \ Based, NEW rec, NEW base, NEW other, NEW j
  PROVE  Changed(h, rec, base, j) = Changed(h, rec, other, j)
  <1>1. h \in {"total", "days", "limit", "tg", "rotate"}
    BY DEF Mutations, Based
  <1>2. QED
    BY <1>1 DEF Changed

\* The record that is written back is the client as it is, but for the change.
LEMMA WriteClientKeeps ==
  ASSUME ClientsInv, NEW r \in Requests, WriteClient(r)
  PROVE  ClientsInv'
  <1>1. PICK i, j, c, h : i = job[r] /\ j = Onward(r) /\ c = i.c /\ h = i.todo[1]
    OBVIOUS
  <1>2. /\ Working(r) /\ Head(i.todo) = h /\ h \in Mutations /\ Reaches(r) /\ Turns(r, j)
        /\ UNCHANGED <<load, version, segments, calls, clashed>>
    BY <1>1, ClientTyped DEF WriteClient, Goes, rows
  <1>3. PICK new : /\ new = Changed(h, i.saw, i.base, i)
                   /\ Sets(clients', clients, c, new)
                   /\ retired' = IF new.key # clients[c].key THEN retired \cup {<<c, clients[c].key>>}
                                 ELSE retired
    BY <1>1, <1>2, ClientTyped DEF WriteClient, Payload, Sets, ClientsInv, Typed
  <1>4. PICK total : total = Changed(h, due[c], due[c], i) /\ Sets(due', due, c, total)
    BY <1>1, <1>2, ClientTyped DEF WriteClient, Sets, ClientsInv, Typed
  <1>5. rebased' = IF h = "total" THEN rebased \cup {c} ELSE rebased
    BY <1>1, <1>2 DEF WriteClient
  <1>6. /\ IsJob(i) /\ Sound(i) /\ c \in Clients /\ IsRecord(clients[c])
        /\ i.todo # <<>> /\ i.saw.key \in Known /\ i.key \in Known
    BY <1>1, <1>2, ClientTyped
  <1>7. IsRecord(i.saw) /\ IsRecord(i.base) /\ i.fresh \in Nat
    BY <1>6 DEF IsJob
  <1>8. /\ IsRecord(new)
        /\ h = "rotate" => new.key = i.fresh
        /\ h # "rotate" => new.key = i.saw.key
        /\ h \in {"add", "gift"} => new.gb = i.base.gb + 1
        /\ h \notin {"add", "gift", "total"} => new.gb = i.saw.gb
    <2>1. Keeps(h, i.saw, i.base, i.fresh, new)
      BY <1>2, <1>3, <1>7, ChangedFields
    <2>2. QED
      BY <2>1 DEF Keeps
  <1>9. /\ IsJob(j) /\ j.todo = Tail(i.todo) /\ j.c = i.c /\ j.key = i.key /\ j.fresh = i.fresh
        /\ j.before = i.before /\ j.known = i.known /\ j.base = i.base /\ j.saw = i.saw
    BY <1>1, <1>2, OnwardFields
  <1>10. Exists(c) /\ (version = "legacy" => clients[c].key = i.key)
    BY <1>1, <1>2 DEF Reaches, Found
  <1>11. i.saw.key = i.key
    BY <1>1, <1>2, <1>6 DEF Sound, Writing
  <1>12. c \notin clashed => i.saw = clients[c] /\ (h \in Based => i.base = clients[c])
    BY <1>1, <1>2, <1>6 DEF Sound, UpToDate
  <1>13. h = "rotate" => i.fresh > 0 /\ i.fresh \notin Known
    <2>1. h = "rotate" => Ahead(Issuing, i.todo)
      BY <1>1, <1>6, RestAhead DEF IsJob, Issuing
    <2>2. QED
      BY <1>1, <2>1 DEF ClientsInv, FreshKeys
  <1>14. c \notin clashed => total = new
    <2>1. SUFFICES ASSUME c \notin clashed PROVE total = new
      OBVIOUS
    <2>2. due[c] = i.saw
      BY <1>6, <1>12, <2>1 DEF ClientsInv, UndisturbedEdits
    <2>3. CASE h \in Based
      BY <1>3, <1>4, <1>12, <2>1, <2>2, <2>3
    <2>4. CASE h \notin Based
      BY <1>2, <1>3, <1>4, <2>2, <2>4, ChangedAlone
    <2>5. QED
      BY <2>3, <2>4
  <1>15. c \notin clashed \cup rebased' =>
            /\ clients[c].gb <= new.gb
            /\ h # "rotate" => new.key = clients[c].key
    <2>1. SUFFICES ASSUME c \notin clashed \cup rebased'
                   PROVE  clients[c].gb <= new.gb /\ (h # "rotate" => new.key = clients[c].key)
      OBVIOUS
    <2>2. h # "total" /\ i.saw = clients[c] /\ clients[c].gb \in Nat
      BY <1>5, <1>6, <1>12, <2>1 DEF IsRecord
    <2>3. CASE h \in {"add", "gift"}
      BY <1>8, <1>12, <2>1, <2>2, <2>3 DEF Based
    <2>4. CASE h \notin {"add", "gift"}
      BY <1>8, <2>2, <2>4
    <2>5. QED
      BY <2>3, <2>4
  <1>16. rebased \subseteq rebased' /\ (h # "total" => rebased' = rebased)
    BY <1>5
  <1>17. Sound(j)'
    <2>1. h # "create" /\ h \in Mutations \cup {"delete", "create"}
      BY <1>2 DEF Mutations
    <2>2. new.gb \in Nat
      BY <1>8 DEF IsRecord
    <2>3. h \in {"add", "gift"} /\ i.c \notin clashed \cup rebased =>
             new.key = clients[i.c].key /\ new.gb \in Nat /\ clients[i.c].gb <= new.gb
      BY <1>1, <1>15, <1>16, <2>2
    <2>4. QED
      BY <1>1, <1>2, <1>3, <1>9, <1>16, <2>1, <2>3, AfterWrite DEF Sets
  <1>18. Issues(r, j.key) /\ Issues(r, j.saw.key) /\ Issues(r, new.key)
    BY <1>1, <1>6, <1>8, <1>9 DEF Issues, Issuing
  <1>19. \A x \in retired' : x \in retired \/ (x = <<c, clients[c].key>> /\ Exists(c))
    BY <1>3, <1>10
  <1>20. version = "legacy" => <<c, new.key>> \notin retired'
    <2>1. SUFFICES ASSUME version = "legacy" PROVE <<c, new.key>> \notin retired'
      OBVIOUS
    <2>2. CASE h = "rotate"
      <3>1. <<c, i.fresh>> \notin retired
        BY <1>13, <2>2 DEF Known
      <3>2. i.fresh # clients[c].key
        BY <1>6, <1>13, <2>2 DEF Known
      <3>3. QED
        BY <1>3, <1>8, <2>2, <3>1, <3>2
    <2>3. CASE h # "rotate"
      <3>1. new.key = clients[c].key
        BY <1>8, <1>10, <1>11, <2>1, <2>3
      <3>2. <<c, clients[c].key>> \notin retired
        BY <1>6, <2>1 DEF ClientsInv, RotatedKeyStaysDead
      <3>3. QED
        BY <1>3, <3>1, <3>2
    <2>4. QED
      BY <2>2, <2>3
  <1>21. c \notin clashed \cup rebased' /\ new.key > 0 =>
             \A g \in segments : g.c = c /\ g.key = new.key => g.to <= new.gb
    <2> SUFFICES ASSUME c \notin clashed \cup rebased', NEW g \in segments, g.c = c, g.key = new.key
                 PROVE  g.to <= new.gb
      OBVIOUS
    <2>1. h # "rotate"
      BY <1>8, <1>13 DEF Known
    <2>2. g.to <= clients[c].gb
      BY <1>6, <1>10, <1>15, <1>16, <2>1 DEF ClientsInv, WithinTotal
    <2>3. g.to \in Nat /\ clients[c].gb \in Nat /\ new.gb \in Nat
      BY <1>6, <1>8 DEF ClientsInv, Typed, IsSegment, IsRecord
    <2>4. QED
      BY <1>15, <2>2, <2>3
  <1>22. /\ Sets(clients', clients, c, new) /\ Sets(due', due, c, total)
         /\ IsRecord(new)
    BY <1>3, <1>4, <1>8
  <1>23. QED
    BY <1>1, <1>2, <1>9, <1>14, <1>16, <1>17, <1>18, <1>19, <1>20, <1>21, <1>22, WritesKeep

\* The uuid of a deleted client is retired, and nobody has the uuid of a client that is gone.
LEMMA DeleteKeeps ==
  ASSUME ClientsInv, NEW r \in Requests, Delete(r)
  PROVE  ClientsInv'
  <1>1. PICK i, j, c : i = job[r] /\ j = Onward(r) /\ c = i.c
    OBVIOUS
  <1>2. /\ Working(r) /\ i.todo[1] = "delete" /\ Reaches(r) /\ Turns(r, j)
        /\ UNCHANGED <<load, version, segments, calls, clashed, rebased>>
        /\ Sets(clients', clients, c, Gone) /\ Sets(due', due, c, Gone)
        /\ retired' = retired \cup {<<c, clients[c].key>>}
    BY <1>1, ClientTyped DEF Delete, At, Goes, rows, Sets, ClientsInv, Typed
  <1>3. Exists(c) /\ c \in Clients /\ IsRecord(clients[c])
    BY <1>1, <1>2, ClientTyped DEF Reaches, Found
  <1>4. IsRecord(Gone) /\ Gone.key = 0
    BY DEF IsRecord, Gone
  <1>5. /\ IsJob(j) /\ j.todo = Tail(i.todo) /\ j.c = i.c /\ j.key = i.key /\ j.fresh = i.fresh
        /\ j.before = i.before /\ j.known = i.known /\ j.base = i.base /\ j.saw = i.saw
    BY <1>1, <1>2, OnwardFields
  <1>6. Sound(j)'
    BY <1>1, <1>2, <1>5, AfterWrite DEF Mutations, Sets
  <1>7. Issues(r, j.key) /\ Issues(r, j.saw.key) /\ Issues(r, Gone.key)
    BY <1>1, <1>4, <1>5, ClientTyped DEF Issues
  <1>8. \A x \in retired' : x \in retired \/ (x = <<c, clients[c].key>> /\ Exists(c))
    BY <1>2, <1>3
  <1>9. <<c, Gone.key>> \notin retired'
    BY <1>2, <1>3, <1>4 DEF ClientsInv, Typed, Exists
  <1>10. QED
    BY <1>1, <1>2, <1>4, <1>5, <1>6, <1>7, <1>8, <1>9, WritesKeep

\* A new client has a uuid that nobody knows, so it has no segments.
LEMMA AddClientKeeps ==
  ASSUME ClientsInv, NEW r \in Requests, AddClient(r)
  PROVE  ClientsInv'
  <1>1. PICK i, o, j, c : i = job[r] /\ o = Onward(r) /\ j = [o EXCEPT !.key = i.fresh] /\ c = i.c
    OBVIOUS
  <1>2. /\ Working(r) /\ i.todo[1] = "create" /\ Turns(r, j)
        /\ UNCHANGED <<load, version, segments, calls, clashed, rebased, retired>>
    BY <1>1, ClientTyped DEF AddClient, At, Goes, rows
  <1>3. PICK new, who : /\ new = Client(who, i.fresh)
                        /\ Sets(clients', clients, c, new) /\ Sets(due', due, c, new)
    BY <1>1, <1>2, ClientTyped DEF AddClient, Sets, ClientsInv, Typed
  <1>4. IsJob(i) /\ i.todo \in Seq(Steps) /\ i.todo # <<>> /\ i.fresh \in Nat
    BY <1>1, <1>2, ClientTyped DEF IsJob
  <1>5. IsRecord(new) /\ new.key = i.fresh /\ new.gb = 1
    BY <1>3, <1>4 DEF IsRecord, Client
  <1>6. /\ IsJob(o) /\ o.todo = Tail(i.todo) /\ o.c = i.c /\ o.fresh = i.fresh
        /\ o.before = i.before /\ o.known = i.known /\ o.base = i.base /\ o.saw = i.saw
    BY <1>1, <1>2, OnwardFields
  <1>7. /\ IsJob(j) /\ j.todo = o.todo /\ j.c = o.c /\ j.key = i.fresh /\ j.fresh = o.fresh
        /\ j.before = o.before /\ j.known = o.known /\ j.saw = o.saw
    BY <1>1, <1>4, <1>6 DEF IsJob
  <1>8. i.fresh > 0 /\ i.fresh \notin Known
    <2>1. Ahead(Issuing, i.todo)
      BY <1>2, <1>4, RestAhead DEF Issuing
    <2>2. QED
      BY <1>1, <2>1 DEF ClientsInv, FreshKeys
  <1>9. \A g \in segments : g.key # i.fresh
    BY <1>8 DEF Known
  <1>10. Sound(j)'
    <2>1. ~HasSegments(j)
      BY <1>7, <1>9 DEF HasSegments
    <2>2. /\ j.todo = Tail(i.todo) /\ j.c = i.c /\ j.before = i.before /\ j.known = i.known
          /\ i.todo[1] \in Mutations \cup {"delete", "create"}
          /\ i.todo[1] \notin {"add", "gift"}
          /\ j.key = new.key /\ new.gb >= 1
          /\ clients'[i.c] = new
      BY <1>1, <1>2, <1>3, <1>5, <1>6, <1>7 DEF Sets
    <2>3. UNCHANGED <<segments, clashed>> /\ rebased \subseteq rebased'
      BY <1>2
    <2>4. QED
      BY <1>1, <1>2, <2>1, <2>2, <2>3, AfterWrite
  <1>11. Issues(r, j.key) /\ Issues(r, j.saw.key) /\ Issues(r, new.key)
    BY <1>1, <1>2, <1>5, <1>6, <1>7, ClientTyped DEF Issues, Issuing
  <1>12. <<c, new.key>> \notin retired'
    BY <1>2, <1>5, <1>8 DEF Known
  <1>13. /\ j.todo = Tail(i.todo) /\ j.c = i.c /\ j.fresh = i.fresh
         /\ rebased \subseteq rebased' /\ \A x \in retired' : x \in retired
         /\ \A g \in segments : g.key # new.key
    BY <1>2, <1>5, <1>6, <1>7, <1>9
  <1>14. QED
    BY <1>1, <1>2, <1>3, <1>5, <1>7, <1>10, <1>11, <1>12, <1>13, WritesKeep
-------------------------------------------------------------------------------
(* Steps that enter segments.                                                    *)

\* A segment for the client and the uuid of a request.
Row(j, from, to, bill) == [c |-> j.c, key |-> j.key, from |-> from, to |-> to, bill |-> bill]

\* The row that a segment is.
LEMMA SegmentFields ==
  ASSUME NEW j, j.key \in Nat, NEW from \in Nat, NEW to \in Nat, NEW bill, NEW g \in Segment(j, from, to, bill)
  PROVE  /\ IsSegment(g) /\ g.c = j.c /\ g.key = j.key /\ g.from = from /\ g.to = to
         /\ g = Row(j, from, to, bill)
  BY DEF Segment, IsSegment, Row

\* Two segments bill nothing twice.
NoOverlap(g, h) == g.to <= h.from \/ h.to <= g.from

\* Rows for the client and the uuid of a request,
RowsOf(i, extra) == \A g \in extra : IsSegment(g) /\ g.c = i.c /\ g.key = i.key

\* which go together with those that are there, and with what the client has.
Together(i, extra) ==
    /\ i.key = clients[i.c].key => \A g \in extra : g.to <= clients[i.c].gb
    /\ \A g \in extra, h \in segments : h.c = i.c /\ h.key = i.key => NoOverlap(g, h)
    /\ \A g, h \in extra : g.bill /\ h.bill /\ g # h => NoOverlap(g, h)

\* A step that enters such rows.
EntersRows(r, i, extra) ==
    /\ Working(r) /\ i = job[r] /\ Turns(r, Onward(r)) /\ segments' = segments \cup extra
    /\ UNCHANGED <<load, version, clients, calls, due, clashed, rebased, retired>>
    /\ i.todo[1] \in Entering \cup {"own", "snapshot"}
    /\ RowsOf(i, extra)
    /\ i.c \notin clashed \cup rebased => Together(i, extra)

\* Such a step bills nothing twice.
LEMMA EntersKeep ==
  ASSUME ClientsInv, NEW r \in Requests, NEW i, NEW extra, EntersRows(r, i, extra)
  PROVE  ClientsInv'
  <1>0. /\ Working(r) /\ i = job[r] /\ Turns(r, Onward(r)) /\ segments' = segments \cup extra
        /\ UNCHANGED <<load, version, clients, calls, due, clashed, rebased, retired>>
        /\ i.todo[1] \in Entering \cup {"own", "snapshot"}
        /\ \A g \in extra : IsSegment(g) /\ g.c = i.c /\ g.key = i.key
    BY DEF EntersRows, RowsOf
  <1>1. PICK j, k : j = Onward(r) /\ k = IF j.todo = <<>> THEN Idle ELSE j
    OBVIOUS
  <1>2. /\ IsJob(j) /\ j.todo = Tail(i.todo) /\ j.c = i.c /\ j.key = i.key /\ j.fresh = i.fresh
        /\ j.saw = i.saw
    BY <1>0, <1>1, OnwardFields
  <1>3. /\ i.todo \in Seq(Steps) /\ i.todo # <<>> /\ Fits(i.todo)
        /\ i.c \in Clients /\ i.key \in Known /\ i.saw.key \in Known /\ clients[i.c].key \in Known
    BY <1>0, ClientTyped
  <1>4. IsJob(k) /\ job' = [job EXCEPT ![r] = k]
    BY <1>0, <1>1, <1>2, IdleSound DEF Turns
  <1>5. Issues(r, k.key) /\ Issues(r, k.saw.key) /\ Issues(r, clients'[job[r].c].key)
    BY <1>0, <1>1, <1>2, <1>3 DEF Issues, Idle, Gone
  <1>6. Step(r, k)
    BY <1>0, <1>1, <1>2, <1>4 DEF Step
  <1>7. Typed'
    <2>1. job' = [q \in Requests |-> job'[q]] /\ \A q \in Requests : IsJob(job'[q])
      BY <1>0, <1>4 DEF ClientsInv, Typed
    <2>2. \A g \in segments' : IsSegment(g)
      BY <1>0 DEF ClientsInv, Typed
    <2>3. QED
      BY <1>0, <2>1, <2>2 DEF ClientsInv, Typed
  <1>8. Sound(k)'
    <2>1. CASE k = Idle
      BY <2>1, IdleSound DEF Sound, Idle
    <2>2. CASE k # Idle
      <3>1. k = j /\ j.todo # <<>>
        BY <1>1, <2>2
      <3>2. i.todo[1] \in {"own", "snapshot"}
        BY <1>0, <1>2, <1>3, <3>1, LastOfThem
      <3>3. /\ Fits(j.todo)
            /\ j.todo[1] \in Mutations => i.todo[1] = "config"
            /\ j.todo[1] = "own" => i.todo[1] = "create"
            /\ j.todo[1] = "snapshot" => i.todo[1] = "unsegmented"
            /\ Len(j.todo) > 1 /\ j.todo[2] \in Based => i.todo[1] = "base"
        BY <1>2, <1>3, <3>1, RestFits
      <3>4. ~Ahead(Entering, j.todo)
        <4>1. Ahead(Entering, j.todo) => Ahead(Entering, i.todo)
          BY <1>2, <1>3, RestAhead
        <4>2. Ahead(Entering, i.todo) => i.todo[1] \in Topping
          BY <1>3, LastOfThem
        <4>3. QED
          BY <3>2, <4>1, <4>2 DEF Topping, Entering
      <3>5. /\ j.todo[1] \notin Mutations \cup {"own", "snapshot"}
            /\ j.todo[1] \notin Based
            /\ Len(j.todo) > 1 => j.todo[2] \notin Based
        BY <3>2, <3>3 DEF Based, Mutations
      <3>6. QED
        BY <3>1, <3>3, <3>4, <3>5 DEF Sound, Writing, UpToDate, Billing
    <2>3. QED
      BY <2>1, <2>2
  <1>9. WithinTotal'
    <2> SUFFICES ASSUME NEW g \in segments', g.c \in Clients, g.c \notin clashed \cup rebased,
                        Exists(g.c), g.key = clients[g.c].key
                 PROVE  g.to <= clients[g.c].gb
      BY <1>0 DEF WithinTotal, Exists
    <2>1. CASE g \in segments
      BY <2>1 DEF ClientsInv, WithinTotal
    <2>2. CASE g \in extra
      BY <1>0, <2>2 DEF EntersRows, Together
    <2>3. QED
      BY <1>0, <2>1, <2>2
  <1>10. UndisturbedEdits' /\ RotatedKeyStaysDead'
    BY <1>0 DEF ClientsInv, UndisturbedEdits, RotatedKeyStaysDead
  <1>11. BilledOnce'
    <2> SUFFICES ASSUME NEW g \in segments', NEW h \in segments', g.bill, h.bill,
                        g.c \notin clashed \cup rebased, g.c = h.c, g.key = h.key, g # h
                 PROVE  NoOverlap(g, h)
      BY <1>0 DEF BilledOnce, NoOverlap
    <2>1. CASE g \in segments /\ h \in segments
      BY <2>1 DEF ClientsInv, BilledOnce, NoOverlap
    <2>2. CASE g \in extra /\ h \in segments
      BY <1>0, <2>2 DEF EntersRows, Together
    <2>3. CASE g \in segments /\ h \in extra
      <3>1. NoOverlap(h, g)
        BY <1>0, <2>3 DEF EntersRows, Together
      <3>2. QED
        BY <3>1 DEF NoOverlap
    <2>4. CASE g \in extra /\ h \in extra
      BY <1>0, <2>4 DEF EntersRows, Together
    <2>5. QED
      BY <1>0, <2>1, <2>2, <2>3, <2>4
  <1>12. QED
    BY <1>5, <1>6, <1>7, <1>8, <1>9, <1>10, <1>11, StepKeeps

\* The segments of a top-up: what was there before the first one, and what was added.
LEMMA EnterSegmentsKeeps ==
  ASSUME ClientsInv, NEW r \in Requests, EnterSegments(r)
  PROVE  ClientsInv'
  <1>1. PICK i, now, gift : i = job[r] /\ now = clients[i.c].gb /\ gift = At(r, "enter_gift")
    OBVIOUS
  <1>2. PICK extra : extra = TopUpSegments(i, now, gift) /\ segments' = segments \cup extra
    BY <1>1 DEF EnterSegments
  <1>3. /\ Working(r) /\ i.todo[1] \in Entering /\ Turns(r, Onward(r))
        /\ UNCHANGED <<load, version, clients, calls, due, clashed, rebased, retired>>
        /\ i.todo \in Seq(Steps) /\ i.todo # <<>> /\ Fits(i.todo) /\ Sound(i) /\ IsJob(i)
        /\ IsRecord(clients[i.c])
    BY <1>1, ClientTyped DEF EnterSegments, At, Entering, Goes, panel, ghosts
  <1>4. i.key \in Nat /\ now \in Nat /\ i.before.gb \in Nat
    BY <1>1, <1>3 DEF IsJob, IsRecord
  <1>5. PICK first, then, of, on : /\ InitialSegment(i, gift) = Segment(i, 0, i.before.gb, first)
                                   /\ then = ~gift
                                   /\ of = Row(i, 0, i.before.gb, first)
                                   /\ on = Row(i, i.before.gb, now, then)
    BY DEF InitialSegment
  <1>6. \A g \in extra : /\ IsSegment(g) /\ g.c = i.c /\ g.key = i.key
                         /\ \/ g = of /\ g.from = 0 /\ g.to = i.before.gb /\ ~i.known
                            \/ g = on /\ g.from = i.before.gb /\ g.to = now
    <2> SUFFICES ASSUME NEW g \in extra
                 PROVE  /\ IsSegment(g) /\ g.c = i.c /\ g.key = i.key
                        /\ \/ g = of /\ g.from = 0 /\ g.to = i.before.gb /\ ~i.known
                           \/ g = on /\ g.from = i.before.gb /\ g.to = now
      OBVIOUS
    <2>1. \/ ~i.known /\ g \in Segment(i, 0, i.before.gb, first)
          \/ g \in Segment(i, i.before.gb, now, then)
      BY <1>2, <1>5 DEF TopUpSegments
    <2>2. CASE ~i.known /\ g \in Segment(i, 0, i.before.gb, first)
      BY <1>4, <1>5, <2>2, SegmentFields
    <2>3. CASE g \in Segment(i, i.before.gb, now, then)
      BY <1>4, <1>5, <2>3, SegmentFields
    <2>4. QED
      BY <2>1, <2>2, <2>3
  <1>7. ASSUME i.c \notin clashed \cup rebased PROVE Together(i, extra)
    <2>1. Ahead(Entering, i.todo)
      BY <1>3, RestAhead
    <2>2. ~Ahead({"detail"}, i.todo) /\ ~Ahead({"base"}, i.todo)
      <3>1. Tail(i.todo) = <<>>
        BY <1>3, LastOfThem
      <3>2. \A S : ~Ahead(S, <<>>)
        BY DEF Ahead
      <3>3. i.todo[1] # "detail" /\ i.todo[1] # "base"
        BY <1>3 DEF Entering
      <3>4. QED
        BY <1>3, <3>1, <3>2, <3>3, RestAhead
    <2>3. /\ i.before.gb <= now
          /\ \A g \in segments : g.c = i.c /\ g.key = i.key => g.to <= i.before.gb
          /\ HasSegments(i) => i.known
      BY <1>1, <1>3, <1>7, <2>1, <2>2 DEF Sound, Billing
    <2>4. \A g \in extra : g.to <= now
      BY <1>4, <1>6, <2>3
    <2>5. ASSUME NEW g \in extra, NEW h \in segments, h.c = i.c, h.key = i.key PROVE NoOverlap(g, h)
      <3>1. i.known /\ h.to <= i.before.gb
        BY <2>3, <2>5 DEF HasSegments
      <3>2. g.from = i.before.gb
        BY <1>6, <3>1
      <3>3. QED
        BY <3>1, <3>2 DEF NoOverlap
    <2>6. ASSUME NEW g \in extra, NEW h \in extra, g # h PROVE NoOverlap(g, h)
      BY <1>4, <1>6, <2>6 DEF NoOverlap
    <2>7. QED
      BY <1>1, <2>4, <2>5, <2>6 DEF Together
  <1>8. EntersRows(r, i, extra)
    BY <1>1, <1>2, <1>3, <1>6, <1>7 DEF EntersRows, RowsOf
  <1>9. QED
    BY <1>8, EntersKeep

\* A new client has no segments; at most one of its first two is billed.
LEMMA OwnClientKeeps ==
  ASSUME ClientsInv, NEW r \in Requests, OwnClient(r)
  PROVE  ClientsInv'
  <1>1. PICK i, paid, free : i = job[r] /\ paid = Segment(i, 0, 1, TRUE) /\ free = Segment(i, 0, 1, FALSE)
    OBVIOUS
  <1>2. PICK a : a \subseteq paid
                 /\ a = IF lastParent[i.actor] # NoOwner /\ parent[i.actor] # NoOwner THEN paid ELSE {}
    OBVIOUS
  <1>3. PICK b : b \subseteq free
                 /\ b = IF lastParent[i.actor] # NoOwner /\ lastParent[i.actor] # parent[i.actor]
                         THEN free ELSE {}
    OBVIOUS
  <1>4. PICK extra : extra = a \cup b /\ segments' = segments \cup extra
    <2>1. segments' = segments \cup a \cup b
      BY <1>1, <1>2, <1>3 DEF OwnClient
    <2>2. segments' = segments \cup (a \cup b)
      BY <2>1
    <2>3. QED
      BY <2>2
  <1>5. /\ Working(r) /\ i.todo[1] = "own" /\ Turns(r, Onward(r))
        /\ UNCHANGED <<load, version, clients, calls, due, clashed, rebased, retired>>
        /\ i.todo # <<>> /\ Sound(i) /\ IsJob(i) /\ IsRecord(clients[i.c])
    BY <1>1, ClientTyped DEF OwnClient, At, Goes, panel, ghosts
  <1>6. i.key \in Nat /\ clients[i.c].gb \in Nat
    BY <1>5 DEF IsJob, IsRecord
  <1>7. \A g \in extra : /\ IsSegment(g) /\ g.c = i.c /\ g.key = i.key /\ g.to = 1
                         /\ g = Row(i, 0, 1, TRUE) \/ g = Row(i, 0, 1, FALSE)
    <2>1. ASSUME NEW g \in paid PROVE IsSegment(g) /\ g.c = i.c /\ g.key = i.key /\ g.to = 1 /\ g = Row(i, 0, 1, TRUE)
      BY <1>1, <1>6, <2>1 DEF Segment, IsSegment, Row
    <2>2. ASSUME NEW g \in free PROVE IsSegment(g) /\ g.c = i.c /\ g.key = i.key /\ g.to = 1 /\ g = Row(i, 0, 1, FALSE)
      BY <1>1, <1>6, <2>2 DEF Segment, IsSegment, Row
    <2>3. QED
      BY <1>2, <1>3, <1>4, <2>1, <2>2
  <1>8. Row(i, 0, 1, FALSE).bill = FALSE
    BY DEF Row
  <1>9. \A g, h \in extra : g.bill /\ h.bill => g = h
    BY <1>7, <1>8
  <1>10. ASSUME i.c \notin clashed \cup rebased PROVE Together(i, extra)
    <2>1. ~HasSegments(i) /\ 1 <= clients[i.c].gb
      BY <1>5, <1>6, <1>10 DEF Sound, Billing
    <2>2. \A h \in segments : ~(h.c = i.c /\ h.key = i.key)
      BY <2>1 DEF HasSegments
    <2>3. QED
      BY <1>7, <1>9, <2>1, <2>2 DEF Together
  <1>11. EntersRows(r, i, extra)
    BY <1>1, <1>4, <1>5, <1>7, <1>10 DEF EntersRows, RowsOf
  <1>12. QED
    BY <1>11, EntersKeep

\* A client gets its segment with a change of parent only when it had none.
LEMMA SnapshotClientKeeps ==
  ASSUME ClientsInv, NEW r \in Requests, SnapshotClient(r)
  PROVE  ClientsInv'
  <1>1. PICK i, n, all : i = job[r] /\ n = clients[i.c].gb /\ all = Segment(i, 0, n, TRUE)
    OBVIOUS
  <1>2. PICK extra : segments' = segments \cup extra /\ extra \subseteq all /\ (extra # {} => i.record)
    BY <1>1 DEF SnapshotClient
  <1>3. /\ Working(r) /\ i.todo[1] = "snapshot" /\ Turns(r, Onward(r))
        /\ UNCHANGED <<load, version, clients, calls, due, clashed, rebased, retired>>
        /\ i.todo # <<>> /\ Sound(i) /\ IsJob(i) /\ IsRecord(clients[i.c])
    BY <1>1, ClientTyped DEF SnapshotClient, At, Goes, panel, ghosts
  <1>4. i.key \in Nat /\ n \in Nat
    BY <1>1, <1>3 DEF IsJob, IsRecord
  <1>5. \A g \in extra : IsSegment(g) /\ g.c = i.c /\ g.key = i.key /\ g.to = n /\ g = Row(i, 0, n, TRUE)
    <2> SUFFICES ASSUME NEW g \in extra
                 PROVE  IsSegment(g) /\ g.c = i.c /\ g.key = i.key /\ g.to = n /\ g = Row(i, 0, n, TRUE)
      OBVIOUS
    <2>1. QED
      BY <1>1, <1>2, <1>4 DEF Segment, IsSegment, Row
  <1>6. ASSUME i.c \notin clashed \cup rebased PROVE Together(i, extra)
    <2>1. extra # {} => ~HasSegments(i)
      BY <1>2, <1>3, <1>6 DEF Sound, Billing
    <2>2. extra # {} => \A h \in segments : ~(h.c = i.c /\ h.key = i.key)
      BY <2>1 DEF HasSegments
    <2>3. \A g \in extra : g.to <= clients[i.c].gb
      <3>1. n <= n /\ clients[i.c].gb = n
        BY <1>1, <1>4
      <3>2. \A g \in extra : g.to = n
        BY <1>5
      <3>3. QED
        BY <3>1, <3>2
    <2>4. \A g, h \in extra : g = h
      BY <1>5
    <2>5. QED
      BY <2>2, <2>3, <2>4 DEF Together
  <1>7. EntersRows(r, i, extra)
    BY <1>1, <1>2, <1>3, <1>5, <1>6 DEF EntersRows, RowsOf
  <1>8. QED
    BY <1>7, EntersKeep
-------------------------------------------------------------------------------
(* A new request, and a client that is used up.                                  *)

\* A request begins sound: nothing is read, entered or written before it is looked for.
LEMMA BeginsSound ==
  ASSUME NEW j, Whole(j.todo), j.key = clients[j.c].key
  PROVE  Sound(j)
  <1>1. /\ Fits(j.todo) /\ j.todo[1] \notin Mutations \cup {"own", "snapshot"}
        /\ Len(j.todo) > 1 => j.todo[2] \notin Based
        /\ Ahead(Entering, j.todo) => Ahead({"detail"}, j.todo) /\ Ahead({"base"}, j.todo)
    BY DEF Whole
  <1>2. Writing(j)
    BY <1>1 DEF Writing
  <1>3. UpToDate(j)
    BY <1>1 DEF UpToDate, Based, Mutations
  <1>4. Billing(j)
    BY <1>1 DEF Billing
  <1>5. QED
    BY <1>1, <1>2, <1>3, <1>4 DEF Sound

\* A request brings a new uuid; one that comes to a client another is at work on is noted.
LEMMA StartKeeps ==
  ASSUME ClientsInv, NEW r \in Requests, NEW op \in load.ops, NEW c \in load.on, NEW a \in Admins,
         Start(r, op, c, a)
  PROVE  ClientsInv'
  <1>1. op \in Operations /\ c \in Clients
    BY ClientsAssumption DEF ClientsInv, Typed
  <1>1a. PICK plan \in Plans(op) :
           job' = [job EXCEPT ![r] = [Idle EXCEPT !.todo = plan, !.c = c, !.actor = a, !.fresh = calls',
                                                  !.key = clients[c].key]]
    BY DEF Start
  <1>2. PICK j :
           /\ j = [Idle EXCEPT !.todo = plan, !.c = c, !.actor = a, !.fresh = calls + 1,
                               !.key = clients[c].key]
           /\ job' = [job EXCEPT ![r] = j]
    <2>1. calls' = calls + 1
      BY DEF Start
    <2>2. QED
      BY <1>1a, <2>1
  <1>3. /\ ~Working(r) /\ calls' = calls + 1 /\ clashed \subseteq clashed'
        /\ (\E q \in Requests \ {r} : Working(q) /\ job[q].c = c) => c \in clashed'
        /\ UNCHANGED <<load, version, clients, segments, due, rebased, retired>>
    BY DEF Start, panel, rows
  <1>4. Whole(plan) /\ plan \in Seq(Steps) /\ plan # <<>>
    BY <1>1, PlansWhole DEF Whole
  <1>5. calls \in Nat /\ calls + 1 \in Nat /\ IsRecord(clients[c]) /\ clients[c].key \in Nat
    BY <1>1 DEF ClientsInv, Typed, IsRecord
  <1>6. /\ IsJob(j)
        /\ j.todo = plan /\ j.c = c /\ j.fresh = calls + 1 /\ j.key = clients[c].key /\ j.saw.key = 0
    <2>1. IsRecord(Gone) /\ Gone.key = 0
      BY DEF IsRecord, Gone
    <2>2. j.todo = plan /\ j.c = c /\ j.fresh = calls + 1 /\ j.key = clients[c].key /\ j.saw = Gone
      BY <1>2 DEF Idle
    <2>3. IsJob(j)
      BY <1>1, <1>2, <1>4, <1>5, <2>1 DEF Idle, IsJob
    <2>4. QED
      BY <2>1, <2>2, <2>3
  <1>7. job'[r] = j /\ \A q \in Requests : q # r => job'[q] = job[q]
    BY <1>2 DEF ClientsInv, Typed
  <1>8. Typed'
    <2>1. job' = [q \in Requests |-> job'[q]] /\ \A q \in Requests : IsJob(job'[q])
      BY <1>2, <1>6 DEF ClientsInv, Typed
    <2>2. calls' \in Nat \ {0}
      BY <1>3, <1>5
    <2>3. QED
      BY <1>3, <2>1, <2>2 DEF ClientsInv, Typed
  <1>9. FreshKeys'
    <2>1. \A k \in Known' : k \in Known \cup {0}
      <3>1. clients[c].key \in Known
        BY <1>1 DEF Known
      <3>2. \A q \in Requests : job[q].key \in Known /\ job[q].saw.key \in Known
        BY DEF Known
      <3>3. \A q \in Requests : job'[q].key \in Known /\ job'[q].saw.key \in Known \cup {0}
        BY <1>6, <1>7, <3>1, <3>2
      <3>4. QED
        BY <1>3, <3>3 DEF Known
    <2>2. \A k \in Known : k <= calls
      BY DEF ClientsInv, FreshKeys
    <2>3. \A k \in Known' : k <= calls' /\ k # calls + 1
      <3>1. \A k \in Known : k \in Int
        BY DEF ClientsInv, Typed, Known, IsRecord, IsJob, IsSegment
      <3>2. QED
        BY <1>3, <1>5, <2>1, <2>2, <3>1
    <2>4. \A q \in Requests : job[q].fresh \in Nat /\ job[q].fresh <= calls
      BY DEF ClientsInv, Typed, IsJob, FreshKeys
    <2>5. \A q \in Requests : job'[q].fresh <= calls'
      <3>1. SUFFICES ASSUME NEW q \in Requests PROVE job'[q].fresh <= calls'
        OBVIOUS
      <3>2. CASE q = r
        BY <1>3, <1>5, <1>6, <1>7, <3>2
      <3>3. CASE q # r
        BY <1>3, <1>5, <1>7, <2>4, <3>3
      <3>4. QED
        BY <3>2, <3>3
    <2>6. ASSUME NEW q \in Requests, Ahead(Issuing, job'[q].todo)
          PROVE  job'[q].fresh > 0 /\ job'[q].fresh \notin Known'
      <3>1. CASE q = r
        BY <1>5, <1>6, <1>7, <2>3, <3>1
      <3>2. CASE q # r
        <4>1. job[q].fresh > 0 /\ job[q].fresh \notin Known /\ job'[q] = job[q]
          BY <1>7, <2>6, <3>2 DEF ClientsInv, FreshKeys
        <4>2. QED
          BY <2>1, <4>1
      <3>3. QED
        BY <3>1, <3>2
    <2>7. ASSUME NEW p \in Requests, NEW q \in Requests, p # q, Working(p)', Working(q)'
          PROVE  job'[p].fresh # job'[q].fresh
      <3>1. CASE p = r
        BY <1>5, <1>6, <1>7, <2>4, <2>7, <3>1
      <3>2. CASE q = r
        BY <1>5, <1>6, <1>7, <2>4, <2>7, <3>2
      <3>3. CASE p # r /\ q # r
        BY <1>7, <2>7, <3>3 DEF ClientsInv, FreshKeys, Working
      <3>4. QED
        BY <3>1, <3>2, <3>3
    <2>8. QED
      BY <2>3, <2>5, <2>6, <2>7 DEF FreshKeys
  <1>10. Alone'
    <2> SUFFICES ASSUME NEW p \in Requests, NEW q \in Requests, p # q,
                        Working(p)', Working(q)', job'[p].c = job'[q].c
                 PROVE  job'[p].c \in clashed'
      BY DEF Alone
    <2>1. CASE p = r
      BY <1>3, <1>6, <1>7, <2>1 DEF Working
    <2>2. CASE q = r
      BY <1>3, <1>6, <1>7, <2>2 DEF Working
    <2>3. CASE p # r /\ q # r
      BY <1>3, <1>7, <2>3 DEF ClientsInv, Alone, Working
    <2>4. QED
      BY <2>1, <2>2, <2>3
  <1>11. ASSUME NEW q \in Requests PROVE Sound(job[q])'
    <2>1. CASE q = r
      <3>1. Sound(j)
        BY <1>4, <1>6, BeginsSound
      <3>2. Sound(j)'
        BY <1>3, <3>1 DEF Sound, Writing, UpToDate, Billing, HasSegments
      <3>3. QED
        BY <1>7, <2>1, <3>2
    <2>2. CASE q # r
      <3>1. PICK i : i = job[q]
        OBVIOUS
      <3>2. Sound(i)
        BY <3>1 DEF ClientsInv
      <3>3. Sound(i)'
        BY <1>3, <3>2 DEF Sound, Writing, UpToDate, Billing, HasSegments
      <3>4. QED
        BY <1>7, <2>2, <3>1, <3>3
    <2>3. QED
      BY <2>1, <2>2
  <1>12. WithinTotal' /\ UndisturbedEdits' /\ RotatedKeyStaysDead' /\ BilledOnce'
    BY <1>3 DEF ClientsInv, WithinTotal, UndisturbedEdits, RotatedKeyStaysDead, BilledOnce, Exists
  <1>13. QED
    BY <1>8, <1>9, <1>10, <1>11, <1>12 DEF ClientsInv

\* Steps that leave all of it as it is.
LEMMA SameKeeps ==
  ASSUME ClientsInv, UNCHANGED <<load, version, clients, segments, job, calls, due, clashed, rebased, retired>>
  PROVE  ClientsInv'
  <1>1. Typed' /\ FreshKeys' /\ Alone'
    BY DEF ClientsInv, Typed, FreshKeys, Alone, Known, Working
  <1>2. \A r \in Requests : Sound(job[r])'
    BY DEF ClientsInv, Sound, Writing, UpToDate, Billing, HasSegments
  <1>3. WithinTotal' /\ UndisturbedEdits' /\ RotatedKeyStaysDead' /\ BilledOnce'
    BY DEF ClientsInv, WithinTotal, UndisturbedEdits, RotatedKeyStaysDead, BilledOnce, Exists
  <1>4. QED
    BY <1>1, <1>2, <1>3 DEF ClientsInv
-------------------------------------------------------------------------------
(* The theorems.                                                                 *)

\* At the start there are no requests and no segments.
LEMMA InitClients == ClientsInit => ClientsInv
  <1> SUFFICES ASSUME ClientsInit PROVE ClientsInv
    OBVIOUS
  <1>1. /\ load \in Loads /\ segments = {} /\ calls = 1 /\ due = clients /\ retired = {}
        /\ job = [r \in Requests |-> Idle]
        /\ clients \in [Clients -> {Gone, Client(NoOwner, 1)}]
    BY DEF ClientsInit
  <1>2. /\ IsRecord(Gone) /\ Gone.key = 0
        /\ IsRecord(Client(NoOwner, 1)) /\ Client(NoOwner, 1).key = 1
    BY DEF IsRecord, Gone, Client
  <1>3. \A c \in Clients : IsRecord(clients[c]) /\ clients[c].key \in {0, 1}
    BY <1>1, <1>2
  <1>4. \A r \in Requests : job[r] = Idle
    BY <1>1
  <1>5. Idle.todo = <<>> /\ Idle.key = 0 /\ Idle.fresh = 0 /\ Idle.saw.key = 0
    BY DEF Idle, Gone
  <1>6. Typed
    BY <1>1, <1>3, IdleSound DEF Typed
  <1>7. FreshKeys
    <2>1. \A k \in Known : k \in {0, 1}
      BY <1>1, <1>3, <1>4, <1>5 DEF Known
    <2>2. \A r \in Requests : ~Ahead(Issuing, job[r].todo) /\ ~Working(r)
      BY <1>4, <1>5 DEF Ahead, Working
    <2>3. QED
      BY <1>1, <1>4, <1>5, <2>1, <2>2 DEF FreshKeys
  <1>8. Alone
    BY <1>4, <1>5 DEF Alone, Working
  <1>9. \A r \in Requests : Sound(job[r])
    BY <1>4, IdleSound
  <1>10. WithinTotal /\ UndisturbedEdits /\ RotatedKeyStaysDead /\ BilledOnce
    BY <1>1 DEF WithinTotal, UndisturbedEdits, RotatedKeyStaysDead, BilledOnce
  <1>11. QED
    BY <1>6, <1>7, <1>8, <1>9, <1>10 DEF ClientsInv

\* Every step keeps the invariant.
LEMMA NextClients == ClientsInv /\ [ClientsNext]_clientVars => ClientsInv'
  <1> SUFFICES ASSUME ClientsInv, [ClientsNext]_clientVars PROVE ClientsInv'
    OBVIOUS
  <1>1. CASE UNCHANGED clientVars
    BY <1>1, SameKeeps DEF clientVars, panel, rows, ghosts
  <1>2. ASSUME NEW c \in Clients, Use(c) PROVE ClientsInv'
    BY <1>2, SameKeeps DEF Use, rows, ghosts
  <1>2a. ASSUME NEW r \in Requests, SyncOwner(r) PROVE ClientsInv'
    BY <1>2a, SameKeeps DEF SyncOwner, panel, ghosts
  <1>3. ASSUME NEW r \in Requests, NEW op \in load.ops, NEW c \in load.on, NEW a \in Admins,
               Start(r, op, c, a)
        PROVE  ClientsInv'
    BY <1>3, StartKeeps
  <1>4. ASSUME NEW r \in Requests,
               \/ Detail(r) \/ FindByAddress(r) \/ ReadBase(r) \/ ReadConfig(r) \/ ListOfChild(r)
               \/ UpdateComments(r) \/ FindUnsegmented(r) \/ Fail(r)
        PROVE  ClientsInv'
    BY <1>4, DetailKeeps, FindByAddressKeeps, ReadBaseKeeps, ReadConfigKeeps, ListOfChildKeeps,
       UpdateCommentsKeeps, FindUnsegmentedKeeps, FailKeeps
  <1>5. ASSUME NEW r \in Requests,
               \/ FindByUuid(r) \/ FindDepleted(r) \/ ReadBack(r) \/ FindAddress(r) \/ CountOwned(r)
               \/ CheckAddress(r) \/ ResetUsage(r) \/ SetOwner(r) \/ SetParent(r) \/ ListAll(r) \/ ListOwned(r)
        PROVE  ClientsInv'
    BY <1>5, PassesKeep
  <1>6. ASSUME NEW r \in Requests, WriteClient(r) \/ Delete(r) \/ AddClient(r) PROVE ClientsInv'
    BY <1>6, WriteClientKeeps, DeleteKeeps, AddClientKeeps
  <1>7. ASSUME NEW r \in Requests, EnterSegments(r) \/ OwnClient(r) \/ SnapshotClient(r) PROVE ClientsInv'
    BY <1>7, EnterSegmentsKeeps, OwnClientKeeps, SnapshotClientKeeps
  <1>8. QED
    BY <1>1, <1>2, <1>2a, <1>3, <1>4, <1>5, <1>6, <1>7 DEF ClientsNext

\* The calls that the requests have left, what they have read, and the segments that are there
\* fit together at every moment.
THEOREM ClientsInvariant == ClientsSpec => []ClientsInv
  BY InitClients, NextClients, PTL DEF ClientsSpec

\* A client that no two requests are at work on at once is what the operations on it amount to,
\* every field of it, however many requests there are: the record a mutation writes back was
\* read by the request right before (_update_client_by_mutation), and the value that is worked
\* out from the first read stands two calls after it.
THEOREM ClientsUndisturbed == ClientsSpec => []UndisturbedEdits
  <1>1. ClientsInv => UndisturbedEdits
    BY DEF ClientsInv
  <1>2. QED
    BY <1>1, ClientsInvariant, PTL

\* On a legacy panel no edit brings back a uuid that was rotated or deleted, even when requests
\* overlap: the panel finds the client by its uuid, so what is written back has the uuid that
\* is there, and a uuid that is given out is new.
THEOREM ClientsKeysStayDead == ClientsSpec => []RotatedKeyStaysDead
  <1>1. ClientsInv => RotatedKeyStaysDead
    BY DEF ClientsInv
  <1>2. QED
    BY <1>1, ClientsInvariant, PTL

\* The traffic of a client that one request at a time is at work on is billed once, for any
\* sequence of top-ups, gifts, rotations, deletions, changes of owner and of parent: what a
\* top-up enters (_add_client_total_gb_for_ref) begins where the segments end.
THEOREM ClientsBilledOnce == ClientsSpec => []BilledOnce
  <1>1. ClientsInv => BilledOnce
    BY DEF ClientsInv
  <1>2. QED
    BY <1>1, ClientsInvariant, PTL
-------------------------------------------------------------------------------
(* The quota.  An admin has the clients that are there under the uuids it was    *)
(* admitted for, and those it may get by a record that was read and is going to  *)
(* be written back.  Where no gift puts another name into a comment, each of     *)
(* them is in the list the quota is checked against, or belongs to a request at  *)
(* work.  The rows, which every listing may rewrite, have no part in it.         *)

\* A creation after the count, while its client is to be made, and to its end.
Pending == {<<"free", "create", "own">>, <<"create", "own">>}
Later == Pending \cup {<<"own">>}
Creating == {"count", "free", "create", "own"}

\* A creation reads no record, a change of parent is for an admin that may have one, and a
\* value is worked out from a read of the client with the uuid of the request.
Ordered(j) ==
    /\ Ahead(Creating, j.todo) => j.todo \in Later \cup {CreateClient} /\ j.saw.key = 0
    /\ ~Ahead({"gift"}, j.todo)
    /\ Ahead({"parent"}, j.todo) => Parents[j.actor] # NoOwner
    /\ (j.todo # <<>> /\ j.todo[1] \in Based) \/ (Len(j.todo) > 1 /\ j.todo[2] \in Based) =>
          j.base.key = j.key

\* An admin that may have no parent has none.
Rooted == /\ parent = [a \in Admins |-> parent[a]]
          /\ \A a \in Admins : Parents[a] = NoOwner => parent[a] = NoOwner

\* The uuids of first reads; one that is yet to be given out is not among them.
Noted == {job[r].base.key : r \in Requests}
OldKeys == /\ \A k \in Noted : k \in Nat /\ k <= calls
           /\ \A r \in Requests : Ahead(Issuing, job[r].todo) => job[r].fresh \notin Noted

\* A uuid that an admin is admitted for was promised to a request; until the client is there,
\* that is a creation of the admin.
Admitted(k, a) == <<k, a>> \in admitted
Tickets ==
    /\ \A k, a : Admitted(k, a) => k \in Nat \ {0} /\ k <= calls
    /\ \A r \in Requests : \A a : Ahead(Issuing, job[r].todo) /\ Admitted(job[r].fresh, a) =>
           job[r].todo \in Pending /\ job[r].actor = a

\* The records of a client: those that may be written back with their uuid, and all of them.
Held(c) == {clients[c]} \cup {job[q].saw : q \in {x \in Requests : job[x].c = c}}
Records(c) == Held(c) \cup {job[q].base : q \in {x \in Requests : job[x].c = c}}

\* The name of the admin is in the comment, wherever the uuid is met.
Signed ==
    \A c \in Clients, a \in Admins : Parents[a] = NoOwner =>
        \A rec \in Records(c) : rec.key # 0 /\ Admitted(rec.key, a) => rec.comment = a

\* The clients an admin has or may get back, and its creations past the quota.
Claimed(a) == {c \in Clients : \E rec \in Held(c) : rec.key # 0 /\ Admitted(rec.key, a)}
Creators(a) == {r \in Requests : job[r].todo \in Pending /\ Admitted(job[r].fresh, a)}
WithinQuota ==
    \A a \in Admins : Parents[a] = NoOwner =>
        Cardinality(Claimed(a)) + Cardinality(Creators(a)) <= MaxClients + Cardinality(Requests) - 1

QuotaParts == /\ \A r \in Requests : Ordered(job[r])
              /\ Rooted
              /\ OldKeys
              /\ Tickets
              /\ Signed
              /\ WithinQuota

QuotaInv == "gift" \notin load.ops => QuotaParts
-------------------------------------------------------------------------------
\* Request i goes on to its next call as j: which call reads what.
GoesOn(i, j) ==
    /\ j.todo = Tail(i.todo) /\ j.c = i.c /\ j.actor = i.actor /\ j.fresh = i.fresh
    /\ i.todo[1] # "config" => j.saw = i.saw
    /\ i.todo[1] = "base" => j.base.key = i.key
    /\ i.todo[1] # "base" => j.base = i.base
    /\ i.todo[1] \notin {"address", "create", "list_child"} => j.key = i.key

\* How a creation goes on, call by call.
LEMMA CreationCalls ==
  /\ CreateClient[1] = "count" /\ Tail(CreateClient) = <<"free", "create", "own">>
  /\ Tail(<<"free", "create", "own">>) = <<"create", "own">>
  /\ Tail(<<"create", "own">>) = <<"own">> /\ Tail(<<"own">>) = <<>>
  /\ <<"free", "create", "own">>[1] = "free" /\ <<"create", "own">>[1] = "create" /\ <<"own">>[1] = "own"
  /\ CreateClient \notin Later
  /\ \A todo \in Later : Ahead(Creating, todo)
  /\ \A S : ~Ahead(S, <<>>)
  /\ ~Ahead(Issuing, <<"own">>)
  <1>1. /\ CreateClient[1] = "count" /\ Tail(CreateClient) = <<"free", "create", "own">>
        /\ Tail(<<"free", "create", "own">>) = <<"create", "own">>
        /\ Tail(<<"create", "own">>) = <<"own">> /\ Tail(<<"own">>) = <<>>
        /\ <<"free", "create", "own">>[1] = "free" /\ <<"create", "own">>[1] = "create" /\ <<"own">>[1] = "own"
    BY DEF CreateClient
  <1>2. ASSUME NEW todo \in Later PROVE 1 \in 1..Len(todo) /\ todo[1] \in Creating \ {"count"}
    <2>1. CASE todo = <<"free", "create", "own">>
      BY <2>1 DEF Creating
    <2>2. CASE todo = <<"create", "own">>
      BY <2>2 DEF Creating
    <2>3. CASE todo = <<"own">>
      BY <2>3 DEF Creating
    <2>4. QED
      BY <1>2, <2>1, <2>2, <2>3 DEF Later, Pending
  <1>3. CreateClient \notin Later
    BY <1>1, <1>2
  <1>4. \A todo \in Later : Ahead(Creating, todo)
    BY <1>2 DEF Ahead
  <1>5. \A S : ~Ahead(S, <<>>)
    BY DEF Ahead
  <1>6. ~Ahead(Issuing, <<"own">>)
    BY DEF Ahead, Issuing
  <1>7. QED
    BY <1>1, <1>3, <1>4, <1>5, <1>6

\* The rest of a creation is one; what is not ahead of an operation is not ahead of its rest.
LEMMA OrderedRest ==
  ASSUME NEW i, NEW j, Ordered(i), i.todo \in Seq(Steps), i.todo # <<>>, Fits(i.todo),
         GoesOn(i, j)
  PROVE  Ordered(j)
  <1> USE DEF GoesOn
  <1>1. ASSUME NEW S PROVE Ahead(S, i.todo) <=> i.todo[1] \in S \/ Ahead(S, j.todo)
    BY RestAhead
  <1>2. ASSUME Ahead(Creating, j.todo) PROVE j.todo \in Later /\ j.saw.key = 0
    <2>1. i.todo \in Later \cup {CreateClient} /\ i.saw.key = 0
      BY <1>1, <1>2 DEF Ordered
    <2>2. i.todo \in {CreateClient, <<"free", "create", "own">>, <<"create", "own">>, <<"own">>}
      BY <2>1 DEF Later, Pending
    <2>3. j.todo \in Later
      BY <1>2, <2>2, CreationCalls DEF Later, Pending
    <2>4. i.todo[1] # "config"
      BY <2>2, CreationCalls
    <2>5. QED
      BY <2>1, <2>3, <2>4
  <1>3. ~Ahead({"gift"}, j.todo) /\ (Ahead({"parent"}, j.todo) => Parents[j.actor] # NoOwner)
    BY <1>1 DEF Ordered
  <1>4. /\ j.todo # <<>> =>
              /\ j.todo[1] \in Mutations => i.todo[1] = "config"
        /\ j.todo # <<>> /\ j.todo[1] \in Based => Len(i.todo) > 1 /\ i.todo[2] \in Based
        /\ Len(j.todo) > 1 /\ j.todo[2] \in Based => i.todo[1] = "base"
    BY RestFits
  <1>5. ASSUME j.todo # <<>>, j.todo[1] \in Based PROVE j.base.key = j.key
    <2>1. i.todo[1] = "config" /\ Len(i.todo) > 1 /\ i.todo[2] \in Based
      BY <1>4, <1>5 DEF Based, Mutations
    <2>2. i.base.key = i.key
      BY <2>1 DEF Ordered
    <2>3. QED
      BY <2>1, <2>2
  <1>6. ASSUME Len(j.todo) > 1, j.todo[2] \in Based PROVE j.base.key = j.key
    BY <1>4, <1>6
  <1>7. QED
    BY <1>2, <1>3, <1>5, <1>6 DEF Ordered

\* A uuid that a request gives out.
NewKey(r, k) == Ahead(Issuing, job[r].todo) /\ k = job[r].fresh

\* A record like one of these.
Alike(recs, rec) == \E o \in recs : o.key = rec.key /\ o.comment = rec.comment

\* Request r stands at j, and of the clients only c may have changed.
Moves(r, j, c) == /\ job' = [job EXCEPT ![r] = j]
                  /\ \A d \in Clients : d # c => clients'[d] = clients[d]

\* What it has read, and what it has made of the client.
Copies(r, j, c) ==
    /\ j.saw.key = 0 \/ (j.c = c /\ j.saw \in Held(c))
    /\ j.base.key = 0 \/ (j.c = c /\ j.base \in Records(c))
    /\ \/ clients'[c].key = 0
       \/ NewKey(r, clients'[c].key)
       \/ Alike(Records(c), clients'[c]) /\ \E h \in Held(c) : h.key = clients'[c].key

\* The records there are after a step were there before, but for a uuid that is given out.
LEMMA CopiesKept ==
  ASSUME Typed, NEW r \in Requests, NEW j, NEW c \in Clients, Moves(r, j, c), Copies(r, j, c), NEW d \in Clients
  PROVE  /\ \A rec \in Held(d)' : \/ rec.key = 0 \/ \E h \in Held(d) : h.key = rec.key
                                  \/ NewKey(r, rec.key) /\ d = c /\ rec = clients'[c]
         /\ \A rec \in Records(d)' : \/ rec.key = 0 \/ Alike(Records(d), rec)
                                     \/ NewKey(r, rec.key) /\ d = c /\ rec = clients'[c]
  <1>1. job'[r] = j /\ \A q \in Requests : q # r => job'[q] = job[q]
    BY DEF Moves, Typed
  <1>2. \A rec \in Held(d) : rec \in Records(d) /\ Alike(Records(d), rec)
    BY DEF Records, Alike
  <1>3. \A rec \in Records(d) : Alike(Records(d), rec)
    BY DEF Alike
  <1>4. \/ clients'[d].key = 0 \/ (clients'[d] \in Held(d))
        \/ (d = c /\ NewKey(r, clients'[d].key))
        \/ (Alike(Records(d), clients'[d]) /\ \E h \in Held(d) : h.key = clients'[d].key)
    <2>1. CASE d = c
      BY <2>1 DEF Copies
    <2>2. CASE d # c
      BY <2>2 DEF Moves, Held
    <2>3. QED
      BY <2>1, <2>2
  <1>5. ASSUME NEW q \in Requests, job'[q].c = d
        PROVE  /\ job'[q].saw.key = 0 \/ job'[q].saw \in Held(d)
               /\ job'[q].base.key = 0 \/ job'[q].base \in Records(d)
    <2>1. CASE q = r
      BY <1>1, <1>5, <2>1 DEF Copies
    <2>2. CASE q # r
      BY <1>1, <1>5, <2>2 DEF Held, Records
    <2>3. QED
      BY <2>1, <2>2
  <1>6. ASSUME NEW rec \in Held(d)'
        PROVE  rec = clients'[d] \/ rec.key = 0 \/ rec \in Held(d)
    BY <1>5, <1>6 DEF Held
  <1>7. ASSUME NEW rec \in Records(d)'
        PROVE  rec = clients'[d] \/ rec.key = 0 \/ rec \in Records(d)
    BY <1>2, <1>5, <1>6, <1>7 DEF Records
  <1>8. ASSUME NEW rec \in Held(d)'
        PROVE  \/ rec.key = 0 \/ \E h \in Held(d) : h.key = rec.key
               \/ NewKey(r, rec.key) /\ d = c /\ rec = clients'[c]
    BY <1>4, <1>6, <1>8
  <1>9. ASSUME NEW rec \in Records(d)'
        PROVE  \/ rec.key = 0 \/ Alike(Records(d), rec)
               \/ NewKey(r, rec.key) /\ d = c /\ rec = clients'[c]
    <2>1. rec = clients'[d] \/ rec.key = 0 \/ Alike(Records(d), rec)
      BY <1>3, <1>7, <1>9
    <2>2. ASSUME rec = clients'[d] PROVE rec.key = 0 \/ Alike(Records(d), rec) \/ (NewKey(r, rec.key) /\ d = c)
      BY <1>2, <1>4, <2>2
    <2>3. QED
      BY <2>1, <2>2
  <1>10. QED
    BY <1>8, <1>9

\* The uuid that is given out is nobody's, and only a creation is admitted for it.
LEMMA NewKeyOpen ==
  ASSUME ClientsInv, OldKeys, Tickets, NEW r \in Requests, NEW k, NewKey(r, k)
  PROVE  /\ k \notin Known /\ k \notin Noted /\ k > 0
         /\ \A a : Admitted(k, a) => job[r].todo \in Pending /\ job[r].actor = a
         /\ \A c \in Clients : \A rec \in Records(c) : rec.key # k
         /\ \A c \in Clients : clients[c].key # k
  <1>1. k \notin Known /\ k \notin Noted /\ k > 0
    BY DEF NewKey, ClientsInv, FreshKeys, OldKeys
  <1>2. \A a : Admitted(k, a) => job[r].todo \in Pending /\ job[r].actor = a
    BY DEF NewKey, Tickets
  <1>3. \A q \in Requests : job[q].key # k /\ job[q].saw.key # k /\ job[q].base.key # k
    BY <1>1 DEF Known, Noted
  <1>4. \A c \in Clients : clients[c].key # k
    BY <1>1 DEF Known
  <1>5. QED
    BY <1>1, <1>2, <1>3, <1>4 DEF Records, Held

\* A step that makes no client by a creation.
MakesNone(r) == job[r].todo \notin Pending \/ UNCHANGED clients

\* What is met of an admitted uuid after such a step was met before.
LEMMA AdmittedMet ==
  ASSUME ClientsInv, OldKeys, Tickets, NEW r \in Requests, NEW j, NEW c \in Clients,
         Moves(r, j, c), Copies(r, j, c), MakesNone(r), NEW d \in Clients, NEW a
  PROVE  /\ \A rec \in Held(d)' : rec.key # 0 /\ Admitted(rec.key, a) => \E h \in Held(d) : h.key = rec.key
         /\ \A rec \in Records(d)' : rec.key # 0 /\ Admitted(rec.key, a) => Alike(Records(d), rec)
  <1>1. ASSUME NEW rec, NewKey(r, rec.key), rec = clients'[c], Admitted(rec.key, a) PROVE FALSE
    <2>1. clients[c].key # rec.key /\ job[r].todo \in Pending
      BY <1>1, NewKeyOpen
    <2>2. QED
      BY <1>1, <2>1 DEF MakesNone
  <1>2. QED
    BY <1>1, CopiesKept DEF ClientsInv

\* No new admin in a comment, and nobody gets a client.
LEMMA SignedKept ==
  ASSUME ClientsInv, OldKeys, Tickets, NEW r \in Requests, NEW j, NEW c \in Clients,
         Moves(r, j, c), Copies(r, j, c), MakesNone(r), UNCHANGED admitted
  PROVE  /\ Signed => Signed'
         /\ \A a : Claimed(a)' \subseteq Claimed(a)
  <1>1. \A k, a : Admitted(k, a)' <=> Admitted(k, a)
    BY DEF Admitted
  <1>2. ASSUME Signed, NEW d \in Clients, NEW a \in Admins, Parents[a] = NoOwner,
               NEW rec \in Records(d)', rec.key # 0, Admitted(rec.key, a)
        PROVE  rec.comment = a
    <2>1. Alike(Records(d), rec)
      BY <1>2, AdmittedMet
    <2>2. QED
      BY <1>2, <2>1 DEF Alike, Signed
  <1>3. ASSUME NEW a, NEW d \in Clients, NEW rec \in Held(d)', rec.key # 0, Admitted(rec.key, a)
        PROVE  d \in Claimed(a)
    <2>1. \E h \in Held(d) : h.key = rec.key
      BY <1>3, AdmittedMet
    <2>2. QED
      BY <1>3, <2>1 DEF Claimed
  <1>4. Signed => Signed'
    BY <1>1, <1>2 DEF Signed
  <1>5. \A a : Claimed(a)' \subseteq Claimed(a)
    BY <1>1, <1>3 DEF Claimed
  <1>6. QED
    BY <1>4, <1>5

\* The uuids that are known are not beyond those that were given out.
LEMMA KnownBounded ==
  ASSUME ClientsInv
  PROVE  \A k \in Known : k \in Nat /\ k <= calls
  <1>1. \A k \in Known : k \in Nat
    BY DEF ClientsInv, Typed, Known, IsRecord, IsJob, IsSegment
  <1>2. QED
    BY <1>1 DEF ClientsInv, FreshKeys

\* What is noted anew was known; what is yet to be given out stays so.
LEMMA OldKeysKept ==
  ASSUME ClientsInv, OldKeys, NEW r \in Requests, NEW j, job' = [job EXCEPT ![r] = j],
         Ahead(Issuing, j.todo) => Ahead(Issuing, job[r].todo) /\ j.fresh = job[r].fresh,
         UNCHANGED calls,
         j.base.key \in Known \cup Noted \cup {0}
  PROVE  OldKeys'
  <1>1. job'[r] = j /\ \A q \in Requests : q # r => job'[q] = job[q]
    BY DEF ClientsInv, Typed
  <1>2. \A k \in Noted' : k \in Known \cup Noted \cup {0}
    BY <1>1 DEF Noted
  <1>3. calls \in Nat
    BY DEF ClientsInv, Typed
  <1>4. \A k \in Noted' : k \in Nat /\ k <= calls'
    BY <1>2, <1>3, KnownBounded DEF OldKeys
  <1>5. \A q \in Requests : Ahead(Issuing, job'[q].todo) =>
            Ahead(Issuing, job[q].todo) /\ job'[q].fresh = job[q].fresh
    BY <1>1
  <1>6. \A q \in Requests : Ahead(Issuing, job'[q].todo) => job'[q].fresh \notin Noted'
    <2>1. \A q \in Requests : Ahead(Issuing, job[q].todo) =>
              job[q].fresh > 0 /\ job[q].fresh \notin Known /\ job[q].fresh \notin Noted
      BY DEF ClientsInv, FreshKeys, OldKeys
    <2>2. QED
      BY <1>2, <1>5, <2>1
  <1>7. QED
    BY <1>4, <1>6 DEF OldKeys

\* Clients and creations of an admin are finitely many.
LEMMA QuotaFinite ==
  ASSUME NEW a
  PROVE  /\ IsFiniteSet(Claimed(a)) /\ IsFiniteSet(Creators(a)) /\ IsFiniteSet(Owned(a))
         /\ Cardinality(Claimed(a)) \in Nat /\ Cardinality(Creators(a)) \in Nat /\ Cardinality(Owned(a)) \in Nat
         /\ Cardinality(Requests) \in Nat /\ MaxClients \in Nat \ {0}
  <1>1. Claimed(a) \subseteq Clients /\ Creators(a) \subseteq Requests /\ Owned(a) \subseteq Clients
    BY DEF Claimed, Creators, Owned
  <1>2. QED
    BY <1>1, FS_Subset, FS_CardinalityType, ClientsAssumption

\* How many there are of both does not grow when none of them does, ...
LEMMA FewerWithin ==
  ASSUME WithinQuota,
         \A a \in Admins : Parents[a] = NoOwner =>
             Claimed(a)' \subseteq Claimed(a) /\ Creators(a)' \subseteq Creators(a)
  PROVE  WithinQuota'
  <1> SUFFICES ASSUME NEW a \in Admins, Parents[a] = NoOwner
               PROVE  Cardinality(Claimed(a)') + Cardinality(Creators(a)')
                          <= MaxClients + Cardinality(Requests) - 1
    BY DEF WithinQuota
  <1>1. /\ IsFiniteSet(Claimed(a)) /\ IsFiniteSet(Creators(a))
        /\ Cardinality(Claimed(a)) \in Nat /\ Cardinality(Creators(a)) \in Nat
        /\ Cardinality(Requests) \in Nat /\ MaxClients \in Nat
    BY QuotaFinite
  <1>2. /\ IsFiniteSet(Claimed(a)') /\ Cardinality(Claimed(a)') <= Cardinality(Claimed(a))
        /\ IsFiniteSet(Creators(a)') /\ Cardinality(Creators(a)') <= Cardinality(Creators(a))
    BY <1>1, FS_Subset
  <1>3. Cardinality(Claimed(a)') \in Nat /\ Cardinality(Creators(a)') \in Nat
    BY <1>2, FS_CardinalityType
  <1>4. Cardinality(Claimed(a)) + Cardinality(Creators(a)) <= MaxClients + Cardinality(Requests) - 1
    BY DEF WithinQuota
  <1>5. QED
    BY <1>1, <1>2, <1>3, <1>4

\* or when a creation becomes a client.
LEMMA OneForOne ==
  ASSUME NEW C, NEW D, IsFiniteSet(C), IsFiniteSet(D), NEW c, NEW r \in D,
         NEW Cn, Cn \subseteq C \cup {c}, NEW Dn, Dn \subseteq D \ {r}
  PROVE  Cardinality(Cn) + Cardinality(Dn) <= Cardinality(C) + Cardinality(D)
  <1>1. IsFiniteSet(D \ {r}) /\ Cardinality(D \ {r}) = Cardinality(D) - 1
    BY FS_RemoveElement
  <1>2. /\ IsFiniteSet(C \cup {c})
        /\ Cardinality(C \cup {c}) = IF c \in C THEN Cardinality(C) ELSE Cardinality(C) + 1
    BY FS_AddElement
  <1>3. /\ IsFiniteSet(Cn) /\ Cardinality(Cn) <= Cardinality(C \cup {c})
        /\ IsFiniteSet(Dn) /\ Cardinality(Dn) <= Cardinality(D \ {r})
    BY <1>1, <1>2, FS_Subset
  <1>4. /\ Cardinality(Cn) \in Nat /\ Cardinality(Dn) \in Nat /\ Cardinality(C) \in Nat /\ Cardinality(D) \in Nat
    BY <1>3, FS_CardinalityType
  <1>5. QED
    BY <1>1, <1>2, <1>3, <1>4

\* Request i goes on to j, or ends.
TurnsTo(i, j) == \/ j = Idle
                 \/ j.todo = Tail(i.todo) /\ j.c = i.c /\ j.actor = i.actor /\ j.fresh = i.fresh

\* The rest has no more uuids to give out.
LEMMA TurnIssues ==
  ASSUME ClientsInv, NEW r \in Requests, Working(r), NEW j, TurnsTo(job[r], j)
  PROVE  Ahead(Issuing, j.todo) => Ahead(Issuing, job[r].todo) /\ j.fresh = job[r].fresh
  <1>1. job[r].todo \in Seq(Steps) /\ job[r].todo # <<>>
    BY ClientTyped
  <1>2. PICK todo : todo = job[r].todo
    OBVIOUS
  <1>3. Ahead(Issuing, Tail(todo)) => Ahead(Issuing, todo)
    BY <1>1, <1>2, RestAhead
  <1>4. ~Ahead(Issuing, Idle.todo)
    BY DEF Idle, Ahead
  <1>5. QED
    BY <1>2, <1>3, <1>4 DEF TurnsTo

\* A creation goes on to make its client, or ends.
LEMMA TicketsKept ==
  ASSUME ClientsInv, Tickets, NEW r \in Requests, Working(r), NEW j, TurnsTo(job[r], j),
         job' = [job EXCEPT ![r] = j], UNCHANGED <<calls, admitted>>
  PROVE  /\ Tickets'
         /\ \A a : Creators(a)' \subseteq Creators(a)
         /\ j.todo \notin Pending => \A a : Creators(a)' \subseteq Creators(a) \ {r}
  <1>1. job'[r] = j /\ \A q \in Requests : q # r => job'[q] = job[q]
    BY DEF ClientsInv, Typed
  <1>2. \A k, a : Admitted(k, a)' <=> Admitted(k, a)
    BY DEF Admitted
  <1>3. ASSUME NEW a, Ahead(Issuing, j.todo), Admitted(j.fresh, a)
        PROVE  job[r].todo \in Pending /\ j.todo \in Pending /\ job[r].actor = a /\ j.actor = a /\ j.fresh = job[r].fresh
    <2>1. Ahead(Issuing, job[r].todo) /\ j.fresh = job[r].fresh
      BY <1>3, TurnIssues
    <2>2. job[r].todo \in Pending /\ job[r].actor = a
      BY <1>3, <2>1 DEF Tickets
    <2>3. j.todo = Tail(job[r].todo) /\ j.actor = job[r].actor
      <3>1. j # Idle
        BY <1>3 DEF Idle, Ahead
      <3>2. QED
        BY <3>1 DEF TurnsTo
    <2>4. j.todo \in Pending
      <3>1. job[r].todo \in {<<"free", "create", "own">>, <<"create", "own">>}
        BY <2>2 DEF Pending
      <3>2. j.todo \in {<<"create", "own">>, <<"own">>}
        BY <2>3, <3>1, CreationCalls
      <3>3. j.todo # <<"own">>
        BY <1>3, CreationCalls
      <3>4. QED
        BY <3>2, <3>3 DEF Pending
    <2>5. QED
      BY <2>1, <2>2, <2>3, <2>4
  <1>4. Tickets'
    <2>1. \A k, a : Admitted(k, a)' => k \in Nat \ {0} /\ k <= calls'
      BY <1>2 DEF Tickets
    <2>2. ASSUME NEW q \in Requests, NEW a, Ahead(Issuing, job'[q].todo), Admitted(job'[q].fresh, a)
          PROVE  job'[q].todo \in Pending /\ job'[q].actor = a
      BY <1>1, <1>3, <2>2 DEF Tickets
    <2>3. QED
      BY <1>2, <2>1, <2>2 DEF Tickets
  <1>5. \A todo \in Pending : Ahead(Issuing, todo)
    <2>1. Ahead(Issuing, <<"free", "create", "own">>) /\ Ahead(Issuing, <<"create", "own">>)
      BY DEF Ahead, Issuing
    <2>2. QED
      BY <2>1 DEF Pending
  <1>6. ASSUME NEW a, NEW q \in Requests, job'[q].todo \in Pending, Admitted(job'[q].fresh, a)
        PROVE  q \in Creators(a) /\ (q = r => j.todo \in Pending)
    BY <1>1, <1>3, <1>5, <1>6 DEF Creators
  <1>7. \A a : \A q \in Creators(a)' : q \in Creators(a) /\ (q = r => j.todo \in Pending)
    BY <1>2, <1>6 DEF Creators
  <1>8. QED
    BY <1>4, <1>7

\* A step that makes no client by a creation, and admits none.
LEMMA TurnKeeps ==
  ASSUME ClientsInv, QuotaParts, NEW r \in Requests, Working(r), NEW j, TurnsTo(job[r], j),
         Moves(r, j, job[r].c), Copies(r, j, job[r].c), MakesNone(r), UNCHANGED <<calls, admitted>>, Rooted',
         Ordered(j)
  PROVE  QuotaParts'
  <1>1. job'[r] = j /\ (\A q \in Requests : q # r => job'[q] = job[q]) /\ job[r].c \in Clients
    BY ClientTyped DEF ClientsInv, Typed, Moves
  <1>2. \A q \in Requests : Ordered(job[q])'
    BY <1>1 DEF QuotaParts, Ordered
  <1>3. OldKeys'
    <2>1. Ahead(Issuing, j.todo) => Ahead(Issuing, job[r].todo) /\ j.fresh = job[r].fresh
      BY TurnIssues
    <2>2. \A rec \in Records(job[r].c) : rec.key \in Known \cup Noted
      BY <1>1 DEF Records, Held, Known, Noted
    <2>3. j.base.key \in Known \cup Noted \cup {0}
      BY <2>2 DEF Copies
    <2>4. QED
      BY <2>1, <2>3, OldKeysKept DEF QuotaParts, Moves
  <1>4. Signed' /\ \A a : Claimed(a)' \subseteq Claimed(a)
    BY <1>1, SignedKept DEF QuotaParts
  <1>5. Tickets' /\ \A a : Creators(a)' \subseteq Creators(a)
    BY TicketsKept DEF QuotaParts, Moves
  <1>6. WithinQuota'
    BY <1>4, <1>5, FewerWithin DEF QuotaParts
  <1>7. QED
    BY <1>2, <1>3, <1>4, <1>5, <1>6 DEF QuotaParts

\* A request that has ended has nothing ahead.
LEMMA IdleOrdered ==
  /\ Ordered(Idle) /\ Idle.todo \notin Later /\ Idle.todo \notin Pending
  /\ Idle.saw.key = 0 /\ Idle.base.key = 0
  BY DEF Ordered, Idle, Ahead, Later, Pending, Gone

\* A request goes on to its next call, or ends with this one.
LEMMA GoesKeeps ==
  ASSUME ClientsInv, QuotaParts, NEW r \in Requests, Working(r), NEW i, i = job[r], NEW j, Turns(r, j),
         GoesOn(i, j), MakesNone(r), UNCHANGED <<calls, admitted>>, Rooted',
         \A d \in Clients : d # i.c => clients'[d] = clients[d],
         Copies(r, j, i.c)
  PROVE  QuotaParts'
  <1>1. PICK k : k = IF j.todo = <<>> THEN Idle ELSE j
    OBVIOUS
  <1>2. Ordered(j)
    <2>1. i.todo \in Seq(Steps) /\ i.todo # <<>> /\ Fits(i.todo)
      BY ClientTyped
    <2>2. Ordered(i)
      BY DEF QuotaParts
    <2>3. QED
      BY <2>1, <2>2, OrderedRest
  <1>3. Ordered(k) /\ TurnsTo(i, k)
    BY <1>1, <1>2, IdleOrdered DEF TurnsTo, GoesOn
  <1>4. Moves(r, k, i.c) /\ Copies(r, k, i.c)
    BY <1>1, IdleOrdered DEF Turns, Moves, Copies
  <1>5. QED
    BY <1>3, <1>4, TurnKeeps

\* A step that reads, if anything, the client.
LEMMA ReadsKeep ==
  ASSUME ClientsInv, QuotaParts, NEW r \in Requests, Working(r), NEW i, i = job[r], NEW j, Turns(r, j),
         GoesOn(i, j), UNCHANGED <<clients, calls, admitted>>, Rooted',
         j.saw \in {i.saw, clients[i.c]}, j.base \in {i.base, clients[i.c]}
  PROVE  QuotaParts'
  <1>1. i.saw \in Held(i.c) /\ clients[i.c] \in Held(i.c)
    BY DEF Held
  <1>2. i.base \in Records(i.c) /\ clients[i.c] \in Records(i.c)
    BY DEF Records, Held
  <1>3. Alike(Records(i.c), clients'[i.c]) /\ \E h \in Held(i.c) : h.key = clients'[i.c].key
    BY <1>1, <1>2 DEF Alike
  <1>4. Copies(r, j, i.c) /\ MakesNone(r)
    BY <1>1, <1>2, <1>3 DEF Copies, GoesOn, MakesNone
  <1>5. QED
    BY <1>4, GoesKeeps

\* A step after which the request is the same but for what is left of it.
LEMMA OnwardKeepsQuota ==
  ASSUME ClientsInv, QuotaParts, NEW r \in Requests, Working(r), Turns(r, Onward(r)),
         job[r].todo[1] # "base", UNCHANGED <<clients, calls, admitted>>, Rooted'
  PROVE  QuotaParts'
  <1>1. PICK i, j : i = job[r] /\ j = Onward(r)
    OBVIOUS
  <1>2. /\ j.todo = Tail(i.todo) /\ j.c = i.c /\ j.actor = i.actor /\ j.key = i.key
        /\ j.fresh = i.fresh /\ j.base = i.base /\ j.saw = i.saw
    BY <1>1, OnwardFields
  <1>3. GoesOn(i, j)
    BY <1>1, <1>2 DEF GoesOn
  <1>4. QED
    BY <1>1, <1>2, <1>3, ReadsKeep

\* They are these, ...
LEMMA PassesKeepQuota ==
  ASSUME ClientsInv, QuotaParts, NEW r \in Requests,
         \/ FindByUuid(r) \/ FindDepleted(r) \/ ReadBack(r) \/ FindAddress(r) \/ CheckAddress(r)
         \/ ResetUsage(r) \/ EnterSegments(r) \/ SnapshotClient(r) \/ SetOwner(r) \/ OwnClient(r)
         \/ ListAll(r) \/ ListOwned(r)
  PROVE  QuotaParts'
  <1>1. Working(r) /\ Turns(r, Onward(r)) /\ UNCHANGED <<clients, calls, admitted, parent>>
    <2>1. CASE FindAddress(r) \/ ListAll(r) \/ ListOwned(r)
      BY <2>1 DEF FindAddress, ListAll, ListOwned, ReadsListIfAny, ReadsList, Lists, Reads, Goes, At,
                  panel, family, ghosts
    <2>2. CASE FindByUuid(r) \/ FindDepleted(r) \/ ReadBack(r) \/ CheckAddress(r)
      BY <2>2 DEF FindByUuid, FindDepleted, ReadBack, CheckAddress, Reads, Goes, At, panel, family, ghosts
    <2>3. CASE ResetUsage(r) \/ EnterSegments(r) \/ SnapshotClient(r) \/ SetOwner(r) \/ OwnClient(r)
      BY <2>3 DEF ResetUsage, EnterSegments, SnapshotClient, SetOwner, OwnClient, Goes, At, panel, family, ghosts
    <2>4. QED
      BY <2>1, <2>2, <2>3
  <1>2. job[r].todo[1] # "base"
    BY <1>1, ClientTyped
       DEF FindByUuid, FindDepleted, ReadBack, FindAddress, CheckAddress, ResetUsage, EnterSegments,
           SnapshotClient, SetOwner, OwnClient, ListAll, ListOwned, At
  <1>3. Rooted'
    BY <1>1 DEF QuotaParts, Rooted
  <1>4. QED
    BY <1>1, <1>2, <1>3, OnwardKeepsQuota

\* and a change of parent, which is for an admin that may have one.
LEMMA SetParentKeepsQuota ==
  ASSUME ClientsInv, QuotaParts, NEW r \in Requests, SetParent(r)
  PROVE  QuotaParts'
  <1>1. PICK i : i = job[r]
    OBVIOUS
  <1>2. /\ Working(r) /\ Turns(r, Onward(r)) /\ UNCHANGED <<clients, calls, admitted>>
        /\ i.todo[1] = "parent" /\ i.todo \in Seq(Steps) /\ i.todo # <<>>
        /\ parent' = [parent EXCEPT ![i.actor] = i.under]
    BY <1>1, ClientTyped DEF SetParent, Goes, At, panel, ghosts
  <1>3. Parents[i.actor] # NoOwner
    <2>1. Ahead({"parent"}, i.todo)
      BY <1>2, RestAhead
    <2>2. QED
      BY <1>1, <2>1 DEF QuotaParts, Ordered
  <1>4. Rooted'
    BY <1>2, <1>3 DEF QuotaParts, Rooted
  <1>5. QED
    BY <1>1, <1>2, <1>4, OnwardKeepsQuota

\* A request may stop anywhere.
LEMMA FailKeepsQuota ==
  ASSUME ClientsInv, QuotaParts, NEW r \in Requests, Fail(r)
  PROVE  QuotaParts'
  <1>1. /\ Working(r) /\ job' = [job EXCEPT ![r] = Idle]
        /\ UNCHANGED <<clients, calls, admitted, parent>>
    BY DEF Fail, Reads, Goes, Turns, Idle, panel, family, ghosts
  <1>2. PICK c : c = job[r].c
    OBVIOUS
  <1>3. Alike(Records(c), clients'[c]) /\ \E h \in Held(c) : h.key = clients'[c].key
    BY <1>1 DEF Alike, Records, Held
  <1>4. Moves(r, Idle, c) /\ Copies(r, Idle, c) /\ MakesNone(r)
    BY <1>1, <1>3, IdleOrdered DEF Moves, Copies, MakesNone
  <1>5. Rooted' /\ TurnsTo(job[r], Idle)
    BY <1>1 DEF QuotaParts, Rooted, TurnsTo
  <1>6. QED
    BY <1>1, <1>2, <1>4, <1>5, IdleOrdered, TurnKeeps

\* Request r has read the client, or not.
HasRead(r, i) ==
    \E j : /\ Turns(r, j) /\ GoesOn(i, j)
           /\ j.saw \in {i.saw, clients[i.c]} /\ j.base \in {i.base, clients[i.c]}

\* Steps that bring something with them.
LEMMA LooksKeepQuota ==
  ASSUME ClientsInv, QuotaParts, NEW r \in Requests,
         \/ Detail(r) \/ FindByAddress(r) \/ ReadBase(r) \/ ReadConfig(r) \/ ListOfChild(r)
         \/ UpdateComments(r) \/ FindUnsegmented(r)
  PROVE  QuotaParts'
  <1>1. PICK i, o : i = job[r] /\ o = Onward(r)
    OBVIOUS
  <1>2. Working(r) /\ UNCHANGED <<clients, calls, admitted, parent>>
    BY <1>1, ClientTyped
       DEF Detail, FindByAddress, ReadBase, ReadConfig, ListOfChild, UpdateComments, FindUnsegmented,
           At, ReadsListIfAny, ReadsList, Lists, Reads, Goes, panel, family, ghosts
  <1>3. /\ o.todo = Tail(i.todo) /\ o.c = i.c /\ o.actor = i.actor /\ o.key = i.key
        /\ o.fresh = i.fresh /\ o.base = i.base /\ o.saw = i.saw /\ IsJob(o)
    BY <1>1, <1>2, OnwardFields
  <1>4. HasRead(r, i)
    <2>1. ASSUME Detail(r) PROVE HasRead(r, i)
      <3>1. PICK j : j = [o EXCEPT !.before = clients[i.c]]
        OBVIOUS
      <3>2. Turns(r, j) /\ i.todo[1] = "detail"
        BY <1>1, <1>2, <2>1, <3>1, ClientTyped DEF Detail, Reads, Goes, At
      <3>3. GoesOn(i, j) /\ j.saw = i.saw /\ j.base = i.base
        BY <1>3, <3>1, <3>2 DEF GoesOn, IsJob
      <3>4. QED
        BY <3>2, <3>3 DEF HasRead
    <2>2. ASSUME FindByAddress(r) PROVE HasRead(r, i)
      <3>1. PICK j : j = [o EXCEPT !.key = clients[i.c].key]
        OBVIOUS
      <3>2. Turns(r, j) /\ i.todo[1] = "address"
        BY <1>1, <1>2, <2>2, <3>1, ClientTyped DEF FindByAddress, Reads, Goes, At
      <3>3. GoesOn(i, j) /\ j.saw = i.saw /\ j.base = i.base
        BY <1>3, <3>1, <3>2 DEF GoesOn, IsJob
      <3>4. QED
        BY <3>2, <3>3 DEF HasRead
    <2>3. ASSUME ReadBase(r) PROVE HasRead(r, i)
      <3>1. PICK known, under, record, owner, j :
               /\ j = [o EXCEPT !.base = clients[i.c], !.known = known, !.under = under,
                                !.record = record, !.owner = owner]
               /\ Turns(r, j)
        BY <1>1, <2>3 DEF ReadBase, Reads, Goes
      <3>2. i.todo[1] = "base" /\ clients[i.c].key = i.key
        BY <1>1, <1>2, <2>3, ClientTyped DEF ReadBase, Found, At
      <3>3. GoesOn(i, j) /\ j.saw = i.saw /\ j.base = clients[i.c]
        BY <1>3, <3>1, <3>2 DEF GoesOn, IsJob
      <3>4. QED
        BY <3>1, <3>3 DEF HasRead
    <2>4. ASSUME ReadConfig(r) PROVE HasRead(r, i)
      <3>1. PICK j : j = [o EXCEPT !.saw = clients[i.c]]
        OBVIOUS
      <3>2. Turns(r, j) /\ i.todo[1] = "config"
        BY <1>1, <1>2, <2>4, <3>1, ClientTyped DEF ReadConfig, Reads, Goes, At
      <3>3. GoesOn(i, j) /\ j.saw = clients[i.c] /\ j.base = i.base
        BY <1>3, <3>1, <3>2 DEF GoesOn, IsJob
      <3>4. QED
        BY <3>2, <3>3 DEF HasRead
    <2>5. ASSUME UpdateComments(r) PROVE HasRead(r, i)
      <3>1. PICK under, record, j : j = [o EXCEPT !.under = under, !.record = record] /\ Turns(r, j)
        BY <1>1, <2>5 DEF UpdateComments, ReadsListIfAny, ReadsList, Lists, Reads, Goes
      <3>2. i.todo[1] = "comments"
        BY <1>1, <1>2, <2>5, ClientTyped DEF UpdateComments, At
      <3>3. GoesOn(i, j) /\ j.saw = i.saw /\ j.base = i.base
        BY <1>3, <3>1, <3>2 DEF GoesOn, IsJob
      <3>4. QED
        BY <3>1, <3>3 DEF HasRead
    <2>6. ASSUME FindUnsegmented(r) PROVE HasRead(r, i)
      <3>1. PICK record, j : j = [o EXCEPT !.record = record] /\ Turns(r, j)
        BY <1>1, <2>6 DEF FindUnsegmented, Reads, Goes
      <3>2. i.todo[1] = "unsegmented"
        BY <1>1, <1>2, <2>6, ClientTyped DEF FindUnsegmented, At
      <3>3. GoesOn(i, j) /\ j.saw = i.saw /\ j.base = i.base
        BY <1>3, <3>1, <3>2 DEF GoesOn, IsJob
      <3>4. QED
        BY <3>1, <3>3 DEF HasRead
    <2>7. ASSUME ListOfChild(r) PROVE HasRead(r, i)
      <3>1. PICK j : /\ Turns(r, j)
                     /\ \/ j = [o EXCEPT !.record = FALSE]
                        \/ \E record : j = [o EXCEPT !.key = clients[i.c].key, !.record = record]
        BY <1>1, <2>7 DEF ListOfChild, ReadsList, Lists, Reads, Goes
      <3>2. i.todo[1] = "list_child"
        BY <1>1, <1>2, <2>7, ClientTyped DEF ListOfChild, At
      <3>3. GoesOn(i, j) /\ j.saw = i.saw /\ j.base = i.base
        BY <1>3, <3>1, <3>2 DEF GoesOn, IsJob
      <3>4. QED
        BY <3>1, <3>3 DEF HasRead
    <2>8. QED
      BY <2>1, <2>2, <2>3, <2>4, <2>5, <2>6, <2>7
  <1>5. Rooted'
    BY <1>2 DEF QuotaParts, Rooted
  <1>6. QED
    BY <1>1, <1>2, <1>4, <1>5, ReadsKeep DEF HasRead

\* A mutation leaves the comment alone, but for the top-up, which takes it from the first read.
LEMMA ChangedComment ==
  ASSUME NEW h \in Mutations, h # "gift", NEW rec, IsRecord(rec), NEW base, NEW j,
         NEW new, new = Changed(h, rec, base, j)
  PROVE  new.comment = IF h = "add" THEN base.comment ELSE rec.comment
  <1> USE DEF IsRecord
  <1>1. CASE h = "add"
    <2>1. PICK n, moaf : new = [rec EXCEPT !.gb = n, !.comment = base.comment, !.moaf = moaf]
      BY <1>1 DEF Changed, AddGb
    <2>2. QED
      BY <1>1, <2>1
  <1>2. CASE h = "extend"
    BY <1>2 DEF Changed, ExtendDays
  <1>3. CASE h = "toggle"
    BY <1>3 DEF Changed, Toggle
  <1>4. CASE h = "total"
    BY <1>4 DEF Changed, TotalGb
  <1>5. CASE h = "days"
    BY <1>5 DEF Changed, ExpiryDays
  <1>6. CASE h = "limit"
    BY <1>6 DEF Changed, LimitIp
  <1>7. CASE h = "tg"
    BY <1>7 DEF Changed, TgId
  <1>8. CASE h = "rotate"
    BY <1>8 DEF Changed, NewUuid
  <1>9. QED
    BY <1>1, <1>2, <1>3, <1>4, <1>5, <1>6, <1>7, <1>8 DEF Mutations

\* A record that is written back has a uuid, and the comment with it, that was there, or a new uuid.
LEMMA WriteClientKeepsQuota ==
  ASSUME ClientsInv, QuotaParts, NEW r \in Requests, WriteClient(r)
  PROVE  QuotaParts'
  <1>1. PICK i, j, c, h : i = job[r] /\ j = Onward(r) /\ c = i.c /\ h = i.todo[1]
    OBVIOUS
  <1>2. /\ Working(r) /\ Head(i.todo) = h /\ h \in Mutations /\ Turns(r, j)
        /\ UNCHANGED <<calls, admitted, parent>>
    BY <1>1, ClientTyped DEF WriteClient, Goes, family
  <1>3. PICK new : new = Changed(h, i.saw, i.base, i) /\ Sets(clients', clients, c, new)
    BY <1>1, <1>2, ClientTyped DEF WriteClient, Payload, Sets, ClientsInv, Typed
  <1>4. /\ IsJob(i) /\ Sound(i) /\ Ordered(i) /\ c \in Clients /\ i.todo # <<>> /\ i.todo \in Seq(Steps)
    BY <1>1, <1>2, ClientTyped DEF QuotaParts
  <1>5. IsRecord(i.saw) /\ IsRecord(i.base) /\ i.fresh \in Nat
    BY <1>4 DEF IsJob
  <1>6. h # "gift"
    BY <1>1, <1>4, RestAhead DEF Ordered
  <1>7. /\ h = "rotate" => new.key = i.fresh
        /\ h # "rotate" => new.key = i.saw.key
    <2>1. Keeps(h, i.saw, i.base, i.fresh, new)
      BY <1>2, <1>3, <1>5, ChangedFields
    <2>2. QED
      BY <2>1 DEF Keeps
  <1>8. new.comment = IF h = "add" THEN i.base.comment ELSE i.saw.comment
    BY <1>2, <1>3, <1>5, <1>6, ChangedComment
  <1>9. h = "rotate" => NewKey(r, new.key)
    <2>1. h = "rotate" => Ahead(Issuing, i.todo)
      BY <1>1, <1>4, RestAhead DEF Issuing
    <2>2. QED
      BY <1>1, <1>7, <2>1 DEF NewKey
  <1>10. i.saw \in Held(c) /\ i.saw \in Records(c) /\ i.base \in Records(c)
    BY <1>1 DEF Held, Records
  <1>11. h = "add" => i.base.key = i.saw.key
    <2>1. i.saw.key = i.key
      BY <1>1, <1>2, <1>4 DEF Sound, Writing
    <2>2. h = "add" => i.base.key = i.key
      BY <1>1, <1>4 DEF Ordered, Based
    <2>3. QED
      BY <2>1, <2>2
  <1>12. /\ j.todo = Tail(i.todo) /\ j.c = i.c /\ j.actor = i.actor /\ j.key = i.key
         /\ j.fresh = i.fresh /\ j.base = i.base /\ j.saw = i.saw
    BY <1>1, <1>2, OnwardFields
  <1>13. Copies(r, j, c)
    <2>1. clients'[c] = new
      BY <1>3 DEF Sets
    <2>2. h # "rotate" => Alike(Records(c), new) /\ \E k \in Held(c) : k.key = new.key
      BY <1>7, <1>8, <1>10, <1>11 DEF Alike
    <2>3. QED
      BY <1>1, <1>9, <1>10, <1>12, <2>1, <2>2 DEF Copies
  <1>14. GoesOn(i, j) /\ MakesNone(r)
    BY <1>1, <1>2, <1>12, CreationCalls DEF GoesOn, MakesNone, Mutations, Pending
  <1>15. Rooted' /\ \A d \in Clients : d # c => clients'[d] = clients[d]
    BY <1>2, <1>3 DEF QuotaParts, Rooted, Sets
  <1>16. QED
    BY <1>1, <1>2, <1>13, <1>14, <1>15, GoesKeeps

\* A client that is gone has no uuid.
LEMMA DeleteKeepsQuota ==
  ASSUME ClientsInv, QuotaParts, NEW r \in Requests, Delete(r)
  PROVE  QuotaParts'
  <1>1. PICK i, j, c : i = job[r] /\ j = Onward(r) /\ c = i.c
    OBVIOUS
  <1>2. /\ Working(r) /\ i.todo[1] = "delete" /\ Turns(r, j) /\ UNCHANGED <<calls, admitted, parent>>
        /\ Sets(clients', clients, c, Gone)
    BY <1>1, ClientTyped DEF Delete, Goes, At, family, Sets, ClientsInv, Typed
  <1>3. /\ j.todo = Tail(i.todo) /\ j.c = i.c /\ j.actor = i.actor /\ j.key = i.key
        /\ j.fresh = i.fresh /\ j.base = i.base /\ j.saw = i.saw
    BY <1>1, <1>2, OnwardFields
  <1>4. clients'[c].key = 0
    BY <1>2 DEF Sets, Gone
  <1>5. i.saw \in Held(c) /\ i.base \in Records(c)
    BY <1>1 DEF Held, Records
  <1>6. Copies(r, j, c) /\ GoesOn(i, j) /\ MakesNone(r)
    BY <1>1, <1>2, <1>3, <1>4, <1>5, CreationCalls DEF Copies, GoesOn, MakesNone, Pending
  <1>7. Rooted' /\ \A d \in Clients : d # c => clients'[d] = clients[d]
    BY <1>2 DEF QuotaParts, Rooted, Sets
  <1>8. QED
    BY <1>1, <1>2, <1>6, <1>7, GoesKeeps

\* What a creation has left, by its next call.
LEMMA CreationAt ==
  ASSUME ClientsInv, QuotaParts, NEW r \in Requests, Working(r), NEW todo, todo = job[r].todo
  PROVE  /\ todo[1] = "count" => todo = CreateClient
         /\ todo[1] = "create" => todo = <<"create", "own">>
         /\ todo[1] \in Creating => job[r].saw.key = 0
  <1>1. todo \in Seq(Steps) /\ todo # <<>> /\ Ordered(job[r])
    BY ClientTyped DEF QuotaParts
  <1>2. todo[1] \in Creating => Ahead(Creating, todo)
    BY <1>1, RestAhead
  <1>3. todo[1] \in Creating =>
           /\ job[r].saw.key = 0
           /\ todo \in {CreateClient, <<"free", "create", "own">>, <<"create", "own">>, <<"own">>}
    BY <1>1, <1>2 DEF Ordered, Later, Pending
  <1>4. QED
    BY <1>3, CreationCalls DEF Creating

\* The clients an admin has, or gets back by what was read of them: the list the quota is
\* checked against has the first, and each of the others is the business of another request.
LEMMA ClaimedCounted ==
  ASSUME ClientsInv, QuotaParts, NEW a \in Admins, Parents[a] = NoOwner,
         NEW Busy, Busy = {q \in Requests : job[q].saw.key # 0}
  PROVE  /\ IsFiniteSet(Claimed(a)) /\ IsFiniteSet(Busy) /\ IsFiniteSet(Owned(a))
         /\ Cardinality(Claimed(a)) <= Cardinality(Owned(a)) + Cardinality(Busy)
  <1> DEFINE f == [q \in Busy |-> job[q].c]
             Image == {f[q] : q \in Busy}
  <1>1. IsFiniteSet(Busy) /\ IsFiniteSet(Owned(a)) /\ IsFiniteSet(Claimed(a))
    <2>1. Busy \subseteq Requests
      OBVIOUS
    <2>2. QED
      BY <2>1, FS_Subset, QuotaFinite, ClientsAssumption
  <1>2. IsFiniteSet(Image) /\ Cardinality(Image) <= Cardinality(Busy)
    <2>1. f \in Surjection(Busy, Image)
      BY DEF Surjection
    <2>2. QED
      BY <1>1, <2>1, FS_Surjection
  <1>3. Claimed(a) \subseteq Owned(a) \cup Image
    <2> SUFFICES ASSUME NEW c \in Clients, NEW rec \in Held(c), rec.key # 0, Admitted(rec.key, a)
                 PROVE  c \in Owned(a) \cup Image
      BY DEF Claimed
    <2>1. CASE rec = clients[c]
      <3>1. rec \in Records(c)
        BY DEF Records
      <3>2. clients[c].comment = a
        BY <2>1, <3>1 DEF QuotaParts, Signed
      <3>3. Exists(c)
        BY <2>1 DEF Exists, ClientsInv, Typed, IsRecord
      <3>4. OwnerOf(c) = a
        BY <3>2, ClientsAssumption DEF OwnerOf
      <3>5. QED
        BY <3>3, <3>4 DEF Owned
    <2>2. CASE rec # clients[c]
      <3>1. PICK q \in Requests : job[q].c = c /\ rec = job[q].saw
        BY <2>2 DEF Held
      <3>2. q \in Busy /\ f[q] = c
        BY <3>1
      <3>3. QED
        BY <3>2
    <2>3. QED
      BY <2>1, <2>2
  <1> HIDE DEF Image
  <1>4. /\ IsFiniteSet(Owned(a) \cup Image)
        /\ Cardinality(Owned(a) \cup Image) =
              Cardinality(Owned(a)) + Cardinality(Image) - Cardinality(Owned(a) \cap Image)
    BY <1>1, <1>2, FS_Union
  <1>5. Cardinality(Claimed(a)) <= Cardinality(Owned(a) \cup Image)
    BY <1>3, <1>4, FS_Subset
  <1>6. /\ Cardinality(Claimed(a)) \in Nat /\ Cardinality(Owned(a)) \in Nat /\ Cardinality(Busy) \in Nat
        /\ Cardinality(Image) \in Nat /\ Cardinality(Owned(a) \cap Image) \in Nat
    BY <1>1, <1>2, FS_CardinalityType, FS_Intersection
  <1>7. QED
    BY <1>1, <1>2, <1>4, <1>5, <1>6

\* Requests that have read a record and creations are different ones.
LEMMA BusyApart ==
  ASSUME NEW Busy, NEW C, Busy \subseteq Requests, C \subseteq Requests, Busy \cap C = {}
  PROVE  /\ IsFiniteSet(C) /\ Cardinality(C) \in Nat /\ Cardinality(Busy) \in Nat /\ Cardinality(Requests) \in Nat
         /\ Cardinality(Busy) + Cardinality(C) <= Cardinality(Requests)
  <1>1. IsFiniteSet(Busy) /\ IsFiniteSet(C) /\ IsFiniteSet(Requests)
    BY FS_Subset, ClientsAssumption
  <1>2. Busy \cup C \subseteq Requests
    OBVIOUS
  <1>3. Cardinality(Busy \cup C) <= Cardinality(Requests)
    BY <1>1, <1>2, FS_Subset
  <1>4. Cardinality(Busy \cup C) = Cardinality(Busy) + Cardinality(C) - Cardinality(Busy \cap C)
    BY <1>1, FS_Union
  <1>5. Cardinality(Busy \cap C) = 0
    BY FS_EmptySet
  <1>6. Cardinality(Busy) \in Nat /\ Cardinality(C) \in Nat /\ Cardinality(Requests) \in Nat
    BY <1>1, FS_CardinalityType
  <1>7. QED
    BY <1>1, <1>3, <1>4, <1>5, <1>6

\* A creation that passes the quota: what the admin has is below it, and what it may get besides
\* is one client for each of the other requests.  One that was not counted is not admitted.
LEMMA CountOwnedKeepsQuota ==
  ASSUME ClientsInv, QuotaParts, NEW r \in Requests, CountOwned(r)
  PROVE  QuotaParts'
  <1>1. PICK i, j, c : i = job[r] /\ j = Onward(r) /\ c = i.c
    OBVIOUS
  <1>2. /\ Working(r) /\ i.todo[1] = "count" /\ Turns(r, j) /\ UNCHANGED <<clients, calls, parent>>
        /\ c \in Clients
        /\ \/ UNCHANGED admitted
           \/ /\ Cardinality(Owned(i.actor)) < MaxClients
              /\ admitted' = admitted \cup {<<i.fresh, i.actor>>}
    BY <1>1, ClientTyped DEF CountOwned, At, Admits, Lists, Reads, Goes, panel, family, ghosts
  <1>3. i.todo = CreateClient /\ i.saw.key = 0
    BY <1>1, <1>2, CreationAt DEF Creating
  <1>4. /\ j.todo = Tail(i.todo) /\ j.c = i.c /\ j.actor = i.actor /\ j.key = i.key
        /\ j.fresh = i.fresh /\ j.base = i.base /\ j.saw = i.saw
    BY <1>1, <1>2, OnwardFields
  <1>5. j.todo = <<"free", "create", "own">> /\ j.todo # <<>> /\ j.todo \in Pending
    BY <1>3, <1>4, CreationCalls DEF Pending
  <1>6. job' = [job EXCEPT ![r] = j] /\ job'[r] = j /\ \A q \in Requests : q # r => job'[q] = job[q]
    BY <1>2, <1>5 DEF Turns, ClientsInv, Typed
  <1>7. Rooted'
    BY <1>2 DEF QuotaParts, Rooted
  <1>8. CASE UNCHANGED admitted
    BY <1>1, <1>2, <1>7, <1>8, OnwardKeepsQuota
  <1>9. CASE Cardinality(Owned(i.actor)) < MaxClients /\ admitted' = admitted \cup {<<i.fresh, i.actor>>}
    <2>1. \A k, a : Admitted(k, a)' <=> Admitted(k, a) \/ (k = i.fresh /\ a = i.actor)
      BY <1>9 DEF Admitted
    <2>2. NewKey(r, i.fresh)
      <3>1. i.todo \in Seq(Steps) /\ i.todo # <<>>
        BY <1>1, <1>2, ClientTyped
      <3>2. Ahead(Issuing, i.todo)
        BY <1>3 DEF CreateClient, Ahead, Issuing
      <3>3. QED
        BY <1>1, <3>2 DEF NewKey
    <2>3. i.fresh > 0 /\ i.fresh \in Nat /\ i.fresh <= calls
      BY <1>1, <2>2, NewKeyOpen, ClientTyped DEF QuotaParts, IsJob, ClientsInv, FreshKeys
    <2>4. Ordered(j)
      <3>1. GoesOn(i, j)
        BY <1>2, <1>4 DEF GoesOn
      <3>2. i.todo \in Seq(Steps) /\ i.todo # <<>> /\ Fits(i.todo) /\ Ordered(i)
        BY <1>1, <1>2, ClientTyped DEF QuotaParts
      <3>3. QED
        BY <3>1, <3>2, OrderedRest
    <2>5. \A q \in Requests : Ordered(job[q])'
      BY <1>6, <2>4 DEF QuotaParts, Ordered
    <2>6. OldKeys'
      <3>1. Ahead(Issuing, j.todo) => Ahead(Issuing, i.todo) /\ j.fresh = i.fresh
        BY <1>1, <1>2, <1>4, TurnIssues DEF TurnsTo
      <3>2. j.base.key \in Noted
        BY <1>1, <1>4 DEF Noted
      <3>3. QED
        BY <1>1, <1>2, <1>6, <3>1, <3>2, OldKeysKept DEF QuotaParts
    <2>7. Tickets'
      <3>1. \A k, a : Admitted(k, a)' => k \in Nat \ {0} /\ k <= calls'
        BY <1>2, <2>1, <2>3 DEF QuotaParts, Tickets
      <3>2. ASSUME NEW q \in Requests, NEW a, Ahead(Issuing, job'[q].todo),
                   Admitted(job'[q].fresh, a) \/ (job'[q].fresh = i.fresh /\ a = i.actor)
            PROVE  job'[q].todo \in Pending /\ job'[q].actor = a
        <4>1. CASE q = r
          <5>1. a = i.actor
            BY <1>1, <1>4, <1>6, <2>2, <3>2, <4>1, NewKeyOpen DEF QuotaParts
          <5>2. QED
            BY <1>4, <1>5, <1>6, <4>1, <5>1
        <4>2. CASE q # r
          <5>1. job'[q] = job[q] /\ Working(q)
            BY <1>6, <3>2, <4>2, CreationCalls DEF Working
          <5>2. job[q].fresh # i.fresh
            BY <1>1, <1>2, <4>2, <5>1 DEF ClientsInv, FreshKeys
          <5>3. QED
            BY <3>2, <5>1, <5>2 DEF QuotaParts, Tickets
        <4>3. QED
          BY <4>1, <4>2
      <3>3. QED
        BY <2>1, <3>1, <3>2 DEF Tickets
    <2>8. Moves(r, j, c) /\ Copies(r, j, c) /\ MakesNone(r)
      <3>1. i.base \in Records(c) /\ clients[c] \in Held(c) /\ clients[c] \in Records(c)
        BY <1>1 DEF Held, Records
      <3>2. QED
        BY <1>1, <1>2, <1>3, <1>4, <1>6, <3>1 DEF Moves, Copies, Alike, MakesNone
    <2>9. ASSUME NEW d \in Clients, NEW a, NEW rec \in Records(d)', rec.key # 0, Admitted(rec.key, a)'
          PROVE  Admitted(rec.key, a) /\ Alike(Records(d), rec)
      <3>1. rec.key # i.fresh
        <4>1. Alike(Records(d), rec) \/ rec = clients[c]
          BY <1>2, <2>8, <2>9, CopiesKept DEF ClientsInv
        <4>2. QED
          BY <1>2, <2>2, <4>1, NewKeyOpen DEF QuotaParts, Alike
      <3>2. Admitted(rec.key, a)
        BY <2>1, <2>9, <3>1
      <3>3. QED
        BY <1>2, <2>8, <2>9, <3>2, AdmittedMet DEF QuotaParts
    <2>10. Signed'
      BY <2>9 DEF QuotaParts, Signed, Alike
    <2>11. \A a : Claimed(a)' \subseteq Claimed(a)
      <3> SUFFICES ASSUME NEW a, NEW d \in Clients, NEW rec \in Held(d)', rec.key # 0, Admitted(rec.key, a)'
                   PROVE  d \in Claimed(a)
        BY DEF Claimed
      <3>1. rec \in Records(d)'
        BY DEF Records
      <3>2. Admitted(rec.key, a)
        BY <2>9, <3>1
      <3>3. \E h \in Held(d) : h.key = rec.key
        BY <1>2, <2>8, <3>2, AdmittedMet DEF QuotaParts
      <3>4. QED
        BY <3>2, <3>3 DEF Claimed
    <2>12. WithinQuota'
      <3> SUFFICES ASSUME NEW a \in Admins, Parents[a] = NoOwner
                   PROVE  Cardinality(Claimed(a)') + Cardinality(Creators(a)')
                              <= MaxClients + Cardinality(Requests) - 1
        BY DEF WithinQuota
      <3>1. PICK Busy : Busy = {q \in Requests : job[q].saw.key # 0}
        OBVIOUS
      <3>2. Cardinality(Claimed(a)) <= Cardinality(Owned(a)) + Cardinality(Busy)
        BY <3>1, ClaimedCounted
      <3>3. /\ IsFiniteSet(Claimed(a)) /\ IsFiniteSet(Creators(a))
            /\ Cardinality(Claimed(a)) \in Nat /\ Cardinality(Creators(a)) \in Nat /\ Cardinality(Owned(a)) \in Nat
            /\ Cardinality(Requests) \in Nat /\ MaxClients \in Nat \ {0}
        BY QuotaFinite
      <3>4. /\ IsFiniteSet(Claimed(a)') /\ Cardinality(Claimed(a)') <= Cardinality(Claimed(a))
            /\ Cardinality(Claimed(a)') \in Nat
        BY <2>11, <3>3, FS_Subset, FS_CardinalityType
      <3>5. CASE a = i.actor
        <4>1. Creators(a)' \subseteq Requests /\ Busy \subseteq Requests
          BY <3>1 DEF Creators
        <4>2. Creators(a)' \cap Busy = {}
          <5>1. SUFFICES ASSUME NEW q \in Requests, job'[q].todo \in Pending, job[q].saw.key # 0 PROVE FALSE
            BY <3>1 DEF Creators
          <5>2. q # r
            BY <1>1, <1>3, <5>1
          <5>3. job[q].todo \in Later
            BY <1>6, <5>1, <5>2 DEF Later
          <5>4. QED
            BY <5>1, <5>3, CreationCalls DEF QuotaParts, Ordered
        <4>3. /\ Cardinality(Creators(a)') \in Nat /\ Cardinality(Busy) \in Nat
              /\ Cardinality(Busy) + Cardinality(Creators(a)') <= Cardinality(Requests)
          BY <4>1, <4>2, BusyApart
        <4>4. Cardinality(Owned(a)) < MaxClients
          BY <1>9, <3>5
        <4>5. QED
          BY <3>2, <3>3, <3>4, <4>3, <4>4
      <3>6. CASE a # i.actor
        <4>1. Creators(a)' \subseteq Creators(a)
          <5>1. ASSUME NEW q \in Requests, job'[q].todo \in Pending, Admitted(job'[q].fresh, a)
                PROVE  q \in Creators(a)
            <6>1. ~Admitted(i.fresh, a)
              BY <1>1, <2>2, <3>6, NewKeyOpen DEF QuotaParts
            <6>2. q # r
              BY <1>4, <1>6, <5>1, <6>1
            <6>3. QED
              BY <1>6, <5>1, <6>2 DEF Creators
          <5>2. QED
            BY <2>1, <3>6, <5>1 DEF Creators
        <4>2. Cardinality(Creators(a)') <= Cardinality(Creators(a)) /\ Cardinality(Creators(a)') \in Nat
          BY <3>3, <4>1, FS_Subset, FS_CardinalityType
        <4>3. Cardinality(Claimed(a)) + Cardinality(Creators(a)) <= MaxClients + Cardinality(Requests) - 1
          BY DEF QuotaParts, WithinQuota
        <4>4. QED
          BY <3>3, <3>4, <4>2, <4>3
      <3>7. QED
        BY <3>5, <3>6
    <2>13. QED
      BY <1>7, <2>5, <2>6, <2>7, <2>10, <2>12 DEF QuotaParts
  <1>10. QED
    BY <1>2, <1>8, <1>9

\* A new client has a new uuid and the admin, when that has no parent, in its comment: where the
\* creation was admitted, the admin has one client more, and one creation less.
LEMMA AddClientKeepsQuota ==
  ASSUME ClientsInv, QuotaParts, NEW r \in Requests, AddClient(r)
  PROVE  QuotaParts'
  <1>1. PICK i, o, j, c : i = job[r] /\ o = Onward(r) /\ j = [o EXCEPT !.key = i.fresh] /\ c = i.c
    OBVIOUS
  <1>2. /\ Working(r) /\ i.todo[1] = "create" /\ Turns(r, j) /\ UNCHANGED <<calls, admitted, parent>>
        /\ c \in Clients
    BY <1>1, ClientTyped DEF AddClient, Goes, At, family
  <1>3. PICK new : /\ new = Client(IF parent[i.actor] # NoOwner THEN parent[i.actor] ELSE i.actor, i.fresh)
                   /\ Sets(clients', clients, c, new)
    BY <1>1, <1>2, ClientTyped DEF AddClient, Sets, ClientsInv, Typed
  <1>4. i.todo = <<"create", "own">> /\ i.saw.key = 0
    BY <1>1, <1>2, CreationAt DEF Creating
  <1>5. /\ o.todo = Tail(i.todo) /\ o.c = i.c /\ o.actor = i.actor /\ o.key = i.key
        /\ o.fresh = i.fresh /\ o.base = i.base /\ o.saw = i.saw /\ IsJob(o)
    BY <1>1, <1>2, OnwardFields
  <1>6. /\ j.todo = o.todo /\ j.c = o.c /\ j.actor = o.actor /\ j.key = i.fresh
        /\ j.fresh = o.fresh /\ j.base = o.base /\ j.saw = o.saw
    BY <1>1, <1>5 DEF IsJob
  <1>7. j.todo = <<"own">> /\ j.todo # <<>>
    BY <1>4, <1>5, <1>6, CreationCalls
  <1>8. job' = [job EXCEPT ![r] = j] /\ job'[r] = j /\ \A q \in Requests : q # r => job'[q] = job[q]
    BY <1>2, <1>7 DEF Turns, ClientsInv, Typed
  <1>9. Ordered(j)
    <2>1. GoesOn(i, j)
      BY <1>2, <1>5, <1>6 DEF GoesOn
    <2>2. i.todo \in Seq(Steps) /\ i.todo # <<>> /\ Fits(i.todo) /\ Ordered(i)
      BY <1>1, <1>2, ClientTyped DEF QuotaParts
    <2>3. QED
      BY <2>1, <2>2, OrderedRest
  <1>10. NewKey(r, i.fresh) /\ new.key = i.fresh
    <2>1. Ahead(Issuing, i.todo)
      <3>1. i.todo \in Seq(Steps) /\ i.todo # <<>>
        BY <1>1, <1>2, ClientTyped
      <3>2. QED
        BY <1>2, <3>1, RestAhead DEF Issuing
    <2>2. QED
      BY <1>1, <1>3, <2>1 DEF NewKey, Client
  <1>11. clients'[c] = new
    BY <1>3 DEF Sets
  <1>12. Moves(r, j, c) /\ Copies(r, j, c)
    <2>1. j.base \in Records(c)
      BY <1>1, <1>5, <1>6 DEF Records
    <2>2. QED
      BY <1>1, <1>3, <1>4, <1>5, <1>6, <1>8, <1>10, <1>11, <2>1 DEF Moves, Copies, Sets
  <1>13. (\A q \in Requests : Ordered(job[q])') /\ Rooted'
    BY <1>2, <1>8, <1>9 DEF QuotaParts, Ordered, Rooted
  <1>14. OldKeys'
    <2>1. Ahead(Issuing, j.todo) => Ahead(Issuing, i.todo) /\ j.fresh = i.fresh
      BY <1>1, <1>2, <1>5, <1>6, TurnIssues DEF TurnsTo
    <2>2. j.base.key \in Noted
      BY <1>1, <1>5, <1>6 DEF Noted
    <2>3. QED
      BY <1>1, <1>2, <1>8, <2>1, <2>2, OldKeysKept DEF QuotaParts
  <1>15. \A k, a : Admitted(k, a)' <=> Admitted(k, a)
    BY <1>2 DEF Admitted
  <1>16. Tickets' /\ (\A a : Creators(a)' \subseteq Creators(a) \ {r})
    <2>1. TurnsTo(i, j) /\ j.todo \notin Pending
      BY <1>5, <1>6, <1>7, CreationCalls DEF TurnsTo, Pending
    <2>2. QED
      BY <1>1, <1>2, <1>8, <2>1, TicketsKept DEF QuotaParts
  <1>17. Signed'
    <2> SUFFICES ASSUME NEW d \in Clients, NEW a \in Admins, Parents[a] = NoOwner,
                        NEW rec \in Records(d)', rec.key # 0, Admitted(rec.key, a)
                 PROVE  rec.comment = a
      BY <1>15 DEF Signed
    <2>1. Alike(Records(d), rec) \/ (NewKey(r, rec.key) /\ d = c /\ rec = new)
      BY <1>2, <1>11, <1>12, CopiesKept DEF ClientsInv
    <2>2. CASE NewKey(r, rec.key) /\ d = c /\ rec = new
      <3>1. a = i.actor
        BY <1>1, <2>2, NewKeyOpen DEF QuotaParts
      <3>2. parent[i.actor] = NoOwner
        BY <3>1 DEF QuotaParts, Rooted
      <3>3. QED
        BY <1>3, <2>2, <3>1, <3>2 DEF Client
    <2>3. CASE Alike(Records(d), rec)
      BY <2>3 DEF Alike, QuotaParts, Signed
    <2>4. QED
      BY <2>1, <2>2, <2>3
  <1>18. \A a : Claimed(a)' \subseteq Claimed(a) \cup {c} /\ (~Admitted(i.fresh, a) => Claimed(a)' \subseteq Claimed(a))
    <2> SUFFICES ASSUME NEW a, NEW d \in Clients, NEW rec \in Held(d)', rec.key # 0, Admitted(rec.key, a)
                 PROVE  d \in Claimed(a) \/ (d = c /\ Admitted(i.fresh, a))
      BY <1>15 DEF Claimed
    <2>1. (\E h \in Held(d) : h.key = rec.key) \/ (d = c /\ rec = new)
      BY <1>2, <1>11, <1>12, CopiesKept DEF ClientsInv
    <2>2. QED
      BY <1>10, <2>1 DEF Claimed
  <1>19. WithinQuota'
    <2> SUFFICES ASSUME NEW a \in Admins, Parents[a] = NoOwner
                 PROVE  Cardinality(Claimed(a)') + Cardinality(Creators(a)')
                            <= MaxClients + Cardinality(Requests) - 1
      BY DEF WithinQuota
    <2>1. /\ IsFiniteSet(Claimed(a)) /\ IsFiniteSet(Creators(a))
          /\ Cardinality(Claimed(a)) \in Nat /\ Cardinality(Creators(a)) \in Nat
          /\ Cardinality(Requests) \in Nat /\ MaxClients \in Nat
      BY QuotaFinite
    <2>2. Cardinality(Claimed(a)) + Cardinality(Creators(a)) <= MaxClients + Cardinality(Requests) - 1
      BY DEF QuotaParts, WithinQuota
    <2>3. Cardinality(Claimed(a)') + Cardinality(Creators(a)') <= Cardinality(Claimed(a)) + Cardinality(Creators(a))
      <3>1. CASE Admitted(i.fresh, a)
        <4>1. r \in Creators(a)
          BY <1>1, <1>4, <3>1 DEF Creators, Pending
        <4>2. Claimed(a)' \subseteq Claimed(a) \cup {c} /\ Creators(a)' \subseteq Creators(a) \ {r}
          BY <1>16, <1>18
        <4>3. QED
          BY <2>1, <4>1, <4>2, OneForOne
      <3>2. CASE ~Admitted(i.fresh, a)
        <4>1. Claimed(a)' \subseteq Claimed(a) /\ Creators(a)' \subseteq Creators(a)
          BY <1>16, <1>18, <3>2
        <4>2. /\ IsFiniteSet(Claimed(a)') /\ Cardinality(Claimed(a)') <= Cardinality(Claimed(a))
              /\ IsFiniteSet(Creators(a)') /\ Cardinality(Creators(a)') <= Cardinality(Creators(a))
          BY <2>1, <4>1, FS_Subset
        <4>3. Cardinality(Claimed(a)') \in Nat /\ Cardinality(Creators(a)') \in Nat
          BY <4>2, FS_CardinalityType
        <4>4. QED
          BY <2>1, <4>2, <4>3
      <3>3. QED
        BY <3>1, <3>2
    <2>4. Cardinality(Claimed(a)') \in Nat /\ Cardinality(Creators(a)') \in Nat
      <3>1. IsFiniteSet(Claimed(a) \cup {c})
        BY <2>1, FS_AddElement
      <3>2. Claimed(a)' \subseteq Claimed(a) \cup {c} /\ Creators(a)' \subseteq Creators(a)
        BY <1>16, <1>18
      <3>3. QED
        BY <2>1, <3>1, <3>2, FS_Subset, FS_CardinalityType
    <2>5. QED
      BY <2>1, <2>2, <2>3, <2>4
  <1>20. QED
    BY <1>13, <1>14, <1>16, <1>17, <1>19 DEF QuotaParts

\* A plan that neither creates, nor makes a gift, nor changes a parent.
Plain(plan) == ~Ahead({"gift", "parent"} \cup Creating, plan)

\* The plans of all operations but a gift, a creation and a change of parent.
LEMMA PlansPlain ==
  ASSUME NEW op \in Operations \ {"gift", "create", "parent"}, NEW plan \in Plans(op)
  PROVE  Plain(plan)
  <1> USE DEF Plain, Ahead, Creating
  <1>1. Plain(AddTraffic) /\ Plain(AddTrafficByLink)
    BY DEF AddTraffic, AddTrafficByLink, ResolveFromLink
  <1>2. Plain(ExtendExpiry) /\ Plain(AddDaysByLink)
    BY DEF ExtendExpiry, AddDaysByLink, ResolveFromLink
  <1>3. Plain(ClientToggleEnable) /\ Plain(EditConfigToggleEnable)
    BY DEF ToggleClient, ClientToggleEnable, EditConfigToggleEnable, ThenShown
  <1>4. Plain(SetTgId)
    BY DEF SetTgId
  <1>5. Plain(SetTotal) /\ Plain(ClientTrafficSet)
    BY DEF SetTotal, ClientTrafficSet, ThenShown
  <1>6. Plain(SetExpiryDays) /\ Plain(ClientExpirySet)
    BY DEF SetExpiryDays, ClientExpirySet, ThenShown
  <1>7. Plain(SetLimitIp) /\ Plain(IpLimitSet)
    BY DEF SetLimitIp, IpLimitSet, ThenShown
  <1>8. /\ Plain(<<"detail", "reset", "config", "total", "read_back">>)
        /\ Plain(<<"detail", "reset", "config", "total", "config", "days", "read_back">>)
    OBVIOUS
  <1>9. Plain(RotateByUser) /\ Plain(RotateByAdmin)
    BY DEF RotateUuid, RotateByUser, RotateByAdmin
  <1>10. Plain(EditConfigDeleteYes) /\ Plain(DeleteByLink)
    BY DEF DeleteClient, EditConfigDeleteYes, DeleteByLink, ResolveFromLink
  <1>11. Plain(CleanupDepleted)
    BY DEF CleanupDepleted
  <1>11a. Plain(SetClientOwner) /\ Plain(<<"list_all">>) /\ Plain(<<"list_own">>)
    BY DEF SetClientOwner
  <1> USE DEF Plans
  <1> HIDE DEF Plain
  <1>12. CASE op \in {"add", "extend", "toggle", "tg", "total", "days", "limit"}
    BY <1>1, <1>2, <1>3, <1>4, <1>5, <1>6, <1>7, <1>12
  <1>13. CASE op = "reset"
    BY <1>8, <1>13 DEF ResetTraffic
  <1>14. CASE op \in {"rotate", "delete", "cleanup"}
    BY <1>9, <1>10, <1>11, <1>14
  <1>15. CASE op \in {"owner", "list"}
    BY <1>11a, <1>15 DEF ListClients
  <1>16. QED
    BY <1>12, <1>13, <1>14, <1>15 DEF Operations

\* Only a creation creates, only a change of parent changes one, and none of them makes a gift.
LEMMA PlansOrdered ==
  ASSUME NEW op \in Operations \ {"gift"}, NEW plan \in Plans(op)
  PROVE  /\ ~Ahead({"gift"}, plan)
         /\ Ahead(Creating, plan) => plan = CreateClient
         /\ Ahead({"parent"}, plan) => op = "parent"
  <1>1. CASE op = "create"
    <2>1. plan = CreateClient
      BY <1>1 DEF Plans
    <2>2. ~Ahead({"gift"}, CreateClient) /\ ~Ahead({"parent"}, CreateClient)
      BY DEF CreateClient, Ahead
    <2>3. QED
      BY <2>1, <2>2
  <1>2. CASE op = "parent"
    <2>1. plan = ChangeParent
      BY <1>2 DEF Plans
    <2>2. ~Ahead({"gift"}, ChangeParent) /\ ~Ahead(Creating, ChangeParent)
      BY DEF ChangeParent, Ahead, Creating
    <2>3. QED
      BY <1>2, <2>1, <2>2
  <1>3. CASE op \notin {"create", "parent"}
    <2>1. Plain(plan)
      BY <1>3, PlansPlain
    <2>2. QED
      BY <2>1 DEF Plain, Ahead
  <1>4. QED
    BY <1>1, <1>2, <1>3

\* A request begins with nothing read and a uuid that nobody has noted.
LEMMA StartKeepsQuota ==
  ASSUME ClientsInv, QuotaParts, "gift" \notin load.ops,
         NEW r \in Requests, NEW op \in load.ops, NEW c \in load.on, NEW a \in Admins, Start(r, op, c, a)
  PROVE  QuotaParts'
  <1>1. op \in Operations \ {"gift"} /\ c \in Clients
    BY ClientsAssumption DEF ClientsInv, Typed
  <1>1a. PICK plan \in Plans(op) :
           job' = [job EXCEPT ![r] = [Idle EXCEPT !.todo = plan, !.c = c, !.actor = a, !.fresh = calls',
                                                  !.key = clients[c].key]]
    BY DEF Start
  <1>2. PICK j :
           /\ j = [Idle EXCEPT !.todo = plan, !.c = c, !.actor = a, !.fresh = calls + 1,
                               !.key = clients[c].key]
           /\ job' = [job EXCEPT ![r] = j]
    <2>1. calls' = calls + 1
      BY DEF Start
    <2>2. QED
      BY <1>1a, <2>1
  <1>3. /\ ~Working(r) /\ calls' = calls + 1 /\ (op = "parent" => Parents[a] # NoOwner)
        /\ UNCHANGED <<clients, admitted, parent>>
    BY DEF Start, panel, rows, family
  <1>4. Whole(plan) /\ plan # <<>>
    BY <1>1, PlansWhole DEF Whole
  <1>5. j.todo = plan /\ j.c = c /\ j.actor = a /\ j.fresh = calls + 1 /\ j.saw.key = 0 /\ j.base.key = 0
    BY <1>2 DEF Idle, Gone
  <1>6. job'[r] = j /\ \A q \in Requests : q # r => job'[q] = job[q]
    BY <1>2 DEF ClientsInv, Typed
  <1>7. ~Ahead({"gift"}, plan) /\ (Ahead(Creating, plan) => plan = CreateClient)
        /\ (Ahead({"parent"}, plan) => Parents[a] # NoOwner)
    BY <1>1, <1>3, PlansOrdered
  <1>8. Ordered(j)
    <2>1. ~(j.todo[1] \in Based \/ (Len(j.todo) > 1 /\ j.todo[2] \in Based))
      BY <1>4, <1>5 DEF Whole, Based, Mutations
    <2>2. QED
      BY <1>5, <1>7, <2>1 DEF Ordered
  <1>9. j.todo \notin Pending
    <2>1. plan \notin Later
      BY <1>7, CreationCalls
    <2>2. QED
      BY <1>5, <2>1 DEF Later
  <1>10. Moves(r, j, c) /\ Copies(r, j, c) /\ MakesNone(r)
    <2>1. Alike(Records(c), clients'[c]) /\ \E h \in Held(c) : h.key = clients'[c].key
      BY <1>3 DEF Alike, Records, Held
    <2>2. QED
      BY <1>2, <1>3, <1>5, <2>1 DEF Moves, Copies, MakesNone
  <1>11. (\A q \in Requests : Ordered(job[q])') /\ Rooted'
    BY <1>3, <1>6, <1>8 DEF QuotaParts, Ordered, Rooted
  <1>12. OldKeys'
    <2>1. \A k \in Noted' : k \in Noted \cup {0}
      BY <1>5, <1>6 DEF Noted
    <2>2. calls \in Nat /\ \A k \in Noted : k \in Nat /\ k <= calls
      BY DEF ClientsInv, Typed, QuotaParts, OldKeys
    <2>3. \A k \in Noted' : k \in Nat /\ k <= calls /\ k <= calls' /\ k # calls + 1
      BY <1>3, <2>1, <2>2
    <2>4. ASSUME NEW q \in Requests, Ahead(Issuing, job'[q].todo) PROVE job'[q].fresh \notin Noted'
      <3>1. CASE q = r
        BY <1>5, <1>6, <2>3, <3>1
      <3>2. CASE q # r
        <4>1. job[q].fresh > 0 /\ job[q].fresh \notin Noted /\ job'[q] = job[q]
          BY <1>6, <2>4, <3>2 DEF ClientsInv, FreshKeys, QuotaParts, OldKeys
        <4>2. QED
          BY <2>1, <4>1
      <3>3. QED
        BY <3>1, <3>2
    <2>5. QED
      BY <2>3, <2>4 DEF OldKeys
  <1>13. (\A k, b : Admitted(k, b)' <=> Admitted(k, b)) /\ (\A k, b : Admitted(k, b) => k \in Nat \ {0} /\ k <= calls)
    BY <1>3 DEF Admitted, QuotaParts, Tickets
  <1>14. calls \in Nat
    BY DEF ClientsInv, Typed
  <1>15. Tickets'
    <2>1. \A k, b : Admitted(k, b)' => k \in Nat \ {0} /\ k <= calls'
      BY <1>3, <1>13, <1>14
    <2>2. ASSUME NEW q \in Requests, NEW b, Ahead(Issuing, job'[q].todo), Admitted(job'[q].fresh, b)
          PROVE  job'[q].todo \in Pending /\ job'[q].actor = b
      <3>1. q # r
        BY <1>5, <1>6, <1>13, <1>14, <2>2
      <3>2. QED
        BY <1>6, <2>2, <3>1 DEF QuotaParts, Tickets
    <2>3. QED
      BY <1>13, <2>1, <2>2 DEF Tickets
  <1>16. Signed' /\ \A b : Claimed(b)' \subseteq Claimed(b)
    BY <1>1, <1>3, <1>10, SignedKept DEF QuotaParts
  <1>17. WithinQuota'
    <2>1. \A b \in Admins : Creators(b)' \subseteq Creators(b)
      BY <1>6, <1>9, <1>13 DEF Creators
    <2>2. QED
      BY <1>16, <2>1, FewerWithin DEF QuotaParts
  <1>18. QED
    BY <1>11, <1>12, <1>15, <1>16, <1>17 DEF QuotaParts

\* Steps that leave all of it as it is: a row that is rewritten is not looked at.
LEMMA SameKeepsQuota ==
  ASSUME QuotaParts, UNCHANGED <<clients, parent, job, calls, admitted>>
  PROVE  QuotaParts'
  <1>1. (\A r \in Requests : Ordered(job[r])') /\ Rooted' /\ OldKeys'
    BY DEF QuotaParts, Ordered, Rooted, OldKeys, Noted
  <1>2. \A k, a : Admitted(k, a)' <=> Admitted(k, a)
    BY DEF Admitted
  <1>3. \A c : Held(c)' = Held(c) /\ Records(c)' = Records(c)
    BY DEF Held, Records
  <1>4. Tickets' /\ Signed'
    BY <1>2, <1>3 DEF QuotaParts, Signed, Tickets
  <1>5. WithinQuota'
    <2>1. \A a : Claimed(a)' = Claimed(a) /\ Creators(a)' = Creators(a)
      BY <1>2, <1>3 DEF Claimed, Creators
    <2>2. QED
      BY <2>1 DEF QuotaParts, WithinQuota
  <1>6. QED
    BY <1>1, <1>4, <1>5 DEF QuotaParts

\* What is asked for in a behaviour does not change.
LEMMA SameLoad == ClientsNext => UNCHANGED load
  <1> USE DEF panel, Reads, ReadsList, ReadsListIfAny, Admits
  <1>1. ASSUME NEW c \in Clients, Use(c) PROVE UNCHANGED load
    BY <1>1 DEF Use
  <1>2. ASSUME NEW r \in Requests, NEW op, NEW c, NEW a, Start(r, op, c, a) PROVE UNCHANGED load
    BY <1>2 DEF Start
  <1>3. ASSUME NEW r \in Requests,
               \/ Fail(r) \/ Detail(r) \/ FindByUuid(r) \/ FindByAddress(r) \/ FindDepleted(r)
               \/ ReadBase(r) \/ ResetUsage(r) \/ ReadConfig(r) \/ WriteClient(r)
        PROVE  UNCHANGED load
    BY <1>3 DEF Fail, Detail, FindByUuid, FindByAddress, FindDepleted, ReadBase, ResetUsage, ReadConfig,
                WriteClient
  <1>4. ASSUME NEW r \in Requests,
               \/ EnterSegments(r) \/ ReadBack(r) \/ FindAddress(r) \/ Delete(r)
               \/ SetOwner(r) \/ SyncOwner(r) \/ ListAll(r) \/ ListOwned(r)
        PROVE  UNCHANGED load
    BY <1>4 DEF EnterSegments, ReadBack, FindAddress, Delete, SetOwner, SyncOwner, ListAll, ListOwned
  <1>5. ASSUME NEW r \in Requests,
               \/ CountOwned(r) \/ CheckAddress(r) \/ AddClient(r) \/ OwnClient(r)
               \/ UpdateComments(r) \/ ListOfChild(r) \/ FindUnsegmented(r) \/ SnapshotClient(r) \/ SetParent(r)
        PROVE  UNCHANGED load
    BY <1>5 DEF CountOwned, CheckAddress, AddClient, OwnClient, UpdateComments, ListOfChild,
                FindUnsegmented, SnapshotClient, SetParent
  <1>6. QED
    BY <1>1, <1>2, <1>3, <1>4, <1>5 DEF ClientsNext
-------------------------------------------------------------------------------
\* At the start nobody is admitted, and the parents are those of a family.
LEMMA InitQuota == ClientsInit => QuotaInv
  <1> SUFFICES ASSUME ClientsInit PROVE QuotaParts
    BY DEF QuotaInv
  <1>1. /\ load \in Loads /\ admitted = {} /\ calls = 1 /\ parent \in load.families
        /\ job = [r \in Requests |-> Idle]
    BY DEF ClientsInit
  <1>2. \A r \in Requests : job[r] = Idle
    BY <1>1
  <1>3. \A k, a : ~Admitted(k, a)
    BY <1>1 DEF Admitted
  <1>4. \A r \in Requests : Ordered(job[r])
    BY <1>2, IdleOrdered
  <1>5. Rooted
    BY <1>1, ClientsAssumption DEF Rooted
  <1>6. OldKeys
    <2>1. \A k \in Noted : k = 0
      BY <1>2, IdleOrdered DEF Noted
    <2>2. ~Ahead(Issuing, Idle.todo)
      BY DEF Idle, Ahead
    <2>3. QED
      BY <1>1, <1>2, <2>1, <2>2 DEF OldKeys
  <1>7. Tickets /\ Signed
    BY <1>3 DEF Tickets, Signed
  <1>8. WithinQuota
    <2>1. \A a : Claimed(a) = {} /\ Creators(a) = {}
      BY <1>3 DEF Claimed, Creators
    <2>2. Cardinality({}) = 0 /\ Cardinality(Requests) \in Nat /\ MaxClients \in Nat \ {0}
      BY FS_EmptySet, FS_CardinalityType, ClientsAssumption
    <2>3. QED
      BY <2>1, <2>2 DEF WithinQuota
  <1>9. QED
    BY <1>4, <1>5, <1>6, <1>7, <1>8 DEF QuotaParts

\* Every step keeps it.
LEMMA NextQuota == ClientsInv /\ QuotaInv /\ [ClientsNext]_clientVars => QuotaInv'
  <1> SUFFICES ASSUME ClientsInv, QuotaInv, [ClientsNext]_clientVars, ("gift" \notin load.ops)'
               PROVE  QuotaParts'
    BY DEF QuotaInv
  <1>0. "gift" \notin load.ops /\ QuotaParts
    <2>1. UNCHANGED load
      BY SameLoad DEF clientVars, panel
    <2>2. QED
      BY <2>1 DEF QuotaInv
  <1>1. CASE UNCHANGED clientVars
    BY <1>0, <1>1, SameKeepsQuota DEF clientVars, panel, family, ghosts
  <1>2. ASSUME NEW c \in Clients, Use(c) PROVE QuotaParts'
    BY <1>0, <1>2, SameKeepsQuota DEF Use, family, ghosts
  <1>3. ASSUME NEW r \in Requests, SyncOwner(r) PROVE QuotaParts'
    BY <1>0, <1>3, SameKeepsQuota DEF SyncOwner, panel, family, ghosts
  <1>4. ASSUME NEW r \in Requests, NEW op \in load.ops, NEW c \in load.on, NEW a \in Admins,
               Start(r, op, c, a)
        PROVE  QuotaParts'
    BY <1>0, <1>4, StartKeepsQuota
  <1>5. ASSUME NEW r \in Requests,
               \/ Detail(r) \/ FindByAddress(r) \/ ReadBase(r) \/ ReadConfig(r) \/ ListOfChild(r)
               \/ UpdateComments(r) \/ FindUnsegmented(r)
        PROVE  QuotaParts'
    BY <1>0, <1>5, LooksKeepQuota
  <1>6. ASSUME NEW r \in Requests,
               \/ FindByUuid(r) \/ FindDepleted(r) \/ ReadBack(r) \/ FindAddress(r) \/ CheckAddress(r)
               \/ ResetUsage(r) \/ EnterSegments(r) \/ SnapshotClient(r) \/ SetOwner(r) \/ OwnClient(r)
               \/ ListAll(r) \/ ListOwned(r)
        PROVE  QuotaParts'
    BY <1>0, <1>6, PassesKeepQuota
  <1>7. ASSUME NEW r \in Requests, Fail(r) \/ SetParent(r) \/ WriteClient(r) \/ Delete(r)
        PROVE  QuotaParts'
    BY <1>0, <1>7, FailKeepsQuota, SetParentKeepsQuota, WriteClientKeepsQuota, DeleteKeepsQuota
  <1>8. ASSUME NEW r \in Requests, CountOwned(r) \/ AddClient(r)
        PROVE  QuotaParts'
    BY <1>0, <1>8, CountOwnedKeepsQuota, AddClientKeepsQuota
  <1>9. QED
    BY <1>1, <1>2, <1>3, <1>4, <1>5, <1>6, <1>7, <1>8 DEF ClientsNext

\* The quota (_create_client_for_actor) is checked some awaits before the client is there: however
\* many requests race, whatever edits, rotations, deletions, changes of owner and of parent come
\* between, and whatever rows the listings rewrite, the count itself among them, an admin that
\* may have no parent gets past it by no more than the other requests that are under way at once,
\* in the clients it created after a count that was answered.  A gift puts the admin that makes it
\* into the comment, which the count goes by: then the bound is not claimed.
THEOREM ClientsQuota == ClientsSpec => []QuotaOverrunBounded
  <1>1. ASSUME QuotaInv PROVE QuotaOverrunBounded
    <2> SUFFICES ASSUME "gift" \notin load.ops, NEW a \in Admins, Parents[a] = NoOwner,
                        NEW S, S = {c \in Clients : <<clients[c].key, a>> \in admitted}
                 PROVE  Cardinality(S) <= MaxClients + Cardinality(Requests) - 1
      BY DEF QuotaOverrunBounded
    <2>1. QuotaParts
      BY <1>1 DEF QuotaInv
    <2>2. S \subseteq Claimed(a)
      <3> SUFFICES ASSUME NEW c \in Clients, <<clients[c].key, a>> \in admitted PROVE c \in Claimed(a)
        OBVIOUS
      <3>1. Admitted(clients[c].key, a)
        BY DEF Admitted
      <3>2. clients[c] \in Held(c) /\ clients[c].key # 0
        BY <2>1, <3>1 DEF Held, QuotaParts, Tickets
      <3>3. QED
        BY <3>1, <3>2 DEF Claimed
    <2>3. /\ IsFiniteSet(Claimed(a)) /\ Cardinality(Claimed(a)) \in Nat /\ Cardinality(Creators(a)) \in Nat
          /\ Cardinality(Requests) \in Nat /\ MaxClients \in Nat
      BY QuotaFinite
    <2>4. Cardinality(S) <= Cardinality(Claimed(a)) /\ Cardinality(S) \in Nat
      BY <2>2, <2>3, FS_Subset, FS_CardinalityType
    <2>5. Cardinality(Claimed(a)) + Cardinality(Creators(a)) <= MaxClients + Cardinality(Requests) - 1
      BY <2>1 DEF QuotaParts, WithinQuota
    <2>6. QED
      BY <2>3, <2>4, <2>5
  <1>2. ClientsInv /\ QuotaInv /\ [ClientsNext]_clientVars => QuotaInv'
    BY NextQuota
  <1>3. QED
    BY <1>1, <1>2, InitQuota, ClientsInvariant, PTL DEF ClientsSpec
===============================================================================
