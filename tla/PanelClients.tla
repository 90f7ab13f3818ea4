------------------------------ MODULE PanelClients ------------------------------
(***************************************************************************)
(* The clients of a panel, which the bot changes by reading a client and   *)
(* writing it back whole (panel_service.py), under the operations of       *)
(* admin_provisioning_service.py.  Every operation is a plan: the calls it *)
(* makes, in order; an update is a job that works off its plan, and jobs   *)
(* overlap.  A step ends at a call of the panel; queries of the database   *)
(* that come before it are part of it.  What an operation costs is in      *)
(* Wallets; here it is refused or goes on.                                 *)
(*                                                                         *)
(* A client is found by its uuid (key) and its rows in the database belong *)
(* to that uuid.  A legacy panel updates the client with a uuid, a v3      *)
(* panel the client with an e-mail address; an e-mail address is what an   *)
(* element of Clients stands for.                                          *)
(***************************************************************************)
EXTENDS Integers, Sequences, FiniteSets, TLC

CONSTANTS Requests, Clients, Admins,
          Parents,      \* the admin that may become the parent of an admin, or NoOwner
          NoOwner,
          Loads,        \* what is asked for: [ops, on: clients, old: those that may be there at
                        \* the start, families: parents at the start, most: bound of operations]
          MaxClients    \* the quota of an admin

\* What may be asked for.
Operations == {"add", "gift", "extend", "toggle", "tg", "total", "days", "limit", "reset", "rotate",
               "delete", "cleanup", "owner", "list", "create", "parent"}

\* A quota is one only when it is above zero.
ASSUME ClientsAssumption ==
    /\ IsFiniteSet(Requests) /\ IsFiniteSet(Clients)
    /\ NoOwner \notin Admins
    /\ MaxClients \in Nat \ {0}
    /\ \A l \in Loads :
          /\ l.ops \subseteq Operations /\ l.on \subseteq Clients
          /\ \A f \in l.families : f \in [Admins -> {NoOwner} \cup Admins]
                                  /\ \A a \in Admins : f[a] \in {NoOwner, Parents[a]}

VARIABLES load,       \* the load of this behaviour
          version,    \* of the panel: "legacy" or "v3"
          clients,    \* what the panel holds
          spent,      \* clients that have used up their traffic or time
          owners,     \* client_owners: rows by client and uuid
          segments,   \* moaf_client_traffic_segments
          parent,     \* delegated_admins.parent_user_id
          lastParent, \* what _last_parent_user_id finds in the events
          job,        \* where each request stands
          unsynced,   \* what each request has listed and is to compare with the rows
          calls,      \* operations asked for so far; also a source of fresh uuids
          due,        \* what the operations that took effect amount to, one after the other
          clashed,    \* clients two operations were at work on at the same time
          rebased,    \* clients whose total was set anew
          retired,    \* uuids that were replaced or deleted
          admitted    \* the uuids of the creations that got past a count for the quota, and the admins

panel == <<load, version, clients, spent>>
rows == <<owners, segments>>
family == <<parent, lastParent>>
ghosts == <<due, clashed, rebased, retired, admitted>>
clientVars == <<panel, rows, family, job, unsynced, calls, ghosts>>

Gone == [gb |-> 0, days |-> 0, on |-> FALSE, limit |-> 0, tg |-> 0, moaf |-> FALSE, comment |-> NoOwner, key |-> 0]
Client(a, k) == [gb |-> 1, days |-> 1, on |-> TRUE, limit |-> 0, tg |-> 0, moaf |-> FALSE, comment |-> a, key |-> k]
Idle == [todo |-> <<>>, c |-> "none", actor |-> NoOwner, key |-> 0, fresh |-> 0,
         before |-> Gone, known |-> FALSE, record |-> FALSE, owner |-> NoOwner, under |-> NoOwner,
         base |-> Gone, saw |-> Gone]

Exists(c) == clients[c].key > 0
Found(r) == Exists(job[r].c) /\ clients[job[r].c].key = job[r].key
Mapped(c) == LET row == <<c, clients[c].key>> IN IF row \in DOMAIN owners THEN owners[row] ELSE NoOwner

\* _owner_id_for_client: the comment first, then the row.
OwnerOf(c) == IF clients[c].comment # NoOwner THEN clients[c].comment ELSE Mapped(c)
Owned(a) == {c \in Clients : Exists(c) /\ OwnerOf(c) = a}

ClientsInit ==
    /\ load \in Loads
    /\ version \in {"legacy", "v3"}
    /\ clients \in {f \in [Clients -> {Gone, Client(NoOwner, 1)}] : \A c \in Clients \ load.old : f[c] = Gone}
    /\ spent = {}
    /\ owners = <<>>
    /\ segments = {}
    /\ parent \in load.families
    /\ lastParent \in {parent, [a \in Admins |-> NoOwner]}   \* granted by its parent, without an event
    /\ job = [r \in Requests |-> Idle]
    /\ unsynced = [r \in Requests |-> {}]
    /\ calls = 1
    /\ due = clients
    /\ clashed = {}
    /\ rebased = {}
    /\ retired = {}
    /\ admitted = {}
-------------------------------------------------------------------------------
\* The operations, each as the calls it makes.
AddTraffic == <<"detail", "base", "config", "add", "enter">>
GiftTraffic == <<"detail", "base", "config", "gift", "enter_gift">>
ExtendExpiry == <<"detail", "base", "config", "extend", "read_back">>
ToggleClient == <<"detail", "base", "config", "toggle">>
SetTgId == <<"config", "tg", "read_back">>
SetTotal == <<"detail", "config", "total", "read_back">>
SetExpiryDays == <<"detail", "config", "days", "read_back">>
SetLimitIp == <<"detail", "config", "limit">>
\* The expiry is set only where the admin's first charge for the client says how long it was.
ResetTraffic == {<<"detail", "reset", "config", "total">> \o rest \o <<"read_back">> :
                    rest \in {<<>>, <<"config", "days">>}}
RotateUuid == <<"address", "config", "rotate">>
RotateByUser == RotateUuid
RotateByAdmin == <<"detail">> \o RotateUuid
DeleteClient == <<"detail", "list", "delete">>
CleanupDepleted == <<"list_all", "depleted", "list", "delete">>
SetClientOwner == <<"detail", "own_to">>
ListClients == {<<"list_all">>, <<"list_own">>}
CreateClient == <<"count", "free", "create", "own">>
ChangeParent == <<"comments", "list_child", "unsegmented", "snapshot", "parent">>

\* The buttons of the client menus show the client again.
ThenShown(plan) == plan \o <<"read_back">>
ClientTrafficSet == ThenShown(SetTotal)
ClientExpirySet == ThenShown(SetExpiryDays)
IpLimitSet == ThenShown(SetLimitIp)
ClientToggleEnable == ThenShown(ToggleClient)
EditConfigToggleEnable == ThenShown(ToggleClient)
EditConfigDeleteYes == DeleteClient

\* The same for a client that is named by its vless link, among the inbounds the admin sees.
ResolveFromLink(plan) == <<"list_own", "link">> \o plan

\* add_traffic_by_vless_for_actor and its two companions.
AddTrafficByLink == ResolveFromLink(AddTraffic)
AddDaysByLink == ResolveFromLink(ExtendExpiry)
DeleteByLink == ResolveFromLink(DeleteClient)

Plans(op) == CASE op = "add" -> {AddTraffic, AddTrafficByLink}
               [] op = "gift" -> {GiftTraffic}
               [] op = "extend" -> {ExtendExpiry, AddDaysByLink}
               [] op = "toggle" -> {ClientToggleEnable, EditConfigToggleEnable}
               [] op = "tg" -> {SetTgId}
               [] op = "total" -> {SetTotal, ClientTrafficSet}
               [] op = "days" -> {SetExpiryDays, ClientExpirySet}
               [] op = "limit" -> {SetLimitIp, IpLimitSet}
               [] op = "reset" -> ResetTraffic
               [] op = "rotate" -> {RotateByUser, RotateByAdmin}
               [] op = "delete" -> {EditConfigDeleteYes, DeleteByLink}
               [] op = "cleanup" -> {CleanupDepleted}
               [] op = "owner" -> {SetClientOwner}
               [] op = "list" -> ListClients
               [] op = "create" -> {CreateClient}
               [] op = "parent" -> {ChangeParent}
-------------------------------------------------------------------------------
\* What a mutator changes in the record that is written back; base is what a first read gave.
AddGb(rec, base) == [rec EXCEPT !.gb = base.gb + 1, !.comment = base.comment, !.moaf = base.moaf]
GiftGb(rec, base, actor) == [rec EXCEPT !.gb = base.gb + 1, !.comment = actor, !.moaf = TRUE]
ExtendDays(rec, base) == [rec EXCEPT !.days = base.days + 1]
Toggle(rec, base) == [rec EXCEPT !.on = ~base.on]
TotalGb(rec) == [rec EXCEPT !.gb = 1]
ExpiryDays(rec) == [rec EXCEPT !.days = 1]
LimitIp(rec) == [rec EXCEPT !.limit = 1]
TgId(rec) == [rec EXCEPT !.tg = 1]
NewUuid(rec, fresh) == [rec EXCEPT !.key = fresh]

\* A payload that leaves out one of the fields.
PayloadWithoutTgId(changed) == [changed EXCEPT !.tg = 0]

\* _build_client_update_payload: every field of the record goes back.
Payload(changed) == changed

Mutations == {"add", "gift", "extend", "toggle", "total", "days", "limit", "tg", "rotate"}
Changed(step, rec, base, j) ==
    CASE step = "add" -> AddGb(rec, base)
      [] step = "gift" -> GiftGb(rec, base, j.actor)
      [] step = "extend" -> ExtendDays(rec, base)
      [] step = "toggle" -> Toggle(rec, base)
      [] step = "total" -> TotalGb(rec)
      [] step = "days" -> ExpiryDays(rec)
      [] step = "limit" -> LimitIp(rec)
      [] step = "tg" -> TgId(rec)
      [] step = "rotate" -> NewUuid(rec, j.fresh)
Renewing == {"add", "gift", "extend", "total", "days"}
-------------------------------------------------------------------------------
Working(r) == job[r].todo # <<>>
At(r, step) == Working(r) /\ unsynced[r] = {} /\ Head(job[r].todo) = step
Onward(r) == [job[r] EXCEPT !.todo = Tail(@)]
Turns(r, j) == job' = [job EXCEPT ![r] = IF j.todo = <<>> THEN Idle ELSE j]
Goes(r, j) == Turns(r, j) /\ unsynced' = [unsynced EXCEPT ![r] = {}]
Reads(r, j) == Goes(r, j) /\ UNCHANGED <<panel, rows, family, calls, ghosts>>

\* Not found, no access, no credit, or an error of the panel: what was paid is given back.
Fail(r) == Working(r) /\ Reads(r, Idle)

\* A button, with the uuid it was made for.
Start(r, op, c, a) ==
    /\ ~Working(r) /\ unsynced[r] = {}
    /\ op = "create" \/ Exists(c)
    /\ op = "parent" => Parents[a] # NoOwner
    /\ calls' = calls + 1
    /\ \E plan \in Plans(op) :
          job' = [job EXCEPT ![r] = [Idle EXCEPT !.todo = plan, !.c = c, !.actor = a, !.fresh = calls',
                                                 !.key = clients[c].key]]
    /\ clashed' = IF \E q \in Requests \ {r} : Working(q) /\ job[q].c = c THEN clashed \cup {c} ELSE clashed
    /\ UNCHANGED <<panel, rows, family, unsynced, due, rebased, retired, admitted>>

\* The client uses up its traffic or its time.
Use(c) == /\ "cleanup" \in load.ops
          /\ Exists(c)
          /\ c \notin spent
          /\ spent' = spent \cup {c}
          /\ UNCHANGED <<load, version, clients, rows, family, job, unsynced, calls, ghosts>>
-------------------------------------------------------------------------------
SetRow(c, k, a) == owners' = [x \in {<<c, k>>} \cup DOMAIN owners |-> IF x = <<c, k>> THEN a ELSE owners[x]]
DropRow(c, k) == owners' = [x \in DOMAIN owners \ {<<c, k>>} |-> owners[x]]

\* list_clients of a legacy panel finds fault with the rows of its clients, whosever they are.
\* The rows are at hand only when the clients of one admin are wanted: a client whose comment
\* names somebody is taken for one without a row otherwise, and any other is left alone.
Differs(c, own) == clients[c].comment # (IF own THEN Mapped(c) ELSE NoOwner)
Unsynced(own) ==
    {[c |-> c, key |-> clients[c].key, names |-> clients[c].comment] :
        c \in {d \in Clients : version = "legacy" /\ Exists(d) /\ Differs(d, own)}}

Lists(r, j, own) == Turns(r, j) /\ unsynced' = [unsynced EXCEPT ![r] = Unsynced(own)]
ReadsList(r, j, own) == Lists(r, j, own) /\ UNCHANGED <<panel, rows, family, calls, ghosts>>

\* A list for which an error of the panel is passed over.
ReadsListIfAny(r, j, own) == ReadsList(r, j, own) \/ Reads(r, j)

\* _sync_client_owner_from_comment, client by client before the list is returned: what the
\* comment says is written to the row, and the row of a client whose comment names nobody is
\* deleted.  An error of the database is passed over.
SyncOwner(r) ==
    \E x \in unsynced[r] :
        /\ unsynced' = [unsynced EXCEPT ![r] = @ \ {x}]
        /\ \/ x.names # NoOwner /\ SetRow(x.c, x.key, x.names)
           \/ x.names = NoOwner /\ DropRow(x.c, x.key)
           \/ UNCHANGED owners
        /\ UNCHANGED <<panel, segments, family, job, calls, ghosts>>

\* A list of all clients, and one of those of an admin, whose inbounds are wanted or the clients.
ListAll(r) == At(r, "list_all") /\ ReadsList(r, Onward(r), FALSE)
ListOwned(r) == At(r, "list_own") /\ ReadsListIfAny(r, Onward(r), TRUE)
-------------------------------------------------------------------------------
\* get_client_detail, and find_client_by_uuid for the uuid of a link.
Detail(r) == At(r, "detail") /\ Found(r) /\ Reads(r, [Onward(r) EXCEPT !.before = clients[job[r].c]])
FindByUuid(r) == At(r, "link") /\ Found(r) /\ Reads(r, Onward(r))

\* For a rotation the client is found by its e-mail address.
FindByAddress(r) ==
    At(r, "address") /\ Exists(job[r].c) /\ Reads(r, [Onward(r) EXCEPT !.key = clients[job[r].c].key])

\* A client that is used up and was seen online long enough ago.
FindDepleted(r) == At(r, "depleted") /\ Found(r) /\ job[r].c \in spent /\ Reads(r, Onward(r))

HasSegments(j) == \E g \in segments : g.c = j.c /\ g.key = j.key

\* The rows a top-up asks for, then the first of two reads of the client: the new value is
\* worked out from it.
ReadBase(r) ==
    LET j == job[r]
        known == HasSegments(j)
    IN  /\ At(r, "base")
        /\ Found(r)
        /\ Reads(r, [Onward(r) EXCEPT
                        !.base = clients[j.c],
                        !.known = known,
                        !.under = parent[j.actor],
                        !.record = known \/ parent[j.actor] # NoOwner \/ lastParent[j.actor] # NoOwner,
                        !.owner = IF Mapped(j.c) # NoOwner THEN Mapped(j.c) ELSE j.before.comment])

ResetUsage(r) == /\ At(r, "reset")
                 /\ Goes(r, Onward(r))
                 /\ spent' = spent \ {job[r].c}
                 /\ UNCHANGED <<load, version, clients, rows, family, calls, ghosts>>

\* _get_client_config: the record that will be written back.
ReadConfig(r) == At(r, "config") /\ Found(r) /\ Reads(r, [Onward(r) EXCEPT !.saw = clients[job[r].c]])

\* A legacy panel that would find the client by its e-mail address too.
ReachesByEmail(r) == Exists(job[r].c)

\* A legacy panel finds the client by its uuid, a v3 panel by its e-mail address.
Reaches(r) == IF version = "legacy" THEN Found(r) ELSE Exists(job[r].c)

\* _update_client_by_mutation writes the whole record.
WriteClient(r) ==
    LET j == job[r]
        step == Head(j.todo)
        new == Payload(Changed(step, j.saw, j.base, j))
    IN  /\ Working(r)
        /\ step \in Mutations
        /\ Reaches(r)
        /\ clients' = [clients EXCEPT ![j.c] = new]
        /\ spent' = IF step \in Renewing THEN spent \ {j.c} ELSE spent
        /\ due' = [due EXCEPT ![j.c] = Changed(step, @, @, j)]
        /\ rebased' = IF step = "total" THEN rebased \cup {j.c} ELSE rebased
        /\ retired' = IF new.key # clients[j.c].key THEN retired \cup {<<j.c, clients[j.c].key>>} ELSE retired
        /\ Goes(r, Onward(r))
        /\ UNCHANGED <<load, version, rows, family, calls, clashed, admitted>>
-------------------------------------------------------------------------------
\* add_moaf_client_traffic_segment drops what is empty.
Segment(j, from, to, bill) ==
    IF to > from THEN {[c |-> j.c, key |-> j.key, from |-> from, to |-> to, bill |-> bill]} ELSE {}

\* The traffic that was there before the first segment: free when it was a gift.
InitialSegment(j, gift) ==
    LET given == j.under # NoOwner /\ (j.before.moaf \/ (gift /\ j.under = j.owner))
    IN  Segment(j, 0, j.before.gb, ~given)

\* A top-up that starts anew every time.
TopUpSegmentsAnew(j, now, gift) ==
    IF j.record /\ j.owner # NoOwner
    THEN InitialSegment(j, gift) \cup Segment(j, j.before.gb, now, ~gift)
    ELSE {}

\* What a top-up enters: under a parent, or once there is a history.
TopUpSegments(j, now, gift) ==
    IF j.record /\ (j.known \/ j.owner # NoOwner)
    THEN (IF j.known THEN {} ELSE InitialSegment(j, gift))
         \cup (IF gift \/ j.under # NoOwner THEN Segment(j, j.before.gb, now, ~gift) ELSE {})
    ELSE {}

\* The client is read back after a top-up, and the segments are written.
EnterSegments(r) ==
    /\ At(r, "enter") \/ At(r, "enter_gift")
    /\ Found(r)
    /\ segments' = segments \cup TopUpSegments(job[r], clients[job[r].c].gb, At(r, "enter_gift"))
    /\ Goes(r, Onward(r))
    /\ UNCHANGED <<panel, owners, family, calls, ghosts>>

\* After the other operations it is read back for the answer and the notices only.
ReadBack(r) == At(r, "read_back") /\ Found(r) /\ Reads(r, Onward(r))
-------------------------------------------------------------------------------
\* delete_client looks for the e-mail address of the uuid in a list, which a v3 panel needs.
FindAddress(r) ==
    At(r, "list") /\ (version = "legacy" \/ Found(r)) /\ ReadsListIfAny(r, Onward(r), FALSE)

Delete(r) ==
    LET c == job[r].c
    IN  /\ At(r, "delete")
        /\ Reaches(r)
        /\ clients' = [clients EXCEPT ![c] = Gone]
        /\ retired' = retired \cup {<<c, clients[c].key>>}
        /\ due' = [due EXCEPT ![c] = Gone]
        /\ spent' = spent \ {c}
        /\ Goes(r, Onward(r))
        /\ UNCHANGED <<load, version, rows, family, calls, clashed, rebased, admitted>>
-------------------------------------------------------------------------------
\* set_client_owner_for_actor: the row only; the new owner is an active admin.
SetOwner(r) == /\ At(r, "own_to")
               /\ \E a \in Admins : SetRow(job[r].c, job[r].key, a)
               /\ Goes(r, Onward(r))
               /\ UNCHANGED <<panel, segments, family, calls, ghosts>>
-------------------------------------------------------------------------------
\* A creation is let through, and its uuid is noted.
Admits(r) == /\ Lists(r, Onward(r), TRUE)
             /\ admitted' = admitted \cup {<<job[r].fresh, job[r].actor>>}
             /\ UNCHANGED <<panel, rows, family, calls, due, clashed, rebased, retired>>

\* The quota forgotten.
CountNothing(r) == At(r, "count") /\ Admits(r)

\* The quota of an admin, against the clients the panel lists for it; a panel that does not
\* answer counts as one without clients.
CountOwned(r) ==
    /\ At(r, "count")
    /\ \/ Cardinality(Owned(job[r].actor)) < MaxClients /\ Admits(r)
       \/ Reads(r, Onward(r))

\* create_client of the panel service refuses an address that is taken, and asks for a uuid.
CheckAddress(r) == At(r, "free") /\ ~Exists(job[r].c) /\ Reads(r, Onward(r))

\* The comment names the parent of the admin, or the admin when there is none.
AddClient(r) ==
    LET j == job[r]
        new == Client(IF parent[j.actor] # NoOwner THEN parent[j.actor] ELSE j.actor, j.fresh)
    IN  /\ At(r, "create")
        /\ ~Exists(j.c)
        /\ clients' = [clients EXCEPT ![j.c] = new]
        /\ due' = [due EXCEPT ![j.c] = new]
        /\ Goes(r, [Onward(r) EXCEPT !.key = j.fresh])
        /\ UNCHANGED <<load, version, spent, rows, family, calls, clashed, rebased, retired, admitted>>

\* The row names the admin, whoever the comment names.  After a parent, present or past, the
\* traffic is a segment; after a change of parent there is a free one as well.
OwnClient(r) ==
    LET j == job[r]
        now == parent[j.actor]
        past == lastParent[j.actor]
    IN  /\ At(r, "own")
        /\ SetRow(j.c, j.key, j.actor)
        /\ segments' = segments
              \cup (IF past # NoOwner /\ now # NoOwner THEN Segment(j, 0, 1, TRUE) ELSE {})
              \cup (IF past # NoOwner /\ past # now THEN Segment(j, 0, 1, FALSE) ELSE {})
        /\ Goes(r, Onward(r))
        /\ UNCHANGED <<panel, family, calls, ghosts>>
-------------------------------------------------------------------------------
\* The buttons: away from the parent it has, to one that is shown, or back to the last one.
SubordinateToggle(a) == IF parent[a] = Parents[a] THEN NoOwner ELSE Parents[a]
RootParentToggle(a) == IF parent[a] # NoOwner THEN NoOwner ELSE lastParent[a]

\* _update_client_comments_for_new_parent lists and reads the clients of the admin, and calls
\* a method for them that panel_service does not have; every exception is passed over.  The
\* parents, new and old, were read before.
UpdateComments(r) ==
    LET a == job[r].actor
    IN  /\ At(r, "comments")
        /\ \E new \in {SubordinateToggle(a), RootParentToggle(a)} \ {parent[a]} :
              ReadsListIfAny(r, [Onward(r) EXCEPT !.under = new, !.record = parent[a] # NoOwner], TRUE)

\* _snapshot_existing_clients_for_parent, when there was a parent: one of the clients in the
\* list, ...
ListOfChild(r) ==
    LET j == job[r]
        listed == [Onward(r) EXCEPT !.key = clients[j.c].key,
                                    !.record = @ /\ Exists(j.c) /\ OwnerOf(j.c) = j.actor]
    IN  /\ At(r, "list_child")
        /\ \/ j.record /\ ReadsList(r, listed, TRUE)
           \/ Reads(r, [Onward(r) EXCEPT !.record = FALSE])

\* ... without segments ...
FindUnsegmented(r) ==
    At(r, "unsegmented") /\ Reads(r, [Onward(r) EXCEPT !.record = @ /\ ~HasSegments(job[r])])

\* ... and with the admin in its comment.
SnapshotClient(r) ==
    LET j == job[r]
    IN  /\ At(r, "snapshot")
        /\ segments' = segments \cup
              IF j.record /\ Found(r) /\ clients[j.c].comment = j.actor
              THEN Segment(j, 0, clients[j.c].gb, TRUE) ELSE {}
        /\ Goes(r, Onward(r))
        /\ UNCHANGED <<panel, owners, family, calls, ghosts>>

\* set_delegated_admin_parent, with its event.
SetParent(r) ==
    LET a == job[r].actor
        new == job[r].under
    IN  /\ At(r, "parent")
        /\ parent' = [parent EXCEPT ![a] = new]
        /\ lastParent' = [lastParent EXCEPT ![a] = IF parent[a] # NoOwner THEN parent[a] ELSE new]
        /\ Goes(r, Onward(r))
        /\ UNCHANGED <<panel, rows, calls, ghosts>>
-------------------------------------------------------------------------------
ClientsNext ==
    \/ \E c \in Clients : Use(c)
    \/ \E r \in Requests :
          \/ calls < load.most /\ \E op \in load.ops, c \in load.on, a \in Admins : Start(r, op, c, a)
          \/ Fail(r) \/ SyncOwner(r) \/ ListAll(r) \/ ListOwned(r)
          \/ Detail(r) \/ FindByUuid(r) \/ FindByAddress(r) \/ FindDepleted(r)
          \/ ReadBase(r) \/ ResetUsage(r) \/ ReadConfig(r) \/ WriteClient(r)
          \/ EnterSegments(r) \/ ReadBack(r) \/ FindAddress(r) \/ Delete(r)
          \/ SetOwner(r) \/ CountOwned(r) \/ CheckAddress(r) \/ AddClient(r) \/ OwnClient(r)
          \/ UpdateComments(r) \/ ListOfChild(r) \/ FindUnsegmented(r) \/ SnapshotClient(r)
          \/ SetParent(r)

ClientsSpec == ClientsInit /\ [][ClientsNext]_clientVars
-------------------------------------------------------------------------------
ClientsTypeOK ==
    /\ load \in Loads
    /\ version \in {"legacy", "v3"}
    /\ \A c \in Clients : clients[c].gb \in Nat /\ clients[c].days \in Nat
                          /\ clients[c].key \in 0..load.most
                          /\ clients[c].comment \in Admins \cup {NoOwner}
    /\ spent \subseteq {c \in Clients : Exists(c)}
    /\ \A row \in DOMAIN owners : row \in Clients \X (1..load.most) /\ owners[row] \in Admins
    /\ \A g \in segments : g.from < g.to
    /\ \A a \in Admins : parent[a] \in {NoOwner, Parents[a]}
    /\ calls \in 1..load.most
    /\ \A r \in Requests : \A x \in unsynced[r] :
          x.c \in Clients /\ x.key \in 1..load.most /\ x.names \in Admins \cup {NoOwner}
    /\ admitted \subseteq (1..load.most) \X Admins

\* A client is what the operations on it amount to, every field of it, unless two of them
\* were at work on it at the same time: reading a client and writing all of it back disturbs
\* nothing else, whichever operations failed half way.
UndisturbedEdits == \A c \in Clients \ clashed : clients[c] = due[c]

\* On a legacy panel a uuid that was replaced or deleted does not come back, whatever edits
\* were under way with it.
RotatedKeyStaysDead ==
    version = "legacy" => \A c \in Clients : <<c, clients[c].key>> \notin retired

\* The traffic of a client is billed once: billable segments of a client that no two operations
\* worked on at once, and whose total was not set anew, do not overlap, through top-ups, gifts,
\* changes of owner and of parent.
BilledOnce ==
    \A g, h \in {x \in segments : x.bill /\ x.c \notin clashed \cup rebased} :
        g.c = h.c /\ g.key = h.key /\ g # h => g.to <= h.from \/ h.to <= g.from

\* The quota is checked some awaits before the client is there: an admin that may have no
\* parent gets past it by no more than the requests that are under way at once, in what it
\* created after a count that was answered and still has under the same uuid, as long as no gift
\* puts another name into a comment.
QuotaOverrunBounded ==
    "gift" \notin load.ops =>
        \A a \in Admins : Parents[a] = NoOwner =>
            Cardinality({c \in Clients : <<clients[c].key, a>> \in admitted})
                <= MaxClients + Cardinality(Requests) - 1
===============================================================================
