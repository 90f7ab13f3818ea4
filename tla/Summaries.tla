------------------------------- MODULE Summaries -------------------------------
(***************************************************************************)
(* What an admin and those below it are billed for: the summary of         *)
(* provisioning_financial_summary_service.py over one client of one        *)
(* inbound, and the operations that write the rows it reads.  A summary    *)
(* awaits between its reads and the client may change meanwhile; of the    *)
(* operations, only a top-up is more than one step here, because a summary *)
(* may find it half made (their calls one by one are in PanelClients).     *)
(*                                                                         *)
(* Traffic is counted in steps.  Clients, inbounds and panels add up, so   *)
(* one of each is enough.  The sales of the scope and the price (Pricing)  *)
(* are left out.                                                           *)
(*                                                                         *)
(* Left out as well: what the whole panel has consumed, which is what an   *)
(* admin without a parent owes for on the basis "consumed", and the        *)
(* figures for the panel that are only shown.                              *)
(***************************************************************************)
EXTENDS Integers, Sequences, FiniteSets, Functions

CONSTANTS Resellers, RootAdmin, Nobody,
          MayBeUnder,     \* the admins an admin may be put below
          Creator,        \* delegated_admins.created_by
          SummaryLoads,   \* what happens: [ops, reports, begins: owners of the client, tags, most: bound]
          MaxTotal

\* The tags the summaries know.
Tags == {"none", "moaf", "moafresume"}

ASSUME SummariesAssumption ==
    /\ IsFiniteSet(Resellers)
    /\ Nobody \notin Resellers \cup {RootAdmin}
    /\ MayBeUnder \in [Resellers -> SUBSET Resellers]
    /\ Creator \in [Resellers -> Resellers \cup {RootAdmin}]
    /\ MaxTotal \in Nat \ {0}
    /\ \A l \in SummaryLoads : /\ l.begins \subseteq Resellers \cup {RootAdmin, Nobody}
                               /\ l.tags \subseteq Tags /\ l.most \in Nat

VARIABLES scene,      \* the load of this behaviour
          client,     \* what the panel has: total, used, the comment's owner and tag
          owner,      \* client_owners
          entries,    \* moaf_client_traffic_segments, in the order of their ids
          exempt,     \* owner_user_id in moaf_client_exemptions
          caps,       \* moaf_resume_delegate_caps
          shut,       \* admins with the inbound in delegate_finance_excluded_inbounds
          hidden,     \* admins with the client in delegate_finance_exclude_client_remaining
          head,       \* delegated_admins.parent_user_id
          lastHead,   \* of the last event
          topup,      \* the top-up that has still to enter its segments
          report,     \* where each summary stands, and what it has read
          ops         \* operations so far

lists == <<owner, exempt, shut, hidden>>
tree == <<head, lastHead>>
summaryVars == <<scene, client, entries, caps, lists, tree, topup, report, ops>>

NoTopUp == [actor |-> Nobody]
Nothing == [count |-> 0, allocated |-> 0, consumed |-> 0, remaining |-> 0]
NoReport == [at |-> "idle", actor |-> Nobody, scope |-> {}, climb |-> Nobody, shut |-> FALSE, hidden |-> FALSE,
             exempt |-> Nobody, entries |-> <<>>, caps |-> [a \in Resellers |-> -1],
             client |-> [total |-> 0, used |-> 0, comment |-> Nobody, tag |-> "none"], ledger |-> Nothing]

\* A client of an admin, of a root admin, or made by hand on the panel, that has one step.
SummariesInit ==
    /\ scene \in SummaryLoads
    /\ \E a \in scene.begins, tag \in scene.tags :
          /\ client = [total |-> 1, used |-> 0, comment |-> a, tag |-> tag]
          /\ owner = IF a \in Resellers THEN a ELSE Nobody
    /\ entries = <<>>
    /\ exempt = Nobody
    /\ caps = [a \in Resellers |-> -1]
    /\ shut = {} /\ hidden = {}
    /\ head \in [Resellers -> Resellers \cup {Nobody}]
    /\ \A a \in Resellers : head[a] \in MayBeUnder[a] \cup {Nobody}
    /\ lastHead = head
    /\ topup = NoTopUp
    /\ report = [r \in scene.reports |-> NoReport]
    /\ ops = 0
-------------------------------------------------------------------------------
AtMost(x, y) == IF x < y THEN x ELSE y
AtLeast0(x) == IF x < 0 THEN 0 ELSE x

\* get_delegated_admin_financial_scope_user_ids: down to whom it is the parent of or has created.
Scope(a) ==
    LET scope[n \in 0..Cardinality(Resellers)] ==
            IF n = 0 THEN {a}
            ELSE LET S == scope[n - 1] IN {b \in Resellers : b \in S \/ head[b] \in S \/ Creator[b] \in S}
    IN  scope[Cardinality(Resellers)]

OutOfScope(scope, isHidden, exemption, c) ==
    isHidden \/ exemption \in scope \/ (c.tag = "moaf" /\ c.comment \in scope)

\* _valid_report_segments: of what was kept for a parent that was left, only the consumption
\* counts once the client is a root admin's.
ConsumedOnly(g, c) == g.detach /\ c.comment \in {RootAdmin, Nobody}

End(g, c) == AtMost(g.to, c.total)
UsedOf(g, c) == AtLeast0(AtMost(c.used, End(g, c)) - g.from)

\* Whoever asks, whosever the segments are.
BilledToAnybody(segs, scope, c) ==
    {i \in DOMAIN segs : segs[i].bill /\ End(segs[i], c) > segs[i].from}

Billed(segs, scope, c) ==
    {i \in DOMAIN segs : segs[i].bill /\ segs[i].owner \in scope /\ End(segs[i], c) > segs[i].from}

\* _billable_segment_totals
OfSegments(segs, scope, c) ==
    LET counted == Billed(segs, scope, c)
        whole == {i \in counted : ~ConsumedOnly(segs[i], c)}
        allocated == SumFunction([i \in whole |-> End(segs[i], c) - segs[i].from])
    IN  [count |-> IF \E i \in DOMAIN segs : segs[i].bill /\ segs[i].owner \in scope THEN 1 ELSE 0,
         allocated |-> allocated,
         consumed |-> SumFunction([i \in counted |-> UsedOf(segs[i], c)]),
         remaining |-> AtLeast0(allocated - SumFunction([i \in whole |-> UsedOf(segs[i], c)]))]

\* A client without segments belongs to whom its comment names; a resumed one counts up to
\* what it had when it was first seen.
OfComment(scope, known, c) ==
    IF c.comment \notin scope THEN Nothing
    ELSE LET cap == known[c.comment]
             total == IF c.tag = "moafresume" /\ cap >= 0 THEN AtMost(cap, c.total) ELSE c.total
         IN  [count |-> 1, allocated |-> total, consumed |-> c.used, remaining |-> AtLeast0(total - c.used)]

\* _accumulate_scope_financial_ledger
Ledger(scope, isShut, isHidden, exemption, segs, known, c) ==
    IF isShut \/ OutOfScope(scope, isHidden, exemption, c) THEN Nothing
    ELSE IF segs # <<>> THEN OfSegments(segs, scope, c)
    ELSE OfComment(scope, known, c)

\* The exclusions of an admin and of everybody above it.
Above(a) ==
    LET above[n \in 0..Cardinality(Resellers)] ==
            IF n = 0 THEN {a} ELSE LET S == above[n - 1] IN S \cup (Resellers \cap {head[b] : b \in S})
    IN  above[Cardinality(Resellers)]

\* The summary of an admin, were it made in one step.
LedgerOf(a) ==
    Ledger(Scope(a), \E b \in shut : b \in Above(a), \E b \in hidden : b \in Above(a),
           exempt, entries, caps, client)
-------------------------------------------------------------------------------
Operates(op) == op \in scene.ops /\ ops < scene.most /\ ops' = ops + 1 /\ UNCHANGED scene
OnlyClient == UNCHANGED <<entries, caps, lists, tree, topup, report>>

UseTraffic ==
    /\ "use" \in scene.ops
    /\ client.used < client.total
    /\ client' = [client EXCEPT !.used = @ + 1]
    /\ OnlyClient
    /\ UNCHANGED <<scene, ops>>

\* set_client_total_gb_for_actor, and an edit on the panel
SetClientTotal(n) == Operates("total") /\ client' = [client EXCEPT !.total = n] /\ OnlyClient

ClearUsage == Operates("reset") /\ client.used > 0 /\ client' = [client EXCEPT !.used = 0] /\ OnlyClient

\* Tags are put on the panel by hand; a gift puts "Moaf".
TagByHand(tag) ==
    Operates("tag") /\ client.comment \in Resellers /\ client' = [client EXCEPT !.tag = tag] /\ OnlyClient

\* _add_client_total_gb_for_ref, up to the call of the panel.
TopUp(a, gift) ==
    LET known == entries # <<>>
        owed == known \/ head[a] # Nobody \/ lastHead[a] # Nobody
        named == CHOOSE x \in Resellers \cup {RootAdmin, Nobody} :
                    x = IF known THEN entries[1].owner ELSE IF owner # Nobody THEN owner ELSE client.comment
    IN  /\ Operates(IF gift THEN "gift" ELSE "top up")
        /\ topup = NoTopUp
        /\ client.total < MaxTotal
        /\ client' = [client EXCEPT !.total = @ + 1, !.comment = IF gift THEN a ELSE @,
                                      !.tag = IF gift THEN "moaf" ELSE @]
        /\ topup' = [actor |-> a, gift |-> gift, from |-> client.total, known |-> known, under |-> head[a],
                     owner |-> IF owed THEN named ELSE Nobody, moaf |-> client.tag = "moaf"]
        /\ UNCHANGED <<entries, caps, lists, tree, report>>

\* add_moaf_client_traffic_segment drops what is empty.
Row(o, from, to, bill) ==
    IF to > from THEN <<[owner |-> o, from |-> from, to |-> to, bill |-> bill, detach |-> FALSE]>> ELSE <<>>

\* The traffic that was there before the first segment.
InitialRow(j) ==
    IF j.known THEN <<>>
    ELSE Row(IF j.under # Nobody THEN j.under ELSE j.owner, 0, j.from,
             ~(j.under # Nobody /\ (j.moaf \/ (j.gift /\ j.under = j.owner))))

AddedRow(j) ==
    IF j.gift THEN Row(j.owner, j.from, client.total, FALSE)
    ELSE IF j.under # Nobody THEN Row(j.under, j.from, client.total, TRUE)
    ELSE <<>>

\* ... and after it.
EnterTopUp ==
    /\ topup # NoTopUp
    /\ IF topup.owner = Nobody THEN UNCHANGED <<entries, exempt>>
       ELSE /\ entries' = entries \o InitialRow(topup) \o AddedRow(topup)
            /\ exempt' = IF topup.gift THEN topup.owner ELSE exempt
    /\ topup' = NoTopUp
    /\ UNCHANGED <<client, owner, caps, shut, hidden, tree, report, scene, ops>>

DropTopUp ==
    /\ topup # NoTopUp
    /\ topup' = NoTopUp
    /\ UNCHANGED <<client, entries, caps, lists, tree, report, scene, ops>>

\* A snapshot in the name of the admin that leaves.
SnapshotOfChild(a) ==
    IF head[a] = Nobody \/ entries # <<>> \/ client.comment # a \/ client.total = 0 THEN <<>>
    ELSE <<[owner |-> a, from |-> 0, to |-> client.total, bill |-> TRUE, detach |-> TRUE]>>

\* _snapshot_existing_clients_for_parent
Snapshot(a) ==
    IF head[a] = Nobody \/ entries # <<>> \/ client.comment # a \/ client.total = 0 THEN <<>>
    ELSE <<[owner |-> head[a], from |-> 0, to |-> client.total, bill |-> TRUE, detach |-> TRUE]>>

\* change_delegated_admin_parent
MoveReseller(a, new) ==
    /\ Operates("parent")
    /\ new # head[a]
    /\ entries' = entries \o Snapshot(a)
    /\ head' = [head EXCEPT ![a] = new]
    /\ lastHead' = [lastHead EXCEPT ![a] = IF head[a] # Nobody THEN head[a] ELSE new]
    /\ UNCHANGED <<client, caps, lists, topup, report>>

\* delegated_finex_inbound_toggle and delegated_finex_remain_bulk_yes, for admins without a parent.
ToggleInbound(a) ==
    /\ Operates("exclude") /\ head[a] = Nobody
    /\ shut' = IF a \in shut THEN shut \ {a} ELSE shut \cup {a}
    /\ UNCHANGED <<client, entries, caps, owner, exempt, hidden, tree, topup, report>>

HideClient(a) ==
    /\ Operates("exclude") /\ head[a] = Nobody /\ a \notin hidden
    /\ hidden' = hidden \cup {a}
    /\ UNCHANGED <<client, entries, caps, owner, exempt, shut, tree, topup, report>>
-------------------------------------------------------------------------------
Gathers(r, got) ==
    report' = [report EXCEPT ![r] = got] /\ UNCHANGED <<client, entries, caps, lists, tree, topup, scene, ops>>

\* get_admin_scope_financial_summary
Begin(r, a) ==
    /\ report[r].at = "idle"
    /\ Gathers(r, [NoReport EXCEPT !.at = "exclusions", !.actor = a, !.scope = Scope(a), !.climb = a])

\* _merged_delegate_finance_exclusions_for_actor, one admin after the other.
Climb(r) ==
    LET j == report[r]
    IN  /\ j.at = "exclusions"
        /\ Gathers(r, [j EXCEPT !.shut = @ \/ j.climb \in shut, !.hidden = @ \/ j.climb \in hidden,
                              !.climb = head[j.climb],
                              !.at = IF head[j.climb] = Nobody THEN "exemptions" ELSE @])

ReadExemptions(r) ==
    report[r].at = "exemptions" /\ Gathers(r, [report[r] EXCEPT !.at = "segments", !.exempt = exempt])

ReadSegments(r) ==
    report[r].at = "segments" /\ Gathers(r, [report[r] EXCEPT !.at = "caps", !.entries = entries])

Counted(j, known, c) == Ledger(j.scope, j.shut, j.hidden, j.exempt, j.entries, known, c)

\* A resumed client that counts, and whose cap is not among those read.
NeedsCap(j, c) ==
    /\ ~j.shut /\ ~OutOfScope(j.scope, j.hidden, j.exempt, c)
    /\ j.entries = <<>> /\ c.comment \in j.scope /\ c.tag = "moafresume" /\ j.caps[c.comment] < 0

\* list_inbounds, a call of the panel; a panel that fails is passed over.
ReadPanel(r) ==
    LET j == report[r]
    IN  /\ j.at = "panel"
        /\ \/ NeedsCap(j, client) /\ Gathers(r, [j EXCEPT !.at = "insert", !.client = client])
           \/ ~NeedsCap(j, client)
              /\ Gathers(r, [j EXCEPT !.at = "done", !.client = client, !.ledger = Counted(j, j.caps, client)])
           \/ Gathers(r, [j EXCEPT !.at = "done"])

ReadCaps(r) == report[r].at = "caps" /\ Gathers(r, [report[r] EXCEPT !.at = "panel", !.caps = caps])

\* An upsert.
InsertCapAnew(r) ==
    LET j == report[r]
    IN  /\ j.at = "insert"
        /\ caps' = [caps EXCEPT ![j.client.comment] = j.client.total]
        /\ report' = [report EXCEPT ![r].at = "again"]
        /\ UNCHANGED <<client, entries, lists, tree, topup, scene, ops>>

\* insert_moaf_resume_delegate_cap_if_missing
InsertCap(r) ==
    LET j == report[r]
    IN  /\ j.at = "insert"
        /\ caps' = [caps EXCEPT ![j.client.comment] = IF @ < 0 THEN j.client.total ELSE @]
        /\ report' = [report EXCEPT ![r].at = "again"]
        /\ UNCHANGED <<client, entries, lists, tree, topup, scene, ops>>

\* get_moaf_resume_delegate_cap: what is stored counts, whoever stored it.
ReadCap(r) ==
    LET j == report[r]
    IN  /\ j.at = "again"
        /\ Gathers(r, [j EXCEPT !.at = "done", !.caps = caps, !.ledger = Counted(j, caps, j.client)])

Shown(r) == report[r].at = "done" /\ Gathers(r, NoReport)

SummariesNext ==
    \/ UseTraffic \/ ClearUsage \/ EnterTopUp \/ DropTopUp
    \/ \E n \in 1..MaxTotal : SetClientTotal(n)
    \/ \E tag \in Tags : TagByHand(tag)
    \/ \E a \in Resellers :
          \/ \E gift \in BOOLEAN : TopUp(a, gift)
          \/ \E new \in MayBeUnder[a] \cup {Nobody} : MoveReseller(a, new)
          \/ ToggleInbound(a) \/ HideClient(a)
          \/ \E r \in scene.reports : Begin(r, a)
    \/ \E r \in scene.reports :
          \/ Climb(r) \/ ReadExemptions(r) \/ ReadSegments(r) \/ ReadCaps(r) \/ ReadPanel(r)
          \/ InsertCap(r) \/ ReadCap(r) \/ Shown(r)

SummariesSpec == SummariesInit /\ [][SummariesNext]_summaryVars
-------------------------------------------------------------------------------
\* Segments are not empty, and whoever asks is in its own scope.
SummariesTypeOK ==
    /\ client.total \in 0..MaxTotal /\ client.used \in Nat
    /\ \A i \in DOMAIN entries : entries[i].from < entries[i].to /\ entries[i].owner \in Resellers \cup {RootAdmin}
    /\ \A a \in Resellers : caps[a] \in -1..MaxTotal /\ head[a] \in MayBeUnder[a] \cup {Nobody}
    /\ exempt \in Resellers \cup {RootAdmin, Nobody}
    /\ \A r \in scene.reports :
          report[r].at # "idle" => report[r].scope \subseteq Resellers /\ report[r].actor \in report[r].scope

\* BilledOnce in PanelClients says when this is so.
Disjoint(segs) ==
    \A i, j \in DOMAIN segs : i # j /\ segs[i].bill /\ segs[j].bill
        => segs[i].to <= segs[j].from \/ segs[j].to <= segs[i].from

Apart(a, b) == Scope(a) \cap Scope(b) = {}

\* Two admins that have nobody below them in common are not both billed for the same traffic,
\* whoever the client has belonged to and whoever was below whom.
BilledToOne ==
    Disjoint(entries) =>
        \A a, b \in {c \in Resellers : LedgerOf(c) # Nothing} : Apart(a, b) =>
            LET l == LedgerOf(a)
                m == LedgerOf(b)
            IN  l.allocated + m.allocated <= client.total /\ l.consumed + m.consumed <= client.used

\* A summary counts no more of a client than there is, although it read the segments before the
\* client and the total may have been lowered since.  Two summaries that meet a resumed client
\* for the first time, with different totals, go by one cap, and so does every summary later.
ReportsAddUp ==
    \A r \in scene.reports :
        LET j == report[r]
            l == j.ledger
        IN  j.at = "done" =>
                /\ Disjoint(j.entries) =>
                      /\ l.allocated <= j.client.total /\ l.consumed <= j.client.used
                      /\ l.remaining <= AtLeast0(j.client.total - j.client.used)
                /\ j.entries = <<>> /\ j.client.tag = "moafresume" /\ l.count = 1 =>
                      l.allocated = AtMost(caps[j.client.comment], j.client.total)

\* An admin that loses one below it is still billed for what was consumed until then.
DetachKeepsUsage ==
    [][\A a, b \in Resellers : head[a] = b /\ head'[a] # b /\ client.used <= client.total
          => LedgerOf(b)'.consumed >= LedgerOf(b).consumed]_summaryVars
===============================================================================
