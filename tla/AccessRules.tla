------------------------------ MODULE AccessRules ------------------------------
(***************************************************************************)
(* Who may use which panel and which inbound: the rows of the delegated    *)
(* admins, their profiles, the panels and the default panel, and the       *)
(* questions access_service.py and delegated_access_service.py answer from *)
(* them.  A change is an errand: it reads, and works off statements that   *)
(* are committed one by one; errands overlap and may break off anywhere.   *)
(* Which admin may manage which is in Hierarchy.                           *)
(***************************************************************************)
EXTENDS Integers, SequencesExt

CONSTANTS Errands, Staff, Panels,
          Ports,       \* the ids of inbounds, on each panel
          Root, NoPanel,
          MaxErrands   \* bound: changes asked for

\* Root and NoPanel stand for nobody of the staff and for no panel; a panel has finitely
\* many inbounds.
ASSUME AccessAssumption == /\ Root \notin Staff
                           /\ NoPanel \notin Panels
                           /\ IsFiniteSet(Ports)
                           /\ MaxErrands \in Nat

VARIABLES row,           \* delegated_admins
          profile,       \* delegated_admin_profiles
          onPanel,       \* delegated_admin_panels: <<admin, panel>>
          onInbound,     \* delegated_admin_inbounds: <<admin, panel, inbound>>
          site,          \* panels: not yet added, there or deleted, and who added it
          defaultPanel,
          errand,        \* the statements each errand has left
          asked,         \* changes asked for so far
          crossed        \* admins two errands changed at the same time

accessVars == <<row, profile, onPanel, onInbound, site, defaultPanel, errand, asked, crossed>>

There(p) == site[p].is = "there"

AccessInit ==
    /\ row = [a \in Staff |-> [active |-> FALSE, scope |-> "limited"]]
    /\ profile = [a \in Staff |-> [active |-> TRUE, over |-> FALSE]]
    /\ onPanel = {}
    /\ onInbound = {}
    /\ site = [p \in Panels |-> [is |-> "new", by |-> Root]]
    /\ defaultPanel = NoPanel
    /\ errand = [e \in Errands |-> <<>>]
    /\ asked = 0
    /\ crossed = {}
-------------------------------------------------------------------------------
(* The answers of the access service. *)
IsDelegated(a) == row[a].active /\ profile[a].active /\ ~profile[a].over

\* get_admin_context
IsFull(a) == IsDelegated(a) /\ row[a].scope = "full"

\* The panels of which a full admin has everything.
IsWhole(a, p) == There(p) /\ (p = defaultPanel \/ site[p].by = a)
PanelRow(a, p) == row[a].active /\ <<a, p>> \in onPanel
InboundRow(a, p, i) == row[a].active /\ <<a, p, i>> \in onInbound

CanAccessPanel(a, p) == There(p) /\ ((IsFull(a) /\ IsWhole(a, p)) \/ PanelRow(a, p))
\* Access to the panel taken for access to all of it.
CanAccessInboundOfPanel(a, p, i) == (IsFull(a) /\ CanAccessPanel(a, p)) \/ InboundRow(a, p, i)

\* can_access_inbound
CanAccessInbound(a, p, i) ==
    \/ IsFull(a) /\ CanAccessPanel(a, p) /\ IsWhole(a, p)
    \/ InboundRow(a, p, i)
CanDeletePanel(a, p) == IsFull(a) /\ There(p) /\ site[p].by = a
ListAccessiblePanels(a) ==
    {p \in Panels : There(p) /\ (p = defaultPanel \/ (IsFull(a) /\ site[p].by = a) \/ PanelRow(a, p))}
GetAllowedInboundIds(a, p) ==
    IF IsFull(a) /\ IsWhole(a, p) THEN Ports ELSE {i \in Ports : InboundRow(a, p, i)}

\* list_accessible_inbounds_for_actor: a full admin is also shown all of a granted panel.
ListAccessibleInbounds(a) ==
    LET whole == {p \in Panels : IsFull(a) /\ There(p) /\ (IsWhole(a, p) \/ PanelRow(a, p))}
    IN  {x \in Panels \X Ports : x[1] \in whole \/ (There(x[1]) /\ InboundRow(a, x[1], x[2]))}

\* list_grantable_inbounds_for_delegated_admin, by panel.
GrantablePanels(a) == {p \in Panels : There(p) /\ (p = defaultPanel \/ PanelRow(a, p))}
-------------------------------------------------------------------------------
(* The changes, each as the statements it executes. *)
Stm(do, a, p, i, to) == [do |-> do, a |-> a, p |-> p, i |-> i, to |-> to]
PanelStm(a, p) == Stm("panel", a, p, 0, "")
InboundStm(a, p, i) == Stm("inbound", a, p, i, "")
RevokeStm(a, p, i) == Stm("revoke", a, p, i, "")
OwnStm(do, a, to) == Stm(do, a, NoPanel, 0, to)
SiteStm(do, p) == Stm(do, Root, p, 0, "")

\* grant_delegated_admin_access: the admin, the panel, the inbound, the profile.
Grant(a, p, i, scope) ==
    <<OwnStm("admin", a, scope), PanelStm(a, p), InboundStm(a, p, i), OwnStm("profile", a, "")>>

GrantPanel(a, p) == <<PanelStm(a, p)>>

\* sync_delegated_admin_panel_inbound_access without its first statement.
SyncInboundsOnly(a, p, want) ==
    LET have == {i \in Ports : InboundRow(a, p, i)}
        each(s, stm(_)) == [k \in 1..Len(s) |-> stm(s[k])]
    IN  each(SetToSeq(want \ have), LAMBDA i : InboundStm(a, p, i))
        \o each(SetToSeq(have \ want), LAMBDA i : RevokeStm(a, p, i))

\* sync_delegated_admin_panel_inbound_access: from the rows that were read.
Sync(a, p, want) == <<PanelStm(a, p)>> \o SyncInboundsOnly(a, p, want)

\* delegated_admin_revoke: one row of the list of accesses.
Revoke(a, p, i) == <<RevokeStm(a, p, i)>>

\* The admin is deactivated before its rows are looked for.
RemoveUserFirst(a) == <<OwnStm("deactivate", a, "")>>

\* list_admin_access_rows_for_user: of an active admin.
AccessRows(a) == {x \in onInbound : x[1] = a /\ row[a].active}

\* delegated_admin_remove_user: the rows that were read, one by one, then the admin.
RemoveUser(a) ==
    LET rows == SetToSeq(AccessRows(a))
    IN  [k \in 1..Len(rows) |-> RevokeStm(a, rows[k][2], rows[k][3])] \o <<OwnStm("deactivate", a, "")>>

ToggleStatus(a) == <<OwnStm("status", a, IF profile[a].active THEN "off" ELSE "on")>>

\* Any other update of a profile, which puts 1 for an is_active of 0.
UpdateProfile(a) == <<OwnStm("status", a, "on")>>
ToggleBasis(a) == UpdateProfile(a)
ToggleWalletMode(a) == UpdateProfile(a)
ToggleScope(a) == <<OwnStm("scope", a, IF row[a].scope = "limited" THEN "full" ELSE "limited")>>
ToggleDefaultPanel(p) == <<SiteStm(IF p = defaultPanel THEN "no default" ELSE "default", p)>>
-------------------------------------------------------------------------------
\* Two errands that change the same admin, or the panel it is granted.
Crossing(e, plan) ==
    LET touched == {s.a : s \in ToSet(plan)}
    IN  crossed \cup UNION {touched \cap {s.a : s \in ToSet(errand[f])} : f \in Errands \ {e}}

BeginErrand(e, plan) ==
    /\ errand[e] = <<>>
    /\ asked < MaxErrands
    /\ asked' = asked + 1
    /\ errand' = [errand EXCEPT ![e] = plan]
    /\ crossed' = Crossing(e, plan) \ {Root}
    /\ UNCHANGED <<row, profile, onPanel, onInbound, site, defaultPanel>>

\* Root admins may do all of this, full admins some; what is on a button may have gone since.
Ask(e) ==
    \/ \E a \in Staff, p \in Panels, i \in Ports, scope \in {"limited", "full"} :
          site[p].is # "new" /\ BeginErrand(e, Grant(a, p, i, scope))
    \/ \E a \in Staff, p \in Panels : row[a].active /\ There(p) /\ BeginErrand(e, GrantPanel(a, p))
    \/ \E a \in Staff, p \in Panels : \E want \in SUBSET Ports :
          row[a].active /\ There(p) /\ BeginErrand(e, Sync(a, p, want))
    \/ \E x \in onInbound : BeginErrand(e, Revoke(x[1], x[2], x[3]))
    \/ \E a \in Staff : BeginErrand(e, RemoveUser(a))
    \/ \E a \in Staff : \E plan \in {ToggleStatus(a), ToggleBasis(a), ToggleWalletMode(a)} : BeginErrand(e, plan)
    \/ \E a \in Staff : row[a].active /\ BeginErrand(e, ToggleScope(a))
    \/ \E p \in Panels : There(p) /\ BeginErrand(e, ToggleDefaultPanel(p))
    \/ \E p \in Panels : There(p) /\ BeginErrand(e, <<SiteStm("delete", p)>>)

\* An error or a crash; and the time of an admin is over.
BreakOff(e) == /\ errand[e] # <<>>
               /\ errand' = [errand EXCEPT ![e] = <<>>]
               /\ UNCHANGED <<row, profile, onPanel, onInbound, site, defaultPanel, asked, crossed>>
Expire(a) == /\ ~profile[a].over
             /\ profile' = [profile EXCEPT ![a].over = TRUE]
             /\ UNCHANGED <<row, onPanel, onInbound, site, defaultPanel, errand, asked, crossed>>

\* add_panel, by a root admin or a full admin.
AddPanel(p) ==
    /\ site[p].is = "new"
    /\ \E a \in {Root} \cup {b \in Staff : IsFull(b)} : site' = [site EXCEPT ![p] = [is |-> "there", by |-> a]]
    /\ UNCHANGED <<row, profile, onPanel, onInbound, defaultPanel, errand, asked, crossed>>
-------------------------------------------------------------------------------
\* The statements.
Next1(e, do) == /\ errand[e] # <<>>
                /\ Head(errand[e]).do = do
                /\ errand' = [errand EXCEPT ![e] = Tail(@)]
                /\ UNCHANGED <<asked, crossed>>
Now(e) == Head(errand[e])

UpsertAdmin(e) == /\ Next1(e, "admin")
                  /\ row' = [row EXCEPT ![Now(e).a] = [active |-> TRUE, scope |-> Now(e).to]]
                  /\ UNCHANGED <<profile, onPanel, onInbound, site, defaultPanel>>

\* A row for a panel that is gone breaks the foreign key.
AddPanelAccess(e) == /\ Next1(e, "panel")
                     /\ There(Now(e).p)
                     /\ onPanel' = onPanel \cup {<<Now(e).a, Now(e).p>>}
                     /\ UNCHANGED <<row, profile, onInbound, site, defaultPanel>>
AddInboundAccess(e) == /\ Next1(e, "inbound")
                       /\ There(Now(e).p)
                       /\ onInbound' = onInbound \cup {<<Now(e).a, Now(e).p, Now(e).i>>}
                       /\ UNCHANGED <<row, profile, onPanel, site, defaultPanel>>
RevokeAccess(e) == /\ Next1(e, "revoke")
                   /\ onInbound' = onInbound \ {<<Now(e).a, Now(e).p, Now(e).i>>}
                   /\ UNCHANGED <<row, profile, onPanel, site, defaultPanel>>

\* A profile that is there stays as it is, inactive or not.
EnsureProfile(e) == Next1(e, "profile") /\ UNCHANGED <<row, profile, onPanel, onInbound, site, defaultPanel>>

Deactivate(e) == /\ Next1(e, "deactivate")
                 /\ row' = [row EXCEPT ![Now(e).a].active = FALSE]
                 /\ profile' = [profile EXCEPT ![Now(e).a].active = FALSE]
                 /\ UNCHANGED <<onPanel, onInbound, site, defaultPanel>>
SetStatus(e) == /\ Next1(e, "status")
                /\ profile' = [profile EXCEPT ![Now(e).a].active = (Now(e).to = "on")]
                /\ UNCHANGED <<row, onPanel, onInbound, site, defaultPanel>>
SetScope(e) == /\ Next1(e, "scope")
               /\ row' = [row EXCEPT ![Now(e).a].scope = Now(e).to]
               /\ UNCHANGED <<profile, onPanel, onInbound, site, defaultPanel>>
SetDefault(e) == /\ Next1(e, "default")
                 /\ defaultPanel' = IF There(Now(e).p) THEN Now(e).p ELSE defaultPanel
                 /\ UNCHANGED <<row, profile, onPanel, onInbound, site>>
ClearDefault(e) == /\ Next1(e, "no default")
                   /\ defaultPanel' = NoPanel
                   /\ UNCHANGED <<row, profile, onPanel, onInbound, site>>

\* A deletion that leaves the default where it is.
DeletePanelButDefault(e) ==
    LET p == Now(e).p
    IN  /\ Next1(e, "delete")
        /\ site' = [site EXCEPT ![p].is = "deleted"]
        /\ onPanel' = {x \in onPanel : x[2] # p}
        /\ onInbound' = {x \in onInbound : x[2] # p}
        /\ UNCHANGED <<row, profile, defaultPanel>>

\* The rows of the panel go with it (ON DELETE CASCADE), and its being the default.
DeletePanel(e) ==
    LET p == Now(e).p
    IN  /\ Next1(e, "delete")
        /\ site' = [site EXCEPT ![p].is = "deleted"]
        /\ onPanel' = {x \in onPanel : x[2] # p}
        /\ onInbound' = {x \in onInbound : x[2] # p}
        /\ defaultPanel' = IF defaultPanel = p THEN NoPanel ELSE defaultPanel
        /\ UNCHANGED <<row, profile>>

AccessNext ==
    \/ \E e \in Errands :
          \/ Ask(e) \/ BreakOff(e)
          \/ UpsertAdmin(e) \/ AddPanelAccess(e) \/ AddInboundAccess(e) \/ RevokeAccess(e)
          \/ EnsureProfile(e) \/ Deactivate(e) \/ SetStatus(e) \/ SetScope(e)
          \/ SetDefault(e) \/ ClearDefault(e) \/ DeletePanel(e)
    \/ \E a \in Staff : Expire(a)
    \/ \E p \in Panels : AddPanel(p)

AccessSpec == AccessInit /\ [][AccessNext]_accessVars
-------------------------------------------------------------------------------
Statements == [do : {"admin", "panel", "inbound", "revoke", "profile", "deactivate", "status", "scope",
                     "default", "no default", "delete"},
               a : Staff \cup {Root}, p : Panels \cup {NoPanel}, i : Ports \cup {0},
               to : {"", "limited", "full", "on", "off"}]
AccessTypeOK ==
    /\ row \in [Staff -> [active : BOOLEAN, scope : {"limited", "full"}]]
    /\ profile \in [Staff -> [active : BOOLEAN, over : BOOLEAN]]
    /\ onPanel \subseteq Staff \X Panels
    /\ onInbound \subseteq Staff \X Panels \X Ports
    /\ site \in [Panels -> [is : {"new", "there", "deleted"}, by : Staff \cup {Root}]]
    /\ defaultPanel \in {p \in Panels : There(p)} \cup {NoPanel}
    /\ errand \in [Errands -> Seq(Statements)]
    /\ asked \in 0..MaxErrands
    /\ crossed \subseteq Staff

\* The questions are answered in five places, from different rows: an inbound may be used if
\* and only if it is among the allowed ids, only with its panel, what may be used is listed, a
\* limited admin is listed nothing else, and what can be deleted, used or granted is on a panel
\* that is shown; whatever breaks off half way, and whatever panel is deleted meanwhile.
AnswersAgree ==
    \A a \in Staff, p \in Panels :
        /\ CanDeletePanel(a, p) => CanAccessPanel(a, p)
        /\ CanAccessPanel(a, p) \/ p \in GrantablePanels(a) => p \in ListAccessiblePanels(a)
        /\ \A i \in Ports :
              /\ CanAccessInbound(a, p, i) <=> i \in GetAllowedInboundIds(a, p)
              /\ CanAccessInbound(a, p, i) => CanAccessPanel(a, p) /\ <<p, i>> \in ListAccessibleInbounds(a)
              /\ ~IsFull(a) /\ <<p, i>> \in ListAccessibleInbounds(a) => CanAccessInbound(a, p, i)

\* A removed admin leaves no inbound behind that it would have again when it is taken back,
\* unless something else was changing it at the same time.
RemovedKeepsNothing ==
    \A a \in Staff \ crossed : ~row[a].active => \A x \in onInbound : x[1] # a
===============================================================================
