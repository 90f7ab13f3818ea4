----------------------------- MODULE ClientDialogs -----------------------------
(***************************************************************************)
(* The dialogs about clients: "edit" (admin_provisioning.py, pec:... and   *)
(* the search for a config), "manage" (admin_client_actions.py) and        *)
(* "panelwide" (admin_client_bulk.py and the search of admin_clients.py).  *)
(***************************************************************************)
EXTENDS Dialogs

\* _provisioning_client_from_state: the context is read and cleared, then the access checked.
TakeEdited(s, p) == Take(s, p, {"edit"}, "edit")

AskEditTg(s, t) == Ask(s, "pec:tg_input", t, "waiting_edit_tg_id", "edit")
EditTg(s) == TakeEdited(s, "waiting_edit_tg_id")

\* A question that sets the state and keeps the client stored before.
AskEditTrafficUnstored(s, t) ==
    /\ BegunAbout(s, "pec:traffic_input", t)
    /\ IF "edit" \in DOMAIN data THEN UNCHANGED data ELSE Store("edit", t)
    /\ waiting' = "waiting_edit_add_traffic_gb"
    /\ asked' = [asked EXCEPT ![t] = @ + 1]
    /\ last' = t
    /\ UNCHANGED <<acted, saved>>
    /\ Ends(s)
    /\ Later

AskEditTraffic(s, t) == Ask(s, "pec:traffic_input", t, "waiting_edit_add_traffic_gb", "edit")
EditTraffic(s) == TakeEdited(s, "waiting_edit_add_traffic_gb")
AskEditReset(s, t) ==
    Ask(s, "pec:traffic_reset_ask", t, "waiting_edit_reset_traffic_gb", "edit")
EditReset(s) == TakeEdited(s, "waiting_edit_reset_traffic_gb")
AskEditDays(s, t) == Ask(s, "pec:days_input", t, "waiting_edit_add_expiry_days", "edit")
EditDays(s) == TakeEdited(s, "waiting_edit_add_expiry_days")

\* The client whose owner is to be chosen is stored, and stays until the next clear.
PickOwner(s, t) ==
    running[s].about = t /\ Note(s, "pec:owner_pick", "owner_pick", t, waiting)

\* The button carries the new owner only: the client is the one stored last.
SetOwner(s) == /\ "owner_pick" \in DOMAIN data
               /\ Keep(s, "owner_set", "reading", data["owner_pick"])
OwnerSet(s) == Is(s, "owner_set", "reading") /\ Ends(s) /\ Later /\ UNCHANGED context /\ Silent

StartEditConfig(s) == SetsState(s, "btn_edit_config", "waiting_vless_config")

\* A name to search for is stored and the dialog stays; a link is resolved before it is over.
SearchConfig(s) == Note(s, "waiting_vless_config", "edit_search_query", Given, waiting)
ResolveConfig(s) == Keep(s, "waiting_vless_config", "saving", Given)

EditNext ==
    /\ family = "edit"
    /\ \/ \E s \in Slots, t \in Subjects :
             \/ \E h \in {"pec:tg_input", "pec:traffic_input", "pec:traffic_reset_ask",
                          "pec:days_input", "pec:owner_pick"} : Press(s, h, t)
             \/ AskEditTg(s, t) \/ AskEditTraffic(s, t) \/ AskEditReset(s, t)
             \/ AskEditDays(s, t) \/ PickOwner(s, t)
       \/ \E s \in Slots : \/ EditTg(s) \/ EditTraffic(s) \/ EditReset(s) \/ EditDays(s)
                           \/ Press(s, "owner_set", Given) \/ SetOwner(s) \/ OwnerSet(s)
                           \/ Label(s, "btn_edit_config") \/ StartEditConfig(s)
                           \/ SearchConfig(s) \/ ResolveConfig(s)
-------------------------------------------------------------------------------
\* scoped_client_from_state
TakeManaged(s, p) == Take(s, p, {"client_manage"}, "client_manage")

\* set_client_action_context, with the state of the question.
AskManaged(s, h, t, p) == Ask(s, h, t, p, "client_manage")

AskCustomTraffic(s, t) == AskManaged(s, "tc", t, "waiting_custom_traffic_gb")
AskCustomExpiry(s, t) == AskManaged(s, "ec", t, "waiting_custom_expiry_days")
AskCustomIpLimit(s, t) == AskManaged(s, "ic", t, "waiting_custom_ip_limit")
AskTgId(s, t) == AskManaged(s, "ti", t, "waiting_tg_id")
CustomTraffic(s) == TakeManaged(s, "waiting_custom_traffic_gb")
CustomExpiry(s) == TakeManaged(s, "waiting_custom_expiry_days")
CustomIpLimit(s) == TakeManaged(s, "waiting_custom_ip_limit")
SetTgId(s) == TakeManaged(s, "waiting_tg_id")

ManageNext ==
    /\ family = "manage"
    /\ \/ \E s \in Slots, t \in Subjects :
             \/ \E h \in {"tc", "ec", "ic", "ti"} : Press(s, h, t)
             \/ AskCustomTraffic(s, t) \/ AskCustomExpiry(s, t)
             \/ AskCustomIpLimit(s, t) \/ AskTgId(s, t)
       \/ \E s \in Slots : \/ CustomTraffic(s) \/ CustomExpiry(s)
                           \/ CustomIpLimit(s) \/ SetTgId(s)
-------------------------------------------------------------------------------
AskBulkTraffic(s, t) == Ask(s, "pabt", t, "waiting_bulk_add_traffic_gb", "bulk_panel")
AskBulkDays(s, t) == Ask(s, "pabd", t, "waiting_bulk_add_expiry_days", "bulk_panel")

\* The panel is read and the context cleared once the clients have been changed.
BulkTrafficKept(s) ==
    Is(s, "waiting_bulk_add_traffic_gb", "begun") /\ "bulk_panel" \in DOMAIN data
       /\ Goes(s, "acting", data["bulk_panel"]) /\ Later /\ UNCHANGED context /\ Silent

\* The panel is taken and the context cleared; then every client of it is changed in turn, and
\* those that fail are counted.
BulkTraffic(s) == Take(s, "waiting_bulk_add_traffic_gb", {"bulk_panel"}, "bulk_panel")
BulkDays(s) == Take(s, "waiting_bulk_add_expiry_days", {"bulk_panel"}, "bulk_panel")

\* The search stays open, so that one query can follow another.
AskSearch(s, h, t) ==
    /\ running[s].about = t
    /\ Note(s, h, "online_search_panel", t, "waiting_online_search_query")
StartSearch(s) == /\ Begun(s, "btn_search_user")
                  /\ waiting' = "waiting_online_search_query"
                  /\ \E t \in Subjects : Store("online_search_panel", t)
                  /\ Ends(s)
                  /\ Later
                  /\ Silent
PickPanelForSearch(s, t) == AskSearch(s, "uols_panel_pick", t)
SearchPrompt(s, t) == AskSearch(s, "uols", t)

\* Without a panel, or when the panel is gone or fails, the search is closed.
Search(s) == /\ Begun(s, "waiting_online_search_query")
             /\ IF "online_search_panel" \in DOMAIN data
                THEN UNCHANGED context /\ Goes(s, "saving", Given)
                ELSE Clear /\ Ends(s)
             /\ Later
             /\ Silent

PanelwideNext ==
    /\ family = "panelwide"
    /\ \/ \E s \in Slots, t \in Subjects :
             \/ \E h \in {"pabt", "pabd", "uols_panel_pick", "uols"} : Press(s, h, t)
             \/ AskBulkTraffic(s, t) \/ AskBulkDays(s, t)
             \/ PickPanelForSearch(s, t) \/ SearchPrompt(s, t)
       \/ \E s \in Slots : \/ BulkTraffic(s) \/ BulkDays(s) \/ Search(s)
                           \/ Label(s, "btn_search_user") \/ StartSearch(s)
===============================================================================
