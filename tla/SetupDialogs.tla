----------------------------- MODULE SetupDialogs ------------------------------
(***************************************************************************)
(* The longer dialogs: "create" (a client, admin_provisioning.py), "panel" *)
(* (a panel, the cleanup hours and the lists of inbounds, admin_panels.py) *)
(* and "bind" (a service to a user, admin_bind.py, and the link of a       *)
(* missing service, common.py).                                            *)
(***************************************************************************)
EXTENDS Dialogs

\* With several panels one is asked for; with one, its group or inbound; with one inbound,
\* that is the target.
AskEmail(t) == Put("create_target", t) /\ waiting' = "waiting_create_email"
StartCreate(s) == /\ Begun(s, "btn_create_user")
                  /\ \/ /\ waiting' = "waiting_create_panel_select"
                        /\ UNCHANGED data
                        /\ Silent
                     \/ UNCHANGED context /\ Silent
                     \/ \E t \in Subjects : AskEmail(t)
                  /\ Ends(s)
                  /\ Later
PickCreatePanel(s) == /\ Begun(s, "pcu:pick_panel")
                      /\ \/ UNCHANGED context /\ Silent
                         \/ \E t \in Subjects : AskEmail(t)
                      /\ Ends(s)
                      /\ Later

\* A button with no state filter: a target may be picked at any time.
PickCreateTarget(s, t) ==
    BegunAbout(s, "pcu:target", t) /\ AskEmail(t) /\ Ends(s) /\ Later

CreateEmail(s) ==
    Note(s, "waiting_create_email", "create_email", Given, "waiting_create_traffic_gb")
CreateTraffic(s) ==
    Note(s, "waiting_create_traffic_gb", "create_total_gb", Given, "waiting_create_expiry_days")
CreateDays(s) ==
    Note(s, "waiting_create_expiry_days", "create_expiry_days", Given,
         "waiting_create_tg_id_choice")

CreateKeys == {"create_target", "create_email", "create_total_gb", "create_expiry_days"}

\* _finish_create_user: the data is taken; what is missing raises before the service is called.
FinishCreate(s, h) == Take(s, h, CreateKeys, "create_target")

CreateTgNo(s) == FinishCreate(s, "pcu:tg_choice:no")
CreateTgYes(s) == SetsState(s, "pcu:tg_choice:yes", "waiting_create_tg_id")
CreateTgValue(s) == FinishCreate(s, "waiting_create_tg_id")

CreateNext ==
    /\ family = "create"
    /\ \/ \E s \in Slots, t \in Subjects : Press(s, "pcu:target", t) \/ PickCreateTarget(s, t)
       \/ \E s \in Slots :
             \/ Label(s, "btn_create_user") \/ StartCreate(s)
             \/ PressIn(s, "waiting_create_panel_select", "pcu:pick_panel", Given)
             \/ PickCreatePanel(s) \/ CreateEmail(s) \/ CreateTraffic(s) \/ CreateDays(s)
             \/ \E h \in {"pcu:tg_choice:no", "pcu:tg_choice:yes"} :
                   PressIn(s, "waiting_create_tg_id_choice", h, Given)
             \/ CreateTgNo(s) \/ CreateTgYes(s) \/ CreateTgValue(s)
-------------------------------------------------------------------------------
StartAddPanel(s) == SetsState(s, "btn_add_panel", "waiting_name")
PanelName(s) == NoteSubject(s, "waiting_name", "panel_name", "waiting_api_version")
PanelApiVersion(s) ==
    \E v \in {"legacy", "v3"} :
       Note(s, "panel_api_version", "api_version", v, "waiting_login_url")
IsV3 == "api_version" \in DOMAIN data /\ data["api_version"] = "v3"
PanelUrl(s) == Note(s, "waiting_login_url", "login_url", Given,
                    IF IsV3 THEN "waiting_api_token" ELSE "waiting_username")
PanelUsername(s) == Note(s, "waiting_username", "username", Given, "waiting_password")
PanelPassword(s) == Note(s, "waiting_password", "password", Given, "waiting_two_factor_choice")

\* _finalize_add_panel: the name and the address are the answers it cannot do without.
FinishPanel(s, h) == Take(s, h, {"panel_name", "login_url"}, "panel_name")
PanelApiToken(s) == FinishPanel(s, "waiting_api_token")
PanelTwoFactorNo(s) == FinishPanel(s, "twofa_no")
PanelTwoFactorYes(s) == SetsState(s, "twofa_yes", "waiting_two_factor_code")
PanelTwoFactorCode(s) == FinishPanel(s, "waiting_two_factor_code")

StartCleanupSettings(s) ==
    SetsState(s, "btn_cleanup_settings", "waiting_depleted_cleanup_hours")
SaveCleanupHours(s) == Keep(s, "waiting_depleted_cleanup_hours", "saving", Given)

\* The lists ask for a panel when none is the default; the pick ends the dialog.
StartInboundsList(s) == SetsState(s, "btn_list_inbounds", "waiting_panel_select")
StartInboundsOverview(s) == SetsState(s, "btn_inbounds_overview", "waiting_overview_panel_select")
InboundsPickPanel(s) == Clears(s, "inbounds_panel_pick")
InboundsOverviewPickPanel(s) == Clears(s, "overview_panel_pick")

PanelNext ==
    /\ family = "panel"
    /\ \E s \in Slots :
          \/ \E h \in {"btn_add_panel", "btn_cleanup_settings", "btn_list_inbounds",
                       "btn_inbounds_overview"} : Label(s, h)
          \/ StartAddPanel(s) \/ PanelName(s)
          \/ PressIn(s, "waiting_api_version", "panel_api_version", Given)
          \/ PanelApiVersion(s) \/ PanelUrl(s) \/ PanelUsername(s) \/ PanelPassword(s)
          \/ \E h \in {"twofa_no", "twofa_yes"} :
                PressIn(s, "waiting_two_factor_choice", h, Given)
          \/ PanelApiToken(s) \/ PanelTwoFactorNo(s)
          \/ PanelTwoFactorYes(s) \/ PanelTwoFactorCode(s)
          \/ StartCleanupSettings(s) \/ SaveCleanupHours(s)
          \/ StartInboundsList(s) \/ StartInboundsOverview(s)
          \/ PressIn(s, "waiting_panel_select", "inbounds_panel_pick", Given)
          \/ PressIn(s, "waiting_overview_panel_select", "overview_panel_pick", Given)
          \/ InboundsPickPanel(s) \/ InboundsOverviewPickPanel(s)
-------------------------------------------------------------------------------
\* The default panel is taken, or a panel asked for.
StartBind(s) == \/ Note(s, "btn_bind_service", "panel_id", Given, "waiting_telegram_user_id")
                \/ SetsState(s, "btn_bind_service", "waiting_bind_panel")
BindPickPanel(s) == Note(s, "bind_panel_pick", "panel_id", Given, "waiting_telegram_user_id")
BindUserId(s) ==
    Note(s, "waiting_telegram_user_id", "telegram_user_id", Given, "waiting_client_email")
BindEmail(s) ==
    NoteSubject(s, "waiting_client_email", "client_email", "waiting_service_name")
BindFinalize(s) == Take(s, "waiting_service_name",
                        {"panel_id", "telegram_user_id", "client_email"}, "client_email")

\* A user reports a missing service: the link is looked up before the dialog is closed.
StatusMissingPrompt(s) == SetsState(s, "status_missing_prompt", "waiting_status_missing_link")
StatusMissingLink(s) == Keep(s, "waiting_status_missing_link", "saving", Given)

BindNext ==
    /\ family = "bind"
    /\ \E s \in Slots : \/ Label(s, "btn_bind_service") \/ StartBind(s)
                        \/ PressIn(s, "waiting_bind_panel", "bind_panel_pick", Given)
                        \/ BindPickPanel(s) \/ BindUserId(s) \/ BindEmail(s) \/ BindFinalize(s)
                        \/ Press(s, "status_missing_prompt", Given) \/ StatusMissingPrompt(s)
                        \/ StatusMissingLink(s)
===============================================================================
