-------------------------------- MODULE Pickers --------------------------------
(***************************************************************************)
(* The keyboards on which several things are ticked and then saved:        *)
(* "access" (the inbounds of a reseller, admin_panels.py), "groups" (the   *)
(* inbounds of a panel's group, admin_panel_groups.py), "grants" (the      *)
(* outbounds a reseller may use, admin_outbound_panel.py) and "location"   *)
(* (inbounds to be sent through an outbound, admin_inbound_location.py).   *)
(* What is ticked is kept as the subject whose ticks were loaded; the      *)
(* buttons carry the subject of the message they belong to.                *)
(***************************************************************************)
EXTENDS Dialogs

\* The subject and its ticks are stored together.
Load(p, target, ticks, t) ==
    waiting' = p /\ data' = With(target, t, With(ticks, t, data))

\* The button that opens the keyboard: the ticks are read, then stored with the state.
Opens(s, h, t, p, target, ticks) ==
    BegunAbout(s, h, t) /\ Load(p, target, ticks, t) /\ Ends(s) /\ Later /\ Silent

\* A button of the message about t that first looks at what is stored.
Shown(s, h, target) == Begun(s, h) /\ target \in DOMAIN data /\ data[target] = running[s].about

\* The ticks are read and the access checked, before they are written or saved.
Reads(s) == Goes(s, "reading", running[s].about) /\ Later /\ UNCHANGED context /\ Silent
Writes(s, d) == data' = d /\ UNCHANGED waiting /\ Ends(s) /\ Later /\ Silent

\* What is ticked at this moment is what will be saved.
Saves(s, target, ticks) == /\ Goes(s, "saving", target)
                           /\ saved' = saved \cup {<<target, data[ticks]>>}
                           /\ Later
                           /\ UNCHANGED <<context, asked, acted, last>>
-------------------------------------------------------------------------------
AccessKeys(t, d) == With("access_target", t, With("access_ticks", t, d))

PanelAccessPick(s, t) ==
    Opens(s, "panel_access_pick", t, "waiting_inbound_selection", "access_target", "access_ticks")
PanelAccessToggle(s) == Shown(s, "panel_access_toggle", "access_target") /\ Reads(s)

\* The ticks alone, without whose they are.
PanelAccessToggledAlone(s) ==
    Is(s, "panel_access_toggle", "reading") /\ Writes(s, With("access_ticks", running[s].about, data))
PanelAccessToggled(s) ==
    Is(s, "panel_access_toggle", "reading") /\ Writes(s, AccessKeys(running[s].about, data))
PanelAccessSave(s) == /\ Shown(s, "panel_access_save", "access_target")
                      /\ Saves(s, running[s].about, "access_ticks")

AccessNext ==
    /\ family = "access"
    /\ \/ \E s \in Slots, t \in Subjects : Press(s, "panel_access_pick", t) \/ PanelAccessPick(s, t)
       \/ \E s \in Slots : \/ PanelAccessToggle(s) \/ PanelAccessToggled(s) \/ PanelAccessSave(s)
                           \/ \E t \in Subjects, h \in {"panel_access_toggle", "panel_access_save"} :
                                 PressIn(s, "waiting_inbound_selection", h, t)
-------------------------------------------------------------------------------
GroupAdd(s, t) ==
    running[s].about = t /\ Note(s, "pg:add", "panel_group_panel_id", t, "waiting_group_name")

\* The group is created in the panel that is stored, then the context cleared.
GroupAddSubmit(s) == /\ "panel_group_panel_id" \in DOMAIN data
                     /\ Keep(s, "waiting_group_name", "saving", data["panel_group_panel_id"])

\* The panel stored for a new group gives way to the panel of this one (its id is stored as well,
\* and never read).
GroupDetail(s, t) ==
    Opens(s, "pg:detail", t, "waiting_inbound_selection", "panel_group_panel_id",
          "panel_group_ticks")

\* One step: nothing is awaited between the read and the write.  The group is not looked at.
GroupToggle(s) == Begun(s, "pg:toggle") /\ Ends(s) /\ Later /\ UNCHANGED context /\ Silent

\* The group is the one of the button, the ticks are those stored.
GroupSave(s) == /\ "panel_group_ticks" \in DOMAIN data
                /\ Begun(s, "pg:save")
                /\ Saves(s, running[s].about, "panel_group_ticks")

GroupsNext ==
    /\ family = "groups"
    /\ \/ \E s \in Slots, t \in Subjects : \/ Press(s, "pg:add", t) \/ Press(s, "pg:detail", t)
                                          \/ GroupAdd(s, t) \/ GroupDetail(s, t)
       \/ \E s \in Slots : \/ GroupAddSubmit(s) \/ GroupToggle(s) \/ GroupSave(s)
                           \/ \E t \in Subjects, h \in {"pg:toggle", "pg:save"} :
                                 PressIn(s, "waiting_inbound_selection", h, t)
-------------------------------------------------------------------------------
AskLink(s, t) ==
    running[s].about = t /\ Note(s, "panel_ob_add", "panel_ob_panel_id", t, "waiting_share_link")
AskLabel(s, t) ==
    Opens(s, "panel_ob_a", t, "waiting_display_label", "panel_ob_panel_id", "panel_ob_tag")

\* The panel is read; the link is parsed, the outbound appended and its label asked for.
ReceiveLink(s) == /\ Begun(s, "waiting_share_link")
                  /\ IF "panel_ob_panel_id" \in DOMAIN data
                     THEN Goes(s, "reading", data["panel_ob_panel_id"]) /\ UNCHANGED context
                     ELSE Clear /\ Ends(s)
                  /\ Later
                  /\ Silent
LinkAppended(s) ==
    /\ Is(s, "waiting_share_link", "reading")
    /\ \/ Clear
       \/ UNCHANGED context
       \/ Load("waiting_display_label", "panel_ob_panel_id", "panel_ob_tag", running[s].about)
    /\ Ends(s)
    /\ Later
    /\ Silent
DisplayLabel(s) == /\ Begun(s, "waiting_display_label")
                   /\ IF {"panel_ob_panel_id", "panel_ob_tag"} \subseteq DOMAIN data
                      THEN Saves(s, data["panel_ob_panel_id"], "panel_ob_tag")
                      ELSE Clear /\ Ends(s) /\ Later /\ Silent

GrantPick(s, t) == Opens(s, "panel_ob_gadm", t, "picking", "obg_delegate", "obg_selected")
GrantShown(s, h) == waiting = "picking" /\ Shown(s, h, "obg_delegate")
GrantToggle(s) == GrantShown(s, "panel_ob_gt") /\ Reads(s)
GrantToggled(s) ==
    Is(s, "panel_ob_gt", "reading") /\ Writes(s, With("obg_selected", running[s].about, data))
GrantConfirm(s) == GrantShown(s, "panel_ob_gcf") /\ Saves(s, running[s].about, "obg_selected")
GrantBack(s) == Clears(s, "panel_ob_gbk")

GrantsNext ==
    /\ family = "grants"
    /\ \/ \E s \in Slots, t \in Subjects :
             \/ \E h \in {"panel_ob_add", "panel_ob_a", "panel_ob_gadm"} : Press(s, h, t)
             \/ AskLink(s, t) \/ AskLabel(s, t) \/ GrantPick(s, t)
       \/ \E s \in Slots : \/ ReceiveLink(s) \/ LinkAppended(s) \/ DisplayLabel(s)
                           \/ GrantToggle(s) \/ GrantToggled(s) \/ GrantConfirm(s) \/ GrantBack(s)
                           \/ \E t \in Subjects, h \in {"panel_ob_gt", "panel_ob_gcf", "panel_ob_gbk"} :
                                 Press(s, h, t)
-------------------------------------------------------------------------------
ShowInbounds(t) == Load("choosing_inbounds", "ib_panel_id", "ib_selected", t)

\* With several panels one is asked for.
LocationStart(s) == /\ Begun(s, "btn_change_inbound_location")
                    /\ \/ waiting' = "choosing_panel" /\ data' = Empty
                       \/ Clear
                       \/ \E t \in Subjects : ShowInbounds(t)
                    /\ Ends(s)
                    /\ Later
                    /\ Silent
LocationPanel(s, t) ==
    BegunAbout(s, "ibloc:pnl", t) /\ ShowInbounds(t) /\ Ends(s) /\ Later /\ Silent

LocationToggle(s) == Shown(s, "ibloc:toggle", "ib_panel_id") /\ Reads(s)
LocationToggled(s) ==
    Is(s, "ibloc:toggle", "reading") /\ Writes(s, With("ib_selected", running[s].about, data))

\* The outbounds of the stored panel are listed before the state is set.
LocationConfirm(s) == /\ {"ib_panel_id", "ib_selected"} \subseteq DOMAIN data
                      /\ Keep(s, "ibloc:confirm", "reading", data["ib_panel_id"])
LocationConfirmed(s) == /\ Is(s, "ibloc:confirm", "reading")
                        /\ waiting' = "choosing_outbound"
                        /\ UNCHANGED data
                        /\ Ends(s)
                        /\ Later
                        /\ Silent
LocationOutbound(s) == Shown(s, "ibloc:ob", "ib_panel_id") /\ Saves(s, running[s].about, "ib_selected")
LocationCancel(s) == Clears(s, "ibloc:cancel")

LocationNext ==
    /\ family = "location"
    /\ \/ \E s \in Slots, t \in Subjects : Press(s, "ibloc:pnl", t) \/ LocationPanel(s, t)
       \/ \E s \in Slots :
             \/ Label(s, "btn_change_inbound_location") \/ LocationStart(s)
             \/ LocationToggle(s) \/ LocationToggled(s) \/ LocationConfirm(s)
             \/ LocationConfirmed(s) \/ LocationOutbound(s) \/ LocationCancel(s)
             \/ \E t \in Subjects, h \in {"ibloc:toggle", "ibloc:confirm", "ibloc:ob", "ibloc:cancel"} :
                   Press(s, h, t)
===============================================================================
