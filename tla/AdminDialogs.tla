----------------------------- MODULE AdminDialogs ------------------------------
(***************************************************************************)
(* The dialogs about resellers: "delegates" (adding one and choosing the   *)
(* inbounds, admin_access.py), "limits" (a price or limit for one panel),  *)
(* "finex" (clients left out of a reseller's accounts), "wallet"           *)
(* (admin_finance_wallet.py) and "pricing" (admin_finance_pricing.py).     *)
(***************************************************************************)
EXTENDS Dialogs

DelegateAdd(s) == SetsState(s, "dag:add", "waiting_target")
DelegateTarget(s) == NoteSubject(s, "waiting_target", "delegated_target", "waiting_title")

\* _start_delegated_inbound_selection, after the inbounds have been listed: the selection and
\* whose it is are stored together.
ShowsSelection(t) == \/ Clear
                     \/ /\ data' = With("delegated_target", t, With("delegated_selected", t, data))
                        /\ waiting' = "waiting_inbound_selection"

\* A title without a target raises.
DelegateTitle(s) == /\ "delegated_target" \in DOMAIN data
                    /\ Keep(s, "waiting_title", "reading", data["delegated_target"])
DelegateTitled(s) == /\ Is(s, "waiting_title", "reading")
                     /\ ShowsSelection(running[s].about)
                     /\ Ends(s)
                     /\ Later
                     /\ Silent
DelegateEdit(s, t) ==
    BegunAbout(s, "dag:edit", t) /\ ShowsSelection(t) /\ Ends(s) /\ Later /\ Silent

\* One step: nothing is awaited between the read and the write.
DelegateToggle(s) == Begun(s, "dag:toggle") /\ Ends(s) /\ Later /\ UNCHANGED context /\ Silent
DelegateCancel(s) == Clears(s, "dag:cancel")

\* What differs is revoked and granted one by one; an exception leaves the rest undone and the
\* selection in place.
DelegateConfirm(s) == /\ {"delegated_target", "delegated_selected"} \subseteq DOMAIN data
                      /\ Begun(s, "dag:confirm")
                      /\ Goes(s, "saving", data["delegated_target"])
                      /\ saved' = saved \cup {<<data["delegated_target"], data["delegated_selected"]>>}
                      /\ Later
                      /\ UNCHANGED <<context, asked, acted, last>>

DelegatesNext ==
    /\ family = "delegates"
    /\ \/ \E s \in Slots, t \in Subjects : Press(s, "dag:edit", t) \/ DelegateEdit(s, t)
       \/ \E s \in Slots :
             \/ Press(s, "dag:add", Given) \/ DelegateAdd(s)
             \/ \E h \in {"dag:toggle", "dag:cancel", "dag:confirm"} :
                   PressIn(s, "waiting_inbound_selection", h, Given)
             \/ DelegateTarget(s) \/ DelegateTitle(s) \/ DelegateTitled(s)
             \/ DelegateToggle(s) \/ DelegateCancel(s) \/ DelegateConfirm(s)
-------------------------------------------------------------------------------
AskPanelLimit(s, t) ==
    Ask(s, "dag:panel_price", t, "waiting_panel_pricing_field", "delegated_panel_price")

\* The field and whose it is are read, and cleared after the access check; then the value is
\* parsed and the row of that panel written.
PanelLimit(s) ==
    /\ Begun(s, "waiting_panel_pricing_field")
    /\ IF "delegated_panel_price" \in DOMAIN data
       THEN UNCHANGED context /\ Goes(s, "reading", data["delegated_panel_price"])
       ELSE Clear /\ Ends(s)
    /\ Later
    /\ Silent
PanelLimitSaved(s) ==
    Is(s, "waiting_panel_pricing_field", "reading") /\ Clear /\ Ends(s) /\ Later /\ Silent

LimitsNext == /\ family = "limits"
              /\ \/ \E s \in Slots, t \in Subjects :
                       Press(s, "dag:panel_price", t) \/ AskPanelLimit(s, t)
                 \/ \E s \in Slots : PanelLimit(s) \/ PanelLimitSaved(s)
-------------------------------------------------------------------------------
AskFinexNames(s, t) ==
    Ask(s, "dag:fxrmb", t, "waiting_finex_remain_bulk_tokens", "finex_delegate")

\* The clients are searched for on every panel; what was found is stored with the next state.
FinexNames(s) == /\ Begun(s, "waiting_finex_remain_bulk_tokens")
                 /\ IF "finex_delegate" \in DOMAIN data
                    THEN UNCHANGED context /\ Goes(s, "reading", data["finex_delegate"])
                    ELSE Clear /\ Ends(s)
                 /\ Later
                 /\ Silent
FinexFound(s) == /\ Is(s, "waiting_finex_remain_bulk_tokens", "reading")
                 /\ \/ UNCHANGED context
                    \/ /\ Store("finex_hits", running[s].about)
                       /\ waiting' = "waiting_finex_remain_bulk_confirm"
                 /\ Ends(s)
                 /\ Later
                 /\ Silent

\* Yes, for the delegate of the message, which must be the one stored; each hit is added.
FinexYes(s) ==
    /\ Begun(s, "dag:fxrmy")
    /\ IF /\ {"finex_delegate", "finex_hits"} \subseteq DOMAIN data
          /\ data["finex_delegate"] = running[s].about
       THEN UNCHANGED context /\ Goes(s, "saving", running[s].about)
       ELSE Clear /\ Ends(s)
    /\ Later
    /\ Silent
FinexNo(s) == Clears(s, "dag:fxrmn")

FinexNext ==
    /\ family = "finex"
    /\ \/ \E s \in Slots, t \in Subjects : Press(s, "dag:fxrmb", t) \/ AskFinexNames(s, t)
       \/ \E s \in Slots : \/ FinexNames(s) \/ FinexFound(s) \/ FinexYes(s) \/ FinexNo(s)
                           \/ \E t \in Subjects, h \in {"dag:fxrmy", "dag:fxrmn"} :
                                 PressIn(s, "waiting_finex_remain_bulk_confirm", h, t)
-------------------------------------------------------------------------------
AskWalletTarget(s) == Note(s, "fin:wallet", "finance_mode", Given, "waiting_wallet_target")

\* The target is stored, the wallet shown, and the context cleared.
WalletTarget(s) == /\ Begun(s, "waiting_wallet_target")
                   /\ \E t \in Subjects : Put("finance_wallet_target", t)
                   /\ Goes(s, "closing", Given)
                   /\ UNCHANGED waiting
                   /\ Later

AskWalletAmount(s, t) ==
    /\ BegunAbout(s, "fin:wallet:action", t)
    /\ waiting' = "waiting_wallet_amount"
    /\ data' = With("finance_wallet_action", Given, With("finance_wallet_target", t, data))
    /\ asked' = [asked EXCEPT ![t] = @ + 1]
    /\ last' = t
    /\ UNCHANGED <<acted, saved>>
    /\ Ends(s)
    /\ Later
WalletAmount(s) == Take(s, "waiting_wallet_amount",
                        {"finance_wallet_target", "finance_wallet_action"}, "finance_wallet_target")

WalletNext == /\ family = "wallet"
              /\ \/ \E s \in Slots, t \in Subjects :
                       Press(s, "fin:wallet:action", t) \/ AskWalletAmount(s, t)
                 \/ \E s \in Slots : \/ Press(s, "fin:wallet", Given) \/ AskWalletTarget(s)
                                     \/ WalletTarget(s) \/ WalletAmount(s)
-------------------------------------------------------------------------------
AskPricingTarget(s) == SetsState(s, "fin:pricing", "waiting_pricing_target")
PricingTarget(s) ==
    NoteSubject(s, "waiting_pricing_target", "finance_pricing_target", "waiting_pricing_gb")
PricingGb(s) ==
    Note(s, "waiting_pricing_gb", "finance_price_per_gb", Given, "waiting_pricing_day")

\* The target and the price per GB are read, then the present price; when it differs the
\* administrator is asked about past reports, otherwise the prices are saved.
PricingDay(s) == /\ {"finance_pricing_target", "finance_price_per_gb"} \subseteq DOMAIN data
                 /\ Keep(s, "waiting_pricing_day", "reading", data["finance_pricing_target"])
PricingDayRead(s) == /\ Is(s, "waiting_pricing_day", "reading")
                     /\ \/ /\ Store("finance_price_per_day", Given)
                           /\ waiting' = "waiting_pricing_history_choice"
                        \/ Clear
                     /\ Ends(s)
                     /\ Later
                     /\ Silent
TakePricing(s, h) == Take(s, h, {"finance_pricing_target", "finance_price_per_gb",
                                 "finance_price_per_day"}, "finance_pricing_target")
PricingHistoryApply(s) == TakePricing(s, "fin:pricing:history:apply")
PricingHistoryKeep(s) == TakePricing(s, "fin:pricing:history:keep")

PricingNext ==
    /\ family = "pricing"
    /\ \E s \in Slots : \/ Press(s, "fin:pricing", Given) \/ AskPricingTarget(s)
                        \/ PricingTarget(s) \/ PricingGb(s) \/ PricingDay(s) \/ PricingDayRead(s)
                        \/ \E h \in {"fin:pricing:history:apply", "fin:pricing:history:keep"} :
                              PressIn(s, "waiting_pricing_history_choice", h, Given)
                        \/ PricingHistoryApply(s) \/ PricingHistoryKeep(s)
===============================================================================
