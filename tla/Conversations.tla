----------------------------- MODULE Conversations -----------------------------
(***************************************************************************)
(* All dialogs of the bot, one family at a time, and what they promise     *)
(* whichever way updates and handlers interleave.                          *)
(***************************************************************************)
EXTENDS ClientDialogs, SetupDialogs, AdminDialogs, Pickers

ConversationsNext ==
    \/ DialogNext
    \/ EditNext \/ ManageNext \/ PanelwideNext
    \/ CreateNext \/ PanelNext \/ BindNext
    \/ DelegatesNext \/ LimitsNext \/ FinexNext \/ WalletNext \/ PricingNext
    \/ AccessNext \/ GroupsNext \/ GrantsNext \/ LocationNext

ConversationsSpec == DialogInit /\ [][ConversationsNext]_dialogVars

\* Questions that are answered once, and the key of what they are about.
EditQuestions == {"waiting_edit_tg_id", "waiting_edit_add_traffic_gb",
                  "waiting_edit_reset_traffic_gb", "waiting_edit_add_expiry_days"}
ManageQuestions == {"waiting_custom_traffic_gb", "waiting_custom_expiry_days",
                    "waiting_custom_ip_limit", "waiting_tg_id"}
BulkQuestions == {"waiting_bulk_add_traffic_gb", "waiting_bulk_add_expiry_days"}
SubjectKey ==
    [q \in EditQuestions \cup ManageQuestions \cup BulkQuestions
           \cup {"waiting_panel_pricing_field", "waiting_finex_remain_bulk_tokens"} |->
        IF q \in EditQuestions THEN "edit"
        ELSE IF q \in ManageQuestions THEN "client_manage"
        ELSE IF q \in BulkQuestions THEN "bulk_panel"
        ELSE IF q = "waiting_panel_pricing_field" THEN "delegated_panel_price"
        ELSE "finex_delegate"]
-------------------------------------------------------------------------------
\* A question is answered at most once: however many texts the administrator sends, and
\* however their handlers overlap, what is done to a client, panel or wallet (traffic added,
\* days added, a client created, an amount charged) is done no more often than it was asked.
AnsweredAsAsked == \A t \in Subjects : acted[t] <= asked[t]

\* When one of these questions is open, what the answer will change is what the question that
\* was opened last is about: however buttons overlap, and however late a handler opens its
\* question (after answers, menus and cancels that came in between), an older question never
\* lends its client to a newer one, and none is open without a client.
QuestionHasItsSubject ==
    waiting \in DOMAIN SubjectKey =>
        SubjectKey[waiting] \in DOMAIN data /\ data[SubjectKey[waiting]] = last

\* The inbounds saved for a reseller in "access" are those ticked for that reseller, whatever
\* toggles of older keyboards were still being handled.
SavedForItsTarget == family = "access" => \A p \in saved : p[1] = p[2]
===============================================================================
