-------------------------------- MODULE Routing --------------------------------
(***************************************************************************)
(* The routing of a panel: which outbound the traffic of a client leaves   *)
(* by.  The bot reads the whole configuration of xray, changes it and      *)
(* writes it back (panel_service.py), for one client or as the default of  *)
(* an inbound.  xray takes the first rule that matches, else the first     *)
(* outbound.  A rule without users is for every client, one without        *)
(* inbound tags for every inbound.  Like the operations of PanelClients,   *)
(* an operation is a plan of calls of the panel.                           *)
(***************************************************************************)
EXTENDS Integers, SequencesExt, TLC

CONSTANTS Routers,      \* requests
          Users,        \* clients
          Inbounds,     \* the tags of the inbounds, in the order of their ids
          InboundOf,    \* the inbound of a client
          Direct,       \* the outbound that is there from the start
          Outbounds,    \* outbounds that may be added
          MaxRoutings   \* bound: operations asked for

ASSUME RoutingAssumption ==
    /\ Inbounds \in Seq(STRING) /\ "api" \notin ToSet(Inbounds)
    /\ InboundOf \in [Users -> ToSet(Inbounds)]

VARIABLES xray,      \* outbounds (a set of tags) and rules of the panel
          owned,     \* panel_outbound_owner: outbounds the delegated admin has added
          granted,   \* panel_outbound_delegate_grant: outbounds it was granted
          task,      \* what each request is doing
          asks,      \* operations asked for so far
          mixed,     \* two operations overlapped
          first,     \* first choices a rule was made for, and that stand: <<client, tag>>
          chosen,    \* clients an outbound was ever chosen for
          added,     \* outbounds that were there, or whose addition was answered
          default    \* the default last set, by inbound

routingVars == <<xray, owned, granted, task, asks, mixed, first, chosen, added, default>>
outboundRows == <<owned, granted>>
routingGhosts == <<first, chosen, added, default>>

Rest == [todo |-> <<>>, delegated |-> FALSE, u |-> "none", tag |-> Direct, ins |-> {}, cfg |-> [outs |-> {}, rules |-> <<>>]]
Api == [users |-> {}, ins |-> {"api"}, out |-> "api"]
\* A rule that an administrator of the panel made by hand, for every inbound.
ByHand == [users |-> {}, ins |-> {}, out |-> Direct]

RoutingInit ==
    /\ xray \in [outs : {{Direct} \cup Outbounds, {Direct}}, rules : {<<Api>>, <<ByHand>>, <<>>}]
    /\ owned = {}
    /\ granted = {}
    /\ task = [r \in Routers |-> Rest]
    /\ asks = 0
    /\ mixed = FALSE
    /\ first = {}
    /\ chosen = {}
    /\ added = xray.outs
    /\ default = [i \in {} |-> Direct]
-------------------------------------------------------------------------------
\* What xray does.
Matches(rule, u) == (rule.users = {} \/ u \in rule.users) /\ (rule.ins = {} \/ InboundOf[u] \in rule.ins)
Route(u) == LET hits == {k \in DOMAIN xray.rules : Matches(xray.rules[k], u)}
            IN  IF hits = {} THEN Direct ELSE xray.rules[Min(hits)].out

\* _find_rule_for_client_outbound: the first rule for the outbound that has nobody or this
\* client in it, on any inbound or on this one; 0 when there is none.
FindRule(rules, u, tag) == SelectInSeq(rules, LAMBDA rule : rule.out = tag /\ Matches(rule, u))

\* A new rule behind all others.
NewRuleAtEnd(rules) == Len(rules) + 1

\* _new_rule_insert_index: in front, but behind the rule of the api.
NewRuleIndex(rules) == IF rules # <<>> /\ Head(rules) = Api THEN 2 ELSE 1

\* _append_unique_rule_user, and the inbound of the client.
JoinRule(rule, u) == [rule EXCEPT !.users = @ \cup {u}, !.ins = @ \cup {InboundOf[u]}]

\* set_client_outbound_tag, of the rules that were read.
RulesWithClient(rules, u, tag) ==
    LET k == FindRule(rules, u, tag)
    IN  IF k # 0 THEN [rules EXCEPT ![k] = JoinRule(@, u)]
        ELSE InsertAt(rules, NewRuleIndex(rules), [users |-> {u}, ins |-> {InboundOf[u]}, out |-> tag])

\* _rule_is_inbound_wide_exact_tag
IsWide(rule, i) == rule.users = {} /\ rule.ins = {i}

\* _inbound_wide_outbound_on_rule, of the first wide rule of an inbound.
HasDefault(rules, i, tag) ==
    LET k == SelectInSeq(rules, LAMBDA rule : IsWide(rule, i)) IN k # 0 /\ rules[k].out = tag

\* Without the wide rules of some inbounds.
WithoutWide(rules, ins) ==
    LET kept[n \in 0..Len(rules)] ==
            IF n = 0 THEN <<>>
            ELSE IF \E i \in ins : IsWide(rules[n], i) THEN kept[n - 1]
            ELSE Append(kept[n - 1], rules[n])
    IN  kept[Len(rules)]

\* A rule for the outbound is widened, or the wide rules of all the inbounds that change make
\* way for a new one.
Widen(rules, i, changing, tag) ==
    LET k == SelectInSeq(rules, LAMBDA rule : rule.out = tag /\ (rule.ins = {} \/ i \in rule.ins))
        kept == WithoutWide(rules, changing)
    IN  IF k # 0 THEN [rules EXCEPT ![k].ins = @ \cup {i}]
        ELSE InsertAt(kept, NewRuleIndex(kept), [users |-> {}, ins |-> {i}, out |-> tag])

\* set_inbounds_default_outbound_routing, of the rules that were read: one inbound after the other.
RulesWithDefault(rules, ins, tag) ==
    LET changing == {i \in ins : ~HasDefault(rules, i, tag)}
        widened[n \in 0..Len(Inbounds)] ==
            IF n = 0 THEN rules
            ELSE IF Inbounds[n] \in changing THEN Widen(widened[n - 1], Inbounds[n], changing, tag)
            ELSE widened[n - 1]
    IN  widened[Len(Inbounds)]
-------------------------------------------------------------------------------
\* The operations, each as the calls it makes; the service of the clients reloads xray once more.
SetClientLocation == <<"allowed", "read", "write client", "restart", "read", "reload">>
SetDefaultLocation == <<"allowed", "read", "write default", "restart">>
AddOutbound == <<"read", "write outbound", "own">>

Doing(r, step) == task[r].todo # <<>> /\ Head(task[r].todo) = step
Advance(r) == [task[r] EXCEPT !.todo = Tail(@)]
Sets(r, t) == task' = [task EXCEPT ![r] = IF t.todo = <<>> THEN Rest ELSE t]
Leaves(r, t) == Sets(r, t) /\ UNCHANGED <<xray, outboundRows, asks, mixed, routingGhosts>>

\* list_panel_outbound_delegate_visible_tags and list_outbound_tags_for_actor: a root admin
\* sees every outbound.
VisibleTags == owned \cup granted
TagsFor(delegated) == IF delegated THEN xray.outs \cap VisibleTags ELSE xray.outs

BeginRouting(r, t) ==
    /\ task[r] = Rest
    /\ asks < MaxRoutings
    /\ asks' = asks + 1
    /\ mixed' = (mixed \/ \E q \in Routers : task[q] # Rest)
    /\ Sets(r, t)
    /\ UNCHANGED <<xray, outboundRows, routingGhosts>>

\* edit_config_location_pick: the button carries a place in the list of outbounds, which is
\* read again.
PickLocation(r) ==
    \E u \in Users, d \in BOOLEAN : \E t \in TagsFor(d) :
        BeginRouting(r, [Rest EXCEPT !.todo = SetClientLocation, !.delegated = d, !.u = u, !.tag = t])
\* For the inbounds that were ticked.
PickDefault(r) ==
    \E is \in SUBSET ToSet(Inbounds) \ {{}}, d \in BOOLEAN : \E t \in TagsFor(d) :
        BeginRouting(r, [Rest EXCEPT !.todo = SetDefaultLocation, !.delegated = d, !.ins = is, !.tag = t])

\* A share link, from a root admin or a full admin.
SendLink(r) ==
    \E t \in Outbounds, d \in BOOLEAN :
        BeginRouting(r, [Rest EXCEPT !.todo = AddOutbound, !.delegated = d, !.tag = t])

\* replace_panel_outbound_delegate_grants; see SharedConnection for what may come in between.
ReplaceGrants(r, tags) ==
    /\ task[r] = Rest
    /\ asks < MaxRoutings
    /\ asks' = asks + 1
    /\ granted' = tags
    /\ UNCHANGED <<xray, owned, task, mixed, routingGhosts>>

\* Not found, no connection, or an error of the panel.
GiveUp(r) == task[r] # Rest /\ Leaves(r, Rest)

\* actor_may_use_outbound_tag
MayUseTag(r) ==
    /\ Doing(r, "allowed")
    /\ task[r].tag \in TagsFor(task[r].delegated)
    /\ Leaves(r, [Advance(r) EXCEPT !.delegated = FALSE])

\* get_xray_setting: all of it.  An outbound that is added gets a tag of its own.
ReadXray(r) ==
    /\ Doing(r, "read")
    /\ \/ task[r].todo = AddOutbound /\ task[r].tag \notin xray.outs
       \/ task[r].todo # AddOutbound /\ (task[r].tag \in xray.outs \/ Len(task[r].todo) = 2)
    /\ Leaves(r, [Advance(r) EXCEPT !.cfg = xray])

WritesXray(r, cfg) == /\ xray' = cfg
                      /\ Sets(r, Advance(r))
                      /\ UNCHANGED <<outboundRows, asks, mixed>>

\* Where a rule is made for the first choice of a client, the client leaves by it until another
\* choice or default.
WriteClientRule(r) ==
    LET t == task[r]
        others == {p \in first : p[1] # t.u}
    IN  /\ Doing(r, "write client")
        /\ WritesXray(r, [t.cfg EXCEPT !.rules = RulesWithClient(@, t.u, t.tag)])
        /\ first' = IF t.u \in chosen \/ FindRule(t.cfg.rules, t.u, t.tag) # 0
                    THEN others ELSE others \cup {<<t.u, t.tag>>}
        /\ chosen' = chosen \cup {t.u}
        /\ UNCHANGED <<added, default>>

WriteDefault(r) ==
    LET t == task[r]
    IN  /\ Doing(r, "write default")
        /\ WritesXray(r, [t.cfg EXCEPT !.rules = RulesWithDefault(@, t.ins, t.tag)])
        /\ first' = {p \in first : InboundOf[p[1]] \notin t.ins}
        /\ default' = [i \in t.ins |-> t.tag] @@ default
        /\ UNCHANGED <<chosen, added>>

\* append_outbound_from_share_link
WithOutbound(cfg, tag) == [cfg EXCEPT !.outs = @ \cup {tag}]
WriteOutbound(r) ==
    /\ Doing(r, "write outbound")
    /\ WritesXray(r, WithOutbound(task[r].cfg, task[r].tag))
    /\ added' = added \cup {task[r].tag}
    /\ UNCHANGED <<first, chosen, default>>

\* The outbound belongs to whom added it.
OwnOutbound(r) == /\ Doing(r, "own")
                  /\ owned' = IF task[r].delegated THEN owned \cup {task[r].tag} ELSE owned
                  /\ Sets(r, Advance(r))
                  /\ UNCHANGED <<xray, granted, asks, mixed, routingGhosts>>

RestartXray(r) == Doing(r, "restart") /\ Leaves(r, Advance(r))

\* reload_xray_config writes back what it has read.
ReloadXray(r) == Doing(r, "reload") /\ WritesXray(r, task[r].cfg) /\ UNCHANGED routingGhosts

RoutingNext ==
    \/ \E r \in Routers :
          \/ PickLocation(r) \/ PickDefault(r) \/ SendLink(r)
          \/ \E tags \in SUBSET ({Direct} \cup Outbounds) : ReplaceGrants(r, tags)
          \/ GiveUp(r) \/ MayUseTag(r) \/ ReadXray(r) \/ RestartXray(r)
          \/ WriteClientRule(r) \/ WriteDefault(r) \/ WriteOutbound(r) \/ OwnOutbound(r) \/ ReloadXray(r)

RoutingSpec == RoutingInit /\ [][RoutingNext]_routingVars
-------------------------------------------------------------------------------
\* What is known of a client's route survives everything that other operations do to the
\* rules, one after the other: a client leaves by the outbound a rule was first made for until
\* it is given another or its inbound a default, whatever the rules of others are merged into,
\* and the outbound is still there.  Two operations that overlap undo each other's writes.
FirstChoiceStands ==
    ~mixed => /\ \A p \in first : Route(p[1]) = p[2]
              /\ added \subseteq xray.outs

\* "Set default (no per-user filter) routing for inbounds. Returns count of inbounds updated."
\* (panel_service.py:2588).  A client for which no outbound was ever chosen leaves by the
\* default that was last set for its inbound.
DefaultReachesItsInbounds ==
    ~mixed => \A u \in Users \ chosen :
                  InboundOf[u] \in DOMAIN default => Route(u) = default[InboundOf[u]]
===============================================================================
