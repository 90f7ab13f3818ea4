------------------------------ MODULE MCServices ------------------------------
(***************************************************************************)
(* The services that keep no state in common on a small instance: a        *)
(* behaviour is one of the clients of a panel, of its routing, of the      *)
(* access rules, of the usage that is kept, of a price or of the summaries *)
(* by it, and the others rest.  The loads bound what a behaviour of the    *)
(* clients, of the usage or of the summaries may do, so that each          *)
(* combination of operations is explored on its own.                       *)
(***************************************************************************)
EXTENDS PanelClients, Routing, AccessRules, Usage, Pricing, Summaries

CONSTANTS q1, q2, router, c0, c1, c2, a1, a2, p1, p2, u1, u2, boss, child, rival, reader

VARIABLE part   \* what this behaviour is about

servicesVars == <<clientVars, routingVars, accessVars, usageVars, pricingVars, summaryVars, part>>

Actors == {q1, q2}
AllClients == {c0, c1, c2}
TwoAdmins == {a1, a2}
SecondUnderFirst == (a1 :> NoOwner) @@ (a2 :> a1)
NoFamily == (a1 :> NoOwner) @@ (a2 :> NoOwner)
SmallLoads ==
    {[ops |-> {"add", "toggle", "total", "rotate", "delete", "cleanup"},
      on |-> {c0}, old |-> {c0}, families |-> {SecondUnderFirst}, most |-> 3],
     [ops |-> {"extend", "days", "limit", "tg", "reset", "rotate"},
      on |-> {c0}, old |-> {c0}, families |-> {SecondUnderFirst}, most |-> 2],
     [ops |-> {"create"}, on |-> {c0, c1, c2}, old |-> {},
      families |-> {SecondUnderFirst}, most |-> 4],
     [ops |-> {"create", "add", "gift", "owner", "list", "parent"}, on |-> {c0}, old |-> {},
      families |-> {SecondUnderFirst}, most |-> 4],
     [ops |-> {"create", "add", "gift", "parent"}, on |-> {c0}, old |-> {}, families |-> {NoFamily}, most |-> 3],
     [ops |-> {"owner", "list", "gift"}, on |-> {c0}, old |-> {c0}, families |-> {SecondUnderFirst}, most |-> 3]}

TwoUsers == {u1, u2}
TwoInbounds == <<"in1", "in2">>
SameInbound == (u1 :> "in1") @@ (u2 :> "in1")

FewRounds ==
    {[changes |-> 2, rounds |-> 1, notices |-> 0, crashes |-> 0, overlap |-> 1],
     [changes |-> 1, rounds |-> 2, notices |-> 0, crashes |-> 0, overlap |-> 1],
     [changes |-> 1, rounds |-> 1, notices |-> 1, crashes |-> 1, overlap |-> 1],
     [changes |-> 0, rounds |-> 2, notices |-> 1, crashes |-> 1, overlap |-> 2],
     [changes |-> 0, rounds |-> 1, notices |-> 2, crashes |-> 0, overlap |-> 1]}

ThreeResellers == {boss, child, rival}
ChildMoves == [a \in ThreeResellers |-> IF a = child THEN {boss, rival} ELSE {}]
ByRoot == [a \in ThreeResellers |-> RootAdmin]
FewOperations == {
    \* traffic comes and goes, and the one below changes sides
    [ops |-> {"use", "top up", "gift", "parent", "total"}, reports |-> {}, most |-> 3,
     begins |-> {child, boss, RootAdmin, Nobody}, tags |-> {"none"}],
    \* two summaries meet a resumed client
    [ops |-> {"total"}, reports |-> Actors, most |-> 1, begins |-> {child}, tags |-> {"moafresume"}],
    \* one summary amid what changes hands, and amid what is taken back or set aside
    [ops |-> {"top up", "gift", "parent"}, reports |-> {reader}, most |-> 2, begins |-> {child}, tags |-> {"none"}],
    [ops |-> {"top up", "total"}, reports |-> {reader}, most |-> 2, begins |-> {child}, tags |-> {"none"}],
    [ops |-> {"use", "reset", "tag", "exclude"}, reports |-> {reader}, most |-> 1, begins |-> {child}, tags |-> {"none"}]}

Symmetric == Permutations(Actors) \cup Permutations({c1, c2})

\* The states the other parts rest in.
ClientsRest == load = (CHOOSE l \in SmallLoads : TRUE) /\ version = "v3" /\ owners = <<>>
               /\ clients = [c \in Clients |-> Gone] /\ parent = SecondUnderFirst
RoutingRests == xray = [outs |-> {Direct}, rules |-> <<>>]
UsageRests == bounds = CHOOSE b \in FewRounds : TRUE
PricingRests == pricing = [gb |-> 0, basis |-> "allocated", past |-> 1, tiers |-> <<>>]
SummariesRest == scene = (CHOOSE l \in FewOperations : l.reports = {}) /\ client.comment = Nobody
                 /\ head = [a \in ThreeResellers |-> Nobody]

ServicesInit ==
    /\ part \in {"clients", "routing", "access", "usage", "pricing", "summaries"}
    /\ ClientsInit /\ (part # "clients" => ClientsRest)
    /\ RoutingInit /\ (part # "routing" => RoutingRests)
    /\ AccessInit
    /\ UsageInit /\ (part # "usage" => UsageRests)
    /\ PricingInit /\ (part # "pricing" => PricingRests)
    /\ SummariesInit /\ (part # "summaries" => SummariesRest)

ServicesNext ==
    /\ \/ part = "clients" /\ ClientsNext
          /\ UNCHANGED <<routingVars, accessVars, usageVars, pricingVars, summaryVars>>
       \/ part = "routing" /\ RoutingNext
          /\ UNCHANGED <<clientVars, accessVars, usageVars, pricingVars, summaryVars>>
       \/ part = "access" /\ AccessNext
          /\ UNCHANGED <<clientVars, routingVars, usageVars, pricingVars, summaryVars>>
       \/ part = "usage" /\ UsageNext
          /\ UNCHANGED <<clientVars, routingVars, accessVars, pricingVars, summaryVars>>
       \/ part = "pricing" /\ PricingNext
          /\ UNCHANGED <<clientVars, routingVars, accessVars, usageVars, summaryVars>>
       \/ part = "summaries" /\ SummariesNext
          /\ UNCHANGED <<clientVars, routingVars, accessVars, usageVars, pricingVars>>
    /\ UNCHANGED part

ServicesSpec == ServicesInit /\ [][ServicesNext]_servicesVars

\* The type invariants of the parts, in one: the rows and the records of each service stay of
\* their kinds, whatever overlaps, fails or is repeated.
ServicesTypeOK ==
    /\ part = "clients" => ClientsTypeOK
    /\ part = "access" => AccessTypeOK
    /\ part = "usage" => UsageTypeOK
    /\ part = "pricing" => PricingTypeOK
    /\ part = "summaries" => SummariesTypeOK
===============================================================================
