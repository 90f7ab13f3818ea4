------------------------------ MODULE AdminsProofs ------------------------------
(***************************************************************************)
(* The admins, for any admins, grants, removals, staff, panels, inbounds   *)
(* and requests.                                                           *)
(*                                                                         *)
(* Who is under whom (Hierarchy): every parent has a row, the two queries  *)
(* agree, and in calm times nobody is under themselves.                    *)
(*                                                                         *)
(* What they may do (AccessRules), for any number of changes under way:    *)
(* the rows keep their types, the five places that answer from them agree, *)
(* and a removed admin keeps nothing.  The argument is about the           *)
(* statements that errands have left: what must be done before a row is    *)
(* inserted or an admin is deactivated is done, or stands earlier in the   *)
(* same errand.                                                            *)
(***************************************************************************)
EXTENDS Hierarchy, AccessRules, FiniteSetTheorems, TLAPS

\* The new parent that CheckParent let through still has a row when it is written.
ParentHasRow ==
    \A q \in Requests : pc[q] \in {"checking", "writing"} => NewParent(q) \in known \cup {NoAdmin}

TypeInv == TypeOK /\ ParentHasRow

LEMMA InitTypeInv == Init => TypeInv
BY HierarchyAssumption DEF Init, TypeInv, TypeOK, ParentHasRow, NoMove

LEMMA NextTypeInv == TypeInv /\ [Next]_vars => TypeInv'
<1> SUFFICES ASSUME TypeInv, [Next]_vars PROVE TypeInv'
    OBVIOUS
<1> USE HierarchyAssumption DEF TypeInv, TypeOK, ParentHasRow, NewParent, Child, GoTo
<1>1. ASSUME NEW q \in Requests, Begin(q) PROVE TypeInv'
      BY <1>1 DEF Begin
<1>2. ASSUME NEW q \in Requests, CheckParent(q) PROVE TypeInv'
      BY <1>2 DEF CheckParent
<1>3. ASSUME NEW q \in Requests, CheckSubtree(q) PROVE TypeInv'
      BY <1>3 DEF CheckSubtree
<1>4. ASSUME NEW q \in Requests, Write(q) PROVE TypeInv'
      BY <1>4 DEF Write
<1>5. ASSUME NEW a \in Admins \cup {NoAdmin}, NEW x \in Admins, Admit(a, x) PROVE TypeInv'
      BY <1>5 DEF Admit
<1>6. ASSUME NEW a \in Admins \cup {NoAdmin}, NEW x \in Admins, Regrant(a, x) PROVE TypeInv'
      BY <1>6 DEF Regrant
<1>7. ASSUME NEW x \in Admins, RemoveAdmin(x) PROVE TypeInv'
      BY <1>7 DEF RemoveAdmin
<1>8. CASE UNCHANGED vars
      BY <1>8 DEF vars
<1>9. QED
      BY <1>1, <1>2, <1>3, <1>4, <1>5, <1>6, <1>7, <1>8 DEF Next, Step

\* Type correctness: every parent ever written has a row, whatever was granted, removed or
\* written since change_delegated_admin_parent looked for it.
THEOREM TypeCorrect == Spec => []TypeOK
<1>1. TypeInv => TypeOK
      BY DEF TypeInv
<1>2. QED
      BY InitTypeInv, NextTypeInv, <1>1, PTL DEF Spec
--------------------------------------------------------------------------------
\* Who is reached going down is reached going up: in any state whose variables have their
\* types, circles of parents included.
LEMMA WalksAgree == TypeOK => WalkAgreesWithTree
<1> SUFFICES ASSUME TypeOK, NEW x \in active, NEW y \in active, x # y
             PROVE  y \in Upstream(x) <=> x \in Tree(y)
    BY DEF WalkAgreesWithTree
<1> USE DEF TypeOK
<1>1. ASSUME x \in Tree(y) PROVE y \in Upstream(x)
  <2> SUFFICES ASSUME NEW S \in SUBSET Admins,
                      parent[x] \in Admins => parent[x] \in S,
                      \A z \in S \cap active : parent[z] \in Admins => parent[z] \in S,
                      y \notin S
               PROVE  FALSE
      BY DEF Upstream
  <2> DEFINE U == active \ (S \cup {x})
  <2>1. U \in SUBSET active /\ y \in U /\ x \notin U
        OBVIOUS
  <2>2. \A w \in active : parent[w] \in U => w \in U
        OBVIOUS
  <2>3. x \in U
        BY <1>1, <2>1, <2>2 DEF Tree
  <2>4. QED
        BY <2>1, <2>3
<1>2. ASSUME y \in Upstream(x) PROVE x \in Tree(y)
  <2> SUFFICES ASSUME NEW S \in SUBSET active,
                      y \in S,
                      \A w \in active : parent[w] \in S => w \in S,
                      x \notin S
               PROVE  FALSE
      BY DEF Tree
  <2> DEFINE U == Admins \ S
  <2>1. U \in SUBSET Admins /\ y \notin U
        OBVIOUS
  <2>2. parent[x] \in Admins => parent[x] \in U
        OBVIOUS
  <2>3. \A z \in U \cap active : parent[z] \in Admins => parent[z] \in U
        OBVIOUS
  <2>4. y \in U
        BY <1>2, <2>1, <2>2, <2>3 DEF Upstream
  <2>5. QED
        BY <2>1, <2>4
<1>3. QED
      BY <1>1, <1>2

\* The admins charged with an admin are those in whose subtree it is, at any time.
THEOREM WalkAgrees == Spec => []WalkAgreesWithTree
BY TypeCorrect, WalksAgree, PTL
--------------------------------------------------------------------------------
\* When the check of change_delegated_admin_parent is enough: one change at a time, nobody
\* is removed, and only root admins grant access.
Calm == /\ \A q1, q2 \in Requests : q1 = q2
        /\ Removals = {}
        /\ \A g \in Grants : g[1] = NoAdmin

\* Then rows are active, those without one are under nobody, the child of a change keeps
\* its row, and the new parent stays outside its subtree until it is written.
NobodyInactive == active = known
NewcomersFree == \A x \in Admins \ known : parent[x] = NoAdmin
ChildStays == \A q \in Requests : pc[q] # "idle" => Child(q) \in known
StillOutside == \A q \in Requests : pc[q] = "writing" => NewParent(q) \notin Tree(Child(q))
CalmInv == TypeInv /\ NobodyInactive /\ NewcomersFree /\ ChildStays /\ StillOutside /\ Forest

\* A new parent outside the subtree of the child closes no circle.
LEMMA WriteKeepsForest ==
    ASSUME CalmInv, NEW c \in active, NEW p \in Admins \cup {NoAdmin}, p \in known \cup {NoAdmin},
           p \notin Tree(c), parent' = [parent EXCEPT ![c] = p]
    PROVE  Forest'
<1> SUFFICES ASSUME NEW S \in SUBSET Admins, S # {}, \A x \in S : parent'[x] \in S
             PROVE  FALSE
    BY DEF Forest, Circular
<1> USE HierarchyAssumption DEF CalmInv, TypeInv, TypeOK, NobodyInactive
<1>1. CASE c \notin S
      BY <1>1 DEF Forest, Circular
<1>2. CASE c \in S
  <2>1. p \in S /\ p \in active
        BY <1>2
  <2>2. PICK T \in SUBSET active : /\ c \in T /\ p \notin T
                                   /\ \A y \in active : parent[y] \in T => y \in T
        BY <2>1 DEF Tree
  <2> DEFINE U == S \ T
  <2>3. U # {} /\ U \in SUBSET Admins
        BY <2>1, <2>2
  <2>4. ASSUME NEW x \in U PROVE parent[x] \in U
    <3>1. x # c /\ parent[x] \in S
          BY <2>2
    <3>2. x \in active
          BY <3>1 DEF NewcomersFree
    <3>3. QED
          BY <2>2, <3>1, <3>2
  <2>5. QED
        BY <2>3, <2>4 DEF Forest, Circular
<1>3. QED
      BY <1>1, <1>2

LEMMA CalmInit == Calm /\ Init /\ (\A S \in SUBSET Admins : ~Circular(S)) => CalmInv
BY InitTypeInv, HierarchyAssumption
   DEF Calm, CalmInv, Init, NobodyInactive, NewcomersFree, ChildStays, StillOutside, Forest

\* What neither the rows nor a request past the check changes, keeps the invariant.
LEMMA CalmFrame ==
    ASSUME CalmInv, TypeInv', known' = known, active' = active, parent' = parent,
           \A q \in Requests : pc'[q] # "idle" => Child(q)' \in known,
           \A q \in Requests : pc'[q] = "writing" => NewParent(q)' \notin Tree(Child(q)')
    PROVE  CalmInv'
<1>1. \A m : Tree(m)' = Tree(m)
      BY DEF Tree
<1>2. Forest'
      BY DEF CalmInv, Forest, Circular
<1>3. StillOutside'
      BY DEF StillOutside, Tree
<1>4. QED
      BY <1>2, <1>3 DEF CalmInv, NobodyInactive, NewcomersFree, ChildStays

LEMMA CalmNext == Calm /\ CalmInv /\ [Next]_vars => CalmInv'
<1> SUFFICES ASSUME Calm, CalmInv, [Next]_vars PROVE CalmInv'
    OBVIOUS
<1>0. TypeInv'
      BY NextTypeInv DEF CalmInv
<1> USE HierarchyAssumption DEF CalmInv, TypeInv, TypeOK, Child, NewParent, GoTo
<1>1. ASSUME NEW q \in Requests, Begin(q) PROVE CalmInv'
  <2>1. \A r \in Requests : pc'[r] # "idle" => Child(r)' \in known
        BY <1>1 DEF Begin, ChildStays
  <2>2. \A r \in Requests : pc'[r] # "writing"
        BY <1>1 DEF Begin, Calm
  <2>3. QED
        BY <1>0, <1>1, <2>1, <2>2, CalmFrame DEF Begin
<1>2. ASSUME NEW q \in Requests, CheckParent(q) PROVE CalmInv'
  <2>1. \A r \in Requests : pc'[r] # "idle" => Child(r)' \in known
        BY <1>2 DEF CheckParent, ChildStays
  <2>2. NoAdmin \notin Tree(Child(q))
        BY DEF Tree
  <2>3. \A r \in Requests : pc'[r] = "writing" => NewParent(r)' \notin Tree(Child(r)')
        BY <1>2, <2>2 DEF CheckParent, Calm, Tree
  <2>4. QED
        BY <1>0, <1>2, <2>1, <2>3, CalmFrame DEF CheckParent
<1>3. ASSUME NEW q \in Requests, CheckSubtree(q) PROVE CalmInv'
  <2>1. \A r \in Requests : pc'[r] # "idle" => Child(r)' \in known
        BY <1>3 DEF CheckSubtree, ChildStays
  <2>2. pc'[q] = "writing" => NewParent(q) \notin Tree(Child(q))
        BY <1>3 DEF CheckSubtree
  <2>3. \A r \in Requests : pc'[r] = "writing" => NewParent(r)' \notin Tree(Child(r)')
        BY <1>3, <2>2 DEF CheckSubtree, Calm, Tree
  <2>4. QED
        BY <1>0, <1>3, <2>1, <2>3, CalmFrame DEF CheckSubtree
<1>4. ASSUME NEW q \in Requests, Write(q) PROVE CalmInv'
  <2>1. Child(q) \in active /\ NewParent(q) \in known \cup {NoAdmin} /\ NewParent(q) \notin Tree(Child(q))
        BY <1>4 DEF Write, ChildStays, StillOutside, ParentHasRow, NobodyInactive
  <2>2. parent' = [parent EXCEPT ![Child(q)] = NewParent(q)]
        BY <1>4, <2>1 DEF Write
  <2>3. Forest'
        BY <2>1, <2>2, WriteKeepsForest
  <2>4. \A r \in Requests : pc'[r] = "idle"
        BY <1>4 DEF Write, Calm
  <2>5. NobodyInactive' /\ NewcomersFree'
        BY <1>4, <2>1, <2>2 DEF Write, NobodyInactive, NewcomersFree
  <2>6. QED
        BY <1>0, <2>3, <2>4, <2>5 DEF ChildStays, StillOutside
<1>5. ASSUME NEW a \in Admins \cup {NoAdmin}, NEW x \in Admins, Admit(a, x) PROVE CalmInv'
  <2>1. a = NoAdmin
        BY <1>5 DEF Admit, Calm
  <2>2. parent' = parent
        BY <1>5, <2>1 DEF Admit, NewcomersFree
  <2>3. Forest' /\ NobodyInactive' /\ NewcomersFree' /\ ChildStays'
        BY <1>5, <2>2 DEF Admit, Forest, Circular, NobodyInactive, NewcomersFree, ChildStays
  <2>4. ASSUME NEW r \in Requests, pc'[r] = "writing" PROVE NewParent(r)' \notin Tree(Child(r))'
    <3>1. pc[r] = "writing" /\ NewParent(r)' = NewParent(r) /\ Child(r)' = Child(r)
          BY <1>5, <2>4 DEF Admit
    <3>2. Child(r) \in active /\ NewParent(r) \in active \cup {NoAdmin}
          BY <3>1 DEF ChildStays, ParentHasRow, NobodyInactive
    <3>3. CASE NewParent(r) = NoAdmin
          BY <3>1, <3>3, <1>0 DEF Tree
    <3>4. CASE NewParent(r) \in active
      <4>1. PICK S \in SUBSET active : /\ Child(r) \in S /\ NewParent(r) \notin S
                                       /\ \A y \in active : parent[y] \in S => y \in S
            BY <3>1, <3>2, <3>4 DEF StillOutside, Tree
      <4>2. S \in SUBSET active' /\ \A y \in active' : parent'[y] \in S => y \in S
            BY <1>5, <2>1, <2>2, <4>1 DEF Admit, NewcomersFree
      <4>3. QED
            BY <3>1, <4>1, <4>2 DEF Tree
    <3>5. QED
          BY <3>2, <3>3, <3>4
  <2>5. QED
        BY <1>0, <2>3, <2>4 DEF StillOutside
<1>6. ASSUME NEW a \in Admins \cup {NoAdmin}, NEW x \in Admins, Regrant(a, x) PROVE CalmInv'
  <2>1. a = NoAdmin
        BY <1>6 DEF Regrant, Calm
  <2>2. known' = known /\ active' = active /\ parent' = parent /\ pc' = pc /\ move' = move
        BY <1>6, <2>1 DEF Regrant, NobodyInactive
  <2>3. QED
        BY <1>0, <2>2, CalmFrame DEF ChildStays, StillOutside
<1>7. ASSUME NEW x \in Admins, RemoveAdmin(x) PROVE CalmInv'
      BY <1>7 DEF RemoveAdmin, Calm
<1>8. CASE UNCHANGED vars
      BY <1>0, <1>8, CalmFrame DEF vars, ChildStays, StillOutside
<1>9. QED
      BY <1>1, <1>2, <1>3, <1>4, <1>5, <1>6, <1>7, <1>8 DEF Next, Step

\* In calm times nobody is ever above itself, if nobody is at the start: the one look at
\* the subtree suffices although the write comes awaits later and newcomers join meanwhile.
THEOREM CalmForest == ASSUME Calm PROVE Spec /\ Forest => []Forest
<1>1. Init /\ Forest => CalmInv
      BY CalmInit DEF Forest
<1>2. CalmInv /\ [Next]_vars => CalmInv'
      BY CalmNext
<1>3. CalmInv => Forest
      BY DEF CalmInv
<1>4. QED
      BY <1>1, <1>2, <1>3, PTL DEF Spec
-------------------------------------------------------------------------------
\* A statement that the program builds: the fields it uses have their types.
WellMade(s) ==
    /\ s \in Statements
    /\ s.do \in {"admin", "panel", "inbound", "revoke", "profile", "deactivate", "status", "scope"}
          => s.a \in Staff
    /\ s.do \in {"panel", "inbound", "revoke", "default", "no default", "delete"} => s.p \in Panels
    /\ s.do \in {"inbound", "revoke"} => s.i \in Ports
    /\ s.do \in {"admin", "scope"} => s.to \in {"limited", "full"}
    /\ s.do \in {"default", "no default", "delete"} => s.a = Root

Plans == {plan \in Seq(Statements) : \A k \in 1..Len(plan) : WellMade(plan[k])}

\* The panel of an inbound row is there and granted, or gone for good.
Covered(a, p) == site[p].is = "deleted" \/ (There(p) /\ <<a, p>> \in onPanel)

\* What is left of a plan inserts no inbound before its panel,
PanelFirst(plan) ==
    \A k \in 1..Len(plan) : plan[k].do = "inbound" =>
        \/ Covered(plan[k].a, plan[k].p)
        \/ \E j \in 1..(k - 1) : plan[j] = PanelStm(plan[k].a, plan[k].p)

\* inserts none for an admin who is not active,
ActiveFirst(plan) ==
    \A k \in 1..Len(plan) : (plan[k].do = "inbound" /\ plan[k].a \notin crossed) =>
        \/ row[plan[k].a].active
        \/ \E j \in 1..(k - 1) : plan[j].do = "admin" /\ plan[j].a = plan[k].a

\* deactivates nobody before the last of the rows is revoked,
RevokedFirst(plan) ==
    \A k \in 1..Len(plan) : (plan[k].do = "deactivate" /\ plan[k].a \notin crossed) =>
        \A x \in onInbound : x[1] = plan[k].a =>
            \E j \in 1..(k - 1) : plan[j] = RevokeStm(x[1], x[2], x[3])

\* and does nothing else when it deactivates.
OnlyRevokes(plan) ==
    \A k \in 1..Len(plan) : plan[k].do = "deactivate" =>
        \A j \in 1..Len(plan) : plan[j].do \in {"revoke", "deactivate"}

Sound(plan) == PanelFirst(plan) /\ ActiveFirst(plan) /\ RevokedFirst(plan) /\ OnlyRevokes(plan)

\* Two errands have nobody in common but those who are noted.
Touches(plan) == {plan[k].a : k \in 1..Len(plan)}
Apart == \A e, f \in Errands : \A a \in Staff :
            (e # f /\ a \in Touches(errand[e]) /\ a \in Touches(errand[f])) => a \in crossed

\* An inbound that is granted is on a panel that is there and granted too.
RowsHavePanels == \A x \in onInbound : There(x[2]) /\ <<x[1], x[2]>> \in onPanel

Typed == /\ AccessTypeOK
         /\ errand \in [Errands -> Plans]
         /\ IsFiniteSet(onInbound)

AccessInv == /\ Typed
             /\ \A e \in Errands : Sound(errand[e])
             /\ Apart
             /\ RowsHavePanels
             /\ RemovedKeepsNothing
-------------------------------------------------------------------------------
(* Plans as sequences of statements.                                             *)

\* The list made of a finite set has its elements and no others.
LEMMA ListOfSet ==
  ASSUME NEW S, IsFiniteSet(S)
  PROVE  /\ SetToSeq(S) \in Seq(S)
         /\ \A x \in S : \E k \in 1..Len(SetToSeq(S)) : SetToSeq(S)[k] = x
  <1> DEFINE n == Cardinality(S)
  <1>1. n \in Nat /\ ExistsBijection(1..n, S)
    BY FS_CardinalityType
  <1>2. \E f \in [1..n -> S] : IsInjective(f)
    BY <1>1 DEF ExistsBijection, Bijection, Injection
  <1>3. SetToSeq(S) \in [1..n -> S] /\ IsInjective(SetToSeq(S))
    BY <1>2 DEF SetToSeq
  <1>4. SetToSeq(S) \in Injection(1..n, S)
    BY <1>3 DEF Injection
  <1>5. IsFiniteSet(1..n) /\ Cardinality(1..n) = n
    BY <1>1, FS_Interval
  <1>6. SetToSeq(S) \in Surjection(1..n, S)
    BY <1>4, <1>5, FS_Injection
  <1>7. \A x \in S : \E k \in 1..n : SetToSeq(S)[k] = x
    BY <1>6 DEF Surjection
  <1> HIDE DEF n
  <1>8. SetToSeq(S) \in Seq(S) /\ Len(SetToSeq(S)) = n
    BY <1>1, <1>3
  <1>9. QED
    BY <1>7, <1>8

\* A statement built from an admin, a panel and an inbound is well made.
LEMMA StatementsWellMade ==
  ASSUME NEW a \in Staff, NEW p \in Panels, NEW i \in Ports
  PROVE  /\ WellMade(PanelStm(a, p))
         /\ WellMade(InboundStm(a, p, i))
         /\ WellMade(RevokeStm(a, p, i))
         /\ \A scope \in {"limited", "full"} : /\ WellMade(OwnStm("admin", a, scope))
                                               /\ WellMade(OwnStm("scope", a, scope))
         /\ \A to \in {"on", "off"} : WellMade(OwnStm("status", a, to))
         /\ WellMade(OwnStm("profile", a, ""))
         /\ WellMade(OwnStm("deactivate", a, ""))
         /\ \A do \in {"default", "no default", "delete"} : WellMade(SiteStm(do, p))
  BY DEF WellMade, Statements, Stm, PanelStm, InboundStm, RevokeStm, OwnStm, SiteStm

\* Plans of the program are plans.
LEMMA ShortPlans ==
  ASSUME NEW s \in Statements, WellMade(s)
  PROVE  <<s>> \in Plans
  BY DEF Plans

LEMMA GrantIsPlan ==
  ASSUME NEW a \in Staff, NEW p \in Panels, NEW i \in Ports, NEW scope \in {"limited", "full"}
  PROVE  Grant(a, p, i, scope) \in Plans
  <1> DEFINE s1 == OwnStm("admin", a, scope)
             s2 == PanelStm(a, p)
             s3 == InboundStm(a, p, i)
             s4 == OwnStm("profile", a, "")
  <1>1. WellMade(s1) /\ WellMade(s2) /\ WellMade(s3) /\ WellMade(s4)
    BY StatementsWellMade
  <1>2. s1 \in Statements /\ s2 \in Statements /\ s3 \in Statements /\ s4 \in Statements
    BY <1>1 DEF WellMade
  <1> HIDE DEF s1, s2, s3, s4
  <1>3. <<s1, s2, s3, s4>> \in Plans
    BY <1>1, <1>2 DEF Plans
  <1>4. QED
    BY <1>3 DEF Grant, s1, s2, s3, s4

\* The statements that give a the inbounds of a set, or take them back.
LEMMA EachIsPlan ==
  ASSUME NEW a \in Staff, NEW p \in Panels, NEW s \in Seq(Ports)
  PROVE  /\ [k \in 1..Len(s) |-> InboundStm(a, p, s[k])] \in Plans
         /\ [k \in 1..Len(s) |-> RevokeStm(a, p, s[k])] \in Plans
  <1> DEFINE gives == [k \in 1..Len(s) |-> InboundStm(a, p, s[k])]
             takes == [k \in 1..Len(s) |-> RevokeStm(a, p, s[k])]
  <1>1. Len(s) \in Nat /\ \A k \in 1..Len(s) : s[k] \in Ports
    OBVIOUS
  <1>2. \A k \in 1..Len(s) : WellMade(InboundStm(a, p, s[k])) /\ WellMade(RevokeStm(a, p, s[k]))
    BY <1>1, StatementsWellMade
  <1>3. \A k \in 1..Len(s) : InboundStm(a, p, s[k]) \in Statements /\ RevokeStm(a, p, s[k]) \in Statements
    BY <1>2 DEF WellMade
  <1>4. /\ gives \in Seq(Statements) /\ Len(gives) = Len(s)
        /\ takes \in Seq(Statements) /\ Len(takes) = Len(s)
    BY <1>1, <1>3
  <1>5. QED
    BY <1>2, <1>4 DEF Plans

LEMMA ConcatIsPlan ==
  ASSUME NEW first \in Plans, NEW second \in Plans
  PROVE  first \o second \in Plans
  <1>1. first \in Seq(Statements) /\ second \in Seq(Statements)
    BY DEF Plans
  <1>2. /\ first \o second \in Seq(Statements)
        /\ Len(first \o second) = Len(first) + Len(second)
        /\ \A k \in 1..Len(first \o second) :
              (first \o second)[k] = IF k <= Len(first) THEN first[k] ELSE second[k - Len(first)]
    BY <1>1
  <1>3. ASSUME NEW k \in 1..Len(first \o second) PROVE WellMade((first \o second)[k])
    <2>1. k <= Len(first) => k \in 1..Len(first)
      BY <1>1, <1>2
    <2>2. ~(k <= Len(first)) => k - Len(first) \in 1..Len(second)
      BY <1>1, <1>2
    <2>3. QED
      BY <1>2, <2>1, <2>2 DEF Plans
  <1>4. QED
    BY <1>2, <1>3 DEF Plans

\* A sync is a panel, then inbounds given and inbounds taken back.
LEMMA SyncUnfolds ==
  ASSUME NEW a \in Staff, NEW p \in Panels, NEW want \in SUBSET Ports
  PROVE  \E give, take \in Seq(Ports) :
            Sync(a, p, want) = <<PanelStm(a, p)>> \o
                ([k \in 1..Len(give) |-> InboundStm(a, p, give[k])]
                 \o [k \in 1..Len(take) |-> RevokeStm(a, p, take[k])])
  <1> DEFINE have == {i \in Ports : InboundRow(a, p, i)}
  <1>1. IsFiniteSet(want \ have) /\ IsFiniteSet(have \ want)
    BY AccessAssumption, FS_Subset
  <1>2. SetToSeq(want \ have) \in Seq(Ports) /\ SetToSeq(have \ want) \in Seq(Ports)
    <2>1. SetToSeq(want \ have) \in Seq(want \ have) /\ SetToSeq(have \ want) \in Seq(have \ want)
      BY <1>1, ListOfSet
    <2>2. QED
      BY <2>1
  <1>3. Sync(a, p, want) = <<PanelStm(a, p)>> \o
            ([k \in 1..Len(SetToSeq(want \ have)) |-> InboundStm(a, p, SetToSeq(want \ have)[k])]
             \o [k \in 1..Len(SetToSeq(have \ want)) |-> RevokeStm(a, p, SetToSeq(have \ want)[k])])
    BY DEF Sync, SyncInboundsOnly
  <1>4. QED
    BY <1>2, <1>3

LEMMA SyncIsPlan ==
  ASSUME NEW a \in Staff, NEW p \in Panels, NEW want \in SUBSET Ports
  PROVE  Sync(a, p, want) \in Plans
  <1>1. PICK give \in Seq(Ports), take \in Seq(Ports) :
            Sync(a, p, want) = <<PanelStm(a, p)>> \o
                ([k \in 1..Len(give) |-> InboundStm(a, p, give[k])]
                 \o [k \in 1..Len(take) |-> RevokeStm(a, p, take[k])])
    BY SyncUnfolds
  <1>2. <<PanelStm(a, p)>> \in Plans
    <2>1. Ports # {} => WellMade(PanelStm(a, p))
      BY StatementsWellMade
    <2>2. WellMade(PanelStm(a, p))
      BY DEF WellMade, Statements, Stm, PanelStm
    <2>3. PanelStm(a, p) \in Statements
      BY <2>2 DEF WellMade
    <2>4. QED
      BY <2>2, <2>3, ShortPlans
  <1>3. QED
    BY <1>1, <1>2, EachIsPlan, ConcatIsPlan

\* A removal is the rows that were read, revoked one by one, and then the admin.
LEMMA RemoveUserUnfolds ==
  ASSUME Typed, NEW a \in Staff
  PROVE  \E revokes \in Plans :
            /\ RemoveUser(a) = revokes \o <<OwnStm("deactivate", a, "")>>
            /\ \A k \in 1..Len(revokes) : revokes[k].do = "revoke" /\ revokes[k].a = a
            /\ \A x \in AccessRows(a) : \E k \in 1..Len(revokes) :
                  revokes[k] = RevokeStm(x[1], x[2], x[3])
  <1> DEFINE rows == SetToSeq(AccessRows(a))
             revokes == [k \in 1..Len(rows) |-> RevokeStm(a, rows[k][2], rows[k][3])]
  <1>1. AccessRows(a) \subseteq Staff \X Panels \X Ports
    BY DEF AccessRows, Typed, AccessTypeOK
  <1>2. IsFiniteSet(AccessRows(a))
    BY FS_Subset DEF AccessRows, Typed
  <1>3. /\ rows \in Seq(AccessRows(a))
        /\ \A x \in AccessRows(a) : \E k \in 1..Len(rows) : rows[k] = x
    BY <1>2, ListOfSet
  <1> HIDE DEF rows
  <1>4. \A k \in 1..Len(rows) : rows[k] \in AccessRows(a)
    BY <1>3
  <1>5. ASSUME NEW x \in AccessRows(a)
        PROVE  /\ x[1] = a /\ x[2] \in Panels /\ x[3] \in Ports
               /\ WellMade(RevokeStm(a, x[2], x[3]))
               /\ RevokeStm(a, x[2], x[3]) \in Statements
    <2>1. x[1] = a /\ x[2] \in Panels /\ x[3] \in Ports
      BY <1>1 DEF AccessRows
    <2>2. WellMade(RevokeStm(a, x[2], x[3]))
      BY <2>1, StatementsWellMade
    <2>3. QED
      BY <2>1, <2>2 DEF WellMade
  <1>6. Len(rows) \in Nat
    BY <1>3
  <1>7. revokes \in Seq(Statements) /\ Len(revokes) = Len(rows)
    BY <1>4, <1>5, <1>6
  <1>8. revokes \in Plans
    BY <1>4, <1>5, <1>7 DEF Plans
  <1>9. \A k \in 1..Len(revokes) : revokes[k].do = "revoke" /\ revokes[k].a = a
    BY <1>7 DEF RevokeStm, Stm
  <1>10. ASSUME NEW x \in AccessRows(a)
         PROVE  \E k \in 1..Len(revokes) : revokes[k] = RevokeStm(x[1], x[2], x[3])
    BY <1>3, <1>5, <1>7
  <1>11. RemoveUser(a) = revokes \o <<OwnStm("deactivate", a, "")>>
    BY DEF RemoveUser, rows
  <1> HIDE DEF revokes
  <1>12. QED
    BY <1>8, <1>9, <1>10, <1>11
-------------------------------------------------------------------------------
(* A plan is sound when the errand begins.                                       *)

\* A statement that neither inserts an inbound nor deactivates is sound by itself.
LEMMA ShortSound ==
  ASSUME NEW s \in Statements, WellMade(s), s.do \notin {"inbound", "deactivate"}
  PROVE  <<s>> \in Plans /\ Sound(<<s>>) /\ Touches(<<s>>) = {s.a}
  <1>1. Len(<<s>>) = 1 /\ <<s>>[1] = s
    OBVIOUS
  <1>2. Sound(<<s>>)
    BY <1>1 DEF Sound, PanelFirst, ActiveFirst, RevokedFirst, OnlyRevokes
  <1>3. Touches(<<s>>) = {s.a}
    BY <1>1 DEF Touches
  <1>4. QED
    BY <1>2, <1>3, ShortPlans

LEMMA GrantSound ==
  ASSUME NEW a \in Staff, NEW p \in Panels, NEW i \in Ports, NEW scope \in {"limited", "full"}
  PROVE  Sound(Grant(a, p, i, scope))
  <1> DEFINE plan == Grant(a, p, i, scope)
  <1>1. /\ Len(plan) = 4
        /\ plan[1].do = "admin" /\ plan[1].a = a
        /\ plan[2] = PanelStm(a, p) /\ plan[2].do = "panel"
        /\ plan[3].do = "inbound" /\ plan[3].a = a /\ plan[3].p = p
        /\ plan[4].do = "profile"
    BY DEF Grant, OwnStm, PanelStm, InboundStm, Stm
  <1> HIDE DEF plan
  <1>2. 1..Len(plan) = {1, 2, 3, 4} /\ 1 \in 1..(3 - 1) /\ 2 \in 1..(3 - 1)
    BY <1>1
  <1>3. PanelFirst(plan)
    BY <1>1, <1>2 DEF PanelFirst
  <1>4. ActiveFirst(plan)
    BY <1>1, <1>2 DEF ActiveFirst
  <1>5. RevokedFirst(plan) /\ OnlyRevokes(plan)
    BY <1>1, <1>2 DEF RevokedFirst, OnlyRevokes
  <1>6. QED
    BY <1>3, <1>4, <1>5 DEF Sound, plan

LEMMA SyncSound ==
  ASSUME NEW a \in Staff, NEW p \in Panels, NEW want \in SUBSET Ports, row[a].active
  PROVE  Sound(Sync(a, p, want))
  <1>1. PICK give \in Seq(Ports), take \in Seq(Ports) :
            Sync(a, p, want) = <<PanelStm(a, p)>> \o
                ([k \in 1..Len(give) |-> InboundStm(a, p, give[k])]
                 \o [k \in 1..Len(take) |-> RevokeStm(a, p, take[k])])
    BY SyncUnfolds
  <1> DEFINE plan == Sync(a, p, want)
             gives == [k \in 1..Len(give) |-> InboundStm(a, p, give[k])]
             takes == [k \in 1..Len(take) |-> RevokeStm(a, p, take[k])]
  <1>2. gives \in Seq(Statements) /\ takes \in Seq(Statements) /\ PanelStm(a, p) \in Statements
    <2>1. gives \in Plans /\ takes \in Plans
      BY EachIsPlan
    <2>2. QED
      BY <2>1 DEF Plans, Statements, PanelStm, Stm
  <1>3. \A k \in 1..Len(gives) : gives[k].do = "inbound" /\ gives[k].a = a /\ gives[k].p = p
    <2>1. Len(gives) = Len(give) /\ \A k \in 1..Len(give) : gives[k] = InboundStm(a, p, give[k])
      OBVIOUS
    <2>2. QED
      BY <2>1 DEF InboundStm, Stm
  <1>4. \A k \in 1..Len(takes) : takes[k].do = "revoke"
    <2>1. Len(takes) = Len(take) /\ \A k \in 1..Len(take) : takes[k] = RevokeStm(a, p, take[k])
      OBVIOUS
    <2>2. QED
      BY <2>1 DEF RevokeStm, Stm
  <1>5. plan = <<PanelStm(a, p)>> \o (gives \o takes)
    BY <1>1
  <1> HIDE DEF gives, takes, plan
  <1> DEFINE rest == gives \o takes
  <1>6. /\ Len(rest) = Len(gives) + Len(takes) /\ rest \in Seq(Statements)
        /\ \A k \in 1..Len(rest) :
              rest[k] = IF k <= Len(gives) THEN gives[k] ELSE takes[k - Len(gives)]
    BY <1>2
  <1>7. \A k \in 1..Len(rest) :
           rest[k].do = "revoke" \/ (rest[k].do = "inbound" /\ rest[k].a = a /\ rest[k].p = p)
    <2> SUFFICES ASSUME NEW k \in 1..Len(rest)
                 PROVE  rest[k].do = "revoke" \/ (rest[k].do = "inbound" /\ rest[k].a = a /\ rest[k].p = p)
      OBVIOUS
    <2>1. CASE k <= Len(gives)
      <3>1. k \in 1..Len(gives)
        BY <1>2, <2>1
      <3>2. QED
        BY <1>3, <1>6, <2>1, <3>1
    <2>2. CASE ~(k <= Len(gives))
      <3>1. k - Len(gives) \in 1..Len(takes)
        BY <1>2, <1>6, <2>2
      <3>2. QED
        BY <1>4, <1>6, <2>2, <3>1
    <2>3. QED
      BY <2>1, <2>2
  <1> HIDE DEF rest
  <1>8. /\ Len(plan) = Len(rest) + 1
        /\ plan[1] = PanelStm(a, p)
        /\ \A k \in 1..Len(plan) : k # 1 => k - 1 \in 1..Len(rest) /\ plan[k] = rest[k - 1]
    BY <1>2, <1>5, <1>6 DEF rest
  <1>9. /\ PanelStm(a, p).do = "panel"
        /\ \A k \in 1..Len(plan) :
              plan[k].do \in {"panel", "revoke"}
              \/ (plan[k].do = "inbound" /\ plan[k].a = a /\ plan[k].p = p /\ k # 1)
    <2>1. PanelStm(a, p).do = "panel"
      BY DEF PanelStm, Stm
    <2>2. QED
      BY <2>1, <1>7, <1>8
  <1>10. PanelFirst(plan)
    <2> SUFFICES ASSUME NEW k \in 1..Len(plan), plan[k].do = "inbound"
                 PROVE  \E j \in 1..(k - 1) : plan[j] = PanelStm(plan[k].a, plan[k].p)
      BY DEF PanelFirst
    <2>1. plan[k].a = a /\ plan[k].p = p /\ k # 1
      BY <1>9
    <2>2. 1 \in 1..(k - 1)
      BY <2>1
    <2>3. QED
      BY <1>8, <2>1, <2>2
  <1>11. ActiveFirst(plan)
    BY <1>9 DEF ActiveFirst
  <1>12. RevokedFirst(plan) /\ OnlyRevokes(plan)
    BY <1>9 DEF RevokedFirst, OnlyRevokes
  <1>13. QED
    BY <1>10, <1>11, <1>12 DEF Sound, plan

\* The rows of an admin are all read when it is active, and none are there when it is not.
LEMMA RemoveUserSound ==
  ASSUME Typed, RemovedKeepsNothing, NEW a \in Staff
  PROVE  RemoveUser(a) \in Plans /\ Sound(RemoveUser(a)) /\ Touches(RemoveUser(a)) = {a}
  <1>1. PICK revokes \in Plans :
            /\ RemoveUser(a) = revokes \o <<OwnStm("deactivate", a, "")>>
            /\ \A k \in 1..Len(revokes) : revokes[k].do = "revoke" /\ revokes[k].a = a
            /\ \A x \in AccessRows(a) : \E k \in 1..Len(revokes) :
                  revokes[k] = RevokeStm(x[1], x[2], x[3])
    BY RemoveUserUnfolds
  <1> DEFINE plan == RemoveUser(a)
             last == OwnStm("deactivate", a, "")
             n == Len(revokes)
  <1>2. WellMade(last) /\ last \in Statements /\ last.do = "deactivate" /\ last.a = a
    BY DEF WellMade, Statements, OwnStm, Stm
  <1>3. n \in Nat /\ n = Len(revokes) /\ revokes \in Seq(Statements)
    BY DEF Plans
  <1> HIDE DEF last, n
  <1>4. /\ Len(plan) = n + 1
        /\ plan[n + 1] = last
        /\ \A k \in 1..n : k \in 1..Len(plan) /\ plan[k] = revokes[k]
        /\ \A k \in 1..Len(plan) : k # n + 1 => k \in 1..n
        /\ 1..((n + 1) - 1) = 1..n
        /\ n + 1 \in 1..Len(plan)
    <2>1. plan = revokes \o <<last>>
      BY <1>1 DEF last
    <2> HIDE DEF plan
    <2>2. Len(plan) = n + 1 /\ plan[n + 1] = last /\ \A k \in 1..n : plan[k] = revokes[k]
      BY <1>2, <1>3, <2>1
    <2>3. QED
      BY <1>3, <2>2
  <1>5. plan \in Plans
    BY <1>1, <1>2, ShortPlans, ConcatIsPlan DEF last
  <1> HIDE DEF plan
  <1>6. \A k \in 1..Len(plan) :
           \/ k \in 1..n /\ plan[k].do = "revoke" /\ plan[k].a = a
           \/ k = n + 1 /\ plan[k].do = "deactivate" /\ plan[k].a = a
    <2> SUFFICES ASSUME NEW k \in 1..Len(plan)
                 PROVE  \/ k \in 1..n /\ plan[k].do = "revoke" /\ plan[k].a = a
                        \/ k = n + 1 /\ plan[k].do = "deactivate" /\ plan[k].a = a
      OBVIOUS
    <2>1. CASE k = n + 1
      BY <1>2, <1>4, <2>1
    <2>2. CASE k # n + 1
      BY <1>1, <1>3, <1>4, <2>2
    <2>3. QED
      BY <2>1, <2>2
  <1>7. PanelFirst(plan) /\ ActiveFirst(plan) /\ OnlyRevokes(plan)
    BY <1>6 DEF PanelFirst, ActiveFirst, OnlyRevokes
  <1>8. RevokedFirst(plan)
    <2> SUFFICES ASSUME NEW k \in 1..Len(plan), plan[k].do = "deactivate", a \notin crossed,
                        NEW x \in onInbound, x[1] = a
                 PROVE  \E j \in 1..(k - 1) : plan[j] = RevokeStm(x[1], x[2], x[3])
      BY <1>6 DEF RevokedFirst
    <2>1. x \in AccessRows(a)
      BY DEF RemovedKeepsNothing, AccessRows
    <2>2. k = n + 1
      BY <1>6
    <2>3. PICK j \in 1..n : revokes[j] = RevokeStm(x[1], x[2], x[3])
      BY <1>1, <1>3, <2>1
    <2>4. QED
      BY <1>4, <2>2, <2>3
  <1>9. Touches(plan) = {a}
    BY <1>4, <1>6 DEF Touches
  <1>10. QED
    BY <1>5, <1>7, <1>8, <1>9 DEF Sound, plan

\* Soundness speaks of rows, panels and crossings only.
LEMMA SoundUnmoved ==
  ASSUME NEW plan, Sound(plan), UNCHANGED <<row, onPanel, onInbound, site>>,
         crossed \subseteq crossed'
  PROVE  Sound(plan)'
  <1>1. PanelFirst(plan)'
    BY DEF Sound, PanelFirst, Covered, There
  <1>2. ActiveFirst(plan)'
    BY DEF Sound, ActiveFirst
  <1>3. RevokedFirst(plan)'
    BY DEF Sound, RevokedFirst
  <1>4. OnlyRevokes(plan)'
    BY DEF Sound, OnlyRevokes
  <1>5. QED
    BY <1>1, <1>2, <1>3, <1>4 DEF Sound

LEMMA SoundNext ==
  ASSUME NEW plan, NEW e \in Errands, errand'[e] = plan, Sound(plan)'
  PROVE  Sound(errand[e])'
  BY DEF Sound, PanelFirst, ActiveFirst, RevokedFirst, OnlyRevokes

\* An errand may begin with any sound plan: whom it has in common with others is noted.
LEMMA BeginKeeps ==
  ASSUME AccessInv, NEW e \in Errands, NEW plan \in Plans, Sound(plan), BeginErrand(e, plan)
  PROVE  AccessInv'
  <1> USE DEF AccessInv
  <1>1. /\ errand[e] = <<>>
        /\ errand' = [errand EXCEPT ![e] = plan]
        /\ asked < MaxErrands /\ asked' = asked + 1
        /\ UNCHANGED <<row, profile, onPanel, onInbound, site, defaultPanel>>
    BY DEF BeginErrand
  <1>2. errand' \in [Errands -> Plans] /\ errand'[e] = plan
        /\ \A f \in Errands : f # e => errand'[f] = errand[f]
    BY <1>1 DEF Typed
  <1>3. \A f \in Errands : errand[f] \in Seq(Statements)
    BY DEF Typed, AccessTypeOK
  <1>4. plan \in Seq(Statements)
    BY DEF Plans
  <1>5. \A s \in Statements : s.a \in Staff \cup {Root}
    BY DEF Statements
  <1>6. {s.a : s \in ToSet(plan)} \subseteq Staff \cup {Root}
    BY <1>4, <1>5 DEF ToSet
  <1>7. crossed' = Crossing(e, plan) \ {Root}
    BY DEF BeginErrand
  <1>8. crossed \subseteq crossed' /\ crossed' \subseteq Staff
    <2>1. crossed \subseteq Staff
      BY DEF Typed, AccessTypeOK
    <2>2. Crossing(e, plan) \subseteq Staff \cup {Root} /\ crossed \subseteq Crossing(e, plan)
      BY <1>6, <2>1 DEF Crossing
    <2>3. QED
      BY <1>7, <2>1, <2>2, AccessAssumption
  <1>9. \A f \in Errands : Sound(errand[f])'
    <2> SUFFICES ASSUME NEW f \in Errands PROVE Sound(errand[f])'
      OBVIOUS
    <2>1. PICK P : P = errand'[f]
      OBVIOUS
    <2>2. Sound(P)
      BY <1>2, <2>1
    <2>3. Sound(P)'
      BY <1>1, <1>8, <2>2, SoundUnmoved
    <2>4. QED
      BY <2>1, <2>3, SoundNext
  <1>10. Apart'
    <2>1. ASSUME NEW f \in Errands, f # e, NEW a \in Staff,
                 a \in Touches(plan), a \in Touches(errand[f])
          PROVE  a \in crossed'
      <3>1. a \in {s.a : s \in ToSet(plan)}
        BY <1>4, <2>1 DEF ToSet, Touches
      <3>2. a \in {s.a : s \in ToSet(errand[f])}
        BY <1>3, <2>1 DEF ToSet, Touches
      <3>3. a \in Crossing(e, plan)
        BY <2>1, <3>1, <3>2 DEF Crossing
      <3>4. QED
        BY <1>7, <3>3, AccessAssumption
    <2>2. ASSUME NEW f \in Errands PROVE Touches(errand[f])' = Touches(errand'[f])
      BY DEF Touches
    <2>3. QED
      BY <1>2, <1>8, <2>1, <2>2 DEF Apart
  <1>11. RowsHavePanels'
    BY <1>1 DEF RowsHavePanels, There
  <1>12. RemovedKeepsNothing'
    BY <1>1, <1>8 DEF RemovedKeepsNothing
  <1>13. Typed'
    <2>1. errand' \in [Errands -> Seq(Statements)]
      BY <1>2 DEF Plans
    <2>2. asked' \in 0..MaxErrands
      BY <1>1, AccessAssumption DEF Typed, AccessTypeOK
    <2>3. AccessTypeOK'
      BY <1>1, <1>8, <2>1, <2>2 DEF Typed, AccessTypeOK, There
    <2>4. QED
      BY <1>1, <1>2, <2>3 DEF Typed, Plans, WellMade
  <1>14. QED
    BY <1>9, <1>10, <1>11, <1>12, <1>13

\* Whatever an administrator asks for is a sound plan.
LEMMA AskKeeps ==
  ASSUME AccessInv, NEW e \in Errands, Ask(e)
  PROVE  AccessInv'
  <1> SUFFICES \E plan \in Plans : Sound(plan) /\ BeginErrand(e, plan)
    BY BeginKeeps
  <1> USE DEF AccessInv
  <1>1. ASSUME NEW a \in Staff, NEW p \in Panels, NEW i \in Ports,
               NEW scope \in {"limited", "full"}, BeginErrand(e, Grant(a, p, i, scope))
        PROVE  \E plan \in Plans : Sound(plan) /\ BeginErrand(e, plan)
    BY <1>1, GrantIsPlan, GrantSound
  <1>2. ASSUME NEW a \in Staff, NEW p \in Panels, BeginErrand(e, GrantPanel(a, p))
        PROVE  \E plan \in Plans : Sound(plan) /\ BeginErrand(e, plan)
    <2>1. /\ PanelStm(a, p) \in Statements /\ WellMade(PanelStm(a, p))
          /\ PanelStm(a, p).do \notin {"inbound", "deactivate"}
      BY DEF WellMade, Statements, PanelStm, Stm
    <2>2. QED
      BY <1>2, <2>1, ShortSound DEF GrantPanel
  <1>3. ASSUME NEW a \in Staff, NEW p \in Panels, NEW want \in SUBSET Ports, row[a].active,
               BeginErrand(e, Sync(a, p, want))
        PROVE  \E plan \in Plans : Sound(plan) /\ BeginErrand(e, plan)
    BY <1>3, SyncIsPlan, SyncSound
  <1>4. ASSUME NEW x \in onInbound, BeginErrand(e, Revoke(x[1], x[2], x[3]))
        PROVE  \E plan \in Plans : Sound(plan) /\ BeginErrand(e, plan)
    <2>1. x \in Staff \X Panels \X Ports
      BY DEF Typed, AccessTypeOK
    <2>2. x[1] \in Staff /\ x[2] \in Panels /\ x[3] \in Ports
      BY <2>1
    <2> DEFINE s == RevokeStm(x[1], x[2], x[3])
    <2>3. s \in Statements /\ WellMade(s) /\ s.do \notin {"inbound", "deactivate"}
      BY <2>2 DEF WellMade, Statements, RevokeStm, Stm
    <2>4. QED
      BY <1>4, <2>3, ShortSound DEF Revoke
  <1>5. ASSUME NEW a \in Staff, BeginErrand(e, RemoveUser(a))
        PROVE  \E plan \in Plans : Sound(plan) /\ BeginErrand(e, plan)
    BY <1>5, RemoveUserSound
  <1>6. ASSUME NEW a \in Staff, NEW do \in {"status", "scope"}, NEW to \in {"limited", "full", "on", "off"},
               do = "scope" => to \in {"limited", "full"},
               BeginErrand(e, <<OwnStm(do, a, to)>>)
        PROVE  \E plan \in Plans : Sound(plan) /\ BeginErrand(e, plan)
    <2>1. /\ OwnStm(do, a, to) \in Statements /\ WellMade(OwnStm(do, a, to))
          /\ OwnStm(do, a, to).do \notin {"inbound", "deactivate"}
      BY <1>6 DEF WellMade, Statements, OwnStm, Stm
    <2>2. QED
      BY <1>6, <2>1, ShortSound
  <1>7. ASSUME NEW p \in Panels, NEW do \in {"default", "no default", "delete"},
               BeginErrand(e, <<SiteStm(do, p)>>)
        PROVE  \E plan \in Plans : Sound(plan) /\ BeginErrand(e, plan)
    <2>1. /\ SiteStm(do, p) \in Statements /\ WellMade(SiteStm(do, p))
          /\ SiteStm(do, p).do \notin {"inbound", "deactivate"}
      BY DEF WellMade, Statements, SiteStm, Stm
    <2>2. QED
      BY <1>7, <2>1, ShortSound
  <1>8. ASSUME NEW a \in Staff, NEW plan \in {ToggleStatus(a), ToggleBasis(a), ToggleWalletMode(a)},
               BeginErrand(e, plan)
        PROVE  \E Q \in Plans : Sound(Q) /\ BeginErrand(e, Q)
    <2>1. PICK to \in {"on", "off"} : plan = <<OwnStm("status", a, to)>>
      BY DEF ToggleStatus, ToggleBasis, ToggleWalletMode, UpdateProfile
    <2>2. BeginErrand(e, <<OwnStm("status", a, to)>>)
      BY <1>8, <2>1
    <2>3. QED
      BY <1>6, <2>2
  <1>9. ASSUME NEW a \in Staff, BeginErrand(e, ToggleScope(a))
        PROVE  \E plan \in Plans : Sound(plan) /\ BeginErrand(e, plan)
    <2>1. PICK to \in {"limited", "full"} : ToggleScope(a) = <<OwnStm("scope", a, to)>>
      BY DEF ToggleScope
    <2>2. BeginErrand(e, <<OwnStm("scope", a, to)>>)
      BY <1>9, <2>1
    <2>3. QED
      BY <1>6, <2>2
  <1>10. ASSUME NEW p \in Panels, BeginErrand(e, ToggleDefaultPanel(p))
         PROVE  \E plan \in Plans : Sound(plan) /\ BeginErrand(e, plan)
    <2>1. PICK do \in {"default", "no default"} : ToggleDefaultPanel(p) = <<SiteStm(do, p)>>
      BY DEF ToggleDefaultPanel
    <2>2. BeginErrand(e, <<SiteStm(do, p)>>)
      BY <1>10, <2>1
    <2>3. QED
      BY <1>7, <2>2
  <1> DEFINE Goal == \E plan \in Plans : Sound(plan) /\ BeginErrand(e, plan)
  <1> HIDE DEF Goal
  <1>11. /\ \A a \in Staff, p \in Panels, i \in Ports, scope \in {"limited", "full"} :
              BeginErrand(e, Grant(a, p, i, scope)) => Goal
         /\ \A a \in Staff, p \in Panels : BeginErrand(e, GrantPanel(a, p)) => Goal
         /\ \A a \in Staff, p \in Panels : \A want \in SUBSET Ports :
              row[a].active /\ BeginErrand(e, Sync(a, p, want)) => Goal
         /\ \A x \in onInbound : BeginErrand(e, Revoke(x[1], x[2], x[3])) => Goal
    BY <1>1, <1>2, <1>3, <1>4 DEF Goal
  <1>12. /\ \A a \in Staff : BeginErrand(e, RemoveUser(a)) => Goal
         /\ \A a \in Staff : \A plan \in {ToggleStatus(a), ToggleBasis(a), ToggleWalletMode(a)} :
              BeginErrand(e, plan) => Goal
         /\ \A a \in Staff : BeginErrand(e, ToggleScope(a)) => Goal
         /\ \A p \in Panels : BeginErrand(e, ToggleDefaultPanel(p)) => Goal
         /\ \A p \in Panels : BeginErrand(e, <<SiteStm("delete", p)>>) => Goal
    BY <1>5, <1>7, <1>8, <1>9, <1>10 DEF Goal
  <1>13. Goal
    BY <1>11, <1>12, Zenon DEF Ask
  <1>14. QED
    BY <1>13 DEF Goal
-------------------------------------------------------------------------------
(* What one statement does.                                                      *)

\* The statement s has done its part and disturbed no other.
Effect(s) ==
    /\ \A a \in Staff, p \in Panels : Covered(a, p) => Covered(a, p)'
    /\ s.do = "panel" => Covered(s.a, s.p)'
    /\ \A a \in Staff : row[a].active => row'[a].active \/ (s.do = "deactivate" /\ s.a = a)
    /\ s.do = "admin" => row'[s.a].active
    /\ \A x \in onInbound' : x \in onInbound \/ (s.do = "inbound" /\ x = <<s.a, s.p, s.i>>)
    /\ s.do = "revoke" => <<s.a, s.p, s.i>> \notin onInbound'
    /\ \A x \in onInbound' : site'[x[2]].is # "deleted"
    /\ crossed' = crossed

Execute(e) ==
    \/ UpsertAdmin(e) \/ AddPanelAccess(e) \/ AddInboundAccess(e) \/ RevokeAccess(e)
    \/ EnsureProfile(e) \/ Deactivate(e) \/ SetStatus(e) \/ SetScope(e)
    \/ SetDefault(e) \/ ClearDefault(e) \/ DeletePanel(e)

\* The first statement left is well made, and the others are those that were behind it.
LEMMA RestOfPlan ==
  ASSUME NEW plan \in Plans, plan # <<>>
  PROVE  /\ Tail(plan) \in Plans
         /\ Len(plan) \in Nat /\ Len(plan) > 0 /\ 1 \in 1..Len(plan)
         /\ Head(plan) = plan[1] /\ WellMade(plan[1])
         /\ Len(Tail(plan)) = Len(plan) - 1
         /\ \A k \in 1..Len(Tail(plan)) : k + 1 \in 1..Len(plan) /\ Tail(plan)[k] = plan[k + 1]
  <1>1. plan \in Seq(Statements) /\ \A k \in 1..Len(plan) : WellMade(plan[k])
    BY DEF Plans
  <1>2. /\ Tail(plan) \in Seq(Statements)
        /\ Len(plan) \in Nat /\ Len(plan) > 0
        /\ Head(plan) = plan[1]
        /\ Len(Tail(plan)) = Len(plan) - 1
        /\ \A k \in 1..Len(Tail(plan)) : k + 1 \in 1..Len(plan) /\ Tail(plan)[k] = plan[k + 1]
    BY <1>1
  <1>3. \A k \in 1..Len(Tail(plan)) : WellMade(Tail(plan)[k])
    BY <1>1, <1>2
  <1>4. 1 \in 1..Len(plan) /\ WellMade(plan[1])
    BY <1>1, <1>2
  <1>5. Tail(plan) \in Plans
    BY <1>2, <1>3 DEF Plans
  <1>6. QED
    BY <1>2, <1>4, <1>5

\* The rows that a statement writes.
LEMMA RowsWritten ==
  /\ \A r \in [active : BOOLEAN, scope : {"limited", "full"}] : \A b \in BOOLEAN :
        [r EXCEPT !.active = b] \in [active : BOOLEAN, scope : {"limited", "full"}]
  /\ \A r \in [active : BOOLEAN, over : BOOLEAN] : \A b \in BOOLEAN :
        [r EXCEPT !.active = b] \in [active : BOOLEAN, over : BOOLEAN]
  /\ \A r \in [is : {"new", "there", "deleted"}, by : Staff \cup {Root}] :
        [r EXCEPT !.is = "deleted"] \in [is : {"new", "there", "deleted"}, by : Staff \cup {Root}]
  OBVIOUS

LEMMA ExecuteShape ==
  ASSUME Typed, NEW e \in Errands, Execute(e)
  PROVE  /\ errand[e] # <<>> /\ errand[e] \in Plans
         /\ errand' = [errand EXCEPT ![e] = Tail(@)]
         /\ asked' = asked /\ crossed' = crossed
  BY DEF Execute, UpsertAdmin, AddPanelAccess, AddInboundAccess, RevokeAccess, EnsureProfile,
         Deactivate, SetStatus, SetScope, SetDefault, ClearDefault, DeletePanel, Next1, Typed

\* Each statement keeps the types of the rows and has its effect.
LEMMA ExecuteEffect ==
  ASSUME Typed, RowsHavePanels, NEW e \in Errands, Execute(e), NEW s, s = Now(e)
  PROVE  Effect(s) /\ Typed'
  <1>1. /\ errand[e] # <<>> /\ errand[e] \in Plans
        /\ errand' = [errand EXCEPT ![e] = Tail(@)]
        /\ asked' = asked /\ crossed' = crossed
    BY ExecuteShape
  <1>2. Now(e) = s /\ WellMade(s) /\ s \in Statements /\ Tail(errand[e]) \in Plans
    BY <1>1, RestOfPlan DEF Now, WellMade
  <1>3. errand' \in [Errands -> Plans] /\ errand' \in [Errands -> Seq(Statements)]
    <2>1. errand' \in [Errands -> Plans]
      BY <1>1, <1>2 DEF Typed
    <2>2. QED
      BY <2>1 DEF Plans
  <1> DEFINE RowsTyped ==
        /\ row \in [Staff -> [active : BOOLEAN, scope : {"limited", "full"}]]
        /\ profile \in [Staff -> [active : BOOLEAN, over : BOOLEAN]]
        /\ onPanel \subseteq Staff \X Panels
        /\ onInbound \subseteq Staff \X Panels \X Ports
        /\ IsFiniteSet(onInbound)
        /\ site \in [Panels -> [is : {"new", "there", "deleted"}, by : Staff \cup {Root}]]
        /\ defaultPanel \in {p \in Panels : There(p)} \cup {NoPanel}
  <1>4. RowsTyped /\ \A x \in onInbound : There(x[2])
    BY DEF Typed, AccessTypeOK, RowsHavePanels
  <1>5. SUFFICES Effect(s) /\ RowsTyped'
    BY <1>1, <1>2, <1>3 DEF Typed, AccessTypeOK, Plans, WellMade
  <1> USE <1>1, <1>2, <1>4 DEF Next1, There, Covered, Effect
  <1>6. CASE UpsertAdmin(e)
    <2>1. s.do = "admin" /\ s.a \in Staff /\ s.to \in {"limited", "full"}
      BY <1>6 DEF UpsertAdmin, WellMade, Now
    <2>2. /\ row' = [row EXCEPT ![s.a] = [active |-> TRUE, scope |-> s.to]]
          /\ UNCHANGED <<profile, onPanel, onInbound, site, defaultPanel>>
      BY <1>6 DEF UpsertAdmin
    <2>3. RowsTyped'
      BY <2>1, <2>2
    <2>4. Effect(s)
      BY <2>1, <2>2
    <2>5. QED
      BY <2>3, <2>4
  <1>7. CASE AddPanelAccess(e)
    <2>1. s.do = "panel" /\ s.a \in Staff /\ s.p \in Panels
      BY <1>7 DEF AddPanelAccess, WellMade, Now
    <2>2. /\ There(s.p)
          /\ onPanel' = onPanel \cup {<<s.a, s.p>>}
          /\ UNCHANGED <<row, profile, onInbound, site, defaultPanel>>
      BY <1>7 DEF AddPanelAccess
    <2>3. RowsTyped'
      BY <2>1, <2>2
    <2>4. \A a \in Staff, p \in Panels : Covered(a, p) => Covered(a, p)'
      BY <2>2
    <2>5. Covered(s.a, s.p)'
      BY <2>2
    <2>6. Effect(s)
      BY <2>1, <2>2, <2>4, <2>5
    <2>7. QED
      BY <2>3, <2>6
  <1>8. CASE AddInboundAccess(e)
    <2>1. s.do = "inbound" /\ s.a \in Staff /\ s.p \in Panels /\ s.i \in Ports
      BY <1>8 DEF AddInboundAccess, WellMade, Now
    <2>2. /\ There(s.p)
          /\ onInbound' = onInbound \cup {<<s.a, s.p, s.i>>}
          /\ UNCHANGED <<row, profile, onPanel, site, defaultPanel>>
      BY <1>8 DEF AddInboundAccess
    <2>3. IsFiniteSet(onInbound')
      BY <2>2, FS_AddElement
    <2>4. RowsTyped'
      BY <2>1, <2>2, <2>3
    <2>5. Effect(s)
      BY <2>1, <2>2
    <2>6. QED
      BY <2>4, <2>5
  <1>9. CASE RevokeAccess(e)
    <2>1. s.do = "revoke" /\ s.a \in Staff /\ s.p \in Panels /\ s.i \in Ports
      BY <1>9 DEF RevokeAccess, WellMade, Now
    <2>2. /\ onInbound' = onInbound \ {<<s.a, s.p, s.i>>}
          /\ UNCHANGED <<row, profile, onPanel, site, defaultPanel>>
      BY <1>9 DEF RevokeAccess
    <2>3. IsFiniteSet(onInbound')
      BY <2>2, FS_RemoveElement
    <2>4. RowsTyped'
      BY <2>1, <2>2, <2>3
    <2>5. Effect(s)
      BY <2>1, <2>2
    <2>6. QED
      BY <2>4, <2>5
  <1>10. CASE EnsureProfile(e)
    <2>1. s.do = "profile" /\ UNCHANGED <<row, profile, onPanel, onInbound, site, defaultPanel>>
      BY <1>10 DEF EnsureProfile, Now
    <2>2. QED
      BY <2>1
  <1>11. CASE Deactivate(e)
    <2>1. s.do = "deactivate" /\ s.a \in Staff
      BY <1>11 DEF Deactivate, WellMade, Now
    <2>2. /\ row' = [row EXCEPT ![s.a].active = FALSE]
          /\ profile' = [profile EXCEPT ![s.a].active = FALSE]
          /\ UNCHANGED <<onPanel, onInbound, site, defaultPanel>>
      BY <1>11 DEF Deactivate
    <2>3. RowsTyped'
      <3>1. /\ [row[s.a] EXCEPT !.active = FALSE] \in [active : BOOLEAN, scope : {"limited", "full"}]
            /\ [profile[s.a] EXCEPT !.active = FALSE] \in [active : BOOLEAN, over : BOOLEAN]
        BY <2>1, RowsWritten
      <3>2. /\ row' = [row EXCEPT ![s.a] = [row[s.a] EXCEPT !.active = FALSE]]
            /\ profile' = [profile EXCEPT ![s.a] = [profile[s.a] EXCEPT !.active = FALSE]]
        BY <2>2
      <3>3. QED
        BY <2>1, <2>2, <3>1, <3>2
    <2>4. Effect(s)
      BY <2>1, <2>2
    <2>5. QED
      BY <2>3, <2>4
  <1>12. CASE SetStatus(e)
    <2>1. s.do = "status" /\ s.a \in Staff
      BY <1>12 DEF SetStatus, WellMade, Now
    <2>2. /\ profile' = [profile EXCEPT ![s.a].active = (s.to = "on")]
          /\ UNCHANGED <<row, onPanel, onInbound, site, defaultPanel>>
      BY <1>12 DEF SetStatus
    <2>3. (s.to = "on") \in BOOLEAN
      BY Zenon
    <2>4. RowsTyped'
      <3>1. [profile[s.a] EXCEPT !.active = (s.to = "on")] \in [active : BOOLEAN, over : BOOLEAN]
        BY <2>1, <2>3, RowsWritten
      <3>2. profile' = [profile EXCEPT ![s.a] = [profile[s.a] EXCEPT !.active = (s.to = "on")]]
        BY <2>2
      <3>3. QED
        BY <2>1, <2>2, <3>1, <3>2
    <2>5. Effect(s)
      BY <2>1, <2>2
    <2>6. QED
      BY <2>4, <2>5
  <1>13. CASE SetScope(e)
    <2>1. s.do = "scope" /\ s.a \in Staff /\ s.to \in {"limited", "full"}
      BY <1>13 DEF SetScope, WellMade, Now
    <2>2. /\ row' = [row EXCEPT ![s.a].scope = s.to]
          /\ UNCHANGED <<profile, onPanel, onInbound, site, defaultPanel>>
      BY <1>13 DEF SetScope
    <2>3. RowsTyped'
      BY <2>1, <2>2
    <2>4. Effect(s)
      BY <2>1, <2>2
    <2>5. QED
      BY <2>3, <2>4
  <1>14. CASE SetDefault(e) \/ ClearDefault(e)
    <2>1. s.do \in {"default", "no default"} /\ s.p \in Panels
      BY <1>14 DEF SetDefault, ClearDefault, WellMade, Now
    <2>2. /\ defaultPanel' \in {p \in Panels : There(p)} \cup {NoPanel}
          /\ UNCHANGED <<row, profile, onPanel, onInbound, site>>
      <3>1. CASE SetDefault(e)
        BY <2>1, <3>1 DEF SetDefault
      <3>2. CASE ClearDefault(e)
        BY <3>2 DEF ClearDefault
      <3>3. QED
        BY <1>14, <3>1, <3>2
    <2>3. RowsTyped'
      BY <2>1, <2>2
    <2>4. Effect(s)
      BY <2>1, <2>2
    <2>5. QED
      BY <2>3, <2>4
  <1>15. CASE DeletePanel(e)
    <2>1. s.do = "delete" /\ s.p \in Panels
      BY <1>15 DEF DeletePanel, WellMade, Now
    <2>2. /\ site' = [site EXCEPT ![s.p].is = "deleted"]
          /\ onPanel' = {x \in onPanel : x[2] # s.p}
          /\ onInbound' = {x \in onInbound : x[2] # s.p}
          /\ defaultPanel' = IF defaultPanel = s.p THEN NoPanel ELSE defaultPanel
          /\ UNCHANGED <<row, profile>>
      BY <1>15 DEF DeletePanel
    <2>3. IsFiniteSet(onInbound')
      BY <2>2, FS_Subset
    <2>4. /\ site' \in [Panels -> [is : {"new", "there", "deleted"}, by : Staff \cup {Root}]]
          /\ \A p \in Panels : site'[p].is = IF p = s.p THEN "deleted" ELSE site[p].is
      <3>1. /\ [site[s.p] EXCEPT !.is = "deleted"]
                  \in [is : {"new", "there", "deleted"}, by : Staff \cup {Root}]
            /\ [site[s.p] EXCEPT !.is = "deleted"].is = "deleted"
        BY <2>1, RowsWritten
      <3>2. site' = [site EXCEPT ![s.p] = [site[s.p] EXCEPT !.is = "deleted"]]
        BY <2>2
      <3>3. QED
        BY <2>1, <3>1, <3>2
    <2>5. defaultPanel' \in {p \in Panels : There(p)'} \cup {NoPanel}
      BY <2>1, <2>2, <2>4
    <2>6. onPanel' \subseteq Staff \X Panels /\ onInbound' \subseteq Staff \X Panels \X Ports
      BY <2>2
    <2>7. RowsTyped'
      BY <2>2, <2>3, <2>4, <2>5, <2>6
    <2>8. \A a \in Staff, p \in Panels : Covered(a, p) => Covered(a, p)'
      BY <2>2, <2>4
    <2>9. \A x \in onInbound' : site'[x[2]].is # "deleted"
      <3> SUFFICES ASSUME NEW x \in onInbound' PROVE site'[x[2]].is # "deleted"
        OBVIOUS
      <3>1. x \in onInbound /\ x[2] # s.p /\ x[2] \in Panels
        BY <2>2
      <3>2. QED
        BY <2>4, <3>1
    <2>10. Effect(s)
      BY <2>1, <2>2, <2>8, <2>9
    <2>11. QED
      BY <2>7, <2>10
  <1>16. QED
    BY <1>6, <1>7, <1>8, <1>9, <1>10, <1>11, <1>12, <1>13, <1>14, <1>15 DEF Execute
-------------------------------------------------------------------------------
(* From what a statement does to what every errand may still rely on.            *)

\* An errand that keeps its statements: the statement of another one cannot have been about
\* the same admin, or the two are noted.
LEMMA OtherSound ==
  ASSUME NEW plan \in Plans, Sound(plan), NEW s \in Statements, Effect(s),
         \A a \in Staff : (a \in Touches(plan) /\ a = s.a) => a \in crossed
  PROVE  Sound(plan)'
  <1>1. \A k \in 1..Len(plan) : WellMade(plan[k])
    BY DEF Plans
  <1>2. crossed' = crossed
    BY DEF Effect
  <1>3. PanelFirst(plan)'
    <2> SUFFICES ASSUME NEW k \in 1..Len(plan), plan[k].do = "inbound"
                 PROVE  \/ Covered(plan[k].a, plan[k].p)'
                        \/ \E j \in 1..(k - 1) : plan[j] = PanelStm(plan[k].a, plan[k].p)
      BY DEF PanelFirst, Covered
    <2>1. plan[k].a \in Staff /\ plan[k].p \in Panels
      BY <1>1 DEF WellMade
    <2>2. QED
      BY <2>1 DEF Sound, PanelFirst, Effect
  <1>4. ActiveFirst(plan)'
    <2> SUFFICES ASSUME NEW k \in 1..Len(plan), plan[k].do = "inbound", plan[k].a \notin crossed
                 PROVE  \/ row'[plan[k].a].active
                        \/ \E j \in 1..(k - 1) : plan[j].do = "admin" /\ plan[j].a = plan[k].a
      BY <1>2 DEF ActiveFirst
    <2>1. plan[k].a \in Staff /\ plan[k].a \in Touches(plan)
      BY <1>1 DEF WellMade, Touches
    <2>2. plan[k].a # s.a
      BY <2>1
    <2>3. row[plan[k].a].active => row'[plan[k].a].active
      BY <2>1, <2>2 DEF Effect
    <2>4. QED
      BY <2>3 DEF Sound, ActiveFirst
  <1>5. RevokedFirst(plan)'
    <2> SUFFICES ASSUME NEW k \in 1..Len(plan), plan[k].do = "deactivate", plan[k].a \notin crossed,
                        NEW x \in onInbound', x[1] = plan[k].a
                 PROVE  \E j \in 1..(k - 1) : plan[j] = RevokeStm(x[1], x[2], x[3])
      BY <1>2 DEF RevokedFirst
    <2>1. plan[k].a \in Staff /\ plan[k].a \in Touches(plan)
      BY <1>1 DEF WellMade, Touches
    <2>2. plan[k].a # s.a
      BY <2>1
    <2>3. x \in onInbound
      BY <2>2 DEF Effect
    <2>4. QED
      BY <2>3 DEF Sound, RevokedFirst
  <1>6. OnlyRevokes(plan)'
    BY DEF Sound, OnlyRevokes
  <1>7. QED
    BY <1>3, <1>4, <1>5, <1>6 DEF Sound

\* The errand itself: what its first statement was to do is done.
LEMMA RestSound ==
  ASSUME NEW plan \in Plans, plan # <<>>, Sound(plan), NEW s \in Statements, s = plan[1],
         Effect(s), NEW rest, rest = Tail(plan), onInbound' \subseteq Staff \X Panels \X Ports
  PROVE  Sound(rest)'
  <1>1. /\ Len(rest) = Len(plan) - 1 /\ Len(plan) \in Nat
        /\ \A k \in 1..Len(rest) : k + 1 \in 1..Len(plan) /\ rest[k] = plan[k + 1]
        /\ \A k \in 1..Len(plan) : WellMade(plan[k])
        /\ 1 \in 1..Len(plan)
    BY RestOfPlan DEF Plans
  \* What stood before a statement was done just now or stands before it still.
  <1>2. ASSUME NEW k \in 1..Len(rest), NEW j \in 1..((k + 1) - 1)
        PROVE  plan[j] = s \/ (j - 1 \in 1..(k - 1) /\ plan[j] = rest[j - 1])
    <2>1. CASE j = 1
      BY <2>1
    <2>2. CASE j # 1
      <3>1. j - 1 \in 1..(k - 1) /\ j - 1 \in 1..Len(rest) /\ (j - 1) + 1 = j
        BY <1>1, <2>2
      <3>2. QED
        BY <1>1, <3>1
    <2>3. QED
      BY <2>1, <2>2
  <1>3. crossed' = crossed
    BY DEF Effect
  <1>4. PanelFirst(rest)'
    <2> SUFFICES ASSUME NEW k \in 1..Len(rest), rest[k].do = "inbound"
                 PROVE  \/ Covered(rest[k].a, rest[k].p)'
                        \/ \E j \in 1..(k - 1) : rest[j] = PanelStm(rest[k].a, rest[k].p)
      BY DEF PanelFirst, Covered
    <2>1. PICK b \in Staff, q \in Panels : b = rest[k].a /\ q = rest[k].p
      BY <1>1 DEF WellMade
    <2>2. \/ Covered(b, q)
          \/ \E j \in 1..((k + 1) - 1) : plan[j] = PanelStm(b, q)
      BY <1>1, <2>1 DEF Sound, PanelFirst
    <2>3. PanelStm(b, q).do = "panel" /\ PanelStm(b, q).a = b /\ PanelStm(b, q).p = q
      BY DEF PanelStm, Stm
    <2>4. s = PanelStm(b, q) => Covered(b, q)'
      BY <2>3 DEF Effect, Covered, There
    <2>5. Covered(b, q) => Covered(b, q)'
      BY DEF Effect
    <2>6. Covered(b, q)' \/ \E j \in 1..(k - 1) : rest[j] = PanelStm(b, q)
      BY <1>2, <2>2, <2>4, <2>5
    <2>7. QED
      BY <2>1, <2>6 DEF Covered, There
  <1>5. ActiveFirst(rest)'
    <2> SUFFICES ASSUME NEW k \in 1..Len(rest), rest[k].do = "inbound", rest[k].a \notin crossed
                 PROVE  \/ row'[rest[k].a].active
                        \/ \E j \in 1..(k - 1) : rest[j].do = "admin" /\ rest[j].a = rest[k].a
      BY <1>3 DEF ActiveFirst
    <2>1. rest[k].a \in Staff
      BY <1>1 DEF WellMade
    <2>2. \/ row[rest[k].a].active
          \/ \E j \in 1..((k + 1) - 1) : plan[j].do = "admin" /\ plan[j].a = rest[k].a
      BY <1>1 DEF Sound, ActiveFirst
    <2>3. s.do # "deactivate"
      BY <1>1 DEF Sound, OnlyRevokes
    <2>4. row[rest[k].a].active => row'[rest[k].a].active
      BY <2>1, <2>3 DEF Effect
    <2>5. s.do = "admin" /\ s.a = rest[k].a => row'[rest[k].a].active
      BY DEF Effect
    <2>6. QED
      BY <1>2, <2>2, <2>4, <2>5
  <1>6. RevokedFirst(rest)'
    <2> SUFFICES ASSUME NEW k \in 1..Len(rest), rest[k].do = "deactivate", rest[k].a \notin crossed,
                        NEW x \in onInbound', x[1] = rest[k].a
                 PROVE  \E j \in 1..(k - 1) : rest[j] = RevokeStm(x[1], x[2], x[3])
      BY <1>3 DEF RevokedFirst
    <2>1. s.do \in {"revoke", "deactivate"}
      BY <1>1 DEF Sound, OnlyRevokes
    <2>2. x \in onInbound
      BY <2>1 DEF Effect
    <2>3. PICK j \in 1..((k + 1) - 1) : plan[j] = RevokeStm(x[1], x[2], x[3])
      BY <1>1, <2>2 DEF Sound, RevokedFirst
    <2>4. s # RevokeStm(x[1], x[2], x[3])
      <3>1. PICK b \in Staff, q \in Panels, i \in Ports : x = <<b, q, i>>
        OBVIOUS
      <3>2. x[1] = b /\ x[2] = q /\ x[3] = i
        BY <3>1
      <3>3. /\ RevokeStm(b, q, i).do = "revoke" /\ RevokeStm(b, q, i).a = b
            /\ RevokeStm(b, q, i).p = q /\ RevokeStm(b, q, i).i = i
        BY DEF RevokeStm, Stm
      <3>4. s # RevokeStm(b, q, i)
        BY <3>1, <3>3 DEF Effect
      <3>5. QED
        BY <3>2, <3>4
    <2>5. QED
      BY <1>2, <2>3, <2>4
  <1>7. OnlyRevokes(rest)'
    BY <1>1 DEF Sound, OnlyRevokes
  <1>8. QED
    BY <1>4, <1>5, <1>6, <1>7 DEF Sound

\* One statement of an errand keeps the whole invariant.
LEMMA ExecuteKeeps ==
  ASSUME AccessInv, NEW e \in Errands, Execute(e)
  PROVE  AccessInv'
  <1> USE DEF AccessInv
  <1>1. /\ errand[e] # <<>> /\ errand[e] \in Plans
        /\ errand' = [errand EXCEPT ![e] = Tail(@)]
        /\ crossed' = crossed
    BY ExecuteShape
  <1>2. PICK plan \in Plans, s \in Statements, rest \in Plans :
           plan = errand[e] /\ s = Now(e) /\ s = plan[1] /\ rest = Tail(plan) /\ WellMade(s)
    BY <1>1, RestOfPlan DEF Now, WellMade
  <1>3. Effect(s) /\ Typed'
    BY <1>2, ExecuteEffect
  <1>4. errand'[e] = rest /\ \A f \in Errands : f # e => errand'[f] = errand[f]
    BY <1>1, <1>2 DEF Typed
  <1>5. 1 \in 1..Len(plan)
    BY <1>1, <1>2, RestOfPlan
  <1>6. s.a \in Touches(errand[e])
    BY <1>2, <1>5 DEF Touches
  <1>7. \A f \in Errands : Sound(errand[f])'
    <2> SUFFICES ASSUME NEW f \in Errands PROVE Sound(errand[f])'
      OBVIOUS
    <2>1. CASE f = e
      <3>1. onInbound' \subseteq Staff \X Panels \X Ports
        BY <1>3 DEF Typed, AccessTypeOK
      <3>2. Sound(rest)'
        BY <1>1, <1>2, <1>3, <3>1, RestSound
      <3>3. QED
        BY <1>4, <2>1, <3>2, SoundNext
    <2>2. CASE f # e
      <3>1. PICK Q \in Plans : Q = errand[f]
        BY DEF Typed
      <3>2. \A a \in Staff : (a \in Touches(Q) /\ a = s.a) => a \in crossed
        BY <1>6, <2>2, <3>1 DEF Apart
      <3>3. Sound(Q)
        BY <3>1
      <3>4. Sound(Q)'
        BY <1>2, <1>3, <3>2, <3>3, OtherSound
      <3>5. QED
        BY <1>4, <2>2, <3>1, <3>4, SoundNext
    <2>3. QED
      BY <2>1, <2>2
  <1>8. Apart'
    <2>1. Touches(rest) \subseteq Touches(plan)
      BY <1>1, <1>2, RestOfPlan DEF Touches
    <2>2. \A f \in Errands : Touches(errand'[f]) \subseteq Touches(errand[f])
      BY <1>2, <1>4, <2>1
    <2>3. ASSUME NEW f \in Errands PROVE Touches(errand[f])' = Touches(errand'[f])
      BY DEF Touches
    <2>4. QED
      BY <1>1, <2>2, <2>3 DEF Apart
  <1>9. RowsHavePanels'
    <2> SUFFICES ASSUME NEW x \in onInbound' PROVE There(x[2])' /\ <<x[1], x[2]>> \in onPanel'
      BY DEF RowsHavePanels, There
    <2>1. PICK b \in Staff, q \in Panels : b = x[1] /\ q = x[2]
      BY <1>3 DEF Typed, AccessTypeOK
    <2>2. site'[q].is # "deleted"
      BY <1>3, <2>1 DEF Effect
    <2>3. Covered(b, q)'
      <3>1. CASE x \in onInbound
        BY <1>3, <2>1, <3>1 DEF RowsHavePanels, Covered, Effect
      <3>2. CASE x \notin onInbound
        <4>1. s.do = "inbound" /\ x = <<s.a, s.p, s.i>>
          BY <1>3, <3>2 DEF Effect
        <4>2. s.a = b /\ s.p = q
          BY <2>1, <4>1
        <4>3. Covered(plan[1].a, plan[1].p)
          BY <1>2, <1>5, <4>1 DEF Sound, PanelFirst
        <4>4. Covered(b, q)
          BY <1>2, <4>2, <4>3
        <4>5. QED
          BY <1>3, <4>4 DEF Effect
      <3>3. QED
        BY <3>1, <3>2
    <2>4. QED
      BY <2>1, <2>2, <2>3 DEF Covered, There
  <1>10. RemovedKeepsNothing'
    <2> SUFFICES ASSUME NEW a \in Staff \ crossed, ~row'[a].active, NEW x \in onInbound', x[1] = a
                 PROVE  FALSE
      BY <1>1 DEF RemovedKeepsNothing
    <2>1. CASE x \in onInbound
      <3>1. row[a].active
        BY <2>1 DEF RemovedKeepsNothing
      <3>2. s.do = "deactivate" /\ s.a = a
        BY <1>3, <3>1 DEF Effect
      <3>3. \E j \in 1..(1 - 1) : plan[j] = RevokeStm(x[1], x[2], x[3])
        BY <1>2, <1>5, <2>1, <3>2 DEF Sound, RevokedFirst
      <3>4. QED
        BY <3>3
    <2>2. CASE x \notin onInbound
      <3>1. s.do = "inbound" /\ x = <<s.a, s.p, s.i>>
        BY <1>3, <2>2 DEF Effect
      <3>2. s.a = a
        BY <3>1
      <3>3. row[a].active
        BY <1>2, <1>5, <3>1, <3>2 DEF Sound, ActiveFirst
      <3>4. QED
        BY <1>3, <3>1, <3>3 DEF Effect
    <2>3. QED
      BY <2>1, <2>2
  <1>11. QED
    BY <1>3, <1>7, <1>8, <1>9, <1>10

LEMMA InitAccess == AccessInit => AccessInv
  <1> SUFFICES ASSUME AccessInit PROVE AccessInv
    OBVIOUS
  <1> USE DEF AccessInit
  <1>1. <<>> \in Plans /\ <<>> \in Seq(Statements) /\ Touches(<<>>) = {} /\ Sound(<<>>)
    BY DEF Plans, Touches, Sound, PanelFirst, ActiveFirst, RevokedFirst, OnlyRevokes
  <1>2. AccessTypeOK
    <2>1. /\ row \in [Staff -> [active : BOOLEAN, scope : {"limited", "full"}]]
          /\ profile \in [Staff -> [active : BOOLEAN, over : BOOLEAN]]
      OBVIOUS
    <2>2. asked \in 0..MaxErrands
      BY AccessAssumption
    <2>3. QED
      BY <1>1, <2>1, <2>2 DEF AccessTypeOK
  <1>3. Typed
    BY <1>1, <1>2, FS_EmptySet DEF Typed
  <1>4. \A e \in Errands : errand[e] = <<>>
    OBVIOUS
  <1>5. Apart /\ \A e \in Errands : Sound(errand[e])
    BY <1>1, <1>4 DEF Apart
  <1>6. RowsHavePanels /\ RemovedKeepsNothing
    BY DEF RowsHavePanels, RemovedKeepsNothing
  <1>7. QED
    BY <1>3, <1>5, <1>6 DEF AccessInv

LEMMA NextAccess == AccessInv /\ [AccessNext]_accessVars => AccessInv'
  <1> SUFFICES ASSUME AccessInv, [AccessNext]_accessVars PROVE AccessInv'
    OBVIOUS
  <1> USE DEF AccessInv
  <1>1. ASSUME NEW e \in Errands, Ask(e) PROVE AccessInv'
    BY <1>1, AskKeeps
  <1>2. ASSUME NEW e \in Errands, Execute(e) PROVE AccessInv'
    BY <1>2, ExecuteKeeps
  <1>3. ASSUME UNCHANGED <<row, onPanel, onInbound, crossed>>,
               \A p \in Panels : There(p) => There(p)',
               \A p \in Panels : site[p].is = "deleted" => site'[p].is = "deleted",
               \A f \in Errands : errand'[f] = errand[f] \/ errand'[f] = <<>>,
               Typed'
        PROVE  AccessInv'
    <2>1. \A f \in Errands : Sound(errand[f])'
      <3> SUFFICES ASSUME NEW f \in Errands PROVE Sound(errand[f])'
        OBVIOUS
      <3>1. PICK Q : Q = errand'[f]
        OBVIOUS
      <3>2. Sound(Q)'
        <4>1. CASE Q = <<>>
          BY <4>1 DEF Sound, PanelFirst, ActiveFirst, RevokedFirst, OnlyRevokes
        <4>2. CASE Q = errand[f]
          <5>1. Sound(Q) /\ Q \in Plans
            BY <4>2 DEF Typed
          <5>2. PanelFirst(Q)'
            <6> SUFFICES ASSUME NEW k \in 1..Len(Q), Q[k].do = "inbound"
                         PROVE  \/ Covered(Q[k].a, Q[k].p)'
                                \/ \E j \in 1..(k - 1) : Q[j] = PanelStm(Q[k].a, Q[k].p)
              BY DEF PanelFirst, Covered, There
            <6>1. Q[k].p \in Panels
              BY <5>1 DEF Plans, WellMade
            <6>2. Covered(Q[k].a, Q[k].p) => Covered(Q[k].a, Q[k].p)'
              BY <1>3, <6>1 DEF Covered
            <6>3. QED
              BY <5>1, <6>2 DEF Sound, PanelFirst
          <5>3. ActiveFirst(Q)' /\ RevokedFirst(Q)' /\ OnlyRevokes(Q)'
            BY <1>3, <5>1 DEF Sound, ActiveFirst, RevokedFirst, OnlyRevokes
          <5>4. QED
            BY <5>2, <5>3 DEF Sound
        <4>3. QED
          BY <1>3, <3>1, <4>1, <4>2
      <3>3. QED
        BY <3>1, <3>2, SoundNext
    <2>2. Apart'
      <3>1. Touches(<<>>) = {}
        BY DEF Touches
      <3>2. \A f \in Errands : Touches(errand'[f]) \subseteq Touches(errand[f])
        BY <1>3, <3>1
      <3>3. ASSUME NEW f \in Errands PROVE Touches(errand[f])' = Touches(errand'[f])
        BY DEF Touches
      <3>4. QED
        BY <1>3, <3>2, <3>3 DEF Apart
    <2>3. RowsHavePanels'
      BY <1>3 DEF RowsHavePanels, Typed, AccessTypeOK
    <2>4. RemovedKeepsNothing'
      BY <1>3 DEF RemovedKeepsNothing
    <2>5. QED
      BY <1>3, <2>1, <2>2, <2>3, <2>4
  <1>4. ASSUME NEW e \in Errands, BreakOff(e) PROVE AccessInv'
    <2>1. /\ UNCHANGED <<row, profile, onPanel, onInbound, site, defaultPanel, asked, crossed>>
          /\ errand' = [errand EXCEPT ![e] = <<>>]
      BY <1>4 DEF BreakOff
    <2>2. <<>> \in Plans /\ <<>> \in Seq(Statements)
      BY DEF Plans
    <2>3. errand' \in [Errands -> Plans] /\ errand' \in [Errands -> Seq(Statements)]
      BY <2>1, <2>2 DEF Typed, AccessTypeOK
    <2>4. Typed'
      BY <2>1, <2>3 DEF Typed, AccessTypeOK, Plans, WellMade, There
    <2>5. \A f \in Errands : errand'[f] = errand[f] \/ errand'[f] = <<>>
      BY <2>1 DEF Typed
    <2>6. QED
      BY <1>3, <2>1, <2>4, <2>5 DEF There
  <1>5. ASSUME NEW a \in Staff, Expire(a) PROVE AccessInv'
    <2>1. /\ UNCHANGED <<row, onPanel, onInbound, site, defaultPanel, errand, asked, crossed>>
          /\ profile' = [profile EXCEPT ![a] = [profile[a] EXCEPT !.over = TRUE]]
      BY <1>5 DEF Expire
    <2>2. profile' \in [Staff -> [active : BOOLEAN, over : BOOLEAN]]
      <3>1. [profile[a] EXCEPT !.over = TRUE] \in [active : BOOLEAN, over : BOOLEAN]
        <4>1. \A r \in [active : BOOLEAN, over : BOOLEAN] :
                 [r EXCEPT !.over = TRUE] \in [active : BOOLEAN, over : BOOLEAN]
          OBVIOUS
        <4>2. QED
          BY <4>1 DEF Typed, AccessTypeOK
      <3>2. QED
        BY <2>1, <3>1 DEF Typed, AccessTypeOK
    <2>3. Typed'
      BY <2>1, <2>2 DEF Typed, AccessTypeOK, Plans, WellMade, There
    <2>4. QED
      BY <1>3, <2>1, <2>3 DEF There
  <1>6. ASSUME NEW p \in Panels, AddPanel(p) PROVE AccessInv'
    <2>1. PICK a \in {Root} \cup {b \in Staff : IsFull(b)} :
             site' = [site EXCEPT ![p] = [is |-> "there", by |-> a]]
      BY <1>6 DEF AddPanel
    <2>2. /\ UNCHANGED <<row, profile, onPanel, onInbound, defaultPanel, errand, asked, crossed>>
          /\ site[p].is = "new"
      BY <1>6 DEF AddPanel
    <2>3. site' \in [Panels -> [is : {"new", "there", "deleted"}, by : Staff \cup {Root}]]
      BY <2>1 DEF Typed, AccessTypeOK
    <2>4. /\ \A q \in Panels : There(q) => There(q)'
          /\ \A q \in Panels : site[q].is = "deleted" => site'[q].is = "deleted"
      BY <2>1, <2>2 DEF There, Typed, AccessTypeOK
    <2>5. defaultPanel' \in {q \in Panels : There(q)'} \cup {NoPanel}
      BY <2>2, <2>4 DEF Typed, AccessTypeOK
    <2>6. Typed'
      BY <2>2, <2>3, <2>5 DEF Typed, AccessTypeOK, Plans, WellMade
    <2>7. QED
      BY <1>3, <2>2, <2>4, <2>6
  <1>7. CASE UNCHANGED accessVars
    <2>1. UNCHANGED <<row, profile, onPanel, onInbound, site, defaultPanel, errand, asked, crossed>>
      BY <1>7 DEF accessVars
    <2>2. Typed'
      BY <2>1 DEF Typed, AccessTypeOK, Plans, WellMade, There
    <2>3. QED
      BY <1>3, <2>1, <2>2 DEF There
  <1>8. QED
    BY <1>1, <1>2, <1>4, <1>5, <1>6, <1>7 DEF AccessNext, Execute

LEMMA AccessInvariant == AccessSpec => []AccessInv
  BY InitAccess, NextAccess, PTL DEF AccessSpec
-------------------------------------------------------------------------------
\* The rows of access control keep their types, the default panel is one that is there, and
\* an errand only has statements of the program left.
THEOREM AccessTyped == AccessSpec => []AccessTypeOK
  <1>1. AccessInv => AccessTypeOK
    BY DEF AccessInv, Typed
  <1>2. QED
    BY AccessInvariant, <1>1, PTL

\* can_access_inbound, get_allowed_inbound_ids, list_accessible_panels,
\* list_accessible_inbounds_for_actor and can_delete_panel never contradict one another,
\* wherever changes were interrupted and whichever panels were deleted.
THEOREM AccessAgrees == AccessSpec => []AnswersAgree
  <1>1. ASSUME AccessInv PROVE AnswersAgree
    <2> SUFFICES ASSUME NEW a \in Staff, NEW p \in Panels
                 PROVE  /\ CanDeletePanel(a, p) => CanAccessPanel(a, p)
                        /\ CanAccessPanel(a, p) \/ p \in GrantablePanels(a)
                              => p \in ListAccessiblePanels(a)
                        /\ \A i \in Ports :
                              /\ CanAccessInbound(a, p, i) <=> i \in GetAllowedInboundIds(a, p)
                              /\ CanAccessInbound(a, p, i) =>
                                    CanAccessPanel(a, p) /\ <<p, i>> \in ListAccessibleInbounds(a)
                              /\ ~IsFull(a) /\ <<p, i>> \in ListAccessibleInbounds(a) =>
                                    CanAccessInbound(a, p, i)
      BY DEF AnswersAgree
    <2>1. CanDeletePanel(a, p) => CanAccessPanel(a, p)
      BY DEF CanDeletePanel, CanAccessPanel, IsWhole
    <2>2. CanAccessPanel(a, p) \/ p \in GrantablePanels(a) => p \in ListAccessiblePanels(a)
      BY DEF CanAccessPanel, GrantablePanels, ListAccessiblePanels, IsWhole
    <2>3. ASSUME NEW i \in Ports
          PROVE  CanAccessInbound(a, p, i) <=> i \in GetAllowedInboundIds(a, p)
      BY DEF CanAccessInbound, GetAllowedInboundIds, CanAccessPanel, IsWhole
    <2>4. ASSUME NEW i \in Ports, InboundRow(a, p, i) PROVE There(p) /\ PanelRow(a, p)
      <3>1. <<a, p, i>> \in onInbound /\ row[a].active
        BY <2>4 DEF InboundRow
      <3>2. <<a, p, i>>[1] = a /\ <<a, p, i>>[2] = p
        OBVIOUS
      <3>3. There(p) /\ <<a, p>> \in onPanel
        BY <1>1, <3>1, <3>2 DEF AccessInv, RowsHavePanels
      <3>4. QED
        BY <3>1, <3>3 DEF PanelRow
    <2>5. ASSUME NEW i \in Ports, CanAccessInbound(a, p, i)
          PROVE  CanAccessPanel(a, p) /\ <<p, i>> \in ListAccessibleInbounds(a)
      <3>1. CanAccessPanel(a, p)
        BY <2>4, <2>5 DEF CanAccessInbound, CanAccessPanel
      <3>2. (IsFull(a) /\ There(p) /\ IsWhole(a, p)) \/ (There(p) /\ InboundRow(a, p, i))
        BY <2>4, <2>5 DEF CanAccessInbound, IsWhole
      <3>3. <<p, i>> \in Panels \X Ports /\ <<p, i>>[1] = p /\ <<p, i>>[2] = i
        OBVIOUS
      <3>4. QED
        BY <3>1, <3>2, <3>3 DEF ListAccessibleInbounds
    <2>6. ASSUME NEW i \in Ports, ~IsFull(a), <<p, i>> \in ListAccessibleInbounds(a)
          PROVE  CanAccessInbound(a, p, i)
      BY <2>6 DEF ListAccessibleInbounds, CanAccessInbound
    <2>7. QED
      BY <2>1, <2>2, <2>3, <2>5, <2>6
  <1>2. QED
    BY AccessInvariant, <1>1, PTL

\* delegated_admin_remove_user leaves no inbound row behind, unless another change of the same
\* admin was under way at the same time.
THEOREM AccessRemoves == AccessSpec => []RemovedKeepsNothing
  <1>1. AccessInv => RemovedKeepsNothing
    BY DEF AccessInv
  <1>2. QED
    BY AccessInvariant, <1>1, PTL
===============================================================================
