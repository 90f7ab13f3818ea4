------------------------------- MODULE Hierarchy -------------------------------
(***************************************************************************)
(* Who is under whom among the delegated admins: the parent of each row of *)
(* delegated_admins, the two queries that follow it (the subtree of an     *)
(* admin, down, and the admins charged with it, up), and what changes it:  *)
(* granting access, removing an admin, and change_delegated_admin_parent,  *)
(* which looks at the rows several awaits before it writes.                *)
(*                                                                         *)
(* A parent without a row (a root admin, which migration 0011 put there)   *)
(* counts as none.  Left out, as nothing here depends on it: titles,       *)
(* scopes, profiles, the event rows, and the comments of clients.          *)
(***************************************************************************)
CONSTANTS Admins,     \* those who are or may become delegated admins
          NoAdmin,    \* no parent; also the root admin as the one who grants
          Known0,     \* delegated admins at the start, all active
          Parent0,    \* and their parents
          Requests,   \* coroutines that change parents at the same time
          Moves,      \* <<child, new parent>>: changes that may be asked for
          Grants,     \* <<actor, target>>: who may grant access to whom
          Removals    \* who may be removed

ASSUME HierarchyAssumption ==
    /\ NoAdmin \notin Admins
    /\ Known0 \subseteq Admins
    /\ Parent0 \in [Admins -> Known0 \cup {NoAdmin}]
    /\ \A x \in Admins \ Known0 : Parent0[x] = NoAdmin
    /\ Moves \subseteq Admins \X (Admins \cup {NoAdmin})
    /\ Grants \subseteq (Admins \cup {NoAdmin}) \X Admins
    /\ Removals \subseteq Admins

VARIABLES known,    \* admins with a row
          active,   \* those whose row has is_active = 1
          parent,   \* parent_user_id
          pc,       \* where each change of parent stands
          move      \* what it is to change

vars == <<known, active, parent, pc, move>>

NoMove == <<NoAdmin, NoAdmin>>
TypeOK == /\ known \subseteq Admins
          /\ active \subseteq known
          /\ parent \in [Admins -> known \cup {NoAdmin}]
          /\ pc \in [Requests -> {"idle", "preparing", "checking", "writing"}]
          /\ move \in [Requests -> Moves \cup {NoMove}]
          /\ \A q \in Requests : pc[q] # "idle" => move[q] \in Moves

Init == /\ known = Known0
        /\ active = Known0
        /\ parent = Parent0
        /\ pc = [q \in Requests |-> "idle"]
        /\ move = [q \in Requests |-> NoMove]
-------------------------------------------------------------------------------
\* The query with the condition on is_active forgotten.
TreeOfAll(m) ==
    {x \in known : \A S \in SUBSET known :
        (m \in S /\ \A y \in known : parent[y] \in S => y \in S) => x \in S}

\* get_delegated_admin_subtree_user_ids: m and whoever is reached from it by going to
\* active children; nobody when m is not active.
Tree(m) ==
    {x \in active : /\ m \in active
                    /\ \A S \in SUBSET active :
                          (m \in S /\ \A y \in active : parent[y] \in S => y \in S) => x \in S}

\* No member of S is at the top of S: parents go round in a circle.
Circular(S) == S # {} /\ \A x \in S : parent[x] \in S

\* The query joins with UNION ALL: on a circle it produces the same rows for ever.
QueryEnds(m) == \A S \in SUBSET Tree(m) : ~Circular(S)

\* _upstream_charge_targets, without the root admin at its end: the parent of x, the parent
\* of that one, and so on; the walk ends at a row that is not active, or at x again.
Upstream(x) ==
    {y \in Admins \ {x} : \A S \in SUBSET Admins :
        (/\ parent[x] \in Admins => parent[x] \in S
         /\ \A z \in S \cap active : parent[z] \in Admins => parent[z] \in S)
        => y \in S}
-------------------------------------------------------------------------------
Child(q) == move[q][1]
NewParent(q) == move[q][2]
GoTo(q, stage) == pc' = [pc EXCEPT ![q] = stage]

\* change_delegated_admin_parent is called for an active admin and another parent than it has.
Begin(q) ==
    /\ pc[q] = "idle"
    /\ \E m \in Moves : /\ m[1] \in active
                        /\ m[2] # m[1]
                        /\ m[2] # parent[m[1]]
                        /\ move' = [move EXCEPT ![q] = m]
    /\ GoTo(q, "preparing")
    /\ UNCHANGED <<known, active, parent>>

\* After the work on the panels: the new parent, if any, must be an active admin ...
CheckParent(q) ==
    /\ pc[q] = "preparing"
    /\ \/ NewParent(q) = NoAdmin /\ GoTo(q, "writing")
       \/ NewParent(q) \in active /\ GoTo(q, "checking")
       \/ NewParent(q) \in Admins \ active /\ GoTo(q, "idle")
    /\ UNCHANGED <<known, active, parent, move>>

\* The check the other way round: whether the child is under its new parent.
CheckSubtreeUpsideDown(q) ==
    /\ pc[q] = "checking"
    /\ QueryEnds(NewParent(q))
    /\ GoTo(q, IF Child(q) \in Tree(NewParent(q)) THEN "idle" ELSE "writing")
    /\ UNCHANGED <<known, active, parent, move>>

\* ... that is not in the subtree of the child.
CheckSubtree(q) ==
    /\ pc[q] = "checking"
    /\ QueryEnds(Child(q))
    /\ GoTo(q, IF NewParent(q) \in Tree(Child(q)) THEN "idle" ELSE "writing")
    /\ UNCHANGED <<known, active, parent, move>>

\* set_delegated_admin_parent, unless the child was removed meanwhile.
Write(q) ==
    /\ pc[q] = "writing"
    /\ parent' = IF Child(q) \in active THEN [parent EXCEPT ![Child(q)] = NewParent(q)] ELSE parent
    /\ GoTo(q, "idle")
    /\ UNCHANGED <<known, active, move>>

\* The row of a newcomer forgotten.
AdmitWithoutRow(a, x) ==
    /\ <<a, x>> \in Grants
    /\ a \in active \cup {NoAdmin}
    /\ x \notin known
    /\ active' = active \cup {x}
    /\ parent' = [parent EXCEPT ![x] = a]
    /\ UNCHANGED <<known, pc, move>>

\* grant_delegated_admin_access to somebody without a row; one that a delegated admin
\* brings in is under that admin.
Admit(a, x) ==
    /\ <<a, x>> \in Grants
    /\ a \in active \cup {NoAdmin}
    /\ x \notin known
    /\ known' = known \cup {x}
    /\ active' = active \cup {x}
    /\ parent' = [parent EXCEPT ![x] = a]
    /\ UNCHANGED <<pc, move>>

\* The same to somebody with a row: the upsert makes it active, and moves it under the
\* delegated admin who grants; a root admin leaves the parent as it is.
Regrant(a, x) ==
    /\ <<a, x>> \in Grants
    /\ a \in active \cup {NoAdmin}
    /\ x \in known
    /\ active' = active \cup {x}
    /\ parent' = IF a = NoAdmin THEN parent ELSE [parent EXCEPT ![x] = a]
    /\ UNCHANGED <<known, pc, move>>

\* deactivate_delegated_admin: the row stays, with its parent, and so do its children.
RemoveAdmin(x) ==
    /\ x \in Removals \cap active
    /\ active' = active \ {x}
    /\ UNCHANGED <<known, parent, pc, move>>

Step(q) == CheckParent(q) \/ CheckSubtree(q) \/ Write(q)

Next == \/ \E q \in Requests : Begin(q) \/ Step(q)
        \/ \E a \in Admins \cup {NoAdmin} : \E x \in Admins : Admit(a, x) \/ Regrant(a, x)
        \/ \E x \in Admins : RemoveAdmin(x)

Spec == Init /\ [][Next]_vars

\* A change that was begun is carried on: the event loop runs its coroutine and its
\* queries return, those that end.
FairSpec == Spec /\ \A q \in Requests : WF_vars(Step(q))
-------------------------------------------------------------------------------
\* Nobody is above itself: "delegated admin parent cycle is not allowed".  What keeps it so
\* is one look at the subtree, several awaits before the write and through active rows only.
Forest == \A S \in SUBSET Admins : ~Circular(S)

\* The two ways through the hierarchy agree: the active admins who are charged with an
\* active x are those in whose subtree x is.
WalkAgreesWithTree ==
    \A x, y \in active : x # y => (y \in Upstream(x) <=> x \in Tree(y))

\* Every change of parent comes to an end: no query of it runs in a circle.
ChangesEnd == \A q \in Requests : (pc[q] # "idle") ~> (pc[q] = "idle")
===============================================================================
