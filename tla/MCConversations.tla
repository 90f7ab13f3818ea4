---------------------------- MODULE MCConversations ----------------------------
(* Values for Conversations: two handlers at a time, about two subjects, which are   *)
(* interchangeable, in every family.                                               *)
EXTENDS Conversations

CONSTANTS s1, s2, t1, t2

MCSlots == {s1, s2}
MCSubjects == {t1, t2}
AllFamilies == {"edit", "manage", "panelwide", "create", "panel", "bind", "delegates", "limits",
                "finex", "wallet", "pricing", "access", "groups", "grants", "location"}
Interchangeable == Permutations(MCSlots) \cup Permutations(MCSubjects)
===============================================================================
