------------------------------ MODULE MCHierarchy ------------------------------
(* Values for Hierarchy: 1 is a full admin under 0, 2 and 3 are delegated admins   *)
(* and 4 is somebody without access as yet.                                        *)
EXTENDS Naturals, Hierarchy

MCAdmins == 0..4
MCKnown0 == 0..3
MCParent0 == [x \in MCAdmins |-> IF x = 1 THEN 0 ELSE NoAdmin]
MCRequests == 1..1

\* One change of parent at a time.  0 and 1 are never moved and nobody comes under 4, so
\* removing 1 or 4 and granting below them keeps clear of the circles of parent_circle.
MCMoves == {<<2, 3>>, <<3, 2>>, <<3, NoAdmin>>, <<2, 1>>, <<4, 3>>}
MCGrants == {<<1, 3>>, <<1, 4>>, <<2, 4>>} \cup {<<NoAdmin, x>> : x \in {1, 3, 4}}
MCRemovals == {1, 4}

\* 3, a full admin under 2, adds the admin above it.
UnderTwo == [x \in MCAdmins |-> IF x = 3 THEN 2 ELSE NoAdmin]
CircleMoves == {<<3, 1>>, <<2, 1>>}
CircleGrants == {<<3, 2>>, <<NoAdmin, 4>>}
===============================================================================
