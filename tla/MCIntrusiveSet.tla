-------------------------- MODULE MCIntrusiveSet ---------------------------
(***************************************************************************)
(* Model-checking instance of IntrusiveSet: four records with a member     *)
(* hook 8 bytes in, every search tree over up to four of them (all 14      *)
(* shapes of four nodes, which include roots without a right subtree,      *)
(* maxima deep on a left spine and single-node trees).                     *)
(***************************************************************************)
EXTENDS IntrusiveSet

MCRecs == {16, 32, 48, 64}
MCHookOffset == 8
MCHeader == 200
MCMaxLen == 4

=============================================================================
