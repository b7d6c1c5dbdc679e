----------------------------- MODULE MCLbCluster ----------------------------
(***************************************************************************)
(* Model-checking instance of LbCluster: three gotos, two clusters, every  *)
(* configuration of them (fallback cycles included), and a recursion      *)
(* limit just above what an acyclic chain of three gotos needs.            *)
(***************************************************************************)
EXTENDS LbCluster

CONSTANTS g1, g2, g3, c1, c2

MCGotos == {g1, g2, g3}
MCClusters == {c1, c2}
MCRecursionLimit == 7

=============================================================================
