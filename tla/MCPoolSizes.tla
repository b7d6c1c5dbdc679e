---------------------------- MODULE MCPoolSizes -----------------------------
(***************************************************************************)
(* Model-checking instance of PoolSizes: three pools (every tree over      *)
(* them: a chain, a root with two children, and the chain the other way),  *)
(* linear and other pools, net sizes 1 or 2, and linear-area chains of up  *)
(* to two areas of 4 or 8 bytes.                                           *)
(***************************************************************************)
EXTENDS PoolSizes

MCPools == {1, 2, 3}
MCRoot == 1
MCLinearType == 2
MCOtherTypes == {1}
MCNettoSizes == {1, 2}
MCAreaSizes == {4, 8}
MCMaxAreas == 2

=============================================================================
