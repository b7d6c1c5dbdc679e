----------------------------- MODULE MCPoolWalk -----------------------------
(***************************************************************************)
(* Model-checking instance of PoolWalk: four pools, every tree over them   *)
(* (16: chains, stars and everything between), every naming of them with  *)
(* two names, bp_find_pool looking for one of them.                        *)
(***************************************************************************)
EXTENDS PoolWalk

MCPools == {1, 2, 3, 4}
MCRoot == 1
MCNames == {"a", "b"}
MCName == "a"

=============================================================================
