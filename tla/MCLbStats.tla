------------------------------ MODULE MCLbStats -----------------------------
(***************************************************************************)
(* Model-checking instance of LbStats: up to two connections in each list, *)
(* every filter null, with one buffer allocated or with all four.          *)
(***************************************************************************)
EXTENDS LbStats

MCFilters == {{"plain_output"}, FilterBuffers}
MCMaxConns == 2

=============================================================================
