--------------------------- MODULE MCLbFifoSearch ---------------------------
(***************************************************************************)
(* Model-checking instance of LbFifoSearch: up to three connections, data  *)
(* pointers null, some other buffer's or ptr, filters holding ptr nowhere, *)
(* once, or twice, and a protocol beng-lb does not know.                   *)
(***************************************************************************)
EXTENDS LbFifoSearch

MCPtr == 9
MCAddrs == {0, 5, 9}
MCFilterContents == {<<0, 5, 0, 0, 5, 0>>, <<0, 9, 0, 0, 0, 0>>, <<9, 0, 0, 0, 0, 9>>}
MCProtocols == {0, 1, 2}
MCMaxConns == 3

=============================================================================
