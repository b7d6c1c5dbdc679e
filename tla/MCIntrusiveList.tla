-------------------------- MODULE MCIntrusiveList --------------------------
(***************************************************************************)
(* Model-checking instance of IntrusiveList: three records 16 bytes apart  *)
(* with a member hook 8 bytes into each, so that node and record addresses *)
(* differ, a 16-byte list_node (next_ and prev_ on a 64-bit target), and   *)
(* every list of up to three distinct records.  It extends the proof       *)
(* module so that the run also checks the inductive invariant IInv.        *)
(***************************************************************************)
EXTENDS IntrusiveListProofs

MCRecs == {16, 32, 48}
MCHookOffset == 8
MCNodeSize == 16
MCHeader == 100
MCMaxLen == 3

=============================================================================
