--------------------- MODULE MCIntrusiveUnorderedSet -----------------------
(***************************************************************************)
(* Model-checking instance of IntrusiveUnorderedSet: three records with a  *)
(* hook 8 bytes in, two buckets, and every placement of up to three        *)
(* records into them in every order (so empty buckets, a bucket holding    *)
(* every record and a last bucket with several records all occur).        *)
(***************************************************************************)
EXTENDS IntrusiveUnorderedSet

MCRecs == {16, 32, 48}
MCHookOffset == 8
MCNB == 2
MCBucketBase == 1000
MCBucketSize == 8
MCMaxLen == 3

=============================================================================
