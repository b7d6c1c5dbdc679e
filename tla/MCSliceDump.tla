---------------------------- MODULE MCSliceDump -----------------------------
(***************************************************************************)
(* Model-checking instance of SliceDump: pools with up to two areas.       *)
(***************************************************************************)
EXTENDS SliceDump

CONSTANTS a1, a2

MCAreas == {a1, a2}
MCMaxAreas == 2

=============================================================================
