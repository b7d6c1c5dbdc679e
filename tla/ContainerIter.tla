--------------------------- MODULE ContainerIter ---------------------------
(***************************************************************************)
(* What every walker of src/tools/bp_gdb.py promises its caller: a lazy    *)
(* sequence that yields the elements of the container, one per step, in    *)
(* the container's logical order, and stops after the last one.  The       *)
(* container's logical content is the sequence `content'; the walkers      *)
(* never change it (the inspected process is paused, spec.md section 5).   *)
(* IntrusiveList, IntrusiveSet and IntrusiveUnorderedSet each implement    *)
(* this module under a refinement mapping.                                 *)
(***************************************************************************)
EXTENDS Naturals, Sequences

CONSTANT Elem           \* what the iterator yields (record addresses)

VARIABLES content,      \* the logical content of the container
          out           \* what has been yielded so far

Init == /\ content \in Seq(Elem)
        /\ out = <<>>

\* The generator yields the next element of the container.
Yield == /\ Len(out) < Len(content)
         /\ out' = Append(out, content[Len(out) + 1])
         /\ UNCHANGED content

Next == Yield

Spec == Init /\ [][Next]_<<content, out>>

\* The iterator has run to completion.
Finished == out = content

=============================================================================
