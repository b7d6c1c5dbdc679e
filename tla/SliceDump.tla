----------------------------- MODULE SliceDump ------------------------------
(***************************************************************************)
(* bp_dump_slice_pool_areas (DumpSlicePoolAreas.invoke) of                 *)
(* src/tools/bp_gdb.py, with SlicePool.areas and the SliceArea             *)
(* constructor it calls for every area.                                    *)
(*                                                                         *)
(* The command wraps each item of the pool's `areas' list in a SliceArea,  *)
(* whose constructor asserts that the item is a `SliceArea *'.  The items  *)
(* come from for_each_intrusive_list_item, which yields                    *)
(* node_to_value(node).dereference(): the SliceArea struct itself.  The    *)
(* model keeps the type of the yielded item and the assertion's two        *)
(* outcomes; the per-area work behind the assertion (the header line, the  *)
(* free-list walk and the list of allocated slices) is one step, DumpArea, *)
(* since the order of those prints is not what the property is about.     *)
(***************************************************************************)
EXTENDS Naturals, Sequences

CONSTANTS Areas,      \* the SliceArea objects a pool may hold
          MaxAreas    \* the longest `areas' list Init builds

\* The gdb type of what for_each_intrusive_list_item yields for an area:
\* it dereferences the value pointer.
ItemType == "SliceArea"

\* The type SliceArea.__init__ asserts.
ExpectedType == "SliceArea *"

AreaLists == {s \in UNION {[1..n -> Areas] : n \in 0..MaxAreas} :
                \A i, j \in 1..Len(s) : s[i] = s[j] => i = j}

VARIABLES areas,    \* the pool's `areas' list
          k,        \* how many areas the for loop has consumed
          pc,       \* "areas": at the for loop; "dump": in its body;
                    \* "done": returned; "raised": GdbError
          dumped    \* the areas whose dump the command printed

vars == <<areas, k, pc, dumped>>

\* pool = SlicePool(gdb.parse_and_eval(arg)), arg naming a SlicePool *.
Init ==
  /\ areas \in AreaLists
  /\ k = 0 /\ pc = "areas" /\ dumped = <<>>

\* for area in pool.areas(): SliceArea(self, area), assert_gdb_type passes.
NewSliceArea ==
  /\ pc = "areas" /\ k < Len(areas)
  /\ ItemType = ExpectedType
  /\ pc' = "dump"
  /\ UNCHANGED <<areas, k, dumped>>

\* assert_gdb_type raises GdbError("Expected 'SliceArea *', got ..."),
\* which ends the command.
NewSliceAreaRaises ==
  /\ pc = "areas" /\ k < Len(areas)
  /\ ItemType # ExpectedType
  /\ pc' = "raised"
  /\ UNCHANGED <<areas, k, dumped>>

\* The loop body: the header line, the free-list walk, the allocated slices.
DumpArea ==
  /\ pc = "dump"
  /\ dumped' = Append(dumped, areas[k + 1])
  /\ k' = k + 1 /\ pc' = "areas"
  /\ UNCHANGED areas

\* The areas list is exhausted: invoke returns.
AreasDone ==
  /\ pc = "areas" /\ k = Len(areas)
  /\ pc' = "done"
  /\ UNCHANGED <<areas, k, dumped>>

Next == NewSliceArea \/ NewSliceAreaRaises \/ DumpArea \/ AreasDone

Spec == Init /\ [][Next]_vars

-----------------------------------------------------------------------------
TypeOK == /\ areas \in AreaLists
          /\ k \in 0..Len(areas)
          /\ pc \in {"areas", "dump", "done", "raised"}
          /\ dumped \in Seq(Areas)

(***************************************************************************)
(* spec.md 4.7 and 3: the command walks the free list of every SliceArea  *)
(* of the pool.  Once the command has stopped, returning or raising, it    *)
(* has dumped every area of the pool's list, in list order.                *)
(***************************************************************************)
EveryAreaDumped == pc \in {"done", "raised"} => dumped = areas

=============================================================================
