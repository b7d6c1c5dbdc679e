--------------------------- MODULE IntrusiveList ---------------------------
(***************************************************************************)
(* The list walker of src/tools/bp_gdb.py: BoostIntrusiveContainerType     *)
(* (iter_nodes, iter_nodes_reverse, node_to_value) as driven by            *)
(* for_each_intrusive_list_item and for_each_intrusive_list_item_reverse,  *)
(* and the same loops in IntrusiveContainerType and the two printers'      *)
(* Iterator classes.                                                       *)
(*                                                                         *)
(* Memory is the paused process's snapshot: the `next_' and `prev_'        *)
(* pointer of the list header and of every node hook.  It is fixed in      *)
(* Init from a well-formed circular list whose logical content is the      *)
(* sequence `recs' of record addresses; the node (hook) of record r sits   *)
(* at address r + HookOffset.  node_to_value's subtraction is gdb pointer *)
(* arithmetic on a list_node pointer, scaled by NodeSize.  Two walkers, a  *)
(* forward one and a reverse one, run over the same snapshot, as the gdb   *)
(* commands do (bp_pool_tree walks forward, bp_dump_pool_allocations in    *)
(* reverse).                                                               *)
(***************************************************************************)
EXTENDS Integers, Sequences, FiniteSets

CONSTANTS Recs,         \* addresses of the records that may be on the list
          HookOffset,   \* byte offset of the hook inside the record (bitpos // 8)
          NodeSize,     \* sizeof(list_node): the unit of gdb's pointer arithmetic
          Header,       \* address of the list header (the sentinel node)
          MaxLen        \* the longest list Init builds

Null == 0

NodeOf(r) == r + HookOffset

NodeAddrs == {NodeOf(r) : r \in Recs}

ASSUME RecsAssumption == Recs \subseteq Nat \ {0}
ASSUME HookOffsetAssumption == HookOffset \in Nat
ASSUME NodeSizeAssumption == NodeSize \in Nat \ {0}
ASSUME HeaderAssumption == Header \in Nat \ ({Null} \cup NodeAddrs)
ASSUME MaxLenAssumption == MaxLen \in Nat

(***************************************************************************)
(* The well-formed lists: sequences of distinct records.                   *)
(***************************************************************************)
IsInjective(s) == \A i, j \in 1..Len(s) : s[i] = s[j] => i = j

Lists == {s \in UNION {[1..n -> Recs] : n \in 0..MaxLen} : IsInjective(s)}

\* Position of node a in list s (meaningful only when a is on s).
PosOf(s, a) == CHOOSE i \in 1..Len(s) : NodeOf(s[i]) = a

OnList(s, a) == \E i \in 1..Len(s) : NodeOf(s[i]) = a

(***************************************************************************)
(* The pointers a circular list with header Header and content s has in      *)
(* memory.  An unlinked hook has null pointers.                            *)
(***************************************************************************)
NextPtrs(s) ==
  [a \in {Header} \cup NodeAddrs |->
     IF a = Header THEN (IF s = <<>> THEN Header ELSE NodeOf(s[1]))
     ELSE IF OnList(s, a)
          THEN (IF PosOf(s, a) = Len(s) THEN Header ELSE NodeOf(s[PosOf(s, a) + 1]))
          ELSE Null]

PrevPtrs(s) ==
  [a \in {Header} \cup NodeAddrs |->
     IF a = Header THEN (IF s = <<>> THEN Header ELSE NodeOf(s[Len(s)]))
     ELSE IF OnList(s, a)
          THEN (IF PosOf(s, a) = 1 THEN Header ELSE NodeOf(s[PosOf(s, a) - 1]))
          ELSE Null]

VARIABLES recs,     \* logical content of the list (ghost: what the pointers encode)
          next,     \* the next_ pointer of every hook, and of the header
          prev,     \* the prev_ pointer of every hook, and of the header
          fcur,     \* iter_nodes: `node'
          fout,     \* what for_each_intrusive_list_item has yielded
          rcur,     \* iter_nodes_reverse: `node'
          rout      \* what for_each_intrusive_list_item_reverse has yielded

vars == <<recs, next, prev, fcur, fout, rcur, rout>>

(***************************************************************************)
(* Variants of the walker with plausible bugs, each defined before the     *)
(* definition it would replace: they show that the properties below bite.  *)
(***************************************************************************)
\* iter_nodes_reverse copied from iter_nodes without changing next_ to prev_.
RevStepFollowsNext ==
  /\ rcur # Header
  /\ rout' = Append(rout, rcur - HookOffset * NodeSize)
  /\ rcur' = next[rcur]
  /\ UNCHANGED <<recs, next, prev, fcur, fout>>

\* The loop compares the node with the header value rather than its address,
\* which is never equal, and walks on through the header; MaxLen caps it.
FwdStepMissesHead ==
  /\ fcur # Null
  /\ Len(fout) <= MaxLen
  /\ fout' = Append(fout, fcur - HookOffset * NodeSize)
  /\ fcur' = next[fcur]
  /\ UNCHANGED <<recs, next, prev, rcur, rout>>

\* The loop advancing before it yields: node = node['next_'] moved above
\* the yield, so the first node is skipped and the header is yielded.
FwdStepAdvanceFirst ==
  /\ fcur # Header
  /\ fout' = Append(fout, next[fcur] - HookOffset * NodeSize)
  /\ fcur' = next[fcur]
  /\ UNCHANGED <<recs, next, prev, rcur, rout>>

(***************************************************************************)
(* node_to_value: (node.dereference().address - bitpos // 8), a list_node *)
(* pointer less an integer, which gdb scales by sizeof(list_node), cast to *)
(* the value pointer type.  Without a member hook the node is cast as it  *)
(* is: the hook is the record's first base and HookOffset is 0.            *)
(***************************************************************************)
NodeToValue(node) == node - HookOffset * NodeSize

(***************************************************************************)
(* Both generators are created on the snapshot: root = get_header(l),      *)
(* node = root['next_'] (resp. root['prev_']).                             *)
(***************************************************************************)
Init == /\ recs \in Lists
        /\ next = NextPtrs(recs)
        /\ prev = PrevPtrs(recs)
        /\ fcur = next[Header]
        /\ fout = <<>>
        /\ rcur = prev[Header]
        /\ rout = <<>>

(***************************************************************************)
(* One iteration of `while node != root_address: yield node;               *)
(* node = node['next_']', the yielded node resolved by node_to_value.      *)
(***************************************************************************)
FwdStep == /\ fcur # Header
           /\ fout' = Append(fout, NodeToValue(fcur))
           /\ fcur' = next[fcur]
           /\ UNCHANGED <<recs, next, prev, rcur, rout>>

\* The same loop of iter_nodes_reverse, following prev_.
RevStep == /\ rcur # Header
           /\ rout' = Append(rout, NodeToValue(rcur))
           /\ rcur' = prev[rcur]
           /\ UNCHANGED <<recs, next, prev, fcur, fout>>

Next == FwdStep \/ RevStep

Spec == Init /\ [][Next]_vars /\ WF_vars(Next)

-----------------------------------------------------------------------------
(***************************************************************************)
(* Properties.                                                             *)
(***************************************************************************)
Addr == {Null, Header} \cup NodeAddrs

\* What the walkers yield for the hook of record r, and for a content s.
Owner(r) == NodeToValue(NodeOf(r))
Yielded(s) == [i \in 1..Len(s) |-> Owner(s[i])]
Values == {Owner(r) : r \in Recs}

TypeOK == /\ recs \in Lists
          /\ next \in [{Header} \cup NodeAddrs -> Addr]
          /\ prev \in [{Header} \cup NodeAddrs -> Addr]
          /\ fcur \in Addr /\ rcur \in Addr
          /\ fout \in Seq(Values) /\ rout \in Seq(Values)

RevSeq(s) == [i \in 1..Len(s) |-> s[Len(s) - i + 1]]

(***************************************************************************)
(* Forward and reverse walks agree (spec.md section 4.3): once both the    *)
(* forward walk (iter_nodes) and the reverse walk (iter_nodes_reverse) of  *)
(* the same list have stopped at the header, the forward walk has yielded *)
(* node_to_value of every hook of the list once, in list order, and the   *)
(* reverse walk exactly the same values in reverse order.                  *)
(***************************************************************************)
WalksMirror ==
  (fcur = Header /\ rcur = Header) => /\ fout = Yielded(recs)
                                  /\ rout = RevSeq(fout)

(***************************************************************************)
(* Every walk of a well-formed list stops: both loops eventually reach the *)
(* header again.                                                           *)
(***************************************************************************)
WalksTerminate == <>(fcur = Header /\ rcur = Header)

FwdIter == INSTANCE ContainerIter WITH Elem <- Values, content <- Yielded(recs), out <- fout
RevIter == INSTANCE ContainerIter WITH Elem <- Values, content <- RevSeq(Yielded(recs)),
                                       out <- rout

(***************************************************************************)
(* Refinement: each walker implements the abstract iterator, the forward   *)
(* one over the values of the list's hooks and the reverse one over those *)
(* of the reversed list; a walker yielding anything but the next element,  *)
(* or stopping early, is a step no iterator can take.                      *)
(***************************************************************************)
WalksRefine == FwdIter!Spec /\ RevIter!Spec

(***************************************************************************)
(* Owner recovery (spec.md sections 4.2 and 8): with a member hook, the    *)
(* values for_each_intrusive_list_item yields are the records of the list *)
(* themselves, the node address less the hook's byte offset, as            *)
(* bp_dump_pool_allocations relies on when it prints a.address + 1.       *)
(***************************************************************************)
OwnersRecovered == \A i \in 1..Len(fout) : fout[i] = recs[i]

=============================================================================
