--------------------------- MODULE IntrusiveSet ----------------------------
(***************************************************************************)
(* The ordered-set walker of src/tools/bp_gdb.py: BoostIntrusiveSetType    *)
(* (_minimum, _next_node, iter_nodes) as driven by                         *)
(* for_each_intrusive_set_item from BoostIntrusiveSetPrinter.children,     *)
(* over a boost::intrusive red-black tree.                                 *)
(*                                                                         *)
(* Memory is the snapshot of the tree's header and node hooks: the         *)
(* `left_', `right_' and `parent_' pointer of each.  Boost's header        *)
(* convention: header.parent_ is the root (null when empty), header.left_ *)
(* the minimum and header.right_ the maximum node (the header itself when  *)
(* empty), and the root's parent_ is the header.  Init builds every binary *)
(* search tree over up to MaxLen of the records by inserting them in every *)
(* order; the comparator's order is the order of the record addresses.     *)
(* The walker is a state machine over the loops of the code: `pc' says     *)
(* which loop it is in, `cur' is the node variable of that loop.           *)
(***************************************************************************)
EXTENDS Integers, Sequences, FiniteSets

CONSTANTS Recs,         \* addresses of the records that may be in the set
          HookOffset,   \* byte offset of the base-class hook inside the record
          Header,       \* address of the tree header (holder.root)
          MaxLen        \* the largest set Init builds

Null == 0

NodeOf(r) == r + HookOffset

NodeAddrs == {NodeOf(r) : r \in Recs}

ASSUME RecsAssumption == Recs \subseteq Nat \ {0}
ASSUME HookOffsetAssumption == HookOffset \in Nat
ASSUME HeaderAssumption == Header \in Nat \ ({Null} \cup NodeAddrs)
ASSUME MaxLenAssumption == MaxLen \in Nat

(***************************************************************************)
(* Building the trees.  Inserting the records of an injective sequence     *)
(* `ins' one after the other into an unbalanced search tree makes the     *)
(* parent of x the later inserted of its predecessor and its successor     *)
(* among the records inserted before it; every search-tree shape arises    *)
(* from some order (its pre-order, for one).                               *)
(***************************************************************************)
SetMax(S) == CHOOSE x \in S : \A y \in S : y <= x
SetMin(S) == CHOOSE x \in S : \A y \in S : x <= y

IsInjective(s) == \A i, j \in 1..Len(s) : s[i] = s[j] => i = j

InsertOrders == {s \in UNION {[1..n -> Recs] : n \in 0..MaxLen} : IsInjective(s)}

Members(ins) == {ins[i] : i \in 1..Len(ins)}

Idx(ins, x) == CHOOSE i \in 1..Len(ins) : ins[i] = x

Before(ins, x) == {ins[i] : i \in 1..Idx(ins, x) - 1}

\* The record x hangs under when inserted (x is not the first record).
TreeParent(ins, x) ==
  LET lo == {y \in Before(ins, x) : y < x}
      hi == {y \in Before(ins, x) : y > x}
      cands == (IF lo = {} THEN {} ELSE {SetMax(lo)})
                 \cup (IF hi = {} THEN {} ELSE {SetMin(hi)})
  IN  CHOOSE p \in cands : \A q \in cands : Idx(ins, q) <= Idx(ins, p)

\* The child of record p on one side (`less' selects the left side), or Null.
Child(ins, p, less) ==
  LET cs == {x \in Members(ins) \ {ins[1]} :
               TreeParent(ins, x) = p /\ (x < p) = less}
  IN  IF cs = {} THEN Null ELSE NodeOf(CHOOSE x \in cs : TRUE)

Nodes == {Header} \cup NodeAddrs

\* The three pointer fields of header and hooks for the tree built by ins.
LeftPtrs(ins) ==
  [a \in Nodes |->
     IF a = Header THEN (IF ins = <<>> THEN Header ELSE NodeOf(SetMin(Members(ins))))
     ELSE IF a - HookOffset \in Members(ins) THEN Child(ins, a - HookOffset, TRUE)
     ELSE Null]

RightPtrs(ins) ==
  [a \in Nodes |->
     IF a = Header THEN (IF ins = <<>> THEN Header ELSE NodeOf(SetMax(Members(ins))))
     ELSE IF a - HookOffset \in Members(ins) THEN Child(ins, a - HookOffset, FALSE)
     ELSE Null]

ParentPtrs(ins) ==
  [a \in Nodes |->
     IF a = Header THEN (IF ins = <<>> THEN Null ELSE NodeOf(ins[1]))
     ELSE IF a - HookOffset \notin Members(ins) THEN Null
     ELSE IF a - HookOffset = ins[1] THEN Header
     ELSE NodeOf(TreeParent(ins, a - HookOffset))]

VARIABLES members,  \* the records in the set (ghost: what the pointers encode)
          left,     \* left_ of every hook and of the header
          right,    \* right_ of every hook and of the header
          parent,   \* parent_ of every hook and of the header
          pc,       \* "loop": iter_nodes' while; "next": entering _next_node;
                    \* "min": _minimum's loop; "up": _next_node's upward loop
          cur,      \* the node that loop is at
          out       \* what for_each_intrusive_set_item has yielded

vars == <<members, left, right, parent, pc, cur, out>>

(***************************************************************************)
(* Variants of the walker with plausible bugs, each defined before the     *)
(* definition it would replace: they show that the properties below bite.  *)
(***************************************************************************)
\* node_to_value casting the node without subtracting the hook offset.
NodeToValueIgnoresHook(node) == node

\* iter_nodes starting from the root (header.parent_) instead of the minimum.
InitFromRoot ==
  \E ins \in InsertOrders :
    /\ members = Members(ins)
    /\ left = LeftPtrs(ins) /\ right = RightPtrs(ins) /\ parent = ParentPtrs(ins)
    /\ pc = "loop" /\ out = <<>>
    /\ cur = IF ins = <<>> THEN Header ELSE parent[Header]

\* _next_node taking the right child itself as the successor, without
\* descending to its minimum.
NextRightSkipsMinimum ==
  /\ pc = "next" /\ right[cur] # Null
  /\ cur' = right[cur] /\ pc' = "loop"
  /\ UNCHANGED <<members, left, right, parent, out>>

\* _next_node always returning the parent after the upward loop, dropping
\* the header special case; the walk then repeats, so it is capped at the
\* size of the set.
ClimbStopAlwaysParent ==
  /\ pc = "up" /\ Len(out) <= Cardinality(members)
  /\ cur # right[parent[cur]]
  /\ cur' = parent[cur] /\ pc' = "loop"
  /\ UNCHANGED <<members, left, right, parent, out>>

(***************************************************************************)
(* node_to_value as the printer calls it, with no member_hook: the node    *)
(* pointer is cast to a pointer to the value type.  The hook is a base     *)
(* class of the value, so gdb's pointer cast is a downcast and subtracts   *)
(* the byte offset of that base sub-object.  The member_hook branch,      *)
(* which scales the offset by the node size, has no caller here.           *)
(***************************************************************************)
NodeToValue(node) == node - HookOffset

(***************************************************************************)
(* iter_nodes: header = get_header(s); i = header['left_'].                *)
(***************************************************************************)
Init ==
  \E ins \in InsertOrders :
    /\ members = Members(ins)
    /\ left = LeftPtrs(ins) /\ right = RightPtrs(ins) /\ parent = ParentPtrs(ins)
    /\ pc = "loop" /\ out = <<>>
    /\ cur = left[Header]

\* while i.address != header.address: yield i; i = self._next_node(i)
Yield ==
  /\ pc = "loop" /\ cur # Header
  /\ out' = Append(out, NodeToValue(cur))
  /\ pc' = "next"
  /\ UNCHANGED <<members, left, right, parent, cur>>

\* _next_node: right non-null, return self._minimum(right)
NextRight ==
  /\ pc = "next" /\ right[cur] # Null
  /\ cur' = right[cur] /\ pc' = "min"
  /\ UNCHANGED <<members, left, right, parent, out>>

\* _next_node: right null, go up
NextUp ==
  /\ pc = "next" /\ right[cur] = Null
  /\ pc' = "up"
  /\ UNCHANGED <<members, left, right, parent, cur, out>>

\* _minimum: left non-null, node = left
MinStep ==
  /\ pc = "min" /\ left[cur] # Null
  /\ cur' = left[cur]
  /\ UNCHANGED <<members, left, right, parent, pc, out>>

\* _minimum: left null, return node (to iter_nodes' loop)
MinDone ==
  /\ pc = "min" /\ left[cur] = Null
  /\ pc' = "loop"
  /\ UNCHANGED <<members, left, right, parent, cur, out>>

\* upward loop: node is its parent's right child, node = parent
ClimbStep ==
  /\ pc = "up" /\ cur = right[parent[cur]]
  /\ cur' = parent[cur]
  /\ UNCHANGED <<members, left, right, parent, pc, out>>

\* upward loop breaks; return node if node.right_ is the parent (node is
\* then the header: the walk is over), else the parent.
ClimbStop ==
  /\ pc = "up" /\ cur # right[parent[cur]]
  /\ cur' = IF right[cur] = parent[cur] THEN cur ELSE parent[cur]
  /\ pc' = "loop"
  /\ UNCHANGED <<members, left, right, parent, out>>

Next == Yield \/ NextRight \/ NextUp \/ MinStep \/ MinDone \/ ClimbStep \/ ClimbStop

Spec == Init /\ [][Next]_vars /\ WF_vars(Next)

-----------------------------------------------------------------------------
(***************************************************************************)
(* Properties.                                                             *)
(***************************************************************************)
TypeOK == /\ members \in SUBSET Recs
          /\ left \in [Nodes -> Nodes \cup {Null}]
          /\ right \in [Nodes -> Nodes \cup {Null}]
          /\ parent \in [Nodes -> Nodes \cup {Null}]
          /\ pc \in {"loop", "next", "min", "up"}
          /\ cur \in Nodes
          /\ out \in Seq(Recs)

\* The set's members in the comparator's order.
SortedSeq(S) ==
  [i \in 1..Cardinality(S) |-> CHOOSE x \in S : Cardinality({y \in S : y < x}) = i - 1]

Finished == pc = "loop" /\ cur = Header

(***************************************************************************)
(* In-order (spec.md section 8): every record _next_node leads the walk to *)
(* is larger in the set's order than every record yielded before it, so no *)
(* record is yielded twice and the walk never goes back, whatever the      *)
(* shape of the tree and wherever the header's special case applies.       *)
(***************************************************************************)
InOrder == \A i, j \in 1..Len(out) : i < j => out[i] < out[j]

(***************************************************************************)
(* Completeness: when iter_nodes stops at the header it has yielded every  *)
(* member of the set exactly once, in order.                               *)
(***************************************************************************)
CompleteAtEnd == Finished => out = SortedSeq(members)

(***************************************************************************)
(* Every walk of a well-formed tree reaches the header.                    *)
(***************************************************************************)
WalkTerminates == <>Finished

\* Refinement: the walker is an iterator over the members in order.
Iter == INSTANCE ContainerIter WITH Elem <- Recs, content <- SortedSeq(members)

IterRefines == Iter!Spec

=============================================================================
