------------------------- MODULE IntrusiveSetProofs -------------------------
(***************************************************************************)
(* Proofs about the ordered-set walker (IntrusiveSet), for every record    *)
(* set, hook offset, header address and tree size.                         *)
(*                                                                         *)
(* TypeOK says in particular that the walker's node variable never leaves *)
(* the header and the hooks: _next_node's upward loop dereferences         *)
(* parent_ and right_ of whatever node it is on, so a null there would be *)
(* a read of address 0.  It is not inductive as it stands.  PtrsOK is    *)
(* what the walker needs of the snapshot of the tree: the pointers of a    *)
(* member's hook lead to members, the header or null, and the header's    *)
(* lead to members once the set is non-empty.  CurOK says where each loop *)
(* of the code can stand.  Init establishes PtrsOK from the way the trees *)
(* are built (TreeParent and Child return members, SetMin and SetMax      *)
(* exist); no step changes the pointers.                                   *)
(***************************************************************************)
EXTENDS IntrusiveSet, WellFoundedInduction, TLAPS

MemberNodes == {NodeOf(r) : r \in members}

\* The pointers of the snapshot stay inside the tree.
PtrsOK ==
  /\ \A r \in members :
       /\ left[NodeOf(r)] \in MemberNodes \cup {Null}
       /\ right[NodeOf(r)] \in MemberNodes \cup {Null}
       /\ parent[NodeOf(r)] \in MemberNodes \cup {Header}
  /\ members # {} => /\ left[Header] \in MemberNodes
                     /\ parent[Header] \in MemberNodes
  /\ members = {} => left[Header] = Header

\* Where each loop of the walker stands.
CurOK ==
  /\ pc \in {"next", "min"} => cur \in MemberNodes
  /\ pc \in {"loop", "up"} => cur \in MemberNodes \cup {Header}
  /\ pc # "loop" => members # {}

(***************************************************************************)
(* The walk yields members only: node_to_value, applied to the hooks the   *)
(* walker stands on, gives back records of the set.                        *)
(***************************************************************************)
YieldsMembers == \A i \in 1..Len(out) : out[i] \in members

IInv == TypeOK /\ PtrsOK /\ CurOK /\ YieldsMembers

(***************************************************************************)
(* Facts about the addresses.                                              *)
(***************************************************************************)
\* A hook address is neither null nor the header, and gives back its record.
LEMMA NodeFacts ==
  ASSUME NEW r \in Recs
  PROVE  /\ NodeOf(r) \in NodeAddrs
         /\ NodeOf(r) # Null
         /\ NodeOf(r) # Header
         /\ NodeToValue(NodeOf(r)) = r
  BY RecsAssumption, HookOffsetAssumption, HeaderAssumption
     DEF NodeOf, NodeAddrs, Null, NodeToValue

\* The hooks of the members are nodes of the snapshot.
LEMMA MemberNodesType ==
  ASSUME members \in SUBSET Recs
  PROVE  /\ MemberNodes \subseteq Nodes
         /\ Header \notin MemberNodes
         /\ Null \notin MemberNodes
  BY NodeFacts DEF MemberNodes, Nodes

(***************************************************************************)
(* Facts about the operators the trees are built from.                     *)
(***************************************************************************)
\* An insertion order is an injective sequence of records.
LEMMA InsSeq ==
  ASSUME NEW ins \in InsertOrders
  PROVE  /\ ins \in Seq(Recs)
         /\ IsInjective(ins)
         /\ Members(ins) \subseteq Recs
         /\ Members(ins) = {} <=> ins = <<>>
<1>1. PICK n \in 0..MaxLen : ins \in [1..n -> Recs]
  BY DEF InsertOrders
<1>2. ins \in Seq(Recs)
  BY <1>1, MaxLenAssumption
<1>. QED  BY <1>2 DEF InsertOrders, Members

\* The least element of a non-empty set of naturals, as a fact to PICK from.
LEMMA LeastNat ==
  ASSUME NEW T, T \subseteq Nat, T # {}
  PROVE  \E x \in T : \A y \in T : ~(y < x)
<1>1. \E x \in T : \A y \in T : ~(<<y, x>> \in OpToRel(<, Nat))
  BY NatLessThanWellFounded, WFMin, Zenon
<1>. QED  BY <1>1 DEF OpToRel

\* A non-empty set of naturals has a least element, and SetMin is one.
LEMMA SetMinIn ==
  ASSUME NEW S, S \subseteq Nat, S # {}
  PROVE  /\ SetMin(S) \in S
         /\ \A y \in S : SetMin(S) <= y
<1>1. PICK x \in S : \A y \in S : ~(y < x)
  BY LeastNat
<1>2. \E x0 \in S : \A y \in S : x0 <= y
  BY <1>1
<1>. QED  BY <1>2 DEF SetMin

\* A non-empty bounded set of naturals has a largest element, and SetMax
\* is one: the least upper bound is in the set.
LEMMA SetMaxIn ==
  ASSUME NEW S, S \subseteq Nat, S # {}, NEW b \in Nat, \A y \in S : y <= b
  PROVE  /\ SetMax(S) \in S
         /\ \A y \in S : y <= SetMax(S)
<1>. SUFFICES \E x \in S : \A y \in S : y <= x
  BY DEF SetMax
<1>1. PICK u \in {v \in Nat : \A y \in S : y <= v} :
             \A w \in {v \in Nat : \A y \in S : y <= v} : ~(w < u)
  BY LeastNat
<1>2. u \in S
  <2>. SUFFICES ASSUME u \notin S PROVE FALSE
    OBVIOUS
  <2>1. PICK y0 \in S : TRUE
    OBVIOUS
  <2>2. u - 1 \in Nat /\ \A y \in S : y <= u - 1
    BY <1>1, <2>1
  <2>. QED  BY <1>1, <2>2
<1>. QED  BY <1>1, <1>2

\* The lengths of the prefixes of s without an upper bound.
Unbounded(s) == {k \in 0..Len(s) : ~\E b \in Nat : \A i \in 1..k : s[i] <= b}

\* The records of a sequence of naturals are bounded.
LEMMA SeqBounded ==
  ASSUME NEW S \in SUBSET Nat, NEW s \in Seq(S)
  PROVE  \E b \in Nat : \A i \in 1..Len(s) : s[i] <= b
<1>0. \A i \in 1..Len(s) : s[i] \in Nat
  <2>1. \A i \in 1..Len(s) : s[i] \in S
    OBVIOUS
  <2>. QED  BY <2>1
<1>1. Len(s) \in 0..Len(s) /\ Unbounded(s) \subseteq Nat
  BY DEF Unbounded
<1>. SUFFICES ASSUME Unbounded(s) # {} PROVE FALSE
  BY <1>1, Zenon DEF Unbounded
<1>2. PICK k \in Unbounded(s) : \A j \in Unbounded(s) : ~(j < k)
  BY <1>1, LeastNat, Zenon
<1>3. k # 0
  <2>. SUFFICES ASSUME k = 0 PROVE FALSE
    OBVIOUS
  <2>1. \A i \in 1..0 : s[i] <= 0
    OBVIOUS
  <2>. QED  BY <2>1, <1>2 DEF Unbounded
<1>4. k \in 1..Len(s) /\ s[k] \in Nat
  <2>1. k \in 0..Len(s)
    BY <1>2, Zenon DEF Unbounded
  <2>. QED  BY <2>1, <1>3, <1>0
<1>5. PICK b \in Nat : \A i \in 1..k - 1 : s[i] <= b
  <2>1. k - 1 \in 0..Len(s) /\ k - 1 < k
    BY <1>4
  <2>2. k - 1 \notin Unbounded(s)
    BY <2>1, <1>2
  <2>. QED  BY <2>1, <2>2, Zenon DEF Unbounded
\* The larger of b and s[k] bounds the first k records.
<1>6. CASE b < s[k]
  <2>1. \A i \in 1..k : s[i] <= s[k]
    BY <1>0, <1>4, <1>5, <1>6
  <2>. QED  BY <2>1, <1>2, <1>4 DEF Unbounded
<1>7. CASE ~(b < s[k])
  <2>1. \A i \in 1..k : s[i] <= b
    BY <1>0, <1>4, <1>5, <1>7
  <2>. QED  BY <2>1, <1>2 DEF Unbounded
<1>. QED  BY <1>6, <1>7

\* Idx finds the position of a member.
LEMMA IdxIn ==
  ASSUME NEW ins \in Seq(Recs), NEW x \in Members(ins)
  PROVE  /\ Idx(ins, x) \in 1..Len(ins)
         /\ ins[Idx(ins, x)] = x
  BY DEF Idx, Members

\* Child returns the hook of a member, or null.
LEMMA ChildIn ==
  ASSUME NEW ins, NEW p, NEW less
  PROVE  Child(ins, p, less) \in {NodeOf(r) : r \in Members(ins)} \cup {Null}
  BY DEF Child

\* The two neighbours of x among the records inserted before it, and the
\* candidates for its parent.
Lo(ins, x) == {y \in Before(ins, x) : y < x}
Hi(ins, x) == {y \in Before(ins, x) : y > x}
Cands(ins, x) == (IF Lo(ins, x) = {} THEN {} ELSE {SetMax(Lo(ins, x))})
                   \cup (IF Hi(ins, x) = {} THEN {} ELSE {SetMin(Hi(ins, x))})

LEMMA TreeParentIs ==
  ASSUME NEW ins, NEW x
  PROVE  TreeParent(ins, x) =
           CHOOSE p \in Cands(ins, x) : \A q \in Cands(ins, x) : Idx(ins, q) <= Idx(ins, p)
  BY DEF TreeParent, Cands, Lo, Hi

\* Every record but the first hangs under a member: the first record is
\* inserted before it, so one of its neighbours exists.
LEMMA TreeParentIn ==
  ASSUME NEW ins \in InsertOrders, NEW x \in Members(ins), x # ins[1]
  PROVE  TreeParent(ins, x) \in Members(ins)
<1>1. ins \in Seq(Recs) /\ Members(ins) \subseteq Recs /\ Recs \subseteq Nat
  BY InsSeq, RecsAssumption
<1>2. Idx(ins, x) \in 1..Len(ins) /\ ins[Idx(ins, x)] = x
  BY <1>1, IdxIn
<1>3. Idx(ins, x) # 1
  BY <1>2
<1>4. ins[1] \in Before(ins, x)
  BY <1>2, <1>3 DEF Before
<1>5. Before(ins, x) \subseteq Members(ins)
  BY <1>1, <1>2 DEF Before, Members
<1>6. PICK bnd \in Nat : \A i \in 1..Len(ins) : ins[i] <= bnd
  BY <1>1, SeqBounded
<1>7. Lo(ins, x) # {} => SetMax(Lo(ins, x)) \in Lo(ins, x)
  <2>1. Lo(ins, x) \subseteq Nat /\ \A y \in Lo(ins, x) : y <= bnd
    BY <1>1, <1>5, <1>6 DEF Lo, Members
  <2>. QED  BY <2>1, SetMaxIn
<1>8. Hi(ins, x) # {} => SetMin(Hi(ins, x)) \in Hi(ins, x)
  <2>1. Hi(ins, x) \subseteq Nat
    BY <1>1, <1>5 DEF Hi
  <2>. QED  BY <2>1, SetMinIn
<1>9. Cands(ins, x) \subseteq Members(ins) /\ Cands(ins, x) # {}
  <2>0. ins[1] \in Nat /\ x \in Nat /\ ins[1] # x
    BY <1>1, <1>4, <1>5
  <2>1. ins[1] \in Lo(ins, x) \cup Hi(ins, x)
    BY <2>0, <1>4 DEF Lo, Hi
  <2>2. Lo(ins, x) \subseteq Before(ins, x) /\ Hi(ins, x) \subseteq Before(ins, x)
    BY DEF Lo, Hi
  <2>3. Cands(ins, x) \subseteq Members(ins)
    BY <1>5, <1>7, <1>8, <2>2 DEF Cands
  <2>4. Cands(ins, x) # {}
    BY <1>7, <1>8, <2>1 DEF Cands
  <2>. QED  BY <2>3, <2>4
\* One of at most two candidates was inserted last.
<1>10. \E p \in Cands(ins, x) : \A q \in Cands(ins, x) : Idx(ins, q) <= Idx(ins, p)
  <2>1. \A q \in Cands(ins, x) : Idx(ins, q) \in Nat
    BY <1>1, <1>9, IdxIn
  <2>2. PICK a, b : Cands(ins, x) \subseteq {a, b}
    BY DEF Cands
  <2>3. CASE a \in Cands(ins, x) /\ b \in Cands(ins, x)
    BY <2>1, <2>2, <2>3
  <2>4. CASE ~(a \in Cands(ins, x) /\ b \in Cands(ins, x))
    BY <1>9, <2>1, <2>2, <2>4
  <2>. QED  BY <2>3, <2>4
<1>. QED  BY <1>9, <1>10, TreeParentIs

(***************************************************************************)
(* No step of the walker leaves the invariant: the pointers never change,  *)
(* and each loop moves along a pointer PtrsOK keeps inside the tree.       *)
(***************************************************************************)
LEMMA NextIInv == IInv /\ [Next]_vars => IInv'
<1>. SUFFICES ASSUME IInv, [Next]_vars PROVE IInv'
  OBVIOUS
<1>0. /\ members \in SUBSET Recs
      /\ MemberNodes \subseteq Nodes /\ Header \notin MemberNodes /\ Null \notin MemberNodes
  BY MemberNodesType DEF IInv, TypeOK
\* Every step keeps the set and the pointers, hence PtrsOK and the nodes.
<1>1. UNCHANGED <<members, left, right, parent>>
  BY DEF Next, vars, Yield, NextRight, NextUp, MinStep, MinDone, ClimbStep, ClimbStop
<1>2. PtrsOK' /\ MemberNodes' = MemberNodes
  BY <1>1 DEF IInv, PtrsOK, MemberNodes
\* What remains is CurOK' and the walker's part of TypeOK'.
<1>3. CurOK' /\ pc' \in {"loop", "next", "min", "up"} /\ out' \in Seq(Recs)
  <2>1. CASE Yield
    <3>1. PICK r \in members : cur = NodeOf(r)
      BY <2>1, <1>0 DEF Yield, IInv, CurOK, MemberNodes
    <3>2. NodeToValue(cur) \in Recs
      BY <3>1, <1>0, NodeFacts
    <3>. QED  BY <2>1, <3>1, <3>2, <1>2, <1>0 DEF Yield, IInv, CurOK, TypeOK, MemberNodes
  <2>2. CASE NextRight
    BY <2>2, <1>2, <1>0 DEF NextRight, IInv, CurOK, PtrsOK, TypeOK, MemberNodes
  <2>3. CASE NextUp
    BY <2>3, <1>2 DEF NextUp, IInv, CurOK, TypeOK
  <2>4. CASE MinStep
    BY <2>4, <1>2, <1>0 DEF MinStep, IInv, CurOK, PtrsOK, TypeOK, MemberNodes
  <2>5. CASE MinDone
    BY <2>5, <1>2 DEF MinDone, IInv, CurOK, TypeOK
  \* The upward loop: from a member to its parent, from the header to the root.
  <2>6. CASE ClimbStep
    <3>1. parent[cur] \in MemberNodes \cup {Header}
      BY <2>6, <1>0 DEF ClimbStep, IInv, CurOK, PtrsOK, MemberNodes
    <3>. QED  BY <2>6, <3>1, <1>2 DEF ClimbStep, IInv, CurOK, TypeOK
  <2>7. CASE ClimbStop
    <3>1. parent[cur] \in MemberNodes \cup {Header}
      BY <2>7, <1>0 DEF ClimbStop, IInv, CurOK, PtrsOK, MemberNodes
    <3>. QED  BY <2>7, <3>1, <1>2 DEF ClimbStop, IInv, CurOK, TypeOK
  <2>8. CASE UNCHANGED vars
    BY <2>8, <1>2 DEF vars, IInv, CurOK, TypeOK
  <2>. QED  BY <2>1, <2>2, <2>3, <2>4, <2>5, <2>6, <2>7, <2>8 DEF Next
<1>4. cur' \in Nodes
  <2>1. cur' \in MemberNodes \cup {Header}
    BY <1>2, <1>3 DEF CurOK
  <2>. QED  BY <2>1, <1>2, <1>0 DEF Nodes
<1>5. TypeOK'
  BY <1>1, <1>3, <1>4 DEF IInv, TypeOK
<1>6. YieldsMembers'
  <2>1. CASE Yield
    <3>1. PICK r \in members : cur = NodeOf(r)
      BY <2>1, <1>0 DEF Yield, IInv, CurOK, MemberNodes
    <3>2. out' = Append(out, r) /\ out \in Seq(Recs)
      BY <2>1, <3>1, <1>0, NodeFacts DEF Yield, IInv, TypeOK
    <3>. QED  BY <3>2, <1>1 DEF IInv, YieldsMembers
  <2>2. CASE ~Yield
    <3>1. out' = out
      BY <2>2 DEF Next, vars, NextRight, NextUp, MinStep, MinDone, ClimbStep, ClimbStop
    <3>. QED  BY <3>1, <1>1 DEF IInv, YieldsMembers
  <2>. QED  BY <2>1, <2>2
<1>. QED  BY <1>2, <1>3, <1>5, <1>6 DEF IInv

(***************************************************************************)
(* The trees Init builds satisfy the invariant: each pointer field is a    *)
(* member's hook, the header or null, as Child, TreeParent, SetMin and     *)
(* SetMax return members.                                                  *)
(***************************************************************************)
LEMMA InitIInv == Init => IInv
<1>. SUFFICES ASSUME Init PROVE IInv
  OBVIOUS
<1>1. PICK ins \in InsertOrders :
        /\ members = Members(ins)
        /\ left = LeftPtrs(ins) /\ right = RightPtrs(ins) /\ parent = ParentPtrs(ins)
        /\ pc = "loop" /\ out = <<>> /\ cur = left[Header]
  BY DEF Init
<1>2. /\ ins \in Seq(Recs) /\ members \subseteq Recs /\ Recs \subseteq Nat
      /\ (members = {} <=> ins = <<>>)
      /\ MemberNodes \subseteq Nodes /\ Header \in Nodes
  BY <1>1, InsSeq, MemberNodesType, RecsAssumption DEF Nodes
\* The fields of a member's hook.
<1>3. \A r \in members :
        /\ left[NodeOf(r)] = Child(ins, r, TRUE)
        /\ right[NodeOf(r)] = Child(ins, r, FALSE)
        /\ parent[NodeOf(r)] = IF r = ins[1] THEN Header ELSE NodeOf(TreeParent(ins, r))
  <2>. SUFFICES ASSUME NEW r \in members
                PROVE  /\ left[NodeOf(r)] = Child(ins, r, TRUE)
                       /\ right[NodeOf(r)] = Child(ins, r, FALSE)
                       /\ parent[NodeOf(r)] = IF r = ins[1] THEN Header
                                              ELSE NodeOf(TreeParent(ins, r))
    OBVIOUS
  <2>1. NodeOf(r) \in Nodes /\ NodeOf(r) # Header /\ NodeOf(r) - HookOffset = r
    BY <1>2, NodeFacts, HookOffsetAssumption DEF Nodes, NodeOf
  <2>. QED  BY <1>1, <2>1 DEF LeftPtrs, RightPtrs, ParentPtrs
\* The header's fields.
<1>4. /\ ins # <<>> => /\ left[Header] = NodeOf(SetMin(members))
                       /\ right[Header] = NodeOf(SetMax(members))
                       /\ parent[Header] = NodeOf(ins[1])
      /\ ins = <<>> => left[Header] = Header /\ right[Header] = Header /\ parent[Header] = Null
  BY <1>1, <1>2 DEF LeftPtrs, RightPtrs, ParentPtrs
<1>5. ins # <<>> => /\ SetMin(members) \in members
                    /\ SetMax(members) \in members
                    /\ ins[1] \in members
  <2>. SUFFICES ASSUME ins # <<>> PROVE  /\ SetMin(members) \in members
                                          /\ SetMax(members) \in members
                                          /\ ins[1] \in members
    OBVIOUS
  <2>0. Len(ins) \in Nat \ {0}
    <3>1. ins \in Seq(Recs) /\ Len(ins) \in Nat
      BY <1>2
    <3>2. Len(ins) = 0 => ins = <<>>
      BY <3>1
    <3>. QED  BY <3>1, <3>2
  <2>1. members \subseteq Nat /\ members # {} /\ ins[1] \in members
    <3>1. members = {ins[i] : i \in 1..Len(ins)} /\ 1 \in 1..Len(ins)
      BY <1>1, <2>0 DEF Members
    <3>. QED  BY <3>1, <1>2
  <2>2. PICK bnd \in Nat : \A i \in 1..Len(ins) : ins[i] <= bnd
    BY <1>2, SeqBounded
  <2>3. \A y \in members : y <= bnd
    BY <1>1, <2>2 DEF Members
  <2>. QED  BY <2>1, <2>3, SetMinIn, SetMaxIn
\* Every field of every node is a member's hook, the header or null.
<1>6. \A a \in Nodes : /\ left[a] \in MemberNodes \cup {Header, Null}
                       /\ right[a] \in MemberNodes \cup {Header, Null}
                       /\ parent[a] \in MemberNodes \cup {Header, Null}
  <2>. SUFFICES ASSUME NEW a \in Nodes
                PROVE  /\ left[a] \in MemberNodes \cup {Header, Null}
                       /\ right[a] \in MemberNodes \cup {Header, Null}
                       /\ parent[a] \in MemberNodes \cup {Header, Null}
    OBVIOUS
  <2>1. CASE a = Header
    BY <2>1, <1>4, <1>5 DEF MemberNodes
  <2>2. CASE a # Header
    <3>1. /\ left[a] = IF a - HookOffset \in members THEN Child(ins, a - HookOffset, TRUE) ELSE Null
          /\ right[a] = IF a - HookOffset \in members THEN Child(ins, a - HookOffset, FALSE) ELSE Null
          /\ parent[a] = IF a - HookOffset \notin members THEN Null
                         ELSE IF a - HookOffset = ins[1] THEN Header
                         ELSE NodeOf(TreeParent(ins, a - HookOffset))
      BY <1>1, <2>2 DEF LeftPtrs, RightPtrs, ParentPtrs
    <3>2. a - HookOffset \in members /\ a - HookOffset # ins[1]
            => NodeOf(TreeParent(ins, a - HookOffset)) \in MemberNodes
      BY <1>1, TreeParentIn DEF MemberNodes
    <3>. QED  BY <3>1, <3>2, <1>1, ChildIn DEF MemberNodes
  <2>. QED  BY <2>1, <2>2
<1>7. PtrsOK
  <2>1. \A r \in members : NodeOf(r) # Null /\ (r # ins[1] => NodeOf(TreeParent(ins, r)) \in MemberNodes)
    BY <1>1, <1>2, NodeFacts, TreeParentIn DEF MemberNodes
  <2>2. \A r \in members : /\ left[NodeOf(r)] \in MemberNodes \cup {Null}
                           /\ right[NodeOf(r)] \in MemberNodes \cup {Null}
                           /\ parent[NodeOf(r)] \in MemberNodes \cup {Header}
    <3>. SUFFICES ASSUME NEW r \in members
                  PROVE  /\ left[NodeOf(r)] \in MemberNodes \cup {Null}
                         /\ right[NodeOf(r)] \in MemberNodes \cup {Null}
                         /\ parent[NodeOf(r)] \in MemberNodes \cup {Header}
      OBVIOUS
    <3>1. Child(ins, r, TRUE) \in MemberNodes \cup {Null}
          /\ Child(ins, r, FALSE) \in MemberNodes \cup {Null}
      BY <1>1, ChildIn DEF MemberNodes
    <3>. QED  BY <3>1, <1>3, <2>1
  <2>. QED  BY <2>2, <1>2, <1>4, <1>5 DEF PtrsOK, MemberNodes
<1>8. TypeOK
  <2>1. /\ left \in [Nodes -> Nodes \cup {Null}]
        /\ right \in [Nodes -> Nodes \cup {Null}]
        /\ parent \in [Nodes -> Nodes \cup {Null}]
    BY <1>1, <1>2, <1>6 DEF LeftPtrs, RightPtrs, ParentPtrs
  <2>2. cur \in Nodes
    <3>1. CASE ins = <<>>
      BY <3>1, <1>1, <1>2, <1>4
    <3>2. CASE ins # <<>>
      BY <3>2, <1>1, <1>2, <1>4, <1>5 DEF MemberNodes
    <3>. QED  BY <3>1, <3>2
  <2>. QED  BY <1>1, <1>2, <2>1, <2>2 DEF TypeOK
<1>9. CurOK
  BY <1>1, <1>2, <1>4, <1>5 DEF CurOK, MemberNodes
<1>10. YieldsMembers
  BY <1>1 DEF YieldsMembers
<1>. QED  BY <1>7, <1>8, <1>9, <1>10 DEF IInv

\* The strengthened invariant holds in every state of every walk.
THEOREM InvariantHolds == Spec => []IInv
  BY InitIInv, NextIInv, PTL DEF Spec

(***************************************************************************)
(* Type correctness: for every record set, hook offset, header address and *)
(* tree size, the walker of for_each_intrusive_set_item keeps its node     *)
(* variable on the header or a hook, never on null, and yields records.   *)
(***************************************************************************)
THEOREM TypeCorrect == Spec => []TypeOK
  BY InvariantHolds, PTL DEF IInv

(***************************************************************************)
(* Every record for_each_intrusive_set_item yields is a member of the set, *)
(* on every tree: the hook offset is subtracted from a member's hook.      *)
(***************************************************************************)
THEOREM MembersOnly == Spec => []YieldsMembers
  BY InvariantHolds, PTL DEF IInv

=============================================================================
