------------------------ MODULE IntrusiveListProofs ------------------------
(***************************************************************************)
(* Proofs about the list walker of IntrusiveList, for every set of record  *)
(* addresses, every hook offset and every header address that satisfy the *)
(* module's assumptions.                                                   *)
(*                                                                         *)
(* The invariant that carries them, IInv, says where each walker is: after *)
(* k steps the forward walk has yielded the values node_to_value gives for *)
(* the hooks of the first k records of the list                            *)
(* and stands on the hook of record k+1 (on the header once k is the       *)
(* list's length); the reverse walk likewise from the other end.  Neither  *)
(* TypeOK nor WalksMirror is inductive by itself: a walker standing on a   *)
(* null pointer, or on a node off the list, satisfies TypeOK, and the      *)
(* mirror says nothing about a walk still under way.                       *)
(***************************************************************************)
EXTENDS IntrusiveList, TLAPS

FwdAt(k) == IF k < Len(recs) THEN NodeOf(recs[k + 1]) ELSE Header
RevAt(k) == IF k < Len(recs) THEN NodeOf(recs[Len(recs) - k]) ELSE Header

IInv ==
  /\ TypeOK
  /\ next = NextPtrs(recs)
  /\ prev = PrevPtrs(recs)
  /\ Len(fout) <= Len(recs)
  /\ \A k \in 1..Len(fout) : fout[k] = Owner(recs[k])
  /\ fcur = FwdAt(Len(fout))
  /\ Len(rout) <= Len(recs)
  /\ \A k \in 1..Len(rout) : rout[k] = Owner(recs[Len(recs) - k + 1])
  /\ rcur = RevAt(Len(rout))

-----------------------------------------------------------------------------
(***************************************************************************)
(* Lemmas about the lists Init builds and the pointers they put in memory. *)
(***************************************************************************)
LEMMA RecsPositive == \A r \in Recs : r \in Nat /\ r >= 1
<1>1. \A r \in Recs : r \in Nat /\ r # 0
  BY RecsAssumption, Zenon
<1>. QED  BY <1>1

LEMMA ListIsSeq ==
  ASSUME NEW s \in Lists
  PROVE  /\ s \in Seq(Recs)
         /\ Len(s) \in 0..MaxLen
         /\ IsInjective(s)
<1>1. PICK n \in 0..MaxLen : s \in [1..n -> Recs] /\ IsInjective(s)
  BY DEF Lists
<1>2. s \in Seq(Recs) /\ Len(s) = n
  BY <1>1, MaxLenAssumption
<1>. QED  BY <1>1, <1>2

\* The hook of the i-th record is on the list, at position i, and is no
\* other node: not the header, not null.
LEMMA NodeOnList ==
  ASSUME NEW s \in Lists, NEW i \in 1..Len(s)
  PROVE  /\ NodeOf(s[i]) \in NodeAddrs
         /\ NodeOf(s[i]) # Header
         /\ NodeOf(s[i]) # Null
         /\ OnList(s, NodeOf(s[i]))
         /\ PosOf(s, NodeOf(s[i])) = i
<1>1. s \in Seq(Recs) /\ IsInjective(s)
  BY ListIsSeq
<1>2. s[i] \in Recs
  BY <1>1
<1>3. NodeOf(s[i]) \in NodeAddrs
  BY <1>2 DEF NodeAddrs
<1>4. \A j \in 1..Len(s) : NodeOf(s[j]) = NodeOf(s[i]) => j = i
  <2>1. SUFFICES ASSUME NEW j \in 1..Len(s), NodeOf(s[j]) = NodeOf(s[i])
                 PROVE  j = i
    OBVIOUS
  <2>2. s[j] \in Recs
    BY <1>1
  <2>3. s[j] + HookOffset = s[i] + HookOffset
    BY <2>1 DEF NodeOf
  <2>4. s[j] \in Nat /\ s[i] \in Nat
    BY <1>2, <2>2, RecsPositive
  <2>5. s[j] = s[i]
    BY <2>3, <2>4, HookOffsetAssumption
  <2>. QED  BY <2>5, <1>1 DEF IsInjective
<1>5. PosOf(s, NodeOf(s[i])) = i
  BY <1>4 DEF PosOf
<1>6. OnList(s, NodeOf(s[i]))
  BY DEF OnList
<1>7. NodeOf(s[i]) # Null
  BY <1>2, RecsPositive, HookOffsetAssumption DEF NodeOf, Null
<1>8. NodeOf(s[i]) # Header
  BY <1>3, HeaderAssumption
<1>. QED  BY <1>3, <1>5, <1>6, <1>7, <1>8

\* next_ of the header and of each hook.
LEMMA NextPtrsAt ==
  ASSUME NEW s \in Lists
  PROVE  /\ NextPtrs(s)[Header] = IF Len(s) = 0 THEN Header ELSE NodeOf(s[1])
         /\ \A i \in 1..Len(s) :
              NextPtrs(s)[NodeOf(s[i])] = IF i = Len(s) THEN Header ELSE NodeOf(s[i + 1])
<1>1. s \in Seq(Recs)
  BY ListIsSeq
<1>2. NextPtrs(s)[Header] = IF Len(s) = 0 THEN Header ELSE NodeOf(s[1])
  BY <1>1 DEF NextPtrs
<1>3. ASSUME NEW i \in 1..Len(s)
      PROVE  NextPtrs(s)[NodeOf(s[i])] = IF i = Len(s) THEN Header ELSE NodeOf(s[i + 1])
  <2>1. /\ NodeOf(s[i]) \in NodeAddrs /\ NodeOf(s[i]) # Header
        /\ OnList(s, NodeOf(s[i])) /\ PosOf(s, NodeOf(s[i])) = i
    BY NodeOnList
  <2>. QED  BY <2>1 DEF NextPtrs
<1>. QED  BY <1>2, <1>3

\* prev_ of the header and of each hook.
LEMMA PrevPtrsAt ==
  ASSUME NEW s \in Lists
  PROVE  /\ PrevPtrs(s)[Header] = IF Len(s) = 0 THEN Header ELSE NodeOf(s[Len(s)])
         /\ \A i \in 1..Len(s) :
              PrevPtrs(s)[NodeOf(s[i])] = IF i = 1 THEN Header ELSE NodeOf(s[i - 1])
<1>1. s \in Seq(Recs)
  BY ListIsSeq
<1>2. PrevPtrs(s)[Header] = IF Len(s) = 0 THEN Header ELSE NodeOf(s[Len(s)])
  BY <1>1 DEF PrevPtrs
<1>3. ASSUME NEW i \in 1..Len(s)
      PROVE  PrevPtrs(s)[NodeOf(s[i])] = IF i = 1 THEN Header ELSE NodeOf(s[i - 1])
  <2>1. /\ NodeOf(s[i]) \in NodeAddrs /\ NodeOf(s[i]) # Header
        /\ OnList(s, NodeOf(s[i])) /\ PosOf(s, NodeOf(s[i])) = i
    BY NodeOnList
  <2>. QED  BY <2>1 DEF PrevPtrs
<1>. QED  BY <1>2, <1>3

\* Both pointer arrays map into the address set TypeOK allows.
LEMMA PtrsType ==
  ASSUME NEW s \in Lists
  PROVE  /\ NextPtrs(s) \in [{Header} \cup NodeAddrs -> Addr]
         /\ PrevPtrs(s) \in [{Header} \cup NodeAddrs -> Addr]
<1>1. s \in Seq(Recs)
  BY ListIsSeq
<1>2. \A i \in 1..Len(s) : NodeOf(s[i]) \in NodeAddrs
  BY <1>1 DEF NodeAddrs
<1>3. ASSUME NEW a \in {Header} \cup NodeAddrs, OnList(s, a)
      PROVE  /\ PosOf(s, a) \in 1..Len(s)
             /\ PosOf(s, a) # Len(s) => NodeOf(s[PosOf(s, a) + 1]) \in NodeAddrs
             /\ PosOf(s, a) # 1 => NodeOf(s[PosOf(s, a) - 1]) \in NodeAddrs
  <2>1. PosOf(s, a) \in 1..Len(s)
    BY <1>3 DEF OnList, PosOf
  <2>. QED  BY <2>1, <1>2
<1>4. \A a \in {Header} \cup NodeAddrs : NextPtrs(s)[a] \in Addr
  BY <1>1, <1>2, <1>3 DEF NextPtrs, Addr
<1>5. \A a \in {Header} \cup NodeAddrs : PrevPtrs(s)[a] \in Addr
  BY <1>1, <1>2, <1>3 DEF PrevPtrs, Addr
<1>. QED  BY <1>4, <1>5 DEF NextPtrs, PrevPtrs

\* node_to_value of a record's hook is that record's value.
LEMMA NodeToValueOfNode ==
  ASSUME NEW r \in Recs
  PROVE  NodeToValue(NodeOf(r)) = Owner(r) /\ Owner(r) \in Values
BY DEF Owner, Values

-----------------------------------------------------------------------------
(***************************************************************************)
(* The inductive invariant.                                                *)
(***************************************************************************)
THEOREM InitIInv == Init => IInv
<1>. SUFFICES ASSUME Init PROVE IInv
  OBVIOUS
<1>1. recs \in Lists /\ recs \in Seq(Recs)
  BY ListIsSeq DEF Init
<1>2. fcur = FwdAt(0)
  BY <1>1, NextPtrsAt DEF Init, FwdAt
<1>3. rcur = RevAt(0)
  BY <1>1, PrevPtrsAt DEF Init, RevAt
<1>4. fcur \in Addr /\ rcur \in Addr
  BY <1>1, <1>2, <1>3, NodeOnList DEF FwdAt, RevAt, Addr
<1>5. next \in [{Header} \cup NodeAddrs -> Addr] /\ prev \in [{Header} \cup NodeAddrs -> Addr]
  BY <1>1, PtrsType DEF Init
<1>6. TypeOK
  BY <1>1, <1>4, <1>5 DEF Init, TypeOK
<1>7. fout = <<>> /\ rout = <<>>
  BY DEF Init
<1>. QED  BY <1>1, <1>2, <1>3, <1>6, <1>7 DEF Init, IInv

\* A forward step yields the next record and moves to the one after it.
LEMMA FwdStepIInv == IInv /\ FwdStep => IInv'
<1>. SUFFICES ASSUME IInv, FwdStep PROVE IInv'
  OBVIOUS
<1>. DEFINE k == Len(fout)
            n == Len(recs)
<1>1. recs \in Lists /\ recs \in Seq(Recs) /\ fout \in Seq(Values)
  BY ListIsSeq DEF IInv, TypeOK
<1>2. k < n
  BY <1>1 DEF FwdStep, IInv, FwdAt
<1>3. fcur = NodeOf(recs[k + 1]) /\ recs[k + 1] \in Recs
  BY <1>1, <1>2 DEF IInv, FwdAt
<1>4. fout' = Append(fout, Owner(recs[k + 1])) /\ Owner(recs[k + 1]) \in Values
  BY <1>3, NodeToValueOfNode DEF FwdStep
<1>5. Len(fout') = k + 1 /\ fout' \in Seq(Values)
  BY <1>1, <1>3, <1>4
<1>6. \A j \in 1..Len(fout') : fout'[j] = Owner(recs'[j])
  <2>1. recs' = recs
    BY DEF FwdStep
  <2>2. ASSUME NEW j \in 1..Len(fout') PROVE fout'[j] = Owner(recs[j])
    <3>1. CASE j = k + 1
      BY <3>1, <1>1, <1>4
    <3>2. CASE j \in 1..k
      BY <3>2, <1>1, <1>4 DEF IInv
    <3>. QED  BY <3>1, <3>2, <1>5
  <2>. QED  BY <2>1, <2>2
<1>7. fcur' = IF k + 1 = n THEN Header ELSE NodeOf(recs[k + 2])
  <2>1. fcur' = NextPtrs(recs)[NodeOf(recs[k + 1])]
    BY <1>3 DEF FwdStep, IInv
  <2>. QED  BY <2>1, <1>1, <1>2, NextPtrsAt
<1>8. fcur' = FwdAt(Len(fout'))
  BY <1>5, <1>7, <1>2 DEF FwdAt, FwdStep
<1>9. fcur' \in Addr
  BY <1>1, <1>2, <1>7, NodeOnList DEF Addr
<1>10. UNCHANGED <<recs, next, prev, rcur, rout>>
  BY DEF FwdStep
<1>11. TypeOK'
  BY <1>5, <1>9, <1>10 DEF IInv, TypeOK
<1>12. /\ rcur' = RevAt(Len(rout))'
       /\ next' = NextPtrs(recs') /\ prev' = PrevPtrs(recs')
       /\ Len(rout') <= Len(recs')
       /\ \A j \in 1..Len(rout') : rout'[j] = Owner(recs'[Len(recs') - j + 1])
  BY <1>10 DEF IInv, RevAt
<1>13. fcur' = FwdAt(Len(fout))' /\ Len(fout') <= Len(recs')
  BY <1>2, <1>5, <1>8, <1>10 DEF FwdAt
<1>. QED  BY <1>6, <1>11, <1>12, <1>13 DEF IInv

\* A reverse step yields the previous record and moves to the one before it.
LEMMA RevStepIInv == IInv /\ RevStep => IInv'
<1>. SUFFICES ASSUME IInv, RevStep PROVE IInv'
  OBVIOUS
<1>. DEFINE k == Len(rout)
            n == Len(recs)
<1>1. recs \in Lists /\ recs \in Seq(Recs) /\ rout \in Seq(Values)
  BY ListIsSeq DEF IInv, TypeOK
<1>2. k < n
  BY <1>1 DEF RevStep, IInv, RevAt
<1>3. rcur = NodeOf(recs[n - k]) /\ recs[n - k] \in Recs /\ n - k \in 1..n
  BY <1>1, <1>2 DEF IInv, RevAt
<1>4. rout' = Append(rout, Owner(recs[n - k])) /\ Owner(recs[n - k]) \in Values
  BY <1>3, NodeToValueOfNode DEF RevStep
<1>5. Len(rout') = k + 1 /\ rout' \in Seq(Values)
  BY <1>1, <1>3, <1>4
<1>6. \A j \in 1..Len(rout') : rout'[j] = Owner(recs'[Len(recs') - j + 1])
  <2>1. recs' = recs
    BY DEF RevStep
  <2>2. ASSUME NEW j \in 1..Len(rout') PROVE rout'[j] = Owner(recs[n - j + 1])
    <3>1. CASE j = k + 1
      BY <3>1, <1>1, <1>4
    <3>2. CASE j \in 1..k
      BY <3>2, <1>1, <1>4 DEF IInv
    <3>. QED  BY <3>1, <3>2, <1>5
  <2>. QED  BY <2>1, <2>2
<1>7. rcur' = IF n - k = 1 THEN Header ELSE NodeOf(recs[n - k - 1])
  <2>1. rcur' = PrevPtrs(recs)[NodeOf(recs[n - k])]
    BY <1>3 DEF RevStep, IInv
  <2>. QED  BY <2>1, <1>1, <1>3, PrevPtrsAt
<1>8. rcur' = RevAt(Len(rout'))
  BY <1>5, <1>7, <1>2 DEF RevAt, RevStep
<1>9. rcur' \in Addr
  BY <1>1, <1>2, <1>7, NodeOnList DEF Addr
<1>10. UNCHANGED <<recs, next, prev, fcur, fout>>
  BY DEF RevStep
<1>11. TypeOK'
  BY <1>5, <1>9, <1>10 DEF IInv, TypeOK
<1>12. /\ fcur' = FwdAt(Len(fout))'
       /\ next' = NextPtrs(recs') /\ prev' = PrevPtrs(recs')
       /\ Len(fout') <= Len(recs')
       /\ \A j \in 1..Len(fout') : fout'[j] = Owner(recs'[j])
  BY <1>10 DEF IInv, FwdAt
<1>13. rcur' = RevAt(Len(rout))' /\ Len(rout') <= Len(recs')
  BY <1>2, <1>5, <1>8, <1>10 DEF RevAt
<1>. QED  BY <1>6, <1>11, <1>12, <1>13 DEF IInv

THEOREM NextIInv == IInv /\ [Next]_vars => IInv'
<1>. SUFFICES ASSUME IInv, [Next]_vars PROVE IInv'
  OBVIOUS
<1>1. CASE FwdStep
  BY <1>1, FwdStepIInv
<1>2. CASE RevStep
  BY <1>2, RevStepIInv
<1>3. CASE UNCHANGED vars
  BY <1>3 DEF vars, IInv, TypeOK, FwdAt, RevAt
<1>. QED  BY <1>1, <1>2, <1>3 DEF Next

-----------------------------------------------------------------------------
(***************************************************************************)
(* The theorems.                                                           *)
(***************************************************************************)
\* Type correctness of the walker: every value either loop yields is
\* node_to_value of a record's hook, and each loop's node is the header,
\* a hook, or null.
THEOREM TypeCorrect == Spec => []TypeOK
<1>1. IInv => TypeOK
  BY DEF IInv
<1>. QED  BY <1>1, InitIInv, NextIInv, PTL DEF Spec

\* Forward and reverse walks of the same list yield the values of the
\* list's hooks, each once, in opposite orders (WalksMirror).
LEMMA IInvMirror == IInv => WalksMirror
<1>. SUFFICES ASSUME IInv, fcur = Header, rcur = Header
              PROVE  fout = Yielded(recs) /\ rout = RevSeq(fout)
  BY DEF WalksMirror
<1>1. recs \in Lists /\ recs \in Seq(Recs) /\ fout \in Seq(Values) /\ rout \in Seq(Values)
  BY ListIsSeq DEF IInv, TypeOK
<1>2. Len(fout) = Len(recs) /\ Len(rout) = Len(recs)
  <2>1. ~(Len(fout) < Len(recs))
    <3>1. Len(fout) < Len(recs) => fcur = NodeOf(recs[Len(fout) + 1])
      BY DEF IInv, FwdAt
    <3>2. Len(fout) < Len(recs) => NodeOf(recs[Len(fout) + 1]) # Header
      BY <1>1, NodeOnList
    <3>. QED  BY <3>1, <3>2
  <2>2. ~(Len(rout) < Len(recs))
    <3>1. Len(rout) < Len(recs) => rcur = NodeOf(recs[Len(recs) - Len(rout)])
      BY DEF IInv, RevAt
    <3>2. Len(rout) < Len(recs) => NodeOf(recs[Len(recs) - Len(rout)]) # Header
      BY <1>1, NodeOnList
    <3>. QED  BY <3>1, <3>2
  <2>. QED  BY <2>1, <2>2, <1>1 DEF IInv
<1>3. fout = Yielded(recs)
  <2>1. \A k \in 1..Len(fout) : fout[k] = Owner(recs[k])
    BY DEF IInv
  <2>2. DOMAIN fout = 1..Len(recs)
    BY <1>1, <1>2
  <2>. QED  BY <1>1, <2>1, <2>2 DEF Yielded
<1>4. rout = RevSeq(fout)
  <2>1. \A k \in 1..Len(rout) : rout[k] = fout[Len(fout) - k + 1]
    BY <1>1, <1>2, <1>3 DEF IInv, Yielded
  <2>. QED  BY <2>1, <1>1, <1>2 DEF RevSeq
<1>. QED  BY <1>3, <1>4

THEOREM MirrorCorrect == Spec => []WalksMirror
BY IInvMirror, InitIInv, NextIInv, PTL DEF Spec

(***************************************************************************)
(* IInv, the invariant the list_walk run checks, holds in every state: the *)
(* snapshot pointers stay those of the ghost list, and each walker has     *)
(* yielded a prefix of the list (of its reverse) and stands on the hook of *)
(* the next record.                                                        *)
(***************************************************************************)
THEOREM InvariantHolds == Spec => []IInv
BY InitIInv, NextIInv, PTL DEF Spec

-----------------------------------------------------------------------------
(***************************************************************************)
(* Refinement of ContainerIter.  A forward step is the iterator's Yield of *)
(* the next value of the list's hooks, a reverse step the Yield of the     *)
(* next value of their reverse; each walker's step is a stutter of the    *)
(* other's iterator.                                                       *)
(***************************************************************************)
\* What a forward step yields: the value after the prefix already yielded.
LEMMA FwdStepYields ==
  ASSUME IInv, FwdStep
  PROVE  /\ Len(fout) < Len(Yielded(recs))
         /\ fout' = Append(fout, Yielded(recs)[Len(fout) + 1])
<1>1. recs \in Lists /\ recs \in Seq(Recs) /\ fout \in Seq(Values)
  BY ListIsSeq DEF IInv, TypeOK
<1>2. Len(fout) < Len(recs)
  BY <1>1 DEF FwdStep, IInv, FwdAt
<1>3. fcur = NodeOf(recs[Len(fout) + 1]) /\ recs[Len(fout) + 1] \in Recs
  BY <1>1, <1>2 DEF IInv, FwdAt
<1>. QED  BY <1>1, <1>2, <1>3, NodeToValueOfNode DEF FwdStep, Yielded

\* What a reverse step yields: the next element of the list's reverse.
LEMMA RevStepYields ==
  ASSUME IInv, RevStep
  PROVE  /\ Len(rout) < Len(RevSeq(Yielded(recs)))
         /\ rout' = Append(rout, RevSeq(Yielded(recs))[Len(rout) + 1])
<1>1. recs \in Lists /\ recs \in Seq(Recs) /\ rout \in Seq(Values)
  BY ListIsSeq DEF IInv, TypeOK
<1>2. Len(rout) < Len(recs)
  BY <1>1 DEF RevStep, IInv, RevAt
<1>3. /\ rcur = NodeOf(recs[Len(recs) - Len(rout)])
      /\ recs[Len(recs) - Len(rout)] \in Recs
  BY <1>1, <1>2 DEF IInv, RevAt
<1>4. /\ Len(RevSeq(Yielded(recs))) = Len(recs)
      /\ RevSeq(Yielded(recs))[Len(rout) + 1] = Owner(recs[Len(recs) - Len(rout)])
  BY <1>1, <1>2 DEF RevSeq, Yielded
<1>. QED  BY <1>2, <1>3, <1>4, NodeToValueOfNode DEF RevStep

\* The walkers start as the two iterators do: nothing yielded, on a list.
LEMMA InitRefines == Init => FwdIter!Init /\ RevIter!Init
<1>. SUFFICES ASSUME Init PROVE FwdIter!Init /\ RevIter!Init
  OBVIOUS
<1>1. recs \in Seq(Recs)
  BY ListIsSeq DEF Init
<1>2. Yielded(recs) \in Seq(Values)
  <2>1. \A i \in 1..Len(recs) : recs[i] \in Recs
    BY <1>1
  <2>2. \A i \in 1..Len(recs) : Owner(recs[i]) \in Values
    BY <2>1 DEF Values
  <2>. QED  BY <1>1, <2>2 DEF Yielded
<1>3. RevSeq(Yielded(recs)) \in Seq(Values)
  <2>1. Len(Yielded(recs)) = Len(recs)
    BY <1>1 DEF Yielded
  <2>. QED  BY <1>2, <2>1 DEF RevSeq
<1>. QED  BY <1>1, <1>2, <1>3 DEF Init, FwdIter!Init, RevIter!Init

\* Every step of the walkers is a step, or a stutter, of both iterators.
LEMMA NextRefines ==
  IInv /\ [Next]_vars => /\ [FwdIter!Next]_<<Yielded(recs), fout>>
                         /\ [RevIter!Next]_<<RevSeq(Yielded(recs)), rout>>
<1>. SUFFICES ASSUME IInv, [Next]_vars
              PROVE  /\ [FwdIter!Next]_<<Yielded(recs), fout>>
                     /\ [RevIter!Next]_<<RevSeq(Yielded(recs)), rout>>
  OBVIOUS
<1>1. CASE FwdStep
  <2>1. FwdIter!Yield
    BY <1>1, FwdStepYields DEF FwdIter!Yield, FwdStep
  <2>2. UNCHANGED <<RevSeq(Yielded(recs)), rout>>
    BY <1>1 DEF FwdStep
  <2>. QED  BY <2>1, <2>2 DEF FwdIter!Next
<1>2. CASE RevStep
  <2>1. RevIter!Yield
    BY <1>2, RevStepYields DEF RevIter!Yield, RevStep
  <2>2. UNCHANGED <<Yielded(recs), fout>>
    BY <1>2 DEF RevStep
  <2>. QED  BY <2>1, <2>2 DEF RevIter!Next
<1>3. CASE UNCHANGED vars
  BY <1>3 DEF vars
<1>. QED  BY <1>1, <1>2, <1>3 DEF Next

(***************************************************************************)
(* Both list walkers implement the abstract iterator (WalksRefine), on     *)
(* every list: for_each_intrusive_list_item yields node_to_value of the    *)
(* list's hooks in order and nothing else, for_each_intrusive_list_item_   *)
(* reverse the same values in reverse order.                               *)
(***************************************************************************)
THEOREM RefineCorrect == Spec => WalksRefine
<1>1. [][Next]_vars /\ []IInv => [][FwdIter!Next]_<<Yielded(recs), fout>>
                                /\ [][RevIter!Next]_<<RevSeq(Yielded(recs)), rout>>
  BY NextRefines, PTL
<1>. QED  BY <1>1, InitRefines, InvariantHolds, PTL
          DEF Spec, WalksRefine, FwdIter!Spec, RevIter!Spec

=============================================================================
