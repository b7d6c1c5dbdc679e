----------------------- MODULE IntrusiveUnorderedSet -----------------------
(***************************************************************************)
(* The hash-set walker of src/tools/bp_gdb.py:                             *)
(* BoostIntrusiveUnorderedSetType (iter_nodes, iter_values,                *)
(* node_to_value) as driven by for_each_intrusive_unordered_set_item and   *)
(* BoostIntrusiveUnorderedSetPrinter.                                      *)
(*                                                                         *)
(* Memory is the snapshot of the bucket array: NB buckets, bucket b's      *)
(* header_holder_ at address BucketHdr(b), and the `next_' pointer of      *)
(* every bucket header and every node hook.  Each bucket holds a circular *)
(* singly-linked list that returns to its own header.  Init builds every  *)
(* such array over up to MaxLen records: an insertion order `order' and a *)
(* hash `bucketOf' from records to buckets, each bucket listing its       *)
(* records in insertion order.                                             *)
(***************************************************************************)
EXTENDS Integers, Sequences, SequencesExt

CONSTANTS Recs,         \* addresses of the records that may be in the set
          HookOffset,   \* byte offset of the base-class hook inside the record
          NB,           \* bucket_traits_.buckets_len_
          BucketBase,   \* address of buckets_[0]
          BucketSize,   \* sizeof a bucket
          MaxLen        \* the largest set Init builds

Null == 0

NodeOf(r) == r + HookOffset

NodeAddrs == {NodeOf(r) : r \in Recs}

Buckets == 0..(NB - 1)

BucketHdr(b) == BucketBase + b * BucketSize

HdrAddrs == {BucketHdr(b) : b \in Buckets}

ASSUME RecsAssumption == Recs \subseteq Nat \ {0}
ASSUME HookOffsetAssumption == HookOffset \in Nat
ASSUME NBAssumption == NB \in Nat
ASSUME BucketAssumption ==
  /\ BucketBase \in Nat \ {0} /\ BucketSize \in Nat \ {0}
  /\ HdrAddrs \cap NodeAddrs = {}
ASSUME MaxLenAssumption == MaxLen \in Nat

(***************************************************************************)
(* Building the bucket arrays.                                             *)
(***************************************************************************)
Orders == {s \in UNION {[1..n -> Recs] : n \in 0..MaxLen} : IsInjective(s)}

\* The records of bucket b, in the order of its list.
BucketList(s, h, b) == SelectSeq(s, LAMBDA r : h[r] = b)

\* The logical content: bucket 0's list, then bucket 1's, and so on.
Content(s, h) == FlattenSeq([k \in 1..NB |-> BucketList(s, h, k - 1)])

NextPtrs(s, h) ==
  [a \in HdrAddrs \cup NodeAddrs |->
     IF a \in HdrAddrs
       THEN LET b == CHOOSE b \in Buckets : BucketHdr(b) = a
                l == BucketList(s, h, b)
            IN  IF l = <<>> THEN a ELSE NodeOf(l[1])
     ELSE IF a - HookOffset \notin ToSet(s) THEN Null
     ELSE LET l == BucketList(s, h, h[a - HookOffset])
              k == CHOOSE k \in 1..Len(l) : NodeOf(l[k]) = a
          IN  IF k = Len(l) THEN BucketHdr(h[a - HookOffset]) ELSE NodeOf(l[k + 1])]

VARIABLES order,    \* insertion order (ghost)
          bucketOf, \* the hash of every record (ghost)
          next,     \* next_ of every bucket header and every hook
          pc,       \* "bucket": the for loop; "walk": the while loop; "done"
          bk,       \* the for loop's `i'
          node,     \* the while loop's `node'
          out       \* what iter_values has yielded

vars == <<order, bucketOf, next, pc, bk, node, out>>

(***************************************************************************)
(* Variants of the walker with plausible bugs, each defined before the     *)
(* definition it would replace.                                            *)
(***************************************************************************)
\* node_to_value casting the node without subtracting the hook offset.
NodeToValueIgnoresHook(node_) == node_

\* The bucket loop written as a while loop whose index is never
\* incremented: the walk re-enters the same bucket.
StepBreakSameBucket ==
  /\ pc = "walk" /\ next[node] = BucketHdr(bk)
  /\ node' = next[node]
  /\ pc' = "bucket"
  /\ UNCHANGED <<order, bucketOf, next, bk, out>>

\* range(n_buckets - 1): the last bucket is never walked.
LoopDoneEarly ==
  /\ pc = "bucket" /\ bk >= NB - 1
  /\ pc' = "done"
  /\ UNCHANGED <<order, bucketOf, next, bk, node, out>>

(***************************************************************************)
(* node_to_value as the printer calls it, with no member_hook: the node    *)
(* pointer is cast to a pointer to the value type.  The hook is a base     *)
(* class of the value, so gdb's pointer cast is a downcast and subtracts   *)
(* the byte offset of that base sub-object.  The member_hook branch,      *)
(* which scales the offset by the node size, has no caller here.           *)
(***************************************************************************)
NodeToValue(node_) == node_ - HookOffset

Init ==
  \E s \in Orders, h \in [Recs -> Buckets] :
    /\ order = s /\ bucketOf = h
    /\ next = NextPtrs(s, h)
    /\ pc = "bucket" /\ bk = 0 /\ node = Null /\ out = <<>>

\* for i in range(n_buckets): ... root = ...['header_holder_']; node = root
EnterBucket ==
  /\ pc = "bucket" /\ bk < NB
  /\ node' = BucketHdr(bk)
  /\ pc' = "walk"
  /\ UNCHANGED <<order, bucketOf, next, bk, out>>

\* node = node['next_']; not the root: yield node (through iter_values)
StepYield ==
  /\ pc = "walk" /\ next[node] # BucketHdr(bk)
  /\ node' = next[node]
  /\ out' = Append(out, NodeToValue(next[node]))
  /\ UNCHANGED <<order, bucketOf, next, pc, bk>>

\* node = node['next_']; back at the root: break, to the next bucket
StepBreak ==
  /\ pc = "walk" /\ next[node] = BucketHdr(bk)
  /\ node' = next[node]
  /\ pc' = "bucket" /\ bk' = bk + 1
  /\ UNCHANGED <<order, bucketOf, next, out>>

\* the for loop is exhausted: the generator returns
LoopDone ==
  /\ pc = "bucket" /\ bk >= NB
  /\ pc' = "done"
  /\ UNCHANGED <<order, bucketOf, next, bk, node, out>>

Next == EnterBucket \/ StepYield \/ StepBreak \/ LoopDone

Spec == Init /\ [][Next]_vars /\ WF_vars(Next)

-----------------------------------------------------------------------------
(***************************************************************************)
(* Properties.                                                             *)
(***************************************************************************)
TypeOK == /\ order \in Orders
          /\ bucketOf \in [Recs -> Buckets]
          /\ next \in [HdrAddrs \cup NodeAddrs -> HdrAddrs \cup NodeAddrs \cup {Null}]
          /\ pc \in {"bucket", "walk", "done"}
          /\ bk \in 0..NB
          /\ node \in HdrAddrs \cup NodeAddrs \cup {Null}
          /\ out \in Seq(Recs)

(***************************************************************************)
(* Completeness (spec.md section 8): when the generator returns it has     *)
(* yielded every record of the set exactly once, bucket by bucket, so an   *)
(* empty bucket contributes nothing and no bucket's last node carries the  *)
(* walk into the next bucket.                                              *)
(***************************************************************************)
CompleteAtEnd ==
  pc = "done" => /\ out = Content(order, bucketOf)
                 /\ IsInjective(out) /\ ToSet(out) = ToSet(order)

(***************************************************************************)
(* Every walk of a well-formed bucket array returns.                       *)
(***************************************************************************)
WalkTerminates == <>(pc = "done")

\* Refinement: the walker is an iterator over the buckets' concatenation.
Iter == INSTANCE ContainerIter WITH Elem <- Recs, content <- Content(order, bucketOf)

IterRefines == Iter!Spec

=============================================================================
