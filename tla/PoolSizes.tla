----------------------------- MODULE PoolSizes ------------------------------
(***************************************************************************)
(* pool_sizes and pool_recursive_sizes of src/tools/bp_gdb.py, as          *)
(* bp_dump_pool_stats calls them on a `struct pool *'.                     *)
(*                                                                         *)
(* pool_recursive_sizes recurses over the children lists; its Python call  *)
(* stack is the variable `stack', one frame per active call, with the      *)
(* frame's locals: the pool, where pool_sizes' area loop is (`st' = "area" *)
(* and the next area `ai') or how far the children loop is (`st' = "kids" *)
(* and `pos' children done), and the running sums `b' (brutto_size) and    *)
(* `n' (netto_size).  When the outermost call returns, its pair is         *)
(* `result'.                                                               *)
(***************************************************************************)
EXTENDS PoolSnapshot

VARIABLES par,      \* the pool tree (ghost: what the lists encode)
          children, \* pool['children'] of every pool, as its list walk yields it
          ptype,    \* pool['type'] of every pool
          netto,    \* pool['netto_size'] of every pool
          areas,    \* the sizes along current_area.linear -> prev
          stack,    \* the frames of pool_recursive_sizes, innermost last
          result    \* what the outermost call returned, or <<>>

vars == <<par, children, ptype, netto, areas, stack, result>>

\* pool_sizes computing brutto_size = netto_size for every pool type.
FrameOfIgnoresType(p) ==
  [pool |-> p, st |-> "kids", ai |-> 1, pos |-> 0, b |-> netto[p], n |-> netto[p]]

\* The frame of a call on p as pool_sizes leaves it before its area loop.
FrameOf(p) ==
  [pool |-> p, st |-> IF ptype[p] = LinearType THEN "area" ELSE "kids",
   ai |-> 1, pos |-> 0,
   b |-> IF ptype[p] = LinearType THEN 0 ELSE netto[p], n |-> netto[p]]

Top == stack[Len(stack)]

(***************************************************************************)
(* Variants of the code with plausible bugs, each defined before the       *)
(* definition it would replace.                                            *)
(***************************************************************************)
\* pool_sizes' area loop stopping after the current area (`if' for `while').
AreaDoneAfterCurrent ==
  /\ stack # <<>> /\ Top.st = "area" /\ Top.ai > Min({1, Len(areas[Top.pool])})
  /\ stack' = [stack EXCEPT ![Len(stack)].st = "kids"]
  /\ UNCHANGED <<par, children, ptype, netto, areas, result>>

\* `while area is not None': a null gdb.Value is not None, so the loop
\* never sees the end of the chain (gdb then fails reading address 0).
AreaDoneNeverNull ==
  /\ stack # <<>> /\ Top.st = "area" /\ Top.ai > Len(areas[Top.pool]) + 1
  /\ stack' = [stack EXCEPT ![Len(stack)].st = "kids"]
  /\ UNCHANGED <<par, children, ptype, netto, areas, result>>

\* The recursive call made on `pool' instead of `child': the recursion
\* never ends (Python's RecursionError).
PushChildSelf ==
  /\ stack # <<>> /\ Top.st = "kids" /\ Top.pos < Len(children[Top.pool])
  /\ stack' = Append([stack EXCEPT ![Len(stack)].pos = @ + 1], FrameOf(Top.pool))
  /\ UNCHANGED <<par, children, ptype, netto, areas, result>>

\* The child's pair added the wrong way round.
ReturnSwapped ==
  /\ stack # <<>> /\ Top.st = "kids" /\ Top.pos = Len(children[Top.pool])
  /\ IF Len(stack) = 1
       THEN /\ result' = <<Top.b, Top.n>> /\ stack' = <<>>
       ELSE LET k == Len(stack) - 1
            IN  /\ stack' = [SubSeq(stack, 1, k) EXCEPT
                               ![k].b = @ + stack[k + 1].n, ![k].n = @ + stack[k + 1].b]
                /\ UNCHANGED result
  /\ UNCHANGED <<par, children, ptype, netto, areas>>

Init ==
  /\ par \in Trees
  /\ children = [p \in Pools |-> Children(par, p)]
  /\ ptype \in [Pools -> PoolTypes]
  /\ netto \in [Pools -> NettoSizes]
  /\ areas \in [Pools -> AreaChains]
  /\ \A p \in Pools : ptype[p] # LinearType => areas[p] = <<>>
  /\ stack = <<FrameOf(Root)>>
  /\ result = <<>>

\* while area: brutto_size += int(area['size']); area = area['prev']
AreaStep ==
  /\ stack # <<>> /\ Top.st = "area" /\ Top.ai <= Len(areas[Top.pool])
  /\ stack' = [stack EXCEPT ![Len(stack)].b = @ + areas[Top.pool][Top.ai],
                            ![Len(stack)].ai = @ + 1]
  /\ UNCHANGED <<par, children, ptype, netto, areas, result>>

\* the area chain ends at a null `prev': pool_sizes returns
AreaDone ==
  /\ stack # <<>> /\ Top.st = "area" /\ Top.ai > Len(areas[Top.pool])
  /\ stack' = [stack EXCEPT ![Len(stack)].st = "kids"]
  /\ UNCHANGED <<par, children, ptype, netto, areas, result>>

\* for child in ...: pool_recursive_sizes(child) -- the call
PushChild ==
  /\ stack # <<>> /\ Top.st = "kids" /\ Top.pos < Len(children[Top.pool])
  /\ stack' = Append([stack EXCEPT ![Len(stack)].pos = @ + 1],
                     FrameOf(children[Top.pool][Top.pos + 1]))
  /\ UNCHANGED <<par, children, ptype, netto, areas, result>>

\* the children loop ends: return (brutto, netto) and add it to the caller's
Return ==
  /\ stack # <<>> /\ Top.st = "kids" /\ Top.pos = Len(children[Top.pool])
  /\ IF Len(stack) = 1
       THEN /\ result' = <<Top.b, Top.n>> /\ stack' = <<>>
       ELSE LET k == Len(stack) - 1
            IN  /\ stack' = [SubSeq(stack, 1, k) EXCEPT
                               ![k].b = @ + stack[k + 1].b, ![k].n = @ + stack[k + 1].n]
                /\ UNCHANGED result
  /\ UNCHANGED <<par, children, ptype, netto, areas>>

Next == AreaStep \/ AreaDone \/ PushChild \/ Return

Spec == Init /\ [][Next]_vars /\ WF_vars(Next)

-----------------------------------------------------------------------------
(***************************************************************************)
(* Properties.                                                             *)
(***************************************************************************)
Frame == [pool : Pools, st : {"area", "kids"}, ai : 1..(MaxAreas + 1),
          pos : 0..Cardinality(Pools), b : Nat, n : Nat]

TypeOK == /\ par \in Trees
          /\ children \in [Pools -> Seq(Pools)]
          /\ ptype \in [Pools -> PoolTypes]
          /\ netto \in [Pools -> NettoSizes]
          /\ areas \in [Pools -> AreaChains]
          /\ stack \in Seq(Frame) /\ Len(stack) <= Cardinality(Pools)
          /\ result \in {<<>>} \cup (Nat \X Nat)

\* Reference: a pool's own gross size, and the sums over a subtree.
OwnBrutto(p) == IF ptype[p] = LinearType THEN FoldLeft(+, 0, areas[p]) ELSE netto[p]

TreeBrutto(q) == MapThenSumSet(OwnBrutto, Subtree(par, q))
TreeNetto(q) == MapThenSumSet(LAMBDA p : netto[p], Subtree(par, q))

(***************************************************************************)
(* Recursive sizes are exact (bp_dump_pool_stats' "recursive_size"): when  *)
(* pool_recursive_sizes returns, its gross size is the sum over the pool   *)
(* and every descendant of the linear areas' sizes (of netto_size for a    *)
(* pool of another type), and its net size the sum of their netto_size:    *)
(* every pool of the tree counted once, its areas walked to the end.       *)
(***************************************************************************)
SizesExact == result # <<>> => result = <<TreeBrutto(Root), TreeNetto(Root)>>

(***************************************************************************)
(* The call stack is a path down the tree and every frame's sums account   *)
(* for exactly what it has seen: its own areas so far and the whole        *)
(* subtrees of the children already returned.                              *)
(***************************************************************************)
FramesAccount ==
  \A k \in 1..Len(stack) :
    LET f == stack[k]
        kids == children[f.pool]
        done == IF k < Len(stack) THEN f.pos - 1 ELSE f.pos
        own == IF f.st = "area"
                 THEN FoldLeft(+, 0, SubSeq(areas[f.pool], 1, f.ai - 1))
                 ELSE OwnBrutto(f.pool)
    IN  /\ f.pool = IF k = 1 THEN Root ELSE children[stack[k - 1].pool][stack[k - 1].pos]
        /\ f.b = own + MapThenSumSet(LAMBDA i : TreeBrutto(kids[i]), 1..done)
        /\ f.n = netto[f.pool] + MapThenSumSet(LAMBDA i : TreeNetto(kids[i]), 1..done)

(***************************************************************************)
(* pool_recursive_sizes returns on every tree.                             *)
(***************************************************************************)
SizesTerminate == <>(result # <<>>)

=============================================================================
