----------------------------- MODULE PoolWalk -------------------------------
(***************************************************************************)
(* for_each_recursive_pool of src/tools/bp_gdb.py as bp_find_pool drives   *)
(* it (bp_pool_tree drives it the same way and prints every pool).         *)
(*                                                                         *)
(* The nested generators are the variable `stack': one frame per active   *)
(* generator, with its pool and how many of its children it has handed to *)
(* an inner generator (`pos').  `out' is what the outermost generator has  *)
(* yielded, `found' what bp_find_pool printed, `err' whether its loop      *)
(* body raised.  The outermost generator yields the pool bp_find_pool      *)
(* evaluated, a `struct pool *'; every inner one yields what               *)
(* for_each_intrusive_list_item yields, a `struct pool' value.  The loop   *)
(* body, print(x, x.dereference()), therefore prints a matching root and   *)
(* raises a gdb.error on the first matching descendant, which ends the     *)
(* command.                                                                *)
(***************************************************************************)
EXTENDS PoolSnapshot

CONSTANTS Names,        \* the names pools may have
          Name          \* bp_find_pool's second argument

ASSUME NameAssumption == Name \in Names

VARIABLES par,      \* the pool tree (ghost: what the lists encode)
          children, \* pool['children'] of every pool, as its list walk yields it
          name,     \* pool['name'] of every pool
          stack,    \* the active generators, innermost last
          out,      \* the pools yielded so far
          found,    \* the pools bp_find_pool printed
          err       \* bp_find_pool's loop body raised

vars == <<par, children, name, stack, out, found, err>>

\* bp_find_pool's test on a yielded pool x: x['name'].string() == name.
Matches(x) == name[x] = Name

(***************************************************************************)
(* Variants of the code with plausible bugs, each defined before the       *)
(* definition it would replace.                                            *)
(***************************************************************************)
\* The recursion yielding the children lists only (bp_pool_children's
\* loop): grandchildren are never reached.
DescendOneLevel ==
  /\ ~err
  /\ stack # <<>> /\ stack[Len(stack)].pos < Len(children[stack[Len(stack)].pool])
  /\ Len(stack) = 1
  /\ LET c == children[stack[1].pool][stack[1].pos + 1]
     IN  /\ stack' = <<[stack[1] EXCEPT !.pos = @ + 1]>>
         /\ out' = Append(out, c)
         /\ err' = Matches(c)
  /\ UNCHANGED <<par, children, name, found>>

\* The recursive call made on `pool' instead of `child': the recursion
\* never ends (Python's RecursionError).
DescendSelf ==
  /\ ~err
  /\ stack # <<>> /\ stack[Len(stack)].pos < Len(children[stack[Len(stack)].pool])
  /\ LET t == Len(stack)
         c == stack[t].pool
     IN  /\ stack' = Append([stack EXCEPT ![t].pos = @ + 1], [pool |-> c, pos |-> 0])
         /\ out' = Append(out, c)
         /\ err' = Matches(c)
  /\ UNCHANGED <<par, children, name, found>>

\* The generator without its first `yield pool': the pool it is given is
\* never yielded, only its descendants.
StartNoYield ==
  /\ stack = <<>> /\ out = <<>>
  /\ stack' = <<[pool |-> Root, pos |-> 0]>>
  /\ UNCHANGED <<par, children, name, out, found, err>>

\* An exhausted children loop starting over (its iterator re-created)
\* instead of returning.
FinishRestarts ==
  /\ ~err
  /\ stack # <<>> /\ stack[Len(stack)].pos = Len(children[stack[Len(stack)].pool])
  /\ stack' = [stack EXCEPT ![Len(stack)].pos = 0]
  /\ UNCHANGED <<par, children, name, out, found, err>>

\* bp_find_pool: pool = gdb.parse_and_eval(arg_list[0]), nothing walked yet.
Init ==
  /\ par \in Trees
  /\ children = [p \in Pools |-> Children(par, p)]
  /\ name \in [Pools -> Names]
  /\ stack = <<>> /\ out = <<>> /\ found = <<>> /\ err = FALSE

\* for x in for_each_recursive_pool(pool): the outermost generator starts,
\* yields its pool, and bp_find_pool prints it if it matches: it is a
\* pointer, which x.dereference() accepts.
Start ==
  /\ stack = <<>> /\ out = <<>>
  /\ stack' = <<[pool |-> Root, pos |-> 0]>>
  /\ out' = <<Root>> /\ found' = IF Matches(Root) THEN <<Root>> ELSE <<>>
  /\ UNCHANGED <<par, children, name, err>>

(***************************************************************************)
(* for child in ...children: for x in for_each_recursive_pool(child):      *)
(* the inner generator starts and yields its child, a struct value; if it *)
(* matches, bp_find_pool's x.dereference() raises and the command ends.    *)
(***************************************************************************)
Descend ==
  /\ ~err
  /\ stack # <<>> /\ stack[Len(stack)].pos < Len(children[stack[Len(stack)].pool])
  /\ LET t == Len(stack)
         c == children[stack[t].pool][stack[t].pos + 1]
     IN  /\ stack' = Append([stack EXCEPT ![t].pos = @ + 1], [pool |-> c, pos |-> 0])
         /\ out' = Append(out, c)
         /\ err' = Matches(c)
  /\ UNCHANGED <<par, children, name, found>>

\* the children loop of the innermost generator is exhausted: it returns
Finish ==
  /\ ~err
  /\ stack # <<>> /\ stack[Len(stack)].pos = Len(children[stack[Len(stack)].pool])
  /\ stack' = SubSeq(stack, 1, Len(stack) - 1)
  /\ UNCHANGED <<par, children, name, out, found, err>>

Next == Start \/ Descend \/ Finish

Spec == Init /\ [][Next]_vars /\ WF_vars(Next)

\* The outermost generator has returned.
Returned == stack = <<>> /\ out # <<>>

\* bp_find_pool has stopped: the walk returned or its loop body raised.
Stopped == Returned \/ err

-----------------------------------------------------------------------------
(***************************************************************************)
(* Properties.                                                             *)
(***************************************************************************)
TypeOK == /\ par \in Trees
          /\ children \in [Pools -> Seq(Pools)]
          /\ name \in [Pools -> Names]
          /\ stack \in Seq([pool : Pools, pos : 0..Cardinality(Pools)])
          /\ Len(stack) <= Cardinality(Pools)
          /\ out \in Seq(Pools) /\ found \in Seq(Pools)
          /\ err \in BOOLEAN

\* Reference: the pre-order of the subtree of p, children in list order.
RECURSIVE PreOrder(_, _)
PreOrder(ch, p) ==
  <<p>> \o FlattenSeq([i \in 1..Len(ch[p]) |-> PreOrder(ch, ch[p][i])])

(***************************************************************************)
(* The walk is a pre-order iterator (bp_pool_tree's output): it yields the *)
(* pools of the tree in pre-order, each exactly once, every pool after its *)
(* parent.  Shown as a refinement of ContainerIter.                        *)
(***************************************************************************)
Iter == INSTANCE ContainerIter WITH Elem <- Pools, content <- PreOrder(children, Root)

IterRefines == Iter!Spec

\* The pre-order of the tree, cut after its first descendant named Name.
PreOrderToMatch ==
  LET po == PreOrder(children, Root)
      hits == {i \in 2..Len(po) : Matches(po[i])}
  IN  IF hits = {} THEN po ELSE SubSeq(po, 1, Min(hits))

(***************************************************************************)
(* What bp_find_pool really does: when it stops it has printed the root    *)
(* pool if, and only if, that is named Name, and nothing else; it has      *)
(* walked the tree in pre-order up to the first descendant named Name, and *)
(* it raised exactly when there was one.                                   *)
(***************************************************************************)
FindExact ==
  Stopped => /\ found = (IF Matches(Root) THEN <<Root>> ELSE <<>>)
             /\ out = PreOrderToMatch
             /\ err = (\E p \in Subtree(par, Root) \ {Root} : Matches(p))

(***************************************************************************)
(* spec.md 4.6 and bp_find_pool's purpose: once it stops, it has printed   *)
(* every pool of the tree named Name.                                      *)
(***************************************************************************)
FindsAll ==
  Stopped => ToSet(found) = {p \in Subtree(par, Root) : Matches(p)}

\* The walk stops on every tree: it returns or bp_find_pool raises.
WalkTerminates == <>Stopped

=============================================================================
