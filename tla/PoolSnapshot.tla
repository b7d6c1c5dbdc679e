---------------------------- MODULE PoolSnapshot ----------------------------
(***************************************************************************)
(* The part of a paused beng-proxy's memory that the pool commands of      *)
(* src/tools/bp_gdb.py read: the tree of `struct pool' (each pool's        *)
(* `children' list), each pool's `type', `netto_size' and, for a linear    *)
(* pool (type 2), the chain of linear areas from `current_area.linear'     *)
(* back along `prev', with each area's `size'.                             *)
(*                                                                         *)
(* A snapshot is given by a parent function over the non-root pools (a     *)
(* tree: every pool reaches Root); a pool's children list holds its        *)
(* children in ascending order (the walkers' results do not depend on the *)
(* order, and the list walker itself is IntrusiveList).                   *)
(***************************************************************************)
EXTENDS Integers, Sequences, SequencesExt

CONSTANTS Pools,        \* addresses of the pools
          Root,         \* the pool the command is given
          LinearType,   \* the `type' value of a linear pool: 2
          OtherTypes,   \* the other pool types
          NettoSizes,   \* values netto_size may hold
          AreaSizes,    \* values an area's size may hold
          MaxAreas      \* the longest area chain Init builds

ASSUME PoolsAssumption == Root \in Pools
ASSUME TypeAssumption == LinearType \notin OtherTypes
ASSUME SizeAssumption ==
  /\ NettoSizes \subseteq Nat /\ AreaSizes \subseteq Nat /\ MaxAreas \in Nat

PoolTypes == {LinearType} \cup OtherTypes

\* Parent functions that make a tree rooted at Root.
Up(par, p, k) == LET up[j \in 0..k] == IF j = 0 THEN p
                                      ELSE IF up[j - 1] = Root THEN Root
                                      ELSE par[up[j - 1]]
                 IN  up[k]

Trees == {par \in [Pools \ {Root} -> Pools] :
            \A p \in Pools \ {Root} : Up(par, p, Cardinality(Pools)) = Root}

\* pool['children'] as the sequence for_each_intrusive_list_item yields.
Children(par, p) == SetToSortSeq({c \in DOMAIN par : par[c] = p}, <)

\* The pools the recursive walks visit from q: q and all its descendants.
Subtree(par, q) == {p \in Pools : \E k \in 0..Cardinality(Pools) : Up(par, p, k) = q}

AreaChains == UNION {[1..n -> AreaSizes] : n \in 0..MaxAreas}

=============================================================================
