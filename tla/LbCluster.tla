----------------------------- MODULE LbCluster ------------------------------
(***************************************************************************)
(* lb_listener_get_any_cluster, lb_goto_get_any_cluster and                *)
(* lb_branch_get_any_cluster of src/tools/bp_gdb.py (the beng-lb section):  *)
(* from a listener's destination LbGoto, the first cluster along the       *)
(* chain of branch fallbacks.                                              *)
(*                                                                         *)
(* The configuration is a snapshot: every LbGoto's `cluster' (a cluster or *)
(* null) and `branch' (null, or a branch whose `fallback' is again an      *)
(* LbGoto, kept as that goto).  The mutual recursion is a loop over the    *)
(* goto being looked at, `cur', with the depth of the Python call stack:   *)
(* each branch costs two frames (lb_branch_..., lb_goto_...), and a call   *)
(* past Python's recursion limit raises RecursionError.                    *)
(***************************************************************************)
EXTENDS Naturals, FiniteSets

CONSTANTS Gotos,          \* the LbGoto objects of the configuration
          Clusters,       \* the LbCluster objects
          Null,           \* a null pointer (Python's None for the result)
          RecursionLimit  \* sys.getrecursionlimit()

ASSUME GotoAssumption == IsFiniteSet(Gotos) /\ Gotos # {} /\ Null \notin Gotos \cup Clusters
ASSUME LimitAssumption == RecursionLimit \in Nat /\ RecursionLimit > 2 * Cardinality(Gotos)

VARIABLES dest,      \* l['destination'] of the listener
          cluster,   \* g['cluster'] of every goto
          fallback,  \* g['branch']['fallback'] of every goto, Null without a branch
          cur,       \* the goto the innermost lb_goto_get_any_cluster call is given
          depth,     \* Python frames of the recursion
          status,    \* "call", "returned" or "error" (RecursionError)
          result     \* what lb_listener_get_any_cluster returned

vars == <<dest, cluster, fallback, cur, depth, status, result>>

(***************************************************************************)
(* Variants of the code with plausible bugs, each defined before the       *)
(* definition it would replace.                                            *)
(***************************************************************************)
\* The branch tested before the cluster: a goto with both follows its branch.
GotoBranchFirst ==
  /\ status = "call"
  /\ \/ /\ fallback[cur] # Null
        /\ IF depth + 2 > RecursionLimit
             THEN status' = "error" /\ UNCHANGED <<cur, depth, result>>
             ELSE cur' = fallback[cur] /\ depth' = depth + 2 /\ UNCHANGED <<status, result>>
     \/ /\ fallback[cur] = Null /\ cluster[cur] # Null
        /\ result' = cluster[cur] /\ status' = "returned" /\ UNCHANGED <<cur, depth>>
     \/ /\ fallback[cur] = Null /\ cluster[cur] = Null
        /\ result' = Null /\ status' = "returned" /\ UNCHANGED <<cur, depth>>
  /\ UNCHANGED <<dest, cluster, fallback>>

\* `return g' for `return g['cluster']': the goto itself is answered.
GotoReturnsGoto ==
  /\ status = "call"
  /\ \/ /\ cluster[cur] # Null
        /\ result' = cur /\ status' = "returned" /\ UNCHANGED <<cur, depth>>
     \/ /\ cluster[cur] = Null /\ fallback[cur] # Null
        /\ IF depth + 2 > RecursionLimit
             THEN status' = "error" /\ UNCHANGED <<cur, depth, result>>
             ELSE cur' = fallback[cur] /\ depth' = depth + 2 /\ UNCHANGED <<status, result>>
     \/ /\ cluster[cur] = Null /\ fallback[cur] = Null
        /\ result' = Null /\ status' = "returned" /\ UNCHANGED <<cur, depth>>
  /\ UNCHANGED <<dest, cluster, fallback>>

\* lb_listener_get_any_cluster(l): l['destination'] handed to the first call.
Init ==
  /\ cluster \in [Gotos -> Clusters \cup {Null}]
  /\ fallback \in [Gotos -> Gotos \cup {Null}]
  /\ dest \in Gotos /\ cur = dest
  /\ depth = 1 /\ status = "call" /\ result = Null

(***************************************************************************)
(* One call of lb_goto_get_any_cluster(g):                                 *)
(*   if g['cluster']: return g['cluster']                                  *)
(*   elif g['branch']: return lb_branch_get_any_cluster(g['branch'])       *)
(*   else: return None                                                     *)
(* with lb_branch_get_any_cluster(b) = lb_goto_get_any_cluster(b['fallback']).*)
(***************************************************************************)
GotoCall ==
  /\ status = "call"
  /\ \/ /\ cluster[cur] # Null
        /\ result' = cluster[cur] /\ status' = "returned" /\ UNCHANGED <<cur, depth>>
     \/ /\ cluster[cur] = Null /\ fallback[cur] # Null
        /\ IF depth + 2 > RecursionLimit
             THEN status' = "error" /\ UNCHANGED <<cur, depth, result>>
             ELSE cur' = fallback[cur] /\ depth' = depth + 2 /\ UNCHANGED <<status, result>>
     \/ /\ cluster[cur] = Null /\ fallback[cur] = Null
        /\ result' = Null /\ status' = "returned" /\ UNCHANGED <<cur, depth>>
  /\ UNCHANGED <<dest, cluster, fallback>>

Next == GotoCall

Spec == Init /\ [][Next]_vars /\ WF_vars(Next)

-----------------------------------------------------------------------------
(***************************************************************************)
(* Properties.                                                             *)
(***************************************************************************)
TypeOK == /\ dest \in Gotos
          /\ cluster \in [Gotos -> Clusters \cup {Null}]
          /\ fallback \in [Gotos -> Gotos \cup {Null}]
          /\ cur \in Gotos /\ depth \in Nat
          /\ status \in {"call", "returned", "error"}
          /\ result \in Clusters \cup {Null}

\* Reference: the fallback paths of k steps from g -- g, then each time the
\* goto its predecessor's branch falls back to (none once a goto has no
\* branch).
Paths(g, k) ==
  {p \in [0..k -> Gotos] : p[0] = g /\ \A m \in 1..k : p[m] = fallback[p[m - 1]]}

\* A goto that ends the recursion: it has a cluster, or no branch.
Stopping(x) == cluster[x] # Null \/ fallback[x] = Null

\* The k-th goto of the chain from g ends the recursion.
StopAt(g, k) == \E p \in Paths(g, k) : Stopping(p[k])

\* The recursion on g ends within |Gotos| calls.
Stops(g) == \E k \in 0..Cardinality(Gotos) : StopAt(g, k)

\* The first cluster along the chain, Null if the chain ends without one.
AnyCluster(g) ==
  LET k == CHOOSE k \in 0..Cardinality(Gotos) :
             StopAt(g, k) /\ \A j \in 0..(k - 1) : ~StopAt(g, j)
      p == CHOOSE p \in Paths(g, k) : Stopping(p[k])
  IN  cluster[p[k]]

(***************************************************************************)
(* lb_listener_get_any_cluster answers the first cluster along the         *)
(* destination's fallback chain (None when the chain ends without one),    *)
(* and it raises RecursionError exactly when the fallbacks loop without    *)
(* reaching a cluster: a configuration with a fallback cycle makes the     *)
(* command fail, one without never does.                                   *)
(***************************************************************************)
AnyClusterExact ==
  /\ status = "returned" => Stops(dest) /\ result = AnyCluster(dest)
  /\ status = "error" => ~Stops(dest)

=============================================================================
