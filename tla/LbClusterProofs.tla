--------------------------- MODULE LbClusterProofs ---------------------------
(***************************************************************************)
(* Proofs about lb_listener_get_any_cluster (LbCluster), for every set of  *)
(* gotos and clusters, every configuration of their clusters and branch    *)
(* fallbacks, and every recursion limit above twice the number of gotos.   *)
(*                                                                         *)
(* AnyClusterExact speaks of the end of the recursion only.  ClusterInv    *)
(* says where the recursion stands: the goto `cur' the innermost call is   *)
(* given is reached from the destination by a fallback path of m steps,    *)
(* the Python stack is 2m+1 frames deep, and no goto before cur on that    *)
(* path ends the recursion.  The rest is about paths: two paths from the   *)
(* same goto agree where both are defined (PathsPrefix), a path that comes *)
(* back to a goto repeats itself (PathsShift), and so the first goto that  *)
(* ends the recursion lies within |Gotos| - 1 steps (FirstStopBound, by    *)
(* the pigeonhole principle).                                              *)
(***************************************************************************)
EXTENDS LbCluster, FiniteSetTheorems, WellFoundedInduction, TLAPS

\* The innermost call stands at the end of path p of m steps, 2m+1 frames
\* deep, and no goto it passed ends the recursion.
OnPath(m, p) ==
  /\ p[m] = cur /\ depth = 2 * m + 1
  /\ \A i \in 0..(m - 1) : ~Stopping(p[i])

ClusterInv ==
  /\ TypeOK
  /\ \E m \in 0..depth : \E p \in Paths(dest, m) : OnPath(m, p)
  /\ status = "returned" => Stopping(cur) /\ result = cluster[cur]
  /\ status = "error" => ~Stopping(cur) /\ depth + 2 > RecursionLimit

-----------------------------------------------------------------------------
(***************************************************************************)
(* Lemmas about natural numbers and fallback paths.                        *)
(***************************************************************************)
\* A non-empty set of naturals has a least element.
LEMMA NatMin ==
  ASSUME NEW T, T \subseteq Nat, T # {}
  PROVE  \E x \in T : \A y \in T : ~(y < x)
<1>1. \E x \in T : \A y \in T : ~(<<y, x>> \in OpToRel(<, Nat))
  BY NatLessThanWellFounded, WFMin, Zenon
<1>. QED  BY <1>1 DEF OpToRel

\* The number of gotos is a natural number.
LEMMA GotosCard == Cardinality(Gotos) \in Nat
BY GotoAssumption, FS_CardinalityType

\* A path's steps follow the fallbacks, and it stays on gotos.
LEMMA PathFacts ==
  ASSUME NEW g, NEW m \in Nat, NEW p \in Paths(g, m)
  PROVE  /\ p \in [0..m -> Gotos] /\ p[0] = g
         /\ \A i \in 1..m : p[i] = fallback[p[i - 1]]
BY DEF Paths

(***************************************************************************)
(* Two fallback paths from the same goto agree on every step both take.   *)
(***************************************************************************)
LEMMA PathsPrefix ==
  ASSUME NEW g, NEW m \in Nat, NEW k \in 0..m,
         NEW p \in Paths(g, m), NEW q \in Paths(g, k)
  PROVE  \A i \in 0..k : q[i] = p[i]
<1>. SUFFICES ASSUME \E i \in 0..k : q[i] # p[i] PROVE FALSE
  OBVIOUS
<1>0. {i \in 0..k : q[i] # p[i]} \subseteq Nat /\ {i \in 0..k : q[i] # p[i]} # {}
  OBVIOUS
<1>1. PICK d \in {i \in 0..k : q[i] # p[i]} :
        \A y \in {i \in 0..k : q[i] # p[i]} : ~(y < d)
  BY <1>0, NatMin, Zenon
<1>2. d # 0
  BY <1>1, PathFacts
<1>3. q[d - 1] = p[d - 1]
  BY <1>1, <1>2
<1>4. q[d] = fallback[q[d - 1]] /\ p[d] = fallback[p[d - 1]]
  BY <1>1, <1>2, PathFacts
<1>. QED  BY <1>1, <1>3, <1>4

(***************************************************************************)
(* A path that visits a goto twice repeats itself: from the first visit    *)
(* it takes the same steps as from the second.                             *)
(***************************************************************************)
LEMMA PathsShift ==
  ASSUME NEW g, NEW m \in Nat, NEW p \in Paths(g, m),
         NEW i \in 0..m, NEW j \in 0..m, i < j, p[i] = p[j]
  PROVE  p[i + (m - j)] = p[m]
<1>. SUFFICES ASSUME \E t \in 0..(m - j) : p[i + t] # p[j + t] PROVE FALSE
  OBVIOUS
<1>0. /\ {t \in 0..(m - j) : p[i + t] # p[j + t]} \subseteq Nat
      /\ {t \in 0..(m - j) : p[i + t] # p[j + t]} # {}
  <2>1. {t \in 0..(m - j) : p[i + t] # p[j + t]} \subseteq Nat
    OBVIOUS
  <2>2. {t \in 0..(m - j) : p[i + t] # p[j + t]} # {}
    BY Zenon
  <2>. QED  BY <2>1, <2>2
<1>1. PICK d \in {t \in 0..(m - j) : p[i + t] # p[j + t]} :
        \A y \in {t \in 0..(m - j) : p[i + t] # p[j + t]} : ~(y < d)
  BY <1>0, NatMin, Zenon
<1>2. d # 0
  BY <1>1
<1>3. p[i + (d - 1)] = p[j + (d - 1)]
  BY <1>1, <1>2
<1>4. /\ i + d \in 1..m /\ j + d \in 1..m
      /\ i + d - 1 = i + (d - 1) /\ j + d - 1 = j + (d - 1)
  BY <1>1, <1>2
<1>5. p[i + d] = fallback[p[i + (d - 1)]] /\ p[j + d] = fallback[p[j + (d - 1)]]
  BY <1>4, PathFacts
<1>. QED  BY <1>1, <1>3, <1>5

(***************************************************************************)
(* Pigeonhole: the first goto on a path that ends the recursion is at most *)
(* |Gotos| - 1 steps away -- a longer path has visited some goto twice,    *)
(* and from then on it only repeats gotos that do not end the recursion.  *)
(***************************************************************************)
LEMMA FirstStopBound ==
  ASSUME NEW g, NEW m \in Nat, NEW p \in Paths(g, m), Stopping(p[m]),
         \A i \in 0..(m - 1) : ~Stopping(p[i])
  PROVE  m < Cardinality(Gotos)
<1>. SUFFICES ASSUME m >= Cardinality(Gotos) PROVE FALSE
  BY GotosCard
<1>1. IsFiniteSet(0..m) /\ Cardinality(0..m) = m + 1
  BY FS_Interval
<1>2. \E x, y \in 0..m : x # y /\ p[x] = p[y]
  <2>1. Cardinality(Gotos) < Cardinality(0..m)
    BY <1>1, GotosCard
  <2>2. p \in [0..m -> Gotos]
    BY PathFacts
  <2>. QED  BY <1>1, <2>1, <2>2, GotoAssumption, FS_PigeonHole, Zenon
<1>3. PICK x \in 0..m, y \in 0..m : x < y /\ p[x] = p[y]
  BY <1>2
<1>4. p[x + (m - y)] = p[m]
  BY <1>3, PathsShift
<1>5. x + (m - y) \in 0..(m - 1)
  BY <1>3
<1>. QED  BY <1>4, <1>5

\* A path followed by one more fallback is a path one step longer.
LEMMA PathsExtend ==
  ASSUME NEW g, NEW m \in Nat, NEW p \in Paths(g, m), fallback[p[m]] \in Gotos
  PROVE  [i \in 0..(m + 1) |-> IF i <= m THEN p[i] ELSE fallback[p[m]]] \in Paths(g, m + 1)
<1>. DEFINE q == [i \in 0..(m + 1) |-> IF i <= m THEN p[i] ELSE fallback[p[m]]]
<1>1. q \in [0..(m + 1) -> Gotos]
  BY PathFacts
<1>2. q[0] = g
  BY PathFacts
<1>3. \A i \in 1..(m + 1) : q[i] = fallback[q[i - 1]]
  BY PathFacts
<1>. QED  BY <1>1, <1>2, <1>3 DEF Paths


-----------------------------------------------------------------------------
(***************************************************************************)
(* ClusterInv is an inductive invariant.                                   *)
(***************************************************************************)
\* lb_listener_get_any_cluster starts on the destination, one frame deep.
LEMMA InitInv == Init => ClusterInv
<1>. SUFFICES ASSUME Init PROVE ClusterInv
  OBVIOUS
<1>1. TypeOK
  BY DEF Init, TypeOK
<1>2. [i \in 0..0 |-> dest] \in Paths(dest, 0)
  BY DEF Init, Paths
<1>3. OnPath(0, [i \in 0..0 |-> dest])
  BY DEF Init, OnPath
<1>4. 0 \in 0..depth
  BY DEF Init
<1>. QED  BY <1>1, <1>2, <1>3, <1>4, Zenon DEF ClusterInv, Init

(***************************************************************************)
(* One call of lb_goto_get_any_cluster keeps ClusterInv: a goto with a     *)
(* cluster or without a branch returns what it holds; a branch past the    *)
(* recursion limit raises on a goto that does not end the recursion; any   *)
(* other branch extends the path by its fallback and the stack by two      *)
(* frames.                                                                 *)
(***************************************************************************)
LEMMA NextInv == ClusterInv /\ [Next]_vars => ClusterInv'
<1>. SUFFICES ASSUME ClusterInv, [Next]_vars PROVE ClusterInv'
  OBVIOUS
<1>b. PICK m \in 0..depth : \E p \in Paths(dest, m) : OnPath(m, p)
  BY DEF ClusterInv
<1>0. PICK p \in Paths(dest, m) : OnPath(m, p)
  BY <1>b
<1>a. TypeOK
  BY DEF ClusterInv
<1>1. CASE UNCHANGED vars
  <2>1. TypeOK'
    BY <1>a, <1>1 DEF vars, TypeOK
  <2>2. m \in 0..depth' /\ p \in Paths(dest, m)' /\ OnPath(m, p)'
    BY <1>0, <1>1 DEF vars, Paths, OnPath, Stopping
  <2>3. /\ (status = "returned" => Stopping(cur) /\ result = cluster[cur])'
        /\ (status = "error" => ~Stopping(cur) /\ depth + 2 > RecursionLimit)'
    BY <1>1 DEF ClusterInv, vars, Stopping
  <2>. QED  BY <2>1, <2>2, <2>3, Zenon DEF ClusterInv
<1>2. CASE Next
  <2>0. /\ status = "call" /\ UNCHANGED <<dest, cluster, fallback>>
        /\ \A g, k : Paths(g, k)' = Paths(g, k)
        /\ \A x : Stopping(x)' = Stopping(x)
    BY <1>2 DEF Next, GotoCall, Paths, Stopping
  \* the goto holds a cluster, or has no branch: the call returns
  <2>1. CASE \/ cluster[cur] # Null
             \/ cluster[cur] = Null /\ fallback[cur] = Null
    <3>1. /\ result' = cluster[cur] /\ status' = "returned"
          /\ cur' = cur /\ depth' = depth
      BY <2>1, <1>2, <1>a DEF Next, GotoCall, TypeOK
    <3>2. TypeOK'
      BY <3>1, <2>0, <1>a DEF TypeOK
    <3>3. OnPath(m, p)' /\ m \in 0..depth'
      BY <3>1, <2>0, <1>0 DEF OnPath
    <3>4. Stopping(cur)'
      BY <2>1, <2>0, <3>1 DEF Stopping
    <3>. QED  BY <3>1, <3>2, <3>3, <3>4, <2>0, <1>0, Zenon DEF ClusterInv
  \* a branch past the recursion limit: RecursionError
  <2>2. CASE cluster[cur] = Null /\ fallback[cur] # Null /\ depth + 2 > RecursionLimit
    <3>1. /\ status' = "error" /\ cur' = cur /\ depth' = depth /\ result' = result
      BY <2>2, <1>2 DEF Next, GotoCall
    <3>2. TypeOK'
      BY <3>1, <2>0, <1>a DEF TypeOK
    <3>3. OnPath(m, p)' /\ m \in 0..depth'
      BY <3>1, <2>0, <1>0 DEF OnPath
    <3>4. ~Stopping(cur)'
      BY <2>2, <2>0, <3>1 DEF Stopping
    <3>. QED  BY <2>2, <3>1, <3>2, <3>3, <3>4, <2>0, <1>0, Zenon DEF ClusterInv
  \* a branch within the limit: the call on its fallback
  <2>3. CASE cluster[cur] = Null /\ fallback[cur] # Null /\ ~(depth + 2 > RecursionLimit)
    <3>1. /\ cur' = fallback[cur] /\ depth' = depth + 2
          /\ status' = status /\ result' = result
      BY <2>3, <1>2 DEF Next, GotoCall
    <3>2. fallback[cur] \in Gotos /\ depth \in Nat /\ m \in Nat
      BY <2>3, <1>a, <1>0 DEF TypeOK
    <3>3. TypeOK'
      BY <3>1, <3>2, <2>0, <1>a DEF TypeOK
    <3>4. p[m] = cur /\ depth = 2 * m + 1 /\ \A i \in 0..(m - 1) : ~Stopping(p[i])
      BY <1>0 DEF OnPath
    <3>5. PICK q \in Paths(dest, m + 1) :
            q[m + 1] = fallback[cur] /\ \A i \in 0..m : q[i] = p[i]
      <4>1. [i \in 0..(m + 1) |-> IF i <= m THEN p[i] ELSE fallback[p[m]]] \in Paths(dest, m + 1)
        BY <3>2, <3>4, PathsExtend
      <4>. QED  BY <4>1, <3>2, <3>4
    <3>6. q[m + 1] = cur' /\ depth' = 2 * (m + 1) + 1
      BY <3>1, <3>2, <3>4, <3>5
    <3>7. \A i \in 0..m : ~Stopping(q[i])
      <4>1. ~Stopping(cur)
        BY <2>3 DEF Stopping
      <4>. QED  BY <3>2, <3>4, <3>5, <4>1
    <3>8. OnPath(m + 1, q)' /\ m + 1 \in 0..depth'
      BY <3>6, <3>7, <3>2, <2>0 DEF OnPath
    <3>9. q \in Paths(dest, m + 1)'
      BY <3>5, <2>0
    <3>. QED  BY <3>1, <3>3, <3>8, <3>9, <2>0, <1>2, Zenon DEF ClusterInv
  <2>. QED  BY <2>1, <2>2, <2>3
<1>. QED  BY <1>1, <1>2


(***************************************************************************)
(* From where the recursion stands to what it answers: a returned call     *)
(* stands on the first goto of the chain that ends the recursion, fewer    *)
(* than |Gotos| steps away; a RecursionError stands at least |Gotos| steps *)
(* down a chain none of whose gotos ends it.                               *)
(***************************************************************************)
LEMMA InvExact == ClusterInv => AnyClusterExact
<1>. SUFFICES ASSUME ClusterInv PROVE AnyClusterExact
  OBVIOUS
<1>b. PICK m \in 0..depth : \E p \in Paths(dest, m) : OnPath(m, p)
  BY DEF ClusterInv
<1>0. PICK p \in Paths(dest, m) : OnPath(m, p)
  BY <1>b
<1>1. /\ m \in Nat /\ p[m] = cur /\ depth = 2 * m + 1
      /\ \A i \in 0..(m - 1) : ~Stopping(p[i])
  BY <1>0, <1>b DEF ClusterInv, TypeOK, OnPath
\* every path from the destination agrees with p
<1>2. ASSUME NEW k \in 0..m, NEW q \in Paths(dest, k) PROVE q[k] = p[k]
  BY <1>1, PathsPrefix
\* no shorter path ends on a goto that ends the recursion
<1>3. \A k \in 0..(m - 1) : ~StopAt(dest, k)
  BY <1>1, <1>2 DEF StopAt
<1>4. CASE status = "returned"
  <2>1. Stopping(cur) /\ result = cluster[cur]
    BY <1>4 DEF ClusterInv
  <2>2. m < Cardinality(Gotos)
    BY <1>1, <2>1, FirstStopBound
  <2>3. StopAt(dest, m)
    BY <1>1, <2>1 DEF StopAt
  <2>4. Stops(dest)
    BY <1>1, <2>2, <2>3, GotosCard DEF Stops
  <2>5. ASSUME NEW k \in 0..Cardinality(Gotos), StopAt(dest, k),
               \A j \in 0..(k - 1) : ~StopAt(dest, j)
        PROVE  k = m
    BY <2>5, <1>1, <1>3, <2>3, GotosCard
  <2>6. (CHOOSE k \in 0..Cardinality(Gotos) :
           StopAt(dest, k) /\ \A j \in 0..(k - 1) : ~StopAt(dest, j)) = m
    <3>1. m \in 0..Cardinality(Gotos) /\ StopAt(dest, m)
          /\ \A j \in 0..(m - 1) : ~StopAt(dest, j)
      BY <1>1, <1>3, <2>2, <2>3, GotosCard
    <3>. QED  BY <3>1, <2>5, Zenon
  <2>7. (CHOOSE q \in Paths(dest, m) : Stopping(q[m]))[m] = cur
    <3>1. \A q \in Paths(dest, m) : q[m] = cur
      BY <1>1, <1>2
    <3>. QED  BY <3>1, <2>1, <1>1, Zenon
  <2>8. AnyCluster(dest) = cluster[cur]
    BY <2>6, <2>7 DEF AnyCluster
  <2>. QED  BY <2>1, <2>4, <2>8, <1>4 DEF AnyClusterExact
<1>5. CASE status = "error"
  <2>1. ~Stopping(cur) /\ depth + 2 > RecursionLimit
    BY <1>5 DEF ClusterInv
  <2>2. m >= Cardinality(Gotos)
    BY <1>1, <2>1, LimitAssumption, GotosCard
  <2>3. \A k \in 0..Cardinality(Gotos) : ~StopAt(dest, k)
    BY <1>1, <1>2, <2>1, <2>2, GotosCard DEF StopAt
  <2>. QED  BY <2>3, <1>5 DEF Stops, AnyClusterExact
<1>6. CASE status \notin {"returned", "error"}
  BY <1>6 DEF AnyClusterExact
<1>. QED  BY <1>4, <1>5, <1>6

-----------------------------------------------------------------------------
(***************************************************************************)
(* The recursion keeps its variables well-typed: the goto it is on is a    *)
(* goto of the configuration and the answer a cluster or None, for every   *)
(* configuration.                                                          *)
(***************************************************************************)
THEOREM TypeCorrect == Spec => []TypeOK
<1>1. ClusterInv => TypeOK
  BY DEF ClusterInv
<1>. QED  BY InitInv, NextInv, <1>1, PTL DEF Spec

(***************************************************************************)
(* lb_listener_get_any_cluster answers the first cluster along the         *)
(* destination's chain of branch fallbacks (None when the chain ends       *)
(* without one), and raises RecursionError exactly when that chain loops   *)
(* without reaching a cluster -- for every set of gotos, every             *)
(* configuration of them, and every recursion limit above 2 |Gotos|.      *)
(***************************************************************************)
THEOREM ClusterCorrect == Spec => []AnyClusterExact
BY InitInv, NextInv, InvExact, PTL DEF Spec

=============================================================================
