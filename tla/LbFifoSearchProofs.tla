------------------------- MODULE LbFifoSearchProofs -------------------------
(***************************************************************************)
(* Proofs about the search of bp_find_slice_fifo_buffer through            *)
(* iter_fifo_buffers (LbFifoSearch), for every pointer, every set of       *)
(* addresses and filter contents, every set of protocols and every length  *)
(* of the connection list.                                                 *)
(*                                                                         *)
(* FindExact speaks of the end of the search only; what makes it true is  *)
(* what the generator has passed over on its way.  SearchInv says it: no   *)
(* connection before k lacks a cluster and no buffer holding ptr lies      *)
(* before the generator's position (connection k, buffer j); on a TCP      *)
(* connection the generator is on, its cluster is protocol 1; after a      *)
(* match the printed pair is that position; after an error connection k    *)
(* is the one without a cluster.                                           *)
(***************************************************************************)
EXTENDS LbFifoSearch, WellFoundedInduction, TLAPS

\* Facts about sequences, taken qualified.
ST == INSTANCE SequenceTheorems

\* A null cluster is neither protocol 0 nor protocol 1.
LEMMA NullNotProtocol == Null # 0 /\ Null # 1
BY SearchAssumption

\* No connection before the k-th one lacks a cluster.
NoNullBefore == \A m \in 1..(k - 1) : conns[m].cluster # Null

\* Every buffer holding ptr lies at or after the generator's position.
NoHitBefore ==
  /\ \A h \in Hits : h[1] >= k
  /\ pc \in {"yield", "found"} => \A h \in Hits : h[1] = k => h[2] >= j

SearchInv ==
  /\ TypeOK
  /\ NoNullBefore
  /\ NoHitBefore
  /\ pc \in {"yield", "found"} => conns[k].cluster = 1
  /\ pc = "found" =>
       /\ j <= Len(Yields(conns[k])) /\ Yields(conns[k])[j] = Ptr
       /\ printed \in Seq((1..MaxConns) \X (1..7))
       /\ Len(printed) = 1 /\ printed[1] = <<k, j>>
  /\ pc # "found" => printed = <<>>
  /\ pc = "done" => k = Len(conns) + 1
  /\ pc = "error" => k <= Len(conns) /\ conns[k].cluster = Null

\* A position within a sequence of at most seven elements.
LEMMA WithinSeven ==
  ASSUME NEW x, NEW n \in 1..7, x \in 1..n
  PROVE  x \in 1..7
OBVIOUS

\* An interval 1..n determines n.
LEMMA IntervalLength ==
  ASSUME NEW n \in Nat, NEW m \in Nat, 1..n = 1..m
  PROVE  n = m
<1>1. CASE n = 0
  <2>1. m \notin 1..m
    BY <1>1
  <2>. QED  BY <1>1, <2>1
<1>2. CASE n # 0
  <2>1. n \in 1..m /\ m \in 1..n
    BY <1>2
  <2>. QED  BY <2>1
<1>. QED  BY <1>1, <1>2

(***************************************************************************)
(* What a connection yields: its input, then six filter buffers when it    *)
(* has a filter -- at most seven pointers, all addresses.                  *)
(***************************************************************************)
LEMMA YieldsType ==
  ASSUME NEW c \in Conn
  PROVE  /\ Yields(c) \in Seq(Addrs)
         /\ Len(Yields(c)) \in 1..7
<1>1. <<c.input>> \in Seq(Addrs) /\ Len(<<c.input>>) = 1
  BY DEF Conn
<1>2. CASE c.filter = Null
  <2>1. <<>> \in Seq(Addrs) /\ Len(<<>>) = 0
    BY ST!EmptySeq
  <2>. QED  BY <1>1, <1>2, <2>1, ST!ConcatProperties DEF Yields
<1>3. CASE c.filter # Null
  <2>1. c.filter \in [1..6 -> Addrs]
    BY <1>3, SearchAssumption DEF Conn
  <2>2. c.filter \in Seq(Addrs)
    <3>1. c.filter \in UNION {[1..n -> Addrs] : n \in Nat}
      BY <2>1, Zenon
    <3>. QED  BY <3>1, ST!SeqDef, Zenon
  <2>3. Len(c.filter) \in Nat /\ DOMAIN c.filter = 1..Len(c.filter)
    BY <2>2, ST!LenProperties
  <2>4. Len(c.filter) = 6
    <3>1. DOMAIN c.filter = 1..6
      BY <2>1, Zenon
    <3>2. 1..Len(c.filter) = 1..6
      BY <3>1, <2>3, Zenon
    <3>3. 6 \in Nat
      OBVIOUS
    <3>. QED  BY <3>2, <3>3, <2>3, IntervalLength, Zenon
  <2>5. Yields(c) = <<c.input>> \o c.filter
    BY <1>3 DEF Yields
  <2>6. <<c.input>> \o c.filter \in Seq(Addrs)
        /\ Len(<<c.input>> \o c.filter) = Len(<<c.input>>) + Len(c.filter)
    BY <1>1, <2>2, ST!ConcatProperties
  <2>. QED  BY <1>1, <2>4, <2>5, <2>6
<1>. QED  BY <1>2, <1>3

\* Every list of connections the command may be given starts the search in SearchInv.
LEMMA InitInv == Init => SearchInv
<1>. SUFFICES ASSUME Init PROVE SearchInv
  OBVIOUS
<1>1. conns \in Seq(Conn) /\ Len(conns) <= MaxConns
  <2>. PICK m \in 0..MaxConns : conns \in [1..m -> Conn]
    BY SearchAssumption DEF Init
  <2>. QED  BY SearchAssumption
<1>2. TypeOK
  BY <1>1 DEF Init, TypeOK
<1>. QED  BY <1>2 DEF Init, SearchInv, NoNullBefore, NoHitBefore, Hits

(***************************************************************************)
(* Each step of the generator and of the caller's test keeps SearchInv:    *)
(* one case per action, and under each one step per conjunct it moves.     *)
(***************************************************************************)
LEMMA NextInv == SearchInv /\ [Next]_vars => SearchInv'
<1>. SUFFICES ASSUME SearchInv, [Next]_vars PROVE SearchInv'
  OBVIOUS
<1>0. /\ conns \in Seq(Conn) /\ Len(conns) <= MaxConns /\ MaxConns \in Nat
      /\ k \in 1..(Len(conns) + 1)
      /\ printed \in Seq((1..MaxConns) \X (1..7)) /\ unknown \in Seq(1..MaxConns)
      /\ pc \in {"yield", "found"} => j \in Nat
  BY SearchAssumption DEF SearchInv, TypeOK
<1>1. conns' = conns
  BY DEF Next, vars, ReadProtocol, ConnsDone, Yield, YieldsDone
<1>2. Hits' = Hits
  BY <1>1 DEF Hits
<1>8. \A h \in Hits : /\ h[1] \in 1..Len(conns) /\ h[2] \in 1..7
                     /\ conns[h[1]].cluster = 1 /\ Yields(conns[h[1]])[h[2]] = Ptr
  BY DEF Hits
<1>9. /\ \A h \in Hits : h[1] >= k
      /\ pc \in {"yield", "found"} => \A h \in Hits : h[1] = k => h[2] >= j
  BY DEF SearchInv, NoHitBefore
<1>3. CASE ReadProtocol
  <2>1. /\ pc = "conn" /\ k <= Len(conns) /\ printed' = printed /\ printed = <<>>
    BY <1>3 DEF ReadProtocol, SearchInv
  <2>2. conns[k] \in Conn
    BY <1>0, <2>1
  <2>3. CASE conns[k].cluster = Null
    <3>1. pc' = "error" /\ k' = k /\ j' = j /\ unknown' = unknown
      BY <1>3, <2>3, NullNotProtocol DEF ReadProtocol
    <3>. QED  BY <3>1, <2>1, <1>0, <1>1, <1>2, <2>3
              DEF SearchInv, TypeOK, NoNullBefore, NoHitBefore
  <2>4. CASE conns[k].cluster = 1
    <3>1. pc' = "yield" /\ j' = 1 /\ k' = k /\ unknown' = unknown
      BY <1>3, <2>4, NullNotProtocol DEF ReadProtocol
    <3>2. Len(Yields(conns[k])) \in 1..7
      BY <2>2, YieldsType
    <3>3. NoHitBefore'
      <4>1. \A h \in Hits : h[1] = k => h[2] >= 1
        BY <1>8
      <4>. QED  BY <4>1, <3>1, <1>2, <1>9 DEF NoHitBefore
    <3>. QED  BY <1>0, <1>1, <2>1, <2>4, <3>1, <3>2, <3>3
              DEF SearchInv, TypeOK, NoNullBefore
  <2>5. CASE conns[k].cluster # Null /\ conns[k].cluster # 1
    <3>1. /\ k' = k + 1 /\ pc' = "conn"
          /\ unknown' \in Seq(1..MaxConns)
      <4>1. CASE conns[k].cluster = 0
        BY <1>3, <2>5, <4>1, <1>0 DEF ReadProtocol
      <4>2. CASE conns[k].cluster # 0
        <5>1. unknown' = Append(unknown, k) /\ k' = k + 1 /\ pc' = pc
          BY <1>3, <2>5, <4>2 DEF ReadProtocol
        <5>2. k \in 1..MaxConns
          BY <2>1, <1>0
        <5>. QED  BY <5>1, <5>2, <2>1, <1>0, ST!AppendProperties
      <4>. QED  BY <4>1, <4>2
    <3>2. NoNullBefore'
      BY <3>1, <1>0, <1>1, <2>5 DEF SearchInv, NoNullBefore
    <3>3. NoHitBefore'
      <4>1. \A h \in Hits : h[1] >= k + 1
        <5>. SUFFICES ASSUME NEW h \in Hits PROVE h[1] >= k + 1
          OBVIOUS
        <5>1. h[1] \in 1..Len(conns) /\ h[1] >= k /\ conns[h[1]].cluster = 1
          BY <1>8, <1>9, Zenon
        <5>2. h[1] # k
          BY <5>1, <2>5, Zenon
        <5>. QED  BY <5>1, <5>2, <1>0
      <4>. QED  BY <4>1, <3>1, <1>2 DEF NoHitBefore
    <3>. QED  BY <3>1, <3>2, <3>3, <2>1, <1>0, <1>1 DEF SearchInv, TypeOK
  <2>. QED  BY <2>3, <2>4, <2>5
<1>4. CASE ConnsDone
  <2>1. /\ pc = "conn" /\ k = Len(conns) + 1 /\ pc' = "done"
        /\ k' = k /\ j' = j /\ printed' = printed /\ unknown' = unknown
    BY <1>4, <1>0 DEF ConnsDone
  <2>. QED  BY <2>1, <1>0, <1>1, <1>2 DEF SearchInv, TypeOK, NoNullBefore, NoHitBefore
<1>5. CASE Yield
  <2>1. /\ pc = "yield" /\ k <= Len(conns) /\ conns[k].cluster = 1
        /\ j \in 1..Len(Yields(conns[k])) /\ printed = <<>>
        /\ k' = k /\ unknown' = unknown
    BY <1>5, <1>0 DEF Yield, SearchInv, TypeOK
  <2>2. Yields(conns[k]) \in Seq(Addrs) /\ Len(Yields(conns[k])) \in 1..7
    BY <2>1, <1>0, YieldsType
  <2>3. CASE Yields(conns[k])[j] = Ptr
    <3>1. printed' = Append(printed, <<k, j>>) /\ pc' = "found" /\ j' = j
      BY <1>5, <2>3 DEF Yield
    <3>2. <<k, j>> \in (1..MaxConns) \X (1..7)
      <4>1. k \in 1..MaxConns
        BY <2>1, <1>0
      <4>2. j \in 1..7
        BY <2>1, <2>2, WithinSeven, Zenon
      <4>. QED  BY <4>1, <4>2, Zenon
    <3>3. /\ printed' \in Seq((1..MaxConns) \X (1..7))
          /\ Len(printed') = 1 /\ printed'[1] = <<k, j>>
      BY <3>1, <3>2, <2>1, <1>0, ST!AppendProperties, ST!EmptySeq
    <3>4. NoHitBefore'
      BY <3>1, <2>1, <1>0, <1>2, <1>8, <1>9 DEF NoHitBefore
    <3>. QED  BY <3>1, <3>3, <3>4, <2>1, <2>2, <2>3, <1>0, <1>1
              DEF SearchInv, TypeOK, NoNullBefore
  <2>4. CASE Yields(conns[k])[j] # Ptr
    <3>1. j' = j + 1 /\ printed' = printed /\ pc' = pc
      BY <1>5, <2>4 DEF Yield
    <3>2. NoHitBefore'
      <4>1. \A h \in Hits : h[1] = k => h[2] # j
        BY <2>4, <1>8
      <4>2. \A h \in Hits : h[1] = k => h[2] >= j + 1
        BY <4>1, <1>8, <1>9, <2>1
      <4>. QED  BY <4>2, <3>1, <2>1, <1>2, <1>9 DEF NoHitBefore
    <3>. QED  BY <3>1, <3>2, <2>1, <2>2, <1>0, <1>1 DEF SearchInv, TypeOK, NoNullBefore
  <2>. QED  BY <2>3, <2>4
<1>6. CASE YieldsDone
  <2>1. /\ pc = "yield" /\ k <= Len(conns) /\ conns[k].cluster = 1
        /\ j > Len(Yields(conns[k]))
        /\ k' = k + 1 /\ pc' = "conn"
        /\ printed' = printed /\ unknown' = unknown
    BY <1>6, <1>0 DEF YieldsDone, SearchInv, TypeOK
  <2>2. NoNullBefore'
    BY <2>1, <1>0, <1>1, NullNotProtocol DEF SearchInv, NoNullBefore
  <2>3. NoHitBefore'
    <3>1. \A h \in Hits : h[1] = k => h[2] <= Len(Yields(conns[k]))
      BY DEF Hits
    <3>2. PICK n \in Nat : n = Len(Yields(conns[k]))
      BY <2>1, <1>0, YieldsType
    <3>3. j > n /\ \A h \in Hits : h[1] = k => h[2] <= n /\ h[2] >= j
      BY <3>1, <3>2, <2>1, <1>9, Zenon
    <3>4. \A h \in Hits : h[1] >= k + 1
      <4>. SUFFICES ASSUME NEW h \in Hits PROVE h[1] >= k + 1
        OBVIOUS
      <4>1. /\ h[1] \in 1..Len(conns) /\ h[1] >= k
            /\ h[1] = k => h[2] <= n /\ h[2] >= j
        BY <3>3, <1>8, <1>9, Zenon
      <4>2. h[2] \in 1..7 /\ j \in Nat
        BY <1>8, <1>0, <2>1, Zenon
      <4>3. k \in Nat
        BY <1>0
      <4>. QED  BY <4>1, <4>2, <4>3, <3>3
    <3>. QED  BY <3>4, <2>1, <1>2 DEF NoHitBefore
  <2>. QED  BY <2>1, <2>2, <2>3, <1>0, <1>1 DEF SearchInv, TypeOK
<1>7. CASE UNCHANGED vars
  BY <1>7, <1>2 DEF vars, SearchInv, TypeOK, NoNullBefore, NoHitBefore
<1>. QED  BY <1>3, <1>4, <1>5, <1>6, <1>7 DEF Next

(***************************************************************************)
(* SearchInv gives FindExact; the first connection without a cluster, when *)
(* there is one, exists because < is well-founded on the naturals.         *)
(***************************************************************************)
LEMMA InvImpliesFind == SearchInv => FindExact
<1>. SUFFICES ASSUME SearchInv PROVE FindExact
  OBVIOUS
<1>0. /\ conns \in Seq(Conn) /\ k \in 1..(Len(conns) + 1)
      /\ pc \in {"yield", "found"} => j \in Nat
  BY DEF SearchInv, TypeOK
<1>1. \A h \in Hits : /\ h[1] \in 1..Len(conns) /\ h[2] \in 1..7
                     /\ conns[h[1]].cluster = 1
  BY DEF Hits
<1>2. /\ \A h \in Hits : h[1] >= k
      /\ pc \in {"yield", "found"} => \A h \in Hits : h[1] = k => h[2] >= j
      /\ \A m \in 1..(k - 1) : conns[m].cluster # Null
  BY DEF SearchInv, NoHitBefore, NoNullBefore
\* What FirstNull picks: the first connection without a cluster, if any.
<1>3. /\ (\E m \in 1..Len(conns) : conns[m].cluster = Null) =>
           /\ FirstNull \in 1..Len(conns) /\ conns[FirstNull].cluster = Null
           /\ \A i \in 1..(FirstNull - 1) : conns[i].cluster # Null
      /\ ~(\E m \in 1..Len(conns) : conns[m].cluster = Null) => FirstNull = Len(conns) + 1
  <2>1. ASSUME NEW m \in 1..Len(conns), conns[m].cluster = Null
        PROVE  \E f \in 1..Len(conns) :
                 conns[f].cluster = Null /\ \A i \in 1..(f - 1) : conns[i].cluster # Null
    <3>. DEFINE Nulls == {f \in 1..Len(conns) : conns[f].cluster = Null}
    <3>1. Nulls \subseteq Nat /\ m \in Nulls
      BY <2>1, <1>0
    <3>2. \E f \in Nulls : \A g \in Nulls : ~(<<g, f>> \in OpToRel(<, Nat))
      BY <3>1, NatLessThanWellFounded, WFMin, Zenon
    <3>3. PICK f \in Nulls : \A g \in Nulls : ~(g < f)
      BY <3>1, <3>2 DEF OpToRel
    <3>. QED  BY <3>3, <1>0
  <2>. QED  BY <2>1 DEF FirstNull
<1>4. ASSUME pc = "found" PROVE
        /\ Len(printed) = 1 /\ printed[1] \in Hits /\ printed[1][1] < FirstNull
        /\ \A h \in Hits : ~Before(h, printed[1])
  <2>1. /\ Len(printed) = 1 /\ printed[1] = <<k, j>>
        /\ k <= Len(conns) /\ conns[k].cluster = 1
        /\ j \in 1..Len(Yields(conns[k])) /\ Yields(conns[k])[j] = Ptr
    BY <1>4, <1>0 DEF SearchInv, TypeOK
  <2>2. Yields(conns[k]) \in Seq(Addrs) /\ Len(Yields(conns[k])) \in 1..7
    BY <2>1, <1>0, YieldsType
  <2>3. j \in 1..7
    BY <2>1, <2>2, WithinSeven, Zenon
  <2>4. <<k, j>> \in Hits
    BY <2>1, <2>3, <1>0 DEF Hits
  <2>5. k < FirstNull
    BY <2>1, <1>0, <1>2, <1>3, NullNotProtocol
  <2>6. \A h \in Hits : ~Before(h, <<k, j>>)
    BY <1>0, <1>1, <1>2, <1>4 DEF Before
  <2>. QED  BY <2>1, <2>4, <2>5, <2>6
<1>5. ASSUME pc = "done" PROVE Hits = {} /\ FirstNull = Len(conns) + 1
  <2>1. k = Len(conns) + 1
    BY <1>5 DEF SearchInv
  <2>2. Hits = {}
    BY <2>1, <1>1, <1>2
  <2>3. FirstNull = Len(conns) + 1
    BY <2>1, <1>0, <1>2, <1>3
  <2>. QED  BY <2>2, <2>3
<1>6. ASSUME pc = "error" PROVE k = FirstNull /\ \A h \in Hits : h[1] > k
  <2>1. k <= Len(conns) /\ conns[k].cluster = Null
    BY <1>6 DEF SearchInv
  <2>2. k = FirstNull
    BY <2>1, <1>0, <1>2, <1>3
  <2>3. \A h \in Hits : h[1] > k
    BY <2>1, <1>0, <1>1, <1>2, NullNotProtocol
  <2>. QED  BY <2>2, <2>3
<1>7. pc # "found" => printed = <<>>
  BY DEF SearchInv
<1>. QED  BY <1>4, <1>5, <1>6, <1>7 DEF FindExact

(***************************************************************************)
(* bp_find_slice_fifo_buffer prints the first buffer holding ptr, once,    *)
(* unless a connection before it has no cluster; it fails exactly at the   *)
(* first such connection when no earlier buffer matched -- on every        *)
(* connection list, of any length.                                         *)
(***************************************************************************)
THEOREM FindCorrect == Spec => []FindExact
<1>1. Init => SearchInv
  BY InitInv
<1>2. SearchInv /\ [Next]_vars => SearchInv'
  BY NextInv
<1>3. SearchInv => FindExact
  BY InvImpliesFind
<1>. QED  BY <1>1, <1>2, <1>3, PTL DEF Spec

(***************************************************************************)
(* The generator never leaves its connection list: k stays within it (one  *)
(* past its end at most), a connection being searched has a buffer        *)
(* position at most one past its last buffer, and the printed pairs are    *)
(* connection and buffer numbers -- for connection lists of any length.    *)
(***************************************************************************)
THEOREM TypeCorrect == Spec => []TypeOK
<1>1. SearchInv => TypeOK
  BY DEF SearchInv
<1>. QED  BY InitInv, NextInv, <1>1, PTL DEF Spec

=============================================================================
