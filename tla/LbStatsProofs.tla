---------------------------- MODULE LbStatsProofs ----------------------------
(***************************************************************************)
(* Proofs about the lb_stats command (LbStats), for every set of filters,  *)
(* every connection list of any length and every filter contents.          *)
(*                                                                         *)
(* StatsExact speaks of the printed counters only.  StatsInv says what     *)
(* they hold at every point of the two loops: the counters of the first k-1 *)
(* connections of the list being walked, on top of the whole HTTP list    *)
(* once the TCP loop runs.  The sums are prefix sums (SumSeq), a recursive *)
(* function; SumSeqDef establishes its defining equations from a function *)
(* built by a least-counterexample argument.                               *)
(***************************************************************************)
EXTENDS LbStats, FiniteSetTheorems, WellFoundedInduction, TLAPS

\* The per-connection counts whose sums lb_stats prints.
SslW(s) == [j \in 1..Len(s) |-> One(SslOf(s[j]) # Null)]
BufW(s) == [j \in 1..Len(s) |-> OwnBuffers(s[j])]

\* The counters after the first m connections of s, on top of base values.
Counted(m, s, bn, bSsl, bBuf) ==
  /\ n = bn + m
  /\ nSsl = bSsl + SumSeq(SslW(s))[m]
  /\ nBuffers = bBuf + SumSeq(BufW(s))[m]

(***************************************************************************)
(* The inductive invariant: in the HTTP loop the counters hold the first   *)
(* k-1 HTTP connections; in the TCP loop and after it, the whole HTTP list *)
(* and the first k-1 TCP connections; at the end both lists are walked.   *)
(***************************************************************************)
StatsInv ==
  /\ TypeOK
  /\ pc = "http" => /\ nHttp = k - 1 /\ nTcp = 0
                    /\ Counted(k - 1, http, 0, 0, 0)
  /\ pc \in {"tcp", "done"} =>
       /\ nHttp = Len(http) /\ nTcp = k - 1
       /\ Counted(k - 1, tcp, Len(http), SumSeq(SslW(http))[Len(http)],
                  SumSeq(BufW(http))[Len(http)])
  /\ pc = "done" => k = Len(tcp) + 1

-----------------------------------------------------------------------------
(***************************************************************************)
(* Lemmas about natural numbers and prefix sums.                           *)
(***************************************************************************)
\* A non-empty set of naturals has a least element.
LEMMA NatMin ==
  ASSUME NEW T, T \subseteq Nat, T # {}
  PROVE  \E x \in T : \A y \in T : ~(y < x)
<1>1. \E x \in T : \A y \in T : ~(<<y, x>> \in OpToRel(<, Nat))
  BY NatLessThanWellFounded, WFMin, Zenon
<1>. QED  BY <1>1 DEF OpToRel

\* g holds the prefix sums of v up to m.
PrefixSums(v, g, m) == g[0] = 0 /\ \A j \in 1..m : g[j] = g[j - 1] + v[j]

\* The lengths up to which v has no prefix sums.
NoSums(v) == {m \in 0..Len(v) : ~\E g \in [0..m -> Nat] : PrefixSums(v, g, m)}

\* Prefix sums exist for every length: the least length without them
\* would extend the one just below it.
LEMMA PrefixSumsExist ==
  ASSUME NEW v \in Seq(Nat)
  PROVE  \A m \in 0..Len(v) : \E g \in [0..m -> Nat] : PrefixSums(v, g, m)
<1>. SUFFICES ASSUME NoSums(v) # {} PROVE FALSE
  BY DEF NoSums
<1>0. NoSums(v) \subseteq Nat
  BY DEF NoSums
<1>1. PICK m \in NoSums(v) : \A y \in NoSums(v) : ~(y < m)
  BY <1>0, NatMin, Zenon
<1>2. m \in 0..Len(v) /\ ~\E g \in [0..m -> Nat] : PrefixSums(v, g, m)
  BY <1>1 DEF NoSums
<1>3. m # 0
  <2>1. [j \in 0..0 |-> 0] \in [0..0 -> Nat] /\ 1..0 = {}
    OBVIOUS
  <2>2. PrefixSums(v, [j \in 0..0 |-> 0], 0)
    BY <2>1 DEF PrefixSums
  <2>. QED  BY <1>2, <2>1, <2>2
<1>4. PICK g \in [0..(m - 1) -> Nat] : PrefixSums(v, g, m - 1)
  <2>1. m - 1 \in 0..Len(v) /\ m - 1 < m
    BY <1>2, <1>3
  <2>2. m - 1 \notin NoSums(v)
    BY <2>1, <1>1
  <2>. QED  BY <2>1, <2>2 DEF NoSums
<1>5. v[m] \in Nat /\ m \in Nat /\ m - 1 \in Nat
  BY <1>2, <1>3
<1>6. PICK h : h = [j \in 0..m |-> IF j <= m - 1 THEN g[j] ELSE g[m - 1] + v[m]]
  OBVIOUS
<1>7. h \in [0..m -> Nat]
  BY <1>4, <1>5, <1>6
<1>8. PrefixSums(v, h, m)
  <2>1. h[0] = 0
    BY <1>3, <1>4, <1>5, <1>6 DEF PrefixSums
  <2>2. ASSUME NEW j \in 1..m PROVE h[j] = h[j - 1] + v[j]
    <3>1. CASE j <= m - 1
      BY <3>1, <1>4, <1>5, <1>6 DEF PrefixSums
    <3>2. CASE j = m
      BY <3>2, <1>4, <1>5, <1>6
    <3>. QED  BY <3>1, <3>2, <1>5
  <2>. QED  BY <2>1, <2>2 DEF PrefixSums
<1>. QED  BY <1>2, <1>7, <1>8

(***************************************************************************)
(* SumSeq satisfies its defining equations, and its values are natural     *)
(* numbers.                                                                *)
(***************************************************************************)
LEMMA SumSeqDef ==
  ASSUME NEW v \in Seq(Nat)
  PROVE  /\ SumSeq(v)[0] = 0
         /\ \A j \in 1..Len(v) : SumSeq(v)[j] = SumSeq(v)[j - 1] + v[j]
         /\ \A j \in 0..Len(v) : SumSeq(v)[j] \in Nat
<1>0. Len(v) \in Nat /\ 0 \in 0..Len(v)
  OBVIOUS
<1>1. PICK g \in [0..Len(v) -> Nat] : PrefixSums(v, g, Len(v))
  BY <1>0, PrefixSumsExist
<1>2. g = [j \in 0..Len(v) |-> IF j = 0 THEN 0 ELSE g[j - 1] + v[j]]
  BY <1>1 DEF PrefixSums
<1>3. SumSeq(v) = [j \in 0..Len(v) |-> IF j = 0 THEN 0 ELSE SumSeq(v)[j - 1] + v[j]]
  BY <1>2, Zenon DEF SumSeq
<1>4. SumSeq(v)[0] = 0
  BY <1>0, <1>3, Zenon
<1>5. \A j \in 1..Len(v) : SumSeq(v)[j] = SumSeq(v)[j - 1] + v[j]
  <2>. TAKE j \in 1..Len(v)
  <2>1. j \in 0..Len(v) /\ j # 0
    BY <1>0
  <2>. QED  BY <2>1, <1>3, Zenon
<1>6. \A j \in 0..Len(v) : SumSeq(v)[j] \in Nat
  <2>. SUFFICES ASSUME \E j \in 0..Len(v) : SumSeq(v)[j] \notin Nat PROVE FALSE
    OBVIOUS
  <2>0. /\ {x \in 0..Len(v) : SumSeq(v)[x] \notin Nat} \subseteq Nat
        /\ {x \in 0..Len(v) : SumSeq(v)[x] \notin Nat} # {}
    OBVIOUS
  <2>1. PICK j \in {x \in 0..Len(v) : SumSeq(v)[x] \notin Nat} :
          \A y \in {x \in 0..Len(v) : SumSeq(v)[x] \notin Nat} : ~(y < j)
    BY <2>0, NatMin, Zenon
  <2>2. j # 0
    BY <2>1, <1>4
  <2>3. j \in 1..Len(v) /\ j - 1 \in 0..Len(v) /\ j - 1 < j
    BY <2>1, <2>2
  <2>4. SumSeq(v)[j - 1] \in Nat /\ v[j] \in Nat
    BY <2>1, <2>3
  <2>. QED  BY <2>1, <2>3, <2>4, <1>5
<1>. QED  BY <1>4, <1>5, <1>6

-----------------------------------------------------------------------------
(***************************************************************************)
(* Lemmas about the connections.                                           *)
(***************************************************************************)
\* A filter's buffer count is a natural number.
LEMMA BuffersNat ==
  ASSUME NEW f \in Filter
  PROVE  Buffers(f) \in Nat
<1>1. IsFiniteSet(FilterBuffers)
  <2>1. IsFiniteSet({"encrypted_input"})
    BY FS_Singleton
  <2>2. IsFiniteSet({"encrypted_input", "decrypted_input"})
    BY <2>1, FS_AddElement
  <2>3. IsFiniteSet({"encrypted_input", "decrypted_input", "plain_output"})
    BY <2>2, FS_AddElement
  <2>. QED  BY <2>3, FS_AddElement DEF FilterBuffers
<1>2. CASE f # Null
  <2>1. f \subseteq FilterBuffers
    BY <1>2, FilterAssumption DEF Filter
  <2>2. IsFiniteSet(f)
    BY <1>1, <2>1, FS_Subset
  <2>. QED  BY <1>2, <2>2, FS_CardinalityType DEF Buffers
<1>. QED  BY <1>2 DEF Buffers

\* What an HTTP and a TCP connection count.
LEMMA ConnCounts ==
  /\ \A c \in HttpConn : /\ SslOf(c) = c.ssl
                         /\ OwnBuffers(c) = Buffers(c.ssl) + Buffers(c.sock) + 1
                         /\ OwnBuffers(c) \in Nat
  /\ \A c \in TcpConn : /\ SslOf(c) = IF c.sock # Null THEN c.handler ELSE Null
                        /\ SslOf(c) \in Filter
                        /\ OwnBuffers(c) = Buffers(c.sock) + Buffers(SslOf(c))
                                           + One(c.outbound) + One(c.inbound)
                        /\ OwnBuffers(c) \in Nat
<1>1. ASSUME NEW c \in HttpConn
      PROVE  /\ SslOf(c) = c.ssl
             /\ OwnBuffers(c) = Buffers(c.ssl) + Buffers(c.sock) + 1
             /\ OwnBuffers(c) \in Nat
  <2>1. "ssl" \in DOMAIN c /\ c.ssl \in Filter /\ c.sock \in Filter
    BY DEF HttpConn
  <2>2. SslOf(c) = c.ssl
    BY <2>1 DEF SslOf
  <2>3. Buffers(c.ssl) \in Nat /\ Buffers(c.sock) \in Nat
    BY <2>1, BuffersNat
  <2>. QED  BY <2>1, <2>2, <2>3 DEF OwnBuffers
<1>2. ASSUME NEW c \in TcpConn
      PROVE  /\ SslOf(c) = IF c.sock # Null THEN c.handler ELSE Null
             /\ SslOf(c) \in Filter
             /\ OwnBuffers(c) = Buffers(c.sock) + Buffers(SslOf(c))
                                + One(c.outbound) + One(c.inbound)
             /\ OwnBuffers(c) \in Nat
  <2>1. "ssl" \notin DOMAIN c /\ c.sock \in Filter /\ c.handler \in Filter
    BY DEF TcpConn
  <2>2. SslOf(c) = IF c.sock # Null THEN c.handler ELSE Null
    BY <2>1 DEF SslOf
  <2>3. SslOf(c) \in Filter
    BY <2>1, <2>2 DEF Filter
  <2>4. Buffers(SslOf(c)) \in Nat /\ Buffers(c.sock) \in Nat
    BY <2>1, <2>3, BuffersNat
  <2>. QED  BY <2>1, <2>2, <2>3, <2>4 DEF OwnBuffers, One
<1>. QED  BY <1>1, <1>2

\* The per-connection counts of a connection list are sequences of naturals
\* as long as the list.
LEMMA WeightsNat ==
  /\ \A s \in Seq(HttpConn) : /\ SslW(s) \in Seq(Nat) /\ Len(SslW(s)) = Len(s)
                              /\ BufW(s) \in Seq(Nat) /\ Len(BufW(s)) = Len(s)
  /\ \A s \in Seq(TcpConn) : /\ SslW(s) \in Seq(Nat) /\ Len(SslW(s)) = Len(s)
                             /\ BufW(s) \in Seq(Nat) /\ Len(BufW(s)) = Len(s)
<1>1. ASSUME NEW s \in Seq(HttpConn)
      PROVE  /\ SslW(s) \in Seq(Nat) /\ Len(SslW(s)) = Len(s)
             /\ BufW(s) \in Seq(Nat) /\ Len(BufW(s)) = Len(s)
  <2>1. \A j \in 1..Len(s) : s[j] \in HttpConn
    OBVIOUS
  <2>2. \A j \in 1..Len(s) : OwnBuffers(s[j]) \in Nat
    BY <2>1, ConnCounts
  <2>. QED  BY <2>2 DEF SslW, BufW, One
<1>2. ASSUME NEW s \in Seq(TcpConn)
      PROVE  /\ SslW(s) \in Seq(Nat) /\ Len(SslW(s)) = Len(s)
             /\ BufW(s) \in Seq(Nat) /\ Len(BufW(s)) = Len(s)
  <2>1. \A j \in 1..Len(s) : s[j] \in TcpConn
    OBVIOUS
  <2>2. \A j \in 1..Len(s) : OwnBuffers(s[j]) \in Nat
    BY <2>1, ConnCounts
  <2>. QED  BY <2>2 DEF SslW, BufW, One
<1>. QED  BY <1>1, <1>2

-----------------------------------------------------------------------------
(***************************************************************************)
(* StatsInv is inductive.                                                  *)
(***************************************************************************)
\* lb_stats starts with zero counters on lists it can meet.
LEMMA InitInv == Init => StatsInv
<1>. SUFFICES ASSUME Init PROVE StatsInv
  OBVIOUS
<1>1. http \in Seq(HttpConn) /\ tcp \in Seq(TcpConn)
  BY ConnsAssumption DEF Init, ListsOf
<1>2. SumSeq(SslW(http))[0] = 0 /\ SumSeq(BufW(http))[0] = 0
  BY <1>1, WeightsNat, SumSeqDef
<1>. QED  BY <1>1, <1>2 DEF Init, StatsInv, TypeOK, Counted

\* One HTTP connection counted: both prefix sums grow by its counts.
LEMMA HttpStepInv == StatsInv /\ HttpStep => StatsInv'
<1>. SUFFICES ASSUME StatsInv, HttpStep PROVE StatsInv'
  OBVIOUS
<1>1. /\ http \in Seq(HttpConn) /\ pc = "http" /\ k \in 1..Len(http)
      /\ http[k] \in HttpConn
  <2>1. pc = "http" /\ k <= Len(http)
    BY DEF HttpStep
  <2>2. http \in Seq(HttpConn) /\ k \in 1..(Len(http) + 1)
    BY <2>1 DEF StatsInv, TypeOK
  <2>. QED  BY <2>1, <2>2
<1>2. /\ SslW(http) \in Seq(Nat) /\ Len(SslW(http)) = Len(http)
      /\ BufW(http) \in Seq(Nat) /\ Len(BufW(http)) = Len(http)
  BY <1>1, WeightsNat
<1>3. /\ SumSeq(SslW(http))[k] = SumSeq(SslW(http))[k - 1] + SslW(http)[k]
      /\ SumSeq(BufW(http))[k] = SumSeq(BufW(http))[k - 1] + BufW(http)[k]
  BY <1>1, <1>2, SumSeqDef
<1>3a. /\ SumSeq(SslW(http))[k - 1] \in Nat /\ SumSeq(BufW(http))[k - 1] \in Nat
       /\ {n, nSsl, nHttp, nTcp, nBuffers} \subseteq Nat
  BY <1>1, <1>2, SumSeqDef DEF StatsInv, TypeOK
<1>4. /\ SslW(http)[k] = One(http[k].ssl # Null)
      /\ BufW(http)[k] = Buffers(http[k].ssl) + Buffers(http[k].sock) + 1
  BY <1>1, ConnCounts DEF SslW, BufW
<1>5. /\ Buffers(http[k].ssl) \in Nat /\ Buffers(http[k].sock) \in Nat
      /\ One(http[k].ssl # Null) \in Nat
  BY <1>1, BuffersNat DEF HttpConn, One
<1>6. /\ n' = k /\ nHttp' = k /\ nSsl' = SumSeq(SslW(http))[k]
      /\ nBuffers' = SumSeq(BufW(http))[k]
  <2>1. /\ nSsl' = nSsl + One(http[k].ssl # Null)
        /\ nBuffers' = nBuffers + Buffers(http[k].ssl) + Buffers(http[k].sock) + 1
        /\ n' = n + 1 /\ nHttp' = nHttp + 1 /\ k' = k + 1
    BY DEF HttpStep
  <2>2. /\ n = k - 1 /\ nHttp = k - 1
        /\ nSsl = SumSeq(SslW(http))[k - 1] /\ nBuffers = SumSeq(BufW(http))[k - 1]
    BY <1>1, <1>3a DEF StatsInv, Counted
  <2>. QED  BY <1>1, <1>3, <1>3a, <1>4, <1>5, <2>1, <2>2
<1>7. TypeOK'
  <2>1. /\ http' = http /\ tcp' = tcp /\ pc' = "http" /\ nTcp' = nTcp
        /\ k' = k + 1 /\ n' = n + 1 /\ nHttp' = nHttp + 1
        /\ nSsl' = nSsl + One(http[k].ssl # Null)
        /\ nBuffers' = nBuffers + Buffers(http[k].ssl) + Buffers(http[k].sock) + 1
    BY DEF HttpStep
  <2>2. k' \in 1..(Len(http') + 1)
    BY <1>1, <2>1
  <2>3. {n, nSsl, nHttp, nTcp, nBuffers}' \subseteq Nat
    BY <1>3a, <1>5, <2>1
  <2>4. /\ (IF pc' = "http" THEN http' ELSE tcp') = http
        /\ http' \in Seq(HttpConn) /\ tcp' \in Seq(TcpConn)
        /\ pc' \in {"http", "tcp", "done"}
    BY <1>1, <2>1 DEF StatsInv, TypeOK
  <2>. QED  BY <2>1, <2>2, <2>3, <2>4 DEF TypeOK
<1>. QED  BY <1>1, <1>6, <1>7 DEF StatsInv, HttpStep, Counted

\* The HTTP list walked: the TCP loop starts from the whole HTTP sums.
LEMMA HttpDoneInv == StatsInv /\ HttpDone => StatsInv'
<1>. SUFFICES ASSUME StatsInv, HttpDone PROVE StatsInv'
  OBVIOUS
<1>1. http \in Seq(HttpConn) /\ tcp \in Seq(TcpConn) /\ k = Len(http) + 1
  BY DEF StatsInv, TypeOK, HttpDone
<1>2. SumSeq(SslW(tcp))[0] = 0 /\ SumSeq(BufW(tcp))[0] = 0
  BY <1>1, WeightsNat, SumSeqDef
<1>3. SumSeq(SslW(http))[Len(http)] \in Nat /\ SumSeq(BufW(http))[Len(http)] \in Nat
  BY <1>1, WeightsNat, SumSeqDef
<1>. QED  BY <1>1, <1>2, <1>3 DEF StatsInv, TypeOK, HttpDone, Counted

\* One TCP connection counted, its SslFilter only behind its socket filter.
LEMMA TcpStepInv == StatsInv /\ TcpStep => StatsInv'
<1>. SUFFICES ASSUME StatsInv, TcpStep PROVE StatsInv'
  OBVIOUS
<1>1. /\ tcp \in Seq(TcpConn) /\ pc = "tcp" /\ k \in 1..Len(tcp)
      /\ tcp[k] \in TcpConn
  <2>1. pc = "tcp" /\ k <= Len(tcp)
    BY DEF TcpStep
  <2>2. tcp \in Seq(TcpConn) /\ k \in 1..(Len(tcp) + 1)
    BY <2>1 DEF StatsInv, TypeOK
  <2>. QED  BY <2>1, <2>2
<1>2. /\ SslW(tcp) \in Seq(Nat) /\ Len(SslW(tcp)) = Len(tcp)
      /\ BufW(tcp) \in Seq(Nat) /\ Len(BufW(tcp)) = Len(tcp)
  BY <1>1, WeightsNat
<1>3. /\ SumSeq(SslW(tcp))[k] = SumSeq(SslW(tcp))[k - 1] + SslW(tcp)[k]
      /\ SumSeq(BufW(tcp))[k] = SumSeq(BufW(tcp))[k - 1] + BufW(tcp)[k]
  BY <1>1, <1>2, SumSeqDef
<1>3a. /\ SumSeq(SslW(tcp))[k - 1] \in Nat /\ SumSeq(BufW(tcp))[k - 1] \in Nat
       /\ SumSeq(SslW(tcp))[k] \in Nat /\ SumSeq(BufW(tcp))[k] \in Nat
       /\ {n, nSsl, nHttp, nTcp, nBuffers} \subseteq Nat
  <2>1. k - 1 \in 0..Len(SslW(tcp)) /\ k \in 0..Len(SslW(tcp))
        /\ k - 1 \in 0..Len(BufW(tcp)) /\ k \in 0..Len(BufW(tcp))
    BY <1>1, <1>2
  <2>2. \A j \in 0..Len(SslW(tcp)) : SumSeq(SslW(tcp))[j] \in Nat
    BY <1>2, SumSeqDef
  <2>3. \A j \in 0..Len(BufW(tcp)) : SumSeq(BufW(tcp))[j] \in Nat
    BY <1>2, SumSeqDef
  <2>4. {n, nSsl, nHttp, nTcp, nBuffers} \subseteq Nat
    BY DEF StatsInv, TypeOK
  <2>. QED  BY <2>1, <2>2, <2>3, <2>4
<1>3b. /\ http \in Seq(HttpConn) /\ Len(http) \in Nat
       /\ SumSeq(SslW(http))[Len(http)] \in Nat /\ SumSeq(BufW(http))[Len(http)] \in Nat
  BY WeightsNat, SumSeqDef DEF StatsInv, TypeOK
<1>3c. PICK sslf : sslf = IF tcp[k].sock # Null THEN tcp[k].handler ELSE Null
  OBVIOUS
<1>4. /\ SslW(tcp)[k] = One(sslf # Null)
      /\ BufW(tcp)[k] = Buffers(tcp[k].sock) + Buffers(sslf)
                        + One(tcp[k].outbound) + One(tcp[k].inbound)
  BY <1>1, <1>3c, ConnCounts DEF SslW, BufW
<1>5. /\ Buffers(tcp[k].sock) \in Nat /\ Buffers(sslf) \in Nat
      /\ One(sslf # Null) \in Nat
      /\ One(tcp[k].outbound) \in Nat /\ One(tcp[k].inbound) \in Nat
  BY <1>1, <1>3c, BuffersNat DEF TcpConn, Filter, One
<1>5a. /\ http' = http /\ tcp' = tcp /\ pc' = "tcp" /\ nHttp' = nHttp
       /\ k' = k + 1 /\ n' = n + 1 /\ nTcp' = nTcp + 1
       /\ nSsl' = nSsl + One(sslf # Null)
       /\ nBuffers' = nBuffers + Buffers(tcp[k].sock) + Buffers(sslf)
                      + One(tcp[k].outbound) + One(tcp[k].inbound)
  BY <1>3c DEF TcpStep
<1>6. /\ n' = Len(http) + k /\ nTcp' = k
      /\ nSsl' = SumSeq(SslW(http))[Len(http)] + SumSeq(SslW(tcp))[k]
      /\ nBuffers' = SumSeq(BufW(http))[Len(http)] + SumSeq(BufW(tcp))[k]
  <2>2. /\ n = Len(http) + k - 1 /\ nTcp = k - 1
        /\ nSsl = SumSeq(SslW(http))[Len(http)] + SumSeq(SslW(tcp))[k - 1]
        /\ nBuffers = SumSeq(BufW(http))[Len(http)] + SumSeq(BufW(tcp))[k - 1]
    BY <1>1, <1>3a DEF StatsInv, Counted
  <2>3a. n' = Len(http) + k
    BY <1>1, <1>3b, <1>5a, <2>2
  <2>3b. nTcp' = k
    BY <1>1, <1>5a, <2>2
  <2>3. n' = Len(http) + k /\ nTcp' = k
    BY <2>3a, <2>3b
  <2>4. nSsl' = SumSeq(SslW(http))[Len(http)] + SumSeq(SslW(tcp))[k]
    <3>1. nSsl' = SumSeq(SslW(http))[Len(http)] + SumSeq(SslW(tcp))[k - 1]
                + One(sslf # Null)
      BY <1>5a, <2>2
    <3>2. SumSeq(SslW(tcp))[k] = SumSeq(SslW(tcp))[k - 1] + One(sslf # Null)
      BY <1>3, <1>4
    <3>3. /\ SumSeq(SslW(http))[Len(http)] \in Nat /\ SumSeq(SslW(tcp))[k - 1] \in Nat
          /\ One(sslf # Null) \in Nat
      BY <1>3a, <1>3b, <1>5
    <3>. QED  BY <3>1, <3>2, <3>3
  <2>5. nBuffers' = SumSeq(BufW(http))[Len(http)] + SumSeq(BufW(tcp))[k]
    <3>1. nBuffers' = SumSeq(BufW(http))[Len(http)] + SumSeq(BufW(tcp))[k - 1]
                      + Buffers(tcp[k].sock) + Buffers(sslf)
                      + One(tcp[k].outbound) + One(tcp[k].inbound)
      BY <1>5a, <2>2
    <3>3. /\ SumSeq(BufW(http))[Len(http)] \in Nat /\ SumSeq(BufW(tcp))[k - 1] \in Nat
          /\ Buffers(tcp[k].sock) \in Nat /\ Buffers(sslf) \in Nat
          /\ One(tcp[k].outbound) \in Nat /\ One(tcp[k].inbound) \in Nat
      BY <1>3a, <1>3b, <1>5
    <3>2. SumSeq(BufW(tcp))[k] = SumSeq(BufW(tcp))[k - 1]
                                 + Buffers(tcp[k].sock) + Buffers(sslf)
                                 + One(tcp[k].outbound) + One(tcp[k].inbound)
      BY <1>3, <1>4, <3>3
    <3>. QED  BY <3>1, <3>2, <3>3
  <2>. QED  BY <2>3, <2>4, <2>5
<1>7. TypeOK'
  <2>1. k' \in 1..(Len(tcp') + 1)
    BY <1>1, <1>5a
  <2>2. {n, nSsl, nHttp, nTcp, nBuffers}' \subseteq Nat
    BY <1>3a, <1>5, <1>5a
  <2>3. /\ (IF pc' = "http" THEN http' ELSE tcp') = tcp
        /\ http' \in Seq(HttpConn) /\ tcp' \in Seq(TcpConn)
        /\ pc' \in {"http", "tcp", "done"}
    BY <1>1, <1>5a DEF StatsInv, TypeOK
  <2>. QED  BY <1>5a, <2>1, <2>2, <2>3 DEF TypeOK
<1>. QED  BY <1>1, <1>6, <1>7 DEF StatsInv, TcpStep, Counted

\* The TCP list walked: the counters are printed.
LEMMA TcpDoneInv == StatsInv /\ TcpDone => StatsInv'
  BY DEF StatsInv, TypeOK, TcpDone, Counted

LEMMA NextInv == StatsInv /\ [Next]_vars => StatsInv'
<1>. SUFFICES ASSUME StatsInv, [Next]_vars PROVE StatsInv'
  OBVIOUS
<1>1. CASE HttpStep  BY <1>1, HttpStepInv
<1>2. CASE HttpDone  BY <1>2, HttpDoneInv
<1>3. CASE TcpStep   BY <1>3, TcpStepInv
<1>4. CASE TcpDone   BY <1>4, TcpDoneInv
<1>5. CASE UNCHANGED vars
  BY <1>5 DEF StatsInv, TypeOK, Counted, vars
<1>. QED  BY <1>1, <1>2, <1>3, <1>4, <1>5 DEF Next

\* At the end the invariant is the exact count.
LEMMA InvExact == StatsInv => StatsExact
<1>. SUFFICES ASSUME StatsInv, pc = "done" PROVE StatsExact
  BY DEF StatsExact
<1>1. http \in Seq(HttpConn) /\ tcp \in Seq(TcpConn) /\ k = Len(tcp) + 1
  BY DEF StatsInv, TypeOK
<1>2. /\ SumOver(LAMBDA c : One(SslOf(c) # Null), http) = SumSeq(SslW(http))[Len(http)]
      /\ SumOver(LAMBDA c : One(SslOf(c) # Null), tcp) = SumSeq(SslW(tcp))[Len(tcp)]
      /\ SumOver(OwnBuffers, http) = SumSeq(BufW(http))[Len(http)]
      /\ SumOver(OwnBuffers, tcp) = SumSeq(BufW(tcp))[Len(tcp)]
  BY DEF SumOver, SslW, BufW
<1>. QED  BY <1>1, <1>2 DEF StatsInv, Counted, StatsExact

-----------------------------------------------------------------------------
(***************************************************************************)
(* Every variable of lb_stats keeps its type: the index stays within one   *)
(* past the end of the list it walks and the counters are natural numbers. *)
(***************************************************************************)
THEOREM TypeCorrect == Spec => []TypeOK
<1>1. StatsInv => TypeOK
  BY DEF StatsInv
<1>. QED  BY InitInv, NextInv, <1>1, PTL DEF Spec

(***************************************************************************)
(* The statistics lb_stats (LbStats.invoke) prints are exact, for every    *)
(* pair of connection lists of any length and every filter contents:      *)
(* every connection is counted once in its own counter, every SslFilter   *)
(* once whether an HTTP connection holds it or a TCP connection's socket   *)
(* filter does, and every buffer a connection owns once.                   *)
(***************************************************************************)
THEOREM StatsCorrect == Spec => []StatsExact
<1>. QED  BY InitInv, NextInv, InvExact, PTL DEF Spec

=============================================================================
