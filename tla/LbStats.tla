------------------------------ MODULE LbStats -------------------------------
(***************************************************************************)
(* The lb_stats command of src/tools/bp_gdb.py (LbStats.invoke): one pass  *)
(* over the LbInstance's HTTP connections, one over its TCP connections,   *)
(* counting connections, SSL filters and allocated fifo buffers.           *)
(*                                                                         *)
(* A socket filter (ThreadSocketFilter) and an SslFilter each own the four *)
(* buffers FilterBuffers; a filter is Null or the set of its buffers whose *)
(* `data' is not null.  An HTTP connection has its `ssl_filter' and the    *)
(* filter of its socket; a TCP connection the filter of its inbound socket *)
(* (whose `handler' is the SslFilter, read only when the filter exists)    *)
(* and whether its outbound and inbound input buffers are allocated.  The  *)
(* lists are walked by for_each_intrusive_list_item (IntrusiveList): here  *)
(* a snapshot sequence and an index into it.                               *)
(***************************************************************************)
EXTENDS Naturals, Sequences, FiniteSets

CONSTANTS Filters,  \* the non-null filters: sets of allocated buffers
          Null,     \* a null pointer
          MaxConns  \* the longest connection list

FilterBuffers == {"encrypted_input", "decrypted_input", "plain_output", "encrypted_output"}

ASSUME FilterAssumption == Filters \subseteq SUBSET FilterBuffers /\ Null \notin Filters
ASSUME ConnsAssumption == MaxConns \in Nat

Filter == Filters \cup {Null}
HttpConn == [ssl : Filter, sock : Filter]
TcpConn == [sock : Filter, handler : Filter, outbound : BOOLEAN, inbound : BOOLEAN]

\* Connection lists of at most MaxConns elements.
ListsOf(S) == UNION {[1..n -> S] : n \in 0..MaxConns}

\* The four `if not is_null(f[...]['data'].cast(void_ptr_type))' of a filter.
Buffers(f) == IF f = Null THEN 0 ELSE Cardinality(f)

\* `if not is_null(...)': 1 for an allocated buffer or a present filter.
One(b) == IF b THEN 1 ELSE 0

VARIABLES http,     \* instance['http_connections'], walked in order
          tcp,      \* instance['tcp_connections']
          pc,       \* "http", "tcp" (which loop runs) or "done"
          k,        \* the next connection of the running loop
          n, nSsl, nHttp, nTcp, nBuffers  \* the counters

vars == <<http, tcp, pc, k, n, nSsl, nHttp, nTcp, nBuffers>>

(***************************************************************************)
(* Variants of the code with plausible bugs, each defined before the       *)
(* definition it would replace.                                            *)
(***************************************************************************)
\* The SslFilter of an HTTP connection counted, its buffers forgotten.
HttpStepSkipsSslBuffers ==
  /\ pc = "http" /\ k <= Len(http)
  /\ LET c == http[k]
     IN  /\ nSsl' = nSsl + One(c.ssl # Null)
         /\ nBuffers' = nBuffers + Buffers(c.sock) + 1
  /\ n' = n + 1 /\ nHttp' = nHttp + 1 /\ k' = k + 1
  /\ UNCHANGED <<http, tcp, pc, nTcp>>

\* The second loop starting where the first one stopped.
HttpDoneKeepsIndex ==
  /\ pc = "http" /\ k > Len(http)
  /\ pc' = "tcp"
  /\ UNCHANGED <<http, tcp, k, n, nSsl, nHttp, nTcp, nBuffers>>

\* lb_stats on an LbInstance: the counters set to 0, the first loop ahead.
Init ==
  /\ http \in ListsOf(HttpConn) /\ tcp \in ListsOf(TcpConn)
  /\ pc = "http" /\ k = 1
  /\ n = 0 /\ nSsl = 0 /\ nHttp = 0 /\ nTcp = 0 /\ nBuffers = 0

(***************************************************************************)
(* One iteration of `for c in ...http_connections': the connection, its    *)
(* SslFilter and that filter's buffers, the socket filter's buffers, and   *)
(* the connection's own buffer, counted without a test.                    *)
(***************************************************************************)
HttpStep ==
  /\ pc = "http" /\ k <= Len(http)
  /\ LET c == http[k]
     IN  /\ nSsl' = nSsl + One(c.ssl # Null)
         /\ nBuffers' = nBuffers + Buffers(c.ssl) + Buffers(c.sock) + 1
  /\ n' = n + 1 /\ nHttp' = nHttp + 1 /\ k' = k + 1
  /\ UNCHANGED <<http, tcp, pc, nTcp>>

\* the HTTP list is exhausted: the TCP loop starts
HttpDone ==
  /\ pc = "http" /\ k > Len(http)
  /\ pc' = "tcp" /\ k' = 1
  /\ UNCHANGED <<http, tcp, n, nSsl, nHttp, nTcp, nBuffers>>

(***************************************************************************)
(* One iteration of `for c in ...tcp_connections': the inbound socket      *)
(* filter's buffers and, inside `if not is_null(f)', its handler (the      *)
(* SslFilter) and that one's buffers; then the outbound and inbound input  *)
(* buffers.                                                                *)
(***************************************************************************)
TcpStep ==
  /\ pc = "tcp" /\ k <= Len(tcp)
  /\ LET c == tcp[k]
         ssl == IF c.sock # Null THEN c.handler ELSE Null
     IN  /\ nSsl' = nSsl + One(ssl # Null)
         /\ nBuffers' = nBuffers + Buffers(c.sock) + Buffers(ssl)
                        + One(c.outbound) + One(c.inbound)
  /\ n' = n + 1 /\ nTcp' = nTcp + 1 /\ k' = k + 1
  /\ UNCHANGED <<http, tcp, pc, nHttp>>

\* the TCP list is exhausted: the counters are printed
TcpDone ==
  /\ pc = "tcp" /\ k > Len(tcp)
  /\ pc' = "done"
  /\ UNCHANGED <<http, tcp, k, n, nSsl, nHttp, nTcp, nBuffers>>

Next == HttpStep \/ HttpDone \/ TcpStep \/ TcpDone

Spec == Init /\ [][Next]_vars /\ WF_vars(Next)

-----------------------------------------------------------------------------
(***************************************************************************)
(* Properties.                                                             *)
(***************************************************************************)
TypeOK ==
  /\ http \in Seq(HttpConn) /\ tcp \in Seq(TcpConn)
  /\ pc \in {"http", "tcp", "done"}
  /\ k \in 1..(Len(IF pc = "http" THEN http ELSE tcp) + 1)
  /\ {n, nSsl, nHttp, nTcp, nBuffers} \subseteq Nat

\* Reference: the SslFilter a connection really has, and the buffers it
\* owns, wherever they hang.
SslOf(c) == IF "ssl" \in DOMAIN c THEN c.ssl
            ELSE IF c.sock # Null THEN c.handler ELSE Null

OwnBuffers(c) ==
  Buffers(SslOf(c)) + Buffers(c.sock)
    + (IF "ssl" \in DOMAIN c THEN 1 ELSE One(c.outbound) + One(c.inbound))

\* The prefix sums of a sequence of numbers: SumSeq(v)[j] = v[1] + ... + v[j].
SumSeq(v) ==
  LET f[j \in 0..Len(v)] == IF j = 0 THEN 0 ELSE f[j - 1] + v[j]
  IN  f

\* The sum of F over the elements of sequence s.
SumOver(F(_), s) == SumSeq([j \in 1..Len(s) |-> F(s[j])])[Len(s)]

(***************************************************************************)
(* The statistics lb_stats prints are exact: every connection of both      *)
(* lists counted once, in its own counter, every SslFilter once whichever  *)
(* way the connection holds it, and every buffer it owns once -- a TCP     *)
(* connection's SslFilter only behind its socket filter.                   *)
(***************************************************************************)
StatsExact ==
  pc = "done" =>
    /\ nHttp = Len(http) /\ nTcp = Len(tcp) /\ n = nHttp + nTcp
    /\ nSsl = SumOver(LAMBDA c : One(SslOf(c) # Null), http)
              + SumOver(LAMBDA c : One(SslOf(c) # Null), tcp)
    /\ nBuffers = SumOver(OwnBuffers, http) + SumOver(OwnBuffers, tcp)

=============================================================================
