---------------------------- MODULE LbFifoSearch ----------------------------
(***************************************************************************)
(* bp_find_slice_fifo_buffer (FindSliceFifoBuffer.invoke) driving the      *)
(* generator iter_fifo_buffers of src/tools/bp_gdb.py: the search of a     *)
(* beng-lb instance's connections for the fifo buffer whose data pointer   *)
(* is the hard-coded `ptr'.                                                *)
(*                                                                         *)
(* A connection is a record: `cluster', the protocol of                    *)
(* listener.destination.cluster, or Null when the destination has no       *)
(* cluster (it routes through a branch, see LbCluster); `input', the data  *)
(* pointer of tcp.inbound.base.input; `filter', Null or the data pointers  *)
(* the generator reads from the ThreadSocketFilter (encrypted_input,       *)
(* decrypted_input, plain_output, encrypted_output) and then from its      *)
(* SslFilter (decrypted_input, plain_output), in that order.  A null data  *)
(* pointer is 0.  The connection list is walked by                         *)
(* for_each_intrusive_list_item (IntrusiveList): here a snapshot sequence. *)
(***************************************************************************)
EXTENDS Naturals, Sequences

CONSTANTS Ptr,            \* ptr = 0x7f332c403000
          Addrs,          \* the data pointers a buffer may hold (0: none)
          FilterContents, \* the six data pointers a filter may hold
          Protocols,      \* the values cluster['protocol'] may hold
          Null,           \* a null pointer
          MaxConns        \* the longest connection list

ASSUME SearchAssumption ==
  /\ Ptr \in Addrs /\ Ptr # 0 /\ 0 \in Addrs /\ Null \notin Protocols \cup Addrs
  /\ {0, 1} \subseteq Protocols /\ FilterContents \subseteq [1..6 -> Addrs]
  /\ MaxConns \in Nat

Conn == [cluster : Protocols \cup {Null}, input : Addrs, filter : FilterContents \cup {Null}]

\* What iter_fifo_buffers yields for a TCP connection (protocol 1), as the
\* data pointers x[1]: the inbound input, then, when there is a filter, its
\* four buffers and the SslFilter's two.
Yields(c) == <<c.input>> \o (IF c.filter = Null THEN <<>> ELSE c.filter)

VARIABLES conns,    \* instance['connections'], walked in order
          pc,       \* "conn", "yield", "found", "done" or "error"
          k,        \* the connection the generator is on
          j,        \* the next of its buffers to yield
          printed,  \* what print(x) printed: <<connection, buffer>> pairs
          unknown   \* the connections printed as "unknown protocol"

vars == <<conns, pc, k, j, printed, unknown>>

(***************************************************************************)
(* Variants of the code with plausible bugs, each defined before the       *)
(* definition it would replace.                                            *)
(***************************************************************************)
\* The `break' after print(x) left out: the search goes on.
YieldNoBreak ==
  /\ pc = "yield" /\ j <= Len(Yields(conns[k]))
  /\ IF Yields(conns[k])[j] = Ptr
       THEN printed' = Append(printed, <<k, j>>)
       ELSE UNCHANGED printed
  /\ j' = j + 1
  /\ UNCHANGED <<conns, pc, k, unknown>>

\* The buffer position not reset when a TCP connection starts.
ReadProtocolKeepsPosition ==
  /\ pc = "conn" /\ k <= Len(conns)
  /\ LET p == conns[k].cluster
     IN  \/ p = Null /\ pc' = "error" /\ UNCHANGED <<k, unknown>>
         \/ p = 0 /\ k' = k + 1 /\ UNCHANGED <<pc, unknown>>
         \/ p = 1 /\ pc' = "yield" /\ UNCHANGED <<k, unknown>>
         \/ p \notin {Null, 0, 1} /\ unknown' = Append(unknown, k) /\ k' = k + 1
            /\ UNCHANGED pc
  /\ UNCHANGED <<conns, j, printed>>

\* instance = gdb.parse_and_eval(arg); the generator not yet started.
Init ==
  /\ conns \in UNION {[1..m -> Conn] : m \in 0..MaxConns}
  /\ pc = "conn" /\ k = 1 /\ j = 1
  /\ printed = <<>> /\ unknown = <<>>

(***************************************************************************)
(* The generator on connection k reads                                     *)
(* int(connection['listener']['destination']['cluster']['protocol']): a    *)
(* null cluster makes gdb raise (the command fails); protocol 0 (HTTP)     *)
(* yields nothing, 1 (TCP) starts its buffers, another one is printed as   *)
(* unknown.                                                                *)
(***************************************************************************)
ReadProtocol ==
  /\ pc = "conn" /\ k <= Len(conns)
  /\ LET p == conns[k].cluster
     IN  \/ p = Null /\ pc' = "error" /\ UNCHANGED <<k, j, unknown>>
         \/ p = 0 /\ k' = k + 1 /\ UNCHANGED <<pc, j, unknown>>
         \/ p = 1 /\ pc' = "yield" /\ j' = 1 /\ UNCHANGED <<k, unknown>>
         \/ p \notin {Null, 0, 1} /\ unknown' = Append(unknown, k) /\ k' = k + 1
            /\ UNCHANGED <<pc, j>>
  /\ UNCHANGED <<conns, printed>>

\* the connection list is exhausted: the generator ends, nothing was found
ConnsDone ==
  /\ pc = "conn" /\ k > Len(conns)
  /\ pc' = "done"
  /\ UNCHANGED <<conns, k, j, printed, unknown>>

\* `if int(x[1]) == ptr: print(x); break' on the next buffer yielded
Yield ==
  /\ pc = "yield" /\ j <= Len(Yields(conns[k]))
  /\ IF Yields(conns[k])[j] = Ptr
       THEN /\ printed' = Append(printed, <<k, j>>) /\ pc' = "found"
            /\ UNCHANGED j
       ELSE /\ j' = j + 1 /\ UNCHANGED <<printed, pc>>
  /\ UNCHANGED <<conns, k, unknown>>

\* the connection's buffers are exhausted: on to the next connection
YieldsDone ==
  /\ pc = "yield" /\ j > Len(Yields(conns[k]))
  /\ pc' = "conn" /\ k' = k + 1
  /\ UNCHANGED <<conns, j, printed, unknown>>

Next == ReadProtocol \/ ConnsDone \/ Yield \/ YieldsDone

Spec == Init /\ [][Next]_vars /\ WF_vars(Next)

-----------------------------------------------------------------------------
(***************************************************************************)
(* Properties.                                                             *)
(***************************************************************************)
TypeOK ==
  /\ conns \in Seq(Conn) /\ Len(conns) <= MaxConns
  /\ pc \in {"conn", "yield", "found", "done", "error"}
  /\ k \in 1..(Len(conns) + 1)
  /\ pc \in {"yield", "found"} => k <= Len(conns) /\ j \in 1..(Len(Yields(conns[k])) + 1)
  /\ printed \in Seq((1..MaxConns) \X (1..7)) /\ unknown \in Seq(1..MaxConns)

\* Reference: the buffers holding ptr, as <<connection, position>>, of the
\* TCP connections, and the first connection without a cluster.
Hits == {h \in (1..Len(conns)) \X (1..7) :
           /\ conns[h[1]].cluster = 1
           /\ h[2] <= Len(Yields(conns[h[1]])) /\ Yields(conns[h[1]])[h[2]] = Ptr}

FirstNull == IF \E m \in 1..Len(conns) : conns[m].cluster = Null
               THEN CHOOSE m \in 1..Len(conns) :
                      conns[m].cluster = Null /\ \A i \in 1..(m - 1) : conns[i].cluster # Null
               ELSE Len(conns) + 1

\* h comes before g in the generator's order.
Before(h, g) == h[1] < g[1] \/ (h[1] = g[1] /\ h[2] < g[2])

(***************************************************************************)
(* bp_find_slice_fifo_buffer prints the first buffer holding ptr in the    *)
(* generator's order, once, and only if no connection before it lacks a   *)
(* cluster; it finds nothing only when no TCP connection holds ptr; and    *)
(* the command fails exactly on the first connection without a cluster     *)
(* when no buffer before it holds ptr -- a buffer of a later connection    *)
(* is then never searched.                                                 *)
(***************************************************************************)
FindExact ==
  /\ pc = "found" =>
       /\ Len(printed) = 1 /\ printed[1] \in Hits /\ printed[1][1] < FirstNull
       /\ \A h \in Hits : ~Before(h, printed[1])
  /\ pc # "found" => printed = <<>>
  /\ pc = "done" => Hits = {} /\ FirstNull = Len(conns) + 1
  /\ pc = "error" => k = FirstNull /\ \A h \in Hits : h[1] > k

=============================================================================
