# Formal models of beng-proxy's debugger walkers

This directory holds TLA+ models of the code under `src/`:

* `src/tools/bp_gdb.py` is a gdb extension. It inspects a paused beng-proxy
  or beng-lb process by walking that process's intrusive containers (boost
  lists, rbtrees and hash sets), its memory-pool tree and its slab
  ("slice") allocator.
* `src/prototypes/translate.py` is a prototype of the translation server.

It has TLC configurations that check the models on small instances, and
TLAPS proofs that cover every instance.

## 1. The system and its parts

`bp_gdb.py` has no state of its own. Every command reads a snapshot of the
target process's memory and walks pointer structures in it. The parts are:

| Part | Code (bp_gdb.py) | What it does |
|---|---|---|
| MemoryView | `is_null`, `assert_gdb_type`, gdb.Value | reads fields, casts and compares addresses |
| HookOffsetResolver | `node_to_value` (134-138, 209-213, 258-262) | turns a hook address into its record's address (as gdb computes it) |
| ListWalker | `IntrusiveContainerType`, `BoostIntrusiveContainerType`, both list printers (52-195) | follows `next_`/`prev_` from the header back to the header |
| TreeWalker | `BoostIntrusiveSetType` (197-246) | in-order walk through `left_`/`right_`/`parent_` |
| HashSetWalker | `BoostIntrusiveUnorderedSetType` (248-286) | walks every bucket's circular singly-linked list |
| PoolTreeWalker | `pool_sizes`, `for_each_recursive_pool`, `pool_recursive_sizes`, `bp_pool_*` commands (37-51, 288-302, 326-458) | depth-first walk of the pool tree and its size sums |
| SliceFreeListWalker | `SliceArea`, `SlicePool`, `bp_dump_slice_pool_areas` (470-551) | meant to rebuild the free/allocated state of a slab from its free list; stops at the first area (see Findings) |
| beng-lb inspection | `lb_*_get_any_cluster` (308-320), `iter_fifo_buffers` and `bp_find_slice_fifo_buffer` (504-524, 553-565), `lb_stats` (567-652) | finds a listener's cluster, searches the connections' fifo buffers for a pointer, counts connections and buffers |
| Pretty printers | printer classes and `build_pretty_printer` (653-987) | format single values |

`translate.py` is one Twisted protocol, `Translation`. `dataReceived` cuts
the byte stream into packets. `_handle_packet` collects the packets of one
request between `TRANSLATE_BEGIN` and `TRANSLATE_END`, and `_handle_request`
answers it. A request with a widget type is answered by
`_handle_widget_lookup`, which reads the widget's file line by line.

The parts interact in one way. Every command walks containers through the
walkers: the pool commands, the slice-area loop and `lb_stats` all use the
ListWalker. All the walkers share one promise to their callers, which is
the abstract module `ContainerIter`.

## 2. Modules

| Module | Models | State | Actions |
|---|---|---|---|
| `ContainerIter` | what every walker promises | `content`, `out` | `Yield` |
| `IntrusiveList` | ListWalker and HookOffsetResolver | snapshot `next`/`prev`, ghost `recs`, the forward walker (`fcur`, `fout`) and the reverse walker (`rcur`, `rout`) | `FwdStep` (`iter_nodes`), `RevStep` (`iter_nodes_reverse`) |
| `IntrusiveListProofs` | proofs about `IntrusiveList` | | |
| `IntrusiveSet` | TreeWalker | snapshot `left`/`right`/`parent`, ghost `members`, `pc`/`cur`/`out` | `Yield`, `NextRight`, `NextUp`, `MinStep`, `MinDone`, `ClimbStep`, `ClimbStop` |
| `IntrusiveSetProofs` | proofs about `IntrusiveSet` | | |
| `SliceDump` | `bp_dump_slice_pool_areas`' loop over the pool's areas | snapshot `areas`, loop position `k`, `pc`, `dumped` | `NewSliceArea` (the type assertion passes), `NewSliceAreaRaises` (it raises), `DumpArea` (the loop body, abstract), `AreasDone` |
| `IntrusiveUnorderedSet` | HashSetWalker | snapshot `next` of bucket headers and hooks, ghost `order`/`bucketOf`, the loops' `pc`/`bk`/`node`, `out` | `EnterBucket` (for loop), `StepYield`, `StepBreak` (while loop), `LoopDone` |
| `PoolSnapshot` | the pool tree as the pool commands read it | (constants and helpers only) | |
| `PoolSizes` | `pool_sizes`, `pool_recursive_sizes` (`bp_dump_pool_stats`) | snapshot `children`/`ptype`/`netto`/`areas`, ghost `par`, the call stack `stack` (per frame: pool, area index `ai`, children done `pos`, sums `b`/`n`), `result` | `AreaStep`, `AreaDone` (area loop), `PushChild` (recursive call), `Return` |
| `PoolWalk` | `for_each_recursive_pool` as `bp_find_pool` drives it | snapshot `children`/`name`, ghost `par`, the generator stack, `out`, `found`, `err` (the loop body raised) | `Start` (yields the root pointer; printed if it matches), `Descend` (yields a child struct; raises if it matches), `Finish` |
| `TranslationServer` | `translate.py`'s `Translation` protocol | ghost `stream`, `sent`, `pc`, the chunk's unread bytes `data`, packet index `pk`, `self._packet` (`rd`), `self._request` (`req`), `responses`, `invalid`, `closed` | `Receive` (a `dataReceived` call), `ConsumeStep` (one loop iteration, with `_handle_packet`/`_handle_request`, and `_handle_widget_lookup` as the fold `WidgetLookup` of `WidgetStep` over the file's lines), `LoopExit` |
| `LbCluster` | `lb_goto_get_any_cluster` and its two callers | snapshot `cluster`/`fallback` of every goto, `dest`, the goto `cur` of the innermost call, the Python frame count `depth`, `status`, `result` | `GotoCall` (one call: return the cluster, recurse through the branch's fallback, or return None; RecursionError past the limit) |
| `LbClusterProofs` | proofs about `LbCluster` | | |
| `LbStats` | `lb_stats` | snapshot `http`/`tcp` connection lists, `pc`, index `k`, the five counters | `HttpStep`, `HttpDone`, `TcpStep`, `TcpDone` |
| `LbStatsProofs` | proofs about `LbStats` | | |
| `LbFifoSearch` | `iter_fifo_buffers` as `bp_find_slice_fifo_buffer` drives it | snapshot `conns`, `pc`, connection `k`, buffer `j`, `printed`, `unknown` | `ReadProtocol`, `ConnsDone` (outer loop), `Yield` (one yielded buffer and the caller's test and `break`), `YieldsDone` |
| `LbFifoSearchProofs` | proofs about `LbFifoSearch` | | |

### Recursion as explicit stacks

`for_each_recursive_pool` is a recursive generator and `pool_recursive_sizes`
a recursive function. Both are modelled with the Python call stack as a
sequence of frames, innermost last, holding the locals the code keeps
(the pool, the position in its children list and, for the sizes, the running
sums and the area cursor of `pool_sizes`). A call pushes a frame, a return
pops it and adds (or yields) its result into the caller. The pool's children
list is precomputed in `Init` from a parent function `par` (ghost), so every
tree of the given pools is covered.

### The translation server's environment

`PacketReader`, `Request` and `Response` come from the external
`beng_proxy.translation` library, not in this repository. They are modelled
by the protocol they implement: a packet is a `HeaderSize`-byte header and
its payload; `consume` takes bytes up to the end of its packet and returns
the rest; `packetReceived` records URI, PARAM and SESSION and returns true
on END (`Record`, `Size` are marked spec-modelled). The reactor calls
`dataReceived` with chunks of 1 to `MaxChunk` bytes, one call at a time
(Twisted is single-threaded), so a loop iteration is never interleaved with
another call. An exception in `dataReceived` makes Twisted drop the
connection (`closed`). A widget file is a constant `WidgetFiles`: for each
widget type, `Missing` (the `open` fails) or its lines, each abstracted to
its keyword and its quoted arguments (`WidgetLine`); a regular expression
of the code matches exactly when the keyword is its own and the argument
count is its own. A blank line or comment is `""` or `"#"`.

### How the models abstract memory

The inspected process is paused (spec.md section 5), so its memory never
changes during a walk. Each model fixes memory in `Init` as functions from
addresses to pointer fields, and no action changes them.

* Init builds only structures that the C++ side really keeps: circular
  lists, binary search trees with boost's header conventions, bucket
  arrays of circular lists, pool trees.
* A ghost variable records the logical content the pointers encode.
* A record's hook lies at `record + HookOffset`, a byte offset, and the
  runs use a non-zero one. `node_to_value` is modelled as gdb evaluates
  it. The list's member-hook branch (line 138, the only one its callers
  with a member hook reach) subtracts `bitpos // 8` from a `list_node *`,
  and gdb's pointer arithmetic scales that by `sizeof(list_node)`:
  `IntrusiveList.NodeToValue(node) == node - HookOffset * NodeSize`. The
  two set printers construct their type without a member hook and take the
  cast branch (lines 211, 260); the hook is a base class of the value, and
  gdb's pointer downcast subtracts the base sub-object's byte offset:
  `NodeToValue(node) == node - HookOffset` there.
* A walker yields values, not records: `for_each_intrusive_list_item`
  dereferences what `node_to_value` returns, so its callers get `struct`
  values. `SliceDump` and `PoolWalk` keep that type where the caller's
  behaviour depends on it.
* Each code loop is one action, or a `pc` state machine when loops are
  nested (`_next_node` calls `_minimum` and has its own upward loop).

## 3. Runs

| Run | Config | Checks | Shows |
|---|---|---|---|
| `list_walk` | `MCIntrusiveList.cfg` | TypeOK, WalksMirror, IInv, WalksTerminate, WalksRefine | Over every list of up to 3 records, the forward walk yields `node_to_value` of the hooks in list order and the reverse walk the same values reversed. Both walks stop, and each implements `ContainerIter` over those values. |
| `list_owner` (violation) | `MCIntrusiveListOwner.cfg` | OwnersRecovered | With a hook 8 bytes into the record and a 16-byte `list_node`, the walk yields `node - 128`, not the record. |
| `set_walk` | `MCIntrusiveSet.cfg` | TypeOK, InOrder, CompleteAtEnd, WalkTerminates, IterRefines | Over every BST on up to 4 records (all shapes), the walk yields each member once, in ascending order, then stops at the header. |
| `slice_dump` (violation) | `MCSliceDump.cfg` | EveryAreaDumped | On a pool with an area, `bp_dump_slice_pool_areas` raises at the first one and dumps nothing. |
| `hashset_walk` | `MCIntrusiveUnorderedSet.cfg` | TypeOK, CompleteAtEnd, WalkTerminates, IterRefines | Over every hash of up to 3 records into 2 buckets, the walk yields bucket 0's list then bucket 1's, each record once, returns, and implements `ContainerIter`. |
| `pool_sizes` | `MCPoolSizes.cfg` | TypeOK, SizesExact, SizesTerminate | Over every tree of 3 pools, every choice of linear or other type, net sizes and area chains of up to 2 areas, `pool_recursive_sizes` returns the gross and net sums over the subtree (`SizesExact`, against a `MapThenSumSet` reference), and returns. (`FramesAccount`, that each frame holds exactly what it has seen, is the invariant behind it, kept in the module but not run.) |
| `pool_walk` | `MCPoolWalk.cfg` | TypeOK, FindExact, WalkTerminates, IterRefines | Over every tree of 4 pools and every naming with 2 names, the walk yields a prefix of the pre-order (a `RECURSIVE` reference). `bp_find_pool` prints the root if it has the name, and raises exactly at the first descendant in pre-order that has it (`FindExact`). |
| `pool_find_all` (violation) | `MCPoolWalkFindAll.cfg` | FindsAll | `bp_find_pool` does not print every pool with the name: the first matching child makes it raise. |
| `translation` | `MCTranslationServer.cfg` | TypeOK, ByteAccounting, ResponsesMatch, WidgetLookupExact, AllAnswered | Over every stream of up to 4 packets and every chunking, no byte is lost or double-counted, the responses are those of a declarative reading of the stream (an END answers the last BEGIN before it if no END comes between), and the connection dies exactly at the first request with neither URI nor widget type. A widget request is answered 404 for a missing file and otherwise with the packets of the lines before the first bad one, then status 500 (`WidgetLookupExact`, against a reference built with `FlattenSeq`). |
| `lb_cluster` | `MCLbCluster.cfg` | TypeOK, AnyClusterExact | Over every configuration of 3 gotos (each with a cluster or not, a fallback to any goto or none) and a limit of 7 frames, the lookup returns the first cluster along the fallback chain (None when it ends without one) and raises RecursionError exactly when the chain loops without a cluster. |
| `lb_stats` | `MCLbStats.cfg` | TypeOK, StatsExact | Over every pair of HTTP and TCP lists of up to 2 connections, each with no filter, a filter with one buffer or one with four, and every outbound/inbound allocation, the five counters equal a reference sum over the connections. |
| `lb_fifo_search` | `MCLbFifoSearch.cfg` | TypeOK, FindExact | Over every list of up to 3 connections of protocol 0, 1, 2 or no cluster, with inputs and filters holding the pointer nowhere, once or twice, the command prints the first match once, and fails exactly at the first connection without a cluster when nothing before it matched. |

### Bounds

* Lists of up to 3 records cover the cases that matter: empty, one record
  (where `next` and `prev` of the node coincide), and a middle node.
* Trees on 4 records cover all 14 shapes. These include the case that
  drives `_next_node`'s special return (line 231): a root without a right
  subtree, reached by climbing to the header.
* Pools of up to 2 areas show the slice dump raising at the first area;
  the empty pool is the one case where the command returns.
* Two buckets and three records give empty buckets, buckets of one and of
  several records, first and last buckets empty or not.
* Pool trees of 3 pools (sizes) and 4 pools (walk) give chains, a root
  with several children and a child with its own children, so returns
  happen at every depth. Area chains of 0 to 2 areas with sizes 4 and 8
  keep sums distinguishable.
* Packets of 2 or 3 bytes and chunks of 1 to 3 bytes make chunks end
  inside headers, inside payloads and on boundaries, and hold several
  packets. Four packets give a BEGIN inside a request, packets before any
  BEGIN, two requests in a row, and an END without URI followed by another
  request. Two widget types, one with a missing file and one whose file has
  a comment, two accepted lines, a malformed line and a line after it,
  cover every branch of the line loop.
* Three gotos give chains of length 1 to 3, self-loops and longer cycles,
  and a cluster before or after a cycle; a limit of 7 frames is above
  twice the number of gotos (`LimitAssumption`), so an acyclic chain never
  reaches it.
* For `lb_stats`, two connections per list and filters with one or four
  buffers make every counter distinguish a connection, an SSL filter and a
  buffer counted twice or not at all.
* For the fifo search, three connections let a match, a null cluster and
  an unknown protocol come in every order.

### Fairness

Each walker is a single Python generator that the command drives to
exhaustion. The driver never stops while a step is enabled, so weak
fairness of `Next` is justified. It is assumed only for the liveness
properties. For the translation server, weak fairness of `Next` says that
the loop runs to its end and that the client's bytes, once sent, are
delivered: TCP delivers what was written while the connection is open.

## 4. Findings

* **The list's member-hook `node_to_value` is scaled** (`bp_gdb.py:138`).
  `node.dereference().address` is a `list_node *`; subtracting
  `bitpos // 8` from it moves back that many list_nodes, not bytes. A
  hook at byte 8 of a record yields `node - 128` on a 64-bit target
  instead of the record. spec.md 4.2 gives owner = node - offset, and its
  test expects the record back. The only caller with a member hook,
  `bp_dump_pool_allocations` (line 408, `siblings`), therefore reads and
  prints the wrong memory. Run `list_owner` shows this.
* **`bp_dump_slice_pool_areas` stops at the first area**
  (`bp_gdb.py:473`). `SliceArea.__init__` asserts a `SliceArea *`, but
  `SlicePool.areas` hands it what `for_each_intrusive_list_item` yields,
  a dereferenced `SliceArea` struct. `assert_gdb_type` compares the type
  names and raises `GdbError`, so no free list is ever walked, against
  spec.md 4.7. Run `slice_dump` shows this. Behind that assertion,
  `get_slice` (line 483) would fail as well: in Python 3 `/` yields a
  float, which gdb cannot add to a pointer.
* **`bp_find_pool` raises on a matching descendant** (`bp_gdb.py:436`).
  Its loop body prints `x.dereference()`. The root is the pointer the
  user gave, but for_each_recursive_pool yields every descendant as a
  `struct pool` value, and `dereference()` of a struct raises. The command
  prints a matching root and stops at the first matching descendant.
  Run `pool_find_all` shows it does not print every pool with the name;
  `FindExact` in `pool_walk` states what it does instead.

## 5. Proofs

`IntrusiveListProofs` proves four theorems for every set of records, hook
offset, node size, header address and list length. They are about the
values the walks yield, `Owner(r) = NodeToValue(NodeOf(r))`, which is
not the record when the hook offset is non-zero (see Findings):

* `TypeCorrect`: `Spec => []TypeOK`.
* `MirrorCorrect`: `Spec => []WalksMirror`.
* `InvariantHolds`: `Spec => []IInv`.
* `RefineCorrect`: `Spec => WalksRefine`. The forward walk implements
  `ContainerIter` over `Yielded(recs)` (the owners of the hooks, in list
  order), and the reverse walk implements it over `RevSeq(Yielded(recs))`.

Neither `TypeOK` nor `WalksMirror` is inductive. The inductive invariant
`IInv` says:

* the pointers are those of the ghost list `recs`;
* each walker's output is the owners of a prefix of `recs`, or of its
  reverse;
* each cursor is the node at the next position of that prefix (`FwdAt`,
  `RevAt`), or the header once the prefix is complete.

`WalksMirror` follows from `IInv` when both cursors are on the header. The
run `list_walk` also checks `IInv` as an invariant.

The refinement proof has three steps. First, `Init` maps to the initial
states of both iterators (`InitRefines`). Second, under `IInv` a
`FwdStep` appends the next value of `Yielded(recs)` (`FwdStepYields`), so it is a
`Yield` of `FwdIter`. It leaves `recs` and `rout` alone, so it is a
stutter of `RevIter`. `RevStep` is the mirror case (`RevStepYields`,
`NextRefines`). Third, a PTL step combines these with `InvariantHolds`.
`ContainerIter` has no fairness, so no `ENABLED` argument is needed.

`IntrusiveSetProofs` proves three theorems for every record set, hook
offset, header address and tree size:

* `InvariantHolds`: `Spec => []IInv`.
* `TypeCorrect`: `Spec => []TypeOK`.
* `MembersOnly`: `Spec => []YieldsMembers`. Every yielded record is a
  member of the set. Here `NodeToValue` is the printer's base-class
  downcast, which does recover the record.

`TypeOK` includes `cur \in Nodes`. Its real content is that `_next_node`'s
upward loop, which reads `parent_` and then `right_` of that parent, never
stands on null. `TypeOK` is not inductive. The inductive invariant `IInv`
adds two conjuncts and `YieldsMembers`:

* `PtrsOK`: a member's `left_` and `right_` are member hooks or null, and
  its `parent_` is a member hook or the header. When the set is non-empty,
  the header's `left_` and `parent_` are member hooks.
* `CurOK`: `_next_node` and `_minimum` stand on a member hook.
  `iter_nodes`' loop and the upward loop stand on a member hook or the
  header. Only `iter_nodes`' loop runs on an empty set.

No step changes the pointers, so the steps preserve `PtrsOK` trivially
(`NextIInv`). The work is in `InitIInv`: every tree Init builds satisfies
`PtrsOK`. For that, the proof shows:

* `Child` returns a member's hook or null (`ChildIn`);
* `TreeParent` returns a member (`TreeParentIn`). The first inserted record
  lies before every other one, so one of the two neighbours exists. Of at
  most two candidates, one was inserted last;
* `SetMin` and `SetMax` exist on the sets they are applied to. For
  `SetMin` this is `WFMin`. For `SetMax`, the least upper bound of a bounded
  set of naturals is in the set (`SetMaxIn`). The bound comes from
  `SeqBounded`, which is proved by least counterexample.

`LbFifoSearchProofs` proves `FindCorrect`: `Spec => []FindExact`, for
every pointer, address set, filter contents, protocol set and bound on the
connection list. `FindExact` speaks of the end of the search. The inductive
invariant `SearchInv` says what the generator has passed over:

* no connection before `k` lacks a cluster (`NoNullBefore`);
* no buffer holding the pointer lies before the position `(k, j)`
  (`NoHitBefore`);
* the connection being walked is a TCP one;
* after a match, `printed` holds that position and nothing else; after an
  error, connection `k` has no cluster.

`FirstNull` is defined with `CHOOSE`. That the first connection without a
cluster exists when any does comes from `WFMin` and
`NatLessThanWellFounded` of `WellFoundedInduction`. Those theorems take
sets, not operators, so the provers can use them. `YieldsType` bounds what
a connection yields to seven pointers. `lb_fifo_search` checks the same
property on lists of up to three connections.

`LbFifoSearchProofs` also proves `TypeCorrect`: `Spec => []TypeOK`.

`LbClusterProofs` proves `TypeCorrect` and `ClusterCorrect`:
`Spec => []AnyClusterExact`. They hold for every finite goto set, every
cluster and fallback assignment, and every recursion limit above twice the
number of gotos (`LimitAssumption`). `AnyClusterExact` compares the
lookup's outcome with the reference `AnyCluster`. That reference is the
first stopping goto (`Stopping`) on the fallback paths (`Paths`) of at
most `Cardinality(Gotos)` steps. The inductive invariant `ClusterInv` says
three things:

* `cur` ends a fallback path of `m` steps from `dest` with `depth = 2m+1`,
  and no goto before it stops (`OnPath`);
* a returned result is `cur`'s cluster, and `cur` stops;
* an error happens only at a goto that does not stop, past the limit.

Two lemmas turn an error into "no stop at all". Every path of more than
`Cardinality(Gotos)` steps repeats a goto, by `FS_PigeonHole`. A path
without a stopping goto that repeats one goes round a cycle for ever
(`FirstStopBound`, `PathsShift`). Under `LimitAssumption` an error
therefore means the chain never stops. `NatMin` gives the least stopping
step, so the `CHOOSE` in `AnyCluster` picks the goto the code returns
from.

`LbStatsProofs` proves `TypeCorrect` and `StatsCorrect`:
`Spec => []StatsExact`. They hold for connection lists of any length and
every filter contents. The sums of `StatsExact` are prefix sums
`SumSeq(v)`, a recursive function. The lemma `SumSeqDef` derives its
defining equations from a function that solves them. That function exists
by a least-counterexample argument (`PrefixSumsExist`, with `NatMin`).
The inductive invariant `StatsInv` says two things:

* in the HTTP loop the counters hold the sums over the first `k-1` HTTP
  connections;
* in the TCP loop and at the end, they hold the whole HTTP sums plus those
  over the first `k-1` TCP connections.

`ConnCounts` says what one connection adds. An HTTP connection adds its
`ssl_filter` and its own buffer. A TCP connection adds an SslFilter only
behind a socket filter.

All inductive invariants named here (the two `IInv`s, `SearchInv`,
`ClusterInv`, `StatsInv`) were also checked by
TLC, as invariants under the configuration of their module's run.

Some safety properties are model-checked only, because each rests on an
operator the provers cannot unfold:

* `TranslationServer`'s properties and `PoolSizes`' `SizesExact` use the
  folds of `Folds` and `FiniteSetsExt` (`FoldLeft`, `MapThenSumSet`). The
  folds are defined by an operator-parameterised recursion, and no
  installed prover can instantiate it.
* `IntrusiveUnorderedSet` uses `SelectSeq` and `FlattenSeq`.
* `IntrusiveSet`'s `InOrder` and `CompleteAtEnd` need the search-tree
  order of the trees Init builds. That order is defined through
  `TreeParent`'s `CHOOSE` over insertion orders. An invariant relating it
  to the walk, such as "every yielded record is below every record of the
  unvisited subtrees", needs induction over insertion, which is not proved
  here. `IterRefines` rests on `InOrder`, so it stays with TLC too.
* `PoolWalk` declares `RECURSIVE` operators. In such a module tlapm has no
  SMT backend.

Liveness (`WalksTerminate`, `WalkTerminates`, `SizesTerminate`,
`AllAnswered`) is model-checked only. TLAPS cannot reason about fairness
and `ENABLED`. Of the refinements, only `WalksRefine` is proved.
`IterRefines` of `IntrusiveUnorderedSet` and of `PoolWalk` map to content
built with `FlattenSeq` and with a `RECURSIVE` pre-order. The provers cannot
unfold either, so these stay with TLC.

## 6. Not modelled

* The gdb value API, type lookups and printing. These are data access and
  formatting with no control flow of interest.
* The pretty printers other than their iterators, which are the walkers
  above.
* `bp_pool_children` and `bp_dump_pool_recycler`: one list walk and one
  chain walk, which `IntrusiveList` and `PoolSizes`' area loop already model.
* `bp_dump_pool_stats`' SlicePool branch.
* The slice free-list walk, its bound check and `get_slice`
  (`bp_gdb.py:538-551`, 478-486): no input reaches them, since the
  assertion in `SliceArea.__init__` raises first. `SliceDump` keeps them
  as one abstract step.
* `for_each_intrusive_unordered_set_item` (283-286): it has no caller; the
  unordered-set printer calls `iter_values` directly.
* In `_handle_widget_lookup`, the regular expressions themselves (a line
  is its keyword and argument count) and the path built from the widget
  type; `translate.py`'s `__main__` (listening).
* beng-lb's `lb_stats` first two prints (the boost size fields) and the
  connection lists' own walk, which is the ListWalker's.

## 7. Plan

1. ListWalker and its proofs (done).
2. TreeWalker (done).
3. SliceFreeListWalker: modelled up to the assertion that stops it.
4. HashSetWalker (done).
5. PoolTreeWalker (done).
6. beng-lb inspection: cluster lookup, fifo search, `lb_stats` (done).
7. The translation server's packet reassembly and request state machine (done).
8. Proofs for the fifo search (done).
9. Proofs of `AnyClusterExact` and `StatsExact` (done).
10. The list walkers' refinement of `ContainerIter`, and the TreeWalker's
    type correctness and `YieldsMembers` (done). Next: the TreeWalker's
    order invariant, and local sequence helpers to replace `SequencesExt`
    in `IntrusiveUnorderedSet`, so that its invariants can be proved.
