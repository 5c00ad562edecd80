# LightNVM: a TLA+ development of the OCSSD server

The repository is a small server that partitions open-channel SSDs among
clients.  It carves *virtual OCSSDs* (channels, or block ranges of LUNs) out of
the devices of a node, hands them to clients over TCP, serves block reads,
writes and erases of the ones used remotely, and publishes what is left to an
Azure table.  This directory holds TLA+ models of its core, the TLC runs that
check them on small instances, and proofs that TLAPS checks.

## 1. Inventory

| Part | Source | State | Operations |
|---|---|---|---|
| Resource manager | `ocssd_server.h` 755-1163 | `ocssds_`, `vssd_id_`, per unit the shared and exclusive channels, per channel `used_`, `num_used_blocks_`, per LUN `num_used_`; two levels of mutex | `add_ocssd`, `alloc_ocssd_resource`, `get_ocssd_stats` |
| Resource publication | `publish_resource` (`ocssd_conn.h`, `ocssd_libevent_server.cc`), `azure_insert_entity` | one table row per device, in a table that all nodes share and that outlives the servers | at start-up and after each allocation |
| Start-up and event loop | `ocssd_libevent_server.cc` | registered events | `main`, `on_accept`, `on_read`, `on_write`, `interrupt` |
| Connections | `ocssd_conn.h` | `message_buf_`, `message_end_`, `writeq`, `ev_read`, `ev_write`, `blks_array_` | `process_command` and the four requests |
| Virtual blocks of a remote virtual OCSSD | `initialize_vssd_blocks`, `generate_units` | `blks_array_` | striping, self test |
| Wire format | `ocssd_server.h` 150-753 | none | serialize, deserialize |
| Demo client | `ocssd_client.cc` | one socket | `test_local_ocssd`, `test_remote_ocssd` |
| Thread pool | `threadpool.h`, `locker.h` | queue, mutex, semaphore, `m_stop` | `append`, `run`, destructor |
| Azure tools | `azure_access.cpp`, `azure_get.cc`, `azure_delete.cc` | the table | list, delete all rows |
| Benchmarks | `vblk_writetest.cc`, `vblk_readtest.cc` | pages written on the device | write or read virtual blocks over growing sets of channels with doubling sizes |
| Straight-line benchmarks, examples, echo client, socket helpers | the rest | none | - |

How they interact.  `main` probes the devices, publishes them and enters one
libevent loop.  `on_accept` creates an `ocssd_conn` per client and adds its read
event.  `on_read` reads one 24-byte message (and the data of a write) and runs
the command to its end; an allocation calls the manager, queues the serialized
virtual OCSSD and publishes the statistics, a read queues the data.  Queued
replies are sent by `on_write`, a buffer or a part of one per event.  The
manager never takes anything back.  The thread pool is a header that no program
includes.

What is hard to get right, and what the properties are for (the full list, at
its lines, is `hazards` in `PROJECT.json`):

* *Manager.*  Grants built in many small steps on unsigned counters that are
  kept twice (LUN and channel), divided twice with rounding, and carried from
  unit to unit.  Correct when no block is owned twice or lost, the counters
  agree, no request gets more than it asked for or is refused without cause, and
  calls return.
* *Concurrency.*  The classes carry mutexes although today's server runs them
  from one thread.  Correct when any number of threads may call the manager.
* *Publication.*  Statistics read under a mutex and written after it.  Correct
  when the row is current once a request is done.
* *Connections.*  A byte stream cut anywhere, partial writes, an event that must
  be re-armed by hand, peers that leave at any moment, descriptor numbers that
  are reused.  Correct when a client gets its replies, whole, in order and nobody
  else's, its blocks hold what it wrote, and its descriptor comes back.
* *Virtual blocks.*  Stripes over LUNs whose ranges start and end at different
  blocks, found by two separate walks over the channels; blocks that fail their
  test; a self test that erases.  Correct when the stripes are exactly what was
  granted, indexes keep their meaning and nobody else's block is touched.
* *Wire format.*  Unchecked lengths, an unchecked reply buffer, padding, fields
  narrower than their arguments, a reply taken with a single `recv()` whose result
  nobody looks at.
* *Table.*  Rows shared by nodes that restart and fail while a tool deletes them,
  under keys that nodes without an `eno1` have in common.
* *Thread pool.*  A semaphore posted after the mutex is released, waits whose
  failure is ignored, a limit tested with `>`.  Correct when each accepted
  request runs exactly once and the queue stays bounded.

## 2. Modules

| Module | Models | Lines of code behind it |
|---|---|---|
| `BlockOwnership` | abstract specification: what the manager promises | - |
| `OcssdManager` | manager, units, channels, LUNs, publication, start-up | `ocssd_server.h` 758-1158, `process_alloc_request`, both `publish_resource` |
| `OcssdManagerProofs` | inductive invariant of `OcssdManager`, the refinement of `BlockOwnership`, and the proofs about single requests: channels and blocks counted, one range per LUN, refusals, publication | - |
| `OcssdConn` | connections, callbacks, clients and network | `ocssd_conn.h`, `on_accept`, `on_read`, `on_write` |
| `OcssdConnProofs` | inductive invariant of `OcssdConn` and its theorems | - |
| `VssdBlocks` | virtual blocks of a remote virtual OCSSD | `initialize_vssd_blocks`, `generate_units`, `generate_addr` |
| `OcssdServer` | composition of `OcssdManager` and `VssdBlocks` by `process_alloc_request`, and the data on the device | `process_alloc_request`, `initialize_remote_vssd`, `nvm_vblk_test`, the block requests |
| `Order` | `Sorted`, the ascending sequence of a set of numbers: the order in which loops meet channels and LUNs | `alloc_shared_channels`, `alloc_exclusive_channels` |
| `SequenceFacts` | lemmas about concatenation, `FlattenSeq`, `Sorted` and suffixes | - |
| `OcssdServerProofs` | inductive invariant of `OcssdServer` and its theorems | - |
| `WireFormat` | what serialize writes and deserialize reads | `ocssd_server.h` 150-747 |
| `AllocExchange` | demo client and server exchanging such messages | `ocssd_client.cc`, `ocssd_conn.h` 302-352 |
| `AllocExchangeProofs` | proof that requests are decoded to what was encoded | - |
| `ResourceTable` | the table, servers of several nodes, the deleting tool | `azure_access.cpp`, both `publish_resource`, `get_ip` |
| `ResourceTableProofs` | inductive invariant of `ResourceTable` and its theorems | - |
| `VblkBench` | the write and the read benchmark on one device | `vblk_writetest.cc`, `vblk_readtest.cc` |
| `VblkBenchProofs` | invariants of `VblkBench` and its theorems | - |
| `ThreadPool` | `threadpool<T>`, `sem`, `locker` | `threadpool.h`, `locker.h` |
| `ThreadPoolProofs` | inductive invariant of `ThreadPool` and its theorems | - |
| `MCOcssdManager`, `MCOcssdConn`, `MCThreadPool`, `MCOcssdServer`, `MCAllocExchange`, `MCResourceTable`, `MCVblkBench` | instances for TLC | - |

### OcssdManager

A caller is a thread inside `process_alloc_request`.  `pc` says where it is;
everything between taking and releasing `manager.mutex_` works on one record,
`frame`, because only the holder of the mutex is there.  One action is one
iteration of a loop of the code:

| Code | Actions |
|---|---|
| `initialize_ocssd_manager`, `main` | `ProbeDevice`, `StartServing` |
| `alloc_ocssd_resource` | `CallManager`, `LockManager`, `NextUnit`, `Finish` |
| `ocssd_unit::alloc_channels` | `LockUnit`, `UnlockUnit` |
| `alloc_shared_channels`, `ocssd_channel::alloc_blocks`, `ocssd_lun::alloc_blocks` | `SkipSharedChannel`, `EnterSharedChannel`, `AllocLun`, `LeaveSharedChannel` |
| `alloc_exclusive_channels` | `SkipExclusiveChannel`, `TakeExclusiveChannel` |
| `publish_resource` | `GetStats`, `InsertEntity` |

What is handed out is kept as flat sets: `vluns`, one record per
`virtual_ocssd_lun`, and `vchannels`, one per exclusive `virtual_ocssd_channel`;
`alloc_units` is the vector of that name while it is being filled.
`get_ocssd_stats` is one action because nothing can interleave with it under the
unit's mutex.  The shared/exclusive test is `shared == 1`, as in the code, so the
requests include other values.  `vssd_id_` is 32 bits wide and bounded far below
that.

`BlockOwnership` has two steps: the virtual OCSSD under construction receives
free blocks, or it is sealed and the next id starts.  The refinement mapping
computes the owners of each physical block from `vluns`, `alloc_units` and
`vchannels`.

### OcssdConn

One libevent loop runs every callback to its end, so `cb` is the callback under
way.  `on_accept` and `on_write` are single actions; `on_read` is split at each
`read()`, because the network may deliver between two of them: `OnRead`,
`ReadMessage`, the commands, `ReadPayload`, `WriteVblk`, and `ReadReturnsZero`
and `ReadReturnsError`, which both disconnect.

Clients follow a script of requests; since what a client sends is fixed by its
script, the receive queue of a socket is a pair of counters into its stream.  A
message is `MsgLen` units, of which the first is the header; a write is followed
by its data.  Virtual blocks are sequences of units: writes append and fail when
the block is full, reads beyond the write position fail and the reply carries
`Garbage`, as the buffer comes from `malloc`; a read of no bytes is answered by
nothing.  `GetBlock` is `GetBlockPointer`, which has no result for an index that
was not granted; here such an index names a block without data.  `nvm_vblk_test`
leaves a new block fully written, which is why the test client erases first.

The manager appears as a free choice between `ProcessAlloc`, `RefuseAlloc` and
`OpenDeviceFails`; the exceptions of the Azure client have the effect of
`ProcessAlloc` followed by the end of the server.  External, and modelled from
how the code uses them: TCP delivery, the descriptor table (lowest free number),
liblightnvm's blocks, and libevent, which reports an event registered for a
descriptor number for whatever that number refers to now.  `OnWriteError` is
offered beside `OnWrite` whenever the peer has closed, since the first write
after that may still succeed.

### VssdBlocks

One call of `initialize_vssd_blocks` at a time, its locals in `loop`.
`FormStripe` is one pass over the LUNs; it uses the code's two walks separately,
`GenerateUnits` for where each LUN begins and `LunsVisited` for where it ends
(they test `shared_ == 1` and `shared_ > 0`, which on the server, where `shared_`
is 0 or 1, is the same).  `TestPasses`, `TestFails` and
`AllocVblkFails` are the outcomes of allocating and testing the stripe, `Return`
the pass that finds nothing.  `num_blks_` counts one call, `blks_array_` grows
over all of them.  `stripes` is a history of the stripes formed, passed or
failed.  The module is checked inside `OcssdServer`, where the grants come from
the manager.

### OcssdServer

The callers of `OcssdManager` are connections, and a callback runs to its end
before the next one starts.  `AllocResource` is every step of
`alloc_ocssd_resource`; the last one gives the virtual OCSSD to the connection.
A remote one is then set up by `InitializeRemote`, `Stripe` and `SelfTest` from
the description that the manager's loops produced (`UnitZero`), and
`PublishResource` comes last, as in `process_alloc_request`.  `contents` keeps
for each physical block the connection that erased or wrote it last:
`RemoteAccess` is a write or erase request, `LocalAccess` a client that uses its
blocks without the server, at any time.  The self test overwrites all blocks of
the stripe even if it fails; writing fewer would be the same, or less, to the
properties.  The device opens; that it might not is in `OcssdConn`.

### WireFormat and AllocExchange

`WireFormat` defines the byte sequences as operators: little-endian fields of 4
and 8 bytes, the padded name, channels and LUNs, and the decoders with their
cursor.  The decoders read on beyond the end of a message, as the code does.
`AllocExchange` is one client with its buffer: the request is serialized into
it, and the reply, or the first part of it, received over it (`RecvReply`), or
nothing, when `recv()` returns 0 or -1, which the client takes for a reply all the
same (`RecvNothing`).  The server answers whatever was granted (`ProcessAlloc`),
or nothing (`RefuseAlloc`); when the reply is longer than its buffer, serialize
writes beyond it, and the server may also die of that (`SerializeOverruns`).
`AfterDecode` is what follows `deserialize`: the client with local access uses the
first unit (`get_unit(0)`), which has no defined result when none was decoded, and
neither has reading beyond the client's buffer.  Requests arrive whole;
`OcssdConn` is about those that do not.  The digits of a field are taken
one by one (`Data4`), and several fields in a row are a function of the position
(`Data4s`, `Data8s`), which is what the proofs need.

### ResourceTable

Nodes boot, publish, allocate, fail in `azure_insert_entity` (nobody catches
its exceptions) and restart with everything free, since nothing is kept.  A row
key is the address of `eno1` with the device path (`get_ip`, `desc_`).  The tool
takes the result of one query and deletes row by row; the library may compare
the row's tag or not, so for a row replaced meanwhile `DeleteEntity` and
`DeleteFails` are both possible, and `DeleteFails` is so at any time, since the
service may be out of reach.  Any number of nodes may be without `eno1`; their
keys are then the same, and each writes over the other's rows.

### VblkBench

Both programs are one module because their loops are the same up to writing or
reading.  Sizes are counted in the smallest request and stored in an int that
wraps (`ToInt`); `pages` is what the device keeps between the programs, which run
in any order.  A power of two is said to be a number without an odd divisor but 1.
`AnotherPass` is the condition of the code's loop, also for a `start_size` that has
become negative: the remainder of C is zero for the same divisors whatever their
sign (`Magnitude`).

### ThreadPool

One action per step between two synchronisation calls.  `Lock` serves `append`
and `run`.  `WaitInterrupted` is a `sem_wait` that fails, whose result `run`
ignores.  `Destroy` only sets `m_stop`: the workers are detached, not woken and
not joined, so what follows the destruction is undefined and not modelled.

Definitions marked "Faulty variant" are plausible bugs in place of the
definition after them.  Each property of each passing run is shown to be violated
when the variant named in `PROJECT.json` takes the definition's place.

## 3. Runs

| Run | Instance | Shows |
|---|---|---|
| `one_unit` | 1 device of 3 channels (2 shared) x 2 LUNs x 3 blocks, 1 caller, 3 requests | the server as built: ownership, accounting, counters, refusals, publication |
| `two_units` | 2 unlike devices, each possibly missing, 1 shared channel each, 2 threads, 3 requests | requests that span units; the inductive invariant, the refinement and termination under interleaving |
| `conn_well_behaved` | 2 clients running `test_remote_ocssd`, whole messages | own replies only, every script served |
| `conn_torn` | 1 client, 13 requests, stream cut anywhere, may leave any time | exact commands, replies and blocks; armed write event; descriptors returned |
| `pool` | 2 appenders, 2 workers, 3 requests (one null), limit 1 | bounded queue, no lost wake-up, exactly once, all processed |
| `server` | 3 channels (2 shared) x 2 LUNs x 2 blocks, 2 connections, 3 requests, local or remote | nobody's data is touched by another; virtual blocks apart, equal to the grant, in order, with lasting indexes; requests end |
| `wire` | 4 requests, 4 I/O requests, 6 grants (one too large for the buffers), reply cut at each byte or missing | requests understood; replies read back exactly; of a reply cut behind its header the client decodes a part of its grant and nothing else |
| `table` | 3 nodes x 2 devices, two nodes without `eno1`, one tool, 5 rows written | rows current, but for those two nodes writing over each other's; deleted completely |
| `bench` | 5 channels, 4 pages, nvme0n1 or another device, ints up to 15 | what was written can be read; all sizes measured in spite of overflow |

Three runs show where the code departs from what the repository says of it
(`findings` in `PROJECT.json`):

* `spurious_disconnect`: with the stream cut, a `read()` that finds nothing yet
  returns `EAGAIN`, which `process_command` and `process_write_request` take for
  a socket failure.  The demo client's one-megabyte write depends on timing.
* `leaked_conn`: the comments say the client structure is freed on disconnect;
  no live code does it.
* `misdirected_reply`: a client that leaves with a reply queued leaves `ev_write`
  registered; the next client with that descriptor number is sent the reply.

Two more places are modelled as the code has them, without a run of their own.
The error path for a failed `nvm_vblk_alloc` (`ocssd_conn.h` 258-263) stands
behind a call that dereferences its result, so the server dies there
(`AllocVblkFails`, in `VblkBench` as well).  A failed write in `vblk_writetest.cc` is printed and passed
over, and the assertion at the end of the pass (line 86) then aborts the program
(`EndPass`).

`BlocksWithinRequest` is checked, and proved, with one unit only.  With two it
fails: each unit divides all of `NUM_BLOCKS` by the channels still missing, so a
request for 4 blocks in 2 channels can get 2 from the first unit and 4 from the
second.  The code marks the place with a FIXME, and the server probes a single
path.

`ShortReplyHarmless` is about a reply of which at least the 12 bytes of the header
arrived, and that fits the client's buffer.  Nothing of the kind holds of less:
the buffer still has the request in it, whose magic number differs from that of a
reply in the first byte only, so one byte received makes the client read its own
`NUM_BLOCKS` as the number of units.  And nothing bounds a reply: `serialize` writes
12 bytes for each LUN of each shared channel and 16 for each exclusive channel into
1024 bytes, which is enough for 4 shared channels of 17 LUNs or 57 exclusive
channels granted; 4 shared channels of 32 LUNs make 1708 bytes.  Since the code has
no check, no property says that a reply fits; the model has such a grant and what
may follow from it.

### Bounds

* `SharedLimit` is 4 in the code; 1 or 2 with 2 or 3 channels keeps both kinds
  of channel and a shared loop of two iterations.
* `MaxAllocs` 3: enough to fill a LUN unevenly, meet it full, and take the last
  exclusive channel, with a refused request after it.
* 3 blocks per LUN and requests of 0 to 13 blocks: shares that round to 0, fit
  exactly, leave a remainder or exceed what is left.
* `MsgLen` 2, `AllocLen` 3, `SockBuf` 2, `BlkLen` 3: a message, a reply and a
  write can each be cut, and a reply needs two writes.
* `two_units`, with its two threads, is more general than today's
  build, which probes one path and has one thread; the classes are written for
  both.
* `server`: a first request that takes a block of each LUN of one channel makes
  the next one's ranges start and end differently, so stripes are 4 and 2 blocks
  wide; 3 requests let a local and two remote grants share a LUN, or one
  connection have two.  Local clients write the first block of each channel's
  first LUN (`LocalBlocks`), remote ones any.  The connections are alike, and the
  first request is fixed to be the first one's (`FirstRequest`).  One device, as
  the server probes one path; `initialize_remote_vssd` would set up only the
  first unit of several.
* `wire`: bytes have 8 values instead of 256, because TLC's integers have 32
  bits; the widths of fields and the buffers of 1024 bytes are the real ones.
  The grants include the largest that fit, 17 LUNs in each of 4 shared channels
  and 57 exclusive channels, and one that does not, 32 LUNs in each of 4.
* `table`: 5 rows written: a node publishes, allocates or restarts, and
  publishes again beside another, with the same keys or with its own.  The two
  nodes without `eno1` are alike, which the run uses as a symmetry.
* `IntMax` 15 lets `start_size` overflow on a block of 8 and `end_size` on one of
  16 and more; 5 channels of nvme0n1 are two that work, two that do not, and one
  more.
* Clients use only block indexes they were given (`ScriptAssumption`):
  `GetBlockPointer` has no defined result for others.

### Fairness

* Manager: weak fairness of each caller's own steps, a thread that is not
  blocked runs on.  No fairness of the mutex is assumed; a waiting call gets its
  turn because the number of calls is bounded.
* Connections: weak fairness of clients, delivery and the running callback;
  strong fairness of `OnAccept`, `OnRead` and `OnWrite`, since each iteration of
  the libevent loop runs every event that is active, and the backlog is served
  in order.  Nothing makes a client leave, the server stop, or an allocation be
  refused.
* Pool: weak fairness of every thread; interrupted waits are never forced.
* Server: weak fairness of the callback that is running; the
  event loop has nothing else to do.  Clients need not send or write anything,
  and tests may fail or pass.

No liveness is stated of the table and the benchmarks: a call of the table service
may take any time, and so may a device.

## 4. Proofs

Every theorem holds for every value of the constants that the `ASSUME`s of its
module allow: any number of devices, channels, LUNs, blocks, callers, requests,
nodes, threads.

| Theorem | Statement | Module |
|---|---|---|
| `InductiveInvariant` | `Spec => []IInv` | `OcssdManagerProofs` |
| `TypeCorrect` | `Spec => []TypeOK` | same |
| `MutexesHeld` | `Spec => []MutexDiscipline` | same |
| `GrantsDisjoint` | `Spec => []DisjointExtents` | same |
| `AccountingExact` | `Spec => []ExactAccounting` | same |
| `ChannelsExclusive` | `Spec => []ExclusiveOwnership` | same |
| `ChannelCountersAgree` | `Spec => []CountersAgree` | same |
| `RefinesOwnership` | `Spec => ImplementsOwnership` | same |
| `ChannelsBounded` | `Spec => []ChannelsWithinRequest` | same |
| `BlocksBounded` | `Spec /\ []OneUnit => []BlocksWithinRequest` | same |
| `OnePathBounded` | with one path, `Spec => []BlocksWithinRequest` | same |
| `RangesUnique` | `Spec => []OneRangePerLun` | same |
| `RefusalsJustified` | `Spec => []RefusalJustified` | same |
| `PublishedRowsFresh` | `Spec /\ []OneActive => []PublishedFresh` | same |
| `ConnInvariant` | `Spec => []ConnInv` | `OcssdConnProofs` |
| `TypeCorrect` | `Spec => []TypeOK` | same |
| `WriteEventArmedAlways` | `Spec => []WriteEventArmed` | same |
| `CommandsWholeAlways` | `Spec => []CommandsWhole` | same |
| `BlocksExactAlways` | `Spec => []BlocksExact` | same |
| `RepliesExactWhileOwned` | `Spec /\ []OwnPeers => [](RepliesExact /\ OwnReplies)` | same |
| `SingleConnectionExact` | with one client, `Spec => [](RepliesExact /\ OwnReplies)` | same |
| `PatientClientsExact` | with patient clients, `Spec => [](RepliesExact /\ OwnReplies)` | same |
| `ServerRunsManager` | `ServerSpec => Spec` | `OcssdServerProofs` |
| `ServerTypeCorrect` | `ServerSpec => []ServerTypeOK` | same |
| `ServerDataSafe` | `ServerSpec => []DataSafe` | same |
| `ServerVblocksApart` | `ServerSpec => []VblocksApart` | same |
| `ServerGrantStriped` | `ServerSpec => []GrantStriped` | same |
| `ServerKeptInOrder` | `ServerSpec => []KeptInOrder` | same |
| `ServerRowsFresh` | `ServerSpec => []PublishedFresh` | same |
| `ServerIndexesStable` | `ServerSpec => IndexesStable` | same |
| `RequestsUnderstood` | `Spec => []RequestUnderstood` | `AllocExchangeProofs` |
| `ReadsSucceed` | `Spec => []WrittenIsReadable` | `VblkBenchProofs` |
| `SizesMeasured` | `Spec => []AllSizesMeasured` | same |
| `TableRowsCurrent` | `Spec => []RowsCurrent` | `ResourceTableProofs` |
| `TableDeletionComplete` | `Spec => []DeletionComplete` | same |
| `PoolQueueBounded` | `Spec => []QueueBounded` | `ThreadPoolProofs` |
| `PoolNoLostWakeup` | `Spec => []NoLostWakeup` | same |
| `PoolEachOnce` | `Spec => []EachOnce` | same |

Assumptions.  Manager: the paths differ, the geometry is positive, requests are
natural numbers, `NoCaller` is not a caller.  Server: one device, as the server
probes one path, and `LocalBlocks` are blocks of it.  Table: a node has at least
one device, each with a path of its own, and the addresses of the nodes that have
one differ.  Pool: finitely many threads of two kinds and a
natural limit.  Connections: scripts of requests that use granted block indexes,
and natural sizes.  Wire format: a byte has at least two values, the magic
numbers fit four bytes and can be told apart, and the arguments of an I/O request
fit their C++ types; those of an allocation are any integers.  Benchmarks:
positive sizes, a device whose block 0 on all LUNs an `unsigned int` can count,
and a smallest request that is a power of two, so that the number of them an
`int` has room for is one.  TLC evaluates all of them in the runs.

### The manager: ownership

`DisjointExtents` alone is not inductive: a new range
`[num_used_, num_used_ + ret)` avoids the old ones only because all of those lie
below `num_used_` (`ExtentsInUse`), and it is counted by `num_used_` of the right
LUN only because the loop stands at a channel and LUN of the device
(`FrameInBounds`).  That nobody else moves the loop is `MutexDiscipline`.  That
`request_blocks` does not wrap is the bound
`(nluns - lun) * RequestPerLun <= request_blocks`: the shares of the LUNs still
to be visited fit in what is left.  `UnderConstruction` ties `alloc_units` to the
running call, so that dropping it when nothing was allocated drops no block.  The
invariant is proved in two layers, `Ctl` (types, mutexes, start-up, frame), which
needs nothing of the second, and `Grants` (the rest), which needs the first;
each has one lemma per action that can disturb it.

`CountersAgree` is silent about the channel whose LUNs are being visited, so it
needs `LunsLevel`: there is a number `base` that every LUN of that channel had
when the loop began, the LUNs visited have `base + ret`, those to come `base`,
and `allocated` is `lun * ret`, with the same `ret` for all.  The loop is left
with all LUNs visited, or with `request_blocks` at zero; the bound on the shares
that `IInv` keeps then makes the share, and with it `ret`, zero.

Refinement.  `Finish` is the abstract `Seal`; `AllocLun` and
`TakeExclusiveChannel` are `Extend`, and every other step leaves the owners
alone.  That the blocks `AllocLun` gives were free is `ExactAccounting` (they lie
at or above `num_used_`) and `ExclusiveOwnership` (their channel is shared); that
`LeaveSharedChannel` changes no owner, although it may drop `alloc_units`, is
`UnderConstruction`.

### The manager: requests

* `ChannelsCounted`: the channels granted under the current id are no more than
  the call has counted, in `frame.total` and, inside a unit, `frame.channels`;
  and what is counted and what remains add up to the request.
* `Budget`: between the units the blocks granted under the current id are no
  more than the request, and none before the first unit (`BetweenUnits`); in the
  loops they are at most a share for each channel served, and the shares of the
  channels still to be served are within the request (`WithinShare`); inside a
  channel what is allocated and what remains add up to the share (`ShareSplit`).
  All are bounds on the cardinality of the set of granted blocks, which a range
  of `num` blocks raises by `num` at most.  `NextUnit` divides the whole request
  again, so from the second unit on this is false: the hypothesis is `OneUnit`,
  which `OnePathBounded` derives from a single path to probe.
* `RangesApart`: what the running call has granted lies behind it, on units it
  has left or on lower channels of this one.  The units stand for different
  devices because each was probed from another path.
* `Refusals`: as long as the request wants more, every unit behind the call has
  nothing for it, and neither have the channels behind it in this unit.  It
  stays true because nothing is ever given back (`OnlyLess`).  For a channel
  left with no blocks it takes `Counters`: a share of zero, or a full LUN in each
  place, is a full channel only if the channel's counter agrees with its LUNs.
* `Published`: which rows are true depends on where the one active caller is;
  all while it has granted nothing, those of the units before `punit` while it
  publishes.  With two callers at once it is false, since one may write
  statistics that the other has just made old.  The theorem therefore has the
  hypothesis `OneActive`, which is how the program runs: one libevent loop.  In
  `OcssdServer` this is a fact and not a hypothesis, so `ServerRowsFresh` has
  none.

### The composed server

`ServerRunsManager` brings in what is proved of the manager: each step of the
server is one of the manager's or leaves its variables alone.  On top of it
`ServerInv` has, beside types,

* `Turns`: one callback at a time, and the connection being set up holds the
  newest id;
* `ArraysOwned`, `DataOwned`: blocks in virtual blocks, and blocks with contents,
  belong to a virtual OCSSD of that connection;
* `GrantFresh`, `LoopFresh`: no block of the newest grant is in a virtual block
  before `initialize_vssd_blocks` comes to it; the blocks to come and those in
  hand are different, and no LUN is visited twice.

`DataSafe` follows from `DataOwned` and from blocks having one owner.
The work is in `InitializeRemote`, where `LoopFresh` has to be established: what
the two walks produce must be blocks of the grant, each once.  `UnitZero` lists
each channel once (`SharedVchannelShape`, `ExclusiveVchannelShape`,
`UnitZeroShape`), each channel its LUNs once, the range of each LUN is the
extent that the manager recorded (`LunGranted`), and the two walks, one for
beginnings and one for ends, have the same places (`WalksAgree`).

`GrantStriped` needs the other inclusion, `StripesCover`: a block of the grant is
in a stripe, in the stripe in hand, or still to come, so that nothing is left
out when nothing is to come.  A LUN contributes its whole grant only if it has
one range, which is `RangesUnique`.

`KeptInOrder` compares the stripes kept with the end of `blks_array_`.  `Kept` is
the concatenation of one list for each stripe, which is empty if the stripe
failed, so that a step of `SelfTest` appends to it what it appends to the array,
or nothing (`KeptAppend`); and a suffix stays one when both sides grow by the
same element (`SuffixAppend`).

`FlattenSeq` and `Sorted` are recursive functions.  What they compute is proved in
`SequenceFacts` by induction over a set of numbers (a non-empty set of naturals
has a least element): one more sequence at the end is one more concatenation
(`FlattenAppend`), and at the front alike (`FlattenHead`); the positions of the
flattened sequence correspond one to one to the pairs of position and position
within, and alike for two arguments of the same shape; `Sorted(S)` has each
element of `S` once.

### Connections

`ConnInv` has

* `Sockets`: what is read has arrived, and what has arrived was sent;
* `Descriptors`: a descriptor has one owner, which has that descriptor, and
  `ev_read` is added for exactly the connections that own theirs;
* `Callback`: the callback under way is of a connection with `ev_read`;
* `Progress`: for each connection there is a number `n` of messages served.
  While it is open it is `At(n)`: `message_end_` is exactly how far it has read
  into message `n + 1`, or it is in the data of that message and `received` is
  how much of it it has; between callbacks `message_end_` is zero.  Once closed
  it has `Left` somewhere in that message.  Unless an allocation was refused,
  its blocks are those that the first `n` requests leave (`RefVblks`);
* `Queues`: `ev_write` is added for exactly the queues with replies, of which
  only the first may be partly written.

`CommandsWhole`, `BlocksExact` and `WriteEventArmed` follow from it.  The
lengths in `At` are those of a concatenation of messages (`StreamTo`), so that
each step needs only that the stream is longer by one message (`StreamStep`,
`StreamLens`, `StreamUnit`).

Replies need more.  What a client has received, what is in its socket and what is
queued make its `Ledger`; `Delivered` says that this is the replies to the `n`
requests served, in order, with nothing twice or left out wherever `on_write` had
to cut.  It is kept by every step but one: `on_write` to a descriptor that now
belongs to somebody else.  `RepliesExactWhileOwned` has therefore the hypothesis
`OwnPeers`: the descriptor of a connection with something left to write is its
own or nobody's.  In general this is false, as `misdirected_reply` shows, because
the disconnect in `on_read` leaves `ev_write` added.  Two theorems have no such
hypothesis:

* `SingleConnectionExact`: with one client, whatever it does, there is nobody
  else to get its replies.
* `PatientClientsExact`: no client is `Impatient`, so each sends a request when it
  has the replies to all before and closes when it has all replies, or when the
  server has closed, as the demo client does.  `Patience` says that then a closed
  connection has nothing left in its queue (`NothingDropped`).  That needs that a
  client behind by one reply is waiting for it (`Waits`, `ClosesServed`), the
  client of a refused allocation for ever (`RefusedWait`), and that a callback
  starts only with something to read or an end of file (`Starts`).

### Wire format

The four digits of a number below `Word` put together are the number
(`DigitsOf`, and the fields of eight bytes alike), and the field at position `k`
of several in a row is the `k`-th (`Data4sField`, `Data8sField`).  So each decoder
returns what the encoder was given (`AllocRequestBack`, `IoRequestBack`), and the
magic number selects only the handler of its own kind (`MagicsApart`,
`HandlersRead`).  `LastRequest` ties the message on its way, or what the server
read from it, to the arguments of the last request; those of an allocation are
cut to 32 bits first, as the constructor does.

### Benchmarks

`ReadsSucceed` needs what a write test without errors leaves: all pages of the
working channels written (`DeviceFull`).  `BenchInv` has that the virtual block
has the working channels that `main` has passed, each once (`ChannelsPassed`);
that while a pass has come to `pos`, each LUN has as many pages as its part of
`pos` pages striped over them (`WrittenTo`, `Share`); and that a pass of a size
that divides the block ends with all of them.  The size of a block fits an int
when that of the larger one does, so the read test, over no more channels than
were written, has no overflow either.

`SizesMeasured` is about the doubling of `start_size`, which may overflow.
`Measuring` says that each size is one of a pass made or a multiple of the next
`start_size`.  A power of two that is a multiple of `start_size` and larger is
an even multiple, so doubling keeps this; when doubling overflows, no multiple is
left below the size of the block.  The loop then tests a negative number: if `s`
was the last size, which is the size of the block, that is `-2 * (IntMax + 1 - s)`,
and if it divided `s` then `IntMax + 1` would have an odd divisor (`NoDivisor`), so
no pass is made with it.  `BenchInv` needs this too, for a pass with a negative
size would not end where the block does; the two are proved together
(`BenchInvariant`).  The induction over the doublings is carried by the loop of the
program.

### Table and pool

`RowsCurrent` speaks of a server that waits for requests.  The invariant says of
which units the row is true already while it publishes (`Written`: those before
`punit`), and that what it is about to write is still what is free
(`LoopAtUnit`).  That an insertion of one node does no harm to another is
`DescApart`: two keys are the same only for the same unit of one node, or of two
that have no address.  For `DeletionComplete` tags are given in order (`TagsGiven`), so a row
that reappears under a key the tool has passed has a later tag than the listing
(`DeletedSoFar`).

The pool's invariant `Ctl` has the mutex (`MutexHeld`), what a thread has seen
under it (`SeenHolds`: the limit when it pushes, the front when it pops) and that
two appends in progress have different requests (`OwnRequest`); `QueueBounded`
is then one past the limit, because of the `>`.  `NoLostWakeup` is inductive
over the cardinalities of the threads about to post and past the wait;
`EachOnce` over the number of places of a request in the queue, which `push_back`
and `pop_front` change by one.

### Only model-checked

* Liveness (`CallsReturn`, `ScriptsServed`, `DescriptorsReturned`,
  `AllProcessed`, `RequestsEnd`): out of the prover's reach.
* `WholeReplyExact` and `ShortReplyHarmless`: serialize and deserialize of a grant
  are folds over sequences of records of different lengths, and that they invert
  each other, or agree on a part, would be an induction over data.

Neither checked nor proved, because the code does not ensure them:
`BlocksWithinRequest` with several units (section 3), and `RepliesExact` and
`OwnReplies` beyond the hypotheses above, which `misdirected_reply` refutes; that
a reply to an allocation fits its buffer, and what a client makes of one cut within
its header (section 3).

## 5. Not modelled

* A block index beyond `blks_array_`: `GetBlockPointer` has no defined result,
  and the clients modelled use none.
* `nvm_dev_open` failing for a path that `initialize_ocssd_manager` has found: the
  constructor of `ocssd_unit` throws, and the server ends before it serves anybody.
* Two events of one connection in one iteration of the event loop: when `on_read`
  closes the descriptor while `ev_write` is already active, the write fails with
  `EBADF` and the server ends, as in `OnWriteError` after a peer has closed.
* `nvm_buf_alloc` failing for a size that fits an int: the benchmark goes on to the
  next virtual block without measuring this one.
* The destructors of the manager's classes (the process ends after them) and of
  `threadpool`.
* `azure_get` (it reads and prints), `class cond` and the epoll helpers (no
  caller), the echo client, `vblk_write`, `vblk_read`, `write.c`, `erase.c`,
  `addr.c`, `hello.c`: straight-line programs without state of their own.
* The `print` methods, and what is logged.
* Persistence: `ocssd_manager::persist` is a stub, so a server has nothing to
  recover; what outlives it is the table (`ResourceTable`) and the data of local
  clients.

## 6. Plan

Done: the manager with its abstract specification; connections; virtual blocks;
manager and virtual blocks composed; wire format; table; benchmarks; thread pool.
Proved: the refinement, and all safety invariants the runs check but two of the
wire format, those about replies for one client or for patient ones.

Left, in the order of what they would add:

1. The two invariants about replies in the wire format, if the layout of a reply is ever given as
   a function of the position, as that of a request is now.
2. `OcssdConn` and `OcssdServer` composed: today a grant is a free choice in the
   one and the stream a single event in the other.
3. Liveness stays with TLC.
