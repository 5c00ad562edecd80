----------------------------- MODULE OcssdManager -----------------------------
(***************************************************************************)
(* The resource manager of the OCSSD server (ocssd_server.h, "Physical     *)
(* resource"): ocssd_manager, ocssd_unit, ocssd_channel and ocssd_lun, as  *)
(* driven by initialize_ocssd_manager at start-up and by                   *)
(* ocssd_conn::process_alloc_request afterwards.                           *)
(*                                                                         *)
(* A caller is a thread inside process_alloc_request.  The server built    *)
(* from this repository runs all of them from one libevent loop, which is  *)
(* the instance with a single caller; the two mutexes of the classes are   *)
(* what the instances with several callers exercise.                       *)
(*                                                                         *)
(* The loops of one alloc_ocssd_resource call run under manager.mutex_,    *)
(* one action per iteration, so the locals of the running call are the one *)
(* record "frame".  The virtual OCSSDs handed out are kept flat: one       *)
(* record per virtual_ocssd_lun (vluns) and one per exclusive              *)
(* virtual_ocssd_channel (vchannels).                                      *)
(***************************************************************************)
EXTENDS Integers, Sequences, FiniteSets, FiniteSetsExt

CONSTANTS
  Paths,        \* the device paths initialize_ocssd_manager probes, in order
  nchannels,    \* geo_->nchannels, nluns and nblocks of the device at each path
  nluns,
  nblocks,
  SharedLimit,  \* assign_to_shared: how many channels of a device are shared (4)
  Callers,      \* the threads that run process_alloc_request
  NoCaller,     \* a free mutex
  Requests,     \* the requests clients send: [channels, blocks, shared]
  MaxAllocs     \* bound on alloc_ocssd_resource calls: vssd_id_ does not wrap

Devices == {Paths[i] : i \in DOMAIN Paths}

ASSUME PathsAssumption ==
  /\ Paths \in Seq(Devices)
  /\ \A i, j \in DOMAIN Paths : Paths[i] = Paths[j] => i = j

ASSUME GeometryAssumption ==
  /\ nchannels \in [Devices -> Nat \ {0}]
  /\ nluns \in [Devices -> Nat \ {0}]
  /\ nblocks \in [Devices -> Nat \ {0}]

ASSUME SharedLimitAssumption == SharedLimit \in Nat

ASSUME CallerAssumption == NoCaller \notin Callers

ASSUME RequestAssumption ==
  \A r \in Requests : /\ r.channels \in Nat
                      /\ r.blocks \in Nat
                      /\ r.shared \in Nat

ASSUME BoundAssumption == MaxAllocs \in Nat

VARIABLES
  ocssds,           \* manager.ocssds_: the units, as the paths added
  probe,            \* index of the next path to probe at start-up
  serving,          \* event_base_dispatch has been entered
  used,             \* ocssd_channel.used_
  num_used_blocks,  \* ocssd_channel.num_used_blocks_
  num_used,         \* ocssd_lun.num_used_
  vssd_id,          \* manager.vssd_id_
  manager_mutex,    \* holder of manager.mutex_
  unit_mutex,       \* holder of each unit's mutex_
  pc,               \* where each caller is
  request,          \* the request each caller decoded
  frame,            \* locals of the call that holds manager.mutex_
  alloc_units,      \* ocssd_channel::alloc_blocks' result under construction
  vluns,            \* virtual_ocssd_lun objects put into virtual OCSSDs
  vchannels,        \* exclusive virtual_ocssd_channel objects likewise
  punit,            \* publish_resource: each caller's position in the unit loop
  stats,            \* publish_resource: what get_ocssd_stats returned
  table             \* the Azure table row of each device

startupVars == <<ocssds, probe, serving>>
physVars == <<used, num_used_blocks, num_used>>
virtVars == <<vluns, vchannels>>
publishVars == <<punit, stats, table>>
vars == <<startupVars, physVars, vssd_id, manager_mutex, unit_mutex, pc,
          request, frame, alloc_units, virtVars, publishVars>>

-----------------------------------------------------------------------------
(* Geometry.  initialize_dev walks the channel ids upwards and gives the   *)
(* first SharedLimit of them to shared_channels_.                          *)

Channels(d) == 0 .. nchannels[d] - 1
Luns(d) == 0 .. nluns[d] - 1

SharedEnd(d) == IF nchannels[d] < SharedLimit THEN nchannels[d] ELSE SharedLimit
SharedChannels(d) == 0 .. SharedEnd(d) - 1
ExclusiveChannels(d) == SharedEnd(d) .. nchannels[d] - 1

TotalBlocks(d) == nblocks[d] * nluns[d]

(* ocssd_channel::get_free_blocks *)
FreeBlocks(d, ch) ==
  IF used[d][ch] THEN 0 ELSE TotalBlocks(d) - num_used_blocks[d][ch]

(* ocssd_unit::get_ocssd_stats, from the free blocks of each channel *)
StatsOf(d, blocks) ==
  LET free == {ch \in Channels(d) : blocks[ch] > 0}
  IN [shared    |-> Cardinality(free \cap SharedChannels(d)),
      exclusive |-> Cardinality(free \cap ExclusiveChannels(d)),
      blocks    |-> MapThenSumSet(LAMBDA ch : blocks[ch], free)]

Stats(d) == StatsOf(d, [ch \in Channels(d) |-> FreeBlocks(d, ch)])

NoStats == [shared |-> 0, exclusive |-> 0, blocks |-> 0]

(* What ocssd_lun::alloc_blocks grants of a request for n blocks when      *)
(* usedBlocks of the LUN's total blocks are taken.                         *)
LunGrant(usedBlocks, total, n) ==
  IF usedBlocks = total \/ n = 0 THEN 0
  ELSE IF n < total - usedBlocks THEN n ELSE total - usedBlocks

NoFrame == [unit |-> 1, chan |-> 0, lun |-> 0, channels |-> 0, total |-> 0,
            remaining |-> 0, blocks_per_channel |-> 0, request_blocks |-> 0,
            allocated |-> 0]

NoRequest == [channels |-> 0, blocks |-> 0, shared |-> 0]

Goto(c, label) == pc' = [pc EXCEPT ![c] = label]

AllocLabels == {"unit_loop", "lock_unit", "channel_loop", "lun_loop", "finish"}
Labels == {"idle", "lock_manager", "publish", "insert"} \cup AllocLabels

-----------------------------------------------------------------------------

Init ==
  /\ ocssds = << >>
  /\ probe = 1
  /\ serving = FALSE
  /\ used = [d \in Devices |-> [ch \in Channels(d) |-> FALSE]]
  /\ num_used_blocks = [d \in Devices |-> [ch \in Channels(d) |-> 0]]
  /\ num_used = [d \in Devices |-> [ch \in Channels(d) |-> [l \in Luns(d) |-> 0]]]
  /\ vssd_id = 0
  /\ manager_mutex = NoCaller
  /\ unit_mutex = [d \in Devices |-> NoCaller]
  /\ pc = [c \in Callers |-> "idle"]
  /\ request = [c \in Callers |-> NoRequest]
  /\ frame = NoFrame
  /\ alloc_units = {}
  /\ vluns = {}
  /\ vchannels = {}
  /\ punit = [c \in Callers |-> 1]
  /\ stats = [c \in Callers |-> NoStats]
  /\ table = [d \in Devices |-> NoStats]

(* initialize_ocssd_manager: a path that exists becomes a unit, one that   *)
(* does not is skipped.                                                    *)
ProbeDevice(exists) ==
  /\ probe <= Len(Paths)
  /\ probe' = probe + 1
  /\ ocssds' = IF exists THEN Append(ocssds, Paths[probe]) ELSE ocssds
  /\ UNCHANGED <<serving, physVars, vssd_id, manager_mutex, unit_mutex, pc,
                 request, frame, alloc_units, virtVars, publishVars>>

(* initialize_ocssd_manager's publish_resource, then main enters the loop. *)
StartServing ==
  /\ probe > Len(Paths)
  /\ ~serving
  /\ serving' = TRUE
  /\ table' = [d \in Devices |->
                 IF \E i \in DOMAIN ocssds : ocssds[i] = d THEN Stats(d) ELSE table[d]]
  /\ UNCHANGED <<ocssds, probe, physVars, vssd_id, manager_mutex, unit_mutex, pc,
                 request, frame, alloc_units, virtVars, punit, stats>>

-----------------------------------------------------------------------------
(* alloc_ocssd_resource                                                    *)

CallsStarted == vssd_id + Cardinality({c \in Callers : pc[c] \in AllocLabels \cup {"lock_manager"}})

(* process_alloc_request decodes a request and calls the manager. *)
CallManager(c, r) ==
  /\ serving
  /\ pc[c] = "idle"
  /\ CallsStarted < MaxAllocs
  /\ request' = [request EXCEPT ![c] = r]
  /\ Goto(c, "lock_manager")
  /\ UNCHANGED <<startupVars, physVars, vssd_id, manager_mutex, unit_mutex,
                 frame, alloc_units, virtVars, publishVars>>

(* Faulty variant: manager.mutex_ is not waited for. *)
LockManagerUnguarded(c) ==
  /\ pc[c] = "lock_manager"
  /\ manager_mutex' = c
  /\ frame' = [NoFrame EXCEPT !.remaining = request[c].channels]
  /\ Goto(c, "unit_loop")
  /\ UNCHANGED <<startupVars, physVars, vssd_id, unit_mutex, request,
                 alloc_units, virtVars, publishVars>>

LockManager(c) ==
  /\ pc[c] = "lock_manager"
  /\ manager_mutex = NoCaller
  /\ manager_mutex' = c
  /\ frame' = [NoFrame EXCEPT !.remaining = request[c].channels]
  /\ Goto(c, "unit_loop")
  /\ UNCHANGED <<startupVars, physVars, vssd_id, unit_mutex, request,
                 alloc_units, virtVars, publishVars>>

(* The head of the loop over ocssds_: it ends after the last unit, or when *)
(* no channel is left to grant.                                            *)
NextUnit(c) ==
  /\ pc[c] = "unit_loop"
  /\ Goto(c, IF frame.unit > Len(ocssds) \/ frame.remaining = 0
             THEN "finish" ELSE "lock_unit")
  /\ UNCHANGED <<startupVars, physVars, vssd_id, manager_mutex, unit_mutex,
                 request, frame, alloc_units, virtVars, publishVars>>

Unit == ocssds[frame.unit]
Shared(c) == request[c].shared = 1

(* ocssd_unit::alloc_channels up to the loop over the unit's channels. *)
LockUnit(c) ==
  /\ pc[c] = "lock_unit"
  /\ unit_mutex[Unit] = NoCaller
  /\ unit_mutex' = [unit_mutex EXCEPT ![Unit] = c]
  /\ frame' = [frame EXCEPT
       !.channels = 0,
       !.chan = IF Shared(c) THEN 0 ELSE SharedEnd(Unit),
       !.blocks_per_channel =
           IF Shared(c) THEN request[c].blocks \div frame.remaining ELSE 0]
  /\ Goto(c, "channel_loop")
  /\ UNCHANGED <<startupVars, physVars, vssd_id, manager_mutex, request,
                 alloc_units, virtVars, publishVars>>

(* Faulty variant: the loop leaves out the last channel. *)
ChannelLoopDoneEarly(c) ==
  \/ frame.channels = frame.remaining
  \/ frame.chan = (IF Shared(c) THEN SharedEnd(Unit) ELSE nchannels[Unit]) - 1

(* Both channel loops end at the last channel of their vector or once the  *)
(* request's channels are granted.                                         *)
ChannelLoopDone(c) ==
  \/ frame.channels = frame.remaining
  \/ frame.chan = IF Shared(c) THEN SharedEnd(Unit) ELSE nchannels[Unit]

(* ocssd_channel::alloc_blocks returns at once: the channel is full or the *)
(* share of the request that falls to it is 0.                             *)
SkipSharedChannel(c) ==
  /\ pc[c] = "channel_loop"
  /\ Shared(c)
  /\ ~ChannelLoopDone(c)
  /\ \/ num_used_blocks[Unit][frame.chan] = TotalBlocks(Unit)
     \/ frame.blocks_per_channel = 0
  /\ frame' = [frame EXCEPT !.chan = @ + 1]
  /\ UNCHANGED <<startupVars, physVars, vssd_id, manager_mutex, unit_mutex, pc,
                 request, alloc_units, virtVars, publishVars>>

(* ocssd_channel::alloc_blocks enters its loop over the LUNs. *)
EnterSharedChannel(c) ==
  /\ pc[c] = "channel_loop"
  /\ Shared(c)
  /\ ~ChannelLoopDone(c)
  /\ num_used_blocks[Unit][frame.chan] # TotalBlocks(Unit)
  /\ frame.blocks_per_channel # 0
  /\ frame' = [frame EXCEPT !.lun = 0, !.allocated = 0,
                            !.request_blocks = frame.blocks_per_channel]
  /\ alloc_units' = {}
  /\ Goto(c, "lun_loop")
  /\ UNCHANGED <<startupVars, physVars, vssd_id, manager_mutex, unit_mutex,
                 request, virtVars, publishVars>>

(* Faulty variant: every LUN is asked for the whole share of the channel. *)
RequestPerLunUndivided == frame.blocks_per_channel

RequestPerLun == frame.blocks_per_channel \div nluns[Unit]

(* The entry of alloc_units for a LUN that had u blocks used and gave ret. *)
LunExtentFrom(start, ret) ==
  [vssd |-> vssd_id, dev |-> Unit, ch |-> frame.chan, lun |-> frame.lun,
   start |-> start, num |-> ret]

(* Faulty variants: the range does not start at num_used_. *)
LunExtentFromZero(u, ret) == LunExtentFrom(0, ret)
LunExtentOneLate(u, ret) == LunExtentFrom(u + 1, ret)

LunExtent(u, ret) == LunExtentFrom(IF ret = 0 THEN 0 ELSE u, ret)

(* One iteration of the loop over the LUNs; a full LUN is passed over. *)
AllocLun(c) ==
  LET u == num_used[Unit][frame.chan][frame.lun]
      ret == LunGrant(u, nblocks[Unit], RequestPerLun)
  IN
  /\ pc[c] = "lun_loop"
  /\ frame.lun < nluns[Unit]
  /\ frame.request_blocks # 0
  /\ num_used' = [num_used EXCEPT ![Unit][frame.chan][frame.lun] = u + ret]
  /\ alloc_units' = IF u >= nblocks[Unit] THEN alloc_units
                    ELSE alloc_units \cup {LunExtent(u, ret)}
  /\ frame' = [frame EXCEPT !.lun = @ + 1,
                            !.request_blocks = @ - ret,
                            !.allocated = @ + ret]
  /\ UNCHANGED <<startupVars, used, num_used_blocks, vssd_id, manager_mutex,
                 unit_mutex, pc, request, virtVars, publishVars>>

(* The end of ocssd_channel::alloc_blocks, and what                        *)
(* alloc_shared_channels makes of its result.                              *)
LeaveSharedChannel(c) ==
  /\ pc[c] = "lun_loop"
  /\ frame.lun = nluns[Unit] \/ frame.request_blocks = 0
  /\ num_used_blocks' = [num_used_blocks EXCEPT ![Unit][frame.chan] = @ + frame.allocated]
  /\ vluns' = IF frame.allocated > 0 THEN vluns \cup alloc_units ELSE vluns
  /\ alloc_units' = {}
  /\ frame' = [frame EXCEPT !.chan = @ + 1,
                            !.channels = IF frame.allocated > 0 THEN @ + 1 ELSE @]
  /\ Goto(c, "channel_loop")
  /\ UNCHANGED <<startupVars, used, num_used, vssd_id, manager_mutex, unit_mutex,
                 request, vchannels, publishVars>>

(* alloc_exclusive_channels: a used channel is passed over ... *)
SkipExclusiveChannel(c) ==
  /\ pc[c] = "channel_loop"
  /\ ~Shared(c)
  /\ ~ChannelLoopDone(c)
  /\ used[Unit][frame.chan]
  /\ frame' = [frame EXCEPT !.chan = @ + 1]
  /\ UNCHANGED <<startupVars, physVars, vssd_id, manager_mutex, unit_mutex, pc,
                 request, alloc_units, virtVars, publishVars>>

(* Faulty variant: set_used is missing. *)
TakeUnmarkedChannel(c) ==
  /\ pc[c] = "channel_loop"
  /\ ~Shared(c)
  /\ ~ChannelLoopDone(c)
  /\ ~used[Unit][frame.chan]
  /\ vchannels' = vchannels \cup {[vssd |-> vssd_id, dev |-> Unit, ch |-> frame.chan]}
  /\ frame' = [frame EXCEPT !.chan = @ + 1, !.channels = @ + 1]
  /\ UNCHANGED <<startupVars, physVars, vssd_id, manager_mutex, unit_mutex, pc,
                 request, alloc_units, vluns, publishVars>>

(* ... and the next one is given away whole. *)
TakeExclusiveChannel(c) ==
  /\ pc[c] = "channel_loop"
  /\ ~Shared(c)
  /\ ~ChannelLoopDone(c)
  /\ ~used[Unit][frame.chan]
  /\ used' = [used EXCEPT ![Unit][frame.chan] = TRUE]
  /\ vchannels' = vchannels \cup {[vssd |-> vssd_id, dev |-> Unit, ch |-> frame.chan]}
  /\ frame' = [frame EXCEPT !.chan = @ + 1, !.channels = @ + 1]
  /\ UNCHANGED <<startupVars, num_used_blocks, num_used, vssd_id, manager_mutex,
                 unit_mutex, pc, request, alloc_units, vluns, publishVars>>

(* Faulty variants: the loop stays at its unit, or dec_channels is missing. *)
AfterUnitSame ==
  [frame EXCEPT !.total = @ + frame.channels, !.remaining = @ - frame.channels]

AfterUnitUndecremented == [frame EXCEPT !.unit = @ + 1, !.total = @ + frame.channels]

(* dec_channels; on to the next unit. *)
AfterUnit == [frame EXCEPT !.unit = @ + 1,
                           !.total = @ + frame.channels,
                           !.remaining = @ - frame.channels]

(* alloc_channels returns. *)
UnlockUnit(c) ==
  /\ pc[c] = "channel_loop"
  /\ ChannelLoopDone(c)
  /\ unit_mutex' = [unit_mutex EXCEPT ![Unit] = NoCaller]
  /\ frame' = AfterUnit
  /\ Goto(c, "unit_loop")
  /\ UNCHANGED <<startupVars, physVars, vssd_id, manager_mutex, request,
                 alloc_units, virtVars, publishVars>>

(* Faulty variant: publish_resource is missing. *)
FinishUnpublished(c) ==
  /\ pc[c] = "finish"
  /\ vssd_id' = vssd_id + 1
  /\ manager_mutex' = NoCaller
  /\ frame' = NoFrame
  /\ punit' = [punit EXCEPT ![c] = 1]
  /\ Goto(c, "idle")
  /\ UNCHANGED <<startupVars, physVars, unit_mutex, request, alloc_units,
                 virtVars, stats, table>>

(* set_id, vssd_id_++, manager.mutex_ released.  Without a channel         *)
(* process_alloc_request gives up; otherwise it goes on to publish.        *)
Finish(c) ==
  /\ pc[c] = "finish"
  /\ vssd_id' = vssd_id + 1
  /\ manager_mutex' = NoCaller
  /\ frame' = NoFrame
  /\ punit' = [punit EXCEPT ![c] = 1]
  /\ Goto(c, IF frame.total = 0 THEN "idle" ELSE "publish")
  /\ UNCHANGED <<startupVars, physVars, unit_mutex, request, alloc_units,
                 virtVars, stats, table>>

-----------------------------------------------------------------------------
(* publish_resource: the statistics are read under the unit's mutex, the   *)
(* row is written after it is released.                                    *)

GetStats(c) ==
  /\ pc[c] = "publish"
  /\ unit_mutex[ocssds[punit[c]]] = NoCaller
  /\ stats' = [stats EXCEPT ![c] = Stats(ocssds[punit[c]])]
  /\ Goto(c, "insert")
  /\ UNCHANGED <<startupVars, physVars, vssd_id, manager_mutex, unit_mutex,
                 request, frame, alloc_units, virtVars, punit, table>>

InsertEntity(c) ==
  /\ pc[c] = "insert"
  /\ table' = [table EXCEPT ![ocssds[punit[c]]] = stats[c]]
  /\ punit' = [punit EXCEPT ![c] = @ + 1]
  /\ Goto(c, IF punit[c] = Len(ocssds) THEN "idle" ELSE "publish")
  /\ UNCHANGED <<startupVars, physVars, vssd_id, manager_mutex, unit_mutex,
                 request, frame, alloc_units, virtVars, stats>>

-----------------------------------------------------------------------------

Alloc(c) ==
  \/ LockManager(c)
  \/ NextUnit(c)
  \/ LockUnit(c)
  \/ SkipSharedChannel(c)
  \/ EnterSharedChannel(c)
  \/ AllocLun(c)
  \/ LeaveSharedChannel(c)
  \/ SkipExclusiveChannel(c)
  \/ TakeExclusiveChannel(c)
  \/ UnlockUnit(c)
  \/ Finish(c)

Publish(c) == GetStats(c) \/ InsertEntity(c)

Startup == (\E exists \in BOOLEAN : ProbeDevice(exists)) \/ StartServing

Next ==
  \/ Startup
  \/ \E c \in Callers : \/ \E r \in Requests : CallManager(c, r)
                        \/ Alloc(c)
                        \/ Publish(c)

Spec == Init /\ [][Next]_vars

(* A thread that is not blocked runs on.  std::mutex promises no fairness  *)
(* among waiting threads: that a waiting call gets its turn rests on the   *)
(* number of calls being bounded by MaxAllocs.                             *)
FairSpec == Spec /\ \A c \in Callers : WF_vars(Alloc(c) \/ Publish(c))

-----------------------------------------------------------------------------
(* Type correctness                                                        *)

Extents == [vssd : Nat, dev : Devices, ch : Nat, lun : Nat, start : Nat, num : Nat]

Frames == [unit : Nat \ {0}, chan : Nat, lun : Nat, channels : Nat, total : Nat,
           remaining : Nat, blocks_per_channel : Nat, request_blocks : Nat,
           allocated : Nat]

(* Every variable stays in its type.  No counter of ocssd_lun,             *)
(* ocssd_channel or the running call goes below zero (request_blocks and   *)
(* num_channels_ are unsigned in the code, and are decremented), and no    *)
(* LUN counts more blocks as used than it has.                             *)
TypeOK ==
  /\ ocssds \in Seq(Devices)
  /\ probe \in Nat \ {0}
  /\ serving \in BOOLEAN
  /\ DOMAIN used = Devices /\ DOMAIN num_used_blocks = Devices /\ DOMAIN num_used = Devices
  /\ \A d \in Devices :
       /\ used[d] \in [Channels(d) -> BOOLEAN]
       /\ num_used_blocks[d] \in [Channels(d) -> Nat]
       /\ num_used[d] \in [Channels(d) -> [Luns(d) -> 0 .. nblocks[d]]]
  /\ vssd_id \in Nat
  /\ manager_mutex \in Callers \cup {NoCaller}
  /\ unit_mutex \in [Devices -> Callers \cup {NoCaller}]
  /\ pc \in [Callers -> Labels]
  /\ request \in [Callers -> Requests \cup {NoRequest}]
  /\ frame \in Frames
  /\ alloc_units \subseteq Extents
  /\ vluns \subseteq Extents
  /\ vchannels \subseteq [vssd : Nat, dev : Devices, ch : Nat]
  /\ punit \in [Callers -> Nat \ {0}]
  /\ DOMAIN stats = Callers /\ DOMAIN table = Devices

-----------------------------------------------------------------------------
(* Safety                                                                  *)

Granted == vluns \cup alloc_units

SameLun(g, h) == g.dev = h.dev /\ g.ch = h.ch /\ g.lun = h.lun

OnLun(g, d, ch, l) == g.dev = d /\ g.ch = ch /\ g.lun = l

Holds(g, b) == g.start <= b /\ b < g.start + g.num

(* Two block ranges ocssd_lun::alloc_blocks gave away on one LUN never     *)
(* overlap, whichever calls, callers and virtual OCSSDs they went to.      *)
DisjointExtents ==
  \A g, h \in Granted :
    SameLun(g, h) /\ g # h => \/ g.start + g.num <= h.start
                              \/ h.start + h.num <= g.start

(* A LUN's num_used_ accounts exactly for what was handed out: the block   *)
(* is below num_used_ just when some virtual_ocssd_lun holds it.  Nothing  *)
(* counted as used is owned by nobody, and nothing owned is still free.    *)
ExactAccounting ==
  \A d \in Devices : \A ch \in Channels(d), l \in Luns(d) :
    \A b \in 0 .. nblocks[d] - 1 :
      b < num_used[d][ch][l] <=> \E g \in Granted : OnLun(g, d, ch, l) /\ Holds(g, b)

(* An exclusive channel has at most one virtual OCSSD, has one just when   *)
(* it is marked used, and no shared grant ever reaches into it; nor is a   *)
(* shared channel ever given away whole.                                   *)
ExclusiveOwnership ==
  /\ \A g, h \in vchannels : g.dev = h.dev /\ g.ch = h.ch => g = h
  /\ \A d \in Devices : \A ch \in Channels(d) :
       used[d][ch] <=> \E g \in vchannels : g.dev = d /\ g.ch = ch
  /\ \A g \in vchannels : g.ch \in ExclusiveChannels(g.dev)
  /\ \A g \in Granted : g.ch \in SharedChannels(g.dev)

InLunLoop(d, ch) ==
  \E c \in Callers : pc[c] = "lun_loop" /\ d = Unit /\ ch = frame.chan

(* Between two allocations from a channel, all its LUNs have the same      *)
(* number of blocks used and num_used_blocks_ is their sum, so the         *)
(* channel-level "full" test and get_free_blocks are exact: the loop over  *)
(* the LUNs never stops early and never meets a LUN that is already full.  *)
CountersAgree ==
  \A d \in Devices : \A ch \in Channels(d) :
    ~InLunLoop(d, ch) =>
      \A l \in Luns(d) : num_used_blocks[d][ch] = nluns[d] * num_used[d][ch][l]

InAlloc(c) == pc[c] \in AllocLabels

(* The caller inside alloc_ocssd_resource is the holder of                 *)
(* manager.mutex_, and it holds the mutex of the unit it is allocating     *)
(* from and no other.                                                      *)
MutexDiscipline ==
  /\ \A c \in Callers : InAlloc(c) <=> manager_mutex = c
  /\ \A d \in Devices, c \in Callers :
       unit_mutex[d] = c <=> pc[c] \in {"channel_loop", "lun_loop"} /\ d = Unit

GrantedChannels(id) ==
  {<<g.dev, g.ch>> : g \in {h \in vluns \cup vchannels : h.vssd = id}}

(* The channels granted to a request never outnumber those it asked for,   *)
(* however they are spread over the units.                                 *)
ChannelsWithinRequest ==
  \A c \in Callers :
    InAlloc(c) => Cardinality(GrantedChannels(vssd_id)) <= request[c].channels

ExtentBlocks(g) == {<<g.dev, g.ch, g.lun, b>> : b \in g.start .. g.start + g.num - 1}

BlocksOf(S) == UNION {ExtentBlocks(g) : g \in S}

GrantedRanges(id) == {g \in vluns : g.vssd = id}

(* The blocks granted to a shared request never exceed the NUM_BLOCKS it   *)
(* asked for.  Every unit divides the whole of NUM_BLOCKS by the channels  *)
(* still missing, so this depends on how many units there are.             *)
BlocksWithinRequest ==
  \A c \in Callers :
    InAlloc(c) => Cardinality(BlocksOf(GrantedRanges(vssd_id))) <= request[c].blocks

(* A request is turned away, or an exclusive one cut short, only when      *)
(* nothing is left for it: every exclusive channel is used, or every       *)
(* shared channel is full or the request is too small to give each LUN of  *)
(* a channel one block.                                                    *)
RefusalJustified ==
  \A c \in Callers : pc[c] = "finish" =>
    \A i \in DOMAIN ocssds : LET d == ocssds[i] IN
      IF Shared(c)
      THEN frame.total = 0 /\ request[c].channels # 0 =>
             \/ request[c].blocks \div request[c].channels < nluns[d]
             \/ \A ch \in SharedChannels(d) : num_used_blocks[d][ch] = TotalBlocks(d)
      ELSE frame.remaining # 0 => \A ch \in ExclusiveChannels(d) : used[d][ch]

(* Whenever no request is being processed, the Azure row of every unit     *)
(* shows what get_ocssd_stats would return now.  It holds with one caller, *)
(* the event loop: the row is written after the unit's mutex is released.  *)
PublishedFresh ==
  serving /\ (\A c \in Callers : pc[c] = "idle") =>
    \A i \in DOMAIN ocssds : table[ocssds[i]] = Stats(ocssds[i])

-----------------------------------------------------------------------------
(* The inductive invariant behind the safety properties                    *)

(* Requests are taken only after start-up, so ocssds_ is fixed by then. *)
StartupFirst ==
  /\ ~serving => \A c \in Callers : pc[c] = "idle"
  /\ serving => probe > Len(Paths)

(* The locals of the running call.  Each LUN still to be visited can be    *)
(* given its share without the unsigned request_blocks passing below zero. *)
FrameOK(c) ==
  /\ pc[c] \in {"lock_unit", "channel_loop", "lun_loop"} =>
       frame.unit \in 1 .. Len(ocssds) /\ frame.remaining > 0
  /\ pc[c] \in {"channel_loop", "lun_loop"} =>
       /\ frame.channels <= frame.remaining
       /\ frame.chan <= nchannels[Unit]
       /\ IF Shared(c) THEN frame.chan <= SharedEnd(Unit)
                       ELSE SharedEnd(Unit) <= frame.chan
  /\ pc[c] = "lun_loop" =>
       /\ Shared(c)
       /\ frame.channels < frame.remaining
       /\ frame.chan < SharedEnd(Unit)
       /\ frame.lun <= nluns[Unit]
       /\ (nluns[Unit] - frame.lun) * RequestPerLun <= frame.request_blocks

FrameInBounds == \A c \in Callers : FrameOK(c)

(* alloc_units belongs to the running call: it lists ranges on the LUNs    *)
(* already visited, and holds no block when nothing was allocated.         *)
UnderConstruction ==
  /\ alloc_units # {} => \E c \in Callers : pc[c] = "lun_loop"
  /\ \A c \in Callers : pc[c] = "lun_loop" =>
       \A g \in alloc_units :
         /\ g.vssd = vssd_id /\ g.dev = Unit /\ g.ch = frame.chan
         /\ g.lun < frame.lun
         /\ frame.allocated = 0 => g.num = 0

(* Every range lies on a LUN of a shared channel, below its num_used_. *)
ExtentsInUse ==
  \A g \in Granted :
    /\ g.ch \in SharedChannels(g.dev)
    /\ g.lun \in Luns(g.dev)
    /\ g.start + g.num <= num_used[g.dev][g.ch][g.lun]

(* The conjunction that every step preserves: the safety properties with   *)
(* the facts about the running call that make them inductive.              *)
IInv ==
  /\ TypeOK
  /\ MutexDiscipline
  /\ StartupFirst
  /\ FrameInBounds
  /\ UnderConstruction
  /\ ExtentsInUse
  /\ DisjointExtents
  /\ ExactAccounting
  /\ ExclusiveOwnership

-----------------------------------------------------------------------------
(* Refinement and liveness                                                 *)

Blocks == UNION {{d} \X Channels(d) \X Luns(d) \X (0 .. nblocks[d] - 1) : d \in Devices}

(* The virtual OCSSDs a physical block belongs to. *)
Owners(d, ch, l, b) ==
  {g.vssd : g \in {h \in Granted : OnLun(h, d, ch, l) /\ Holds(h, b)}}
  \cup {g.vssd : g \in {h \in vchannels : h.dev = d /\ h.ch = ch}}

Ownership == INSTANCE BlockOwnership WITH
  owners <- [b \in Blocks |-> Owners(b[1], b[2], b[3], b[4])],
  id <- vssd_id

(* The manager implements BlockOwnership: a block is given to at most one  *)
(* virtual OCSSD and keeps it for good, and a virtual OCSSD is complete    *)
(* when its id has been given out, whatever the interleaving of callers.   *)
ImplementsOwnership == Ownership!Spec

(* Every process_alloc_request returns: the loops over units, channels and *)
(* LUNs end and no caller is stuck on a mutex.                             *)
CallsReturn == \A c \in Callers : pc[c] # "idle" ~> pc[c] = "idle"

=============================================================================
