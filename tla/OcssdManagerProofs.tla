-------------------------- MODULE OcssdManagerProofs --------------------------
(***************************************************************************)
(* Proofs about OcssdManager, for any devices, geometry, callers and       *)
(* requests: IInv is an invariant of Spec, and with it the safety          *)
(* properties it contains; the counters of the channels agree with those   *)
(* of their LUNs; and the manager implements BlockOwnership.               *)
(*                                                                         *)
(* Then what alloc_ocssd_resource does for the request it serves: it       *)
(* grants no more channels than were asked for, with one unit no more      *)
(* blocks either, and turns a request away, or cuts it short, only when    *)
(* nothing is left for it.  And, with the one caller of the event loop,    *)
(* that the published rows are up to date when it returns.                 *)
(***************************************************************************)
EXTENDS OcssdManager, SequenceTheorems, FiniteSetTheorems, TLAPS

-----------------------------------------------------------------------------
(* Facts about the geometry and the requests                               *)

(* The sizes of a device are positive and its first SharedEnd channels are *)
(* the shared ones.                                                        *)
LEMMA Geometry ==
  ASSUME NEW d \in Devices
  PROVE  /\ nchannels[d] \in Nat \ {0}
         /\ nluns[d] \in Nat \ {0}
         /\ nblocks[d] \in Nat \ {0}
         /\ SharedEnd(d) \in 0 .. nchannels[d]
         /\ SharedChannels(d) \subseteq Channels(d)
         /\ ExclusiveChannels(d) \subseteq Channels(d)
         /\ SharedChannels(d) \cap ExclusiveChannels(d) = {}
BY GeometryAssumption, SharedLimitAssumption
   DEF SharedEnd, SharedChannels, ExclusiveChannels, Channels

(* What a caller decoded is made of natural numbers. *)
LEMMA RequestFields ==
  ASSUME TypeOK, NEW c \in Callers
  PROVE  request[c].channels \in Nat /\ request[c].blocks \in Nat
BY RequestAssumption DEF TypeOK, NoRequest

(* The unit the running call is at is a device. *)
LEMMA UnitIsDevice ==
  ASSUME TypeOK, frame.unit \in 1 .. Len(ocssds)
  PROVE  Unit \in Devices
BY DEF TypeOK, Unit

(* ocssd_lun::alloc_blocks grants no more than is asked for or left. *)
LEMMA LunGrantBounds ==
  ASSUME NEW total \in Nat, NEW u \in 0 .. total, NEW n \in Nat
  PROVE  /\ LunGrant(u, total, n) \in Nat
         /\ LunGrant(u, total, n) <= n
         /\ u + LunGrant(u, total, n) <= total
BY DEF LunGrant

(* The share of each LUN, taken by all of them, is within the request. *)
LEMMA ShareFits ==
  ASSUME NEW n \in Nat, NEW k \in Nat \ {0}
  PROVE  n \div k \in Nat /\ k * (n \div k) <= n
OBVIOUS

(* One LUN fewer to visit, one share fewer to keep. *)
LEMMA OneShareLess ==
  ASSUME NEW k \in Int, NEW l \in Int, NEW s \in Int
  PROVE  (k - (l + 1)) * s = (k - l) * s - s
OBVIOUS

(* All the unvisited LUNs need at least one share. *)
LEMMA ShareLeft ==
  ASSUME NEW k \in Int, NEW l \in Int, NEW s \in Nat, l < k
  PROVE  s <= (k - l) * s
OBVIOUS

-----------------------------------------------------------------------------
(* Control: types, mutexes, start-up order and the locals of the call      *)

Ctl == TypeOK /\ MutexDiscipline /\ StartupFirst /\ FrameInBounds

(* Only the caller that holds manager.mutex_ is inside the allocation. *)
LEMMA OneInAlloc ==
  ASSUME MutexDiscipline, NEW c \in Callers, NEW e \in Callers, InAlloc(c), InAlloc(e)
  PROVE  c = e
BY DEF MutexDiscipline

(* The control invariant holds when the server starts. *)
LEMMA CtlInit == Init => Ctl
<1> SUFFICES ASSUME Init PROVE Ctl
  OBVIOUS
<1>1. TypeOK
  <2>1. \A d \in Devices : /\ used[d] \in [Channels(d) -> BOOLEAN]
                           /\ num_used_blocks[d] \in [Channels(d) -> Nat]
                           /\ num_used[d] \in [Channels(d) -> [Luns(d) -> 0 .. nblocks[d]]]
    BY Geometry DEF Init
  <2>2. frame \in Frames
    BY DEF Init, Frames, NoFrame
  <2>3. pc \in [Callers -> Labels] /\ request \in [Callers -> Requests \cup {NoRequest}]
    BY DEF Init, Labels
  <2>4. ocssds \in Seq(Devices)
    BY EmptySeq DEF Init
  <2>8. probe \in Nat \ {0}
    BY DEF Init
  <2>9. serving \in BOOLEAN
    BY DEF Init
  <2>5. /\ DOMAIN used = Devices /\ DOMAIN num_used_blocks = Devices
        /\ DOMAIN num_used = Devices /\ DOMAIN stats = Callers /\ DOMAIN table = Devices
    BY DEF Init
  <2>6. /\ vssd_id \in Nat /\ manager_mutex \in Callers \cup {NoCaller}
        /\ unit_mutex \in [Devices -> Callers \cup {NoCaller}]
        /\ punit \in [Callers -> Nat \ {0}]
    BY DEF Init
  <2>7. /\ alloc_units \subseteq Extents /\ vluns \subseteq Extents
        /\ vchannels \subseteq [vssd : Nat, dev : Devices, ch : Nat]
    BY DEF Init
  <2> QED
    BY <2>1, <2>2, <2>3, <2>4, <2>5, <2>6, <2>7, <2>8, <2>9 DEF TypeOK
<1>2. MutexDiscipline
  BY CallerAssumption DEF Init, MutexDiscipline, InAlloc, AllocLabels
<1>3. StartupFirst /\ FrameInBounds
  BY DEF Init, StartupFirst, FrameInBounds, FrameOK
<1> QED
  BY <1>1, <1>2, <1>3 DEF Ctl

(* Probing devices and entering the event loop keep the control invariant: *)
(* no call is running yet.                                                 *)
LEMMA CtlStartup == Ctl /\ Startup => Ctl'
<1> SUFFICES ASSUME Ctl, Startup PROVE Ctl'
  OBVIOUS
<1> USE DEF Ctl
<1>1. CASE \E exists \in BOOLEAN : ProbeDevice(exists)
  <2>1. PICK exists \in BOOLEAN : ProbeDevice(exists)
    BY <1>1
  <2>2. \A c \in Callers : pc[c] = "idle"
    BY <2>1, PathsAssumption DEF ProbeDevice, StartupFirst, TypeOK
  <2>3. ocssds' \in Seq(Devices) /\ probe' \in Nat \ {0}
    BY <2>1, PathsAssumption DEF ProbeDevice, TypeOK, Devices
  <2>4. TypeOK'
    BY <2>1, <2>3 DEF ProbeDevice, TypeOK, physVars, virtVars, publishVars
  <2>5. MutexDiscipline'
    BY <2>1, <2>2 DEF ProbeDevice, MutexDiscipline, InAlloc, AllocLabels
  <2>6. StartupFirst' /\ FrameInBounds'
    BY <2>1, <2>2 DEF ProbeDevice, StartupFirst, FrameInBounds, FrameOK, TypeOK
  <2> QED
    BY <2>4, <2>5, <2>6
<1>2. CASE StartServing
  <2>1. TypeOK'
    BY <1>2 DEF StartServing, TypeOK, physVars, virtVars
  <2>2. MutexDiscipline' /\ StartupFirst' /\ FrameInBounds'
    BY <1>2 DEF StartServing, MutexDiscipline, StartupFirst, FrameInBounds, FrameOK, InAlloc,
       Unit, Shared, RequestPerLun
  <2> QED
    BY <2>1, <2>2
<1> QED
  BY <1>1, <1>2 DEF Startup

(* A caller that steps leaves the labels of the others alone; while it is  *)
(* inside the allocation, no other is.                                     *)
LEMMA Others ==
  ASSUME Ctl, NEW c \in Callers, NEW label \in Labels, Goto(c, label)
  PROVE  /\ pc' \in [Callers -> Labels]
         /\ pc'[c] = label
         /\ \A e \in Callers \ {c} : pc'[e] = pc[e]
         /\ InAlloc(c) => \A e \in Callers \ {c} : pc[e] \notin AllocLabels
BY DEF Ctl, TypeOK, MutexDiscipline, InAlloc, Goto

(* A caller outside the allocation has no claim on frame. *)
LEMMA OutsideFrameOK ==
  ASSUME NEW e \in Callers, pc'[e] \notin AllocLabels
  PROVE  FrameOK(e)'
BY DEF FrameOK, AllocLabels

(* A request handed to alloc_ocssd_resource keeps the control invariant. *)
LEMMA CtlCallManager ==
  ASSUME Ctl, NEW c \in Callers, NEW r \in Requests, CallManager(c, r)
  PROVE  Ctl'
<1> USE DEF Ctl
<1>0. Goto(c, "lock_manager") /\ "lock_manager" \in Labels /\ "lock_manager" \notin AllocLabels
  BY DEF CallManager, Labels, AllocLabels
<1>a. /\ pc' \in [Callers -> Labels] /\ pc'[c] = "lock_manager"
      /\ \A e \in Callers \ {c} : pc'[e] = pc[e]
  BY <1>0, Others
<1>b. /\ pc[c] = "idle" /\ request' = [request EXCEPT ![c] = r]
      /\ UNCHANGED <<ocssds, manager_mutex, unit_mutex, frame>>
  BY DEF CallManager, startupVars
<1>1. TypeOK'
  BY <1>a DEF CallManager, TypeOK, startupVars, physVars, virtVars, publishVars
<1>2. MutexDiscipline'
  <2>1. Unit' = Unit
    BY <1>b DEF Unit
  <2>2. \A e \in Callers : InAlloc(e)' <=> InAlloc(e)
    BY <1>a, <1>b DEF InAlloc, AllocLabels
  <2>3. \A e \in Callers : pc'[e] \in {"channel_loop", "lun_loop"}
                            <=> pc[e] \in {"channel_loop", "lun_loop"}
    BY <1>a, <1>b
  <2> QED
    BY <1>b, <2>1, <2>2, <2>3 DEF MutexDiscipline
<1>3. StartupFirst'
  BY <1>0 DEF CallManager, StartupFirst, startupVars
<1>4. FrameInBounds'
  <2>1. \A e \in Callers \ {c} : request'[e] = request[e]
    BY <1>b DEF TypeOK
  <2>2. FrameOK(c)'
    BY <1>0, <1>a, OutsideFrameOK
  <2>3. ASSUME NEW e \in Callers \ {c}
        PROVE  FrameOK(e)'
    BY <1>a, <1>b, <2>1 DEF FrameInBounds, FrameOK, Unit, Shared, RequestPerLun
  <2> QED
    BY <2>2, <2>3 DEF FrameInBounds
<1> QED
  BY <1>1, <1>2, <1>3, <1>4

(* Taking manager.mutex_ keeps it: no other caller is inside the allocation. *)
LEMMA CtlLockManager ==
  ASSUME Ctl, NEW c \in Callers, LockManager(c)
  PROVE  Ctl'
<1> USE DEF Ctl
<1>0. Goto(c, "unit_loop") /\ "unit_loop" \in Labels /\ "unit_loop" \in AllocLabels
  BY DEF LockManager, Labels, AllocLabels
<1>1. TypeOK'
  <2>1. frame' \in Frames
    BY RequestFields DEF LockManager, Frames, NoFrame
  <2> QED
    BY <1>0, <2>1, Others
    DEF LockManager, TypeOK, startupVars, physVars, virtVars, publishVars
<1>2. \A e \in Callers : pc[e] \notin AllocLabels
  BY CallerAssumption DEF LockManager, MutexDiscipline, InAlloc
<1>3. MutexDiscipline'
  BY <1>0, <1>2, Others DEF LockManager, TypeOK, MutexDiscipline, InAlloc, AllocLabels
<1>4. StartupFirst'
  BY <1>0 DEF LockManager, StartupFirst, startupVars
<1>5. FrameInBounds'
  BY <1>0, <1>2, Others, OutsideFrameOK DEF LockManager, FrameInBounds, FrameOK, AllocLabels
<1> QED
  BY <1>1, <1>3, <1>4, <1>5

(* The head of the loop over ocssds_ keeps it. *)
LEMMA CtlNextUnit ==
  ASSUME Ctl, NEW c \in Callers, NextUnit(c)
  PROVE  Ctl'
<1> USE DEF Ctl
<1> DEFINE label == IF frame.unit > Len(ocssds) \/ frame.remaining = 0
                    THEN "finish" ELSE "lock_unit"
<1>0. /\ Goto(c, label) /\ label \in Labels /\ label \in AllocLabels
      /\ label # "channel_loop" /\ label # "lun_loop" /\ InAlloc(c)
  BY DEF NextUnit, Labels, AllocLabels, InAlloc
<1>a. /\ pc' \in [Callers -> Labels] /\ pc'[c] = label
      /\ \A e \in Callers \ {c} : pc'[e] = pc[e] /\ pc[e] \notin AllocLabels
  BY <1>0, Others
<1>1. TypeOK'
  BY <1>a DEF NextUnit, TypeOK, startupVars, physVars, virtVars, publishVars
<1>2. MutexDiscipline'
  BY <1>0, <1>a DEF NextUnit, TypeOK, MutexDiscipline, InAlloc, AllocLabels
<1>3. StartupFirst'
  BY <1>a DEF NextUnit, StartupFirst, startupVars
<1>4. FrameInBounds'
  <2>1. label = "lock_unit" => frame.unit \in 1 .. Len(ocssds) /\ frame.remaining > 0
    BY DEF TypeOK, Frames
  <2>2. UNCHANGED <<ocssds, frame>>
    BY DEF NextUnit, startupVars
  <2> QED
    BY <1>0, <1>a, <2>1, <2>2, OutsideFrameOK DEF FrameInBounds, FrameOK
<1> QED
  BY <1>1, <1>2, <1>3, <1>4

(* Entering alloc_channels keeps it: the unit's mutex is free, and the loop *)
(* starts at a channel of the right kind.                                  *)
LEMMA CtlLockUnit ==
  ASSUME Ctl, NEW c \in Callers, LockUnit(c)
  PROVE  Ctl'
<1> USE DEF Ctl
<1>0. Goto(c, "channel_loop") /\ "channel_loop" \in Labels /\ InAlloc(c)
  BY DEF LockUnit, Labels, AllocLabels, InAlloc
<1>a. /\ pc' \in [Callers -> Labels] /\ pc'[c] = "channel_loop"
      /\ \A e \in Callers \ {c} : pc'[e] = pc[e] /\ pc[e] \notin AllocLabels
  BY <1>0, Others
<1>b. frame.unit \in 1 .. Len(ocssds) /\ frame.remaining > 0
  BY DEF LockUnit, FrameInBounds, FrameOK
<1>c. Unit \in Devices
  BY <1>b, UnitIsDevice
<1>d. frame' \in Frames
  <2>1. request[c].blocks \in Nat /\ frame \in Frames /\ SharedEnd(Unit) \in Nat
    BY <1>c, RequestFields, Geometry DEF TypeOK
  <2>a. frame.remaining \in Nat \ {0}
    BY <1>b, <2>1 DEF Frames
  <2>2. request[c].blocks \div frame.remaining \in Nat
    BY <2>1, <2>a, ShareFits, Zenon
  <2> QED
    BY <2>1, <2>2 DEF LockUnit, Frames
<1>e. Unit' = Unit /\ UNCHANGED <<ocssds, request>>
  BY <1>d DEF LockUnit, Unit, startupVars, TypeOK, Frames
<1>1. TypeOK'
  BY <1>a, <1>c, <1>d DEF LockUnit, TypeOK, startupVars, physVars, virtVars, publishVars
<1>2. MutexDiscipline'
  BY <1>a, <1>c, <1>e, CallerAssumption
  DEF LockUnit, TypeOK, MutexDiscipline, InAlloc, AllocLabels
<1>3. StartupFirst'
  BY <1>a DEF LockUnit, StartupFirst, startupVars
<1>4. FrameInBounds'
  <2>1. /\ frame'.channels = 0 /\ frame'.remaining = frame.remaining
        /\ frame'.unit = frame.unit
        /\ frame'.chan = IF Shared(c) THEN 0 ELSE SharedEnd(Unit)
    BY DEF LockUnit, TypeOK, Frames
  <2>2. Shared(c)' = Shared(c)
    BY <1>e DEF Shared
  <2>3. SharedEnd(Unit) \in 0 .. nchannels[Unit] /\ nchannels[Unit] \in Nat
    BY <1>c, Geometry
  <2>5. /\ frame'.chan <= nchannels[Unit]
        /\ IF Shared(c) THEN frame'.chan <= SharedEnd(Unit) ELSE SharedEnd(Unit) <= frame'.chan
    BY <2>1, <2>3
  <2>6. frame'.channels <= frame'.remaining
    BY <1>b, <2>1 DEF TypeOK, Frames
  <2>7. FrameOK(c)'
    BY <1>a, <1>b, <1>e, <2>1, <2>2, <2>5, <2>6 DEF FrameOK, SharedEnd
  <2> QED
    BY <1>a, <2>7, OutsideFrameOK DEF FrameInBounds
<1> QED
  BY <1>1, <1>2, <1>3, <1>4

(* What FrameOK says of a caller inside one of the loops of a unit. *)
LEMMA InUnit ==
  ASSUME Ctl, NEW c \in Callers, pc[c] \in {"channel_loop", "lun_loop"}
  PROVE  /\ InAlloc(c)
         /\ frame.unit \in 1 .. Len(ocssds)
         /\ Unit \in Devices
         /\ frame \in Frames
         /\ frame.channels <= frame.remaining
         /\ frame.chan <= nchannels[Unit]
         /\ SharedEnd(Unit) \in 0 .. nchannels[Unit]
         /\ nchannels[Unit] \in Nat \ {0}
         /\ nluns[Unit] \in Nat \ {0}
         /\ nblocks[Unit] \in Nat \ {0}
         /\ \A e \in Callers \ {c} : pc[e] \notin AllocLabels
<1>1. frame.unit \in 1 .. Len(ocssds) /\ FrameOK(c)
  BY DEF Ctl, FrameInBounds, FrameOK
<1>2. Unit \in Devices
  BY <1>1, UnitIsDevice DEF Ctl
<1>3. InAlloc(c) /\ \A e \in Callers \ {c} : pc[e] \notin AllocLabels
  BY DEF Ctl, MutexDiscipline, InAlloc, AllocLabels
<1>4. frame \in Frames
  BY DEF Ctl, TypeOK
<1> QED
  BY <1>1, <1>2, <1>3, <1>4, Geometry DEF FrameOK

(* The loop over the channels stands at a channel of the right kind. *)
LEMMA AtChannel ==
  ASSUME Ctl, NEW c \in Callers, pc[c] = "channel_loop", ~ChannelLoopDone(c)
  PROVE  /\ frame.channels < frame.remaining
         /\ Shared(c) => frame.chan \in SharedChannels(Unit)
         /\ ~Shared(c) => frame.chan \in ExclusiveChannels(Unit)
         /\ frame.chan \in Channels(Unit)
<1>1. FrameOK(c)
  BY DEF Ctl, FrameInBounds
<1> QED
  BY <1>1, InUnit, SMTT(30) DEF FrameOK, ChannelLoopDone, SharedChannels, ExclusiveChannels,
     Channels, Frames

(* A step of the running call inside a unit's loops that stays there keeps *)
(* the control invariant if it keeps types and its own frame in bounds.    *)
LEMMA CtlStay ==
  ASSUME Ctl, NEW c \in Callers, pc[c] \in {"channel_loop", "lun_loop"},
         NEW label \in {"channel_loop", "lun_loop"}, Goto(c, label),
         UNCHANGED <<startupVars, manager_mutex, unit_mutex>>,
         frame'.unit = frame.unit, TypeOK', FrameOK(c)'
  PROVE  Ctl'
<1>1. /\ label \in Labels /\ label \in AllocLabels /\ InAlloc(c)
  BY DEF Labels, AllocLabels, InAlloc
<1>2. /\ pc'[c] = label
      /\ \A e \in Callers \ {c} : pc'[e] = pc[e] /\ pc[e] \notin AllocLabels
  BY <1>1, Others
<1>3. Unit' = Unit
  BY DEF Unit, startupVars
<1>4. MutexDiscipline'
  BY <1>1, <1>2, <1>3 DEF Ctl, MutexDiscipline, InAlloc, AllocLabels
<1>5. StartupFirst'
  BY <1>1 DEF Ctl, StartupFirst, startupVars
<1>6. FrameInBounds'
  BY <1>2, OutsideFrameOK DEF FrameInBounds
<1> QED
  BY <1>4, <1>5, <1>6 DEF Ctl

(* Writing pc back unchanged. *)
LEMMA GotoSelf ==
  ASSUME TypeOK, NEW c \in Callers, UNCHANGED pc
  PROVE  Goto(c, pc[c])
BY DEF TypeOK, Goto

(* Passing over a channel keeps it. *)
LEMMA CtlSkip ==
  ASSUME Ctl, NEW c \in Callers, SkipSharedChannel(c) \/ SkipExclusiveChannel(c)
  PROVE  Ctl'
<1>1. /\ pc[c] = "channel_loop" /\ ~ChannelLoopDone(c)
      /\ frame' = [frame EXCEPT !.chan = @ + 1]
      /\ UNCHANGED <<startupVars, physVars, vssd_id, manager_mutex, unit_mutex, pc,
                     request, alloc_units, virtVars, publishVars>>
  BY DEF SkipSharedChannel, SkipExclusiveChannel
<1>a. frame \in Frames
  BY DEF Ctl, TypeOK
<1>2. /\ frame' \in Frames /\ frame'.unit = frame.unit
      /\ frame'.chan = frame.chan + 1 /\ frame'.channels = frame.channels
      /\ frame'.remaining = frame.remaining
  BY <1>1, <1>a DEF Frames
<1>3. TypeOK'
  BY <1>1, <1>2 DEF Ctl, TypeOK, startupVars, physVars, virtVars, publishVars
<1>4. FrameOK(c)'
  <2>1. Unit' = Unit /\ Shared(c)' = Shared(c) /\ pc'[c] = "channel_loop" /\ ocssds' = ocssds
    BY <1>1, <1>2 DEF Unit, Shared, startupVars
  <2>2. FrameOK(c)
    BY DEF Ctl, FrameInBounds
  <2>3. /\ SharedEnd(Unit) \in Nat /\ nchannels[Unit] \in Nat
        /\ SharedEnd(Unit) <= nchannels[Unit]
    BY <1>1, InUnit
  <2>4. IF Shared(c) THEN frame.chan \in 0 .. SharedEnd(Unit) - 1
                     ELSE frame.chan \in SharedEnd(Unit) .. nchannels[Unit] - 1
    BY <1>1, AtChannel DEF SharedChannels, ExclusiveChannels
  <2>5. /\ frame'.chan <= nchannels[Unit]
        /\ IF Shared(c) THEN frame'.chan <= SharedEnd(Unit) ELSE SharedEnd(Unit) <= frame'.chan
    BY <1>2, <2>3, <2>4
  <2> QED
    BY <1>1, <1>2, <2>1, <2>2, <2>5 DEF FrameOK, SharedEnd
<1>5. Goto(c, "channel_loop")
  BY <1>1, GotoSelf DEF Ctl
<1> QED
  BY <1>1, <1>2, <1>3, <1>4, <1>5, CtlStay

(* Entering ocssd_channel::alloc_blocks keeps it: the LUNs' shares fit in  *)
(* the request.                                                            *)
LEMMA CtlEnterSharedChannel ==
  ASSUME Ctl, NEW c \in Callers, EnterSharedChannel(c)
  PROVE  Ctl'
<1>1. pc[c] = "channel_loop" /\ ~ChannelLoopDone(c) /\ Shared(c) /\ Goto(c, "lun_loop")
  BY DEF EnterSharedChannel
<1>2. /\ frame \in Frames /\ frame.unit \in 1 .. Len(ocssds) /\ nluns[Unit] \in Nat \ {0}
      /\ frame.chan <= nchannels[Unit] /\ InAlloc(c)
  BY <1>1, InUnit
<1>3. /\ frame' \in Frames /\ frame'.unit = frame.unit /\ frame'.chan = frame.chan
      /\ frame'.channels = frame.channels /\ frame'.remaining = frame.remaining
      /\ frame'.lun = 0 /\ frame'.blocks_per_channel = frame.blocks_per_channel
      /\ frame'.request_blocks = frame.blocks_per_channel
  BY <1>2 DEF EnterSharedChannel, Frames
<1>4. pc' \in [Callers -> Labels] /\ pc'[c] = "lun_loop"
  BY <1>1, Others DEF Labels, AllocLabels
<1>5. TypeOK'
  BY <1>3, <1>4 DEF EnterSharedChannel, Ctl, TypeOK, startupVars, physVars, virtVars,
     publishVars
<1>6. FrameOK(c)'
  <2>1. Unit' = Unit /\ Shared(c)' = Shared(c) /\ ocssds' = ocssds
    BY <1>3 DEF EnterSharedChannel, Unit, Shared, startupVars
  <2>2. FrameOK(c) /\ frame.remaining > 0
    BY <1>1 DEF Ctl, FrameInBounds, FrameOK
  <2>3. frame.channels < frame.remaining /\ frame.chan < SharedEnd(Unit)
    BY <1>1, <1>2, AtChannel, InUnit DEF SharedChannels
  <2>4. /\ RequestPerLun' = RequestPerLun /\ RequestPerLun \in Nat
        /\ nluns[Unit] * RequestPerLun <= frame.blocks_per_channel
    <3>1. frame.blocks_per_channel \in Nat
      BY <1>2 DEF Frames
    <3>2. RequestPerLun' = RequestPerLun
      BY <1>3, <2>1 DEF RequestPerLun
    <3> QED
      BY <1>2, <3>1, <3>2, ShareFits DEF RequestPerLun
  <2>5. (nluns[Unit] - 0) * RequestPerLun <= frame'.request_blocks
    BY <1>2, <1>3, <2>4
  <2> QED
    BY <1>1, <1>2, <1>3, <1>4, <2>1, <2>2, <2>3, <2>4, <2>5 DEF FrameOK, SharedEnd, Frames
<1> QED
  BY <1>1, <1>3, <1>5, <1>6, CtlStay DEF EnterSharedChannel

(* What one visit to a LUN grants, and that it is within what is left. *)
LEMMA LunStep ==
  ASSUME Ctl, NEW c \in Callers, AllocLun(c),
         NEW u, u = num_used[Unit][frame.chan][frame.lun],
         NEW ret, ret = LunGrant(u, nblocks[Unit], RequestPerLun)
  PROVE  /\ pc[c] = "lun_loop" /\ Unit \in Devices /\ frame \in Frames
         /\ frame.chan \in Channels(Unit) /\ frame.lun \in Luns(Unit)
         /\ frame.chan \in SharedChannels(Unit)
         /\ nblocks[Unit] \in Nat /\ u \in 0 .. nblocks[Unit]
         /\ RequestPerLun \in Nat /\ ret \in Nat /\ ret <= RequestPerLun
         /\ u + ret <= nblocks[Unit]
         /\ ret <= frame.request_blocks
         /\ (nluns[Unit] - (frame.lun + 1)) * RequestPerLun <= frame.request_blocks - ret
<1>1. pc[c] = "lun_loop" /\ frame.lun < nluns[Unit]
  BY DEF AllocLun
<1>2. /\ Unit \in Devices /\ frame \in Frames /\ nluns[Unit] \in Nat \ {0}
      /\ nblocks[Unit] \in Nat \ {0} /\ SharedEnd(Unit) \in 0 .. nchannels[Unit]
  BY <1>1, InUnit
<1>3. /\ frame.chan < SharedEnd(Unit)
      /\ (nluns[Unit] - frame.lun) * RequestPerLun <= frame.request_blocks
  BY <1>1 DEF Ctl, FrameInBounds, FrameOK
<1>4. /\ frame.chan \in Channels(Unit) /\ frame.lun \in Luns(Unit)
      /\ frame.chan \in SharedChannels(Unit)
  BY <1>1, <1>2, <1>3, Geometry DEF Channels, Luns, Frames, SharedChannels
<1>5. u \in 0 .. nblocks[Unit]
  BY <1>2, <1>4 DEF Ctl, TypeOK
<1>6. RequestPerLun \in Nat
  <2>1. frame.blocks_per_channel \in Nat
    BY <1>2 DEF Frames
  <2> QED
    BY <1>2, <2>1, ShareFits DEF RequestPerLun
<1>7. /\ ret \in Nat /\ ret <= RequestPerLun /\ u + ret <= nblocks[Unit]
  BY <1>2, <1>5, <1>6, LunGrantBounds
<1>8. /\ RequestPerLun <= (nluns[Unit] - frame.lun) * RequestPerLun
      /\ (nluns[Unit] - (frame.lun + 1)) * RequestPerLun
           = (nluns[Unit] - frame.lun) * RequestPerLun - RequestPerLun
  <2>1. nluns[Unit] \in Int /\ frame.lun \in Int
    BY <1>2 DEF Frames
  <2> QED
    BY <1>1, <1>6, <2>1, ShareLeft, OneShareLess
<1>9. (nluns[Unit] - frame.lun) * RequestPerLun \in Int /\ frame.request_blocks \in Nat
  BY <1>2, <1>6 DEF Frames
<1> QED
  BY <1>1, <1>2, <1>3, <1>4, <1>5, <1>6, <1>7, <1>8, <1>9

(* A visit to a LUN keeps it: request_blocks does not pass below zero, and *)
(* the LUN does not use more blocks than it has.                           *)
LEMMA CtlAllocLun ==
  ASSUME Ctl, NEW c \in Callers, AllocLun(c)
  PROVE  Ctl'
<1> DEFINE u == num_used[Unit][frame.chan][frame.lun]
           ret == LunGrant(u, nblocks[Unit], RequestPerLun)
           g == [vssd |-> vssd_id, dev |-> Unit, ch |-> frame.chan, lun |-> frame.lun,
                 start |-> IF ret = 0 THEN 0 ELSE u, num |-> ret]
<1>1. /\ pc[c] = "lun_loop" /\ Unit \in Devices /\ frame \in Frames
      /\ frame.chan \in Channels(Unit) /\ frame.lun \in Luns(Unit)
      /\ nblocks[Unit] \in Nat /\ u \in 0 .. nblocks[Unit]
      /\ ret \in Nat /\ u + ret <= nblocks[Unit] /\ ret <= frame.request_blocks
      /\ (nluns[Unit] - (frame.lun + 1)) * RequestPerLun <= frame.request_blocks - ret
  BY LunStep, SMTT(30)
<1>2. /\ num_used' = [num_used EXCEPT ![Unit][frame.chan][frame.lun] = u + ret]
      /\ alloc_units' \subseteq alloc_units \cup {g}
      /\ frame' = [frame EXCEPT !.lun = @ + 1, !.request_blocks = @ - ret,
                                !.allocated = @ + ret]
      /\ UNCHANGED <<startupVars, used, num_used_blocks, vssd_id, manager_mutex,
                     unit_mutex, pc, request, virtVars, publishVars>>
  BY DEF AllocLun, LunExtent, LunExtentFrom
<1> HIDE DEF u, ret
<1>3. /\ frame' \in Frames /\ frame'.unit = frame.unit /\ frame'.chan = frame.chan
      /\ frame'.channels = frame.channels /\ frame'.remaining = frame.remaining
      /\ frame'.lun = frame.lun + 1
      /\ frame'.blocks_per_channel = frame.blocks_per_channel
      /\ frame'.request_blocks = frame.request_blocks - ret
  <2>1. frame' = [frame EXCEPT !.lun = @ + 1, !.request_blocks = @ - ret, !.allocated = @ + ret]
    BY <1>2
  <2>2. /\ frame \in Frames /\ frame.lun + 1 \in Nat /\ frame.request_blocks - ret \in Nat
        /\ frame.allocated + ret \in Nat
    BY <1>1 DEF Frames
  <2> QED
    BY <2>1, <2>2 DEF Frames
<1>4. TypeOK'
  <2>1. /\ DOMAIN num_used' = Devices
        /\ \A d \in Devices : num_used'[d] \in [Channels(d) -> [Luns(d) -> 0 .. nblocks[d]]]
    <3>1. /\ DOMAIN num_used = Devices
          /\ \A d \in Devices : num_used[d] \in [Channels(d) -> [Luns(d) -> 0 .. nblocks[d]]]
      BY DEF Ctl, TypeOK
    <3>2. PICK v : v = u + ret /\ v \in 0 .. nblocks[Unit]
      BY <1>1
    <3>3. num_used' = [num_used EXCEPT ![Unit][frame.chan][frame.lun] = v]
      BY <1>2, <3>2
    <3>4. Unit \in Devices /\ frame.chan \in Channels(Unit) /\ frame.lun \in Luns(Unit)
      BY <1>1
    <3> HIDE DEF u, ret
    <3> QED
      BY <3>1, <3>2, <3>3, <3>4
  <2>2. alloc_units' \subseteq Extents
    <3>1. g \in Extents
      BY <1>1 DEF Ctl, TypeOK, Extents, Frames
    <3> QED
      BY <1>2, <3>1 DEF Ctl, TypeOK
  <2> QED
    BY <1>2, <1>3, <2>1, <2>2 DEF Ctl, TypeOK, startupVars, virtVars, publishVars
<1>5. FrameOK(c)'
  <2>1. Unit' = Unit /\ Shared(c)' = Shared(c) /\ ocssds' = ocssds /\ pc'[c] = "lun_loop"
    BY <1>1, <1>2, <1>3 DEF Unit, Shared, startupVars
  <2>2. FrameOK(c)
    BY DEF Ctl, FrameInBounds
  <2>3. RequestPerLun' = RequestPerLun
    BY <1>3, <2>1 DEF RequestPerLun
  <2>4. frame.lun + 1 <= nluns[Unit]
    BY <1>1, Geometry DEF Luns
  <2> QED
    BY <1>1, <1>3, <2>1, <2>2, <2>3, <2>4 DEF FrameOK, SharedEnd
<1>6. Goto(c, "lun_loop")
  BY <1>1, <1>2, GotoSelf DEF Ctl
<1> QED
  BY <1>1, <1>2, <1>3, <1>4, <1>5, <1>6, CtlStay

(* Leaving ocssd_channel::alloc_blocks keeps it. *)
LEMMA CtlLeaveSharedChannel ==
  ASSUME Ctl, NEW c \in Callers, LeaveSharedChannel(c)
  PROVE  Ctl'
<1>1. pc[c] = "lun_loop" /\ Goto(c, "channel_loop")
  BY DEF LeaveSharedChannel
<1>2. /\ Unit \in Devices /\ frame \in Frames /\ SharedEnd(Unit) \in 0 .. nchannels[Unit]
      /\ nchannels[Unit] \in Nat /\ InAlloc(c)
  BY <1>1, InUnit
<1>3. FrameOK(c)
  BY DEF Ctl, FrameInBounds
<1>4. /\ frame' \in Frames /\ frame'.unit = frame.unit /\ frame'.chan = frame.chan + 1
      /\ frame'.channels \in {frame.channels, frame.channels + 1}
      /\ frame'.remaining = frame.remaining
  <2>1. frame' = [frame EXCEPT !.chan = @ + 1,
                               !.channels = IF frame.allocated > 0 THEN @ + 1 ELSE @]
    BY DEF LeaveSharedChannel
  <2>2. /\ frame.chan + 1 \in Nat
        /\ (IF frame.allocated > 0 THEN frame.channels + 1 ELSE frame.channels) \in Nat
    BY <1>2 DEF Frames
  <2> QED
    BY <1>2, <2>1, <2>2 DEF Frames
<1>5. pc' \in [Callers -> Labels] /\ pc'[c] = "channel_loop"
  BY <1>1, Others DEF Labels, AllocLabels
<1>6. TypeOK'
  <2>1. frame.chan \in Channels(Unit) /\ frame.allocated \in Nat
    BY <1>1, <1>2, <1>3, SMTT(30) DEF FrameOK, Channels, Frames
  <2>2. /\ DOMAIN num_used_blocks' = Devices
        /\ \A d \in Devices : num_used_blocks'[d] \in [Channels(d) -> Nat]
    BY <1>2, <2>1, SMTT(30) DEF LeaveSharedChannel, Ctl, TypeOK
  <2>3. vluns' \subseteq Extents /\ alloc_units' \subseteq Extents
    BY DEF LeaveSharedChannel, Ctl, TypeOK
  <2> QED
    BY <1>4, <1>5, <2>2, <2>3 DEF LeaveSharedChannel, Ctl, TypeOK, startupVars, publishVars
<1>7. FrameOK(c)'
  <2>1. Unit' = Unit /\ Shared(c)' = Shared(c) /\ ocssds' = ocssds
    BY <1>4 DEF LeaveSharedChannel, Unit, Shared, startupVars
  <2>2. /\ Shared(c) /\ frame.channels < frame.remaining /\ frame.chan < SharedEnd(Unit)
        /\ frame.unit \in 1 .. Len(ocssds) /\ frame.remaining > 0
    BY <1>1, <1>3 DEF FrameOK
  <2>n. frame.chan \in Nat /\ frame.channels \in Nat /\ frame.remaining \in Nat
    BY <1>2 DEF Frames
  <2>3. /\ frame'.channels <= frame'.remaining
        /\ frame'.chan <= SharedEnd(Unit) /\ frame'.chan <= nchannels[Unit]
    BY <1>2, <1>4, <2>2, <2>n
  <2> QED
    BY <1>4, <1>5, <2>1, <2>2, <2>3 DEF FrameOK, SharedEnd
<1> QED
  BY <1>1, <1>4, <1>6, <1>7, CtlStay DEF LeaveSharedChannel

(* Giving away an exclusive channel keeps it: channels stays within what is *)
(* still to be granted.                                                    *)
LEMMA CtlTakeExclusiveChannel ==
  ASSUME Ctl, NEW c \in Callers, TakeExclusiveChannel(c)
  PROVE  Ctl'
<1>1. pc[c] = "channel_loop" /\ ~ChannelLoopDone(c) /\ ~Shared(c)
  BY DEF TakeExclusiveChannel
<1>2. /\ Unit \in Devices /\ frame \in Frames /\ SharedEnd(Unit) \in 0 .. nchannels[Unit]
      /\ nchannels[Unit] \in Nat /\ frame.unit \in 1 .. Len(ocssds)
  BY <1>1, InUnit
<1>3. /\ frame.chan \in ExclusiveChannels(Unit) /\ frame.chan \in Channels(Unit)
      /\ frame.channels < frame.remaining
  BY <1>1, AtChannel
<1>4. /\ frame' \in Frames /\ frame'.unit = frame.unit /\ frame'.chan = frame.chan + 1
      /\ frame'.channels = frame.channels + 1 /\ frame'.remaining = frame.remaining
  <2>1. frame' = [frame EXCEPT !.chan = @ + 1, !.channels = @ + 1]
    BY DEF TakeExclusiveChannel
  <2>2. frame.chan + 1 \in Nat /\ frame.channels + 1 \in Nat
    BY <1>2 DEF Frames
  <2> QED
    BY <1>2, <2>1, <2>2 DEF Frames
<1>5. TypeOK'
  <2>1. /\ DOMAIN used' = Devices
        /\ \A d \in Devices : used'[d] \in [Channels(d) -> BOOLEAN]
    <3>1. used' = [used EXCEPT ![Unit][frame.chan] = TRUE]
      BY DEF TakeExclusiveChannel
    <3>2. DOMAIN used = Devices /\ \A d \in Devices : used[d] \in [Channels(d) -> BOOLEAN]
      BY DEF Ctl, TypeOK
    <3> QED
      BY <1>2, <3>1, <3>2, Zenon
  <2>2. vchannels' \subseteq [vssd : Nat, dev : Devices, ch : Nat]
    <3>1. [vssd |-> vssd_id, dev |-> Unit, ch |-> frame.chan]
            \in [vssd : Nat, dev : Devices, ch : Nat]
      BY <1>2 DEF Ctl, TypeOK, Frames
    <3> QED
      BY <3>1 DEF TakeExclusiveChannel, Ctl, TypeOK
  <2> QED
    BY <1>4, <2>1, <2>2 DEF TakeExclusiveChannel, Ctl, TypeOK, startupVars, publishVars
<1>6. FrameOK(c)'
  <2>1. Unit' = Unit /\ Shared(c)' = Shared(c) /\ ocssds' = ocssds /\ pc'[c] = "channel_loop"
    BY <1>1, <1>4 DEF TakeExclusiveChannel, Unit, Shared, startupVars
  <2>2. frame.remaining > 0
    BY <1>1 DEF Ctl, FrameInBounds, FrameOK
  <2>n. frame.chan \in Nat /\ frame.channels \in Nat /\ frame.remaining \in Nat
    BY <1>2 DEF Frames
  <2>3. /\ frame'.channels <= frame'.remaining
        /\ SharedEnd(Unit) <= frame'.chan /\ frame'.chan <= nchannels[Unit]
    BY <1>2, <1>3, <1>4, <2>n DEF ExclusiveChannels
  <2> QED
    BY <1>1, <1>2, <1>4, <2>1, <2>2, <2>3 DEF FrameOK, SharedEnd
<1>7. Goto(c, "channel_loop")
  BY <1>1, GotoSelf DEF Ctl, TakeExclusiveChannel
<1> QED
  BY <1>1, <1>4, <1>5, <1>6, <1>7, CtlStay DEF TakeExclusiveChannel

(* Leaving alloc_channels keeps it: dec_channels does not pass below zero. *)
LEMMA CtlUnlockUnit ==
  ASSUME Ctl, NEW c \in Callers, UnlockUnit(c)
  PROVE  Ctl'
<1>1. pc[c] = "channel_loop" /\ Goto(c, "unit_loop")
  BY DEF UnlockUnit
<1>2. /\ Unit \in Devices /\ frame \in Frames /\ frame.channels <= frame.remaining
      /\ InAlloc(c)
  BY <1>1, InUnit
<1>3. frame' \in Frames
  <2>1. frame' = [frame EXCEPT !.unit = @ + 1, !.total = @ + frame.channels,
                               !.remaining = @ - frame.channels]
    BY DEF UnlockUnit, AfterUnit
  <2>2. /\ frame.unit + 1 \in Nat \ {0} /\ frame.total + frame.channels \in Nat
        /\ frame.remaining - frame.channels \in Nat
    BY <1>2 DEF Frames
  <2> QED
    BY <1>2, <2>1, <2>2 DEF Frames
<1>4. /\ pc' \in [Callers -> Labels] /\ pc'[c] = "unit_loop"
      /\ \A e \in Callers \ {c} : pc'[e] = pc[e] /\ pc[e] \notin AllocLabels
  BY <1>1, <1>2, Others DEF Labels, AllocLabels
<1>5. TypeOK'
  BY <1>2, <1>3, <1>4 DEF UnlockUnit, Ctl, TypeOK, startupVars, physVars, virtVars, publishVars
<1>6. MutexDiscipline'
  <2>1. \A e \in Callers : InAlloc(e)' <=> manager_mutex' = e
    BY <1>1, <1>4 DEF UnlockUnit, Ctl, MutexDiscipline, InAlloc, AllocLabels
  <2>2. \A d \in Devices, e \in Callers : unit_mutex'[d] # e
    BY <1>1, <1>2, <1>4, CallerAssumption DEF UnlockUnit, Ctl, TypeOK, MutexDiscipline,
       AllocLabels
  <2>3. \A e \in Callers : pc'[e] \notin {"channel_loop", "lun_loop"}
    BY <1>4 DEF AllocLabels
  <2> QED
    BY <2>1, <2>2, <2>3 DEF MutexDiscipline, InAlloc
<1>7. StartupFirst'
  BY <1>1, <1>4 DEF UnlockUnit, Ctl, StartupFirst, startupVars
<1>8. FrameInBounds'
  BY <1>4, OutsideFrameOK DEF FrameInBounds, FrameOK
<1> QED
  BY <1>5, <1>6, <1>7, <1>8 DEF Ctl

(* The return of alloc_ocssd_resource keeps it. *)
LEMMA CtlFinish ==
  ASSUME Ctl, NEW c \in Callers, Finish(c)
  PROVE  Ctl'
<1> DEFINE label == IF frame.total = 0 THEN "idle" ELSE "publish"
<1>1. /\ Goto(c, label) /\ label \in Labels /\ label \notin AllocLabels /\ InAlloc(c)
      /\ pc[c] = "finish"
  BY DEF Finish, Labels, AllocLabels, InAlloc
<1>2. /\ pc' \in [Callers -> Labels] /\ pc'[c] = label
      /\ \A e \in Callers \ {c} : pc'[e] = pc[e] /\ pc[e] \notin AllocLabels
  BY <1>1, Others
<1> HIDE DEF label
<1>3. \A e \in Callers : pc'[e] \notin AllocLabels
  BY <1>1, <1>2
<1>4. TypeOK'
  <2>1. frame' \in Frames
    BY DEF Finish, Frames, NoFrame
  <2>2. punit' \in [Callers -> Nat \ {0}] /\ vssd_id' \in Nat
    BY DEF Finish, Ctl, TypeOK
  <2> QED
    BY <1>2, <2>1, <2>2 DEF Finish, Ctl, TypeOK, startupVars, physVars, virtVars
<1>5. MutexDiscipline'
  <2>1. \A d \in Devices, e \in Callers : unit_mutex'[d] # e
    BY <1>1, <1>2 DEF Finish, Ctl, MutexDiscipline, AllocLabels
  <2> QED
    BY <1>3, <2>1, CallerAssumption DEF Finish, MutexDiscipline, InAlloc, AllocLabels
<1>6. StartupFirst'
  BY <1>1, <1>2 DEF Finish, Ctl, StartupFirst, startupVars
<1>7. FrameInBounds'
  BY <1>3, OutsideFrameOK DEF FrameInBounds
<1> QED
  BY <1>4, <1>5, <1>6, <1>7 DEF Ctl

(* publish_resource keeps it: it touches nothing the running call uses. *)
LEMMA CtlPublish ==
  ASSUME Ctl, NEW c \in Callers, Publish(c)
  PROVE  Ctl'
<1>1. PICK label \in {"insert", "idle", "publish"} : Goto(c, label)
  BY DEF Publish, GetStats, InsertEntity
<1>2. /\ label \in Labels /\ label \notin AllocLabels /\ pc[c] \in {"publish", "insert"}
      /\ UNCHANGED <<startupVars, physVars, vssd_id, manager_mutex, unit_mutex,
                     request, frame, alloc_units, virtVars>>
  BY DEF Publish, GetStats, InsertEntity, Labels, AllocLabels
<1>3. /\ pc' \in [Callers -> Labels] /\ pc'[c] = label
      /\ \A e \in Callers \ {c} : pc'[e] = pc[e]
  BY <1>1, <1>2, Others
<1>4. TypeOK'
  <2>1. /\ punit' \in [Callers -> Nat \ {0}]
        /\ DOMAIN stats' = Callers /\ DOMAIN table' = Devices
    BY DEF Publish, GetStats, InsertEntity, Ctl, TypeOK
  <2> QED
    BY <1>2, <1>3, <2>1 DEF Ctl, TypeOK, startupVars, physVars, virtVars
<1>5. MutexDiscipline'
  <2>1. Unit' = Unit
    BY <1>2 DEF Unit, startupVars
  <2> QED
    BY <1>2, <1>3, <2>1 DEF Ctl, MutexDiscipline, InAlloc, AllocLabels
<1>6. StartupFirst'
  BY <1>2, <1>3 DEF Ctl, StartupFirst, startupVars
<1>7. FrameInBounds'
  <2>1. \A e \in Callers \ {c} : FrameOK(e)'
    BY <1>2, <1>3 DEF Ctl, FrameInBounds, FrameOK, Unit, Shared, RequestPerLun, startupVars
  <2> QED
    BY <1>2, <1>3, <2>1, OutsideFrameOK DEF FrameInBounds
<1> QED
  BY <1>4, <1>5, <1>6, <1>7 DEF Ctl

(* Every step keeps the control invariant. *)
LEMMA CtlStep == Ctl /\ [Next]_vars => Ctl'
<1> SUFFICES ASSUME Ctl, [Next]_vars PROVE Ctl'
  OBVIOUS
<1>1. CASE Startup
  BY <1>1, CtlStartup
<1>2. ASSUME NEW c \in Callers, \E r \in Requests : CallManager(c, r) PROVE Ctl'
  BY <1>2, CtlCallManager
<1>3. ASSUME NEW c \in Callers, Alloc(c) PROVE Ctl'
  BY <1>3, CtlLockManager, CtlNextUnit, CtlLockUnit, CtlSkip, CtlEnterSharedChannel,
     CtlAllocLun, CtlLeaveSharedChannel, CtlTakeExclusiveChannel, CtlUnlockUnit, CtlFinish
  DEF Alloc
<1>4. ASSUME NEW c \in Callers, Publish(c) PROVE Ctl'
  BY <1>4, CtlPublish
<1>5. CASE UNCHANGED vars
  <2>1. TypeOK'
    BY <1>5 DEF Ctl, TypeOK, vars, startupVars, physVars, virtVars, publishVars
  <2>2. MutexDiscipline' /\ StartupFirst' /\ FrameInBounds'
    BY <1>5 DEF Ctl, MutexDiscipline, StartupFirst, FrameInBounds, FrameOK, InAlloc, Unit,
       Shared, RequestPerLun, vars, startupVars
  <2> QED
    BY <2>1, <2>2 DEF Ctl
<1> QED
  BY <1>1, <1>2, <1>3, <1>4, <1>5 DEF Next

-----------------------------------------------------------------------------
(* What has been handed out                                                *)

Grants ==
  UnderConstruction /\ ExtentsInUse /\ DisjointExtents /\ ExactAccounting /\ ExclusiveOwnership

(* Nothing is handed out when the server starts. *)
LEMMA GrantsInit == Init => Grants
<1> SUFFICES ASSUME Init PROVE Grants
  OBVIOUS
<1>1. Granted = {} /\ alloc_units = {} /\ vchannels = {}
  BY DEF Init, Granted
<1>2. ExactAccounting
  <2>1. \A d \in Devices : \A ch \in Channels(d), l \in Luns(d) : num_used[d][ch][l] = 0
    BY DEF Init
  <2> QED
    BY <1>1, <2>1, Geometry DEF ExactAccounting
<1>3. ExclusiveOwnership
  <2>1. \A d \in Devices : \A ch \in Channels(d) : ~used[d][ch]
    BY DEF Init
  <2> QED
    BY <1>1, <2>1 DEF ExclusiveOwnership
<1> QED
  BY <1>1, <1>2, <1>3 DEF Grants, UnderConstruction, ExtentsInUse, DisjointExtents

(* A step that hands nothing out. *)
LEMMA GrantsKept ==
  ASSUME Grants, UNCHANGED <<used, num_used, alloc_units, vluns, vchannels>>,
         UnderConstruction'
  PROVE  Grants'
<1>1. Granted' = Granted
  BY DEF Granted
<1>2. ExtentsInUse' /\ DisjointExtents'
  BY <1>1 DEF Grants, ExtentsInUse, DisjointExtents
<1>3. ExactAccounting' /\ ExclusiveOwnership'
  BY <1>1 DEF Grants, ExactAccounting, ExclusiveOwnership
<1> QED
  BY <1>2, <1>3 DEF Grants

(* While the running call is not in the loop over the LUNs, nothing is     *)
(* under construction.                                                     *)
LEMMA NothingBuilt ==
  ASSUME Ctl, UnderConstruction, NEW c \in Callers, InAlloc(c), pc[c] # "lun_loop"
  PROVE  alloc_units = {} /\ \A e \in Callers : pc[e] # "lun_loop"
<1>1. \A e \in Callers : pc[e] # "lun_loop"
  BY OneInAlloc DEF Ctl, InAlloc, AllocLabels
<1> QED
  BY <1>1 DEF UnderConstruction

(* Steps of callers outside the allocation, and of start-up. *)
LEMMA GrantsOutside ==
  ASSUME Ctl, Grants,
         \/ Startup
         \/ \E c \in Callers : (\E r \in Requests : CallManager(c, r)) \/ Publish(c)
  PROVE  Grants'
<1> DEFINE Still ==
      /\ UNCHANGED <<used, num_used, alloc_units, vluns, vchannels, frame, vssd_id>>
      /\ \A e \in Callers : (pc[e] = "lun_loop" \/ pc'[e] = "lun_loop") =>
            pc'[e] = pc[e] /\ ocssds' = ocssds
<1>1. Still
  <2>1. CASE Startup
    <3>1. UNCHANGED <<used, num_used, alloc_units, vluns, vchannels, frame, vssd_id, pc>>
      BY <2>1 DEF Startup, ProbeDevice, StartServing, physVars, virtVars
    <3>2. ~serving
      BY <2>1, PathsAssumption DEF Startup, ProbeDevice, StartServing, Ctl, StartupFirst, TypeOK
    <3> QED
      BY <3>1, <3>2 DEF Ctl, StartupFirst
  <2>2. ASSUME NEW c \in Callers, (\E r \in Requests : CallManager(c, r)) \/ Publish(c)
        PROVE  Still
    BY <2>2 DEF CallManager, Publish, GetStats, InsertEntity, Goto, Ctl, TypeOK,
       startupVars, physVars, virtVars
  <2> QED
    BY <2>1, <2>2
<1>2. UnderConstruction'
  BY <1>1 DEF Grants, UnderConstruction, Unit
<1> QED
  BY <1>1, <1>2, GrantsKept

(* Steps of the running call between the channels. *)
LEMMA GrantsBetween ==
  ASSUME Ctl, Grants, NEW c \in Callers,
         \/ LockManager(c) \/ NextUnit(c) \/ LockUnit(c) \/ SkipSharedChannel(c)
         \/ SkipExclusiveChannel(c) \/ EnterSharedChannel(c) \/ UnlockUnit(c) \/ Finish(c)
  PROVE  Grants'
<1>1. alloc_units = {} /\ \A e \in Callers : pc[e] # "lun_loop"
  <2>1. CASE LockManager(c)
    BY <2>1, CallerAssumption
    DEF LockManager, Ctl, MutexDiscipline, InAlloc, AllocLabels, Grants, UnderConstruction
  <2>2. CASE ~LockManager(c)
    <3>1. InAlloc(c) /\ pc[c] # "lun_loop"
      BY <2>2 DEF NextUnit, LockUnit, SkipSharedChannel, SkipExclusiveChannel,
         EnterSharedChannel, UnlockUnit, Finish, InAlloc, AllocLabels
    <3> QED
      BY <3>1, NothingBuilt DEF Grants
  <2> QED
    BY <2>1, <2>2
<1>2. UNCHANGED <<used, num_used, vluns, vchannels>> /\ alloc_units' = {}
  BY <1>1 DEF LockManager, NextUnit, LockUnit, SkipSharedChannel, SkipExclusiveChannel,
     EnterSharedChannel, UnlockUnit, Finish, physVars, virtVars
<1>3. UnderConstruction'
  BY <1>2 DEF UnderConstruction
<1> QED
  BY <1>1, <1>2, <1>3, GrantsKept

(* Moving alloc_units into the virtual OCSSD changes nobody's blocks: when it *)
(* is dropped instead, it holds none.                                      *)
LEMMA GrantsLeaveSharedChannel ==
  ASSUME Ctl, Grants, NEW c \in Callers, LeaveSharedChannel(c)
  PROVE  Grants'
<1>1. /\ pc[c] = "lun_loop" /\ alloc_units' = {} /\ UNCHANGED <<used, num_used, vchannels>>
      /\ vluns' = IF frame.allocated > 0 THEN vluns \cup alloc_units ELSE vluns
  BY DEF LeaveSharedChannel
<1>2. Granted' \subseteq Granted
  BY <1>1 DEF Granted
<1>3. \A g \in Granted \ Granted' : g.num = 0
  <2>1. frame.allocated \in Nat
    BY DEF Ctl, TypeOK, Frames
  <2>2. CASE frame.allocated > 0
    BY <1>1, <2>2 DEF Granted
  <2>3. CASE frame.allocated = 0
    BY <1>1, <2>3 DEF Granted, Grants, UnderConstruction
  <2> QED
    BY <2>1, <2>2, <2>3
<1>4. UnderConstruction'
  BY <1>1 DEF UnderConstruction
<1>5. ExtentsInUse' /\ DisjointExtents'
  BY <1>1, <1>2 DEF Grants, ExtentsInUse, DisjointExtents
<1>6. ExactAccounting'
  <2>1. \A g \in Granted : g.start \in Nat /\ g.num \in Nat
    BY DEF Ctl, TypeOK, Granted, Extents
  <2>2. \A b \in Nat, g \in Granted : Holds(g, b) => g \in Granted'
    BY <1>3, <2>1 DEF Holds
  <2>3. ASSUME NEW d \in Devices, NEW ch \in Channels(d), NEW l \in Luns(d),
               NEW b \in 0 .. nblocks[d] - 1
        PROVE  b < num_used'[d][ch][l]
                 <=> \E g \in Granted' : OnLun(g, d, ch, l) /\ Holds(g, b)
    <3>1. b \in Nat
      BY Geometry
    <3>2. b < num_used[d][ch][l] <=> \E g \in Granted : OnLun(g, d, ch, l) /\ Holds(g, b)
      BY DEF Grants, ExactAccounting
    <3> QED
      BY <1>1, <1>2, <2>2, <3>1, <3>2
  <2> QED
    BY <2>3 DEF ExactAccounting, OnLun, Holds
<1>7. ExclusiveOwnership'
  BY <1>1, <1>2 DEF Grants, ExclusiveOwnership
<1> QED
  BY <1>4, <1>5, <1>6, <1>7 DEF Grants

(* An exclusive channel given away had no owner. *)
LEMMA GrantsTakeExclusiveChannel ==
  ASSUME Ctl, Grants, NEW c \in Callers, TakeExclusiveChannel(c)
  PROVE  Grants'
<1> DEFINE v == [vssd |-> vssd_id, dev |-> Unit, ch |-> frame.chan]
<1>1. /\ pc[c] = "channel_loop" /\ ~ChannelLoopDone(c) /\ ~Shared(c)
      /\ ~used[Unit][frame.chan]
      /\ used' = [used EXCEPT ![Unit][frame.chan] = TRUE]
      /\ vchannels' = vchannels \cup {v}
      /\ UNCHANGED <<num_used, alloc_units, vluns>>
  BY DEF TakeExclusiveChannel
<1>2. InAlloc(c) /\ Unit \in Devices
  BY <1>1, InUnit
<1>3. frame.chan \in Channels(Unit) /\ frame.chan \in ExclusiveChannels(Unit)
  BY <1>1, AtChannel
<1>4. Granted' = Granted /\ alloc_units' = {}
  BY <1>1, <1>2, NothingBuilt DEF Granted, Grants
<1>5. UnderConstruction' /\ ExtentsInUse' /\ DisjointExtents' /\ ExactAccounting'
  BY <1>1, <1>4 DEF Grants, UnderConstruction, ExtentsInUse, DisjointExtents, ExactAccounting
<1>6. ExclusiveOwnership'
  <2>1. \A g \in vchannels : ~(g.dev = Unit /\ g.ch = frame.chan)
    BY <1>1, <1>2, <1>3 DEF Grants, ExclusiveOwnership
  <2>2. \A g, h \in vchannels' : g.dev = h.dev /\ g.ch = h.ch => g = h
    BY <1>1, <2>1 DEF Grants, ExclusiveOwnership
  <2>3. ASSUME NEW d \in Devices, NEW ch \in Channels(d)
        PROVE  used'[d][ch] <=> \E g \in vchannels' : g.dev = d /\ g.ch = ch
    <3>1. used[d][ch] <=> \E g \in vchannels : g.dev = d /\ g.ch = ch
      BY DEF Grants, ExclusiveOwnership
    <3>2. CASE d = Unit /\ ch = frame.chan
      <4>1. used'[d][ch]
        BY <1>1, <1>2, <3>2 DEF Ctl, TypeOK
      <4>2. v \in vchannels' /\ v.dev = d /\ v.ch = ch
        BY <1>1, <3>2
      <4> QED
        BY <4>1, <4>2
    <3>3. CASE ~(d = Unit /\ ch = frame.chan)
      <4>1. used'[d][ch] = used[d][ch]
        BY <1>1, <1>2, <3>3 DEF Ctl, TypeOK
      <4> QED
        BY <1>1, <3>1, <3>3, <4>1
    <3> QED
      BY <3>2, <3>3
  <2>4. \A g \in vchannels' : g.ch \in ExclusiveChannels(g.dev)
    BY <1>1, <1>3 DEF Grants, ExclusiveOwnership
  <2>5. \A g \in Granted' : g.ch \in SharedChannels(g.dev)
    BY <1>4 DEF Grants, ExclusiveOwnership
  <2> QED
    BY <2>2, <2>3, <2>4, <2>5 DEF ExclusiveOwnership
<1> QED
  BY <1>5, <1>6 DEF Grants

(* The blocks a LUN gives are the ones just above those in use, which no   *)
(* earlier grant holds.                                                    *)
LEMMA GrantsAllocLun ==
  ASSUME Ctl, Grants, NEW c \in Callers, AllocLun(c)
  PROVE  Grants'
<1> DEFINE u == num_used[Unit][frame.chan][frame.lun]
           ret == LunGrant(u, nblocks[Unit], RequestPerLun)
           g == [vssd |-> vssd_id, dev |-> Unit, ch |-> frame.chan, lun |-> frame.lun,
                 start |-> IF ret = 0 THEN 0 ELSE u, num |-> ret]
<1>1. /\ pc[c] = "lun_loop" /\ Unit \in Devices /\ frame \in Frames
      /\ frame.chan \in Channels(Unit) /\ frame.lun \in Luns(Unit)
      /\ frame.chan \in SharedChannels(Unit)
      /\ nblocks[Unit] \in Nat /\ u \in 0 .. nblocks[Unit]
      /\ ret \in Nat /\ u + ret <= nblocks[Unit]
  BY LunStep
<1>2. /\ num_used' = [num_used EXCEPT ![Unit][frame.chan][frame.lun] = u + ret]
      /\ alloc_units' = IF u >= nblocks[Unit] THEN alloc_units ELSE alloc_units \cup {g}
      /\ UNCHANGED <<ocssds, used, vssd_id, pc, vluns, vchannels>>
  BY SMTT(30) DEF AllocLun, LunExtent, LunExtentFrom, startupVars, virtVars
<1>3. /\ Unit' = Unit /\ frame'.chan = frame.chan /\ frame'.lun = frame.lun + 1
      /\ frame'.allocated = frame.allocated + ret
  <2>1. frame' = [frame EXCEPT !.lun = @ + 1, !.request_blocks = @ - ret, !.allocated = @ + ret]
    BY DEF AllocLun
  <2> QED
    BY <1>1, <1>2, <2>1 DEF Frames, Unit
<1>4. u >= nblocks[Unit] => ret = 0
  BY <1>1
<1> HIDE DEF u, ret
<1>5. /\ g.vssd = vssd_id /\ g.dev = Unit /\ g.ch = frame.chan /\ g.lun = frame.lun
      /\ g.num = ret /\ g.start = (IF ret = 0 THEN 0 ELSE u)
  OBVIOUS
<1> HIDE DEF g
<1>6. ASSUME NEW d \in Devices, NEW ch \in Channels(d), NEW l \in Luns(d)
      PROVE  num_used'[d][ch][l] =
               IF d = Unit /\ ch = frame.chan /\ l = frame.lun THEN u + ret
               ELSE num_used[d][ch][l]
  BY <1>1, <1>2 DEF Ctl, TypeOK
<1>7. \A h \in Granted : /\ h.dev \in Devices /\ h.ch \in Channels(h.dev)
                         /\ h.lun \in Luns(h.dev) /\ h.start \in Nat /\ h.num \in Nat
                         /\ h.start + h.num <= num_used[h.dev][h.ch][h.lun]
  <2>1. \A h \in Granted : h.dev \in Devices /\ h.start \in Nat /\ h.num \in Nat
    BY DEF Ctl, TypeOK, Granted, Extents
  <2> QED
    BY <2>1, Geometry DEF Grants, ExtentsInUse
<1>8. Granted' = (IF u >= nblocks[Unit] THEN Granted ELSE Granted \cup {g})
  BY <1>2 DEF Granted
<1>9. u = num_used[Unit][frame.chan][frame.lun]
  BY DEF u
<1>10. UnderConstruction'
  <2>1. \A h \in alloc_units :
          /\ h.vssd = vssd_id /\ h.dev = Unit /\ h.ch = frame.chan /\ h.lun < frame.lun
          /\ frame.allocated = 0 => h.num = 0
    BY <1>1 DEF Grants, UnderConstruction
  <2>2. frame.lun \in Nat /\ frame.allocated \in Nat
    BY <1>1 DEF Frames
  <2>3. \A h \in alloc_units : h.lun \in Nat
    BY DEF Ctl, TypeOK, Extents
  <2>4. ASSUME NEW h \in alloc_units'
        PROVE  /\ h.vssd = vssd_id' /\ h.dev = Unit' /\ h.ch = frame'.chan
               /\ h.lun < frame'.lun
               /\ frame'.allocated = 0 => h.num = 0
    <3>1. CASE h \in alloc_units
      BY <1>1, <1>2, <1>3, <2>1, <2>2, <2>3, <3>1
    <3>2. CASE h = g
      BY <1>1, <1>2, <1>3, <1>5, <2>2, <3>2
    <3> QED
      BY <1>2, <3>1, <3>2
  <2> QED
    BY <1>1, <1>2, <2>4 DEF UnderConstruction
<1>11. ExtentsInUse'
  <2>1. ASSUME NEW h \in Granted
        PROVE  /\ h.ch \in SharedChannels(h.dev) /\ h.lun \in Luns(h.dev)
               /\ h.start + h.num <= num_used'[h.dev][h.ch][h.lun]
    <3>1. num_used[h.dev][h.ch][h.lun] \in Nat
      BY <1>7 DEF Ctl, TypeOK
    <3>2. num_used[h.dev][h.ch][h.lun] <= num_used'[h.dev][h.ch][h.lun]
      BY <1>1, <1>6, <1>7, <1>9, <3>1, SMTT(30)
    <3>3. num_used'[h.dev][h.ch][h.lun] \in Nat
      BY <1>1, <1>6, <1>7, <3>1
    <3> QED
      BY <1>7, <3>1, <3>2, <3>3 DEF Grants, ExtentsInUse
  <2>2. /\ g.ch \in SharedChannels(g.dev) /\ g.lun \in Luns(g.dev)
        /\ g.start + g.num <= num_used'[g.dev][g.ch][g.lun]
    BY <1>1, <1>5, <1>6
  <2> QED
    BY <1>8, <2>1, <2>2 DEF ExtentsInUse
<1>12. DisjointExtents'
  <2>1. \A h \in Granted : SameLun(g, h) =>
          g.start + g.num <= h.start \/ h.start + h.num <= g.start
    BY <1>1, <1>5, <1>7, <1>9 DEF SameLun
  <2>2. \A h, k \in Granted : SameLun(h, k) /\ h # k =>
          h.start + h.num <= k.start \/ k.start + k.num <= h.start
    BY DEF Grants, DisjointExtents
  <2>3. \A h, k : SameLun(h, k) <=> SameLun(k, h)
    BY DEF SameLun
  <2> QED
    BY <1>8, <2>1, <2>2, <2>3 DEF DisjointExtents, SameLun
<1>13. ExactAccounting'
  <2>1. ASSUME NEW d \in Devices, NEW ch \in Channels(d), NEW l \in Luns(d),
               NEW b \in 0 .. nblocks[d] - 1
        PROVE  b < num_used'[d][ch][l]
                 <=> \E h \in Granted' : OnLun(h, d, ch, l) /\ Holds(h, b)
    <3>1. b \in Nat
      BY Geometry
    <3>2. b < num_used[d][ch][l] <=> \E h \in Granted : OnLun(h, d, ch, l) /\ Holds(h, b)
      BY DEF Grants, ExactAccounting
    <3>3. CASE d = Unit /\ ch = frame.chan /\ l = frame.lun
      <4>1. OnLun(g, d, ch, l)
        BY <1>5, <3>3 DEF OnLun
      <4>2. num_used'[d][ch][l] = u + ret /\ num_used[d][ch][l] = u
        BY <1>6, <1>9, <3>3
      <4>3. b < u + ret <=> b < u \/ Holds(g, b)
        BY <1>1, <1>5, <3>1 DEF Holds
      <4>4. u >= nblocks[Unit] => ~Holds(g, b)
        BY <1>1, <1>4, <1>5, <3>1 DEF Holds
      <4>5. (\E h \in Granted' : OnLun(h, d, ch, l) /\ Holds(h, b))
              <=> (\E h \in Granted : OnLun(h, d, ch, l) /\ Holds(h, b)) \/ Holds(g, b)
        BY <1>8, <4>1, <4>4
      <4> QED
        BY <3>2, <4>2, <4>3, <4>5
    <3>4. CASE ~(d = Unit /\ ch = frame.chan /\ l = frame.lun)
      <4>1. ~OnLun(g, d, ch, l)
        BY <1>5, <3>4 DEF OnLun
      <4>2. num_used'[d][ch][l] = num_used[d][ch][l]
        BY <1>6, <3>4
      <4> QED
        BY <1>8, <3>2, <4>1, <4>2
    <3> QED
      BY <3>3, <3>4
  <2> QED
    BY <2>1 DEF ExactAccounting, OnLun, Holds
<1>14. ExclusiveOwnership'
  <2>1. \A h \in Granted' : h.ch \in SharedChannels(h.dev)
    BY <1>1, <1>5, <1>8 DEF Grants, ExclusiveOwnership
  <2> QED
    BY <1>2, <2>1 DEF Grants, ExclusiveOwnership
<1> QED
  BY <1>10, <1>11, <1>12, <1>13, <1>14 DEF Grants

(* Every step keeps what has been handed out consistent. *)
LEMMA GrantsStep == Ctl /\ Grants /\ [Next]_vars => Grants'
<1> SUFFICES ASSUME Ctl, Grants, [Next]_vars PROVE Grants'
  OBVIOUS
<1>1. CASE \/ Startup
           \/ \E c \in Callers : (\E r \in Requests : CallManager(c, r)) \/ Publish(c)
  BY <1>1, GrantsOutside
<1>2. ASSUME NEW c \in Callers, Alloc(c) PROVE Grants'
  BY <1>2, GrantsBetween, GrantsAllocLun, GrantsLeaveSharedChannel,
     GrantsTakeExclusiveChannel
  DEF Alloc
<1>3. CASE UNCHANGED vars
  <2>1. UNCHANGED <<used, num_used, alloc_units, vluns, vchannels>> /\ UnderConstruction'
    BY <1>3 DEF vars, startupVars, physVars, virtVars, Grants, UnderConstruction, Unit
  <2> QED
    BY <2>1, GrantsKept
<1> QED
  BY <1>1, <1>2, <1>3 DEF Next

-----------------------------------------------------------------------------

(* IInv holds in every reachable state, whatever the number of devices,    *)
(* their geometry, the callers and the requests.                           *)
THEOREM InductiveInvariant == Spec => []IInv
<1>1. Init => IInv
  BY CtlInit, GrantsInit DEF IInv, Ctl, Grants
<1>2. IInv /\ [Next]_vars => IInv'
  BY CtlStep, GrantsStep DEF IInv, Ctl, Grants
<1> QED
  BY <1>1, <1>2, PTL DEF Spec

(* Types are respected: in particular the unsigned counters that           *)
(* alloc_blocks and dec_channels decrement never pass below zero, and no   *)
(* LUN uses more blocks than it has.                                       *)
THEOREM TypeCorrect == Spec => []TypeOK
<1>1. IInv => TypeOK
  BY DEF IInv
<1> QED
  BY <1>1, InductiveInvariant, PTL

(* Any number of threads may call alloc_ocssd_resource: the one inside     *)
(* holds manager.mutex_, and of the units' mutexes exactly the one of the  *)
(* unit it allocates from.                                                 *)
THEOREM MutexesHeld == Spec => []MutexDiscipline
<1>1. IInv => MutexDiscipline
  BY DEF IInv
<1> QED
  BY <1>1, InductiveInvariant, PTL

(* No physical block of a shared channel is in two grants. *)
THEOREM GrantsDisjoint == Spec => []DisjointExtents
<1>1. IInv => DisjointExtents
  BY DEF IInv
<1> QED
  BY <1>1, InductiveInvariant, PTL

(* ocssd_lun's num_used_ counts exactly the blocks some grant holds. *)
THEOREM AccountingExact == Spec => []ExactAccounting
<1>1. IInv => ExactAccounting
  BY DEF IInv
<1> QED
  BY <1>1, InductiveInvariant, PTL

(* An exclusive channel has one owner at most, and only whole-channel      *)
(* grants reach the exclusive channels.                                    *)
THEOREM ChannelsExclusive == Spec => []ExclusiveOwnership
<1>1. IInv => ExclusiveOwnership
  BY DEF IInv
<1> QED
  BY <1>1, InductiveInvariant, PTL

-----------------------------------------------------------------------------
(* num_used_blocks_ of a channel and num_used_ of its LUNs agree.  What    *)
(* makes it inductive is the state of the loop over the LUNs: the LUNs     *)
(* visited have all received the same, those to come are level.            *)

(* All LUNs of the channel had base blocks used when the loop began. *)
LoopFrom(base) ==
  LET ret == LunGrant(base, nblocks[Unit], RequestPerLun) IN
  /\ num_used_blocks[Unit][frame.chan] = nluns[Unit] * base
  /\ frame.allocated = frame.lun * ret
  /\ \A l \in Luns(Unit) :
       num_used[Unit][frame.chan][l] = IF l < frame.lun THEN base + ret ELSE base

LunsLevel ==
  \A c \in Callers : pc[c] = "lun_loop" =>
    \E base \in Nat : base < nblocks[Unit] /\ LoopFrom(base)

Counters == CountersAgree /\ LunsLevel

(* A product grows by one factor. *)
LEMMA OneMore ==
  ASSUME NEW k \in Nat, NEW s \in Nat
  PROVE  (k + 1) * s = k * s + s
OBVIOUS

(* Every LUN receives the same. *)
LEMMA Spread ==
  ASSUME NEW k \in Nat, NEW s \in Nat, NEW t \in Nat
  PROVE  k * (s + t) = k * s + k * t
OBVIOUS

(* LUNs whose multiples agree have the same number of blocks used. *)
LEMMA Cancel ==
  ASSUME NEW k \in Nat \ {0}, NEW s \in Nat, NEW t \in Nat, k * s = k * t
  PROVE  s = t
OBVIOUS

(* No share left to give means no share at all. *)
LEMMA NoShare ==
  ASSUME NEW k \in Nat \ {0}, NEW s \in Nat, k * s <= 0
  PROVE  s = 0
OBVIOUS

(* The share of each LUN is a number. *)
LEMMA ShareIsNat ==
  ASSUME frame \in Frames, nluns[Unit] \in Nat \ {0}
  PROVE  RequestPerLun \in Nat
<1>1. frame.blocks_per_channel \in Nat
  BY DEF Frames
<1> QED
  BY <1>1, ShareFits DEF RequestPerLun

(* At first all counters are zero. *)
LEMMA CountersInit == Init => Counters
<1> SUFFICES ASSUME Init PROVE Counters
  OBVIOUS
<1>1. \A c \in Callers : pc[c] # "lun_loop"
  BY DEF Init
<1>2. \A d \in Devices : \A ch \in Channels(d), l \in Luns(d) :
        num_used_blocks[d][ch] = 0 /\ num_used[d][ch][l] = 0
  BY DEF Init
<1>3. \A d \in Devices : nluns[d] * 0 = 0
  BY Geometry
<1> QED
  BY <1>1, <1>2, <1>3 DEF Counters, CountersAgree, LunsLevel

(* A step that leaves the counters and the loop alone. *)
LEMMA CountersKept ==
  ASSUME Counters, UNCHANGED <<num_used, num_used_blocks>>,
         \A e \in Callers : (pc[e] = "lun_loop" \/ pc'[e] = "lun_loop") =>
            pc'[e] = pc[e] /\ UNCHANGED <<ocssds, frame>>
  PROVE  Counters'
<1>1. \A d \in Devices : \A ch \in Channels(d) : InLunLoop(d, ch)' <=> InLunLoop(d, ch)
  BY DEF InLunLoop, Unit
<1>2. CountersAgree'
  BY <1>1 DEF Counters, CountersAgree
<1>3. LunsLevel'
  BY DEF Counters, LunsLevel, LoopFrom, Unit, RequestPerLun
<1> QED
  BY <1>2, <1>3 DEF Counters

(* The channel's LUNs are level when the loop over them begins, and not    *)
(* full: num_used_blocks_ would be num_total_blocks_.                      *)
LEMMA CountersEnterSharedChannel ==
  ASSUME IInv, Counters, NEW c \in Callers, EnterSharedChannel(c)
  PROVE  Counters'
<1>1. /\ pc[c] = "channel_loop" /\ ~ChannelLoopDone(c) /\ Shared(c)
      /\ num_used_blocks[Unit][frame.chan] # TotalBlocks(Unit)
      /\ frame' = [frame EXCEPT !.lun = 0, !.allocated = 0,
                                !.request_blocks = frame.blocks_per_channel]
      /\ UNCHANGED <<ocssds, num_used, num_used_blocks>>
      /\ Goto(c, "lun_loop")
  BY DEF EnterSharedChannel, startupVars, physVars
<1>2. Ctl /\ InAlloc(c) /\ TypeOK
  BY <1>1 DEF IInv, Ctl, InAlloc, AllocLabels
<1>3. /\ Unit \in Devices /\ frame \in Frames /\ frame.chan \in Channels(Unit)
      /\ nluns[Unit] \in Nat \ {0} /\ nblocks[Unit] \in Nat \ {0}
  BY <1>1, <1>2, InUnit, AtChannel
<1>4. \A e \in Callers : pc[e] # "lun_loop"
  BY <1>1, <1>2, NothingBuilt DEF IInv
<1>6. /\ frame'.lun = 0 /\ frame'.allocated = 0 /\ frame'.chan = frame.chan /\ Unit' = Unit
      /\ frame'.blocks_per_channel = frame.blocks_per_channel
  BY <1>1, <1>3 DEF Frames, Unit
<1>7. RequestPerLun' = RequestPerLun
  BY <1>6 DEF RequestPerLun
<1>8. CountersAgree'
  BY <1>1, <1>4 DEF Counters, CountersAgree, InLunLoop
<1>9. UNCHANGED <<num_used, num_used_blocks>>
  BY <1>1
<1>10. \A l \in Luns(Unit) :
         num_used_blocks[Unit][frame.chan] = nluns[Unit] * num_used[Unit][frame.chan][l]
  <2>1. ~InLunLoop(Unit, frame.chan)
    BY <1>4 DEF InLunLoop
  <2> QED
    BY <1>3, <2>1 DEF Counters, CountersAgree
<1>11. \A l \in Luns(Unit) : num_used[Unit][frame.chan][l] \in 0 .. nblocks[Unit]
  <2>1. num_used[Unit] \in [Channels(Unit) -> [Luns(Unit) -> 0 .. nblocks[Unit]]]
    BY <1>2, <1>3 DEF TypeOK
  <2> QED
    BY <1>3, <2>1
<1>12. PICK base \in Nat : base = num_used[Unit][frame.chan][0]
  <2>1. 0 \in Luns(Unit)
    BY <1>3 DEF Luns
  <2> QED
    BY <1>3, <1>11, <2>1
<1>13. /\ base \in 0 .. nblocks[Unit]
       /\ num_used_blocks[Unit][frame.chan] = nluns[Unit] * base
  <2>1. 0 \in Luns(Unit)
    BY <1>3 DEF Luns
  <2> QED
    BY <1>10, <1>11, <1>12, <2>1
<1>14. base < nblocks[Unit]
  <2>1. base # nblocks[Unit]
    <3>1. nluns[Unit] * nblocks[Unit] = nblocks[Unit] * nluns[Unit]
      BY <1>3
    <3> QED
      BY <1>1, <1>13, <3>1 DEF TotalBlocks
  <2> QED
    BY <1>3, <1>13, <2>1
<1>15. \A l \in Luns(Unit) : num_used[Unit][frame.chan][l] = base
  <2> SUFFICES ASSUME NEW l \in Luns(Unit) PROVE num_used[Unit][frame.chan][l] = base
    OBVIOUS
  <2>1. num_used[Unit][frame.chan][l] \in Nat
    BY <1>3, <1>11
  <2>2. nluns[Unit] * num_used[Unit][frame.chan][l] = nluns[Unit] * base
    BY <1>10, <1>13
  <2> QED
    BY <1>3, <2>1, <2>2, Cancel
<1>16. LoopFrom(base)'
  <2>1. LunGrant(base, nblocks[Unit], RequestPerLun) \in Nat
    BY <1>3, <1>13, ShareIsNat, LunGrantBounds
  <2>2. 0 * LunGrant(base, nblocks[Unit], RequestPerLun) = 0
    BY <2>1
  <2>3. \A l \in Luns(Unit) : ~(l < 0)
    BY <1>3 DEF Luns
  <2> QED
    BY <1>6, <1>7, <1>9, <1>13, <1>15, <2>2, <2>3 DEF LoopFrom
<1>17. base < nblocks[Unit]'
  BY <1>6, <1>14
<1>18. LunsLevel'
  BY <1>16, <1>17 DEF LunsLevel
<1> QED
  BY <1>8, <1>18 DEF Counters

(* Where the loop over the LUNs stands, in the state before its next step. *)
LEMMA InLoop ==
  ASSUME IInv, Counters, NEW c \in Callers, pc[c] = "lun_loop"
  PROVE  /\ Ctl
         /\ Unit \in Devices /\ frame \in Frames /\ frame.chan \in Channels(Unit)
         /\ nluns[Unit] \in Nat \ {0} /\ nblocks[Unit] \in Nat \ {0}
         /\ RequestPerLun \in Nat
         /\ frame.lun \in 0 .. nluns[Unit]
         /\ (nluns[Unit] - frame.lun) * RequestPerLun <= frame.request_blocks
         /\ \E base \in Nat : base < nblocks[Unit] /\ LoopFrom(base)
<1>1. Ctl
  BY DEF IInv, Ctl
<1>2. /\ Unit \in Devices /\ frame \in Frames /\ nluns[Unit] \in Nat \ {0}
      /\ nblocks[Unit] \in Nat \ {0} /\ SharedEnd(Unit) \in 0 .. nchannels[Unit]
      /\ nchannels[Unit] \in Nat \ {0}
  BY <1>1, InUnit
<1>3. /\ frame.chan < SharedEnd(Unit) /\ frame.lun <= nluns[Unit]
      /\ (nluns[Unit] - frame.lun) * RequestPerLun <= frame.request_blocks
  BY <1>1 DEF Ctl, FrameInBounds, FrameOK
<1>4. frame.chan \in Nat /\ frame.lun \in Nat
  BY <1>2 DEF Frames
<1>5. frame.chan \in Channels(Unit) /\ frame.lun \in 0 .. nluns[Unit]
  BY <1>2, <1>3, <1>4 DEF Channels
<1>6. \E base \in Nat : base < nblocks[Unit] /\ LoopFrom(base)
  BY DEF Counters, LunsLevel
<1> QED
  BY <1>1, <1>2, <1>3, <1>5, <1>6, ShareIsNat

(* A LUN visited receives what the ones before it have received.           *)
LEMMA CountersAllocLun ==
  ASSUME IInv, Counters, NEW c \in Callers, AllocLun(c)
  PROVE  Counters'
<1>1. pc[c] = "lun_loop" /\ frame.lun < nluns[Unit] /\ pc' = pc /\ ocssds' = ocssds
      /\ num_used_blocks' = num_used_blocks
  BY DEF AllocLun, startupVars
<1>2. /\ Ctl
      /\ Unit \in Devices /\ frame \in Frames /\ frame.chan \in Channels(Unit)
      /\ nluns[Unit] \in Nat \ {0} /\ nblocks[Unit] \in Nat \ {0}
      /\ RequestPerLun \in Nat /\ frame.lun \in 0 .. nluns[Unit]
  BY <1>1, InLoop
<1>3. PICK base \in Nat : base < nblocks[Unit] /\ LoopFrom(base)
  BY <1>1, InLoop
<1>4. frame.lun \in Luns(Unit)
  BY <1>1, <1>2 DEF Luns
<1>5. num_used[Unit][frame.chan][frame.lun] = base
  <2>1. ~(frame.lun < frame.lun)
    BY <1>2
  <2> QED
    BY <1>3, <1>4, <2>1 DEF LoopFrom
<1>6. PICK ret : ret = LunGrant(base, nblocks[Unit], RequestPerLun)
  OBVIOUS
<1>7. ret \in Nat
  <2>1. base \in 0 .. nblocks[Unit] /\ nblocks[Unit] \in Nat
    BY <1>2, <1>3
  <2> QED
    BY <1>2, <1>6, <2>1, LunGrantBounds
<1>8. /\ num_used' = [num_used EXCEPT ![Unit][frame.chan][frame.lun] = base + ret]
      /\ frame' = [frame EXCEPT !.lun = @ + 1, !.request_blocks = @ - ret,
                                !.allocated = @ + ret]
  BY <1>5, <1>6 DEF AllocLun
<1>9. /\ frame'.lun = frame.lun + 1 /\ frame'.allocated = frame.allocated + ret
      /\ frame'.chan = frame.chan /\ frame'.unit = frame.unit
      /\ frame'.blocks_per_channel = frame.blocks_per_channel
  <2>1. frame' = [frame EXCEPT !.lun = @ + 1, !.request_blocks = @ - ret,
                               !.allocated = @ + ret]
    BY <1>8
  <2> QED
    BY <1>2, <2>1 DEF Frames
<1>10. Unit' = Unit
  BY <1>1, <1>9 DEF Unit
<1>11. RequestPerLun' = RequestPerLun
  BY <1>9, <1>10 DEF RequestPerLun
<1>12. /\ DOMAIN num_used = Devices
       /\ num_used[Unit] \in [Channels(Unit) -> [Luns(Unit) -> 0 .. nblocks[Unit]]]
  BY <1>2 DEF Ctl, TypeOK
<1>13. \A l \in Luns(Unit) : num_used'[Unit][frame.chan][l] =
          IF l = frame.lun THEN base + ret ELSE num_used[Unit][frame.chan][l]
  <2>1. num_used' = [num_used EXCEPT ![Unit][frame.chan][frame.lun] = base + ret]
    BY <1>8
  <2> QED
    BY <1>2, <1>4, <1>12, <2>1
<1>14. \A d \in Devices : \A ch \in Channels(d) :
          d # Unit \/ ch # frame.chan => num_used'[d][ch] = num_used[d][ch]
  <2>1. num_used' = [num_used EXCEPT ![Unit][frame.chan][frame.lun] = base + ret]
    BY <1>8
  <2>2. /\ DOMAIN num_used = Devices
        /\ \A d \in Devices : DOMAIN num_used[d] = Channels(d)
    BY <1>2 DEF Ctl, TypeOK
  <2> QED
    BY <1>2, <2>1, <2>2
<1>15. LoopFrom(base)'
  <2>1. /\ num_used_blocks[Unit][frame.chan] = nluns[Unit] * base
        /\ frame.allocated = frame.lun * ret
        /\ \A l \in Luns(Unit) : num_used[Unit][frame.chan][l] =
              IF l < frame.lun THEN base + ret ELSE base
    BY <1>3, <1>6 DEF LoopFrom
  <2>2. frame'.allocated = frame'.lun * ret
    BY <1>2, <1>7, <1>9, <2>1, OneMore
  <2>3. \A l \in Luns(Unit) : num_used'[Unit][frame.chan][l] =
           IF l < frame.lun + 1 THEN base + ret ELSE base
    BY <1>2, <1>13, <2>1 DEF Luns
  <2>4. Luns(Unit)' = Luns(Unit)
    BY <1>10 DEF Luns
  <2> QED
    BY <1>1, <1>6, <1>9, <1>10, <1>11, <2>1, <2>2, <2>3, <2>4 DEF LoopFrom
<1>16. LunsLevel'
  BY <1>3, <1>10, <1>15 DEF LunsLevel
<1>17. CountersAgree'
  <2> SUFFICES ASSUME NEW d \in Devices, NEW ch \in Channels(d), ~InLunLoop(d, ch)',
                      NEW l \in Luns(d)
               PROVE  num_used_blocks'[d][ch] = nluns[d] * num_used'[d][ch][l]
    BY DEF CountersAgree
  <2>1. ~InLunLoop(d, ch) /\ (d # Unit \/ ch # frame.chan)
    BY <1>1, <1>9, <1>10 DEF InLunLoop
  <2>2. num_used_blocks[d][ch] = nluns[d] * num_used[d][ch][l]
    BY <2>1 DEF Counters, CountersAgree
  <2> QED
    BY <1>1, <1>14, <2>1, <2>2
<1> QED
  BY <1>16, <1>17 DEF Counters

(* At the end of the loop every LUN has received the same: all have been   *)
(* visited, or the share of each was nothing.                              *)
LEMMA CountersLeaveSharedChannel ==
  ASSUME IInv, Counters, NEW c \in Callers, LeaveSharedChannel(c)
  PROVE  Counters'
<1>1. /\ pc[c] = "lun_loop" /\ ocssds' = ocssds /\ num_used' = num_used
      /\ frame.lun = nluns[Unit] \/ frame.request_blocks = 0
      /\ num_used_blocks' = [num_used_blocks EXCEPT ![Unit][frame.chan] = @ + frame.allocated]
      /\ Goto(c, "channel_loop")
  BY DEF LeaveSharedChannel, startupVars
<1>2. /\ Ctl
      /\ Unit \in Devices /\ frame \in Frames /\ frame.chan \in Channels(Unit)
      /\ nluns[Unit] \in Nat \ {0} /\ nblocks[Unit] \in Nat \ {0}
      /\ RequestPerLun \in Nat /\ frame.lun \in 0 .. nluns[Unit]
      /\ (nluns[Unit] - frame.lun) * RequestPerLun <= frame.request_blocks
  BY <1>1, InLoop
<1>3. PICK base \in Nat : base < nblocks[Unit] /\ LoopFrom(base)
  BY <1>1, InLoop
<1>4. PICK ret : ret = LunGrant(base, nblocks[Unit], RequestPerLun)
  OBVIOUS
<1>5. ret \in Nat /\ ret <= RequestPerLun
  <2>1. base \in 0 .. nblocks[Unit] /\ nblocks[Unit] \in Nat
    BY <1>2, <1>3
  <2> QED
    BY <1>2, <1>4, <2>1, LunGrantBounds
<1>6. /\ num_used_blocks[Unit][frame.chan] = nluns[Unit] * base
      /\ frame.allocated = frame.lun * ret
      /\ \A l \in Luns(Unit) : num_used[Unit][frame.chan][l] =
            IF l < frame.lun THEN base + ret ELSE base
  BY <1>3, <1>4 DEF LoopFrom
<1>7. \A e \in Callers : pc'[e] # "lun_loop"
  <2>1. \A e \in Callers \ {c} : pc[e] \notin AllocLabels
    BY <1>1, <1>2, InUnit
  <2> QED
    BY <1>1, <1>2, <2>1 DEF Goto, Ctl, TypeOK, AllocLabels
<1>8. \A l \in Luns(Unit) :
        nluns[Unit] * base + frame.allocated = nluns[Unit] * num_used[Unit][frame.chan][l]
  <2>1. CASE frame.lun = nluns[Unit]
    <3>1. \A l \in Luns(Unit) : l < frame.lun
      BY <1>2, <2>1 DEF Luns
    <3>2. nluns[Unit] * (base + ret) = nluns[Unit] * base + nluns[Unit] * ret
      BY <1>2, <1>3, <1>5, Spread
    <3> QED
      BY <1>6, <2>1, <3>1, <3>2
  <2>2. CASE frame.lun # nluns[Unit]
    <3>1. nluns[Unit] - frame.lun \in Nat \ {0}
      BY <1>2, <2>2
    <3>2. (nluns[Unit] - frame.lun) * RequestPerLun <= 0
      BY <1>1, <1>2, <2>2
    <3>3. RequestPerLun = 0
      BY <1>2, <3>1, <3>2, NoShare
    <3>4. ret = 0
      BY <1>5, <3>3
    <3>5. frame.allocated = 0
      BY <1>2, <1>6, <3>4
    <3>6. \A l \in Luns(Unit) : num_used[Unit][frame.chan][l] = base
      BY <1>3, <1>6, <3>4
    <3> QED
      BY <1>2, <1>3, <3>5, <3>6
  <2> QED
    BY <2>1, <2>2
<1>9. \A d \in Devices : \A ch \in Channels(d) :
        num_used_blocks'[d][ch] = IF d = Unit /\ ch = frame.chan
                                  THEN nluns[Unit] * base + frame.allocated
                                  ELSE num_used_blocks[d][ch]
  <2>1. /\ DOMAIN num_used_blocks = Devices
        /\ \A d \in Devices : DOMAIN num_used_blocks[d] = Channels(d)
    BY <1>2 DEF Ctl, TypeOK
  <2> QED
    BY <1>1, <1>2, <1>6, <2>1
<1>10. CountersAgree'
  <2> SUFFICES ASSUME NEW d \in Devices, NEW ch \in Channels(d), NEW l \in Luns(d)
               PROVE  num_used_blocks'[d][ch] = nluns[d] * num_used'[d][ch][l]
    BY DEF CountersAgree
  <2>1. CASE d = Unit /\ ch = frame.chan
    BY <1>1, <1>8, <1>9, <2>1
  <2>2. CASE ~(d = Unit /\ ch = frame.chan)
    <3>1. ~InLunLoop(d, ch)
      BY <2>2 DEF InLunLoop
    <3>2. num_used_blocks[d][ch] = nluns[d] * num_used[d][ch][l]
      BY <3>1 DEF Counters, CountersAgree
    <3> QED
      BY <1>1, <1>9, <2>2, <3>2
  <2> QED
    BY <2>1, <2>2
<1>11. LunsLevel'
  BY <1>7 DEF LunsLevel
<1> QED
  BY <1>10, <1>11 DEF Counters

(* Steps that touch neither the counters nor the loop over the LUNs.       *)
LEMMA CountersElsewhere ==
  ASSUME IInv, Counters,
         \/ Startup
         \/ \E c \in Callers :
              \/ \E r \in Requests : CallManager(c, r)
              \/ Publish(c)
              \/ LockManager(c) \/ NextUnit(c) \/ LockUnit(c) \/ SkipSharedChannel(c)
              \/ SkipExclusiveChannel(c) \/ TakeExclusiveChannel(c) \/ UnlockUnit(c)
              \/ Finish(c)
         \/ UNCHANGED vars
  PROVE  Counters'
<1> DEFINE Still ==
      /\ UNCHANGED <<num_used, num_used_blocks>>
      /\ \A e \in Callers : (pc[e] = "lun_loop" \/ pc'[e] = "lun_loop") =>
            pc'[e] = pc[e] /\ UNCHANGED <<ocssds, frame>>
<1>0. Ctl /\ UnderConstruction
  BY DEF IInv, Ctl
<1>1. CASE Startup
  <2>1. UNCHANGED <<num_used, num_used_blocks, pc>>
    BY <1>1 DEF Startup, ProbeDevice, StartServing, physVars
  <2>2. ~serving
    BY <1>0, <1>1, PathsAssumption
    DEF Startup, ProbeDevice, StartServing, Ctl, StartupFirst, TypeOK
  <2>3. Still
    BY <1>0, <2>1, <2>2 DEF Ctl, StartupFirst
  <2> QED
    BY <2>3, CountersKept
<1>2. ASSUME NEW c \in Callers, (\E r \in Requests : CallManager(c, r)) \/ Publish(c)
      PROVE  Counters'
  <2>1. Still
    BY <1>0, <1>2 DEF CallManager, Publish, GetStats, InsertEntity, Goto, Ctl, TypeOK,
       startupVars, physVars
  <2> QED
    BY <2>1, CountersKept
<1>3. ASSUME NEW c \in Callers,
             \/ LockManager(c) \/ NextUnit(c) \/ LockUnit(c) \/ SkipSharedChannel(c)
             \/ SkipExclusiveChannel(c) \/ TakeExclusiveChannel(c) \/ UnlockUnit(c)
             \/ Finish(c)
      PROVE  Counters'
  <2>1. \A e \in Callers : pc[e] # "lun_loop"
    <3>1. CASE LockManager(c)
      BY <1>0, <3>1, CallerAssumption
      DEF LockManager, Ctl, MutexDiscipline, InAlloc, AllocLabels
    <3>2. CASE ~LockManager(c)
      <4>1. InAlloc(c) /\ pc[c] # "lun_loop"
        BY <1>3, <3>2 DEF NextUnit, LockUnit, SkipSharedChannel, SkipExclusiveChannel,
           TakeExclusiveChannel, UnlockUnit, Finish, InAlloc, AllocLabels
      <4> QED
        BY <1>0, <4>1, NothingBuilt
    <3> QED
      BY <3>1, <3>2
  <2>2. UNCHANGED <<num_used, num_used_blocks>>
    BY <1>3 DEF LockManager, NextUnit, LockUnit, SkipSharedChannel, SkipExclusiveChannel,
       TakeExclusiveChannel, UnlockUnit, Finish, physVars
  <2>3. \A e \in Callers : pc'[e] # "lun_loop"
    <3>1. PICK label \in Labels \ {"lun_loop"} : pc' = pc \/ Goto(c, label)
      BY <1>3 DEF LockManager, NextUnit, LockUnit, SkipSharedChannel, SkipExclusiveChannel,
         TakeExclusiveChannel, UnlockUnit, Finish, Labels, AllocLabels
    <3>2. pc \in [Callers -> Labels]
      BY <1>0 DEF Ctl, TypeOK
    <3> QED
      BY <2>1, <3>1, <3>2 DEF Goto
  <2> QED
    BY <2>1, <2>2, <2>3, CountersKept
<1>4. CASE UNCHANGED vars
  <2>1. Still
    BY <1>4 DEF vars, startupVars, physVars
  <2> QED
    BY <2>1, CountersKept
<1> QED
  BY <1>1, <1>2, <1>3, <1>4

(* The counters agree in every reachable state, and in the loop over the   *)
(* LUNs of a channel those visited have received the same.                 *)
LEMMA CountersInvariant == Spec => []Counters
<1>1. IInv /\ Counters /\ [Next]_vars => Counters'
  <2> SUFFICES ASSUME IInv, Counters, [Next]_vars PROVE Counters'
    OBVIOUS
  <2>1. ASSUME NEW c \in Callers, Alloc(c) PROVE Counters'
    BY <2>1, CountersElsewhere, CountersEnterSharedChannel, CountersAllocLun,
       CountersLeaveSharedChannel
    DEF Alloc
  <2>2. ASSUME NEW c \in Callers, (\E r \in Requests : CallManager(c, r)) \/ Publish(c)
        PROVE  Counters'
    BY <2>2, CountersElsewhere
  <2>3. CASE Startup \/ UNCHANGED vars
    BY <2>3, CountersElsewhere
  <2> QED
    BY <2>1, <2>2, <2>3 DEF Next
<1> QED
  BY <1>1, CountersInit, InductiveInvariant, PTL DEF Spec

(* Whenever no call is in the loop over a channel's LUNs, the LUNs are     *)
(* level and num_used_blocks_ is their sum: what the channel's "full" test *)
(* and get_free_blocks report is exact, for any geometry and any requests. *)
THEOREM ChannelCountersAgree == Spec => []CountersAgree
<1>1. Counters => CountersAgree
  BY DEF Counters
<1> QED
  BY <1>1, CountersInvariant, PTL

-----------------------------------------------------------------------------
(* The manager implements BlockOwnership.  Finish is the abstract Seal,    *)
(* AllocLun and TakeExclusiveChannel are Extend, and every other step      *)
(* leaves the owners of all blocks alone.                                  *)

BlockOwners(b) == Owners(b[1], b[2], b[3], b[4])

(* The coordinates of a physical block. *)
LEMMA BlockParts ==
  ASSUME NEW b \in Blocks
  PROVE  /\ b[1] \in Devices /\ b[2] \in Channels(b[1]) /\ b[3] \in Luns(b[1])
         /\ b[4] \in 0 .. nblocks[b[1]] - 1 /\ b[4] \in Nat
<1>1. PICK d \in Devices : b \in {d} \X Channels(d) \X Luns(d) \X (0 .. nblocks[d] - 1)
  BY DEF Blocks
<1> QED
  BY <1>1, Geometry

(* A block that is held by no range and lies in no exclusive grant has no  *)
(* owner, and one that has an owner is in one of them.                     *)
LEMMA OwnersMeaning ==
  ASSUME NEW d, NEW ch, NEW l, NEW b, NEW i
  PROVE  i \in Owners(d, ch, l, b) <=>
           \/ \E g \in Granted : g.vssd = i /\ OnLun(g, d, ch, l) /\ Holds(g, b)
           \/ \E g \in vchannels : g.vssd = i /\ g.dev = d /\ g.ch = ch
BY DEF Owners

(* The same of the state after a step. *)
LEMMA OwnersMeaningNext ==
  ASSUME NEW d, NEW ch, NEW l, NEW b, NEW i
  PROVE  i \in Owners(d, ch, l, b)' <=>
           \/ \E g \in Granted' : g.vssd = i /\ OnLun(g, d, ch, l) /\ Holds(g, b)
           \/ \E g \in vchannels' : g.vssd = i /\ g.dev = d /\ g.ch = ch
BY DEF Owners, OnLun, Holds

(* A step that gives no block away and completes no virtual OCSSD is a     *)
(* stuttering step of the abstract specification.                          *)
LEMMA OwnersKept ==
  ASSUME \A b \in Blocks : BlockOwners(b)' = BlockOwners(b), vssd_id' = vssd_id
  PROVE  [Ownership!Next]_<<[b \in Blocks |-> Owners(b[1], b[2], b[3], b[4])], vssd_id>>
BY DEF BlockOwners

(* With the same ranges and channels handed out, the owners are the same. *)
LEMMA SameGrants ==
  ASSUME Granted' = Granted, vchannels' = vchannels
  PROVE  \A b \in Blocks : BlockOwners(b)' = BlockOwners(b)
<1> SUFFICES ASSUME NEW b \in Blocks, NEW i
             PROVE  i \in BlockOwners(b)' <=> i \in BlockOwners(b)
  BY DEF BlockOwners, Owners
<1> QED
  BY OwnersMeaning, OwnersMeaningNext DEF BlockOwners

(* Dropping ranges without a block changes no owner either. *)
LEMMA EmptyRangesDropped ==
  ASSUME \A g \in Granted : g.start \in Nat /\ g.num \in Nat,
         Granted' \subseteq Granted, \A g \in Granted \ Granted' : g.num = 0,
         vchannels' = vchannels
  PROVE  \A b \in Blocks : BlockOwners(b)' = BlockOwners(b)
<1> SUFFICES ASSUME NEW b \in Blocks, NEW i
             PROVE  i \in BlockOwners(b)' <=> i \in BlockOwners(b)
  BY DEF BlockOwners, Owners
<1>1. \A g \in Granted : Holds(g, b[4]) => g \in Granted'
  BY BlockParts DEF Holds
<1> QED
  BY <1>1, OwnersMeaning, OwnersMeaningNext DEF BlockOwners

(* One more range on a LUN, above all that was used of it, goes to blocks  *)
(* without an owner.                                                       *)
LEMMA RangeAdded ==
  ASSUME TypeOK, ExactAccounting, ExclusiveOwnership,
         NEW g, Granted' = Granted \cup {g}, vchannels' = vchannels, g.vssd = vssd_id,
         g.dev \in Devices, g.ch \in SharedChannels(g.dev), g.lun \in Luns(g.dev),
         g.start \in Nat, g.num \in Nat,
         g.num > 0 => g.start = num_used[g.dev][g.ch][g.lun]
  PROVE  \A b \in Blocks : \/ BlockOwners(b)' = BlockOwners(b)
                           \/ BlockOwners(b) = {} /\ BlockOwners(b)' = {vssd_id}
<1> SUFFICES ASSUME NEW b \in Blocks
             PROVE  \/ BlockOwners(b)' = BlockOwners(b)
                    \/ BlockOwners(b) = {} /\ BlockOwners(b)' = {vssd_id}
  OBVIOUS
<1> DEFINE Given == OnLun(g, b[1], b[2], b[3]) /\ Holds(g, b[4])
<1>1. /\ b[1] \in Devices /\ b[2] \in Channels(b[1]) /\ b[3] \in Luns(b[1])
      /\ b[4] \in 0 .. nblocks[b[1]] - 1 /\ b[4] \in Nat
  BY BlockParts
<1>2. \A i : i \in BlockOwners(b)' <=> i \in BlockOwners(b) \/ (Given /\ i = vssd_id)
  BY OwnersMeaning, OwnersMeaningNext DEF BlockOwners
<1>3. CASE ~Given
  <2>1. \A i : i \in BlockOwners(b)' <=> i \in BlockOwners(b)
    BY <1>2, <1>3
  <2> QED
    BY <2>1 DEF BlockOwners, Owners
<1>4. CASE Given
  <2>1. g.dev = b[1] /\ g.ch = b[2] /\ g.lun = b[3] /\ g.num > 0 /\ g.start <= b[4]
    BY <1>1, <1>4 DEF OnLun, Holds
  <2>2. num_used[b[1]][b[2]][b[3]] <= b[4]
    BY <2>1
  <2>3. num_used[b[1]][b[2]][b[3]] \in Nat
    BY <1>1 DEF TypeOK
  <2>4. ~\E h \in Granted : OnLun(h, b[1], b[2], b[3]) /\ Holds(h, b[4])
    <3>1. b[4] < num_used[b[1]][b[2]][b[3]]
            <=> \E h \in Granted : OnLun(h, b[1], b[2], b[3]) /\ Holds(h, b[4])
      BY <1>1 DEF ExactAccounting
    <3> QED
      BY <1>1, <2>2, <2>3, <3>1
  <2>5. ~\E h \in vchannels : h.dev = b[1] /\ h.ch = b[2]
    <3>1. b[2] \in SharedChannels(b[1]) /\ b[2] \notin ExclusiveChannels(b[1])
      BY <1>1, <2>1, Geometry
    <3> QED
      BY <3>1 DEF ExclusiveOwnership
  <2>6. \A i : i \notin BlockOwners(b)
    BY <2>4, <2>5, OwnersMeaning DEF BlockOwners
  <2>7. BlockOwners(b) = {}
    BY <2>6
  <2>8. BlockOwners(b)' = {vssd_id}
    <3>1. \A i : i \in BlockOwners(b)' <=> i = vssd_id
      BY <1>2, <1>4, <2>6
    <3> QED
      BY <3>1 DEF BlockOwners, Owners
  <2> QED
    BY <2>7, <2>8
<1> QED
  BY <1>3, <1>4

(* One more exclusive channel, that was not used, goes to blocks without   *)
(* an owner.                                                               *)
LEMMA ChannelAdded ==
  ASSUME TypeOK, ExclusiveOwnership,
         NEW g, Granted' = Granted, vchannels' = vchannels \cup {g}, g.vssd = vssd_id,
         g.dev \in Devices, g.ch \in ExclusiveChannels(g.dev), ~used[g.dev][g.ch]
  PROVE  \A b \in Blocks : \/ BlockOwners(b)' = BlockOwners(b)
                           \/ BlockOwners(b) = {} /\ BlockOwners(b)' = {vssd_id}
<1> SUFFICES ASSUME NEW b \in Blocks
             PROVE  \/ BlockOwners(b)' = BlockOwners(b)
                    \/ BlockOwners(b) = {} /\ BlockOwners(b)' = {vssd_id}
  OBVIOUS
<1> DEFINE Given == g.dev = b[1] /\ g.ch = b[2]
<1>1. /\ b[1] \in Devices /\ b[2] \in Channels(b[1])
  BY BlockParts
<1>2. \A i : i \in BlockOwners(b)' <=> i \in BlockOwners(b) \/ (Given /\ i = vssd_id)
  BY OwnersMeaning, OwnersMeaningNext DEF BlockOwners
<1>3. CASE ~Given
  <2>1. \A i : i \in BlockOwners(b)' <=> i \in BlockOwners(b)
    BY <1>2, <1>3
  <2> QED
    BY <2>1 DEF BlockOwners, Owners
<1>4. CASE Given
  <2>1. ~\E h \in Granted : OnLun(h, b[1], b[2], b[3]) /\ Holds(h, b[4])
    <3>1. b[2] \notin SharedChannels(b[1])
      BY <1>1, <1>4, Geometry
    <3> QED
      BY <3>1 DEF ExclusiveOwnership, OnLun
  <2>2. ~\E h \in vchannels : h.dev = b[1] /\ h.ch = b[2]
    BY <1>1, <1>4 DEF ExclusiveOwnership
  <2>3. \A i : i \notin BlockOwners(b)
    BY <2>1, <2>2, OwnersMeaning DEF BlockOwners
  <2>4. BlockOwners(b) = {}
    BY <2>3
  <2>5. BlockOwners(b)' = {vssd_id}
    <3>1. \A i : i \in BlockOwners(b)' <=> i = vssd_id
      BY <1>2, <1>4, <2>3
    <3> QED
      BY <3>1 DEF BlockOwners, Owners
  <2> QED
    BY <2>4, <2>5
<1> QED
  BY <1>3, <1>4

-----------------------------------------------------------------------------

(* The abstract variables, as the manager's. *)
abstractVars == <<[b \in Blocks |-> Owners(b[1], b[2], b[3], b[4])], vssd_id>>

(* A step that gives free blocks to the virtual OCSSD under construction   *)
(* is the abstract Extend.                                                 *)
LEMMA ExtendStep ==
  ASSUME \A b \in Blocks : \/ BlockOwners(b)' = BlockOwners(b)
                           \/ BlockOwners(b) = {} /\ BlockOwners(b)' = {vssd_id},
         vssd_id' = vssd_id
  PROVE  Ownership!Next
<1>1. Ownership!Extend
  BY DEF Ownership!Extend, BlockOwners
<1> QED
  BY <1>1 DEF Ownership!Next

(* At first no block has an owner. *)
LEMMA RefinesInit == Init => Ownership!Init
<1> SUFFICES ASSUME Init PROVE Ownership!Init
  OBVIOUS
<1>1. Granted = {} /\ vchannels = {} /\ vssd_id = 0
  BY DEF Init, Granted
<1>2. \A b \in Blocks : Owners(b[1], b[2], b[3], b[4]) = {}
  BY <1>1 DEF Owners
<1> QED
  BY <1>1, <1>2 DEF Ownership!Init

(* A visit to a LUN extends the virtual OCSSD under construction. *)
LEMMA RefinesAllocLun ==
  ASSUME IInv, NEW c \in Callers, AllocLun(c)
  PROVE  [Ownership!Next]_abstractVars
<1> DEFINE u == num_used[Unit][frame.chan][frame.lun]
           ret == LunGrant(u, nblocks[Unit], RequestPerLun)
           g == LunExtent(u, ret)
<1>1. Ctl
  BY DEF IInv, Ctl
<1>2. /\ Unit \in Devices /\ frame.chan \in SharedChannels(Unit) /\ frame.lun \in Luns(Unit)
      /\ u \in Nat /\ ret \in Nat
  BY <1>1, LunStep
<1>3. /\ alloc_units' = IF u >= nblocks[Unit] THEN alloc_units ELSE alloc_units \cup {g}
      /\ UNCHANGED <<vluns, vchannels, vssd_id>>
  BY DEF AllocLun, virtVars
<1>4. /\ g.vssd = vssd_id /\ g.dev = Unit /\ g.ch = frame.chan /\ g.lun = frame.lun
      /\ g.num = ret /\ g.start = (IF ret = 0 THEN 0 ELSE u)
  BY DEF LunExtent, LunExtentFrom
<1>5. u = num_used[Unit][frame.chan][frame.lun]
  OBVIOUS
<1> HIDE DEF u, ret, g
<1>6. CASE u >= nblocks[Unit]
  <2>1. Granted' = Granted
    BY <1>3, <1>6 DEF Granted
  <2> QED
    BY <1>3, <2>1, SameGrants, OwnersKept DEF abstractVars
<1>7. CASE ~(u >= nblocks[Unit])
  <2>1. Granted' = Granted \cup {g}
    BY <1>3, <1>7 DEF Granted
  <2>2. g.start \in Nat /\ g.num \in Nat
    BY <1>2, <1>4
  <2>3. g.num > 0 => g.start = num_used[g.dev][g.ch][g.lun]
    BY <1>2, <1>4, <1>5
  <2>4. TypeOK /\ ExactAccounting /\ ExclusiveOwnership
    BY DEF IInv
  <2>5. \A b \in Blocks : \/ BlockOwners(b)' = BlockOwners(b)
                          \/ BlockOwners(b) = {} /\ BlockOwners(b)' = {vssd_id}
    BY <1>2, <1>3, <1>4, <2>1, <2>2, <2>3, <2>4, RangeAdded
  <2> QED
    BY <1>3, <2>5, ExtendStep
<1> QED
  BY <1>6, <1>7

(* So does an exclusive channel. *)
LEMMA RefinesTakeExclusiveChannel ==
  ASSUME IInv, NEW c \in Callers, TakeExclusiveChannel(c)
  PROVE  [Ownership!Next]_abstractVars
<1> DEFINE g == [vssd |-> vssd_id, dev |-> Unit, ch |-> frame.chan]
<1>1. Ctl /\ TypeOK /\ ExclusiveOwnership
  BY DEF IInv, Ctl
<1>2. /\ pc[c] = "channel_loop" /\ ~ChannelLoopDone(c) /\ ~Shared(c)
      /\ ~used[Unit][frame.chan]
      /\ vchannels' = vchannels \cup {g}
      /\ UNCHANGED <<alloc_units, vluns, vssd_id>>
  BY DEF TakeExclusiveChannel
<1>3. Unit \in Devices /\ frame.chan \in ExclusiveChannels(Unit)
  BY <1>1, <1>2, InUnit, AtChannel
<1>4. g.vssd = vssd_id /\ g.dev = Unit /\ g.ch = frame.chan
  OBVIOUS
<1>5. Granted' = Granted
  BY <1>2 DEF Granted
<1> HIDE DEF g
<1>6. \A b \in Blocks : \/ BlockOwners(b)' = BlockOwners(b)
                        \/ BlockOwners(b) = {} /\ BlockOwners(b)' = {vssd_id}
  BY <1>1, <1>2, <1>3, <1>4, <1>5, ChannelAdded
<1> QED
  BY <1>2, <1>6, ExtendStep

(* The return of alloc_ocssd_resource completes the virtual OCSSD. *)
LEMMA RefinesFinish ==
  ASSUME IInv, NEW c \in Callers, Finish(c)
  PROVE  [Ownership!Next]_abstractVars
<1>1. vssd_id' = vssd_id + 1 /\ Granted' = Granted /\ vchannels' = vchannels
  BY DEF Finish, Granted, virtVars
<1>2. \A b \in Blocks : BlockOwners(b)' = BlockOwners(b)
  BY <1>1, SameGrants
<1>3. Ownership!Seal
  BY <1>1, <1>2 DEF Ownership!Seal, BlockOwners
<1> QED
  BY <1>3 DEF Ownership!Next

(* The end of ocssd_channel::alloc_blocks changes no owner: the ranges it  *)
(* drops hold no block.                                                    *)
LEMMA RefinesLeaveSharedChannel ==
  ASSUME IInv, NEW c \in Callers, LeaveSharedChannel(c)
  PROVE  [Ownership!Next]_abstractVars
<1>1. /\ pc[c] = "lun_loop" /\ alloc_units' = {} /\ UNCHANGED <<vssd_id, vchannels>>
      /\ vluns' = IF frame.allocated > 0 THEN vluns \cup alloc_units ELSE vluns
  BY DEF LeaveSharedChannel
<1>2. Granted' \subseteq Granted
  BY <1>1 DEF Granted
<1>3. \A g \in Granted \ Granted' : g.num = 0
  <2>1. frame.allocated \in Nat
    BY DEF IInv, TypeOK, Frames
  <2>2. CASE frame.allocated > 0
    BY <1>1, <2>2 DEF Granted
  <2>3. CASE frame.allocated = 0
    BY <1>1, <2>3 DEF Granted, IInv, UnderConstruction
  <2> QED
    BY <2>1, <2>2, <2>3
<1>4. \A g \in Granted : g.start \in Nat /\ g.num \in Nat
  BY DEF IInv, TypeOK, Granted, Extents
<1> QED
  BY <1>1, <1>2, <1>3, <1>4, EmptyRangesDropped, OwnersKept DEF abstractVars

(* The other steps of the running call. *)
LEMMA RefinesBetween ==
  ASSUME IInv, NEW c \in Callers,
         \/ LockManager(c) \/ NextUnit(c) \/ LockUnit(c) \/ SkipSharedChannel(c)
         \/ SkipExclusiveChannel(c) \/ EnterSharedChannel(c) \/ UnlockUnit(c)
  PROVE  [Ownership!Next]_abstractVars
<1>1. UNCHANGED <<vluns, vchannels, vssd_id>> /\ (alloc_units' = alloc_units \/ EnterSharedChannel(c))
  BY DEF LockManager, NextUnit, LockUnit, SkipSharedChannel, SkipExclusiveChannel,
     EnterSharedChannel, UnlockUnit, virtVars
<1>2. alloc_units' = alloc_units
  <2>1. ASSUME EnterSharedChannel(c) PROVE alloc_units' = alloc_units
    <3>1. pc[c] = "channel_loop" /\ alloc_units' = {}
      BY <2>1 DEF EnterSharedChannel
    <3>2. Ctl /\ UnderConstruction /\ InAlloc(c)
      BY <3>1 DEF IInv, Ctl, InAlloc, AllocLabels
    <3> QED
      BY <3>1, <3>2, NothingBuilt
  <2> QED
    BY <1>1, <2>1
<1>3. Granted' = Granted
  BY <1>1, <1>2 DEF Granted
<1> QED
  BY <1>1, <1>3, SameGrants, OwnersKept DEF abstractVars

(* Steps outside the allocation. *)
LEMMA RefinesOutside ==
  ASSUME \/ Startup
         \/ \E c \in Callers : (\E r \in Requests : CallManager(c, r)) \/ Publish(c)
         \/ UNCHANGED vars
  PROVE  [Ownership!Next]_abstractVars
<1>1. UNCHANGED <<vluns, vchannels, vssd_id, alloc_units>>
  BY DEF Startup, ProbeDevice, StartServing, CallManager, Publish, GetStats, InsertEntity,
     vars, virtVars
<1>2. Granted' = Granted
  BY <1>1 DEF Granted
<1> QED
  BY <1>1, <1>2, SameGrants, OwnersKept DEF abstractVars

(* Every step of the manager is a step of the abstract specification. *)
LEMMA OwnershipStep ==
  ASSUME IInv, [Next]_vars
  PROVE  [Ownership!Next]_abstractVars
<1>1. ASSUME NEW c \in Callers, Alloc(c) PROVE [Ownership!Next]_abstractVars
  BY <1>1, RefinesAllocLun, RefinesTakeExclusiveChannel, RefinesFinish,
     RefinesLeaveSharedChannel, RefinesBetween
  DEF Alloc
<1> QED
  BY <1>1, RefinesOutside DEF Next

(* The manager implements BlockOwnership, whatever the devices, the        *)
(* requests and the interleaving of the threads: once a block is given to  *)
(* a virtual OCSSD it belongs to that one alone and for good, and a        *)
(* virtual OCSSD does not change after alloc_ocssd_resource has returned.  *)
THEOREM RefinesOwnership == Spec => ImplementsOwnership
<1>1. Init => Ownership!Init
  BY RefinesInit
<1>2. IInv /\ [Next]_vars => [Ownership!Next]_abstractVars
  BY OwnershipStep
<1>3. Spec => []IInv
  BY InductiveInvariant
<1> QED
  BY <1>1, <1>2, <1>3, PTL DEF Spec, ImplementsOwnership, Ownership!Spec, abstractVars

-----------------------------------------------------------------------------
(* Channels granted and channels counted                                   *)

InLoops(c) == pc[c] \in {"channel_loop", "lun_loop"}

(* The channels the running call has counted: frame.channels is of the     *)
(* unit it is at.                                                          *)
CountedSoFar(c) == frame.total + (IF InLoops(c) THEN frame.channels ELSE 0)

(* The part of the invariant about one running call. *)
CallCounted(c) ==
  /\ Cardinality(GrantedChannels(vssd_id)) <= CountedSoFar(c)
  /\ frame.total + frame.remaining = request[c].channels

ChannelsCounted ==
  /\ \A g \in vluns \cup vchannels : g.vssd <= vssd_id
  /\ IsFiniteSet(GrantedChannels(vssd_id))
  /\ (\A c \in Callers : ~InAlloc(c)) => GrantedChannels(vssd_id) = {}
  /\ \A c \in Callers : InAlloc(c) => CallCounted(c)

(* No virtual OCSSD has been built at first. *)
LEMMA CountedInit == Init => ChannelsCounted
<1> SUFFICES ASSUME Init PROVE ChannelsCounted
  OBVIOUS
<1>1. vluns = {} /\ vchannels = {} /\ \A c \in Callers : ~InAlloc(c)
  BY DEF Init, InAlloc, AllocLabels
<1>2. GrantedChannels(vssd_id) = {}
  BY <1>1 DEF GrantedChannels
<1> QED
  BY <1>1, <1>2, FS_EmptySet DEF ChannelsCounted

(* Steps outside the allocation leave the running call, if any, alone.     *)
LEMMA CountedOutside ==
  ASSUME Ctl, ChannelsCounted,
         UNCHANGED <<vluns, vchannels, vssd_id, frame>>,
         \A e \in Callers : InAlloc(e)' <=> InAlloc(e),
         \A e \in Callers : InAlloc(e) => pc'[e] = pc[e] /\ request'[e] = request[e]
  PROVE  ChannelsCounted'
<1>1. GrantedChannels(vssd_id)' = GrantedChannels(vssd_id)
  BY DEF GrantedChannels
<1>2. \A e \in Callers : InAlloc(e) /\ CallCounted(e) => CallCounted(e)'
  BY <1>1 DEF CallCounted, CountedSoFar, InLoops
<1> QED
  BY <1>1, <1>2 DEF ChannelsCounted

(* A step of the running call that grants nothing and counts nothing new.  *)
LEMMA CountedMove ==
  ASSUME Ctl, ChannelsCounted, NEW c \in Callers, InAlloc(c),
         NEW label \in AllocLabels, Goto(c, label),
         UNCHANGED <<vluns, vchannels, vssd_id, request>>,
         CountedSoFar(c)' = CountedSoFar(c),
         frame'.total + frame'.remaining = frame.total + frame.remaining
  PROVE  ChannelsCounted'
<1>1. /\ pc'[c] = label
      /\ \A e \in Callers \ {c} : pc'[e] = pc[e] /\ pc[e] \notin AllocLabels
  BY Others DEF Labels
<1>2. GrantedChannels(vssd_id)' = GrantedChannels(vssd_id)
  BY DEF GrantedChannels
<1>3. InAlloc(c)' /\ \A e \in Callers \ {c} : ~InAlloc(e)'
  BY <1>1 DEF InAlloc
<1>4. CallCounted(c)'
  BY <1>2 DEF CallCounted, ChannelsCounted
<1> QED
  BY <1>2, <1>3, <1>4 DEF ChannelsCounted

(* A step of the running call that adds one channel and counts it. *)
LEMMA CountedGrant ==
  ASSUME Ctl, ChannelsCounted, NEW c \in Callers, InAlloc(c), NEW ch,
         NEW label \in AllocLabels, Goto(c, label),
         UNCHANGED <<vssd_id, request>>,
         \A g \in (vluns \cup vchannels)' \ (vluns \cup vchannels) :
            g.vssd = vssd_id /\ <<g.dev, g.ch>> = ch,
         CountedSoFar(c) \in Nat, CountedSoFar(c)' = CountedSoFar(c) + 1,
         frame'.total + frame'.remaining = frame.total + frame.remaining,
         vluns \cup vchannels \subseteq (vluns \cup vchannels)'
  PROVE  ChannelsCounted'
<1>1. /\ pc'[c] = label
      /\ \A e \in Callers \ {c} : pc'[e] = pc[e] /\ pc[e] \notin AllocLabels
  BY Others DEF Labels
<1>2. InAlloc(c)' /\ \A e \in Callers \ {c} : ~InAlloc(e)'
  BY <1>1 DEF InAlloc
<1> DEFINE S == GrantedChannels(vssd_id)
           T == GrantedChannels(vssd_id)'
<1>3. T \subseteq S \cup {ch}
  <2> SUFFICES ASSUME NEW x \in T PROVE x \in S \cup {ch}
    OBVIOUS
  <2>1. PICK g \in (vluns \cup vchannels)' : g.vssd = vssd_id /\ x = <<g.dev, g.ch>>
    BY DEF GrantedChannels
  <2>2. CASE g \in vluns \cup vchannels
    BY <2>1, <2>2 DEF GrantedChannels
  <2>3. CASE g \notin vluns \cup vchannels
    BY <2>1, <2>3
  <2> QED
    BY <2>2, <2>3
<1>4. IsFiniteSet(S) /\ Cardinality(S) <= CountedSoFar(c) /\ Cardinality(S) \in Nat
  BY FS_CardinalityType DEF ChannelsCounted, CallCounted
<1> HIDE DEF S, T
<1>5. /\ IsFiniteSet(S \cup {ch})
      /\ Cardinality(S \cup {ch}) <= CountedSoFar(c) + 1
      /\ Cardinality(S \cup {ch}) \in Nat
  <2>1. /\ IsFiniteSet(S \cup {ch})
        /\ Cardinality(S \cup {ch}) = IF ch \in S THEN Cardinality(S) ELSE Cardinality(S) + 1
    BY <1>4, FS_AddElement
  <2>2. Cardinality(S \cup {ch}) \in {Cardinality(S), Cardinality(S) + 1}
    BY <2>1
  <2> QED
    BY <1>4, <2>1, <2>2
<1>6. IsFiniteSet(T) /\ Cardinality(T) <= Cardinality(S \cup {ch}) /\ Cardinality(T) \in Nat
  BY <1>3, <1>5, FS_Subset, FS_CardinalityType
<1>7. Cardinality(T) <= CountedSoFar(c)'
  BY <1>5, <1>6
<1>8. CallCounted(c)'
  BY <1>7 DEF CallCounted, ChannelsCounted, T
<1>9. vssd_id \in Nat /\ \A g \in (vluns \cup vchannels)' : g.vssd <= vssd_id'
  BY DEF ChannelsCounted, Ctl, TypeOK
<1> QED
  BY <1>2, <1>6, <1>8, <1>9 DEF ChannelsCounted, T

(* The numbers of the frame. *)
LEMMA FrameNumbers ==
  ASSUME TypeOK
  PROVE  /\ frame \in Frames
         /\ frame.total \in Nat /\ frame.channels \in Nat /\ frame.remaining \in Nat
         /\ frame.chan \in Nat /\ frame.unit \in Nat \ {0} /\ frame.allocated \in Nat
         /\ frame.blocks_per_channel \in Nat
         /\ \A c : CountedSoFar(c) \in Nat
BY DEF TypeOK, Frames, CountedSoFar

(* A call begins with nothing granted. *)
LEMMA CountedLockManager ==
  ASSUME Ctl, ChannelsCounted, NEW c \in Callers, LockManager(c)
  PROVE  ChannelsCounted'
<1>1. \A e \in Callers : ~InAlloc(e)
  BY CallerAssumption DEF LockManager, Ctl, MutexDiscipline
<1>2. "unit_loop" \in Labels /\ "unit_loop" \in AllocLabels
  BY DEF Labels, AllocLabels
<1>3. pc'[c] = "unit_loop" /\ \A e \in Callers \ {c} : pc'[e] = pc[e]
  BY <1>2, Others DEF LockManager
<1>4. UNCHANGED <<vluns, vchannels, vssd_id, request>>
  BY DEF LockManager, virtVars
<1>5. GrantedChannels(vssd_id)' = {} /\ GrantedChannels(vssd_id) = {}
  BY <1>1, <1>4 DEF ChannelsCounted, GrantedChannels
<1>6. request[c].channels \in Nat
  BY RequestFields DEF Ctl
<1>7. frame'.total = 0 /\ frame'.remaining = request[c].channels
  BY DEF LockManager, NoFrame
<1>8. CallCounted(c)'
  <2>1. CountedSoFar(c)' = 0
    BY <1>3, <1>7 DEF CountedSoFar, InLoops
  <2> QED
    BY <1>4, <1>5, <1>6, <1>7, <2>1, FS_EmptySet DEF CallCounted
<1>9. InAlloc(c)' /\ \A e \in Callers \ {c} : ~InAlloc(e)'
  BY <1>1, <1>2, <1>3 DEF InAlloc
<1> QED
  BY <1>4, <1>5, <1>8, <1>9, FS_EmptySet DEF ChannelsCounted

(* The loops of alloc_ocssd_resource, alloc_channels and alloc_blocks, as  *)
(* far as they grant nothing, leave the count of the channels as it is.    *)
LEMMA BetweenStep ==
  ASSUME Ctl, NEW c \in Callers,
         \/ NextUnit(c) \/ LockUnit(c) \/ SkipSharedChannel(c) \/ SkipExclusiveChannel(c)
         \/ EnterSharedChannel(c) \/ AllocLun(c) \/ UnlockUnit(c)
  PROVE  /\ InAlloc(c)
         /\ \E label \in AllocLabels : Goto(c, label)
         /\ UNCHANGED <<ocssds, serving, used, num_used_blocks, vluns, vchannels, vssd_id,
                       request, publishVars>>
         /\ CountedSoFar(c)' = CountedSoFar(c)
         /\ frame'.total + frame'.remaining = frame.total + frame.remaining
<1>0. TypeOK /\ frame \in Frames
  BY DEF Ctl, TypeOK
<1>1. /\ InAlloc(c)
      /\ UNCHANGED <<ocssds, serving, used, num_used_blocks, vluns, vchannels, vssd_id,
                    request, publishVars>>
  BY DEF NextUnit, LockUnit, SkipSharedChannel, SkipExclusiveChannel, EnterSharedChannel,
     AllocLun, UnlockUnit, startupVars, physVars, virtVars, InAlloc, AllocLabels
<1>2. CASE NextUnit(c)
  <2>1. PICK label \in {"finish", "lock_unit"} : Goto(c, label)
    BY <1>2 DEF NextUnit
  <2>2. pc[c] = "unit_loop" /\ pc'[c] = label /\ frame' = frame
    BY <1>0, <1>2, <2>1 DEF NextUnit, Goto, TypeOK
  <2> QED
    BY <1>1, <2>1, <2>2 DEF CountedSoFar, InLoops, AllocLabels
<1>3. CASE LockUnit(c)
  <2>1. pc[c] = "lock_unit" /\ pc'[c] = "channel_loop" /\ Goto(c, "channel_loop")
    BY <1>0, <1>3 DEF LockUnit, Goto, TypeOK
  <2>2. frame'.total = frame.total /\ frame'.remaining = frame.remaining /\ frame'.channels = 0
    BY <1>0, <1>3 DEF LockUnit, Frames
  <2>3. CountedSoFar(c)' = CountedSoFar(c)
    BY <1>0, <2>1, <2>2, FrameNumbers DEF CountedSoFar, InLoops
  <2> QED
    BY <1>1, <2>1, <2>2, <2>3 DEF AllocLabels
<1>4. CASE SkipSharedChannel(c) \/ SkipExclusiveChannel(c) \/ EnterSharedChannel(c) \/ AllocLun(c)
  <2>1. PICK label \in {"channel_loop", "lun_loop"} : Goto(c, label)
    <3>1. CASE EnterSharedChannel(c)
      BY <3>1, SMTT(30) DEF EnterSharedChannel
    <3>2. CASE ~EnterSharedChannel(c)
      BY <1>0, <1>4, <3>2, GotoSelf, SMTT(30) DEF SkipSharedChannel, SkipExclusiveChannel, AllocLun
    <3> QED
      BY <3>1, <3>2
  <2>2. pc[c] \in {"channel_loop", "lun_loop"} /\ pc'[c] = label
    BY <1>0, <1>4, <2>1, ZenonT(30)
    DEF SkipSharedChannel, SkipExclusiveChannel, EnterSharedChannel, AllocLun, Goto, TypeOK
  <2>3. /\ frame'.total = frame.total /\ frame'.remaining = frame.remaining
        /\ frame'.channels = frame.channels
    BY <1>0, <1>4
    DEF SkipSharedChannel, SkipExclusiveChannel, EnterSharedChannel, AllocLun, Frames
  <2>4. CountedSoFar(c)' = CountedSoFar(c)
    BY <2>2, <2>3 DEF CountedSoFar, InLoops
  <2> QED
    BY <1>1, <2>1, <2>3, <2>4 DEF AllocLabels
<1>5. CASE UnlockUnit(c)
  <2>1. pc[c] = "channel_loop" /\ pc'[c] = "unit_loop" /\ Goto(c, "unit_loop")
    BY <1>0, <1>5 DEF UnlockUnit, Goto, TypeOK
  <2>2. frame'.total = frame.total + frame.channels
        /\ frame'.remaining = frame.remaining - frame.channels
    BY <1>0, <1>5 DEF UnlockUnit, AfterUnit, Frames
  <2>3. CountedSoFar(c)' = CountedSoFar(c)
    BY <1>0, <2>1, <2>2, FrameNumbers DEF CountedSoFar, InLoops
  <2>4. frame'.total + frame'.remaining = frame.total + frame.remaining
    BY <1>0, <2>2, FrameNumbers
  <2> QED
    BY <1>1, <2>1, <2>3, <2>4 DEF AllocLabels
<1> QED
  BY <1>2, <1>3, <1>4, <1>5

(* So they keep the invariant. *)
LEMMA CountedBetween ==
  ASSUME Ctl, ChannelsCounted, NEW c \in Callers,
         \/ NextUnit(c) \/ LockUnit(c) \/ SkipSharedChannel(c) \/ SkipExclusiveChannel(c)
         \/ EnterSharedChannel(c) \/ AllocLun(c) \/ UnlockUnit(c)
  PROVE  ChannelsCounted'
BY BetweenStep, CountedMove

(* The ranges of a shared channel go to the virtual OCSSD together: one    *)
(* channel more, if anything was allocated.                                *)
LEMMA CountedLeaveSharedChannel ==
  ASSUME Ctl, UnderConstruction, ChannelsCounted, NEW c \in Callers, LeaveSharedChannel(c)
  PROVE  ChannelsCounted'
<1>0. TypeOK /\ frame \in Frames
  BY DEF Ctl, TypeOK
<1>1. /\ pc[c] = "lun_loop" /\ InAlloc(c) /\ Goto(c, "channel_loop")
      /\ pc'[c] = "channel_loop"
      /\ UNCHANGED <<vchannels, vssd_id, request>>
  BY <1>0 DEF LeaveSharedChannel, InAlloc, AllocLabels, Goto, TypeOK
<1>2. /\ frame'.total = frame.total /\ frame'.remaining = frame.remaining
      /\ frame'.channels = IF frame.allocated > 0 THEN frame.channels + 1 ELSE frame.channels
  BY <1>0 DEF LeaveSharedChannel, Frames
<1>3. CASE frame.allocated > 0
  <2>1. vluns' = vluns \cup alloc_units
    BY <1>3 DEF LeaveSharedChannel
  <2>2. \A g \in alloc_units : g.vssd = vssd_id /\ <<g.dev, g.ch>> = <<Unit, frame.chan>>
    BY <1>1 DEF UnderConstruction
  <2>3. CountedSoFar(c)' = CountedSoFar(c) + 1
    BY <1>0, <1>1, <1>2, <1>3, FrameNumbers DEF CountedSoFar, InLoops
  <2>4. \A g \in (vluns \cup vchannels)' \ (vluns \cup vchannels) :
           g.vssd = vssd_id /\ <<g.dev, g.ch>> = <<Unit, frame.chan>>
    BY <1>1, <2>1, <2>2
  <2>5. CountedSoFar(c) \in Nat
    BY <1>0, FrameNumbers
  <2>6. vluns \cup vchannels \subseteq (vluns \cup vchannels)'
    BY <1>1, <2>1
  <2> QED
    BY <1>1, <1>2, <2>3, <2>4, <2>5, <2>6, CountedGrant DEF AllocLabels
<1>4. CASE ~(frame.allocated > 0)
  <2>1. vluns' = vluns
    BY <1>4 DEF LeaveSharedChannel
  <2>2. CountedSoFar(c)' = CountedSoFar(c)
    BY <1>1, <1>2, <1>4 DEF CountedSoFar, InLoops
  <2> QED
    BY <1>1, <1>2, <2>1, <2>2, CountedMove DEF AllocLabels
<1> QED
  BY <1>3, <1>4

(* An exclusive channel is granted and counted in one step. *)
LEMMA CountedTakeExclusiveChannel ==
  ASSUME Ctl, ChannelsCounted, NEW c \in Callers, TakeExclusiveChannel(c)
  PROVE  ChannelsCounted'
<1> DEFINE v == [vssd |-> vssd_id, dev |-> Unit, ch |-> frame.chan]
<1>0. TypeOK /\ frame \in Frames
  BY DEF Ctl, TypeOK
<1>1. /\ pc[c] = "channel_loop" /\ pc' = pc
      /\ UNCHANGED <<vluns, vssd_id, request>> /\ vchannels' = vchannels \cup {v}
  BY DEF TakeExclusiveChannel
<1>2. InAlloc(c) /\ Goto(c, "channel_loop")
  BY <1>0, <1>1, GotoSelf DEF InAlloc, AllocLabels
<1>3. /\ frame'.total = frame.total /\ frame'.remaining = frame.remaining
      /\ frame'.channels = frame.channels + 1
  BY <1>0 DEF TakeExclusiveChannel, Frames
<1>4. CountedSoFar(c)' = CountedSoFar(c) + 1 /\ CountedSoFar(c) \in Nat
  BY <1>0, <1>1, <1>3, FrameNumbers DEF CountedSoFar, InLoops
<1>5. v.vssd = vssd_id /\ <<v.dev, v.ch>> = <<Unit, frame.chan>>
  OBVIOUS
<1> HIDE DEF v
<1>6. \A g \in (vluns \cup vchannels)' \ (vluns \cup vchannels) :
         g.vssd = vssd_id /\ <<g.dev, g.ch>> = <<Unit, frame.chan>>
  BY <1>1, <1>5
<1>7. vluns \cup vchannels \subseteq (vluns \cup vchannels)'
  BY <1>1
<1> QED
  BY <1>1, <1>2, <1>3, <1>4, <1>6, <1>7, CountedGrant DEF AllocLabels

(* The next id is nobody's yet. *)
LEMMA CountedFinish ==
  ASSUME Ctl, ChannelsCounted, NEW c \in Callers, Finish(c)
  PROVE  ChannelsCounted'
<1>1. InAlloc(c) /\ UNCHANGED <<vluns, vchannels>> /\ vssd_id' = vssd_id + 1 /\ vssd_id \in Nat
  BY DEF Finish, virtVars, InAlloc, AllocLabels, Ctl, TypeOK
<1>2. PICK label \in {"idle", "publish"} : Goto(c, label)
  BY DEF Finish
<1>3. pc'[c] = label /\ \A e \in Callers \ {c} : pc'[e] = pc[e] /\ pc[e] \notin AllocLabels
  BY <1>1, <1>2, Others DEF Labels
<1>4. \A e \in Callers : ~InAlloc(e)'
  BY <1>3 DEF InAlloc, AllocLabels
<1>5. \A g \in vluns \cup vchannels : g.vssd \in Nat /\ g.vssd <= vssd_id
  BY DEF ChannelsCounted, Ctl, TypeOK, Extents
<1>6. \A g \in (vluns \cup vchannels)' : g.vssd <= vssd_id' /\ g.vssd # vssd_id'
  BY <1>1, <1>5
<1>7. GrantedChannels(vssd_id)' = {}
  BY <1>6 DEF GrantedChannels
<1> QED
  BY <1>4, <1>6, <1>7, FS_EmptySet DEF ChannelsCounted

(* A step outside the allocation, as seen by the running call. *)
LEMMA OutsideStep ==
  ASSUME Ctl,
         \/ Startup
         \/ \E c \in Callers : (\E r \in Requests : CallManager(c, r)) \/ Publish(c)
         \/ UNCHANGED vars
  PROVE  /\ UNCHANGED <<used, num_used_blocks, vluns, vchannels, vssd_id, frame>>
         /\ \A e \in Callers : InAlloc(e)' <=> InAlloc(e)
         /\ \A e \in Callers : InAlloc(e) =>
              pc'[e] = pc[e] /\ request'[e] = request[e] /\ ocssds' = ocssds
<1>0. pc \in [Callers -> Labels] /\ request \in [Callers -> Requests \cup {NoRequest}]
  BY DEF Ctl, TypeOK
<1>1. CASE Startup
  <2>1. UNCHANGED <<used, num_used_blocks, vluns, vchannels, vssd_id, frame, pc, request>>
    BY <1>1 DEF Startup, ProbeDevice, StartServing, physVars, virtVars
  <2>2. ~serving
    BY <1>1, PathsAssumption DEF Startup, ProbeDevice, StartServing, Ctl, StartupFirst, TypeOK
  <2>3. \A e \in Callers : ~InAlloc(e)
    BY <2>2 DEF Ctl, StartupFirst, InAlloc, AllocLabels
  <2> QED
    BY <2>1, <2>3 DEF InAlloc
<1>2. ASSUME NEW c \in Callers, (\E r \in Requests : CallManager(c, r)) \/ Publish(c)
      PROVE  /\ UNCHANGED <<used, num_used_blocks, vluns, vchannels, vssd_id, frame>>
             /\ \A e \in Callers : InAlloc(e)' <=> InAlloc(e)
             /\ \A e \in Callers : InAlloc(e) =>
                  pc'[e] = pc[e] /\ request'[e] = request[e] /\ ocssds' = ocssds
  <2>1. UNCHANGED <<used, num_used_blocks, vluns, vchannels, vssd_id, frame, ocssds>>
    BY <1>2 DEF CallManager, Publish, GetStats, InsertEntity, physVars, virtVars, startupVars
  <2>2. PICK label \in {"lock_manager", "insert", "publish", "idle"} : Goto(c, label)
    BY <1>2 DEF CallManager, Publish, GetStats, InsertEntity
  <2>3. ~InAlloc(c) /\ \A e \in Callers \ {c} : request'[e] = request[e]
    BY <1>0, <1>2 DEF CallManager, Publish, GetStats, InsertEntity, InAlloc, AllocLabels
  <2>4. pc'[c] = label /\ \A e \in Callers \ {c} : pc'[e] = pc[e]
    BY <1>0, <2>2 DEF Goto
  <2>5. label \notin AllocLabels
    BY DEF AllocLabels
  <2> QED
    BY <2>1, <2>3, <2>4, <2>5 DEF InAlloc
<1>3. CASE UNCHANGED vars
  BY <1>3 DEF vars, physVars, virtVars, startupVars, InAlloc
<1> QED
  BY <1>1, <1>2, <1>3

(* Every step keeps the count. *)
LEMMA CountedStep ==
  ASSUME Ctl, UnderConstruction, ChannelsCounted, [Next]_vars PROVE ChannelsCounted'
<1>1. CASE \/ Startup
           \/ \E c \in Callers : (\E r \in Requests : CallManager(c, r)) \/ Publish(c)
           \/ UNCHANGED vars
  BY <1>1, OutsideStep, CountedOutside
<1>2. ASSUME NEW c \in Callers, Alloc(c) PROVE ChannelsCounted'
  BY <1>2, CountedLockManager, CountedBetween, CountedLeaveSharedChannel,
     CountedTakeExclusiveChannel, CountedFinish
  DEF Alloc
<1> QED
  BY <1>1, <1>2 DEF Next

(* The count holds in every reachable state. *)
LEMMA CountedInvariant == Spec => []ChannelsCounted
<1>1. IInv /\ ChannelsCounted /\ [Next]_vars => ChannelsCounted'
  BY CountedStep DEF IInv, Ctl
<1> QED
  BY <1>1, CountedInit, InductiveInvariant, PTL DEF Spec

(* alloc_ocssd_resource never grants more channels than NUM_CHANNELS asks  *)
(* for, over however many units it spreads them and whatever other callers *)
(* do meanwhile.                                                           *)
THEOREM ChannelsBounded == Spec => []ChannelsWithinRequest
<1>1. IInv /\ ChannelsCounted => ChannelsWithinRequest
  <2> SUFFICES ASSUME IInv, ChannelsCounted, NEW c \in Callers, InAlloc(c)
               PROVE  Cardinality(GrantedChannels(vssd_id)) <= request[c].channels
    BY DEF ChannelsWithinRequest
  <2>1. /\ Cardinality(GrantedChannels(vssd_id)) <= CountedSoFar(c)
        /\ Cardinality(GrantedChannels(vssd_id)) \in Nat
        /\ frame.total + frame.remaining = request[c].channels
    BY FS_CardinalityType DEF ChannelsCounted, CallCounted
  <2>2. InLoops(c) => frame.channels <= frame.remaining
    BY DEF IInv, FrameInBounds, FrameOK, InLoops
  <2>3. CountedSoFar(c) <= frame.total + frame.remaining
    BY <2>2, FrameNumbers DEF CountedSoFar, IInv
  <2> QED
    BY <2>1, <2>3, FrameNumbers DEF IInv
<1> QED
  BY <1>1, CountedInvariant, InductiveInvariant, PTL

-----------------------------------------------------------------------------
(* One range per LUN                                                       *)

(* The units stand for different devices. *)
UnitsApart ==
  /\ \A i \in DOMAIN ocssds : \E k \in DOMAIN Paths : k < probe /\ ocssds[i] = Paths[k]
  /\ \A i, j \in DOMAIN ocssds : ocssds[i] = ocssds[j] => i = j

(* What the running call has granted lies behind it. *)
Behind(c, g) ==
  \/ \E i \in DOMAIN ocssds : i < frame.unit /\ g.dev = ocssds[i]
  \/ InLoops(c) /\ g.dev = Unit /\ g.ch < frame.chan

CallAscends(c) == \A g \in vluns : g.vssd = vssd_id => Behind(c, g)

(* A virtual OCSSD has at most one virtual_ocssd_lun for each LUN, so that *)
(* where its blocks begin and end is one pair of numbers.                  *)
OneRangePerLun == \A g, h \in vluns : g.vssd = h.vssd /\ SameLun(g, h) => g = h

RangesApart ==
  /\ UnitsApart
  /\ OneRangePerLun
  /\ \A g, h \in alloc_units : g.lun = h.lun => g = h
  /\ \A c \in Callers : InAlloc(c) => CallAscends(c)

(* Nothing is granted at first. *)
LEMMA RangesInit == Init => RangesApart
BY DEF Init, RangesApart, UnitsApart, OneRangePerLun, InAlloc, AllocLabels

(* Probing adds a path that was not probed before. *)
LEMMA UnitsApartStep ==
  ASSUME TypeOK, UnitsApart, [Next]_vars
  PROVE  UnitsApart'
<1>1. CASE UNCHANGED <<ocssds, probe>>
  BY <1>1 DEF UnitsApart
<1>2. ASSUME NEW exists \in BOOLEAN, ProbeDevice(exists) PROVE UnitsApart'
  <2>1. PICK n \in Nat, p \in Nat : /\ n = Len(ocssds) /\ p = probe
                                    /\ DOMAIN ocssds = 1 .. n
    BY LenProperties DEF TypeOK
  <2>2. probe' = p + 1 /\ p \in DOMAIN Paths
    BY <1>2, <2>1, PathsAssumption, LenProperties DEF ProbeDevice, TypeOK
  <2>3. \A k \in DOMAIN Paths : k < p => k < p + 1
    BY <2>1, PathsAssumption, LenProperties
  <2>4. CASE ocssds' = ocssds
    BY <2>1, <2>2, <2>3, <2>4 DEF UnitsApart
  <2>5. CASE ocssds' = Append(ocssds, Paths[p])
    <3>1. /\ DOMAIN ocssds' = 1 .. n + 1 /\ ocssds'[n + 1] = Paths[p]
          /\ \A i \in 1 .. n : ocssds'[i] = ocssds[i]
      <4>1. ocssds \in Seq(Devices) /\ Paths[p] \in Devices
        BY <2>2, PathsAssumption DEF TypeOK
      <4> QED
        BY <2>1, <2>5, <4>1, AppendProperties, LenProperties
    <3>2. \A i \in 1 .. n : \E k \in DOMAIN Paths : k < p /\ ocssds[i] = Paths[k]
      BY <2>1 DEF UnitsApart
    <3>3. \A i \in 1 .. n : ocssds[i] # Paths[p]
      BY <2>2, <3>2, PathsAssumption
    <3>4. \A i \in 1 .. n + 1 : i \in 1 .. n \/ i = n + 1
      BY <2>1
    <3>5. p < p + 1
      BY <2>1
    <3>6. \A i \in DOMAIN ocssds' : \E k \in DOMAIN Paths : k < probe' /\ ocssds'[i] = Paths[k]
      BY <2>2, <2>3, <3>1, <3>2, <3>4, <3>5
    <3>7. \A i, j \in DOMAIN ocssds' : ocssds'[i] = ocssds'[j] => i = j
      <4>1. \A i, j \in 1 .. n : ocssds[i] = ocssds[j] => i = j
        BY <2>1, SMTT(30) DEF UnitsApart
      <4> QED
        BY <3>1, <3>3, <3>4, <4>1
    <3> QED
      BY <3>6, <3>7 DEF UnitsApart
  <2> QED
    BY <1>2, <2>1, <2>4, <2>5 DEF ProbeDevice
<1>3. UNCHANGED <<ocssds, probe>> \/ \E exists \in BOOLEAN : ProbeDevice(exists)
  BY ZenonT(30) DEF Next, Startup, StartServing, CallManager, Alloc, Publish, LockManager, NextUnit, LockUnit,
     SkipSharedChannel, EnterSharedChannel, AllocLun, LeaveSharedChannel, SkipExclusiveChannel,
     TakeExclusiveChannel, UnlockUnit, Finish, GetStats, InsertEntity, startupVars, vars
<1> QED
  BY <1>1, <1>2, <1>3

(* Nobody but the running call has to be looked at. *)
LEMMA AscendsAlone ==
  ASSUME Ctl, NEW c \in Callers, InAlloc(c), NEW label \in Labels, Goto(c, label), CallAscends(c)'
  PROVE  \A e \in Callers : InAlloc(e)' => CallAscends(e)'
<1>1. \A e \in Callers \ {c} : ~InAlloc(e)'
  BY Others DEF InAlloc
<1> QED
  BY <1>1

(* The loops go up: what was behind the call stays behind it. *)
LEMMA AscendsBetween ==
  ASSUME Ctl, RangesApart, NEW c \in Callers,
         \/ NextUnit(c) \/ LockUnit(c) \/ SkipSharedChannel(c) \/ SkipExclusiveChannel(c)
         \/ EnterSharedChannel(c) \/ AllocLun(c) \/ UnlockUnit(c) \/ TakeExclusiveChannel(c)
  PROVE  /\ vluns' = vluns /\ ocssds' = ocssds
         /\ \A e \in Callers : InAlloc(e)' => CallAscends(e)'
<1>0. TypeOK /\ frame \in Frames /\ ocssds \in Seq(Devices)
  BY DEF Ctl, TypeOK
<1>1. UNCHANGED <<ocssds, vluns, vssd_id>> /\ InAlloc(c)
  BY DEF NextUnit, LockUnit, SkipSharedChannel, SkipExclusiveChannel, EnterSharedChannel,
     AllocLun, UnlockUnit, TakeExclusiveChannel, startupVars, virtVars, InAlloc, AllocLabels
<1>2. PICK u \in Nat, ch \in Nat : u = frame.unit /\ ch = frame.chan
  BY <1>0 DEF Frames
<1>3. \A g \in vluns : g.ch \in Nat
  BY <1>0 DEF TypeOK, Extents
<1>4. \A g \in vluns : g.vssd = vssd_id => Behind(c, g)
  BY <1>1 DEF RangesApart, CallAscends
<1>5. DOMAIN ocssds \subseteq Nat
  BY <1>0, LenProperties
<1>6. CASE NextUnit(c)
  <2>1. PICK label \in {"finish", "lock_unit"} : Goto(c, label)
    BY <1>6 DEF NextUnit
  <2>2. pc[c] = "unit_loop" /\ pc'[c] = label /\ frame' = frame
    BY <1>0, <1>6, <2>1 DEF NextUnit, Goto, TypeOK
  <2>3. CallAscends(c)'
    BY <1>1, <1>4, <2>2 DEF CallAscends, Behind, InLoops
  <2> QED
    BY <1>1, <2>1, <2>3, AscendsAlone DEF Labels, AllocLabels
<1>7. CASE LockUnit(c)
  <2>1. pc[c] = "lock_unit" /\ Goto(c, "channel_loop") /\ frame'.unit = frame.unit
    BY <1>0, <1>7 DEF LockUnit, Frames
  <2>2. CallAscends(c)'
    BY <1>1, <1>4, <2>1 DEF CallAscends, Behind, InLoops
  <2> QED
    BY <1>1, <2>1, <2>2, AscendsAlone DEF Labels, AllocLabels
<1>8. CASE \/ SkipSharedChannel(c) \/ SkipExclusiveChannel(c) \/ EnterSharedChannel(c)
           \/ AllocLun(c) \/ TakeExclusiveChannel(c)
  <2>1. PICK label \in {"channel_loop", "lun_loop"} : Goto(c, label)
    <3>1. CASE EnterSharedChannel(c)
      BY <3>1, SMTT(30) DEF EnterSharedChannel
    <3>2. CASE ~EnterSharedChannel(c)
      BY <1>0, <1>8, <3>2, GotoSelf
      DEF SkipSharedChannel, SkipExclusiveChannel, AllocLun, TakeExclusiveChannel
    <3> QED
      BY <3>1, <3>2
  <2>2. pc'[c] = label
    BY <1>0, <2>1, SMTT(30) DEF Goto, TypeOK
  <2>3. frame'.unit = u /\ (frame'.chan = ch \/ frame'.chan = ch + 1)
    BY <1>0, <1>2, <1>8
    DEF SkipSharedChannel, SkipExclusiveChannel, EnterSharedChannel, AllocLun,
        TakeExclusiveChannel, Frames
  <2>4. Unit' = Unit
    BY <1>1, <1>2, <2>3 DEF Unit
  <2>5. ASSUME NEW g \in vluns, g.vssd = vssd_id PROVE Behind(c, g)'
    <3>1. Behind(c, g) /\ g.ch \in Nat
      BY <1>3, <1>4, <2>5
    <3>2. g.ch < ch => g.ch < frame'.chan
      BY <1>2, <2>3, <3>1
    <3> QED
      BY <1>1, <1>2, <2>2, <2>3, <2>4, <3>1, <3>2 DEF Behind, InLoops
  <2>6. CallAscends(c)'
    BY <1>1, <2>5 DEF CallAscends
  <2> QED
    BY <1>1, <2>1, <2>6, AscendsAlone DEF Labels, AllocLabels
<1>9. CASE UnlockUnit(c)
  <2>1. pc[c] = "channel_loop" /\ Goto(c, "unit_loop") /\ frame'.unit = u + 1
    BY <1>0, <1>2, <1>9 DEF UnlockUnit, AfterUnit, Frames
  <2>2. u \in DOMAIN ocssds /\ Unit = ocssds[u]
    <3>1. u \in 1 .. Len(ocssds)
      BY <1>2, <2>1 DEF Ctl, FrameInBounds, FrameOK
    <3> QED
      BY <1>0, <1>2, <3>1, LenProperties DEF Unit
  <2>3. ASSUME NEW g \in vluns, g.vssd = vssd_id PROVE Behind(c, g)'
    <3>1. Behind(c, g)
      BY <1>4, <2>3
    <3>2. \E i \in DOMAIN ocssds : i < u + 1 /\ g.dev = ocssds[i]
      BY <1>2, <1>5, <2>2, <3>1 DEF Behind
    <3> QED
      BY <1>1, <2>1, <3>2 DEF Behind
  <2>4. CallAscends(c)'
    BY <1>1, <2>3 DEF CallAscends
  <2> QED
    BY <1>1, <2>1, <2>4, AscendsAlone DEF Labels, AllocLabels
<1> QED
  BY <1>1, <1>6, <1>7, <1>8, <1>9

(* A LUN that is visited adds the range of a LUN that was not. *)
LEMMA RangesBetween ==
  ASSUME Ctl, UnderConstruction, RangesApart, UnitsApart', NEW c \in Callers,
         \/ NextUnit(c) \/ LockUnit(c) \/ SkipSharedChannel(c) \/ SkipExclusiveChannel(c)
         \/ EnterSharedChannel(c) \/ AllocLun(c) \/ UnlockUnit(c) \/ TakeExclusiveChannel(c)
  PROVE  RangesApart'
<1>1. vluns' = vluns /\ \A e \in Callers : InAlloc(e)' => CallAscends(e)'
  BY AscendsBetween
<1>2. OneRangePerLun'
  BY <1>1 DEF RangesApart, OneRangePerLun
<1>3. \A g, h \in alloc_units' : g.lun = h.lun => g = h
  <2>1. CASE AllocLun(c)
    <3>1. PICK l \in Nat : l = frame.lun
      BY DEF Ctl, TypeOK, Frames
    <3>2. \A g \in alloc_units : g.lun < l /\ g.lun \in Nat
      BY <2>1, <3>1, SMTT(30) DEF UnderConstruction, AllocLun, Ctl, TypeOK, Extents
    <3>3. PICK x : x.lun = l /\ (alloc_units' = alloc_units \/ alloc_units' = alloc_units \cup {x})
      BY <2>1, <3>1 DEF AllocLun, LunExtent, LunExtentFrom
    <3>4. \A g, h \in alloc_units : g.lun = h.lun => g = h
      BY DEF RangesApart
    <3>5. \A g \in alloc_units : g.lun # x.lun
      BY <3>2, <3>3
    <3> QED
      BY <3>3, <3>4, <3>5
  <2>2. CASE ~AllocLun(c)
    <3>1. alloc_units' = alloc_units \/ alloc_units' = {}
      BY <2>2 DEF NextUnit, LockUnit, SkipSharedChannel, SkipExclusiveChannel,
         EnterSharedChannel, UnlockUnit, TakeExclusiveChannel
    <3> QED
      BY <3>1 DEF RangesApart
  <2> QED
    BY <2>1, <2>2
<1> QED
  BY <1>1, <1>2, <1>3 DEF RangesApart

(* The ranges of a channel join those of the channels and units before it. *)
LEMMA RangesLeaveSharedChannel ==
  ASSUME Ctl, UnderConstruction, RangesApart, UnitsApart', NEW c \in Callers, LeaveSharedChannel(c)
  PROVE  RangesApart'
<1>0. TypeOK /\ frame \in Frames
  BY DEF Ctl, TypeOK
<1>1. /\ pc[c] = "lun_loop" /\ InAlloc(c) /\ InLoops(c) /\ Goto(c, "channel_loop")
      /\ UNCHANGED <<vssd_id, ocssds>> /\ alloc_units' = {}
      /\ vluns' = vluns \/ vluns' = vluns \cup alloc_units
  BY DEF LeaveSharedChannel, InAlloc, InLoops, AllocLabels, startupVars
<1>2. PICK u \in Nat, ch \in Nat : u = frame.unit /\ ch = frame.chan
  BY <1>0 DEF Frames
<1>3. pc'[c] = "channel_loop" /\ frame'.unit = u /\ frame'.chan = ch + 1
  BY <1>0, <1>1, <1>2 DEF LeaveSharedChannel, Goto, TypeOK, Frames
<1>4. u \in DOMAIN ocssds /\ Unit = ocssds[u] /\ Unit' = Unit
  <2>1. u \in 1 .. Len(ocssds)
    BY <1>1, <1>2 DEF Ctl, FrameInBounds, FrameOK
  <2> QED
    BY <1>0, <1>1, <1>2, <1>3, <2>1, LenProperties DEF Unit, TypeOK
<1>5. \A g \in alloc_units : g.vssd = vssd_id /\ g.dev = Unit /\ g.ch = ch
  BY <1>1, <1>2 DEF UnderConstruction
<1>6. \A g \in vluns : g.ch \in Nat /\ (g.vssd = vssd_id => Behind(c, g))
  BY <1>0, <1>1 DEF TypeOK, Extents, RangesApart, CallAscends
<1>7. ASSUME NEW g \in vluns, NEW h \in alloc_units, g.vssd = h.vssd, SameLun(g, h)
      PROVE  FALSE
  <2>1. g.vssd = vssd_id /\ g.dev = Unit /\ g.ch = ch
    BY <1>5, <1>7 DEF SameLun
  <2>2. CASE \E i \in DOMAIN ocssds : i < frame.unit /\ g.dev = ocssds[i]
    <3>1. PICK i \in DOMAIN ocssds : i < u /\ ocssds[u] = ocssds[i]
      BY <1>2, <1>4, <2>1, <2>2
    <3>2. i = u
      BY <1>4, <3>1 DEF RangesApart, UnitsApart
    <3> QED
      BY <1>2, <3>1, <3>2
  <2>3. CASE g.ch < frame.chan
    BY <1>2, <2>1, <2>3
  <2> QED
    BY <1>6, <2>1, <2>2, <2>3 DEF Behind
<1>8. OneRangePerLun'
  <2> SUFFICES ASSUME NEW g \in vluns', NEW h \in vluns', g.vssd = h.vssd, SameLun(g, h)
               PROVE  g = h
    BY DEF OneRangePerLun, SameLun
  <2>1. CASE g \in vluns /\ h \in vluns
    BY <2>1 DEF RangesApart, OneRangePerLun
  <2>2. CASE g \in alloc_units /\ h \in alloc_units
    BY <2>2 DEF RangesApart, SameLun
  <2>3. CASE g \in vluns /\ h \in alloc_units
    BY <1>7, <2>3
  <2>4. CASE g \in alloc_units /\ h \in vluns
    BY <1>7, <2>4 DEF SameLun
  <2> QED
    BY <1>1, <2>1, <2>2, <2>3, <2>4
<1>9. ASSUME NEW g \in vluns', g.vssd = vssd_id PROVE Behind(c, g)'
  <2>1. CASE g \in alloc_units
    <3>1. g.dev = Unit /\ g.ch < ch + 1
      BY <1>2, <1>5, <2>1
    <3> QED
      BY <1>3, <1>4, <3>1 DEF Behind, InLoops
  <2>2. CASE g \in vluns
    <3>1. g.ch \in Nat /\ Behind(c, g)
      BY <1>6, <1>9, <2>2
    <3>2. g.ch < ch => g.ch < ch + 1
      BY <1>2, <3>1
    <3> QED
      BY <1>1, <1>2, <1>3, <1>4, <3>1, <3>2 DEF Behind, InLoops
  <2> QED
    BY <1>1, <2>1, <2>2
<1>10. CallAscends(c)'
  BY <1>1, <1>9 DEF CallAscends
<1>11. \A e \in Callers : InAlloc(e)' => CallAscends(e)'
  BY <1>1, <1>10, AscendsAlone DEF Labels, AllocLabels
<1> QED
  BY <1>1, <1>8, <1>11 DEF RangesApart

(* A call begins with nothing granted, and ends with the id given out. *)
LEMMA RangesEnds ==
  ASSUME Ctl, ChannelsCounted, RangesApart, UnitsApart', NEW c \in Callers,
         LockManager(c) \/ Finish(c)
  PROVE  RangesApart'
<1>1. UNCHANGED <<vluns, alloc_units>>
  BY DEF LockManager, Finish, virtVars
<1>2. CASE LockManager(c)
  <2>1. \A e \in Callers : ~InAlloc(e)
    BY <1>2, CallerAssumption DEF LockManager, Ctl, MutexDiscipline
  <2>2. GrantedChannels(vssd_id) = {} /\ vssd_id' = vssd_id
    BY <1>2, <2>1 DEF ChannelsCounted, LockManager
  <2>3. \A g \in vluns : g.vssd # vssd_id
    BY <2>2 DEF GrantedChannels
  <2> QED
    BY <1>1, <2>2, <2>3 DEF RangesApart, OneRangePerLun, CallAscends
<1>3. CASE Finish(c)
  <2>1. InAlloc(c) /\ vssd_id' = vssd_id + 1 /\ vssd_id \in Nat
    BY <1>3 DEF Finish, InAlloc, AllocLabels, Ctl, TypeOK
  <2>2. \A g \in vluns : g.vssd \in Nat /\ g.vssd <= vssd_id
    BY DEF ChannelsCounted, Ctl, TypeOK, Extents
  <2>3. \A g \in vluns' : g.vssd # vssd_id'
    BY <1>1, <2>1, <2>2
  <2> QED
    BY <1>1, <2>3 DEF RangesApart, OneRangePerLun, CallAscends
<1> QED
  BY <1>2, <1>3

(* Every step keeps the ranges apart. *)
LEMMA RangesStep ==
  ASSUME Ctl, UnderConstruction, ChannelsCounted, RangesApart, [Next]_vars
  PROVE  RangesApart'
<1>1. UnitsApart'
  BY UnitsApartStep DEF Ctl, RangesApart
<1>2. CASE \/ Startup
           \/ \E c \in Callers : (\E r \in Requests : CallManager(c, r)) \/ Publish(c)
           \/ UNCHANGED vars
  <2>1. /\ UNCHANGED <<vluns, vssd_id, frame>>
        /\ \A e \in Callers : InAlloc(e)' <=> InAlloc(e)
        /\ \A e \in Callers : InAlloc(e) => pc'[e] = pc[e] /\ ocssds' = ocssds
    BY <1>2, OutsideStep
  <2>2. alloc_units' = alloc_units
    BY <1>2 DEF Startup, ProbeDevice, StartServing, CallManager, Publish, GetStats, InsertEntity, vars
  <2>3. \A e \in Callers : InAlloc(e)' => CallAscends(e)'
    BY <2>1 DEF RangesApart, CallAscends, Behind, InLoops, Unit
  <2> QED
    BY <1>1, <2>1, <2>2, <2>3 DEF RangesApart, OneRangePerLun
<1>3. ASSUME NEW c \in Callers, Alloc(c) PROVE RangesApart'
  BY <1>1, <1>3, RangesBetween, RangesLeaveSharedChannel, RangesEnds DEF Alloc
<1> QED
  BY <1>2, <1>3 DEF Next

(* The ranges are apart in every reachable state. *)
LEMMA RangesInvariant == Spec => []RangesApart
<1>1. IInv /\ ChannelsCounted /\ RangesApart /\ [Next]_vars => RangesApart'
  BY RangesStep DEF IInv, Ctl
<1> QED
  BY <1>1, RangesInit, CountedInvariant, InductiveInvariant, PTL DEF Spec

(* A virtual OCSSD has at most one range of blocks on each LUN, over all   *)
(* the units alloc_ocssd_resource visits: what a virtual_ocssd_lun says is *)
(* all that the virtual OCSSD has there.                                   *)
THEOREM RangesUnique == Spec => []OneRangePerLun
<1>1. RangesApart => OneRangePerLun
  BY DEF RangesApart
<1> QED
  BY <1>1, RangesInvariant, PTL

-----------------------------------------------------------------------------
(* Blocks granted and blocks asked for                                     *)

AtMost(S, n) == IsFiniteSet(S) /\ Cardinality(S) <= n

(* Two sets together have at most the sum of what each has at most. *)
LEMMA AtMostBoth ==
  ASSUME NEW S, NEW T, NEW m \in Nat, NEW n \in Nat, AtMost(S, m), AtMost(T, n)
  PROVE  AtMost(S \cup T, m + n)
<1>1. PICK s \in Nat, t \in Nat, i \in Nat :
        s = Cardinality(S) /\ t = Cardinality(T) /\ i = Cardinality(S \cap T)
  <2>1. IsFiniteSet(S) /\ IsFiniteSet(T) /\ S \cap T \in SUBSET S
    BY DEF AtMost
  <2>2. IsFiniteSet(S \cap T)
    BY <2>1, FS_Subset
  <2> QED
    BY <2>1, <2>2, FS_CardinalityType
<1>2. s <= m /\ t <= n
  BY <1>1 DEF AtMost
<1>3. IsFiniteSet(S \cup T) /\ Cardinality(S \cup T) = s + t - i
  BY <1>1, FS_Union DEF AtMost
<1>4. s + t - i <= m + n
  BY <1>2
<1> QED
  BY <1>3, <1>4 DEF AtMost

(* A larger bound is a bound. *)
LEMMA AtMostMore ==
  ASSUME NEW S, NEW m \in Nat, NEW n \in Nat, AtMost(S, m), m <= n
  PROVE  AtMost(S, n)
<1>1. Cardinality(S) \in Nat
  BY FS_CardinalityType DEF AtMost
<1> QED
  BY <1>1 DEF AtMost

(* The blocks of no range are none. *)
LEMMA NoBlocks == \A n \in Nat : AtMost(BlocksOf({}), n)
<1>1. BlocksOf({}) = {}
  BY DEF BlocksOf
<1>2. IsFiniteSet({}) /\ Cardinality({}) = 0
  BY FS_EmptySet
<1> QED
  BY <1>1, <1>2 DEF AtMost

(* The ranges of two sets hold the blocks of both. *)
LEMMA BlocksOfBoth ==
  ASSUME NEW S, NEW T
  PROVE  BlocksOf(S \cup T) = BlocksOf(S) \cup BlocksOf(T)
BY DEF BlocksOf

(* A range of num blocks holds at most num blocks. *)
LEMMA BlocksOfExtent ==
  ASSUME NEW g \in Extents
  PROVE  AtMost(BlocksOf({g}), g.num)
<1>1. PICK a \in Nat, n \in Nat : a = g.start /\ n = g.num
  BY DEF Extents
<1> DEFINE I == a .. a + n - 1
           f == [b \in I |-> <<g.dev, g.ch, g.lun, b>>]
<1>2. a \in Int /\ a + n - 1 \in Int
  BY <1>1
<1>3. IsFiniteSet(I) /\ Cardinality(I) = IF a > a + n - 1 THEN 0 ELSE (a + n - 1) - a + 1
  BY <1>2, FS_Interval
<1>4. Cardinality(I) = n
  BY <1>1, <1>3
<1>5. f \in Surjection(I, BlocksOf({g}))
  BY <1>1, SMTT(30) DEF BlocksOf, ExtentBlocks, Surjection
<1> HIDE DEF I, f
<1>6. IsFiniteSet(BlocksOf({g})) /\ Cardinality(BlocksOf({g})) <= Cardinality(I)
  BY <1>3, <1>5, FS_Surjection
<1> QED
  BY <1>1, <1>4, <1>6 DEF AtMost

OneUnit == Len(ocssds) <= 1

(* Between the units, and in the loops over the channels and the LUNs, of  *)
(* the one unit there is: a channel receives no more than its share of the *)
(* request, which alloc_blocks splits into what is allocated and what is   *)
(* still to be allocated.                                                  *)
BetweenUnits(c) ==
  /\ AtMost(BlocksOf(GrantedRanges(vssd_id)), request[c].blocks)
  /\ frame.unit = 1 => GrantedRanges(vssd_id) = {}

WithinShare(c) ==
  /\ AtMost(BlocksOf(GrantedRanges(vssd_id)), frame.channels * frame.blocks_per_channel)
  /\ frame.remaining * frame.blocks_per_channel <= request[c].blocks

ShareSplit ==
  /\ AtMost(BlocksOf(alloc_units), frame.allocated)
  /\ frame.allocated + frame.request_blocks = frame.blocks_per_channel

WithinBudget(c) ==
  /\ InAlloc(c) /\ ~InLoops(c) => BetweenUnits(c)
  /\ InLoops(c) => WithinShare(c)
  /\ pc[c] = "lun_loop" => ShareSplit

Budget == \A c \in Callers : WithinBudget(c)

(* The shares of fewer channels are fewer blocks. *)
LEMMA FewerShares ==
  ASSUME NEW k \in Nat, NEW m \in Nat, NEW s \in Nat, NEW n \in Nat, k <= m, m * s <= n
  PROVE  k * s \in Nat /\ k * s <= n
<1>1. PICK d \in Nat : m = k + d
  <2>1. m - k \in Nat /\ m = k + (m - k)
    OBVIOUS
  <2> QED
    BY <2>1
<1>2. m * s = k * s + d * s /\ k * s \in Nat /\ d * s \in Nat
  BY <1>1
<1> QED
  BY <1>1, <1>2

(* A step of the running call needs to be looked at for that call only. *)
LEMMA BudgetAlone ==
  ASSUME Ctl, NEW c \in Callers, InAlloc(c), NEW label \in Labels, Goto(c, label),
         WithinBudget(c)'
  PROVE  Budget'
<1>1. pc'[c] = label /\ \A e \in Callers \ {c} : pc'[e] = pc[e] /\ pc[e] \notin AllocLabels
  BY Others
<1>2. \A e \in Callers \ {c} : WithinBudget(e)'
  BY <1>1 DEF WithinBudget, InAlloc, InLoops, AllocLabels
<1> QED
  BY <1>2 DEF Budget

(* The numbers of the frame that the budget is about. *)
LEMMA BudgetNumbers ==
  ASSUME TypeOK
  PROVE  /\ frame \in Frames /\ frame.unit \in Nat
         /\ frame.channels \in Nat /\ frame.remaining \in Nat /\ frame.allocated \in Nat
         /\ frame.blocks_per_channel \in Nat /\ frame.request_blocks \in Nat
BY DEF TypeOK, Frames

(* A step that leaves the ranges granted alone. *)
LEMMA SameRanges ==
  ASSUME UNCHANGED <<vluns, vssd_id>>
  PROVE  GrantedRanges(vssd_id)' = GrantedRanges(vssd_id)
BY DEF GrantedRanges

(* Nothing is granted at first. *)
LEMMA BudgetInit == Init => Budget
BY DEF Init, Budget, WithinBudget, InAlloc, InLoops, AllocLabels

(* Steps outside the allocation leave the running call, if any, alone. *)
LEMMA BudgetOutside ==
  ASSUME Ctl, Budget,
         \/ Startup
         \/ \E c \in Callers : (\E r \in Requests : CallManager(c, r)) \/ Publish(c)
         \/ UNCHANGED vars
  PROVE  Budget'
<1>1. /\ UNCHANGED <<vluns, vssd_id, frame>>
      /\ \A e \in Callers : InAlloc(e)' <=> InAlloc(e)
      /\ \A e \in Callers : InAlloc(e) => pc'[e] = pc[e] /\ request'[e] = request[e]
  BY OutsideStep
<1>2. alloc_units' = alloc_units
  BY DEF Startup, ProbeDevice, StartServing, CallManager, Publish, GetStats, InsertEntity, vars
<1>3. GrantedRanges(vssd_id)' = GrantedRanges(vssd_id)
  BY <1>1, SameRanges
<1> SUFFICES ASSUME NEW e \in Callers PROVE WithinBudget(e)'
  BY DEF Budget
<1>4. CASE InAlloc(e)
  BY <1>1, <1>2, <1>3, <1>4
  DEF Budget, WithinBudget, InAlloc, InLoops, BetweenUnits, WithinShare, ShareSplit
<1>5. CASE ~InAlloc(e)
  BY <1>1, <1>5 DEF WithinBudget, InAlloc, InLoops, AllocLabels
<1> QED
  BY <1>4, <1>5

(* A call begins with nothing granted. *)
LEMMA BudgetLockManager ==
  ASSUME Ctl, ChannelsCounted, NEW c \in Callers, LockManager(c)
  PROVE  Budget'
<1>1. \A e \in Callers : ~InAlloc(e)
  BY CallerAssumption DEF LockManager, Ctl, MutexDiscipline
<1>2. GrantedRanges(vssd_id) = {}
  <2>1. GrantedChannels(vssd_id) = {}
    BY <1>1 DEF ChannelsCounted
  <2> SUFFICES ASSUME NEW g \in vluns, g.vssd = vssd_id PROVE FALSE
    BY DEF GrantedRanges
  <2>2. <<g.dev, g.ch>> \in GrantedChannels(vssd_id)
    BY DEF GrantedChannels
  <2> QED
    BY <2>1, <2>2
<1>3. UNCHANGED <<vluns, vssd_id, request>> /\ Goto(c, "unit_loop") /\ "unit_loop" \in Labels
  BY DEF LockManager, virtVars, Labels, AllocLabels
<1>4. pc'[c] = "unit_loop" /\ \A e \in Callers \ {c} : pc'[e] = pc[e]
  BY <1>3, Others
<1>5. GrantedRanges(vssd_id)' = {}
  BY <1>2, <1>3, SameRanges
<1>6. AtMost(BlocksOf({}), request[c].blocks)
  BY NoBlocks, RequestFields DEF Ctl
<1>7. WithinBudget(c)'
  BY <1>3, <1>4, <1>5, <1>6 DEF WithinBudget, BetweenUnits, InLoops
<1>8. \A e \in Callers \ {c} : WithinBudget(e)'
  BY <1>1, <1>4 DEF WithinBudget, InAlloc, InLoops, AllocLabels
<1> QED
  BY <1>7, <1>8 DEF Budget

(* The loop over the units goes on or ends. *)
LEMMA BudgetNextUnit ==
  ASSUME Ctl, Budget, NEW c \in Callers, NextUnit(c)
  PROVE  Budget'
<1>1. PICK label \in {"finish", "lock_unit"} : Goto(c, label)
  BY DEF NextUnit
<1>2. label \in Labels /\ pc[c] = "unit_loop" /\ InAlloc(c) /\ ~InLoops(c)
  BY DEF NextUnit, Labels, AllocLabels, InAlloc, InLoops
<1>3. pc'[c] = label
  BY <1>1, <1>2, Others
<1>4. UNCHANGED <<vluns, vssd_id, request, frame>>
  BY DEF NextUnit, virtVars
<1>5. BetweenUnits(c)
  BY <1>2 DEF Budget, WithinBudget
<1>6. GrantedRanges(vssd_id)' = GrantedRanges(vssd_id)
  BY <1>4, SameRanges
<1>7. BetweenUnits(c)'
  BY <1>4, <1>5, <1>6 DEF BetweenUnits
<1>8. WithinBudget(c)'
  BY <1>3, <1>7 DEF WithinBudget, InLoops
<1> QED
  BY <1>1, <1>2, <1>8, BudgetAlone

(* The one unit is entered with nothing granted, and the shares of the     *)
(* channels it may grant are within the request.                           *)
LEMMA BudgetLockUnit ==
  ASSUME OneUnit, Ctl, Budget, NEW c \in Callers, LockUnit(c)
  PROVE  Budget'
<1>1. /\ pc[c] = "lock_unit" /\ InAlloc(c) /\ ~InLoops(c) /\ Goto(c, "channel_loop")
      /\ "channel_loop" \in Labels /\ UNCHANGED <<vluns, vssd_id, request>>
  BY DEF LockUnit, Labels, AllocLabels, InAlloc, InLoops, virtVars
<1>2. pc'[c] = "channel_loop"
  BY <1>1, Others
<1>3. frame \in Frames /\ frame.unit \in Nat /\ frame.remaining \in Nat
  BY BudgetNumbers DEF Ctl
<1>4. frame.unit = 1 /\ frame.remaining # 0
  <2>1. frame.unit \in 1 .. Len(ocssds) /\ frame.remaining > 0 /\ Len(ocssds) \in Nat
    BY <1>1, LenProperties DEF Ctl, FrameInBounds, FrameOK, TypeOK
  <2> QED
    BY <1>3, <2>1 DEF OneUnit
<1>5. GrantedRanges(vssd_id)' = {}
  BY <1>1, <1>4, SameRanges DEF Budget, WithinBudget, BetweenUnits
<1>6. PICK r \in Nat \ {0}, n \in Nat : r = frame.remaining /\ n = request[c].blocks
  BY <1>3, <1>4, RequestFields DEF Ctl
<1>7. /\ frame'.channels = 0 /\ frame'.remaining = r
      /\ frame'.blocks_per_channel = IF Shared(c) THEN n \div r ELSE 0
  BY <1>3, <1>6 DEF LockUnit, Frames
<1>8. n \div r \in Nat /\ r * (n \div r) <= n
  BY <1>6, ShareFits
<1>9. PICK s \in Nat : s = frame'.blocks_per_channel /\ r * s <= n
  <2>1. CASE Shared(c)
    BY <1>7, <1>8, <2>1
  <2>2. CASE ~Shared(c)
    <3>1. r * 0 <= n
      BY <1>6
    <3> QED
      BY <1>7, <2>2, <3>1
  <2> QED
    BY <2>1, <2>2
<1>10. 0 * s = 0
  BY <1>9
<1>11. AtMost(BlocksOf({}), 0 * s)
  BY <1>10, NoBlocks
<1>12. WithinShare(c)'
  BY <1>1, <1>5, <1>6, <1>7, <1>9, <1>11 DEF WithinShare
<1>13. WithinBudget(c)'
  BY <1>2, <1>12 DEF WithinBudget, InLoops
<1> QED
  BY <1>1, <1>13, BudgetAlone

(* A channel that is passed over, or taken whole, gives away no range. *)
LEMMA BudgetSkip ==
  ASSUME Ctl, Budget, NEW c \in Callers,
         SkipSharedChannel(c) \/ SkipExclusiveChannel(c) \/ TakeExclusiveChannel(c)
  PROVE  Budget'
<1>1. /\ pc[c] = "channel_loop" /\ InAlloc(c) /\ InLoops(c)
      /\ "channel_loop" \in Labels /\ UNCHANGED <<vluns, vssd_id, request, pc>>
  BY DEF SkipSharedChannel, SkipExclusiveChannel, TakeExclusiveChannel,
     Labels, AllocLabels, InAlloc, InLoops, virtVars
<1>2. Goto(c, "channel_loop")
  BY <1>1, GotoSelf DEF Ctl
<1>3. /\ frame \in Frames
      /\ frame.channels \in Nat /\ frame.remaining \in Nat /\ frame.blocks_per_channel \in Nat
  BY BudgetNumbers DEF Ctl
<1>4. /\ frame'.remaining = frame.remaining
      /\ frame'.blocks_per_channel = frame.blocks_per_channel
      /\ frame'.channels = frame.channels \/ frame'.channels = frame.channels + 1
  BY <1>3 DEF SkipSharedChannel, SkipExclusiveChannel, TakeExclusiveChannel, Frames
<1>5. PICK k \in Nat, s \in Nat, l \in Nat :
        k = frame.channels /\ s = frame.blocks_per_channel /\ l = frame'.channels
        /\ (l = k \/ l = k + 1)
  BY <1>3, <1>4
<1>6. k * s \in Nat /\ l * s \in Nat /\ k * s <= l * s
  BY <1>5, OneMore
<1>7. WithinShare(c)
  BY <1>1 DEF Budget, WithinBudget
<1>8. AtMost(BlocksOf(GrantedRanges(vssd_id)), l * s)
  BY <1>5, <1>6, <1>7, AtMostMore DEF WithinShare
<1>9. WithinShare(c)'
  BY <1>1, <1>4, <1>5, <1>7, <1>8, SameRanges DEF WithinShare
<1>10. WithinBudget(c)'
  BY <1>1, <1>9 DEF WithinBudget, InLoops
<1> QED
  BY <1>1, <1>2, <1>10, BudgetAlone

(* A channel is entered with its whole share still to be allocated. *)
LEMMA BudgetEnterSharedChannel ==
  ASSUME Ctl, Budget, NEW c \in Callers, EnterSharedChannel(c)
  PROVE  Budget'
<1>1. /\ pc[c] = "channel_loop" /\ InAlloc(c) /\ InLoops(c) /\ Goto(c, "lun_loop")
      /\ "lun_loop" \in Labels /\ UNCHANGED <<vluns, vssd_id, request>> /\ alloc_units' = {}
  BY DEF EnterSharedChannel, Labels, AllocLabels, InAlloc, InLoops, virtVars
<1>2. pc'[c] = "lun_loop"
  BY <1>1, Others
<1>3. frame \in Frames /\ frame.blocks_per_channel \in Nat
  BY BudgetNumbers DEF Ctl
<1>4. /\ frame'.remaining = frame.remaining /\ frame'.channels = frame.channels
      /\ frame'.blocks_per_channel = frame.blocks_per_channel
      /\ frame'.allocated = 0 /\ frame'.request_blocks = frame.blocks_per_channel
  BY <1>3 DEF EnterSharedChannel, Frames
<1>5. WithinShare(c)
  BY <1>1 DEF Budget, WithinBudget
<1>6. WithinShare(c)'
  BY <1>1, <1>4, <1>5, SameRanges DEF WithinShare
<1>7. ShareSplit'
  <2>1. AtMost(BlocksOf({}), 0)
    BY NoBlocks
  <2>2. 0 + frame.blocks_per_channel = frame.blocks_per_channel
    BY <1>3
  <2> QED
    BY <1>1, <1>4, <2>1, <2>2 DEF ShareSplit
<1>8. WithinBudget(c)'
  BY <1>2, <1>6, <1>7 DEF WithinBudget, InLoops
<1> QED
  BY <1>1, <1>8, BudgetAlone

(* A LUN is visited: what it grants is allocated and no longer to be       *)
(* allocated.                                                              *)
LEMMA BudgetAllocLun ==
  ASSUME Ctl, Budget, NEW c \in Callers, AllocLun(c)
  PROVE  Budget'
<1> DEFINE u == num_used[Unit][frame.chan][frame.lun]
           ret == LunGrant(u, nblocks[Unit], RequestPerLun)
<1>1. /\ pc[c] = "lun_loop" /\ InAlloc(c) /\ InLoops(c) /\ "lun_loop" \in Labels
      /\ UNCHANGED <<vluns, vssd_id, request, pc>>
  BY DEF AllocLun, Labels, AllocLabels, InAlloc, InLoops, virtVars
<1>2. Goto(c, "lun_loop")
  BY <1>1, GotoSelf DEF Ctl
<1>3. /\ frame \in Frames /\ frame.allocated \in Nat /\ frame.request_blocks \in Nat
      /\ frame.blocks_per_channel \in Nat /\ frame.chan \in Nat /\ frame.lun \in Nat
  BY BudgetNumbers DEF Ctl, Frames
<1>4. ret \in Nat /\ u \in Nat /\ Unit \in Devices
  BY LunStep
<1>5. /\ frame'.remaining = frame.remaining /\ frame'.channels = frame.channels
      /\ frame'.blocks_per_channel = frame.blocks_per_channel
      /\ frame'.allocated = frame.allocated + ret
      /\ frame'.request_blocks = frame.request_blocks - ret
  BY <1>3, SMTT(30) DEF AllocLun, Frames
<1>6. alloc_units' = alloc_units \/ alloc_units' = alloc_units \cup {LunExtent(u, ret)}
  BY DEF AllocLun
<1> HIDE DEF u, ret
<1>7. LunExtent(u, ret) \in Extents /\ LunExtent(u, ret).num = ret
  BY <1>3, <1>4 DEF LunExtent, LunExtentFrom, Extents, Ctl, TypeOK
<1>8. WithinShare(c) /\ ShareSplit
  BY <1>1 DEF Budget, WithinBudget
<1>9. WithinShare(c)'
  BY <1>1, <1>5, <1>8, SameRanges DEF WithinShare
<1>10. PICK a \in Nat, q \in Nat, r \in Nat, s \in Nat :
         /\ a = frame.allocated /\ q = frame.request_blocks /\ r = ret
         /\ s = frame.blocks_per_channel
  BY <1>3, <1>4
<1>11. AtMost(BlocksOf(alloc_units'), a + r)
  <2>1. AtMost(BlocksOf(alloc_units), a)
    BY <1>8, <1>10 DEF ShareSplit
  <2>2. CASE alloc_units' = alloc_units
    <3>1. a <= a + r /\ a + r \in Nat
      BY <1>10
    <3> QED
      BY <2>1, <2>2, <3>1, AtMostMore
  <2>3. CASE alloc_units' = alloc_units \cup {LunExtent(u, ret)}
    <3>1. AtMost(BlocksOf({LunExtent(u, ret)}), r)
      BY <1>7, <1>10, BlocksOfExtent
    <3>2. AtMost(BlocksOf(alloc_units) \cup BlocksOf({LunExtent(u, ret)}), a + r)
      BY <1>10, <2>1, <3>1, AtMostBoth
    <3> QED
      BY <2>3, <3>2, BlocksOfBoth
  <2> QED
    BY <1>6, <2>2, <2>3
<1>12. (a + r) + (q - r) = s
  <2>1. a + q = s
    BY <1>8, <1>10 DEF ShareSplit
  <2> QED
    BY <1>10, <2>1
<1>13. ShareSplit'
  BY <1>5, <1>10, <1>11, <1>12 DEF ShareSplit
<1>14. WithinBudget(c)'
  BY <1>1, <1>9, <1>13 DEF WithinBudget, InLoops
<1> QED
  BY <1>1, <1>2, <1>14, BudgetAlone

(* A channel is left: if it granted anything it is counted, and what it    *)
(* granted is within its share.                                            *)
LEMMA BudgetLeaveSharedChannel ==
  ASSUME Ctl, UnderConstruction, Budget, NEW c \in Callers, LeaveSharedChannel(c)
  PROVE  Budget'
<1>1. /\ pc[c] = "lun_loop" /\ InAlloc(c) /\ InLoops(c) /\ Goto(c, "channel_loop")
      /\ "channel_loop" \in Labels /\ UNCHANGED <<vssd_id, request>>
  BY DEF LeaveSharedChannel, Labels, AllocLabels, InAlloc, InLoops
<1>2. pc'[c] = "channel_loop"
  BY <1>1, Others
<1>3. /\ frame \in Frames /\ frame.allocated \in Nat /\ frame.request_blocks \in Nat
      /\ frame.blocks_per_channel \in Nat /\ frame.channels \in Nat
  BY BudgetNumbers DEF Ctl
<1>4. PICK a \in Nat, q \in Nat, k \in Nat, s \in Nat :
         /\ a = frame.allocated /\ q = frame.request_blocks /\ k = frame.channels
         /\ s = frame.blocks_per_channel
  BY <1>3
<1>5. /\ frame'.remaining = frame.remaining /\ frame'.blocks_per_channel = s
      /\ frame'.channels = IF a > 0 THEN k + 1 ELSE k
  BY <1>3, <1>4 DEF LeaveSharedChannel, Frames
<1>6. WithinShare(c) /\ ShareSplit
  BY <1>1 DEF Budget, WithinBudget
<1>7. AtMost(BlocksOf(GrantedRanges(vssd_id)), k * s) /\ AtMost(BlocksOf(alloc_units), a) /\ a + q = s
  BY <1>4, <1>6 DEF WithinShare, ShareSplit
<1>8. AtMost(BlocksOf(GrantedRanges(vssd_id)'), frame'.channels * s)
  <2>1. CASE a > 0
    <3>1. GrantedRanges(vssd_id)' = GrantedRanges(vssd_id) \cup alloc_units
      <4>1. vluns' = vluns \cup alloc_units
        BY <1>4, <2>1 DEF LeaveSharedChannel
      <4>2. \A g \in alloc_units : g.vssd = vssd_id
        BY <1>1 DEF UnderConstruction
      <4> QED
        BY <1>1, <4>1, <4>2 DEF GrantedRanges
    <3>2. k * s \in Nat /\ k * s + a \in Nat /\ (k + 1) * s \in Nat /\ k * s + a <= (k + 1) * s
      <4>1. a <= s
        BY <1>4, <1>7
      <4>2. (k + 1) * s = k * s + s /\ k * s \in Nat
        BY <1>4, OneMore
      <4> QED
        BY <1>4, <4>1, <4>2
    <3>3. AtMost(BlocksOf(GrantedRanges(vssd_id)) \cup BlocksOf(alloc_units), k * s + a)
      BY <1>4, <1>7, <3>2, AtMostBoth
    <3>4. AtMost(BlocksOf(GrantedRanges(vssd_id)) \cup BlocksOf(alloc_units), (k + 1) * s)
      BY <3>2, <3>3, AtMostMore
    <3> QED
      BY <1>5, <2>1, <3>1, <3>4, BlocksOfBoth
  <2>2. CASE ~(a > 0)
    <3>1. vluns' = vluns
      BY <1>4, <2>2 DEF LeaveSharedChannel
    <3> QED
      BY <1>1, <1>5, <1>7, <2>2, <3>1, SameRanges
  <2> QED
    BY <2>1, <2>2
<1>9. WithinShare(c)'
  BY <1>1, <1>4, <1>5, <1>6, <1>8 DEF WithinShare
<1>10. WithinBudget(c)'
  BY <1>2, <1>9 DEF WithinBudget, InLoops
<1> QED
  BY <1>1, <1>10, BudgetAlone

(* The unit is left with no more channels granted than were missing, so    *)
(* with no more blocks than were asked for.                                *)
LEMMA BudgetUnlockUnit ==
  ASSUME Ctl, Budget, NEW c \in Callers, UnlockUnit(c)
  PROVE  Budget'
<1>1. /\ pc[c] = "channel_loop" /\ InAlloc(c) /\ InLoops(c) /\ Goto(c, "unit_loop")
      /\ "unit_loop" \in Labels /\ UNCHANGED <<vluns, vssd_id, request>>
  BY DEF UnlockUnit, Labels, AllocLabels, InAlloc, InLoops, virtVars
<1>2. pc'[c] = "unit_loop"
  BY <1>1, Others
<1>3. frame \in Frames /\ frame.unit \in Nat \ {0} /\ frame'.unit = frame.unit + 1
  BY BudgetNumbers DEF Ctl, TypeOK, Frames, UnlockUnit, AfterUnit
<1>4. PICK k \in Nat, m \in Nat, s \in Nat, n \in Nat :
        /\ k = frame.channels /\ m = frame.remaining /\ s = frame.blocks_per_channel
        /\ n = request[c].blocks
  BY BudgetNumbers, RequestFields DEF Ctl
<1>5. WithinShare(c)
  BY <1>1 DEF Budget, WithinBudget
<1>6. AtMost(BlocksOf(GrantedRanges(vssd_id)), k * s) /\ m * s <= n
  BY <1>4, <1>5 DEF WithinShare
<1>7. k <= m
  BY <1>1, <1>4, InUnit
<1>8. k * s \in Nat /\ k * s <= n
  BY <1>4, <1>6, <1>7, FewerShares
<1>9. AtMost(BlocksOf(GrantedRanges(vssd_id)), n)
  BY <1>4, <1>6, <1>8, AtMostMore
<1>10. frame'.unit # 1
  BY <1>3
<1>11. BetweenUnits(c)'
  BY <1>1, <1>4, <1>9, <1>10, SameRanges DEF BetweenUnits
<1>12. WithinBudget(c)'
  BY <1>2, <1>11 DEF WithinBudget, InLoops
<1> QED
  BY <1>1, <1>12, BudgetAlone

(* The call ends, and promises no more. *)
LEMMA BudgetFinish ==
  ASSUME Ctl, NEW c \in Callers, Finish(c)
  PROVE  Budget'
<1>1. PICK label \in {"idle", "publish"} : Goto(c, label)
  BY DEF Finish
<1>2. label \in Labels /\ InAlloc(c)
  BY DEF Finish, Labels, AllocLabels, InAlloc
<1>3. pc'[c] = label
  BY <1>1, <1>2, Others
<1>4. WithinBudget(c)'
  BY <1>3 DEF WithinBudget, InAlloc, InLoops, AllocLabels
<1> QED
  BY <1>1, <1>2, <1>4, BudgetAlone

(* Every step of a manager with one unit keeps the budget. *)
LEMMA BudgetStep ==
  ASSUME OneUnit, Ctl, UnderConstruction, ChannelsCounted, Budget, [Next]_vars
  PROVE  Budget'
<1>1. CASE \/ Startup
           \/ \E c \in Callers : (\E r \in Requests : CallManager(c, r)) \/ Publish(c)
           \/ UNCHANGED vars
  BY <1>1, BudgetOutside
<1>2. ASSUME NEW c \in Callers, Alloc(c) PROVE Budget'
  BY <1>2, BudgetLockManager, BudgetNextUnit, BudgetLockUnit, BudgetSkip,
     BudgetEnterSharedChannel, BudgetAllocLun, BudgetLeaveSharedChannel, BudgetUnlockUnit,
     BudgetFinish
  DEF Alloc
<1> QED
  BY <1>1, <1>2 DEF Next

(* With one unit, the blocks alloc_ocssd_resource grants to a request      *)
(* never exceed its NUM_BLOCKS: the divisions by the channels and by the   *)
(* LUNs round down, and no channel is given more than its share, however   *)
(* many of them were passed over.  (With two units it does not hold, for   *)
(* each divides the whole of NUM_BLOCKS anew.)                             *)
THEOREM BlocksBounded == Spec /\ []OneUnit => []BlocksWithinRequest
<1>1. OneUnit /\ IInv /\ ChannelsCounted /\ Budget /\ [Next]_vars => Budget'
  BY BudgetStep DEF IInv, Ctl
<1>2. IInv /\ Budget => BlocksWithinRequest
  <2> SUFFICES ASSUME IInv, Budget, NEW c \in Callers, InAlloc(c)
               PROVE  Cardinality(BlocksOf(GrantedRanges(vssd_id))) <= request[c].blocks
    BY DEF BlocksWithinRequest
  <2>0. Ctl
    BY DEF IInv, Ctl
  <2>1. CASE ~InLoops(c)
    BY <2>1 DEF Budget, WithinBudget, BetweenUnits, AtMost
  <2>2. CASE InLoops(c)
    <3>1. PICK k \in Nat, m \in Nat, s \in Nat, n \in Nat :
            /\ k = frame.channels /\ m = frame.remaining /\ s = frame.blocks_per_channel
            /\ n = request[c].blocks
      BY <2>0, BudgetNumbers, RequestFields DEF Ctl
    <3>2. AtMost(BlocksOf(GrantedRanges(vssd_id)), k * s) /\ m * s <= n
      BY <2>2, <3>1 DEF Budget, WithinBudget, WithinShare
    <3>3. k <= m
      BY <2>0, <2>2, <3>1, InUnit DEF InLoops
    <3>4. k * s \in Nat /\ k * s <= n
      BY <3>1, <3>2, <3>3, FewerShares
    <3>5. AtMost(BlocksOf(GrantedRanges(vssd_id)), n)
      BY <3>1, <3>2, <3>4, AtMostMore
    <3> QED
      BY <3>1, <3>5 DEF AtMost
  <2> QED
    BY <2>1, <2>2
<1> QED
  BY <1>1, <1>2, BudgetInit, CountedInvariant, InductiveInvariant, PTL DEF Spec

(* A server that probes a single path has at most one unit, so its         *)
(* requests never receive more blocks than they ask for.                   *)
THEOREM OnePathBounded ==
  ASSUME Len(Paths) = 1
  PROVE  Spec => []BlocksWithinRequest
<1>1. TypeOK /\ RangesApart => OneUnit
  <2> SUFFICES ASSUME TypeOK, UnitsApart PROVE OneUnit
    BY DEF RangesApart
  <2>1. PICK n \in Nat : n = Len(ocssds) /\ DOMAIN ocssds = 1 .. n
    BY LenProperties DEF TypeOK
  <2>2. DOMAIN Paths = 1 .. 1
    BY PathsAssumption, LenProperties
  <2>3. \A i \in 1 .. n : ocssds[i] = Paths[1]
    BY <2>1, <2>2 DEF UnitsApart
  <2>4. n <= 1
    <3> SUFFICES ASSUME n > 1 PROVE FALSE
      BY <2>1
    <3>1. 1 \in 1 .. n /\ 2 \in 1 .. n
      BY <2>1
    <3>2. ocssds[1] = ocssds[2]
      BY <2>3, <3>1
    <3>3. 1 = 2
      BY <2>1, <3>1, <3>2 DEF UnitsApart
    <3> QED
      BY <3>3
  <2> QED
    BY <2>1, <2>4 DEF OneUnit
<1> QED
  BY <1>1, RangesInvariant, TypeCorrect, BlocksBounded, PTL

-----------------------------------------------------------------------------
(* Requests turned away or cut short                                       *)

Full(d, ch) == num_used_blocks[d][ch] = TotalBlocks(d)

(* Device d has nothing for the request of c: what RefusalJustified says. *)
NothingLeft(c, d) ==
  IF Shared(c)
  THEN \/ request[c].blocks \div request[c].channels < nluns[d]
       \/ \A ch \in SharedChannels(d) : Full(d, ch)
  ELSE \A ch \in ExclusiveChannels(d) : used[d][ch]

(* The request still wants what it was not given. *)
Unserved(c) ==
  IF Shared(c) THEN frame.total = 0 /\ request[c].channels # 0 ELSE frame.remaining # 0

UnitsPassed(c) ==
  Unserved(c) => \A i \in 1 .. Len(ocssds) : i < frame.unit => NothingLeft(c, ocssds[i])

(* The same of the channels of the unit the call is at. *)
ChannelsPassed(c) ==
  IF Shared(c)
  THEN frame.total = 0 /\ frame.channels = 0 =>
         \/ frame.blocks_per_channel < nluns[Unit]
         \/ \A ch \in SharedChannels(Unit) : ch < frame.chan => Full(Unit, ch)
  ELSE \A ch \in ExclusiveChannels(Unit) : ch < frame.chan => used[Unit][ch]

(* The whole of NUM_BLOCKS is divided by the channels still missing. *)
ShareSet(c) ==
  Shared(c) => frame.blocks_per_channel = request[c].blocks \div frame.remaining

LoopsPassed(c) ==
  /\ InAlloc(c) => UnitsPassed(c)
  /\ InLoops(c) => ChannelsPassed(c) /\ ShareSet(c)
  /\ pc[c] = "finish" => frame.unit > Len(ocssds) \/ frame.remaining = 0

Refusals == \A c \in Callers : LoopsPassed(c)

(* Nothing is ever given back: a step leaves used what is used, and full   *)
(* what is full.                                                           *)
OnlyLess ==
  \A d \in Devices : \A ch \in Channels(d) :
    /\ used[d][ch] => used'[d][ch]
    /\ num_used_blocks[d][ch] = TotalBlocks(d) => num_used_blocks'[d][ch] = TotalBlocks(d)

(* A share of nothing per LUN is less than a block for each. *)
LEMMA ZeroShare ==
  ASSUME NEW n \in Nat, NEW k \in Nat \ {0}, n \div k = 0
  PROVE  n < k
OBVIOUS

(* What is exhausted stays exhausted. *)
LEMMA NothingLeftKept ==
  ASSUME OnlyLess, NEW c \in Callers, request'[c] = request[c],
         NEW d \in Devices, NothingLeft(c, d)
  PROVE  NothingLeft(c, d)'
BY Geometry DEF OnlyLess, NothingLeft, Shared, Full, TotalBlocks

(* The units passed stay passed while the frame is at the same unit. *)
LEMMA UnitsPassedKept ==
  ASSUME TypeOK, OnlyLess, NEW c \in Callers, request'[c] = request[c], ocssds' = ocssds,
         UnitsPassed(c), frame'.unit = frame.unit,
         frame'.total = frame.total, frame'.remaining = frame.remaining
  PROVE  UnitsPassed(c)'
<1> SUFFICES ASSUME Unserved(c)', NEW i \in 1 .. Len(ocssds), i < frame.unit
             PROVE  NothingLeft(c, ocssds[i])'
  BY DEF UnitsPassed
<1>1. Unserved(c)
  BY DEF Unserved, Shared
<1>2. ocssds[i] \in Devices
  BY DEF TypeOK
<1>3. NothingLeft(c, ocssds[i])
  BY <1>1 DEF UnitsPassed
<1> QED
  BY <1>2, <1>3, NothingLeftKept

(* Whoever is outside the allocation promises nothing. *)
LEMMA OutsidePassed ==
  ASSUME NEW e \in Callers, ~InAlloc(e)' PROVE LoopsPassed(e)'
BY DEF LoopsPassed, InLoops, InAlloc, AllocLabels

(* A step of the running call needs to be looked at for that call only. *)
LEMMA RunningCall ==
  ASSUME Ctl, NEW c \in Callers, InAlloc(c), NEW label \in Labels, Goto(c, label),
         LoopsPassed(c)'
  PROVE  Refusals'
<1>1. pc'[c] = label /\ \A e \in Callers \ {c} : pc'[e] = pc[e] /\ pc[e] \notin AllocLabels
  BY Others
<1>2. \A e \in Callers \ {c} : ~InAlloc(e)'
  BY <1>1 DEF InAlloc
<1> QED
  BY <1>2, OutsidePassed DEF Refusals

(* No unit is passed at first. *)
LEMMA RefusalsInit == Init => Refusals
BY DEF Init, Refusals, LoopsPassed, InAlloc, InLoops, AllocLabels

(* Steps outside the allocation. *)
LEMMA RefusalsOutside ==
  ASSUME Ctl, Refusals,
         \/ Startup
         \/ \E c \in Callers : (\E r \in Requests : CallManager(c, r)) \/ Publish(c)
         \/ UNCHANGED vars
  PROVE  Refusals'
<1> SUFFICES ASSUME NEW e \in Callers, InAlloc(e)' PROVE LoopsPassed(e)'
  BY OutsidePassed DEF Refusals
<1>1. /\ UNCHANGED <<used, num_used_blocks, frame>> /\ InAlloc(e)
      /\ pc'[e] = pc[e] /\ request'[e] = request[e] /\ ocssds' = ocssds
  BY OutsideStep
<1>2. TypeOK /\ OnlyLess /\ LoopsPassed(e)
  BY <1>1 DEF Ctl, OnlyLess, Refusals
<1>3. UnitsPassed(e)'
  BY <1>1, <1>2, UnitsPassedKept DEF LoopsPassed
<1>4. InLoops(e)' => ChannelsPassed(e)' /\ ShareSet(e)'
  BY <1>1, <1>2 DEF LoopsPassed, InLoops, ChannelsPassed, ShareSet, Shared, Unit, Full
<1> QED
  BY <1>1, <1>2, <1>3, <1>4 DEF LoopsPassed

(* A call begins before the first unit. *)
LEMMA RefusalsLockManager ==
  ASSUME Ctl, Refusals, NEW c \in Callers, LockManager(c)
  PROVE  Refusals'
<1>1. \A e \in Callers : ~InAlloc(e)
  BY CallerAssumption DEF LockManager, Ctl, MutexDiscipline
<1>2. pc'[c] = "unit_loop" /\ \A e \in Callers \ {c} : pc'[e] = pc[e]
  BY Others DEF LockManager, Labels, AllocLabels
<1>3. \A e \in Callers \ {c} : ~InAlloc(e)'
  BY <1>1, <1>2 DEF InAlloc
<1>4. frame'.unit = 1
  BY DEF LockManager, NoFrame
<1>5. LoopsPassed(c)'
  BY <1>2, <1>4 DEF LoopsPassed, UnitsPassed, InLoops
<1> QED
  BY <1>3, <1>5, OutsidePassed DEF Refusals

(* The loop over the units goes on or ends. *)
LEMMA RefusalsNextUnit ==
  ASSUME Ctl, Refusals, NEW c \in Callers, NextUnit(c)
  PROVE  Refusals'
<1>1. /\ pc[c] = "unit_loop" /\ InAlloc(c)
      /\ UNCHANGED <<ocssds, used, num_used_blocks, frame, request>>
  BY DEF NextUnit, startupVars, physVars, InAlloc, AllocLabels
<1>2. PICK label \in {"finish", "lock_unit"} :
        /\ Goto(c, label)
        /\ label = "finish" => frame.unit > Len(ocssds) \/ frame.remaining = 0
  BY DEF NextUnit
<1>3. pc'[c] = label /\ label \in Labels
  BY <1>2 DEF Ctl, TypeOK, Goto, Labels, AllocLabels
<1>4. UnitsPassed(c)'
  BY <1>1, UnitsPassedKept DEF Ctl, OnlyLess, Refusals, LoopsPassed
<1>5. LoopsPassed(c)'
  BY <1>1, <1>2, <1>3, <1>4 DEF LoopsPassed, InLoops
<1> QED
  BY <1>1, <1>2, <1>3, <1>5, RunningCall

(* No channel of the unit is passed when its loop begins. *)
LEMMA RefusalsLockUnit ==
  ASSUME Ctl, Refusals, NEW c \in Callers, LockUnit(c)
  PROVE  Refusals'
<1>1. /\ pc[c] = "lock_unit" /\ InAlloc(c) /\ Goto(c, "channel_loop")
      /\ UNCHANGED <<ocssds, used, num_used_blocks, request>>
  BY DEF LockUnit, startupVars, physVars, InAlloc, AllocLabels
<1>2. pc'[c] = "channel_loop"
  BY <1>1 DEF Ctl, TypeOK, Goto
<1>3. /\ frame'.unit = frame.unit /\ frame'.total = frame.total
      /\ frame'.remaining = frame.remaining
      /\ frame'.chan = IF Shared(c) THEN 0 ELSE SharedEnd(Unit)
      /\ Shared(c) => frame'.blocks_per_channel = request[c].blocks \div frame.remaining
  BY DEF LockUnit, Ctl, TypeOK, Frames
<1>4. UnitsPassed(c)'
  BY <1>1, <1>3, UnitsPassedKept DEF Ctl, OnlyLess, Refusals, LoopsPassed
<1>5. Unit' = Unit /\ Shared(c)' = Shared(c)
  BY <1>1, <1>3 DEF Unit, Shared
<1>6. Unit \in Devices
  BY <1>1, UnitIsDevice DEF Ctl, FrameInBounds, FrameOK
<1>7. /\ \A ch \in SharedChannels(Unit) : ~(ch < 0)
      /\ \A ch \in ExclusiveChannels(Unit) : ~(ch < SharedEnd(Unit))
  BY <1>6, Geometry DEF SharedChannels, ExclusiveChannels
<1>8. ChannelsPassed(c)' /\ ShareSet(c)'
  BY <1>1, <1>3, <1>5, <1>7 DEF ChannelsPassed, ShareSet, Shared
<1>9. LoopsPassed(c)'
  BY <1>2, <1>4, <1>8 DEF LoopsPassed
<1> QED
  BY <1>1, <1>9, RunningCall DEF Labels, AllocLabels

(* What a step inside the loops of a unit keeps. *)
LEMMA InLoopsKept ==
  ASSUME Ctl, Refusals, OnlyLess, NEW c \in Callers, InLoops(c),
         NEW label \in {"channel_loop", "lun_loop"}, Goto(c, label),
         UNCHANGED <<ocssds, request>>, frame'.unit = frame.unit,
         frame'.total = frame.total, frame'.remaining = frame.remaining,
         frame'.blocks_per_channel = frame.blocks_per_channel,
         ChannelsPassed(c)'
  PROVE  Refusals'
<1>1. InAlloc(c) /\ label \in Labels /\ pc'[c] = label
  BY DEF InLoops, InAlloc, AllocLabels, Labels, Ctl, TypeOK, Goto
<1>2. LoopsPassed(c)
  BY DEF Refusals
<1>3. UnitsPassed(c)'
  BY <1>1, <1>2, UnitsPassedKept DEF Ctl, LoopsPassed
<1>4. ShareSet(c)'
  BY <1>2 DEF LoopsPassed, ShareSet, Shared
<1>5. LoopsPassed(c)'
  BY <1>1, <1>3, <1>4 DEF LoopsPassed
<1> QED
  BY <1>1, <1>5, RunningCall

(* A channel is passed over because it is full or used, or because the     *)
(* share that falls to it is 0.                                            *)
LEMMA RefusalsSkip ==
  ASSUME Ctl, Refusals, NEW c \in Callers, SkipSharedChannel(c) \/ SkipExclusiveChannel(c)
  PROVE  Refusals'
<1>1. /\ pc[c] = "channel_loop" /\ pc' = pc /\ InLoops(c)
      /\ UNCHANGED <<ocssds, used, num_used_blocks, request>>
      /\ frame' = [frame EXCEPT !.chan = @ + 1]
  BY DEF SkipSharedChannel, SkipExclusiveChannel, startupVars, physVars, InLoops
<1>2. Goto(c, "channel_loop") /\ OnlyLess
  BY <1>1, GotoSelf DEF Ctl, OnlyLess
<1>3. /\ frame \in Frames /\ Unit \in Devices /\ nluns[Unit] \in Nat \ {0}
      /\ frame.chan \in Nat
  BY <1>1, InUnit DEF Frames
<1>4. /\ frame'.unit = frame.unit /\ frame'.total = frame.total
      /\ frame'.remaining = frame.remaining /\ frame'.channels = frame.channels
      /\ frame'.blocks_per_channel = frame.blocks_per_channel
      /\ frame'.chan = frame.chan + 1
  BY <1>1, <1>3 DEF Frames
<1>5. Unit' = Unit /\ Shared(c)' = Shared(c)
  BY <1>1, <1>4 DEF Unit, Shared
<1>6. ChannelsPassed(c)
  BY <1>1 DEF Refusals, LoopsPassed
<1>7. CASE SkipSharedChannel(c)
  <2>1. Shared(c) /\ (Full(Unit, frame.chan) \/ frame.blocks_per_channel = 0)
    BY <1>7 DEF SkipSharedChannel, Full
  <2>2. \A ch \in SharedChannels(Unit) : ch < frame.chan + 1 => ch < frame.chan \/ ch = frame.chan
    BY <1>3 DEF SharedChannels
  <2>3. ChannelsPassed(c)'
    BY <1>1, <1>3, <1>4, <1>5, <1>6, <2>1, <2>2 DEF ChannelsPassed, Full
  <2> QED
    BY <1>1, <1>2, <1>4, <2>3, InLoopsKept
<1>8. CASE SkipExclusiveChannel(c)
  <2>1. ~Shared(c) /\ used[Unit][frame.chan]
    BY <1>8 DEF SkipExclusiveChannel
  <2>2. \A ch \in ExclusiveChannels(Unit) : ch < frame.chan + 1 => ch < frame.chan \/ ch = frame.chan
    BY <1>3, Geometry DEF ExclusiveChannels
  <2>3. ChannelsPassed(c)'
    BY <1>1, <1>4, <1>5, <1>6, <2>1, <2>2 DEF ChannelsPassed
  <2> QED
    BY <1>1, <1>2, <1>4, <2>3, InLoopsKept
<1> QED
  BY <1>7, <1>8

(* Inside ocssd_channel::alloc_blocks the channel counters stand still. *)
LEMMA RefusalsInChannel ==
  ASSUME Ctl, Refusals, NEW c \in Callers, EnterSharedChannel(c) \/ AllocLun(c)
  PROVE  Refusals'
<1>1. /\ InLoops(c) /\ UNCHANGED <<ocssds, used, num_used_blocks, request>>
      /\ Goto(c, "lun_loop")
  <2>1. CASE EnterSharedChannel(c)
    BY <2>1 DEF EnterSharedChannel, startupVars, physVars, InLoops
  <2>2. CASE AllocLun(c)
    BY <2>2, GotoSelf DEF AllocLun, startupVars, InLoops, Ctl
  <2> QED
    BY <2>1, <2>2
<1>2. frame \in Frames
  BY DEF Ctl, TypeOK
<1>3. /\ frame'.unit = frame.unit /\ frame'.total = frame.total
      /\ frame'.remaining = frame.remaining /\ frame'.channels = frame.channels
      /\ frame'.blocks_per_channel = frame.blocks_per_channel
      /\ frame'.chan = frame.chan
  BY <1>2, ZenonT(30) DEF EnterSharedChannel, AllocLun, Frames
<1>4. OnlyLess
  BY <1>1 DEF OnlyLess
<1>5. ChannelsPassed(c)'
  BY <1>1, <1>3 DEF Refusals, LoopsPassed, ChannelsPassed, Shared, Unit, Full
<1> QED
  BY <1>1, <1>3, <1>4, <1>5, InLoopsKept

(* A shared channel that gave nothing was asked for less than a block per  *)
(* LUN: it was not full when its LUNs were visited.                        *)
LEMMA RefusalsLeaveSharedChannel ==
  ASSUME IInv, Counters, Refusals, NEW c \in Callers, LeaveSharedChannel(c)
  PROVE  Refusals'
<1>1. /\ pc[c] = "lun_loop" /\ InLoops(c) /\ Goto(c, "channel_loop")
      /\ UNCHANGED <<ocssds, used, request>>
      /\ frame.lun = nluns[Unit] \/ frame.request_blocks = 0
      /\ num_used_blocks' =
           [num_used_blocks EXCEPT ![Unit][frame.chan] = @ + frame.allocated]
  BY DEF LeaveSharedChannel, InLoops, startupVars
<1>2. /\ Ctl /\ Unit \in Devices /\ frame \in Frames /\ frame.chan \in Channels(Unit)
      /\ nluns[Unit] \in Nat \ {0} /\ nblocks[Unit] \in Nat \ {0}
      /\ RequestPerLun \in Nat /\ frame.lun \in 0 .. nluns[Unit]
      /\ (nluns[Unit] - frame.lun) * RequestPerLun <= frame.request_blocks
  BY <1>1, InLoop
<1>3. PICK base \in Nat : base < nblocks[Unit] /\ LoopFrom(base)
  BY <1>1, InLoop
<1> DEFINE ret == LunGrant(base, nblocks[Unit], RequestPerLun)
<1>4. ~Full(Unit, frame.chan)
  <2>1. num_used_blocks[Unit][frame.chan] = nluns[Unit] * base
    BY <1>3 DEF LoopFrom
  <2>2. nluns[Unit] * base # nluns[Unit] * nblocks[Unit]
    BY <1>2, <1>3, Cancel
  <2>3. nluns[Unit] * nblocks[Unit] = nblocks[Unit] * nluns[Unit]
    BY <1>2
  <2> QED
    BY <2>1, <2>2, <2>3 DEF Full, TotalBlocks
<1>5. OnlyLess
  <2> SUFFICES ASSUME NEW d \in Devices, NEW ch \in Channels(d),
                      num_used_blocks[d][ch] = TotalBlocks(d)
               PROVE  num_used_blocks'[d][ch] = TotalBlocks(d)
    BY <1>1 DEF OnlyLess
  <2>1. ~(d = Unit /\ ch = frame.chan)
    BY <1>4 DEF Full
  <2>2. num_used_blocks[d] \in [Channels(d) -> Nat] /\ DOMAIN num_used_blocks = Devices
    BY <1>2 DEF Ctl, TypeOK
  <2> QED
    BY <1>1, <2>1, <2>2
<1>6. /\ frame'.unit = frame.unit /\ frame'.total = frame.total
      /\ frame'.remaining = frame.remaining
      /\ frame'.blocks_per_channel = frame.blocks_per_channel
      /\ frame'.chan = frame.chan + 1
      /\ frame'.channels = IF frame.allocated > 0 THEN frame.channels + 1 ELSE frame.channels
  BY <1>2 DEF LeaveSharedChannel, Frames
<1>7. Shared(c) /\ Shared(c)' = Shared(c) /\ Unit' = Unit
  BY <1>1, <1>2, <1>6 DEF Ctl, FrameInBounds, FrameOK, Shared, Unit
<1>8. frame.allocated = 0 => frame.blocks_per_channel < nluns[Unit]
  <2> SUFFICES ASSUME frame.allocated = 0 PROVE frame.blocks_per_channel < nluns[Unit]
    OBVIOUS
  <2>1. RequestPerLun = 0
    <3>1. CASE frame.lun = nluns[Unit]
      <4>1. ret \in Nat /\ nluns[Unit] * ret = 0
        <5>0. base \in 0 .. nblocks[Unit] /\ nblocks[Unit] \in Nat
          BY <1>2, <1>3
        <5>1. ret \in Nat
          BY <1>2, <5>0, LunGrantBounds
        <5>2. frame.allocated = frame.lun * ret
          BY <1>3 DEF LoopFrom
        <5> QED
          BY <3>1, <5>1, <5>2
      <4>2. ret = 0
        <5> HIDE DEF ret
        <5> QED
          BY <1>2, <4>1, NoShare
      <4> QED
        BY <1>2, <1>3, <4>2 DEF LunGrant
    <3>2. CASE frame.lun # nluns[Unit]
      <4>1. frame.request_blocks = 0 /\ nluns[Unit] - frame.lun \in Nat \ {0}
        BY <1>1, <1>2, <3>2
      <4> QED
        BY <1>2, <4>1, NoShare
    <3> QED
      BY <3>1, <3>2
  <2>2. frame.blocks_per_channel \in Nat
    BY <1>2 DEF Frames
  <2> QED
    BY <1>2, <2>1, <2>2, ZeroShare DEF RequestPerLun
<1>9. ChannelsPassed(c)'
  <2>1. frame.allocated \in Nat /\ frame.channels \in Nat
    BY <1>2 DEF Frames
  <2>2. frame'.channels = 0 => frame'.blocks_per_channel < nluns[Unit]
    BY <1>6, <1>8, <2>1
  <2> QED
    BY <1>7, <2>2 DEF ChannelsPassed
<1> QED
  BY <1>1, <1>2, <1>5, <1>6, <1>9, InLoopsKept

(* An exclusive channel taken is used from then on. *)
LEMMA RefusalsTakeExclusiveChannel ==
  ASSUME Ctl, Refusals, NEW c \in Callers, TakeExclusiveChannel(c)
  PROVE  Refusals'
<1>1. /\ pc[c] = "channel_loop" /\ pc' = pc /\ InLoops(c) /\ ~Shared(c)
      /\ ~ChannelLoopDone(c)
      /\ UNCHANGED <<ocssds, num_used_blocks, request>>
      /\ used' = [used EXCEPT ![Unit][frame.chan] = TRUE]
  BY DEF TakeExclusiveChannel, startupVars, InLoops
<1>2. /\ Unit \in Devices /\ frame \in Frames /\ frame.chan \in Channels(Unit)
      /\ frame.chan \in Nat
  BY <1>1, InUnit, AtChannel DEF Frames
<1>3. /\ frame'.unit = frame.unit /\ frame'.total = frame.total
      /\ frame'.remaining = frame.remaining
      /\ frame'.blocks_per_channel = frame.blocks_per_channel
      /\ frame'.chan = frame.chan + 1
  BY <1>2 DEF TakeExclusiveChannel, Frames
<1>4. DOMAIN used = Devices /\ \A d \in Devices : used[d] \in [Channels(d) -> BOOLEAN]
  BY DEF Ctl, TypeOK
<1>5. used'[Unit][frame.chan] /\ \A d \in Devices : \A ch \in Channels(d) :
        used[d][ch] => used'[d][ch]
  BY <1>1, <1>2, <1>4
<1>6. OnlyLess
  BY <1>1, <1>5 DEF OnlyLess
<1>7. ~Shared(c)' /\ Unit' = Unit
  BY <1>1, <1>3 DEF Shared, Unit
<1>8. \A ch \in ExclusiveChannels(Unit) :
        /\ ch \in Channels(Unit)
        /\ ch < frame.chan + 1 => ch < frame.chan \/ ch = frame.chan
  BY <1>2, Geometry DEF ExclusiveChannels
<1>9. ChannelsPassed(c)'
  BY <1>1, <1>2, <1>3, <1>5, <1>7, <1>8 DEF ChannelsPassed, Refusals, LoopsPassed
<1>10. Goto(c, "channel_loop")
  BY <1>1, GotoSelf DEF Ctl
<1> QED
  BY <1>1, <1>3, <1>6, <1>9, <1>10, InLoopsKept

(* The loop over a unit's channels ended because the request is served or  *)
(* because there is no channel left.                                       *)
LEMMA RefusalsUnlockUnit ==
  ASSUME Ctl, ChannelsCounted, Refusals, NEW c \in Callers, UnlockUnit(c)
  PROVE  Refusals'
<1>1. /\ pc[c] = "channel_loop" /\ InLoops(c) /\ InAlloc(c) /\ Goto(c, "unit_loop")
      /\ ChannelLoopDone(c)
      /\ UNCHANGED <<ocssds, used, num_used_blocks, request>>
  BY DEF UnlockUnit, startupVars, physVars, InLoops, InAlloc, AllocLabels
<1>2. /\ frame \in Frames /\ Unit \in Devices /\ frame.unit \in 1 .. Len(ocssds)
      /\ nchannels[Unit] \in Nat \ {0} /\ SharedEnd(Unit) \in 0 .. nchannels[Unit]
  BY <1>1, InUnit
<1>3. /\ frame'.unit = frame.unit + 1 /\ frame'.total = frame.total + frame.channels
      /\ frame'.remaining = frame.remaining - frame.channels
  BY <1>2 DEF UnlockUnit, AfterUnit, Frames
<1>4. /\ frame.remaining \in Nat \ {0} /\ frame.total \in Nat /\ frame.channels \in Nat
      /\ frame.unit \in Nat
  BY <1>1, <1>2 DEF Ctl, FrameInBounds, FrameOK, Frames
<1>5. UnitsPassed(c) /\ ChannelsPassed(c) /\ ShareSet(c)
  BY <1>1 DEF Refusals, LoopsPassed
<1>6. frame.total + frame.remaining = request[c].channels
  BY <1>1 DEF ChannelsCounted, CallCounted
<1>7. UnitsPassed(c)'
  <2> SUFFICES ASSUME Unserved(c)', NEW i \in 1 .. Len(ocssds), i < frame.unit + 1
               PROVE  NothingLeft(c, ocssds[i])'
    BY <1>1, <1>3 DEF UnitsPassed
  <2>1. ocssds[i] \in Devices /\ OnlyLess
    BY <1>1 DEF Ctl, TypeOK, OnlyLess
  <2>2. Unserved(c) /\ frame.channels # frame.remaining
    BY <1>1, <1>3, <1>4 DEF Unserved, Shared
  <2>3. CASE i < frame.unit
    <3>1. NothingLeft(c, ocssds[i])
      BY <1>5, <2>2, <2>3 DEF UnitsPassed
    <3> QED
      BY <1>1, <2>1, <3>1, NothingLeftKept
  <2>4. CASE i = frame.unit
    <3>1. CASE Shared(c)
      <4>1. frame.total = 0 /\ frame.channels = 0
        BY <1>1, <1>3, <1>4, <3>1 DEF Unserved, Shared
      <4>2. frame.blocks_per_channel = request[c].blocks \div request[c].channels
        BY <1>4, <1>5, <1>6, <3>1, <4>1 DEF ShareSet
      <4>3. frame.chan = SharedEnd(Unit)
        BY <1>1, <2>2, <3>1 DEF ChannelLoopDone
      <4>4. \A ch \in SharedChannels(Unit) : ch < frame.chan
        BY <1>2, <4>3 DEF SharedChannels
      <4>5. NothingLeft(c, Unit)
        BY <1>5, <3>1, <4>1, <4>2, <4>4 DEF ChannelsPassed, NothingLeft
      <4> QED
        BY <1>1, <1>2, <2>1, <2>4, <4>5, NothingLeftKept DEF Unit
    <3>2. CASE ~Shared(c)
      <4>1. frame.chan = nchannels[Unit]
        BY <1>1, <2>2, <3>2 DEF ChannelLoopDone
      <4>2. \A ch \in ExclusiveChannels(Unit) : ch < frame.chan
        BY <1>2, <4>1 DEF ExclusiveChannels
      <4>3. NothingLeft(c, Unit)
        BY <1>5, <3>2, <4>2 DEF ChannelsPassed, NothingLeft
      <4> QED
        BY <1>1, <1>2, <2>1, <2>4, <4>3, NothingLeftKept DEF Unit
    <3> QED
      BY <3>1, <3>2
  <2> QED
    BY <1>4, <2>3, <2>4
<1>8. pc'[c] = "unit_loop"
  BY <1>1 DEF Ctl, TypeOK, Goto
<1>9. LoopsPassed(c)'
  BY <1>7, <1>8 DEF LoopsPassed, InLoops
<1> QED
  BY <1>1, <1>9, RunningCall DEF Labels, AllocLabels

(* The call is over. *)
LEMMA RefusalsFinish ==
  ASSUME Ctl, Refusals, NEW c \in Callers, Finish(c)
  PROVE  Refusals'
<1>1. PICK label \in {"idle", "publish"} : Goto(c, label)
  BY DEF Finish
<1>2. InAlloc(c) /\ label \in Labels /\ pc'[c] = label
  BY <1>1 DEF Finish, InAlloc, AllocLabels, Labels, Ctl, TypeOK, Goto
<1>3. LoopsPassed(c)'
  BY <1>2, OutsidePassed DEF InAlloc, AllocLabels
<1> QED
  BY <1>1, <1>2, <1>3, RunningCall

(* What the running call has passed over holds in every reachable state. *)
LEMMA RefusalsInvariant == Spec => []Refusals
<1>1. IInv /\ Counters /\ ChannelsCounted /\ Refusals /\ [Next]_vars => Refusals'
  <2> SUFFICES ASSUME IInv, Counters, ChannelsCounted, Refusals, [Next]_vars PROVE Refusals'
    OBVIOUS
  <2>0. Ctl
    BY DEF IInv, Ctl
  <2>1. CASE \/ Startup
             \/ \E c \in Callers : (\E r \in Requests : CallManager(c, r)) \/ Publish(c)
             \/ UNCHANGED vars
    BY <2>0, <2>1, RefusalsOutside
  <2>2. ASSUME NEW c \in Callers, Alloc(c) PROVE Refusals'
    BY <2>0, <2>2, RefusalsLockManager, RefusalsNextUnit, RefusalsLockUnit, RefusalsSkip,
       RefusalsInChannel, RefusalsLeaveSharedChannel, RefusalsTakeExclusiveChannel,
       RefusalsUnlockUnit, RefusalsFinish
    DEF Alloc
  <2> QED
    BY <2>1, <2>2 DEF Next
<1> QED
  BY <1>1, RefusalsInit, CountedInvariant, CountersInvariant, InductiveInvariant, PTL DEF Spec

(* alloc_ocssd_resource refuses a request, or grants an exclusive one      *)
(* fewer channels than it asks for, only when no unit has anything left    *)
(* that it could be given.                                                 *)
THEOREM RefusalsJustified == Spec => []RefusalJustified
<1>1. IInv /\ ChannelsCounted /\ Refusals => RefusalJustified
  <2> SUFFICES ASSUME IInv, ChannelsCounted, Refusals, NEW c \in Callers, pc[c] = "finish",
                      NEW i \in DOMAIN ocssds, Unserved(c)
               PROVE  NothingLeft(c, ocssds[i])
    BY DEF RefusalJustified, Unserved, NothingLeft, Full
  <2>1. InAlloc(c) /\ UnitsPassed(c) /\ (frame.unit > Len(ocssds) \/ frame.remaining = 0)
    BY DEF InAlloc, AllocLabels, Refusals, LoopsPassed
  <2>2. frame.total + frame.remaining = request[c].channels
    BY <2>1 DEF ChannelsCounted, CallCounted
  <2>3. frame.total \in Nat /\ frame.remaining \in Nat /\ frame.unit \in Nat
    BY FrameNumbers DEF IInv
  <2>4. frame.unit > Len(ocssds)
    BY <2>1, <2>2, <2>3 DEF Unserved
  <2>5. i \in 1 .. Len(ocssds) /\ Len(ocssds) \in Nat
    BY LenProperties DEF IInv, TypeOK
  <2>6. i < frame.unit
    BY <2>3, <2>4, <2>5
  <2> QED
    BY <2>1, <2>5, <2>6 DEF UnitsPassed
<1> QED
  BY <1>1, RefusalsInvariant, CountedInvariant, InductiveInvariant, PTL

-----------------------------------------------------------------------------
(* What is published, when the callbacks of one event loop run one by one   *)

(* What get_ocssd_stats returns looks at used_ and num_used_blocks_ only. *)
StatsFrom(d, u, n) ==
  StatsOf(d, [ch \in Channels(d) |-> IF u[ch] THEN 0 ELSE TotalBlocks(d) - n[ch]])

(* Its value in the present state. *)
LEMMA StatsNow == \A d : Stats(d) = StatsFrom(d, used[d], num_used_blocks[d])
BY DEF Stats, FreeBlocks, StatsFrom

(* The statistics of the i-th unit as they are now, and that its row has   *)
(* them.                                                                   *)
StatsOfUnit(i) ==
  StatsFrom(ocssds[i], used[ocssds[i]], num_used_blocks[ocssds[i]])

Fresh(i) == table[ocssds[i]] = StatsOfUnit(i)

RowsFresh(n) == \A i \in 1 .. Len(ocssds) : i < n => Fresh(i)

AllFresh == \A i \in 1 .. Len(ocssds) : Fresh(i)

(* Where the caller that runs is decides which rows are up to date: all    *)
(* while it has granted nothing, those of the units before punit while it  *)
(* publishes.                                                              *)
FreshFor(c) ==
  /\ pc[c] = "lock_manager" => AllFresh
  /\ InAlloc(c) => IF CountedSoFar(c) = 0 THEN AllFresh ELSE Len(ocssds) > 0
  /\ pc[c] \in {"publish", "insert"} =>
       punit[c] \in 1 .. Len(ocssds) /\ RowsFresh(punit[c])
  /\ pc[c] = "insert" =>
       stats[c] = StatsOfUnit(punit[c])

Published ==
  serving =>
    /\ (\A c \in Callers : pc[c] = "idle") => AllFresh
    /\ \A c \in Callers : FreshFor(c)

(* The manager is called from one thread, the event loop's: a callback     *)
(* runs to its end before the next one starts.                             *)
OneActive ==
  \A c, e \in Callers : pc[c] # "idle" /\ pc[e] # "idle" => c = e

(* A step that leaves the units, their counters and the table alone. *)
LEMMA FreshKept ==
  ASSUME UNCHANGED <<ocssds, used, num_used_blocks, table>>
  PROVE  /\ AllFresh' <=> AllFresh
         /\ \A n : RowsFresh(n)' <=> RowsFresh(n)
BY DEF AllFresh, RowsFresh, Fresh, StatsOfUnit

(* A step of one caller moves nobody else. *)
OthersStay(c) == \A e \in Callers : e # c => pc'[e] = pc[e]

(* Goto moves the program counter of its caller and of nobody else. *)
LEMMA GotoMovesOne ==
  ASSUME Ctl, NEW c \in Callers, NEW label, Goto(c, label)
  PROVE  pc'[c] = label /\ OthersStay(c)
BY DEF Goto, Ctl, TypeOK, OthersStay

(* What the caller that runs promises is all there is to show. *)
LEMMA OnlyCaller ==
  ASSUME OneActive, OneActive', NEW c \in Callers, OthersStay(c),
         pc[c] # "idle" \/ pc'[c] # "idle",
         pc'[c] = "idle" => AllFresh', FreshFor(c)'
  PROVE  Published'
<1>1. \A e \in Callers : e # c => pc'[e] = "idle"
  BY DEF OneActive, OthersStay
<1>2. \A e \in Callers : FreshFor(e)'
  BY <1>1 DEF FreshFor, InAlloc, AllocLabels
<1> QED
  BY <1>2 DEF Published

(* Nothing is promised before the event loop is entered. *)
LEMMA PublishedInit == Init => Published
BY DEF Init, Published

(* The first publication covers every unit. *)
LEMMA PublishedStartup ==
  ASSUME Ctl, Published, Startup
  PROVE  Published'
<1>1. CASE \E exists \in BOOLEAN : ProbeDevice(exists)
  <2>1. ~serving /\ serving' = serving
    BY <1>1, PathsAssumption DEF ProbeDevice, Ctl, StartupFirst, TypeOK
  <2> QED
    BY <2>1 DEF Published
<1>2. CASE StartServing
  <2>1. /\ UNCHANGED <<ocssds, used, num_used_blocks, pc>>
        /\ table' = [d \in Devices |->
              IF \E i \in DOMAIN ocssds : ocssds[i] = d THEN Stats(d) ELSE table[d]]
    BY <1>2 DEF StartServing, physVars
  <2>2. \A i \in 1 .. Len(ocssds) : i \in DOMAIN ocssds /\ ocssds[i] \in Devices
    BY LenProperties DEF Ctl, TypeOK
  <2>3. AllFresh'
    BY <2>1, <2>2, StatsNow DEF AllFresh, Fresh, StatsOfUnit
  <2>4. \A c \in Callers : pc'[c] = "idle"
    BY <1>2, <2>1 DEF StartServing, Ctl, StartupFirst
  <2> QED
    BY <2>3, <2>4 DEF Published, FreshFor, InAlloc, AllocLabels
<1> QED
  BY <1>1, <1>2 DEF Startup

(* A caller serves only after start-up. *)
LEMMA Serving ==
  ASSUME Ctl, NEW c \in Callers, pc[c] # "idle" PROVE serving
BY DEF Ctl, StartupFirst, TypeOK

(* A request arrives, and waits for the mutex of the manager. *)
LEMMA PublishedCallManager ==
  ASSUME OneActive, OneActive', Ctl, Published, NEW c \in Callers,
         NEW r \in Requests, CallManager(c, r)
  PROVE  Published'
<1>1. /\ serving /\ pc[c] = "idle" /\ UNCHANGED <<ocssds, used, num_used_blocks, table>>
      /\ pc'[c] = "lock_manager" /\ OthersStay(c)
  BY GotoMovesOne DEF CallManager, startupVars, physVars, publishVars
<1>2. \A e \in Callers : pc[e] = "idle"
  BY <1>1 DEF OneActive, OthersStay
<1>3. AllFresh'
  BY <1>1, <1>2, FreshKept DEF Published
<1>4. FreshFor(c)'
  BY <1>1, <1>3 DEF FreshFor, InAlloc, AllocLabels
<1> QED
  BY <1>1, <1>4, OnlyCaller

(* The call begins with nothing granted. *)
LEMMA PublishedLockManager ==
  ASSUME OneActive, OneActive', Ctl, Published, NEW c \in Callers, LockManager(c)
  PROVE  Published'
<1>1. /\ pc[c] = "lock_manager" /\ UNCHANGED <<ocssds, used, num_used_blocks, table>>
      /\ pc'[c] = "unit_loop" /\ OthersStay(c) /\ frame'.total = 0
  BY GotoMovesOne DEF LockManager, startupVars, physVars, publishVars, NoFrame
<1>2. AllFresh'
  BY <1>1, FreshKept, Serving DEF Published, FreshFor
<1>3. CountedSoFar(c)' = 0
  BY <1>1 DEF CountedSoFar, InLoops
<1>4. FreshFor(c)'
  BY <1>1, <1>2, <1>3 DEF FreshFor
<1> QED
  BY <1>1, <1>4, OnlyCaller

(* A step within the allocation that changes no channel's counters and     *)
(* counts no channel.                                                      *)
LEMMA PublishedMove ==
  ASSUME OneActive, OneActive', Ctl, Published, NEW c \in Callers, InAlloc(c),
         NEW label \in AllocLabels, Goto(c, label),
         UNCHANGED <<ocssds, used, num_used_blocks, table>>,
         CountedSoFar(c)' = CountedSoFar(c)
  PROVE  Published'
<1>1. pc'[c] = label /\ OthersStay(c) /\ pc[c] # "idle" /\ serving
  BY Serving, GotoMovesOne DEF InAlloc, AllocLabels
<1>2. InAlloc(c)' => IF CountedSoFar(c)' = 0 THEN AllFresh' ELSE Len(ocssds') > 0
  BY <1>1, FreshKept DEF Published, FreshFor
<1>3. label \notin {"idle", "lock_manager", "publish", "insert"}
  BY DEF AllocLabels
<1>4. FreshFor(c)'
  BY <1>1, <1>2, <1>3 DEF FreshFor
<1> QED
  BY <1>1, <1>3, <1>4, OnlyCaller

(* A step within the allocation after which a channel is counted. *)
LEMMA PublishedGrant ==
  ASSUME OneActive, OneActive', Ctl, NEW c \in Callers, InLoops(c), Goto(c, "channel_loop"),
         ocssds' = ocssds, CountedSoFar(c)' # 0
  PROVE  Published'
<1>1. pc'[c] = "channel_loop" /\ frame.unit \in 1 .. Len(ocssds) /\ Len(ocssds) \in Nat
  BY InUnit, LenProperties DEF Goto, Ctl, TypeOK, InLoops
<1>2. Len(ocssds) > 0
  BY <1>1
<1>3. FreshFor(c)'
  BY <1>1, <1>2 DEF FreshFor
<1> QED
  BY <1>1, <1>3, GotoMovesOne, OnlyCaller

(* A shared channel is left: its counters are as before, or it is counted. *)
LEMMA PublishedLeaveSharedChannel ==
  ASSUME OneActive, OneActive', Ctl, Published, NEW c \in Callers, LeaveSharedChannel(c)
  PROVE  Published'
<1>0. TypeOK /\ frame \in Frames /\ frame.allocated \in Nat
  BY DEF Ctl, TypeOK, Frames
<1>1. /\ pc[c] = "lun_loop" /\ InAlloc(c) /\ InLoops(c) /\ Goto(c, "channel_loop")
      /\ pc'[c] = "channel_loop"
      /\ UNCHANGED <<ocssds, used, table>>
  BY <1>0
  DEF LeaveSharedChannel, InAlloc, InLoops, AllocLabels, Goto, TypeOK, startupVars, publishVars
<1>2. /\ frame'.total = frame.total
      /\ frame'.channels = IF frame.allocated > 0 THEN frame.channels + 1 ELSE frame.channels
  BY <1>0 DEF LeaveSharedChannel, Frames
<1>3. CASE frame.allocated = 0
  <2>1. CountedSoFar(c)' = CountedSoFar(c)
    BY <1>1, <1>2, <1>3 DEF CountedSoFar, InLoops
  <2>2. ASSUME NEW d \in Devices PROVE num_used_blocks'[d] = num_used_blocks[d]
    <3>1. /\ Unit \in Devices /\ frame.chan \in Channels(Unit)
      <4>1. frame.chan < SharedEnd(Unit) /\ frame.chan \in Nat
        BY <1>0, <1>1 DEF Ctl, FrameInBounds, FrameOK, Frames
      <4> QED
        BY <1>1, <4>1, InUnit DEF Channels
    <3>2. /\ DOMAIN num_used_blocks = Devices
          /\ num_used_blocks[d] \in [Channels(d) -> Nat]
          /\ num_used_blocks[Unit] \in [Channels(Unit) -> Nat]
      BY <1>0, <3>1 DEF TypeOK
    <3>3. num_used_blocks[Unit][frame.chan] + 0 = num_used_blocks[Unit][frame.chan]
      BY <3>1, <3>2
    <3>4. num_used_blocks' =
            [num_used_blocks EXCEPT ![Unit][frame.chan] = num_used_blocks[Unit][frame.chan]]
      BY <1>3, <3>3 DEF LeaveSharedChannel
    <3>5. CASE d # Unit
      BY <3>1, <3>2, <3>4, <3>5
    <3>6. CASE d = Unit
      BY <3>1, <3>2, <3>4, <3>6
    <3> QED
      BY <3>5, <3>6
  <2>3. \A i \in 1 .. Len(ocssds) : ocssds[i] \in Devices
    BY <1>0, LenProperties DEF TypeOK
  <2>4. AllFresh => AllFresh'
    BY <1>1, <2>2, <2>3 DEF AllFresh, Fresh, StatsOfUnit
  <2>5. FreshFor(c)'
    BY <1>1, <2>1, <2>4, Serving DEF Published, FreshFor, InAlloc, AllocLabels
  <2> QED
    BY <1>1, <2>5, GotoMovesOne, OnlyCaller
<1>4. CASE frame.allocated # 0
  <2>1. CountedSoFar(c)' # 0
    BY <1>0, <1>1, <1>2, <1>4, FrameNumbers DEF CountedSoFar, InLoops
  <2> QED
    BY <1>1, <2>1, PublishedGrant
<1> QED
  BY <1>3, <1>4

(* An exclusive channel is taken and counted. *)
LEMMA PublishedTakeExclusiveChannel ==
  ASSUME OneActive, OneActive', Ctl, Published, NEW c \in Callers, TakeExclusiveChannel(c)
  PROVE  Published'
<1>0. TypeOK /\ frame \in Frames
  BY DEF Ctl, TypeOK
<1>1. pc[c] = "channel_loop" /\ pc' = pc /\ InLoops(c) /\ ocssds' = ocssds
  BY DEF TakeExclusiveChannel, InLoops, startupVars
<1>2. frame'.total = frame.total /\ frame'.channels = frame.channels + 1
  BY <1>0 DEF TakeExclusiveChannel, Frames
<1>3. CountedSoFar(c)' # 0
  BY <1>0, <1>1, <1>2, FrameNumbers DEF CountedSoFar, InLoops
<1>4. Goto(c, "channel_loop")
  BY <1>0, <1>1, GotoSelf
<1> QED
  BY <1>1, <1>3, <1>4, PublishedGrant

(* The call ends: it publishes unless it has granted nothing. *)
LEMMA PublishedFinish ==
  ASSUME OneActive, OneActive', Ctl, Published, NEW c \in Callers, Finish(c)
  PROVE  Published'
<1>1. /\ pc[c] = "finish" /\ InAlloc(c) /\ serving
      /\ UNCHANGED <<ocssds, used, num_used_blocks, table>> /\ punit'[c] = 1
      /\ pc'[c] = IF frame.total = 0 THEN "idle" ELSE "publish"
      /\ OthersStay(c)
  BY Serving, GotoMovesOne
  DEF Finish, startupVars, physVars, InAlloc, AllocLabels, Ctl, TypeOK
<1>2. CountedSoFar(c) = frame.total
  BY <1>1, FrameNumbers DEF CountedSoFar, InLoops, Ctl
<1>3. IF frame.total = 0 THEN AllFresh ELSE Len(ocssds) > 0
  BY <1>1, <1>2 DEF Published, FreshFor
<1>4. Len(ocssds) \in Nat
  BY LenProperties DEF Ctl, TypeOK
<1>5. CASE frame.total = 0
  BY <1>1, <1>3, <1>5, FreshKept, OnlyCaller DEF FreshFor, InAlloc, AllocLabels
<1>6. CASE frame.total # 0
  <2>1. 1 \in 1 .. Len(ocssds) /\ RowsFresh(1)'
    BY <1>3, <1>4, <1>6 DEF RowsFresh
  <2>2. FreshFor(c)'
    BY <1>1, <1>6, <2>1 DEF FreshFor, InAlloc, AllocLabels
  <2> QED
    BY <1>1, <1>6, <2>2, OnlyCaller
<1> QED
  BY <1>5, <1>6

(* publish_resource reads the statistics of a unit: nobody else allocates  *)
(* between that and the insert.                                            *)
LEMMA PublishedGetStats ==
  ASSUME OneActive, OneActive', Ctl, Published, NEW c \in Callers, GetStats(c)
  PROVE  Published'
<1>1. /\ pc[c] = "publish" /\ serving /\ UNCHANGED <<ocssds, used, num_used_blocks, table, punit>>
      /\ pc'[c] = "insert" /\ OthersStay(c) /\ stats'[c] = Stats(ocssds[punit[c]])
  BY Serving, GotoMovesOne DEF GetStats, startupVars, physVars, Ctl, TypeOK
<1>2. punit[c] \in 1 .. Len(ocssds) /\ RowsFresh(punit[c])
  BY <1>1 DEF Published, FreshFor
<1>3. stats'[c] = StatsOfUnit(punit[c])
  BY <1>1, StatsNow DEF StatsOfUnit
<1>4. FreshFor(c)'
  BY <1>1, <1>2, <1>3, FreshKept DEF FreshFor, InAlloc, AllocLabels, StatsOfUnit
<1> QED
  BY <1>1, <1>4, OnlyCaller

(* The row of one more unit is up to date. *)
LEMMA PublishedInsertEntity ==
  ASSUME OneActive, OneActive', Ctl, Published, NEW c \in Callers, InsertEntity(c)
  PROVE  Published'
<1>1. /\ pc[c] = "insert" /\ serving /\ UNCHANGED <<ocssds, used, num_used_blocks>>
      /\ table' = [table EXCEPT ![ocssds[punit[c]]] = stats[c]]
      /\ punit'[c] = punit[c] + 1
      /\ pc'[c] = IF punit[c] = Len(ocssds) THEN "idle" ELSE "publish"
      /\ OthersStay(c)
  BY Serving, GotoMovesOne DEF InsertEntity, startupVars, physVars, Ctl, TypeOK
<1>2. /\ punit[c] \in 1 .. Len(ocssds) /\ RowsFresh(punit[c])
      /\ stats[c] = StatsOfUnit(punit[c])
  BY <1>1 DEF Published, FreshFor
<1>3. /\ Len(ocssds) \in Nat /\ DOMAIN table = Devices
      /\ \A i \in 1 .. Len(ocssds) : ocssds[i] \in Devices
  BY LenProperties DEF Ctl, TypeOK
<1>4. ASSUME NEW i \in 1 .. Len(ocssds), i < punit[c] + 1 PROVE Fresh(i)'
  <2>1. CASE ocssds[i] = ocssds[punit[c]]
    BY <1>1, <1>2, <1>3, <2>1 DEF Fresh, StatsOfUnit
  <2>2. CASE ocssds[i] # ocssds[punit[c]]
    <3>1. i < punit[c]
      BY <1>2, <1>4, <2>2
    <3>2. Fresh(i)
      BY <1>2, <3>1 DEF RowsFresh
    <3> QED
      BY <1>1, <1>2, <1>3, <2>2, <3>2 DEF Fresh, StatsOfUnit
  <2> QED
    BY <2>1, <2>2
<1>5. CASE punit[c] = Len(ocssds)
  <2>1. AllFresh'
    <3> SUFFICES ASSUME NEW i \in 1 .. Len(ocssds') PROVE Fresh(i)'
      BY DEF AllFresh
    <3>1. i \in 1 .. Len(ocssds) /\ i < punit[c] + 1
      BY <1>1, <1>3, <1>5
    <3> QED
      BY <3>1, <1>4
  <2>2. FreshFor(c)'
    BY <1>1, <1>5, <2>1 DEF FreshFor, InAlloc, AllocLabels
  <2> QED
    BY <1>1, <1>5, <2>1, <2>2, OnlyCaller
<1>6. CASE punit[c] # Len(ocssds)
  <2>1. punit'[c] \in 1 .. Len(ocssds')
    BY <1>1, <1>2, <1>3, <1>6
  <2>2. RowsFresh(punit[c])'
    <3> SUFFICES ASSUME NEW i \in 1 .. Len(ocssds'), i < punit'[c] PROVE Fresh(i)'
      BY DEF RowsFresh
    <3>1. i \in 1 .. Len(ocssds) /\ i < punit[c] + 1
      BY <1>1
    <3> QED
      BY <3>1, <1>4
  <2>3. FreshFor(c)'
    BY <1>1, <1>6, <2>1, <2>2 DEF FreshFor, InAlloc, AllocLabels
  <2> QED
    BY <1>1, <1>6, <2>3, OnlyCaller
<1> QED
  BY <1>5, <1>6

(* As long as the callbacks of one event loop run one by one, which is how *)
(* ocssd_libevent_server.cc runs the manager, the rows publish_resource    *)
(* writes are up to date whenever no request is being processed: also      *)
(* after requests that were refused and are not published.                 *)
THEOREM PublishedRowsFresh == Spec /\ []OneActive => []PublishedFresh
<1>1. IInv /\ OneActive /\ OneActive' /\ Published /\ [Next]_vars => Published'
  <2> SUFFICES ASSUME IInv, OneActive, OneActive', Published, [Next]_vars PROVE Published'
    OBVIOUS
  <2>0. Ctl
    BY DEF IInv, Ctl
  <2>1. CASE Startup
    BY <2>0, <2>1, PublishedStartup
  <2>2. ASSUME NEW c \in Callers, NEW r \in Requests, CallManager(c, r) PROVE Published'
    BY <2>0, <2>2, PublishedCallManager
  <2>3. ASSUME NEW c \in Callers, Alloc(c) PROVE Published'
    <3>1. CASE \/ NextUnit(c) \/ LockUnit(c) \/ SkipSharedChannel(c) \/ SkipExclusiveChannel(c)
               \/ EnterSharedChannel(c) \/ AllocLun(c) \/ UnlockUnit(c)
      BY <2>0, <3>1, BetweenStep, PublishedMove DEF publishVars
    <3> QED
      BY <2>0, <2>3, <3>1, PublishedLockManager, PublishedLeaveSharedChannel,
         PublishedTakeExclusiveChannel, PublishedFinish
      DEF Alloc
  <2>4. ASSUME NEW c \in Callers, Publish(c) PROVE Published'
    BY <2>0, <2>4, PublishedGetStats, PublishedInsertEntity DEF Publish
  <2>5. CASE UNCHANGED vars
    <3>1. /\ UNCHANGED <<ocssds, used, num_used_blocks, table, serving, pc, frame, punit, stats>>
      BY <2>5 DEF vars, startupVars, physVars, publishVars
    <3>2. \A c \in Callers : FreshFor(c)' <=> FreshFor(c)
      BY <3>1, FreshKept DEF FreshFor, InAlloc, CountedSoFar, InLoops, StatsOfUnit
    <3> QED
      BY <3>1, <3>2, FreshKept DEF Published
  <2> QED
    BY <2>1, <2>2, <2>3, <2>4, <2>5 DEF Next
<1>2. IInv /\ Published => PublishedFresh
  <2> SUFFICES ASSUME IInv, Published, serving, \A c \in Callers : pc[c] = "idle",
                      NEW i \in DOMAIN ocssds
               PROVE  table[ocssds[i]] = Stats(ocssds[i])
    BY DEF PublishedFresh
  <2>1. AllFresh
    BY DEF Published, FreshFor
  <2>2. i \in 1 .. Len(ocssds)
    BY LenProperties DEF IInv, TypeOK
  <2> QED
    BY <2>1, <2>2, StatsNow DEF AllFresh, Fresh, StatsOfUnit
<1> QED
  BY <1>1, <1>2, PublishedInit, InductiveInvariant, PTL DEF Spec

=============================================================================
