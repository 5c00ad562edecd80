--------------------------- MODULE OcssdServerProofs ---------------------------
(***************************************************************************)
(* The server as a whole, for every value of the constants: it runs the    *)
(* manager as OcssdManager specifies it, one callback at a time; a         *)
(* physical block is only ever erased or written for the connection whose  *)
(* virtual OCSSD it belongs to; and no two virtual blocks share one.       *)
(***************************************************************************)
EXTENDS OcssdServer, OcssdManagerProofs, SequenceFacts

-----------------------------------------------------------------------------
(* The manager within the server                                           *)

(* Every step of the server is one of the manager or leaves it alone. *)
LEMMA ServerStepsManager ==
  ASSUME [ServerNext]_allVars
  PROVE  [Next]_vars
<1>1. CASE ServerStartup
  BY <1>1 DEF ServerStartup, Next
<1>2. CASE Stripe \/ SelfTest \/ NullVblk
  BY <1>2 DEF Stripe, SelfTest, NullVblk
<1>3. ASSUME NEW c \in Callers, NEW r \in Requests, NEW rem \in BOOLEAN, ReceiveAlloc(c, r, rem)
      PROVE  Next
  BY <1>3 DEF ReceiveAlloc, Next
<1>4. ASSUME NEW c \in Callers, Callback(c) PROVE [Next]_vars
  BY <1>4 DEF Callback, AllocResource, InitializeRemote, PublishResource, Next
<1>5. ASSUME NEW c \in Callers,
             \/ \E i \in DOMAIN blks_array[c] : RemoteAccess(c, i)
             \/ \E b \in LocalBlocks : LocalAccess(c, b)
      PROVE  UNCHANGED vars
  BY <1>5 DEF RemoteAccess, LocalAccess
<1>6. CASE UNCHANGED allVars
  BY <1>6 DEF allVars
<1> QED
  BY <1>1, <1>2, <1>3, <1>4, <1>5, <1>6 DEF ServerNext

(* The server runs the manager as OcssdManager specifies it, with the      *)
(* connections as its callers: process_alloc_request calls                 *)
(* alloc_ocssd_resource and publish_resource, and nothing else in the      *)
(* server touches what the manager keeps.  All that is proved of the       *)
(* manager therefore holds in the server.                                  *)
THEOREM ServerRunsManager == ServerSpec => Spec
<1>1. ServerInit => Init
  BY DEF ServerInit
<1> QED
  BY <1>1, ServerStepsManager, PTL DEF ServerSpec, Spec

-----------------------------------------------------------------------------
(* The inductive invariant                                                 *)

Addrs == [ch : Nat, lun : Nat, blk : Nat]
LunRanges == [lun : Nat, start : Nat, num : Nat]
Vchannels == [id : Nat, shared : {0, 1}, num_luns : Nat, luns : Seq(LunRanges)]
LunEnds == [ch : Nat, lun : Nat, block_end : Nat]

Visited == Vblks!LunsVisited(loop.vunit)

ServerTypes ==
  /\ remote \in [Callers -> BOOLEAN]
  /\ holder \in [Ids -> Callers \cup {NoOne}]
  /\ locals \subseteq Ids
  /\ open_vssd \in Callers \cup {NoOne}
  /\ contents \in [Blocks -> Callers \cup {NoOne}]
  /\ blks_array \in [Callers -> Seq(Seq(Addrs))]
  /\ num_blks \in [Callers -> Nat]
  /\ loop \in [conn : Callers \cup {NoCaller}, vunit : Seq(Vchannels),
               curr_blocks : Seq(Nat), addrs : Seq(Addrs), count : Nat]
  /\ crashed \in BOOLEAN
  /\ Visited \in Seq(LunEnds)
  /\ DOMAIN loop.curr_blocks = DOMAIN Visited

(* One callback at a time.  The connection whose virtual OCSSD is being    *)
(* set up is the one that holds the newest id.                             *)
Turns ==
  /\ OneActive
  /\ \A c \in Callers : pc[c] \in AllocLabels \cup {"lock_manager"} => vssd_id < MaxAllocs
  /\ \A id \in Ids : holder[id] # NoOne => id < vssd_id
  /\ open_vssd # NoOne =>
       /\ pc[open_vssd] = "publish" /\ loop.conn = NoCaller
       /\ Newest \in Ids /\ holder[Newest] = open_vssd
  /\ loop.conn # NoCaller =>
       /\ pc[loop.conn] = "publish" /\ open_vssd = NoOne
       /\ Newest \in Ids /\ holder[Newest] = loop.conn

(* The block is part of a virtual block. *)
Taken(b) == \E c \in Callers : \E k \in DOMAIN blks_array[c] : b \in AddressSet(c, k)

(* It belongs to a virtual OCSSD of the connection. *)
OwnedBy(b, c) == \E id \in Ids : id \in BlockOwners(b) /\ holder[id] = c

(* It belongs to the newest virtual OCSSD and is in no virtual block yet. *)
Unstriped(b) == b \in Blocks /\ Newest \in BlockOwners(b) /\ ~Taken(b)

ArraysOwned ==
  \A c \in Callers : \A k \in DOMAIN blks_array[c] :
    \A b \in AddressSet(c, k) : b \in Blocks /\ OwnedBy(b, c)

DataOwned == \A b \in Blocks : contents[b] # NoOne => OwnedBy(b, contents[b])

GrantFresh ==
  open_vssd # NoOne => \A b \in Blocks : Newest \in BlockOwners(b) => ~Taken(b)

Pending == {BlockAt(a) : a \in ToSet(loop.addrs)}

BlockOf(i, n) == <<Dev, Visited[i].ch, Visited[i].lun, n>>

(* The blocks initialize_vssd_blocks has still to come to, and the ones of *)
(* the stripe in hand, are fresh and not the same; no LUN is visited       *)
(* twice.                                                                  *)
LoopFresh ==
  loop.conn # NoCaller =>
    /\ \A i, j \in DOMAIN Visited :
         Visited[i].ch = Visited[j].ch /\ Visited[i].lun = Visited[j].lun => i = j
    /\ \A i \in DOMAIN Visited : \A n \in Nat :
         loop.curr_blocks[i] <= n /\ n < Visited[i].block_end =>
           Unstriped(BlockOf(i, n)) /\ BlockOf(i, n) \notin Pending
    /\ \A b \in Pending : Unstriped(b)

ServerInv ==
  /\ ServerTypes
  /\ Turns
  /\ ArraysOwned
  /\ VblocksApart
  /\ DataOwned
  /\ GrantFresh
  /\ LoopFresh

-----------------------------------------------------------------------------
(* What the manager's steps do to the owners of a block                    *)

(* A block has one owner. *)
LEMMA OneOwner ==
  ASSUME IInv, NEW b \in Blocks, NEW i, NEW j, i \in BlockOwners(b), j \in BlockOwners(b)
  PROVE  i = j
<1>1. b[1] \in Devices /\ b[4] \in Nat
  BY BlockParts
<1>2. /\ Granted \subseteq Extents /\ DisjointExtents /\ ExclusiveOwnership
  BY DEF IInv, TypeOK, Granted
<1>3. \A g, h \in Granted :
        OnLun(g, b[1], b[2], b[3]) /\ Holds(g, b[4])
          /\ OnLun(h, b[1], b[2], b[3]) /\ Holds(h, b[4]) => g = h
  <2> SUFFICES ASSUME NEW g \in Granted, NEW h \in Granted,
                      OnLun(g, b[1], b[2], b[3]), Holds(g, b[4]),
                      OnLun(h, b[1], b[2], b[3]), Holds(h, b[4]), g # h
               PROVE  FALSE
    OBVIOUS
  <2>1. SameLun(g, h)
    BY DEF OnLun, SameLun
  <2>2. g.start + g.num <= h.start \/ h.start + h.num <= g.start
    BY <1>2, <2>1 DEF DisjointExtents
  <2>3. g.start \in Nat /\ g.num \in Nat /\ h.start \in Nat /\ h.num \in Nat
    BY <1>2 DEF Extents
  <2>4. PICK n \in Nat : n = b[4]
    BY <1>1
  <2>5. g.start <= n /\ n < g.start + g.num /\ h.start <= n /\ n < h.start + h.num
    BY <2>4 DEF Holds
  <2> QED
    BY <2>2, <2>3, <2>5
<1>4. \A g \in Granted, h \in vchannels :
        ~(OnLun(g, b[1], b[2], b[3]) /\ h.dev = b[1] /\ h.ch = b[2])
  BY <1>1, <1>2, Geometry DEF OnLun, ExclusiveOwnership
<1>5. \A g, h \in vchannels :
        g.dev = b[1] /\ g.ch = b[2] /\ h.dev = b[1] /\ h.ch = b[2] => g = h
  BY <1>2 DEF ExclusiveOwnership
<1> QED
  BY <1>3, <1>4, <1>5, OwnersMeaning DEF BlockOwners

(* A block keeps its owner, and what is given away goes to the virtual     *)
(* OCSSD under construction.                                               *)
LEMMA OwnersStay ==
  ASSUME IInv, [Next]_vars, NEW b \in Blocks
  PROVE  /\ BlockOwners(b) \subseteq BlockOwners(b)'
         /\ \A i : i \in BlockOwners(b)' /\ i \notin BlockOwners(b) => i = vssd_id
         /\ vssd_id' # vssd_id => BlockOwners(b)' = BlockOwners(b)
<1>1. [Ownership!Next]_abstractVars
  BY OwnershipStep
<1>2. CASE Ownership!Extend
  BY <1>2 DEF Ownership!Extend, BlockOwners
<1>3. CASE Ownership!Seal
  BY <1>3 DEF Ownership!Seal, BlockOwners
<1>4. CASE UNCHANGED abstractVars
  BY <1>4 DEF abstractVars, BlockOwners
<1> QED
  BY <1>1, <1>2, <1>3, <1>4 DEF Ownership!Next

(* One step of alloc_ocssd_resource, as the callback sees it. *)
LEMMA AllocMoves ==
  ASSUME Ctl, NEW c \in Callers, Alloc(c)
  PROVE  /\ pc[c] \in AllocLabels \cup {"lock_manager"} /\ pc[c] # "idle" /\ pc[c] # "publish"
         /\ OthersStay(c)
         /\ pc[c] # "finish" => pc'[c] \in AllocLabels /\ vssd_id' = vssd_id
         /\ pc[c] = "finish" =>
              /\ vssd_id' = vssd_id + 1
              /\ pc'[c] = IF frame.total = 0 THEN "idle" ELSE "publish"
<1>1. CASE \/ NextUnit(c) \/ LockUnit(c) \/ SkipSharedChannel(c) \/ SkipExclusiveChannel(c)
           \/ EnterSharedChannel(c) \/ AllocLun(c) \/ UnlockUnit(c)
  <2>1. PICK label \in AllocLabels : Goto(c, label)
    BY <1>1, BetweenStep
  <2>2. vssd_id' = vssd_id /\ InAlloc(c)
    BY <1>1, BetweenStep
  <2>3. pc[c] # "finish"
    BY <1>1 DEF NextUnit, LockUnit, SkipSharedChannel, SkipExclusiveChannel,
       EnterSharedChannel, AllocLun, UnlockUnit
  <2> QED
    BY <2>1, <2>2, <2>3, GotoMovesOne DEF InAlloc, AllocLabels
<1>2. CASE LockManager(c)
  BY <1>2, GotoMovesOne DEF LockManager, AllocLabels
<1>3. CASE LeaveSharedChannel(c)
  BY <1>3, GotoMovesOne DEF LeaveSharedChannel, AllocLabels
<1>4. CASE TakeExclusiveChannel(c)
  BY <1>4 DEF TakeExclusiveChannel, AllocLabels, OthersStay
<1>5. CASE Finish(c)
  BY <1>5, GotoMovesOne DEF Finish, AllocLabels
<1> QED
  BY <1>1, <1>2, <1>3, <1>4, <1>5 DEF Alloc

-----------------------------------------------------------------------------
(* Turns                                                                   *)

LEMMA TurnsInit == ServerInit => Turns
BY CallerAssumption, OneDeviceAssumption
DEF ServerInit, Init, Vblks!Init, Vblks!NoLoop, Turns, OneActive, AllocLabels

(* A step that moves neither the manager nor the callback. *)
LEMMA TurnsKept ==
  ASSUME Turns, UNCHANGED <<pc, vssd_id, holder, open_vssd>>, loop'.conn = loop.conn
  PROVE  Turns'
BY DEF Turns, OneActive, Newest

(* The callback that runs the allocation is not setting a virtual OCSSD up. *)
LEMMA NotSettingUp ==
  ASSUME ServerTypes, Turns, NEW c \in Callers, pc[c] # "idle", pc[c] # "publish"
  PROVE  /\ open_vssd = NoOne /\ loop.conn = NoCaller
         /\ \A e \in Callers : e # c => pc[e] = "idle"
BY DEF ServerTypes, Turns, OneActive

(* A request is taken when all is quiet. *)
LEMMA TurnsReceiveAlloc ==
  ASSUME IInv, ServerTypes, Turns, NEW c \in Callers, NEW r, NEW rem, ReceiveAlloc(c, r, rem)
  PROVE  Turns'
<1>1. /\ open_vssd = NoOne /\ loop.conn = NoCaller
      /\ \A e \in Callers : pc[e] = "idle"
      /\ UNCHANGED <<vssd_id, holder, open_vssd, loop>>
      /\ Goto(c, "lock_manager") /\ CallsStarted < MaxAllocs
  BY DEF ReceiveAlloc, LoopIdle, CallManager, blockVars
<1>2. OneActive'
  BY <1>1, GotoMovesOne DEF IInv, Ctl, OthersStay, OneActive
<1>3. vssd_id < MaxAllocs
  <2>1. {e \in Callers : pc[e] \in AllocLabels \cup {"lock_manager"}} = {}
    BY <1>1 DEF AllocLabels
  <2>2. CallsStarted = vssd_id + Cardinality({}) /\ vssd_id \in Nat
    BY <2>1, Zenon DEF CallsStarted, IInv, TypeOK
  <2> QED
    BY <1>1, <2>2, FS_EmptySet
<1> QED
  BY <1>1, <1>2, <1>3 DEF Turns

(* alloc_ocssd_resource runs, and gives the new virtual OCSSD to the       *)
(* connection when it returns.                                             *)
LEMMA TurnsAllocResource ==
  ASSUME IInv, ServerTypes, Turns, NEW c \in Callers, AllocResource(c)
  PROVE  Turns'
<1>1. Ctl /\ Alloc(c) /\ UNCHANGED loop
  BY DEF IInv, Ctl, AllocResource, blockVars
<1>2. /\ pc[c] # "idle" /\ pc[c] # "publish" /\ pc[c] \in AllocLabels \cup {"lock_manager"}
      /\ OthersStay(c)
  BY <1>1, AllocMoves
<1>3. /\ open_vssd = NoOne /\ loop.conn = NoCaller
      /\ \A e \in Callers : e # c => pc[e] = "idle"
  BY <1>2, NotSettingUp
<1>4. OneActive' /\ \A e \in Callers : e # c => pc'[e] = "idle"
  BY <1>2, <1>3 DEF OneActive, OthersStay
<1>5. vssd_id < MaxAllocs /\ vssd_id \in Nat /\ MaxAllocs \in Nat
  BY <1>2, BoundAssumption DEF Turns, IInv, TypeOK
<1>6. \A e \in Callers : e # c => pc'[e] \notin AllocLabels \cup {"lock_manager"}
  BY <1>4 DEF AllocLabels
<1>7. CASE pc[c] # "finish"
  <2>1. pc'[c] \in AllocLabels /\ UNCHANGED <<vssd_id, holder, open_vssd>>
    BY <1>1, <1>7, AllocMoves DEF AllocResource
  <2> QED
    BY <1>1, <1>3, <1>4, <1>5, <1>6, <2>1 DEF Turns
<1>8. CASE pc[c] = "finish"
  <2>1. /\ vssd_id' = vssd_id + 1
        /\ pc'[c] = IF frame.total = 0 THEN "idle" ELSE "publish"
    BY <1>1, <1>8, AllocMoves
  <2>2. pc'[c] \notin AllocLabels \cup {"lock_manager"}
    BY <2>1 DEF AllocLabels
  <2>3. frame.total \in Nat /\ vssd_id \in Ids /\ Newest' = vssd_id
    <3>1. frame.total \in Nat
      BY DEF IInv, TypeOK, Frames
    <3>2. vssd_id \in Ids
      BY <1>5 DEF Ids
    <3>3. Newest' = vssd_id
      BY <1>5, <2>1 DEF Newest
    <3> QED
      BY <3>1, <3>2, <3>3
  <2>4. \A id \in Ids : holder[id] # NoOne => id < vssd_id /\ id < vssd_id'
    BY <1>5, <2>1 DEF Turns, Ids
  <2>5. CASE frame.total > 0
    <3>1. /\ holder' = [holder EXCEPT ![vssd_id] = c]
          /\ open_vssd' = NoOne \/ open_vssd' = c
      BY <1>8, <2>5 DEF AllocResource
    <3>2. holder'[vssd_id] = c /\ \A id \in Ids : id # vssd_id => holder'[id] = holder[id]
      BY <2>3, <3>1 DEF ServerTypes
    <3>3. pc'[c] = "publish"
      BY <2>1, <2>3, <2>5
    <3>4. \A id \in Ids : holder'[id] # NoOne => id < vssd_id'
      BY <1>5, <2>1, <2>4, <3>2
    <3> QED
      BY <1>1, <1>3, <1>4, <1>6, <2>2, <2>3, <3>1, <3>2, <3>3, <3>4 DEF Turns
  <2>6. CASE ~(frame.total > 0)
    <3>1. UNCHANGED <<holder, open_vssd>>
      BY <1>8, <2>6 DEF AllocResource
    <3> QED
      BY <1>1, <1>3, <1>4, <1>6, <2>2, <2>4, <3>1 DEF Turns
  <2> QED
    BY <2>5, <2>6
<1> QED
  BY <1>7, <1>8

(* initialize_remote_vssd begins, for the connection that was granted the  *)
(* virtual OCSSD.                                                          *)
LEMMA TurnsInitializeRemote ==
  ASSUME ServerTypes, Turns, NEW c \in Callers, InitializeRemote(c)
  PROVE  Turns'
<1>1. /\ open_vssd = c /\ open_vssd' = NoOne /\ UNCHANGED <<pc, vssd_id, holder>>
      /\ loop'.conn = c /\ c # NoOne
  BY OneDeviceAssumption DEF InitializeRemote, Vblks!Begin, Vblks!NoLoop, vars
<1> QED
  BY <1>1 DEF Turns, OneActive, Newest

(* publish_resource *)
LEMMA TurnsPublishResource ==
  ASSUME IInv, Turns, NEW c \in Callers, PublishResource(c)
  PROVE  Turns'
<1>1. /\ open_vssd = NoOne /\ loop.conn = NoCaller /\ pc[c] # "idle"
      /\ UNCHANGED <<vssd_id, holder, open_vssd, loop>>
  BY DEF PublishResource, Publish, GetStats, InsertEntity, serverVars, blockVars
<1>2. PICK label \in {"insert", "idle", "publish"} : Goto(c, label)
  BY DEF PublishResource, Publish, GetStats, InsertEntity
<1>3. pc'[c] = label /\ OthersStay(c)
  BY <1>2, GotoMovesOne DEF IInv, Ctl
<1>4. label \notin AllocLabels \cup {"lock_manager"}
  BY DEF AllocLabels
<1>5. OneActive'
  BY <1>1, <1>3 DEF Turns, OneActive, OthersStay
<1> QED
  BY <1>1, <1>3, <1>4, <1>5 DEF Turns, OthersStay

(* Every step keeps the turns. *)
LEMMA TurnsStep ==
  ASSUME IInv, ServerTypes, Turns, [ServerNext]_allVars
  PROVE  Turns'
<1>1. CASE ServerStartup
  BY <1>1, TurnsKept DEF ServerStartup, Startup, ProbeDevice, StartServing, serverVars, blockVars
<1>2. CASE Stripe
  <2>1. CASE Vblks!FormStripe
    BY <1>2, <2>1, TurnsKept DEF Stripe, Vblks!FormStripe, vars, ServerTypes
  <2>2. CASE Vblks!Return
    <3>1. loop'.conn = NoCaller /\ open_vssd = NoOne /\ UNCHANGED <<pc, vssd_id, holder, open_vssd>>
      BY <1>2, <2>2 DEF Stripe, Vblks!Return, Vblks!Running, vars, ServerTypes, Turns
    <3> QED
      BY <3>1 DEF Turns, OneActive
  <2> QED
    BY <1>2, <2>1, <2>2 DEF Stripe
<1>3. CASE SelfTest \/ NullVblk
  BY <1>3, TurnsKept
  DEF SelfTest, NullVblk, Vblks!TestFails, Vblks!TestPasses, Vblks!AllocVblkFails, vars,
      ServerTypes
<1>4. ASSUME NEW c \in Callers, NEW r \in Requests, NEW rem \in BOOLEAN, ReceiveAlloc(c, r, rem)
      PROVE  Turns'
  BY <1>4, TurnsReceiveAlloc
<1>5. ASSUME NEW c \in Callers, Callback(c) PROVE Turns'
  BY <1>5, TurnsAllocResource, TurnsInitializeRemote, TurnsPublishResource DEF Callback
<1>6. ASSUME NEW c \in Callers,
             \/ \E i \in DOMAIN blks_array[c] : RemoteAccess(c, i)
             \/ \E b \in LocalBlocks : LocalAccess(c, b)
      PROVE  Turns'
  BY <1>6, TurnsKept DEF RemoteAccess, LocalAccess, vars, blockVars
<1>7. CASE UNCHANGED allVars
  BY <1>7, TurnsKept DEF allVars, vars, serverVars, blockVars
<1> QED
  BY <1>1, <1>2, <1>3, <1>4, <1>5, <1>6, <1>7 DEF ServerNext

-----------------------------------------------------------------------------
(* The walks over a virtual unit: generate_units and the loop over the     *)
(* channels.                                                               *)

Starts(v) ==
  IF v.shared = 1 THEN [l \in DOMAIN v.luns |-> v.luns[l].start]
                  ELSE [l \in 1 .. v.num_luns |-> 0]

Ends(v) ==
  IF v.shared > 0
  THEN [l \in DOMAIN v.luns |->
          [ch |-> v.id, lun |-> v.luns[l].lun, block_end |-> v.luns[l].start + v.luns[l].num]]
  ELSE [l \in 1 .. v.num_luns |->
          [ch |-> v.id, lun |-> l - 1, block_end |-> nblocks[Dev]]]

StartsOf(vunit) == [k \in 1 .. Len(vunit) |-> Starts(vunit[k])]
EndsOf(vunit) == [k \in 1 .. Len(vunit) |-> Ends(vunit[k])]

(* The server has the one device whose path main probes. *)
LEMMA DevIsDevice == Dev \in Devices /\ Devices = {Dev} /\ nblocks[Dev] \in Nat
<1>1. 1 \in DOMAIN Paths /\ DOMAIN Paths = {1}
  BY OneDeviceAssumption, PathsAssumption, LenProperties
<1>2. Dev \in Devices /\ Devices = {Dev}
  BY <1>1 DEF Devices, Dev
<1> QED
  BY <1>2, Geometry

(* The two walks meet as many LUNs in each channel. *)
LEMMA ChannelWalks ==
  ASSUME NEW v \in Vchannels
  PROVE  /\ Starts(v) \in Seq(Nat) /\ Ends(v) \in Seq(LunEnds)
         /\ Len(Starts(v)) = Len(Ends(v))
         /\ v.shared = 1 => Len(Ends(v)) = Len(v.luns)
         /\ v.shared = 0 => Len(Ends(v)) = v.num_luns
<1>1. v.luns \in Seq(LunRanges) /\ v.id \in Nat /\ v.num_luns \in Nat /\ v.shared \in {0, 1}
  BY DEF Vchannels
<1>2. PICK N \in Nat : N = Len(v.luns) /\ DOMAIN v.luns = 1 .. N
  BY <1>1, LenProperties
<1>3. \A l \in 1 .. N : v.luns[l] \in LunRanges
  BY <1>1, <1>2
<1>4. CASE v.shared = 1
  <2>1. Starts(v) = [l \in 1 .. N |-> v.luns[l].start]
    BY <1>2, <1>4 DEF Starts
  <2>2. Ends(v) = [l \in 1 .. N |-> [ch |-> v.id, lun |-> v.luns[l].lun,
                                    block_end |-> v.luns[l].start + v.luns[l].num]]
    BY <1>2, <1>4 DEF Ends
  <2>3. \A l \in 1 .. N : /\ v.luns[l].start \in Nat /\ v.luns[l].lun \in Nat
                          /\ v.luns[l].start + v.luns[l].num \in Nat
    BY <1>3 DEF LunRanges
  <2>4. Starts(v) \in [1 .. N -> Nat]
    BY <2>1, <2>3
  <2>5. Ends(v) \in [1 .. N -> LunEnds]
    <3>1. ASSUME NEW l \in 1 .. N
          PROVE  [ch |-> v.id, lun |-> v.luns[l].lun,
                  block_end |-> v.luns[l].start + v.luns[l].num] \in LunEnds
      BY <1>1, <2>3 DEF LunEnds
    <3> QED
      BY <2>2, <3>1
  <2> QED
    BY <1>2, <1>4, <2>4, <2>5
<1>5. CASE v.shared = 0
  <2>1. Starts(v) = [l \in 1 .. v.num_luns |-> 0]
    BY <1>5 DEF Starts
  <2>2. Ends(v) = [l \in 1 .. v.num_luns |-> [ch |-> v.id, lun |-> l - 1,
                                             block_end |-> nblocks[Dev]]]
    BY <1>5 DEF Ends
  <2>3. Starts(v) \in [1 .. v.num_luns -> Nat] /\ Ends(v) \in [1 .. v.num_luns -> LunEnds]
    BY <1>1, <2>1, <2>2, DevIsDevice DEF LunEnds
  <2> QED
    BY <1>1, <1>5, <2>3, SMTT(30)
<1> QED
  BY <1>1, <1>4, <1>5

(* So the two flat lists have the same positions. *)
LEMMA WalksAgree ==
  ASSUME NEW vunit \in Seq(Vchannels)
  PROVE  /\ StartsOf(vunit) \in Seq(Seq(Nat)) /\ Len(StartsOf(vunit)) = Len(vunit)
         /\ Vblks!GenerateUnits(vunit) \in Seq(Nat)
         /\ Vblks!LunsVisited(vunit) \in Seq(LunEnds)
         /\ \E place : FlattenedAlike(StartsOf(vunit), EndsOf(vunit), Len(vunit),
                                      Vblks!GenerateUnits(vunit), Vblks!LunsVisited(vunit), place)
<1>1. PICK N \in Nat : N = Len(vunit) /\ DOMAIN vunit = 1 .. N
  BY LenProperties
<1>2. \A k \in 1 .. N : vunit[k] \in Vchannels
  BY <1>1
<1>3. StartsOf(vunit) \in [1 .. N -> Seq(Nat)] /\ EndsOf(vunit) \in [1 .. N -> Seq(LunEnds)]
  BY <1>1, <1>2, ChannelWalks DEF StartsOf, EndsOf
<1>4. /\ StartsOf(vunit) \in Seq(Seq(Nat)) /\ Len(StartsOf(vunit)) = N
      /\ EndsOf(vunit) \in Seq(Seq(LunEnds)) /\ Len(EndsOf(vunit)) = N
  BY <1>3
<1>5. \A k \in 1 .. N : Len(StartsOf(vunit)[k]) = Len(EndsOf(vunit)[k])
  BY <1>1, <1>2, ChannelWalks DEF StartsOf, EndsOf
<1>6. \A ss : Vblks!FlattenSeq(ss) = FlattenSeq(ss)
  BY DEF Vblks!FlattenSeq, FlattenSeq
<1>7. Vblks!GenerateUnits(vunit) = FlattenSeq(StartsOf(vunit))
  <2>1. StartsOf(vunit) = [c \in DOMAIN vunit |->
          IF vunit[c].shared = 1 THEN [l \in DOMAIN vunit[c].luns |-> vunit[c].luns[l].start]
                                 ELSE [l \in 1 .. vunit[c].num_luns |-> 0]]
    BY <1>1 DEF StartsOf, Starts
  <2> QED
    BY <1>6, <2>1 DEF Vblks!GenerateUnits
<1>8. Vblks!LunsVisited(vunit) = FlattenSeq(EndsOf(vunit))
  <2>1. EndsOf(vunit) = [c \in DOMAIN vunit |->
          IF vunit[c].shared > 0
          THEN [l \in DOMAIN vunit[c].luns |->
                  [ch |-> vunit[c].id, lun |-> vunit[c].luns[l].lun,
                   block_end |-> vunit[c].luns[l].start + vunit[c].luns[l].num]]
          ELSE [l \in 1 .. vunit[c].num_luns |->
                  [ch |-> vunit[c].id, lun |-> l - 1, block_end |-> nblocks[Dev]]]]
    BY <1>1 DEF EndsOf, Ends
  <2> QED
    BY <1>6, <2>1 DEF Vblks!LunsVisited
<1>9. /\ FlattenSeq(StartsOf(vunit)) \in Seq(Nat) /\ FlattenSeq(EndsOf(vunit)) \in Seq(LunEnds)
      /\ \E place : FlattenedAlike(StartsOf(vunit), EndsOf(vunit), Len(StartsOf(vunit)),
                     FlattenSeq(StartsOf(vunit)), FlattenSeq(EndsOf(vunit)), place)
  <2> HIDE DEF StartsOf, EndsOf
  <2> QED
    BY <1>4, <1>5, FlattenAlike
<1> QED
  BY <1>1, <1>4, <1>7, <1>8, <1>9

-----------------------------------------------------------------------------
(* The virtual unit of the newest virtual OCSSD                            *)

SharedOnes == {g.ch : g \in {h \in vluns : h.vssd = Newest}}
ExclusiveOnes == {g.ch : g \in {h \in vchannels : h.vssd = Newest}}

(* The ranges of the newest virtual OCSSD lie on the device. *)
LEMMA ExtentsLie ==
  ASSUME IInv, NEW g \in vluns
  PROVE  /\ g \in Extents /\ g.dev = Dev /\ g.ch \in SharedChannels(Dev) /\ g.lun \in Luns(Dev)
         /\ g.start \in Nat /\ g.num \in Nat /\ g.start + g.num <= nblocks[Dev]
<1>1. g \in Extents /\ g \in Granted
  BY DEF IInv, TypeOK, Granted
<1>2. g.dev = Dev /\ g.start \in Nat /\ g.num \in Nat
  BY <1>1, DevIsDevice DEF Extents
<1>3. /\ g.ch \in SharedChannels(Dev) /\ g.lun \in Luns(Dev)
      /\ g.start + g.num <= num_used[Dev][g.ch][g.lun]
  BY <1>1, <1>2 DEF IInv, ExtentsInUse
<1>4. g.ch \in Channels(Dev)
  BY <1>3, DevIsDevice, Geometry
<1>5. num_used[Dev][g.ch][g.lun] \in 0 .. nblocks[Dev]
  BY <1>3, <1>4, DevIsDevice DEF IInv, TypeOK
<1> QED
  BY <1>1, <1>2, <1>3, <1>5, DevIsDevice

(* The channels of the newest virtual OCSSD: the shared ones and the
   exclusive ones lie in their own parts of the device. *)
LEMMA OnesOf ==
  ASSUME IInv
  PROVE  /\ SharedOnes \subseteq SharedChannels(Dev) /\ ExclusiveOnes \subseteq ExclusiveChannels(Dev)
         /\ SharedOnes \in SUBSET Nat /\ ExclusiveOnes \in SUBSET Nat
         /\ IsFiniteSet(SharedOnes) /\ IsFiniteSet(ExclusiveOnes)
         /\ SharedOnes \cap ExclusiveOnes = {}
<1>1. SharedOnes \subseteq SharedChannels(Dev)
  BY ExtentsLie DEF SharedOnes
<1>2. ExclusiveOnes \subseteq ExclusiveChannels(Dev)
  <2>1. \A g \in vchannels : g.dev = Dev
    BY DevIsDevice DEF IInv, TypeOK
  <2> QED
    BY <2>1 DEF IInv, ExclusiveOwnership, ExclusiveOnes
<1>3. PICK s \in Nat, n \in Nat : s = SharedEnd(Dev) /\ n = nchannels[Dev]
  BY DevIsDevice, Geometry
<1>4. /\ IsFiniteSet(SharedChannels(Dev)) /\ IsFiniteSet(ExclusiveChannels(Dev))
      /\ SharedChannels(Dev) \subseteq Nat /\ ExclusiveChannels(Dev) \subseteq Nat
  <2>1. IsFiniteSet(0 .. s - 1) /\ IsFiniteSet(s .. n - 1)
    BY FS_Interval
  <2> QED
    BY <1>3, <2>1 DEF SharedChannels, ExclusiveChannels
<1>5. SharedChannels(Dev) \cap ExclusiveChannels(Dev) = {}
  BY DevIsDevice, Geometry
<1> QED
  BY <1>1, <1>2, <1>4, <1>5, FS_Subset

(* A shared channel lists the LUNs the virtual OCSSD has a range on, once  *)
(* each and with one of its ranges.                                        *)
LEMMA SharedVchannelShape ==
  ASSUME IInv, NEW ch \in SharedOnes, NEW v, v = SharedVchannel(ch)
  PROVE  /\ v \in Vchannels /\ v.id = ch /\ v.shared = 1
         /\ \A l \in 1 .. Len(v.luns) : \E g \in ExtentsOn(ch) :
              v.luns[l] = [lun |-> g.lun, start |-> g.start, num |-> g.num]
         /\ \A l, m \in 1 .. Len(v.luns) : v.luns[l].lun = v.luns[m].lun => l = m
         /\ \A g \in ExtentsOn(ch) : \E l \in 1 .. Len(v.luns) : v.luns[l].lun = g.lun
<1> DEFINE S == {g.lun : g \in ExtentsOn(ch)}
           luns == Sorted(S)
           of(l) == CHOOSE g \in ExtentsOn(ch) : g.lun = l
           entry(l) == [lun |-> l, start |-> of(l).start, num |-> of(l).num]
<1>1. \A g \in ExtentsOn(ch) : g \in vluns
  BY DEF ExtentsOn
<1>2. S \subseteq Luns(Dev)
  BY <1>1, ExtentsLie
<1>3. S \in SUBSET Nat /\ IsFiniteSet(S)
  <2>1. PICK n \in Nat : n = nluns[Dev]
    BY DevIsDevice, Geometry
  <2>2. IsFiniteSet(0 .. n - 1)
    BY FS_Interval
  <2>3. IsFiniteSet(Luns(Dev)) /\ Luns(Dev) \subseteq Nat
    BY <2>1, <2>2 DEF Luns
  <2> QED
    BY <1>2, <2>3, FS_Subset
<1>4. /\ luns \in Seq(S)
      /\ \A n \in 1 .. Len(luns) : luns[n] \in S
      /\ \A n, m \in 1 .. Len(luns) : luns[n] = luns[m] => n = m
      /\ \A x \in S : \E n \in 1 .. Len(luns) : luns[n] = x
  <2> HIDE DEF S
  <2> QED
    BY <1>3, SortedFacts
<1>5. PICK N \in Nat : N = Len(luns) /\ DOMAIN luns = 1 .. N
  BY <1>4, LenProperties
<1>6. \A x \in S : of(x) \in ExtentsOn(ch) /\ of(x).lun = x
  OBVIOUS
<1>7. v = [id |-> ch, shared |-> 1, num_luns |-> N,
           luns |-> [n \in 1 .. N |-> entry(luns[n])]]
  BY <1>5 DEF SharedVchannel
<1>8. \A x \in S : entry(x) \in LunRanges /\ entry(x).lun = x
                   /\ \E g \in ExtentsOn(ch) : entry(x) = [lun |-> g.lun, start |-> g.start, num |-> g.num]
  <2> SUFFICES ASSUME NEW x \in S
               PROVE  entry(x) \in LunRanges /\ entry(x).lun = x
                      /\ \E g \in ExtentsOn(ch) : entry(x) = [lun |-> g.lun, start |-> g.start, num |-> g.num]
    OBVIOUS
  <2>1. PICK g \in ExtentsOn(ch) : g = of(x) /\ g.lun = x
    BY <1>6
  <2>2. entry(x) = [lun |-> g.lun, start |-> g.start, num |-> g.num]
    BY <2>1
  <2>3. g.lun \in Nat /\ g.start \in Nat /\ g.num \in Nat
    BY <1>1, <1>3, <2>1, ExtentsLie
  <2> QED
    BY <2>1, <2>2, <2>3 DEF LunRanges
<1>9. ch \in Nat
  BY OnesOf
<1> HIDE DEF S, luns, entry
<1>10. /\ v.id = ch /\ v.shared = 1 /\ v.num_luns = N
       /\ v.luns = [n \in 1 .. N |-> entry(luns[n])]
  BY <1>7
<1>11. v.luns \in [1 .. N -> LunRanges] /\ Len(v.luns) = N
  BY <1>4, <1>5, <1>8, <1>10
<1>12. v \in Vchannels
  BY <1>7, <1>9, <1>10, <1>11 DEF Vchannels
<1>13. \A l \in 1 .. N : v.luns[l] = entry(luns[l]) /\ luns[l] \in S /\ v.luns[l].lun = luns[l]
  BY <1>4, <1>5, <1>8, <1>10
<1>14. \A g \in ExtentsOn(ch) : g.lun \in S
  BY DEF S
<1>15. \A l \in 1 .. Len(v.luns) : \E g \in ExtentsOn(ch) :
         v.luns[l] = [lun |-> g.lun, start |-> g.start, num |-> g.num]
  <2> SUFFICES ASSUME NEW l \in 1 .. N
               PROVE  \E g \in ExtentsOn(ch) :
                        v.luns[l] = [lun |-> g.lun, start |-> g.start, num |-> g.num]
    BY <1>11
  <2>1. v.luns[l] = entry(luns[l]) /\ luns[l] \in S
    BY <1>13
  <2>2. \E g \in ExtentsOn(ch) :
          entry(luns[l]) = [lun |-> g.lun, start |-> g.start, num |-> g.num]
    BY <1>8, <2>1
  <2> QED
    BY <2>1, <2>2
<1>16. \A l, m \in 1 .. Len(v.luns) : v.luns[l].lun = v.luns[m].lun => l = m
  <2> SUFFICES ASSUME NEW l \in 1 .. N, NEW m \in 1 .. N, v.luns[l].lun = v.luns[m].lun
               PROVE  l = m
    BY <1>11
  <2>1. luns[l] = luns[m]
    BY <1>13
  <2> QED
    BY <1>4, <1>5, <2>1
<1>17. \A g \in ExtentsOn(ch) : \E l \in 1 .. Len(v.luns) : v.luns[l].lun = g.lun
  <2> SUFFICES ASSUME NEW g \in ExtentsOn(ch)
               PROVE  \E l \in 1 .. N : v.luns[l].lun = g.lun
    BY <1>11
  <2>1. PICK l \in 1 .. N : luns[l] = g.lun
    BY <1>4, <1>5, <1>14
  <2> QED
    BY <1>13, <2>1
<1> QED
  BY <1>10, <1>12, <1>15, <1>16, <1>17

(* An exclusive channel is described by its number and its LUN count, with
   no LUN listed. *)
LEMMA ExclusiveVchannelShape ==
  ASSUME IInv, NEW ch \in ExclusiveOnes, NEW v, v = ExclusiveVchannel(ch)
  PROVE  v \in Vchannels /\ v.id = ch /\ v.shared = 0 /\ v.num_luns = nluns[Dev]
<1>1. ch \in Nat /\ nluns[Dev] \in Nat
  BY OnesOf, DevIsDevice, Geometry
<1>2. << >> \in Seq(LunRanges)
  OBVIOUS
<1> QED
  BY <1>1, <1>2 DEF ExclusiveVchannel, Vchannels

(* get_unit(0) lists each channel of the virtual OCSSD once. *)
LEMMA UnitZeroShape ==
  ASSUME IInv
  PROVE  /\ UnitZero \in Seq(Vchannels)
         /\ \A k \in 1 .. Len(UnitZero) :
              \/ \E ch \in SharedOnes : UnitZero[k] = SharedVchannel(ch)
              \/ \E ch \in ExclusiveOnes : UnitZero[k] = ExclusiveVchannel(ch)
         /\ \A k, m \in 1 .. Len(UnitZero) : UnitZero[k].id = UnitZero[m].id => k = m
         /\ \A ch \in SharedOnes : \E k \in 1 .. Len(UnitZero) : UnitZero[k] = SharedVchannel(ch)
         /\ \A ch \in ExclusiveOnes :
              \E k \in 1 .. Len(UnitZero) : UnitZero[k] = ExclusiveVchannel(ch)
<1> DEFINE sh == Sorted(SharedOnes)
           ex == Sorted(ExclusiveOnes)
           s == [n \in DOMAIN sh |-> SharedVchannel(sh[n])]
           e == [n \in DOMAIN ex |-> ExclusiveVchannel(ex[n])]
<1>1. UnitZero = s \o e
  BY DEF UnitZero, SharedOnes, ExclusiveOnes
<1>2. /\ sh \in Seq(SharedOnes)
      /\ \A n \in 1 .. Len(sh) : sh[n] \in SharedOnes
      /\ \A n, m \in 1 .. Len(sh) : sh[n] = sh[m] => n = m
      /\ \A x \in SharedOnes : \E n \in 1 .. Len(sh) : sh[n] = x
  BY OnesOf, SortedFacts
<1>3. /\ ex \in Seq(ExclusiveOnes)
      /\ \A n \in 1 .. Len(ex) : ex[n] \in ExclusiveOnes
      /\ \A n, m \in 1 .. Len(ex) : ex[n] = ex[m] => n = m
      /\ \A x \in ExclusiveOnes : \E n \in 1 .. Len(ex) : ex[n] = x
  BY OnesOf, SortedFacts
<1>4. PICK N \in Nat, M \in Nat :
        N = Len(sh) /\ M = Len(ex) /\ DOMAIN sh = 1 .. N /\ DOMAIN ex = 1 .. M
  BY <1>2, <1>3, LenProperties
<1> HIDE DEF sh, ex
<1>5. s \in [1 .. N -> Vchannels] /\ e \in [1 .. M -> Vchannels]
  BY <1>2, <1>3, <1>4, SharedVchannelShape, ExclusiveVchannelShape
<1>6. /\ s \in Seq(Vchannels) /\ Len(s) = N /\ e \in Seq(Vchannels) /\ Len(e) = M
  BY <1>5
<1>7. /\ \A n \in 1 .. N : s[n] = SharedVchannel(sh[n]) /\ s[n].id = sh[n]
      /\ \A n \in 1 .. M : e[n] = ExclusiveVchannel(ex[n]) /\ e[n].id = ex[n]
  BY <1>2, <1>3, <1>4, SharedVchannelShape, ExclusiveVchannelShape
<1> HIDE DEF s, e
<1>8. /\ UnitZero \in Seq(Vchannels) /\ Len(UnitZero) = N + M
      /\ \A i \in 1 .. N + M : UnitZero[i] = IF i <= N THEN s[i] ELSE e[i - N]
  BY <1>1, <1>6, ConcatProperties
<1>9. ASSUME NEW i \in 1 .. N + M
      PROVE  \/ i \in 1 .. N /\ UnitZero[i] = SharedVchannel(sh[i]) /\ UnitZero[i].id = sh[i]
                  /\ sh[i] \in SharedOnes
             \/ i - N \in 1 .. M /\ UnitZero[i] = ExclusiveVchannel(ex[i - N])
                  /\ UnitZero[i].id = ex[i - N] /\ ex[i - N] \in ExclusiveOnes
  <2>1. CASE i <= N
    BY <2>1, <1>8, <1>7, <1>2, <1>4
  <2>2. CASE ~(i <= N)
    BY <2>2, <1>8, <1>7, <1>3, <1>4, SMTT(30)
  <2> QED
    BY <2>1, <2>2
<1>10. ASSUME NEW k \in 1 .. N + M, NEW m \in 1 .. N + M, UnitZero[k].id = UnitZero[m].id
       PROVE  k = m
  <2>1. k - N = m - N => k = m
    BY <1>4
  <2>2. CASE k \in 1 .. N /\ m \in 1 .. N
    BY <2>2, <1>7, <1>8, <1>10, <1>2, <1>4
  <2>3. CASE k - N \in 1 .. M /\ m - N \in 1 .. M
    <3>1. ~(k <= N) /\ ~(m <= N)
      BY <2>3
    <3>2. UnitZero[k].id = ex[k - N] /\ UnitZero[m].id = ex[m - N]
      BY <2>3, <3>1, <1>7, <1>8
    <3> QED
      BY <2>1, <2>3, <3>2, <1>3, <1>4, <1>10
  <2>4. ASSUME NEW i \in 1 .. N + M, NEW j \in 1 .. N + M, UnitZero[i].id = UnitZero[j].id,
               i \in 1 .. N, j - N \in 1 .. M
        PROVE  FALSE
    <3>1. i <= N /\ ~(j <= N)
      BY <2>4
    <3>2. UnitZero[i].id = sh[i] /\ UnitZero[j].id = ex[j - N]
      BY <2>4, <3>1, <1>7, <1>8
    <3>3. sh[i] \in SharedOnes /\ ex[j - N] \in ExclusiveOnes
      BY <2>4, <1>2, <1>3, <1>4
    <3> QED
      BY <2>4, <3>2, <3>3, OnesOf
  <2> QED
    BY <1>9, <1>10, <2>2, <2>3, <2>4
<1>11. ASSUME NEW ch \in SharedOnes
       PROVE  \E k \in 1 .. N + M : UnitZero[k] = SharedVchannel(ch)
  <2>1. PICK n \in 1 .. N : sh[n] = ch
    BY <1>2, <1>4
  <2>2. n \in 1 .. N + M /\ n <= N
    OBVIOUS
  <2> QED
    BY <1>7, <1>8, <2>1, <2>2
<1>12. ASSUME NEW ch \in ExclusiveOnes
       PROVE  \E k \in 1 .. N + M : UnitZero[k] = ExclusiveVchannel(ch)
  <2>1. PICK n \in 1 .. M : ex[n] = ch
    BY <1>3, <1>4
  <2>2. n + N \in 1 .. N + M /\ ~(n + N <= N) /\ (n + N) - N = n
    OBVIOUS
  <2>3. UnitZero[n + N] = e[n]
    BY <1>8, <2>2
  <2> QED
    BY <1>7, <2>1, <2>2, <2>3
<1> QED
  BY <1>8, <1>9, <1>10, <1>11, <1>12

(* An address within the geometry is a block of the device. *)
LEMMA InBlocks ==
  ASSUME NEW ch \in Channels(Dev), NEW l \in Luns(Dev), NEW n \in Nat, n < nblocks[Dev]
  PROVE  <<Dev, ch, l, n>> \in Blocks
<1>1. n \in 0 .. nblocks[Dev] - 1
  BY DevIsDevice
<1>2. <<Dev, ch, l, n>> \in {Dev} \X Channels(Dev) \X Luns(Dev) \X (0 .. nblocks[Dev] - 1)
  BY <1>1
<1> QED
  BY <1>2, DevIsDevice DEF Blocks

(* A LUN of a channel of the unit: the blocks between its start and its    *)
(* end are the virtual OCSSD's, and the channel lists it once.             *)
LEMMA LunGranted ==
  ASSUME IInv, NEW k \in 1 .. Len(UnitZero), NEW v, v = UnitZero[k],
         NEW l \in 1 .. Len(Ends(v))
  PROVE  /\ v \in Vchannels /\ Ends(v)[l].ch = v.id
         /\ \A n \in Nat : Starts(v)[l] <= n /\ n < Ends(v)[l].block_end =>
              /\ <<Dev, v.id, Ends(v)[l].lun, n>> \in Blocks
              /\ Newest \in BlockOwners(<<Dev, v.id, Ends(v)[l].lun, n>>)
         /\ \A m \in 1 .. Len(Ends(v)) : Ends(v)[l].lun = Ends(v)[m].lun => l = m
<1>1. ASSUME NEW ch \in SharedOnes, v = SharedVchannel(ch)
      PROVE  /\ v \in Vchannels /\ Ends(v)[l].ch = v.id
             /\ \A n \in Nat : Starts(v)[l] <= n /\ n < Ends(v)[l].block_end =>
                  /\ <<Dev, v.id, Ends(v)[l].lun, n>> \in Blocks
                  /\ Newest \in BlockOwners(<<Dev, v.id, Ends(v)[l].lun, n>>)
             /\ \A m \in 1 .. Len(Ends(v)) : Ends(v)[l].lun = Ends(v)[m].lun => l = m
  <2>1. /\ v \in Vchannels /\ v.id = ch /\ v.shared = 1
        /\ \A i \in 1 .. Len(v.luns) : \E g \in ExtentsOn(ch) :
             v.luns[i] = [lun |-> g.lun, start |-> g.start, num |-> g.num]
        /\ \A i, m \in 1 .. Len(v.luns) : v.luns[i].lun = v.luns[m].lun => i = m
    BY <1>1, SharedVchannelShape, SMTT(60)
  <2>2. Len(Ends(v)) = Len(v.luns) /\ DOMAIN v.luns = 1 .. Len(v.luns)
    <3>1. v.luns \in Seq(LunRanges)
      BY <2>1 DEF Vchannels
    <3> QED
      BY <2>1, <3>1, ChannelWalks, LenProperties
  <2>3. \A m \in 1 .. Len(v.luns) :
          /\ Starts(v)[m] = v.luns[m].start
          /\ Ends(v)[m] = [ch |-> v.id, lun |-> v.luns[m].lun,
                           block_end |-> v.luns[m].start + v.luns[m].num]
    BY <2>1, <2>2 DEF Starts, Ends
  <2>4. ASSUME NEW m \in 1 .. Len(v.luns)
        PROVE  /\ Ends(v)[m].ch = ch /\ Ends(v)[m].lun = v.luns[m].lun
               /\ Ends(v)[m].block_end = v.luns[m].start + v.luns[m].num
    <3>1. Ends(v)[m] = [ch |-> v.id, lun |-> v.luns[m].lun,
                        block_end |-> v.luns[m].start + v.luns[m].num]
      BY <2>3
    <3> QED
      BY <2>1, <3>1
  <2>5. PICK g \in ExtentsOn(ch) : v.luns[l] = [lun |-> g.lun, start |-> g.start, num |-> g.num]
    BY <2>1, <2>2
  <2>6. /\ g \in vluns /\ g.vssd = Newest /\ g.dev = Dev /\ g.ch = ch
        /\ v.luns[l].lun = g.lun /\ v.luns[l].start = g.start /\ v.luns[l].num = g.num
    BY <2>5 DEF ExtentsOn
  <2>7. /\ g.ch \in SharedChannels(Dev) /\ g.lun \in Luns(Dev)
        /\ g.start \in Nat /\ g.num \in Nat /\ g.start + g.num <= nblocks[Dev]
    BY <2>6, ExtentsLie
  <2>8. ch \in Channels(Dev)
    BY <2>6, <2>7, DevIsDevice, Geometry
  <2>9. ASSUME NEW n \in Nat, g.start <= n, n < g.start + g.num
        PROVE  /\ <<Dev, ch, g.lun, n>> \in Blocks
               /\ Newest \in BlockOwners(<<Dev, ch, g.lun, n>>)
    <3>1. n < nblocks[Dev]
      BY <2>7, <2>9, DevIsDevice, SMTT(30)
    <3>2. OnLun(g, Dev, ch, g.lun) /\ Holds(g, n) /\ g \in Granted
      BY <2>6, <2>9 DEF OnLun, Holds, Granted
    <3>3. Newest \in Owners(Dev, ch, g.lun, n)
      BY <2>6, <3>2, OwnersMeaning
    <3> QED
      BY <2>7, <2>8, <3>1, <3>3, InBlocks DEF BlockOwners
  <2>10. /\ Ends(v)[l].ch = v.id /\ Ends(v)[l].lun = g.lun
         /\ Starts(v)[l] = g.start /\ Ends(v)[l].block_end = g.start + g.num
    <3>1. l \in 1 .. Len(v.luns)
      BY <2>2
    <3>2. Starts(v)[l] = v.luns[l].start
      BY <2>3, <3>1
    <3>3. /\ Ends(v)[l].ch = ch /\ Ends(v)[l].lun = v.luns[l].lun
          /\ Ends(v)[l].block_end = v.luns[l].start + v.luns[l].num
      BY <2>4, <3>1
    <3> QED
      BY <2>1, <2>6, <3>2, <3>3
  <2>11. \A m \in 1 .. Len(Ends(v)) : Ends(v)[l].lun = Ends(v)[m].lun => l = m
    BY <2>1, <2>2, <2>4
  <2> QED
    BY <2>1, <2>9, <2>10, <2>11
<1>2. ASSUME NEW ch \in ExclusiveOnes, v = ExclusiveVchannel(ch)
      PROVE  /\ v \in Vchannels /\ Ends(v)[l].ch = v.id
             /\ \A n \in Nat : Starts(v)[l] <= n /\ n < Ends(v)[l].block_end =>
                  /\ <<Dev, v.id, Ends(v)[l].lun, n>> \in Blocks
                  /\ Newest \in BlockOwners(<<Dev, v.id, Ends(v)[l].lun, n>>)
             /\ \A m \in 1 .. Len(Ends(v)) : Ends(v)[l].lun = Ends(v)[m].lun => l = m
  <2>1. v \in Vchannels /\ v.id = ch /\ v.shared = 0 /\ v.num_luns = nluns[Dev]
    BY <1>2, ExclusiveVchannelShape
  <2>2. PICK N \in Nat : N = nluns[Dev] /\ Len(Ends(v)) = N
    BY <2>1, ChannelWalks, DevIsDevice, Geometry
  <2>3. \A m \in 1 .. N :
          Ends(v)[m] = [ch |-> ch, lun |-> m - 1, block_end |-> nblocks[Dev]]
    BY <2>1, <2>2 DEF Ends
  <2>4. ASSUME NEW m \in 1 .. N
        PROVE  /\ Ends(v)[m].ch = ch /\ Ends(v)[m].lun = m - 1
               /\ Ends(v)[m].block_end = nblocks[Dev]
    <3>1. Ends(v)[m] = [ch |-> ch, lun |-> m - 1, block_end |-> nblocks[Dev]]
      BY <2>3
    <3> QED
      BY <3>1
  <2>5. PICK h \in vchannels : h.vssd = Newest /\ h.ch = ch
    BY <1>2 DEF ExclusiveOnes
  <2>6. h.dev = Dev
    BY DevIsDevice DEF IInv, TypeOK
  <2>7. ch \in Channels(Dev) /\ l - 1 \in Luns(Dev)
    BY <2>2, OnesOf, DevIsDevice, Geometry DEF Luns
  <2>8. ASSUME NEW n \in Nat, n < nblocks[Dev]
        PROVE  /\ <<Dev, ch, l - 1, n>> \in Blocks
               /\ Newest \in BlockOwners(<<Dev, ch, l - 1, n>>)
    <3>1. Newest \in Owners(Dev, ch, l - 1, n)
      BY <2>5, <2>6, OwnersMeaning
    <3> QED
      BY <2>7, <2>8, <3>1, InBlocks DEF BlockOwners
  <2>9. \A m \in 1 .. N : l - 1 = m - 1 => l = m
    BY <2>2
  <2> QED
    BY <2>1, <2>2, <2>4, <2>8, <2>9, ZenonT(30)
<1> QED
  BY <1>1, <1>2, UnitZeroShape

(* What initialize_vssd_blocks finds when it begins: each LUN once, and on *)
(* each the blocks of the virtual OCSSD.                                   *)
LEMMA UnitVisited ==
  ASSUME IInv, NEW cur, NEW vis,
         cur = Vblks!GenerateUnits(UnitZero), vis = Vblks!LunsVisited(UnitZero)
  PROVE  /\ cur \in Seq(Nat) /\ vis \in Seq(LunEnds) /\ DOMAIN cur = DOMAIN vis
         /\ \A i, j \in DOMAIN vis : vis[i].ch = vis[j].ch /\ vis[i].lun = vis[j].lun => i = j
         /\ \A i \in DOMAIN vis : \A n \in Nat : cur[i] <= n /\ n < vis[i].block_end =>
              /\ <<Dev, vis[i].ch, vis[i].lun, n>> \in Blocks
              /\ Newest \in BlockOwners(<<Dev, vis[i].ch, vis[i].lun, n>>)
<1> DEFINE ss == StartsOf(UnitZero)
           rr == EndsOf(UnitZero)
<1>0. UnitZero \in Seq(Vchannels)
  BY UnitZeroShape
<1>1. PICK N \in Nat : N = Len(UnitZero) /\ DOMAIN UnitZero = 1 .. N
  BY <1>0, LenProperties
<1>2. /\ Len(ss) = N /\ cur \in Seq(Nat) /\ vis \in Seq(LunEnds)
      /\ \E place : FlattenedAlike(ss, rr, N, cur, vis, place)
  BY <1>0, <1>1, WalksAgree
<1>3. PICK place : FlattenedAlike(ss, rr, N, cur, vis, place)
  BY <1>2
<1>4. DOMAIN cur = 1 .. Len(cur) /\ DOMAIN vis = 1 .. Len(cur) /\ Len(cur) \in Nat
  BY <1>2, <1>3, LenProperties DEF FlattenedAlike
<1>5. ASSUME NEW i \in DOMAIN vis
      PROVE  \E k \in 1 .. N : \E l \in 1 .. Len(Ends(UnitZero[k])) :
               /\ place[i] = <<k, l>>
               /\ cur[i] = Starts(UnitZero[k])[l] /\ vis[i] = Ends(UnitZero[k])[l]
  <2>1. /\ place[i] \in {p \in Places(ss) : p[1] <= N}
        /\ cur[i] = ss[place[i][1]][place[i][2]] /\ vis[i] = rr[place[i][1]][place[i][2]]
    BY <1>3, <1>4 DEF FlattenedAlike
  <2>2. PICK k \in 1 .. N, l \in Nat : place[i] = <<k, l>> /\ l \in 1 .. Len(ss[k])
    <3>0. Len(ss) = N
      BY <1>2
    <3>1. /\ place[i] \in (1 .. Len(ss)) \X Nat
          /\ place[i][2] \in 1 .. Len(ss[place[i][1]])
      BY <2>1 DEF Places
    <3>2. PICK k \in 1 .. N, l \in Nat : place[i] = <<k, l>>
      <4> HIDE DEF ss
      <4> QED
        BY <3>1, <3>0
    <3>3. place[i][1] = k /\ place[i][2] = l
      BY <3>2
    <3> HIDE DEF ss
    <3> QED
      BY <3>1, <3>2, <3>3
  <2>3. ss[k] = Starts(UnitZero[k]) /\ rr[k] = Ends(UnitZero[k])
    BY <1>1 DEF StartsOf, EndsOf
  <2>4. Len(ss[k]) = Len(Ends(UnitZero[k]))
    BY <1>0, <1>1, <2>3, ChannelWalks
  <2> HIDE DEF ss, rr
  <2> QED
    BY <2>1, <2>2, <2>3, <2>4
<1>6. ASSUME NEW i \in DOMAIN vis, NEW j \in DOMAIN vis,
             vis[i].ch = vis[j].ch, vis[i].lun = vis[j].lun
      PROVE  i = j
  <2>1. PICK k \in 1 .. N : \E l \in 1 .. Len(Ends(UnitZero[k])) :
          place[i] = <<k, l>> /\ vis[i] = Ends(UnitZero[k])[l]
    BY <1>5
  <2>2. PICK l \in 1 .. Len(Ends(UnitZero[k])) :
          place[i] = <<k, l>> /\ vis[i] = Ends(UnitZero[k])[l]
    BY <2>1
  <2>3. PICK q \in 1 .. N : \E m \in 1 .. Len(Ends(UnitZero[q])) :
          place[j] = <<q, m>> /\ vis[j] = Ends(UnitZero[q])[m]
    BY <1>5
  <2>4. PICK m \in 1 .. Len(Ends(UnitZero[q])) :
          place[j] = <<q, m>> /\ vis[j] = Ends(UnitZero[q])[m]
    BY <2>3
  <2>5. UnitZero[k].id = UnitZero[q].id
    BY <1>1, <1>6, <2>2, <2>4, LunGranted
  <2>6. k = q
    BY <1>1, <2>5, UnitZeroShape
  <2>7. l = m
    BY <1>1, <1>6, <2>2, <2>4, <2>6, LunGranted
  <2>8. place[i] = place[j]
    BY <2>2, <2>4, <2>6, <2>7
  <2>9. \A x, y \in 1 .. Len(cur) : place[x] = place[y] => x = y
    BY <1>3 DEF FlattenedAlike
  <2> QED
    BY <1>4, <2>8, <2>9
<1>7. ASSUME NEW i \in DOMAIN vis, NEW n \in Nat, cur[i] <= n, n < vis[i].block_end
      PROVE  /\ <<Dev, vis[i].ch, vis[i].lun, n>> \in Blocks
             /\ Newest \in BlockOwners(<<Dev, vis[i].ch, vis[i].lun, n>>)
  <2>1. PICK k \in 1 .. N : \E l \in 1 .. Len(Ends(UnitZero[k])) :
          cur[i] = Starts(UnitZero[k])[l] /\ vis[i] = Ends(UnitZero[k])[l]
    BY <1>5
  <2>2. PICK l \in 1 .. Len(Ends(UnitZero[k])) :
          cur[i] = Starts(UnitZero[k])[l] /\ vis[i] = Ends(UnitZero[k])[l]
    BY <2>1
  <2>3. vis[i].ch = UnitZero[k].id
    BY <1>1, <2>2, LunGranted
  <2> QED
    BY <1>1, <1>7, <2>2, <2>3, LunGranted
<1> QED
  BY <1>2, <1>4, <1>6, <1>7

(* And nothing else: every block of the virtual OCSSD lies between the     *)
(* start and the end of a LUN that the loop visits.  On a shared channel   *)
(* this takes that the virtual OCSSD has one range on the LUN.             *)
LEMMA UnitCovers ==
  ASSUME IInv, OneRangePerLun, NEW cur, NEW vis,
         cur = Vblks!GenerateUnits(UnitZero), vis = Vblks!LunsVisited(UnitZero),
         NEW b \in Blocks, Newest \in BlockOwners(b)
  PROVE  \E i \in DOMAIN vis : \E n \in Nat :
           cur[i] <= n /\ n < vis[i].block_end /\ b = <<Dev, vis[i].ch, vis[i].lun, n>>
<1>0. UnitZero \in Seq(Vchannels)
  BY UnitZeroShape
<1>1. PICK N \in Nat : N = Len(UnitZero) /\ DOMAIN UnitZero = 1 .. N
  BY <1>0, LenProperties
<1>2. PICK ch \in Channels(Dev), q \in Luns(Dev), n \in 0 .. nblocks[Dev] - 1 : b = <<Dev, ch, q, n>>
  <2>1. b \in {Dev} \X Channels(Dev) \X Luns(Dev) \X (0 .. nblocks[Dev] - 1)
    BY DevIsDevice DEF Blocks
  <2> QED
    BY <2>1
<1>3. n \in Nat /\ n < nblocks[Dev]
  BY DevIsDevice
<1>4. Newest \in Owners(Dev, ch, q, n)
  BY <1>2 DEF BlockOwners
<1>5. \E k \in 1 .. N : \E l \in 1 .. Len(Ends(UnitZero[k])) :
        /\ Starts(UnitZero[k])[l] <= n /\ n < Ends(UnitZero[k])[l].block_end
        /\ Ends(UnitZero[k])[l].ch = ch /\ Ends(UnitZero[k])[l].lun = q
  <2>1. ASSUME NEW g \in Granted, g.vssd = Newest, OnLun(g, Dev, ch, q), Holds(g, n)
        PROVE  \E k \in 1 .. N : \E l \in 1 .. Len(Ends(UnitZero[k])) :
                 /\ Starts(UnitZero[k])[l] <= n /\ n < Ends(UnitZero[k])[l].block_end
                 /\ Ends(UnitZero[k])[l].ch = ch /\ Ends(UnitZero[k])[l].lun = q
    <3>1. g \in vluns
      <4>1. vssd_id \in Nat /\ Newest # vssd_id
        BY DEF IInv, TypeOK, Newest
      <4>2. \A h \in alloc_units : h.vssd = vssd_id
        BY DEF IInv, UnderConstruction
      <4> QED
        BY <2>1, <4>1, <4>2 DEF Granted
    <3>2. g.dev = Dev /\ g.ch = ch /\ g.lun = q
      BY <2>1 DEF OnLun
    <3>3. ch \in SharedOnes /\ g \in ExtentsOn(ch)
      BY <2>1, <3>1, <3>2 DEF SharedOnes, ExtentsOn
    <3>4. PICK k \in 1 .. N : UnitZero[k] = SharedVchannel(ch)
      BY <1>1, <3>3, UnitZeroShape
    <3>5. PICK v : v = UnitZero[k] /\ v = SharedVchannel(ch)
      BY <3>4
    <3>6. /\ v \in Vchannels /\ v.id = ch /\ v.shared = 1
          /\ \A i \in 1 .. Len(v.luns) : \E h \in ExtentsOn(ch) :
               v.luns[i] = [lun |-> h.lun, start |-> h.start, num |-> h.num]
          /\ \A h \in ExtentsOn(ch) : \E l \in 1 .. Len(v.luns) : v.luns[l].lun = h.lun
      BY <3>3, <3>5, SharedVchannelShape
    <3>7. PICK l \in 1 .. Len(v.luns) : v.luns[l].lun = g.lun
      BY <3>3, <3>6
    <3>8. PICK h \in ExtentsOn(ch) : v.luns[l] = [lun |-> h.lun, start |-> h.start, num |-> h.num]
      BY <3>6
    <3>9. h.lun = g.lun /\ v.luns[l].start = h.start /\ v.luns[l].num = h.num
      BY <3>7, <3>8
    <3>10. h = g
      BY <3>2, <3>3, <3>9 DEF ExtentsOn, OneRangePerLun, SameLun
    <3>11. Len(Ends(v)) = Len(v.luns) /\ DOMAIN v.luns = 1 .. Len(v.luns)
      <4>1. v.luns \in Seq(LunRanges)
        BY <3>6 DEF Vchannels
      <4> QED
        BY <3>6, <4>1, ChannelWalks, LenProperties
    <3>12. /\ Starts(v)[l] = v.luns[l].start
           /\ Ends(v)[l] = [ch |-> v.id, lun |-> v.luns[l].lun,
                            block_end |-> v.luns[l].start + v.luns[l].num]
      BY <3>6, <3>11 DEF Starts, Ends
    <3>13. /\ Ends(v)[l].ch = ch /\ Ends(v)[l].lun = q
           /\ Ends(v)[l].block_end = v.luns[l].start + v.luns[l].num
      BY <3>2, <3>6, <3>7, <3>12
    <3>14. Starts(v)[l] <= n /\ n < Ends(v)[l].block_end
      BY <2>1, <3>9, <3>10, <3>12, <3>13 DEF Holds
    <3> QED
      BY <3>5, <3>11, <3>13, <3>14
  <2>2. ASSUME NEW h \in vchannels, h.vssd = Newest, h.dev = Dev, h.ch = ch
        PROVE  \E k \in 1 .. N : \E l \in 1 .. Len(Ends(UnitZero[k])) :
                 /\ Starts(UnitZero[k])[l] <= n /\ n < Ends(UnitZero[k])[l].block_end
                 /\ Ends(UnitZero[k])[l].ch = ch /\ Ends(UnitZero[k])[l].lun = q
    <3>1. ch \in ExclusiveOnes
      BY <2>2 DEF ExclusiveOnes
    <3>2. PICK k \in 1 .. N : UnitZero[k] = ExclusiveVchannel(ch)
      BY <1>1, <3>1, UnitZeroShape
    <3>3. PICK v : v = UnitZero[k]
      OBVIOUS
    <3>4. v \in Vchannels /\ v.id = ch /\ v.shared = 0 /\ v.num_luns = nluns[Dev]
      BY <3>1, <3>2, <3>3, ExclusiveVchannelShape
    <3>5. PICK M \in Nat : M = nluns[Dev] /\ Len(Ends(v)) = M
      BY <3>4, ChannelWalks, DevIsDevice, Geometry
    <3>6. PICK l \in 1 .. M : l - 1 = q
      <4>1. q \in 0 .. M - 1
        BY <3>5 DEF Luns
      <4>2. q + 1 \in 1 .. M /\ (q + 1) - 1 = q
        BY <3>5, <4>1
      <4> QED
        BY <4>2
    <3>7. /\ Starts(v)[l] = 0
          /\ Ends(v)[l] = [ch |-> ch, lun |-> l - 1, block_end |-> nblocks[Dev]]
      BY <3>4, <3>5 DEF Starts, Ends
    <3>8. /\ Ends(v)[l].ch = ch /\ Ends(v)[l].lun = q /\ Ends(v)[l].block_end = nblocks[Dev]
      BY <3>6, <3>7
    <3> QED
      BY <1>3, <3>3, <3>5, <3>7, <3>8
  <2> QED
    BY <1>4, <2>1, <2>2 DEF Owners
<1>6. PICK k \in 1 .. N : \E l \in 1 .. Len(Ends(UnitZero[k])) :
        /\ Starts(UnitZero[k])[l] <= n /\ n < Ends(UnitZero[k])[l].block_end
        /\ Ends(UnitZero[k])[l].ch = ch /\ Ends(UnitZero[k])[l].lun = q
  BY <1>5
<1>7. PICK l \in 1 .. Len(Ends(UnitZero[k])) :
        /\ Starts(UnitZero[k])[l] <= n /\ n < Ends(UnitZero[k])[l].block_end
        /\ Ends(UnitZero[k])[l].ch = ch /\ Ends(UnitZero[k])[l].lun = q
  BY <1>6
<1> DEFINE ss == StartsOf(UnitZero)
           rr == EndsOf(UnitZero)
<1>8. PICK place : FlattenedAlike(ss, rr, N, cur, vis, place)
  BY <1>0, <1>1, WalksAgree
<1>9. ss[k] = Starts(UnitZero[k]) /\ rr[k] = Ends(UnitZero[k]) /\ Len(ss) = N
  BY <1>0, <1>1, WalksAgree DEF StartsOf, EndsOf
<1>10. Len(ss[k]) = Len(Ends(UnitZero[k])) /\ Len(ss[k]) \in Nat
  BY <1>0, <1>1, <1>9, ChannelWalks, LenProperties
<1> HIDE DEF ss, rr
<1>11. PICK p : p = <<k, l>>
  OBVIOUS
<1>12. p[1] = k /\ p[2] = l
  BY <1>11
<1>13. p \in Places(ss) /\ p[1] <= N
  BY <1>7, <1>9, <1>10, <1>11, <1>12 DEF Places
<1>14. PICK i \in 1 .. Len(cur) : place[i] = p
  BY <1>8, <1>13 DEF FlattenedAlike
<1>15. cur[i] = ss[k][l] /\ vis[i] = rr[k][l]
  BY <1>8, <1>12, <1>14 DEF FlattenedAlike
<1>16. i \in DOMAIN vis
  <2>1. cur \in Seq(Nat) /\ DOMAIN cur = DOMAIN vis
    BY UnitVisited
  <2> QED
    BY <2>1, <1>14, LenProperties
<1> QED
  BY <1>2, <1>3, <1>7, <1>9, <1>15, <1>16

-----------------------------------------------------------------------------
(* Types                                                                   *)

LoopRecords == [conn : Callers \cup {NoCaller}, vunit : Seq(Vchannels),
                curr_blocks : Seq(Nat), addrs : Seq(Addrs), count : Nat]

HasLeft(i) == loop.curr_blocks[i] < Visited[i].block_end

(* The loop over the channels meets no LUN twice. *)
EachLunOnce ==
  \A i, j \in DOMAIN Visited :
    Visited[i].ch = Visited[j].ch /\ Visited[i].lun = Visited[j].lun => i = j

(* The LUNs that contribute are those with a block left, in order. *)
LEMMA ContributingLuns ==
  ASSUME ServerTypes, NEW S, S = {i \in DOMAIN Visited : HasLeft(i)}
  PROVE  /\ Vblks!Contributing = Sorted(S) /\ Sorted(S) \in Seq(S)
         /\ \A n \in 1 .. Len(Sorted(S)) : Sorted(S)[n] \in S
         /\ \A n, m \in 1 .. Len(Sorted(S)) : Sorted(S)[n] = Sorted(S)[m] => n = m
         /\ \A i \in S : \E n \in 1 .. Len(Sorted(S)) : Sorted(S)[n] = i
<1>1. PICK N \in Nat : DOMAIN Visited = 1 .. N
  BY LenProperties DEF ServerTypes
<1>2. Vblks!LunIndexes = DOMAIN Visited /\ \A i \in DOMAIN Visited : Vblks!HasBlock(i) <=> HasLeft(i)
  BY DEF Vblks!LunIndexes, Vblks!HasBlock, HasLeft, Visited
<1>3. S = {i \in Vblks!LunIndexes : Vblks!HasBlock(i)}
  BY <1>2
<1>4. \A T : Vblks!Sorted(T) = Sorted(T)
  BY DEF Vblks!Sorted, Sorted, Vblks!Rank, Rank, Vblks!Cardinality, Cardinality
<1>5. Vblks!Contributing = Sorted(S)
  BY <1>3, <1>4 DEF Vblks!Contributing
<1>6. S \in SUBSET Nat /\ IsFiniteSet(S)
  <2>1. IsFiniteSet(1 .. N)
    BY FS_Interval
  <2> QED
    BY <1>1, <2>1, FS_Subset
<1> QED
  BY <1>5, <1>6, SortedFacts

(* One pass over the LUNs: every LUN that has a block left gives it to the *)
(* stripe, and moves on by one.                                            *)
LEMMA StripeFormed ==
  ASSUME ServerTypes, Vblks!FormStripe
  PROVE  /\ loop.conn # NoCaller /\ loop.addrs = << >>
         /\ loop' \in LoopRecords
         /\ loop'.conn = loop.conn /\ loop'.vunit = loop.vunit /\ loop'.count = loop.count
         /\ Visited' = Visited
         /\ DOMAIN loop'.curr_blocks = DOMAIN Visited
         /\ \A i \in DOMAIN Visited :
              loop'.curr_blocks[i] = loop.curr_blocks[i] + (IF HasLeft(i) THEN 1 ELSE 0)
         /\ \A n \in DOMAIN loop'.addrs : \E i \in DOMAIN Visited :
              /\ HasLeft(i)
              /\ loop'.addrs[n] = [ch |-> Visited[i].ch, lun |-> Visited[i].lun,
                                   blk |-> loop.curr_blocks[i]]
         /\ \A i \in DOMAIN Visited : HasLeft(i) => \E n \in DOMAIN loop'.addrs :
              loop'.addrs[n] = [ch |-> Visited[i].ch, lun |-> Visited[i].lun,
                                blk |-> loop.curr_blocks[i]]
         /\ EachLunOnce => OneBlockPerLun(loop'.addrs)
<1> DEFINE S == {i \in DOMAIN Visited : HasLeft(i)}
           order == Sorted(S)
           addr(i) == [ch |-> Visited[i].ch, lun |-> Visited[i].lun,
                       blk |-> loop.curr_blocks[i]]
           addrs == [n \in DOMAIN order |-> addr(order[n])]
           curr == [i \in DOMAIN Visited |-> loop.curr_blocks[i] + IF HasLeft(i) THEN 1 ELSE 0]
<1>1. loop \in LoopRecords /\ Visited \in Seq(LunEnds) /\ DOMAIN loop.curr_blocks = DOMAIN Visited
  BY DEF ServerTypes, LoopRecords
<1>2. PICK N \in Nat : DOMAIN Visited = 1 .. N
  BY <1>1, LenProperties
<1>3. \A i \in 1 .. N : loop.curr_blocks[i] \in Nat /\ Visited[i] \in LunEnds
  BY <1>1, <1>2 DEF LoopRecords
<1>4. \A i \in DOMAIN Visited : Vblks!HasBlock(i) <=> HasLeft(i)
  BY DEF Vblks!HasBlock, HasLeft, Visited
<1>6. Vblks!Advanced = curr
  BY <1>4 DEF Vblks!Advanced, Vblks!LunIndexes, Visited
<1>7. \A i : Vblks!Addr(i) = addr(i)
  BY DEF Vblks!Addr, Visited
<1>5. Vblks!Contributing = order
  BY ContributingLuns
<1>9. /\ order \in Seq(S)
      /\ \A n \in 1 .. Len(order) : order[n] \in S
      /\ \A n, m \in 1 .. Len(order) : order[n] = order[m] => n = m
      /\ \A i \in S : \E n \in 1 .. Len(order) : order[n] = i
  BY ContributingLuns
<1>10. PICK M \in Nat : DOMAIN order = 1 .. M /\ Len(order) = M
  BY <1>9, LenProperties
<1>11. loop' = [loop EXCEPT !.addrs = addrs, !.curr_blocks = curr]
  <2>1. [n \in DOMAIN Vblks!Contributing |-> Vblks!Addr(Vblks!Contributing[n])] = addrs
    BY <1>5, <1>7
  <2> HIDE DEF addrs, curr
  <2> QED
    BY <1>6, <2>1 DEF Vblks!FormStripe
<1>12. \A i \in 1 .. N : addr(i) \in Addrs
  BY <1>3 DEF Addrs, LunEnds
<1>13. \A n \in 1 .. M : order[n] \in S /\ order[n] \in 1 .. N
  BY <1>2, <1>9, <1>10
<1> HIDE DEF order
<1>14. addrs \in [1 .. M -> Addrs]
  BY <1>10, <1>12, <1>13
<1>15. curr \in [1 .. N -> Nat]
  BY <1>2, <1>3
<1>16. /\ DOMAIN curr = DOMAIN Visited
       /\ \A i \in DOMAIN Visited :
            curr[i] = loop.curr_blocks[i] + (IF HasLeft(i) THEN 1 ELSE 0)
  OBVIOUS
<1>17. /\ DOMAIN addrs = 1 .. M /\ \A n \in 1 .. M : addrs[n] = addr(order[n])
  BY <1>10
<1> HIDE DEF addrs, curr, addr
<1>18. loop'.addrs = addrs /\ loop'.curr_blocks = curr
       /\ loop'.conn = loop.conn /\ loop'.vunit = loop.vunit /\ loop'.count = loop.count
  BY <1>1, <1>11 DEF LoopRecords
<1>19. loop' \in LoopRecords
  <2>1. addrs \in Seq(Addrs) /\ curr \in Seq(Nat)
    BY <1>14, <1>15
  <2> QED
    BY <1>1, <1>11, <2>1 DEF LoopRecords
<1>20. Visited' = Visited
  BY <1>18 DEF Visited
<1>21. \A n \in DOMAIN addrs : \E i \in DOMAIN Visited : HasLeft(i) /\ addrs[n] = addr(i)
  BY <1>13, <1>17
<1>22. \A i \in DOMAIN Visited : HasLeft(i) => \E n \in DOMAIN addrs : addrs[n] = addr(i)
  BY <1>9, <1>10, <1>17
<1>23. ASSUME EachLunOnce PROVE OneBlockPerLun(addrs)
  <2> SUFFICES ASSUME NEW n \in 1 .. M, NEW m \in 1 .. M,
                      addrs[n].ch = addrs[m].ch, addrs[n].lun = addrs[m].lun
               PROVE  n = m
    BY <1>17 DEF OneBlockPerLun
  <2>1. /\ addrs[n].ch = Visited[order[n]].ch /\ addrs[n].lun = Visited[order[n]].lun
        /\ addrs[m].ch = Visited[order[m]].ch /\ addrs[m].lun = Visited[order[m]].lun
    BY <1>17 DEF addr
  <2>2. order[n] \in DOMAIN Visited /\ order[m] \in DOMAIN Visited
    BY <1>13
  <2>3. order[n] = order[m]
    BY <1>23, <2>1, <2>2 DEF EachLunOnce
  <2> QED
    BY <1>9, <1>10, <2>3
<1>24. loop.conn # NoCaller /\ loop.addrs = << >>
  BY DEF Vblks!FormStripe, Vblks!Running
<1> QED
  BY <1>16, <1>18, <1>19, <1>20, <1>21, <1>22, <1>23, <1>24 DEF addr

(* The types hold when the server starts. *)
LEMMA TypesInit == ServerInit => ServerTypes
<1> SUFFICES ASSUME ServerInit PROVE ServerTypes
  OBVIOUS
<1>1. loop = Vblks!NoLoop /\ blks_array = [k \in Callers |-> << >>]
      /\ num_blks = [k \in Callers |-> 0] /\ crashed = FALSE
  BY DEF ServerInit, Vblks!Init
<1>2. loop \in LoopRecords /\ loop.vunit = << >> /\ loop.curr_blocks = << >>
  BY <1>1 DEF Vblks!NoLoop, LoopRecords
<1>3. Visited \in Seq(LunEnds) /\ DOMAIN loop.curr_blocks = DOMAIN Visited
  <2>1. << >> \in Seq(Vchannels) /\ Len(<< >>) = 0
    OBVIOUS
  <2>2. /\ StartsOf(<< >>) \in Seq(Seq(Nat)) /\ Len(StartsOf(<< >>)) = 0
        /\ Vblks!GenerateUnits(<< >>) \in Seq(Nat) /\ Vblks!LunsVisited(<< >>) \in Seq(LunEnds)
        /\ \E place : FlattenedAlike(StartsOf(<< >>), EndsOf(<< >>), 0,
                        Vblks!GenerateUnits(<< >>), Vblks!LunsVisited(<< >>), place)
    BY <2>1, WalksAgree
  <2>3. PICK place : FlattenedAlike(StartsOf(<< >>), EndsOf(<< >>), 0,
                        Vblks!GenerateUnits(<< >>), Vblks!LunsVisited(<< >>), place)
    BY <2>2
  <2>4. PICK n \in Nat, x \in Seq(Nat) : x = Vblks!GenerateUnits(<< >>) /\ n = Len(x)
    BY <2>2, LenProperties
  <2>5. n = 0
    <3> SUFFICES ASSUME n # 0 PROVE FALSE
      OBVIOUS
    <3>1. 1 \in 1 .. Len(x)
      BY <2>4
    <3>2. place[1] \in {p \in Places(StartsOf(<< >>)) : p[1] <= 0}
      BY <2>3, <2>4, <3>1 DEF FlattenedAlike
    <3>3. place[1] \in (1 .. Len(StartsOf(<< >>))) \X Nat
      BY <3>2 DEF Places
    <3>4. place[1] \in (1 .. 0) \X Nat
      BY <2>2, <3>3
    <3> QED
      BY <3>4
  <2>6. Len(Vblks!LunsVisited(<< >>)) = 0
    BY <2>3, <2>4, <2>5 DEF FlattenedAlike
  <2>7. Vblks!LunsVisited(<< >>) = << >>
    BY <2>2, <2>6, EmptySeq
  <2>8. Visited = << >> /\ << >> \in Seq(LunEnds)
    BY <1>2, <2>7 DEF Visited
  <2> QED
    BY <1>2, <2>8
<1>4. blks_array \in [Callers -> Seq(Seq(Addrs))] /\ num_blks \in [Callers -> Nat]
  BY <1>1
<1> QED
  BY <1>1, <1>2, <1>3, <1>4 DEF ServerInit, ServerTypes, LoopRecords

(* Only the registers of the callbacks and the data change. *)
LEMMA TypesOutside ==
  ASSUME ServerTypes, UNCHANGED blockVars,
         remote' \in [Callers -> BOOLEAN], holder' \in [Ids -> Callers \cup {NoOne}],
         locals' \subseteq Ids, open_vssd' \in Callers \cup {NoOne},
         contents' \in [Blocks -> Callers \cup {NoOne}]
  PROVE  ServerTypes'
<1>1. Visited' = Visited
  BY DEF Visited, blockVars
<1> QED
  BY <1>1 DEF ServerTypes, blockVars

(* Only the set-up moves on. *)
LEMMA TypesInside ==
  ASSUME ServerTypes, UNCHANGED <<remote, holder, locals>>,
         open_vssd' \in Callers \cup {NoOne}, contents' \in [Blocks -> Callers \cup {NoOne}],
         blks_array' \in [Callers -> Seq(Seq(Addrs))], num_blks' \in [Callers -> Nat],
         loop' \in LoopRecords, crashed' \in BOOLEAN,
         Visited' \in Seq(LunEnds), DOMAIN loop'.curr_blocks = DOMAIN Visited'
  PROVE  ServerTypes'
BY DEF ServerTypes, LoopRecords

(* What the self test or a client writes leaves the map of contents a map. *)
LEMMA OverwrittenType ==
  ASSUME ServerTypes, NEW c \in Callers, NEW addrs
  PROVE  Overwritten(addrs, c) \in [Blocks -> Callers \cup {NoOne}]
BY DEF ServerTypes, Overwritten

(* The tests of the stripe in hand, and the ends of the call. *)
LEMMA TypesSetUp ==
  ASSUME ServerTypes, Stripe \/ SelfTest \/ NullVblk
  PROVE  ServerTypes'
<1>1. /\ loop \in LoopRecords /\ blks_array \in [Callers -> Seq(Seq(Addrs))]
      /\ num_blks \in [Callers -> Nat] /\ crashed \in BOOLEAN
      /\ Visited \in Seq(LunEnds) /\ DOMAIN loop.curr_blocks = DOMAIN Visited
      /\ open_vssd \in Callers \cup {NoOne} /\ contents \in [Blocks -> Callers \cup {NoOne}]
  BY DEF ServerTypes, LoopRecords
<1>2. UNCHANGED <<remote, holder, locals, open_vssd>>
  BY DEF Stripe, SelfTest, NullVblk
<1>3. CASE Stripe /\ Vblks!FormStripe
  <2>1. UNCHANGED <<contents, blks_array, num_blks, crashed>>
    BY <1>3 DEF Stripe, Vblks!FormStripe
  <2>2. /\ loop' \in LoopRecords /\ Visited' = Visited
        /\ DOMAIN loop'.curr_blocks = DOMAIN Visited
    BY <1>3, StripeFormed
  <2> QED
    BY <1>1, <1>2, <2>1, <2>2, TypesInside
<1>4. ASSUME SelfTest \/ NullVblk \/ (Stripe /\ Vblks!Return)
      PROVE  /\ loop' \in LoopRecords /\ loop.conn \in Callers /\ Visited' = Visited
             /\ loop'.curr_blocks = loop.curr_blocks
  <2>1. /\ loop.conn # NoCaller
        /\ \/ loop' = loop
           \/ loop' = [loop EXCEPT !.addrs = << >>]
           \/ loop' = [loop EXCEPT !.addrs = << >>, !.count = @ + 1]
           \/ loop' = [loop EXCEPT !.conn = NoCaller]
    BY <1>4 DEF SelfTest, NullVblk, Stripe, Vblks!TestFails, Vblks!TestPasses,
       Vblks!AllocVblkFails, Vblks!Return, Vblks!Running
  <2>2. << >> \in Seq(Addrs)
    OBVIOUS
  <2>3. /\ loop' \in LoopRecords /\ loop.conn \in Callers /\ loop'.vunit = loop.vunit
        /\ loop'.curr_blocks = loop.curr_blocks
    <3>1. CASE loop' = loop
      BY <1>1, <2>1, <3>1 DEF LoopRecords
    <3>2. CASE loop' = [loop EXCEPT !.addrs = << >>]
      BY <1>1, <2>1, <2>2, <3>2 DEF LoopRecords
    <3>3. CASE loop' = [loop EXCEPT !.addrs = << >>, !.count = @ + 1]
      <4>1. loop' = [loop EXCEPT !.addrs = << >>, !.count = loop.count + 1]
        BY <1>1, <3>3 DEF LoopRecords
      <4>2. PICK m \in Nat : m = loop.count + 1
        BY <1>1 DEF LoopRecords
      <4>3. loop' = [loop EXCEPT !.addrs = << >>, !.count = m]
        BY <4>1, <4>2
      <4> QED
        BY <1>1, <2>1, <2>2, <4>3 DEF LoopRecords
    <3>4. CASE loop' = [loop EXCEPT !.conn = NoCaller]
      BY <1>1, <2>1, <3>4 DEF LoopRecords
    <3> QED
      BY <2>1, <3>1, <3>2, <3>3, <3>4
  <2> QED
    BY <2>3 DEF Visited
<1>5. CASE Stripe /\ Vblks!Return
  <2>1. /\ UNCHANGED <<contents, blks_array, crashed>>
        /\ num_blks' = [num_blks EXCEPT ![loop.conn] = loop.count]
    BY <1>5 DEF Stripe, Vblks!Return
  <2>2. num_blks' \in [Callers -> Nat]
    BY <1>1, <2>1 DEF LoopRecords
  <2> QED
    BY <1>1, <1>2, <1>4, <1>5, <2>1, <2>2, TypesInside
<1>6. CASE SelfTest
  <2>1. UNCHANGED <<num_blks, crashed>> /\ contents' = Overwritten(loop.addrs, loop.conn)
    BY <1>6 DEF SelfTest, Vblks!TestFails, Vblks!TestPasses
  <2>2. contents' \in [Blocks -> Callers \cup {NoOne}]
    BY <1>4, <1>6, <2>1, OverwrittenType
  <2>3. blks_array' \in [Callers -> Seq(Seq(Addrs))]
    <3>1. CASE blks_array' = blks_array
      BY <1>1, <3>1
    <3>2. CASE blks_array' = [blks_array EXCEPT ![loop.conn] = Append(@, loop.addrs)]
      <4>1. blks_array[loop.conn] \in Seq(Seq(Addrs)) /\ loop.addrs \in Seq(Addrs)
        BY <1>1, <1>4, <1>6 DEF LoopRecords
      <4>2. Append(blks_array[loop.conn], loop.addrs) \in Seq(Seq(Addrs))
        BY <4>1, AppendProperties
      <4> QED
        BY <1>1, <3>2, <4>2
    <3> QED
      BY <1>6, <3>1, <3>2 DEF SelfTest, Vblks!TestFails, Vblks!TestPasses, Vblks!Pushed
  <2> QED
    BY <1>1, <1>2, <1>4, <1>6, <2>1, <2>2, <2>3, TypesInside
<1>7. CASE NullVblk
  <2>1. UNCHANGED <<contents, blks_array, num_blks>> /\ crashed' = TRUE
    BY <1>7 DEF NullVblk, Vblks!AllocVblkFails
  <2> QED
    BY <1>1, <1>2, <1>4, <1>7, <2>1, TypesInside
<1> QED
  BY <1>3, <1>5, <1>6, <1>7 DEF Stripe

(* initialize_remote_vssd begins with the unit of the newest virtual OCSSD. *)
LEMMA SetUpBegun ==
  ASSUME IInv, ServerTypes, NEW c \in Callers, InitializeRemote(c)
  PROVE  /\ loop' \in LoopRecords /\ loop'.conn = c /\ loop'.addrs = << >>
         /\ loop'.curr_blocks = Vblks!GenerateUnits(UnitZero)
         /\ Visited' = Vblks!LunsVisited(UnitZero)
         /\ UNCHANGED <<vars, remote, holder, locals, contents, blks_array, num_blks, crashed>>
         /\ open_vssd = c /\ open_vssd' = NoOne
<1>1. /\ loop' = [Vblks!NoLoop EXCEPT !.conn = c, !.vunit = UnitZero,
                                      !.curr_blocks = Vblks!GenerateUnits(UnitZero)]
      /\ UNCHANGED <<vars, remote, holder, locals, contents, blks_array, num_blks, crashed>>
      /\ open_vssd = c /\ open_vssd' = NoOne
  BY DEF InitializeRemote, Vblks!Begin
<1>2. loop' = [conn |-> c, vunit |-> UnitZero, curr_blocks |-> Vblks!GenerateUnits(UnitZero),
               addrs |-> << >>, count |-> 0]
  BY <1>1 DEF Vblks!NoLoop
<1>3. UnitZero \in Seq(Vchannels) /\ Vblks!GenerateUnits(UnitZero) \in Seq(Nat)
  BY UnitZeroShape, WalksAgree
<1>4. /\ loop'.conn = c /\ loop'.vunit = UnitZero /\ loop'.addrs = << >>
      /\ loop'.curr_blocks = Vblks!GenerateUnits(UnitZero)
  BY <1>2
<1>5. << >> \in Seq(Addrs)
  OBVIOUS
<1>6. loop' \in LoopRecords
  BY <1>2, <1>3, <1>5 DEF LoopRecords
<1> QED
  BY <1>1, <1>4, <1>6 DEF Visited

(* Every step of the server keeps the types. *)
LEMMA TypesStep ==
  ASSUME IInv, ServerTypes, Turns, [ServerNext]_allVars
  PROVE  ServerTypes'
<1>0. /\ remote \in [Callers -> BOOLEAN] /\ holder \in [Ids -> Callers \cup {NoOne}]
      /\ locals \subseteq Ids /\ open_vssd \in Callers \cup {NoOne}
      /\ contents \in [Blocks -> Callers \cup {NoOne}]
  BY DEF ServerTypes
<1>1. CASE ServerStartup
  BY <1>0, <1>1, TypesOutside DEF ServerStartup, serverVars
<1>2. CASE Stripe \/ SelfTest \/ NullVblk
  BY <1>2, TypesSetUp
<1>3. ASSUME NEW c \in Callers, NEW r \in Requests, NEW rem \in BOOLEAN, ReceiveAlloc(c, r, rem)
      PROVE  ServerTypes'
  BY <1>0, <1>3, TypesOutside DEF ReceiveAlloc
<1>4. ASSUME NEW c \in Callers, AllocResource(c) PROVE ServerTypes'
  <2>1. UNCHANGED <<remote, blockVars, contents>>
    BY <1>4 DEF AllocResource
  <2>2. pc[c] = "finish" => vssd_id \in Ids
    BY BoundAssumption DEF Turns, AllocLabels, IInv, TypeOK, Ids
  <2>3. /\ holder' \in [Ids -> Callers \cup {NoOne}] /\ locals' \subseteq Ids
        /\ open_vssd' \in Callers \cup {NoOne}
    BY <1>0, <1>4, <2>2 DEF AllocResource
  <2> QED
    BY <1>0, <2>1, <2>3, TypesOutside
<1>5. ASSUME NEW c \in Callers, InitializeRemote(c) PROVE ServerTypes'
  <2>1. /\ Visited' \in Seq(LunEnds) /\ DOMAIN loop'.curr_blocks = DOMAIN Visited'
    BY <1>5, SetUpBegun, UnitVisited
  <2>2. /\ loop' \in LoopRecords /\ open_vssd' = NoOne
        /\ UNCHANGED <<remote, holder, locals, contents, blks_array, num_blks, crashed>>
    BY <1>5, SetUpBegun
  <2>3. /\ blks_array \in [Callers -> Seq(Seq(Addrs))] /\ num_blks \in [Callers -> Nat]
        /\ crashed \in BOOLEAN
    BY DEF ServerTypes
  <2> QED
    BY <1>0, <2>1, <2>2, <2>3, TypesInside
<1>6. ASSUME NEW c \in Callers, PublishResource(c) PROVE ServerTypes'
  BY <1>0, <1>6, TypesOutside DEF PublishResource, serverVars
<1>7. ASSUME NEW c \in Callers,
             \/ \E i \in DOMAIN blks_array[c] : RemoteAccess(c, i)
             \/ \E b \in LocalBlocks : LocalAccess(c, b)
      PROVE  ServerTypes'
  <2>1. UNCHANGED <<remote, holder, locals, open_vssd, blockVars>>
    BY <1>7 DEF RemoteAccess, LocalAccess
  <2>2. contents' \in [Blocks -> Callers \cup {NoOne}]
    BY <1>0, <1>7, OverwrittenType DEF RemoteAccess, LocalAccess
  <2> QED
    BY <1>0, <2>1, <2>2, TypesOutside
<1>8. CASE UNCHANGED allVars
  BY <1>0, <1>8, TypesOutside DEF allVars, serverVars
<1> QED
  BY <1>1, <1>2, <1>3, <1>4, <1>5, <1>6, <1>7, <1>8 DEF ServerNext, Callback

-----------------------------------------------------------------------------
(* Who owns what                                                           *)

(* The connection a virtual OCSSD was granted to keeps it. *)
LEMMA HolderStays ==
  ASSUME IInv, ServerTypes, Turns, [ServerNext]_allVars, NEW id \in Ids, holder[id] # NoOne
  PROVE  holder'[id] = holder[id]
<1>1. id < vssd_id /\ id \in Nat /\ vssd_id \in Nat
  BY BoundAssumption DEF Turns, Ids, IInv, TypeOK
<1>2. ASSUME NEW c \in Callers, AllocResource(c) PROVE holder'[id] = holder[id]
  <2>1. holder' = [holder EXCEPT ![vssd_id] = c] \/ holder' = holder
    BY <1>2 DEF AllocResource
  <2> QED
    BY <1>1, <2>1 DEF ServerTypes
<1>3. CASE ~\E c \in Callers : AllocResource(c)
  <2>1. holder' = holder
    BY <1>3 DEF ServerNext, Callback, allVars, serverVars, ServerStartup, Stripe, SelfTest,
       NullVblk, ReceiveAlloc, InitializeRemote, PublishResource, RemoteAccess, LocalAccess
  <2> QED
    BY <2>1
<1> QED
  BY <1>2, <1>3

(* A block stays with its connection. *)
LEMMA OwnedStays ==
  ASSUME IInv, ServerTypes, Turns, [ServerNext]_allVars,
         NEW b \in Blocks, NEW c \in Callers, OwnedBy(b, c)
  PROVE  OwnedBy(b, c)'
<1>1. PICK id \in Ids : id \in BlockOwners(b) /\ holder[id] = c
  BY DEF OwnedBy
<1>2. holder'[id] = c
  BY <1>1, HolderStays, OneDeviceAssumption
<1>3. id \in BlockOwners(b)'
  BY <1>1, ServerStepsManager, OwnersStay
<1> QED
  BY <1>1, <1>2, <1>3 DEF OwnedBy, BlockOwners

(* The newest virtual OCSSD is complete: it gets no block any more. *)
LEMMA NewestComplete ==
  ASSUME IInv, [Next]_vars, vssd_id' = vssd_id, NEW b \in Blocks
  PROVE  Newest' = Newest /\ (Newest \in BlockOwners(b)' <=> Newest \in BlockOwners(b))
<1>1. vssd_id \in Nat /\ Newest # vssd_id
  BY DEF IInv, TypeOK, Newest
<1> QED
  BY <1>1, OwnersStay DEF Newest

(* Steps that leave the arrays alone leave their virtual blocks alone. *)
LEMMA SameArrays ==
  ASSUME blks_array' = blks_array
  PROVE  /\ \A c, k : AddressSet(c, k)' = AddressSet(c, k)
         /\ \A b : Taken(b)' <=> Taken(b)
<1>1. \A c, k : AddressSet(c, k)' = AddressSet(c, k)
  BY DEF AddressSet, BlockAt
<1> QED
  BY <1>1 DEF Taken

(* The stripe that passed its test is one more virtual block. *)
LEMMA OneMoreVblk ==
  ASSUME ServerTypes, Vblks!TestPasses, NEW c, c = loop.conn
  PROVE  /\ c \in Callers
         /\ \A e \in Callers : \A k \in DOMAIN blks_array[e] :
              k \in DOMAIN blks_array'[e] /\ AddressSet(e, k)' = AddressSet(e, k)
         /\ \E n \in DOMAIN blks_array'[c] :
              /\ AddressSet(c, n)' = Pending
              /\ \A e \in Callers : \A k \in DOMAIN blks_array'[e] :
                   k \in DOMAIN blks_array[e] \/ (e = c /\ k = n)
         /\ \A b : Taken(b)' <=> Taken(b) \/ b \in Pending
<1>1. c \in Callers
  BY DEF ServerTypes, Vblks!TestPasses, Vblks!Running
<1>2. PICK s \in Seq(Seq(Addrs)) : s = blks_array[c]
  BY <1>1 DEF ServerTypes
<1>3. loop.addrs \in Seq(Addrs)
  BY DEF ServerTypes
<1>4. PICK n \in Nat : Len(s) = n /\ DOMAIN s = 1 .. n
  BY LenProperties
<1> DEFINE t == Append(s, loop.addrs)
<1>5. /\ DOMAIN t = 1 .. n + 1 /\ t[n + 1] = loop.addrs
      /\ \A k \in 1 .. n : t[k] = s[k]
  <2>1. /\ t \in Seq(Seq(Addrs)) /\ Len(t) = n + 1 /\ t[n + 1] = loop.addrs
        /\ \A k \in 1 .. n : t[k] = s[k]
    BY <1>3, <1>4, AppendProperties
  <2> QED
    BY <2>1, LenProperties
<1> HIDE DEF t
<1>6. /\ blks_array'[c] = t
      /\ \A e \in Callers : e # c => blks_array'[e] = blks_array[e]
  <2>1. blks_array' = [blks_array EXCEPT ![c] = t]
    BY <1>1, <1>2 DEF Vblks!TestPasses, Vblks!Pushed, t
  <2> QED
    BY <1>1, <2>1 DEF ServerTypes
<1>7. \A e, k : AddressSet(e, k)' = {BlockAt(a) : a \in ToSet(blks_array'[e][k])}
  BY DEF AddressSet, BlockAt
<1>8. ASSUME NEW e \in Callers, NEW k \in DOMAIN blks_array[e]
      PROVE  k \in DOMAIN blks_array'[e] /\ AddressSet(e, k)' = AddressSet(e, k)
  <2>1. CASE e = c
    <3>1. k \in 1 .. n /\ k \in 1 .. n + 1
      BY <1>2, <1>4, <2>1
    <3>2. blks_array'[e][k] = blks_array[e][k] /\ k \in DOMAIN blks_array'[e]
      BY <1>2, <1>5, <1>6, <2>1, <3>1
    <3> QED
      BY <1>7, <3>2 DEF AddressSet
  <2>2. CASE e # c
    BY <1>6, <1>7, <2>2 DEF AddressSet
  <2> QED
    BY <2>1, <2>2
<1>9. n + 1 \in DOMAIN blks_array'[c] /\ AddressSet(c, n + 1)' = Pending
  BY <1>5, <1>6, <1>7 DEF Pending
<1>10. ASSUME NEW e \in Callers, NEW k \in DOMAIN blks_array'[e]
       PROVE  k \in DOMAIN blks_array[e] \/ (e = c /\ k = n + 1)
  <2>1. CASE e = c
    <3>1. k \in 1 .. n + 1
      BY <1>5, <1>6, <2>1
    <3>2. k \in 1 .. n \/ k = n + 1
      BY <3>1
    <3> QED
      BY <1>2, <1>4, <2>1, <3>2
  <2>2. CASE e # c
    BY <1>6, <2>2
  <2> QED
    BY <2>1, <2>2
<1>11. \A b : Taken(b)' <=> \E e \in Callers : \E k \in DOMAIN blks_array'[e] : b \in AddressSet(e, k)'
  BY DEF Taken, AddressSet, BlockAt
<1>12. \A b : Taken(b)' <=> Taken(b) \/ b \in Pending
  <2>1. ASSUME NEW b, Taken(b)' PROVE Taken(b) \/ b \in Pending
    <3>1. PICK e \in Callers : \E k \in DOMAIN blks_array'[e] : b \in AddressSet(e, k)'
      BY <1>11, <2>1
    <3>2. PICK k \in DOMAIN blks_array'[e] : b \in AddressSet(e, k)'
      BY <3>1
    <3> QED
      BY <1>8, <1>9, <1>10, <3>2 DEF Taken
  <2>2. ASSUME NEW b, Taken(b) PROVE Taken(b)'
    BY <1>8, <1>11, <2>2 DEF Taken
  <2>3. ASSUME NEW b \in Pending PROVE Taken(b)'
    BY <1>1, <1>9, <1>11
  <2> QED
    BY <2>1, <2>2, <2>3
<1> QED
  BY <1>1, <1>8, <1>9, <1>10, <1>12

Owned == ArraysOwned /\ VblocksApart /\ DataOwned /\ GrantFresh /\ LoopFresh

(* Before the first request nobody has a virtual block. *)
LEMMA OwnedInit == ServerInit => Owned
<1> SUFFICES ASSUME ServerInit PROVE Owned
  OBVIOUS
<1>1. /\ blks_array = [k \in Callers |-> << >>] /\ loop.conn = NoCaller
      /\ open_vssd = NoOne /\ contents = [b \in Blocks |-> NoOne]
  BY DEF ServerInit, Vblks!Init, Vblks!NoLoop
<1>2. \A c \in Callers : DOMAIN blks_array[c] = {}
  BY <1>1
<1> QED
  BY <1>1, <1>2 DEF Owned, ArraysOwned, VblocksApart, DataOwned, GrantFresh, LoopFresh

(* A step that makes no virtual block. *)
LEMMA ArraysKept ==
  ASSUME IInv, ServerTypes, Turns, Owned, [ServerNext]_allVars, blks_array' = blks_array
  PROVE  ArraysOwned' /\ VblocksApart'
<1>1. /\ \A c, k : AddressSet(c, k)' = AddressSet(c, k)
  BY SameArrays
<1>2. ArraysOwned'
  <2> SUFFICES ASSUME NEW c \in Callers, NEW k \in DOMAIN blks_array'[c],
                      NEW b \in AddressSet(c, k)'
               PROVE  b \in Blocks /\ OwnedBy(b, c)'
    BY DEF ArraysOwned, AddressSet, BlockAt, OwnedBy, BlockOwners
  <2>1. b \in AddressSet(c, k) /\ k \in DOMAIN blks_array[c]
    BY <1>1
  <2>2. b \in Blocks /\ OwnedBy(b, c)
    BY <2>1 DEF Owned, ArraysOwned
  <2> QED
    BY <2>2, OwnedStays
<1>3. VblocksApart'
  BY <1>1 DEF Owned, VblocksApart
<1> QED
  BY <1>2, <1>3

(* A step that leaves the data alone. *)
LEMMA DataKept ==
  ASSUME IInv, ServerTypes, Turns, Owned, [ServerNext]_allVars, contents' = contents
  PROVE  DataOwned'
<1> SUFFICES ASSUME NEW b \in Blocks, contents'[b] # NoOne PROVE OwnedBy(b, contents[b])'
  BY DEF DataOwned
<1>1. contents[b] \in Callers
  BY DEF ServerTypes
<1>2. PICK c \in Callers : c = contents[b]
  BY <1>1
<1>3. OwnedBy(b, c)
  BY <1>2 DEF Owned, DataOwned
<1>4. OwnedBy(b, c)'
  BY <1>3, OwnedStays
<1> QED
  BY <1>2, <1>4 DEF OwnedBy

(* Erasing or filling blocks of the connection. *)
LEMMA DataOverwritten ==
  ASSUME IInv, ServerTypes, Turns, Owned, [ServerNext]_allVars, NEW c \in Callers,
         NEW S, \A b \in S : b \in Blocks /\ OwnedBy(b, c),
         contents' = [b \in Blocks |-> IF b \in S THEN c ELSE contents[b]]
  PROVE  DataOwned'
<1> SUFFICES ASSUME NEW b \in Blocks, contents'[b] # NoOne PROVE OwnedBy(b, contents[b])'
  BY DEF DataOwned
<1>1. PICK e \in Callers : e = contents'[b] /\ OwnedBy(b, e)
  <2>1. CASE b \in S
    BY <2>1
  <2>2. CASE b \notin S
    <3>1. contents'[b] = contents[b] /\ contents[b] \in Callers
      BY <2>2 DEF ServerTypes
    <3> QED
      BY <3>1 DEF Owned, DataOwned
  <2> QED
    BY <2>1, <2>2
<1>2. OwnedBy(b, e)'
  BY <1>1, OwnedStays
<1> QED
  BY <1>1, <1>2 DEF OwnedBy

(* A step that neither begins nor ends anything. *)
LEMMA FreshStays ==
  ASSUME IInv, ServerTypes, Owned, [Next]_vars,
         UNCHANGED <<vssd_id, open_vssd, blks_array, loop>>
  PROVE  GrantFresh' /\ LoopFresh'
<1>1. \A b : Taken(b)' <=> Taken(b)
  BY SameArrays
<1>2. /\ \A b \in Blocks : Newest' \in BlockOwners(b)' <=> Newest \in BlockOwners(b)
  BY NewestComplete
<1>3. GrantFresh'
  <2> SUFFICES ASSUME open_vssd' # NoOne, NEW b \in Blocks, (Newest \in BlockOwners(b))'
               PROVE  ~Taken(b)'
    BY DEF GrantFresh
  <2> QED
    BY <1>1, <1>2 DEF Owned, GrantFresh
<1>4. Visited' = Visited /\ Pending' = Pending /\ \A i, n : BlockOf(i, n)' = BlockOf(i, n)
  BY DEF Visited, Pending, BlockAt, BlockOf
<1>5. \A b : Unstriped(b) => Unstriped(b)'
  BY <1>1, <1>2 DEF Unstriped
<1>6. LoopFresh'
  <2> SUFFICES ASSUME loop.conn # NoCaller PROVE LoopFresh'
    BY DEF LoopFresh
  <2>1. \A i, j \in DOMAIN Visited' :
          Visited'[i].ch = Visited'[j].ch /\ Visited'[i].lun = Visited'[j].lun => i = j
    BY <1>4 DEF Owned, LoopFresh
  <2>2. ASSUME NEW i \in DOMAIN Visited', NEW n \in Nat,
               loop'.curr_blocks[i] <= n, n < Visited'[i].block_end
        PROVE  Unstriped(BlockOf(i, n))' /\ BlockOf(i, n)' \notin Pending'
    <3>1. Unstriped(BlockOf(i, n)) /\ BlockOf(i, n) \notin Pending
      BY <1>4, <2>2 DEF Owned, LoopFresh
    <3>2. PICK b : b = BlockOf(i, n) /\ b = BlockOf(i, n)'
      BY <1>4
    <3>3. Unstriped(b)'
      BY <1>5, <3>1, <3>2
    <3> QED
      BY <1>4, <3>1, <3>2, <3>3 DEF Unstriped
  <2>3. \A b \in Pending' : Unstriped(b)'
    BY <1>4, <1>5 DEF Owned, LoopFresh
  <2> QED
    BY <2>1, <2>2, <2>3 DEF LoopFresh
<1> QED
  BY <1>3, <1>6

(* alloc_ocssd_resource: when it returns, the blocks of the new virtual    *)
(* OCSSD are in no virtual block, for those are of earlier ones.           *)
LEMMA OwnedAllocResource ==
  ASSUME IInv, ServerTypes, Turns, Owned, [ServerNext]_allVars, NEW c \in Callers, AllocResource(c)
  PROVE  Owned'
<1>1. UNCHANGED <<blks_array, loop, contents>> /\ Ctl /\ Alloc(c)
  BY DEF AllocResource, blockVars, IInv, Ctl
<1>2. open_vssd = NoOne /\ loop.conn = NoCaller
  BY <1>1, AllocMoves, NotSettingUp
<1>3. ArraysOwned' /\ VblocksApart' /\ DataOwned'
  BY <1>1, ArraysKept, DataKept
<1>4. LoopFresh'
  BY <1>1, <1>2 DEF LoopFresh
<1>5. GrantFresh'
  <2> SUFFICES ASSUME open_vssd' # NoOne, NEW b \in Blocks, (Newest \in BlockOwners(b))', Taken(b)'
               PROVE  FALSE
    BY DEF GrantFresh
  <2>1. pc[c] = "finish"
    BY <1>2 DEF AllocResource
  <2>2. vssd_id' = vssd_id + 1 /\ vssd_id \in Nat
    BY <1>1, <2>1, AllocMoves DEF IInv, TypeOK
  <2>3. Newest' = vssd_id
    BY <2>2 DEF Newest
  <2>4. vssd_id' # vssd_id
    BY <2>2
  <2>5. vssd_id \in BlockOwners(b)
    BY <2>3, <2>4, ServerStepsManager, OwnersStay
  <2>6. Taken(b)
    BY <1>1, SameArrays
  <2>7. PICK e \in Callers : OwnedBy(b, e)
    BY <2>6 DEF Taken, Owned, ArraysOwned
  <2>8. PICK id \in Ids : id \in BlockOwners(b) /\ holder[id] = e
    BY <2>7 DEF OwnedBy
  <2>9. id < vssd_id
    BY <2>8, OneDeviceAssumption DEF Turns
  <2>10. id = vssd_id
    BY <2>5, <2>8, OneOwner
  <2> QED
    BY <2>2, <2>9, <2>10
<1> QED
  BY <1>3, <1>4, <1>5 DEF Owned

(* initialize_vssd_blocks begins with all the blocks of the virtual OCSSD  *)
(* before it.                                                              *)
LEMMA OwnedInitializeRemote ==
  ASSUME IInv, ServerTypes, Turns, Owned, [ServerNext]_allVars, NEW c \in Callers, InitializeRemote(c)
  PROVE  Owned'
<1>1. /\ loop'.curr_blocks = Vblks!GenerateUnits(UnitZero) /\ loop'.addrs = << >>
      /\ Visited' = Vblks!LunsVisited(UnitZero)
      /\ UNCHANGED <<vars, holder, contents, blks_array>>
      /\ open_vssd = c /\ open_vssd' = NoOne
  BY SetUpBegun
<1>2. ArraysOwned' /\ VblocksApart' /\ DataOwned'
  BY <1>1, ArraysKept, DataKept
<1>3. GrantFresh'
  BY <1>1 DEF GrantFresh
<1>4. UNCHANGED vssd_id /\ c # NoOne
  BY <1>1, OneDeviceAssumption DEF vars
<1>5. ASSUME NEW b \in Blocks, Newest \in BlockOwners(b) PROVE Unstriped(b)'
  <2>1. ~Taken(b)
    BY <1>1, <1>4, <1>5 DEF Owned, GrantFresh
  <2>2. (Newest \in BlockOwners(b))'
    BY <1>4, <1>5, ServerStepsManager, NewestComplete
  <2> QED
    BY <1>1, <2>1, <2>2, SameArrays DEF Unstriped
<1>6. Pending' = {}
  BY <1>1 DEF Pending, ToSet
<1>7. PICK vis, cur : vis = Visited' /\ cur = loop'.curr_blocks
  OBVIOUS
<1>8. /\ \A i, j \in DOMAIN vis : vis[i].ch = vis[j].ch /\ vis[i].lun = vis[j].lun => i = j
      /\ \A i \in DOMAIN vis : \A n \in Nat : cur[i] <= n /\ n < vis[i].block_end =>
           /\ <<Dev, vis[i].ch, vis[i].lun, n>> \in Blocks
           /\ Newest \in BlockOwners(<<Dev, vis[i].ch, vis[i].lun, n>>)
  BY <1>1, <1>7, UnitVisited
<1>9. ASSUME NEW i \in DOMAIN Visited', NEW n \in Nat,
             loop'.curr_blocks[i] <= n, n < Visited'[i].block_end
      PROVE  Unstriped(BlockOf(i, n))' /\ BlockOf(i, n)' \notin Pending'
  <2>1. PICK b : b = <<Dev, vis[i].ch, vis[i].lun, n>>
    OBVIOUS
  <2>2. b \in Blocks /\ Newest \in BlockOwners(b)
    BY <1>7, <1>8, <1>9, <2>1
  <2>3. b = BlockOf(i, n)'
    BY <1>7, <2>1 DEF BlockOf
  <2>4. Unstriped(b)'
    BY <1>5, <2>2
  <2> QED
    BY <1>6, <2>3, <2>4 DEF Unstriped
<1>10. LoopFresh'
  BY <1>6, <1>7, <1>8, <1>9 DEF LoopFresh
<1> QED
  BY <1>2, <1>3, <1>10 DEF Owned

(* During the set-up the manager and the ids do not move. *)
LEMMA SetUpSteps ==
  ASSUME IInv, ServerTypes, Turns, Stripe \/ SelfTest \/ NullVblk
  PROVE  /\ UNCHANGED <<vars, vssd_id, holder, open_vssd>>
         /\ loop.conn # NoCaller /\ open_vssd = NoOne
         /\ \A b : BlockOwners(b)' = BlockOwners(b) /\ Newest' = Newest
<1>1. UNCHANGED <<vars, holder, open_vssd>> /\ loop.conn # NoCaller
  BY DEF Stripe, SelfTest, NullVblk, Vblks!FormStripe, Vblks!Return, Vblks!TestFails,
     Vblks!TestPasses, Vblks!AllocVblkFails, Vblks!Running
<1>2. UNCHANGED <<vssd_id, vluns, alloc_units, vchannels>>
  BY <1>1 DEF vars, virtVars
<1>3. Granted' = Granted
  BY <1>2 DEF Granted
<1>4. \A b : BlockOwners(b)' = BlockOwners(b)
  BY <1>2, <1>3 DEF BlockOwners, Owners, OnLun, Holds
<1> QED
  BY <1>1, <1>2, <1>4 DEF Newest, Turns

(* A stripe is cut from the blocks that are left. *)
LEMMA OwnedFormStripe ==
  ASSUME IInv, ServerTypes, Turns, Owned, [ServerNext]_allVars, Stripe, Vblks!FormStripe
  PROVE  Owned'
<1>1. /\ \A b : BlockOwners(b)' = BlockOwners(b) /\ Newest' = Newest
      /\ UNCHANGED open_vssd /\ open_vssd = NoOne /\ loop.conn # NoCaller
  BY SetUpSteps
<1>2. UNCHANGED <<blks_array, contents>>
  BY DEF Stripe, Vblks!FormStripe
<1>3. ArraysOwned' /\ VblocksApart' /\ DataOwned' /\ GrantFresh'
  BY <1>1, <1>2, ArraysKept, DataKept DEF GrantFresh
<1>4. \A b : Unstriped(b)' <=> Unstriped(b)
  BY <1>1, <1>2, SameArrays DEF Unstriped
<1>5. /\ Visited' = Visited
      /\ \A i \in DOMAIN Visited :
           loop'.curr_blocks[i] = loop.curr_blocks[i] + (IF HasLeft(i) THEN 1 ELSE 0)
      /\ \A n \in DOMAIN loop'.addrs : \E i \in DOMAIN Visited :
           /\ HasLeft(i)
           /\ loop'.addrs[n] = [ch |-> Visited[i].ch, lun |-> Visited[i].lun,
                                blk |-> loop.curr_blocks[i]]
  BY StripeFormed
<1>6. \A i \in DOMAIN Visited : loop.curr_blocks[i] \in Nat /\ Visited[i].block_end \in Nat
  <2>1. DOMAIN Visited = DOMAIN loop.curr_blocks /\ loop.curr_blocks \in Seq(Nat)
        /\ Visited \in Seq(LunEnds)
    BY DEF ServerTypes
  <2> SUFFICES ASSUME NEW i \in DOMAIN Visited
               PROVE  loop.curr_blocks[i] \in Nat /\ Visited[i].block_end \in Nat
    OBVIOUS
  <2>2. loop.curr_blocks[i] \in Nat
    BY <2>1
  <2>3. Visited[i] \in LunEnds
    BY <2>1
  <2> QED
    BY <2>2, <2>3 DEF LunEnds
<1>7. /\ \A i, j \in DOMAIN Visited :
           Visited[i].ch = Visited[j].ch /\ Visited[i].lun = Visited[j].lun => i = j
      /\ \A i \in DOMAIN Visited : \A n \in Nat :
           loop.curr_blocks[i] <= n /\ n < Visited[i].block_end => Unstriped(BlockOf(i, n))
  BY <1>1 DEF Owned, LoopFresh
<1>8. \A b \in Pending' : \E i \in DOMAIN Visited :
        HasLeft(i) /\ b = BlockOf(i, loop.curr_blocks[i])
  <2> SUFFICES ASSUME NEW b \in Pending'
               PROVE  \E i \in DOMAIN Visited : HasLeft(i) /\ b = BlockOf(i, loop.curr_blocks[i])
    OBVIOUS
  <2>1. PICK n \in DOMAIN loop'.addrs : b = BlockAt(loop'.addrs[n])
    BY DEF Pending, ToSet, BlockAt
  <2>2. PICK i \in DOMAIN Visited :
          /\ HasLeft(i)
          /\ loop'.addrs[n] = [ch |-> Visited[i].ch, lun |-> Visited[i].lun,
                               blk |-> loop.curr_blocks[i]]
    BY <1>5
  <2> QED
    BY <2>1, <2>2 DEF BlockAt, BlockOf
<1>9. \A b \in Pending' : Unstriped(b)'
  <2> SUFFICES ASSUME NEW b \in Pending' PROVE Unstriped(b)
    BY <1>4
  <2>1. PICK i \in DOMAIN Visited : HasLeft(i) /\ b = BlockOf(i, loop.curr_blocks[i])
    BY <1>8
  <2> QED
    BY <1>6, <1>7, <2>1 DEF HasLeft
<1>10. \A i, n : BlockOf(i, n)' = BlockOf(i, n)
  BY <1>5 DEF BlockOf
<1>11. ASSUME NEW i \in DOMAIN Visited, NEW n \in Nat,
              loop'.curr_blocks[i] <= n, n < Visited[i].block_end
       PROVE  Unstriped(BlockOf(i, n)) /\ BlockOf(i, n) \notin Pending'
  <2>1. PICK m \in Nat, e \in Nat : m = loop.curr_blocks[i] /\ e = Visited[i].block_end
    BY <1>6
  <2>2. /\ m <= n
        /\ HasLeft(i) => m + 1 <= n
    BY <1>5, <1>11, <2>1
  <2>3. Unstriped(BlockOf(i, n))
    BY <1>7, <1>11, <2>1, <2>2
  <2>4. ASSUME BlockOf(i, n) \in Pending' PROVE FALSE
    <3>1. PICK j \in DOMAIN Visited : HasLeft(j) /\ BlockOf(i, n) = BlockOf(j, loop.curr_blocks[j])
      BY <1>8, <2>4
    <3>2. /\ Visited[i].ch = Visited[j].ch /\ Visited[i].lun = Visited[j].lun
          /\ n = loop.curr_blocks[j]
      BY <3>1 DEF BlockOf
    <3>3. i = j
      BY <1>7, <3>2
    <3> QED
      BY <2>1, <2>2, <3>1, <3>2, <3>3
  <2> QED
    BY <2>3, <2>4
<1>12. ASSUME NEW i \in DOMAIN Visited', NEW n \in Nat,
              loop'.curr_blocks[i] <= n, n < Visited'[i].block_end
       PROVE  Unstriped(BlockOf(i, n))' /\ BlockOf(i, n)' \notin Pending'
  <2>1. PICK b : b = BlockOf(i, n) /\ b = BlockOf(i, n)'
    BY <1>10
  <2>2. Unstriped(b)' /\ b \notin Pending'
    BY <1>4, <1>5, <1>11, <1>12, <2>1
  <2> QED
    BY <2>1, <2>2 DEF Unstriped
<1>13. LoopFresh'
  BY <1>5, <1>7, <1>9, <1>12 DEF LoopFresh
<1> QED
  BY <1>3, <1>13 DEF Owned

(* nvm_vblk_test erases and fills the stripe in hand, which is the         *)
(* connection's and in no virtual block; when it passes, the stripe        *)
(* becomes one.                                                            *)
LEMMA OwnedSelfTest ==
  ASSUME IInv, ServerTypes, Turns, Owned, [ServerNext]_allVars, SelfTest
  PROVE  Owned'
<1>1. /\ \A b : BlockOwners(b)' = BlockOwners(b) /\ Newest' = Newest
      /\ UNCHANGED <<vssd_id, holder, open_vssd>> /\ open_vssd = NoOne /\ loop.conn # NoCaller
  BY SetUpSteps
<1>2. PICK c \in Callers : c = loop.conn
  BY <1>1 DEF ServerTypes
<1>3. Newest \in Ids /\ holder[Newest] = c
  BY <1>1, <1>2 DEF Turns
<1>4. \A b \in Pending : Unstriped(b) /\ b \in Blocks /\ OwnedBy(b, c) /\ OwnedBy(b, c)'
  <2> SUFFICES ASSUME NEW b \in Pending
               PROVE  Unstriped(b) /\ b \in Blocks /\ OwnedBy(b, c) /\ OwnedBy(b, c)'
    OBVIOUS
  <2>1. Unstriped(b)
    BY <1>1 DEF Owned, LoopFresh
  <2>2. b \in Blocks /\ OwnedBy(b, c)
    BY <1>3, <2>1 DEF Unstriped, OwnedBy
  <2> QED
    BY <2>1, <2>2, OwnedStays
<1>5. contents' = [b \in Blocks |-> IF b \in Pending THEN c ELSE contents[b]]
  BY <1>2 DEF SelfTest, Overwritten, Pending
<1>6. DataOwned'
  BY <1>4, <1>5, DataOverwritten
<1>7. GrantFresh'
  BY <1>1 DEF GrantFresh
<1>8. /\ loop'.addrs = << >> /\ loop'.vunit = loop.vunit /\ loop'.curr_blocks = loop.curr_blocks
  BY DEF SelfTest, Vblks!TestFails, Vblks!TestPasses, ServerTypes
<1>9. /\ Pending' = {} /\ Visited' = Visited /\ \A i, n : BlockOf(i, n)' = BlockOf(i, n)
  BY <1>8 DEF Pending, ToSet, Visited, BlockOf
<1>10. ArraysOwned' /\ VblocksApart' /\ \A b : Taken(b)' => Taken(b) \/ b \in Pending
  <2>1. CASE Vblks!TestFails
    <3>1. blks_array' = blks_array
      BY <2>1 DEF Vblks!TestFails
    <3> QED
      BY <3>1, ArraysKept, SameArrays
  <2>2. CASE Vblks!TestPasses
    <3>1. /\ \A e \in Callers : \A k \in DOMAIN blks_array[e] :
               k \in DOMAIN blks_array'[e] /\ AddressSet(e, k)' = AddressSet(e, k)
          /\ \A b : Taken(b)' <=> Taken(b) \/ b \in Pending
      BY <1>2, <2>2, OneMoreVblk
    <3>2. PICK n \in DOMAIN blks_array'[c] :
              /\ AddressSet(c, n)' = Pending
              /\ \A e \in Callers : \A k \in DOMAIN blks_array'[e] :
                   k \in DOMAIN blks_array[e] \/ (e = c /\ k = n)
      BY <1>2, <2>2, OneMoreVblk
    <3>3. ArraysOwned'
      <4> SUFFICES ASSUME NEW e \in Callers, NEW k \in DOMAIN blks_array'[e],
                          NEW b \in AddressSet(e, k)'
                   PROVE  b \in Blocks /\ OwnedBy(b, e)'
        BY DEF ArraysOwned, AddressSet, BlockAt, OwnedBy, BlockOwners
      <4>1. CASE k \in DOMAIN blks_array[e]
        <5>1. b \in Blocks /\ OwnedBy(b, e)
          BY <3>1, <4>1 DEF Owned, ArraysOwned
        <5> QED
          BY <5>1, OwnedStays
      <4>2. CASE e = c /\ k = n
        BY <1>4, <3>2, <4>2
      <4> QED
        BY <3>2, <4>1, <4>2
    <3>4. ASSUME NEW e \in Callers, NEW k \in DOMAIN blks_array[e]
          PROVE  AddressSet(e, k) \cap Pending = {}
      BY <1>4 DEF Unstriped, Taken
    <3>5. VblocksApart'
      <4> SUFFICES ASSUME NEW e \in Callers, NEW f \in Callers,
                          NEW i \in DOMAIN blks_array'[e], NEW j \in DOMAIN blks_array'[f],
                          e # f \/ i # j
                   PROVE  AddressSet(e, i)' \cap AddressSet(f, j)' = {}
        BY DEF VblocksApart
      <4>1. CASE i \in DOMAIN blks_array[e] /\ j \in DOMAIN blks_array[f]
        BY <3>1, <4>1 DEF Owned, VblocksApart
      <4>2. CASE i \in DOMAIN blks_array[e] /\ (f = c /\ j = n)
        BY <3>1, <3>2, <3>4, <4>2
      <4>3. CASE (e = c /\ i = n) /\ j \in DOMAIN blks_array[f]
        BY <3>1, <3>2, <3>4, <4>3
      <4> QED
        BY <3>2, <4>1, <4>2, <4>3
    <3> QED
      BY <3>1, <3>3, <3>5
  <2> QED
    BY <2>1, <2>2 DEF SelfTest
<1>11. \A b : Unstriped(b) /\ b \notin Pending => Unstriped(b)'
  BY <1>1, <1>10 DEF Unstriped
<1>12. ASSUME NEW i \in DOMAIN Visited', NEW n \in Nat,
              loop'.curr_blocks[i] <= n, n < Visited'[i].block_end
       PROVE  Unstriped(BlockOf(i, n))' /\ BlockOf(i, n)' \notin Pending'
  <2>1. PICK b : b = BlockOf(i, n) /\ b = BlockOf(i, n)'
    BY <1>9
  <2>2. Unstriped(b) /\ b \notin Pending
    BY <1>1, <1>8, <1>9, <1>12, <2>1 DEF Owned, LoopFresh
  <2>3. Unstriped(b)'
    BY <1>11, <2>2
  <2> QED
    BY <1>9, <2>1, <2>3 DEF Unstriped
<1>13. \A i, j \in DOMAIN Visited' :
         Visited'[i].ch = Visited'[j].ch /\ Visited'[i].lun = Visited'[j].lun => i = j
  BY <1>1, <1>9 DEF Owned, LoopFresh
<1>14. LoopFresh'
  BY <1>9, <1>12, <1>13 DEF LoopFresh
<1> QED
  BY <1>6, <1>7, <1>10, <1>14 DEF Owned

(* Read, write and erase requests and local clients use blocks of their    *)
(* own.                                                                    *)
LEMMA OwnedAccess ==
  ASSUME IInv, ServerTypes, Turns, Owned, [ServerNext]_allVars, NEW c \in Callers,
         \/ \E i \in DOMAIN blks_array[c] : RemoteAccess(c, i)
         \/ \E b \in LocalBlocks : LocalAccess(c, b)
  PROVE  Owned'
<1>1. UNCHANGED <<vssd_id, open_vssd, blks_array, loop>>
  BY DEF RemoteAccess, LocalAccess, vars, blockVars
<1>2. ArraysOwned' /\ VblocksApart' /\ GrantFresh' /\ LoopFresh'
  BY <1>1, ArraysKept, ServerStepsManager, FreshStays
<1>3. ASSUME NEW i \in DOMAIN blks_array[c], RemoteAccess(c, i) PROVE DataOwned'
  <2>1. contents' = [b \in Blocks |-> IF b \in AddressSet(c, i) THEN c ELSE contents[b]]
    BY <1>3 DEF RemoteAccess, Overwritten, AddressSet
  <2>2. \A b \in AddressSet(c, i) : b \in Blocks /\ OwnedBy(b, c)
    BY DEF Owned, ArraysOwned
  <2> QED
    BY <2>1, <2>2, DataOverwritten
<1>4. ASSUME NEW b \in LocalBlocks, LocalAccess(c, b) PROVE DataOwned'
  <2>1. b \in Blocks
    BY LocalAssumption
  <2>2. contents' = [e \in Blocks |-> IF e \in {b} THEN c ELSE contents[e]]
    BY <1>4 DEF LocalAccess, ServerTypes
  <2>3. PICK id \in locals : id \in Owners(b[1], b[2], b[3], b[4]) /\ holder[id] = c
    BY <1>4 DEF LocalAccess
  <2>4. OwnedBy(b, c)
    BY <2>3 DEF OwnedBy, BlockOwners, ServerTypes
  <2>5. \A e \in {b} : e \in Blocks /\ OwnedBy(e, c)
    BY <2>1, <2>4
  <2>6. PICK S : S = {b}
    OBVIOUS
  <2>7. /\ \A e \in S : e \in Blocks /\ OwnedBy(e, c)
        /\ contents' = [e \in Blocks |-> IF e \in S THEN c ELSE contents[e]]
    BY <2>2, <2>5, <2>6
  <2> QED
    BY <2>7, DataOverwritten
<1> QED
  BY <1>2, <1>3, <1>4 DEF Owned

(* Every step keeps to what is the connection's. *)
LEMMA OwnedStep ==
  ASSUME IInv, ServerTypes, Turns, Owned, [ServerNext]_allVars
  PROVE  Owned'
<1>1. ASSUME UNCHANGED <<vssd_id, open_vssd, blks_array, loop, contents>> PROVE Owned'
  BY <1>1, ArraysKept, DataKept, ServerStepsManager, FreshStays DEF Owned
<1>2. CASE ServerStartup
  BY <1>1, <1>2 DEF ServerStartup, Startup, ProbeDevice, StartServing, serverVars, blockVars
<1>3. CASE Stripe
  <2>1. CASE Vblks!FormStripe
    BY <1>3, <2>1, OwnedFormStripe
  <2>2. CASE Vblks!Return
    <3>1. UNCHANGED <<blks_array, contents>> /\ loop'.conn = NoCaller
      BY <1>3, <2>2 DEF Stripe, Vblks!Return, ServerTypes
    <3>2. open_vssd' = NoOne
      BY <1>3, SetUpSteps
    <3>3. GrantFresh' /\ LoopFresh'
      BY <3>1, <3>2 DEF GrantFresh, LoopFresh
    <3> QED
      BY <3>1, <3>3, ArraysKept, DataKept DEF Owned
  <2> QED
    BY <1>3, <2>1, <2>2 DEF Stripe
<1>4. CASE SelfTest
  BY <1>4, OwnedSelfTest
<1>5. CASE NullVblk
  BY <1>1, <1>5 DEF NullVblk, Vblks!AllocVblkFails, vars
<1>6. ASSUME NEW c \in Callers, NEW r \in Requests, NEW rem \in BOOLEAN, ReceiveAlloc(c, r, rem)
      PROVE  Owned'
  BY <1>1, <1>6 DEF ReceiveAlloc, CallManager, blockVars
<1>7. ASSUME NEW c \in Callers, PublishResource(c) PROVE Owned'
  BY <1>1, <1>7 DEF PublishResource, Publish, GetStats, InsertEntity, serverVars, blockVars
<1>8. ASSUME NEW c \in Callers, Callback(c) PROVE Owned'
  BY <1>7, <1>8, OwnedAllocResource, OwnedInitializeRemote DEF Callback
<1>9. ASSUME NEW c \in Callers,
             \/ \E i \in DOMAIN blks_array[c] : RemoteAccess(c, i)
             \/ \E b \in LocalBlocks : LocalAccess(c, b)
      PROVE  Owned'
  BY <1>9, OwnedAccess
<1>10. CASE UNCHANGED allVars
  BY <1>1, <1>10 DEF allVars, vars, serverVars, blockVars
<1> QED
  BY <1>2, <1>3, <1>4, <1>5, <1>6, <1>8, <1>9, <1>10 DEF ServerNext

-----------------------------------------------------------------------------
(* The stripes and the grant                                               *)

StripeRecords == [addrs : Seq(Addrs), kept : BOOLEAN]

InStripe(b) ==
  \E k \in DOMAIN stripes : \E n \in DOMAIN stripes[k].addrs : b = BlockAt(stripes[k].addrs[n])

(* The block belongs to the newest virtual OCSSD. *)
GrantBlock(b) == b \in Blocks /\ Newest \in BlockOwners(b)

(* The loop has still to come to it. *)
ToCome(b) ==
  \E i \in DOMAIN Visited : \E n \in Nat :
    loop.curr_blocks[i] <= n /\ n < Visited[i].block_end /\ b = BlockOf(i, n)

(* The newest virtual OCSSD is one that has been set up for remote use. *)
SetUpDone ==
  loop.conn = NoCaller /\ open_vssd = NoOne /\ Newest \in Ids \ locals /\ holder[Newest] # NoOne

(* Every block of the newest virtual OCSSD is in a stripe, in the stripe   *)
(* in hand or still to come; when nothing is left, the stripes are the     *)
(* grant.                                                                  *)
StripesCover ==
  /\ stripes \in Seq(StripeRecords)
  /\ \A k \in DOMAIN stripes : OneBlockPerLun(stripes[k].addrs)
  /\ OneBlockPerLun(loop.addrs)
  /\ loop.conn # NoCaller =>
       /\ \A b : InStripe(b) => GrantBlock(b)
       /\ \A b : GrantBlock(b) => InStripe(b) \/ b \in Pending \/ ToCome(b)
  /\ SetUpDone => \A b : InStripe(b) <=> GrantBlock(b)

(* The blocks of the stripes, as GrantStriped counts them. *)
LEMMA StripedBlocks ==
  ASSUME NEW b
  PROVE  b \in {BlockAt(a) : a \in Vblks!Addresses(Vblks!StripeAddrs)} <=> InStripe(b)
<1>1. \A a : a \in Vblks!Addresses(Vblks!StripeAddrs) <=>
        \E k \in DOMAIN stripes : \E n \in DOMAIN stripes[k].addrs : a = stripes[k].addrs[n]
  BY DEF Vblks!Addresses, Vblks!StripeAddrs, Vblks!ToSet
<1> QED
  BY <1>1 DEF InStripe

(* Nothing is striped at first. *)
LEMMA CoverInit == ServerInit => StripesCover
<1> SUFFICES ASSUME ServerInit PROVE StripesCover
  OBVIOUS
<1>1. /\ stripes = << >> /\ loop.addrs = << >> /\ loop.conn = NoCaller
      /\ \A id \in Ids : holder[id] = NoOne
  BY DEF ServerInit, Vblks!Init, Vblks!NoLoop
<1>2. << >> \in Seq(StripeRecords) /\ DOMAIN << >> = {}
  OBVIOUS
<1>3. OneBlockPerLun(<< >>)
  BY DEF OneBlockPerLun
<1> QED
  BY <1>1, <1>2, <1>3 DEF StripesCover, SetUpDone

(* A step that neither begins nor ends a grant, nor strikes a stripe. *)
LEMMA CoverKept ==
  ASSUME IInv, StripesCover, [Next]_vars,
         UNCHANGED <<vssd_id, open_vssd, holder, locals, loop, stripes>>
  PROVE  StripesCover'
<1>1. \A b : GrantBlock(b)' <=> GrantBlock(b)
  BY NewestComplete DEF GrantBlock
<1>2. \A b : InStripe(b)' <=> InStripe(b)
  BY DEF InStripe, BlockAt
<1>3. Pending' = Pending /\ \A b : ToCome(b)' <=> ToCome(b)
  BY DEF Pending, BlockAt, ToCome, Visited, BlockOf
<1>4. SetUpDone' <=> SetUpDone
  BY DEF SetUpDone, Newest
<1> QED
  BY <1>1, <1>2, <1>3, <1>4 DEF StripesCover, OneBlockPerLun

(* alloc_ocssd_resource returns with nothing, with a virtual OCSSD for     *)
(* local use, or with one that is due to be set up.                        *)
LEMMA CoverAllocResource ==
  ASSUME IInv, ServerTypes, Turns, StripesCover, [Next]_vars, NEW c \in Callers, AllocResource(c)
  PROVE  StripesCover'
<1>1. UNCHANGED <<loop, stripes>> /\ Ctl /\ Alloc(c)
  BY DEF AllocResource, blockVars, IInv, Ctl
<1>2. /\ open_vssd = NoOne /\ loop.conn = NoCaller
      /\ pc[c] \in AllocLabels \cup {"lock_manager"}
  BY <1>1, AllocMoves, NotSettingUp
<1>3. CASE pc[c] # "finish"
  <2>1. UNCHANGED <<vssd_id, open_vssd, holder, locals>>
    BY <1>1, <1>3, AllocMoves DEF AllocResource
  <2> QED
    BY <1>1, <2>1, CoverKept
<1>4. CASE pc[c] = "finish"
  <2>1. vssd_id' = vssd_id + 1 /\ vssd_id \in Nat /\ vssd_id < MaxAllocs
    BY <1>1, <1>2, <1>4, AllocMoves DEF IInv, TypeOK, Turns
  <2>2. Newest' = vssd_id /\ vssd_id \in Ids
    BY <2>1, BoundAssumption DEF Newest, Ids
  <2>3. ~SetUpDone'
    <3>1. CASE frame.total > 0 /\ remote[c]
      BY <1>4, <3>1, OneDeviceAssumption DEF AllocResource, SetUpDone
    <3>2. CASE frame.total > 0 /\ ~remote[c]
      BY <1>4, <2>2, <3>2 DEF AllocResource, SetUpDone
    <3>3. CASE ~(frame.total > 0)
      <4>1. holder' = holder
        BY <1>4, <3>3 DEF AllocResource
      <4>2. holder[vssd_id] = NoOne
        BY <2>1, <2>2 DEF Turns
      <4> QED
        BY <2>2, <4>1, <4>2 DEF SetUpDone
    <3> QED
      BY <3>1, <3>2, <3>3
  <2> QED
    BY <1>1, <1>2, <2>3 DEF StripesCover, OneBlockPerLun
<1> QED
  BY <1>3, <1>4

(* initialize_vssd_blocks begins with all the blocks still to come. *)
LEMMA CoverInitializeRemote ==
  ASSUME IInv, OneRangePerLun, ServerTypes, StripesCover, [Next]_vars,
         NEW c \in Callers, InitializeRemote(c)
  PROVE  StripesCover'
<1>1. /\ loop'.conn = c /\ loop'.addrs = << >>
      /\ loop'.curr_blocks = Vblks!GenerateUnits(UnitZero)
      /\ Visited' = Vblks!LunsVisited(UnitZero)
      /\ UNCHANGED vssd_id /\ c # NoCaller
  BY SetUpBegun, CallerAssumption DEF vars
<1>2. stripes' = << >> /\ << >> \in Seq(StripeRecords) /\ DOMAIN << >> = {}
  BY DEF InitializeRemote, Vblks!Begin
<1>3. \A b : ~InStripe(b)'
  BY <1>2 DEF InStripe
<1>4. OneBlockPerLun(<< >>)
  BY DEF OneBlockPerLun
<1>5. ASSUME NEW b, GrantBlock(b)' PROVE ToCome(b)'
  <2>1. b \in Blocks /\ Newest \in BlockOwners(b)
    BY <1>1, <1>5, NewestComplete DEF GrantBlock
  <2>2. PICK vis, cur : vis = Visited' /\ cur = loop'.curr_blocks
    OBVIOUS
  <2>3. \E i \in DOMAIN vis : \E n \in Nat :
          cur[i] <= n /\ n < vis[i].block_end /\ b = <<Dev, vis[i].ch, vis[i].lun, n>>
    BY <1>1, <2>1, <2>2, UnitCovers
  <2> QED
    BY <2>2, <2>3 DEF ToCome, BlockOf
<1> QED
  BY <1>1, <1>2, <1>3, <1>4, <1>5 DEF StripesCover, SetUpDone, OneBlockPerLun

(* A pass over the LUNs takes the first block to come of each. *)
LEMMA CoverFormStripe ==
  ASSUME IInv, ServerTypes, Turns, LoopFresh, StripesCover, Stripe, Vblks!FormStripe
  PROVE  StripesCover'
<1>1. /\ \A b : BlockOwners(b)' = BlockOwners(b) /\ Newest' = Newest
      /\ loop.conn # NoCaller
  BY SetUpSteps
<1>2. EachLunOnce /\ stripes' = stripes
  BY <1>1 DEF LoopFresh, EachLunOnce, Vblks!FormStripe
<1>3. /\ loop.addrs = << >> /\ loop'.conn = loop.conn /\ Visited' = Visited
      /\ OneBlockPerLun(loop'.addrs)
      /\ \A i \in DOMAIN Visited :
           loop'.curr_blocks[i] = loop.curr_blocks[i] + (IF HasLeft(i) THEN 1 ELSE 0)
      /\ \A i \in DOMAIN Visited : HasLeft(i) => \E n \in DOMAIN loop'.addrs :
           loop'.addrs[n] = [ch |-> Visited[i].ch, lun |-> Visited[i].lun,
                             blk |-> loop.curr_blocks[i]]
  BY <1>2, StripeFormed
<1>4. \A b : GrantBlock(b)' <=> GrantBlock(b)
  BY <1>1 DEF GrantBlock
<1>5. \A b : InStripe(b)' <=> InStripe(b)
  BY <1>2 DEF InStripe, BlockAt
<1>6. Pending = {}
  BY <1>3 DEF Pending, ToSet
<1>7. ASSUME NEW b, ToCome(b) PROVE b \in Pending' \/ ToCome(b)'
  <2>1. PICK i \in DOMAIN Visited : \E n \in Nat :
          loop.curr_blocks[i] <= n /\ n < Visited[i].block_end /\ b = BlockOf(i, n)
    BY <1>7 DEF ToCome
  <2>2. PICK n \in Nat : loop.curr_blocks[i] <= n /\ n < Visited[i].block_end /\ b = BlockOf(i, n)
    BY <2>1
  <2>3. PICK m \in Nat, e \in Nat : m = loop.curr_blocks[i] /\ e = Visited[i].block_end
    <3>1. loop.curr_blocks[i] \in Nat /\ Visited[i] \in LunEnds
      BY SMTT(30) DEF ServerTypes
    <3> QED
      BY <3>1 DEF LunEnds
  <2>4. m <= n /\ n < e /\ m < e
    BY <2>2, <2>3
  <2>5. HasLeft(i)
    BY <2>3, <2>4 DEF HasLeft
  <2>6. CASE n = m
    <3>1. PICK k \in DOMAIN loop'.addrs :
            loop'.addrs[k] = [ch |-> Visited[i].ch, lun |-> Visited[i].lun,
                              blk |-> loop.curr_blocks[i]]
      BY <1>3, <2>5
    <3>2. BlockAt(loop'.addrs[k]) = b
      BY <2>2, <2>3, <2>6, <3>1 DEF BlockAt, BlockOf
    <3> QED
      BY <3>2 DEF Pending, ToSet, BlockAt
  <2>7. CASE n # m
    <3>1. loop'.curr_blocks[i] = m + 1 /\ m + 1 <= n
      BY <1>3, <2>3, <2>4, <2>5, <2>7
    <3>2. i \in DOMAIN Visited' /\ n < Visited'[i].block_end /\ b = BlockOf(i, n)'
      BY <1>3, <2>2 DEF BlockOf
    <3> QED
      BY <3>1, <3>2 DEF ToCome, BlockOf
  <2> QED
    BY <2>6, <2>7
<1>8. \A b : GrantBlock(b)' => InStripe(b)' \/ b \in Pending' \/ ToCome(b)'
  BY <1>1, <1>4, <1>5, <1>6, <1>7 DEF StripesCover
<1>9. \A b : InStripe(b)' => GrantBlock(b)'
  BY <1>1, <1>4, <1>5 DEF StripesCover
<1>10. stripes' \in Seq(StripeRecords) /\ \A k \in DOMAIN stripes' : OneBlockPerLun(stripes'[k].addrs)
  BY <1>2 DEF StripesCover
<1> QED
  BY <1>1, <1>3, <1>8, <1>9, <1>10 DEF StripesCover, SetUpDone, OneBlockPerLun

(* The stripe tested, whether it passed or not, is one more stripe. *)
LEMMA CoverSelfTest ==
  ASSUME IInv, ServerTypes, Turns, LoopFresh, StripesCover, SelfTest
  PROVE  StripesCover'
<1>1. /\ \A b : BlockOwners(b)' = BlockOwners(b) /\ Newest' = Newest
      /\ loop.conn # NoCaller
  BY SetUpSteps
<1>2. PICK kept \in BOOLEAN : stripes' = Append(stripes, [addrs |-> loop.addrs, kept |-> kept])
  BY DEF SelfTest, Vblks!TestFails, Vblks!TestPasses, Vblks!Record
<1>3. /\ loop'.addrs = << >> /\ loop'.vunit = loop.vunit
      /\ loop'.curr_blocks = loop.curr_blocks /\ loop'.conn = loop.conn
  BY DEF SelfTest, Vblks!TestFails, Vblks!TestPasses, ServerTypes
<1>4. PICK r : r = [addrs |-> loop.addrs, kept |-> kept]
  OBVIOUS
<1>5. r \in StripeRecords /\ r.addrs = loop.addrs
  BY <1>4 DEF StripeRecords, ServerTypes
<1>6. PICK N \in Nat : N = Len(stripes) /\ DOMAIN stripes = 1 .. N
  BY LenProperties DEF StripesCover
<1>7. /\ stripes' \in Seq(StripeRecords) /\ DOMAIN stripes' = 1 .. N + 1
      /\ stripes'[N + 1] = r /\ \A k \in 1 .. N : stripes'[k] = stripes[k]
  <2>1. stripes' = Append(stripes, r) /\ stripes \in Seq(StripeRecords)
    BY <1>2, <1>4 DEF StripesCover
  <2> QED
    BY <1>5, <1>6, <2>1, AppendProperties, LenProperties
<1>8. \A k \in 1 .. N + 1 : k \in 1 .. N \/ k = N + 1
  BY <1>6
<1>9. \A k \in DOMAIN stripes' : OneBlockPerLun(stripes'[k].addrs)
  BY <1>5, <1>6, <1>7, <1>8 DEF StripesCover
<1>10. \A b : InStripe(b)' <=> InStripe(b) \/ b \in Pending
  <2>1. \A b : InStripe(b)' <=> \E k \in 1 .. N + 1 :
          \E n \in DOMAIN stripes'[k].addrs : b = BlockAt(stripes'[k].addrs[n])
    BY <1>7 DEF InStripe, BlockAt
  <2>2. \A b : InStripe(b) <=> \E k \in 1 .. N :
          \E n \in DOMAIN stripes[k].addrs : b = BlockAt(stripes[k].addrs[n])
    BY <1>6 DEF InStripe
  <2>3. \A b : b \in Pending <=> \E n \in DOMAIN r.addrs : b = BlockAt(r.addrs[n])
    BY <1>5 DEF Pending, ToSet
  <2>4. \A k \in 1 .. N : k \in 1 .. N + 1
    BY <1>6
  <2>5. N + 1 \in 1 .. N + 1
    BY <1>6
  <2> QED
    BY <1>7, <1>8, <2>1, <2>2, <2>3, <2>4, <2>5
<1>11. \A b : GrantBlock(b)' <=> GrantBlock(b)
  BY <1>1 DEF GrantBlock
<1>12. \A b : ToCome(b)' <=> ToCome(b)
  BY <1>3 DEF ToCome, Visited, BlockOf
<1>13. \A b \in Pending : GrantBlock(b)
  BY <1>1 DEF LoopFresh, Unstriped, GrantBlock
<1>14. \A b : InStripe(b)' => GrantBlock(b)'
  BY <1>1, <1>10, <1>11, <1>13 DEF StripesCover
<1>15. \A b : GrantBlock(b)' => InStripe(b)' \/ ToCome(b)'
  BY <1>1, <1>10, <1>11, <1>12 DEF StripesCover
<1>16. OneBlockPerLun(<< >>)
  BY DEF OneBlockPerLun
<1> QED
  BY <1>1, <1>3, <1>7, <1>9, <1>14, <1>15, <1>16 DEF StripesCover, SetUpDone, OneBlockPerLun

(* The call returns when no LUN has a block left. *)
LEMMA CoverReturn ==
  ASSUME IInv, ServerTypes, Turns, StripesCover, Stripe, Vblks!Return
  PROVE  StripesCover'
<1>1. /\ \A b : BlockOwners(b)' = BlockOwners(b) /\ Newest' = Newest
      /\ loop.conn # NoCaller
  BY SetUpSteps
<1>2. /\ stripes' = stripes /\ loop.addrs = << >> /\ Vblks!Contributing = << >>
      /\ loop'.addrs = loop.addrs /\ loop'.conn = NoCaller
  BY DEF Vblks!Return, ServerTypes
<1>3. Pending = {}
  BY <1>2 DEF Pending, ToSet
<1>4. \A i \in DOMAIN Visited : ~HasLeft(i)
  <2>1. PICK S : S = {i \in DOMAIN Visited : HasLeft(i)}
    OBVIOUS
  <2>2. /\ Sorted(S) = << >>
        /\ \A i \in S : \E n \in 1 .. Len(Sorted(S)) : Sorted(S)[n] = i
    BY <1>2, <2>1, ContributingLuns
  <2>3. \A n : n \notin 1 .. Len(<< >>)
    OBVIOUS
  <2>4. S = {}
    BY <2>2, <2>3
  <2> QED
    BY <2>1, <2>4
<1>5. \A b : ~ToCome(b)
  <2> SUFFICES ASSUME NEW b, NEW i \in DOMAIN Visited, NEW n \in Nat,
                      loop.curr_blocks[i] <= n, n < Visited[i].block_end
               PROVE  FALSE
    BY DEF ToCome
  <2>1. loop.curr_blocks[i] \in Nat /\ Visited[i] \in LunEnds
    BY SMTT(30) DEF ServerTypes
  <2>2. Visited[i].block_end \in Nat
    BY <2>1 DEF LunEnds
  <2>3. loop.curr_blocks[i] < Visited[i].block_end
    BY <2>1, <2>2
  <2> QED
    BY <1>4, <2>3 DEF HasLeft
<1>6. \A b : InStripe(b) <=> GrantBlock(b)
  BY <1>1, <1>3, <1>5 DEF StripesCover
<1>7. \A b : InStripe(b)' <=> GrantBlock(b)'
  BY <1>1, <1>2, <1>6 DEF InStripe, BlockAt, GrantBlock
<1> QED
  BY <1>2, <1>7 DEF StripesCover, OneBlockPerLun

(* Every step of the server keeps the cover. *)
LEMMA CoverStep ==
  ASSUME IInv, OneRangePerLun, ServerInv, StripesCover, [ServerNext]_allVars
  PROVE  StripesCover'
<1>0. [Next]_vars /\ ServerTypes /\ Turns /\ LoopFresh
  BY ServerStepsManager DEF ServerInv
<1>1. ASSUME UNCHANGED <<vssd_id, open_vssd, holder, locals, loop, stripes>> PROVE StripesCover'
  BY <1>0, <1>1, CoverKept
<1>2. CASE ServerStartup
  BY <1>1, <1>2 DEF ServerStartup, Startup, ProbeDevice, StartServing, serverVars, blockVars
<1>3. CASE Stripe
  BY <1>0, <1>3, CoverFormStripe, CoverReturn DEF Stripe
<1>4. CASE SelfTest
  BY <1>0, <1>4, CoverSelfTest
<1>5. CASE NullVblk
  BY <1>1, <1>5 DEF NullVblk, Vblks!AllocVblkFails, vars
<1>6. ASSUME NEW c \in Callers, NEW r \in Requests, NEW rem \in BOOLEAN, ReceiveAlloc(c, r, rem)
      PROVE  StripesCover'
  BY <1>1, <1>6 DEF ReceiveAlloc, CallManager, blockVars
<1>7. ASSUME NEW c \in Callers, PublishResource(c) PROVE StripesCover'
  BY <1>1, <1>7 DEF PublishResource, Publish, GetStats, InsertEntity, serverVars, blockVars
<1>8. ASSUME NEW c \in Callers, Callback(c) PROVE StripesCover'
  BY <1>0, <1>7, <1>8, CoverAllocResource, CoverInitializeRemote DEF Callback
<1>9. ASSUME NEW c \in Callers,
             \/ \E i \in DOMAIN blks_array[c] : RemoteAccess(c, i)
             \/ \E b \in LocalBlocks : LocalAccess(c, b)
      PROVE  StripesCover'
  BY <1>1, <1>9 DEF RemoteAccess, LocalAccess, vars, blockVars
<1>10. CASE UNCHANGED allVars
  BY <1>1, <1>10 DEF allVars, vars, serverVars, blockVars
<1> QED
  BY <1>2, <1>3, <1>4, <1>5, <1>6, <1>8, <1>9, <1>10 DEF ServerNext

-----------------------------------------------------------------------------
(* The indexes of a client                                                 *)

(* What a stripe adds to the blocks kept. *)
KeptOf(r) == IF r.kept THEN <<r.addrs>> ELSE << >>

(* Each record adds its own part behind the others. *)
LEMMA KeptAppend ==
  ASSUME stripes \in Seq(StripeRecords), NEW r \in StripeRecords, stripes' = Append(stripes, r)
  PROVE  Kept \in Seq(Seq(Addrs)) /\ Kept' = Kept \o KeptOf(r)
<1> DEFINE parts(x) == [k \in DOMAIN x |-> KeptOf(x[k])]
<1>1. ASSUME NEW x \in Seq(StripeRecords)
      PROVE  /\ parts(x) \in Seq(Seq(Seq(Addrs))) /\ Len(parts(x)) = Len(x)
             /\ \A k \in 1 .. Len(x) : parts(x)[k] = KeptOf(x[k])
  <2>1. PICK N \in Nat : N = Len(x) /\ DOMAIN x = 1 .. N
    BY LenProperties
  <2>2. \A k \in 1 .. N : KeptOf(x[k]) \in Seq(Seq(Addrs))
    <3>1. SUFFICES ASSUME NEW k \in 1 .. N PROVE KeptOf(x[k]) \in Seq(Seq(Addrs))
      OBVIOUS
    <3>a. x[k] \in StripeRecords
      BY <2>1, LenProperties
    <3>2. x[k].addrs \in Seq(Addrs)
      BY <3>a DEF StripeRecords
    <3> QED
      BY <3>2 DEF KeptOf
  <2>3. parts(x) = [k \in 1 .. N |-> KeptOf(x[k])]
    BY <2>1
  <2> QED
    BY <2>1, <2>2, <2>3
<1>2. Kept = FlattenSeq(parts(stripes)) /\ Kept' = FlattenSeq(parts(stripes'))
  BY Zenon DEF Kept, KeptOf
<1>3. PICK N \in Nat : N = Len(stripes) /\ Len(stripes') = N + 1 /\ stripes' \in Seq(StripeRecords)
        /\ stripes'[N + 1] = r /\ \A k \in 1 .. N : stripes'[k] = stripes[k]
  <2>1. PICK N \in Nat : N = Len(stripes)
    BY LenProperties
  <2>2. /\ Len(stripes') = N + 1 /\ stripes' \in Seq(StripeRecords)
        /\ stripes'[N + 1] = r /\ \A k \in 1 .. N : stripes'[k] = stripes[k]
    BY <2>1, AppendProperties
  <2> QED
    BY <2>1, <2>2
<1> HIDE DEF parts
<1>4. PICK ss \in Seq(Seq(Seq(Addrs))) : /\ ss = parts(stripes) /\ Len(ss) = N
                                         /\ \A k \in 1 .. N : ss[k] = KeptOf(stripes[k])
  BY <1>1, <1>3
<1>5. PICK rr \in Seq(Seq(Seq(Addrs))) : /\ rr = parts(stripes') /\ Len(rr) = N + 1
                                         /\ \A k \in 1 .. N + 1 : rr[k] = KeptOf(stripes'[k])
  BY <1>1, <1>3, ZenonT(30)
<1>6. rr[N + 1] = KeptOf(r) /\ \A k \in 1 .. N : rr[k] = ss[k]
  <2>1. N + 1 \in 1 .. N + 1 /\ \A k \in 1 .. N : k \in 1 .. N + 1
    OBVIOUS
  <2> QED
    BY <1>3, <1>4, <1>5, <2>1, Zenon
<1>7. KeptOf(r) \in Seq(Seq(Addrs))
  BY DEF KeptOf, StripeRecords
<1>8. FlattenSeq(rr) = FlattenSeq(ss) \o KeptOf(r)
  BY <1>4, <1>5, <1>6, <1>7, FlattenAppend, ZenonT(60)
<1>9. FlattenSeq(ss) \in Seq(Seq(Addrs))
  BY FlattenType
<1> QED
  BY <1>2, <1>4, <1>5, <1>8, <1>9, Zenon

(* The self test of a stripe. *)
LEMMA KeptSelfTest ==
  ASSUME ServerTypes, stripes \in Seq(StripeRecords), KeptInOrder, SelfTest
  PROVE  KeptInOrder'
<1>1. /\ loop.conn \in Callers /\ loop.conn # NoCaller
      /\ loop.addrs \in Seq(Addrs) /\ blks_array \in [Callers -> Seq(Seq(Addrs))]
      /\ loop.count \in Nat
  BY DEF SelfTest, Vblks!TestFails, Vblks!TestPasses, Vblks!Running, ServerTypes, LoopRecords
<1>2. PICK c \in Callers, t \in Seq(Seq(Addrs)), a \in Seq(Addrs), n \in Nat :
        c = loop.conn /\ t = blks_array[c] /\ a = loop.addrs /\ n = loop.count
  BY <1>1
<1>3. n = Len(Kept) /\ IsSuffix(Kept, t)
  BY <1>1, <1>2 DEF KeptInOrder
<1>4. CASE Vblks!TestFails
  <2>1. PICK r \in StripeRecords : r = [addrs |-> a, kept |-> FALSE]
    BY DEF StripeRecords
  <2>2. stripes' = Append(stripes, r)
    BY <1>2, <1>4, <2>1 DEF Vblks!TestFails, Vblks!Record
  <2>3. PICK s \in Seq(Seq(Addrs)) : s = Kept /\ Kept' = s \o KeptOf(r)
    BY <2>2, KeptAppend
  <2>4. s \o << >> = s /\ KeptOf(r) = << >>
    BY <2>1 DEF KeptOf
  <2>5. Kept' = Kept
    BY <2>3, <2>4
  <2>6. loop'.conn = c /\ loop'.count = n /\ blks_array' = blks_array
    BY <1>2, <1>4 DEF Vblks!TestFails, ServerTypes, LoopRecords
  <2> QED
    BY <1>2, <1>3, <2>5, <2>6, Zenon DEF KeptInOrder
<1>5. CASE Vblks!TestPasses
  <2>1. PICK r \in StripeRecords : r = [addrs |-> a, kept |-> TRUE]
    BY DEF StripeRecords
  <2>2. stripes' = Append(stripes, r)
    BY <1>2, <1>5, <2>1 DEF Vblks!TestPasses, Vblks!Record
  <2>3. PICK s \in Seq(Seq(Addrs)) : s = Kept /\ Kept' = s \o KeptOf(r)
    BY <2>2, KeptAppend
  <2>4. s \o <<a>> = Append(s, a) /\ KeptOf(r) = <<a>> /\ Len(Append(s, a)) = Len(s) + 1
    BY <2>1, AppendProperties DEF KeptOf
  <2>5. IsSuffix(Append(s, a), Append(t, a))
    BY <1>3, <2>3, SuffixAppend
  <2>6. loop'.conn = c /\ loop'.count = n + 1
    BY <1>2, <1>5 DEF Vblks!TestPasses, ServerTypes, LoopRecords
  <2>7. blks_array'[c] = Append(t, a)
    BY <1>1, <1>2, <1>5 DEF Vblks!TestPasses, Vblks!Pushed
  <2>8. Kept' = Append(s, a) /\ Len(Kept') = n + 1
    BY <1>3, <2>3, <2>4, Zenon
  <2> QED
    BY <2>5, <2>6, <2>7, <2>8, Zenon DEF KeptInOrder
<1> QED
  BY <1>4, <1>5 DEF SelfTest

(* initialize_vssd_blocks begins with nothing kept. *)
LEMMA KeptBegin ==
  ASSUME ServerTypes, NEW c \in Callers, InitializeRemote(c)
  PROVE  KeptInOrder'
<1>1. /\ stripes' = << >> /\ loop'.conn = c /\ loop'.count = 0 /\ blks_array' = blks_array
      /\ blks_array[c] \in Seq(Seq(Addrs))
  BY DEF InitializeRemote, Vblks!Begin, Vblks!NoLoop, ServerTypes
<1> DEFINE ss == [k \in DOMAIN stripes' |-> KeptOf(stripes'[k])]
<1>2. Kept' = FlattenSeq(ss)
  BY Zenon DEF Kept, KeptOf
<1>3. ss = << >> /\ Len(<< >>) = 0
  BY <1>1
<1> HIDE DEF ss
<1>4. Kept' = << >>
  BY <1>2, <1>3, FlattenEmpty
<1>5. IsSuffix(<< >>, blks_array[c])
  BY <1>1, SuffixEmpty
<1> QED
  BY <1>1, <1>3, <1>4, <1>5, Zenon DEF KeptInOrder

(* Every step keeps the order. *)
LEMMA KeptStep ==
  ASSUME ServerTypes, stripes \in Seq(StripeRecords), KeptInOrder, [ServerNext]_allVars
  PROVE  KeptInOrder'
<1>1. CASE SelfTest
  BY <1>1, KeptSelfTest
<1>2. CASE \E c \in Callers : InitializeRemote(c)
  BY <1>2, KeptBegin
<1>3. CASE Stripe
  <2>1. /\ stripes' = stripes /\ blks_array' = blks_array
        /\ loop'.conn = NoCaller \/ (loop'.conn = loop.conn /\ loop'.count = loop.count)
    BY <1>3 DEF Stripe, Vblks!FormStripe, Vblks!Return, ServerTypes, LoopRecords
  <2>2. Kept' = Kept
    BY <2>1 DEF Kept
  <2> QED
    BY <2>1, <2>2, Zenon DEF KeptInOrder
<1>4. CASE ~SelfTest /\ ~Stripe /\ ~\E c \in Callers : InitializeRemote(c)
  <2>1. UNCHANGED <<stripes, loop, blks_array>>
    BY <1>4 DEF ServerNext, Callback, allVars, serverVars, blockVars, ServerStartup,
       NullVblk, ReceiveAlloc, AllocResource, PublishResource, RemoteAccess, LocalAccess,
       Vblks!AllocVblkFails
  <2> QED
    BY <2>1 DEF KeptInOrder, Kept
<1> QED
  BY <1>1, <1>2, <1>3, <1>4

-----------------------------------------------------------------------------
(* Theorems                                                                *)

(* The server keeps ServerInv, together with what is invariant in the      *)
(* manager.                                                                *)
LEMMA ServerInvariant == ServerSpec => []ServerInv
<1>1. ServerInit => ServerInv
  BY TypesInit, TurnsInit, OwnedInit DEF ServerInv, Owned
<1>2. IInv /\ ServerInv /\ [ServerNext]_allVars => ServerInv'
  BY TypesStep, TurnsStep, OwnedStep DEF ServerInv, Owned
<1>3. ServerSpec => []IInv
  BY ServerRunsManager, InductiveInvariant, PTL
<1> QED
  BY <1>1, <1>2, <1>3, PTL DEF ServerSpec

(* Types: in particular generate_units and the loop of                     *)
(* initialize_vssd_blocks, which decide by different tests whether a       *)
(* channel is shared, visit the same number of LUNs, so that curr_blocks   *)
(* is never indexed out of range.                                          *)
THEOREM ServerTypeCorrect == ServerSpec => []ServerTypeOK
<1>1. TypeOK /\ ServerInv => ServerTypeOK
  <2> SUFFICES ASSUME TypeOK, ServerTypes PROVE ServerTypeOK
    BY DEF ServerInv
  <2>1. DOMAIN loop.curr_blocks = Vblks!LunIndexes
    BY DEF ServerTypes, Visited, Vblks!LunIndexes
  <2>2. Vblks!TypeOK
    BY <2>1 DEF ServerTypes, Vblks!TypeOK
  <2> QED
    BY <2>2 DEF ServerTypes, ServerTypeOK
<1>2. ServerSpec => []TypeOK
  BY ServerRunsManager, TypeCorrect, PTL
<1> QED
  BY <1>1, <1>2, ServerInvariant, PTL

(* Data is safe, whatever the device, the connections and their requests:  *)
(* what nvm_vblk_test, process_write_request, process_erase_request or a   *)
(* local client erases or writes belongs to a virtual OCSSD granted to     *)
(* that connection.                                                        *)
THEOREM ServerDataSafe == ServerSpec => []DataSafe
<1>1. ServerInv => DataSafe
  <2> SUFFICES ASSUME DataOwned PROVE DataSafe
    BY DEF ServerInv
  <2> QED
    BY DEF DataOwned, OwnedBy, BlockOwners, DataSafe
<1> QED
  BY <1>1, ServerInvariant, PTL

(* No physical block is in two virtual blocks of blks_array_, of one       *)
(* connection or of two, whatever ranges the manager granted and whichever *)
(* blocks failed nvm_vblk_test.                                            *)
THEOREM ServerVblocksApart == ServerSpec => []VblocksApart
<1>1. ServerInv => VblocksApart
  BY DEF ServerInv
<1> QED
  BY <1>1, ServerInvariant, PTL

(* In the server the rows of the Azure table are fresh whenever no request *)
(* is being processed: the event loop runs one callback at a time, which   *)
(* is what PublishedRowsFresh asks for.                                    *)
THEOREM ServerRowsFresh == ServerSpec => []PublishedFresh
<1>1. ServerInv => OneActive
  BY DEF ServerInv, Turns
<1> QED
  BY <1>1, ServerInvariant, ServerRunsManager, PublishedRowsFresh, PTL

(* The stripes are blocks of the grant, and StripesCover an invariant. *)
LEMMA StripesCovered == ServerSpec => []StripesCover
<1>1. IInv /\ OneRangePerLun /\ ServerInv /\ StripesCover /\ [ServerNext]_allVars => StripesCover'
  BY CoverStep
<1>2. ServerSpec => []IInv /\ []OneRangePerLun
  BY ServerRunsManager, InductiveInvariant, RangesUnique, PTL
<1> QED
  BY <1>1, <1>2, CoverInit, ServerInvariant, PTL DEF ServerSpec

(* When a virtual OCSSD for remote use has been set up, the stripes of     *)
(* initialize_vssd_blocks are exactly the blocks the manager counts as its *)
(* own, whatever the ranges, and none has two blocks of one LUN.           *)
THEOREM ServerGrantStriped == ServerSpec => []GrantStriped
<1>1. StripesCover => GrantStriped
  <2> SUFFICES ASSUME StripesCover, LoopIdle, Newest \in Ids \ locals, holder[Newest] # NoOne
               PROVE  /\ {BlockAt(a) : a \in Vblks!Addresses(Vblks!StripeAddrs)}
                           = {b \in Blocks : Newest \in Owners(b[1], b[2], b[3], b[4])}
                      /\ \A k \in DOMAIN stripes : OneBlockPerLun(stripes[k].addrs)
    BY DEF GrantStriped
  <2>1. \A b : InStripe(b) <=> GrantBlock(b)
    BY DEF StripesCover, SetUpDone, LoopIdle
  <2>2. \A b : GrantBlock(b) <=> b \in {x \in Blocks : Newest \in Owners(x[1], x[2], x[3], x[4])}
    BY DEF GrantBlock, BlockOwners
  <2>3. PICK S : S = {BlockAt(a) : a \in Vblks!Addresses(Vblks!StripeAddrs)}
    OBVIOUS
  <2>4. \A b : b \in S <=> InStripe(b)
    BY <2>3, StripedBlocks
  <2>5. S = {b \in Blocks : Newest \in Owners(b[1], b[2], b[3], b[4])}
    BY <2>1, <2>2, <2>4
  <2> QED
    BY <2>3, <2>5 DEF StripesCover
<1> QED
  BY <1>1, StripesCovered, PTL

(* While initialize_vssd_blocks runs, blks_array_ of the connection ends   *)
(* with exactly the stripes that passed nvm_vblk_test, in their order,     *)
(* whichever of them fail: those are the indexes the client will use.      *)
THEOREM ServerKeptInOrder == ServerSpec => []KeptInOrder
<1>1. ServerInit => KeptInOrder
  BY DEF ServerInit, Vblks!Init, Vblks!NoLoop, KeptInOrder
<1>2. ServerInv /\ StripesCover /\ KeptInOrder /\ [ServerNext]_allVars => KeptInOrder'
  BY KeptStep DEF ServerInv, StripesCover
<1> QED
  BY <1>1, <1>2, StripesCovered, ServerInvariant, PTL DEF ServerSpec

(* A block index a client was given keeps its meaning: blks_array_ is only *)
(* appended to.                                                            *)
THEOREM ServerIndexesStable == ServerSpec => IndexesStable
<1> DEFINE Grows == \A c \in Callers : IsPrefix(blks_array[c], blks_array'[c])
<1>1. ServerInv /\ [ServerNext]_allVars => [Grows]_allVars
  <2> SUFFICES ASSUME ServerTypes, [ServerNext]_allVars, NEW c \in Callers
               PROVE  IsPrefix(blks_array[c], blks_array'[c])
    BY DEF ServerInv
  <2>1. PICK s \in Seq(Seq(Addrs)) : s = blks_array[c]
    BY DEF ServerTypes
  <2>2. IsPrefix(s, s)
    BY LenProperties DEF IsPrefix
  <2>3. CASE blks_array' = blks_array
    BY <2>1, <2>2, <2>3
  <2>4. CASE SelfTest /\ Vblks!TestPasses
    <3>1. blks_array' = [blks_array EXCEPT ![loop.conn] = Append(@, loop.addrs)]
      BY <2>4 DEF Vblks!TestPasses, Vblks!Pushed
    <3>2. CASE c # loop.conn
      BY <2>1, <2>2, <3>1, <3>2 DEF ServerTypes
    <3>3. CASE c = loop.conn
      <4>1. blks_array'[c] = Append(s, loop.addrs) /\ loop.addrs \in Seq(Addrs)
        BY <2>1, <3>1, <3>3 DEF ServerTypes
      <4>2. IsPrefix(s, Append(s, loop.addrs))
        BY <4>1, LenProperties, AppendProperties DEF IsPrefix
      <4> QED
        BY <2>1, <4>1, <4>2
    <3> QED
      BY <3>2, <3>3
  <2>5. CASE ~(SelfTest /\ Vblks!TestPasses)
    <3>1. blks_array' = blks_array
      BY <2>5 DEF ServerNext, Callback, allVars, serverVars, blockVars, ServerStartup, Stripe,
         SelfTest, NullVblk, ReceiveAlloc, AllocResource, InitializeRemote, PublishResource,
         RemoteAccess, LocalAccess, Vblks!FormStripe, Vblks!Return, Vblks!TestFails,
         Vblks!AllocVblkFails, Vblks!Begin
    <3> QED
      BY <2>3, <3>1, SMTT(30)
  <2> QED
    BY <2>4, <2>5
<1> QED
  BY <1>1, ServerInvariant, PTL DEF ServerSpec, IndexesStable

=============================================================================
