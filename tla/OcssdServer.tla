------------------------------ MODULE OcssdServer ------------------------------
(***************************************************************************)
(* The server as a whole: OcssdManager and VssdBlocks composed by          *)
(* process_alloc_request, the virtual blocks' use by read, write and erase *)
(* requests, and the data on the device.                                   *)
(*                                                                         *)
(* A caller of OcssdManager is here a connection whose callback is         *)
(* running.  There is one event loop: a callback runs to its end before    *)
(* the next one starts.  Clients that asked for local access run beside    *)
(* the server and use their blocks at any time.                            *)
(*                                                                         *)
(* Of the data only the last one to erase or write a physical block is     *)
(* kept.                                                                   *)
(***************************************************************************)
EXTENDS OcssdManager, Order, SequencesExt

CONSTANTS
  NoOne,        \* a block nobody has touched
  LocalBlocks   \* bound: the blocks local clients write, when they own them

(* initialize_ocssd_manager probes one path. *)
ASSUME OneDeviceAssumption == Len(Paths) = 1 /\ NoOne \notin Callers

ASSUME LocalAssumption == LocalBlocks \subseteq Blocks

VARIABLES
  remote,      \* get_remote of the request each connection is served
  holder,      \* the connection each virtual OCSSD was granted to
  locals,      \* the virtual OCSSDs granted for local use
  open_vssd,   \* the connection whose initialize_remote_vssd is due
  blks_array, num_blks, loop, stripes, crashed,   \* of VssdBlocks
  contents     \* the connection whose data each physical block holds

blockVars == <<blks_array, num_blks, loop, stripes, crashed>>
serverVars == <<remote, holder, locals, open_vssd, blockVars, contents>>
allVars == <<vars, serverVars>>

Dev == Paths[1]

Vblks == INSTANCE VssdBlocks WITH
  Conns <- Callers, NoConn <- NoCaller, BlocksPerLun <- nblocks[Dev]

Ids == 0 .. MaxAllocs - 1

ServerInit ==
  /\ Init
  /\ Vblks!Init
  /\ remote = [c \in Callers |-> FALSE]
  /\ holder = [id \in Ids |-> NoOne]
  /\ locals = {}
  /\ open_vssd = NoOne
  /\ contents = [b \in Blocks |-> NoOne]

-----------------------------------------------------------------------------

(* No callback is running. *)
LoopIdle ==
  /\ ~crashed
  /\ open_vssd = NoOne
  /\ loop.conn = NoCaller
  /\ \A c \in Callers : pc[c] = "idle"

ServerStartup == Startup /\ UNCHANGED serverVars

(* process_command dispatches an allocation request. *)
ReceiveAlloc(c, r, rem) ==
  /\ LoopIdle
  /\ CallManager(c, r)
  /\ remote' = [remote EXCEPT ![c] = rem]
  /\ UNCHANGED <<holder, locals, open_vssd, blockVars, contents>>

(* alloc_ocssd_resource; when it returns channels the virtual OCSSD is the *)
(* connection's, and is set up next if it is for remote use.               *)
AllocResource(c) ==
  /\ Alloc(c)
  /\ IF pc[c] = "finish" /\ frame.total > 0
     THEN /\ holder' = [holder EXCEPT ![vssd_id] = c]
          /\ locals' = IF remote[c] THEN locals ELSE locals \cup {vssd_id}
          /\ open_vssd' = IF remote[c] THEN c ELSE NoOne
     ELSE UNCHANGED <<holder, locals, open_vssd>>
  /\ UNCHANGED <<remote, blockVars, contents>>

Newest == vssd_id - 1

(* Faulty variant: the ranges of earlier virtual OCSSDs are not told apart. *)
ExtentsOnAny(ch) == {g \in vluns : g.dev = Dev /\ g.ch = ch}

ExtentsOn(ch) == {g \in vluns : g.vssd = Newest /\ g.dev = Dev /\ g.ch = ch}

(* The virtual channels of a grant, built in the order the manager's loops *)
(* visited channels and LUNs.                                              *)
SharedVchannel(ch) ==
  LET luns == Sorted({g.lun : g \in ExtentsOn(ch)})
      of(l) == CHOOSE g \in ExtentsOn(ch) : g.lun = l
  IN [id |-> ch, shared |-> 1, num_luns |-> Len(luns),
      luns |-> [n \in DOMAIN luns |->
                  [lun |-> luns[n], start |-> of(luns[n]).start, num |-> of(luns[n]).num]]]

ExclusiveVchannel(ch) ==
  [id |-> ch, shared |-> 0, num_luns |-> nluns[Dev], luns |-> << >>]

(* vssd->get_unit(0) of the virtual OCSSD just granted. *)
UnitZero ==
  LET shared == Sorted({g.ch : g \in {h \in vluns : h.vssd = Newest}})
      exclusive == Sorted({g.ch : g \in {h \in vchannels : h.vssd = Newest}})
  IN [n \in DOMAIN shared |-> SharedVchannel(shared[n])]
       \o [n \in DOMAIN exclusive |-> ExclusiveVchannel(exclusive[n])]

(* initialize_remote_vssd *)
InitializeRemote(c) ==
  /\ open_vssd = c
  /\ Vblks!Begin(c, UnitZero)
  /\ open_vssd' = NoOne
  /\ UNCHANGED <<vars, remote, holder, locals, contents>>

BlockAt(a) == <<Dev, a.ch, a.lun, a.blk>>

Overwritten(addrs, c) ==
  [b \in Blocks |-> IF b \in {BlockAt(a) : a \in ToSet(addrs)} THEN c ELSE contents[b]]

(* initialize_vssd_blocks between two tests. *)
Stripe ==
  /\ Vblks!FormStripe \/ Vblks!Return
  /\ UNCHANGED <<vars, remote, holder, locals, open_vssd, contents>>

(* nvm_vblk_test erases and fills the block, also when it fails. *)
SelfTest ==
  /\ Vblks!TestFails \/ Vblks!TestPasses
  /\ contents' = Overwritten(loop.addrs, loop.conn)
  /\ UNCHANGED <<vars, remote, holder, locals, open_vssd>>

NullVblk ==
  /\ Vblks!AllocVblkFails
  /\ UNCHANGED <<vars, remote, holder, locals, open_vssd, contents>>

(* publish_resource comes after the virtual OCSSD has been set up. *)
PublishResource(c) ==
  /\ ~crashed
  /\ open_vssd = NoOne
  /\ loop.conn = NoCaller
  /\ Publish(c)
  /\ UNCHANGED serverVars

(* process_write_request and process_erase_request on a block index. *)
RemoteAccess(c, i) ==
  /\ LoopIdle
  /\ serving
  /\ i \in DOMAIN blks_array[c]
  /\ contents' = Overwritten(blks_array[c][i], c)
  /\ UNCHANGED <<vars, remote, holder, locals, open_vssd, blockVars>>

(* A client with local access writes or erases a block of the virtual      *)
(* OCSSD it was sent, with or without the server.                          *)
LocalAccess(c, b) ==
  /\ pc[c] = "idle"
  /\ \E id \in Owners(b[1], b[2], b[3], b[4]) : id \in locals /\ holder[id] = c
  /\ contents' = [contents EXCEPT ![b] = c]
  /\ UNCHANGED <<vars, remote, holder, locals, open_vssd, blockVars>>

Callback(c) == AllocResource(c) \/ InitializeRemote(c) \/ PublishResource(c)

ServerNext ==
  \/ ServerStartup
  \/ Stripe
  \/ SelfTest
  \/ NullVblk
  \/ \E c \in Callers :
       \/ \E r \in Requests, rem \in BOOLEAN : ReceiveAlloc(c, r, rem)
       \/ Callback(c)
       \/ \E i \in DOMAIN blks_array[c] : RemoteAccess(c, i)
       \/ \E b \in LocalBlocks : LocalAccess(c, b)

ServerSpec == ServerInit /\ [][ServerNext]_allVars

(* The event loop goes on with the callback it is in. *)
ServerFairness ==
  WF_allVars(Stripe \/ SelfTest \/ \E c \in Callers : Callback(c))

-----------------------------------------------------------------------------

(* Every connection that was given something, and every physical block's   *)
(* last user, is a connection.                                             *)
ServerTypeOK ==
  /\ TypeOK
  /\ Vblks!TypeOK
  /\ remote \in [Callers -> BOOLEAN]
  /\ holder \in [Ids -> Callers \cup {NoOne}]
  /\ locals \subseteq Ids
  /\ open_vssd \in Callers \cup {NoOne}
  /\ contents \in [Blocks -> Callers \cup {NoOne}]

(* Data is safe: a physical block is only ever erased or written for the   *)
(* connection whose virtual OCSSD it belongs to, by the self test of a new *)
(* virtual OCSSD, by remote requests and by local clients alike.           *)
DataSafe ==
  \A b \in Blocks : contents[b] # NoOne =>
    \E id \in Owners(b[1], b[2], b[3], b[4]) : holder[id] = contents[b]

AddressSet(c, i) == {BlockAt(a) : a \in ToSet(blks_array[c][i])}

(* No physical block is in two virtual blocks, of one connection or of     *)
(* two, however many allocations each of them made.                        *)
VblocksApart ==
  \A c, e \in Callers : \A i \in DOMAIN blks_array[c], j \in DOMAIN blks_array[e] :
    c # e \/ i # j => AddressSet(c, i) \cap AddressSet(e, j) = {}

OneBlockPerLun(addrs) ==
  \A n, m \in DOMAIN addrs :
    addrs[n].ch = addrs[m].ch /\ addrs[n].lun = addrs[m].lun => n = m

(* When the virtual OCSSD of a remote request has been set up, each block  *)
(* the manager counts as its own went into a stripe and no other did, with *)
(* ranges that start and end differently on each LUN, and no stripe has    *)
(* two blocks of one LUN, which could not work in parallel.                *)
GrantStriped ==
  LoopIdle /\ Newest \in Ids \ locals /\ holder[Newest] # NoOne =>
    /\ {BlockAt(a) : a \in Vblks!Addresses(Vblks!StripeAddrs)}
         = {b \in Blocks : Newest \in Owners(b[1], b[2], b[3], b[4])}
    /\ \A k \in DOMAIN stripes : OneBlockPerLun(stripes[k].addrs)

(* The stripes that passed nvm_vblk_test, in order. *)
Kept ==
  FlattenSeq([k \in DOMAIN stripes |->
    IF stripes[k].kept THEN <<stripes[k].addrs>> ELSE << >>])

(* The indexes a client may use: blks_array_ of the connection ends with   *)
(* the stripes of the running initialize_vssd_blocks that passed           *)
(* nvm_vblk_test, in order, with no trace of the ones that failed.         *)
KeptInOrder ==
  loop.conn # NoCaller => loop.count = Len(Kept) /\ IsSuffix(Kept, blks_array[loop.conn])

(* A block index keeps its meaning for as long as the connection lives:    *)
(* a second remote allocation adds to blks_array_ and changes none of it.  *)
IndexesStable ==
  [][\A c \in Callers : IsPrefix(blks_array[c], blks_array'[c])]_allVars

(* Every allocation request comes to its end: granted, set up and          *)
(* published, or refused, unless the server dies.                          *)
RequestsEnd == \A c \in Callers : pc[c] # "idle" ~> pc[c] = "idle" \/ crashed

=============================================================================
