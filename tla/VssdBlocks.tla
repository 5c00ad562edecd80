------------------------------ MODULE VssdBlocks ------------------------------
(***************************************************************************)
(* The virtual blocks of a virtual OCSSD used remotely (ocssd_conn.h):     *)
(* initialize_vssd_blocks cuts what the manager granted on one unit into   *)
(* stripes, one physical block of every LUN that has one left, and makes a *)
(* virtual block of each stripe that passes nvm_vblk_test.                 *)
(*                                                                         *)
(* All connections are served by one event loop, so at most one call is    *)
(* running: its locals are the record "loop".  A call handles one unit.    *)
(* A virtual channel is [id, shared, num_luns, luns], where luns lists     *)
(* [lun, start, num]; an exclusive channel has no list, only a number.     *)
(***************************************************************************)
EXTENDS Order, SequencesExt

CONSTANTS
  Conns,   \* the connections
  NoConn,  \* no call of initialize_vssd_blocks is running
  BlocksPerLun   \* geo_->nblocks of the device

VARIABLES
  blks_array,  \* blks_array_ of each connection: stripes, as address sequences
  num_blks,    \* num_blks_ of each connection
  loop,        \* locals of the call that is running, or ran last
  stripes,     \* history: the stripes that call has tested, [addrs, kept]
  crashed      \* the server died in initialize_vssd_blocks

vblkVars == <<blks_array, num_blks, loop, stripes, crashed>>

NoLoop == [conn |-> NoConn, vunit |-> << >>, curr_blocks |-> << >>,
           addrs |-> << >>, count |-> 0]

-----------------------------------------------------------------------------

(* Faulty variants: exclusive channels are left out; a shared LUN is       *)
(* started at its first block.                                             *)
GenerateSharedOnly(vunit) ==
  FlattenSeq([c \in DOMAIN vunit |->
    IF vunit[c].shared = 1 THEN [l \in DOMAIN vunit[c].luns |-> vunit[c].luns[l].start]
                           ELSE << >>])

GenerateFromZero(vunit) ==
  FlattenSeq([c \in DOMAIN vunit |->
    IF vunit[c].shared = 1 THEN [l \in DOMAIN vunit[c].luns |-> 0]
                           ELSE [l \in 1 .. vunit[c].num_luns |-> 0]])

(* generate_units of the unit and its channels: where each LUN's blocks    *)
(* begin.                                                                  *)
GenerateUnits(vunit) ==
  FlattenSeq([c \in DOMAIN vunit |->
    IF vunit[c].shared = 1 THEN [l \in DOMAIN vunit[c].luns |-> vunit[c].luns[l].start]
                           ELSE [l \in 1 .. vunit[c].num_luns |-> 0]])

(* Faulty variant: num_blocks_ is taken for the end of the range. *)
LunsToNumBlocks(vunit) ==
  FlattenSeq([c \in DOMAIN vunit |->
    IF vunit[c].shared > 0
    THEN [l \in DOMAIN vunit[c].luns |->
            [ch |-> vunit[c].id, lun |-> vunit[c].luns[l].lun,
             block_end |-> vunit[c].luns[l].num]]
    ELSE [l \in 1 .. vunit[c].num_luns |->
            [ch |-> vunit[c].id, lun |-> l - 1, block_end |-> BlocksPerLun]]])

(* The LUNs in the order the loop over the channels visits them, with the  *)
(* end of their blocks: position i is the code's index i.                  *)
LunsVisited(vunit) ==
  FlattenSeq([c \in DOMAIN vunit |->
    IF vunit[c].shared > 0
    THEN [l \in DOMAIN vunit[c].luns |->
            [ch |-> vunit[c].id, lun |-> vunit[c].luns[l].lun,
             block_end |-> vunit[c].luns[l].start + vunit[c].luns[l].num]]
    ELSE [l \in 1 .. vunit[c].num_luns |->
            [ch |-> vunit[c].id, lun |-> l - 1, block_end |-> BlocksPerLun]]])

HasBlock(i) == loop.curr_blocks[i] < LunsVisited(loop.vunit)[i].block_end

(* generate_addr *)
Addr(i) == [ch |-> LunsVisited(loop.vunit)[i].ch,
            lun |-> LunsVisited(loop.vunit)[i].lun,
            blk |-> loop.curr_blocks[i]]

-----------------------------------------------------------------------------

Init ==
  /\ blks_array = [k \in Conns |-> << >>]
  /\ num_blks = [k \in Conns |-> 0]
  /\ loop = NoLoop
  /\ stripes = << >>
  /\ crashed = FALSE

(* initialize_remote_vssd with the device opened, up to the loop. *)
Begin(k, vunit) ==
  /\ ~crashed
  /\ loop.conn = NoConn
  /\ loop' = [NoLoop EXCEPT !.conn = k, !.vunit = vunit,
                            !.curr_blocks = GenerateUnits(vunit)]
  /\ stripes' = << >>
  /\ UNCHANGED <<blks_array, num_blks, crashed>>

Running == ~crashed /\ loop.conn # NoConn

LunIndexes == DOMAIN LunsVisited(loop.vunit)

(* The LUNs that contribute to the next stripe, in the order visited. *)
Contributing == Sorted({i \in LunIndexes : HasBlock(i)})

Advanced == [i \in LunIndexes |-> loop.curr_blocks[i] + IF HasBlock(i) THEN 1 ELSE 0]

(* One pass over the LUNs, and nvm_vblk_alloc of the addresses it found. *)
FormStripe ==
  /\ Running
  /\ loop.addrs = << >>
  /\ Contributing # << >>
  /\ loop' = [loop EXCEPT
       !.addrs = [n \in DOMAIN Contributing |-> Addr(Contributing[n])],
       !.curr_blocks = Advanced]
  /\ UNCHANGED <<blks_array, num_blks, stripes, crashed>>

(* nvm_vblk_alloc returned NULL: nvm_vblk_test is handed the null pointer  *)
(* before it is tested, and dereferences it.                               *)
AllocVblkFails ==
  /\ Running
  /\ loop.addrs # << >>
  /\ crashed' = TRUE
  /\ UNCHANGED <<blks_array, num_blks, loop, stripes>>

Record(kept) == Append(stripes, [addrs |-> loop.addrs, kept |-> kept])

(* Faulty variant: the block that failed its test is kept. *)
KeepFailed ==
  /\ Running
  /\ loop.addrs # << >>
  /\ blks_array' = [blks_array EXCEPT ![loop.conn] = Append(@, loop.addrs)]
  /\ stripes' = Record(FALSE)
  /\ loop' = [loop EXCEPT !.addrs = << >>]
  /\ UNCHANGED <<num_blks, crashed>>

(* nvm_vblk_test fails: the block is freed and the next one takes its      *)
(* index.                                                                  *)
TestFails ==
  /\ Running
  /\ loop.addrs # << >>
  /\ stripes' = Record(FALSE)
  /\ loop' = [loop EXCEPT !.addrs = << >>]
  /\ UNCHANGED <<blks_array, num_blks, crashed>>

(* Faulty variant: blks_array_ is filled from the start again by every     *)
(* call, as if num_blks_ were its length.                                  *)
PushedFromStart ==
  Append(SubSeq(blks_array[loop.conn], 1, loop.count), loop.addrs)

Pushed == Append(blks_array[loop.conn], loop.addrs)

TestPasses ==
  /\ Running
  /\ loop.addrs # << >>
  /\ blks_array' = [blks_array EXCEPT ![loop.conn] = Pushed]
  /\ stripes' = Record(TRUE)
  /\ loop' = [loop EXCEPT !.addrs = << >>, !.count = @ + 1]
  /\ UNCHANGED <<num_blks, crashed>>

(* No LUN has a block left. *)
Return ==
  /\ Running
  /\ loop.addrs = << >>
  /\ Contributing = << >>
  /\ num_blks' = [num_blks EXCEPT ![loop.conn] = loop.count]
  /\ loop' = [loop EXCEPT !.conn = NoConn]
  /\ UNCHANGED <<blks_array, stripes, crashed>>

-----------------------------------------------------------------------------

Addresses(seqs) == UNION {ToSet(seqs[k]) : k \in DOMAIN seqs}

StripeAddrs == [k \in DOMAIN stripes |-> stripes[k].addrs]

(* Every variable stays in its type, and curr_blocks has one position for  *)
(* each LUN the loop visits, although generate_units and the loop each     *)
(* walk the channels for themselves.                                       *)
TypeOK ==
  /\ DOMAIN blks_array = Conns
  /\ num_blks \in [Conns -> Nat]
  /\ loop.conn \in Conns \cup {NoConn}
  /\ DOMAIN loop.curr_blocks = LunIndexes
  /\ loop.count \in Nat
  /\ crashed \in BOOLEAN

=============================================================================
