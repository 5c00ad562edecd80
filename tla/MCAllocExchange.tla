--------------------------- MODULE MCAllocExchange ---------------------------
(* An instance of AllocExchange for TLC, with buffers of the real size,    *)
(* the largest grants that fit (4 shared channels of 17 LUNs, 57 exclusive *)
(* channels) and one that does not (4 shared channels of 32 LUNs).         *)
EXTENDS AllocExchange

(* The requests of the demo client; one for more channels than 32 bits can *)
(* say and for any NUMA node; and one for exclusive channels.              *)
SomeAllocArgs ==
  {[channels |-> 4, blocks |-> 1024, shared |-> 1, numa_id |-> 0, remote |-> 0],
   [channels |-> 4, blocks |-> 1024, shared |-> 1, numa_id |-> 0, remote |-> 1],
   [channels |-> Word + 2, blocks |-> Word - 1, shared |-> 1, numa_id |-> 0 - 1, remote |-> 1],
   [channels |-> 57, blocks |-> 0, shared |-> 0, numa_id |-> 0 - 1, remote |-> 0]}

(* The I/O of test_remote_ocssd, and numbers that fill their fields. *)
SomeIoArgs ==
  {[command |-> "erase", block_index |-> 0, count |-> 0, offset |-> 0],
   [command |-> "write", block_index |-> 0, count |-> 1048576, offset |-> 0],
   [command |-> "read", block_index |-> 0, count |-> 1048576, offset |-> 0],
   [command |-> "read", block_index |-> Word - 1, count |-> Word * Word - 1, offset |-> Word]}

(* A name of the length of /dev/nvme1n1, and one that needs no padding. *)
Name(len) == [i \in 1 .. len |-> 1 + (i % (Radix - 1))]
Geo == <<16, 8, 2, 1067, 256, 4, 16384, 4096, 16>>

SharedChannel(id, luns, start, num) ==
  [id |-> id, shared |-> 1, total_blocks |-> luns * num, num_luns |-> luns,
   luns |-> [l \in 1 .. luns |-> [lun |-> l - 1, start |-> start, num |-> num]]]
ExclusiveChannel(id) ==
  [id |-> id, shared |-> 0, total_blocks |-> 1067, num_luns |-> 4, luns |-> << >>]

SharedUnit(len, channels, luns) ==
  [name |-> Name(len), geo |-> Geo,
   channels |-> [c \in 1 .. channels |-> SharedChannel(c - 1, luns, 32 * c, 32)]]
ExclusiveUnit(len, channels) ==
  [name |-> Name(len), geo |-> Geo,
   channels |-> [c \in 1 .. channels |-> ExclusiveChannel(3 + c)]]

SomeGrants ==
  {[id |-> 7, units |-> <<SharedUnit(12, 4, 17)>>],
   [id |-> 3, units |-> <<SharedUnit(12, 4, 32)>>],
   [id |-> 0, units |-> <<SharedUnit(15, 1, 1)>>],
   [id |-> Word - 1, units |-> <<SharedUnit(12, 2, 2), SharedUnit(15, 1, 1)>>],
   [id |-> 1, units |-> <<ExclusiveUnit(12, 57)>>],
   [id |-> 2, units |-> <<ExclusiveUnit(12, 1), ExclusiveUnit(12, 2)>>]}

Done == client \in {"done", "crashed"} /\ message = Nothing /\ UNCHANGED vars

MCSpec == Init /\ [][Next \/ Done]_vars

=============================================================================
