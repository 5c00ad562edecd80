---------------------------- MODULE BlockOwnership ----------------------------
(***************************************************************************)
(* What the resource manager promises its clients, with every mechanism    *)
(* left out: physical blocks are given to virtual OCSSDs one virtual OCSSD *)
(* at a time.  A block that has an owner keeps it, and a virtual OCSSD     *)
(* whose id has been handed out neither gains nor loses a block.  There is *)
(* no action that frees a block, as the manager has no operation that      *)
(* takes one back.                                                         *)
(***************************************************************************)
EXTENDS Naturals

CONSTANT Blocks   \* the physical blocks

VARIABLES
  owners,   \* the ids of the virtual OCSSDs a block belongs to
  id        \* the id of the virtual OCSSD under construction

Init ==
  /\ owners = [b \in Blocks |-> {}]
  /\ id = 0

(* The virtual OCSSD under construction receives some free blocks. *)
Extend ==
  /\ \A b \in Blocks : \/ owners'[b] = owners[b]
                       \/ owners[b] = {} /\ owners'[b] = {id}
  /\ id' = id

(* The virtual OCSSD is complete; the next one starts with nothing. *)
Seal ==
  /\ id' = id + 1
  /\ owners' = owners

Next == Extend \/ Seal

Spec == Init /\ [][Next]_<<owners, id>>

=============================================================================
