---------------------------- MODULE MCOcssdManager ----------------------------
(* Small instances of OcssdManager for TLC. *)
EXTENDS OcssdManager, TLC

CONSTANTS d1, d2   \* device paths

OnePath == <<d1>>
TwoPaths == <<d1, d2>>

(* One device of 3 channels, 2 LUNs of 3 blocks each. *)
OneDevice(n) == [d \in {d1} |-> n]
Geo1Channels == OneDevice(3)
Geo1Luns == OneDevice(2)
Geo1Blocks == OneDevice(3)

(* Two unlike devices. *)
Geo2Channels == d1 :> 3 @@ d2 :> 2
Geo2Luns == d1 :> 1 @@ d2 :> 2
Geo2Blocks == d1 :> 2 @@ d2 :> 2

(* Requests for nothing, for less than a block per LUN, for more than is   *)
(* left, and shared values other than 0 and 1.                             *)
SomeRequests ==
  [channels : 0 .. 3, blocks : {0, 1, 4, 5, 9, 13}, shared : {1}]
    \cup [channels : 0 .. 2, blocks : {0}, shared : {0, 2}]

(* Requests of two threads that compete for channels of both devices, for  *)
(* as many as one of them has, for more, and for too few blocks.           *)
RivalRequests ==
  [channels : {2}, blocks : {1, 4, 9}, shared : {1}]
    \cup [channels : {1, 3}, blocks : {0}, shared : {0}]

(* All calls allowed by MaxAllocs have returned. *)
Quiescent ==
  /\ serving
  /\ CallsStarted = MaxAllocs
  /\ \A c \in Callers : pc[c] = "idle"
  /\ UNCHANGED vars

MCNext == Next \/ Quiescent
MCSpec == Init /\ [][MCNext]_vars
MCFairSpec == MCSpec /\ \A c \in Callers : WF_vars(Alloc(c) \/ Publish(c))

=============================================================================
