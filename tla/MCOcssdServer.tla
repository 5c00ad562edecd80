---------------------------- MODULE MCOcssdServer ----------------------------
(* A small instance of OcssdServer for TLC: two shared channels and one    *)
(* exclusive one.                                                          *)
EXTENDS OcssdServer

CONSTANTS d1, k1, k2

OnePath == <<d1>>
DevChannels == [d \in {d1} |-> 3]
DevLuns == [d \in {d1} |-> 2]
DevBlocks == [d \in {d1} |-> 2]

(* A block of each shared channel, all that is left, an exclusive channel. *)
SomeRequests ==
  [channels : {1}, blocks : {2}, shared : {1}] \cup
  [channels : {2}, blocks : {8}, shared : {1}] \cup
  [channels : {1}, blocks : {0}, shared : {0}]

(* The first block of the first LUN of every channel. *)
FirstBlocks == {b \in Blocks : b[3] = 0 /\ b[4] = 0}

Done ==
  /\ crashed \/ (LoopIdle /\ serving /\ CallsStarted = MaxAllocs)
  /\ UNCHANGED allVars

(* The connections are alike: let the first request be k1's. *)
FirstRequest == CallsStarted = 0 => pc'[k2] = "idle"

MCNext == (ServerNext /\ FirstRequest) \/ Done
MCSpec == ServerInit /\ [][MCNext]_allVars
MCFairSpec == MCSpec /\ ServerFairness

=============================================================================
