------------------------------ MODULE MCOcssdConn ------------------------------
(* Small instances of OcssdConn for TLC. *)
EXTENDS OcssdConn

CONSTANTS c1, c2   \* clients

Req(op, idx, count, offset) ==
  [op |-> op, idx |-> idx, count |-> count, offset |-> offset, remote |-> op = "alloc"]

Alloc == Req("alloc", 0, 0, 0)
LocalAlloc == [Alloc EXCEPT !.remote = FALSE]

(* ocssd_client.cc: test_remote_ocssd. *)
RemoteTest == <<Alloc, Req("erase", 0, 0, 0), Req("write", 0, 2, 0), Req("read", 0, 2, 0)>>

(* Two grants on one connection, a write without an erase, an empty write, *)
(* a second write to one block, reads in and beyond what is written and of *)
(* nothing, and a message that is none.                                    *)
LongScript ==
  <<Alloc, Req("write", 0, 1, 0), Req("unknown", 0, 0, 0), Req("erase", 0, 0, 0),
    Req("write", 0, 1, 0), Alloc, Req("erase", 1, 0, 0), Req("write", 0, 2, 0),
    Req("write", 1, 0, 0), Req("read", 0, 0, 0), Req("read", 0, 2, 1), Req("read", 1, 1, 0), LocalAlloc>>

OneLong == [c \in {c1} |-> LongScript]
OneRemote == [c \in {c1} |-> RemoteTest]
TwoTests == [c \in {c1, c2} |-> RemoteTest]

(* Every client has gone, or waits for an answer that will not come. *)
Done ==
  /\ \/ ~serving
     \/ \A c \in Clients : c \in refused \/ (link[c] = "closed" /\ Dropped(c))
  /\ UNCHANGED vars

MCNext == Next \/ Done
MCSpec == Init /\ [][MCNext]_vars
MCFairSpec == MCSpec /\ Fairness

=============================================================================
