----------------------------- MODULE ResourceTable -----------------------------
(***************************************************************************)
(* The Azure table in which the servers of several nodes publish what they *)
(* have left (publish_resource, azure_insert_entity), and the tool that    *)
(* empties it (azure_delete).  The table outlives the servers; a server    *)
(* keeps nothing across a restart.                                         *)
(*                                                                         *)
(* A row is known by ocssd_unit::desc_, the node's address and the device  *)
(* path.  Of the statistics only the number of free blocks is kept, and an *)
(* allocation takes one.  The table service is external: it replaces a row *)
(* as a whole, gives it a new tag each time, and answers a query with the  *)
(* rows of one moment.                                                     *)
(***************************************************************************)
EXTENDS Integers, Sequences, FiniteSets

CONSTANTS
  Nodes,        \* the machines that run a server
  Eno1,         \* those with an IPv4 address on an interface called eno1
  Address,      \* that address
  NoAddress,    \* the empty string
  Paths,        \* the device paths of every node, in the order probed
  Capacity,     \* the free blocks of a fresh device
  Tools,        \* runs of azure_delete
  MaxInserts    \* bound on the rows written

(* Addresses differ.  Any number of nodes may be without one. *)
ASSUME AddressAssumption ==
  /\ Eno1 \subseteq Nodes
  /\ \A n \in Eno1 : Address[n] # NoAddress
  /\ \A n, m \in Eno1 : Address[n] = Address[m] => n = m

(* A node has a device, and every device a path of its own. *)
ASSUME DeviceAssumption ==
  /\ Capacity \in Nat
  /\ Len(Paths) \in Nat \ {0} /\ DOMAIN Paths = 1 .. Len(Paths)
  /\ \A u, v \in DOMAIN Paths : Paths[u] = Paths[v] => u = v

VARIABLES
  server,   \* down, publish, insert (within publish_resource) or serving
  free,     \* free blocks of each device of a node
  punit,    \* publish_resource: position in the loop over the units
  stats,    \* publish_resource: what get_ocssd_stats returned
  rows,     \* the table: key -> [writer, blocks, tag]
  inserts,  \* rows written so far; gives the tags
  tool,     \* start, deleting, done or failed
  listed,   \* the rows the tool's query returned: key -> tag
  todo      \* the keys the tool has still to delete

vars == <<server, free, punit, stats, rows, inserts, tool, listed, todo>>
toolVars == <<tool, listed, todo>>

Units == DOMAIN Paths
Empty == [k \in {} |-> 0]

(* get_ip *)
GetIp(n) == IF n \in Eno1 THEN Address[n] ELSE NoAddress

(* ocssd_unit::desc_ *)
Desc(n, u) == <<GetIp(n), Paths[u]>>

Init ==
  /\ server = [n \in Nodes |-> "down"]
  /\ free = [n \in Nodes |-> [u \in Units |-> 0]]
  /\ punit = [n \in Nodes |-> 1]
  /\ stats = [n \in Nodes |-> 0]
  /\ rows = Empty
  /\ inserts = 0
  /\ tool = [t \in Tools |-> "start"]
  /\ listed = [t \in Tools |-> Empty]
  /\ todo = [t \in Tools |-> {}]

-----------------------------------------------------------------------------
(* A server *)

Become(n, state) == server' = [server EXCEPT ![n] = state]

(* The process ends and its memory with it; its rows stay. *)
Die(n) ==
  /\ Become(n, "down")
  /\ free' = [free EXCEPT ![n] = [u \in Units |-> 0]]
  /\ punit' = [punit EXCEPT ![n] = 1]
  /\ stats' = [stats EXCEPT ![n] = 0]
  /\ UNCHANGED <<rows, inserts, toolVars>>

(* main up to the first publication: nothing is remembered of an earlier   *)
(* run.                                                                    *)
Boot(n) ==
  /\ server[n] = "down"
  /\ Become(n, "publish")
  /\ free' = [free EXCEPT ![n] = [u \in Units |-> Capacity]]
  /\ punit' = [punit EXCEPT ![n] = 1]
  /\ UNCHANGED <<stats, rows, inserts, toolVars>>

(* An allocation is granted and then published. *)
Allocate(n, u) ==
  /\ server[n] = "serving"
  /\ free[n][u] > 0
  /\ free' = [free EXCEPT ![n][u] = @ - 1]
  /\ punit' = [punit EXCEPT ![n] = 1]
  /\ Become(n, "publish")
  /\ UNCHANGED <<stats, rows, inserts, toolVars>>

GetStats(n) ==
  /\ server[n] = "publish"
  /\ stats' = [stats EXCEPT ![n] = free[n][punit[n]]]
  /\ Become(n, "insert")
  /\ UNCHANGED <<free, punit, rows, inserts, toolVars>>

(* insert_or_replace_entity *)
WithRow(k, n) ==
  [j \in DOMAIN rows \cup {k} |->
     IF j = k THEN [writer |-> n, blocks |-> stats[n], tag |-> inserts + 1] ELSE rows[j]]

(* Faulty variant: the loop over the units ends one short. *)
AfterInsertShort(n) == IF punit[n] + 1 >= Len(Paths) THEN "serving" ELSE "publish"

AfterInsert(n) == IF punit[n] = Len(Paths) THEN "serving" ELSE "publish"

(* azure_insert_entity *)
InsertEntity(n) ==
  /\ server[n] = "insert"
  /\ inserts < MaxInserts
  /\ rows' = WithRow(Desc(n, punit[n]), n)
  /\ inserts' = inserts + 1
  /\ punit' = [punit EXCEPT ![n] = @ + 1]
  /\ stats' = [stats EXCEPT ![n] = 0]
  /\ Become(n, AfterInsert(n))
  /\ UNCHANGED <<free, toolVars>>

(* The table cannot be reached: nobody catches the exception. *)
InsertFails(n) ==
  /\ server[n] = "insert"
  /\ Die(n)

(* SIGINT ends the event loop, and the server. *)
Interrupt(n) ==
  /\ server[n] = "serving"
  /\ Die(n)

-----------------------------------------------------------------------------
(* azure_delete_entities *)

serverVars == <<server, free, punit, stats>>

ExecuteQuery(t) ==
  /\ tool[t] = "start"
  /\ listed' = [listed EXCEPT ![t] = [k \in DOMAIN rows |-> rows[k].tag]]
  /\ todo' = [todo EXCEPT ![t] = DOMAIN rows]
  /\ tool' = [tool EXCEPT ![t] = "deleting"]
  /\ UNCHANGED <<serverVars, rows, inserts>>

(* Faulty variant: the iterator is advanced before its first row. *)
DeleteTwoSteps(t, k) ==
  /\ tool[t] = "deleting"
  /\ k \in todo[t]
  /\ todo' = [todo EXCEPT ![t] = IF Cardinality(@) > 1 THEN @ \ {k, CHOOSE j \in @ : j # k}
                                                       ELSE @ \ {k}]
  /\ rows' = [j \in DOMAIN rows \ {k} |-> rows[j]]
  /\ UNCHANGED <<serverVars, inserts, tool, listed>>

(* The row is as the query returned it, or the service does not mind that  *)
(* it was replaced meanwhile.                                              *)
DeleteEntity(t, k) ==
  /\ tool[t] = "deleting"
  /\ k \in todo[t]
  /\ k \in DOMAIN rows
  /\ rows' = [j \in DOMAIN rows \ {k} |-> rows[j]]
  /\ todo' = [todo EXCEPT ![t] = @ \ {k}]
  /\ UNCHANGED <<serverVars, inserts, tool, listed>>

(* The service cannot be reached, or the row is gone or was replaced: the  *)
(* exception ends the tool.                                                *)
DeleteFails(t) ==
  /\ tool[t] \in {"start", "deleting"}
  /\ tool' = [tool EXCEPT ![t] = "failed"]
  /\ listed' = [listed EXCEPT ![t] = Empty]
  /\ todo' = [todo EXCEPT ![t] = {}]
  /\ UNCHANGED <<serverVars, rows, inserts>>

DeleteDone(t) ==
  /\ tool[t] = "deleting"
  /\ todo[t] = {}
  /\ tool' = [tool EXCEPT ![t] = "done"]
  /\ UNCHANGED <<serverVars, rows, inserts, listed, todo>>

-----------------------------------------------------------------------------

ServerStep(n) == GetStats(n) \/ InsertEntity(n) \/ InsertFails(n)

ToolStep(t) ==
  \/ ExecuteQuery(t)
  \/ \E k \in todo[t] : DeleteEntity(t, k)
  \/ DeleteFails(t)
  \/ DeleteDone(t)

Next ==
  \/ \E n \in Nodes : \/ Boot(n)
                      \/ \E u \in Units : Allocate(n, u)
                      \/ ServerStep(n)
                      \/ Interrupt(n)
  \/ \E t \in Tools : ToolStep(t)

Spec == Init /\ [][Next]_vars

-----------------------------------------------------------------------------

(* n's row was written over by another node that has no address either:    *)
(* without one the keys of two nodes are the same.                         *)
WrittenOver(n, row) == row.writer # n /\ {n, row.writer} \cap Eno1 = {}

(* While a server waits for requests each of its devices has a row, unless *)
(* a tool has been at work, and the row shows what is free now, through    *)
(* restarts and whatever the other nodes do.  Only a node without an       *)
(* address may find that another one has written over its row.             *)
RowsCurrent ==
  \A n \in Nodes, u \in Units : server[n] = "serving" =>
    IF Desc(n, u) \in DOMAIN rows
    THEN LET row == rows[Desc(n, u)] IN
         \/ row.writer = n /\ row.blocks = free[n][u]
         \/ WrittenOver(n, row)
    ELSE \E t \in Tools : tool[t] # "start"

(* A tool that came to its end has left no row it was told of: what the    *)
(* table holds of those keys was published after the query.                *)
DeletionComplete ==
  \A t \in Tools : tool[t] = "done" =>
    \A k \in DOMAIN listed[t] \cap DOMAIN rows : rows[k].tag > listed[t][k]

=============================================================================
