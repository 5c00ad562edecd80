-------------------------- MODULE ResourceTableProofs --------------------------
(***************************************************************************)
(* Proofs about ResourceTable, for any nodes, devices and runs of the      *)
(* deletion tool, with or without an address, and any number of rows       *)
(* written: a serving node's rows are current or written over by another   *)
(* node without an address, and a deletion that ends has removed what it   *)
(* was told of.                                                            *)
(***************************************************************************)
EXTENDS ResourceTable, TLAPS

-----------------------------------------------------------------------------
(* Types *)

Keys == {Desc(n, u) : n \in Nodes, u \in Units}
Row == [writer : Nodes, blocks : Nat, tag : Nat]

(* Tables with the keys of devices and values in S. *)
TablesOf(S) == UNION {[K -> S] : K \in SUBSET Keys}

TypeOK ==
  /\ server \in [Nodes -> {"down", "publish", "insert", "serving"}]
  /\ free \in [Nodes -> [Units -> Nat]]
  /\ punit \in [Nodes -> Nat]
  /\ stats \in [Nodes -> Nat]
  /\ rows \in TablesOf(Row)
  /\ inserts \in Nat
  /\ tool \in [Tools -> {"start", "deleting", "done", "failed"}]
  /\ listed \in [Tools -> TablesOf(Nat)]
  /\ todo \in [Tools -> SUBSET Keys]

-----------------------------------------------------------------------------
(* The inductive invariant *)

(* Inside publish_resource the loop is at a unit, and what is about to be  *)
(* written is what the unit has free.                                      *)
LoopAtUnit ==
  \A n \in Nodes :
    /\ server[n] \in {"publish", "insert"} => punit[n] \in Units
    /\ server[n] = "insert" => stats[n] = free[n][punit[n]]

(* The units whose row publish_resource has written since the last change. *)
Written(n) ==
  {u \in Units : \/ server[n] = "serving"
                 \/ server[n] \in {"publish", "insert"} /\ u < punit[n]}

(* The row of a device is there and shows what is free now, or another     *)
(* node without an address has written over it, or a tool was at work.     *)
Current(n, u) ==
  IF Desc(n, u) \in DOMAIN rows
  THEN LET row == rows[Desc(n, u)] IN
       \/ row.writer = n /\ row.blocks = free[n][u]
       \/ WrittenOver(n, row)
  ELSE \E t \in Tools : tool[t] # "start"

WrittenCurrent == \A n \in Nodes : \A u \in Written(n) : Current(n, u)

(* Tags are given in order: no row and no listing has one of the future. *)
TagsGiven ==
  /\ \A k \in DOMAIN rows : rows[k].tag <= inserts
  /\ \A t \in Tools : \A k \in DOMAIN listed[t] : listed[t][k] <= inserts

(* What a tool has gone past and is in the table is newer than the query. *)
DeletedSoFar ==
  \A t \in Tools :
    /\ tool[t] \in {"deleting", "done"} =>
         \A k \in (DOMAIN listed[t] \cap DOMAIN rows) \ todo[t] :
           rows[k].tag > listed[t][k]
    /\ tool[t] = "done" => todo[t] = {}

IInv ==
  TypeOK /\ LoopAtUnit /\ WrittenCurrent /\ TagsGiven /\ DeletedSoFar

-----------------------------------------------------------------------------
(* Keys and tables *)

(* ocssd_unit::desc_ tells the devices of a node apart, and those of two   *)
(* nodes unless neither has an address.                                    *)
LEMMA DescApart ==
  ASSUME NEW n \in Nodes, NEW m \in Nodes, NEW u \in Units, NEW v \in Units,
         Desc(n, u) = Desc(m, v)
  PROVE  u = v /\ (n = m \/ {n, m} \cap Eno1 = {})
<1>1. GetIp(n) = GetIp(m) /\ Paths[u] = Paths[v]
  BY DEF Desc
<1>2. n = m \/ (n \notin Eno1 /\ m \notin Eno1)
  BY <1>1, AddressAssumption DEF GetIp
<1> QED
  BY <1>1, <1>2, DeviceAssumption DEF Units

(* What it takes to be a table. *)
LEMMA TableIntro ==
  ASSUME NEW S, NEW K \in SUBSET Keys, NEW f \in [K -> S]
  PROVE  f \in TablesOf(S)
BY DEF TablesOf

(* What a table is. *)
LEMMA TableElim ==
  ASSUME NEW S, NEW f \in TablesOf(S)
  PROVE  /\ DOMAIN f \in SUBSET Keys
         /\ f \in [DOMAIN f -> S]
BY DEF TablesOf

(* The empty table is a table. *)
LEMMA EmptyTable == ASSUME NEW S PROVE Empty \in TablesOf(S) /\ DOMAIN Empty = {}
<1>1. Empty \in [{} -> S] /\ DOMAIN Empty = {}
  BY DEF Empty
<1> QED
  BY <1>1, TableIntro

(* There is a first unit. *)
LEMMA FirstUnit == 1 \in Units /\ Units = 1 .. Len(Paths) /\ Len(Paths) \in Nat
BY DeviceAssumption DEF Units

-----------------------------------------------------------------------------

(* The invariant holds while no server runs and the table is empty. *)
LEMMA InitInv == Init => IInv
<1> SUFFICES ASSUME Init PROVE IInv
  OBVIOUS
<1>1. TypeOK
  BY EmptyTable DEF Init, TypeOK
<1>2. LoopAtUnit /\ WrittenCurrent /\ TagsGiven /\ DeletedSoFar
  BY EmptyTable
     DEF Init, LoopAtUnit, WrittenCurrent, Written, TagsGiven, DeletedSoFar
<1> QED
  BY <1>1, <1>2 DEF IInv

(* A step of a server that writes no row and leaves no unit of any server  *)
(* newly written keeps the invariant: booting, allocating, dying.          *)
LEMMA QuietStep ==
  ASSUME IInv, NEW n \in Nodes, UNCHANGED <<rows, inserts, toolVars>>,
         NEW s \in {"down", "publish"}, Become(n, s),
         NEW f \in [Units -> Nat], free' = [free EXCEPT ![n] = f],
         punit' = [punit EXCEPT ![n] = 1],
         stats' \in [Nodes -> Nat], \A m \in Nodes \ {n} : stats'[m] = stats[m]
  PROVE  IInv'
<1> USE DEF IInv, Become
<1>1. TypeOK'
  BY DEF TypeOK, toolVars
<1>2. LoopAtUnit'
  BY FirstUnit DEF LoopAtUnit, TypeOK
<1>3. TagsGiven' /\ DeletedSoFar'
  BY DEF TagsGiven, DeletedSoFar, toolVars
<1>4. WrittenCurrent'
  <2> SUFFICES ASSUME NEW m \in Nodes, NEW u \in Units, u \in Written(m)' PROVE Current(m, u)'
    BY DEF WrittenCurrent, Written
  <2>1. m # n
    BY FirstUnit DEF Written, TypeOK
  <2>2. u \in Written(m)
    BY <2>1 DEF Written, TypeOK
  <2> QED
    BY <2>1, <2>2 DEF WrittenCurrent, Current, toolVars, TypeOK
<1> QED
  BY <1>1, <1>2, <1>3, <1>4

(* A step of a tool that leaves the table alone keeps what is said of the  *)
(* rows.                                                                   *)
LEMMA ToolOnlyStep ==
  ASSUME IInv, UNCHANGED <<serverVars, rows, inserts>>,
         NEW t \in Tools, NEW s \in {"deleting", "done", "failed"},
         tool' = [tool EXCEPT ![t] = s]
  PROVE  LoopAtUnit' /\ WrittenCurrent'
<1> USE DEF IInv, serverVars
<1>1. LoopAtUnit'
  BY DEF LoopAtUnit
<1>2. WrittenCurrent'
  <2> SUFFICES ASSUME NEW m \in Nodes, NEW u \in Units, u \in Written(m)' PROVE Current(m, u)'
    BY DEF WrittenCurrent, Written
  <2>1. Current(m, u)
    BY DEF WrittenCurrent, Written
  <2> QED
    BY <2>1 DEF Current, TypeOK
<1> QED
  BY <1>1, <1>2

-----------------------------------------------------------------------------
(* One lemma per action *)

(* A server starts. *)
LEMMA BootInv == ASSUME IInv, NEW n \in Nodes, Boot(n) PROVE IInv'
<1>1. [u \in Units |-> Capacity] \in [Units -> Nat]
  BY DeviceAssumption
<1> QED
  BY <1>1, QuietStep DEF Boot, IInv, TypeOK

(* An allocation is granted. *)
LEMMA AllocateInv ==
  ASSUME IInv, NEW n \in Nodes, NEW u \in Units, Allocate(n, u) PROVE IInv'
<1> DEFINE f == [free[n] EXCEPT ![u] = @ - 1]
<1>1. f \in [Units -> Nat]
  BY DEF IInv, TypeOK, Allocate
<1>2. free' = [free EXCEPT ![n] = f]
  BY DEF Allocate
<1> QED
  BY <1>1, <1>2, QuietStep DEF Allocate, IInv, TypeOK

(* A server ends. *)
LEMMA DieInv == ASSUME IInv, NEW n \in Nodes, Die(n) PROVE IInv'
<1>1. [u \in Units |-> 0] \in [Units -> Nat]
  OBVIOUS
<1> QED
  BY <1>1, QuietStep DEF Die, IInv, TypeOK

(* publish_resource reads the statistics of a unit. *)
LEMMA GetStatsInv == ASSUME IInv, NEW n \in Nodes, GetStats(n) PROVE IInv'
<1> USE DEF IInv, GetStats, Become
<1>1. TypeOK'
  BY DEF TypeOK, toolVars, LoopAtUnit
<1>2. LoopAtUnit'
  BY DEF LoopAtUnit, TypeOK
<1>3. TagsGiven' /\ DeletedSoFar'
  BY DEF TagsGiven, DeletedSoFar, toolVars
<1>4. WrittenCurrent'
  <2> SUFFICES ASSUME NEW m \in Nodes, NEW u \in Units, u \in Written(m)' PROVE Current(m, u)'
    BY DEF WrittenCurrent, Written
  <2>1. u \in Written(m)
    BY DEF Written, TypeOK
  <2> QED
    BY <2>1 DEF WrittenCurrent, Current, toolVars
<1> QED
  BY <1>1, <1>2, <1>3, <1>4

(* azure_insert_entity writes the row of one unit: it is the node's own    *)
(* row, shows what the unit has free, and has the newest tag.              *)
LEMMA InsertEntityInv == ASSUME IInv, NEW n \in Nodes, InsertEntity(n) PROVE IInv'
<1> DEFINE k == Desc(n, punit[n])
<1> USE DEF IInv
<1>1. /\ punit[n] \in Units
      /\ stats[n] = free[n][punit[n]]
      /\ server[n] = "insert"
  BY DEF LoopAtUnit, InsertEntity
<1>2. k \in Keys
  BY <1>1 DEF Keys
<1>3. DOMAIN rows \in SUBSET Keys /\ rows \in [DOMAIN rows -> Row]
  BY TableElim DEF TypeOK
<1>4. /\ DOMAIN rows' = DOMAIN rows \cup {k}
      /\ rows'[k] = [writer |-> n, blocks |-> stats[n], tag |-> inserts + 1]
      /\ \A j \in DOMAIN rows \ {k} : rows'[j] = rows[j]
      /\ rows' \in [DOMAIN rows \cup {k} -> Row]
  BY <1>3 DEF InsertEntity, WithRow, Row, TypeOK
<1>5. TypeOK'
  <2>1. rows' \in TablesOf(Row)
    BY <1>2, <1>3, <1>4, TableIntro
  <2>2. AfterInsert(n) \in {"serving", "publish"}
    BY DEF AfterInsert
  <2> QED
    BY <2>1, <2>2 DEF TypeOK, InsertEntity, Become, toolVars
<1>6. LoopAtUnit'
  BY <1>1, FirstUnit DEF LoopAtUnit, InsertEntity, Become, AfterInsert, TypeOK
<1>7. WrittenCurrent'
  <2> SUFFICES ASSUME NEW m \in Nodes, NEW u \in Units, u \in Written(m)' PROVE Current(m, u)'
    BY DEF WrittenCurrent, Written
  <2>1. free' = free /\ tool' = tool /\ Desc(m, u)' = Desc(m, u)
    BY DEF InsertEntity, toolVars, Desc, GetIp
  <2>2. CASE m = n /\ u = punit[n]
    BY <1>1, <1>4, <2>1, <2>2 DEF Current
  <2>3. CASE Desc(m, u) = k /\ m # n
    <3>1. {m, n} \cap Eno1 = {}
      BY <1>1, <2>3, DescApart
    <3>2. WrittenOver(m, rows'[Desc(m, u)])
      BY <1>4, <2>3, <3>1 DEF WrittenOver
    <3> QED
      BY <1>4, <2>1, <2>3, <3>2 DEF Current, WrittenOver
  <2>4. CASE Desc(m, u) # k
    <3>2. u \in Written(m)
      BY <1>1, <2>4, FirstUnit DEF Written, InsertEntity, Become, AfterInsert, TypeOK
    <3>3. Current(m, u)
      BY <3>2 DEF WrittenCurrent
    <3> QED
      BY <1>4, <2>1, <2>4, <3>3 DEF Current, WrittenOver
  <2>5. CASE Desc(m, u) = k /\ m = n
    BY <1>1, <2>2, <2>5, DescApart
  <2> QED
    BY <2>3, <2>4, <2>5
<1>8. TagsGiven'
  BY <1>4, TableElim DEF TagsGiven, InsertEntity, toolVars, TypeOK, Row
<1>9. DeletedSoFar'
  <2> SUFFICES ASSUME NEW t \in Tools, tool[t] \in {"deleting", "done"},
                      NEW j \in (DOMAIN listed[t] \cap DOMAIN rows') \ todo[t]
               PROVE  rows'[j].tag > listed[t][j]
    BY DEF DeletedSoFar, InsertEntity, toolVars
  <2>1. CASE j = k
    <3>1. listed[t][j] <= inserts /\ listed[t][j] \in Nat
      BY TableElim DEF TagsGiven, TypeOK
    <3> QED
      BY <1>4, <2>1, <3>1 DEF TypeOK
  <2>2. CASE j # k
    BY <1>4, <2>2 DEF DeletedSoFar
  <2> QED
    BY <2>1, <2>2
<1> QED
  BY <1>5, <1>6, <1>7, <1>8, <1>9

(* The tool's query lists the rows of one moment. *)
LEMMA ExecuteQueryInv == ASSUME IInv, NEW t \in Tools, ExecuteQuery(t) PROVE IInv'
<1> DEFINE tags == [k \in DOMAIN rows |-> rows[k].tag]
<1> USE DEF IInv, ExecuteQuery
<1>1. LoopAtUnit' /\ WrittenCurrent'
  BY ToolOnlyStep
<1>2. DOMAIN rows \in SUBSET Keys /\ rows \in [DOMAIN rows -> Row]
  BY TableElim DEF TypeOK
<1>3. tags \in [DOMAIN rows -> Nat]
  BY <1>2 DEF Row
<1>4. tags \in TablesOf(Nat)
  BY <1>2, <1>3, TableIntro
<1>5. TypeOK'
  BY <1>2, <1>4 DEF TypeOK, serverVars
<1>6. TagsGiven'
  BY DEF TagsGiven, TypeOK
<1>7. DeletedSoFar'
  BY DEF DeletedSoFar, TypeOK
<1> QED
  BY <1>1, <1>5, <1>6, <1>7

(* The tool deletes a row. *)
LEMMA DeleteEntityInv ==
  ASSUME IInv, NEW t \in Tools, NEW k \in todo[t], DeleteEntity(t, k) PROVE IInv'
<1> USE DEF IInv, DeleteEntity
<1>1. DOMAIN rows \in SUBSET Keys /\ rows \in [DOMAIN rows -> Row]
  BY TableElim DEF TypeOK
<1>2. /\ DOMAIN rows' = DOMAIN rows \ {k}
      /\ \A j \in DOMAIN rows \ {k} : rows'[j] = rows[j]
      /\ rows' \in [DOMAIN rows \ {k} -> Row]
  BY <1>1
<1>3. TypeOK'
  <2>1. rows' \in TablesOf(Row)
    BY <1>1, <1>2, TableIntro
  <2> QED
    BY <2>1 DEF TypeOK, serverVars
<1>4. LoopAtUnit'
  BY DEF LoopAtUnit, serverVars
<1>5. WrittenCurrent'
  <2> SUFFICES ASSUME NEW m \in Nodes, NEW u \in Units, u \in Written(m)' PROVE Current(m, u)'
    BY DEF WrittenCurrent, Written
  <2>1. Current(m, u)
    BY DEF WrittenCurrent, Written, serverVars
  <2>2. free' = free /\ tool' = tool /\ tool[t] # "start" /\ Desc(m, u)' = Desc(m, u)
    BY DEF serverVars, Desc, GetIp
  <2> QED
    BY <1>2, <2>1, <2>2 DEF Current, WrittenOver
<1>6. TagsGiven'
  BY <1>2 DEF TagsGiven
<1>7. DeletedSoFar'
  BY <1>2 DEF DeletedSoFar, TypeOK
<1> QED
  BY <1>3, <1>4, <1>5, <1>6, <1>7

(* The tool ends, with an exception or at the end of its list. *)
LEMMA ToolEndsInv ==
  ASSUME IInv, NEW t \in Tools, DeleteDone(t) \/ DeleteFails(t)
  PROVE  IInv'
<1> USE DEF IInv
<1>1. CASE DeleteDone(t)
  <2>1. LoopAtUnit' /\ WrittenCurrent'
    BY <1>1, ToolOnlyStep DEF DeleteDone
  <2>2. TypeOK' /\ TagsGiven' /\ DeletedSoFar'
    BY <1>1 DEF DeleteDone, TypeOK, TagsGiven, DeletedSoFar, serverVars
  <2> QED
    BY <2>1, <2>2
<1>2. CASE DeleteFails(t)
  <2>1. LoopAtUnit' /\ WrittenCurrent'
    BY <1>2, ToolOnlyStep DEF DeleteFails
  <2>2. TypeOK'
    BY <1>2, EmptyTable DEF DeleteFails, TypeOK, serverVars
  <2>3. TagsGiven' /\ DeletedSoFar'
    BY <1>2, EmptyTable DEF DeleteFails, TypeOK, TagsGiven, DeletedSoFar
  <2> QED
    BY <2>1, <2>2, <2>3
<1> QED
  BY <1>1, <1>2

-----------------------------------------------------------------------------

(* Every step keeps the invariant. *)
LEMMA NextInv == IInv /\ [Next]_vars => IInv'
<1> SUFFICES ASSUME IInv, [Next]_vars PROVE IInv'
  OBVIOUS
<1>1. ASSUME NEW n \in Nodes, Boot(n) PROVE IInv'
  BY <1>1, BootInv
<1>2. ASSUME NEW n \in Nodes, NEW u \in Units, Allocate(n, u) PROVE IInv'
  BY <1>2, AllocateInv
<1>3. ASSUME NEW n \in Nodes, GetStats(n) PROVE IInv'
  BY <1>3, GetStatsInv
<1>4. ASSUME NEW n \in Nodes, InsertEntity(n) PROVE IInv'
  BY <1>4, InsertEntityInv
<1>5. ASSUME NEW n \in Nodes, InsertFails(n) \/ Interrupt(n) PROVE IInv'
  BY <1>5, DieInv DEF InsertFails, Interrupt
<1>6. ASSUME NEW t \in Tools, ExecuteQuery(t) PROVE IInv'
  BY <1>6, ExecuteQueryInv
<1>7. ASSUME NEW t \in Tools, NEW k \in todo[t], DeleteEntity(t, k) PROVE IInv'
  BY <1>7, DeleteEntityInv
<1>8. ASSUME NEW t \in Tools, DeleteDone(t) \/ DeleteFails(t) PROVE IInv'
  BY <1>8, ToolEndsInv
<1>9. CASE UNCHANGED vars
  BY <1>9
     DEF IInv, vars, TypeOK, LoopAtUnit, WrittenCurrent, Written, Current,
         TagsGiven, DeletedSoFar, Desc, GetIp
<1> QED
  BY <1>1, <1>2, <1>3, <1>4, <1>5, <1>6, <1>7, <1>8, <1>9 DEF Next, ServerStep, ToolStep

(* So it holds in every reachable state. *)
LEMMA TableInvariant == Spec => []IInv
<1> QED
  BY InitInv, NextInv, PTL DEF Spec

(* Through restarts, failed inserts and deletions, what the table shows of *)
(* a serving node's devices is what is free, unless the node has no        *)
(* address and another one without has published the same key since.       *)
THEOREM TableRowsCurrent == Spec => []RowsCurrent
<1>1. IInv => RowsCurrent
  BY DEF IInv, RowsCurrent, WrittenCurrent, Written, Current
<1> QED
  BY <1>1, TableInvariant, PTL

(* azure_delete_entities that comes to its end left no row of its listing: *)
(* the rows with those keys were published after its query.                *)
THEOREM TableDeletionComplete == Spec => []DeletionComplete
<1>1. IInv => DeletionComplete
  BY DEF IInv, DeletionComplete, DeletedSoFar
<1> QED
  BY <1>1, TableInvariant, PTL

=============================================================================
