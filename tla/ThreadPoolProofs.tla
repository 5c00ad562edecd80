--------------------------- MODULE ThreadPoolProofs ---------------------------
(***************************************************************************)
(* Proofs about ThreadPool, for any number of appending threads, workers   *)
(* and requests and any m_max_requests: the queue is bounded, no wake-up   *)
(* is lost, and every accepted request is in exactly one place.            *)
(***************************************************************************)
EXTENDS ThreadPool, FiniteSetTheorems, FunctionTheorems, SequenceTheorems, TLAPS

-----------------------------------------------------------------------------
(* The inductive invariant *)

AppenderLabels == {"idle", "lock", "locked", "push", "post"}
WorkerLabels == {"loop", "wait", "lock", "locked", "pop", "process", "exited"}

TypeOK ==
  /\ m_workqueue \in Seq(Requests)
  /\ m_queuelocker \in Threads \cup {Nobody}
  /\ m_queuestat \in Nat
  /\ m_stop \in BOOLEAN
  /\ pc \in [Threads -> AppenderLabels \cup WorkerLabels]
  /\ \A a \in Appenders : pc[a] \in AppenderLabels
  /\ \A w \in Workers : pc[w] \in WorkerLabels
  /\ hand \in [Threads -> Requests]
  /\ calls \in SUBSET Requests
  /\ accepted \in SUBSET calls
  /\ processed \in [Requests -> Nat]

(* The holder of the mutex is the one thread between lock and unlock. *)
MutexHeld ==
  \A t \in Threads : pc[t] \in {"locked", "push", "pop"} <=> m_queuelocker = t

(* What a thread has seen under the mutex still holds when it acts on it. *)
SeenHolds ==
  /\ \A a \in Appenders : pc[a] = "push" => Len(m_workqueue) <= m_max_requests
  /\ \A w \in Workers : pc[w] = "pop" =>
       m_workqueue # << >> /\ hand[w] = m_workqueue[1]

(* An append that has not pushed yet. *)
Appending(a) == pc[a] \in {"lock", "locked", "push"}

(* Its request is not accepted, and no other append's. *)
OwnRequest ==
  \A a \in Appenders : Appending(a) =>
    /\ hand[a] \in calls \ accepted
    /\ \A b \in Appenders \ {a} : Appending(b) => hand[b] # hand[a]

Ctl == TypeOK /\ MutexHeld /\ SeenHolds /\ OwnRequest /\ QueueBounded

IInv == Ctl /\ NoLostWakeup /\ EachOnce

-----------------------------------------------------------------------------
(* Sets of threads and of positions *)

Posting == {a \in Appenders : pc[a] = "post"}
Awake == {w \in Workers : pc[w] \in {"lock", "locked", "pop"}}

(* The threads are finitely many and of two disjoint kinds. *)
LEMMA ThreadSets ==
  /\ Appenders \subseteq Threads /\ Workers \subseteq Threads
  /\ Appenders \cap Workers = {} /\ Nobody \notin Threads
  /\ IsFiniteSet(Appenders) /\ IsFiniteSet(Workers)
BY PoolAssumption DEF Threads

(* The counted sets of threads are finite. *)
LEMMA CountedThreads ==
  /\ IsFiniteSet(Posting) /\ Cardinality(Posting) \in Nat
  /\ IsFiniteSet(Awake) /\ Cardinality(Awake) \in Nat
  /\ \A r : IsFiniteSet(HeldBy(r)) /\ Cardinality(HeldBy(r)) \in Nat
<1>1. IsFiniteSet(Posting) /\ IsFiniteSet(Awake) /\ \A r : IsFiniteSet(HeldBy(r))
  BY ThreadSets, FS_Subset DEF Posting, Awake, HeldBy
<1> QED
  BY <1>1, FS_CardinalityType

(* The positions of a request in a queue. *)
Places(q, r) == {i \in DOMAIN q : q[i] = r}

(* They are finitely many. *)
LEMMA CountedPlaces ==
  ASSUME NEW q \in Seq(Requests), NEW r
  PROVE  /\ Places(q, r) \subseteq 1 .. Len(q)
         /\ IsFiniteSet(Places(q, r)) /\ Cardinality(Places(q, r)) \in Nat
<1> DEFINE S == Places(q, r)
<1>1. DOMAIN q = 1 .. Len(q) /\ Len(q) \in Nat
  BY LenProperties
<1>2. S \in SUBSET (1 .. Len(q)) /\ IsFiniteSet(1 .. Len(q))
  BY <1>1, FS_Interval DEF Places
<1>3. IsFiniteSet(S)
  BY <1>2, FS_Subset
<1> QED
  BY <1>2, <1>3, FS_CardinalityType

(* push_back: one more place for the request pushed, none for the others. *)
LEMMA PushCount ==
  ASSUME NEW q \in Seq(Requests), NEW x \in Requests, NEW r
  PROVE  Cardinality(Places(Append(q, x), r)) =
           IF r = x THEN Cardinality(Places(q, r)) + 1 ELSE Cardinality(Places(q, r))
<1> DEFINE p == Append(q, x)
           S == Places(q, r)
           T == Places(p, r)
<1>1. /\ DOMAIN q = 1 .. Len(q) /\ Len(q) \in Nat
      /\ p \in Seq(Requests) /\ Len(p) = Len(q) + 1
      /\ \A i \in 1 .. Len(q) : p[i] = q[i]
      /\ p[Len(q) + 1] = x
  BY LenProperties, AppendProperties
<1>2. DOMAIN p = 1 .. Len(q) + 1
  BY <1>1, LenProperties
<1>3. IsFiniteSet(S) /\ S \subseteq 1 .. Len(q)
  BY CountedPlaces
<1>4. CASE r = x
  <2>1. T = S \cup {Len(q) + 1} /\ Len(q) + 1 \notin S
    BY <1>1, <1>2, <1>4 DEF Places
  <2> QED
    BY <1>3, <1>4, <2>1, FS_AddElement, ZenonT(30)
<1>5. CASE r # x
  <2>1. T = S
    BY <1>1, <1>2, <1>5 DEF Places
  <2> QED
    BY <1>5, <2>1
<1> QED
  BY <1>4, <1>5

(* pop_front: the queue without its first place. *)
LEMMA PopQueue ==
  ASSUME NEW q \in Seq(Requests), q # << >>
  PROVE  LET p == SubSeq(q, 2, Len(q))
         IN  /\ p \in Seq(Requests)
             /\ Len(q) \in Nat \ {0} /\ Len(p) = Len(q) - 1
             /\ \A i \in 1 .. Len(q) - 1 : p[i] = q[i + 1]
<1> DEFINE p == SubSeq(q, 2, Len(q))
<1>1. Len(q) \in Nat \ {0} /\ \A i \in 2 .. Len(q) : q[i] \in Requests
  BY EmptySeq, ElementOfSeq
<1>2. /\ p \in Seq(Requests)
      /\ Len(p) = IF 2 <= Len(q) THEN Len(q) - 2 + 1 ELSE 0
      /\ \A i \in 1 .. Len(q) - 2 + 1 : p[i] = q[2 + i - 1]
  BY <1>1, SubSeqProperties
<1> HIDE DEF p
<1>3. Len(p) = Len(q) - 1
  <2> DEFINE n == Len(q)
  <2>0. n \in Nat \ {0}
    BY <1>1
  <2>1. Len(p) = IF 2 <= Len(q) THEN Len(q) - 2 + 1 ELSE 0
    BY <1>2
  <2>2. CASE Len(q) = 1
    BY <2>1, <2>2
  <2>3. CASE Len(q) # 1
    <3>1. n # 1
      BY <2>3
    <3>2. 2 <= n /\ n - 2 + 1 = n - 1
      <4> HIDE DEF n
      <4> QED
        BY <2>0, <3>1
    <3> QED
      BY <2>1, <3>2
  <2> QED
    BY <2>2, <2>3
<1>4. ASSUME NEW i \in 1 .. Len(q) - 1 PROVE p[i] = q[i + 1]
  <2>1. i \in 1 .. Len(q) - 2 + 1 /\ 2 + i - 1 = i + 1
    BY <1>1
  <2>2. p[i] = q[2 + i - 1]
    BY <1>2, <2>1
  <2> QED
    BY <2>1, <2>2
<1> QED
  BY <1>1, <1>2, <1>3, <1>4 DEF p

(* pop_front: one place fewer for the front request, as many for the       *)
(* others: the places left are those past the first, each moved by one.    *)
LEMMA PopCount ==
  ASSUME NEW q \in Seq(Requests), q # << >>, NEW r
  PROVE  Cardinality(Places(SubSeq(q, 2, Len(q)), r)) =
           IF r = q[1] THEN Cardinality(Places(q, r)) - 1 ELSE Cardinality(Places(q, r))
<1> DEFINE p == SubSeq(q, 2, Len(q))
           S == Places(q, r)
           T == Places(p, r)
           F == [i \in T |-> i + 1]
<1>1. DOMAIN q = 1 .. Len(q) /\ Len(q) \in Nat \ {0}
  BY LenProperties, PopQueue
<1>2. /\ p \in Seq(Requests) /\ Len(p) = Len(q) - 1
      /\ \A i \in 1 .. Len(q) - 1 : p[i] = q[i + 1]
  BY PopQueue
<1>3. DOMAIN p = 1 .. Len(q) - 1
  BY <1>2, LenProperties
<1>4. IsFiniteSet(S) /\ IsFiniteSet(T) /\ S \subseteq 1 .. Len(q)
  BY <1>2, CountedPlaces
<1>5. F \in [T -> S \ {1}]
  BY <1>1, <1>2, <1>3 DEF Places
<1>6. \A i, j \in T : F[i] = F[j] => i = j
  BY <1>3 DEF Places
<1>7. \A j \in S \ {1} : \E i \in T : F[i] = j
  <2> SUFFICES ASSUME NEW j \in S \ {1} PROVE j - 1 \in T /\ F[j - 1] = j
    OBVIOUS
  <2> QED
    BY <1>1, <1>2, <1>3 DEF Places
<1>8. F \in Bijection(T, S \ {1})
  BY <1>5, <1>6, <1>7, Fun_IsBij
<1>9. Cardinality(S \ {1}) = Cardinality(T)
  <2> HIDE DEF S, T, F
  <2>1. ExistsBijection(T, S \ {1})
    BY <1>8, Fun_ExistsBij
  <2> QED
    BY <1>4, <2>1, FS_Bijection
<1>10. 1 \in S <=> r = q[1]
  BY <1>1 DEF Places
<1> QED
  BY <1>4, <1>9, <1>10, FS_RemoveElement

-----------------------------------------------------------------------------
(* Control: types, the mutex, and what is seen under it                    *)

(* The control invariant holds in a new pool. *)
LEMMA CtlInit == Init => Ctl
<1> SUFFICES ASSUME Init PROVE Ctl
  OBVIOUS
<1>1. TypeOK
  BY EmptySeq, PoolAssumption DEF Init, TypeOK, AppenderLabels, WorkerLabels, Threads
<1>2. Len(m_workqueue) = 0
  BY EmptySeq DEF Init
<1>3. \A t \in Threads : pc[t] \in {"loop", "idle"}
  BY DEF Init
<1> QED
  BY <1>1, <1>2, <1>3, ThreadSets, PoolAssumption
     DEF Ctl, MutexHeld, SeenHolds, OwnRequest, Appending, QueueBounded, Init

(* A step that goes on within or outside the critical section and leaves   *)
(* the queue, the mutex and what the appends hold alone.                   *)
LEMMA CtlLocalStep ==
  ASSUME Ctl, NEW t \in Threads, NEW label, Goto(t, label), TypeOK',
         UNCHANGED <<m_workqueue, m_queuelocker, calls, accepted>>,
         \A s \in Threads \ {t} : hand'[s] = hand[s],
         pc[t] \in {"locked", "push", "pop"} <=> label \in {"locked", "push", "pop"},
         label = "push" => Len(m_workqueue) <= m_max_requests,
         label = "pop" => m_workqueue # << >> /\ hand'[t] = m_workqueue[1],
         t \in Appenders /\ label \in {"lock", "locked", "push"} =>
           Appending(t) /\ hand'[t] = hand[t]
  PROVE  Ctl'
<1> USE DEF Ctl, Goto
<1>1. pc'[t] = label /\ \A s \in Threads \ {t} : pc'[s] = pc[s]
  BY DEF TypeOK
<1>2. MutexHeld'
  BY <1>1 DEF MutexHeld
<1>3. SeenHolds'
  BY <1>1, ThreadSets DEF SeenHolds
<1>4. OwnRequest'
  BY <1>1, ThreadSets DEF OwnRequest, Appending
<1>5. QueueBounded'
  BY DEF QueueBounded
<1> QED
  BY <1>2, <1>3, <1>4, <1>5

(* A step that leaves the critical section; the queue may have changed.    *)
LEMMA CtlUnlockStep ==
  ASSUME Ctl, NEW t \in Threads, pc[t] \in {"locked", "push", "pop"},
         NEW label \in {"idle", "post", "loop", "process"}, Goto(t, label), TypeOK',
         m_queuelocker' = Nobody, QueueBounded', UNCHANGED <<hand, calls>>,
         accepted' \subseteq accepted \cup {hand[t]},
         t \in Workers => accepted' = accepted
  PROVE  Ctl'
<1> USE DEF Ctl, Goto
<1>1. pc'[t] = label /\ \A s \in Threads \ {t} : pc'[s] = pc[s]
  BY DEF TypeOK
<1>2. m_queuelocker = t /\ \A s \in Threads \ {t} : pc[s] \notin {"locked", "push", "pop"}
  BY DEF MutexHeld
<1>3. MutexHeld'
  BY <1>1, <1>2, ThreadSets DEF MutexHeld
<1>4. SeenHolds'
  BY <1>1, <1>2, ThreadSets DEF SeenHolds
<1>5. OwnRequest'
  <2> SUFFICES ASSUME NEW a \in Appenders, Appending(a)'
               PROVE  /\ hand[a] \in calls \ accepted'
                      /\ \A b \in Appenders \ {a} : Appending(b)' => hand[b] # hand[a]
    BY DEF OwnRequest
  <2>1. a # t /\ Appending(a)
    BY <1>1, ThreadSets DEF Appending
  <2>2. \A b \in Appenders : Appending(b)' => Appending(b)
    BY <1>1, ThreadSets DEF Appending
  <2>3. hand[a] \notin accepted'
    <3>1. CASE t \in Workers
      BY <2>1, <3>1 DEF OwnRequest
    <3>2. CASE t \in Appenders
      <4>1. Appending(t)
        BY <3>2 DEF Appending, TypeOK, AppenderLabels
      <4> QED
        BY <2>1, <3>2, <4>1 DEF OwnRequest
    <3> QED
      BY <3>1, <3>2 DEF Threads
  <2> QED
    BY <2>1, <2>2, <2>3 DEF OwnRequest
<1> QED
  BY <1>3, <1>4, <1>5

(* Taking the mutex, which is free. *)
LEMMA CtlLock == ASSUME Ctl, NEW t \in Threads, Lock(t) PROVE Ctl'
<1> USE DEF Ctl, Lock, Goto
<1>1. TypeOK'
  BY ThreadSets DEF TypeOK, AppenderLabels, WorkerLabels
<1>2. pc'[t] = "locked" /\ \A s \in Threads \ {t} : pc'[s] = pc[s]
  BY DEF TypeOK
<1>3. MutexHeld'
  BY <1>2, ThreadSets DEF MutexHeld
<1>4. SeenHolds'
  BY <1>2, ThreadSets DEF SeenHolds
<1>5. OwnRequest'
  BY <1>2, ThreadSets DEF OwnRequest, Appending
<1> QED
  BY <1>1, <1>3, <1>4, <1>5 DEF QueueBounded

(* append is called with a request of its own. *)
LEMMA CtlCallAppend ==
  ASSUME Ctl, NEW a \in Appenders, NEW r \in Requests, CallAppend(a, r) PROVE Ctl'
<1> USE DEF Ctl, CallAppend, Goto
<1>1. TypeOK'
  BY ThreadSets DEF TypeOK, AppenderLabels, WorkerLabels
<1>2. /\ pc'[a] = "lock" /\ \A s \in Threads \ {a} : pc'[s] = pc[s]
      /\ hand'[a] = r /\ \A s \in Threads \ {a} : hand'[s] = hand[s]
  BY ThreadSets DEF TypeOK
<1>3. MutexHeld'
  BY <1>2, ThreadSets DEF MutexHeld
<1>4. SeenHolds'
  BY <1>2, ThreadSets DEF SeenHolds
<1>5. OwnRequest'
  BY <1>2, ThreadSets DEF OwnRequest, Appending, TypeOK
<1> QED
  BY <1>1, <1>3, <1>4, <1>5 DEF QueueBounded

(* The queue under PushRequest: within the bound, since the test holds. *)
LEMMA CtlPush == ASSUME Ctl, NEW a \in Appenders, PushRequest(a) PROVE Ctl'
<1> USE DEF Ctl, PushRequest
<1>1. a \in Threads /\ hand[a] \in Requests /\ hand[a] \in calls
  BY ThreadSets DEF TypeOK, OwnRequest, Appending
<1>2. m_workqueue' \in Seq(Requests) /\ Len(m_workqueue') = Len(m_workqueue) + 1
  BY <1>1, AppendProperties DEF TypeOK
<1>3. TypeOK'
  BY <1>1, <1>2, ThreadSets DEF TypeOK, AppenderLabels, WorkerLabels, Goto
<1>4. QueueBounded'
  BY <1>2, PoolAssumption, LenProperties DEF QueueBounded, SeenHolds, TypeOK
<1> QED
  BY <1>1, <1>3, <1>4, ThreadSets, CtlUnlockStep

(* The queue under PopFront. *)
LEMMA CtlPop == ASSUME Ctl, NEW w \in Workers, PopFront(w) PROVE Ctl'
<1> USE DEF Ctl, PopFront
<1>1. w \in Threads /\ m_workqueue # << >>
  BY ThreadSets DEF SeenHolds
<1>2. Len(m_workqueue) \in Nat \ {0}
  BY <1>1, PopQueue DEF TypeOK
<1>3. m_workqueue' \in Seq(Requests) /\ Len(m_workqueue') = Len(m_workqueue) - 1
  BY <1>1, PopQueue DEF TypeOK
<1>4. TypeOK'
  BY <1>1, <1>3, ThreadSets DEF TypeOK, AppenderLabels, WorkerLabels, Goto
<1>5. QueueBounded'
  BY <1>2, <1>3, PoolAssumption DEF QueueBounded
<1> QED
  BY <1>1, <1>4, <1>5, CtlUnlockStep

(* The remaining steps of append. *)
LEMMA CtlAppendStep == ASSUME Ctl, NEW a \in Appenders, AppendStep(a) PROVE Ctl'
<1> USE DEF Ctl
<1>0. a \in Threads /\ a \notin Workers
  BY ThreadSets
<1>1. CASE Lock(a)
  BY <1>0, <1>1, CtlLock
<1>2. CASE RejectRequest(a)
  <2>1. TypeOK'
    BY <1>0, <1>2, ThreadSets DEF RejectRequest, TypeOK, AppenderLabels, WorkerLabels, Goto
  <2> QED
    BY <1>0, <1>2, <2>1, CtlUnlockStep DEF RejectRequest, QueueBounded
<1>3. CASE AdmitRequest(a)
  <2>1. TypeOK'
    BY <1>0, <1>3, ThreadSets DEF AdmitRequest, TypeOK, AppenderLabels, WorkerLabels, Goto
  <2> QED
    BY <1>0, <1>3, <2>1, CtlLocalStep DEF AdmitRequest, Appending
<1>4. CASE PushRequest(a)
  BY <1>4, CtlPush
<1>5. CASE PostRequest(a)
  <2>1. TypeOK'
    BY <1>0, <1>5, ThreadSets DEF PostRequest, TypeOK, AppenderLabels, WorkerLabels, Goto
  <2> QED
    BY <1>0, <1>5, <2>1, CtlLocalStep DEF PostRequest
<1> QED
  BY <1>1, <1>2, <1>3, <1>4, <1>5 DEF AppendStep

(* The steps of run, failing waits included. *)
LEMMA CtlWorkerStep ==
  ASSUME Ctl, NEW w \in Workers, WorkerStep(w) \/ WaitInterrupted(w) PROVE Ctl'
<1> USE DEF Ctl
<1>0. w \in Threads /\ w \notin Appenders
  BY ThreadSets
<1>1. CASE LoopHead(w)
  <2>1. TypeOK'
    BY <1>0, <1>1, ThreadSets DEF LoopHead, TypeOK, AppenderLabels, WorkerLabels, Goto
  <2> DEFINE label == IF m_stop THEN "exited" ELSE "wait"
  <2>2. label \notin {"lock", "locked", "push", "pop"} /\ Goto(w, label)
    BY <1>1 DEF LoopHead
  <2> HIDE DEF label
  <2> QED
    BY <1>0, <1>1, <2>1, <2>2, CtlLocalStep DEF LoopHead
<1>2. CASE WaitForRequest(w)
  <2>1. m_queuestat' \in Nat
    BY <1>2 DEF WaitForRequest, TypeOK
  <2>2. TypeOK'
    BY <1>0, <1>2, <2>1, ThreadSets
       DEF WaitForRequest, TypeOK, AppenderLabels, WorkerLabels, Goto
  <2> QED
    BY <1>0, <1>2, <2>2, CtlLocalStep DEF WaitForRequest
<1>8. CASE WaitInterrupted(w)
  <2>1. TypeOK'
    BY <1>0, <1>8, ThreadSets
       DEF WaitInterrupted, TypeOK, AppenderLabels, WorkerLabels, Goto
  <2> QED
    BY <1>0, <1>8, <2>1, CtlLocalStep DEF WaitInterrupted
<1>3. CASE Lock(w)
  BY <1>0, <1>3, CtlLock
<1>4. CASE FindEmpty(w)
  <2>1. TypeOK'
    BY <1>0, <1>4, ThreadSets DEF FindEmpty, TypeOK, AppenderLabels, WorkerLabels, Goto
  <2> QED
    BY <1>0, <1>4, <2>1, CtlUnlockStep DEF FindEmpty, QueueBounded
<1>5. CASE ReadFront(w)
  <2>1. Head(m_workqueue) = m_workqueue[1] /\ Head(m_workqueue) \in Requests
    BY <1>5, HeadTailProperties DEF ReadFront, TypeOK
  <2>2. TypeOK'
    BY <1>0, <1>5, <2>1, ThreadSets DEF ReadFront, TypeOK, AppenderLabels, WorkerLabels, Goto
  <2>3. hand'[w] = m_workqueue[1] /\ \A s \in Threads \ {w} : hand'[s] = hand[s]
    BY <1>0, <1>5, <2>1 DEF ReadFront, TypeOK
  <2> QED
    BY <1>0, <1>5, <2>2, <2>3, CtlLocalStep DEF ReadFront
<1>6. CASE PopFront(w)
  BY <1>6, CtlPop
<1>7. CASE ProcessRequest(w)
  <2>1. TypeOK'
    BY <1>0, <1>7, ThreadSets, PoolAssumption
       DEF ProcessRequest, TypeOK, AppenderLabels, WorkerLabels, Goto
  <2>2. \A s \in Threads \ {w} : hand'[s] = hand[s]
    BY <1>0, <1>7 DEF ProcessRequest, TypeOK
  <2> QED
    BY <1>0, <1>7, <2>1, <2>2, CtlLocalStep DEF ProcessRequest
<1> QED
  BY <1>1, <1>2, <1>3, <1>4, <1>5, <1>6, <1>7, <1>8 DEF WorkerStep

(* Every step keeps the control invariant. *)
LEMMA CtlNext == ASSUME Ctl, [Next]_vars PROVE Ctl'
<1>1. CASE Destroy
  BY <1>1 DEF Destroy, Ctl, TypeOK, MutexHeld, SeenHolds, OwnRequest, Appending, QueueBounded
<1>2. CASE UNCHANGED vars
  BY <1>2 DEF vars, Ctl, TypeOK, MutexHeld, SeenHolds, OwnRequest, Appending, QueueBounded
<1> QED
  BY <1>1, <1>2, CtlAppendStep, CtlCallAppend, CtlWorkerStep DEF Next

-----------------------------------------------------------------------------
(* Wake-ups *)

(* NoLostWakeup, with the counted sets named. *)
LEMMA WakeupSets ==
  NoLostWakeup <=>
    Len(m_workqueue) <= m_queuestat + Cardinality(Posting) + Cardinality(Awake)
BY DEF NoLostWakeup, Posting, Awake

(* A step of an append moves it into or out of the posting ones. *)
LEMMA MovedAppender ==
  ASSUME TypeOK, NEW a \in Appenders, NEW label, Goto(a, label)
  PROVE  /\ Awake' = Awake
         /\ label = "post" => Posting' = Posting \cup {a}
         /\ label # "post" => Posting' = Posting \ {a}
         /\ a \in Posting <=> pc[a] = "post"
<1>1. pc'[a] = label /\ \A s \in Threads \ {a} : pc'[s] = pc[s]
  BY ThreadSets DEF TypeOK, Goto
<1> QED
  BY <1>1, ThreadSets DEF Posting, Awake

(* A step of a worker moves it into or out of the ones past the wait. *)
LEMMA MovedWorker ==
  ASSUME TypeOK, NEW w \in Workers, NEW label, Goto(w, label)
  PROVE  /\ Posting' = Posting
         /\ label \in {"lock", "locked", "pop"} => Awake' = Awake \cup {w}
         /\ label \notin {"lock", "locked", "pop"} => Awake' = Awake \ {w}
         /\ w \in Awake <=> pc[w] \in {"lock", "locked", "pop"}
<1>1. pc'[w] = label /\ \A s \in Threads \ {w} : pc'[s] = pc[s]
  BY ThreadSets DEF TypeOK, Goto
<1> QED
  BY <1>1, ThreadSets DEF Posting, Awake

(* In a new pool nothing is queued. *)
LEMMA WakeupInit == Init => NoLostWakeup
<1> SUFFICES ASSUME Init PROVE NoLostWakeup
  OBVIOUS
<1>1. Len(m_workqueue) = 0 /\ m_queuestat = 0
  BY EmptySeq DEF Init
<1> QED
  BY <1>1, WakeupSets, CountedThreads

(* append: the post follows the push, and until then the append counts. *)
LEMMA WakeupAppend ==
  ASSUME Ctl, NoLostWakeup, NEW a \in Appenders,
         AppendStep(a) \/ \E r \in Requests : CallAppend(a, r)
  PROVE  NoLostWakeup'
<1> USE DEF Ctl
<1>0. /\ a \in Threads /\ a \notin Workers 
      /\ Len(m_workqueue) \in Nat /\ m_queuestat \in Nat
      /\ Cardinality(Posting) \in Nat /\ Cardinality(Awake) \in Nat
  BY ThreadSets, LenProperties, CountedThreads DEF TypeOK, Awake
<1>1. ASSUME NEW label, label # "post", Goto(a, label), pc[a] # "post",
             UNCHANGED <<m_workqueue, m_queuestat>>
      PROVE  NoLostWakeup'
  <2>1. Posting' = Posting \ {a} /\ a \notin Posting /\ Awake' = Awake
    BY <1>1, MovedAppender
  <2> QED
    BY <1>1, <2>1, WakeupSets DEF NoLostWakeup, Posting, Awake
<1>2. CASE PushRequest(a)
  <2>1. Posting' = Posting \cup {a} /\ Awake' = Awake /\ a \notin Posting
    BY <1>0, <1>2, MovedAppender DEF PushRequest
  <2>2. Len(m_workqueue') = Len(m_workqueue) + 1
    BY <1>0, <1>2, AppendProperties DEF PushRequest, TypeOK
  <2>3. Cardinality(Posting') = Cardinality(Posting) + 1
    BY <2>1, CountedThreads, FS_AddElement
  <2>4. m_queuestat' = m_queuestat
    BY <1>2 DEF PushRequest
  <2>5. Len(m_workqueue') <= m_queuestat' + Cardinality(Posting') + Cardinality(Awake')
    BY <1>0, <2>1, <2>2, <2>3, <2>4, WakeupSets
  <2> QED
    BY <2>5 DEF NoLostWakeup, Posting, Awake
<1>3. CASE PostRequest(a)
  <2>1. Posting' = Posting \ {a} /\ Awake' = Awake /\ a \in Posting
    BY <1>0, <1>3, MovedAppender DEF PostRequest
  <2>2. Cardinality(Posting') = Cardinality(Posting) - 1
    BY <2>1, CountedThreads, FS_RemoveElement
  <2>3. m_queuestat' = m_queuestat + 1 /\ m_workqueue' = m_workqueue
    BY <1>3 DEF PostRequest
  <2>4. Len(m_workqueue') <= m_queuestat' + Cardinality(Posting') + Cardinality(Awake')
    BY <1>0, <2>1, <2>2, <2>3, WakeupSets
  <2> QED
    BY <2>4 DEF NoLostWakeup, Posting, Awake
<1> QED
  BY <1>1, <1>2, <1>3
     DEF AppendStep, Lock, RejectRequest, AdmitRequest, CallAppend

(* run: a worker takes a count, or none when its wait fails, before it     *)
(* looks at the queue; it takes a request with it when it stops counting,  *)
(* or leaves an empty queue.                                               *)
LEMMA WakeupWorker ==
  ASSUME Ctl, NoLostWakeup, NEW w \in Workers, WorkerStep(w) \/ WaitInterrupted(w)
  PROVE  NoLostWakeup'
<1> USE DEF Ctl
<1>0. /\ w \in Threads /\ w \notin Appenders 
      /\ Len(m_workqueue) \in Nat /\ m_queuestat \in Nat
      /\ Cardinality(Posting) \in Nat /\ Cardinality(Awake) \in Nat
  BY ThreadSets, LenProperties, CountedThreads DEF TypeOK, Posting
<1>1. ASSUME NEW label, Goto(w, label),
             label \in {"lock", "locked", "pop"} <=> pc[w] \in {"lock", "locked", "pop"},
             UNCHANGED <<m_workqueue, m_queuestat>>
      PROVE  NoLostWakeup'
  <2>1. Posting' = Posting
    BY <1>1, MovedWorker
  <2>2. Awake' = Awake
    <3>1. CASE label \in {"lock", "locked", "pop"}
      <4>1. Awake' = Awake \cup {w} /\ w \in Awake
        BY <1>1, <3>1, MovedWorker
      <4> QED
        BY <4>1
    <3>2. CASE label \notin {"lock", "locked", "pop"}
      <4>1. Awake' = Awake \ {w} /\ w \notin Awake
        BY <1>1, <3>2, MovedWorker
      <4> QED
        BY <4>1
    <3> QED
      BY <3>1, <3>2
  <2> QED
    BY <1>1, <2>1, <2>2, WakeupSets DEF NoLostWakeup, Posting, Awake
<1>2. CASE WaitForRequest(w) \/ WaitInterrupted(w)
  <2>1. Posting' = Posting /\ Awake' = Awake \cup {w} /\ w \notin Awake
    BY <1>0, <1>2, MovedWorker DEF WaitForRequest, WaitInterrupted
  <2>2. Cardinality(Awake') = Cardinality(Awake) + 1
    BY <2>1, CountedThreads, FS_AddElement
  <2>3. m_workqueue' = m_workqueue /\ m_queuestat' \in {m_queuestat, m_queuestat - 1}
    BY <1>2 DEF WaitForRequest, WaitInterrupted
  <2>4. Len(m_workqueue') <= m_queuestat' + Cardinality(Posting') + Cardinality(Awake')
    BY <1>0, <2>1, <2>2, <2>3, WakeupSets
  <2> QED
    BY <2>4 DEF NoLostWakeup, Posting, Awake
<1>3. CASE FindEmpty(w)
  <2>1. Posting' = Posting /\ Awake' = Awake \ {w}
    BY <1>0, <1>3, MovedWorker DEF FindEmpty
  <2>2. Cardinality(Awake') \in Nat
    BY <2>1, CountedThreads, FS_RemoveElement, FS_CardinalityType
  <2>3. Len(m_workqueue') = 0 /\ m_queuestat' = m_queuestat
    BY <1>3, EmptySeq DEF FindEmpty
  <2>4. Len(m_workqueue') <= m_queuestat' + Cardinality(Posting') + Cardinality(Awake')
    BY <1>0, <2>1, <2>2, <2>3
  <2> QED
    BY <2>4 DEF NoLostWakeup, Posting, Awake
<1>4. CASE PopFront(w)
  <2>1. Posting' = Posting /\ Awake' = Awake \ {w} /\ w \in Awake
    BY <1>0, <1>4, MovedWorker DEF PopFront
  <2>2. Cardinality(Awake') = Cardinality(Awake) - 1
    BY <2>1, CountedThreads, FS_RemoveElement
  <2>3. Len(m_workqueue') = Len(m_workqueue) - 1 /\ m_queuestat' = m_queuestat
    BY <1>4, PopQueue DEF PopFront, SeenHolds, TypeOK
  <2>4. Len(m_workqueue') <= m_queuestat' + Cardinality(Posting') + Cardinality(Awake')
    BY <1>0, <2>1, <2>2, <2>3, WakeupSets
  <2> QED
    BY <2>4 DEF NoLostWakeup, Posting, Awake
<1>5. CASE LoopHead(w) \/ Lock(w) \/ ReadFront(w) \/ ProcessRequest(w)
  BY <1>1, <1>5 DEF LoopHead, Lock, ReadFront, ProcessRequest
<1> QED
  BY <1>2, <1>3, <1>4, <1>5 DEF WorkerStep

-----------------------------------------------------------------------------
(* Each request in one place *)

(* Queued(r) are the positions of r in the queue. *)
LEMMA QueuedPlaces ==
  \A r : Queued(r) = Places(m_workqueue, r) /\ Queued(r)' = Places(m_workqueue', r)
BY DEF Queued, Places

(* A step that touches neither the queue nor a request in process. *)
LEMMA SamePlaces ==
  ASSUME EachOnce, UNCHANGED <<m_workqueue, processed, accepted>>,
         \A r \in Requests \ {NullRequest} : HeldBy(r)' = HeldBy(r)
  PROVE  EachOnce'
<1> SUFFICES ASSUME NEW r \in Requests \ {NullRequest}
             PROVE  Cardinality(Queued(r)') + Cardinality(HeldBy(r)') + processed'[r]
                      = IF r \in accepted' THEN 1 ELSE 0
  BY DEF EachOnce
<1>1. Queued(r)' = Queued(r) /\ HeldBy(r)' = HeldBy(r)
  BY DEF Queued
<1> QED
  BY <1>1 DEF EachOnce

(* Who is not a worker in process, before and after, holds nothing. *)
LEMMA SameHeld ==
  ASSUME TypeOK, NEW t \in Threads, NEW label, Goto(t, label),
         \A s \in Threads \ {t} : hand'[s] = hand[s],
         t \in Workers => pc[t] # "process" /\ label # "process",
         NEW r
  PROVE  HeldBy(r)' = HeldBy(r)
<1>1. pc'[t] = label /\ \A s \in Threads \ {t} : pc'[s] = pc[s]
  BY DEF TypeOK, Goto
<1> QED
  BY <1>1, ThreadSets DEF HeldBy

(* Nothing is accepted yet in a new pool. *)
LEMMA OnceInit == Init => EachOnce
<1> SUFFICES ASSUME Init, NEW r \in Requests \ {NullRequest}
             PROVE  Cardinality(Queued(r)) + Cardinality(HeldBy(r)) + processed[r]
                      = IF r \in accepted THEN 1 ELSE 0
  BY DEF EachOnce
<1>1. Queued(r) = {}
  BY DEF Init, Queued
<1>2. HeldBy(r) = {}
  BY ThreadSets DEF Init, HeldBy
<1>3. processed[r] = 0 /\ r \notin accepted
  BY DEF Init
<1> QED
  BY <1>1, <1>2, <1>3, FS_EmptySet

(* append pushes a request that was in no place before. *)
LEMMA OncePush == ASSUME Ctl, EachOnce, NEW a \in Appenders, PushRequest(a) PROVE EachOnce'
<1> SUFFICES ASSUME NEW r \in Requests \ {NullRequest}
             PROVE  Cardinality(Queued(r)') + Cardinality(HeldBy(r)') + processed'[r]
                      = IF r \in accepted' THEN 1 ELSE 0
  BY DEF EachOnce
<1> USE DEF Ctl
<1>1. /\ a \in Threads /\ a \notin Workers
      /\ hand[a] \in Requests /\ hand[a] \notin accepted
  BY ThreadSets DEF TypeOK, OwnRequest, Appending, PushRequest
<1>2. HeldBy(r)' = HeldBy(r) /\ processed'[r] = processed[r]
  BY <1>1, SameHeld DEF PushRequest
<1>3. Cardinality(Queued(r)') =
        IF r = hand[a] THEN Cardinality(Queued(r)) + 1 ELSE Cardinality(Queued(r))
  BY <1>1, PushCount, QueuedPlaces DEF PushRequest, TypeOK
<1>4. /\ Cardinality(Queued(r)) \in Nat /\ Cardinality(HeldBy(r)) \in Nat
      /\ processed[r] \in Nat
  BY CountedPlaces, CountedThreads, QueuedPlaces DEF TypeOK
<1>5. accepted' = accepted \cup {hand[a]}
  BY DEF PushRequest
<1>6. Cardinality(Queued(r)) + Cardinality(HeldBy(r)) + processed[r]
        = IF r \in accepted THEN 1 ELSE 0
  BY DEF EachOnce
<1> QED
  BY <1>1, <1>2, <1>3, <1>4, <1>5, <1>6

(* run moves the front request from the queue into its hand. *)
LEMMA OncePop == ASSUME Ctl, EachOnce, NEW w \in Workers, PopFront(w) PROVE EachOnce'
<1> SUFFICES ASSUME NEW r \in Requests \ {NullRequest}
             PROVE  Cardinality(Queued(r)') + Cardinality(HeldBy(r)') + processed'[r]
                      = IF r \in accepted' THEN 1 ELSE 0
  BY DEF EachOnce
<1> USE DEF Ctl
<1>1. w \in Threads /\ m_workqueue # << >> /\ hand[w] = m_workqueue[1]
  BY ThreadSets DEF SeenHolds, PopFront
<1>2. pc'[w] = "process" /\ \A s \in Threads \ {w} : pc'[s] = pc[s]
  BY <1>1 DEF TypeOK, Goto, PopFront
<1>3. hand' = hand /\ w \notin HeldBy(r)
  BY DEF PopFront, HeldBy
<1>4. Cardinality(HeldBy(r)') =
        IF r = hand[w] THEN Cardinality(HeldBy(r)) + 1 ELSE Cardinality(HeldBy(r))
  <2>1. CASE r = hand[w]
    <3>1. HeldBy(r)' = HeldBy(r) \cup {w}
      BY <1>2, <1>3, <2>1, ThreadSets DEF HeldBy
    <3> QED
      BY <1>3, <2>1, <3>1, CountedThreads, FS_AddElement
  <2>2. CASE r # hand[w]
    <3>1. HeldBy(r)' = HeldBy(r)
      BY <1>2, <1>3, <2>2, ThreadSets DEF HeldBy
    <3> QED
      BY <2>2, <3>1
  <2> QED
    BY <2>1, <2>2
<1>5. Cardinality(Queued(r)') =
        IF r = hand[w] THEN Cardinality(Queued(r)) - 1 ELSE Cardinality(Queued(r))
  BY <1>1, PopCount, QueuedPlaces DEF PopFront, TypeOK
<1>6. /\ Cardinality(Queued(r)) \in Nat /\ Cardinality(HeldBy(r)) \in Nat
      /\ processed[r] \in Nat
  BY CountedPlaces, CountedThreads, QueuedPlaces DEF TypeOK
<1>7. accepted' = accepted /\ processed' = processed
  BY DEF PopFront
<1>8. Cardinality(Queued(r)) + Cardinality(HeldBy(r)) + processed[r]
        = IF r \in accepted THEN 1 ELSE 0
  BY DEF EachOnce
<1> QED
  BY <1>4, <1>5, <1>6, <1>7, <1>8

(* run counts the request as processed when it lets go of it. *)
LEMMA OnceProcess ==
  ASSUME Ctl, EachOnce, NEW w \in Workers, ProcessRequest(w) PROVE EachOnce'
<1> SUFFICES ASSUME NEW r \in Requests \ {NullRequest}
             PROVE  Cardinality(Queued(r)') + Cardinality(HeldBy(r)') + processed'[r]
                      = IF r \in accepted' THEN 1 ELSE 0
  BY DEF EachOnce
<1> USE DEF Ctl
<1>1. w \in Threads
  BY ThreadSets
<1>2. /\ pc'[w] = "loop" /\ \A s \in Threads \ {w} : pc'[s] = pc[s]
      /\ \A s \in Threads \ {w} : hand'[s] = hand[s]
  BY <1>1 DEF TypeOK, Goto, ProcessRequest
<1>3. HeldBy(r)' = HeldBy(r) \ {w} /\ (w \in HeldBy(r) <=> r = hand[w])
  BY <1>2, ThreadSets DEF HeldBy, ProcessRequest
<1>4. Cardinality(HeldBy(r)') =
        IF r = hand[w] THEN Cardinality(HeldBy(r)) - 1 ELSE Cardinality(HeldBy(r))
  <2>1. IsFiniteSet(HeldBy(r))
    BY CountedThreads
  <2>2. Cardinality(HeldBy(r) \ {w}) =
          IF w \in HeldBy(r) THEN Cardinality(HeldBy(r)) - 1 ELSE Cardinality(HeldBy(r))
    BY <2>1, FS_RemoveElement
  <2> QED
    BY <1>3, <2>2
<1>5. processed'[r] = IF r = hand[w] THEN processed[r] + 1 ELSE processed[r]
  BY <1>1 DEF ProcessRequest, TypeOK
<1>6. /\ Cardinality(Queued(r)) \in Nat /\ Cardinality(HeldBy(r)) \in Nat
      /\ processed[r] \in Nat
  BY CountedPlaces, CountedThreads, QueuedPlaces DEF TypeOK
<1>7. Queued(r)' = Queued(r) /\ accepted' = accepted
  BY DEF Queued, ProcessRequest
<1>8. Cardinality(Queued(r)) + Cardinality(HeldBy(r)) + processed[r]
        = IF r \in accepted THEN 1 ELSE 0
  BY DEF EachOnce
<1> QED
  BY <1>4, <1>5, <1>6, <1>7, <1>8

(* Every step keeps each request in one place. *)
LEMMA OnceNext == ASSUME Ctl, EachOnce, [Next]_vars PROVE EachOnce'
<1> USE DEF Ctl
<1>1. ASSUME NEW a \in Appenders, AppendStep(a) PROVE EachOnce'
  <2>0. a \in Threads /\ a \notin Workers
    BY ThreadSets
  <2>1. CASE PushRequest(a)
    BY <2>1, OncePush
  <2>2. CASE Lock(a) \/ RejectRequest(a) \/ AdmitRequest(a) \/ PostRequest(a)
    <3>1. \A r : HeldBy(r)' = HeldBy(r)
      BY <2>0, <2>2, SameHeld DEF Lock, RejectRequest, AdmitRequest, PostRequest
    <3> QED
      BY <2>2, <3>1, SamePlaces DEF Lock, RejectRequest, AdmitRequest, PostRequest
  <2> QED
    BY <1>1, <2>1, <2>2 DEF AppendStep
<1>2. ASSUME NEW a \in Appenders, NEW r \in Requests, CallAppend(a, r) PROVE EachOnce'
  <2>0. a \in Threads /\ a \notin Workers
    BY ThreadSets
  <2>1. \A s \in Threads \ {a} : hand'[s] = hand[s]
    BY <1>2, <2>0 DEF CallAppend, TypeOK
  <2>2. \A q : HeldBy(q)' = HeldBy(q)
    BY <1>2, <2>0, <2>1, SameHeld DEF CallAppend
  <2> QED
    BY <1>2, <2>2, SamePlaces DEF CallAppend
<1>3. ASSUME NEW w \in Workers, WorkerStep(w) \/ WaitInterrupted(w) PROVE EachOnce'
  <2>0. w \in Threads
    BY ThreadSets
  <2>1. CASE PopFront(w)
    BY <2>1, OncePop
  <2>2. CASE ProcessRequest(w)
    BY <2>2, OnceProcess
  <2>3. CASE WaitForRequest(w) \/ Lock(w) \/ FindEmpty(w) \/ WaitInterrupted(w)
    <3>1. \A r : HeldBy(r)' = HeldBy(r)
      BY <2>0, <2>3, SameHeld DEF WaitForRequest, Lock, FindEmpty, WaitInterrupted
    <3> QED
      BY <2>3, <3>1, SamePlaces DEF WaitForRequest, Lock, FindEmpty, WaitInterrupted
  <2>4. CASE LoopHead(w)
    <3>1. \A r : HeldBy(r)' = HeldBy(r)
      BY <2>0, <2>4, SameHeld DEF LoopHead
    <3> QED
      BY <2>4, <3>1, SamePlaces DEF LoopHead
  <2>5. CASE ReadFront(w)
    <3>1. \A s \in Threads \ {w} : hand'[s] = hand[s]
      BY <2>0, <2>5 DEF ReadFront, TypeOK
    <3>2. \A r : HeldBy(r)' = HeldBy(r)
      BY <2>0, <2>5, <3>1, SameHeld DEF ReadFront
    <3> QED
      BY <2>5, <3>2, SamePlaces DEF ReadFront
  <2> QED
    BY <1>3, <2>1, <2>2, <2>3, <2>4, <2>5 DEF WorkerStep
<1>4. CASE Destroy \/ UNCHANGED vars
  <2>1. \A r : HeldBy(r)' = HeldBy(r)
    BY <1>4 DEF Destroy, vars, HeldBy
  <2> QED
    BY <1>4, <2>1, SamePlaces DEF Destroy, vars
<1> QED
  BY <1>1, <1>2, <1>3, <1>4 DEF Next

-----------------------------------------------------------------------------

(* The invariant holds in every reachable state. *)
LEMMA PoolInvariant == Spec => []IInv
<1>1. Init => IInv
  BY CtlInit, WakeupInit, OnceInit DEF IInv
<1>2. IInv /\ [Next]_vars => IInv'
  <2> SUFFICES ASSUME IInv, [Next]_vars PROVE IInv'
    OBVIOUS
  <2>1. Ctl' /\ EachOnce'
    BY CtlNext, OnceNext DEF IInv
  <2>2. CASE Destroy \/ UNCHANGED vars
    <3>1. NoLostWakeup'
      BY <2>2 DEF Destroy, vars, IInv, NoLostWakeup
    <3> QED
      BY <2>1, <3>1 DEF IInv
  <2>3. CASE \E a \in Appenders : AppendStep(a) \/ \E r \in Requests : CallAppend(a, r)
    BY <2>1, <2>3, WakeupAppend DEF IInv
  <2>4. CASE \E w \in Workers : WorkerStep(w) \/ WaitInterrupted(w)
    BY <2>1, <2>4, WakeupWorker DEF IInv
  <2> QED
    BY <2>2, <2>3, <2>4 DEF Next
<1> QED
  BY <1>1, <1>2, PTL DEF Spec

(* Whatever the number of threads that call append, the queue never holds  *)
(* more than m_max_requests + 1 requests: the test of the size and the     *)
(* push are under one lock.                                                *)
THEOREM PoolQueueBounded == Spec => []QueueBounded
<1>1. IInv => QueueBounded
  BY DEF IInv, Ctl
<1> QED
  BY <1>1, PoolInvariant, PTL

(* The semaphore of threadpool, posted after the unlock and waited for     *)
(* without looking at the result, never loses the wake-up of a request.    *)
THEOREM PoolNoLostWakeup == Spec => []NoLostWakeup
<1>1. IInv => NoLostWakeup
  BY DEF IInv
<1> QED
  BY <1>1, PoolInvariant, PTL

(* threadpool neither loses an accepted request nor runs it twice: it is   *)
(* once in the queue, or with one worker, or has been processed once.      *)
THEOREM PoolEachOnce == Spec => []EachOnce
<1>1. IInv => EachOnce
  BY DEF IInv
<1> QED
  BY <1>1, PoolInvariant, PTL

=============================================================================
