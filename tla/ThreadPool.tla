------------------------------ MODULE ThreadPool ------------------------------
(***************************************************************************)
(* threadpool<T> (threadpool.h) over the sem and locker classes            *)
(* (locker.h): threads that append requests to a bounded queue and         *)
(* detached workers that take them.  One action per step between two       *)
(* synchronisation calls.  No program of the repository includes the       *)
(* header; the callers of append are any number of threads.                *)
(***************************************************************************)
EXTENDS Integers, Sequences, FiniteSets

CONSTANTS
  Appenders,      \* threads that call append
  Workers,        \* the m_thread_number threads that run()
  Requests,       \* the requests; each is appended at most once
  NullRequest,    \* the request of an empty shared_ptr, which workers skip
  m_max_requests,
  Nobody          \* a free mutex

ASSUME PoolAssumption ==
  /\ IsFiniteSet(Workers) /\ Workers # {} /\ IsFiniteSet(Appenders)
  /\ Workers \cap Appenders = {}
  /\ Nobody \notin Workers \cup Appenders
  /\ m_max_requests \in Nat \ {0}
  /\ NullRequest \in Requests

VARIABLES
  m_workqueue,    \* the queue
  m_queuelocker,  \* holder of the mutex
  m_queuestat,    \* value of the semaphore
  m_stop,         \* set by the destructor
  pc,             \* where each thread is
  hand,           \* the request each thread appends or has taken
  calls,          \* the requests append has been called with
  accepted,       \* the requests that were pushed
  processed       \* how often each request was handed to process()

vars == <<m_workqueue, m_queuelocker, m_queuestat, m_stop, pc, hand, calls,
          accepted, processed>>

Threads == Appenders \cup Workers

Goto(t, label) == pc' = [pc EXCEPT ![t] = label]

Init ==
  /\ m_workqueue = << >>
  /\ m_queuelocker = Nobody
  /\ m_queuestat = 0
  /\ m_stop = FALSE
  /\ pc = [t \in Threads |-> IF t \in Workers THEN "loop" ELSE "idle"]
  /\ hand = [t \in Threads |-> NullRequest]
  /\ calls = {}
  /\ accepted = {}
  /\ processed = [r \in Requests |-> 0]

-----------------------------------------------------------------------------
(* append                                                                  *)

CallAppend(a, r) ==
  /\ pc[a] = "idle"
  /\ ~m_stop
  /\ r \notin calls
  /\ calls' = calls \cup {r}
  /\ hand' = [hand EXCEPT ![a] = r]
  /\ Goto(a, "lock")
  /\ UNCHANGED <<m_workqueue, m_queuelocker, m_queuestat, m_stop, accepted, processed>>

(* Faulty variant: the mutex is not waited for. *)
LockUnguarded(t) ==
  /\ pc[t] = "lock"
  /\ m_queuelocker' = t
  /\ Goto(t, "locked")
  /\ UNCHANGED <<m_workqueue, m_queuestat, m_stop, hand, calls, accepted, processed>>

(* m_queuelocker.lock(), by append and by run. *)
Lock(t) ==
  /\ pc[t] = "lock"
  /\ m_queuelocker = Nobody
  /\ m_queuelocker' = t
  /\ Goto(t, "locked")
  /\ UNCHANGED <<m_workqueue, m_queuestat, m_stop, hand, calls, accepted, processed>>

(* The queue is over its limit: unlock, return false. *)
RejectRequest(a) ==
  /\ pc[a] = "locked"
  /\ Len(m_workqueue) > m_max_requests
  /\ m_queuelocker' = Nobody
  /\ Goto(a, "idle")
  /\ UNCHANGED <<m_workqueue, m_queuestat, m_stop, hand, calls, accepted, processed>>

(* Faulty variant: the queue is never full. *)
AdmitAlways(a) ==
  /\ pc[a] = "locked"
  /\ Goto(a, "push")
  /\ UNCHANGED <<m_workqueue, m_queuelocker, m_queuestat, m_stop, hand, calls,
                 accepted, processed>>

AdmitRequest(a) ==
  /\ pc[a] = "locked"
  /\ Len(m_workqueue) <= m_max_requests
  /\ Goto(a, "push")
  /\ UNCHANGED <<m_workqueue, m_queuelocker, m_queuestat, m_stop, hand, calls,
                 accepted, processed>>

PushRequest(a) ==
  /\ pc[a] = "push"
  /\ m_workqueue' = Append(m_workqueue, hand[a])
  /\ accepted' = accepted \cup {hand[a]}
  /\ m_queuelocker' = Nobody
  /\ Goto(a, "post")
  /\ UNCHANGED <<m_queuestat, m_stop, hand, calls, processed>>

(* Faulty variant: post() is missing. *)
PostNothing(a) ==
  /\ pc[a] = "post"
  /\ Goto(a, "idle")
  /\ UNCHANGED <<m_workqueue, m_queuelocker, m_queuestat, m_stop, hand, calls,
                 accepted, processed>>

PostRequest(a) ==
  /\ pc[a] = "post"
  /\ m_queuestat' = m_queuestat + 1
  /\ Goto(a, "idle")
  /\ UNCHANGED <<m_workqueue, m_queuelocker, m_stop, hand, calls, accepted, processed>>

-----------------------------------------------------------------------------
(* run                                                                     *)

LoopHead(w) ==
  /\ pc[w] = "loop"
  /\ Goto(w, IF m_stop THEN "exited" ELSE "wait")
  /\ UNCHANGED <<m_workqueue, m_queuelocker, m_queuestat, m_stop, hand, calls,
                 accepted, processed>>

WaitForRequest(w) ==
  /\ pc[w] = "wait"
  /\ m_queuestat > 0
  /\ m_queuestat' = m_queuestat - 1
  /\ Goto(w, "lock")
  /\ UNCHANGED <<m_workqueue, m_queuelocker, m_stop, hand, calls, accepted, processed>>

(* sem_wait fails (a signal, EINTR): run ignores the result of wait(). *)
WaitInterrupted(w) ==
  /\ pc[w] = "wait"
  /\ Goto(w, "lock")
  /\ UNCHANGED <<m_workqueue, m_queuelocker, m_queuestat, m_stop, hand, calls,
                 accepted, processed>>

FindEmpty(w) ==
  /\ pc[w] = "locked"
  /\ m_workqueue = << >>
  /\ m_queuelocker' = Nobody
  /\ Goto(w, "loop")
  /\ UNCHANGED <<m_workqueue, m_queuestat, m_stop, hand, calls, accepted, processed>>

(* front() and pop_front() *)
ReadFront(w) ==
  /\ pc[w] = "locked"
  /\ m_workqueue # << >>
  /\ hand' = [hand EXCEPT ![w] = Head(m_workqueue)]
  /\ Goto(w, "pop")
  /\ UNCHANGED <<m_workqueue, m_queuelocker, m_queuestat, m_stop, calls, accepted,
                 processed>>

PopFront(w) ==
  /\ pc[w] = "pop"
  /\ m_workqueue' = SubSeq(m_workqueue, 2, Len(m_workqueue))
  /\ m_queuelocker' = Nobody
  /\ Goto(w, "process")
  /\ UNCHANGED <<m_queuestat, m_stop, hand, calls, accepted, processed>>

(* request->process(), unless the request is a null pointer. *)
ProcessRequest(w) ==
  /\ pc[w] = "process"
  /\ processed' = IF hand[w] = NullRequest THEN processed
                  ELSE [processed EXCEPT ![hand[w]] = @ + 1]
  /\ hand' = [hand EXCEPT ![w] = NullRequest]
  /\ Goto(w, "loop")
  /\ UNCHANGED <<m_workqueue, m_queuelocker, m_queuestat, m_stop, calls, accepted>>

(* The destructor, as far as it is defined: it sets m_stop and wakes       *)
(* nobody.                                                                 *)
Destroy ==
  /\ ~m_stop
  /\ \A a \in Appenders : pc[a] = "idle"
  /\ m_stop' = TRUE
  /\ UNCHANGED <<m_workqueue, m_queuelocker, m_queuestat, pc, hand, calls, accepted,
                 processed>>

-----------------------------------------------------------------------------

AppendStep(a) ==
  \/ Lock(a) \/ RejectRequest(a) \/ AdmitRequest(a) \/ PushRequest(a) \/ PostRequest(a)

WorkerStep(w) ==
  \/ LoopHead(w) \/ WaitForRequest(w) \/ Lock(w) \/ FindEmpty(w) \/ ReadFront(w)
  \/ PopFront(w) \/ ProcessRequest(w)

Next ==
  \/ \E a \in Appenders : AppendStep(a) \/ \E r \in Requests : CallAppend(a, r)
  \/ \E w \in Workers : WorkerStep(w) \/ WaitInterrupted(w)
  \/ Destroy

Spec == Init /\ [][Next]_vars

(* A thread that is not blocked runs on; nothing is assumed of the order   *)
(* in which waiting threads get the mutex or the semaphore.                *)
Fairness ==
  /\ \A a \in Appenders : WF_vars(AppendStep(a))
  /\ \A w \in Workers : WF_vars(WorkerStep(w))

FairSpec == Spec /\ Fairness

-----------------------------------------------------------------------------

(* The queue never grows past m_max_requests + 1: the test in append       *)
(* leaves one place more than the limit, and is still good when the        *)
(* request is pushed.                                                      *)
QueueBounded == Len(m_workqueue) <= m_max_requests + 1

(* Every queued request has its wake-up: a count in the semaphore, an      *)
(* append about to post, or a worker that is past the wait.  So no request *)
(* stays behind while every worker sleeps, in spite of waits that fail.    *)
NoLostWakeup ==
  Len(m_workqueue) <= m_queuestat
                      + Cardinality({a \in Appenders : pc[a] = "post"})
                      + Cardinality({w \in Workers : pc[w] \in {"lock", "locked", "pop"}})

Queued(r) == {i \in DOMAIN m_workqueue : m_workqueue[i] = r}

HeldBy(r) == {w \in Workers : pc[w] = "process" /\ hand[w] = r}

(* An accepted request is in exactly one place: once in the queue, with    *)
(* one worker, or processed once.  None is lost and none runs twice.       *)
EachOnce ==
  \A r \in Requests \ {NullRequest} :
    Cardinality(Queued(r)) + Cardinality(HeldBy(r)) + processed[r]
      = IF r \in accepted THEN 1 ELSE 0

(* While the pool is not destroyed, an accepted request is processed. *)
AllProcessed ==
  \A r \in Requests \ {NullRequest} :
    r \in accepted ~> processed[r] > 0 \/ m_stop

=============================================================================
