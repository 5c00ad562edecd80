----------------------------- MODULE MCThreadPool -----------------------------
(* Small instances of ThreadPool for TLC. *)
EXTENDS ThreadPool

(* The pool has been destroyed and every worker has seen it. *)
Done ==
  /\ m_stop
  /\ \A w \in Workers : pc[w] = "exited"
  /\ UNCHANGED vars

MCNext == Next \/ Done
MCFairSpec == Init /\ [][MCNext]_vars /\ Fairness

=============================================================================
