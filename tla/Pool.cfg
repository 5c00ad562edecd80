SPECIFICATION MCFairSpec
CONSTANTS
  Appenders = {a1, a2}
  Workers = {w1, w2}
  Requests = {r1, r2, null}
  NullRequest = null
  m_max_requests = 1
  Nobody = Nobody
INVARIANTS
  QueueBounded
  NoLostWakeup
  EachOnce
PROPERTIES
  AllProcessed
