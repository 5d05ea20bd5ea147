SPECIFICATION FairSpec
CONSTANTS
  m1 = m1
  m2 = m2
  r1 = r1
  r2 = r2
  u1 = u1
  u2 = u2
  None = None
  Msgs = {m1}
  Retries = {r1}
  RetryOf <- RetryOfOne
  Users = {u1}
  Caps = {2}
  MaxAcks = 1
  MaxRestarts = 1
INVARIANTS
  RunIsTracked
  NoMissedMatch
  AckCounted
  SendingIsWorkedOn
PROPERTIES
  CancelStopsRun
  SendSettles
CHECK_DEADLOCK FALSE
