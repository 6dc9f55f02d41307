\* Three requests after one another or at once, two replicas, two secrets; a token lives one tick and one of leeway.
SPECIFICATION Spec
CONSTANTS
  Requests = {r1, r2, r3}
  Replicas = {n1, n2}
  Secrets = {s1, s2}
  Ttl = 1
  Leeway = 1
  MaxTime = 3
SYMMETRY Interchangeable
INVARIANTS
  CountedAsAnswered
PROPERTIES
  GuardedNeedsLogin
CHECK_DEADLOCK FALSE
