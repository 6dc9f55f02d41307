\* Two replicas, four records of three messages, two crashes or rebalances.
SPECIFICATION Spec
CONSTANTS
  m1 = m1
  m2 = m2
  bad = bad
  Messages <- MessagesAndJunk
  Poison <- Undecodable
  Workers = {w1, w2}
  NoOwner = NoOwner
  MaxLog = 4
  MaxDisturbances = 2
INVARIANTS
  CommittedIsDone
  AppliedOnce
PROPERTIES
  EffectChannel
