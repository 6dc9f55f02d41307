\* Two replicas, three rows, batches of two behind a row the broker always
\* refuses, a lease of one tick, one stop.
SPECIFICATION Spec
CONSTANTS
  Rows = {1, 2, 3}
  Publishers = {p1, p2}
  BatchLimit = 2
  LockSeconds = 1
  Unpublishable <- RefusedRow
  MaxStops = 1
INVARIANTS
  LeaseExclusive
  MarksConsistent
  PublishedWasDelivered
PROPERTIES
  TopicChannel
  EveryRowPublished
