\* The same instance against the description of the request counter.
SPECIFICATION GrpcSpec
CONSTANTS
  Rpcs = {r1, r2}
  Codes = {ok, unknown, unavailable}
  Ok = ok
  Unknown = unknown
  NoCode = NoCode
INVARIANTS
  AnsweredIsCounted
CHECK_DEADLOCK FALSE
