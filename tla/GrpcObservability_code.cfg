\* Two requests, three codes: what is recorded is right.
SPECIFICATION GrpcSpec
CONSTANTS
  Rpcs = {r1, r2}
  Codes = {ok, unknown, unavailable}
  Ok = ok
  Unknown = unknown
  NoCode = NoCode
INVARIANTS
  CountedAtMostOnce
  RecordedCodeIsShown
CHECK_DEADLOCK FALSE
