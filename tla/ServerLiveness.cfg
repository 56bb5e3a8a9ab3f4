SPECIFICATION FairSpec
CONSTANTS
  Uri = {u1, u2}
  Id = {r1}
  Worker = {w1, w2}
  SetterWaits = TRUE
  MayHang = TRUE
  MaxStamps = 2
PROPERTY RequestsAnswered
PROPERTY MainLoopKeepsGoing
PROPERTY DiagnosticsSettle
CHECK_DEADLOCK FALSE
