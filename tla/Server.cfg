SPECIFICATION Spec
CONSTANTS
  Uri = {u1, u2}
  Id = {r1}
  Worker = {w1, w2}
  SetterWaits = FALSE
  MayHang = TRUE
  MaxStamps = 3
SYMMETRY WorkerSymmetry
INVARIANT DocumentsInStep
INVARIANT NoDiagnosticsLost
INVARIANT OneResponsePerRequest
PROPERTY ImplementsFeed
CHECK_DEADLOCK FALSE
