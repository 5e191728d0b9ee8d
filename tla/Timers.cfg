CONSTANTS
  Client = {c1, c2}
  Tagged = 1
  Pool = 2
  MaxJobs = 0
  MaxBatches = 3
  MaxTimers = 2
  MaxMessages = 3
SYMMETRY ClientSymmetry
SPECIFICATION Spec
INVARIANTS OneJobPerTimer CancelledStaysQuiet
