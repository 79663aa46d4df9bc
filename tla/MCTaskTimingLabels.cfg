CONSTANTS
  Tasks <- MCTasks
  Durations = {0, 1}
  Start = 2
  Offsets <- MCOffsets
  Meminfos <- MCMeminfos
  Stats <- MCStats
  SizeWord = 1000
SPECIFICATION Spec
INVARIANT ClientComputeTime
