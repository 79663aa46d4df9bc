CONSTANTS
  Transport <- OneGrpcRun
  GrpcOutput = 3
  PipeCapacity = 2
  Faulty = {}
  Setups = {"local"}
  InPlace = {}
  Leftovers = {}
SPECIFICATION Spec
INVARIANT RunsYieldOwnCsv
