CONSTANTS
  Transport <- OneGrpcRun
  GrpcOutput = 2
  PipeCapacity = 2
  Faulty = {}
  Setups = {"docker"}
  InPlace = {"docker"}
  Leftovers = {}
SPECIFICATION Spec
INVARIANT RunsYieldOwnCsv
