CONSTANTS
  Transport <- MixedRuns
  GrpcOutput = 2
  PipeCapacity = 2
  Faulty = {2, 3}
  Setups = {"local", "ssh", "docker"}
  InPlace = {}
  Leftovers = {1, 3}
SPECIFICATION FairSpec
INVARIANTS
  TypeOK
  OneRunAtATime
  ClientsOfThisRun
  NothingLeftBehind
  RunsYieldOwnCsv
PROPERTY OnlyFaultsBlock
