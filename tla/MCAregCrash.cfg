CONSTANTS
  Workers = {w1, w2, w3}
  Processes = {{w1, w2}, {w3}}
  Unreliable = {{w1, w2}}
  Responsive = {{w3}}
  NumTasks = 4
SPECIFICATION FairSpec
INVARIANTS
  TypeOK
  AnswersConserved
  OneWorkerPerTask
PROPERTIES
  ImplementsEarlyDistribution
  MasterTerminates
