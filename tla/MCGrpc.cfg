CONSTANTS
  Workers = {w1, w2}
  Unreliable = {w1, w2}
  Responsive = {w1}
  NumTasks = 3
  TooLarge = {2}
  RowsFirst = TRUE
SPECIFICATION FairSpec
INVARIANTS
  TypeOK
  OneWorkerPerTask
  RowsMatchTask
  ProgramsInStep
  CountInv
  NoWriterWhileReporting
  ReportIsFinal
  ReportAccountsForEveryTask
PROPERTIES
  ImplementsTaskDistribution
  OnlyHungOrLostWorkersBlock
  WorkersDismissed
