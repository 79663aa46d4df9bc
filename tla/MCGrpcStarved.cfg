CONSTANTS
  Workers = {w1, w2}
  Unreliable = {}
  Responsive = {w1, w2}
  NumTasks = 3
  TooLarge = {0, 1}
  RowsFirst = TRUE
SPECIFICATION FairSpec
PROPERTY RunYieldsCsv
