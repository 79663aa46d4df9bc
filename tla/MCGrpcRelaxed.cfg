CONSTANTS
  Workers = {w1, w2}
  Unreliable = {}
  Responsive = {w1, w2}
  NumTasks = 2
  TooLarge = {}
  RowsFirst = FALSE
SPECIFICATION Spec
INVARIANT AllTasksCompleted
