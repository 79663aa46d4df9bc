CONSTANTS
  Workers = {w1, w2}
  Processes = {{w1}, {w2}}
  Unreliable = {}
  Responsive = {}
  NumTasks = 3
SPECIFICATION Spec
INVARIANT KeptRowsAreTasks
