CONSTANTS
  Word = 16
  MAX_D = 3
  Typed <- MCTyped
  HandWritten <- HandFiles
SPECIFICATION Spec
INVARIANTS
  TasksAreSamples
  RoundTrip
  IndicesInside
