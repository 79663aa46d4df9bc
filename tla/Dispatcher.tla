------------------------------ MODULE Dispatcher ------------------------------
(***************************************************************************)
(* The task queue of the gRPC server (struct Dispatcher in                 *)
(* grpc-src/server.cpp): a vector filled once before any handler thread    *)
(* exists, and three atomics.  Handlers claim positions of the vector with *)
(* a fetch-and-add and never lock; the main thread polls done().           *)
(*                                                                         *)
(* load_tasks gives the task at position i the id i, so a task is its      *)
(* position and the vector is its length.  Each operator below is one      *)
(* atomic access; a thread may be suspended between any two of them.       *)
(***************************************************************************)
EXTENDS Integers

CONSTANT NumTasks             \* the number of tasks in the task file, if any

ASSUME NumTasksAssumption == NumTasks \in Nat \ {0}

Task == 0 .. (NumTasks - 1)

VARIABLES
  queueSize,                  \* queue_.size()
  enqueued_,                  \* next position to claim; grows past queueSize
  completed_,                 \* tasks answered or given up
  shutdown_

dispatcherVars == <<queueSize, enqueued_, completed_, shutdown_>>

DispatcherTypeOK ==
  /\ queueSize \in {0, NumTasks}
  /\ enqueued_ \in Nat
  /\ completed_ \in Nat
  /\ shutdown_ \in BOOLEAN

DispatcherInit ==
  /\ queueSize = 0
  /\ enqueued_ = 0
  /\ completed_ = 0
  /\ shutdown_ = FALSE

\* main moves every loaded task into the queue before the server starts.
EnqueueAll ==
  /\ queueSize' = NumTasks
  /\ UNCHANGED <<enqueued_, completed_, shutdown_>>

\* Mutant of Dequeue: the test of the claimed position is off by one.
DequeueOffByOne ==
  /\ enqueued_ <= queueSize
  /\ enqueued_' = enqueued_ + 1
  /\ UNCHANGED <<queueSize, completed_, shutdown_>>

\* dequeue() when the claimed position, enqueued_, holds a task.
Dequeue ==
  /\ enqueued_ < queueSize
  /\ enqueued_' = enqueued_ + 1
  /\ UNCHANGED <<queueSize, completed_, shutdown_>>

\* dequeue() past the end: it returns false, yet has moved the cursor.
DequeueNothing ==
  /\ enqueued_ >= queueSize
  /\ enqueued_' = enqueued_ + 1
  /\ UNCHANGED <<queueSize, completed_, shutdown_>>

OnTaskCompleted ==
  /\ completed_' = completed_ + 1
  /\ UNCHANGED <<queueSize, enqueued_, shutdown_>>

\* Mutants of Done: tasks claimed are taken for tasks completed; off by one.
DoneWhenClaimed == enqueued_ >= queueSize \/ shutdown_
DoneOneEarly == completed_ + 1 >= queueSize \/ shutdown_

Done == completed_ >= queueSize \/ shutdown_

Shutdown ==
  /\ shutdown_' = TRUE
  /\ UNCHANGED <<queueSize, enqueued_, completed_>>
=============================================================================
