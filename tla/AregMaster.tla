------------------------------ MODULE AregMaster ------------------------------
(***************************************************************************)
(* The AREG master: main (areg-src/server.cpp), which loads the tasks and  *)
(* waits for the quit signal, and MasterComponent, whose handlers run one  *)
(* at a time in the thread MasterThread.  A handler is one action.  The    *)
(* component's atomics are touched by that thread alone.                   *)
(*                                                                         *)
(* A row of mRes is reduced to what filled it: "blank" (nothing), "sent"   *)
(* (only ts_srv_snd, when the task was dispatched), "timed" (the answer to *)
(* the task), "sentinel" (the answer to a sentinel).                       *)
(***************************************************************************)
EXTENDS AregChannel

CONSTANT NumTasks             \* the number of tasks in the task file, if any

ASSUME NumTasksAssumption == NumTasks \in Nat \ {0}

VARIABLES
  gMasterTasks,               \* the pool main fills: how many tasks it holds
  mQueue,                     \* mQueue.size()
  mRes,                       \* [position -> what filled the row]
  mNextWorkerId,
  mNextTask,                  \* next position to dispatch; grows past mQueue
  mCompleted,                 \* submissions handled, whatever they submit
  mShutdown,                  \* a sentinel was sent
  mpc,                        \* where main is
  csv                         \* the rows of the last CSV written, or NoCsv

masterVars == <<gMasterTasks, mQueue, mRes, mNextWorkerId, mNextTask,
                mCompleted, mShutdown, mpc, csv>>

Task == 0 .. (NumTasks - 1)
RowStates == {"blank", "sent", "timed", "sentinel"}
NoCsv == <<"no csv">>

\* A row written by request_SubmitTask has the dimensions of mQueue[task_id],
\* which parse_task made positive; any other row has n = m = k = 0.
HasDimensions(row) == row \in {"timed", "sentinel"}

\* The service is there for workers from load_model to unload_model.
serving == mpc \in {"serving", "quitting"}
MasterEnded == mpc \in {"exited", "failed"}

MasterTypeOK ==
  /\ gMasterTasks \in {0, NumTasks}
  /\ mQueue \in {0, NumTasks}
  /\ mRes \in [0 .. (mQueue - 1) -> RowStates]
  /\ mNextWorkerId \in Nat
  /\ mNextTask \in Nat
  /\ mCompleted \in Nat
  /\ mShutdown \in BOOLEAN
  /\ mpc \in {"start", "loaded", "serving", "quitting", "exited", "failed"}
  /\ csv = NoCsv \/ csv \in [0 .. (mQueue - 1) -> RowStates]

MasterInit ==
  /\ gMasterTasks = 0
  /\ mQueue = 0
  /\ mRes = [p \in 0 .. (mQueue - 1) |-> "blank"]
  /\ mNextWorkerId = 1
  /\ mNextTask = 0
  /\ mCompleted = 0
  /\ mShutdown = FALSE
  /\ mpc = "start"
  /\ csv = NoCsv

-----------------------------------------------------------------------------
\* main

\* An empty file is loaded like any other: nothing checks for it here.
ReadTasks ==
  /\ mpc = "start"
  /\ mpc' = "loaded"
  /\ gMasterTasks' \in {0, NumTasks}
  /\ UNCHANGED <<channelVars, mQueue, mRes, mNextWorkerId, mNextTask,
                 mCompleted, mShutdown, csv>>

ReadTasksThrows ==
  /\ mpc = "start"
  /\ mpc' = "failed"
  /\ UNCHANGED <<channelVars, gMasterTasks, mQueue, mRes, mNextWorkerId,
                 mNextTask, mCompleted, mShutdown, csv>>

\* Mutant of startup_service_interface: no row is made for the tasks.
StartupWithoutRows ==
  /\ mpc = "loaded"
  /\ mpc' = "serving"
  /\ mQueue' = gMasterTasks
  /\ gMasterTasks' = 0
  /\ UNCHANGED <<channelVars, mRes, mNextWorkerId, mNextTask, mCompleted,
                 mShutdown, csv>>

\* load_model starts MasterThread, which takes the pool over.
startup_service_interface ==
  /\ mpc = "loaded"
  /\ mpc' = "serving"
  /\ mQueue' = gMasterTasks
  /\ gMasterTasks' = 0
  /\ mRes' = [p \in 0 .. (mQueue' - 1) |-> "blank"]
  /\ UNCHANGED <<channelVars, mNextWorkerId, mNextTask, mCompleted, mShutdown,
                 csv>>

\* wait_quit returns at some time after the signal: until then MasterThread
\* goes on handling requests.
UnloadModel ==
  /\ mpc = "quitting"
  /\ mpc' = "exited"
  /\ UNCHANGED <<channelVars, gMasterTasks, mQueue, mRes, mNextWorkerId,
                 mNextTask, mCompleted, mShutdown, csv>>

-----------------------------------------------------------------------------
\* MasterComponent, handling the oldest request of worker w

request_RegisterWorker(w) ==
  /\ serving
  /\ Pending(requests, w, "RegisterWorker")
  /\ requests' = Handled(requests, w)
  /\ replies' = Sent(replies, w, RegisterWorkerReply(mNextWorkerId))
  /\ mNextWorkerId' = mNextWorkerId + 1
  /\ UNCHANGED <<gMasterTasks, mQueue, mRes, mNextTask, mCompleted, mShutdown,
                 mpc, csv>>

\* Mutant of DispatchTask: the task is chosen by the completions.
DispatchByCompleted(w, rows) ==
  /\ mNextTask < mQueue
  /\ replies' = Sent(replies, w, AssignTaskReply(mCompleted, TRUE))
  /\ mRes' = [rows EXCEPT ![mCompleted] = "sent"]
  /\ UNCHANGED mShutdown

DispatchTask(w, rows) ==
  /\ mNextTask < mQueue
  /\ replies' = Sent(replies, w, AssignTaskReply(mNextTask, TRUE))
  /\ mRes' = [rows EXCEPT ![mNextTask] = "sent"]
  /\ UNCHANGED mShutdown

\* Mutant of SendSentinel: nothing is answered when there is no task.
SendNothing(w, rows) ==
  /\ mNextTask >= mQueue
  /\ mRes' = rows
  /\ mShutdown' = TRUE
  /\ UNCHANGED replies

SendSentinel(w, rows) ==
  /\ mNextTask >= mQueue
  /\ replies' = Sent(replies, w, Sentinel)
  /\ mRes' = rows
  /\ mShutdown' = TRUE

\* Mutant of make_response: the cursor moves only when there is a task.
MakeResponseCursorLate(w, rows) ==
  /\ mNextTask' = IF mNextTask < mQueue THEN mNextTask + 1 ELSE mNextTask
  /\ DispatchTask(w, rows) \/ SendSentinel(w, rows)

\* The next task, or the sentinel when there is none; rows is mRes so far.
make_response(w, rows) ==
  /\ mNextTask' = mNextTask + 1
  /\ DispatchTask(w, rows) \/ SendSentinel(w, rows)

request_AssignTask(w) ==
  /\ serving
  /\ Pending(requests, w, "AssignTask")
  /\ requests' = Handled(requests, w)
  /\ make_response(w, mRes)
  /\ UNCHANGED <<gMasterTasks, mQueue, mNextWorkerId, mCompleted, mpc, csv>>

\* mRes once a submission has been stored: the row is the one it names.
Stored(submission) ==
  [mRes EXCEPT ![submission.task_id] =
     IF submission.real THEN "timed" ELSE "sentinel"]

\* Mutant of LastCompletion: one completion too early.
CompletionBeforeLast == mCompleted + 2 >= mQueue

\* The submission at hand completes the queue, or comes after one that did.
LastCompletion == mCompleted + 1 >= mQueue

\* A submission is handled: counted, whatever it submits, and stored.
Submission(w) ==
  /\ serving
  /\ Pending(requests, w, "SubmitTask")
  /\ requests' = Handled(requests, w)
  /\ mCompleted' = mCompleted + 1
  /\ UNCHANGED <<gMasterTasks, mQueue, mNextWorkerId>>

\* The reply is the next task, or the sentinel.
SubmitAndContinue(w) ==
  /\ Submission(w)
  /\ mQueue > 0 /\ ~LastCompletion
  /\ make_response(w, Stored(Head(requests[w])))
  /\ UNCHANGED <<mpc, csv>>

\* The CSV is written, main is signalled, and the worker gets no reply.
SubmitAndQuit(w) ==
  /\ Submission(w)
  /\ mQueue > 0 /\ LastCompletion
  /\ mRes' = Stored(Head(requests[w]))
  /\ \/ csv' = mRes' /\ mpc' = "quitting"
     \/ UNCHANGED csv /\ mpc' = "failed"        \* record_csv throws
  /\ UNCHANGED <<replies, mNextTask, mShutdown>>

\* The sentinel's answer indexes mQueue, which an empty file left empty.
SubmitToEmptyQueue(w) ==
  /\ Submission(w)
  /\ mQueue = 0
  /\ mpc' = "failed"
  /\ UNCHANGED <<replies, mRes, mNextTask, mShutdown, csv>>

request_SubmitTask(w) ==
  SubmitAndContinue(w) \/ SubmitAndQuit(w) \/ SubmitToEmptyQueue(w)

Master ==
  \/ ReadTasks \/ ReadTasksThrows \/ startup_service_interface \/ UnloadModel
  \/ \E w \in Workers : \/ request_RegisterWorker(w)
                        \/ request_AssignTask(w)
                        \/ request_SubmitTask(w)
=============================================================================
