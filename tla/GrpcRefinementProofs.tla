------------------------- MODULE GrpcRefinementProofs -------------------------
(***************************************************************************)
(* The gRPC transport implements TaskDistribution.  First what is missing  *)
(* from the CSV: exactly the tasks that the service counted as failed.     *)
(* Then every step of a thread, a client or a failure is a step of the     *)
(* promise, or changes nothing that the promise speaks of.                 *)
(***************************************************************************)
EXTENDS GrpcExchangeProofs

\* The rows without timings, and the handlers whose task has not been accounted
\* for, neither by a row nor as a failure.
BlankRows == {t \in DOMAIN ts_snd_rec : ts_snd_rec[t] = Blank}
Unsettled == {w \in Workers : hpc[w] \in {"write", "read", "store", "fail"}}

\* A blank row is a task that nobody claimed, or is owned, or has failed.
Accounts ==
  /\ \A t \in DOMAIN ts_snd_rec : t >= enqueued_ => ts_snd_rec[t] = Blank
  /\ \A w \in Unsettled : htask[w] \in BlankRows
  /\ mpc # "failed" =>
       Cardinality(BlankRows) = (queueSize - TasksClaimed) + Cardinality(Unsettled) + failed

\* Both sets are finite, so they can be counted.
LEMMA AccountsCounted ==
  ASSUME TypeOK
  PROVE  /\ IsFiniteSet(BlankRows) /\ Cardinality(BlankRows) \in Nat
         /\ IsFiniteSet(Unsettled) /\ Cardinality(Unsettled) \in Nat
<1>1. queueSize \in Nat /\ DOMAIN ts_snd_rec = 0 .. (queueSize - 1)
  BY NumTasksAssumption DEF TypeOK, ServerTypeOK, DispatcherTypeOK
<1>2. IsFiniteSet(0 .. (queueSize - 1))
  BY <1>1, FS_Interval
<1>3. BlankRows \subseteq 0 .. (queueSize - 1) /\ Unsettled \subseteq Workers
  BY <1>1 DEF BlankRows, Unsettled
<1> QED BY <1>2, <1>3, FS_Subset, FS_CardinalityType, WorkersAssumption DEF WorkersAssumption

\* What a step of a handler does to the unsettled ones.
LEMMA UnsettledStep ==
  ASSUME TypeOK, NEW w \in Workers, NEW from, NEW to, HandlerGoes(w, from, to)
  PROVE  LET open == {"write", "read", "store", "fail"}
         IN  /\ (from \in open <=> to \in open) => Unsettled' = Unsettled
             /\ from \notin open /\ to \in open =>
                  /\ Unsettled' = Unsettled \cup {w}
                  /\ Cardinality(Unsettled') = Cardinality(Unsettled) + 1
             /\ from \in open /\ to \notin open =>
                  /\ Unsettled' = Unsettled \ {w}
                  /\ Cardinality(Unsettled') = Cardinality(Unsettled) - 1
<1> DEFINE open == {"write", "read", "store", "fail"}
<1>1. /\ hpc[w] = from /\ hpc'[w] = to
      /\ \A v \in Workers : v # w => hpc'[v] = hpc[v]
  BY DEF HandlerGoes, TypeOK, ServerTypeOK
<1>2. (from \in open <=> to \in open) => Unsettled' = Unsettled
  BY <1>1 DEF Unsettled
<1>3. from \notin open /\ to \in open => w \notin Unsettled /\ Unsettled' = Unsettled \cup {w}
  BY <1>1 DEF Unsettled
<1>4. from \in open /\ to \notin open => w \in Unsettled /\ Unsettled' = Unsettled \ {w}
  BY <1>1 DEF Unsettled
<1> QED
  BY <1>2, <1>3, <1>4, AccountsCounted, FS_AddElement, FS_RemoveElement

\* A step that leaves the queue, the table and the handlers alone keeps Accounts.
LEMMA AccountsUntouched ==
  /\ Accounts /\ UNCHANGED <<queueSize, enqueued_, ts_snd_rec, failed, hpc, htask>>
  /\ mpc = "failed" => mpc' = "failed"
  => Accounts'
BY DEF Accounts, BlankRows, Unsettled, TasksClaimed

LEMMA AccountsInitially == Init => Accounts
<1> SUFFICES ASSUME Init PROVE Accounts
  OBVIOUS
<1>1. BlankRows = {} /\ Unsettled = {}
  BY DEF Init, ServerInit, DispatcherInit, BlankRows, Unsettled
<1>2. Cardinality(BlankRows) = 0 /\ Cardinality(Unsettled) = 0
  BY <1>1, FS_EmptySet
<1> QED
  BY <1>1, <1>2 DEF Accounts, Init, ServerInit, DispatcherInit, TasksClaimed

-----------------------------------------------------------------------------
LEMMA AccountsMain ==
  ASSUME TypeOK, CountInv, Accounts, ServerStep PROVE Accounts'
<1> USE DEF ServerStep, MainGoes, MainMoves, dispatcherVars
<1>1. CASE LoadTasks
  <2>1. /\ ts_snd_rec' = [p \in 0 .. (NumTasks - 1) |-> Blank]
        /\ queueSize' = NumTasks /\ UNCHANGED <<enqueued_, failed, hpc, htask>>
        /\ mpc = "load" /\ queueSize = 0 /\ enqueued_ = 0
        /\ \A w \in Workers : hpc[w] = "none"
    BY <1>1 DEF LoadTasks, EnqueueAll, CountInv
  <2>2. BlankRows' = 0 .. (NumTasks - 1) /\ Unsettled = {} /\ Unsettled' = {}
    BY <2>1 DEF BlankRows, Unsettled
  <2>3. Cardinality(BlankRows') = NumTasks
    BY <2>2, NumTasksAssumption, FS_Interval
  <2>4. Cardinality(Unsettled) = 0 /\ Cardinality(Unsettled') = 0
    BY <2>2, FS_EmptySet
  <2>5. BlankRows = {}
    BY <2>1 DEF BlankRows, TypeOK, ServerTypeOK
  <2>6. Cardinality(BlankRows) = 0
    BY <2>5, FS_EmptySet
  <2>7. failed = 0
    BY <2>1, <2>4, <2>6 DEF Accounts, TasksClaimed, TypeOK, ServerTypeOK
  <2>8. TasksClaimed' = 0
    BY <2>1, NumTasksAssumption DEF TasksClaimed
  <2>9. \A t \in DOMAIN ts_snd_rec' : ts_snd_rec'[t] = Blank
    BY <2>1 DEF Blank
  <2> QED
    BY <2>1, <2>2, <2>3, <2>4, <2>7, <2>8, <2>9, NumTasksAssumption
    DEF Accounts, Blank
<1>2. CASE ProcessDies
  <2>1. /\ UNCHANGED <<enqueued_, ts_snd_rec>> /\ mpc' = "failed"
        /\ Unsettled' = {}
    BY <1>2 DEF ProcessDies, Unsettled
  <2> QED BY <2>1 DEF Accounts, Blank
<1>3. CASE /\ UNCHANGED <<queueSize, enqueued_, ts_snd_rec, failed, hpc, htask>>
           /\ mpc # "failed"
  BY <1>3, AccountsUntouched
<1> QED
  BY <1>1, <1>2, <1>3
  DEF Main, NothingToDistribute, LoadThrows, BuildAndStart, BindFails,
    PollNotDone, PollDone, RecordCsv, RecordCsvThrows, ShutdownDispatcher,
    Shutdown, StopServer, WaitHandlers

LEMMA AccountsHandler ==
  ASSUME TypeOK, ProgramsInStep, ClaimedOnce, CountInv, Accounts,
         NEW w \in Workers, HandlerStep(w)
  PROVE  Accounts'
<1>t. /\ queueSize \in Nat /\ enqueued_ \in Nat /\ failed \in Nat
      /\ ts_snd_rec \in [0 .. (queueSize - 1) -> Int]
      /\ htask \in [Workers -> Task \cup {Blank}]
      /\ \A v \in Workers : htask[v] \in Int
      /\ Cardinality(Unsettled) \in Nat /\ Cardinality(BlankRows) \in Nat
      /\ IsFiniteSet(BlankRows)
  BY AccountsCounted, NumTasksAssumption
  DEF TypeOK, ServerTypeOK, DispatcherTypeOK, Task, Blank
<1>c. TasksClaimed \in Nat
  BY <1>t DEF TasksClaimed
<1>m. mpc' = mpc
  BY DEF HandlerStep, Handler, HandlerGoes, HandlerMoves, mainVars, StartHandler,
    ReadInit, ReadInitFails, DequeueTask, DequeueEmpty, WriteTask, ReadResult,
    ReadResultTooLarge, CallFails, CountFailure, GiveUp, RecordTimings, CountCompleted
<1> DEFINE TableSame == UNCHANGED <<queueSize, ts_snd_rec>>
           ClaimsSame == UNCHANGED <<enqueued_, htask>>
<1>b. TableSame => BlankRows' = BlankRows
  BY DEF BlankRows, Blank
<1>1. ASSUME TableSame, ClaimsSame, UNCHANGED failed, Unsettled' = Unsettled
      PROVE  Accounts'
  BY <1>1, <1>m, <1>b DEF Accounts, TasksClaimed, Blank
<1>2. CASE StartHandler(w) \/ ReadInit(w) \/ ReadInitFails(w) \/ WriteTask(w)
           \/ ReadResult(w) \/ ReadResultTooLarge(w) \/ CallFails(w) \/ GiveUp(w)
           \/ CountCompleted(w)
  <2>1. Unsettled' = Unsettled
    BY <1>2, UnsettledStep
    DEF HandlerMoves, StartHandler, ReadInit, ReadInitFails, WriteTask,
      ReadResult, ReadResultTooLarge, CallFails, GiveUp, CountCompleted
  <2>2. TableSame /\ ClaimsSame /\ UNCHANGED failed
    BY <1>2 DEF HandlerMoves, StartHandler, ReadInit, ReadInitFails, WriteTask,
      ReadResult, ReadResultTooLarge, CallFails, GiveUp, CountCompleted,
      OnTaskCompleted, dispatcherVars
  <2> QED BY <2>1, <2>2, <1>1
<1>3. CASE DequeueTask(w)
  <2>1. /\ enqueued_ < queueSize /\ enqueued_' = enqueued_ + 1
        /\ htask' = [htask EXCEPT ![w] = enqueued_] /\ UNCHANGED failed
        /\ TableSame
    BY <1>3 DEF DequeueTask, Dequeue
  <2>2. /\ Unsettled' = Unsettled \cup {w}
        /\ Cardinality(Unsettled') = Cardinality(Unsettled) + 1
    BY <1>3, UnsettledStep DEF DequeueTask
  <2>3. enqueued_ \in BlankRows
    BY <2>1, <1>t DEF Accounts, BlankRows
  <2>4. \A v \in Unsettled' : htask'[v] \in BlankRows'
    BY <2>1, <2>2, <2>3, <1>b, <1>t DEF Accounts
  <2>5. TasksClaimed = enqueued_ /\ TasksClaimed' = enqueued_ + 1
    BY <2>1, <1>t DEF TasksClaimed
  <2>6. \A t \in DOMAIN ts_snd_rec' : t >= enqueued_' => ts_snd_rec'[t] = Blank
    BY <2>1, <1>t DEF Accounts
  <2>7. mpc' # "failed" =>
          Cardinality(BlankRows') =
            (queueSize' - TasksClaimed') + Cardinality(Unsettled') + failed'
    BY <2>1, <2>2, <2>5, <1>b, <1>m, <1>t DEF Accounts
  <2> QED BY <2>4, <2>6, <2>7 DEF Accounts, Blank
<1>4. CASE DequeueEmpty(w)
  <2>1. /\ enqueued_ >= queueSize /\ enqueued_' = enqueued_ + 1
        /\ UNCHANGED <<htask, failed>> /\ TableSame
    BY <1>4 DEF DequeueEmpty, DequeueNothing
  <2>2. Unsettled' = Unsettled
    BY <1>4, UnsettledStep DEF DequeueEmpty
  <2>3. TasksClaimed' = TasksClaimed
    BY <2>1, <1>t DEF TasksClaimed
  <2>4. \A t \in DOMAIN ts_snd_rec' : t >= enqueued_' => ts_snd_rec'[t] = Blank
    BY <2>1, <1>t DEF Accounts
  <2> QED BY <2>1, <2>2, <2>3, <2>4, <1>b, <1>m DEF Accounts, Blank
<1>5. CASE CountFailure(w)
  <2>1. TableSame /\ ClaimsSame /\ failed' = failed + 1
    BY <1>5 DEF CountFailure, dispatcherVars
  <2>2. /\ Unsettled' = Unsettled \ {w}
        /\ Cardinality(Unsettled') = Cardinality(Unsettled) - 1
    BY <1>5, UnsettledStep DEF CountFailure
  <2>3. TasksClaimed' = TasksClaimed
    BY <2>1 DEF TasksClaimed
  <2>4. mpc' # "failed" =>
          Cardinality(BlankRows') =
            (queueSize' - TasksClaimed') + Cardinality(Unsettled') + failed'
    <3>1. mpc # "failed" =>
            Cardinality(BlankRows) = (queueSize - TasksClaimed) + Cardinality(Unsettled) + failed
      BY DEF Accounts
    <3>q. TasksClaimed \in Int /\ queueSize \in Int /\ failed \in Int /\ Cardinality(Unsettled) \in Int
      BY <1>c, <1>t
    <3>2. Cardinality(BlankRows') = Cardinality(BlankRows) /\ queueSize' = queueSize
      BY <2>1, <1>b
    <3> QED BY <2>1, <2>2, <2>3, <3>1, <3>2, <3>q, <1>m
  <2> QED BY <2>1, <2>2, <2>4, <1>b DEF Accounts, Blank
<1>6. CASE RecordTimings(w)
  <2>1. ts_snd_rec' = [ts_snd_rec EXCEPT ![htask[w]] = htask[w]]
    BY <1>6 DEF RecordTimings, HandlerGoes, ProgramsInStep, InStep
  <2>2. ClaimsSame /\ UNCHANGED <<queueSize, failed>>
    BY <1>6 DEF RecordTimings, dispatcherVars
  <2>3. w \in Unsettled
    BY <1>6 DEF RecordTimings, HandlerGoes, Unsettled
  <2>4. htask[w] \in BlankRows /\ htask[w] \in 0 .. (queueSize - 1)
    BY <2>3, <1>t DEF Accounts, BlankRows
  <2>5. BlankRows' = BlankRows \ {htask[w]}
    BY <2>1, <2>4, <1>t DEF BlankRows, Blank
  <2>6. Cardinality(BlankRows') = Cardinality(BlankRows) - 1
    BY <2>4, <2>5, <1>t, FS_RemoveElement
  <2>7. /\ Unsettled' = Unsettled \ {w}
        /\ Cardinality(Unsettled') = Cardinality(Unsettled) - 1
    BY <1>6, UnsettledStep DEF RecordTimings
  <2>8. \A v \in Unsettled' : htask'[v] \in BlankRows'
    <3> SUFFICES ASSUME NEW v \in Unsettled' PROVE htask[v] \in BlankRows'
      BY <2>2
    <3>1. v \in Workers /\ v # w /\ htask[v] \in BlankRows
      BY <2>7 DEF Accounts, Unsettled
    <3>2. htask[v] # htask[w]
      BY <3>1, <2>4 DEF ClaimedOnce, Blank
    <3> QED BY <3>1, <3>2, <2>5
  <2>9. TasksClaimed' = TasksClaimed
    BY <2>2 DEF TasksClaimed
  <2>10. \A t \in DOMAIN ts_snd_rec' : t >= enqueued_' => ts_snd_rec'[t] = Blank
    BY <2>1, <2>2, <1>t DEF Accounts, ClaimedOnce
  <2>11. mpc' # "failed" =>
          Cardinality(BlankRows') =
            (queueSize' - TasksClaimed') + Cardinality(Unsettled') + failed'
    BY <2>2, <2>6, <2>7, <2>9, <1>c, <1>m, <1>t DEF Accounts
  <2> QED BY <2>8, <2>10, <2>11 DEF Accounts, Blank
<1> QED
  BY <1>2, <1>3, <1>4, <1>5, <1>6 DEF HandlerStep, Handler

LEMMA AccountsInductive ==
  TypeOK /\ ProgramsInStep /\ ClaimedOnce /\ CountInv /\ Accounts /\ [Next]_vars => Accounts'
<1> SUFFICES ASSUME TypeOK, ProgramsInStep, ClaimedOnce, CountInv, Accounts, [Next]_vars
             PROVE  Accounts'
  OBVIOUS
<1> USE DEF dispatcherVars, serviceVars, mainVars
<1>1. CASE ServerStep
  BY <1>1, AccountsMain
<1>2. ASSUME NEW w \in Workers, HandlerStep(w) PROVE Accounts'
  BY <1>2, AccountsHandler
<1>3. ASSUME NEW w \in Workers, ClientStep(w) \/ Launch(w) \/ Crash(w) \/ CutOff(w)
      PROVE  Accounts'
  <2>1. UNCHANGED <<queueSize, enqueued_, ts_snd_rec, failed, hpc, htask, mpc>>
    BY <1>3
    DEF ClientStep, RegisterWorker, RegisterFails, OpenStream, Launch, Crash, CutOff
  <2> QED BY <2>1, AccountsUntouched
<1>4. CASE UNCHANGED vars
  BY <1>4, AccountsUntouched DEF vars
<1> QED BY <1>1, <1>2, <1>3, <1>4 DEF Next, Finished

-----------------------------------------------------------------------------
\* When the CSV is written every task is claimed and nobody owns one, so the
\* blank rows that are left are the failures.
LEMMA AccountsSettled ==
  ASSUME TypeOK, CountInv, Accounts, ReportIsFinal
  PROVE  ReportAccountsForEveryTask
<1> SUFFICES ASSUME CsvWritten
             PROVE  Cardinality({t \in DOMAIN csv : csv[t] = Blank}) = failed
  BY DEF ReportAccountsForEveryTask
<1>1. csv = ts_snd_rec
  BY DEF ReportIsFinal
<1>2. mpc \in {"shutdown", "stop", "join", "exited"}
  BY DEF CsvWritten
<1>3. Owners = {}
  BY <1>2, CountedMeansIdle DEF NoWriterWhileReporting
<1>4. Unsettled = {} /\ Cardinality(Unsettled) = 0
  BY <1>3, FS_EmptySet DEF Owners, Holding, Unsettled
<1>5. queueSize \in Nat /\ enqueued_ \in Nat /\ completed_ \in Nat /\ failed \in Nat
  BY NumTasksAssumption DEF TypeOK, ServerTypeOK, DispatcherTypeOK
<1>6. completed_ >= queueSize /\ completed_ = TasksClaimed
  BY <1>2, <1>3, <1>5, FS_EmptySet DEF CountInv, TasksClaimed
<1>7. TasksClaimed = queueSize
  BY <1>5, <1>6 DEF TasksClaimed
<1>8. Cardinality(BlankRows) = failed
  BY <1>2, <1>4, <1>5, <1>7, AccountsCounted DEF Accounts
<1> QED BY <1>1, <1>8 DEF BlankRows

\* No task disappears without a trace and none is counted both ways, provided
\* the writes of the rows are visible before those of the counters.
THEOREM ReportAccounts == ASSUME RowsFirst PROVE Spec => []ReportAccountsForEveryTask
<1>1. TypeOK /\ CountInv /\ ReportIsFinal /\ [Next]_vars => ReportIsFinal'
  BY ReportStaysFinal
<1>2. Init => ReportIsFinal
  BY DEF Init, ServerInit, ReportIsFinal, CsvWritten
<1>3. TypeOK /\ CountInv /\ Accounts /\ ReportIsFinal => ReportAccountsForEveryTask
  BY AccountsSettled
<1> QED
  BY <1>1, <1>2, <1>3, InitTyped, NextTyped, CountInitially, CountInductive,
     InStepInitially, InStepInductive, ClaimedOnceInitially, ClaimedOnceInductive,
     AccountsInitially, AccountsInductive, PTL
  DEF Spec

-----------------------------------------------------------------------------
\* The refinement mapping, by the names of GrpcSystem!Abstract.
TaskStateOf == [t \in Task |-> TaskState(t)]
ReportedTasks == {t \in DOMAIN csv : csv[t] # Blank}
promise == <<TaskStateOf, CsvWritten, ReportedTasks>>

\* What the report rests on: the queue is full from the moment main has loaded it.
QueueFull ==
  mpc \in {"bind", "wait", "csv", "shutdown", "stop", "join"} => queueSize = NumTasks

\* All that the refinement needs of a state.
RefinementInv ==
  TypeOK /\ CountInv /\ ProgramsInStep /\ ClaimedOnce /\ Accounts /\ ReportIsFinal /\ QueueFull

\* A worker of which the promise says that the task is with it.
Assigned(w) == hpc[w] \in {"write", "read", "store"}

-----------------------------------------------------------------------------
\* Only main loads the queue, once.
LEMMA QueueFullInductive == TypeOK /\ QueueFull /\ [Next]_vars => QueueFull'
<1> SUFFICES ASSUME TypeOK, QueueFull, [Next]_vars PROVE QueueFull'
  OBVIOUS
<1> USE DEF dispatcherVars, serviceVars, mainVars
<1>1. CASE UNCHANGED <<queueSize, mpc>>
  BY <1>1 DEF QueueFull
<1>2. CASE ServerStep
  BY <1>2
  DEF QueueFull, ServerStep, Main, MainGoes, MainMoves, LoadTasks, EnqueueAll,
    NothingToDistribute, LoadThrows, BuildAndStart, BindFails, PollNotDone, PollDone,
    RecordCsv, RecordCsvThrows, ShutdownDispatcher, Shutdown, StopServer, WaitHandlers,
    ProcessDies
<1>3. ASSUME NEW w \in Workers, HandlerStep(w) PROVE UNCHANGED <<queueSize, mpc>>
  BY <1>3
  DEF HandlerStep, Handler, HandlerGoes, HandlerMoves, StartHandler, ReadInit,
    ReadInitFails, DequeueTask, Dequeue, DequeueEmpty, DequeueNothing, WriteTask,
    ReadResult, ReadResultTooLarge, CallFails, CountFailure, GiveUp, OnTaskCompleted,
    RecordTimings, CountCompleted
<1>4. ASSUME NEW w \in Workers, ClientStep(w) \/ Launch(w) \/ Crash(w) \/ CutOff(w)
      PROVE  UNCHANGED <<queueSize, mpc>>
  BY <1>4
  DEF ClientStep, RegisterWorker, RegisterFails, OpenStream, Launch, Crash, CutOff
<1>5. UNCHANGED vars => UNCHANGED <<queueSize, mpc>>
  BY DEF vars
<1> QED BY <1>1, <1>2, <1>3, <1>4, <1>5 DEF Next, Finished

\* A task that a handler holds and has not settled was claimed, by it alone, and its
\* row is blank: for the promise it is assigned.
LEMMA UnsettledTask ==
  ASSUME RefinementInv, NEW w \in Workers, hpc[w] \in {"write", "read", "store", "fail"}
  PROVE  /\ htask[w] \in Claimed /\ ts_snd_rec[htask[w]] = Blank
         /\ \A v \in Workers : htask[v] = htask[w] => v = w
<1>1. htask[w] \in 0 .. (queueSize - 1) /\ ts_snd_rec[htask[w]] = Blank
  BY DEF RefinementInv, Accounts, BlankRows, Unsettled, TypeOK, ServerTypeOK
<1>2. htask[w] \in Task /\ htask[w] < queueSize /\ htask[w] # Blank
  BY <1>1, NumTasksAssumption
  DEF RefinementInv, TypeOK, ServerTypeOK, DispatcherTypeOK, Task, Blank
<1>3. htask[w] < enqueued_ /\ \A v \in Workers : v # w => htask[v] # htask[w]
  BY <1>2 DEF RefinementInv, ClaimedOnce
<1> QED BY <1>1, <1>2, <1>3 DEF Claimed

\* A step that leaves the queue, the table and the workers that have tasks alone
\* changes the state of no task.
LEMMA StatesUntouched ==
  ASSUME UNCHANGED <<queueSize, enqueued_, ts_snd_rec, htask>>,
         \A w \in Workers : Assigned(w)' <=> Assigned(w)
  PROVE  UNCHANGED TaskStateOf
<1>1. Claimed' = Claimed
  BY DEF Claimed
<1>2. ASSUME NEW t \in Task PROVE TaskState(t)' = TaskState(t)
  BY <1>1 DEF TaskState, Assigned, Blank
<1> QED BY <1>2 DEF TaskStateOf

\* While the CSV is not being written, the report and whether it is there are constant.
LEMMA ReportUntouched ==
  ASSUME UNCHANGED <<queueSize, mpc, csv>>
  PROVE  UNCHANGED <<CsvWritten, ReportedTasks>>
BY DEF CsvWritten, ReportedTasks, Blank

\* What a handler leaves alone: main, the length of the queue and the report.
LEMMA HandlerKeepsReport ==
  ASSUME NEW w \in Workers, HandlerStep(w)
  PROVE  UNCHANGED <<CsvWritten, ReportedTasks>>
<1>1. UNCHANGED <<queueSize, mpc, csv>>
  BY DEF HandlerStep, Handler, HandlerGoes, HandlerMoves, StartHandler, ReadInit,
    ReadInitFails, DequeueTask, Dequeue, DequeueEmpty, DequeueNothing, WriteTask,
    ReadResult, ReadResultTooLarge, CallFails, CountFailure, GiveUp, OnTaskCompleted,
    RecordTimings, CountCompleted, dispatcherVars, mainVars
<1> QED BY <1>1, ReportUntouched

\* Where a step of a handler takes it, and no other handler moves.
LEMMA OneHandlerMoves ==
  ASSUME TypeOK, NEW w \in Workers, NEW from, NEW to, HandlerGoes(w, from, to)
  PROVE  /\ hpc[w] = from /\ hpc'[w] = to
         /\ \A v \in Workers : v # w => hpc'[v] = hpc[v]
BY DEF HandlerGoes, TypeOK, ServerTypeOK

\* A step of w that changes the state of its own task only is that step of the promise.
LEMMA OneTaskMoves ==
  ASSUME NEW t \in Task, NEW to,
         TaskState(t)' = to,
         \A u \in Task \ {t} : TaskState(u)' = TaskState(u)
  PROVE  TaskStateOf' = [TaskStateOf EXCEPT ![t] = to]
BY DEF TaskStateOf

-----------------------------------------------------------------------------
\* Every step of a handler is a step of the promise or changes nothing in it.
LEMMA HandlerImplements ==
  ASSUME RefinementInv, NEW w \in Workers, HandlerStep(w)
  PROVE  (\E t \in Task : Abstract!Assign(t) \/ Abstract!Record(t) \/ Abstract!Lose(t))
         \/ UNCHANGED promise
<1>r. UNCHANGED <<CsvWritten, ReportedTasks>>
  BY HandlerKeepsReport
<1>t. /\ TypeOK /\ queueSize \in Nat /\ enqueued_ \in Nat
      /\ queueSize <= NumTasks
      /\ ts_snd_rec \in [0 .. (queueSize - 1) -> Int]
      /\ htask \in [Workers -> Task \cup {Blank}]
      /\ hpc \in [Workers -> HandlerStates]
      /\ (\A t \in Task : t \in Nat) /\ Blank \notin Task
  BY NumTasksAssumption DEF RefinementInv, TypeOK, ServerTypeOK, DispatcherTypeOK, Task, Blank
<1>1. CASE StartHandler(w) \/ ReadInit(w) \/ ReadInitFails(w) \/ WriteTask(w)
           \/ ReadResult(w) \/ CountFailure(w) \/ GiveUp(w) \/ CountCompleted(w)
  <2>1. UNCHANGED <<queueSize, enqueued_, ts_snd_rec, htask>>
    BY <1>1
    DEF StartHandler, ReadInit, ReadInitFails, WriteTask, ReadResult, CountFailure,
      GiveUp, CountCompleted, HandlerMoves, OnTaskCompleted, dispatcherVars
  <2>2. \A v \in Workers : Assigned(v)' <=> Assigned(v)
    BY <1>1, <1>t, OneHandlerMoves
    DEF StartHandler, ReadInit, ReadInitFails, WriteTask, ReadResult, CountFailure,
      GiveUp, CountCompleted, HandlerMoves, Assigned
  <2> QED BY <2>1, <2>2, <1>r, StatesUntouched DEF promise
<1>2. CASE DequeueTask(w)
  <2>0. PICK t : t = enqueued_
    OBVIOUS
  <2>1. /\ t < queueSize /\ enqueued_' = t + 1 /\ htask' = [htask EXCEPT ![w] = t]
        /\ UNCHANGED <<queueSize, ts_snd_rec>>
        /\ hpc[w] = "dequeue" /\ hpc'[w] = "write"
        /\ \A v \in Workers : v # w => hpc'[v] = hpc[v]
    BY <2>0, <1>2, <1>t, OneHandlerMoves DEF DequeueTask, Dequeue
  <2>2. t \in Task /\ t \notin Claimed /\ Claimed' = Claimed \cup {t}
    <3>1. t \in Task
      BY <2>0, <2>1, <1>t, NumTasksAssumption DEF Task
    <3>2. \A u \in Task : u < t + 1 <=> u < t \/ u = t
      BY <2>0, <1>t
    <3> QED BY <2>0, <2>1, <3>1, <3>2, <1>t DEF Claimed
  <2>3. ts_snd_rec[t] = Blank
    BY <2>0, <2>1, <1>t DEF RefinementInv, Accounts
  <2>4. TaskState(t) = "queued" /\ TaskState(t)' = "assigned"
    BY <2>1, <2>2, <2>3, <1>t DEF TaskState, Blank
  <2>5. ASSUME NEW u \in Task \ {t} PROVE TaskState(u)' = TaskState(u)
    <3>1. u \in Claimed' <=> u \in Claimed
      BY <2>2
    <3>2. \A v \in Workers : htask'[v] = u /\ hpc'[v] \in {"write", "read", "store"}
                             <=> htask[v] = u /\ hpc[v] \in {"write", "read", "store"}
      BY <2>1, <1>t
    <3> QED BY <3>1, <3>2, <2>1 DEF TaskState, Blank
  <2>6. TaskStateOf' = [TaskStateOf EXCEPT ![t] = "assigned"]
    BY <2>2, <2>4, <2>5, OneTaskMoves
  <2>7. Abstract!Assign(t)
    BY <2>2, <2>4, <2>6, <1>r DEF Abstract!Assign, TaskStateOf, ReportedTasks
  <2> QED BY <2>2, <2>7
<1>3. CASE DequeueEmpty(w)
  <2>1. /\ enqueued_ >= queueSize /\ enqueued_' = enqueued_ + 1
        /\ UNCHANGED <<queueSize, ts_snd_rec, htask>>
    BY <1>3 DEF DequeueEmpty, DequeueNothing
  <2>2. Claimed' = Claimed
    BY <2>1, <1>t DEF Claimed
  <2>3. \A v \in Workers : Assigned(v)' <=> Assigned(v)
    BY <1>3, <1>t, OneHandlerMoves DEF DequeueEmpty, Assigned
  <2>4. ASSUME NEW u \in Task PROVE TaskState(u)' = TaskState(u)
    BY <2>1, <2>2, <2>3 DEF TaskState, Assigned, Blank
  <2> QED BY <2>4, <1>r DEF promise, TaskStateOf
<1>4. CASE ReadResultTooLarge(w) \/ CallFails(w)
  <2>0. PICK t : t = htask[w]
    OBVIOUS
  <2>1. /\ UNCHANGED <<queueSize, enqueued_, ts_snd_rec, htask>>
        /\ hpc[w] \in {"write", "read"} /\ hpc'[w] = "fail"
        /\ \A v \in Workers : v # w => hpc'[v] = hpc[v]
    BY <1>4, <1>t, OneHandlerMoves
    DEF ReadResultTooLarge, CallFails, HandlerMoves, dispatcherVars
  <2>2. t \in Claimed /\ ts_snd_rec[t] = Blank /\ \A v \in Workers : htask[v] = t => v = w
    BY <2>0, <2>1, UnsettledTask
  <2>3. t \in Task /\ Claimed' = Claimed
    BY <2>1, <2>2 DEF Claimed
  <2>4. TaskState(t) = "assigned" /\ TaskState(t)' = "lost"
    BY <2>0, <2>1, <2>2, <2>3 DEF TaskState, Blank
  <2>5. ASSUME NEW u \in Task \ {t} PROVE TaskState(u)' = TaskState(u)
    BY <2>0, <2>1, <2>3 DEF TaskState, Blank
  <2>6. TaskStateOf' = [TaskStateOf EXCEPT ![t] = "lost"]
    BY <2>3, <2>4, <2>5, OneTaskMoves
  <2>7. Abstract!Lose(t)
    BY <2>3, <2>4, <2>6, <1>r DEF Abstract!Lose, TaskStateOf, ReportedTasks
  <2> QED BY <2>3, <2>7
<1>5. CASE RecordTimings(w)
  <2>0. PICK t : t = htask[w]
    OBVIOUS
  <2>1. /\ UNCHANGED <<queueSize, enqueued_, htask>>
        /\ hpc[w] = "store" /\ hpc'[w] = "count"
        /\ \A v \in Workers : v # w => hpc'[v] = hpc[v]
    BY <1>5, <1>t, OneHandlerMoves DEF RecordTimings, dispatcherVars
  <2>2. t \in Claimed /\ ts_snd_rec[t] = Blank /\ \A v \in Workers : htask[v] = t => v = w
    BY <2>0, <2>1, UnsettledTask
  <2>3. t \in Task /\ Claimed' = Claimed
    BY <2>1, <2>2 DEF Claimed
  <2>4. ts_snd_rec' = [ts_snd_rec EXCEPT ![t] = t]
    BY <2>0, <1>5, <2>1 DEF RecordTimings, RefinementInv, ProgramsInStep, InStep
  <2>5. ts_snd_rec'[t] = t /\ \A u \in Task : u # t => ts_snd_rec'[u] = ts_snd_rec[u]
    BY <2>2, <2>3, <2>4, <1>t DEF Claimed
  <2>6. TaskState(t) = "assigned" /\ TaskState(t)' = "recorded"
    BY <2>0, <2>1, <2>2, <2>3, <2>5, <1>t DEF TaskState, Blank
  <2>7. ASSUME NEW u \in Task \ {t} PROVE TaskState(u)' = TaskState(u)
    BY <2>0, <2>1, <2>3, <2>5 DEF TaskState, Blank
  <2>8. TaskStateOf' = [TaskStateOf EXCEPT ![t] = "recorded"]
    BY <2>3, <2>6, <2>7, OneTaskMoves
  <2>9. Abstract!Record(t)
    BY <2>3, <2>6, <2>8, <1>r DEF Abstract!Record, TaskStateOf, ReportedTasks
  <2> QED BY <2>3, <2>9
<1> QED
  BY <1>1, <1>2, <1>3, <1>4, <1>5 DEF HandlerStep, Handler

-----------------------------------------------------------------------------
\* Every step of main is the publication or changes nothing in the promise.  The
\* process dies only while no handler holds a task.
LEMMA MainImplements ==
  ASSUME RowsFirst, RefinementInv, ServerStep
  PROVE  Abstract!Publish \/ UNCHANGED promise
<1>t. /\ queueSize \in Nat /\ enqueued_ \in Nat /\ completed_ \in Nat
      /\ ts_snd_rec \in [0 .. (queueSize - 1) -> Int]
      /\ \A t \in Task : t \in Nat /\ t < NumTasks
  BY NumTasksAssumption DEF RefinementInv, TypeOK, ServerTypeOK, DispatcherTypeOK, Task
<1>1. CASE LoadTasks
  <2>1. /\ mpc = "load" /\ mpc' = "bind" /\ UNCHANGED <<enqueued_, csv>>
        /\ enqueued_ = 0
    BY <1>1 DEF LoadTasks, MainGoes, EnqueueAll, RefinementInv, CountInv
  <2>2. \A t \in Task : t \notin Claimed /\ t \notin Claimed'
    BY <2>1, <1>t DEF Claimed
  <2>3. UNCHANGED TaskStateOf
    BY <2>2 DEF TaskStateOf, TaskState
  <2>4. UNCHANGED <<CsvWritten, ReportedTasks>>
    BY <2>1 DEF CsvWritten, ReportedTasks, Blank
  <2> QED BY <2>3, <2>4 DEF promise
<1>2. CASE ProcessDies /\ mpc \in {"load", "bind", "csv"}
  <2>1. /\ UNCHANGED <<queueSize, enqueued_, ts_snd_rec, htask, csv>> /\ mpc' = "failed"
        /\ \A w \in Workers : hpc'[w] = IF hpc[w] = "none" THEN "none" ELSE "done"
    BY <1>2 DEF ProcessDies, dispatcherVars
  <2>2. \A w \in Workers : hpc[w] \notin {"write", "read", "store"}
    <3>1. CASE mpc = "csv"
      BY <3>1, CountedMeansIdle DEF RefinementInv, NoWriterWhileReporting, Owners, Holding
    <3>2. CASE mpc \in {"load", "bind"}
      BY <3>2 DEF RefinementInv, CountInv
    <3> QED BY <1>2, <3>1, <3>2
  <2>3. \A w \in Workers : Assigned(w)' <=> Assigned(w)
    BY <2>1, <2>2 DEF Assigned
  <2>4. UNCHANGED <<CsvWritten, ReportedTasks>>
    BY <1>2, <2>1 DEF CsvWritten, ReportedTasks, Blank
  <2> QED BY <2>1, <2>3, <2>4, StatesUntouched DEF promise
<1>3. CASE RecordCsv
  <2>1. /\ mpc = "csv" /\ mpc' = "shutdown"
        /\ UNCHANGED <<queueSize, enqueued_, ts_snd_rec, htask, hpc>>
        /\ csv' = [p \in DOMAIN ts_snd_rec |-> ts_snd_rec[p]]
    BY <1>3 DEF RecordCsv, MainGoes, dispatcherVars
  <2>2. /\ queueSize = NumTasks /\ CsvWritten' /\ ~CsvWritten
    BY <2>1, NumTasksAssumption DEF RefinementInv, QueueFull, CsvWritten
  <2>3. Owners = {}
    BY <2>1, CountedMeansIdle DEF RefinementInv, NoWriterWhileReporting
  <2>4. completed_ = TasksClaimed /\ completed_ >= queueSize
    BY <2>1, <2>3, <1>t, FS_EmptySet DEF RefinementInv, CountInv, TasksClaimed
  <2>5. \A t \in Task : t \in Claimed
    BY <2>2, <2>4, <1>t DEF TasksClaimed, Claimed
  <2>6. \A t \in Task : TaskState(t) = IF ts_snd_rec[t] # Blank THEN "recorded" ELSE "lost"
    BY <2>3, <2>5 DEF TaskState, Owners, Holding
  <2>7. UNCHANGED TaskStateOf
    BY <2>1, StatesUntouched DEF Assigned
  <2>8. ReportedTasks' = {t \in Task : TaskStateOf[t] = "recorded"}
    <3>1. DOMAIN csv' = Task /\ \A t \in Task : csv'[t] = ts_snd_rec[t]
      BY <2>1, <2>2, <1>t DEF Task
    <3> QED BY <3>1, <2>6 DEF ReportedTasks, TaskStateOf, Blank
  <2>9. \A t \in Task : TaskStateOf[t] \in {"recorded", "lost"}
    BY <2>6 DEF TaskStateOf
  <2> QED
    BY <2>2, <2>7, <2>8, <2>9
    DEF Abstract!Publish, Abstract!Recorded, TaskStateOf, ReportedTasks
<1>4. CASE /\ UNCHANGED <<queueSize, enqueued_, ts_snd_rec, htask, hpc, csv>>
           /\ UNCHANGED CsvWritten
  <2>1. UNCHANGED TaskStateOf
    BY <1>4, StatesUntouched DEF Assigned
  <2> QED BY <1>4, <2>1 DEF promise, ReportedTasks, Blank
<1>5. NothingToDistribute => UNCHANGED CsvWritten
  BY DEF NothingToDistribute, MainMoves, MainGoes, dispatcherVars, CsvWritten,
    RefinementInv, CountInv
<1> QED
  BY <1>1, <1>2, <1>3, <1>4, <1>5
  DEF ServerStep, Main, MainGoes, MainMoves, LoadThrows, BindFails, RecordCsvThrows,
    NothingToDistribute, BuildAndStart, PollNotDone, PollDone, ShutdownDispatcher,
    Shutdown, StopServer, WaitHandlers, CsvWritten, dispatcherVars

\* Clients, the runner and the failures change nothing that the promise speaks of:
\* a task is lost when its handler finds out.
LEMMA OthersImplement ==
  ASSUME NEW w \in Workers, ClientStep(w) \/ Launch(w) \/ Crash(w) \/ CutOff(w)
  PROVE  UNCHANGED promise
<1>1. UNCHANGED <<dispatcherVars, ts_snd_rec, htask, hpc, mainVars>>
  BY DEF ClientStep, RegisterWorker, RegisterFails, OpenStream, Launch, Crash, CutOff,
    serviceVars, dispatcherVars, mainVars
<1>2. UNCHANGED TaskStateOf
  BY <1>1, StatesUntouched DEF Assigned, dispatcherVars
<1> QED
  BY <1>1, <1>2, ReportUntouched DEF promise, dispatcherVars, mainVars

\* Step by step, the gRPC transport does what TaskDistribution allows.
LEMMA StepImplements ==
  RowsFirst /\ RefinementInv /\ [Next]_vars => [Abstract!Next]_promise
<1> SUFFICES ASSUME RowsFirst, RefinementInv, [Next]_vars
             PROVE  [Abstract!Next]_promise
  OBVIOUS
<1>1. CASE ServerStep
  BY <1>1, MainImplements DEF Abstract!Next
<1>2. ASSUME NEW w \in Workers, HandlerStep(w) PROVE [Abstract!Next]_promise
  BY <1>2, HandlerImplements DEF Abstract!Next
<1>3. ASSUME NEW w \in Workers, ClientStep(w) \/ Launch(w) \/ Crash(w) \/ CutOff(w)
      PROVE  [Abstract!Next]_promise
  BY <1>3, OthersImplement
<1>4. CASE UNCHANGED vars
  <2>1. UNCHANGED <<dispatcherVars, ts_snd_rec, htask, hpc, mainVars>>
    BY <1>4 DEF vars, serviceVars
  <2>2. UNCHANGED TaskStateOf
    BY <2>1, StatesUntouched DEF Assigned, dispatcherVars
  <2> QED
    BY <2>1, <2>2, ReportUntouched DEF promise, dispatcherVars, mainVars
<1> QED BY <1>1, <1>2, <1>3, <1>4 DEF Next, Finished

\* At the start every task is queued and nothing is published.
LEMMA InitImplements == Init => Abstract!Init
<1> SUFFICES ASSUME Init PROVE Abstract!Init
  OBVIOUS
<1> USE DEF Init, ServerInit, DispatcherInit
<1>1. TaskStateOf = [t \in Task |-> "queued"]
  BY DEF TaskStateOf, TaskState, Claimed, Task
<1>2. ~CsvWritten /\ ReportedTasks = {}
  BY DEF CsvWritten, ReportedTasks
<1> QED BY <1>1, <1>2 DEF Abstract!Init, TaskStateOf, ReportedTasks

(***************************************************************************)
(* Where a row is visible before its count, the gRPC master hands every    *)
(* task out once, keeps its timings or loses it with its worker, and writes*)
(* one CSV, of exactly the timings it kept, when no task is left or under  *)
(* way (server.cpp:41-74, 111-153, 236-258) - whatever crashes, cuts and   *)
(* refused messages happen, for any number of workers and tasks.           *)
(***************************************************************************)
THEOREM ImplementsPromise == ASSUME RowsFirst PROVE Spec => ImplementsTaskDistribution
<1>1. Init => RefinementInv
  <2>1. Init => QueueFull /\ ReportIsFinal
    BY DEF Init, ServerInit, DispatcherInit, QueueFull, ReportIsFinal, CsvWritten
  <2> QED
    BY <2>1, InitTyped, CountInitially, InStepInitially, ClaimedOnceInitially,
       AccountsInitially
    DEF RefinementInv
<1>2. RefinementInv /\ [Next]_vars => RefinementInv'
  BY NextTyped, CountInductive, InStepInductive, ClaimedOnceInductive, AccountsInductive,
     ReportStaysFinal, QueueFullInductive
  DEF RefinementInv
<1>3. RefinementInv /\ [Next]_vars => [Abstract!Next]_(Abstract!abstractVars)
  BY StepImplements DEF promise, Abstract!abstractVars, TaskStateOf, ReportedTasks
<1> QED
  BY <1>1, <1>2, <1>3, InitImplements, PTL
  DEF Spec, ImplementsTaskDistribution, Abstract!Spec
=============================================================================
