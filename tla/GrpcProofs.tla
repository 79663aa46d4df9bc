------------------------------ MODULE GrpcProofs ------------------------------
(***************************************************************************)
(* Theorems about the gRPC transport, for every finite set of workers,     *)
(* every number of tasks and every choice of the workers that may fail.    *)
(***************************************************************************)
EXTENDS GrpcSystem, TLAPS, FiniteSetTheorems

USE NumTasksAssumption, WorkersAssumption, RowsFirstAssumption
    DEF NumTasksAssumption, WorkersAssumption, RowsFirstAssumption

-----------------------------------------------------------------------------
\* A message written keeps the channel a queue of task ids.
LEMMA WrittenTyped ==
  ASSUME NEW channel \in [Workers -> Seq(Int)], NEW w \in Workers, NEW m \in Int
  PROVE  Written(channel, w, m) \in [Workers -> Seq(Int)]
<1>1. Append(channel[w], m) \in Seq(Int)
  OBVIOUS
<1> QED BY <1>1 DEF Written

\* So does a message taken, which is one of them.
LEMMA TakenTyped ==
  ASSUME NEW channel \in [Workers -> Seq(Int)], NEW w \in Workers,
         channel[w] # <<>>
  PROVE  /\ Taken(channel, w) \in [Workers -> Seq(Int)]
         /\ Head(channel[w]) \in Int
<1>1. Tail(channel[w]) \in Seq(Int) /\ Head(channel[w]) \in Int
  <2>1. channel[w] \in Seq(Int)
    OBVIOUS
  <2> QED BY <2>1
<1> QED BY <1>1 DEF Taken

-----------------------------------------------------------------------------
\* The state in which the programs start is well typed.
LEMMA InitTyped == Init => TypeOK
<1> USE DEF TypeOK, ServerTypeOK, DispatcherTypeOK, StreamTypeOK, ClientTypeOK
<1> SUFFICES ASSUME Init PROVE TypeOK
  OBVIOUS
<1> USE DEF Init
<1>1. DispatcherTypeOK
  BY DEF ServerInit, DispatcherInit
<1>2. ServerTypeOK
  BY <1>1 DEF ServerInit, HandlerStates, MainStates, Task, Blank
<1>3. StreamTypeOK
  <2>1. <<>> \in Seq(Int)
    OBVIOUS
  <2> QED BY <2>1 DEF StreamInit
<1>4. ClientTypeOK
  BY DEF ClientInit, ClientStates
<1> QED BY <1>2, <1>3, <1>4

\* Every step of every thread, client or failure keeps the state well typed.
LEMMA NextTyped == TypeOK /\ [Next]_vars => TypeOK'
<1> USE DEF TypeOK, ServerTypeOK, DispatcherTypeOK, StreamTypeOK, ClientTypeOK
<1> SUFFICES ASSUME TypeOK, [Next]_vars PROVE TypeOK'
  OBVIOUS
<1> USE DEF dispatcherVars, streamVars, serviceVars, mainVars, clientVars
<1>1. CASE ServerStep
  <2> USE <1>1 DEF ServerStep, MainGoes, MainMoves, MainStates
  <2>1. CASE LoadTasks BY <2>1 DEF LoadTasks, EnqueueAll, Blank
  <2>2. CASE NothingToDistribute BY <2>2 DEF NothingToDistribute
  <2>3. CASE ProcessDies
    BY <2>3 DEF ProcessDies, HandlerStates
  <2>4. CASE BuildAndStart BY <2>4 DEF BuildAndStart
  <2>5. CASE PollNotDone BY <2>5 DEF PollNotDone
  <2>6. CASE PollDone BY <2>6 DEF PollDone
  <2>7. CASE RecordCsv BY <2>7 DEF RecordCsv, Blank
  <2>8. CASE ShutdownDispatcher BY <2>8 DEF ShutdownDispatcher, Shutdown
  <2>9. CASE StopServer BY <2>9 DEF StopServer
  <2>10. CASE WaitHandlers BY <2>10 DEF WaitHandlers
  <2> QED
    BY <2>1, <2>2, <2>3, <2>4, <2>5, <2>6, <2>7, <2>8, <2>9, <2>10
    DEF Main, LoadThrows, BindFails, RecordCsvThrows
<1>2. ASSUME NEW w \in Workers, HandlerStep(w) PROVE TypeOK'
  <2>g. /\ \E to \in HandlerStates : hpc' = [hpc EXCEPT ![w] = to]
        /\ UNCHANGED <<mainVars, next_worker_id_, clientVars>>
    <3> HIDE DEF TypeOK, ServerTypeOK, DispatcherTypeOK, StreamTypeOK, ClientTypeOK
    <3> QED
      BY <1>2 DEF HandlerStep, Handler, HandlerMoves, HandlerGoes, HandlerStates, StartHandler,
         ReadInit, ReadInitFails, DequeueTask, DequeueEmpty, WriteTask, ReadResult,
         ReadResultTooLarge, CallFails, CountFailure, GiveUp, RecordTimings, CountCompleted
  <2>p. hpc' \in [Workers -> HandlerStates]
    BY <2>g
  <2> USE <2>g, <2>p DEF HandlerMoves
  <2>1. CASE StartHandler(w) BY <2>1 DEF StartHandler
  <2>2. CASE ReadInit(w)
    <3>1. c2s' \in [Workers -> Seq(Int)]
      BY <2>2, TakenTyped DEF ReadInit
    <3> QED BY <2>2, <3>1 DEF ReadInit
  <2>3. CASE ReadInitFails(w) BY <2>3 DEF ReadInitFails
  <2>4. CASE DequeueTask(w)
    <3>1. enqueued_ \in Task /\ enqueued_' \in Nat
      BY <2>4, NumTasksAssumption DEF DequeueTask, Dequeue, Task
    <3>2. htask' \in [Workers -> Task \cup {Blank}]
      BY <2>4, <3>1 DEF DequeueTask
    <3> QED BY <2>4, <3>1, <3>2 DEF DequeueTask, Dequeue
  <2>5. CASE DequeueEmpty(w)
    <3>1. enqueued_' \in Nat /\ UNCHANGED <<queueSize, completed_, shutdown_>>
      BY <2>5 DEF DequeueEmpty, DequeueNothing
    <3> QED BY <2>5, <3>1 DEF DequeueEmpty, Closed
  <2>6. CASE WriteTask(w)
    <3>1. htask[w] \in Int
      BY DEF Task, Blank
    <3>2. s2c' \in [Workers -> Seq(Int)]
      BY <2>6, <3>1, WrittenTyped DEF WriteTask
    <3> QED BY <2>6, <3>2 DEF WriteTask
  <2>7. CASE ReadResult(w)
    <3>1. c2s' \in [Workers -> Seq(Int)]
      BY <2>7, TakenTyped DEF ReadResult
    <3>2. hresult' \in [Workers -> Int]
      BY <2>7, TakenTyped DEF ReadResult
    <3> QED BY <2>7, <3>1, <3>2 DEF ReadResult
  <2>large. CASE ReadResultTooLarge(w)
    BY <2>large, TakenTyped DEF ReadResultTooLarge, ReadTooLarge, Broken
  <2>8. CASE CallFails(w) BY <2>8 DEF CallFails
  <2>9. CASE CountFailure(w)
    <3>1. failed' \in Nat
      BY <2>9 DEF CountFailure
    <3> QED BY <2>9, <3>1 DEF CountFailure
  <2>10. CASE GiveUp(w)
    <3>1. completed_' \in Nat /\ UNCHANGED <<queueSize, enqueued_, shutdown_>>
      BY <2>10 DEF GiveUp, OnTaskCompleted
    <3> QED BY <2>10, <3>1 DEF GiveUp
  <2>11. CASE RecordTimings(w) BY <2>11 DEF RecordTimings
  <2>12. CASE CountCompleted(w)
    <3>1. completed_' \in Nat /\ UNCHANGED <<queueSize, enqueued_, shutdown_>>
      BY <2>12 DEF CountCompleted, OnTaskCompleted
    <3> QED BY <2>12, <3>1 DEF CountCompleted
  <2> QED
    BY <1>2, <2>1, <2>2, <2>3, <2>4, <2>5, <2>6, <2>7, <2>large, <2>8, <2>9, <2>10, <2>11,
       <2>12 DEF HandlerStep, Handler
<1>3. ASSUME NEW w \in Workers, ClientStep(w) PROVE TypeOK'
  <2> USE <1>3 DEF ClientGoes, ClientMoves, ClientStates
  <2>1. CASE WriteReady(w) /\ UNCHANGED <<dispatcherVars, serviceVars, mainVars>>
    <3>1. Ready \in Int
      BY DEF Ready
    <3>2. c2s' \in [Workers -> Seq(Int)]
      BY <2>1, <3>1, WrittenTyped DEF WriteReady
    <3> QED BY <2>1, <3>2 DEF WriteReady
  <2>2. CASE WriteReadyFails(w) /\ UNCHANGED <<dispatcherVars, serviceVars, mainVars>>
    BY <2>2 DEF WriteReadyFails
  <2>3. CASE ReadTask(w) /\ UNCHANGED <<dispatcherVars, serviceVars, mainVars>>
    BY <2>3, TakenTyped DEF ReadTask
  <2>large. CASE ReadTaskTooLarge(w) /\ UNCHANGED <<dispatcherVars, serviceVars, mainVars>>
    BY <2>large, TakenTyped DEF ReadTaskTooLarge, ReadTooLarge, Broken
  <2>4. CASE ReadEnds(w) /\ UNCHANGED <<dispatcherVars, serviceVars, mainVars>>
    BY <2>4 DEF ReadEnds
  <2>5. CASE WriteResult(w) /\ UNCHANGED <<dispatcherVars, serviceVars, mainVars>>
    BY <2>5, WrittenTyped DEF WriteResult
  <2>6. CASE WriteResultFails(w) /\ UNCHANGED <<dispatcherVars, serviceVars, mainVars>>
    BY <2>6 DEF WriteResultFails
  <2>7. CASE Finish(w) /\ UNCHANGED <<dispatcherVars, serviceVars, mainVars>>
    BY <2>7 DEF Finish
  <2>8. CASE RegisterWorker(w)
    <3>1. next_worker_id_' \in Nat /\ worker_id' \in [Workers -> Nat]
      BY <2>8 DEF RegisterWorker
    <3> QED BY <2>8, <3>1 DEF RegisterWorker
  <2>9. CASE RegisterFails(w)
    <3>1. next_worker_id_' \in Nat
      BY <2>9 DEF RegisterFails
    <3> QED BY <2>9, <3>1 DEF RegisterFails
  <2>10. CASE OpenStream(w) BY <2>10 DEF OpenStream
  <2> QED
    BY <2>1, <2>2, <2>3, <2>large, <2>4, <2>5, <2>6, <2>7, <2>8, <2>9, <2>10
    DEF ClientStep, Client
<1>4. ASSUME NEW w \in Workers, Launch(w) \/ Crash(w) \/ CutOff(w) PROVE TypeOK'
  BY <1>4 DEF Launch, Crash, CutOff, Broken, ClientGoes, ClientMoves, ClientStates
<1>5. CASE UNCHANGED vars
  BY <1>5 DEF vars
<1> QED
  BY <1>1, <1>2, <1>3, <1>4, <1>5 DEF Next, Finished

\* The state is well typed in every reachable state; its constants are those
\* of the code, so no counter, row or message ever leaves its range.
THEOREM TypeCorrect == Spec => []TypeOK
<1> QED BY InitTyped, NextTyped, PTL DEF Spec

-----------------------------------------------------------------------------
\* The handlers at work are finitely many, so they can be counted.
LEMMA OwnersCounted ==
  /\ IsFiniteSet(Owners)
  /\ Cardinality(Owners) \in Nat
  /\ Cardinality(Owners) = 0 => Owners = {}
<1>1. Owners \subseteq Workers
  BY DEF Owners
<1>2. IsFiniteSet(Owners)
  BY <1>1, FS_Subset
<1> QED BY <1>2, FS_CardinalityType, FS_EmptySet

\* A handler that claims a task joins the owners, one that settles it leaves
\* them, and any other step of a handler keeps them as they are.
LEMMA OwnersStep ==
  ASSUME TypeOK, NEW w \in Workers, NEW from, NEW to, HandlerGoes(w, from, to)
  PROVE  /\ (from \in Holding <=> to \in Holding) => Owners' = Owners
         /\ from \notin Holding /\ to \in Holding =>
              /\ Owners' = Owners \cup {w}
              /\ Cardinality(Owners') = Cardinality(Owners) + 1
         /\ from \in Holding /\ to \notin Holding =>
              /\ Owners' = Owners \ {w}
              /\ Cardinality(Owners') = Cardinality(Owners) - 1
<1> DEFINE here == hpc[w] \in Holding
           there == hpc'[w] \in Holding
<1>1. /\ hpc[w] = from /\ hpc'[w] = to
      /\ \A v \in Workers : v # w => hpc'[v] = hpc[v]
  BY DEF HandlerGoes, HandlerMoves, TypeOK, ServerTypeOK
<1>2. (here <=> there) => Owners' = Owners
  BY <1>1 DEF Owners
<1>3. ~here /\ there => w \notin Owners /\ Owners' = Owners \cup {w}
  BY <1>1 DEF Owners
<1>4. here /\ ~there => w \in Owners /\ Owners' = Owners \ {w}
  BY <1>1 DEF Owners
<1>5. ~here /\ there => Cardinality(Owners') = Cardinality(Owners) + 1
  BY <1>3, OwnersCounted, FS_AddElement
<1>6. here /\ ~there => Cardinality(Owners') = Cardinality(Owners) - 1
  BY <1>4, OwnersCounted, FS_RemoveElement
<1> QED BY <1>1, <1>2, <1>3, <1>4, <1>5, <1>6

\* A step that leaves main, the counters and the handlers alone keeps CountInv.
LEMMA CountUntouched ==
  CountInv /\ UNCHANGED <<dispatcherVars, mpc, hpc>> => CountInv'
BY DEF CountInv, dispatcherVars, Owners, TasksClaimed, Holding

\* Conservation is inductive: each access to the counters is matched by a
\* handler joining or leaving the owners.
LEMMA CountInductive == TypeOK /\ CountInv /\ [Next]_vars => CountInv'
<1> SUFFICES ASSUME TypeOK, CountInv, [Next]_vars PROVE CountInv'
  OBVIOUS
<1>t. /\ queueSize \in Nat /\ enqueued_ \in Nat /\ completed_ \in Nat
      /\ mpc \in MainStates
      /\ Cardinality(Owners) \in Nat
  BY OwnersCounted DEF TypeOK, ServerTypeOK, DispatcherTypeOK
<1> USE DEF dispatcherVars, streamVars, serviceVars, mainVars, clientVars
<1>1. CASE ServerStep
  <2> USE <1>1, <1>t DEF MainGoes, MainMoves, CountInv, TasksClaimed
  <2>1. CASE LoadTasks
    <3>1. Owners = {} /\ Owners' = {}
      BY <2>1 DEF LoadTasks, Owners, Holding
    <3>2. Cardinality(Owners) = 0 /\ Cardinality(Owners') = 0
      BY <3>1, FS_EmptySet
    <3>3. /\ mpc = "load" /\ mpc' = "bind" /\ hpc' = hpc
          /\ queueSize' = NumTasks
          /\ UNCHANGED <<enqueued_, completed_, shutdown_>>
      BY <2>1 DEF LoadTasks, EnqueueAll
    <3>4. enqueued_ = 0 /\ completed_ = 0 /\ ~shutdown_
      BY <3>3
    <3>5. TasksClaimed' = 0
      BY <3>3, <3>4
    <3> QED BY <3>2, <3>3, <3>4, <3>5
  <2>2. CASE NothingToDistribute BY <2>2 DEF NothingToDistribute, Owners
  <2>3. CASE ProcessDies /\ mpc \in {"load", "bind", "csv"}
    BY <2>3 DEF ProcessDies
  <2>4. CASE BuildAndStart BY <2>4 DEF BuildAndStart, Owners
  <2>5. CASE PollNotDone BY <2>5, CountUntouched DEF PollNotDone
  <2>6. CASE PollDone BY <2>6 DEF PollDone, Done, Owners
  <2>7. CASE RecordCsv BY <2>7 DEF RecordCsv, Owners
  <2>8. CASE ShutdownDispatcher
    BY <2>8 DEF ShutdownDispatcher, Shutdown, Owners
  <2>9. CASE StopServer BY <2>9 DEF StopServer, Owners
  <2>10. CASE WaitHandlers BY <2>10 DEF WaitHandlers, Owners
  <2> QED
    BY <1>1, <2>1, <2>2, <2>3, <2>4, <2>5, <2>6, <2>7, <2>8, <2>9, <2>10
    DEF ServerStep, Main, LoadThrows, BindFails, RecordCsvThrows
<1>2. ASSUME NEW w \in Workers, HandlerStep(w) PROVE CountInv'
  <2>1. mpc \notin {"load", "bind"} /\ mpc' = mpc
    BY <1>2 DEF HandlerStep, Handler, CountInv, HandlerGoes, HandlerMoves,
      CallArrived, listening,
      StartHandler, ReadInit, ReadInitFails, DequeueTask, DequeueEmpty,
      WriteTask, ReadResult, ReadResultTooLarge, CallFails, CountFailure, GiveUp, RecordTimings,
      CountCompleted
  <2> USE <1>t, <2>1 DEF CountInv, TasksClaimed, Holding
  <2>2. CASE StartHandler(w) \/ ReadInit(w) \/ ReadInitFails(w) \/ WriteTask(w)
             \/ ReadResult(w) \/ ReadResultTooLarge(w) \/ CountFailure(w) \/ RecordTimings(w)
             \/ CallFails(w)
    <3>1. Owners' = Owners
      BY <2>2, OwnersStep DEF HandlerMoves, StartHandler, ReadInit, ReadInitFails, WriteTask,
        ReadResult, ReadResultTooLarge, CountFailure, RecordTimings, CallFails
    <3> QED
      BY <2>2, <3>1 DEF HandlerMoves, StartHandler, ReadInit, ReadInitFails,
        WriteTask, ReadResult, ReadResultTooLarge, CountFailure, RecordTimings, CallFails
  <2>3. CASE DequeueTask(w)
    <3>1. Cardinality(Owners') = Cardinality(Owners) + 1
      BY <2>3, OwnersStep DEF DequeueTask
    <3> QED BY <2>3, <3>1 DEF DequeueTask, Dequeue
  <2>4. CASE DequeueEmpty(w)
    <3>1. Owners' = Owners
      BY <2>4, OwnersStep DEF DequeueEmpty
    <3> QED BY <2>4, <3>1 DEF DequeueEmpty, DequeueNothing
  <2>5. CASE GiveUp(w)
    <3>1. Cardinality(Owners') = Cardinality(Owners) - 1
      BY <2>5, OwnersStep DEF GiveUp
    <3> QED BY <2>5, <3>1 DEF GiveUp, OnTaskCompleted
  <2>6. CASE CountCompleted(w)
    <3>1. Cardinality(Owners') = Cardinality(Owners) - 1
      BY <2>6, OwnersStep DEF CountCompleted
    <3> QED BY <2>6, <3>1 DEF CountCompleted, OnTaskCompleted
  <2> QED
    BY <1>2, <2>2, <2>3, <2>4, <2>5, <2>6 DEF HandlerStep, Handler
<1>3. ASSUME NEW w \in Workers, ClientStep(w) PROVE CountInv'
  <2>1. UNCHANGED <<dispatcherVars, mpc, hpc>>
    BY <1>3 DEF ClientStep, RegisterWorker, RegisterFails, OpenStream
  <2> QED BY <2>1, CountUntouched
<1>4. ASSUME NEW w \in Workers, Launch(w) \/ Crash(w) \/ CutOff(w) PROVE CountInv'
  <2>1. UNCHANGED <<dispatcherVars, mpc, hpc>>
    BY <1>4 DEF Launch, Crash, CutOff
  <2> QED BY <2>1, CountUntouched
<1>5. CASE UNCHANGED vars
  BY <1>5, CountUntouched DEF vars
<1> QED
  BY <1>1, <1>2, <1>3, <1>4, <1>5 DEF Next, Finished

\* At the start nothing is claimed, counted or owned.
LEMMA CountInitially == Init => CountInv
<1> SUFFICES ASSUME Init PROVE CountInv
  OBVIOUS
<1> USE DEF Init, ServerInit, DispatcherInit
<1>1. Owners = {}
  BY DEF Owners, Holding
<1>2. Cardinality(Owners) = 0
  BY <1>1, FS_EmptySet
<1> QED BY <1>2 DEF CountInv, TasksClaimed

\* Whatever crashes, cuts and interleavings occur, claimed tasks are counted or
\* owned, and main reports only when all are counted.
THEOREM Conservation == Spec => []CountInv
<1> QED
  BY InitTyped, NextTyped, CountInitially, CountInductive, PTL DEF Spec

\* So no handler can touch the table from the moment main decides to report:
\* the lock that record_csv does not take is not needed for mutual exclusion.
LEMMA CountedMeansIdle == TypeOK /\ CountInv => NoWriterWhileReporting
<1> SUFFICES ASSUME TypeOK, CountInv,
                    mpc \in {"csv", "shutdown", "stop", "join", "exited"}
             PROVE  Owners = {}
  BY DEF NoWriterWhileReporting
<1>1. Cardinality(Owners) = 0
  BY OwnersCounted DEF CountInv, TasksClaimed, TypeOK, ServerTypeOK, DispatcherTypeOK
<1> QED BY <1>1, OwnersCounted

THEOREM TableIsQuiet == Spec => []NoWriterWhileReporting
<1> QED
  BY InitTyped, NextTyped, CountInitially, CountInductive, CountedMeansIdle, PTL
  DEF Spec

-----------------------------------------------------------------------------
\* Once the CSV is written the table never changes again: only a handler that
\* owns a task writes a row, and there is none.
LEMMA ReportStaysFinal ==
  ASSUME RowsFirst, TypeOK, CountInv, ReportIsFinal, [Next]_vars
  PROVE  ReportIsFinal'
<1> SUFFICES ASSUME CsvWritten' PROVE csv' = ts_snd_rec'
  BY DEF ReportIsFinal
<1> USE DEF dispatcherVars, streamVars, serviceVars, mainVars, clientVars
<1>1. CASE ServerStep
  <2> USE DEF MainGoes, MainMoves, CsvWritten
  <2>1. CASE RecordCsv
    <3>1. csv' = [p \in DOMAIN ts_snd_rec |-> ts_snd_rec[p]]
      BY <2>1 DEF RecordCsv
    <3>2. ts_snd_rec \in [0 .. (queueSize - 1) -> Int]
      BY DEF TypeOK, ServerTypeOK
    <3> QED BY <2>1, <3>1, <3>2 DEF RecordCsv
  <2>2. CASE NothingToDistribute
    BY <2>2 DEF NothingToDistribute, CountInv, TypeOK, ServerTypeOK, DispatcherTypeOK
  <2>3. CASE ShutdownDispatcher
    BY <2>3 DEF ShutdownDispatcher, Shutdown, ReportIsFinal
  <2>4. CASE StopServer
    BY <2>4 DEF StopServer, ReportIsFinal
  <2>5. CASE WaitHandlers
    BY <2>5 DEF WaitHandlers, ReportIsFinal
  <2>6. mpc' \in {"shutdown", "stop", "join", "exited"}
    OBVIOUS
  <2> QED
    BY <1>1, <2>1, <2>2, <2>3, <2>4, <2>5, <2>6
    DEF ServerStep, Main, LoadTasks, LoadThrows, BindFails, RecordCsvThrows,
      ProcessDies, BuildAndStart, PollNotDone, PollDone
<1>2. ASSUME NEW w \in Workers, HandlerStep(w) PROVE csv' = ts_snd_rec'
  <2>1. UNCHANGED <<queueSize, mpc, csv>>
    BY <1>2 DEF HandlerStep, Handler, HandlerGoes, HandlerMoves, StartHandler,
      ReadInit, ReadInitFails, DequeueTask, Dequeue, DequeueEmpty, DequeueNothing, WriteTask, ReadResult,
      ReadResultTooLarge, CallFails, CountFailure, GiveUp, OnTaskCompleted, RecordTimings,
      CountCompleted
  <2>2. Owners = {} /\ csv = ts_snd_rec
    BY <2>1, CountedMeansIdle DEF CsvWritten, NoWriterWhileReporting, ReportIsFinal
  <2>3. ~RecordTimings(w)
    BY <2>2 DEF RecordTimings, HandlerGoes, HandlerMoves, Owners, Holding
  <2>4. UNCHANGED ts_snd_rec
    BY <1>2, <2>3 DEF HandlerStep, Handler, HandlerMoves, StartHandler, ReadInit,
      ReadInitFails, DequeueTask, DequeueEmpty, WriteTask, ReadResult,
      ReadResultTooLarge, CallFails, CountFailure, GiveUp, CountCompleted
  <2> QED BY <2>1, <2>2, <2>4
<1>3. ASSUME NEW w \in Workers, ClientStep(w) PROVE csv' = ts_snd_rec'
  BY <1>3 DEF ClientStep, RegisterWorker, RegisterFails, OpenStream,
    CsvWritten, ReportIsFinal
<1>4. ASSUME NEW w \in Workers, Launch(w) \/ Crash(w) \/ CutOff(w)
      PROVE  csv' = ts_snd_rec'
  BY <1>4 DEF Launch, Crash, CutOff, CsvWritten, ReportIsFinal
<1>5. CASE UNCHANGED vars
  BY <1>5 DEF vars, CsvWritten, ReportIsFinal
<1> QED
  BY <1>1, <1>2, <1>3, <1>4, <1>5 DEF Next, Finished

\* On a machine that keeps a row before its count, the CSV holds every timing
\* the server will ever know.
THEOREM ReportFinal == ASSUME RowsFirst PROVE Spec => []ReportIsFinal
<1>1. Init => ReportIsFinal
  BY DEF Init, ServerInit, DispatcherInit, ReportIsFinal, CsvWritten
<1> QED
  BY <1>1, InitTyped, NextTyped, CountInitially, CountInductive,
     ReportStaysFinal, PTL
  DEF Spec
=============================================================================
