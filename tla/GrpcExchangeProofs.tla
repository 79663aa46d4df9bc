-------------------------- MODULE GrpcExchangeProofs --------------------------
(***************************************************************************)
(* Theorems about the exchange between a handler and its client: the two   *)
(* stay in step, so no task is in two places and every row holds the       *)
(* timings of its own task.                                                *)
(***************************************************************************)
EXTENDS GrpcProofs

\* What a step of another worker must leave alone.
Local(w) ==
  <<link[w], c2s[w], s2c[w], hpc[w], htask[w], hresult[w], cpc[w], ctask[w]>>

\* A channel with one message is empty before it is written and after it is read.
LEMMA OneMessage ==
  ASSUME NEW x
  PROVE  /\ Append(<<>>, x) = <<x>>
         /\ Head(<<x>>) = x
         /\ Tail(<<x>>) = <<>>
         /\ <<x>> # <<>>
OBVIOUS

\* Ready is no task, nor the absence of one.
LEMMA ReadyIsNoTask ==
  ASSUME TypeOK, NEW w \in Workers
  PROVE  <<htask[w]>> # <<Ready>>
<1>1. htask[w] # Ready
  BY NumTasksAssumption DEF TypeOK, ServerTypeOK, Task, Blank, Ready
<1> QED BY <1>1

\* Whether w is in step depends on w alone.
LEMMA InStepLocal ==
  ASSUME NEW w \in Workers, InStep(w), UNCHANGED Local(w)
  PROVE  InStep(w)'
BY DEF Local, InStep, Exchange

LEMMA InStepInitially == Init => ProgramsInStep
BY DEF Init, ServerInit, StreamInit, ClientInit, ProgramsInStep, InStep, Exchange,
  BeforeReady, Blank

-----------------------------------------------------------------------------
\* Every step of main, a death of the process included, keeps w in step.
LEMMA InStepMain ==
  ASSUME TypeOK, NEW w \in Workers, InStep(w), ServerStep
  PROVE  InStep(w)'
<1> USE DEF ServerStep, clientVars, streamVars, dispatcherVars, MainGoes, MainMoves
<1>1. CASE ProcessDies
  <2>1. /\ UNCHANGED <<c2s[w], s2c[w], htask[w], hresult[w], cpc[w], ctask[w]>>
        /\ hpc'[w] = IF hpc[w] = "none" THEN "none" ELSE "done"
        /\ link'[w] = IF link[w] = "open" THEN "broken" ELSE link[w]
    BY <1>1 DEF ProcessDies
  <2> QED BY <2>1 DEF InStep, Exchange
<1>2. CASE StopServer
  <2>1. /\ UNCHANGED <<c2s[w], s2c[w], hpc[w], htask[w], hresult[w], cpc[w], ctask[w]>>
        /\ link'[w] = IF link[w] = "open" /\ hpc[w] = "none" THEN "broken" ELSE link[w]
    BY <1>2 DEF StopServer
  <2> QED BY <2>1 DEF InStep, Exchange
<1>3. CASE UNCHANGED Local(w)
  BY <1>3, InStepLocal
<1> QED
  BY <1>1, <1>2, <1>3
  DEF Main, Local, LoadTasks, NothingToDistribute, LoadThrows, BuildAndStart,
    BindFails, PollNotDone, PollDone, RecordCsv, RecordCsvThrows,
    ShutdownDispatcher, WaitHandlers

\* Every step of w's handler keeps w in step.
LEMMA InStepHandler ==
  ASSUME TypeOK, NEW w \in Workers, InStep(w), HandlerStep(w)
  PROVE  InStep(w)'
<1>t. /\ hpc \in [Workers -> HandlerStates] /\ link \in [Workers -> {"none", "open", "broken", "closed"}]
      /\ htask \in [Workers -> Task \cup {Blank}] /\ hresult \in [Workers -> Int]
      /\ c2s \in [Workers -> Seq(Int)] /\ s2c \in [Workers -> Seq(Int)]
  BY DEF TypeOK, ServerTypeOK, StreamTypeOK
<1> USE <1>t DEF HandlerStep, HandlerGoes, HandlerMoves, clientVars, streamVars
<1>c. UNCHANGED <<cpc[w], ctask[w]>>
  OBVIOUS
<1>1. CASE StartHandler(w)
  BY <1>1, <1>c DEF StartHandler, CallArrived, InStep, Exchange
<1>2. CASE ReadInit(w)
  <2>1. c2s[w] = <<Ready>>
    BY <1>2 DEF ReadInit, InStep
  <2>2. c2s'[w] = <<>>
    BY <1>2, <2>1, OneMessage DEF ReadInit, Taken
  <2> QED BY <1>2, <1>c, <2>1, <2>2, OneMessage DEF ReadInit, InStep, Exchange
<1>3. CASE ReadInitFails(w)
  BY <1>3, <1>c DEF ReadInitFails, ServerMayFail, InStep, Exchange
<1>4. CASE DequeueTask(w)
  BY <1>4, <1>c DEF DequeueTask, InStep, Exchange
<1>5. CASE DequeueEmpty(w)
  <2>1. link'[w] = IF link[w] = "open" THEN "closed" ELSE link[w]
    BY <1>5 DEF DequeueEmpty, Closed
  <2> QED BY <1>5, <1>c, <2>1 DEF DequeueEmpty, InStep, Exchange
<1>6. CASE WriteTask(w)
  <2>1. s2c'[w] \in {<<>>, <<htask[w]>>}
    BY <1>6, OneMessage DEF WriteTask, Written, InStep
  <2>2. c2s[w] = <<>> /\ <<>> # <<Ready>>
    BY <1>6, OneMessage DEF WriteTask, InStep
  <2> QED BY <1>6, <1>c, <2>1, <2>2 DEF WriteTask, InStep, Exchange
<1>7. CASE ReadResult(w)
  <2>1. c2s[w] = <<htask[w]>> /\ s2c[w] = <<>> /\ cpc[w] # "work"
    BY <1>7, OneMessage DEF ReadResult, InStep, Exchange
  <2>2. c2s'[w] = <<>> /\ hresult'[w] = htask[w]
    BY <1>7, <2>1, OneMessage DEF ReadResult, Taken
  <2>3. cpc[w] \notin BeforeReady
    BY <1>7 DEF ReadResult, InStep
  <2> QED BY <1>7, <1>c, <2>1, <2>2, <2>3 DEF ReadResult, InStep, Exchange
<1>8. CASE ReadResultTooLarge(w)
  <2>1. c2s[w] = <<htask[w]>> /\ s2c[w] = <<>> /\ cpc[w] # "work"
    BY <1>8, OneMessage DEF ReadResultTooLarge, ReadTooLarge, InStep, Exchange
  <2>2. c2s'[w] = <<>>
    BY <1>8, <2>1, OneMessage DEF ReadResultTooLarge, Taken
  <2>3. link'[w] = IF link[w] = "open" THEN "broken" ELSE link[w]
    BY <1>8 DEF ReadResultTooLarge, Broken
  <2>4. cpc[w] \notin BeforeReady
    BY <1>8 DEF ReadResultTooLarge, InStep
  <2> QED
    BY <1>8, <1>c, <2>1, <2>2, <2>3, <2>4 DEF ReadResultTooLarge, InStep, Exchange
<1>9. CASE CallFails(w)
  BY <1>9, <1>c DEF CallFails, ServerMayFail, InStep, Exchange
<1>10. CASE CountFailure(w)
  BY <1>10, <1>c DEF CountFailure, InStep, Exchange
<1>11. CASE GiveUp(w)
  BY <1>11, <1>c DEF GiveUp, InStep, Exchange
<1>12. CASE RecordTimings(w)
  BY <1>12, <1>c DEF RecordTimings, InStep, Exchange
<1>13. CASE CountCompleted(w)
  BY <1>13, <1>c DEF CountCompleted, InStep, Exchange
<1> QED
  BY <1>1, <1>2, <1>3, <1>4, <1>5, <1>6, <1>7, <1>8, <1>9, <1>10, <1>11, <1>12, <1>13
  DEF Handler

\* Every step of w's client keeps w in step.
LEMMA InStepClient ==
  ASSUME TypeOK, NEW w \in Workers, InStep(w), ClientStep(w)
  PROVE  InStep(w)'
<1>t. /\ cpc \in [Workers -> ClientStates] /\ link \in [Workers -> {"none", "open", "broken", "closed"}]
      /\ ctask \in [Workers -> Int]
      /\ c2s \in [Workers -> Seq(Int)] /\ s2c \in [Workers -> Seq(Int)]
  BY DEF TypeOK, StreamTypeOK, ClientTypeOK
<1> DEFINE ServerIdle == UNCHANGED <<hpc[w], htask[w], hresult[w]>>
<1>s. ServerIdle
  BY DEF ClientStep, RegisterWorker, RegisterFails, OpenStream, serviceVars
<1> USE <1>t, <1>s DEF ClientGoes, ClientMoves, streamVars
<1>1. CASE WriteReady(w)
  <2>1. link[w] = "open" => hpc[w] \in {"none", "init"}
    BY <1>1 DEF WriteReady, InStep, BeforeReady
  <2>2. c2s'[w] = IF link[w] = "open" THEN <<Ready>> ELSE <<>>
    BY <1>1, OneMessage DEF WriteReady, Written, InStep, BeforeReady
  <2>3. hpc[w] \in {"none", "init", "done"} /\ s2c[w] = <<>> /\ link[w] = link'[w]
    BY <1>1 DEF WriteReady, InStep, BeforeReady
  <2> QED
    BY <1>1, <2>1, <2>2, <2>3, OneMessage
    DEF WriteReady, InStep, Exchange, BeforeReady
<1>2. CASE WriteReadyFails(w)
  BY <1>2 DEF WriteReadyFails, InStep, Exchange, BeforeReady
<1>3. CASE ReadTask(w)
  <2>1. s2c[w] = <<htask[w]>> /\ c2s[w] = <<>>
    BY <1>3 DEF ReadTask, InStep, Exchange
  <2>2. s2c'[w] = <<>> /\ ctask'[w] = htask[w] /\ cpc'[w] = "work"
    BY <1>3, <2>1, OneMessage DEF ReadTask, Taken
  <2> QED
    BY <1>3, <2>1, <2>2, OneMessage DEF ReadTask, InStep, Exchange, BeforeReady
<1>4. CASE ReadTaskTooLarge(w)
  <2>1. s2c[w] = <<htask[w]>> /\ c2s[w] = <<>>
    BY <1>4 DEF ReadTaskTooLarge, ReadTooLarge, InStep, Exchange
  <2>2. s2c'[w] = <<>> /\ cpc'[w] = "finish"
    BY <1>4, <2>1, OneMessage DEF ReadTaskTooLarge, Taken
  <2>3. link'[w] = IF link[w] = "open" THEN "broken" ELSE link[w]
    BY <1>4 DEF ReadTaskTooLarge, Broken
  <2> QED
    BY <1>4, <2>1, <2>2, <2>3, OneMessage
    DEF ReadTaskTooLarge, InStep, Exchange, BeforeReady
<1>5. CASE ReadEnds(w)
  BY <1>5 DEF ReadEnds, InStep, Exchange, BeforeReady
<1>6. CASE WriteResult(w)
  <2>1. ctask[w] = htask[w] /\ s2c[w] = <<>> /\ c2s[w] = <<>>
    BY <1>6 DEF WriteResult, InStep, Exchange
  <2>2. hpc[w] \notin {"none", "init", "dequeue", "write", "store", "count"}
    BY <1>6 DEF WriteResult, InStep
  <2>3. c2s'[w] = IF link[w] = "open" THEN <<htask[w]>> ELSE <<>>
    BY <1>6, <2>1, OneMessage DEF WriteResult, Written
  <2> QED
    BY <1>6, <2>1, <2>2, <2>3, ReadyIsNoTask, OneMessage
    DEF WriteResult, InStep, Exchange, BeforeReady
<1>7. CASE WriteResultFails(w)
  BY <1>7 DEF WriteResultFails, InStep, Exchange, BeforeReady
<1>8. CASE Finish(w)
  BY <1>8 DEF Finish, InStep, Exchange, BeforeReady
<1>9. CASE RegisterWorker(w)
  BY <1>9 DEF RegisterWorker, InStep, Exchange, BeforeReady
<1>10. CASE RegisterFails(w)
  BY <1>10 DEF RegisterFails, InStep, Exchange, BeforeReady
<1>11. CASE OpenStream(w)
  <2>1. link[w] = "none" /\ hpc[w] = "none"
    BY <1>11 DEF OpenStream, InStep, BeforeReady
  <2> QED BY <1>11, <2>1 DEF OpenStream, InStep, Exchange, BeforeReady
<1> QED
  BY <1>1, <1>2, <1>3, <1>4, <1>5, <1>6, <1>7, <1>8, <1>9, <1>10, <1>11
  DEF ClientStep, Client

\* So do the runner and the failures.
LEMMA InStepFailures ==
  ASSUME TypeOK, NEW w \in Workers, InStep(w), Launch(w) \/ Crash(w) \/ CutOff(w)
  PROVE  InStep(w)'
<1>t. cpc \in [Workers -> ClientStates] /\ link \in [Workers -> {"none", "open", "broken", "closed"}]
  BY DEF TypeOK, StreamTypeOK, ClientTypeOK
<1>1. CASE Launch(w)
  BY <1>t, <1>1 DEF Launch, ClientGoes, streamVars, serviceVars, InStep, Exchange, BeforeReady
<1>2. CASE Crash(w)
  BY <1>t, <1>2 DEF Crash, Broken, serviceVars, InStep, Exchange, BeforeReady
<1>3. CASE CutOff(w)
  BY <1>t, <1>3 DEF CutOff, Broken, serviceVars, clientVars, InStep, Exchange, BeforeReady
<1> QED BY <1>1, <1>2, <1>3

\* A step of one worker leaves every other one alone.
LEMMA StepOfAnother ==
  ASSUME TypeOK, NEW v \in Workers, NEW w \in Workers, v # w,
         HandlerStep(v) \/ ClientStep(v) \/ Launch(v) \/ Crash(v) \/ CutOff(v)
  PROVE  UNCHANGED Local(w)
<1>t. /\ hpc \in [Workers -> HandlerStates] /\ link \in [Workers -> {"none", "open", "broken", "closed"}]
      /\ htask \in [Workers -> Task \cup {Blank}] /\ hresult \in [Workers -> Int]
      /\ c2s \in [Workers -> Seq(Int)] /\ s2c \in [Workers -> Seq(Int)]
      /\ cpc \in [Workers -> ClientStates] /\ ctask \in [Workers -> Int]
  BY DEF TypeOK, ServerTypeOK, StreamTypeOK, ClientTypeOK
<1> USE <1>t DEF Local, clientVars, streamVars, serviceVars
<1>1. CASE HandlerStep(v)
  BY <1>1 DEF HandlerStep, Handler, HandlerGoes, HandlerMoves, StartHandler,
    ReadInit, ReadInitFails, DequeueTask, DequeueEmpty, WriteTask, ReadResult,
    ReadResultTooLarge, CallFails, CountFailure, GiveUp, RecordTimings,
    CountCompleted, Taken, Written, Broken, Closed
<1>2. CASE ClientStep(v)
  BY <1>2 DEF ClientStep, Client, ClientGoes, ClientMoves, WriteReady,
    WriteReadyFails, ReadTask, ReadTaskTooLarge, ReadEnds, WriteResult,
    WriteResultFails, Finish, RegisterWorker, RegisterFails, OpenStream,
    Taken, Written, Broken
<1>3. CASE Launch(v) \/ Crash(v) \/ CutOff(v)
  BY <1>3 DEF Launch, Crash, CutOff, ClientGoes, Broken
<1> QED BY <1>1, <1>2, <1>3

LEMMA InStepInductive == TypeOK /\ ProgramsInStep /\ [Next]_vars => ProgramsInStep'
<1> SUFFICES ASSUME TypeOK, [Next]_vars, NEW w \in Workers, InStep(w)
             PROVE  InStep(w)'
  BY DEF ProgramsInStep
<1>1. CASE ServerStep
  BY <1>1, InStepMain
<1>2. ASSUME NEW v \in Workers,
             HandlerStep(v) \/ ClientStep(v) \/ Launch(v) \/ Crash(v) \/ CutOff(v)
      PROVE  InStep(w)'
  <2>1. CASE v = w
    BY <1>2, <2>1, InStepHandler, InStepClient, InStepFailures
  <2>2. CASE v # w
    BY <1>2, <2>2, StepOfAnother, InStepLocal
  <2> QED BY <2>1, <2>2
<1>3. CASE UNCHANGED vars
  BY <1>3, InStepLocal DEF vars, Local, streamVars, serviceVars, clientVars
<1> QED BY <1>1, <1>2, <1>3 DEF Next, Finished

\* Handler and client stay in step, for any number of workers and tasks and
\* whatever crashes, cuts and refused messages interrupt them.
THEOREM InStepAlways == Spec => []ProgramsInStep
<1> QED BY InitTyped, NextTyped, InStepInitially, InStepInductive, PTL DEF Spec

-----------------------------------------------------------------------------
\* Every task that a handler ever held was claimed by it alone.
ClaimedOnce ==
  /\ \A w \in Workers : htask[w] < enqueued_
  /\ \A v, w \in Workers : v # w /\ htask[v] = htask[w] => htask[w] = Blank

\* A step that claims nothing keeps the claims.
LEMMA ClaimsUntouched ==
  ClaimedOnce /\ UNCHANGED <<htask, enqueued_>> => ClaimedOnce'
BY DEF ClaimedOnce

LEMMA ClaimedOnceInductive == TypeOK /\ ClaimedOnce /\ [Next]_vars => ClaimedOnce'
<1> SUFFICES ASSUME TypeOK, ClaimedOnce, [Next]_vars PROVE ClaimedOnce'
  OBVIOUS
<1>t. /\ htask \in [Workers -> Task \cup {Blank}] /\ enqueued_ \in Nat
      /\ \A w \in Workers : htask[w] \in Int
  BY DEF TypeOK, ServerTypeOK, DispatcherTypeOK, Task, Blank
<1> USE DEF dispatcherVars, serviceVars, mainVars
<1>1. CASE ServerStep
  BY <1>1, ClaimsUntouched
  DEF ServerStep, Main, MainGoes, MainMoves, LoadTasks, EnqueueAll,
    NothingToDistribute, LoadThrows, BuildAndStart, BindFails, PollNotDone,
    PollDone, RecordCsv, RecordCsvThrows, ShutdownDispatcher, Shutdown,
    StopServer, WaitHandlers, ProcessDies
<1>2. ASSUME NEW u \in Workers, HandlerStep(u) PROVE ClaimedOnce'
  <2>1. CASE DequeueTask(u)
    <3>1. htask' = [htask EXCEPT ![u] = enqueued_] /\ enqueued_' = enqueued_ + 1
      BY <2>1 DEF DequeueTask, Dequeue
    <3>2. \A w \in Workers : htask'[w] = IF w = u THEN enqueued_ ELSE htask[w]
      BY <1>t, <3>1
    <3>3. \A w \in Workers : htask'[w] < enqueued_'
      BY <1>t, <3>1, <3>2 DEF ClaimedOnce
    <3>4. ASSUME NEW v \in Workers, NEW w \in Workers, v # w, htask'[v] = htask'[w]
          PROVE  htask'[w] = Blank
      BY <1>t, <3>2, <3>4 DEF ClaimedOnce
    <3> QED BY <3>3, <3>4 DEF ClaimedOnce, Blank
  <2>2. CASE DequeueEmpty(u)
    <3>1. UNCHANGED htask /\ enqueued_' = enqueued_ + 1
      BY <2>2 DEF DequeueEmpty, DequeueNothing
    <3>2. \A w \in Workers : htask[w] < enqueued_ + 1
      BY <1>t DEF ClaimedOnce
    <3> QED BY <3>1, <3>2 DEF ClaimedOnce, Blank
  <2> QED
    BY <1>2, <2>1, <2>2, ClaimsUntouched
    DEF HandlerStep, Handler, HandlerGoes, HandlerMoves, StartHandler, ReadInit,
      ReadInitFails, WriteTask, ReadResult, ReadResultTooLarge, CallFails,
      CountFailure, GiveUp, OnTaskCompleted, RecordTimings, CountCompleted
<1>3. ASSUME NEW u \in Workers, ClientStep(u) \/ Launch(u) \/ Crash(u) \/ CutOff(u)
      PROVE  ClaimedOnce'
  BY <1>3, ClaimsUntouched
  DEF ClientStep, RegisterWorker, RegisterFails, OpenStream, Launch, Crash, CutOff
<1>4. CASE UNCHANGED vars
  BY <1>4, ClaimsUntouched DEF vars
<1> QED BY <1>1, <1>2, <1>3, <1>4 DEF Next, Finished

LEMMA ClaimedOnceInitially == Init => ClaimedOnce
BY DEF Init, ServerInit, DispatcherInit, ClaimedOnce, Blank

\* No task is ever in two places.
LEMMA InStepMeansOnePlace == ProgramsInStep /\ ClaimedOnce => OneWorkerPerTask
<1> SUFFICES ASSUME ProgramsInStep, ClaimedOnce PROVE OneWorkerPerTask
  OBVIOUS
<1>1. ASSUME NEW w \in Workers, NEW i \in 1 .. Len(s2c[w]) PROVE s2c[w][i] = htask[w]
  <2>1. s2c[w] \in {<<>>, <<htask[w]>>}
    BY DEF ProgramsInStep, InStep, Exchange
  <2> QED BY <1>1, <2>1
<1>2. \A w \in Workers : cpc[w] = "work" => ctask[w] = htask[w]
  BY DEF ProgramsInStep, InStep, Exchange
<1> QED BY <1>1, <1>2 DEF OneWorkerPerTask, ClaimedOnce

\* However handlers race for the queue and streams break, a task has one owner,
\* and only the client of that owner computes it.
THEOREM OneWorker == Spec => []OneWorkerPerTask
<1> QED
  BY InitTyped, NextTyped, InStepInitially, InStepInductive, ClaimedOnceInitially,
     ClaimedOnceInductive, InStepMeansOnePlace, PTL
  DEF Spec

-----------------------------------------------------------------------------
LEMMA RowsMatchInductive ==
  TypeOK /\ ProgramsInStep /\ RowsMatchTask /\ [Next]_vars => RowsMatchTask'
<1> SUFFICES ASSUME TypeOK, ProgramsInStep, RowsMatchTask, [Next]_vars
             PROVE  RowsMatchTask'
  OBVIOUS
<1> USE DEF serviceVars, mainVars
<1>1. CASE LoadTasks
  BY <1>1 DEF LoadTasks, RowsMatchTask
<1>2. ASSUME NEW w \in Workers, RecordTimings(w) PROVE RowsMatchTask'
  <2>1. hresult[w] = htask[w]
    BY <1>2 DEF RecordTimings, HandlerGoes, ProgramsInStep, InStep
  <2>2. ts_snd_rec' = [ts_snd_rec EXCEPT ![htask[w]] = htask[w]]
    BY <1>2, <2>1 DEF RecordTimings
  <2>3. ts_snd_rec \in [0 .. (queueSize - 1) -> Int]
    BY DEF TypeOK, ServerTypeOK
  <2> QED BY <2>2, <2>3 DEF RowsMatchTask
<1>3. CASE UNCHANGED ts_snd_rec
  BY <1>3 DEF RowsMatchTask
<1>4. CASE ServerStep
  BY <1>1, <1>3, <1>4
  DEF ServerStep, Main, MainGoes, MainMoves, NothingToDistribute, LoadThrows,
    BuildAndStart, BindFails, PollNotDone, PollDone, RecordCsv,
    RecordCsvThrows, ShutdownDispatcher, StopServer, WaitHandlers, ProcessDies
<1>5. ASSUME NEW w \in Workers, HandlerStep(w) PROVE RowsMatchTask'
  BY <1>2, <1>3, <1>5
  DEF HandlerStep, Handler, HandlerMoves, StartHandler, ReadInit, ReadInitFails,
    DequeueTask, DequeueEmpty, WriteTask, ReadResult, ReadResultTooLarge,
    CallFails, CountFailure, GiveUp, CountCompleted
<1>6. ASSUME NEW w \in Workers, ClientStep(w) \/ Launch(w) \/ Crash(w) \/ CutOff(w)
      PROVE  RowsMatchTask'
  BY <1>3, <1>6
  DEF ClientStep, RegisterWorker, RegisterFails, OpenStream, Launch, Crash, CutOff
<1>7. CASE UNCHANGED vars
  BY <1>3, <1>7 DEF vars
<1> QED BY <1>4, <1>5, <1>6, <1>7 DEF Next, Finished

\* A row holds the timings of its own task although no id is ever compared.
THEOREM RowsMatch == Spec => []RowsMatchTask
<1>1. Init => RowsMatchTask
  BY DEF Init, ServerInit, RowsMatchTask
<1> QED
  BY <1>1, InitTyped, NextTyped, InStepInitially, InStepInductive,
     RowsMatchInductive, PTL
  DEF Spec
=============================================================================
