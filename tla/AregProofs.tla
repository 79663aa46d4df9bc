------------------------------ MODULE AregProofs ------------------------------
(***************************************************************************)
(* Theorems about the AREG transport, for every finite set of workers, any *)
(* way they share processes, and every number of tasks.                    *)
(***************************************************************************)
EXTENDS AregSystem, TLAPS, FiniteSetTheorems

USE NumTasksAssumption, ProcessesAssumption
    DEF NumTasksAssumption, ProcessesAssumption

-----------------------------------------------------------------------------
\* Nothing has happened before MasterThread is started.
MasterIdle ==
  mpc \in {"start", "loaded"} =>
    mQueue = 0 /\ mNextTask = 0 /\ mCompleted = 0 /\ csv = NoCsv

\* Worker and master alternate: one message is under way between them at most.
AtMostOne(messages) == messages = <<>> \/ messages = <<Head(messages)>>

Alternates(w) ==
  /\ AtMostOne(requests[w]) /\ AtMostOne(replies[w])
  /\ requests[w] = <<>> \/ replies[w] = <<>>
  /\ wpc[w] \in {"off", "started"} => requests[w] = <<>> /\ replies[w] = <<>>

ChannelInv == ChannelTypeOK /\ \A w \in Workers : Alternates(w)
MasterInv == MasterTypeOK /\ MasterIdle
ExchangeInv == ChannelInv /\ MasterInv /\ WorkerTypeOK

\* That message.
Silence == [op |-> "none"]
Message(w) ==
  IF requests[w] # <<>> THEN Head(requests[w])
  ELSE IF replies[w] # <<>> THEN Head(replies[w])
  ELSE Silence

\* The workers with an answer of make_response, those whose answer is a task of the
\* file, and those that will not be heard of any more.
Answering == {w \in Workers : Message(w).op \in {"AssignTaskReply", "SubmitTask"}}
WithTask == {w \in Answering : Message(w).real}
Silent == {w \in Left : Message(w) = Silence}

\* Tasks handed out, and those that a worker has or that rows show as sent only.
Dispatched == {t \in Task : t < mQueue /\ t < mNextTask}
MissingIn(rows, holders) ==
  {t \in Dispatched : rows[t] = "sent" \/ \E w \in holders : Message(w).task_id = t}

\* Answers are lost by silent workers only, one each.
LossesCounted ==
  mNextTask - mCompleted - Cardinality(Answering) \in 0 .. Cardinality(Silent)

\* An answer that is a task names one that was handed out, to this worker only; a sentinel
\* names task 0, after the last task was handed out.
AnswersNamed ==
  /\ \A w \in WithTask : Message(w).task_id \in Dispatched
  /\ \A v, w \in WithTask : Message(v).task_id = Message(w).task_id => v = w
  /\ \A w \in Answering \ WithTask : Message(w).task_id = 0 /\ mNextTask > mQueue

\* Rows are filled from the front, that of task 0 only by sentinels too; no worker has a
\* task that is timed, and one without an answer is with a worker or was lost by one.
Fits(rows, holders) ==
  /\ \A w \in holders : rows[Message(w).task_id] # "timed"
  /\ \A t \in 0 .. (mQueue - 1) :
       /\ rows[t] = "blank" <=> t >= mNextTask
       /\ rows[t] = "sentinel" => t = 0
  /\ Cardinality(MissingIn(rows, holders)) <= Cardinality(holders) + Cardinality(Silent)

AregInv == ExchangeInv /\ LossesCounted /\ AnswersNamed /\ Fits(mRes, WithTask)

-----------------------------------------------------------------------------
\* A channel of which the oldest message is handled, if it has one message only.
LEMMA HandledMessage ==
  ASSUME NEW S, NEW channel \in [Workers -> Seq(S)], NEW w \in Workers,
         channel[w] # <<>>, AtMostOne(channel[w])
  PROVE  /\ Head(channel[w]) \in S
         /\ Handled(channel, w) \in [Workers -> Seq(S)]
         /\ Handled(channel, w)[w] = <<>>
         /\ \A v \in Workers \ {w} : Handled(channel, w)[v] = channel[v]
<1>1. PICK s \in Seq(S) : s = channel[w]
  OBVIOUS
<1>2. s # <<>> /\ s = <<Head(s)>>
  BY <1>1 DEF AtMostOne
<1>3. Head(s) \in S
  BY <1>2
<1>4. PICK m : s = <<m>>
  BY <1>2
<1>5. Tail(<<m>>) = <<>> /\ <<>> \in Seq(S)
  OBVIOUS
<1>6. Tail(s) = <<>>
  BY <1>4, <1>5
<1> QED BY <1>1, <1>3, <1>5, <1>6 DEF Handled

\* An empty channel to which a message is sent.
LEMMA SentMessage ==
  ASSUME NEW S, NEW channel \in [Workers -> Seq(S)], NEW w \in Workers, NEW m \in S,
         channel[w] = <<>>
  PROVE  /\ Sent(channel, w, m) \in [Workers -> Seq(S)]
         /\ Sent(channel, w, m)[w] = <<m>>
         /\ \A v \in Workers \ {w} : Sent(channel, w, m)[v] = channel[v]
<1>1. Append(<<>>, m) = <<m>> /\ <<m>> \in Seq(S)
  OBVIOUS
<1> QED BY <1>1 DEF Sent

\* A channel with one message.
LEMMA OneMessage ==
  ASSUME NEW m
  PROVE  <<m>> # <<>> /\ Head(<<m>>) = m /\ AtMostOne(<<m>>) /\ AtMostOne(<<>>)
BY DEF AtMostOne

\* Which messages there are, by their names.
LEMMA MessageKinds ==
  /\ RegisterWorker \in Request /\ AssignTask \in Request
  /\ \A id \in Nat : RegisterWorkerReply(id) \in Reply
  /\ \A id \in Nat, real \in BOOLEAN :
       SubmitTask(id, real) \in Request /\ AssignTaskReply(id, real) \in Reply
  /\ \A m \in Request : m.op \in {"RegisterWorker", "AssignTask", "SubmitTask"}
  /\ \A m \in Request \cup Reply :
       m.op \in {"SubmitTask", "AssignTaskReply"} => m.task_id \in Nat /\ m.real \in BOOLEAN
  /\ \A m \in Reply : m.op \in {"RegisterWorkerReply", "AssignTaskReply"}
  /\ \A m \in Reply : m.op = "RegisterWorkerReply" => m.worker_id \in Nat
BY DEF Request, Reply, RegisterWorker, AssignTask, RegisterWorkerReply, SubmitTask,
  AssignTaskReply

-----------------------------------------------------------------------------
\* What a step does to the messages.
OthersKeep(w) == \A v \in Workers \ {w} : Message(v)' = Message(v)

\* The message of a worker, by the channel it is in.
LEMMA MessageOf ==
  ASSUME ChannelInv, NEW w \in Workers
  PROVE  /\ requests[w] # <<>> =>
              Message(w) = Head(requests[w]) /\ Message(w) \in Request /\ replies[w] = <<>>
         /\ replies[w] # <<>> =>
              Message(w) = Head(replies[w]) /\ Message(w) \in Reply /\ requests[w] = <<>>
         /\ Message(w) = Silence <=> requests[w] = <<>> /\ replies[w] = <<>>
<1>1. requests[w] \in Seq(Request) /\ replies[w] \in Seq(Reply)
  BY DEF ChannelInv, ChannelTypeOK
<1>2. requests[w] # <<>> => Head(requests[w]) \in Request
  BY <1>1
<1>3. replies[w] # <<>> => Head(replies[w]) \in Reply
  BY <1>1
<1>4. requests[w] = <<>> \/ replies[w] = <<>>
  BY DEF ChannelInv, Alternates
<1>5. \A m \in Request \cup Reply : m # Silence
  BY MessageKinds DEF Silence
<1> QED BY <1>2, <1>3, <1>4, <1>5 DEF Message

\* The master takes the request of w, and answers it or not.
LEMMA MasterAnswers ==
  ASSUME ChannelInv, NEW w \in Workers, NEW op,
         Pending(requests, w, op), requests' = Handled(requests, w), UNCHANGED wpc
  PROVE  /\ Message(w) = Head(requests[w]) /\ Message(w) \in Request /\ Message(w).op = op
         /\ \A m \in Reply : replies' = Sent(replies, w, m) =>
              ChannelInv' /\ OthersKeep(w) /\ Message(w)' = m
         /\ UNCHANGED replies => ChannelInv' /\ OthersKeep(w) /\ Message(w)' = Silence
<1> USE DEF ChannelInv, ChannelTypeOK
<1>1. /\ requests[w] # <<>> /\ replies[w] = <<>>
      /\ Message(w) = Head(requests[w]) /\ Message(w) \in Request /\ Message(w).op = op
  BY MessageOf DEF Pending
<1>2. /\ requests' \in [Workers -> Seq(Request)] /\ requests'[w] = <<>>
      /\ \A v \in Workers \ {w} : requests'[v] = requests[v]
  <2>1. AtMostOne(requests[w])
    BY DEF Alternates
  <2>2. requests \in [Workers -> Seq(Request)]
    OBVIOUS
  <2> HIDE DEF ChannelInv, ChannelTypeOK
  <2> QED BY <1>1, <2>1, <2>2, HandledMessage
<1>3. wpc[w] \notin {"off", "started"}
  BY <1>1 DEF Alternates
<1>4. ASSUME NEW m \in Reply, replies' = Sent(replies, w, m)
      PROVE  ChannelInv' /\ OthersKeep(w) /\ Message(w)' = m
  <2>1. /\ replies' \in [Workers -> Seq(Reply)] /\ replies'[w] = <<m>>
        /\ \A v \in Workers \ {w} : replies'[v] = replies[v]
    <3>1. replies \in [Workers -> Seq(Reply)] /\ replies[w] = <<>>
      BY <1>1
    <3> HIDE DEF ChannelInv, ChannelTypeOK
    <3> QED BY <1>4, <3>1, SentMessage
  <2>2. Alternates(w)'
    BY <1>2, <1>3, <2>1, OneMessage DEF Alternates, AtMostOne
  <2>3. \A v \in Workers \ {w} : Alternates(v)'
    BY <1>2, <2>1 DEF Alternates, AtMostOne
  <2>4. OthersKeep(w)
    BY <1>2, <2>1 DEF OthersKeep, Message, Silence
  <2>5. Message(w)' = m
    BY <1>2, <2>1, OneMessage DEF Message
  <2> QED BY <1>2, <2>1, <2>2, <2>3, <2>4, <2>5
<1>5. ASSUME UNCHANGED replies PROVE ChannelInv' /\ OthersKeep(w) /\ Message(w)' = Silence
  <2>1. \A v \in Workers : Alternates(v)'
    BY <1>1, <1>2, <1>5 DEF Alternates, AtMostOne
  <2>2. OthersKeep(w)
    BY <1>2, <1>5 DEF OthersKeep, Message, Silence
  <2>3. Message(w)' = Silence
    BY <1>1, <1>2, <1>5 DEF Message, Silence
  <2> QED BY <1>2, <1>5, <2>1, <2>2, <2>3
<1> QED BY <1>1, <1>4, <1>5

\* A connected worker takes the reply it was sent and sends its next request.
LEMMA WorkerReacts ==
  ASSUME ChannelInv, NEW w \in Workers, NEW op, NEW m \in Request,
         Pending(replies, w, op), replies' = Handled(replies, w),
         requests' = Sent(requests, w, m), wpc[w] = "connected", UNCHANGED wpc
  PROVE  /\ Message(w) = Head(replies[w]) /\ Message(w) \in Reply /\ Message(w).op = op
         /\ ChannelInv' /\ OthersKeep(w) /\ Message(w)' = m
<1> USE DEF ChannelInv, ChannelTypeOK
<1>1. /\ replies[w] # <<>> /\ requests[w] = <<>>
      /\ Message(w) = Head(replies[w]) /\ Message(w) \in Reply /\ Message(w).op = op
  BY MessageOf DEF Pending
<1>2. /\ replies' \in [Workers -> Seq(Reply)] /\ replies'[w] = <<>>
      /\ \A v \in Workers \ {w} : replies'[v] = replies[v]
  <2>1. AtMostOne(replies[w])
    BY DEF Alternates
  <2>2. replies \in [Workers -> Seq(Reply)]
    OBVIOUS
  <2> HIDE DEF ChannelInv, ChannelTypeOK
  <2> QED BY <1>1, <2>1, <2>2, HandledMessage
<1>3. /\ requests' \in [Workers -> Seq(Request)] /\ requests'[w] = <<m>>
      /\ \A v \in Workers \ {w} : requests'[v] = requests[v]
  BY <1>1, SentMessage
<1>4. Alternates(w)'
  BY <1>2, <1>3, OneMessage DEF Alternates, AtMostOne
<1>5. \A v \in Workers \ {w} : Alternates(v)'
  BY <1>2, <1>3 DEF Alternates, AtMostOne
<1>6. OthersKeep(w)
  BY <1>2, <1>3 DEF OthersKeep, Message, Silence
<1>7. Message(w)' = m
  BY <1>3, OneMessage DEF Message
<1> QED BY <1>1, <1>2, <1>3, <1>4, <1>5, <1>6, <1>7

-----------------------------------------------------------------------------
\* The steps, as what they do to the answers of make_response.

\* Worker w keeps its answer if it has one, and is given none; or w goes with it.
SameAnswer(w) ==
  /\ w \in Answering <=> (w \in Answering)'
  /\ w \in Answering => UNCHANGED <<Message(w).task_id, Message(w).real>>
Drops(w) == (w \in Silent)' /\ (w \notin Answering)'

\* A step that handles no AssignTask and no SubmitTask.
Quiet ==
  /\ UNCHANGED <<mQueue, mRes, mNextTask, mCompleted, csv>>
  /\ Left \subseteq Left' /\ Silent \subseteq Silent'
  /\ \A w \in Workers : SameAnswer(w) \/ Drops(w)
  /\ \A w \in Left \cap Answering : Message(w)' \in {Message(w), Silence}

\* A step of the master that changes the message of worker w only.
AboutAnswer(w) == OthersKeep(w) /\ UNCHANGED <<wpc, mQueue>>

\* The next task or the sentinel is handed to w, with the rows given.
Hands(w, rows) ==
  /\ AboutAnswer(w)
  /\ mNextTask' = mNextTask + 1 /\ UNCHANGED csv
  /\ \/ /\ mNextTask < mQueue
        /\ Message(w)' = AssignTaskReply(mNextTask, TRUE)
        /\ mRes' = [rows EXCEPT ![mNextTask] = "sent"]
     \/ /\ mNextTask >= mQueue
        /\ Message(w)' = Sentinel
        /\ mRes' = rows

\* The steps that do handle one.
Asks(w) ==
  /\ Message(w).op = "AssignTask"
  /\ Hands(w, mRes) /\ UNCHANGED mCompleted

Continues(w) ==
  /\ Message(w).op = "SubmitTask" /\ mQueue > 0
  /\ Hands(w, Stored(Message(w))) /\ mCompleted' = mCompleted + 1

Ends(w) ==
  /\ Message(w).op = "SubmitTask"
  /\ AboutAnswer(w) /\ Message(w)' = Silence
  /\ mCompleted' = mCompleted + 1 /\ UNCHANGED mNextTask
  /\ \/ /\ mQueue > 0 /\ LastCompletion
        /\ mRes' = Stored(Message(w))
        /\ csv' = mRes' \/ UNCHANGED csv
     \/ mQueue = 0 /\ UNCHANGED <<mRes, csv>>

\* The pool is taken over.
Starts ==
  /\ mNextTask = 0 /\ mCompleted = 0 /\ csv = NoCsv /\ mQueue = 0
  /\ UNCHANGED <<channelVars, wpc, mNextTask, mCompleted, csv>>
  /\ mRes' = [p \in 0 .. (mQueue' - 1) |-> "blank"]

-----------------------------------------------------------------------------
\* Nothing happens to messages and workers.
LEMMA ChannelsKept ==
  ASSUME ExchangeInv, UNCHANGED <<channelVars, wpc>>
  PROVE  /\ ChannelInv' /\ UNCHANGED Left
         /\ \A w \in Workers : UNCHANGED Message(w)
BY DEF ExchangeInv, ChannelInv, channelVars, ChannelTypeOK, Alternates, AtMostOne, Left,
  Message, Silence

\* A worker whose message is the same, or is no answer before and after.
LEMMA MessageKept ==
  ASSUME ExchangeInv, NEW w \in Workers,
         \/ UNCHANGED Message(w)
         \/ /\ Message(w).op \notin {"AssignTaskReply", "SubmitTask"}
            /\ Message(w)'.op \notin {"AssignTaskReply", "SubmitTask"}
  PROVE  SameAnswer(w)
BY DEF SameAnswer, Answering

\* Processes start, quit, stop, crash or lose their connection.
ProcessesGo ==
  /\ UNCHANGED <<replies, masterVars, mWorkerId>>
  /\ \A w \in Workers :
       /\ \/ UNCHANGED wpc[w]
          \/ wpc[w] = "off" /\ wpc'[w] = "started"
          \/ (w \in Left)'
       /\ \/ UNCHANGED requests[w]
          \/ requests'[w] = <<>> /\ (requests[w] = <<>> \/ (w \in Left)')

\* Such a step gives no worker an answer, and takes it from those that go only.
LEMMA ProcessesMove ==
  ASSUME ExchangeInv, ChannelTypeOK', WorkerTypeOK', ProcessesGo
  PROVE  ExchangeInv' /\ Quiet
<1> USE DEF ExchangeInv
<1>1. MasterInv'
  BY DEF ProcessesGo, masterVars, MasterInv, MasterTypeOK, MasterIdle
<1>2. /\ replies' = replies
      /\ \A w \in Workers : \/ requests'[w] = requests[w]
                            \/ requests'[w] = <<>> /\ requests[w] # <<>> /\ (w \in Left)'
  BY DEF ProcessesGo
<1>4. ASSUME NEW w \in Workers PROVE Alternates(w)'
  BY <1>2 DEF ChannelInv, Alternates, AtMostOne, Left, ProcessesGo
<1>5. Left \subseteq Left'
  BY DEF Left, ProcessesGo
<1>6. ASSUME NEW w \in Workers
      PROVE  UNCHANGED Message(w) \/ (Message(w)' = Silence /\ (w \in Left)')
  <2>1. requests[w] # <<>> => replies[w] = <<>>
    BY DEF ChannelInv, Alternates
  <2> QED BY <1>2, <2>1 DEF Message, Silence
<1>7. \A w \in Workers : SameAnswer(w) \/ Drops(w)
  BY <1>6, MessageKept DEF Drops, Silent, Answering, Silence
<1>8. Silent \subseteq Silent'
  BY <1>5, <1>6 DEF Silent, Left
<1>9. \A w \in Left \cap Answering : Message(w)' \in {Message(w), Silence}
  BY <1>6 DEF Left
<1> QED BY <1>1, <1>4, <1>5, <1>7, <1>8, <1>9 DEF ChannelInv, Quiet, masterVars,
  ProcessesGo

\* The steps of the processes.
LEMMA ProcessSteps ==
  ASSUME ExchangeInv, NEW p \in Processes, ProcessStep(p) \/ Crash(p) \/ CutOff(p)
  PROVE  ExchangeInv' /\ Quiet
<1> USE DEF ExchangeInv
<1>1. p \subseteq Workers
  OBVIOUS
<1>2. /\ wpc \in [Workers -> WorkerStates] /\ mWorkerId \in [Workers -> Nat]
      /\ requests \in [Workers -> Seq(Request)] /\ replies \in [Workers -> Seq(Reply)]
      /\ <<>> \in Seq(Request)
  BY DEF WorkerTypeOK, ChannelInv, ChannelTypeOK
<1>3. \A w \in Workers : requests[w] # <<>> => wpc[w] \notin {"off", "started"}
  BY DEF ChannelInv, Alternates
<1>4. CASE Launch(p) \/ Quit(p) \/ Stop(p)
  <2>1. /\ UNCHANGED <<channelVars, masterVars, mWorkerId>>
        /\ \E to \in {"started", "quit"} :
             /\ ProcessGoes(p, to)
             /\ to = "started" => \A w \in p : wpc[w] = "off"
    BY <1>4 DEF Launch, areg_client, areg_client_many, LoadModel, Quit, UnloadWorkers, Stop
  <2>2. PICK to \in {"started", "quit"} :
          /\ ProcessGoes(p, to)
          /\ to = "started" => \A w \in p : wpc[w] = "off"
    BY <2>1
  <2>3. WorkerTypeOK'
    BY <1>1, <1>2, <2>1, <2>2 DEF ProcessGoes, WorkerTypeOK, WorkerStates
  <2>4. \A w \in Workers :
          \/ UNCHANGED wpc[w]
          \/ wpc[w] = "off" /\ wpc'[w] = "started"
          \/ (w \in Left)'
    BY <1>1, <1>2, <2>2 DEF ProcessGoes, Left
  <2>5. ChannelTypeOK' /\ \A w \in Workers : UNCHANGED requests[w]
    BY <1>2, <2>1 DEF channelVars, ChannelTypeOK
  <2> QED BY <2>1, <2>3, <2>4, <2>5, ProcessesMove DEF channelVars, ProcessesGo
<1>5. CASE Crash(p)
  <2>1. PICK lost \in SUBSET p :
          requests' = [w \in Workers |-> IF w \in lost THEN <<>> ELSE requests[w]]
    BY <1>5 DEF Crash, Fails
  <2>2. /\ UNCHANGED <<replies, masterVars, mWorkerId>>
        /\ wpc' = [w \in Workers |-> IF w \in p THEN "crashed" ELSE wpc[w]]
        /\ \A w \in p : wpc[w] # "off"
    BY <1>5 DEF Crash, ProcessGoes, Running
  <2>3. WorkerTypeOK'
    BY <1>1, <1>2, <2>2 DEF WorkerTypeOK, WorkerStates
  <2>4. \A w \in Workers : UNCHANGED wpc[w] \/ (w \in Left)'
    BY <1>1, <1>2, <2>2 DEF Left
  <2>5. \A w \in p : (w \in Left)'
    BY <1>1, <2>2 DEF Left
  <2>6. ChannelTypeOK'
    BY <1>2, <2>1, <2>2 DEF ChannelTypeOK
  <2>7. \A w \in Workers :
          \/ UNCHANGED requests[w]
          \/ requests'[w] = <<>> /\ (requests[w] = <<>> \/ (w \in Left)')
    BY <2>1, <2>5
  <2> QED BY <2>2, <2>3, <2>4, <2>6, <2>7, ProcessesMove DEF ProcessesGo
<1>6. CASE CutOff(p)
  <2>1. PICK lost \in SUBSET p :
          requests' = [w \in Workers |-> IF w \in lost THEN <<>> ELSE requests[w]]
    BY <1>6 DEF CutOff, Fails
  <2>2. /\ UNCHANGED <<replies, masterVars, mWorkerId>>
        /\ wpc' = [w \in Workers |-> IF w \in p /\ wpc[w] = "connected"
                                    THEN "disconnected" ELSE wpc[w]]
    BY <1>6 DEF CutOff
  <2>3. WorkerTypeOK'
    BY <1>1, <1>2, <2>2 DEF WorkerTypeOK, WorkerStates
  <2>4. \A w \in Workers : UNCHANGED wpc[w] \/ (w \in Left)'
    BY <1>1, <1>2, <2>2 DEF Left
  <2>5. \A w \in p : requests[w] # <<>> => (w \in Left)'
    <3>1. \A w \in p : wpc[w] \in WorkerStates
      BY <1>1, <1>2
    <3> QED BY <1>1, <1>3, <2>2, <3>1 DEF Left, WorkerStates
  <2>6. ChannelTypeOK'
    BY <1>2, <2>1, <2>2 DEF ChannelTypeOK
  <2>7. \A w \in Workers :
          \/ UNCHANGED requests[w]
          \/ requests'[w] = <<>> /\ (requests[w] = <<>> \/ (w \in Left)')
    BY <2>1, <2>5
  <2> QED BY <2>2, <2>3, <2>4, <2>6, <2>7, ProcessesMove DEF ProcessesGo
<1> QED BY <1>4, <1>5, <1>6 DEF ProcessStep

\* Only the message of w changes, and it is no answer, or it is the same answer.
LEMMA OneMoves ==
  ASSUME ExchangeInv, ChannelInv', MasterInv', WorkerTypeOK', NEW w \in Workers,
         OthersKeep(w), SameAnswer(w), Message(w) # Silence, (Message(w) # Silence)',
         UNCHANGED <<mQueue, mRes, mNextTask, mCompleted, csv, wpc>>,
         w \in Left => w \notin Answering
  PROVE  ExchangeInv' /\ Quiet
<1>1. \A v \in Workers \ {w} : UNCHANGED Message(v)
  BY DEF OthersKeep
<1>2. \A v \in Workers : SameAnswer(v)
  BY <1>1, MessageKept
<1>3. Left' = Left
  BY DEF Left
<1>4. Silent \subseteq Silent'
  BY <1>1, <1>3 DEF Silent, Left
<1>5. \A v \in Left \cap Answering : Message(v)' \in {Message(v), Silence}
  BY <1>1 DEF Left
<1> QED BY <1>2, <1>3, <1>4, <1>5 DEF Quiet, ExchangeInv

\* The steps of the worker components.
LEMMA WorkerSteps ==
  ASSUME ExchangeInv, NEW w \in Workers, WorkerStep(w)
  PROVE  ExchangeInv' /\ Quiet
<1> USE DEF ExchangeInv
<1>1. UNCHANGED masterVars /\ MasterInv'
  BY DEF WorkerStep, Connect, Disconnect, masterVars, MasterInv, MasterTypeOK, MasterIdle
<1>2. wpc \in [Workers -> WorkerStates] /\ mWorkerId \in [Workers -> Nat]
  BY DEF WorkerTypeOK
<1>3. CASE Disconnect(w)
  <2>1. /\ ChannelTypeOK' /\ UNCHANGED <<channelVars, mWorkerId>>
        /\ wpc[w] = "connected" /\ wpc' = [wpc EXCEPT ![w] = "disconnected"]
    BY <1>3 DEF Disconnect, service_disconnected, ChannelInv, ChannelTypeOK, channelVars
  <2>2. WorkerTypeOK'
    BY <1>2, <2>1 DEF WorkerTypeOK, WorkerStates
  <2>3. \A v \in Workers : UNCHANGED wpc[v] \/ (v \in Left)'
    BY <1>2, <2>1 DEF Left
  <2>4. \A v \in Workers : UNCHANGED requests[v]
    BY <2>1 DEF channelVars
  <2> QED BY <1>1, <2>1, <2>2, <2>3, <2>4, ProcessesMove DEF channelVars, ProcessesGo
<1>4. CASE Connect(w)
  <2>1. /\ wpc[w] = "started" /\ wpc' = [wpc EXCEPT ![w] = "connected"]
        /\ requests' = Sent(requests, w, RegisterWorker)
        /\ UNCHANGED <<replies, mWorkerId>>
    BY <1>4 DEF Connect, service_connected
  <2>2. requests[w] = <<>> /\ replies[w] = <<>>
    BY <2>1 DEF ChannelInv, Alternates
  <2>3. requests \in [Workers -> Seq(Request)] /\ replies \in [Workers -> Seq(Reply)]
    BY DEF ChannelInv, ChannelTypeOK
  <2>4. /\ requests' \in [Workers -> Seq(Request)] /\ requests'[w] = <<RegisterWorker>>
        /\ \A v \in Workers \ {w} : requests'[v] = requests[v]
    <3>1. PICK m \in Request : m = RegisterWorker
      BY MessageKinds
    <3>2. requests' = Sent(requests, w, m) /\ requests[w] = <<>>
      BY <2>1, <2>2, <3>1
    <3> QED BY <2>3, <3>1, <3>2, SentMessage
  <2>5. wpc'[w] = "connected" /\ \A v \in Workers \ {w} : wpc'[v] = wpc[v]
    BY <1>2, <2>1
  <2>6. \A v \in Workers \ {w} : Alternates(v)'
    BY <2>1, <2>4, <2>5 DEF ChannelInv, Alternates, AtMostOne
  <2>7. Alternates(w)'
    BY <2>1, <2>2, <2>4, <2>5, OneMessage DEF Alternates
  <2>8. ChannelInv'
    BY <2>1, <2>3, <2>4, <2>6, <2>7 DEF ChannelInv, ChannelTypeOK
  <2>9. OthersKeep(w) /\ Message(w)' = RegisterWorker /\ Message(w) = Silence
    BY <2>1, <2>2, <2>4, OneMessage DEF OthersKeep, Message, Silence
  <2>10. \A v \in Workers : SameAnswer(v)
    BY <2>9, MessageKept DEF OthersKeep, Silence, RegisterWorker
  <2>11. Left' = Left
    BY <2>1, <2>5 DEF Left
  <2>12. Silent \subseteq Silent'
    BY <2>1, <2>9, <2>11 DEF Silent, Left, OthersKeep
  <2>13. \A v \in Left \cap Answering : Message(v)' \in {Message(v), Silence}
    BY <2>1, <2>9 DEF Left, OthersKeep
  <2>14. WorkerTypeOK'
    BY <1>2, <2>1 DEF WorkerTypeOK, WorkerStates
  <2> QED BY <1>1, <2>8, <2>10, <2>11, <2>12, <2>13, <2>14 DEF Quiet, masterVars
<1>5. CASE Reacts(w)
  <2>1. PICK m \in Request, op \in {"RegisterWorkerReply", "AssignTaskReply"} :
          /\ Pending(replies, w, op) /\ replies' = Handled(replies, w)
          /\ requests' = Sent(requests, w, m)
          /\ op = "RegisterWorkerReply" => m = AssignTask
          /\ op = "AssignTaskReply" =>
                m = SubmitTask(Head(replies[w]).task_id, Head(replies[w]).real)
    <3>1. CASE response_RegisterWorkerReply(w)
      BY <3>1, MessageKinds DEF response_RegisterWorkerReply
    <3>2. CASE response_AssignTaskReply(w)
      <4>1. Head(replies[w]) \in Reply /\ Head(replies[w]).op = "AssignTaskReply"
        BY <3>2, MessageOf DEF response_AssignTaskReply, Pending
      <4>2. SubmitTask(Head(replies[w]).task_id, Head(replies[w]).real) \in Request
        BY <4>1, MessageKinds
      <4> QED BY <3>2, <4>2 DEF response_AssignTaskReply
    <3> QED BY <1>5, <3>1, <3>2 DEF Reacts
  <2>2. wpc[w] = "connected" /\ UNCHANGED wpc
    BY <1>5 DEF Reacts, response_RegisterWorkerReply, response_AssignTaskReply, workerVars
  <2>3. /\ Message(w) = Head(replies[w]) /\ Message(w) \in Reply /\ Message(w).op = op
        /\ ChannelInv' /\ OthersKeep(w) /\ Message(w)' = m
    BY <2>1, <2>2, WorkerReacts
  <2>4. WorkerTypeOK'
    <3>1. CASE response_RegisterWorkerReply(w)
      <4>1. Head(replies[w]) \in Reply /\ Head(replies[w]).op = "RegisterWorkerReply"
        BY <3>1, MessageOf DEF response_RegisterWorkerReply, Pending
      <4>2. Head(replies[w]).worker_id \in Nat
        BY <4>1, MessageKinds
      <4> QED BY <1>2, <3>1, <4>2 DEF response_RegisterWorkerReply, WorkerTypeOK
    <3>2. CASE response_AssignTaskReply(w)
      BY <1>2, <3>2 DEF response_AssignTaskReply, WorkerTypeOK, workerVars
    <3> QED BY <1>5, <3>1, <3>2 DEF Reacts
  <2>5. SameAnswer(w)
    BY <2>1, <2>3 DEF SameAnswer, Answering, AssignTask, SubmitTask
  <2>6. Message(w) # Silence /\ (Message(w) # Silence)'
    BY <2>3, MessageKinds DEF Silence
  <2>7. w \notin Left
    BY <2>2 DEF Left
  <2> QED BY <1>1, <2>2, <2>3, <2>4, <2>5, <2>6, <2>7, OneMoves DEF masterVars
<1> QED BY <1>3, <1>4, <1>5 DEF WorkerStep

-----------------------------------------------------------------------------
\* Master and workers are as they were.
LEMMA NothingMoves ==
  ASSUME ExchangeInv, UNCHANGED <<channelVars, workerVars, mQueue, mRes, mNextTask, mCompleted, csv>>
  PROVE  ChannelInv' /\ WorkerTypeOK' /\ Quiet
<1>1. /\ ChannelInv' /\ Left' = Left
      /\ \A w \in Workers : UNCHANGED Message(w)
  BY ChannelsKept DEF workerVars
<1>2. \A w \in Workers : SameAnswer(w)
  BY <1>1, MessageKept
<1>3. Silent \subseteq Silent'
  BY <1>1 DEF Silent, Left
<1>4. \A w \in Left \cap Answering : Message(w)' \in {Message(w), Silence}
  BY <1>1 DEF Left
<1> QED BY <1>1, <1>2, <1>3, <1>4 DEF Quiet, ExchangeInv, WorkerTypeOK, workerVars

\* The steps of main, and of MasterThread when it takes the pool over.
LEMMA MainSteps ==
  ASSUME ExchangeInv, UNCHANGED workerVars,
         ReadTasks \/ ReadTasksThrows \/ startup_service_interface \/ UnloadModel
  PROVE  ExchangeInv' /\ (Quiet \/ Starts)
<1> USE DEF ExchangeInv
<1>1. CASE startup_service_interface
  <2>1. ChannelInv' /\ WorkerTypeOK'
    BY <1>1, ChannelsKept DEF startup_service_interface, workerVars, WorkerTypeOK
  <2>2. MasterInv'
    BY <1>1 DEF startup_service_interface, MasterInv, MasterTypeOK, MasterIdle, RowStates
  <2>3. Starts
    BY <1>1 DEF startup_service_interface, MasterInv, MasterIdle, Starts, workerVars
  <2> QED BY <2>1, <2>2, <2>3
<1>2. CASE ReadTasks \/ ReadTasksThrows \/ UnloadModel
  <2>1. /\ UNCHANGED <<channelVars, mQueue, mRes, mNextWorkerId, mNextTask, mCompleted,
                       mShutdown, csv>>
        /\ gMasterTasks' \in {0, NumTasks}
        /\ mpc' \in {"loaded", "failed", "exited"} /\ (mpc' = "loaded" => mpc = "start")
    BY <1>2 DEF ReadTasks, ReadTasksThrows, UnloadModel, MasterInv, MasterTypeOK
  <2>2. MasterInv'
    BY <2>1 DEF MasterInv, MasterTypeOK, MasterIdle
  <2> QED BY <2>1, <2>2, NothingMoves
<1> QED BY <1>1, <1>2

\* The rows stay rows of the queue when a submission of its tasks or a sentinel is stored.
LEMMA StoredRows ==
  ASSUME MasterTypeOK, NEW m, m.task_id \in Nat, m.real \in BOOLEAN
  PROVE  Stored(m) \in [0 .. (mQueue - 1) -> RowStates]
BY DEF MasterTypeOK, Stored, RowStates

\* What make_response does for the request of w, the rows being as given.
LEMMA ResponseHands ==
  ASSUME ExchangeInv, NEW w \in Workers, NEW op, Pending(requests, w, op),
         NEW rows \in [0 .. (mQueue - 1) -> RowStates],
         requests' = Handled(requests, w), make_response(w, rows),
         UNCHANGED <<wpc, mQueue, csv>>
  PROVE  /\ ChannelInv' /\ Hands(w, rows)
         /\ mRes' \in [0 .. (mQueue' - 1) -> RowStates]
         /\ mNextTask' \in Nat /\ mShutdown' \in BOOLEAN
<1> USE DEF ExchangeInv, MasterInv
<1>1. mNextTask \in Nat /\ mQueue \in Nat /\ mNextTask' = mNextTask + 1
  BY DEF MasterTypeOK, make_response
<1>2. CASE DispatchTask(w, rows)
  <2>1. PICK m \in Reply : m = AssignTaskReply(mNextTask, TRUE)
    BY <1>1, MessageKinds
  <2>2. replies' = Sent(replies, w, m)
    BY <1>2, <2>1 DEF DispatchTask
  <2>3. ChannelInv' /\ OthersKeep(w) /\ Message(w)' = m
    BY <2>2, MasterAnswers
  <2>4. mRes' = [rows EXCEPT ![mNextTask] = "sent"] /\ mNextTask < mQueue
    BY <1>2 DEF DispatchTask
  <2>5. mRes' \in [0 .. (mQueue' - 1) -> RowStates] /\ mShutdown' \in BOOLEAN
    BY <1>2, <2>4 DEF RowStates, DispatchTask, MasterTypeOK
  <2>6. AboutAnswer(w)
    BY <2>3 DEF AboutAnswer
  <2>7. Hands(w, rows)
    BY <1>1, <2>1, <2>3, <2>4, <2>6 DEF Hands
  <2> QED BY <1>1, <2>3, <2>5, <2>7
<1>3. CASE SendSentinel(w, rows)
  <2>1. PICK m \in Reply : m = Sentinel
    BY MessageKinds DEF Sentinel
  <2>2. replies' = Sent(replies, w, m)
    BY <1>3, <2>1 DEF SendSentinel
  <2>3. ChannelInv' /\ OthersKeep(w) /\ Message(w)' = m
    BY <2>2, MasterAnswers
  <2>4. mNextTask >= mQueue /\ mRes' = rows /\ mShutdown' = TRUE
    BY <1>3 DEF SendSentinel
  <2>5. AboutAnswer(w)
    BY <2>3 DEF AboutAnswer
  <2>6. Hands(w, rows)
    BY <1>1, <2>1, <2>3, <2>4, <2>5 DEF Hands
  <2> QED BY <1>1, <2>3, <2>4, <2>6
<1> QED BY <1>2, <1>3 DEF make_response

\* The handlers of MasterComponent.
LEMMA HandlerSteps ==
  ASSUME ExchangeInv, UNCHANGED workerVars, NEW w \in Workers,
         \/ request_RegisterWorker(w) \/ request_AssignTask(w) \/ request_SubmitTask(w)
  PROVE  ExchangeInv' /\ (Quiet \/ Asks(w) \/ Continues(w) \/ Ends(w))
<1> USE DEF ExchangeInv, MasterInv
<1>1. WorkerTypeOK' /\ UNCHANGED wpc
  BY DEF workerVars, WorkerTypeOK
<1>2. PICK op \in {"RegisterWorker", "AssignTask", "SubmitTask"} :
        /\ Pending(requests, w, op) /\ requests' = Handled(requests, w) /\ serving
        /\ op = "RegisterWorker" => request_RegisterWorker(w)
        /\ op = "AssignTask" => request_AssignTask(w)
        /\ op = "SubmitTask" => request_SubmitTask(w)
  BY DEF request_RegisterWorker, request_AssignTask, request_SubmitTask, SubmitAndContinue,
     SubmitAndQuit, SubmitToEmptyQueue, Submission
<1>3. /\ Message(w) = Head(requests[w]) /\ Message(w) \in Request /\ Message(w).op = op
      /\ \A m \in Reply : replies' = Sent(replies, w, m) =>
           ChannelInv' /\ OthersKeep(w) /\ Message(w)' = m
      /\ UNCHANGED replies => ChannelInv' /\ OthersKeep(w) /\ Message(w)' = Silence
  BY <1>1, <1>2, MasterAnswers
<1>4. CASE op = "RegisterWorker"
  <2>1. PICK m \in Reply : m = RegisterWorkerReply(mNextWorkerId)
    BY MessageKinds DEF MasterTypeOK
  <2>2. /\ replies' = Sent(replies, w, m) /\ mNextWorkerId' = mNextWorkerId + 1
        /\ UNCHANGED <<gMasterTasks, mQueue, mRes, mNextTask, mCompleted, mShutdown, mpc, csv>>
    BY <1>2, <1>4, <2>1 DEF request_RegisterWorker
  <2>3. ChannelInv' /\ OthersKeep(w) /\ Message(w)' = m
    BY <1>3, <2>2
  <2>4. MasterInv'
    BY <2>2 DEF MasterTypeOK, MasterIdle
  <2>5. w \notin Answering /\ SameAnswer(w)
    BY <1>3, <1>4, <2>1, <2>3 DEF SameAnswer, Answering, RegisterWorkerReply
  <2>6. Message(w) # Silence /\ (Message(w) # Silence)'
    BY <1>3, <2>3, MessageKinds DEF Silence
  <2> QED BY <1>1, <2>2, <2>3, <2>4, <2>5, <2>6, OneMoves
<1>5. CASE op = "AssignTask"
  <2>1. /\ make_response(w, mRes)
        /\ UNCHANGED <<gMasterTasks, mQueue, mNextWorkerId, mCompleted, mpc, csv>>
    BY <1>2, <1>5 DEF request_AssignTask
  <2>2. PICK rows \in [0 .. (mQueue - 1) -> RowStates] : rows = mRes
    BY DEF MasterTypeOK
  <2>3. /\ ChannelInv' /\ Hands(w, rows)
        /\ mRes' \in [0 .. (mQueue' - 1) -> RowStates]
        /\ mNextTask' \in Nat /\ mShutdown' \in BOOLEAN
    BY <1>1, <1>2, <2>1, <2>2, ResponseHands
  <2>4. MasterInv'
    BY <1>2, <2>1, <2>3 DEF MasterTypeOK, MasterIdle, serving
  <2> QED BY <1>1, <1>3, <1>5, <2>1, <2>2, <2>3, <2>4 DEF Asks
<1>6. CASE op = "SubmitTask"
  <2>1. /\ mCompleted' = mCompleted + 1
        /\ UNCHANGED <<gMasterTasks, mQueue, mNextWorkerId>>
        /\ SubmitAndContinue(w) \/ SubmitAndQuit(w) \/ SubmitToEmptyQueue(w)
    BY <1>2, <1>6 DEF request_SubmitTask, SubmitAndContinue, SubmitAndQuit,
       SubmitToEmptyQueue, Submission
  <2>2. PICK rows \in [0 .. (mQueue - 1) -> RowStates] : rows = Stored(Message(w))
    BY <1>3, <1>6, MessageKinds, StoredRows
  <2>3. mCompleted' \in Nat
    BY <2>1 DEF MasterTypeOK
  <2>4. CASE SubmitAndContinue(w)
    <3>1. make_response(w, rows) /\ mQueue > 0 /\ UNCHANGED <<mpc, csv>>
      BY <1>3, <2>2, <2>4 DEF SubmitAndContinue
    <3>2. /\ ChannelInv' /\ Hands(w, rows)
          /\ mRes' \in [0 .. (mQueue' - 1) -> RowStates]
          /\ mNextTask' \in Nat /\ mShutdown' \in BOOLEAN
      BY <1>1, <1>2, <2>1, <3>1, ResponseHands
    <3>3. MasterInv'
      BY <1>2, <2>1, <2>3, <3>1, <3>2 DEF MasterTypeOK, MasterIdle, serving
    <3> QED BY <1>1, <1>3, <1>6, <2>1, <2>2, <3>1, <3>2, <3>3 DEF Continues
  <2>5. CASE SubmitAndQuit(w)
    <3>1. /\ mQueue > 0 /\ LastCompletion /\ mRes' = rows
          /\ \/ csv' = mRes' /\ mpc' = "quitting"
             \/ UNCHANGED csv /\ mpc' = "failed"
          /\ UNCHANGED <<replies, mNextTask, mShutdown>>
      BY <1>3, <2>2, <2>5 DEF SubmitAndQuit
    <3>2. ChannelInv' /\ OthersKeep(w) /\ Message(w)' = Silence
      BY <1>3, <3>1
    <3>3. MasterInv'
      BY <2>1, <2>3, <3>1 DEF MasterTypeOK, MasterIdle
    <3> QED BY <1>1, <1>3, <1>6, <2>1, <2>2, <3>1, <3>2, <3>3 DEF Ends, AboutAnswer
  <2>6. CASE SubmitToEmptyQueue(w)
    <3>1. mQueue = 0 /\ mpc' = "failed" /\ UNCHANGED <<replies, mRes, mNextTask, mShutdown, csv>>
      BY <2>6 DEF SubmitToEmptyQueue
    <3>2. ChannelInv' /\ OthersKeep(w) /\ Message(w)' = Silence
      BY <1>3, <3>1
    <3>3. MasterInv'
      BY <2>1, <2>3, <3>1 DEF MasterTypeOK, MasterIdle
    <3> QED BY <1>1, <1>3, <1>6, <2>1, <3>1, <3>2, <3>3 DEF Ends, AboutAnswer
  <2> QED BY <2>1, <2>4, <2>5, <2>6
<1> QED BY <1>2, <1>4, <1>5, <1>6

\* Every step keeps the alternation, and is one of the five.
LEMMA Steps ==
  ASSUME ExchangeInv, [Next]_vars
  PROVE  /\ ExchangeInv'
         /\ Quiet \/ Starts \/ \E w \in Workers : Asks(w) \/ Continues(w) \/ Ends(w)
<1>1. CASE MasterStep
  BY <1>1, MainSteps, HandlerSteps DEF MasterStep, Master
<1>2. CASE \E w \in Workers : WorkerStep(w)
  BY <1>2, WorkerSteps
<1>3. CASE \E p \in Processes : ProcessStep(p) \/ Crash(p) \/ CutOff(p)
  BY <1>3, ProcessSteps
<1>4. CASE Finished \/ WaitQuit \/ UNCHANGED vars
  <2>1. UNCHANGED <<channelVars, workerVars, masterVars>>
    BY <1>4 DEF Finished, WaitQuit, vars
  <2>2. MasterInv'
    BY <2>1 DEF ExchangeInv, masterVars, MasterInv, MasterTypeOK, MasterIdle
  <2> QED BY <2>1, <2>2, NothingMoves DEF masterVars, ExchangeInv
<1> QED BY <1>1, <1>2, <1>3, <1>4 DEF Next

\* Nothing is under way initially.
LEMMA ExchangeInitially ==
  ASSUME Init
  PROVE  ExchangeInv /\ \A w \in Workers : Message(w) = Silence
<1> USE DEF Init, ChannelInit, MasterInit, WorkerInit
<1>1. ChannelInv
  BY DEF ChannelInv, ChannelTypeOK, Alternates, AtMostOne
<1>2. MasterInv
  BY DEF MasterInv, MasterTypeOK, MasterIdle, RowStates
<1>3. WorkerTypeOK
  BY DEF WorkerTypeOK, WorkerStates
<1>4. \A w \in Workers : Message(w) = Silence
  BY DEF Message
<1> QED BY <1>1, <1>2, <1>3, <1>4 DEF ExchangeInv

\* The state of master, messages and workers is what it should be, whatever the order in
\* which the components of the processes are started, served, cut off and stopped.
THEOREM TypeCorrect == Spec => []TypeOK
<1>1. Init => ExchangeInv
  BY ExchangeInitially
<1>2. ExchangeInv /\ [Next]_vars => ExchangeInv'
  BY Steps
<1>3. ExchangeInv => TypeOK
  BY DEF ExchangeInv, ChannelInv, MasterInv, TypeOK
<1> QED BY <1>1, <1>2, <1>3, PTL DEF Spec

-----------------------------------------------------------------------------
\* How many answers and losses there are.

\* The sets that are counted.
LEMMA FiniteSets ==
  /\ IsFiniteSet(Answering) /\ IsFiniteSet(WithTask) /\ IsFiniteSet(Silent)
  /\ IsFiniteSet(Left) /\ IsFiniteSet(Dispatched)
  /\ \A rows, holders : IsFiniteSet(MissingIn(rows, holders))
  /\ Cardinality(Answering) \in Nat /\ Cardinality(WithTask) \in Nat
  /\ Cardinality(Silent) \in Nat
<1>1. /\ Answering \subseteq Workers /\ WithTask \subseteq Workers
      /\ Silent \subseteq Workers /\ Left \subseteq Workers
  BY DEF Answering, WithTask, Silent, Left
<1>2. IsFiniteSet(Task)
  BY FS_Interval DEF Task
<1>3. Dispatched \subseteq Task /\ \A rows, holders : MissingIn(rows, holders) \subseteq Task
  BY DEF Dispatched, MissingIn
<1> QED BY <1>1, <1>2, <1>3, FS_Subset, FS_CardinalityType

\* Two sets without a common element, together.
LEMMA DisjointSizes ==
  ASSUME NEW S, NEW T, IsFiniteSet(S), IsFiniteSet(T), S \cap T = {}
  PROVE  /\ IsFiniteSet(S \cup T)
         /\ Cardinality(S \cup T) = Cardinality(S) + Cardinality(T)
<1>1. Cardinality(S \cap T) = 0
  BY FS_EmptySet
<1>2. Cardinality(S) \in Nat /\ Cardinality(T) \in Nat
  BY FS_CardinalityType
<1>3. /\ IsFiniteSet(S \cup T)
      /\ Cardinality(S \cup T) = Cardinality(S) + Cardinality(T) - Cardinality(S \cap T)
  BY FS_Union
<1> QED BY <1>1, <1>2, <1>3

\* A set and an element, which may be in it.
LEMMA OneMore ==
  ASSUME NEW S, IsFiniteSet(S), NEW e
  PROVE  /\ IsFiniteSet(S \cup {e})
         /\ Cardinality(S \cup {e}) \in Nat
         /\ Cardinality(S \cup {e}) <= Cardinality(S) + 1
<1>1. Cardinality(S) \in Nat /\ Cardinality(S \cup {e}) \in Nat
  BY FS_AddElement, FS_CardinalityType
<1>2. Cardinality(S \cup {e}) = Cardinality(S) \/ Cardinality(S \cup {e}) = Cardinality(S) + 1
  BY FS_AddElement
<1> QED BY <1>1, <1>2, FS_AddElement

\* What a quiet step does to these sets: an answer that is dropped is a loss.
LEMMA QuietSizes ==
  ASSUME ExchangeInv, ExchangeInv', Quiet
  PROVE  /\ Answering' \subseteq Answering /\ WithTask' \subseteq WithTask
         /\ Cardinality(Answering) + Cardinality(Silent)
              <= Cardinality(Answering') + Cardinality(Silent')
         /\ Cardinality(WithTask) + Cardinality(Silent)
              <= Cardinality(WithTask') + Cardinality(Silent')
         /\ Cardinality(Answering') <= Cardinality(Answering)
<1>1. \A w \in Workers : SameAnswer(w) \/ Drops(w)
  BY DEF Quiet
<1>2. Answering \subseteq Workers /\ Answering' \subseteq Workers /\ Silent' \subseteq Workers
  BY DEF Answering, Silent, Left
<1>3. Answering' \subseteq Answering /\ \A w \in Answering \ Answering' : w \in Silent'
  BY <1>1, <1>2 DEF SameAnswer, Drops
<1>4. WithTask' \subseteq WithTask /\ WithTask \ WithTask' \subseteq Answering \ Answering'
  BY <1>1, <1>2, <1>3 DEF WithTask, SameAnswer, Drops
<1>5. Answering \cap Silent = {}
  BY DEF Answering, Silent, Silence
<1>6. Silent \subseteq Silent'
  BY DEF Quiet
<1>7. ASSUME NEW S, NEW T, IsFiniteSet(S), T \subseteq S, S \ T \subseteq Answering \ Answering'
      PROVE  Cardinality(S) + Cardinality(Silent) <= Cardinality(T) + Cardinality(Silent')
  <2>1. IsFiniteSet(T) /\ IsFiniteSet(S \ T) /\ IsFiniteSet(Silent) /\ IsFiniteSet(Silent')
    <3>1. IsFiniteSet(Silent) /\ IsFiniteSet(Workers) /\ Silent' \subseteq Workers
      BY <1>2, FiniteSets
    <3> QED BY <1>7, <3>1, FS_Subset
  <2>2. Cardinality(S) = Cardinality(T) + Cardinality(S \ T)
    <3>1. S = T \cup (S \ T) /\ T \cap (S \ T) = {}
      BY <1>7
    <3> QED BY <2>1, <3>1, DisjointSizes
  <2>3. /\ IsFiniteSet((S \ T) \cup Silent)
        /\ Cardinality((S \ T) \cup Silent) = Cardinality(S \ T) + Cardinality(Silent)
    <3>1. (S \ T) \cap Silent = {}
      BY <1>5, <1>7
    <3> QED BY <2>1, <3>1, DisjointSizes
  <2>4. Cardinality((S \ T) \cup Silent) <= Cardinality(Silent')
    <3>1. (S \ T) \cup Silent \subseteq Silent'
      BY <1>3, <1>6, <1>7
    <3> QED BY <2>1, <3>1, FS_Subset
  <2>5. /\ Cardinality(S) \in Nat /\ Cardinality(T) \in Nat /\ Cardinality(S \ T) \in Nat
        /\ Cardinality(Silent) \in Nat /\ Cardinality(Silent') \in Nat
    BY <1>7, <2>1, FS_CardinalityType
  <2> QED BY <2>2, <2>3, <2>4, <2>5
<1>8. IsFiniteSet(Answering) /\ IsFiniteSet(WithTask)
  BY FiniteSets
<1>9. Cardinality(Answering') <= Cardinality(Answering)
  BY <1>3, <1>8, FS_Subset
<1> QED BY <1>3, <1>4, <1>7, <1>8, <1>9

\* The other workers have what they had when the master answers w, or does not.
LEMMA OthersHave ==
  ASSUME NEW w \in Workers, AboutAnswer(w)
  PROVE  /\ \A v \in Workers \ {w} : UNCHANGED Message(v)
         /\ (Answering \ {w})' = Answering \ {w}
         /\ (WithTask \ {w})' = WithTask \ {w}
         /\ (Silent \ {w})' = Silent \ {w}
         /\ Left' = Left
<1>1. \A v \in Workers \ {w} : UNCHANGED Message(v)
  BY DEF AboutAnswer, OthersKeep
<1>2. Left' = Left
  BY DEF AboutAnswer, Left
<1>3. (Answering \ {w})' = Answering \ {w}
  BY <1>1 DEF Answering
<1>4. (WithTask \ {w})' = WithTask \ {w}
  BY <1>1, <1>3 DEF WithTask, Answering
<1>5. (Silent \ {w})' = Silent \ {w}
  BY <1>1, <1>2 DEF Silent, Left
<1> QED BY <1>1, <1>2, <1>3, <1>4, <1>5

\* Whether w has an answer before and after it is handed one, and what it is then.
LEMMA Handed ==
  ASSUME ExchangeInv, NEW w \in Workers, NEW rows, Hands(w, rows)
  PROVE  /\ w \in Answering' /\ w \notin Silent'
         /\ mNextTask' = mNextTask + 1
         /\ Message(w).task_id' = IF mNextTask < mQueue THEN mNextTask ELSE 0
         /\ w \in WithTask' <=> mNextTask < mQueue
<1>1. \/ mNextTask < mQueue /\ Message(w)' = AssignTaskReply(mNextTask, TRUE)
      \/ mNextTask >= mQueue /\ Message(w)' = AssignTaskReply(0, FALSE)
  BY DEF Hands, Sentinel
<1>2. mNextTask \in Nat /\ mQueue \in Nat
  BY DEF ExchangeInv, MasterInv, MasterTypeOK
<1>3. w \in Answering' /\ w \notin Silent'
  BY <1>1 DEF AssignTaskReply, Answering, Silent, Silence
<1>4. Message(w).task_id' = IF mNextTask < mQueue THEN mNextTask ELSE 0
  BY <1>1, <1>2 DEF AssignTaskReply
<1>5. w \in WithTask' <=> mNextTask < mQueue
  BY <1>1, <1>2, <1>3 DEF AssignTaskReply, WithTask
<1> QED BY <1>3, <1>4, <1>5 DEF Hands

\* The answers and the losses after a step of the master that is not quiet.
LEMMA MasterSizes ==
  ASSUME ExchangeInv, ExchangeInv', NEW w \in Workers, AboutAnswer(w),
         w \in Answering \/ Message(w).op = "AssignTask"
  PROVE  /\ w \notin Silent /\ Silent \subseteq Silent'
         /\ w \notin Silent' => Silent' = Silent
         /\ Cardinality(Silent) <= Cardinality(Silent')
         /\ Cardinality(Answering') = Cardinality(Answering \ {w})
               + (IF w \in Answering' THEN 1 ELSE 0)
         /\ Cardinality(Answering) = Cardinality(Answering \ {w})
               + (IF w \in Answering THEN 1 ELSE 0)
         /\ Cardinality(Answering \ {w}) \in Nat
<1>1. /\ (Answering \ {w})' = Answering \ {w}
      /\ (Silent \ {w})' = Silent \ {w}
  BY OthersHave
<1>2. w \notin Silent
  BY DEF Answering, Silent, Silence
<1>3. Silent \subseteq Silent' /\ (w \notin Silent' => Silent' = Silent)
  <2>1. Silent = Silent \ {w} /\ Silent' \ {w} = Silent \ {w}
    BY <1>1, <1>2
  <2> HIDE DEF Silent
  <2>2. w \notin Silent' => Silent' \ {w} = Silent'
    OBVIOUS
  <2> QED BY <2>1, <2>2
<1>4. IsFiniteSet(Workers) /\ Silent' \subseteq Workers
  BY DEF Silent, Left
<1>5. IsFiniteSet(Silent')
  BY <1>4, FS_Subset
<1>6. Cardinality(Silent) <= Cardinality(Silent')
  BY <1>3, <1>5, FS_Subset
<1>7. IsFiniteSet(Answering \ {w})
  BY FiniteSets, FS_Subset
<1>8. ASSUME NEW S, S \ {w} = Answering \ {w}
      PROVE  Cardinality(S) = Cardinality(Answering \ {w}) + (IF w \in S THEN 1 ELSE 0)
  <2>1. CASE w \in S
    <3>1. S = (Answering \ {w}) \cup {w}
      BY <1>8, <2>1
    <3>2. Cardinality((Answering \ {w}) \cup {w}) = Cardinality(Answering \ {w}) + 1
      BY <1>7, FS_AddElement
    <3> QED BY <2>1, <3>1, <3>2
  <2>2. CASE w \notin S
    <3>1. S = Answering \ {w}
      BY <1>8, <2>2
    <3>2. Cardinality(Answering \ {w}) \in Nat
      BY <1>7, FS_CardinalityType
    <3> QED BY <2>2, <3>1, <3>2
  <2> QED BY <2>1, <2>2
<1>9. Cardinality(Answering') = Cardinality(Answering \ {w})
        + (IF w \in Answering' THEN 1 ELSE 0)
  BY <1>1, <1>8
<1>10. Cardinality(Answering) = Cardinality(Answering \ {w})
        + (IF w \in Answering THEN 1 ELSE 0)
  BY <1>8
<1> QED BY <1>2, <1>3, <1>6, <1>7, <1>9, <1>10, FS_CardinalityType

\* The cursor runs ahead of the completions by the answers there are, and those lost.
LEMMA LossesInductive ==
  ASSUME ExchangeInv, ExchangeInv', LossesCounted, [Next]_vars
  PROVE  LossesCounted'
<1> DEFINE size == Cardinality(Answering)
           lost == Cardinality(Silent)
<1>1. /\ size \in Nat /\ lost \in Nat /\ mNextTask \in Nat /\ mCompleted \in Nat
      /\ mNextTask - mCompleted - size \in 0 .. lost
  BY FiniteSets DEF LossesCounted, ExchangeInv, MasterInv, MasterTypeOK
<1>2. size' \in Nat /\ lost' \in Nat
  <2>1. Answering' \subseteq Workers /\ Silent' \subseteq Workers
    BY DEF Answering, Silent, Left
  <2> QED BY <2>1, FS_Subset, FS_CardinalityType
<1>3. CASE Quiet
  <2>1. size + lost <= size' + lost' /\ size' <= size
    BY <1>3, QuietSizes
  <2>2. mNextTask' = mNextTask /\ mCompleted' = mCompleted
    BY <1>3 DEF Quiet
  <2> HIDE DEF size, lost
  <2>3. mNextTask' - mCompleted' - size' \in 0 .. lost'
    <3>1. PICK n \in Nat, c \in Nat, s \in Nat, l \in Nat, s1 \in Nat, l1 \in Nat :
            /\ n = mNextTask /\ c = mCompleted
            /\ s = size /\ l = lost /\ s1 = size' /\ l1 = lost'
      BY <1>1, <1>2
    <3>2. n - c - s \in 0 .. l /\ s + l <= s1 + l1 /\ s1 <= s
      BY <1>1, <2>1, <3>1
    <3>3. n - c - s1 \in 0 .. l1
      BY <3>2
    <3> QED BY <2>2, <3>1, <3>3
  <2> QED BY <2>3 DEF LossesCounted, size, lost
<1>4. CASE Starts
  <2>1. Answering' = Answering /\ Silent' = Silent
    <3>1. Left' = Left /\ \A w \in Workers : UNCHANGED Message(w)
      BY <1>4, ChannelsKept DEF Starts
    <3> QED BY <3>1 DEF Answering, Silent, Left
  <2> QED BY <1>4, <2>1 DEF Starts, LossesCounted
<1>5. ASSUME NEW w \in Workers, Asks(w) \/ Continues(w) \/ Ends(w)
      PROVE  LossesCounted'
  <2>1. AboutAnswer(w) /\ (w \in Answering \/ Message(w).op = "AssignTask")
    BY <1>5 DEF Asks, Continues, Ends, Hands, Answering
  <2>2. PICK rest \in Nat :
          /\ size = rest + (IF w \in Answering THEN 1 ELSE 0)
          /\ size' = rest + (IF w \in Answering' THEN 1 ELSE 0)
    BY <2>1, MasterSizes
  <2>3. lost <= lost'
    BY <2>1, MasterSizes
  <2>4. \/ /\ w \notin Answering /\ w \in Answering'
           /\ mNextTask' = mNextTask + 1 /\ mCompleted' = mCompleted
        \/ /\ w \in Answering /\ w \in Answering'
           /\ mNextTask' = mNextTask + 1 /\ mCompleted' = mCompleted + 1
        \/ /\ w \in Answering /\ w \notin Answering'
           /\ mNextTask' = mNextTask /\ mCompleted' = mCompleted + 1
    <3>1. CASE Asks(w)
      BY <3>1, Handed DEF Asks, Answering
    <3>2. CASE Continues(w)
      BY <3>2, Handed DEF Continues, Answering
    <3>3. CASE Ends(w)
      BY <3>3 DEF Ends, Answering, Silence
    <3> QED BY <1>5, <3>1, <3>2, <3>3
  <2> HIDE DEF size, lost
  <2>5. mNextTask' - mCompleted' - size' \in 0 .. lost'
    BY <1>1, <1>2, <2>2, <2>3, <2>4
  <2> QED BY <2>5 DEF LossesCounted, size, lost
<1> QED BY <1>3, <1>4, <1>5, Steps

-----------------------------------------------------------------------------
\* Which tasks the answers are, and what is in the rows.

\* Fewer tasks are missing if fewer are held or sent.
LEMMA FewerMissing ==
  ASSUME NEW S, NEW rows, NEW holders, S \subseteq MissingIn(rows, holders)
  PROVE  /\ IsFiniteSet(S) /\ Cardinality(S) \in Nat
         /\ Cardinality(S) <= Cardinality(MissingIn(rows, holders))
         /\ Cardinality(MissingIn(rows, holders)) \in Nat
BY FiniteSets, FS_Subset, FS_CardinalityType

\* A quiet step loses answers, and counts them.
LEMMA QuietFits ==
  ASSUME AregInv, ExchangeInv', Quiet
  PROVE  AnswersNamed' /\ Fits(mRes, WithTask)'
<1> USE DEF AregInv
<1>1. /\ Answering' \subseteq Answering /\ WithTask' \subseteq WithTask
      /\ Cardinality(WithTask) + Cardinality(Silent)
           <= Cardinality(WithTask') + Cardinality(Silent')
  BY QuietSizes
<1>2. UNCHANGED <<mQueue, mRes, mNextTask>> /\ Dispatched' = Dispatched
  BY DEF Quiet, Dispatched
<1>3. \A w \in Answering' : w \in Answering /\ UNCHANGED <<Message(w).task_id, Message(w).real>>
  BY DEF Quiet, SameAnswer, Drops, Answering
<1>4. Answering' \ WithTask' \subseteq Answering \ WithTask
  BY <1>1, <1>3 DEF WithTask
<1>5. \A w \in WithTask' : w \in WithTask /\ UNCHANGED Message(w).task_id
  BY <1>1, <1>3 DEF WithTask
<1>6. AnswersNamed'
  BY <1>2, <1>3, <1>4, <1>5 DEF AnswersNamed
<1>7. MissingIn(mRes, WithTask)' \subseteq MissingIn(mRes, WithTask)
  BY <1>2, <1>5 DEF MissingIn
<1>8. Cardinality(MissingIn(mRes, WithTask)') <= Cardinality(WithTask') + Cardinality(Silent')
  <2>1. /\ Cardinality(MissingIn(mRes, WithTask)') \in Nat
        /\ Cardinality(MissingIn(mRes, WithTask)') <= Cardinality(MissingIn(mRes, WithTask))
        /\ Cardinality(MissingIn(mRes, WithTask)) \in Nat
    BY <1>7, FewerMissing
  <2>2. Cardinality(MissingIn(mRes, WithTask)) <= Cardinality(WithTask) + Cardinality(Silent)
    BY DEF Fits
  <2>3. /\ Cardinality(WithTask) \in Nat /\ Cardinality(Silent) \in Nat
        /\ Cardinality(WithTask') \in Nat /\ Cardinality(Silent') \in Nat
    <3>1. WithTask' \subseteq Workers /\ Silent' \subseteq Workers
      BY DEF WithTask, Answering, Silent, Left
    <3> QED BY <3>1, FiniteSets, FS_Subset, FS_CardinalityType
  <2> QED BY <1>1, <2>1, <2>2, <2>3
<1> QED BY <1>2, <1>5, <1>6, <1>8 DEF Fits

\* When the pool is taken over nothing was handed out.
LEMMA StartsFits ==
  ASSUME AregInv, ExchangeInv', Starts
  PROVE  AnswersNamed' /\ Fits(mRes, WithTask)'
<1> USE DEF AregInv
<1>1. Answering = {}
  <2>1. Cardinality(Answering) = 0
    BY FiniteSets DEF LossesCounted, Starts
  <2> QED BY <2>1, FiniteSets, FS_EmptySet
<1>2. Left' = Left /\ \A w \in Workers : UNCHANGED Message(w)
  BY ChannelsKept DEF Starts
<1>3. Answering' = {} /\ WithTask' = {} /\ Silent' = Silent
  BY <1>1, <1>2 DEF Answering, WithTask, Silent, Left
<1>4. mQueue' \in Nat /\ mNextTask' = 0
  BY DEF Starts, ExchangeInv, MasterInv, MasterTypeOK
<1>5. Dispatched' = {} /\ MissingIn(mRes, WithTask)' = {}
  BY <1>3, <1>4 DEF Dispatched, MissingIn, Task
<1>6. Cardinality(MissingIn(mRes, WithTask)') <= Cardinality(WithTask') + Cardinality(Silent')
  <2>1. Cardinality({}) = 0 /\ Cardinality(Silent) \in Nat
    BY FiniteSets, FS_EmptySet
  <2>2. /\ Cardinality(MissingIn(mRes, WithTask)') = 0 /\ Cardinality(WithTask') = 0
        /\ Cardinality(Silent') = Cardinality(Silent)
    BY <1>3, <1>5, <2>1
  <2> QED BY <2>1, <2>2
<1>7. \A t \in 0 .. (mQueue' - 1) : mRes'[t] = "blank" /\ t >= 0
  BY <1>4 DEF Starts
<1> QED BY <1>3, <1>4, <1>6, <1>7 DEF AnswersNamed, Fits

\* A submission fills the row of a task that is then not missing any more, or the row of
\* task 0 when every task was handed out.
LEMMA StoredFits ==
  ASSUME AregInv, NEW w \in Workers, Message(w).op = "SubmitTask", mQueue > 0
  PROVE  Fits(Stored(Message(w)), WithTask \ {w})
<1> USE DEF AregInv
<1> DEFINE id == Message(w).task_id
           rows == Stored(Message(w))
           others == WithTask \ {w}
<1>1. w \in Answering
  BY DEF Answering
<1>2. mRes \in [0 .. (mQueue - 1) -> RowStates] /\ mQueue = NumTasks /\ mNextTask \in Nat
  BY DEF ExchangeInv, MasterInv, MasterTypeOK
<1>3. rows = [mRes EXCEPT ![id] = IF Message(w).real THEN "timed" ELSE "sentinel"]
  BY DEF Stored
<1>4. \A v \in WithTask : Message(v).task_id \in Dispatched /\ Message(v).task_id \in Task
  BY DEF AnswersNamed, Dispatched
<1>5. Task = 0 .. (mQueue - 1)
  BY <1>2 DEF Task
<1>6. IsFiniteSet(WithTask) /\ Cardinality(WithTask) \in Nat /\ Cardinality(Silent) \in Nat
  BY FiniteSets
<1>7. Cardinality(MissingIn(mRes, WithTask)) <= Cardinality(WithTask) + Cardinality(Silent)
  BY DEF Fits
<1>8. CASE Message(w).real
  <2>1. w \in WithTask /\ id \in Dispatched /\ id \in Task
    BY <1>1, <1>4, <1>8 DEF WithTask
  <2>2. \A t \in Task : rows[t] = IF t = id THEN "timed" ELSE mRes[t]
    BY <1>2, <1>3, <1>5, <1>8
  <2>3. \A v \in others : Message(v).task_id # id
    BY <2>1 DEF AnswersNamed
  <2>4. \A v \in others : rows[Message(v).task_id] # "timed"
    BY <1>4, <2>2, <2>3 DEF Fits
  <2>5. \A t \in Task : (rows[t] = "blank" <=> t >= mNextTask) /\ (rows[t] = "sentinel" => t = 0)
    <3>1. id < mNextTask /\ id \in Nat
      BY <2>1 DEF Dispatched, Task
    <3> QED BY <1>2, <1>5, <2>2, <3>1 DEF Fits
  <2>6. MissingIn(rows, others) \subseteq MissingIn(mRes, WithTask) \ {id}
    <3>1. \A t \in Dispatched : t \in Task
      BY DEF Dispatched
    <3> HIDE DEF id, rows
    <3> QED BY <2>2, <2>3, <3>1 DEF MissingIn
  <2>7. id \in MissingIn(mRes, WithTask)
    BY <2>1 DEF MissingIn
  <2>8. Cardinality(MissingIn(rows, others)) <= Cardinality(MissingIn(mRes, WithTask)) - 1
    <3>1. IsFiniteSet(MissingIn(mRes, WithTask))
      BY FewerMissing
    <3>2. /\ IsFiniteSet(MissingIn(mRes, WithTask) \ {id})
          /\ Cardinality(MissingIn(mRes, WithTask) \ {id})
               = Cardinality(MissingIn(mRes, WithTask)) - 1
      <4> DEFINE M == MissingIn(mRes, WithTask)
      <4>1. id \in M /\ IsFiniteSet(M)
        BY <2>7, <3>1
      <4> HIDE DEF M, id
      <4>2. IsFiniteSet(M \ {id}) /\ Cardinality(M \ {id}) = Cardinality(M) - 1
        BY <4>1, FS_RemoveElement
      <4> QED BY <4>2 DEF M
    <3>3. Cardinality(MissingIn(rows, others)) <= Cardinality(MissingIn(mRes, WithTask) \ {id})
      BY <2>6, <3>2, FS_Subset
    <3> QED BY <3>2, <3>3
  <2>9. Cardinality(others) = Cardinality(WithTask) - 1
    BY <1>6, <2>1, FS_RemoveElement
  <2>10. Cardinality(MissingIn(rows, others)) <= Cardinality(others) + Cardinality(Silent)
    <3>1. /\ Cardinality(MissingIn(rows, others)) \in Nat
          /\ Cardinality(MissingIn(mRes, WithTask)) \in Nat
      BY FewerMissing
    <3> QED BY <1>6, <1>7, <2>8, <2>9, <3>1
  <2> QED BY <1>5, <2>4, <2>5, <2>10 DEF Fits
<1>9. CASE ~Message(w).real
  <2>1. w \notin WithTask /\ others = WithTask
    BY <1>9 DEF WithTask
  <2>2. id = 0 /\ mNextTask > mQueue
    BY <1>1, <2>1 DEF AnswersNamed
  <2>3. \A t \in Task : rows[t] = IF t = 0 THEN "sentinel" ELSE mRes[t]
    BY <1>2, <1>3, <1>5, <1>9, <2>2
  <2>4. \A v \in others : rows[Message(v).task_id] # "timed"
    BY <1>4, <2>1, <2>3 DEF Fits
  <2>5. \A t \in Task : (rows[t] = "blank" <=> t >= mNextTask) /\ (rows[t] = "sentinel" => t = 0)
    BY <1>2, <1>5, <2>2, <2>3 DEF Fits
  <2>6. MissingIn(rows, others) \subseteq MissingIn(mRes, WithTask)
    <3>1. \A t \in Dispatched : t \in Task
      BY DEF Dispatched
    <3> HIDE DEF id, rows
    <3> QED BY <2>1, <2>3, <3>1 DEF MissingIn
  <2>7. Cardinality(MissingIn(rows, others)) <= Cardinality(others) + Cardinality(Silent)
    <3>1. /\ Cardinality(MissingIn(rows, others)) \in Nat
          /\ Cardinality(MissingIn(rows, others)) <= Cardinality(MissingIn(mRes, WithTask))
          /\ Cardinality(MissingIn(mRes, WithTask)) \in Nat
      BY <2>6, FewerMissing
    <3>2. Cardinality(others) = Cardinality(WithTask)
      BY <2>1
    <3> HIDE DEF others, rows
    <3> QED BY <1>6, <1>7, <3>1, <3>2
  <2> QED BY <1>5, <2>4, <2>5, <2>7 DEF Fits
<1> QED BY <1>8, <1>9

\* What is handed out next is missing until it is answered, and nothing else becomes so.
LEMMA HandsFits ==
  ASSUME AregInv, ExchangeInv', NEW w \in Workers, NEW rows \in [0 .. (mQueue - 1) -> RowStates],
         Fits(rows, WithTask \ {w}), Hands(w, rows),
         w \in Answering \/ Message(w).op = "AssignTask"
  PROVE  AnswersNamed' /\ Fits(mRes, WithTask)'
<1> USE DEF AregInv
<1> DEFINE others == WithTask \ {w}
<1>1. AboutAnswer(w)
  BY DEF Hands
<1>2. /\ \A v \in Workers \ {w} : UNCHANGED Message(v)
      /\ (WithTask \ {w})' = others /\ (Answering \ {w})' = Answering \ {w}
  BY <1>1, OthersHave
<1>3. /\ w \in Answering' /\ w \notin Silent'
      /\ Message(w).task_id' = IF mNextTask < mQueue THEN mNextTask ELSE 0
      /\ w \in WithTask' <=> mNextTask < mQueue
      /\ mNextTask' = mNextTask + 1
  BY Handed
<1>4. Silent' = Silent
  BY <1>1, <1>3, MasterSizes
<1>5. /\ mQueue' = mQueue /\ mNextTask \in Nat
      /\ mQueue \in {0, NumTasks} /\ mQueue \in Nat
  BY DEF AboutAnswer, Hands, ExchangeInv, MasterInv, MasterTypeOK
<1>6. \A v \in others :
        /\ UNCHANGED Message(v).task_id /\ v \in Workers \ {w}
        /\ Message(v).task_id \in Dispatched
  BY <1>2 DEF AnswersNamed, WithTask, Answering
<1>7. \A t \in Dispatched : t \in Nat /\ t < mNextTask /\ t < mQueue
  BY DEF Dispatched, Task
<1>8. \A v \in Answering \ WithTask : v # w => UNCHANGED Message(v).task_id
  BY <1>2 DEF Answering
<1>9. (Answering \ WithTask)' \ {w} = (Answering \ WithTask) \ {w}
  BY <1>2
<1>10. /\ IsFiniteSet(others) /\ Cardinality(others) \in Nat /\ Cardinality(Silent) \in Nat
       /\ Cardinality(MissingIn(rows, others)) \in Nat
       /\ Cardinality(MissingIn(rows, others)) <= Cardinality(others) + Cardinality(Silent)
  BY FiniteSets, FS_Subset, FS_CardinalityType DEF Fits
<1>11. CASE mNextTask < mQueue
  <2>1. mRes' = [rows EXCEPT ![mNextTask] = "sent"]
    <3>1. ~(mNextTask >= mQueue)
      BY <1>5, <1>11
    <3> QED BY <3>1, Zenon DEF Hands
  <2>2. WithTask' = others \cup {w} /\ w \notin others
    BY <1>2, <1>3, <1>11
  <2>3. Message(w).task_id' = mNextTask
    BY <1>3, <1>11
  <2>4. Dispatched' = Dispatched \cup {mNextTask} /\ mNextTask \notin Dispatched
    BY <1>3, <1>5, <1>11 DEF Dispatched, Task
  <2>5. \A t \in 0 .. (mQueue - 1) : mRes'[t] = IF t = mNextTask THEN "sent" ELSE rows[t]
    BY <1>5, <1>11, <2>1
  <2>6. AnswersNamed'
    <3>1. \A v \in WithTask' : Message(v).task_id' \in Dispatched'
      BY <1>6, <2>2, <2>3, <2>4
    <3>2. \A u, v \in WithTask' : Message(u).task_id' = Message(v).task_id' => u = v
      BY <1>6, <2>2, <2>3, <2>4 DEF AnswersNamed
    <3>3. \A v \in (Answering \ WithTask)' : Message(v).task_id' = 0 /\ mNextTask' > mQueue'
      <4>1. \A v \in (Answering \ WithTask)' : v \in Answering \ WithTask /\ v # w
        BY <1>9, <2>2
      <4> QED BY <1>5, <1>11, <4>1 DEF AnswersNamed
    <3> QED BY <3>1, <3>2, <3>3 DEF AnswersNamed
  <2>7. \A v \in WithTask' : mRes'[Message(v).task_id'] # "timed"
    <3>1. mRes'[mNextTask] = "sent"
      BY <1>5, <1>11, <2>5
    <3>2. \A v \in others : mRes'[Message(v).task_id] = rows[Message(v).task_id]
      BY <1>5, <1>6, <1>7, <2>4, <2>5
    <3> QED BY <1>6, <2>2, <2>3, <3>1, <3>2 DEF Fits
  <2>8. \A t \in 0 .. (mQueue - 1) : /\ mRes'[t] = "blank" <=> t >= mNextTask'
                                     /\ mRes'[t] = "sentinel" => t = 0
    BY <1>3, <1>5, <2>5 DEF Fits
  <2>9. MissingIn(mRes, WithTask)' \subseteq MissingIn(rows, others) \cup {mNextTask}
    <3>1. ASSUME NEW t \in Dispatched', t # mNextTask,
                 mRes'[t] = "sent" \/ \E v \in WithTask' : Message(v).task_id' = t
          PROVE  t \in MissingIn(rows, others)
      <4>1. t \in Dispatched /\ t \in 0 .. (mQueue - 1) /\ mRes'[t] = rows[t]
        BY <1>5, <1>7, <2>4, <2>5, <3>1
      <4>2. \A v \in WithTask' : Message(v).task_id' = t => v \in others /\ Message(v).task_id = t
        BY <1>6, <2>2, <2>3, <3>1
      <4> QED BY <3>1, <4>1, <4>2 DEF MissingIn
    <3> QED BY <3>1 DEF MissingIn
  <2>10. Cardinality(MissingIn(mRes, WithTask)') <= Cardinality(WithTask') + Cardinality(Silent')
    <3>1. IsFiniteSet(MissingIn(rows, others))
      BY FiniteSets
    <3>2. /\ IsFiniteSet(MissingIn(rows, others) \cup {mNextTask})
          /\ Cardinality(MissingIn(rows, others) \cup {mNextTask}) \in Nat
          /\ Cardinality(MissingIn(rows, others) \cup {mNextTask})
               <= Cardinality(MissingIn(rows, others)) + 1
      BY <3>1, OneMore
    <3>3. /\ Cardinality(MissingIn(mRes, WithTask)') \in Nat
          /\ Cardinality(MissingIn(mRes, WithTask)')
               <= Cardinality(MissingIn(rows, others) \cup {mNextTask})
      <4>1. IsFiniteSet(MissingIn(mRes, WithTask)')
        BY <2>9, <3>2, FS_Subset
      <4> QED BY <2>9, <3>2, <4>1, FS_Subset, FS_CardinalityType
    <3>4. Cardinality(WithTask') = Cardinality(others) + 1
      BY <1>10, <2>2, FS_AddElement
    <3> HIDE DEF others
    <3> QED BY <1>4, <1>10, <3>2, <3>3, <3>4
  <2> QED BY <1>5, <2>6, <2>7, <2>8, <2>10 DEF Fits
<1>12. CASE ~(mNextTask < mQueue)
  <2>1. mRes' = rows
    BY <1>5, <1>12 DEF Hands
  <2>2. WithTask' = others
    BY <1>2, <1>3, <1>12
  <2>3. Dispatched' = Dispatched
    BY <1>3, <1>5, <1>12 DEF Dispatched, Task
  <2>4. AnswersNamed'
    <3>1. \A v \in WithTask' : Message(v).task_id' \in Dispatched'
      BY <1>6, <2>2, <2>3
    <3>2. \A u, v \in WithTask' : Message(u).task_id' = Message(v).task_id' => u = v
      BY <1>6, <2>2 DEF AnswersNamed
    <3>3. \A v \in (Answering \ WithTask)' : Message(v).task_id' = 0 /\ mNextTask' > mQueue'
      <4>1. \A v \in (Answering \ WithTask)' : v = w \/ (v \in Answering \ WithTask /\ v # w)
        BY <1>9
      <4> QED BY <1>3, <1>5, <1>8, <1>12, <4>1 DEF AnswersNamed
    <3> QED BY <3>1, <3>2, <3>3 DEF AnswersNamed
  <2>5. \A v \in WithTask' : mRes'[Message(v).task_id'] # "timed"
    BY <1>6, <2>1, <2>2 DEF Fits
  <2>6. \A t \in 0 .. (mQueue - 1) : /\ mRes'[t] = "blank" <=> t >= mNextTask'
                                     /\ mRes'[t] = "sentinel" => t = 0
    BY <1>3, <1>5, <1>12, <2>1 DEF Fits
  <2>7. MissingIn(mRes, WithTask)' = MissingIn(rows, others)
    BY <1>6, <2>1, <2>2, <2>3 DEF MissingIn
  <2>8. Cardinality(MissingIn(mRes, WithTask)') <= Cardinality(WithTask') + Cardinality(Silent')
    BY <1>4, <1>10, <2>2, <2>7
  <2> QED BY <1>5, <2>4, <2>5, <2>6, <2>8 DEF Fits
<1> QED BY <1>11, <1>12

\* The last submission leaves the rows as it stored them, and its worker without an answer.
LEMMA EndsFits ==
  ASSUME AregInv, ExchangeInv', NEW w \in Workers, Ends(w)
  PROVE  AnswersNamed' /\ Fits(mRes, WithTask)'
<1> USE DEF AregInv
<1> DEFINE others == WithTask \ {w}
<1>1. AboutAnswer(w) /\ w \in Answering /\ w \notin Answering'
  BY DEF Ends, Answering, Silence
<1>2. /\ \A v \in Workers \ {w} : UNCHANGED Message(v)
      /\ (WithTask \ {w})' = others /\ (Answering \ {w})' = Answering \ {w}
  BY <1>1, OthersHave
<1>3. Answering' = Answering \ {w} /\ WithTask' = others
  BY <1>1, <1>2 DEF WithTask
<1>4. UNCHANGED <<mQueue, mNextTask>> /\ Dispatched' = Dispatched
  BY DEF Ends, AboutAnswer, Dispatched
<1>5. \A v \in Answering' : UNCHANGED Message(v).task_id /\ v \in Answering
  BY <1>2, <1>3 DEF Answering
<1>6. AnswersNamed'
  <2>1. \A v \in WithTask' : v \in WithTask /\ UNCHANGED Message(v).task_id
    BY <1>3, <1>5 DEF WithTask
  <2>2. \A v \in (Answering \ WithTask)' : v \in Answering \ WithTask /\ UNCHANGED Message(v).task_id
    BY <1>3, <1>5
  <2> QED BY <1>4, <2>1, <2>2 DEF AnswersNamed
<1>7. Fits(mRes', others)
  <2>1. CASE mQueue > 0
    BY <2>1, StoredFits DEF Ends
  <2>2. CASE ~(mQueue > 0)
    <3>1. mQueue = 0
      BY <2>2 DEF ExchangeInv, MasterInv, MasterTypeOK
    <3>2. Dispatched = {}
      BY <3>1 DEF Dispatched, Task
    <3>3. WithTask = {} /\ MissingIn(mRes', others) = {}
      BY <3>2 DEF AnswersNamed, MissingIn
    <3>4. Cardinality({}) = 0 /\ Cardinality(Silent) \in Nat
      BY FiniteSets, FS_EmptySet
    <3>5. Cardinality(MissingIn(mRes', others)) <= Cardinality(others) + Cardinality(Silent)
      <4>1. others = {}
        BY <3>3
      <4> HIDE DEF others
      <4> QED BY <3>3, <3>4, <4>1
    <3> QED BY <3>1, <3>3, <3>5 DEF Fits
  <2> QED BY <2>1, <2>2
<1>8. MissingIn(mRes, WithTask)' = MissingIn(mRes', others)
  <2>1. \A v \in others : UNCHANGED Message(v).task_id
    BY <1>3, <1>5 DEF WithTask
  <2> QED BY <1>3, <1>4, <2>1 DEF MissingIn
<1>9. Cardinality(MissingIn(mRes, WithTask)') <= Cardinality(WithTask') + Cardinality(Silent')
  <2>1. Cardinality(Silent) <= Cardinality(Silent')
    BY <1>1, MasterSizes
  <2>2. Cardinality(MissingIn(mRes', others)) <= Cardinality(others) + Cardinality(Silent)
    BY <1>7 DEF Fits
  <2>3. /\ Cardinality(MissingIn(mRes', others)) \in Nat /\ Cardinality(others) \in Nat
        /\ Cardinality(Silent) \in Nat /\ Cardinality(Silent') \in Nat
    <3>1. Silent' \subseteq Workers
      BY DEF Silent, Left
    <3> QED BY <3>1, FiniteSets, FS_Subset, FS_CardinalityType
  <2>4. Cardinality(WithTask') = Cardinality(others)
    BY <1>3
  <2> HIDE DEF others
  <2> QED BY <1>8, <2>1, <2>2, <2>3, <2>4
<1>10. \A v \in others : UNCHANGED Message(v).task_id
  BY <1>3, <1>5 DEF WithTask
<1> QED BY <1>3, <1>4, <1>6, <1>7, <1>9, <1>10 DEF Fits

-----------------------------------------------------------------------------
\* The invariant, and what follows from it.

\* Nothing has been handed out or lost initially.
LEMMA AregInitially == Init => AregInv
<1> SUFFICES ASSUME Init PROVE AregInv
  OBVIOUS
<1>1. ExchangeInv /\ \A w \in Workers : Message(w) = Silence
  BY ExchangeInitially
<1>2. Answering = {} /\ WithTask = {}
  BY <1>1 DEF Answering, WithTask, Silence
<1>3. mQueue = 0 /\ mNextTask = 0 /\ mCompleted = 0
  BY DEF Init, MasterInit
<1>4. Dispatched = {} /\ MissingIn(mRes, WithTask) = {}
  BY <1>3 DEF Dispatched, MissingIn, Task
<1>5. Cardinality({}) = 0 /\ Cardinality(Silent) \in Nat
  BY FiniteSets, FS_EmptySet
<1>6. Cardinality(Answering) = 0
  BY <1>2, <1>5
<1>7. LossesCounted
  BY <1>3, <1>5, <1>6 DEF LossesCounted
<1>8. AnswersNamed
  BY <1>2 DEF AnswersNamed
<1>9. Fits(mRes, WithTask)
  <2>1. Cardinality(MissingIn(mRes, WithTask)) = 0 /\ Cardinality(WithTask) = 0
    BY <1>2, <1>4, <1>5
  <2> QED BY <1>2, <1>3, <1>5, <2>1 DEF Fits
<1> QED BY <1>1, <1>7, <1>8, <1>9 DEF AregInv

\* Every step preserves it.
LEMMA AregInductive == AregInv /\ [Next]_vars => AregInv'
<1> SUFFICES ASSUME AregInv, [Next]_vars PROVE AregInv'
  OBVIOUS
<1>1. /\ ExchangeInv /\ ExchangeInv'
      /\ Quiet \/ Starts \/ \E w \in Workers : Asks(w) \/ Continues(w) \/ Ends(w)
  BY Steps DEF AregInv
<1>2. LossesCounted'
  BY <1>1, LossesInductive DEF AregInv
<1>3. ASSUME NEW w \in Workers, Asks(w) PROVE AnswersNamed' /\ Fits(mRes, WithTask)'
  <2>1. Message(w).op = "AssignTask" /\ Hands(w, mRes)
    BY <1>3 DEF Asks
  <2>2. WithTask \ {w} = WithTask
    BY <2>1 DEF WithTask, Answering
  <2>3. Fits(mRes, WithTask \ {w})
    BY <2>2 DEF AregInv
  <2>4. PICK rows \in [0 .. (mQueue - 1) -> RowStates] : rows = mRes
    BY <1>1 DEF ExchangeInv, MasterInv, MasterTypeOK
  <2> QED BY <1>1, <2>1, <2>3, <2>4, HandsFits
<1>4. ASSUME NEW w \in Workers, Continues(w) PROVE AnswersNamed' /\ Fits(mRes, WithTask)'
  <2>1. /\ Message(w).op = "SubmitTask" /\ w \in Answering /\ mQueue > 0
        /\ Hands(w, Stored(Message(w)))
    BY <1>4 DEF Continues, Answering
  <2>2. PICK rows \in [0 .. (mQueue - 1) -> RowStates] : rows = Stored(Message(w))
    <3>1. Message(w) \in Request \cup Reply
      BY <1>1, <2>1, MessageOf DEF Silence, ExchangeInv
    <3>2. Message(w).task_id \in Nat /\ Message(w).real \in BOOLEAN
      BY <2>1, <3>1, MessageKinds
    <3> QED BY <1>1, <3>2, StoredRows DEF ExchangeInv, MasterInv
  <2>3. Fits(rows, WithTask \ {w})
    BY <2>1, <2>2, StoredFits
  <2> QED BY <1>1, <2>1, <2>2, <2>3, HandsFits
<1> QED BY <1>1, <1>2, <1>3, <1>4, QuietFits, StartsFits, EndsFits DEF AregInv

\* The invariant always holds.
LEMMA AregInvariant == Spec => []AregInv
BY AregInitially, AregInductive, PTL DEF Spec

\* The answers under way of a worker are its message, if that is an answer.
LEMMA AnswerSeen ==
  ASSUME ExchangeInv, NEW w \in Workers
  PROVE  /\ UnderWay(w) = IF w \in Answering THEN 1 ELSE 0
         /\ \A t : Holds(w, t) <=> w \in WithTask /\ Message(w).task_id = t
         /\ SubmittedBy(w) # {} <=> Message(w).op = "SubmitTask"
<1>1. /\ requests[w] = <<>> \/ requests[w] = <<Head(requests[w])>>
      /\ replies[w] = <<>> \/ replies[w] = <<Head(replies[w])>>
      /\ requests[w] = <<>> \/ replies[w] = <<>>
  BY DEF ExchangeInv, ChannelInv, Alternates, AtMostOne
<1>2. /\ requests[w] # <<>> =>
           Message(w) = Head(requests[w]) /\ Message(w) \in Request /\ replies[w] = <<>>
      /\ replies[w] # <<>> =>
           Message(w) = Head(replies[w]) /\ Message(w) \in Reply /\ requests[w] = <<>>
      /\ Message(w) = Silence <=> requests[w] = <<>> /\ replies[w] = <<>>
  BY MessageOf DEF ExchangeInv
<1>3. Cardinality({}) = 0 /\ Cardinality({1}) = 1
  BY FS_EmptySet, FS_Singleton
<1>4. \A m : Len(<<m>>) = 1 /\ <<m>>[1] = m /\ 1 .. 1 = {1} /\ 1 .. 0 = {} /\ Len(<<>>) = 0
  OBVIOUS
<1>5. CASE requests[w] # <<>>
  <2>1. PICK m \in Request : m = Message(w) /\ requests[w] = <<m>> /\ replies[w] = <<>>
    BY <1>1, <1>2, <1>5
  <2>2. AssignedTo(w) = {}
    BY <1>4, <2>1 DEF AssignedTo
  <2>3. SubmittedBy(w) = {i \in {1} : m.op = "SubmitTask"}
    BY <1>4, <2>1 DEF SubmittedBy
  <2>4. m.op # "AssignTaskReply"
    BY MessageKinds
  <2>5. CASE m.op = "SubmitTask"
    <3>1. SubmittedBy(w) = {1} /\ w \in Answering
      BY <2>1, <2>3, <2>5 DEF Answering
    <3>2. UnderWay(w) = 1
      BY <1>3, <2>2, <3>1 DEF UnderWay
    <3>3. \A t : Holds(w, t) <=> w \in WithTask /\ Message(w).task_id = t
      BY <1>4, <2>1, <2>2, <3>1 DEF Holds, WithTask
    <3> QED BY <2>1, <2>5, <3>1, <3>2, <3>3
  <2>6. CASE m.op # "SubmitTask"
    <3>1. SubmittedBy(w) = {} /\ w \notin Answering
      BY <2>1, <2>3, <2>4, <2>6 DEF Answering
    <3>2. UnderWay(w) = 0
      BY <1>3, <2>2, <3>1 DEF UnderWay
    <3>3. \A t : Holds(w, t) <=> w \in WithTask /\ Message(w).task_id = t
      BY <2>2, <3>1 DEF Holds, WithTask
    <3> QED BY <2>1, <2>6, <3>1, <3>2, <3>3
  <2> QED BY <2>5, <2>6
<1>6. CASE requests[w] = <<>>
  <2>1. SubmittedBy(w) = {}
    BY <1>4, <1>6 DEF SubmittedBy
  <2>2. Message(w).op # "SubmitTask"
    BY <1>2, <1>6, MessageKinds DEF Silence
  <2>3. CASE replies[w] # <<>>
    <3>1. PICK m \in Reply : m = Message(w) /\ replies[w] = <<m>>
      BY <1>1, <1>2, <2>3
    <3>2. AssignedTo(w) = {i \in {1} : m.op = "AssignTaskReply"}
      BY <1>4, <3>1 DEF AssignedTo
    <3>3. CASE m.op = "AssignTaskReply"
      <4>1. AssignedTo(w) = {1} /\ w \in Answering
        BY <3>1, <3>2, <3>3 DEF Answering
      <4>2. UnderWay(w) = 1
        BY <1>3, <2>1, <4>1 DEF UnderWay
      <4>3. \A t : Holds(w, t) <=> w \in WithTask /\ Message(w).task_id = t
        BY <1>4, <2>1, <3>1, <4>1 DEF Holds, WithTask
      <4> QED BY <2>1, <2>2, <4>1, <4>2, <4>3
    <3>4. CASE m.op # "AssignTaskReply"
      <4>1. AssignedTo(w) = {} /\ w \notin Answering
        BY <2>2, <3>1, <3>2, <3>4 DEF Answering
      <4>2. UnderWay(w) = 0
        BY <1>3, <2>1, <4>1 DEF UnderWay
      <4>3. \A t : Holds(w, t) <=> w \in WithTask /\ Message(w).task_id = t
        BY <2>1, <4>1 DEF Holds, WithTask
      <4> QED BY <2>1, <2>2, <4>1, <4>2, <4>3
    <3> QED BY <3>3, <3>4
  <2>4. CASE replies[w] = <<>>
    <3>1. AssignedTo(w) = {} /\ w \notin Answering
      BY <1>2, <1>4, <1>6, <2>4 DEF AssignedTo, Answering, Silence
    <3>2. UnderWay(w) = 0
      BY <1>3, <2>1, <3>1 DEF UnderWay
    <3>3. \A t : Holds(w, t) <=> w \in WithTask /\ Message(w).task_id = t
      BY <2>1, <3>1 DEF Holds, WithTask
    <3> QED BY <2>1, <2>2, <3>1, <3>2, <3>3
  <2> QED BY <2>3, <2>4
<1> QED BY <1>5, <1>6

(***************************************************************************)
(* mCompleted is right about the answers (MasterComponent.cpp:51, 96):     *)
(* each answer of make_response is submitted once at most, one at a time   *)
(* per worker, and only a worker that is gone can take one with it.        *)
(***************************************************************************)
THEOREM Conservation == Spec => []AnswersConserved
<1>1. AregInv => AnswersConserved
  <2> SUFFICES ASSUME AregInv PROVE AnswersConserved
    OBVIOUS
  <2>1. ExchangeInv
    BY DEF AregInv
  <2>2. Busy = Answering
    BY <2>1, AnswerSeen DEF Busy, Answering
  <2>3. Cardinality(Silent) <= Cardinality(Left)
    <3>1. Silent \subseteq Left
      BY DEF Silent
    <3> QED BY <3>1, FiniteSets, FS_Subset
  <2>4. /\ Cardinality(Left) \in Nat /\ Cardinality(Silent) \in Nat
        /\ mNextTask - mCompleted - Cardinality(Busy) \in 0 .. Cardinality(Silent)
    BY <2>2, FiniteSets, FS_CardinalityType DEF AregInv, LossesCounted
  <2>5. mNextTask - mCompleted - Cardinality(Busy) \in 0 .. Cardinality(Left)
    BY <2>3, <2>4
  <2>6. ASSUME NEW w \in Workers PROVE UnderWay(w) <= 1
    <3>1. UnderWay(w) = 0 \/ UnderWay(w) = 1
      BY <2>1, AnswerSeen
    <3>2. PICK n \in {0, 1} : n = UnderWay(w)
      BY <3>1
    <3> QED BY <3>2
  <2> QED BY <2>5, <2>6 DEF AnswersConserved
<1> QED BY <1>1, AregInvariant, PTL

(***************************************************************************)
(* No task is computed by two workers, nor again once it was timed         *)
(* (MasterComponent.cpp:58-75, 89-113), whatever the order of             *)
(* registrations, submissions, sentinels and losses.                       *)
(***************************************************************************)
THEOREM OneHolder == Spec => []OneWorkerPerTask
<1>1. AregInv => OneWorkerPerTask
  <2> SUFFICES ASSUME AregInv PROVE OneWorkerPerTask
    OBVIOUS
  <2>1. \A w \in Workers : \A t : Holds(w, t) <=> w \in WithTask /\ Message(w).task_id = t
    BY AnswerSeen DEF AregInv
  <2>2. \A w \in WithTask : mRes[Message(w).task_id] # "timed"
    BY DEF AregInv, Fits
  <2> QED BY <2>1, <2>2 DEF AregInv, AnswersNamed, OneWorkerPerTask
<1> QED BY <1>1, AregInvariant, PTL

-----------------------------------------------------------------------------
\* The refinement of EarlyDistribution.

\* Task t is with a worker that computes it or has submitted it.
Attended(t) ==
  \E w \in WithTask :
    Message(w).task_id = t /\ (w \notin Left \/ Message(w).op = "SubmitTask")

\* What has become of a task, by the messages.
StateByMessages ==
  \A t \in Task :
    /\ t \notin Dispatched => TaskState(t) = "queued"
    /\ t \in Dispatched /\ mRes[t] = "timed" => TaskState(t) = "recorded"
    /\ t \in Dispatched /\ mRes[t] # "timed" /\ Attended(t) => TaskState(t) = "assigned"
    /\ t \in Dispatched /\ mRes[t] # "timed" /\ ~Attended(t) => TaskState(t) = "lost"

\* That is what the refinement mapping says.
LEMMA StateOfTask == ExchangeInv => StateByMessages
<1> SUFFICES ASSUME ExchangeInv PROVE StateByMessages
  OBVIOUS
<1>1. \A t \in Task : t \in Dispatched <=> ~(t >= mQueue \/ t >= mNextTask)
  BY DEF Dispatched, Task, ExchangeInv, MasterInv, MasterTypeOK
<1>2. \A t : (\E w \in Workers : Holds(w, t) /\ (w \notin Left \/ SubmittedBy(w) # {}))
                <=> Attended(t)
  BY AnswerSeen DEF Attended, WithTask, Answering
<1> QED BY <1>1, <1>2 DEF TaskState, StateByMessages

\* And so it is after a step.
LEMMA StateOfTaskNext == ExchangeInv' => StateByMessages'
BY StateOfTask, PTL

\* Each task stays as it is or moves on.
Advances ==
  \A t \in Task :
    UNCHANGED TaskState(t) \/ <<TaskState(t), TaskState(t)'>> \in Abstract!Moves

\* A quiet step can make a task lost, with its worker.
LEMMA QuietAdvances ==
  ASSUME AregInv, ExchangeInv', Quiet
  PROVE  Advances
<1>1. ExchangeInv
  BY DEF AregInv
<1>2. mRes' = mRes /\ Dispatched' = Dispatched
  BY DEF Quiet, Dispatched
<1>3. ASSUME NEW t, Attended(t)' PROVE Attended(t)
  <2>1. PICK w \in WithTask' :
          /\ Message(w).task_id' = t
          /\ (w \notin Left)' \/ Message(w).op' = "SubmitTask"
    BY <1>3 DEF Attended
  <2>2. w \in Answering' /\ w \in Workers
    BY DEF WithTask, Answering
  <2>3. SameAnswer(w)
    BY <2>2 DEF Quiet, Drops
  <2>4. w \in Answering /\ w \in WithTask /\ Message(w).task_id = t
    BY <2>1, <2>2, <2>3 DEF SameAnswer, WithTask
  <2>5. CASE w \notin Left
    BY <2>4, <2>5 DEF Attended
  <2>6. CASE w \in Left
    <3>1. (w \in Left)' /\ Message(w)' \in {Message(w), Silence}
      BY <2>4, <2>6 DEF Quiet
    <3>2. Message(w)' = Message(w)
      BY <2>2, <3>1 DEF Answering, Silence
    <3> QED BY <2>1, <2>4, <3>1, <3>2 DEF Attended
  <2> QED BY <2>5, <2>6
<1>4. ASSUME NEW t \in Task
      PROVE  UNCHANGED TaskState(t) \/ <<TaskState(t), TaskState(t)'>> \in Abstract!Moves
  <2>1. StateByMessages /\ StateByMessages'
    BY <1>1, StateOfTask, StateOfTaskNext
  <2> QED BY <1>2, <1>3, <2>1 DEF StateByMessages, Abstract!Moves
<1> QED BY <1>4 DEF Advances

\* Nor does a step of the master give a task to another worker, or lose a timing except
\* that of task 0, which nobody computes then.
LEMMA MasterAdvances ==
  ASSUME AregInv, AregInv', NEW w \in Workers, AboutAnswer(w), Dispatched \subseteq Dispatched',
         \A t \in Dispatched' \ Dispatched : mRes'[t] # "timed",
         w \in WithTask' => Message(w).task_id' \notin Dispatched,
         \A t \in Dispatched : mRes'[t] = "timed" => mRes[t] = "timed" \/ Attended(t)
  PROVE  Advances
<1>1. StateByMessages /\ StateByMessages'
  BY StateOfTask, StateOfTaskNext DEF AregInv
<1>2. /\ \A v \in Workers \ {w} : UNCHANGED Message(v)
      /\ (WithTask \ {w})' = WithTask \ {w} /\ Left' = Left
  BY OthersHave
<1>3. ASSUME NEW t \in Dispatched, Attended(t)' PROVE Attended(t) /\ mRes[t] # "timed"
  <2>1. PICK v \in WithTask' :
          /\ Message(v).task_id' = t
          /\ (v \notin Left)' \/ Message(v).op' = "SubmitTask"
    BY <1>3 DEF Attended
  <2>2. v # w
    BY <1>3, <2>1
  <2>3. v \in WithTask /\ v \in Workers \ {w}
    BY <1>2, <2>1, <2>2 DEF WithTask, Answering
  <2>4. UNCHANGED Message(v)
    BY <1>2, <2>3
  <2> QED BY <1>2, <2>1, <2>3, <2>4 DEF Attended, AregInv, Fits
<1>4. ASSUME NEW t \in Task
      PROVE  UNCHANGED TaskState(t) \/ <<TaskState(t), TaskState(t)'>> \in Abstract!Moves
  <2>1. CASE t \notin Dispatched /\ t \notin Dispatched'
    BY <1>1, <2>1 DEF StateByMessages
  <2>2. CASE t \notin Dispatched /\ t \in Dispatched'
    BY <1>1, <2>2 DEF StateByMessages, Abstract!Moves
  <2>3. CASE t \in Dispatched
    BY <1>1, <1>3, <2>3 DEF StateByMessages, Abstract!Moves
  <2> QED BY <2>1, <2>2, <2>3
<1> QED BY <1>4 DEF Advances

\* The timings in the rows are in mRes, or of tasks that are with a worker.
TimingsAttended(rows) ==
  \A t \in Dispatched : rows[t] = "timed" => mRes[t] = "timed" \/ Attended(t)

\* The task or sentinel that w is handed, after what it submitted if it did.
LEMMA HandsAdvances ==
  ASSUME AregInv, AregInv', NEW w \in Workers, NEW rows, Hands(w, rows),
         rows \in [0 .. (mQueue - 1) -> RowStates], TimingsAttended(rows)
  PROVE  Advances
<1>1. /\ AboutAnswer(w) /\ mNextTask' = mNextTask + 1 /\ mQueue' = mQueue
      /\ \/ mNextTask < mQueue /\ mRes' = [rows EXCEPT ![mNextTask] = "sent"]
         \/ mNextTask >= mQueue /\ mRes' = rows
  BY DEF Hands, AboutAnswer
<1>2. mNextTask \in Nat /\ mQueue \in Nat /\ ExchangeInv
  BY DEF AregInv, ExchangeInv, MasterInv, MasterTypeOK
<1>3. Dispatched \subseteq Dispatched' /\ \A t \in Dispatched : t \in Nat /\ t < mNextTask /\ t < mQueue
  BY <1>1, <1>2 DEF Dispatched, Task
<1>4. \A t \in Dispatched' \ Dispatched : t = mNextTask /\ mNextTask < mQueue
  BY <1>1, <1>2 DEF Dispatched, Task
<1>5. \A t \in Dispatched' \ Dispatched : mRes'[t] # "timed"
  BY <1>1, <1>2, <1>4
<1>6. w \in WithTask' => Message(w).task_id' \notin Dispatched
  BY <1>2, <1>3, Handed
<1>7. \A t \in Dispatched : mRes'[t] = rows[t]
  BY <1>1, <1>2, <1>3
<1> QED BY <1>1, <1>3, <1>5, <1>6, <1>7, MasterAdvances DEF TimingsAttended

\* The row that a submission fills is that of a task its worker had, or no timing.
LEMMA StoredWasAttended ==
  ASSUME AregInv, NEW w \in Workers, Message(w).op = "SubmitTask", mQueue > 0
  PROVE  /\ Stored(Message(w)) \in [0 .. (mQueue - 1) -> RowStates]
         /\ TimingsAttended(Stored(Message(w)))
<1>1. ExchangeInv /\ mQueue \in Nat /\ mRes \in [0 .. (mQueue - 1) -> RowStates]
  BY DEF AregInv, ExchangeInv, MasterInv, MasterTypeOK
<1>2. Message(w) \in Request \cup Reply
  BY <1>1, MessageOf DEF Silence, ExchangeInv
<1>3. Message(w).task_id \in Nat /\ Message(w).real \in BOOLEAN
  BY <1>2, MessageKinds
<1>4. Stored(Message(w)) \in [0 .. (mQueue - 1) -> RowStates]
  BY <1>1, <1>3, StoredRows DEF ExchangeInv, MasterInv
<1>5. ASSUME NEW t \in Dispatched, Stored(Message(w))[t] = "timed", mRes[t] # "timed"
      PROVE  Attended(t)
  <2>1. t \in 0 .. (mQueue - 1)
    BY <1>1 DEF Dispatched, Task
  <2>2. t = Message(w).task_id /\ Message(w).real
    BY <1>1, <1>5, <2>1 DEF Stored
  <2> QED BY <2>2 DEF Attended, WithTask, Answering
<1> QED BY <1>4, <1>5 DEF TimingsAttended

\* The rows that a worker's last submission leaves without a timing.
LEMMA FewRowsMissing ==
  ASSUME AregInv, ExchangeInv', NEW w \in Workers, Ends(w), mQueue > 0
  PROVE  /\ Dispatched' = Task
         /\ Cardinality({t \in Task : mRes'[t] # "timed"}) <= Cardinality(Workers)
<1> DEFINE others == WithTask \ {w}
           rows == Stored(Message(w))
           missing == MissingIn(rows, others)
           untimed == {t \in Task : rows[t] # "timed"}
<1>1. /\ mQueue = NumTasks /\ mNextTask \in Nat /\ mCompleted \in Nat
      /\ ExchangeInv
  BY DEF AregInv, ExchangeInv, MasterInv, MasterTypeOK
<1>2. /\ mRes' = rows /\ LastCompletion /\ Message(w).op = "SubmitTask"
      /\ UNCHANGED <<mQueue, mNextTask>>
  BY <1>1 DEF Ends, AboutAnswer
<1>3. w \in Answering
  BY <1>2 DEF Answering
<1>4. mNextTask >= mQueue
  <2>1. Cardinality(Answering) # 0
    BY <1>3, FiniteSets, FS_EmptySet
  <2>2. PICK n \in Nat : n = Cardinality(Answering)
    BY FiniteSets
  <2>3. mNextTask - mCompleted - n \in 0 .. Cardinality(Silent)
    BY <2>2 DEF AregInv, LossesCounted
  <2>4. mNextTask - mCompleted - n >= 0
    BY <1>1, <2>3, FiniteSets
  <2> QED BY <1>1, <1>2, <2>1, <2>2, <2>4 DEF LastCompletion
<1>5. Dispatched = Task /\ Dispatched' = Task
  BY <1>1, <1>2, <1>4 DEF Dispatched, Task
<1>6. Fits(rows, others)
  BY <1>2, StoredFits
<1>7. rows \in [0 .. (mQueue - 1) -> RowStates]
  BY <1>2, StoredWasAttended
<1>8. untimed \subseteq missing \cup {0}
  <2>1. ASSUME NEW t \in Task, rows[t] # "timed", t # 0 PROVE rows[t] = "sent"
    <3>1. t \in 0 .. (mQueue - 1) /\ ~(t >= mNextTask)
      BY <1>1, <1>4 DEF Task
    <3>2. rows[t] # "blank" /\ rows[t] # "sentinel"
      BY <1>6, <2>1, <3>1 DEF Fits
    <3> QED BY <1>7, <2>1, <3>1, <3>2 DEF RowStates
  <2> QED BY <1>5, <2>1 DEF MissingIn
<1>9. Cardinality(others) + Cardinality(Silent) + 1 <= Cardinality(Workers)
  <2>1. others \cap Silent = {} /\ others \cup Silent \subseteq Workers \ {w}
    BY <1>3 DEF WithTask, Answering, Silent, Left, Silence
  <2>2. IsFiniteSet(others) /\ IsFiniteSet(Silent) /\ IsFiniteSet(Workers)
    BY FiniteSets, FS_Subset
  <2>3. Cardinality(others \cup Silent) = Cardinality(others) + Cardinality(Silent)
    <3> HIDE DEF others
    <3> QED BY <2>1, <2>2, DisjointSizes
  <2>4. /\ IsFiniteSet(Workers \ {w})
        /\ Cardinality(Workers \ {w}) = Cardinality(Workers) - 1
    BY <2>2, FS_RemoveElement
  <2>5. Cardinality(others \cup Silent) <= Cardinality(Workers \ {w})
    <3> HIDE DEF others
    <3> QED BY <2>1, <2>4, FS_Subset
  <2>6. /\ Cardinality(others) \in Nat /\ Cardinality(Silent) \in Nat
        /\ Cardinality(Workers) \in Nat
    BY <2>2, FS_CardinalityType
  <2> HIDE DEF others
  <2> QED BY <2>3, <2>4, <2>5, <2>6
<1>10. Cardinality(untimed) <= Cardinality(missing) + 1
  <2>1. IsFiniteSet(missing)
    BY FiniteSets
  <2> HIDE DEF missing, rows, untimed
  <2>2. /\ IsFiniteSet(missing \cup {0}) /\ Cardinality(missing \cup {0}) \in Nat
        /\ Cardinality(missing \cup {0}) <= Cardinality(missing) + 1
    BY <2>1, OneMore
  <2>3. /\ Cardinality(untimed) \in Nat
        /\ Cardinality(untimed) <= Cardinality(missing \cup {0})
    BY <1>8, <2>2, FS_Subset, FS_CardinalityType
  <2>4. Cardinality(missing) \in Nat
    BY <2>1, FS_CardinalityType
  <2> QED BY <2>2, <2>3, <2>4
<1>11. Cardinality(missing) <= Cardinality(others) + Cardinality(Silent)
  BY <1>6 DEF Fits
<1>12. /\ Cardinality(missing) \in Nat /\ Cardinality(others) \in Nat
       /\ Cardinality(Silent) \in Nat /\ Cardinality(Workers) \in Nat
       /\ Cardinality(untimed) \in Nat
  <2>1. IsFiniteSet(others) /\ IsFiniteSet(missing) /\ IsFiniteSet(Workers)
    BY FiniteSets, FS_Subset
  <2>2. IsFiniteSet(untimed)
    <3>1. IsFiniteSet(Task) /\ untimed \subseteq Task
      BY FS_Interval DEF Task
    <3> HIDE DEF untimed
    <3> QED BY <3>1, FS_Subset
  <2> QED BY <2>1, <2>2, FiniteSets, FS_CardinalityType
<1>13. {t \in Task : mRes'[t] # "timed"} = untimed
  BY <1>2
<1>14. Cardinality(untimed) <= Cardinality(Workers)
  <2> HIDE DEF others, missing, rows, untimed
  <2> QED BY <1>9, <1>10, <1>11, <1>12
<1> QED BY <1>5, <1>13, <1>14

\* Initially every task is queued and nothing is reported.
LEMMA InitEarly == Init => Abstract!Init
<1> SUFFICES ASSUME Init PROVE Abstract!Init
  OBVIOUS
<1>1. mQueue = 0 /\ mNextTask = 0 /\ csv = NoCsv
  BY DEF Init, MasterInit
<1>2. \A t \in Task : t >= mQueue
  BY <1>1 DEF Task
<1>3. \A t \in Task : TaskState(t) = "queued"
  BY <1>2 DEF TaskState
<1> QED BY <1>1, <1>3 DEF Abstract!Init

\* The report of the master.
Published == mQueue > 0 /\ csv # NoCsv
Reported == IF csv = NoCsv THEN {} ELSE {t \in DOMAIN csv : csv[t] = "timed"}

\* Tasks advance in every step, and the report is left alone unless the last submission
\* writes one.
LEMMA StepAdvances ==
  ASSUME AregInv, AregInv', [Next]_vars
  PROVE  /\ Advances
         /\ \/ UNCHANGED <<Published, Reported>>
            \/ \E w \in Workers : Ends(w) /\ mQueue > 0 /\ csv' = mRes'
<1>1. /\ ExchangeInv /\ ExchangeInv'
      /\ Quiet \/ Starts \/ \E w \in Workers : Asks(w) \/ Continues(w) \/ Ends(w)
  BY Steps DEF AregInv
<1>2. CASE Quiet
  <2>1. UNCHANGED <<Published, Reported>>
    BY <1>2 DEF Quiet, Published, Reported
  <2> QED BY <1>1, <1>2, <2>1, QuietAdvances
<1>3. CASE Starts
  <2>1. UNCHANGED <<Published, Reported>>
    BY <1>3 DEF Starts, Published, Reported
  <2>2. mNextTask = 0 /\ mNextTask' = 0
    BY <1>3 DEF Starts
  <2>3. Dispatched = {} /\ Dispatched' = {}
    BY <2>2 DEF Dispatched, Task
  <2>4. StateByMessages /\ StateByMessages'
    BY <1>1, StateOfTask, StateOfTaskNext
  <2>5. Advances
    BY <2>3, <2>4 DEF Advances, StateByMessages
  <2> QED BY <2>1, <2>5
<1>4. ASSUME NEW w \in Workers, Asks(w)
      PROVE  Advances /\ UNCHANGED <<Published, Reported>>
  <2>1. Hands(w, mRes)
    BY <1>4 DEF Asks
  <2>2. UNCHANGED <<Published, Reported>>
    BY <2>1 DEF Hands, AboutAnswer, Published, Reported
  <2>3. PICK rows \in [0 .. (mQueue - 1) -> RowStates] : rows = mRes
    BY <1>1 DEF ExchangeInv, MasterInv, MasterTypeOK
  <2>4. Hands(w, rows) /\ TimingsAttended(rows)
    BY <2>1, <2>3 DEF TimingsAttended
  <2> QED BY <2>2, <2>4, HandsAdvances
<1>5. ASSUME NEW w \in Workers, Continues(w)
      PROVE  Advances /\ UNCHANGED <<Published, Reported>>
  <2>1. Hands(w, Stored(Message(w))) /\ Message(w).op = "SubmitTask" /\ mQueue > 0
    BY <1>5 DEF Continues
  <2>2. UNCHANGED <<Published, Reported>>
    BY <2>1 DEF Hands, AboutAnswer, Published, Reported
  <2>3. PICK rows \in [0 .. (mQueue - 1) -> RowStates] :
          /\ rows = Stored(Message(w))
          /\ TimingsAttended(rows)
    BY <2>1, StoredWasAttended
  <2>4. Hands(w, rows)
    BY <2>1, <2>3
  <2>5. Advances
    BY <2>3, <2>4, HandsAdvances
  <2> QED BY <2>2, <2>5
<1>6. ASSUME NEW w \in Workers, Ends(w)
      PROVE  /\ Advances
             /\ UNCHANGED <<Published, Reported>> \/ (mQueue > 0 /\ csv' = mRes')
  <2>1. /\ AboutAnswer(w) /\ UNCHANGED <<mQueue, mNextTask>> /\ Message(w).op = "SubmitTask"
        /\ \/ mQueue > 0 /\ mRes' = Stored(Message(w)) /\ (csv' = mRes' \/ UNCHANGED csv)
           \/ mQueue = 0 /\ UNCHANGED <<mRes, csv>>
    BY <1>6 DEF Ends, AboutAnswer
  <2>2. Dispatched' = Dispatched
    BY <2>1 DEF Dispatched
  <2>3. w \notin WithTask'
    BY <1>6 DEF Ends, WithTask, Answering, Silence
  <2>4. \A t \in Dispatched : mRes'[t] = "timed" => mRes[t] = "timed" \/ Attended(t)
    BY <2>1, StoredWasAttended DEF TimingsAttended
  <2>5. Advances
    BY <2>1, <2>2, <2>3, <2>4, MasterAdvances
  <2>6. UNCHANGED csv => UNCHANGED <<Published, Reported>>
    BY <2>1 DEF Published, Reported
  <2> QED BY <2>1, <2>5, <2>6
<1> QED BY <1>1, <1>2, <1>3, <1>4, <1>5, <1>6

\* A report of the rows is early: every task was handed out, and it lacks one row per
\* worker at most.
LEMMA EndPublishes ==
  ASSUME AregInv, AregInv', NEW w \in Workers, Ends(w), mQueue > 0, csv' = mRes'
  PROVE  /\ Published'
         /\ \A t \in Task : TaskState(t)' # "queued"
         /\ Reported' = {t \in Task : TaskState(t)' = "recorded"}
         /\ Cardinality(Task \ Reported') <= Cardinality(Workers)
<1>1. /\ ExchangeInv /\ ExchangeInv' /\ mQueue' = mQueue /\ mQueue = NumTasks
      /\ mRes' \in [0 .. (mQueue' - 1) -> RowStates]
  BY DEF AregInv, ExchangeInv, MasterInv, MasterTypeOK, Ends, AboutAnswer
<1>2. DOMAIN csv' = Task
  BY <1>1 DEF Task
<1>3. csv' # NoCsv
  <2>1. 0 \in Task /\ DOMAIN NoCsv = 1 .. 1
    BY DEF Task, NoCsv
  <2> QED BY <1>2, <2>1
<1>4. /\ Dispatched' = Task
      /\ Cardinality({t \in Task : mRes'[t] # "timed"}) <= Cardinality(Workers)
  BY <1>1, FewRowsMissing
<1>5. StateByMessages'
  BY <1>1, StateOfTaskNext
<1>6. \A t \in Task :
        /\ TaskState(t)' # "queued"
        /\ TaskState(t)' = "recorded" <=> mRes'[t] = "timed"
  BY <1>4, <1>5 DEF StateByMessages
<1>7. Reported' = {t \in Task : mRes'[t] = "timed"}
  BY <1>2, <1>3 DEF Reported
<1>8. Task \ Reported' = {t \in Task : mRes'[t] # "timed"}
  BY <1>7
<1>9. Published'
  BY <1>1, <1>3 DEF Published
<1>10. Reported' = {t \in Task : TaskState(t)' = "recorded"}
  BY <1>6, <1>7
<1>11. Cardinality(Task \ Reported') <= Cardinality(Workers)
  BY <1>4, <1>8
<1>12. \A t \in Task : TaskState(t)' # "queued"
  BY <1>6
<1> QED BY <1>9, <1>10, <1>11, <1>12

\* The instance counts as this module does.
LEMMA SameCardinality ==
  ASSUME NEW S
  PROVE  Abstract!Cardinality(S) = Cardinality(S)
BY DEF Abstract!Cardinality, Cardinality

\* Every step is one of the early distribution.
LEMMA StepEarly ==
  ASSUME AregInv, AregInv', [Next]_vars
  PROVE  Abstract!EarlyNext
<1> DEFINE states == [t \in Task |-> TaskState(t)]
<1>1. /\ Advances
      /\ \/ UNCHANGED <<Published, Reported>>
         \/ \E w \in Workers : Ends(w) /\ mQueue > 0 /\ csv' = mRes'
  BY StepAdvances
<1>2. Abstract!Advance
  <2>1. \A t \in Task : TaskState(t)' \in Abstract!TaskStates
    BY StateOfTaskNext DEF AregInv, StateByMessages, Abstract!TaskStates
  <2> QED BY <1>1, <2>1 DEF Abstract!Advance, Advances
<1>3. ASSUME NEW w \in Workers, Ends(w), mQueue > 0, csv' = mRes'
      PROVE  Abstract!PublishEarly
  <2>1. /\ Published'
        /\ \A t \in Task : TaskState(t)' # "queued"
        /\ Reported' = {t \in Task : TaskState(t)' = "recorded"}
        /\ Cardinality(Task \ Reported') <= Cardinality(Workers)
    BY <1>3, EndPublishes
  <2>2. Abstract!Cardinality(Task \ Reported') <= Cardinality(Workers)
    BY <2>1, SameCardinality
  <2>3. Abstract!Recorded' = {t \in Task : TaskState(t)' = "recorded"}
    BY DEF Abstract!Recorded
  <2> QED BY <2>1, <2>2, <2>3 DEF Abstract!PublishEarly, Published, Reported
<1> QED BY <1>1, <1>2, <1>3 DEF Abstract!EarlyNext, Published, Reported

(***************************************************************************)
(* The AREG master distributes the tasks as EarlyDistribution allows:      *)
(* every task moves on only, to one worker, is timed or lost, and a CSV is *)
(* written only when the last was handed out, and lacks a row of timings   *)
(* per worker at most (MasterComponent.cpp:58-75, 89-130) - for any        *)
(* workers, processes, losses and task files.                              *)
(***************************************************************************)
THEOREM ImplementsEarly == Spec => ImplementsEarlyDistribution
<1>1. AregInv /\ [Next]_vars => AregInv'
  BY AregInductive
<1>2. AregInv /\ AregInv' /\ [Next]_vars => [Abstract!EarlyNext]_(Abstract!abstractVars)
  BY StepEarly
<1> QED
  BY <1>1, <1>2, AregInitially, InitEarly, PTL
  DEF Spec, ImplementsEarlyDistribution, Abstract!EarlySpec
=============================================================================
