----------------------------- MODULE TimingProofs -----------------------------
(***************************************************************************)
(* What the metrics measure and what is sent, proved for every set of      *)
(* tasks, every duration of the activities, every difference of the clocks *)
(* and whatever the machine's /proc has.                                   *)
(***************************************************************************)
EXTENDS TaskTiming, FoldProofs, TLAPS

Stages == {"idle", "sent", "received", "worked", "filled", "submitted", "recorded"}

TimingTypeOK ==
  /\ transport \in {"grpc", "areg"}
  /\ offset \in Int
  /\ now \in Nat /\ ts_srv_snd \in Nat
  /\ pc \in Stages
  /\ spent \in [Activities -> Nat]
  /\ DOMAIN message = DOMAIN Blank
  /\ message = [f \in DOMAIN Blank |-> message[f]]

\* The master's reading and what was spent since give the time.
Since(s) == now = ts_srv_snd + s

\* Up to the stage at hand, the readings in the message differ from the clock of the
\* worker by what was spent since they were taken.
ReadingsSoFar ==
  /\ pc = "sent" => Since(0)
  /\ pc = "received" =>
       /\ Since(spent.srv2cli)
       /\ message.ts_rec = now + offset
  /\ pc = "worked" =>
       /\ Since(spent.srv2cli + spent.work)
       /\ message.ts_tsk = now + offset
       /\ message.ts_rec = now + offset - spent.work
  /\ pc \in {"filled", "submitted"} =>
       /\ Since(spent.srv2cli + spent.work + spent.proc)
       /\ message.ts_tsk = now + offset - spent.proc
       /\ message.ts_rec = now + offset - spent.proc - spent.work
       /\ message.ts_snd = IF transport = "areg" THEN now + offset
                           ELSE now + offset - spent.proc

TimingInv ==
  /\ TimingTypeOK
  /\ task # Sentinel => ReadingsSoFar
  /\ MetricsMeasure

-----------------------------------------------------------------------------
\* No task is under way at the start.
LEMMA TimingInit == Init => TimingInv
  BY TimingAssumption
  DEF Init, TimingInv, TimingTypeOK, ReadingsSoFar, MetricsMeasure, RowOfTask,
      Activities, Stages, Blank

\* An activity moves the clock by what is remembered of it, and nothing else.
LEMMA TakesTime ==
  ASSUME TimingTypeOK, NEW a \in Activities, Takes(a)
  PROVE  /\ now' \in Nat /\ spent' \in [Activities -> Nat]
         /\ now' = now + spent'[a]
         /\ \A b \in Activities \ {a} : spent'[b] = spent[b]
  BY TimingAssumption DEF Takes, TimingTypeOK

\* Every statement of either program keeps the readings where the clock puts them.
LEMMA TimingStep == TimingInv /\ [Next]_vars => TimingInv'
<1> SUFFICES ASSUME TimingInv, [Next]_vars PROVE TimingInv'
  OBVIOUS
<1> USE DEF TimingInv, TimingTypeOK, Stages
<1>1. ASSUME NEW t \in Tasks, SendTask(t) PROVE TimingInv'
  BY <1>1, TimingAssumption
  DEF SendTask, Goes, srv_ts, ReadingsSoFar, Since, MetricsMeasure, RowOfTask
<1>2. CASE ReceiveTask
  <2> "srv2cli" \in Activities /\ Takes("srv2cli")
    BY <1>2 DEF ReceiveTask, Activities
  <2> QED
    BY <1>2, TakesTime
    DEF ReceiveTask, Goes, cli_ts, ReadingsSoFar, Since, MetricsMeasure, RowOfTask,
        Activities, Blank
<1>3. CASE Work
  <2> "work" \in Activities /\ Takes("work")
    BY <1>3 DEF Work, Activities
  <2> QED
    BY <1>3, TakesTime
    DEF Work, Goes, cli_ts, ReadingsSoFar, Since, MetricsMeasure, RowOfTask,
        Activities, Blank
<1>4. CASE Fill
  <2>1. "proc" \in Activities /\ Takes("proc")
    BY <1>4 DEF Fill, Activities
  <2>2. /\ now' \in Nat /\ spent' \in [Activities -> Nat]
        /\ now' = now + spent'.proc
        /\ spent'.srv2cli = spent.srv2cli /\ spent'.work = spent.work
    BY <2>1, TakesTime DEF Activities
  <2>3. /\ pc = "worked" /\ pc' = "filled"
        /\ UNCHANGED <<transport, offset, task, ts_srv_snd>>
    BY <1>4 DEF Fill, Goes
  <2>4. PICK at \in {cli_ts, now + offset} :
          /\ at = IF transport = "areg" THEN cli_ts ELSE now + offset
          /\ ReadProc(at)
    BY <1>4 DEF Fill, FillGrpc, FillAreg
  <2>5. /\ DOMAIN message' = DOMAIN Blank
        /\ message' = [f \in DOMAIN Blank |-> message'[f]]
        /\ message'.ts_snd = at
        /\ message'.ts_rec = message.ts_rec /\ message'.ts_tsk = message.ts_tsk
    <3> DEFINE ram == get_ram_used_kb(machine'.meminfo)
               cpu == get_cpu_usage_percent(machine'.stat)
    <3>1. message' = [message EXCEPT !.ts_snd = at, !.ram_used_kb = ram,
                                     !.cpu_usage_percent = cpu]
      BY <2>4 DEF ReadProc
    <3> HIDE DEF ram, cpu
    <3> QED
      BY <3>1 DEF Blank
  <2>6. TimingTypeOK'
    BY <2>2, <2>3, <2>5
  <2>7. task' # Sentinel => ReadingsSoFar'
    BY <2>2, <2>3, <2>4, <2>5 DEF ReadingsSoFar, Since, cli_ts, Activities
  <2>8. MetricsMeasure'
    BY <2>3 DEF MetricsMeasure, RowOfTask
  <2> QED
    BY <2>6, <2>7, <2>8
<1>5. CASE Submit
  BY <1>5 DEF Submit, Goes, ReadingsSoFar, Since, MetricsMeasure, RowOfTask, Blank
<1>6. CASE ReceiveResult
  <2> "cli2srv" \in Activities /\ Takes("cli2srv")
    BY <1>6 DEF ReceiveResult, Activities
  <2> QED
    BY <1>6, TakesTime
    DEF ReceiveResult, TaskRecord, Goes, srv_ts, ReadingsSoFar, Since, MetricsMeasure,
        RowOfTask, ttl, cli_ser, cli_compute, net_srv2cli, net_cli2srv, Activities
<1>7. CASE RecordCsv
  BY <1>7, TimingAssumption
  DEF RecordCsv, Goes, ReadingsSoFar, MetricsMeasure, RowOfTask, Activities, Blank
<1>8. CASE UNCHANGED vars
  BY <1>8 DEF vars, ReadingsSoFar, Since, MetricsMeasure, RowOfTask
<1> QED
  BY <1>1, <1>2, <1>3, <1>4, <1>5, <1>6, <1>7, <1>8 DEF Next

(***************************************************************************)
(* Whatever the tasks, the durations and the difference of the clocks, each*)
(* metric of analyze.py:31-40 is the sum of activities that MetricsMeasure *)
(* says: the difference of the clocks enters those of the network only.    *)
(***************************************************************************)
THEOREM MetricsAlwaysMeasure == Spec => []MetricsMeasure
<1>1. TimingInv => MetricsMeasure
  BY DEF TimingInv
<1> QED
  BY <1>1, TimingInit, TimingStep, PTL DEF Spec

-----------------------------------------------------------------------------
\* The product of the task at hand as the loops compute it in an empty buffer.
OwnProduct == multiply(task, NoValues)

\* The buffer of an AREG worker is empty when a task comes, and no buffer holds anything
\* of an earlier task when it is sent.
BufferInv ==
  /\ TimingTypeOK
  /\ pc # "idle" => task \in Tasks
  /\ transport = "areg" /\ pc \notin {"worked", "filled"} => buff = NoValues
  /\ pc \in {"worked", "filled"} => buff = OwnProduct
  /\ pc \in {"submitted", "recorded"} => message.result = OwnProduct

\* A step leaves the buffer to the next task as it found it.
LEMMA BufferStep == TimingInv /\ BufferInv /\ [Next]_vars => BufferInv'
<1> SUFFICES ASSUME TimingInv, BufferInv, [Next]_vars PROVE BufferInv'
  OBVIOUS
<1>0. TimingTypeOK'
  BY TimingStep DEF TimingInv
<1> USE <1>0 DEF BufferInv, OwnProduct, Goes
<1>1. ASSUME NEW t \in Tasks, SendTask(t) PROVE BufferInv'
  BY <1>1 DEF SendTask
<1>2. CASE ReceiveTask
  BY <1>2 DEF ReceiveTask
<1>3. CASE Work
  BY <1>3 DEF Work, WorkGrpc, WorkAreg
<1>4. CASE Fill
  BY <1>4 DEF Fill
<1>5. CASE Submit
  <2>1. message' = [message EXCEPT !.result = buff] /\ "result" \in DOMAIN message
    BY <1>5 DEF Submit, TimingTypeOK, Blank
  <2>2. message'.result = buff
    BY <2>1
  <2> QED
    BY <1>5, <2>2 DEF Submit, TimingTypeOK
<1>6. CASE ReceiveResult
  BY <1>6 DEF ReceiveResult
<1>7. CASE RecordCsv
  BY <1>7 DEF RecordCsv
<1>8. CASE UNCHANGED vars
  BY <1>8 DEF vars
<1> QED
  BY <1>1, <1>2, <1>3, <1>4, <1>5, <1>6, <1>7, <1>8 DEF Next

\* Whatever was computed before in the same buffer, the result that is sent is what the
\* loops make of this task alone.
ResultOfTaskAlone ==
  pc \in {"submitted", "recorded"} => task \in Tasks /\ message.result = OwnProduct

\* The buffers of both workers are cleared in time (client.cpp:76, 107,
\* WorkerComponent.cpp:65).
THEOREM BufferNeverLeaks == Spec => []ResultOfTaskAlone
<1>1. Init => BufferInv
  BY TimingInit DEF Init, TimingInv, BufferInv
<1>2. BufferInv => ResultOfTaskAlone
  BY DEF BufferInv, ResultOfTaskAlone
<1> QED
  BY <1>1, <1>2, TimingInit, TimingStep, BufferStep, PTL DEF Spec
-----------------------------------------------------------------------------
\* What is added up for position p of the product.
Column(t, p, l) == t.a[(p \div t.k) * t.m + l] * t.b[l * t.k + (p % t.k)]
Columns(t, p) == [l \in 0 .. (t.m - 1) |-> Column(t, p, l)]

\* Row p \div k and column p % k of position p.
LEMMA Position ==
  ASSUME NEW n \in Nat, NEW k \in Nat, NEW p \in 0 .. (n * k - 1)
  PROVE  /\ p \div k \in 0 .. (n - 1) /\ p % k \in 0 .. (k - 1)
         /\ p = (p \div k) * k + (p % k)
<1>1. k > 0
  <2>1. k = 0 => n * k = 0
    OBVIOUS
  <2> QED BY <2>1
<1>a. p \in Nat /\ k \in Nat \ {0}
  BY <1>1
<1>b. p \div k \in Int
  BY <1>a
<1>c. p % k \in 0 .. (k - 1)
  BY <1>a
<1>d. p = k * (p \div k) + (p % k)
  BY <1>a
<1>e. p \div k >= 0
  BY <1>a
<1>2. p \div k \in Nat /\ p % k \in 0 .. (k - 1) /\ p = k * (p \div k) + (p % k)
  BY <1>b, <1>c, <1>d, <1>e
<1>3. k * (p \div k) = (p \div k) * k
  BY <1>2
<1>4. p \div k < n
  <2> DEFINE d == p \div k
  <2>1. d \in Nat /\ d * k <= p
    BY <1>2, <1>3
  <2> HIDE DEF d
  <2>2. ASSUME d >= n PROVE FALSE
    <3>1. d * k >= n * k
      BY <1>1, <2>1, <2>2
    <3>2. n * k \in Int /\ d * k \in Int
      BY <2>1
    <3> QED BY <2>1, <3>1, <3>2
  <2> QED BY <2>1, <2>2 DEF d
<1> QED BY <1>2, <1>3, <1>4

\* The position of row i and column j.
LEMMA PositionOf ==
  ASSUME NEW n \in Nat, NEW k \in Nat, NEW i \in 0 .. (n - 1), NEW j \in 0 .. (k - 1)
  PROVE  /\ i * k + j \in 0 .. (n * k - 1)
         /\ (i * k + j) \div k = i /\ (i * k + j) % k = j
<1>1. k > 0 /\ i \in Nat /\ j \in Nat /\ n \in Nat /\ i + 1 <= n
  OBVIOUS
<1>2. i * k \in Nat /\ n * k \in Nat
  BY <1>1
<1>3. (i + 1) * k <= n * k /\ (i + 1) * k = i * k + k
  BY <1>1
<1>4. (i * k + j) \div k = i /\ (i * k + j) % k = j
  BY <1>1, <1>2
<1> QED BY <1>1, <1>2, <1>3, <1>4

\* The rounds of the three loops, what may be in the buffer, and what a round does to it.
Triples(t) == (0 .. (t.n - 1)) \X (0 .. (t.m - 1)) \X (0 .. (t.k - 1))
Buffers(t) == Values(t.n * t.k)
Added(t, x, sum) ==
  [sum EXCEPT ![x[1] * t.k + x[3]] =
     @ + t.a[x[1] * t.m + x[2]] * t.b[x[2] * t.k + x[3]]]
Zeros(t) == Resized(NoValues, t.n * t.k)

\* The same, of the result of a task.
LEMMA EntryOf ==
  ASSUME NEW t, IsTask(t), NEW i \in 0 .. (t.n - 1), NEW j \in 0 .. (t.k - 1)
  PROVE  /\ i * t.k + j \in 0 .. (t.n * t.k - 1)
         /\ (i * t.k + j) \div t.k = i /\ (i * t.k + j) % t.k = j
<1> DEFINE n == t.n
           k == t.k
<1>1. n \in Nat /\ k \in Nat /\ i \in 0 .. (n - 1) /\ j \in 0 .. (k - 1)
  BY DEF IsTask
<1> HIDE DEF n, k
<1>2. i * k + j \in 0 .. (n * k - 1) /\ (i * k + j) \div k = i /\ (i * k + j) % k = j
  BY ONLY <1>1, PositionOf
<1> QED BY <1>2 DEF n, k

\* What is multiplied are integers.
LEMMA ValuesAt ==
  ASSUME NEW t, IsTask(t),
         NEW i \in 0 .. (t.n - 1), NEW l \in 0 .. (t.m - 1), NEW j \in 0 .. (t.k - 1)
  PROVE  t.a[i * t.m + l] * t.b[l * t.k + j] \in Int
<1>1. i * t.m + l \in 0 .. (t.n * t.m - 1) /\ l * t.k + j \in 0 .. (t.m * t.k - 1)
  BY PositionOf DEF IsTask
<1>2. t.a[i * t.m + l] \in Int /\ t.b[l * t.k + j] \in Int
  BY <1>1 DEF IsTask, Values
<1> QED BY <1>2

\* Each loop ends.
LEMMA PositionsFinite ==
  ASSUME NEW t, IsTask(t)
  PROVE  /\ IsFiniteSet(0 .. (t.n - 1)) /\ IsFiniteSet(0 .. (t.m - 1))
         /\ IsFiniteSet(0 .. (t.k - 1))
<1>1. 0 \in Int /\ t.n - 1 \in Int /\ t.m - 1 \in Int /\ t.k - 1 \in Int
  BY DEF IsTask
<1> QED BY <1>1, FS_Interval

\* So do the three, one in the other.
LEMMA TriplesFinite ==
  ASSUME NEW t, IsTask(t)
  PROVE  IsFiniteSet(Triples(t))
<1>1. /\ IsFiniteSet(0 .. (t.n - 1)) /\ IsFiniteSet(0 .. (t.m - 1)) /\ IsFiniteSet(0 .. (t.k - 1))
  BY PositionsFinite
<1>2. IsFiniteSet((0 .. (t.n - 1)) \X ((0 .. (t.m - 1)) \X (0 .. (t.k - 1))))
  BY <1>1, FS_Product
<1> DEFINE P == (0 .. (t.n - 1)) \X ((0 .. (t.m - 1)) \X (0 .. (t.k - 1)))
           f == [q \in P |-> <<q[1], q[2][1], q[2][2]>>]
<1>3. f \in Surjection(P, Triples(t))
  <2>1. f \in [P -> Triples(t)]
    BY DEF Triples
  <2>2. ASSUME NEW x \in Triples(t) PROVE \E q \in P : f[q] = x
    <3>1. <<x[1], <<x[2], x[3]>>>> \in P /\ x = <<x[1], x[2], x[3]>>
      BY DEF Triples
    <3>2. f[<<x[1], <<x[2], x[3]>>>>] = x
      BY <3>1
    <3> QED BY <3>1, <3>2
  <2> QED BY <2>1, <2>2 DEF Surjection
<1> HIDE DEF P, f
<1> QED BY <1>2, <1>3, FS_Surjection DEF P

\* A round leaves integers in the buffer.
LEMMA AddedTyped ==
  ASSUME NEW t, IsTask(t), NEW x \in Triples(t), NEW v \in Buffers(t)
  PROVE  Added(t, x, v) \in Buffers(t)
<1>1. PICK i \in 0 .. (t.n - 1), l \in 0 .. (t.m - 1), j \in 0 .. (t.k - 1) : x = <<i, l, j>>
  BY DEF Triples
<1>2. i * t.k + j \in 0 .. (t.n * t.k - 1)
  BY EntryOf
<1>3. t.a[i * t.m + l] * t.b[l * t.k + j] \in Int
  BY ValuesAt
<1>4. v[i * t.k + j] \in Int
  BY <1>2 DEF Buffers, Values
<1>5. v[i * t.k + j] + t.a[i * t.m + l] * t.b[l * t.k + j] \in Int
  BY <1>3, <1>4
<1>6. Added(t, x, v) =
        [v EXCEPT ![i * t.k + j] = v[i * t.k + j] + t.a[i * t.m + l] * t.b[l * t.k + j]]
  BY <1>1 DEF Added
<1> QED BY <1>5, <1>6 DEF Buffers, Values

\* M is what the buffer has after any set of rounds.
Loops(M, t) ==
  /\ M \in [SUBSET Triples(t) -> Buffers(t)]
  /\ M[{}] = Zeros(t)
  /\ \A s \in SUBSET Triples(t) :
       s # {} => M[s] = Added(t, First(s), M[s \ {First(s)}])

\* multiply is what the buffer has after all of them.
LEMMA MultiplyFolds ==
  ASSUME NEW t, IsTask(t)
  PROVE  \E M : Loops(M, t) /\ multiply(t, NoValues) = M[Triples(t)]
<1> DEFINE S == Triples(t)
           F == [xv \in S \X Buffers(t) |-> Added(t, xv[1], xv[2])]
           Iter(g) == g = [s \in SUBSET S |-> IF s = {} THEN Resized(NoValues, t.n * t.k)
                             ELSE Added(t, CHOOSE x \in s : TRUE, g[s \ {CHOOSE x \in s : TRUE}])]
           G == CHOOSE g : Iter(g)
<1>1. F \in [S \X Buffers(t) -> Buffers(t)]
  BY AddedTyped
<1>2. Zeros(t) \in Buffers(t)
  BY DEF Zeros, Resized, NoValues, Buffers, Values
<1>3. PICK g \in [SUBSET S -> Buffers(t)] : FoldOf(g, F, Zeros(t), Firsts(S), S)
  <2>1. IsFiniteSet(S)
    BY TriplesFinite
  <2>2. \E g \in [SUBSET S -> Buffers(t)] : FoldOf(g, F, Zeros(t), Firsts(S), S)
    <3> DEFINE V == Buffers(t)
               base == Zeros(t)
    <3>1. base \in V /\ F \in [S \X V -> V]
      BY <1>1, <1>2
    <3> HIDE DEF S, F, V, base
    <3>2. \E g \in [SUBSET S -> V] : FoldOf(g, F, base, Firsts(S), S)
      BY <2>1, <3>1, FirstPicks, FoldExists
    <3> QED BY <3>2 DEF V, base
  <2> QED BY <2>2
<1>4. \A x \in S, v \in Buffers(t) : F[<<x, v>>] = Added(t, x, v)
  OBVIOUS
<1>5. \A s \in SUBSET S : s # {} => First(s) \in S
  BY DEF First
<1> HIDE DEF F, S
<1>6. Iter(g)
  <2>1. ASSUME NEW s \in SUBSET S, s # {}
        PROVE  F[<<First(s), g[s \ {First(s)}]>>] = Added(t, First(s), g[s \ {First(s)}])
    <3>1. s \ {First(s)} \in SUBSET S
      OBVIOUS
    <3>2. g[s \ {First(s)}] \in Buffers(t)
      BY <1>3, <3>1
    <3> QED BY <1>4, <1>5, <2>1, <3>2
  <2>2. [s \in SUBSET S |-> IF s = {} THEN Zeros(t) ELSE F[<<Firsts(S)[s], g[s \ {Firsts(S)[s]}]>>]]
        = [s \in SUBSET S |-> IF s = {} THEN Zeros(t) ELSE Added(t, First(s), g[s \ {First(s)}])]
    BY <2>1 DEF Firsts
  <2> QED BY <1>3, <2>2 DEF FoldOf, First, Zeros
<1>7. Iter(G)
  <2>1. \E y : Iter(y)
    BY <1>6
  <2> HIDE DEF Iter
  <2> QED BY <2>1
<1>8. multiply(t, NoValues) = G[S]
  BY DEF multiply, FoldSet, MapThenFoldSet, Added, S, Triples
<1>9. G[{}] = Zeros(t) /\ \A s \in SUBSET S : s # {} => G[s] = Added(t, First(s), G[s \ {First(s)}])
  <2> HIDE DEF G
  <2> QED BY <1>7 DEF First, Zeros
<1>10. \A s \in SUBSET S : G[s] \in Buffers(t)
  <2> DEFINE V == Buffers(t)
  <2> HIDE DEF G
  <2>1. ASSUME NEW s \in SUBSET S, s # {}, G[s \ {First(s)}] \in V PROVE G[s] \in V
    BY <1>5, <1>9, <2>1, AddedTyped DEF S
  <2>2. G[{}] \in V /\ IsFiniteSet(S)
    BY <1>2, <1>9, TriplesFinite DEF S
  <2> HIDE DEF V
  <2>3. \A s \in SUBSET S : G[s] \in V
    BY <2>1, <2>2, FirstTyped
  <2> QED BY <2>3 DEF V
<1>11. G = [s \in SUBSET S |-> G[s]]
  <2> HIDE DEF G
  <2> QED BY <1>7
<1>12. G \in [SUBSET S -> Buffers(t)]
  <2> HIDE DEF G
  <2> QED BY <1>10, <1>11
<1>13. Loops(G, t)
  <2> HIDE DEF G
  <2> QED BY <1>9, <1>12 DEF S, Loops
<1> HIDE DEF G
<1> QED BY <1>8, <1>13 DEF S

\* The products of the reference are integers.
LEMMA ColumnsTyped ==
  ASSUME NEW t, IsTask(t), NEW p \in 0 .. (t.n * t.k - 1)
  PROVE  Columns(t, p) \in [0 .. (t.m - 1) -> Int]
<1>1. p \div t.k \in 0 .. (t.n - 1) /\ p % t.k \in 0 .. (t.k - 1)
  BY Position DEF IsTask
<1> QED BY <1>1, ValuesAt DEF Columns, Column

\* The reference adds them up.
LEMMA ProductSums ==
  ASSUME NEW t, IsTask(t), NEW p \in 0 .. (t.n * t.k - 1)
  PROVE  \E g : Adds(g, Columns(t, p), 0 .. (t.m - 1)) /\ Product(t)[p] = g[0 .. (t.m - 1)]
<1> DEFINE S == 0 .. (t.m - 1)
           Iter(g) == g = [s \in SUBSET S |-> IF s = {} THEN 0
                             ELSE Column(t, p, CHOOSE x \in s : TRUE) + g[s \ {CHOOSE x \in s : TRUE}]]
           G == CHOOSE g : Iter(g)
<1>1. \A g : SumOf(g, Columns(t, p), S) <=> Iter(g)
  <2> SUFFICES ASSUME NEW g PROVE SumOf(g, Columns(t, p), S) <=> Iter(g)
    OBVIOUS
  <2>1. \A s \in SUBSET S : s # {} => Columns(t, p)[First(s)] = Column(t, p, CHOOSE x \in s : TRUE)
    BY DEF Columns, First
  <2> QED BY ONLY <2>1 DEF SumOf, First
<1>2. Iter(G)
  <2>1. IsFiniteSet(S) /\ Columns(t, p) \in [S -> Int]
    BY PositionsFinite, ColumnsTyped
  <2>2. \E g \in [SUBSET S -> Int] : SumOf(g, Columns(t, p), S)
    <3> HIDE DEF S
    <3> QED BY <2>1, SumExists DEF S
  <2> HIDE DEF Iter, S
  <2>3. \E g : Iter(g)
    BY <1>1, <2>2
  <2> QED BY <2>3
<1>3. Product(t)[p] = G[S]
  BY DEF Product, MapThenSumSet, MapThenFoldSet, Column
<1>4. Adds(G, Columns(t, p), S)
  <2>1. IsFiniteSet(S) /\ Columns(t, p) \in [S -> Int] /\ SumOf(G, Columns(t, p), S)
    BY <1>1, <1>2, PositionsFinite, ColumnsTyped
  <2> HIDE DEF S, G
  <2> QED BY <2>1, SumAdds
<1> HIDE DEF G
<1> QED BY <1>3, <1>4

\* The terms of position p among the triples of s.
Terms(t, p, s) == {l \in 0 .. (t.m - 1) : <<p \div t.k, l, p % t.k>> \in s}

\* After any set of rounds, a position has the sum of the terms that came so far.
LEMMA PositionSums ==
  ASSUME NEW t, IsTask(t), NEW M, Loops(M, t), NEW p \in 0 .. (t.n * t.k - 1),
         NEW g, Adds(g, Columns(t, p), 0 .. (t.m - 1))
  PROVE  \A s \in SUBSET Triples(t) : M[s][p] = g[Terms(t, p, s)]
<1> DEFINE L == 0 .. (t.m - 1)
           h == Columns(t, p)
           A == {s \in SUBSET Triples(t) : M[s][p] = g[Terms(t, p, s)]}
<1>0. /\ g[{}] = 0 /\ g \in [SUBSET L -> Int]
      /\ \A s \in SUBSET L : \A x \in s : g[s] = g[s \ {x}] + h[x]
  BY DEF Adds
<1>1. {} \in A
  <2>1. Terms(t, p, {}) = {} /\ Zeros(t)[p] = 0
    BY DEF Terms, Zeros, Resized, NoValues
  <2> QED BY <1>0, <2>1 DEF Loops
<1>2. ASSUME NEW s \in SUBSET Triples(t), s # {}, s \ {First(s)} \in A PROVE s \in A
  <2> DEFINE r == s \ {First(s)}
             c == First(s)
  <2>1. c \in s
    BY <1>2 DEF First
  <2>2. PICK i \in 0 .. (t.n - 1), l \in 0 .. (t.m - 1), j \in 0 .. (t.k - 1) : c = <<i, l, j>>
    BY <2>1 DEF Triples
  <2>3. M[r] \in Buffers(t) /\ M[s] = Added(t, c, M[r]) /\ M[r][p] = g[Terms(t, p, r)]
    BY <1>2 DEF Loops
  <2> HIDE DEF c
  <2>4. /\ i * t.k + j \in 0 .. (t.n * t.k - 1)
        /\ (i * t.k + j) \div t.k = i /\ (i * t.k + j) % t.k = j
    BY EntryOf
  <2>5. M[s] = [M[r] EXCEPT ![i * t.k + j] =
                  M[r][i * t.k + j] + t.a[i * t.m + l] * t.b[l * t.k + j]]
    BY <2>2, <2>3 DEF Added
  <2>6. DOMAIN M[r] = 0 .. (t.n * t.k - 1)
    BY <2>3 DEF Buffers, Values
  <2>7. Terms(t, p, s) \in SUBSET L /\ r = s \ {c}
    BY DEF Terms, c
  <2>8. CASE p = i * t.k + j
    <3>1. p \div t.k = i /\ p % t.k = j
      BY <2>4, <2>8
    <3>2. l \in Terms(t, p, s) /\ Terms(t, p, r) = Terms(t, p, s) \ {l}
      BY <2>1, <2>2, <2>7, <3>1 DEF Terms
    <3>3. g[Terms(t, p, s)] = g[Terms(t, p, r)] + h[l]
      <4> HIDE DEF h, L, r
      <4> QED BY <1>0, <2>7, <3>2
    <3>4. h[l] = t.a[i * t.m + l] * t.b[l * t.k + j]
      BY <3>1 DEF Columns, Column
    <3>5. M[s][p] = M[r][p] + t.a[i * t.m + l] * t.b[l * t.k + j]
      BY <2>5, <2>6, <2>8
    <3> QED BY <2>3, <3>3, <3>4, <3>5
  <2>9. CASE p # i * t.k + j
    <3>1. <<p \div t.k, l, p % t.k>> # c
      <4>1. p = (p \div t.k) * t.k + (p % t.k)
        BY Position DEF IsTask
      <4> QED BY <2>2, <2>9, <4>1
    <3>2. Terms(t, p, s) = Terms(t, p, r)
      BY <2>2, <2>7, <3>1 DEF Terms
    <3>3. M[s][p] = M[r][p]
      BY <2>5, <2>6, <2>9
    <3> QED BY <2>3, <3>2, <3>3
  <2> QED BY <2>8, <2>9
<1>3. IsFiniteSet(Triples(t))
  BY TriplesFinite
<1>4. \A s \in SUBSET Triples(t) : s # {} /\ s \ {First(s)} \in A => s \in A
  BY <1>2
<1>5. SUBSET Triples(t) \subseteq A
  <2> HIDE DEF A
  <2> QED BY ONLY <1>1, <1>3, <1>4, FirstInduction
<1> QED BY <1>5

\* The three loops (utils.hpp:105) compute the product, for every size and all values.
LEMMA MultiplyIsProduct ==
  ASSUME NEW t, IsTask(t)
  PROVE  multiply(t, NoValues) = Product(t)
<1>1. PICK M : Loops(M, t) /\ multiply(t, NoValues) = M[Triples(t)]
  BY MultiplyFolds
<1>2. ASSUME NEW p \in 0 .. (t.n * t.k - 1) PROVE multiply(t, NoValues)[p] = Product(t)[p]
  <2>1. PICK g : Adds(g, Columns(t, p), 0 .. (t.m - 1)) /\ Product(t)[p] = g[0 .. (t.m - 1)]
    BY ProductSums
  <2>2. Terms(t, p, Triples(t)) = 0 .. (t.m - 1)
    BY Position DEF IsTask, Terms, Triples
  <2>3. M[Triples(t)][p] = g[Terms(t, p, Triples(t))]
    BY <1>1, <2>1, PositionSums
  <2> QED BY <1>1, <2>1, <2>2, <2>3
<1>3. multiply(t, NoValues) \in Buffers(t)
  BY <1>1 DEF Loops
<1>4. Product(t) = [p \in 0 .. (t.n * t.k - 1) |-> Product(t)[p]]
  BY DEF Product
<1> QED BY <1>2, <1>3, <1>4 DEF Buffers, Values

(***************************************************************************)
(* What is sent is the product of the matrices of the task at hand, for    *)
(* every set of tasks in any order: neither is anything left of an earlier *)
(* task in the buffer nor do the loops compute anything else.              *)
(***************************************************************************)
THEOREM ResultAlwaysProduct == Spec => []ResultIsProduct
<1>1. ResultOfTaskAlone => ResultIsProduct
  BY MultiplyIsProduct, TimingAssumption DEF ResultOfTaskAlone, ResultIsProduct, OwnProduct
<1> QED
  BY <1>1, BufferNeverLeaks, PTL

-----------------------------------------------------------------------------
\* Whatever is read, both numbers are natural.
Memory == [MemTotal : Nat, MemAvailable : Nat]
NoMemory == [MemTotal |-> 0, MemAvailable |-> 0]

\* A line is read into them, or skipped.
LEMMA LineRead ==
  ASSUME NEW mem \in Memory, NEW line \in Entries
  PROVE  ReadLine(mem, line) \in Memory
<1>1. line.value \in Nat
  BY SizeWordAssumption DEF Entries
<1>2. CASE line.key \in DOMAIN mem
  <2>1. line.key \in {"MemTotal", "MemAvailable"}
    BY <1>2 DEF Memory
  <2> QED BY <1>1, <2>1 DEF Memory, ReadLine
<1>3. CASE line.key \notin DOMAIN mem
  BY <1>3 DEF ReadLine
<1> QED BY <1>2, <1>3

\* FoldLeft takes the last index first: Max is the greatest.
LEMMA Greatest ==
  ASSUME NEW n \in Nat, NEW s \in SUBSET (1 .. n), s # {}
  PROVE  Max(s) \in s /\ \A y \in s : Max(s) >= y
<1> DEFINE A == {r \in SUBSET (1 .. n) : r # {} => \E x \in r : \A y \in r : x >= y}
<1>1. ASSUME NEW T \in SUBSET (1 .. n), \A x \in T : T \ {x} \in A PROVE T \in A
  <2> SUFFICES ASSUME NEW x \in T PROVE \E z \in T : \A y \in T : z >= y
    OBVIOUS
  <2>1. CASE T = {x}
    BY <2>1
  <2>2. CASE T # {x}
    <3>1. PICK z \in T \ {x} : \A y \in T \ {x} : z >= y
      BY <1>1, <2>2
    <3>2. x \in Int /\ z \in Int /\ \A y \in T : y \in Int
      OBVIOUS
    <3>3. CASE x >= z
      BY <3>1, <3>2, <3>3
    <3>4. CASE z >= x
      BY <3>1, <3>2, <3>4
    <3> QED BY <3>2, <3>3, <3>4
  <2> QED BY <2>1, <2>2
<1>2. IsFiniteSet(1 .. n)
  BY FS_Interval
<1>3. SUBSET (1 .. n) \subseteq A
  <2> HIDE DEF A
  <2> DEFINE B == 1 .. n
  <2>1. IsFiniteSet(B) /\ \A T \in SUBSET B : (\A x \in T : T \ {x} \in A) => T \in A
    BY <1>1, <1>2
  <2> HIDE DEF B
  <2>2. SUBSET B \subseteq A
    BY ONLY <2>1, SubsetInduction
  <2> QED BY <2>2 DEF B
<1>4. \E x \in s : \A y \in s : x >= y
  BY <1>3
<1> QED BY <1>4 DEF Max

\* What the loop has read of the first i lines.
LinesRead(lines, mem) ==
  /\ mem[0] = NoMemory
  /\ \A i \in 1 .. Len(lines) : mem[i] = ReadLine(mem[i - 1], lines[i])

\* The fold is the loop.
LEMMA LoopReads ==
  ASSUME NEW lines \in Seq(Entries)
  PROVE  \E mem : LinesRead(lines, mem) /\ FoldLeft(ReadLine, NoMemory, lines) = mem[Len(lines)]
<1> DEFINE D == DOMAIN lines
           Iter(g) == g = [s \in SUBSET D |-> IF s = {} THEN NoMemory
                             ELSE ReadLine(g[s \ {Max(s)}], lines[Max(s)])]
           G == CHOOSE g : Iter(g)
           F == [iv \in D \X Memory |-> ReadLine(iv[2], lines[iv[1]])]
           c == [s \in SUBSET D |-> Max(s)]
<1>1. FoldLeft(ReadLine, NoMemory, lines) = G[D]
  BY DEF FoldLeft, MapThenFoldSet
<1>2. D = 1 .. Len(lines) /\ Len(lines) \in Nat /\ \A i \in D : lines[i] \in Entries
  OBVIOUS
<1>3. IsFiniteSet(D)
  BY <1>2, FS_Interval
<1>4. Picks(c, D)
  BY <1>2, Greatest DEF Picks
<1>5. F \in [D \X Memory -> Memory]
  BY <1>2, LineRead
<1>6. NoMemory \in Memory
  BY DEF NoMemory, Memory
<1>7. PICK g \in [SUBSET D -> Memory] : FoldOf(g, F, NoMemory, c, D)
  <2> HIDE DEF D, F, c
  <2>1. \E g \in [SUBSET D -> Memory] : FoldOf(g, F, NoMemory, c, D)
    BY ONLY <1>3, <1>4, <1>5, <1>6, FoldExists
  <2> QED BY <2>1
<1>8. \E y : Iter(y)
  <2>1. ASSUME NEW s \in SUBSET D, s # {}
        PROVE  F[<<c[s], g[s \ {c[s]}]>>] = ReadLine(g[s \ {Max(s)}], lines[Max(s)])
    <3>1. c[s] = Max(s) /\ Max(s) \in D /\ s \ {Max(s)} \in SUBSET D
      BY <1>4, <2>1 DEF Picks
    <3>2. g[s \ {Max(s)}] \in Memory
      BY <1>7, <3>1
    <3>3. \A i \in D, v \in Memory : F[<<i, v>>] = ReadLine(v, lines[i])
      OBVIOUS
    <3> HIDE DEF F, c
    <3> QED BY <3>1, <3>2, <3>3
  <2> HIDE DEF F, c, D
  <2>2. Iter(g)
    BY <1>7, <2>1 DEF FoldOf
  <2> QED BY <2>2
<1>9. Iter(G)
  <2> HIDE DEF Iter
  <2> QED BY <1>8
<1> DEFINE mem == [i \in 0 .. Len(lines) |-> G[1 .. i]]
<1>10. mem[0] = NoMemory
  <2>1. 1 .. 0 = {} /\ 0 \in 0 .. Len(lines)
    BY <1>2
  <2> HIDE DEF G
  <2> QED BY <1>9, <2>1
<1>11. ASSUME NEW i \in 1 .. Len(lines) PROVE mem[i] = ReadLine(mem[i - 1], lines[i])
  <2>0. i \in Nat /\ 1 <= i /\ i <= Len(lines) /\ Len(lines) \in Nat
    BY <1>2
  <2>1. /\ 1 .. i \in SUBSET (1 .. Len(lines)) /\ 1 .. i # {}
        /\ i \in 0 .. Len(lines) /\ i - 1 \in 0 .. Len(lines)
    <3>1. i \in 1 .. i
      BY <2>0
    <3>2. i \in 0 .. Len(lines) /\ i - 1 \in 0 .. Len(lines)
      BY ONLY <2>0
    <3>3. \A y \in 1 .. i : y \in 1 .. Len(lines)
      BY ONLY <2>0
    <3> QED BY <3>1, <3>2, <3>3
  <2>2. Max(1 .. i) \in 1 .. i /\ \A y \in 1 .. i : Max(1 .. i) >= y
    BY <1>2, <2>1, Greatest
  <2>3. Max(1 .. i) = i /\ (1 .. i) \ {i} = 1 .. (i - 1)
    BY <2>2
  <2> HIDE DEF G
  <2>4. G[1 .. i] = ReadLine(G[(1 .. i) \ {Max(1 .. i)}], lines[Max(1 .. i)])
    BY <1>2, <1>9, <2>1
  <2> QED BY <2>1, <2>3, <2>4
<1>12. mem[Len(lines)] = G[D]
  <2>1. Len(lines) \in 0 .. Len(lines)
    BY <1>2
  <2> HIDE DEF G
  <2> QED BY <1>2, <2>1
<1> HIDE DEF G, mem, D
<1>13. LinesRead(lines, mem)
  BY <1>10, <1>11 DEF LinesRead
<1> QED BY <1>1, <1>12, <1>13

\* What the loop knows of key after the first i lines: the number in its line, if that
\* came; else 0.
Known(lines, mem, i, key) ==
  /\ \A j \in 1 .. i : lines[j].key = key => mem[i][key] = lines[j].value
  /\ (\A j \in 1 .. i : lines[j].key # key) => mem[i][key] = 0

\* It knows that of both numbers, whether or not it has stopped.
LEMMA LinesKnown ==
  ASSUME NEW lines, IsMeminfo(lines), NEW mem, LinesRead(lines, mem)
  PROVE  \A i \in 0 .. Len(lines) :
           /\ mem[i] \in Memory
           /\ Known(lines, mem, i, "MemTotal") /\ Known(lines, mem, i, "MemAvailable")
<1> DEFINE Good(i) == /\ mem[i] \in Memory
                      /\ Known(lines, mem, i, "MemTotal")
                      /\ Known(lines, mem, i, "MemAvailable")
           A == {i \in Nat : i <= Len(lines) => Good(i)}
<1>1. 0 \in A
  BY DEF LinesRead, NoMemory, Memory, Known
<1>2. ASSUME NEW n \in Nat, n \in A PROVE n + 1 \in A
  <2> SUFFICES ASSUME n + 1 <= Len(lines) PROVE Good(n + 1)
    OBVIOUS
  <2> DEFINE i == n + 1
             line == lines[i]
  <2>1. Len(lines) \in Nat /\ DOMAIN lines = 1 .. Len(lines) /\ i \in 1 .. Len(lines)
    BY DEF IsMeminfo
  <2>2. line \in Entries /\ \A j \in 1 .. i : j \in DOMAIN lines /\ lines[j] \in Entries
    BY <2>1 DEF IsMeminfo
  <2>3. /\ mem[n] \in Memory
        /\ Known(lines, mem, n, "MemTotal") /\ Known(lines, mem, n, "MemAvailable")
    BY <1>2, <2>1
  <2>4. mem[i] = ReadLine(mem[n], line)
    BY <2>1 DEF LinesRead
  <2>5. mem[i] \in Memory
    BY <2>2, <2>3, <2>4, LineRead
  <2>6. \A j \in 1 .. i : j \in 1 .. n \/ j = i
    OBVIOUS
  <2>7. \A key \in {"MemTotal", "MemAvailable"} : \A j, l \in 1 .. i :
          lines[j].key = key /\ lines[l].key = key => j = l
    BY <2>2 DEF IsMeminfo
  <2>8. ASSUME NEW key \in {"MemTotal", "MemAvailable"} PROVE Known(lines, mem, i, key)
    <3> HIDE DEF i
    <3>0. i \notin 1 .. n /\ i \in 1 .. i /\ 1 .. n \subseteq 1 .. i
      BY DEF i
    <3>1. key \in DOMAIN mem[n]
      BY <2>3 DEF Memory
    <3>2. CASE Seen(mem[n])
      <4>1. mem[i] = mem[n] /\ mem[n][key] # 0
        BY <2>4, <3>2 DEF ReadLine, Seen
      <4>2. PICK j \in 1 .. n : lines[j].key = key
        BY <2>3, <4>1 DEF Known
      <4>3. mem[n][key] = lines[j].value
        BY <2>3, <4>2 DEF Known
      <4> QED BY <2>7, <3>0, <4>1, <4>2, <4>3 DEF Known
    <3>3. CASE ~Seen(mem[n]) /\ line.key = key
      <4>1. mem[i][key] = line.value
        BY <2>4, <3>1, <3>3 DEF ReadLine
      <4> QED BY <2>7, <3>0, <3>3, <4>1 DEF Known
    <3>4. CASE ~Seen(mem[n]) /\ line.key # key
      <4>1. mem[i][key] = mem[n][key]
        BY <2>4, <3>4 DEF ReadLine
      <4> QED BY <2>3, <2>6, <3>0, <3>4, <4>1 DEF Known
    <3> QED BY <3>2, <3>3, <3>4
  <2> QED BY <2>5, <2>8
<1>3. Nat \subseteq A
  <2> HIDE DEF A
  <2> QED BY ONLY <1>1, <1>2, SetInduction
<1> QED BY <1>3 DEF IsMeminfo

\* The sum over the lines of MetricsOfMachine.
Kb(lines, key) ==
  MapThenSumSet(LAMBDA line : IF line.key = key THEN line.value ELSE 0, ToSet(lines))

\* There are finitely many lines.
LEMMA LinesFinite ==
  ASSUME NEW lines \in Seq(Entries)
  PROVE  IsFiniteSet(ToSet(lines)) /\ ToSet(lines) \subseteq Entries
<1>1. /\ DOMAIN lines = 1 .. Len(lines) /\ Len(lines) \in Nat
      /\ \A i \in DOMAIN lines : lines[i] \in Entries
  OBVIOUS
<1>2. IsFiniteSet(DOMAIN lines)
  BY <1>1, FS_Interval
<1> DEFINE D == DOMAIN lines
           f == [i \in D |-> lines[i]]
           T == ToSet(lines)
<1>3. f \in Surjection(D, T)
  BY DEF Surjection, ToSet
<1>4. IsFiniteSet(T)
  <2>1. IsFiniteSet(D)
    BY <1>2
  <2> HIDE DEF D, f, T
  <2> QED BY ONLY <1>3, <2>1, FS_Surjection
<1> QED BY <1>1, <1>4 DEF ToSet

\* It adds up.
LEMMA KbSums ==
  ASSUME NEW lines \in Seq(Entries), NEW key
  PROVE  \E g :
           /\ Adds(g, [line \in ToSet(lines) |-> IF line.key = key THEN line.value ELSE 0],
                   ToSet(lines))
           /\ Kb(lines, key) = g[ToSet(lines)]
<1> DEFINE S == ToSet(lines)
           h == [line \in S |-> IF line.key = key THEN line.value ELSE 0]
           Value(line) == IF line.key = key THEN line.value ELSE 0
           Iter(g) == g = [s \in SUBSET S |-> IF s = {} THEN 0
                             ELSE Value(CHOOSE x \in s : TRUE) + g[s \ {CHOOSE x \in s : TRUE}]]
           G == CHOOSE g : Iter(g)
<1>1. IsFiniteSet(S) /\ h \in [S -> Int]
  <2>1. IsFiniteSet(S) /\ S \subseteq Entries
    BY LinesFinite
  <2>2. \A line \in Entries : line.value \in Int
    BY SizeWordAssumption DEF Entries
  <2> HIDE DEF S
  <2> QED BY <2>1, <2>2
<1>2. \A g : SumOf(g, h, S) <=> Iter(g)
  <2> SUFFICES ASSUME NEW g PROVE SumOf(g, h, S) <=> Iter(g)
    OBVIOUS
  <2>1. \A s \in SUBSET S : s # {} => h[First(s)] = Value(CHOOSE x \in s : TRUE)
    BY DEF First
  <2> HIDE DEF h, S, Value
  <2> QED BY ONLY <2>1 DEF SumOf, First
<1>3. Iter(G)
  <2> HIDE DEF Iter, S, h
  <2>1. \E g : Iter(g)
    BY <1>1, <1>2, SumExists
  <2> QED BY <2>1
<1>4. Kb(lines, key) = G[S]
  BY DEF Kb, MapThenSumSet, MapThenFoldSet
<1>5. Adds(G, h, S)
  <2> HIDE DEF Iter, S, h, G
  <2>1. SumOf(G, h, S)
    BY <1>2, <1>3
  <2> QED BY <1>1, <2>1, SumAdds
<1> HIDE DEF G
<1> QED BY <1>4, <1>5

\* Of the lines, one counts.
LEMMA KbIsKnown ==
  ASSUME NEW lines, IsMeminfo(lines), NEW mem, LinesRead(lines, mem),
         NEW key \in {"MemTotal", "MemAvailable"}
  PROVE  Kb(lines, key) = mem[Len(lines)][key]
<1> DEFINE T == ToSet(lines)
           h == [line \in T |-> IF line.key = key THEN line.value ELSE 0]
<1>0. lines \in Seq(Entries) /\ DOMAIN lines = 1 .. Len(lines) /\ Len(lines) \in Nat
  BY DEF IsMeminfo
<1>1. PICK g : Adds(g, h, T) /\ Kb(lines, key) = g[T]
  BY <1>0, KbSums
<1>2. IsFiniteSet(T)
  BY <1>0, LinesFinite
<1>3. Known(lines, mem, Len(lines), key)
  <2>1. Len(lines) \in 0 .. Len(lines)
    BY <1>0
  <2> QED BY <2>1, LinesKnown
<1>4. CASE \A j \in DOMAIN lines : lines[j].key # key
  <2>1. \A line \in T : h[line] = 0
    BY <1>4 DEF ToSet
  <2>2. g[T] = 0
    <3> HIDE DEF h, T
    <3> QED BY <1>1, <1>2, <2>1, SumZero
  <2> QED BY <1>0, <1>1, <1>3, <1>4, <2>2 DEF Known
<1>5. ASSUME NEW j \in DOMAIN lines, lines[j].key = key PROVE Kb(lines, key) = mem[Len(lines)][key]
  <2> DEFINE line == lines[j]
  <2>1. line \in T /\ h[line] = line.value /\ line.value \in Int
    <3>1. line \in Entries
      BY <1>0
    <3>2. line.value \in Int
      BY <3>1, SizeWordAssumption DEF Entries
    <3>3. line \in T
      BY DEF ToSet
    <3> HIDE DEF T
    <3> QED BY <1>5, <3>2, <3>3
  <2>2. \A x \in T \ {line} : h[x] = 0
    BY <1>5 DEF ToSet, IsMeminfo
  <2>3. IsFiniteSet(T \ {line})
    BY <1>2, FS_RemoveElement
  <2>4. g[T \ {line}] = 0 /\ g[T] = g[T \ {line}] + h[line]
    <3> HIDE DEF h, T
    <3>1. g[T \ {line}] = 0
      BY <1>1, <2>2, <2>3, SumZero
    <3> QED BY <1>1, <2>1, <3>1 DEF Adds
  <2>5. mem[Len(lines)][key] = line.value
    BY <1>0, <1>3, <1>5 DEF Known
  <2> QED BY <1>1, <2>1, <2>4, <2>5
<1> QED BY <1>4, <1>5

\* The memory in use is the difference of the two lines, wherever they stand
\* (utils.hpp:147).
LEMMA RamIsDifference ==
  ASSUME NEW lines, IsMeminfo(lines)
  PROVE  get_ram_used_kb(lines) = Kb(lines, "MemTotal") - Kb(lines, "MemAvailable")
<1>0. lines \in Seq(Entries) /\ DOMAIN lines = 1 .. Len(lines) /\ Len(lines) \in Nat
  BY DEF IsMeminfo
<1>1. PICK mem : LinesRead(lines, mem) /\ FoldLeft(ReadLine, NoMemory, lines) = mem[Len(lines)]
  BY <1>0, LoopReads
<1> DEFINE last == mem[Len(lines)]
<1>2. /\ last \in Memory
      /\ Known(lines, mem, Len(lines), "MemTotal") /\ Known(lines, mem, Len(lines), "MemAvailable")
  <2>1. Len(lines) \in 0 .. Len(lines)
    BY <1>0
  <2> QED BY <1>1, <2>1, LinesKnown
<1>3. last.MemAvailable <= last.MemTotal /\ last.MemTotal < SizeWord
  <2>1. \A j \in DOMAIN lines : lines[j].value \in 0 .. (SizeWord - 1)
    <3>1. \A j \in DOMAIN lines : lines[j] \in Entries
      BY <1>0
    <3> QED BY <3>1 DEF Entries
  <2>2. last.MemTotal < SizeWord
    BY <1>0, <1>2, <2>1, SizeWordAssumption DEF Known
  <2>3. CASE \A j \in DOMAIN lines : lines[j].key # "MemAvailable"
    <3>1. last.MemAvailable = 0 /\ last.MemTotal \in Nat
      BY <1>0, <1>2, <2>3 DEF Known, Memory
    <3> HIDE DEF last
    <3> QED BY <2>2, <3>1
  <2>4. ASSUME NEW j \in DOMAIN lines, lines[j].key = "MemAvailable"
        PROVE  last.MemAvailable <= last.MemTotal
    <3>1. PICK i \in DOMAIN lines : lines[i].key = "MemTotal" /\ lines[j].value <= lines[i].value
      BY <2>4 DEF IsMeminfo
    <3>2. last.MemTotal = lines[i].value /\ last.MemAvailable = lines[j].value
      BY <1>0, <1>2, <2>4, <3>1 DEF Known
    <3> QED BY <3>1, <3>2
  <2> QED BY <2>2, <2>3, <2>4
<1>4. get_ram_used_kb(lines) = (last.MemTotal - last.MemAvailable) % SizeWord
  BY <1>1 DEF get_ram_used_kb, NoMemory
<1>5. get_ram_used_kb(lines) = last.MemTotal - last.MemAvailable
  <2>1. last.MemTotal \in Nat /\ last.MemAvailable \in Nat
    BY <1>2 DEF Memory
  <2> HIDE DEF last
  <2> QED BY <1>3, <1>4, <2>1, SizeWordAssumption
<1>6. Kb(lines, "MemTotal") = last.MemTotal /\ Kb(lines, "MemAvailable") = last.MemAvailable
  BY <1>1, KbIsKnown
<1> QED BY <1>5, <1>6

\* The sum over the counters of MetricsOfMachine.
Jiffies(stat, counters) == MapThenSumSet(LAMBDA i : stat[i], counters \cap DOMAIN stat)

Counters(stat) == [i \in 1 .. 8 |-> Counter(stat, i)]

\* There are eight of them.
LEMMA EightFinite == IsFiniteSet(1 .. 8)
<1>1. \A n \in Nat : IsFiniteSet(1 .. n)
  BY FS_Interval
<1> QED BY <1>1

\* What is read are natural numbers.
LEMMA CountersNat == ASSUME NEW stat \in Seq(Nat) PROVE Counters(stat) \in [1 .. 8 -> Nat]
<1>1. Len(stat) \in Nat /\ \A i \in 1 .. Len(stat) : stat[i] \in Nat
  OBVIOUS
<1> QED BY <1>1 DEF Counters, Counter

\* The total adds up.
LEMMA TotalSums ==
  ASSUME NEW stat \in Seq(Nat)
  PROVE  \E g : Adds(g, Counters(stat), 1 .. 8) /\ CpuTotal(stat) = g[1 .. 8]
<1> DEFINE S == 1 .. 8
           h == Counters(stat)
           Value(i) == Counter(stat, i)
           Iter(g) == g = [s \in SUBSET S |-> IF s = {} THEN 0
                             ELSE Value(CHOOSE x \in s : TRUE) + g[s \ {CHOOSE x \in s : TRUE}]]
           G == CHOOSE g : Iter(g)
<1>1. IsFiniteSet(S) /\ h \in [S -> Int]
  <2>1. IsFiniteSet(1 .. 8)
    BY EightFinite
  <2> QED BY <2>1, CountersNat
<1>2. \A g : SumOf(g, h, S) <=> Iter(g)
  <2> SUFFICES ASSUME NEW g PROVE SumOf(g, h, S) <=> Iter(g)
    OBVIOUS
  <2>1. \A s \in SUBSET S : s # {} => h[First(s)] = Value(CHOOSE x \in s : TRUE)
    BY DEF First, Counters
  <2> HIDE DEF h, S, Value
  <2> QED BY ONLY <2>1 DEF SumOf, First
<1>3. Iter(G)
  <2> HIDE DEF Iter, S, h
  <2>1. \E g : Iter(g)
    BY <1>1, <1>2, SumExists
  <2> QED BY <2>1
<1>4. CpuTotal(stat) = G[S]
  BY DEF CpuTotal, MapThenSumSet, MapThenFoldSet
<1>5. Adds(G, h, S)
  <2> HIDE DEF Iter, S, h, G
  <2>1. SumOf(G, h, S)
    BY <1>2, <1>3
  <2> QED BY <1>1, <2>1, SumAdds
<1> HIDE DEF G
<1> QED BY <1>4, <1>5

\* So does any sum of counters that the kernel has.
LEMMA JiffiesSum ==
  ASSUME NEW stat \in Seq(Nat), NEW counters
  PROVE  \E g :
           /\ Adds(g, [i \in counters \cap DOMAIN stat |-> stat[i]], counters \cap DOMAIN stat)
           /\ Jiffies(stat, counters) = g[counters \cap DOMAIN stat]
<1> DEFINE S == counters \cap DOMAIN stat
           h == [i \in counters \cap DOMAIN stat |-> stat[i]]
           Value(i) == stat[i]
           Iter(g) == g = [s \in SUBSET S |-> IF s = {} THEN 0
                             ELSE Value(CHOOSE x \in s : TRUE) + g[s \ {CHOOSE x \in s : TRUE}]]
           G == CHOOSE g : Iter(g)
<1>1. IsFiniteSet(S) /\ h \in [S -> Int]
  <2>1. DOMAIN stat = 1 .. Len(stat) /\ Len(stat) \in Nat /\ \A i \in DOMAIN stat : stat[i] \in Int
    OBVIOUS
  <2>2. IsFiniteSet(DOMAIN stat)
    BY <2>1, FS_Interval
  <2>3. IsFiniteSet(S)
    BY <2>2, FS_Subset
  <2> QED BY <2>1, <2>3
<1>2. \A g : SumOf(g, h, S) <=> Iter(g)
  <2> SUFFICES ASSUME NEW g PROVE SumOf(g, h, S) <=> Iter(g)
    OBVIOUS
  <2>1. \A s \in SUBSET S : s # {} => h[First(s)] = Value(CHOOSE x \in s : TRUE)
    BY DEF First
  <2> HIDE DEF h, S, Value
  <2> QED BY ONLY <2>1 DEF SumOf, First
<1>3. Iter(G)
  <2> HIDE DEF Iter, S, h
  <2>1. \E g : Iter(g)
    BY <1>1, <1>2, SumExists
  <2> QED BY <2>1
<1>4. Jiffies(stat, counters) = G[S]
  BY DEF Jiffies, MapThenSumSet, MapThenFoldSet
<1>5. Adds(G, h, S)
  <2> HIDE DEF Iter, S, h, G
  <2>1. SumOf(G, h, S)
    BY <1>2, <1>3
  <2> QED BY <1>1, <2>1, SumAdds
<1> HIDE DEF G
<1> QED BY <1>4, <1>5

\* A counter that the kernel does not have adds nothing.
LEMMA JiffiesOfCounters ==
  ASSUME NEW stat \in Seq(Nat), NEW g, Adds(g, Counters(stat), 1 .. 8),
         NEW counters \in SUBSET (1 .. 8)
  PROVE  Jiffies(stat, counters) = g[counters]
<1> DEFINE R == counters \cap DOMAIN stat
           r == [i \in R |-> stat[i]]
           h == Counters(stat)
           S == 1 .. 8
<1>1. PICK f : Adds(f, r, R) /\ Jiffies(stat, counters) = f[R]
  BY JiffiesSum
<1>2. IsFiniteSet(counters)
  <2>1. IsFiniteSet(1 .. 8)
    BY EightFinite
  <2> QED BY <2>1, FS_Subset
<1>3. Extends(h, r, R, counters)
  <2>1. DOMAIN stat = 1 .. Len(stat) /\ Len(stat) \in Nat
    OBVIOUS
  <2>2. \A x \in 1 .. 8 : h[x] = IF x \in DOMAIN stat THEN stat[x] ELSE 0
    BY <2>1 DEF Counters, Counter
  <2>3. counters \subseteq 1 .. 8
    OBVIOUS
  <2> HIDE DEF h
  <2> QED BY <2>2, <2>3 DEF Extends
<1>4. counters \cap R = R /\ counters \in SUBSET S /\ Adds(g, h, S)
  OBVIOUS
<1> HIDE DEF R, r, h, S
<1>5. g[counters] = f[counters \cap R]
  <2> DEFINE T == counters
  <2>1. T \in SUBSET S /\ IsFiniteSet(T) /\ Extends(h, r, R, T) /\ Adds(g, h, S) /\ Adds(f, r, R)
    BY <1>1, <1>2, <1>3, <1>4
  <2> HIDE DEF T
  <2>2. g[T] = f[T \cap R]
    BY ONLY <2>1, SumSame
  <2> QED BY <2>2 DEF T
<1> QED BY <1>1, <1>4, <1>5

\* The quotient, rounded down.
LEMMA Quotient ==
  ASSUME NEW a \in Nat, NEW b \in Nat \ {0}
  PROVE  a \div b \in Nat /\ (a \div b) * b <= a /\ a < (a \div b + 1) * b
<1>1. a \div b \in Int /\ a % b \in 0 .. (b - 1) /\ a = b * (a \div b) + (a % b)
  OBVIOUS
<1>2. a \div b >= 0
  OBVIOUS
<1>3. (a \div b + 1) * b = b * (a \div b) + b /\ (a \div b) * b = b * (a \div b)
  BY <1>1
<1> QED BY <1>1, <1>2, <1>3

\* The percentage is the share of the busy counters, rounded down (utils.hpp:179).
LEMMA CpuIsShare ==
  ASSUME NEW stat \in Seq(Nat)
  PROVE  LET total == Jiffies(stat, 1 .. 8)
             busy == 100 * Jiffies(stat, {1, 2, 3, 6, 7, 8})
             cpu == get_cpu_usage_percent(stat)
         IN  /\ cpu * total <= busy
             /\ IF total = 0 THEN cpu = 0 ELSE busy < (cpu + 1) * total
<1> DEFINE B == {1, 2, 3, 6, 7, 8}
           total == Jiffies(stat, 1 .. 8)
           busy == Jiffies(stat, B)
           h == Counters(stat)
<1>1. PICK g : Adds(g, h, 1 .. 8) /\ CpuTotal(stat) = g[1 .. 8]
  BY TotalSums
<1>2. total = CpuTotal(stat) /\ busy = g[B]
  <2>1. 1 .. 8 \in SUBSET (1 .. 8) /\ B \in SUBSET (1 .. 8)
    OBVIOUS
  <2> QED BY <1>1, <2>1, JiffiesOfCounters
<1>3. total \in Nat /\ busy \in Nat
  <2>1. IsFiniteSet(1 .. 8)
    BY EightFinite
  <2>2. \A s \in SUBSET (1 .. 8) : g[s] \in Nat
    BY <1>1, <2>1, CountersNat, SumNat
  <2> QED BY <1>1, <1>2, <2>2
<1>4. CpuBusy(stat) = busy
  <2> DEFINE S == 1 .. 8
  <2>1. S \in SUBSET S /\ S \ {4} \in SUBSET S /\ 4 \in S /\ 5 \in S \ {4}
    OBVIOUS
  <2>2. (S \ {4}) \ {5} = B
    OBVIOUS
  <2>3. \A s \in SUBSET S : \A x \in s : g[s] = g[s \ {x}] + h[x]
    BY <1>1 DEF Adds
  <2> HIDE DEF S, h, B
  <2>4. g[S \ {4}] = g[B] + h[5] /\ g[S] = g[S \ {4}] + h[4]
    BY <2>1, <2>2, <2>3
  <2> USE DEF S, h, B
  <2>5. h[4] \in Int /\ h[5] \in Int /\ h[4] = Counter(stat, 4) /\ h[5] = Counter(stat, 5)
    BY CountersNat DEF Counters
  <2> HIDE DEF h, B, busy
  <2> QED BY <1>1, <1>2, <1>3, <2>4, <2>5 DEF CpuBusy
<1>5. get_cpu_usage_percent(stat) = IF total = 0 THEN 0 ELSE (busy * 100) \div total
  BY <1>2, <1>4 DEF get_cpu_usage_percent
<1> HIDE DEF total, busy, B
<1>6. get_cpu_usage_percent(stat) * total <= 100 * busy
  <2>1. CASE total = 0
    BY <1>3, <1>5, <2>1
  <2>2. CASE total # 0
    BY <1>3, <1>5, <2>2, Quotient
  <2> QED BY <2>1, <2>2
<1>7. total # 0 => 100 * busy < (get_cpu_usage_percent(stat) + 1) * total
  BY <1>3, <1>5, Quotient
<1> QED BY <1>5, <1>6, <1>7 DEF total, busy, B

\* What the message, and the record after it, say of the machine is what its /proc had.
MachineInv ==
  /\ DOMAIN message = DOMAIN Blank
  /\ pc \in {"filled", "submitted", "recorded"} =>
       /\ machine.meminfo \in Meminfos /\ machine.stat \in Stats
       /\ message.ram_used_kb = get_ram_used_kb(machine.meminfo)
       /\ message.cpu_usage_percent = get_cpu_usage_percent(machine.stat)
  /\ pc = "recorded" =>
       /\ record.ram_used_kb = message.ram_used_kb
       /\ record.cpu_usage_percent = message.cpu_usage_percent

\* /proc is read once for each task, and nothing changes what was read.
LEMMA MachineStep == MachineInv /\ [Next]_vars => MachineInv'
<1> SUFFICES ASSUME MachineInv, [Next]_vars PROVE MachineInv'
  OBVIOUS
<1> USE DEF MachineInv, Goes
<1>1. ASSUME NEW t \in Tasks, SendTask(t) PROVE MachineInv'
  BY <1>1 DEF SendTask
<1>2. CASE ReceiveTask
  BY <1>2 DEF ReceiveTask
<1>3. CASE Work
  BY <1>3 DEF Work
<1>4. CASE Fill
  <2> DEFINE ram == get_ram_used_kb(machine'.meminfo)
             cpu == get_cpu_usage_percent(machine'.stat)
  <2>1. PICK at \in {cli_ts, now + offset} : ReadProc(at)
    BY <1>4 DEF Fill, FillGrpc, FillAreg
  <2>2. message' = [message EXCEPT !.ts_snd = at, !.ram_used_kb = ram,
                                   !.cpu_usage_percent = cpu]
    BY <2>1 DEF ReadProc
  <2>3. machine'.meminfo \in Meminfos /\ machine'.stat \in Stats
    BY <2>1 DEF ReadProc
  <2>4. pc' = "filled"
    BY <1>4 DEF Fill
  <2> HIDE DEF ram, cpu
  <2>5. /\ DOMAIN message' = DOMAIN Blank
        /\ message'.ram_used_kb = ram /\ message'.cpu_usage_percent = cpu
    BY <2>2 DEF Blank
  <2> QED
    BY <2>3, <2>4, <2>5 DEF ram, cpu
<1>5. CASE Submit
  BY <1>5 DEF Submit, Blank
<1>6. CASE ReceiveResult
  BY <1>6 DEF ReceiveResult, TaskRecord
<1>7. CASE RecordCsv
  BY <1>7 DEF RecordCsv
<1>8. CASE UNCHANGED vars
  BY <1>8 DEF vars
<1> QED
  BY <1>1, <1>2, <1>3, <1>4, <1>5, <1>6, <1>7, <1>8 DEF Next

(***************************************************************************)
(* The load in every row is that of the machine: the difference of the two *)
(* lines wherever they stand in /proc/meminfo, and the share of the busy   *)
(* counters among those that the kernel has.                               *)
(***************************************************************************)
THEOREM MetricsAlwaysOfMachine == Spec => []MetricsOfMachine
<1>1. Init => MachineInv
  BY DEF Init, MachineInv
<1>2. MachineInv => MetricsOfMachine
  <2> SUFFICES ASSUME MachineInv, pc = "recorded" PROVE MetricsOfMachine
    BY DEF MetricsOfMachine
  <2> DEFINE cpu == record.cpu_usage_percent
             total == Jiffies(machine.stat, 1 .. 8)
             busy == 100 * Jiffies(machine.stat, {1, 2, 3, 6, 7, 8})
  <2>1. /\ IsMeminfo(machine.meminfo) /\ machine.stat \in Seq(Nat)
        /\ record.ram_used_kb = get_ram_used_kb(machine.meminfo)
        /\ cpu = get_cpu_usage_percent(machine.stat)
    BY TimingAssumption DEF MachineInv
  <2>2. record.ram_used_kb =
          Kb(machine.meminfo, "MemTotal") - Kb(machine.meminfo, "MemAvailable")
    BY <2>1, RamIsDifference
  <2>3. cpu * total <= busy /\ IF total = 0 THEN cpu = 0 ELSE busy < (cpu + 1) * total
    BY <2>1, CpuIsShare
  <2> QED
    BY <2>2, <2>3 DEF MetricsOfMachine, Kb, Jiffies
<1> QED
  BY <1>1, <1>2, MachineStep, PTL DEF Spec
=============================================================================
