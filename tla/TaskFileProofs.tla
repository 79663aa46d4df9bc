---------------------------- MODULE TaskFileProofs ----------------------------
(***************************************************************************)
(* Theorems about the task file, for every width of the numbers, every     *)
(* limit to the dimensions whose square fits in it, all arguments, every   *)
(* point where the file may be cut and all files written by hand.          *)
(***************************************************************************)
EXTENDS TaskFile, TLAPS

-----------------------------------------------------------------------------
\* Arithmetic.

\* A number is truncated to one that fits, and one that fits is not changed.
LEMMA Truncation ==
  /\ \A x \in Int : U32(x) \in 0 .. (Word - 1)
  /\ \A x \in 0 .. (Word - 1) : U32(x) = x
<1>1. Word \in Nat /\ Word > 0
  <2>1. MAX_D * MAX_D \in Nat
    BY TaskFileAssumption DEF TaskFileAssumption
  <2> QED BY <2>1, TaskFileAssumption DEF TaskFileAssumption
<1> QED BY <1>1 DEF U32

\* Products grow with their factors.
LEMMA Monotone ==
  ASSUME NEW x \in Nat, NEW y \in Nat, NEW z \in Nat, x <= y
  PROVE  x * z <= y * z
<1>1. y * z = x * z + (y - x) * z
  OBVIOUS
<1>2. (y - x) * z >= 0
  OBVIOUS
<1>3. x * z \in Int /\ y * z \in Int /\ (y - x) * z \in Int
  OBVIOUS
<1> QED BY <1>1, <1>2, <1>3

\* A position in a row, in a row of a matrix, is a position in the matrix.
LEMMA Position ==
  ASSUME NEW rows \in Nat, NEW cols \in Nat,
         NEW i \in 0 .. (rows - 1), NEW j \in 0 .. (cols - 1)
  PROVE  /\ i * cols \in Nat /\ rows * cols \in Nat
         /\ i * cols + j \in Nat /\ i * cols + j < rows * cols
<1>1. (i + 1) * cols <= rows * cols
  <2>1. i + 1 \in Nat /\ i + 1 <= rows
    OBVIOUS
  <2> QED BY <2>1, Monotone
<1>2. (i + 1) * cols = i * cols + cols
  OBVIOUS
<1>3. i * cols \in Nat /\ rows * cols \in Nat
  OBVIOUS
<1> QED BY <1>1, <1>2, <1>3

\* A sequence with an element added.
LEMMA Appended ==
  ASSUME NEW S, NEW s \in Seq(S), NEW e \in S
  PROVE  /\ Append(s, e) \in Seq(S)
         /\ Len(s) \in Nat /\ Len(Append(s, e)) = Len(s) + 1
         /\ \A i \in 1 .. Len(s) : Append(s, e)[i] = s[i]
         /\ Append(s, e)[Len(s) + 1] = e
         /\ \A i \in 1 .. Len(Append(s, e)) : i \in 1 .. Len(s) \/ i = Len(s) + 1
OBVIOUS

-----------------------------------------------------------------------------
\* The work stays inside of the matrices.

FileLine == [empty : {TRUE}]
            \cup [empty : {FALSE}, n : Int, m : Int, k : Int, values : Seq(Nat)]

\* The numbers that gen-tasks understood, and the dimensions it may draw.
Arguments == [num_samples : Nat, dim_lower : Nat, dim_upper : Nat]
Dimension == 1 .. MAX_D
Sample == [n : Dimension, m : Dimension, k : Dimension]

\* What parse_task may return.
Size == 1 .. (Word - 1)
Task == [n : Size, m : Size, k : Size, a : 0 .. (Word - 1), b : 0 .. (Word - 1)]
Sized(t) == t.a = U32(t.n * t.m) /\ t.b = U32(t.m * t.k)

TaskFileTypeOK ==
  /\ args \in Arguments
  /\ samples \in Seq(Sample)
  /\ file \in Seq(FileLine)
  /\ cut \in BOOLEAN
  /\ lnum \in 0 .. Len(file)
  /\ tasks \in Seq(Task)
  /\ phase \in {"start", "refused", "generate", "read", "loaded", "thrown"}

SizesInv ==
  /\ TaskFileTypeOK
  /\ phase = "generate" => Accepted
  /\ phase \in {"start", "generate"} => lnum = 0
  /\ \A i \in 1 .. Len(tasks) : Sized(tasks[i])

\* What the constants are.
LEMMA Constants ==
  /\ Word \in Nat /\ Word > 0 /\ MAX_D \in Nat
  /\ MAX_D * MAX_D \in Nat /\ MAX_D * MAX_D < Word
<1>1. MAX_D * MAX_D \in Nat
  BY TaskFileAssumption DEF TaskFileAssumption
<1> QED BY <1>1, TaskFileAssumption DEF TaskFileAssumption

\* A sample has its dimensions and its sizes in a word.
LEMMA SampleFits ==
  ASSUME NEW x \in Dimension, NEW y \in Dimension
  PROVE  /\ x \in Size /\ x * y \in Size
         /\ U32(x) = x /\ U32(x * y) = x * y
<1>1. x \in Nat /\ y \in Nat /\ MAX_D \in Nat /\ x >= 1 /\ y >= 1 /\ x <= MAX_D /\ y <= MAX_D
  BY Constants DEF Dimension
<1>2. x * y <= MAX_D * y /\ y * MAX_D <= MAX_D * MAX_D
  BY <1>1, Monotone
<1>3. MAX_D * y = y * MAX_D
  BY <1>1
<1>4. x * y \in Int /\ y * MAX_D \in Int /\ MAX_D * y \in Int
  BY <1>1
<1>5. x * y < Word
  BY <1>2, <1>3, <1>4, Constants
<1>6. 1 * x <= y * x /\ y * x = x * y /\ 1 * x = x
  BY <1>1, Monotone
<1>7. 1 <= x * y /\ x <= x * y
  BY <1>1, <1>4, <1>6
<1>8. x \in Size /\ x * y \in Size
  BY <1>1, <1>4, <1>5, <1>7, Constants DEF Size
<1> QED BY <1>8, Truncation DEF Size

\* Initially.
LEMMA SizesInitially == Init => SizesInv
<1> SUFFICES ASSUME Init PROVE SizesInv
  OBVIOUS
<1>1. \A typed \in Typed : [x \in DOMAIN typed |-> U32(typed[x])] \in Arguments
  <2> TAKE typed \in Typed
  <2>1. typed \in Arguments
    BY TaskFileAssumption DEF TaskFileAssumption, Arguments
  <2>2. 0 .. (Word - 1) \subseteq Nat
    BY Constants
  <2>3. U32(typed.num_samples) \in Nat /\ U32(typed.dim_lower) \in Nat /\ U32(typed.dim_upper) \in Nat
    BY <2>1, <2>2, Truncation DEF Arguments
  <2> QED BY <2>1, <2>3 DEF Arguments
<1>2. args \in Arguments
  BY <1>1 DEF Init, NoArguments, Arguments
<1>3. file \in Seq(FileLine)
  <2>1. HandWritten \subseteq Seq(FileLine)
    BY TaskFileAssumption, Zenon DEF TaskFileAssumption, FileLine
  <2>2. <<>> \in Seq(FileLine)
    OBVIOUS
  <2> QED BY <2>1, <2>2 DEF Init
<1>4. /\ samples = <<>> /\ tasks = <<>> /\ cut = FALSE /\ lnum = 0
      /\ phase \in {"start", "read"}
  BY DEF Init
<1>5. lnum \in 0 .. Len(file)
  BY <1>3, <1>4
<1>6. samples \in Seq(Sample) /\ tasks \in Seq(Task) /\ Len(tasks) = 0
  BY <1>4
<1>7. TaskFileTypeOK
  BY <1>2, <1>3, <1>4, <1>5, <1>6 DEF TaskFileTypeOK
<1> QED BY <1>4, <1>6, <1>7 DEF SizesInv

\* The line is that of sample d up to its values.
OfSample(line, d) ==
  /\ line \in FileLine /\ line.empty = FALSE
  /\ line.n = d.n /\ line.m = d.m /\ line.k = d.k

\* The line of a sample, and what may be left of it.
LEMMA SampleLine ==
  ASSUME NEW d \in Sample
  PROVE  /\ OfSample(Written(d), d)
         /\ Written(d).values = <<d.n * d.m, d.m * d.k>>
         /\ \A line \in Cuts(Written(d)) : OfSample(line, d)
<1> DEFINE p == d.n * d.m
           q == d.m * d.k
           whole == Written(d)
<1>1. d.n \in Dimension /\ d.m \in Dimension /\ d.k \in Dimension
  BY DEF Sample
<1>2. /\ p \in Size /\ q \in Size /\ U32(p) = p /\ U32(q) = q
      /\ d.n \in Size /\ d.m \in Size /\ d.k \in Size
  BY <1>1, SampleFits
<1>3. whole = Line(d.n, d.m, d.k, <<p, q>>)
  BY <1>2 DEF Written
<1> HIDE DEF p, q, whole
<1>4. p \in Nat /\ q \in Nat /\ d.n \in Int /\ d.m \in Int /\ d.k \in Int
  BY <1>2, Constants DEF Size
<1>5. OfSample(whole, d) /\ whole.values = <<p, q>>
  <2> DEFINE v == <<p, q>>
  <2>1. v \in Seq(Nat)
    BY <1>4
  <2> HIDE DEF v
  <2>2. whole = [empty |-> FALSE, n |-> d.n, m |-> d.m, k |-> d.k, values |-> v]
    BY <1>3 DEF Line, v
  <2>3. whole.values = v /\ OfSample(whole, d)
    BY <1>4, <2>1, <2>2 DEF FileLine, OfSample
  <2> QED BY <2>3 DEF v
<1>6. ASSUME NEW v \in Seq(Nat), NEW line, line = [whole EXCEPT !.values = v]
      PROVE  OfSample(line, d)
  <2>1. whole \in FileLine /\ whole.empty = FALSE
    BY <1>5 DEF OfSample
  <2>2. /\ line \in FileLine /\ line.empty = FALSE
        /\ line.n = whole.n /\ line.m = whole.m /\ line.k = whole.k
    BY <1>6, <2>1 DEF FileLine
  <2> QED BY <1>5, <2>2 DEF OfSample
<1>7. ASSUME NEW line \in Cuts(whole) PROVE OfSample(line, d)
  <2>1. whole.values[1] = p /\ whole.values[2] = q /\ "values" \in DOMAIN whole
    BY <1>3, <1>5 DEF Line
  <2>2. \/ \E x \in 0 .. p : line = [whole EXCEPT !.values = <<x>>]
        \/ \E y \in 0 .. q : line = [whole EXCEPT !.values = <<p, y>>]
    BY <1>7, <2>1 DEF Cuts
  <2>3. \A x \in Nat : <<x>> \in Seq(Nat) /\ <<p, x>> \in Seq(Nat)
    BY <1>4
  <2>4. \A x : (x \in 0 .. p \/ x \in 0 .. q) => x \in Nat
    BY <1>4
  <2>5. \E v \in Seq(Nat) : line = [whole EXCEPT !.values = v]
    BY <2>2, <2>3, <2>4, Zenon
  <2> QED BY <1>6, <2>5
<1> QED BY <1>5, <1>7 DEF p, q, whole

\* What parse_task returns has the sizes that its dimensions say.
LEMMA ParsedIsSized ==
  ASSUME NEW line \in FileLine, ~line.empty, Parses(line)
  PROVE  Parsed(line) \in Task /\ Sized(Parsed(line))
<1>1. line.n \in Int /\ line.m \in Int /\ line.k \in Int
  BY DEF FileLine
<1> DEFINE n == U32(line.n)
           m == U32(line.m)
           k == U32(line.k)
<1>2. n \in 0 .. (Word - 1) /\ m \in 0 .. (Word - 1) /\ k \in 0 .. (Word - 1)
  BY <1>1, Truncation
<1>3. n \in Size /\ m \in Size /\ k \in Size
  BY <1>2, Constants DEF Parses, Size
<1>4. n * m \in Int /\ m * k \in Int
  BY <1>2, Constants
<1>5. U32(n * m) \in 0 .. (Word - 1) /\ U32(m * k) \in 0 .. (Word - 1)
  BY <1>4, Truncation
<1>6. line.values[1] = U32(n * m) /\ line.values[2] = U32(m * k)
  BY DEF Parses
<1>7. Parsed(line) = [n |-> n, m |-> m, k |-> k, a |-> U32(n * m), b |-> U32(m * k)]
  BY <1>6 DEF Parsed
<1> HIDE DEF n, m, k
<1> QED BY <1>3, <1>5, <1>7 DEF Task, Sized

\* What WriteSample does, for a sample within the limit.
LEMMA SampleWritten ==
  ASSUME SizesInv, WriteSample
  PROVE  \E d \in Sample :
           /\ samples' = Append(samples, d)
           /\ \/ ~cut /\ file' = Append(file, Written(d)) /\ UNCHANGED cut
              \/ ~cut /\ cut' = TRUE /\ UNCHANGED file
              \/ ~cut /\ cut' = TRUE /\ \E line \in Cuts(Written(d)) : file' = Append(file, line)
              \/ cut /\ UNCHANGED <<file, cut>>
<1>1. PICK d \in Sampled :
        /\ samples' = Append(samples, d)
        /\ \/ ~cut /\ file' = Append(file, Written(d)) /\ UNCHANGED cut
           \/ ~cut /\ cut' = TRUE /\ UNCHANGED file
           \/ ~cut /\ cut' = TRUE /\ \E line \in Cuts(Written(d)) : file' = Append(file, line)
           \/ cut /\ UNCHANGED <<file, cut>>
  BY Zenon DEF WriteSample
<1>2. phase = "generate" /\ Accepted /\ args \in Arguments
  BY DEF WriteSample, SizesInv, TaskFileTypeOK
<1>3. args.dim_lower .. args.dim_upper \subseteq Dimension
  BY <1>2, Constants DEF Accepted, Arguments, Dimension
<1>4. d \in Sample
  BY <1>3 DEF Sampled, Sample
<1> QED BY <1>1, <1>4

\* Every step keeps what it should be.
LEMMA SizesInductive == SizesInv /\ [Next]_vars => SizesInv'
<1> SUFFICES ASSUME SizesInv, [Next]_vars PROVE SizesInv'
  OBVIOUS
<1>0. /\ args \in Arguments /\ samples \in Seq(Sample) /\ file \in Seq(FileLine)
      /\ lnum \in 0 .. Len(file) /\ tasks \in Seq(Task) /\ Len(tasks) \in Nat
      /\ \A i \in 1 .. Len(tasks) : Sized(tasks[i])
  BY DEF SizesInv, TaskFileTypeOK
<1>1. CASE Refuse \/ OpenFile
  BY <1>1 DEF Refuse, OpenFile, Accepted, SizesInv, TaskFileTypeOK
<1>2. CASE WriteSample
  <2>1. PICK d \in Sample :
          /\ samples' = Append(samples, d)
          /\ \/ ~cut /\ file' = Append(file, Written(d)) /\ UNCHANGED cut
             \/ ~cut /\ cut' = TRUE /\ UNCHANGED file
             \/ ~cut /\ cut' = TRUE /\ \E line \in Cuts(Written(d)) : file' = Append(file, line)
             \/ cut /\ UNCHANGED <<file, cut>>
    BY <1>2, SampleWritten
  <2>2. file' = file \/ \E line \in FileLine : file' = Append(file, line)
    BY <2>1, SampleLine DEF OfSample
  <2>3. file' \in Seq(FileLine)
    <3>1. ASSUME NEW line \in FileLine, file' = Append(file, line) PROVE file' \in Seq(FileLine)
      <4>1. file \in Seq(FileLine)
        BY <1>0
      <4> QED BY <3>1, <4>1, Appended
    <3> QED BY <1>0, <2>2, <3>1
  <2>4. samples' \in Seq(Sample) /\ cut' \in BOOLEAN
    BY <1>0, <2>1, Appended DEF SizesInv, TaskFileTypeOK
  <2>5. lnum' = 0 /\ UNCHANGED <<args, tasks, phase>>
    BY <1>2 DEF WriteSample, SizesInv
  <2>6. Len(file') \in Nat
    BY <2>3
  <2> QED BY <2>3, <2>4, <2>5, <2>6 DEF Accepted, SizesInv, TaskFileTypeOK
<1>3. CASE CloseFile \/ Loaded
  BY <1>3 DEF CloseFile, Loaded, SizesInv, TaskFileTypeOK
<1>4. CASE ReadLine
  <2>1. /\ UNCHANGED <<args, samples, file, cut>> /\ lnum < Len(file) /\ lnum' = lnum + 1
        /\ phase' \in {"read", "thrown"}
    BY <1>4 DEF ReadLine
  <2>2. Len(file) \in Nat /\ lnum + 1 \in 1 .. Len(file) /\ lnum + 1 \in 0 .. Len(file)
    BY <1>0, <2>1
  <2>3. NextLine \in FileLine
    BY <1>0, <2>2 DEF NextLine
  <2>4. \/ UNCHANGED tasks
        \/ ~NextLine.empty /\ Parses(NextLine) /\ tasks' = Append(tasks, Parsed(NextLine))
    BY <1>4 DEF ReadLine
  <2>5. ASSUME NEW t \in Task, Sized(t), tasks' = Append(tasks, t)
        PROVE  tasks' \in Seq(Task) /\ \A i \in 1 .. Len(tasks') : Sized(tasks'[i])
    BY <1>0, <2>5, Appended
  <2>6. tasks' \in Seq(Task) /\ \A i \in 1 .. Len(tasks') : Sized(tasks'[i])
    BY <1>0, <2>3, <2>4, <2>5, ParsedIsSized
  <2> QED BY <2>1, <2>2, <2>6 DEF SizesInv, TaskFileTypeOK
<1>5. CASE Ended \/ UNCHANGED vars
  BY <1>5 DEF Ended, vars, Accepted, SizesInv, TaskFileTypeOK
<1> QED BY <1>1, <1>2, <1>3, <1>4, <1>5 DEF Next

\* A position in a matrix whose size needs no more than a word is computed without
\* wrapping.
LEMMA PositionInWord ==
  ASSUME NEW rows \in Nat, NEW cols \in Nat, rows * cols < Word,
         NEW i \in 0 .. (rows - 1), NEW j \in 0 .. (cols - 1)
  PROVE  U32(U32(i * cols) + j) < U32(rows * cols)
<1>1. /\ i * cols \in Nat /\ rows * cols \in Nat
      /\ i * cols + j \in Nat /\ i * cols + j < rows * cols
  BY Position
<1>2. /\ i * cols \in 0 .. (Word - 1) /\ i * cols + j \in 0 .. (Word - 1)
      /\ rows * cols \in 0 .. (Word - 1)
  BY <1>1, Constants
<1> QED BY <1>1, <1>2, Truncation

\* Every index that multiply computes is a position of the matrices as they were read,
\* for all files, those written by hand too.
THEOREM Inside == Spec => []IndicesInside
<1>1. ASSUME NEW t \in Task, Sized(t), Fits(t),
             NEW i \in 0 .. (t.n - 1), NEW k \in 0 .. (t.m - 1), NEW j \in 0 .. (t.k - 1)
      PROVE  /\ U32(U32(i * t.m) + k) < t.a
             /\ U32(U32(k * t.k) + j) < t.b
             /\ U32(U32(i * t.k) + j) < U32(t.n * t.k)
  <2>1. t.n \in Nat /\ t.m \in Nat /\ t.k \in Nat
    BY Constants DEF Task, Size
  <2>2. t.n * t.m < Word /\ t.m * t.k < Word /\ t.n * t.k < Word
    BY <1>1 DEF Fits
  <2>3. U32(U32(i * t.m) + k) < U32(t.n * t.m)
    BY <2>1, <2>2, PositionInWord
  <2>4. U32(U32(k * t.k) + j) < U32(t.m * t.k)
    BY <2>1, <2>2, PositionInWord
  <2>5. U32(U32(i * t.k) + j) < U32(t.n * t.k)
    BY <2>1, <2>2, PositionInWord
  <2> QED BY <1>1, <2>3, <2>4, <2>5 DEF Sized
<1>2. SizesInv => IndicesInside
  <2> SUFFICES ASSUME SizesInv, NEW p \in 1 .. Len(tasks), Fits(tasks[p]),
                      NEW i \in 0 .. (tasks[p].n - 1), NEW k \in 0 .. (tasks[p].m - 1),
                      NEW j \in 0 .. (tasks[p].k - 1)
               PROVE  /\ U32(U32(i * tasks[p].m) + k) < tasks[p].a
                      /\ U32(U32(k * tasks[p].k) + j) < tasks[p].b
                      /\ U32(U32(i * tasks[p].k) + j) < U32(tasks[p].n * tasks[p].k)
    BY DEF IndicesInside
  <2>1. tasks[p] \in Task /\ Sized(tasks[p])
    BY DEF SizesInv, TaskFileTypeOK
  <2> QED BY <1>1, <2>1
<1> QED BY <1>2, SizesInitially, SizesInductive, PTL DEF Spec

-----------------------------------------------------------------------------
\* What is read is what was drawn.

\* The line holds the values of sample d, or the disk was full.
Values(line, d) == cut \/ line.values = <<d.n * d.m, d.m * d.k>>

\* The file is the samples, up to where it may be cut.
FileOfSamples ==
  /\ Len(file) <= Len(samples)
  /\ ~cut => Len(file) = Len(samples)
  /\ \A i \in 1 .. Len(file) : OfSample(file[i], samples[i]) /\ Values(file[i], samples[i])

TaskOf(t, d) ==
  t = [n |-> d.n, m |-> d.m, k |-> d.k, a |-> d.n * d.m, b |-> d.m * d.k]

\* Every line that was read is a task, and only a cut one is thrown at.
ReadSoFar ==
  /\ IF phase = "thrown" THEN cut /\ Len(tasks) < lnum ELSE Len(tasks) = lnum
  /\ phase = "loaded" => lnum = Len(file)
  /\ \A i \in 1 .. Len(tasks) : TaskOf(tasks[i], samples[i])

SamplesInv ==
  /\ phase \in {"start", "refused"} => samples = <<>> /\ file = <<>> /\ tasks = <<>> /\ lnum = 0
  /\ phase = "generate" \/ samples # <<>> => FileOfSamples /\ ReadSoFar

\* A whole line is read; any that is read yields the task of its sample.
LEMMA LineOfSample ==
  ASSUME NEW d \in Sample, NEW line, OfSample(line, d), Values(line, d)
  PROVE  /\ ~cut => Parses(line)
         /\ Parses(line) => TaskOf(Parsed(line), d)
<1> DEFINE p == d.n * d.m
           q == d.m * d.k
<1>1. d.n \in Dimension /\ d.m \in Dimension /\ d.k \in Dimension
  BY DEF Sample
<1>2. /\ U32(p) = p /\ U32(q) = q
      /\ U32(d.n) = d.n /\ U32(d.m) = d.m /\ U32(d.k) = d.k
      /\ d.n \in Size /\ d.m \in Size /\ d.k \in Size
  BY <1>1, SampleFits
<1>3. d.n > 0 /\ d.m > 0 /\ d.k > 0
  BY <1>2, Constants DEF Size
<1> DEFINE whole == <<p, q>>
<1>4. Parses(line) <=> line.values = whole
  BY <1>2, <1>3 DEF Parses, OfSample
<1>5. ~cut => line.values = whole
  BY DEF Values
<1>6. ASSUME line.values = whole PROVE TaskOf(Parsed(line), d)
  BY <1>2, <1>6 DEF Parsed, TaskOf, OfSample
<1> QED BY <1>4, <1>5, <1>6

\* gen-tasks writes the lines of its samples.
LEMMA WritesSamples ==
  ASSUME SizesInv, SamplesInv, WriteSample
  PROVE  FileOfSamples'
<1>0. /\ samples \in Seq(Sample) /\ file \in Seq(FileLine) /\ cut \in BOOLEAN
      /\ Len(file) \in Nat /\ Len(samples) \in Nat
  BY DEF SizesInv, TaskFileTypeOK
<1>1. FileOfSamples
  BY DEF WriteSample, SamplesInv
<1>2. PICK d \in Sample :
        /\ samples' = Append(samples, d)
        /\ \/ ~cut /\ file' = Append(file, Written(d)) /\ UNCHANGED cut
           \/ ~cut /\ cut' = TRUE /\ UNCHANGED file
           \/ ~cut /\ cut' = TRUE /\ \E line \in Cuts(Written(d)) : file' = Append(file, line)
           \/ cut /\ UNCHANGED <<file, cut>>
  BY SampleWritten
<1>3. /\ Len(samples') = Len(samples) + 1 /\ samples'[Len(samples) + 1] = d
      /\ \A i \in 1 .. Len(samples) : samples'[i] = samples[i]
  BY <1>0, <1>2, Appended
<1>4. CASE UNCHANGED file /\ cut'
  BY <1>0, <1>1, <1>3, <1>4 DEF FileOfSamples, Values
<1>5. ASSUME NEW line, OfSample(line, d), Values(line, d)', file' = Append(file, line), ~cut
      PROVE  FileOfSamples'
  <2>1. line \in FileLine
    BY <1>5 DEF OfSample
  <2>2. /\ Len(file') = Len(file) + 1 /\ file'[Len(file) + 1] = line
        /\ \A i \in 1 .. Len(file) : file'[i] = file[i]
        /\ \A i \in 1 .. Len(file') : i \in 1 .. Len(file) \/ i = Len(file) + 1
    BY <1>0, <1>5, <2>1, Appended
  <2>3. Len(file) = Len(samples)
    BY <1>1, <1>5 DEF FileOfSamples
  <2>4. \A i \in 1 .. Len(file) : OfSample(file'[i], samples'[i]) /\ Values(file[i], samples[i])'
    BY <1>1, <1>3, <1>5, <2>2, <2>3 DEF FileOfSamples, Values
  <2>5. \A i \in 1 .. Len(file') : OfSample(file'[i], samples'[i]) /\ Values(file[i], samples[i])'
    BY <1>3, <1>5, <2>2, <2>3, <2>4
  <2> QED BY <1>0, <1>3, <2>2, <2>3, <2>5 DEF FileOfSamples
<1> QED BY <1>2, <1>4, <1>5, SampleLine DEF Values

\* The server reads the tasks of the samples.
LEMMA ReadsSamples ==
  ASSUME SizesInv, FileOfSamples, ReadSoFar, ReadLine
  PROVE  ReadSoFar'
<1>0. /\ samples \in Seq(Sample) /\ file \in Seq(FileLine) /\ tasks \in Seq(Task)
      /\ Len(file) \in Nat /\ Len(samples) \in Nat /\ Len(tasks) \in Nat /\ lnum \in Nat
  BY DEF SizesInv, TaskFileTypeOK
<1>1. /\ UNCHANGED <<args, samples, file, cut>> /\ lnum < Len(file) /\ lnum' = lnum + 1
      /\ phase = "read"
  BY DEF ReadLine
<1>2. Len(tasks) = lnum
  BY <1>1 DEF ReadSoFar
<1> DEFINE d == samples[lnum + 1]
<1>3. lnum + 1 \in 1 .. Len(file) /\ lnum + 1 \in 1 .. Len(samples)
  BY <1>0, <1>1 DEF FileOfSamples
<1>4. NextLine \in FileLine /\ d \in Sample /\ OfSample(NextLine, d) /\ Values(NextLine, d)
  BY <1>0, <1>3 DEF FileOfSamples, NextLine
<1>5. (~cut => Parses(NextLine)) /\ (Parses(NextLine) => TaskOf(Parsed(NextLine), d))
  BY <1>4, LineOfSample
<1>6. ~NextLine.empty
  BY <1>4 DEF OfSample
<1>7. CASE Parses(NextLine)
  <2>1. tasks' = Append(tasks, Parsed(NextLine)) /\ phase' = phase
    BY <1>6, <1>7 DEF ReadLine
  <2>2. Parsed(NextLine) \in Task
    BY <1>4, <1>6, <1>7, ParsedIsSized
  <2>3. /\ Len(tasks') = Len(tasks) + 1 /\ tasks'[Len(tasks) + 1] = Parsed(NextLine)
        /\ \A i \in 1 .. Len(tasks) : tasks'[i] = tasks[i]
        /\ \A i \in 1 .. Len(tasks') : i \in 1 .. Len(tasks) \/ i = Len(tasks) + 1
    BY <1>0, <2>1, <2>2, Appended
  <2>4. \A i \in 1 .. Len(tasks') : TaskOf(tasks'[i], samples[i])
    BY <1>2, <1>5, <1>7, <2>3 DEF ReadSoFar
  <2> QED BY <1>1, <1>2, <2>1, <2>3, <2>4 DEF ReadSoFar
<1>8. CASE ~Parses(NextLine)
  <2>1. tasks' = tasks /\ phase' = "thrown" /\ cut
    BY <1>5, <1>6, <1>8 DEF ReadLine
  <2> QED BY <1>0, <1>1, <1>2, <2>1 DEF ReadSoFar
<1> QED BY <1>7, <1>8

\* Every step keeps the file and the tasks those of the samples.
LEMMA SamplesInductive == SizesInv /\ SamplesInv /\ [Next]_vars => SamplesInv'
<1> SUFFICES ASSUME SizesInv, SamplesInv, [Next]_vars PROVE SamplesInv'
  OBVIOUS
<1>0. /\ samples \in Seq(Sample) /\ file \in Seq(FileLine) /\ tasks \in Seq(Task)
      /\ Len(file) \in Nat /\ Len(samples) \in Nat /\ Len(tasks) \in Nat
  BY DEF SizesInv, TaskFileTypeOK
<1>1. CASE Refuse
  BY <1>1 DEF Refuse, SamplesInv
<1>2. CASE OpenFile
  BY <1>2 DEF OpenFile, SamplesInv, FileOfSamples, ReadSoFar
<1>3. CASE WriteSample
  <2>1. FileOfSamples'
    BY <1>3, WritesSamples
  <2>2. /\ phase = "generate" /\ UNCHANGED <<args, lnum, tasks, phase>> /\ lnum = 0
        /\ ReadSoFar
    BY <1>3 DEF WriteSample, SizesInv, SamplesInv
  <2>3. Len(tasks) = 0
    BY <2>2 DEF ReadSoFar
  <2>4. ReadSoFar'
    BY <2>2, <2>3 DEF ReadSoFar
  <2> QED BY <2>1, <2>2, <2>4 DEF SamplesInv
<1>4. CASE CloseFile
  BY <1>4 DEF CloseFile, SamplesInv, FileOfSamples, ReadSoFar, Values
<1>5. CASE ReadLine
  <2>1. UNCHANGED <<args, samples, file, cut>> /\ phase = "read" /\ phase' \in {"read", "thrown"}
    BY <1>5 DEF ReadLine
  <2>2. CASE samples = <<>>
    BY <2>1, <2>2 DEF SamplesInv
  <2>3. CASE samples # <<>>
    <3>1. FileOfSamples /\ ReadSoFar
      BY <2>3 DEF SamplesInv
    <3>2. FileOfSamples'
      BY <2>1, <3>1 DEF FileOfSamples, Values
    <3> QED BY <1>5, <2>1, <3>1, <3>2, ReadsSamples DEF SamplesInv
  <2> QED BY <2>2, <2>3
<1>6. CASE Loaded
  BY <1>6 DEF Loaded, SamplesInv, FileOfSamples, ReadSoFar, Values
<1>7. CASE Ended \/ UNCHANGED vars
  BY <1>7 DEF Ended, vars, SamplesInv, FileOfSamples, ReadSoFar, Values
<1> QED BY <1>1, <1>2, <1>3, <1>4, <1>5, <1>6, <1>7 DEF Next

\* What holds in every state of the generator and the reader.
LEMMA AlwaysSamples == Spec => [](SizesInv /\ SamplesInv)
<1>1. Init => SamplesInv
  BY DEF Init, SamplesInv
<1> QED BY <1>1, SizesInitially, SizesInductive, SamplesInductive, PTL DEF Spec

\* Every task a server works on is the sample of its position, wherever the file is cut
\* and however the arguments were truncated.
THEOREM TasksOfSamples == Spec => []TasksAreSamples
<1>1. SizesInv /\ SamplesInv => TasksAreSamples
  <2> SUFFICES ASSUME SizesInv, SamplesInv, samples # <<>>, NEW i \in 1 .. Len(tasks)
               PROVE  i <= Len(samples) /\ TaskOf(tasks[i], samples[i])
    BY DEF TasksAreSamples, TaskOf
  <2>1. FileOfSamples /\ ReadSoFar
    BY DEF SamplesInv
  <2>2. Len(tasks) \in Nat /\ Len(file) \in Nat /\ Len(samples) \in Nat /\ lnum \in 0 .. Len(file)
    BY DEF SizesInv, TaskFileTypeOK
  <2>3. Len(tasks) <= lnum /\ Len(file) <= Len(samples)
    BY <2>1, <2>2 DEF ReadSoFar, FileOfSamples
  <2> QED BY <2>1, <2>2, <2>3 DEF ReadSoFar
<1> QED BY <1>1, AlwaysSamples, PTL

\* A file that was written completely is read completely.
THEOREM ReadsWhatWasWritten == Spec => []RoundTrip
<1>1. SizesInv /\ SamplesInv => RoundTrip
  BY DEF SamplesInv, FileOfSamples, ReadSoFar, RoundTrip
<1> QED BY <1>1, AlwaysSamples, PTL
=============================================================================
