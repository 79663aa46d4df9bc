------------------------------- MODULE TaskFile -------------------------------
(***************************************************************************)
(* The task file: gen-tasks writes it (common/gen_tasks.cpp), or a hand    *)
(* does, and both servers read it (read_tasks in common/utils.hpp).  Sizes *)
(* are 32-bit unsigned: Word stands for 2^32.                              *)
(*                                                                         *)
(* A line is reduced to its three numbers and how many values each of its  *)
(* other fields holds; an empty line to Empty.  No write is tested: a full *)
(* disk cuts the file anywhere and gen-tasks still returns 0.              *)
(***************************************************************************)
EXTENDS Integers, Sequences

CONSTANTS
  Word,                       \* 2^32
  MAX_D,                      \* the largest dimension gen-tasks accepts
  Typed,                      \* the arguments of gen-tasks, as typed
  HandWritten                 \* files that were written by hand

ASSUME TaskFileAssumption ==
  /\ Word \in Nat /\ MAX_D \in Nat /\ MAX_D * MAX_D < Word
  /\ Typed \subseteq [num_samples : Nat, dim_lower : Nat, dim_upper : Nat]
  /\ HandWritten \subseteq
       Seq([empty : {TRUE}]
           \cup [empty : {FALSE}, n : Int, m : Int, k : Int, values : Seq(Nat)])

VARIABLES
  args,                       \* the arguments of gen-tasks, as it understood them
  samples,                    \* the dimensions gen-tasks drew
  file,                       \* the lines of the file
  cut,                        \* is the disk full?
  lnum,                       \* lines the server has read
  tasks,                      \* what it made of them
  phase                       \* "start", "refused", "generate", "read", "loaded",
                              \* "thrown"

vars == <<args, samples, file, cut, lnum, tasks, phase>>

U32(x) == x % Word

Empty == [empty |-> TRUE]
Line(n, m, k, values) ==
  [empty |-> FALSE, n |-> n, m |-> m, k |-> k, values |-> values]

NoArguments == [num_samples |-> 0, dim_lower |-> 0, dim_upper |-> 0]

Init ==
  /\ samples = <<>>
  /\ cut = FALSE
  /\ lnum = 0
  /\ tasks = <<>>
  /\ \/ file = <<>> /\ phase = "start"
        /\ args \in {[a \in DOMAIN typed |-> U32(typed[a])] : typed \in Typed}
     \/ file \in HandWritten /\ phase = "read" /\ args = NoArguments

-----------------------------------------------------------------------------
\* gen-tasks

\* Mutant of Accepted: no limit to the dimensions.
AcceptedAnySize == args.dim_lower >= 1 /\ args.dim_lower <= args.dim_upper

Accepted ==
  /\ args.dim_lower >= 1 /\ args.dim_lower <= args.dim_upper
  /\ args.dim_upper <= MAX_D

\* It returns 1 for other arguments, and for any if it cannot open the file; no
\* server is started then (run_benchmark.py:190, start-server.sh:2).
Refuse ==
  /\ phase = "start"
  /\ phase' = "refused"
  /\ UNCHANGED <<args, samples, file, cut, lnum, tasks>>

OpenFile ==
  /\ phase = "start"
  /\ Accepted
  /\ phase' = "generate"
  /\ UNCHANGED <<args, samples, file, cut, lnum, tasks>>

\* Mutant of Written: the second matrix is given the size of the first.
WrittenSquare(d) == Line(d.n, d.m, d.k, <<U32(d.n * d.m), U32(d.n * d.m)>>)

\* The line of a sample, sizes computed in 32 bits.
Written(d) == Line(d.n, d.m, d.k, <<U32(d.n * d.m), U32(d.m * d.k)>>)

\* What a full disk may leave of it.  If it is all but some digits of the last
\* number, which no count can tell, all values are there.
Cuts(line) ==
  {[line EXCEPT !.values = <<a>>] : a \in 0 .. line.values[1]} \cup
  {[line EXCEPT !.values = <<@[1], b>>] : b \in 0 .. line.values[2]}

Sampled ==
  LET dims == args.dim_lower .. args.dim_upper IN [n : dims, m : dims, k : dims]

WriteSample ==
  /\ phase = "generate"
  /\ Len(samples) < args.num_samples
  /\ \E d \in Sampled :
       /\ samples' = Append(samples, d)
       /\ \/ /\ ~cut
             /\ file' = Append(file, Written(d)) /\ UNCHANGED cut
          \/ /\ ~cut /\ cut' = TRUE
             /\ \/ UNCHANGED file
                \/ \E line \in Cuts(Written(d)) : file' = Append(file, line)
          \/ /\ cut
             /\ UNCHANGED <<file, cut>>
  /\ UNCHANGED <<args, lnum, tasks, phase>>

CloseFile ==
  /\ phase = "generate"
  /\ Len(samples) = args.num_samples
  /\ phase' = "read"
  /\ UNCHANGED <<args, samples, file, cut, lnum, tasks>>

-----------------------------------------------------------------------------
\* read_tasks

\* Mutant of Parses: the number of values is not compared with the dimensions.
ParsesAnySize(line) ==
  /\ U32(line.n) > 0 /\ U32(line.m) > 0 /\ U32(line.k) > 0
  /\ Len(line.values) = 2

\* parse_task returns: numbers are truncated and products wrap.
Parses(line) ==
  /\ U32(line.n) > 0 /\ U32(line.m) > 0 /\ U32(line.k) > 0
  /\ line.values = <<U32(U32(line.n) * U32(line.m)), U32(U32(line.m) * U32(line.k))>>

Parsed(line) ==
  [n |-> U32(line.n), m |-> U32(line.m), k |-> U32(line.k),
   a |-> line.values[1], b |-> line.values[2]]

NextLine == file[lnum + 1]

ReadLine ==
  /\ phase = "read"
  /\ lnum < Len(file)
  /\ lnum' = lnum + 1
  /\ \/ NextLine.empty /\ UNCHANGED <<tasks, phase>>
     \/ /\ ~NextLine.empty /\ Parses(NextLine)
        /\ tasks' = Append(tasks, Parsed(NextLine))
        /\ UNCHANGED phase
     \/ /\ ~NextLine.empty /\ ~Parses(NextLine)
        /\ phase' = "thrown"
        /\ UNCHANGED tasks
  /\ UNCHANGED <<args, samples, file, cut>>

Loaded ==
  /\ phase = "read"
  /\ lnum = Len(file)
  /\ phase' = "loaded"
  /\ UNCHANGED <<args, samples, file, cut, lnum, tasks>>

Ended == phase \in {"refused", "loaded", "thrown"} /\ UNCHANGED vars

Next ==
  \/ Refuse \/ OpenFile \/ WriteSample \/ CloseFile
  \/ ReadLine \/ Loaded
  \/ Ended

Spec == Init /\ [][Next]_vars

-----------------------------------------------------------------------------
\* Properties

\* Every task a server works on is the sample of its position: the generator
\* and the parser agree on 32-bit sizes, which no accepted arguments make wrap,
\* not even those that were truncated themselves, and no cut of the file shifts or
\* resizes a task (gen_tasks.cpp:35-51, 74-97, utils.hpp:47-75).
TasksAreSamples ==
  samples # <<>> =>
    \A i \in 1 .. Len(tasks) :
      /\ i <= Len(samples)
      /\ tasks[i] = [n |-> samples[i].n, m |-> samples[i].m, k |-> samples[i].k,
                     a |-> samples[i].n * samples[i].m,
                     b |-> samples[i].m * samples[i].k]

\* A file that was written completely is read completely (run_benchmark.py:190).
RoundTrip ==
  /\ ~cut /\ samples # <<>> => phase # "thrown"
  /\ ~cut /\ phase = "loaded" /\ samples # <<>> => Len(tasks) = Len(samples)

\* The work on a task stays inside of its matrices: every index that multiply
\* computes, in 32 bits, is a position of the matrices as they were read
\* (utils.hpp:119-131), in files written by hand too, as long as no size needs
\* more than 32 bits.  In a release build nothing else looks at the sizes: the
\* assertions before the loops are gone.
Fits(t) == t.n * t.m < Word /\ t.m * t.k < Word /\ t.n * t.k < Word

IndicesInside ==
  \A p \in 1 .. Len(tasks) :
    LET t == tasks[p]
    IN  Fits(t) =>
          \A i \in 0 .. (t.n - 1), k \in 0 .. (t.m - 1), j \in 0 .. (t.k - 1) :
            /\ U32(U32(i * t.m) + k) < t.a
            /\ U32(U32(k * t.k) + j) < t.b
            /\ U32(U32(i * t.k) + j) < U32(t.n * t.k)
=============================================================================
