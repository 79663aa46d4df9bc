---------------------------- MODULE MCTaskTiming ----------------------------
\* Two patterns of values for each matrix of up to 2x2, two kernels and a
\* machine without MemAvailable or with its lines the other way round.
EXTENDS TaskTiming

Ramp(size)  == [p \in 0 .. (size - 1) |-> p + 1]
Mixed(size) == [p \in 0 .. (size - 1) |-> IF p % 2 = 0 THEN -1 ELSE 2]

MCTasks ==
  {Sentinel} \cup
  UNION {{[n |-> n, m |-> m, k |-> k, a |-> a, b |-> b] :
            a \in {Ramp(n * m), Mixed(n * m)}, b \in {Ramp(m * k), Mixed(m * k)}} :
         <<n, m, k>> \in (1 .. 2) \X (1 .. 2) \X (1 .. 2)}

MCOffsets == {-2, 0, 3}

Entry(key, value) == [key |-> key, value |-> value]
MCMeminfos ==
  {<<Entry("MemTotal", 90), Entry("MemFree", 7), Entry("MemAvailable", 20)>>,
   <<Entry("MemAvailable", 20), Entry("SwapTotal", 50), Entry("MemTotal", 90)>>,
   <<Entry("MemTotal", 90), Entry("MemFree", 7)>>}

MCStats == {<<>>, <<30, 1, 9, 60>>, <<5, 0, 7, 50, 9, 2, 1, 3, 4, 4>>}
=============================================================================
