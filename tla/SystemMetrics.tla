----------------------------- MODULE SystemMetrics -----------------------------
(***************************************************************************)
(* What a worker reads of its machine's state (common/utils.hpp).  A line  *)
(* of /proc/meminfo is its key and its number; the first line of           *)
(* /proc/stat is its counters, of which old kernels have fewer than eight  *)
(* and new ones more.  size_t holds SizeWord values.                       *)
(***************************************************************************)
EXTENDS Integers, SequencesExt

CONSTANT SizeWord             \* 2^64

ASSUME SizeWordAssumption == SizeWord \in Nat \ {0}

Entries == [key : STRING, value : 0 .. (SizeWord - 1)]

\* The kernel writes each number on one line at most, and never has more memory
\* available than there is.
IsMeminfo(lines) ==
  /\ lines \in Seq(Entries)
  /\ \A i, j \in DOMAIN lines :
       lines[i].key = lines[j].key /\ lines[i].key \in {"MemTotal", "MemAvailable"} => i = j
  /\ \A j \in DOMAIN lines : lines[j].key = "MemAvailable" =>
       \E i \in DOMAIN lines : lines[i].key = "MemTotal" /\ lines[j].value <= lines[i].value

\* Mutant of Seen: one of the two lines is enough to stop.
SeenAny(mem) == mem.MemTotal # 0 \/ mem.MemAvailable # 0

Seen(mem) == mem.MemTotal # 0 /\ mem.MemAvailable # 0

\* A line is looked at unless both numbers were seen.
ReadLine(mem, line) ==
  IF ~Seen(mem) /\ line.key \in DOMAIN mem
    THEN [mem EXCEPT ![line.key] = line.value]
    ELSE mem

\* The difference is unsigned, so the maximum with 0 that is taken of it is the
\* difference itself.
get_ram_used_kb(meminfo) ==
  LET mem == FoldLeft(ReadLine, [MemTotal |-> 0, MemAvailable |-> 0], meminfo)
  IN  (mem.MemTotal - mem.MemAvailable) % SizeWord

\* user, nice, system, idle, iowait, irq, softirq, steal; 0 if not in the line
Counter(stat, i) == IF i <= Len(stat) THEN stat[i] ELSE 0

CpuTotal(stat) == MapThenSumSet(LAMBDA i : Counter(stat, i), 1 .. 8)
CpuBusy(stat) == CpuTotal(stat) - Counter(stat, 4) - Counter(stat, 5)

\* Of the time since the machine was started, rounded down.
get_cpu_usage_percent(stat) ==
  IF CpuTotal(stat) = 0 THEN 0 ELSE (CpuBusy(stat) * 100) \div CpuTotal(stat)
=============================================================================
