--------------------------- MODULE TaskDistribution ---------------------------
(***************************************************************************)
(* What both masters of the benchmark promise, with no threads, messages   *)
(* or counters: every task of the task file is handed to at most one       *)
(* worker, is then either timed or lost with that worker, and one report   *)
(* (the CSV) is written once no task is waiting or under way, with a row   *)
(* of timings for exactly the tasks that were timed.                       *)
(***************************************************************************)
EXTENDS Integers

CONSTANT Task                 \* the tasks of the task file

VARIABLES
  state,                      \* what has become of each task
  published,                  \* has the report been written?
  report                      \* the tasks whose timings the report holds

abstractVars == <<state, published, report>>

TaskStates == {"queued", "assigned", "recorded", "lost"}

TypeOK ==
  /\ state \in [Task -> TaskStates]
  /\ published \in BOOLEAN
  /\ report \in SUBSET Task

Recorded == {t \in Task : state[t] = "recorded"}

Init ==
  /\ state = [t \in Task |-> "queued"]
  /\ published = FALSE
  /\ report = {}

\* A worker is given a task that nobody was given before.
Assign(t) ==
  /\ state[t] = "queued"
  /\ state' = [state EXCEPT ![t] = "assigned"]
  /\ UNCHANGED <<published, report>>

\* The worker answers: its timings are kept.
Record(t) ==
  /\ state[t] = "assigned"
  /\ state' = [state EXCEPT ![t] = "recorded"]
  /\ UNCHANGED <<published, report>>

\* The worker is gone: the task is not handed out again.
Lose(t) ==
  /\ state[t] = "assigned"
  /\ state' = [state EXCEPT ![t] = "lost"]
  /\ UNCHANGED <<published, report>>

\* Once every task is settled the timings are reported, once.
Publish ==
  /\ ~published
  /\ \A t \in Task : state[t] \in {"recorded", "lost"}
  /\ published' = TRUE
  /\ report' = Recorded
  /\ UNCHANGED state

Next ==
  \/ \E t \in Task : Assign(t) \/ Record(t) \/ Lose(t)
  \/ Publish

Spec == Init /\ [][Next]_abstractVars
=============================================================================
