------------------------------- MODULE Recovery -------------------------------
(***************************************************************************)
(* Tasks that outlive the process: the rows the runtime keeps in TaskQueue *)
(* (crates/electro-agent/src/task_queue.rs) and the plans RecoveryManager  *)
(* (recovery.rs) makes of what a crash left.  A write of a row may fail;   *)
(* the runtime logs that and goes on.  A scan reads the rows once, then    *)
(* looks up and marks each task under two separate locks.                  *)
(***************************************************************************)
EXTENDS Naturals, FiniteSets

CONSTANTS
  Tasks,        \* tasks that are ever created
  Scanners,     \* callers of recover_incomplete_tasks at the same time
  MaxRounds     \* bound: tool rounds of a task

ASSUME RecoveryAssumption == MaxRounds \in Nat

VARIABLES
  row,          \* per task: its status in the table
  saved,        \* per task: tool rounds in its checkpoint, 0 if it has none
  rounds,       \* per task: tool rounds executed
  working,      \* tasks this process works on
  unsaved,      \* tasks whose last checkpoint could not be written
  old,          \* tasks created more than 24 hours ago
  found,        \* per scanner: the rows it read and still has to look at
  looked,       \* per scanner: the task it found unmarked, or NoTask
  recoveredIds, \* recovered_ids
  plans,        \* plans made by this process
  planned       \* per task: how many plans (history variable)

recoveryVars == <<row, saved, rounds, working, unsaved, old, found, looked,
                  recoveredIds, plans, planned>>
rowVars == <<row, saved, rounds, working, unsaved, old>>
scanVars == <<found, looked, recoveredIds, plans, planned>>

NoTask == "noTask"
Statuses == {"none", "pending", "running", "completed", "failed"}
Incomplete == {t \in Tasks : row[t] \in {"pending", "running"}}
Found == [task : Tasks, saved : 0 .. MaxRounds, executed : 0 .. MaxRounds, unsaved : BOOLEAN]

RecoveryInit ==
  /\ row = [t \in Tasks |-> "none"] /\ saved = [t \in Tasks |-> 0]
  /\ rounds = [t \in Tasks |-> 0] /\ working = {} /\ unsaved = {} /\ old = {}
  /\ found = [s \in Scanners |-> {}] /\ looked = [s \in Scanners |-> NoTask]
  /\ recoveredIds = {} /\ plans = {} /\ planned = [t \in Tasks |-> 0]

\* create_task, then Running; either write may fail.
CreateTask(t) ==
  /\ row[t] = "none" /\ t \notin working /\ rounds[t] = 0
  /\ working' = working \cup {t}
  /\ \E status \in {"none", "pending", "running"} : row' = [row EXCEPT ![t] = status]
  /\ UNCHANGED <<saved, rounds, unsaved, old, scanVars>>

\* A tool round is executed,
RunRound(t) ==
  /\ t \in working /\ rounds[t] < MaxRounds
  /\ rounds[t] = saved[t] \/ t \in unsaved \/ row[t] = "none"
  /\ rounds' = [rounds EXCEPT ![t] = @ + 1]
  /\ UNCHANGED <<row, saved, working, unsaved, old, scanVars>>
\* and the whole history is the next checkpoint.
Checkpoint(t) ==
  /\ t \in working /\ row[t] # "none" /\ rounds[t] > saved[t]
  /\ \/ saved' = [saved EXCEPT ![t] = rounds[t]] /\ unsaved' = unsaved \ {t}
     \/ unsaved' = unsaved \cup {t} /\ UNCHANGED saved
  /\ UNCHANGED <<row, rounds, working, old, scanVars>>

\* The final reply marks the row; an error, a stop or an early return does not.
EndTask(t) ==
  /\ t \in working /\ working' = working \ {t}
  /\ \/ row[t] # "none" /\ row' = [row EXCEPT ![t] = "completed"]
     \/ UNCHANGED row
  /\ UNCHANGED <<saved, rounds, unsaved, old, scanVars>>

GetOld(t) ==
  /\ row[t] # "none" /\ t \notin old /\ old' = old \cup {t}
  /\ UNCHANGED <<row, saved, rounds, working, unsaved, scanVars>>

\* The process ends; the table stays.
CrashAndStart ==
  /\ working # {} \/ recoveredIds # {}
  /\ working' = {} /\ found' = [s \in Scanners |-> {}]
  /\ looked' = [s \in Scanners |-> NoTask]
  /\ recoveredIds' = {} /\ plans' = {} /\ planned' = [t \in Tasks |-> 0]
  /\ UNCHANGED <<row, saved, rounds, unsaved, old>>

-----------------------------------------------------------------------------
Rows(S) == {[task |-> t, saved |-> saved[t], executed |-> rounds[t],
             unsaved |-> t \in unsaved] : t \in S}

\* load_incomplete.
LoadIncomplete(s) ==
  /\ found[s] = {} /\ looked[s] = NoTask /\ Incomplete # {}
  /\ found' = [found EXCEPT ![s] = Rows(Incomplete)]
  /\ UNCHANGED <<rowVars, looked, recoveredIds, plans, planned>>

\* The next row: marked already, or to be planned.
LookUp(s) ==
  /\ looked[s] = NoTask
  /\ \E f \in found[s] :
       IF f.task \in recoveredIds
       THEN found' = [found EXCEPT ![s] = @ \ {f}] /\ UNCHANGED looked
       ELSE looked' = [looked EXCEPT ![s] = f.task] /\ UNCHANGED found
  /\ UNCHANGED <<rowVars, recoveredIds, plans, planned>>

\* Mutant: a row with a checkpoint is resumed however old it is.
ClassifyByCheckpoint(f) == IF f.saved > 0 THEN "resume"
                           ELSE IF f.task \in old THEN "abandon" ELSE "restart"

\* classify_recovery.
Classify(f) == IF f.task \in old THEN "abandon" ELSE IF f.saved > 0 THEN "resume" ELSE "restart"

\* Mutant: the task is not marked.
PlanUnmarked(s) ==
  /\ looked[s] # NoTask
  /\ \E f \in found[s] :
       /\ f.task = looked[s]
       /\ plans' = plans \cup {[of |-> f, late |-> f.task \in old, action |-> Classify(f)]}
       /\ found' = [found EXCEPT ![s] = @ \ {f}]
       /\ planned' = [planned EXCEPT ![f.task] = IF @ < 2 THEN @ + 1 ELSE @]
  /\ looked' = [looked EXCEPT ![s] = NoTask]
  /\ UNCHANGED <<rowVars, recoveredIds>>

\* The plan, and the mark.
PlanTask(s) ==
  /\ looked[s] # NoTask
  /\ \E f \in found[s] :
       /\ f.task = looked[s]
       /\ plans' = plans \cup {[of |-> f, late |-> f.task \in old, action |-> Classify(f)]}
       /\ found' = [found EXCEPT ![s] = @ \ {f}]
       /\ planned' = [planned EXCEPT ![f.task] = IF @ < 2 THEN @ + 1 ELSE @]
  /\ recoveredIds' = recoveredIds \cup {looked[s]}
  /\ looked' = [looked EXCEPT ![s] = NoTask]
  /\ UNCHANGED rowVars

\* apply_abandonments: one row; the write may fail and end the loop.
ApplyAbandonment(p) ==
  /\ p \in plans /\ p.action = "abandon" /\ row[p.of.task] # "failed"
  /\ row' = [row EXCEPT ![p.of.task] = "failed"]
  /\ UNCHANGED <<saved, rounds, working, unsaved, old, scanVars>>

RecoveryNext ==
  \/ \E t \in Tasks : CreateTask(t) \/ RunRound(t) \/ Checkpoint(t) \/ EndTask(t) \/ GetOld(t)
  \/ CrashAndStart
  \/ \E s \in Scanners : LoadIncomplete(s) \/ LookUp(s) \/ PlanTask(s)
  \/ \E p \in plans : ApplyAbandonment(p)

RecoverySpec == RecoveryInit /\ [][RecoveryNext]_recoveryVars

-----------------------------------------------------------------------------
\* Every variable keeps its type.
RecoveryTypeOK ==
  /\ row \in [Tasks -> Statuses]
  /\ saved \in [Tasks -> 0 .. MaxRounds] /\ rounds \in [Tasks -> 0 .. MaxRounds]
  /\ working \subseteq Tasks /\ unsaved \subseteq Tasks /\ old \subseteq Tasks
  /\ found \in [Scanners -> SUBSET Found]
  /\ looked \in [Scanners -> Tasks \cup {NoTask}] /\ recoveredIds \subseteq Tasks
  /\ \A p \in plans : p.of \in Found /\ p.late \in BOOLEAN /\ p.action \in {"resume", "restart", "abandon"}
  /\ planned \in [Tasks -> 0 .. 2]

\* "Idempotency": one process plans a task once, however often it is scanned.
RecoveredOnce == \A t \in Tasks : planned[t] <= 1

\* A plan never tells of rounds that were not executed, and misses at most the
\* last one unless its checkpoint could not be written; what is too old is not
\* executed again.
PlanKnowsWhatRan ==
  \A p \in plans :
    /\ p.of.saved <= p.of.executed
    /\ p.of.unsaved \/ p.of.executed <= p.of.saved + 1
    /\ p.late => p.action = "abandon"

\* Both: recovery decides about each task once, and from what really happened.
RecoverySound == RecoveredOnce /\ PlanKnowsWhatRan
=============================================================================
