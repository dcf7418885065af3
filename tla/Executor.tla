------------------------------- MODULE Executor -------------------------------
(***************************************************************************)
(* execute_tools_parallel of crates/electro-agent/src/executor.rs: a batch *)
(* of tool calls is cut into groups that may depend on each other; a group *)
(* is a spawned task that makes its calls one by one, each under a permit  *)
(* of the semaphore; the results go back into the order of the calls.      *)
(***************************************************************************)
EXTENDS Naturals, FiniteSets

CONSTANTS
  BatchSize,      \* calls of a batch
  Files,          \* paths as they are written in the arguments
  MaxConcurrent   \* max_concurrent, already 5 if it was 0

ASSUME ExecutorAssumption == BatchSize \in Nat /\ MaxConcurrent \in Nat \ {0}

VARIABLES
  calls,      \* the batch: tool and the paths in the arguments of each call
  groupOf,    \* per call: the calls of its group, {} before the grouping
  place,      \* per call: waiting, running, ended, or panicked
  joined,     \* calls whose group's task was joined
  results     \* per call: none, its own (output or error), or the error of a
              \* panicked task

executorVars == <<calls, groupOf, place, joined, results>>

Batch == 1 .. BatchSize

\* Tools by what the code asks of a name: "shell", one that writes the paths it
\* names, one that only reads, and others: with two paths or with none.
CallKinds == [tool : {"file_read", "file_write"}, paths : {{f} : f \in Files}]
             \cup [tool : {"shell", "web_fetch"}, paths : {{}}]
             \cup [tool : {"file_move"}, paths : {Files}]
WritePaths(c) == IF c.tool = "file_read" THEN {} ELSE c.paths

Dependent(a, b) ==
  \/ a.tool = "shell" /\ b.tool = "shell"
  \/ a.paths = {} /\ b.paths = {} /\ a.tool = b.tool /\ a.tool # "file_read"
  \/ a.paths \cap b.paths \cap (WritePaths(a) \cup WritePaths(b)) # {}

\* The union-find: per call what cannot be kept apart from it, so what is in
\* every set with it that holds both calls of a pair or neither.
Classes(pairs) ==
  [i \in Batch |-> {j \in Batch : \A C \in SUBSET Batch :
     i \in C /\ (\A p \in pairs : p[1] \in C <=> p[2] \in C) => j \in C}]

\* Mutant: only two calls of one tool that writes depend on each other.
GroupingOneSided == Classes({p \in Batch \X Batch :
  /\ calls[p[1]].tool # "file_read" /\ calls[p[1]].tool = calls[p[2]].tool
  /\ Dependent(calls[p[1]], calls[p[2]])})

\* detect_dependencies.
Grouping == Classes({p \in Batch \X Batch : Dependent(calls[p[1]], calls[p[2]])})

ExecutorInit ==
  /\ calls \in [Batch -> CallKinds]
  /\ groupOf = [i \in Batch |-> {}]
  /\ place = [i \in Batch |-> "waiting"]
  /\ joined = {} /\ results = [i \in Batch |-> "none"]

Spawn ==
  /\ \A i \in Batch : groupOf[i] = {}
  /\ groupOf' = Grouping
  /\ UNCHANGED <<calls, place, joined, results>>

Running == {i \in Batch : place[i] = "running"}

\* The next call of a group gets a permit.
StartCall(i) ==
  /\ groupOf[i] # {} /\ place[i] = "waiting"
  /\ \A j \in groupOf[i] : j < i => place[j] = "ended"
  /\ Cardinality(Running) < MaxConcurrent
  /\ place' = [place EXCEPT ![i] = "running"]
  /\ UNCHANGED <<calls, groupOf, joined, results>>

\* A call ends, well or with an error, or its tool panics; either gives the
\* permit back, and a panic ends the task of the group.
EndCall(i) ==
  /\ place[i] = "running"
  /\ \E end \in {"ended", "panicked"} : place' = [place EXCEPT ![i] = end]
  /\ UNCHANGED <<calls, groupOf, joined, results>>

GroupEnded(g) == \/ \A i \in g : place[i] = "ended"
                 \/ \E i \in g : place[i] = "panicked"

\* Mutant: the results of a task that panicked stay unanswered.
JoinWithoutErrors(i) ==
  /\ groupOf[i] # {} /\ i \notin joined /\ GroupEnded(groupOf[i])
  /\ joined' = joined \cup groupOf[i]
  /\ results' = [j \in Batch |-> IF j \in groupOf[i] /\ place[j] = "ended"
                                 THEN "own" ELSE results[j]]
  /\ UNCHANGED <<calls, groupOf, place>>

\* A task is joined: its results are put at their indices; of a task that
\* panicked no result is left, each of its calls is answered with an error.
Join(i) ==
  /\ groupOf[i] # {} /\ i \notin joined /\ GroupEnded(groupOf[i])
  /\ joined' = joined \cup groupOf[i]
  /\ LET answer == IF \E j \in groupOf[i] : place[j] = "panicked" THEN "panicked" ELSE "own"
     IN results' = [j \in Batch |-> IF j \in groupOf[i] THEN answer ELSE results[j]]
  /\ UNCHANGED <<calls, groupOf, place>>

ExecutorNext == Spawn \/ \E i \in Batch : StartCall(i) \/ EndCall(i) \/ Join(i)

ExecutorSpec == ExecutorInit /\ [][ExecutorNext]_executorVars

-----------------------------------------------------------------------------
\* Every variable keeps its type.
ExecutorTypeOK ==
  /\ calls \in [Batch -> CallKinds]
  /\ groupOf \in [Batch -> SUBSET Batch]
  /\ place \in [Batch -> {"waiting", "running", "ended", "panicked"}]
  /\ joined \subseteq Batch
  /\ results \in [Batch -> {"none", "own", "panicked"}]

\* Two calls that name the same file, one of them to write it, are made in the
\* order the model asked for them and never at the same time.
ConflictsInOrder == \A i, j \in Batch :
  i < j /\ calls[i].paths \cap calls[j].paths # {}
        /\ (calls[i].tool = "file_write" \/ calls[j].tool = "file_write")
        /\ place[j] # "waiting"
    => place[i] = "ended"

\* When every task was joined each call has its answer, also when a tool
\* panicked in the middle of a group.
EveryCallAnswered == joined = Batch => \A i \in Batch : results[i] # "none"

\* Both: running calls in parallel is not seen by the files or by the model.
BatchInOrder == ConflictsInOrder /\ EveryCallAnswered
=============================================================================
