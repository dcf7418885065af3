------------------------------ MODULE Delegation ------------------------------
(***************************************************************************)
(* How a task of crates/electro-agent is divided, to sub-agents and into   *)
(* sub-tasks.                                                              *)
(*                                                                         *)
(* DelegationManager of delegation.rs: tasks plan how many sub-agents they *)
(* may have from a count they read, and register each by fetch_add, taken  *)
(* back by fetch_sub when the limit was reached.  The three atomic         *)
(* operations are steps; no lock joins them.                               *)
(*                                                                         *)
(* TaskGraph of task_decomposition.rs: sub-tasks with dependencies,        *)
(* checked when the graph is made, run when they are ready, and reported   *)
(* by whoever runs them - a report of a run that was given up (the caller  *)
(* marked it failed) may still arrive later.                               *)
(***************************************************************************)
EXTENDS Integers, FiniteSets

CONSTANTS
  Planners,    \* tasks that delegate at the same time
  MaxAgents,   \* max_total_agents
  MaxParts,    \* bound: parts a task is split into
  SubTasks     \* sub-tasks of the graph

ASSUME DelegationAssumption == MaxAgents \in Nat /\ MaxParts \in Nat \ {0}
                               /\ IsFiniteSet(Planners)
ASSUME DecompositionAssumption == IsFiniteSet(SubTasks)

VARIABLES
  spawned,     \* spawned_count
  toSpawn,     \* per planner: planned sub-agents it still has to register
  undoing,     \* planners whose fetch_add went over the limit, before fetch_sub
  slots,       \* per planner: the numbers register_spawn returned to it
  refusals,    \* planners that were refused a sub-agent
  agents,      \* status of the sub-agent of each slot
  deps,        \* dependencies of each sub-task
  graph,       \* "new" before TaskGraph::new, then "accepted" or "refused"
  subStatus,   \* status of each sub-task
  lateReports, \* sub-tasks given up whose report is still on its way
  undone       \* those marked as failed after they had completed (history)

delegationVars == <<spawned, toSpawn, undoing, slots, refusals, agents>>
decompositionVars == <<deps, graph, subStatus, lateReports, undone>>

-----------------------------------------------------------------------------
(* The sub-agents.                                                         *)

Slots == 1 .. MaxAgents
Least2(i, j) == IF i < j THEN i ELSE j

DelegationInit ==
  /\ spawned = 0 /\ toSpawn = [p \in Planners |-> 0] /\ undoing = {}
  /\ slots = [p \in Planners |-> {}] /\ refusals = {}
  /\ agents = [s \in Slots |-> "none"]

\* plan_delegation: as many sub-agents as parts, cut to what the count read
\* now leaves; with nothing left it is an error.
Plan(p) ==
  /\ toSpawn[p] = 0 /\ slots[p] = {} /\ p \notin undoing \cup refusals
  /\ spawned < MaxAgents
  /\ \E parts \in 1 .. MaxParts :
       toSpawn' = [toSpawn EXCEPT ![p] = Least2(parts, MaxAgents - spawned)]
  /\ UNCHANGED <<spawned, undoing, slots, refusals, agents>>
PlanRefused(p) ==
  /\ toSpawn[p] = 0 /\ slots[p] = {} /\ p \notin undoing \cup refusals
  /\ spawned >= MaxAgents
  /\ refusals' = refusals \cup {p}
  /\ UNCHANGED <<spawned, toSpawn, undoing, slots, agents>>

\* Mutant: the limit is compared with the count after the addition.
RegisterOverByOne(p) ==
  /\ toSpawn[p] > 0 /\ p \notin undoing
  /\ spawned' = spawned + 1
  /\ toSpawn' = [toSpawn EXCEPT ![p] = @ - 1]
  /\ IF spawned + 1 >= MaxAgents
     THEN undoing' = undoing \cup {p} /\ UNCHANGED <<slots, agents>>
     ELSE /\ slots' = [slots EXCEPT ![p] = @ \cup {spawned + 1}]
          /\ agents' = [agents EXCEPT ![spawned + 1] = "pending"] /\ UNCHANGED undoing
  /\ UNCHANGED refusals

\* Mutant: the limit is checked with a count read before the addition.
RegisterUnchecked(p) ==
  /\ toSpawn[p] > 0 /\ p \notin undoing
  /\ spawned' = spawned + 1
  /\ toSpawn' = [toSpawn EXCEPT ![p] = @ - 1]
  /\ slots' = [slots EXCEPT ![p] = @ \cup {spawned + 1}]
  /\ agents' = [s \in Slots |-> IF s = spawned + 1 THEN "pending" ELSE agents[s]]
  /\ UNCHANGED <<undoing, refusals>>

\* register_spawn: fetch_add, and a number if the count was below the limit.
Register(p) ==
  /\ toSpawn[p] > 0 /\ p \notin undoing
  /\ spawned' = spawned + 1
  /\ toSpawn' = [toSpawn EXCEPT ![p] = @ - 1]
  /\ IF spawned >= MaxAgents
     THEN undoing' = undoing \cup {p} /\ UNCHANGED <<slots, agents>>
     ELSE /\ slots' = [slots EXCEPT ![p] = @ \cup {spawned + 1}]
          /\ agents' = [agents EXCEPT ![spawned + 1] = "pending"] /\ UNCHANGED undoing
  /\ UNCHANGED refusals
\* Mutant: the count is taken back twice.
UndoTwice(p) ==
  /\ p \in undoing
  /\ spawned' = spawned - 2 /\ undoing' = undoing \ {p}
  /\ refusals' = refusals \cup {p}
  /\ UNCHANGED <<toSpawn, slots, agents>>

\* fetch_sub, and the error.
Undo(p) ==
  /\ p \in undoing
  /\ spawned' = spawned - 1 /\ undoing' = undoing \ {p}
  /\ refusals' = refusals \cup {p}
  /\ UNCHANGED <<toSpawn, slots, agents>>

\* start, complete, fail and time_out of a sub-agent; each is refused from any
\* other status.
StartAgent(s) ==
  /\ agents[s] = "pending" /\ agents' = [agents EXCEPT ![s] = "running"]
  /\ UNCHANGED <<spawned, toSpawn, undoing, slots, refusals>>
EndAgent(s) ==
  /\ agents[s] = "running"
  /\ \E end \in {"completed", "failed", "timedOut"} : agents' = [agents EXCEPT ![s] = end]
  /\ UNCHANGED <<spawned, toSpawn, undoing, slots, refusals>>

DelegationNext == \/ \E p \in Planners : Plan(p) \/ PlanRefused(p) \/ Register(p) \/ Undo(p)
                  \/ \E s \in Slots : StartAgent(s) \/ EndAgent(s)

DelegationSpec == DelegationInit /\ [][DelegationNext]_delegationVars

-----------------------------------------------------------------------------
\* Every variable keeps its type.
DelegationTypeOK ==
  /\ spawned \in Nat
  /\ toSpawn \in [Planners -> Nat]
  /\ undoing \subseteq Planners /\ refusals \subseteq Planners
  /\ slots \in [Planners -> SUBSET Slots]
  /\ agents \in [Slots -> {"none", "pending", "running", "completed", "failed", "timedOut"}]

\* No two registrations are given the same number, whatever additions and
\* corrections of the count overlap; no more than max_total_agents sub-agents are
\* ever granted; and a registration or a plan is refused only when all of them
\* are: an addition that is about to be taken back refuses nobody early.
Allocator == INSTANCE SlotAllocator WITH Owners <- Planners, Numbers <- Slots,
                                         granted <- slots, refused <- refusals
DelegationAllocates == Allocator!AllocatorSpec

-----------------------------------------------------------------------------
(* The sub-tasks.                                                          *)

DecompositionInit ==
  /\ deps \in [SubTasks -> SUBSET SubTasks]
  /\ graph = "new"
  /\ subStatus = [t \in SubTasks |-> "pending"]
  /\ lateReports = {} /\ undone = {}

\* detect_cycle: a task is visited when all its dependencies are; in each round
\* every task that can be visited is.
Visited[n \in 0 .. Cardinality(SubTasks)] ==
  IF n = 0 THEN {} ELSE {t \in SubTasks : deps[t] \subseteq Visited[n - 1]}

\* Mutant: a task that depends on itself is not looked for.
AcyclicUpToSelf ==
  LET Seen[n \in Nat] == IF n = 0 THEN {} ELSE {t \in SubTasks : deps[t] \ {t} \subseteq Seen[n - 1]}
  IN Seen[Cardinality(SubTasks)] = SubTasks

Acyclic == Visited[Cardinality(SubTasks)] = SubTasks

NewGraph ==
  /\ graph = "new"
  /\ graph' = IF Acyclic THEN "accepted" ELSE "refused"
  /\ UNCHANGED <<deps, subStatus, lateReports, undone>>

DepsMet(t) == \A d \in deps[t] : subStatus[d] = "completed"
ReadyTasks == {t \in SubTasks : subStatus[t] = "pending" /\ DepsMet(t)}

\* Mutant: a dependency that failed is as good as one that completed.
MarkRunningEarly(t) ==
  /\ graph = "accepted"
  /\ subStatus[t] = "pending" /\ \A d \in deps[t] : subStatus[d] \in {"completed", "failed"}
  /\ subStatus' = [subStatus EXCEPT ![t] = "running"]
  /\ UNCHANGED <<deps, graph, lateReports, undone>>

\* Refused from a terminal status and before the dependencies are completed.
MarkRunning(t) ==
  /\ graph = "accepted"
  /\ subStatus[t] = "pending" /\ DepsMet(t)
  /\ subStatus' = [subStatus EXCEPT ![t] = "running"]
  /\ UNCHANGED <<deps, graph, lateReports, undone>>

\* mark_completed and mark_failed take any sub-task whatever its status.  What
\* has not run is not reported as completed: it is the one that runs or, late,
\* one that was marked failed while it still ran.  Any may be marked as failed.
MarkCompleted(t) ==
  /\ subStatus[t] = "running" \/ t \in lateReports
  /\ subStatus' = [subStatus EXCEPT ![t] = "completed"]
  /\ lateReports' = lateReports \ {t}
  /\ UNCHANGED <<deps, graph, undone>>
MarkFailed(t) ==
  /\ graph = "accepted"
  /\ subStatus' = [subStatus EXCEPT ![t] = "failed"]
  /\ \/ UNCHANGED lateReports
     \/ subStatus[t] = "running" /\ lateReports' = lateReports \cup {t}
  /\ undone' = IF subStatus[t] = "completed" THEN undone \cup {t} ELSE undone
  /\ UNCHANGED <<deps, graph>>

DecompositionNext == \/ NewGraph
                     \/ \E t \in SubTasks : MarkRunning(t) \/ MarkCompleted(t) \/ MarkFailed(t)

DecompositionSpec == DecompositionInit /\ [][DecompositionNext]_decompositionVars

IsComplete == SubTasks # {} /\ \A t \in SubTasks : subStatus[t] = "completed"
IsFailed == \E t \in SubTasks : subStatus[t] = "failed"

-----------------------------------------------------------------------------
\* Every variable keeps its type.
DecompositionTypeOK ==
  /\ deps \in [SubTasks -> SUBSET SubTasks]
  /\ graph \in {"new", "accepted", "refused"}
  /\ subStatus \in [SubTasks -> {"pending", "running", "completed", "failed"}]
  /\ lateReports \subseteq SubTasks /\ undone \subseteq SubTasks

\* An accepted graph never gets stuck: while it is neither complete nor failed,
\* a sub-task runs or is ready.  This is what the cycle check is for.
GraphNotStuck ==
  graph = "accepted" /\ SubTasks # {} /\ ~IsComplete /\ ~IsFailed
    => ReadyTasks # {} \/ \E t \in SubTasks : subStatus[t] = "running"

\* A sub-task runs, or has run, only after all it depends on had completed,
\* and of these one is no longer so only because it was marked as failed after
\* that, however late reports come.
DependenciesFirst ==
  \A t \in SubTasks : subStatus[t] \in {"running", "completed"} \/ t \in lateReports =>
    \A d \in deps[t] : subStatus[d] = "completed" \/ d \in undone

\* Both: the graph is worked off in the order of its dependencies, to its end.
GraphSound == GraphNotStuck /\ DependenciesFirst
=============================================================================
