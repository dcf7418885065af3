-------------------------------- MODULE Queen ---------------------------------
(***************************************************************************)
(* How an order of the swarm comes to be: Hive::maybe_decompose of         *)
(* crates/electro-hive/src/lib.rs, the judgement of the decomposition in   *)
(* queen.rs and dag.rs, and the insertion of the tasks, one statement      *)
(* each, into a table whose primary key is the task id the model gave.     *)
(* A decomposition is parsed, validated and weighed without an await.      *)
(***************************************************************************)
EXTENDS Naturals, FiniteSets, FiniteSetsExt

CONSTANTS
  Orders,         \* orders of several chats
  PlainOrders,    \* bound: those whose decompositions have no dependencies
  TaskIds,        \* "t1", "t2", ...: the ids every decomposition uses
  HeavyTask,      \* the task whose estimate may be larger than the others'
  MaxAttempts,    \* MAX_DECOMPOSE_ATTEMPTS
  MinSpeedup      \* swarm_threshold_speedup, in tenths

ASSUME QueenAssumption ==
  /\ IsFiniteSet(TaskIds) /\ HeavyTask \in TaskIds
  /\ "noOrder" \notin Orders
  /\ MaxAttempts \in Nat \ {0} /\ MinSpeedup \in Nat /\ MinSpeedup > 10

VARIABLES
  ordering,     \* per order: how far maybe_decompose is, or how it ended
  attempts,     \* per order: calls of the provider
  proposal,     \* the decomposition judged last, and the verdict
  toInsert,     \* per order: its tasks that have no row yet
  ofOrder,      \* per order: all its tasks
  rowOf         \* hive_tasks: the order of the row with this id, or NoOrder

queenVars == <<ordering, attempts, proposal, toInsert, ofOrder, rowOf>>

NoOrder == "noOrder"
OrderAt(o, place) == ordering[o] = place
OrderTo(o, place) == ordering' = [ordering EXCEPT ![o] = place]

(* A decomposition: its tasks, their dependencies and estimates.           *)
Decompositions ==
  UNION {[tasks : {T}, deps : [T -> SUBSET T],
          tokens : [T \ {HeavyTask} -> {1}], heavy : {1, 3}] : T \in SUBSET TaskIds}
Proposed(o) == {d \in Decompositions : o \in PlainOrders => \A t \in d.tasks : d.deps[t] = {}}
EstimateOf(d, t) == IF t = HeavyTask THEN d.heavy ELSE d.tokens[t]
Rounds(d) == 0 .. Cardinality(d.tasks)

\* topological_sort, round by round: the tasks sorted after n rounds.  One that
\* depends on itself never is.
SortedAfter(d) ==
  LET sorted[n \in Rounds(d)] ==
        IF n = 0 THEN {} ELSE {t \in d.tasks : d.deps[t] \subseteq sorted[n - 1]}
  IN sorted[Cardinality(d.tasks)]

\* Mutant: the graph is not validated.
AnyDag(d) == TRUE

\* validate_dag.
ValidDag(d) == SortedAfter(d) = d.tasks

\* Mutant: only the direct dependencies of a task count.
ShallowPath(d) ==
  Max({0} \cup {EstimateOf(d, t) + Max({0} \cup {EstimateOf(d, e) : e \in d.deps[t]}) : t \in d.tasks})

\* critical_path_tokens: the longest path that ends in each task.
CriticalPath(d) ==
  LET longest[n \in Rounds(d)] ==
        [t \in d.tasks |-> EstimateOf(d, t) +
           (IF n = 0 THEN 0 ELSE Max({0} \cup {longest[n - 1][e] : e \in d.deps[t]}))]
  IN Max({0} \cup {longest[Cardinality(d.tasks)][t] : t \in d.tasks})

AllTokens(d) == MapThenSumSet(LAMBDA t : EstimateOf(d, t), d.tasks)

\* should_activate_swarm: two tasks at least and enough speedup.
Activates(d) == /\ Cardinality(d.tasks) >= 2
                /\ 10 * AllTokens(d) >= MinSpeedup * CriticalPath(d)

Verdict(d) == IF d.tasks = {} \/ ~ValidDag(d) THEN "unusable"
              ELSE IF Activates(d) THEN "swarm" ELSE "single"
NoProposal == [verdict |-> "none", order |-> NoOrder]

QueenInit ==
  /\ ordering = [o \in Orders |-> "ask"] /\ attempts = [o \in Orders |-> 0]
  /\ proposal = NoProposal
  /\ toInsert = [o \in Orders |-> {}] /\ ofOrder = [o \in Orders |-> {}]
  /\ rowOf = [t \in TaskIds |-> NoOrder]

-----------------------------------------------------------------------------
\* The provider answers; the answer is judged.  The single-agent mode may also
\* be recommended by the model or by what the decomposition cost.
Judge(o, d) ==
  /\ OrderAt(o, "ask")
  /\ attempts' = [attempts EXCEPT ![o] = @ + 1]
  /\ proposal' = [verdict |-> Verdict(d), order |-> o, d |-> d]
  /\ UNCHANGED <<ordering, toInsert, ofOrder, rowOf>>

\* What follows from the verdict; nothing comes between.
Leave(o, place) == OrderTo(o, place) /\ attempts' = [attempts EXCEPT ![o] = 0]
Retry(o) ==
  /\ proposal.order = o /\ proposal.verdict = "unusable" /\ proposal' = NoProposal
  /\ IF attempts[o] < MaxAttempts THEN UNCHANGED <<ordering, attempts>> ELSE Leave(o, "single")
  /\ UNCHANGED <<toInsert, ofOrder, rowOf>>
StaySingle(o) ==
  /\ proposal.order = o /\ proposal.verdict \in {"single", "swarm"}
  /\ proposal' = NoProposal /\ Leave(o, "single")
  /\ UNCHANGED <<toInsert, ofOrder, rowOf>>
StartSwarm(o) ==
  /\ proposal.order = o /\ proposal.verdict = "swarm"
  /\ proposal' = NoProposal /\ Leave(o, "create")
  /\ toInsert' = [toInsert EXCEPT ![o] = proposal.d.tasks]
  /\ ofOrder' = [ofOrder EXCEPT ![o] = proposal.d.tasks]
  /\ UNCHANGED rowOf

\* The call fails, or the insertion of the order does: an error.
AbandonOrder(o) ==
  /\ OrderAt(o, "ask") \/ OrderAt(o, "create")
  /\ Leave(o, "error")
  /\ toInsert' = [toInsert EXCEPT ![o] = {}] /\ ofOrder' = [ofOrder EXCEPT ![o] = {}]
  /\ UNCHANGED <<proposal, rowOf>>

CreateOrder(o) ==
  /\ OrderAt(o, "create") /\ OrderTo(o, "insert")
  /\ UNCHANGED <<attempts, proposal, toInsert, ofOrder, rowOf>>

\* Mutant: a row that cannot be inserted is passed over.
InsertSkipping(o, t) ==
  /\ OrderAt(o, "insert") /\ t \in toInsert[o]
  /\ toInsert' = [toInsert EXCEPT ![o] = @ \ {t}]
  /\ rowOf' = IF rowOf[t] = NoOrder THEN [rowOf EXCEPT ![t] = o] ELSE rowOf
  /\ UNCHANGED <<ordering, attempts, proposal, ofOrder>>

\* create_tasks, one row: an id that has a row already is an error, and the rows
\* inserted before it stay.
InsertTask(o, t) ==
  /\ OrderAt(o, "insert") /\ t \in toInsert[o]
  /\ IF rowOf[t] = NoOrder
     THEN /\ rowOf' = [rowOf EXCEPT ![t] = o] /\ toInsert' = [toInsert EXCEPT ![o] = @ \ {t}]
          /\ UNCHANGED <<ordering, ofOrder>>
     ELSE /\ OrderTo(o, "error") /\ UNCHANGED rowOf
          /\ toInsert' = [toInsert EXCEPT ![o] = {}] /\ ofOrder' = [ofOrder EXCEPT ![o] = {}]
  /\ UNCHANGED <<attempts, proposal>>
Submitted(o) ==
  /\ OrderAt(o, "insert") /\ toInsert[o] = {} /\ OrderTo(o, "execute")
  /\ UNCHANGED <<attempts, proposal, toInsert, ofOrder, rowOf>>

QueenNext == \E o \in Orders :
  \/ Retry(o) \/ StaySingle(o) \/ StartSwarm(o)
  \/ /\ proposal = NoProposal
     /\ \/ \E d \in Proposed(o) : Judge(o, d)
        \/ AbandonOrder(o) \/ CreateOrder(o) \/ Submitted(o)
        \/ \E t \in TaskIds : InsertTask(o, t)

QueenSpec == QueenInit /\ [][QueenNext]_queenVars

-----------------------------------------------------------------------------
\* Every variable keeps its type.
QueenTypeOK ==
  /\ ordering \in [Orders -> {"ask", "single", "create", "insert", "execute", "error"}]
  /\ attempts \in [Orders -> 0 .. MaxAttempts]
  /\ proposal = NoProposal \/ (proposal.order \in Orders /\ proposal.d \in Decompositions)
  /\ toInsert \in [Orders -> SUBSET TaskIds] /\ ofOrder \in [Orders -> SUBSET TaskIds]
  /\ rowOf \in [TaskIds -> Orders \cup {NoOrder}]

\* All that a task of a decomposition waits for, through others too.
Above(d, t) ==
  LET up[n \in Rounds(d)] ==
        IF n = 0 THEN d.deps[t] ELSE up[n - 1] \cup UNION {d.deps[e] : e \in up[n - 1]}
  IN up[Cardinality(d.tasks)]

\* A swarm is never started on a graph that can get stuck, nor on a chain: every
\* set of its tasks has one that waits for none of them, and two tasks wait
\* for each other in no direction, not even through others.
SwarmMakesSense ==
  LET d == proposal.d
  IN proposal.verdict = "swarm" =>
       /\ \A S \in (SUBSET d.tasks) \ {{}} : \E t \in S : d.deps[t] \cap S = {}
       /\ \E t, u \in d.tasks : t # u /\ t \notin Above(d, u) /\ u \notin Above(d, t)

\* An order that is executed has the row of every one of its tasks, and of no
\* other order's, however the insertions of several orders interleave.
SubmittedWhole ==
  \A o \in Orders : OrderAt(o, "execute") => \A t \in ofOrder[o] : rowOf[t] = o

\* Both: a swarm that starts has work for several workers and all of its rows.
SwarmSound == SwarmMakesSense /\ SubmittedWhole
=============================================================================
