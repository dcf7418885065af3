--------------------------------- MODULE Hive ---------------------------------
(***************************************************************************)
(* The swarm of crates/electro-hive: one order whose tasks form a          *)
(* dependency graph on the Blackboard (blackboard.rs, SQLite tables), the  *)
(* workers that compete for them (worker.rs, run_loop) and the order's     *)
(* task that waits for the workers (lib.rs, execute_order).                *)
(*                                                                         *)
(* SQLite makes one statement atomic and no more: the Blackboard never     *)
(* opens a transaction.  Every statement whose answer is used later, or    *)
(* that writes, is a step of its own.  Texts, tokens and pheromones are    *)
(* left out; which of the ready tasks a worker selects is left open.       *)
(***************************************************************************)
EXTENDS Naturals, FiniteSets

CONSTANTS
    Tasks,       \* the order's tasks
    Deps,        \* [Tasks -> SUBSET Tasks], HiveTask::dependencies
    Workers,     \* worker tasks spawned by execute_order
    MaxRetries,  \* max_retries
    Env,         \* which environment events may happen, see Events
    None

(* "fail"    a task may fail or time out                                   *)
(* "error"   a statement may fail, which ends the worker                   *)
(* "panic"   a task may panic, which ends the worker                       *)
(* "cancel"  the order may be cancelled                                    *)
Events == {"fail", "error", "panic", "cancel"}

(* validate_dag accepted the graph, and max_retries is not 0.              *)
ASSUME HiveAssumption ==
    /\ Deps \in [Tasks -> SUBSET Tasks]
    /\ \A S \in SUBSET Tasks : S # {} => \E t \in S : Deps[t] \cap S = {}
    /\ IsFiniteSet(Tasks) /\ IsFiniteSet(Workers)
    /\ MaxRetries \in Nat \ {0}
    /\ Env \subseteq Events
    /\ None \notin Tasks \cup Workers

VARIABLES
    status,    \* hive_tasks.status
    claimed,   \* hive_tasks.claimed_by
    retries,   \* hive_tasks.retry_count
    summary,   \* whether hive_tasks.result_summary is set
    count,     \* hive_orders.completed_count
    wpc,       \* worker: place in run_loop, complete_task or fail_task
    wtask,     \* worker: task_id
    winput,    \* worker: the dependencies whose results it was given
    wsnap,     \* worker in resolve_dependencies: pending tasks still to check
    wrow,      \* ... the task of the row being checked
    wdeps,     \* ... its dependencies still to look up
    wread,     \* worker in fail_task: the retry_count it read
    cancelled, \* the cancellation token
    opc        \* execute_order: waits for the workers, or has aggregated

tables == <<status, claimed, retries, summary, count>>
resolving == <<wsnap, wrow, wdeps>>
vars == <<status, claimed, retries, summary, count, wpc, wtask, winput, wsnap,
          wrow, wdeps, wread, cancelled, opc>>

Statuses == {"pending", "ready", "active", "complete", "escalate"}
Terminal(t) == status[t] \in {"complete", "escalate"}
Places == {"loop", "check", "wait", "claim", "gather", "exec", "complete",
           "count", "snap", "resolve", "deps", "failRead", "failWrite",
           "left", "dead"}
Ended == {"left", "dead"}

(* create_order and create_tasks have run.                                 *)
Init ==
    /\ status = [t \in Tasks |-> IF Deps[t] = {} THEN "ready" ELSE "pending"]
    /\ claimed = [t \in Tasks |-> None] /\ retries = [t \in Tasks |-> 0]
    /\ summary = [t \in Tasks |-> FALSE] /\ count = 0
    /\ wpc = [w \in Workers |-> "loop"] /\ wtask = [w \in Workers |-> None]
    /\ winput = [w \in Workers |-> {}] /\ wsnap = [w \in Workers |-> {}]
    /\ wrow = [w \in Workers |-> None] /\ wdeps = [w \in Workers |-> {}]
    /\ wread = [w \in Workers |-> 0]
    /\ cancelled = FALSE /\ opc = "running"

Goto(w, place) == wpc' = [wpc EXCEPT ![w] = place]
Set(f, x, v) == [f EXCEPT ![x] = v]

-----------------------------------------------------------------------------
(* run_loop, between tasks.                                                *)

(* The token is looked at when the loop starts over, while a worker sleeps *)
(* and while a task executes, which leaves the task active.                *)
Leave(w) ==
    /\ cancelled /\ wpc[w] \in {"loop", "wait", "exec"}
    /\ Goto(w, "left")
    /\ UNCHANGED <<tables, wtask, winput, resolving, wread, cancelled, opc>>

(* get_ready_tasks, and select_task if there are any.                      *)
Look(w) ==
    /\ wpc[w] = "loop" /\ ~cancelled
    /\ LET ready == {t \in Tasks : status[t] = "ready"}
       IN  \/ /\ ready = {} /\ Goto(w, "check") /\ UNCHANGED wtask
           \/ \E t \in ready : wtask' = Set(wtask, w, t) /\ Goto(w, "claim")
    /\ UNCHANGED <<tables, winput, resolving, wread, cancelled, opc>>

(* is_order_complete: leave, or sleep and look again.                      *)
\* Mutant: leave as soon as nothing is ready.
CheckReadyOnly(w) ==
    /\ wpc[w] = "check"
    /\ Goto(w, IF \A t \in Tasks : status[t] # "ready" THEN "left" ELSE "wait")
    /\ UNCHANGED <<tables, wtask, winput, resolving, wread, cancelled, opc>>

Check(w) ==
    /\ wpc[w] = "check"
    /\ Goto(w, IF \A t \in Tasks : Terminal(t) THEN "left" ELSE "wait")
    /\ UNCHANGED <<tables, wtask, winput, resolving, wread, cancelled, opc>>

Awake(w) ==
    /\ wpc[w] = "wait"
    /\ Goto(w, "loop")
    /\ UNCHANGED <<tables, wtask, winput, resolving, wread, cancelled, opc>>

(* claim_task: UPDATE ... WHERE status = 'ready'.                          *)
\* Mutant: UPDATE without "AND status = 'ready'".
ClaimAlways(w) ==
    /\ wpc[w] = "claim"
    /\ status' = Set(status, wtask[w], "active")
    /\ claimed' = Set(claimed, wtask[w], w)
    /\ Goto(w, "gather")
    /\ UNCHANGED <<retries, summary, count, wtask, winput, resolving, wread,
                   cancelled, opc>>

Claim(w) ==
    /\ wpc[w] = "claim" /\ status[wtask[w]] = "ready"
    /\ status' = Set(status, wtask[w], "active")
    /\ claimed' = Set(claimed, wtask[w], w)
    /\ Goto(w, "gather")
    /\ UNCHANGED <<retries, summary, count, wtask, winput, resolving, wread,
                   cancelled, opc>>

LoseClaim(w) ==
    /\ wpc[w] = "claim" /\ status[wtask[w]] # "ready"
    /\ Goto(w, "loop") /\ wtask' = Set(wtask, w, None)
    /\ UNCHANGED <<tables, winput, resolving, wread, cancelled, opc>>

(* get_dependency_results leaves out a dependency without a result.        *)
Gather(w) ==
    /\ wpc[w] = "gather"
    /\ winput' = Set(winput, w, {d \in Deps[wtask[w]] : summary[d]})
    /\ Goto(w, "exec")
    /\ UNCHANGED <<tables, wtask, resolving, wread, cancelled, opc>>

(* execute_fn returns a success; or a failure, an error or no answer in    *)
(* max_task_duration_secs.                                                 *)
Succeed(w) ==
    /\ wpc[w] = "exec"
    /\ Goto(w, "complete")
    /\ UNCHANGED <<tables, wtask, winput, resolving, wread, cancelled, opc>>

Fail(w) ==
    /\ wpc[w] = "exec" /\ "fail" \in Env
    /\ Goto(w, "failRead")
    /\ UNCHANGED <<tables, wtask, winput, resolving, wread, cancelled, opc>>

-----------------------------------------------------------------------------
(* complete_task: three statements, then resolve_dependencies.             *)

Complete(w) ==
    /\ wpc[w] = "complete"
    /\ status' = Set(status, wtask[w], "complete")
    /\ summary' = Set(summary, wtask[w], TRUE)
    /\ Goto(w, "count")
    /\ UNCHANGED <<claimed, retries, count, wtask, winput, resolving, wread,
                   cancelled, opc>>

Count(w) ==
    /\ wpc[w] = "count"
    /\ count' = count + 1
    /\ Goto(w, "snap")
    /\ UNCHANGED <<status, claimed, retries, summary, wtask, winput, resolving,
                   wread, cancelled, opc>>

(* resolve_dependencies reads the pending rows once and then, row by row,  *)
(* looks up each dependency and updates the row without a condition.       *)
\* Mutant: the rows are not filtered by status = 'pending'.
SnapshotAll(w) ==
    /\ wpc[w] = "snap"
    /\ wsnap' = Set(wsnap, w, Tasks)
    /\ Goto(w, "resolve")
    /\ UNCHANGED <<tables, wtask, winput, wrow, wdeps, wread, cancelled, opc>>

Snapshot(w) ==
    /\ wpc[w] = "snap"
    /\ wsnap' = Set(wsnap, w, {t \in Tasks : status[t] = "pending"})
    /\ Goto(w, "resolve")
    /\ UNCHANGED <<tables, wtask, winput, wrow, wdeps, wread, cancelled, opc>>

NextRow(w) ==
    /\ wpc[w] = "resolve"
    /\ \E t \in wsnap[w] :
        /\ wrow' = Set(wrow, w, t) /\ wdeps' = Set(wdeps, w, Deps[t])
        /\ wsnap' = Set(wsnap, w, wsnap[w] \ {t})
    /\ Goto(w, "deps")
    /\ UNCHANGED <<tables, wtask, winput, wread, cancelled, opc>>

\* Mutant: an escalated dependency counts as met.
DepMetTerminal(w) ==
    /\ wpc[w] = "deps"
    /\ \E d \in wdeps[w] : /\ Terminal(d)
                          /\ wdeps' = Set(wdeps, w, wdeps[w] \ {d})
    /\ UNCHANGED <<tables, wpc, wtask, winput, wsnap, wrow, wread, cancelled, opc>>

DepMet(w) ==
    /\ wpc[w] = "deps"
    /\ \E d \in wdeps[w] :
        /\ status[d] = "complete"
        /\ wdeps' = Set(wdeps, w, wdeps[w] \ {d})
    /\ UNCHANGED <<tables, wpc, wtask, winput, wsnap, wrow, wread, cancelled, opc>>

\* Mutant: the first unmet dependency ends the loop over the rows too.
DepUnmetStops(w) ==
    /\ wpc[w] = "deps"
    /\ \E d \in wdeps[w] : status[d] # "complete"
    /\ Goto(w, "resolve") /\ wsnap' = Set(wsnap, w, {})
    /\ UNCHANGED <<tables, wtask, winput, wrow, wdeps, wread, cancelled, opc>>

DepUnmet(w) ==
    /\ wpc[w] = "deps"
    /\ \E d \in wdeps[w] : status[d] # "complete"
    /\ Goto(w, "resolve")
    /\ UNCHANGED <<tables, wtask, winput, resolving, wread, cancelled, opc>>

MakeReady(w) ==
    /\ wpc[w] = "deps" /\ wdeps[w] = {}
    /\ status' = Set(status, wrow[w], "ready")
    /\ Goto(w, "resolve")
    /\ UNCHANGED <<claimed, retries, summary, count, wtask, winput, resolving,
                   wread, cancelled, opc>>

Resolved(w) ==
    /\ wpc[w] = "resolve" /\ wsnap[w] = {}
    /\ Goto(w, "loop") /\ wtask' = Set(wtask, w, None) /\ wrow' = Set(wrow, w, None)
    /\ winput' = Set(winput, w, {})
    /\ UNCHANGED <<tables, wsnap, wdeps, wread, cancelled, opc>>

-----------------------------------------------------------------------------
(* fail_task: read the retry count, then write what follows from it.       *)

\* Mutant: the retry count is not read back.
FailReadZero(w) ==
    /\ wpc[w] = "failRead"
    /\ Goto(w, "failWrite")
    /\ UNCHANGED <<tables, wtask, winput, resolving, wread, cancelled, opc>>

FailRead(w) ==
    /\ wpc[w] = "failRead"
    /\ wread' = Set(wread, w, retries[wtask[w]])
    /\ Goto(w, "failWrite")
    /\ UNCHANGED <<tables, wtask, winput, resolving, cancelled, opc>>

\* Mutant: the status of the documented state machine, never looked for.
FailWriteBlocked(w) ==
    /\ wpc[w] = "failWrite"
    /\ status' = Set(status, wtask[w],
                     IF wread[w] + 1 >= MaxRetries THEN "escalate" ELSE "blocked")
    /\ retries' = Set(retries, wtask[w], wread[w] + 1)
    /\ claimed' = Set(claimed, wtask[w], None)
    /\ Goto(w, "loop") /\ wtask' = Set(wtask, w, None)
    /\ UNCHANGED <<summary, count, winput, wread, resolving, cancelled, opc>>

FailWrite(w) ==
    /\ wpc[w] = "failWrite"
    /\ status' = Set(status, wtask[w],
                     IF wread[w] + 1 >= MaxRetries THEN "escalate" ELSE "ready")
    /\ retries' = Set(retries, wtask[w], wread[w] + 1)
    /\ claimed' = Set(claimed, wtask[w], None)
    /\ Goto(w, "loop") /\ wtask' = Set(wtask, w, None)
    /\ winput' = Set(winput, w, {}) /\ wread' = Set(wread, w, 0)
    /\ UNCHANGED <<summary, count, resolving, cancelled, opc>>

-----------------------------------------------------------------------------
(* A failed statement leaves run_loop through `?`, a panic unwinds it; the *)
(* row stays as it is.                                                     *)

Statements == Places \ {"exec", "wait", "left", "dead"}

Die(w) ==
    /\ \/ "error" \in Env /\ wpc[w] \in Statements
       \/ "panic" \in Env /\ wpc[w] = "exec"
    /\ Goto(w, "dead")
    /\ UNCHANGED <<tables, wtask, winput, resolving, wread, cancelled, opc>>

Cancel ==
    /\ "cancel" \in Env /\ ~cancelled /\ opc = "running"
    /\ cancelled' = TRUE
    /\ UNCHANGED <<tables, wpc, wtask, winput, resolving, wread, opc>>

(* execute_order joins the workers and aggregates the rows.                *)
Aggregate ==
    /\ opc = "running" /\ \A w \in Workers : wpc[w] \in Ended
    /\ opc' = "aggregated"
    /\ UNCHANGED <<tables, wpc, wtask, winput, resolving, wread, cancelled>>

Done == opc = "aggregated" /\ UNCHANGED vars

Idle(w) == Look(w) \/ Check(w) \/ Awake(w) \/ Claim(w) \/ LoseClaim(w) \/ Leave(w)
Execute(w) == Gather(w) \/ Succeed(w) \/ Fail(w)
Resolve(w) == Snapshot(w) \/ NextRow(w) \/ DepMet(w) \/ DepUnmet(w) \/ MakeReady(w)
              \/ Resolved(w)
Report(w) == Complete(w) \/ Count(w) \/ FailRead(w) \/ FailWrite(w)
Step(w) == Idle(w) \/ Execute(w) \/ Report(w) \/ Resolve(w)

Next ==
    \/ \E w \in Workers : Step(w) \/ Die(w)
    \/ Cancel \/ Aggregate
    \/ Done

Spec == Init /\ [][Next]_vars

(* The worker tasks run, tasks end at the latest at their timeout, and the *)
(* join returns.  Nothing makes a worker die or an order be cancelled.     *)
FairSpec == Spec /\ (\A w \in Workers : WF_vars(Step(w))) /\ WF_vars(Aggregate)

-----------------------------------------------------------------------------
TypeOK ==
    /\ status \in [Tasks -> Statuses]
    /\ claimed \in [Tasks -> Workers \cup {None}]
    /\ retries \in [Tasks -> Nat] /\ summary \in [Tasks -> BOOLEAN]
    /\ count \in Nat
    /\ wpc \in [Workers -> Places] /\ wtask \in [Workers -> Tasks \cup {None}]
    /\ winput \in [Workers -> SUBSET Tasks]
    /\ wsnap \in [Workers -> SUBSET Tasks]
    /\ wrow \in [Workers -> Tasks \cup {None}]
    /\ wdeps \in [Workers -> SUBSET Tasks]
    /\ wread \in [Workers -> Nat]
    /\ cancelled \in BOOLEAN /\ opc \in {"running", "aggregated"}

Executing(w, t) == wpc[w] = "exec" /\ wtask[w] = t

(* A task only executes with the results of all its dependencies, however  *)
(* completions, stale resolutions, retries and dying workers interleave.   *)
InputsComplete == \A w \in Workers : wpc[w] = "exec" => winput[w] = Deps[wtask[w]]

(* What a worker executes is what it holds the claim of: a task is active, *)
(* claimed by that worker, from the claim to the first statement that      *)
(* reports its end.                                                        *)
Working == {"gather", "exec", "complete", "failRead", "failWrite"}
ClaimHeld ==
    \A w \in Workers : wpc[w] \in Working =>
        status[wtask[w]] = "active" /\ claimed[wtask[w]] = w

(* Two workers never execute the same task at the same time.               *)
ExecutesAlone ==
    \A t \in Tasks : Cardinality({w \in Workers : Executing(w, t)}) <= 1

(* A completed task is never reverted.                                     *)
MonotonicProgress ==
    [][\A t \in Tasks : status[t] = "complete" => status'[t] = "complete"]_vars

(* completed_count is the number of complete tasks, but for those whose    *)
(* worker is just about to count them, or died doing so.                   *)
CountExact ==
    Cardinality({t \in Tasks : status[t] = "complete"}) =
        count + Cardinality({w \in Workers : wpc[w] = "count"})

(* An order that was not cancelled and lost no worker is aggregated only   *)
(* when every task is complete or escalated, also if resolutions overlap.  *)
AggregatesFinished ==
    opc = "aggregated" => \/ cancelled
                          \/ \E w \in Workers : wpc[w] = "dead"
                          \/ \A t \in Tasks : Terminal(t)

(* Every order ends.                                                       *)
OrderEnds == <>(opc = "aggregated")

(* Every task is eventually completed.                                     *)
EveryTaskCompletes == \A t \in Tasks : <>[](status[t] = "complete")
=============================================================================
