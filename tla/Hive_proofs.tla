----------------------------- MODULE Hive_proofs -----------------------------
(***************************************************************************)
(* What holds of the swarm for every task graph, any number of workers and *)
(* every event of the environment, although resolutions overlap: a task    *)
(* is only executed with the results of all its dependencies.              *)
(*                                                                         *)
(* InputsComplete is about the moment of execution.  What makes it         *)
(* inductive is that a result, once written, stays (no statement clears    *)
(* result_summary), so that "all results are there" can be carried from    *)
(* resolve_dependencies, over the row's status, to the worker's claim.     *)
(***************************************************************************)
EXTENDS Hive, FiniteSetTheorems, TLAPS

(* All dependencies of a task have left a result.                          *)
Known(t) == \A d \in Deps[t] : summary[d]

CompleteHasResult == \A t \in Tasks : status[t] = "complete" => summary[t]

(* A worker that is past the choice of a task has one: without it what is  *)
(* read of the task's row has no type.                                     *)
HoldsTask ==
    \A w \in Workers : wpc[w] \in {"claim"} \cup Working => wtask[w] \in Tasks

TypeInv == TypeOK /\ HoldsTask

ReleasedIsKnown == \A t \in Tasks : status[t] # "pending" => Known(t)

HeldIsKnown ==
    \A w \in Workers : wpc[w] \in {"claim"} \cup Working =>
        wtask[w] \in Tasks /\ Known(wtask[w])

CheckedIsKnown ==
    \A w \in Workers : wpc[w] = "deps" =>
        wrow[w] \in Tasks /\ \A d \in Deps[wrow[w]] \ wdeps[w] : summary[d]

SwarmInv == /\ TypeOK /\ CompleteHasResult /\ ReleasedIsKnown /\ HeldIsKnown
            /\ CheckedIsKnown /\ InputsComplete

USE HiveAssumption DEF tables, resolving, Goto, Set

-----------------------------------------------------------------------------
(* Every step keeps the types of the tables and of the workers.            *)
LEMMA TypeStep == TypeInv /\ [Next]_vars => TypeInv'
<1> SUFFICES ASSUME TypeInv, [Next]_vars PROVE TypeInv'
  OBVIOUS
<1> USE DEF TypeInv, TypeOK, HoldsTask, Working, Statuses, Places, Statements
<1>1. ASSUME NEW w \in Workers, Look(w) PROVE TypeInv'
  BY SMTT(60), <1>1 DEF Look
<1>2. ASSUME NEW w \in Workers, Check(w) PROVE TypeInv'
  BY <1>2 DEF Check
<1>3. ASSUME NEW w \in Workers, Awake(w) PROVE TypeInv'
  BY <1>3 DEF Awake
<1>4. ASSUME NEW w \in Workers, Claim(w) PROVE TypeInv'
  BY <1>4 DEF Claim
<1>5. ASSUME NEW w \in Workers, LoseClaim(w) PROVE TypeInv'
  BY <1>5 DEF LoseClaim
<1>6. ASSUME NEW w \in Workers, Leave(w) PROVE TypeInv'
  BY <1>6 DEF Leave
<1>7. ASSUME NEW w \in Workers, Gather(w) PROVE TypeInv'
  BY <1>7 DEF Gather
<1>8. ASSUME NEW w \in Workers, Succeed(w) PROVE TypeInv'
  BY <1>8 DEF Succeed
<1>9. ASSUME NEW w \in Workers, Fail(w) PROVE TypeInv'
  BY <1>9 DEF Fail
<1>10. ASSUME NEW w \in Workers, Complete(w) PROVE TypeInv'
  BY <1>10 DEF Complete
<1>11. ASSUME NEW w \in Workers, Count(w) PROVE TypeInv'
  BY <1>11 DEF Count
<1>12. ASSUME NEW w \in Workers, FailRead(w) PROVE TypeInv'
  BY <1>12 DEF FailRead
<1>13. ASSUME NEW w \in Workers, FailWrite(w) PROVE TypeInv'
  BY <1>13 DEF FailWrite
<1>14. ASSUME NEW w \in Workers, Snapshot(w) PROVE TypeInv'
  BY <1>14 DEF Snapshot
<1>15. ASSUME NEW w \in Workers, NextRow(w) PROVE TypeInv'
  BY <1>15 DEF NextRow
<1>16. ASSUME NEW w \in Workers, DepMet(w) PROVE TypeInv'
  BY <1>16 DEF DepMet
<1>17. ASSUME NEW w \in Workers, DepUnmet(w) PROVE TypeInv'
  BY <1>17 DEF DepUnmet
<1>18. ASSUME NEW w \in Workers, MakeReady(w) PROVE TypeInv'
  <2>1. status' \in [Tasks -> Statuses]
    BY <1>18 DEF MakeReady
  <2>2. wpc' \in [Workers -> Places] /\ HoldsTask'
    BY <1>18 DEF MakeReady
  <2>. QED
    BY <1>18, <2>1, <2>2 DEF MakeReady
<1>19. ASSUME NEW w \in Workers, Resolved(w) PROVE TypeInv'
  BY <1>19 DEF Resolved
<1>20. ASSUME NEW w \in Workers, Die(w) PROVE TypeInv'
  BY <1>20 DEF Die
<1>21. CASE Cancel \/ Aggregate \/ Done \/ UNCHANGED vars
  <2>1. CASE Cancel
    BY <2>1 DEF Cancel
  <2>2. CASE Aggregate
    BY <2>2 DEF Aggregate
  <2>3. CASE Done \/ UNCHANGED vars
    BY <2>3 DEF Done, vars
  <2>. QED
    BY <1>21, <2>1, <2>2, <2>3
<1>. QED
  BY <1>1, <1>2, <1>3, <1>4, <1>5, <1>6, <1>7, <1>8, <1>9, <1>10, <1>11, <1>12, <1>13, <1>14, <1>15, <1>16, <1>17, <1>18, <1>19, <1>20, <1>21 DEF Next, Step, Idle, Execute, Report, Resolve

(* Every variable keeps its type, for any task graph and any workers.      *)
THEOREM TypeCorrect == Spec => []TypeOK
<1>1. Init => TypeInv
  <2> SUFFICES ASSUME Init PROVE TypeInv
    OBVIOUS
  <2>1. /\ status \in [Tasks -> Statuses]
        /\ wpc \in [Workers -> Places] /\ wtask \in [Workers -> Tasks \cup {None}]
    BY DEF Init, Statuses, Places
  <2>2. HoldsTask
    BY DEF Init, HoldsTask, Working
  <2>. QED
    BY <2>1, <2>2 DEF Init, TypeInv, TypeOK
<1>2. TypeInv => TypeOK
  BY DEF TypeInv
<1>. QED
  BY <1>1, <1>2, TypeStep, PTL DEF Spec

-----------------------------------------------------------------------------
(* A written result stays, and a completed task has one.                   *)
LEMMA ResultsStay ==
    ASSUME TypeOK, CompleteHasResult, [Next]_vars
    PROVE  /\ CompleteHasResult'
           /\ \A t \in Tasks : summary[t] => summary'[t]
<1> DEFINE Goal == /\ CompleteHasResult'
                   /\ \A t \in Tasks : summary[t] => summary'[t]
<1> USE DEF TypeOK, CompleteHasResult
<1>1. ASSUME NEW w \in Workers, Look(w) PROVE Goal
  BY <1>1 DEF Look
<1>2. ASSUME NEW w \in Workers, Check(w) PROVE Goal
  BY <1>2 DEF Check
<1>3. ASSUME NEW w \in Workers, Awake(w) PROVE Goal
  BY <1>3 DEF Awake
<1>4. ASSUME NEW w \in Workers, Claim(w) PROVE Goal
  BY <1>4 DEF Claim
<1>5. ASSUME NEW w \in Workers, LoseClaim(w) PROVE Goal
  BY <1>5 DEF LoseClaim
<1>6. ASSUME NEW w \in Workers, Leave(w) PROVE Goal
  BY <1>6 DEF Leave
<1>7. ASSUME NEW w \in Workers, Gather(w) PROVE Goal
  BY <1>7 DEF Gather
<1>8. ASSUME NEW w \in Workers, Succeed(w) PROVE Goal
  BY <1>8 DEF Succeed
<1>9. ASSUME NEW w \in Workers, Fail(w) PROVE Goal
  BY <1>9 DEF Fail
<1>10. ASSUME NEW w \in Workers, Complete(w) PROVE Goal
  BY <1>10 DEF Complete
<1>11. ASSUME NEW w \in Workers, Count(w) PROVE Goal
  BY <1>11 DEF Count
<1>12. ASSUME NEW w \in Workers, FailRead(w) PROVE Goal
  BY <1>12 DEF FailRead
<1>13. ASSUME NEW w \in Workers, FailWrite(w) PROVE Goal
  BY <1>13 DEF FailWrite
<1>14. ASSUME NEW w \in Workers, Snapshot(w) PROVE Goal
  BY <1>14 DEF Snapshot
<1>15. ASSUME NEW w \in Workers, NextRow(w) PROVE Goal
  BY <1>15 DEF NextRow
<1>16. ASSUME NEW w \in Workers, DepMet(w) PROVE Goal
  BY <1>16 DEF DepMet
<1>17. ASSUME NEW w \in Workers, DepUnmet(w) PROVE Goal
  BY <1>17 DEF DepUnmet
<1>18. ASSUME NEW w \in Workers, MakeReady(w) PROVE Goal
  BY <1>18 DEF MakeReady
<1>19. ASSUME NEW w \in Workers, Resolved(w) PROVE Goal
  BY <1>19 DEF Resolved
<1>20. ASSUME NEW w \in Workers, Die(w) PROVE Goal
  BY <1>20 DEF Die
<1>21. CASE Cancel \/ Aggregate \/ Done \/ UNCHANGED vars
  BY <1>21 DEF Cancel, Aggregate, Done, vars
<1>. QED
  BY <1>1, <1>2, <1>3, <1>4, <1>5, <1>6, <1>7, <1>8, <1>9, <1>10, <1>11, <1>12, <1>13, <1>14, <1>15, <1>16, <1>17, <1>18, <1>19, <1>20, <1>21 DEF Next, Step, Idle, Execute, Report, Resolve

(* So what is known of a task's dependencies stays known.                  *)
LEMMA KnownStays ==
    TypeOK /\ CompleteHasResult /\ [Next]_vars =>
        \A t \in Tasks : Known(t) => Known(t)'
  BY ResultsStay DEF Known

-----------------------------------------------------------------------------
(* A worker's step keeps the invariant: of the tasks it only releases one  *)
(* it has found resolved or that it holds.                                 *)
LEMMA ReleasedStep == SwarmInv /\ [Next]_vars => ReleasedIsKnown'
<1> SUFFICES ASSUME SwarmInv, [Next]_vars, NEW t \in Tasks, status'[t] # "pending"
             PROVE  Known(t)'
  BY DEF ReleasedIsKnown
<1>0. Known(t) => Known(t)'
  BY KnownStays DEF SwarmInv
<1> SUFFICES ASSUME status[t] = "pending" PROVE Known(t)
  BY <1>0 DEF SwarmInv, ReleasedIsKnown
<1> USE DEF SwarmInv, TypeOK
<1>1. ASSUME NEW w \in Workers, Look(w) PROVE Known(t)
  BY <1>1 DEF Look
<1>2. ASSUME NEW w \in Workers, Check(w) PROVE Known(t)
  BY <1>2 DEF Check
<1>3. ASSUME NEW w \in Workers, Awake(w) PROVE Known(t)
  BY <1>3 DEF Awake
<1>4. ASSUME NEW w \in Workers, Claim(w) PROVE Known(t)
  BY <1>4 DEF Claim, HeldIsKnown, Working
<1>5. ASSUME NEW w \in Workers, LoseClaim(w) PROVE Known(t)
  BY <1>5 DEF LoseClaim
<1>6. ASSUME NEW w \in Workers, Leave(w) PROVE Known(t)
  BY <1>6 DEF Leave
<1>7. ASSUME NEW w \in Workers, Gather(w) PROVE Known(t)
  BY <1>7 DEF Gather
<1>8. ASSUME NEW w \in Workers, Succeed(w) PROVE Known(t)
  BY <1>8 DEF Succeed
<1>9. ASSUME NEW w \in Workers, Fail(w) PROVE Known(t)
  BY <1>9 DEF Fail
<1>10. ASSUME NEW w \in Workers, Complete(w) PROVE Known(t)
  BY <1>10 DEF Complete, HeldIsKnown, Working
<1>11. ASSUME NEW w \in Workers, Count(w) PROVE Known(t)
  BY <1>11 DEF Count
<1>12. ASSUME NEW w \in Workers, FailRead(w) PROVE Known(t)
  BY <1>12 DEF FailRead
<1>13. ASSUME NEW w \in Workers, FailWrite(w) PROVE Known(t)
  BY <1>13 DEF FailWrite, HeldIsKnown, Working
<1>14. ASSUME NEW w \in Workers, Snapshot(w) PROVE Known(t)
  BY <1>14 DEF Snapshot
<1>15. ASSUME NEW w \in Workers, NextRow(w) PROVE Known(t)
  BY <1>15 DEF NextRow
<1>16. ASSUME NEW w \in Workers, DepMet(w) PROVE Known(t)
  BY <1>16 DEF DepMet
<1>17. ASSUME NEW w \in Workers, DepUnmet(w) PROVE Known(t)
  BY <1>17 DEF DepUnmet
<1>18. ASSUME NEW w \in Workers, MakeReady(w) PROVE Known(t)
  BY <1>18 DEF MakeReady, CheckedIsKnown, Known
<1>19. ASSUME NEW w \in Workers, Resolved(w) PROVE Known(t)
  BY <1>19 DEF Resolved
<1>20. ASSUME NEW w \in Workers, Die(w) PROVE Known(t)
  BY <1>20 DEF Die
<1>21. CASE Cancel \/ Aggregate \/ Done \/ UNCHANGED vars
  BY <1>21 DEF Cancel, Aggregate, Done, vars
<1>. QED
  BY <1>1, <1>2, <1>3, <1>4, <1>5, <1>6, <1>7, <1>8, <1>9, <1>10, <1>11, <1>12, <1>13, <1>14, <1>15, <1>16, <1>17, <1>18, <1>19, <1>20, <1>21 DEF Next, Step, Idle, Execute, Report, Resolve

LEMMA HeldStep == SwarmInv /\ [Next]_vars => HeldIsKnown'
<1> SUFFICES ASSUME SwarmInv, [Next]_vars PROVE HeldIsKnown'
  OBVIOUS
<1> SUFFICES ASSUME NEW v \in Workers,
                    wpc'[v] \in {"claim"} \cup Working
             PROVE  wtask'[v] \in Tasks /\ Known(wtask'[v])
  <2>1. \A t \in Tasks : Known(t) => Known(t)'
    BY KnownStays DEF SwarmInv
  <2>. QED
    BY <2>1 DEF HeldIsKnown, Known
<1> USE DEF SwarmInv, TypeOK, HeldIsKnown, Working
<1>1. ASSUME NEW w \in Workers, Look(w) PROVE wtask'[v] \in Tasks /\ Known(wtask'[v])
  BY <1>1 DEF Look, ReleasedIsKnown
<1>2. ASSUME NEW w \in Workers, Check(w) PROVE wtask'[v] \in Tasks /\ Known(wtask'[v])
  BY <1>2 DEF Check
<1>3. ASSUME NEW w \in Workers, Awake(w) PROVE wtask'[v] \in Tasks /\ Known(wtask'[v])
  BY <1>3 DEF Awake
<1>4. ASSUME NEW w \in Workers, Claim(w) PROVE wtask'[v] \in Tasks /\ Known(wtask'[v])
  BY <1>4 DEF Claim
<1>5. ASSUME NEW w \in Workers, LoseClaim(w) PROVE wtask'[v] \in Tasks /\ Known(wtask'[v])
  BY <1>5 DEF LoseClaim
<1>6. ASSUME NEW w \in Workers, Leave(w) PROVE wtask'[v] \in Tasks /\ Known(wtask'[v])
  BY <1>6 DEF Leave
<1>7. ASSUME NEW w \in Workers, Gather(w) PROVE wtask'[v] \in Tasks /\ Known(wtask'[v])
  BY <1>7 DEF Gather
<1>8. ASSUME NEW w \in Workers, Succeed(w) PROVE wtask'[v] \in Tasks /\ Known(wtask'[v])
  BY <1>8 DEF Succeed
<1>9. ASSUME NEW w \in Workers, Fail(w) PROVE wtask'[v] \in Tasks /\ Known(wtask'[v])
  BY <1>9 DEF Fail
<1>10. ASSUME NEW w \in Workers, Complete(w) PROVE wtask'[v] \in Tasks /\ Known(wtask'[v])
  BY <1>10 DEF Complete
<1>11. ASSUME NEW w \in Workers, Count(w) PROVE wtask'[v] \in Tasks /\ Known(wtask'[v])
  BY <1>11 DEF Count
<1>12. ASSUME NEW w \in Workers, FailRead(w) PROVE wtask'[v] \in Tasks /\ Known(wtask'[v])
  BY <1>12 DEF FailRead
<1>13. ASSUME NEW w \in Workers, FailWrite(w) PROVE wtask'[v] \in Tasks /\ Known(wtask'[v])
  BY <1>13 DEF FailWrite
<1>14. ASSUME NEW w \in Workers, Snapshot(w) PROVE wtask'[v] \in Tasks /\ Known(wtask'[v])
  BY <1>14 DEF Snapshot
<1>15. ASSUME NEW w \in Workers, NextRow(w) PROVE wtask'[v] \in Tasks /\ Known(wtask'[v])
  BY <1>15 DEF NextRow
<1>16. ASSUME NEW w \in Workers, DepMet(w) PROVE wtask'[v] \in Tasks /\ Known(wtask'[v])
  BY <1>16 DEF DepMet
<1>17. ASSUME NEW w \in Workers, DepUnmet(w) PROVE wtask'[v] \in Tasks /\ Known(wtask'[v])
  BY <1>17 DEF DepUnmet
<1>18. ASSUME NEW w \in Workers, MakeReady(w) PROVE wtask'[v] \in Tasks /\ Known(wtask'[v])
  BY <1>18 DEF MakeReady
<1>19. ASSUME NEW w \in Workers, Resolved(w) PROVE wtask'[v] \in Tasks /\ Known(wtask'[v])
  BY <1>19 DEF Resolved
<1>20. ASSUME NEW w \in Workers, Die(w) PROVE wtask'[v] \in Tasks /\ Known(wtask'[v])
  BY <1>20 DEF Die
<1>21. CASE Cancel \/ Aggregate \/ Done \/ UNCHANGED vars
  BY <1>21 DEF Cancel, Aggregate, Done, vars
<1>. QED
  BY <1>1, <1>2, <1>3, <1>4, <1>5, <1>6, <1>7, <1>8, <1>9, <1>10, <1>11, <1>12, <1>13, <1>14, <1>15, <1>16, <1>17, <1>18, <1>19, <1>20, <1>21 DEF Next, Step, Idle, Execute, Report, Resolve

LEMMA CheckedStep == SwarmInv /\ [Next]_vars => CheckedIsKnown'
<1> SUFFICES ASSUME SwarmInv, [Next]_vars, NEW v \in Workers, wpc'[v] = "deps"
             PROVE  wrow'[v] \in Tasks /\ \A d \in Deps[wrow'[v]] \ wdeps'[v] : summary[d]
  BY ResultsStay DEF CheckedIsKnown, SwarmInv
<1> USE DEF SwarmInv, TypeOK, CheckedIsKnown
<1>1. ASSUME NEW w \in Workers, Look(w) PROVE wrow'[v] \in Tasks /\ \A d \in Deps[wrow'[v]] \ wdeps'[v] : summary[d]
  BY <1>1 DEF Look
<1>2. ASSUME NEW w \in Workers, Check(w) PROVE wrow'[v] \in Tasks /\ \A d \in Deps[wrow'[v]] \ wdeps'[v] : summary[d]
  BY <1>2 DEF Check
<1>3. ASSUME NEW w \in Workers, Awake(w) PROVE wrow'[v] \in Tasks /\ \A d \in Deps[wrow'[v]] \ wdeps'[v] : summary[d]
  BY <1>3 DEF Awake
<1>4. ASSUME NEW w \in Workers, Claim(w) PROVE wrow'[v] \in Tasks /\ \A d \in Deps[wrow'[v]] \ wdeps'[v] : summary[d]
  BY <1>4 DEF Claim
<1>5. ASSUME NEW w \in Workers, LoseClaim(w) PROVE wrow'[v] \in Tasks /\ \A d \in Deps[wrow'[v]] \ wdeps'[v] : summary[d]
  BY <1>5 DEF LoseClaim
<1>6. ASSUME NEW w \in Workers, Leave(w) PROVE wrow'[v] \in Tasks /\ \A d \in Deps[wrow'[v]] \ wdeps'[v] : summary[d]
  BY <1>6 DEF Leave
<1>7. ASSUME NEW w \in Workers, Gather(w) PROVE wrow'[v] \in Tasks /\ \A d \in Deps[wrow'[v]] \ wdeps'[v] : summary[d]
  BY <1>7 DEF Gather
<1>8. ASSUME NEW w \in Workers, Succeed(w) PROVE wrow'[v] \in Tasks /\ \A d \in Deps[wrow'[v]] \ wdeps'[v] : summary[d]
  BY <1>8 DEF Succeed
<1>9. ASSUME NEW w \in Workers, Fail(w) PROVE wrow'[v] \in Tasks /\ \A d \in Deps[wrow'[v]] \ wdeps'[v] : summary[d]
  BY <1>9 DEF Fail
<1>10. ASSUME NEW w \in Workers, Complete(w) PROVE wrow'[v] \in Tasks /\ \A d \in Deps[wrow'[v]] \ wdeps'[v] : summary[d]
  BY <1>10 DEF Complete
<1>11. ASSUME NEW w \in Workers, Count(w) PROVE wrow'[v] \in Tasks /\ \A d \in Deps[wrow'[v]] \ wdeps'[v] : summary[d]
  BY <1>11 DEF Count
<1>12. ASSUME NEW w \in Workers, FailRead(w) PROVE wrow'[v] \in Tasks /\ \A d \in Deps[wrow'[v]] \ wdeps'[v] : summary[d]
  BY <1>12 DEF FailRead
<1>13. ASSUME NEW w \in Workers, FailWrite(w) PROVE wrow'[v] \in Tasks /\ \A d \in Deps[wrow'[v]] \ wdeps'[v] : summary[d]
  BY <1>13 DEF FailWrite
<1>14. ASSUME NEW w \in Workers, Snapshot(w) PROVE wrow'[v] \in Tasks /\ \A d \in Deps[wrow'[v]] \ wdeps'[v] : summary[d]
  BY <1>14 DEF Snapshot
<1>15. ASSUME NEW w \in Workers, NextRow(w) PROVE wrow'[v] \in Tasks /\ \A d \in Deps[wrow'[v]] \ wdeps'[v] : summary[d]
  BY <1>15 DEF NextRow
<1>16. ASSUME NEW w \in Workers, DepMet(w) PROVE wrow'[v] \in Tasks /\ \A d \in Deps[wrow'[v]] \ wdeps'[v] : summary[d]
  BY <1>16 DEF DepMet, CompleteHasResult
<1>17. ASSUME NEW w \in Workers, DepUnmet(w) PROVE wrow'[v] \in Tasks /\ \A d \in Deps[wrow'[v]] \ wdeps'[v] : summary[d]
  BY <1>17 DEF DepUnmet
<1>18. ASSUME NEW w \in Workers, MakeReady(w) PROVE wrow'[v] \in Tasks /\ \A d \in Deps[wrow'[v]] \ wdeps'[v] : summary[d]
  BY <1>18 DEF MakeReady
<1>19. ASSUME NEW w \in Workers, Resolved(w) PROVE wrow'[v] \in Tasks /\ \A d \in Deps[wrow'[v]] \ wdeps'[v] : summary[d]
  BY <1>19 DEF Resolved
<1>20. ASSUME NEW w \in Workers, Die(w) PROVE wrow'[v] \in Tasks /\ \A d \in Deps[wrow'[v]] \ wdeps'[v] : summary[d]
  BY <1>20 DEF Die
<1>21. CASE Cancel \/ Aggregate \/ Done \/ UNCHANGED vars
  BY <1>21 DEF Cancel, Aggregate, Done, vars
<1>. QED
  BY <1>1, <1>2, <1>3, <1>4, <1>5, <1>6, <1>7, <1>8, <1>9, <1>10, <1>11, <1>12, <1>13, <1>14, <1>15, <1>16, <1>17, <1>18, <1>19, <1>20, <1>21 DEF Next, Step, Idle, Execute, Report, Resolve

LEMMA InputsStep == SwarmInv /\ [Next]_vars => InputsComplete'
<1> SUFFICES ASSUME SwarmInv, [Next]_vars, NEW v \in Workers, wpc'[v] = "exec"
             PROVE  winput'[v] = Deps[wtask'[v]]
  BY DEF InputsComplete
<1> USE DEF SwarmInv, TypeOK, InputsComplete
<1>1. ASSUME NEW w \in Workers, Look(w) PROVE winput'[v] = Deps[wtask'[v]]
  BY <1>1 DEF Look
<1>2. ASSUME NEW w \in Workers, Check(w) PROVE winput'[v] = Deps[wtask'[v]]
  BY <1>2 DEF Check
<1>3. ASSUME NEW w \in Workers, Awake(w) PROVE winput'[v] = Deps[wtask'[v]]
  BY <1>3 DEF Awake
<1>4. ASSUME NEW w \in Workers, Claim(w) PROVE winput'[v] = Deps[wtask'[v]]
  BY <1>4 DEF Claim
<1>5. ASSUME NEW w \in Workers, LoseClaim(w) PROVE winput'[v] = Deps[wtask'[v]]
  BY <1>5 DEF LoseClaim
<1>6. ASSUME NEW w \in Workers, Leave(w) PROVE winput'[v] = Deps[wtask'[v]]
  BY <1>6 DEF Leave
<1>7. ASSUME NEW w \in Workers, Gather(w) PROVE winput'[v] = Deps[wtask'[v]]
  <2>1. CASE v = w
    <3>1. wtask[w] \in Tasks /\ Known(wtask[w])
      BY <1>7 DEF Gather, HeldIsKnown, Working
    <3>2. winput'[w] = {d \in Deps[wtask[w]] : summary[d]} /\ wtask' = wtask
      BY <1>7 DEF Gather
    <3>. QED
      BY <2>1, <3>1, <3>2 DEF Known
  <2>2. CASE v # w
    BY <1>7, <2>2 DEF Gather
  <2>. QED
    BY <2>1, <2>2
<1>8. ASSUME NEW w \in Workers, Succeed(w) PROVE winput'[v] = Deps[wtask'[v]]
  BY <1>8 DEF Succeed
<1>9. ASSUME NEW w \in Workers, Fail(w) PROVE winput'[v] = Deps[wtask'[v]]
  BY <1>9 DEF Fail
<1>10. ASSUME NEW w \in Workers, Complete(w) PROVE winput'[v] = Deps[wtask'[v]]
  BY <1>10 DEF Complete
<1>11. ASSUME NEW w \in Workers, Count(w) PROVE winput'[v] = Deps[wtask'[v]]
  BY <1>11 DEF Count
<1>12. ASSUME NEW w \in Workers, FailRead(w) PROVE winput'[v] = Deps[wtask'[v]]
  BY <1>12 DEF FailRead
<1>13. ASSUME NEW w \in Workers, FailWrite(w) PROVE winput'[v] = Deps[wtask'[v]]
  BY <1>13 DEF FailWrite
<1>14. ASSUME NEW w \in Workers, Snapshot(w) PROVE winput'[v] = Deps[wtask'[v]]
  BY <1>14 DEF Snapshot
<1>15. ASSUME NEW w \in Workers, NextRow(w) PROVE winput'[v] = Deps[wtask'[v]]
  BY <1>15 DEF NextRow
<1>16. ASSUME NEW w \in Workers, DepMet(w) PROVE winput'[v] = Deps[wtask'[v]]
  BY <1>16 DEF DepMet
<1>17. ASSUME NEW w \in Workers, DepUnmet(w) PROVE winput'[v] = Deps[wtask'[v]]
  BY <1>17 DEF DepUnmet
<1>18. ASSUME NEW w \in Workers, MakeReady(w) PROVE winput'[v] = Deps[wtask'[v]]
  BY <1>18 DEF MakeReady
<1>19. ASSUME NEW w \in Workers, Resolved(w) PROVE winput'[v] = Deps[wtask'[v]]
  BY <1>19 DEF Resolved
<1>20. ASSUME NEW w \in Workers, Die(w) PROVE winput'[v] = Deps[wtask'[v]]
  BY <1>20 DEF Die
<1>21. CASE Cancel \/ Aggregate \/ Done \/ UNCHANGED vars
  BY <1>21 DEF Cancel, Aggregate, Done, vars
<1>. QED
  BY <1>1, <1>2, <1>3, <1>4, <1>5, <1>6, <1>7, <1>8, <1>9, <1>10, <1>11, <1>12, <1>13, <1>14, <1>15, <1>16, <1>17, <1>18, <1>19, <1>20, <1>21 DEF Next, Step, Idle, Execute, Report, Resolve

-----------------------------------------------------------------------------
(* Every task that executes was given the result of each of its            *)
(* dependencies: complete_task writes the result before anything can see   *)
(* the status, and no retry or stale resolution releases a task early.     *)
THEOREM InputsCompleteHolds == Spec => []InputsComplete
<1>1. Init => SwarmInv
  <2> SUFFICES ASSUME Init PROVE SwarmInv
    OBVIOUS
  <2>1. TypeOK
    BY DEF Init, TypeOK, Statuses, Places
  <2>2. CompleteHasResult /\ ReleasedIsKnown
    BY DEF Init, CompleteHasResult, ReleasedIsKnown, Known
  <2>3. HeldIsKnown /\ CheckedIsKnown /\ InputsComplete
    BY DEF Init, HeldIsKnown, CheckedIsKnown, InputsComplete, Working
  <2>. QED
    BY <2>1, <2>2, <2>3 DEF SwarmInv
<1>2. SwarmInv /\ [Next]_vars => SwarmInv'
  <2>1. SwarmInv => TypeInv
    BY DEF SwarmInv, TypeInv, HoldsTask, HeldIsKnown
  <2>. QED
    BY <2>1, TypeStep, ResultsStay, ReleasedStep, HeldStep, CheckedStep, InputsStep
       DEF SwarmInv, TypeInv
<1>3. SwarmInv => InputsComplete
  BY DEF SwarmInv
<1>. QED
  BY <1>1, <1>2, <1>3, PTL DEF Spec

-----------------------------------------------------------------------------
(* The end of an order.                                                    *)

AllLeft == \A w \in Workers : wpc[w] \in Ended
Finished == cancelled \/ (\E w \in Workers : wpc[w] = "dead") \/ \A t \in Tasks : Terminal(t)

(* The last worker to leave has just seen that every task is terminal; a   *)
(* stale resolution can take that back only while its worker is there.     *)
EndInv == /\ AllLeft => Finished
          /\ opc = "aggregated" => AllLeft

\* Once no worker is left nobody writes, and before that only the end of the
\* last one matters.
LEMMA EndStep ==
    ASSUME Workers # {}, TypeOK, EndInv, [Next]_vars
    PROVE  EndInv'
<1> USE DEF TypeOK
<1>1. ASSUME NEW w \in Workers, Step(w) \/ Die(w) PROVE EndInv'
  <2>1. wpc[w] \notin Ended
    BY <1>1 DEF Step, Idle, Execute, Report, Resolve, Look, Check, Awake, Claim, LoseClaim, Leave,
       Gather, Succeed, Fail, Complete, Count, FailRead, FailWrite, Snapshot, NextRow, DepMet,
       DepUnmet, MakeReady, Resolved, Die, Ended, Statements, Places
  <2>2. opc # "aggregated" /\ opc' = opc /\ cancelled' = cancelled
    <3>1. opc' = opc /\ cancelled' = cancelled
      BY <1>1 DEF Step, Idle, Execute, Report, Resolve, Look, Check, Awake, Claim, LoseClaim,
         Leave, Gather, Succeed, Fail, Complete, Count, FailRead, FailWrite, Snapshot, NextRow,
         DepMet, DepUnmet, MakeReady, Resolved, Die
    <3> QED BY <2>1, <3>1 DEF EndInv, AllLeft
  <2>3. CASE Leave(w)
    BY <2>2, <2>3 DEF Leave, EndInv, Finished
  <2>4. CASE Check(w)
    <3>1. wpc'[w] = IF \A t \in Tasks : Terminal(t) THEN "left" ELSE "wait"
      BY <2>4 DEF Check
    <3>2. status' = status
      BY <2>4 DEF Check
    <3>3. AllLeft' => \A t \in Tasks : Terminal(t)'
      BY <3>1, <3>2 DEF AllLeft, Ended, Terminal
    <3> QED BY <2>2, <3>3 DEF EndInv, Finished
  <2>5. CASE Die(w)
    <3>1. wpc'[w] = "dead"
      BY <2>5 DEF Die
    <3> QED BY <2>2, <3>1 DEF EndInv, Finished
  <2>6. CASE ~(Leave(w) \/ Check(w) \/ Die(w))
    <3>1. wpc'[w] \notin Ended
      <4>1. CASE Look(w) \/ Awake(w) \/ Claim(w) \/ LoseClaim(w)
        BY <4>1 DEF Look, Awake, Claim, LoseClaim, Ended
      <4>2. CASE Execute(w) \/ Report(w)
        BY <4>2 DEF Execute, Report, Gather, Succeed, Fail, Complete, Count, FailRead, FailWrite,
           Ended
      <4>3. CASE Resolve(w)
        BY <2>1, <4>3 DEF Resolve, Snapshot, NextRow, DepMet, DepUnmet, MakeReady, Resolved,
           Ended
      <4> QED BY <1>1, <2>6, <4>1, <4>2, <4>3 DEF Step, Idle
    <3> QED BY <2>2, <3>1 DEF EndInv, AllLeft
  <2> QED BY <2>3, <2>4, <2>5, <2>6
<1>2. CASE Cancel
  <2>1. cancelled' /\ wpc' = wpc /\ opc' = opc
    BY <1>2 DEF Cancel
  <2> QED BY <2>1 DEF EndInv, AllLeft, Finished
<1>3. CASE Aggregate \/ Done \/ UNCHANGED vars
  <2>1. /\ wpc' = wpc /\ cancelled' = cancelled /\ status' = status
        /\ opc' = opc \/ AllLeft
    BY <1>3 DEF Aggregate, Done, vars, AllLeft
  <2> QED BY <2>1 DEF EndInv, AllLeft, Finished, Terminal
<1> QED BY <1>1, <1>2, <1>3 DEF Next

(* An order is only aggregated when every task is complete or escalated,   *)
(* unless it was cancelled or a worker died, although two resolutions may  *)
(* overlap and release a task that is complete.  An order for which both   *)
(* max_workers and min_workers are 0 has no workers that could wait.       *)
THEOREM AggregatesFinishedHolds ==
    ASSUME Workers # {} PROVE Spec => []AggregatesFinished
<1> DEFINE Inv == TypeInv /\ EndInv
<1>1. Init => Inv
  <2> SUFFICES ASSUME Init PROVE Inv
    OBVIOUS
  <2>1. TypeInv
    BY DEF Init, TypeInv, TypeOK, HoldsTask, Statuses, Places, Working
  <2>2. ~AllLeft /\ opc # "aggregated"
    BY DEF Init, AllLeft, Ended
  <2> QED BY <2>1, <2>2 DEF EndInv
<1>2. Inv /\ [Next]_vars => Inv'
  BY TypeStep, EndStep DEF TypeInv
<1>3. Inv => AggregatesFinished
  BY DEF EndInv, Finished, AggregatesFinished
<1> QED BY <1>1, <1>2, <1>3, PTL DEF Spec

-----------------------------------------------------------------------------
(* Where no task depends on another, resolve_dependencies finds nothing to *)
(* release, so that no stale list of pending rows is ever acted on.        *)

NoDeps == \A t \in Tasks : Deps[t] = {}

FlatInv == /\ TypeInv
           /\ \A t \in Tasks : status[t] # "pending"
           /\ \A w \in Workers : wsnap[w] = {} /\ wpc[w] # "deps"
           /\ ClaimHeld

\* What a step does to the rows: a task goes from ready to active when it is
\* claimed, and from active on only by the hand of the worker that claimed it.
Claims(w) == /\ status[wtask[w]] = "ready"
             /\ status' = [status EXCEPT ![wtask[w]] = "active"]
             /\ claimed' = [claimed EXCEPT ![wtask[w]] = w]
Ends(w) == /\ status'[wtask[w]] # "pending" /\ wpc[w] \in Working /\ wpc'[w] \notin Working
           /\ \E new : status' = [status EXCEPT ![wtask[w]] = new]
           /\ \A t \in Tasks : t # wtask[w] => claimed'[t] = claimed[t]

LEMMA FlatRows ==
    ASSUME FlatInv, NEW w \in Workers, Step(w)
    PROVE  \/ UNCHANGED <<status, claimed>>
           \/ Claim(w) /\ Claims(w)
           \/ (Complete(w) \/ FailWrite(w)) /\ Ends(w)
<1> USE DEF FlatInv, TypeInv, TypeOK
<1>1. ~MakeReady(w)
  BY DEF MakeReady
<1>2. CASE Claim(w)
  BY <1>2 DEF Claim, Claims
<1>3. CASE Complete(w)
  <2>1. wtask[w] \in Tasks /\ wpc[w] \in Working /\ wpc'[w] \notin Working
    BY <1>3 DEF Complete, HoldsTask, Working
  <2>2. status' = [status EXCEPT ![wtask[w]] = "complete"] /\ claimed' = claimed
    BY <1>3 DEF Complete
  <2>3. status'[wtask[w]] # "pending"
    BY <2>1, <2>2
  <2> QED BY <1>3, <2>1, <2>2, <2>3 DEF Ends
<1>4. CASE FailWrite(w)
  <2>1. wtask[w] \in Tasks /\ wpc[w] \in Working /\ wpc'[w] \notin Working
    BY <1>4 DEF FailWrite, HoldsTask, Working
  <2> DEFINE outcome == IF wread[w] + 1 >= MaxRetries THEN "escalate" ELSE "ready"
  <2>2. /\ status' = [status EXCEPT ![wtask[w]] = outcome]
        /\ claimed' = [claimed EXCEPT ![wtask[w]] = None]
    BY <1>4 DEF FailWrite
  <2>3. outcome # "pending"
    OBVIOUS
  <2> HIDE DEF outcome
  <2>4. status'[wtask[w]] # "pending"
    BY <2>1, <2>2, <2>3
  <2>5. \A t \in Tasks : t # wtask[w] => claimed'[t] = claimed[t]
    BY <2>1, <2>2
  <2> QED BY <1>4, <2>1, <2>2, <2>4, <2>5 DEF Ends
<1>5. CASE ~(Claim(w) \/ Complete(w) \/ FailWrite(w))
  BY <1>1, <1>5 DEF Step, Idle, Execute, Report, Resolve, Look, Check, Awake, LoseClaim, Leave,
     Gather, Succeed, Fail, Count, FailRead, Snapshot, NextRow, DepMet, DepUnmet, Resolved
<1> QED BY <1>2, <1>3, <1>4, <1>5

\* A step of w moves only w, and only a claim brings it to work.
LEMMA FlatPlaces ==
    ASSUME FlatInv, NEW w \in Workers, Step(w) \/ Die(w)
    PROVE  /\ \A v \in Workers \ {w} : wpc'[v] = wpc[v] /\ wtask'[v] = wtask[v] /\ wsnap'[v] = wsnap[v]
           /\ wsnap'[w] = {} /\ wpc'[w] # "deps"
           /\ wpc'[w] \in Working => /\ wtask'[w] = wtask[w]
                                     /\ wpc[w] \in Working \/ Claim(w)
<1> USE DEF FlatInv, TypeInv, TypeOK
<1>1. CASE Look(w) \/ Check(w) \/ Awake(w) \/ Claim(w) \/ LoseClaim(w) \/ Leave(w) \/ Die(w)
  BY <1>1 DEF Look, Check, Awake, Claim, LoseClaim, Leave, Die, Working
<1>2. CASE Gather(w) \/ Succeed(w) \/ Fail(w)
  BY <1>2 DEF Gather, Succeed, Fail, Working
<1>3. CASE Complete(w) \/ Count(w) \/ FailRead(w) \/ FailWrite(w)
  BY <1>3 DEF Complete, Count, FailRead, FailWrite, Working
<1>4. CASE Snapshot(w) \/ Resolved(w)
  BY <1>4 DEF Snapshot, Resolved, Working
<1>5. ~(NextRow(w) \/ DepMet(w) \/ DepUnmet(w) \/ MakeReady(w))
  BY DEF NextRow, DepMet, DepUnmet, MakeReady
<1> QED BY <1>1, <1>2, <1>3, <1>4, <1>5 DEF Step, Idle, Execute, Report, Resolve

LEMMA FlatStep == ASSUME NoDeps PROVE FlatInv /\ [Next]_vars => FlatInv'
<1> SUFFICES ASSUME FlatInv, [Next]_vars PROVE FlatInv'
  OBVIOUS
<1> USE DEF FlatInv
<1>1. TypeInv'
  BY TypeStep
<1>2. ASSUME NEW w \in Workers, Step(w) PROVE FlatInv'
  <2>1. /\ \A v \in Workers \ {w} : wpc'[v] = wpc[v] /\ wtask'[v] = wtask[v] /\ wsnap'[v] = wsnap[v]
        /\ wsnap'[w] = {} /\ wpc'[w] # "deps"
        /\ wpc'[w] \in Working => wtask'[w] = wtask[w] /\ (wpc[w] \in Working \/ Claim(w))
    BY <1>2, FlatPlaces
  <2>2. \A v \in Workers : wsnap'[v] = {} /\ wpc'[v] # "deps"
    BY <2>1
  <2>3. CASE UNCHANGED <<status, claimed>> /\ ~Claim(w)
    BY <1>1, <2>1, <2>2, <2>3 DEF ClaimHeld
  <2>4. CASE Claim(w) /\ Claims(w)
    <3>1. wtask[w] \in Tasks /\ status \in [Tasks -> Statuses] /\ claimed \in [Tasks -> Workers \cup {None}]
      BY <2>4 DEF TypeInv, TypeOK, HoldsTask, Claim
    <3>2. \A t \in Tasks : status'[t] # "pending"
      BY <2>4, <3>1 DEF Claims
    <3>3. \A v \in Workers \ {w} : wpc[v] \in Working => wtask[v] \in Tasks /\ wtask[v] # wtask[w]
      BY <2>4 DEF Claims, ClaimHeld, TypeInv, HoldsTask
    <3>4. ClaimHeld'
      BY <2>1, <2>4, <3>1, <3>3 DEF Claims, ClaimHeld
    <3> QED BY <1>1, <2>2, <3>2, <3>4
  <2>5. CASE (Complete(w) \/ FailWrite(w)) /\ Ends(w)
    <3>1. wtask[w] \in Tasks /\ status \in [Tasks -> Statuses]
      BY <2>5 DEF TypeInv, TypeOK, HoldsTask, Ends
    <3>2. \A t \in Tasks : t # wtask[w] => status'[t] = status[t] /\ claimed'[t] = claimed[t]
      BY <2>5, <3>1 DEF Ends
    <3>3. \A t \in Tasks : status'[t] # "pending"
      BY <2>5, <3>2 DEF Ends
    <3>4. \A v \in Workers \ {w} : wpc[v] \in Working => wtask[v] \in Tasks /\ wtask[v] # wtask[w]
      BY <2>5 DEF Ends, ClaimHeld, TypeInv, HoldsTask
    <3>5. ClaimHeld'
      BY <2>1, <2>5, <3>2, <3>4 DEF Ends, ClaimHeld
    <3> QED BY <1>1, <2>2, <3>3, <3>5
  <2>6. ~Claim(w) \/ Claims(w)
    BY DEF Claim, Claims
  <2> QED BY <1>2, <2>3, <2>4, <2>5, <2>6, FlatRows
<1>3. ASSUME NEW w \in Workers, Die(w) PROVE FlatInv'
  <2>1. UNCHANGED <<status, claimed>> /\ wpc'[w] \notin Working
    BY <1>3 DEF Die, TypeInv, TypeOK, Working
  <2> QED BY <1>1, <1>3, <2>1, FlatPlaces DEF ClaimHeld
<1>4. CASE Cancel \/ Aggregate \/ Done \/ UNCHANGED vars
  <2>1. UNCHANGED <<status, claimed, wpc, wtask, wsnap>>
    BY <1>4 DEF Cancel, Aggregate, Done, vars
  <2> QED BY <1>1, <2>1 DEF ClaimHeld
<1> QED BY <1>2, <1>3, <1>4 DEF Next

\* What CountExact counts.
Completed == {t \in Tasks : status[t] = "complete"}
Counting == {w \in Workers : wpc[w] = "count"}

LEMMA FiniteCounts == /\ IsFiniteSet(Completed) /\ IsFiniteSet(Counting)
                      /\ Cardinality(Completed) \in Nat /\ Cardinality(Counting) \in Nat
<1>1. IsFiniteSet(Completed)
  BY FS_Subset DEF Completed
<1>2. IsFiniteSet(Counting)
  BY FS_Subset DEF Counting
<1> QED BY <1>1, <1>2, FS_CardinalityType

LEMMA CountStep ==
    ASSUME NoDeps, "error" \notin Env, FlatInv, CountExact, [Next]_vars
    PROVE  CountExact'
<1> USE DEF FlatInv, TypeInv, TypeOK
<1>0. Cardinality(Completed) = count + Cardinality(Counting)
  BY DEF CountExact, Completed, Counting
<1> SUFFICES Cardinality(Completed') = count' + Cardinality(Counting')
  BY DEF CountExact, Completed, Counting
<1>1. ASSUME NEW w \in Workers, Complete(w)
      PROVE  Cardinality(Completed') = count' + Cardinality(Counting')
  <2>1. wtask[w] \in Tasks /\ status[wtask[w]] = "active" /\ wpc[w] = "complete"
    BY <1>1 DEF Complete, HoldsTask, ClaimHeld, Working
  <2>2. /\ status' = [status EXCEPT ![wtask[w]] = "complete"]
        /\ wpc' = [wpc EXCEPT ![w] = "count"] /\ count' = count
    BY <1>1 DEF Complete
  <2>3. Completed' = Completed \cup {wtask[w]} /\ wtask[w] \notin Completed
    BY <2>1, <2>2 DEF Completed
  <2>4. Counting' = Counting \cup {w} /\ w \notin Counting
    BY <2>1, <2>2 DEF Counting
  <2>5. Cardinality(Completed') = Cardinality(Completed) + 1
    BY <2>3, FiniteCounts, FS_AddElement
  <2>6. Cardinality(Counting') = Cardinality(Counting) + 1
    BY <2>4, FiniteCounts, FS_AddElement
  <2> QED BY <1>0, <2>2, <2>5, <2>6, FiniteCounts
<1>2. ASSUME NEW w \in Workers, Count(w)
      PROVE  Cardinality(Completed') = count' + Cardinality(Counting')
  <2>1. /\ wpc[w] = "count" /\ wpc' = [wpc EXCEPT ![w] = "snap"]
        /\ status' = status /\ count' = count + 1
    BY <1>2 DEF Count
  <2>2. Completed' = Completed
    BY <2>1 DEF Completed
  <2>3. Counting' = Counting \ {w} /\ w \in Counting
    BY <2>1 DEF Counting
  <2>4. Cardinality(Counting') = Cardinality(Counting) - 1
    BY <2>3, FiniteCounts, FS_RemoveElement
  <2> QED BY <1>0, <2>1, <2>2, <2>4, FiniteCounts
<1>3. ASSUME UNCHANGED count,
             \A v \in Workers : wpc'[v] = "count" <=> wpc[v] = "count",
             \A t \in Tasks : status'[t] = "complete" <=> status[t] = "complete"
      PROVE  Cardinality(Completed') = count' + Cardinality(Counting')
  <2>1. Completed' = Completed
    BY <1>3 DEF Completed
  <2>2. Counting' = Counting
    BY <1>3 DEF Counting
  <2> QED BY <1>0, <1>3, <2>1, <2>2
<1>4. ASSUME NEW w \in Workers, Step(w), ~Complete(w), ~Count(w)
      PROVE  Cardinality(Completed') = count' + Cardinality(Counting')
  <2>1. UNCHANGED count
    BY <1>4 DEF Step, Idle, Execute, Report, Resolve, Look, Check, Awake, Claim, LoseClaim, Leave,
       Gather, Succeed, Fail, FailRead, FailWrite, Snapshot, NextRow, DepMet, DepUnmet,
       MakeReady, Resolved
  <2>2. wpc[w] # "count" /\ wpc'[w] # "count"
    <3>1. CASE Idle(w)
      BY <3>1 DEF Idle, Look, Check, Awake, Claim, LoseClaim, Leave
    <3>2. CASE Execute(w) \/ FailRead(w) \/ FailWrite(w)
      BY <3>2 DEF Execute, Gather, Succeed, Fail, FailRead, FailWrite
    <3>3. CASE Resolve(w)
      BY <3>3 DEF Resolve, Snapshot, NextRow, DepMet, DepUnmet, MakeReady, Resolved
    <3> QED BY <1>4, <3>1, <3>2, <3>3 DEF Step, Report
  <2>3. \A v \in Workers : wpc'[v] = "count" <=> wpc[v] = "count"
    BY <1>4, <2>2, FlatPlaces
  <2>4. \A t \in Tasks : status'[t] = "complete" <=> status[t] = "complete"
    <3>1. CASE Claim(w)
      BY <3>1 DEF Claim, HoldsTask
    <3>2. CASE FailWrite(w)
      <4>1. wtask[w] \in Tasks /\ status[wtask[w]] = "active"
        BY <3>2 DEF FailWrite, HoldsTask, ClaimHeld, Working
      <4> QED BY <3>2, <4>1 DEF FailWrite
    <3>3. CASE UNCHANGED <<status, claimed>>
      BY <3>3
    <3> QED BY <1>4, <3>1, <3>2, <3>3, FlatRows
  <2> QED BY <1>3, <2>1, <2>3, <2>4
<1>5. ASSUME NEW w \in Workers, Die(w)
      PROVE  Cardinality(Completed') = count' + Cardinality(Counting')
  <2>1. wpc[w] = "exec" /\ wpc' = [wpc EXCEPT ![w] = "dead"] /\ UNCHANGED <<status, count>>
    BY <1>5 DEF Die
  <2>2. \A v \in Workers : wpc'[v] = "count" <=> wpc[v] = "count"
    BY <2>1
  <2> QED BY <1>3, <2>1, <2>2
<1>6. CASE Cancel \/ Aggregate \/ Done \/ UNCHANGED vars
  <2>1. UNCHANGED <<status, count, wpc>>
    BY <1>6 DEF Cancel, Aggregate, Done, vars
  <2> QED BY <1>3, <2>1
<1> QED BY <1>1, <1>2, <1>4, <1>5, <1>6 DEF Next

LEMMA FlatStarts == ASSUME NoDeps PROVE Init => FlatInv /\ CountExact
<1> SUFFICES ASSUME Init PROVE FlatInv /\ CountExact
  OBVIOUS
<1>1. TypeInv
  BY DEF Init, TypeInv, TypeOK, HoldsTask, Statuses, Places, Working
<1>2. ClaimHeld
  BY DEF Init, ClaimHeld, Working
<1>3. \A t \in Tasks : status[t] = "ready"
  BY DEF Init, NoDeps
<1>4. CountExact
  <2>1. Completed = {} /\ Counting = {}
    BY <1>3 DEF Init, Completed, Counting
  <2>2. Cardinality({}) = 0 /\ count = 0
    BY FS_EmptySet DEF Init
  <2>3. Cardinality(Completed) = 0 /\ Cardinality(Counting) = 0
    BY <2>1, <2>2
  <2>4. Cardinality(Completed) = count + Cardinality(Counting)
    BY <2>2, <2>3
  <2> QED BY <2>4 DEF CountExact, Completed, Counting
<1> QED BY <1>1, <1>2, <1>3, <1>4 DEF Init, FlatInv

LEMMA HeldAlone == FlatInv => ExecutesAlone
<1> SUFFICES ASSUME FlatInv, NEW t \in Tasks
             PROVE  Cardinality({w \in Workers : Executing(w, t)}) <= 1
  BY DEF ExecutesAlone
<1> DEFINE S == {w \in Workers : Executing(w, t)}
<1>1. S \subseteq {claimed[t]}
  BY DEF FlatInv, ClaimHeld, Executing, Working
<1>2. IsFiniteSet({claimed[t]}) /\ Cardinality({claimed[t]}) = 1
  BY FS_Singleton
<1>3. Cardinality(S) <= Cardinality({claimed[t]})
  BY <1>1, <1>2, FS_Subset
<1> QED BY <1>2, <1>3

\* A task leaves the state complete only by a stale resolution.
LEMMA FlatProgress ==
    ASSUME NoDeps, FlatInv, [Next]_vars
    PROVE  \A t \in Tasks : status[t] = "complete" => status'[t] = "complete"
<1> USE DEF FlatInv, TypeInv, TypeOK
<1>1. ASSUME NEW w \in Workers, Step(w)
      PROVE  \A t \in Tasks : status[t] = "complete" => status'[t] = "complete"
  <2>1. CASE Claim(w) /\ Claims(w)
    BY <2>1 DEF Claims
  <2>2. CASE (Complete(w) \/ FailWrite(w)) /\ Ends(w)
    <3>1. wtask[w] \in Tasks /\ status[wtask[w]] = "active"
      BY <2>2 DEF Ends, ClaimHeld, HoldsTask
    <3>2. \A t \in Tasks : t # wtask[w] => status'[t] = status[t]
      BY <2>2, <3>1 DEF Ends
    <3> QED BY <3>1, <3>2
  <2> QED BY <1>1, <2>1, <2>2, FlatRows
<1>2. CASE (\E w \in Workers : Die(w)) \/ Cancel \/ Aggregate \/ Done \/ UNCHANGED vars
  BY <1>2 DEF Die, Cancel, Aggregate, Done, vars
<1> QED BY <1>1, <1>2 DEF Next

(* Without dependencies what a worker executes is what it holds the claim  *)
(* of, from the claim to the first statement that reports its end, nobody  *)
(* else executes it meanwhile, and a completed task stays completed: what  *)
(* hive_double shows to fail can only come from resolve_dependencies.      *)
THEOREM FlatClaimHolds ==
    ASSUME NoDeps PROVE Spec => [](ClaimHeld /\ ExecutesAlone) /\ MonotonicProgress
<1>1. FlatInv => ClaimHeld /\ ExecutesAlone
  BY HeldAlone DEF FlatInv
<1>2. FlatInv /\ [Next]_vars =>
        [\A t \in Tasks : status[t] = "complete" => status'[t] = "complete"]_vars
  BY FlatProgress
<1> QED BY <1>1, <1>2, FlatStarts, FlatStep, PTL DEF Spec, MonotonicProgress

(* And completed_count is the number of complete tasks, but for those that *)
(* are just about to be counted: each completion is counted once.  Where a *)
(* statement may fail, the one that counts may.                            *)
THEOREM FlatCountHolds ==
    ASSUME NoDeps, "error" \notin Env PROVE Spec => []CountExact
<1>1. FlatInv /\ CountExact /\ [Next]_vars => CountExact'
  BY CountStep
<1> QED BY <1>1, FlatStarts, FlatStep, PTL DEF Spec
=============================================================================
