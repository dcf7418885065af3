------------------------------- MODULE MCServer -------------------------------
(***************************************************************************)
(* The server, in the environment the constants give and in a quiet one,   *)
(* in which the messages are two requests and a heartbeat and nothing is   *)
(* stopped, panics or is reaped; and two swarms: two workers on a diamond  *)
(* of tasks where nothing fails, and on three tasks without dependencies   *)
(* that may fail, in an order that may be cancelled.  A behaviour is one   *)
(* of these, named by part, while the others rest.                         *)
(***************************************************************************)
EXTENDS MCDispatch, TLAPS

CONSTANTS t1, t2, t3, t4, MaxRetries

VARIABLES part, status, claimed, retries, summary, count, hivePc, wtask, winput, wsnap,
          wrow, wdeps, wread, cancelled, opc

hiveVars == <<status, claimed, retries, summary, count, hivePc, wtask, winput, wsnap,
              wrow, wdeps, wread, cancelled, opc>>

HiveWorkers == {w1, w2}
FlatTasks == {t1, t2, t3}
Flat == INSTANCE Hive_proofs WITH Tasks <- FlatTasks, Deps <- [t \in FlatTasks |-> {}],
                                  Workers <- HiveWorkers, Env <- {"fail", "cancel"},
                                  wpc <- hivePc

ASSUME LiveAssumption == Flat!HiveAssumption

Diamond == (t1 :> {}) @@ (t2 :> {t1}) @@ (t3 :> {t1}) @@ (t4 :> {t2, t3})
Graph == INSTANCE Hive WITH Tasks <- {t1, t2, t3, t4}, Deps <- Diamond,
                            Workers <- HiveWorkers, Env <- {}, wpc <- hivePc

InQuiet == INSTANCE Dispatch_proofs WITH
             KindOf <- [m \in Msgs |-> IF m = aa1 THEN "system" ELSE "user"],
             Env <- {"slow", "remote", "error", "cancel"}

\* The server in either environment.
EitherInit == part \in {"server", "quiet"} /\ Init /\ Graph!Init
EitherNext == /\ UNCHANGED <<part, hiveVars>>
              /\ \/ part = "server" /\ Next
                 \/ part = "quiet" /\ InQuiet!Next
EitherSpec == EitherInit /\ [][EitherNext]_<<part, vars, hiveVars>>

\* The server and the swarms, for what must end.
LiveInit ==
  /\ Init
  /\ \/ part = "flat" /\ Flat!Init
     \/ part \in {"server", "graph"} /\ Graph!Init
LiveNext ==
  /\ UNCHANGED part
  /\ \/ part = "server" /\ Next /\ UNCHANGED hiveVars
     \/ part = "flat" /\ Flat!Next /\ UNCHANGED vars
     \/ part = "graph" /\ Graph!Next /\ UNCHANGED vars

\* The fairness of TimedSpec and of Hive's FairSpec, each for its own part.
Serves(A) == part = "server" /\ A
HiveStep(w) == \/ part = "graph" /\ Graph!Step(w)
               \/ part = "flat" /\ Flat!Step(w)
LiveSpec ==
  /\ LiveInit /\ [][LiveNext]_<<part, vars, hiveVars>>
  /\ SF_vars(Serves(Dispatcher)) /\ SF_vars(Serves(Housekeeping))
  /\ \A w \in Workers :
        /\ WF_vars(Serves(WorkerStep(w))) /\ SF_vars(Serves(Acquire(w)))
        /\ WF_vars(Serves(RemoteEnds(w))) /\ WF_vars(Serves(Cancelled(w)))
        /\ WF_vars(Serves(AgentEnds(w)))
  /\ \A w \in HiveWorkers : WF_hiveVars(HiveStep(w))
  /\ WF_hiveVars(part # "server" /\ Flat!Aggregate)

-----------------------------------------------------------------------------
(* Where nothing is stopped, panics or is reaped, runs of one chat do not  *)
(* overlap,                                                                *)
QuietOneRunPerChat == part = "quiet" => OneRunPerChat

(* no message gets two terminal events under its id, however it was        *)
(* buffered, sent again or run remotely (no interceptor answers in quiet), *)
QuietAnsweredOnce == part = "quiet" => \A m \in Msgs : answers[m] <= 1

(* and a slot that looks busy belongs to a worker that is in a run.        *)
QuietBusyMeansRunning == part = "quiet" => BusyMeansRunning

(* All three: a chat is served one request at a time, once each, and its   *)
(* slot tells the truth about it.                                          *)
QuietChat == QuietOneRunPerChat /\ QuietAnsweredOnce /\ QuietBusyMeansRunning

-----------------------------------------------------------------------------
(* Without dependencies to resolve nothing is stale: what a worker         *)
(* executes is what it holds the claim of, from the claim to the first     *)
(* statement that reports its end.                                         *)
FlatClaimHeld == part = "flat" => Flat!ClaimHeld

(* Without dependencies completed_count is the number of complete tasks,   *)
(* but for those whose worker is just about to count them.                 *)
FlatCountExact == part = "flat" => Flat!CountExact

(* Both: a claim is exclusive and what comes of it is counted once.        *)
FlatClaimsCounted == FlatClaimHeld /\ FlatCountExact

(* Every order ends, and where nothing fails it ends with every task of    *)
(* the graph completed, although any of the overlapping resolutions may    *)
(* miss a dependency.                                                      *)
HiveFinishes ==
  part # "server" =>
    <>(opc = "aggregated" /\ (part = "flat" \/ \A t \in DOMAIN Diamond : status[t] = "complete"))

-----------------------------------------------------------------------------
(* By what is proved of a quiet environment in Dispatch_proofs, for every   *)
(* value of the constants.                                                 *)
THEOREM QuietChatHolds == EitherSpec => []QuietChat
<1> DEFINE Inv == part = "quiet" => InQuiet!QuietAll
<1>1. InQuiet!SchedulerAssumption /\ InQuiet!DispatchAssumption
  <2>1. InQuiet!IsFiniteSet(Workers)
    BY DispatchAssumption DEF DispatchAssumption, IsFiniteSet, InQuiet!IsFiniteSet
  <2>2. [m \in Msgs |-> IF m = aa1 THEN "system" ELSE "user"] \in [Msgs -> InQuiet!Kinds]
    BY DEF InQuiet!Kinds
  <2>3. {"slow", "remote", "error", "cancel"} \subseteq InQuiet!Events
    BY DEF InQuiet!Events
  <2>4. InQuiet!DispatchAssumption
    BY <2>1, <2>2, <2>3, DispatchAssumption DEF DispatchAssumption, InQuiet!DispatchAssumption
  <2> QED BY <2>4, SchedulerAssumption DEF SchedulerAssumption, InQuiet!SchedulerAssumption
<1>2. InQuiet!QuietEnv
  BY DEF InQuiet!QuietEnv
<1>3. EitherInit => Inv
  <2>1. Init <=> InQuiet!Init
    BY DEF Init, InQuiet!Init, SchedulerInit, InQuiet!SchedulerInit, NewCells, InQuiet!NewCells
  <2> QED BY <1>1, <2>1, InQuiet!QuietAllInit DEF EitherInit
<1>4. Inv /\ [EitherNext]_<<part, vars, hiveVars>> => Inv'
  <2> SUFFICES ASSUME Inv, [EitherNext]_<<part, vars, hiveVars>>, part' = "quiet"
               PROVE  InQuiet!QuietAll'
    OBVIOUS
  <2>1. part' = part
    BY DEF EitherNext
  <2>2. InQuiet!QuietAll
    BY <2>1
  <2>3. [InQuiet!Next]_(InQuiet!vars)
    BY <2>1 DEF EitherNext, vars, InQuiet!vars
  <2> QED BY <1>1, <1>2, <2>2, <2>3, InQuiet!QuietAllNext
<1>5. Inv => QuietChat
  <2> SUFFICES ASSUME Inv, part = "quiet"
               PROVE  /\ OneRunPerChat /\ BusyMeansRunning
                      /\ \A m \in Msgs : answers[m] <= 1
    BY DEF QuietChat, QuietOneRunPerChat, QuietAnsweredOnce, QuietBusyMeansRunning
  <2>1. /\ InQuiet!OneRunPerChat /\ InQuiet!BusyMeansRunning
        /\ \A m \in Msgs : answers[m] <= 1
    BY <1>1, InQuiet!QuietMeans DEF InQuiet!QuietAll
  <2>2. \A S : InQuiet!Cardinality(S) = Cardinality(S)
    BY Zenon DEF Cardinality, InQuiet!Cardinality
  <2>3. OneRunPerChat
    BY <2>1, <2>2 DEF OneRunPerChat, Runs, Holding, InQuiet!OneRunPerChat, InQuiet!Runs,
       InQuiet!Holding
  <2>4. BusyMeansRunning
    BY <2>1 DEF BusyMeansRunning, Busy, InQuiet!BusyMeansRunning, InQuiet!Busy
  <2> QED BY <2>1, <2>3, <2>4
<1> QED BY <1>3, <1>4, <1>5, PTL DEF EitherSpec

(* The claims and the count of the swarm without dependencies, by what is  *)
(* proved of it in Hive_proofs: the steps of the server and of the other   *)
(* swarm are none of its own.                                              *)
THEOREM FlatClaimsCountedHolds == LiveSpec => []FlatClaimsCounted
<1> DEFINE Inv == part = "flat" => Flat!FlatInv /\ Flat!CountExact
<1>1. Flat!NoDeps /\ "error" \notin {"fail", "cancel"}
  BY DEF Flat!NoDeps
<1>2. LiveInit => Inv
  <2>1. Flat!Init => Flat!FlatInv /\ Flat!CountExact
    BY <1>1, LiveAssumption, Flat!FlatStarts
  <2> QED BY <2>1 DEF LiveInit
<1>3. Inv /\ [LiveNext]_<<part, vars, hiveVars>> => Inv'
  <2> SUFFICES ASSUME Inv, [LiveNext]_<<part, vars, hiveVars>>, part' = "flat"
               PROVE  Flat!FlatInv' /\ Flat!CountExact'
    OBVIOUS
  <2>1. part' = part
    BY DEF LiveNext
  <2>2. Flat!FlatInv /\ Flat!CountExact
    BY <2>1
  <2>3. [Flat!Next]_(Flat!vars)
    BY <2>1 DEF LiveNext, hiveVars, Flat!vars
  <2>4. Flat!FlatInv'
    BY <1>1, <2>2, <2>3, LiveAssumption, Flat!FlatStep
  <2>5. Flat!CountExact'
    BY <1>1, <2>2, <2>3, LiveAssumption, Flat!CountStep
  <2> QED BY <2>4, <2>5
<1>4. Inv => FlatClaimsCounted
  BY DEF Flat!FlatInv, FlatClaimsCounted, FlatClaimHeld, FlatCountExact
<1> QED BY <1>2, <1>3, <1>4, PTL DEF LiveSpec
=============================================================================
