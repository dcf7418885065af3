-------------------------------- MODULE MCTurn --------------------------------
(***************************************************************************)
(* Instances of Turn for TLC, and beside it the circuit breaker that every *)
(* call of the provider goes through: a behaviour of TurnSpec is one of    *)
(* either, named by part, while the other rests.                           *)
(***************************************************************************)
EXTENDS Turn, CircuitBreaker, TLC

CONSTANTS m1, m2, m3, c1, c2

VARIABLE part

\* One chat with a failing database and a crash, one with a failing provider,
\* stops and time limits, and two chats with nothing that goes wrong.
Healthy == [sent |-> {m1, m3}, faults |-> {}]
AllScenes == {[sent |-> {m1, m2}, faults |-> {"db", "crash"}],
              [sent |-> {m1, m2}, faults |-> {"model", "stop", "timeout"}],
              Healthy}
TwoChats == [m \in Msgs |-> IF m = m3 THEN c2 ELSE c1]

TurnInit ==
  /\ Init /\ BreakerInit
  /\ part \in {"turn", "breaker"} /\ (part = "breaker" => scene = Healthy)
TurnNext ==
  /\ UNCHANGED part
  /\ \/ part = "turn" /\ Next /\ UNCHANGED breakerVars
     \/ part = "breaker" /\ BreakerNext /\ UNCHANGED turnVars

\* The fairness of Spec and BreakerFairness, each for its own part.
TurnSpec ==
  /\ TurnInit /\ [][TurnNext]_<<part, turnVars, breakerVars>>
  /\ \A m \in Msgs : WF_turnVars(part = "turn" /\ Step(m))
  /\ WF_breakerVars(part = "breaker" /\ BreakerTick)
  /\ \A c \in Callers : /\ WF_breakerVars(part = "breaker" /\ CanExecute(c))
                        /\ WF_breakerVars(part = "breaker" /\ RecordOutcome(c))
                        /\ SF_breakerVars(part = "breaker" /\ Answers(c))

-----------------------------------------------------------------------------
\* Every variable of both keeps its type.
TurnTypeOK == TypeOK /\ BreakerTypeOK

\* However it goes, a turn that is running ends, and a provider that is well
\* again is called again.
TurnsEnd == \A m \in Msgs : part = "turn" /\ at[m] \in Running ~> at[m] \in Ended
BreakerRecovers == part = "breaker" => Recovers
=============================================================================
