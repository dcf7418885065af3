---------------------------- MODULE CircuitBreaker ----------------------------
(***************************************************************************)
(* The circuit breaker of crates/electro-agent/src/circuit_breaker.rs as   *)
(* the requests of all chats share it (runtime.rs, around the provider     *)
(* call).  Its cells are atomics and mutexes of their own, no operation    *)
(* holds more than one: every load, store and lock is a step.              *)
(*                                                                         *)
(* Time is counted in ticks since opened_at, up to the longest timeout;    *)
(* failures are counted up to the threshold they are compared with.        *)
(***************************************************************************)
EXTENDS Naturals

CONSTANTS
    Callers,     \* requests that share the breaker
    FailureThreshold,   \* failure_threshold
    BaseTimeout,        \* base_recovery_timeout
    MaxRecoveryTimeout,  \* MAX_RECOVERY_TIMEOUT
    NeverOpened

ASSUME BreakerAssumption ==
    /\ FailureThreshold \in Nat \ {0}
    /\ BaseTimeout \in Nat \ {0} /\ MaxRecoveryTimeout \in Nat /\ BaseTimeout <= MaxRecoveryTimeout
    /\ NeverOpened \notin Nat

VARIABLES
    circuit,          \* state
    failureCount,     \* consecutive_failures
    sinceOpened,      \* ticks since opened_at, NeverOpened if it was never set
    recoveryTimeout,  \* current_recovery_timeout
    breakerPc,        \* [Callers -> place in can_execute, the call or record_*]
    seenTimeout,      \* [Callers -> the timeout read in can_execute]
    counted,          \* [Callers -> the failures counted in record_failure]
    providerUp        \* whether the provider answers

breakerCells == <<circuit, failureCount, sinceOpened, recoveryTimeout>>
breakerVars == <<breakerCells, breakerPc, seenTimeout, counted, providerUp>>

CircuitStates == {"closed", "open", "halfOpen"}
BreakerPlaces == {"idle", "timeout", "opened", "half", "call", "close", "reset",
                  "base", "add", "load", "trip", "stamp", "reopen", "restamp", "double"}

LeastTimeout(i, j) == IF i < j THEN i ELSE j
BreakerTo(c, place) == breakerPc' = [breakerPc EXCEPT ![c] = place]

BreakerInit ==
    /\ circuit = "closed" /\ failureCount = 0
    /\ sinceOpened = NeverOpened /\ recoveryTimeout = BaseTimeout
    /\ breakerPc = [c \in Callers |-> "idle"] /\ seenTimeout = [c \in Callers |-> 0]
    /\ counted = [c \in Callers |-> 0] /\ providerUp = TRUE

-----------------------------------------------------------------------------
(* can_execute.  Only an open circuit takes more than the load of state.   *)

Admitted(c) ==
    /\ breakerPc[c] = "idle" /\ circuit # "open"
    /\ BreakerTo(c, "call")
    /\ UNCHANGED <<breakerCells, seenTimeout, counted, providerUp>>

FoundOpen(c) ==
    /\ breakerPc[c] = "idle" /\ circuit = "open"
    /\ BreakerTo(c, "timeout")
    /\ UNCHANGED <<breakerCells, seenTimeout, counted, providerUp>>

ReadTimeout(c) ==
    /\ breakerPc[c] = "timeout"
    /\ seenTimeout' = [seenTimeout EXCEPT ![c] = recoveryTimeout]
    /\ BreakerTo(c, "opened")
    /\ UNCHANGED <<breakerCells, counted, providerUp>>

Elapsed(c) == sinceOpened = NeverOpened \/ sinceOpened >= seenTimeout[c]

\* Mutant: the elapsed time must exceed the timeout.
ReadOpenedStrict(c) ==
    /\ breakerPc[c] = "opened"
    /\ BreakerTo(c, IF sinceOpened = NeverOpened \/ sinceOpened > seenTimeout[c] THEN "half" ELSE "idle")
    /\ seenTimeout' = [seenTimeout EXCEPT ![c] = 0]
    /\ UNCHANGED <<breakerCells, counted, providerUp>>

ReadOpened(c) ==
    /\ breakerPc[c] = "opened"
    /\ BreakerTo(c, IF Elapsed(c) THEN "half" ELSE "idle")
    /\ seenTimeout' = [seenTimeout EXCEPT ![c] = 0]
    /\ UNCHANGED <<breakerCells, counted, providerUp>>

SetHalfOpen(c) ==
    /\ breakerPc[c] = "half"
    /\ circuit' = "halfOpen"
    /\ BreakerTo(c, "call")
    /\ UNCHANGED <<failureCount, sinceOpened, recoveryTimeout, seenTimeout, counted, providerUp>>

-----------------------------------------------------------------------------
(* The provider call: it answers, it fails, or it is not recorded at all   *)
(* because the request is cancelled or the model cannot call tools.        *)

Answers(c) ==
    /\ breakerPc[c] = "call" /\ providerUp
    /\ BreakerTo(c, "close")
    /\ UNCHANGED <<breakerCells, seenTimeout, counted, providerUp>>

Fails(c) ==
    /\ breakerPc[c] = "call" /\ ~providerUp
    /\ BreakerTo(c, "add")
    /\ UNCHANGED <<breakerCells, seenTimeout, counted, providerUp>>

Unrecorded(c) ==
    /\ breakerPc[c] = "call"
    /\ BreakerTo(c, "idle")
    /\ UNCHANGED <<breakerCells, seenTimeout, counted, providerUp>>

-----------------------------------------------------------------------------
(* record_success: three stores.                                           *)

Close(c) ==
    /\ breakerPc[c] = "close"
    /\ circuit' = "closed"
    /\ BreakerTo(c, "reset")
    /\ UNCHANGED <<failureCount, sinceOpened, recoveryTimeout, seenTimeout, counted, providerUp>>

ResetFailures(c) ==
    /\ breakerPc[c] = "reset"
    /\ failureCount' = 0
    /\ BreakerTo(c, "base")
    /\ UNCHANGED <<circuit, sinceOpened, recoveryTimeout, seenTimeout, counted, providerUp>>

ResetTimeout(c) ==
    /\ breakerPc[c] = "base"
    /\ recoveryTimeout' = BaseTimeout
    /\ BreakerTo(c, "idle")
    /\ UNCHANGED <<circuit, failureCount, sinceOpened, seenTimeout, counted, providerUp>>

-----------------------------------------------------------------------------
(* record_failure: count, load the state, and from there open the circuit  *)
(* or open it again with twice the timeout.                                *)

AddFailure(c) ==
    /\ breakerPc[c] = "add"
    /\ failureCount' = LeastTimeout(failureCount + 1, FailureThreshold)
    /\ counted' = [counted EXCEPT ![c] = failureCount']
    /\ BreakerTo(c, "load")
    /\ UNCHANGED <<circuit, sinceOpened, recoveryTimeout, seenTimeout, providerUp>>

\* Mutant: the circuit opens only when the threshold is exceeded.
LoadStateLate(c) ==
    /\ breakerPc[c] = "load"
    /\ BreakerTo(c, CASE circuit = "closed" /\ counted[c] > FailureThreshold -> "trip"
                      [] circuit = "halfOpen" -> "reopen"
                      [] OTHER -> "idle")
    /\ counted' = [counted EXCEPT ![c] = 0]
    /\ UNCHANGED <<breakerCells, seenTimeout, providerUp>>

LoadState(c) ==
    /\ breakerPc[c] = "load"
    /\ BreakerTo(c, CASE circuit = "closed" /\ counted[c] >= FailureThreshold -> "trip"
                      [] circuit = "halfOpen" -> "reopen"
                      [] OTHER -> "idle")
    /\ counted' = [counted EXCEPT ![c] = 0]
    /\ UNCHANGED <<breakerCells, seenTimeout, providerUp>>

Trip(c) ==
    /\ breakerPc[c] \in {"trip", "reopen"}
    /\ circuit' = "open"
    /\ BreakerTo(c, IF breakerPc[c] = "trip" THEN "stamp" ELSE "restamp")
    /\ UNCHANGED <<failureCount, sinceOpened, recoveryTimeout, seenTimeout, counted, providerUp>>

Stamp(c) ==
    /\ breakerPc[c] \in {"stamp", "restamp"}
    /\ sinceOpened' = 0
    /\ BreakerTo(c, IF breakerPc[c] = "stamp" THEN "idle" ELSE "double")
    /\ UNCHANGED <<circuit, failureCount, recoveryTimeout, seenTimeout, counted, providerUp>>

\* Mutant: without the min with MAX_RECOVERY_TIMEOUT.
DoubleUncapped(c) ==
    /\ breakerPc[c] = "double"
    /\ recoveryTimeout' = 2 * recoveryTimeout
    /\ BreakerTo(c, "idle")
    /\ UNCHANGED <<circuit, failureCount, sinceOpened, seenTimeout, counted, providerUp>>

Double(c) ==
    /\ breakerPc[c] = "double"
    /\ recoveryTimeout' = LeastTimeout(2 * recoveryTimeout, MaxRecoveryTimeout)
    /\ BreakerTo(c, "idle")
    /\ UNCHANGED <<circuit, failureCount, sinceOpened, seenTimeout, counted, providerUp>>

-----------------------------------------------------------------------------
(* Time passes; the provider goes down and comes back.                     *)

BreakerTick ==
    /\ sinceOpened # NeverOpened /\ sinceOpened < MaxRecoveryTimeout
    /\ sinceOpened' = sinceOpened + 1
    /\ UNCHANGED <<circuit, failureCount, recoveryTimeout, breakerPc, seenTimeout, counted, providerUp>>

ProviderTurns ==
    /\ providerUp' = ~providerUp
    /\ UNCHANGED <<breakerCells, breakerPc, seenTimeout, counted>>

CanExecute(c) == Admitted(c) \/ FoundOpen(c) \/ ReadTimeout(c) \/ ReadOpened(c)
                 \/ SetHalfOpen(c)
ProviderCall(c) == Answers(c) \/ Fails(c)
RecordOutcome(c) == Close(c) \/ ResetFailures(c) \/ ResetTimeout(c) \/ AddFailure(c)
             \/ LoadState(c) \/ Trip(c) \/ Stamp(c) \/ Double(c)

BreakerNext ==
    \/ \E c \in Callers : CanExecute(c) \/ ProviderCall(c) \/ Unrecorded(c) \/ RecordOutcome(c)
    \/ BreakerTick
    \/ ProviderTurns

BreakerSpec == BreakerInit /\ [][BreakerNext]_breakerVars

(* Requests keep coming, their threads run and time passes.  Not every     *)
(* call is cancelled: a provider that answers is heard again and again.    *)
BreakerFairness ==
    /\ WF_breakerVars(BreakerTick)
    /\ \A c \in Callers : /\ WF_breakerVars(CanExecute(c)) /\ WF_breakerVars(RecordOutcome(c))
                          /\ SF_breakerVars(Answers(c))

FairBreakerSpec == BreakerSpec /\ BreakerFairness

-----------------------------------------------------------------------------
(* The recovery timeout stays between its base and five minutes.           *)
BreakerTypeOK ==
    /\ circuit \in CircuitStates
    /\ failureCount \in 0 .. FailureThreshold
    /\ sinceOpened \in 0 .. MaxRecoveryTimeout \cup {NeverOpened}
    /\ recoveryTimeout \in BaseTimeout .. MaxRecoveryTimeout
    /\ breakerPc \in [Callers -> BreakerPlaces]
    /\ seenTimeout \in [Callers -> 0 .. MaxRecoveryTimeout]
    /\ counted \in [Callers -> 0 .. FailureThreshold]
    /\ providerUp \in BOOLEAN

(* No trip is lost, although success and failure store their cells one by  *)
(* one: while the circuit is closed with enough failures counted, a caller *)
(* is on its way to open it or to reset the count.                         *)
TripPending(c) == \/ breakerPc[c] \in {"reset", "trip"}
                  \/ breakerPc[c] = "load" /\ counted[c] >= FailureThreshold

TripNotLost ==
    circuit = "closed" /\ failureCount >= FailureThreshold => \E c \in Callers : TripPending(c)

(* Once the provider stays up the circuit closes for good, whatever stale  *)
(* failures, half-open tests and reopenings are still under way.           *)
Recovers == <>[]providerUp => <>[](circuit = "closed")
=============================================================================
