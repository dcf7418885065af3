-------------------------------- MODULE Remote --------------------------------
(***************************************************************************)
(* One request on its way to a worker node: RuntimeHandle::run_remote with *)
(* its retries in the chat worker, and the node's /execute handler, which  *)
(* knows a request it has seen by its id.  Each attempt that arrives is a  *)
(* handler of its own; every lock it takes is a step.  A connection may be *)
(* lost at any time, and the node may notice, before or after the caller   *)
(* does (then it drops the handler wherever it waits), or not.             *)
(***************************************************************************)
EXTENDS Naturals, FiniteSets

CONSTANT MaxTries   \* remote_retries

ASSUME RemoteAssumption == MaxTries \in Nat \ {0}

VARIABLES
  tries,      \* attempts sent so far
  caller,     \* the worker: idle, waiting for an answer, answered, or local
  handler,    \* where the handler of each attempt is
  mine,       \* the notifier a handler holds, named by the attempt that made it
  inFlight,   \* in_flight_requests: the notifier of the request, 0 if none
  completed,  \* completed_requests: the attempt whose run is cached, 0 if none
  runs,       \* attempts that began to execute the request
  missed,     \* attempts between their look and their claim when an answer was
              \* cached (history variable)
  answer      \* what the caller got: the attempt that ran it, or Conflict

remoteVars == <<tries, caller, handler, mine, inFlight, completed, runs, missed, answer>>

Tries == 1 .. MaxTries
Conflict == MaxTries + 1
HandlerPlaces == {"none", "look", "claim", "listen", "asleep", "awake",
                  "run", "cache", "release", "wake", "reply", "gone"}
At(h, place) == handler[h] = place
Move(h, place) == handler' = [handler EXCEPT ![h] = place]

RemoteInit ==
  /\ tries = 0 /\ caller = "idle"
  /\ handler = [h \in Tries |-> "none"] /\ mine = [h \in Tries |-> 0]
  /\ inFlight = 0 /\ completed = 0 /\ runs = {} /\ missed = {} /\ answer = 0

\* run_remote posts the request; it may be lost on the way.
Post ==
  /\ caller = "idle" /\ tries < MaxTries
  /\ tries' = tries + 1 /\ caller' = "waiting"
  /\ \E place \in {"look", "gone"} : Move(tries + 1, place)
  /\ UNCHANGED <<mine, inFlight, completed, runs, missed, answer>>

\* No answer, or one that cannot be read: the next attempt.
Unanswered ==
  /\ caller = "waiting" /\ caller' = "idle"
  /\ UNCHANGED <<tries, handler, mine, inFlight, completed, runs, missed, answer>>

\* The node finds the connection of a handler closed and drops the handler where
\* it waits; between the release and the wake-up it does not wait.
Dropped(h) ==
  /\ handler[h] \notin {"none", "wake", "gone"} /\ Move(h, "gone")
  /\ UNCHANGED <<tries, caller, mine, inFlight, completed, runs, missed, answer>>

\* After the last attempt the worker executes the request itself.
RunLocally ==
  /\ caller = "idle" /\ tries = MaxTries /\ caller' = "local"
  /\ UNCHANGED <<tries, handler, mine, inFlight, completed, runs, missed, answer>>

\* The answer to the attempt the caller is waiting for; other handlers
\* answer into a closed connection.
Replied(h, what) ==
  /\ Move(h, "gone")
  /\ IF caller = "waiting" /\ h = tries
     THEN caller' = "answered" /\ answer' = what
     ELSE UNCHANGED <<caller, answer>>
  /\ UNCHANGED <<tries, mine, inFlight, completed, runs, missed>>

-----------------------------------------------------------------------------
LookDone(h) == At(h, "look") /\ completed # 0 /\ Replied(h, completed)
LookMiss(h) ==
  /\ At(h, "look") /\ completed = 0
  /\ Move(h, "claim")
  /\ UNCHANGED <<tries, caller, mine, inFlight, completed, runs, missed, answer>>

\* Mutant: every attempt becomes an owner.
ClaimAlways(h) ==
  /\ At(h, "claim")
  /\ inFlight' = h /\ mine' = [mine EXCEPT ![h] = h]
  /\ runs' = runs \cup {h} /\ Move(h, "run")
  /\ UNCHANGED <<tries, caller, completed, missed, answer>>

\* Under the lock of in_flight_requests: become the owner or take its notifier.
Claim(h) ==
  /\ At(h, "claim")
  /\ IF inFlight = 0
     THEN /\ inFlight' = h /\ mine' = [mine EXCEPT ![h] = h]
          /\ runs' = runs \cup {h} /\ Move(h, "run")
     ELSE /\ mine' = [mine EXCEPT ![h] = inFlight]
          /\ Move(h, "listen") /\ UNCHANGED <<inFlight, runs>>
  /\ UNCHANGED <<tries, caller, completed, missed, answer>>

\* notified() is made only now: a notify_waiters in between is missed.
Listen(h) ==
  /\ At(h, "listen") /\ Move(h, "asleep")
  /\ UNCHANGED <<tries, caller, mine, inFlight, completed, runs, missed, answer>>

Awake(h) == At(h, "awake") /\ Replied(h, IF completed # 0 THEN completed ELSE Conflict)

\* Mutant: an answer is not cached.
RunEndsUncached(h) ==
  /\ At(h, "run") /\ Move(h, "release")
  /\ UNCHANGED <<tries, caller, mine, inFlight, completed, runs, missed, answer>>

\* process_message ends, with a reply, an error or the node's time limit.
RunEnds(h) ==
  /\ At(h, "run") /\ Move(h, "cache")
  /\ UNCHANGED <<tries, caller, mine, inFlight, completed, runs, missed, answer>>

Cache(h) ==
  /\ At(h, "cache") /\ completed' = h /\ Move(h, "release")
  /\ missed' = missed \cup {g \in Tries : At(g, "claim")}
  /\ UNCHANGED <<tries, caller, mine, inFlight, runs, answer>>

\* Mutant: the answer is not kept once the request is no longer in flight.
ReleaseForgets(h) ==
  /\ At(h, "release") /\ inFlight' = 0 /\ completed' = 0 /\ Move(h, "wake")
  /\ UNCHANGED <<tries, caller, mine, runs, missed, answer>>

Release(h) ==
  /\ At(h, "release") /\ inFlight' = 0 /\ Move(h, "wake")
  /\ UNCHANGED <<tries, caller, mine, completed, runs, missed, answer>>

WakeAll(h) ==
  /\ At(h, "wake")
  /\ handler' = [g \in Tries |-> IF g = h THEN "reply"
                                 ELSE IF At(g, "asleep") /\ mine[g] = h THEN "awake"
                                 ELSE handler[g]]
  /\ UNCHANGED <<tries, caller, mine, inFlight, completed, runs, missed, answer>>

Reply(h) == At(h, "reply") /\ Replied(h, h)

RemoteNext ==
  \/ Post \/ Unanswered \/ RunLocally
  \/ \E h \in Tries :
       \/ Dropped(h) \/ LookDone(h) \/ LookMiss(h) \/ Claim(h) \/ Listen(h) \/ Awake(h)
       \/ RunEnds(h) \/ Cache(h) \/ Release(h) \/ WakeAll(h) \/ Reply(h)

RemoteSpec == RemoteInit /\ [][RemoteNext]_remoteVars

-----------------------------------------------------------------------------
\* Every variable keeps its type.
RemoteTypeOK ==
  /\ tries \in 0 .. MaxTries /\ caller \in {"idle", "waiting", "answered", "local"}
  /\ handler \in [Tries -> HandlerPlaces] /\ mine \in [Tries -> 0 .. MaxTries]
  /\ inFlight \in 0 .. MaxTries /\ completed \in 0 .. MaxTries
  /\ runs \subseteq Tries /\ missed \subseteq Tries
  /\ answer \in 0 .. Conflict

\* However attempts are lost and repeated, the node never executes one request
\* twice at the same time.
RemoteOneAtATime == \A g, h \in Tries : At(g, "run") /\ At(h, "run") => g = h

\* A waiter that is woken finds the answer of the run it waited for: the
\* handler's "finished without cached result" is never sent.
RemoteNoConflict == answer # Conflict

\* The lock of completed_requests is given back before that of
\* in_flight_requests is taken: an attempt that had looked when the answer was
\* cached, and claims only after the request was released, executes it once
\* more.  Nothing else does: without those attempts there is one execution.
RemoteNoRerun == \E first \in Tries : runs \ missed \subseteq {first}

\* However attempts are lost, late and repeated, executions do not overlap, a
\* waiter gets an answer, and only the gap between the two locks lets one in again.
RemoteRunsOnce == RemoteOneAtATime /\ RemoteNoConflict /\ RemoteNoRerun
=============================================================================
