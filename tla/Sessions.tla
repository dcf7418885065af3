------------------------------- MODULE Sessions -------------------------------
(***************************************************************************)
(* SessionManager of crates/electro-gateway/src/session.rs: a map of       *)
(* sessions and a list of their keys in the order of use, each under a     *)
(* lock of its own.  Only an eviction holds both; everywhere else the list *)
(* is brought up to date after the lock of the map was given back, so      *)
(* every operation is two steps.                                           *)
(***************************************************************************)
EXTENDS Naturals, Sequences, FiniteSets, SequencesExt

CONSTANTS
  SessionKeys,
  Requests,     \* requests that use the manager at the same time
  MaxSessions,  \* MAX_SESSIONS
  NoKey

ASSUME SessionsAssumption == NoKey \notin SessionKeys /\ MaxSessions \in Nat \ {0} /\ IsFiniteSet(Requests)

VARIABLES
  sessions,     \* keys of the stored sessions
  order,        \* access_order
  step,         \* per request: what it does next to the list
  held,         \* per request: the key whose copy it works on
  removing      \* some remove_session has begun (history variable)

sessionsVars == <<sessions, order, step, held, removing>>

\* retain
KeptKeys(s, keys) ==
  LET kept[n \in 0 .. Len(s)] ==
        IF n = 0 THEN <<>>
        ELSE IF s[n] \in keys THEN Append(kept[n - 1], s[n]) ELSE kept[n - 1]
  IN  kept[Len(s)]
Without(s, k) == KeptKeys(s, SessionKeys \ {k})

SessionsInit ==
  /\ sessions = {} /\ order = <<>> /\ removing = FALSE
  /\ step = [r \in Requests |-> "idle"] /\ held = [r \in Requests |-> NoKey]

\* get_or_create, the session is there: a copy now, the list later.
GetExisting(r, k) ==
  /\ step[r] = "idle" /\ held[r] = NoKey /\ k \in sessions
  /\ step' = [step EXCEPT ![r] = "touch"] /\ held' = [held EXCEPT ![r] = k]
  /\ UNCHANGED <<sessions, order, removing>>

\* Keys are taken off the list until there is room or the list is empty; a key
\* without a session is taken off too and frees nothing.
Evicting(n) == {order[i] : i \in 1 .. n}
Enough(n) == Cardinality(sessions \ Evicting(n)) < MaxSessions
ToEvict == CHOOSE n \in 0 .. Len(order) :
             /\ Enough(n) \/ n = Len(order)
             /\ \A m \in 0 .. n - 1 : ~Enough(m)

\* Mutant: one key is taken off, whether it has a session or not.
CreateEvictOne(r, k) ==
  /\ step[r] = "idle" /\ held[r] = NoKey /\ k \notin sessions
  /\ LET n == IF Cardinality(sessions) >= MaxSessions /\ order # <<>> THEN 1 ELSE 0
     IN sessions' = (sessions \ Evicting(n)) \cup {k} /\ order' = SubSeq(order, n + 1, Len(order))
  /\ step' = [step EXCEPT ![r] = "push"] /\ held' = [held EXCEPT ![r] = k]
  /\ UNCHANGED removing

\* The session is not there: evict under both locks, insert; the key is pushed
\* on the list later, without looking whether it is there.
Create(r, k) ==
  /\ step[r] = "idle" /\ held[r] = NoKey /\ k \notin sessions
  /\ sessions' = (sessions \ Evicting(ToEvict)) \cup {k}
  /\ order' = SubSeq(order, ToEvict + 1, Len(order))
  /\ step' = [step EXCEPT ![r] = "push"] /\ held' = [held EXCEPT ![r] = k]
  /\ UNCHANGED removing
PushOrder(r) ==
  /\ step[r] = "push" /\ order' = Append(order, held[r])
  /\ step' = [step EXCEPT ![r] = "idle"]
  /\ UNCHANGED <<sessions, held, removing>>
Touch(r) ==
  /\ step[r] = "touch" /\ order' = Append(Without(order, held[r]), held[r])
  /\ step' = [step EXCEPT ![r] = "idle"]
  /\ UNCHANGED <<sessions, held, removing>>

\* update_session puts the copy back, also when it was evicted meanwhile.
Update(r) ==
  /\ step[r] = "idle" /\ held[r] # NoKey
  /\ sessions' = sessions \cup {held[r]} /\ step' = [step EXCEPT ![r] = "putBack"]
  /\ UNCHANGED <<order, held, removing>>
\* Mutant: the key is moved only if it is on the list.
TouchUpdatedKnown(r) ==
  /\ step[r] = "putBack"
  /\ order' = IF Contains(order, held[r]) THEN Append(Without(order, held[r]), held[r]) ELSE order
  /\ step' = [step EXCEPT ![r] = "idle"] /\ held' = [held EXCEPT ![r] = NoKey]
  /\ UNCHANGED <<sessions, removing>>

TouchUpdated(r) ==
  /\ step[r] = "putBack" /\ order' = Append(Without(order, held[r]), held[r])
  /\ step' = [step EXCEPT ![r] = "idle"] /\ held' = [held EXCEPT ![r] = NoKey]
  /\ UNCHANGED <<sessions, removing>>

Drop(r) ==
  /\ step[r] = "idle" /\ held[r] # NoKey
  /\ sessions' = sessions \ {held[r]} /\ step' = [step EXCEPT ![r] = "unlist"]
  /\ removing' = TRUE
  /\ UNCHANGED <<order, held>>
Unlist(r) ==
  /\ step[r] = "unlist" /\ order' = Without(order, held[r])
  /\ step' = [step EXCEPT ![r] = "idle"] /\ held' = [held EXCEPT ![r] = NoKey]
  /\ UNCHANGED <<sessions, removing>>

\* Bound: requests pause while the list holds two entries more than there are
\* keys; each of them may add one key a second time.
Room == Len(order) <= Cardinality(SessionKeys) + 2

SessionsNext == \E r \in Requests :
  \/ Room /\ \E k \in SessionKeys : GetExisting(r, k) \/ Create(r, k)
  \/ PushOrder(r) \/ Touch(r) \/ Update(r) \/ TouchUpdated(r) \/ Drop(r) \/ Unlist(r)

SessionsSpec == SessionsInit /\ [][SessionsNext]_sessionsVars

-----------------------------------------------------------------------------
\* Every variable keeps its type.
SessionsTypeOK ==
  /\ sessions \subseteq SessionKeys /\ order \in Seq(SessionKeys)
  /\ step \in [Requests -> {"idle", "touch", "push", "putBack", "unlist"}]
  /\ held \in [Requests -> SessionKeys \cup {NoKey}]
  /\ removing \in BOOLEAN

\* As long as nobody removes sessions, every session is on the list, or some
\* request is about to put it there: none is out of reach of the eviction.
SessionsEvictable ==
  ~removing => \A k \in sessions : Contains(order, k)
                 \/ \E r \in Requests : held[r] = k /\ step[r] \in {"push", "touch", "putBack"}

\* Sessions put back after their eviction may take the map over its limit, but
\* only by one for each further request that works on a copy.
SessionsBounded ==
  ~removing => Cardinality(sessions) <= MaxSessions + Cardinality(Requests) - 1

\* Both: the two locks, taken one after the other, keep the limit on sessions.
SessionsKept == SessionsEvictable /\ SessionsBounded
=============================================================================
