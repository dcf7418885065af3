------------------------------- MODULE Failover -------------------------------
(***************************************************************************)
(* ResilientMemory of crates/electro-memory/src/failover.rs: a primary     *)
(* store, a cache that takes over when the primary fails, a count of       *)
(* consecutive failures and a repair that writes the cache back.           *)
(* The lock on the state is held for one read or write of it and never     *)
(* over a call of the primary, so every such piece is a step.              *)
(***************************************************************************)
EXTENDS Naturals, FiniteSets

CONSTANTS
  Keys,        \* entry ids
  Users,       \* tasks that use the memory at the same time
  MaxStores,   \* bound: stores; the n-th one stores the value n
  Threshold    \* max_consecutive_failures

ASSUME FailoverAssumption == Keys # {} /\ MaxStores \in Nat /\ Threshold \in Nat \ {0}

VARIABLES
  primary,     \* the entries of the primary store, 0 where there is none
  cache,       \* the cached entries, 0 where there is none
  failures,    \* consecutive_failures
  tried,       \* repair_attempted
  stores,      \* stores so far
  op,          \* per user: the operation it is in and how far it is
  toSync,      \* per user: the snapshot of the cache it still has to write
  syncOk,      \* per user: no write of the snapshot failed so far
  deleted,     \* keys a delete was asked for (history variable)
  acked        \* per key: the value of the last store answered Ok, 0 if a
               \* delete came after it (history variable)

failoverVars == <<primary, cache, failures, tried, stores, op, toSync, syncOk, deleted, acked>>
cellVars == <<primary, cache, failures, tried>>

NoEntries == [k \in Keys |-> 0]
Ops == [kind : {"none", "store", "get", "delete", "list"},
        at : {"idle", "call", "failed", "probe", "snapshot", "sync", "clear", "done"},
        key : Keys, value : 0 .. MaxStores]
Idle == [kind |-> "none", at |-> "idle", key |-> CHOOSE k \in Keys : TRUE, value |-> 0]
Stage(u, place) == op[u].at = place
Then(u, place) == op' = [op EXCEPT ![u].at = place]
Answer(u) ==
  /\ op' = [op EXCEPT ![u] = Idle]
  /\ UNCHANGED deleted
  /\ acked' = CASE op[u].kind = "store"  -> [acked EXCEPT ![op[u].key] = op[u].value]
                [] op[u].kind = "delete" -> [acked EXCEPT ![op[u].key] = 0]
                [] OTHER -> acked

FailoverInit ==
  /\ primary = NoEntries /\ cache = NoEntries /\ failures = 0 /\ tried = FALSE
  /\ stores = 0 /\ op = [u \in Users |-> Idle]
  /\ toSync = [u \in Users |-> NoEntries] /\ syncOk = [u \in Users |-> TRUE]
  /\ deleted = {} /\ acked = NoEntries

Begin(u, kind, k, v) ==
  op' = [op EXCEPT ![u] = [kind |-> kind, at |-> "call", key |-> k, value |-> v]]

-----------------------------------------------------------------------------
\* store: a copy goes into the cache first, then the primary is called.
BeginStore(u, k) ==
  /\ Stage(u, "idle") /\ stores < MaxStores
  /\ stores' = stores + 1
  /\ cache' = [cache EXCEPT ![k] = stores + 1]
  /\ Begin(u, "store", k, stores + 1)
  /\ UNCHANGED <<primary, failures, tried, toSync, syncOk, deleted, acked>>

\* get: a cached entry is the answer; else the primary is asked.
BeginGet(u, k) ==
  /\ Stage(u, "idle") /\ cache[k] = 0
  /\ Begin(u, "get", k, 0)
  /\ UNCHANGED <<cellVars, stores, toSync, syncOk, deleted, acked>>

\* delete: out of the cache first.
BeginDelete(u, k) ==
  /\ Stage(u, "idle")
  /\ cache' = [cache EXCEPT ![k] = 0]
  /\ Begin(u, "delete", k, 0) /\ deleted' = deleted \cup {k}
  /\ UNCHANGED <<primary, failures, tried, stores, toSync, syncOk, acked>>

\* search, list_sessions, get_session_history: only the primary is called.
BeginList(u) ==
  /\ Stage(u, "idle") /\ Begin(u, "list", CHOOSE k \in Keys : TRUE, 0)
  /\ UNCHANGED <<cellVars, stores, toSync, syncOk, deleted, acked>>

Applied(u) == CASE op[u].kind = "store"  -> [primary EXCEPT ![op[u].key] = op[u].value]
                [] op[u].kind = "delete" -> [primary EXCEPT ![op[u].key] = 0]
                [] OTHER -> primary

\* The primary answers, or fails and has done nothing.
CallSucceeds(u) ==
  /\ Stage(u, "call") /\ primary' = Applied(u) /\ Then(u, "done")
  /\ UNCHANGED <<cache, failures, tried, stores, toSync, syncOk, deleted, acked>>
CallFails(u) ==
  /\ Stage(u, "call") /\ Then(u, "failed")
  /\ UNCHANGED <<cellVars, stores, toSync, syncOk, deleted, acked>>

RecordSuccess(u) ==
  /\ Stage(u, "done") /\ Answer(u)
  /\ failures' = 0 /\ tried' = IF failures > 0 THEN FALSE ELSE tried
  /\ UNCHANGED <<primary, cache, stores, toSync, syncOk>>

\* Bound: failures are counted up to the threshold they are compared with.
RecordFailure(u) ==
  /\ Stage(u, "failed")
  /\ failures' = IF failures < Threshold THEN failures + 1 ELSE failures
  /\ IF failures + 1 >= Threshold /\ ~tried
     THEN Then(u, "probe") /\ UNCHANGED <<deleted, acked>>
     ELSE Answer(u)
  /\ UNCHANGED <<primary, cache, tried, stores, toSync, syncOk>>

-----------------------------------------------------------------------------
(* attempt_repair.                                                         *)
ProbeFails(u) ==
  /\ Stage(u, "probe") /\ Answer(u)
  /\ tried' = TRUE /\ failures' = IF failures = 0 THEN 1 ELSE failures
  /\ UNCHANGED <<primary, cache, stores, toSync, syncOk>>
ProbeSucceeds(u) ==
  /\ Stage(u, "probe") /\ Then(u, "snapshot")
  /\ UNCHANGED <<cellVars, stores, toSync, syncOk, deleted, acked>>
\* An empty cache needs no writing, and is not cleared.
Snapshot(u) ==
  /\ Stage(u, "snapshot") /\ Then(u, IF cache = NoEntries THEN "clear" ELSE "sync")
  /\ toSync' = [toSync EXCEPT ![u] = cache] /\ syncOk' = [syncOk EXCEPT ![u] = TRUE]
  /\ UNCHANGED <<cellVars, stores, deleted, acked>>

\* One entry of the snapshot is stored, in any order of the map.
SyncOne(u, k) ==
  /\ Stage(u, "sync") /\ toSync[u][k] # 0
  /\ toSync' = [toSync EXCEPT ![u][k] = 0]
  /\ \/ primary' = [primary EXCEPT ![k] = toSync[u][k]] /\ UNCHANGED syncOk
     \/ UNCHANGED primary /\ syncOk' = [syncOk EXCEPT ![u] = FALSE]
  /\ UNCHANGED <<cache, failures, tried, stores, op, deleted, acked>>

\* Mutant: the cache is cleared although an entry could not be written.
SyncDoneAnyway(u) ==
  /\ Stage(u, "sync") /\ toSync[u] = NoEntries
  /\ cache' = NoEntries /\ Then(u, "clear")
  /\ UNCHANGED <<primary, failures, tried, stores, toSync, syncOk, deleted, acked>>

\* All written: the cache is cleared.  Else the repair ends with an error and
\* leaves the count and the flag as they are.
SyncDone(u) ==
  /\ Stage(u, "sync") /\ toSync[u] = NoEntries
  /\ IF syncOk[u] THEN cache' = NoEntries /\ Then(u, "clear") /\ UNCHANGED <<deleted, acked>>
                  ELSE Answer(u) /\ UNCHANGED cache
  /\ UNCHANGED <<primary, failures, tried, stores, toSync, syncOk>>
Repaired(u) ==
  /\ Stage(u, "clear") /\ Answer(u)
  /\ failures' = 0 /\ tried' = FALSE
  /\ UNCHANGED <<primary, cache, stores, toSync, syncOk>>

FailoverNext == \E u \in Users :
  \/ \E k \in Keys : BeginStore(u, k) \/ BeginGet(u, k) \/ BeginDelete(u, k) \/ SyncOne(u, k)
  \/ BeginList(u) \/ CallSucceeds(u) \/ CallFails(u) \/ RecordSuccess(u) \/ RecordFailure(u)
  \/ ProbeFails(u) \/ ProbeSucceeds(u) \/ Snapshot(u) \/ SyncDone(u) \/ Repaired(u)

FailoverSpec == FailoverInit /\ [][FailoverNext]_failoverVars

-----------------------------------------------------------------------------
\* Every variable keeps its type.
FailoverTypeOK ==
  /\ primary \in [Keys -> 0 .. MaxStores] /\ cache \in [Keys -> 0 .. MaxStores]
  /\ failures \in 0 .. Threshold /\ tried \in BOOLEAN /\ stores \in 0 .. MaxStores
  /\ op \in [Users -> Ops] /\ toSync \in [Users -> [Keys -> 0 .. MaxStores]]
  /\ syncOk \in [Users -> BOOLEAN] /\ acked \in [Keys -> 0 .. MaxStores]
  /\ deleted \subseteq Keys

\* A store that was answered Ok is what a get finds, in the cache or in the
\* primary, however the primary fails and is repaired: the copy in the cache is
\* there "so we don't lose it if primary fails".
FailoverKeepsAcked ==
  (\A u \in Users : op[u] = Idle) =>
    \A k \in Keys : acked[k] # 0 =>
      (IF cache[k] # 0 THEN cache[k] ELSE primary[k]) = acked[k]

\* With several tasks at once an entry that was stored, answered Ok and never
\* deleted is still somewhere.
FailoverNotLost ==
  (\A u \in Users : op[u] = Idle) =>
    \A k \in Keys \ deleted : acked[k] # 0 => cache[k] # 0 \/ primary[k] # 0
=============================================================================
