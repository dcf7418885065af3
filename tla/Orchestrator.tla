------------------------------ MODULE Orchestrator -----------------------------
(***************************************************************************)
(* DockerOrchestrator of crates/electro-core/src/orchestrator_impl.rs:     *)
(* managers that provision, scale down and destroy containers at the same  *)
(* time, with a table of instances that is locked only to be read or to be *)
(* changed, never across a call to Docker (external), any of which may     *)
(* fail.  A container is the number of its creation.                       *)
(***************************************************************************)
EXTENDS Naturals, FiniteSets

CONSTANTS
  Managers,
  Names,           \* names of agents
  ReplicaOf,       \* pairs <<n, base>>: n is base, or base followed by a dash and more
  MaxInstances,    \* max_instances
  MaxContainers    \* bound: containers created

ASSUME OrchestratorAssumption ==
  /\ ReplicaOf \subseteq Names \X Names /\ {MaxInstances, MaxContainers} \subseteq Nat

VARIABLES
  tracked,     \* ids in the table
  nameOf,      \* per container: its name
  containers,  \* what Docker holds
  opStep,      \* per manager: the call to Docker it waits for
  opId,        \* per manager: the container in hand, 0 for none
  victims,     \* per manager: replicas still to look at
  toRemove,    \* per manager: how many are still to go
  opBase,      \* per manager: [id, name, replicas] of a scale
  alone,       \* per manager: no other changed the table since it read it (history)
  leftOver,    \* containers whose start failed (history)
  scaled       \* the scale that just ended as it should, or NoScale (history)

orchestratorVars == <<tracked, nameOf, containers, opStep, opId, victims, toRemove, opBase,
                      alone, leftOver, scaled>>

NoScale == [id |-> 0, name |-> CHOOSE n \in Names : TRUE, replicas |-> 0]
Ids == DOMAIN nameOf

OrchestratorInit ==
  /\ tracked = {} /\ nameOf = <<>> /\ containers = {} /\ leftOver = {} /\ scaled = NoScale
  /\ opStep = [m \in Managers |-> "idle"] /\ opId = [m \in Managers |-> 0]
  /\ victims = [m \in Managers |-> {}] /\ toRemove = [m \in Managers |-> 0]
  /\ opBase = [m \in Managers |-> NoScale] /\ alone = [m \in Managers |-> TRUE]

OpAt(m, step) == opStep[m] = step
OpTo(m, step) == opStep' = [opStep EXCEPT ![m] = step]
\* The table changes under the hands of the others.
Disturb(m) == alone' = [k \in Managers |-> k = m /\ alone[k]]

\* Mutant: the table may be filled by one more.
BeginProvisionLate(m) ==
  /\ OpAt(m, "idle") /\ Cardinality(tracked) <= MaxInstances /\ OpTo(m, "create")
  /\ scaled' = NoScale
  /\ UNCHANGED <<tracked, nameOf, containers, opId, victims, toRemove, opBase, alone, leftOver>>

\* provision: the count is looked at before the first call to Docker.
BeginProvision(m) ==
  /\ OpAt(m, "idle") /\ Cardinality(tracked) < MaxInstances /\ OpTo(m, "create")
  /\ scaled' = NoScale
  /\ UNCHANGED <<tracked, nameOf, containers, opId, victims, toRemove, opBase, alone, leftOver>>
CreateContainer(m, name) ==
  /\ OpAt(m, "create") /\ Cardinality(Ids) < MaxContainers
  /\ LET id == Cardinality(Ids) + 1
     IN  /\ nameOf' = [i \in Ids \cup {id} |-> IF i = id THEN name ELSE nameOf[i]]
         /\ containers' = containers \cup {id} /\ opId' = [opId EXCEPT ![m] = id]
  /\ OpTo(m, "start") /\ scaled' = NoScale
  /\ UNCHANGED <<tracked, victims, toRemove, opBase, alone, leftOver>>
StartContainer(m) ==
  /\ OpAt(m, "start") /\ OpTo(m, "insert") /\ scaled' = NoScale
  /\ UNCHANGED <<tracked, nameOf, containers, opId, victims, toRemove, opBase, alone, leftOver>>
\* The container that was created stays behind.
StartRefused(m) ==
  /\ OpAt(m, "start") /\ OpTo(m, "idle") /\ leftOver' = leftOver \cup {opId[m]}
  /\ opId' = [opId EXCEPT ![m] = 0] /\ scaled' = NoScale
  /\ UNCHANGED <<tracked, nameOf, containers, victims, toRemove, opBase, alone>>
Insert(m) ==
  /\ OpAt(m, "insert") /\ OpTo(m, "idle") /\ tracked' = tracked \cup {opId[m]}
  /\ opId' = [opId EXCEPT ![m] = 0] /\ Disturb(m) /\ scaled' = NoScale
  /\ UNCHANGED <<nameOf, containers, victims, toRemove, opBase, leftOver>>

Replicas(base) == {i \in tracked : <<nameOf[i], base>> \in ReplicaOf}

\* Mutant: the instance itself is counted among those to remove.
BeginScaleOne(m, id, replicas) ==
  /\ OpAt(m, "idle") /\ replicas > 0 /\ replicas < Cardinality(Replicas(nameOf[id]))
  /\ victims' = [victims EXCEPT ![m] = Replicas(nameOf[id]) \ {id}]
  /\ toRemove' = [toRemove EXCEPT ![m] = Cardinality(Replicas(nameOf[id]) \ {id}) - replicas]
  /\ opBase' = [opBase EXCEPT ![m] = [id |-> id, name |-> nameOf[id], replicas |-> replicas]]
  /\ alone' = [alone EXCEPT ![m] = TRUE] /\ OpTo(m, "next") /\ scaled' = NoScale
  /\ UNCHANGED <<tracked, nameOf, containers, opId, leftOver>>

\* scale, for an instance that was provisioned once: the replicas are listed and
\* the lock given back.  More replicas than there are is always an error.
BeginScale(m, id, replicas) ==
  /\ OpAt(m, "idle") /\ replicas > 0 /\ replicas < Cardinality(Replicas(nameOf[id]))
  /\ victims' = [victims EXCEPT ![m] = Replicas(nameOf[id]) \ {id}]
  /\ toRemove' = [toRemove EXCEPT ![m] = Cardinality(Replicas(nameOf[id])) - replicas]
  /\ opBase' = [opBase EXCEPT ![m] = [id |-> id, name |-> nameOf[id], replicas |-> replicas]]
  /\ alone' = [alone EXCEPT ![m] = TRUE] /\ OpTo(m, "next") /\ scaled' = NoScale
  /\ UNCHANGED <<tracked, nameOf, containers, opId, leftOver>>
NextVictim(m) ==
  /\ OpAt(m, "next") /\ toRemove[m] > 0
  /\ \E v \in victims[m] : /\ victims' = [victims EXCEPT ![m] = @ \ {v}]
                           /\ opId' = [opId EXCEPT ![m] = v]
  /\ OpTo(m, "stop") /\ scaled' = NoScale
  /\ UNCHANGED <<tracked, nameOf, containers, toRemove, opBase, alone, leftOver>>
EndScale(m) ==
  /\ OpAt(m, "next") /\ (toRemove[m] = 0 \/ victims[m] = {}) /\ OpTo(m, "idle")
  /\ scaled' = IF alone[m] THEN opBase[m] ELSE NoScale
  /\ victims' = [victims EXCEPT ![m] = {}] /\ toRemove' = [toRemove EXCEPT ![m] = 0]
  /\ opBase' = [opBase EXCEPT ![m] = NoScale]
  /\ UNCHANGED <<tracked, nameOf, containers, opId, alone, leftOver>>

\* destroy, of an instance somebody was given.
BeginDestroy(m, id) ==
  /\ OpAt(m, "idle") /\ opId' = [opId EXCEPT ![m] = id] /\ OpTo(m, "stop") /\ scaled' = NoScale
  /\ UNCHANGED <<tracked, nameOf, containers, victims, toRemove, opBase, alone, leftOver>>

\* Mutant: the table is changed before Docker has removed the container.
RemoveAfterwards(m) ==
  /\ OpAt(m, "stop") /\ opId[m] \in containers /\ tracked' = tracked \ {opId[m]}
  /\ OpTo(m, "remove") /\ Disturb(m) /\ scaled' = NoScale
  /\ UNCHANGED <<nameOf, containers, opId, victims, toRemove, opBase, leftOver>>

\* Stopping and removing a container; Docker refuses what is gone.
StopContainer(m) ==
  /\ OpAt(m, "stop") /\ opId[m] \in containers /\ OpTo(m, "remove") /\ scaled' = NoScale
  /\ UNCHANGED <<tracked, nameOf, containers, opId, victims, toRemove, opBase, alone, leftOver>>
RemoveContainer(m) ==
  /\ OpAt(m, "remove") /\ opId[m] \in containers /\ containers' = containers \ {opId[m]}
  /\ OpTo(m, "untrack") /\ scaled' = NoScale
  /\ UNCHANGED <<tracked, nameOf, opId, victims, toRemove, opBase, alone, leftOver>>

Untrack(m) ==
  /\ OpAt(m, "untrack") /\ tracked' = tracked \ {opId[m]} /\ Disturb(m) /\ scaled' = NoScale
  /\ opId' = [opId EXCEPT ![m] = 0]
  /\ IF opBase[m] = NoScale THEN OpTo(m, "idle") /\ UNCHANGED toRemove
     ELSE OpTo(m, "next") /\ toRemove' = [toRemove EXCEPT ![m] = @ - 1]
  /\ UNCHANGED <<nameOf, containers, victims, opBase, leftOver>>

\* Any call to Docker but the start may fail, which ends the operation.
DockerFails(m) ==
  /\ opStep[m] \in {"create", "stop", "remove"} /\ OpTo(m, "idle") /\ scaled' = NoScale
  /\ opId' = [opId EXCEPT ![m] = 0] /\ victims' = [victims EXCEPT ![m] = {}]
  /\ toRemove' = [toRemove EXCEPT ![m] = 0] /\ opBase' = [opBase EXCEPT ![m] = NoScale]
  /\ UNCHANGED <<tracked, nameOf, containers, alone, leftOver>>

\* The instances somebody was given by provision.
Given == Ids \ (leftOver \cup {opId[m] : m \in {k \in Managers : opStep[k] \in {"start", "insert"}}})

OrchestratorNext ==
  \E m \in Managers :
    \/ BeginProvision(m) \/ (\E n \in Names : CreateContainer(m, n)) \/ StartContainer(m) \/ StartRefused(m)
    \/ Insert(m) \/ NextVictim(m) \/ EndScale(m) \/ StopContainer(m) \/ RemoveContainer(m) \/ Untrack(m)
    \/ DockerFails(m)
    \/ \E id \in Given : BeginDestroy(m, id) \/ \E r \in 1 .. MaxInstances : BeginScale(m, id, r)

OrchestratorSpec == OrchestratorInit /\ [][OrchestratorNext]_orchestratorVars

-----------------------------------------------------------------------------
\* Every variable keeps its type.
OrchestratorTypeOK ==
  /\ Ids = 1 .. Cardinality(Ids) /\ Cardinality(Ids) <= MaxContainers
  /\ nameOf \in [Ids -> Names] /\ tracked \cup containers \cup leftOver \subseteq Ids
  /\ opStep \in [Managers -> {"idle", "create", "start", "insert", "next", "stop", "remove",
                              "untrack"}]
  /\ opId \in [Managers -> {0} \cup Ids] /\ victims \in [Managers -> SUBSET Ids]
  /\ toRemove \in [Managers -> 0 .. MaxInstances + Cardinality(Managers)]

\* The check of the limit and the insertion are apart: the table outgrows the
\* limit by no more than the other managers.
WithinLimit == Cardinality(tracked) < MaxInstances + Cardinality(Managers)

\* A container that runs is in the table, in a manager's hands, or one whose
\* start failed.
NoStrayContainer ==
  containers \subseteq tracked \cup leftOver
     \cup {opId[m] : m \in {k \in Managers : opStep[k] \in {"start", "insert"}}}

\* What the table names exists, or a manager has just removed it.
NoGhost == tracked \ containers \subseteq {opId[m] : m \in {k \in Managers : OpAt(k, "untrack")}}

\* A scale that nobody disturbed leaves as many as were asked for, and among
\* them the instance it was asked for, unless that was destroyed before.
ScaledRight ==
  scaled # NoScale =>
     /\ Cardinality(Replicas(scaled.name)) = scaled.replicas
     /\ scaled.id \in containers => scaled.id \in tracked

\* The four together.
OrchestratorSound == WithinLimit /\ NoStrayContainer /\ NoGhost /\ ScaledRight
=============================================================================
