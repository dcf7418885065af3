------------------------------ MODULE MessageLife ------------------------------
(***************************************************************************)
(* What the server promises about one inbound message, without workers,    *)
(* queues, permits or locks.  The message is open from its arrival until   *)
(* it is answered or dropped; its execution starts at most once, and only  *)
(* while it is open; it is finished only with a terminal event, and what   *)
(* ends it is final.                                                       *)
(***************************************************************************)
EXTENDS Naturals

CONSTANTS
  MaxEvents   \* bound: events of the message are counted up to here

VARIABLES
  phase,    \* "absent", "open", "answered" or "dropped"
  starts,   \* how often its execution started
  events    \* terminal events sent under its id

lifeVars == <<phase, starts, events>>

LifeInit == phase = "absent" /\ starts = 0 /\ events = 0

Come ==
  /\ phase = "absent" /\ phase' = "open"
  /\ UNCHANGED <<starts, events>>

Begin ==
  /\ phase = "open" /\ starts = 0
  /\ starts' = 1
  /\ UNCHANGED <<phase, events>>

OneMore == events' = IF events < MaxEvents THEN events + 1 ELSE events

\* Also once it is no longer open: an interceptor answers under the id of the
\* message it was spawned for, whenever its provider call returns.
Publish ==
  /\ phase # "absent" /\ OneMore
  /\ UNCHANGED <<phase, starts>>

Finish ==
  /\ phase = "open" /\ phase' = "answered"
  /\ OneMore \/ (events > 0 /\ UNCHANGED events)
  /\ UNCHANGED starts

\* A full buffer, the removal of a dead worker's entry or a panic.
Drop ==
  /\ phase = "open" /\ phase' = "dropped"
  /\ UNCHANGED <<starts, events>>

LifeNext == Come \/ Begin \/ Publish \/ Finish \/ Drop

LifeSpec == LifeInit /\ [][LifeNext]_lifeVars
=============================================================================
