------------------------------- MODULE Heartbeat ------------------------------
(***************************************************************************)
(* HeartbeatRunner::run of crates/electro-automation/src/heartbeat.rs: the *)
(* loop that on every tick looks for HEARTBEAT_OK, reads the checklist and *)
(* puts a message on the queue of the runtime, which it shares with the    *)
(* channels.  The agent (external) executes one message at a time and may  *)
(* meanwhile write HEARTBEAT_OK and rewrite the checklist; users edit it   *)
(* too.  Ticks that fall due while the loop is busy follow at once.        *)
(***************************************************************************)
EXTENDS Naturals, Sequences

CONSTANTS
  HbCap,       \* capacity of queue_tx
  MaxTicks,    \* bound: ticks of the interval
  MaxOthers    \* bound: messages of the channels

ASSUME HeartbeatAssumption == HbCap \in Nat \ {0} /\ {MaxTicks, MaxOthers} \subseteq Nat

VARIABLES
  ticks,        \* ticks so far
  hbStep,       \* where run is
  okFile,       \* is there a HEARTBEAT_OK
  checklist,    \* is there a checklist that is not blank
  hbQueue,      \* queue_tx
  others,       \* messages the channels have sent
  executing,    \* what the agent has in hand
  tally,        \* HeartbeatMetrics
  okAtTick,     \* was HEARTBEAT_OK there when the tick was taken (history)
  okWrites,     \* how often it was written anew (history)
  okKept        \* how often its removal failed (history)

loopVars == <<hbStep, tally, okAtTick, okKept>>
heartbeatVars == <<ticks, okFile, checklist, hbQueue, others, executing, okWrites, loopVars>>

Skips == {"hours", "ok", "empty", "full"}
HeartbeatInit ==
  /\ ticks = 0 /\ hbStep = "timer" /\ okFile = FALSE /\ checklist \in BOOLEAN
  /\ hbQueue = <<>> /\ others = 0 /\ executing = "nothing"
  /\ tally = [k \in Skips \cup {"runs", "sent"} |-> 0]
  /\ okAtTick = FALSE /\ okWrites = 0 /\ okKept = 0

-----------------------------------------------------------------------------
(* The loop.                                                               *)

Counted(k) == tally' = [tally EXCEPT ![k] = @ + 1]
Skip(k) == Counted(k) /\ hbStep' = "timer"
Reads == UNCHANGED <<ticks, okFile, checklist, hbQueue, others, executing, okWrites>>

TickElapses ==
  /\ ticks < MaxTicks /\ ticks' = ticks + 1
  /\ UNCHANGED <<okFile, checklist, hbQueue, others, executing, okWrites, loopVars>>

TakeTick ==
  /\ hbStep = "timer" /\ tally["runs"] < ticks
  /\ Counted("runs") /\ hbStep' = "hours" /\ okAtTick' = okFile
  /\ Reads /\ UNCHANGED okKept

\* active_hours, if any.
CheckHours ==
  /\ hbStep = "hours"
  /\ \/ Skip("hours")
     \/ hbStep' = "ok" /\ UNCHANGED tally
  /\ Reads /\ UNCHANGED <<okAtTick, okKept>>

\* Mutant: the cycle goes on after the file was found.
FoundOkGoesOn == hbStep' = "list" /\ UNCHANGED tally
FoundOk == Skip("ok")

FindOk ==
  /\ hbStep = "ok" /\ hbStep' = (IF okFile THEN "remove" ELSE "list")
  /\ Reads /\ UNCHANGED <<tally, okAtTick, okKept>>

\* Mutant: the file stays.
RemoveOkNot == UNCHANGED <<okFile, okKept>>
\* The removal may fail; the cycle is skipped all the same.
RemoveOk == \/ okFile' = FALSE /\ UNCHANGED okKept
            \/ okKept' = okKept + 1 /\ UNCHANGED okFile

HeedOk ==
  /\ hbStep = "remove" /\ FoundOk /\ RemoveOk
  /\ UNCHANGED <<ticks, checklist, hbQueue, others, executing, okWrites, okAtTick>>

ReadChecklist ==
  /\ hbStep = "list"
  /\ IF checklist THEN hbStep' = "send" /\ UNCHANGED tally ELSE Skip("empty")
  /\ Reads /\ UNCHANGED <<okAtTick, okKept>>

\* try_send: with the queue full the tick is skipped.
SendBeat ==
  /\ hbStep = "send"
  /\ IF Len(hbQueue) < HbCap
     THEN /\ hbQueue' = Append(hbQueue, "beat") /\ Counted("sent") /\ hbStep' = "timer"
     ELSE Skip("full") /\ UNCHANGED hbQueue
  /\ UNCHANGED <<ticks, okFile, checklist, others, executing, okWrites, okAtTick, okKept>>

\* The receiver is gone.
ClosedBreaks ==
  /\ hbStep = "send" /\ hbStep' = "stopped" /\ Reads /\ UNCHANGED <<tally, okAtTick, okKept>>

-----------------------------------------------------------------------------
(* Whom it works with.                                                     *)

ChannelSends ==
  /\ others < MaxOthers /\ Len(hbQueue) < HbCap
  /\ others' = others + 1 /\ hbQueue' = Append(hbQueue, "other")
  /\ UNCHANGED <<ticks, okFile, checklist, executing, okWrites, loopVars>>

AgentTakes ==
  /\ executing = "nothing" /\ hbQueue # <<>>
  /\ executing' = Head(hbQueue) /\ hbQueue' = Tail(hbQueue)
  /\ UNCHANGED <<ticks, okFile, checklist, others, okWrites, loopVars>>

AgentWritesOk ==
  /\ executing = "beat" /\ ~okFile /\ okFile' = TRUE /\ okWrites' = okWrites + 1
  /\ UNCHANGED <<ticks, checklist, hbQueue, others, executing, loopVars>>

ChecklistChanges ==
  /\ checklist' = ~checklist
  /\ UNCHANGED <<ticks, okFile, hbQueue, others, executing, okWrites, loopVars>>

AgentEnds ==
  /\ executing # "nothing" /\ executing' = "nothing"
  /\ UNCHANGED <<ticks, okFile, checklist, hbQueue, others, okWrites, loopVars>>

HeartbeatNext ==
  \/ TickElapses \/ TakeTick \/ CheckHours \/ FindOk \/ HeedOk \/ ReadChecklist \/ SendBeat
  \/ ClosedBreaks \/ ChannelSends \/ AgentTakes \/ AgentWritesOk \/ ChecklistChanges \/ AgentEnds

-----------------------------------------------------------------------------
\* Every variable keeps its type.
HeartbeatTypeOK ==
  /\ ticks \in 0 .. MaxTicks /\ others \in 0 .. MaxOthers
  /\ hbStep \in {"timer", "hours", "ok", "remove", "list", "send", "stopped"}
  /\ {okFile, checklist, okAtTick} \subseteq BOOLEAN /\ {okWrites, okKept} \subseteq Nat
  /\ hbQueue \in Seq({"beat", "other"}) /\ Len(hbQueue) <= HbCap
  /\ executing \in {"nothing", "beat", "other"}
  /\ \A k \in DOMAIN tally : tally[k] \in Nat

\* A HEARTBEAT_OK that is there when a tick is taken keeps that cycle from
\* sending, a single one however late in a cycle the agent wrote it; and every
\* tick is counted as what became of it.
HeartbeatSound ==
  /\ hbStep = "send" => ~okAtTick
  /\ tally["ok"] <= okWrites + okKept
  /\ tally["runs"] = tally["sent"] + tally["hours"] + tally["ok"] + tally["empty"]
                     + tally["full"] + (IF hbStep = "timer" THEN 0 ELSE 1)
=============================================================================
