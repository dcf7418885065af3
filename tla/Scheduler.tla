------------------------------ MODULE Scheduler ------------------------------
(***************************************************************************)
(* The dispatcher's run queue, src/app/server/scheduler.rs.                *)
(*                                                                         *)
(* One FIFO of inbound messages for all chats and, per chat, the number of *)
(* messages that were handed to a worker and not yet marked complete.  The *)
(* struct is always used behind one mutex, so each method is one step.     *)
(*                                                                         *)
(* The module declares the state and the methods; module Dispatch extends  *)
(* it and calls the methods from the dispatcher and housekeeping tasks.    *)
(***************************************************************************)
EXTENDS Naturals, Sequences

CONSTANTS
    Chats,       \* chat ids
    Msgs,        \* inbound messages, each with an id of its own
    ChatOf,      \* [Msgs -> Chats], InboundMessage::chat_id
    MaxQueue,    \* max_queue
    MaxActive    \* max_active_per_chat

ASSUME SchedulerAssumption ==
    /\ ChatOf \in [Msgs -> Chats]
    /\ MaxQueue \in Nat \ {0}       \* Scheduler::new takes max(1)
    /\ MaxActive \in Nat \ {0}

VARIABLES
    queue,       \* Scheduler.queue
    active       \* Scheduler.active_per_chat; 0 stands for an absent entry

schedVars == <<queue, active>>

SchedulerTypeOK ==
    /\ queue \in Seq(Msgs)
    /\ active \in [Chats -> Nat]

SchedulerInit ==
    /\ queue = <<>>
    /\ active = [c \in Chats |-> 0]

-----------------------------------------------------------------------------
(* push: refuse when full, otherwise append.                               *)

Overloaded == Len(queue) >= MaxQueue

Push(m) ==
    /\ ~Overloaded
    /\ queue' = Append(queue, m)
    /\ UNCHANGED active

(* next: every message in front of the first one whose chat has a free     *)
(* place is popped and pushed back, so the result is the queue rotated to  *)
(* that message, which is taken.  When no message qualifies, len rotations *)
(* restore the queue.                                                      *)

\* Mutant: one message too many per chat.
ReadyOneMore == {i \in DOMAIN queue : active[ChatOf[queue[i]]] <= MaxActive}

Ready == {i \in DOMAIN queue : active[ChatOf[queue[i]]] < MaxActive}

\* Mutant: the last message whose chat has a free place.
IsLastReady(i) == i \in Ready /\ \A j \in Ready : j <= i

IsFirstReady(i) == i \in Ready /\ \A j \in Ready : i <= j

RotatedPast(i) == SubSeq(queue, i + 1, Len(queue)) \o SubSeq(queue, 1, i - 1)

TakeNext(m) ==
    \E i \in DOMAIN queue :
        /\ IsFirstReady(i)
        /\ m = queue[i]
        /\ queue' = RotatedPast(i)
        /\ UNCHANGED active

NothingReady == Ready = {}

MarkDispatched(c) ==
    /\ active' = [active EXCEPT ![c] = @ + 1]
    /\ UNCHANGED queue

\* Mutant: a plain subtraction.
MarkCompleteUnchecked(c) ==
    /\ active' = [active EXCEPT ![c] = @ - 1]
    /\ UNCHANGED queue

MarkComplete(c) ==
    /\ active' = [active EXCEPT ![c] = IF @ > 0 THEN @ - 1 ELSE 0]
    /\ UNCHANGED queue
=============================================================================
