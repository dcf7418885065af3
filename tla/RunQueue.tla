------------------------------- MODULE RunQueue -------------------------------
(***************************************************************************)
(* The run queue of module Scheduler under its one caller, the dispatcher  *)
(* loop, which may hold a message between taking it and counting it, and   *)
(* under housekeeping, which clears counts: what next promises a message   *)
(* while others come and go.                                               *)
(***************************************************************************)
EXTENDS Scheduler

CONSTANT NoMsg

VARIABLES
    unsent,      \* messages that have not arrived yet
    inHand       \* the message the dispatcher holds, or NoMsg

runQueueVars == <<queue, active, unsent, inHand>>

RunQueueInit == SchedulerInit /\ unsent = Msgs /\ inHand = NoMsg

Submit(m) ==
    /\ m \in unsent /\ Push(m)
    /\ unsent' = unsent \ {m} /\ UNCHANGED inHand

HandOut(m) ==
    /\ inHand = NoMsg /\ TakeNext(m)
    /\ inHand' = m /\ UNCHANGED unsent

CountSent ==
    /\ inHand # NoMsg /\ MarkDispatched(ChatOf[inHand])
    /\ inHand' = NoMsg /\ UNCHANGED unsent

\* The worker was gone: the message goes to the end of the queue, or is refused.
PutBack ==
    /\ inHand # NoMsg
    /\ Push(inHand) \/ (Overloaded /\ UNCHANGED schedVars)
    /\ inHand' = NoMsg /\ UNCHANGED unsent

ClearOne(c) == active[c] > 0 /\ MarkComplete(c) /\ UNCHANGED <<unsent, inHand>>

RunQueueNext ==
    \/ \E m \in Msgs : Submit(m) \/ HandOut(m)
    \/ CountSent \/ PutBack
    \/ \E c \in Chats : ClearOne(c)

RunQueueSpec == RunQueueInit /\ [][RunQueueNext]_runQueueVars

-----------------------------------------------------------------------------
(* Every variable keeps its type, and the queue its bound.                 *)
RunQueueTypeOK ==
    /\ SchedulerTypeOK /\ Len(queue) <= MaxQueue
    /\ unsent \subseteq Msgs /\ inHand \in Msgs \cup {NoMsg}

(* next may pass a message over for as long as its chat is busy, and then  *)
(* puts it behind messages that came later.  But once its chat has a free  *)
(* place every message that is handed out brings it nearer to the front,   *)
(* so that no other chat can starve it.                                    *)
WaitShrinks ==
    [][\A n \in Msgs, i \in DOMAIN queue :
         HandOut(n) /\ queue[i] # n /\ active[ChatOf[queue[i]]] < MaxActive
           => \E k \in DOMAIN queue' : k < i /\ queue'[k] = queue[i]]_runQueueVars
=============================================================================
