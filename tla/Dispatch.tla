------------------------------- MODULE Dispatch -------------------------------
(***************************************************************************)
(* The message path of the server: the dispatcher task, the housekeeping   *)
(* task, the chat workers and the interceptor tasks of                     *)
(*   src/app/server/dispatcher.rs, dispatcher/router.rs, worker.rs         *)
(* around the run queue of module Scheduler.                               *)
(*                                                                         *)
(* Every tokio task is a process with a program counter; a step ends where *)
(* the code awaits, or takes or drops a lock another task contends for.    *)
(* A message is a model value.  The outbound events of a message are       *)
(* abstracted to how often its execution started and how many terminal     *)
(* events (Completed or Failed) carry its id.                              *)
(***************************************************************************)
EXTENDS Scheduler, FiniteSets

CONSTANTS
    Workers,         \* identities of worker tasks, reused once forgotten
    KindOf,          \* [Msgs -> Kinds], classify_inbound
    InqCap,          \* capacity of runtime.queue_tx, 32 in the server
    ChanCap,         \* capacity of a worker's channel, 4
    MaxPending,      \* MAX_PENDING_PER_CHAT, 8
    MaxConcurrency,  \* permits of the execution semaphore
    Env,             \* which environment events may happen, see Events
    Wake,            \* scheduler_wake_message()
    None

Kinds == {"user", "stop", "admin", "system"}

(* "slow"      housekeeping may tick while the dispatcher has work to do   *)
(* "reap"      300 s may pass without activity in a chat                   *)
(* "remote"    route may choose a remote worker                            *)
(* "offline"   runtime.agent() may be None                                 *)
(* "panic"     the agent may panic and take its worker task with it        *)
(* "error"     process_message may fail without having been cancelled      *)
(* "reply"     an interceptor may answer                                   *)
(* "cancel"    an interceptor may ask to cancel                            *)
Events == {"slow", "reap", "remote", "offline", "panic", "error",
           "reply", "cancel"}

ASSUME DispatchAssumption ==
    /\ KindOf \in [Msgs -> Kinds]
    /\ InqCap \in Nat \ {0} /\ ChanCap \in Nat \ {0} /\ MaxPending \in Nat \ {0}
    /\ MaxConcurrency \in Nat \ {0}      \* ExecutionController::new takes max(1)
    /\ Env \subseteq Events
    /\ IsFiniteSet(Workers)
    /\ None \notin Workers \cup Msgs /\ Wake \notin Msgs

VARIABLES
    inq,        \* the runtime queue, all tasks send to it, the dispatcher reads
    lock,       \* who holds the mutex of chat_slots
    dpc, dmsg, dworker, dbusy,   \* dispatcher: place, message, slot used, state read
    hpc, htodo, hreap, hbuf,     \* housekeeping: place, slots to visit, to reap, to send
    slot,       \* [Chats -> worker of the chat's DispatchEntry, or None]
    pending,    \* [Chats -> DispatchEntry.pending]
    chan,       \* [Workers -> messages in the worker's channel]
    wpc, wmsg,  \* worker: place, message in hand
    cell,       \* [Workers -> the ChatSlot cells shared with the dispatcher]
    permits,    \* available permits of the execution semaphore
    icpt,       \* interceptor tasks waiting for their provider call
    arrived, started, answers, done, lost  \* history of messages

inVars   == <<inq, arrived>>
dVars    == <<dpc, dmsg, dworker, dbusy>>
hVars    == <<hpc, htodo, hreap, hbuf>>
slotVars == <<slot, pending>>
wVars    == <<chan, wpc, wmsg, cell>>
runVars  == <<permits, started>>
endVars  == <<answers, done, lost>>
vars == <<queue, active, inq, arrived, lock, dpc, dmsg, dworker, dbusy,
          hpc, htodo, hreap, hbuf, slot, pending, chan, wpc, wmsg, cell,
          permits, started, icpt, answers, done, lost>>

(* The cells of a ChatSlot.  A token is only ever looked at to see whether *)
(* it is cancelled; quiet says that last_active is IDLE_REAP_SECS ago.     *)
Cells == [state     : {"idle", "running", "cancelling", "failed"},
          interrupt : BOOLEAN,
          cancelled : BOOLEAN,
          heartbeat : BOOLEAN,
          quiet     : BOOLEAN]

NewCells == [state |-> "idle", interrupt |-> FALSE, cancelled |-> FALSE,
             heartbeat |-> FALSE, quiet |-> FALSE]

Holding == {"route", "remote", "local", "exec", "postIdle", "postFailed", "clean"}
WorkerPlaces == {"gone", "recv", "check", "permit"} \cup Holding

DispatcherPlaces == {"recv", "pick", "ensure", "act", "stopRead", "stopCancel",
                     "stopWrite", "send", "fail", "requeue", "mark",
                     "redispLock", "redisp", "redispSend"}

AnswerCap == 2   \* terminal events of a message are counted up to here
SendRoom(seq, cap) == Len(seq) < cap
Busy(w) == cell[w].state \in {"running", "cancelling"}
Resting(w) == cell[w].state \in {"idle", "failed"}

Answered(m) == [answers EXCEPT ![m] = IF @ < AnswerCap THEN @ + 1 ELSE @]

Init ==
    /\ SchedulerInit
    /\ inq = <<>> /\ arrived = {} /\ lock = "free"
    /\ dpc = "recv" /\ dmsg = None /\ dworker = None /\ dbusy = FALSE
    /\ hpc = "sleep" /\ htodo = {} /\ hreap = {} /\ hbuf = <<>>
    /\ slot = [c \in Chats |-> None] /\ pending = [c \in Chats |-> <<>>]
    /\ chan = [w \in Workers |-> <<>>] /\ wpc = [w \in Workers |-> "gone"]
    /\ wmsg = [w \in Workers |-> None] /\ cell = [w \in Workers |-> NewCells]
    /\ permits = MaxConcurrency /\ icpt = {}
    /\ started = [m \in Msgs |-> 0] /\ answers = [m \in Msgs |-> 0]
    /\ done = {} /\ lost = {}

-----------------------------------------------------------------------------
(* Adapters, heartbeat and channel forwarders: a send to the runtime queue *)
(* waits for room.                                                         *)

Arrive(m) ==
    /\ m \notin arrived /\ SendRoom(inq, InqCap)
    /\ arrived' = arrived \cup {m}
    /\ inq' = Append(inq, m)
    /\ UNCHANGED <<schedVars, lock, dVars, hVars, slotVars, wVars, runVars,
                   icpt, endVars>>

-----------------------------------------------------------------------------
(* The dispatcher task.                                                    *)

(* Receive one message: a wake only triggers the loop, any other message   *)
(* goes to the run queue or is refused with an overload event.             *)
RecvWake ==
    /\ dpc = "recv" /\ inq # <<>> /\ Head(inq) = Wake
    /\ inq' = Tail(inq) /\ dpc' = "pick"
    /\ UNCHANGED <<schedVars, arrived, lock, dmsg, dworker, dbusy, hVars,
                   slotVars, wVars, runVars, icpt, endVars>>

RecvPush ==
    /\ dpc = "recv" /\ inq # <<>> /\ Head(inq) # Wake
    /\ Push(Head(inq))
    /\ inq' = Tail(inq) /\ dpc' = "pick"
    /\ UNCHANGED <<arrived, lock, dmsg, dworker, dbusy, hVars, slotVars, wVars,
                   runVars, icpt, endVars>>

RecvOverload ==
    /\ dpc = "recv" /\ inq # <<>> /\ Head(inq) # Wake
    /\ Overloaded
    /\ inq' = Tail(inq)
    /\ answers' = Answered(Head(inq)) /\ done' = done \cup {Head(inq)}
    /\ UNCHANGED <<schedVars, arrived, lock, dVars, hVars, slotVars, wVars,
                   runVars, icpt, lost>>

PickNext ==
    /\ dpc = "pick"
    /\ \E m \in Msgs : TakeNext(m) /\ dmsg' = m
    /\ dpc' = "ensure"
    /\ UNCHANGED <<inVars, lock, dworker, dbusy, hVars, slotVars, wVars,
                   runVars, icpt, endVars>>

PickNone ==
    /\ dpc = "pick" /\ NothingReady
    /\ dpc' = "recv"
    /\ UNCHANGED <<schedVars, inVars, lock, dmsg, dworker, dbusy, hVars,
                   slotVars, wVars, runVars, icpt, endVars>>

(* ensure_worker under the slots lock, then read the worker's state.  A    *)
(* worker identity is free again when its task is gone and nothing holds   *)
(* its cells.                                                              *)
Free(w) ==
    /\ wpc[w] = "gone" /\ w # dworker
    /\ \A c \in Chats : slot[c] # w
    /\ \A i \in icpt : i.worker # w

FindWorker ==
    /\ slot[ChatOf[dmsg]] # None
    /\ dworker' = slot[ChatOf[dmsg]] /\ dbusy' = Busy(slot[ChatOf[dmsg]])
    /\ UNCHANGED <<slotVars, wVars>>

\* Mutant: the table is not looked up before a worker is created.
CreateWorkerAlways ==
    \E w \in Workers :
        /\ Free(w)
        /\ slot' = [slot EXCEPT ![ChatOf[dmsg]] = w]
        /\ wpc' = [wpc EXCEPT ![w] = "recv"]
        /\ cell' = [cell EXCEPT ![w] = NewCells]
        /\ dworker' = w /\ dbusy' = FALSE
        /\ UNCHANGED <<pending, chan, wmsg>>

CreateWorker ==
    /\ slot[ChatOf[dmsg]] = None
    /\ \E w \in Workers :
        /\ Free(w)
        /\ slot' = [slot EXCEPT ![ChatOf[dmsg]] = w]
        /\ pending' = [pending EXCEPT ![ChatOf[dmsg]] = <<>>]
        /\ chan' = [chan EXCEPT ![w] = <<>>]
        /\ wpc' = [wpc EXCEPT ![w] = "recv"]
        /\ cell' = [cell EXCEPT ![w] = NewCells]
        /\ dworker' = w /\ dbusy' = FALSE
    /\ UNCHANGED wmsg

Ensure ==
    /\ dpc = "ensure" /\ lock = "free"
    /\ FindWorker \/ CreateWorker
    /\ lock' = "dispatcher" /\ dpc' = "act"
    /\ UNCHANGED <<schedVars, inVars, dmsg, hVars, runVars, icpt, endVars>>

(* A message that is not a heartbeat interrupts a heartbeat in progress.   *)
Interrupted(w) == [cell EXCEPT ![w].interrupt = TRUE, ![w].cancelled = TRUE]

Preempted == IF KindOf[dmsg] # "system" /\ cell[dworker].heartbeat
               THEN Interrupted(dworker) ELSE cell

ActStop ==
    /\ dpc = "act" /\ KindOf[dmsg] = "stop"
    /\ cell' = Preempted
    /\ lock' = "free" /\ dpc' = "stopRead"
    /\ UNCHANGED <<schedVars, inVars, dmsg, dworker, dbusy, hVars, slotVars,
                   chan, wpc, wmsg, runVars, icpt, endVars>>

(* Behind a busy worker a message is buffered, the oldest buffered one     *)
(* making room; for a user message an interceptor task is spawned.         *)
ActBuffer ==
    /\ dpc = "act" /\ KindOf[dmsg] \in {"user", "admin"} /\ dbusy
    /\ cell' = Preempted
    /\ LET c == ChatOf[dmsg]
           full == Len(pending[c]) >= MaxPending
       IN  /\ pending' = [pending EXCEPT
                            ![c] = Append(IF full THEN Tail(@) ELSE @, dmsg)]
           /\ lost' = IF full THEN lost \cup {Head(pending[c])} ELSE lost
    /\ icpt' = IF KindOf[dmsg] = "user"
                 THEN icpt \cup {[msg |-> dmsg, worker |-> dworker]}
                 ELSE icpt
    /\ lock' = "free" /\ dpc' = "pick" /\ dmsg' = None /\ dworker' = None
    /\ UNCHANGED <<schedVars, inVars, dbusy, hVars, slot, chan, wpc, wmsg,
                   runVars, answers, done>>

ActAssign ==
    /\ dpc = "act"
    /\ \/ KindOf[dmsg] = "system"
       \/ KindOf[dmsg] \in {"user", "admin"} /\ ~dbusy
    /\ cell' = [Preempted EXCEPT ![dworker].quiet = FALSE]
    /\ lock' = "free" /\ dpc' = "send"
    /\ UNCHANGED <<schedVars, inVars, dmsg, dworker, dbusy, hVars, slotVars,
                   chan, wpc, wmsg, runVars, icpt, endVars>>

(* request_stop, without the slots lock: read the state, cancel whatever   *)
(* token is in the slot, write Cancelling.                                 *)
StopIdle ==
    /\ dpc = "stopRead" /\ Resting(dworker)
    /\ answers' = Answered(dmsg) /\ done' = done \cup {dmsg}
    /\ dpc' = "pick" /\ dmsg' = None /\ dworker' = None
    /\ UNCHANGED <<schedVars, inVars, lock, dbusy, hVars, slotVars, wVars,
                   runVars, icpt, lost>>

StopBusy ==
    /\ dpc = "stopRead" /\ Busy(dworker)
    /\ dpc' = "stopCancel"
    /\ UNCHANGED <<schedVars, inVars, lock, dmsg, dworker, dbusy, hVars,
                   slotVars, wVars, runVars, icpt, endVars>>

StopCancel ==
    /\ dpc = "stopCancel"
    /\ cell' = Interrupted(dworker)
    /\ dpc' = "stopWrite"
    /\ UNCHANGED <<schedVars, inVars, lock, dmsg, dworker, dbusy, hVars,
                   slotVars, chan, wpc, wmsg, runVars, icpt, endVars>>

\* Mutant: a stopped slot is made idle at once.
StopWriteIdle ==
    /\ dpc = "stopWrite"
    /\ cell' = [cell EXCEPT ![dworker].state = "idle"]
    /\ answers' = Answered(dmsg) /\ done' = done \cup {dmsg}
    /\ dpc' = "pick" /\ dmsg' = None /\ dworker' = None
    /\ UNCHANGED <<schedVars, inVars, lock, dbusy, hVars, slotVars, chan, wpc,
                   wmsg, runVars, icpt, lost>>

StopWrite ==
    /\ dpc = "stopWrite"
    /\ cell' = [cell EXCEPT ![dworker].state = "cancelling"]
    /\ answers' = Answered(dmsg) /\ done' = done \cup {dmsg}
    /\ dpc' = "pick" /\ dmsg' = None /\ dworker' = None
    /\ UNCHANGED <<schedVars, inVars, lock, dbusy, hVars, slotVars, chan, wpc,
                   wmsg, runVars, icpt, lost>>

(* tx.send(inbound): waits for room, fails when the worker is gone.        *)
Send ==
    /\ dpc = "send" /\ wpc[dworker] # "gone" /\ SendRoom(chan[dworker], ChanCap)
    /\ chan' = [chan EXCEPT ![dworker] = Append(@, dmsg)]
    /\ dpc' = "mark" /\ dworker' = None
    /\ UNCHANGED <<schedVars, inVars, lock, dmsg, dbusy, hVars, slotVars, wpc,
                   wmsg, cell, runVars, icpt, endVars>>

SendFails ==
    /\ dpc = "send" /\ wpc[dworker] = "gone"
    /\ dpc' = "fail" /\ dworker' = None
    /\ UNCHANGED <<schedVars, inVars, lock, dmsg, dbusy, hVars, slotVars,
                   wVars, runVars, icpt, endVars>>

(* The dead worker's entry is removed, with what was buffered in it, and   *)
(* the message goes back to the runtime queue; the lock is held meanwhile. *)
RemoveDead ==
    /\ dpc = "fail" /\ lock = "free"
    /\ LET c == ChatOf[dmsg]
       IN  /\ slot' = [slot EXCEPT ![c] = None]
           /\ lost' = lost \cup {pending[c][i] : i \in DOMAIN pending[c]}
           /\ pending' = [pending EXCEPT ![c] = <<>>]
    /\ lock' = "dispatcher" /\ dpc' = "requeue"
    /\ UNCHANGED <<schedVars, inVars, dmsg, dworker, dbusy, hVars, wVars,
                   runVars, icpt, answers, done>>

Requeue ==
    /\ dpc = "requeue" /\ SendRoom(inq, InqCap)
    /\ inq' = Append(inq, dmsg)
    /\ lock' = "free" /\ dpc' = "pick" /\ dmsg' = None
    /\ UNCHANGED <<schedVars, arrived, dworker, dbusy, hVars, slotVars, wVars,
                   runVars, icpt, endVars>>

Mark ==
    /\ dpc = "mark"
    /\ MarkDispatched(ChatOf[dmsg])
    /\ dpc' = "redispLock"
    /\ UNCHANGED <<inVars, lock, dmsg, dworker, dbusy, hVars, slotVars, wVars,
                   runVars, icpt, endVars>>

(* redispatch_pending: under the slots lock, send what is buffered back to *)
(* the runtime queue for as long as the worker is found resting.  From     *)
(* here dmsg only names the chat, until a buffered message is popped.      *)
RedispLock ==
    /\ dpc = "redispLock" /\ lock = "free"
    /\ IF slot[ChatOf[dmsg]] # None
         THEN lock' = "dispatcher" /\ dpc' = "redisp" /\ UNCHANGED dmsg
         ELSE dpc' = "pick" /\ dmsg' = None /\ UNCHANGED lock
    /\ UNCHANGED <<schedVars, inVars, dworker, dbusy, hVars, slotVars, wVars,
                   runVars, icpt, endVars>>

MayRedispatch(c) == Resting(slot[c]) /\ pending[c] # <<>>

RedispPop ==
    /\ dpc = "redisp"
    /\ LET c == ChatOf[dmsg]
       IN  /\ MayRedispatch(c)
           /\ dmsg' = Head(pending[c])
           /\ pending' = [pending EXCEPT ![c] = Tail(@)]
    /\ dpc' = "redispSend"
    /\ UNCHANGED <<schedVars, inVars, lock, dworker, dbusy, hVars, slot, wVars,
                   runVars, icpt, endVars>>

RedispSend ==
    /\ dpc = "redispSend" /\ SendRoom(inq, InqCap)
    /\ inq' = Append(inq, dmsg) /\ dpc' = "redisp"
    /\ UNCHANGED <<schedVars, arrived, lock, dmsg, dworker, dbusy, hVars,
                   slotVars, wVars, runVars, icpt, endVars>>

RedispEnd ==
    /\ dpc = "redisp" /\ ~MayRedispatch(ChatOf[dmsg])
    /\ lock' = "free" /\ dpc' = "pick" /\ dmsg' = None
    /\ UNCHANGED <<schedVars, inVars, dworker, dbusy, hVars, slotVars, wVars,
                   runVars, icpt, endVars>>

-----------------------------------------------------------------------------
(* The housekeeping task: every 250 ms it visits the slots under the slots *)
(* lock, then sends what it collected to the runtime queue.  Unless "slow" *)
(* happens a tick starts only when the dispatcher waits for something.     *)

DispatcherWaits ==
    \/ dpc = "recv" /\ inq = <<>>
    \/ dpc = "send" /\ wpc[dworker] # "gone" /\ ~SendRoom(chan[dworker], ChanCap)
    \/ dpc \in {"redispSend", "requeue"} /\ ~SendRoom(inq, InqCap)

Tick ==
    /\ hpc = "sleep" /\ lock = "free"
    /\ "slow" \in Env \/ DispatcherWaits
    /\ lock' = "housekeeping" /\ hpc' = "scan"
    /\ htodo' = {c \in Chats : slot[c] # None} /\ hreap' = {} /\ hbuf' = <<>>
    /\ UNCHANGED <<schedVars, inVars, dVars, slotVars, wVars, runVars, icpt,
                   endVars>>

(* One slot: a resting worker completes one message of its chat; then the  *)
(* oldest buffered message is taken out, or a quiet slot is to be reaped.  *)
\* Mutant: the buffered message is sent on but left in the buffer.
VisitRestingPeeks(c) ==
    /\ hpc = "scan" /\ c \in htodo /\ Resting(slot[c])
    /\ htodo' = htodo \ {c}
    /\ MarkComplete(c)
    /\ hbuf' = IF pending[c] = <<>> THEN hbuf ELSE Append(hbuf, Head(pending[c]))
    /\ UNCHANGED <<inVars, lock, dVars, hpc, hreap, slotVars, wVars, runVars,
                   icpt, endVars>>

\* Mutant: a quiet slot is reaped whatever it buffers.
VisitRestingReaps(c) ==
    /\ hpc = "scan" /\ c \in htodo /\ Resting(slot[c])
    /\ htodo' = htodo \ {c}
    /\ MarkComplete(c)
    /\ hreap' = IF cell[slot[c]].quiet THEN hreap \cup {c} ELSE hreap
    /\ UNCHANGED <<inVars, lock, dVars, hpc, hbuf, slotVars, wVars, runVars,
                   icpt, endVars>>

VisitResting(c) ==
    /\ hpc = "scan" /\ c \in htodo /\ Resting(slot[c])
    /\ htodo' = htodo \ {c}
    /\ MarkComplete(c)
    /\ IF pending[c] # <<>>
         THEN /\ hbuf' = Append(hbuf, Head(pending[c]))
              /\ pending' = [pending EXCEPT ![c] = Tail(@)]
              /\ UNCHANGED hreap
         ELSE /\ hreap' = IF cell[slot[c]].quiet THEN hreap \cup {c} ELSE hreap
              /\ UNCHANGED <<hbuf, pending>>
    /\ UNCHANGED <<inVars, lock, dVars, hpc, slot, wVars, runVars, icpt, endVars>>

VisitBusy(c) ==
    /\ hpc = "scan" /\ c \in htodo /\ Busy(slot[c])
    /\ htodo' = htodo \ {c}
    /\ UNCHANGED <<schedVars, inVars, lock, dVars, hpc, hreap, hbuf, slotVars,
                   wVars, runVars, icpt, endVars>>

Reap ==
    /\ hpc = "scan" /\ htodo = {}
    /\ slot' = [c \in Chats |-> IF c \in hreap THEN None ELSE slot[c]]
    /\ lost' = lost \cup UNION {{pending[c][i] : i \in DOMAIN pending[c]} : c \in hreap}
    /\ pending' = [c \in Chats |-> IF c \in hreap THEN <<>> ELSE pending[c]]
    /\ lock' = "free" /\ hpc' = "wake" /\ hreap' = {}
    /\ UNCHANGED <<schedVars, inVars, dVars, htodo, hbuf, wVars, runVars, icpt,
                   answers, done>>

\* Mutant: no wake is sent for messages left in the run queue.
AddWakeNever ==
    /\ hpc = "wake" /\ hpc' = "send"
    /\ UNCHANGED <<schedVars, inVars, lock, dVars, htodo, hreap, hbuf,
                   slotVars, wVars, runVars, icpt, endVars>>

AddWake ==
    /\ hpc = "wake"
    /\ hbuf' = IF queue # <<>> THEN Append(hbuf, Wake) ELSE hbuf
    /\ hpc' = "send"
    /\ UNCHANGED <<schedVars, inVars, lock, dVars, htodo, hreap, slotVars,
                   wVars, runVars, icpt, endVars>>

Flush ==
    /\ hpc = "send" /\ hbuf # <<>> /\ SendRoom(inq, InqCap)
    /\ inq' = Append(inq, Head(hbuf)) /\ hbuf' = Tail(hbuf)
    /\ UNCHANGED <<schedVars, arrived, lock, dVars, hpc, htodo, hreap,
                   slotVars, wVars, runVars, icpt, endVars>>

Sleep ==
    /\ hpc = "send" /\ hbuf = <<>> /\ hpc' = "sleep"
    /\ UNCHANGED <<schedVars, inVars, lock, dVars, htodo, hreap, hbuf,
                   slotVars, wVars, runVars, icpt, endVars>>

-----------------------------------------------------------------------------
(* The chat workers.                                                       *)

Goto(w, place) == wpc' = [wpc EXCEPT ![w] = place]

(* The end of a request that never took a permit.                          *)
Dismiss(w, state) ==
    /\ cell' = [cell EXCEPT ![w].state = state, ![w].heartbeat = FALSE]
    /\ answers' = Answered(wmsg[w]) /\ done' = done \cup {wmsg[w]}
    /\ wmsg' = [wmsg EXCEPT ![w] = None]
    /\ Goto(w, "recv")
    /\ UNCHANGED <<schedVars, inVars, lock, dVars, hVars, slotVars, chan,
                   runVars, icpt, lost>>

Dequeue(w) ==
    /\ wpc[w] = "recv" /\ chan[w] # <<>>
    /\ wmsg' = [wmsg EXCEPT ![w] = Head(chan[w])]
    /\ chan' = [chan EXCEPT ![w] = Tail(@)]
    /\ cell' = [cell EXCEPT ![w].heartbeat = KindOf[Head(chan[w])] = "system",
                            ![w].quiet = FALSE]
    /\ Goto(w, "check")
    /\ UNCHANGED <<schedVars, inVars, lock, dVars, hVars, slotVars, runVars,
                   icpt, endVars>>

(* The worker loop ends when every sender of its channel is dropped.       *)
End(w) ==
    /\ wpc[w] = "recv" /\ chan[w] = <<>>
    /\ \A c \in Chats : slot[c] # w
    /\ ~(dworker = w /\ dpc \in {"act", "send"})
    /\ Goto(w, "gone")
    /\ UNCHANGED <<schedVars, inVars, lock, dVars, hVars, slotVars, chan, wmsg,
                   cell, runVars, icpt, endVars>>

(* handle_slash_command answers the commands it knows; the others go to    *)
(* the agent like any message.                                             *)
SlashCommand(w) ==
    /\ wpc[w] = "check" /\ KindOf[wmsg[w]] = "admin"
    /\ Dismiss(w, "idle")

Offline(w) ==
    /\ wpc[w] = "check" /\ "offline" \in Env
    /\ Dismiss(w, "failed")

ClearInterrupt(w) ==
    /\ wpc[w] = "check"
    /\ cell' = [cell EXCEPT ![w].interrupt = FALSE]
    /\ Goto(w, "permit")
    /\ UNCHANGED <<schedVars, inVars, lock, dVars, hVars, slotVars, chan, wmsg,
                   runVars, icpt, endVars>>

Acquire(w) ==
    /\ wpc[w] = "permit" /\ permits > 0
    /\ permits' = permits - 1
    /\ started' = [started EXCEPT ![wmsg[w]] = IF @ < AnswerCap THEN @ + 1 ELSE @]
    /\ Goto(w, "route")
    /\ UNCHANGED <<schedVars, inVars, lock, dVars, hVars, slotVars, chan, wmsg,
                   cell, icpt, endVars>>

Route(w) ==
    /\ wpc[w] = "route"
    /\ \E place \in {"local"} \cup (IF "remote" \in Env THEN {"remote"} ELSE {}) :
          Goto(w, place)
    /\ UNCHANGED <<schedVars, inVars, lock, dVars, hVars, slotVars, chan, wmsg,
                   cell, runVars, icpt, endVars>>

\* Mutant: after an answer with an error the request is run locally as well.
RemoteAnswerFallsBack(w) ==
    /\ wpc[w] = "remote"
    /\ \E place \in {"postIdle", "local"} : Goto(w, place)
    /\ answers' = Answered(wmsg[w])
    /\ UNCHANGED <<schedVars, inVars, lock, dVars, hVars, slotVars, chan, wmsg,
                   cell, runVars, icpt, done, lost>>

(* run_remote: a body with or without an error, or no answer, after which  *)
(* the request is run locally.                                             *)
RemoteAnswer(w) ==
    /\ wpc[w] = "remote"
    /\ \E place \in {"postIdle", "postFailed"} : Goto(w, place)
    /\ answers' = Answered(wmsg[w])
    /\ UNCHANGED <<schedVars, inVars, lock, dVars, hVars, slotVars, chan, wmsg,
                   cell, runVars, icpt, done, lost>>

\* Mutant: the fallback starts over, from the wait for a permit.
RemoteFallbackRestarts(w) ==
    /\ wpc[w] = "remote"
    /\ permits' = permits + 1 /\ Goto(w, "permit")
    /\ UNCHANGED <<schedVars, inVars, lock, dVars, hVars, slotVars, chan, wmsg,
                   cell, started, icpt, endVars>>

RemoteFallback(w) ==
    /\ wpc[w] = "remote"
    /\ Goto(w, "local")
    /\ UNCHANGED <<schedVars, inVars, lock, dVars, hVars, slotVars, chan, wmsg,
                   cell, runVars, icpt, endVars>>

(* A fresh token replaces the one in the slot, then the state is Running.  *)
StartLocal(w) ==
    /\ wpc[w] = "local"
    /\ cell' = [cell EXCEPT ![w].cancelled = FALSE, ![w].state = "running"]
    /\ Goto(w, "exec")
    /\ UNCHANGED <<schedVars, inVars, lock, dVars, hVars, slotVars, chan, wmsg,
                   runVars, icpt, endVars>>

(* How process_message ends: with a reply, with an error that counts as a  *)
(* cancellation when the token or the flag is set, or at the timeout.      *)
(* Each way emits one terminal event.                                      *)
\* Mutant: a cancelled run emits no event.
RunEndsQuietly(w, place) ==
    /\ wpc[w] = "exec"
    /\ answers' = IF cell[w].cancelled THEN answers ELSE Answered(wmsg[w])
    /\ Goto(w, place)
    /\ UNCHANGED <<schedVars, inVars, lock, dVars, hVars, slotVars, chan, wmsg,
                   runVars, icpt, done, lost>>

RunEnds(w, place) ==
    /\ wpc[w] = "exec"
    /\ answers' = Answered(wmsg[w])
    /\ Goto(w, place)
    /\ UNCHANGED <<schedVars, inVars, lock, dVars, hVars, slotVars, chan, wmsg,
                   runVars, icpt, done, lost>>

Succeed(w) == RunEnds(w, "postIdle") /\ UNCHANGED cell

Cancelled(w) ==
    /\ cell[w].cancelled \/ cell[w].interrupt
    /\ RunEnds(w, "postIdle") /\ UNCHANGED cell

Fail(w) ==
    /\ "error" \in Env /\ ~cell[w].cancelled /\ ~cell[w].interrupt
    /\ RunEnds(w, "postFailed") /\ UNCHANGED cell

Timeout(w) ==
    /\ RunEnds(w, "postIdle")
    /\ cell' = [cell EXCEPT ![w].cancelled = TRUE]

(* A panic unwinds the worker task: the permit and the channel go with it, *)
(* the cells stay as they are.                                             *)
Panic(w) ==
    /\ wpc[w] = "exec" /\ "panic" \in Env
    /\ permits' = permits + 1
    /\ lost' = lost \cup {wmsg[w]} \cup {chan[w][i] : i \in DOMAIN chan[w]}
    /\ chan' = [chan EXCEPT ![w] = <<>>]
    /\ wmsg' = [wmsg EXCEPT ![w] = None]
    /\ Goto(w, "gone")
    /\ UNCHANGED <<schedVars, inVars, lock, dVars, hVars, slotVars, cell,
                   started, icpt, answers, done>>

\* Mutant: the state of a cancelled run is left as it is.
SetStateUnlessCancelled(w) ==
    /\ wpc[w] \in {"postIdle", "postFailed"}
    /\ cell' = IF cell[w].cancelled THEN cell
                                    ELSE [cell EXCEPT ![w].state = "idle"]
    /\ Goto(w, "clean")
    /\ UNCHANGED <<schedVars, inVars, lock, dVars, hVars, slotVars, chan, wmsg,
                   runVars, icpt, endVars>>

SetState(w) ==
    /\ wpc[w] \in {"postIdle", "postFailed"}
    /\ cell' = [cell EXCEPT ![w].state =
                  IF wpc[w] = "postIdle" THEN "idle" ELSE "failed"]
    /\ Goto(w, "clean")
    /\ UNCHANGED <<schedVars, inVars, lock, dVars, hVars, slotVars, chan, wmsg,
                   runVars, icpt, endVars>>

\* Mutant: the permit is forgotten.
CleanUpKeepsPermit(w) ==
    /\ wpc[w] = "clean"
    /\ cell' = [cell EXCEPT ![w].cancelled = FALSE, ![w].heartbeat = FALSE]
    /\ done' = done \cup {wmsg[w]}
    /\ wmsg' = [wmsg EXCEPT ![w] = None]
    /\ Goto(w, "recv")
    /\ UNCHANGED <<schedVars, inVars, lock, dVars, hVars, slotVars, chan,
                   permits, started, icpt, answers, lost>>

CleanUp(w) ==
    /\ wpc[w] = "clean"
    /\ cell' = [cell EXCEPT ![w].cancelled = FALSE, ![w].heartbeat = FALSE,
                            ![w].quiet = FALSE]
    /\ permits' = permits + 1
    /\ done' = done \cup {wmsg[w]}
    /\ wmsg' = [wmsg EXCEPT ![w] = None]
    /\ Goto(w, "recv")
    /\ UNCHANGED <<schedVars, inVars, lock, dVars, hVars, slotVars, chan,
                   started, icpt, answers, lost>>

-----------------------------------------------------------------------------
(* An interceptor task: its provider call may fail, or give a text to send *)
(* under the buffered message's id, a request to cancel, or both.          *)

Intercept(i) ==
    /\ i \in icpt
    /\ icpt' = icpt \ {i}
    /\ \E text \in {FALSE} \cup (IF "reply" \in Env THEN {TRUE} ELSE {}),
          cancel \in {FALSE} \cup (IF "cancel" \in Env THEN {TRUE} ELSE {}) :
        /\ answers' = IF text THEN Answered(i.msg) ELSE answers
        /\ cell' = IF cancel THEN Interrupted(i.worker) ELSE cell
    /\ UNCHANGED <<schedVars, inVars, lock, dVars, hVars, slotVars, chan, wpc,
                   wmsg, runVars, done, lost>>

(* IDLE_REAP_SECS pass.  That is a thousand housekeeping ticks, so it only *)
(* happens when no task has a prompt step left: every task waits for a     *)
(* message, for room, for a permit or for the agent.                       *)
WorkerWaits(w) ==
    \/ wpc[w] \in {"gone", "remote", "exec"}
    \/ wpc[w] = "recv" /\ chan[w] = <<>>
    \/ wpc[w] = "permit" /\ permits = 0

Elapse ==
    /\ "reap" \in Env
    /\ DispatcherWaits /\ hpc = "sleep" /\ lock = "free"
    /\ \A w \in Workers : WorkerWaits(w)
    /\ \A c \in Chats : slot[c] # None /\ Resting(slot[c]) =>
                            active[c] = 0 /\ pending[c] = <<>>
    /\ \E w \in Workers : ~cell[w].quiet
    /\ cell' = [w \in Workers |-> [cell[w] EXCEPT !.quiet = TRUE]]
    /\ UNCHANGED <<schedVars, inVars, lock, dVars, hVars, slotVars, chan, wpc,
                   wmsg, runVars, icpt, endVars>>

-----------------------------------------------------------------------------
Receive == RecvWake \/ RecvPush \/ RecvOverload
Choose == PickNext \/ PickNone \/ Ensure \/ ActStop \/ ActBuffer \/ ActAssign
Stop == StopIdle \/ StopBusy \/ StopCancel \/ StopWrite
Assign == Send \/ SendFails \/ RemoveDead \/ Requeue \/ Mark
Redispatch == RedispLock \/ RedispPop \/ RedispSend \/ RedispEnd

Dispatcher == Receive \/ Choose \/ Stop \/ Assign \/ Redispatch

Housekeeping ==
    \/ Tick \/ Reap \/ AddWake \/ Flush \/ Sleep
    \/ \E c \in Chats : VisitResting(c) \/ VisitBusy(c)

(* What the worker does without waiting for a permit or the agent.         *)
WorkerStep(w) ==
    \/ Dequeue(w) \/ End(w) \/ SlashCommand(w) \/ Offline(w)
    \/ ClearInterrupt(w) \/ Route(w) \/ StartLocal(w) \/ SetState(w) \/ CleanUp(w)

RemoteEnds(w) == RemoteAnswer(w) \/ RemoteFallback(w)

AgentEnds(w) == Succeed(w) \/ Cancelled(w) \/ Fail(w) \/ Timeout(w)

Worker(w) == WorkerStep(w) \/ Acquire(w) \/ RemoteEnds(w) \/ AgentEnds(w) \/ Panic(w)

Next ==
    \/ \E m \in Msgs : Arrive(m)
    \/ Dispatcher \/ Housekeeping
    \/ \E w \in Workers : Worker(w)
    \/ \E i \in icpt : Intercept(i)
    \/ Elapse

Spec == Init /\ [][Next]_vars

(* Tasks that can run are scheduled.  tokio's mutex, semaphore and bounded *)
(* channels serve their waiters first come, first served, so a task that   *)
(* waits for what keeps becoming free gets it: strong fairness.  An agent  *)
(* whose token is cancelled stops, and run_remote ends.  Nothing makes     *)
(* messages arrive, interceptors answer, agents panic or time pass.        *)
Fairness ==
    /\ SF_vars(Dispatcher) /\ SF_vars(Housekeeping)
    /\ \A w \in Workers : /\ WF_vars(WorkerStep(w)) /\ SF_vars(Acquire(w))
                          /\ WF_vars(RemoteEnds(w)) /\ WF_vars(Cancelled(w))

(* Besides, an agent run ends, at the latest at max_task_duration_secs.    *)
FairSpec == Spec /\ Fairness
TimedSpec == FairSpec /\ \A w \in Workers : WF_vars(AgentEnds(w))

-----------------------------------------------------------------------------
TypeOK ==
    /\ SchedulerTypeOK
    /\ inq \in Seq(Msgs \cup {Wake}) /\ arrived \subseteq Msgs
    /\ lock \in {"free", "dispatcher", "housekeeping"}
    /\ dpc \in DispatcherPlaces /\ dmsg \in Msgs \cup {None}
    /\ dworker \in Workers \cup {None} /\ dbusy \in BOOLEAN
    /\ hpc \in {"sleep", "scan", "wake", "send"}
    /\ htodo \subseteq Chats /\ hreap \subseteq Chats
    /\ hbuf \in Seq(Msgs \cup {Wake})
    /\ slot \in [Chats -> Workers \cup {None}]
    /\ pending \in [Chats -> Seq(Msgs)]
    /\ chan \in [Workers -> Seq(Msgs)]
    /\ wpc \in [Workers -> WorkerPlaces]
    /\ wmsg \in [Workers -> Msgs \cup {None}]
    /\ cell \in [Workers -> Cells]
    /\ permits \in Nat
    /\ icpt \subseteq [msg : Msgs, worker : Workers]
    /\ started \in [Msgs -> 0 .. AnswerCap] /\ answers \in [Msgs -> 0 .. AnswerCap]
    /\ done \subseteq Msgs /\ lost \subseteq Msgs

(* The permits that are out are exactly those of the workers between       *)
(* Acquire and CleanUp, so at most MaxConcurrency requests execute, and no *)
(* way for a run to end (reply, error, cancellation, timeout, panic, reap  *)
(* of its slot meanwhile) leaks a permit or gives one back twice.          *)
Holders == {w \in Workers : wpc[w] \in Holding}
PermitsConserved == permits + Cardinality(Holders) = MaxConcurrency

(* Although mark_dispatched comes after the send, and next looked at the   *)
(* count long before it, no chat is ever counted above max_active_per_chat.*)
ActiveWithinLimit == \A c \in Chats : active[c] <= MaxActive

(* Where a message is while it waits or runs.                              *)
Occurs(m, seq) == Cardinality({i \in DOMAIN seq : seq[i] = m})
Places(m) ==
      Occurs(m, inq) + Occurs(m, queue) + Occurs(m, hbuf)
    + Cardinality({p \in Chats \X (1 .. MaxPending) :
                     p[2] \in DOMAIN pending[p[1]] /\ pending[p[1]][p[2]] = m})
    + Cardinality({p \in Workers \X (1 .. ChanCap) :
                     p[2] \in DOMAIN chan[p[1]] /\ chan[p[1]][p[2]] = m})
    + Cardinality({w \in Workers : wmsg[w] = m})
    + (IF dmsg = m /\ dpc \notin {"mark", "redispLock", "redisp"} THEN 1 ELSE 0)

(* A message is in exactly one place: not yet sent, in one of the queues   *)
(* or in the hands of one task, finished, or lost.  In particular neither  *)
(* the send-failure requeue nor redispatch nor housekeeping duplicates a   *)
(* message or drops one, whatever the other tasks do meanwhile.            *)
MessageConserved ==
    \A m \in Msgs :
        1 = Places(m) + (IF m \notin arrived THEN 1 ELSE 0)
                      + (IF m \in done THEN 1 ELSE 0) + (IF m \in lost THEN 1 ELSE 0)

(* The dispatcher, the housekeeping, the workers and the interceptors      *)
(* together implement what module MessageLife says of a single message: a  *)
(* request takes an execution permit at most once, whether the send to a   *)
(* worker failed, a remote run fell back or the message was redispatched;  *)
(* nothing starts once it was answered or dropped; every message the       *)
(* system has finished with got a terminal event; and the end is final.    *)
Phase(m) == CASE m \in done -> "answered"
              [] m \in lost -> "dropped"
              [] m \in arrived \ (done \cup lost) -> "open"
              [] OTHER -> "absent"

Life(m) == INSTANCE MessageLife WITH
             MaxEvents <- AnswerCap,
             phase <- Phase(m), starts <- started[m], events <- answers[m]

(* Life(m)!LifeSpec for every m, in a form TLC takes for safety; a step    *)
(* that leaves the history alone is a stutter of every Life(m).            *)
LifeImplemented ==
    /\ \A m \in Msgs : Life(m)!LifeInit
    /\ [][\/ UNCHANGED <<arrived, started, endVars>>
          \/ \A m \in Msgs : [Life(m)!LifeNext]_(Life(m)!lifeVars)]_vars

(* While the agent runs locally the slot says so; /stop, the buffering of  *)
(* messages and the reaper all rely on it.                                 *)
RunningIsBusy == \A w \in Workers : wpc[w] = "exec" => Busy(w)

(* Reaping idle slots never discards a message: nothing is buffered in a   *)
(* slot when it is removed, although the list of slots to remove was made  *)
(* while workers finished and were started.                                *)
ReapLosesNothing == [][hpc = "scan" /\ hpc' = "wake" => lost' = lost]_vars

(* Runs of a chat: the workers that hold a permit for one of its messages. *)
Runs(c) == {w \in Workers : wpc[w] \in Holding /\ ChatOf[wmsg[w]] = c}

(* At most max_active_per_chat requests of a chat execute at a time, even  *)
(* when the count was cleared before the run began.                        *)
OneRunPerChat == \A c \in Chats : Cardinality(Runs(c)) <= MaxActive

(* A slot that looks busy belongs to a worker that is in a run: otherwise  *)
(* nothing would ever empty the chat's buffer.                             *)
BusyMeansRunning ==
    \A c \in Chats :
        slot[c] # None /\ Busy(slot[c]) =>
            wpc[slot[c]] \in {"exec", "postIdle", "postFailed"}

Buffered(m) == \E c \in Chats : \E i \in DOMAIN pending[c] : pending[c][i] = m
Settled(m) == m \in done \cup lost

(* Every message that reaches the system is eventually answered or lost.   *)
EveryMessageSettled == \A m \in Msgs : m \in arrived ~> Settled(m)

(* A message buffered behind a busy worker is eventually settled.          *)
BufferedIsSettled == \A m \in Msgs : Buffered(m) ~> Settled(m)

(* A /stop in the run queue while its chat's worker executes eventually    *)
(* cancels that run, unless it ends before.                                *)
StopTakesEffect ==
    \A m \in Msgs, w \in Workers :
        /\ KindOf[m] = "stop" /\ (\E i \in DOMAIN queue : queue[i] = m)
        /\ wpc[w] = "exec" /\ ChatOf[wmsg[w]] = ChatOf[m]
        ~> wpc[w] # "exec" \/ cell[w].cancelled
=============================================================================
