---------------------------- MODULE Dispatch_proofs ----------------------------
(***************************************************************************)
(* Proofs about module Dispatch, for any number of chats, messages and     *)
(* workers and any capacities: the tasks of the server do not get into     *)
(* each other's way, none of the messages is duplicated, none is dropped   *)
(* but where the code means to, and the tasks together implement the life  *)
(* of each message that module MessageLife states.                         *)
(***************************************************************************)
EXTENDS Dispatch, FiniteSetTheorems, TLAPS

-----------------------------------------------------------------------------
(* The run queue: what the methods of module Scheduler guarantee, for      *)
(* every queue.                                                            *)

(* Taking a message rotates the rest: the result is one shorter, and its   *)
(* i-th element comes from behind the taken one first, then from its front.*)
LEMMA RotatedPastShape ==
  ASSUME queue \in Seq(Msgs), NEW i \in DOMAIN queue
  PROVE  /\ RotatedPast(i) \in Seq(Msgs)
         /\ Len(RotatedPast(i)) = Len(queue) - 1
         /\ \A k \in 1 .. (Len(queue) - 1) :
               RotatedPast(i)[k] = IF k <= Len(queue) - i THEN queue[i + k]
                                   ELSE queue[k - (Len(queue) - i)]
<1> DEFINE back == SubSeq(queue, i + 1, Len(queue))
           front == SubSeq(queue, 1, i - 1)
<1>1. i \in 1 .. Len(queue) /\ Len(queue) \in Nat
  OBVIOUS
<1>2. /\ back \in Seq(Msgs) /\ Len(back) = Len(queue) - i
      /\ \A k \in 1 .. (Len(queue) - i) : back[k] = queue[i + k]
  BY <1>1
<1>3. /\ front \in Seq(Msgs) /\ Len(front) = i - 1
      /\ \A k \in 1 .. (i - 1) : front[k] = queue[k]
  BY <1>1
<1>4. RotatedPast(i) = back \o front
  BY DEF RotatedPast
<1> HIDE DEF back, front
<1>5. Len(back \o front) = Len(queue) - 1 /\ back \o front \in Seq(Msgs)
  BY <1>1, <1>2, <1>3
<1>6. ASSUME NEW k \in 1 .. (Len(queue) - 1)
      PROVE  (back \o front)[k] = IF k <= Len(queue) - i THEN queue[i + k]
                                  ELSE queue[k - (Len(queue) - i)]
  <2>1. (back \o front)[k] = IF k <= Len(back) THEN back[k]
                             ELSE front[k - Len(back)]
    BY SMTT(60), <1>1, <1>2, <1>3
  <2>2. CASE k <= Len(queue) - i
    BY <1>1, <1>2, <2>1, <2>2
  <2>3. CASE ~(k <= Len(queue) - i)
    <3>1. k - (Len(queue) - i) \in 1 .. (i - 1)
      BY <1>1, <2>3
    <3> QED BY <1>1, <1>2, <1>3, <2>1, <2>3, <3>1
  <2> QED BY <2>2, <2>3
<1> QED BY <1>4, <1>5, <1>6

(* next() returns a message whose chat has a free place, every message in  *)
(* front of it has none, and no message is dropped or added: each other    *)
(* element of the queue is still there.                                    *)
THEOREM NextTakesFirstReady ==
  ASSUME queue \in Seq(Msgs), NEW m, TakeNext(m)
  PROVE  /\ m \in Msgs /\ active[ChatOf[m]] < MaxActive
         /\ queue' \in Seq(Msgs) /\ Len(queue') = Len(queue) - 1
         /\ \E i \in DOMAIN queue :
              /\ queue[i] = m
              /\ \A j \in 1 .. (i - 1) : ~(active[ChatOf[queue[j]]] < MaxActive)
              /\ \A j \in DOMAIN queue \ {i} :
                    \E k \in DOMAIN queue' : queue'[k] = queue[j]
<1>1. PICK i \in DOMAIN queue : /\ IsFirstReady(i) /\ m = queue[i]
                                /\ queue' = RotatedPast(i)
  BY DEF TakeNext
<1>2. i \in 1 .. Len(queue) /\ Len(queue) \in Nat /\ m \in Msgs
  BY <1>1
<1>3. /\ queue' \in Seq(Msgs) /\ Len(queue') = Len(queue) - 1
      /\ \A k \in 1 .. (Len(queue) - 1) :
            queue'[k] = IF k <= Len(queue) - i THEN queue[i + k]
                        ELSE queue[k - (Len(queue) - i)]
  BY <1>1, RotatedPastShape
<1>4. active[ChatOf[m]] < MaxActive
  BY <1>1 DEF IsFirstReady, Ready
<1>5. ASSUME NEW j \in 1 .. (i - 1)
      PROVE  ~(active[ChatOf[queue[j]]] < MaxActive)
  <2>1. j \in DOMAIN queue /\ ~(i <= j)
    BY <1>2
  <2> QED BY <1>1, <2>1 DEF IsFirstReady, Ready
<1>6. ASSUME NEW j \in DOMAIN queue \ {i}
      PROVE  \E k \in DOMAIN queue' : queue'[k] = queue[j]
  <2>0. j \in 1 .. Len(queue) /\ j # i /\ DOMAIN queue' = 1 .. (Len(queue) - 1)
    BY <1>3
  <2>1. CASE j > i
    <3>1. j - i \in 1 .. (Len(queue) - 1) /\ j - i <= Len(queue) - i /\ i + (j - i) = j
      BY <1>2, <2>0, <2>1
    <3>2. queue'[j - i] = queue[j]
      BY <1>3, <3>1
    <3> QED BY <2>0, <3>1, <3>2
  <2>2. CASE j < i
    <3>1. /\ j + (Len(queue) - i) \in 1 .. (Len(queue) - 1)
          /\ ~(j + (Len(queue) - i) <= Len(queue) - i)
          /\ (j + (Len(queue) - i)) - (Len(queue) - i) = j
      BY <1>2, <2>0, <2>2
    <3>2. queue'[j + (Len(queue) - i)] = queue[j]
      BY <1>3, <3>1
    <3> QED BY <2>0, <3>1, <3>2
  <2> QED BY <1>2, <2>0, <2>1, <2>2
<1> QED BY <1>1, <1>2, <1>3, <1>4, <1>5, <1>6

-----------------------------------------------------------------------------
(* The types.                                                              *)
(* A task that works on a message or a slot has one: the type invariant is *)
(* not inductive without it.                                               *)
HandsFull ==
    /\ dpc \notin {"recv", "pick"} => dmsg \in Msgs
    /\ dpc \in {"act", "stopRead", "stopCancel", "stopWrite", "send"} =>
          dworker \in Workers
    /\ \A w \in Workers : wpc[w] \notin {"gone", "recv"} => wmsg[w] \in Msgs

TypeInv == TypeOK /\ HandsFull

LEMMA SeqParts ==
  ASSUME NEW S, NEW seq \in Seq(S), seq # <<>>
  PROVE  Head(seq) \in S /\ Tail(seq) \in Seq(S)
OBVIOUS

LEMMA NewCellsTyped == NewCells \in Cells
BY DEF NewCells, Cells

(* Every way the code writes the cells of a slot keeps them well typed.    *)
LEMMA CellWrites ==
  ASSUME NEW w \in Workers, cell \in [Workers -> Cells]
  PROVE  /\ Interrupted(w) \in [Workers -> Cells]
         /\ \A s \in {"idle", "running", "cancelling", "failed"} :
              /\ [cell EXCEPT ![w].state = s] \in [Workers -> Cells]
              /\ [cell EXCEPT ![w].state = s, ![w].heartbeat = FALSE] \in [Workers -> Cells]
              /\ [cell EXCEPT ![w].cancelled = FALSE, ![w].state = s] \in [Workers -> Cells]
         /\ \A b \in BOOLEAN :
              [cell EXCEPT ![w].heartbeat = b, ![w].quiet = FALSE] \in [Workers -> Cells]
         /\ [cell EXCEPT ![w].interrupt = FALSE] \in [Workers -> Cells]
         /\ [cell EXCEPT ![w].cancelled = TRUE] \in [Workers -> Cells]
         /\ [cell EXCEPT ![w].quiet = FALSE] \in [Workers -> Cells]
         /\ [cell EXCEPT ![w].cancelled = FALSE, ![w].heartbeat = FALSE,
                         ![w].quiet = FALSE] \in [Workers -> Cells]
         /\ [cell EXCEPT ![w] = NewCells] \in [Workers -> Cells]
<1>1. /\ Interrupted(w) \in [Workers -> Cells]
      /\ \A s \in {"idle", "running", "cancelling", "failed"} :
           /\ [cell EXCEPT ![w].state = s] \in [Workers -> Cells]
           /\ [cell EXCEPT ![w].state = s, ![w].heartbeat = FALSE] \in [Workers -> Cells]
           /\ [cell EXCEPT ![w].cancelled = FALSE, ![w].state = s] \in [Workers -> Cells]
  BY ZenonT(60) DEF Interrupted, Cells
<1>2. /\ \A b \in BOOLEAN :
           [cell EXCEPT ![w].heartbeat = b, ![w].quiet = FALSE] \in [Workers -> Cells]
      /\ [cell EXCEPT ![w].interrupt = FALSE] \in [Workers -> Cells]
      /\ [cell EXCEPT ![w].cancelled = TRUE] \in [Workers -> Cells]
  BY ZenonT(60) DEF Cells
<1>3. /\ [cell EXCEPT ![w].quiet = FALSE] \in [Workers -> Cells]
      /\ [cell EXCEPT ![w].cancelled = FALSE, ![w].heartbeat = FALSE,
                      ![w].quiet = FALSE] \in [Workers -> Cells]
  BY ZenonT(60) DEF Cells
<1>4. [cell EXCEPT ![w] = NewCells] \in [Workers -> Cells]
  BY NewCellsTyped
<1> QED BY <1>1, <1>2, <1>3, <1>4

LEMMA PreemptedTyped ==
  ASSUME dworker \in Workers, cell \in [Workers -> Cells]
  PROVE  /\ Preempted \in [Workers -> Cells]
         /\ [Preempted EXCEPT ![dworker].quiet = FALSE] \in [Workers -> Cells]
<1>1. Preempted \in [Workers -> Cells]
  BY CellWrites DEF Preempted
<1> HIDE DEF Preempted
<1>2. [Preempted EXCEPT ![dworker].quiet = FALSE] \in [Workers -> Cells]
  BY <1>1 DEF Cells
<1> QED BY <1>1, <1>2

LEMMA AnsweredTyped ==
  ASSUME NEW m \in Msgs, answers \in [Msgs -> 0 .. AnswerCap]
  PROVE  Answered(m) \in [Msgs -> 0 .. AnswerCap]
BY DEF Answered, AnswerCap

LEMMA TypeInit == Init => TypeInv
<1> SUFFICES ASSUME Init PROVE TypeInv
  OBVIOUS
<1>1. HandsFull
  BY DEF Init, HandsFull
<1>2. cell \in [Workers -> Cells]
  BY NewCellsTyped DEF Init
<1>3. SchedulerTypeOK
  BY DEF Init, SchedulerInit, SchedulerTypeOK
<1>4. /\ wpc \in [Workers -> WorkerPlaces] /\ dpc \in DispatcherPlaces
      /\ permits \in Nat
  BY DispatchAssumption DEF Init, WorkerPlaces, DispatcherPlaces
<1>5. started \in [Msgs -> 0 .. AnswerCap] /\ answers \in [Msgs -> 0 .. AnswerCap]
  BY DEF Init, AnswerCap
<1>6. /\ inq \in Seq(Msgs \cup {Wake}) /\ hbuf \in Seq(Msgs \cup {Wake})
      /\ pending \in [Chats -> Seq(Msgs)] /\ chan \in [Workers -> Seq(Msgs)]
  BY DEF Init
<1>7. /\ slot \in [Chats -> Workers \cup {None}] /\ icpt \subseteq [msg : Msgs, worker : Workers]
      /\ wmsg \in [Workers -> Msgs \cup {None}]
  BY DEF Init
<1>8. TypeOK
  BY <1>2, <1>3, <1>4, <1>5, <1>6, <1>7 DEF Init, TypeOK
<1> QED BY <1>1, <1>8 DEF TypeInv

LEMMA TypeDispatcher == TypeInv /\ Dispatcher => TypeInv'
<1> SUFFICES ASSUME TypeInv, Dispatcher PROVE TypeInv'
  OBVIOUS
<1> USE SchedulerAssumption, DispatchAssumption
    DEF TypeInv, TypeOK, SchedulerTypeOK, HandsFull, schedVars, inVars, dVars,
        hVars, slotVars, wVars, runVars, endVars
<1>1. CASE RecvWake
  <2>1. Tail(inq) \in Seq(Msgs \cup {Wake})
    BY <1>1, SeqParts DEF RecvWake
  <2> QED BY <1>1, <2>1 DEF RecvWake, DispatcherPlaces
<1>2. CASE RecvPush
  <2>1. Head(inq) \in Msgs /\ Tail(inq) \in Seq(Msgs \cup {Wake})
    BY <1>2, SeqParts DEF RecvPush
  <2>2. queue' \in Seq(Msgs) /\ UNCHANGED active
    BY <1>2, <2>1 DEF RecvPush, Push
  <2>3. inq' = Tail(inq) /\ dpc' = "pick"
    BY <1>2 DEF RecvPush
  <2> QED BY <1>2, <2>1, <2>2, <2>3 DEF RecvPush, DispatcherPlaces
<1>3. CASE RecvOverload
  <2>1. Head(inq) \in Msgs /\ Tail(inq) \in Seq(Msgs \cup {Wake})
    BY <1>3, SeqParts DEF RecvOverload
  <2>2. answers' \in [Msgs -> 0 .. AnswerCap]
    BY <1>3, <2>1, AnsweredTyped DEF RecvOverload
  <2> QED BY <1>3, <2>1, <2>2 DEF RecvOverload
<1>4. CASE PickNext
  <2>1. PICK m \in Msgs : TakeNext(m) /\ dmsg' = m
    BY <1>4 DEF PickNext
  <2>2. queue' \in Seq(Msgs)
    BY <2>1, NextTakesFirstReady
  <2>3. UNCHANGED active
    BY <2>1 DEF TakeNext
  <2> QED BY <1>4, <2>1, <2>2, <2>3 DEF PickNext, DispatcherPlaces
<1>5. CASE PickNone
  BY <1>5 DEF PickNone, DispatcherPlaces
<1>6. CASE Ensure
  <2>1. CASE FindWorker
    BY SMTT(60), <1>6, <2>1 DEF Ensure, FindWorker, Busy, DispatcherPlaces
  <2>2. CASE CreateWorker
    <3>1. PICK w \in Workers :
            /\ Free(w) /\ slot' = [slot EXCEPT ![ChatOf[dmsg]] = w]
            /\ pending' = [pending EXCEPT ![ChatOf[dmsg]] = <<>>]
            /\ chan' = [chan EXCEPT ![w] = <<>>]
            /\ wpc' = [wpc EXCEPT ![w] = "recv"]
            /\ cell' = [cell EXCEPT ![w] = NewCells]
            /\ dworker' = w /\ dbusy' = FALSE
      BY <2>2 DEF CreateWorker
    <3>2. cell' \in [Workers -> Cells]
      BY <3>1, CellWrites
    <3>3. /\ slot' \in [Chats -> Workers \cup {None}]
          /\ pending' \in [Chats -> Seq(Msgs)] /\ chan' \in [Workers -> Seq(Msgs)]
          /\ wpc' \in [Workers -> WorkerPlaces]
      <4>1. <<>> \in Seq(Msgs) /\ "recv" \in WorkerPlaces
        BY DEF WorkerPlaces
      <4>2. pending' \in [Chats -> Seq(Msgs)]
        BY <3>1, <4>1
      <4>3. chan' \in [Workers -> Seq(Msgs)]
        BY <3>1, <4>1
      <4> QED BY <3>1, <4>1, <4>2, <4>3
    <3>4. \A v \in Workers : wpc'[v] \notin {"gone", "recv"} => wmsg[v] \in Msgs
      BY <3>1
    <3>5. UNCHANGED wmsg
      BY <2>2 DEF CreateWorker
    <3> QED BY <1>6, <3>1, <3>2, <3>3, <3>4, <3>5 DEF Ensure, DispatcherPlaces
  <2> QED BY <1>6, <2>1, <2>2 DEF Ensure
<1>7. CASE ActStop
  <2>1. cell' \in [Workers -> Cells]
    BY <1>7, CellWrites, PreemptedTyped DEF ActStop
  <2> QED BY <1>7, <2>1 DEF ActStop, DispatcherPlaces
<1>8. CASE ActBuffer
  <2>1. cell' \in [Workers -> Cells]
    BY <1>8, CellWrites, PreemptedTyped DEF ActBuffer
  <2> DEFINE c == ChatOf[dmsg]
             full == Len(pending[c]) >= MaxPending
  <2>2. dmsg \in Msgs /\ c \in Chats /\ pending[c] \in Seq(Msgs)
    BY <1>8 DEF ActBuffer
  <2>3. full => pending[c] # <<>>
    BY <2>2
  <2>4. full => Head(pending[c]) \in Msgs /\ Tail(pending[c]) \in Seq(Msgs)
    BY <2>2, <2>3, SeqParts
  <2>5. /\ pending' = [pending EXCEPT ![c] = Append(IF full THEN Tail(@) ELSE @, dmsg)]
        /\ lost' = IF full THEN lost \cup {Head(pending[c])} ELSE lost
    BY <1>8 DEF ActBuffer
  <2> HIDE DEF c, full
  <2>6. pending' \in [Chats -> Seq(Msgs)] /\ lost' \subseteq Msgs
    BY SMTT(60), <2>2, <2>4, <2>5
  <2>7. icpt' \subseteq [msg : Msgs, worker : Workers]
    <3>1. [msg |-> dmsg, worker |-> dworker] \in [msg : Msgs, worker : Workers]
      BY <1>8 DEF ActBuffer
    <3>2. icpt' = icpt \/ icpt' = icpt \cup {[msg |-> dmsg, worker |-> dworker]}
      BY <1>8 DEF ActBuffer
    <3>3. icpt \subseteq [msg : Msgs, worker : Workers]
      OBVIOUS
    <3> QED BY ONLY <3>1, <3>2, <3>3
  <2> QED BY <1>8, <2>1, <2>6, <2>7 DEF ActBuffer, DispatcherPlaces
<1>9. CASE ActAssign
  <2>1. cell' \in [Workers -> Cells]
    BY <1>9, CellWrites, PreemptedTyped DEF ActAssign
  <2> QED BY <1>9, <2>1 DEF ActAssign, DispatcherPlaces
<1>10. CASE StopIdle
  <2>1. answers' \in [Msgs -> 0 .. AnswerCap]
    BY <1>10, AnsweredTyped DEF StopIdle
  <2> QED BY <1>10, <2>1 DEF StopIdle, DispatcherPlaces
<1>11. CASE StopBusy
  BY <1>11 DEF StopBusy, DispatcherPlaces
<1>12. CASE StopCancel
  <2>1. cell' \in [Workers -> Cells]
    BY <1>12, CellWrites DEF StopCancel
  <2> QED BY <1>12, <2>1 DEF StopCancel, DispatcherPlaces
<1>13. CASE StopWrite
  <2>1. cell' \in [Workers -> Cells]
    BY <1>13, CellWrites DEF StopWrite
  <2>2. answers' \in [Msgs -> 0 .. AnswerCap]
    BY <1>13, AnsweredTyped DEF StopWrite
  <2> QED BY <1>13, <2>1, <2>2 DEF StopWrite, DispatcherPlaces
<1>14. CASE Send
  BY SMTT(60), <1>14 DEF Send, DispatcherPlaces
<1>15. CASE SendFails
  BY <1>15 DEF SendFails, DispatcherPlaces
<1>16. CASE RemoveDead
  BY <1>16 DEF RemoveDead, DispatcherPlaces
<1>17. CASE Requeue
  <2>1. inq' \in Seq(Msgs \cup {Wake})
    BY <1>17 DEF Requeue
  <2> QED BY <1>17, <2>1 DEF Requeue, DispatcherPlaces
<1>18. CASE Mark
  <2>1. active' \in [Chats -> Nat] /\ UNCHANGED queue
    BY <1>18 DEF Mark, MarkDispatched
  <2> QED BY <1>18, <2>1 DEF Mark, DispatcherPlaces
<1>19. CASE RedispLock
  BY <1>19 DEF RedispLock, DispatcherPlaces
<1>20. CASE RedispPop
  <2>1. /\ ChatOf[dmsg] \in Chats /\ pending[ChatOf[dmsg]] \in Seq(Msgs)
        /\ pending[ChatOf[dmsg]] # <<>>
    BY <1>20 DEF RedispPop, MayRedispatch
  <2>2. Head(pending[ChatOf[dmsg]]) \in Msgs /\ Tail(pending[ChatOf[dmsg]]) \in Seq(Msgs)
    BY <2>1, SeqParts
  <2>3. dmsg' \in Msgs /\ pending' \in [Chats -> Seq(Msgs)]
    BY <1>20, <2>1, <2>2 DEF RedispPop
  <2> QED BY <1>20, <2>3 DEF RedispPop, DispatcherPlaces
<1>21. CASE RedispSend
  BY SMTT(60), <1>21 DEF RedispSend, DispatcherPlaces
<1>22. CASE RedispEnd
  BY <1>22 DEF RedispEnd, DispatcherPlaces
<1> QED
  BY <1>1, <1>2, <1>3, <1>4, <1>5, <1>6, <1>7, <1>8, <1>9, <1>10, <1>11, <1>12,
     <1>13, <1>14, <1>15, <1>16, <1>17, <1>18, <1>19, <1>20, <1>21, <1>22
  DEF Dispatcher, Receive, Choose, Stop, Assign, Redispatch

LEMMA TypeHousekeeping == TypeInv /\ Housekeeping => TypeInv'
<1> SUFFICES ASSUME TypeInv, Housekeeping PROVE TypeInv'
  OBVIOUS
<1> USE SchedulerAssumption, DispatchAssumption
    DEF TypeInv, TypeOK, SchedulerTypeOK, HandsFull, schedVars, inVars, dVars,
        hVars, slotVars, wVars, runVars, endVars
<1>1. CASE Tick
  <2>1. hbuf' \in Seq(Msgs \cup {Wake})
    BY <1>1 DEF Tick
  <2> QED BY <1>1, <2>1 DEF Tick
<1>2. ASSUME NEW c \in Chats, VisitResting(c) PROVE TypeInv'
  <2>1. active' \in [Chats -> Nat] /\ UNCHANGED queue
    BY <1>2 DEF VisitResting, MarkComplete
  <2>2. CASE pending[c] # <<>>
    <3>1. Head(pending[c]) \in Msgs /\ Tail(pending[c]) \in Seq(Msgs)
      BY <2>2, SeqParts
    <3>2. hbuf' = Append(hbuf, Head(pending[c])) /\ UNCHANGED hreap
      BY <1>2, <2>2 DEF VisitResting
    <3>3. hbuf' \in Seq(Msgs \cup {Wake})
      BY <3>1, <3>2
    <3>4. pending' \in [Chats -> Seq(Msgs)]
      BY ZenonT(60), <1>2, <2>2, <3>1 DEF VisitResting
    <3> QED BY <1>2, <2>1, <3>2, <3>3, <3>4 DEF VisitResting
  <2>3. CASE pending[c] = <<>>
    BY ZenonT(60), <1>2, <2>1, <2>3 DEF VisitResting
  <2> QED BY <2>2, <2>3
<1>3. ASSUME NEW c \in Chats, VisitBusy(c) PROVE TypeInv'
  BY <1>3 DEF VisitBusy
<1>4. CASE Reap
  <2>1. pending' \in [Chats -> Seq(Msgs)] /\ slot' \in [Chats -> Workers \cup {None}]
    BY <1>4 DEF Reap
  <2>2. \A c \in hreap : {pending[c][i] : i \in DOMAIN pending[c]} \subseteq Msgs
    OBVIOUS
  <2>3. lost' \subseteq Msgs
    BY <1>4, <2>2 DEF Reap
  <2> QED BY <1>4, <2>1, <2>3 DEF Reap
<1>5. CASE AddWake
  <2>1. hbuf' \in Seq(Msgs \cup {Wake})
    BY <1>5 DEF AddWake
  <2> QED BY <1>5, <2>1 DEF AddWake
<1>6. CASE Flush
  <2>1. Head(hbuf) \in Msgs \cup {Wake} /\ Tail(hbuf) \in Seq(Msgs \cup {Wake})
    BY <1>6, SeqParts DEF Flush
  <2>2. inq' \in Seq(Msgs \cup {Wake})
    BY <1>6, <2>1 DEF Flush
  <2> QED BY <1>6, <2>1, <2>2 DEF Flush
<1>7. CASE Sleep
  BY <1>7 DEF Sleep
<1> QED BY <1>1, <1>2, <1>3, <1>4, <1>5, <1>6, <1>7 DEF Housekeeping

LEMMA DismissTyped ==
  ASSUME TypeInv, NEW w \in Workers, wpc[w] = "check",
         NEW s \in {"idle", "failed"}, Dismiss(w, s)
  PROVE  TypeInv'
<1> USE DEF TypeInv, TypeOK, SchedulerTypeOK, HandsFull, schedVars, inVars, dVars,
        hVars, slotVars, runVars
<1>1. wmsg[w] \in Msgs
  OBVIOUS
<1>2. cell' \in [Workers -> Cells]
  BY CellWrites DEF Dismiss
<1>3. answers' \in [Msgs -> 0 .. AnswerCap]
  BY <1>1, AnsweredTyped DEF Dismiss
<1>4. /\ wpc' = [wpc EXCEPT ![w] = "recv"] /\ wmsg' = [wmsg EXCEPT ![w] = None]
      /\ wpc' \in [Workers -> WorkerPlaces]
  BY DEF Dismiss, Goto, WorkerPlaces
<1> QED BY <1>1, <1>2, <1>3, <1>4 DEF Dismiss

(* The part of a worker's step that all have in common: it moves to a      *)
(* place and, unless that is an idle one, keeps its message.               *)
LEMMA GotoTyped ==
  ASSUME TypeInv, NEW w \in Workers, NEW p \in WorkerPlaces, Goto(w, p),
         UNCHANGED wmsg, wmsg[w] \in Msgs \/ p \in {"gone", "recv"}
  PROVE  /\ wpc' \in [Workers -> WorkerPlaces]
         /\ \A v \in Workers : wpc'[v] \notin {"gone", "recv"} => wmsg'[v] \in Msgs
BY DEF TypeInv, TypeOK, HandsFull, Goto

LEMMA RunEndsTyped ==
  ASSUME TypeInv, NEW w \in Workers, NEW p \in {"postIdle", "postFailed"},
         RunEnds(w, p), cell' \in [Workers -> Cells]
  PROVE  TypeInv'
<1>1. wmsg[w] \in Msgs
  BY DEF RunEnds, TypeInv, HandsFull
<1>2. answers' \in [Msgs -> 0 .. AnswerCap]
  BY <1>1, AnsweredTyped DEF RunEnds, TypeInv, TypeOK
<1>3. /\ wpc' \in [Workers -> WorkerPlaces]
      /\ \A v \in Workers : wpc'[v] \notin {"gone", "recv"} => wmsg'[v] \in Msgs
  BY <1>1, GotoTyped DEF RunEnds, WorkerPlaces, Holding
<1> QED
  BY <1>2, <1>3 DEF RunEnds, TypeInv, TypeOK, SchedulerTypeOK, HandsFull, schedVars,
                    inVars, dVars, hVars, slotVars, runVars

LEMMA TypeWorker ==
  ASSUME TypeInv, NEW w \in Workers, Worker(w)
  PROVE  TypeInv'
<1> USE SchedulerAssumption, DispatchAssumption
    DEF TypeInv, TypeOK, SchedulerTypeOK, HandsFull, schedVars, inVars, dVars,
        hVars, slotVars, wVars, runVars, endVars
<1>1. CASE Dequeue(w)
  <2>1. Head(chan[w]) \in Msgs /\ Tail(chan[w]) \in Seq(Msgs)
    BY <1>1, SeqParts DEF Dequeue
  <2>2. cell' \in [Workers -> Cells]
    BY <1>1, CellWrites DEF Dequeue
  <2>3. chan' \in [Workers -> Seq(Msgs)] /\ wmsg' \in [Workers -> Msgs \cup {None}]
    BY <1>1, <2>1 DEF Dequeue
  <2>4. wpc' \in [Workers -> WorkerPlaces]
    BY <1>1 DEF Dequeue, Goto, WorkerPlaces
  <2>5. \A v \in Workers : wpc'[v] \notin {"gone", "recv"} => wmsg'[v] \in Msgs
    BY <1>1, <2>1 DEF Dequeue, Goto
  <2> QED BY <1>1, <2>2, <2>3, <2>4, <2>5 DEF Dequeue
<1>2. CASE End(w)
  BY ZenonT(60), <1>2, GotoTyped DEF End, WorkerPlaces
<1>3. CASE SlashCommand(w)
  BY <1>3, DismissTyped DEF SlashCommand
<1>4. CASE Offline(w)
  BY <1>4, DismissTyped DEF Offline
<1>5. CASE ClearInterrupt(w)
  <2>1. cell' \in [Workers -> Cells]
    BY <1>5, CellWrites DEF ClearInterrupt
  <2> QED BY ZenonT(60), <1>5, <2>1, GotoTyped DEF ClearInterrupt, WorkerPlaces
<1>6. CASE Acquire(w)
  <2>1. permits' \in Nat
    BY <1>6 DEF Acquire
  <2>2. started' \in [Msgs -> 0 .. AnswerCap]
    <3>1. wmsg[w] \in Msgs
      BY <1>6 DEF Acquire
    <3>2. \A n \in 0 .. AnswerCap : (IF n < AnswerCap THEN n + 1 ELSE n) \in 0 .. AnswerCap
      BY DEF AnswerCap
    <3>3. started' = [started EXCEPT ![wmsg[w]] = IF @ < AnswerCap THEN @ + 1 ELSE @]
      BY <1>6 DEF Acquire
    <3> QED BY <3>1, <3>2, <3>3
  <2>3. /\ wpc' \in [Workers -> WorkerPlaces]
        /\ \A v \in Workers : wpc'[v] \notin {"gone", "recv"} => wmsg'[v] \in Msgs
    BY <1>6, GotoTyped DEF Acquire, WorkerPlaces, Holding
  <2> QED BY <1>6, <2>1, <2>2, <2>3 DEF Acquire
<1>7. CASE Route(w)
  <2>1. PICK p \in {"local", "remote"} : Goto(w, p)
    BY <1>7 DEF Route
  <2>2. /\ wpc' \in [Workers -> WorkerPlaces]
        /\ \A v \in Workers : wpc'[v] \notin {"gone", "recv"} => wmsg'[v] \in Msgs
    BY <1>7, <2>1, GotoTyped DEF Route, WorkerPlaces, Holding
  <2> QED BY <1>7, <2>2 DEF Route
<1>8. CASE RemoteAnswer(w)
  <2>1. PICK p \in {"postIdle", "postFailed"} : Goto(w, p)
    BY <1>8 DEF RemoteAnswer
  <2>2. answers' \in [Msgs -> 0 .. AnswerCap]
    BY <1>8, AnsweredTyped DEF RemoteAnswer
  <2>3. /\ wpc' \in [Workers -> WorkerPlaces]
        /\ \A v \in Workers : wpc'[v] \notin {"gone", "recv"} => wmsg'[v] \in Msgs
    BY <1>8, <2>1, GotoTyped DEF RemoteAnswer, WorkerPlaces, Holding
  <2> QED BY <1>8, <2>2, <2>3 DEF RemoteAnswer
<1>9. CASE RemoteFallback(w)
  BY ZenonT(60), <1>9, GotoTyped DEF RemoteFallback, WorkerPlaces, Holding
<1>10. CASE StartLocal(w)
  <2>1. cell' \in [Workers -> Cells]
    BY <1>10, CellWrites DEF StartLocal
  <2> QED BY ZenonT(60), <1>10, <2>1, GotoTyped DEF StartLocal, WorkerPlaces, Holding
<1>11. CASE Succeed(w) \/ Cancelled(w) \/ Fail(w)
  <2>1. cell' \in [Workers -> Cells]
    BY <1>11 DEF Succeed, Cancelled, Fail
  <2> QED BY <1>11, <2>1, RunEndsTyped DEF Succeed, Cancelled, Fail
<1>12. CASE Timeout(w)
  <2>1. cell' \in [Workers -> Cells]
    BY <1>12, CellWrites DEF Timeout
  <2> QED BY <1>12, <2>1, RunEndsTyped DEF Timeout
<1>13. CASE Panic(w)
  <2>1. permits' \in Nat /\ chan' \in [Workers -> Seq(Msgs)]
    BY <1>13 DEF Panic
  <2>2. {chan[w][i] : i \in DOMAIN chan[w]} \subseteq Msgs /\ wmsg[w] \in Msgs
    <3>1. chan[w] \in Seq(Msgs)
      OBVIOUS
    <3>2. \A i \in DOMAIN chan[w] : chan[w][i] \in Msgs
      BY ONLY <3>1
    <3>3. wpc[w] = "exec"
      BY <1>13 DEF Panic
    <3>4. wmsg[w] \in Msgs
      BY <3>3
    <3>5. {chan[w][i] : i \in DOMAIN chan[w]} \subseteq Msgs
      BY ONLY <3>2
    <3> QED BY ONLY <3>4, <3>5
  <2>3. lost' \subseteq Msgs
    BY <1>13, <2>2 DEF Panic
  <2>4. wpc' \in [Workers -> WorkerPlaces] /\ wmsg' \in [Workers -> Msgs \cup {None}]
    BY <1>13 DEF Panic, Goto, WorkerPlaces
  <2>5. \A v \in Workers : wpc'[v] \notin {"gone", "recv"} => wmsg'[v] \in Msgs
    BY <1>13 DEF Panic, Goto
  <2> QED BY <1>13, <2>1, <2>3, <2>4, <2>5 DEF Panic
<1>14. CASE SetState(w)
  <2>1. cell' \in [Workers -> Cells]
    BY <1>14, CellWrites DEF SetState
  <2>2. /\ wpc' \in [Workers -> WorkerPlaces]
        /\ \A v \in Workers : wpc'[v] \notin {"gone", "recv"} => wmsg'[v] \in Msgs
    BY <1>14, GotoTyped DEF SetState, WorkerPlaces, Holding
  <2> QED BY <1>14, <2>1, <2>2 DEF SetState
<1>15. CASE CleanUp(w)
  <2>1. cell' \in [Workers -> Cells]
    BY <1>15, CellWrites DEF CleanUp
  <2>0. wmsg[w] \in Msgs
    BY <1>15 DEF CleanUp
  <2>2. permits' \in Nat /\ done' \subseteq Msgs
    <3>1. permits' = permits + 1 /\ done' = done \cup {wmsg[w]}
      BY <1>15 DEF CleanUp
    <3>2. permits \in Nat /\ done \subseteq Msgs
      OBVIOUS
    <3> QED BY ONLY <2>0, <3>1, <3>2
  <2>3. wpc' \in [Workers -> WorkerPlaces] /\ wmsg' \in [Workers -> Msgs \cup {None}]
    BY <1>15 DEF CleanUp, Goto, WorkerPlaces
  <2>4. \A v \in Workers : wpc'[v] \notin {"gone", "recv"} => wmsg'[v] \in Msgs
    BY <1>15 DEF CleanUp, Goto
  <2> QED BY <1>15, <2>1, <2>2, <2>3, <2>4 DEF CleanUp
<1> QED
  BY <1>1, <1>2, <1>3, <1>4, <1>5, <1>6, <1>7, <1>8, <1>9, <1>10, <1>11, <1>12,
     <1>13, <1>14, <1>15
  DEF Worker, WorkerStep, RemoteEnds, AgentEnds

LEMMA TypeNext == TypeInv /\ [Next]_vars => TypeInv'
<1> SUFFICES ASSUME TypeInv, [Next]_vars PROVE TypeInv'
  OBVIOUS
<1> USE DEF TypeInv, TypeOK, SchedulerTypeOK, HandsFull, schedVars, inVars, dVars,
        hVars, slotVars, wVars, runVars, endVars
<1>1. ASSUME NEW m \in Msgs, Arrive(m) PROVE TypeInv'
  <2>1. inq' \in Seq(Msgs \cup {Wake})
    BY <1>1 DEF Arrive
  <2> QED BY <1>1, <2>1 DEF Arrive
<1>2. CASE Dispatcher
  BY <1>2, TypeDispatcher
<1>3. CASE Housekeeping
  BY <1>3, TypeHousekeeping
<1>4. ASSUME NEW w \in Workers, Worker(w) PROVE TypeInv'
  BY <1>4, TypeWorker
<1>5. ASSUME NEW i \in icpt, Intercept(i) PROVE TypeInv'
  <2>1. i.msg \in Msgs /\ i.worker \in Workers
    OBVIOUS
  <2>2. answers' \in [Msgs -> 0 .. AnswerCap]
    BY <1>5, <2>1, AnsweredTyped DEF Intercept
  <2>3. cell' \in [Workers -> Cells]
    <3>1. cell' = cell \/ cell' = Interrupted(i.worker)
      BY <1>5 DEF Intercept
    <3>2. Interrupted(i.worker) \in [Workers -> Cells]
      BY <2>1, CellWrites
    <3> QED BY <3>1, <3>2
  <2> QED BY <1>5, <2>2, <2>3 DEF Intercept
<1>6. CASE Elapse
  <2>1. \A w \in Workers : [cell[w] EXCEPT !.quiet = TRUE] \in Cells
    BY ZenonT(60) DEF Cells
  <2>2. cell' \in [Workers -> Cells]
    BY <1>6, <2>1 DEF Elapse
  <2> QED BY <1>6, <2>2 DEF Elapse
<1>7. CASE UNCHANGED vars
  BY <1>7 DEF vars
<1> QED BY <1>1, <1>2, <1>3, <1>4, <1>5, <1>6, <1>7 DEF Next

(* Every variable keeps its type; together with HandsFull, no task ever    *)
(* acts on a message or a slot it does not have.                           *)
THEOREM TypeCorrect == Spec => []TypeOK
<1>1. TypeInv => TypeOK
  BY DEF TypeInv
<1> QED BY <1>1, TypeInit, TypeNext, PTL DEF Spec

-----------------------------------------------------------------------------
(* The per-chat limit.  The dispatcher is the only task that raises a      *)
(* count, and between the check in next and mark_dispatched the other      *)
(* tasks only lower it.                                                    *)
ActiveInv ==
    /\ ActiveWithinLimit
    /\ dpc \in {"ensure", "act", "send", "mark"} => active[ChatOf[dmsg]] < MaxActive

LEMMA ActiveInit == Init => ActiveInv
BY SchedulerAssumption DEF Init, SchedulerInit, ActiveInv, ActiveWithinLimit

LEMMA ActiveDispatcher == TypeInv /\ ActiveInv /\ Dispatcher => ActiveInv'
<1> SUFFICES ASSUME TypeInv, ActiveInv, Dispatcher PROVE ActiveInv'
  OBVIOUS
<1> USE SchedulerAssumption
    DEF ActiveInv, ActiveWithinLimit, schedVars
<1>1. CASE PickNext
  <2>1. PICK m \in Msgs : TakeNext(m) /\ dmsg' = m
    BY <1>1 DEF PickNext
  <2>2. active[ChatOf[m]] < MaxActive /\ UNCHANGED active
    BY <2>1, NextTakesFirstReady DEF TakeNext, TypeInv, TypeOK, SchedulerTypeOK
  <2> QED BY <2>1, <2>2
<1>2. CASE Mark
  <2>1. active \in [Chats -> Nat] /\ ChatOf[dmsg] \in Chats
    BY <1>2 DEF Mark, TypeInv, TypeOK, HandsFull, SchedulerTypeOK
  <2> QED BY <1>2, <2>1 DEF Mark, MarkDispatched
<1>3. CASE RecvWake \/ RecvPush \/ RecvOverload \/ PickNone
  BY <1>3 DEF RecvWake, RecvPush, RecvOverload, PickNone, Push, dVars
<1>4. CASE Ensure \/ ActStop \/ ActBuffer \/ ActAssign
  BY <1>4 DEF Ensure, ActStop, ActBuffer, ActAssign
<1>5. CASE Stop
  BY <1>5 DEF Stop, StopIdle, StopBusy, StopCancel, StopWrite
<1>6. CASE Send \/ SendFails \/ RemoveDead \/ Requeue
  BY <1>6 DEF Send, SendFails, RemoveDead, Requeue
<1>7. CASE Redispatch
  BY <1>7 DEF Redispatch, RedispLock, RedispPop, RedispSend, RedispEnd
<1> QED BY <1>1, <1>2, <1>3, <1>4, <1>5, <1>6, <1>7 DEF Dispatcher, Receive, Choose, Assign

LEMMA ActiveNext == TypeInv /\ ActiveInv /\ [Next]_vars => ActiveInv'
<1> SUFFICES ASSUME TypeInv, ActiveInv, [Next]_vars PROVE ActiveInv'
  OBVIOUS
<1> USE DEF ActiveInv, ActiveWithinLimit, schedVars, dVars
<1>1. CASE Dispatcher
  BY <1>1, ActiveDispatcher
<1>2. ASSUME NEW c \in Chats, VisitResting(c) PROVE ActiveInv'
  <2>1. active \in [Chats -> Nat] /\ MaxActive \in Nat
    BY SchedulerAssumption DEF TypeInv, TypeOK, SchedulerTypeOK
  <2>2. /\ active' = [active EXCEPT ![c] = IF @ > 0 THEN @ - 1 ELSE 0]
        /\ UNCHANGED <<dpc, dmsg>>
    BY <1>2 DEF VisitResting, MarkComplete
  <2>3. \A d \in Chats : active'[d] \in Nat /\ active'[d] <= active[d]
    BY <2>1, <2>2
  <2>4. dpc \in {"ensure", "act", "send", "mark"} => ChatOf[dmsg] \in Chats
    BY SchedulerAssumption DEF TypeInv, HandsFull
  <2> QED BY <2>1, <2>2, <2>3, <2>4
<1>3. CASE Housekeeping /\ UNCHANGED <<active, dpc, dmsg>>
  BY <1>3
<1>4. CASE Housekeeping
  BY <1>2, <1>3, <1>4 DEF Housekeeping, Tick, Reap, AddWake, Flush, Sleep, VisitBusy
<1>5. ASSUME NEW m \in Msgs, Arrive(m) PROVE ActiveInv'
  BY <1>5 DEF Arrive
<1>6. ASSUME NEW w \in Workers, Worker(w) PROVE ActiveInv'
  BY <1>6 DEF Worker, WorkerStep, RemoteEnds, AgentEnds, Dequeue, End, SlashCommand,
              Offline, Dismiss, ClearInterrupt, Acquire, Route, RemoteAnswer,
              RemoteFallback, StartLocal, Succeed, Cancelled, Fail, Timeout, RunEnds,
              Panic, SetState, CleanUp
<1>7. ASSUME NEW i \in icpt, Intercept(i) PROVE ActiveInv'
  BY <1>7 DEF Intercept
<1>8. CASE Elapse
  BY <1>8 DEF Elapse
<1>9. CASE UNCHANGED vars
  BY <1>9 DEF vars
<1> QED BY <1>1, <1>4, <1>5, <1>6, <1>7, <1>8, <1>9 DEF Next

(* No chat is ever counted with more dispatched messages than              *)
(* max_active_per_chat, however dispatch, housekeeping and worker steps    *)
(* interleave: mark_dispatched never overshoots the check made in next.    *)
THEOREM ActiveWithinLimitHolds == Spec => []ActiveWithinLimit
<1>1. ActiveInv => ActiveWithinLimit
  BY DEF ActiveInv
<1> QED BY <1>1, TypeInit, TypeNext, ActiveInit, ActiveNext, PTL DEF Spec

-----------------------------------------------------------------------------
(* The permits.                                                            *)
LEMMA HoldersFinite == IsFiniteSet(Holders) /\ Cardinality(Holders) \in Nat
<1>1. IsFiniteSet(Workers)
  BY DispatchAssumption
<1>2. IsFiniteSet(Holders)
  BY <1>1, FS_Subset DEF Holders
<1> QED BY <1>2, FS_CardinalityType

LEMMA PermitsInit == Init => PermitsConserved
<1> SUFFICES ASSUME Init PROVE PermitsConserved
  OBVIOUS
<1>1. Holders = {}
  BY DEF Init, Holders, Holding
<1>2. Cardinality(Holders) = 0
  BY <1>1, FS_EmptySet
<1> QED BY <1>2, DispatchAssumption DEF Init, PermitsConserved, Holders

(* A step that moves a worker within Holding, or outside of it, and leaves *)
(* the semaphore alone keeps the sum.                                      *)
LEMMA PermitsKept ==
  ASSUME PermitsConserved, UNCHANGED permits,
         \A w \in Workers : wpc'[w] \in Holding <=> wpc[w] \in Holding
  PROVE  PermitsConserved'
<1>1. Holders' = Holders
  BY DEF Holders
<1> QED BY <1>1 DEF PermitsConserved, Holders

LEMMA GotoKeeps ==
  ASSUME TypeInv, PermitsConserved, UNCHANGED permits, NEW w \in Workers, NEW p,
         Goto(w, p), wpc[w] \in Holding <=> p \in Holding
  PROVE  PermitsConserved'
<1>1. \A v \in Workers : wpc'[v] \in Holding <=> wpc[v] \in Holding
  BY DEF Goto, TypeInv, TypeOK
<1> QED BY <1>1, PermitsKept

LEMMA PermitTaken ==
  ASSUME TypeInv, PermitsConserved, NEW w \in Workers, Acquire(w)
  PROVE  PermitsConserved'
<1>1. wpc' = [wpc EXCEPT ![w] = "route"] /\ wpc[w] = "permit"
  BY DEF Acquire, Goto
<1>2. w \notin Holders
  BY <1>1 DEF Holders, Holding
<1>3. Holders' = Holders \cup {w}
  BY <1>1 DEF Holders, Holding, TypeInv, TypeOK
<1>4. Cardinality(Holders') = Cardinality(Holders) + 1
  BY <1>2, <1>3, HoldersFinite, FS_AddElement
<1>5. permits \in Nat /\ permits > 0 /\ permits' = permits - 1
  BY DEF Acquire, TypeInv, TypeOK
<1> QED BY <1>4, <1>5, HoldersFinite DEF PermitsConserved, Holders

LEMMA PermitReturned ==
  ASSUME TypeInv, PermitsConserved, NEW w \in Workers, wpc[w] \in Holding,
         NEW p, p \notin Holding, Goto(w, p), permits' = permits + 1
  PROVE  PermitsConserved'
<1>1. w \in Holders
  BY DEF Holders
<1>2. Holders' = Holders \ {w}
  BY DEF Holders, Goto, TypeInv, TypeOK
<1>3. Cardinality(Holders') = Cardinality(Holders) - 1
  BY <1>1, <1>2, HoldersFinite, FS_RemoveElement
<1>4. permits \in Nat
  BY DEF TypeInv, TypeOK
<1> QED BY <1>3, <1>4, HoldersFinite DEF PermitsConserved, Holders

LEMMA PermitsWorker ==
  ASSUME TypeInv, PermitsConserved, NEW w \in Workers, Worker(w)
  PROVE  PermitsConserved'
<1> USE DEF runVars, Holding
<1>1. CASE Acquire(w)
  BY <1>1, PermitTaken
<1>2. CASE Panic(w)
  BY <1>2, PermitReturned DEF Panic
<1>3. CASE CleanUp(w)
  BY <1>3, PermitReturned DEF CleanUp
<1>4. CASE Dequeue(w) \/ End(w) \/ ClearInterrupt(w)
  BY <1>4, GotoKeeps DEF Dequeue, End, ClearInterrupt
<1>5. CASE SlashCommand(w) \/ Offline(w)
  BY <1>5, GotoKeeps DEF SlashCommand, Offline, Dismiss
<1>6. CASE Route(w)
  <2>1. PICK p \in {"local", "remote"} : Goto(w, p)
    BY <1>6 DEF Route
  <2> QED BY <1>6, <2>1, GotoKeeps DEF Route
<1>7. CASE RemoteAnswer(w) \/ RemoteFallback(w) \/ StartLocal(w)
  BY <1>7, GotoKeeps DEF RemoteAnswer, RemoteFallback, StartLocal
<1>8. CASE AgentEnds(w)
  BY <1>8, GotoKeeps DEF AgentEnds, Succeed, Cancelled, Fail, Timeout, RunEnds
<1>9. CASE SetState(w)
  BY <1>9, GotoKeeps DEF SetState
<1> QED BY <1>1, <1>2, <1>3, <1>4, <1>5, <1>6, <1>7, <1>8, <1>9
        DEF Worker, WorkerStep, RemoteEnds

LEMMA PermitsNext == TypeInv /\ PermitsConserved /\ [Next]_vars => PermitsConserved'
<1> SUFFICES ASSUME TypeInv, PermitsConserved, [Next]_vars PROVE PermitsConserved'
  OBVIOUS
<1>1. ASSUME NEW w \in Workers, Worker(w) PROVE PermitsConserved'
  BY <1>1, PermitsWorker
<1>2. CASE Ensure
  <2>1. CASE FindWorker
    BY <1>2, <2>1, PermitsKept DEF Ensure, FindWorker, wVars, runVars
  <2>2. CASE CreateWorker
    <3>1. PICK w \in Workers : wpc[w] = "gone" /\ wpc' = [wpc EXCEPT ![w] = "recv"]
      BY <2>2 DEF CreateWorker, Free
    <3>2. \A v \in Workers : wpc'[v] \in Holding <=> wpc[v] \in Holding
      BY <3>1 DEF Holding, TypeInv, TypeOK
    <3>3. UNCHANGED permits
      BY <1>2 DEF Ensure, runVars
    <3> QED BY <3>2, <3>3, PermitsKept
  <2> QED BY <1>2, <2>1, <2>2 DEF Ensure
<1>3. CASE UNCHANGED <<permits, wpc>>
  BY <1>3, PermitsKept
<1>4. CASE Dispatcher /\ ~Ensure
  <2>1. UNCHANGED <<permits, wpc>>
    BY <1>4 DEF Dispatcher, Receive, Choose, Stop, Assign, Redispatch, RecvWake,
                RecvPush, RecvOverload, PickNext, PickNone, ActStop, ActBuffer,
                ActAssign, StopIdle, StopBusy, StopCancel, StopWrite, Send, SendFails,
                RemoveDead, Requeue, Mark, RedispLock, RedispPop, RedispSend,
                RedispEnd, wVars, runVars
  <2> QED BY <1>3, <2>1
<1>5. CASE Housekeeping
  <2>1. UNCHANGED <<permits, wpc>>
    BY <1>5 DEF Housekeeping, Tick, VisitResting, VisitBusy, Reap, AddWake, Flush,
                Sleep, wVars, runVars
  <2> QED BY <1>3, <2>1
<1>6. ASSUME NEW m \in Msgs, Arrive(m) PROVE PermitsConserved'
  BY <1>3, <1>6 DEF Arrive, wVars, runVars
<1>7. ASSUME NEW i \in icpt, Intercept(i) PROVE PermitsConserved'
  BY <1>3, <1>7 DEF Intercept, runVars
<1>8. CASE Elapse
  BY <1>3, <1>8 DEF Elapse, runVars
<1>9. CASE UNCHANGED vars
  BY <1>3, <1>9 DEF vars
<1> QED BY <1>1, <1>2, <1>4, <1>5, <1>6, <1>7, <1>8, <1>9 DEF Next

(* No run leaks a permit or gives one back twice, whichever way it ends.   *)
THEOREM PermitsConservedHolds == Spec => []PermitsConserved
BY TypeInit, TypeNext, PermitsInit, PermitsNext, PTL DEF Spec

(* Hence never more than max_concurrency requests hold a permit.           *)
THEOREM ConcurrencyBounded == Spec => [](Cardinality(Holders) <= MaxConcurrency)
<1>1. TypeInv /\ PermitsConserved => Cardinality(Holders) <= MaxConcurrency
  BY HoldersFinite, DispatchAssumption DEF TypeInv, TypeOK, PermitsConserved, Holders
<1> QED BY <1>1, TypeInit, TypeNext, PermitsInit, PermitsNext, PTL DEF Spec

-----------------------------------------------------------------------------
LEMMA BusyInit == Init => RunningIsBusy
BY DEF Init, RunningIsBusy

(* Writing other cells than the state changes nobody's busyness.           *)
LEMMA InterruptedState ==
  ASSUME cell \in [Workers -> Cells], NEW w \in Workers
  PROVE  \A v \in Workers : /\ Interrupted(w)[v].state = cell[v].state
                            /\ [Interrupted(w) EXCEPT ![w].quiet = FALSE][v].state
                                  = cell[v].state
                            /\ [cell EXCEPT ![w].quiet = FALSE][v].state = cell[v].state
BY DEF Interrupted, Cells

LEMMA BusyWorker ==
  ASSUME TypeInv, RunningIsBusy, NEW w \in Workers, Worker(w)
  PROVE  RunningIsBusy'
<1> USE DEF RunningIsBusy, Busy, Goto
<1>0. cell \in [Workers -> Cells] /\ wpc \in [Workers -> WorkerPlaces]
  BY DEF TypeInv, TypeOK
<1>1. CASE StartLocal(w)
  <2>1. cell'[w].state = "running"
    BY <1>0, <1>1 DEF StartLocal, Cells
  <2>2. \A v \in Workers \ {w} : cell'[v] = cell[v] /\ wpc'[v] = wpc[v]
    BY <1>0, <1>1 DEF StartLocal
  <2> QED BY <2>1, <2>2
<1>2. CASE /\ wpc'[w] # "exec"
           /\ \A v \in Workers \ {w} : cell'[v] = cell[v] /\ wpc'[v] = wpc[v]
  BY <1>2
<1>3. CASE Dequeue(w) \/ End(w) \/ ClearInterrupt(w) \/ SetState(w) \/ CleanUp(w)
  BY <1>0, <1>2, <1>3 DEF Dequeue, End, ClearInterrupt, SetState, CleanUp
<1>4. CASE SlashCommand(w) \/ Offline(w)
  BY <1>0, <1>2, <1>4 DEF SlashCommand, Offline, Dismiss
<1>5. CASE Route(w) \/ Acquire(w) \/ RemoteAnswer(w) \/ RemoteFallback(w)
  BY <1>0, <1>2, <1>5 DEF Route, Acquire, RemoteAnswer, RemoteFallback
<1>6. CASE AgentEnds(w)
  BY <1>0, <1>2, <1>6 DEF AgentEnds, Succeed, Cancelled, Fail, Timeout, RunEnds
<1>7. CASE Panic(w)
  BY <1>0, <1>2, <1>7 DEF Panic
<1> QED BY <1>1, <1>3, <1>4, <1>5, <1>6, <1>7 DEF Worker, WorkerStep, RemoteEnds

LEMMA BusyDispatcher == TypeInv /\ RunningIsBusy /\ Dispatcher => RunningIsBusy'
<1> SUFFICES ASSUME TypeInv, RunningIsBusy, Dispatcher PROVE RunningIsBusy'
  OBVIOUS
<1> USE DEF RunningIsBusy, Busy
<1>0. cell \in [Workers -> Cells] /\ wpc \in [Workers -> WorkerPlaces]
  BY DEF TypeInv, TypeOK
<1>1. CASE Ensure
  <2>1. CASE FindWorker
    BY <2>1 DEF FindWorker, wVars
  <2>2. CASE CreateWorker
    BY <1>0, <2>2 DEF CreateWorker
  <2> QED BY <1>1, <2>1, <2>2 DEF Ensure
<1>2. CASE UNCHANGED wpc /\ \A v \in Workers : cell'[v].state = cell[v].state
  BY <1>2
<1>3. CASE ActStop \/ ActBuffer \/ ActAssign \/ StopCancel
  <2>1. dworker \in Workers /\ UNCHANGED wpc
    BY <1>3 DEF ActStop, ActBuffer, ActAssign, StopCancel, TypeInv, HandsFull
  <2>2. \/ cell' \in {cell, Interrupted(dworker)}
        \/ cell' \in {[cell EXCEPT ![dworker].quiet = FALSE],
                      [Interrupted(dworker) EXCEPT ![dworker].quiet = FALSE]}
    BY <1>3 DEF ActStop, ActBuffer, ActAssign, StopCancel, Preempted
  <2>3. \A v \in Workers : cell'[v].state = cell[v].state
    <3>1. \A v \in Workers :
            /\ Interrupted(dworker)[v].state = cell[v].state
            /\ [Interrupted(dworker) EXCEPT ![dworker].quiet = FALSE][v].state
                 = cell[v].state
            /\ [cell EXCEPT ![dworker].quiet = FALSE][v].state = cell[v].state
      BY <1>0, <2>1, InterruptedState
    <3> QED BY ONLY <2>2, <3>1
  <2> QED BY <1>2, <2>1, <2>3
<1>4. CASE StopWrite
  <2>1. dworker \in Workers /\ UNCHANGED wpc
    BY <1>4 DEF StopWrite, TypeInv, HandsFull
  <2>2. /\ cell'[dworker].state = "cancelling"
        /\ \A v \in Workers \ {dworker} : cell'[v] = cell[v]
    BY <1>0, <1>4, <2>1 DEF StopWrite, Cells
  <2> QED BY <2>1, <2>2
<1>5. CASE UNCHANGED <<cell, wpc>>
  BY <1>5
<1>6. CASE Receive \/ PickNext \/ PickNone \/ StopIdle \/ StopBusy \/ Assign \/ Redispatch
  <2>1. UNCHANGED <<cell, wpc>>
    BY <1>6 DEF Receive, Assign, Redispatch, RecvWake, RecvPush, RecvOverload,
                PickNext, PickNone, StopIdle, StopBusy, Send, SendFails, RemoveDead,
                Requeue, Mark, RedispLock, RedispPop, RedispSend, RedispEnd, wVars
  <2> QED BY <1>5, <2>1
<1> QED BY <1>1, <1>3, <1>4, <1>6 DEF Dispatcher, Choose, Stop

LEMMA BusyNext == TypeInv /\ RunningIsBusy /\ [Next]_vars => RunningIsBusy'
<1> SUFFICES ASSUME TypeInv, RunningIsBusy, [Next]_vars PROVE RunningIsBusy'
  OBVIOUS
<1>0. cell \in [Workers -> Cells]
  BY DEF TypeInv, TypeOK
<1>1. CASE Dispatcher
  BY <1>1, BusyDispatcher
<1>2. CASE UNCHANGED wpc /\ \A v \in Workers : cell'[v].state = cell[v].state
  BY <1>2 DEF RunningIsBusy, Busy
<1>3. CASE Housekeeping
  <2>1. UNCHANGED <<cell, wpc>>
    BY <1>3 DEF Housekeeping, Tick, VisitResting, VisitBusy, Reap, AddWake, Flush,
                Sleep, wVars
  <2> QED BY <1>2, <2>1
<1>4. ASSUME NEW w \in Workers, Worker(w) PROVE RunningIsBusy'
  BY <1>4, BusyWorker
<1>5. ASSUME NEW m \in Msgs, Arrive(m) PROVE RunningIsBusy'
  BY <1>2, <1>5 DEF Arrive, wVars
<1>6. ASSUME NEW i \in icpt, Intercept(i) PROVE RunningIsBusy'
  <2>1. i.worker \in Workers
    BY DEF TypeInv, TypeOK
  <2>2. cell' = cell \/ cell' = Interrupted(i.worker)
    BY <1>6 DEF Intercept
  <2>3. \A v \in Workers : cell'[v].state = cell[v].state
    BY <1>0, <2>1, <2>2, InterruptedState
  <2> QED BY <1>2, <1>6, <2>3 DEF Intercept
<1>7. CASE Elapse
  <2>1. \A v \in Workers : cell'[v].state = cell[v].state
    BY <1>0, <1>7 DEF Elapse, Cells
  <2> QED BY <1>2, <1>7, <2>1 DEF Elapse
<1>8. CASE UNCHANGED vars
  BY <1>2, <1>8 DEF vars
<1> QED BY <1>1, <1>3, <1>4, <1>5, <1>6, <1>7, <1>8 DEF Next

(* While the agent runs locally the slot's state says Running or           *)
(* Cancelling, so a local run is never reaped and its chat's messages are  *)
(* buffered, whatever /stop, housekeeping and interceptors do.             *)
THEOREM RunningIsBusyHolds == Spec => []RunningIsBusy
BY TypeInit, TypeNext, BusyInit, BusyNext, PTL DEF Spec

-----------------------------------------------------------------------------
(* Counting.                                                               *)
Is(x, m) == IF x = m THEN 1 ELSE 0

LEMMA IsCount == \A x, m : Is(x, m) \in 0 .. 1 /\ (Is(x, m) = 1 <=> x = m)
BY DEF Is

LEMMA OccursFinite ==
  ASSUME NEW S, NEW seq \in Seq(S), NEW m
  PROVE  /\ IsFiniteSet({i \in DOMAIN seq : seq[i] = m})
         /\ Occurs(m, seq) \in Nat
         /\ Occurs(m, seq) = 0 <=> \A i \in DOMAIN seq : seq[i] # m
<1> DEFINE where == {i \in DOMAIN seq : seq[i] = m}
<1>1. DOMAIN seq = 1 .. Len(seq) /\ Len(seq) \in Nat
  OBVIOUS
<1>2. IsFiniteSet(DOMAIN seq)
  BY <1>1, FS_Interval
<1>3. IsFiniteSet(where)
  BY <1>2, FS_Subset
<1>4. Cardinality(where) \in Nat /\ (Cardinality(where) = 0 <=> where = {})
  BY <1>3, FS_CardinalityType, FS_EmptySet
<1>5. Occurs(m, seq) = Cardinality(where)
  BY DEF Occurs
<1> QED BY <1>3, <1>4, <1>5

(* f and g say where in seq each element of rest comes from and where each *)
(* element of seq, but the one at place n, is in rest.                     *)
Matches(seq, rest, n, f, g) ==
    /\ n \in DOMAIN seq
    /\ f \in [DOMAIN rest -> DOMAIN seq \ {n}]
    /\ g \in [DOMAIN seq \ {n} -> DOMAIN rest]
    /\ \A k \in DOMAIN rest : g[f[k]] = k /\ rest[k] = seq[f[k]]
    /\ \A j \in DOMAIN seq \ {n} : f[g[j]] = j

(* A sequence that has every element of another but one has one occurrence *)
(* less of that element and as many of every other.                        *)
LEMMA OccursWithout ==
  ASSUME NEW S, NEW seq \in Seq(S), NEW rest \in Seq(S), NEW n, NEW f, NEW g,
         Matches(seq, rest, n, f, g), NEW m
  PROVE  Occurs(m, seq) = Occurs(m, rest) + Is(seq[n], m)
<1> DEFINE A == {i \in DOMAIN rest : rest[i] = m}
           B == {i \in DOMAIN seq \ {n} : seq[i] = m}
           C == {i \in DOMAIN seq : seq[i] = m}
           h == [i \in A |-> f[i]]
<1>0. n \in DOMAIN seq
  BY DEF Matches
<1>1. h \in [A -> B]
  BY DEF Matches
<1>2. \A k, l \in A : h[k] = h[l] => k = l
  BY DEF Matches
<1>3. \A j \in B : \E k \in A : h[k] = j
  <2> SUFFICES ASSUME NEW j \in B PROVE \E k \in A : h[k] = j
    OBVIOUS
  <2>1. g[j] \in A /\ h[g[j]] = j
    BY DEF Matches
  <2> QED BY <2>1
<1>4. ExistsBijection(A, B)
  <2>1. h \in Bijection(A, B)
    BY <1>1, <1>2, <1>3 DEF Bijection, Injection, Surjection, IsInjective
  <2> QED BY <2>1 DEF ExistsBijection
<1>5. Occurs(m, rest) = Cardinality(A) /\ Occurs(m, seq) = Cardinality(C)
  BY DEF Occurs
<1>6. IsFiniteSet(A)
  BY OccursFinite
<1>7. IsFiniteSet(B) /\ Cardinality(B) = Cardinality(A) /\ Cardinality(B) \in Nat
  BY <1>4, <1>6, FS_Bijection, FS_CardinalityType
<1>8. CASE seq[n] = m
  <2>1. C = B \cup {n} /\ n \notin B
    BY <1>0, <1>8
  <2> HIDE DEF A, B, C
  <2>2. Cardinality(C) = Cardinality(B) + 1
    BY <1>7, <2>1, FS_AddElement
  <2> QED BY <1>5, <1>7, <1>8, <2>2 DEF Is
<1>9. CASE seq[n] # m
  <2>1. C = B
    BY <1>9
  <2> HIDE DEF A, B, C
  <2> QED BY <1>5, <1>7, <1>9, <2>1 DEF Is
<1> QED BY <1>8, <1>9

LEMMA OccursEmpty == \A m : Occurs(m, <<>>) = 0
<1> SUFFICES ASSUME NEW m PROVE Occurs(m, <<>>) = 0
  OBVIOUS
<1>1. {i \in DOMAIN <<>> : <<>>[i] = m} = {}
  OBVIOUS
<1> QED BY <1>1, FS_EmptySet DEF Occurs

LEMMA OccursAppend ==
  ASSUME NEW S, NEW seq \in Seq(S), NEW x \in S, NEW m
  PROVE  Occurs(m, Append(seq, x)) = Occurs(m, seq) + Is(x, m)
<1> DEFINE long == Append(seq, x)
           n == Len(seq) + 1
           f == [k \in 1 .. Len(seq) |-> k]
<1>1. Len(seq) \in Nat /\ DOMAIN seq = 1 .. Len(seq)
  OBVIOUS
<1>2. /\ long \in Seq(S) /\ DOMAIN long = 1 .. n
      /\ long[n] = x /\ \A k \in 1 .. Len(seq) : long[k] = seq[k]
  OBVIOUS
<1> HIDE DEF long
<1>3. n \in DOMAIN long /\ DOMAIN long \ {n} = 1 .. Len(seq)
  BY <1>1, <1>2
<1>4. /\ f \in [DOMAIN seq -> DOMAIN long \ {n}]
      /\ f \in [DOMAIN long \ {n} -> DOMAIN seq]
  BY <1>1, <1>3
<1>5. Matches(long, seq, n, f, f)
  BY <1>1, <1>2, <1>3, <1>4 DEF Matches
<1>6. Occurs(m, long) = Occurs(m, seq) + Is(long[n], m)
  BY <1>2, <1>5, OccursWithout
<1> QED BY <1>2, <1>6 DEF long

LEMMA OccursTail ==
  ASSUME NEW S, NEW seq \in Seq(S), seq # <<>>, NEW m
  PROVE  Occurs(m, seq) = Occurs(m, Tail(seq)) + Is(Head(seq), m)
<1> DEFINE rest == Tail(seq)
           f == [k \in 1 .. (Len(seq) - 1) |-> k + 1]
           g == [j \in 2 .. Len(seq) |-> j - 1]
<1>1. Len(seq) \in Nat \ {0} /\ DOMAIN seq = 1 .. Len(seq) /\ Head(seq) = seq[1]
  OBVIOUS
<1>2. /\ rest \in Seq(S) /\ DOMAIN rest = 1 .. (Len(seq) - 1)
      /\ \A k \in 1 .. (Len(seq) - 1) : rest[k] = seq[k + 1]
  OBVIOUS
<1> HIDE DEF rest
<1>3. 1 \in DOMAIN seq /\ DOMAIN seq \ {1} = 2 .. Len(seq)
  BY <1>1
<1>4. f \in [DOMAIN rest -> DOMAIN seq \ {1}]
  BY <1>1, <1>2, <1>3
<1>5. g \in [DOMAIN seq \ {1} -> DOMAIN rest]
  BY <1>1, <1>2, <1>3
<1>6. \A k \in DOMAIN rest : g[f[k]] = k /\ rest[k] = seq[f[k]]
  BY <1>1, <1>2
<1>7. \A j \in DOMAIN seq \ {1} : f[g[j]] = j
  BY <1>1, <1>3
<1> HIDE DEF f, g
<1>8. Matches(seq, rest, 1, f, g)
  BY <1>3, <1>4, <1>5, <1>6, <1>7 DEF Matches
<1>9. Occurs(m, seq) = Occurs(m, rest) + Is(seq[1], m)
  BY <1>2, <1>8, OccursWithout
<1> QED BY <1>1, <1>9 DEF rest

(* next() takes one occurrence of the message out of the run queue.        *)
LEMMA OccursRotated ==
  ASSUME queue \in Seq(Msgs), NEW i \in DOMAIN queue, NEW m
  PROVE  Occurs(m, queue) = Occurs(m, RotatedPast(i)) + Is(queue[i], m)
<1> DEFINE n == Len(queue)
           rest == RotatedPast(i)
           f == [k \in 1 .. (n - 1) |-> IF k <= n - i THEN i + k ELSE k - (n - i)]
           g == [j \in (1 .. n) \ {i} |-> IF j > i THEN j - i ELSE j + (n - i)]
<1>1. n \in Nat /\ DOMAIN queue = 1 .. n /\ i \in 1 .. n
  OBVIOUS
<1>2. /\ rest \in Seq(Msgs) /\ Len(rest) = n - 1
      /\ \A k \in 1 .. (n - 1) :
            rest[k] = IF k <= n - i THEN queue[i + k] ELSE queue[k - (n - i)]
  BY RotatedPastShape
<1>3. DOMAIN rest = 1 .. (n - 1)
  BY <1>2
<1> HIDE DEF n, rest
<1>4. f \in [DOMAIN rest -> DOMAIN queue \ {i}]
  BY <1>1, <1>3
<1>5. g \in [DOMAIN queue \ {i} -> DOMAIN rest]
  BY <1>1, <1>3
<1>6. \A k \in DOMAIN rest : g[f[k]] = k /\ rest[k] = queue[f[k]]
  BY <1>1, <1>2, <1>3
<1>7. \A j \in DOMAIN queue \ {i} : f[g[j]] = j
  BY <1>1, <1>3
<1> HIDE DEF f, g
<1>8. Matches(queue, rest, i, f, g)
  BY <1>1, <1>4, <1>5, <1>6, <1>7 DEF Matches
<1>9. Occurs(m, queue) = Occurs(m, rest) + Is(queue[i], m)
  BY <1>2, <1>8, OccursWithout
<1> QED BY <1>9 DEF rest

-----------------------------------------------------------------------------
(* Who holds what.  The slots lock keeps a chat's entry in place between   *)
(* ensure_worker and the buffering of the message, and during redispatch   *)
(* and the housekeeping scan; a task that waits has nothing in its hands;  *)
(* nothing is buffered for a chat without an entry, and only its own       *)
(* messages for a chat with one; a channel without a reader is empty; a    *)
(* slot that is to be reaped buffers nothing.                              *)
LockHeld ==
    /\ hpc = "scan" <=> lock = "housekeeping"
    /\ dpc \in {"act", "requeue", "redisp", "redispSend"} <=> lock = "dispatcher"
    /\ dpc = "act" => slot[ChatOf[dmsg]] = dworker

HandsEmpty ==
    /\ dpc \in {"recv", "pick"} => dmsg = None
    /\ hpc = "sleep" => hbuf = <<>>
    /\ \A w \in Workers : wpc[w] \in {"gone", "recv"} => wmsg[w] = None

BuffersOwn ==
    \A c \in Chats :
        /\ slot[c] = None => pending[c] = <<>>
        /\ Len(pending[c]) <= MaxPending
        /\ \A i \in DOMAIN pending[c] : ChatOf[pending[c][i]] = c
        /\ hpc = "scan" /\ c \in hreap => pending[c] = <<>>

ChannelsRead ==
    \A w \in Workers : /\ Len(chan[w]) <= ChanCap
                       /\ wpc[w] = "gone" => chan[w] = <<>>

SlotInv == LockHeld /\ HandsEmpty /\ BuffersOwn /\ ChannelsRead

LEMMA TailOwn ==
  ASSUME NEW c, NEW seq \in Seq(Msgs), seq # <<>>, \A i \in DOMAIN seq : ChatOf[seq[i]] = c
  PROVE  /\ Len(Tail(seq)) = Len(seq) - 1
         /\ \A i \in DOMAIN Tail(seq) : ChatOf[Tail(seq)[i]] = c
<1>1. /\ Len(Tail(seq)) = Len(seq) - 1 /\ Len(seq) \in Nat /\ DOMAIN seq = 1 .. Len(seq)
      /\ DOMAIN Tail(seq) = 1 .. (Len(seq) - 1)
  OBVIOUS
<1>2. \A i \in DOMAIN Tail(seq) : i + 1 \in DOMAIN seq /\ Tail(seq)[i] = seq[i + 1]
  BY <1>1
<1> QED BY <1>1, <1>2

LEMMA AppendOwn ==
  ASSUME NEW seq \in Seq(Msgs), NEW m \in Msgs,
         \A i \in DOMAIN seq : ChatOf[seq[i]] = ChatOf[m]
  PROVE  /\ Len(Append(seq, m)) = Len(seq) + 1
         /\ \A i \in DOMAIN Append(seq, m) : ChatOf[Append(seq, m)[i]] = ChatOf[m]
<1>1. /\ Len(Append(seq, m)) = Len(seq) + 1 /\ Len(seq) \in Nat
      /\ DOMAIN Append(seq, m) = 1 .. (Len(seq) + 1) /\ DOMAIN seq = 1 .. Len(seq)
  OBVIOUS
<1>2. \A i \in 1 .. (Len(seq) + 1) :
        Append(seq, m)[i] = IF i = Len(seq) + 1 THEN m ELSE seq[i]
  OBVIOUS
<1>3. \A i \in 1 .. (Len(seq) + 1) : i = Len(seq) + 1 \/ i \in DOMAIN seq
  BY <1>1
<1> QED BY <1>1, <1>2, <1>3

LEMMA SlotInit == Init => SlotInv
<1> SUFFICES ASSUME Init PROVE SlotInv
  OBVIOUS
<1>1. LockHeld
  BY DEF Init, LockHeld
<1>2. HandsEmpty
  BY DEF Init, HandsEmpty
<1>3. \A c \in Chats : pending[c] = <<>> /\ slot[c] = None
  BY DEF Init
<1>4. \A w \in Workers : chan[w] = <<>>
  BY DEF Init
<1>5. Len(<<>>) = 0 /\ DOMAIN <<>> = {} /\ 0 <= MaxPending /\ 0 <= ChanCap
  BY DispatchAssumption
<1>6. BuffersOwn
  <2>1. \A c \in Chats : /\ Len(pending[c]) <= MaxPending
                         /\ \A i \in DOMAIN pending[c] : ChatOf[pending[c][i]] = c
    BY ZenonT(20), <1>3, <1>5
  <2> QED BY <1>3, <2>1 DEF BuffersOwn
<1>7. ChannelsRead
  <2>1. \A w \in Workers : Len(chan[w]) <= ChanCap
    BY ZenonT(20), <1>4, <1>5
  <2> QED BY <1>4, <2>1 DEF ChannelsRead
<1> QED BY <1>1, <1>2, <1>6, <1>7 DEF SlotInv

LEMMA SlotDispatcher == TypeInv /\ SlotInv /\ Dispatcher => SlotInv'
<1> SUFFICES ASSUME TypeInv, SlotInv, Dispatcher PROVE SlotInv'
  OBVIOUS
<1> USE DEF schedVars, inVars, dVars, hVars, slotVars, wVars, runVars, endVars
<1>1. CASE /\ UNCHANGED <<slot, pending, chan, wpc, wmsg, hpc, hreap, hbuf, lock>>
           /\ dpc' \notin {"act", "requeue", "redisp", "redispSend"}
           /\ dpc \notin {"act", "requeue", "redisp", "redispSend"}
           /\ dpc' \in {"recv", "pick"} => dmsg' = None
  BY <1>1 DEF SlotInv, LockHeld, HandsEmpty, BuffersOwn, ChannelsRead
<1>2. CASE Receive \/ PickNext \/ PickNone
  BY <1>1, <1>2 DEF Receive, RecvWake, RecvPush, RecvOverload, PickNext, PickNone,
                    SlotInv, HandsEmpty
<1>3. CASE StopIdle \/ StopBusy \/ StopCancel \/ StopWrite
  BY <1>1, <1>3 DEF StopIdle, StopBusy, StopCancel, StopWrite
<1>4. CASE SendFails \/ Mark
  BY <1>1, <1>4 DEF SendFails, Mark
<1>5. CASE FindWorker /\ Ensure
  BY <1>5 DEF FindWorker, Ensure, SlotInv, LockHeld, HandsEmpty, BuffersOwn, ChannelsRead
<1>6. CASE CreateWorker /\ Ensure
  <2> DEFINE c == ChatOf[dmsg]
  <2>1. c \in Chats
    BY <1>6, SchedulerAssumption DEF Ensure, TypeInv, HandsFull
  <2>2. PICK w \in Workers :
          /\ wpc[w] = "gone"
          /\ slot' = [slot EXCEPT ![c] = w] /\ pending' = [pending EXCEPT ![c] = <<>>]
          /\ chan' = [chan EXCEPT ![w] = <<>>] /\ wpc' = [wpc EXCEPT ![w] = "recv"]
          /\ dworker' = w
    BY <1>6 DEF CreateWorker, Free
  <2>3. /\ UNCHANGED <<dmsg, wmsg, hpc, hreap, hbuf>> /\ dpc' = "act"
        /\ lock' = "dispatcher" /\ lock = "free"
    BY <1>6 DEF CreateWorker, Ensure
  <2> HIDE DEF c
  <2>4. /\ slot \in [Chats -> Workers \cup {None}] /\ pending \in [Chats -> Seq(Msgs)]
        /\ chan \in [Workers -> Seq(Msgs)] /\ wpc \in [Workers -> WorkerPlaces]
        /\ w # None
    BY DispatchAssumption DEF TypeInv, TypeOK
  <2>5. LockHeld'
    BY <2>1, <2>2, <2>3, <2>4 DEF SlotInv, LockHeld, c
  <2>6. HandsEmpty'
    BY <2>2, <2>3, <2>4 DEF SlotInv, HandsEmpty
  <2>7. Len(<<>>) = 0 /\ DOMAIN <<>> = {}
    OBVIOUS
  <2>8. \A d \in Chats : IF d = c THEN slot'[d] = w /\ pending'[d] = <<>>
                         ELSE slot'[d] = slot[d] /\ pending'[d] = pending[d]
    BY <2>1, <2>2, <2>4
  <2>9. BuffersOwn'
    BY <2>3, <2>4, <2>7, <2>8, DispatchAssumption DEF SlotInv, BuffersOwn
  <2>10. ChannelsRead'
    BY <2>2, <2>4, <2>7, DispatchAssumption DEF SlotInv, ChannelsRead
  <2> QED BY <2>5, <2>6, <2>9, <2>10 DEF SlotInv
<1>7. CASE ActStop \/ ActAssign
  BY <1>7 DEF ActStop, ActAssign, SlotInv, LockHeld, HandsEmpty, BuffersOwn, ChannelsRead
<1>8. CASE ActBuffer
  <2> DEFINE c == ChatOf[dmsg]
             full == Len(pending[c]) >= MaxPending
             kept == IF full THEN Tail(pending[c]) ELSE pending[c]
  <2>1. c \in Chats /\ dmsg \in Msgs /\ dworker \in Workers
    BY <1>8, SchedulerAssumption DEF ActBuffer, TypeInv, HandsFull
  <2>2. pending \in [Chats -> Seq(Msgs)] /\ pending[c] \in Seq(Msgs) /\ MaxPending \in Nat \ {0}
    BY <2>1, DispatchAssumption DEF TypeInv, TypeOK
  <2>3. Len(pending[c]) <= MaxPending /\ \A i \in DOMAIN pending[c] : ChatOf[pending[c][i]] = c
    BY <2>1 DEF SlotInv, BuffersOwn
  <2>4. pending' = [pending EXCEPT ![c] = Append(kept, dmsg)]
    BY <1>8 DEF ActBuffer
  <2>5. /\ UNCHANGED <<slot, chan, wpc, wmsg, hpc, hreap, hbuf>>
        /\ dpc = "act" /\ dpc' = "pick" /\ dmsg' = None /\ lock' = "free"
    BY <1>8 DEF ActBuffer
  <2>6. /\ kept \in Seq(Msgs) /\ Len(kept) < MaxPending
        /\ \A i \in DOMAIN kept : ChatOf[kept[i]] = c
    <3>1. CASE full
      <4>1. pending[c] # <<>>
        BY <2>2, <3>1
      <4>2. kept = Tail(pending[c]) /\ Len(pending[c]) \in Nat
        BY <2>2, <3>1
      <4> QED BY <2>2, <2>3, <4>1, <4>2, TailOwn, SeqParts
    <3>2. CASE ~full
      <4>1. Len(pending[c]) \in Nat
        BY <2>2
      <4> QED BY <2>2, <2>3, <3>2, <4>1
    <3> QED BY <3>1, <3>2
  <2> HIDE DEF kept, full
  <2>7. /\ Len(Append(kept, dmsg)) <= MaxPending
        /\ \A i \in DOMAIN Append(kept, dmsg) : ChatOf[Append(kept, dmsg)[i]] = c
    <3>1. Len(Append(kept, dmsg)) = Len(kept) + 1 /\ Len(kept) \in Nat
      BY <2>1, <2>6
    <3> QED BY <2>1, <2>2, <2>6, <3>1, AppendOwn DEF c
  <2>8. slot[c] # None /\ hpc # "scan"
    BY <2>1, <2>5, DispatchAssumption DEF SlotInv, LockHeld, c
  <2> HIDE DEF c
  <2>9. \A d \in Chats : pending'[d] = IF d = c THEN Append(kept, dmsg) ELSE pending[d]
    BY <2>1, <2>2, <2>4
  <2>10. BuffersOwn'
    BY <2>1, <2>5, <2>7, <2>8, <2>9 DEF SlotInv, BuffersOwn
  <2>11. LockHeld' /\ HandsEmpty' /\ ChannelsRead'
    BY <2>5 DEF SlotInv, LockHeld, HandsEmpty, ChannelsRead
  <2> QED BY <2>10, <2>11 DEF SlotInv
<1>9. CASE Send
  <2>1. dworker \in Workers /\ dmsg \in Msgs /\ chan[dworker] \in Seq(Msgs)
    BY <1>9 DEF Send, TypeInv, TypeOK, HandsFull
  <2>2. Len(Append(chan[dworker], dmsg)) <= ChanCap
    <3>1. Len(Append(chan[dworker], dmsg)) = Len(chan[dworker]) + 1
      BY <2>1
    <3>2. Len(chan[dworker]) < ChanCap
      BY <1>9 DEF Send, SendRoom
    <3>3. Len(chan[dworker]) \in Nat /\ ChanCap \in Nat
      BY <2>1, DispatchAssumption
    <3> QED BY <3>1, <3>2, <3>3
  <2>3. /\ wpc[dworker] # "gone" /\ UNCHANGED <<wpc, slot, pending, hpc, hreap, hbuf, lock, wmsg, dmsg>>
        /\ dpc = "send" /\ dpc' = "mark"
        /\ chan' = [chan EXCEPT ![dworker] = Append(@, dmsg)]
    BY <1>9 DEF Send
  <2>4. ChannelsRead'
    BY <2>1, <2>2, <2>3 DEF SlotInv, ChannelsRead, TypeInv, TypeOK
  <2>5. LockHeld' /\ HandsEmpty' /\ BuffersOwn'
    BY <2>3 DEF SlotInv, LockHeld, HandsEmpty, BuffersOwn
  <2> QED BY <2>4, <2>5 DEF SlotInv
<1>10. CASE RemoveDead
  <2> DEFINE c == ChatOf[dmsg]
  <2>1. /\ slot' = [slot EXCEPT ![c] = None] /\ pending' = [pending EXCEPT ![c] = <<>>]
        /\ UNCHANGED <<wpc, chan, hpc, hreap, hbuf, wmsg, dmsg>>
        /\ dpc' = "requeue" /\ lock = "free" /\ lock' = "dispatcher"
    BY <1>10 DEF RemoveDead
  <2> HIDE DEF c
  <2>2. Len(<<>>) = 0 /\ DOMAIN <<>> = {}
    OBVIOUS
  <2>3. \A d \in Chats : IF d = c THEN pending'[d] = <<>>
                         ELSE pending'[d] = pending[d] /\ slot'[d] = slot[d]
    BY <2>1 DEF TypeInv, TypeOK
  <2>4. BuffersOwn'
    BY <2>1, <2>2, <2>3, DispatchAssumption DEF SlotInv, BuffersOwn
  <2>5. LockHeld' /\ HandsEmpty' /\ ChannelsRead'
    BY <2>1 DEF SlotInv, LockHeld, HandsEmpty, ChannelsRead
  <2> QED BY <2>4, <2>5 DEF SlotInv
<1>11. CASE Requeue \/ RedispLock \/ RedispSend \/ RedispEnd
  BY <1>11 DEF Requeue, RedispLock, RedispSend, RedispEnd, SlotInv, LockHeld, HandsEmpty,
               BuffersOwn, ChannelsRead
<1>12. CASE RedispPop
  <2> DEFINE c == ChatOf[dmsg]
  <2>1. c \in Chats /\ pending \in [Chats -> Seq(Msgs)] /\ pending[c] \in Seq(Msgs)
    BY <1>12, SchedulerAssumption DEF RedispPop, TypeInv, TypeOK, HandsFull
  <2>2. /\ pending[c] # <<>> /\ pending' = [pending EXCEPT ![c] = Tail(@)]
        /\ UNCHANGED <<slot, wpc, chan, hpc, hreap, hbuf, wmsg, lock>>
        /\ dpc = "redisp" /\ dpc' = "redispSend"
    BY <1>12 DEF RedispPop, MayRedispatch
  <2> HIDE DEF c
  <2>3. /\ Len(pending[c]) <= MaxPending /\ \A i \in DOMAIN pending[c] : ChatOf[pending[c][i]] = c
        /\ slot[c] # None /\ hpc # "scan"
    BY <2>1, <2>2 DEF SlotInv, BuffersOwn, LockHeld
  <2>4. /\ Len(Tail(pending[c])) <= MaxPending
        /\ \A i \in DOMAIN Tail(pending[c]) : ChatOf[Tail(pending[c])[i]] = c
    <3>1. Len(pending[c]) \in Nat /\ MaxPending \in Nat
      BY <2>1, DispatchAssumption
    <3> QED BY <2>1, <2>2, <2>3, <3>1, TailOwn
  <2>5. \A d \in Chats : pending'[d] = IF d = c THEN Tail(pending[c]) ELSE pending[d]
    BY <2>1, <2>2
  <2>6. BuffersOwn'
    BY <2>2, <2>3, <2>4, <2>5 DEF SlotInv, BuffersOwn
  <2>7. LockHeld' /\ HandsEmpty' /\ ChannelsRead'
    BY <2>2 DEF SlotInv, LockHeld, HandsEmpty, ChannelsRead
  <2> QED BY <2>6, <2>7 DEF SlotInv
<1> QED
  BY <1>2, <1>3, <1>4, <1>5, <1>6, <1>7, <1>8, <1>9, <1>10, <1>11, <1>12
  DEF Dispatcher, Receive, Choose, Stop, Assign, Redispatch, Ensure

LEMMA SlotHousekeeping == TypeInv /\ SlotInv /\ Housekeeping => SlotInv'
<1> SUFFICES ASSUME TypeInv, SlotInv, Housekeeping PROVE SlotInv'
  OBVIOUS
<1> USE DEF schedVars, inVars, dVars, hVars, slotVars, wVars, runVars, endVars
<1>1. CASE Tick
  BY <1>1 DEF Tick, SlotInv, LockHeld, HandsEmpty, BuffersOwn, ChannelsRead
<1>2. CASE AddWake \/ Flush \/ Sleep
  BY <1>2 DEF AddWake, Flush, Sleep, SlotInv, LockHeld, HandsEmpty, BuffersOwn, ChannelsRead
<1>3. ASSUME NEW c \in Chats, VisitBusy(c) PROVE SlotInv'
  BY <1>3 DEF VisitBusy, SlotInv, LockHeld, HandsEmpty, BuffersOwn, ChannelsRead
<1>4. ASSUME NEW c \in Chats, VisitResting(c), pending[c] = <<>> PROVE SlotInv'
  <2>1. /\ UNCHANGED <<slot, pending, chan, wpc, wmsg, hpc, lock, dpc, dmsg, dworker, hbuf>>
        /\ hpc = "scan" /\ hreap' \in {hreap, hreap \cup {c}}
    BY <1>4 DEF VisitResting
  <2>2. BuffersOwn'
    BY <1>4, <2>1 DEF SlotInv, BuffersOwn
  <2>3. LockHeld' /\ HandsEmpty' /\ ChannelsRead'
    BY <2>1 DEF SlotInv, LockHeld, HandsEmpty, ChannelsRead
  <2> QED BY <2>2, <2>3 DEF SlotInv
<1>5. ASSUME NEW c \in Chats, VisitResting(c), pending[c] # <<>> PROVE SlotInv'
  <2>1. /\ UNCHANGED <<slot, chan, wpc, wmsg, hpc, lock, dpc, dmsg, dworker, hreap>>
        /\ hpc = "scan" /\ pending' = [pending EXCEPT ![c] = Tail(@)]
    BY <1>5 DEF VisitResting
  <2>2. pending \in [Chats -> Seq(Msgs)] /\ pending[c] \in Seq(Msgs)
    BY DEF TypeInv, TypeOK
  <2>3. /\ Len(pending[c]) <= MaxPending /\ \A i \in DOMAIN pending[c] : ChatOf[pending[c][i]] = c
        /\ slot[c] # None /\ c \notin hreap
    BY <1>5, <2>1 DEF SlotInv, BuffersOwn
  <2>4. /\ Len(Tail(pending[c])) <= MaxPending
        /\ \A i \in DOMAIN Tail(pending[c]) : ChatOf[Tail(pending[c])[i]] = c
    <3>1. Len(pending[c]) \in Nat /\ MaxPending \in Nat
      BY <2>2, DispatchAssumption
    <3> QED BY <1>5, <2>2, <2>3, <3>1, TailOwn
  <2>5. \A d \in Chats : pending'[d] = IF d = c THEN Tail(pending[c]) ELSE pending[d]
    BY <2>1, <2>2
  <2>6. BuffersOwn'
    BY <2>1, <2>3, <2>4, <2>5 DEF SlotInv, BuffersOwn
  <2>7. LockHeld' /\ HandsEmpty' /\ ChannelsRead'
    BY <2>1 DEF SlotInv, LockHeld, HandsEmpty, ChannelsRead
  <2> QED BY <2>6, <2>7 DEF SlotInv
<1>6. CASE Reap
  <2>1. /\ slot' = [c \in Chats |-> IF c \in hreap THEN None ELSE slot[c]]
        /\ pending' = [c \in Chats |-> IF c \in hreap THEN <<>> ELSE pending[c]]
        /\ UNCHANGED <<chan, wpc, wmsg, dpc, dmsg, dworker, hbuf>>
        /\ hpc = "scan" /\ hpc' = "wake" /\ lock' = "free"
    BY <1>6 DEF Reap
  <2>2. Len(<<>>) = 0 /\ DOMAIN <<>> = {} /\ 0 <= MaxPending
    BY DispatchAssumption
  <2>3. \A c \in Chats : \/ pending'[c] = <<>>
                         \/ pending'[c] = pending[c] /\ slot'[c] = slot[c]
    BY <2>1
  <2>4. BuffersOwn'
    BY <2>1, <2>2, <2>3 DEF SlotInv, BuffersOwn
  <2>5. LockHeld' /\ HandsEmpty' /\ ChannelsRead'
    BY <2>1 DEF SlotInv, LockHeld, HandsEmpty, ChannelsRead
  <2> QED BY <2>4, <2>5 DEF SlotInv
<1> QED BY <1>1, <1>2, <1>3, <1>4, <1>5, <1>6 DEF Housekeeping

(* What a worker does leaves the slots, the buffers and the other tasks    *)
(* alone, and its channel no longer than it was.                           *)
LEMMA SlotWorker ==
  ASSUME TypeInv, SlotInv, NEW w \in Workers, Worker(w)
  PROVE  SlotInv'
<1> USE DEF schedVars, inVars, dVars, hVars, slotVars, wVars, runVars, endVars, Goto
<1>0. /\ chan \in [Workers -> Seq(Msgs)] /\ wpc \in [Workers -> WorkerPlaces]
      /\ wmsg \in [Workers -> Msgs \cup {None}]
  BY DEF TypeInv, TypeOK
<1>1. UNCHANGED <<slot, pending, hpc, hreap, hbuf, lock, dpc, dmsg, dworker>>
  BY DEF Worker, WorkerStep, RemoteEnds, AgentEnds, Dequeue, End, SlashCommand,
         Offline, Dismiss, ClearInterrupt, Acquire, Route, RemoteAnswer,
         RemoteFallback, StartLocal, Succeed, Cancelled, Fail, Timeout, RunEnds,
         Panic, SetState, CleanUp
<1>2. LockHeld' /\ BuffersOwn'
  BY <1>1 DEF SlotInv, LockHeld, BuffersOwn
<1>3. SUFFICES /\ \A v \in Workers : wpc'[v] \in {"gone", "recv"} => wmsg'[v] = None
               /\ ChannelsRead'
  BY <1>1, <1>2 DEF SlotInv, HandsEmpty
<1>4. \A v \in Workers : /\ Len(chan[v]) <= ChanCap
                         /\ wpc[v] = "gone" => chan[v] = <<>>
                         /\ wpc[v] \in {"gone", "recv"} => wmsg[v] = None
  BY DEF SlotInv, HandsEmpty, ChannelsRead
<1>5. CASE Dequeue(w)
  <2>1. /\ wpc' = [wpc EXCEPT ![w] = "check"] /\ chan' = [chan EXCEPT ![w] = Tail(@)]
        /\ wmsg' = [wmsg EXCEPT ![w] = Head(chan[w])] /\ chan[w] # <<>>
    BY <1>5 DEF Dequeue
  <2>2. Len(Tail(chan[w])) <= ChanCap
    <3>1. chan[w] \in Seq(Msgs) /\ Len(chan[w]) \in Nat /\ Len(chan[w]) <= ChanCap /\ ChanCap \in Nat
      BY <1>0, <1>4, DispatchAssumption
    <3>2. Len(Tail(chan[w])) = Len(chan[w]) - 1
      BY <2>1, <3>1
    <3> QED BY <3>1, <3>2
  <2> QED BY <1>0, <1>4, <2>1, <2>2 DEF ChannelsRead
<1>6. CASE /\ chan' = chan \/ chan' = [chan EXCEPT ![w] = <<>>]
           /\ \/ wmsg' = [wmsg EXCEPT ![w] = None]
              \/ wmsg' = wmsg /\ (wpc'[w] \notin {"gone", "recv"} \/ wmsg[w] = None)
           /\ \A v \in Workers \ {w} : wpc'[v] = wpc[v]
           /\ wpc'[w] = "gone" => chan'[w] = <<>>
  <2>1. Len(<<>>) <= ChanCap
    BY DispatchAssumption
  <2>2. \A v \in Workers : chan'[v] = chan[v] \/ (v = w /\ chan'[v] = <<>>)
    BY <1>0, <1>6
  <2>3. ChannelsRead'
    BY <1>4, <1>6, <2>1, <2>2 DEF ChannelsRead
  <2>4. \A v \in Workers : wpc'[v] \in {"gone", "recv"} => wmsg'[v] = None
    BY <1>0, <1>4, <1>6
  <2> QED BY <2>3, <2>4
<1>7. CASE End(w) \/ ClearInterrupt(w) \/ Acquire(w) \/ Route(w)
  BY <1>0, <1>4, <1>6, <1>7 DEF End, ClearInterrupt, Acquire, Route
<1>8. CASE SlashCommand(w) \/ Offline(w)
  BY <1>0, <1>6, <1>8 DEF SlashCommand, Offline, Dismiss
<1>9. CASE RemoteEnds(w) \/ StartLocal(w)
  BY <1>0, <1>6, <1>9 DEF RemoteEnds, RemoteAnswer, RemoteFallback, StartLocal
<1>10. CASE AgentEnds(w)
  BY <1>0, <1>6, <1>10 DEF AgentEnds, Succeed, Cancelled, Fail, Timeout, RunEnds
<1>11. CASE SetState(w)
  BY <1>0, <1>6, <1>11 DEF SetState
<1>12. CASE Panic(w) \/ CleanUp(w)
  BY <1>0, <1>6, <1>12 DEF Panic, CleanUp
<1> QED BY <1>5, <1>7, <1>8, <1>9, <1>10, <1>11, <1>12 DEF Worker, WorkerStep

LEMMA SlotNext == TypeInv /\ SlotInv /\ [Next]_vars => SlotInv'
<1> SUFFICES ASSUME TypeInv, SlotInv, [Next]_vars PROVE SlotInv'
  OBVIOUS
<1> USE DEF schedVars, inVars, dVars, hVars, slotVars, wVars, runVars, endVars
<1>1. CASE UNCHANGED <<slot, pending, hpc, hreap, hbuf, lock, dpc, dmsg, dworker,
                       chan, wpc, wmsg>>
  BY <1>1 DEF SlotInv, LockHeld, HandsEmpty, BuffersOwn, ChannelsRead
<1>2. ASSUME NEW m \in Msgs, Arrive(m) PROVE SlotInv'
  BY <1>1, <1>2 DEF Arrive
<1>3. CASE Dispatcher
  BY <1>3, SlotDispatcher
<1>4. CASE Housekeeping
  BY <1>4, SlotHousekeeping
<1>5. ASSUME NEW w \in Workers, Worker(w) PROVE SlotInv'
  BY <1>5, SlotWorker
<1>6. ASSUME NEW i \in icpt, Intercept(i) PROVE SlotInv'
  BY <1>1, <1>6 DEF Intercept
<1>7. CASE Elapse
  BY <1>1, <1>7 DEF Elapse
<1>8. CASE UNCHANGED vars
  BY <1>1, <1>8 DEF vars
<1> QED BY <1>2, <1>3, <1>4, <1>5, <1>6, <1>7, <1>8 DEF Next

(* Reaping idle slots never discards a message: nothing is buffered in a   *)
(* slot when it is removed, although the list of slots to remove was made  *)
(* while workers finished and were started.                                *)
THEOREM ReapLosesNothingHolds == Spec => ReapLosesNothing
<1>1. TypeInv /\ SlotInv /\ [Next]_vars =>
        [hpc = "scan" /\ hpc' = "wake" => lost' = lost]_vars
  <2> SUFFICES ASSUME TypeInv, SlotInv, Next, hpc = "scan", hpc' = "wake"
               PROVE  lost' = lost
    OBVIOUS
  <2>1. Reap
    BY DEF Next, Arrive, Dispatcher, Receive, Choose, Stop, Assign, Redispatch, RecvWake,
           RecvPush, RecvOverload, PickNext, PickNone, Ensure, FindWorker, CreateWorker,
           ActStop, ActBuffer, ActAssign, StopIdle, StopBusy, StopCancel, StopWrite,
           Send, SendFails, RemoveDead, Requeue, Mark, RedispLock, RedispPop, RedispSend,
           RedispEnd, Housekeeping, Tick, VisitResting, VisitBusy, AddWake, Flush, Sleep,
           Worker, WorkerStep, RemoteEnds, AgentEnds, Dequeue, End, SlashCommand, Offline,
           Dismiss, ClearInterrupt, Acquire, Route, RemoteAnswer, RemoteFallback,
           StartLocal, Succeed, Cancelled, Fail, Timeout, RunEnds, Panic, SetState,
           CleanUp, Intercept, Elapse, hVars
  <2>2. \A c \in hreap : pending[c] = <<>>
    BY DEF SlotInv, BuffersOwn, TypeInv, TypeOK
  <2>3. DOMAIN <<>> = {}
    OBVIOUS
  <2>4. \A c \in hreap : {pending[c][i] : i \in DOMAIN pending[c]} = {}
    BY <2>2, <2>3
  <2> QED BY <2>1, <2>4 DEF Reap
<1> QED BY <1>1, TypeInit, TypeNext, SlotInit, SlotNext, PTL DEF Spec, ReapLosesNothing

-----------------------------------------------------------------------------
(* Conservation.  The summands of Places: what is queued, what is kept in   *)
(* a buffer, in a channel or in a worker's hands, and what the dispatcher  *)
(* has in its hands; and beside these what has not come or has ended.      *)
Pairs(m, f, K, N) == {p \in K \X (1 .. N) : p[2] \in DOMAIN f[p[1]] /\ f[p[1]][p[2]] = m}
HandsWith(m, f) == Cardinality({w \in Workers : f[w] = m})

InPending(m) == Cardinality(Pairs(m, pending, Chats, MaxPending))
InChan(m) == Cardinality(Pairs(m, chan, Workers, ChanCap))
InHand(m) == HandsWith(m, wmsg)
AtDispatcher(m) ==
    IF dmsg = m /\ dpc \notin {"mark", "redispLock", "redisp"} THEN 1 ELSE 0
Outside(m) == (IF m \notin arrived THEN 1 ELSE 0)
            + (IF m \in done THEN 1 ELSE 0) + (IF m \in lost THEN 1 ELSE 0)

Queued(m) == Occurs(m, inq) + Occurs(m, queue) + Occurs(m, hbuf)
Held(m) == InPending(m) + InChan(m) + InHand(m)
Rest(m) == AtDispatcher(m) + Outside(m)

Conserved == \A m \in Msgs : Queued(m) + Held(m) + Rest(m) = 1

(* The elements equal to m of a family of sequences are those of one of    *)
(* them and those of the others.                                           *)
LEMMA PairsSplit ==
  ASSUME NEW S, NEW K, NEW N \in Nat, NEW f \in [K -> Seq(S)], NEW k \in K,
         Len(f[k]) <= N, NEW m, IsFiniteSet(Pairs(m, f, K, N))
  PROVE  LET others == {p \in Pairs(m, f, K, N) : p[1] # k}
         IN  /\ Cardinality(others) \in Nat
             /\ Cardinality(Pairs(m, f, K, N)) = Cardinality(others) + Occurs(m, f[k])
<1> DEFINE others == {p \in Pairs(m, f, K, N) : p[1] # k}
           mine == {p \in Pairs(m, f, K, N) : p[1] = k}
           at == {i \in DOMAIN f[k] : f[k][i] = m}
           h == [i \in at |-> <<k, i>>]
<1>1. /\ f[k] \in Seq(S) /\ DOMAIN f[k] = 1 .. Len(f[k]) /\ Len(f[k]) \in Nat
      /\ \A i \in DOMAIN f[k] : i \in 1 .. N
  OBVIOUS
<1>2. IsFiniteSet(at) /\ Cardinality(at) = Occurs(m, f[k]) /\ Cardinality(at) \in Nat
  <2>1. IsFiniteSet(at)
    BY <1>1, OccursFinite
  <2> QED BY <2>1, FS_CardinalityType DEF Occurs
<1>3. \A i \in at : <<k, i>> \in mine
  BY <1>1 DEF Pairs
<1>4. \A p \in mine : p[2] \in at /\ p = <<k, p[2]>>
  BY DEF Pairs
<1>5. ExistsBijection(at, mine)
  <2>1. h \in [at -> mine]
    BY <1>3
  <2>2. \A i, j \in at : h[i] = h[j] => i = j
    OBVIOUS
  <2>3. \A p \in mine : \E i \in at : h[i] = p
    BY <1>4
  <2>4. h \in Bijection(at, mine)
    BY <2>1, <2>2, <2>3 DEF Bijection, Injection, Surjection, IsInjective
  <2> QED BY <2>4 DEF ExistsBijection
<1>6. IsFiniteSet(mine) /\ Cardinality(mine) = Occurs(m, f[k]) /\ Occurs(m, f[k]) \in Nat
  BY <1>2, <1>5, FS_Bijection
<1>7. IsFiniteSet(others) /\ Cardinality(others) \in Nat
  BY FS_Subset, FS_CardinalityType
<1>8. others \cap mine = {} /\ Pairs(m, f, K, N) = others \cup mine
  OBVIOUS
<1> HIDE DEF others, mine
<1>9. Cardinality(others \cup mine) = Cardinality(others) + Cardinality(mine) - Cardinality(others \cap mine)
  BY <1>6, <1>7, FS_Union
<1>10. Cardinality(others \cap mine) = 0
  BY <1>8, FS_EmptySet
<1>11. Cardinality(Pairs(m, f, K, N)) = Cardinality(others) + Occurs(m, f[k])
  BY <1>6, <1>7, <1>8, <1>9, <1>10
<1> QED BY <1>7, <1>11 DEF others

(* When one sequence of the family changes, only its occurrences count.    *)
LEMMA PairsChanged ==
  ASSUME NEW S, NEW K, NEW N \in Nat, NEW f \in [K -> Seq(S)], NEW g \in [K -> Seq(S)],
         NEW k \in K, Len(f[k]) <= N, Len(g[k]) <= N, \A j \in K \ {k} : g[j] = f[j],
         NEW m, IsFiniteSet(Pairs(m, f, K, N)), IsFiniteSet(Pairs(m, g, K, N))
  PROVE  /\ Cardinality(Pairs(m, f, K, N)) \in Nat
         /\ Cardinality(Pairs(m, g, K, N)) + Occurs(m, f[k])
              = Cardinality(Pairs(m, f, K, N)) + Occurs(m, g[k])
<1> DEFINE others == {p \in Pairs(m, f, K, N) : p[1] # k}
<1>1. others = {p \in Pairs(m, g, K, N) : p[1] # k}
  BY DEF Pairs
<1>2. /\ Cardinality(others) \in Nat
      /\ Cardinality(Pairs(m, f, K, N)) = Cardinality(others) + Occurs(m, f[k])
  BY PairsSplit
<1>3. Cardinality(Pairs(m, g, K, N)) = Cardinality(others) + Occurs(m, g[k])
  <2>1. LET rest == {p \in Pairs(m, g, K, N) : p[1] # k}
        IN  Cardinality(Pairs(m, g, K, N)) = Cardinality(rest) + Occurs(m, g[k])
    BY PairsSplit
  <2> QED BY <1>1, <2>1
<1>4. Occurs(m, f[k]) \in Nat /\ Occurs(m, g[k]) \in Nat
  BY OccursFinite
<1> HIDE DEF others
<1> QED BY <1>2, <1>3, <1>4

(* Only its own chat's buffer holds a message.                             *)
LEMMA PendingCount ==
  ASSUME NEW pend \in [Chats -> Seq(Msgs)], NEW m \in Msgs,
         Len(pend[ChatOf[m]]) <= MaxPending,
         \A d \in Chats : \A i \in DOMAIN pend[d] : ChatOf[pend[d][i]] = d
  PROVE  Cardinality(Pairs(m, pend, Chats, MaxPending)) = Occurs(m, pend[ChatOf[m]])
<1> DEFINE c == ChatOf[m]
           P == Pairs(m, pend, Chats, MaxPending)
<1>1. c \in Chats /\ MaxPending \in Nat
  BY SchedulerAssumption, DispatchAssumption
<1>2. P \subseteq {c} \X (1 .. MaxPending)
  BY DEF Pairs
<1>3. IsFiniteSet(P)
  <2>1. IsFiniteSet({c})
    BY FS_Singleton
  <2>2. IsFiniteSet(1 .. MaxPending)
    BY <1>1, FS_Interval
  <2>3. IsFiniteSet({c} \X (1 .. MaxPending))
    BY <2>1, <2>2, FS_Product
  <2> QED BY <1>2, <2>3, FS_Subset
<1>4. {p \in P : p[1] # c} = {}
  BY <1>2
<1> HIDE DEF c
<1>5. Len(pend[c]) <= MaxPending
  BY DEF c
<1>6. Cardinality(P) = Cardinality({p \in P : p[1] # c}) + Occurs(m, pend[c])
  BY <1>1, <1>3, <1>5, PairsSplit
<1>7. Cardinality({p \in P : p[1] # c}) = 0
  BY <1>4, FS_EmptySet
<1>8. Occurs(m, pend[c]) \in Nat
  BY <1>1, OccursFinite
<1> QED BY <1>6, <1>7, <1>8 DEF c

LEMMA ChanFinite ==
  ASSUME NEW f, NEW m
  PROVE  IsFiniteSet(Pairs(m, f, Workers, ChanCap))
<1>1. IsFiniteSet(1 .. ChanCap)
  BY DispatchAssumption, FS_Interval
<1>2. IsFiniteSet(Workers \X (1 .. ChanCap))
  BY <1>1, DispatchAssumption, FS_Product
<1> QED BY <1>2, FS_Subset DEF Pairs

(* What a worker takes in hand or lays down is counted.                    *)
LEMMA HandChanged ==
  ASSUME NEW f \in [Workers -> Msgs \cup {None}], NEW w \in Workers,
         NEW g \in [Workers -> Msgs \cup {None}], \A v \in Workers \ {w} : g[v] = f[v],
         NEW m
  PROVE  /\ HandsWith(m, f) \in Nat /\ HandsWith(m, g) \in Nat
         /\ HandsWith(m, g) = HandsWith(m, f) + Is(g[w], m) - Is(f[w], m)
<1> DEFINE old == {v \in Workers : f[v] = m}
           new == {v \in Workers : g[v] = m}
           rest == {v \in Workers \ {w} : f[v] = m}
<1>1. IsFiniteSet(rest)
  BY DispatchAssumption, FS_Subset
<1>2. w \notin rest
  OBVIOUS
<1>3. old = IF f[w] = m THEN rest \cup {w} ELSE rest
  OBVIOUS
<1>4. new = IF g[w] = m THEN rest \cup {w} ELSE rest
  OBVIOUS
<1> HIDE DEF old, new, rest
<1>5. Cardinality(rest) \in Nat /\ Cardinality(rest \cup {w}) = Cardinality(rest) + 1
  BY <1>1, <1>2, FS_AddElement, FS_CardinalityType
<1>6. /\ Cardinality(old) = Cardinality(rest) + Is(f[w], m)
      /\ Cardinality(new) = Cardinality(rest) + Is(g[w], m)
  BY <1>3, <1>4, <1>5 DEF Is
<1>7. HandsWith(m, f) = Cardinality(old) /\ HandsWith(m, g) = Cardinality(new)
  BY DEF HandsWith, old, new
<1> QED BY <1>5, <1>6, <1>7, IsCount

(* The summands as numbers.                                                *)
LEMMA SummandsTyped ==
  ASSUME TypeInv, SlotInv, NEW m \in Msgs
  PROVE  /\ Occurs(m, inq) \in Nat /\ Occurs(m, queue) \in Nat /\ Occurs(m, hbuf) \in Nat
         /\ InPending(m) = Occurs(m, pending[ChatOf[m]]) /\ InPending(m) \in Nat
         /\ InChan(m) \in Nat /\ InHand(m) \in Nat
         /\ AtDispatcher(m) \in Nat /\ Outside(m) \in Nat
         /\ Queued(m) \in Nat /\ Held(m) \in Nat /\ Rest(m) \in Nat
<1> USE DEF TypeInv, TypeOK, SchedulerTypeOK
<1>1. /\ Occurs(m, inq) \in Nat /\ Occurs(m, queue) \in Nat /\ Occurs(m, hbuf) \in Nat
  BY OccursFinite
<1>2. ChatOf[m] \in Chats /\ pending \in [Chats -> Seq(Msgs)]
  BY SchedulerAssumption
<1>3. InPending(m) = Occurs(m, pending[ChatOf[m]])
  BY <1>2, PendingCount DEF InPending, SlotInv, BuffersOwn
<1>4. Occurs(m, pending[ChatOf[m]]) \in Nat
  BY <1>2, OccursFinite
<1>5. InChan(m) \in Nat
  BY ChanFinite, FS_CardinalityType DEF InChan
<1>6. InHand(m) \in Nat
  <2>1. IsFiniteSet({w \in Workers : wmsg[w] = m})
    BY DispatchAssumption, FS_Subset
  <2> QED BY <2>1, FS_CardinalityType DEF InHand, HandsWith
<1>7. AtDispatcher(m) \in Nat
  BY DEF AtDispatcher
<1>8. Outside(m) \in Nat
  <2>1. \A P \in BOOLEAN : (IF P THEN 1 ELSE 0) \in 0 .. 1
    OBVIOUS
  <2> QED BY <2>1 DEF Outside
<1> HIDE DEF TypeInv
<1>9. Queued(m) \in Nat /\ Held(m) \in Nat /\ Rest(m) \in Nat
  <2>1. Queued(m) \in Nat
    BY <1>1 DEF Queued
  <2>2. Held(m) \in Nat
    BY <1>3, <1>4, <1>5, <1>6 DEF Held
  <2>3. Rest(m) \in Nat
    BY <1>7, <1>8 DEF Rest
  <2> QED BY <2>1, <2>2, <2>3
<1> QED BY <1>1, <1>3, <1>4, <1>5, <1>6, <1>7, <1>8, <1>9

(* What a step leaves as it is.                                            *)
LEMMA SummandsKept ==
  ASSUME NEW m
  PROVE  /\ UNCHANGED <<inq, queue, hbuf>> => Queued(m)' = Queued(m)
         /\ UNCHANGED pending => InPending(m)' = InPending(m)
         /\ UNCHANGED chan => InChan(m)' = InChan(m)
         /\ UNCHANGED wmsg => InHand(m)' = InHand(m)
         /\ UNCHANGED <<pending, chan, wmsg>> => Held(m)' = Held(m)
         /\ UNCHANGED <<dpc, dmsg>> => AtDispatcher(m)' = AtDispatcher(m)
         /\ UNCHANGED <<arrived, done, lost>> => Outside(m)' = Outside(m)
<1>1. UNCHANGED <<inq, queue, hbuf>> => Queued(m)' = Queued(m)
  BY DEF Queued
<1>2. /\ UNCHANGED pending => InPending(m)' = InPending(m)
      /\ UNCHANGED chan => InChan(m)' = InChan(m)
      /\ UNCHANGED wmsg => InHand(m)' = InHand(m)
  BY DEF InPending, InChan, InHand
<1>3. UNCHANGED <<pending, chan, wmsg>> => Held(m)' = Held(m)
  BY <1>2 DEF Held
<1>4. UNCHANGED <<dpc, dmsg>> => AtDispatcher(m)' = AtDispatcher(m)
  BY DEF AtDispatcher
<1>5. UNCHANGED <<arrived, done, lost>> => Outside(m)' = Outside(m)
  BY DEF Outside
<1> QED BY <1>1, <1>2, <1>3, <1>4, <1>5

(* A message that is somewhere has not ended; when it ends, it is counted. *)
LEMMA OutsideMore ==
  ASSUME NEW m, NEW n \in 0 .. 1, NEW X, m \in X <=> n = 1,
         n = 1 => Outside(m) = 0, UNCHANGED arrived,
         \/ done' = done \cup X /\ UNCHANGED lost
         \/ lost' = lost \cup X /\ UNCHANGED done
  PROVE  Outside(m)' = Outside(m) + n
<1>1. CASE m \notin X
  <2>1. (m \in done' <=> m \in done) /\ (m \in lost' <=> m \in lost)
    BY <1>1
  <2>2. Outside(m) \in 0 .. 3
    <3>1. \A P \in BOOLEAN : (IF P THEN 1 ELSE 0) \in 0 .. 1
      OBVIOUS
    <3> QED BY <3>1 DEF Outside
  <2>3. Outside(m)' = Outside(m)
    BY <2>1 DEF Outside
  <2>4. n = 0
    BY <1>1
  <2> QED BY <2>2, <2>3, <2>4
<1>2. CASE m \in X
  <2>1. m \in arrived /\ m \notin done /\ m \notin lost
    <3>1. m \notin arrived => Outside(m) # 0
      BY DEF Outside
    <3>2. m \in done \/ m \in lost => Outside(m) # 0
      BY DEF Outside
    <3> QED BY <1>2, <3>1, <3>2
  <2>2. Outside(m)' = 1
    BY <1>2, <2>1 DEF Outside
  <2> QED BY <1>2, <2>2
<1> QED BY <1>1, <1>2

(* A message is in one place at most, and then it has come and not ended.  *)
LEMMA Single ==
  ASSUME TypeInv, SlotInv, Conserved, NEW m \in Msgs
  PROVE  /\ Queued(m) <= 1 /\ Held(m) <= 1 /\ Rest(m) <= 1
         /\ Queued(m) > 0 \/ Held(m) > 0 \/ AtDispatcher(m) > 0 => Outside(m) = 0
         /\ Queued(m) + Held(m) + Rest(m) = 1
<1>1. Queued(m) + Held(m) + Rest(m) = 1
  BY DEF Conserved
<1>2. /\ Queued(m) \in Nat /\ Held(m) \in Nat /\ Rest(m) \in Nat
      /\ AtDispatcher(m) \in Nat /\ Outside(m) \in Nat
  BY SummandsTyped
<1>3. Rest(m) = AtDispatcher(m) + Outside(m)
  BY DEF Rest
<1> QED BY <1>1, <1>2, <1>3

(* What one buffer, one channel or one hand gains or loses.                *)
LEMMA PendingChanged ==
  ASSUME TypeInv, SlotInv, TypeInv', SlotInv', NEW c \in Chats,
         \A d \in Chats \ {c} : pending'[d] = pending[d], NEW m \in Msgs
  PROVE  /\ InPending(m)' \in Nat
         /\ InPending(m)' = InPending(m) + Occurs(m, pending'[c]) - Occurs(m, pending[c])
         /\ Occurs(m, pending[c]) <= InPending(m)
<1>1. /\ ChatOf[m] \in Chats /\ pending \in [Chats -> Seq(Msgs)]
      /\ pending' \in [Chats -> Seq(Msgs)]
  BY SchedulerAssumption DEF TypeInv, TypeOK
<1>2. \A d \in Chats : /\ \A i \in DOMAIN pending[d] : ChatOf[pending[d][i]] = d
                       /\ \A i \in DOMAIN pending'[d] : ChatOf[pending'[d][i]] = d
                       /\ Len(pending'[d]) <= MaxPending
  BY DEF SlotInv, BuffersOwn
<1>3. InPending(m) = Occurs(m, pending[ChatOf[m]])
  BY SummandsTyped
<1>4. InPending(m)' = Occurs(m, pending'[ChatOf[m]])
  <2>1. Cardinality(Pairs(m, pending', Chats, MaxPending)) = Occurs(m, pending'[ChatOf[m]])
    BY <1>1, <1>2, PendingCount
  <2> QED BY <2>1 DEF InPending
<1>5. \A d \in Chats : Occurs(m, pending[d]) \in Nat /\ Occurs(m, pending'[d]) \in Nat
  BY <1>1, OccursFinite
<1>6. CASE c = ChatOf[m]
  BY <1>3, <1>4, <1>5, <1>6
<1>7. CASE c # ChatOf[m]
  <2>1. Occurs(m, pending[c]) = 0
    <3>1. pending[c] \in Seq(Msgs) /\ \A i \in DOMAIN pending[c] : pending[c][i] # m
      BY <1>1, <1>2, <1>7
    <3> QED BY <3>1, OccursFinite
  <2>2. Occurs(m, pending'[c]) = 0
    <3>1. pending'[c] \in Seq(Msgs) /\ \A i \in DOMAIN pending'[c] : pending'[c][i] # m
      BY <1>1, <1>2, <1>7
    <3> QED BY <3>1, OccursFinite
  <2>3. pending'[ChatOf[m]] = pending[ChatOf[m]]
    BY <1>1, <1>7
  <2> QED BY <1>1, <1>3, <1>4, <1>5, <2>1, <2>2, <2>3
<1> QED BY <1>6, <1>7

LEMMA ChanChanged ==
  ASSUME TypeInv, SlotInv, TypeInv', SlotInv', NEW w \in Workers,
         \A v \in Workers \ {w} : chan'[v] = chan[v], NEW m \in Msgs
  PROVE  /\ InChan(m)' \in Nat /\ InChan(m) \in Nat
         /\ InChan(m)' = InChan(m) + Occurs(m, chan'[w]) - Occurs(m, chan[w])
<1>1. chan \in [Workers -> Seq(Msgs)] /\ chan' \in [Workers -> Seq(Msgs)] /\ ChanCap \in Nat
  BY DispatchAssumption DEF TypeInv, TypeOK
<1>2. Len(chan[w]) <= ChanCap /\ Len(chan'[w]) <= ChanCap
  BY DEF SlotInv, ChannelsRead
<1>3. /\ IsFiniteSet(Pairs(m, chan, Workers, ChanCap))
      /\ IsFiniteSet(Pairs(m, chan', Workers, ChanCap))
  BY ChanFinite
<1>4. /\ Cardinality(Pairs(m, chan, Workers, ChanCap)) \in Nat
      /\ Cardinality(Pairs(m, chan', Workers, ChanCap)) \in Nat
  BY <1>3, FS_CardinalityType
<1>5. Cardinality(Pairs(m, chan', Workers, ChanCap)) + Occurs(m, chan[w])
        = Cardinality(Pairs(m, chan, Workers, ChanCap)) + Occurs(m, chan'[w])
  BY <1>1, <1>2, <1>3, PairsChanged
<1>6. Occurs(m, chan[w]) \in Nat /\ Occurs(m, chan'[w]) \in Nat
  BY <1>1, OccursFinite
<1>7. Cardinality(Pairs(m, chan', Workers, ChanCap))
        = Cardinality(Pairs(m, chan, Workers, ChanCap)) + Occurs(m, chan'[w]) - Occurs(m, chan[w])
  BY <1>4, <1>5, <1>6
<1> QED BY <1>4, <1>7 DEF InChan

LEMMA HandTaken ==
  ASSUME TypeInv, NEW w \in Workers, NEW x \in Msgs \cup {None},
         wmsg' = [wmsg EXCEPT ![w] = x], NEW m \in Msgs
  PROVE  InHand(m)' = InHand(m) + Is(x, m) - Is(wmsg[w], m) /\ InHand(m)' \in Nat
<1>1. /\ wmsg \in [Workers -> Msgs \cup {None}] /\ wmsg' \in [Workers -> Msgs \cup {None}]
      /\ wmsg'[w] = x /\ \A v \in Workers \ {w} : wmsg'[v] = wmsg[v]
  BY DEF TypeInv, TypeOK
<1>2. /\ HandsWith(m, wmsg') \in Nat
      /\ HandsWith(m, wmsg') = HandsWith(m, wmsg) + Is(wmsg'[w], m) - Is(wmsg[w], m)
  <2> HIDE DEF Is
  <2> DEFINE g == wmsg'
  <2>1. /\ g \in [Workers -> Msgs \cup {None}] /\ \A v \in Workers \ {w} : g[v] = wmsg[v]
        /\ wmsg \in [Workers -> Msgs \cup {None}]
    BY <1>1
  <2> HIDE DEF g
  <2>2. /\ HandsWith(m, g) \in Nat
        /\ HandsWith(m, g) = HandsWith(m, wmsg) + Is(g[w], m) - Is(wmsg[w], m)
    BY <2>1, HandChanged
  <2> QED BY <2>2 DEF g
<1> QED BY <1>1, <1>2 DEF InHand

-----------------------------------------------------------------------------
(* Conservation, step by step.                                             *)
LEMMA Balance ==
  ASSUME TypeInv, SlotInv, TypeInv', SlotInv', Conserved, NEW m \in Msgs,
         NEW q \in Int, NEW h \in Int, NEW r \in Int,
         Queued(m)' = Queued(m) + q, Held(m)' = Held(m) + h, Rest(m)' = Rest(m) + r,
         q + h + r = 0
  PROVE  Queued(m)' + Held(m)' + Rest(m)' = 1
<1>1. Queued(m) \in Nat /\ Held(m) \in Nat /\ Rest(m) \in Nat
  BY SummandsTyped
<1>2. Queued(m) + Held(m) + Rest(m) = 1
  BY DEF Conserved
<1> QED BY <1>1, <1>2

LEMMA Unmoved ==
  ASSUME Conserved, UNCHANGED <<inq, queue, hbuf, pending, chan, wmsg, arrived, done, lost>>,
         \A m \in Msgs : AtDispatcher(m)' = AtDispatcher(m)
  PROVE  Conserved'
<1> SUFFICES ASSUME NEW m \in Msgs PROVE Queued(m)' + Held(m)' + Rest(m)' = 1
  BY DEF Conserved
<1>1. Queued(m)' = Queued(m) /\ Held(m)' = Held(m) /\ Outside(m)' = Outside(m)
  BY SummandsKept
<1>2. Rest(m)' = Rest(m)
  BY <1>1 DEF Rest
<1> QED BY <1>1, <1>2 DEF Conserved

LEMMA ConservedArrive ==
  ASSUME TypeInv, SlotInv, TypeInv', SlotInv', Conserved, NEW x \in Msgs, Arrive(x)
  PROVE  Conserved'
<1> SUFFICES ASSUME NEW m \in Msgs PROVE Queued(m)' + Held(m)' + Rest(m)' = 1
  BY DEF Conserved
<1>1. /\ x \notin arrived /\ arrived' = arrived \cup {x} /\ inq' = Append(inq, x)
      /\ UNCHANGED <<queue, hbuf, pending, chan, wmsg, dpc, dmsg, done, lost>>
  BY DEF Arrive, schedVars, dVars, hVars, slotVars, wVars, endVars
<1>2. inq \in Seq(Msgs \cup {Wake}) /\ x \in Msgs \cup {Wake}
  BY DEF TypeInv, TypeOK
<1>3. Occurs(m, inq') = Occurs(m, inq) + Is(x, m)
  BY <1>1, <1>2, OccursAppend
<1>4. Is(x, m) \in 0 .. 1
  BY IsCount
<1>5. Queued(m)' = Queued(m) + Is(x, m)
  <2>1. Occurs(m, inq) \in Nat /\ Occurs(m, queue) \in Nat /\ Occurs(m, hbuf) \in Nat
    BY SummandsTyped
  <2>2. Queued(m)' = (Occurs(m, inq) + Is(x, m)) + Occurs(m, queue) + Occurs(m, hbuf)
    BY <1>1, <1>3 DEF Queued
  <2> QED BY <1>4, <2>1, <2>2 DEF Queued
<1>6. Held(m)' = Held(m) /\ AtDispatcher(m)' = AtDispatcher(m)
  BY <1>1, SummandsKept
<1>7. Outside(m)' = Outside(m) - Is(x, m)
  <2>1. \A P \in BOOLEAN : (IF P THEN 1 ELSE 0) \in 0 .. 1
    OBVIOUS
  <2>2. CASE x = m
    BY <1>1, <2>1, <2>2 DEF Outside, Is
  <2>3. CASE x # m
    BY <1>1, <2>1, <2>3 DEF Outside, Is
  <2> QED BY <2>2, <2>3
<1>8. Rest(m)' = Rest(m) - Is(x, m)
  <2>1. AtDispatcher(m) \in Nat /\ Outside(m) \in Nat
    BY SummandsTyped
  <2>2. Rest(m)' = AtDispatcher(m) + (Outside(m) - Is(x, m))
    BY <1>6, <1>7 DEF Rest
  <2> QED BY <1>4, <2>1, <2>2 DEF Rest
<1>9. Queued(m) \in Nat /\ Held(m) \in Nat /\ Rest(m) \in Nat
  BY SummandsTyped
<1>10. Queued(m) + Held(m) + Rest(m) = 1
  BY DEF Conserved
<1> HIDE DEF Is
<1> QED BY <1>4, <1>5, <1>6, <1>8, <1>9, <1>10

(* What the queues gain and lose when one message moves.                   *)
LEMMA InqGains ==
  ASSUME TypeInv, SlotInv, NEW x \in Msgs \cup {Wake}, inq' = Append(inq, x),
         UNCHANGED <<queue, hbuf>>, NEW m \in Msgs
  PROVE  Queued(m)' = Queued(m) + Is(x, m) /\ Is(x, m) \in 0 .. 1
<1>1. inq \in Seq(Msgs \cup {Wake})
  BY DEF TypeInv, TypeOK
<1>2. Occurs(m, inq') = Occurs(m, inq) + Is(x, m)
  BY <1>1, OccursAppend
<1>3. Is(x, m) \in 0 .. 1
  BY IsCount
<1>4. Occurs(m, inq) \in Nat /\ Occurs(m, queue) \in Nat /\ Occurs(m, hbuf) \in Nat
  BY SummandsTyped
<1>5. Queued(m)' = (Occurs(m, inq) + Is(x, m)) + Occurs(m, queue) + Occurs(m, hbuf)
  BY <1>2 DEF Queued
<1> QED BY <1>3, <1>4, <1>5 DEF Queued

LEMMA InqLoses ==
  ASSUME TypeInv, SlotInv, inq # <<>>, inq' = Tail(inq),
         UNCHANGED <<queue, hbuf>>, NEW m \in Msgs
  PROVE  /\ Queued(m)' = Queued(m) - Is(Head(inq), m) /\ Is(Head(inq), m) \in 0 .. 1
         /\ Is(Head(inq), m) <= Queued(m)
<1>1. inq \in Seq(Msgs \cup {Wake}) /\ Tail(inq) \in Seq(Msgs \cup {Wake})
  BY SeqParts DEF TypeInv, TypeOK
<1>2. Occurs(m, inq) = Occurs(m, inq') + Is(Head(inq), m)
  BY <1>1, OccursTail
<1>3. Is(Head(inq), m) \in 0 .. 1
  BY IsCount
<1>4. /\ Occurs(m, inq) \in Nat /\ Occurs(m, queue) \in Nat /\ Occurs(m, hbuf) \in Nat
      /\ Occurs(m, inq') \in Nat
  BY <1>1, SummandsTyped, OccursFinite
<1>5. Queued(m)' = Occurs(m, inq') + Occurs(m, queue) + Occurs(m, hbuf)
  BY DEF Queued
<1>6. Queued(m) = (Occurs(m, inq') + Is(Head(inq), m)) + Occurs(m, queue) + Occurs(m, hbuf)
  BY <1>2 DEF Queued
<1> HIDE DEF Is
<1> QED BY <1>3, <1>4, <1>5, <1>6

LEMMA InqToQueue ==
  ASSUME TypeInv, SlotInv, inq # <<>>, inq' = Tail(inq), Head(inq) \in Msgs,
         queue' = Append(queue, Head(inq)), UNCHANGED hbuf, NEW m \in Msgs
  PROVE  Queued(m)' = Queued(m)
<1>1. inq \in Seq(Msgs \cup {Wake}) /\ Tail(inq) \in Seq(Msgs \cup {Wake}) /\ queue \in Seq(Msgs)
  BY SeqParts DEF TypeInv, TypeOK, SchedulerTypeOK
<1>2. Occurs(m, inq) = Occurs(m, inq') + Is(Head(inq), m)
  BY <1>1, OccursTail
<1>3. Occurs(m, queue') = Occurs(m, queue) + Is(Head(inq), m)
  BY <1>1, OccursAppend
<1>4. Is(Head(inq), m) \in 0 .. 1
  BY IsCount
<1>5. /\ Occurs(m, inq) \in Nat /\ Occurs(m, queue) \in Nat /\ Occurs(m, hbuf) \in Nat
      /\ Occurs(m, inq') \in Nat
  BY <1>1, SummandsTyped, OccursFinite
<1>6. Queued(m)' = Occurs(m, inq') + (Occurs(m, queue) + Is(Head(inq), m)) + Occurs(m, hbuf)
  BY <1>3 DEF Queued
<1> QED BY <1>2, <1>4, <1>5, <1>6 DEF Queued

LEMMA HbufToInq ==
  ASSUME TypeInv, SlotInv, hbuf # <<>>, hbuf' = Tail(hbuf), inq' = Append(inq, Head(hbuf)),
         UNCHANGED queue, NEW m \in Msgs
  PROVE  Queued(m)' = Queued(m)
<1>1. /\ inq \in Seq(Msgs \cup {Wake}) /\ hbuf \in Seq(Msgs \cup {Wake})
      /\ Tail(hbuf) \in Seq(Msgs \cup {Wake}) /\ Head(hbuf) \in Msgs \cup {Wake}
  BY SeqParts DEF TypeInv, TypeOK
<1>2. Occurs(m, hbuf) = Occurs(m, hbuf') + Is(Head(hbuf), m)
  BY <1>1, OccursTail
<1>3. Occurs(m, inq') = Occurs(m, inq) + Is(Head(hbuf), m)
  BY <1>1, OccursAppend
<1>4. Is(Head(hbuf), m) \in 0 .. 1
  BY IsCount
<1>5. /\ Occurs(m, inq) \in Nat /\ Occurs(m, queue) \in Nat /\ Occurs(m, hbuf) \in Nat
      /\ Occurs(m, hbuf') \in Nat
  BY <1>1, SummandsTyped, OccursFinite
<1>6. Queued(m)' = (Occurs(m, inq) + Is(Head(hbuf), m)) + Occurs(m, queue) + Occurs(m, hbuf')
  BY <1>3 DEF Queued
<1> QED BY <1>2, <1>4, <1>5, <1>6 DEF Queued

LEMMA HbufGains ==
  ASSUME TypeInv, SlotInv, NEW x \in Msgs \cup {Wake}, hbuf' = Append(hbuf, x),
         UNCHANGED <<inq, queue>>, NEW m \in Msgs
  PROVE  Queued(m)' = Queued(m) + Is(x, m) /\ Is(x, m) \in 0 .. 1
<1>1. hbuf \in Seq(Msgs \cup {Wake})
  BY DEF TypeInv, TypeOK
<1>2. Occurs(m, hbuf') = Occurs(m, hbuf) + Is(x, m)
  BY <1>1, OccursAppend
<1>3. Is(x, m) \in 0 .. 1
  BY IsCount
<1>4. Occurs(m, inq) \in Nat /\ Occurs(m, queue) \in Nat /\ Occurs(m, hbuf) \in Nat
  BY SummandsTyped
<1>5. Queued(m)' = Occurs(m, inq) + Occurs(m, queue) + (Occurs(m, hbuf) + Is(x, m))
  BY <1>2 DEF Queued
<1> QED BY <1>3, <1>4, <1>5 DEF Queued

LEMMA QueueLoses ==
  ASSUME TypeInv, SlotInv, NEW x, TakeNext(x), UNCHANGED <<inq, hbuf>>, NEW m \in Msgs
  PROVE  Queued(m)' = Queued(m) - Is(x, m) /\ Is(x, m) \in 0 .. 1
<1>1. queue \in Seq(Msgs)
  BY DEF TypeInv, TypeOK, SchedulerTypeOK
<1>2. PICK i \in DOMAIN queue : x = queue[i] /\ queue' = RotatedPast(i)
  BY DEF TakeNext
<1>3. Occurs(m, queue) = Occurs(m, queue') + Is(x, m)
  BY <1>1, <1>2, OccursRotated
<1>4. Is(x, m) \in 0 .. 1
  BY IsCount
<1>5. queue' \in Seq(Msgs)
  BY <1>1, <1>2, RotatedPastShape
<1>6. /\ Occurs(m, inq) \in Nat /\ Occurs(m, queue) \in Nat /\ Occurs(m, hbuf) \in Nat
      /\ Occurs(m, queue') \in Nat
  BY <1>5, SummandsTyped, OccursFinite
<1>7. Queued(m)' = Occurs(m, inq) + Occurs(m, queue') + Occurs(m, hbuf)
  BY DEF Queued
<1> QED BY <1>3, <1>4, <1>6, <1>7 DEF Queued

(* What the dispatcher has in its hands.                                   *)
LEMMA DispatcherHand ==
  ASSUME NEW m \in Msgs
  PROVE  /\ dpc \notin {"mark", "redispLock", "redisp"} => AtDispatcher(m) = Is(dmsg, m)
         /\ dpc \in {"mark", "redispLock", "redisp"} \/ dmsg = None => AtDispatcher(m) = 0
         /\ dpc' \notin {"mark", "redispLock", "redisp"} => AtDispatcher(m)' = Is(dmsg', m)
         /\ dpc' \in {"mark", "redispLock", "redisp"} \/ dmsg' = None => AtDispatcher(m)' = 0
BY DispatchAssumption DEF AtDispatcher, Is

LEMMA ConservedReceive ==
  ASSUME TypeInv, SlotInv, TypeInv', SlotInv', Conserved, Receive
  PROVE  Conserved'
<1> USE DEF schedVars, inVars, dVars, hVars, slotVars, wVars, runVars, endVars
<1> SUFFICES ASSUME NEW m \in Msgs PROVE Queued(m)' + Held(m)' + Rest(m)' = 1
  BY DEF Conserved
<1>1. /\ inq # <<>> /\ inq' = Tail(inq) /\ dpc = "recv" /\ UNCHANGED <<hbuf, arrived, lost>>
      /\ UNCHANGED <<pending, chan, wmsg, dmsg>> /\ dpc' \in {"recv", "pick"}
  BY DEF Receive, RecvWake, RecvPush, RecvOverload
<1>2. Held(m)' = Held(m) /\ AtDispatcher(m)' = AtDispatcher(m)
  BY <1>1, SummandsKept, DispatcherHand
<1>3. Head(inq) \in Msgs \cup {Wake}
  BY <1>1, SeqParts DEF TypeInv, TypeOK
<1>4. /\ Queued(m) \in Nat /\ Held(m) \in Nat /\ Rest(m) \in Nat
      /\ AtDispatcher(m) \in Nat /\ Outside(m) \in Nat
  BY SummandsTyped
<1>5. Queued(m) + Held(m) + Rest(m) = 1
  BY DEF Conserved
<1>6. CASE RecvWake
  <2>1. Queued(m)' = Queued(m) - Is(Head(inq), m) /\ Is(Head(inq), m) = 0
    BY <1>1, <1>6, InqLoses, DispatchAssumption DEF RecvWake, Is
  <2>2. Outside(m)' = Outside(m)
    BY <1>6, SummandsKept DEF RecvWake
  <2>3. Rest(m)' = Rest(m)
    BY <1>2, <2>2 DEF Rest
  <2>4. Queued(m)' = Queued(m)
    BY <1>4, <2>1
  <2> QED BY <1>2, <1>5, <2>3, <2>4
<1>7. CASE RecvPush
  <2>1. Queued(m)' = Queued(m)
    BY <1>1, <1>3, <1>7, InqToQueue DEF RecvPush, Push
  <2>2. Outside(m)' = Outside(m)
    BY <1>7, SummandsKept DEF RecvPush
  <2>3. Rest(m)' = Rest(m)
    BY <1>2, <2>2 DEF Rest
  <2> QED BY <1>2, <1>5, <2>1, <2>3
<1>8. CASE RecvOverload
  <2> DEFINE x == Head(inq)
  <2>1. UNCHANGED queue /\ done' = done \cup {x} /\ UNCHANGED lost
    BY <1>8 DEF RecvOverload
  <2>2. Queued(m)' = Queued(m) - Is(x, m) /\ Is(x, m) \in 0 .. 1 /\ Is(x, m) <= Queued(m)
    BY <1>1, <2>1, InqLoses
  <2>3. m \in {x} <=> Is(x, m) = 1
    BY IsCount
  <2> HIDE DEF x
  <2>5. Is(x, m) = 1 => Outside(m) = 0
    BY <1>4, <2>2, Single
  <2>6. Outside(m)' = Outside(m) + Is(x, m)
    BY <1>1, <2>1, <2>2, <2>3, <2>5, OutsideMore
  <2>7. Rest(m)' = AtDispatcher(m) + (Outside(m) + Is(x, m))
    BY <1>2, <2>6 DEF Rest
  <2>8. Rest(m)' = Rest(m) + Is(x, m)
    BY <1>4, <2>2, <2>7 DEF Rest
  <2> QED BY <1>2, <1>4, <1>5, <2>2, <2>8
<1> QED BY <1>6, <1>7, <1>8 DEF Receive

(* What the dispatcher takes from the run queue is in its hands until it   *)
(* is buffered; the oldest buffered message that makes room is lost.       *)
LEMMA ConservedChoose ==
  ASSUME TypeInv, SlotInv, TypeInv', SlotInv', Conserved, Choose
  PROVE  Conserved'
<1> USE DEF schedVars, inVars, dVars, hVars, slotVars, wVars, runVars, endVars
<1>1. CASE PickNone \/ ActStop \/ ActAssign
  <2>1. UNCHANGED <<inq, queue, hbuf, pending, chan, wmsg, arrived, done, lost, dmsg>>
    BY <1>1 DEF PickNone, ActStop, ActAssign
  <2>2. /\ dpc \notin {"mark", "redispLock", "redisp"}
        /\ dpc' \notin {"mark", "redispLock", "redisp"}
    BY <1>1 DEF PickNone, ActStop, ActAssign
  <2>3. \A m \in Msgs : AtDispatcher(m)' = AtDispatcher(m)
    BY <2>1, <2>2, DispatcherHand
  <2> QED BY <2>1, <2>3, Unmoved
<1>2. CASE Ensure
  <2>1. UNCHANGED <<inq, queue, hbuf, wmsg, arrived, done, lost, dmsg>>
    BY <1>2 DEF Ensure, FindWorker, CreateWorker
  <2>2. dpc = "ensure" /\ dpc' = "act"
    BY <1>2 DEF Ensure
  <2>3. \A m \in Msgs : AtDispatcher(m)' = AtDispatcher(m)
    BY <2>1, <2>2, DispatcherHand
  <2>4. UNCHANGED <<pending, chan>>
    <3>1. CASE FindWorker
      BY <3>1 DEF FindWorker
    <3>2. CASE CreateWorker
      <4>1. PICK w \in Workers :
              /\ wpc[w] = "gone" /\ chan' = [chan EXCEPT ![w] = <<>>]
              /\ pending' = [pending EXCEPT ![ChatOf[dmsg]] = <<>>]
        BY <3>2 DEF CreateWorker, Free
      <4>2. /\ pending \in [Chats -> Seq(Msgs)] /\ chan \in [Workers -> Seq(Msgs)]
            /\ ChatOf[dmsg] \in Chats
        BY <2>2, SchedulerAssumption DEF TypeInv, TypeOK, HandsFull
      <4>3. chan[w] = <<>>
        BY <4>1 DEF SlotInv, ChannelsRead
      <4>4. pending[ChatOf[dmsg]] = <<>>
        BY <3>2, <4>2 DEF CreateWorker, SlotInv, BuffersOwn
      <4> QED BY <4>1, <4>2, <4>3, <4>4
    <3> QED BY <1>2, <3>1, <3>2 DEF Ensure
  <2> QED BY <2>1, <2>3, <2>4, Unmoved
<1>3. CASE PickNext
  <2>1. PICK x \in Msgs : TakeNext(x) /\ dmsg' = x
    BY <1>3 DEF PickNext
  <2>2. /\ UNCHANGED <<inq, hbuf, pending, chan, wmsg, arrived, done, lost>>
        /\ dpc = "pick" /\ dpc' = "ensure" /\ dmsg = None
    BY <1>3 DEF PickNext, SlotInv, HandsEmpty
  <2> SUFFICES ASSUME NEW m \in Msgs PROVE Queued(m)' + Held(m)' + Rest(m)' = 1
    BY DEF Conserved
  <2>3. Queued(m)' = Queued(m) - Is(x, m) /\ Is(x, m) \in 0 .. 1
    BY <2>1, <2>2, QueueLoses
  <2>4. Held(m)' = Held(m) /\ Outside(m)' = Outside(m)
    BY <2>2, SummandsKept
  <2>5. AtDispatcher(m) = 0 /\ AtDispatcher(m)' = Is(x, m)
    BY <2>1, <2>2, DispatcherHand
  <2>6. Queued(m) \in Nat /\ Held(m) \in Nat /\ Rest(m) \in Nat /\ Outside(m) \in Nat
    BY SummandsTyped
  <2>7. Rest(m)' = Rest(m) + Is(x, m)
    BY <2>3, <2>4, <2>5, <2>6 DEF Rest
  <2>8. Queued(m) + Held(m) + Rest(m) = 1
    BY DEF Conserved
  <2> QED BY <2>3, <2>4, <2>6, <2>7, <2>8
<1>4. CASE ActBuffer
  <2> DEFINE c == ChatOf[dmsg]
             full == Len(pending[c]) >= MaxPending
             kept == IF full THEN Tail(pending[c]) ELSE pending[c]
             X == IF full THEN {Head(pending[c])} ELSE {}
  <2> SUFFICES ASSUME NEW m \in Msgs PROVE Queued(m)' + Held(m)' + Rest(m)' = 1
    BY DEF Conserved
  <2> DEFINE out == IF full THEN Is(Head(pending[c]), m) ELSE 0
  <2>1. c \in Chats /\ dmsg \in Msgs /\ pending \in [Chats -> Seq(Msgs)] /\ pending[c] \in Seq(Msgs)
    BY <1>4, SchedulerAssumption DEF ActBuffer, TypeInv, TypeOK, HandsFull
  <2>2. pending' = [pending EXCEPT ![c] = Append(kept, dmsg)] /\ lost' = lost \cup X
    BY <1>4 DEF ActBuffer
  <2>3. /\ UNCHANGED <<inq, queue, hbuf, chan, wmsg, arrived, done>>
        /\ dpc = "act" /\ dpc' = "pick" /\ dmsg' = None
    BY <1>4 DEF ActBuffer
  <2>4. out \in 0 .. 1 /\ (m \in X <=> out = 1)
    BY IsCount
  <2>5. kept \in Seq(Msgs) /\ Occurs(m, pending[c]) = Occurs(m, kept) + out
    <3>1. CASE full
      <4>1. pending[c] # <<>>
        BY <2>1, <3>1, DispatchAssumption
      <4> QED BY <2>1, <3>1, <4>1, OccursTail, SeqParts
    <3>2. CASE ~full
      <4>1. Occurs(m, pending[c]) \in Nat
        BY <2>1, OccursFinite
      <4> QED BY <2>1, <3>2, <4>1
    <3> QED BY <3>1, <3>2
  <2> HIDE DEF full, kept, X, out
  <2>6. Occurs(m, pending'[c]) = Occurs(m, kept) + Is(dmsg, m)
    <3>1. pending'[c] = Append(kept, dmsg)
      BY <2>1, <2>2
    <3> QED BY <2>1, <2>5, <3>1, OccursAppend
  <2> HIDE DEF c
  <2>7. \A d \in Chats \ {c} : pending'[d] = pending[d]
    BY <2>1, <2>2
  <2>8. /\ InPending(m)' = InPending(m) + Occurs(m, pending'[c]) - Occurs(m, pending[c])
        /\ Occurs(m, pending[c]) <= InPending(m)
    BY <2>1, <2>7, PendingChanged
  <2>9. /\ Queued(m) \in Nat /\ Held(m) \in Nat /\ Rest(m) \in Nat /\ Outside(m) \in Nat
        /\ InPending(m) \in Nat /\ InChan(m) \in Nat /\ InHand(m) \in Nat
        /\ AtDispatcher(m) \in Nat
    BY SummandsTyped
  <2>10. Occurs(m, kept) \in Nat /\ Is(dmsg, m) \in 0 .. 1
    BY <2>5, OccursFinite, IsCount
  <2>11. InPending(m)' = InPending(m) + Is(dmsg, m) - out
    BY <2>4, <2>5, <2>6, <2>8, <2>9, <2>10
  <2>12. Held(m)' = Held(m) + Is(dmsg, m) - out
    <3>1. InChan(m)' = InChan(m) /\ InHand(m)' = InHand(m)
      BY <2>3, SummandsKept
    <3>2. Held(m)' = (InPending(m) + Is(dmsg, m) - out) + InChan(m) + InHand(m)
      BY <2>11, <3>1 DEF Held
    <3> QED BY <2>4, <2>9, <2>10, <3>2 DEF Held
  <2>13. out = 1 => Outside(m) = 0
    <3>1. out = 1 => Held(m) > 0
      <4>1. Held(m) = InPending(m) + InChan(m) + InHand(m)
        BY DEF Held
      <4> QED BY <2>5, <2>8, <2>9, <2>10, <4>1
    <3> QED BY <3>1, Single
  <2>14. Outside(m)' = Outside(m) + out
    BY <2>2, <2>3, <2>4, <2>13, OutsideMore
  <2>15. AtDispatcher(m) = Is(dmsg, m) /\ AtDispatcher(m)' = 0
    BY <2>3, DispatcherHand
  <2>16. Rest(m)' = Rest(m) - Is(dmsg, m) + out
    BY <2>4, <2>9, <2>10, <2>14, <2>15 DEF Rest
  <2>17. Queued(m)' = Queued(m)
    BY <2>3, SummandsKept
  <2>18. Queued(m) + Held(m) + Rest(m) = 1
    BY DEF Conserved
  <2> QED BY <2>4, <2>9, <2>10, <2>12, <2>16, <2>17, <2>18
<1> QED BY <1>1, <1>2, <1>3, <1>4 DEF Choose

(* A /stop that was taken to its end is in the dispatcher's hands no more. *)
LEMMA ConservedStop ==
  ASSUME TypeInv, SlotInv, TypeInv', SlotInv', Conserved, Stop
  PROVE  Conserved'
<1> USE DEF schedVars, inVars, dVars, hVars, slotVars, wVars, runVars, endVars
<1>1. CASE StopBusy \/ StopCancel
  <2>1. UNCHANGED <<inq, queue, hbuf, pending, chan, wmsg, arrived, done, lost, dmsg>>
    BY <1>1 DEF StopBusy, StopCancel
  <2>2. dpc \in {"stopRead", "stopCancel"} /\ dpc' \in {"stopCancel", "stopWrite"}
    BY <1>1 DEF StopBusy, StopCancel
  <2>3. \A m \in Msgs : AtDispatcher(m)' = AtDispatcher(m)
    BY <2>1, <2>2, DispatcherHand
  <2> QED BY <2>1, <2>3, Unmoved
<1>2. CASE StopIdle \/ StopWrite
  <2> SUFFICES ASSUME NEW m \in Msgs PROVE Queued(m)' + Held(m)' + Rest(m)' = 1
    BY DEF Conserved
  <2>1. UNCHANGED <<inq, queue, hbuf, pending, chan, wmsg, arrived, lost>>
    BY <1>2 DEF StopIdle, StopWrite
  <2>2. /\ dpc \in {"stopRead", "stopWrite"} /\ dpc' = "pick" /\ dmsg' = None
        /\ done' = done \cup {dmsg}
    BY <1>2 DEF StopIdle, StopWrite
  <2>3. Queued(m)' = Queued(m) /\ Held(m)' = Held(m)
    BY <2>1, SummandsKept
  <2>4. AtDispatcher(m) = Is(dmsg, m) /\ AtDispatcher(m)' = 0
    BY <2>2, DispatcherHand
  <2>5. Is(dmsg, m) \in 0 .. 1 /\ (m \in {dmsg} <=> Is(dmsg, m) = 1)
    BY IsCount
  <2>6. Is(dmsg, m) = 1 => Outside(m) = 0
    BY <2>4, Single
  <2>7. Outside(m)' = Outside(m) + Is(dmsg, m)
    BY <2>1, <2>2, <2>5, <2>6, OutsideMore
  <2>8. Outside(m) \in Nat
    BY SummandsTyped
  <2>9. Rest(m)' = Rest(m)
    BY <2>4, <2>5, <2>7, <2>8 DEF Rest
  <2>10. Queued(m) + Held(m) + Rest(m) = 1
    BY DEF Conserved
  <2> QED BY <2>3, <2>9, <2>10
<1> QED BY <1>1, <1>2 DEF Stop

(* Handing a message to a worker moves it to the worker's channel; when    *)
(* the worker is dead it goes back to the runtime queue, and what was      *)
(* buffered for it is lost.                                                *)
LEMMA ConservedAssign ==
  ASSUME TypeInv, SlotInv, TypeInv', SlotInv', Conserved, Assign
  PROVE  Conserved'
<1> USE DEF schedVars, inVars, dVars, hVars, slotVars, wVars, runVars, endVars
<1>1. CASE SendFails
  <2>1. /\ UNCHANGED <<inq, queue, hbuf, pending, chan, wmsg, arrived, done, lost, dmsg>>
        /\ dpc = "send" /\ dpc' = "fail"
    BY <1>1 DEF SendFails
  <2>2. \A m \in Msgs : AtDispatcher(m)' = AtDispatcher(m)
    BY <2>1, DispatcherHand
  <2> QED BY <2>1, <2>2, Unmoved
<1>2. CASE Mark
  <2>1. /\ UNCHANGED <<inq, queue, hbuf, pending, chan, wmsg, arrived, done, lost, dmsg>>
        /\ dpc = "mark" /\ dpc' = "redispLock"
    BY <1>2 DEF Mark, MarkDispatched
  <2>2. \A m \in Msgs : AtDispatcher(m)' = AtDispatcher(m)
    BY <2>1, DispatcherHand
  <2> QED BY <2>1, <2>2, Unmoved
<1>3. CASE Requeue
  <2> SUFFICES ASSUME NEW m \in Msgs PROVE Queued(m)' + Held(m)' + Rest(m)' = 1
    BY DEF Conserved
  <2>1. /\ inq' = Append(inq, dmsg) /\ dpc = "requeue" /\ dpc' = "pick" /\ dmsg' = None
        /\ UNCHANGED <<queue, hbuf, pending, chan, wmsg, arrived, done, lost>>
    BY <1>3 DEF Requeue
  <2>2. dmsg \in Msgs \cup {Wake}
    BY <2>1 DEF TypeInv, HandsFull
  <2>3. Queued(m)' = Queued(m) + Is(dmsg, m) /\ Is(dmsg, m) \in 0 .. 1
    BY <2>1, <2>2, InqGains
  <2>4. Held(m)' = Held(m) /\ Outside(m)' = Outside(m)
    BY <2>1, SummandsKept
  <2>5. AtDispatcher(m) = Is(dmsg, m) /\ AtDispatcher(m)' = 0
    BY <2>1, DispatcherHand
  <2>6. Queued(m) \in Nat /\ Held(m) \in Nat /\ Rest(m) \in Nat /\ Outside(m) \in Nat
    BY SummandsTyped
  <2>7. Rest(m)' = Rest(m) - Is(dmsg, m)
    BY <2>3, <2>4, <2>5, <2>6 DEF Rest
  <2>8. Queued(m) + Held(m) + Rest(m) = 1
    BY DEF Conserved
  <2> QED BY <2>3, <2>4, <2>6, <2>7, <2>8
<1>4. CASE Send
  <2> SUFFICES ASSUME NEW m \in Msgs PROVE Queued(m)' + Held(m)' + Rest(m)' = 1
    BY DEF Conserved
  <2>1. /\ chan' = [chan EXCEPT ![dworker] = Append(@, dmsg)] /\ dpc = "send" /\ dpc' = "mark"
        /\ UNCHANGED <<inq, queue, hbuf, pending, wmsg, arrived, done, lost>>
    BY <1>4 DEF Send
  <2>2. dworker \in Workers /\ dmsg \in Msgs /\ chan \in [Workers -> Seq(Msgs)]
    BY <2>1 DEF TypeInv, TypeOK, HandsFull
  <2>3. /\ chan'[dworker] = Append(chan[dworker], dmsg)
        /\ \A w \in Workers \ {dworker} : chan'[w] = chan[w]
    BY <2>1, <2>2
  <2>4. Occurs(m, chan'[dworker]) = Occurs(m, chan[dworker]) + Is(dmsg, m)
    BY <2>2, <2>3, OccursAppend
  <2>5. /\ InChan(m)' = InChan(m) + Occurs(m, chan'[dworker]) - Occurs(m, chan[dworker])
        /\ InChan(m) \in Nat
    BY <2>2, <2>3, ChanChanged
  <2>6. Is(dmsg, m) \in 0 .. 1 /\ Occurs(m, chan[dworker]) \in Nat
    BY <2>2, OccursFinite, IsCount
  <2>7. InChan(m)' = InChan(m) + Is(dmsg, m)
    BY <2>4, <2>5, <2>6
  <2>8. /\ Queued(m)' = Queued(m) /\ InPending(m)' = InPending(m) /\ InHand(m)' = InHand(m)
        /\ Outside(m)' = Outside(m)
    BY <2>1, SummandsKept
  <2>9. /\ Queued(m) \in Nat /\ Held(m) \in Nat /\ Rest(m) \in Nat /\ Outside(m) \in Nat
        /\ InPending(m) \in Nat /\ InHand(m) \in Nat
    BY SummandsTyped
  <2>10. Held(m)' = Held(m) + Is(dmsg, m)
    <3>1. Held(m)' = InPending(m) + (InChan(m) + Is(dmsg, m)) + InHand(m)
      BY <2>7, <2>8 DEF Held
    <3> QED BY <2>5, <2>6, <2>9, <3>1 DEF Held
  <2>11. AtDispatcher(m) = Is(dmsg, m) /\ AtDispatcher(m)' = 0
    BY <2>1, DispatcherHand
  <2>12. Rest(m)' = Rest(m) - Is(dmsg, m)
    BY <2>6, <2>8, <2>9, <2>11 DEF Rest
  <2>13. Queued(m) + Held(m) + Rest(m) = 1
    BY DEF Conserved
  <2> QED BY <2>6, <2>8, <2>9, <2>10, <2>12, <2>13
<1>5. CASE RemoveDead
  <2> SUFFICES ASSUME NEW m \in Msgs PROVE Queued(m)' + Held(m)' + Rest(m)' = 1
    BY DEF Conserved
  <2> DEFINE c == ChatOf[dmsg]
             X == {pending[c][i] : i \in DOMAIN pending[c]}
             out == Occurs(m, pending[c])
  <2>1. /\ pending' = [pending EXCEPT ![c] = <<>>] /\ lost' = lost \cup X
        /\ dpc = "fail" /\ dpc' = "requeue"
        /\ UNCHANGED <<inq, queue, hbuf, chan, wmsg, arrived, done, dmsg>>
    BY <1>5 DEF RemoveDead
  <2>2. c \in Chats /\ pending \in [Chats -> Seq(Msgs)] /\ pending[c] \in Seq(Msgs)
    BY <2>1, SchedulerAssumption DEF TypeInv, TypeOK, HandsFull
  <2>3. out \in Nat /\ (out = 0 <=> m \notin X)
    BY <2>2, OccursFinite
  <2> HIDE DEF c, X, out
  <2>4. pending'[c] = <<>> /\ \A d \in Chats \ {c} : pending'[d] = pending[d]
    BY <2>1, <2>2
  <2>5. Occurs(m, pending'[c]) = 0
    BY <2>4, OccursEmpty
  <2>6. /\ InPending(m)' = InPending(m) + Occurs(m, pending'[c]) - Occurs(m, pending[c])
        /\ Occurs(m, pending[c]) <= InPending(m)
    BY <2>2, <2>4, PendingChanged
  <2>7. /\ Queued(m) \in Nat /\ Held(m) \in Nat /\ Rest(m) \in Nat /\ Outside(m) \in Nat
        /\ InPending(m) \in Nat /\ InChan(m) \in Nat /\ InHand(m) \in Nat
        /\ AtDispatcher(m) \in Nat
    BY SummandsTyped
  <2>8. InPending(m)' = InPending(m) - out /\ out <= InPending(m)
    BY <2>3, <2>5, <2>6, <2>7 DEF out
  <2>9. /\ Queued(m)' = Queued(m) /\ InChan(m)' = InChan(m) /\ InHand(m)' = InHand(m)
    BY <2>1, SummandsKept
  <2>10. Held(m) = InPending(m) + InChan(m) + InHand(m)
    BY DEF Held
  <2>11. Held(m)' = Held(m) - out
    <3>1. Held(m)' = (InPending(m) - out) + InChan(m) + InHand(m)
      BY <2>8, <2>9 DEF Held
    <3> QED BY <2>3, <2>7, <2>10, <3>1
  <2>12. out \in 0 .. 1 /\ (out = 1 => Outside(m) = 0)
    <3>1. out <= Held(m) /\ Held(m) <= 1
      BY <2>3, <2>7, <2>8, <2>10, Single
    <3> QED BY <2>3, <2>7, <3>1, Single
  <2>13. m \in X <=> out = 1
    BY <2>3, <2>12
  <2>14. Outside(m)' = Outside(m) + out
    BY <2>1, <2>12, <2>13, OutsideMore
  <2>15. AtDispatcher(m)' = AtDispatcher(m)
    BY <2>1, DispatcherHand
  <2>16. Rest(m)' = Rest(m) + out
    BY <2>3, <2>7, <2>14, <2>15 DEF Rest
  <2>17. Queued(m) + Held(m) + Rest(m) = 1
    BY DEF Conserved
  <2> QED BY <2>3, <2>7, <2>9, <2>11, <2>16, <2>17
<1> QED BY <1>1, <1>2, <1>3, <1>4, <1>5 DEF Assign

LEMMA ConservedRedispatch ==
  ASSUME TypeInv, SlotInv, TypeInv', SlotInv', Conserved, Redispatch
  PROVE  Conserved'
<1> USE DEF schedVars, inVars, dVars, hVars, slotVars, wVars, runVars, endVars
<1>1. CASE RedispLock \/ RedispEnd
  <2>1. /\ UNCHANGED <<inq, queue, hbuf, pending, chan, wmsg, arrived, done, lost>>
        /\ dpc \in {"redispLock", "redisp"}
        /\ dpc' = "redisp" \/ dmsg' = None
    BY <1>1 DEF RedispLock, RedispEnd
  <2>2. \A m \in Msgs : AtDispatcher(m)' = AtDispatcher(m)
    BY <2>1, DispatcherHand
  <2> QED BY <2>1, <2>2, Unmoved
<1>2. CASE RedispPop
  <2> SUFFICES ASSUME NEW m \in Msgs PROVE Queued(m)' + Held(m)' + Rest(m)' = 1
    BY DEF Conserved
  <2> DEFINE c == ChatOf[dmsg]
             x == Head(pending[c])
  <2>1. /\ pending' = [pending EXCEPT ![c] = Tail(@)] /\ pending[c] # <<>> /\ dmsg' = x
        /\ dpc = "redisp" /\ dpc' = "redispSend"
        /\ UNCHANGED <<inq, queue, hbuf, chan, wmsg, arrived, done, lost>>
    BY <1>2 DEF RedispPop, MayRedispatch
  <2>2. c \in Chats /\ pending \in [Chats -> Seq(Msgs)] /\ pending[c] \in Seq(Msgs)
    BY <2>1, SchedulerAssumption DEF TypeInv, TypeOK, HandsFull
  <2>3. /\ pending'[c] = Tail(pending[c]) /\ Tail(pending[c]) \in Seq(Msgs)
        /\ \A d \in Chats \ {c} : pending'[d] = pending[d]
    BY <2>1, <2>2
  <2>4. Occurs(m, pending[c]) = Occurs(m, Tail(pending[c])) + Is(x, m)
    BY <2>1, <2>2, OccursTail
  <2>5. Is(x, m) \in 0 .. 1 /\ Occurs(m, Tail(pending[c])) \in Nat
    BY <2>3, OccursFinite, IsCount
  <2> HIDE DEF c, x
  <2>6. InPending(m)' = InPending(m) + Occurs(m, pending'[c]) - Occurs(m, pending[c])
    BY <2>2, <2>3, PendingChanged
  <2>7. /\ Queued(m) \in Nat /\ Held(m) \in Nat /\ Rest(m) \in Nat /\ Outside(m) \in Nat
        /\ InPending(m) \in Nat /\ InChan(m) \in Nat /\ InHand(m) \in Nat
    BY SummandsTyped
  <2>8. InPending(m)' = InPending(m) - Is(x, m)
    BY <2>3, <2>4, <2>5, <2>6, <2>7
  <2>9. /\ Queued(m)' = Queued(m) /\ InChan(m)' = InChan(m) /\ InHand(m)' = InHand(m)
        /\ Outside(m)' = Outside(m)
    BY <2>1, SummandsKept
  <2>10. Held(m)' = Held(m) - Is(x, m)
    <3>1. Held(m)' = (InPending(m) - Is(x, m)) + InChan(m) + InHand(m)
      BY <2>8, <2>9 DEF Held
    <3> QED BY <2>5, <2>7, <3>1 DEF Held
  <2>11. AtDispatcher(m) = 0 /\ AtDispatcher(m)' = Is(x, m)
    BY <2>1, DispatcherHand
  <2>12. Rest(m)' = Rest(m) + Is(x, m)
    BY <2>5, <2>7, <2>9, <2>11 DEF Rest
  <2>13. Queued(m) + Held(m) + Rest(m) = 1
    BY DEF Conserved
  <2> QED BY <2>5, <2>7, <2>9, <2>10, <2>12, <2>13
<1>3. CASE RedispSend
  <2> SUFFICES ASSUME NEW m \in Msgs PROVE Queued(m)' + Held(m)' + Rest(m)' = 1
    BY DEF Conserved
  <2>1. /\ inq' = Append(inq, dmsg) /\ dpc = "redispSend" /\ dpc' = "redisp"
        /\ UNCHANGED <<queue, hbuf, pending, chan, wmsg, arrived, done, lost>>
    BY <1>3 DEF RedispSend
  <2>2. dmsg \in Msgs \cup {Wake}
    BY <2>1 DEF TypeInv, HandsFull
  <2>3. Queued(m)' = Queued(m) + Is(dmsg, m) /\ Is(dmsg, m) \in 0 .. 1
    BY <2>1, <2>2, InqGains
  <2>4. Held(m)' = Held(m) /\ Outside(m)' = Outside(m)
    BY <2>1, SummandsKept
  <2>5. AtDispatcher(m) = Is(dmsg, m) /\ AtDispatcher(m)' = 0
    BY <2>1, DispatcherHand
  <2>6. Queued(m) \in Nat /\ Held(m) \in Nat /\ Rest(m) \in Nat /\ Outside(m) \in Nat
    BY SummandsTyped
  <2>7. Rest(m)' = Rest(m) - Is(dmsg, m)
    BY <2>3, <2>4, <2>5, <2>6 DEF Rest
  <2>8. Queued(m) + Held(m) + Rest(m) = 1
    BY DEF Conserved
  <2> QED BY <2>3, <2>4, <2>6, <2>7, <2>8
<1> QED BY <1>1, <1>2, <1>3 DEF Redispatch

(* The scan moves a buffered message to the list it sends, and reaps only  *)
(* slots that buffer nothing.                                              *)
LEMMA ConservedHousekeeping ==
  ASSUME TypeInv, SlotInv, TypeInv', SlotInv', Conserved, Housekeeping
  PROVE  Conserved'
<1> USE DEF schedVars, inVars, dVars, hVars, slotVars, wVars, runVars, endVars
<1>0. UNCHANGED <<chan, wmsg, arrived, done, dpc, dmsg>>
  BY DEF Housekeeping, Tick, Reap, AddWake, Flush, Sleep, VisitResting, VisitBusy
<1>1. \A m \in Msgs : AtDispatcher(m)' = AtDispatcher(m)
  BY <1>0, SummandsKept
<1>2. CASE Tick
  <2>1. hbuf' = hbuf
    BY <1>2 DEF Tick, SlotInv, HandsEmpty
  <2>2. UNCHANGED <<inq, queue, pending, lost>>
    BY <1>2 DEF Tick
  <2> QED BY <1>0, <1>1, <2>1, <2>2, Unmoved
<1>3. CASE Sleep
  <2>1. UNCHANGED <<inq, queue, hbuf, pending, lost>>
    BY <1>3 DEF Sleep
  <2> QED BY <1>0, <1>1, <2>1, Unmoved
<1>4. ASSUME NEW c \in Chats, VisitBusy(c) PROVE Conserved'
  <2>1. UNCHANGED <<inq, queue, hbuf, pending, lost>>
    BY <1>4 DEF VisitBusy
  <2> QED BY <1>0, <1>1, <2>1, Unmoved
<1>5. CASE Reap
  <2>1. /\ pending' = [c \in Chats |-> IF c \in hreap THEN <<>> ELSE pending[c]]
        /\ lost' = lost \cup UNION {{pending[c][i] : i \in DOMAIN pending[c]} : c \in hreap}
        /\ UNCHANGED <<inq, queue, hbuf>> /\ hpc = "scan"
    BY <1>5 DEF Reap
  <2>2. hreap \subseteq Chats /\ pending \in [Chats -> Seq(Msgs)]
    BY DEF TypeInv, TypeOK
  <2>3. \A c \in hreap : pending[c] = <<>>
    BY <2>1, <2>2 DEF SlotInv, BuffersOwn
  <2>4. pending' = pending
    BY <2>1, <2>2, <2>3
  <2>5. DOMAIN <<>> = {}
    OBVIOUS
  <2>6. \A c \in hreap : {pending[c][i] : i \in DOMAIN pending[c]} = {}
    BY <2>3, <2>5
  <2>7. lost' = lost
    BY <2>1, <2>6
  <2> QED BY <1>0, <1>1, <2>1, <2>4, <2>7, Unmoved
<1>6. CASE AddWake \/ Flush
  <2> SUFFICES ASSUME NEW m \in Msgs PROVE Queued(m)' + Held(m)' + Rest(m)' = 1
    BY DEF Conserved
  <2>1. UNCHANGED <<queue, pending, lost>>
    BY <1>6 DEF AddWake, Flush
  <2>2. Held(m)' = Held(m) /\ Outside(m)' = Outside(m)
    BY <1>0, <2>1, SummandsKept
  <2>3. Rest(m)' = Rest(m)
    BY <1>1, <2>2 DEF Rest
  <2>4. Queued(m)' = Queued(m)
    <3>1. CASE Flush
      BY <2>1, <3>1, HbufToInq DEF Flush
    <3>2. CASE AddWake /\ queue = <<>>
      BY <2>1, <3>2, SummandsKept DEF AddWake
    <3>3. CASE AddWake /\ queue # <<>>
      <4>1. hbuf' = Append(hbuf, Wake) /\ UNCHANGED inq
        BY <3>3 DEF AddWake
      <4>2. Queued(m)' = Queued(m) + Is(Wake, m)
        BY <2>1, <4>1, HbufGains
      <4>3. Is(Wake, m) = 0
        BY DispatchAssumption DEF Is
      <4> QED BY <4>2, <4>3, SummandsTyped
    <3> QED BY <1>6, <3>1, <3>2, <3>3
  <2>5. Queued(m) + Held(m) + Rest(m) = 1
    BY DEF Conserved
  <2> QED BY <2>2, <2>3, <2>4, <2>5
<1>7. ASSUME NEW c \in Chats, VisitResting(c), pending[c] = <<>> PROVE Conserved'
  <2>1. UNCHANGED <<inq, queue, hbuf, pending, lost>>
    BY <1>7 DEF VisitResting, MarkComplete
  <2> QED BY <1>0, <1>1, <2>1, Unmoved
<1>8. ASSUME NEW c \in Chats, VisitResting(c), pending[c] # <<>> PROVE Conserved'
  <2> SUFFICES ASSUME NEW m \in Msgs PROVE Queued(m)' + Held(m)' + Rest(m)' = 1
    BY DEF Conserved
  <2> DEFINE x == Head(pending[c])
  <2>1. /\ hbuf' = Append(hbuf, x) /\ pending' = [pending EXCEPT ![c] = Tail(@)]
        /\ UNCHANGED <<inq, queue, lost>>
    BY <1>8 DEF VisitResting, MarkComplete
  <2>2. pending \in [Chats -> Seq(Msgs)] /\ pending[c] \in Seq(Msgs)
    BY DEF TypeInv, TypeOK
  <2>3. /\ pending'[c] = Tail(pending[c]) /\ Tail(pending[c]) \in Seq(Msgs)
        /\ \A d \in Chats \ {c} : pending'[d] = pending[d]
    BY <1>8, <2>1, <2>2
  <2>4. Occurs(m, pending[c]) = Occurs(m, Tail(pending[c])) + Is(x, m)
    BY <1>8, <2>2, OccursTail
  <2>5. Is(x, m) \in 0 .. 1 /\ Occurs(m, Tail(pending[c])) \in Nat
    BY <2>3, OccursFinite, IsCount
  <2>6. x \in Msgs \cup {Wake}
    BY <1>8, <2>2, SeqParts
  <2> HIDE DEF x
  <2>7. Queued(m)' = Queued(m) + Is(x, m)
    BY <2>1, <2>6, HbufGains
  <2>8. InPending(m)' = InPending(m) + Occurs(m, pending'[c]) - Occurs(m, pending[c])
    BY <2>2, <2>3, PendingChanged
  <2>9. /\ Queued(m) \in Nat /\ Held(m) \in Nat /\ Rest(m) \in Nat /\ Outside(m) \in Nat
        /\ InPending(m) \in Nat /\ InChan(m) \in Nat /\ InHand(m) \in Nat
    BY SummandsTyped
  <2>10. InPending(m)' = InPending(m) - Is(x, m)
    BY <2>3, <2>4, <2>5, <2>8, <2>9
  <2>11. InChan(m)' = InChan(m) /\ InHand(m)' = InHand(m) /\ Outside(m)' = Outside(m)
    BY <1>0, <2>1, SummandsKept
  <2>12. Held(m)' = Held(m) - Is(x, m)
    <3>1. Held(m)' = (InPending(m) - Is(x, m)) + InChan(m) + InHand(m)
      BY <2>10, <2>11 DEF Held
    <3> QED BY <2>5, <2>9, <3>1 DEF Held
  <2>13. Rest(m)' = Rest(m)
    BY <1>1, <2>11 DEF Rest
  <2>14. Queued(m) + Held(m) + Rest(m) = 1
    BY DEF Conserved
  <2> QED BY <2>5, <2>7, <2>9, <2>12, <2>13, <2>14
<1> QED BY <1>2, <1>3, <1>4, <1>5, <1>6, <1>7, <1>8 DEF Housekeeping

(* A worker takes a message from its channel into its hands and lays it    *)
(* down when it is done, or loses it with its channel in a panic.          *)
LEMMA ConservedWorker ==
  ASSUME TypeInv, SlotInv, TypeInv', SlotInv', Conserved, NEW w \in Workers, Worker(w)
  PROVE  Conserved'
<1> USE DEF schedVars, inVars, dVars, hVars, slotVars, wVars, runVars, endVars
<1>0. UNCHANGED <<inq, queue, hbuf, pending, arrived, dpc, dmsg>>
  BY DEF Worker, WorkerStep, RemoteEnds, AgentEnds, Dequeue, End, SlashCommand,
         Offline, Dismiss, ClearInterrupt, Acquire, Route, RemoteAnswer,
         RemoteFallback, StartLocal, Succeed, Cancelled, Fail, Timeout, RunEnds,
         Panic, SetState, CleanUp
<1>1. \A m \in Msgs : AtDispatcher(m)' = AtDispatcher(m)
  BY <1>0, SummandsKept
<1>2. /\ chan \in [Workers -> Seq(Msgs)] /\ chan[w] \in Seq(Msgs)
      /\ wmsg[w] \in Msgs \cup {None} /\ (wpc[w] \notin {"gone", "recv"} => wmsg[w] \in Msgs)
  BY DEF TypeInv, TypeOK, HandsFull
<1>3. CASE \/ End(w) \/ ClearInterrupt(w) \/ Acquire(w) \/ Route(w) \/ RemoteEnds(w)
           \/ StartLocal(w) \/ AgentEnds(w) \/ SetState(w)
  <2>1. UNCHANGED <<chan, wmsg, done, lost>>
    BY <1>3 DEF RemoteEnds, AgentEnds, End, ClearInterrupt, Acquire, Route, RemoteAnswer,
         RemoteFallback, StartLocal, Succeed, Cancelled, Fail, Timeout, RunEnds, SetState
  <2> QED BY <1>0, <1>1, <2>1, Unmoved
<1>4. CASE Dequeue(w)
  <2> SUFFICES ASSUME NEW m \in Msgs PROVE Queued(m)' + Held(m)' + Rest(m)' = 1
    BY DEF Conserved
  <2> DEFINE x == Head(chan[w])
  <2>1. /\ wmsg' = [wmsg EXCEPT ![w] = x] /\ chan' = [chan EXCEPT ![w] = Tail(@)]
        /\ chan[w] # <<>> /\ wmsg[w] = None /\ UNCHANGED <<done, lost>>
    BY <1>4 DEF Dequeue, SlotInv, HandsEmpty
  <2>2. /\ x \in Msgs \cup {None} /\ Tail(chan[w]) \in Seq(Msgs) /\ chan'[w] = Tail(chan[w])
        /\ \A v \in Workers \ {w} : chan'[v] = chan[v]
    BY <1>2, <2>1, SeqParts
  <2>3. Occurs(m, chan[w]) = Occurs(m, Tail(chan[w])) + Is(x, m)
    BY <1>2, <2>1, OccursTail
  <2>4. Is(x, m) \in 0 .. 1 /\ Occurs(m, Tail(chan[w])) \in Nat
    BY <2>2, OccursFinite, IsCount
  <2> HIDE DEF x
  <2>5. /\ InChan(m)' = InChan(m) + Occurs(m, chan'[w]) - Occurs(m, chan[w])
        /\ InChan(m) \in Nat
    BY <2>2, ChanChanged
  <2>6. InChan(m)' = InChan(m) - Is(x, m)
    BY <2>2, <2>3, <2>4, <2>5
  <2>7. /\ InPending(m) \in Nat /\ InHand(m) \in Nat
    BY SummandsTyped
  <2>8. InHand(m)' = InHand(m) + Is(x, m)
    <3>1. InHand(m)' = InHand(m) + Is(x, m) - Is(wmsg[w], m)
      BY <2>1, <2>2, HandTaken
    <3>2. Is(wmsg[w], m) = 0
      BY <2>1, DispatchAssumption DEF Is
    <3> QED BY <2>4, <2>7, <3>1, <3>2
  <2>9. Queued(m)' = Queued(m) /\ InPending(m)' = InPending(m) /\ Outside(m)' = Outside(m)
    BY <1>0, <2>1, SummandsKept
  <2>10. Held(m)' = Held(m)
    <3>1. Held(m)' = InPending(m) + (InChan(m) - Is(x, m)) + (InHand(m) + Is(x, m))
      BY <2>6, <2>8, <2>9 DEF Held
    <3> QED BY <2>4, <2>5, <2>7, <3>1 DEF Held
  <2>11. Rest(m)' = Rest(m)
    BY <1>1, <2>9 DEF Rest
  <2>12. Queued(m) + Held(m) + Rest(m) = 1
    BY DEF Conserved
  <2> QED BY <2>9, <2>10, <2>11, <2>12
<1>5. ASSUME wmsg' = [wmsg EXCEPT ![w] = None], done' = done \cup {wmsg[w]},
             UNCHANGED <<chan, lost>>
      PROVE  Conserved'
  <2> SUFFICES ASSUME NEW m \in Msgs PROVE Queued(m)' + Held(m)' + Rest(m)' = 1
    BY DEF Conserved
  <2> DEFINE x == wmsg[w]
  <2>1. Is(x, m) \in 0 .. 1 /\ (m \in {x} <=> Is(x, m) = 1)
    BY IsCount
  <2>2. /\ InPending(m) \in Nat /\ InChan(m) \in Nat /\ InHand(m) \in Nat
        /\ Queued(m) \in Nat /\ Held(m) \in Nat /\ Rest(m) \in Nat /\ Outside(m) \in Nat
        /\ AtDispatcher(m) \in Nat
    BY SummandsTyped
  <2>3. InHand(m)' = InHand(m) - Is(x, m) /\ InHand(m)' \in Nat
    <3>1. InHand(m)' = InHand(m) + Is(None, m) - Is(x, m) /\ InHand(m)' \in Nat
      BY <1>5, HandTaken
    <3>2. Is(None, m) = 0
      BY DispatchAssumption DEF Is
    <3> QED BY <2>1, <2>2, <3>1, <3>2
  <2> HIDE DEF x
  <2>4. Queued(m)' = Queued(m) /\ InPending(m)' = InPending(m) /\ InChan(m)' = InChan(m)
    BY <1>0, <1>5, SummandsKept
  <2>5. Held(m) = InPending(m) + InChan(m) + InHand(m)
    BY DEF Held
  <2>6. Held(m)' = Held(m) - Is(x, m)
    <3>1. Held(m)' = InPending(m) + InChan(m) + (InHand(m) - Is(x, m))
      BY <2>3, <2>4 DEF Held
    <3> QED BY <2>1, <2>2, <2>5, <3>1
  <2>7. Is(x, m) = 1 => Outside(m) = 0
    <3>1. Is(x, m) = 1 => Held(m) > 0
      BY <2>1, <2>2, <2>3, <2>5
    <3> QED BY <3>1, Single
  <2>8. Outside(m)' = Outside(m) + Is(x, m)
    BY <1>0, <1>5, <2>1, <2>7, OutsideMore DEF x
  <2>9. Rest(m)' = Rest(m) + Is(x, m)
    <3>1. Rest(m)' = AtDispatcher(m) + (Outside(m) + Is(x, m))
      BY <1>1, <2>8 DEF Rest
    <3> QED BY <2>1, <2>2, <3>1 DEF Rest
  <2>10. Queued(m) + Held(m) + Rest(m) = 1
    BY DEF Conserved
  <2> QED BY <2>1, <2>2, <2>4, <2>6, <2>9, <2>10
<1>6. CASE SlashCommand(w) \/ Offline(w)
  BY <1>5, <1>6 DEF SlashCommand, Offline, Dismiss
<1>7. CASE CleanUp(w)
  BY <1>5, <1>7 DEF CleanUp
<1>8. CASE Panic(w)
  <2> SUFFICES ASSUME NEW m \in Msgs PROVE Queued(m)' + Held(m)' + Rest(m)' = 1
    BY DEF Conserved
  <2> DEFINE X == {wmsg[w]} \cup {chan[w][i] : i \in DOMAIN chan[w]}
             x == wmsg[w]
             k == Occurs(m, chan[w])
             n == Is(x, m) + k
  <2>1. /\ wmsg' = [wmsg EXCEPT ![w] = None] /\ chan' = [chan EXCEPT ![w] = <<>>]
        /\ lost' = lost \cup X /\ UNCHANGED done
    BY <1>8 DEF Panic
  <2>2. Is(x, m) \in 0 .. 1 /\ (x = m <=> Is(x, m) = 1)
    BY IsCount
  <2>3. k \in Nat /\ (k = 0 <=> \A i \in DOMAIN chan[w] : chan[w][i] # m)
    BY <1>2, OccursFinite
  <2>4. m \in X <=> Is(x, m) = 1 \/ k # 0
    BY <2>2, <2>3
  <2>5. /\ InPending(m) \in Nat /\ InChan(m) \in Nat /\ InHand(m) \in Nat
        /\ Queued(m) \in Nat /\ Held(m) \in Nat /\ Rest(m) \in Nat /\ Outside(m) \in Nat
        /\ AtDispatcher(m) \in Nat
    BY SummandsTyped
  <2>6. InHand(m)' = InHand(m) - Is(x, m) /\ InHand(m)' \in Nat
    <3>1. InHand(m)' = InHand(m) + Is(None, m) - Is(x, m) /\ InHand(m)' \in Nat
      BY <2>1, HandTaken
    <3>2. Is(None, m) = 0
      BY DispatchAssumption DEF Is
    <3> QED BY <2>2, <2>5, <3>1, <3>2
  <2> HIDE DEF X, x, k
  <2>7. InChan(m)' = InChan(m) - k /\ InChan(m)' \in Nat
    <3>1. chan'[w] = <<>> /\ \A v \in Workers \ {w} : chan'[v] = chan[v]
      BY <1>2, <2>1
    <3>2. Occurs(m, chan'[w]) = 0
      BY <3>1, OccursEmpty
    <3>3. /\ InChan(m)' = InChan(m) + Occurs(m, chan'[w]) - Occurs(m, chan[w])
          /\ InChan(m)' \in Nat
      BY <3>1, ChanChanged
    <3> QED BY <2>3, <2>5, <3>2, <3>3 DEF k
  <2>8. Queued(m)' = Queued(m) /\ InPending(m)' = InPending(m)
    BY <1>0, SummandsKept
  <2>9. Held(m) = InPending(m) + InChan(m) + InHand(m)
    BY DEF Held
  <2>10. Held(m)' = Held(m) - n /\ n <= Held(m)
    <3>1. Held(m)' = InPending(m) + (InChan(m) - k) + (InHand(m) - Is(x, m))
      BY <2>6, <2>7, <2>8 DEF Held
    <3>2. k <= InChan(m) /\ Is(x, m) <= InHand(m)
      BY <2>2, <2>3, <2>5, <2>6, <2>7
    <3> QED BY <2>2, <2>3, <2>5, <2>9, <3>1, <3>2
  <2>11. n \in 0 .. 1 /\ (n = 1 => Outside(m) = 0) /\ (m \in X <=> n = 1)
    <3>1. Held(m) <= 1 /\ (Held(m) > 0 => Outside(m) = 0)
      BY Single
    <3> QED BY <2>2, <2>3, <2>4, <2>5, <2>10, <3>1
  <2> HIDE DEF n
  <2>12. Outside(m)' = Outside(m) + n
    BY <1>0, <2>1, <2>11, OutsideMore
  <2>13. Rest(m)' = Rest(m) + n
    <3>1. Rest(m)' = AtDispatcher(m) + (Outside(m) + n)
      BY <1>1, <2>12 DEF Rest
    <3> QED BY <2>5, <2>11, <3>1 DEF Rest
  <2>14. Queued(m) + Held(m) + Rest(m) = 1
    BY DEF Conserved
  <2> QED BY <2>5, <2>8, <2>10, <2>11, <2>13, <2>14
<1> QED BY <1>3, <1>4, <1>6, <1>7, <1>8 DEF Worker, WorkerStep

LEMMA ConservedInit == Init => Conserved
<1> SUFFICES ASSUME Init, NEW m \in Msgs PROVE Queued(m) + Held(m) + Rest(m) = 1
  BY DEF Conserved
<1>1. /\ inq = <<>> /\ queue = <<>> /\ hbuf = <<>> /\ dmsg = None /\ dpc = "recv"
      /\ pending[ChatOf[m]] = <<>>
      /\ arrived = {} /\ done = {} /\ lost = {}
  BY SchedulerAssumption DEF Init, SchedulerInit
<1>2. Queued(m) = 0
  BY <1>1, OccursEmpty DEF Queued
<1>3. InPending(m) = 0
  BY <1>1, TypeInit, SlotInit, SummandsTyped, OccursEmpty
<1>4. InChan(m) = 0
  <2>1. DOMAIN <<>> = {} /\ \A w \in Workers : chan[w] = <<>>
    BY DEF Init
  <2>2. Pairs(m, chan, Workers, ChanCap) = {}
    BY <2>1 DEF Pairs
  <2> QED BY <2>2, FS_EmptySet DEF InChan
<1>5. InHand(m) = 0
  <2>1. {w \in Workers : wmsg[w] = m} = {}
    BY DispatchAssumption DEF Init
  <2> QED BY <2>1, FS_EmptySet DEF InHand, HandsWith
<1>6. AtDispatcher(m) = 0 /\ Outside(m) = 1
  BY <1>1, DispatcherHand DEF Outside
<1> QED BY <1>2, <1>3, <1>4, <1>5, <1>6 DEF Held, Rest

LEMMA ConservedNext ==
  TypeInv /\ SlotInv /\ Conserved /\ [Next]_vars /\ TypeInv' /\ SlotInv' => Conserved'
<1> SUFFICES ASSUME TypeInv, SlotInv, Conserved, [Next]_vars, TypeInv', SlotInv'
             PROVE  Conserved'
  OBVIOUS
<1> USE DEF schedVars, inVars, dVars, hVars, slotVars, wVars, runVars, endVars
<1>1. CASE UNCHANGED <<inq, queue, hbuf, pending, chan, wmsg, arrived, done, lost, dpc, dmsg>>
  <2>1. \A m \in Msgs : AtDispatcher(m)' = AtDispatcher(m)
    BY <1>1, SummandsKept
  <2> QED BY <1>1, <2>1, Unmoved
<1>2. CASE Elapse \/ UNCHANGED vars
  BY <1>1, <1>2 DEF Elapse, vars
<1>3. ASSUME NEW i \in icpt, Intercept(i) PROVE Conserved'
  BY <1>1, <1>3 DEF Intercept
<1>4. CASE Dispatcher
  BY <1>4, ConservedReceive, ConservedChoose, ConservedStop, ConservedAssign,
     ConservedRedispatch DEF Dispatcher
<1> QED
  BY <1>2, <1>3, <1>4, ConservedArrive, ConservedHousekeeping, ConservedWorker DEF Next

LEMMA ConservedIsMessageConserved == TypeInv /\ SlotInv /\ Conserved => MessageConserved
<1> SUFFICES ASSUME TypeInv, SlotInv, Conserved, NEW m \in Msgs
             PROVE  1 = Places(m) + (IF m \notin arrived THEN 1 ELSE 0)
                          + (IF m \in done THEN 1 ELSE 0) + (IF m \in lost THEN 1 ELSE 0)
  BY DEF MessageConserved
<1> DEFINE q1 == Occurs(m, inq)
           q2 == Occurs(m, queue)
           q3 == Occurs(m, hbuf)
           o1 == IF m \notin arrived THEN 1 ELSE 0
           o2 == IF m \in done THEN 1 ELSE 0
           o3 == IF m \in lost THEN 1 ELSE 0
<1>1. Places(m) = q1 + q2 + q3 + InPending(m) + InChan(m) + InHand(m) + AtDispatcher(m)
  BY DEF Places, InPending, InChan, InHand, HandsWith, Pairs, AtDispatcher
<1>2. /\ q1 \in Nat /\ q2 \in Nat /\ q3 \in Nat /\ InPending(m) \in Nat /\ InChan(m) \in Nat
      /\ InHand(m) \in Nat /\ AtDispatcher(m) \in Nat
  BY SummandsTyped
<1>3. o1 \in Nat /\ o2 \in Nat /\ o3 \in Nat
  OBVIOUS
<1>4. Queued(m) = q1 + q2 + q3 /\ Outside(m) = o1 + o2 + o3
  BY DEF Queued, Outside
<1>5. Held(m) = InPending(m) + InChan(m) + InHand(m) /\ Rest(m) = AtDispatcher(m) + Outside(m)
  BY DEF Held, Rest
<1>6. Queued(m) + Held(m) + Rest(m) = 1
  BY DEF Conserved
<1> HIDE DEF q1, q2, q3, o1, o2, o3
<1>7. Places(m) + o1 + o2 + o3 = 1
  BY <1>1, <1>2, <1>3, <1>4, <1>5, <1>6
<1> QED BY <1>7 DEF o1, o2, o3

(* A message is in exactly one place: not yet sent, in one of the queues   *)
(* or in the hands of one task, finished, or lost, whatever the tasks of   *)
(* the dispatcher, the housekeeping and the workers do in between.         *)
THEOREM MessagesConserved == Spec => []MessageConserved
<1>1. Init => TypeInv /\ SlotInv /\ Conserved
  BY TypeInit, SlotInit, ConservedInit
<1>2. TypeInv /\ SlotInv /\ Conserved /\ [Next]_vars => (TypeInv /\ SlotInv /\ Conserved)'
  BY TypeNext, SlotNext, ConservedNext
<1> QED BY <1>1, <1>2, ConservedIsMessageConserved, PTL DEF Spec

-----------------------------------------------------------------------------
(* The life of a message.  What was started and has not ended is in the    *)
(* hands of a worker that holds a permit; a worker that is about to finish *)
(* its message has published a terminal event for it; an interceptor's     *)
(* message has come.                                                       *)
Begun == \A m \in Msgs : \/ started[m] = 0 \/ m \in done \cup lost
                         \/ \E w \in Workers : wmsg[w] = m /\ wpc[w] \in Holding
Reported == \A w \in Workers :
              wpc[w] \in {"postIdle", "postFailed", "clean"} => answers[wmsg[w]] > 0
Intercepted == \A i \in icpt : i.msg \in arrived

LifeInv == Begun /\ Reported /\ Intercepted

LEMMA LifeInvInit == Init => LifeInv
BY DEF Init, LifeInv, Begun, Reported, Intercepted, Holding

LEMMA AnsweredMore ==
  ASSUME TypeInv, NEW m \in Msgs
  PROVE  /\ Answered(m)[m] = IF answers[m] < AnswerCap THEN answers[m] + 1 ELSE answers[m]
         /\ Answered(m)[m] > 0
         /\ \A n \in Msgs : answers[n] > 0 => Answered(m)[n] > 0
         /\ \A n \in Msgs \ {m} : Answered(m)[n] = answers[n]
<1>1. answers \in [Msgs -> 0 .. 2]
  BY DEF TypeInv, TypeOK, AnswerCap
<1>2. /\ Answered(m)[m] = IF answers[m] < 2 THEN answers[m] + 1 ELSE answers[m]
      /\ \A n \in Msgs \ {m} : Answered(m)[n] = answers[n]
  BY <1>1 DEF Answered, AnswerCap
<1>3. Answered(m)[m] > 0
  BY <1>1, <1>2
<1>4. \A n \in Msgs : answers[n] > 0 => Answered(m)[n] > 0
  BY <1>2, <1>3
<1> QED BY <1>2, <1>3, <1>4 DEF AnswerCap

(* A step after which every message is in the same hands.                  *)
LEMMA LifeInvKept ==
  ASSUME TypeInv, LifeInv, UNCHANGED <<wmsg, started>>, done \subseteq done', lost \subseteq lost',
         arrived \subseteq arrived', \A m \in Msgs : answers[m] > 0 => answers'[m] > 0,
         \A w \in Workers : wpc'[w] = wpc[w] \/ (wpc[w] = "gone" /\ wpc'[w] = "recv"),
         \A i \in icpt' : i \in icpt \/ i.msg \in arrived
  PROVE  LifeInv'
<1>1. Begun'
  BY DEF LifeInv, Begun, Holding
<1>2. Reported'
  BY DEF LifeInv, Reported, TypeInv, HandsFull
<1>3. Intercepted'
  BY DEF LifeInv, Intercepted
<1> QED BY <1>1, <1>2, <1>3 DEF LifeInv

LEMMA LifeInvDispatcher ==
  ASSUME TypeInv, SlotInv, Conserved, LifeInv, Dispatcher
  PROVE  LifeInv'
<1> USE DEF schedVars, inVars, dVars, hVars, slotVars, wVars, runVars, endVars
<1>1. UNCHANGED <<wmsg, started, arrived>>
  BY DEF Dispatcher, Receive, Choose, Stop, Assign, Redispatch, RecvWake, RecvPush,
         RecvOverload, PickNext, PickNone, Ensure, FindWorker, CreateWorker, ActStop,
         ActBuffer, ActAssign, StopIdle, StopBusy, StopCancel, StopWrite, Send, SendFails,
         RemoveDead, Requeue, Mark, RedispLock, RedispPop, RedispSend, RedispEnd
<1>2. done \subseteq done' /\ lost \subseteq lost'
  BY DEF Dispatcher, Receive, Choose, Stop, Assign, Redispatch, RecvWake, RecvPush,
         RecvOverload, PickNext, PickNone, Ensure, FindWorker, CreateWorker, ActStop,
         ActBuffer, ActAssign, StopIdle, StopBusy, StopCancel, StopWrite, Send, SendFails,
         RemoveDead, Requeue, Mark, RedispLock, RedispPop, RedispSend, RedispEnd
<1>3. answers' = answers \/ \E m \in Msgs : answers' = Answered(m)
  <2>1. CASE RecvOverload
    <3>1. Head(inq) \in Msgs
      BY <2>1, SeqParts DEF RecvOverload, TypeInv, TypeOK
    <3> QED BY <2>1, <3>1 DEF RecvOverload
  <2>2. CASE StopIdle \/ StopWrite
    BY <2>2 DEF StopIdle, StopWrite, TypeInv, HandsFull
  <2>3. CASE ~(RecvOverload \/ StopIdle \/ StopWrite)
    BY <2>3 DEF Dispatcher, Receive, Choose, Stop, Assign, Redispatch, RecvWake, RecvPush,
         PickNext, PickNone, Ensure, FindWorker, CreateWorker, ActStop,
         ActBuffer, ActAssign, StopBusy, StopCancel, Send, SendFails,
         RemoveDead, Requeue, Mark, RedispLock, RedispPop, RedispSend, RedispEnd
  <2> QED BY <2>1, <2>2, <2>3
<1>4. \A m \in Msgs : answers[m] > 0 => answers'[m] > 0
  BY <1>3, AnsweredMore
<1>5. \A w \in Workers : wpc'[w] = wpc[w] \/ (wpc[w] = "gone" /\ wpc'[w] = "recv")
  <2>1. CASE CreateWorker /\ Ensure
    <3>1. PICK v \in Workers : wpc[v] = "gone" /\ wpc' = [wpc EXCEPT ![v] = "recv"]
      BY <2>1 DEF CreateWorker, Free
    <3> QED BY <3>1 DEF TypeInv, TypeOK
  <2>2. CASE ~(CreateWorker /\ Ensure)
    <3>1. UNCHANGED wpc
      BY <2>2 DEF Dispatcher, Receive, Choose, Stop, Assign, Redispatch, RecvWake, RecvPush,
         RecvOverload, PickNext, PickNone, Ensure, FindWorker, ActStop,
         ActBuffer, ActAssign, StopIdle, StopBusy, StopCancel, StopWrite, Send, SendFails,
         RemoveDead, Requeue, Mark, RedispLock, RedispPop, RedispSend, RedispEnd
    <3> QED BY <3>1
  <2> QED BY <2>1, <2>2
<1>6. \A i \in icpt' : i \in icpt \/ i.msg \in arrived
  <2>1. CASE ActBuffer
    <3>1. dpc = "act" /\ dmsg \in Msgs
      BY <2>1 DEF ActBuffer, TypeInv, HandsFull
    <3>2. AtDispatcher(dmsg) = 1
      BY <3>1 DEF AtDispatcher
    <3>3. Outside(dmsg) = 0
      BY <3>1, <3>2, Single
    <3>4. dmsg \in arrived
      <4>1. dmsg \notin arrived => Outside(dmsg) # 0
        BY DEF Outside
      <4> QED BY <3>3, <4>1
    <3>5. icpt' = icpt \/ icpt' = icpt \cup {[msg |-> dmsg, worker |-> dworker]}
      BY <2>1 DEF ActBuffer
    <3> QED BY <3>4, <3>5
  <2>2. CASE ~ActBuffer
    <3>1. UNCHANGED icpt
      BY <2>2 DEF Dispatcher, Receive, Choose, Stop, Assign, Redispatch, RecvWake, RecvPush,
         RecvOverload, PickNext, PickNone, Ensure, FindWorker, CreateWorker, ActStop,
         ActAssign, StopIdle, StopBusy, StopCancel, StopWrite, Send, SendFails,
         RemoveDead, Requeue, Mark, RedispLock, RedispPop, RedispSend, RedispEnd
    <3> QED BY <3>1
  <2> QED BY <2>1, <2>2
<1> QED BY <1>1, <1>2, <1>4, <1>5, <1>6, LifeInvKept

LEMMA LifeInvWorker ==
  ASSUME TypeInv, LifeInv, NEW w \in Workers, Worker(w)
  PROVE  LifeInv'
<1> USE DEF schedVars, inVars, dVars, hVars, slotVars, wVars, runVars, endVars
<1>0. /\ wmsg \in [Workers -> Msgs \cup {None}] /\ wpc \in [Workers -> WorkerPlaces]
      /\ started \in [Msgs -> 0 .. AnswerCap] /\ answers \in [Msgs -> 0 .. AnswerCap]
  BY DEF TypeInv, TypeOK
<1>1. Intercepted'
  <2>1. UNCHANGED <<icpt, arrived>>
    BY DEF Worker, WorkerStep, RemoteEnds, AgentEnds, Dequeue, End, SlashCommand,
         Offline, Dismiss, ClearInterrupt, Acquire, Route, RemoteAnswer,
         RemoteFallback, StartLocal, Succeed, Cancelled, Fail, Timeout, RunEnds,
         Panic, SetState, CleanUp
  <2> QED BY <2>1 DEF LifeInv, Intercepted
<1>2. wpc[w] \notin {"gone", "recv"} => wmsg[w] \in Msgs
  BY DEF TypeInv, HandsFull
(* A worker that moves on with its message.                                *)
<1>3. ASSUME NEW place, wpc' = [wpc EXCEPT ![w] = place], UNCHANGED <<wmsg, done, lost>>,
             \/ started' = started
             \/ place \in Holding /\ started' = [started EXCEPT ![wmsg[w]] =
                                                   IF @ < AnswerCap THEN @ + 1 ELSE @],
             wpc[w] \in Holding => place \in Holding,
             answers' = answers \/ answers' = Answered(wmsg[w]),
             wmsg[w] \in Msgs \/ UNCHANGED <<answers, started>>,
             place \in {"postIdle", "postFailed"} => answers' = Answered(wmsg[w]) /\ wmsg[w] \in Msgs,
             place = "clean" => wpc[w] \in {"postIdle", "postFailed"}
      PROVE  LifeInv'
  <2>1. Begun'
    <3> SUFFICES ASSUME NEW m \in Msgs, started'[m] # 0, m \notin done' \cup lost'
                 PROVE  \E v \in Workers : wmsg'[v] = m /\ wpc'[v] \in Holding
      BY DEF Begun
    <3>1. CASE started[m] # 0
      <4>1. PICK v \in Workers : wmsg[v] = m /\ wpc[v] \in Holding
        BY <1>3, <3>1 DEF LifeInv, Begun
      <4> QED BY <1>0, <1>3, <4>1
    <3>2. CASE started[m] = 0
      <4>1. m = wmsg[w] /\ place \in Holding
        BY <1>0, <1>3, <3>2
      <4> QED BY <1>0, <1>3, <4>1
    <3> QED BY <3>1, <3>2
  <2>2. Reported'
    <3>1. \A n \in Msgs : answers[n] > 0 => answers'[n] > 0
      BY <1>3, AnsweredMore
    <3>2. \A v \in Workers \ {w} : wpc'[v] = wpc[v]
      BY <1>0, <1>3
    <3>3. wpc'[w] \in {"postIdle", "postFailed", "clean"} => answers'[wmsg[w]] > 0
      <4>1. CASE place \in {"postIdle", "postFailed"}
        BY <1>3, <4>1, AnsweredMore
      <4>2. CASE place = "clean"
        BY <1>2, <1>3, <3>1, <4>2 DEF LifeInv, Reported
      <4> QED BY <1>0, <1>3, <4>1, <4>2
    <3> QED BY <1>3, <3>1, <3>2, <3>3 DEF LifeInv, Reported, TypeInv, HandsFull
  <2> QED BY <1>1, <2>1, <2>2 DEF LifeInv
(* A worker that takes up a message or lays one down.                      *)
<1>4. ASSUME NEW x, wmsg' = [wmsg EXCEPT ![w] = x], NEW place \in {"gone", "recv", "check"},
             wpc' = [wpc EXCEPT ![w] = place], UNCHANGED started,
             done \subseteq done', lost \subseteq lost',
             wpc[w] \in Holding => wmsg[w] \in done' \cup lost',
             answers' = answers \/ (wmsg[w] \in Msgs /\ answers' = Answered(wmsg[w]))
      PROVE  LifeInv'
  <2>1. Begun'
    <3> SUFFICES ASSUME NEW m \in Msgs, started[m] # 0, m \notin done' \cup lost'
                 PROVE  \E v \in Workers : wmsg'[v] = m /\ wpc'[v] \in Holding
      BY <1>4 DEF Begun
    <3>1. PICK v \in Workers : wmsg[v] = m /\ wpc[v] \in Holding
      BY <1>4 DEF LifeInv, Begun
    <3> QED BY <1>0, <1>4, <3>1
  <2>2. Reported'
    <3>1. \A n \in Msgs : answers[n] > 0 => answers'[n] > 0
      BY <1>4, AnsweredMore
    <3>2. \A v \in Workers \ {w} : wpc'[v] = wpc[v] /\ wmsg'[v] = wmsg[v]
      BY <1>0, <1>4
    <3>3. wpc'[w] \notin {"postIdle", "postFailed", "clean"}
      BY <1>0, <1>4
    <3> QED BY <3>1, <3>2, <3>3 DEF LifeInv, Reported, TypeInv, HandsFull
  <2> QED BY <1>1, <2>1, <2>2 DEF LifeInv
<1>5. CASE End(w) \/ ClearInterrupt(w) \/ Route(w) \/ RemoteFallback(w) \/ StartLocal(w)
  BY <1>3, <1>5 DEF End, ClearInterrupt, Route, RemoteFallback, StartLocal, Goto, Holding
<1>6. CASE Acquire(w)
  BY <1>2, <1>3, <1>6 DEF Acquire, Goto, Holding
<1>7. CASE RemoteAnswer(w)
  BY <1>2, <1>3, <1>7 DEF RemoteAnswer, Goto, Holding
<1>8. CASE AgentEnds(w)
  BY <1>2, <1>3, <1>8 DEF AgentEnds, Succeed, Cancelled, Fail, Timeout, RunEnds, Goto, Holding
<1>9. CASE SetState(w)
  BY <1>2, <1>3, <1>9 DEF SetState, Goto, Holding
<1>10. CASE Dequeue(w)
  BY <1>4, <1>10 DEF Dequeue, Goto, Holding
<1>11. CASE SlashCommand(w) \/ Offline(w)
  BY <1>2, <1>4, <1>11 DEF SlashCommand, Offline, Dismiss, Goto, Holding
<1>12. CASE CleanUp(w) \/ Panic(w)
  BY <1>4, <1>12 DEF CleanUp, Panic, Goto
<1> QED BY <1>5, <1>6, <1>7, <1>8, <1>9, <1>10, <1>11, <1>12
        DEF Worker, WorkerStep, RemoteEnds

LEMMA LifeInvNext ==
  TypeInv /\ SlotInv /\ Conserved /\ LifeInv /\ [Next]_vars => LifeInv'
<1> SUFFICES ASSUME TypeInv, SlotInv, Conserved, LifeInv, [Next]_vars PROVE LifeInv'
  OBVIOUS
<1> USE DEF schedVars, inVars, dVars, hVars, slotVars, wVars, runVars, endVars
<1>1. CASE Dispatcher
  BY <1>1, LifeInvDispatcher
<1>2. ASSUME NEW w \in Workers, Worker(w) PROVE LifeInv'
  BY <1>2, LifeInvWorker
<1>3. ASSUME NEW m \in Msgs, Arrive(m) PROVE LifeInv'
  BY <1>3, LifeInvKept DEF Arrive
<1>4. CASE Housekeeping
  <2>1. /\ UNCHANGED <<wmsg, started, done, arrived, answers, wpc, icpt>> /\ lost \subseteq lost'
    BY <1>4 DEF Housekeeping, Tick, Reap, AddWake, Flush, Sleep, VisitResting, VisitBusy
  <2> QED BY <2>1, LifeInvKept
<1>5. ASSUME NEW i \in icpt, Intercept(i) PROVE LifeInv'
  <2>1. i.msg \in Msgs
    BY DEF TypeInv, TypeOK
  <2>2. answers' = answers \/ answers' = Answered(i.msg)
    BY <1>5 DEF Intercept
  <2>3. \A m \in Msgs : answers[m] > 0 => answers'[m] > 0
    BY <2>1, <2>2, AnsweredMore
  <2>4. /\ UNCHANGED <<wmsg, started, done, lost, arrived, wpc>> /\ icpt' \subseteq icpt
    BY <1>5 DEF Intercept
  <2> QED BY <2>3, <2>4, LifeInvKept
<1>6. CASE Elapse \/ UNCHANGED vars
  BY <1>6, LifeInvKept DEF Elapse, vars
<1> QED BY <1>1, <1>2, <1>3, <1>4, <1>5, <1>6 DEF Next

(* The phase of a message, now and after a step.                           *)
LEMMA PhaseIs ==
  ASSUME NEW m
  PROVE  /\ m \in done /\ m \notin lost => Phase(m) = "answered"
         /\ m \notin done /\ m \in lost => Phase(m) = "dropped"
         /\ m \in arrived /\ m \notin done /\ m \notin lost => Phase(m) = "open"
         /\ m \notin arrived /\ m \notin done /\ m \notin lost => Phase(m) = "absent"
<1>1. ASSUME m \in done, m \notin lost PROVE Phase(m) = "answered"
  BY <1>1, Zenon DEF Phase
<1>2. ASSUME m \notin done, m \in lost PROVE Phase(m) = "dropped"
  BY <1>2, Zenon DEF Phase
<1>3. ASSUME m \in arrived, m \notin done, m \notin lost PROVE Phase(m) = "open"
  BY <1>3, Zenon DEF Phase
<1>4. ASSUME m \notin arrived, m \notin done, m \notin lost PROVE Phase(m) = "absent"
  BY <1>4, Zenon DEF Phase
<1> QED BY <1>1, <1>2, <1>3, <1>4

LEMMA PhaseBecomes ==
  ASSUME NEW m
  PROVE  /\ m \in done' /\ m \notin lost' => Phase(m)' = "answered"
         /\ m \notin done' /\ m \in lost' => Phase(m)' = "dropped"
         /\ m \in arrived' /\ m \notin done' /\ m \notin lost' => Phase(m)' = "open"
         /\ m \notin arrived' /\ m \notin done' /\ m \notin lost' => Phase(m)' = "absent"
<1>1. ASSUME m \in done', m \notin lost' PROVE Phase(m)' = "answered"
  BY <1>1, Zenon DEF Phase
<1>2. ASSUME m \notin done', m \in lost' PROVE Phase(m)' = "dropped"
  BY <1>2, Zenon DEF Phase
<1>3. ASSUME m \in arrived', m \notin done', m \notin lost' PROVE Phase(m)' = "open"
  BY <1>3, Zenon DEF Phase
<1>4. ASSUME m \notin arrived', m \notin done', m \notin lost' PROVE Phase(m)' = "absent"
  BY <1>4, Zenon DEF Phase
<1> QED BY <1>1, <1>2, <1>3, <1>4

LEMMA OpenMeans ==
  ASSUME NEW m, Outside(m) = 0
  PROVE  m \in arrived /\ m \notin done /\ m \notin lost
<1>1. m \notin arrived => Outside(m) # 0
  BY DEF Outside
<1>2. m \in done \/ m \in lost => Outside(m) # 0
  BY DEF Outside
<1> QED BY <1>1, <1>2

LEMMA EndedOnce ==
  ASSUME TypeInv, SlotInv, Conserved, NEW m \in Msgs
  PROVE  /\ m \notin done \cap lost
         /\ m \notin arrived => m \notin done /\ m \notin lost
<1>1. Rest(m) <= 1 /\ AtDispatcher(m) \in Nat /\ Outside(m) \in Nat
  BY Single, SummandsTyped
<1>2. Outside(m) <= 1
  BY <1>1 DEF Rest
<1>3. m \in done => (m \notin arrived => Outside(m) > 1) /\ (m \in lost => Outside(m) > 1)
  BY DEF Outside
<1>4. m \in lost => (m \notin arrived => Outside(m) > 1)
  BY DEF Outside
<1> QED BY <1>1, <1>2, <1>3, <1>4

(* A step of the system as a step of one message's life.                   *)
LifeStep(m) == [Life(m)!LifeNext]_(Life(m)!lifeVars)

LEMMA LifeStutters ==
  ASSUME NEW m, UNCHANGED <<arrived, done, lost>>, started'[m] = started[m],
         answers'[m] = answers[m]
  PROVE  LifeStep(m)
<1>1. Phase(m)' = Phase(m)
  BY DEF Phase
<1> QED BY <1>1 DEF LifeStep, Life!lifeVars

LEMMA LifeGoesOn ==
  ASSUME NEW m, m \notin done \cap lost, m \in done' <=> m \in done, m \in lost' <=> m \in lost,
         m \in arrived' <=> m \in arrived, started'[m] = started[m], answers'[m] = answers[m]
  PROVE  LifeStep(m)
<1>1. Phase(m)' = Phase(m)
  BY PhaseIs, PhaseBecomes
<1> QED BY <1>1 DEF LifeStep, Life!lifeVars

LEMMA LifePublishes ==
  ASSUME TypeInv, NEW m \in Msgs, NEW n \in Msgs, n \in arrived, n \notin done \cap lost,
         UNCHANGED <<arrived, done, lost, started>>, answers' = Answered(n)
  PROVE  LifeStep(m)
<1>1. CASE m # n
  BY <1>1, LifeStutters, AnsweredMore
<1>2. CASE m = n
  <2>1. Phase(m)' = Phase(m) /\ Phase(m) # "absent"
    BY <1>2, PhaseIs, PhaseBecomes
  <2>2. answers'[m] = IF answers[m] < AnswerCap THEN answers[m] + 1 ELSE answers[m]
    BY <1>2, AnsweredMore
  <2> QED BY <2>1, <2>2 DEF LifeStep, Life!LifeNext, Life!Publish, Life!OneMore
<1> QED BY <1>1, <1>2

LEMMA LifeFinishes ==
  ASSUME TypeInv, NEW m \in Msgs, m \notin done \cap lost, NEW n \in Msgs, Outside(n) = 0,
         done' = done \cup {n},
         UNCHANGED <<arrived, lost, started>>,
         answers' = Answered(n) \/ (answers' = answers /\ answers[n] > 0)
  PROVE  LifeStep(m)
<1>1. CASE m # n
  BY <1>1, LifeGoesOn, AnsweredMore
<1>2. CASE m = n
  <2>1. Phase(m) = "open" /\ Phase(m)' = "answered"
    BY <1>2, OpenMeans, PhaseIs, PhaseBecomes
  <2>2. \/ answers'[m] = IF answers[m] < AnswerCap THEN answers[m] + 1 ELSE answers[m]
        \/ answers'[m] = answers[m] /\ answers[m] > 0
    BY <1>2, AnsweredMore
  <2> QED BY <2>1, <2>2 DEF LifeStep, Life!LifeNext, Life!Finish, Life!OneMore
<1> QED BY <1>1, <1>2

LEMMA LifeDrops ==
  ASSUME NEW m \in Msgs, m \notin done \cap lost, NEW X, m \in X => Outside(m) = 0,
         lost' = lost \cup X,
         UNCHANGED <<arrived, done, started, answers>>
  PROVE  LifeStep(m)
<1>1. CASE m \notin X
  BY <1>1, LifeGoesOn
<1>2. CASE m \in X
  <2>1. Phase(m) = "open" /\ Phase(m)' = "dropped"
    BY <1>2, OpenMeans, PhaseIs, PhaseBecomes
  <2> QED BY <2>1 DEF LifeStep, Life!LifeNext, Life!Drop
<1> QED BY <1>1, <1>2

(* What is in a queue, a buffer or a hand is open.                         *)
LEMMA InSequence ==
  ASSUME NEW S, NEW seq \in Seq(S), NEW i \in DOMAIN seq
  PROVE  Occurs(seq[i], seq) \in Nat /\ Occurs(seq[i], seq) > 0
<1> DEFINE m == seq[i]
<1>1. Occurs(m, seq) \in Nat /\ (Occurs(m, seq) = 0 <=> \A j \in DOMAIN seq : seq[j] # m)
  BY OccursFinite
<1> QED BY <1>1

LEMMA OpenInBuffer ==
  ASSUME TypeInv, SlotInv, Conserved, NEW c \in Chats, NEW i \in DOMAIN pending[c]
  PROVE  pending[c][i] \in Msgs /\ Outside(pending[c][i]) = 0
<1> DEFINE m == pending[c][i]
<1>1. pending[c] \in Seq(Msgs) /\ m \in Msgs
  BY DEF TypeInv, TypeOK
<1>2. Occurs(m, pending[c]) > 0
  BY <1>1, InSequence
<1>3. ChatOf[m] = c
  BY DEF SlotInv, BuffersOwn
<1> HIDE DEF m
<1>4. InPending(m) = Occurs(m, pending[c]) /\ InChan(m) \in Nat /\ InHand(m) \in Nat /\ InPending(m) \in Nat
  BY <1>1, <1>3, SummandsTyped
<1>5. Held(m) > 0
  BY <1>2, <1>4 DEF Held
<1> QED BY <1>1, <1>5, Single DEF m

LEMMA OpenInHand ==
  ASSUME TypeInv, SlotInv, Conserved, NEW w \in Workers, wmsg[w] \in Msgs
  PROVE  /\ Outside(wmsg[w]) = 0
         /\ \A v \in Workers : wmsg[v] = wmsg[w] => v = w
<1> DEFINE m == wmsg[w]
           H == {v \in Workers : wmsg[v] = m}
<1>1. IsFiniteSet(H) /\ w \in H
  BY DispatchAssumption, FS_Subset
<1>2. InHand(m) = Cardinality(H)
  BY DEF InHand, HandsWith
<1>3. InPending(m) \in Nat /\ InChan(m) \in Nat /\ InHand(m) \in Nat
  BY SummandsTyped
<1>4. m \in Msgs
  OBVIOUS
<1> HIDE DEF m, H
<1>5. Cardinality(H) # 0
  BY <1>1, FS_EmptySet
<1>6. Held(m) = InPending(m) + InChan(m) + InHand(m)
  BY DEF Held
<1>7. Held(m) <= 1 /\ (Held(m) > 0 => Outside(m) = 0)
  BY <1>4, Single
<1>8. InHand(m) = 1 /\ Outside(m) = 0
  BY <1>2, <1>3, <1>5, <1>6, <1>7
<1>9. \A v \in H : v = w
  <2>1. Cardinality(H) = 1 <=> \E x : H = {x}
    BY <1>1, FS_Singleton
  <2> QED BY <1>1, <1>2, <1>8, <2>1
<1> QED BY <1>8, <1>9 DEF m, H

LEMMA LifeDispatcher ==
  ASSUME TypeInv, SlotInv, Conserved, Dispatcher, NEW m \in Msgs
  PROVE  LifeStep(m)
<1> USE DEF schedVars, inVars, dVars, hVars, slotVars, wVars, runVars, endVars
<1>1. CASE RecvOverload
  <2>1. inq \in Seq(Msgs \cup {Wake}) /\ inq # <<>> /\ Head(inq) \in Msgs
    BY <1>1, SeqParts DEF RecvOverload, TypeInv, TypeOK
  <2>2. Occurs(Head(inq), inq) > 0
    <3>1. 1 \in DOMAIN inq /\ Head(inq) = inq[1]
      BY <2>1
    <3> QED BY <2>1, <3>1, InSequence
  <2>3. Queued(Head(inq)) > 0
    <3> DEFINE x == Head(inq)
    <3>1. Occurs(x, inq) \in Nat /\ Occurs(x, queue) \in Nat /\ Occurs(x, hbuf) \in Nat
      BY <2>1, SummandsTyped
    <3> QED BY <2>2, <3>1 DEF Queued
  <2>4. Outside(Head(inq)) = 0
    BY <2>1, <2>3, Single
  <2>5. /\ done' = done \cup {Head(inq)} /\ UNCHANGED <<arrived, lost, started>>
        /\ answers' = Answered(Head(inq))
    BY <1>1 DEF RecvOverload
  <2> QED BY <2>1, <2>4, <2>5, LifeFinishes, EndedOnce
<1>2. CASE StopIdle \/ StopWrite
  <2>1. dmsg \in Msgs /\ dpc \in {"stopRead", "stopWrite"}
    BY <1>2 DEF StopIdle, StopWrite, TypeInv, HandsFull
  <2>2. AtDispatcher(dmsg) = 1
    BY <2>1 DEF AtDispatcher
  <2>3. Outside(dmsg) = 0
    BY <2>1, <2>2, Single
  <2>4. /\ done' = done \cup {dmsg} /\ UNCHANGED <<arrived, lost, started>>
        /\ answers' = Answered(dmsg)
    BY <1>2 DEF StopIdle, StopWrite
  <2> QED BY <2>1, <2>3, <2>4, LifeFinishes, EndedOnce
<1>3. CASE ActBuffer
  <2> DEFINE c == ChatOf[dmsg]
             full == Len(pending[c]) >= MaxPending
             X == IF full THEN {Head(pending[c])} ELSE {}
  <2>1. c \in Chats /\ pending[c] \in Seq(Msgs)
    BY <1>3, SchedulerAssumption DEF ActBuffer, TypeInv, TypeOK, HandsFull
  <2>2. lost' = lost \cup X /\ UNCHANGED <<arrived, done, started, answers>>
    BY <1>3 DEF ActBuffer
  <2>3. full => 1 \in DOMAIN pending[c] /\ Head(pending[c]) = pending[c][1]
    BY <2>1, DispatchAssumption
  <2>4. m \in X => Outside(m) = 0
    BY <2>1, <2>3, OpenInBuffer
  <2> HIDE DEF X
  <2> QED BY <2>2, <2>4, LifeDrops, EndedOnce
<1>4. CASE RemoveDead
  <2> DEFINE c == ChatOf[dmsg]
             X == {pending[c][i] : i \in DOMAIN pending[c]}
  <2>1. c \in Chats
    BY <1>4, SchedulerAssumption DEF RemoveDead, TypeInv, HandsFull
  <2>2. lost' = lost \cup X /\ UNCHANGED <<arrived, done, started, answers>>
    BY <1>4 DEF RemoveDead
  <2>3. m \in X => Outside(m) = 0
    BY <2>1, OpenInBuffer
  <2> HIDE DEF X
  <2> QED BY <2>2, <2>3, LifeDrops, EndedOnce
<1>5. CASE ~(RecvOverload \/ StopIdle \/ StopWrite \/ ActBuffer \/ RemoveDead)
  <2>1. UNCHANGED <<arrived, done, lost, started, answers>>
    BY <1>5 DEF Dispatcher, Receive, Choose, Stop, Assign, Redispatch, RecvWake, RecvPush,
         PickNext, PickNone, Ensure, FindWorker, CreateWorker, ActStop, ActAssign, StopBusy,
         StopCancel, Send, SendFails, Requeue, Mark, RedispLock, RedispPop, RedispSend,
         RedispEnd
  <2> QED BY <2>1, LifeStutters
<1> QED BY <1>1, <1>2, <1>3, <1>4, <1>5

LEMMA LifeWorker ==
  ASSUME TypeInv, SlotInv, Conserved, LifeInv, NEW w \in Workers, Worker(w), NEW m \in Msgs
  PROVE  LifeStep(m)
<1> USE DEF schedVars, inVars, dVars, hVars, slotVars, wVars, runVars, endVars
<1>1. wpc[w] \notin {"gone", "recv"} => wmsg[w] \in Msgs /\ Outside(wmsg[w]) = 0
  BY OpenInHand DEF TypeInv, HandsFull
<1>2. CASE Dequeue(w) \/ End(w) \/ ClearInterrupt(w) \/ Route(w) \/ RemoteFallback(w)
           \/ StartLocal(w) \/ SetState(w)
  <2>1. UNCHANGED <<arrived, done, lost, started, answers>>
    BY <1>2 DEF Dequeue, End, ClearInterrupt, Route, RemoteFallback, StartLocal, SetState
  <2> QED BY <2>1, LifeStutters
<1>3. CASE SlashCommand(w) \/ Offline(w)
  <2>1. /\ wpc[w] = "check" /\ done' = done \cup {wmsg[w]} /\ answers' = Answered(wmsg[w])
        /\ UNCHANGED <<arrived, lost, started>>
    BY <1>3 DEF SlashCommand, Offline, Dismiss
  <2> QED BY <1>1, <2>1, LifeFinishes, EndedOnce
<1>4. CASE RemoteAnswer(w) \/ AgentEnds(w)
  <2>1. /\ wpc[w] \in {"remote", "exec"} /\ answers' = Answered(wmsg[w])
        /\ UNCHANGED <<arrived, done, lost, started>>
    BY <1>4 DEF RemoteAnswer, AgentEnds, Succeed, Cancelled, Fail, Timeout, RunEnds
  <2>2. wmsg[w] \in Msgs /\ wmsg[w] \in arrived
    BY <1>1, <2>1, OpenMeans
  <2> QED BY <2>1, <2>2, LifePublishes, EndedOnce
<1>5. CASE CleanUp(w)
  <2>1. /\ wpc[w] = "clean" /\ done' = done \cup {wmsg[w]}
        /\ UNCHANGED <<arrived, lost, started, answers>>
    BY <1>5 DEF CleanUp
  <2>2. answers[wmsg[w]] > 0
    BY <2>1 DEF LifeInv, Reported
  <2> QED BY <1>1, <2>1, <2>2, LifeFinishes, EndedOnce
<1>6. CASE Panic(w)
  <2> DEFINE X == {wmsg[w]} \cup {chan[w][i] : i \in DOMAIN chan[w]}
  <2>1. lost' = lost \cup X /\ UNCHANGED <<arrived, done, started, answers>> /\ wpc[w] = "exec"
    BY <1>6 DEF Panic
  <2>2. chan \in [Workers -> Seq(Msgs)] /\ ChanCap \in Nat
    BY DispatchAssumption DEF TypeInv, TypeOK
  <2>3. ASSUME NEW i \in DOMAIN chan[w], m = chan[w][i] PROVE Outside(m) = 0
    <3>1. chan[w] \in Seq(Msgs) /\ Len(chan[w]) <= ChanCap
      BY <2>2 DEF SlotInv, ChannelsRead
    <3>2. i \in 1 .. ChanCap
      BY <2>2, <2>3, <3>1
    <3>3. <<w, i>> \in Pairs(m, chan, Workers, ChanCap)
      BY <2>3, <3>2 DEF Pairs
    <3>4. IsFiniteSet(Pairs(m, chan, Workers, ChanCap))
      BY ChanFinite
    <3>5. InChan(m) # 0
      BY <3>3, <3>4, FS_EmptySet DEF InChan
    <3>6. InPending(m) \in Nat /\ InChan(m) \in Nat /\ InHand(m) \in Nat
      BY SummandsTyped
    <3>7. Held(m) > 0
      BY <3>5, <3>6 DEF Held
    <3> QED BY <3>7, Single
  <2>4. m \in X => Outside(m) = 0
    BY <1>1, <2>1, <2>3
  <2> HIDE DEF X
  <2> QED BY <2>1, <2>4, LifeDrops, EndedOnce
<1>7. CASE Acquire(w)
  <2>1. /\ wpc[w] = "permit" /\ UNCHANGED <<arrived, done, lost, answers>>
        /\ started' = [started EXCEPT ![wmsg[w]] = IF @ < AnswerCap THEN @ + 1 ELSE @]
    BY <1>7 DEF Acquire
  <2>2. started \in [Msgs -> 0 .. AnswerCap]
    BY DEF TypeInv, TypeOK
  <2>3. CASE m # wmsg[w]
    BY <2>1, <2>2, <2>3, LifeStutters
  <2>4. CASE m = wmsg[w]
    <3>1. m \in arrived /\ m \notin done /\ m \notin lost
      BY <1>1, <2>1, <2>4, OpenMeans
    <3>2. Phase(m) = "open" /\ Phase(m)' = "open"
      BY <2>1, <3>1, PhaseIs, PhaseBecomes
    <3>3. started[m] = 0
      <4>1. \A v \in Workers : wmsg[v] = m => v = w
        BY <2>4, OpenInHand
      <4>2. w \in Workers /\ wpc[w] \notin Holding
        BY <2>1 DEF Holding
      <4> QED BY <3>1, <4>1, <4>2 DEF LifeInv, Begun
    <3>4. started'[m] = 1
      BY <2>1, <2>2, <2>4, <3>3 DEF AnswerCap
    <3> QED BY <2>1, <3>2, <3>3, <3>4 DEF LifeStep, Life!LifeNext, Life!Begin
  <2> QED BY <2>3, <2>4
<1> QED BY <1>2, <1>3, <1>4, <1>5, <1>6, <1>7 DEF Worker, WorkerStep, RemoteEnds

(* Every step of the system is a step of every message's life, or leaves   *)
(* it as it is.                                                            *)
LEMMA LifeSteps ==
  ASSUME TypeInv, SlotInv, Conserved, LifeInv, [Next]_vars, NEW m \in Msgs
  PROVE  LifeStep(m)
<1> USE DEF schedVars, inVars, dVars, hVars, slotVars, wVars, runVars, endVars
<1>1. CASE Dispatcher
  BY <1>1, LifeDispatcher
<1>2. ASSUME NEW w \in Workers, Worker(w) PROVE LifeStep(m)
  BY <1>2, LifeWorker
<1>3. ASSUME NEW n \in Msgs, Arrive(n) PROVE LifeStep(m)
  <2>1. /\ n \notin arrived /\ arrived' = arrived \cup {n}
        /\ UNCHANGED <<done, lost, started, answers>>
    BY <1>3 DEF Arrive
  <2>2. CASE m # n
    BY <2>1, <2>2, LifeGoesOn, EndedOnce
  <2>3. CASE m = n
    <3>1. m \notin done /\ m \notin lost
      BY <2>1, <2>3, EndedOnce
    <3>2. Phase(m) = "absent" /\ Phase(m)' = "open"
      BY <2>1, <2>3, <3>1, PhaseIs, PhaseBecomes
    <3> QED BY <2>1, <3>2 DEF LifeStep, Life!LifeNext, Life!Come
  <2> QED BY <2>2, <2>3
<1>4. CASE Housekeeping
  <2>1. UNCHANGED <<arrived, done, started, answers>>
    BY <1>4 DEF Housekeeping, Tick, Reap, AddWake, Flush, Sleep, VisitResting, VisitBusy
  <2>2. CASE ~Reap
    <3>1. UNCHANGED lost
      BY <1>4, <2>2 DEF Housekeeping, Tick, AddWake, Flush, Sleep, VisitResting, VisitBusy
    <3> QED BY <2>1, <3>1, LifeStutters
  <2>3. CASE Reap
    <3> DEFINE X == UNION {{pending[c][i] : i \in DOMAIN pending[c]} : c \in hreap}
    <3>1. lost' = lost \cup X /\ hreap \subseteq Chats
      BY <2>3 DEF Reap, TypeInv, TypeOK
    <3>2. m \in X => Outside(m) = 0
      BY <3>1, OpenInBuffer
    <3> HIDE DEF X
    <3> QED BY <2>1, <3>1, <3>2, LifeDrops, EndedOnce
  <2> QED BY <2>2, <2>3
<1>5. ASSUME NEW i \in icpt, Intercept(i) PROVE LifeStep(m)
  <2>1. i.msg \in Msgs /\ i.msg \in arrived
    BY DEF TypeInv, TypeOK, LifeInv, Intercepted
  <2>2. /\ answers' = answers \/ answers' = Answered(i.msg)
        /\ UNCHANGED <<arrived, done, lost, started>>
    BY <1>5 DEF Intercept
  <2> QED BY <2>1, <2>2, LifePublishes, LifeStutters, EndedOnce
<1>6. CASE Elapse \/ UNCHANGED vars
  BY <1>6, LifeStutters DEF Elapse, vars
<1> QED BY <1>1, <1>2, <1>3, <1>4, <1>5, <1>6 DEF Next

LEMMA LifeStarts == Init => \A m \in Msgs : Life(m)!LifeInit
<1> SUFFICES ASSUME Init, NEW m \in Msgs PROVE Life(m)!LifeInit
  OBVIOUS
<1>1. Phase(m) = "absent"
  BY PhaseIs DEF Init
<1> QED BY <1>1 DEF Init, Life!LifeInit

(* All that the proofs about messages rest on.                             *)
MessageInv == TypeInv /\ SlotInv /\ Conserved /\ LifeInv

LEMMA MessageInvariant == Spec => []MessageInv
<1>1. Init => MessageInv
  BY TypeInit, SlotInit, ConservedInit, LifeInvInit DEF MessageInv
<1>2. MessageInv /\ [Next]_vars => MessageInv'
  BY TypeNext, SlotNext, ConservedNext, LifeInvNext DEF MessageInv
<1> QED BY <1>1, <1>2, PTL DEF Spec

(* The tasks together implement the life of a single message, for every    *)
(* message: it starts at most once, nothing starts once it was answered or *)
(* dropped, it is finished only with a terminal event, and its end is      *)
(* final.                                                                  *)
THEOREM LifeImplementedHolds == Spec => LifeImplemented
<1>1. MessageInv /\ [Next]_vars =>
        [\/ UNCHANGED <<arrived, started, endVars>>
         \/ \A m \in Msgs : [Life(m)!LifeNext]_(Life(m)!lifeVars)]_vars
  BY LifeSteps DEF MessageInv, LifeStep
<1> QED BY <1>1, LifeStarts, MessageInvariant, PTL DEF Spec, LifeImplemented

(* The tasks of the dispatcher, the workers and the housekeeping implement *)
(* the whole specification of module MessageLife, for any one message.     *)
THEOREM LifeOfAMessage ==
  ASSUME NEW m \in Msgs
  PROVE  Spec => Life(m)!LifeSpec
<1>1. MessageInv /\ [Next]_vars => [Life(m)!LifeNext]_(Life(m)!lifeVars)
  BY LifeSteps DEF MessageInv, LifeStep
<1>2. Init => Life(m)!LifeInit
  BY LifeStarts
<1> QED BY <1>1, <1>2, MessageInvariant, PTL DEF Spec, Life!LifeSpec

-----------------------------------------------------------------------------
(* A quiet environment: nothing is stopped, panics or is reaped, and       *)
(* interceptors do not answer.                                             *)
QuietEnv == /\ Env \cap {"reap", "panic", "reply"} = {}
            /\ \A m \in Msgs : KindOf[m] # "stop"

(* Then a slot keeps its worker for ever and a worker its chat; what is on *)
(* its way to a worker, in its channel or in its hands is of that chat;    *)
(* and a slot that looks busy is in a run.                                 *)
NoneLeaves == hreap = {} /\ \A w \in Workers : ~cell[w].quiet
OwnWorker == /\ \A w \in Workers : wpc[w] # "gone" <=> \E c \in Chats : slot[c] = w
             /\ \A c, d \in Chats : slot[c] = slot[d] /\ slot[c] # None => c = d
             /\ \A c \in htodo : slot[c] # None
OwnMessages ==
    \A w \in Workers :
        /\ \A i \in DOMAIN chan[w] : slot[ChatOf[chan[w][i]]] = w
        /\ wmsg[w] # None => slot[ChatOf[wmsg[w]]] = w
Routed == /\ dpc \notin {"stopRead", "stopCancel", "stopWrite", "fail", "requeue"}
          /\ dpc \in {"act", "send"} => slot[ChatOf[dmsg]] = dworker
AtTheEnd == {"postIdle", "postFailed", "clean"}
BusyTells ==
    \A w \in Workers :
        wpc[w] # "gone" /\ Busy(w) => wpc[w] \in {"exec", "postIdle", "postFailed"}

QuietInv == NoneLeaves /\ OwnWorker /\ OwnMessages /\ Routed /\ BusyTells

\* A message is answered on its way to the end, and never before.
OnceInv ==
    \A m \in Msgs :
        \/ answers[m] = 0
        \/ answers[m] = 1 /\ \/ m \in done
                             \/ \E w \in Workers : wmsg[w] = m /\ wpc[w] \in AtTheEnd

LEMMA QuietStarts == Init => QuietInv /\ OnceInv
<1> SUFFICES ASSUME Init PROVE QuietInv /\ OnceInv
  OBVIOUS
<1>1. NoneLeaves
  BY DEF Init, NoneLeaves, NewCells
<1>2. OwnWorker
  BY DispatchAssumption DEF Init, OwnWorker
<1>3. OwnMessages /\ Routed /\ BusyTells /\ OnceInv
  BY DEF Init, OwnMessages, Routed, BusyTells, OnceInv
<1> QED BY <1>1, <1>2, <1>3 DEF QuietInv

(* A step that leaves the slots, the workers and the dispatcher's choice.  *)
LEMMA QuietKept ==
  ASSUME QuietInv, UNCHANGED <<slot, wpc, chan, wmsg, hreap>>,
         \A c \in htodo' : c \in htodo \/ slot[c] # None,
         \A w \in Workers : cell'[w].state = cell[w].state /\ ~cell'[w].quiet,
         \/ UNCHANGED <<dpc, dmsg, dworker>>
         \/ dpc' \notin {"stopRead", "stopCancel", "stopWrite", "fail", "requeue", "act", "send"}
         \/ dpc = "act" /\ dpc' = "send" /\ UNCHANGED <<dmsg, dworker>>
  PROVE  QuietInv'
<1>1. NoneLeaves' /\ OwnWorker' /\ OwnMessages'
  BY DEF QuietInv, NoneLeaves, OwnWorker, OwnMessages
<1>2. Routed'
  BY DEF QuietInv, Routed
<1>3. BusyTells'
  BY DEF QuietInv, BusyTells, Busy
<1> QED BY <1>1, <1>2, <1>3 DEF QuietInv

(* The writes of other cells than the state.                               *)
LEMMA QuietWrites ==
  ASSUME TypeInv, NoneLeaves, NEW w \in Workers
  PROVE  \A v \in Workers :
           /\ ~Interrupted(w)[v].quiet /\ ~[Interrupted(w) EXCEPT ![w].quiet = FALSE][v].quiet
           /\ ~[cell EXCEPT ![w].quiet = FALSE][v].quiet
<1>1. cell \in [Workers -> Cells]
  BY DEF TypeInv, TypeOK
<1> QED BY <1>1 DEF NoneLeaves, Interrupted, Cells

LEMMA QuietDispatcher ==
  ASSUME QuietEnv, TypeInv, SlotInv, QuietInv, Dispatcher
  PROVE  QuietInv'
<1> USE DEF schedVars, inVars, dVars, hVars, slotVars, wVars, runVars, endVars
<1>0. /\ cell \in [Workers -> Cells] /\ wpc \in [Workers -> WorkerPlaces]
      /\ slot \in [Chats -> Workers \cup {None}] /\ chan \in [Workers -> Seq(Msgs)]
      /\ wmsg \in [Workers -> Msgs \cup {None}]
      /\ dpc \notin {"recv", "pick"} => dmsg \in Msgs /\ ChatOf[dmsg] \in Chats
      /\ dpc \in {"act", "send"} => dworker \in Workers
      /\ \A v \in Workers : v # None
  BY SchedulerAssumption, DispatchAssumption DEF TypeInv, TypeOK, HandsFull
<1>1. \A w \in Workers : cell[w].state = cell[w].state /\ ~cell[w].quiet
  BY DEF QuietInv, NoneLeaves
<1>2. dpc \notin {"stopRead", "stopCancel", "stopWrite", "fail", "requeue"}
  BY DEF QuietInv, Routed
<1>3. CASE Receive
  BY <1>1, <1>3, QuietKept DEF Receive, RecvWake, RecvPush, RecvOverload
<1>4. CASE PickNext \/ PickNone
  BY <1>1, <1>4, QuietKept DEF PickNext, PickNone
<1>5. CASE Ensure /\ FindWorker
  <2>1. /\ dpc' = "act" /\ UNCHANGED <<slot, wpc, chan, wmsg, hreap, htodo, cell, dmsg>>
        /\ dworker' = slot[ChatOf[dmsg]]
    BY <1>5 DEF Ensure, FindWorker
  <2>2. NoneLeaves' /\ OwnWorker' /\ OwnMessages' /\ BusyTells'
    BY <2>1 DEF QuietInv, NoneLeaves, OwnWorker, OwnMessages, BusyTells, Busy
  <2>3. Routed'
    BY <2>1 DEF Routed
  <2> QED BY <2>2, <2>3 DEF QuietInv
<1>6. CASE Ensure /\ CreateWorker
  <2>1. PICK w \in Workers :
          /\ Free(w) /\ slot' = [slot EXCEPT ![ChatOf[dmsg]] = w]
          /\ chan' = [chan EXCEPT ![w] = <<>>] /\ wpc' = [wpc EXCEPT ![w] = "recv"]
          /\ cell' = [cell EXCEPT ![w] = NewCells] /\ dworker' = w
    BY <1>6 DEF CreateWorker
  <2>2. /\ dpc = "ensure" /\ dpc' = "act" /\ UNCHANGED <<dmsg, wmsg, hreap, htodo>>
        /\ slot[ChatOf[dmsg]] = None /\ dmsg \in Msgs /\ ChatOf[dmsg] \in Chats
    BY <1>0, <1>6 DEF Ensure, CreateWorker
  <2>3. wpc[w] = "gone" /\ (\A c \in Chats : slot[c] # w) /\ wmsg[w] = None
    BY <2>1 DEF Free, SlotInv, HandsEmpty
  <2>4. /\ slot'[ChatOf[dmsg]] = w /\ \A c \in Chats \ {ChatOf[dmsg]} : slot'[c] = slot[c]
        /\ wpc'[w] = "recv" /\ \A v \in Workers \ {w} : wpc'[v] = wpc[v]
        /\ chan'[w] = <<>> /\ \A v \in Workers \ {w} : chan'[v] = chan[v]
        /\ cell'[w] = NewCells /\ \A v \in Workers \ {w} : cell'[v] = cell[v]
    BY <1>0, <2>1, <2>2
  <2>5. NoneLeaves'
    BY <2>2, <2>4 DEF QuietInv, NoneLeaves, NewCells
  <2>6. OwnWorker'
    <3>1. \A v \in Workers : wpc'[v] # "gone" <=> \E c \in Chats : slot'[c] = v
      <4>1. \A v \in Workers \ {w} : wpc[v] # "gone" <=> \E c \in Chats : slot[c] = v
        BY DEF QuietInv, OwnWorker
      <4>2. \A v \in Workers \ {w} :
              (\E c \in Chats : slot[c] = v) <=> (\E c \in Chats : slot'[c] = v)
        BY <1>0, <2>2, <2>4
      <4> QED BY <2>2, <2>4, <4>1, <4>2
    <3>2. \A c, d \in Chats : slot'[c] = slot'[d] /\ slot'[c] # None => c = d
      BY <2>2, <2>3, <2>4 DEF QuietInv, OwnWorker
    <3>3. \A c \in htodo' : slot'[c] # None
      BY <1>0, <2>1, <2>2, <2>4 DEF QuietInv, OwnWorker, TypeInv, TypeOK
    <3> QED BY <3>1, <3>2, <3>3 DEF OwnWorker
  <2>7. OwnMessages'
    <3> SUFFICES ASSUME NEW v \in Workers
                 PROVE  /\ \A i \in DOMAIN chan'[v] : slot'[ChatOf[chan'[v][i]]] = v
                        /\ wmsg'[v] # None => slot'[ChatOf[wmsg'[v]]] = v
      BY DEF OwnMessages
    <3>1. CASE v = w
      BY <2>2, <2>3, <2>4, <3>1
    <3>2. CASE v # w
      <4>1. \A m \in Msgs : slot[ChatOf[m]] = v => slot'[ChatOf[m]] = v
        BY <1>0, <2>2, <2>4, SchedulerAssumption
      <4>2. \A i \in DOMAIN chan[v] : chan[v][i] \in Msgs
        BY <1>0
      <4>3. /\ \A i \in DOMAIN chan[v] : slot[ChatOf[chan[v][i]]] = v
            /\ wmsg[v] # None => slot[ChatOf[wmsg[v]]] = v
        BY DEF QuietInv, OwnMessages
      <4>4. wmsg' = wmsg /\ chan'[v] = chan[v] /\ wmsg[v] \in Msgs \cup {None}
        BY <1>0, <2>2, <2>4, <3>2
      <4> QED BY ONLY <4>1, <4>2, <4>3, <4>4
    <3> QED BY <3>1, <3>2
  <2>8. Routed'
    BY <2>1, <2>2, <2>4 DEF Routed
  <2>9. BusyTells'
    BY <2>4 DEF QuietInv, BusyTells, Busy, NewCells
  <2> QED BY <2>5, <2>6, <2>7, <2>8, <2>9 DEF QuietInv
<1>7. CASE ActBuffer \/ ActAssign
  <2>1. /\ dpc = "act" /\ UNCHANGED <<slot, wpc, chan, wmsg, hreap, htodo>>
        /\ \/ dpc' = "pick"
           \/ dpc' = "send" /\ UNCHANGED <<dmsg, dworker>>
    BY <1>7 DEF ActBuffer, ActAssign
  <2>2. \/ cell' \in {cell, Interrupted(dworker)}
        \/ cell' \in {[cell EXCEPT ![dworker].quiet = FALSE],
                      [Interrupted(dworker) EXCEPT ![dworker].quiet = FALSE]}
    BY <1>7 DEF ActBuffer, ActAssign, Preempted
  <2>3. \A w \in Workers :
          /\ Interrupted(dworker)[w].state = cell[w].state
          /\ [Interrupted(dworker) EXCEPT ![dworker].quiet = FALSE][w].state = cell[w].state
          /\ [cell EXCEPT ![dworker].quiet = FALSE][w].state = cell[w].state
    BY <1>0, <2>1, InterruptedState
  <2>4. \A w \in Workers :
          /\ ~Interrupted(dworker)[w].quiet
          /\ ~[Interrupted(dworker) EXCEPT ![dworker].quiet = FALSE][w].quiet
          /\ ~[cell EXCEPT ![dworker].quiet = FALSE][w].quiet
    BY <1>0, <2>1, QuietWrites DEF QuietInv
  <2>5. \A w \in Workers : cell'[w].state = cell[w].state /\ ~cell'[w].quiet
    BY ONLY <1>1, <2>2, <2>3, <2>4
  <2> QED BY <2>1, <2>5, QuietKept
<1>8. CASE ActStop
  BY <1>0, <1>8 DEF ActStop, QuietEnv
<1>9. CASE Stop
  BY <1>2, <1>9 DEF Stop, StopIdle, StopBusy, StopCancel, StopWrite
<1>10. CASE Send
  <2>1. /\ dworker \in Workers /\ slot[ChatOf[dmsg]] = dworker /\ dmsg \in Msgs
        /\ dpc' = "mark" /\ chan' = [chan EXCEPT ![dworker] = Append(@, dmsg)]
        /\ UNCHANGED <<slot, wpc, wmsg, hreap, htodo, cell>>
    BY <1>0, <1>10 DEF Send, QuietInv, Routed
  <2>2. OwnMessages'
    <3> SUFFICES ASSUME NEW v \in Workers, NEW i \in DOMAIN chan'[v]
                 PROVE  slot[ChatOf[chan'[v][i]]] = v
      BY <2>1 DEF QuietInv, OwnMessages
    <3>1. CASE v = dworker
      <4>1. /\ chan[v] \in Seq(Msgs) /\ chan'[v] = Append(chan[v], dmsg)
        BY <1>0, <2>1, <3>1
      <4>2. \/ i \in DOMAIN chan[v] /\ chan'[v][i] = chan[v][i]
            \/ chan'[v][i] = dmsg
        BY <4>1
      <4> QED BY <2>1, <3>1, <4>2 DEF QuietInv, OwnMessages
    <3>2. CASE v # dworker
      BY <1>0, <2>1, <3>2 DEF QuietInv, OwnMessages
    <3> QED BY <3>1, <3>2
  <2>3. NoneLeaves' /\ OwnWorker' /\ Routed' /\ BusyTells'
    BY <2>1 DEF QuietInv, NoneLeaves, OwnWorker, Routed, BusyTells, Busy
  <2> QED BY <2>2, <2>3 DEF QuietInv
<1>11. CASE SendFails
  <2>1. wpc[dworker] = "gone" /\ slot[ChatOf[dmsg]] = dworker /\ dworker \in Workers
        /\ ChatOf[dmsg] \in Chats
    BY <1>0, <1>11 DEF SendFails, QuietInv, Routed
  <2> QED BY <2>1 DEF QuietInv, OwnWorker
<1>12. CASE RemoveDead \/ Requeue
  BY <1>2, <1>12 DEF RemoveDead, Requeue
<1>13. CASE Mark
  BY <1>1, <1>13, QuietKept DEF Mark
<1>14. CASE RedispLock \/ RedispPop
  BY <1>1, <1>14, QuietKept DEF RedispLock, RedispPop
<1>15. CASE RedispSend \/ RedispEnd
  BY <1>1, <1>15, QuietKept DEF RedispSend, RedispEnd
<1> QED BY <1>3, <1>4, <1>5, <1>6, <1>7, <1>8, <1>9, <1>10, <1>11, <1>12, <1>13, <1>14, <1>15
        DEF Dispatcher, Choose, Assign, Redispatch, Ensure

LEMMA QuietWorker ==
  ASSUME QuietEnv, TypeInv, SlotInv, QuietInv, NEW w \in Workers, Worker(w)
  PROVE  QuietInv'
<1> USE DEF schedVars, inVars, dVars, hVars, slotVars, wVars, runVars, endVars
<1>0. /\ cell \in [Workers -> Cells] /\ wpc \in [Workers -> WorkerPlaces]
      /\ chan \in [Workers -> Seq(Msgs)] /\ wmsg \in [Workers -> Msgs \cup {None}]
  BY DEF TypeInv, TypeOK
<1>1. UNCHANGED <<slot, hreap, htodo, dpc, dmsg, dworker>>
  BY DEF Worker, WorkerStep, RemoteEnds, AgentEnds, Dequeue, End, SlashCommand,
         Offline, Dismiss, ClearInterrupt, Acquire, Route, RemoteAnswer,
         RemoteFallback, StartLocal, Succeed, Cancelled, Fail, Timeout, RunEnds,
         Panic, SetState, CleanUp
(* A worker moves on: what it has in its hands came from its channel.      *)
<1>2. ASSUME NEW place \in WorkerPlaces \ {"gone"}, wpc' = [wpc EXCEPT ![w] = place], wpc[w] # "gone",
             \A v \in Workers \ {w} : cell'[v] = cell[v],
             ~cell'[w].quiet,
             cell'[w].state \in {"running", "cancelling"} =>
                 place \in {"exec", "postIdle", "postFailed"},
             \/ UNCHANGED <<chan, wmsg>>
             \/ chan' = chan /\ wmsg' = [wmsg EXCEPT ![w] = None]
             \/ /\ chan[w] # <<>> /\ chan' = [chan EXCEPT ![w] = Tail(@)]
                /\ wmsg' = [wmsg EXCEPT ![w] = Head(chan[w])]
      PROVE  QuietInv'
  <2>1. wpc'[w] = place /\ \A v \in Workers \ {w} : wpc'[v] = wpc[v]
    BY <1>0, <1>2
  <2>2. NoneLeaves'
    BY <1>1, <1>2 DEF QuietInv, NoneLeaves
  <2>3. OwnWorker' /\ Routed'
    BY <1>1, <1>2, <2>1 DEF QuietInv, OwnWorker, Routed
  <2>4. BusyTells'
    BY <1>2, <2>1 DEF QuietInv, BusyTells, Busy
  <2>5. OwnMessages'
    <3>1. CASE UNCHANGED <<chan, wmsg>>
      BY <1>1, <3>1 DEF QuietInv, OwnMessages
    <3>2. CASE chan' = chan /\ wmsg' = [wmsg EXCEPT ![w] = None]
      BY <1>0, <1>1, <3>2 DEF QuietInv, OwnMessages
    <3>3. CASE /\ chan[w] # <<>> /\ chan' = [chan EXCEPT ![w] = Tail(@)]
               /\ wmsg' = [wmsg EXCEPT ![w] = Head(chan[w])]
      <4>1. /\ chan'[w] = Tail(chan[w]) /\ wmsg'[w] = Head(chan[w]) /\ chan[w] \in Seq(Msgs)
            /\ \A v \in Workers \ {w} : chan'[v] = chan[v] /\ wmsg'[v] = wmsg[v]
        BY <1>0, <3>3
      <4>2. /\ 1 \in DOMAIN chan[w] /\ Head(chan[w]) = chan[w][1]
            /\ \A i \in DOMAIN Tail(chan[w]) : i + 1 \in DOMAIN chan[w] /\ Tail(chan[w])[i] = chan[w][i + 1]
        BY <3>3, <4>1
      <4>3. /\ \A i \in DOMAIN chan[w] : slot[ChatOf[chan[w][i]]] = w
            /\ \A v \in Workers \ {w} : /\ \A i \in DOMAIN chan[v] : slot[ChatOf[chan[v][i]]] = v
                                        /\ wmsg[v] # None => slot[ChatOf[wmsg[v]]] = v
        BY DEF QuietInv, OwnMessages
      <4>4. /\ \A i \in DOMAIN chan'[w] : slot[ChatOf[chan'[w][i]]] = w
            /\ slot[ChatOf[wmsg'[w]]] = w
        BY <4>1, <4>2, <4>3
      <4>5. \A v \in Workers \ {w} : /\ \A i \in DOMAIN chan'[v] : slot[ChatOf[chan'[v][i]]] = v
                                     /\ wmsg'[v] # None => slot[ChatOf[wmsg'[v]]] = v
        BY <4>1, <4>3
      <4> QED BY <1>1, <4>4, <4>5 DEF OwnMessages
    <3> QED BY <1>2, <3>1, <3>2, <3>3
  <2> QED BY <2>2, <2>3, <2>4, <2>5 DEF QuietInv
<1>3. \A v \in Workers : ~cell[v].quiet
  BY DEF QuietInv, NoneLeaves
<1>4. /\ wpc[w] # "gone" => (cell[w].state \in {"running", "cancelling"} =>
                               wpc[w] \in {"exec", "postIdle", "postFailed"})
  BY DEF QuietInv, BusyTells, Busy
<1>5. CASE Dequeue(w)
  <2>1. cell'[w].state = cell[w].state /\ ~cell'[w].quiet /\ \A v \in Workers \ {w} : cell'[v] = cell[v]
    BY <1>0, <1>5 DEF Dequeue, Cells
  <2> QED BY <1>2, <1>4, <1>5, <2>1 DEF Dequeue, Goto, WorkerPlaces
<1>6. CASE End(w)
  BY <1>6 DEF End, QuietInv, OwnWorker
<1>7. ASSUME NEW s \in {"idle", "failed"}, Dismiss(w, s), wpc[w] = "check" PROVE QuietInv'
  <2>1. cell'[w].state = s /\ ~cell'[w].quiet /\ \A v \in Workers \ {w} : cell'[v] = cell[v]
    BY <1>0, <1>3, <1>7 DEF Dismiss, Cells
  <2> QED BY <1>2, <1>7, <2>1 DEF Dismiss, Goto, WorkerPlaces
<1>8. CASE ClearInterrupt(w)
  <2>1. cell'[w].state = cell[w].state /\ ~cell'[w].quiet /\ \A v \in Workers \ {w} : cell'[v] = cell[v]
    BY <1>0, <1>3, <1>8 DEF ClearInterrupt, Cells
  <2> QED BY <1>2, <1>4, <1>8, <2>1 DEF ClearInterrupt, Goto, WorkerPlaces
<1>9. CASE Acquire(w)
  BY <1>2, <1>3, <1>4, <1>9 DEF Acquire, Goto, WorkerPlaces, Holding
<1>10. CASE Route(w)
  <2>1. PICK place \in {"local", "remote"} : Goto(w, place)
    BY <1>10 DEF Route
  <2> QED BY <1>2, <1>3, <1>4, <1>10, <2>1 DEF Route, Goto, WorkerPlaces, Holding
<1>11. CASE RemoteAnswer(w)
  <2>1. PICK place \in {"postIdle", "postFailed"} : Goto(w, place)
    BY <1>11 DEF RemoteAnswer
  <2> QED BY <1>2, <1>3, <1>4, <1>11, <2>1 DEF RemoteAnswer, Goto, WorkerPlaces, Holding
<1>12. CASE RemoteFallback(w)
  BY <1>2, <1>3, <1>4, <1>12 DEF RemoteFallback, Goto, WorkerPlaces, Holding
<1>13. CASE StartLocal(w)
  <2>1. ~cell'[w].quiet /\ \A v \in Workers \ {w} : cell'[v] = cell[v]
    BY <1>0, <1>3, <1>13 DEF StartLocal, Cells
  <2> QED BY <1>2, <1>13, <2>1 DEF StartLocal, Goto, WorkerPlaces, Holding
<1>14. CASE Succeed(w) \/ Cancelled(w) \/ Fail(w)
  BY <1>2, <1>3, <1>14 DEF Succeed, Cancelled, Fail, RunEnds, Goto, WorkerPlaces, Holding
<1>15. CASE Timeout(w)
  <2>1. ~cell'[w].quiet /\ \A v \in Workers \ {w} : cell'[v] = cell[v]
    BY <1>0, <1>3, <1>15 DEF Timeout, Cells
  <2> QED BY <1>2, <1>15, <2>1 DEF Timeout, RunEnds, Goto, WorkerPlaces, Holding
<1>16. CASE Panic(w)
  BY <1>16 DEF Panic, QuietEnv
<1>17. CASE SetState(w)
  <2>1. /\ cell'[w].state \in {"idle", "failed"} /\ ~cell'[w].quiet
        /\ \A v \in Workers \ {w} : cell'[v] = cell[v]
    BY <1>0, <1>3, <1>17 DEF SetState, Cells
  <2> QED BY <1>2, <1>17, <2>1 DEF SetState, Goto, WorkerPlaces, Holding
<1>18. CASE CleanUp(w)
  <2>1. cell'[w].state = cell[w].state /\ ~cell'[w].quiet /\ \A v \in Workers \ {w} : cell'[v] = cell[v]
    BY <1>0, <1>18 DEF CleanUp, Cells
  <2> QED BY <1>2, <1>4, <1>18, <2>1 DEF CleanUp, Goto, WorkerPlaces
<1> QED BY <1>5, <1>6, <1>7, <1>8, <1>9, <1>10, <1>11, <1>12, <1>13, <1>14, <1>15, <1>16, <1>17, <1>18
        DEF Worker, WorkerStep, RemoteEnds, AgentEnds, SlashCommand, Offline

LEMMA QuietNext ==
  ASSUME QuietEnv, TypeInv, SlotInv, QuietInv, [Next]_vars
  PROVE  QuietInv'
<1> USE DEF schedVars, inVars, dVars, hVars, slotVars, wVars, runVars, endVars
<1>0. cell \in [Workers -> Cells] /\ hreap = {} /\ \A w \in Workers : ~cell[w].quiet
  BY DEF TypeInv, TypeOK, QuietInv, NoneLeaves
<1>1. CASE /\ UNCHANGED <<slot, wpc, chan, wmsg, hreap, cell, dpc, dmsg, dworker>>
           /\ \A c \in htodo' : c \in htodo \/ slot[c] # None
  BY <1>0, <1>1, QuietKept
<1>2. ASSUME NEW m \in Msgs, Arrive(m) PROVE QuietInv'
  BY <1>1, <1>2 DEF Arrive
<1>3. CASE Tick \/ AddWake \/ Flush \/ Sleep
  BY <1>0, <1>1, <1>3 DEF Tick, AddWake, Flush, Sleep
<1>4. ASSUME NEW c \in Chats, VisitResting(c) PROVE QuietInv'
  <2>1. slot[c] \in Workers
    BY <1>4 DEF VisitResting, QuietInv, OwnWorker, TypeInv, TypeOK
  <2>2. UNCHANGED hreap
    BY <1>0, <1>4, <2>1 DEF VisitResting
  <2> QED BY <1>1, <1>4, <2>2 DEF VisitResting
<1>5. ASSUME NEW c \in Chats, VisitBusy(c) PROVE QuietInv'
  BY <1>1, <1>5 DEF VisitBusy
<1>6. CASE Reap
  <2>1. slot' = slot
    BY <1>0, <1>6 DEF Reap, TypeInv, TypeOK
  <2> QED BY <1>0, <1>1, <1>6, <2>1 DEF Reap
<1>7. ASSUME NEW i \in icpt, Intercept(i) PROVE QuietInv'
  <2>1. i.worker \in Workers
    BY DEF TypeInv, TypeOK
  <2>2. cell' = cell \/ cell' = Interrupted(i.worker)
    BY <1>7 DEF Intercept
  <2>3. \A v \in Workers : cell'[v].state = cell[v].state /\ ~cell'[v].quiet
    BY <1>0, <2>1, <2>2, InterruptedState, QuietWrites DEF QuietInv
  <2> QED BY <1>7, <2>3, QuietKept DEF Intercept
<1>8. CASE Elapse
  BY <1>8 DEF Elapse, QuietEnv
<1>9. CASE UNCHANGED vars
  BY <1>1, <1>9 DEF vars
<1> QED BY <1>2, <1>3, <1>4, <1>5, <1>6, <1>7, <1>8, <1>9, QuietDispatcher, QuietWorker
        DEF Next, Housekeeping

(* A step after which at most one more message was answered, which is then *)
(* done or at the end of its run, and no message has left the end undone.  *)
LEMMA OnceGoesOn ==
  ASSUME TypeInv, OnceInv, done \subseteq done',
         \A n \in Msgs, w \in Workers :
            wmsg[w] = n /\ wpc[w] \in AtTheEnd =>
               n \in done' \/ (wmsg'[w] = n /\ wpc'[w] \in AtTheEnd),
         \/ answers' = answers
         \/ \E m \in Msgs :
              /\ answers' = Answered(m) /\ m \notin done
              /\ \A w \in Workers : wmsg[w] = m => wpc[w] \notin AtTheEnd
              /\ m \in done' \/ \E w \in Workers : wmsg'[w] = m /\ wpc'[w] \in AtTheEnd
  PROVE  OnceInv'
<1> DEFINE Ended(n) == n \in done \/ \E w \in Workers : wmsg[w] = n /\ wpc[w] \in AtTheEnd
           Ends(n) == n \in done' \/ \E w \in Workers : wmsg'[w] = n /\ wpc'[w] \in AtTheEnd
<1>1. \A n \in Msgs : answers[n] = 0 \/ (answers[n] = 1 /\ Ended(n))
  BY DEF OnceInv
<1>2. \A n \in Msgs : Ended(n) => Ends(n)
  OBVIOUS
<1>3. CASE answers' = answers
  BY <1>1, <1>2, <1>3 DEF OnceInv
<1>4. ASSUME NEW m \in Msgs, answers' = Answered(m), ~Ended(m), Ends(m) PROVE OnceInv'
  <2>1. answers[m] = 0
    BY <1>1, <1>4
  <2>2. Answered(m)[m] = 1 /\ \A n \in Msgs \ {m} : Answered(m)[n] = answers[n]
    BY <2>1, AnsweredMore DEF AnswerCap
  <2> QED BY <1>1, <1>2, <1>4, <2>2 DEF OnceInv
<1> QED BY <1>3, <1>4

(* What is in the runtime queue is neither answered nor in anyone's hands. *)
LEMMA HeadIsNew ==
  ASSUME TypeInv, SlotInv, Conserved, inq # <<>>, Head(inq) # Wake
  PROVE  /\ Head(inq) \in Msgs /\ Head(inq) \notin done
         /\ \A w \in Workers : wmsg[w] # Head(inq)
<1> DEFINE m == Head(inq)
<1>1. inq \in Seq(Msgs \cup {Wake}) /\ m \in Msgs /\ 1 \in DOMAIN inq /\ m = inq[1]
  BY DEF TypeInv, TypeOK
<1>2. Occurs(m, inq) \in Nat /\ Occurs(m, inq) > 0
  BY <1>1, InSequence
<1> HIDE DEF m
<1>3. /\ Queued(m) \in Nat /\ Held(m) \in Nat /\ Rest(m) \in Nat
      /\ Occurs(m, queue) \in Nat /\ Occurs(m, hbuf) \in Nat
      /\ InPending(m) \in Nat /\ InChan(m) \in Nat /\ InHand(m) \in Nat
  BY <1>1, SummandsTyped
<1>4. Queued(m) > 0
  BY <1>2, <1>3 DEF Queued
<1>5. Outside(m) = 0 /\ Held(m) = 0
  BY <1>1, <1>3, <1>4, Single
<1>6. m \notin done
  BY <1>5 DEF Outside
<1>7. InHand(m) = 0
  BY <1>3, <1>5 DEF Held
<1>8. \A w \in Workers : wmsg[w] # m
  <2> DEFINE H == {w \in Workers : wmsg[w] = m}
  <2>1. IsFiniteSet(H) /\ Cardinality(H) = 0
    BY <1>7, DispatchAssumption, FS_Subset DEF InHand, HandsWith
  <2>2. H = {}
    BY <2>1, FS_EmptySet
  <2> QED BY <2>2
<1> QED BY <1>1, <1>6, <1>8 DEF m

LEMMA OnceWorker ==
  ASSUME QuietEnv, TypeInv, SlotInv, Conserved, OnceInv, NEW w \in Workers, Worker(w)
  PROVE  OnceInv'
<1> USE DEF endVars
<1>0. wmsg \in [Workers -> Msgs \cup {None}] /\ wpc \in [Workers -> WorkerPlaces]
  BY DEF TypeInv, TypeOK
<1>1. wpc[w] \notin {"gone", "recv"} =>
        /\ wmsg[w] \in Msgs /\ wmsg[w] \notin done
        /\ \A v \in Workers : wmsg[v] = wmsg[w] => v = w
  <2> SUFFICES ASSUME wpc[w] \notin {"gone", "recv"}
               PROVE  /\ wmsg[w] \in Msgs /\ wmsg[w] \notin done
                      /\ \A v \in Workers : wmsg[v] = wmsg[w] => v = w
    OBVIOUS
  <2>1. wmsg[w] \in Msgs
    BY DEF TypeInv, HandsFull
  <2>2. Outside(wmsg[w]) = 0 /\ \A v \in Workers : wmsg[v] = wmsg[w] => v = w
    BY <2>1, OpenInHand
  <2> QED BY <2>1, <2>2 DEF Outside
(* It does not answer: what was at the end stays there, or is done.        *)
<1>2. ASSUME answers' = answers, done \subseteq done', NEW place,
             wpc' = [wpc EXCEPT ![w] = place],
             \A v \in Workers \ {w} : wmsg'[v] = wmsg[v],
             wpc[w] \in AtTheEnd => wmsg[w] \in done' \/ (place \in AtTheEnd /\ wmsg' = wmsg)
      PROVE  OnceInv'
  <2>1. \A n \in Msgs, v \in Workers :
          wmsg[v] = n /\ wpc[v] \in AtTheEnd => n \in done' \/ (wmsg'[v] = n /\ wpc'[v] \in AtTheEnd)
    BY <1>0, <1>2
  <2> QED BY <1>2, <2>1, OnceGoesOn
(* It answers, once it has come so far and not before.                     *)
<1>3. ASSUME answers' = Answered(wmsg[w]), wpc[w] \in {"check", "remote", "exec"}, NEW place,
             wpc' = [wpc EXCEPT ![w] = place],
             \/ done' = done \cup {wmsg[w]} /\ wmsg' = [wmsg EXCEPT ![w] = None]
             \/ done' = done /\ wmsg' = wmsg /\ place \in AtTheEnd
      PROVE  OnceInv'
  <2>1. /\ wmsg[w] \in Msgs /\ wmsg[w] \notin done /\ wpc[w] \notin AtTheEnd
        /\ \A v \in Workers : wmsg[v] = wmsg[w] => v = w
    BY <1>1, <1>3 DEF AtTheEnd
  <2>2. /\ \A v \in Workers \ {w} : wpc'[v] = wpc[v] /\ wmsg'[v] = wmsg[v]
        /\ done \subseteq done'
    BY <1>0, <1>3
  <2>3. wmsg[w] \in done' \/ (wmsg'[w] = wmsg[w] /\ wpc'[w] \in AtTheEnd)
    BY <1>0, <1>3
  <2>4. \A v \in Workers : wmsg[v] = wmsg[w] => wpc[v] \notin AtTheEnd
    BY <2>1
  <2>5. \A n \in Msgs, v \in Workers :
          wmsg[v] = n /\ wpc[v] \in AtTheEnd => n \in done' \/ (wmsg'[v] = n /\ wpc'[v] \in AtTheEnd)
    BY <2>1, <2>2
  <2> QED BY <1>3, <2>1, <2>2, <2>3, <2>4, <2>5, OnceGoesOn
<1>4. CASE Dequeue(w) \/ End(w) \/ ClearInterrupt(w)
  BY <1>0, <1>2, <1>4 DEF Dequeue, End, ClearInterrupt, Goto, AtTheEnd
<1>5. CASE Acquire(w) \/ RemoteFallback(w) \/ StartLocal(w)
  BY <1>2, <1>5 DEF Acquire, RemoteFallback, StartLocal, Goto, AtTheEnd
<1>6. CASE Route(w)
  <2>1. PICK place \in {"local", "remote"} : wpc' = [wpc EXCEPT ![w] = place]
    BY <1>6 DEF Route, Goto
  <2> QED BY <1>2, <1>6, <2>1 DEF Route, AtTheEnd
<1>7. CASE SetState(w)
  BY <1>2, <1>7 DEF SetState, Goto, AtTheEnd
<1>8. CASE CleanUp(w)
  BY <1>0, <1>2, <1>8 DEF CleanUp, Goto
<1>9. CASE SlashCommand(w) \/ Offline(w)
  BY <1>3, <1>9 DEF SlashCommand, Offline, Dismiss, Goto
<1>10. CASE RemoteAnswer(w)
  <2>1. PICK place \in {"postIdle", "postFailed"} : wpc' = [wpc EXCEPT ![w] = place]
    BY <1>10 DEF RemoteAnswer, Goto
  <2> QED BY <1>3, <1>10, <2>1 DEF RemoteAnswer, AtTheEnd
<1>11. CASE AgentEnds(w)
  BY <1>3, <1>11 DEF AgentEnds, Succeed, Cancelled, Fail, Timeout, RunEnds, Goto, AtTheEnd
<1>12. CASE Panic(w)
  BY <1>12 DEF Panic, QuietEnv
<1> QED BY <1>4, <1>5, <1>6, <1>7, <1>8, <1>9, <1>10, <1>11, <1>12 DEF Worker, WorkerStep, RemoteEnds

LEMMA OnceNext ==
  ASSUME QuietEnv, TypeInv, SlotInv, Conserved, QuietInv, OnceInv, [Next]_vars
  PROVE  OnceInv'
<1> USE DEF schedVars, inVars, dVars, hVars, slotVars, wVars, runVars, endVars
<1>1. CASE /\ UNCHANGED <<answers, done, wmsg>>
           /\ \A w \in Workers : wpc'[w] = wpc[w] \/ wpc[w] = "gone"
  BY <1>1, OnceGoesOn DEF AtTheEnd
<1>2. CASE Dispatcher
  <2>1. CASE RecvOverload
    <3>1. inq # <<>> /\ Head(inq) # Wake /\ UNCHANGED <<wmsg, wpc>>
          /\ answers' = Answered(Head(inq)) /\ done' = done \cup {Head(inq)}
      BY <2>1 DEF RecvOverload
    <3> QED BY <3>1, HeadIsNew, OnceGoesOn
  <2>2. CASE Stop
    BY <2>2 DEF Stop, StopIdle, StopBusy, StopCancel, StopWrite, QuietInv, Routed
  <2>3. CASE Ensure
    <3>1. CASE FindWorker
      BY <1>1, <2>3, <3>1 DEF Ensure, FindWorker
    <3>2. CASE CreateWorker
      <4>1. PICK v \in Workers : Free(v) /\ wpc' = [wpc EXCEPT ![v] = "recv"]
        BY <3>2 DEF CreateWorker
      <4>2. \A w \in Workers : wpc'[w] = wpc[w] \/ wpc[w] = "gone"
        BY <4>1 DEF Free, TypeInv, TypeOK
      <4> QED BY <1>1, <2>3, <3>2, <4>2 DEF Ensure, CreateWorker
    <3> QED BY <2>3, <3>1, <3>2 DEF Ensure
  <2>4. CASE RecvWake \/ RecvPush \/ PickNext \/ PickNone \/ ActStop \/ ActBuffer \/ ActAssign
    BY <1>1, <2>4 DEF RecvWake, RecvPush, PickNext, PickNone, ActStop, ActBuffer, ActAssign
  <2>5. CASE Assign \/ Redispatch
    BY <1>1, <2>5 DEF Assign, Redispatch, Send, SendFails, RemoveDead, Requeue, Mark,
       RedispLock, RedispPop, RedispSend, RedispEnd
  <2> QED BY <1>2, <2>1, <2>2, <2>3, <2>4, <2>5 DEF Dispatcher, Receive, Choose
<1>3. CASE Housekeeping
  BY <1>1, <1>3 DEF Housekeeping, Tick, Reap, AddWake, Flush, Sleep, VisitResting, VisitBusy
<1>4. ASSUME NEW m \in Msgs, Arrive(m) PROVE OnceInv'
  BY <1>1, <1>4 DEF Arrive
<1>5. ASSUME NEW i \in icpt, Intercept(i) PROVE OnceInv'
  <2>1. answers' = answers
    BY <1>5 DEF Intercept, QuietEnv
  <2> QED BY <1>1, <1>5, <2>1 DEF Intercept
<1>6. CASE Elapse \/ UNCHANGED vars
  BY <1>1, <1>6 DEF Elapse, vars
<1> QED BY <1>2, <1>3, <1>4, <1>5, <1>6, OnceWorker DEF Next

(* What the slots and the answers then say.                                *)
LEMMA QuietMeans ==
  ASSUME TypeInv, QuietInv, OnceInv
  PROVE  /\ OneRunPerChat /\ BusyMeansRunning
         /\ \A m \in Msgs : answers[m] <= 1
<1>1. OneRunPerChat
  <2> SUFFICES ASSUME NEW c \in Chats PROVE Cardinality(Runs(c)) <= MaxActive
    BY DEF OneRunPerChat
  <2>1. \A w \in Runs(c) : w = slot[c]
    BY DispatchAssumption DEF Runs, QuietInv, OwnMessages, TypeInv, HandsFull, Holding
  <2>2. Runs(c) = {} \/ Runs(c) = {slot[c]}
    BY <2>1
  <2>3. Cardinality({}) = 0 /\ Cardinality({slot[c]}) = 1
    BY FS_EmptySet, FS_Singleton
  <2> QED BY <2>2, <2>3, SchedulerAssumption
<1>2. BusyMeansRunning
  BY DEF BusyMeansRunning, QuietInv, OwnWorker, BusyTells, TypeInv, TypeOK
<1>3. \A m \in Msgs : answers[m] <= 1
  BY DEF OnceInv
<1> QED BY <1>1, <1>2, <1>3

QuietAll == TypeInv /\ SlotInv /\ Conserved /\ QuietInv /\ OnceInv

LEMMA QuietAllInit == Init => QuietAll
BY TypeInit, SlotInit, ConservedInit, QuietStarts DEF QuietAll

LEMMA QuietAllNext == ASSUME QuietEnv PROVE QuietAll /\ [Next]_vars => QuietAll'
BY TypeNext, SlotNext, ConservedNext, QuietNext, OnceNext DEF QuietAll

(* Where nothing is stopped, panics or is reaped and interceptors do not   *)
(* answer, a chat is served one request at a time, each is answered once   *)
(* at most, and a slot that looks busy belongs to a worker in a run.       *)
THEOREM QuietChatServed ==
  ASSUME QuietEnv
  PROVE  Spec => [](/\ OneRunPerChat /\ BusyMeansRunning
                    /\ \A m \in Msgs : answers[m] <= 1)
<1>1. QuietAll => /\ OneRunPerChat /\ BusyMeansRunning
                  /\ \A m \in Msgs : answers[m] <= 1
  BY QuietMeans DEF QuietAll
<1> QED BY <1>1, QuietAllInit, QuietAllNext, PTL DEF Spec
=============================================================================
