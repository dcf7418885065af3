------------------------------ MODULE Turn_proofs ------------------------------
(***************************************************************************)
(* Proofs about modules Turn and CircuitBreaker, for any messages, chats   *)
(* and callers, any limits and any mixture of faults.                      *)
(***************************************************************************)
EXTENDS MCTurn, FiniteSetTheorems, TLAPS

-----------------------------------------------------------------------------
(* Types.                                                                  *)

(* A round's calls are those still to run and those already run; the loop  *)
(* leaves the tools when none is left.                                     *)
CallsOf(m) ==
  /\ at[m] = "tool" => todo[m] # 0
  /\ at[m] = "append" => todo[m] = 0
  /\ at[m] \in {"tool", "append"} => ran[m] + todo[m] <= MaxTools
Calls == \A m \in Msgs : CallsOf(m)

TurnTypes == TypeOK /\ Calls

(* The actions of one turn.                                                *)
Turns(m) == Start(m) \/ StartEmpty(m) \/ Buffer(m) \/ Step(m) \/ TimeOut(m)

Kinds == {"user", "sys", "asst", "call", "result"}
LEMMA EntryType ==
  ASSUME NEW m \in Msgs, NEW kind \in Kinds, NEW n \in 0 .. MaxTools
  PROVE  Entry(m, kind, n) \in Entries
BY DEF Entry, Entries, Kinds

LEMMA PushType ==
  ASSUME TypeOK, NEW m \in Msgs, NEW e \in Entries, Push(m, e)
  PROVE  hist' \in [Msgs -> Seq(Entries)] /\ hist'[m] \in Seq(Entries)
BY DEF TypeOK, Push

LEMMA LeaveType ==
  ASSUME TypeOK, NEW m \in Msgs, NEW how \in Ended, Leave(m, how)
  PROVE  /\ at' \in [Msgs -> {"new"} \cup Running \cup Ended] /\ at'[m] = how
         /\ round' \in [Msgs -> 0 .. MaxRounds + 1] /\ prompted' \in [Msgs -> BOOLEAN]
         /\ retries' \in [Msgs -> 0 .. 1]
         /\ todo' \in [Msgs -> 0 .. MaxTools] /\ ran' \in [Msgs -> 0 .. MaxTools]
         /\ late' \in [Msgs -> Nat] /\ late'[m] = 0
<1>1. 0 \in 0 .. MaxRounds + 1 /\ 0 \in 0 .. MaxTools /\ 0 \in 0 .. 1
  BY TurnAssumption
<1> QED BY <1>1 DEF TypeOK, Leave, Goto

LEMMA KeepType ==
  ASSUME TypeOK, NEW m \in Msgs, NEW h \in Seq(Entries), Keep(m, h)
  PROVE  kept' \in [Chats -> Seq(Entries)] /\ stored' \in [Chats -> Seq(Entries)]
<1>1. kept \in [Chats -> Seq(Entries)] /\ stored \in [Chats -> Seq(Entries)]
  BY DEF TypeOK
<1>2. kept' = [kept EXCEPT ![ChatOf[m]] = h]
  BY DEF Keep
<1>3. stored' = [stored EXCEPT ![ChatOf[m]] = h] \/ stored' = stored
  BY DEF Keep
<1> QED BY <1>1, <1>2, <1>3

LEMMA GotoType ==
  ASSUME TypeOK, NEW m \in Msgs, NEW l \in Running, Goto(m, l)
  PROVE  at' \in [Msgs -> {"new"} \cup Running \cup Ended] /\ at'[m] = l
BY DEF TypeOK, Goto

-----------------------------------------------------------------------------
(* A step of one turn leaves the locals of every other turn alone.         *)
Rests(n) ==
  /\ at'[n] = at[n] /\ prompted'[n] = prompted[n] /\ todo'[n] = todo[n] /\ ran'[n] = ran[n]
  /\ late'[n] = late[n] /\ hist'[n] = hist[n] /\ ckpt'[n] = ckpt[n]

LEMMA LeaveRests ==
  ASSUME TypeOK, NEW m \in Msgs, NEW how, Leave(m, how), NEW n \in Msgs \ {m}
  PROVE  /\ at'[n] = at[n] /\ prompted'[n] = prompted[n] /\ todo'[n] = todo[n]
         /\ ran'[n] = ran[n] /\ late'[n] = late[n]
BY DEF TypeOK, Leave, Goto

LEMMA OthersRest ==
  ASSUME TypeOK, NEW m \in Msgs, Turns(m), NEW n \in Msgs \ {m}
  PROVE  Rests(n)
<1> USE DEF Rests, taskVars, loopVars, chatVars
<1>0. /\ hist \in [Msgs -> Seq(Entries)] /\ ckpt \in [Msgs -> Seq(Entries)]
      /\ DOMAIN at = Msgs /\ DOMAIN prompted = Msgs /\ DOMAIN todo = Msgs /\ DOMAIN ran = Msgs
      /\ DOMAIN late = Msgs /\ DOMAIN hist = Msgs /\ DOMAIN ckpt = Msgs
  BY DEF TypeOK
<1>1. CASE Start(m) \/ Buffer(m) \/ Prepare(m)
  BY <1>0, <1>1 DEF Start, Buffer, Prepare, Goto, Push
<1>2. CASE StartEmpty(m) \/ TopStop(m) \/ TopCap(m) \/ GateRefuse(m)
  BY <1>2, LeaveRests DEF StartEmpty, TopStop, TopCap, GateRefuse
<1>3. CASE RoutedToHive(m) \/ AnswerError(m) \/ TimeOut(m) \/ CloseTurn(m)
  BY <1>3, LeaveRests DEF RoutedToHive, AnswerError, TimeOut, CloseTurn
<1>4. CASE ClassifiedAsChat(m)
  BY <1>0, <1>4, LeaveRests DEF ClassifiedAsChat, Push
<1>5. CASE ClassifiedAsOrder(m) \/ InsertRow(m) \/ MarkRunning(m) \/ TopGo(m)
  BY <1>0, <1>5 DEF ClassifiedAsOrder, InsertRow, MarkRunning, TopGo, Goto
<1>6. CASE GateCall(m) \/ AnswerNoTools(m) \/ AnswerText(m)
  BY <1>0, <1>6 DEF GateCall, AnswerNoTools, AnswerText, Goto
<1>7. CASE AnswerTools(m)
  BY <1>0, <1>7 DEF AnswerTools, Goto, Push
<1>8. CASE RunTool(m) \/ AppendResults(m)
  BY <1>0, <1>8 DEF RunTool, AppendResults, Goto, Push
<1>9. CASE Save(m) \/ Finish(m)
  BY <1>0, <1>9 DEF Save, Finish, Goto, Push
<1> QED BY <1>1, <1>2, <1>3, <1>4, <1>5, <1>6, <1>7, <1>8, <1>9 DEF Turns, Step

-----------------------------------------------------------------------------
LEMMA TypeTurn ==
  ASSUME TurnTypes, NEW m \in Msgs, Turns(m)
  PROVE  TypeOK'
<1> USE TurnAssumption DEF loopVars, chatVars, taskVars, costVars, bootVars
<1>0. TypeOK /\ CallsOf(m) /\ ChatOf[m] \in Chats /\ hist[m] \in Seq(Entries)
      /\ kept[ChatOf[m]] \in Seq(Entries) /\ ckpt \in [Msgs -> Seq(Entries)]
      /\ hist \in [Msgs -> Seq(Entries)]
  BY DEF TurnTypes, TypeOK, Calls
<1>1. /\ Entry(m, "user", 0) \in Entries /\ Entry(m, "asst", 0) \in Entries
      /\ Entry(m, "sys", 0) \in Entries
      /\ \A n \in 0 .. MaxTools : Entry(m, "call", n) \in Entries
                                  /\ Entry(m, "result", n) \in Entries
  BY EntryType DEF Kinds
<1>2. CASE Start(m)
  <2>1. Append(kept[ChatOf[m]], Entry(m, "user", 0)) \in Seq(Entries)
    BY <1>0, <1>1
  <2>2. hist' \in [Msgs -> Seq(Entries)]
    BY <1>0, <1>2, <2>1 DEF Start
  <2>3. Goto(m, IF V2 THEN "classify" ELSE "prepare")
    BY <1>2 DEF Start
  <2>4. at' \in [Msgs -> {"new"} \cup Running \cup Ended]
    BY <1>0, <2>3, GotoType DEF Running
  <2>5. stop' \in [Chats -> BOOLEAN]
    BY <1>0, <1>2 DEF Start, TypeOK
  <2> QED BY <1>0, <1>2, <2>2, <2>4, <2>5 DEF Start, TypeOK
<1>3. CASE StartEmpty(m)
  <2>1. stop' \in [Chats -> BOOLEAN]
    BY <1>0, <1>3 DEF StartEmpty, TypeOK
  <2>2. "replied" \in Ended
    BY DEF Ended
  <2> QED BY <1>0, <1>3, <2>1, <2>2, LeaveType, KeepType DEF StartEmpty, TypeOK
<1>4. CASE Buffer(m)
  BY <1>0, <1>4 DEF Buffer, TypeOK
<1>5. CASE ClassifiedAsChat(m)
  <2>1. "replied" \in Ended
    BY DEF Ended
  <2>2. hist' \in [Msgs -> Seq(Entries)] /\ hist'[m] \in Seq(Entries)
    BY <1>0, <1>1, <1>5, PushType DEF ClassifiedAsChat
  <2>3. kept' \in [Chats -> Seq(Entries)] /\ stored' \in [Chats -> Seq(Entries)]
    BY <1>0, <1>5, <2>2, KeepType DEF ClassifiedAsChat
  <2>4. spent' \in Nat /\ triage' \in 0 .. spent'
    BY <1>0, <1>5 DEF ClassifiedAsChat, Charge, TypeOK
  <2> QED BY <1>0, <1>5, <2>1, <2>2, <2>3, <2>4, LeaveType DEF ClassifiedAsChat, TypeOK
<1>6. CASE ClassifiedAsOrder(m)
  <2>1. at' \in [Msgs -> {"new"} \cup Running \cup Ended]
    BY <1>0, <1>6, GotoType DEF ClassifiedAsOrder, Running
  <2>2. spent' \in Nat /\ triage' \in 0 .. spent'
    BY <1>0, <1>6 DEF ClassifiedAsOrder, Charge, TypeOK
  <2> QED BY <1>0, <1>6, <2>1, <2>2 DEF ClassifiedAsOrder, TypeOK
<1>7. CASE RoutedToHive(m)
  <2>1. "failed" \in Ended
    BY DEF Ended
  <2>2. spent' \in Nat /\ triage' \in 0 .. spent'
    BY <1>0, <1>7 DEF RoutedToHive, Charge, TypeOK
  <2> QED BY <1>0, <1>7, <2>1, <2>2, LeaveType DEF RoutedToHive, TypeOK
<1>8. CASE Prepare(m)
  <2>1. at' \in [Msgs -> {"new"} \cup Running \cup Ended]
    BY <1>0, <1>8, GotoType DEF Prepare, Running
  <2>2. hist' \in [Msgs -> Seq(Entries)]
    BY <1>0, <1>1, <1>8, PushType DEF Prepare
  <2> QED BY <1>0, <1>8, <2>1, <2>2 DEF Prepare, TypeOK
<1>9. CASE InsertRow(m) \/ MarkRunning(m)
  <2>1. at' \in [Msgs -> {"new"} \cup Running \cup Ended]
    BY <1>0, <1>9, GotoType DEF InsertRow, MarkRunning, Running
  <2>2. row' \in [Msgs -> {"none", "pending", "running", "completed", "failed"}]
    BY <1>0, <1>9 DEF InsertRow, MarkRunning, TypeOK
  <2> QED BY <1>0, <1>9, <2>1, <2>2 DEF InsertRow, MarkRunning, TypeOK
<1>10. CASE TopStop(m) \/ TopCap(m) \/ GateRefuse(m)
  <2>1. "stopped" \in Ended /\ "capped" \in Ended /\ "refused" \in Ended
    BY DEF Ended
  <2>2. CASE TopStop(m)
    BY <1>0, <2>1, <2>2, LeaveType, KeepType DEF TopStop, TypeOK
  <2>3. CASE TopCap(m)
    BY <1>0, <2>1, <2>3, LeaveType, KeepType DEF TopCap, TypeOK
  <2>4. CASE GateRefuse(m)
    BY <1>0, <2>1, <2>4, LeaveType, KeepType DEF GateRefuse, TypeOK
  <2> QED BY <1>10, <2>2, <2>3, <2>4
<1>11. CASE TopGo(m)
  <2>1. at' \in [Msgs -> {"new"} \cup Running \cup Ended]
    BY <1>0, <1>11, GotoType DEF TopGo, Running
  <2>2. round' \in [Msgs -> 0 .. MaxRounds + 1]
    BY <1>0, <1>11 DEF TopGo, TypeOK
  <2> QED BY <1>0, <1>11, <2>1, <2>2 DEF TopGo, TypeOK
<1>12. CASE GateCall(m)
  <2>1. at' \in [Msgs -> {"new"} \cup Running \cup Ended]
    BY <1>0, <1>12, GotoType DEF GateCall, Running
  <2>2. late' \in [Msgs -> Nat]
    BY <1>0, <1>12 DEF GateCall, TypeOK
  <2> QED BY <1>0, <1>12, <2>1, <2>2 DEF GateCall, TypeOK
<1>13. CASE AnswerNoTools(m)
  <2>1. at' \in [Msgs -> {"new"} \cup Running \cup Ended]
    BY <1>0, <1>13, GotoType DEF AnswerNoTools, Running
  <2> QED BY <1>0, <1>13, <2>1 DEF AnswerNoTools, TypeOK
<1>14. CASE AnswerError(m)
  BY <1>0, <1>14, LeaveType DEF AnswerError, TypeOK, Ended
<1>15. CASE AnswerText(m)
  <2>1. Goto(m, IF RetryStricter(m) THEN "top" ELSE "finish")
    BY <1>15 DEF AnswerText
  <2>2. at' \in [Msgs -> {"new"} \cup Running \cup Ended]
    BY <1>0, <2>1, GotoType DEF Running
  <2>3. retries' \in [Msgs -> 0 .. 1]
    BY <1>0, <1>15 DEF AnswerText, RetryStricter, TypeOK
  <2>4. hist' \in [Msgs -> Seq(Entries)]
    BY <1>0, <1>1, <1>15 DEF AnswerText
  <2>5. spent' \in Nat /\ triage' \in 0 .. spent'
    BY <1>0, <1>15 DEF AnswerText, Charge, TypeOK
  <2> QED BY <1>0, <1>15, <2>2, <2>3, <2>4, <2>5 DEF AnswerText, TypeOK
<1>16. CASE AnswerTools(m)
  <2>1. at' \in [Msgs -> {"new"} \cup Running \cup Ended]
    BY <1>0, <1>16, GotoType DEF AnswerTools, Running
  <2>2. PICK n \in 1 .. MaxTools :
          /\ todo' = [todo EXCEPT ![m] = n]
          /\ Push(m, IF prompted[m] THEN Entry(m, "asst", 0) ELSE Entry(m, "call", n))
    BY <1>16 DEF AnswerTools
  <2>3. todo' \in [Msgs -> 0 .. MaxTools] /\ ran' \in [Msgs -> 0 .. MaxTools]
    BY <1>0, <1>16, <2>2 DEF AnswerTools, TypeOK
  <2>4. (IF prompted[m] THEN Entry(m, "asst", 0) ELSE Entry(m, "call", n)) \in Entries
    BY <1>1, <2>2
  <2>5. hist' \in [Msgs -> Seq(Entries)]
    BY <1>0, <2>2, <2>4, PushType
  <2>6. spent' \in Nat /\ triage' \in 0 .. spent'
    BY <1>0, <1>16 DEF AnswerTools, Charge, TypeOK
  <2> QED BY <1>0, <1>16, <2>1, <2>3, <2>5, <2>6 DEF AnswerTools, TypeOK
<1>17. CASE RunTool(m)
  <2>1. Goto(m, IF todo[m] = 1 THEN "append" ELSE "tool")
    BY <1>17 DEF RunTool
  <2>2. at' \in [Msgs -> {"new"} \cup Running \cup Ended]
    BY <1>0, <2>1, GotoType DEF Running
  <2>3. todo[m] - 1 \in 0 .. MaxTools /\ ran[m] + 1 \in 0 .. MaxTools
    <3>1. at[m] = "tool" /\ todo[m] \in 0 .. MaxTools /\ ran[m] \in 0 .. MaxTools
      BY <1>0, <1>17 DEF RunTool, TypeOK
    <3> QED BY <1>0, <3>1 DEF CallsOf
  <2>4. todo' \in [Msgs -> 0 .. MaxTools] /\ ran' \in [Msgs -> 0 .. MaxTools]
    BY <1>0, <1>17, <2>3 DEF RunTool, TypeOK
  <2> QED BY <1>0, <1>17, <2>2, <2>4 DEF RunTool, TypeOK
<1>18. CASE AppendResults(m)
  <2>1. at' \in [Msgs -> {"new"} \cup Running \cup Ended]
    BY <1>0, <1>18, GotoType DEF AppendResults, Running
  <2>2. (IF prompted[m] THEN Entry(m, "user", 0) ELSE Entry(m, "result", ran[m])) \in Entries
    BY <1>0, <1>1 DEF TypeOK
  <2>3. hist' \in [Msgs -> Seq(Entries)]
    BY <1>0, <1>18, <2>2, PushType DEF AppendResults
  <2>4. pend' \in [Chats -> SUBSET Msgs] /\ shown' \in [Msgs -> SUBSET Msgs]
    BY <1>0, <1>18 DEF AppendResults, TypeOK
  <2> QED BY <1>0, <1>18, <2>1, <2>3, <2>4 DEF AppendResults, TypeOK
<1>19. CASE Save(m) \/ Finish(m)
  <2>1. at' \in [Msgs -> {"new"} \cup Running \cup Ended]
    BY <1>0, <1>19, GotoType DEF Save, Finish, Running
  <2>2. hist' \in [Msgs -> Seq(Entries)] /\ ckpt' \in [Msgs -> Seq(Entries)]
    BY <1>0, <1>1, <1>19, PushType DEF Save, Finish
  <2> QED BY <1>0, <1>19, <2>1, <2>2 DEF Save, Finish, TypeOK
<1>20. CASE CloseTurn(m)
  <2>1. row' \in [Msgs -> {"none", "pending", "running", "completed", "failed"}]
    BY <1>0, <1>20 DEF CloseTurn, TypeOK
  <2>2. "replied" \in Ended
    BY DEF Ended
  <2> QED BY <1>0, <1>20, <2>1, <2>2, LeaveType, KeepType DEF CloseTurn, TypeOK
<1>21. CASE TimeOut(m)
  BY <1>0, <1>21, LeaveType DEF TimeOut, TypeOK, Ended
<1> QED BY <1>2, <1>3, <1>4, <1>5, <1>6, <1>7, <1>8, <1>9, <1>10, <1>11, <1>12, <1>13, <1>14,
           <1>15, <1>16, <1>17, <1>18, <1>19, <1>20, <1>21 DEF Turns, Step

(* Where a turn is after each of its actions.                              *)
LEMMA Whereto ==
  ASSUME TypeOK, NEW m \in Msgs
  PROVE  /\ Start(m) => at'[m] = IF V2 THEN "classify" ELSE "prepare"
         /\ Buffer(m) => at'[m] = "new" /\ at[m] = "new"
         /\ ClassifiedAsOrder(m) => at'[m] = "prepare"
         /\ Prepare(m) => at'[m] = "insert"
         /\ InsertRow(m) => at'[m] \in {"mark", "top"}
         /\ MarkRunning(m) \/ AnswerNoTools(m) \/ Save(m) => at'[m] = "top"
         /\ TopGo(m) => at'[m] = "gate"
         /\ GateCall(m) => at'[m] = "model"
         /\ AnswerText(m) => at'[m] \in {"top", "finish"}
         /\ AnswerTools(m) => at'[m] = "tool"
         /\ RunTool(m) => at'[m] = IF todo[m] = 1 THEN "append" ELSE "tool"
         /\ AppendResults(m) => at'[m] = "save"
         /\ Finish(m) => at'[m] = "close"
<1> USE DEF Goto
<1>0. DOMAIN at = Msgs
  BY DEF TypeOK
<1>1. Start(m) => at'[m] = IF V2 THEN "classify" ELSE "prepare"
  BY <1>0 DEF Start
<1>2. Buffer(m) => at'[m] = "new" /\ at[m] = "new"
  BY DEF Buffer
<1>3. /\ ClassifiedAsOrder(m) => at'[m] = "prepare"
      /\ Prepare(m) => at'[m] = "insert"
  BY <1>0 DEF ClassifiedAsOrder, Prepare
<1>4. /\ InsertRow(m) => at'[m] \in {"mark", "top"}
      /\ MarkRunning(m) \/ AnswerNoTools(m) \/ Save(m) => at'[m] = "top"
  BY <1>0 DEF InsertRow, MarkRunning, AnswerNoTools, Save
<1>5. TopGo(m) => at'[m] = "gate"
  BY <1>0 DEF TopGo
<1>6. GateCall(m) => at'[m] = "model"
  BY <1>0 DEF GateCall
<1>7. AnswerText(m) => at'[m] \in {"top", "finish"}
  BY <1>0 DEF AnswerText
<1>8. AnswerTools(m) => at'[m] = "tool"
  BY <1>0 DEF AnswerTools
<1>9. RunTool(m) => at'[m] = IF todo[m] = 1 THEN "append" ELSE "tool"
  BY <1>0 DEF RunTool
<1>10. AppendResults(m) => at'[m] = "save"
  BY <1>0 DEF AppendResults
<1>11. Finish(m) => at'[m] = "close"
  BY <1>0 DEF Finish
<1> QED BY <1>1, <1>2, <1>3, <1>4, <1>5, <1>6, <1>7, <1>8, <1>9, <1>10, <1>11

(* The actions that end a turn.                                            *)
Leaves(m) ==
  \/ StartEmpty(m) \/ ClassifiedAsChat(m) \/ RoutedToHive(m) \/ TopStop(m) \/ TopCap(m)
  \/ GateRefuse(m) \/ AnswerError(m) \/ CloseTurn(m) \/ TimeOut(m)

LEMMA LeavesEnds ==
  ASSUME TypeOK, NEW m \in Msgs, Leaves(m)
  PROVE  at'[m] \in Ended /\ at'[m] # "lost" /\ late'[m] = 0
<1>1. PICK how \in Ended \ {"lost"} : Leave(m, how)
  BY DEF Leaves, StartEmpty, ClassifiedAsChat, RoutedToHive, TopStop, TopCap, GateRefuse,
     AnswerError, CloseTurn, TimeOut, Ended
<1> QED BY <1>1, LeaveType

LEMMA CallsTurn ==
  ASSUME TurnTypes, NEW m \in Msgs, Turns(m)
  PROVE  CallsOf(m)'
<1>0. TypeOK /\ CallsOf(m) /\ todo[m] \in 0 .. MaxTools /\ ran[m] \in 0 .. MaxTools
  BY DEF TurnTypes, Calls, TypeOK
<1>1. CASE AnswerTools(m)
  <2>1. at'[m] = "tool"
    BY <1>0, <1>1, Whereto
  <2>2. PICK n \in 1 .. MaxTools : todo' = [todo EXCEPT ![m] = n]
    BY <1>1 DEF AnswerTools
  <2>3. todo'[m] = n /\ ran'[m] = 0
    BY <1>1, <2>2 DEF AnswerTools, TurnTypes, TypeOK
  <2> QED BY <2>1, <2>3, TurnAssumption DEF CallsOf
<1>2. CASE RunTool(m)
  <2>1. at[m] = "tool" /\ at'[m] = IF todo[m] = 1 THEN "append" ELSE "tool"
    BY <1>0, <1>2, Whereto DEF RunTool
  <2>2. todo'[m] = todo[m] - 1 /\ ran'[m] = ran[m] + 1
    BY <1>2 DEF RunTool, TurnTypes, TypeOK
  <2>3. todo[m] # 0 /\ ran[m] + todo[m] <= MaxTools
    BY <1>0, <2>1 DEF CallsOf
  <2> QED BY <1>0, <2>1, <2>2, <2>3, TurnAssumption DEF CallsOf
<1>3. CASE ~(AnswerTools(m) \/ RunTool(m))
  <2>1. at'[m] \notin {"tool", "append"}
    BY <1>0, <1>3, Whereto, LeavesEnds DEF Turns, Step, Leaves, Ended
  <2> QED BY <2>1 DEF CallsOf
<1> QED BY <1>1, <1>2, <1>3

(* Every variable keeps its type, and what the calls of a round add up to. *)
LEMMA TurnTypesStep == TurnTypes /\ [Next]_turnVars => TurnTypes'
<1> SUFFICES ASSUME TurnTypes, [Next]_turnVars PROVE TurnTypes'
  OBVIOUS
<1> USE DEF loopVars, chatVars, taskVars, costVars, bootVars
<1>1. ASSUME NEW m \in Msgs, Turns(m) PROVE TurnTypes'
  <2>1. ASSUME NEW n \in Msgs \ {m} PROVE CallsOf(n)'
    BY <1>1, <2>1, OthersRest DEF TurnTypes, Calls, CallsOf, Rests
  <2> QED BY <1>1, <2>1, TypeTurn, CallsTurn DEF TurnTypes, Calls
<1>2. ASSUME NEW c \in Chats, RequestStop(c) PROVE TurnTypes'
  <2>1. TypeOK'
    BY <1>2 DEF RequestStop, TurnTypes, TypeOK
  <2> QED BY <1>2, <2>1 DEF RequestStop, TurnTypes, Calls, CallsOf
<1>3. CASE Crash
  <2>1. at' \in [Msgs -> {"new"} \cup Running \cup Ended]
    BY <1>3 DEF Crash, TurnTypes, TypeOK, Ended
  <2>2. pend' \in [Chats -> SUBSET Msgs]
    BY <1>3 DEF Crash
  <2>3. TypeOK'
    BY <1>3, <2>1, <2>2 DEF Crash, TurnTypes, TypeOK
  <2>4. \A m \in Msgs : at'[m] = at[m] \/ at'[m] = "lost"
    BY <1>3 DEF Crash
  <2> QED BY <1>3, <2>3, <2>4 DEF Crash, TurnTypes, Calls, CallsOf
<1>4. CASE Recover
  <2>1. PICK old \in SUBSET Incomplete :
          /\ plan' = [m \in Msgs |-> IF m \in Incomplete THEN Classify(m, old) ELSE "none"]
          /\ row' = [m \in Msgs |-> IF m \in old THEN "failed" ELSE row[m]]
    BY <1>4 DEF Recover
  <2>2. plan' \in [Msgs -> {"none", "resume", "restart", "abandon"}]
    BY <2>1 DEF Classify
  <2>3. row' \in [Msgs -> {"none", "pending", "running", "completed", "failed"}]
    BY <2>1 DEF TurnTypes, TypeOK
  <2>4. TypeOK'
    BY <1>4, <2>2, <2>3 DEF Recover, TurnTypes, TypeOK
  <2> QED BY <1>4, <2>4 DEF Recover, TurnTypes, Calls, CallsOf
<1>5. CASE UNCHANGED turnVars
  BY <1>5 DEF turnVars, TurnTypes, TypeOK, Calls, CallsOf
<1> QED BY <1>1, <1>2, <1>3, <1>4, <1>5 DEF Next, Turns

LEMMA TurnTypesInit == Init => TurnTypes
<1> SUFFICES ASSUME Init PROVE TurnTypes
  OBVIOUS
<1>1. TypeOK
  BY TurnAssumption DEF Init, TypeOK
<1> QED BY <1>1 DEF Init, TurnTypes, Calls, CallsOf

(* Every variable keeps its type: no counter of the loop leaves its bound, *)
(* whatever fails, and the classifier's share never exceeds what was spent.*)
THEOREM TypeCorrect == Spec => []TypeOK
<1>1. TurnTypes => TypeOK
  BY DEF TurnTypes
<1> QED BY <1>1, TurnTypesInit, TurnTypesStep, PTL DEF Spec

-----------------------------------------------------------------------------
(* One turn of a chat runs at a time, and none while the process is down.  *)
OneTurnPerChat ==
  /\ \A m, n \in Msgs : at[m] \in Running /\ at[n] \in Running /\ ChatOf[m] = ChatOf[n] => m = n
  /\ up \/ \A m \in Msgs : at[m] \notin Running

\* Only a start makes a turn run, and only when no other of its chat does.
LEMMA TurnsOnlyUp ==
  ASSUME TypeOK, NEW m \in Msgs, Turns(m)
  PROVE  /\ up /\ up' = up
         /\ at'[m] \in Running => at[m] \in Running \/ (Start(m) /\ ~Busy(ChatOf[m]))
<1>1. up /\ up' = up
  <2>1. CASE Start(m) \/ StartEmpty(m) \/ Buffer(m) \/ TimeOut(m)
    BY <2>1 DEF Start, StartEmpty, Buffer, TimeOut, bootVars
  <2>2. CASE \/ ClassifiedAsChat(m) \/ ClassifiedAsOrder(m) \/ RoutedToHive(m) \/ Prepare(m)
             \/ InsertRow(m) \/ MarkRunning(m)
    BY <2>2 DEF ClassifiedAsChat, ClassifiedAsOrder, RoutedToHive, Prepare, InsertRow,
       MarkRunning, bootVars
  <2>3. CASE TopStop(m) \/ TopCap(m) \/ TopGo(m) \/ GateRefuse(m) \/ GateCall(m)
    BY <2>3 DEF TopStop, TopCap, TopGo, GateRefuse, GateCall, bootVars
  <2>4. CASE AnswerNoTools(m) \/ AnswerError(m) \/ AnswerText(m) \/ AnswerTools(m)
    BY <2>4 DEF AnswerNoTools, AnswerError, AnswerText, AnswerTools, bootVars
  <2>5. CASE RunTool(m) \/ AppendResults(m) \/ Save(m) \/ Finish(m) \/ CloseTurn(m)
    BY <2>5 DEF RunTool, AppendResults, Save, Finish, CloseTurn, bootVars
  <2> QED BY <2>1, <2>2, <2>3, <2>4, <2>5 DEF Turns, Step
<1>2. CASE Start(m)
  BY <1>1, <1>2 DEF Start
<1>3. CASE Leaves(m) \/ Buffer(m)
  <2>1. at'[m] \notin Running
    BY <1>3, LeavesEnds, Whereto DEF Running, Ended
  <2> QED BY <1>1, <2>1
<1>4. CASE Step(m) /\ ~Leaves(m)
  <2>1. at[m] \in Running
    <3>1. CASE \/ ClassifiedAsOrder(m) \/ Prepare(m) \/ InsertRow(m) \/ MarkRunning(m)
               \/ TopGo(m) \/ GateCall(m) \/ AnswerNoTools(m)
      BY <3>1 DEF ClassifiedAsOrder, Prepare, InsertRow, MarkRunning, TopGo, GateCall,
         AnswerNoTools, Running
    <3>2. CASE \/ AnswerText(m) \/ AnswerTools(m) \/ RunTool(m) \/ AppendResults(m)
               \/ Save(m) \/ Finish(m)
      BY <3>2 DEF AnswerText, AnswerTools, RunTool, AppendResults, Save, Finish, Running
    <3> QED BY <1>4, <3>1, <3>2 DEF Step, Leaves
  <2> QED BY <1>1, <2>1
<1> QED BY <1>2, <1>3, <1>4 DEF Turns, Leaves

LEMMA OneTurnStep == TypeOK /\ OneTurnPerChat /\ [Next]_turnVars => OneTurnPerChat'
<1> SUFFICES ASSUME TypeOK, OneTurnPerChat, [Next]_turnVars PROVE OneTurnPerChat'
  OBVIOUS
<1>1. ASSUME NEW m \in Msgs, Turns(m) PROVE OneTurnPerChat'
  <2>1. \A n \in Msgs \ {m} : at'[n] = at[n]
    BY <1>1, OthersRest DEF Rests
  <2>2. at'[m] \in Running => \A n \in Msgs \ {m} : at[n] \in Running => ChatOf[n] # ChatOf[m]
    BY <1>1, TurnsOnlyUp DEF OneTurnPerChat, Busy
  <2>3. up'
    BY <1>1, TurnsOnlyUp
  <2> QED BY <2>1, <2>2, <2>3 DEF OneTurnPerChat
<1>2. CASE Crash
  <2>1. \A m \in Msgs : at'[m] \notin Running
    BY <1>2 DEF Crash, Running
  <2> QED BY <2>1 DEF OneTurnPerChat
<1>3. CASE Recover \/ (\E c \in Chats : RequestStop(c)) \/ UNCHANGED turnVars
  <2>1. at' = at /\ (up' = up \/ up')
    BY <1>3 DEF Recover, RequestStop, turnVars, bootVars
  <2> QED BY <2>1 DEF OneTurnPerChat
<1> QED BY <1>1, <1>2, <1>3 DEF Next, Turns

-----------------------------------------------------------------------------
(* The interrupt flag.                                                     *)

AfterCall == {"model", "tool", "append", "save", "top", "finish", "close"}

(* The call begun after the flag was set is behind the turn's last look at *)
(* the flag: from there it meets the flag at the head of the loop.  A turn *)
(* that died with the process keeps what it had.                           *)
LateOf(m) ==
  /\ late[m] \in 0 .. 1
  /\ late[m] = 1 => at[m] = "lost" \/ (at[m] \in AfterCall /\ stop[ChatOf[m]])
LateInv == \A m \in Msgs : LateOf(m)

LEMMA StopChanges ==
  ASSUME TypeOK, NEW m \in Msgs, Turns(m)
  PROVE  \/ stop' = stop /\ ~Start(m) /\ ~StartEmpty(m)
         \/ /\ Start(m) \/ StartEmpty(m)
            /\ stop' = [stop EXCEPT ![ChatOf[m]] = FALSE]
<1>1. CASE Start(m) \/ StartEmpty(m)
  BY <1>1 DEF Start, StartEmpty
<1>2. CASE ~(Start(m) \/ StartEmpty(m))
  <2>1. CASE Buffer(m) \/ TimeOut(m)
    BY <1>2, <2>1 DEF Buffer, TimeOut
  <2>2. CASE \/ ClassifiedAsChat(m) \/ ClassifiedAsOrder(m) \/ RoutedToHive(m) \/ Prepare(m)
             \/ InsertRow(m) \/ MarkRunning(m)
    BY <1>2, <2>2 DEF ClassifiedAsChat, ClassifiedAsOrder, RoutedToHive, Prepare, InsertRow,
       MarkRunning
  <2>3. CASE TopStop(m) \/ TopCap(m) \/ TopGo(m) \/ GateRefuse(m) \/ GateCall(m)
    BY <1>2, <2>3 DEF TopStop, TopCap, TopGo, GateRefuse, GateCall
  <2>4. CASE AnswerNoTools(m) \/ AnswerError(m) \/ AnswerText(m) \/ AnswerTools(m)
    BY <1>2, <2>4 DEF AnswerNoTools, AnswerError, AnswerText, AnswerTools
  <2>5. CASE RunTool(m) \/ AppendResults(m) \/ Save(m) \/ Finish(m) \/ CloseTurn(m)
    BY <1>2, <2>5 DEF RunTool, AppendResults, Save, Finish, CloseTurn
  <2> QED BY <1>2, <2>1, <2>2, <2>3, <2>4, <2>5 DEF Turns, Step
<1> QED BY <1>1, <1>2

LEMMA LateTurn ==
  ASSUME TypeOK, LateInv, NEW m \in Msgs, Turns(m)
  PROVE  LateOf(m)'
<1>0. LateOf(m)
  BY DEF LateInv
<1>1. CASE Leaves(m)
  BY <1>1, LeavesEnds DEF LateOf
<1>2. CASE GateCall(m)
  <2>1. at'[m] = "model" /\ at[m] = "gate" /\ stop' = stop
    BY <1>2, Whereto DEF GateCall
  <2>2. late[m] = 0
    BY <1>0, <2>1 DEF LateOf, AfterCall
  <2>3. late'[m] = IF stop[ChatOf[m]] THEN 1 ELSE 0
    BY <1>2, <2>2 DEF GateCall, TypeOK
  <2> QED BY <2>1, <2>3 DEF LateOf, AfterCall
<1>3. CASE ~Leaves(m) /\ ~GateCall(m)
  <2>1. late' = late
    BY <1>3 DEF Turns, Step, Leaves, Start, Buffer, ClassifiedAsOrder, Prepare, InsertRow,
       MarkRunning, TopGo, AnswerNoTools, AnswerText, AnswerTools, RunTool, AppendResults,
       Save, Finish
  <2>2. CASE late[m] = 0
    BY <2>1, <2>2 DEF LateOf
  <2>3. CASE late[m] = 1
    <3>1. at[m] = "lost" \/ (at[m] \in AfterCall /\ stop[ChatOf[m]])
      BY <1>0, <2>3 DEF LateOf
    <3>2. \/ AnswerNoTools(m) \/ AnswerText(m) \/ AnswerTools(m) \/ RunTool(m)
          \/ AppendResults(m) \/ Save(m) \/ Finish(m)
      BY <1>3, <3>1 DEF Turns, Step, Leaves, Start, Buffer, ClassifiedAsOrder, Prepare,
         InsertRow, MarkRunning, TopGo, AfterCall, AnswerNoTools, AnswerText, AnswerTools,
         RunTool, AppendResults, Save, Finish
    <3>3. at'[m] \in AfterCall
      BY <3>2, Whereto DEF AfterCall
    <3>4. at[m] # "lost" /\ stop' = stop
      BY <3>2 DEF AnswerNoTools, AnswerText, AnswerTools, RunTool, AppendResults, Save, Finish
    <3> QED BY <2>1, <2>3, <3>1, <3>3, <3>4 DEF LateOf
  <2> QED BY <1>0, <2>2, <2>3 DEF LateOf
<1> QED BY <1>1, <1>2, <1>3

LEMMA LateStep == TypeOK /\ LateInv /\ [Next]_turnVars => LateInv'
<1> SUFFICES ASSUME TypeOK, LateInv, [Next]_turnVars PROVE LateInv'
  OBVIOUS
<1>1. ASSUME NEW m \in Msgs, Turns(m) PROVE LateInv'
  <2>1. ASSUME NEW n \in Msgs \ {m} PROVE LateOf(n)'
    <3>1. at'[n] = at[n] /\ late'[n] = late[n] /\ LateOf(n)
      BY <1>1, OthersRest DEF Rests, LateInv
    <3>2. at[n] \in AfterCall /\ stop[ChatOf[n]] => stop'[ChatOf[n]]
      <4>1. CASE stop' = stop
        BY <4>1
      <4>2. CASE (Start(m) \/ StartEmpty(m)) /\ stop' = [stop EXCEPT ![ChatOf[m]] = FALSE]
        <5>1. ~Busy(ChatOf[m]) /\ AfterCall \subseteq Running
          BY <4>2 DEF Start, StartEmpty, AfterCall, Running
        <5>2. at[n] \in AfterCall => ChatOf[n] # ChatOf[m]
          BY <5>1 DEF Busy
        <5> QED BY <4>2, <5>2 DEF TypeOK
      <4> QED BY <1>1, <4>1, <4>2, StopChanges
    <3> QED BY <3>1, <3>2 DEF LateOf
  <2> QED BY <1>1, <2>1, LateTurn DEF LateInv
<1>2. ASSUME NEW c \in Chats, RequestStop(c) PROVE LateInv'
  <2>1. late' = late /\ at' = at /\ \A d \in Chats : stop[d] => stop'[d]
    BY <1>2 DEF RequestStop, TypeOK
  <2> QED BY <2>1, TurnAssumption DEF LateInv, LateOf
<1>3. CASE Crash
  <2>1. late' = late /\ stop' = stop /\ \A m \in Msgs : at'[m] = at[m] \/ at'[m] = "lost"
    BY <1>3 DEF Crash
  <2> QED BY <2>1 DEF LateInv, LateOf
<1>4. CASE Recover \/ UNCHANGED turnVars
  <2>1. late' = late /\ stop' = stop /\ at' = at
    BY <1>4 DEF Recover, turnVars
  <2> QED BY <2>1 DEF LateInv, LateOf
<1> QED BY <1>1, <1>2, <1>3, <1>4 DEF Next, Turns

(* After the interrupt flag of its chat is set a turn begins at most one   *)
(* more call of the provider, whatever else happens to it and to others.   *)
THEOREM StopTakesHoldHolds == Spec => []StopTakesHold
<1>1. Init => TurnTypes /\ LateInv
  BY TurnTypesInit DEF Init, LateInv, LateOf
<1>2. TurnTypes /\ LateInv /\ [Next]_turnVars => (TurnTypes /\ LateInv)'
  BY TurnTypesStep, LateStep DEF TurnTypes
<1>3. LateInv => StopTakesHold
  BY DEF LateInv, LateOf, StopTakesHold
<1> QED BY <1>1, <1>2, <1>3, PTL DEF Spec

-----------------------------------------------------------------------------
(* Buffered texts.                                                         *)

(* What is buffered for a chat is of that chat and was not shown yet.      *)
BufferInv ==
  /\ \A c \in Chats : \A m \in pend[c] : ChatOf[m] = c /\ shown[m] = {}
  /\ \A m \in Msgs : shown[m] = {} \/ \E n \in Msgs : shown[m] = {n}

LEMMA BufferStep == TypeOK /\ BufferInv /\ [Next]_turnVars => BufferInv'
<1> SUFFICES ASSUME TypeOK, BufferInv, [Next]_turnVars PROVE BufferInv'
  OBVIOUS
<1>0. /\ pend \in [Chats -> SUBSET Msgs] /\ shown \in [Msgs -> SUBSET Msgs]
      /\ \A m \in Msgs : ChatOf[m] \in Chats
  BY TurnAssumption DEF TypeOK
<1>1. CASE UNCHANGED <<pend, shown>>
  BY <1>1 DEF BufferInv
<1>2. ASSUME NEW m \in Msgs, Buffer(m) PROVE BufferInv'
  <2>1. /\ shown' = shown /\ shown[m] = {}
        /\ pend' = [pend EXCEPT ![ChatOf[m]] = @ \cup {m}]
    BY <1>2 DEF Buffer
  <2> QED BY <1>0, <2>1 DEF BufferInv
<1>3. ASSUME NEW m \in Msgs, AppendResults(m) PROVE BufferInv'
  <2>1. /\ pend' = [pend EXCEPT ![ChatOf[m]] = {}]
        /\ \A x \in Msgs : shown'[x] = IF x \in pend[ChatOf[m]] THEN shown[x] \cup {m}
                                                                ELSE shown[x]
    BY <1>3 DEF AppendResults
  <2>2. ASSUME NEW c \in Chats, NEW x \in pend'[c] PROVE ChatOf[x] = c /\ shown'[x] = {}
    <3>1. c # ChatOf[m] /\ x \in pend[c] /\ x \in Msgs
      BY <1>0, <2>1, <2>2
    <3>2. ChatOf[x] = c /\ shown[x] = {}
      BY <3>1 DEF BufferInv
    <3>3. x \notin pend[ChatOf[m]]
      BY <1>0, <3>1, <3>2 DEF BufferInv
    <3> QED BY <2>1, <3>1, <3>2, <3>3
  <2>3. ASSUME NEW x \in Msgs PROVE shown'[x] = {} \/ \E n \in Msgs : shown'[x] = {n}
    <3>1. CASE x \in pend[ChatOf[m]]
      <4>1. shown[x] = {}
        BY <1>0, <3>1 DEF BufferInv
      <4> QED BY <2>1, <3>1, <4>1
    <3>2. CASE x \notin pend[ChatOf[m]]
      <4>1. shown'[x] = shown[x]
        BY <2>1, <3>2
      <4>2. shown[x] = {} \/ \E n \in Msgs : shown[x] = {n}
        BY DEF BufferInv
      <4> QED BY <4>1, <4>2
    <3> QED BY <3>1, <3>2
  <2> QED BY <2>2, <2>3 DEF BufferInv
<1>4. CASE Crash
  BY <1>4 DEF Crash, BufferInv
<1>5. ASSUME NEW m \in Msgs, Turns(m), ~Buffer(m), ~AppendResults(m)
      PROVE  UNCHANGED <<pend, shown>>
  <2> USE DEF chatVars
  <2>1. CASE Start(m) \/ StartEmpty(m) \/ TimeOut(m)
    BY <2>1 DEF Start, StartEmpty, TimeOut
  <2>2. CASE \/ ClassifiedAsChat(m) \/ ClassifiedAsOrder(m) \/ RoutedToHive(m) \/ Prepare(m)
             \/ InsertRow(m) \/ MarkRunning(m)
    BY <2>2 DEF ClassifiedAsChat, ClassifiedAsOrder, RoutedToHive, Prepare, InsertRow,
       MarkRunning
  <2>3. CASE TopStop(m) \/ TopCap(m) \/ TopGo(m) \/ GateRefuse(m) \/ GateCall(m)
    BY <2>3 DEF TopStop, TopCap, TopGo, GateRefuse, GateCall
  <2>4. CASE AnswerNoTools(m) \/ AnswerError(m) \/ AnswerText(m) \/ AnswerTools(m)
    BY <2>4 DEF AnswerNoTools, AnswerError, AnswerText, AnswerTools
  <2>5. CASE RunTool(m) \/ Save(m) \/ Finish(m) \/ CloseTurn(m)
    BY <2>5 DEF RunTool, Save, Finish, CloseTurn
  <2> QED BY <1>5, <2>1, <2>2, <2>3, <2>4, <2>5 DEF Turns, Step
<1>6. CASE Recover \/ (\E c \in Chats : RequestStop(c)) \/ UNCHANGED turnVars
  BY <1>1, <1>6 DEF Recover, RequestStop, turnVars, chatVars
<1> QED BY <1>1, <1>2, <1>3, <1>4, <1>5, <1>6 DEF Next, Turns

(* A text buffered for a busy chat is shown to at most one turn: whoever   *)
(* takes the list takes all of it, and nothing shown is buffered again.    *)
THEOREM ShownOnceHolds == Spec => []ShownOnce
<1>1. Init => TurnTypes /\ BufferInv
  BY TurnTypesInit DEF Init, BufferInv
<1>2. TurnTypes /\ BufferInv /\ [Next]_turnVars => (TurnTypes /\ BufferInv)'
  BY TurnTypesStep, BufferStep DEF TurnTypes
<1>3. BufferInv => ShownOnce
  <2> SUFFICES ASSUME BufferInv, NEW m \in Msgs PROVE Cardinality(shown[m]) <= 1
    BY DEF ShownOnce
  <2>1. CASE shown[m] = {}
    <3>1. Cardinality({}) = 0
      BY FS_EmptySet
    <3> QED BY <2>1, <3>1
  <2>2. CASE \E n \in Msgs : shown[m] = {n}
    BY <2>2, FS_Singleton
  <2> QED BY <2>1, <2>2 DEF BufferInv
<1> QED BY <1>1, <1>2, <1>3, PTL DEF Spec

-----------------------------------------------------------------------------
(* What is spent.                                                          *)

InCallAt(place) == {m \in Msgs : place[m] = "model"}
InCall == InCallAt(at)

\* The calls under way are those of different chats.
LEMMA CallsOfChats ==
  ASSUME NEW place,
         \A m, n \in Msgs : place[m] \in Running /\ place[n] \in Running /\ ChatOf[m] = ChatOf[n]
                            => m = n
  PROVE  /\ IsFiniteSet(InCallAt(place)) /\ Cardinality(InCallAt(place)) \in Nat
         /\ Cardinality(Chats) \in Nat /\ Cardinality(InCallAt(place)) <= Cardinality(Chats)
<1> DEFINE calls == InCallAt(place)
           f == [m \in calls |-> ChatOf[m]]
<1>1. f \in [calls -> Chats]
  BY TurnAssumption DEF InCallAt
<1>2. \A m, n \in calls : f[m] = f[n] => m = n
  BY DEF InCallAt, Running
<1>3. f \in Injection(calls, Chats)
  BY <1>1, <1>2 DEF Injection, IsInjective
<1>4. IsFiniteSet(Chats)
  BY TurnAssumption
<1> HIDE DEF f, calls
<1>5. IsFiniteSet(calls) /\ Cardinality(calls) <= Cardinality(Chats)
  BY <1>3, <1>4, FS_Injection
<1> QED BY <1>4, <1>5, FS_CardinalityType DEF calls

(* What the calls under way will cost is within the limit already, but for *)
(* one call per chat.                                                      *)
SpendInv ==
  Limit # 0 => spent - triage + Cardinality(InCall) <= Limit - 1 + Cardinality(Chats)

\* A step that neither begins nor charges a call does not raise the sum.
LEMMA FewerCalls ==
  ASSUME TypeOK, OneTurnPerChat, SpendInv, TypeOK', InCall' \subseteq InCall,
         spent' - triage' <= spent - triage
  PROVE  SpendInv'
<1>1. IsFiniteSet(InCall) /\ Cardinality(InCall) \in Nat /\ Cardinality(Chats) \in Nat
  BY CallsOfChats DEF OneTurnPerChat, InCall
<1>2. IsFiniteSet(InCall') /\ Cardinality(InCall') <= Cardinality(InCall)
  BY <1>1, FS_Subset
<1>3. Cardinality(InCall') \in Nat
  BY <1>2, FS_CardinalityType
<1>4. spent \in Nat /\ triage \in Nat /\ spent' \in Nat /\ triage' \in Nat /\ Limit \in Nat
  BY TurnAssumption DEF TypeOK
<1>5. ASSUME Limit # 0
      PROVE  spent' - triage' + Cardinality(InCall') <= Limit - 1 + Cardinality(Chats)
  <2> DEFINE ours == spent - triage
             oursThen == spent' - triage'
             calls == Cardinality(InCall)
             callsThen == Cardinality(InCall')
             most == Limit - 1 + Cardinality(Chats)
  <2>1. ours + calls <= most
    BY <1>5 DEF SpendInv
  <2>2. ours \in Int /\ oursThen \in Int /\ most \in Int
    BY <1>1, <1>4
  <2>3. calls \in Nat /\ callsThen \in Nat /\ callsThen <= calls /\ oursThen <= ours
    BY <1>1, <1>2, <1>3
  <2> HIDE DEF ours, oursThen, calls, callsThen, most
  <2>4. oursThen + callsThen <= most
    BY <2>1, <2>2, <2>3
  <2> QED BY <2>4 DEF oursThen, callsThen, most
<1> QED BY <1>5 DEF SpendInv

LEMMA SpendTurn ==
  ASSUME TypeOK, OneTurnPerChat, SpendInv, TypeOK', OneTurnPerChat',
         NEW m \in Msgs, Turns(m)
  PROVE  SpendInv'
<1>0. \A n \in Msgs \ {m} : at'[n] = at[n]
  BY OthersRest DEF Rests
<1>1. /\ spent \in Nat /\ triage \in Nat /\ Limit \in Nat
      /\ IsFiniteSet(InCall) /\ Cardinality(InCall) \in Nat /\ Cardinality(Chats) \in Nat
  <2>1. spent \in Nat /\ triage \in Nat /\ Limit \in Nat
    BY TurnAssumption DEF TypeOK
  <2> QED BY <2>1, CallsOfChats DEF OneTurnPerChat, InCall
<1>2. Cardinality(InCall') <= Cardinality(Chats) /\ Cardinality(InCall') \in Nat
  BY CallsOfChats DEF OneTurnPerChat, InCall
<1>3. CASE GateCall(m)
  <2>1. spent' = spent /\ triage' = triage /\ (Limit # 0 => spent < Limit)
    BY <1>1, <1>3 DEF GateCall, OverBudget, costVars
  <2> HIDE DEF InCall
  <2> QED BY <1>1, <1>2, <2>1 DEF SpendInv
<1>4. CASE AnswerText(m) \/ AnswerTools(m)
  <2>1. at[m] = "model" /\ at'[m] # "model"
    BY <1>4, Whereto DEF AnswerText, AnswerTools
  <2>2. InCall' = InCall \ {m} /\ m \in InCall
    BY <1>0, <2>1 DEF InCall, InCallAt
  <2>3. spent' = spent + 1 /\ triage' = triage
    BY <1>4 DEF AnswerText, AnswerTools, Charge
  <2>4. Cardinality(InCall') = Cardinality(InCall) - 1
    BY <1>1, <2>2, FS_RemoveElement
  <2> HIDE DEF InCall
  <2> QED BY <1>1, <1>2, <2>3, <2>4 DEF SpendInv
<1>5. CASE ~(GateCall(m) \/ AnswerText(m) \/ AnswerTools(m))
  <2>1. spent' - triage' = spent - triage
    <3>1. CASE ClassifiedAsChat(m) \/ ClassifiedAsOrder(m) \/ RoutedToHive(m)
      BY <1>1, <3>1 DEF ClassifiedAsChat, ClassifiedAsOrder, RoutedToHive, Charge
    <3>2. CASE ~(ClassifiedAsChat(m) \/ ClassifiedAsOrder(m) \/ RoutedToHive(m))
      <4>1. UNCHANGED costVars
        BY <1>5, <3>2 DEF Turns, Step, Start, StartEmpty, Buffer, TimeOut, Prepare, InsertRow,
           MarkRunning, TopStop, TopCap, TopGo, GateRefuse, AnswerNoTools, AnswerError,
           RunTool, AppendResults, Save, Finish, CloseTurn
      <4> QED BY <4>1 DEF costVars
    <3> QED BY <3>1, <3>2
  <2>2. at'[m] # "model"
    BY <1>5, Whereto, LeavesEnds DEF Turns, Step, Leaves, Ended
  <2>3. InCall' \subseteq InCall
    BY <1>0, <2>2 DEF InCall, InCallAt
  <2>4. spent' \in Nat /\ triage' \in Nat
    BY DEF TypeOK
  <2>5. spent' - triage' <= spent - triage
    BY <1>0, <2>1, <2>4
  <2> QED BY <2>3, <2>5, FewerCalls
<1> QED BY <1>3, <1>4, <1>5

LEMMA SpendStep ==
  /\ TypeOK /\ OneTurnPerChat /\ SpendInv /\ TypeOK' /\ OneTurnPerChat'
  /\ [Next]_turnVars
  => SpendInv'
<1> SUFFICES ASSUME TypeOK, OneTurnPerChat, SpendInv, TypeOK', OneTurnPerChat',
                    [Next]_turnVars
             PROVE  SpendInv'
  OBVIOUS
<1>0. spent \in Nat /\ triage \in 0 .. spent
  BY DEF TypeOK
<1>1. ASSUME NEW m \in Msgs, Turns(m) PROVE SpendInv'
  BY <1>1, SpendTurn
<1>2. CASE Crash
  <2>1. InCall' = {} /\ spent' = spent /\ triage' = triage
    BY <1>2 DEF Crash, InCall, Running, InCallAt, costVars
  <2> QED BY <1>0, <2>1, FewerCalls
<1>3. CASE Recover
  <2>1. InCall' \subseteq InCall /\ spent' = 0 /\ triage' = 0
    BY <1>3 DEF Recover, InCall, InCallAt
  <2> QED BY <1>0, <2>1, FewerCalls
<1>4. CASE (\E c \in Chats : RequestStop(c)) \/ UNCHANGED turnVars
  <2>1. InCall' = InCall /\ spent' = spent /\ triage' = triage
    BY <1>4 DEF RequestStop, turnVars, InCall, InCallAt, costVars
  <2> QED BY <1>0, <2>1, FewerCalls
<1> QED BY <1>1, <1>2, <1>3, <1>4 DEF Next, Turns

(* The agent's calls overshoot the budget by less than one call per chat,  *)
(* although each checks it before the call and charges it afterwards: for  *)
(* any number of chats that have one turn at a time each.                  *)
THEOREM SpendBoundedHolds == Spec => []SpendBounded
<1> DEFINE Inv == TurnTypes /\ OneTurnPerChat /\ SpendInv
<1>1. Init => Inv
  <2> SUFFICES ASSUME Init PROVE Inv
    OBVIOUS
  <2>1. TurnTypes
    BY TurnTypesInit
  <2>2. OneTurnPerChat
    BY DEF Init, OneTurnPerChat, Running
  <2>3. InCall = {} /\ spent = 0 /\ triage = 0
    BY DEF Init, InCall, InCallAt
  <2>4. Cardinality(InCall) = 0 /\ Cardinality(Chats) \in Nat /\ Limit \in Nat
    BY <2>3, TurnAssumption, FS_EmptySet, FS_CardinalityType
  <2> QED BY <2>1, <2>2, <2>3, <2>4 DEF SpendInv
<1>2. Inv /\ [Next]_turnVars => Inv'
  BY TurnTypesStep, OneTurnStep, SpendStep DEF TurnTypes
<1>3. Inv => SpendBounded
  <2> SUFFICES ASSUME TypeOK, OneTurnPerChat, SpendInv, Limit # 0
               PROVE  spent - triage <= Limit - 1 + Cardinality(Chats)
    BY DEF SpendBounded, TurnTypes
  <2>1. spent \in Nat /\ triage \in Nat /\ Limit \in Nat
    BY TurnAssumption DEF TypeOK
  <2>2. Cardinality(InCall) \in Nat /\ Cardinality(Chats) \in Nat
    BY CallsOfChats DEF OneTurnPerChat, InCall
  <2> HIDE DEF InCall
  <2> QED BY <2>1, <2>2 DEF SpendInv
<1> QED BY <1>1, <1>2, <1>3, PTL DEF Spec

-----------------------------------------------------------------------------
(* Histories.                                                              *)

(* Every call but one at the very end has its results behind it, and there *)
(* is no call at the end.                                                  *)
PairedSoFar(h) ==
  \A i \in DOMAIN h : i < Len(h) /\ h[i].kind = "call" =>
    h[i + 1].kind = "result" /\ h[i + 1].by = h[i].by /\ h[i + 1].n = h[i].n
Closed(h) == h = <<>> \/ h[Len(h)].kind # "call"

LEMMA PairedParts ==
  ASSUME NEW h \in Seq(Entries)
  PROVE  Paired(h) <=> PairedSoFar(h) /\ Closed(h)
<1>1. Len(h) \in Nat /\ DOMAIN h = 1 .. Len(h)
  OBVIOUS
<1>2. ASSUME Paired(h) PROVE PairedSoFar(h) /\ Closed(h)
  <2>1. PairedSoFar(h)
    BY <1>2 DEF Paired, PairedSoFar
  <2>2. ASSUME h # <<>>, h[Len(h)].kind = "call" PROVE FALSE
    <3>1. Len(h) \in DOMAIN h
      BY <1>1, <2>2
    <3> QED BY <1>1, <1>2, <2>2, <3>1 DEF Paired
  <2> QED BY <2>1, <2>2 DEF Closed
<1>3. ASSUME PairedSoFar(h), Closed(h) PROVE Paired(h)
  <2> SUFFICES ASSUME NEW i \in DOMAIN h, h[i].kind = "call" PROVE i < Len(h)
    BY <1>3 DEF Paired, PairedSoFar
  <2>1. i # Len(h)
    BY <1>3 DEF Closed
  <2> QED BY <1>1, <2>1
<1> QED BY <1>2, <1>3

LEMMA AppendedLast ==
  ASSUME NEW h \in Seq(Entries), NEW e \in Entries
  PROVE  /\ Append(h, e) \in Seq(Entries) /\ Append(h, e) # <<>>
         /\ Len(Append(h, e)) = Len(h) + 1
         /\ Append(h, e)[Len(Append(h, e))] = e
         /\ \A i \in 1 .. Len(h) : Append(h, e)[i] = h[i]
         /\ Closed(Append(h, e)) <=> e.kind # "call"
BY DEF Closed

(* An entry may follow anything but an open call, and the results of a     *)
(* call may follow that call.                                              *)
LEMMA AppendedSoFar ==
  ASSUME NEW h \in Seq(Entries), NEW e \in Entries, PairedSoFar(h),
         \/ Closed(h)
         \/ h[Len(h)].n = e.n /\ h[Len(h)].by = e.by /\ e.kind = "result"
  PROVE  PairedSoFar(Append(h, e))
<1> DEFINE g == Append(h, e)
<1>1. /\ Len(h) \in Nat /\ Len(g) = Len(h) + 1 /\ g[Len(g)] = e
      /\ \A i \in 1 .. Len(h) : g[i] = h[i]
      /\ DOMAIN h = 1 .. Len(h) /\ DOMAIN g = 1 .. Len(g)
  BY AppendedLast
<1> HIDE DEF g
<1> SUFFICES ASSUME NEW i \in DOMAIN g, i < Len(g), g[i].kind = "call"
             PROVE  g[i + 1].kind = "result" /\ g[i + 1].by = g[i].by /\ g[i + 1].n = g[i].n
  BY DEF PairedSoFar, g
<1>2. i \in 1 .. Len(h) /\ g[i] = h[i]
  BY <1>1
<1>3. CASE i < Len(h)
  <2>1. i + 1 \in 1 .. Len(h) /\ i \in DOMAIN h
    BY <1>1, <1>2, <1>3
  <2>2. g[i + 1] = h[i + 1]
    BY <1>1, <2>1
  <2> QED BY <1>2, <1>3, <2>1, <2>2 DEF PairedSoFar
<1>4. CASE i = Len(h)
  <2>1. g[i + 1] = e
    BY <1>1, <1>4
  <2>2. h # <<>> /\ h[Len(h)].kind = "call"
    BY <1>1, <1>2, <1>4
  <2> QED BY <1>2, <1>4, <2>1, <2>2 DEF Closed
<1> QED BY <1>1, <1>2, <1>3, <1>4

LEMMA AppendedPaired ==
  ASSUME NEW h \in Seq(Entries), NEW e \in Entries, PairedSoFar(h), Closed(h),
         e.kind # "call"
  PROVE  Append(h, e) \in Seq(Entries) /\ PairedSoFar(Append(h, e)) /\ Closed(Append(h, e))
BY AppendedLast, AppendedSoFar

LEMMA PrefixOfItself ==
  ASSUME NEW h \in Seq(Entries)
  PROVE  IsPrefix(h, h) /\ IsPrefix(<<>>, h)
BY DEF IsPrefix

LEMMA PrefixOfAppended ==
  ASSUME NEW g \in Seq(Entries), NEW h \in Seq(Entries), NEW e \in Entries, IsPrefix(g, h)
  PROVE  IsPrefix(g, Append(h, e))
<1>1. Len(g) \in Nat /\ Len(h) \in Nat /\ Len(g) <= Len(h)
  BY DEF IsPrefix
<1>2. Len(g) <= Len(Append(h, e))
  BY <1>1, AppendedLast
<1>3. SubSeq(Append(h, e), 1, Len(g)) = SubSeq(h, 1, Len(g))
  <2>1. \A i \in 1 .. Len(g) : Append(h, e)[i] = h[i]
    BY <1>1, AppendedLast
  <2> QED BY <1>1, <1>2, <2>1
<1> QED BY <1>2, <1>3 DEF IsPrefix

(* Between a call and its results the turn's own history ends in that call *)
(* - unless calls are plain text; otherwise it can be given to a provider. *)
Asked(m) == at[m] \in {"tool", "append"} /\ ~prompted[m]
OpenCall(m) ==
  /\ hist[m] # <<>>
  /\ hist[m][Len(hist[m])] = Entry(m, "call", ran[m] + todo[m])
HistoryOf(m) ==
  /\ PairedSoFar(hist[m])
  /\ Asked(m) => OpenCall(m)
  /\ ~Asked(m) => Closed(hist[m])
(* A checkpoint is from the history of its own turn.                       *)
CheckpointOf(m) ==
  /\ Paired(ckpt[m]) /\ IsPrefix(ckpt[m], hist[m])
  /\ at[m] = "new" => ckpt[m] = <<>>
HistoryInv ==
  /\ \A c \in Chats : Paired(kept[c]) /\ Paired(stored[c])
  /\ \A m \in Msgs : CheckpointOf(m) /\ (at[m] \in Running => HistoryOf(m))

LEMMA KeepPaired ==
  ASSUME TypeOK, HistoryInv, NEW m \in Msgs, NEW h, Paired(h), Keep(m, h)
  PROVE  \A c \in Chats : Paired(kept'[c]) /\ Paired(stored'[c])
<1>1. DOMAIN kept = Chats /\ DOMAIN stored = Chats
  BY DEF TypeOK
<1>2. kept' = [kept EXCEPT ![ChatOf[m]] = h]
  BY DEF Keep
<1>3. stored' = [stored EXCEPT ![ChatOf[m]] = h] \/ stored' = stored
  BY DEF Keep
<1>4. \A c \in Chats : Paired(kept[c]) /\ Paired(stored[c])
  BY DEF HistoryInv
<1>5. \A c \in Chats : kept'[c] \in {h, kept[c]} /\ stored'[c] \in {h, stored[c]}
  BY <1>1, <1>2, <1>3
<1> QED BY <1>4, <1>5

\* What the entries are told apart by.
LEMMA EntryFields ==
  ASSUME NEW m \in Msgs, NEW kind \in Kinds, NEW n \in 0 .. MaxTools
  PROVE  /\ Entry(m, kind, n) \in Entries /\ Entry(m, kind, n).kind = kind
         /\ Entry(m, kind, n).by = m /\ Entry(m, kind, n).n = n
BY EntryType DEF Entry

\* Where a turn neither has an open call nor asks for one, what it appends
\* leaves a history with all its results.
LEMMA PushedPaired ==
  ASSUME TypeOK, NEW m \in Msgs, HistoryOf(m), ~Asked(m), NEW e \in Entries, e.kind # "call"
  PROVE  /\ Append(hist[m], e) \in Seq(Entries)
         /\ PairedSoFar(Append(hist[m], e)) /\ Closed(Append(hist[m], e))
<1>1. hist[m] \in Seq(Entries)
  BY DEF TypeOK
<1> QED BY <1>1, AppendedPaired DEF HistoryOf

LEMMA StartHistory ==
  ASSUME TypeOK, HistoryInv, NEW m \in Msgs, Start(m)
  PROVE  HistoryOf(m)' /\ CheckpointOf(m)' /\ UNCHANGED <<kept, stored>>
<1> DEFINE h == kept[ChatOf[m]]
           e == Entry(m, "user", 0)
<1>1. h \in Seq(Entries) /\ Paired(h)
  BY TurnAssumption DEF TypeOK, HistoryInv
<1>2. e \in Entries /\ e.kind # "call"
  BY TurnAssumption, EntryFields DEF Kinds
<1>3. hist'[m] = Append(h, e) /\ ckpt'[m] = ckpt[m] /\ at[m] = "new"
      /\ UNCHANGED <<kept, stored>>
  BY DEF Start, TypeOK, taskVars, chatVars
<1> HIDE DEF h, e
<1>4. PairedSoFar(Append(h, e)) /\ Closed(Append(h, e)) /\ Append(h, e) \in Seq(Entries)
  BY <1>1, <1>2, PairedParts, AppendedPaired
<1>5. ~Asked(m)' /\ at'[m] # "new"
  BY Whereto DEF Asked
<1>6. ckpt[m] = <<>> /\ Paired(ckpt[m])
  BY <1>3 DEF HistoryInv, CheckpointOf
<1>7. IsPrefix(ckpt'[m], hist'[m])
  BY <1>3, <1>4, <1>6, PrefixOfItself
<1> QED BY <1>3, <1>4, <1>5, <1>6, <1>7 DEF HistoryOf, CheckpointOf

\* A turn whose history is the same afterwards, or one entry longer.
LEMMA SameHistory ==
  ASSUME TypeOK, HistoryInv, NEW m \in Msgs, at'[m] # "new" \/ at'[m] = at[m],
         ckpt'[m] = ckpt[m],
         hist'[m] = hist[m] \/ \E e \in Entries : hist'[m] = Append(hist[m], e)
  PROVE  CheckpointOf(m)'
<1>1. ckpt[m] \in Seq(Entries) /\ hist[m] \in Seq(Entries)
  BY DEF TypeOK
<1>2. Paired(ckpt[m]) /\ IsPrefix(ckpt[m], hist[m]) /\ (at[m] = "new" => ckpt[m] = <<>>)
  BY DEF HistoryInv, CheckpointOf
<1>3. IsPrefix(ckpt[m], hist'[m])
  BY <1>1, <1>2, PrefixOfAppended
<1> QED BY <1>2, <1>3 DEF CheckpointOf

LEMMA LeavesHistory ==
  ASSUME TypeOK, HistoryInv, NEW m \in Msgs, Leaves(m)
  PROVE  CheckpointOf(m)' /\ \A c \in Chats : Paired(kept'[c]) /\ Paired(stored'[c])
<1> USE DEF taskVars, chatVars
<1>0. at'[m] # "new" /\ hist[m] \in Seq(Entries) /\ DOMAIN hist = Msgs
  BY LeavesEnds DEF TypeOK, Ended
<1>1. at[m] \in Running => HistoryOf(m)
  BY DEF HistoryInv
<1>2. CASE ClassifiedAsChat(m)
  <2> DEFINE e == Entry(m, "asst", 0)
  <2>1. hist'[m] = Append(hist[m], e) /\ Keep(m, hist'[m]) /\ ckpt' = ckpt
        /\ at[m] = "classify"
    BY <1>0, <1>2 DEF ClassifiedAsChat, Push
  <2>2. e \in Entries /\ e.kind # "call"
    BY TurnAssumption, EntryFields DEF Kinds
  <2>3. HistoryOf(m) /\ ~Asked(m)
    BY <1>1, <2>1 DEF Running, Asked
  <2> HIDE DEF e
  <2>4. PairedSoFar(hist'[m]) /\ Closed(hist'[m]) /\ hist'[m] \in Seq(Entries)
    BY <2>1, <2>2, <2>3, PushedPaired
  <2>5. Paired(hist'[m])
    BY <2>4, PairedParts
  <2> QED BY <1>0, <2>1, <2>2, <2>5, KeepPaired, SameHistory
<1>3. CASE StartEmpty(m)
  <2>1. Keep(m, kept[ChatOf[m]]) /\ hist' = hist /\ ckpt' = ckpt
    BY <1>3 DEF StartEmpty
  <2>2. Paired(kept[ChatOf[m]])
    BY TurnAssumption DEF HistoryInv
  <2> QED BY <1>0, <2>1, <2>2, KeepPaired, SameHistory
<1>4. CASE TopStop(m) \/ TopCap(m) \/ GateRefuse(m) \/ CloseTurn(m)
  <2>1. Keep(m, hist[m]) /\ hist' = hist /\ ckpt' = ckpt /\ at[m] \in {"top", "gate", "close"}
    BY <1>4 DEF TopStop, TopCap, GateRefuse, CloseTurn
  <2>2. HistoryOf(m) /\ ~Asked(m)
    BY <1>1, <2>1 DEF Running, Asked
  <2>3. Paired(hist[m])
    BY <1>0, <2>2, PairedParts DEF HistoryOf
  <2> QED BY <1>0, <2>1, <2>3, KeepPaired, SameHistory
<1>5. CASE RoutedToHive(m) \/ AnswerError(m) \/ TimeOut(m)
  <2>1. hist' = hist /\ ckpt' = ckpt /\ kept' = kept /\ stored' = stored
    BY <1>5 DEF RoutedToHive, AnswerError, TimeOut
  <2> QED BY <1>0, <2>1, SameHistory DEF HistoryInv
<1> QED BY <1>2, <1>3, <1>4, <1>5 DEF Leaves

\* A step outside the tools, of a turn that goes on.
LEMMA LoopHistory ==
  ASSUME TypeOK, HistoryInv, NEW m \in Msgs,
         \/ ClassifiedAsOrder(m) \/ Prepare(m) \/ InsertRow(m) \/ MarkRunning(m) \/ TopGo(m)
         \/ GateCall(m) \/ AnswerNoTools(m) \/ AnswerText(m) \/ Finish(m)
  PROVE  HistoryOf(m)' /\ CheckpointOf(m)' /\ UNCHANGED <<kept, stored>>
<1> USE DEF taskVars, chatVars, loopVars
<1>0. hist[m] \in Seq(Entries) /\ DOMAIN hist = Msgs
  BY DEF TypeOK
<1>1. ckpt' = ckpt /\ kept' = kept /\ stored' = stored
  BY DEF ClassifiedAsOrder, Prepare, InsertRow, MarkRunning, TopGo, GateCall, AnswerNoTools,
     AnswerText, Finish
<1>2. at[m] \in Running \ {"tool", "append"}
  BY DEF ClassifiedAsOrder, Prepare, InsertRow, MarkRunning, TopGo, GateCall, AnswerNoTools,
     AnswerText, Finish, Running
<1>3. at'[m] \notin {"new", "tool", "append"}
  BY Whereto
<1>4. HistoryOf(m) /\ ~Asked(m) /\ ~Asked(m)'
  BY <1>2, <1>3 DEF HistoryInv, Asked
<1>5. \/ hist'[m] = hist[m]
      \/ \E e \in Entries : e.kind # "call" /\ hist'[m] = Append(hist[m], e)
  <2>1. /\ Entry(m, "asst", 0) \in Entries /\ Entry(m, "asst", 0).kind # "call"
        /\ Entry(m, "sys", 0) \in Entries /\ Entry(m, "sys", 0).kind # "call"
    BY TurnAssumption, EntryFields DEF Kinds
  <2>2. CASE Prepare(m) \/ Finish(m)
    BY <1>0, <2>1, <2>2 DEF Prepare, Finish, Push
  <2>3. CASE AnswerText(m)
    BY <1>0, <2>1, <2>3 DEF AnswerText
  <2>4. CASE ~(Prepare(m) \/ Finish(m) \/ AnswerText(m))
    BY <2>4 DEF ClassifiedAsOrder, InsertRow, MarkRunning, TopGo, GateCall, AnswerNoTools
  <2> QED BY <2>2, <2>3, <2>4
<1>6. PairedSoFar(hist'[m]) /\ Closed(hist'[m])
  BY <1>4, <1>5, PushedPaired DEF HistoryOf
<1>7. HistoryOf(m)'
  BY <1>4, <1>6 DEF HistoryOf
<1>8. CheckpointOf(m)'
  BY <1>1, <1>3, <1>5, SameHistory
<1> QED BY <1>1, <1>7, <1>8

\* The answer that asks for tools, their calls, their results.
LEMMA ToolsHistory ==
  ASSUME TurnTypes, HistoryInv, NEW m \in Msgs,
         AnswerTools(m) \/ RunTool(m) \/ AppendResults(m)
  PROVE  HistoryOf(m)' /\ CheckpointOf(m)' /\ UNCHANGED <<kept, stored>>
<1> USE DEF taskVars, chatVars
<1>0. /\ TypeOK /\ hist[m] \in Seq(Entries) /\ DOMAIN hist = Msgs
      /\ CallsOf(m) /\ todo[m] \in 0 .. MaxTools /\ ran[m] \in 0 .. MaxTools
  BY DEF TurnTypes, TypeOK, Calls
<1>1. ckpt' = ckpt /\ kept' = kept /\ stored' = stored /\ prompted' = prompted
  BY DEF AnswerTools, RunTool, AppendResults, loopVars
<1>2. at[m] \in Running
  BY DEF AnswerTools, RunTool, AppendResults, Running
<1>3. at'[m] # "new"
  BY <1>0, Whereto
<1>4. HistoryOf(m)
  BY <1>2 DEF HistoryInv
<1>5. CASE AnswerTools(m)
  <2>1. ~Asked(m) /\ PairedSoFar(hist[m]) /\ Closed(hist[m])
    BY <1>4, <1>5 DEF AnswerTools, Asked, HistoryOf
  <2>2. PICK n \in 1 .. MaxTools :
          /\ todo' = [todo EXCEPT ![m] = n]
          /\ Push(m, IF prompted[m] THEN Entry(m, "asst", 0) ELSE Entry(m, "call", n))
    BY <1>5 DEF AnswerTools
  <2>3. todo'[m] = n /\ ran'[m] = 0 /\ at'[m] = "tool"
    BY <1>0, <1>5, <2>2, Whereto DEF AnswerTools, TypeOK
  <2>4. CASE prompted[m]
    <3>1. Entry(m, "asst", 0) \in Entries /\ Entry(m, "asst", 0).kind # "call"
      BY TurnAssumption, EntryFields DEF Kinds
    <3>2. hist'[m] = Append(hist[m], Entry(m, "asst", 0))
      BY <1>0, <2>2, <2>4 DEF Push
    <3>3. PairedSoFar(hist'[m]) /\ Closed(hist'[m]) /\ ~Asked(m)'
      BY <1>0, <1>1, <1>4, <2>1, <2>4, <3>1, <3>2, PushedPaired DEF Asked
    <3> QED BY <1>0, <1>1, <1>3, <3>1, <3>2, <3>3, SameHistory DEF HistoryOf
  <2>5. CASE ~prompted[m]
    <3> DEFINE e == Entry(m, "call", n)
    <3>1. e \in Entries
      BY <2>2, EntryFields DEF Kinds
    <3>2. hist'[m] = Append(hist[m], e)
      BY <1>0, <2>2, <2>5 DEF Push
    <3>3. ran'[m] + todo'[m] = n
      BY <2>2, <2>3
    <3> HIDE DEF e
    <3>4. PairedSoFar(hist'[m]) /\ hist'[m] # <<>> /\ hist'[m][Len(hist'[m])] = e
      BY <1>0, <2>1, <3>1, <3>2, AppendedSoFar, AppendedLast
    <3>5. OpenCall(m)' /\ Asked(m)'
      BY <1>1, <2>3, <2>5, <3>3, <3>4 DEF OpenCall, Asked, e
    <3> QED BY <1>0, <1>1, <1>3, <3>1, <3>2, <3>4, <3>5, SameHistory DEF HistoryOf
  <2> QED BY <2>4, <2>5
<1>6. CASE RunTool(m)
  <2>1. hist' = hist /\ at[m] = "tool" /\ at'[m] \in {"tool", "append"}
    BY <1>0, <1>6, Whereto DEF RunTool
  <2>2. ran'[m] = ran[m] + 1 /\ todo'[m] = todo[m] - 1
    BY <1>0, <1>6 DEF RunTool, TypeOK
  <2>3. ran'[m] + todo'[m] = ran[m] + todo[m]
    BY <1>0, <2>2
  <2>4. Asked(m)' <=> Asked(m)
    BY <1>1, <2>1 DEF Asked
  <2>5. HistoryOf(m)'
    BY <1>4, <2>1, <2>3, <2>4 DEF HistoryOf, OpenCall
  <2> QED BY <1>0, <1>1, <1>3, <2>1, <2>5, SameHistory
<1>7. CASE AppendResults(m)
  <2> DEFINE e == IF prompted[m] THEN Entry(m, "user", 0) ELSE Entry(m, "result", ran[m])
  <2>1. hist'[m] = Append(hist[m], e) /\ at[m] = "append" /\ at'[m] = "save"
    BY <1>0, <1>7, Whereto DEF AppendResults, Push
  <2>2. /\ e \in Entries /\ e.kind # "call"
        /\ ~prompted[m] => e.kind = "result" /\ e.by = m /\ e.n = ran[m]
    BY <1>0, TurnAssumption, EntryFields DEF Kinds
  <2>3. ran[m] + todo[m] = ran[m]
    BY <1>0, <2>1 DEF CallsOf
  <2>4. \/ Closed(hist[m])
        \/ hist[m][Len(hist[m])].n = e.n /\ hist[m][Len(hist[m])].by = e.by /\ e.kind = "result"
    <3>1. CASE Asked(m)
      <4>1. hist[m][Len(hist[m])] = Entry(m, "call", ran[m]) /\ ~prompted[m]
        BY <1>4, <2>3, <3>1 DEF HistoryOf, OpenCall, Asked
      <4>2. Entry(m, "call", ran[m]).n = ran[m] /\ Entry(m, "call", ran[m]).by = m
        BY <1>0, EntryFields DEF Kinds
      <4> HIDE DEF e
      <4> QED BY <2>2, <4>1, <4>2
    <3>2. CASE ~Asked(m)
      BY <1>4, <3>2 DEF HistoryOf
    <3> QED BY <3>1, <3>2
  <2> HIDE DEF e
  <2>5. PairedSoFar(hist[m])
    BY <1>4 DEF HistoryOf
  <2>6. PairedSoFar(hist'[m]) /\ Closed(hist'[m])
    BY <1>0, <2>1, <2>2, <2>4, <2>5, AppendedSoFar, AppendedLast
  <2>7. HistoryOf(m)'
    BY <2>1, <2>6 DEF HistoryOf, Asked
  <2> QED BY <1>0, <1>1, <1>3, <2>1, <2>2, <2>7, SameHistory
<1> QED BY <1>5, <1>6, <1>7

\* The checkpoint is taken between rounds.
LEMMA SaveHistory ==
  ASSUME TypeOK, HistoryInv, NEW m \in Msgs, Save(m)
  PROVE  HistoryOf(m)' /\ CheckpointOf(m)' /\ UNCHANGED <<kept, stored>>
<1>0. hist[m] \in Seq(Entries) /\ DOMAIN ckpt = Msgs
  BY DEF TypeOK
<1>1. /\ hist' = hist /\ kept' = kept /\ stored' = stored /\ at[m] = "save" /\ at'[m] = "top"
      /\ ckpt' = ckpt \/ ckpt' = [ckpt EXCEPT ![m] = hist[m]]
  BY Whereto DEF Save, chatVars
<1>2. HistoryOf(m) /\ ~Asked(m) /\ ~Asked(m)'
  BY <1>1 DEF HistoryInv, Running, Asked
<1>3. HistoryOf(m)'
  BY <1>1, <1>2 DEF HistoryOf
<1>4. Paired(hist[m]) /\ IsPrefix(hist[m], hist[m])
  BY <1>0, <1>2, PairedParts, PrefixOfItself DEF HistoryOf
<1>5. CheckpointOf(m)
  BY DEF HistoryInv
<1>6. CheckpointOf(m)'
  BY <1>0, <1>1, <1>4, <1>5 DEF CheckpointOf
<1> QED BY <1>1, <1>3, <1>6

LEMMA HistoryStep == TurnTypes /\ HistoryInv /\ [Next]_turnVars => HistoryInv'
<1> SUFFICES ASSUME TurnTypes, TypeOK, HistoryInv, [Next]_turnVars PROVE HistoryInv'
  BY DEF TurnTypes
<1> USE DEF taskVars, chatVars, loopVars
<1>1. ASSUME NEW m \in Msgs, Turns(m) PROVE HistoryInv'
  <2>1. ASSUME NEW n \in Msgs \ {m}
        PROVE  CheckpointOf(n)' /\ (at'[n] \in Running => HistoryOf(n)')
    <3>1. Rests(n) /\ CheckpointOf(n) /\ (at[n] \in Running => HistoryOf(n))
      BY <1>1, OthersRest DEF HistoryInv
    <3>2. (Asked(n)' <=> Asked(n)) /\ (OpenCall(n)' <=> OpenCall(n))
      BY <3>1 DEF Rests, Asked, OpenCall
    <3> QED BY <3>1, <3>2 DEF Rests, CheckpointOf, HistoryOf
  <2>2. CASE Leaves(m)
    <3>1. at'[m] \notin Running
      BY <2>2, LeavesEnds DEF Running, Ended
    <3> QED BY <2>1, <2>2, <3>1, LeavesHistory DEF HistoryInv
  <2>3. CASE Buffer(m)
    <3>1. UNCHANGED <<at, prompted, todo, ran, hist, ckpt, kept, stored>>
      BY <2>3 DEF Buffer
    <3> QED BY <3>1 DEF HistoryInv, CheckpointOf, HistoryOf, Asked, OpenCall
  <2>4. CASE ~Leaves(m) /\ ~Buffer(m)
    <3>1. HistoryOf(m)' /\ CheckpointOf(m)' /\ UNCHANGED <<kept, stored>>
      BY <1>1, <2>4, StartHistory, LoopHistory, ToolsHistory, SaveHistory
         DEF Turns, Step, Leaves
    <3> QED BY <2>1, <3>1 DEF HistoryInv
  <2> QED BY <2>2, <2>3, <2>4
<1>2. CASE Crash
  <2>1. /\ UNCHANGED <<hist, ckpt, kept, stored>>
        /\ \A m \in Msgs : at'[m] \notin Running /\ (at'[m] = "new" => at[m] = "new")
    BY <1>2 DEF Crash, Running
  <2> QED BY <2>1 DEF HistoryInv, CheckpointOf
<1>3. CASE Recover
  <2>1. UNCHANGED <<at, prompted, todo, ran, hist, ckpt, stored>> /\ kept' = stored
    BY <1>3 DEF Recover
  <2> QED BY <2>1 DEF HistoryInv, CheckpointOf, HistoryOf, Asked, OpenCall
<1>4. CASE (\E c \in Chats : RequestStop(c)) \/ UNCHANGED turnVars
  <2>1. UNCHANGED <<at, prompted, todo, ran, hist, ckpt, kept, stored>>
    BY <1>4 DEF RequestStop, turnVars
  <2> QED BY <2>1 DEF HistoryInv, CheckpointOf, HistoryOf, Asked, OpenCall
<1> QED BY <1>1, <1>2, <1>3, <1>4 DEF Next, Turns

(* However a turn ends - a reply, a stop, a limit, a crash - the history   *)
(* its chat goes on with and the checkpoint its recovery would resume from *)
(* have the results of every tool call, and the checkpoint is something    *)
(* that very turn went through.                                            *)
THEOREM PastIntactHolds == Spec => []PastIntact
<1>1. Init => TurnTypes /\ HistoryInv
  <2> SUFFICES ASSUME Init PROVE TurnTypes /\ HistoryInv
    OBVIOUS
  <2>1. Paired(<<>>) /\ IsPrefix(<<>>, <<>>)
    BY DEF Paired, IsPrefix
  <2> QED BY <2>1, TurnTypesInit DEF Init, HistoryInv, CheckpointOf, Running
<1>2. TurnTypes /\ HistoryInv /\ [Next]_turnVars => (TurnTypes /\ HistoryInv)'
  BY TurnTypesStep, HistoryStep
<1>3. HistoryInv => PastIntact
  BY DEF HistoryInv, CheckpointOf, PastIntact, HistoriesPaired, ResumesOwnPast
<1> QED BY <1>1, <1>2, <1>3, PTL DEF Spec

-----------------------------------------------------------------------------
(* The circuit breaker every call of the provider goes through.            *)

USE BreakerAssumption DEF breakerCells, BreakerTo

LEMMA LeastOf == \A i, j \in Nat : LeastTimeout(i, j) \in {i, j} /\ LeastTimeout(i, j) <= j
  BY DEF LeastTimeout

LEMMA BreakerTypeStep == BreakerTypeOK /\ [BreakerNext]_breakerVars => BreakerTypeOK'
<1> SUFFICES ASSUME BreakerTypeOK, [BreakerNext]_breakerVars PROVE BreakerTypeOK'
  OBVIOUS
<1> USE DEF BreakerTypeOK, CircuitStates, BreakerPlaces
<1>1. ASSUME NEW c \in Callers, CanExecute(c) PROVE BreakerTypeOK'
  <2>1. CASE Admitted(c) \/ FoundOpen(c)
    BY <2>1 DEF Admitted, FoundOpen
  <2>2. CASE ReadTimeout(c)
    BY <2>2 DEF ReadTimeout
  <2>3. CASE ReadOpened(c)
    BY <2>3 DEF ReadOpened
  <2>4. CASE SetHalfOpen(c)
    BY <2>4 DEF SetHalfOpen
  <2>. QED
    BY <1>1, <2>1, <2>2, <2>3, <2>4 DEF CanExecute
<1>2. ASSUME NEW c \in Callers, ProviderCall(c) \/ Unrecorded(c) PROVE BreakerTypeOK'
  BY <1>2 DEF ProviderCall, Answers, Fails, Unrecorded
<1>3. ASSUME NEW c \in Callers, Close(c) \/ ResetFailures(c) \/ ResetTimeout(c)
      PROVE  BreakerTypeOK'
  BY <1>3 DEF Close, ResetFailures, ResetTimeout
<1>4. ASSUME NEW c \in Callers, AddFailure(c) PROVE BreakerTypeOK'
  <2>1. failureCount' \in 0 .. FailureThreshold
    BY <1>4, LeastOf DEF AddFailure
  <2>. QED
    BY <1>4, <2>1 DEF AddFailure
<1>5. ASSUME NEW c \in Callers, LoadState(c) PROVE BreakerTypeOK'
  BY <1>5 DEF LoadState
<1>6. ASSUME NEW c \in Callers, Trip(c) \/ Stamp(c) PROVE BreakerTypeOK'
  <2>1. CASE Trip(c)
    BY <2>1 DEF Trip
  <2>2. CASE Stamp(c)
    BY <2>2 DEF Stamp
  <2>. QED
    BY <1>6, <2>1, <2>2
<1>7. ASSUME NEW c \in Callers, Double(c) PROVE BreakerTypeOK'
  <2>1. recoveryTimeout' \in BaseTimeout .. MaxRecoveryTimeout
    BY <1>7 DEF Double, LeastTimeout
  <2>. QED
    BY <1>7, <2>1 DEF Double
<1>8. CASE BreakerTick \/ ProviderTurns \/ UNCHANGED breakerVars
  <2>1. CASE BreakerTick
    <3>1. sinceOpened \in 0 .. MaxRecoveryTimeout /\ sinceOpened < MaxRecoveryTimeout
      BY <2>1 DEF BreakerTick
    <3>2. sinceOpened' \in 0 .. MaxRecoveryTimeout
      BY <2>1, <3>1 DEF BreakerTick
    <3>. QED
      BY <2>1, <3>2 DEF BreakerTick
  <2>2. CASE ProviderTurns
    BY <2>2 DEF ProviderTurns
  <2>3. CASE UNCHANGED breakerVars
    BY <2>3 DEF breakerVars
  <2>. QED
    BY <1>8, <2>1, <2>2, <2>3
<1>. QED
  BY <1>1, <1>2, <1>3, <1>4, <1>5, <1>6, <1>7, <1>8 DEF BreakerNext, RecordOutcome

(* The recovery timeout never leaves the range from its base to its        *)
(* maximum, however resets and doublings interleave.                       *)
THEOREM BreakerTypeCorrect == BreakerSpec => []BreakerTypeOK
<1>1. BreakerInit => BreakerTypeOK
  BY DEF BreakerInit, BreakerTypeOK, CircuitStates, BreakerPlaces
<1>. QED
  BY <1>1, BreakerTypeStep, PTL DEF BreakerSpec

-----------------------------------------------------------------------------
(* A caller that is on its way to open the circuit or to reset the count   *)
(* stays so until it has done it; another caller's step cannot stop it.    *)
LEMMA PendingStays ==
    ASSUME BreakerTypeOK, NEW b \in Callers, NEW c \in Callers, b # c, TripPending(b),
           CanExecute(c) \/ ProviderCall(c) \/ Unrecorded(c) \/ RecordOutcome(c)
    PROVE  TripPending(b)'
<1>1. breakerPc'[b] = breakerPc[b] /\ counted'[b] = counted[b]
  <2>1. CASE CanExecute(c)
    BY <2>1 DEF CanExecute, Admitted, FoundOpen, ReadTimeout, ReadOpened, SetHalfOpen,
       BreakerTypeOK
  <2>2. CASE ProviderCall(c) \/ Unrecorded(c)
    BY <2>2 DEF ProviderCall, Answers, Fails, Unrecorded, BreakerTypeOK
  <2>3. CASE Close(c) \/ ResetFailures(c) \/ ResetTimeout(c) \/ AddFailure(c)
    BY <2>3 DEF Close, ResetFailures, ResetTimeout, AddFailure, BreakerTypeOK
  <2>4. CASE LoadState(c) \/ Trip(c) \/ Stamp(c) \/ Double(c)
    BY <2>4 DEF LoadState, Trip, Stamp, Double, BreakerTypeOK
  <2>. QED
    BY <2>1, <2>2, <2>3, <2>4 DEF RecordOutcome
<1>. QED
  BY <1>1 DEF TripPending

LEMMA TripStep == BreakerTypeOK /\ TripNotLost /\ [BreakerNext]_breakerVars => TripNotLost'
<1> SUFFICES ASSUME BreakerTypeOK, TripNotLost, [BreakerNext]_breakerVars,
                    circuit' = "closed", failureCount' >= FailureThreshold
             PROVE  \E b \in Callers : TripPending(b)'
  BY DEF TripNotLost
<1>1. ASSUME NEW c \in Callers,
             CanExecute(c) \/ ProviderCall(c) \/ Unrecorded(c) \/ RecordOutcome(c)
      PROVE  \E b \in Callers : TripPending(b)'
  <2>1. CASE Close(c)
    <3>1. breakerPc'[c] = "reset"
      BY <2>1 DEF Close, BreakerTypeOK
    <3>. QED
      BY <3>1 DEF TripPending
  <2>2. CASE AddFailure(c)
    BY <2>2 DEF AddFailure, TripPending, BreakerTypeOK
  <2>3. CASE ResetFailures(c) \/ Trip(c) \/ SetHalfOpen(c)
    BY <2>3 DEF ResetFailures, Trip, SetHalfOpen
  <2>4. CASE ~(Close(c) \/ AddFailure(c) \/ ResetFailures(c) \/ Trip(c) \/ SetHalfOpen(c))
    <3>1. circuit' = circuit /\ failureCount' = failureCount
      BY <1>1, <2>4 DEF CanExecute, Admitted, FoundOpen, ReadTimeout, ReadOpened, ProviderCall,
         Answers, Fails, Unrecorded, RecordOutcome, ResetTimeout, LoadState, Stamp, Double
    <3>2. PICK b \in Callers : TripPending(b)
      BY <3>1 DEF TripNotLost
    <3>3. CASE b # c
      BY <1>1, <3>2, <3>3, PendingStays
    <3>4. CASE b = c
      \* Of what is left only the load of the state moves a pending caller.
      <4>1. LoadState(c)
        BY <1>1, <2>4, <3>2, <3>4 DEF TripPending, CanExecute, Admitted, FoundOpen,
           ReadTimeout, ReadOpened, ProviderCall, Answers, Fails, Unrecorded, RecordOutcome,
           ResetTimeout, Stamp, Double, LoadState, Close, AddFailure, ResetFailures,
           Trip, SetHalfOpen
      <4>2. breakerPc[c] = "load" /\ counted[c] >= FailureThreshold /\ circuit = "closed"
        BY <3>1, <3>2, <3>4, <4>1 DEF LoadState, TripPending
      <4>. QED
        <5>1. breakerPc'[c] = "trip"
          BY <4>1, <4>2 DEF LoadState, BreakerTypeOK
        <5>. QED
          BY <5>1 DEF TripPending
    <3>. QED
      BY <3>3, <3>4
  <2>. QED
    BY <2>1, <2>2, <2>3, <2>4
<1>2. CASE BreakerTick \/ ProviderTurns \/ UNCHANGED breakerVars
  BY <1>2 DEF BreakerTick, ProviderTurns, breakerVars, TripNotLost, TripPending
<1>. QED
  BY <1>1, <1>2 DEF BreakerNext

(* When enough failures were counted while the circuit is closed, somebody *)
(* is still going to open it or to reset the count: no interleaving of     *)
(* record_success and record_failure leaves a tripped circuit closed.      *)
THEOREM TripNotLostHolds == BreakerSpec => []TripNotLost
<1>1. BreakerInit => BreakerTypeOK /\ TripNotLost
  BY DEF BreakerInit, BreakerTypeOK, TripNotLost, CircuitStates, BreakerPlaces
<1>2. BreakerTypeOK /\ TripNotLost /\ [BreakerNext]_breakerVars
        => (BreakerTypeOK /\ TripNotLost)'
  BY BreakerTypeStep, TripStep
<1>. QED
  BY <1>1, <1>2, PTL DEF BreakerSpec

-----------------------------------------------------------------------------
(* A turn and a breaker beside each other keep the types of both.          *)
THEOREM BothTypesCorrect == TurnSpec => []TurnTypeOK
<1> DEFINE Inv == TurnTypes /\ BreakerTypeOK
<1>1. TurnInit => Inv
  <2>1. BreakerInit => BreakerTypeOK
    BY DEF BreakerInit, BreakerTypeOK, CircuitStates, BreakerPlaces
  <2> QED BY <2>1, TurnTypesInit DEF TurnInit
<1>2. Inv /\ [TurnNext]_<<part, turnVars, breakerVars>> => Inv'
  <2> SUFFICES ASSUME Inv, [TurnNext]_<<part, turnVars, breakerVars>> PROVE Inv'
    OBVIOUS
  <2>1. [Next]_turnVars /\ [BreakerNext]_breakerVars
    BY DEF TurnNext
  <2> QED BY <2>1, TurnTypesStep, BreakerTypeStep
<1>3. Inv => TurnTypeOK
  BY DEF TurnTypes, TurnTypeOK
<1> QED BY <1>1, <1>2, <1>3, PTL DEF TurnSpec
=============================================================================
