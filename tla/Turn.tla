--------------------------------- MODULE Turn ---------------------------------
(***************************************************************************)
(* One turn of the agent, AgentRuntime::process_message, as the chat       *)
(* worker calls it: classification, the task row, the tool loop with its   *)
(* budget and interrupt checks, the prompted-mode fallback, the injection  *)
(* of pending messages, the checkpoint, the reply - and, around it, the    *)
(* worker's time limit, the history it keeps, a crash of the process and   *)
(* the recovery scan of the next start.                                    *)
(*                                                                         *)
(* Each place where the code awaits ends an action.  A model answer, a     *)
(* tool result and a database answer may each go either way.               *)
(***************************************************************************)
EXTENDS Naturals, Sequences, FiniteSets, SequencesExt

CONSTANTS
  Msgs,        \* inbound messages; a turn is named by the message it runs
  Chats,
  ChatOf,      \* the chat of each message
  None,
  MaxRounds,   \* max_tool_rounds
  MaxTools,    \* bound: tool calls one answer may ask for
  Limit,       \* max_spend_usd in units of one call's cost; 0 is unlimited
  V2,          \* v2_optimizations: classify before running
  Scenes       \* bound: which messages are sent, and which of "db", "model",
               \* "stop", "timeout", "crash" go wrong, in one behaviour

ASSUME TurnAssumption ==
  /\ ChatOf \in [Msgs -> Chats] /\ IsFiniteSet(Chats)
  /\ None \notin Msgs
  /\ MaxRounds \in Nat \ {0} /\ MaxTools \in Nat \ {0} /\ Limit \in Nat
  /\ V2 \in BOOLEAN
  /\ \A s \in Scenes : s.sent \subseteq Msgs

VARIABLES
  at,          \* where each turn is, or how it ended
  round,       \* rounds, of the tool loop
  prompted,    \* prompted_mode
  retries,     \* prompted_json_retries
  todo,        \* tool calls of the current round still to execute
  ran,         \* tool calls of the current round executed
  hist,        \* session.history of each turn's SessionContext
  kept,        \* persistent_history of each chat's worker
  stored,      \* chat_history:<chat> in the memory store
  pend,        \* PendingMessages: buffered texts of each chat
  shown,       \* per message: the turns whose tool results showed its text
  stop,        \* interrupt flag of each chat's worker
  late,        \* provider calls each turn began after its flag was set
  row,         \* status of the turn's row in electro_tasks
  ckpt,        \* checkpoint_data of that row
  spent,       \* cumulative_micro_cents
  triage,      \* of these, what the classifier spent (history variable)
  plan,        \* the recovery plan made for a row
  up,          \* process alive
  scene        \* the one of Scenes that is played

turnVars == <<at, round, prompted, retries, todo, ran, hist, kept, stored, pend,
              shown, stop, late, row, ckpt, spent, triage, plan, up, scene>>
loopVars == <<round, prompted, retries, todo, ran>>
chatVars == <<kept, stored, pend, shown>>
taskVars == <<row, ckpt>>
costVars == <<spent, triage>>
bootVars == <<plan, up, scene>>

Running == {"classify", "prepare", "insert", "mark", "top", "gate", "model",
            "tool", "append", "save", "finish", "close"}
\* replied: Ok with a reply; stopped, capped, refused: Ok with a fixed text
\* failed, timeout: an error for the worker; lost: the process died
Ended == {"replied", "stopped", "capped", "refused", "failed", "timeout", "lost"}
Busy(c) == \E m \in Msgs : ChatOf[m] = c /\ at[m] \in Running

Fault(f) == f \in scene.faults
Goto(m, l) == at' = [at EXCEPT ![m] = l]
Entry(m, kind, n) == [by |-> m, kind |-> kind, n |-> n]
Push(m, e) == hist' = [hist EXCEPT ![m] = Append(@, e)]
Charge(n) == spent' = spent + n
\* The turn is over: the locals of the future are dropped with it.
Leave(m, how) == /\ Goto(m, how)
                 /\ round' = [round EXCEPT ![m] = 0]
                 /\ prompted' = [prompted EXCEPT ![m] = FALSE]
                 /\ retries' = [retries EXCEPT ![m] = 0]
                 /\ todo' = [todo EXCEPT ![m] = 0]
                 /\ ran' = [ran EXCEPT ![m] = 0]
                 /\ late' = [late EXCEPT ![m] = 0]
\* process_message gave back Ok: the worker keeps its history and stores it;
\* whether the store took it is not looked at, a crash may come first.
Keep(m, h) ==
  /\ kept' = [kept EXCEPT ![ChatOf[m]] = h]
  /\ \/ stored' = [stored EXCEPT ![ChatOf[m]] = h]
     \/ (Fault("db") \/ Fault("crash")) /\ UNCHANGED stored

Init ==
  /\ at = [m \in Msgs |-> "new"]
  /\ round = [m \in Msgs |-> 0]
  /\ prompted = [m \in Msgs |-> FALSE]
  /\ retries = [m \in Msgs |-> 0]
  /\ todo = [m \in Msgs |-> 0]
  /\ ran = [m \in Msgs |-> 0]
  /\ hist = [m \in Msgs |-> <<>>]
  /\ kept = [c \in Chats |-> <<>>]
  /\ stored = [c \in Chats |-> <<>>]
  /\ pend = [c \in Chats |-> {}]
  /\ shown = [m \in Msgs |-> {}]
  /\ stop = [c \in Chats |-> FALSE]
  /\ late = [m \in Msgs |-> 0]
  /\ row = [m \in Msgs |-> "none"]
  /\ ckpt = [m \in Msgs |-> <<>>]
  /\ spent = 0 /\ triage = 0
  /\ plan = [m \in Msgs |-> "none"]
  /\ up = TRUE /\ scene \in Scenes

-----------------------------------------------------------------------------
(* The start of a turn.                                                    *)

\* The worker clears the flag, clones its history into a SessionContext and
\* calls process_message, which appends the user's message first.  A worker has
\* one turn at a time, and a chat one worker: that housekeeping may take the slot
\* of one that looks idle away, and a second be created, is in Dispatch and not
\* here.
Start(m) ==
  /\ up /\ m \in scene.sent /\ at[m] = "new" /\ ~Busy(ChatOf[m])
  /\ stop' = [stop EXCEPT ![ChatOf[m]] = FALSE]
  /\ hist' = [hist EXCEPT ![m] = Append(kept[ChatOf[m]], Entry(m, "user", 0))]
  /\ Goto(m, IF V2 THEN "classify" ELSE "prepare")
  /\ UNCHANGED <<loopVars, chatVars, late, taskVars, costVars, bootVars>>

\* Nothing in it: a fixed answer, and nothing enters the history.
StartEmpty(m) ==
  /\ up /\ m \in scene.sent /\ at[m] = "new" /\ ~Busy(ChatOf[m])
  /\ stop' = [stop EXCEPT ![ChatOf[m]] = FALSE]
  /\ Leave(m, "replied") /\ Keep(m, kept[ChatOf[m]])
  /\ UNCHANGED <<hist, pend, shown, taskVars, costVars, bootVars>>

\* A message for a busy chat: its text joins the list the running turn reads
\* (and the dispatcher buffers the message itself, to run it later).
Buffer(m) ==
  /\ up /\ m \in scene.sent /\ at[m] = "new" /\ Busy(ChatOf[m])
  /\ shown[m] = {} /\ m \notin pend[ChatOf[m]]
  /\ pend' = [pend EXCEPT ![ChatOf[m]] = @ \cup {m}]
  /\ UNCHANGED <<at, loopVars, hist, kept, stored, shown, stop, late, taskVars, costVars, bootVars>>

RequestStop(c) ==
  /\ Fault("stop") /\ up /\ Busy(c) /\ ~stop[c]
  /\ stop' = [stop EXCEPT ![c] = TRUE]
  /\ UNCHANGED <<at, loopVars, hist, chatVars, late, taskVars, costVars, bootVars>>

\* The classifier answers chat or stop: its text is the reply, no task is made.
ClassifiedAsChat(m) ==
  /\ up /\ at[m] = "classify"
  /\ Charge(1) /\ triage' = triage + 1
  /\ Push(m, Entry(m, "asst", 0)) /\ Keep(m, hist'[m])
  /\ Leave(m, "replied")
  /\ UNCHANGED <<pend, shown, stop, taskVars, bootVars>>

\* The classifier answers order, or fails and the rules decide (at no cost).
ClassifiedAsOrder(m) ==
  /\ up /\ at[m] = "classify"
  /\ \E cost \in IF Fault("model") THEN {0, 1} ELSE {1} :
       Charge(cost) /\ triage' = triage + cost
  /\ Goto(m, "prepare")
  /\ UNCHANGED <<loopVars, hist, chatVars, stop, late, taskVars, bootVars>>

\* A complex order with the hive enabled leaves as an error, HiveRoute.
RoutedToHive(m) ==
  /\ up /\ at[m] = "classify" /\ Fault("model")
  /\ \E cost \in {0, 1} : Charge(cost) /\ triage' = triage + cost
  /\ Leave(m, "failed")
  /\ UNCHANGED <<hist, chatVars, stop, taskVars, bootVars>>

\* A compound order gets a system message that asks for DONE criteria.
Prepare(m) ==
  /\ up /\ at[m] = "prepare"
  /\ \/ UNCHANGED hist
     \/ Push(m, Entry(m, "sys", 0))
  /\ Goto(m, "insert")
  /\ UNCHANGED <<loopVars, chatVars, stop, late, taskVars, costVars, bootVars>>

\* create_task; when it fails the turn goes on without persistence.
InsertRow(m) ==
  /\ up /\ at[m] = "insert"
  /\ \/ row' = [row EXCEPT ![m] = "pending"] /\ Goto(m, "mark")
     \/ Fault("db") /\ UNCHANGED row /\ Goto(m, "top")
  /\ UNCHANGED <<loopVars, hist, chatVars, stop, late, ckpt, costVars, bootVars>>

MarkRunning(m) ==
  /\ up /\ at[m] = "mark"
  /\ \/ row' = [row EXCEPT ![m] = "running"]
     \/ Fault("db") /\ UNCHANGED row
  /\ Goto(m, "top")
  /\ UNCHANGED <<loopVars, hist, chatVars, stop, late, ckpt, costVars, bootVars>>

-----------------------------------------------------------------------------
(* The tool loop.                                                          *)

\* The head of the loop: interrupted, out of time or out of rounds leaves it
\* with a fixed text - which is not pushed to the history.
TopStop(m) ==
  /\ up /\ at[m] = "top" /\ stop[ChatOf[m]]
  /\ Leave(m, "stopped") /\ Keep(m, hist[m])
  /\ UNCHANGED <<hist, pend, shown, stop, taskVars, costVars, bootVars>>
TopCap(m) ==
  /\ up /\ at[m] = "top" /\ ~stop[ChatOf[m]]
  /\ round[m] + 1 > MaxRounds \/ Fault("timeout")
  /\ Leave(m, "capped") /\ Keep(m, hist[m])
  /\ UNCHANGED <<hist, pend, shown, stop, taskVars, costVars, bootVars>>
\* Mutant: the flag is looked at only before the first round.
TopGoBlind(m) ==
  /\ up /\ at[m] = "top" /\ (stop[ChatOf[m]] => round[m] > 0)
  /\ round[m] + 1 <= MaxRounds
  /\ round' = [round EXCEPT ![m] = @ + 1]
  /\ Goto(m, "gate")
  /\ UNCHANGED <<prompted, retries, todo, ran, hist, chatVars, stop, late,
                 taskVars, costVars, bootVars>>

TopGo(m) ==
  /\ up /\ at[m] = "top" /\ ~stop[ChatOf[m]]
  /\ round[m] + 1 <= MaxRounds
  /\ round' = [round EXCEPT ![m] = @ + 1]
  /\ Goto(m, "gate")
  /\ UNCHANGED <<prompted, retries, todo, ran, hist, chatVars, stop, late,
                 taskVars, costVars, bootVars>>

OverBudget == Limit # 0 /\ spent >= Limit

\* The context is built (an await), then budget and circuit are asked.
GateRefuse(m) ==
  /\ up /\ at[m] = "gate"
  /\ OverBudget \/ Fault("model")
  /\ Leave(m, "refused") /\ Keep(m, hist[m])
  /\ UNCHANGED <<hist, pend, shown, stop, taskVars, costVars, bootVars>>
\* Mutant: the budget is not looked at.
GateCallUnchecked(m) ==
  /\ up /\ at[m] = "gate"
  /\ Goto(m, "model")
  /\ late' = [late EXCEPT ![m] = IF stop[ChatOf[m]] THEN @ + 1 ELSE @]
  /\ UNCHANGED <<loopVars, hist, chatVars, stop, taskVars, costVars, bootVars>>

GateCall(m) ==
  /\ up /\ at[m] = "gate" /\ ~OverBudget
  /\ Goto(m, "model")
  /\ late' = [late EXCEPT ![m] = IF stop[ChatOf[m]] THEN @ + 1 ELSE @]
  /\ UNCHANGED <<loopVars, hist, chatVars, stop, taskVars, costVars, bootVars>>

\* Mutant: prompted mode is not latched and the repeated call is no round.
AnswerNoToolsAgain(m) ==
  /\ up /\ at[m] = "model" /\ Fault("model") /\ ~prompted[m]
  /\ round' = [round EXCEPT ![m] = @ - 1]
  /\ Goto(m, "top")
  /\ UNCHANGED <<prompted, retries, todo, ran, hist, chatVars, stop, late,
                 taskVars, costVars, bootVars>>

\* A 400 that looks like "no tool support" turns prompted mode on, once.
AnswerNoTools(m) ==
  /\ up /\ at[m] = "model" /\ Fault("model") /\ ~prompted[m]
  /\ prompted' = [prompted EXCEPT ![m] = TRUE]
  /\ Goto(m, "top")
  /\ UNCHANGED <<round, retries, todo, ran, hist, chatVars, stop, late,
                 taskVars, costVars, bootVars>>
AnswerError(m) ==
  /\ up /\ at[m] = "model" /\ Fault("model")
  /\ Leave(m, "failed")
  /\ UNCHANGED <<hist, chatVars, stop, taskVars, costVars, bootVars>>

\* A text without a tool call is the reply; in prompted mode, the first time
\* round, it is recorded and the call repeated with a stricter prompt.
RetryStricter(m) == prompted[m] /\ retries[m] < 1 /\ round[m] = 1
AnswerText(m) ==
  /\ up /\ at[m] = "model"
  /\ Charge(1)
  /\ retries' = [retries EXCEPT ![m] = IF RetryStricter(m) THEN @ + 1 ELSE @]
  /\ hist' = [hist EXCEPT ![m] = IF RetryStricter(m) THEN Append(@, Entry(m, "asst", 0)) ELSE @]
  /\ Goto(m, IF RetryStricter(m) THEN "top" ELSE "finish")
  /\ UNCHANGED <<round, prompted, todo, ran, chatVars, stop, late, taskVars,
                 triage, bootVars>>
\* Mutant: an answer with an empty list of calls is taken for a tool round.
AnswerToolsEmpty(m) ==
  /\ up /\ at[m] = "model"
  /\ Charge(1)
  /\ todo' = [todo EXCEPT ![m] = 0]
  /\ Push(m, Entry(m, "call", 0))
  /\ ran' = [ran EXCEPT ![m] = 0]
  /\ Goto(m, "tool")
  /\ UNCHANGED <<round, prompted, retries, chatVars, stop, late, taskVars, triage, bootVars>>

\* Tool calls: the assistant entry first - as parts that carry the calls, or in
\* prompted mode as plain text.
AnswerTools(m) ==
  /\ up /\ at[m] = "model"
  /\ Charge(1)
  /\ \E n \in 1 .. MaxTools :
       /\ todo' = [todo EXCEPT ![m] = n]
       /\ Push(m, IF prompted[m] THEN Entry(m, "asst", 0) ELSE Entry(m, "call", n))
  /\ ran' = [ran EXCEPT ![m] = 0]
  /\ Goto(m, "tool")
  /\ UNCHANGED <<round, prompted, retries, chatVars, stop, late, taskVars, triage, bootVars>>

\* One tool call; its failure is a result like any other.
RunTool(m) ==
  /\ up /\ at[m] = "tool"
  /\ ran' = [ran EXCEPT ![m] = @ + 1]
  /\ todo' = [todo EXCEPT ![m] = @ - 1]
  /\ Goto(m, IF todo[m] = 1 THEN "append" ELSE "tool")
  /\ UNCHANGED <<round, prompted, retries, hist, chatVars, stop, late, taskVars, costVars, bootVars>>

\* Mutant: the buffered texts are read but not taken.
AppendResultsAgain(m) ==
  /\ up /\ at[m] = "append"
  /\ shown' = [x \in Msgs |-> IF x \in pend[ChatOf[m]] THEN shown[x] \cup {m} ELSE shown[x]]
  /\ Push(m, IF prompted[m] THEN Entry(m, "user", 0) ELSE Entry(m, "result", ran[m]))
  /\ Goto(m, "save")
  /\ UNCHANGED <<loopVars, kept, stored, pend, stop, late, taskVars, costVars, bootVars>>

\* All buffered texts of the chat are taken and shown in the last result; the
\* results go to the history - in prompted mode as a text of the user.
AppendResults(m) ==
  /\ up /\ at[m] = "append"
  /\ pend' = [pend EXCEPT ![ChatOf[m]] = {}]
  /\ shown' = [x \in Msgs |-> IF x \in pend[ChatOf[m]] THEN shown[x] \cup {m} ELSE shown[x]]
  /\ Push(m, IF prompted[m]
             THEN Entry(m, "user", 0)
             ELSE Entry(m, "result", ran[m]))
  /\ Goto(m, "save")
  /\ UNCHANGED <<loopVars, kept, stored, stop, late, taskVars, costVars, bootVars>>

\* Mutant: the checkpoint is written by chat, into every row of it.
SaveByChat(m) ==
  /\ up /\ at[m] = "save"
  /\ ckpt' = [x \in Msgs |-> IF ChatOf[x] = ChatOf[m] /\ row[x] # "none"
                             THEN hist[m] ELSE ckpt[x]]
  /\ Goto(m, "top")
  /\ UNCHANGED <<loopVars, hist, chatVars, stop, late, row, costVars, bootVars>>

\* checkpoint: the whole session history goes into the task's row.
Save(m) ==
  /\ up /\ at[m] = "save"
  /\ \/ row[m] # "none" /\ ckpt' = [ckpt EXCEPT ![m] = hist[m]]
     \/ (row[m] = "none" \/ Fault("db")) /\ UNCHANGED ckpt
  /\ Goto(m, "top")
  /\ UNCHANGED <<loopVars, hist, chatVars, stop, late, row, costVars, bootVars>>

\* The final reply: recorded unless it is empty, as it is when send_message
\* already delivered the content.
Finish(m) ==
  /\ up /\ at[m] = "finish"
  /\ \/ Push(m, Entry(m, "asst", 0))
     \/ UNCHANGED hist
  /\ Goto(m, "close")
  /\ UNCHANGED <<loopVars, chatVars, stop, late, taskVars, costVars, bootVars>>
\* The row is completed - on this way out of the turn only.
CloseTurn(m) ==
  /\ up /\ at[m] = "close"
  /\ \/ row[m] # "none" /\ row' = [row EXCEPT ![m] = "completed"]
     \/ (row[m] = "none" \/ Fault("db")) /\ UNCHANGED row
  /\ Leave(m, "replied") /\ Keep(m, hist[m])
  /\ UNCHANGED <<hist, pend, shown, stop, ckpt, costVars, bootVars>>

-----------------------------------------------------------------------------
(* Around the turn.                                                        *)

\* Mutant: the worker keeps the history of a turn that ran out of time.
TimeOutKeeps(m) ==
  /\ Fault("timeout") /\ up /\ at[m] \in Running
  /\ Leave(m, "timeout") /\ Keep(m, hist[m])
  /\ UNCHANGED <<hist, pend, shown, stop, taskVars, costVars, bootVars>>

\* The worker's own limit drops the future at whatever it awaits; the history
\* of the turn is not kept, the row stays as it is.
TimeOut(m) ==
  /\ Fault("timeout") /\ up /\ at[m] \in Running
  /\ Leave(m, "timeout")
  /\ UNCHANGED <<hist, chatVars, stop, taskVars, costVars, bootVars>>

\* Bound: one crash, while some turn runs.  What lives in memory is lost;
\* the stored histories and the rows are in the database.
Crash ==
  /\ Fault("crash") /\ up
  /\ \E m \in Msgs : at[m] \in Running
  /\ \A m \in Msgs : at[m] # "lost"
  /\ up' = FALSE
  /\ at' = [m \in Msgs |-> IF at[m] \in Running THEN "lost" ELSE at[m]]
  /\ pend' = [c \in Chats |-> {}]
  /\ UNCHANGED <<loopVars, hist, kept, stored, shown, stop, late, taskVars, costVars, plan, scene>>

Incomplete == {m \in Msgs : row[m] \in {"pending", "running"}}
Classify(m, old) == IF m \in old THEN "abandon"
                    ELSE IF ckpt[m] # <<>> THEN "resume" ELSE "restart"
\* The next start: recover_incomplete_tasks plans every incomplete row, and
\* apply_abandonments fails those that are too old (old, by their age).
Recover ==
  /\ ~up /\ up' = TRUE
  /\ spent' = 0 /\ triage' = 0   \* the budget is counted per process
  /\ \E old \in SUBSET Incomplete :
       /\ plan' = [m \in Msgs |-> IF m \in Incomplete THEN Classify(m, old) ELSE "none"]
       /\ row' = [m \in Msgs |-> IF m \in old THEN "failed" ELSE row[m]]
  /\ kept' = stored
  /\ UNCHANGED <<at, loopVars, hist, stored, pend, shown, stop, late, ckpt, scene>>

Step(m) ==
  \/ ClassifiedAsChat(m) \/ ClassifiedAsOrder(m) \/ RoutedToHive(m) \/ Prepare(m)
  \/ InsertRow(m) \/ MarkRunning(m)
  \/ TopStop(m) \/ TopCap(m) \/ TopGo(m) \/ GateRefuse(m) \/ GateCall(m)
  \/ AnswerNoTools(m) \/ AnswerError(m) \/ AnswerText(m) \/ AnswerTools(m)
  \/ RunTool(m) \/ AppendResults(m) \/ Save(m) \/ Finish(m) \/ CloseTurn(m)

Next == \/ \E m \in Msgs : Start(m) \/ StartEmpty(m) \/ Buffer(m) \/ Step(m) \/ TimeOut(m)
        \/ \E c \in Chats : RequestStop(c)
        \/ Crash \/ Recover

\* The runtime polls every turn; the provider and the tools answer or fail.
Spec == Init /\ [][Next]_turnVars /\ \A m \in Msgs : WF_turnVars(Step(m))

-----------------------------------------------------------------------------
Entries == [by : Msgs, kind : {"user", "sys", "asst", "call", "result"},
            n : 0 .. MaxTools]
\* Every variable keeps its type.
TypeOK ==
  /\ at \in [Msgs -> {"new"} \cup Running \cup Ended]
  /\ round \in [Msgs -> 0 .. MaxRounds + 1]
  /\ prompted \in [Msgs -> BOOLEAN]
  /\ retries \in [Msgs -> 0 .. 1]
  /\ todo \in [Msgs -> 0 .. MaxTools]
  /\ ran \in [Msgs -> 0 .. MaxTools]
  /\ hist \in [Msgs -> Seq(Entries)] /\ ckpt \in [Msgs -> Seq(Entries)]
  /\ kept \in [Chats -> Seq(Entries)] /\ stored \in [Chats -> Seq(Entries)]
  /\ pend \in [Chats -> SUBSET Msgs] /\ shown \in [Msgs -> SUBSET Msgs]
  /\ stop \in [Chats -> BOOLEAN]
  /\ late \in [Msgs -> Nat]
  /\ row \in [Msgs -> {"none", "pending", "running", "completed", "failed"}]
  /\ spent \in Nat /\ triage \in 0 .. spent
  /\ plan \in [Msgs -> {"none", "resume", "restart", "abandon"}]
  /\ up \in BOOLEAN /\ scene \in Scenes

\* Every assistant message that carries tool calls is followed at once by the
\* results of exactly those calls.
Paired(h) == \A i \in DOMAIN h : h[i].kind = "call" =>
               /\ i < Len(h)
               /\ h[i + 1].kind = "result" /\ h[i + 1].by = h[i].by /\ h[i + 1].n = h[i].n

\* However a turn ends - reply, stop, limit, crash - the history the chat goes
\* on with and the checkpoint a recovery would resume from are ones a provider
\* accepts: no tool call without its results.
HistoriesPaired == /\ \A c \in Chats : Paired(kept[c]) /\ Paired(stored[c])
                   /\ \A m \in Msgs : Paired(ckpt[m])

\* A turn that recovery would resume starts from something that turn itself
\* went through, never from another turn's or a later state.
ResumesOwnPast == \A m \in Msgs : plan[m] = "resume" => IsPrefix(ckpt[m], hist[m])

\* Both: whatever ends a turn, what it leaves to go on from is sound.
PastIntact == HistoriesPaired /\ ResumesOwnPast

\* After the interrupt flag is set a turn begins at most one more call of the
\* provider (the one between its last check of the flag and the call).
StopTakesHold == \A m \in Msgs : late[m] <= 1

\* Concurrent turns check the budget before a call and charge it afterwards:
\* the completions overshoot the limit by less than one call per chat, as long
\* as a chat has one turn at a time.
SpendBounded == Limit # 0 => spent - triage <= Limit - 1 + Cardinality(Chats)

\* A buffered text is shown to at most one turn.
ShownOnce == \A m \in Msgs : Cardinality(shown[m]) <= 1

\* A turn that is running ends.
TurnEnds == \A m \in Msgs : at[m] \in Running ~> at[m] \in Ended
=============================================================================
