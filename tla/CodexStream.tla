------------------------------ MODULE CodexStream ------------------------------
(***************************************************************************)
(* CodexResponsesProvider of crates/electro-codex-oauth                    *)
(* (responses_provider.rs): the events of a streamed answer (external) and *)
(* the accumulator of tool calls that stream() keeps, collected by         *)
(* complete().  The arguments of a call come in ArgParts pieces; what the  *)
(* network cuts in chunks is put together again before an event is read.   *)
(***************************************************************************)
EXTENDS Naturals, Sequences, SequencesExt

CONSTANTS
  FunctionCalls,  \* bound: calls of one answer, named by their item_id
  ArgParts,       \* bound: pieces of their arguments
  StreamFaults    \* what may happen: "blank", "cut", "silent", see below

(* "blank"   an event without data, as a comment that keeps the line open  *)
(* "cut"     the stream ends before the answer is complete                 *)
(* "silent"  no done event for a call                                      *)
ASSUME CodexAssumption == ArgParts \in Nat \ {0}
                          /\ StreamFaults \subseteq {"blank", "cut", "silent"}

VARIABLES
  item,       \* per call what the service sent: "none", "added", "done"
  sentArgs,   \* per call: pieces of its arguments sent
  toolCalls,  \* the accumulator, [item, named, args]
  toolUses,   \* what complete() collected, [item, whole]
  answerEnd,  \* "open", "completed", "ended" (no more bytes), "returned"
  stopReason, \* a stop reason was passed on
  faulty      \* the faults that happened (history)

codexVars == <<item, sentArgs, toolCalls, toolUses, answerEnd, stopReason, faulty>>

CodexInit ==
  /\ item = [c \in FunctionCalls |-> "none"] /\ sentArgs = [c \in FunctionCalls |-> 0]
  /\ toolCalls = <<>> /\ toolUses = <<>> /\ answerEnd = "open" /\ stopReason = FALSE
  /\ faulty = {}

Acc(c, named, args) == [item |-> c, named |-> named, args |-> args]
\* Arguments that do not parse become an empty object.
Emit(c, args) == toolUses' = Append(toolUses, [item |-> c, whole |-> args = ArgParts])

\* response.output_item.added
ItemAdded(c) ==
  /\ answerEnd = "open" /\ item[c] = "none" /\ item' = [item EXCEPT ![c] = "added"]
  /\ toolCalls' = Append(toolCalls, Acc(c, TRUE, 0))
  /\ UNCHANGED <<sentArgs, toolUses, answerEnd, stopReason, faulty>>

\* Mutant: the item_id is looked up among the call ids.
DeltaByCallId(c) ==
  /\ answerEnd = "open" /\ item[c] = "added" /\ sentArgs[c] < ArgParts
  /\ sentArgs' = [sentArgs EXCEPT ![c] = @ + 1]
  /\ toolCalls' = Append(toolCalls, Acc(c, FALSE, 1))
  /\ UNCHANGED <<item, toolUses, answerEnd, stopReason, faulty>>

\* response.function_call_arguments.delta: to the first entry of that item.
Delta(c) ==
  /\ answerEnd = "open" /\ item[c] = "added" /\ sentArgs[c] < ArgParts
  /\ sentArgs' = [sentArgs EXCEPT ![c] = @ + 1]
  /\ LET i == SelectInSeq(toolCalls, LAMBDA a : a.item = c)
     IN  toolCalls' = IF i = 0 THEN Append(toolCalls, Acc(c, FALSE, 1))
                      ELSE [toolCalls EXCEPT ![i].args = @ + 1]
  /\ UNCHANGED <<item, toolUses, answerEnd, stopReason, faulty>>

\* Mutant: the entry stays in the accumulator.
DoneKeeping(c) ==
  /\ answerEnd = "open" /\ item[c] = "added" /\ sentArgs[c] = ArgParts
  /\ item' = [item EXCEPT ![c] = "done"] /\ Emit(c, ArgParts)
  /\ UNCHANGED <<sentArgs, toolCalls, answerEnd, stopReason, faulty>>

\* retain: the entries of the other calls.
CallsBut(c) == [item : FunctionCalls \ {c}, named : BOOLEAN, args : 0 .. ArgParts]
Retained(c) ==
  LET left[n \in 0 .. Len(toolCalls)] ==
        IF n = 0 THEN <<>>
        ELSE IF toolCalls[n] \in CallsBut(c) THEN Append(left[n - 1], toolCalls[n]) ELSE left[n - 1]
  IN left[Len(toolCalls)]

\* response.output_item.done carries the whole arguments.
ItemDone(c) ==
  /\ answerEnd = "open" /\ item[c] = "added" /\ sentArgs[c] = ArgParts
  /\ item' = [item EXCEPT ![c] = "done"] /\ Emit(c, ArgParts)
  /\ toolCalls' = Retained(c)
  /\ UNCHANGED <<sentArgs, answerEnd, stopReason, faulty>>

\* Flushing takes entries from the end, drops those without a name, passes the
\* first one with a name on and leaves the others for another time.
LastNamed == SelectLastInSeq(toolCalls, LAMBDA a : a.named)
FlushOne ==
  IF LastNamed = 0 THEN toolCalls' = <<>> /\ UNCHANGED toolUses
  ELSE /\ toolCalls' = SubSeq(toolCalls, 1, LastNamed - 1)
       /\ Emit(toolCalls[LastNamed].item, toolCalls[LastNamed].args)

\* An event without data flushes.
BlankEvent ==
  /\ "blank" \in StreamFaults /\ answerEnd = "open"
  /\ faulty' = IF toolCalls = <<>> THEN faulty ELSE faulty \cup {"blank"}
  /\ FlushOne /\ UNCHANGED <<item, sentArgs, answerEnd, stopReason>>

\* response.completed, and [DONE], flush too and are passed on if nothing was.
Completed ==
  /\ answerEnd = "open" /\ answerEnd' = "completed"
  /\ \A c \in FunctionCalls : item[c] = "added" =>
       "silent" \in StreamFaults /\ sentArgs[c] = ArgParts
  /\ faulty' = IF \E c \in FunctionCalls : item[c] = "added" THEN faulty \cup {"silent"}
               ELSE faulty
  /\ stopReason' = (LastNamed = 0) /\ FlushOne
  /\ UNCHANGED <<item, sentArgs>>

StreamEnds ==
  /\ \/ answerEnd = "completed" /\ UNCHANGED faulty
     \/ answerEnd = "open" /\ "cut" \in StreamFaults /\ faulty' = faulty \cup {"cut"}
  /\ answerEnd' = "ended"
  /\ UNCHANGED <<item, sentArgs, toolCalls, toolUses, stopReason>>

\* Mutant: what is left is forgotten.
DrainNothing ==
  /\ answerEnd = "ended" /\ answerEnd' = "returned" /\ toolCalls' = <<>>
  /\ UNCHANGED <<item, sentArgs, toolUses, stopReason, faulty>>

\* The end of the stream flushes one by one.
DrainOrReturn ==
  /\ answerEnd = "ended" /\ FlushOne
  /\ answerEnd' = IF LastNamed = 0 THEN "returned" ELSE "ended"
  /\ UNCHANGED <<item, sentArgs, stopReason, faulty>>

CodexNext ==
  \/ \E c \in FunctionCalls : ItemAdded(c) \/ Delta(c) \/ ItemDone(c)
  \/ BlankEvent \/ Completed \/ StreamEnds \/ DrainOrReturn
CodexSpec == CodexInit /\ [][CodexNext]_codexVars

-----------------------------------------------------------------------------
\* Every variable keeps its type.
CodexTypeOK ==
  /\ item \in [FunctionCalls -> {"none", "added", "done"}]
  /\ sentArgs \in [FunctionCalls -> 0 .. ArgParts]
  /\ toolCalls \in Seq([item : FunctionCalls, named : BOOLEAN, args : 0 .. ArgParts])
  /\ toolUses \in Seq([item : FunctionCalls, whole : BOOLEAN])
  /\ answerEnd \in {"open", "completed", "ended", "returned"} /\ stopReason \in BOOLEAN
  /\ faulty \subseteq StreamFaults

\* What was collected of one call.
UseOf(c) == [item : {c}, whole : BOOLEAN]
Uses(c) ==
  LET found[n \in 0 .. Len(toolUses)] ==
        IF n = 0 THEN <<>>
        ELSE IF toolUses[n] \in UseOf(c) THEN Append(found[n - 1], toolUses[n]) ELSE found[n - 1]
  IN found[Len(toolUses)]

\* An answer whose stream was neither cut nor had an event without data in
\* the middle of a call has every call once and whole, also one without a
\* done event.
CallsOnce == answerEnd = "returned" /\ faulty \subseteq {"silent"} =>
  \A c \in FunctionCalls : Uses(c) = IF item[c] = "none" THEN <<>>
                                     ELSE <<[item |-> c, whole |-> TRUE]>>

\* Whatever happens, a call with a done event is passed on whole, and at most
\* once more before that.
DoneIsPassedOn == \A c \in FunctionCalls :
  /\ item[c] = "done" => \E i \in DOMAIN Uses(c) : Uses(c)[i].whole
  /\ Len(Uses(c)) <= 2

\* The answer ends with a stop reason, unless calls were left without done.
Stops == answerEnd = "returned" /\ faulty = {} => stopReason

\* All three: the tool calls the agent gets are those the model made.
CodexSound == CallsOnce /\ DoneIsPassedOn /\ Stops
=============================================================================
