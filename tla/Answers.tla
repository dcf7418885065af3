-------------------------------- MODULE Answers --------------------------------
(***************************************************************************)
(* How the providers of crates/electro-providers take answers.  First the  *)
(* keys, which calls in flight share and which are changed on a refusal;   *)
(* then the events of a streamed answer, which openai_compat.rs and        *)
(* anthropic.rs read differently: the former numbers the calls of tools    *)
(* and says that the answer is finished, the latter opens and closes a     *)
(* block for each.  The service is external and sends whole events; what   *)
(* the network cuts in pieces is put together before an event is read.     *)
(***************************************************************************)
EXTENDS Naturals, Sequences, FiniteSets, SequencesExt

CONSTANTS
  KeyCount,     \* keys of the provider
  KeyCalls,     \* calls that may be in flight at once
  MaxRefusals,  \* bound: keyRefusals
  WireCalls,    \* bound: calls of tools in an answer
  WireParts,    \* bound: pieces of their arguments
  WireTexts     \* bound: pieces of text

ASSUME AnswersAssumption ==
  /\ {KeyCount, WireParts} \subseteq Nat \ {0}
  /\ {MaxRefusals, WireCalls, WireTexts} \subseteq Nat

VARIABLES
  keyIndex,    \* key_index
  askedWith,   \* per call in flight: the key it was sent with, KeyCount for none
  keyRefusals, \* per key: how often it was refused (history)
  keysCrossed, \* calls were in flight at once (history)
  wire,        \* "openai", "anthropic"
  wireCalls,   \* per call of the answer: pieces the service has sent, 0 for none
  wireTexts,   \* pieces of text the service has sent
  wireEnd,     \* "open", "finished", "marked", "ended", "returned"
  blocked,     \* tool_calls or tool_blocks: [call, named, parts]
  passedOn,    \* what stream has passed on
  wireFaults   \* what went wrong: "length", "cut", "error", "joined" (history)

keysVars == <<keyIndex, askedWith, keyRefusals, keysCrossed>>
wireVars == <<wire, wireCalls, wireTexts, wireEnd, blocked, passedOn, wireFaults>>

-----------------------------------------------------------------------------
(* The keys.                                                               *)

KeyIds == 0 .. KeyCount - 1
KeysInit ==
  /\ keyIndex = 0 /\ askedWith = [c \in KeyCalls |-> KeyCount]
  /\ keyRefusals = [k \in KeyIds |-> 0] /\ keysCrossed = FALSE

InFlight(c) == askedWith[c] # KeyCount
CallOver(c) == askedWith' = [askedWith EXCEPT ![c] = KeyCount]

AskProvider(c) ==
  /\ ~InFlight(c) /\ askedWith' = [askedWith EXCEPT ![c] = keyIndex % KeyCount]
  /\ keysCrossed' = (keysCrossed \/ \E d \in KeyCalls : InFlight(d))
  /\ UNCHANGED <<keyIndex, keyRefusals>>

\* Mutant: a key that is not known is kept.
RotateUnlessUnknown(status) == keyIndex' = IF status = 401 THEN keyIndex ELSE keyIndex + 1
RotateKey(status) == keyIndex' = keyIndex + 1

\* Too many requests, or a key that is not known: the next key, whichever key
\* it was that was refused.
KeyRefused(c) ==
  /\ InFlight(c) /\ CallOver(c)
  /\ keyRefusals[askedWith[c]] < MaxRefusals
  /\ keyRefusals' = [keyRefusals EXCEPT ![askedWith[c]] = @ + 1]
  /\ \E status \in {429, 401} : RotateKey(status)
  /\ UNCHANGED keysCrossed

\* An answer, or another error.
NotRefused(c) == InFlight(c) /\ CallOver(c) /\ UNCHANGED <<keyIndex, keyRefusals, keysCrossed>>

KeysNext == \E c \in KeyCalls : AskProvider(c) \/ KeyRefused(c) \/ NotRefused(c)

-----------------------------------------------------------------------------
(* A streamed answer: the calls come one after the other.                  *)

WireIds == 1 .. WireCalls
WireInit ==
  /\ wire \in {"openai", "anthropic"}
  /\ wireCalls = [i \in WireIds |-> 0] /\ wireTexts = 0 /\ wireEnd = "open"
  /\ blocked = <<>> /\ passedOn = <<>> /\ wireFaults = {}

Started == {i \in WireIds : wireCalls[i] > 0}
Unfinished == {i \in Started : wireCalls[i] < WireParts}
ToolUse(b) == [kind |-> "call", call |-> b.call, whole |-> b.named /\ b.parts = WireParts]
Chunk(kind) == [kind |-> kind, call |-> 0, whole |-> TRUE]
PassOn(chunk) == passedOn' = Append(passedOn, chunk)

\* The service is at one thing at a time, until it reaches max_tokens.
Sends == wireEnd = "open" /\ "length" \notin wireFaults
Complete == "length" \in wireFaults \/ Unfinished = {}

SendText ==
  /\ Sends /\ Unfinished = {} /\ wireTexts < WireTexts
  /\ wire = "anthropic" => blocked = <<>>
  /\ wireTexts' = wireTexts + 1 /\ PassOn(Chunk("text"))
  /\ UNCHANGED <<wire, wireCalls, wireEnd, blocked, wireFaults>>

\* Mutant: the pieces go to the first call.
DeltaOfFirst(i) == 1
DeltaOf(i) == i

\* The first piece carries the name, or opens the block.
SendCall(i) ==
  /\ Sends /\ wireCalls[i] < WireParts /\ Unfinished \subseteq {i}
  /\ 1 .. (i - 1) \subseteq Started
  /\ wire = "anthropic" => blocked = <<>> \/ wireCalls[i] > 0
  /\ wireCalls' = [wireCalls EXCEPT ![i] = @ + 1]
  /\ IF wire = "openai"
     THEN LET n == DeltaOf(i)
              slots == blocked \o [j \in 1 .. (IF n > Len(blocked) THEN n - Len(blocked) ELSE 0) |->
                                     [call |-> i, named |-> FALSE, parts |-> 0]]
          IN  blocked' = [slots EXCEPT ![n] = [call |-> @.call, parts |-> @.parts + 1,
                                               named |-> @.named \/ wireCalls[i] = 0]]
     ELSE IF wireCalls[i] = 0
          THEN blocked' = Append(blocked, [call |-> i, named |-> TRUE, parts |-> 1])
          ELSE blocked' = [blocked EXCEPT ![Len(blocked)].parts = @ + 1]
  /\ UNCHANGED <<wire, wireTexts, wireEnd, passedOn, wireFaults>>

TooLong ==
  /\ Sends /\ wireFaults' = wireFaults \cup {"length"}
  /\ UNCHANGED <<wire, wireCalls, wireTexts, wireEnd, blocked, passedOn>>

\* content_block_stop; arguments that do not parse become an empty object.
CloseBlock ==
  /\ wire = "anthropic" /\ wireEnd = "open" /\ blocked # <<>> /\ Complete
  /\ PassOn(ToolUse(Last(blocked))) /\ blocked' = Front(blocked)
  /\ UNCHANGED <<wire, wireCalls, wireTexts, wireEnd, wireFaults>>

\* Mutant: the last of them.
FlushLast == PassOn(ToolUse(Last(blocked))) /\ blocked' = Front(blocked)
\* flush_tool_calls: the first of them.
FlushFirst == PassOn(ToolUse(Head(blocked))) /\ blocked' = Tail(blocked)

\* openai_compat.rs: the first call takes the place of the reason, unless that
\* is "length".
FinishReason ==
  /\ wire = "openai" /\ wireEnd = "open" /\ Complete /\ wireEnd' = "finished"
  /\ IF "length" \notin wireFaults /\ blocked # <<>>
     THEN FlushFirst
     ELSE PassOn(Chunk("stop")) /\ UNCHANGED blocked
  /\ UNCHANGED <<wire, wireCalls, wireTexts, wireFaults>>

\* A text in the event of the reason hides it.
FinishWithText ==
  /\ wire = "openai" /\ Sends /\ Unfinished = {} /\ wireTexts < WireTexts
  /\ wireEnd' = "finished" /\ wireTexts' = wireTexts + 1 /\ PassOn(Chunk("text"))
  /\ wireFaults' = wireFaults \cup {"joined"}
  /\ UNCHANGED <<wire, wireCalls, blocked>>

\* anthropic.rs: message_delta
StopReason ==
  /\ wire = "anthropic" /\ wireEnd = "open" /\ Complete /\ blocked = <<>>
  /\ wireEnd' = "finished" /\ PassOn(Chunk("stop"))
  /\ UNCHANGED <<wire, wireCalls, wireTexts, blocked, wireFaults>>

\* [DONE] flushes once more; message_stop says nothing.
Done ==
  /\ wireEnd = "finished" /\ wireEnd' = "marked"
  /\ IF wire = "openai" /\ blocked # <<>> THEN FlushFirst ELSE UNCHANGED <<blocked, passedOn>>
  /\ UNCHANGED <<wire, wireCalls, wireTexts, wireFaults>>

\* An error in the middle, of the service or of the network, ends it for the
\* reader; without one the bytes may end too early.
ErrorInside ==
  /\ wireEnd = "open" /\ wireEnd' = "returned" /\ PassOn(Chunk("error"))
  /\ wireFaults' = wireFaults \cup {"error"}
  /\ UNCHANGED <<wire, wireCalls, wireTexts, blocked>>
BytesEnd ==
  /\ wireEnd \in {"open", "finished", "marked"} /\ wireEnd' = "ended"
  /\ wireFaults' = IF wireEnd = "open" THEN wireFaults \cup {"cut"} ELSE wireFaults
  /\ UNCHANGED <<wire, wireCalls, wireTexts, blocked, passedOn>>

\* Mutant: what is left at the end is dropped.
DropRest == wireEnd' = "returned" /\ UNCHANGED <<blocked, passedOn>>
\* The end flushes one by one, in openai_compat.rs only.
FlushRest == IF wire = "openai" /\ blocked # <<>>
             THEN FlushFirst /\ UNCHANGED wireEnd
             ELSE wireEnd' = "returned" /\ UNCHANGED <<blocked, passedOn>>
AfterEnd == /\ wireEnd = "ended" /\ FlushRest
            /\ UNCHANGED <<wire, wireCalls, wireTexts, wireFaults>>

WireNext ==
  \/ SendText \/ TooLong \/ (\E i \in WireIds : SendCall(i)) \/ CloseBlock \/ FinishReason
  \/ FinishWithText \/ StopReason \/ Done \/ ErrorInside \/ BytesEnd \/ AfterEnd

-----------------------------------------------------------------------------
\* Every variable of the keys keeps its type.
KeysTypeOK ==
  /\ keyIndex \in Nat /\ askedWith \in [KeyCalls -> 0 .. KeyCount]
  /\ keyRefusals \in [KeyIds -> 0 .. MaxRefusals] /\ keysCrossed \in BOOLEAN

\* Every variable of a streamed answer keeps its type.
WireTypeOK ==
  /\ wire \in {"openai", "anthropic"} /\ wireCalls \in [WireIds -> 0 .. WireParts]
  /\ wireTexts \in 0 .. WireTexts
  /\ wireEnd \in {"open", "finished", "marked", "ended", "returned"}
  /\ blocked \in Seq([call : WireIds, named : BOOLEAN, parts : 0 .. WireCalls * WireParts])
  /\ passedOn \in Seq([kind : {"text", "call", "stop", "error"}, call : 0 .. WireCalls,
                     whole : BOOLEAN])
  /\ wireFaults \subseteq {"length", "cut", "error", "joined"}

\* As long as calls do not cross, the keys are used in turn: none is refused
\* a second time before each of the others was refused.  (Two calls refused
\* with one key rotate past the next, and may do so for ever.)
KeysInTurn == ~keysCrossed => \A k, l \in KeyIds : keyRefusals[k] <= keyRefusals[l] + 1

\* What was passed on of one kind.
OfKind(kind) == [kind : {kind}, call : 0 .. WireCalls, whole : BOOLEAN]
Passed(kind) ==
  LET found[n \in 0 .. Len(passedOn)] ==
        IF n = 0 THEN <<>>
        ELSE IF passedOn[n] \in OfKind(kind) THEN Append(found[n - 1], passedOn[n]) ELSE found[n - 1]
  IN found[Len(passedOn)]

\* A stream that comes to its end has passed on every call once, in order and
\* whole, and every text; anthropic.rs never passes on a call that is not
\* whole, unless max_tokens was reached in it, and gives the reason always,
\* openai_compat.rs when neither a call nor a text took its place.
WireSound ==
  /\ Len(Passed("text")) = wireTexts
  /\ wireEnd = "returned" /\ wireFaults \subseteq {"joined"} =>
       /\ Passed("call") = [i \in 1 .. Cardinality(Started) |->
                           [kind |-> "call", call |-> i, whole |-> TRUE]]
       /\ wire = "anthropic" \/ (Started = {} /\ wireFaults = {}) => Len(Passed("stop")) = 1
  /\ wire = "anthropic" /\ "length" \notin wireFaults =>
       \A i \in DOMAIN Passed("call") : Passed("call")[i].whole
=============================================================================
