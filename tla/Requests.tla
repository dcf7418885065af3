------------------------------- MODULE Requests --------------------------------
(***************************************************************************)
(* OpenAICompatProvider of crates/electro-providers/src/openai_compat.rs:  *)
(* what becomes of a history on its way into a request.  Rounds of calls   *)
(* and results grow the history and may stay incomplete, and the messages  *)
(* a caller leaves out may be any; the service (external) refuses a call   *)
(* without a result and a result without a call.                           *)
(***************************************************************************)
EXTENDS Naturals, Sequences, FiniteSets, SequencesExt

CONSTANTS
  ToolIds,      \* bound: ids of tool calls
  MaxMessages   \* bound: messages of the history

ASSUME RequestsAssumption == MaxMessages \in Nat

(* A message of the history has a role and the ids of its tool-use parts   *)
(* or tool-result parts; text tells whether it has a text part.  One of a  *)
(* request has at most one result.                                         *)
VARIABLES
  messages,
  open,      \* calls of the last answer without a result so far
  body       \* the messages of the request for this history, once built

requestsVars == <<messages, open, body>>

Said(role, text, ids) == [role |-> role, text |-> text, ids |-> ids]
RequestsInit == messages = <<>> /\ open = {} /\ body = <<>>

UserSays ==
  /\ Len(messages) < MaxMessages /\ messages' = Append(messages, Said("user", TRUE, <<>>))
  /\ open' = {} /\ body' = <<>>
\* complete: what the service calls for, under ids it makes up.
Answered(text, ids) ==
  /\ Len(messages) < MaxMessages /\ (text \/ ids # <<>>)
  /\ messages' = Append(messages, Said("assistant", text, ids))
  /\ open' = ToSet(ids) /\ body' = <<>>
\* The tools answer, all in one message, or one by one until they are cut off.
Results(ids) ==
  /\ Len(messages) < MaxMessages /\ ids # <<>> /\ ToSet(ids) \subseteq open
  /\ messages' = Append(messages, Said("tool", FALSE, ids))
  /\ open' = open \ ToSet(ids) /\ body' = <<>>
\* The caller leaves a message out.
LeftOut ==
  /\ \E i \in DOMAIN messages : messages' = RemoveAt(messages, i)
  /\ open' = {} /\ body' = <<>>

\* convert_message_to_openai: one message, but for results, which are one each;
\* a tool message without any keeps its text and has no id.
Converted(m) ==
  IF m.role = "tool" /\ m.ids # <<>>
  THEN [i \in DOMAIN m.ids |-> Said("tool", FALSE, <<m.ids[i]>>)]
  ELSE <<m>>
Flattened(ms) == FlattenSeq([i \in DOMAIN ms |-> Converted(ms[i])])

IdsOf(ms, role) == UNION {ToSet(ms[i].ids) : i \in {j \in DOMAIN ms : ms[j].role = role}}
InPairs(ms) == IdsOf(ms, "assistant") \cap IdsOf(ms, "tool")

\* retain: the elements that are in S.
Those(s, S) ==
  LET left[n \in 0 .. Len(s)] ==
        IF n = 0 THEN <<>>
        ELSE IF s[n] \in S THEN Append(left[n - 1], s[n]) ELSE left[n - 1]
  IN left[Len(s)]

\* Mutant: calls without a result stay.
SanitizedResults(ms) ==
  Those(ms, {m \in ToSet(ms) : m.role # "tool" \/ ToSet(m.ids) \cap InPairs(ms) # {}})

\* sanitize_tool_ordering: results without a call go, and the calls without a
\* result go from the messages that make them.
Sanitized(ms) ==
  LET valid == InPairs(ms)
      rest == Those(ms, {m \in ToSet(ms) : m.role # "tool" \/ ToSet(m.ids) \cap valid # {}})
  IN  [i \in DOMAIN rest |->
         IF rest[i].role = "assistant" THEN [rest[i] EXCEPT !.ids = Those(@, valid)] ELSE rest[i]]

\* build_request_body
BuildRequest == body' = Sanitized(Flattened(messages)) /\ UNCHANGED <<messages, open>>

RequestsNext ==
  \/ UserSays \/ LeftOut \/ BuildRequest
  \/ \E ids \in SeqOf(ToolIds, 2) :
       \/ IsInjective(ids) /\ (Results(ids) \/ \E text \in BOOLEAN : Answered(text, ids))

RequestsSpec == RequestsInit /\ [][RequestsNext]_requestsVars

-----------------------------------------------------------------------------
\* Every variable keeps its type.
RequestsTypeOK ==
  /\ Len(messages) <= MaxMessages /\ open \subseteq ToolIds
  /\ \A ms \in {messages, body} : \A i \in DOMAIN ms :
       /\ ms[i].role \in {"user", "assistant", "tool"} /\ ms[i].text \in BOOLEAN
       /\ ToSet(ms[i].ids) \subseteq ToolIds

\* No request has a call without a result or a result without a call, whatever
\* was cut off or left out of the history.
OnlyPairs == IdsOf(body, "assistant") = IdsOf(body, "tool")

Spoken == [role : {"user", "assistant"}, text : BOOLEAN]
Roles(ms) == [i \in DOMAIN ms |-> [role |-> ms[i].role, text |-> ms[i].text]]

\* Sanitizing takes nothing else: what was said stays, in its order, a history
\* of whole pairs goes out as it is, and doing it again changes nothing.
NothingElseLost ==
  LET flat == Flattened(messages)  sent == Sanitized(flat)
  IN  /\ Those(Roles(sent), Spoken) = Those(Roles(flat), Spoken)
      /\ IdsOf(flat, "assistant") = IdsOf(flat, "tool") => sent = flat
      /\ Sanitized(sent) = sent

\* A result that follows its call in the history does so in the request: only
\* results of the same call message come in between.
Follows(ms, i) ==
  \E c \in DOMAIN ms :
    /\ c < i /\ ms[c].role = "assistant" /\ ToSet(ms[i].ids) \subseteq ToSet(ms[c].ids)
    /\ \A k \in c + 1 .. i : ms[k].role = "tool"
PairsStayTogether ==
  LET flat == Flattened(messages)  sent == Sanitized(flat)
      results(ms) == {i \in DOMAIN ms : ms[i].role = "tool"}
  IN  (\A i \in results(flat) : Follows(flat, i)) => \A i \in results(sent) : Follows(sent, i)

\* The three together.
RequestsSound == OnlyPairs /\ NothingElseLost /\ PairsStayTogether
=============================================================================
