-------------------------------- MODULE Context -------------------------------
(***************************************************************************)
(* What of a chat's history the model gets to see: build_context of        *)
(* crates/electro-agent/src/context.rs and prune_history of                *)
(* history_pruning.rs.  A message is what the cuts tell apart: who speaks, *)
(* which tool call it makes or answers, and its tokens.                    *)
(***************************************************************************)
EXTENDS Integers, Sequences, FiniteSets, FiniteSetsExt

CONSTANTS
  MaxHistory,   \* bound: messages of the history
  MaxRecent,    \* MAX_RECENT_MESSAGES
  Window,       \* RECENCY_WINDOW
  MaxBudget     \* bound: tokens of the budget

ASSUME ContextAssumption == {MaxHistory, MaxRecent, Window, MaxBudget} \subseteq Nat

VARIABLES
  history,   \* session.history
  request,   \* what the last build_context made of it
  pruned     \* what the last prune_history made of it

contextVars == <<history, request, pruned>>

Kinds == {"user", "text", "call", "callWithText", "results"}
Idxs == DOMAIN history
IsCall(i) == history[i] \in {"call", "callWithText"}
Tokens(i) == IF history[i] = "results" THEN 2 ELSE 1
Size(S) == MapThenSumSet(Tokens, S)
Less(a, b) == IF a > b THEN a - b ELSE 0   \* saturating_sub
NoRequest == [older |-> {}, recent |-> {}, fixed |-> 0, memory |-> 0, budget |-> 0]
NotPruned == [kept |-> {}, max |-> 0]

ContextInit == history = <<>> /\ request = NoRequest /\ pruned = NotPruned

\* The histories of the runtime: a call is followed by its results, anything
\* else by a message of the user, a text or a call.
AddMessage ==
  /\ Len(history) < MaxHistory /\ request = NoRequest /\ pruned = NotPruned
  /\ \E kind \in IF history # <<>> /\ IsCall(Len(history)) THEN {"results"} ELSE Kinds \ {"results"} :
       history' = Append(history, kind)
  /\ UNCHANGED <<request, pruned>>
Quiet == /\ history # <<>> /\ ~IsCall(Len(history))
         /\ request = NoRequest /\ pruned = NotPruned

\* Mutant: results are a turn of their own.
TurnInAlone(S, i) == {i}

\* group_into_turns on the messages of the interval S: the turn of i.
TurnIn(S, i) ==
  LET call == IF history[i] = "results" /\ i - 1 \in S THEN i - 1 ELSE i
  IN IF IsCall(call) THEN {call, call + 1} \cap S ELSE {i}

-----------------------------------------------------------------------------
(* build_context.                                                          *)

\* Mutant: the last messages go out as they are.
RecentPartRaw == {i \in Idxs : i > Less(Len(history), MaxRecent)}

\* The last messages, always kept; at the end remove_orphaned_tool_results
\* takes out results whose call is not among them.
RecentPart ==
  LET last == {i \in Idxs : i > Less(Len(history), MaxRecent)}
  IN {i \in last : history[i] = "results" => i - 1 \in last}

\* Mutant: a turn is kept when it fits without those after it.
OlderPartEach(maxTurns, budget) ==
  LET end == Less(Len(history), MaxRecent)
      older == {i \in 1 .. end : maxTurns > 0 /\ end > 2 * maxTurns => i > end - 2 * maxTurns}
  IN {i \in older : Size(TurnIn(older, i)) <= budget}

\* The messages before: cut to max_turns, then turn by turn from the newest
\* while they fit.
OlderPart(maxTurns, budget) ==
  LET end == Less(Len(history), MaxRecent)
      older == {i \in 1 .. end : maxTurns > 0 /\ end > 2 * maxTurns => i > end - 2 * maxTurns}
  IN {i \in older : Size({j \in older : j >= Min(TurnIn(older, i))}) <= budget}

\* strip_tool_messages_from_older: only what was said is left.
Stripped(S) == {i \in S : history[i] \in {"user", "text", "callWithText"}}

\* fixed: prompt, tool definitions, overhead and blueprints.  The memory part,
\* lambda memory or else the three searches, is cut to what fixed and recent
\* messages leave; the older messages get what then remains.
Build(maxTurns, budget, fixed, memory) ==
  LET last == {i \in Idxs : i > Less(Len(history), MaxRecent)}
      left == Less(budget, fixed + Size(last))
  IN /\ Quiet /\ memory <= left
     /\ request' = [older  |-> Stripped(OlderPart(maxTurns, Less(left, memory))),
                    recent |-> RecentPart,
                    fixed |-> fixed, memory |-> memory, budget |-> budget]
     /\ UNCHANGED <<history, pruned>>

-----------------------------------------------------------------------------
(* prune_history.                                                          *)
BaseScores == {1, 10}   \* Trivial and Critical of the five levels

Score(importance, i) == importance[i] + IF i > Less(Len(history), Window) THEN 3 ELSE 0
TurnScore(importance, t) == Max({Score(importance, i) : i \in t})
DroppedBefore(importance, t, u) ==
  \/ TurnScore(importance, t) < TurnScore(importance, u)
  \/ TurnScore(importance, t) = TurnScore(importance, u) /\ Min(t) < Min(u)

\* Whole turns go, the least important first, until enough messages are gone.
Prune(max, importance) ==
  LET turns == {TurnIn(Idxs, i) : i \in Idxs}
      goneBefore(u) == UNION {t \in turns : DroppedBefore(importance, t, u)}
      dropped == UNION {u \in turns : Cardinality(goneBefore(u)) < Less(Len(history), max)}
  IN /\ Quiet
     /\ pruned' = [kept |-> Idxs \ dropped, max |-> max]
     /\ UNCHANGED <<history, request>>

ContextNext ==
  \/ AddMessage
  \/ \E maxTurns \in 0 .. 1, budget \in 0 .. MaxBudget, fixed \in 0 .. 1, memory \in 0 .. 1 :
       Build(maxTurns, budget, fixed, memory)
  \/ \E max \in 1 .. MaxHistory, importance \in [Idxs -> BaseScores] : Prune(max, importance)

ContextSpec == ContextInit /\ [][ContextNext]_contextVars

-----------------------------------------------------------------------------
\* Every variable keeps its type.
ContextTypeOK ==
  /\ history \in Seq(Kinds)
  /\ request.older \cup request.recent \cup pruned.kept \subseteq Idxs
  /\ request.older \cap request.recent = {}

Paired(S) == \A i \in S : /\ IsCall(i) => i + 1 \in S
                          /\ history[i] = "results" => i - 1 \in S

\* Wherever the cut between older and recent messages falls, a call and its
\* results go to the provider together or not at all.
RequestPaired == Paired(request.recent)

\* What is chosen by tokens fits: as long as the prompt and the recent messages
\* leave room, memory and older messages do not overrun the budget.
RequestFits ==
  request.fixed + Size(request.recent) <= request.budget =>
    request.fixed + Size(request.recent) + request.memory + Size(request.older) <= request.budget

\* Pruning keeps calls and results together although it goes by importance,
\* and keeps no more than it may.
PrunedWhole == /\ Paired(pruned.kept)
               /\ pruned # NotPruned => Cardinality(pruned.kept) <= pruned.max

\* All three: what goes to the provider is well-formed and no longer than allowed.
RequestSound == RequestPaired /\ RequestFits /\ PrunedWhole

-----------------------------------------------------------------------------
(***************************************************************************)
(* assemble_lambda_context of crates/electro-agent/src/lambda_memory.rs:   *)
(* remembered entries, the best scored first, are packed into the tokens   *)
(* that are left, each in the most detailed form its score allows and the  *)
(* room takes.  A token is four characters, rounded down for every piece   *)
(* alone and once more for the whole text.                                 *)
(***************************************************************************)

CONSTANTS
  Candidates,    \* bound: number of candidates, in descending order of score
  MaxLambda,     \* bound: tokens given to the section
  MinEntry,      \* MIN_ENTRY_TOKENS
  Header,        \* characters of the header
  Footer         \* and of the footer

ASSUME LambdaAssumption == {Candidates, MaxLambda, MinEntry, Header, Footer} \subseteq Nat

VARIABLES
  entries,    \* per candidate: an explicit save or not, and its fidelity tier
  lambdaMax,  \* budget
  remaining,  \* tokens left
  packed,     \* candidates in the text
  passed,     \* candidates that were looked at
  chars       \* characters of the text

lambdaVars == <<entries, lambdaMax, remaining, packed, passed, chars>>

Ranks == 1 .. Candidates
Fidelities == 0 .. 3    \* by score: gone, faded, cool or warm, hot
\* Characters of the forms, each about twice the one below.
Form(level) == CASE level = 1 -> 7 [] level = 2 -> 15 [] level = 3 -> 30 [] OTHER -> 0
TokensOf(n) == n \div 4

LambdaInit ==
  /\ entries \in [Ranks -> [explicit : BOOLEAN, level : Fidelities]]
  /\ \A i, j \in Ranks : i < j => entries[i].level >= entries[j].level
  /\ lambdaMax \in MinEntry .. MaxLambda
  /\ remaining = Less(lambdaMax, TokensOf(Header) + TokensOf(Footer))
  /\ packed = {} /\ passed = {} /\ chars = Header + Footer

\* best_representation: the most detailed form that fits, 0 if none does.
BestForm(i) ==
  LET fits == {level \in 1 .. entries[i].level : TokensOf(Form(level)) <= remaining}
  IN IF fits = {} THEN 0 ELSE CHOOSE level \in fits : \A other \in fits : other <= level

\* Mutant: only the score counts.
BeforeByScore(i, j) == i < j

Before(i, j) == IF entries[i].explicit = entries[j].explicit THEN i < j ELSE entries[i].explicit

\* Mutant: what an entry takes is not counted when it is in its shortest form.
PackFree(i) ==
  /\ i \notin passed /\ remaining >= MinEntry
  /\ \A j \in Ranks \ passed : i = j \/ Before(i, j)
  /\ passed' = passed \cup {i}
  /\ LET form == BestForm(i)
     IN IF TokensOf(Form(form)) > 0
        THEN /\ packed' = packed \cup {i} /\ chars' = chars + Form(form)
             /\ remaining' = IF form = 1 THEN remaining ELSE remaining - TokensOf(Form(form))
        ELSE UNCHANGED <<packed, chars, remaining>>
  /\ UNCHANGED <<entries, lambdaMax>>

\* Explicit saves first, then the others; one for which nothing fits is passed
\* over, and with less than MIN_ENTRY_TOKENS left the packing ends.
Pack(i) ==
  /\ i \notin passed /\ remaining >= MinEntry
  /\ \A j \in Ranks \ passed : i = j \/ Before(i, j)
  /\ passed' = passed \cup {i}
  /\ LET form == BestForm(i)
     IN IF TokensOf(Form(form)) > 0
        THEN /\ packed' = packed \cup {i} /\ chars' = chars + Form(form)
             /\ remaining' = remaining - TokensOf(Form(form))
        ELSE UNCHANGED <<packed, chars, remaining>>
  /\ UNCHANGED <<entries, lambdaMax>>

LambdaNext == \E i \in Ranks : Pack(i)

LambdaSpec == LambdaInit /\ [][LambdaNext]_lambdaVars

-----------------------------------------------------------------------------
\* Every variable keeps its type; the tokens left never go below zero.
LambdaTypeOK ==
  /\ entries \in [Ranks -> [explicit : BOOLEAN, level : Fidelities]]
  /\ lambdaMax \in Nat /\ remaining \in 0 .. lambdaMax
  /\ packed \subseteq passed /\ passed \subseteq Ranks /\ chars \in Nat

\* The text overruns its budget by no more than the roundings: three characters
\* for each entry, the header and the footer.
LambdaNearBudget ==
  packed # {} => 4 * TokensOf(chars) <= 4 * lambdaMax + 3 * (Cardinality(packed) + 2)

\* An explicit save is left out for the sake of other explicit saves only.
ExplicitFirst == \A i, j \in Ranks :
  entries[i].explicit /\ i \notin packed /\ entries[i].level > 0 /\ j \in packed /\ ~entries[j].explicit
    => TokensOf(Form(1)) > remaining

\* Both: the section keeps to its budget and to what the user asked to remember.
LambdaSound == LambdaNearBudget /\ ExplicitFirst
=============================================================================
