---------------------------------- MODULE Tui ----------------------------------
(***************************************************************************)
(* The terminal interface (crates/electro-tui): the wizard that asks for a *)
(* provider, a key and a model; the event loop, which handles one key or   *)
(* one status at a time; and the two tasks behind it, the adapter that     *)
(* puts messages on the queue of the runtime and the worker that runs the  *)
(* agent.  The status of the agent is a watch channel: a status the loop   *)
(* has not read when the next one is sent is gone.                         *)
(***************************************************************************)
EXTENDS Naturals, Sequences

CONSTANTS
  Providers,   \* what the wizard offers
  TuiCap,      \* places of inbound_tx and of queue_tx
  MaxTyped,    \* bound: messages the user sends
  NoProvider

ASSUME TuiAssumption ==
  TuiCap \in Nat \ {0} /\ MaxTyped \in Nat /\ NoProvider \notin Providers

VARIABLES
  screen,                 \* the screen shown
  stage,                  \* onboarding_step
  askedFor,               \* the provider of the step EnterApiKey
  keyFor,                 \* onboarding_api_key: the provider it was typed for
  current,                \* current_provider
  modelOf,                \* current_model: the provider whose list it was taken from
  savedAs,                \* what save_credentials was given: provider, key and model
  agentUp,                \* is there an AgentHandle
  overlay,                \* is an overlay shown
  agentWorking,           \* is_agent_working
  leaving,                \* should_quit
  toSend,                 \* pending_user_message, 0 for none
  typed,                  \* messages so far
  tuiInbound, tuiQueue,   \* the two channels
  carried,                \* what the adapter has in its hands, 0 for nothing
  turn,                   \* what the worker executes, 0 for nothing
  phase,                  \* the phase of the last status
  unread,                 \* has the loop not read it yet
  quiet,                  \* did the last turn end without saying so (history)
  replied,                \* turns that ended with a reply (history)
  onScreen                \* turns whose reply was put on the screen (history)

wizardVars == <<screen, stage, askedFor, keyFor, current, modelOf, savedAs, agentUp>>
chatVars == <<overlay, agentWorking, leaving, toSend, typed>>
bridgeVars == <<tuiInbound, tuiQueue, carried, turn, phase, unread, quiet, replied, onScreen>>
tuiVars == <<wizardVars, chatVars, bridgeVars>>

Steps == {"welcome", "mode", "provider", "key", "model", "confirm", "saving", "done"}
Typed == 1 .. MaxTyped

\* Credentials that were saved lead to the chat, unless the agent does not start.
TuiInit ==
  /\ screen \in {"onboarding", "chat"} /\ agentUp = (screen = "chat")
  /\ stage = "welcome" /\ keyFor = NoProvider /\ modelOf = NoProvider /\ savedAs = <<>>
  /\ askedFor = NoProvider
  /\ current \in IF agentUp THEN Providers ELSE {NoProvider}
  /\ overlay = FALSE /\ agentWorking = FALSE /\ leaving = FALSE /\ toSend = 0 /\ typed = 0
  /\ tuiInbound = <<>> /\ tuiQueue = <<>> /\ carried = 0 /\ turn = 0
  /\ phase = "idle" /\ unread = FALSE /\ quiet = FALSE /\ replied = {} /\ onScreen = {}

-----------------------------------------------------------------------------
(* The wizard.  What an Enter starts is done in the same turn of the loop. *)

Asking(from) == screen = "onboarding" /\ stage = from /\ UNCHANGED <<chatVars, bridgeVars>>

EnterWelcome ==
  /\ Asking("welcome") /\ stage' = "mode"
  /\ UNCHANGED <<screen, askedFor, keyFor, current, modelOf, savedAs, agentUp>>

EnterMode ==
  /\ Asking("mode") /\ stage' = "provider"
  /\ UNCHANGED <<screen, askedFor, keyFor, current, modelOf, savedAs, agentUp>>

EnterProvider(p) ==
  /\ Asking("provider") /\ stage' = "key" /\ askedFor' = p
  /\ UNCHANGED <<screen, keyFor, current, modelOf, savedAs, agentUp>>

\* Mutant: the provider is the one chosen first.
KeepsFirst == IF current = NoProvider THEN askedFor ELSE current

\* The provider is the one the accepted key was typed for.
Accepted == askedFor

\* The key is checked at once; one that is refused stays in onboarding_api_key.
EnterKey(valid) ==
  /\ Asking("key") /\ keyFor' = askedFor
  /\ stage' = IF valid THEN "model" ELSE "key"
  /\ current' = IF valid THEN Accepted ELSE current
  /\ UNCHANGED <<screen, askedFor, modelOf, savedAs, agentUp>>

EnterModel ==
  /\ Asking("model") /\ stage' = "confirm" /\ modelOf' = current
  /\ UNCHANGED <<screen, askedFor, keyFor, current, savedAs, agentUp>>

\* Mutant: after a failure the wizard asks to confirm once more.
AskAgain == "confirm"

\* After a failure the wizard asks for the key once more.
AfterFailure == "key"

\* Without a provider and a key the step Saving, which no key leaves, stays.
\* Otherwise all three are saved and the agent is started.
EnterConfirm(ok) ==
  /\ Asking("confirm")
  /\ IF NoProvider \in {current, keyFor}
     THEN stage' = "saving" /\ UNCHANGED <<screen, askedFor, keyFor, savedAs, agentUp>>
     ELSE /\ stage' = IF ok THEN "done" ELSE AfterFailure
          /\ screen' = IF ok THEN "chat" ELSE screen
          /\ agentUp' = ok /\ askedFor' = current /\ keyFor' = NoProvider
          /\ savedAs' = <<current, keyFor, modelOf>>
  /\ UNCHANGED <<current, modelOf>>

Back(from) == CASE from = "mode" -> "welcome" [] from = "provider" -> "mode"
                [] from = "key" -> "provider" [] from = "model" -> "key"
                [] from = "confirm" -> "model"

PressEsc ==
  /\ \E from \in {"mode", "provider", "key", "model", "confirm"} :
        /\ Asking(from) /\ stage' = Back(from)
        /\ askedFor' = IF from = "model" THEN current ELSE askedFor
  /\ UNCHANGED <<screen, keyFor, current, modelOf, savedAs, agentUp>>

-----------------------------------------------------------------------------
(* The chat.  The loop takes no event before the message is sent.          *)

Loop == screen = "chat" /\ toSend = 0 /\ ~leaving
Typing == Loop /\ ~overlay /\ UNCHANGED <<wizardVars, bridgeVars>>

\* While the agent works only what starts with a slash is taken; a path that is
\* no command is a message all the same.
SubmitText(path) ==
  /\ Typing /\ (agentWorking => path) /\ typed < MaxTyped
  /\ typed' = typed + 1 /\ toSend' = typed + 1 /\ agentWorking' = TRUE
  /\ UNCHANGED <<overlay, leaving>>

\* /help and its like; the overlay takes all keys but Esc.
OpenOverlay == Typing /\ overlay' = TRUE /\ UNCHANGED <<agentWorking, leaving, toSend, typed>>

CloseOverlay ==
  /\ Loop /\ overlay /\ overlay' = FALSE
  /\ UNCHANGED <<agentWorking, leaving, toSend, typed, wizardVars, bridgeVars>>

\* Ctrl+C: the agent is not told.
PressInterrupt ==
  /\ Typing /\ agentWorking /\ agentWorking' = FALSE
  /\ UNCHANGED <<overlay, leaving, toSend, typed>>

\* /quit, or Ctrl+D without input.
Quit == Typing /\ leaving' = TRUE /\ UNCHANGED <<overlay, agentWorking, toSend, typed>>

SendUnsent ==
  /\ screen = "chat" /\ toSend # 0 /\ toSend' = 0
  /\ IF agentUp THEN Len(tuiInbound) < TuiCap /\ tuiInbound' = Append(tuiInbound, toSend)
                ELSE UNCHANGED tuiInbound
  /\ UNCHANGED <<wizardVars, overlay, agentWorking, leaving, typed, tuiQueue, carried,
                 turn, phase, unread, quiet, replied, onScreen>>

\* Mutant: a status that arrives under an overlay is dropped.
FreesUncovered(ph) == ph = "done" /\ ~overlay

Frees(ph) == ph = "done"

ReadStatus ==
  /\ Loop /\ unread /\ unread' = FALSE
  /\ agentWorking' = (agentWorking /\ ~Frees(phase))
  /\ UNCHANGED <<wizardVars, overlay, leaving, toSend, typed, tuiInbound, tuiQueue, carried,
                 turn, phase, quiet, replied, onScreen>>

-----------------------------------------------------------------------------
(* The adapter and the worker.                                             *)

Behind == ~leaving /\ UNCHANGED <<wizardVars, chatVars>>
Says(ph) == phase' = ph /\ unread' = TRUE

AdapterTakes ==
  /\ Behind /\ carried = 0 /\ tuiInbound # <<>>
  /\ carried' = Head(tuiInbound) /\ tuiInbound' = Tail(tuiInbound) /\ Says("calling")
  /\ UNCHANGED <<tuiQueue, turn, quiet, replied, onScreen>>

AdapterQueues ==
  /\ Behind /\ carried # 0 /\ Len(tuiQueue) < TuiCap
  /\ tuiQueue' = Append(tuiQueue, carried) /\ carried' = 0
  /\ UNCHANGED <<tuiInbound, turn, phase, unread, quiet, replied, onScreen>>

WorkerTakes ==
  /\ Behind /\ turn = 0 /\ tuiQueue # <<>>
  /\ turn' = Head(tuiQueue) /\ tuiQueue' = Tail(tuiQueue) /\ Says("preparing")
  /\ UNCHANGED <<tuiInbound, carried, quiet, replied, onScreen>>

\* The replies the worker hands to the event bus: none, it binds them to _reply.
Emitted(m) == {}

\* process_message returns: with the phase Done, or early, or with an error.
TurnEnds(how) ==
  /\ Behind /\ turn # 0 /\ turn' = 0
  /\ IF how = "done" THEN Says("done") ELSE UNCHANGED <<phase, unread>>
  /\ quiet' = (how # "done")
  /\ replied' = IF how = "error" THEN replied ELSE replied \cup {turn}
  /\ onScreen' = IF how = "error" THEN onScreen ELSE onScreen \cup Emitted(turn)
  /\ UNCHANGED <<tuiInbound, tuiQueue, carried>>

Wizard ==
  \/ EnterWelcome \/ EnterMode \/ EnterModel \/ PressEsc
  \/ \E p \in Providers : EnterProvider(p)
  \/ \E ok \in BOOLEAN : EnterKey(ok) \/ EnterConfirm(ok)
User == \/ OpenOverlay \/ CloseOverlay \/ PressInterrupt \/ Quit
        \/ \E path \in BOOLEAN : SubmitText(path)
Adapter == AdapterTakes \/ AdapterQueues
TuiWorker == WorkerTakes \/ \E how \in {"done", "early", "error"} : TurnEnds(how)
TuiNext == Wizard \/ User \/ SendUnsent \/ ReadStatus \/ Adapter \/ TuiWorker

TuiSpec == TuiInit /\ [][TuiNext]_tuiVars

\* The loop and the two tasks run; nothing makes the user press a key.
TuiFairSpec ==
  /\ TuiSpec /\ WF_tuiVars(SendUnsent) /\ WF_tuiVars(ReadStatus) /\ WF_tuiVars(Adapter)
  /\ WF_tuiVars(TuiWorker)

-----------------------------------------------------------------------------
\* Every variable keeps its type.
TuiTypeOK ==
  /\ screen \in {"onboarding", "chat"} /\ stage \in Steps
  /\ {askedFor, keyFor, current, modelOf} \subseteq Providers \cup {NoProvider}
  /\ \A i \in DOMAIN savedAs : savedAs[i] \in Providers \cup {NoProvider}
  /\ {agentUp, overlay, agentWorking, leaving, unread, quiet} \subseteq BOOLEAN
  /\ {toSend, carried, turn, typed} \subseteq Typed \cup {0}
  /\ \A q \in {tuiInbound, tuiQueue} : Len(q) <= TuiCap /\ \A i \in DOMAIN q : q[i] \in Typed
  /\ phase \in {"idle", "calling", "preparing", "done"}
  /\ replied \subseteq Typed /\ onScreen \subseteq replied

\* The wizard never stops in the step that takes no key, whatever was refused,
\* failed or taken back; what it saves was typed and chosen for one provider;
\* and the chat has an agent to send to.
WizardSound ==
  /\ stage # "saving" /\ (screen = "chat" => agentUp)
  /\ savedAs # <<>> => \A i, j \in DOMAIN savedAs : savedAs[i] = savedAs[j]

\* The input is closed only while a message is on its way, a status that will
\* open it is unread, or the last turn ended without a status: a status that
\* was never read, or the end of a turn the user has interrupted, closes
\* nothing for good.
ClosedForCause ==
  agentWorking =>
    \/ toSend # 0 \/ tuiInbound # <<>> \/ carried # 0 \/ tuiQueue # <<>> \/ turn # 0
    \/ (unread /\ phase = "done")
    \/ quiet

TuiSound == WizardSound /\ ClosedForCause

\* What the agent replies to a message is shown to the user who waits for it.
RepliesShown == \A m \in Typed : (m \in replied) ~> (m \in onScreen \/ leaving)
=============================================================================
