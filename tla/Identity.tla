------------------------------- MODULE Identity -------------------------------
(***************************************************************************)
(* OAuthIdentityManager of crates/electro-gateway/src/identity.rs: users,  *)
(* the authorizations they have begun, and the tokens these end in.  An    *)
(* account is a user at a provider.  Calls run concurrently and hold a     *)
(* lock only while they look something up or store it; the provider's      *)
(* token endpoint (external) may refuse, its answer may be lost, and a     *)
(* refresh may replace the refresh token, which is then of no more use.    *)
(***************************************************************************)
EXTENDS Naturals, FiniteSets

CONSTANTS
  Accounts,     \* pairs of a user and a provider that is configured
  IdCalls,      \* calls that may be under way at once
  MaxFlows,     \* bound: authorizations begun
  MaxIssued,    \* bound: tokens issued
  NoAccount

ASSUME IdentityAssumption ==
  {MaxFlows, MaxIssued} \subseteq Nat /\ NoAccount \notin Accounts

VARIABLES
  known,          \* users that are registered
  tokenOf,        \* per account: the token stored, 0 for none
  flowOf,         \* per state parameter: the account it was made for
  pendingFlows,   \* pending_flows
  oldFlows,       \* those over FLOW_EXPIRY_SECONDS
  idCall,         \* per call: how far it is, its account, its flow, its tokens
  issuedTo,       \* per token: the account it was issued to (history)
  replaced,       \* refresh tokens that are of no more use
  exchanges,      \* per flow: codes exchanged (history)
  clouded         \* accounts with crossing calls or a lost answer (history)

identityVars == <<known, tokenOf, flowOf, pendingFlows, oldFlows, idCall, issuedTo,
                  replaced, exchanges, clouded>>

IdCall(step, a, f, used, got) ==
  [step |-> step, account |-> a, flow |-> f, used |-> used, got |-> got]
NoIdCall == IdCall("idle", NoAccount, 0, 0, 0)
AnsweredWith(call, got) == IdCall("answered", call.account, call.flow, call.used, got)
IdUsers == {a[1] : a \in Accounts}
Flows == 1 .. MaxFlows
Issued == {n \in 1 .. MaxIssued : issuedTo[n] # NoAccount}
NewToken == Cardinality(Issued) + 1

IdentityInit ==
  /\ known = {} /\ tokenOf = [a \in Accounts |-> 0]
  /\ flowOf = [f \in Flows |-> NoAccount] /\ pendingFlows = {} /\ oldFlows = {}
  /\ idCall = [c \in IdCalls |-> NoIdCall]
  /\ issuedTo = [n \in 1 .. MaxIssued |-> NoAccount] /\ replaced = {}
  /\ exchanges = [f \in Flows |-> 0] /\ clouded = {}

IdAt(c, step) == idCall[c].step = step
IdTo(c, call) == idCall' = [idCall EXCEPT ![c] = call]
IdOver(c) == IdTo(c, NoIdCall)
\* Begins or goes on with account a: is another call at it?
Crosses(c, a) == IF \E d \in IdCalls \ {c} : idCall[d].account = a
                 THEN clouded \cup {a} ELSE clouded

RegisterUser(u) ==
  /\ u \notin known /\ known' = known \cup {u}
  /\ UNCHANGED <<tokenOf, flowOf, pendingFlows, oldFlows, idCall, issuedTo, replaced,
                 exchanges, clouded>>

\* Whoever asks gets a state parameter, registered or not.
StartFlow(a) ==
  /\ \E f \in Flows :
       /\ flowOf[f] = NoAccount /\ \A g \in 1 .. (f - 1) : flowOf[g] # NoAccount
       /\ flowOf' = [flowOf EXCEPT ![f] = a] /\ pendingFlows' = pendingFlows \cup {f}
  /\ UNCHANGED <<known, tokenOf, oldFlows, idCall, issuedTo, replaced, exchanges, clouded>>

FlowAges(f) ==
  /\ f \in pendingFlows \ oldFlows /\ oldFlows' = oldFlows \cup {f}
  /\ UNCHANGED <<known, tokenOf, flowOf, pendingFlows, idCall, issuedTo, replaced, exchanges,
                 clouded>>

\* Mutant: the flow is only looked up, and stays for the next callback.
TakeFlowKeeps(f) == f \in pendingFlows /\ UNCHANGED pendingFlows
TakeFlow(f) == f \in pendingFlows /\ pendingFlows' = pendingFlows \ {f}

\* complete_oauth_flow: the flow is taken out at once, and refused when old.
BeginComplete(c, f) ==
  /\ IdAt(c, "idle") /\ TakeFlow(f)
  /\ IF f \in oldFlows THEN IdOver(c) /\ UNCHANGED clouded
     ELSE LET a == flowOf[f]
          IN  /\ IdTo(c, IdCall("exchange", a, f, 0, 0))
              /\ clouded' = Crosses(c, a)
  /\ UNCHANGED <<known, tokenOf, flowOf, oldFlows, issuedTo, replaced, exchanges>>

\* refresh_token: of a registered user, with the token that is stored now.
BeginRefresh(c, a) ==
  /\ IdAt(c, "idle") /\ a[1] \in known /\ tokenOf[a] # 0
  /\ IdTo(c, IdCall("refresh", a, 0, tokenOf[a], 0))
  /\ clouded' = Crosses(c, a)
  /\ UNCHANGED <<known, tokenOf, flowOf, pendingFlows, oldFlows, issuedTo, replaced, exchanges>>

\* The endpoint: a code is good once, which the flow stands for; a refresh
\* token until it is replaced.
ExchangeCode(c) ==
  /\ IdAt(c, "exchange") /\ NewToken <= MaxIssued
  /\ exchanges' = [exchanges EXCEPT ![idCall[c].flow] = @ + 1]
  /\ issuedTo' = [issuedTo EXCEPT ![NewToken] = idCall[c].account]
  /\ IdTo(c, AnsweredWith(idCall[c], NewToken))
  /\ UNCHANGED <<known, tokenOf, flowOf, pendingFlows, oldFlows, replaced, clouded>>

RotateToken(c) ==
  /\ IdAt(c, "refresh") /\ idCall[c].used \notin replaced /\ NewToken <= MaxIssued
  /\ issuedTo' = [issuedTo EXCEPT ![NewToken] = idCall[c].account]
  /\ replaced' = replaced \cup {idCall[c].used}
  /\ IdTo(c, AnsweredWith(idCall[c], NewToken))
  /\ UNCHANGED <<known, tokenOf, flowOf, pendingFlows, oldFlows, exchanges, clouded>>

\* Without rotation the answer names no refresh token.
ExtendToken(c) ==
  /\ IdAt(c, "refresh") /\ idCall[c].used \notin replaced
  /\ IdTo(c, AnsweredWith(idCall[c], 0))
  /\ UNCHANGED <<known, tokenOf, flowOf, pendingFlows, oldFlows, issuedTo, replaced, exchanges,
                 clouded>>

\* Refused, unreachable, or answered with something else.
EndpointFails(c) ==
  /\ idCall[c].step \in {"exchange", "refresh"} /\ IdOver(c)
  /\ UNCHANGED <<known, tokenOf, flowOf, pendingFlows, oldFlows, issuedTo, replaced, exchanges,
                 clouded>>
\* The answer does not arrive, or the caller goes away before it is stored.
AnswerDropped(c) ==
  /\ IdAt(c, "answered") /\ IdOver(c) /\ clouded' = clouded \cup {idCall[c].account}
  /\ UNCHANGED <<known, tokenOf, flowOf, pendingFlows, oldFlows, issuedTo, replaced, exchanges>>

\* Mutant: the refresh token that was used is preferred to the new one.
NewRefreshUsed(c) == IF idCall[c].used # 0 THEN idCall[c].used ELSE idCall[c].got
\* The refresh token of the answer, or the one that was used.
NewRefresh(c) == IF idCall[c].got # 0 THEN idCall[c].got ELSE idCall[c].used

\* The token is stored if the user is registered; the caller gets it anyway.
StoreToken(c) ==
  /\ IdAt(c, "answered") /\ IdOver(c)
  /\ LET a == idCall[c].account
     IN  tokenOf' = IF a[1] \in known THEN [tokenOf EXCEPT ![a] = NewRefresh(c)] ELSE tokenOf
  /\ UNCHANGED <<known, flowOf, pendingFlows, oldFlows, issuedTo, replaced, exchanges, clouded>>

IdentityStep(c) ==
  \/ \E f \in Flows : BeginComplete(c, f)
  \/ \E a \in Accounts : BeginRefresh(c, a)
  \/ ExchangeCode(c) \/ RotateToken(c) \/ ExtendToken(c) \/ EndpointFails(c)
  \/ AnswerDropped(c) \/ StoreToken(c)
IdentityNext ==
  \/ \E u \in IdUsers : RegisterUser(u)
  \/ \E a \in Accounts : StartFlow(a)
  \/ \E f \in Flows : FlowAges(f)
  \/ \E c \in IdCalls : IdentityStep(c)

-----------------------------------------------------------------------------
\* Every variable keeps its type.
IdentityTypeOK ==
  /\ known \subseteq IdUsers /\ tokenOf \in [Accounts -> 0 .. MaxIssued]
  /\ flowOf \in [Flows -> Accounts \cup {NoAccount}]
  /\ pendingFlows \cup oldFlows \subseteq Flows
  /\ \A c \in IdCalls :
       /\ idCall[c].step \in {"idle", "exchange", "refresh", "answered"}
       /\ idCall[c].account \in Accounts \cup {NoAccount}
  /\ issuedTo \in [1 .. MaxIssued -> Accounts \cup {NoAccount}]
  /\ replaced \subseteq Issued /\ exchanges \in [Flows -> Nat] /\ clouded \subseteq Accounts

\* However callbacks are repeated, the code of an authorization is exchanged
\* once; an account has a token that was issued to it; and but for calls that
\* cross and answers that are lost it is one the provider still takes.
IdentitySound ==
  /\ \A f \in Flows : exchanges[f] <= 1
  /\ \A a \in Accounts : tokenOf[a] # 0 => issuedTo[tokenOf[a]] = a
  /\ \A a \in Accounts \ clouded :
       tokenOf[a] \in replaced => \E c \in IdCalls : idCall[c].account = a
=============================================================================
