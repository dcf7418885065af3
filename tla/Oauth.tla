--------------------------------- MODULE Oauth ---------------------------------
(***************************************************************************)
(* TokenStore of crates/electro-codex-oauth/src/token_store.rs: callers    *)
(* that need an access token, the mutex around its refresh, the file, and  *)
(* the token endpoint, which gives a refresh token out once and refuses    *)
(* one that was used (external).  Tokens are numbered as they are issued.  *)
(* An answer may be lost, a save may fail or leave a file cut short, a     *)
(* caller may be cancelled and the process may stop and start again.       *)
(***************************************************************************)
EXTENDS Naturals, FiniteSets

CONSTANTS
  TokenUsers,
  MaxTokens,    \* bound: tokens issued
  NoUser

ASSUME OauthAssumption == NoUser \notin TokenUsers /\ MaxTokens \in Nat \ {0}

VARIABLES
  memToken,    \* the tokens in the mutex, NoTokens when load() has failed
  fileToken,   \* the tokens in oauth.json, NoTokens when it cannot be read
  issued,      \* the endpoint's latest refresh token
  stale,       \* tokens whose expiry is near
  holder,      \* who has the mutex
  userStep,    \* per caller
  received,    \* per caller: the token it was answered with
  lost,        \* a token the endpoint answered with did not get, or stay, in the file (history)
  reused       \* the endpoint was shown a token it had replaced (history)

oauthVars == <<memToken, fileToken, issued, stale, holder, userStep, received, lost, reused>>

OauthInit ==
  /\ memToken = 1 /\ fileToken = 1 /\ issued = 1 /\ stale = {} /\ holder = NoUser
  /\ userStep = [u \in TokenUsers |-> "idle"] /\ received = [u \in TokenUsers |-> 0]
  /\ lost = FALSE /\ reused = FALSE

NoTokens == 0
UserAt(u, place) == userStep[u] = place
UserTo(u, place) == userStep' = [userStep EXCEPT ![u] = place]
GiveBack(u) == holder' = (IF holder = u THEN NoUser ELSE holder) /\ UserTo(u, "idle")

\* Mutant: without the mutex.
AskShared(u) ==
  /\ UserAt(u, "idle") /\ memToken \in stale
  /\ UserTo(u, "post") /\ UNCHANGED <<memToken, fileToken, issued, stale, holder, received, lost, reused>>

\* get_access_token: under the mutex a fresh token is returned at once.
Ask(u) ==
  /\ UserAt(u, "idle") /\ holder = NoUser /\ memToken \in stale
  /\ holder' = u /\ UserTo(u, "post")
  /\ UNCHANGED <<memToken, fileToken, issued, stale, received, lost, reused>>

\* The endpoint takes the refresh token and answers, with a new one or, if it
\* does not rotate them, the same with a later expiry; or it refuses.
Refreshed(u) ==
  /\ UserAt(u, "post") /\ memToken = issued /\ issued < MaxTokens
  /\ issued' = issued + 1 /\ received' = [received EXCEPT ![u] = issued + 1]
  /\ UserTo(u, "save")
  /\ UNCHANGED <<memToken, fileToken, stale, holder, lost, reused>>
Renewed(u) ==
  /\ UserAt(u, "post") /\ memToken = issued /\ received' = [received EXCEPT ![u] = memToken]
  /\ UserTo(u, "save")
  /\ UNCHANGED <<memToken, fileToken, issued, stale, holder, lost, reused>>
Refused(u) ==
  /\ UserAt(u, "post") /\ GiveBack(u)
  /\ reused' = (reused \/ memToken # issued)
  /\ UNCHANGED <<memToken, fileToken, issued, stale, received, lost>>

\* The request or its answer is lost, or the caller is dropped while it waits.
NoAnswer(u) ==
  /\ UserAt(u, "post") /\ GiveBack(u)
  /\ \/ UNCHANGED <<issued, lost>>
     \/ memToken = issued /\ issued < MaxTokens /\ issued' = issued + 1 /\ lost' = TRUE
  /\ UNCHANGED <<memToken, fileToken, stale, received, reused>>

\* Mutant: the file is left to a later save.
SaveLater(u) ==
  /\ UserAt(u, "save") /\ GiveBack(u)
  /\ memToken' = received[u] /\ stale' = stale \ {received[u]}
  /\ received' = [received EXCEPT ![u] = 0]
  /\ UNCHANGED <<fileToken, issued, lost, reused>>

\* save_to_disk, and only then the tokens in memory.  fs::write cuts the file
\* to nothing before it writes: one that fails may leave it so.
Saved(u) ==
  /\ UserAt(u, "save") /\ GiveBack(u)
  /\ fileToken' = received[u] /\ memToken' = received[u] /\ stale' = stale \ {received[u]}
  /\ received' = [received EXCEPT ![u] = 0]
  /\ UNCHANGED <<issued, lost, reused>>
SaveFails(u) ==
  /\ UserAt(u, "save") /\ GiveBack(u) /\ fileToken' \in {fileToken, NoTokens}
  /\ lost' = (lost \/ received[u] # fileToken')
  /\ received' = [received EXCEPT ![u] = 0]
  /\ UNCHANGED <<memToken, issued, stale, reused>>

ExpiryNears ==
  /\ holder = NoUser /\ memToken \notin stale \cup {NoTokens} /\ stale' = stale \cup {memToken}
  /\ UNCHANGED <<memToken, fileToken, issued, holder, userStep, received, lost, reused>>

\* The process stops, in the middle of a save perhaps, and starts again with
\* load(), which fails on a file that was cut: there is no store until a login.
Restarted ==
  /\ fileToken' \in {fileToken} \cup {NoTokens : u \in {v \in TokenUsers : UserAt(v, "save")}}
  /\ memToken' = fileToken' /\ holder' = NoUser
  /\ userStep' = [u \in TokenUsers |-> "idle"] /\ received' = [u \in TokenUsers |-> 0]
  /\ lost' = (lost \/ \E u \in TokenUsers : received[u] \notin {0, fileToken'})
  /\ UNCHANGED <<issued, stale, reused>>

OauthNext ==
  \/ \E u \in TokenUsers : Ask(u) \/ Refreshed(u) \/ Renewed(u) \/ Refused(u) \/ NoAnswer(u)
                           \/ Saved(u) \/ SaveFails(u)
  \/ ExpiryNears \/ Restarted

OauthSpec == OauthInit /\ [][OauthNext]_oauthVars

-----------------------------------------------------------------------------
\* Every variable keeps its type.
OauthTypeOK ==
  /\ {memToken, fileToken} \subseteq {NoTokens} \cup 1 .. MaxTokens /\ issued \in 1 .. MaxTokens
  /\ stale \subseteq 1 .. MaxTokens /\ holder \in TokenUsers \cup {NoUser}
  /\ userStep \in [TokenUsers -> {"idle", "post", "save"}]
  /\ received \in [TokenUsers -> 0 .. MaxTokens] /\ lost \in BOOLEAN /\ reused \in BOOLEAN

\* As long as every answer comes through and no save is cut short, callers at
\* the same time and restarts never make the store show a used refresh token.
NotReusedUnlessLost == ~lost => ~reused

\* As long as nothing was lost, the file holds the token the endpoint expects
\* next, or some caller has just received that token and is about to save it.
FileIsCurrent == ~lost => fileToken = issued \/ \E u \in TokenUsers : received[u] = issued

\* Both: the one refresh token that is good is used once and is in the file.
TokensSafe == NotReusedUnlessLost /\ FileIsCurrent
=============================================================================
