------------------------------- MODULE MCParts --------------------------------
(***************************************************************************)
(* The components that share nothing with each other, checked in one run:  *)
(* a behaviour of PartsSpec is a behaviour of one of them, named by part,  *)
(* while the others rest.                                                  *)
(***************************************************************************)
EXTENDS Channels_proofs, Parts_proofs, Stores_proofs

CONSTANTS m1, m2, m3, m4, ca, cb, na, f1, u1, u2

ChatOfMsg == [m \in Msgs |-> IF m \in {m1, m2} THEN ca ELSE cb]
\* The other name is that of a replica.
NamesUnder == {p \in Names \X Names : p[1] = p[2] \/ p[2] = na}
NoneConfigured == <<>>
UserAccounts == {<<u1, "provider">>, <<u2, "provider">>}
FirstFile == [e \in MdEntries |-> f1]

VARIABLE part

Parts == {"remote", "failover", "delegation", "decomposition", "sessions", "executor",
          "context", "lambda", "mcp", "oauth", "vault", "rpc",
          "pool", "recovery", "stream", "queen", "runqueue", "browser",
          "orchestrator", "quota", "requests", "splitter", "poll", "allowlist",
          "codex", "markdown", "tui", "daemon", "identity", "heartbeat",
          "shell", "keys", "wire", "credentials"}

\* Where a component has many initial states the others start with one of them.
Pinned ==
  /\ part # "executor" => calls = [i \in Batch |-> [tool |-> "shell", paths |-> {}]]
  /\ part # "lambda" => /\ entries = [i \in Ranks |-> [explicit |-> FALSE, level |-> 0]]
                        /\ lambdaMax = MinEntry
  /\ part # "decomposition" => deps = [t \in SubTasks |-> {}]
  /\ part # "splitter" => longText = <<>>
  /\ part # "markdown" => blocks = [f \in MdFiles |-> <<>>]
  /\ part # "tui" => screen = "onboarding"
  /\ part # "daemon" => hasKeys = TRUE
  /\ part # "heartbeat" => checklist = TRUE
  /\ part # "shell" => runner = "host" /\ input = [left |-> 0, inPipe |-> 0]
  /\ part # "wire" => wire = "openai"

PartsInit ==
  /\ part \in Parts /\ Pinned
  /\ RemoteInit
  /\ FailoverInit
  /\ DelegationInit
  /\ DecompositionInit
  /\ SessionsInit
  /\ ExecutorInit
  /\ ContextInit
  /\ LambdaInit
  /\ McpInit
  /\ OauthInit
  /\ VaultInit
  /\ RpcInit
  /\ PoolInit
  /\ RecoveryInit
  /\ StreamInit
  /\ QueenInit
  /\ RunQueueInit
  /\ BrowserInit
  /\ OrchestratorInit
  /\ QuotaInit
  /\ RequestsInit
  /\ SplitterInit
  /\ PollInit
  /\ AllowlistInit
  /\ CodexInit
  /\ MarkdownInit
  /\ TuiInit
  /\ DaemonInit
  /\ IdentityInit
  /\ HeartbeatInit
  /\ ShellInit
  /\ KeysInit
  /\ WireInit
  /\ CredInit

\* The steps of one component.
PartsNext ==
  /\ UNCHANGED part
  /\ IF part = "remote" THEN RemoteNext ELSE UNCHANGED remoteVars
  /\ IF part = "failover" THEN FailoverNext ELSE UNCHANGED failoverVars
  /\ IF part = "delegation" THEN DelegationNext ELSE UNCHANGED delegationVars
  /\ IF part = "decomposition" THEN DecompositionNext ELSE UNCHANGED decompositionVars
  /\ IF part = "sessions" THEN SessionsNext ELSE UNCHANGED sessionsVars
  /\ IF part = "executor" THEN ExecutorNext ELSE UNCHANGED executorVars
  /\ IF part = "context" THEN ContextNext ELSE UNCHANGED contextVars
  /\ IF part = "lambda" THEN LambdaNext ELSE UNCHANGED lambdaVars
  /\ IF part = "mcp" THEN McpNext ELSE UNCHANGED mcpVars
  /\ IF part = "oauth" THEN OauthNext ELSE UNCHANGED oauthVars
  /\ IF part = "vault" THEN VaultNext ELSE UNCHANGED vaultVars
  /\ IF part = "rpc" THEN RpcNext ELSE UNCHANGED rpcVars
  /\ IF part = "pool" THEN PoolNext ELSE UNCHANGED poolVars
  /\ IF part = "recovery" THEN RecoveryNext ELSE UNCHANGED recoveryVars
  /\ IF part = "stream" THEN StreamNext ELSE UNCHANGED streamVars
  /\ IF part = "queen" THEN QueenNext ELSE UNCHANGED queenVars
  /\ IF part = "runqueue" THEN RunQueueNext ELSE UNCHANGED runQueueVars
  /\ IF part = "browser" THEN BrowserNext ELSE UNCHANGED browserVars
  /\ IF part = "orchestrator" THEN OrchestratorNext ELSE UNCHANGED orchestratorVars
  /\ IF part = "quota" THEN QuotaNext ELSE UNCHANGED quotaVars
  /\ IF part = "requests" THEN RequestsNext ELSE UNCHANGED requestsVars
  /\ IF part = "splitter" THEN SplitterNext ELSE UNCHANGED splitterVars
  /\ IF part = "poll" THEN PollNext ELSE UNCHANGED pollVars
  /\ IF part = "allowlist" THEN AllowlistNext ELSE UNCHANGED allowlistVars
  /\ IF part = "codex" THEN CodexNext ELSE UNCHANGED codexVars
  /\ IF part = "markdown" THEN MarkdownNext ELSE UNCHANGED markdownVars
  /\ IF part = "tui" THEN TuiNext ELSE UNCHANGED tuiVars
  /\ IF part = "daemon" THEN DaemonNext ELSE UNCHANGED daemonVars
  /\ IF part = "identity" THEN IdentityNext ELSE UNCHANGED identityVars
  /\ IF part = "heartbeat" THEN HeartbeatNext ELSE UNCHANGED heartbeatVars
  /\ IF part = "shell" THEN ShellNext ELSE UNCHANGED shellVars
  /\ IF part = "keys" THEN KeysNext ELSE UNCHANGED keysVars
  /\ IF part = "wire" THEN WireNext ELSE UNCHANGED wireVars
  /\ IF part = "credentials" THEN CredNext ELSE UNCHANGED credVars

partsVars == <<part, remoteVars, failoverVars, delegationVars, decompositionVars,
               sessionsVars, executorVars, contextVars, lambdaVars, mcpVars,
               oauthVars, vaultVars, rpcVars, poolVars, recoveryVars,
               streamVars, queenVars, runQueueVars, browserVars,
               orchestratorVars, quotaVars, requestsVars, splitterVars,
               pollVars, allowlistVars, codexVars, markdownVars, tuiVars,
               daemonVars, identityVars, heartbeatVars, shellVars, keysVars,
               wireVars, credVars>>

PartsSpec == PartsInit /\ [][PartsNext]_partsVars

-----------------------------------------------------------------------------
\* Every variable of every component keeps its type.
PartsTypeOK ==
  /\ part = "remote" => RemoteTypeOK
  /\ part = "failover" => FailoverTypeOK
  /\ part = "delegation" => DelegationTypeOK
  /\ part = "decomposition" => DecompositionTypeOK
  /\ part = "sessions" => SessionsTypeOK
  /\ part = "executor" => ExecutorTypeOK
  /\ part = "context" => ContextTypeOK
  /\ part = "lambda" => LambdaTypeOK
  /\ part = "mcp" => McpTypeOK
  /\ part = "oauth" => OauthTypeOK
  /\ part = "vault" => VaultTypeOK
  /\ part = "rpc" => RpcTypeOK
  /\ part = "pool" => PoolTypeOK
  /\ part = "recovery" => RecoveryTypeOK
  /\ part = "stream" => StreamTypeOK
  /\ part = "queen" => QueenTypeOK
  /\ part = "runqueue" => RunQueueTypeOK
  /\ part = "browser" => BrowserTypeOK
  /\ part = "orchestrator" => OrchestratorTypeOK
  /\ part = "quota" => QuotaTypeOK
  /\ part = "requests" => RequestsTypeOK
  /\ part = "splitter" => SplitterTypeOK
  /\ part = "poll" => PollTypeOK
  /\ part = "allowlist" => AllowlistTypeOK
  /\ part = "codex" => CodexTypeOK
  /\ part = "markdown" => MarkdownTypeOK
  /\ part = "tui" => TuiTypeOK
  /\ part = "daemon" => DaemonTypeOK
  /\ part = "identity" => IdentityTypeOK
  /\ part = "heartbeat" => HeartbeatTypeOK
  /\ part = "shell" => ShellTypeOK
  /\ part = "keys" => KeysTypeOK
  /\ part = "wire" => WireTypeOK
  /\ part = "credentials" => CredTypeOK

\* What two stores have confirmed they keep: a memory that fails over to its
\* cache while one is rewritten, and entries in files that are rewritten whole.
StoresSound == FailoverKeepsAcked /\ EntriesKept

\* A plan in layers and a swarm's table of tasks: nothing waits for what can
\* no longer come, and nothing starts before what it depends on is complete.
PlansSound == GraphSound /\ SwarmSound

\* The doors of the program: who may talk, which messages come in, the
\* sessions they are kept in, and the terminal that takes input while it may.
ChannelsSound == AllowlistKept /\ PollSound /\ SessionsKept /\ TuiSound

\* What runs beside the program is known to it: containers within the limit
\* of their kind, the server the PID file names, and the heartbeat that is
\* silenced by the agent it wakes; and a command has ended, and what it wrote is
\* in its answer, as far as it fits.
ProcessesSound == OrchestratorSound /\ ServerNamed /\ HeartbeatSound /\ ShellSound

\* What goes into a request to the model: the parts within their budgets, with
\* the calls of tools and their results in pairs.
PromptSound == RequestSound /\ LambdaSound /\ RequestsSound

\* MCP servers: one restart for one death, and no call that waits for ever on
\* a connection that is gone.
McpSound == RestartedOnce /\ CallsEnd

\* Texts that come in or go out in pieces: none is lost or shown twice,
\* and a call of a tool is put together from its own pieces.
TextsWhole == StreamWhole /\ SplitSound /\ CodexSound /\ WireSound

\* The tokens of the program and of its users: a refresh token that is used up
\* is never what is kept, a code is exchanged once, and for its user; and keys of
\* providers that were saved are there, and used for their provider.
TokensSound == TokensSafe /\ IdentitySound /\ CredentialsSound

\* What is used up is used in turn: the calls of a day, and the keys of a
\* provider.
LimitsSound == QuotaSound /\ KeysInTurn


-----------------------------------------------------------------------------
(* What is proved of two components together follows from what is proved   *)
(* of each: the steps of the others are none of its own.                   *)

(* No day grants more calls than it has, and no key of a provider is       *)
(* refused twice while another one waits for its turn.                     *)
THEOREM LimitsSoundHolds == PartsSpec => []LimitsSound
<1>1. PartsInit => QuotaInit /\ KeysInit
  BY DEF PartsInit
<1>2. [PartsNext]_partsVars => [QuotaNext]_quotaVars /\ [KeysNext]_keysVars
  BY DEF PartsNext, partsVars
<1>3. PartsSpec => QuotaSpec /\ KeysSpec
  BY <1>1, <1>2, PTL DEF PartsSpec, QuotaSpec, KeysSpec
<1>4. QuotaSound /\ KeysInTurn => LimitsSound
  BY DEF LimitsSound
<1> QED BY <1>3, <1>4, QuotaHolds, KeysInTurnHolds, PTL

(* A server that died is restarted once, and a call of it has an end.      *)
THEOREM McpSoundHolds == PartsSpec => []McpSound
<1>1. PartsInit => McpInit /\ RpcInit
  BY DEF PartsInit
<1>2. [PartsNext]_partsVars => [McpNext]_mcpVars /\ [RpcNext]_rpcVars
  BY DEF PartsNext, partsVars
<1>3. PartsSpec => McpSpec /\ RpcSpec
  BY <1>1, <1>2, PTL DEF PartsSpec, McpSpec, RpcSpec
<1>4. RestartedOnce /\ CallsEnd => McpSound
  BY DEF McpSound
<1> QED BY <1>3, <1>4, RestartedOnceHolds, CallsEndHolds, PTL

(* Containers, the server, the heartbeat and commands, as each is proved.  *)
THEOREM ProcessesSoundHolds == ASSUME SomeManagers PROVE PartsSpec => []ProcessesSound
<1>1. PartsInit => OrchestratorInit /\ DaemonInit /\ HeartbeatInit /\ ShellInit
  BY DEF PartsInit
<1>2. [PartsNext]_partsVars => /\ [OrchestratorNext]_orchestratorVars /\ [DaemonNext]_daemonVars
                               /\ [HeartbeatNext]_heartbeatVars /\ [ShellNext]_shellVars
  BY DEF PartsNext, partsVars
<1>3. PartsSpec => OrchestratorSpec /\ DaemonSpec /\ HeartbeatSpec /\ ShellSpec
  BY <1>1, <1>2, PTL DEF PartsSpec, OrchestratorSpec, DaemonSpec, HeartbeatSpec, ShellSpec
<1>4. OrchestratorSound /\ ServerNamed /\ HeartbeatSound /\ ShellSound => ProcessesSound
  BY DEF ProcessesSound
<1> QED BY <1>3, <1>4, OrchestratorSoundHolds, ServerNamedHolds, HeartbeatSoundHolds, ShellSoundHolds, PTL

(* The allowlist, the messages that come in, the sessions and the terminal *)
(* keep what each is proved to keep.                                       *)
THEOREM ChannelsSoundHolds == PartsSpec => []ChannelsSound
<1>1. PartsInit => AllowlistInit /\ PollInit /\ SessionsInit /\ TuiInit
  BY DEF PartsInit
<1>2. [PartsNext]_partsVars => /\ [AllowlistNext]_allowlistVars /\ [PollNext]_pollVars
                               /\ [SessionsNext]_sessionsVars /\ [TuiNext]_tuiVars
  BY DEF PartsNext, partsVars
<1>3. PartsSpec => /\ AllowlistSpec /\ PollInit /\ [][PollNext]_pollVars /\ SessionsSpec
                   /\ TuiInit /\ [][TuiNext]_tuiVars
  BY <1>1, <1>2, PTL DEF PartsSpec, AllowlistSpec, SessionsSpec
<1>4. AllowlistKept /\ PollSound /\ SessionsKept /\ TuiSound => ChannelsSound
  BY DEF ChannelsSound
<1> QED BY <1>3, <1>4, AllowlistKeptHolds, PollSoundHolds, SessionsKeptHolds, TuiSoundHolds, PTL

(* The memory that fails over, and the files of entries, for one task that *)
(* uses the first.                                                         *)
THEOREM StoresSoundHolds == ASSUME OneTask PROVE PartsSpec => []StoresSound
<1>1. PartsInit => FailoverInit /\ MarkdownInit
  BY DEF PartsInit
<1>2. [PartsNext]_partsVars => [FailoverNext]_failoverVars /\ [MarkdownNext]_markdownVars
  BY DEF PartsNext, partsVars
<1>3. PartsSpec => FailoverSpec /\ MarkdownSpec
  BY <1>1, <1>2, PTL DEF PartsSpec, FailoverSpec, MarkdownSpec
<1>4. FailoverKeepsAcked /\ EntriesKept => StoresSound
  BY DEF StoresSound
<1> QED BY <1>3, <1>4, FailoverKeepsAckedHolds, EntriesKeptHolds, PTL

(* Tokens, identities and credentials, as each is proved.                  *)
THEOREM TokensSoundHolds == PartsSpec => []TokensSound
<1>1. PartsInit => OauthInit /\ IdentityInit /\ CredInit
  BY DEF PartsInit
<1>2. [PartsNext]_partsVars => /\ [OauthNext]_oauthVars /\ [IdentityNext]_identityVars
                               /\ [CredNext]_credVars
  BY DEF PartsNext, partsVars
<1>3. PartsSpec => OauthSpec /\ IdentityInit /\ [][IdentityNext]_identityVars /\ CredSpec
  BY <1>1, <1>2, PTL DEF PartsSpec, OauthSpec, CredSpec
<1>4. TokensSafe /\ IdentitySound /\ CredentialsSound => TokensSound
  BY DEF TokensSound
<1> QED BY <1>3, <1>4, TokensSafeHolds, IdentitySoundHolds, CredentialsSoundHolds, PTL

(* Plans in layers and the swarm's table of tasks, as each is proved.      *)
THEOREM PlansSoundHolds == PartsSpec => []PlansSound
<1>1. PartsInit => DecompositionInit /\ QueenInit
  BY DEF PartsInit
<1>2. [PartsNext]_partsVars => [DecompositionNext]_decompositionVars /\ [QueenNext]_queenVars
  BY DEF PartsNext, partsVars
<1>3. PartsSpec => DecompositionSpec /\ QueenSpec
  BY <1>1, <1>2, PTL DEF PartsSpec, DecompositionSpec, QueenSpec
<1>4. GraphSound /\ SwarmSound => PlansSound
  BY DEF PlansSound
<1> QED BY <1>3, <1>4, GraphSoundHolds, SwarmSoundHolds, PTL

(* Texts that come in or go out in pieces, as each part is proved.         *)
THEOREM TextsWholeHolds == PartsSpec => []TextsWhole
<1>1. PartsInit => StreamInit /\ SplitterInit /\ CodexInit /\ WireInit
  BY DEF PartsInit
<1>2. [PartsNext]_partsVars => /\ [StreamNext]_streamVars /\ [SplitterNext]_splitterVars
                               /\ [CodexNext]_codexVars /\ [WireNext]_wireVars
  BY DEF PartsNext, partsVars
<1>3. PartsSpec => /\ StreamSpec /\ CodexSpec /\ (SplitterInit /\ [][SplitterNext]_splitterVars)
                   /\ (WireInit /\ [][WireNext]_wireVars)
  BY <1>1, <1>2, PTL DEF PartsSpec, StreamSpec, CodexSpec
<1>4. StreamWhole /\ SplitSound /\ CodexSound /\ WireSound => TextsWhole
  BY DEF TextsWhole
<1> QED BY <1>3, <1>4, StreamWholeHolds, SplitSoundHolds, CodexSoundHolds, WireSoundHolds, PTL

(* What goes into a request to the model, as each part is proved.          *)
THEOREM PromptSoundHolds == PartsSpec => []PromptSound
<1>1. PartsInit => ContextInit /\ LambdaInit /\ RequestsInit
  BY DEF PartsInit
<1>2. [PartsNext]_partsVars => /\ [ContextNext]_contextVars /\ [LambdaNext]_lambdaVars
                               /\ [RequestsNext]_requestsVars
  BY DEF PartsNext, partsVars
<1>3. PartsSpec => ContextSpec /\ LambdaSpec /\ RequestsSpec
  BY <1>1, <1>2, PTL DEF PartsSpec, ContextSpec, LambdaSpec, RequestsSpec
<1>4. RequestSound /\ LambdaSound /\ RequestsSound => PromptSound
  BY DEF PromptSound
<1> QED BY <1>3, <1>4, RequestSoundHolds, LambdaSoundHolds, RequestsSoundHolds, PTL

-----------------------------------------------------------------------------
(* The types of the variables: of a few components at a time, and then all. *)
LEMMA TypesHold1 ==
  PartsSpec =>
    [](RemoteTypeOK /\ FailoverTypeOK /\ DelegationTypeOK /\
      DecompositionTypeOK /\ SessionsTypeOK /\ ExecutorTypeOK)
<1>1. PartsInit => /\ RemoteInit
                   /\ FailoverInit
                   /\ DelegationInit
                   /\ DecompositionInit
                   /\ SessionsInit
                   /\ ExecutorInit
  BY DEF PartsInit
<1>2. [PartsNext]_partsVars => /\ [RemoteNext]_remoteVars
                               /\ [FailoverNext]_failoverVars
                               /\ [DelegationNext]_delegationVars
                               /\ [DecompositionNext]_decompositionVars
                               /\ [SessionsNext]_sessionsVars
                               /\ [ExecutorNext]_executorVars
  BY DEF PartsNext, partsVars
<1>3. PartsSpec => /\ RemoteSpec
                   /\ FailoverSpec
                   /\ DelegationSpec
                   /\ DecompositionSpec
                   /\ SessionsSpec
                   /\ ExecutorSpec
  BY <1>1, <1>2, PTL DEF PartsSpec, RemoteSpec, FailoverSpec,
     DelegationSpec, DecompositionSpec, SessionsSpec, ExecutorSpec
<1> QED BY <1>3, RemoteTyped, FailoverTyped, DelegationTyped,
     DecompositionTyped, SessionsTyped, ExecutorTyped, PTL

LEMMA TypesHold2 ==
  ASSUME ServerNames # {}
  PROVE  PartsSpec =>
           [](ContextTypeOK /\ LambdaTypeOK /\ McpTypeOK /\
             OauthTypeOK /\ VaultTypeOK /\ RpcTypeOK)
<1>1. PartsInit => /\ ContextInit
                   /\ LambdaInit
                   /\ McpInit
                   /\ OauthInit
                   /\ VaultInit
                   /\ RpcInit
  BY DEF PartsInit
<1>2. [PartsNext]_partsVars => /\ [ContextNext]_contextVars
                               /\ [LambdaNext]_lambdaVars
                               /\ [McpNext]_mcpVars
                               /\ [OauthNext]_oauthVars
                               /\ [VaultNext]_vaultVars
                               /\ [RpcNext]_rpcVars
  BY DEF PartsNext, partsVars
<1>3. PartsSpec => /\ ContextSpec
                   /\ LambdaSpec
                   /\ McpSpec
                   /\ OauthSpec
                   /\ VaultSpec
                   /\ RpcSpec
  BY <1>1, <1>2, PTL DEF PartsSpec, ContextSpec, LambdaSpec, McpSpec,
     OauthSpec, VaultSpec, RpcSpec
<1> QED BY <1>3, ContextTyped, LambdaTyped, McpTyped, OauthTyped, VaultTyped,
     RpcTyped, PTL

LEMMA TypesHold3 ==
  PartsSpec =>
    [](PoolTypeOK /\ RecoveryTypeOK /\ StreamTypeOK /\
      QueenTypeOK /\ RunQueueTypeOK /\ BrowserTypeOK)
<1>1. PartsInit => /\ PoolInit
                   /\ RecoveryInit
                   /\ StreamInit
                   /\ QueenInit
                   /\ RunQueueInit
                   /\ BrowserInit
  BY DEF PartsInit
<1>2. [PartsNext]_partsVars => /\ [PoolNext]_poolVars
                               /\ [RecoveryNext]_recoveryVars
                               /\ [StreamNext]_streamVars
                               /\ [QueenNext]_queenVars
                               /\ [RunQueueNext]_runQueueVars
                               /\ [BrowserNext]_browserVars
  BY DEF PartsNext, partsVars
<1>3. PartsSpec => /\ PoolSpec
                   /\ RecoverySpec
                   /\ StreamSpec
                   /\ QueenSpec
                   /\ RunQueueSpec
                   /\ BrowserSpec
  BY <1>1, <1>2, PTL DEF PartsSpec, PoolSpec, RecoverySpec, StreamSpec,
     QueenSpec, RunQueueSpec, BrowserSpec
<1> QED BY <1>3, PoolTyped, RecoveryTyped, StreamTyped, QueenTyped,
     RunQueueTyped, BrowserTyped, PTL

LEMMA TypesHold4 ==
  ASSUME SomeManagers
  PROVE  PartsSpec =>
           [](OrchestratorTypeOK /\ QuotaTypeOK /\ RequestsTypeOK /\
             SplitterTypeOK /\ PollTypeOK /\ AllowlistTypeOK)
<1>1. PartsInit => /\ OrchestratorInit
                   /\ QuotaInit
                   /\ RequestsInit
                   /\ SplitterInit
                   /\ PollInit
                   /\ AllowlistInit
  BY DEF PartsInit
<1>2. [PartsNext]_partsVars => /\ [OrchestratorNext]_orchestratorVars
                               /\ [QuotaNext]_quotaVars
                               /\ [RequestsNext]_requestsVars
                               /\ [SplitterNext]_splitterVars
                               /\ [PollNext]_pollVars
                               /\ [AllowlistNext]_allowlistVars
  BY DEF PartsNext, partsVars
<1>3. PartsSpec => /\ OrchestratorSpec
                   /\ QuotaSpec
                   /\ RequestsSpec
                   /\ (SplitterInit /\ [][SplitterNext]_splitterVars)
                   /\ (PollInit /\ [][PollNext]_pollVars)
                   /\ AllowlistSpec
  BY <1>1, <1>2, PTL DEF PartsSpec, OrchestratorSpec, QuotaSpec,
     RequestsSpec, AllowlistSpec
<1> QED BY <1>3, OrchestratorTyped, QuotaTyped, RequestsTyped, SplitterTyped,
     PollTyped, AllowlistTyped, PTL

LEMMA TypesHold5 ==
  PartsSpec =>
    [](CodexTypeOK /\ MarkdownTypeOK /\ TuiTypeOK /\
      DaemonTypeOK /\ IdentityTypeOK /\ HeartbeatTypeOK)
<1>1. PartsInit => /\ CodexInit
                   /\ MarkdownInit
                   /\ TuiInit
                   /\ DaemonInit
                   /\ IdentityInit
                   /\ HeartbeatInit
  BY DEF PartsInit
<1>2. [PartsNext]_partsVars => /\ [CodexNext]_codexVars
                               /\ [MarkdownNext]_markdownVars
                               /\ [TuiNext]_tuiVars
                               /\ [DaemonNext]_daemonVars
                               /\ [IdentityNext]_identityVars
                               /\ [HeartbeatNext]_heartbeatVars
  BY DEF PartsNext, partsVars
<1>3. PartsSpec => /\ CodexSpec
                   /\ MarkdownSpec
                   /\ (TuiInit /\ [][TuiNext]_tuiVars)
                   /\ DaemonSpec
                   /\ (IdentityInit /\ [][IdentityNext]_identityVars)
                   /\ HeartbeatSpec
  BY <1>1, <1>2, PTL DEF PartsSpec, CodexSpec, MarkdownSpec, DaemonSpec, HeartbeatSpec
<1> QED BY <1>3, CodexTyped, MarkdownTyped, TuiTyped, DaemonTyped,
     IdentityTyped, HeartbeatTyped, PTL

LEMMA TypesHold6 ==
  PartsSpec =>
    [](ShellTypeOK /\ KeysTypeOK /\ WireTypeOK /\
      CredTypeOK)
<1>1. PartsInit => /\ ShellInit
                   /\ KeysInit
                   /\ WireInit
                   /\ CredInit
  BY DEF PartsInit
<1>2. [PartsNext]_partsVars => /\ [ShellNext]_shellVars
                               /\ [KeysNext]_keysVars
                               /\ [WireNext]_wireVars
                               /\ [CredNext]_credVars
  BY DEF PartsNext, partsVars
<1>3. PartsSpec => /\ ShellSpec
                   /\ KeysSpec
                   /\ (WireInit /\ [][WireNext]_wireVars)
                   /\ CredSpec
  BY <1>1, <1>2, PTL DEF PartsSpec, ShellSpec, KeysSpec, CredSpec
<1> QED BY <1>3, ShellTyped, KeysTyped, WireTyped, CredTyped, PTL

(* Every variable of every component keeps its type, for any number of     *)
(* writers, tasks, requests and files.  The managers of containers are     *)
(* finitely many and there is one; a worker of the MCP manager that rests  *)
(* holds the name of some server, so there is one too.                     *)
THEOREM PartsTypesHold ==
  ASSUME SomeManagers, ServerNames # {}
  PROVE  PartsSpec => []PartsTypeOK
<1>1. /\ RemoteTypeOK /\ FailoverTypeOK /\ DelegationTypeOK
      /\ DecompositionTypeOK /\ SessionsTypeOK /\ ExecutorTypeOK
      /\ ContextTypeOK /\ LambdaTypeOK /\ McpTypeOK
      /\ OauthTypeOK /\ VaultTypeOK /\ RpcTypeOK
      /\ PoolTypeOK /\ RecoveryTypeOK /\ StreamTypeOK
      /\ QueenTypeOK /\ RunQueueTypeOK /\ BrowserTypeOK
      /\ OrchestratorTypeOK /\ QuotaTypeOK /\ RequestsTypeOK
      /\ SplitterTypeOK /\ PollTypeOK /\ AllowlistTypeOK
      /\ CodexTypeOK /\ MarkdownTypeOK /\ TuiTypeOK
      /\ DaemonTypeOK /\ IdentityTypeOK /\ HeartbeatTypeOK
      /\ ShellTypeOK /\ KeysTypeOK /\ WireTypeOK
      /\ CredTypeOK
      => PartsTypeOK
  BY DEF PartsTypeOK
<1> QED BY <1>1, TypesHold1, TypesHold2, TypesHold3, TypesHold4, TypesHold5,
     TypesHold6, PTL
=============================================================================
