------------------------------ MODULE Credentials -------------------------------
(***************************************************************************)
(* credentials.toml of crates/electro-core/src/config/credentials.rs,      *)
(* which the wizard of the terminal writes (save_credentials) while chats  *)
(* of the server run /model and /removekey (src/app/cli.rs) on it, each    *)
(* with a copy read before; and the agent the server runs with what it     *)
(* read.  A write empties the file first.                                  *)
(***************************************************************************)
EXTENDS Naturals, Sequences, FiniteSets, SequencesExt

CONSTANTS
  CredChats,   \* chats of the server that send commands
  WizardProc,      \* the wizard, a process of its own
  Vendors,     \* names of providers
  FirstVendor, \* the one that is configured at first
  NoVendor,
  MaxKeys,     \* bound: keys of a provider
  MaxCommandsRun,   \* bound: commands and runs of the wizard
  MaxBoots     \* bound: starts of the server

ASSUME CredentialsAssumption ==
  /\ IsFiniteSet(CredChats) /\ WizardProc \notin CredChats
  /\ FirstVendor \in Vendors /\ NoVendor \notin Vendors
  /\ MaxKeys \in Nat \ {0} /\ MaxCommandsRun \in Nat /\ MaxBoots \in Nat \ {0}

VARIABLES
  credFile,    \* the file as load_credentials_file reads it; NoCreds for none
  credCmd,     \* per writer: how far its command is, what it is for, its copy
  agentHas,    \* the agent: provider, model, keys
  activeName,  \* active_provider
  boot,        \* the start of the server: "read", "keys", "up"; and what it has read
  commandsRun,      \* commands so far
  boots,       \* starts so far
  keptKeys,    \* keys whose save was answered, not removed since (history)
  chosen,      \* provider and model last answered to be persisted (history)
  clean,       \* no two writers overlapped, and no write was cut (history)
  switchesMet  \* two switches overlapped (history)

credVars == <<credFile, credCmd, agentHas, activeName, boot, commandsRun, boots,
              keptKeys, chosen, clean, switchesMet>>

CredWriters == CredChats \cup {WizardProc}
ModelIds == 1 .. 2
KeysOf(p) == {<<p, n>> : n \in 1 .. MaxKeys}
AllKeys == UNION {KeysOf(p) : p \in Vendors}
NoCreds == [active |-> NoVendor, entries |-> <<>>]
NoAgent == [provider |-> NoVendor, model |-> 0, keys |-> <<>>]
NoCommand == [at |-> "idle", op |-> "none", want |-> NoAgent, persist |-> FALSE, copy |-> NoCreds]
Away(w) == credCmd[w].at = "idle"
CommandAt(w, place) == credCmd[w].at = place
Does(w, place) == credCmd' = [credCmd EXCEPT ![w].at = place]
AnswersCmd(w) == credCmd' = [credCmd EXCEPT ![w] = NoCommand]

\* Between its reading of the file and its writing.
Editing(w) == credCmd[w].at \in {"truncate", "write"}
Edits(w, c) ==
  credCmd' = [credCmd EXCEPT ![w] = [at |-> "truncate", op |-> @.op, want |-> @.want,
                                     persist |-> @.persist, copy |-> c]]
Overlap == \E v \in CredWriters : Editing(v)

Has(c, p) == \E i \in DOMAIN c.entries : c.entries[i].name = p
\* The first of that name.
Find(c, p) ==
  c.entries[CHOOSE i \in DOMAIN c.entries :
              /\ c.entries[i].name = p
              /\ \A j \in DOMAIN c.entries : c.entries[j].name = p => i <= j]
\* retain
Others(c, p) ==
  LET s == c.entries
      keep == {e \in Range(s) : e.name # p}
      kept[n \in 0 .. Len(s)] ==
        IF n = 0 THEN <<>>
        ELSE IF s[n] \in keep THEN Append(kept[n - 1], s[n]) ELSE kept[n - 1]
  IN  kept[Len(s)]

\* Mutant: the new key takes the place of the others.
WithKeyOnly(c, p, k, m) ==
  [active  |-> p,
   entries |-> Append(Others(c, p), [name |-> p, keys |-> <<k>>, model |-> m])]
\* save_credentials: an entry is the provider's if its base_url is the one given,
\* too; every caller gives none, and the entries here have none.
WithKey(c, p, k, m) ==
  [active  |-> p,
   entries |->
     IF Has(c, p)
     THEN [i \in DOMAIN c.entries |->
             LET e == c.entries[i]
             IN  IF e.name # p THEN e
                 ELSE [name |-> p, model |-> m,
                       keys |-> IF Contains(e.keys, k) THEN e.keys ELSE Append(e.keys, k)]]
     ELSE Append(c.entries, [name |-> p, keys |-> <<k>>, model |-> m])]

\* Mutant: the provider stays the active one.
WithoutVendorButActive(c, p) == [c EXCEPT !.entries = Others(c, p)]
\* remove_provider
WithoutVendor(c, p) ==
  [entries |-> Others(c, p),
   active  |-> IF c.active # p THEN c.active
               ELSE IF Others(c, p) = <<>> THEN NoVendor ELSE Head(Others(c, p)).name]
\* persist_model_selection
WithModel(c, p, m) ==
  [active  |-> p,
   entries |-> [i \in DOMAIN c.entries |->
                  IF c.entries[i].name = p THEN [c.entries[i] EXCEPT !.model = m]
                  ELSE c.entries[i]]]

\* The active provider, or the first.
ActiveOf(c) == IF Has(c, c.active) THEN Find(c, c.active) ELSE Head(c.entries)

FirstKey == <<FirstVendor, 1>>
CredInit ==
  /\ credFile = [active |-> FirstVendor,
                 entries |-> <<[name |-> FirstVendor, keys |-> <<FirstKey>>, model |-> 1]>>]
  /\ credCmd = [w \in CredWriters |-> NoCommand]
  /\ agentHas = NoAgent /\ activeName = NoVendor /\ boot = [at |-> "read", got |-> NoAgent]
  /\ commandsRun = 0 /\ boots = 1
  /\ keptKeys = {FirstKey} /\ chosen = [provider |-> FirstVendor, model |-> 1]
  /\ clean = TRUE /\ switchesMet = FALSE

-----------------------------------------------------------------------------
(* The start of the server reads the file twice: resolve_credentials, then *)
(* build_provider_config.                                                  *)

BootRead ==
  /\ boot.at = "read"
  /\ boot' = IF credFile.entries = <<>> THEN [at |-> "up", got |-> NoAgent]
             ELSE LET e == ActiveOf(credFile)
                  IN  [at |-> "keys",
                       got |-> [provider |-> e.name, model |-> e.model, keys |-> <<Head(e.keys)>>]]
  /\ UNCHANGED <<credFile, credCmd, agentHas, activeName, commandsRun, boots, keptKeys,
                 chosen, clean, switchesMet>>

\* Mutant: whatever provider it is the keys of.
KeysOfAny(got) == IF credFile.entries = <<>> THEN got.keys ELSE ActiveOf(credFile).keys
\* The keys of the active provider, if that is still the same.
KeysFor(got) ==
  IF credFile.entries # <<>> /\ ActiveOf(credFile).name = got.provider
  THEN ActiveOf(credFile).keys
  ELSE got.keys

BootAgent ==
  /\ boot.at = "keys" /\ boot' = [at |-> "up", got |-> NoAgent]
  /\ \/ /\ agentHas' = [boot.got EXCEPT !.keys = KeysFor(boot.got)]
        /\ activeName' = boot.got.provider
     \/ UNCHANGED <<agentHas, activeName>>    \* create_provider fails
  /\ UNCHANGED <<credFile, credCmd, commandsRun, boots, keptKeys, chosen, clean,
                 switchesMet>>

\* The server ends and starts anew; a file that was emptied stays empty.
Reboot ==
  /\ boots < MaxBoots /\ boots' = boots + 1
  /\ boot' = [at |-> "read", got |-> NoAgent] /\ agentHas' = NoAgent /\ activeName' = NoVendor
  /\ credCmd' = [w \in CredWriters |-> IF w = WizardProc THEN credCmd[w] ELSE NoCommand]
  /\ clean' = (clean /\ \A w \in CredChats : ~CommandAt(w, "write"))
  /\ UNCHANGED <<credFile, commandsRun, keptKeys, chosen, switchesMet>>

-----------------------------------------------------------------------------
(* The commands.                                                           *)

BeginsCmd(w) ==
  /\ Away(w) /\ commandsRun < MaxCommandsRun /\ commandsRun' = commandsRun + 1
  /\ (w = WizardProc \/ boot.at = "up")

WizardSaves(p, k) ==
  /\ BeginsCmd(WizardProc)
  /\ credCmd' = [credCmd EXCEPT ![WizardProc] =
                 [at |-> "truncate", op |-> "save", persist |-> TRUE,
                  want |-> [provider |-> p, model |-> 1, keys |-> <<k>>],
                  copy |-> WithKey(credFile, p, k, 1)]]
  /\ clean' = (clean /\ ~Overlap)
  /\ UNCHANGED <<credFile, agentHas, activeName, boot, boots, keptKeys, chosen,
                 switchesMet>>

RemoveKey(w, p) ==
  /\ BeginsCmd(w)
  /\ IF Has(credFile, p)
     THEN /\ credCmd' = [credCmd EXCEPT ![w] =
                         [at |-> "truncate", op |-> "remove", persist |-> TRUE,
                          want |-> [NoAgent EXCEPT !.provider = p],
                          copy |-> WithoutVendor(credFile, p)]]
          /\ clean' = (clean /\ ~Overlap)
     ELSE UNCHANGED <<credCmd, clean>>          \* "not found"
  /\ UNCHANGED <<credFile, agentHas, activeName, boot, boots, keptKeys, chosen,
                 switchesMet>>

\* Mutant: the name is set before the agent is built.
NameEarly(p) == activeName' = p
\* The name stays until the agent is there.
NameLater(p) == UNCHANGED activeName

\* /model use: the keys are looked up, and an agent is asked for.
Switch(w, p, m, persist) ==
  /\ BeginsCmd(w) /\ w # WizardProc
  /\ IF Has(credFile, p) /\ agentHas # NoAgent
     THEN /\ credCmd' = [credCmd EXCEPT ![w] =
                         [at |-> "build", op |-> "switch", persist |-> persist, copy |-> NoCreds,
                          want |-> [provider |-> p, model |-> m,
                                    keys |-> Find(credFile, p).keys]]]
          /\ switchesMet' = (switchesMet \/ \E v \in CredChats : credCmd[v].op = "switch")
          /\ NameLater(p)
     ELSE UNCHANGED <<credCmd, switchesMet, activeName>>
  /\ UNCHANGED <<credFile, agentHas, boot, boots, keptKeys, chosen, clean>>
BuildFails(w) ==
  /\ CommandAt(w, "build") /\ AnswersCmd(w)
  /\ UNCHANGED <<credFile, agentHas, activeName, boot, commandsRun, boots, keptKeys,
                 chosen, clean, switchesMet>>
SetAgent(w) ==
  /\ CommandAt(w, "build") /\ agentHas' = credCmd[w].want /\ Does(w, "name")
  /\ UNCHANGED <<credFile, activeName, boot, commandsRun, boots, keptKeys, chosen,
                 clean, switchesMet>>
SetName(w) ==
  /\ CommandAt(w, "name") /\ activeName' = credCmd[w].want.provider
  /\ IF credCmd[w].persist THEN Does(w, "persist") ELSE AnswersCmd(w)
  /\ UNCHANGED <<credFile, agentHas, boot, commandsRun, boots, keptKeys, chosen, clean,
                 switchesMet>>

\* --persist reads the file anew.
Persist(w) ==
  /\ CommandAt(w, "persist")
  /\ LET want == credCmd[w].want
     IN  IF Has(credFile, want.provider)
         THEN /\ Edits(w, WithModel(credFile, want.provider, want.model))
              /\ clean' = (clean /\ ~Overlap)
         ELSE AnswersCmd(w) /\ UNCHANGED clean
  /\ UNCHANGED <<credFile, agentHas, activeName, boot, commandsRun, boots, keptKeys,
                 chosen, switchesMet>>

-----------------------------------------------------------------------------
(* Writing the copy.                                                       *)

EmptyFile(w) ==
  /\ CommandAt(w, "truncate") /\ credFile' = NoCreds /\ Does(w, "write")
  /\ UNCHANGED <<agentHas, activeName, boot, commandsRun, boots, keptKeys, chosen,
                 clean, switchesMet>>

\* Over another's longer text its tail stays.
WriteCopy(w) ==
  /\ CommandAt(w, "write") /\ AnswersCmd(w)
  /\ \/ credFile' = credCmd[w].copy
     \/ credFile # NoCreds /\ credFile' = NoCreds
  /\ LET want == credCmd[w].want IN
     CASE credCmd[w].op = "remove" ->
            /\ keptKeys' = keptKeys \ KeysOf(want.provider)
            /\ chosen' = IF chosen.provider = want.provider THEN [provider |-> NoVendor, model |-> 0]
                         ELSE chosen
       [] credCmd[w].op = "save" ->
            /\ keptKeys' = keptKeys \cup Range(want.keys)
            /\ chosen' = [provider |-> want.provider, model |-> want.model]
       [] credCmd[w].op = "switch" ->
            /\ chosen' = [provider |-> want.provider, model |-> want.model]
            /\ UNCHANGED keptKeys
  /\ UNCHANGED <<agentHas, activeName, boot, commandsRun, boots, clean, switchesMet>>

\* The disk is full, or the wizard ends: the file is cut.
WriteCut(w) ==
  /\ CommandAt(w, "write") /\ AnswersCmd(w) /\ credFile' = NoCreds /\ clean' = FALSE
  /\ UNCHANGED <<agentHas, activeName, boot, commandsRun, boots, keptKeys, chosen,
                 switchesMet>>

CredNext ==
  \/ BootRead \/ BootAgent \/ Reboot
  \/ \E p \in Vendors : \E k \in KeysOf(p) : WizardSaves(p, k)
  \/ \E w \in CredChats :
       \/ \E p \in Vendors : RemoveKey(w, p)
       \/ \E p \in Vendors, m \in ModelIds, persist \in BOOLEAN : Switch(w, p, m, persist)
       \/ BuildFails(w) \/ SetAgent(w) \/ SetName(w) \/ Persist(w)
  \/ \E w \in CredWriters : EmptyFile(w) \/ WriteCopy(w) \/ WriteCut(w)

CredSpec == CredInit /\ [][CredNext]_credVars

-----------------------------------------------------------------------------
Creds == [active : Vendors \cup {NoVendor},
          entries : Seq([name : Vendors, keys : Seq(AllKeys), model : ModelIds])]
Agents == [provider : Vendors \cup {NoVendor}, model : {0} \cup ModelIds, keys : Seq(AllKeys)]

\* Every variable keeps its type.
CredTypeOK ==
  /\ credFile \in Creds
  /\ credCmd \in [CredWriters -> [at : {"idle", "build", "name", "persist", "truncate", "write"},
                                op : {"none", "save", "remove", "switch"}, want : Agents,
                                persist : BOOLEAN, copy : Creds]]
  /\ agentHas \in Agents /\ activeName \in Vendors \cup {NoVendor}
  /\ boot \in [at : {"read", "keys", "up"}, got : Agents]
  /\ commandsRun \in 0 .. MaxCommandsRun /\ boots \in 0 .. MaxBoots
  /\ keptKeys \subseteq AllKeys
  /\ chosen \in [provider : Vendors \cup {NoVendor}, model : {0} \cup ModelIds]
  /\ {clean, switchesMet} \subseteq BOOLEAN

Listed == UNION {Range(e.keys) : e \in Range(credFile.entries)}
NoneUnderWay == \A w \in CredWriters : Away(w)

\* While no two writers overlap and no write is cut, the file has exactly the
\* keys that were saved and not removed, and the provider and model chosen last.
KeysKept ==
  clean /\ (\A w \in CredWriters : ~CommandAt(w, "write")) =>
    /\ Listed = keptKeys
    /\ chosen.provider # NoVendor =>
         credFile.active = chosen.provider /\ ActiveOf(credFile).model = chosen.model

\* Whoever writes over whom: the active provider is one of those listed, and
\* none is listed twice.
ActiveListed ==
  /\ credFile.entries # <<>> => Has(credFile, credFile.active)
  /\ \A i, j \in DOMAIN credFile.entries :
       credFile.entries[i].name = credFile.entries[j].name => i = j

\* The agent of the server has keys of its own provider only, however the file
\* changes while the server starts; and unless two switches crossed, it is the
\* provider the server names as active that it uses.
AgentAgrees ==
  /\ Range(agentHas.keys) \subseteq KeysOf(agentHas.provider)
  /\ ~switchesMet /\ NoneUnderWay => activeName = agentHas.provider

CredentialsSound == KeysKept /\ ActiveListed /\ AgentAgrees
=============================================================================
