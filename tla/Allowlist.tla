------------------------------- MODULE Allowlist ------------------------------
(***************************************************************************)
(* Who may talk to the bot: the list and the admin of                      *)
(* crates/electro-channels/src/telegram.rs (slack.rs and discord.rs keep   *)
(* theirs the same way), in memory behind two locks and in a file that is  *)
(* truncated and then written.  Messages are handled concurrently; a write *)
(* may fail half-way, and the process may stop and start again.            *)
(***************************************************************************)
EXTENDS Naturals, Sequences, FiniteSets

CONSTANTS
  Senders,     \* user ids
  Handlers,    \* messages in hand at the same time
  Configured,  \* allowlist of the configuration, a sequence
  Bootstrap,   \* ELECTRO_ALLOW_FIRST_USER_BOOTSTRAP
  MaxCommands, \* bound: changes of the list
  Nobody       \* no admin

ASSUME AllowlistAssumption ==
  /\ Configured \in Seq(Senders) /\ Bootstrap \in BOOLEAN /\ MaxCommands \in Nat
  /\ Nobody \notin Senders

VARIABLES
  allowed,    \* the list in memory
  admin,
  listFile,   \* what the file holds, or Unreadable
  handling,   \* per message: place in handle_telegram_message
  sender,     \* per message: its user
  copied,     \* per message: what persist_allowlist read
  after,      \* per message: where it goes on once the list is saved
  commands,   \* how often the list was changed
  torn,       \* a save failed since the start (history)
  overlapped  \* two saves were under way at once since the start (history)

allowlistVars == <<allowed, admin, listFile, handling, sender, copied, after, commands,
                   torn, overlapped>>

Entry(a, users) == [admin |-> a, users |-> users]
Unreadable == Entry(Nobody, {})  \* the file is absent or does not parse
\* new(): the file, or else the configuration, whose first entry is the admin.
Loaded(file) == IF file # Unreadable THEN file
                ELSE IF Configured # <<>>
                     THEN Entry(Configured[1], {Configured[i] : i \in DOMAIN Configured})
                     ELSE Unreadable

AllowlistInit ==
  /\ listFile = Unreadable
  /\ allowed = Loaded(listFile).users /\ admin = Loaded(listFile).admin
  /\ handling = [h \in Handlers |-> "none"] /\ sender = [h \in Handlers |-> Nobody]
  /\ copied = [h \in Handlers |-> Unreadable] /\ after = [h \in Handlers |-> "none"]
  /\ commands = 0 /\ torn = FALSE /\ overlapped = FALSE

HandlingAt(h, place) == handling[h] = place
To(h, place) == handling' = [handling EXCEPT ![h] = place]
Saving == {h \in Handlers : handling[h] \in {"copy", "truncate", "write"}}
SaveThen(h, place) == To(h, "copy") /\ after' = [after EXCEPT ![h] = place]
                      /\ commands' = commands + 1
                      /\ overlapped' = (overlapped \/ Saving # {})

\* Mutant: the list need not be empty.
MessageInAnyway(h, u) ==
  /\ HandlingAt(h, "none") /\ sender' = [sender EXCEPT ![h] = u]
  /\ IF Bootstrap /\ admin # u /\ commands < MaxCommands
     THEN /\ allowed' = {u} /\ admin' = u /\ SaveThen(h, "access")
     ELSE To(h, "access") /\ UNCHANGED <<allowed, admin, after, commands, overlapped>>
  /\ UNCHANGED <<listFile, copied, torn>>

\* A message arrives; under both locks the first user may become the admin.
MessageIn(h, u) ==
  /\ HandlingAt(h, "none") /\ sender' = [sender EXCEPT ![h] = u]
  /\ IF allowed = {} /\ Bootstrap
     THEN /\ commands < MaxCommands
          /\ allowed' = {u} /\ admin' = u /\ SaveThen(h, "access")
     ELSE To(h, "access") /\ UNCHANGED <<allowed, admin, after, commands, overlapped>>
  /\ UNCHANGED <<listFile, copied, torn>>

LetGo(h) == To(h, "none") /\ sender' = [sender EXCEPT ![h] = Nobody]

\* The message of a user who is not on the list ends here, and so does a
\* command of a user who is not the admin, and a message for the agent.
Reject(h) ==
  /\ HandlingAt(h, "access") /\ sender[h] \notin allowed /\ LetGo(h)
  /\ UNCHANGED <<allowed, admin, listFile, copied, after, commands, torn, overlapped>>
Pass(h) ==
  /\ HandlingAt(h, "access") /\ sender[h] \in allowed
  /\ \/ LetGo(h)
     \/ sender[h] = admin /\ To(h, "command") /\ UNCHANGED sender
  /\ UNCHANGED <<allowed, admin, listFile, copied, after, commands, torn, overlapped>>

\* Mutant: a change waits for the next save.
AllowUnsaved(h, u) ==
  /\ HandlingAt(h, "command") /\ commands < MaxCommands
  /\ allowed' = allowed \cup {u} /\ commands' = commands + 1 /\ LetGo(h)
  /\ UNCHANGED <<admin, listFile, copied, after, torn, overlapped>>

\* /allow and /revoke change the list in memory, and save it if it changed.
Allow(h, u) ==
  /\ HandlingAt(h, "command") /\ commands < MaxCommands
  /\ allowed' = allowed \cup {u}
  /\ IF u \in allowed THEN LetGo(h) /\ UNCHANGED <<after, commands, overlapped>>
     ELSE SaveThen(h, "none") /\ UNCHANGED sender
  /\ UNCHANGED <<admin, listFile, copied, torn>>

\* Mutant: the admin may take itself off the list.
RevokeAnyone(h, u) ==
  /\ HandlingAt(h, "command") /\ commands < MaxCommands
  /\ allowed' = allowed \ {u}
  /\ IF u \notin allowed THEN LetGo(h) /\ UNCHANGED <<after, commands, overlapped>>
     ELSE SaveThen(h, "none") /\ UNCHANGED sender
  /\ UNCHANGED <<admin, listFile, copied, torn>>

Revoke(h, u) ==
  /\ HandlingAt(h, "command") /\ commands < MaxCommands
  /\ allowed' = IF u = sender[h] THEN allowed ELSE allowed \ {u}
  /\ IF u \notin allowed \/ u = sender[h]
     THEN LetGo(h) /\ UNCHANGED <<after, commands, overlapped>>
     ELSE SaveThen(h, "none") /\ UNCHANGED sender
  /\ UNCHANGED <<admin, listFile, copied, torn>>

\* persist_allowlist reads the list and the admin; the file is truncated and
\* written.  Writers at the same time leave one content or a mix of them.
CopyList(h) ==
  /\ HandlingAt(h, "copy") /\ copied' = [copied EXCEPT ![h] = Entry(admin, allowed)]
  /\ To(h, "truncate")
  /\ UNCHANGED <<allowed, admin, listFile, sender, after, commands, torn, overlapped>>
Truncate(h) ==
  /\ HandlingAt(h, "truncate") /\ listFile' = Unreadable /\ To(h, "write")
  /\ UNCHANGED <<allowed, admin, sender, copied, after, commands, torn, overlapped>>
ListSaved(h) == To(h, after[h]) /\ copied' = [copied EXCEPT ![h] = Unreadable]
            /\ sender' = [sender EXCEPT ![h] = IF after[h] = "none" THEN Nobody ELSE @]
            /\ after' = [after EXCEPT ![h] = "none"]
            /\ UNCHANGED <<allowed, admin, commands, overlapped>>
WriteList(h) ==
  /\ HandlingAt(h, "write") /\ ListSaved(h) /\ UNCHANGED torn
  /\ listFile' \in {copied[h]} \cup (IF listFile = Unreadable THEN {} ELSE {Unreadable})
ListSaveFails(h) ==
  /\ handling[h] \in {"truncate", "write"} /\ ListSaved(h) /\ torn' = TRUE
  /\ UNCHANGED listFile

\* The process stops, and starts with what the file holds.
Restart ==
  /\ allowed' = Loaded(listFile).users /\ admin' = Loaded(listFile).admin
  /\ handling' = [h \in Handlers |-> "none"] /\ sender' = [h \in Handlers |-> Nobody]
  /\ copied' = [h \in Handlers |-> Unreadable] /\ after' = [h \in Handlers |-> "none"]
  /\ torn' = FALSE /\ overlapped' = FALSE /\ UNCHANGED <<listFile, commands>>

AllowlistNext ==
  \/ \E h \in Handlers : \/ \E u \in Senders : MessageIn(h, u) \/ Allow(h, u) \/ Revoke(h, u)
                         \/ Reject(h) \/ Pass(h) \/ CopyList(h) \/ Truncate(h)
                         \/ WriteList(h) \/ ListSaveFails(h)
  \/ Restart
AllowlistSpec == AllowlistInit /\ [][AllowlistNext]_allowlistVars

-----------------------------------------------------------------------------
\* Every variable keeps its type.
Lists == [admin : Senders \cup {Nobody}, users : SUBSET Senders]
AllowlistTypeOK ==
  /\ allowed \subseteq Senders /\ admin \in Senders \cup {Nobody}
  /\ listFile \in Lists /\ copied \in [Handlers -> Lists]
  /\ handling \in [Handlers -> {"none", "access", "command", "copy", "truncate", "write"}]
  /\ after \in [Handlers -> {"none", "access"}]
  /\ sender \in [Handlers -> Senders \cup {Nobody}]
  /\ commands \in Nat /\ torn \in BOOLEAN /\ overlapped \in BOOLEAN

\* Once there is an admin it is on the list, in memory and in a file that can
\* be read, and the two agree on who it is.
AdminStays ==
  /\ admin # Nobody => admin \in allowed
  /\ listFile # Unreadable =>
       listFile.admin \in listFile.users /\ listFile.admin = admin

\* Unless a save failed or met another one, a start would load the list that
\* is in memory.
ListIsSaved == ~torn /\ ~overlapped /\ Saving = {} =>
                 Loaded(listFile) = Entry(admin, allowed)

\* Both: what the admin decides is kept.
AllowlistKept == AdminStays /\ ListIsSaved
=============================================================================
