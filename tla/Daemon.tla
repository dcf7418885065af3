--------------------------------- MODULE Daemon ---------------------------------
(***************************************************************************)
(* Starting, stopping and resetting the server (src/daemon.rs, reset.rs,   *)
(* main.rs and the end of app/server/mod.rs).  What the commands know of a *)
(* running server is the PID file, which every one of them reads, writes   *)
(* and removes without a lock; that there is one server at a time is left  *)
(* to the port of the gateway.  PIDs are not used twice.                   *)
(***************************************************************************)
EXTENDS Naturals

CONSTANTS
  Pids,     \* the processes that may be started
  Shells,   \* who types commands
  NoPid

ASSUME DaemonAssumption == NoPid \notin Pids

VARIABLES
  pidFile,     \* what is in electro.pid, NoPid without one
  life,        \* per process: how far it is
  port,        \* the process the gateway's port belongs to
  hasKeys,     \* is there a credentials.toml
  command,     \* per shell: the command and how far it is
  aim,         \* per shell: the process it has read or started
  crossed,     \* were two commands under way at once (history)
  rivals       \* was one started in the foreground beside a living one (history)

daemonVars == <<pidFile, life, port, hasKeys, command, aim, crossed, rivals>>

Alive(p) == p # NoPid /\ life[p] \notin {"unborn", "gone"}

DaemonInit ==
  /\ pidFile = NoPid /\ port = NoPid /\ hasKeys \in BOOLEAN
  /\ life = [p \in Pids |-> "unborn"]
  /\ command = [s \in Shells |-> "idle"] /\ aim = [s \in Shells |-> NoPid]
  /\ crossed = FALSE /\ rivals = FALSE

-----------------------------------------------------------------------------
(* The commands.                                                           *)

\* Command s goes on to what, with process p in its hands.
Goes(s, what, p) == command' = [command EXCEPT ![s] = what] /\ aim' = [aim EXCEPT ![s] = p]
Ends(s) == Goes(s, "idle", NoPid)

\* Is a command under way, or a start that has not bound its port?
Busy == \/ \E s \in Shells : command[s] # "idle"
        \/ \E p \in Pids : life[p] \in {"born", "binding"}

Begins(s, what) ==
  /\ command[s] = "idle" /\ Goes(s, what, NoPid) /\ crossed' = (crossed \/ Busy)
  /\ UNCHANGED <<pidFile, life, port, hasKeys, rivals>>

Born(p) == life[p] = "unborn" /\ life' = [life EXCEPT ![p] = "born"]

\* Mutant: a start does not look for a living server.
Occupied == FALSE

RunsAlready == Alive(pidFile)

\* start -d: without credentials or beside a living server it gives up.
StartCheck(s) ==
  /\ command[s] = "start"
  /\ IF ~hasKeys \/ RunsAlready THEN Ends(s) /\ UNCHANGED pidFile
                                ELSE Goes(s, "spawn", NoPid) /\ pidFile' = NoPid
  /\ UNCHANGED <<life, port, hasKeys, crossed, rivals>>

SpawnChild(s, p) ==
  /\ command[s] = "spawn" /\ Born(p) /\ Goes(s, "note", p)
  /\ UNCHANGED <<pidFile, port, hasKeys, crossed, rivals>>

SpawnFails(s) ==
  /\ command[s] = "spawn" /\ Ends(s)
  /\ UNCHANGED <<pidFile, life, port, hasKeys, crossed, rivals>>

NoteChild(s) ==
  /\ command[s] = "note" /\ pidFile' = aim[s] /\ Ends(s)
  /\ UNCHANGED <<life, port, hasKeys, crossed, rivals>>

\* start: in the foreground nothing is looked at.
StartHere(p) ==
  /\ Born(p) /\ crossed' = (crossed \/ Busy)
  /\ rivals' = (rivals \/ \E other \in Pids : Alive(other))
  /\ UNCHANGED <<pidFile, port, hasKeys, command, aim>>

\* stop: a file that names no living process is removed.
StopCheck(s) ==
  /\ command[s] = "stop"
  /\ IF Alive(pidFile) THEN Goes(s, "kill", pidFile) /\ UNCHANGED pidFile
                       ELSE Ends(s) /\ pidFile' = NoPid
  /\ UNCHANGED <<life, port, hasKeys, crossed, rivals>>

\* SIGTERM has no handler.
StopKill(s) ==
  /\ command[s] = "kill"
  /\ IF Alive(aim[s])
     THEN /\ life' = [life EXCEPT ![aim[s]] = "gone"] /\ Goes(s, "unlink", NoPid)
          /\ port' = IF port = aim[s] THEN NoPid ELSE port
     ELSE Ends(s) /\ UNCHANGED <<life, port>>
  /\ UNCHANGED <<pidFile, hasKeys, crossed, rivals>>

StopUnlink(s) ==
  /\ command[s] = "unlink" /\ pidFile' = NoPid /\ Ends(s)
  /\ UNCHANGED <<life, port, hasKeys, crossed, rivals>>

\* reset: it gives up beside a living server, and asks before it goes on.
ResetCheck(s) ==
  /\ command[s] = "reset"
  /\ IF Alive(pidFile) THEN Ends(s) ELSE Goes(s, "confirm", NoPid)
  /\ UNCHANGED <<pidFile, life, port, hasKeys, crossed, rivals>>

\* Not confirmed, or the backup failed.
ResetAborts(s) ==
  /\ command[s] = "confirm" /\ Ends(s)
  /\ UNCHANGED <<pidFile, life, port, hasKeys, crossed, rivals>>

ResetWipes(s) ==
  /\ command[s] = "confirm" /\ Ends(s) /\ pidFile' = NoPid /\ hasKeys' = FALSE
  /\ UNCHANGED <<life, port, crossed, rivals>>

-----------------------------------------------------------------------------
(* The server.                                                             *)

WritePid(p) ==
  /\ life[p] = "born" /\ life' = [life EXCEPT ![p] = "binding"] /\ pidFile' = p
  /\ UNCHANGED <<port, hasKeys, command, aim, crossed, rivals>>

\* Without the port the server ends with an error, and leaves the file.
BindPort(p) ==
  /\ life[p] = "binding"
  /\ IF port = NoPid THEN port' = p /\ life' = [life EXCEPT ![p] = "serving"]
                     ELSE life' = [life EXCEPT ![p] = "gone"] /\ UNCHANGED port
  /\ UNCHANGED <<pidFile, hasKeys, command, aim, crossed, rivals>>

\* A key given in the chat is saved.
SaveKey ==
  /\ port # NoPid /\ ~hasKeys /\ hasKeys' = TRUE
  /\ UNCHANGED <<pidFile, life, port, command, aim, crossed, rivals>>

\* Ctrl+C: the port belongs to the server until its process ends.
Close(p) ==
  /\ life[p] = "serving" /\ life' = [life EXCEPT ![p] = "closing"]
  /\ UNCHANGED <<pidFile, port, hasKeys, command, aim, crossed, rivals>>

\* Mutant: the file is removed by the process that ends, after the port is free.
UnlinkLater(p) == life[p] = "gone"

UnlinkNow(p) == life[p] = "closing"

RemovePid(p) ==
  /\ UnlinkNow(p) /\ pidFile' = NoPid /\ life' = [life EXCEPT ![p] = "exiting"]
  /\ UNCHANGED <<port, hasKeys, command, aim, crossed, rivals>>

Exit(p) ==
  /\ life[p] = "exiting" /\ life' = [life EXCEPT ![p] = "gone"] /\ port' = NoPid
  /\ UNCHANGED <<pidFile, hasKeys, command, aim, crossed, rivals>>

Crash(p) ==
  /\ Alive(p) /\ life' = [life EXCEPT ![p] = "gone"]
  /\ port' = IF port = p THEN NoPid ELSE port
  /\ UNCHANGED <<pidFile, hasKeys, command, aim, crossed, rivals>>

ShellStep(s) ==
  \/ \E what \in {"start", "stop", "reset"} : Begins(s, what)
  \/ StartCheck(s) \/ SpawnFails(s) \/ NoteChild(s) \/ \E p \in Pids : SpawnChild(s, p)
  \/ StopCheck(s) \/ StopKill(s) \/ StopUnlink(s)
  \/ ResetCheck(s) \/ ResetAborts(s) \/ ResetWipes(s)
ServerStep(p) ==
  StartHere(p) \/ WritePid(p) \/ BindPort(p) \/ Close(p) \/ RemovePid(p) \/ Exit(p) \/ Crash(p)
DaemonNext == SaveKey \/ (\E s \in Shells : ShellStep(s)) \/ (\E p \in Pids : ServerStep(p))

DaemonSpec == DaemonInit /\ [][DaemonNext]_daemonVars

-----------------------------------------------------------------------------
\* Every variable keeps its type.
DaemonTypeOK ==
  /\ {pidFile, port} \subseteq Pids \cup {NoPid}
  /\ life \in [Pids -> {"unborn", "born", "binding", "serving", "closing", "exiting", "gone"}]
  /\ command \in [Shells -> {"idle", "start", "spawn", "note", "stop", "kill", "unlink",
                             "reset", "confirm"}]
  /\ aim \in [Shells -> Pids \cup {NoPid}]
  /\ {hasKeys, crossed, rivals} \subseteq BOOLEAN

\* Where commands follow each other and none is started in the foreground
\* beside a living one, the file names the server that serves, however servers
\* crash, close and are stopped: no stale file hides it, no end of an older
\* server removes its name.
ServerNamed == ~crossed /\ ~rivals => \A p \in Pids : life[p] = "serving" => pidFile = p
=============================================================================
