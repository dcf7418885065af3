---------------------------------- MODULE Mcp ---------------------------------
(***************************************************************************)
(* McpManager of crates/electro-mcp/src/manager.rs: a map of connected     *)
(* tool servers behind a lock that is given back before a server is        *)
(* connected and taken again to store it, a config file that is read,      *)
(* changed and written, and health checks that restart dead servers.       *)
(***************************************************************************)
EXTENDS Naturals, FiniteSets

CONSTANTS
  ServerNames,
  McpUsers,      \* requests to add, remove and restart
  Checkers,      \* health checks
  MaxServers,    \* max_servers
  MaxRestarts,   \* max_restart_attempts
  MaxConns       \* bound: connections made

ASSUME McpAssumption == /\ {MaxServers, MaxRestarts, MaxConns} \subseteq Nat
                        /\ IsFiniteSet(McpUsers) /\ IsFiniteSet(Checkers)

VARIABLES
  servers,     \* the handles by name; conn = 0 where there is none
  deadConns,   \* connections whose process exited
  mcpFile,     \* names in mcp.toml
  conns,       \* connections made so far
  mcpStep,     \* per actor: what it does next, for which name, on which copy of the file
  toRestart,   \* per checker: to_restart
  restarted    \* connections health checks chose to restart, with the checker

mcpVars == <<servers, deadConns, mcpFile, conns, mcpStep, toRestart, restarted>>

Actors == McpUsers \cup Checkers
Absent == [conn |-> 0, status |-> "none", restarts |-> 0]
Present == {n \in ServerNames : servers[n] # Absent}
Resting == [at |-> "idle", kind |-> "none", name |-> CHOOSE n \in ServerNames : TRUE, file |-> {}]
McpAt(a, place) == mcpStep[a].at = place
GoOn(a, place) == mcpStep' = [mcpStep EXCEPT ![a].at = place]
Finish(a) == mcpStep' = [mcpStep EXCEPT ![a] = Resting]
Start(a, kind, n, place) ==
  mcpStep' = [mcpStep EXCEPT ![a] = [at |-> place, kind |-> kind, name |-> n, file |-> {}]]

McpInit ==
  /\ servers = [n \in ServerNames |-> Absent] /\ deadConns = {} /\ mcpFile = {} /\ conns = 0
  /\ mcpStep = [a \in Actors |-> Resting] /\ toRestart = [c \in Checkers |-> {}]
  /\ restarted = {}

-----------------------------------------------------------------------------
\* add_server, while the name is free.
AddServer(u, n) ==
  /\ McpAt(u, "idle") /\ n \notin Present /\ Start(u, "add", n, "limit")
  /\ UNCHANGED <<servers, deadConns, mcpFile, conns, toRestart, restarted>>
\* remove_server takes the handle out and closes it under the lock.
RemoveServer(u, n) ==
  /\ McpAt(u, "idle") /\ n \in Present /\ Start(u, "remove", n, "load")
  /\ servers' = [servers EXCEPT ![n] = Absent]
  /\ UNCHANGED <<deadConns, mcpFile, conns, toRestart, restarted>>
\* restart_server reads the configuration first and takes the handle out later.
RestartServer(u, n) ==
  /\ McpAt(u, "idle") /\ n \in Present /\ Start(u, "restart", n, "take")
  /\ UNCHANGED <<servers, deadConns, mcpFile, conns, toRestart, restarted>>

\* Mutant: a dead server stays connected until it was restarted.
ScanLeavingStatus(c) ==
  LET dead == {n \in Present : servers[n].status = "connected" /\ servers[n].conn \in deadConns}
      again == {n \in dead : servers[n].restarts < MaxRestarts}
  IN /\ McpAt(c, "idle") /\ dead # {}
     /\ servers' = [n \in ServerNames |->
          IF n \in again THEN [servers[n] EXCEPT !.restarts = @ + 1] ELSE servers[n]]
     /\ toRestart' = [toRestart EXCEPT ![c] = again]
     /\ restarted' = restarted \cup {<<c, servers[n].conn>> : n \in again}
     /\ GoOn(c, "health")
     /\ UNCHANGED <<deadConns, mcpFile, conns>>

\* health_check, under the lock: dead servers are marked, those with attempts
\* left are noted for a restart.
Scan(c) ==
  LET dead == {n \in Present : servers[n].status = "connected" /\ servers[n].conn \in deadConns}
      again == {n \in dead : servers[n].restarts < MaxRestarts}
  IN /\ McpAt(c, "idle") /\ dead # {}
     /\ servers' = [n \in ServerNames |->
          IF n \in again THEN [conn |-> servers[n].conn, status |-> "disconnected",
                               restarts |-> servers[n].restarts + 1]
          ELSE IF n \in dead THEN [servers[n] EXCEPT !.status = "failed"]
          ELSE servers[n]]
     /\ toRestart' = [toRestart EXCEPT ![c] = again]
     /\ restarted' = restarted \cup {<<c, servers[n].conn>> : n \in again}
     /\ GoOn(c, "health")
     /\ UNCHANGED <<deadConns, mcpFile, conns>>
RestartNext(c, n) ==
  /\ McpAt(c, "health") /\ n \in toRestart[c]
  /\ toRestart' = [toRestart EXCEPT ![c] = @ \ {n}]
  /\ IF n \in Present THEN Start(c, "check", n, "take") ELSE UNCHANGED mcpStep
  /\ UNCHANGED <<servers, deadConns, mcpFile, conns, restarted>>
ScanEnds(c) ==
  /\ McpAt(c, "health") /\ toRestart[c] = {} /\ Finish(c)
  /\ UNCHANGED <<servers, deadConns, mcpFile, conns, toRestart, restarted>>

Take(a) ==
  /\ McpAt(a, "take") /\ GoOn(a, "limit")
  /\ servers' = [servers EXCEPT ![mcpStep[a].name] = Absent]
  /\ UNCHANGED <<deadConns, mcpFile, conns, toRestart, restarted>>

\* An error ends the operation; a health check goes on with the next server.
GiveUp(a) ==
  /\ IF mcpStep[a].kind = "check" THEN GoOn(a, "health") ELSE Finish(a)
  /\ UNCHANGED <<servers, deadConns, mcpFile, conns, toRestart, restarted>>

\* connect_server: the limit is looked at under a lock of its own.
Limit(a) ==
  /\ McpAt(a, "limit")
  /\ IF Cardinality(Present) >= MaxServers THEN GiveUp(a)
     ELSE /\ GoOn(a, "connect")
          /\ UNCHANGED <<servers, deadConns, mcpFile, conns, toRestart, restarted>>
Connect(a) ==
  /\ McpAt(a, "connect")
  /\ \/ GiveUp(a)
     \/ /\ conns < MaxConns /\ conns' = conns + 1
        /\ servers' = [servers EXCEPT ![mcpStep[a].name] =
                         [conn |-> conns + 1, status |-> "connected", restarts |-> 0]]
        /\ CASE mcpStep[a].kind = "add"   -> GoOn(a, "load")
             [] mcpStep[a].kind = "check" -> GoOn(a, "health")
             [] OTHER -> Finish(a)
        /\ UNCHANGED <<deadConns, mcpFile, toRestart, restarted>>

\* The config file is loaded, changed and saved without a lock; a save may fail.
Load(a) ==
  /\ McpAt(a, "load")
  /\ mcpStep' = [mcpStep EXCEPT ![a].at = "save", ![a].file = mcpFile]
  /\ UNCHANGED <<servers, deadConns, mcpFile, conns, toRestart, restarted>>
Save(a) ==
  /\ McpAt(a, "save") /\ Finish(a)
  /\ \/ mcpFile' = IF mcpStep[a].kind = "add" THEN mcpStep[a].file \cup {mcpStep[a].name}
                   ELSE mcpStep[a].file \ {mcpStep[a].name}
     \/ UNCHANGED mcpFile
  /\ UNCHANGED <<servers, deadConns, conns, toRestart, restarted>>

ServerDies(n) ==
  /\ n \in Present /\ servers[n].conn \notin deadConns
  /\ deadConns' = deadConns \cup {servers[n].conn}
  /\ UNCHANGED <<servers, mcpFile, conns, mcpStep, toRestart, restarted>>

McpNext ==
  \/ \E u \in McpUsers, n \in ServerNames : AddServer(u, n) \/ RemoveServer(u, n) \/ RestartServer(u, n)
  \/ \E c \in Checkers : Scan(c) \/ ScanEnds(c) \/ \E n \in ServerNames : RestartNext(c, n)
  \/ \E a \in Actors : Take(a) \/ Limit(a) \/ Connect(a) \/ Load(a) \/ Save(a)
  \/ \E n \in ServerNames : ServerDies(n)

McpSpec == McpInit /\ [][McpNext]_mcpVars

-----------------------------------------------------------------------------
\* Every variable keeps its type.
McpTypeOK ==
  /\ servers \in [ServerNames -> [conn : 0 .. MaxConns, restarts : 0 .. MaxRestarts,
                                  status : {"none", "connected", "disconnected", "failed"}]]
  /\ deadConns \subseteq 1 .. MaxConns /\ mcpFile \subseteq ServerNames /\ conns \in 0 .. MaxConns
  /\ toRestart \in [Checkers -> SUBSET ServerNames]
  /\ \A a \in Actors : mcpStep[a].name \in ServerNames /\ mcpStep[a].file \subseteq ServerNames

\* One death of a server is answered by one automatic restart, however the
\* health checks overlap.
RestartedOnce == \A p, q \in restarted : p[2] = q[2] => p = q

-----------------------------------------------------------------------------
(***************************************************************************)
(* StdioTransport of crates/electro-mcp/src/transport/stdio.rs: calls of a *)
(* server process over its stdin and stdout.  Each call leaves a sender    *)
(* under its id in `pending`; the reader task gives answers to the senders *)
(* and drains them when the output ends.  The locks on `pending` and on    *)
(* stdin, the flag `alive` and the reader are all taken step by step.      *)
(***************************************************************************)

CONSTANT MaxCalls   \* bound: calls; the n-th gets the id n

ASSUME RpcAssumption == MaxCalls \in Nat \ {0}

VARIABLES
  alive,       \* the flag
  reader,      \* the reader task: reading, at the end of the output, or ended
  process,     \* the server process: up, exited, its output closed, or unreadable
  call,        \* per call: how far it is, or how it ended
  stdin,       \* the call that holds the lock on stdin, 0 if none
  pending,     \* ids with a sender in the map
  told,        \* calls whose sender was used: the answer, or "exited"
  requests,    \* requests the server has read and not answered
  answers,     \* answers on their way, in any order
  racing,      \* calls past the look at `alive` when the end of the output was
               \* noticed, but not yet in the map (history variable)
  dropped      \* calls whose caller went away (history variable)

rpcVars == <<alive, reader, process, call, stdin, pending, told, requests, answers,
             racing, dropped>>

CallIds == 1 .. MaxCalls
CallAt(c, place) == call[c] = place
CallTo(c, place) == call' = [call EXCEPT ![c] = place]
Under == {"insert", "lock", "write", "wait", "timedOut", "writeFailed"}
Ended == {"answered", "exited", "droppedSender", "timeout", "writeError", "notRunning", "cancelled"}

RpcInit ==
  /\ alive = TRUE /\ reader = "reading" /\ process = "up"
  /\ call = [c \in CallIds |-> "none"] /\ stdin = 0
  /\ pending = {} /\ told = [c \in CallIds |-> "nothing"]
  /\ requests = {} /\ answers = {} /\ racing = {} /\ dropped = {}

\* send: the look at `alive`, and the id.
Send(c) ==
  /\ CallAt(c, "none") /\ \A d \in CallIds : d < c => ~CallAt(d, "none")
  /\ CallTo(c, IF alive THEN "insert" ELSE "notRunning")
  /\ UNCHANGED <<alive, reader, process, stdin, pending, told, requests, answers, racing, dropped>>
InsertSender(c) ==
  /\ CallAt(c, "insert") /\ CallTo(c, "lock") /\ pending' = pending \cup {c}
  /\ UNCHANGED <<alive, reader, process, stdin, told, requests, answers, racing, dropped>>
LockStdin(c) ==
  /\ CallAt(c, "lock") /\ stdin = 0 /\ stdin' = c /\ CallTo(c, "write")
  /\ UNCHANGED <<alive, reader, process, pending, told, requests, answers, racing, dropped>>

\* The request is written; to a process that has gone that fails, and the
\* sender is taken back before the lock is.
WriteRequest(c) ==
  /\ CallAt(c, "write")
  /\ IF process = "exited" THEN CallTo(c, "writeFailed") /\ UNCHANGED <<requests, stdin>>
                           ELSE CallTo(c, "wait") /\ requests' = requests \cup {c} /\ stdin' = 0
  /\ UNCHANGED <<alive, reader, process, pending, told, answers, racing, dropped>>
ForgetFailed(c) ==
  /\ CallAt(c, "writeFailed") /\ CallTo(c, "writeError") /\ pending' = pending \ {c}
  /\ stdin' = 0
  /\ UNCHANGED <<alive, reader, process, told, requests, answers, racing, dropped>>

\* The receiver: an answer, the note of the exit, a dropped sender, or the time
\* limit.
Receive(c) ==
  /\ CallAt(c, "wait") /\ told[c] # "nothing"
  /\ CallTo(c, told[c])
  /\ UNCHANGED <<alive, reader, process, stdin, pending, told, requests, answers, racing, dropped>>
TimeOut(c) ==
  /\ CallAt(c, "wait") /\ told[c] = "nothing" /\ CallTo(c, "timedOut")
  /\ UNCHANGED <<alive, reader, process, stdin, pending, told, requests, answers, racing, dropped>>

\* Mutant: the sender is left in the map.
ForgetTimedOutNot(c) ==
  /\ CallAt(c, "timedOut") /\ CallTo(c, "timeout")
  /\ UNCHANGED <<alive, reader, process, stdin, pending, told, requests, answers, racing, dropped>>

ForgetTimedOut(c) ==
  /\ CallAt(c, "timedOut") /\ CallTo(c, "timeout") /\ pending' = pending \ {c}
  /\ UNCHANGED <<alive, reader, process, stdin, told, requests, answers, racing, dropped>>

\* The caller is dropped: the lock is released, the map keeps the sender.
CancelCall(c) ==
  /\ call[c] \in Under /\ CallTo(c, "cancelled")
  /\ stdin' = IF stdin = c THEN 0 ELSE stdin
  /\ dropped' = dropped \cup {c}
  /\ UNCHANGED <<alive, reader, process, pending, told, requests, answers, racing>>

-----------------------------------------------------------------------------
(* The server process (external) and the reader task.                      *)
ServerAnswers(c) ==
  /\ process = "up" /\ c \in requests
  /\ requests' = requests \ {c} /\ answers' = answers \cup {c}
  /\ UNCHANGED <<alive, reader, process, call, stdin, pending, told, racing, dropped>>
ServerEnds ==
  /\ process = "up" /\ \E how \in {"exited", "silent", "unreadable"} : process' = how
  /\ UNCHANGED <<alive, reader, call, stdin, pending, told, requests, answers, racing, dropped>>

ReadAnswer(c) ==
  /\ reader = "reading" /\ c \in answers /\ answers' = answers \ {c}
  /\ IF c \in pending
     THEN pending' = pending \ {c} /\ told' = [told EXCEPT ![c] = "answered"]
     ELSE UNCHANGED <<pending, told>>
  /\ UNCHANGED <<alive, reader, process, call, stdin, requests, racing, dropped>>

\* Mutant: the senders are drained before the flag is cleared.
NoticeExitLate ==
  /\ reader = "reading" /\ process \in {"exited", "silent"} /\ answers = {} /\ reader' = "drain"
  /\ racing' = {c \in CallIds : CallAt(c, "insert")}
  /\ UNCHANGED <<alive, process, call, stdin, pending, told, requests, answers, dropped>>

\* End of the output: the flag is cleared, then the senders are drained.
NoticeExit ==
  /\ reader = "reading" /\ process \in {"exited", "silent"} /\ answers = {}
  /\ alive' = FALSE /\ reader' = "drain"
  /\ racing' = {c \in CallIds : CallAt(c, "insert")}
  /\ UNCHANGED <<process, call, stdin, pending, told, requests, answers, dropped>>
Drain ==
  /\ reader = "drain" /\ reader' = "ended" /\ alive' = FALSE
  /\ told' = [c \in CallIds |-> IF c \in pending THEN "exited" ELSE told[c]]
  /\ pending' = {}
  /\ UNCHANGED <<process, call, stdin, requests, answers, racing, dropped>>

\* A read error: the flag is cleared, the senders stay.
ReadError ==
  /\ reader = "reading" /\ process = "unreadable"
  /\ alive' = FALSE /\ reader' = "gaveUp"
  /\ UNCHANGED <<process, call, stdin, pending, told, requests, answers, racing, dropped>>

\* close: the flag, the process, then every sender is dropped.
CloseFlag ==
  /\ alive \/ process # "exited"
  /\ alive' = FALSE /\ process' = "exited"
  /\ UNCHANGED <<reader, call, stdin, pending, told, requests, answers, racing, dropped>>
CloseClear ==
  /\ ~alive /\ process = "exited" /\ pending # {}
  /\ told' = [c \in CallIds |-> IF c \in pending THEN "droppedSender" ELSE told[c]]
  /\ pending' = {}
  /\ UNCHANGED <<alive, reader, process, call, stdin, requests, answers, racing, dropped>>

RpcNext ==
  \/ \E c \in CallIds :
       \/ Send(c) \/ InsertSender(c) \/ LockStdin(c) \/ WriteRequest(c) \/ ForgetFailed(c)
       \/ Receive(c) \/ TimeOut(c) \/ ForgetTimedOut(c) \/ CancelCall(c)
       \/ ServerAnswers(c) \/ ReadAnswer(c)
  \/ ServerEnds \/ NoticeExit \/ Drain \/ ReadError \/ CloseFlag \/ CloseClear

RpcSpec == RpcInit /\ [][RpcNext]_rpcVars

-----------------------------------------------------------------------------
\* Every variable keeps its type.
RpcTypeOK ==
  /\ alive \in BOOLEAN /\ reader \in {"reading", "drain", "ended", "gaveUp"}
  /\ process \in {"up", "exited", "silent", "unreadable"}
  /\ call \in [CallIds -> {"none"} \cup Under \cup Ended] /\ stdin \in {0} \cup CallIds
  /\ told \in [CallIds -> {"nothing", "answered", "exited", "droppedSender"}]
  /\ pending \subseteq CallIds /\ requests \subseteq CallIds /\ answers \subseteq CallIds
  /\ racing \subseteq CallIds /\ dropped \subseteq CallIds

\* "Pending requests are cleaned up on timeout": a sender stays in the map only
\* for a call under way or one whose caller went away, whichever of answer, exit,
\* failed write and time limit came first.
RpcNoStaleSender == \A c \in pending : call[c] \in Under \/ c \in dropped

\* "Dead process detected": once the exit was noticed and the senders drained,
\* no call waits for its time limit but one that was between its look at the flag
\* and its place in the map at that moment.
RpcExitHeard ==
  reader = "ended" =>
    \A c \in CallIds : CallAt(c, "wait") /\ told[c] = "nothing" => c \in racing

\* Both: no call outlives its time limit or the server in the map of senders.
CallsEnd == RpcNoStaleSender /\ RpcExitHeard
=============================================================================
