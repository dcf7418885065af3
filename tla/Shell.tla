--------------------------------- MODULE Shell ---------------------------------
(***************************************************************************)
(* A command of a tool: run_sandboxed of crates/electro-tools/src/runner.rs *)
(* for a command on the host, run_container_command of shell.rs for one    *)
(* handed to the client of a container engine.  The command (external)     *)
(* reads its input and writes its output as it likes, and may leave a      *)
(* helper behind that holds its pipes open.  Texts are counted in blocks.  *)
(***************************************************************************)
EXTENDS Naturals

CONSTANTS
  PipeRoom,     \* blocks a pipe holds
  InputBlocks,  \* blocks of stdin_data
  MaxOutput,    \* MAX_OUTPUT_SIZE
  OutChunk,     \* blocks read at once from stdout; from stderr it is one
  MaxWritten    \* bound: blocks written to one of the two

ASSUME ShellAssumption ==
  /\ {PipeRoom, MaxOutput, OutChunk} \subseteq Nat \ {0}
  /\ {InputBlocks, MaxWritten} \subseteq Nat

VARIABLES
  runner,      \* "host", "container"
  runStep,     \* how far the call is
  child,       \* the command, or the client
  helper,      \* does a process it left behind hold its pipes
  input,       \* blocks of the input still to write, and in the pipe
  pipe,        \* blocks in the two pipes
  wrote,       \* blocks written to them (history)
  got,         \* blocks in the answer
  timeUp,      \* the timeout has elapsed
  outcome      \* "whole", "truncated", "timeout", "failed"

shellVars == <<runner, runStep, child, helper, input, pipe, wrote, got, timeUp, outcome>>

ShellStreams == {"out", "err"}
Nothing == [s \in ShellStreams |-> 0]
OnTheWay == {"feed", "wait", "out", "err"}
Lesser(a, b) == IF a < b THEN a ELSE b

ShellInit ==
  /\ runner \in {"host", "container"} /\ runStep = "idle" /\ child = "none" /\ helper = FALSE
  /\ \E n \in {0, InputBlocks} : input = [left |-> n, inPipe |-> 0]
  /\ pipe = Nothing /\ wrote = Nothing /\ got = Nothing /\ timeUp = FALSE /\ outcome = "whole"

-----------------------------------------------------------------------------
(* Both runners: the command is started and gets all its input first.      *)

StartCommand ==
  /\ runStep = "idle" /\ child' = "running"
  /\ runStep' = IF input.left = 0 THEN "wait" ELSE "feed"
  /\ UNCHANGED <<runner, helper, input, pipe, wrote, got, timeUp, outcome>>

CommandFails ==
  /\ runStep = "idle" /\ runStep' = "done" /\ outcome' = "failed"
  /\ UNCHANGED <<runner, child, helper, input, pipe, wrote, got, timeUp>>

Feed ==
  /\ runStep = "feed" /\ input.left > 0 /\ input.inPipe < PipeRoom
  /\ input' = [left |-> input.left - 1, inPipe |-> input.inPipe + 1]
  /\ UNCHANGED <<runner, runStep, child, helper, pipe, wrote, got, timeUp, outcome>>

\* All is written, or nobody is left to read; the timeout starts.
Fed ==
  /\ runStep = "feed" /\ (input.left = 0 \/ (child = "ended" /\ ~helper))
  /\ runStep' = "wait" /\ UNCHANGED <<runner, child, helper, input, pipe, wrote, got, timeUp, outcome>>

TimeElapses ==
  /\ runStep = "wait" /\ ~timeUp /\ timeUp' = TRUE
  /\ UNCHANGED <<runner, runStep, child, helper, input, pipe, wrote, got, outcome>>

\* The caller is dropped, and the command goes on by itself.
DropCommand ==
  /\ runStep \in OnTheWay /\ runStep' = "dropped"
  /\ UNCHANGED <<runner, child, helper, input, pipe, wrote, got, timeUp, outcome>>

-----------------------------------------------------------------------------
(* On the host the pipes are read when the command has ended.              *)

Waited ==
  /\ runStep = "wait" /\ runner = "host" /\ child = "ended" /\ runStep' = "out"
  /\ UNCHANGED <<runner, child, helper, input, pipe, wrote, got, timeUp, outcome>>

WaitFails ==
  /\ runStep = "wait" /\ runStep' = "done" /\ outcome' = "failed"
  /\ UNCHANGED <<runner, child, helper, input, pipe, wrote, got, timeUp>>

\* Mutant: the command is left running.
LeaveChild == UNCHANGED child
KillChild == child' = "killed"

TimesOut ==
  /\ runStep = "wait" /\ runner = "host" /\ timeUp /\ child = "running"
  /\ KillChild /\ outcome' = "timeout" /\ runStep' = "out"
  /\ UNCHANGED <<runner, helper, input, pipe, wrote, got, timeUp>>

\* Mutant: a pipe that is empty for now is taken for one that was closed.
EmptyForNow(s) == pipe[s] = 0
\* A pipe ends when nobody holds it any more.
EndOf(s) == pipe[s] = 0 /\ child # "running" /\ ~helper

\* A chunk that passes the limit is not kept, and is the last.
ReadOut ==
  /\ runStep = "out" /\ pipe["out"] > 0
  /\ LET n == Lesser(OutChunk, pipe["out"])
     IN  /\ pipe' = [pipe EXCEPT !["out"] = @ - n]
         /\ \/ /\ got["out"] + n <= MaxOutput
               /\ got' = [got EXCEPT !["out"] = @ + n] /\ UNCHANGED <<runStep, outcome>>
            \/ /\ got["out"] + n > MaxOutput /\ runStep' = "err" /\ UNCHANGED got
               /\ outcome' = IF outcome = "whole" THEN "truncated" ELSE outcome
  /\ UNCHANGED <<runner, child, helper, input, wrote, timeUp>>

OutEnds ==
  /\ runStep = "out" /\ EndOf("out") /\ runStep' = "err"
  /\ UNCHANGED <<runner, child, helper, input, pipe, wrote, got, timeUp, outcome>>

\* Mutant: stderr has a limit of its own.
ErrLimitOfItsOwn == MaxOutput
\* stderr gets what stdout has left.
ErrLimit == MaxOutput - got["out"]

ReadErr ==
  /\ runStep = "err" /\ pipe["err"] > 0 /\ pipe' = [pipe EXCEPT !["err"] = @ - 1]
  /\ IF got["err"] + 1 <= ErrLimit
     THEN got' = [got EXCEPT !["err"] = @ + 1] /\ UNCHANGED runStep
     ELSE runStep' = "done" /\ UNCHANGED got
  /\ UNCHANGED <<runner, child, helper, input, wrote, timeUp, outcome>>

ErrEnds ==
  /\ runStep = "err" /\ EndOf("err") /\ runStep' = "done"
  /\ UNCHANGED <<runner, child, helper, input, pipe, wrote, got, timeUp, outcome>>

-----------------------------------------------------------------------------
(* wait_with_output of a client reads both pipes while it waits; a timeout *)
(* drops all of it, and the client goes on.                                *)

Collect(s) ==
  /\ runStep = "wait" /\ runner = "container" /\ pipe[s] > 0
  /\ pipe' = [pipe EXCEPT ![s] = @ - 1] /\ got' = [got EXCEPT ![s] = @ + 1]
  /\ UNCHANGED <<runner, runStep, child, helper, input, wrote, timeUp, outcome>>

Collected ==
  /\ runStep = "wait" /\ runner = "container" /\ \A s \in ShellStreams : EndOf(s)
  /\ runStep' = "done"
  /\ got' = LET out == Lesser(got["out"], MaxOutput)
            IN  [s \in ShellStreams |->
                   IF s = "out" THEN out ELSE Lesser(got["err"], MaxOutput - out)]
  /\ outcome' = IF got["out"] + got["err"] > MaxOutput THEN "truncated" ELSE "whole"
  /\ UNCHANGED <<runner, child, helper, input, pipe, wrote, timeUp>>

ClientTimesOut ==
  /\ runStep = "wait" /\ runner = "container" /\ timeUp
  /\ runStep' = "done" /\ got' = Nothing /\ outcome' = "timeout"
  /\ UNCHANGED <<runner, child, helper, input, pipe, wrote, timeUp>>

-----------------------------------------------------------------------------
(* The command and its helper.                                             *)

CommandReads ==
  /\ child = "running" /\ input.inPipe > 0 /\ input' = [input EXCEPT !.inPipe = @ - 1]
  /\ UNCHANGED <<runner, runStep, child, helper, pipe, wrote, got, timeUp, outcome>>

CommandWrites(s) ==
  /\ runStep \in OnTheWay /\ (child = "running" \/ helper)
  /\ pipe[s] < PipeRoom /\ wrote[s] < MaxWritten
  /\ ~(runStep = "err" /\ s = "out")    \* that end is closed
  /\ pipe' = [pipe EXCEPT ![s] = @ + 1] /\ wrote' = [wrote EXCEPT ![s] = @ + 1]
  /\ UNCHANGED <<runner, runStep, child, helper, input, got, timeUp, outcome>>

CommandForks ==
  /\ child = "running" /\ ~helper /\ helper' = TRUE
  /\ UNCHANGED <<runner, runStep, child, input, pipe, wrote, got, timeUp, outcome>>

CommandEnds ==
  /\ child = "running" /\ child' = "ended"
  /\ UNCHANGED <<runner, runStep, helper, input, pipe, wrote, got, timeUp, outcome>>

HelperEnds ==
  /\ helper /\ helper' = FALSE
  /\ UNCHANGED <<runner, runStep, child, input, pipe, wrote, got, timeUp, outcome>>

ShellNext ==
  \/ StartCommand \/ CommandFails \/ Feed \/ Fed \/ TimeElapses \/ DropCommand
  \/ Waited \/ WaitFails \/ TimesOut \/ ReadOut \/ OutEnds \/ ReadErr \/ ErrEnds
  \/ (\E s \in ShellStreams : Collect(s)) \/ Collected \/ ClientTimesOut
  \/ CommandReads \/ (\E s \in ShellStreams : CommandWrites(s))
  \/ CommandForks \/ CommandEnds \/ HelperEnds

-----------------------------------------------------------------------------
\* Every variable keeps its type.
ShellTypeOK ==
  /\ runner \in {"host", "container"} /\ child \in {"none", "running", "ended", "killed"}
  /\ runStep \in OnTheWay \cup {"idle", "done", "dropped"} /\ {helper, timeUp} \subseteq BOOLEAN
  /\ input \in [left : 0 .. InputBlocks, inPipe : 0 .. PipeRoom]
  /\ pipe \in [ShellStreams -> 0 .. PipeRoom]
  /\ {wrote, got} \subseteq [ShellStreams -> 0 .. MaxWritten]
  /\ outcome \in {"whole", "truncated", "timeout", "failed"}

\* An answer stays within the limit, is whole on stdout unless it says that it
\* is not, with nobody left who could write more, and loses no block that a
\* chunk more would have had room for; and on the host the command is over when
\* the answer is there.
ShellSound == runStep = "done" /\ outcome # "failed" =>
  /\ got["out"] + got["err"] <= MaxOutput
  /\ outcome = "whole" => got["out"] = wrote["out"] /\ child # "running" /\ ~helper
  /\ outcome = "whole" /\ got["err"] < wrote["err"] => got["out"] + got["err"] = MaxOutput
  /\ outcome = "truncated" => /\ wrote["out"] + wrote["err"] > MaxOutput
                              /\ got["out"] + got["err"] + OutChunk > MaxOutput
  /\ runner = "host" => child # "running"
=============================================================================
