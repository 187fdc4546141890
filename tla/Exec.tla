-------------------------------- MODULE Exec --------------------------------
(***************************************************************************)
(* src/exec/exec.go.  Run: the command, the goroutine that runs it, the    *)
(* goroutine that delivers its status on Done, the io.Pipe between them    *)
(* and the client, and the context that may end at any time.  FullOutput   *)
(* and SimpleFullOutput: the same command with its output in a buffer,     *)
(* which takes the place of the client, and its exit code.  Standard       *)
(* output and error are one stream.                                        *)
(***************************************************************************)
EXTENDS Integers

CONSTANTS
  Chunks,       \* bound on the output of the command, in chunks
  PipeSize,     \* chunks that the operating system's pipe holds
  ReaderStops,  \* the client may stop reading before the end
  Forks         \* the command may leave a child behind that keeps its stdout open

ASSUME ExecAssumption ==
  /\ Chunks \in Nat /\ PipeSize \in Nat \ {0}
  /\ ReaderStops \in BOOLEAN /\ Forks \in BOOLEAN

VARIABLES
  mode,     \* the function that was called
  ctx,      \* "live", or why the context is done
  proc,     \* the process
  child,    \* a child of the command holds the pipe's write end
  written,  \* chunks written by the command
  ospipe,   \* chunks in the operating system's pipe
  copying,  \* the chunk that the copying goroutine of os/exec offers to the reader
  copier,   \* that goroutine
  runner,   \* the goroutine that calls cmd.Run
  status,   \* the goroutine that sends on Done
  done, Done,
  w,        \* the write end of the io.Pipe
  reader,   \* the client
  read,     \* chunks that the client has read
  result    \* what FullOutput returned: the code and the error

procVars == <<mode, proc, child, written>>
copyVars == <<ospipe, copying, copier>>
chanVars == <<status, done, Done>>
readVars == <<reader, read, result>>
vars     == <<ctx, procVars, copyVars, runner, chanVars, w, readVars>>

ExitStates == {"exit 0", "exit N", "killed"}
Results    == {"nil", "exit N", "killed", "start error", "deadline", "canceled"}

TypeOK ==
  /\ mode \in {"Run", "FullOutput"}
  /\ ctx \in {"live", "deadline", "canceled"}
  /\ proc \in {"none", "running"} \cup ExitStates
  /\ child \in {"none", "alive"}
  /\ written \in 0 .. Chunks
  /\ ospipe \in 0 .. PipeSize
  /\ copying \in 0 .. 1
  /\ copier \in {"none", "copy", "end"}
  /\ runner \in {"start", "wait", "close", "end"}
  /\ status \in {"select", "end"}
  /\ done \in Results \cup {"empty"}
  /\ Done \in Results \cup {"empty"}
  /\ w \in {"open", "closed"}
  /\ reader \in {"reading", "stopped", "eof"}
  /\ read \in 0 .. Chunks
  /\ result \in ({"none", "0", "N"} \X Results)

\* Run has returned and its two goroutines have not run yet, or FullOutput has been
\* called, which has none.
Init ==
  /\ mode \in {"Run", "FullOutput"}
  /\ ctx = "live"
  /\ proc = "none"
  /\ child = "none"
  /\ written = 0
  /\ ospipe = 0
  /\ copying = 0
  /\ copier = "none"
  /\ runner = "start"
  /\ status = IF mode = "Run" THEN "select" ELSE "end"
  /\ done = "empty"
  /\ Done = "empty"
  /\ w = "open"
  /\ reader = "reading"
  /\ read = 0
  /\ result = <<"none", "nil">>

-----------------------------------------------------------------------------
(* The context, the command and os/exec (external). *)

CtxDone ==
  /\ ctx = "live"
  /\ ctx' \in {"deadline", "canceled"}
  /\ UNCHANGED <<procVars, copyVars, runner, chanVars, w, readVars>>

Write ==
  /\ proc = "running" \/ child = "alive"
  /\ written < Chunks
  /\ ospipe < PipeSize
  /\ written' = written + 1
  /\ ospipe' = ospipe + 1
  /\ UNCHANGED <<mode, ctx, proc, child, copying, copier, runner, chanVars, w, readVars>>

Fork ==
  /\ Forks
  /\ proc = "running"
  /\ child' = "alive"
  /\ UNCHANGED <<mode, ctx, proc, written, copyVars, runner, chanVars, w, readVars>>

ChildExits ==
  /\ child = "alive"
  /\ child' = "none"
  /\ UNCHANGED <<mode, ctx, proc, written, copyVars, runner, chanVars, w, readVars>>

\* The command exits, or a signal ends it.
Exit ==
  /\ proc = "running"
  /\ proc' \in ExitStates
  /\ UNCHANGED <<mode, ctx, child, written, copyVars, runner, chanVars, w, readVars>>

\* exec.CommandContext kills the process, not its children.
Kill ==
  /\ proc = "running"
  /\ ctx # "live"
  /\ proc' = "killed"
  /\ UNCHANGED <<mode, ctx, child, written, copyVars, runner, chanVars, w, readVars>>

\* The goroutine that copies the command's output to w: w.Write returns only when the
\* client has read the chunk.
CopyChunk ==
  /\ copier = "copy"
  /\ copying = 0 /\ ospipe > 0
  /\ ospipe' = ospipe - 1
  /\ copying' = 1
  /\ UNCHANGED <<ctx, procVars, copier, runner, chanVars, w, readVars>>

\* It ends when nobody can write to the pipe any more.
CopyEnds ==
  /\ copier = "copy"
  /\ copying = 0 /\ ospipe = 0
  /\ proc \in ExitStates /\ child = "none"
  /\ copier' = "end"
  /\ UNCHANGED <<ctx, procVars, ospipe, copying, runner, chanVars, w, readVars>>

-----------------------------------------------------------------------------
(* The client. *)

Read ==
  /\ reader = "reading"
  /\ copying = 1
  /\ copying' = 0
  /\ read' = read + 1
  /\ UNCHANGED <<ctx, procVars, ospipe, copier, runner, chanVars, w, reader, result>>

ReadEOF ==
  /\ reader = "reading"
  /\ w = "closed"
  /\ reader' = "eof"
  /\ UNCHANGED <<ctx, procVars, copyVars, runner, chanVars, w, read, result>>

StopReading ==
  /\ ReaderStops /\ mode = "Run"
  /\ reader = "reading"
  /\ reader' = "stopped"
  /\ UNCHANGED <<ctx, procVars, copyVars, runner, chanVars, w, read, result>>

-----------------------------------------------------------------------------
(* The goroutines of Run, and FullOutput. *)

\* Mutant: every ExitError has an exit code.
exitCodeAlways(e) == IF e \in {"exit N", "killed"} THEN <<"N", "nil">> ELSE <<"0", e>>

\* The exit code, or the error if the command has none: a signal's status is -1.
exitCode(e) == IF e = "exit N" THEN <<"N", "nil">> ELSE <<"0", e>>

\* The command has ended with an error e: Run passes it on and goes on to close w,
\* FullOutput returns.
Finish(e, code) ==
  \/ mode = "Run" /\ done' = e /\ runner' = "close" /\ UNCHANGED result
  \/ mode = "FullOutput" /\ result' = code /\ runner' = "end" /\ UNCHANGED done

\* Start starts the command, unless the context is done already.  It can fail whatever
\* the context is: the error of a command that is not found comes first.
Start ==
  /\ runner = "start"
  /\ \/ /\ \E e \in {"start error", "deadline", "canceled"} :
             e \in {"start error", ctx} /\ Finish(e, <<"0", e>>)
        /\ UNCHANGED <<proc, copier>>
     \/ /\ ctx = "live"
        /\ proc' = "running" /\ copier' = "copy" /\ runner' = "wait"
        /\ UNCHANGED <<done, result>>
  /\ UNCHANGED <<mode, ctx, child, written, ospipe, copying, status, Done, w, reader, read>>

\* What Wait returns.
WaitError == IF proc = "exit 0" THEN "nil" ELSE proc

\* Mutant: the output is not waited for.
WaitReturnsEarly ==
  /\ runner = "wait"
  /\ proc \in ExitStates
  /\ Finish(WaitError, exitCode(WaitError))
  /\ UNCHANGED <<ctx, procVars, copyVars, status, Done, w, reader, read>>

\* Wait waits for the process and for the copying of its output.
WaitReturns ==
  /\ runner = "wait"
  /\ proc \in ExitStates /\ copier = "end"
  /\ Finish(WaitError, exitCode(WaitError))
  /\ UNCHANGED <<ctx, procVars, copyVars, status, Done, w, reader, read>>

\* Mutant: w is not closed.
NoClose ==
  /\ runner = "close"
  /\ runner' = "end"
  /\ UNCHANGED <<ctx, procVars, copyVars, chanVars, w, readVars>>

CloseW ==
  /\ runner = "close"
  /\ w' = "closed"
  /\ runner' = "end"
  /\ UNCHANGED <<ctx, procVars, copyVars, chanVars, readVars>>

\* Mutant: the status is that of the command only.
SendStatusOfRun ==
  /\ status = "select"
  /\ done # "empty" /\ Done' = done
  /\ status' = "end"
  /\ UNCHANGED <<ctx, procVars, copyVars, runner, done, w, readVars>>

\* The select of the status goroutine; if both cases are ready either is taken.
SendStatus ==
  /\ status = "select"
  /\ \/ ctx # "live" /\ Done' = ctx
     \/ done # "empty" /\ Done' = done
  /\ status' = "end"
  /\ UNCHANGED <<ctx, procVars, copyVars, runner, done, w, readVars>>

-----------------------------------------------------------------------------

Next ==
  \/ CtxDone \/ Write \/ Fork \/ ChildExits \/ Exit \/ Kill \/ CopyChunk \/ CopyEnds
  \/ Read \/ ReadEOF \/ StopReading
  \/ Start \/ WaitReturns \/ CloseW \/ SendStatus

\* Goroutines are scheduled, a killed process dies, and a client that reads goes on
\* reading.  The command, its children and the context do as they like.
Fairness ==
  /\ WF_vars(Kill) /\ WF_vars(CopyChunk) /\ WF_vars(CopyEnds)
  /\ WF_vars(Read) /\ WF_vars(ReadEOF)
  /\ WF_vars(Start) /\ WF_vars(WaitReturns) /\ WF_vars(CloseW) /\ WF_vars(SendStatus)

Spec == Init /\ [][Next]_vars /\ Fairness

-----------------------------------------------------------------------------
(* Properties. *)

\* Nothing of the output is lost: when the exit status of the command is delivered,
\* or the reader meets the end, the client has read all that was written.
OutputBeforeStatus ==
  Done \in {"nil", "exit N"} \/ reader = "eof" => read = written

\* Done is told when the context of a Run ends, whatever the command, its children
\* and the client do.
CancelIsReported == mode = "Run" /\ ctx # "live" ~> Done # "empty"

\* When the command has exited and left no child behind, Done is told and a client
\* that does not stop reading meets the end of the output; FullOutput returns.
ExitIsReported ==
  proc \in ExitStates /\ child = "none" ~>
    \/ Done # "empty" /\ reader = "eof"
    \/ reader = "stopped"
    \/ result[1] # "none"

\* The comment of exitCode: the code that FullOutput returns is the command's exit
\* code if the error is nil, and then all of the output is there; a command that a
\* timeout or a signal ended, or that never started, is an error.
CodeIsReal ==
  result[1] # "none" /\ result[2] = "nil" =>
    /\ proc = IF result[1] = "0" THEN "exit 0" ELSE "exit N"
    /\ read = written

\* The comment in Run: the pipe is closed when the command is cancelled or its
\* timeout reached, "unblocking the reader".
CancelUnblocksReader ==
  mode = "Run" /\ ctx # "live" /\ reader = "reading" ~> reader = "eof"
=============================================================================
