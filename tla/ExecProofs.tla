----------------------------- MODULE ExecProofs -----------------------------
(***************************************************************************)
(* No output is lost and no exit code is made up, for any amount of output *)
(* and any pipe.  FlowInv follows every chunk from the command to the      *)
(* client; EndInv says that the end of the copying, for which Wait waits,  *)
(* is final; ResultInv orders what Run and FullOutput report after it.     *)
(***************************************************************************)
EXTENDS Exec, TLAPS

\* Every chunk that was written is in the pipe, on offer, or read.
FlowInv ==
  /\ written \in Nat /\ ospipe \in Nat /\ copying \in {0, 1} /\ read \in Nat
  /\ written = read + copying + ospipe

\* Without a process there is no output; once the copying has ended nobody can
\* write any more and nothing is under way.
EndInv ==
  /\ proc \in {"none", "running", "exit 0", "exit N", "killed"}
  /\ child \in {"none", "alive"}
  /\ runner = "start" => proc = "none"
  /\ proc = "none" => child = "none" /\ written = 0 /\ copier = "none"
  /\ copier = "end" => proc \in ExitStates /\ child = "none" /\ copying = 0 /\ ospipe = 0

\* All output has been read, and there will be no more.
Over == proc = "none" \/ copier = "end"

\* A status, the end of the stream and a result come only when the output is over; a
\* result without an error comes from the exit that it names.
ResultInv ==
  /\ ctx \in {"live", "deadline", "canceled"}
  /\ runner \in {"start", "wait", "close", "end"}
  /\ runner \in {"close", "end"} => Over
  /\ done # "empty" => runner \in {"close", "end"}
  /\ Done \in {"nil", "exit N"} => done = Done
  /\ w = "closed" => runner = "end"
  /\ reader = "eof" => w = "closed"
  /\ result[1] # "none" => runner = "end"
  /\ result[1] # "none" /\ result[2] = "nil" =>
       copier = "end" /\ proc = IF result[1] = "0" THEN "exit 0" ELSE "exit N"

ExecInv == FlowInv /\ EndInv /\ ResultInv

LEMMA InitExec == Init => ExecInv
  BY DEF Init, ExecInv, FlowInv, EndInv, ResultInv, Over, ExitStates

LEMMA NextFlow == FlowInv /\ [Next]_vars => FlowInv'
<1> SUFFICES ASSUME FlowInv, [Next]_vars PROVE FlowInv'
    OBVIOUS
<1> USE DEF FlowInv
<1>1. CASE Write
    BY <1>1 DEF Write, readVars
<1>2. CASE CopyChunk
    BY <1>2 DEF CopyChunk, procVars, readVars
<1>3. CASE Read
    BY <1>3 DEF Read, procVars
<1>4. CASE UNCHANGED <<written, ospipe, copying, read>>
    BY <1>4
<1> QED
    BY <1>1, <1>2, <1>3, <1>4, Zenon
    DEF Next, vars, procVars, copyVars, readVars, CtxDone, Fork, ChildExits, Exit, Kill, CopyEnds,
        ReadEOF, StopReading, Start, WaitReturns, CloseW, SendStatus

LEMMA NextEnd == ExecInv /\ [Next]_vars => EndInv'
<1> SUFFICES ASSUME ExecInv, [Next]_vars PROVE EndInv'
    OBVIOUS
<1> USE DEF ExecInv, EndInv, ExitStates
<1>1. CASE Write
    BY <1>1, Zenon DEF Write
<1>2. CASE Fork \/ ChildExits
    BY <1>2, Zenon DEF Fork, ChildExits, copyVars
<1>3. CASE Exit \/ Kill
    BY <1>3, Zenon DEF Exit, Kill, copyVars
<1>4. CASE CopyChunk \/ CopyEnds
    BY <1>4, Zenon DEF CopyChunk, CopyEnds, procVars
<1>5. CASE Read
    BY <1>5, Zenon DEF Read, procVars
<1>6. CASE Start
    BY <1>6, Zenon DEF Start, Finish
<1>7. CASE WaitReturns \/ CloseW
    BY <1>7, Zenon DEF WaitReturns, CloseW, Finish, procVars, copyVars
<1>8. CASE UNCHANGED <<procVars, copyVars, runner>>
    BY <1>8, Zenon DEF procVars, copyVars
<1> QED
    BY <1>1, <1>2, <1>3, <1>4, <1>5, <1>6, <1>7, <1>8, Zenon
    DEF Next, vars, CtxDone, ReadEOF, StopReading, SendStatus

LEMMA NextResult == ExecInv /\ [Next]_vars => ResultInv'
<1> SUFFICES ASSUME ExecInv, [Next]_vars PROVE ResultInv'
    OBVIOUS
<1> USE DEF ExecInv, EndInv, ResultInv, Over, ExitStates
<1>1. CASE CtxDone
    BY <1>1, Zenon DEF CtxDone, procVars, copyVars, chanVars, readVars
<1>2. CASE Write \/ Fork \/ ChildExits
    BY <1>2, Zenon DEF Write, Fork, ChildExits, copyVars, chanVars, readVars
<1>3. CASE Exit \/ Kill
    BY <1>3, Zenon DEF Exit, Kill, copyVars, chanVars, readVars
<1>4. CASE CopyChunk \/ CopyEnds
    BY <1>4, Zenon DEF CopyChunk, CopyEnds, procVars, chanVars, readVars
<1>5. CASE Read \/ ReadEOF \/ StopReading
    BY <1>5, Zenon DEF Read, ReadEOF, StopReading, procVars, copyVars, chanVars
<1>6. CASE Start
  <2>1. ASSUME NEW e \in {"start error", "deadline", "canceled"}, Finish(e, <<"0", e>>),
               UNCHANGED <<proc, copier, ctx, Done, w, reader>>
        PROVE  ResultInv'
    <3>1. CASE mode = "Run" /\ done' = e /\ runner' = "close" /\ UNCHANGED result
      BY <1>6, <2>1, <3>1, Zenon DEF Start
    <3>2. CASE mode = "FullOutput" /\ result' = <<"0", e>> /\ runner' = "end" /\ UNCHANGED done
      <4>1. result'[1] = "0" /\ result'[2] # "nil"
        BY <3>2, Zenon
      <4> QED
        BY <1>6, <2>1, <3>2, <4>1, Zenon DEF Start
    <3> QED
      BY <2>1, <3>1, <3>2, Zenon DEF Finish
  <2>2. CASE proc' = "running" /\ copier' = "copy" /\ runner' = "wait" /\ UNCHANGED <<done, result>>
    BY <1>6, <2>2, Zenon DEF Start
  <2> QED
    BY <1>6, <2>1, <2>2, Zenon DEF Start
<1>7. CASE WaitReturns
  <2> USE <1>7 DEF WaitReturns, procVars, copyVars
  <2>1. CASE mode = "Run" /\ done' = WaitError /\ runner' = "close" /\ UNCHANGED result
    BY <2>1, Zenon
  <2>2. CASE /\ mode = "FullOutput" /\ result' = exitCode(WaitError)
             /\ runner' = "end" /\ UNCHANGED done
    <3>1. result'[2] = "nil" => proc = IF result'[1] = "0" THEN "exit 0" ELSE "exit N"
      BY <2>2, Zenon DEF WaitError, exitCode
    <3> QED
      BY <2>2, <3>1, Zenon
  <2> QED
    BY <2>1, <2>2, Zenon DEF Finish
<1>8. CASE CloseW
    BY <1>8, Zenon DEF CloseW, procVars, copyVars, chanVars, readVars
<1>9. CASE SendStatus
    BY <1>9, Zenon DEF SendStatus, procVars, copyVars, readVars
<1>10. CASE UNCHANGED vars
    BY <1>10, Zenon DEF vars, procVars, copyVars, chanVars, readVars
<1> QED
    BY <1>1, <1>2, <1>3, <1>4, <1>5, <1>6, <1>7, <1>8, <1>9, <1>10, Zenon DEF Next

LEMMA ExecInvariant == Spec => []ExecInv
<1>1. ExecInv /\ [Next]_vars => ExecInv'
    BY NextFlow, NextEnd, NextResult DEF ExecInv
<1> QED
    BY <1>1, InitExec, PTL DEF Spec

LEMMA OverIsRead == FlowInv /\ EndInv /\ Over => read = written
<1> SUFFICES ASSUME FlowInv, EndInv, Over PROVE read = written
    OBVIOUS
<1>1. written = 0 \/ (copying = 0 /\ ospipe = 0)
    BY Zenon DEF EndInv, Over
<1>2. /\ written \in Nat /\ ospipe \in Nat /\ copying \in Nat /\ read \in Nat
      /\ written = read + copying + ospipe
    BY DEF FlowInv
<1> QED
    BY <1>1, <1>2

\* When Run has delivered an exit status, or the reader has met the end of the
\* stream, all the output has been read, whatever its size: cmd.Run waits for the
\* copying, and w is closed after it.
THEOREM NoOutputLost == Spec => []OutputBeforeStatus
<1>1. ExecInv => OutputBeforeStatus
    BY OverIsRead, Zenon DEF ExecInv, ResultInv, OutputBeforeStatus
<1> QED
    BY <1>1, ExecInvariant, PTL

\* A code that FullOutput returns without an error is the exit code of the command,
\* and its output is complete; exitCode turns every other end into an error.
THEOREM ExitCodesAreReal == Spec => []CodeIsReal
<1>1. ExecInv => CodeIsReal
    BY OverIsRead, Zenon DEF ExecInv, ResultInv, Over, CodeIsReal
<1> QED
    BY <1>1, ExecInvariant, PTL

\* Every variable of Exec has its type, so no counter of chunks exceeds what was
\* written, nor the pipe its size; FlowInv bounds what has been read.
THEOREM ExecTypeCorrect == Spec => []TypeOK
<1>1. Init => TypeOK
  <2>1. <<"none", "nil">> \in ({"none", "0", "N"} \X Results)
    BY Zenon DEF Results
  <2> QED
    BY <2>1, ExecAssumption DEF Init, TypeOK
<1>2. FlowInv /\ FlowInv' /\ TypeOK /\ [Next]_vars => TypeOK'
  <2> SUFFICES ASSUME FlowInv, FlowInv', TypeOK, [Next]_vars PROVE TypeOK'
    OBVIOUS
  <2> USE DEF TypeOK
  <2>1. CASE CtxDone
    BY <2>1 DEF CtxDone, procVars, copyVars, chanVars, readVars
  <2>2. CASE Write
    BY <2>2, ExecAssumption DEF Write, chanVars, readVars
  <2>3. CASE Fork \/ ChildExits
    BY <2>3 DEF Fork, ChildExits, copyVars, chanVars, readVars
  <2>4. CASE Exit \/ Kill
    BY <2>4, Zenon DEF Exit, Kill, ExitStates, copyVars, chanVars, readVars
  <2>5. CASE CopyChunk
    BY <2>5, ExecAssumption DEF CopyChunk, procVars, chanVars, readVars
  <2>6. CASE CopyEnds
    BY <2>6 DEF CopyEnds, procVars, chanVars, readVars
  <2>7. CASE Read
    <3>1. read' \in 0 .. Chunks
      BY <2>7, ExecAssumption DEF Read, FlowInv
    <3> QED
      BY <2>7, <3>1 DEF Read, procVars, chanVars
  <2>8. CASE ReadEOF \/ StopReading
    BY <2>8 DEF ReadEOF, StopReading, procVars, copyVars, chanVars
  <2>9. CASE Start
    <3>1. ASSUME NEW e \in {"start error", "deadline", "canceled"}, Finish(e, <<"0", e>>)
          PROVE  done' \in Results \cup {"empty"} /\ result' \in ({"none", "0", "N"} \X Results)
                 /\ runner' \in {"close", "end"}
      <4>1. e \in Results /\ <<"0", e>> \in ({"none", "0", "N"} \X Results)
        BY <3>1, Zenon DEF Results
      <4> QED
        BY <3>1, <4>1, Zenon DEF Finish
    <3>2. /\ done' \in Results \cup {"empty"} /\ result' \in ({"none", "0", "N"} \X Results)
          /\ runner' \in {"start", "wait", "close", "end"}
          /\ proc' \in {"none", "running"} \cup ExitStates /\ copier' \in {"none", "copy", "end"}
      BY <2>9, <3>1, Zenon DEF Start
    <3> QED
      BY <2>9, <3>2, Zenon DEF Start
  <2>10. CASE WaitReturns
    <3>1. WaitError \in {"nil", "exit N", "killed"}
      BY <2>10, Zenon DEF WaitReturns, WaitError, ExitStates
    <3>2. /\ WaitError \in Results
          /\ exitCode(WaitError) \in ({"none", "0", "N"} \X Results)
      BY <3>1, Zenon DEF exitCode, Results
    <3>3. /\ done' \in Results \cup {"empty"} /\ result' \in ({"none", "0", "N"} \X Results)
          /\ runner' \in {"start", "wait", "close", "end"}
      BY <2>10, <3>2, Zenon DEF WaitReturns, Finish
    <3> QED
      BY <2>10, <3>3, Zenon DEF WaitReturns, procVars, copyVars
  <2>11. CASE CloseW
    BY <2>11 DEF CloseW, procVars, copyVars, chanVars, readVars
  <2>12. CASE SendStatus
    <3>1. Done' \in Results \cup {"empty"} /\ status' \in {"select", "end"}
      BY <2>12, Zenon DEF SendStatus, Results
    <3> QED
      BY <2>12, <3>1 DEF SendStatus, procVars, copyVars, readVars
  <2>13. CASE UNCHANGED vars
    BY <2>13 DEF vars, procVars, copyVars, chanVars, readVars
  <2> QED
    BY <2>1, <2>2, <2>3, <2>4, <2>5, <2>6, <2>7, <2>8, <2>9, <2>10, <2>11, <2>12, <2>13 DEF Next
<1>3. Spec => []FlowInv
    BY ExecInvariant, PTL DEF ExecInv
<1> QED
    BY <1>1, <1>2, <1>3, PTL DEF Spec
=============================================================================
