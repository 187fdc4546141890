--------------------------- MODULE ElectorProofs ---------------------------
(***************************************************************************)
(* What the electors promise, for any number of electors, any depth of the *)
(* base path, any width of the sequence counter and any number of faults:  *)
(* type correctness, what a client receives and how an elector ends,       *)
(* single leadership, what a waiting elector knows, and that the electors  *)
(* implement the abstract election.                                        *)
(***************************************************************************)
EXTENDS Elector, TLAPS

(* Type correctness. *)

\* What the ends of the actions of g2 assign.
G2Types ==
  /\ g2 \in [Electors -> Calls \cup {"off", "send", "select", "end"}]
  /\ errch \in [Electors -> {"empty", "nil", "err"}]
  /\ shouldQuit \in [Electors -> BOOLEAN]

\* Goto moves g2 to a program point of its own.
LEMMA GotoType ==
  ASSUME TypeOK, NEW e \in Electors,
         NEW pc \in Calls \cup {"off", "send", "select", "end"}, Goto(e, pc)
  PROVE  G2Types'
BY DEF TypeOK, Goto, G2Types

\* Return puts an error in errch, or nothing.
LEMMA ReturnType ==
  ASSUME TypeOK, NEW e \in Electors, NEW err \in {"nil", "err"}, Return(e, err)
  PROVE  /\ errch' \in [Electors -> {"empty", "nil", "err"}]
         /\ shouldQuit' \in [Electors -> BOOLEAN]
BY DEF TypeOK, Return, TrySendErr

\* Fail ends g2 with an error.
LEMMA FailType ==
  ASSUME TypeOK, NEW e \in Electors, Fail(e)
  PROVE  G2Types'
BY ReturnType, Zenon DEF TypeOK, Fail, G2Types

\* The loop of initialize stays within the segments of basePath.
LEMMA NextSegmentType ==
  ASSUME TypeOK, NEW e \in Electors, NextSegment(e)
  PROVE  G2Types' /\ lvl' \in [Electors -> 0 .. Depth]
<1>1. G2Types'
  BY GotoType DEF NextSegment, Calls
<1>2. lvl' \in [Electors -> 0 .. Depth]
  <2>1. lvl[e] \in 0 .. Depth
    BY DEF TypeOK
  <2>2. (IF lvl[e] = Depth THEN lvl[e] ELSE lvl[e] + 1) \in 0 .. Depth
    BY <2>1, ElectorAssumption
  <2> QED
    BY <2>2 DEF NextSegment, TypeOK
<1> QED
  BY <1>1, <1>2

\* What the creation of a lock node assigns.
LockTypes ==
  /\ live \subseteq Electors
  /\ seq \in [Electors -> MinSeq .. MaxSeq]
  /\ nextSeq \in MinSeq .. MaxSeq
  /\ wrapped \in BOOLEAN

\* The sequence counter stays in its range.
LEMMA AddLockNodeType ==
  ASSUME TypeOK, NEW e \in Electors, AddLockNode(e)
  PROVE  LockTypes' /\ watch' \in [Electors -> WatchStates]
<1>1. live' \subseteq Electors
  BY DEF AddLockNode, TypeOK
<1>2. seq' \in [Electors -> MinSeq .. MaxSeq]
  BY DEF AddLockNode, TypeOK
<1>3. nextSeq' \in MinSeq .. MaxSeq
  BY ElectorAssumption DEF AddLockNode, TypeOK
<1>4. wrapped' \in BOOLEAN
  BY Zenon DEF AddLockNode
<1>5. watch' \in [Electors -> WatchStates]
  BY DEF AddLockNode, NotifyWatches, TypeOK, WatchStates
<1> QED
  BY <1>1, <1>2, <1>3, <1>4, <1>5 DEF LockTypes

\* The event channel of the zk client only ever holds session states.
LEMMA SendZKEventType ==
  ASSUME TypeOK, NEW e \in Electors, NEW state \in ZKStates, SendZKEvent(e, state)
  PROVE  zkEvents' \in [Electors -> SUBSET ZKStates]
<1>1. zkEvents[e] \cup {state} \in SUBSET ZKStates
  BY DEF TypeOK
<1>2. CASE zkEvents' = [zkEvents EXCEPT ![e] = @ \cup {state}]
  BY <1>1, <1>2 DEF TypeOK
<1>3. CASE UNCHANGED zkEvents
  BY <1>3 DEF TypeOK
<1> QED
  BY <1>2, <1>3 DEF SendZKEvent

\* Every step of every goroutine, of the zk client and of ZooKeeper keeps the
\* types of the state of Elector (elector.go:38-50 and the locals of start).
LEMMA TypeStep == TypeOK /\ [Next]_vars => TypeOK'
<1> SUFFICES ASSUME TypeOK, [Next]_vars PROVE TypeOK'
  OBVIOUS
<1>1. CASE UNCHANGED vars
  BY <1>1, SMTT(30) DEF vars, zkVars, connVars, pcVars, runVars, dataVars, apiVars, TypeOK
<1>2. ASSUME NEW e \in Electors, Start(e) PROVE TypeOK'
  BY <1>2, Zenon DEF Start, zkVars, runVars, dataVars, apiVars, TypeOK, LinkStates, Calls
<1>3. ASSUME NEW e \in Electors, Close(e) PROVE TypeOK'
  <2>1. CASE e \in OwnConn
    <3>1. CloseConn(e)
      BY <1>3, <2>1 DEF Close
    <3>2. link' \in [Electors -> LinkStates]
      BY <3>1 DEF CloseConn, TypeOK, LinkStates
    <3>3. live' \subseteq Electors /\ expired' \in [Electors -> BOOLEAN]
      BY <3>1, Zenon DEF CloseConn, TypeOK
    <3>4. watch' \in [Electors -> WatchStates]
      <4>1. PICK outcome \in {"event", "ended"} :
              \/ watch' = [f \in Electors |->
                             IF f = e THEN Invalidated(watch[f], outcome)
                             ELSE IF watch[f] = "armed" /\ ~expired[f] THEN "stale"
                             ELSE watch[f]]
              \/ watch' = [watch EXCEPT ![e] = Invalidated(@, outcome)]
        BY <3>1 DEF CloseConn
      <4>2. \A f \in Electors : Invalidated(watch[f], outcome) \in WatchStates
        BY DEF Invalidated, TypeOK, WatchStates
      <4>3. CASE watch' = [f \in Electors |->
                             IF f = e THEN Invalidated(watch[f], outcome)
                             ELSE IF watch[f] = "armed" /\ ~expired[f] THEN "stale"
                             ELSE watch[f]]
        BY <4>2, <4>3 DEF TypeOK, WatchStates
      <4>4. CASE watch' = [watch EXCEPT ![e] = Invalidated(@, outcome)]
        BY <4>2, <4>4 DEF TypeOK
      <4> QED
        BY <4>1, <4>3, <4>4
    <3> QED
      BY <1>3, <3>2, <3>3, <3>4, Zenon DEF Close, pcVars, runVars, dataVars, TypeOK
  <2>2. CASE e \notin OwnConn
    BY <1>3, <2>2, Zenon DEF Close, pcVars, runVars, dataVars, TypeOK
  <2> QED
    BY <2>1, <2>2
<1>4. ASSUME NEW e \in Electors, Disconnect(e) PROVE TypeOK'
  <2>1. link' \in [Electors -> LinkStates] /\ faults' \in 0 .. MaxFaults
    BY <1>4, ElectorAssumption DEF Disconnect, LoseLink, TypeOK, LinkStates
  <2>2. zkEvents' \in [Electors -> SUBSET ZKStates]
    BY <1>4, SendZKEventType DEF Disconnect, LoseLink, ZKStates
  <2> QED
    BY <1>4, <2>1, <2>2, Zenon DEF Disconnect, zkVars, pcVars, runVars, dataVars, apiVars, TypeOK
<1>5. ASSUME NEW e \in Electors, Reconnect(e) PROVE TypeOK'
  <2>1. link' \in [Electors -> LinkStates] /\ expired' \in [Electors -> BOOLEAN]
    BY <1>5 DEF Reconnect, TypeOK, LinkStates
  <2>2. watch' \in [Electors -> WatchStates]
    BY <1>5 DEF Reconnect, Invalidated, TypeOK, WatchStates
  <2>3. zkEvents' \in [Electors -> SUBSET ZKStates]
    BY <1>5, SendZKEventType DEF Reconnect, ZKStates
  <2> QED
    BY <1>5, <2>1, <2>2, <2>3, Zenon
       DEF Reconnect, zkVars, pcVars, runVars, dataVars, apiVars, TypeOK
<1>6. ASSUME NEW e \in Electors, Expire(e) PROVE TypeOK'
  <2>1. live' \subseteq Electors /\ expired' \in [Electors -> BOOLEAN]
    BY <1>6 DEF Expire, EndSession, TypeOK
  <2>2. watch' \in [Electors -> WatchStates]
    BY <1>6 DEF Expire, EndSession, NotifyWatches, TypeOK, WatchStates
  <2>3. faults' \in 0 .. MaxFaults
    BY <1>6, ElectorAssumption DEF Expire, TypeOK
  <2> QED
    BY <1>6, <2>1, <2>2, <2>3, Zenon
       DEF Expire, EndSession, pcVars, runVars, dataVars, apiVars, TypeOK
<1>7. ASSUME NEW e \in Electors, ExpireClosed(e) PROVE TypeOK'
  <2>1. live' \subseteq Electors /\ expired' \in [Electors -> BOOLEAN]
    BY <1>7 DEF ExpireClosed, EndSession, TypeOK
  <2>2. watch' \in [Electors -> WatchStates]
    BY <1>7 DEF ExpireClosed, EndSession, NotifyWatches, TypeOK, WatchStates
  <2> QED
    BY <1>7, <2>1, <2>2, Zenon
       DEF ExpireClosed, EndSession, pcVars, runVars, dataVars, apiVars, TypeOK
<1>8. ASSUME NEW e \in Electors, WatchArrives(e) PROVE TypeOK'
  BY <1>8, Zenon DEF WatchArrives, zkVars, pcVars, runVars, dataVars, apiVars, TypeOK,
              WatchStates
<1>9. ASSUME NEW e \in Electors, Watcher(e) PROVE TypeOK'
  <2>1. CASE ZKEvent(e)
    <3> PICK state \in Pending(e) :
             IF checkZKEvent(state)
               THEN /\ zkEvents' = [zkEvents EXCEPT ![e] = @ \ {state}]
                    /\ UNCHANGED <<g1, errch, shouldQuit>>
               ELSE /\ Return(e, "err")
                    /\ g1' = [g1 EXCEPT ![e] = "end"]
                    /\ zkEvents' = [zkEvents EXCEPT ![e] = {}]
      BY <2>1 DEF ZKEvent
    <3>1. zkEvents' \in [Electors -> SUBSET ZKStates]
      <4>1. zkEvents[e] \ {state} \in SUBSET ZKStates /\ {} \in SUBSET ZKStates
        BY DEF TypeOK
      <4> QED
        BY <4>1, ZenonT(30) DEF TypeOK
    <3>2. g1' \in [Electors -> {"off", "watch", "end"}]
      BY Zenon DEF TypeOK
    <3>3. /\ errch' \in [Electors -> {"empty", "nil", "err"}]
          /\ shouldQuit' \in [Electors -> BOOLEAN]
      BY ReturnType, Zenon DEF TypeOK
    <3> QED
      BY <2>1, <3>1, <3>2, <3>3, Zenon DEF ZKEvent, zkVars, dataVars, apiVars, TypeOK
  <2>2. CASE WatcherQuits(e)
    <3>1. zkEvents' \in [Electors -> SUBSET ZKStates]
      BY <2>2 DEF WatcherQuits, TypeOK
    <3> QED
      BY <2>2, <3>1, Zenon DEF WatcherQuits, zkVars, runVars, dataVars, apiVars, TypeOK
  <2> QED
    BY <1>9, <2>1, <2>2 DEF Watcher
<1>10. ASSUME NEW e \in Electors, CreateLockUnanswered(e) PROVE TypeOK'
  <2>1. LockTypes' /\ watch' \in [Electors -> WatchStates]
    BY <1>10, AddLockNodeType DEF CreateLockUnanswered
  <2>3. link' \in [Electors -> LinkStates] /\ faults' \in 0 .. MaxFaults
    BY <1>10, ElectorAssumption, SMTT(30) DEF CreateLockUnanswered, LoseLink, TypeOK, LinkStates
  <2>4. zkEvents' \in [Electors -> SUBSET ZKStates]
    BY <1>10, SendZKEventType DEF CreateLockUnanswered, LoseLink, ZKStates
  <2>5. G2Types'
    BY <1>10, GotoType, Zenon DEF CreateLockUnanswered, Calls
  <2> QED
    BY <1>10, <2>1, <2>3, <2>4, <2>5, Zenon
       DEF CreateLockUnanswered, LockTypes, G2Types, dataVars, apiVars, TypeOK
<1>11. ASSUME NEW e \in Electors, SendEvent(e) PROVE TypeOK'
  <2>1. G2Types'
    BY <1>11, GotoType DEF SendEvent
  <2>2. received' \in [Electors -> Seq(EventValues)]
    BY <1>11 DEF SendEvent, TypeOK, EventValues
  <2> QED
    BY <1>11, <2>1, <2>2, Zenon DEF SendEvent, G2Types, zkVars, connVars, dataVars, TypeOK
<1>12. ASSUME NEW e \in Electors, SendErr(e) PROVE TypeOK'
  <2>1. received' \in [Electors -> Seq(EventValues)]
    BY <1>12 DEF SendErr, TypeOK, EventValues
  <2>2. main' \in [Electors -> {"off", "wait", "end"}]
    BY <1>12 DEF SendErr, TypeOK
  <2> QED
    BY <1>12, <2>1, <2>2, Zenon
       DEF SendErr, zkVars, connVars, runVars, dataVars, TypeOK
<1>13. ASSUME NEW e \in Electors, DropErr(e) PROVE TypeOK'
  BY <1>13, Zenon DEF DropErr, Finished, zkVars, connVars, runVars, dataVars, apiVars, TypeOK
<1>14. ASSUME NEW e \in Electors, InitializeExists(e) PROVE TypeOK'
  BY <1>14, Zenon DEF InitializeExists, Goto, zkVars, connVars, dataVars, apiVars, TypeOK, Calls
<1>15. ASSUME NEW e \in Electors, SegmentExists(e) PROVE TypeOK'
  <2>1. G2Types' /\ lvl' \in [Electors -> 0 .. Depth]
    BY <1>15, NextSegmentType, GotoType, Zenon DEF SegmentExists, TypeOK, Calls
  <2> QED
    BY <1>15, <2>1, Zenon DEF SegmentExists, G2Types, zkVars, connVars, dataVars, apiVars, TypeOK
<1>16. ASSUME NEW e \in Electors, SegmentCreate(e) PROVE TypeOK'
  <2>1. G2Types' /\ lvl' \in [Electors -> 0 .. Depth]
    BY <1>16, NextSegmentType, FailType, Zenon DEF SegmentCreate, TypeOK
  <2>2. depth' \in 0 .. Depth
    BY <1>16 DEF SegmentCreate, TypeOK
  <2> QED
    BY <1>16, <2>1, <2>2, Zenon DEF SegmentCreate, G2Types, connVars, dataVars, apiVars, TypeOK
<1>17. ASSUME NEW e \in Electors, CreateLock(e) PROVE TypeOK'
  <2>1. LockTypes' /\ watch' \in [Electors -> WatchStates]
    BY <1>17, AddLockNodeType DEF CreateLock
  <2>2. G2Types'
    BY <1>17, GotoType DEF CreateLock, Calls
  <2> QED
    BY <1>17, <2>1, <2>2, Zenon
       DEF CreateLock, LockTypes, G2Types, dataVars, apiVars, TypeOK
<1>18. ASSUME NEW e \in Electors, RecoverLock(e) PROVE TypeOK'
  BY <1>18, Zenon DEF RecoverLock, Goto, zkVars, connVars, dataVars, apiVars, TypeOK, Calls
<1>19. ASSUME NEW e \in Electors, GetChildren(e) PROVE TypeOK'
  <2>1. watch' \in [Electors -> WatchStates]
    BY <1>19 DEF GetChildren, TypeOK, WatchStates
  <2>2. G2Types'
    BY <1>19, FailType, GotoType, SMTT(30) DEF GetChildren, Calls
  <2>3. leaderNode' \in [Electors -> [owner : Electors, seq : MinSeq .. MaxSeq]]
    <3>1. \A f \in live : [owner |-> f, seq |-> seq[f]] \in
                            [owner : Electors, seq : MinSeq .. MaxSeq]
      BY DEF TypeOK
    <3>2. CASE UNCHANGED leaderNode
      BY <3>2, SMTT(30) DEF TypeOK
    <3>3. ASSUME NEW f \in live,
                 leaderNode' = [leaderNode EXCEPT ![e] = [owner |-> f, seq |-> seq[f]]]
          PROVE  leaderNode' \in [Electors -> [owner : Electors, seq : MinSeq .. MaxSeq]]
      BY <3>1, <3>3 DEF TypeOK
    <3> QED
      BY <1>19, <3>2, <3>3, SMTT(30) DEF GetChildren
  <2> QED
    BY <1>19, <2>1, <2>2, <2>3, Zenon DEF GetChildren, G2Types, zkVars, dataVars, apiVars, TypeOK
<1>20. ASSUME NEW e \in Electors, GetIdent(e) PROVE TypeOK'
  <2>1. leaderNode' \in [Electors -> [owner : Electors, seq : MinSeq .. MaxSeq]]
    <3>1. NoLeaderNode(e) \in [owner : Electors, seq : MinSeq .. MaxSeq]
      <4>1. MinSeq \in MinSeq .. MaxSeq
        BY ElectorAssumption
      <4> QED
        BY <4>1, Zenon DEF NoLeaderNode
    <3> QED
      BY <1>20, <3>1 DEF GetIdent, TypeOK
  <2>2. CASE NodeExists(leaderNode[e])
    <3>1. updateLeaderData(e, leaderNode[e].owner, leaderNode[e].seq = seq[e])
      BY <1>20, <2>2, Zenon DEF GetIdent
    <3>2. G2Types'
      BY <3>1, GotoType, Zenon DEF updateLeaderData, Calls
    <3>3. leaderIdent' \in [Electors -> Electors \cup {NoIdent}]
      BY <3>1, Zenon DEF updateLeaderData, TypeOK
    <3>4. isLeader' \in [Electors -> BOOLEAN]
      BY <3>1, Zenon DEF updateLeaderData, TypeOK
    <3>5. firstLeaderUpdate' \in [Electors -> BOOLEAN]
      BY <3>1, Zenon DEF updateLeaderData, TypeOK
    <3> QED
      BY <1>20, <2>1, <3>2, <3>3, <3>4, <3>5, Zenon
         DEF GetIdent, G2Types, zkVars, connVars, apiVars, TypeOK
  <2>3. CASE ~NodeExists(leaderNode[e])
    <3>1. G2Types'
      BY <1>20, <2>3, FailType, Zenon DEF GetIdent
    <3>2. UNCHANGED <<dataVars, firstLeaderUpdate>>
      BY <1>20, <2>3, Zenon DEF GetIdent
    <3>3. UNCHANGED <<zkVars, connVars, g1, main, lvl, apiVars>>
      BY <1>20, Zenon DEF GetIdent
    <3> QED
      BY <2>1, <3>1, <3>2, <3>3, Zenon
         DEF G2Types, zkVars, connVars, dataVars, apiVars, TypeOK
  <2> QED
    BY <2>2, <2>3, Zenon
<1>21. ASSUME NEW e \in Electors, DropEvent(e) PROVE TypeOK'
  BY <1>21, Zenon DEF DropEvent, Goto, zkVars, connVars, dataVars, apiVars, TypeOK
<1>22. ASSUME NEW e \in Electors, ChildEvent(e) PROVE TypeOK'
  <2>1. watch' \in [Electors -> WatchStates]
    BY <1>22 DEF ChildEvent, TypeOK, WatchStates
  <2>2. G2Types'
    BY <1>22, FailType, GotoType, Zenon DEF ChildEvent, Calls
  <2> QED
    BY <1>22, <2>1, <2>2, Zenon DEF ChildEvent, G2Types, zkVars, dataVars, apiVars, TypeOK
<1>23. ASSUME NEW e \in Electors, ElectionQuits(e) PROVE TypeOK'
  BY <1>23, Zenon DEF ElectionQuits, Return, TrySendErr, zkVars, connVars, dataVars, apiVars,
               TypeOK
<1>24. ASSUME NEW e \in Electors, CallFails(e) PROVE TypeOK'
  BY <1>24, Zenon DEF CallFails, Fail, Return, TrySendErr, zkVars, connVars, dataVars, apiVars,
               TypeOK
<1> QED
  BY <1>1, <1>2, <1>3, <1>4, <1>5, <1>6, <1>7, <1>8, <1>9, <1>10, <1>11, <1>12, <1>13,
     <1>14, <1>15, <1>16, <1>17, <1>18, <1>19, <1>20, <1>21, <1>22, <1>23, <1>24, SMTT(30)
     DEF Next, Election

\* The state of the electors always has its types.
THEOREM TypeCorrect == Spec => []TypeOK
<1>1. Init => TypeOK
  <2> SUFFICES ASSUME Init PROVE TypeOK
    OBVIOUS
  <2> USE ElectorAssumption DEF Init
  <2>1. depth \in 0 .. Depth /\ faults \in 0 .. MaxFaults
    OBVIOUS
  <2>2. /\ nextSeq \in MinSeq .. MaxSeq
        /\ seq \in [Electors -> MinSeq .. MaxSeq]
        /\ leaderNode \in [Electors -> [owner : Electors, seq : MinSeq .. MaxSeq]]
    BY DEF NoLeaderNode
  <2>3. /\ lvl \in [Electors -> 0 .. Depth]
        /\ received \in [Electors -> Seq(EventValues)]
        /\ zkEvents \in [Electors -> SUBSET ZKStates]
    OBVIOUS
  <2> QED
    BY <2>1, <2>2, <2>3, Zenon DEF TypeOK, LinkStates, WatchStates
<1> QED
  BY <1>1, TypeStep, PTL DEF Spec

-----------------------------------------------------------------------------
(* Facts for the other proofs. *)

\* The functions of the state are defined on all electors.
LEMMA Arrays ==
  ASSUME TypeOK
  PROVE  /\ DOMAIN link = Electors
         /\ DOMAIN g1 = Electors /\ DOMAIN g2 = Electors /\ DOMAIN main = Electors
         /\ DOMAIN seq = Electors /\ DOMAIN leaderNode = Electors
         /\ DOMAIN isLeader = Electors
         /\ DOMAIN errch = Electors /\ DOMAIN shouldQuit = Electors
         /\ DOMAIN received = Electors /\ DOMAIN closing = Electors
BY Zenon DEF TypeOK

\* Once started, an elector stays started.
LEMMA LinkStaysOn ==
  ASSUME TypeOK, NEW e \in Electors,
         \/ Close(e) \/ Disconnect(e) \/ Reconnect(e) \/ CreateLockUnanswered(e)
         \/ UNCHANGED link
  PROVE  \A f \in Electors : link'[f] = "off" => link[f] = "off"
<1>1. \/ link' = link
      \/ \E l : l # "off" /\ link' = [link EXCEPT ![e] = l]
  BY Zenon DEF Close, CloseConn, Disconnect, Reconnect, CreateLockUnanswered, LoseLink
<1> QED
  BY <1>1, Arrays

\* What the client was last told, after one more event.
LEMMA ToldAppend ==
  ASSUME TypeOK, NEW e \in Electors, NEW v,
         received' = [received EXCEPT ![e] = Append(@, v)]
  PROVE  Told(e)' = v /\ \A f \in Electors \ {e} : Told(f)' = Told(f)
<1>1. received[e] \in Seq(EventValues) /\ received'[e] = Append(received[e], v)
  BY DEF TypeOK
<1>2. \A f \in Electors \ {e} : received'[f] = received[f]
  BY DEF TypeOK
<1>3. /\ received'[e] # <<>>
      /\ received'[e][Len(received'[e])] = v
  BY <1>1, SMTT(30)
<1> QED
  BY <1>2, <1>3 DEF Told

-----------------------------------------------------------------------------
(* The error event. *)

\* Whoever closes shouldQuit first has put an error in errch.  A goroutine ends only
\* with shouldQuit closed, and start goes on only when both have ended.
QuitOf(e) ==
  /\ errch[e] # "nil"
  /\ shouldQuit[e] => errch[e] = "err"
  /\ g1[e] = "end" \/ g2[e] = "end" => shouldQuit[e]
  /\ main[e] = "off" => g1[e] = "off" /\ g2[e] = "off"
  /\ main[e] = "end" => g1[e] = "end" /\ g2[e] = "end"
  /\ link[e] = "off" => main[e] = "off"

QuitInv == \A e \in Electors : QuitOf(e)

\* A step of one elector does not disturb another.
LEMMA QuitOthers ==
  ASSUME QuitInv, NEW e \in Electors, QuitOf(e)',
         \A f \in Electors \ {e} :
           /\ g1'[f] = g1[f] /\ g2'[f] = g2[f] /\ main'[f] = main[f]
           /\ errch'[f] = errch[f] /\ shouldQuit'[f] = shouldQuit[f]
           /\ link'[f] = "off" => link[f] = "off"
  PROVE  QuitInv'
<1> SUFFICES ASSUME NEW f \in Electors \ {e} PROVE QuitOf(f)'
  BY Zenon DEF QuitInv
<1>1. QuitOf(f)
  BY Zenon DEF QuitInv
<1>2. /\ g1'[f] = g1[f] /\ g2'[f] = g2[f] /\ main'[f] = main[f]
      /\ errch'[f] = errch[f] /\ shouldQuit'[f] = shouldQuit[f]
      /\ link'[f] = "off" => link[f] = "off"
  BY Zenon
<1> QED
  BY <1>1, <1>2 DEF QuitOf

\* Returning with an error, or with nil once shouldQuit is closed, leaves an error
\* in errch.
LEMMA ReturnQuits ==
  ASSUME TypeOK, QuitInv, NEW e \in Electors, NEW err \in {"nil", "err"}, Return(e, err),
         err = "nil" => shouldQuit[e]
  PROVE  /\ errch'[e] = "err" /\ shouldQuit'[e]
         /\ \A f \in Electors \ {e} : errch'[f] = errch[f] /\ shouldQuit'[f] = shouldQuit[f]
<1>1. errch[e] \in {"empty", "err"} /\ (err = "nil" => errch[e] = "err")
  BY Zenon DEF TypeOK, QuitInv, QuitOf
<1>2. errch'[e] = "err"
  BY <1>1, Zenon DEF Return, TrySendErr, TypeOK
<1>3. shouldQuit'[e]
  BY Zenon DEF Return, TypeOK
<1>4. \A f \in Electors \ {e} : errch'[f] = errch[f] /\ shouldQuit'[f] = shouldQuit[f]
  BY DEF Return, TrySendErr, TypeOK
<1> QED
  BY <1>2, <1>3, <1>4, Zenon

\* The inductive step for the error event.
LEMMA QuitStep ==
  ASSUME TypeOK, QuitInv, [Next]_vars
  PROVE  QuitInv'
<1>1. CASE UNCHANGED vars
  BY <1>1, Zenon DEF vars, connVars, pcVars, runVars, QuitInv, QuitOf
<1>2. ASSUME NEW e \in Electors, Start(e) PROVE QuitInv'
  <2>1. /\ g1'[e] = "watch" /\ g2'[e] = "initialize" /\ main'[e] = "wait" /\ link'[e] = "up"
        /\ UNCHANGED <<errch, shouldQuit>>
    BY <1>2, Arrays, Zenon DEF Start, runVars
  <2>2. \A f \in Electors \ {e} : /\ g1'[f] = g1[f] /\ g2'[f] = g2[f]
                                  /\ main'[f] = main[f] /\ link'[f] = link[f]
    BY <1>2, Arrays, Zenon DEF Start
  <2>3. QuitOf(e)'
    BY <2>1, Zenon DEF QuitInv, QuitOf
  <2> QED
    BY <2>1, <2>2, <2>3, QuitOthers, Zenon
<1>3. ASSUME NEW e \in Electors,
             Close(e) \/ Disconnect(e) \/ Reconnect(e) \/ Expire(e) \/ ExpireClosed(e)
               \/ WatchArrives(e)
      PROVE  QuitInv'
  <2>1. UNCHANGED <<pcVars, runVars>>
    BY <1>3, Zenon DEF Close, Disconnect, Reconnect, Expire, ExpireClosed, EndSession, WatchArrives
  <2>2. \A f \in Electors : link'[f] = "off" => link[f] = "off"
    BY <1>3, LinkStaysOn, Zenon DEF Expire, ExpireClosed, EndSession, WatchArrives
  <2> QED
    BY <2>1, <2>2, Zenon DEF pcVars, runVars, QuitInv, QuitOf
<1>4. ASSUME NEW e \in Electors, ZKEvent(e) PROVE QuitInv'
  <2>1. CASE UNCHANGED <<g1, errch, shouldQuit>>
    BY <1>4, <2>1, Zenon DEF ZKEvent, QuitInv, QuitOf
  <2>2. CASE Return(e, "err") /\ g1' = [g1 EXCEPT ![e] = "end"]
    <3>1. /\ errch'[e] = "err" /\ shouldQuit'[e]
          /\ \A f \in Electors \ {e} : errch'[f] = errch[f] /\ shouldQuit'[f] = shouldQuit[f]
      BY <2>2, ReturnQuits
    <3>2. g1'[e] = "end" /\ \A f \in Electors \ {e} : g1'[f] = g1[f]
      BY <2>2, Arrays
    <3>3. UNCHANGED <<link, g2, main>> /\ g1[e] = "watch"
      BY <1>4, Zenon DEF ZKEvent
    <3> QED
      <4>1. QuitOf(e)'
        BY <3>1, <3>2, <3>3, Zenon DEF QuitInv, QuitOf
      <4> QED
        BY <3>1, <3>2, <3>3, <4>1, QuitOthers, Zenon
  <2> QED
    BY <1>4, <2>1, <2>2 DEF ZKEvent
<1>5. ASSUME NEW e \in Electors, WatcherQuits(e) PROVE QuitInv'
  <2>1. /\ g1'[e] = "end" /\ g1[e] = "watch" /\ shouldQuit[e]
        /\ UNCHANGED <<link, g2, main, errch, shouldQuit>>
        /\ \A f \in Electors \ {e} : g1'[f] = g1[f]
    BY <1>5, Arrays, Zenon DEF WatcherQuits, connVars, runVars
  <2>2. QuitOf(e)'
    BY <2>1, Zenon DEF QuitInv, QuitOf
  <2> QED
    BY <2>1, <2>2, QuitOthers, Zenon
<1>6. ASSUME NEW e \in Electors, NEW pc, g2[e] \notin {"off", "end"}, pc # "off",
             g2' = [g2 EXCEPT ![e] = pc], UNCHANGED <<g1, main>>,
             \/ pc # "end" /\ UNCHANGED <<errch, shouldQuit>>
             \/ Return(e, "err") \/ (Return(e, "nil") /\ shouldQuit[e]),
             \A f \in Electors : link'[f] = "off" => link[f] = "off"
      PROVE  QuitInv'
  <2>1. /\ errch'[e] # "nil"
        /\ shouldQuit'[e] => errch'[e] = "err"
        /\ shouldQuit[e] \/ pc = "end" => shouldQuit'[e]
        /\ \A f \in Electors \ {e} : errch'[f] = errch[f] /\ shouldQuit'[f] = shouldQuit[f]
    BY <1>6, ReturnQuits, ZenonT(30) DEF QuitInv, QuitOf
  <2>2. g2'[e] = pc /\ \A f \in Electors \ {e} : g2'[f] = g2[f]
    BY <1>6, Arrays
  <2>3. main[e] \notin {"off", "end"}
    BY <1>6, Zenon DEF QuitInv, QuitOf
  <2>4. QuitOf(e)'
    BY <1>6, <2>1, <2>2, <2>3, Zenon DEF QuitInv, QuitOf
  <2> QED
    BY <1>6, <2>1, <2>2, <2>4, QuitOthers, Zenon
<1>7. ASSUME NEW e \in Electors, Election(e) \/ SendEvent(e) PROVE QuitInv'
  <2>1. link' = link /\ g1' = g1 /\ main' = main
    BY <1>7, Zenon DEF Election, InitializeExists, SegmentExists, SegmentCreate, CreateLock,
                RecoverLock, GetChildren, GetIdent, SendEvent, DropEvent, ChildEvent,
                ElectionQuits, CallFails, connVars
  <2>2. g2[e] \notin {"off", "end"}
    BY <1>7, Zenon DEF Election, InitializeExists, SegmentExists, SegmentCreate, CreateLock,
                RecoverLock, GetChildren, GetIdent, SendEvent, DropEvent, ChildEvent,
                ElectionQuits, CallFails, Calls
  <2>3. \/ \E pc \in {"segExists", "segCreate", "createLock", "children", "get", "send", "select"} :
              Goto(e, pc)
        \/ g2' = [g2 EXCEPT ![e] = "end"] /\ (Return(e, "err") \/ (Return(e, "nil") /\ shouldQuit[e]))
    BY <1>7, Zenon DEF Election, InitializeExists, SegmentExists, SegmentCreate, NextSegment,
                CreateLock, RecoverLock, GetChildren, GetIdent, updateLeaderData,
                SendEvent, DropEvent, ChildEvent, ElectionQuits, CallFails, Fail
  <2>4. ASSUME NEW pc \in {"segExists", "segCreate", "createLock", "children", "get", "send", "select"},
               Goto(e, pc)
        PROVE  QuitInv'
    BY <1>6, <2>1, <2>2, <2>4, Zenon DEF Goto
  <2>5. CASE g2' = [g2 EXCEPT ![e] = "end"] /\ (Return(e, "err") \/ (Return(e, "nil") /\ shouldQuit[e]))
    BY <1>6, <2>1, <2>2, <2>5, Zenon
  <2> QED
    BY <2>3, <2>4, <2>5
<1>8. ASSUME NEW e \in Electors, CreateLockUnanswered(e) PROVE QuitInv'
  <2>1. \A f \in Electors : link'[f] = "off" => link[f] = "off"
    BY <1>8, LinkStaysOn, Zenon
  <2> QED
    BY <1>6, <1>8, <2>1, Zenon DEF CreateLockUnanswered, Goto
<1>9. ASSUME NEW e \in Electors, SendErr(e) \/ DropErr(e) PROVE QuitInv'
  <2>1. main'[e] = "end" /\ \A f \in Electors \ {e} : main'[f] = main[f]
    BY <1>9, Arrays, Zenon DEF SendErr, DropErr
  <2>2. UNCHANGED <<link, g1, g2, errch, shouldQuit>> /\ g1[e] = "end" /\ g2[e] = "end"
    BY <1>9, Zenon DEF SendErr, DropErr, Finished, connVars, runVars
  <2>3. link[e] # "off"
    BY <1>9, Zenon DEF SendErr, DropErr, Finished, QuitInv, QuitOf
  <2>4. QuitOf(e)'
    BY <2>1, <2>2, <2>3, Zenon DEF QuitInv, QuitOf
  <2> QED
    BY <2>1, <2>2, <2>4, QuitOthers, Zenon
<1> QED
  BY <1>1, <1>2, <1>3, <1>4, <1>5, <1>7, <1>8, <1>9, Zenon DEF Next, Watcher

\* The inductive invariant of the error event.
LEMMA QuitInvariant == Spec => [](TypeOK /\ QuitInv)
<1>1. Init => QuitInv
  BY Zenon DEF Init, QuitInv, QuitOf
<1> QED
  BY <1>1, TypeCorrect, QuitStep, PTL DEF Spec

\* When start goes on to send the error event, errch holds an error: whichever
\* goroutine stops first, and whatever the other does (elector.go:156-241).
THEOREM ErrorEventCarriesError == Spec => []ErrEventHasErr
<1>1. TypeOK /\ QuitInv => ErrEventHasErr
  BY DEF QuitInv, QuitOf, ErrEventHasErr, Finished
<1> QED
  BY <1>1, QuitInvariant, PTL

\* One goroutine never outlives the other unawares.
QuitTogether ==
  \A e \in Electors : g1[e] = "end" \/ g2[e] = "end" => shouldQuit[e] /\ errch[e] = "err"

\* When either goroutine of start has ended, by whatever error of ZooKeeper, lost session
\* or wish to quit, shouldQuit is closed for the other one and the error that wg.Wait will
\* find is in errch (the deferred cancel of both, elector.go:156-241).
THEOREM GoroutinesQuitTogether == Spec => []QuitTogether
<1>1. TypeOK /\ QuitInv => QuitTogether
  BY Zenon DEF QuitInv, QuitOf, QuitTogether
<1> QED
  BY <1>1, QuitInvariant, PTL

\* The events channel is closed only after the error event, or after Close.
THEOREM ClosedOnlyAfterErr == Spec => []ClosedAfterErr
<1>1. Init => ClosedAfterErr
  BY Zenon DEF Init, ClosedAfterErr, Told
<1>2. ASSUME TypeOK, QuitInv, ClosedAfterErr, [Next]_vars PROVE ClosedAfterErr'
  <2>1. ASSUME NEW e \in Electors, SendErr(e) PROVE ClosedAfterErr'
    <3>1. errch[e] = "err"
      BY <1>2, <2>1 DEF QuitInv, QuitOf, SendErr, Finished
    <3>2. Told(e)' = "err" /\ \A f \in Electors \ {e} : Told(f)' = Told(f)
      BY <1>2, <2>1, <3>1, ToldAppend, Zenon DEF SendErr
    <3> QED
      BY <1>2, <2>1, <3>2, ZenonT(30) DEF SendErr, ClosedAfterErr, TypeOK
  <2>2. ASSUME NEW e \in Electors, SendEvent(e) PROVE ClosedAfterErr'
    <3>1. Told(e)' # "err" /\ \A f \in Electors \ {e} : Told(f)' = Told(f)
      <4> PICK v \in {"leader", "follower"} :
             received' = [received EXCEPT ![e] = Append(@, v)]
        BY <2>2, Zenon DEF SendEvent
      <4> QED
        BY <1>2, ToldAppend, Zenon
    <3>2. main[e] # "end"
      BY <1>2, <2>2, Zenon DEF SendEvent, QuitInv, QuitOf
    <3> QED
      BY <1>2, <2>2, <3>1, <3>2 DEF SendEvent, ClosedAfterErr, TypeOK
  <2>3. ASSUME NEW e \in Electors, DropErr(e) PROVE ClosedAfterErr'
    <3>1. Told(e) # "err" /\ closing[e]
      BY <1>2, <2>3, Zenon DEF DropErr, Finished, ClosedAfterErr
    <3> QED
      BY <1>2, <2>3, <3>1, ZenonT(30) DEF DropErr, apiVars, ClosedAfterErr, Told, TypeOK
  <2>4. ASSUME NEW e \in Electors, Start(e) PROVE ClosedAfterErr'
    <3>1. main[e] # "end"
      BY <1>2, <2>4, Zenon DEF Start, QuitInv, QuitOf
    <3> QED
      BY <1>2, <2>4, <3>1, ZenonT(30) DEF Start, apiVars, ClosedAfterErr, Told, TypeOK
  <2>5. ASSUME UNCHANGED <<main, received>>, \A f \in Electors : closing[f] => closing'[f]
        PROVE  ClosedAfterErr'
    BY <1>2, <2>5, Zenon DEF ClosedAfterErr, Told
  <2>6. ASSUME NEW e \in Electors, Close(e) PROVE ClosedAfterErr'
    BY <1>2, <2>5, <2>6, Zenon DEF Close, pcVars, TypeOK
  <2>7. ASSUME NEW e \in Electors,
               Disconnect(e) \/ Reconnect(e) \/ Expire(e) \/ ExpireClosed(e)
                 \/ WatchArrives(e) \/ Watcher(e) \/ Election(e) \/ CreateLockUnanswered(e)
        PROVE  UNCHANGED <<main, received, closing>>
    BY <2>7, Zenon DEF Disconnect, Reconnect, Expire, ExpireClosed, EndSession, WatchArrives,
                Watcher, ZKEvent, WatcherQuits, CreateLockUnanswered, Election,
                InitializeExists, SegmentExists, SegmentCreate, CreateLock, RecoverLock,
                GetChildren, GetIdent, DropEvent, ChildEvent, ElectionQuits, CallFails,
                pcVars, apiVars
  <2>8. CASE UNCHANGED vars
    BY <2>5, <2>8 DEF vars, pcVars, apiVars
  <2> QED
    BY <1>2, <2>1, <2>2, <2>3, <2>4, <2>5, <2>6, <2>7, <2>8, Zenon DEF Next
<1> QED
  BY <1>1, <1>2, QuitInvariant, PTL DEF Spec
-----------------------------------------------------------------------------
(* The leader events. *)

\* No value occurs twice in a row.
Alternates(s) == \A i \in 1 .. Len(s) - 1 : s[i] # s[i + 1]

\* The event sendEvent sends for the stored leader data.
Role(e) == IF isLeader[e] THEN "leader" ELSE "follower"

\* Until Close, the client was last told the stored role, except before the first
\* update and while the event for a changed role is due.
AltOf(e) ==
  ~closing[e] =>
    /\ Alternates(received[e])
    /\ main[e] # "end" =>
         /\ firstLeaderUpdate[e] => received[e] = <<>> /\ g2[e] # "send"
         /\ g2[e] = "send" => Told(e) # Role(e)
         /\ ~firstLeaderUpdate[e] /\ g2[e] # "send" => Told(e) = Role(e)

AltInv == \A e \in Electors : AltOf(e)

\* A new last value that differs from the old one keeps a sequence alternating.
LEMMA AlternatesAppend ==
  ASSUME NEW s \in Seq(EventValues), NEW v \in EventValues, Alternates(s),
         s = <<>> \/ s[Len(s)] # v
  PROVE  Alternates(Append(s, v))
<1>1. CASE s = <<>>
  BY <1>1 DEF Alternates
<1>2. CASE s[Len(s)] # v
  <2> SUFFICES ASSUME NEW i \in 1 .. Len(Append(s, v)) - 1
               PROVE  Append(s, v)[i] # Append(s, v)[i + 1]
    BY DEF Alternates
  <2>1. i \in 1 .. Len(s)
    BY SMT
  <2>2. CASE i = Len(s)
    BY <1>2, <2>1, <2>2
  <2>3. CASE i # Len(s)
    BY <2>1, <2>3 DEF Alternates
  <2> QED
    BY <2>2, <2>3
<1> QED
  BY <1>1, <1>2

\* Nothing happens to f's role and events; at most it closes.
LEMMA AltSame ==
  ASSUME NEW f \in Electors, AltOf(f), received'[f] = received[f],
         isLeader'[f] = isLeader[f], firstLeaderUpdate'[f] = firstLeaderUpdate[f],
         closing[f] => closing'[f], main'[f] # "end" => main[f] # "end",
         g2'[f] = "send" <=> g2[f] = "send"
  PROVE  AltOf(f)'
  BY Zenon DEF AltOf, Told, Role

\* The functions the events depend on are defined on all electors.
LEMMA AltArrays ==
  ASSUME TypeOK
  PROVE  /\ DOMAIN g2 = Electors /\ DOMAIN main = Electors /\ DOMAIN received = Electors
         /\ DOMAIN isLeader = Electors /\ DOMAIN firstLeaderUpdate = Electors
         /\ DOMAIN closing = Electors
  BY ZenonT(30) DEF TypeOK

\* An event that differs from the last one is received.
LEMMA AltReceive ==
  ASSUME TypeOK, NEW e \in Electors, NEW v \in EventValues, Told(e) # v,
         received' = [received EXCEPT ![e] = Append(@, v)], Alternates(received[e])
  PROVE  /\ Alternates(received'[e]) /\ Told(e)' = v
         /\ \A f \in Electors \ {e} : received'[f] = received[f]
<1>1. received[e] \in Seq(EventValues) /\ received'[e] = Append(received[e], v)
  BY DEF TypeOK
<1>2. received[e] = <<>> \/ received[e][Len(received[e])] # v
  BY Zenon DEF Told
<1>3. Told(e)' = v
  BY <1>1 DEF Told
<1> QED
  BY <1>1, <1>2, <1>3, AlternatesAppend, AltArrays, SMTT(30)

\* The inductive step for the leader events.
LEMMA AltStep ==
  ASSUME TypeOK, QuitInv, ClosedAfterErr, AltInv, [Next]_vars
  PROVE  AltInv'
<1> SUFFICES ASSUME NEW f \in Electors PROVE AltOf(f)'
  BY Zenon DEF AltInv
<1>0. AltOf(f)
  BY Zenon DEF AltInv
<1>1. CASE UNCHANGED vars
  BY <1>0, <1>1, AltSame, Zenon DEF vars, pcVars, runVars, dataVars, apiVars
<1>2. ASSUME NEW e \in Electors, Start(e) PROVE AltOf(f)'
  <2>1. main[e] # "end" /\ g2[e] # "send"
    BY <1>2, Zenon DEF Start, QuitInv, QuitOf
  <2>2. /\ main'[f] # "end" => main[f] # "end"
        /\ g2'[f] = "send" <=> g2[f] = "send"
    BY <1>2, <2>1, AltArrays, Zenon DEF Start
  <2> QED
    BY <1>0, <1>2, <2>2, AltSame, Zenon DEF Start, runVars, dataVars, apiVars
<1>3. ASSUME NEW e \in Electors, Close(e) PROVE AltOf(f)'
  <2>1. closing[f] => closing'[f]
    BY <1>3, AltArrays, Zenon DEF Close
  <2> QED
    BY <1>0, <1>3, <2>1, AltSame, Zenon DEF Close, pcVars, runVars, dataVars
<1>4. ASSUME NEW e \in Electors,
             Disconnect(e) \/ Reconnect(e) \/ Expire(e) \/ ExpireClosed(e)
               \/ WatchArrives(e) \/ Watcher(e)
      PROVE  AltOf(f)'
  <2>1. UNCHANGED <<received, isLeader, firstLeaderUpdate, closing, main, g2>>
    BY <1>4, Zenon DEF Disconnect, Reconnect, Expire, ExpireClosed, EndSession, WatchArrives,
                Watcher, ZKEvent, WatcherQuits, pcVars, runVars, dataVars, apiVars
  <2> QED
    BY <1>0, <2>1, AltSame, Zenon
<1>5. ASSUME NEW e \in Electors, NEW pc, g2[e] # "send", pc # "send",
             g2' = [g2 EXCEPT ![e] = pc],
             UNCHANGED <<received, isLeader, firstLeaderUpdate, closing, main>>
      PROVE  AltOf(f)'
  <2>1. g2'[f] = "send" <=> g2[f] = "send"
    BY <1>5, AltArrays, Zenon
  <2> QED
    BY <1>0, <1>5, <2>1, AltSame, Zenon
<1>6. ASSUME NEW e \in Electors,
             \/ InitializeExists(e) \/ SegmentExists(e) \/ SegmentCreate(e) \/ CreateLock(e)
             \/ RecoverLock(e) \/ GetChildren(e) \/ ChildEvent(e) \/ ElectionQuits(e)
             \/ CallFails(e) \/ CreateLockUnanswered(e)
      PROVE  AltOf(f)'
  <2>1. UNCHANGED <<received, isLeader, firstLeaderUpdate, closing, main>> /\ g2[e] # "send"
    BY <1>6, Zenon DEF InitializeExists, SegmentExists, SegmentCreate, CreateLock, RecoverLock,
                GetChildren, ChildEvent, ElectionQuits, CallFails, CreateLockUnanswered, Calls,
                dataVars, apiVars
  <2>2. \E pc \in Calls \cup {"select", "end"} : g2' = [g2 EXCEPT ![e] = pc]
    <3>1. CASE InitializeExists(e) \/ RecoverLock(e)
      BY <3>1, SMTT(30) DEF InitializeExists, RecoverLock, Goto, Calls
    <3>2. CASE SegmentExists(e) \/ SegmentCreate(e)
      BY <3>2 DEF SegmentExists, SegmentCreate, NextSegment, Goto, Fail, Calls
    <3>3. CASE CreateLock(e) \/ CreateLockUnanswered(e)
      BY <3>3 DEF CreateLock, CreateLockUnanswered, Goto, Calls
    <3>4. CASE GetChildren(e) \/ ChildEvent(e)
      BY <3>4, ZenonT(30) DEF GetChildren, ChildEvent, Goto, Fail, Calls
    <3>5. CASE ElectionQuits(e) \/ CallFails(e)
      BY <3>5 DEF ElectionQuits, CallFails, Fail
    <3> QED
      BY <1>6, <3>1, <3>2, <3>3, <3>4, <3>5, Zenon
  <2>3. "send" \notin Calls \cup {"select", "end"}
    BY DEF Calls
  <2> QED
    BY <1>5, <2>1, <2>2, <2>3, Zenon
<1>7. ASSUME NEW e \in Electors, GetIdent(e) PROVE AltOf(f)'
  <2>1. g2[e] = "get" /\ UNCHANGED <<received, closing, main>> /\ main[e] # "end"
    BY <1>7, Zenon DEF GetIdent, apiVars, QuitInv, QuitOf
  <2>2. CASE UNCHANGED <<dataVars, firstLeaderUpdate>> /\ g2' = [g2 EXCEPT ![e] = "end"]
    BY <1>5, <2>1, <2>2, Zenon DEF dataVars
  <2>3. ASSUME NEW b \in BOOLEAN, updateLeaderData(e, leaderNode[e].owner, b)
        PROVE  AltOf(f)'
    <3>1. /\ isLeader'[e] = b /\ firstLeaderUpdate'[e] = FALSE
          /\ g2'[e] = IF isLeader[e] = b /\ ~firstLeaderUpdate[e] THEN "select" ELSE "send"
      BY <2>3, AltArrays, Zenon DEF updateLeaderData, Goto
    <3>2. CASE f # e
      BY <1>0, <2>1, <2>3, <3>2, AltArrays, AltSame, Zenon DEF updateLeaderData, Goto
    <3>3. CASE f = e
      <4> SUFFICES ASSUME ~closing[e] PROVE AltOf(e)'
        BY <2>1, <3>3, Zenon DEF AltOf
      <4>1. Alternates(received[e]) /\ Alternates(received'[e]) /\ Told(e)' = Told(e)
        BY <1>0, <2>1, <3>3, Zenon DEF AltOf, Told
      <4>2. CASE firstLeaderUpdate[e]
        <5>1. Told(e) = "none" /\ g2'[e] = "send"
          BY <1>0, <2>1, <3>1, <3>3, <4>2, Zenon DEF AltOf, Told
        <5>2. Role(e)' # "none"
          BY Zenon DEF Role
        <5> QED
          BY <3>1, <4>1, <5>1, <5>2, Zenon DEF AltOf
      <4>3. CASE ~firstLeaderUpdate[e]
        <5>1. Told(e) = Role(e)
          BY <1>0, <2>1, <3>3, <4>3, Zenon DEF AltOf
        <5>2. isLeader[e] \in BOOLEAN
          BY Zenon DEF TypeOK
        <5>3. CASE isLeader[e] = b
          BY <3>1, <4>1, <4>3, <5>1, <5>3, Zenon DEF AltOf, Role
        <5>4. CASE isLeader[e] # b
          <6>1. Role(e)' # Role(e)
            BY <3>1, <5>2, <5>4, Zenon DEF Role
          <6> QED
            BY <3>1, <4>1, <5>1, <5>4, <6>1, Zenon DEF AltOf
        <5> QED
          BY <5>3, <5>4, Zenon
      <4> QED
        BY <4>2, <4>3, Zenon
    <3> QED
      BY <3>2, <3>3
  <2>4. (leaderNode[e].seq = seq[e]) \in BOOLEAN
    BY Zenon
  <2> QED
    BY <1>7, <2>2, <2>3, <2>4, Zenon DEF GetIdent, Fail
<1>8. ASSUME NEW e \in Electors, SendEvent(e) PROVE AltOf(f)'
  <2>1. /\ g2[e] = "send" /\ g2' = [g2 EXCEPT ![e] = "select"]
        /\ received' = [received EXCEPT ![e] = Append(@, Role(e))]
        /\ UNCHANGED <<isLeader, firstLeaderUpdate, closing, main>>
    BY <1>8, Zenon DEF SendEvent, Role, Goto, dataVars
  <2>2. Role(e) \in EventValues
    BY Zenon DEF Role, EventValues
  <2>3. CASE f # e
    <3>1. received'[f] = received[f] /\ g2'[f] = g2[f]
      BY <2>1, <2>3, AltArrays, Zenon
    <3> QED
      BY <1>0, <2>1, <3>1, AltSame, Zenon
  <2>4. CASE f = e
    <3> SUFFICES ASSUME ~closing[e] PROVE AltOf(e)'
      BY <2>1, <2>4, Zenon DEF AltOf
    <3>1. main[e] # "end"
      BY <2>1, Zenon DEF QuitInv, QuitOf
    <3>2. Told(e) # Role(e) /\ Alternates(received[e]) /\ ~firstLeaderUpdate[e]
      BY <1>0, <2>1, <2>4, <3>1, Zenon DEF AltOf
    <3>3. Alternates(received'[e]) /\ Told(e)' = Role(e)
      BY <2>1, <2>2, <3>2, AltReceive, Zenon
    <3>4. g2'[e] = "select" /\ Role(e)' = Role(e)
      BY <2>1, AltArrays, Zenon DEF Role
    <3> QED
      BY <2>1, <3>2, <3>3, <3>4, Zenon DEF AltOf
  <2> QED
    BY <2>3, <2>4
<1>9. ASSUME NEW e \in Electors, DropEvent(e) PROVE AltOf(f)'
  <2>1. CASE f # e
    BY <1>0, <1>9, <2>1, AltArrays, AltSame, Zenon DEF DropEvent, Goto, dataVars, apiVars
  <2>2. CASE f = e
    BY <1>9, <2>2, Zenon DEF DropEvent, apiVars, AltOf
  <2> QED
    BY <2>1, <2>2
<1>10. ASSUME NEW e \in Electors, SendErr(e) PROVE AltOf(f)'
  <2>1. main'[e] = "end" /\ (f # e => main'[f] = main[f])
    BY <1>10, AltArrays, Zenon DEF SendErr
  <2>2. /\ received' = [received EXCEPT ![e] = Append(@, "err")]
        /\ UNCHANGED <<isLeader, firstLeaderUpdate, closing, g2>>
    <3>1. errch[e] = "err"
      BY <1>10, Zenon DEF SendErr, Finished, QuitInv, QuitOf
    <3> QED
      BY <1>10, <3>1, Zenon DEF SendErr, runVars, dataVars
  <2>3. "err" \in EventValues /\ Told(e) # "err"
    BY <1>10, Zenon DEF EventValues, SendErr, Finished, ClosedAfterErr
  <2>4. CASE f # e
    <3>1. received'[f] = received[f]
      BY <2>2, <2>4, AltArrays, Zenon
    <3> QED
      BY <1>0, <2>1, <2>2, <2>4, <3>1, AltSame, Zenon
  <2>5. CASE f = e
    <3> SUFFICES ASSUME ~closing[e] PROVE Alternates(received'[e])
      BY <2>1, <2>2, <2>5, Zenon DEF AltOf
    <3>1. Alternates(received[e])
      BY <1>0, <2>5, Zenon DEF AltOf
    <3> QED
      BY <2>2, <2>3, <3>1, AltReceive, Zenon
  <2> QED
    BY <2>4, <2>5
<1>11. ASSUME NEW e \in Electors, DropErr(e) PROVE AltOf(f)'
  <2>1. main'[f] # "end" => main[f] # "end"
    BY <1>11, AltArrays, Zenon DEF DropErr, Finished
  <2> QED
    BY <1>0, <1>11, <2>1, AltSame, Zenon DEF DropErr, runVars, dataVars, apiVars
<1> QED
  BY <1>1, <1>2, <1>3, <1>4, <1>6, <1>7, <1>8, <1>9, <1>10, <1>11, Zenon DEF Next, Election

\* A client that has not called Close never receives the same leadership twice in a
\* row, and the error event comes once (updateLeaderData, sendEvent, sendErr).
THEOREM LeaderEventsAlternate == Spec => []EventsAlternate
<1>1. Init => AltInv
  BY DEF Init, AltInv, AltOf, Alternates
<1>2. AltInv => EventsAlternate
  BY Zenon DEF AltInv, AltOf, Alternates, EventsAlternate
<1> QED
  BY <1>1, <1>2, AltStep, QuitInvariant, ClosedOnlyAfterErr, PTL DEF Spec

-----------------------------------------------------------------------------
(* The kinds of steps, as far as leadership is concerned. *)

leaderVars == <<nextSeq, wrapped, live, seq, g2, leaderNode, isLeader, received>>

\* program points of g2 before its lock node is created
Before == {"off", "initialize", "segExists", "segCreate", "createLock"}

\* and after
After == {"recover", "children", "get", "send", "select"}

\* An elector that has not been started has no goroutines.
OffInv == \A e \in Electors : link[e] = "off" => g2[e] = "off"

\* g2 moves on, and does not read the children or create the lock node.
Moves(e) ==
  /\ \E pc \in (Calls \ {"get", "recover"}) \cup {"send", "select", "end"} :
       /\ g2' = [g2 EXCEPT ![e] = pc]
       /\ pc \in Before => g2[e] \in Before \/ (g2[e] = "recover" /\ e \notin live)
       /\ pc \in After => g2[e] \in After
  /\ UNCHANGED <<nextSeq, wrapped, live, seq, leaderNode, isLeader, received>>

\* e's lock node disappears, if it exists.
Leaves(e) ==
  /\ live' \in {live, live \ {e}}
  /\ UNCHANGED <<nextSeq, wrapped, seq, g2, leaderNode, isLeader, received>>

\* e's lock node is created.
Joins(e) ==
  /\ g2[e] = "createLock"
  /\ AddLockNode(e)
  /\ \E pc \in {"children", "recover"} : g2' = [g2 EXCEPT ![e] = pc]
  /\ UNCHANGED <<leaderNode, isLeader, received>>

\* e finds the lowest node among the children.
Reads(e) ==
  /\ \E f \in live :
       /\ Lowest(f)
       /\ leaderNode' = [leaderNode EXCEPT ![e] = [owner |-> f, seq |-> seq[f]]]
  /\ g2[e] = "children"
  /\ g2' = [g2 EXCEPT ![e] = "get"]
  /\ UNCHANGED <<nextSeq, wrapped, live, seq, isLeader, received>>

\* e learns whose the node is, and stores its own role.
Decides(e) ==
  /\ g2[e] = "get"
  /\ \/ /\ NodeExists(leaderNode[e])
        /\ isLeader' = [isLeader EXCEPT ![e] = (leaderNode[e].seq = seq[e])]
     \/ isLeader' = isLeader
  /\ \E pc \in {"send", "select", "end"} : g2' = [g2 EXCEPT ![e] = pc]
  /\ leaderNode' = [leaderNode EXCEPT ![e] = NoLeaderNode(e)]
  /\ UNCHANGED <<nextSeq, wrapped, live, seq, received>>

\* e's client receives an event; one that says "leader" comes from g2.
Tells(e) ==
  /\ \E v \in EventValues :
       /\ v = "leader" => isLeader[e]
       /\ received' = [received EXCEPT ![e] = Append(@, v)]
  /\ \/ g2[e] = "send" /\ g2' = [g2 EXCEPT ![e] = "select"]
     \/ g2[e] = "end" /\ g2' = g2
  /\ UNCHANGED <<nextSeq, wrapped, live, seq, leaderNode, isLeader>>

StepOf(e) == Moves(e) \/ Leaves(e) \/ Joins(e) \/ Reads(e) \/ Decides(e) \/ Tells(e)

\* Every step of the system is one of those, for some elector, or leaves all that
\* leadership depends on unchanged.
LEMMA StepKinds ==
  ASSUME TypeOK, OffInv, [Next]_vars
  PROVE  UNCHANGED leaderVars \/ \E e \in Electors : StepOf(e)
<1> USE DEF StepOf
<1>1. CASE UNCHANGED vars
  BY <1>1 DEF vars, leaderVars, zkVars, pcVars, runVars, dataVars, apiVars
<1>2. ASSUME NEW e \in Electors,
             Disconnect(e) \/ Reconnect(e) \/ WatchArrives(e) \/ Watcher(e) \/ DropErr(e)
      PROVE  UNCHANGED leaderVars
  BY <1>2, Zenon DEF Disconnect, Reconnect, WatchArrives, Watcher, ZKEvent, WatcherQuits, DropErr,
              leaderVars, zkVars, pcVars, runVars, dataVars, apiVars
<1>3. ASSUME NEW e \in Electors, Start(e) PROVE Moves(e)
  <2>1. g2[e] \in Before /\ "initialize" \notin After
    BY <1>3 DEF Start, OffInv, Before, After
  <2>2. "initialize" \in Calls \ {"get", "recover"}
    BY SMTT(30) DEF Calls
  <2> QED
    BY <1>3, <2>1, <2>2, Zenon DEF Start, Moves, zkVars, runVars, dataVars, apiVars
<1>4. ASSUME NEW e \in Electors, Close(e) \/ Expire(e) \/ ExpireClosed(e) PROVE Leaves(e)
  BY <1>4, SMTT(30) DEF Close, CloseConn, Expire, ExpireClosed, EndSession, Leaves, pcVars,
              runVars, dataVars, apiVars
<1>5. ASSUME NEW e \in Electors, CreateLock(e) \/ CreateLockUnanswered(e) PROVE Joins(e)
  BY <1>5 DEF CreateLock, CreateLockUnanswered, Joins, Goto, dataVars, apiVars
<1>6. ASSUME NEW e \in Electors, GetIdent(e) PROVE Decides(e)
  BY <1>6, ZenonT(30) DEF GetIdent, updateLeaderData, Fail, Goto, Decides, zkVars, dataVars, apiVars
<1>7. ASSUME NEW e \in Electors, GetChildren(e) PROVE Reads(e) \/ Moves(e)
  BY <1>7 DEF GetChildren, Fail, Goto, Reads, Moves, Before, After, zkVars, dataVars, apiVars
<1>8. ASSUME NEW e \in Electors, SendEvent(e) PROVE Tells(e)
  BY <1>8, Zenon DEF SendEvent, Goto, Tells, EventValues, zkVars, dataVars
<1>9. ASSUME NEW e \in Electors, SendErr(e) PROVE Tells(e)
  BY <1>9, ZenonT(30) DEF SendErr, Finished, Tells, EventValues, zkVars, runVars, dataVars
<1>10. ASSUME NEW e \in Electors,
              InitializeExists(e) \/ SegmentExists(e) \/ SegmentCreate(e)
       PROVE  Moves(e)
  BY <1>10 DEF InitializeExists, SegmentExists, SegmentCreate, NextSegment, Fail, Goto,
               Moves, Before, After, Calls, zkVars, dataVars, apiVars
<1>11. ASSUME NEW e \in Electors, RecoverLock(e) PROVE Moves(e)
  <2>1. CASE e \in live
    <3>1. g2' = [g2 EXCEPT ![e] = "children"]
      BY <1>11, <2>1, SMTT(30) DEF RecoverLock, Goto
    <3>2. /\ "children" \notin Before
          /\ "children" \in Calls \ {"get", "recover"}
          /\ g2[e] \in After
      BY <1>11 DEF RecoverLock, Before, After, Calls
    <3> QED
      BY <1>11, <3>1, <3>2, Zenon DEF RecoverLock, Moves, zkVars, dataVars, apiVars
  <2>2. CASE e \notin live
    BY <1>11, <2>2, Zenon DEF RecoverLock, Goto, Moves, Before, After, Calls, zkVars, dataVars, apiVars
  <2> QED
    BY <2>1, <2>2
<1>12. ASSUME NEW e \in Electors,
              DropEvent(e) \/ ChildEvent(e) \/ ElectionQuits(e) \/ CallFails(e)
       PROVE  Moves(e)
  BY <1>12, Zenon DEF DropEvent, ChildEvent, ElectionQuits, CallFails, Fail, Goto, Moves, Before, After,
               Calls, zkVars, dataVars, apiVars
<1> QED
  BY <1>1, <1>2, <1>3, <1>4, <1>5, <1>6, <1>7, <1>8, <1>9, <1>10, <1>11, <1>12, SMTT(30)
     DEF Next, Election

\* The goroutines of an elector run only after Start.
LEMMA OffStep == TypeOK /\ OffInv /\ [Next]_vars => OffInv'
<1> SUFFICES ASSUME TypeOK, OffInv, [Next]_vars,
                    NEW f \in Electors, link'[f] = "off"
             PROVE  g2'[f] = "off"
  BY SMTT(30) DEF OffInv
<1>1. CASE UNCHANGED vars
  BY <1>1, SMTT(30) DEF vars, connVars, pcVars, OffInv
<1>2. ASSUME NEW e \in Electors, Start(e) PROVE link'[f] = link[f] /\ g2'[f] = g2[f]
  BY <1>2 DEF Start, TypeOK
<1>3. ASSUME NEW e \in Electors,
             Disconnect(e) \/ Reconnect(e) \/ Close(e)
      PROVE  (link'[f] = "off" => link[f] = "off") /\ g2'[f] = g2[f]
  <2>1. g2' = g2
    BY <1>3, Zenon DEF Disconnect, Reconnect, Close, pcVars
  <2> QED
    BY <1>3, <2>1, LinkStaysOn, Zenon
<1>4. ASSUME NEW e \in Electors,
             Expire(e) \/ ExpireClosed(e) \/ WatchArrives(e) \/ Watcher(e) \/ SendErr(e)
               \/ DropErr(e)
      PROVE  link'[f] = link[f] /\ g2'[f] = g2[f]
  BY <1>4, Zenon DEF Expire, ExpireClosed, EndSession, WatchArrives, Watcher, ZKEvent,
              WatcherQuits, SendErr, DropErr, connVars, pcVars
<1>5. ASSUME NEW e \in Electors, Election(e) \/ SendEvent(e)
      PROVE  link'[f] = link[f] /\ (g2[f] = "off" => g2'[f] = "off")
  <2>1. link' = link
    BY <1>5, Zenon DEF Election, InitializeExists, SegmentExists, SegmentCreate, CreateLock,
                RecoverLock, GetChildren, GetIdent, SendEvent, DropEvent, ChildEvent,
                ElectionQuits, CallFails, connVars
  <2>2. g2[e] # "off" /\ \E pc : g2' = [g2 EXCEPT ![e] = pc]
    BY <1>5, ZenonT(30) DEF Election, InitializeExists, SegmentExists, SegmentCreate, NextSegment,
                CreateLock, RecoverLock, GetChildren, GetIdent, updateLeaderData,
                SendEvent, DropEvent, ChildEvent, ElectionQuits, CallFails, Goto, Fail,
                Calls
  <2> QED
    BY <2>1, <2>2, Zenon DEF TypeOK
<1>6. ASSUME NEW e \in Electors, CreateLockUnanswered(e)
      PROVE  link'[f] = "off" => link[f] = "off" /\ (g2[f] = "off" => g2'[f] = "off")
  BY <1>6, SMTT(30) DEF CreateLockUnanswered, LoseLink, Goto, TypeOK
<1> QED
  BY <1>1, <1>2, <1>3, <1>4, <1>5, <1>6, Zenon DEF Next, OffInv

-----------------------------------------------------------------------------
(* Single leadership. *)

\* The types that the invariants of single leadership need.
LEMMA SeqTypes ==
  ASSUME TypeOK
  PROVE  /\ live \subseteq Electors
         /\ nextSeq \in Int
         /\ \A e \in Electors : /\ seq[e] \in Int
                                /\ leaderNode[e].owner \in Electors
                                /\ leaderNode[e].seq \in Int
BY ElectorAssumption DEF TypeOK

\* Before it has a lock node an elector is no candidate and no leader.
BeforeInv ==
  \A e \in Electors :
    /\ g2[e] \in Before => e \notin live
    /\ g2[e] \in Before \cup {"recover"} => ~isLeader[e] /\ Told(e) # "leader"

\* Lock nodes are numbered upwards and no number is used twice; g2 compares the
\* number of its own node even when that node is gone.
OrderInv ==
  \A e \in Electors :
    e \in live \/ g2[e] \in After =>
      seq[e] < nextSeq /\ \A f \in live : seq[e] = seq[f] => e = f

\* A node that was the lowest when the children were read is the lowest for as
\* long as it exists.
ReadInv ==
  \A e \in Electors :
    g2[e] = "get" => /\ leaderNode[e].seq < nextSeq
                     /\ NodeExists(leaderNode[e]) => Lowest(leaderNode[e].owner)

\* A candidate that has decided to lead has the lowest node, and one whose client
\* believes that it leads has decided so.
DecidedInv ==
  \A e \in live : /\ isLeader[e] => Lowest(e)
                  /\ Told(e) = "leader" => isLeader[e]

LeaderInv == BeforeInv /\ (~wrapped => OrderInv /\ ReadInv /\ DecidedInv)

\* updateLeaderData stores the role of its own elector only.
LEMMA DecidesOwnRole ==
  ASSUME TypeOK, NEW e \in Electors, Decides(e)
  PROVE  \A h \in Electors \ {e} : isLeader'[h] = isLeader[h]
<1>1. isLeader' = isLeader \/ \E b : isLeader' = [isLeader EXCEPT ![e] = b]
  BY Zenon DEF Decides
<1>2. isLeader \in [Electors -> BOOLEAN]
  BY SMTT(30) DEF TypeOK
<1> QED
  BY <1>1, <1>2, Zenon

\* A candidate decides to lead only while it has the lowest node, and keeps leading.
LEMMA DecidesLowest ==
  ASSUME TypeOK, LeaderInv, NEW e \in Electors, Decides(e), ~wrapped, e \in live
  PROVE  /\ isLeader'[e] => Lowest(e)
         /\ isLeader[e] => isLeader'[e]
<1>1. CASE UNCHANGED isLeader
  BY <1>1 DEF LeaderInv, DecidedInv
<1>2. CASE /\ NodeExists(leaderNode[e])
           /\ isLeader' = [isLeader EXCEPT ![e] = (leaderNode[e].seq = seq[e])]
  <2>1. isLeader'[e] = (leaderNode[e].seq = seq[e])
    BY <1>2, ZenonT(30) DEF TypeOK
  <2>2. Lowest(leaderNode[e].owner) /\ seq[leaderNode[e].owner] = leaderNode[e].seq
    BY <1>2 DEF Decides, LeaderInv, ReadInv, NodeExists
  <2>3. isLeader[e] => Lowest(e)
    BY SMTT(30) DEF LeaderInv, DecidedInv
  <2>4. leaderNode[e].seq = seq[e] <=> Lowest(e)
    BY <2>2, SeqTypes DEF Lowest
  <2> QED
    BY <2>1, <2>3, <2>4, Zenon
<1> QED
  BY <1>1, <1>2 DEF Decides

\* The node that h has read about, while the lock nodes stay as they are.
LEMMA SameNode ==
  ASSUME NEW h, leaderNode'[h] = leaderNode[h], live' = live, seq' = seq
  PROVE  /\ NodeExists(leaderNode[h])' => NodeExists(leaderNode[h])
         /\ Lowest(leaderNode[h].owner) => Lowest(leaderNode[h].owner)'
<1>1. NodeExists(leaderNode[h])' => NodeExists(leaderNode[h])
  BY SMTT(30) DEF NodeExists
<1>2. Lowest(leaderNode[h].owner) => Lowest(leaderNode[h].owner)'
  BY SMTT(30) DEF Lowest
<1> QED
  BY <1>1, <1>2, ZenonT(30)

\* The inductive step of single leadership, one kind of step at a time.
LEMMA LeaderStep ==
  ASSUME TypeOK, TypeOK', OffInv, LeaderInv, [Next]_vars
  PROVE  LeaderInv'
<1>1. CASE UNCHANGED leaderVars
  BY <1>1, SMTT(30) DEF leaderVars, LeaderInv, BeforeInv, OrderInv, ReadInv, DecidedInv, Told, Lowest,
              NodeExists
<1>2. ASSUME NEW e \in Electors, Moves(e) PROVE LeaderInv'
  <2> PICK pc \in (Calls \ {"get", "recover"}) \cup {"send", "select", "end"} :
        /\ g2' = [g2 EXCEPT ![e] = pc]
        /\ pc \in Before => g2[e] \in Before \/ (g2[e] = "recover" /\ e \notin live)
        /\ pc \in After => g2[e] \in After
    BY <1>2, ZenonT(30) DEF Moves
  <2>1. /\ \A f \in Electors : g2'[f] = IF f = e THEN pc ELSE g2[f]
        /\ UNCHANGED <<nextSeq, wrapped, live, seq, leaderNode, isLeader, received>>
        /\ \A f \in Electors : Told(f)' = Told(f)
    BY <1>2, SMTT(30) DEF Moves, TypeOK, Told
  <2>2. BeforeInv'
    BY <2>1, SMTT(30) DEF LeaderInv, BeforeInv, Before, Calls
  <2>3. ASSUME ~wrapped' PROVE OrderInv' /\ ReadInv' /\ DecidedInv'
    <3>1. OrderInv /\ ReadInv /\ DecidedInv
      BY <2>1, <2>3, Zenon DEF LeaderInv
    <3>2. \A f \in Electors : /\ g2'[f] \in After => g2[f] \in After
                              /\ g2'[f] = "get" => g2[f] = "get"
      BY <2>1, ZenonT(30) DEF Calls
    <3>3. OrderInv'
      BY <2>1, <3>1, <3>2, SMTT(30) DEF OrderInv
    <3>4. ReadInv'
      BY <2>1, <3>1, <3>2, SMTT(30) DEF ReadInv, Lowest, NodeExists
    <3>5. DecidedInv'
      BY <2>1, <3>1, SeqTypes, SMTT(30) DEF DecidedInv, Lowest
    <3> QED
      BY <3>3, <3>4, <3>5, Zenon
  <2> QED
    BY <2>2, <2>3 DEF LeaderInv
<1>3. ASSUME NEW e \in Electors, Leaves(e) PROVE LeaderInv'
  <2>1. /\ live' \subseteq live
        /\ UNCHANGED <<nextSeq, wrapped, seq, g2, leaderNode, isLeader, received>>
        /\ \A f \in Electors : Told(f)' = Told(f)
    BY <1>3, SMTT(30) DEF Leaves, Told
  <2>2. BeforeInv'
    BY <2>1 DEF LeaderInv, BeforeInv
  <2>3. ~wrapped' => OrderInv'
    BY <2>1, ZenonT(30) DEF LeaderInv, OrderInv
  <2>4. ~wrapped' => ReadInv'
    BY <2>1, SMTT(30) DEF LeaderInv, ReadInv, Lowest, NodeExists
  <2>5. ~wrapped' => DecidedInv'
    BY <2>1, SeqTypes, SMTT(30) DEF LeaderInv, DecidedInv, Lowest
  <2> QED
    BY <2>2, <2>3, <2>4, <2>5, SMTT(30) DEF LeaderInv
<1>4. ASSUME NEW e \in Electors, Joins(e) PROVE LeaderInv'
  <2> PICK pc \in {"children", "recover"} : g2' = [g2 EXCEPT ![e] = pc]
    BY <1>4, ZenonT(30) DEF Joins
  <2>1. /\ e \notin live
        /\ ~isLeader[e] /\ Told(e) # "leader"
    BY <1>4 DEF Joins, LeaderInv, BeforeInv, Before
  <2>2. /\ \A f \in Electors : g2'[f] = IF f = e THEN pc ELSE g2[f]
        /\ \A f \in Electors : seq'[f] = IF f = e THEN nextSeq ELSE seq[f]
        /\ live' = live \cup {e}
        /\ UNCHANGED <<leaderNode, isLeader, received>>
        /\ \A f \in Electors : Told(f)' = Told(f)
    <3>1. DOMAIN g2 = Electors /\ DOMAIN seq = Electors
      BY Arrays, Zenon
    <3>2. /\ seq' = [seq EXCEPT ![e] = nextSeq] /\ live' = live \cup {e}
          /\ UNCHANGED <<leaderNode, isLeader, received>>
      BY <1>4, Zenon DEF Joins, AddLockNode
    <3>3. g2' = [g2 EXCEPT ![e] = pc]
      BY SMTT(30)
    <3>4. /\ \A f \in Electors : g2'[f] = IF f = e THEN pc ELSE g2[f]
          /\ \A f \in Electors : seq'[f] = IF f = e THEN nextSeq ELSE seq[f]
      BY <3>1, <3>2, <3>3
    <3>5. \A f \in Electors : Told(f)' = Told(f)
      BY <3>2, ZenonT(30) DEF Told
    <3> QED
      BY <3>2, <3>4, <3>5, Zenon
  <2>3. BeforeInv'
    BY <2>1, <2>2, SMTT(30) DEF LeaderInv, BeforeInv, Before
  <2>4. ASSUME ~wrapped' PROVE ~wrapped /\ nextSeq' = nextSeq + 1 /\ nextSeq \in Int
    <3>1. ~wrapped /\ nextSeq # MaxSeq
      BY <1>4, <2>4, ZenonT(30) DEF Joins, AddLockNode
    <3> QED
      BY <1>4, <3>1, SeqTypes DEF Joins, AddLockNode
  <2>5. ASSUME ~wrapped' PROVE OrderInv'
    BY <2>1, <2>2, <2>4, <2>5, SeqTypes, SMTT(30) DEF LeaderInv, OrderInv
  <2>6. ASSUME ~wrapped' PROVE ReadInv'
    <3> SUFFICES ASSUME NEW h \in Electors, g2'[h] = "get"
                 PROVE  /\ leaderNode[h].seq < nextSeq + 1
                        /\ NodeExists(leaderNode[h])' => Lowest(leaderNode[h].owner)'
      BY <2>2, <2>4, <2>6, Zenon DEF ReadInv
    <3>1. /\ leaderNode[h].seq < nextSeq
          /\ NodeExists(leaderNode[h]) => Lowest(leaderNode[h].owner)
      BY <2>2, <2>4, <2>6, Zenon DEF LeaderInv, ReadInv
    <3>2. NodeExists(leaderNode[h])' => NodeExists(leaderNode[h])
      <4> DEFINE o == leaderNode[h].owner
      <4>1. /\ leaderNode' = leaderNode /\ o \in Electors
            /\ seq'[o] = IF o = e THEN nextSeq ELSE seq[o]
            /\ o \in live' => o = e \/ o \in live
        BY <2>2, SeqTypes, Zenon
      <4>2. leaderNode[h].seq \in Int /\ nextSeq \in Int
        BY SeqTypes, Zenon
      <4>3. leaderNode[h].seq # nextSeq
        BY <3>1, <4>2, SMTT(30)
      <4> QED
        BY <4>1, <4>3, Zenon DEF NodeExists
    <3> QED
      BY <2>1, <2>2, <2>4, <2>6, <3>1, <3>2, SeqTypes, SMTT(30) DEF LeaderInv, OrderInv, Lowest
  <2>7. ASSUME ~wrapped' PROVE DecidedInv'
    BY <2>1, <2>2, <2>4, <2>7, SeqTypes, SMTT(30) DEF LeaderInv, OrderInv, DecidedInv, Lowest
  <2> QED
    BY <2>3, <2>5, <2>6, <2>7 DEF LeaderInv
<1>5. ASSUME NEW e \in Electors, Reads(e) PROVE LeaderInv'
  <2> PICK f \in live :
        /\ Lowest(f)
        /\ leaderNode' = [leaderNode EXCEPT ![e] = [owner |-> f, seq |-> seq[f]]]
    BY <1>5, ZenonT(30) DEF Reads
  <2>1. /\ \A h \in Electors : g2'[h] = IF h = e THEN "get" ELSE g2[h]
        /\ g2[e] \in After
        /\ leaderNode'[e].owner = f /\ leaderNode'[e].seq = seq[f]
        /\ \A h \in Electors \ {e} : leaderNode'[h] = leaderNode[h]
        /\ UNCHANGED <<nextSeq, wrapped, live, seq, isLeader, received>>
        /\ \A h \in Electors : Told(h)' = Told(h)
    <3>1. UNCHANGED <<nextSeq, wrapped, live, seq, isLeader, received>> /\ g2[e] \in After
      BY <1>5, Zenon DEF Reads, After
    <3>2. \A h \in Electors : g2'[h] = IF h = e THEN "get" ELSE g2[h]
      BY <1>5, Arrays, Zenon DEF Reads
    <3>3. /\ leaderNode'[e] = [owner |-> f, seq |-> seq[f]]
          /\ \A h \in Electors \ {e} : leaderNode'[h] = leaderNode[h]
      BY Arrays, Zenon
    <3> QED
      BY <3>1, <3>2, <3>3, SMTT(30) DEF Told
  <2>2. BeforeInv'
    BY <2>1, ZenonT(30) DEF LeaderInv, BeforeInv, Before
  <2>3. ~wrapped' => OrderInv' /\ DecidedInv'
    <3>1. ~wrapped' => OrderInv'
      BY <2>1, ZenonT(30) DEF LeaderInv, OrderInv
    <3>2. ~wrapped' => DecidedInv'
      BY <2>1, SeqTypes, Zenon DEF LeaderInv, DecidedInv, Lowest
    <3> QED
      BY <3>1, <3>2, Zenon
  <2>4. ~wrapped' => ReadInv'
    <3> SUFFICES ASSUME ~wrapped', NEW h \in Electors, g2'[h] = "get"
                 PROVE  /\ leaderNode'[h].seq < nextSeq'
                        /\ NodeExists(leaderNode[h])' => Lowest(leaderNode[h].owner)'
      BY Zenon DEF ReadInv
    <3>1. OrderInv /\ ReadInv /\ f \in Electors
      BY <2>1, SeqTypes, Zenon DEF LeaderInv
    <3>2. CASE h = e
      <4>1. /\ leaderNode'[h].owner = f /\ leaderNode'[h].seq = seq[f]
            /\ nextSeq' = nextSeq /\ live' = live /\ seq' = seq
        BY <2>1, <3>2, Zenon
      <4>2. seq[f] < nextSeq
        BY <3>1, Zenon DEF OrderInv
      <4>3. Lowest(f)'
        BY <4>1, Zenon DEF Lowest
      <4> QED
        BY <4>1, <4>2, <4>3, Zenon
    <3>3. CASE h # e
      <4>1. /\ leaderNode'[h] = leaderNode[h] /\ g2[h] = "get"
            /\ nextSeq' = nextSeq /\ live' = live /\ seq' = seq
        BY <2>1, <3>3, Zenon
      <4>2. /\ leaderNode[h].seq < nextSeq
            /\ NodeExists(leaderNode[h]) => Lowest(leaderNode[h].owner)
        BY <3>1, <4>1, ZenonT(30) DEF ReadInv
      <4>3. /\ NodeExists(leaderNode[h])' => NodeExists(leaderNode[h])
            /\ Lowest(leaderNode[h].owner) => Lowest(leaderNode[h].owner)'
        BY <4>1, SameNode, Zenon
      <4> QED
        BY <4>1, <4>2, <4>3, Zenon
    <3> QED
      BY <3>2, <3>3, Zenon
  <2> QED
    BY <2>2, <2>3, <2>4 DEF LeaderInv
<1>6. ASSUME NEW e \in Electors, Decides(e) PROVE LeaderInv'
  <2> PICK pc \in {"send", "select", "end"} : g2' = [g2 EXCEPT ![e] = pc]
    BY <1>6, Zenon DEF Decides
  <2>1. /\ \A h \in Electors : g2'[h] = IF h = e THEN pc ELSE g2[h]
        /\ g2[e] \in After
        /\ \A h \in Electors \ {e} : leaderNode'[h] = leaderNode[h]
        /\ \A h \in Electors \ {e} : isLeader'[h] = isLeader[h]
        /\ UNCHANGED <<nextSeq, wrapped, live, seq, received>>
        /\ \A h \in Electors : Told(h)' = Told(h)
    <3>1. \A h \in Electors \ {e} : isLeader'[h] = isLeader[h]
      BY <1>6, DecidesOwnRole, Zenon
    <3>2. UNCHANGED <<nextSeq, wrapped, live, seq, received>> /\ g2[e] \in After
      BY <1>6, Zenon DEF Decides, After
    <3>3. /\ \A h \in Electors : g2'[h] = IF h = e THEN pc ELSE g2[h]
          /\ \A h \in Electors \ {e} : leaderNode'[h] = leaderNode[h]
      BY <1>6, Arrays, ZenonT(30) DEF Decides
    <3> QED
      BY <3>1, <3>2, <3>3, Zenon DEF Told
  <2>2. ASSUME ~wrapped, e \in live
        PROVE  /\ isLeader'[e] => Lowest(e)
               /\ isLeader[e] => isLeader'[e]
    BY <1>6, <2>2, DecidesLowest, SMTT(30)
  <2>3. BeforeInv'
    BY <2>1 DEF LeaderInv, BeforeInv, Before
  <2>4. ASSUME ~wrapped' PROVE OrderInv' /\ ReadInv'
    <3>1. OrderInv /\ ReadInv
      BY <2>1, <2>4, Zenon DEF LeaderInv
    <3>2. OrderInv'
      <4> SUFFICES ASSUME NEW h \in Electors, h \in live' \/ g2'[h] \in After
                   PROVE  seq'[h] < nextSeq' /\ \A k \in live' : seq'[h] = seq'[k] => h = k
        BY Zenon DEF OrderInv
      <4>1. h \in live \/ g2[h] \in After
        BY <2>1, Zenon
      <4> QED
        BY <2>1, <3>1, <4>1, Zenon DEF OrderInv
    <3>3. ASSUME NEW h \in Electors, g2'[h] = "get"
          PROVE  h # e /\ g2[h] = "get" /\ leaderNode'[h] = leaderNode[h]
      BY <2>1, <3>3, Zenon
    <3>4. ReadInv'
      BY <2>1, <3>1, <3>3, ZenonT(30) DEF ReadInv, NodeExists, Lowest
    <3> QED
      BY <3>2, <3>4, Zenon
  <2>5. ASSUME ~wrapped' PROVE DecidedInv'
    BY <2>1, <2>2, <2>5, SeqTypes, SMTT(30) DEF LeaderInv, DecidedInv, Lowest
  <2> QED
    BY <2>3, <2>4, <2>5, Zenon DEF LeaderInv
<1>7. ASSUME NEW e \in Electors, Tells(e) PROVE LeaderInv'
  <2> PICK v \in EventValues : /\ v = "leader" => isLeader[e]
                               /\ received' = [received EXCEPT ![e] = Append(@, v)]
    BY <1>7, Zenon DEF Tells
  <2>1. Told(e)' = v /\ \A f \in Electors \ {e} : Told(f)' = Told(f)
    BY ToldAppend, ZenonT(30)
  <2>2. /\ \A h \in Electors \ {e} : g2'[h] = g2[h]
        /\ g2'[e] \in {"select", "end"}
        /\ g2'[e] \in After => g2[e] \in After
        /\ UNCHANGED <<nextSeq, wrapped, live, seq, leaderNode, isLeader>>
    BY <1>7, Arrays DEF Tells, After
  <2>3. BeforeInv'
    BY <2>1, <2>2, Zenon DEF LeaderInv, BeforeInv, Before
  <2>4. ~wrapped' => OrderInv' /\ ReadInv' /\ DecidedInv'
    BY <2>1, <2>2, SeqTypes, ZenonT(30) DEF LeaderInv, OrderInv, ReadInv, DecidedInv, Lowest, NodeExists
  <2> QED
    BY <2>3, <2>4 DEF LeaderInv
<1> QED
  BY StepKinds, <1>1, <1>2, <1>3, <1>4, <1>5, <1>6, <1>7, ZenonT(30) DEF StepOf

\* The inductive invariant of single leadership.
LEMMA LeaderInvariant == Spec => [](TypeOK /\ OffInv /\ LeaderInv)
<1>1. Init => OffInv /\ LeaderInv
  BY DEF Init, OffInv, LeaderInv, BeforeInv, OrderInv, ReadInv, DecidedInv, After, Told
<1> QED
  BY <1>1, TypeCorrect, TypeStep, OffStep, LeaderStep, PTL DEF Spec

\* At most one elector whose lock node exists leads, or is believed to lead by its
\* client, until the sequence counter wraps (determineLeader, updateLeaderData).
THEOREM SingleLeader == Spec => []AtMostOneLeader
<1>1. TypeOK /\ LeaderInv => AtMostOneLeader
  BY ElectorAssumption, SMTT(30)
     DEF AtMostOneLeader, Believes, LeaderInv, OrderInv, DecidedInv, Lowest, TypeOK
<1> QED
  BY <1>1, LeaderInvariant, PTL

-----------------------------------------------------------------------------
(* What a settled elector knows. *)

\* While nothing has fired e's watch, the children are as e read them: the node it
\* found is the lowest, and so is the one whose ident it stored.
ViewOf(e) ==
  watch[e] = "armed" /\ ~expired[e] =>
    /\ g2[e] = "get" =>
         \E f \in live : Lowest(f) /\ leaderNode[e].owner = f /\ leaderNode[e].seq = seq[f]
    /\ g2[e] \in {"send", "select"} =>
         \E f \in live : Lowest(f) /\ leaderIdent[e] = f /\ (isLeader[e] <=> seq[e] = seq[f])

ViewInv == \A e \in Electors : ViewOf(e)

\* Nothing happens to the children, and f learns nothing new.
LEMMA ViewSame ==
  ASSUME NEW f \in Electors, ViewOf(f), live' = live, seq' = seq,
         watch'[f] = "armed" /\ ~expired'[f] => watch[f] = "armed" /\ ~expired[f],
         leaderNode'[f] = leaderNode[f], leaderIdent'[f] = leaderIdent[f],
         isLeader'[f] = isLeader[f],
         \/ g2'[f] = g2[f] \/ g2'[f] \notin {"get", "send", "select"}
         \/ g2[f] = "send" /\ g2'[f] = "select"
  PROVE  ViewOf(f)'
<1> SUFFICES ASSUME watch'[f] = "armed", ~expired'[f] PROVE ViewOf(f)'
  BY Zenon DEF ViewOf
<1>1. ASSUME g2'[f] = "get"
      PROVE  \E h \in live' : Lowest(h)' /\ leaderNode'[f].owner = h /\ leaderNode'[f].seq = seq'[h]
  BY <1>1, Zenon DEF ViewOf, Lowest
<1>2. ASSUME g2'[f] \in {"send", "select"}
      PROVE  \E h \in live' : /\ Lowest(h)' /\ leaderIdent'[f] = h
                              /\ isLeader'[f] <=> seq'[f] = seq'[h]
  BY <1>2, Zenon DEF ViewOf, Lowest
<1> QED
  BY <1>1, <1>2, Zenon DEF ViewOf

\* A change of the children fires every armed watch.
LEMMA ViewNotified ==
  ASSUME NotifyWatches, NEW f \in Electors, expired[f] => expired'[f]
  PROVE  ViewOf(f)'
<1>1. watch'[f] = "armed" => expired[f]
  BY Zenon DEF NotifyWatches
<1> QED
  BY <1>1, Zenon DEF ViewOf

\* The functions that views depend on are defined on all electors.
LEMMA ViewArrays ==
  ASSUME TypeOK
  PROVE  /\ DOMAIN watch = Electors /\ DOMAIN expired = Electors /\ DOMAIN g2 = Electors
         /\ DOMAIN leaderNode = Electors /\ DOMAIN leaderIdent = Electors
         /\ DOMAIN isLeader = Electors
  BY ZenonT(30) DEF TypeOK

\* The inductive step for the views.
LEMMA ViewStep ==
  ASSUME TypeOK, ViewInv, [Next]_vars
  PROVE  ViewInv'
<1> SUFFICES ASSUME NEW f \in Electors PROVE ViewOf(f)'
  BY Zenon DEF ViewInv
<1>0. ViewOf(f)
  BY Zenon DEF ViewInv
<1>1. CASE UNCHANGED vars
  BY <1>0, <1>1, ViewSame, Zenon DEF vars, zkVars, connVars, pcVars, runVars, dataVars
<1>2. ASSUME NEW e \in Electors, Start(e) PROVE ViewOf(f)'
  <2>1. g2'[f] = g2[f] \/ g2'[f] = "initialize"
    BY <1>2, ViewArrays, Zenon DEF Start
  <2> QED
    BY <1>0, <1>2, <2>1, ViewSame, Zenon DEF Start, zkVars, runVars, dataVars
<1>3. ASSUME NEW e \in Electors, Close(e) PROVE ViewOf(f)'
  <2>1. UNCHANGED <<g2, leaderNode, dataVars, seq>>
    BY <1>3, Zenon DEF Close, pcVars, runVars
  <2>2. CASE UNCHANGED <<live, expired, watch>>
    BY <1>0, <2>1, <2>2, ViewSame, Zenon DEF dataVars
  <2>3. ASSUME NEW outcome \in {"event", "ended"}, live' = live, expired' = expired,
               watch' = [watch EXCEPT ![e] = Invalidated(@, outcome)]
        PROVE  ViewOf(f)'
    <3>1. watch'[f] = "armed" => watch[f] = "armed"
      BY <2>3, ViewArrays, Zenon DEF Invalidated
    <3> QED
      BY <1>0, <2>1, <2>3, <3>1, ViewSame, Zenon DEF dataVars
  <2>4. ASSUME NEW outcome \in {"event", "ended"},
               expired' = [expired EXCEPT ![e] = TRUE],
               watch' = [g \in Electors |->
                           IF g = e THEN Invalidated(watch[g], outcome)
                           ELSE IF watch[g] = "armed" /\ ~expired[g] THEN "stale"
                           ELSE watch[g]]
        PROVE  ViewOf(f)'
    <3>1. watch'[f] = "armed" => f # e /\ expired[f]
      BY <2>4, Zenon DEF Invalidated
    <3>2. expired[f] => expired'[f]
      BY <2>4, ViewArrays, Zenon
    <3> QED
      BY <3>1, <3>2, Zenon DEF ViewOf
  <2> QED
    BY <1>3, <2>2, <2>3, <2>4, Zenon DEF Close, CloseConn
<1>4. ASSUME NEW e \in Electors, Reconnect(e) PROVE ViewOf(f)'
  <2>1. watch'[f] = "armed" /\ ~expired'[f] => watch[f] = "armed" /\ ~expired[f]
    <3>1. CASE f = e
      <4>1. watch'[f] = IF expired[f] THEN Invalidated(watch[f], "event") ELSE watch[f]
        BY <1>4, <3>1, ViewArrays, Zenon DEF Reconnect
      <4> QED
        BY <4>1, Zenon DEF Invalidated
    <3>2. CASE f # e
      BY <1>4, <3>2, ViewArrays, Zenon DEF Reconnect
    <3> QED
      BY <3>1, <3>2, Zenon
  <2> QED
    BY <1>0, <1>4, <2>1, ViewSame, Zenon DEF Reconnect, zkVars, pcVars, runVars, dataVars
<1>5. ASSUME NEW e \in Electors, Expire(e) \/ ExpireClosed(e) PROVE ViewOf(f)'
  <2>1. EndSession(e) /\ (expired[f] => expired'[f])
    BY <1>5, ViewArrays, Zenon DEF Expire, ExpireClosed, EndSession
  <2>2. CASE e \in live
    BY <2>1, <2>2, ViewNotified, Zenon DEF EndSession
  <2>3. CASE e \notin live
    <3>1. live' = live /\ watch' = watch
      BY <2>1, <2>3, Zenon DEF EndSession
    <3> QED
      BY <1>0, <2>1, <3>1, ViewSame, Zenon DEF EndSession, pcVars, runVars, dataVars
  <2> QED
    BY <2>2, <2>3, Zenon
<1>6. ASSUME NEW e \in Electors, Disconnect(e) \/ Watcher(e) \/ SendErr(e) \/ DropErr(e)
      PROVE  ViewOf(f)'
  <2>1. UNCHANGED <<live, seq, watch, expired, g2, leaderNode, leaderIdent, isLeader>>
    BY <1>6, Zenon DEF Disconnect, Watcher, ZKEvent, WatcherQuits, SendErr, DropErr, zkVars,
                       connVars, pcVars, runVars, dataVars
  <2> QED
    BY <1>0, <2>1, ViewSame, Zenon
<1>7. ASSUME NEW e \in Electors, WatchArrives(e) PROVE ViewOf(f)'
  <2>1. watch'[f] = "armed" => watch[f] = "armed"
    BY <1>7, ViewArrays, Zenon DEF WatchArrives
  <2> QED
    BY <1>0, <1>7, <2>1, ViewSame, Zenon DEF WatchArrives, zkVars, pcVars, runVars, dataVars
<1>8. ASSUME NEW e \in Electors,
             \/ InitializeExists(e) \/ SegmentExists(e) \/ SegmentCreate(e) \/ RecoverLock(e)
             \/ DropEvent(e) \/ SendEvent(e) \/ ElectionQuits(e) \/ CallFails(e)
      PROVE  ViewOf(f)'
  <2>1. \/ g2' = [g2 EXCEPT ![e] = "select"] /\ g2[e] = "send"
        \/ \E pc \in {"segExists", "segCreate", "createLock", "children", "end"} :
             g2' = [g2 EXCEPT ![e] = pc]
    <3>1. CASE InitializeExists(e) \/ RecoverLock(e)
      BY <3>1, SMTT(30) DEF InitializeExists, RecoverLock, Goto
    <3>2. CASE SegmentExists(e) \/ SegmentCreate(e)
      BY <3>2 DEF SegmentExists, SegmentCreate, NextSegment, Goto, Fail
    <3>3. CASE DropEvent(e) \/ SendEvent(e)
      BY <3>3, Zenon DEF DropEvent, SendEvent, Goto
    <3>4. CASE ElectionQuits(e) \/ CallFails(e)
      BY <3>4, Zenon DEF ElectionQuits, CallFails, Fail
    <3> QED
      BY <1>8, <3>1, <3>2, <3>3, <3>4, ZenonT(30)
  <2>2. \/ g2'[f] = g2[f] \/ g2'[f] \notin {"get", "send", "select"}
        \/ g2[f] = "send" /\ g2'[f] = "select"
    BY <2>1, ViewArrays, Zenon
  <2>3. UNCHANGED <<live, seq, watch, expired, leaderNode, leaderIdent, isLeader>>
    BY <1>8, Zenon DEF InitializeExists, SegmentExists, SegmentCreate, RecoverLock, DropEvent,
                       SendEvent, ElectionQuits, CallFails, zkVars, connVars, dataVars
  <2> QED
    BY <1>0, <2>2, <2>3, ViewSame, Zenon
<1>9. ASSUME NEW e \in Electors, CreateLock(e) \/ CreateLockUnanswered(e) PROVE ViewOf(f)'
  BY <1>9, ViewNotified, Zenon DEF CreateLock, CreateLockUnanswered, AddLockNode
<1>10. ASSUME NEW e \in Electors, ChildEvent(e) PROVE ViewOf(f)'
  <2>1. watch' = [watch EXCEPT ![e] = "none"]
        /\ \E pc \in {"children", "end"} : g2' = [g2 EXCEPT ![e] = pc]
    BY <1>10, Zenon DEF ChildEvent, Goto, Fail
  <2>2. /\ watch'[f] = "armed" => watch[f] = "armed"
        /\ g2'[f] = g2[f] \/ g2'[f] \notin {"get", "send", "select"}
    BY <2>1, ViewArrays, Zenon
  <2> QED
    BY <1>0, <1>10, <2>2, ViewSame, Zenon DEF ChildEvent, zkVars, dataVars
<1>11. ASSUME NEW e \in Electors, GetChildren(e) PROVE ViewOf(f)'
  <2>1. UNCHANGED <<live, seq, expired, leaderIdent, isLeader>>
    BY <1>11, Zenon DEF GetChildren, zkVars, dataVars
  <2>2. CASE f # e
    BY <1>0, <1>11, <2>1, <2>2, ViewArrays, ViewSame, Zenon DEF GetChildren, Goto, Fail
  <2>3. CASE f = e
    <3>1. CASE g2'[e] = "end"
      BY <2>3, <3>1, Zenon DEF ViewOf
    <3>2. ASSUME NEW h \in live, Lowest(h), g2' = [g2 EXCEPT ![e] = "get"],
                 leaderNode' = [leaderNode EXCEPT ![e] = [owner |-> h, seq |-> seq[h]]]
          PROVE  ViewOf(f)'
      <4>1. leaderNode'[e].owner = h /\ leaderNode'[e].seq = seq[h] /\ g2'[e] = "get"
        BY <3>2, ViewArrays, Zenon
      <4>2. h \in live' /\ Lowest(h)'
        BY <2>1, <3>2, Zenon DEF Lowest
      <4> QED
        BY <2>1, <2>3, <4>1, <4>2, Zenon DEF ViewOf
    <3> QED
      BY <1>11, <2>3, <3>1, <3>2, ViewArrays, Zenon DEF GetChildren, Fail, Goto
  <2> QED
    BY <2>2, <2>3
<1>12. ASSUME NEW e \in Electors, GetIdent(e) PROVE ViewOf(f)'
  <2>1. UNCHANGED <<live, seq, expired, watch>> /\ g2[e] = "get"
    BY <1>12, Zenon DEF GetIdent, zkVars, connVars
  <2>2. CASE f # e
    BY <1>0, <1>12, <2>1, <2>2, ViewArrays, ViewSame, Zenon
       DEF GetIdent, updateLeaderData, Goto, Fail, dataVars
  <2>3. CASE f = e
    <3>1. CASE g2'[e] = "end"
      BY <2>3, <3>1, Zenon DEF ViewOf
    <3>2. ASSUME updateLeaderData(e, leaderNode[e].owner, leaderNode[e].seq = seq[e]),
                 watch'[f] = "armed", ~expired'[f]
          PROVE  ViewOf(f)'
      <4>1. PICK h \in live : Lowest(h) /\ leaderNode[e].owner = h /\ leaderNode[e].seq = seq[h]
        BY <1>0, <2>1, <2>3, <3>2, Zenon DEF ViewOf
      <4>2. /\ leaderIdent'[e] = h
            /\ isLeader'[e] = (seq[h] = seq[e]) /\ g2'[e] \in {"send", "select"}
        BY <3>2, <4>1, ViewArrays, Zenon DEF updateLeaderData, Goto
      <4>3. h \in live' /\ Lowest(h)' /\ (isLeader'[e] <=> seq'[e] = seq'[h])
        BY <2>1, <4>1, <4>2, ZenonT(30) DEF Lowest
      <4>4. g2'[f] # "get"
        BY <2>3, <4>2
      <4> QED
        BY <2>3, <4>2, <4>3, <4>4, Zenon DEF ViewOf
    <3>3. updateLeaderData(e, leaderNode[e].owner, leaderNode[e].seq = seq[e]) \/ g2'[e] = "end"
      BY <1>12, ViewArrays, Zenon DEF GetIdent, Fail
    <3> QED
      BY <3>1, <3>2, <3>3, Zenon DEF ViewOf
  <2> QED
    BY <2>2, <2>3
<1> QED
  BY <1>1, <1>2, <1>3, <1>4, <1>5, <1>6, <1>7, <1>8, <1>9, <1>10, <1>11, <1>12, SMTT(30)
     DEF Next, Election

\* An elector that waits with an unfired watch has the leader's ident and its own role
\* as ZooKeeper has them now (updateFunc, determineLeader, updateLeaderData).
THEOREM SettledViewsAreCurrent == Spec => []SettledViewIsCurrent
<1>1. Init => ViewInv
  BY ZenonT(30) DEF Init, ViewInv, ViewOf
<1>2. ViewInv => SettledViewIsCurrent
  BY Zenon DEF ViewInv, ViewOf, SettledViewIsCurrent, Lowest
<1> QED
  BY <1>1, <1>2, TypeCorrect, ViewStep, PTL DEF Spec

-----------------------------------------------------------------------------
(* The electors implement the abstract election. *)

\* A number that is found to be the lowest and one's own is one's own node's.
LEMMA OwnLowest ==
  ASSUME TypeOK, LeaderInv, NEW e \in Electors, Decides(e), ~wrapped,
         isLeader'[e], ~isLeader[e]
  PROVE  Lowest(e)
<1>1. NodeExists(leaderNode[e]) /\ leaderNode[e].seq = seq[e]
  <2>1. isLeader' # isLeader
    BY Zenon
  <2>2. /\ NodeExists(leaderNode[e])
        /\ isLeader' = [isLeader EXCEPT ![e] = (leaderNode[e].seq = seq[e])]
    BY <2>1, Zenon DEF Decides
  <2>3. isLeader'[e] = (leaderNode[e].seq = seq[e])
    BY <2>2, Zenon DEF TypeOK
  <2> QED
    BY <2>2, <2>3, Zenon
<1>2. leaderNode[e].owner \in live /\ seq[leaderNode[e].owner] = seq[e]
  BY <1>1, Zenon DEF NodeExists
<1>3. e \in live
  BY <1>2, SeqTypes, Zenon DEF LeaderInv, OrderInv, Decides, After
<1> QED
  BY <1>3, DecidesLowest

\* Every step of the electors is a step of the abstract election or changes
\* nothing that it can see.
LEMMA ElectionStep ==
  ASSUME TypeOK, TypeOK', OffInv, LeaderInv, [Next]_vars
  PROVE  [Abstract!Next]_(Abstract!vars)
<1> DEFINE Acting == {e \in Electors : isLeader[e]}
<1>1. CASE UNCHANGED <<nextSeq, wrapped, seq, live, isLeader>>
  BY <1>1, SMTT(30) DEF Abstract!vars
<1>2. ASSUME NEW e \in Electors, Leaves(e) PROVE [Abstract!Next]_(Abstract!vars)
  <2>1. CASE e \in live /\ live' = live \ {e}
    <3>1. Abstract!Leave(e)
      BY <1>2, <2>1, SMTT(30) DEF Leaves, Abstract!Leave
    <3> QED
      BY <3>1, SMTT(30) DEF Abstract!Next
  <2>2. CASE live' = live
    BY <1>1, <1>2, <2>2, SMTT(30) DEF Leaves
  <2> QED
    BY <1>2, <2>1, <2>2, SMTT(30) DEF Leaves
<1>3. ASSUME NEW e \in Electors, Joins(e) PROVE [Abstract!Next]_(Abstract!vars)
  <2>1. e \notin live \cup Acting
    BY <1>3, Zenon DEF Joins, LeaderInv, BeforeInv, Before
  <2>2. nextSeq' \in Int /\ wrapped' \in BOOLEAN
    <3>1. MinSeq \in Int /\ MaxSeq \in Int
      BY ElectorAssumption
    <3>2. \A n \in MinSeq .. MaxSeq : n \in Int
      BY <3>1
    <3> QED
      BY <3>2, ZenonT(30) DEF TypeOK
  <2>3. wrapped \/ nextSeq' <= nextSeq => wrapped'
    <3>1. nextSeq' <= nextSeq => nextSeq = MaxSeq
      <4>1. nextSeq' = IF nextSeq = MaxSeq THEN MinSeq ELSE nextSeq + 1
        BY <1>3, Zenon DEF Joins, AddLockNode
      <4>2. nextSeq \in Int
        BY SeqTypes, Zenon
      <4> QED
        BY <4>1, <4>2
    <3> QED
      BY <1>3, <3>1, Zenon DEF Joins, AddLockNode
  <2>4. Abstract!Join(e)
    BY <1>3, <2>1, <2>2, <2>3, Zenon DEF Joins, AddLockNode, Abstract!Join
  <2> QED
    BY <2>4 DEF Abstract!Next
<1>4. ASSUME NEW e \in Electors, Decides(e) PROVE [Abstract!Next]_(Abstract!vars)
  <2>1. \A h \in Electors \ {e} : isLeader'[h] = isLeader[h]
    BY <1>4, DecidesOwnRole
  <2>2. CASE isLeader'[e] /\ ~isLeader[e]
    <3>1. Acting' = Acting \cup {e}
      BY <2>1, <2>2, Zenon
    <3>2. wrapped \/ Abstract!First(e)
      BY <1>4, <2>2, OwnLowest, Zenon DEF Lowest, Abstract!First
    <3>3. Abstract!Lead(e)
      BY <1>4, <3>1, <3>2, Zenon DEF Decides, Abstract!Lead
    <3> QED
      BY <3>3 DEF Abstract!Next
  <2>3. CASE ~isLeader'[e] /\ isLeader[e]
    <3>1. Acting' = Acting \ {e}
      BY <2>1, <2>3, Zenon
    <3>2. wrapped \/ e \notin live
      BY <1>4, <2>3, DecidesLowest, Zenon
    <3>3. Abstract!StandDown(e)
      BY <1>4, <3>1, <3>2, Zenon DEF Decides, Abstract!StandDown
    <3> QED
      BY <3>3 DEF Abstract!Next
  <2>4. CASE isLeader'[e] <=> isLeader[e]
    <3>1. Acting' = Acting
      BY <2>1, <2>4, Zenon
    <3> QED
      BY <1>4, <3>1, Zenon DEF Decides, Abstract!vars
  <2> QED
    BY <2>2, <2>3, <2>4, Zenon
<1> QED
  BY <1>1, <1>2, <1>3, <1>4, StepKinds, Zenon DEF StepOf, leaderVars, Moves, Reads, Tells

\* The elector of src/elector, with its goroutines, watches, faults and stale reads,
\* implements the abstract election.
THEOREM ElectorImplementsElection == Spec => ImplementsElection
<1>1. Init => Abstract!Init
  <2>1. Init => seq \in [Electors -> Int] /\ nextSeq \in Int
    BY ElectorAssumption, SMTT(30) DEF Init
  <2>2. Init => {e \in Electors : isLeader[e]} = {}
    BY DEF Init
  <2> QED
    BY <2>1, <2>2, SMTT(30) DEF Init, Abstract!Init
<1> QED
  BY <1>1, LeaderInvariant, ElectionStep, PTL DEF Spec, ImplementsElection, Abstract!Spec
=============================================================================
