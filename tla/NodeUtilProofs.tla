--------------------------- MODULE NodeUtilProofs ---------------------------
(***************************************************************************)
(* NewNodeInfo and the methods that share the cache and the mutex of a     *)
(* dcosInfo, for any number of callers and of calls, and however often     *)
(* leadership and the node's ID change.                                    *)
(***************************************************************************)
EXTENDS NodeUtil, SequenceFacts

(* The methods. *)

NodeTypes ==
  /\ pc \in [Callers -> Points] /\ call \in [Callers -> Methods]
  /\ ret \in [Callers -> {"none", "error", "ok"}]
  /\ DOMAIN fetched = Callers /\ DOMAIN answer = Callers /\ DOMAIN saw = Callers

\* An answer of r's call that AnswerWasCurrent allows.
Right(r, value) ==
  /\ value \in IF cache THEN was[call[r]] ELSE saw[r]
  /\ call[r] = "MesosID" => HasID(value)

\* What a call has seen and fetched: what is right now it has seen, and an ID that waits
\* to be cached was right when it was fetched.
CallOf(r) ==
  /\ pc[r] # "idle" => ret[r] = "none" /\ Truth(call[r], leads, nodeID) \in saw[r]
  /\ pc[r] \in {"ip", "script"} => call[r] \in {"DetectIP", "IsLeader", "MesosID"}
  /\ pc[r] \in {"leader", "lookup"} => call[r] = "IsLeader"
  /\ pc[r] \in {"checkID", "state", "saveID"} => call[r] = "MesosID"
  /\ pc[r] = "cluster" => call[r] = "ClusterID"
  /\ pc[r] = "saveID" => cache /\ fetched[r] \in was["MesosID"] /\ HasID(fetched[r])
  /\ ret[r] = "ok" => Right(r, answer[r])

\* Only a master's address is ever the leader's, and what is right now ever was.
NodeInv ==
  /\ NodeTypes
  /\ ~master => ~leads
  /\ \A m \in Methods : Truth(m, leads, nodeID) \in was[m]
  /\ \A r \in Callers : CallOf(r)

\* What is cached was right once.
CacheInv ==
  /\ cachedIsLeader # "nil" => 1 \in was["IsLeader"]
  /\ cachedMesosID # Blank => cachedMesosID \in was["MesosID"] /\ HasID(cachedMesosID)

\* The right answers.
LEMMA Truths ==
  ASSUME NEW leading, NEW id
  PROVE  /\ Truth("DetectIP", leading, id) = 1 /\ Truth("ClusterID", leading, id) = 1
         /\ leading => Truth("IsLeader", leading, id) = 1
         /\ ~leading => Truth("IsLeader", leading, id) = 0
         /\ Truth("MesosID", leading, id) = id
BY DEF Truth

\* A step of one caller leaves the calls of the others alone.
LEMMA OthersSame ==
  ASSUME NodeInv, NEW r \in Callers, UNCHANGED clusterVars,
         \A q \in Callers \ {r} :
           /\ pc'[q] = pc[q] /\ call'[q] = call[q] /\ ret'[q] = ret[q]
           /\ fetched'[q] = fetched[q] /\ answer'[q] = answer[q] /\ saw'[q] = saw[q],
         NodeTypes', CallOf(r)'
  PROVE  NodeInv'
<1>1. UNCHANGED <<cache, master, leads, nodeID, was>>
  BY Zenon DEF clusterVars
<1>2. ASSUME NEW q \in Callers \ {r} PROVE CallOf(q)'
  <2>1. CallOf(q)
    BY Zenon DEF NodeInv
  <2> QED
    BY <1>1, <2>1, ZenonT(30) DEF CallOf, Right, HasID
<1>3. (~master' => ~leads') /\ \A m \in Methods : Truth(m, leads', nodeID') \in was'[m]
  BY <1>1, Zenon DEF NodeInv
<1> QED
  BY <1>2, <1>3, Zenon DEF NodeInv

\* What Goto and Return assign.
LEMMA GotoKeeps ==
  ASSUME NodeInv, NEW r \in Callers, pc[r] # "idle", NEW point \in Points \ {"idle"},
         UNCHANGED <<clusterVars, call, saw>>, Goto(r, point),
         fetched' = fetched \/ \E id : fetched' = [fetched EXCEPT ![r] = id],
         point \in {"ip", "script"} => call[r] \in {"DetectIP", "IsLeader", "MesosID"},
         point \in {"leader", "lookup"} => call[r] = "IsLeader",
         point \in {"checkID", "state", "saveID"} => call[r] = "MesosID",
         point = "cluster" => call[r] = "ClusterID",
         point = "saveID" => cache /\ fetched'[r] \in was["MesosID"] /\ HasID(fetched'[r])
  PROVE  NodeInv'
<1>1. /\ pc' \in [Callers -> Points] /\ pc'[r] = point
      /\ \A q \in Callers \ {r} : pc'[q] = pc[q]
  BY DEF Goto, NodeInv, NodeTypes
<1>2. DOMAIN fetched' = Callers /\ \A q \in Callers \ {r} : fetched'[q] = fetched[q]
  BY DEF NodeInv, NodeTypes
<1>3. UNCHANGED <<cache, master, leads, nodeID, was, call, saw, ret, answer>>
  BY Zenon DEF clusterVars, Goto
<1>4. NodeTypes'
  BY <1>1, <1>2, <1>3, Zenon DEF NodeInv, NodeTypes
<1>5. CallOf(r)
  BY Zenon DEF NodeInv
<1>6. CallOf(r)'
  BY <1>1, <1>3, <1>5, ZenonT(30) DEF CallOf, HasID
<1> QED
  BY <1>1, <1>2, <1>3, <1>4, <1>6, OthersSame, ZenonT(30)

LEMMA ReturnKeeps ==
  ASSUME NodeInv, NEW r \in Callers, NEW result \in {"error", "ok"}, NEW value,
         UNCHANGED <<clusterVars, call, saw>>, Return(r, result, value),
         fetched' = fetched \/ \E id : fetched' = [fetched EXCEPT ![r] = id],
         result = "ok" => Right(r, value)
  PROVE  NodeInv'
<1>1. /\ pc' \in [Callers -> Points] /\ pc'[r] = "idle"
      /\ \A q \in Callers \ {r} : pc'[q] = pc[q]
  BY DEF Return, NodeInv, NodeTypes, Points
<1>2. /\ ret' \in [Callers -> {"none", "error", "ok"}] /\ ret'[r] = result
      /\ \A q \in Callers \ {r} : ret'[q] = ret[q]
  BY DEF Return, NodeInv, NodeTypes
<1>3. DOMAIN answer' = Callers /\ answer'[r] = value /\ \A q \in Callers \ {r} : answer'[q] = answer[q]
  BY DEF Return, NodeInv, NodeTypes
<1>4. DOMAIN fetched' = Callers /\ \A q \in Callers \ {r} : fetched'[q] = fetched[q]
  BY DEF NodeInv, NodeTypes
<1>5. UNCHANGED <<cache, master, leads, nodeID, was, call, saw>>
  BY Zenon DEF clusterVars
<1>6. NodeTypes'
  BY <1>1, <1>2, <1>3, <1>4, <1>5, Zenon DEF NodeInv, NodeTypes
<1>7. CallOf(r)'
  BY <1>1, <1>2, <1>3, <1>5, ZenonT(30) DEF CallOf, Right, HasID
<1> QED
  BY <1>1, <1>2, <1>3, <1>4, <1>5, <1>6, <1>7, OthersSame, ZenonT(30)

\* A call begins.
LEMMA CallKeeps ==
  ASSUME NodeInv, NEW r \in Callers, Call(r)
  PROVE  NodeInv'
<1> PICK m \in Methods :
       /\ call' = [call EXCEPT ![r] = m]
       /\ pc' = [pc EXCEPT ![r] = CASE m = "MesosID"   -> "checkID"
                                      [] m = "ClusterID" -> "cluster"
                                      [] OTHER           -> "ip"]
       /\ saw' = [saw EXCEPT ![r] = {Truth(m, leads, nodeID)}]
  BY Zenon DEF Call
<1>1. call' \in [Callers -> Methods] /\ call'[r] = m /\ \A q \in Callers \ {r} : call'[q] = call[q]
  BY DEF NodeInv, NodeTypes
<1>2. /\ pc' \in [Callers -> Points] /\ \A q \in Callers \ {r} : pc'[q] = pc[q]
      /\ \/ m = "MesosID" /\ pc'[r] = "checkID"
         \/ m = "ClusterID" /\ pc'[r] = "cluster"
         \/ m \in {"DetectIP", "IsLeader"} /\ pc'[r] = "ip"
  BY DEF NodeInv, NodeTypes, Points, Methods
<1>3. /\ DOMAIN saw' = Callers /\ saw'[r] = {Truth(m, leads, nodeID)}
      /\ \A q \in Callers \ {r} : saw'[q] = saw[q]
  BY Zenon DEF NodeInv, NodeTypes
<1>4. /\ ret' \in [Callers -> {"none", "error", "ok"}] /\ ret'[r] = "none"
      /\ \A q \in Callers \ {r} : ret'[q] = ret[q]
  BY DEF Call, NodeInv, NodeTypes
<1>5. UNCHANGED <<clusterVars, fetched>> /\ answer' = [answer EXCEPT ![r] = 0]
  BY Zenon DEF Call
<1>9. DOMAIN answer' = Callers /\ \A q \in Callers \ {r} : answer'[q] = answer[q]
  BY <1>5, Zenon DEF NodeInv, NodeTypes
<1>6. UNCHANGED <<cache, leads, nodeID>>
  BY <1>5, Zenon DEF clusterVars
<1>7. NodeTypes'
  BY <1>1, <1>2, <1>3, <1>4, <1>5, <1>9, Zenon DEF NodeInv, NodeTypes
<1>8. CallOf(r)'
  BY <1>1, <1>2, <1>3, <1>4, <1>6, Zenon DEF CallOf
<1> QED
  BY <1>1, <1>2, <1>3, <1>4, <1>5, <1>7, <1>8, <1>9, OthersSame, ZenonT(30)

\* What is right now may be returned.
LEMMA RightNow ==
  ASSUME NodeInv, NEW r \in Callers, pc[r] # "idle", NEW value,
         Truth(call[r], leads, nodeID) = value, call[r] = "MesosID" => HasID(value)
  PROVE  Right(r, value)
<1>1. call[r] \in Methods /\ CallOf(r)
  BY Zenon DEF NodeInv, NodeTypes
<1>2. value \in was[call[r]] /\ value \in saw[r]
  BY <1>1, Zenon DEF NodeInv, CallOf
<1> QED
  BY <1>2, Zenon DEF Right

\* DetectIP returns to the method that called it.
LEMMA AfterIPKeeps ==
  ASSUME NodeInv, NEW r \in Callers, pc[r] \in {"ip", "script"},
         UNCHANGED <<clusterVars, call, fetched, saw>>, AfterIP(r)
  PROVE  NodeInv'
<1>1. CallOf(r)
  BY Zenon DEF NodeInv
<1>2. call[r] \in {"DetectIP", "IsLeader", "MesosID"}
  BY <1>1, Zenon DEF CallOf
<1>3. CASE call[r] = "DetectIP"
  <2>1. Return(r, "ok", 1)
    BY <1>3 DEF AfterIP
  <2>2. Right(r, 1)
    <3>1. Truth("DetectIP", leads, nodeID) = 1
      BY Truths
    <3> QED
      BY <1>3, <3>1, RightNow, Zenon
  <2> QED
    BY <1>3, <2>1, <2>2, ReturnKeeps, Zenon
<1>4. CASE call[r] = "IsLeader"
  <2>1. Goto(r, "leader")
    BY <1>4 DEF AfterIP
  <2> QED
    BY <1>4, <2>1, GotoKeeps, Zenon DEF Points
<1>5. CASE call[r] = "MesosID"
  <2>1. Goto(r, "state")
    BY <1>5 DEF AfterIP
  <2> QED
    BY <1>5, <2>1, GotoKeeps, Zenon DEF Points
<1> QED
  BY <1>2, <1>3, <1>4, <1>5, Zenon

\* The steps of a call.
LEMMA ProceedKeeps ==
  ASSUME NodeInv, CacheInv, NEW r \in Callers, Proceed(r)
  PROVE  NodeInv'
<1>1. CallOf(r) /\ (~master => ~leads)
  BY Zenon DEF NodeInv
<1>2. UNCHANGED <<clusterVars, call, saw>>
  BY Zenon DEF Proceed, DetectIP, Script, IsLeader, Lookup, CheckID, FetchState, SaveID, ClusterID
<1>3. ASSUME Return(r, "error", 0), pc[r] \in Points,
             fetched' = fetched \/ \E id : fetched' = [fetched EXCEPT ![r] = id]
      PROVE  NodeInv'
  BY <1>2, <1>3, ReturnKeeps, Zenon
<1>4. pc[r] \in Points
  BY DEF NodeInv, NodeTypes
<1>5. CASE DetectIP(r)
  <2>1. pc[r] = "ip" /\ fetched' = fetched /\ (AfterIP(r) \/ Goto(r, "script"))
    BY <1>5, Zenon DEF DetectIP
  <2>2. call[r] \in {"DetectIP", "IsLeader", "MesosID"}
    BY <1>1, <2>1, Zenon DEF CallOf
  <2> QED
    BY <1>2, <2>1, <2>2, AfterIPKeeps, GotoKeeps, Zenon DEF Points
<1>6. CASE Script(r)
  <2>1. pc[r] = "script" /\ fetched' = fetched /\ (Return(r, "error", 0) \/ AfterIP(r))
    BY <1>6, Zenon DEF Script
  <2> QED
    BY <1>2, <1>3, <1>4, <2>1, AfterIPKeeps, Zenon
<1>7. CASE IsLeader(r)
  <2>1. /\ pc[r] = "leader" /\ fetched' = fetched
        /\ \/ cache /\ cachedIsLeader # "nil" /\ Return(r, "ok", 1)
           \/ ~master /\ Return(r, "ok", 0)
           \/ Goto(r, "lookup")
    BY <1>7, Zenon DEF IsLeader
  <2>2. call[r] = "IsLeader" /\ call[r] # "MesosID" /\ pc[r] # "idle"
    BY <1>1, <2>1, Zenon DEF CallOf
  <2>3. ~master => Right(r, 0)
    <3>1. ~leads => Truth("IsLeader", leads, nodeID) = 0
      BY Truths, ZenonT(30)
    <3> QED
      BY <1>1, <2>2, <3>1, RightNow, ZenonT(30)
  <2>7. cache /\ cachedIsLeader # "nil" => Right(r, 1)
    BY <2>2, Zenon DEF Right, CacheInv
  <2>4. CASE cache /\ cachedIsLeader # "nil" /\ Return(r, "ok", 1)
    BY <1>2, <2>1, <2>4, <2>7, ReturnKeeps, Zenon
  <2>5. CASE ~master /\ Return(r, "ok", 0)
    BY <1>2, <2>1, <2>3, <2>5, ReturnKeeps, ZenonT(30)
  <2>6. CASE Goto(r, "lookup")
    BY <1>2, <2>1, <2>2, <2>6, GotoKeeps, ZenonT(30) DEF Points
  <2> QED
    BY <2>1, <2>4, <2>5, <2>6, SMTT(30)
<1>8. CASE Lookup(r)
  <2>1. /\ pc[r] = "lookup" /\ fetched' = fetched
        /\ \/ Return(r, "error", 0)
           \/ Return(r, IF leads THEN "ok" ELSE "error", IF leads THEN 1 ELSE 0)
    BY <1>8, Zenon DEF Lookup, Found
  <2>2. call[r] = "IsLeader" /\ call[r] # "MesosID" /\ pc[r] # "idle"
    BY <1>1, <2>1, Zenon DEF CallOf
  <2>3. leads => Right(r, 1)
    <3>1. leads => Truth("IsLeader", leads, nodeID) = 1
      BY Truths, ZenonT(30)
    <3> QED
      BY <2>2, <3>1, RightNow, Zenon
  <2>4. Return(r, "error", 0) \/ (leads /\ Return(r, "ok", 1))
    BY <2>1, Zenon
  <2>5. CASE leads /\ Return(r, "ok", 1)
    BY <1>2, <2>1, <2>3, <2>5, ReturnKeeps, Zenon
  <2> QED
    BY <1>3, <1>4, <2>1, <2>4, <2>5, ZenonT(30)
<1>9. CASE CheckID(r)
  <2>1. /\ pc[r] = "checkID" /\ fetched' = fetched
        /\ \/ cache /\ cachedMesosID # Blank /\ Return(r, "ok", cachedMesosID)
           \/ Goto(r, "ip")
    BY <1>9, Zenon DEF CheckID
  <2>2. call[r] = "MesosID"
    BY <1>1, <2>1, Zenon DEF CallOf
  <2>3. CASE cache /\ cachedMesosID # Blank /\ Return(r, "ok", cachedMesosID)
    <3>1. Right(r, cachedMesosID)
      BY <2>2, <2>3, Zenon DEF Right, CacheInv
    <3> QED
      BY <1>2, <2>1, <2>3, <3>1, ReturnKeeps, Zenon
  <2>4. CASE Goto(r, "ip")
    BY <1>2, <2>1, <2>2, <2>4, GotoKeeps, ZenonT(30) DEF Points
  <2> QED
    BY <2>1, <2>3, <2>4, SMTT(30)
<1>10. CASE FetchState(r)
  <2>1. pc[r] = "state"
    BY <1>10, Zenon DEF FetchState
  <2>2. call[r] = "MesosID" /\ pc[r] # "idle"
    BY <1>1, <2>1, Zenon DEF CallOf
  <2>6. Truth("MesosID", leads, nodeID) = nodeID
    BY Truths
  <2>3. CASE Return(r, "error", 0) /\ fetched' = fetched
    BY <1>3, <1>4, <2>3, Zenon
  <2>4. CASE /\ HasID(nodeID) /\ fetched' = [fetched EXCEPT ![r] = nodeID]
             /\ cache /\ Goto(r, "saveID")
    <3>1. fetched'[r] = nodeID /\ nodeID \in was["MesosID"]
      BY <2>4, <2>6, Zenon DEF NodeInv, NodeTypes, Methods
    <3> QED
      BY <1>2, <2>1, <2>2, <2>4, <3>1, GotoKeeps, ZenonT(30) DEF Points
  <2>5. CASE HasID(nodeID) /\ fetched' = fetched /\ Return(r, "ok", nodeID)
    <3>1. Right(r, nodeID)
      BY <2>2, <2>5, <2>6, RightNow, ZenonT(30)
    <3> QED
      BY <1>2, <2>5, <3>1, ReturnKeeps, ZenonT(30)
  <2> QED
    BY <1>10, <2>3, <2>4, <2>5, ZenonT(30) DEF FetchState
<1>11. CASE SaveID(r)
  <2>1. /\ pc[r] = "saveID" /\ fetched' = [fetched EXCEPT ![r] = Blank]
        /\ Return(r, "ok", fetched[r])
    BY <1>11, Zenon DEF SaveID
  <2>2. Right(r, fetched[r])
    BY <1>1, <2>1, Zenon DEF CallOf, Right
  <2> QED
    BY <1>2, <2>1, <2>2, ReturnKeeps, Zenon
<1>12. CASE ClusterID(r)
  <2>1. pc[r] = "cluster" /\ fetched' = fetched /\ (Return(r, "ok", 1) \/ Return(r, "error", 0))
    BY <1>12, Zenon DEF ClusterID
  <2>2. Right(r, 1)
    <3>1. Truth("ClusterID", leads, nodeID) = 1
      BY Truths
    <3>2. call[r] = "ClusterID" /\ call[r] # "MesosID" /\ pc[r] # "idle"
      BY <1>1, <2>1, Zenon DEF CallOf
    <3> QED
      BY <3>1, <3>2, RightNow, Zenon
  <2>3. CASE Return(r, "ok", 1)
    BY <1>2, <2>1, <2>2, <2>3, ReturnKeeps, ZenonT(30)
  <2> QED
    BY <1>3, <1>4, <2>1, <2>3, Zenon
<1> QED
  BY <1>5, <1>6, <1>7, <1>8, <1>9, <1>10, <1>11, <1>12, Zenon DEF Proceed

\* What is put into the cache is right at that moment, or was when it was fetched.
LEMMA CacheKeeps ==
  ASSUME NodeInv, CacheInv, NEW r \in Callers, Proceed(r)
  PROVE  CacheInv'
<1>1. UNCHANGED <<was, master>>
  BY Zenon DEF Proceed, DetectIP, Script, IsLeader, Lookup, CheckID, FetchState, SaveID, ClusterID,
               clusterVars
<1>2. CASE Lookup(r)
  <2>1. cachedMesosID' = cachedMesosID /\ (cachedIsLeader' = cachedIsLeader \/ leads)
    BY <1>2, Zenon DEF Lookup, Found
  <2>2. leads => 1 \in was["IsLeader"]
    <3>1. leads => Truth("IsLeader", leads, nodeID) = 1
      BY Truths, ZenonT(30)
    <3> QED
      BY <3>1, Zenon DEF NodeInv, Methods
  <2> QED
    BY <1>1, <2>1, <2>2, Zenon DEF CacheInv, HasID
<1>3. CASE SaveID(r)
  <2>1. /\ pc[r] = "saveID" /\ cachedMesosID' = fetched[r]
        /\ cachedIsLeader' = cachedIsLeader
    BY <1>3, Zenon DEF SaveID
  <2>2. CallOf(r)
    BY Zenon DEF NodeInv
  <2> QED
    BY <1>1, <2>1, <2>2, Zenon DEF CacheInv, CallOf, HasID
<1>4. CASE UNCHANGED <<cachedIsLeader, cachedMesosID>>
  BY <1>1, <1>4, Zenon DEF CacheInv, HasID
<1> QED
  BY <1>2, <1>3, <1>4, Zenon DEF Proceed, DetectIP, Script, IsLeader, CheckID, FetchState, ClusterID,
                               cacheVars

\* Leadership moves or the node gets another ID, and every call that is under way sees it.
LEMMA ChangeKeeps ==
  ASSUME NodeInv, CacheInv, Change
  PROVE  NodeInv' /\ CacheInv'
<1>1. UNCHANGED <<cache, master, cachedIsLeader, cachedMesosID, pc, call, fetched, ret, answer>>
  BY Zenon DEF Change, cacheVars
<1>2. ~master' => ~leads'
  BY Zenon DEF Change, NodeInv
<1>3. DOMAIN saw' = Callers
  BY Zenon DEF Change
<1>4. ASSUME NEW r \in Callers
      PROVE  /\ saw[r] \subseteq saw'[r]
             /\ pc[r] # "idle" => Truth(call[r], leads', nodeID') \in saw'[r]
  BY <1>4, Zenon DEF Change
<1>5. NodeTypes'
  BY <1>1, <1>3, Zenon DEF NodeInv, NodeTypes
<1>6. \A m \in Methods : was[m] \subseteq was'[m] /\ Truth(m, leads', nodeID') \in was'[m]
  BY Zenon DEF Change
<1>7. "MesosID" \in Methods /\ "IsLeader" \in Methods
  BY Zenon DEF Methods
<1>8. ASSUME NEW r \in Callers PROVE CallOf(r)'
  <2>1. CallOf(r) /\ call[r] \in Methods
    BY Zenon DEF NodeInv, NodeTypes
  <2>2. Right(r, answer[r]) => Right(r, answer[r])'
    BY <1>1, <1>4, <1>6, <2>1, ZenonT(30) DEF Right, HasID
  <2>3. pc[r] = "saveID" => cache /\ fetched[r] \in was'["MesosID"] /\ HasID(fetched[r])'
    BY <1>1, <1>6, <1>7, <2>1, ZenonT(30) DEF CallOf, HasID
  <2> QED
    BY <1>1, <1>4, <2>1, <2>2, <2>3, ZenonT(30) DEF CallOf
<1>9. CacheInv'
  BY <1>1, <1>6, <1>7, ZenonT(30) DEF CacheInv, HasID
<1> QED
  BY <1>2, <1>5, <1>6, <1>8, <1>9, Zenon DEF NodeInv

LEMMA NodeInvariant == UtilSpec => [](NodeInv /\ CacheInv)
<1>1. UtilInit => NodeInv /\ CacheInv
  <2> SUFFICES ASSUME Init PROVE NodeInv /\ CacheInv
    BY Zenon DEF UtilInit
  <2>1. NodeTypes
    BY DEF Init, NodeTypes, Points, Methods
  <2>2. (~master => ~leads) /\ \A m \in Methods : Truth(m, leads, nodeID) \in was[m]
    BY Zenon DEF Init
  <2>3. ASSUME NEW r \in Callers PROVE CallOf(r)
    BY Zenon DEF Init, CallOf
  <2>4. CacheInv
    BY Zenon DEF Init, CacheInv
  <2> QED
    BY <2>1, <2>2, <2>3, <2>4, SMTT(30) DEF NodeInv
<1>2. NodeInv /\ CacheInv /\ [UtilNext]_utilVars => NodeInv' /\ CacheInv'
  <2> SUFFICES ASSUME NodeInv, CacheInv, [UtilNext]_utilVars PROVE NodeInv' /\ CacheInv'
    OBVIOUS
  <2>1. CASE UNCHANGED vars
    <3>1. UNCHANGED <<cache, master, leads, nodeID, was, cachedIsLeader, cachedMesosID, pc, call,
                      fetched, ret, answer, saw>>
      BY <2>1, Zenon DEF vars, clusterVars, cacheVars
    <3> QED
      BY <3>1, ZenonT(30) DEF NodeInv, NodeTypes, CallOf, Right, HasID, CacheInv
  <2>2. ASSUME NEW r \in Callers, Call(r) PROVE CacheInv'
    <3>1. UNCHANGED <<master, was, cachedIsLeader, cachedMesosID>>
      BY <2>2, Zenon DEF Call, clusterVars, cacheVars
    <3> QED
      BY <3>1, Zenon DEF CacheInv, HasID
  <2>3. CASE Next
    BY <2>2, <2>3, ChangeKeeps, CallKeeps, ProceedKeeps, CacheKeeps, Zenon DEF Next
  <2> QED
    BY <2>1, <2>3, Zenon DEF UtilNext, utilVars
<1> QED
  BY <1>1, <1>2, PTL DEF UtilSpec

\* What DetectIP, IsLeader, MesosID and ClusterID return was right, whatever other callers
\* and the cluster did meanwhile: without the cache at some moment of the call, with it
\* at some moment since NewNodeInfo, however the calls that fill the cache overlap; and
\* MesosID never succeeds with a master's empty ID or for an agent that is not listed.
THEOREM AnswersWereCurrent == UtilSpec => []AnswerWasCurrent
<1>1. NodeInv => AnswerWasCurrent
  BY Zenon DEF NodeInv, CallOf, Right, AnswerWasCurrent
<1> QED
  BY <1>1, NodeInvariant, PTL

\* The mutex is held by the caller that runs the script or asks for the leader, and by
\* nobody else.
MutexInUse ==
  /\ mutex \in Callers \cup {NoCaller}
  /\ \A r \in Callers : mutex = r <=> pc[r] \in {"script", "lookup"}

LEMMA MutexStep ==
  ASSUME NodeInv, MutexInUse, Next
  PROVE  MutexInUse'
<1> USE DEF MutexInUse
<1>0. pc \in [Callers -> Points]
  BY Zenon DEF NodeInv, NodeTypes
<1>1. ASSUME NEW r \in Callers, NEW point \in Points, pc' = [pc EXCEPT ![r] = point],
             \/ /\ mutex' = mutex /\ pc[r] \notin {"script", "lookup"}
                /\ point \notin {"script", "lookup"}
             \/ mutex = NoCaller /\ mutex' = r /\ point \in {"script", "lookup"}
             \/ mutex = r /\ mutex' = NoCaller /\ point \notin {"script", "lookup"}
      PROVE  MutexInUse'
  BY <1>0, <1>1, NodeInfoAssumption, SMTT(30)
<1>2. CASE Change
  BY <1>2, Zenon DEF Change
<1>3. ASSUME NEW r \in Callers, Call(r) PROVE MutexInUse'
  <2>1. \E point \in {"checkID", "cluster", "ip"} : pc' = [pc EXCEPT ![r] = point]
    BY <1>3, Zenon DEF Call
  <2>2. pc[r] = "idle" /\ mutex' = mutex
    BY <1>3, Zenon DEF Call, Enter
  <2> QED
    BY <1>1, <2>1, <2>2, Zenon DEF Points
<1>4. ASSUME NEW r \in Callers, AfterIP(r), pc[r] \in {"ip", "script"}
      PROVE  \E point \in {"idle", "leader", "state"} : pc' = [pc EXCEPT ![r] = point]
  <2>1. CallOf(r)
    BY Zenon DEF NodeInv
  <2>2. call[r] \in {"DetectIP", "IsLeader", "MesosID"}
    BY <1>4, <2>1, Zenon DEF CallOf
  <2> QED
    BY <1>4, <2>2, Zenon DEF AfterIP, Return, Goto
<1>5. ASSUME NEW r \in Callers, DetectIP(r) PROVE MutexInUse'
  <2>1. CASE mutex' = mutex /\ AfterIP(r)
    BY <1>1, <1>4, <1>5, <2>1, ZenonT(30) DEF DetectIP, Points
  <2>2. CASE Lock(r) /\ Goto(r, "script")
    BY <1>1, <2>2, Zenon DEF Lock, Goto, Points
  <2> QED
    BY <1>5, <2>1, <2>2, Zenon DEF DetectIP, LockUnlock
<1>6. ASSUME NEW r \in Callers, Script(r) PROVE MutexInUse'
  <2>1. pc[r] = "script" /\ mutex = r /\ mutex' = NoCaller
    BY <1>6, Zenon DEF Script, Unlock
  <2>2. \E point \in {"idle", "leader", "state"} : pc' = [pc EXCEPT ![r] = point]
    BY <1>4, <1>6, <2>1, Zenon DEF Script, Return
  <2> QED
    BY <1>1, <2>1, <2>2, Zenon DEF Points
<1>7. ASSUME NEW r \in Callers, IsLeader(r) PROVE MutexInUse'
  <2>1. CASE mutex' = mutex /\ pc' = [pc EXCEPT ![r] = "idle"]
    BY <1>1, <1>7, <2>1, Zenon DEF IsLeader, Points
  <2>2. CASE Lock(r) /\ Goto(r, "lookup")
    BY <1>1, <2>2, Zenon DEF Lock, Goto, Points
  <2> QED
    BY <1>7, <2>1, <2>2, Zenon DEF IsLeader, LockUnlock, Return
<1>8. ASSUME NEW r \in Callers, Lookup(r) PROVE MutexInUse'
  <2>1. pc[r] = "lookup" /\ mutex = r /\ mutex' = NoCaller /\ pc' = [pc EXCEPT ![r] = "idle"]
    BY <1>8, Zenon DEF Lookup, Unlock, Found, Return
  <2> QED
    BY <1>1, <2>1, Zenon DEF Points
<1>9. ASSUME NEW r \in Callers, CheckID(r) \/ FetchState(r) \/ SaveID(r) \/ ClusterID(r)
      PROVE  MutexInUse'
  <2>1. mutex' = mutex /\ pc[r] \in {"checkID", "state", "saveID", "cluster"}
    BY <1>9, Zenon DEF CheckID, FetchState, SaveID, ClusterID, LockUnlock
  <2>2. \E point \in {"idle", "ip", "saveID"} : pc' = [pc EXCEPT ![r] = point]
    BY <1>9, Zenon DEF CheckID, FetchState, SaveID, ClusterID, Return, Goto
  <2> QED
    BY <1>1, <2>1, <2>2, Zenon DEF Points
<1> QED
  BY <1>2, <1>3, <1>5, <1>6, <1>7, <1>8, <1>9, ZenonT(30) DEF Next, Proceed

\* The mutex of a dcosInfo, which is not reentrant although IsLeader and MesosID call
\* DetectIP: no call, returned or under way, keeps it but the one that runs the script or
\* asks for the leader, and that one waits for nobody (util.go:150-352).
THEOREM NodeMutexIsGivenBack == UtilSpec => []MutexInUse
<1>1. UtilInit => MutexInUse
  BY NodeInfoAssumption DEF UtilInit, Init, MutexInUse
<1>2. NodeInv /\ MutexInUse /\ [UtilNext]_utilVars => MutexInUse'
  <2> SUFFICES ASSUME NodeInv, MutexInUse, [UtilNext]_utilVars PROVE MutexInUse'
    OBVIOUS
  <2>1. CASE UNCHANGED vars
    BY <2>1, Zenon DEF vars, MutexInUse
  <2>2. CASE Next
    BY <2>2, MutexStep, Zenon
  <2> QED
    BY <2>1, <2>2, Zenon DEF UtilNext, utilVars
<1> QED
  BY <1>1, <1>2, NodeInvariant, PTL DEF UtilSpec

-----------------------------------------------------------------------------
(* The options. *)

TextFields == {"mesosStateURL", "detectIPLocation", "dnsRecordLeader", "clusterIDLocation"}

\* Every field is usable from the start; the client is checked before the options.
InfoInv ==
  /\ DOMAIN info = TextFields \cup {"client", "role", "cache", "detectIPTimeout"}
  /\ info.detectIPTimeout > 0
  /\ \A f \in TextFields : info[f] # ""
  /\ built \notin {"no", "error"} => info.client

\* An option that changes one field to a usable value.
LEMMA ApplyKeeps ==
  ASSUME InfoInv, NEW field \in DOMAIN info \ {"client"}, NEW value, NEW ok,
         Apply(field, value, ok),
         ok /\ field = "detectIPTimeout" => value > 0,
         ok /\ field \in TextFields => value # ""
  PROVE  InfoInv'
<1>1. CASE UNCHANGED info
  <2>1. built' \in {built, "error"}
    BY Zenon DEF Apply
  <2> QED
    BY <1>1, <2>1, Zenon DEF InfoInv
<1>2. CASE ok /\ info' = [info EXCEPT ![field] = value] /\ built' = built
  <2>1. DOMAIN info' = DOMAIN info /\ info'[field] = value
        /\ \A f \in DOMAIN info \ {field} : info'[f] = info[f]
    BY <1>2, Zenon
  <2>2. "client" \in DOMAIN info /\ "detectIPTimeout" \in DOMAIN info /\ TextFields \subseteq DOMAIN info
    BY Zenon DEF InfoInv
  <2>3. info'.client = info.client
    BY <2>1, <2>2, Zenon
  <2>4. info'.detectIPTimeout > 0
    BY <1>2, <2>1, <2>2, ZenonT(30) DEF InfoInv
  <2>5. \A f \in TextFields : info'[f] # ""
    BY <1>2, <2>1, <2>2, ZenonT(30) DEF InfoInv
  <2> QED
    BY <1>2, <2>1, <2>3, <2>4, <2>5, ZenonT(30) DEF InfoInv
<1> QED
  BY <1>1, <1>2, Zenon DEF Apply

LEMMA InfoInvariant == UtilSpec => []InfoInv
<1>1. UtilInit => InfoInv
  <2> SUFFICES ASSUME OptionInit PROVE InfoInv
    BY Zenon DEF UtilInit
  <2>1. /\ DOMAIN info = TextFields \cup {"client", "role", "cache", "detectIPTimeout"}
        /\ info.detectIPTimeout > 0
        /\ \A f \in TextFields : info[f] # ""
    <3>1. DOMAIN info = TextFields \cup {"client", "role", "cache", "detectIPTimeout"}
      BY DEF OptionInit, TextFields
    <3>2. info.detectIPTimeout = 10
      BY DEF OptionInit
    <3>3. /\ info.mesosStateURL = "default" /\ info.detectIPLocation = "default"
          /\ info.dnsRecordLeader = "default" /\ info.clusterIDLocation = "default"
      BY DEF OptionInit
    <3>4. \A f \in TextFields : info[f] # ""
      BY <3>3, Zenon DEF TextFields
    <3>5. info.detectIPTimeout > 0
      BY <3>2
    <3> QED
      BY <3>1, <3>4, <3>5, Zenon
  <2> QED
    BY <2>1, Zenon DEF OptionInit, InfoInv
<1>2. InfoInv /\ [UtilNext]_utilVars => InfoInv'
  <2> SUFFICES ASSUME InfoInv, [UtilNext]_utilVars PROVE InfoInv'
    OBVIOUS
  <2>1. CASE UNCHANGED optionVars
    BY <2>1, Zenon DEF optionVars, InfoInv
  <2>2. CASE CheckParameters \/ NewNodeInfo
    <3>1. info' = info /\ (built' \in {"options", "ok"} => built = "options" \/ info.client)
      BY <2>2, Zenon DEF CheckParameters, NewNodeInfo
    <3>2. built' \in {"options", "ok", "error"}
      BY <2>2, Zenon DEF CheckParameters, NewNodeInfo
    <3> QED
      BY <3>1, <3>2, Zenon DEF InfoInv
  <2>3. ASSUME NEW t \in Timeouts, OptionDetectIPTimeout(t) PROVE InfoInv'
    <3>1. "detectIPTimeout" \in DOMAIN info \ {"client"} /\ "detectIPTimeout" \notin TextFields
      BY Zenon DEF InfoInv, TextFields
    <3> QED
      BY <2>3, <3>1, ApplyKeeps, Zenon DEF OptionDetectIPTimeout
  <2>4. CASE OptionNoCache
    <3>1. "cache" \in DOMAIN info \ {"client"} /\ "cache" \notin TextFields
      BY Zenon DEF InfoInv, TextFields
    <3> QED
      BY <2>4, <3>1, ApplyKeeps, Zenon DEF OptionNoCache
  <2>5. ASSUME NEW s \in Strings, NEW field \in TextFields, NEW ok, Apply(field, s, ok), ok => s # ""
        PROVE  InfoInv'
    <3>1. field \in DOMAIN info \ {"client"} /\ field # "detectIPTimeout"
      BY Zenon DEF InfoInv, TextFields
    <3> QED
      BY <2>5, <3>1, ApplyKeeps, Zenon
  <2>6. ASSUME NEW s \in Strings,
               OptionDetectIP(s) \/ OptionMesosStateURL(s) \/ OptionLeaderDNSRecord(s)
                 \/ OptionClusterIDFile(s)
        PROVE  InfoInv'
    BY <2>5, <2>6, NodeOptionsAssumption, ZenonT(30)
       DEF OptionDetectIP, OptionMesosStateURL, OptionLeaderDNSRecord, OptionClusterIDFile, TextFields
  <2> QED
    BY <2>1, <2>2, <2>3, <2>4, <2>6, ZenonT(30) DEF UtilNext, utilVars, OptionNext
<1> QED
  BY <1>1, <1>2, PTL DEF UtilSpec

\* No sequence of options makes NewNodeInfo return a NodeInfo whose methods cannot work:
\* without a client, a timeout, or a file, record or URL to ask (options.go).
THEOREM NodeInfosAreUsable == UtilSpec => []NeverUnusable
<1>1. InfoInv => NeverUnusable
  <2> SUFFICES ASSUME InfoInv, built = "ok"
               PROVE  /\ info.client /\ info.detectIPTimeout > 0
                      /\ "" \notin {info.mesosStateURL, info.detectIPLocation, info.dnsRecordLeader,
                                    info.clusterIDLocation}
    BY Zenon DEF NeverUnusable
  <2> QED
    BY Zenon DEF InfoInv, TextFields
<1> QED
  BY <1>1, InfoInvariant, PTL
-----------------------------------------------------------------------------
(* The search. *)

AllEntries == {Entry(t) : t \in Tasks}

\* es are the entries of the tasks in M, as far as TaskCanonicalID tells: whether there
\* are none, or one and which.
Picks(es, M) ==
  /\ es \in Seq(AllEntries)
  /\ es = <<>> => M = {}
  /\ Len(es) = 1 => \E t \in M : M = {t} /\ es = <<Entry(t)>>

LEMMA PicksAppended ==
  ASSUME NEW ss \in Seq(Seq(AllEntries)), NEW Ms,
         \A i \in 1 .. Len(ss) : Picks(ss[i], Ms[i])
  PROVE  Picks(Appended(ss), UNION {Ms[i] : i \in 1 .. Len(ss)})
<1> DEFINE n == Len(ss)
           M == UNION {Ms[i] : i \in 1 .. n}
           x == Appended(ss)
<1>1. IsFlat(x, ss, n, AllEntries)
  BY AppendedIsFlat, Zenon
<1> HIDE DEF n, x
<1>2. ASSUME x = <<>> PROVE M = {}
  <2>1. \A i \in 1 .. n : Ms[i] = {}
    BY <1>1, <1>2, Zenon DEF IsFlat, Picks, n
  <2> QED
    BY <2>1, Zenon
<1>3. ASSUME Len(x) = 1 PROVE \E t \in M : M = {t} /\ x = <<Entry(t)>>
  <2>1. PICK i \in 1 .. n : ss[i] = x /\ \A j \in 1 .. n \ {i} : ss[j] = <<>>
    BY <1>1, <1>3, Zenon DEF IsFlat
  <2>2. PICK t \in Ms[i] : Ms[i] = {t} /\ x = <<Entry(t)>>
    BY <1>3, <2>1, Zenon DEF Picks, n
  <2>3. \A j \in 1 .. n \ {i} : Ms[j] = {}
    BY <2>1, Zenon DEF Picks, n
  <2>4. M = {t}
    <3>1. t \in M
      BY <2>2, Zenon
    <3>2. ASSUME NEW y \in M PROVE y = t
      <4>1. PICK j \in 1 .. n : y \in Ms[j]
        BY Zenon
      <4>2. j = i
        BY <2>3, <4>1, Zenon
      <4> QED
        BY <2>2, <4>1, <4>2, Zenon
    <3> HIDE DEF M
    <3> QED
      BY <3>1, <3>2, Zenon
  <2> QED
    BY <2>2, <2>4, Zenon
<1>4. x \in Seq(AllEntries)
  BY <1>1 DEF IsFlat
<1>5. Picks(x, M)
  BY <1>2, <1>3, <1>4, Zenon DEF Picks
<1> QED
  BY <1>5, Zenon DEF n, x

LEMMA PicksConcat ==
  ASSUME NEW a, NEW b, NEW A, NEW B, Picks(a, A), Picks(b, B)
  PROVE  Picks(a \o b, A \cup B)
<1> DEFINE c == a \o b
           la == Len(a)
           lb == Len(b)
           lc == Len(c)
<1>1. a \in Seq(AllEntries) /\ b \in Seq(AllEntries)
  BY DEF Picks
<1>2. c \in Seq(AllEntries) /\ lc = la + lb
  BY <1>1, ConcatProperties, Zenon
<1>3. /\ a = <<>> => c = b
      /\ b = <<>> => c = a
  BY <1>1, ConcatEmptySeq, Zenon
<1>4. la \in Nat /\ lb \in Nat /\ (la = 0 => a = <<>>) /\ (lb = 0 => b = <<>>) /\ (c = <<>> => lc = 0)
  BY <1>1
<1> HIDE DEF c
<1>5. ASSUME c = <<>> PROVE A \cup B = {}
  <2> HIDE DEF la, lb, lc
  <2>1. la = 0 /\ lb = 0
    BY <1>2, <1>4, <1>5, SMTT(30)
  <2> QED
    BY <1>4, <2>1, Zenon DEF Picks
<1>6. ASSUME lc = 1 PROVE \E t \in A \cup B : A \cup B = {t} /\ c = <<Entry(t)>>
  <2> HIDE DEF la, lb, lc
  <2>4. la \in Nat /\ lb \in Nat /\ la + lb = 1
    BY <1>2, <1>4, <1>6, Zenon
  <2>1. (la = 1 /\ lb = 0) \/ (la = 0 /\ lb = 1)
    BY <2>4
  <2>2. CASE la = 1 /\ lb = 0
    <3>1. b = <<>> /\ c = a /\ B = {}
      BY <1>3, <1>4, <2>2, Zenon DEF Picks
    <3>2. \E t \in A : A = {t} /\ a = <<Entry(t)>>
      BY <2>2, Zenon DEF Picks, la
    <3> QED
      BY <3>1, <3>2, Zenon
  <2>3. CASE la = 0 /\ lb = 1
    <3>1. a = <<>> /\ c = b /\ A = {}
      BY <1>3, <1>4, <2>3, Zenon DEF Picks
    <3>2. \E t \in B : B = {t} /\ b = <<Entry(t)>>
      BY <2>3, Zenon DEF Picks, lb
    <3> QED
      BY <3>1, <3>2, Zenon
  <2> QED
    BY <2>1, <2>2, <2>3, SMTT(30)
<1>7. Picks(c, A \cup B)
  BY <1>2, <1>5, <1>6, Zenon DEF Picks
<1> QED
  BY <1>7 DEF c

\* A list of one framework.
LEMMA PicksMatching ==
  ASSUME NEW S \in SUBSET Tasks, NEW task
  PROVE  Picks(Matching(Entries(S), task), {t \in S : Matches(t, task)})
<1> DEFINE ts == Listed(S)
           n  == Len(ts)
           es == Entries(S)
           ss == [i \in DOMAIN es |-> IF Matches(es[i], task) THEN <<es[i]>> ELSE <<>>]
           Ms == [i \in 1 .. n |-> IF Matches(ts[i], task) THEN {ts[i]} ELSE {}]
<1>1. IsFiniteSet(S)
  BY TaskAssumption, FS_Subset, Zenon
<1>2. /\ ts \in Seq(S)
      /\ \A x \in S : \E i \in 1 .. n : ts[i] = x
  BY <1>1, ListedOnce, Zenon
<1>3. n \in Nat /\ DOMAIN ts = 1 .. n /\ \A i \in 1 .. n : ts[i] \in S
  BY <1>2
<1>4. es = [i \in 1 .. n |-> Entry(ts[i])]
  BY <1>3, Zenon DEF Entries
<1> HIDE DEF ts, n, es
<1>5. DOMAIN es = 1 .. n /\ \A i \in 1 .. n : es[i] = Entry(ts[i]) /\ es[i] \in AllEntries
  BY <1>3, <1>4, Zenon DEF AllEntries
<1>6. ASSUME NEW t PROVE Matches(Entry(t), task) <=> Matches(t, task)
  BY DEF Matches, Entry
<1>7. ASSUME NEW e \in AllEntries PROVE <<e>> \in Seq(AllEntries) /\ Len(<<e>>) = 1 /\ <<e>> # <<>>
  OBVIOUS
<1>8. <<>> \in Seq(AllEntries) /\ Len(<<>>) # 1
  BY SMTT(30)
<1>9. ASSUME NEW i \in 1 .. n
      PROVE  ss[i] \in Seq(AllEntries) /\ Picks(ss[i], Ms[i])
  <2>1. CASE Matches(ts[i], task)
    <3>1. ss[i] = <<Entry(ts[i])>> /\ Ms[i] = {ts[i]} /\ Entry(ts[i]) \in AllEntries
      BY <1>5, <1>6, <2>1, Zenon
    <3> HIDE DEF ss, Ms
    <3> QED
      BY <1>7, <3>1, Zenon DEF Picks
  <2>2. CASE ~Matches(ts[i], task)
    <3>1. ss[i] = <<>> /\ Ms[i] = {}
      BY <1>5, <1>6, <2>2, Zenon
    <3> HIDE DEF ss, Ms
    <3> QED
      BY <1>8, <3>1, Zenon DEF Picks
  <2> QED
    BY <2>1, <2>2
<1>10. ss \in Seq(Seq(AllEntries)) /\ Len(ss) = n
  <2>1. ss = [i \in 1 .. n |-> ss[i]]
    BY <1>5, Zenon
  <2> HIDE DEF ss
  <2>2. ss \in [1 .. n -> Seq(AllEntries)]
    BY <1>9, <2>1, Zenon
  <2> QED
    BY <1>3, <2>2, SMTT(30)
<1>11. UNION {Ms[i] : i \in 1 .. n} = {t \in S : Matches(t, task)}
  <2>1. \A i \in 1 .. n : Ms[i] = IF Matches(ts[i], task) THEN {ts[i]} ELSE {}
    BY Zenon
  <2> HIDE DEF Ms
  <2>2. ASSUME NEW i \in 1 .. n, NEW t \in Ms[i] PROVE t \in S /\ Matches(t, task)
    <3>1. Matches(ts[i], task) /\ t = ts[i]
      BY <2>1, <2>2, Zenon
    <3> QED
      BY <1>3, <3>1, Zenon
  <2>3. ASSUME NEW t \in S, Matches(t, task) PROVE \E i \in 1 .. n : t \in Ms[i]
    <3>1. PICK i \in 1 .. n : ts[i] = t
      BY <1>2, Zenon
    <3>2. t \in Ms[i]
      BY <2>1, <2>3, <3>1, Zenon
    <3> QED
      BY <3>2, Zenon
  <2> QED
    BY <2>2, <2>3, Zenon
<1>12. Matching(es, task) = Appended(ss)
  BY Zenon DEF Matching
<1> HIDE DEF ss, Ms
<1>13. Picks(Appended(ss), UNION {Ms[i] : i \in 1 .. n})
  BY <1>9, <1>10, PicksAppended, Zenon
<1> QED
  BY <1>11, <1>12, <1>13, Zenon DEF es

\* The frameworks of Mesos' answer.
FrameworksOf(F) == LET fs == Listed(F) IN [i \in DOMAIN fs |-> Framework(fs[i])]

\* The list of a framework that TaskCanonicalID asks for.
ListName(completed) == IF completed THEN "completed_tasks" ELSE "tasks"

\* The tasks in that list of the frameworks F that match.
MatchingIn(F, task, completed) ==
  {t \in Tasks : t.framework \in F /\ list[t] = ListName(completed) /\ Matches(t, task)}

\* findTask searches the lists of several frameworks.
LEMMA PicksFind ==
  ASSUME NEW F, IsFiniteSet(F), NEW task, NEW completed \in BOOLEAN
  PROVE  Picks(findTask(task, completed, FrameworksOf(F)), MatchingIn(F, task, completed))
<1> DEFINE fs == Listed(F)
           n  == Len(fs)
           L  == ListName(completed)
           gs == FrameworksOf(F)
           S(i) == {t \in Tasks : t.framework = fs[i] /\ list[t] = L}
           M(i) == {t \in S(i) : Matches(t, task)}
           ss == [i \in DOMAIN gs |->
                    Matching(IF completed THEN gs[i].completed_tasks ELSE gs[i].tasks, task)]
           Ms == [i \in 1 .. n |-> M(i)]
<1>1. /\ fs \in Seq(F)
      /\ \A f \in F : \E i \in 1 .. n : fs[i] = f
  BY ListedOnce, Zenon
<1>2. n \in Nat /\ DOMAIN fs = 1 .. n /\ \A i \in 1 .. n : fs[i] \in F
  BY <1>1
<1>3. gs = [i \in 1 .. n |-> Framework(fs[i])]
  BY <1>2, Zenon DEF FrameworksOf
<1> HIDE DEF fs, n, gs
<1>4. ASSUME NEW i \in 1 .. n
      PROVE  (IF completed THEN gs[i].completed_tasks ELSE gs[i].tasks) = Entries(S(i))
  <2>1. gs[i] = Framework(fs[i])
    BY <1>3, Zenon
  <2>2. /\ Framework(fs[i]).completed_tasks =
             Entries({t \in Tasks : t.framework = fs[i] /\ list[t] = "completed_tasks"})
        /\ Framework(fs[i]).tasks = Entries({t \in Tasks : t.framework = fs[i] /\ list[t] = "tasks"})
    BY DEF Framework
  <2> QED
    BY <2>1, <2>2, Zenon DEF ListName
<1>5. ASSUME NEW i \in 1 .. n
      PROVE  ss[i] \in Seq(AllEntries) /\ Picks(ss[i], Ms[i])
  <2>1. i \in DOMAIN gs
    BY <1>3, Zenon
  <2>2. ss[i] = Matching(Entries(S(i)), task)
    BY <1>4, <2>1, Zenon
  <2>3. Ms[i] = M(i)
    BY Zenon
  <2>4. S(i) \in SUBSET Tasks
    BY Zenon
  <2> HIDE DEF ss, Ms, S
  <2>5. Picks(ss[i], Ms[i])
    BY <2>2, <2>3, <2>4, PicksMatching, ZenonT(30)
  <2> QED
    BY <2>5, Zenon DEF Picks
<1>6. ss \in Seq(Seq(AllEntries)) /\ Len(ss) = n
  <2>1. ss = [i \in 1 .. n |-> ss[i]]
    <3>1. DOMAIN gs = 1 .. n
      BY <1>3, Zenon
    <3> QED
      BY <3>1, Zenon
  <2> HIDE DEF ss
  <2>2. ss \in [1 .. n -> Seq(AllEntries)]
    BY <1>5, <2>1, Zenon
  <2> QED
    BY <1>2, <2>2, SMTT(30)
<1>7. UNION {Ms[i] : i \in 1 .. n} =
      {t \in Tasks : t.framework \in F /\ list[t] = L /\ Matches(t, task)}
  <2>1. \A i \in 1 .. n : Ms[i] = M(i)
    BY Zenon
  <2> HIDE DEF Ms, L
  <2>2. ASSUME NEW i \in 1 .. n, NEW t \in Ms[i]
        PROVE  t \in Tasks /\ t.framework \in F /\ list[t] = L /\ Matches(t, task)
    <3>1. t \in M(i)
      BY <2>1, <2>2, Zenon
    <3> QED
      BY <1>2, <3>1, Zenon
  <2>3. ASSUME NEW t \in Tasks, t.framework \in F, list[t] = L, Matches(t, task)
        PROVE  \E i \in 1 .. n : t \in Ms[i]
    <3>1. PICK i \in 1 .. n : fs[i] = t.framework
      BY <1>1, <2>3, Zenon
    <3>2. t \in M(i)
      BY <2>3, <3>1, Zenon
    <3> QED
      BY <2>1, <3>2, Zenon
  <2> QED
    BY <2>2, <2>3, Zenon
<1>8. findTask(task, completed, gs) = Appended(ss)
  BY Zenon DEF findTask
<1> HIDE DEF ss, Ms, L
<1>9. Picks(Appended(ss), UNION {Ms[i] : i \in 1 .. n})
  BY <1>5, <1>6, PicksAppended, ZenonT(30)
<1>10. MatchingIn(F, task, completed) = UNION {Ms[i] : i \in 1 .. n}
  BY <1>7, Zenon DEF L, MatchingIn
<1> QED
  BY <1>8, <1>9, <1>10, Zenon DEF gs

\* What TaskCanonicalID finds in Mesos' answer, provided that no running task is in a
\* completed framework.
LEMMA PicksFound ==
  ASSUME ended \in SUBSET Frameworks, \A t \in Tasks : list[t] = "tasks" => t.framework \notin ended,
         NEW task, NEW completed \in BOOLEAN
  PROVE  Picks(FoundTasks(State, task, completed),
               {t \in Tasks : Matches(t, task) /\ list[t] = ListName(completed)})
<1> DEFINE M    == {t \in Tasks : Matches(t, task) /\ list[t] = ListName(completed)}
           N(F) == MatchingIn(F, task, completed)
           A == Frameworks \ ended
           a == findTask(task, completed, FrameworksOf(A))
           b == findTask(task, completed, FrameworksOf(ended))
<1>1. IsFiniteSet(Frameworks)
  <2> DEFINE f == [t \in Tasks |-> t.framework]
  <2>1. f \in Surjection(Tasks, Frameworks)
    BY Zenon DEF Surjection, Frameworks
  <2> QED
    BY <2>1, TaskAssumption, FS_Surjection, Zenon
<1>2. IsFiniteSet(A) /\ IsFiniteSet(ended)
  <2>1. A \in SUBSET Frameworks
    BY Zenon
  <2> QED
    BY <1>1, <2>1, FS_Subset, ZenonT(30)
<1>3. Picks(a, N(A)) /\ Picks(b, N(ended))
  <2> HIDE DEF A
  <2> QED
    BY <1>2, PicksFind, Zenon
<1>4. State.frameworks = FrameworksOf(A) /\ State.completed_frameworks = FrameworksOf(ended)
  BY DEF State, FrameworksOf
<1>5. FoundTasks(State, task, completed) = a \o (IF completed THEN b ELSE <<>>)
  BY <1>4, Zenon DEF FoundTasks
<1>6. \A t \in Tasks : t.framework \in A \/ t.framework \in ended
  BY Zenon DEF Frameworks
<1>7. CASE completed
  <2>1. Picks(a \o b, N(A) \cup N(ended))
    BY <1>3, PicksConcat, Zenon
  <2>2. N(A) \cup N(ended) = M
    <3> HIDE DEF A
    <3> QED
      BY <1>6, Zenon DEF MatchingIn
  <2> QED
    BY <1>5, <1>7, <2>1, <2>2, ZenonT(30)
<1>8. CASE ~completed
  <2>1. a \o <<>> = a
    BY <1>3, ConcatEmptySeq, Zenon DEF Picks
  <2>2. N(A) = M
    <3>1. ListName(completed) = "tasks"
      BY <1>8, Zenon DEF ListName
    <3>2. \A t \in Tasks : list[t] = ListName(completed) => t.framework \in A
      BY <1>6, <3>1, Zenon
    <3> HIDE DEF A
    <3> QED
      BY <3>2, Zenon DEF MatchingIn
  <2> QED
    BY <1>3, <1>5, <1>8, <2>1, <2>2, ZenonT(30)
<1> QED
  BY <1>7, <1>8, SMTT(30)

\* A task's container comes first in what ContainerIDs returns, if it returns any: each
\* status names that container then.
LEMMA ContainerPrefix ==
  ASSUME NEW t \in Tasks, statuses[t] \in Seq({t.container, <<"">>}), ContainerIDs(Entry(t)) # <<>>
  PROVE  StartsWith(ContainerIDs(Entry(t)), t.container)
<1> DEFINE ss == statuses[t]
           S  == STRING \cup {""}
           d  == <<"">>
<1>1. Entry(t).statuses = ss
  BY Zenon DEF Entry
<1>2. /\ \A i \in DOMAIN ss : ss[i][1] # ""
      /\ ContainerIDs(Entry(t)) = Appended(ss)
  BY <1>1, Zenon DEF ContainerIDs
<1>3. ss # <<>>
  BY <1>2, AppendedEmpty, Zenon
<1>4. d \in Seq(S) /\ d[1] = ""
  <2>1. "" \in S
    BY Zenon
  <2> HIDE DEF S
  <2> QED
    BY <2>1, Single, Zenon
<1>5. t.container \in Seq(S)
  <2>1. t.container \in Seq(STRING) /\ STRING \subseteq S
    BY TaskAssumption, Zenon
  <2> QED
    BY <2>1, LargerSeq, Zenon
<1>6. ss \in Seq({t.container, d})
  BY Zenon
<1>7. \A i \in DOMAIN ss : ss[i][1] # d[1]
  BY <1>2, <1>4, ZenonT(30)
<1> HIDE DEF ss, S, d
<1> QED
  BY <1>2, <1>3, <1>4, <1>5, <1>6, <1>7, AppendedPrefix, ZenonT(30)

\* What Choose makes of a search.
LEMMA ChooseCases ==
  ASSUME NEW es \in Seq(AllEntries)
  PROVE  \/ es = <<>> /\ Choose(es).err = "ErrTaskNotFound"
         \/ es # <<>> /\ Choose(es).err \notin {"nil", "ErrTaskNotFound"}
         \/ /\ Len(es) = 1 /\ ContainerIDs(es[1]) # <<>>
            /\ Choose(es) = [err |-> "nil", id |-> es[1].id, containers |-> ContainerIDs(es[1])]
            /\ Choose(es).err = "nil"
<1> DEFINE a == es = <<>>
           b == Len(es) > 1
           c == Len(es) = 1 /\ ContainerIDs(es[1]) = <<>>
           r == [err |-> "nil", id |-> es[1].id, containers |-> ContainerIDs(es[1])]
<1>1. Len(es) \in Nat /\ (es = <<>> <=> Len(es) = 0)
  OBVIOUS
<1>2. /\ a => ~b /\ ~c
      /\ b => ~a /\ ~c
      /\ c => ~a /\ ~b
      /\ ~a /\ ~b => Len(es) = 1
  <2> DEFINE n == Len(es)
  <2>1. n \in Nat /\ (a <=> n = 0)
    BY <1>1
  <2> HIDE DEF n
  <2>2. /\ n = 0 => ~(n > 1) /\ n # 1
        /\ n > 1 => n # 0 /\ n # 1
        /\ n # 0 /\ ~(n > 1) => n = 1
    BY <2>1
  <2> QED
    BY <2>1, <2>2, Zenon DEF n
<1>3. Choose(es) = CASE a -> [err |-> "ErrTaskNotFound"]
                     [] b -> [err |-> "more than 1"]
                     [] c -> [err |-> "ErrContainerIDNotFound"]
                     [] OTHER -> r
  BY Zenon DEF Choose
<1>4. r.err = "nil"
  OBVIOUS
<1> HIDE DEF a, b, c, r
<1>5. /\ a => Choose(es) = [err |-> "ErrTaskNotFound"]
      /\ b => Choose(es) = [err |-> "more than 1"]
      /\ c => Choose(es) = [err |-> "ErrContainerIDNotFound"]
      /\ ~a /\ ~b /\ ~c => Choose(es) = r
  BY <1>2, <1>3, Zenon
<1>6. /\ a => Choose(es).err = "ErrTaskNotFound"
      /\ b => Choose(es).err = "more than 1"
      /\ c => Choose(es).err = "ErrContainerIDNotFound"
  <2>1. \A x : [err |-> x].err = x
    OBVIOUS
  <2> QED
    BY <1>5, <2>1, Zenon
<1>7. CASE a
  BY <1>6, <1>7, Zenon DEF a
<1>8. CASE b
  <2>1. "more than 1" \notin {"nil", "ErrTaskNotFound"}
    OBVIOUS
  <2> QED
    BY <1>2, <1>6, <1>8, <2>1, ZenonT(30) DEF a
<1>9. CASE c
  <2>1. "ErrContainerIDNotFound" \notin {"nil", "ErrTaskNotFound"}
    OBVIOUS
  <2> QED
    BY <1>2, <1>6, <1>9, <2>1, ZenonT(30) DEF a
<1>10. CASE ~a /\ ~b /\ ~c
  <2>1. Choose(es) = r /\ Choose(es).err = "nil" /\ Len(es) = 1
    BY <1>2, <1>4, <1>5, <1>10, ZenonT(30)
  <2>2. ContainerIDs(es[1]) # <<>>
    BY <1>10, <2>1, Zenon DEF c
  <2> QED
    BY <2>1, <2>2, Zenon DEF r
<1> QED
  BY <1>7, <1>8, <1>9, <1>10, SMTT(30)

-----------------------------------------------------------------------------
(* The lookups. *)

Lists == {"none", "tasks", "unreachable_tasks", "completed_tasks", "dropped"}

Lookups == [task : Texts \cup {""}, completed : BOOLEAN, launched : SUBSET Tasks, running : BOOLEAN]

TaskTypes ==
  /\ list \in [Tasks -> Lists]
  /\ \E S : statuses \in [Tasks -> S]
  /\ \A t \in Tasks : statuses[t] \in Seq({t.container, <<"">>})
  /\ ended \in SUBSET Frameworks
  /\ lookup \in Lookups

\* No task of a completed framework runs, and a task that is unreachable has strayed.
ListedTasks ==
  \A t \in Tasks : /\ list[t] = "tasks" => t.framework \notin ended
                   /\ list[t] = "unreachable_tasks" => t \in strayed

\* The tasks that match and were launched when the lookup began are still in some list.
LaunchedTasks == \A t \in lookup.launched : Matches(t, lookup.task) /\ list[t] # "none"

\* A task that was launched and not found running has completed, or had strayed.
MissedTasks == \A t \in missed : t \in Tasks /\ (list[t] \in {"completed_tasks", "dropped"} \/ t \in strayed)

TaskInv ==
  TaskTypes /\ ListedTasks /\ LaunchedTasks /\ MissedTasks /\ CanonicalTask /\ TaskNeverLost

\* A step of Mesos may only move tasks on.
LEMMA MesosKeeps ==
  ASSUME TaskInv, UNCHANGED clientVars, TaskTypes', ListedTasks', strayed \subseteq strayed',
         \A t \in Tasks : list[t] # "none" => list'[t] # "none",
         \A t \in Tasks : list[t] = "dropped" => list'[t] = "dropped",
         \A t \in Tasks : list[t] = "completed_tasks" => list'[t] \in {"completed_tasks", "dropped"}
  PROVE  TaskInv'
<1> USE DEF clientVars
<1>1. LaunchedTasks'
  BY Zenon DEF TaskInv, LaunchedTasks, TaskTypes, Lookups, Matches
<1>2. MissedTasks'
  BY ZenonT(30) DEF TaskInv, MissedTasks
<1>3. CanonicalTask'
  BY Zenon DEF TaskInv, CanonicalTask
<1>4. TaskNeverLost'
  <2>1. missed \subseteq Tasks
    BY Zenon DEF TaskInv, MissedTasks
  <2> QED
    BY <2>1, ZenonT(30) DEF TaskInv, TaskNeverLost, Matches
<1> QED
  BY <1>1, <1>2, <1>3, <1>4, ZenonT(30) DEF TaskInv

\* So does a step that moves one task.
LEMMA MoveKeeps ==
  ASSUME TaskInv, NEW t \in Tasks, NEW l \in Lists \ {"none"}, Move(t, l), strayed \subseteq strayed',
         list[t] # "dropped", list[t] = "completed_tasks" => l = "dropped",
         l = "tasks" => t.framework \notin ended, l = "unreachable_tasks" => t \in strayed'
  PROVE  TaskInv'
<1>1. /\ list' = [list EXCEPT ![t] = l]
      /\ UNCHANGED <<statuses, ended, clientVars>>
  BY Zenon DEF Move
<1>2. TaskTypes /\ ListedTasks
  BY Zenon DEF TaskInv
<1>3. TaskTypes'
  BY <1>1, <1>2, ZenonT(30) DEF TaskTypes, clientVars
<1>4. list'[t] = l /\ \A u \in Tasks \ {t} : list'[u] = list[u]
  BY <1>1, <1>2, Zenon DEF TaskTypes
<1>5. ListedTasks'
  BY <1>1, <1>2, <1>4, ZenonT(30) DEF ListedTasks
<1>6. \A u \in Tasks : list[u] # "none" => list'[u] # "none"
  BY <1>4, Zenon
<1>7. \A u \in Tasks : list[u] = "dropped" => list'[u] = "dropped"
  BY <1>4, Zenon
<1>8. \A u \in Tasks : list[u] = "completed_tasks" => list'[u] \in {"completed_tasks", "dropped"}
  BY <1>4, Zenon
<1> QED
  BY <1>1, <1>3, <1>5, <1>6, <1>7, <1>8, MesosKeeps, ZenonT(30)

LEMMA MovesKeep ==
  ASSUME TaskInv, NEW t \in Tasks,
         Launch(t) \/ Unreachable(t) \/ Reachable(t) \/ Complete(t) \/ Drop(t)
  PROVE  TaskInv'
<1>1. CASE Launch(t)
  <2>1. list[t] = "none" /\ t.framework \notin ended /\ Move(t, "tasks") /\ strayed' = strayed
    BY <1>1, Zenon DEF Launch
  <2> QED
    BY <2>1, MoveKeeps, ZenonT(30) DEF Lists
<1>2. CASE Unreachable(t)
  <2>1. list[t] = "tasks" /\ Move(t, "unreachable_tasks") /\ strayed' = strayed \cup {t}
    BY <1>2, Zenon DEF Unreachable
  <2> QED
    BY <2>1, MoveKeeps, ZenonT(30) DEF Lists
<1>3. CASE Reachable(t)
  <2>1. /\ list[t] = "unreachable_tasks" /\ t.framework \notin ended /\ Move(t, "tasks")
        /\ strayed' = strayed
    BY <1>3, Zenon DEF Reachable
  <2> QED
    BY <2>1, MoveKeeps, ZenonT(30) DEF Lists
<1>4. CASE Complete(t)
  <2>1. /\ list[t] \in {"tasks", "unreachable_tasks"} /\ Move(t, "completed_tasks")
        /\ strayed' = strayed
    BY <1>4, Zenon DEF Complete
  <2> QED
    BY <2>1, MoveKeeps, ZenonT(30) DEF Lists
<1>5. CASE Drop(t)
  <2>1. /\ list[t] \in {"completed_tasks", "unreachable_tasks"} /\ Move(t, "dropped")
        /\ strayed' = strayed
    BY <1>5, Zenon DEF Drop
  <2> QED
    BY <2>1, MoveKeeps, ZenonT(30) DEF Lists
<1> QED
  BY <1>1, <1>2, <1>3, <1>4, <1>5, Zenon

LEMMA UpdateKeeps ==
  ASSUME TaskInv, NEW t \in Tasks, Update(t)
  PROVE  TaskInv'
<1>1. PICK c \in {t.container, <<"">>} : statuses' = [statuses EXCEPT ![t] = Append(@, c)]
  BY Zenon DEF Update
<1>2. UNCHANGED <<list, strayed, ended, clientVars>>
  BY Zenon DEF Update
<1>3. TaskTypes /\ ListedTasks
  BY Zenon DEF TaskInv
<1>4. PICK S : statuses \in [Tasks -> S]
  BY <1>3, Zenon DEF TaskTypes
<1> DEFINE y == Append(statuses[t], c)
<1>5. y \in Seq({t.container, <<"">>})
  BY <1>3, AppendProperties, Zenon DEF TaskTypes
<1> HIDE DEF y
<1>6. statuses' = [statuses EXCEPT ![t] = y]
  BY <1>1, Zenon DEF y
<1>7. statuses' \in [Tasks -> S \cup {y}]
  BY <1>4, <1>6, Zenon
<1>8. statuses'[t] = y /\ \A u \in Tasks \ {t} : statuses'[u] = statuses[u]
  BY <1>4, <1>6, Zenon
<1>9. \A u \in Tasks : statuses'[u] \in Seq({u.container, <<"">>})
  BY <1>3, <1>5, <1>8, Zenon DEF TaskTypes
<1>10. TaskTypes'
  BY <1>2, <1>3, <1>7, <1>9, ZenonT(30) DEF TaskTypes, clientVars
<1>11. ListedTasks'
  BY <1>2, <1>3, Zenon DEF ListedTasks
<1> QED
  BY <1>2, <1>10, <1>11, MesosKeeps, ZenonT(30)

LEMMA CompleteFrameworkKeeps ==
  ASSUME TaskInv, NEW f \in Frameworks, CompleteFramework(f)
  PROVE  TaskInv'
<1> DEFINE New(t) == IF t.framework = f /\ list[t] = "tasks" THEN "completed_tasks" ELSE list[t]
<1>1. /\ ended' = ended \cup {f}
      /\ list' = [t \in Tasks |-> New(t)]
      /\ UNCHANGED <<strayed, statuses, clientVars>>
  BY Zenon DEF CompleteFramework
<1>2. TaskTypes /\ ListedTasks
  BY Zenon DEF TaskInv
<1>4. \A t \in Tasks : list'[t] = New(t)
  BY <1>1, Zenon
<1>5. \A t \in Tasks : New(t) \in Lists
  BY <1>2, Zenon DEF TaskTypes, Lists
<1>6. ListedTasks'
  <2>1. ASSUME NEW t \in Tasks, list'[t] = "tasks" PROVE t.framework \notin ended'
    <3>1. list[t] = "tasks" /\ t.framework # f
      BY <1>4, <2>1, Zenon
    <3> QED
      BY <1>1, <1>2, <3>1, ZenonT(30) DEF ListedTasks
  <2>2. ASSUME NEW t \in Tasks, list'[t] = "unreachable_tasks" PROVE t \in strayed'
    BY <1>1, <1>2, <1>4, <2>2, ZenonT(30) DEF ListedTasks
  <2> QED
    BY <2>1, <2>2, Zenon DEF ListedTasks
<1>7. \A t \in Tasks : list[t] # "none" => list'[t] # "none"
  BY <1>4, Zenon
<1>8. \A t \in Tasks : list[t] = "dropped" => list'[t] = "dropped"
  BY <1>4, Zenon
<1>3. \A t \in Tasks : list[t] = "completed_tasks" => list'[t] = "completed_tasks"
  BY <1>4, Zenon
<1> HIDE DEF New
<1>9. list' \in [Tasks -> Lists]
  BY <1>1, <1>5, Zenon
<1>10. ended' \in SUBSET Frameworks
  BY <1>1, <1>2, Zenon DEF TaskTypes
<1>11. TaskTypes'
  BY <1>1, <1>2, <1>9, <1>10, ZenonT(30) DEF TaskTypes, clientVars
<1> QED
  BY <1>1, <1>3, <1>6, <1>7, <1>8, <1>11, MesosKeeps, ZenonT(30)

LEMMA BeginLookupKeeps ==
  ASSUME TaskInv, NEW task \in Texts, NEW completed \in BOOLEAN, BeginLookup(task, completed)
  PROVE  TaskInv'
<1> DEFINE l == {t \in Tasks : Matches(t, task) /\ list[t] # "none"}
<1>1. /\ lookup' = [task |-> task, completed |-> completed, running |-> TRUE, launched |-> l]
      /\ found' = NoResult
      /\ UNCHANGED <<mesosVars, missed>>
  BY Zenon DEF BeginLookup
<1>2. l \in SUBSET Tasks /\ \A t \in l : Matches(t, task) /\ list[t] # "none"
  BY Zenon
<1> HIDE DEF l
<1>3. lookup' \in Lookups /\ lookup'.task = task /\ lookup'.launched = l /\ lookup'.running
  BY <1>1, <1>2, Zenon DEF Lookups
<1>4. TaskTypes'
  BY <1>1, <1>3, Zenon DEF TaskInv, TaskTypes, mesosVars
<1>5. ListedTasks' /\ MissedTasks'
  BY <1>1, Zenon DEF TaskInv, ListedTasks, MissedTasks, mesosVars
<1>6. LaunchedTasks'
  BY <1>1, <1>2, <1>3, Zenon DEF LaunchedTasks, mesosVars, Matches
<1>7. CanonicalTask'
  <2>1. found'.err \notin {"nil", "ErrTaskNotFound"}
    BY <1>1 DEF NoResult
  <2> QED
    BY <2>1, Zenon DEF CanonicalTask
<1>8. TaskNeverLost'
  BY <1>3, Zenon DEF TaskNeverLost
<1> QED
  BY <1>4, <1>5, <1>6, <1>7, <1>8, ZenonT(30) DEF TaskInv

LEMMA TaskCanonicalIDKeeps ==
  ASSUME TaskInv, TaskCanonicalID
  PROVE  TaskInv'
<1> DEFINE task == lookup.task
           completed == lookup.completed
           es == FoundTasks(State, task, completed)
           M  == {t \in Tasks : Matches(t, task) /\ list[t] = ListName(completed)}
<1>1. /\ lookup' = [lookup EXCEPT !.running = FALSE, !.launched = {}]
      /\ found' \in {[err |-> "http"], Choose(es)}
      /\ matching' = M
      /\ missed' = IF found'.err = "ErrTaskNotFound" /\ ~completed
                   THEN missed \cup lookup.launched ELSE missed
      /\ UNCHANGED mesosVars
  BY Zenon DEF TaskCanonicalID, ListName
<1>2. TaskTypes /\ ListedTasks /\ LaunchedTasks /\ MissedTasks
  BY Zenon DEF TaskInv
<1>3. completed \in BOOLEAN
  BY <1>2, Zenon DEF TaskTypes, Lookups
<1>4. Picks(es, M)
  BY <1>2, <1>3, PicksFound, ZenonT(30) DEF TaskTypes, ListedTasks
<1>5. /\ lookup' \in Lookups
      /\ lookup'.task = task /\ lookup'.completed = completed /\ lookup'.launched = {}
  <2>1. lookup \in Lookups
    BY <1>2, Zenon DEF TaskTypes
  <2> DEFINE x == [lookup EXCEPT !.running = FALSE]
  <2>2. x \in Lookups /\ x.task = task /\ x.completed = completed
    BY <2>1, Zenon DEF Lookups
  <2>3. lookup' = [x EXCEPT !.launched = {}]
    BY <1>1, Zenon
  <2> HIDE DEF x, task, completed
  <2> QED
    BY <2>2, <2>3, Zenon DEF Lookups
<1> HIDE DEF es, M, task, completed
<1>6. "http" \notin {"nil", "ErrTaskNotFound"} /\ [err |-> "http"].err = "http"
  OBVIOUS
<1>7. found'.err \in {"nil", "ErrTaskNotFound"} => found' = Choose(es)
  BY <1>1, <1>6, Zenon
<1>8. found'.err = "ErrTaskNotFound" => M = {}
  <2> SUFFICES ASSUME found'.err = "ErrTaskNotFound" PROVE M = {}
    OBVIOUS
  <2>1. es \in Seq(AllEntries) /\ Choose(es).err = "ErrTaskNotFound" /\ "ErrTaskNotFound" # "nil"
    BY <1>4, <1>7, Zenon DEF Picks
  <2>2. es = <<>>
    BY <2>1, ChooseCases, ZenonT(30)
  <2> QED
    BY <1>4, <2>2, Zenon DEF Picks
<1>9. ASSUME found'.err = "nil"
      PROVE  \E t \in Tasks : M = {t} /\ found'.id = t.id /\ StartsWith(found'.containers, t.container)
  <2>1. es \in Seq(AllEntries) /\ Choose(es).err = "nil" /\ "ErrTaskNotFound" # "nil" /\ found' = Choose(es)
    BY <1>4, <1>7, <1>9, ZenonT(30) DEF Picks
  <2>2. /\ Len(es) = 1 /\ ContainerIDs(es[1]) # <<>>
        /\ found' = [err |-> "nil", id |-> es[1].id, containers |-> ContainerIDs(es[1])]
    BY <2>1, ChooseCases, ZenonT(30)
  <2>3. found'.id = es[1].id /\ found'.containers = ContainerIDs(es[1])
    BY <2>2, SMTT(30)
  <2>4. PICK t \in M : M = {t} /\ es = <<Entry(t)>>
    BY <1>4, <2>2, ZenonT(30) DEF Picks
  <2>5. es[1] = Entry(t)
    BY <2>4, SMTT(30)
  <2>6. t \in Tasks
    BY Zenon DEF M
  <2>7. Entry(t).id = t.id
    BY DEF Entry
  <2>8. statuses[t] \in Seq({t.container, <<"">>}) /\ ContainerIDs(Entry(t)) # <<>>
    BY <1>2, <2>2, <2>5, <2>6, ZenonT(30) DEF TaskTypes
  <2>9. StartsWith(ContainerIDs(Entry(t)), t.container)
    BY <2>6, <2>8, ContainerPrefix, ZenonT(30)
  <2> QED
    BY <2>3, <2>4, <2>5, <2>6, <2>7, <2>9, ZenonT(30)
<1>10. TaskTypes'
  BY <1>1, <1>2, <1>5, ZenonT(30) DEF TaskTypes, mesosVars
<1>11. ListedTasks'
  BY <1>1, <1>2, Zenon DEF ListedTasks, mesosVars
<1>12. LaunchedTasks'
  BY <1>5, Zenon DEF LaunchedTasks
<1>13. UNCHANGED <<list, strayed>>
  BY <1>1, Zenon DEF mesosVars
<1>14. MissedTasks'
  <2>1. CASE found'.err = "ErrTaskNotFound" /\ ~completed
    <3>1. missed' = missed \cup lookup.launched /\ M = {}
      BY <1>1, <1>8, <2>1, Zenon
    <3>2. ASSUME NEW t \in lookup.launched
          PROVE  t \in Tasks /\ (list[t] \in {"completed_tasks", "dropped"} \/ t \in strayed)
      <4>1. t \in Tasks /\ Matches(t, task) /\ list[t] # "none"
        BY <1>2, <3>2, ZenonT(30) DEF LaunchedTasks, TaskTypes, Lookups, task
      <4>2. list[t] # "tasks"
        BY <2>1, <3>1, <4>1, ZenonT(30) DEF M, ListName
      <4> QED
        BY <1>2, <4>1, <4>2, ZenonT(30) DEF TaskTypes, Lists, ListedTasks
    <3> QED
      BY <1>2, <1>13, <3>1, <3>2, ZenonT(30) DEF MissedTasks
  <2>2. CASE ~(found'.err = "ErrTaskNotFound" /\ ~completed)
    <3>1. missed' = missed
      BY <1>1, <2>2, Zenon
    <3> QED
      BY <1>2, <1>13, <3>1, ZenonT(30) DEF MissedTasks
  <2> QED
    BY <2>1, <2>2, Zenon
<1>15. CanonicalTask'
  BY <1>1, <1>8, <1>9, ZenonT(30) DEF CanonicalTask
<1>16. TaskNeverLost'
  <2> SUFFICES ASSUME lookup'.completed, found'.err = "ErrTaskNotFound",
                      NEW t \in missed', Matches(t, lookup'.task)
               PROVE  list'[t] = "dropped" \/ t \in strayed'
    BY Zenon DEF TaskNeverLost, Matches
  <2>1. completed /\ Matches(t, task)
    BY <1>5, Zenon
  <2>2. missed' = missed
    BY <1>1, <2>1, Zenon
  <2>3. \A u \in Tasks : Matches(u, task) => list[u] # "completed_tasks"
    BY <1>8, <2>1, ZenonT(30) DEF M, ListName
  <2> QED
    BY <1>2, <1>13, <2>1, <2>2, <2>3, ZenonT(30) DEF MissedTasks
<1> QED
  BY <1>10, <1>11, <1>12, <1>14, <1>15, <1>16, ZenonT(30) DEF TaskInv

LEMMA TaskInvariant == UtilSpec => []TaskInv
<1>1. UtilInit => TaskInv
  <2> SUFFICES ASSUME TaskInit PROVE TaskInv
    BY Zenon DEF UtilInit
  <2>1. /\ list = [t \in Tasks |-> "none"] /\ statuses = [t \in Tasks |-> <<>>] /\ ended = {}
        /\ lookup = [task |-> "", completed |-> FALSE, launched |-> {}, running |-> FALSE]
        /\ found = NoResult /\ missed = {}
    BY Zenon DEF TaskInit
  <2>2. lookup.launched = {} /\ lookup.completed = FALSE /\ found.err = "none"
    BY <2>1, Zenon DEF NoResult
  <2>3. \A t \in Tasks : statuses[t] = <<>> /\ <<>> \in Seq({t.container, <<"">>})
    <3>1. \A S : <<>> \in Seq(S)
      OBVIOUS
    <3> QED
      BY <2>1, <3>1, Zenon
  <2>4. statuses \in [Tasks -> {<<>>}]
    BY <2>1, Zenon
  <2>5. lookup \in Lookups
    BY <2>1, Zenon DEF Lookups
  <2>6. list \in [Tasks -> Lists]
    BY <2>1, Zenon DEF Lists
  <2>7. TaskTypes
    BY <2>1, <2>3, <2>4, <2>5, <2>6, ZenonT(30) DEF TaskTypes
  <2>8. ListedTasks /\ MissedTasks
    BY <2>1, Zenon DEF ListedTasks, MissedTasks
  <2>9. LaunchedTasks /\ TaskNeverLost
    BY <2>2, Zenon DEF LaunchedTasks, TaskNeverLost
  <2>10. "none" # "nil" /\ "none" # "ErrTaskNotFound"
    OBVIOUS
  <2>11. CanonicalTask
    BY <2>2, <2>10, ZenonT(30) DEF CanonicalTask
  <2> QED
    BY <2>7, <2>8, <2>9, <2>11, ZenonT(30) DEF TaskInv
<1>2. TaskInv /\ [UtilNext]_utilVars => TaskInv'
  <2> SUFFICES ASSUME TaskInv, [UtilNext]_utilVars PROVE TaskInv'
    OBVIOUS
  <2>1. TaskNext \/ UNCHANGED taskVars
    BY Zenon DEF UtilNext, utilVars
  <2>2. CASE UNCHANGED taskVars
    <3> USE DEF taskVars, mesosVars, clientVars
    <3>1. TaskTypes' /\ ListedTasks'
      BY <2>2, Zenon DEF TaskInv, TaskTypes, ListedTasks
    <3> QED
      BY <2>2, <3>1, MesosKeeps, ZenonT(30)
  <2>3. CASE TaskNext
    BY <2>3, MovesKeep, UpdateKeeps, CompleteFrameworkKeeps, BeginLookupKeeps,
       TaskCanonicalIDKeeps, ZenonT(30) DEF TaskNext
  <2> QED
    BY <2>1, <2>2, <2>3, SMTT(30)
<1> QED
  BY <1>1, <1>2, PTL DEF UtilSpec

\* TaskCanonicalID names a task only if no other task matches, finds nothing only if
\* none does, and lists the task's container first: whatever the tasks, their IDs and
\* names, in however many frameworks, and whenever the answer is made.
THEOREM TasksAreCanonical == UtilSpec => []CanonicalTask
<1>1. TaskInv => CanonicalTask
  BY ZenonT(30) DEF TaskInv
<1> QED
  BY <1>1, TaskInvariant, PTL

\* A client that does not find a launched task running, and then asks TaskCanonicalID
\* for the completed ones, is not told that there is no such task, unless Mesos has
\* dropped it or the task has been unreachable.
THEOREM TasksAreNeverLost == UtilSpec => []TaskNeverLost
<1>1. TaskInv => TaskNeverLost
  BY Zenon DEF TaskInv
<1> QED
  BY <1>1, TaskInvariant, PTL
=============================================================================
