------------------------------ MODULE NodeInfo ------------------------------
(***************************************************************************)
(* The node information of src/dcos/nodeutil/util.go: callers that share   *)
(* one dcosInfo, its mutex and its cache, while leadership moves and the   *)
(* node registers with Mesos under new IDs.                                *)
(***************************************************************************)
EXTENDS Integers

CONSTANTS
  Callers,
  MaxCalls,     \* bound on the number of calls of a caller
  MaxChanges,   \* bound on the number of changes of the cluster
  NoCaller      \* nobody holds the mutex

ASSUME NodeInfoAssumption ==
  /\ MaxCalls \in Nat /\ MaxChanges \in Nat
  /\ NoCaller \notin Callers

VARIABLES
  cache,            \* the field cache, cleared by OptionNoCache
  master,           \* the field role is dcos.RoleMaster
  leads,            \* the leader's DNS record holds this node's address
  nodeID,           \* the node's ID in Mesos' state: a master's is at the top level, an
                    \* agent's in the entry of slaves that has its address
  changes,          \* number of changes so far
  was,              \* history: was[m], the answers to m that were ever right
  mutex,            \* who holds the mutex
  cachedIP, cachedClusterID,   \* whether they are cached
  cachedIsLeader,   \* "nil", or "true": IsLeader only caches a positive answer
  cachedMesosID,    \* Blank if none is cached
  pc,               \* pc[r]: where r's call is
  call,             \* call[r]: the method that r calls
  fetched,          \* fetched[r]: the ID that r's call has fetched and not yet cached
  ret,              \* ret[r]: "none", "error", "ok"
  answer,           \* answer[r]: the value returned with "ok"
  calls,            \* calls[r]: number of calls r has made
  saw               \* history: the answers that were right at some moment of r's call

clusterVars == <<cache, master, leads, nodeID, changes, was>>
cacheVars   == <<cachedIP, cachedIsLeader, cachedMesosID, cachedClusterID>>
vars == <<clusterVars, mutex, cacheVars, pc, call, fetched, ret, answer, calls, saw>>

Methods == {"DetectIP", "IsLeader", "MesosID", "ClusterID"}
Points  == {"idle", "checkID", "ip", "script", "leader", "lookup", "state", "saveID",
             "cluster"}

Blank     == 0    \* the empty ID
NotListed == -1   \* the ID of an agent that Mesos does not list

\* The right answer to a method, as a number: 1 or 0 for IsLeader; a node's
\* address and its cluster never change.
Truth(m, leading, id) ==
  CASE m \in {"DetectIP", "ClusterID"} -> 1
    [] m = "IsLeader" -> IF leading THEN 1 ELSE 0
    [] m = "MesosID"  -> id

Init ==
  /\ cache \in BOOLEAN
  /\ master \in BOOLEAN
  /\ leads \in (IF master THEN BOOLEAN ELSE {FALSE})
  /\ nodeID \in (IF master THEN {Blank, 1} ELSE {NotListed, Blank, 1})
  /\ changes = 0
  /\ was = [m \in Methods |-> {Truth(m, leads, nodeID)}]
  /\ mutex = NoCaller
  /\ cachedIP = FALSE
  /\ cachedIsLeader = "nil"
  /\ cachedMesosID = Blank
  /\ cachedClusterID = FALSE
  /\ pc = [r \in Callers |-> "idle"]
  /\ call = [r \in Callers |-> "DetectIP"]
  /\ fetched = [r \in Callers |-> 0]
  /\ ret = [r \in Callers |-> "none"]
  /\ answer = [r \in Callers |-> 0]
  /\ calls = [r \in Callers |-> 0]
  /\ saw = [r \in Callers |-> {}]

-----------------------------------------------------------------------------
(* The cluster (external). *)

\* Another master is elected, or the node registers under a new ID or is no more listed.
Change ==
  /\ changes < MaxChanges
  /\ changes' = changes + 1
  /\ \/ master /\ leads' = ~leads /\ UNCHANGED nodeID
     \/ nodeID' = changes + 2 /\ UNCHANGED leads
     \/ ~master /\ nodeID' = NotListed /\ UNCHANGED leads
  /\ saw' = [r \in Callers |-> IF pc[r] = "idle" THEN saw[r]
                               ELSE saw[r] \cup {Truth(call[r], leads', nodeID')}]
  /\ was' = [m \in Methods |-> was[m] \cup {Truth(m, leads', nodeID')}]
  /\ UNCHANGED <<cache, master, mutex, cacheVars, pc, call, fetched, ret, answer, calls>>

-----------------------------------------------------------------------------
(* Calls. *)

Goto(r, point) == pc' = [pc EXCEPT ![r] = point] /\ UNCHANGED <<ret, answer>>

Return(r, result, value) ==
  /\ pc' = [pc EXCEPT ![r] = "idle"]
  /\ ret' = [ret EXCEPT ![r] = result]
  /\ answer' = [answer EXCEPT ![r] = value]

Lock(r) == mutex = NoCaller /\ mutex' = r

Unlock == mutex' = NoCaller

\* A critical section that makes no calls is one step.
LockUnlock == mutex = NoCaller /\ UNCHANGED mutex

\* Mutant: IsLeader locks the structure before it calls DetectIP.
EnterLocked(r, m) == IF m = "IsLeader" THEN Lock(r) ELSE UNCHANGED mutex

\* IsLeader calls DetectIP before it locks the structure.
Enter(r, m) == UNCHANGED mutex

Call(r) ==
  /\ pc[r] = "idle"
  /\ calls[r] < MaxCalls
  /\ calls' = [calls EXCEPT ![r] = @ + 1]
  /\ \E m \in Methods :
       /\ call' = [call EXCEPT ![r] = m]
       /\ pc' = [pc EXCEPT ![r] = CASE m = "MesosID"   -> "checkID"
                                      [] m = "ClusterID" -> "cluster"
                                      [] OTHER           -> "ip"]
       /\ saw' = [saw EXCEPT ![r] = {Truth(m, leads, nodeID)}]
       /\ Enter(r, m)
  /\ ret' = [ret EXCEPT ![r] = "none"]
  /\ answer' = [answer EXCEPT ![r] = 0]
  /\ UNCHANGED <<clusterVars, cacheVars, fetched>>

\* What follows DetectIP in the method that called it.
AfterIP(r) ==
  CASE call[r] = "DetectIP" -> Return(r, "ok", 1)
    [] call[r] = "IsLeader" -> Goto(r, "leader")
    [] call[r] = "MesosID"  -> Goto(r, "state")

\* DetectIP: the cached address, or the script, which runs with the mutex held.
DetectIP(r) ==
  /\ pc[r] = "ip"
  /\ IF cache /\ cachedIP THEN LockUnlock /\ AfterIP(r)
                          ELSE Lock(r) /\ Goto(r, "script")
  /\ UNCHANGED <<clusterVars, cacheVars, call, fetched, calls, saw>>

\* The script fails, times out or prints no address, or DetectIP has the address.
Script(r) ==
  /\ pc[r] = "script"
  /\ Unlock
  /\ \/ Return(r, "error", 0) /\ UNCHANGED cachedIP
     \/ cachedIP' = cache /\ AfterIP(r)
  /\ UNCHANGED <<clusterVars, cachedIsLeader, cachedMesosID, cachedClusterID,
                call, fetched, calls, saw>>

-----------------------------------------------------------------------------
(* IsLeader. *)

\* The cached answer, the answer for an agent, or the lookup with the mutex held.
IsLeader(r) ==
  /\ pc[r] = "leader"
  /\ IF cache /\ cachedIsLeader # "nil" THEN LockUnlock /\ Return(r, "ok", 1)
     ELSE IF ~master THEN LockUnlock /\ Return(r, "ok", 0)
     ELSE Lock(r) /\ Goto(r, "lookup")
  /\ UNCHANGED <<clusterVars, cacheVars, call, fetched, calls, saw>>

\* Mutant: any address will do.
FoundAny(r) ==
  /\ Return(r, "ok", 1)
  /\ cachedIsLeader' = IF cache THEN "true" ELSE cachedIsLeader

\* The addresses of the leader hold the local one, or IsLeader returns an error.
Found(r) ==
  /\ Return(r, IF leads THEN "ok" ELSE "error", IF leads THEN 1 ELSE 0)
  /\ cachedIsLeader' = IF leads /\ cache THEN "true" ELSE cachedIsLeader

Lookup(r) ==
  /\ pc[r] = "lookup"
  /\ Unlock
  /\ \/ Return(r, "error", 0) /\ UNCHANGED cachedIsLeader
     \/ Found(r)
  /\ UNCHANGED <<clusterVars, cachedIP, cachedMesosID, cachedClusterID,
                call, fetched, calls, saw>>

-----------------------------------------------------------------------------
(* MesosID. *)

CheckID(r) ==
  /\ pc[r] = "checkID"
  /\ LockUnlock
  /\ IF cache /\ cachedMesosID # Blank THEN Return(r, "ok", cachedMesosID) ELSE Goto(r, "ip")
  /\ UNCHANGED <<clusterVars, cacheVars, call, fetched, calls, saw>>

\* The answer has an ID for the node.  A master's must not be empty; an agent must be
\* listed, and its ID is not looked at.
HasID(id) == id # IF master THEN Blank ELSE NotListed

\* The request for Mesos' state, without the mutex.
FetchState(r) ==
  /\ pc[r] = "state"
  /\ \/ Return(r, "error", 0) /\ UNCHANGED fetched
     \/ /\ HasID(nodeID)
        /\ IF cache THEN fetched' = [fetched EXCEPT ![r] = nodeID] /\ Goto(r, "saveID")
                    ELSE UNCHANGED fetched /\ Return(r, "ok", nodeID)
  /\ UNCHANGED <<clusterVars, mutex, cacheVars, call, calls, saw>>

SaveID(r) ==
  /\ pc[r] = "saveID"
  /\ LockUnlock
  /\ cachedMesosID' = fetched[r]
  /\ Return(r, "ok", fetched[r])
  /\ fetched' = [fetched EXCEPT ![r] = Blank]
  /\ UNCHANGED <<clusterVars, cachedIP, cachedIsLeader, cachedClusterID,
                call, calls, saw>>

-----------------------------------------------------------------------------
(* ClusterID. *)

\* The cached ID, or the file's, which may be missing, empty or no UUID.
ClusterID(r) ==
  /\ pc[r] = "cluster"
  /\ LockUnlock
  /\ \/ Return(r, "ok", 1) /\ cachedClusterID' = cache
     \/ ~(cache /\ cachedClusterID) /\ Return(r, "error", 0) /\ UNCHANGED cachedClusterID
  /\ UNCHANGED <<clusterVars, cachedIP, cachedIsLeader, cachedMesosID,
                call, fetched, calls, saw>>

-----------------------------------------------------------------------------

Proceed(r) ==
  \/ DetectIP(r) \/ Script(r) \/ IsLeader(r) \/ Lookup(r)
  \/ CheckID(r) \/ FetchState(r) \/ SaveID(r) \/ ClusterID(r)

Next == Change \/ \E r \in Callers : Call(r) \/ Proceed(r)

\* exec.Run kills the script after the timeout (and its output ends: module Exec
\* shows when it does not), lookups and requests end, and sync.Mutex starves nobody.
Spec == Init /\ [][Next]_vars /\ \A r \in Callers : SF_vars(Proceed(r))

-----------------------------------------------------------------------------
(* Properties. *)

\* Although the steps of IsLeader and MesosID are not atomic, every answer was right:
\* without the cache at some moment of the call, with it at some moment since
\* NewNodeInfo (the cache is never cleared, so an answer may be as old as that).  A
\* master's MesosID is never the empty ID, and an agent that Mesos does not list gets
\* none.
AnswerWasCurrent ==
  \A r \in Callers : ret[r] = "ok" =>
    /\ answer[r] \in IF cache THEN was[call[r]] ELSE saw[r]
    /\ call[r] = "MesosID" => HasID(answer[r])

\* Every call returns, however the methods of several callers share the mutex.
CallReturns == \A r \in Callers : pc[r] # "idle" ~> pc[r] = "idle"
=============================================================================
