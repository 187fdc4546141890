------------------------------ MODULE Elector ------------------------------
(***************************************************************************)
(* The leader elector of src/elector: several electors, each running the   *)
(* three goroutines that Start launches (the ZK event watcher g1, the      *)
(* election loop g2 and the body of start, main), against one ZooKeeper    *)
(* ensemble and through one zk connection each.  Every call on the         *)
(* connection, every channel operation and every critical section is a     *)
(* step of its own.                                                        *)
(*                                                                         *)
(* An elector stands for one run of the library in one process: a process  *)
(* that restarts is another member of Electors.  Its ident is itself.      *)
(***************************************************************************)
EXTENDS Integers, Sequences

CONSTANTS
  Electors,         \* the electors campaigning under one base path
  OwnConn,          \* those started with NewConnection (the others: ExistingConnection)
  Closers,          \* those whose client may call Close without having seen an error
  NoIdent,          \* the empty leaderIdent
  Depth,            \* number of segments of basePath
  InitDepths,       \* how many of them may exist when the election begins
  MinSeq, MaxSeq,   \* range of the sequence counter (int32 in ZooKeeper)
  FirstSeqs,        \* its possible values when the election begins
  Faulty,           \* those whose connection or session may be lost
  MaxFaults,        \* bound on connection losses and session expiries
  ClosedCallsHang,  \* a call made on a closed connection never returns
  LossyEvents       \* those whose zk client may find its event channel full

ASSUME ElectorAssumption ==
  /\ OwnConn \subseteq Electors
  /\ Closers \subseteq Electors
  /\ Faulty \subseteq Electors
  /\ NoIdent \notin Electors
  /\ Depth \in Nat \ {0}
  /\ InitDepths \subseteq 0 .. Depth
  /\ MinSeq \in Int /\ MaxSeq \in Int /\ MinSeq <= MaxSeq
  /\ FirstSeqs \subseteq MinSeq .. MaxSeq
  /\ MaxFaults \in Nat
  /\ ClosedCallsHang \in BOOLEAN
  /\ LossyEvents \subseteq Electors

VARIABLES
  depth,        \* how many leading segments of basePath exist as znodes
  nextSeq,      \* sequence number of the next lock node
  wrapped,      \* history: the counter has gone past MaxSeq
  live,         \* electors whose ephemeral lock node exists
  seq,          \* seq[e]: sequence number of the last lock node created for e
  link,         \* link[e]: e's connection
  expired,      \* expired[e]: ZooKeeper expired the session, e's client does not know
  watch,        \* watch[e]: the children watch, from the server to childEvents
  zkEvents,     \* zkEvents[e]: session events waiting in the zkEvents channel
  faults,       \* number of faults so far
  g1, g2, main, \* program counters of the three goroutines
  lvl,          \* lvl[e]: segment that initialize is looking at, after 0 for "/"
  leaderNode,   \* leaderNode[e]: the node determineLeader found
  firstLeaderUpdate, errch, shouldQuit,
  leaderIdent, isLeader, closing,
  received      \* received[e]: what e's client has received from Events()

zkVars   == <<depth, nextSeq, wrapped, live, seq>>
connVars == <<link, expired, watch, zkEvents, faults>>
pcVars   == <<g1, g2, main>>
runVars  == <<lvl, leaderNode, firstLeaderUpdate, errch, shouldQuit>>
dataVars == <<leaderIdent, isLeader>>
apiVars  == <<closing, received>>
vars     == <<zkVars, connVars, pcVars, runVars, dataVars, apiVars>>

\* program points of g2 at which it waits for an answer from ZooKeeper
Calls == {"initialize", "segExists", "segCreate", "createLock", "recover",
          "children", "get"}

LinkStates  == {"off", "up", "down", "closed"}
\* armed: the server will notify the next change; stale: it has changed, the
\* notification is on its way; event: it is in childEvents; ended: childEvents
\* was closed without one
WatchStates == {"none", "armed", "stale", "event", "ended"}
ZKStates    == {"HasSession", "Disconnected", "Expired"}
EventValues == {"leader", "follower", "err", "nilerr"}

TypeOK ==
  /\ depth \in 0 .. Depth
  /\ nextSeq \in MinSeq .. MaxSeq
  /\ wrapped \in BOOLEAN
  /\ live \subseteq Electors
  /\ seq \in [Electors -> MinSeq .. MaxSeq]
  /\ link \in [Electors -> LinkStates]
  /\ expired \in [Electors -> BOOLEAN]
  /\ watch \in [Electors -> WatchStates]
  /\ zkEvents \in [Electors -> SUBSET ZKStates]
  /\ faults \in 0 .. MaxFaults
  /\ g1 \in [Electors -> {"off", "watch", "end"}]
  /\ g2 \in [Electors -> Calls \cup {"off", "send", "select", "end"}]
  /\ main \in [Electors -> {"off", "wait", "end"}]
  /\ lvl \in [Electors -> 0 .. Depth]
  /\ leaderNode \in [Electors -> [owner : Electors, seq : MinSeq .. MaxSeq]]
  /\ firstLeaderUpdate \in [Electors -> BOOLEAN]
  /\ errch \in [Electors -> {"empty", "nil", "err"}]
  /\ shouldQuit \in [Electors -> BOOLEAN]
  /\ leaderIdent \in [Electors -> Electors \cup {NoIdent}]
  /\ isLeader \in [Electors -> BOOLEAN]
  /\ closing \in [Electors -> BOOLEAN]
  /\ received \in [Electors -> Seq(EventValues)]

\* leaderNode[e] while the local variable is out of scope
NoLeaderNode(e) == [owner |-> e, seq |-> MinSeq]

Init ==
  /\ depth \in InitDepths
  /\ nextSeq \in FirstSeqs
  /\ wrapped = FALSE
  /\ live = {}
  /\ seq = [e \in Electors |-> MinSeq]
  /\ link = [e \in Electors |-> "off"]
  /\ expired = [e \in Electors |-> FALSE]
  /\ watch = [e \in Electors |-> "none"]
  /\ zkEvents = [e \in Electors |-> {}]
  /\ faults = 0
  /\ g1 = [e \in Electors |-> "off"]
  /\ g2 = [e \in Electors |-> "off"]
  /\ main = [e \in Electors |-> "off"]
  /\ lvl = [e \in Electors |-> 0]
  /\ leaderNode = [e \in Electors |-> NoLeaderNode(e)]
  /\ firstLeaderUpdate = [e \in Electors |-> TRUE]
  /\ errch = [e \in Electors |-> "empty"]
  /\ shouldQuit = [e \in Electors |-> FALSE]
  /\ leaderIdent = [e \in Electors |-> NoIdent]
  /\ isLeader = [e \in Electors |-> FALSE]
  /\ closing = [e \in Electors |-> FALSE]
  /\ received = [e \in Electors |-> <<>>]

-----------------------------------------------------------------------------
(* ZooKeeper and the zk client (external to src/elector). *)

\* A request of e reaches a server that still knows e's session.
Served(e) == link[e] = "up" /\ ~expired[e]

\* The children of basePath changed: every armed watch of a live session fires.
NotifyWatches ==
  watch' = [f \in Electors |->
              IF watch[f] = "armed" /\ ~expired[f] THEN "stale" ELSE watch[f]]

\* The server creates e's ephemeral sequential node.
AddLockNode(e) ==
  /\ live' = live \cup {e}
  /\ seq' = [seq EXCEPT ![e] = nextSeq]
  /\ nextSeq' = IF nextSeq = MaxSeq THEN MinSeq ELSE nextSeq + 1
  /\ wrapped' = (wrapped \/ nextSeq = MaxSeq)
  /\ NotifyWatches

\* The zk client puts a session event in its channel; a full channel loses it.  Once the
\* watcher has ended, no one reads the channel and what it holds does not matter.
SendZKEvent(e, state) ==
  \/ g1[e] # "end" /\ zkEvents' = [zkEvents EXCEPT ![e] = @ \cup {state}]
  \/ (g1[e] = "end" \/ e \in LossyEvents) /\ UNCHANGED zkEvents

\* e's TCP connection breaks.  A server that has expired the session breaks it
\* itself; that costs no further fault.
LoseLink(e) ==
  /\ expired[e] \/ (e \in Faulty /\ faults < MaxFaults)
  /\ faults' = IF expired[e] THEN faults ELSE faults + 1
  /\ link' = [link EXCEPT ![e] = "down"]
  /\ SendZKEvent(e, "Disconnected")

\* What invalidateWatches leaves in childEvents when a session is given up.
Invalidated(w, outcome) == IF w \in {"armed", "stale"} THEN outcome ELSE w

Disconnect(e) ==
  /\ link[e] = "up"
  /\ LoseLink(e)
  /\ UNCHANGED <<zkVars, expired, watch, pcVars, runVars, dataVars, apiVars>>

\* The zk client reconnects by itself: to its old session, or, when that has
\* expired, to a new one after invalidating the watches of the old.
Reconnect(e) ==
  /\ link[e] = "down"
  /\ link' = [link EXCEPT ![e] = "up"]
  /\ expired' = [expired EXCEPT ![e] = FALSE]
  /\ watch' = [watch EXCEPT ![e] = IF expired[e] THEN Invalidated(@, "event") ELSE @]
  /\ SendZKEvent(e, IF expired[e] THEN "Expired" ELSE "HasSession")
  /\ UNCHANGED <<zkVars, faults, pcVars, runVars, dataVars, apiVars>>

\* ZooKeeper gives up e's session and deletes its ephemeral node.
EndSession(e) ==
  /\ link[e] # "off"
  /\ ~expired[e]
  /\ expired' = [expired EXCEPT ![e] = TRUE]
  /\ live' = live \ {e}
  /\ IF e \in live THEN NotifyWatches ELSE UNCHANGED watch
  /\ UNCHANGED <<depth, nextSeq, wrapped, seq, link, zkEvents,
                 pcVars, runVars, dataVars, apiVars>>

Expire(e) ==
  /\ link[e] # "closed"
  /\ e \in Faulty
  /\ faults < MaxFaults
  /\ faults' = faults + 1
  /\ EndSession(e)

\* The same for a session whose client closed its connection without the
\* close request reaching the server.
ExpireClosed(e) ==
  /\ link[e] = "closed"
  /\ e \in live
  /\ EndSession(e)
  /\ UNCHANGED faults

\* The notification of a change reaches e's client.
WatchArrives(e) ==
  /\ watch[e] = "stale"
  /\ Served(e)
  /\ watch' = [watch EXCEPT ![e] = "event"]
  /\ UNCHANGED <<zkVars, link, expired, zkEvents, faults, pcVars, runVars,
                 dataVars, apiVars>>

-----------------------------------------------------------------------------
(* Start and Close. *)

\* What e's client was last told; "none" before the first event.
Told(e) == IF received[e] = <<>> THEN "none" ELSE received[e][Len(received[e])]

\* Start: the connection has a session, the goroutines are launched.  (A blank ident and
\* a Connect that fails are returned as errors and leave no elector.)
Start(e) ==
  /\ link[e] = "off"
  /\ link' = [link EXCEPT ![e] = "up"]
  /\ g1' = [g1 EXCEPT ![e] = "watch"]
  /\ g2' = [g2 EXCEPT ![e] = "initialize"]
  /\ main' = [main EXCEPT ![e] = "wait"]
  /\ UNCHANGED <<zkVars, expired, watch, zkEvents, faults, runVars, dataVars, apiVars>>

\* newConnection.Close: the connection is closed; the close request ends the
\* session at once unless it does not get through.  The zk client puts a last event
\* in childEvents before closing it; another Conn may just close it.
CloseConn(e) ==
  /\ link' = [link EXCEPT ![e] = "closed"]
  /\ \E outcome \in {"event", "ended"} :
       \/ /\ Served(e) /\ e \in live
          /\ live' = live \ {e}
          /\ expired' = [expired EXCEPT ![e] = TRUE]
          /\ watch' = [f \in Electors |->
                         IF f = e THEN Invalidated(watch[f], outcome)
                         ELSE IF watch[f] = "armed" /\ ~expired[f] THEN "stale"
                         ELSE watch[f]]
       \/ /\ watch' = [watch EXCEPT ![e] = Invalidated(@, outcome)]
          /\ UNCHANGED <<live, expired>>

\* Mutant: Close closes e.closing but forgets the connector.
CloseWithoutConnector(e) ==
  /\ e \in Closers \/ Told(e) = "err"
  /\ link[e] # "off"
  /\ ~closing[e]
  /\ closing' = [closing EXCEPT ![e] = TRUE]
  /\ UNCHANGED <<zkVars, connVars, pcVars, runVars, dataVars, received>>

\* Elector.Close: both parts are once-guarded, so only the first call counts.  A
\* client calls it when it is done, or when it received the error event.
Close(e) ==
  /\ e \in Closers \/ Told(e) = "err"
  /\ link[e] # "off"
  /\ ~closing[e]
  /\ closing' = [closing EXCEPT ![e] = TRUE]
  /\ IF e \in OwnConn THEN CloseConn(e) ELSE UNCHANGED <<link, live, expired, watch>>
  /\ UNCHANGED <<depth, nextSeq, wrapped, seq, zkEvents, faults, pcVars, runVars,
                 dataVars, received>>

-----------------------------------------------------------------------------
(* How both goroutines end. *)

\* Mutant: the last error replaces the first.
TrySendLastErr(e, err) == errch' = [errch EXCEPT ![e] = err]

\* The non-blocking send on errch, whose capacity is one.
TrySendErr(e, err) == errch' = [errch EXCEPT ![e] = IF @ = "empty" THEN err ELSE @]

\* A goroutine offers its error to errch, then the deferred wg.Done and cancel run.
\* One step: until cancel closes shouldQuit the others only see errch filled,
\* and start reads errch after both goroutines are done.
Return(e, err) ==
  /\ TrySendErr(e, err)
  /\ shouldQuit' = [shouldQuit EXCEPT ![e] = TRUE]

-----------------------------------------------------------------------------
(* g1: the goroutine that watches the session events. *)

\* Mutant: only an expired session is rejected.
checkExpiredOnly(state) == state # "Expired"

\* checkZKEvent rejects the states in which the session cannot be relied on.
checkZKEvent(state) == state \notin {"Expired", "AuthFailed", "Disconnected", "Unknown"}

\* A closed zkEvents channel yields the zero zk.Event, whose state is
\* StateDisconnected.
Pending(e) == zkEvents[e] \cup (IF link[e] = "closed" THEN {"Disconnected"} ELSE {})

ZKEvent(e) ==
  /\ g1[e] = "watch"
  /\ \E state \in Pending(e) :
       IF checkZKEvent(state)
         THEN /\ zkEvents' = [zkEvents EXCEPT ![e] = @ \ {state}]
              /\ UNCHANGED <<g1, errch, shouldQuit>>
         ELSE /\ Return(e, "err")
              /\ g1' = [g1 EXCEPT ![e] = "end"]
              /\ zkEvents' = [zkEvents EXCEPT ![e] = {}]
  /\ UNCHANGED <<zkVars, link, expired, watch, faults, g2, main, lvl, leaderNode,
                 firstLeaderUpdate, dataVars, apiVars>>

WatcherQuits(e) ==
  /\ g1[e] = "watch"
  /\ shouldQuit[e]
  /\ g1' = [g1 EXCEPT ![e] = "end"]
  /\ zkEvents' = [zkEvents EXCEPT ![e] = {}]
  /\ UNCHANGED <<zkVars, link, expired, watch, faults, g2, main, runVars, dataVars,
                 apiVars>>

Watcher(e) == ZKEvent(e) \/ WatcherQuits(e)

-----------------------------------------------------------------------------
(* g2: the election goroutine. *)

Goto(e, pc) == g2' = [g2 EXCEPT ![e] = pc] /\ UNCHANGED <<errch, shouldQuit>>

\* The function run by g2 returns an error.
Fail(e) == g2' = [g2 EXCEPT ![e] = "end"] /\ Return(e, "err")

\* initialize: does basePath exist as a whole?
InitializeExists(e) ==
  /\ g2[e] = "initialize"
  /\ Served(e)
  /\ Goto(e, IF depth = Depth THEN "createLock" ELSE "segExists")
  /\ UNCHANGED <<zkVars, connVars, g1, main, lvl, leaderNode, firstLeaderUpdate,
                 dataVars, apiVars>>

\* The loop of initialize goes on to the next segment, or ends.
NextSegment(e) ==
  /\ Goto(e, IF lvl[e] = Depth THEN "createLock" ELSE "segExists")
  /\ lvl' = [lvl EXCEPT ![e] = IF @ = Depth THEN @ ELSE @ + 1]

\* "/", to which the leading slash of basePath leads first, exists.
SegmentExists(e) ==
  /\ g2[e] = "segExists"
  /\ Served(e)
  /\ IF lvl[e] <= depth THEN NextSegment(e) ELSE Goto(e, "segCreate") /\ UNCHANGED lvl
  /\ UNCHANGED <<zkVars, connVars, g1, main, leaderNode, firstLeaderUpdate,
                 dataVars, apiVars>>

\* Create returns ErrNodeExists when another elector was faster; initialize
\* treats it like any other error.
SegmentCreate(e) ==
  /\ g2[e] = "segCreate"
  /\ Served(e)
  /\ IF lvl[e] <= depth
       THEN Fail(e) /\ UNCHANGED <<depth, lvl>>
       ELSE NextSegment(e) /\ depth' = lvl[e]
  /\ UNCHANGED <<nextSeq, wrapped, live, seq, connVars, g1, main, leaderNode,
                 firstLeaderUpdate, dataVars, apiVars>>

\* CreateProtectedEphemeralSequential, answered.
CreateLock(e) ==
  /\ g2[e] = "createLock"
  /\ Served(e)
  /\ AddLockNode(e)
  /\ Goto(e, "children")
  /\ UNCHANGED <<depth, link, expired, zkEvents, faults, g1, main, lvl, leaderNode,
                 firstLeaderUpdate, dataVars, apiVars>>

\* The node is created but the connection breaks before the answer arrives: the
\* zk client will look for a child with its GUID.
CreateLockUnanswered(e) ==
  /\ g2[e] = "createLock"
  /\ Served(e)
  /\ AddLockNode(e)
  /\ LoseLink(e)
  /\ Goto(e, "recover")
  /\ UNCHANGED <<depth, expired, g1, main, lvl, leaderNode, firstLeaderUpdate,
                 dataVars, apiVars>>

\* It finds the node, or, the session having been lost, creates another.
RecoverLock(e) ==
  /\ g2[e] = "recover"
  /\ Served(e)
  /\ Goto(e, IF e \in live THEN "children" ELSE "createLock")
  /\ UNCHANGED <<zkVars, connVars, g1, main, lvl, leaderNode, firstLeaderUpdate,
                 dataVars, apiVars>>

\* Mutant: the children are not sorted.
Unsorted(f) == f \in live

\* Mutant: sequenceRe without the sign.
LowestUnsigned(f) ==
  LET Abs(n) == IF n < 0 THEN -n ELSE n
  IN  f \in live /\ \A g \in live : Abs(seq[f]) <= Abs(seq[g])

\* f's node is first among the sorted sequences of the children.
Lowest(f) == f \in live /\ \A g \in live : seq[f] <= seq[g]

\* ChildrenW reads the children and sets the watch; determineLeader fails when
\* there are none.
GetChildren(e) ==
  /\ g2[e] = "children"
  /\ Served(e)
  /\ watch' = [watch EXCEPT ![e] = "armed"]
  /\ \/ /\ live = {}
        /\ Fail(e)
        /\ UNCHANGED leaderNode
     \/ \E f \in live :
          /\ Lowest(f)
          /\ leaderNode' = [leaderNode EXCEPT ![e] = [owner |-> f, seq |-> seq[f]]]
          /\ Goto(e, "get")
  /\ UNCHANGED <<zkVars, link, expired, zkEvents, faults, g1, main, lvl,
                 firstLeaderUpdate, dataVars, apiVars>>

\* The node determineLeader found is still there.
NodeExists(node) == node.owner \in live /\ seq[node.owner] = node.seq

\* Mutant: firstLeaderUpdate is never reset.
updateLeaderDataForced(e, ident, leader) ==
  /\ leaderIdent' = [leaderIdent EXCEPT ![e] = ident]
  /\ isLeader' = [isLeader EXCEPT ![e] = leader]
  /\ Goto(e, "send")
  /\ UNCHANGED firstLeaderUpdate

\* updateLeaderData: the new data is stored under the mutex; an event is due
\* when leadership changed or this is the first update.
updateLeaderData(e, ident, leader) ==
  /\ leaderIdent' = [leaderIdent EXCEPT ![e] = ident]
  /\ isLeader' = [isLeader EXCEPT ![e] = leader]
  /\ Goto(e, IF isLeader[e] = leader /\ ~firstLeaderUpdate[e] THEN "select" ELSE "send")
  /\ firstLeaderUpdate' = [firstLeaderUpdate EXCEPT ![e] = FALSE]

\* getIdentFromNode, and the rest of updateFunc up to the send.
GetIdent(e) ==
  /\ g2[e] = "get"
  /\ Served(e)
  /\ IF NodeExists(leaderNode[e])
       THEN updateLeaderData(e, leaderNode[e].owner, leaderNode[e].seq = seq[e])
       ELSE Fail(e) /\ UNCHANGED <<dataVars, firstLeaderUpdate>>
  /\ leaderNode' = [leaderNode EXCEPT ![e] = NoLeaderNode(e)]
  /\ UNCHANGED <<zkVars, connVars, g1, main, lvl, apiVars>>

\* sendEvent: the client takes the event from the unbuffered channel ...
SendEvent(e) ==
  /\ g2[e] = "send"
  /\ received' = [received EXCEPT ![e] =
                    Append(@, IF isLeader[e] THEN "leader" ELSE "follower")]
  /\ Goto(e, "select")
  /\ UNCHANGED <<zkVars, connVars, g1, main, lvl, leaderNode, firstLeaderUpdate,
                 dataVars, closing>>

\* Mutant: sendEvent waits for a receiver even after Close.
NeverDropEvent(e) == g2[e] = "send" /\ FALSE /\ UNCHANGED vars

\* ... or Close was called and nobody is receiving.
DropEvent(e) ==
  /\ g2[e] = "send"
  /\ closing[e]
  /\ Goto(e, "select")
  /\ UNCHANGED <<zkVars, connVars, g1, main, lvl, leaderNode, firstLeaderUpdate,
                 dataVars, apiVars>>

\* Mutant: the children are not read again.
ChildEventIgnored(e) ==
  /\ g2[e] = "select"
  /\ watch[e] \in {"event", "ended"}
  /\ watch' = [watch EXCEPT ![e] = "none"]
  /\ UNCHANGED <<zkVars, link, expired, zkEvents, faults, pcVars, runVars, dataVars,
                 apiVars>>

\* childEvents delivers an event, or was closed without one.
ChildEvent(e) ==
  /\ g2[e] = "select"
  /\ \/ watch[e] = "event" /\ Goto(e, "children")
     \/ watch[e] = "ended" /\ Fail(e)
  /\ watch' = [watch EXCEPT ![e] = "none"]
  /\ UNCHANGED <<zkVars, link, expired, zkEvents, faults, g1, main, lvl, leaderNode,
                 firstLeaderUpdate, dataVars, apiVars>>

ElectionQuits(e) ==
  /\ g2[e] = "select"
  /\ shouldQuit[e]
  /\ g2' = [g2 EXCEPT ![e] = "end"]
  /\ Return(e, "nil")
  /\ UNCHANGED <<zkVars, connVars, g1, main, lvl, leaderNode, firstLeaderUpdate,
                 dataVars, apiVars>>

\* Any call is answered with an error while the session cannot be reached.
CallFails(e) ==
  /\ g2[e] \in Calls
  /\ ~Served(e)
  /\ link[e] = "closed" => ~ClosedCallsHang
  /\ Fail(e)
  /\ UNCHANGED <<zkVars, connVars, g1, main, lvl, leaderNode, firstLeaderUpdate,
                 dataVars, apiVars>>

\* The steps of g2 that need nobody to receive from Events().
Election(e) ==
  \/ InitializeExists(e) \/ SegmentExists(e) \/ SegmentCreate(e)
  \/ CreateLock(e) \/ RecoverLock(e) \/ GetChildren(e) \/ GetIdent(e)
  \/ DropEvent(e) \/ ChildEvent(e) \/ ElectionQuits(e) \/ CallFails(e)

-----------------------------------------------------------------------------
(* main: the end of start. *)

\* wg.Wait returned: sendErr(<-errch), then the deferred close(e.events).
Finished(e) == main[e] = "wait" /\ g1[e] = "end" /\ g2[e] = "end"

SendErr(e) ==
  /\ Finished(e)
  /\ received' = [received EXCEPT ![e] =
                    Append(@, IF errch[e] = "err" THEN "err" ELSE "nilerr")]
  /\ main' = [main EXCEPT ![e] = "end"]
  /\ UNCHANGED <<zkVars, connVars, g1, g2, runVars, dataVars, closing>>

\* Mutant: the error event is dropped when nobody is receiving yet.
DropErrEarly(e) ==
  /\ Finished(e)
  /\ main' = [main EXCEPT ![e] = "end"]
  /\ UNCHANGED <<zkVars, connVars, g1, g2, runVars, dataVars, apiVars>>

DropErr(e) ==
  /\ Finished(e)
  /\ closing[e]
  /\ main' = [main EXCEPT ![e] = "end"]
  /\ UNCHANGED <<zkVars, connVars, g1, g2, runVars, dataVars, apiVars>>

-----------------------------------------------------------------------------

Next ==
  \E e \in Electors :
    \/ Start(e) \/ Close(e)
    \/ Disconnect(e) \/ Reconnect(e) \/ Expire(e) \/ ExpireClosed(e) \/ WatchArrives(e)
    \/ Watcher(e) \/ Election(e) \/ CreateLockUnanswered(e) \/ SendEvent(e)
    \/ SendErr(e) \/ DropErr(e)

Spec == Init /\ [][Next]_vars

\* A client that received the error event shuts its elector down (README.md).
ShutDown(e) == Told(e) = "err" /\ Close(e)

\* The client receives until it calls Close.
Receive(e) == ~closing[e] /\ (SendEvent(e) \/ SendErr(e))

\* Goroutines are scheduled, the client keeps receiving until it closes, the zk
\* client keeps reconnecting, and ZooKeeper keeps delivering notifications and
\* expiring the sessions of closed connections.  Start, Close, connection losses
\* and expiries of other sessions need not happen.
Fairness ==
  \A e \in Electors :
    /\ WF_vars(Watcher(e))
    /\ WF_vars(Election(e))
    /\ WF_vars(DropErr(e))
    /\ WF_vars(Receive(e))
    /\ WF_vars(ShutDown(e))
    /\ WF_vars(expired[e] /\ Disconnect(e))
    /\ WF_vars(Reconnect(e))
    /\ WF_vars(ExpireClosed(e))
    /\ WF_vars(WatchArrives(e))

FairSpec == Spec /\ Fairness

-----------------------------------------------------------------------------
(* Properties. *)

\* e acts as leader: the elector has decided so or its client still thinks so.
Believes(e) == isLeader[e] \/ Told(e) = "leader"

\* At most one elector whose lock node exists is leader in its own eyes or in its
\* client's, however stale the views of the others are (determineLeader,
\* updateLeaderData).  Until the sequence counter wraps.
AtMostOneLeader ==
  ~wrapped => \A e, f \in live : Believes(e) /\ Believes(f) => e = f

\* No change of the children is missed between the reads of updateFunc: an elector
\* waiting in its select with an unfired watch holds the leader's ident and its
\* own role exactly as ZooKeeper has them now.
SettledViewIsCurrent ==
  \A e \in Electors :
    g2[e] = "select" /\ watch[e] = "armed" /\ ~expired[e] =>
      \E f \in live : /\ \A g \in live : seq[f] <= seq[g]
                      /\ leaderIdent[e] = f
                      /\ isLeader[e] <=> (seq[e] = seq[f])

\* The error event never carries a nil error: whatever the order in which the two
\* goroutines stop, errch holds an error when start reads it (start, sendErr).
ErrEventHasErr ==
  \A e \in Electors : Finished(e) => errch[e] = "err"

\* The events channel is closed only after an error event, which is the last event,
\* or after Close (IElector.Events).
ClosedAfterErr ==
  \A e \in Electors :
    /\ main[e] = "end" => Told(e) = "err" \/ closing[e]
    /\ main[e] # "end" => Told(e) # "err"

\* Leader events report transitions: a client that has not called Close never
\* receives the same leadership twice in a row (updateLeaderData).
EventsAlternate ==
  \A e \in Electors :
    ~closing[e] => \A i \in 1 .. Len(received[e]) - 1 : received[e][i] # received[e][i + 1]

\* A lost connection or session, the event of which the zk client did not drop, ends the
\* elector: its client gets the error event (or has called Close) and the channel is closed.
FaultReported ==
  \A e \in Electors : zkEvents[e] \cap {"Disconnected", "Expired"} # {} ~> main[e] = "end"

\* A client that was told that it leads does not go on when its lock node is gone, even if
\* the event of the lost session was dropped: the watches end with the session, and the
\* next look at the children or an error tells it (ChildEvent, updateFunc).
DeposedIsTold ==
  \A e \in Electors :
    (Told(e) = "leader" /\ e \notin live) ~> (Told(e) # "leader" \/ closing[e])

\* Close ends the goroutines of an elector that owns its connection.
CloseStopsElector ==
  \A e \in OwnConn : closing[e] ~> main[e] = "end"

\* Close gives the lock up.
CloseReleasesLock ==
  \A e \in Electors : closing[e] ~> e \notin live

\* While an elector's lock node exists, somebody is told to lead: the one with the
\* lowest node learns of it, or fails and is shut down by its client.
SomebodyLeads ==
  \A e \in Electors :
    e \in live ~> (e \notin live \/ \E f \in live : isLeader[f] /\ Told(f) = "leader")

\* The electors run the abstract election: the goroutines, the watches, the lost
\* answers and the stale reads in between change nothing else.
Abstract == INSTANCE Election WITH
  Members <- Electors, next <- nextSeq, exhausted <- wrapped, ticket <- seq,
  candidates <- live, acting <- {e \in Electors : isLeader[e]}

ImplementsElection == Abstract!Spec

(* What the repository says and the code does not do. *)

\* TestClose_NoGoroutineLeak: Close ends the goroutines of an elector that owns its
\* connection and has nothing to do but wait on its watch.
WaitingElectorStops ==
  \A e \in OwnConn :
    (received[e] # <<>> /\ g2[e] = "select" /\ closing[e]) ~> main[e] = "end"

\* "initialize sets up the basePath if necessary": with ZooKeeper answering, it does
\* not fail.
InitializeSetsUpBasePath ==
  [][\A e \in Electors : g2[e] = "segCreate" /\ g2'[e] = "end" => ~Served(e)]_vars
=============================================================================
