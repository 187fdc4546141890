----------------------------- MODULE Connector -----------------------------
(***************************************************************************)
(* How a client gets its ZooKeeper connection: Connect and Close of        *)
(* connector_new.go and connector_existing.go (the same code in            *)
(* src/zkstore and src/elector).  Connect opens a zk.Conn, authenticates   *)
(* if it is told to, and waits for the event that says that the session is *)
(* established; the zk.Conn, whose loop goes on dialling until it is       *)
(* closed, is external.                                                    *)
(***************************************************************************)
EXTENDS Naturals, Sequences

CONSTANTS
  Closers,    \* goroutines that call Close
  Servers,    \* number of addresses
  MaxLosses   \* bound on the number of connections lost while Connect goes on

ASSUME ConnectorAssumption == Servers \in Nat \ {0} /\ MaxLosses \in Nat

VARIABLES
  kind,     \* which Connector: "new", "newAuth" (with Auth.Schema set) or "existing"
  link,     \* the state of the zk.Conn's loop
  tried,    \* number of servers tried since the last session
  losses,   \* number of connections lost
  hadSession,  \* history: the loop has established a session
  events,   \* the channel of session events
  auth,     \* AddAuth's request: "none", "queued", "ok" or "failed"
  conn,     \* c.conn is set
  pc,       \* the step that Connect takes next, or how it returned
  close,    \* close[p]: where p's Close is, or how it returned
  onceDo    \* the once of Close: "new", "running" or "done"

linkVars  == <<link, tried, losses, hadSession, events>>
connVars  == <<kind, linkVars, auth, conn, pc, close, onceDo>>

EventChanSize == 6   \* eventChanSize of the zk package

Open == link \notin {"none", "closed"}

\* How Connect may have returned.
Returned == {"ok", "connectionFailed", "authenticationFailed", "timedOut"}

ConnTypeOK ==
  /\ kind \in {"new", "newAuth", "existing"}
  /\ link \in {"none", "down", "dialing", "connected", "session", "closed"}
  /\ tried \in 0 .. Servers /\ losses \in 0 .. MaxLosses /\ hadSession \in BOOLEAN
  /\ events \in Seq({"connecting", "connected", "hasSession", "disconnected"})
  /\ Len(events) <= EventChanSize
  /\ auth \in {"none", "queued", "ok", "failed"}
  /\ conn \in BOOLEAN
  /\ pc \in {"idle", "connect", "addAuth", "wait"} \cup Returned
  /\ close \in [Closers -> {"idle", "called", "closing", "ok", "panic"}]
  /\ onceDo \in {"new", "running", "done"}

ConnInit ==
  /\ kind \in {"new", "newAuth", "existing"}
  /\ link = IF kind = "existing" THEN "session" ELSE "none"
  /\ tried = 0 /\ losses = 0 /\ hadSession = FALSE /\ events = <<>>
  /\ auth = "none" /\ conn = FALSE /\ pc = "idle"
  /\ close = [p \in Closers |-> "idle"] /\ onceDo = "new"

-----------------------------------------------------------------------------
(* The loop of the zk.Conn (external), followed while Connect goes on.     *)

Connecting == pc \in {"addAuth", "wait"}

\* sendEvent drops the event if the channel is full.
sendEvent(e) == events' = IF Len(events) < EventChanSize THEN Append(events, e) ELSE events

\* The next server is dialled; when all have been tried, the requests that were not
\* sent yet fail with ErrNoServer.
Dial ==
  /\ Connecting /\ link = "down"
  /\ link' = "dialing"
  /\ sendEvent("connecting")
  /\ IF tried = Servers
       THEN /\ tried' = 1
            /\ auth' = IF auth = "queued" THEN "failed" ELSE auth
       ELSE tried' = tried + 1 /\ UNCHANGED auth
  /\ UNCHANGED <<kind, losses, hadSession, conn, pc, close, onceDo>>

Dialled ==
  /\ Connecting /\ link = "dialing"
  /\ \/ link' = "down" /\ UNCHANGED events
     \/ link' = "connected" /\ sendEvent("connected")
  /\ UNCHANGED <<kind, tried, losses, hadSession, auth, conn, pc, close, onceDo>>

Authenticate ==
  /\ Connecting /\ link = "connected"
  /\ link' = "session" /\ hadSession' = TRUE /\ tried' = 1
  /\ sendEvent("hasSession")
  /\ UNCHANGED <<kind, losses, auth, conn, pc, close, onceDo>>

Lose ==
  /\ Connecting /\ link \in {"connected", "session"}
  /\ link' = "down"
  /\ sendEvent("disconnected")
  /\ UNCHANGED <<kind, tried, hadSession, auth, conn, pc, close, onceDo>>

Disconnect == Lose /\ losses < MaxLosses /\ losses' = losses + 1

\* The queued request is sent and answered, or the connection breaks first.
AnswerAuth ==
  /\ link = "session" /\ auth = "queued"
  /\ auth' \in {"ok", "failed"}
  /\ UNCHANGED <<kind, linkVars, conn, pc, close, onceDo>>

Loop == Dial \/ Dialled \/ Authenticate \/ Disconnect \/ AnswerAuth

-----------------------------------------------------------------------------
(* Connect. *)

\* An existing connection is returned as it is.
Connect ==
  /\ pc = "idle"
  /\ pc' = IF kind = "existing" THEN "ok" ELSE "connect"
  /\ UNCHANGED <<kind, linkVars, auth, conn, close, onceDo>>

\* zk.Connect fails if it knows no server, and starts the loop otherwise.
zkConnect ==
  /\ pc = "connect"
  /\ \/ pc' = "connectionFailed" /\ UNCHANGED <<link, auth, conn>>
     \/ /\ link' = "down"
        /\ IF kind = "newAuth" THEN pc' = "addAuth" /\ auth' = "queued" /\ UNCHANGED conn
                               ELSE pc' = "wait" /\ conn' = TRUE /\ UNCHANGED auth
  /\ UNCHANGED <<kind, tried, losses, hadSession, events, close, onceDo>>

\* Connect returns; no one reads the events that are left in the channel.
Return(how) == pc' = how /\ events' = <<>>

\* AddAuth returns.  Only a connection that is authenticated becomes c.conn.
AddAuth ==
  /\ pc = "addAuth"
  /\ \/ auth = "ok" /\ pc' = "wait" /\ conn' = TRUE /\ UNCHANGED events
     \/ auth = "failed" /\ Return("authenticationFailed") /\ UNCHANGED conn
  /\ UNCHANGED <<kind, link, tried, losses, hadSession, auth, close, onceDo>>

\* Mutant: a connection counts as a session.
waitForSessionConnected ==
  /\ pc = "wait" /\ events # <<>>
  /\ IF Head(events) = "connected" THEN Return("ok")
                                   ELSE events' = Tail(events) /\ UNCHANGED pc
  /\ UNCHANGED <<kind, link, tried, losses, hadSession, auth, conn, close, onceDo>>

\* waitForSession takes an event from the channel.
waitForSession ==
  /\ pc = "wait" /\ events # <<>>
  /\ IF Head(events) = "hasSession" THEN Return("ok")
                                    ELSE events' = Tail(events) /\ UNCHANGED pc
  /\ UNCHANGED <<kind, link, tried, losses, hadSession, auth, conn, close, onceDo>>

\* Mutant: every event starts the deadline anew, so it passes only when none comes.
DeadlinePerEvent ==
  /\ pc = "wait" /\ events = <<>>
  /\ Return("timedOut")
  /\ UNCHANGED <<kind, link, tried, losses, hadSession, auth, conn, close, onceDo>>

\* Its deadline passes; select may choose it although an event is there.
Deadline ==
  /\ pc = "wait"
  /\ Return("timedOut")
  /\ UNCHANGED <<kind, link, tried, losses, hadSession, auth, conn, close, onceDo>>

ConnectStep == Connect \/ zkConnect \/ AddAuth \/ waitForSession \/ Deadline

-----------------------------------------------------------------------------
(* Close. *)

\* An existing connection is not ours to close.
Close(p) ==
  /\ pc \in Returned /\ close[p] = "idle"
  /\ close' = [close EXCEPT ![p] = IF kind = "existing" THEN "ok" ELSE "called"]
  /\ UNCHANGED <<kind, linkVars, auth, conn, pc, onceDo>>

\* Mutant: the once is a flag that is set before the connection is closed.
CloseOnceFlag(p) ==
  /\ close[p] = "called"
  /\ IF onceDo = "new" THEN onceDo' = "done" /\ close' = [close EXCEPT ![p] = "closing"]
                       ELSE UNCHANGED onceDo /\ close' = [close EXCEPT ![p] = "ok"]
  /\ UNCHANGED <<kind, linkVars, auth, conn, pc>>

\* once.Do: the first caller closes the connection, the others wait for it to be done.
CloseOnce(p) ==
  /\ close[p] = "called"
  /\ \/ /\ onceDo = "new" /\ onceDo' = "running"
        /\ close' = [close EXCEPT ![p] = "closing"]
     \/ /\ onceDo = "done" /\ UNCHANGED onceDo
        /\ close' = [close EXCEPT ![p] = "ok"]
  /\ UNCHANGED <<kind, linkVars, auth, conn, pc>>

\* c.conn.Close ends the loop; a nil c.conn panics, after which the once is done too.
CloseConn(p) ==
  /\ close[p] = "closing"
  /\ onceDo' = "done"
  /\ IF conn THEN link' = "closed" /\ close' = [close EXCEPT ![p] = "ok"]
             ELSE UNCHANGED link /\ close' = [close EXCEPT ![p] = "panic"]
  /\ UNCHANGED <<kind, tried, losses, hadSession, events, auth, conn, pc>>

CloseStep(p) == CloseOnce(p) \/ CloseConn(p)

-----------------------------------------------------------------------------
(* Properties. *)

\* "Close should ensure the ZK connection is closed": if Connect succeeded or timed
\* out, any number of concurrent calls of Close return without a panic, and not
\* before the connection is closed.  An existing connection stays open.  (When the
\* authentication failed nobody can close the connection: it goes on dialling, and
\* Close panics.)
CloseEnsuresClosed ==
  \A p \in Closers :
    /\ pc \in {"ok", "timedOut"} => close[p] # "panic"
    /\ close[p] = "ok" /\ pc \in {"ok", "timedOut"} => (Open <=> kind = "existing")

\* Connect returns, even if the event of the session was dropped or no server answers.
ConnectReturns == (pc = "connect") ~> (pc \in Returned)
=============================================================================
