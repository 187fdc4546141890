-------------------------- MODULE StoreSetupProofs --------------------------
(***************************************************************************)
(* The ZooKeeper container, the Connector and the store of StoreSetup, for *)
(* any number of callers of Teardown and of Close, of servers and of       *)
(* options.                                                                *)
(***************************************************************************)
EXTENDS StoreSetup, SequenceTheorems, WellFoundedInduction, TLAPS

(* The container. *)

\* Until StartZookeeper has returned nobody tears the container down.  Who runs
\* teardownOnce is alone, and when it is done the container is removed or an error
\* was returned.
ContainerInv ==
  /\ setup \in {"image", "create"} => container = "none"
  /\ setup = "error" => container \in {"none", "removed"} \/ rmFailed
  /\ setup # "control" => once = "new"
  /\ \A p \in Callers :
       /\ once = "new" => teardown[p] \in {"idle", "called"}
       /\ once = "running" => teardown[p] \notin {"ok", "error"}
       /\ setup # "control" => teardown[p] = "idle"
       /\ teardown[p] = "removing" => once = "running"
       /\ \A q \in Callers : teardown[p] = "removing" /\ teardown[q] = "removing" => p = q
  /\ once = "done" => container = "removed" \/ \E q \in Callers : teardown[q] = "error"

\* Docker removes the container or refuses to.
LEMMA RemoveKeeps ==
  ASSUME ContainerTypeOK, removeContainer
  PROVE  /\ container' \in {"none", "created", "running", "removed"}
         /\ serving' \in BOOLEAN /\ (serving' => container' = "running") /\ rmFailed' \in BOOLEAN
<1>1. CASE container' = "removed" /\ serving' = FALSE /\ rmFailed' = rmFailed
  <2>1. serving' \in BOOLEAN /\ ~serving'
    BY <1>1, Zenon
  <2> QED
    BY <1>1, <2>1, Zenon DEF ContainerTypeOK
<1>2. CASE rmFailed' = TRUE /\ UNCHANGED <<container, serving>>
  <2>1. rmFailed' \in BOOLEAN
    BY <1>2
  <2> QED
    BY <1>2, <2>1, Zenon DEF ContainerTypeOK
<1> QED
  BY <1>1, <1>2, Zenon DEF removeContainer

\* The container and its teardown are as they were, but for a step of setup.
LEMMA SetupKeeps ==
  ASSUME ContainerInv, UNCHANGED teardownVars, setup \notin {"error", "control"},
         setup' \in {"image", "create"} => container' = "none",
         setup' = "error" => container' \in {"none", "removed"} \/ rmFailed'
  PROVE  ContainerInv'
<1>1. once = "new" /\ \A p \in Callers : teardown[p] = "idle"
  BY Zenon DEF ContainerInv
<1> QED
  BY <1>1, Zenon DEF ContainerInv, teardownVars

\* StartZookeeper.
LEMMA StartKeeps ==
  ASSUME ContainerTypeOK, ContainerInv, StartZookeeper
  PROVE  ContainerTypeOK' /\ ContainerInv'
<1>1. CASE pullDockerImage
  <2>1. /\ setup = "image" /\ setup' \in {"create", "error"}
        /\ UNCHANGED <<poller, connected, done, container, serving, rmFailed, once, teardown>>
    BY <1>1, Zenon DEF pullDockerImage, Advance, dockerVars, teardownVars
  <2>2. ContainerInv'
    BY <2>1, SetupKeeps, Zenon DEF ContainerInv, teardownVars
  <2> QED
    BY <2>1, <2>2, SMT DEF ContainerTypeOK
<1>2. CASE ContainerCreate
  <2>1. /\ setup = "create" /\ UNCHANGED <<poller, connected, done, serving, rmFailed, once, teardown>>
        /\ \/ setup' = "start" /\ container' = "created"
           \/ setup' = "error" /\ container' = container
    BY <1>2, Zenon DEF ContainerCreate, Advance, teardownVars
  <2>2. container = "none" /\ ~serving
    BY <2>1, Zenon DEF ContainerInv, ContainerTypeOK
  <2>3. ContainerInv'
    BY <2>1, <2>2, SetupKeeps, Zenon DEF teardownVars
  <2> QED
    BY <2>1, <2>2, <2>3, Zenon DEF ContainerTypeOK
<1>3. ASSUME cleanup, setup \in {"start", "inspect", "wait"}, UNCHANGED <<connected, once, teardown>>,
             poller' = poller, done' \in BOOLEAN
      PROVE  ContainerTypeOK' /\ ContainerInv'
  <2>1. /\ setup' = "error"
        /\ \/ container' = "removed" /\ serving' = FALSE /\ rmFailed' = rmFailed
           \/ rmFailed' = TRUE /\ UNCHANGED <<container, serving>>
    BY <1>3, Zenon DEF cleanup, removeContainer
  <2>2. ContainerInv'
    BY <1>3, <2>1, SetupKeeps, Zenon DEF teardownVars
  <2> QED
    BY <1>3, <2>1, <2>2, RemoveKeeps, Zenon DEF ContainerTypeOK, cleanup
<1>4. CASE ContainerStart
  <2>1. CASE cleanup
    BY <1>3, <1>4, <2>1, Zenon DEF ContainerStart, teardownVars, ContainerTypeOK
  <2>2. CASE setup' = "inspect" /\ container' = "running" /\ UNCHANGED <<serving, rmFailed>>
    <3>1. ContainerInv'
      BY <1>4, <2>2, SetupKeeps, Zenon DEF ContainerStart
    <3> QED
      BY <1>4, <2>2, <3>1, Zenon DEF ContainerStart, teardownVars, ContainerTypeOK
  <2> QED
    BY <1>4, <2>1, <2>2, Zenon DEF ContainerStart
<1>5. CASE ContainerInspect
  <2>1. CASE cleanup /\ poller' = poller
    BY <1>3, <1>5, <2>1, Zenon DEF ContainerInspect, teardownVars, ContainerTypeOK
  <2>2. CASE setup' = "wait" /\ poller' = "check" /\ UNCHANGED dockerVars
    <3>1. ContainerInv'
      BY <1>5, <2>2, SetupKeeps, Zenon DEF ContainerInspect
    <3> QED
      BY <1>5, <2>2, <3>1, Zenon DEF ContainerInspect, teardownVars, dockerVars, ContainerTypeOK
  <2> QED
    BY <1>5, <2>1, <2>2, Zenon DEF ContainerInspect
<1>6. CASE Connected
  <2>1. ContainerInv'
    BY <1>6, SetupKeeps, Zenon DEF Connected
  <2> QED
    BY <1>6, <2>1, Zenon DEF Connected, dockerVars, teardownVars, ContainerTypeOK
<1>7. CASE StartupTimeout
    BY <1>3, <1>7, Zenon DEF StartupTimeout, teardownVars, ContainerTypeOK
<1> QED
  BY <1>1, <1>2, <1>4, <1>5, <1>6, <1>7, Zenon DEF StartZookeeper

\* The polling goroutine and the server.
LEMMA PollerKeeps ==
  ASSUME ContainerTypeOK, ContainerInv, Poller \/ Serve
  PROVE  ContainerTypeOK' /\ ContainerInv'
<1>1. /\ UNCHANGED <<setup, container, rmFailed, once, teardown, done>>
      /\ poller' = poller \/ poller' \in {"check", "dial", "stopped"}
      /\ connected' = connected \/ connected' = TRUE
      /\ serving' = serving \/ (serving' = TRUE /\ container = "running")
  <2>1. CASE PollCheck
    BY <2>1, Zenon DEF PollCheck, dockerVars, teardownVars
  <2>2. CASE PollDial
    BY <2>2, Zenon DEF PollDial, dockerVars, teardownVars
  <2>3. CASE Serve
    BY <2>3, Zenon DEF Serve, setupVars, teardownVars
  <2> QED
    BY <2>1, <2>2, <2>3, Zenon DEF Poller
<1>2. connected' \in BOOLEAN /\ serving' \in BOOLEAN
  BY <1>1, Zenon DEF ContainerTypeOK
<1>3. serving' => container' = "running"
  BY <1>1, Zenon DEF ContainerTypeOK
<1>4. poller' \in {"none", "check", "dial", "stopped"}
  BY <1>1, Zenon DEF ContainerTypeOK
<1>5. ContainerInv'
  BY <1>1, Zenon DEF ContainerInv
<1> QED
  BY <1>1, <1>2, <1>3, <1>4, <1>5, ZenonT(30) DEF ContainerTypeOK

\* Teardown.
LEMMA TeardownKeeps ==
  ASSUME ContainerTypeOK, ContainerInv, NEW p \in Callers, Teardown(p) \/ TeardownStep(p)
  PROVE  ContainerTypeOK' /\ ContainerInv'
<1>1. DOMAIN teardown = Callers
  BY Zenon DEF ContainerTypeOK
<1>2. ASSUME NEW v \in {"idle", "called", "removing", "ok", "error"},
             teardown' = [teardown EXCEPT ![p] = v]
      PROVE  /\ teardown' \in [Callers -> {"idle", "called", "removing", "ok", "error"}]
             /\ teardown'[p] = v /\ \A q \in Callers \ {p} : teardown'[q] = teardown[q]
  BY <1>1, <1>2, Zenon DEF ContainerTypeOK
<1>3. CASE Teardown(p)
  <2>1. /\ teardown'[p] = "called" /\ \A q \in Callers \ {p} : teardown'[q] = teardown[q]
        /\ teardown' \in [Callers -> {"idle", "called", "removing", "ok", "error"}]
        /\ teardown[p] = "idle" /\ setup = "control"
    BY <1>2, <1>3, Zenon DEF Teardown
  <2>2. UNCHANGED <<setup, poller, connected, done, container, serving, rmFailed, once>>
    BY <1>3, Zenon DEF Teardown, setupVars, dockerVars
  <2>8. ContainerTypeOK'
    BY <2>1, <2>2, ZenonT(30) DEF ContainerTypeOK
  <2>9. ContainerInv'
    BY <2>1, <2>2, Zenon DEF ContainerInv
  <2> QED
    BY <2>8, <2>9
<1>4. CASE TeardownOnce(p)
  <2>1. /\ teardown[p] = "called" /\ setup = "control"
        /\ UNCHANGED <<setup, poller, connected, done, container, serving, rmFailed>>
    BY <1>4, Zenon DEF TeardownOnce, setupVars, dockerVars, ContainerInv
  <2>2. CASE /\ once = "new" /\ once' = "running"
             /\ teardown' = [teardown EXCEPT ![p] = "removing"]
    <3>1. /\ teardown'[p] = "removing" /\ \A q \in Callers \ {p} : teardown'[q] = teardown[q]
          /\ teardown' \in [Callers -> {"idle", "called", "removing", "ok", "error"}]
      BY <1>2, <2>2, Zenon
    <3>2. \A q \in Callers : teardown[q] \in {"idle", "called"}
      BY <2>2, Zenon DEF ContainerInv
    <3>8. ContainerTypeOK'
      BY <2>1, <2>2, <3>1, <3>2, Zenon DEF ContainerTypeOK
    <3>9. ContainerInv'
      BY <2>1, <2>2, <3>1, <3>2, ZenonT(30) DEF ContainerInv
    <3> QED
      BY <3>8, <3>9
  <2>3. CASE /\ once = "done" /\ once' = once
             /\ teardown' = [teardown EXCEPT ![p] = "ok"]
    <3>1. /\ teardown'[p] = "ok" /\ \A q \in Callers \ {p} : teardown'[q] = teardown[q]
          /\ teardown' \in [Callers -> {"idle", "called", "removing", "ok", "error"}]
      BY <1>2, <2>3, Zenon
    <3>2. \A q \in Callers : teardown[q] # "removing"
      BY <2>3, Zenon DEF ContainerInv
    <3>8. ContainerTypeOK'
      BY <2>1, <2>3, <3>1, <3>2, Zenon DEF ContainerTypeOK
    <3>9. ContainerInv'
      BY <2>1, <2>3, <3>1, <3>2, ZenonT(30) DEF ContainerInv
    <3> QED
      BY <3>8, <3>9
  <2> QED
    BY <1>4, <2>2, <2>3, Zenon DEF TeardownOnce
<1>5. CASE TeardownRemove(p)
  <2>1. /\ teardown[p] = "removing" /\ once = "running" /\ once' = "done" /\ setup = "control"
        /\ UNCHANGED <<setup, poller, connected, done>>
    BY <1>5, Zenon DEF TeardownRemove, setupVars, ContainerInv
  <2>2. \A q \in Callers \ {p} : teardown[q] \notin {"removing", "ok", "error"}
    BY <2>1, Zenon DEF ContainerInv
  <2>3. CASE container' = "removed"
    <3>1. /\ serving' \in BOOLEAN /\ (serving' => container' = "running") /\ rmFailed' \in BOOLEAN
      BY <1>5, RemoveKeeps, Zenon DEF TeardownRemove
    <3>2. /\ teardown'[p] = "ok" /\ \A q \in Callers \ {p} : teardown'[q] = teardown[q]
          /\ teardown' \in [Callers -> {"idle", "called", "removing", "ok", "error"}]
      BY <1>2, <1>5, <2>3, Zenon DEF TeardownRemove
    <3>8. ContainerTypeOK'
      BY <2>1, <2>2, <2>3, <3>1, <3>2, Zenon DEF ContainerTypeOK
    <3>9. ContainerInv'
      BY <2>1, <2>2, <2>3, <3>1, <3>2, Zenon DEF ContainerInv
    <3> QED
      BY <3>8, <3>9
  <2>4. CASE container' # "removed"
    <3>1. UNCHANGED <<container, serving>> /\ rmFailed' = TRUE
      BY <1>5, <2>4, Zenon DEF TeardownRemove, removeContainer
    <3>2. /\ teardown'[p] = "error" /\ \A q \in Callers \ {p} : teardown'[q] = teardown[q]
          /\ teardown' \in [Callers -> {"idle", "called", "removing", "ok", "error"}]
      BY <1>2, <1>5, <2>4, Zenon DEF TeardownRemove
    <3>8. ContainerTypeOK'
      BY <2>1, <2>2, <3>1, <3>2, Zenon DEF ContainerTypeOK
    <3>9. ContainerInv'
      BY <2>1, <2>2, <3>1, <3>2, Zenon DEF ContainerInv
    <3> QED
      BY <3>8, <3>9
  <2> QED
    BY <2>3, <2>4
<1> QED
  BY <1>3, <1>4, <1>5, Zenon DEF TeardownStep

\* The parts that take the steps of SetupNext.
ContainerWork ==
  /\ \/ StartZookeeper \/ Poller \/ Serve
     \/ \E p \in Callers : Teardown(p) \/ TeardownStep(p)
  /\ UNCHANGED <<connVars, vars>>

LinkStep == Loop \/ (Lose /\ UNCHANGED losses)

ConnWork == (ConnectStep \/ LinkStep) /\ UNCHANGED <<containerVars, vars>>

\* Every step of SetupNext is one of the container, of the Connector and its zk.Conn, of
\* NewStore's options or of Store.Close.
LEMMA SetupSteps ==
  ASSUME [SetupNext]_setupAll
  PROVE  ContainerWork \/ ConnWork \/ OptionStep \/ CloseStore \/ UNCHANGED setupAll
<1>1. ContainerStep => ContainerWork
  BY Zenon DEF ContainerStep, OfContainer, ContainerWork
<1>2. ConnStep => ConnWork
  BY Zenon DEF ConnStep, OfConn, ConnWork, LinkStep
<1>3. ServerGone => ConnWork
  BY Zenon DEF ServerGone, OfConn, ConnWork, LinkStep
<1> QED
  BY <1>1, <1>2, <1>3, Zenon DEF SetupNext

\* The inductive step for the container.
LEMMA ContainerNext ==
  ContainerTypeOK /\ ContainerInv /\ [SetupNext]_setupAll => ContainerTypeOK' /\ ContainerInv'
<1> SUFFICES ASSUME ContainerTypeOK, ContainerInv, [SetupNext]_setupAll
             PROVE  ContainerTypeOK' /\ ContainerInv'
  OBVIOUS
<1>1. CASE UNCHANGED containerVars
  <2>1. UNCHANGED <<setup, poller, connected, done, container, serving, rmFailed, once, teardown>>
    BY <1>1, Zenon DEF containerVars, setupVars, dockerVars, teardownVars
  <2>2. ContainerTypeOK'
    BY <2>1, SMT DEF ContainerTypeOK
  <2>3. ContainerInv'
    BY <2>1, Zenon DEF ContainerInv
  <2> QED
    BY <2>2, <2>3
<1>2. CASE ContainerWork
  BY <1>2, StartKeeps, PollerKeeps, TeardownKeeps, Zenon DEF ContainerWork
<1> QED
  BY <1>1, <1>2, SetupSteps, Zenon DEF ConnWork, OptionStep, CloseStore, setupAll

LEMMA ContainerInvariant == SetupSpec => [](ContainerTypeOK /\ ContainerInv)
<1>1. SetupInit => ContainerTypeOK /\ ContainerInv
  BY Zenon DEF SetupInit, ContainerInit, ContainerTypeOK, ContainerInv
<1> QED
  BY <1>1, ContainerNext, PTL DEF SetupSpec

\* A StartZookeeper that fails leaves no container behind unless Docker refused to
\* remove it, and a Teardown returns nil only with the container removed or the error
\* returned to some caller, however many call it at the same time (teardownOnce).
THEOREM ContainersAccountedFor == SetupSpec => []NoContainerLeft
<1>1. ContainerTypeOK /\ ContainerInv => NoContainerLeft
  <2> SUFFICES ASSUME ContainerTypeOK, ContainerInv, NEW p \in Callers, teardown[p] = "ok"
               PROVE  once = "done"
    BY Zenon DEF ContainerInv, NoContainerLeft
  <2> QED
    BY Zenon DEF ContainerInv, ContainerTypeOK
<1> QED
  BY <1>1, ContainerInvariant, PTL

-----------------------------------------------------------------------------
(* The connection. *)

\* An existing connection is left alone.
ExistingInv ==
  kind = "existing" =>
    /\ link = "session" /\ pc \in {"idle", "ok"} /\ auth = "none" /\ onceDo = "new"
    /\ \A p \in Closers : close[p] \in {"idle", "ok"}

\* A new one is c.conn from the moment Connect waits for its session, and open until
\* onceDo has closed it.
NewConnInv ==
  kind # "existing" =>
    /\ pc \in {"idle", "connect", "connectionFailed"} => link = "none"
    /\ pc \in {"wait", "ok", "timedOut"} => conn /\ (kind = "newAuth" => auth = "ok")
    /\ pc \in {"idle", "connect", "connectionFailed", "addAuth", "authenticationFailed"} => ~conn
    /\ pc \in {"wait", "ok", "timedOut"} /\ onceDo # "done" => Open
    /\ pc = "addAuth" => Open
    /\ pc \notin Returned => onceDo = "new"
    /\ onceDo = "done" /\ conn => link = "closed"

\* Nobody calls Close before Connect has returned, and who runs onceDo is alone.
CloseOf(p) ==
  kind # "existing" =>
    /\ pc \notin Returned => close[p] = "idle"
    /\ close[p] = "closing" => onceDo = "running"
    /\ close[p] = "ok" => onceDo = "done"
    /\ close[p] = "panic" => ~conn
    /\ \A q \in Closers : close[p] = "closing" /\ close[q] = "closing" => p = q

CloseInv ==
  /\ \A p \in Closers : CloseOf(p)
  /\ link = "closed" => \E p \in Closers : close[p] = "ok"

\* The channel tells of sessions that there were.
EventsInv ==
  /\ \A i \in DOMAIN events : events[i] = "hasSession" => hadSession
  /\ kind # "existing" /\ pc = "ok" => hadSession

ConnInv == ConnTypeOK /\ ExistingInv /\ NewConnInv /\ CloseInv /\ EventsInv

Events == {"connecting", "connected", "hasSession", "disconnected"}

\* What the channel holds after sendEvent.
LEMMA SendEvent ==
  ASSUME ConnTypeOK, NEW e \in Events, sendEvent(e)
  PROVE  /\ events' \in Seq(Events) /\ Len(events') <= EventChanSize
         /\ \A i \in DOMAIN events' :
              events'[i] = e \/ (i \in DOMAIN events /\ events'[i] = events[i])
<1>1. events \in Seq(Events) /\ Len(events) <= 6
  BY Zenon DEF ConnTypeOK, Events, EventChanSize
<1> QED
  BY <1>1 DEF sendEvent, EventChanSize

\* What it holds after one is taken.
LEMMA TakeEvent ==
  ASSUME ConnTypeOK, events # <<>>, events' = Tail(events)
  PROVE  /\ events' \in Seq(Events) /\ Len(events') <= EventChanSize
         /\ 1 \in DOMAIN events /\ Head(events) = events[1]
         /\ \A i \in DOMAIN events' : i + 1 \in DOMAIN events /\ events'[i] = events[i + 1]
<1>1. events \in Seq(Events) /\ Len(events) <= 6
  BY Zenon DEF ConnTypeOK, Events, EventChanSize
<1> QED
  BY <1>1 DEF EventChanSize

\* The steps of the zk.Conn's loop.
LEMMA LoopKeeps ==
  ASSUME ConnInv, LinkStep
  PROVE  ConnInv'
<1> USE DEF ConnInv
<1>1. UNCHANGED <<kind, conn, pc, close, onceDo>>
  BY Zenon DEF LinkStep, Loop, Dial, Dialled, Authenticate, Disconnect, Lose, AnswerAuth
<1>2. tried' \in 0 .. Servers /\ losses' \in 0 .. MaxLosses
  <2>1. Servers \in Nat \ {0} /\ MaxLosses \in Nat /\ tried \in 0 .. Servers /\ losses \in 0 .. MaxLosses
    BY ConnectorAssumption, Zenon DEF ConnTypeOK
  <2>2. \/ tried' = tried \/ tried' = 1 \/ (tried # Servers /\ tried' = tried + 1)
    BY Zenon DEF LinkStep, Loop, Dial, Dialled, Authenticate, Disconnect, Lose, AnswerAuth, linkVars
  <2>3. losses' = losses \/ (losses < MaxLosses /\ losses' = losses + 1)
    BY Zenon DEF LinkStep, Loop, Dial, Dialled, Authenticate, Disconnect, Lose, AnswerAuth, linkVars
  <2> QED
    BY <2>1, <2>2, <2>3
<1>3. \/ events' = events
      \/ sendEvent("connecting") \/ sendEvent("connected") \/ sendEvent("disconnected")
      \/ sendEvent("hasSession") /\ hadSession'
  BY Zenon DEF LinkStep, Loop, Dial, Dialled, Authenticate, Disconnect, Lose, AnswerAuth, linkVars
<1>4. hadSession' \in BOOLEAN /\ (hadSession => hadSession')
  <2>1. hadSession' = hadSession \/ hadSession' = TRUE
    BY Zenon DEF LinkStep, Loop, Dial, Dialled, Authenticate, Disconnect, Lose, AnswerAuth, linkVars
  <2> QED
    BY <2>1, Zenon DEF ConnTypeOK
<1>5. /\ link' = link \/ (Connecting /\ link' \in {"down", "dialing", "connected", "session"})
      /\ auth' = auth \/ (auth = "queued" /\ auth' \in {"ok", "failed"})
  BY Zenon DEF LinkStep, Loop, Dial, Dialled, Authenticate, Disconnect, Lose, AnswerAuth, linkVars
<1>6. events' \in Seq(Events) /\ Len(events') <= EventChanSize
  BY <1>3, SendEvent, Zenon DEF Events, ConnTypeOK
<1>7. ConnTypeOK'
  <2>1. link' \in {"none", "down", "dialing", "connected", "session", "closed"}
    BY <1>5, Zenon DEF ConnTypeOK
  <2>2. auth' \in {"none", "queued", "ok", "failed"}
    BY <1>5, Zenon DEF ConnTypeOK
  <2> QED
    BY <1>1, <1>2, <1>4, <1>6, <2>1, <2>2, Zenon DEF ConnTypeOK, Events
<1>8. EventsInv'
  <2> SUFFICES ASSUME NEW i \in DOMAIN events', events'[i] = "hasSession" PROVE hadSession'
    BY <1>1, <1>4, Zenon DEF EventsInv
  <2>1. CASE events' = events
    BY <1>4, <2>1, Zenon DEF EventsInv
  <2>2. ASSUME NEW e \in Events, sendEvent(e), e = "hasSession" => hadSession'
        PROVE  hadSession'
    BY <1>4, <2>2, SendEvent, Zenon DEF EventsInv
  <2> QED
    BY <1>3, <2>1, <2>2, Zenon DEF Events
<1>9. kind # "existing"
  BY Zenon DEF LinkStep, Loop, Dial, Dialled, Authenticate, Disconnect, Lose, AnswerAuth,
               Connecting, ExistingInv
<1>10. CASE link' = link
  BY <1>1, <1>5, <1>7, <1>8, <1>9, <1>10, Zenon DEF ExistingInv, NewConnInv, CloseInv, CloseOf, Open
<1>11. CASE Connecting /\ link' \in {"down", "dialing", "connected", "session"}
  <2>1. Open' /\ link' \notin {"none", "closed"} /\ pc \in {"addAuth", "wait"}
    BY <1>11, Zenon DEF Connecting, Open
  <2>2. pc \notin Returned
    BY <2>1, Zenon DEF Returned
  <2>3. NewConnInv'
    BY <1>1, <1>5, <1>9, <2>1, <2>2, Zenon DEF NewConnInv
  <2> QED
    BY <1>1, <1>7, <1>8, <1>9, <2>1, <2>3, Zenon DEF ExistingInv, CloseInv, CloseOf
<1> QED
  BY <1>5, <1>10, <1>11, Zenon

\* The steps of Connect.
LEMMA ConnectKeeps ==
  ASSUME ConnInv, ConnectStep
  PROVE  ConnInv'
<1> USE DEF ConnInv
<1>1. UNCHANGED <<kind, tried, losses, hadSession, close, onceDo>>
  BY Zenon DEF ConnectStep, Connect, zkConnect, AddAuth, waitForSession, Deadline, linkVars
<1>0. ASSUME events' = <<>>
      PROVE  /\ events' \in Seq(Events) /\ Len(events') <= EventChanSize
             /\ \A i \in DOMAIN events' : FALSE
  BY <1>0 DEF EventChanSize
<1>2. CASE Connect
  <2>1. UNCHANGED <<link, events, auth, conn>> /\ pc = "idle"
        /\ (kind = "existing" => pc' = "ok") /\ (kind # "existing" => pc' = "connect")
    BY <1>2, Zenon DEF Connect, linkVars
  <2>2. ConnTypeOK'
    BY <1>1, <2>1, SMT DEF ConnTypeOK, Returned
  <2>3. kind = "existing" => ExistingInv' /\ CloseInv'
    BY <1>1, <2>1, Zenon DEF ExistingInv, CloseInv, CloseOf
  <2>4. pc \notin Returned /\ "connect" \notin Returned
    BY <2>1, Zenon DEF Returned
  <2>5. kind # "existing" => NewConnInv' /\ CloseInv'
    BY <1>1, <2>1, <2>4, Zenon DEF NewConnInv, CloseInv, CloseOf
  <2>6. EventsInv'
    BY <1>1, <2>1, Zenon DEF EventsInv
  <2> QED
    BY <1>1, <2>2, <2>3, <2>5, <2>6, Zenon DEF ExistingInv, NewConnInv
<1>3. ASSUME kind # "existing", pc \notin Returned, UNCHANGED <<link, auth, conn>>,
             pc' \in {"connectionFailed", "authenticationFailed", "timedOut", "ok", "wait"},
             pc' = "connectionFailed" => link = "none",
             pc' \in {"wait", "ok", "timedOut"} =>
               conn /\ Open /\ (kind = "newAuth" => auth = "ok"),
             pc' \in {"connectionFailed", "authenticationFailed"} => ~conn,
             ConnTypeOK', EventsInv'
      PROVE  ConnInv'
  <2>1. onceDo = "new"
    BY <1>3, Zenon DEF NewConnInv
  <2>2. NewConnInv'
    BY <1>1, <1>3, <2>1, Zenon DEF NewConnInv, Open
  <2>3. CloseInv'
    BY <1>1, <1>3, Zenon DEF CloseInv, CloseOf
  <2> QED
    BY <1>1, <1>3, <2>2, <2>3, Zenon DEF ExistingInv
<1>4. CASE zkConnect
  <2>1. kind # "existing" /\ pc = "connect" /\ events' = events /\ pc \notin Returned
    BY <1>4, Zenon DEF zkConnect, ExistingInv, Returned
  <2>2. onceDo = "new" /\ ~conn
    BY <2>1, Zenon DEF NewConnInv
  <2>3. CASE pc' = "connectionFailed" /\ UNCHANGED <<link, auth, conn>>
    <3>1. ConnTypeOK' /\ EventsInv'
      <4>1. ConnTypeOK'
        BY <1>1, <2>1, <2>3, SMT DEF ConnTypeOK, Returned
      <4>2. EventsInv'
        BY <1>1, <2>1, <2>3, Zenon DEF EventsInv, Returned
      <4> QED
        BY <4>1, <4>2
    <3>2. link = "none"
      BY <2>1, Zenon DEF NewConnInv
    <3> QED
      BY <1>3, <2>1, <2>2, <2>3, <3>1, <3>2, Zenon
  <2>4. CASE /\ link' = "down" /\ kind = "newAuth" /\ pc' = "addAuth" /\ auth' = "queued"
             /\ conn' = conn
    <3>1. ConnTypeOK' /\ EventsInv'
      <4>1. ConnTypeOK'
        BY <1>1, <2>1, <2>4, Zenon DEF ConnTypeOK, Returned
      <4>2. EventsInv'
        BY <1>1, <2>1, <2>4, Zenon DEF EventsInv, Returned
      <4> QED
        BY <4>1, <4>2
    <3>2. NewConnInv'
      BY <1>1, <2>2, <2>4, Zenon DEF NewConnInv, Open
    <3>3. CloseInv'
      BY <1>1, <2>1, <2>4, ZenonT(30) DEF CloseInv, CloseOf
    <3> QED
      BY <1>1, <2>1, <3>1, <3>2, <3>3, Zenon DEF ExistingInv
  <2>5. CASE /\ link' = "down" /\ kind # "newAuth" /\ pc' = "wait" /\ conn' = TRUE
             /\ auth' = auth
    <3>0. conn' \in BOOLEAN /\ conn'
      BY <2>5
    <3>1. ConnTypeOK' /\ EventsInv'
      <4>1. ConnTypeOK'
        BY <1>1, <2>1, <2>5, <3>0, Zenon DEF ConnTypeOK, Returned
      <4>2. EventsInv'
        BY <1>1, <2>1, <2>5, <3>0, Zenon DEF EventsInv, Returned
      <4> QED
        BY <4>1, <4>2
    <3>2. NewConnInv'
      BY <1>1, <2>2, <2>5, <3>0, Zenon DEF NewConnInv, Open
    <3>3. CloseInv'
      <4>1. \A p \in Closers : close[p] = "idle"
        BY <2>1, Zenon DEF CloseInv, CloseOf
      <4> QED
        BY <1>1, <2>5, <4>1, Zenon DEF CloseInv, CloseOf
    <3> QED
      BY <1>1, <2>1, <3>1, <3>2, <3>3, Zenon DEF ExistingInv
  <2> QED
    BY <1>4, <2>3, <2>4, <2>5, Zenon DEF zkConnect
<1>5. CASE AddAuth
  <2>1. /\ kind # "existing" /\ pc = "addAuth" /\ pc \notin Returned
        /\ UNCHANGED <<link, auth>>
    BY <1>5, Zenon DEF AddAuth, ExistingInv, Returned
  <2>2. onceDo = "new" /\ Open /\ ~conn
    BY <2>1, Zenon DEF NewConnInv
  <2>3. CASE auth = "ok" /\ pc' = "wait" /\ conn' = TRUE /\ events' = events
    <3>0. conn' \in BOOLEAN /\ conn'
      BY <2>3
    <3>1. ConnTypeOK' /\ EventsInv'
      BY <1>1, <2>1, <2>3, <3>0, Zenon DEF ConnTypeOK, EventsInv
    <3>2. NewConnInv'
      BY <1>1, <2>1, <2>2, <2>3, <3>0, Zenon DEF NewConnInv, Open
    <3>3. CloseInv'
      <4>1. \A p \in Closers : close[p] = "idle"
        BY <2>1, Zenon DEF CloseInv, CloseOf
      <4> QED
        BY <1>1, <2>1, <4>1, Zenon DEF CloseInv, CloseOf
    <3> QED
      BY <1>1, <2>1, <3>1, <3>2, <3>3, Zenon DEF ExistingInv
  <2>4. CASE pc' = "authenticationFailed" /\ conn' = conn /\ events' = <<>>
    <3>1. ConnTypeOK' /\ EventsInv'
      <4>1. ConnTypeOK'
        BY <1>0, <1>1, <2>1, <2>4, ZenonT(30) DEF ConnTypeOK, Events, Returned
      <4>2. EventsInv'
        BY <1>0, <1>1, <2>1, <2>4, Zenon DEF EventsInv, Returned
      <4> QED
        BY <4>1, <4>2
    <3> QED
      BY <1>3, <2>1, <2>2, <2>4, <3>1, ZenonT(30)
  <2> QED
    BY <1>5, <2>3, <2>4, Zenon DEF AddAuth, Return
<1>6. CASE waitForSession \/ Deadline
  <2>1. /\ kind # "existing" /\ pc = "wait" /\ pc \notin Returned
        /\ UNCHANGED <<link, auth, conn>>
    BY <1>6, Zenon DEF waitForSession, Deadline, ExistingInv, Returned, linkVars
  <2>2. onceDo = "new" /\ Open /\ conn /\ (kind = "newAuth" => auth = "ok")
    BY <2>1, Zenon DEF NewConnInv
  <2>3. CASE waitForSession
    <3>1. /\ events # <<>>
          /\ \/ pc' = "wait" /\ events' = Tail(events)
             \/ pc' = "ok" /\ Head(events) = "hasSession" /\ events' = <<>>
      BY <2>1, <2>3, Zenon DEF waitForSession, Return
    <3>2. 1 \in DOMAIN events /\ Head(events) = events[1]
      BY <3>1, SMT DEF ConnTypeOK
    <3>3. events' \in Seq(Events) /\ Len(events') <= EventChanSize /\ EventsInv'
      <4>1. CASE pc' = "wait" /\ events' = Tail(events)
        BY <1>1, <3>1, <4>1, TakeEvent, Zenon DEF EventsInv
      <4>2. CASE pc' = "ok" /\ Head(events) = "hasSession" /\ events' = <<>>
        BY <1>0, <1>1, <3>2, <4>2, Zenon DEF EventsInv
      <4> QED
        BY <3>1, <4>1, <4>2
    <3>4. ConnTypeOK'
      BY <1>1, <2>1, <3>1, <3>3, ZenonT(30) DEF ConnTypeOK, Events, Returned
    <3> QED
      BY <1>3, <2>1, <2>2, <3>1, <3>3, <3>4, Zenon
  <2>4. CASE Deadline
    <3>1. ConnTypeOK' /\ EventsInv' /\ pc' = "timedOut"
      <4>1. pc' = "timedOut" /\ events' = <<>>
        BY <2>4, Zenon DEF Deadline, Return
      <4>2. ConnTypeOK'
        BY <1>0, <1>1, <2>1, <4>1, ZenonT(30) DEF ConnTypeOK, Events, Returned
      <4> QED
        BY <1>0, <1>1, <4>1, <4>2, Zenon DEF EventsInv
    <3> QED
      BY <1>3, <2>1, <2>2, <3>1, Zenon
  <2> QED
    BY <1>6, <2>3, <2>4
<1> QED
  BY <1>2, <1>4, <1>5, <1>6, Zenon DEF ConnectStep

\* The steps of Close.
LEMMA CloseKeeps ==
  ASSUME ConnInv, NEW p \in Closers, Close(p) \/ CloseStep(p)
  PROVE  ConnInv'
<1> USE DEF ConnInv
<1>1. UNCHANGED <<kind, tried, losses, hadSession, events, auth, conn, pc>>
  BY Zenon DEF Close, CloseStep, CloseOnce, CloseConn, linkVars
<1>2. ASSUME NEW v \in {"idle", "called", "closing", "ok", "panic"},
             close' = [close EXCEPT ![p] = v]
      PROVE  /\ close' \in [Closers -> {"idle", "called", "closing", "ok", "panic"}]
             /\ close'[p] = v /\ \A q \in Closers \ {p} : close'[q] = close[q]
  BY <1>2, Zenon DEF ConnTypeOK
<1>3. EventsInv'
  BY <1>1, Zenon DEF EventsInv
<1>4. CASE Close(p)
  <2>1. link' = link /\ onceDo' = onceDo /\ pc \in Returned /\ close[p] = "idle"
    BY <1>4, Zenon DEF Close, linkVars
  <2>2. CASE kind = "existing"
    <3>1. /\ close' \in [Closers -> {"idle", "called", "closing", "ok", "panic"}]
          /\ close'[p] = "ok" /\ \A q \in Closers \ {p} : close'[q] = close[q]
      BY <1>2, <1>4, <2>2, Zenon DEF Close
    <3> QED
      BY <1>1, <1>3, <2>1, <2>2, <3>1, Zenon DEF ConnTypeOK, ExistingInv, NewConnInv, CloseInv, CloseOf
  <2>3. CASE kind # "existing"
    <3>1. /\ close' \in [Closers -> {"idle", "called", "closing", "ok", "panic"}]
          /\ close'[p] = "called" /\ \A q \in Closers \ {p} : close'[q] = close[q]
      BY <1>2, <1>4, <2>3, Zenon DEF Close
    <3>2. ConnTypeOK'
      BY <1>1, <2>1, <3>1, SMT DEF ConnTypeOK
    <3>3. NewConnInv'
      BY <1>1, <2>1, Zenon DEF NewConnInv, Open
    <3>4. CloseInv'
      BY <1>1, <2>1, <3>1, ZenonT(30) DEF CloseInv, CloseOf
    <3> QED
      BY <1>1, <1>3, <2>3, <3>2, <3>3, <3>4, Zenon DEF ExistingInv
  <2> QED
    BY <2>2, <2>3
<1>5. CASE CloseStep(p)
  <2>1. kind # "existing" /\ close[p] \in {"called", "closing"} /\ pc \in Returned
    BY <1>5, Zenon DEF CloseStep, CloseOnce, CloseConn, ExistingInv, CloseInv, CloseOf
  <2>2. CASE onceDo = "new" /\ onceDo' = "running" /\ close' = [close EXCEPT ![p] = "closing"] /\ link' = link
    <3>1. /\ close' \in [Closers -> {"idle", "called", "closing", "ok", "panic"}]
          /\ close'[p] = "closing" /\ \A q \in Closers \ {p} : close'[q] = close[q]
      BY <1>2, <2>2, Zenon
    <3>2. ConnTypeOK'
      BY <1>1, <2>2, <3>1, SMT DEF ConnTypeOK
    <3>5. NewConnInv'
      BY <1>1, <2>1, <2>2, Zenon DEF NewConnInv, Open
    <3>3. \A q \in Closers : close[q] \notin {"closing", "ok"}
      BY <2>1, <2>2, Zenon DEF CloseInv, CloseOf
    <3>4. CloseInv'
      BY <1>1, <2>1, <2>2, <3>1, <3>3, ZenonT(30) DEF CloseInv, CloseOf
    <3> QED
      BY <1>1, <1>3, <2>1, <3>2, <3>4, <3>5, Zenon DEF ExistingInv
  <2>3. CASE onceDo = "done" /\ onceDo' = onceDo /\ close' = [close EXCEPT ![p] = "ok"] /\ link' = link
    <3>1. /\ close' \in [Closers -> {"idle", "called", "closing", "ok", "panic"}]
          /\ close'[p] = "ok" /\ \A q \in Closers \ {p} : close'[q] = close[q]
      BY <1>2, <2>3, Zenon
    <3>2. ConnTypeOK'
      BY <1>1, <2>3, <3>1, SMT DEF ConnTypeOK
    <3>4. NewConnInv'
      BY <1>1, <2>1, <2>3, Zenon DEF NewConnInv, Open
    <3>3. CloseInv'
      BY <1>1, <2>1, <2>3, <3>1, Zenon DEF CloseInv, CloseOf
    <3> QED
      BY <1>1, <1>3, <2>1, <3>2, <3>3, <3>4, Zenon DEF ExistingInv
  <2>4. CASE CloseConn(p)
    <3>1. close[p] = "closing" /\ onceDo = "running" /\ onceDo' = "done"
      BY <2>1, <2>4, Zenon DEF CloseConn, CloseInv, CloseOf
    <3>2. \A q \in Closers \ {p} : close[q] \notin {"closing", "ok"}
      BY <2>1, <3>1, Zenon DEF CloseInv, CloseOf
    <3>3. CASE conn /\ link' = "closed" /\ close' = [close EXCEPT ![p] = "ok"]
      <4>1. /\ close' \in [Closers -> {"idle", "called", "closing", "ok", "panic"}]
            /\ close'[p] = "ok" /\ \A q \in Closers \ {p} : close'[q] = close[q]
        BY <1>2, <3>3, Zenon
      <4>2. ConnTypeOK'
        BY <1>1, <3>1, <3>3, <4>1, Zenon DEF ConnTypeOK
      <4>3. pc \notin {"idle", "connect", "connectionFailed", "addAuth", "wait"}
        <5>1. pc # "connectionFailed"
          BY <1>1, <2>1, <3>3, Zenon DEF NewConnInv
        <5> QED
          BY <2>1, <5>1, Zenon DEF Returned
      <4>4. NewConnInv'
        BY <1>1, <2>1, <3>1, <3>3, <4>3, Zenon DEF NewConnInv, Open
      <4>5. CloseInv'
        BY <1>1, <2>1, <3>1, <3>2, <3>3, <4>1, Zenon DEF CloseInv, CloseOf
      <4> QED
        BY <1>1, <1>3, <2>1, <4>2, <4>4, <4>5, ZenonT(30) DEF ExistingInv
    <3>4. CASE ~conn /\ link' = link /\ close' = [close EXCEPT ![p] = "panic"]
      <4>1. /\ close' \in [Closers -> {"idle", "called", "closing", "ok", "panic"}]
            /\ close'[p] = "panic" /\ \A q \in Closers \ {p} : close'[q] = close[q]
        BY <1>2, <3>4, Zenon
      <4>2. ConnTypeOK' /\ NewConnInv'
        BY <1>1, <2>1, <3>1, <3>4, <4>1, ZenonT(30) DEF ConnTypeOK, NewConnInv, Open
      <4>3. link = "closed" => \E q \in Closers \ {p} : close[q] = "ok"
        BY <3>1, Zenon DEF CloseInv
      <4>4. CloseInv'
        BY <1>1, <2>1, <3>1, <3>2, <3>4, <4>1, <4>3, ZenonT(30) DEF CloseInv, CloseOf
      <4> QED
        BY <1>1, <1>3, <2>1, <4>2, <4>4, Zenon DEF ExistingInv
    <3> QED
      BY <2>4, <3>3, <3>4, Zenon DEF CloseConn
  <2> QED
    BY <1>5, <2>2, <2>3, <2>4, Zenon DEF CloseStep, CloseOnce, linkVars
<1> QED
  BY <1>4, <1>5

\* The inductive step for the connection.
LEMMA ConnNext == ConnInv /\ [SetupNext]_setupAll => ConnInv'
<1> SUFFICES ASSUME ConnInv, [SetupNext]_setupAll PROVE ConnInv'
  OBVIOUS
<1>1. CASE UNCHANGED connVars
  <2>1. UNCHANGED <<kind, link, tried, losses, events, hadSession, auth, conn, pc, close, onceDo>>
    BY <1>1, Zenon DEF connVars, linkVars
  <2>2. ConnTypeOK'
    BY <2>1 DEF ConnInv, ConnTypeOK
  <2>3. ExistingInv' /\ CloseInv'
    BY <2>1, Zenon DEF ConnInv, ExistingInv, CloseInv, CloseOf
  <2>4. NewConnInv' /\ EventsInv'
    BY <2>1, Zenon DEF ConnInv, NewConnInv, EventsInv, Open
  <2> QED
    BY <2>2, <2>3, <2>4 DEF ConnInv
<1>2. CASE ConnWork
  BY <1>2, ConnectKeeps, LoopKeeps, Zenon DEF ConnWork
<1>3. CASE CloseStore
  BY <1>3, CloseKeeps, Zenon DEF CloseStore
<1> QED
  BY <1>1, <1>2, <1>3, SetupSteps, Zenon DEF ContainerWork, OptionStep, setupAll

LEMMA ConnInvariant == SetupSpec => []ConnInv
<1>1. SetupInit => ConnInv
  <2> SUFFICES ASSUME SetupInit PROVE ConnInv
    OBVIOUS
  <2>1. tried \in 0 .. Servers /\ losses \in 0 .. MaxLosses
        /\ events \in Seq(Events) /\ Len(events) <= EventChanSize /\ DOMAIN events = {}
    BY ConnectorAssumption DEF SetupInit, ConnInit, EventChanSize
  <2>2. conn \in BOOLEAN /\ ~conn /\ hadSession \in BOOLEAN
    BY Zenon DEF SetupInit, ConnInit
  <2>3. ConnTypeOK
    BY <2>1, <2>2, Zenon DEF SetupInit, ConnInit, ConnTypeOK, Events
  <2> QED
    BY <2>1, <2>2, <2>3, Zenon DEF SetupInit, ConnInit, ConnInv, ExistingInv, NewConnInv,
                                   CloseInv, CloseOf, EventsInv, Returned
<1> QED
  BY <1>1, ConnNext, PTL DEF SetupSpec

\* After a Connect that succeeded or timed out, Close never panics and returns only
\* when the connection is closed, however many call it at the same time (onceDo); an
\* existing connection stays open.
THEOREM ClosesEnsureClosed == SetupSpec => []CloseEnsuresClosed
<1>1. ConnInv => CloseEnsuresClosed
  <2> SUFFICES ASSUME ConnInv, NEW p \in Closers, pc \in {"ok", "timedOut"}
               PROVE  close[p] # "panic" /\ (close[p] = "ok" => (Open <=> kind = "existing"))
    BY Zenon DEF CloseEnsuresClosed
  <2>1. CASE kind = "existing"
    BY <2>1, Zenon DEF ConnInv, ExistingInv, Open
  <2>2. CASE kind # "existing"
    BY <2>2, Zenon DEF ConnInv, NewConnInv, CloseInv, CloseOf, Open
  <2> QED
    BY <2>1, <2>2
<1> QED
  BY <1>1, ConnInvariant, PTL

\* The two goroutines of StartZookeeper and the callers of the two Onces: what each may
\* be waiting for is under way.
NobodyWaitsInVain ==
  /\ setup \in {"control", "error"} => poller = "none" \/ done
  /\ once = "running" => \E p \in Callers : teardown[p] = "removing"
  /\ onceDo = "running" => \E p \in Closers : close[p] = "closing"

\* The polling begins with StartZookeeper's wait.
PollInv == setup \in {"image", "create", "start", "inspect"} => poller = "none"

LEMMA WaitNext ==
  ASSUME ContainerTypeOK, ConnTypeOK, PollInv, NobodyWaitsInVain, [SetupNext]_setupAll
  PROVE  PollInv' /\ NobodyWaitsInVain'
<1> USE DEF PollInv, NobodyWaitsInVain
<1>1. DOMAIN teardown = Callers /\ DOMAIN close = Closers
  BY Zenon DEF ContainerTypeOK, ConnTypeOK
<1>2. CASE UNCHANGED <<containerVars, close, onceDo>>
  BY <1>2, Zenon DEF containerVars, setupVars, teardownVars
<1>3. CASE StartZookeeper /\ UNCHANGED connVars
  <2>1. UNCHANGED <<once, teardown, close, onceDo>>
    BY <1>3, Zenon DEF StartZookeeper, pullDockerImage, ContainerCreate, ContainerStart,
                       ContainerInspect, Connected, StartupTimeout, teardownVars, connVars
  <2>2. \/ /\ setup \in {"image", "create", "start", "inspect"} /\ UNCHANGED <<poller, done>>
           /\ setup' \in {"create", "start", "inspect", "error"}
        \/ setup' = "wait"
        \/ setup = "wait" /\ setup' \in {"control", "error"} /\ done'
    BY <1>3, Zenon DEF StartZookeeper, pullDockerImage, ContainerCreate, ContainerStart,
                       ContainerInspect, Connected, StartupTimeout, Advance, cleanup
  <2> QED
    BY <2>1, <2>2, Zenon
<1>4. CASE (Poller \/ Serve) /\ UNCHANGED connVars
  <2>1. /\ UNCHANGED <<setup, done, once, teardown, close, onceDo>>
        /\ poller' = poller \/ poller \in {"check", "dial"}
    BY <1>4, Zenon DEF Poller, PollCheck, PollDial, Serve, setupVars, teardownVars, connVars
  <2> QED
    BY <2>1, Zenon
<1>5. ASSUME NEW p \in Callers, Teardown(p) \/ TeardownStep(p), UNCHANGED connVars
      PROVE  PollInv' /\ NobodyWaitsInVain'
  <2>1. UNCHANGED <<setup, poller, done, close, onceDo>>
    BY <1>5, Zenon DEF Teardown, TeardownStep, TeardownOnce, TeardownRemove, setupVars, connVars
  <2>2. once' = "running" => \E q \in Callers : teardown'[q] = "removing"
    <3>1. CASE Teardown(p)
      BY <1>1, <3>1, Zenon DEF Teardown
    <3>2. CASE TeardownStep(p)
      BY <1>1, <3>2, Zenon DEF TeardownStep, TeardownOnce, TeardownRemove
    <3> QED
      BY <1>5, <3>1, <3>2
  <2> QED
    BY <2>1, <2>2, Zenon
<1>6. ASSUME NEW p \in Closers, Close(p) \/ CloseStep(p), UNCHANGED containerVars
      PROVE  PollInv' /\ NobodyWaitsInVain'
  <2>1. UNCHANGED <<setup, poller, done, once, teardown>>
    BY <1>6, Zenon DEF containerVars, setupVars, teardownVars
  <2>2. onceDo' = "running" => \E q \in Closers : close'[q] = "closing"
    <3>1. CASE Close(p)
      BY <1>1, <3>1, Zenon DEF Close
    <3>2. CASE CloseStep(p)
      BY <1>1, <3>2, Zenon DEF CloseStep, CloseOnce, CloseConn
    <3> QED
      BY <1>6, <3>1, <3>2
  <2> QED
    BY <2>1, <2>2, Zenon
<1>7. CASE ConnWork
  <2>1. UNCHANGED <<close, onceDo>>
    BY <1>7, Zenon DEF ConnWork, ConnectStep, LinkStep, Loop, Dial, Dialled, Authenticate,
                       Disconnect, Lose, AnswerAuth, Connect, zkConnect, AddAuth,
                       waitForSession, Deadline
  <2> QED
    BY <1>2, <1>7, <2>1, Zenon DEF ConnWork
<1>8. CASE OptionStep \/ UNCHANGED setupAll
  BY <1>2, <1>8, Zenon DEF OptionStep, setupAll, connVars
<1> QED
  BY <1>3, <1>4, <1>5, <1>6, <1>7, <1>8, SetupSteps, Zenon DEF ContainerWork, CloseStore

\* When StartZookeeper has returned, by whatever path, the goroutine that polls has been
\* told to stop or never began (zk_utils.go:105-133); and a caller of Teardown or Close
\* that waits in the Once waits for another one that is at work inside, so that no
\* failure in there leaves the others waiting.
THEOREM WaitsAreForWork == SetupSpec => []NobodyWaitsInVain
<1>1. SetupInit => PollInv /\ NobodyWaitsInVain
  BY Zenon DEF SetupInit, ContainerInit, ConnInit, PollInv, NobodyWaitsInVain
<1>2. ConnInv => ConnTypeOK
  BY Zenon DEF ConnInv
<1> QED
  BY <1>1, <1>2, ContainerInvariant, ConnInvariant, WaitNext, PTL DEF SetupSpec

-----------------------------------------------------------------------------
(* The store. *)

\* The fields that the options set.
WantedFields == {"basePath", "bucketsZnodeName", "acls", "hashBuckets", "hashProviderFunc"}

\* What bucketFunc was made from is what the store's fields say.
ConfigInv ==
  /\ TypeOK
  /\ DOMAIN wanted = WantedFields
  /\ store.hashBuckets = wanted.hashBuckets
  /\ store.hashProviderFunc = wanted.hashProviderFunc
  /\ LastOptionWins
  /\ result # "building" => pc = "ok"

\* What the options and the idents are made of, from ConfigAssumption.
LEMMA TextSegments ==
  /\ Names \cup Variants \cup Categories \cup ZnodeNames \subseteq Texts
  /\ \A t \in Texts : t.segs \in Seq(STRING)
<1>1. Names \cup Variants \cup Categories \cup ZnodeNames \subseteq Texts
  BY ConfigAssumption, Zenon
<1>2. \A t \in Texts : t.segs \in Seq(STRING)
  BY Zenon DEF Texts
<1> QED
  BY <1>1, <1>2, Zenon

LEMMA NameSegments ==
  \A t \in Names \cup Variants \cup ZnodeNames :
    t.flaws \cap {"spaced", "illegal"} = {} \/ "empty" \in t.flaws =>
      t.flaws \subseteq {"empty"} /\ Len(t.segs) = IF "empty" \in t.flaws THEN 0 ELSE 1
BY ConfigAssumption, Zenon

\* The name of the buckets znode is a segment.
LEMMA ZnodeName ==
  ASSUME NEW z \in ZnodeNames, ValidateNamed(z, TRUE)
  PROVE  z.segs[1] \in STRING
<1>1. z.flaws \cap {"spaced", "illegal"} = {} /\ "empty" \notin z.flaws
  BY Zenon DEF ValidateNamed
<1>2. z.segs \in Seq(STRING) /\ Len(z.segs) = 1
  <2>1. z.segs \in Seq(STRING)
    BY TextSegments, Zenon
  <2>2. Len(z.segs) = 1
    BY <1>1, NameSegments, Zenon
  <2> QED
    BY <2>1, <2>2
<1> QED
  BY <1>2

\* Every option keeps the store, what was asked for and bucketFunc together.
LEMMA OptionKeeps ==
  ASSUME ConfigInv, Next, pc = "ok", UNCHANGED pc
  PROVE  ConfigInv'
<1> USE DEF ConfigInv
<1>1. options' \in 0 .. MaxOptions
  <2>1. options' = options \/ (options < MaxOptions /\ options' = options + 1)
    BY Zenon DEF Next, OptBasePath, OptNumHashBuckets, OptHashProviderFunc, OptBucketsZnodeName,
                 OptACL, NewStore, Apply
  <2> QED
    BY <2>1, ConfigAssumption DEF TypeOK
<1>2. result' \in {"building", "ok", "ErrIllegalOption"}
  BY Zenon DEF Next, OptBasePath, OptNumHashBuckets, OptHashProviderFunc, OptBucketsZnodeName,
               OptACL, NewStore, nilOpt, optError, TypeOK
<1>3. CASE UNCHANGED <<store, wanted>>
  BY <1>1, <1>2, <1>3, Zenon DEF TypeOK, LastOptionWins
<1>4. ASSUME store' \in Store, DOMAIN wanted' = WantedFields,
             store'.hashBuckets = wanted'.hashBuckets,
             store'.hashProviderFunc = wanted'.hashProviderFunc,
             LastOptionWins'
      PROVE  ConfigInv'
  BY <1>1, <1>2, <1>4, Zenon DEF TypeOK
<1>5. store \in Store
  BY DEF TypeOK
<1>6. ASSUME NEW b \in BasePaths,
             store' = [store EXCEPT !.basePath = b.path],
             wanted' = [wanted EXCEPT !.basePath = b.path]
      PROVE  ConfigInv'
  BY <1>4, <1>5, <1>6 DEF Store, LastOptionWins, WantedFields
<1>7. ASSUME NEW n \in Nat \ {0},
             store' = [store EXCEPT !.hashBuckets = n, !.bucketFunc = <<n, store.hashProviderFunc>>],
             wanted' = [wanted EXCEPT !.hashBuckets = n]
      PROVE  ConfigInv'
  BY <1>4, <1>5, <1>7, Zenon DEF Store, LastOptionWins, WantedFields
<1>8. ASSUME NEW h \in Hashers,
             store' = [store EXCEPT !.hashProviderFunc = h, !.bucketFunc = <<store.hashBuckets, h>>],
             wanted' = [wanted EXCEPT !.hashProviderFunc = h]
      PROVE  ConfigInv'
  BY <1>4, <1>5, <1>8, Zenon DEF Store, LastOptionWins, WantedFields
<1>9. ASSUME NEW z \in STRING,
             store' = [store EXCEPT !.bucketsZnodeName = z],
             wanted' = [wanted EXCEPT !.bucketsZnodeName = z]
      PROVE  ConfigInv'
  BY <1>4, <1>5, <1>9, SMTT(30) DEF Store, LastOptionWins, WantedFields
<1>10. ASSUME NEW acl \in ACLs,
              store' = [store EXCEPT !.acls = acl],
              wanted' = [wanted EXCEPT !.acls = acl]
       PROVE  ConfigInv'
  BY <1>4, <1>5, <1>10, SMTT(30) DEF Store, LastOptionWins, WantedFields
<1>11. ASSUME NEW b \in BasePaths, OptBasePath(b) PROVE ConfigInv'
  BY <1>3, <1>6, <1>11, Zenon DEF OptBasePath, nilOpt, optError
<1>12. ASSUME NEW n \in NumBuckets, OptNumHashBuckets(n) PROVE ConfigInv'
  <2>1. CASE n <= 0
    BY <1>3, <1>12, <2>1, ConfigAssumption, SMTT(30) DEF OptNumHashBuckets, nilOpt, optError
  <2>2. CASE n \in Nat \ {0}
    <3>1. ~(n = 0) /\ ~(n < 0)
      BY <2>2
    <3> QED
      BY <1>7, <1>12, <2>2, <3>1, Zenon DEF OptNumHashBuckets
  <2> QED
    BY <2>1, <2>2, ConfigAssumption, SMTT(30)
<1>13. ASSUME NEW h \in Hashers \cup {NilHasher}, OptHashProviderFunc(h) PROVE ConfigInv'
  BY <1>3, <1>8, <1>13, Zenon DEF OptHashProviderFunc, nilOpt
<1>14. ASSUME NEW z \in ZnodeNames, OptBucketsZnodeName(z) PROVE ConfigInv'
  BY <1>3, <1>9, <1>14, ZnodeName, Zenon DEF OptBucketsZnodeName, optError
<1>15. ASSUME NEW acl \in ACLs, OptACL(acl) PROVE ConfigInv'
  BY <1>3, <1>10, <1>15, Zenon DEF OptACL, nilOpt
<1>16. CASE NewStore
  BY <1>3, <1>16, Zenon DEF NewStore
<1> QED
  BY <1>11, <1>12, <1>13, <1>14, <1>15, <1>16, ZenonT(30) DEF Next

\* The inductive step for the store: Connect is over before there are options.
LEMMA ConfigNext == ConnInv /\ ConfigInv /\ [SetupNext]_setupAll => ConfigInv'
<1> SUFFICES ASSUME ConnInv, ConfigInv, [SetupNext]_setupAll PROVE ConfigInv'
  OBVIOUS
<1>1. ASSUME UNCHANGED vars, pc = "ok" => pc' = "ok" PROVE ConfigInv'
  BY <1>1, Zenon DEF vars, ConfigInv, TypeOK, LastOptionWins
<1>2. CASE UNCHANGED setupAll \/ ContainerWork
  BY <1>1, <1>2, Zenon DEF setupAll, ContainerWork, connVars
<1>3. CASE ConnWork
  <2>1. pc = "ok" => pc' = "ok"
    BY <1>3, Zenon DEF ConnWork, ConnectStep, Connect, zkConnect, AddAuth, waitForSession, Deadline,
                       LinkStep, Loop, Dial, Dialled, Authenticate, Disconnect, Lose, AnswerAuth
  <2> QED
    BY <1>1, <1>3, <2>1, Zenon DEF ConnWork
<1>4. CASE CloseStore
  <2>1. pc' = pc
    BY <1>4, Zenon DEF CloseStore, Close, CloseStep, CloseOnce, CloseConn
  <2> QED
    BY <1>1, <1>4, <2>1, Zenon DEF CloseStore
<1>5. CASE OptionStep
  BY <1>5, OptionKeeps, Zenon DEF OptionStep, connVars
<1> QED
  BY <1>2, <1>3, <1>4, <1>5, SetupSteps, Zenon

LEMMA ConfigInvariant == SetupSpec => []ConfigInv
<1>1. SetupInit => ConfigInv
  <2> SUFFICES ASSUME Init, pc = "idle" PROVE ConfigInv
    BY Zenon DEF SetupInit, ConnInit
  <2>1. store \in Store /\ options \in 0 .. MaxOptions
    BY ConfigAssumption, SMTT(30) DEF Init, Store
  <2>2. DOMAIN wanted = WantedFields
    BY DEF Init, WantedFields
  <2>3. /\ store.hashBuckets = wanted.hashBuckets
        /\ store.hashProviderFunc = wanted.hashProviderFunc
        /\ LastOptionWins
    BY SMTT(30) DEF Init, LastOptionWins
  <2> QED
    BY <2>1, <2>2, <2>3, Zenon DEF ConfigInv, TypeOK, Init
<1> QED
  BY <1>1, ConnInvariant, ConfigNext, PTL DEF SetupSpec

\* Whatever options NewStore gets, in whatever order, repeated or not, each field of the
\* store has the last value asked for, and bucketFunc the last of both that it is made
\* from (options.go).
THEOREM OptionsTakeEffect == SetupSpec => []LastOptionWins
<1>1. ConfigInv => LastOptionWins
  BY DEF ConfigInv
<1> QED
  BY <1>1, ConfigInvariant, PTL

\* NewStore returns only after its connection got a session, authenticated where the
\* options ask for it, and the connection is open until a Close of it returned.
THEOREM StoresAreConnected == SetupSpec => []SetupConsistent
<1>1. ContainerTypeOK /\ ConnInv /\ ConfigInv => SetupConsistent
  <2> SUFFICES ASSUME ContainerTypeOK, ConnInv, ConfigInv PROVE SetupConsistent
    OBVIOUS
  <2>1. ContainerTypeOK /\ ConnTypeOK /\ TypeOK
    BY Zenon DEF ConnInv, ConfigInv
  <2>2. ASSUME result # "building"
        PROVE  /\ kind = "existing" \/ (hadSession /\ conn /\ (kind = "newAuth" => auth = "ok"))
               /\ ~Open => \E p \in Closers : close[p] = "ok"
    <3>1. pc = "ok"
      BY <2>2, Zenon DEF ConfigInv
    <3>2. CASE kind = "existing"
      BY <3>2, Zenon DEF ConnInv, ExistingInv, Open
    <3>3. CASE kind # "existing"
      BY <3>1, <3>3, Zenon DEF ConnInv, NewConnInv, EventsInv, CloseInv
    <3> QED
      BY <3>2, <3>3
  <2> QED
    BY <2>1, <2>2, Zenon DEF SetupConsistent
<1> QED
  BY <1>1, ContainerInvariant, ConnInvariant, ConfigInvariant, PTL
-----------------------------------------------------------------------------
(* The znodes of idents. *)

LEMMA FirstEight ==
  ASSUME NEW S, NEW s, \A i \in 1 .. 8 : s[i] \in S
  PROVE  SubSeq(s, 1, 8) \in Seq(S) /\ Len(SubSeq(s, 1, 8)) = 8
<1> DEFINE u == SubSeq(s, 1, 8)
<1>1. 8 \in Int /\ 1 \in Int
  OBVIOUS
<1>2. u \in Seq(S) /\ Len(u) = IF 1 <= 8 THEN 8 - 1 + 1 ELSE 0
  BY <1>1, SubSeqProperties, SMTT(30)
<1> HIDE DEF u
<1> QED
  BY <1>2 DEF u

\* HashProvider caps the digest at eight bytes, too few for an overflow: binary.Uvarint
\* reports one, by a negative length, only in the tenth byte or later.
LEMMA HashNeverOverflows ==
  ASSUME NEW digest \in Seq(0 .. 255)
  PROVE  HashProvider(digest)[2] >= 0
<1> DEFINE buf  == Cut(digest)
           ends == {i \in 1 .. Len(buf) : buf[i] < 128}
           n    == CHOOSE i \in ends : \A j \in ends : i <= j
           sum[i \in 0 .. n] == IF i = 0 THEN 0
                                ELSE sum[i - 1] + (buf[i] % 128) * 128 ^ (i - 1)
<1>1. buf \in Seq(0 .. 255) /\ Len(buf) <= 8
  <2>1. CASE Len(digest) > 8
    <3>1. \A i \in 1 .. 8 : digest[i] \in 0 .. 255
      <4> SUFFICES ASSUME NEW i \in 1 .. 8 PROVE digest[i] \in 0 .. 255
        BY Zenon
      <4>1. i \in 1 .. Len(digest)
        BY <2>1
      <4> QED
        BY <4>1, ElementOfSeq, SMTT(30)
    <3>2. SubSeq(digest, 1, 8) \in Seq(0 .. 255) /\ Len(SubSeq(digest, 1, 8)) = 8
      BY <3>1, FirstEight, Zenon
    <3>3. buf = SubSeq(digest, 1, 8)
      BY <2>1, Zenon DEF Cut
    <3>4. 8 <= 8
      OBVIOUS
    <3> QED
      BY <3>2, <3>3, <3>4, ZenonT(30)
  <2>2. CASE ~(Len(digest) > 8)
    BY <2>2 DEF Cut
  <2> QED
    BY <2>1, <2>2
<1>2. ends \subseteq 1 .. 8
  BY <1>1, SMTT(30)
<1>3. ends # {} => n \in ends
  <2> SUFFICES ASSUME ends # {} PROVE \E i \in ends : \A j \in ends : i <= j
    BY Zenon
  <2> HIDE DEF ends
  <2>1. ends \subseteq Nat
    BY <1>2
  <2>2. \E i \in ends : \A j \in ends : ~(<<j, i>> \in OpToRel(<, Nat))
    BY <2>1, NatLessThanWellFounded, WFMin, Zenon
  <2>3. \A x, y \in Nat : y < x => <<y, x>> \in OpToRel(<, Nat)
    BY DEF OpToRel
  <2>4. PICK i \in ends : \A j \in ends : ~(j < i)
    BY <2>1, <2>2, <2>3, Zenon
  <2>5. \A j \in ends : i <= j
    BY <2>1, <2>4
  <2> QED
    BY <2>5, Zenon
<1>4. HashProvider(digest) =
        IF ends = {} THEN <<0, 0>>
        ELSE IF n > 10 \/ (n = 10 /\ buf[n] > 1) THEN <<0, -n>>
        ELSE <<sum[n], n>>
  BY Zenon DEF HashProvider, Uvarint
<1> HIDE DEF sum, n, ends, buf
<1>5. CASE ends = {}
  BY <1>4, <1>5
<1>6. CASE ends # {}
  <2>3. n \in 1 .. 8
    BY <1>2, <1>3, <1>6, Zenon
  <2>1. n \in 1 .. 8 /\ ~(n > 10) /\ n # 10
    BY <2>3
  <2>2. HashProvider(digest) = <<sum[n], n>>
    BY <1>4, <1>6, <2>1, Zenon
  <2> QED
    BY <2>1, <2>2
<1> QED
  BY <1>5, <1>6, SMTT(30)

LEMMA Concat ==
  ASSUME NEW S, NEW s \in Seq(S), NEW t \in Seq(S)
  PROVE  /\ s \o t \in Seq(S) /\ Len(s \o t) = Len(s) + Len(t)
         /\ \A i \in 1 .. Len(s) : (s \o t)[i] = s[i]
         /\ \A i \in 1 .. Len(t) : (s \o t)[Len(s) + i] = t[i]
<1>1. /\ s \o t \in Seq(S) /\ Len(s \o t) = Len(s) + Len(t)
      /\ \A i \in 1 .. Len(s) + Len(t) : (s \o t)[i] = IF i <= Len(s) THEN s[i] ELSE t[i - Len(s)]
  BY ConcatProperties, Zenon
<1>2. Len(s) \in Nat /\ Len(t) \in Nat
  OBVIOUS
<1> DEFINE u == s \o t
           m == Len(s)
           n == Len(t)
<1> HIDE DEF u, m, n
<1>3. ASSUME NEW i \in 1 .. m PROVE u[i] = s[i]
  BY <1>1, <1>2 DEF u, m, n
<1>4. ASSUME NEW i \in 1 .. n PROVE u[m + i] = t[i]
  <2>1. m + i \in 1 .. m + n /\ ~(m + i <= m) /\ (m + i) - m = i
    BY <1>2 DEF m, n
  <2>2. u[m + i] = t[(m + i) - m]
    BY <1>1, <2>1, Zenon DEF u, m, n
  <2> QED
    BY <2>1, <2>2, Zenon
<1> QED
  BY <1>1, <1>3, <1>4, Zenon DEF u, m, n

\* Where the parts of a path are, after k segments of the base path.
IsPath(p, k, c, z, n, v) ==
  /\ Len(p) = k + Len(c) + 3 + Len(v)
  /\ \A i \in 1 .. Len(c) : p[k + i] = c[i]
  /\ p[k + Len(c) + 1] = z
  /\ p[k + Len(c) + 3] = n[1]
  /\ Len(v) = 1 => p[k + Len(c) + 4] = v[1]

LEMMA PathParts ==
  ASSUME NEW S, NEW base \in Seq(S), NEW z \in S,
         NEW c \in Seq(S), NEW b \in S, NEW n \in Seq(S), NEW v \in Seq(S),
         Len(n) = 1
  PROVE  IsPath(identPath(bucketsPath(base, c, z), b, n, v), Len(base), c, z, n, v)
<1> DEFINE k == Len(base)
           l == Len(c)
           q == base \o c
           r == q \o <<z>>
           s == r \o <<b>>
           t == s \o n
           p == t \o v
<1>1. k \in Nat /\ l \in Nat /\ Len(v) \in Nat
  OBVIOUS
<1>2. <<z>> \in Seq(S) /\ Len(<<z>>) = 1 /\ <<z>>[1] = z
  OBVIOUS
<1>3. <<b>> \in Seq(S) /\ Len(<<b>>) = 1
  OBVIOUS
<1>16. \A x, y \in Seq(S) :
         /\ x \o y \in Seq(S) /\ Len(x \o y) = Len(x) + Len(y)
         /\ \A i \in 1 .. Len(x) : (x \o y)[i] = x[i]
         /\ \A i \in 1 .. Len(y) : (x \o y)[Len(x) + i] = y[i]
  <2> SUFFICES ASSUME NEW x \in Seq(S), NEW y \in Seq(S)
               PROVE  /\ x \o y \in Seq(S) /\ Len(x \o y) = Len(x) + Len(y)
                      /\ \A i \in 1 .. Len(x) : (x \o y)[i] = x[i]
                      /\ \A i \in 1 .. Len(y) : (x \o y)[Len(x) + i] = y[i]
    BY Zenon
  <2> QED
    BY Concat, SMTT(30)
<1>4. /\ q \in Seq(S) /\ Len(q) = k + l /\ \A i \in 1 .. l : q[k + i] = c[i]
  BY Concat
<1> HIDE DEF q
<1>5. /\ r \in Seq(S) /\ Len(r) = Len(q) + Len(<<z>>)
      /\ \A i \in 1 .. Len(q) : r[i] = q[i]
      /\ \A i \in 1 .. Len(<<z>>) : r[Len(q) + i] = <<z>>[i]
  BY <1>2, <1>4, Concat, SMTT(30)
<1> HIDE DEF r
<1>6. /\ s \in Seq(S) /\ Len(s) = Len(r) + Len(<<b>>) /\ \A i \in 1 .. Len(r) : s[i] = r[i]
  BY <1>3, <1>5, Concat
<1> HIDE DEF s
<1>7. /\ t \in Seq(S) /\ Len(t) = Len(s) + Len(n)
      /\ \A i \in 1 .. Len(s) : t[i] = s[i]
      /\ \A i \in 1 .. Len(n) : t[Len(s) + i] = n[i]
  BY <1>6, <1>16, Zenon
<1> HIDE DEF t
<1>8. /\ Len(p) = Len(t) + Len(v)
      /\ \A i \in 1 .. Len(t) : p[i] = t[i]
      /\ \A i \in 1 .. Len(v) : p[Len(t) + i] = v[i]
  BY <1>7, <1>16, ZenonT(30)
<1>9. identPath(bucketsPath(base, c, z), b, n, v) = p
  BY Zenon DEF identPath, bucketsPath, t, s, r, q
<1> HIDE DEF p, k, l
<1>10. Len(q) = k + l /\ Len(r) = k + l + 1 /\ Len(s) = k + l + 2 /\ Len(t) = k + l + 3
  BY <1>1, <1>2, <1>3, <1>4, <1>5, <1>6, <1>7, SMTT(30)
<1>11. ASSUME NEW i \in 1 .. l PROVE p[k + i] = c[i]
  <2>1. /\ k + i \in 1 .. k + l /\ k + i \in 1 .. k + l + 1
        /\ k + i \in 1 .. k + l + 2 /\ k + i \in 1 .. k + l + 3
    BY <1>1
  <2>2. p[k + i] = t[k + i] /\ t[k + i] = s[k + i]
    BY <1>7, <1>8, <1>10, <2>1, Zenon
  <2>3. s[k + i] = r[k + i] /\ r[k + i] = q[k + i]
    BY <1>5, <1>6, <1>10, <2>1, ZenonT(30)
  <2> QED
    BY <1>4, <2>2, <2>3, SMTT(30)
<1>12. p[k + l + 1] = z
  <2>1. /\ k + l + 1 \in 1 .. k + l + 1 /\ k + l + 1 \in 1 .. k + l + 2
        /\ k + l + 1 \in 1 .. k + l + 3 /\ 1 \in 1 .. Len(<<z>>) /\ Len(q) + 1 = k + l + 1
    BY <1>1, <1>2, <1>10, SMTT(30)
  <2>2. p[k + l + 1] = r[k + l + 1]
    <3>1. p[k + l + 1] = t[k + l + 1]
      BY <1>8, <1>10, <2>1, Zenon
    <3>2. t[k + l + 1] = s[k + l + 1]
      BY <1>7, <1>10, <2>1, Zenon
    <3>3. s[k + l + 1] = r[k + l + 1]
      BY <1>6, <1>10, <2>1, ZenonT(30)
    <3> QED
      BY <3>1, <3>2, <3>3, Zenon
  <2>3. r[Len(q) + 1] = z
    BY <1>2, <1>5, <2>1, SMTT(30)
  <2> QED
    BY <2>1, <2>2, <2>3, SMTT(30)
<1>13. p[k + l + 3] = n[1]
  <2>1. k + l + 3 \in 1 .. k + l + 3 /\ Len(s) + 1 = k + l + 3 /\ 1 \in 1 .. Len(n)
    BY <1>1, <1>10, SMTT(30)
  <2>2. p[k + l + 3] = t[k + l + 3]
    BY <1>8, <1>10, <2>1, ZenonT(30)
  <2>3. t[Len(s) + 1] = n[1]
    BY <1>7, <2>1, SMTT(30)
  <2> QED
    BY <2>1, <2>2, <2>3, SMTT(30)
<1>14. ASSUME Len(v) = 1 PROVE p[k + l + 4] = v[1]
  <2>1. 1 \in 1 .. Len(v) /\ Len(t) + 1 = k + l + 4
    BY <1>1, <1>10, <1>14, SMTT(30)
  <2>2. p[Len(t) + 1] = v[1]
    BY <1>8, <2>1, SMTT(30)
  <2> QED
    BY <2>1, <2>2, SMTT(30)
<1>15. Len(p) = k + l + 3 + Len(v)
  BY <1>1, <1>8, <1>10, SMTT(30)
<1> QED
  BY <1>9, <1>11, <1>12, <1>13, <1>14, <1>15, ZenonT(30) DEF k, l, IsPath

\* An item's znode leads to no bucket of a category without the name of the buckets znode:
\* the item's own buckets znode would be a segment of the category.
LEMMA AboveNoBucket ==
  ASSUME NEW S, NEW base \in Seq(S), NEW z \in S, NEW c \in Seq(S), NEW b \in S,
         NEW p, NEW d, NEW n, NEW v, IsPath(p, Len(base), d, z, n, v),
         Len(d) \in Nat, Len(v) \in Nat, \A i \in DOMAIN c : c[i] # z
  PROVE  ~StartsWith(bucketsPath(base, c, z) \o <<b>>, p)
<1> DEFINE k == Len(base)
           l == Len(c)
           m == Len(d)
           w == Len(v)
           q == base \o c
           r == q \o <<z>>
           s == r \o <<b>>
<1>1. k \in Nat /\ l \in Nat /\ m \in Nat /\ w \in Nat /\ \A i \in 1 .. l : c[i] # z
  OBVIOUS
<1>2. <<z>> \in Seq(S) /\ Len(<<z>>) = 1 /\ <<b>> \in Seq(S) /\ Len(<<b>>) = 1
  OBVIOUS
<1>3. q \in Seq(S) /\ Len(q) = k + l /\ \A i \in 1 .. l : q[k + i] = c[i]
  BY Concat
<1> HIDE DEF q
<1>4. r \in Seq(S) /\ Len(r) = Len(q) + Len(<<z>>) /\ \A i \in 1 .. Len(q) : r[i] = q[i]
  BY <1>2, <1>3, Concat, SMTT(30)
<1> HIDE DEF r
<1>5. Len(s) = Len(r) + Len(<<b>>) /\ \A i \in 1 .. Len(r) : s[i] = r[i]
  BY <1>2, <1>4, Concat, SMTT(30)
<1>6. bucketsPath(base, c, z) \o <<b>> = s
  BY Zenon DEF bucketsPath, r, q
<1> HIDE DEF s
<1>7. Len(p) = k + m + 3 + w /\ p[k + m + 1] = z
  BY Zenon DEF IsPath
<1> HIDE DEF k, l, m, w
<1>8. Len(q) = k + l /\ Len(r) = k + l + 1 /\ Len(s) = k + l + 2
  BY <1>1, <1>2, <1>3, <1>4, <1>5, SMTT(30)
<1> SUFFICES ASSUME Len(p) <= Len(s), \A i \in 1 .. Len(p) : s[i] = p[i] PROVE FALSE
  BY <1>6, Zenon DEF StartsWith
<1>9. /\ m + 1 \in 1 .. l /\ k + m + 1 \in 1 .. Len(p) /\ k + m + 1 \in 1 .. Len(r)
      /\ k + m + 1 \in 1 .. Len(q) /\ k + (m + 1) = k + m + 1
  BY <1>1, <1>7, <1>8, SMTT(30)
<1>10. s[k + m + 1] = q[k + m + 1]
  BY <1>4, <1>5, <1>9, Zenon
<1>11. q[k + m + 1] = c[m + 1]
  BY <1>3, <1>9, Zenon
<1>12. c[m + 1] # z
  BY <1>1, <1>9, Zenon
<1> QED
  BY <1>7, <1>9, <1>10, <1>11, <1>12, Zenon

\* A path tells category, name and variant: the name is one segment, and a category
\* one segment longer than the other would end with the buckets znode.
LEMMA PathsTell ==
  ASSUME NEW p, NEW k \in Nat, NEW z,
         NEW c1 \in Seq(STRING), NEW n1 \in Seq(STRING), NEW v1 \in Seq(STRING),
         NEW c2 \in Seq(STRING), NEW n2 \in Seq(STRING), NEW v2 \in Seq(STRING),
         IsPath(p, k, c1, z, n1, v1), IsPath(p, k, c2, z, n2, v2),
         Len(n1) = 1, Len(n2) = 1, Len(v1) \in {0, 1}, Len(v2) \in {0, 1},
         c1 = <<>> \/ c1[Len(c1)] # z, c2 = <<>> \/ c2[Len(c2)] # z
  PROVE  c1 = c2 /\ n1 = n2 /\ v1 = v2
<1>5. k \in Nat /\ Len(c1) \in Nat /\ Len(c2) \in Nat /\ Len(v1) \in {0, 1} /\ Len(v2) \in {0, 1}
  OBVIOUS
<1>6. Len(c1) = Len(c2)
  <2>1. Len(c1) # Len(c2) + 1
    <3> SUFFICES ASSUME Len(c1) = Len(c2) + 1 PROVE FALSE
      OBVIOUS
    <3>1. Len(c1) \in 1 .. Len(c1) /\ k + Len(c1) = k + Len(c2) + 1 /\ c1 # <<>>
      BY <1>5, SMTT(30)
    <3> QED
      BY <3>1, SMTT(30) DEF IsPath
  <2>2. Len(c2) # Len(c1) + 1
    <3> SUFFICES ASSUME Len(c2) = Len(c1) + 1 PROVE FALSE
      OBVIOUS
    <3>1. Len(c2) \in 1 .. Len(c2) /\ k + Len(c2) = k + Len(c1) + 1 /\ c2 # <<>>
      BY <1>5
    <3> QED
      BY <3>1, SMTT(30) DEF IsPath
  <2>3. k + Len(c1) + 3 + Len(v1) = k + Len(c2) + 3 + Len(v2)
    BY Zenon DEF IsPath
  <2> DEFINE m1 == Len(c1)
             m2 == Len(c2)
             w1 == Len(v1)
             w2 == Len(v2)
  <2>4. m1 \in Nat /\ m2 \in Nat /\ w1 \in {0, 1} /\ w2 \in {0, 1}
    BY <1>5
  <2> HIDE DEF m1, m2, w1, w2
  <2>6. m1 # m2 + 1 /\ m2 # m1 + 1 /\ k + m1 + 3 + w1 = k + m2 + 3 + w2
    BY <2>1, <2>2, <2>3, ZenonT(30) DEF m1, m2, w1, w2
  <2>5. m1 = m2
    BY <1>5, <2>4, <2>6, SMTT(30)
  <2> QED
    BY <2>5, SMTT(30) DEF m1, m2
<1>7. Len(v1) = Len(v2) /\ n1[1] = n2[1] /\ (Len(v1) = 1 => v1[1] = v2[1])
      /\ \A i \in 1 .. Len(c1) : c1[i] = c2[i]
  BY <1>5, <1>6, SMTT(30) DEF IsPath
<1>9. c1 = c2
  BY <1>6, <1>7, SeqEqual, SMTT(30)
<1>10. n1 = n2
  BY <1>7, SeqEqual, SMTT(30)
<1>11. v1 = v2
  <2> DEFINE w == Len(v1)
  <2>2. w \in {0, 1} /\ (w = 1 => v1[1] = v2[1])
    BY <1>5, <1>7, SMTT(30)
  <2> HIDE DEF w
  <2>3. \A i \in 1 .. w : v1[i] = v2[i]
    BY <2>2, SMTT(30)
  <2>1. \A i \in 1 .. Len(v1) : v1[i] = v2[i]
    BY <2>3, SMTT(30) DEF w
  <2> QED
    BY <1>7, <2>1, SeqEqual, SMTT(30)
<1> QED
  BY <1>9, <1>10, <1>11, SMTT(30)

\* What the checks of validate.go let through.
LEMMA NamedTexts ==
  ASSUME NEW t \in Names \cup Variants \cup ZnodeNames, NEW required \in BOOLEAN,
         ValidateNamed(t, required)
  PROVE  /\ t \in Texts /\ t.segs \in Seq(STRING) /\ Len(t.segs) \in {0, 1}
         /\ t.flaws = IF Len(t.segs) = 0 THEN {"empty"} ELSE {}
         /\ required => Len(t.segs) = 1
<1>1. t \in Texts /\ t.segs \in Seq(STRING)
  BY TextSegments, Zenon
<1>2. t.flaws \cap {"spaced", "illegal"} = {} \/ "empty" \in t.flaws
  BY Zenon DEF ValidateNamed
<1>3. t.flaws \subseteq {"empty"}
  BY <1>2, NameSegments, Zenon
<1>4. Len(t.segs) = IF "empty" \in t.flaws THEN 0 ELSE 1
  BY <1>2, NameSegments, Zenon
<1>5. required => "empty" \notin t.flaws
  BY Zenon DEF ValidateNamed
<1>6. CASE "empty" \in t.flaws
  <2>1. Len(t.segs) = 0 /\ t.flaws = {"empty"} /\ ~required
    BY <1>3, <1>4, <1>5, <1>6, Zenon
  <2> QED
    BY <1>1, <2>1, Zenon
<1>7. CASE "empty" \notin t.flaws
  <2>1. Len(t.segs) = 1 /\ t.flaws = {}
    BY <1>3, <1>4, <1>7, Zenon
  <2>2. ~(Len(t.segs) = 0)
    BY <2>1
  <2> QED
    BY <1>1, <2>1, <2>2, Zenon
<1> QED
  BY <1>6, <1>7

\* The base path and the hash function of a store that NewStore built.
LEMMA StoreParts ==
  ASSUME ConfigInv
  PROVE  /\ store.basePath \in Seq(STRING) /\ store.bucketsZnodeName \in STRING
         /\ store.bucketFunc[2] \in [Names -> Seq(0 .. 255)]
<1>1. store \in Store
  BY DEF ConfigInv, TypeOK
<1>2. store.basePath \in {b.path : b \in BasePaths} \cup {<<>>} /\ store.bucketsZnodeName \in STRING
  BY <1>1, SMTT(30) DEF Store
<1>3. store.bucketFunc[2] \in Hashers \cup {DefaultHasher}
  BY <1>1 DEF Store
<1>4. \A b \in BasePaths : b.path \in Seq(STRING)
  BY ConfigAssumption, Zenon
<1>5. <<>> \in Seq(STRING)
  OBVIOUS
<1>6. Hashers \cup {DefaultHasher} \subseteq [Names -> Seq(0 .. 255)]
  BY ConfigAssumption, Zenon
<1>7. store.basePath \in Seq(STRING)
  BY <1>2, <1>4, <1>5, ZenonT(30)
<1> QED
  BY <1>2, <1>3, <1>6, <1>7, ZenonT(30)

\* However a store is configured, every ident that Validate and bucketsPath accept gets
\* a bucket without an overflow of the hash and a znode of its own: identPath is
\* injective, up to a leading slash of the category.
THEOREM ZnodesAreOwn == SetupSpec => []IdentsHaveOwnZnodes
<1>1. ConfigInv => IdentsHaveOwnZnodes
  <2> SUFFICES ASSUME ConfigInv PROVE IdentsHaveOwnZnodes
    OBVIOUS
  <2> DEFINE ids    == {id \in Idents : IdentValidate(id) /\ GoodCategory(store, id.category)}
             znodes == {<<PathOf(store, id), id.category.segs, id.name, id.variant>> : id \in ids}
             plain  == {c \in Categories : PlainCategory(store, c)}
  <2>1. ASSUME NEW id \in ids
        PROVE  /\ id.category \in Categories /\ id.name \in Names /\ id.variant \in Variants
               /\ ValidateNamed(id.name, TRUE) /\ ValidateNamed(id.variant, FALSE)
               /\ GoodCategory(store, id.category)
    BY <2>1, Zenon DEF Idents, IdentValidate, LocationValidate
  <2>2. ASSUME NEW id \in ids
        PROVE  HashProvider(store.bucketFunc[2][id.name])[2] >= 0
    BY <2>1, HashNeverOverflows, StoreParts, ZenonT(30)
  <2>3. ASSUME NEW i \in ids, NEW j \in ids, PathOf(store, i) = PathOf(store, j)
        PROVE  i.category.segs = j.category.segs /\ i.name = j.name /\ i.variant = j.variant
    <3> DEFINE S == STRING \cup {bucketOf(store, i.name), bucketOf(store, j.name)}
    <3>1. ASSUME NEW s \in Seq(STRING) PROVE s \in Seq(S)
      OBVIOUS
    <3>2. /\ i.category.segs \in Seq(STRING) /\ j.category.segs \in Seq(STRING)
      BY <2>1, TextSegments, Zenon
    <3>3. /\ i.name \in Texts /\ i.name.segs \in Seq(STRING) /\ Len(i.name.segs) = 1
          /\ i.name.flaws = {}
          /\ j.name \in Texts /\ j.name.segs \in Seq(STRING) /\ Len(j.name.segs) = 1
          /\ j.name.flaws = {}
      <4>1. TRUE \in BOOLEAN /\ ~(1 = 0)
        OBVIOUS
      <4>2. ASSUME NEW id \in ids
            PROVE  /\ id.name \in Texts /\ id.name.segs \in Seq(STRING) /\ Len(id.name.segs) = 1
                   /\ id.name.flaws = {}
        BY <2>1, <4>1, NamedTexts, Zenon
      <4> QED
        BY <4>2, Zenon
    <3>4. /\ i.variant \in Texts /\ i.variant.segs \in Seq(STRING) /\ Len(i.variant.segs) \in {0, 1}
          /\ i.variant.flaws = IF Len(i.variant.segs) = 0 THEN {"empty"} ELSE {}
          /\ j.variant \in Texts /\ j.variant.segs \in Seq(STRING) /\ Len(j.variant.segs) \in {0, 1}
          /\ j.variant.flaws = IF Len(j.variant.segs) = 0 THEN {"empty"} ELSE {}
      <4>1. FALSE \in BOOLEAN
        OBVIOUS
      <4> QED
        BY <2>1, <4>1, NamedTexts, Zenon
    <3>5. /\ bucketOf(store, i.name) \in S /\ bucketOf(store, j.name) \in S
          /\ store.bucketsZnodeName \in S /\ store.basePath \in Seq(S)
      BY <3>1, StoreParts, Zenon
    <3>6. /\ i.category.segs = <<>> \/ i.category.segs[Len(i.category.segs)] # store.bucketsZnodeName
          /\ j.category.segs = <<>> \/ j.category.segs[Len(j.category.segs)] # store.bucketsZnodeName
      BY <2>1, Zenon DEF GoodCategory
    <3>7. /\ i.category.segs \in Seq(S) /\ j.category.segs \in Seq(S)
          /\ i.name.segs \in Seq(S) /\ j.name.segs \in Seq(S)
          /\ i.variant.segs \in Seq(S) /\ j.variant.segs \in Seq(S)
      BY <3>1, <3>2, <3>3, <3>4, ZenonT(30)
    <3> HIDE DEF S
    <3>8. /\ i.category.segs = j.category.segs /\ i.name.segs = j.name.segs
          /\ i.variant.segs = j.variant.segs
      <4> DEFINE p == PathOf(store, i)
                 k == Len(store.basePath)
                 z == store.bucketsZnodeName
      <4>1. IsPath(p, k, i.category.segs, z, i.name.segs, i.variant.segs)
        BY <3>3, <3>5, <3>7, PathParts, Zenon DEF PathOf
      <4>2. IsPath(PathOf(store, j), k, j.category.segs, z, j.name.segs, j.variant.segs)
        BY <3>3, <3>5, <3>7, PathParts, Zenon DEF PathOf
      <4>3. IsPath(p, k, j.category.segs, z, j.name.segs, j.variant.segs)
        BY <2>3, <4>2, Zenon
      <4>4. k \in Nat
        BY <3>5
      <4> DEFINE c1 == i.category.segs
                 n1 == i.name.segs
                 v1 == i.variant.segs
                 c2 == j.category.segs
                 n2 == j.name.segs
                 v2 == j.variant.segs
      <4>5. /\ c1 \in Seq(STRING) /\ n1 \in Seq(STRING) /\ v1 \in Seq(STRING)
            /\ c2 \in Seq(STRING) /\ n2 \in Seq(STRING) /\ v2 \in Seq(STRING)
            /\ IsPath(p, k, c1, z, n1, v1) /\ IsPath(p, k, c2, z, n2, v2)
            /\ Len(n1) = 1 /\ Len(n2) = 1 /\ Len(v1) \in {0, 1} /\ Len(v2) \in {0, 1}
            /\ c1 = <<>> \/ c1[Len(c1)] # z
            /\ c2 = <<>> \/ c2[Len(c2)] # z
        BY <3>2, <3>3, <3>4, <3>6, <4>1, <4>3, ZenonT(30)
      <4> HIDE DEF p, k, z, c1, n1, v1, c2, n2, v2
      <4>6. c1 = c2 /\ n1 = n2 /\ v1 = v2
        BY <4>4, <4>5, PathsTell, SMTT(30)
      <4> QED
        BY <4>6 DEF c1, n1, v1, c2, n2, v2
    <3>9. ASSUME NEW s \in Texts, NEW t \in Texts, s.segs = t.segs, s.flaws = t.flaws
          PROVE  s = t
      BY <3>9 DEF Texts
    <3>10. i.name = j.name
      BY <3>3, <3>8, <3>9, Zenon
    <3>11. i.variant.flaws = j.variant.flaws
      BY <3>4, <3>8, Zenon
    <3>12. i.variant = j.variant
      BY <3>4, <3>8, <3>9, <3>11, Zenon
    <3> QED
      BY <3>8, <3>10, <3>12, Zenon
  <2>4. \A y, z \in znodes : y[1] = z[1] => y = z
    <3> SUFFICES ASSUME NEW i \in ids, NEW j \in ids, PathOf(store, i) = PathOf(store, j)
                 PROVE  <<PathOf(store, i), i.category.segs, i.name, i.variant>> =
                        <<PathOf(store, j), j.category.segs, j.name, j.variant>>
      OBVIOUS
    <3> QED
      BY <2>3, ZenonT(30)
  <2>5. ASSUME NEW i \in ids, NEW c \in plain, NEW name \in Names
        PROVE  ~StartsWith(BucketPath(store, c, name), PathOf(store, i))
    <3> DEFINE S == STRING \cup {bucketOf(store, i.name), bucketOf(store, name)}
               k == Len(store.basePath)
    <3>1. ASSUME NEW s \in Seq(STRING) PROVE s \in Seq(S)
      OBVIOUS
    <3>2. /\ i.category.segs \in Seq(STRING) /\ c.segs \in Seq(STRING)
      BY <2>1, TextSegments, Zenon
    <3>3. /\ i.name.segs \in Seq(STRING) /\ Len(i.name.segs) = 1
          /\ i.variant.segs \in Seq(STRING)
      <4>1. TRUE \in BOOLEAN /\ FALSE \in BOOLEAN
        OBVIOUS
      <4> QED
        BY <2>1, <4>1, NamedTexts, Zenon
    <3>4. /\ bucketOf(store, i.name) \in S /\ bucketOf(store, name) \in S
          /\ store.bucketsZnodeName \in S /\ store.basePath \in Seq(S)
      BY <3>1, StoreParts, Zenon
    <3>5. /\ i.category.segs \in Seq(S) /\ c.segs \in Seq(S)
          /\ i.name.segs \in Seq(S) /\ i.variant.segs \in Seq(S)
      BY <3>1, <3>2, <3>3, Zenon
    <3> HIDE DEF S
    <3>6. IsPath(PathOf(store, i), k, i.category.segs, store.bucketsZnodeName,
                 i.name.segs, i.variant.segs)
      BY <3>3, <3>4, <3>5, PathParts, Zenon DEF PathOf
    <3>7. Len(i.category.segs) \in Nat /\ Len(i.variant.segs) \in Nat
      BY <3>2, <3>3
    <3>8. \A x \in DOMAIN c.segs : c.segs[x] # store.bucketsZnodeName
      BY Zenon DEF PlainCategory
    <3> QED
      BY <3>4, <3>5, <3>6, <3>7, <3>8, AboveNoBucket, Zenon DEF BucketPath
  <2>6. \A y \in znodes, b \in UNION {{BucketPath(store, c, n) : n \in Names} : c \in plain} :
          ~StartsWith(b, y[1])
    <3> SUFFICES ASSUME NEW y \in znodes, NEW c \in plain, NEW n \in Names
                 PROVE  ~StartsWith(BucketPath(store, c, n), y[1])
      BY Zenon
    <3>1. PICK i \in ids : y = <<PathOf(store, i), i.category.segs, i.name, i.variant>>
      BY Zenon
    <3>2. y[1] = PathOf(store, i)
      BY <3>1, Zenon
    <3> QED
      BY <2>5, <3>2, Zenon
  <2> QED
    BY <2>2, <2>4, <2>6, Zenon DEF IdentsHaveOwnZnodes
<1> QED
  BY <1>1, ConfigInvariant, PTL
=============================================================================
