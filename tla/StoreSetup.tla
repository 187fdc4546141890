---------------------------- MODULE StoreSetup -----------------------------
(***************************************************************************)
(* From a ZooKeeper container to a store and back, as the tests of         *)
(* src/zkstore do it: StartZookeeper, NewStore with a Connector to the     *)
(* container (Connect first, then the options), Close of the store or of   *)
(* the Connector, and Teardown, which may come at any moment.  A store     *)
(* with an existing connection has no part in the container.               *)
(***************************************************************************)
EXTENDS ZKContainer, Connector, ZKStoreConfig

CONSTANT MaxNewOptions   \* bound on the options of a store with a new connection

ASSUME SetupAssumption == MaxNewOptions \in Nat

setupAll == <<containerVars, connVars, vars>>

SetupInit == ContainerInit /\ ConnInit /\ Init

\* A step of the container on its own.
OfContainer(A) == kind # "existing" /\ A /\ UNCHANGED <<connVars, vars>>

ContainerStep ==
  \/ OfContainer(StartZookeeper) \/ OfContainer(Poller) \/ OfContainer(Serve)
  \/ \E p \in Callers : OfContainer(Teardown(p)) \/ OfContainer(TeardownStep(p))

\* A step of the Connector or its connection.  NewStore calls Connect when the container
\* is there; its server answers while it is serving.
OfConn(A) ==
  /\ A
  /\ pc = "idle" => setup = "control" \/ kind = "existing"
  /\ link' \in {"connected", "session"} /\ link' # link => serving
  /\ auth' = "ok" /\ auth' # auth => serving
  /\ UNCHANGED <<containerVars, vars>>

ConnStep == OfConn(ConnectStep) \/ OfConn(Loop)

\* The connection to a server that is gone breaks.
ServerGone == OfConn(Lose /\ ~serving /\ UNCHANGED losses)

\* NewStore goes on with the options after a Connect that succeeded.
OptionStep ==
  /\ pc = "ok"
  /\ Next
  /\ kind = "existing" \/ options < MaxNewOptions \/ result' # "building"
  /\ UNCHANGED <<containerVars, connVars>>

\* Store.Close is Close of the Connector, which its owner may also call after a
\* NewStore that failed.
CloseStore ==
  /\ pc = "ok" => result # "building"
  /\ \E p \in Closers : Close(p) \/ CloseStep(p)
  /\ UNCHANGED <<containerVars, vars>>

SetupNext == ContainerStep \/ ConnStep \/ ServerGone \/ OptionStep \/ CloseStore

\* A goroutine that can go on does, the connection's loop too, and a deadline passes in
\* the end.  Calls, the server's coming up and the loss of a connection are up to others.
SetupFairness ==
  /\ WF_setupAll(OfContainer(StartZookeeper)) /\ WF_setupAll(OfContainer(Poller))
  /\ \A p \in Callers : WF_setupAll(OfContainer(TeardownStep(p)))
  /\ WF_setupAll(OfConn(Dial)) /\ WF_setupAll(OfConn(Dialled))
  /\ WF_setupAll(OfConn(Authenticate)) /\ WF_setupAll(OfConn(AnswerAuth))
  /\ WF_setupAll(ServerGone)
  /\ WF_setupAll(OfConn(zkConnect)) /\ WF_setupAll(OfConn(AddAuth))
  /\ WF_setupAll(OfConn(waitForSession)) /\ WF_setupAll(OfConn(Deadline))

SetupSpec == SetupInit /\ [][SetupNext]_setupAll /\ SetupFairness

-----------------------------------------------------------------------------
(* Properties. *)

\* The state is well typed.  NewStore returns a store only with a connection that got a
\* session, authenticated if the options ask for it (the channel tells of the session
\* late, so it may be lost again by now), and while no one closes it the connection stays
\* open: an illegal option leaves it open as well, but in the Connector, where the caller
\* can still close it.
SetupConsistent ==
  /\ ContainerTypeOK /\ ConnTypeOK /\ TypeOK
  /\ result # "building" =>
       /\ kind = "existing" \/ (hadSession /\ conn /\ (kind = "newAuth" => auth = "ok"))
       /\ ~Open => \E p \in Closers : close[p] = "ok"
=============================================================================
