---------------------------- MODULE ZKContainer ----------------------------
(***************************************************************************)
(* The ZooKeeper container of src/testutils: StartZookeeper, which removes *)
(* the container again if a later step fails, the goroutine with which it  *)
(* polls the server, and Teardown, which any number of callers may call.   *)
(* Docker and the server in the container are external.                    *)
(***************************************************************************)
EXTENDS Naturals

CONSTANT Callers   \* goroutines that call Teardown

VARIABLES
  setup,       \* the step that StartZookeeper takes next, or how it returned
  container,   \* "none", "created", "running" or "removed"
  serving,     \* the server in the container accepts connections
  poller,      \* the step that the polling goroutine takes next
  connected,   \* the channel connected is closed
  done,        \* the channel done is closed
  rmFailed,    \* history: Docker refused to remove the container
  once,        \* teardownOnce: "new", "running" or "done"
  teardown     \* teardown[p]: where p's Teardown is, or what it returned

setupVars     == <<setup, poller, connected, done>>
dockerVars    == <<container, serving, rmFailed>>
teardownVars  == <<once, teardown>>
containerVars == <<setupVars, dockerVars, teardownVars>>

ContainerTypeOK ==
  /\ setup \in {"image", "create", "start", "inspect", "wait", "error", "control"}
  /\ container \in {"none", "created", "running", "removed"}
  /\ serving \in BOOLEAN /\ (serving => container = "running")
  /\ poller \in {"none", "check", "dial", "stopped"}
  /\ connected \in BOOLEAN /\ done \in BOOLEAN /\ rmFailed \in BOOLEAN
  /\ once \in {"new", "running", "done"}
  /\ teardown \in [Callers -> {"idle", "called", "removing", "ok", "error"}]

ContainerInit ==
  /\ setup = "image" /\ container = "none" /\ serving = FALSE /\ poller = "none"
  /\ connected = FALSE /\ done = FALSE /\ rmFailed = FALSE
  /\ once = "new" /\ teardown = [p \in Callers |-> "idle"]

-----------------------------------------------------------------------------
(* StartZookeeper. *)

\* Docker is asked to remove the container, and may fail to.
removeContainer ==
  \/ container' = "removed" /\ serving' = FALSE /\ UNCHANGED rmFailed
  \/ rmFailed' = TRUE /\ UNCHANGED <<container, serving>>

\* A step of StartZookeeper succeeds and the next one follows.
Advance(from, to) == setup = from /\ setup' = to

\* imageExists, and ImagePull if it does not.  Each may fail; nothing is there to
\* clean up yet.
pullDockerImage ==
  /\ Advance("image", "create") \/ Advance("image", "error")
  /\ UNCHANGED <<poller, connected, done, dockerVars, teardownVars>>

ContainerCreate ==
  /\ \/ Advance("create", "start") /\ container' = "created"
     \/ Advance("create", "error") /\ UNCHANGED container
  /\ UNCHANGED <<poller, connected, done, serving, rmFailed, teardownVars>>

\* The error of the removal is ignored.
cleanup == setup' = "error" /\ removeContainer

ContainerStart ==
  /\ setup = "start"
  /\ \/ setup' = "inspect" /\ container' = "running" /\ UNCHANGED <<serving, rmFailed>>
     \/ cleanup
  /\ UNCHANGED <<poller, connected, done, teardownVars>>

\* The address is known, and the polling starts.
ContainerInspect ==
  /\ setup = "inspect"
  /\ \/ setup' = "wait" /\ poller' = "check" /\ UNCHANGED dockerVars
     \/ cleanup /\ UNCHANGED poller
  /\ UNCHANGED <<connected, done, teardownVars>>

\* The poller has got through; the deferred close of done ends StartZookeeper.
Connected ==
  /\ setup = "wait" /\ connected
  /\ setup' = "control" /\ done' = TRUE
  /\ UNCHANGED <<poller, connected, dockerVars, teardownVars>>

\* Mutant: done stays open after the time-out.
StartupTimeoutOnly ==
  /\ setup = "wait"
  /\ cleanup
  /\ UNCHANGED <<poller, connected, done, teardownVars>>

\* StartupTimeout is over; select may choose it although the poller got through.
StartupTimeout ==
  /\ setup = "wait"
  /\ cleanup
  /\ done' = TRUE
  /\ UNCHANGED <<poller, connected, teardownVars>>

\* The goroutine looks at done, and dials if it is open.
PollCheck ==
  /\ poller = "check"
  /\ poller' = IF done THEN "stopped" ELSE "dial"
  /\ UNCHANGED <<setup, connected, done, dockerVars, teardownVars>>

PollDial ==
  /\ poller = "dial"
  /\ IF serving THEN poller' = "stopped" /\ connected' = TRUE
                ELSE poller' = "check" /\ UNCHANGED connected
  /\ UNCHANGED <<setup, done, dockerVars, teardownVars>>

\* The server comes up, sooner or later or never.
Serve ==
  /\ container = "running" /\ ~serving
  /\ serving' = TRUE
  /\ UNCHANGED <<setupVars, container, rmFailed, teardownVars>>

-----------------------------------------------------------------------------
(* Teardown. *)

Teardown(p) ==
  /\ setup = "control" /\ teardown[p] = "idle"
  /\ teardown' = [teardown EXCEPT ![p] = "called"]
  /\ UNCHANGED <<setupVars, dockerVars, once>>

\* Mutant: the once is a flag that is set before the removal.
TeardownOnceFlag(p) ==
  /\ teardown[p] = "called"
  /\ IF once = "new" THEN once' = "done" /\ teardown' = [teardown EXCEPT ![p] = "removing"]
                     ELSE UNCHANGED once /\ teardown' = [teardown EXCEPT ![p] = "ok"]
  /\ UNCHANGED <<setupVars, dockerVars>>

\* teardownOnce.Do: the first caller removes the container, the others wait for it to
\* be done and return nil.
TeardownOnce(p) ==
  /\ teardown[p] = "called"
  /\ \/ /\ once = "new" /\ once' = "running"
        /\ teardown' = [teardown EXCEPT ![p] = "removing"]
     \/ /\ once = "done" /\ UNCHANGED once
        /\ teardown' = [teardown EXCEPT ![p] = "ok"]
  /\ UNCHANGED <<setupVars, dockerVars>>

TeardownRemove(p) ==
  /\ teardown[p] = "removing"
  /\ removeContainer
  /\ once' = "done"
  /\ teardown' = [teardown EXCEPT ![p] = IF container' = "removed" THEN "ok" ELSE "error"]
  /\ UNCHANGED setupVars

StartZookeeper ==
  \/ pullDockerImage \/ ContainerCreate \/ ContainerStart \/ ContainerInspect
  \/ Connected \/ StartupTimeout

Poller == PollCheck \/ PollDial

TeardownStep(p) == TeardownOnce(p) \/ TeardownRemove(p)

-----------------------------------------------------------------------------
(* Properties. *)

\* No container stays behind unnoticed.  A StartZookeeper that returns an error has
\* removed it, whichever step failed, unless Docker refused; a Teardown that returns nil
\* finds it removed, even while another call is at it, or some call got the error
\* ("Teardown destroys the ZK container").
NoContainerLeft ==
  /\ setup = "error" => container \in {"none", "removed"} \/ rmFailed
  /\ \A p \in Callers :
       teardown[p] = "ok" => container = "removed" \/ \E q \in Callers : teardown[q] = "error"

\* The polling goroutine ends, with StartZookeeper at the latest.
PollerStops == (setup \in {"control", "error"} /\ poller # "none") ~> (poller = "stopped")
=============================================================================
