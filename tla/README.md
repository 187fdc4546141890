# A TLA+ verification of dcos-go

dcos-go is a set of Go libraries for DC/OS components. This directory holds TLA+
models of the parts of it that have concurrency, shared state or a protocol with
another system, TLC configurations that check them on small instances, and TLAPS
proofs of their safety properties for instances of any size.

`PROJECT.json` lists the same material for tools: components, runs, mutants (plausible
slips in the code, each of which makes TLC report the property it is paired with), the
map from definitions to source lines, findings, hazards and theorems.

## The system

| part | source | what it does | module |
|---|---|---|---|
| elector | `elector/elector.go`, `event.go` | leader election with ephemeral sequential znodes; three goroutines per elector | `Elector`, `Election` |
| zkstore | `zkstore/store.go`, `ident.go` | items with variants and versions in ZooKeeper | `ZKStore`, `ZKPath` |
| zkstore configuration | `zkstore/options.go`, `hash.go`, `validate.go` | options, hashing of names to buckets, paths, refused names | `ZKStoreConfig`, `ZKPath` |
| connectors | `zkstore/connector*.go`, `elector/connector*.go` | open or reuse a zk connection | `Connector`; `Close` also in `Elector` |
| test utilities | `testutils/` | a ZooKeeper container for tests | `ZKContainer` |
| exec | `exec/exec.go` | runs a command with a context; streams its output or returns it with the exit code | `Exec` |
| transport, TLS and options | `dcos/http/transport/transport.go`, `option.go` | builds an `http.Transport` from files and options | `Transport` |
| transport, JWT | `dcos/http/transport/roundtripper.go` | round tripper that logs in again after a 401 | `RoundTripper` |
| nodeutil | `dcos/nodeutil/*.go` | IP, leadership, Mesos ID and cluster ID of a node, cached; canonical IDs of tasks | `NodeOptions`, `NodeInfo`, `TaskLookup` |
| store | `store/store.go` | a map behind an RWMutex | `MemStore`, `AtomicStore` |
| constants, examples | `dcos/*.go`, `dcos/**/cmd/example/` | | not modelled |

State, operations, what is hard, and what correctness means:

- **Elector.** State: the role and the leader's ident behind a mutex, `errch`,
  `shouldQuit`, `closing`, the lock node in ZooKeeper and a one-shot watch on its
  siblings. Operations: Start, Close, LeaderIdent, receiving from Events. Hard: three
  goroutines end each other; views are read in two requests and are stale when stored;
  sessions, answers and session events get lost; Close races everything. Correct: one
  leader, views that catch up, an event stream that alternates and ends with an error, an
  end after every fault and every Close.
- **zkstore.** State: znodes with data and versions, shared by all clients; none in the
  Store after its construction. Operations: Put, Get, Variants, Delete, List. Hard: each
  takes several requests between which other clients act; requests fail with or without
  effect. Correct: a version protects what was read, a conflict is real and harmless, what
  was deleted was gone, a list is plausible, items always have data.
- **zkstore configuration.** State: fields that depend on one another. Hard: the order of
  options. Correct: the last value given for each option counts, and every ident has a
  znode of its own, which is no bucket either.
- **Connectors, test container.** State: a zk connection whose loop dials on its own, its
  event channel of limited size, a `sync.Once`; a container and a goroutine that polls it.
  Hard: the event that says "session" may be dropped or be out of date, a step in the
  middle fails, Close and Teardown are called concurrently. Correct: success means a
  session, what was opened can be closed, a failed start leaves nothing behind.
- **exec.** State: two channels, a pipe, a process, a context. Operations: Run, Read,
  receiving from Done; FullOutput. Hard: context, exit and output race; children hold the
  pipe. Correct: no output is lost, every end is reported, a code is the command's code.
- **Transport.** State: the TLS configuration and the fields of the round tripper, filled
  option by option. Correct: the CA that was given is enforced, credentials are not mixed.
- **Round tripper.** State: a token behind a mutex. Operations: RoundTrip, GenerateToken,
  CurrentToken. Hard: concurrent refusals and logins, errors with the mutex held, lost
  answers. Correct: tokens get newer, a refusal is recovered from, nothing is done twice,
  every request returns.
- **nodeutil.** State: cached answers behind a mutex; tasks that move between lists while
  they are looked up. Operations: NewNodeInfo, DetectIP, IsLeader, MesosID, ClusterID,
  TaskCanonicalID. Hard: methods that call one another around a mutex that is not
  reentrant, answers that age. Correct: answers were right during the call, or when they
  were cached, a task is named only if it is the only one, every call returns.
- **store.** State: a map and an RWMutex. Hard: iterations under a read lock. Correct:
  every call is atomic, no one starves.

The libraries meet in three places. The elector and zkstore each talk to ZooKeeper, whose
relevant behaviour (sessions, ephemeral nodes, one-shot watches, versions, refusal to
delete a node with children) is part of their modules and is marked external in the map.
`NodeInfo.DetectIP` runs its script with `exec.Run` while it holds the mutex: `NodeInfo`
assumes that the script ends, `Exec` shows under which condition it does. And `testutils`
gives the tests of zkstore a server to connect to, which `StoreSetup` composes with the
connector and the store.

## Modules

### Elector and Election

`Elector` models any number of electors under one base path. Every call on the
connection, channel operation and critical section is a step.

| code | model |
|---|---|
| first goroutine of `start` (zk events) | `g1`, actions `ZKEvent`, `WatcherQuits` |
| second goroutine (election loop) | `g2`; one action per zk call: `InitializeExists`, `SegmentExists`, `SegmentCreate`, `CreateLock`, `GetChildren`, `GetIdent`; then `SendEvent`/`DropEvent`, `ChildEvent`, `ElectionQuits`; `CallFails` for every error return |
| rest of `start` | `main`, actions `SendErr`, `DropErr` |
| `errch`, `shouldQuit`, `closing`, `leaderIdent`, `isLeader`, `firstLeaderUpdate` | variables of the same names |
| `Events()` | `received`, what the client has received |
| `determineLeader` | `Lowest` (sequence numbers as integers of a bounded range, which wrap as ZooKeeper's int32 does) |
| ZooKeeper and the zk client | `live`, `seq`, `nextSeq`, `link`, `expired`, `watch`, `zkEvents`; actions `Disconnect`, `Reconnect`, `Expire`, `WatchArrives`, `CreateLockUnanswered`, `RecoverLock` |

An elector is one run of the library in one process; a process that restarts is a new
member of `Electors`. A blank ident, or a Connect that fails, leaves no elector and so no
step. `LossyEvents` is the set of electors whose zk client may drop session events.
`Election` is what the elector promises: members draw tickets, and one may begin to lead
only while it holds the lowest ticket and stops only when it is no longer a candidate.
`ImplementsElection` is the refinement (`next <- nextSeq`, `candidates <- live`, `acting
<- {e : isLeader[e]}`).

### ZKStore, ZKPath and ZKStoreConfig

`ZKStore` models clients that call Put, Get, Delete and List. Every ZooKeeper request is a
step (`PutExists`, `PutSet`, `CheckSegment`, `CreateSegment`, `MustExist`,
`DeleteVariants`, `DeleteVariant`, `DeleteNode`, `ListBuckets`, `ListBucket`, `Get`), and
any request may fail, before or after it took effect (`RequestFails`, and a branch of
`Get`). Clients remember the Ident that Get or Put returned (`held`) and may use its
version later, as the README of zkstore proposes. A znode carries, as history, the number
of its creation (`born`), so that properties can tell an item from its namesake created
later. `touched` and `saw` record what a call did and what was true during it.

`ZKPath` holds `identPath` and `bucketsPath`. `ZKStoreConfig` applies every sequence
of options, legal and illegal, to a new store and checks the result, the paths of all
idents that pass `validate.go`, and `HashProvider` (with the varint decoding it uses). A
name is its segments and the flaws that the validation looks for.

### Connector, ZKContainer and StoreSetup

`Connector`: `Connect` step by step (`zkConnect`, `AddAuth`, `waitForSession`,
`Deadline`), the loop of the zk client that it races (`Dial`, `Dialled`, `Authenticate`,
`Disconnect`, `AnswerAuth`; external), the event channel, which drops what does not fit
(and which nobody reads once Connect has returned), and `Close` under its `sync.Once` by
several goroutines. `ZKContainer`: each Docker request of `StartZookeeper`, with its
failure and clean-up, the polling goroutine and the channels between them, and `Teardown`
under its once. `StoreSetup` composes the two with `ZKStoreConfig` in the order of the
tests: container, Connect, options, Close, Teardown; the server the connector dials is the
container's, and a connection to a container that is gone breaks (`ServerGone`). With an
existing connection there is no container, and Connect only hands the connection on.

### MemStore and AtomicStore

`MemStore` has a step for every operation on the RWMutex and for every key of an
iteration. `AtomicStore` is the promise of "goroutine-safe": every call happens at one
moment. `GoroutineSafe` is the refinement (a call has happened when only its deferred
unlock is left).

### Exec

The goroutine that runs `cmd.Run`, the one that selects between the context and its
result, the copying goroutine of os/exec, the two pipes, the process, a child that keeps
its stdout open, and a client that reads, or stops reading. With `mode = "FullOutput"`
there are no goroutines of Run and the client is the buffer; `result` is what is returned.

### Transport and RoundTripper

`Transport` applies the options of `NewTransport` or of `NewRoundTripper` one by one and
configures TLS. `NewRoundTripper` skips a nil option; `NewTransport` calls it and panics
(`phase = "panicked"`). `RoundTripper` goes on from there: the first login,
then callers that share the token and the mutex. `Try`, `Lock`, `Login`/`LoginFails`,
`StoreToken`, `addAuthToken` and `Retry` are the steps of `RoundTrip` and
`GenerateToken`. Tokens are numbered in the order of issue (0 is the empty token); they
expire at any time, servers may refuse a request whatever its token, and answers get
lost. `handled` counts how often servers acted on a request.

### NodeOptions, NodeInfo, TaskLookup and NodeUtil

`NodeOptions`: `NewNodeInfo` with its options and roles. `NodeInfo`: callers share the
mutex and the cache of one `dcosInfo` while the leader and the node's Mesos ID change; a
master's ID is checked for being empty, an agent's is taken as it is, if the agent is
listed (`HasID`). `saw` records the answers that were right at some moment of a call,
`was` those that ever were. `TaskLookup`: `TaskCanonicalID` and `ContainerIDs` while tasks
are launched, get statuses, become unreachable and reachable again, complete with their
frameworks, and are dropped from the lists that Mesos bounds (external, after the state in
`nodeutil/fixture/state.json`); `Slices` has the two ways in which its lists come about.
`NodeUtil` puts them together; as they share no state that changes, a behaviour has one of
them move.

## Runs

Passing runs:

| run | instance | shows |
|---|---|---|
| `elector_safety` | 2 electors, missing base path, 2 faults, lossy session events, counter starts at 0 or at its maximum | `AtMostOneLeader`; `SettledViewIsCurrent` (no change of the children is missed between two reads); `ErrEventHasErr`, `ClosedAfterErr`, `EventsAlternate` (the event stream is well formed); `ImplementsElection` |
| `elector_live` | 2 electors and an existing base path; one may close at any moment and suffer a fault, whose events may be dropped; fairness | `FaultReported` (a session event that arrives ends the elector); `DeposedIsTold` (a leader that has lost its node is told, also if the event was dropped); `SomebodyLeads`, `CloseStopsElector`, `CloseReleasesLock`, if calls on a closed connection fail |
| `zkstore` | 2 clients; either 2 calls each of any kind but List on an item and its variant, with 1 failed request, or 3 calls each of Put, Delete and List on 2 items in 2 buckets | `WellFormed` (a tree in which exactly items and variants have data); `NoLostUpdate` (optimistic locking); `ConflictIsReal`; `DeletedWasGone`; `ListIsPlausible` |
| `store_setup` | both connectors, with and without authentication; 2 goroutines each that call Close and Teardown; every sequence of up to 4 options on an existing connection, of 1 legal one on a new connection | `LastOptionWins`, `IdentsHaveOwnZnodes`; `NoContainerLeft`, `PollerStops`; `CloseEnsuresClosed`, `ConnectReturns`; `SetupConsistent` (a store has a session on a connection that stays open) |
| `memstore` | 3 goroutines that call without end, 2 keys | `GoroutineSafe` (refinement of `AtomicStore`), `CallsReturn` |
| `exec` | 4 chunks of output, a pipe of 2, forks, a client that may stop reading; Run and FullOutput | `OutputBeforeStatus`, `CodeIsReal`, `CancelIsReported`, `ExitIsReported` |
| `transport` | every list of up to 3 options for either constructor; one transport with 2 callers and 3 requests | `CAEnforced`, `OneIdentity`; `TokenNeverGoesBack`, `RefreshRecovers`, `HandledOnce`, `RoundTripReturns` |
| `nodeinfo` | every list of up to 3 options; 2 callers, 2 calls each, master or agent, with and without cache, 1 change of the cluster; 2 tasks in 2 frameworks, 2 statuses, 1 task that becomes unreachable, 2 lookups | `NeverUnusable`; `AnswerWasCurrent`, `CallReturns`; `CanonicalTask`, `TaskNeverLost` |

The types of `ZKStore` are part of `WellFormed`, those of `StoreSetup` and its parts of
`SetupConsistent`; for `Elector` and `Exec` type correctness is proved instead of run.

Runs that show where the code departs from what the repository says of it (each is a
finding with the quotation in `PROJECT.json`):

| run | shows |
|---|---|
| `elector_initrace` | electors that initialize together: the slower one dies of `ErrNodeExists` |
| `elector_hang` | an elector that waits on its watch is closed: the last child event makes it call `ChildrenW`, which the vendored zk client never answers after Close, and the elector never ends |
| `zkstore_put` | two Puts with `NoPriorVersion` both succeed and one of them has stored nothing |
| `exec_fork` | a child that outlives the killed command keeps the reader blocked |

Further places where the models behave as the code does and a reader of the docs may not
expect it, which shaped how the properties are stated:

- `LeaderIdent` keeps its value after the error event; `Close` on an existing connection
  leaves the goroutines and the lock node as they are.
- `setFully` reads the version after its Create, so Put can return another client's
  version (`NoLostUpdate` is about versions that Get returned); versions start again when
  an item is created anew (`NoLostUpdate` is about one incarnation of the item);
  `deleteItem` deletes the variants before the version is checked (`ConflictIsReal` is
  about the item's own znode).
- `exec.Run` may report a command killed by its context with the status of the kill, and
  one that exited by itself as timed out, because its select has both cases ready.
- `IsLeader` stays true from the cache after leadership has moved, and `MesosID` keeps an
  old ID (`AnswerWasCurrent` says of a cached answer only that it was right once). An
  agent with an empty ID in Mesos' state gets it as its answer; only a master's is
  checked.
- `findTask` does not read `unreachable_tasks`, and Mesos forgets old completed tasks, so
  that a launched task may be in neither lookup (`TaskNeverLost` excepts these); and a
  text that is part of a single ID names that task, whatever its name (`CanonicalTask` is
  about several tasks that match).
- `bucketsPath` refuses a category that ends with the name of the buckets znode, not one
  that has it inside: `a/buckets/0/n` is a legal category and the znode of item `n` of
  category `a` in bucket 0. `IdentsHaveOwnZnodes` keeps idents apart from one another
  without restriction, and from the buckets of categories without that name in them.
- If `AddAuth` fails, `Connect` returns without setting `c.conn`: the zk client goes on
  dialling, nobody can close it, and `Close` of that connector panics
  (`CloseEnsuresClosed` is about a Connect that succeeded or timed out). An illegal option
  leaves the connection of `NewStore` open, but in the connector, where the caller can
  close it (`SetupConsistent`).
- The callers of `Teardown` after the first get nil even if the first got an error
  (`NoContainerLeft` says that somebody got it).
- `GetByRegex` notices a bad expression only if the store has a key to try it on, and
  `ContainerIDs` repeats a container for every status of the task (`CanonicalTask` is
  about the beginning of the list).
- Without `OptionTokenExpire` a login is good for 5 days; the comment of the option says
  24h.

### Bounds

Two electors suffice for every race between a leader and its successor, and the proofs
cover any number. A fault ends an elector for good, so two faults cover each elector
failing at any pair of moments, or one losing first its connection and then its session.
`elector_live` lets the same elector close and fail, with the base path in place; both
electors doing both, or the race to set up the base path, is beyond what liveness checking
can explore (`elector_safety` and `elector_initrace` have the latter). No elector is closed
in `elector_safety`: that `ClosedAfterErr` and `EventsAlternate` hold then too is shown by
the proofs. Two clients with two calls each reach every pair of
interleaved requests, including a delete and a create between two requests of another
call. Every Put stores a datum of its own, so that a lost or mixed up write is visible.
One change of the cluster suffices for an answer to be outdated, since the node may be
registered from the start. One lost connection while Connect waits covers a session that
is gone when its event is read; with one server every second dial is a full round, after
which queued requests fail. Options do not depend on the connector, so the long sequences
are those on an existing connection; on a new one a legal option, or an illegal one that
makes NewStore fail, is enough to race Close and the loss of the server
(`MaxNewOptions`). Up to three options reach a value that is overwritten and one
that fails between two others. Two tasks, the name of one part of the other's ID, make a
lookup ambiguous; each may complete, with its framework, or be dropped between two lookups,
and one may stray (`MaxStrayed`), which leaves the other to compare with; two statuses
(`MaxStatuses`) give a task one with and one without a container. Questions
that do not interact (the workloads of `zkstore`, the mixes of `memstore`, the programs
of `transport`, the parts of `nodeinfo`, the kinds of connector) are chosen in the
initial state, so that one run answers them without multiplying their states. Symmetry
is used for electors and clients where no liveness is checked. Deadlock is not checked:
the systems stop when all calls are made or all electors have ended, and goroutines need
not call the in-memory store again; a call that waits for ever, alone or with all others,
violates `CallsReturn`, `CallReturns`, `RoundTripReturns` and their like.

### Fairness

In `Elector`, `Exec` and `StoreSetup` weak fairness is assumed of goroutines, of timeouts,
of the answers and notifications of ZooKeeper on a connection that is up, of the
reconnection and expiry that the zk client and ZooKeeper perform by timeouts, of clients
that receive from `Events()` until they call Close, and of clients that call Close after
an error event (as the README of elector asks). `SetupFairness` names the steps as
`SetupNext` takes them, so that with an existing connection nothing is demanded of a
container that there is not. `RoundTripper` and `NodeInfo` assume strong fairness of a
caller's steps, because `sync.Mutex` hands over to a waiter that has waited too long, and
`MemStore` of `Lock` for the same reason (its readers need no more than weak fairness,
because a writer that unlocks lets the waiting readers in). In `Exec` the command, its
children and the context are not fair: they may go on for ever. Nothing is assumed of
faults.

## Proofs

Every invariant, every action property and both refinements that the passing runs check
are also proved, for every value of the constants: any sets of electors, clients, callers,
closers and goroutines, any paths, names and hash functions, any number of options, calls,
requests, faults and changes, any amount of output and any size of the pipe.

| module | theorem | statement |
|---|---|---|
| `ElectorProofs` | `TypeCorrect` | `Spec => []TypeOK` |
| | `ErrorEventCarriesError` | `Spec => []ErrEventHasErr` |
| | `ClosedOnlyAfterErr` | `Spec => []ClosedAfterErr` |
| | `LeaderEventsAlternate` | `Spec => []EventsAlternate` |
| | `SingleLeader` | `Spec => []AtMostOneLeader` |
| | `SettledViewsAreCurrent` | `Spec => []SettledViewIsCurrent` |
| | `ElectorImplementsElection` | `Spec => ImplementsElection` |
| | `GoroutinesQuitTogether` | `Spec => []QuitTogether` |
| `ZKStoreProofs` | `StoreIsWellFormed` | `Spec => []WellFormed` |
| | `ConflictsAreReal` | `Spec => []ConflictIsReal` |
| | `DeletedItemsWereGone` | `Spec => []DeletedWasGone` |
| | `ListsArePlausible` | `Spec => []ListIsPlausible` |
| | `NoUpdateIsLost` | `Spec => NoLostUpdate` |
| `StoreSetupProofs` | `ContainersAccountedFor` | `SetupSpec => []NoContainerLeft` |
| | `ClosesEnsureClosed` | `SetupSpec => []CloseEnsuresClosed` |
| | `OptionsTakeEffect` | `SetupSpec => []LastOptionWins` |
| | `StoresAreConnected` | `SetupSpec => []SetupConsistent` |
| | `ZnodesAreOwn` | `SetupSpec => []IdentsHaveOwnZnodes` |
| | `WaitsAreForWork` | `SetupSpec => []NobodyWaitsInVain` |
| `RoundTripperProofs` | `TokensGetNewer` | `Spec => TokenNeverGoesBack` |
| | `RetriesRecover` | `Spec => []RefreshRecovers` |
| | `RequestsHandledOnce` | `Spec => []HandledOnce` |
| | `CertificatesEnforced` | `Spec => []CAEnforced` |
| | `IdentityIsOne` | `Spec => []OneIdentity` |
| | `MutexIsGivenBack` | `Spec => []MutexInUse` |
| `MemStoreProofs` | `MemStoreIsAtomic` | `Spec => GoroutineSafe` |
| | `NoGoroutineIsStuck` | `Spec => []NobodyIsStuck` |
| `ExecProofs` | `NoOutputLost` | `Spec => []OutputBeforeStatus` |
| | `ExitCodesAreReal` | `Spec => []CodeIsReal` |
| | `ExecTypeCorrect` | `Spec => []TypeOK` |
| `NodeUtilProofs` | `AnswersWereCurrent` | `UtilSpec => []AnswerWasCurrent` |
| | `NodeInfosAreUsable` | `UtilSpec => []NeverUnusable` |
| | `TasksAreCanonical` | `UtilSpec => []CanonicalTask` |
| | `TasksAreNeverLost` | `UtilSpec => []TaskNeverLost` |
| | `NodeMutexIsGivenBack` | `UtilSpec => []MutexInUse` |

`SequenceFacts` holds the lemmas about slices that `NodeUtilProofs` needs.

The predicates of `GoroutinesQuitTogether`, `WaitsAreForWork`, `MutexIsGivenBack`,
`NoGoroutineIsStuck` and `NodeMutexIsGivenBack` are defined beside their proofs. They are
the safety halves of liveness properties: what a goroutine or a caller may be waiting for
is always being worked on by another one that does not wait, and whoever has to stop has
been told so. The runs show on small instances that the waiting then ends.

### Assumptions

Each module names what it assumes of its constants, and TLC evaluates it on every run.
Most of it types the constants, or says that a value which stands for "none" (`NoIdent`,
`NoCaller`, `Nil`, `NoVariant`, `NoNode`, `NoData`, `NoHeld`, `NilHasher`) is none of the
real ones. The rest is:

- `ZKStoreAssumption`: the path of the buckets is not empty and every name has a bucket.
- `ConfigAssumption`: a name that passes `validNameRE` is one path segment and an empty
  one none (what `path.Join` does); digests are sequences of bytes. Nothing is assumed of
  the hash functions.
- `MemStoreAssumption`: what a call of Supplant passes is a map.
- `TransportAssumption`: a program gives its constructor options of that constructor's
  type.
- `NodeOptionsAssumption`: files are not named by the empty text, which stands for an
  option not given.
- `TaskAssumption`: there are finitely many tasks, and each has a container with an ID.

### Inductive invariants

*Elector, leadership.* `AtMostOneLeader` is not inductive: it says nothing about an
elector that has read the children and not yet stored its role. `LeaderInv` adds what that
elector knows. `BeforeInv`: an elector that has not created its lock node is no candidate
and no leader. And while the counter has not wrapped: `OrderInv`, lock nodes have distinct
numbers below the next one; `ReadInv`, the node that was the lowest when the children
were read is the lowest for as long as it exists (nodes only disappear, and new ones are
higher), so the Get that follows either fails or finds the present leader; `DecidedInv`,
a candidate that leads has the lowest node, and one whose client was told so leads. The
lemma `StepKinds` first reduces the two dozen actions to the six things that a step can
do to leadership (`Moves`, `Leaves`, `Joins`, `Reads`, `Decides`, `Tells`); the
induction and the refinement are proved over those six.

*Elector, views.* `ViewInv`: while the watch is armed and unfired, the node found by the
last read, and then the ident and the role stored, are those of the lowest node now. The
watch is set by the same request that reads the children, so no step changes the children
without firing it.

*Elector, events.* `QuitInv`: whoever closes `shouldQuit` first has put an error into
`errch` before, and the `nil` of the election goroutine comes only after `shouldQuit`.
Hence `errch` holds an error when `start` reads it. `AltInv`: before Close the client was
last told the stored role, except before the first update and while the event for a
changed role is due; that is why the next event differs from the last.

*ZKStore.* `ZKInv` has a part for the tree and one for every call under way. `TreeInv`:
every znode but the topmost has a parent, and exactly those of items and variants have
data. `HeldOf`: what Get returned is what the znode holds, unless it is another znode by
now or has a later version; versions only grow within one life of a znode. `ConflictOf`: a
call has changed nothing at its target before its version is checked, and a conflict
means a version gone for good. `GoneOf` and `ListOf` relate what a call has seen so far to
the history of the store during the call: an item that was there throughout is found or in
a bucket still to be read. The lemmas before it are about paths: the depth of a path tells
buckets, items and variants apart, and siblings differ. `NoUpdateIsLost` is an action
property; `HeldOf` before the step gives that Set replaces what Get returned.

*StoreSetup.* `ContainerInv`: whoever runs `teardownOnce` is alone, and when it is done
the container is gone or somebody got the error. `ConnInv`: a new connection is `c.conn`
from the moment Connect waits for its session and open until `onceDo` has closed it; the
events in the channel are of sessions that there were; an existing connection is left
alone. `ConfigInv`: the fields `hashBuckets` and `hashProviderFunc` have the values wanted
last, so that whichever option comes next makes `bucketFunc` from both. For
`ZnodesAreOwn`, `HashNeverOverflows` follows Uvarint over the at most eight bytes that
`HashProvider` passes to it, too few for the overflow that it would report in the tenth,
and `PathsTell` shows that a path determines category, name and variant: a name is one
segment, a variant at most one, and a category one segment longer than another would end
with the buckets znode, which `bucketsPath` refuses. `AboveNoBucket` shows that the znode
of an item is not on the way to a bucket of a category without the buckets name: the item's
own buckets znode would be a segment of that category. The property speaks of the category's
segments, because a leading slash leaves no trace in a path.

*RoundTripper.* `LoginInv`: nobody calls a round tripper that is not built, whoever is
between login and store holds the mutex, and the answer it is about to store is empty or
the token issued last. So the token stored is at least as new as the one it replaces.
`FreshInv`: after a login that nothing has disturbed, the token stored when the caller
sets its header is accepted, and so is the one of anybody who might still replace it.
`OnceInv`: what is not answered has not been acted on. `BuildInv`: after the first k
options the structs hold what the last of them that matters says; for `NewTransport` it
also follows the single option with which it calls `NewRoundTripper`.

*MemStore.* `LockInv`: who holds the RWMutex in which mode, and a writer inside is alone.
`IterInv`: the map that an iteration builds is the part of the store's present contents
that it has come to, since no writer gets in before it ends. With these every step of
`MemStore` maps to a step of `AtomicStore` or to a stutter: a call happens in its last
step before the unlock.

*Exec.* `FlowInv`: every chunk written is in the operating system's pipe, on offer to
the reader, or read. `EndInv`: once the copying goroutine has ended, no process and no
child can write, and nothing is under way. `ResultInv`: a status, the closing of the pipe
and a result come only after that, or if the command never started, and a code without an
error names the exit of the process. Together they give `read = written` whenever an end
is reported. The type of `read` needs `FlowInv` too: nothing else bounds what is read.

*NodeUtil.* `NodeInv`: the right answer of every moment of a call is among those the call
`saw`, and an ID on its way into the cache was right when it was fetched. `CacheInv`: what
is cached was right once. `InfoInv`: the fields are usable from the start and no option
spoils one. `TaskInv`: a completed task stays so or is dropped, a completed framework has
no running tasks, and a task that was missed among the running ones is completed, dropped
or has been unreachable. What `TaskCanonicalID` answers is a search through
lists of lists; `PicksAppended` lifts "none, or exactly one and which" from the parts to
the whole.

*Waiting.* Small invariants beside the ones above. `QuitInv` also says that neither
goroutine of an elector has ended with `shouldQuit` open. `MutexInUse`, in each of its two
modules, says at which points of which calls the mutex is held. `WakeInv`: while a reader
of the in-memory store is kept out there is a writer, which lets it in when it unlocks.
`PollInv`: the polling begins only when `StartZookeeper` waits for it, after which both
of its ways out close `done`.

*SequenceFacts.* What `Appended` (slices appended one after the other) and `Listed` (a
finite set as a list) return for every input. tlapm has no induction rule it could apply
here, so these lemmas take the smallest index at which the claim would fail (`Smallest`,
from the well-foundedness of `<` on the naturals) and derive a contradiction from the
index before it. For the same reason these operators are defined in `Slices`, by a
recursive function and by CHOOSE, and not taken from the community modules.

### What is only model-checked

- Liveness: `FaultReported`, `DeposedIsTold`, `SomebodyLeads`, `CloseStopsElector`,
  `CloseReleasesLock`, `PollerStops`, `ConnectReturns`, `CallsReturn`, `CancelIsReported`,
  `ExitIsReported`, `RoundTripReturns`, `CallReturns`. They rest on fairness, and so on
  ENABLED, which the prover does not support.
- The counterexamples of the violation runs, which are single behaviours.

## Not modelled

- Request and response bodies. `RoundTrip` sends the same `http.Request` again after a
  401; whether its body can be read twice is listed as a hazard. The body of the first 401
  is not closed either. The models follow status, token and errors only.
- JSON, JWT signing, the regular expression of `validate.go` and that of `GetByRegex`, and
  the parsing of sequence numbers: success, failure, a set of matching keys, or the order
  of the numbers stands for them.
- The headers that nodeutil takes from a context (two calls with one context share the
  map); the `-File` argument that `exec.go` inserts for PowerShell scripts; `Command` and
  `CommandContext`, which only build a `Cmd`.
- The elector is not started through `Connector`; its `Close` is modelled in `Elector`.
- `dcos/*.go` holds constants, and the examples call the libraries once and print.

## Plan

Done: every library of the repository has a model, and every safety property that a run
checks has a proof.

Next:

1. A retry loop over zkstore as its README proposes (read, Put with the version, again on
   a conflict), with the promise that no increment is lost, and an abstract versioned
   register that `ZKStore` without deletes implements.
2. The elector started through `Connector`, and `NodeInfo` composed with `Exec`.
3. Request bodies of the round tripper.
