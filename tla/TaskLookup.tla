----------------------------- MODULE TaskLookup -----------------------------
(***************************************************************************)
(* TaskCanonicalID of src/dcos/nodeutil/util.go and ContainerIDs of        *)
(* mesos.go: a client looks tasks up in Mesos' state while the tasks are   *)
(* launched, get statuses, become unreachable, complete and are dropped,   *)
(* and their frameworks complete.                                          *)
(*                                                                         *)
(* A task is a record: id, name, texts (what a caller may ask for that is  *)
(* part of the id), framework, and container, the sequence of its          *)
(* container's ID and the IDs of the parents.                              *)
(***************************************************************************)
EXTENDS Slices

CONSTANTS
  Tasks,
  Texts,        \* what callers ask for
  MaxStatuses,  \* bound on the statuses of all tasks
  MaxStrayed,   \* bound on the number of tasks that become unreachable
  MaxLookups    \* bound on the number of lookups

\* A container has an ID.
ASSUME TaskAssumption ==
  /\ IsFiniteSet(Tasks)
  /\ \A t \in Tasks : /\ t.container \in Seq(STRING)
                      /\ Len(t.container) > 0 /\ t.container[1] # ""

VARIABLES
  list,       \* list[t]: the list of t's framework that holds t, "none" before t is
              \* launched, "dropped" when Mesos has forgotten it
  strayed,    \* history: the tasks that have been unreachable
  statuses,   \* statuses[t]: the containers in t's statuses, <<"">> if one has none
  ended,      \* the frameworks in completed_frameworks
  lookup,     \* the arguments of the lookup, whether it is running, and the tasks that
              \* match and had been launched when it began
  found,      \* its result: err, and the id and the containers of the task without one
  matching,   \* history: the tasks that it was to choose from
  missed,     \* history: tasks that were launched but not found running
  lookups     \* number of lookups begun

mesosVars  == <<list, strayed, statuses, ended>>
clientVars == <<lookup, found, matching, missed, lookups>>
taskVars   == <<mesosVars, clientVars>>

Frameworks == {t.framework : t \in Tasks}

NoResult == [err |-> "none"]

TaskInit ==
  /\ list = [t \in Tasks |-> "none"]
  /\ statuses = [t \in Tasks |-> <<>>]
  /\ strayed = {}
  /\ ended = {}
  /\ lookup = [task |-> "", completed |-> FALSE, launched |-> {}, running |-> FALSE]
  /\ found = NoResult
  /\ matching = {}
  /\ missed = {}
  /\ lookups = 0

-----------------------------------------------------------------------------
(* Mesos (external). *)

Move(t, l) == list' = [list EXCEPT ![t] = l] /\ UNCHANGED <<statuses, ended, clientVars>>

Launch(t) ==
  /\ list[t] = "none" /\ t.framework \notin ended
  /\ Move(t, "tasks")
  /\ UNCHANGED strayed

\* A status names the task's container, or none yet.
Update(t) ==
  /\ list[t] = "tasks"
  /\ Cardinality(UNION {{u} \X DOMAIN statuses[u] : u \in Tasks}) < MaxStatuses
  /\ \E c \in {t.container, <<"">>} : statuses' = [statuses EXCEPT ![t] = Append(@, c)]
  /\ UNCHANGED <<list, strayed, ended, clientVars>>

\* The task's agent is partitioned away, and may come back.
Unreachable(t) ==
  /\ list[t] = "tasks" /\ Cardinality(strayed) < MaxStrayed
  /\ Move(t, "unreachable_tasks")
  /\ strayed' = strayed \cup {t}

Reachable(t) ==
  /\ list[t] = "unreachable_tasks" /\ t.framework \notin ended
  /\ Move(t, "tasks")
  /\ UNCHANGED strayed

Complete(t) ==
  /\ list[t] \in {"tasks", "unreachable_tasks"}
  /\ Move(t, "completed_tasks")
  /\ UNCHANGED strayed

\* Mesos keeps so many tasks of a framework that are not running, and so many completed
\* frameworks; older ones it forgets.
Drop(t) ==
  /\ list[t] \in {"completed_tasks", "unreachable_tasks"}
  /\ Move(t, "dropped")
  /\ UNCHANGED strayed

\* A framework completes together with its running tasks.
CompleteFramework(f) ==
  /\ f \notin ended
  /\ ended' = ended \cup {f}
  /\ list' = [t \in Tasks |-> IF t.framework = f /\ list[t] = "tasks" THEN "completed_tasks"
                                                                   ELSE list[t]]
  /\ UNCHANGED <<strayed, statuses, clientVars>>

\* Mesos' answer to the request for its state.
Entry(t) == [id |-> t.id, name |-> t.name, texts |-> t.texts, statuses |-> statuses[t]]

Entries(S) == LET ts == Listed(S) IN [i \in DOMAIN ts |-> Entry(ts[i])]

Framework(f) ==
  LET In(l) == Entries({t \in Tasks : t.framework = f /\ list[t] = l})
  IN  [tasks |-> In("tasks"), completed_tasks |-> In("completed_tasks"),
       unreachable_tasks |-> In("unreachable_tasks")]

State ==
  LET Of(S) == LET fs == Listed(S) IN [i \in DOMAIN fs |-> Framework(fs[i])]
  IN  [frameworks |-> Of(Frameworks \ ended), completed_frameworks |-> Of(ended)]

-----------------------------------------------------------------------------
(* TaskCanonicalID. *)

Matches(t, task) == t.name = task \/ task \in t.texts

\* The tasks that match, in the order of the list.
Matching(ts, task) ==
  Appended([i \in DOMAIN ts |-> IF Matches(ts[i], task) THEN <<ts[i]>> ELSE <<>>])

\* findTask does not read unreachable_tasks.
findTask(task, completed, frameworks) ==
  Appended([i \in DOMAIN frameworks |->
    Matching(IF completed THEN frameworks[i].completed_tasks ELSE frameworks[i].tasks, task)])

\* For each status its container and the parents; empty is ErrContainerIDNotFound.
ContainerIDs(t) ==
  IF \E i \in DOMAIN t.statuses : t.statuses[i][1] = "" THEN <<>> ELSE Appended(t.statuses)

\* Mutant: only the frameworks that are still there are searched.
FoundTasksActive(state, task, completed) == findTask(task, completed, state.frameworks)

FoundTasks(state, task, completed) ==
  findTask(task, completed, state.frameworks)
    \o (IF completed THEN findTask(task, completed, state.completed_frameworks) ELSE <<>>)

\* Mutant: the first of several tasks is taken.
ChooseFirst(tasks) ==
  CASE tasks = <<>>                   -> [err |-> "ErrTaskNotFound"]
    [] OTHER -> [err |-> "nil", id |-> tasks[1].id, containers |-> ContainerIDs(tasks[1])]

\* One task must be left, and it must have a container.
Choose(tasks) ==
  CASE tasks = <<>>   -> [err |-> "ErrTaskNotFound"]
    [] Len(tasks) > 1 -> [err |-> "more than 1"]
    [] Len(tasks) = 1 /\ ContainerIDs(tasks[1]) = <<>> -> [err |-> "ErrContainerIDNotFound"]
    [] OTHER -> [err |-> "nil", id |-> tasks[1].id, containers |-> ContainerIDs(tasks[1])]

BeginLookup(task, completed) ==
  /\ ~lookup.running /\ lookups < MaxLookups
  /\ lookups' = lookups + 1
  /\ lookup' = [task |-> task, completed |-> completed, running |-> TRUE,
                launched |-> {t \in Tasks : Matches(t, task) /\ list[t] # "none"}]
  /\ found' = NoResult
  /\ matching' = {}
  /\ UNCHANGED <<mesosVars, missed>>

\* The request fails, or its answer is searched.
TaskCanonicalID ==
  /\ lookup.running
  /\ lookup' = [lookup EXCEPT !.running = FALSE, !.launched = {}]
  /\ found' \in {[err |-> "http"], Choose(FoundTasks(State, lookup.task, lookup.completed))}
  /\ matching' = {t \in Tasks : /\ Matches(t, lookup.task)
                                /\ list[t] = IF lookup.completed THEN "completed_tasks" ELSE "tasks"}
  /\ missed' = IF found'.err = "ErrTaskNotFound" /\ ~lookup.completed
               THEN missed \cup lookup.launched ELSE missed
  /\ UNCHANGED <<mesosVars, lookups>>

TaskNext ==
  \/ \E t \in Tasks : \/ Launch(t) \/ Update(t) \/ Unreachable(t) \/ Reachable(t)
                      \/ Complete(t) \/ Drop(t)
  \/ \E f \in Frameworks : CompleteFramework(f)
  \/ \E task \in Texts, completed \in BOOLEAN : BeginLookup(task, completed)
  \/ TaskCanonicalID

-----------------------------------------------------------------------------
(* Properties. *)

\* TaskCanonicalID names a task only if no other task matches, finds nothing only if
\* none does, and lists the task's container first, then its parents.
CanonicalTask ==
  /\ found.err = "nil" => \E t \in Tasks : /\ matching = {t} /\ found.id = t.id
                                           /\ StartsWith(found.containers, t.container)
  /\ found.err = "ErrTaskNotFound" => matching = {}

\* A task moves from one list to another, and its framework too, but is not lost on the
\* way: a client that looks for a launched task among the running ones, does not find
\* it, and then looks among the completed ones, finds it there, unless Mesos has dropped
\* it or the task has been unreachable (neither lookup reads unreachable_tasks).
TaskNeverLost ==
  ~lookup.running /\ lookup.completed /\ found.err = "ErrTaskNotFound" =>
    \A t \in missed : Matches(t, lookup.task) => list[t] = "dropped" \/ t \in strayed
=============================================================================
