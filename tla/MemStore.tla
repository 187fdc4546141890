------------------------------ MODULE MemStore -----------------------------
(***************************************************************************)
(* The in-memory key-value store of src/store/store.go.  Goroutines call   *)
(* it under its RWMutex; iterations over the map take one key a step, so   *)
(* that whatever the mutex lets in happens between two keys.               *)
(***************************************************************************)
EXTENDS Functions, FiniteSets

CONSTANTS
  Goroutines, Initial, Nil,   \* as in AtomicStore
  Mixes                       \* the sets of calls of which one is made at a time

\* A Go map, as a function on its keys.
IsMap(f) == f = [k \in DOMAIN f |-> f[k]]

ASSUME MemStoreAssumption ==
  /\ Nil \notin Goroutines
  /\ \A f \in Initial : IsMap(f)
  /\ \A calls \in Mixes : \A c \in calls : c.op = "Supplant" => IsMap(c.map)

VARIABLES
  mix,       \* the one of Mixes that this behaviour is about
  objects,   \* s.objects
  writer,    \* the goroutine that holds the mutex for writing, or waits for the
             \* readers to leave it, or Nil
  readers,   \* the goroutines that hold the mutex for reading
  pc,        \* pc[g]: the step that g takes next, or "idle"
  call,      \* call[g]: the call that g makes
  m,         \* m[g]: the map that g's iteration has built
  todo,      \* todo[g]: the keys that it has not come to yet
  ret        \* ret[g]: what g's call is going to return

Calls == UNION Mixes

lockVars == <<writer, readers>>
vars     == <<mix, objects, lockVars, pc, call, m, todo, ret>>

\* Mutant: Supplant takes the mutex for reading.
WritingLess(c) == c.op \in {"Delete", "Purge", "Set"}

\* The calls that take the mutex for writing.
Writing(c) == c.op \in {"Delete", "Purge", "Set", "Supplant"}

Empty == <<>>

Put(f, k, v) == [x \in DOMAIN f \cup {k} |-> IF x = k THEN v ELSE f[x]]

Init ==
  /\ mix \in Mixes
  /\ objects \in Initial
  /\ writer = Nil /\ readers = {}
  /\ pc = [g \in Goroutines |-> "idle"]
  /\ call = [g \in Goroutines |-> Nil]
  /\ m = [g \in Goroutines |-> Empty]
  /\ todo = [g \in Goroutines |-> {}]
  /\ ret = [g \in Goroutines |-> Nil]

Goto(g, point) == pc' = [pc EXCEPT ![g] = point]

Begin(g) ==
  /\ pc[g] = "idle"
  /\ \E c \in mix : call' = [call EXCEPT ![g] = c]
  /\ Goto(g, "call")
  /\ UNCHANGED <<objects, lockVars, m, todo, ret>>

-----------------------------------------------------------------------------
(* sync.RWMutex (external). *)

\* A reader gets in unless there is a writer, holding or waiting.
RLock(g) ==
  /\ pc[g] = "call" /\ ~Writing(call[g])
  /\ IF writer = Nil THEN readers' = readers \cup {g} /\ Goto(g, "body")
                     ELSE Goto(g, "blocked") /\ UNCHANGED readers
  /\ UNCHANGED <<objects, writer, call, m, todo, ret>>

\* A writer keeps later readers out and waits for the earlier ones.
Lock(g) ==
  /\ pc[g] = "call" /\ Writing(call[g])
  /\ writer = Nil
  /\ writer' = g
  /\ Goto(g, "drain")
  /\ UNCHANGED <<objects, readers, call, m, todo, ret>>

Drain(g) ==
  /\ pc[g] = "drain" /\ readers = {}
  /\ Goto(g, "body")
  /\ UNCHANGED <<objects, lockVars, call, m, todo, ret>>

\* What g leaves behind when its call is over.
Finish(g) ==
  /\ call' = [call EXCEPT ![g] = Nil]
  /\ m' = [m EXCEPT ![g] = Empty]
  /\ todo' = [todo EXCEPT ![g] = {}]
  /\ ret' = [ret EXCEPT ![g] = Nil]
  /\ UNCHANGED objects

RUnlock(g) ==
  /\ pc[g] = "unlock" /\ g \in readers
  /\ readers' = readers \ {g}
  /\ Goto(g, "idle")
  /\ Finish(g)
  /\ UNCHANGED writer

\* The readers that a writer kept out go in when it unlocks.
Unlock(g) ==
  /\ pc[g] = "unlock" /\ g = writer
  /\ LET blocked == {r \in Goroutines : pc[r] = "blocked"}
     IN  /\ writer' = Nil
         /\ readers' = readers \cup blocked
         /\ pc' = [r \in Goroutines |-> IF r = g THEN "idle"
                                        ELSE IF r \in blocked THEN "body" ELSE pc[r]]
  /\ Finish(g)

-----------------------------------------------------------------------------
(* The calls, with the mutex held. *)

\* g's call of op is over but for the deferred unlocking.
Return(g, op, at, contents, result) ==
  /\ pc[g] = at /\ call[g].op = op
  /\ Goto(g, "unlock")
  /\ objects' = contents
  /\ ret' = [ret EXCEPT ![g] = result]
  /\ UNCHANGED <<lockVars, call, m, todo>>

Delete(g) == Return(g, "Delete", "body", Restrict(objects, DOMAIN objects \ {call[g].key}), Nil)

Set(g) == Return(g, "Set", "body", Put(objects, call[g].key, call[g].val), Nil)

Purge(g) == Return(g, "Purge", "body", Empty, Nil)

Get(g) == LET key == call[g].key
          IN  Return(g, "Get", "body", objects, IF key \in DOMAIN objects THEN objects[key] ELSE Nil)

Size(g) == Return(g, "Size", "body", objects, Cardinality(DOMAIN objects))

\* The map that GetByRegex, Objects and Supplant iterate over.
Source(g) == IF call[g].op = "Supplant" THEN call[g].map ELSE objects

\* They make a new map; Objects returns nil instead if the store is empty.
Iterate(g) ==
  /\ pc[g] = "body" /\ call[g].op \in {"GetByRegex", "Objects", "Supplant"}
  /\ call[g].op = "Objects" => objects # Empty
  /\ Goto(g, "iterate")
  /\ todo' = [todo EXCEPT ![g] = DOMAIN Source(g)]
  /\ UNCHANGED <<objects, lockVars, call, m, ret>>

\* GetByRegex tries the expression on each key, and ends at the first if it is bad.
BadRegex(g) == call[g].op = "GetByRegex" /\ call[g].bad /\ todo[g] # {}

Wanted(g, k) == call[g].op = "GetByRegex" => k \in call[g].matches

\* The next key of the iteration goes into the new map.
NextKey(g) ==
  /\ pc[g] = "iterate" /\ ~BadRegex(g)
  /\ \E k \in todo[g] :
       /\ todo' = [todo EXCEPT ![g] = @ \ {k}]
       /\ m' = IF Wanted(g, k) THEN [m EXCEPT ![g] = Put(@, k, Source(g)[k])] ELSE m
  /\ UNCHANGED <<objects, lockVars, pc, call, ret>>

Objects(g) ==
  \/ objects = Empty /\ Return(g, "Objects", "body", objects, Nil)
  \/ todo[g] = {} /\ Return(g, "Objects", "iterate", objects, m[g])

\* Mutant: the mutex is unlocked by hand where the iteration ends, and not where a bad
\* expression ends it.
GetByRegexLeak(g) ==
  \/ /\ pc[g] = "iterate" /\ BadRegex(g)
     /\ Goto(g, "idle")
     /\ Finish(g)
     /\ UNCHANGED lockVars
  \/ /\ Return(g, "GetByRegex", "iterate", objects, [m |-> m[g], err |-> FALSE])
     /\ todo[g] = {}

GetByRegex(g) ==
  /\ Return(g, "GetByRegex", "iterate", objects, [m |-> m[g], err |-> BadRegex(g)])
  /\ todo[g] # {} => BadRegex(g)

\* The new map becomes the store's when it is complete.
Supplant(g) == todo[g] = {} /\ Return(g, "Supplant", "iterate", m[g], Nil)

Body(g) == \/ Delete(g) \/ Set(g) \/ Purge(g) \/ Get(g) \/ Size(g) \/ Iterate(g)
           \/ NextKey(g) \/ Objects(g) \/ GetByRegex(g) \/ Supplant(g)

\* A call goes on by itself once it has begun.
Step(g) ==
  /\ RLock(g) \/ Lock(g) \/ Drain(g) \/ RUnlock(g) \/ Unlock(g) \/ Body(g)
  /\ UNCHANGED mix

Next == \E g \in Goroutines : (Begin(g) /\ UNCHANGED mix) \/ Step(g)

\* Every goroutine is scheduled, and the mutex of the writers is handed to one that
\* waits for it in the end (sync.Mutex starves no one).
Spec == /\ Init /\ [][Next]_vars
        /\ \A g \in Goroutines : WF_vars(Step(g)) /\ SF_vars(Lock(g) /\ UNCHANGED mix)

-----------------------------------------------------------------------------
(* Properties. *)

Atomic == INSTANCE AtomicStore WITH
  phase <- [g \in Goroutines |-> CASE pc[g] = "idle"   -> "idle"
                                   [] pc[g] = "unlock" -> "done"
                                   [] OTHER            -> "called"]

\* The store is goroutine-safe: every call, the iterations of Objects and GetByRegex
\* and the replacement of all objects by Supplant included, happens at one moment, and
\* returns what the contents at that moment give.
GoroutineSafe == Atomic!Spec

\* No call waits for ever: every way out of every method gives the mutex back, so that
\* neither readers nor writers are kept waiting, whatever the others call.
CallsReturn == \A g \in Goroutines : (pc[g] = "call") ~> (pc[g] = "idle")
=============================================================================
