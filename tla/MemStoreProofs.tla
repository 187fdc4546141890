--------------------------- MODULE MemStoreProofs ---------------------------
(***************************************************************************)
(* The in-memory store implements AtomicStore, for any number of           *)
(* goroutines, keys and calls.  The mutex keeps writers away from an       *)
(* iteration, so the map it builds is always the part of the store's       *)
(* present contents that it has come to; the call happens when it returns. *)
(***************************************************************************)
EXTENDS MemStore, TLAPS

(* Maps. *)

LEMMA EmptyMap == IsMap(Empty) /\ DOMAIN Empty = {} /\ \A f : IsMap(f) /\ DOMAIN f = {} => f = Empty
  BY DEF IsMap, Empty

LEMMA PutMap == \A f, k, v : IsMap(Put(f, k, v))
  BY DEF Put, IsMap

LEMMA RestrictMap ==
  ASSUME NEW f
  PROVE  /\ \A S : IsMap(Restrict(f, S)) /\ DOMAIN Restrict(f, S) = S
         /\ Restrict(f, {}) = Empty
         /\ IsMap(f) => Restrict(f, DOMAIN f) = f
  BY DEF Restrict, IsMap, Empty

\* One more key of an iteration.
LEMMA PutRestrict ==
  ASSUME NEW f, NEW S, NEW k
  PROVE  Put(Restrict(f, S), k, f[k]) = Restrict(f, S \cup {k})
  BY DEF Restrict, Put

-----------------------------------------------------------------------------
(* The inductive invariant. *)

\* The program points at which a goroutine holds the mutex.
Inside == {"body", "iterate", "unlock"}

Points == {"idle", "call", "blocked", "drain"} \cup Inside

TypeInv ==
  /\ mix \in Mixes
  /\ IsMap(objects)
  /\ pc \in [Goroutines -> Points]
  /\ DOMAIN call = Goroutines /\ DOMAIN m = Goroutines
  /\ DOMAIN todo = Goroutines /\ DOMAIN ret = Goroutines
  /\ readers \subseteq Goroutines
  /\ \A g \in Goroutines : pc[g] # "idle" => call[g] \in Calls

\* Who holds the mutex, and that a writer inside is alone there.
LockInv ==
  /\ \A g \in Goroutines : g \in readers <=> pc[g] \in Inside /\ ~Writing(call[g])
  /\ \A g \in Goroutines : writer = g <=> pc[g] \in Inside \cup {"drain"} /\ Writing(call[g])
  /\ \A g \in Goroutines : pc[g] \in Inside /\ Writing(call[g]) => readers = {}
  /\ \A g \in Goroutines : /\ pc[g] = "blocked" => ~Writing(call[g])
                           /\ pc[g] = "drain" => Writing(call[g])

\* The keys that g's iteration has come to and wanted.
Picked(g) == {k \in DOMAIN Source(g) \ todo[g] : Wanted(g, k)}

\* An iteration has built the part of the map that it has come to, as that map is now.
IterOf(g) ==
  /\ call[g].op \in {"GetByRegex", "Objects", "Supplant"}
  /\ call[g].op = "Objects" => objects # Empty
  /\ todo[g] \subseteq DOMAIN Source(g)
  /\ call[g].op = "GetByRegex" /\ call[g].bad => todo[g] = DOMAIN objects
  /\ m[g] = Restrict(Source(g), Picked(g))

IterInv ==
  \A g \in Goroutines :
    /\ pc[g] \in Points \ {"iterate", "unlock"} => m[g] = Empty /\ todo[g] = {}
    /\ pc[g] = "iterate" => IterOf(g)

MemInv == TypeInv /\ LockInv /\ IterInv

LEMMA InitMem == Init => MemInv
  BY MemStoreAssumption DEF Init, MemInv, TypeInv, LockInv, IterInv, Points, Inside

-----------------------------------------------------------------------------
(* Steps. *)

\* An iteration is not disturbed as long as its map stays as it is.
LEMMA IterStays ==
  ASSUME NEW g \in Goroutines, IterOf(g), objects' = objects,
         call'[g] = call[g], m'[g] = m[g], todo'[g] = todo[g]
  PROVE  IterOf(g)'
  BY DEF IterOf, Picked, Source, Wanted

\* While one goroutine is inside as a writer, no other is inside.
LEMMA WriterIsAlone ==
  ASSUME MemInv, NEW g \in Goroutines, pc[g] \in Inside, Writing(call[g]),
         NEW h \in Goroutines, h # g
  PROVE  pc[h] \notin Inside
  BY DEF MemInv, LockInv

\* A goroutine moves on, and changes neither the mutex nor the contents.
LEMMA MoveStep ==
  ASSUME MemInv, NEW g \in Goroutines, NEW p \in Points,
         pc' = [pc EXCEPT ![g] = p],
         UNCHANGED <<mix, objects, lockVars>>, DOMAIN ret' = Goroutines,
         DOMAIN call' = Goroutines, DOMAIN m' = Goroutines, DOMAIN todo' = Goroutines,
         \A h \in Goroutines \ {g} :
           call'[h] = call[h] /\ m'[h] = m[h] /\ todo'[h] = todo[h],
         call'[g] \in Calls, p \in Inside \cup {"drain"} <=> pc[g] \in Inside \cup {"drain"},
         pc[g] \in Inside \cup {"drain"} => call'[g] = call[g],
         p \in Inside => pc[g] \in Inside \/ (Writing(call[g]) /\ readers = {}),
         pc[g] \in Inside => p \in Inside,
         p = "blocked" => ~Writing(call'[g]), p = "drain" => Writing(call'[g]),
         p \in Points \ {"iterate", "unlock"} => m'[g] = Empty /\ todo'[g] = {},
         p = "iterate" => IterOf(g)'
  PROVE  MemInv'
<1>1. \A h \in Goroutines : pc'[h] = IF h = g THEN p ELSE pc[h]
  BY DEF MemInv, TypeInv
<1>2. TypeInv'
  BY <1>1 DEF MemInv, TypeInv, Points, lockVars
<1>3. LockInv'
  BY <1>1 DEF MemInv, LockInv, lockVars, Inside
<1>4. IterInv'
  BY <1>1, IterStays DEF MemInv, IterInv
<1> QED
  BY <1>2, <1>3, <1>4 DEF MemInv

\* A call is over but for the unlocking; one that changes the contents is a writer's.
LEMMA ReturnStep ==
  ASSUME MemInv, NEW g \in Goroutines, pc[g] \in {"body", "iterate"},
         pc' = [pc EXCEPT ![g] = "unlock"], DOMAIN ret' = Goroutines,
         UNCHANGED <<mix, lockVars, call, m, todo>>, IsMap(objects'),
         objects' = objects \/ Writing(call[g])
  PROVE  MemInv'
<1>1. \A h \in Goroutines : pc'[h] = IF h = g THEN "unlock" ELSE pc[h]
  BY DEF MemInv, TypeInv
<1>2. TypeInv'
  BY <1>1 DEF MemInv, TypeInv, Points, Inside, lockVars
<1>3. LockInv'
  BY <1>1 DEF MemInv, LockInv, lockVars, Inside
<1>4. ASSUME NEW h \in Goroutines \ {g}, pc[h] = "iterate" PROVE objects' = objects
  BY <1>4, WriterIsAlone DEF Inside
<1>5. IterInv'
  BY <1>1, <1>4, IterStays DEF MemInv, IterInv
<1> QED
  BY <1>2, <1>3, <1>5 DEF MemInv

\* Each call that changes the contents, or returns, does so with the mutex held for it.
LEMMA BodyReturns ==
  ASSUME MemInv, UNCHANGED mix, NEW g \in Goroutines, NEW op, NEW at \in {"body", "iterate"},
         NEW contents, NEW result, Return(g, op, at, contents, result), IsMap(contents),
         contents = objects \/ op \in {"Delete", "Purge", "Set", "Supplant"}
  PROVE  MemInv'
<1>1. /\ pc[g] \in {"body", "iterate"} /\ pc' = [pc EXCEPT ![g] = "unlock"]
      /\ DOMAIN ret' = Goroutines
      /\ UNCHANGED <<mix, lockVars, call, m, todo>>
      /\ IsMap(objects')
      /\ objects' = objects \/ Writing(call[g])
  BY DEF Return, Goto, MemInv, TypeInv, Writing
<1> QED
  BY <1>1, ReturnStep, Zenon

\* A goroutine's call is over; the others go on as they were.
LEMMA FinishLeaves ==
  ASSUME MemInv, NEW g \in Goroutines, Finish(g)
  PROVE  /\ DOMAIN call' = Goroutines /\ DOMAIN m' = Goroutines
         /\ DOMAIN todo' = Goroutines /\ DOMAIN ret' = Goroutines
         /\ m'[g] = Empty /\ todo'[g] = {} /\ objects' = objects
         /\ \A h \in Goroutines \ {g} :
              call'[h] = call[h] /\ m'[h] = m[h] /\ todo'[h] = todo[h]
  BY DEF Finish, MemInv, TypeInv

LEMMA FinishStep ==
  ASSUME MemInv, NEW g \in Goroutines, Finish(g), UNCHANGED mix,
         pc' \in [Goroutines -> Points], pc'[g] = "idle", readers' \subseteq Goroutines,
         \A h \in Goroutines \ {g} :
           pc'[h] = IF pc[h] = "blocked" THEN pc'[h] ELSE pc[h],
         \A h \in Goroutines \ {g} : pc[h] = "blocked" => pc'[h] \in {"blocked", "body"}
  PROVE  TypeInv' /\ IterInv'
<1>1. TypeInv'
  BY FinishLeaves, SMTT(30) DEF MemInv, TypeInv
<1>2. IterInv'
  BY FinishLeaves, IterStays DEF MemInv, TypeInv, IterInv, Points, Inside
<1> QED
  BY <1>1, <1>2

\* A step of a goroutine preserves the invariant.
LEMMA MemStep == MemInv /\ [Next]_vars => MemInv'
<1> SUFFICES ASSUME MemInv, [Next]_vars PROVE MemInv'
  OBVIOUS
<1>1. CASE UNCHANGED vars
  <2>1. TypeInv' /\ LockInv'
    BY <1>1 DEF vars, lockVars, MemInv, TypeInv, LockInv
  <2>2. IterInv'
    BY <1>1, IterStays DEF vars, MemInv, IterInv
  <2> QED
    BY <2>1, <2>2 DEF MemInv
<1>2. ASSUME NEW g \in Goroutines, Begin(g), UNCHANGED mix PROVE MemInv'
  <2>1. PICK c \in mix : call' = [call EXCEPT ![g] = c]
    BY <1>2, Zenon DEF Begin
  <2>2. c \in Calls
    BY <2>1 DEF Calls, MemInv, TypeInv
  <2>3. /\ pc[g] = "idle" /\ pc' = [pc EXCEPT ![g] = "call"]
        /\ UNCHANGED <<mix, objects, lockVars, m, todo, ret>>
    BY <1>2 DEF Begin, Goto
  <2>4. /\ DOMAIN call' = Goroutines /\ call'[g] = c
        /\ \A h \in Goroutines \ {g} : call'[h] = call[h]
    BY <2>1 DEF MemInv, TypeInv
  <2>5. m[g] = Empty /\ todo[g] = {}
    BY <2>3 DEF MemInv, IterInv, Points
  <2>6. DOMAIN m = Goroutines /\ DOMAIN todo = Goroutines /\ DOMAIN ret = Goroutines
    BY DEF MemInv, TypeInv
  <2> QED
    BY <2>2, <2>3, <2>4, <2>5, <2>6, MoveStep, Zenon DEF Points, Inside
<1>3. ASSUME NEW g \in Goroutines, RLock(g), UNCHANGED mix PROVE MemInv'
  <2>1. /\ pc[g] = "call" /\ ~Writing(call[g])
        /\ UNCHANGED <<mix, objects, writer, call, m, todo, ret>>
    BY <1>3 DEF RLock
  <2>2. call[g] \in Calls /\ m[g] = Empty /\ todo[g] = {}
    BY <2>1 DEF MemInv, TypeInv, IterInv, Points
  <2>3. CASE writer = Nil
    <3>1. readers' = readers \cup {g} /\ pc' = [pc EXCEPT ![g] = "body"]
      BY <1>3, <2>3 DEF RLock, Goto
    <3>2. \A h \in Goroutines : pc'[h] = IF h = g THEN "body" ELSE pc[h]
      BY <3>1 DEF MemInv, TypeInv
    <3>3. TypeInv'
      BY <2>1, <2>2, <3>1, <3>2 DEF MemInv, TypeInv, Points, Inside
    <3>4. LockInv'
      BY <2>1, <2>3, <3>1, <3>2, MemStoreAssumption, SMTT(30) DEF MemInv, LockInv, Inside
    <3>5. IterInv'
      BY <2>1, <2>2, <3>2, IterStays DEF MemInv, IterInv, Points
    <3> QED
      BY <3>3, <3>4, <3>5 DEF MemInv
  <2>4. CASE writer # Nil
    <3>1. UNCHANGED readers /\ pc' = [pc EXCEPT ![g] = "blocked"]
      BY <1>3, <2>4 DEF RLock, Goto
    <3>2. DOMAIN call = Goroutines /\ DOMAIN m = Goroutines /\ DOMAIN todo = Goroutines
          /\ DOMAIN ret = Goroutines
      BY DEF MemInv, TypeInv
    <3> QED
      BY <2>1, <2>2, <3>1, <3>2, MoveStep, Zenon DEF Points, Inside, lockVars
  <2> QED
    BY <2>3, <2>4
<1>4. ASSUME NEW g \in Goroutines, Lock(g), UNCHANGED mix PROVE MemInv'
  <2>1. /\ pc[g] = "call" /\ Writing(call[g]) /\ writer = Nil /\ writer' = g
        /\ pc' = [pc EXCEPT ![g] = "drain"]
        /\ UNCHANGED <<mix, objects, readers, call, m, todo, ret>>
    BY <1>4 DEF Lock, Goto
  <2>2. call[g] \in Calls /\ m[g] = Empty /\ todo[g] = {}
    BY <2>1 DEF MemInv, TypeInv, IterInv, Points
  <2>3. \A h \in Goroutines : pc'[h] = IF h = g THEN "drain" ELSE pc[h]
    BY <2>1 DEF MemInv, TypeInv
  <2>4. TypeInv'
    BY <2>1, <2>2, <2>3, SMTT(30) DEF MemInv, TypeInv, Points
  <2>5. LockInv'
    BY <2>1, <2>3, MemStoreAssumption, SMTT(30) DEF MemInv, LockInv, Inside
  <2>6. IterInv'
    BY <2>1, <2>2, <2>3, IterStays DEF MemInv, IterInv, Points
  <2> QED
    BY <2>4, <2>5, <2>6 DEF MemInv
<1>5. ASSUME NEW g \in Goroutines, Drain(g), UNCHANGED mix PROVE MemInv'
  <2>1. /\ pc[g] = "drain" /\ readers = {} /\ pc' = [pc EXCEPT ![g] = "body"]
        /\ UNCHANGED <<mix, objects, lockVars, call, m, todo, ret>>
    BY <1>5, SMTT(30) DEF Drain, Goto
  <2>2. call[g] \in Calls /\ m[g] = Empty /\ todo[g] = {}
    BY <2>1 DEF MemInv, TypeInv, IterInv, Points
  <2>3. DOMAIN call = Goroutines /\ DOMAIN m = Goroutines /\ DOMAIN todo = Goroutines
        /\ DOMAIN ret = Goroutines
    BY DEF MemInv, TypeInv
  <2> QED
    BY <2>1, <2>2, <2>3, MoveStep, Zenon DEF Points, Inside, MemInv, LockInv
<1>6. ASSUME NEW g \in Goroutines, RUnlock(g), UNCHANGED mix PROVE MemInv'
  <2>1. /\ pc[g] = "unlock" /\ g \in readers /\ readers' = readers \ {g}
        /\ pc' = [pc EXCEPT ![g] = "idle"] /\ UNCHANGED <<mix, objects, writer>>
    BY <1>6 DEF RUnlock, Goto, Finish
  <2>2. \A h \in Goroutines : pc'[h] = IF h = g THEN "idle" ELSE pc[h]
    BY <2>1 DEF MemInv, TypeInv
  <2>a. pc' \in [Goroutines -> Points] /\ readers' \subseteq Goroutines
    BY <2>1 DEF MemInv, TypeInv, Points
  <2>b. Finish(g)
    BY <1>6 DEF RUnlock
  <2>3. TypeInv' /\ IterInv'
    BY <1>6, <2>2, <2>a, <2>b, FinishStep, SMTT(30)
  <2>4. LockInv'
    BY <1>6, <2>1, <2>2, FinishLeaves DEF RUnlock, MemInv, LockInv, Inside
  <2> QED
    BY <2>3, <2>4 DEF MemInv
<1>7. ASSUME NEW g \in Goroutines, Unlock(g), UNCHANGED mix PROVE MemInv'
  <2> DEFINE blocked == {r \in Goroutines : pc[r] = "blocked"}
  <2>1. /\ pc[g] = "unlock" /\ g = writer /\ writer' = Nil /\ readers' = readers \cup blocked
        /\ pc' = [r \in Goroutines |-> IF r = g THEN "idle"
                                       ELSE IF r \in blocked THEN "body" ELSE pc[r]]
        /\ UNCHANGED <<mix, objects>>
    BY <1>7 DEF Unlock, Finish
  <2>2. \A h \in Goroutines : pc'[h] = IF h = g THEN "idle"
                                    ELSE IF pc[h] = "blocked" THEN "body" ELSE pc[h]
    BY <2>1
  <2>a. pc' \in [Goroutines -> Points] /\ readers' \subseteq Goroutines
    BY <2>1 DEF MemInv, TypeInv, Points, Inside
  <2>b. Finish(g)
    BY <1>7 DEF Unlock
  <2>3. TypeInv' /\ IterInv'
    BY <1>7, <2>2, <2>a, <2>b, FinishStep
  <2>4. readers = {} /\ Writing(call[g])
    BY <2>1, SMTT(30) DEF MemInv, LockInv, Inside
  <2>5. LockInv'
    BY <1>7, <2>1, <2>2, <2>4, FinishLeaves, MemStoreAssumption, SMTT(30) DEF Unlock, MemInv, LockInv, Inside
  <2> QED
    BY <2>3, <2>5 DEF MemInv
<1>8. ASSUME NEW g \in Goroutines, Body(g), UNCHANGED mix PROVE MemInv'
  <2>1. CASE Delete(g) \/ Set(g) \/ Purge(g) \/ Get(g) \/ Size(g)
    <3>1. IsMap(objects)
      BY DEF MemInv, TypeInv
    <3>2. CASE Delete(g) \/ Set(g) \/ Purge(g)
      <4>1. /\ IsMap(Restrict(objects, DOMAIN objects \ {call[g].key}))
            /\ IsMap(Put(objects, call[g].key, call[g].val)) /\ IsMap(Empty)
        BY DEF IsMap, Restrict, Put, Empty
      <4> QED
        BY <1>8, <3>2, <4>1, BodyReturns, SMTT(30) DEF Delete, Set, Purge
    <3>3. CASE Get(g) \/ Size(g)
      BY <1>8, <3>1, <3>3, BodyReturns DEF Get, Size
    <3> QED
      BY <2>1, <3>2, <3>3
  <2>2. CASE Iterate(g)
    <3>1. /\ pc[g] = "body" /\ pc' = [pc EXCEPT ![g] = "iterate"]
          /\ call[g].op \in {"GetByRegex", "Objects", "Supplant"}
          /\ call[g].op = "Objects" => objects # Empty
          /\ UNCHANGED <<mix, objects, lockVars, call, m, ret>>
      BY <1>8, <2>2 DEF Iterate, Goto
    <3>2. /\ DOMAIN todo' = Goroutines /\ todo'[g] = DOMAIN Source(g)
          /\ \A h \in Goroutines \ {g} : todo'[h] = todo[h]
      BY <2>2, SMTT(30) DEF Iterate, MemInv, TypeInv
    <3>3. m[g] = Empty
      BY <3>1 DEF MemInv, IterInv, Points, Inside
    <3>4. Picked(g)' = {}
      BY <3>1, <3>2, SMTT(30) DEF Picked, Source
    <3>5. IterOf(g)'
      BY <3>1, <3>2, <3>3, <3>4, RestrictMap, SMTT(30) DEF IterOf, Source
    <3>6. /\ DOMAIN call = Goroutines /\ DOMAIN m = Goroutines /\ DOMAIN ret = Goroutines
          /\ call[g] \in Calls
      BY <3>1, SMTT(30) DEF MemInv, TypeInv
    <3> QED
      BY <3>1, <3>2, <3>5, <3>6, MoveStep, Zenon DEF Points, Inside
  <2>3. CASE NextKey(g)
    <3>1. /\ pc[g] = "iterate" /\ ~BadRegex(g)
          /\ UNCHANGED <<mix, objects, lockVars, pc, call, ret>>
      BY <1>8, <2>3 DEF NextKey
    <3>2. PICK k \in todo[g] :
            /\ todo' = [todo EXCEPT ![g] = @ \ {k}]
            /\ m' = IF Wanted(g, k) THEN [m EXCEPT ![g] = Put(@, k, Source(g)[k])] ELSE m
      BY <2>3, Zenon DEF NextKey
    <3>3. /\ DOMAIN todo' = Goroutines /\ todo'[g] = todo[g] \ {k}
          /\ DOMAIN m' = Goroutines
          /\ m'[g] = IF Wanted(g, k) THEN Put(m[g], k, Source(g)[k]) ELSE m[g]
          /\ \A h \in Goroutines \ {g} : todo'[h] = todo[h] /\ m'[h] = m[h]
      BY <3>2 DEF MemInv, TypeInv
    <3>4. IterOf(g)
      BY <3>1 DEF MemInv, IterInv
    <3>5. Picked(g)' = IF Wanted(g, k) THEN Picked(g) \cup {k} ELSE Picked(g)
      <4>1. call' = call /\ objects' = objects /\ todo'[g] = todo[g] \ {k}
        BY <3>1, <3>3, Zenon
      <4>2. Source(g)' = Source(g) /\ \A x : Wanted(g, x)' <=> Wanted(g, x)
        BY <4>1, Zenon DEF Source, Wanted
      <4>3. k \in DOMAIN Source(g) /\ k \in todo[g]
        BY <3>2, <3>4, Zenon DEF IterOf
      <4>4. Picked(g)' = {x \in DOMAIN Source(g) \ (todo[g] \ {k}) : Wanted(g, x)}
        BY <4>1, <4>2, ZenonT(30) DEF Picked
      <4> QED
        BY <4>3, <4>4, Zenon DEF Picked
    <3>6. m'[g] = Restrict(Source(g), Picked(g)')
      BY <3>3, <3>4, <3>5, PutRestrict DEF IterOf
    <3>7. Source(g)' = Source(g) /\ ~(call[g].op = "GetByRegex" /\ call[g].bad)
      BY <3>1, <3>2, SMTT(30) DEF Source, BadRegex
    <3>8. IterOf(g)'
      BY <3>1, <3>3, <3>4, <3>6, <3>7 DEF IterOf
    <3>9. /\ DOMAIN call = Goroutines /\ DOMAIN ret = Goroutines
          /\ call[g] \in Calls /\ pc = [pc EXCEPT ![g] = "iterate"]
      BY <3>1 DEF MemInv, TypeInv
    <3> QED
      BY <3>1, <3>3, <3>8, <3>9, MoveStep, SMTT(30) DEF Points, Inside
  <2>4. CASE Objects(g) \/ GetByRegex(g)
    BY <1>8, <2>4, BodyReturns, Zenon DEF Objects, GetByRegex, MemInv, TypeInv
  <2>5. CASE Supplant(g)
    <3>1. Return(g, "Supplant", "iterate", m[g], Nil)
      BY <2>5 DEF Supplant
    <3>2. m[g] = Restrict(Source(g), Picked(g))
      BY <3>1 DEF Return, MemInv, IterInv, IterOf
    <3>3. IsMap(m[g])
      BY <3>2 DEF IsMap, Restrict
    <3> QED
      BY <1>8, <3>1, <3>3, BodyReturns
  <2> QED
    BY <1>8, <2>1, <2>2, <2>3, <2>4, <2>5 DEF Body
<1> QED
  BY <1>1, <1>2, <1>3, <1>4, <1>5, <1>6, <1>7, <1>8 DEF Next, Step

-----------------------------------------------------------------------------
(* Waiting. *)

\* A reader that was kept out has a writer that will let it in.
WakeInv ==
  /\ writer \in Goroutines \cup {Nil}
  /\ \A g \in Goroutines : pc[g] = "blocked" => writer # Nil

LEMMA WakeStep == MemInv /\ WakeInv /\ [Next]_vars => WakeInv'
<1> SUFFICES ASSUME MemInv, WakeInv, [Next]_vars PROVE WakeInv'
  OBVIOUS
<1> USE DEF WakeInv
<1>0. pc \in [Goroutines -> Points]
  BY Zenon DEF MemInv, TypeInv
<1>1. ASSUME NEW g \in Goroutines, NEW p, pc' = [pc EXCEPT ![g] = p],
             writer' = writer \/ writer' = g,
             p = "blocked" => writer' # Nil
      PROVE  WakeInv'
  BY <1>0, <1>1, MemStoreAssumption
<1>2. CASE UNCHANGED vars
  BY <1>2, Zenon DEF vars, lockVars
<1>3. ASSUME NEW g \in Goroutines, Begin(g) PROVE WakeInv'
  BY <1>1, <1>3, Zenon DEF Begin, Goto, lockVars
<1>4. ASSUME NEW g \in Goroutines, RLock(g) PROVE WakeInv'
  BY <1>1, <1>4, Zenon DEF RLock, Goto
<1>5. ASSUME NEW g \in Goroutines, Lock(g) PROVE WakeInv'
  BY <1>1, <1>5, Zenon DEF Lock, Goto
<1>6. ASSUME NEW g \in Goroutines, Drain(g) \/ RUnlock(g) PROVE WakeInv'
  BY <1>1, <1>6, Zenon DEF Drain, RUnlock, Goto, lockVars
<1>7. ASSUME NEW g \in Goroutines, Unlock(g) PROVE WakeInv'
  <2>1. writer' = Nil /\ \A h \in Goroutines : pc'[h] # "blocked"
    BY <1>7 DEF Unlock
  <2> QED
    BY <2>1, Zenon
<1>8. ASSUME NEW g \in Goroutines, Body(g) PROVE WakeInv'
  <2>1. UNCHANGED writer /\ (UNCHANGED pc \/ \E p \in {"unlock", "iterate"} : pc' = [pc EXCEPT ![g] = p])
    BY <1>8, Zenon DEF Body, Delete, Set, Purge, Get, Size, Iterate, NextKey, Objects, GetByRegex,
                       Supplant, Return, Goto, lockVars
  <2> QED
    BY <1>1, <2>1, Zenon
<1> QED
  BY <1>2, <1>3, <1>4, <1>5, <1>6, <1>7, <1>8, Zenon DEF Next, Step

\* g has to wait for the mutex.
Waits(g) ==
  \/ pc[g] = "blocked"
  \/ pc[g] = "call" /\ Writing(call[g]) /\ writer # Nil
  \/ pc[g] = "drain" /\ readers # {}

\* h has the mutex and need not wait.
HasMutex(h) == pc[h] \in Inside \/ (pc[h] = "drain" /\ readers = {})

\* Whoever waits, waits for somebody else who goes on.
NobodyIsStuck ==
  \A g \in Goroutines : Waits(g) => \E h \in Goroutines \ {g} : HasMutex(h)

\* The goroutines that use the RWMutex of storeImpl never all wait for one another: a
\* reader that was kept out has a writer that will let it in, a writer waits for another
\* one or for readers that are inside, and no call waits for what it holds itself.
THEOREM NoGoroutineIsStuck == Spec => []NobodyIsStuck
<1>1. Init => WakeInv
  BY DEF Init, WakeInv
<1>2. MemInv /\ WakeInv => NobodyIsStuck
  <2> SUFFICES ASSUME MemInv, WakeInv, NEW g \in Goroutines, Waits(g)
               PROVE  \E h \in Goroutines \ {g} : HasMutex(h)
    BY Zenon DEF NobodyIsStuck
  <2>1. /\ readers \subseteq Goroutines
        /\ \A h \in Goroutines : h \in readers => pc[h] \in Inside
        /\ \A h \in Goroutines : writer = h <=> pc[h] \in Inside \cup {"drain"} /\ Writing(call[h])
    BY Zenon DEF MemInv, TypeInv, LockInv
  <2>2. g \notin readers /\ pc[g] \notin Inside
    BY <2>1, Zenon DEF Waits, Inside
  <2>3. CASE readers # {}
    BY <2>1, <2>2, <2>3, Zenon DEF HasMutex
  <2>4. CASE readers = {}
    <3>1. writer \in Goroutines /\ pc[g] \in {"blocked", "call"}
      BY <2>4, Zenon DEF Waits, WakeInv
    <3>2. pc[writer] \in Inside \cup {"drain"} /\ writer # g
      BY <2>1, <2>2, <3>1, Zenon DEF Inside
    <3> QED
      BY <2>4, <3>1, <3>2, Zenon DEF HasMutex
  <2> QED
    BY <2>3, <2>4, Zenon
<1> QED
  BY <1>1, <1>2, InitMem, MemStep, WakeStep, PTL DEF Spec

-----------------------------------------------------------------------------
(* The refinement. *)

\* AtomicStore's phase of g, as the refinement mapping has it.
Phase == [g \in Goroutines |-> CASE pc[g] = "idle"   -> "idle"
                                 [] pc[g] = "unlock" -> "done"
                                 [] OTHER            -> "called"]

\* A step of g moves its phase, and no other's.
LEMMA PhaseMoves ==
  ASSUME NEW g \in Goroutines,
         \A h \in Goroutines \ {g} : pc'[h] = pc[h] \/ (pc[h] = "blocked" /\ pc'[h] = "body")
  PROVE  /\ Phase' = [Phase EXCEPT ![g] = Phase'[g]]
         /\ Phase[g] = CASE pc[g] = "idle" -> "idle" [] pc[g] = "unlock" -> "done"
                         [] OTHER -> "called"
         /\ Phase'[g] = CASE pc'[g] = "idle" -> "idle" [] pc'[g] = "unlock" -> "done"
                          [] OTHER -> "called"
  BY Zenon DEF Phase

\* What an iteration has built when it ends is what the call makes of the contents.
LEMMA IterEnds ==
  ASSUME MemInv, NEW g \in Goroutines, pc[g] = "iterate"
  PROVE  /\ call[g].op = "Supplant" /\ todo[g] = {} => m[g] = call[g].map
         /\ call[g].op = "Objects" /\ todo[g] = {} => objects # Empty /\ m[g] = objects
         /\ call[g].op = "GetByRegex" /\ call[g].bad =>
              m[g] = Empty /\ todo[g] = DOMAIN objects
         /\ call[g].op = "GetByRegex" /\ todo[g] = {} =>
              m[g] = Restrict(objects, DOMAIN objects \cap call[g].matches)
<1>1. IterOf(g) /\ IsMap(objects) /\ call[g] \in Calls
  BY SMTT(30) DEF MemInv, IterInv, TypeInv
<1>2. call[g].op = "Supplant" => IsMap(call[g].map)
  BY <1>1, MemStoreAssumption, SMTT(30) DEF Calls
<1>3. ASSUME call[g].op \in {"Supplant", "Objects"}, todo[g] = {} PROVE m[g] = Source(g)
  <2>1. Picked(g) = DOMAIN Source(g)
    BY <1>3, SMTT(30) DEF Picked, Wanted
  <2> QED
    BY <1>1, <1>2, <1>3, <2>1, RestrictMap, SMTT(30) DEF IterOf, Source
<1>4. ASSUME call[g].op = "GetByRegex", call[g].bad PROVE m[g] = Empty /\ todo[g] = DOMAIN objects
  <2>1. todo[g] = DOMAIN objects
    BY <1>1, <1>4 DEF IterOf
  <2>2. Picked(g) = {}
    BY <1>4, <2>1 DEF Picked, Source
  <2> QED
    BY <1>1, <2>1, <2>2, RestrictMap, SMTT(30) DEF IterOf
<1>5. ASSUME call[g].op = "GetByRegex", todo[g] = {}
      PROVE  m[g] = Restrict(objects, DOMAIN objects \cap call[g].matches)
  <2>1. Picked(g) = DOMAIN objects \cap call[g].matches /\ Source(g) = objects
    BY <1>5 DEF Picked, Source, Wanted
  <2> QED
    BY <1>1, <2>1 DEF IterOf
<1> QED
  BY <1>1, <1>3, <1>4, <1>5, SMTT(30) DEF IterOf, Source

\* A call that returns does so with the effect and the result it has at this moment.
LEMMA ReturnHappens ==
  ASSUME MemInv, NEW g \in Goroutines, NEW op, NEW at \in {"body", "iterate"},
         NEW contents, NEW result, Return(g, op, at, contents, result),
         contents = Atomic!Effect(call[g], objects), result = Atomic!Result(call[g], objects)
  PROVE  Atomic!Happen(g)
<1>1. \A h \in Goroutines : pc'[h] = IF h = g THEN "unlock" ELSE pc[h]
  BY DEF Return, Goto, MemInv, TypeInv
<1>2. /\ Phase' = [Phase EXCEPT ![g] = "done"] /\ Phase[g] = "called"
  BY <1>1, PhaseMoves, SMTT(30) DEF Return
<1>3. /\ objects' = Atomic!Effect(call[g], objects)
      /\ ret' = [ret EXCEPT ![g] = Atomic!Result(call[g], objects)]
      /\ UNCHANGED call
  BY DEF Return
<1> QED
  BY <1>2, <1>3 DEF Atomic!Happen, Phase

LEMMA RefineStep == MemInv /\ [Next]_vars => [Atomic!Next]_(Atomic!vars)
<1> SUFFICES ASSUME MemInv, [Next]_vars PROVE Atomic!Next \/ UNCHANGED Atomic!vars
  OBVIOUS
<1> USE DEF Phase
<1>1. ASSUME Phase' = Phase, UNCHANGED <<objects, call, ret>> PROVE UNCHANGED Atomic!vars
  BY <1>1 DEF Atomic!vars
<1>2. CASE UNCHANGED vars
  BY <1>1, <1>2 DEF vars
<1>3. ASSUME NEW g \in Goroutines, Begin(g), UNCHANGED mix PROVE Atomic!Begin(g)
  <2>1. PICK c \in mix : call' = [call EXCEPT ![g] = c]
    BY <1>3, Zenon DEF Begin
  <2>2. c \in Calls
    BY <2>1 DEF Calls, MemInv, TypeInv
  <2>3. /\ pc[g] = "idle" /\ \A h \in Goroutines : pc'[h] = IF h = g THEN "call" ELSE pc[h]
        /\ UNCHANGED <<objects, ret>>
    BY <1>3 DEF Begin, Goto, MemInv, TypeInv
  <2>4. Phase' = [Phase EXCEPT ![g] = "called"] /\ Phase[g] = "idle"
    BY <2>3, PhaseMoves
  <2> QED
    BY <2>1, <2>2, <2>3, <2>4, Zenon DEF Atomic!Begin
<1>4. ASSUME NEW g \in Goroutines, RLock(g) \/ Lock(g) \/ Drain(g) \/ Iterate(g) \/ NextKey(g)
      PROVE  UNCHANGED Atomic!vars
  <2>1. UNCHANGED <<objects, call, ret>>
    BY <1>4, ZenonT(30) DEF RLock, Lock, Drain, Iterate, NextKey
  <2>2. \A h \in Goroutines : pc'[h] = pc[h] \/ {pc[h], pc'[h]} \cap {"idle", "unlock"} = {}
    BY <1>4 DEF RLock, Lock, Drain, Iterate, NextKey, Goto, MemInv, TypeInv
  <2>3. Phase' = Phase
    BY <2>2, Zenon
  <2> QED
    BY <1>1, <2>1, <2>3
<1>5. ASSUME NEW g \in Goroutines, RUnlock(g) \/ Unlock(g) PROVE Atomic!End(g)
  <2>1. /\ pc[g] = "unlock" /\ pc'[g] = "idle" /\ Finish(g)
        /\ \A h \in Goroutines \ {g} :
             pc'[h] = pc[h] \/ (pc[h] = "blocked" /\ pc'[h] = "body")
    BY <1>5 DEF RUnlock, Unlock, Goto, MemInv, TypeInv
  <2>2. Phase' = [Phase EXCEPT ![g] = "idle"] /\ Phase[g] = "done"
    BY <2>1, PhaseMoves
  <2> QED
    BY <2>1, <2>2, SMTT(30) DEF Atomic!End, Finish
<1>6. ASSUME NEW g \in Goroutines,
             Delete(g) \/ Set(g) \/ Purge(g) \/ Get(g) \/ Size(g)
      PROVE  Atomic!Happen(g)
  <2>1. CASE Delete(g)
    BY <2>1, ReturnHappens, Zenon DEF Delete, Return, Atomic!Effect, Atomic!Result, Restrict, Atomic!Restrict
  <2>2. CASE Set(g)
    BY <2>2, ReturnHappens, Zenon DEF Set, Return, Put, Atomic!Effect, Atomic!Result
  <2>3. CASE Purge(g)
    BY <2>3, ReturnHappens, Zenon DEF Purge, Return, Empty, Atomic!Effect, Atomic!Result
  <2>4. CASE Get(g)
    BY <2>4, ReturnHappens, Zenon DEF Get, Return, Atomic!Effect, Atomic!Result
  <2>5. CASE Size(g)
    <3>1. Atomic!Cardinality(DOMAIN objects) = Cardinality(DOMAIN objects)
      BY Zenon DEF Cardinality, Atomic!Cardinality
    <3> QED
      BY <2>5, <3>1, ReturnHappens, Zenon DEF Size, Return, Atomic!Effect, Atomic!Result
  <2> QED
    BY <1>6, <2>1, <2>2, <2>3, <2>4, <2>5
<1>7. ASSUME NEW g \in Goroutines, Objects(g) PROVE Atomic!Happen(g)
  <2>1. call[g].op = "Objects" => /\ Atomic!Effect(call[g], objects) = objects
                                  /\ objects = Empty => Atomic!Result(call[g], objects) = Nil
                                  /\ objects # Empty => Atomic!Result(call[g], objects) = objects
    BY DEF Atomic!Effect, Atomic!Result, Empty
  <2>2. CASE objects = Empty /\ Return(g, "Objects", "body", objects, Nil)
    BY <2>1, <2>2, ReturnHappens, Zenon DEF Return
  <2>3. CASE todo[g] = {} /\ Return(g, "Objects", "iterate", objects, m[g])
    BY <2>1, <2>3, ReturnHappens, IterEnds, Zenon DEF Return
  <2> QED
    BY <1>7, <2>2, <2>3 DEF Objects
<1>8. ASSUME NEW g \in Goroutines, GetByRegex(g) PROVE Atomic!Happen(g)
  <2>1. /\ Return(g, "GetByRegex", "iterate", objects, [m |-> m[g], err |-> BadRegex(g)])
        /\ todo[g] # {} => BadRegex(g)
        /\ call[g].op = "GetByRegex" /\ pc[g] = "iterate"
    BY <1>8 DEF GetByRegex, Return
  <2>2. Atomic!Effect(call[g], objects) = objects
    BY <2>1 DEF Atomic!Effect
  <2>3. Atomic!Result(call[g], objects)
          = IF call[g].bad THEN [m |-> <<>>, err |-> objects # <<>>]
            ELSE [m |-> Restrict(objects, DOMAIN objects \cap call[g].matches), err |-> FALSE]
    BY <2>1, SMTT(30) DEF Atomic!Result, Atomic!Matching, Restrict, Atomic!Restrict
  <2>4. Atomic!Result(call[g], objects) = [m |-> m[g], err |-> BadRegex(g)]
    <3>1. CASE call[g].bad
      <4>1. m[g] = Empty /\ todo[g] = DOMAIN objects /\ IsMap(objects)
        BY <2>1, <3>1, IterEnds, Zenon DEF MemInv, TypeInv
      <4>2. todo[g] # {} <=> objects # Empty
        BY <4>1, EmptyMap, Zenon
      <4>3. BadRegex(g) = (objects # Empty)
        BY <2>1, <3>1, <4>2, Zenon DEF BadRegex
      <4> QED
        BY <2>3, <3>1, <4>1, <4>3 DEF Empty
    <3>2. CASE ~call[g].bad
      <4>1. BadRegex(g) = FALSE /\ todo[g] = {}
        BY <2>1, <3>2, SMTT(30) DEF BadRegex
      <4>2. m[g] = Restrict(objects, DOMAIN objects \cap call[g].matches)
        BY <2>1, <4>1, IterEnds
      <4> QED
        BY <2>3, <3>2, <4>1, <4>2, Zenon
    <3> QED
      BY <3>1, <3>2, SMTT(30)
  <2> QED
    BY <2>1, <2>2, <2>4, ReturnHappens, SMTT(30)
<1>9. ASSUME NEW g \in Goroutines, Supplant(g) PROVE Atomic!Happen(g)
  <2>1. /\ Return(g, "Supplant", "iterate", m[g], Nil) /\ todo[g] = {}
        /\ call[g].op = "Supplant" /\ pc[g] = "iterate"
    BY <1>9 DEF Supplant, Return
  <2>2. Atomic!Effect(call[g], objects) = call[g].map /\ Atomic!Result(call[g], objects) = Nil
    BY <2>1 DEF Atomic!Effect, Atomic!Result
  <2> QED
    BY <2>1, <2>2, IterEnds, ReturnHappens, Zenon
<1> QED
  BY <1>2, <1>3, <1>4, <1>5, <1>6, <1>7, <1>8, <1>9 DEF Next, Step, Body, Atomic!Next

\* The store is goroutine-safe (the RWMutex of storeImpl): each call, however many
\* goroutines make calls at the same time, happens at one moment, Supplant and the
\* iterations of Objects and GetByRegex included.
THEOREM MemStoreIsAtomic == Spec => GoroutineSafe
<1>1. Init => Atomic!Init
  BY DEF Init, Atomic!Init
<1> QED
  BY <1>1, InitMem, MemStep, RefineStep, PTL DEF Spec, GoroutineSafe, Atomic!Spec
=============================================================================
