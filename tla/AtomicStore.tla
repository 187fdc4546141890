---------------------------- MODULE AtomicStore ----------------------------
(***************************************************************************)
(* What the key-value store of src/store promises ("goroutine-safe"): every *)
(* call takes effect at one moment between its beginning and its end.      *)
(***************************************************************************)
EXTENDS Functions, FiniteSets

CONSTANTS
  Goroutines,
  Calls,     \* the calls that goroutines make: [op] and its arguments
  Initial,   \* the contents the store may have when the goroutines start
  Nil        \* no result, a nil map, a missing key

VARIABLES
  objects,   \* the contents of the store, a function on the keys it has
  call,      \* call[g]: the call that g makes
  phase,     \* phase[g]: "idle", "called" or "done"
  ret        \* ret[g]: what g's call is going to return

vars == <<objects, call, phase, ret>>

\* The keys that GetByRegex's expression matches, over a store with contents m.
Matching(c, m) == DOMAIN m \cap c.matches

\* What the call c does to the contents m.
Effect(c, m) ==
  CASE c.op = "Set"      -> [k \in DOMAIN m \cup {c.key} |-> IF k = c.key THEN c.val ELSE m[k]]
    [] c.op = "Delete"   -> Restrict(m, DOMAIN m \ {c.key})
    [] c.op = "Purge"    -> <<>>
    [] c.op = "Supplant" -> c.map
    [] OTHER             -> m

\* What the call c returns.  A bad expression is noticed only if there is a key to try
\* it on.
Result(c, m) ==
  CASE c.op = "Get"        -> IF c.key \in DOMAIN m THEN m[c.key] ELSE Nil
    [] c.op = "Size"       -> Cardinality(DOMAIN m)
    [] c.op = "Objects"    -> IF m = <<>> THEN Nil ELSE m
    [] c.op = "GetByRegex" -> IF c.bad THEN [m |-> <<>>, err |-> m # <<>>]
                              ELSE [m |-> Restrict(m, Matching(c, m)), err |-> FALSE]
    [] OTHER               -> Nil

Init ==
  /\ objects \in Initial
  /\ call = [g \in Goroutines |-> Nil]
  /\ phase = [g \in Goroutines |-> "idle"]
  /\ ret = [g \in Goroutines |-> Nil]

Begin(g) ==
  /\ phase[g] = "idle"
  /\ phase' = [phase EXCEPT ![g] = "called"]
  /\ \E c \in Calls : call' = [call EXCEPT ![g] = c]
  /\ UNCHANGED <<objects, ret>>

Happen(g) ==
  /\ phase[g] = "called"
  /\ phase' = [phase EXCEPT ![g] = "done"]
  /\ objects' = Effect(call[g], objects)
  /\ ret' = [ret EXCEPT ![g] = Result(call[g], objects)]
  /\ UNCHANGED call

End(g) ==
  /\ phase[g] = "done"
  /\ phase' = [phase EXCEPT ![g] = "idle"]
  /\ call' = [call EXCEPT ![g] = Nil]
  /\ ret' = [ret EXCEPT ![g] = Nil]
  /\ UNCHANGED objects

Next == \E g \in Goroutines : Begin(g) \/ Happen(g) \/ End(g)

Spec == Init /\ [][Next]_vars
=============================================================================
