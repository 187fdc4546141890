----------------------------- MODULE MCMemStore -----------------------------
EXTENDS MemStore

CONSTANTS k1, k2, v1, v2

Both(v) == [k \in {k1, k2} |-> v]

\* Iterations against calls that change several keys or the size, and all the others.
MCMixes ==
  {{[op |-> "Objects"], [op |-> "GetByRegex", bad |-> FALSE, matches |-> {k2}],
    [op |-> "Supplant", map |-> Both(v2)], [op |-> "Delete", key |-> k1]},
   {[op |-> "GetByRegex", bad |-> TRUE, matches |-> {}], [op |-> "Get", key |-> k1],
    [op |-> "Set", key |-> k1, val |-> v2], [op |-> "Purge"], [op |-> "Size"]}}

MCInitial == {Empty, Both(v1)}
=============================================================================
