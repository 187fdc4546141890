------------------------------- MODULE Slices -------------------------------
(***************************************************************************)
(* The slices of src/dcos/nodeutil: how findTask and ContainerIDs build    *)
(* them, and what a decoded list of a finite set of things is; StartsWith  *)
(* is for paths as well.                                                   *)
(***************************************************************************)
EXTENDS Integers, Sequences, FiniteSets, Functions

\* The slices of ss, appended one after the other to a slice that was empty.
Appended(ss) ==
  LET all[i \in 0 .. Len(ss)] == IF i = 0 THEN <<>> ELSE all[i - 1] \o ss[i]
  IN  all[Len(ss)]

\* The elements of S in an order that a caller cannot rely on.
Listed(S) == CHOOSE f \in [1 .. Cardinality(S) -> S] : IsInjective(f)

StartsWith(s, prefix) ==
  Len(prefix) <= Len(s) /\ \A i \in 1 .. Len(prefix) : s[i] = prefix[i]
=============================================================================
