------------------------------ MODULE Election ------------------------------
(***************************************************************************)
(* What the elector of src/elector promises, without goroutines, watches   *)
(* or connections.  A member that joins the election draws a ticket; a     *)
(* member may begin to act as leader while it is the candidate with the    *)
(* lowest ticket, and stops only once it is no longer a candidate.         *)
(*                                                                         *)
(* Tickets come from a counter of bounded width.  Once it is exhausted     *)
(* nothing is promised any more.                                           *)
(***************************************************************************)
EXTENDS Integers

CONSTANT Members

VARIABLES
  next,        \* the next ticket
  exhausted,   \* the counter has gone round
  ticket,      \* ticket[m]: m's last ticket
  candidates,  \* the members taking part
  acting       \* the members that consider themselves leader

vars == <<next, exhausted, ticket, candidates, acting>>

Init ==
  /\ next \in Int
  /\ exhausted = FALSE
  /\ ticket \in [Members -> Int]
  /\ candidates = {}
  /\ acting = {}

\* m holds the lowest ticket.
First(m) == m \in candidates /\ \A n \in candidates : ticket[m] <= ticket[n]

\* A member that acts as leader does not queue again.
Join(m) ==
  /\ m \notin candidates \cup acting
  /\ candidates' = candidates \cup {m}
  /\ ticket' = [ticket EXCEPT ![m] = next]
  /\ next' \in Int
  /\ exhausted' \in BOOLEAN
  /\ exhausted \/ next' <= next => exhausted'
  /\ UNCHANGED acting

\* m withdraws, or is removed; it may not know yet.
Leave(m) ==
  /\ m \in candidates
  /\ candidates' = candidates \ {m}
  /\ UNCHANGED <<next, exhausted, ticket, acting>>

Lead(m) ==
  /\ exhausted \/ First(m)
  /\ acting' = acting \cup {m}
  /\ UNCHANGED <<next, exhausted, ticket, candidates>>

StandDown(m) ==
  /\ exhausted \/ m \notin candidates
  /\ acting' = acting \ {m}
  /\ UNCHANGED <<next, exhausted, ticket, candidates>>

Next == \E m \in Members : Join(m) \/ Leave(m) \/ Lead(m) \/ StandDown(m)

Spec == Init /\ [][Next]_vars

=============================================================================
