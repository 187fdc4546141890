------------------------------ MODULE NodeUtil ------------------------------
(***************************************************************************)
(* NewNodeInfo and the methods of dcosInfo together.  No method runs       *)
(* before NewNodeInfo has returned, and TaskCanonicalID takes no lock and  *)
(* neither reads nor fills the cache, so a behaviour has one part move:    *)
(* the options, the methods that share the mutex, or the lookups of tasks. *)
(***************************************************************************)
EXTENDS NodeInfo, NodeOptions, TaskLookup

VARIABLE part

utilVars == <<part, optionVars, vars, taskVars>>

UtilInit ==
  /\ part \in {"options", "node", "tasks"}
  /\ OptionInit /\ Init /\ TaskInit
  /\ part # "options" => info.client /\ info.role = CHOOSE r \in Roles \cap ValidRoles : TRUE
  /\ part # "node" => cache /\ ~master /\ nodeID = 1

UtilNext ==
  \/ part = "options" /\ OptionNext /\ UNCHANGED <<part, vars, taskVars>>
  \/ part = "node" /\ Next /\ UNCHANGED <<part, optionVars, taskVars>>
  \/ part = "tasks" /\ TaskNext /\ UNCHANGED <<part, optionVars, vars>>

UtilSpec == UtilInit /\ [][UtilNext]_utilVars /\ \A r \in Callers : SF_vars(Proceed(r))
=============================================================================
