----------------------------- MODULE Observation -----------------------------
(***************************************************************************)
(* What an observation promises the rest of the provider: a status that    *)
(* fits what exists of the cluster.  Creating, which starts a creation, is *)
(* reported only when the state store has no cluster; Ready and Updating,  *)
(* which let updates run, only when the cloud resources were built.  The   *)
(* observation takes time, and what exists may grow meanwhile.             *)
(***************************************************************************)
VARIABLES
    external,  \* what exists of the cluster
    status     \* the outcome of the observation, "None" until there is one

vars == <<external, status>>

External  == {"absent", "config", "built"}
Operating == {"Ready", "Updating"}

Init == external \in External /\ status = "None"

(* kops commands of a creation, or of a user; this provider removes nothing. *)
Grow ==
    /\ external' \in (IF external = "absent" THEN {"config", "built"} ELSE {"built"})
    /\ UNCHANGED status

NotFound == external = "absent" /\ status' = "Creating" /\ UNCHANGED external

Found ==
    /\ external # "absent"
    /\ \/ status' \in {"Progressing", "Unknown"}
       \/ external = "built" /\ status' \in Operating
    /\ UNCHANGED external

(* An error, or the end of the reconcile. *)
Forget == status' = "None" /\ UNCHANGED external

Next == Grow \/ NotFound \/ Found \/ Forget

Spec == Init /\ [][Next]_vars

(* The kops commands of an update work only on a cluster that was built. *)
OperatingIsBuilt == status \in Operating => external = "built"
=============================================================================
