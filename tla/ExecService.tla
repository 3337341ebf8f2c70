---------------------------- MODULE ExecService ----------------------------
(***************************************************************************)
(* What _SCDPluginExecCommand promises the plug-ins of configd: a child    *)
(* that was started with a callout is reported to it exactly once, on the  *)
(* plug-in run loop, after it has exited.                                  *)
(***************************************************************************)
CONSTANT Pids

VARIABLES
  child,   \* what has become of each child
  wanted   \* the children with a callout that has not been made

execVars == <<child, wanted>>

Stages == {"none", "running", "exited"}

ExecInit ==
  /\ child = [p \in Pids |-> "none"]
  /\ wanted = {}

Start(p, callout) ==
  /\ child[p] = "none"
  /\ child' = [child EXCEPT ![p] = "running"]
  /\ wanted' = IF callout THEN wanted \cup {p} ELSE wanted

Exit(p) ==
  /\ child[p] = "running"
  /\ child' = [child EXCEPT ![p] = "exited"]
  /\ UNCHANGED wanted

Callout(p) ==
  /\ p \in wanted
  /\ child[p] = "exited"
  /\ child' = [child EXCEPT ![p] = "none"]
  /\ wanted' = wanted \ {p}

\* A child without a callout is gone once it has been waited for.
Reap(p) ==
  /\ p \notin wanted
  /\ child[p] = "exited"
  /\ child' = [child EXCEPT ![p] = "none"]
  /\ UNCHANGED wanted

ExecNext ==
  \E p \in Pids :
    \/ \E callout \in BOOLEAN : Start(p, callout)
    \/ Exit(p)
    \/ Callout(p)
    \/ Reap(p)

ExecSpec == ExecInit /\ [][ExecNext]_execVars
=============================================================================
