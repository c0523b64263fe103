-------------------------- MODULE PackageRegistry --------------------------
(***************************************************************************)
(* What the package manager promises, seen from the prompt: each package   *)
(* is absent, partially installed or installed, and one command at a time  *)
(* works on it.  A package becomes installed only by an install that began *)
(* with it absent; a partial one, left by a failed install, can only be    *)
(* removed; an installed one changes only by being removed.  Whatever goes *)
(* wrong, each command ends.                                               *)
(***************************************************************************)
CONSTANT Packages

VARIABLES
  state,   \* package -> what the list of installed packages tells of it
  job      \* the running command, or NoJob

vars == <<state, job>>

NoJob == [op |-> "none"]
Job == [op : {"install", "remove", "upgrade"}, pkg : Packages]

Init ==
  /\ state = [p \in Packages |-> "absent"]
  /\ job = NoJob

Begin(p) ==
  /\ job = NoJob
  /\ \/ state[p] = "absent" /\ job' = [op |-> "install", pkg |-> p]
     \/ state[p] # "absent" /\ \E op \in {"remove", "upgrade"} : job' = [op |-> op, pkg |-> p]
  /\ UNCHANGED state

Enter ==
  /\ job.op = "install"
  /\ state[job.pkg] = "absent"
  /\ state' = [state EXCEPT ![job.pkg] = "partial"]
  /\ UNCHANGED job

Finish ==
  /\ job.op = "install"
  /\ state[job.pkg] = "partial"
  /\ state' = [state EXCEPT ![job.pkg] = "installed"]
  /\ job' = NoJob

\* An upgrade is a removal followed by an install.
Remove ==
  /\ job.op \in {"remove", "upgrade"}
  /\ state' = [state EXCEPT ![job.pkg] = "absent"]
  /\ job' = IF job.op = "remove" THEN NoJob ELSE [job EXCEPT !.op = "install"]

Fail == job # NoJob /\ job' = NoJob /\ UNCHANGED state

Work == Enter \/ Finish \/ Remove \/ Fail

Next == Work \/ \E p \in Packages : Begin(p)

Spec == Init /\ [][Next]_vars /\ WF_vars(Work)
=============================================================================
