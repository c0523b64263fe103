----------------------------- MODULE HttpFetch -----------------------------
(***************************************************************************)
(* What http_get_content() in src/hub.c promises to the commands: for each *)
(* request either the whole contents of what was asked for, or the end of  *)
(* the command.  Connections, repetitions, redirects and the way contents  *)
(* are sent do not show.                                                   *)
(***************************************************************************)
CONSTANTS
  Resources,  \* what may be asked for
  Contents,   \* the contents each of them may have
  Nothing     \* no contents, which is not among them

VARIABLES
  phase,    \* "idle", "asked", or "exit" when the command has ended
  wanted,   \* what is asked for
  content   \* what the last request has got

vars == <<phase, wanted, content>>

Init == phase = "idle" /\ wanted \in Resources /\ content = Nothing

Ask ==
  /\ phase = "idle"
  /\ phase' = "asked" /\ wanted' \in Resources /\ content' = Nothing

\* A command may have only one request.
Deliver ==
  /\ phase = "asked"
  /\ phase' \in {"idle", "exit"}
  /\ content' \in Contents[wanted]
  /\ UNCHANGED wanted

Fail ==
  /\ phase = "asked"
  /\ phase' = "exit"
  /\ UNCHANGED <<wanted, content>>

Quit == phase = "idle" /\ phase' = "exit" /\ UNCHANGED <<wanted, content>>

Next == Ask \/ Deliver \/ Fail \/ Quit

\* A request comes to an end.
Spec == Init /\ [][Next]_vars /\ WF_vars(Deliver \/ Fail)
=============================================================================
