---------------------------- MODULE HumanInTheLoop ----------------------------
(***************************************************************************)
(* What the tool-call machinery promises the technician, with none of its  *)
(* mechanism: a command is handed to SSH only after it was allowed (by the *)
(* whitelist or by an approval), at most once, one at a time within a      *)
(* session, and never between the end of a session and the start of the    *)
(* next one.  ToolCalls implements this specification.                     *)
(***************************************************************************)
CONSTANT Calls

VARIABLES
  allowed,   \* commands the whitelist or a technician let through
  sent,      \* commands handed to the SSH runner
  running,   \* those of the current session that have not come back yet
  open       \* may the session send commands?

vars == <<allowed, sent, running, open>>

Init ==
  /\ allowed = {}
  /\ sent = {}
  /\ running = {}
  /\ open = TRUE

Allow(c) ==
  /\ allowed' = allowed \cup {c}
  /\ UNCHANGED <<sent, running, open>>

Send(c) ==
  /\ open
  /\ c \in allowed \ sent
  /\ running = {}
  /\ sent' = sent \cup {c}
  /\ running' = {c}
  /\ UNCHANGED <<allowed, open>>

Return(c) ==
  /\ running' = running \ {c}
  /\ UNCHANGED <<allowed, sent, open>>

Close ==
  /\ open' = FALSE
  /\ UNCHANGED <<allowed, sent, running>>

\* A new session answers only for its own commands.
Reopen ==
  /\ ~open
  /\ open' = TRUE
  /\ running' = {}
  /\ UNCHANGED <<allowed, sent>>

Next ==
  \/ \E c \in Calls : Allow(c) \/ Send(c) \/ Return(c)
  \/ Close
  \/ Reopen

Spec == Init /\ [][Next]_vars
===============================================================================
