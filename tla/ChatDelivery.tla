----------------------------- MODULE ChatDelivery -----------------------------
(***************************************************************************)
(* What a technician who talks to the agent can rely on: an input that was *)
(* accepted waits until the agent hears it, once, or until it is lost; what *)
(* was heard or lost does not come back.                                   *)
(***************************************************************************)
CONSTANTS
  Inputs,  \* what the agent can be told
  Opening  \* the inputs a chat begins with

VARIABLES
  accepted,  \* inputs that were answered with "accepted"
  waiting,   \* of these, the inputs that the agent may still hear
  heard      \* of these, the inputs that the agent has heard

vars == <<accepted, waiting, heard>>

Init ==
  /\ accepted = Opening
  /\ waiting = Opening
  /\ heard = {}

\* A loop that is on its way out accepts what it will not hear.
Accept(m) ==
  /\ m \in Inputs \ accepted
  /\ accepted' = accepted \cup {m}
  /\ waiting' \in {waiting, waiting \cup {m}}
  /\ UNCHANGED heard

Hear(m) ==
  /\ m \in waiting
  /\ waiting' = waiting \ {m}
  /\ heard' = heard \cup {m}
  /\ UNCHANGED accepted

\* A loop or the server ends, with what waits there.
Lose(S) ==
  /\ waiting' = waiting \ S
  /\ UNCHANGED <<accepted, heard>>

Next ==
  \/ \E m \in Inputs : Accept(m) \/ Hear(m)
  \/ \E S \in SUBSET waiting : Lose(S)

Spec == Init /\ [][Next]_vars
===============================================================================
