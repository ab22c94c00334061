--------------------------- MODULE RequestOutcome ---------------------------
(***************************************************************************)
(* What WalletChan promises about one user-reviewed request, whatever      *)
(* surfaces, revocations, resets and restarts do to it: it leaves the      *)
(* wallet at most once, only after it was approved, never after it was     *)
(* denied, and the page hears the outcome that really happened, once.      *)
(***************************************************************************)
CONSTANT Requests

VARIABLES phase,   \* where the request is
          told     \* what the page was told of it

outcomeVars == <<phase, told>>

Phases == {"new", "pending", "approved", "sent", "gone"}
Answers == {"nothing", "success", "denial"}

OutcomeTypeOK == phase \in [Requests -> Phases] /\ told \in [Requests -> Answers]

OutcomeInit ==
  /\ phase = [t \in Requests |-> "new"]
  /\ told = [t \in Requests |-> "nothing"]

Move(t, from, to) ==
  /\ phase[t] \in from
  /\ phase' = [phase EXCEPT ![t] = to]
  /\ UNCHANGED told

Queue(t) == Move(t, {"new"}, "pending")
Approve(t) == Move(t, {"pending"}, "approved")
Send(t) == Move(t, {"approved"}, "sent")

\* Rejected, revoked, failed before the effect, or lost with the worker or the
\* wallet: several requests at once in a reset or a restart.
Drop(ts) ==
  /\ ts # {}
  /\ \A t \in ts : phase[t] \in {"new", "pending", "approved"}
  /\ phase' = [t \in Requests |-> IF t \in ts THEN "gone" ELSE phase[t]]
  /\ UNCHANGED told

Tell(t) ==
  /\ told[t] = "nothing"
  /\ \/ phase[t] = "sent" /\ told' = [told EXCEPT ![t] = "success"]
     \/ phase[t] = "gone" /\ told' = [told EXCEPT ![t] = "denial"]
  /\ UNCHANGED phase

OutcomeNext ==
  \/ \E t \in Requests : Queue(t) \/ Approve(t) \/ Send(t) \/ Tell(t)
  \/ \E ts \in SUBSET Requests : Drop(ts)

OutcomeSpec == OutcomeInit /\ [][OutcomeNext]_outcomeVars
=============================================================================
