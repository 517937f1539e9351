--------------------------- MODULE DeliveryContract ---------------------------
(***************************************************************************)
(* What a caller of the durable notification methods is promised, with no  *)
(* tables, leases, tokens or workers: a note that was taken in stays       *)
(* pending until it is settled exactly once, either as sent, and then only *)
(* after a provider took the message or policy suppressed it, or as dead.  *)
(* A settled note never goes back; it can only be purged.  The contract    *)
(* does allow a message to reach the provider more than once.              *)
(***************************************************************************)
EXTENDS Naturals

CONSTANT Notes                 \* the notifications that may be submitted

VARIABLES
  status,                      \* where each note is in its life
  accepted,                    \* how often a provider took its message
  suppressed                   \* a policy decided not to send it

contractVars == <<status, accepted, suppressed>>

Statuses == {"new", "pending", "sent", "dead", "purged"}

Init ==
  /\ status = [n \in Notes |-> "new"]
  /\ accepted = [n \in Notes |-> 0]
  /\ suppressed = [n \in Notes |-> FALSE]

Submit(n) ==
  /\ status[n] = "new"
  /\ status' = [status EXCEPT ![n] = "pending"]
  /\ UNCHANGED <<accepted, suppressed>>

\* A provider takes the message; a slow worker may do so after the note settled.
ProviderTakes(n) ==
  /\ status[n] # "new"
  /\ accepted' = [accepted EXCEPT ![n] = @ + 1]
  /\ UNCHANGED <<status, suppressed>>

Suppress(n) ==
  /\ status[n] # "new"
  /\ suppressed' = [suppressed EXCEPT ![n] = TRUE]
  /\ UNCHANGED <<status, accepted>>

SettleSent(n) ==
  /\ status[n] = "pending"
  /\ accepted[n] > 0 \/ suppressed[n]
  /\ status' = [status EXCEPT ![n] = "sent"]
  /\ UNCHANGED <<accepted, suppressed>>

SettleDead(n) ==
  /\ status[n] = "pending"
  /\ status' = [status EXCEPT ![n] = "dead"]
  /\ UNCHANGED <<accepted, suppressed>>

\* Retention removes any number of settled notes at once.
PurgeSettled(S) ==
  /\ \A n \in S : status[n] \in {"sent", "dead"}
  /\ status' = [n \in Notes |-> IF n \in S THEN "purged" ELSE status[n]]
  /\ UNCHANGED <<accepted, suppressed>>

Next ==
  \/ \E n \in Notes :
       \/ Submit(n)
       \/ ProviderTakes(n)
       \/ Suppress(n)
       \/ SettleSent(n)
       \/ SettleDead(n)
  \/ \E S \in SUBSET Notes : PurgeSettled(S)

Spec == Init /\ [][Next]_contractVars
===============================================================================
