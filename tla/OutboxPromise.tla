--------------------------- MODULE OutboxPromise ---------------------------
(***************************************************************************)
(* What the transactional outbox promises the rest of the service, with no *)
(* publisher, batch, lock or session in sight (README "Transactional       *)
(* Outbox" and the guarantees table): a row written by a committed         *)
(* transaction is posted while it is pending, at most MaxAttempts times    *)
(* plus once per interruption of a publisher, and is then settled once and *)
(* for all -- as sent only if Capashino has it, as failed only if          *)
(* Capashino refused it or the attempts were used up.                      *)
(***************************************************************************)
EXTENDS Naturals

CONSTANTS
  Row,          \* the outbox rows
  Audit,        \* the rows nobody is notified of (ticket_cancelled)
  MaxAttempts   \* settings.outbox_max_attempts

VARIABLES
  outcome,      \* outcome[r]: "absent", "pending", "sent" or "failed"
  tries,        \* tries[r]: requests that left for Capashino for row r
  accepted,     \* rows whose notification Capashino has
  refused,      \* rows Capashino refused for good
  interrupted   \* how many times a publisher was interrupted

promiseVars == <<outcome, tries, accepted, refused, interrupted>>

Init ==
  /\ outcome = [r \in Row |-> "absent"]
  /\ tries = [r \in Row |-> 0]
  /\ accepted = {}
  /\ refused = {}
  /\ interrupted = 0

Write(r) ==
  /\ outcome[r] = "absent"
  /\ outcome' = [outcome EXCEPT ![r] = "pending"]
  /\ UNCHANGED <<tries, accepted, refused, interrupted>>

\* One request to Capashino: it may be accepted, refused, or come to nothing.
Post(r) ==
  /\ r \notin Audit
  /\ outcome[r] = "pending"
  /\ tries[r] < MaxAttempts + interrupted
  /\ tries' = [tries EXCEPT ![r] = @ + 1]
  /\ accepted' \in {accepted, accepted \cup {r}}
  /\ refused' \in {refused, refused \cup {r}}
  /\ UNCHANGED <<outcome, interrupted>>

Settled(r) ==
  \/ /\ r \in accepted \cup Audit
     /\ outcome' = [outcome EXCEPT ![r] = "sent"]
  \/ /\ r \in refused \/ tries[r] >= MaxAttempts
     /\ outcome' = [outcome EXCEPT ![r] = "failed"]

Settle(r) ==
  /\ outcome[r] = "pending"
  /\ Settled(r)
  /\ UNCHANGED <<tries, accepted, refused, interrupted>>

\* An interruption may catch a publisher after its commit took effect.
Interrupt ==
  /\ interrupted' = interrupted + 1
  /\ \/ outcome' = outcome
     \/ \E r \in Row : outcome[r] = "pending" /\ Settled(r)
  /\ UNCHANGED <<tries, accepted, refused>>

Next ==
  \/ \E r \in Row : Write(r) \/ Post(r) \/ Settle(r)
  \/ Interrupt

Spec == Init /\ [][Next]_promiseVars
=============================================================================
