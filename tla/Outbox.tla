------------------------------- MODULE Outbox -------------------------------
(***************************************************************************)
(* The outbox table and the publishers that drain it:                      *)
(* services/outbox_publisher.py, db/repositories/outbox.py and what the    *)
(* Capashino client makes of an answer.                                    *)
(*                                                                         *)
(* A publisher opens one session per batch, selects up to BatchSize        *)
(* pending rows FOR UPDATE SKIP LOCKED, then, row by row, posts the        *)
(* notification and commits the outcome.  Two facts of the session matter: *)
(* the first commit of the batch ends the transaction that holds the locks *)
(* of the WHOLE batch, and rows are not expired on commit, so the attempts *)
(* a publisher increments are those it read when it fetched the batch.     *)
(*                                                                         *)
(* A row is a number, its rank by created_at (taken before the writer's    *)
(* commit, so rows may appear in any order).                               *)
(***************************************************************************)
EXTENDS Naturals, FiniteSets

CONSTANTS
  Row,               \* outbox rows, ordered by created_at
  Audit,             \* the rows of type ticket_cancelled, never sent anywhere
  Worker,            \* publisher processes
  BatchSize,         \* settings.outbox_batch_size
  MaxAttempts,       \* settings.outbox_max_attempts
  Answer,            \* the answers Capashino may give
  MaxInterruptions   \* bound: crashes, stops, cancellations, failed commits

AnswerKind == {"created", "conflict", "rejected", "error", "lost"}

ASSUME RowAssumption == Row \subseteq Nat /\ IsFiniteSet(Row)
ASSUME AuditAssumption == Audit \subseteq Row
ASSUME LimitAssumption == /\ BatchSize \in Nat \ {0}
                          /\ MaxAttempts \in Nat \ {0}
                          /\ MaxInterruptions \in Nat
ASSUME AnswerAssumption == Answer \subseteq AnswerKind

VARIABLES
  status,        \* status[r]: outbox_events.status, "absent" before the insert
  attempts,      \* attempts[r]: outbox_events.attempts
  pc,            \* pc[w]: "down", "idle", "sending" or "marking"
  todo,          \* todo[w]: rows of the batch not yet done with
  seen,          \* seen[w][r]: the attempts w read for r with its batch
  held,          \* held[w]: rows locked by w's open transaction
  reply,         \* reply[w]: what the dispatch of the current row came to
  stopping,      \* stopping[w]: the stop event of w is set
  delivered,     \* Capashino: rows whose idempotency key it has accepted
  rejected,      \* Capashino: rows it refused for good (400, 401, 403, 422)
  posts,         \* history: requests that left for Capashino, per row
  interruptions  \* history: interruptions of publishers so far

tableVars == <<status, attempts>>
workerVars == <<pc, todo, seen, held, reply, stopping>>
capashinoVars == <<delivered, rejected, posts>>
vars == <<tableVars, workerVars, capashinoVars, interruptions>>

Status == {"absent", "pending", "sent", "failed"}
Reply == {"none", "ok", "permanent", "temporary"}

TypeOK ==
  /\ status \in [Row -> Status]
  /\ attempts \in [Row -> 0 .. MaxAttempts]
  /\ pc \in [Worker -> {"down", "idle", "sending", "marking"}]
  /\ todo \in [Worker -> SUBSET Row]
  /\ seen \in [Worker -> [Row -> 0 .. MaxAttempts]]
  /\ held \in [Worker -> SUBSET Row]
  /\ reply \in [Worker -> Reply]
  /\ stopping \in [Worker -> BOOLEAN]
  /\ delivered \subseteq Row
  /\ rejected \subseteq Row
  /\ posts \in [Row -> Nat]
  /\ interruptions \in 0 .. MaxInterruptions

Init ==
  /\ status = [r \in Row |-> "absent"]
  /\ attempts = [r \in Row |-> 0]
  /\ pc = [w \in Worker |-> "idle"]
  /\ todo = [w \in Worker |-> {}]
  /\ seen = [w \in Worker |-> [r \in Row |-> 0]]
  /\ held = [w \in Worker |-> {}]
  /\ reply = [w \in Worker |-> "none"]
  /\ stopping = [w \in Worker |-> FALSE]
  /\ delivered = {}
  /\ rejected = {}
  /\ posts = [r \in Row |-> 0]
  /\ interruptions = 0

-----------------------------------------------------------------------------
(* The table and the row the publisher is at.                              *)

\* A purchase or a cancellation commits a new outbox row.
Add(r) ==
  /\ status[r] = "absent"
  /\ status' = [status EXCEPT ![r] = "pending"]
  /\ attempts' = [attempts EXCEPT ![r] = 0]
  /\ UNCHANGED <<workerVars, capashinoVars, interruptions>>

Pending == {r \in Row : status[r] = "pending"}

Locked == UNION {held[w] : w \in Worker}

\* Variant: the select does not skip the rows others have locked.
ReadyIgnoringLocks == Pending

Ready == Pending \ Locked

IsBatch(S) ==
  /\ S # {}
  /\ S \subseteq Ready
  /\ \A s \in S, r \in Ready \ S : s < r
  /\ Cardinality(S) <= BatchSize
  /\ S = Ready \/ Cardinality(S) = BatchSize

Current(w, r) == r \in todo[w] /\ \A q \in todo[w] : r <= q

\* Variant: the session is not closed when its publisher gives up a batch.
LeaveBatchLocked(w, next) ==
  /\ pc' = [pc EXCEPT ![w] = next]
  /\ todo' = [todo EXCEPT ![w] = {}]
  /\ reply' = [reply EXCEPT ![w] = "none"]
  /\ UNCHANGED held

\* The session closes: whatever it still had locked is free.
LeaveBatch(w, next) ==
  /\ pc' = [pc EXCEPT ![w] = next]
  /\ todo' = [todo EXCEPT ![w] = {}]
  /\ held' = [held EXCEPT ![w] = {}]
  /\ reply' = [reply EXCEPT ![w] = "none"]

-----------------------------------------------------------------------------
(* One iteration of a publisher: fetch_pending, then dispatch and mark.    *)

Fetch(w) ==
  /\ pc[w] = "idle"
  /\ ~stopping[w]
  /\ \E S \in SUBSET Row :
       /\ IsBatch(S)
       /\ todo' = [todo EXCEPT ![w] = S]
       /\ held' = [held EXCEPT ![w] = S]
       /\ seen' = [seen EXCEPT ![w] = [r \in Row |-> IF r \in S THEN attempts[r]
                                                               ELSE 0]]
  /\ pc' = [pc EXCEPT ![w] = "sending"]
  /\ UNCHANGED <<tableVars, reply, stopping, capashinoVars, interruptions>>

\* A poll that finds nothing to lock goes back to sleep.
EmptyPoll(w) ==
  /\ pc[w] = "idle"
  /\ ~stopping[w]
  /\ Ready = {}
  /\ UNCHANGED vars

\* A ticket_cancelled row is only acknowledged: nothing is sent.
Acknowledge(w, r) ==
  /\ r \in Audit
  /\ reply' = [reply EXCEPT ![w] = "ok"]
  /\ UNCHANGED capashinoVars

\* Capashino remembers the idempotency keys it has accepted: a repeated one is
\* answered like the first or with 409.  "lost": it accepts, but the answer is
\* a timeout, a broken connection or a body the client cannot read.
Possible(r, answer) == answer = "conflict" => r \in delivered

\* Variant: the handler takes every answer but a refusal for a success.
ClassifyAsSuccess(answer) == IF answer = "rejected" THEN "permanent" ELSE "ok"

\* Variant: a server error or a timeout is taken for a permanent refusal.
ClassifyAsPermanent(answer) ==
  IF answer \in {"created", "conflict"} THEN "ok" ELSE "permanent"

\* How _publish_one classifies what send_notification returned or raised.
Classify(answer) ==
  CASE answer \in {"created", "conflict"} -> "ok"
    [] answer = "rejected"                -> "permanent"
    [] OTHER                              -> "temporary"

Send(w, r) ==
  /\ r \notin Audit
  /\ \E answer \in Answer :
       /\ Possible(r, answer)
       /\ posts' = [posts EXCEPT ![r] = @ + 1]
       /\ delivered' = IF answer \in {"created", "lost"} THEN delivered \cup {r}
                                                         ELSE delivered
       /\ rejected' = IF answer = "rejected" THEN rejected \cup {r} ELSE rejected
       /\ reply' = [reply EXCEPT ![w] = Classify(answer)]

\* What raises before there is a request (a payload without a key or with a bad
\* UUID, an unknown type) counts as a failed attempt too; it is left out, since no
\* row that module Tickets adds gets there.
Dispatch(w) ==
  /\ pc[w] = "sending"
  /\ \E r \in Row : Current(w, r) /\ (Acknowledge(w, r) \/ Send(w, r))
  /\ pc' = [pc EXCEPT ![w] = "marking"]
  /\ UNCHANGED <<tableVars, todo, seen, held, stopping, interruptions>>

\* Variant: one attempt too many before the row is failed.
AttemptLimitOffByOne(w) == MaxAttempts + 1

\* The row after MaxAttempts failed attempts, or one permanent failure, is failed.
AttemptLimit(w) == IF reply[w] = "permanent" THEN 1 ELSE MaxAttempts

MarkSent(r) ==
  /\ status' = [status EXCEPT ![r] = "sent"]
  /\ UNCHANGED attempts

\* Variant: the attempt is not counted.
MarkUncounted(w, r) ==
  /\ attempts' = [attempts EXCEPT ![r] = seen[w][r]]
  /\ status' = [status EXCEPT ![r] = IF AttemptLimit(w) = 1 THEN "failed" ELSE @]

\* Only changed columns are written: below the limit the status is not.
MarkFailedAttempt(w, r) ==
  /\ attempts' = [attempts EXCEPT ![r] = seen[w][r] + 1]
  /\ status' = [status EXCEPT ![r] = IF seen[w][r] + 1 >= AttemptLimit(w)
                                       THEN "failed" ELSE @]

Record(w, r) == IF reply[w] = "ok" THEN MarkSent(r) ELSE MarkFailedAttempt(w, r)

\* The UPDATE waits for a row another transaction has locked.
Lockable(w, r) == \A v \in Worker \ {w} : r \notin held[v]

\* The commit succeeds and frees every lock of the batch.
Mark(w) ==
  /\ pc[w] = "marking"
  /\ \E r \in Row :
       /\ Current(w, r)
       /\ Lockable(w, r)
       /\ Record(w, r)
       /\ todo' = [todo EXCEPT ![w] = @ \ {r}]
       /\ pc' = [pc EXCEPT ![w] = IF todo[w] = {r} THEN "idle" ELSE "sending"]
  /\ held' = [held EXCEPT ![w] = {}]
  /\ reply' = [reply EXCEPT ![w] = "none"]
  /\ UNCHANGED <<seen, stopping, capashinoVars, interruptions>>

-----------------------------------------------------------------------------
(* What interrupts a publisher.                                            *)

Interrupted ==
  /\ interruptions < MaxInterruptions
  /\ interruptions' = interruptions + 1

\* The commit raises: the rest of the batch is given up.  A connection lost
\* during COMMIT leaves its effect unknown.
CommitFails(w) ==
  /\ pc[w] = "marking"
  /\ Interrupted
  /\ \/ UNCHANGED tableVars
     \/ \E r \in Row : Current(w, r) /\ Lockable(w, r) /\ Record(w, r)
  /\ LeaveBatch(w, "idle")
  /\ UNCHANGED <<seen, stopping, capashinoVars>>

Stop(w) ==
  /\ pc[w] # "down"
  /\ ~stopping[w]
  /\ Interrupted
  /\ stopping' = [stopping EXCEPT ![w] = TRUE]
  /\ UNCHANGED <<tableVars, pc, todo, seen, held, reply, capashinoVars>>

\* A publisher asked to stop finishes its batch before it leaves the loop.
Exit(w) ==
  /\ pc[w] = "idle"
  /\ stopping[w]
  /\ LeaveBatch(w, "down")
  /\ UNCHANGED <<tableVars, seen, stopping, capashinoVars, interruptions>>

\* The process dies, or the lifespan's five seconds run out and it cancels
\* the task in the middle of a batch.
Crash(w) ==
  /\ pc[w] # "down"
  /\ Interrupted
  /\ LeaveBatch(w, "down")
  /\ UNCHANGED <<tableVars, seen, stopping, capashinoVars>>

Restart(w) ==
  /\ pc[w] = "down"
  /\ pc' = [pc EXCEPT ![w] = "idle"]
  /\ stopping' = [stopping EXCEPT ![w] = FALSE]
  /\ UNCHANGED <<tableVars, todo, seen, held, reply, capashinoVars, interruptions>>

-----------------------------------------------------------------------------
Iterate(w) == Fetch(w) \/ EmptyPoll(w) \/ Dispatch(w) \/ Mark(w)

Disturb(w) == CommitFails(w) \/ Stop(w) \/ Exit(w) \/ Crash(w) \/ Restart(w)

Next ==
  \/ \E r \in Row : Add(r)
  \/ \E w \in Worker : Iterate(w) \/ Disturb(w)

Spec == Init /\ [][Next]_vars

(* The event loop keeps running every publisher that can run, every HTTP   *)
(* call ends (the client has a timeout) and a process that went down is    *)
(* started again.  Nothing forces a purchase, an interruption or an answer.*)
Fairness ==
  \A w \in Worker :
    /\ WF_vars(Fetch(w))
    /\ WF_vars(Dispatch(w))
    /\ WF_vars(Mark(w))
    /\ WF_vars(Exit(w))
    /\ WF_vars(Restart(w))

FairSpec == Spec /\ Fairness

-----------------------------------------------------------------------------
(* Properties.                                                             *)

\* Publishers whose batches cannot overlap: there is one of them, or a batch
\* is one row, which stays locked until its outcome is committed.
Exclusive == BatchSize = 1 \/ \A u, v \in Worker : u = v

\* At-least-once (README "at-least-once delivery"): a purchase row is marked
\* sent only when Capashino has its notification, whatever was lost, resent,
\* interrupted or handled by two publishers at once.
SentMeansDelivered ==
  \A r \in Row \ Audit : status[r] = "sent" => r \in delivered

\* outbox_max_attempts: a row is given up only after a refusal for good or
\* after MaxAttempts requests, even when publishers overwrite one another's
\* count with a stale one.
NoPrematureFailure ==
  \A r \in Row : status[r] = "failed" =>
    r \in rejected \/ posts[r] >= MaxAttempts

\* Exclusive publishers send a row at most MaxAttempts times and once more for
\* each interruption.  Only one that falls between a send and its commit costs a
\* send; the bound allows for every interruption, a stop in the pause as well.
PostsBounded == \A r \in Row : posts[r] <= MaxAttempts + interruptions

\* Exclusive publishers keep the promise of the outbox: a row is posted only
\* while pending and settled once.
Promise == INSTANCE OutboxPromise
             WITH outcome <- status, tries <- posts, accepted <- delivered,
                  refused <- rejected, interrupted <- interruptions
ImplementsPromise == Promise!Spec

\* A publisher that has to wait for a row another one has locked has no row
\* locked itself: publishers never wait for each other, however their batches
\* overlap after their first commits.
WaitersHoldNothing ==
  \A w \in Worker : \A r \in Row :
    pc[w] = "marking" /\ Current(w, r) /\ ~Lockable(w, r) => held[w] = {}

\* Every committed row is settled in the end: attempts are used up, no row is
\* starved by the rows before it, and no lock outlives its session.
EveryRowSettles ==
  \A r \in Row : status[r] = "pending" ~> status[r] \in {"sent", "failed"}

\* README "FOR UPDATE SKIP LOCKED ... не даст дублей при отправке": no row is
\* posted twice when nothing fails.  Batches of two publishers overlap, so
\* the code does not keep it.
AtMostOnePost == \A r \in Row : posts[r] <= 1

=============================================================================
