------------------------------ MODULE Tickets ------------------------------
(***************************************************************************)
(* Registration and cancellation of tickets for one event:                 *)
(* services/tickets.py and services/seats.py with the repositories they    *)
(* call (db/repositories/tickets.py, idempotency.py, outbox.py), the seats *)
(* cache, and the events provider as these see it.                         *)
(*                                                                         *)
(* A request is a coroutine of the service: one action per stretch of code *)
(* between two awaits, where the state others can see changes.  A call to  *)
(* the provider takes effect there (Buy, Unregister) and is answered later:*)
(* in between, anything may happen.                                        *)
(*                                                                         *)
(* The provider binds ticket_id to the seat, so a seat stands for its      *)
(* ticket_id, and a ticket row is named by the registration that wrote it. *)
(***************************************************************************)
EXTENDS Naturals, FiniteSets

CONSTANTS
  Registration,  \* the POST /api/tickets requests
  Cancellation,  \* the DELETE /api/tickets/{ticket_id} requests
  Seat,
  Key,           \* idempotency keys
  LockId,        \* the values of hashtext(key); keys may collide
  Person,        \* who a registration is for: first_name, last_name, email
  KeyOf,         \* KeyOf[r]: idempotency_key of r, or None
  PersonOf,      \* PersonOf[r]
  SeatOf,        \* SeatOf[q]: the seat r asks for, the ticket c cancels
  LockOf,        \* LockOf[k]: hashtext(k)
  None,
  MaxFaults      \* bound: crashes, lost answers, failed commits, late effects

Request == Registration \cup Cancellation

ASSUME RequestAssumption == Registration \cap Cancellation = {} /\ None \notin Request
ASSUME KeyAssumption == /\ KeyOf \in [Registration -> Key \cup {None}]
                        /\ None \notin Key
                        /\ LockOf \in [Key -> LockId]
ASSUME DataAssumption == /\ PersonOf \in [Registration -> Person]
                         /\ SeatOf \in [Request -> Seat]
ASSUME FaultAssumption == MaxFaults \in Nat

VARIABLES
  open,      \* the event is known, published and before its deadline
  tickets,   \* tickets[s]: the registration whose row has ticket_id s, or None
  idem,      \* idem[k]: the registration recorded under key k, or None
  outbox,    \* the requests that committed an outbox row
  lock,      \* lock[l]: the request holding advisory lock l, or None
  cache,     \* the cached list of free seats, or None
  holder,    \* provider: holder[s]: the registration that has seat s, or None
  late,      \* provider: requests it will still act on after their timeout
  pc,        \* pc[q]: where the coroutine of q is
  got,       \* got[r]: the list of free seats r was sent
  response,  \* response[q]: what the client of q was answered
  faults,    \* history: faults so far
  blamed     \* history: registrations that came apart from the provider

dbVars == <<tickets, idem, outbox>>
providerVars == <<holder, late>>
historyVars == <<faults, blamed>>
vars == <<open, dbVars, lock, cache, providerVars, pc, got, response, historyVars>>

RegisterPC == {"locking", "lookup", "checking", "asking", "asked", "buying",
               "sold", "committed"}
UnregisterPC == {"reading", "cancelling", "freed", "kept", "unknown", "deleted"}
Response == {"none", "created", "conflict", "closed", "full", "taken",
             "cancelled", "not_found", "error"}

TypeOK ==
  /\ open \in BOOLEAN
  /\ tickets \in [Seat -> Registration \cup {None}]
  /\ idem \in [Key -> Registration \cup {None}]
  /\ outbox \subseteq Request
  /\ lock \in [LockId -> Registration \cup {None}]
  /\ cache \in (SUBSET Seat) \cup {None}
  /\ holder \in [Seat -> Registration \cup {None}]
  /\ late \subseteq Request
  /\ pc \in [Request -> {"new", "done"} \cup RegisterPC \cup UnregisterPC]
  /\ got \in [Registration -> SUBSET Seat]
  /\ response \in [Request -> Response]
  /\ faults \in 0 .. MaxFaults
  /\ blamed \subseteq Registration

Init ==
  /\ open \in BOOLEAN
  /\ tickets = [s \in Seat |-> None]
  /\ idem = [k \in Key |-> None]
  /\ outbox = {}
  /\ lock = [l \in LockId |-> None]
  /\ cache = None
  /\ holder = [s \in Seat |-> None]
  /\ late = {}
  /\ pc = [q \in Request |-> "new"]
  /\ got = [r \in Registration |-> {}]
  /\ response = [q \in Request |-> "none"]
  /\ faults = 0
  /\ blamed = {}

-----------------------------------------------------------------------------
(* Parts of the steps.                                                     *)

Goto(q, from, to) == pc[q] = from /\ pc' = [pc EXCEPT ![q] = to]

\* Variant: the session outlives its request.
UnlockNever(q) == UNCHANGED lock

\* The session closes with the request: its advisory lock is released.
Unlock(q) == lock' = [l \in LockId |-> IF lock[l] = q THEN None ELSE lock[l]]

\* The request is over: its client gets an answer.
Answer(q, what) ==
  /\ pc' = [pc EXCEPT ![q] = "done"]
  /\ response' = [response EXCEPT ![q] = what]
  /\ Unlock(q)

Fault ==
  /\ faults < MaxFaults
  /\ faults' = faults + 1

Free == {s \in Seat : holder[s] = None}

\* request_hash covers the person and the seat.
SameData(q, r) == PersonOf[q] = PersonOf[r] /\ SeatOf[q] = SeatOf[r]

\* The cancellations of the ticket of s under way, from the read of its row.
Cancelling(s) ==
  {c \in Cancellation : SeatOf[c] = s /\ pc[c] \in {"cancelling", "freed", "kept",
                                                    "unknown"}}

-----------------------------------------------------------------------------
(* POST /api/tickets: TicketService.register.                              *)

Arrive(r) ==
  /\ Goto(r, "new", IF KeyOf[r] = None THEN "checking" ELSE "locking")
  /\ UNCHANGED <<open, dbVars, lock, cache, providerVars, got, response, historyVars>>

\* Variant: the lock is tried, not waited for.
LockWithoutWaiting(r) ==
  /\ Goto(r, "locking", "lookup")
  /\ lock' = [lock EXCEPT ![LockOf[KeyOf[r]]] = r]
  /\ UNCHANGED <<open, dbVars, cache, providerVars, got, response, historyVars>>

\* pg_advisory_xact_lock(hashtext(key)) waits until the lock is free.
Lock(r) ==
  /\ Goto(r, "locking", "lookup")
  /\ lock[LockOf[KeyOf[r]]] = None
  /\ lock' = [lock EXCEPT ![LockOf[KeyOf[r]]] = r]
  /\ UNCHANGED <<open, dbVars, cache, providerVars, got, response, historyVars>>

\* Variant: the request hash is not compared.
ReplayAny(r, recorded) == "created"

\* Variant: the saved record itself is answered.
ReplayRecord(r, recorded) == recorded

\* What a recorded registration answers to a request with its key.
Replay(r, recorded) == IF SameData(r, recorded) THEN "created" ELSE "conflict"

Lookup(r) ==
  /\ pc[r] = "lookup"
  /\ LET recorded == idem[KeyOf[r]] IN
       \/ /\ recorded # None
          /\ Answer(r, Replay(r, recorded))
       \/ /\ recorded = None
          /\ pc' = [pc EXCEPT ![r] = "checking"]
          /\ UNCHANGED <<lock, response>>
  /\ UNCHANGED <<open, dbVars, cache, providerVars, got, historyVars>>

\* The seat must be in the list of free seats, be it cached or just fetched.
Decide(r, seats) ==
  \/ /\ seats = {}
     /\ Answer(r, "full")
  \/ /\ seats # {}
     /\ SeatOf[r] \notin seats
     /\ Answer(r, "taken")
  \/ /\ SeatOf[r] \in seats
     /\ pc' = [pc EXCEPT ![r] = "buying"]
     /\ UNCHANGED <<lock, response>>

\* Unknown event, deadline passed or not published; then a cached list.
CheckEvent(r) ==
  /\ pc[r] = "checking"
  /\ \/ ~open /\ Answer(r, "closed")
     \/ open /\ cache # None /\ Decide(r, cache)
     \/ open /\ cache = None /\ Goto(r, "checking", "asking") /\ UNCHANGED <<lock, response>>
  /\ UNCHANGED <<open, dbVars, cache, providerVars, got, historyVars>>

\* The provider makes up its list of free seats.
ListSeats(r) ==
  /\ Goto(r, "asking", "asked")
  /\ got' = [got EXCEPT ![r] = Free]
  /\ UNCHANGED <<open, dbVars, lock, cache, providerVars, response, historyVars>>

\* The list arrives, maybe after seats were sold or freed, and is cached.
CacheSeats(r) ==
  /\ pc[r] = "asked"
  /\ cache' = got[r]
  /\ Decide(r, got[r])
  /\ got' = [got EXCEPT ![r] = {}]
  /\ UNCHANGED <<open, dbVars, providerVars, historyVars>>

\* The provider sells the seat.  History: a seat is re-sold under blame while
\* its last registration still has a row or a cancellation under way.
Buy(r) ==
  /\ Goto(r, "buying", "sold")
  /\ holder[SeatOf[r]] = None
  /\ holder' = [holder EXCEPT ![SeatOf[r]] = r]
  /\ blamed' = IF tickets[SeatOf[r]] # None \/ Cancelling(SeatOf[r]) # {}
                 THEN blamed \cup {r} ELSE blamed
  /\ UNCHANGED <<open, dbVars, lock, cache, late, got, response, faults>>

\* The provider knows no such event, for the list (404, answered as no seats) or
\* for the purchase (404), or refuses the purchase (400): whatever its reason, the
\* seat is said to be taken.
Refuse(r) ==
  /\ \/ pc[r] = "asking" /\ Answer(r, "full")
     \/ pc[r] = "buying" /\ \E what \in {"closed", "taken"} : Answer(r, what)
  /\ UNCHANGED <<open, dbVars, cache, providerVars, got, historyVars>>

\* INSERT of a primary key that is already there.
Clash(r) == tickets[SeatOf[r]] # None \/ (KeyOf[r] # None /\ idem[KeyOf[r]] # None)

\* Variant: the outbox row is left for after the commit.
WriteWithoutOutbox(r) ==
  /\ tickets' = [tickets EXCEPT ![SeatOf[r]] = r]
  /\ outbox' = outbox
  /\ idem' = IF KeyOf[r] = None THEN idem ELSE [idem EXCEPT ![KeyOf[r]] = r]

\* The ticket, the outbox row and the idempotency record, in one transaction.
WriteRegistration(r) ==
  /\ tickets' = [tickets EXCEPT ![SeatOf[r]] = r]
  /\ outbox' = outbox \cup {r}
  /\ idem' = IF KeyOf[r] = None THEN idem ELSE [idem EXCEPT ![KeyOf[r]] = r]

Commit(r) ==
  /\ Goto(r, "sold", "committed")
  /\ ~Clash(r)
  /\ WriteRegistration(r)
  /\ Unlock(r)
  /\ UNCHANGED <<open, cache, providerVars, got, response, historyVars>>

\* IntegrityError: rolled back, a 500, and nothing undoes the sale.
CommitClashes(r) ==
  /\ pc[r] = "sold"
  /\ Clash(r)
  /\ Answer(r, "error")
  /\ blamed' = IF tickets[SeatOf[r]] \in blamed THEN blamed \cup {r} ELSE blamed
  /\ UNCHANGED <<open, dbVars, cache, providerVars, got, faults>>

Finish(r) ==
  /\ pc[r] = "committed"
  /\ Answer(r, "created")
  /\ cache' = None
  /\ UNCHANGED <<open, dbVars, providerVars, got, historyVars>>

-----------------------------------------------------------------------------
(* DELETE /api/tickets/{ticket_id}: TicketService.unregister.              *)

ArriveCancel(c) ==
  /\ Goto(c, "new", "reading")
  /\ UNCHANGED <<open, dbVars, lock, cache, providerVars, got, response, historyVars>>

ReadTicket(c) ==
  /\ pc[c] = "reading"
  /\ \/ tickets[SeatOf[c]] = None /\ Answer(c, "not_found")
     \/ /\ tickets[SeatOf[c]] # None
        /\ pc' = [pc EXCEPT ![c] = "cancelling"]
        /\ UNCHANGED <<lock, response>>
  /\ UNCHANGED <<open, dbVars, cache, providerVars, got, historyVars>>

\* The provider frees the seat, answers success=false, or knows no such ticket.
\* History: blame for who loses the seat without having a row yet, and for who
\* keeps the seat and will lose the row.
Unregister(c) ==
  LET s == SeatOf[c] IN
  /\ \/ /\ holder[s] # None
        /\ Goto(c, "cancelling", "freed")
        /\ holder' = [holder EXCEPT ![s] = None]
        /\ blamed' = IF tickets[s] = holder[s] THEN blamed ELSE blamed \cup {holder[s]}
     \/ /\ holder[s] # None
        /\ Goto(c, "cancelling", "kept")
        /\ blamed' = blamed \cup {holder[s]}
        /\ UNCHANGED holder
     \/ /\ holder[s] = None
        /\ Goto(c, "cancelling", "unknown")
        /\ UNCHANGED <<holder, blamed>>
  /\ UNCHANGED <<open, dbVars, lock, cache, late, got, response, faults>>

\* Variant: the row is kept.
DeleteTicketForgotten(c) == UNCHANGED tickets

\* DELETE by ticket_id: whoever's row it is by now, and none is no error.
DeleteTicket(c) == tickets' = [tickets EXCEPT ![SeatOf[c]] = None]

\* The audit row and the DELETE in one transaction, even if success=false.
DeleteCancelled(c) ==
  /\ pc[c] \in {"freed", "kept"}
  /\ pc' = [pc EXCEPT ![c] = "deleted"]
  /\ outbox' = outbox \cup {c}
  /\ DeleteTicket(c)
  /\ UNCHANGED <<open, idem, lock, cache, providerVars, got, response, historyVars>>

\* Variant: this deletion has its audit row too.
DeleteUnknownAudited(c) ==
  /\ pc[c] = "unknown"
  /\ DeleteTicket(c)
  /\ outbox' = outbox \cup {c}
  /\ Answer(c, "not_found")
  /\ UNCHANGED <<open, idem, cache, providerVars, got, historyVars>>

\* 404 from the provider: the row goes without an audit row.
DeleteUnknown(c) ==
  /\ pc[c] = "unknown"
  /\ DeleteTicket(c)
  /\ Answer(c, "not_found")
  /\ UNCHANGED <<open, outbox, idem, cache, providerVars, got, historyVars>>

FinishCancel(c) ==
  /\ pc[c] = "deleted"
  /\ Answer(c, "cancelled")
  /\ cache' = None
  /\ UNCHANGED <<open, dbVars, providerVars, got, historyVars>>

-----------------------------------------------------------------------------
(* What goes wrong.                                                        *)

\* The registrations a request may leave at odds with the provider.
Exposed(q) == ({q} \cup {tickets[SeatOf[q]], holder[SeatOf[q]]}) \cap Registration

Calling == {"locking", "lookup", "checking", "asking", "asked", "buying", "reading",
            "cancelling"}

\* A provider or database error before anything took effect.
Fails(q) ==
  /\ pc[q] \in Calling
  /\ Answer(q, "error")
  /\ got' = IF q \in Registration THEN [got EXCEPT ![q] = {}] ELSE got
  /\ UNCHANGED <<open, dbVars, cache, providerVars, historyVars>>

\* The call times out here and takes effect at the provider later.
TimesOut(q) ==
  /\ pc[q] \in {"buying", "cancelling"}
  /\ Fault
  /\ Answer(q, "error")
  /\ late' = late \cup {q}
  /\ blamed' = blamed \cup Exposed(q)
  /\ UNCHANGED <<open, dbVars, cache, holder, got>>

LateEffect(q) ==
  /\ q \in late
  /\ late' = late \ {q}
  /\ LET s == SeatOf[q] IN
       holder' = [holder EXCEPT ![s] = IF q \in Cancellation THEN None
                                       ELSE IF @ = None THEN q ELSE @]
  /\ blamed' = blamed \cup Exposed(q)
  /\ UNCHANGED <<open, dbVars, lock, cache, pc, got, response, faults>>

\* The provider did it and its answer is lost, or is not what the client's
\* schema expects: the request fails and undoes nothing.
LosesAnswer(q) ==
  /\ pc[q] \in {"sold", "freed"}
  /\ Fault
  /\ Answer(q, "error")
  /\ blamed' = blamed \cup Exposed(q)
  /\ UNCHANGED <<open, dbVars, cache, providerVars, got>>

\* The commit raises; when the connection was lost during it, it may have
\* taken effect.
CommitFails(q) ==
  /\ pc[q] \in {"sold", "freed", "kept", "unknown"}
  /\ Fault
  /\ \/ UNCHANGED dbVars
     \/ q \in Registration /\ ~Clash(q) /\ WriteRegistration(q)
     \/ /\ q \in Cancellation
        /\ DeleteTicket(q)
        /\ outbox' = IF pc[q] = "unknown" THEN outbox ELSE outbox \cup {q}
        /\ UNCHANGED idem
  /\ Answer(q, "error")
  /\ blamed' = blamed \cup Exposed(q)
  /\ UNCHANGED <<open, cache, providerVars, got>>

\* The process dies: open transactions are rolled back, the cache is gone.
Crash ==
  LET running == {q \in Request : pc[q] \notin {"new", "done"}} IN
  /\ running # {}
  /\ Fault
  /\ pc' = [q \in Request |-> IF q \in running THEN "done" ELSE pc[q]]
  /\ response' = [q \in Request |-> IF q \in running THEN "error" ELSE response[q]]
  /\ lock' = [l \in LockId |-> None]
  /\ cache' = None
  /\ got' = [r \in Registration |-> {}]
  /\ blamed' = blamed \cup UNION {Exposed(q) : q \in running}
  /\ UNCHANGED <<open, dbVars, providerVars>>

-----------------------------------------------------------------------------
(* The rest of the world.                                                  *)

\* A synchronisation updates the event, or its deadline passes.
ChangeEvent ==
  /\ open' = ~open
  /\ UNCHANGED <<dbVars, lock, cache, providerVars, pc, got, response, historyVars>>

\* TTL of the seats cache.
ExpireSeats ==
  /\ cache # None
  /\ cache' = None
  /\ UNCHANGED <<open, dbVars, lock, providerVars, pc, got, response, historyVars>>

Register(r) ==
  \/ Lock(r) \/ Lookup(r) \/ CheckEvent(r) \/ ListSeats(r) \/ CacheSeats(r)
  \/ Buy(r) \/ Refuse(r) \/ Commit(r) \/ CommitClashes(r) \/ Finish(r)

Cancel(c) ==
  \/ ReadTicket(c) \/ Unregister(c) \/ DeleteCancelled(c) \/ DeleteUnknown(c)
  \/ FinishCancel(c)

Disturb(q) ==
  Fails(q) \/ TimesOut(q) \/ LateEffect(q) \/ LosesAnswer(q) \/ CommitFails(q)

Next ==
  \/ \E r \in Registration : Arrive(r) \/ Register(r)
  \/ \E c \in Cancellation : ArriveCancel(c) \/ Cancel(c)
  \/ \E q \in Request : Disturb(q)
  \/ Crash
  \/ ChangeEvent
  \/ ExpireSeats

Spec == Init /\ [][Next]_vars

(* The event loop runs every coroutine that can run; every provider call   *)
(* and every statement returns or times out; Postgres grants an advisory   *)
(* lock in the order it was asked for, so who waits for it gets it.  No    *)
(* client has to send a request, and nothing has to go wrong.              *)
Fairness ==
  /\ \A r \in Registration : WF_vars(Register(r)) /\ SF_vars(Lock(r))
  /\ \A c \in Cancellation : WF_vars(Cancel(c))

FairSpec == Spec /\ Fairness

-----------------------------------------------------------------------------
(* Properties.                                                             *)

SameKey(q, r) == KeyOf[q] = KeyOf[r] /\ KeyOf[r] # None

\* A purchase that is about to be recorded under its key, or is.
Alive(r) == pc[r] = "sold" \/ (KeyOf[r] # None /\ idem[KeyOf[r]] = r)

\* README "Для защиты от двойных кликов и retry": of the requests with one
\* key, at most one at a time has bought a seat it is recorded for or may yet
\* be, however the requests interleave, clash, fail and are repeated.
KeyBuysOnce ==
  \A q, r \in Registration :
    q # r /\ SameKey(q, r) => ~(Alive(q) /\ Alive(r))

\* README "в той же транзакции": who is answered 201 has a committed purchase
\* with the same data, under the same key if there is one, and that purchase
\* has its outbox row.
Confirmed ==
  \A r \in Registration : response[r] = "created" =>
    \E q \in outbox \cap Registration :
      SameData(q, r) /\ (q = r \/ SameKey(q, r))

\* README "тот же ticket_id": all 201 answers under one key name one ticket.
AnswersAgree ==
  \A q, r \in Registration :
    SameKey(q, r) /\ response[q] = "created" /\ response[r] = "created" =>
      SeatOf[q] = SeatOf[r]

\* The tables and the provider agree, except about registrations a fault, a
\* refused cancellation or a re-sale in the middle of a cancellation touched:
\* a ticket's seat is held for it until a cancellation has freed it, and a held
\* seat has its ticket as soon as its purchase is over.
InStep ==
  \A s \in Seat :
    /\ tickets[s] # None =>
         \/ holder[s] = tickets[s]
         \/ tickets[s] \in blamed
         \/ \E c \in Cancelling(s) : pc[c] = "freed"
    /\ holder[s] # None =>
         \/ tickets[s] = holder[s]
         \/ holder[s] \in blamed
         \/ pc[holder[s]] = "sold"

\* What module KeyPromise sees of the registrations with a key.
WithKey == {r \in Registration : KeyOf[r] # None}
Asked == [r \in WithKey |-> <<PersonOf[r], SeatOf[r]>>]
Bought == {r \in WithKey : pc[r] = "sold"}
Outcome(what) == IF what \in {"closed", "full", "taken"} THEN "refused" ELSE what
Told == [r \in WithKey |-> Outcome(response[r])]
Promise == INSTANCE KeyPromise
             WITH Request <- WithKey, Data <- Asked, record <- idem,
                  buying <- Bought, answer <- Told

\* README "Идемпотентность регистрации": the service keeps the promise of module
\* KeyPromise under every key, whatever interleaves, fails or is lost -- but for
\* purchases the provider makes after their request was given up.
KeepsKeyPromise == Promise!Spec

\* Who waits for an advisory lock waits for nobody, or for a request that is past
\* that wait itself and still under way: no lock outlives its request, and no
\* two requests wait for each other, whichever keys hash to one lock.
LockServed ==
  \A r \in Registration : pc[r] = "locking" =>
    LET h == lock[LockOf[KeyOf[r]]]
    IN h # None => pc[h] \in {"lookup", "checking", "asking", "asked", "buying", "sold"}

\* Every request the service took is answered, in spite of the waits for
\* advisory locks.
EveryRequestAnswered ==
  \A q \in Request : pc[q] # "new" ~> pc[q] = "done"

\* README "Ошибка провайдера | Ключ не сохраняется, можно повторить": the
\* repetition of a request that failed is not refused the seat because the
\* failed request itself has it.
RetryCanSucceed ==
  \A q, r \in Registration :
    SameKey(q, r) /\ SameData(q, r) /\ response[q] = "error" =>
      ~(response[r] = "taken" /\ holder[SeatOf[r]] = q)

\* monitoring/metrics.py "Total number of cancelled tickets (counted from
\* outbox audit events)": for a seat of which no registration is blamed, the
\* audit rows are as many as the tickets that are gone, but for a cancellation
\* that has freed the seat and is about to commit its row, or has failed to.
CancelledCounted ==
  \A s \in Seat :
    (\A r \in blamed : SeatOf[r] # s) =>
      LET gone == {r \in Registration \cap outbox : SeatOf[r] = s /\ tickets[s] # r}
          rows == {c \in Cancellation \cap outbox : SeatOf[c] = s}
          due == {c \in Cancellation : SeatOf[c] = s /\ (pc[c] = "freed" \/ response[c] = "error")}
      IN /\ Cardinality(rows) <= Cardinality(gone)
         /\ Cardinality(gone) <= Cardinality(rows \cup due)

=============================================================================
