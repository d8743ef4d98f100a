--------------------------- MODULE TicketsProofs ---------------------------
(***************************************************************************)
(* Theorems about registrations and cancellations for any requests, keys,  *)
(* hash collisions, seats and faults.  The invariant comes in layers:      *)
(*   Sane      types, and coroutines that stay in their own handler        *)
(*   Keyed     a request past its lookup holds its advisory lock, and its  *)
(*             key is unrecorded until it commits                          *)
(*   Matched   the tables and the provider agree about the blameless       *)
(*   Serving   whoever is granted a lock is a coroutine that will unlock   *)
(*   Backing   an audit row has its request behind it, a freed seat its    *)
(*             unwritten cancellation                                      *)
(*   Balanced  the rows of a seat's cancellations count its lost tickets   *)
(***************************************************************************)
EXTENDS Tickets, FiniteSetTheorems, TLAPS

Places ==
  /\ \A r \in Registration : pc[r] \in {"new", "done"} \cup RegisterPC
  /\ \A c \in Cancellation : pc[c] \in {"new", "done"} \cup UnregisterPC

Sane == TypeOK /\ Places

LEMMA NoCache == None \in (SUBSET Seat) \cup {None}
  OBVIOUS

LEMMA InitSane == Init => Sane
<1>. SUFFICES ASSUME Init PROVE Sane
  OBVIOUS
<1>1. open \in BOOLEAN
  BY DEF Init
<1>2. /\ response \in [Request -> Response]
      /\ pc \in [Request -> {"new", "done"} \cup RegisterPC \cup UnregisterPC]
  BY DEF Init, Response
<1>3. /\ tickets \in [Seat -> Registration \cup {None}]
      /\ idem \in [Key -> Registration \cup {None}]
      /\ lock \in [LockId -> Registration \cup {None}]
      /\ holder \in [Seat -> Registration \cup {None}]
      /\ got \in [Registration -> SUBSET Seat]
  BY DEF Init
<1>4. outbox = {} /\ cache = None /\ late = {} /\ faults = 0 /\ blamed = {}
  BY DEF Init
<1>5. Places
  BY DEF Init, Places, Request
<1>. QED BY <1>1, <1>2, <1>3, <1>4, <1>5, FaultAssumption, NoCache DEF Sane, TypeOK

\* The end of a request, whatever it is answered.
LEMMA AnswerSane ==
  ASSUME Sane, NEW q \in Request, NEW what \in Response, Answer(q, what)
  PROVE  /\ pc' \in [Request -> {"new", "done"} \cup RegisterPC \cup UnregisterPC]
         /\ response' \in [Request -> Response]
         /\ lock' \in [LockId -> Registration \cup {None}]
         /\ Places'
  BY DEF Sane, TypeOK, Places, Answer, Unlock, Request

LEMMA GotoRegister ==
  ASSUME Sane, NEW r \in Registration, NEW from, NEW to \in RegisterPC, Goto(r, from, to)
  PROVE  /\ pc' \in [Request -> {"new", "done"} \cup RegisterPC \cup UnregisterPC]
         /\ Places'
  BY RequestAssumption DEF Sane, TypeOK, Places, Goto, Request

LEMMA GotoUnregister ==
  ASSUME Sane, NEW c \in Cancellation, NEW from, NEW to \in UnregisterPC,
         Goto(c, from, to)
  PROVE  /\ pc' \in [Request -> {"new", "done"} \cup RegisterPC \cup UnregisterPC]
         /\ Places'
  BY RequestAssumption DEF Sane, TypeOK, Places, Goto, Request

LEMMA DecideSane ==
  ASSUME Sane, NEW r \in Registration, NEW seats, Decide(r, seats)
  PROVE  /\ pc' \in [Request -> {"new", "done"} \cup RegisterPC \cup UnregisterPC]
         /\ response' \in [Request -> Response]
         /\ lock' \in [LockId -> Registration \cup {None}]
         /\ Places'
<1>1. r \in Request
  BY DEF Request
<1>2. CASE Answer(r, "full") \/ Answer(r, "taken")
  BY <1>1, <1>2, AnswerSane DEF Response
<1>3. CASE pc' = [pc EXCEPT ![r] = "buying"] /\ UNCHANGED <<lock, response>>
  BY <1>1, <1>3, RequestAssumption DEF Sane, TypeOK, Places, RegisterPC
<1>. QED BY <1>2, <1>3 DEF Decide

LEMMA RegisterSane ==
  ASSUME Sane, NEW r \in Registration, Arrive(r) \/ Register(r)
  PROVE  Sane'
<1>t. /\ r \in Request
      /\ SeatOf[r] \in Seat
      /\ KeyOf[r] # None => KeyOf[r] \in Key /\ LockOf[KeyOf[r]] \in LockId
  BY KeyAssumption, DataAssumption DEF Request
<1>1. CASE Arrive(r)
  <2>1. PICK to \in RegisterPC : Goto(r, "new", to)
    BY <1>1 DEF Arrive, RegisterPC
  <2>. QED
    BY <1>1, <2>1, GotoRegister DEF Arrive, dbVars, providerVars, historyVars, Sane, TypeOK
<1>2. CASE Lock(r)
  <2>1. Goto(r, "locking", "lookup") /\ "lookup" \in RegisterPC
    BY <1>2 DEF Lock, RegisterPC
  <2>2. lock' \in [LockId -> Registration \cup {None}]
    BY <1>2 DEF Lock, Sane, TypeOK
  <2>. QED
    BY <1>2, <2>1, <2>2, GotoRegister
    DEF Lock, dbVars, providerVars, historyVars, Sane, TypeOK
<1>3. CASE Lookup(r)
  <2>1. CASE \E recorded : Answer(r, Replay(r, recorded))
    BY <1>t, <1>3, <2>1, AnswerSane
    DEF Lookup, Replay, Response, dbVars, providerVars, historyVars, Sane, TypeOK
  <2>2. CASE pc' = [pc EXCEPT ![r] = "checking"] /\ UNCHANGED <<lock, response>>
    <3>1. Goto(r, "lookup", "checking") /\ "checking" \in RegisterPC
      BY <1>3, <2>2 DEF Lookup, Goto, RegisterPC
    <3>. QED
      BY <1>3, <2>2, <3>1, GotoRegister
      DEF Lookup, dbVars, providerVars, historyVars, Sane, TypeOK
  <2>. QED BY <1>3, <2>1, <2>2 DEF Lookup
<1>4. CASE CheckEvent(r)
  <2>1. CASE Answer(r, "closed")
    BY <1>t, <1>4, <2>1, AnswerSane
    DEF CheckEvent, Response, dbVars, providerVars, historyVars, Sane, TypeOK
  <2>2. CASE Decide(r, cache)
    BY <1>4, <2>2, DecideSane
    DEF CheckEvent, dbVars, providerVars, historyVars, Sane, TypeOK
  <2>3. CASE Goto(r, "checking", "asking") /\ UNCHANGED <<lock, response>>
    <3>1. "asking" \in RegisterPC
      BY DEF RegisterPC
    <3>. QED
      BY <1>4, <2>3, <3>1, GotoRegister
      DEF CheckEvent, dbVars, providerVars, historyVars, Sane, TypeOK
  <2>. QED BY <1>4, <2>1, <2>2, <2>3 DEF CheckEvent
<1>5. CASE ListSeats(r)
  <2>1. Goto(r, "asking", "asked") /\ "asked" \in RegisterPC
    BY <1>5 DEF ListSeats, RegisterPC
  <2>2. got' \in [Registration -> SUBSET Seat]
    BY <1>5 DEF ListSeats, Free, Sane, TypeOK
  <2>. QED
    BY <1>5, <2>1, <2>2, GotoRegister
    DEF ListSeats, dbVars, providerVars, historyVars, Sane, TypeOK
<1>6. CASE CacheSeats(r)
  <2>1. /\ Decide(r, got[r])
        /\ got' \in [Registration -> SUBSET Seat]
        /\ cache' \in (SUBSET Seat) \cup {None}
    BY <1>6 DEF CacheSeats, Sane, TypeOK
  <2>. QED
    BY <1>6, <2>1, DecideSane
    DEF CacheSeats, dbVars, providerVars, historyVars, Sane, TypeOK
<1>7. CASE Buy(r)
  <2>1. Goto(r, "buying", "sold") /\ "sold" \in RegisterPC
    BY <1>7 DEF Buy, RegisterPC
  <2>2. /\ holder' \in [Seat -> Registration \cup {None}]
        /\ blamed' \subseteq Registration
    BY <1>7 DEF Buy, Sane, TypeOK
  <2>. QED BY <1>7, <2>1, <2>2, GotoRegister DEF Buy, dbVars, Sane, TypeOK
<1>8. CASE Refuse(r)
  BY <1>t, <1>8, AnswerSane
  DEF Refuse, Response, dbVars, providerVars, historyVars, Sane, TypeOK
<1>9. CASE Commit(r)
  <2>1. Goto(r, "sold", "committed") /\ "committed" \in RegisterPC
    BY <1>9 DEF Commit, RegisterPC
  <2>2. /\ tickets' \in [Seat -> Registration \cup {None}]
        /\ idem' \in [Key -> Registration \cup {None}]
        /\ outbox' \subseteq Request
        /\ lock' \in [LockId -> Registration \cup {None}]
    BY <1>t, <1>9 DEF Commit, WriteRegistration, Unlock, Sane, TypeOK
  <2>. QED
    BY <1>9, <2>1, <2>2, GotoRegister DEF Commit, providerVars, historyVars, Sane, TypeOK
<1>10. CASE CommitClashes(r)
  <2>1. Answer(r, "error") /\ "error" \in Response
    BY <1>10 DEF CommitClashes, Response
  <2>2. blamed' \subseteq Registration
    BY <1>10 DEF CommitClashes, Sane, TypeOK
  <2>. QED
    BY <1>t, <1>10, <2>1, <2>2, AnswerSane
    DEF CommitClashes, dbVars, providerVars, Sane, TypeOK
<1>11. CASE Finish(r)
  BY <1>t, <1>11, AnswerSane, NoCache
  DEF Finish, Response, dbVars, providerVars, historyVars, Sane, TypeOK
<1>. QED
  BY <1>1, <1>2, <1>3, <1>4, <1>5, <1>6, <1>7, <1>8, <1>9, <1>10, <1>11 DEF Register

LEMMA CancelSane ==
  ASSUME Sane, NEW c \in Cancellation, ArriveCancel(c) \/ Cancel(c)
  PROVE  Sane'
<1>t. c \in Request /\ SeatOf[c] \in Seat
  BY DataAssumption DEF Request
<1>1. CASE ArriveCancel(c)
  <2>1. Goto(c, "new", "reading") /\ "reading" \in UnregisterPC
    BY <1>1 DEF ArriveCancel, UnregisterPC
  <2>. QED
    BY <1>1, <2>1, GotoUnregister
    DEF ArriveCancel, dbVars, providerVars, historyVars, Sane, TypeOK
<1>2. CASE ReadTicket(c)
  <2>1. CASE Answer(c, "not_found")
    BY <1>t, <1>2, <2>1, AnswerSane
    DEF ReadTicket, Response, dbVars, providerVars, historyVars, Sane, TypeOK
  <2>2. CASE pc' = [pc EXCEPT ![c] = "cancelling"] /\ UNCHANGED <<lock, response>>
    <3>1. Goto(c, "reading", "cancelling") /\ "cancelling" \in UnregisterPC
      BY <1>2, <2>2 DEF ReadTicket, Goto, UnregisterPC
    <3>. QED
      BY <1>2, <2>2, <3>1, GotoUnregister
      DEF ReadTicket, dbVars, providerVars, historyVars, Sane, TypeOK
  <2>. QED BY <1>2, <2>1, <2>2 DEF ReadTicket
<1>3. CASE Unregister(c)
  <2>1. PICK to \in UnregisterPC : Goto(c, "cancelling", to)
    BY <1>3 DEF Unregister, UnregisterPC
  <2>2. /\ holder' \in [Seat -> Registration \cup {None}]
        /\ blamed' \subseteq Registration
    BY <1>t, <1>3 DEF Unregister, Sane, TypeOK
  <2>. QED BY <1>3, <2>1, <2>2, GotoUnregister DEF Unregister, dbVars, Sane, TypeOK
<1>4. CASE DeleteCancelled(c)
  <2>1. Goto(c, pc[c], "deleted") /\ "deleted" \in UnregisterPC
    BY <1>4 DEF DeleteCancelled, Goto, UnregisterPC
  <2>. QED
    BY <1>t, <1>4, <2>1, GotoUnregister
    DEF DeleteCancelled, DeleteTicket, providerVars, historyVars, Sane, TypeOK
<1>5. CASE DeleteUnknown(c)
  BY <1>t, <1>5, AnswerSane
  DEF DeleteUnknown, DeleteTicket, Response, providerVars, historyVars, Sane, TypeOK
<1>6. CASE FinishCancel(c)
  BY <1>t, <1>6, AnswerSane, NoCache
  DEF FinishCancel, Response, dbVars, providerVars, historyVars, Sane, TypeOK
<1>. QED BY <1>1, <1>2, <1>3, <1>4, <1>5, <1>6 DEF Cancel

LEMMA DisturbSane ==
  ASSUME Sane, NEW q \in Request, Disturb(q)
  PROVE  Sane'
<1>t. /\ SeatOf[q] \in Seat
      /\ "error" \in Response
      /\ Exposed(q) \subseteq Registration
  BY DataAssumption DEF Response, Exposed
<1>f. Fault => faults' \in 0 .. MaxFaults
  BY FaultAssumption DEF Fault, Sane, TypeOK
<1>1. CASE Fails(q)
  <2>1. got' \in [Registration -> SUBSET Seat]
    BY <1>1 DEF Fails, Sane, TypeOK
  <2>. QED
    BY <1>t, <1>1, <2>1, AnswerSane
    DEF Fails, dbVars, providerVars, historyVars, Sane, TypeOK
<1>2. CASE TimesOut(q)
  BY <1>t, <1>f, <1>2, AnswerSane DEF TimesOut, dbVars, Sane, TypeOK
<1>3. CASE LateEffect(q)
  <2>1. holder' \in [Seat -> Registration \cup {None}]
    BY <1>t, <1>3 DEF LateEffect, Request, Sane, TypeOK
  <2>. QED BY <1>t, <1>3, <2>1 DEF LateEffect, dbVars, Sane, TypeOK, Places
<1>4. CASE LosesAnswer(q)
  BY <1>t, <1>f, <1>4, AnswerSane DEF LosesAnswer, dbVars, providerVars, Sane, TypeOK
<1>5. CASE CommitFails(q)
  <2>1. /\ tickets' \in [Seat -> Registration \cup {None}]
        /\ idem' \in [Key -> Registration \cup {None}]
        /\ outbox' \subseteq Request
    BY <1>t, <1>5, KeyAssumption
    DEF CommitFails, WriteRegistration, DeleteTicket, dbVars, Request, Sane, TypeOK
  <2>. QED
    BY <1>t, <1>f, <1>5, <2>1, AnswerSane DEF CommitFails, providerVars, Sane, TypeOK
<1>. QED BY <1>1, <1>2, <1>3, <1>4, <1>5 DEF Disturb

LEMMA StepSane == Sane /\ [Next]_vars => Sane'
<1>. SUFFICES ASSUME Sane, [Next]_vars PROVE Sane'
  OBVIOUS
<1>1. CASE Crash
  <2>1. blamed' \subseteq Registration
    BY <1>1 DEF Crash, Exposed, Sane, TypeOK
  <2>2. faults' \in 0 .. MaxFaults
    BY <1>1, FaultAssumption DEF Crash, Fault, Sane, TypeOK
  <2>. QED
    BY <1>1, <2>1, <2>2, NoCache
    DEF Crash, dbVars, providerVars, Sane, TypeOK, Places, Response, Request
<1>2. CASE ChangeEvent \/ ExpireSeats \/ UNCHANGED vars
  BY <1>2, NoCache
  DEF ChangeEvent, ExpireSeats, vars, dbVars, providerVars, historyVars, Sane, TypeOK,
      Places
<1>. QED BY <1>1, <1>2, RegisterSane, CancelSane, DisturbSane DEF Next

\* Every variable keeps its type, and no coroutine strays into the other's
\* handler.
THEOREM TypeCorrect == Spec => []TypeOK
<1>1. Spec => []Sane
  BY InitSane, StepSane, PTL DEF Spec
<1>. QED BY <1>1, PTL DEF Sane

-----------------------------------------------------------------------------
(* Requests with a key are serialised from the lookup to the commit.       *)

\* Where a request knows that its key is unrecorded.
Looked == {"checking", "asking", "asked", "buying", "sold"}

HasKey == \A r \in Registration : pc[r] \in {"locking", "lookup"} => KeyOf[r] # None

Serial ==
  \A r \in Registration :
    pc[r] \in Looked \cup {"lookup"} /\ KeyOf[r] # None => lock[LockOf[KeyOf[r]]] = r

Unrecorded ==
  \A r \in Registration :
    pc[r] \in Looked /\ KeyOf[r] # None => idem[KeyOf[r]] = None

Recorded ==
  \A k \in Key : idem[k] # None => KeyOf[idem[k]] = k /\ idem[k] \in outbox

Committed == \A r \in Registration : pc[r] = "committed" => r \in outbox

Keyed == HasKey /\ Serial /\ Unrecorded /\ Recorded /\ Committed /\ Confirmed

LEMMA InitKeyed == Init => Keyed
  BY DEF Init, Keyed, HasKey, Serial, Unrecorded, Recorded, Committed, Confirmed, Looked,
         Request

\* A registration with the same data and key, and an outbox row, backs r.
Backed(r) ==
  \E q \in outbox \cap Registration : SameData(q, r) /\ (q = r \/ SameKey(q, r))

\* A step that records nothing and moves one request q: to its end, or onward
\* without taking or releasing a lock.
LEMMA QuietStep ==
  ASSUME Sane, Keyed, NEW q \in Request,
         idem' = idem, outbox \subseteq outbox',
         \A p \in Registration \ {q} : pc'[p] = pc[p] /\ response'[p] = response[p],
         \A l \in LockId : lock'[l] = lock[l] \/ lock[l] = q,
         q \in Registration =>
           \/ pc'[q] = "done" /\ (response'[q] = "created" => Backed(q))
           \/ /\ response'[q] = response[q]
              /\ lock' = lock
              /\ pc'[q] \notin {"lookup", "committed"}
              /\ pc'[q] = "locking" => KeyOf[q] # None
              /\ pc'[q] \in Looked => pc[q] \in Looked \/ KeyOf[q] = None
  PROVE  Keyed'
<1>k. \A r \in Registration :
        KeyOf[r] # None => KeyOf[r] \in Key /\ LockOf[KeyOf[r]] \in LockId
  BY KeyAssumption
<1>1. HasKey'
  BY DEF Keyed, HasKey
<1>2. Serial'
  <2>1. ASSUME NEW r \in Registration \ {q}, pc'[r] \in Looked \cup {"lookup"},
               KeyOf[r] # None
        PROVE  lock'[LockOf[KeyOf[r]]] = r
    BY <1>k, <2>1 DEF Keyed, Serial
  <2>2. ASSUME q \in Registration, pc'[q] \in Looked \cup {"lookup"}, KeyOf[q] # None
        PROVE  lock'[LockOf[KeyOf[q]]] = q
    BY <2>2 DEF Keyed, Serial, Looked
  <2>. QED BY <2>1, <2>2 DEF Serial
<1>3. Unrecorded'
  BY DEF Keyed, Unrecorded, Looked
<1>4. Recorded'
  BY DEF Keyed, Recorded
<1>5. Committed'
  BY DEF Keyed, Committed
<1>6. Confirmed'
  <2>1. ASSUME NEW r \in Registration, response'[r] = "created" PROVE Backed(r)
    BY <2>1 DEF Keyed, Confirmed, Backed
  <2>. QED BY <2>1 DEF Confirmed, Backed, SameData, SameKey
<1>. QED BY <1>1, <1>2, <1>3, <1>4, <1>5, <1>6 DEF Keyed

\* A request that ends without a 201 is quiet.
LEMMA EndQuiet ==
  ASSUME Sane, Keyed, NEW q \in Request, NEW what \in Response,
         Answer(q, what), idem' = idem, outbox \subseteq outbox',
         q \in Registration /\ what = "created" => Backed(q)
  PROVE  Keyed'
<1>1. /\ \A p \in Registration \ {q} : pc'[p] = pc[p] /\ response'[p] = response[p]
      /\ \A l \in LockId : lock'[l] = lock[l] \/ lock[l] = q
      /\ pc'[q] = "done" /\ response'[q] = what
  BY DEF Answer, Unlock, Sane, TypeOK, Request
<1>. QED BY <1>1, QuietStep

\* So is one that goes on, but to its lookup, past it, or to its commit.
LEMMA GotoQuiet ==
  ASSUME Sane, Keyed, NEW q \in Request, NEW to,
         pc' = [pc EXCEPT ![q] = to], idem' = idem, outbox \subseteq outbox',
         UNCHANGED <<lock, response>>,
         q \in Registration =>
           /\ to \notin {"lookup", "committed"}
           /\ to = "locking" => KeyOf[q] # None
           /\ to \in Looked => pc[q] \in Looked \/ KeyOf[q] = None
  PROVE  Keyed'
<1>1. /\ \A p \in Registration \ {q} : pc'[p] = pc[p] /\ response'[p] = response[p]
      /\ pc'[q] = to
  BY DEF Sane, TypeOK, Request
<1>. QED BY <1>1, QuietStep

\* The commit of a registration that is sold, whatever its client hears of it.
LEMMA CommitKeyed ==
  ASSUME Sane, Keyed, NEW r \in Registration, pc[r] = "sold", WriteRegistration(r),
         \A p \in Registration \ {r} : pc'[p] = pc[p] /\ response'[p] = response[p],
         Unlock(r), pc'[r] \in {"committed", "done"}
  PROVE  Keyed'
<1>k. /\ \A p \in Registration :
           KeyOf[p] # None => KeyOf[p] \in Key /\ LockOf[KeyOf[p]] \in LockId
      /\ idem \in [Key -> Registration \cup {None}]
      /\ lock \in [LockId -> Registration \cup {None}]
      /\ None \notin Registration
      /\ r \in Request
  BY KeyAssumption, RequestAssumption DEF Sane, TypeOK, Request
<1>1. outbox' = outbox \cup {r}
  BY DEF WriteRegistration
<1>2. ASSUME NEW p \in Registration \ {r}, pc[p] \in Looked \cup {"lookup"},
             KeyOf[p] # None
      PROVE  lock[LockOf[KeyOf[p]]] = p /\ ~SameKey(p, r)
  BY <1>2 DEF Keyed, Serial, Looked, SameKey
<1>3. HasKey'
  BY DEF Keyed, HasKey
<1>4. Serial'
  BY <1>k, <1>2 DEF Serial, Unlock, Looked
<1>5. Unrecorded'
  <2>. SUFFICES ASSUME NEW p \in Registration, pc'[p] \in Looked, KeyOf[p] # None
       PROVE  idem'[KeyOf[p]] = None
    BY DEF Unrecorded
  <2>1. p # r /\ pc[p] \in Looked
    BY DEF Looked
  <2>2. idem[KeyOf[p]] = None /\ KeyOf[p] # KeyOf[r]
    BY <1>2, <2>1 DEF Keyed, Unrecorded, SameKey
  <2>. QED BY <1>k, <2>2 DEF WriteRegistration
<1>6. Recorded'
  BY <1>k, <1>1 DEF Keyed, Recorded, WriteRegistration
<1>7. Committed'
  BY <1>1 DEF Keyed, Committed
<1>8. Confirmed'
  BY <1>1 DEF Keyed, Confirmed, SameData, SameKey
<1>. QED BY <1>3, <1>4, <1>5, <1>6, <1>7, <1>8 DEF Keyed

LEMMA RegisterKeyed ==
  ASSUME Sane, Keyed, NEW r \in Registration, Arrive(r) \/ Register(r)
  PROVE  Keyed'
<1>t. /\ r \in Request
      /\ KeyOf[r] # None => KeyOf[r] \in Key /\ LockOf[KeyOf[r]] \in LockId
      /\ pc \in [Request -> {"new", "done"} \cup RegisterPC \cup UnregisterPC]
      /\ response \in [Request -> Response]
      /\ lock \in [LockId -> Registration \cup {None}]
      /\ idem \in [Key -> Registration \cup {None}]
      /\ None \notin Registration
      /\ Registration \subseteq Request
  BY KeyAssumption, RequestAssumption DEF Request, Sane, TypeOK
<1>1. CASE Arrive(r)
  BY <1>t, <1>1, GotoQuiet DEF Arrive, Goto, dbVars, Looked
<1>2. CASE Lock(r)
  <2>1. /\ pc[r] = "locking" /\ pc' = [pc EXCEPT ![r] = "lookup"]
        /\ lock[LockOf[KeyOf[r]]] = None
        /\ lock' = [lock EXCEPT ![LockOf[KeyOf[r]]] = r]
        /\ UNCHANGED <<idem, outbox, response>>
    BY <1>2 DEF Lock, Goto, dbVars
  <2>2. KeyOf[r] # None
    BY <2>1 DEF Keyed, HasKey
  <2>3. Serial'
    <3>1. ASSUME NEW p \in Registration \ {r}, pc'[p] \in Looked \cup {"lookup"},
                 KeyOf[p] # None
          PROVE  lock'[LockOf[KeyOf[p]]] = p
      <4>1. lock[LockOf[KeyOf[p]]] = p
        BY <1>t, <2>1, <3>1 DEF Keyed, Serial
      <4>. QED BY <1>t, <2>1, <4>1
    <3>2. lock'[LockOf[KeyOf[r]]] = r
      BY <1>t, <2>1, <2>2
    <3>. QED BY <3>1, <3>2 DEF Serial
  <2>4. HasKey' /\ Unrecorded' /\ Recorded' /\ Committed'
    BY <1>t, <2>1, <2>2 DEF Keyed, HasKey, Unrecorded, Recorded, Committed, Looked
  <2>5. Confirmed'
    BY <2>1 DEF Keyed, Confirmed, SameData, SameKey
  <2>. QED BY <2>3, <2>4, <2>5 DEF Keyed
<1>3. CASE Lookup(r)
  <2>1. pc[r] = "lookup" /\ UNCHANGED <<idem, outbox>> /\ KeyOf[r] # None
    BY <1>3 DEF Lookup, dbVars, Keyed, HasKey
  <2>2. CASE idem[KeyOf[r]] # None /\ Answer(r, Replay(r, idem[KeyOf[r]]))
    <3>1. Replay(r, idem[KeyOf[r]]) = "created" => Backed(r)
      BY <1>t, <2>1, <2>2 DEF Replay, Backed, SameData, SameKey, Keyed, Recorded
    <3>2. Replay(r, idem[KeyOf[r]]) \in Response
      BY DEF Replay, Response
    <3>. QED BY <1>t, <2>1, <2>2, <3>1, <3>2, EndQuiet
  <2>3. CASE /\ idem[KeyOf[r]] = None
             /\ pc' = [pc EXCEPT ![r] = "checking"]
             /\ UNCHANGED <<lock, response>>
    <3>1. HasKey' /\ Serial' /\ Unrecorded' /\ Recorded' /\ Committed'
      BY <1>t, <2>1, <2>3
      DEF Keyed, HasKey, Serial, Unrecorded, Recorded, Committed, Looked
    <3>2. Confirmed'
      BY <2>1, <2>3 DEF Keyed, Confirmed, SameData, SameKey
    <3>. QED BY <3>1, <3>2 DEF Keyed
  <2>. QED BY <1>3, <2>2, <2>3 DEF Lookup
<1>4. ASSUME NEW seats, Decide(r, seats), UNCHANGED dbVars, pc[r] \in Looked
      PROVE  Keyed'
  <2>1. CASE Answer(r, "full") \/ Answer(r, "taken")
    BY <1>t, <1>4, <2>1, EndQuiet DEF dbVars, Response
  <2>2. CASE pc' = [pc EXCEPT ![r] = "buying"] /\ UNCHANGED <<lock, response>>
    BY <1>t, <1>4, <2>2, GotoQuiet DEF dbVars
  <2>. QED BY <1>4, <2>1, <2>2 DEF Decide
<1>5. CASE CheckEvent(r)
  <2>1. pc[r] \in Looked /\ UNCHANGED dbVars
    BY <1>5 DEF CheckEvent, Looked
  <2>2. CASE Answer(r, "closed")
    BY <1>t, <2>1, <2>2, EndQuiet DEF dbVars, Response
  <2>3. CASE Goto(r, "checking", "asking") /\ UNCHANGED <<lock, response>>
    BY <1>t, <2>1, <2>3, GotoQuiet DEF Goto, dbVars
  <2>. QED BY <1>4, <1>5, <2>1, <2>2, <2>3 DEF CheckEvent
<1>6. CASE ListSeats(r) \/ Buy(r)
  <2>1. PICK to \in {"asked", "sold"} :
          /\ pc[r] \in Looked
          /\ pc' = [pc EXCEPT ![r] = to]
          /\ UNCHANGED <<idem, outbox, lock, response>>
    BY <1>6 DEF ListSeats, Buy, Goto, dbVars, Looked
  <2>. QED BY <1>t, <2>1, GotoQuiet
<1>7. CASE CacheSeats(r)
  BY <1>4, <1>7 DEF CacheSeats, Looked
<1>8. CASE Refuse(r) \/ CommitClashes(r)
  BY <1>t, <1>8, EndQuiet DEF Refuse, CommitClashes, dbVars, Response
<1>9. CASE Commit(r)
  <2>1. /\ pc[r] = "sold"
        /\ pc' = [pc EXCEPT ![r] = "committed"]
        /\ WriteRegistration(r) /\ Unlock(r) /\ response' = response
    BY <1>9 DEF Commit, Goto
  <2>. QED BY <1>t, <2>1, CommitKeyed
<1>10. CASE Finish(r)
  <2>1. Answer(r, "created") /\ r \in outbox /\ UNCHANGED <<idem, outbox>>
    BY <1>10 DEF Finish, dbVars, Keyed, Committed
  <2>2. Backed(r)
    BY <2>1 DEF Backed, SameData
  <2>. QED BY <1>t, <2>1, <2>2, EndQuiet DEF Response
<1>. QED
  BY <1>1, <1>2, <1>3, <1>5, <1>6, <1>7, <1>8, <1>9, <1>10 DEF Register

LEMMA CancelKeyed ==
  ASSUME Sane, Keyed, NEW c \in Cancellation, ArriveCancel(c) \/ Cancel(c)
  PROVE  Keyed'
<1>t. c \in Request /\ c \notin Registration
  BY RequestAssumption DEF Request
<1>1. CASE \E what \in Response : Answer(c, what) /\ idem' = idem /\ outbox' = outbox
  BY <1>t, <1>1, EndQuiet
<1>2. CASE \E to : /\ pc' = [pc EXCEPT ![c] = to]
                   /\ UNCHANGED <<lock, response, idem>>
                   /\ outbox \subseteq outbox'
  BY <1>t, <1>2, GotoQuiet
<1>3. CASE ArriveCancel(c) \/ Unregister(c) \/ DeleteCancelled(c)
  BY <1>2, <1>3 DEF ArriveCancel, Unregister, DeleteCancelled, Goto, dbVars
<1>4. CASE ReadTicket(c)
  BY <1>1, <1>2, <1>4 DEF ReadTicket, dbVars, Response
<1>5. CASE DeleteUnknown(c) \/ FinishCancel(c)
  BY <1>1, <1>5 DEF DeleteUnknown, FinishCancel, dbVars, Response
<1>. QED BY <1>3, <1>4, <1>5 DEF Cancel

LEMMA DisturbKeyed ==
  ASSUME Sane, Keyed, NEW q \in Request, Disturb(q)
  PROVE  Keyed'
<1>e. "error" \in Response
  BY DEF Response
<1>1. CASE Fails(q) \/ TimesOut(q) \/ LosesAnswer(q)
  BY <1>e, <1>1, EndQuiet DEF Fails, TimesOut, LosesAnswer, dbVars
<1>2. CASE LateEffect(q)
  BY <1>2
  DEF LateEffect, dbVars, Keyed, HasKey, Serial, Unrecorded, Recorded, Committed,
      Confirmed, SameData, SameKey
<1>3. CASE CommitFails(q)
  <2>1. CASE idem' = idem /\ outbox \subseteq outbox'
    BY <1>e, <1>3, <2>1, EndQuiet DEF CommitFails
  <2>2. CASE q \in Registration /\ WriteRegistration(q)
    <3>1. pc[q] = "sold"
      BY <1>3, <2>2 DEF CommitFails, Sane, Places, RegisterPC
    <3>2. Unlock(q) /\ pc'[q] = "done"
      BY <1>3 DEF CommitFails, Answer, Sane, TypeOK
    <3>3. \A p \in Registration \ {q} : pc'[p] = pc[p] /\ response'[p] = response[p]
      BY <1>3 DEF CommitFails, Answer, Sane, TypeOK, Request
    <3>. QED BY <2>2, <3>1, <3>2, <3>3, CommitKeyed
  <2>. QED BY <1>3, <2>1, <2>2 DEF CommitFails, dbVars
<1>. QED BY <1>1, <1>2, <1>3 DEF Disturb

LEMMA StepKeyed == Sane /\ Keyed /\ [Next]_vars => Keyed'
<1>. SUFFICES ASSUME Sane, Keyed, [Next]_vars PROVE Keyed'
  OBVIOUS
<1>1. CASE Crash
  <2>1. \A r \in Registration :
          /\ pc'[r] \in {"new", "done"}
          /\ response'[r] = "created" => response[r] = "created"
    BY <1>1 DEF Crash, Request
  <2>. QED
    BY <1>1, <2>1
    DEF Crash, dbVars, Keyed, HasKey, Serial, Unrecorded, Recorded, Committed, Confirmed,
        Looked, SameData, SameKey
<1>2. CASE ChangeEvent \/ ExpireSeats \/ UNCHANGED vars
  BY <1>2
  DEF ChangeEvent, ExpireSeats, vars, dbVars, Keyed, HasKey, Serial, Unrecorded,
      Recorded, Committed, Confirmed, SameData, SameKey
<1>. QED BY <1>1, <1>2, RegisterKeyed, CancelKeyed, DisturbKeyed DEF Next

LEMMA AlwaysKeyed == Spec => [](Sane /\ Keyed)
<1>1. Init => Sane /\ Keyed
  BY InitSane, InitKeyed
<1>2. Sane /\ Keyed /\ [Next]_vars => (Sane /\ Keyed)'
  BY StepSane, StepKeyed
<1>. QED BY <1>1, <1>2, PTL DEF Spec

\* Idempotency: among the requests with one key at most one at a time has a
\* purchase that is recorded or may yet be, for any number of requests, keys
\* and hash collisions, and whatever fails.
THEOREM OneLivePurchase == Spec => []KeyBuysOnce
<1>1. Sane /\ Keyed => KeyBuysOnce
  <2>. SUFFICES ASSUME Sane, Keyed, NEW q \in Registration, NEW r \in Registration,
                       SameKey(q, r), Alive(q), Alive(r)
       PROVE  q = r
    BY DEF KeyBuysOnce
  <2>1. CASE pc[q] = "sold" /\ pc[r] = "sold"
    BY <2>1 DEF SameKey, Keyed, Serial, Looked
  <2>2. \A p \in Registration : pc[p] = "sold" /\ KeyOf[p] # None => idem[KeyOf[p]] = None
    BY DEF Keyed, Unrecorded, Looked
  <2>. QED BY <2>1, <2>2, RequestAssumption DEF Alive, SameKey, Request
<1>. QED BY <1>1, AlwaysKeyed, PTL

\* A 201 is backed by a committed purchase of the same data and its outbox row.
THEOREM ConfirmedMeansCommitted == Spec => []Confirmed
  BY AlwaysKeyed, PTL DEF Keyed

-----------------------------------------------------------------------------
(* The tables and the provider agree about the blameless.                  *)

\* A sold seat is its buyer's, unless it was taken from the buyer since.
SoldHeld ==
  \A r \in Registration : pc[r] = "sold" => holder[SeatOf[r]] = r \/ r \in blamed

\* A row names its seat and was committed; so does the provider's holder.
Named ==
  \A s \in Seat :
    /\ tickets[s] # None => SeatOf[tickets[s]] = s /\ pc[tickets[s]] \in {"committed", "done"}
    /\ holder[s] # None => SeatOf[holder[s]] = s

\* A buyer who finds another's row will be in blame, or the other is.
OldRow ==
  \A r \in Registration :
    pc[r] = "sold" /\ tickets[SeatOf[r]] # None =>
      r \in blamed \/ tickets[SeatOf[r]] \in blamed

\* Whoever holds a seat whose row is about to be deleted is in blame.
Doomed ==
  \A c \in Cancellation :
    pc[c] \in {"freed", "kept", "unknown"} /\ holder[SeatOf[c]] # None =>
      holder[SeatOf[c]] \in blamed

\* InStep, without the sets it is stated with.
Row(s) ==
  tickets[s] # None =>
    \/ holder[s] = tickets[s]
    \/ tickets[s] \in blamed
    \/ \E c \in Cancellation : SeatOf[c] = s /\ pc[c] = "freed"

Holding(s) ==
  holder[s] # None =>
    tickets[s] = holder[s] \/ holder[s] \in blamed \/ pc[holder[s]] = "sold"

Matched ==
  /\ \A s \in Seat : Row(s) /\ Holding(s)
  /\ SoldHeld
  /\ Named
  /\ OldRow
  /\ Doomed

LEMMA MatchedInStep == Matched => InStep
  BY DEF Matched, InStep, Row, Holding, Cancelling

LEMMA InitMatched == Init => Matched
  BY DEF Init, Matched, Row, Holding, SoldHeld, Named, OldRow, Doomed, Request

\* A step that changes no row and no holder, sells nothing, and leaves in blame
\* the buyers and the rows it gives up.
LEMMA StillStep ==
  ASSUME Sane, Matched, tickets' = tickets, holder' = holder, blamed \subseteq blamed',
         \A r \in Registration :
           /\ pc'[r] = "sold" => pc[r] = "sold"
           /\ pc[r] = "sold" => pc'[r] = "sold" \/ r \in blamed'
           /\ pc[r] \in {"committed", "done"} => pc'[r] \in {"committed", "done"},
         \A c \in Cancellation :
           /\ pc'[c] \in {"freed", "kept", "unknown"} =>
                pc[c] \in {"freed", "kept", "unknown"}
           /\ pc[c] = "freed" =>
                \/ pc'[c] = "freed"
                \/ tickets[SeatOf[c]] \in blamed' \cup {None}
  PROVE  Matched'
<1>t. /\ tickets \in [Seat -> Registration \cup {None}]
      /\ holder \in [Seat -> Registration \cup {None}]
  BY DEF Sane, TypeOK
<1>1. ASSUME NEW s \in Seat PROVE Row(s)'
  BY DEF Matched, Row
<1>2. ASSUME NEW s \in Seat PROVE Holding(s)'
  BY <1>t DEF Matched, Holding
<1>3. SoldHeld'
  BY DEF Matched, SoldHeld
<1>4. Named'
  BY <1>t DEF Matched, Named
<1>5. OldRow'
  BY DEF Matched, OldRow
<1>6. Doomed'
  BY DEF Matched, Doomed
<1>. QED BY <1>1, <1>2, <1>3, <1>4, <1>5, <1>6 DEF Matched

\* One request moves, between places where it has sold, committed, freed or
\* found nothing, or to its end with blame for what it leaves.
LEMMA StillMove ==
  ASSUME Sane, Matched, NEW q \in Request, NEW to,
         tickets' = tickets, holder' = holder, blamed \subseteq blamed',
         pc' = [pc EXCEPT ![q] = to],
         to \notin {"sold", "freed", "kept", "unknown"},
         pc[q] \in {"committed", "done"} => to \in {"committed", "done"},
         pc[q] = "sold" => q \in blamed',
         pc[q] = "freed" => tickets[SeatOf[q]] \in blamed' \cup {None}
  PROVE  Matched'
<1>t. pc \in [Request -> {"new", "done"} \cup RegisterPC \cup UnregisterPC]
  BY DEF Sane, TypeOK
<1>1. \A p \in Request : pc'[p] = IF p = q THEN to ELSE pc[p]
  BY <1>t
<1>2. ASSUME NEW r \in Registration
      PROVE  /\ pc'[r] = "sold" => pc[r] = "sold"
             /\ pc[r] = "sold" => pc'[r] = "sold" \/ r \in blamed'
             /\ pc[r] \in {"committed", "done"} => pc'[r] \in {"committed", "done"}
  BY <1>1 DEF Request
<1>3. ASSUME NEW c \in Cancellation
      PROVE  /\ pc'[c] \in {"freed", "kept", "unknown"} =>
                  pc[c] \in {"freed", "kept", "unknown"}
             /\ pc[c] = "freed" =>
                  pc'[c] = "freed" \/ tickets[SeatOf[c]] \in blamed' \cup {None}
  BY <1>1 DEF Request
<1>. QED BY <1>2, <1>3, StillStep

LEMMA BuyMatched ==
  ASSUME Sane, Matched, NEW r \in Registration, Buy(r)
  PROVE  Matched'
<1>t. /\ tickets \in [Seat -> Registration \cup {None}]
      /\ holder \in [Seat -> Registration \cup {None}]
      /\ pc \in [Request -> {"new", "done"} \cup RegisterPC \cup UnregisterPC]
      /\ None \notin Registration
      /\ SeatOf[r] \in Seat
      /\ r \in Request /\ r \notin Cancellation
      /\ Cancellation \subseteq Request /\ Registration \subseteq Request
  BY RequestAssumption, DataAssumption DEF Sane, TypeOK, Request
<1>1. /\ pc[r] = "buying" /\ pc' = [pc EXCEPT ![r] = "sold"]
      /\ holder[SeatOf[r]] = None
      /\ holder' = [holder EXCEPT ![SeatOf[r]] = r]
      /\ tickets' = tickets
      /\ blamed \subseteq blamed'
      /\ tickets[SeatOf[r]] # None \/ Cancelling(SeatOf[r]) # {} => r \in blamed'
  BY DEF Buy, Goto, dbVars
<1>2. ASSUME NEW s \in Seat PROVE Row(s)'
  BY <1>t, <1>1 DEF Matched, Row
<1>3. ASSUME NEW s \in Seat PROVE Holding(s)'
  BY <1>t, <1>1 DEF Matched, Holding
<1>4. SoldHeld'
  BY <1>t, <1>1 DEF Matched, SoldHeld
<1>5. Named'
  BY <1>t, <1>1 DEF Matched, Named
<1>6. OldRow'
  BY <1>t, <1>1 DEF Matched, OldRow
<1>7. Doomed'
  <2>1. ASSUME NEW c \in Cancellation, pc[c] \in {"freed", "kept", "unknown"},
               SeatOf[c] = SeatOf[r]
        PROVE  r \in blamed'
    BY <1>1, <2>1 DEF Cancelling
  <2>2. ASSUME NEW c \in Cancellation PROVE pc'[c] = pc[c] /\ SeatOf[c] \in Seat
    BY <1>t, <1>1, DataAssumption
  <2>. QED BY <1>t, <1>1, <2>1, <2>2 DEF Matched, Doomed
<1>. QED BY <1>2, <1>3, <1>4, <1>5, <1>6, <1>7 DEF Matched

LEMMA CommitMatched ==
  ASSUME Sane, Matched, NEW r \in Registration, pc[r] = "sold", ~Clash(r),
         WriteRegistration(r), NEW to \in {"committed", "done"},
         pc' = [pc EXCEPT ![r] = to], holder' = holder, blamed \subseteq blamed'
  PROVE  Matched'
<1>t. /\ tickets \in [Seat -> Registration \cup {None}]
      /\ holder \in [Seat -> Registration \cup {None}]
      /\ pc \in [Request -> {"new", "done"} \cup RegisterPC \cup UnregisterPC]
      /\ None \notin Registration
      /\ SeatOf[r] \in Seat
      /\ r \in Request /\ r \notin Cancellation
      /\ Cancellation \subseteq Request /\ Registration \subseteq Request
  BY RequestAssumption, DataAssumption DEF Sane, TypeOK, Request
<1>1. /\ tickets[SeatOf[r]] = None
      /\ tickets' = [tickets EXCEPT ![SeatOf[r]] = r]
      /\ holder[SeatOf[r]] = r \/ r \in blamed
  BY DEF Clash, WriteRegistration, Matched, SoldHeld
<1>2. ASSUME NEW s \in Seat PROVE Row(s)'
  BY <1>t, <1>1 DEF Matched, Row
<1>3. ASSUME NEW s \in Seat PROVE Holding(s)'
  BY <1>t, <1>1 DEF Matched, Holding, Named
<1>4. SoldHeld'
  BY <1>t, <1>1 DEF Matched, SoldHeld
<1>5. Named'
  BY <1>t, <1>1 DEF Matched, Named
<1>6. OldRow'
  BY <1>t, <1>1 DEF Matched, OldRow, SoldHeld
<1>7. Doomed'
  BY <1>t, <1>1 DEF Matched, Doomed
<1>. QED BY <1>2, <1>3, <1>4, <1>5, <1>6, <1>7 DEF Matched

LEMMA UnregisterMatched ==
  ASSUME Sane, Matched, NEW c \in Cancellation, Unregister(c)
  PROVE  Matched'
<1>t. /\ tickets \in [Seat -> Registration \cup {None}]
      /\ holder \in [Seat -> Registration \cup {None}]
      /\ pc \in [Request -> {"new", "done"} \cup RegisterPC \cup UnregisterPC]
      /\ None \notin Registration
      /\ SeatOf[c] \in Seat
      /\ c \in Request /\ c \notin Registration
      /\ Cancellation \subseteq Request /\ Registration \subseteq Request
      /\ SeatOf \in [Request -> Seat]
  BY RequestAssumption, DataAssumption DEF Sane, TypeOK, Request
<1>1. /\ pc[c] = "cancelling"
      /\ tickets' = tickets
      /\ blamed \subseteq blamed'
      /\ \/ /\ pc' = [pc EXCEPT ![c] = "freed"]
            /\ holder' = [holder EXCEPT ![SeatOf[c]] = None]
            /\ tickets[SeatOf[c]] = holder[SeatOf[c]] \/ holder[SeatOf[c]] \in blamed'
         \/ /\ pc' = [pc EXCEPT ![c] = "kept"]
            /\ holder' = holder
            /\ holder[SeatOf[c]] \in blamed'
         \/ /\ pc' = [pc EXCEPT ![c] = "unknown"]
            /\ holder' = holder
            /\ holder[SeatOf[c]] = None
  BY DEF Unregister, Goto, dbVars
<1>2. /\ \A p \in Request \ {c} : pc'[p] = pc[p]
      /\ pc'[c] \in {"freed", "kept", "unknown"}
      /\ pc'[c] # "freed" => holder' = holder
      /\ \A s \in Seat \ {SeatOf[c]} : holder'[s] = holder[s]
      /\ holder'[SeatOf[c]] \in {holder[SeatOf[c]], None}
  BY <1>t, <1>1
<1>3. ASSUME NEW s \in Seat PROVE Row(s)'
  BY <1>t, <1>1, <1>2 DEF Matched, Row
<1>4. ASSUME NEW s \in Seat PROVE Holding(s)'
  BY <1>t, <1>1, <1>2 DEF Matched, Holding
<1>5. SoldHeld'
  <2>. SUFFICES ASSUME NEW r \in Registration, pc'[r] = "sold"
       PROVE  holder'[SeatOf[r]] = r \/ r \in blamed'
    BY DEF SoldHeld
  <2>1. pc[r] = "sold" /\ SeatOf[r] \in Seat
    BY <1>t, <1>2
  <2>2. holder[SeatOf[r]] = r \/ r \in blamed
    BY <2>1 DEF Matched, SoldHeld
  <2>3. \A s \in Seat : tickets[s] # r
    BY <1>t, <2>1 DEF Matched, Named
  <2>. QED BY <1>t, <1>1, <1>2, <2>1, <2>2, <2>3
<1>6. Named'
  BY <1>t, <1>1, <1>2 DEF Matched, Named
<1>7. OldRow'
  BY <1>t, <1>1, <1>2 DEF Matched, OldRow
<1>8. Doomed'
  BY <1>t, <1>1, <1>2 DEF Matched, Doomed
<1>. QED BY <1>3, <1>4, <1>5, <1>6, <1>7, <1>8 DEF Matched

LEMMA DeleteMatched ==
  ASSUME Sane, Matched, NEW c \in Cancellation, pc[c] \in {"freed", "kept", "unknown"},
         DeleteTicket(c), NEW to \in {"deleted", "done"},
         pc' = [pc EXCEPT ![c] = to], holder' = holder, blamed \subseteq blamed'
  PROVE  Matched'
<1>t. /\ tickets \in [Seat -> Registration \cup {None}]
      /\ holder \in [Seat -> Registration \cup {None}]
      /\ pc \in [Request -> {"new", "done"} \cup RegisterPC \cup UnregisterPC]
      /\ SeatOf[c] \in Seat
      /\ c \in Request /\ c \notin Registration
      /\ Cancellation \subseteq Request /\ Registration \subseteq Request
      /\ SeatOf \in [Request -> Seat]
      /\ None \notin Registration
  BY RequestAssumption, DataAssumption DEF Sane, TypeOK, Request
<1>1. /\ tickets' = [tickets EXCEPT ![SeatOf[c]] = None]
      /\ \A p \in Request \ {c} : pc'[p] = pc[p]
      /\ pc'[c] \notin {"freed", "kept", "unknown"}
      /\ holder[SeatOf[c]] # None => holder[SeatOf[c]] \in blamed
  BY <1>t DEF DeleteTicket, Matched, Doomed
<1>2. ASSUME NEW s \in Seat PROVE Row(s)'
  BY <1>t, <1>1 DEF Matched, Row
<1>3. ASSUME NEW s \in Seat PROVE Holding(s)'
  BY <1>t, <1>1 DEF Matched, Holding
<1>4. SoldHeld' /\ OldRow'
  BY <1>t, <1>1 DEF Matched, SoldHeld, OldRow
<1>5. Named'
  BY <1>t, <1>1 DEF Matched, Named
<1>6. Doomed'
  BY <1>t, <1>1 DEF Matched, Doomed
<1>. QED BY <1>2, <1>3, <1>4, <1>5, <1>6 DEF Matched

\* Two buyers of one seat: the one whose row is not there yet is in blame, or
\* the other is.
LEMMA ClashBlamed ==
  ASSUME Sane, Keyed, Matched, NEW r \in Registration, CommitClashes(r)
  PROVE  Matched'
<1>t. /\ r \in Request /\ r \notin Cancellation /\ SeatOf[r] \in Seat
      /\ KeyOf[r] # None => idem[KeyOf[r]] = None
      /\ pc[r] = "sold"
  BY RequestAssumption, DataAssumption
  DEF Request, CommitClashes, Keyed, Unrecorded, Looked
<1>1. tickets[SeatOf[r]] # None
  BY <1>t DEF CommitClashes, Clash
<1>2. r \in blamed'
  BY <1>t, <1>1 DEF CommitClashes, Matched, OldRow
<1>3. blamed \subseteq blamed'
  BY DEF CommitClashes
<1>. QED
  BY <1>t, <1>2, <1>3, StillMove DEF CommitClashes, Answer, dbVars, providerVars

LEMMA RegisterMatched ==
  ASSUME Sane, Keyed, Matched, NEW r \in Registration, Arrive(r) \/ Register(r)
  PROVE  Matched'
<1>t. r \in Request
  BY DEF Request
<1>1. ASSUME NEW to, pc' = [pc EXCEPT ![r] = to],
             to \notin {"sold", "freed", "kept", "unknown"},
             pc[r] \in {"new", "locking"} \cup (Looked \ {"sold"}) \cup {"lookup", "committed"},
             pc[r] = "committed" => to = "done",
             UNCHANGED <<tickets, holder, blamed>>
      PROVE  Matched'
  BY <1>t, <1>1, StillMove DEF Looked
<1>2. CASE Arrive(r) \/ Lock(r) \/ ListSeats(r)
  BY <1>1, <1>2 DEF Arrive, Lock, ListSeats, Goto, dbVars, providerVars, historyVars, Looked
<1>3. CASE Lookup(r) \/ Refuse(r) \/ Finish(r)
  BY <1>1, <1>3
  DEF Lookup, Refuse, Finish, Answer, dbVars, providerVars, historyVars, Looked
<1>4. CASE CheckEvent(r) \/ CacheSeats(r)
  BY <1>1, <1>4
  DEF CheckEvent, CacheSeats, Decide, Answer, Goto, dbVars, providerVars, historyVars,
      Looked
<1>5. CASE Buy(r)
  BY <1>5, BuyMatched
<1>6. CASE Commit(r)
  BY <1>6, CommitMatched DEF Commit, Goto, providerVars, historyVars
<1>7. CASE CommitClashes(r)
  BY <1>7, ClashBlamed
<1>. QED BY <1>2, <1>3, <1>4, <1>5, <1>6, <1>7 DEF Register

LEMMA CancelMatched ==
  ASSUME Sane, Matched, NEW c \in Cancellation, ArriveCancel(c) \/ Cancel(c)
  PROVE  Matched'
<1>t. c \in Request
  BY DEF Request
<1>1. CASE ArriveCancel(c) \/ ReadTicket(c) \/ FinishCancel(c)
  <2>1. PICK to \in {"reading", "cancelling", "done"} :
          /\ pc' = [pc EXCEPT ![c] = to]
          /\ pc[c] \in {"new", "reading", "deleted"}
          /\ UNCHANGED <<tickets, holder, blamed>>
    BY <1>1
    DEF ArriveCancel, ReadTicket, FinishCancel, Goto, Answer, dbVars, providerVars,
        historyVars
  <2>. QED BY <1>t, <2>1, StillMove
<1>2. CASE Unregister(c)
  BY <1>2, UnregisterMatched
<1>3. CASE DeleteCancelled(c) \/ DeleteUnknown(c)
  BY <1>3, DeleteMatched
  DEF DeleteCancelled, DeleteUnknown, Answer, providerVars, historyVars
<1>. QED BY <1>1, <1>2, <1>3 DEF Cancel

LEMMA LateMatched ==
  ASSUME Sane, Matched, NEW q \in Request, LateEffect(q)
  PROVE  Matched'
<1>t. /\ tickets \in [Seat -> Registration \cup {None}]
      /\ holder \in [Seat -> Registration \cup {None}]
      /\ SeatOf \in [Request -> Seat]
      /\ SeatOf[q] \in Seat
      /\ Registration \subseteq Request /\ Cancellation \subseteq Request
      /\ None \notin Registration
  BY RequestAssumption, DataAssumption DEF Sane, TypeOK, Request
<1>1. /\ pc' = pc /\ tickets' = tickets
      /\ blamed \subseteq blamed'
      /\ tickets[SeatOf[q]] \in Registration => tickets[SeatOf[q]] \in blamed'
      /\ holder[SeatOf[q]] \in Registration => holder[SeatOf[q]] \in blamed'
      /\ q \in Registration => q \in blamed'
  BY DEF LateEffect, Exposed, dbVars
<1>2. /\ \A s \in Seat \ {SeatOf[q]} : holder'[s] = holder[s]
      /\ \/ holder'[SeatOf[q]] \in {holder[SeatOf[q]], None}
         \/ q \in Registration /\ holder'[SeatOf[q]] = q
  BY <1>t DEF LateEffect, Request
<1>3. ASSUME NEW s \in Seat PROVE Row(s)'
  BY <1>t, <1>1, <1>2 DEF Matched, Row
<1>4. ASSUME NEW s \in Seat PROVE Holding(s)'
  BY <1>t, <1>1, <1>2 DEF Matched, Holding
<1>5. SoldHeld'
  <2>1. ASSUME NEW r \in Registration, pc[r] = "sold" PROVE holder'[SeatOf[r]] = r \/ r \in blamed'
    BY <1>t, <1>1, <1>2, <2>1 DEF Matched, SoldHeld
  <2>. QED BY <1>1, <2>1 DEF SoldHeld
<1>6. Named'
  BY <1>t, <1>1, <1>2 DEF Matched, Named
<1>7. OldRow'
  BY <1>1 DEF Matched, OldRow
<1>8. Doomed'
  BY <1>t, <1>1, <1>2 DEF Matched, Doomed
<1>. QED BY <1>3, <1>4, <1>5, <1>6, <1>7, <1>8 DEF Matched

LEMMA DisturbMatched ==
  ASSUME Sane, Matched, NEW q \in Request, Disturb(q)
  PROVE  Matched'
<1>t. /\ q \in Registration => q \in Exposed(q)
      /\ tickets[SeatOf[q]] \in Exposed(q) \cup {None}
  BY DataAssumption DEF Exposed, Sane, TypeOK
<1>1. CASE Fails(q)
  BY <1>1, StillMove DEF Fails, Answer, Calling, dbVars, providerVars, historyVars
<1>2. CASE TimesOut(q)
  BY <1>2, StillMove DEF TimesOut, Answer, dbVars
<1>3. CASE LateEffect(q)
  BY <1>3, LateMatched
<1>4. ASSUME pc[q] \in {"sold", "freed", "kept", "unknown"}, tickets' = tickets,
             holder' = holder, blamed' = blamed \cup Exposed(q), Answer(q, "error")
      PROVE  Matched'
  <2>1. pc[q] = "sold" => q \in Registration
    BY <1>4 DEF Sane, Places, UnregisterPC, Request
  <2>2. /\ blamed \subseteq blamed'
        /\ pc[q] = "sold" => q \in blamed'
        /\ tickets[SeatOf[q]] \in blamed' \cup {None}
        /\ pc' = [pc EXCEPT ![q] = "done"]
    BY <1>t, <1>4, <2>1 DEF Answer
  <2>. QED BY <1>4, <2>2, StillMove
<1>5. CASE LosesAnswer(q)
  BY <1>4, <1>5 DEF LosesAnswer, dbVars, providerVars
<1>6. CASE CommitFails(q)
  <2>1. /\ pc[q] \in {"sold", "freed", "kept", "unknown"}
        /\ pc' = [pc EXCEPT ![q] = "done"]
        /\ holder' = holder
        /\ blamed \subseteq blamed'
    BY <1>6 DEF CommitFails, Answer, providerVars
  <2>2. CASE UNCHANGED dbVars
    BY <1>4, <1>6, <2>2 DEF CommitFails, dbVars, providerVars
  <2>3. CASE q \in Registration /\ ~Clash(q) /\ WriteRegistration(q)
    <3>1. pc[q] = "sold"
      BY <2>1, <2>3 DEF Sane, Places, RegisterPC
    <3>. QED BY <2>1, <2>3, <3>1, CommitMatched
  <2>4. CASE q \in Cancellation /\ DeleteTicket(q)
    <3>1. pc[q] \in {"freed", "kept", "unknown"}
      BY <2>1, <2>4 DEF Sane, Places, UnregisterPC
    <3>. QED BY <2>1, <2>4, <3>1, DeleteMatched
  <2>. QED BY <1>6, <2>2, <2>3, <2>4 DEF CommitFails
<1>. QED BY <1>1, <1>2, <1>3, <1>5, <1>6 DEF Disturb

LEMMA CrashMatched ==
  ASSUME Sane, Matched, Crash
  PROVE  Matched'
<1>1. /\ tickets' = tickets /\ holder' = holder /\ blamed \subseteq blamed'
      /\ \A q \in Request :
           /\ pc'[q] \in {"new", "done"}
           /\ pc[q] \in {"new", "done"} => pc'[q] = pc[q]
           /\ pc[q] \notin {"new", "done"} => pc'[q] = "done" /\ Exposed(q) \subseteq blamed'
  BY DEF Crash, dbVars, providerVars, Sane, TypeOK
<1>2. ASSUME NEW r \in Registration
      PROVE  /\ pc'[r] = "sold" => pc[r] = "sold"
             /\ pc[r] = "sold" => pc'[r] = "sold" \/ r \in blamed'
             /\ pc[r] \in {"committed", "done"} => pc'[r] \in {"committed", "done"}
  BY <1>1 DEF Request, Exposed
<1>3. ASSUME NEW c \in Cancellation
      PROVE  /\ pc'[c] \in {"freed", "kept", "unknown"} =>
                  pc[c] \in {"freed", "kept", "unknown"}
             /\ pc[c] = "freed" =>
                  pc'[c] = "freed" \/ tickets[SeatOf[c]] \in blamed' \cup {None}
  <2>1. c \in Request /\ tickets[SeatOf[c]] \in Registration \cup {None}
    BY DataAssumption DEF Request, Sane, TypeOK
  <2>2. tickets[SeatOf[c]] \in Exposed(c) \cup {None}
    BY <2>1 DEF Exposed
  <2>. QED BY <1>1, <2>1, <2>2
<1>. QED BY <1>1, <1>2, <1>3, StillStep

LEMMA StepMatched == Sane /\ Keyed /\ Matched /\ [Next]_vars => Matched'
<1>. SUFFICES ASSUME Sane, Keyed, Matched, [Next]_vars PROVE Matched'
  OBVIOUS
<1>1. CASE ChangeEvent \/ ExpireSeats \/ UNCHANGED vars
  <2>1. UNCHANGED <<tickets, holder, blamed, pc>>
    BY <1>1 DEF ChangeEvent, ExpireSeats, vars, dbVars, providerVars, historyVars
  <2>. QED BY <2>1, StillStep
<1>. QED
  BY <1>1, RegisterMatched, CancelMatched, DisturbMatched, CrashMatched DEF Next

\* The tables and the provider agree about every registration that no fault,
\* no refused cancellation and no re-sale during a cancellation has touched.
THEOREM StaysInStep == Spec => []InStep
<1>1. Init => Sane /\ Keyed /\ Matched
  BY InitSane, InitKeyed, InitMatched
<1>2. Sane /\ Keyed /\ Matched /\ [Next]_vars => (Sane /\ Keyed /\ Matched)'
  BY StepSane, StepKeyed, StepMatched
<1>. QED BY <1>1, <1>2, MatchedInStep, PTL DEF Spec

-----------------------------------------------------------------------------
(* What was answered under a key stays the answer of that key.             *)

Sold(r) == response[r] = "created" \/ pc[r] = "committed"

Honoured ==
  \A r \in Registration :
    Sold(r) /\ KeyOf[r] # None =>
      idem[KeyOf[r]] # None /\ SameData(r, idem[KeyOf[r]])

\* A recorded key is recorded for ever.
LEMMA IdemKept ==
  ASSUME Sane, Keyed, [Next]_vars
  PROVE  \A k \in Key : idem[k] # None => idem'[k] = idem[k]
<1>1. ASSUME NEW r \in Registration, pc[r] = "sold", WriteRegistration(r)
      PROVE  \A k \in Key : idem[k] # None => idem'[k] = idem[k]
  BY <1>1, KeyAssumption
  DEF WriteRegistration, Keyed, Unrecorded, Looked, Sane, TypeOK
<1>2. ASSUME NEW r \in Registration, Arrive(r) \/ Register(r)
      PROVE  idem' = idem \/ (pc[r] = "sold" /\ WriteRegistration(r))
  BY <1>2
  DEF Register, Arrive, Lock, Lookup, CheckEvent, ListSeats, CacheSeats, Buy, Refuse,
      Commit, CommitClashes, Finish, Goto, dbVars
<1>3. ASSUME NEW c \in Cancellation, ArriveCancel(c) \/ Cancel(c) PROVE idem' = idem
  BY <1>3
  DEF Cancel, ArriveCancel, ReadTicket, Unregister, DeleteCancelled, DeleteUnknown,
      FinishCancel, dbVars
<1>4. ASSUME NEW q \in Request, Disturb(q)
      PROVE  \/ idem' = idem
             \/ q \in Registration /\ pc[q] = "sold" /\ WriteRegistration(q)
  BY <1>4
  DEF Disturb, Fails, TimesOut, LateEffect, LosesAnswer, CommitFails, dbVars, Sane, Places,
      RegisterPC
<1>5. CASE Crash \/ ChangeEvent \/ ExpireSeats \/ UNCHANGED vars
  BY <1>5 DEF Crash, ChangeEvent, ExpireSeats, vars, dbVars
<1>. QED BY <1>1, <1>2, <1>3, <1>4, <1>5 DEF Next

\* A registration becomes sold by a replay of its key or by its commit.
LEMMA SoldSteps ==
  ASSUME Sane, [Next]_vars, NEW r \in Registration, Sold(r)', ~Sold(r)
  PROVE  \/ Commit(r)
         \/ Lookup(r) /\ Answer(r, "created") /\ SameData(r, idem[KeyOf[r]])
                      /\ idem[KeyOf[r]] # None
<1>t. r \in Request /\ Registration \subseteq Request /\ Cancellation \subseteq Request
  BY DEF Request
<1>e. ASSUME NEW q \in Request, NEW what, Answer(q, what) PROVE q = r /\ what = "created"
  BY <1>t, <1>e DEF Answer, Sold, Sane, TypeOK
<1>g. ASSUME NEW q \in Request, NEW to, pc' = [pc EXCEPT ![q] = to], response' = response
      PROVE  q = r /\ to = "committed"
  BY <1>t, <1>g DEF Sold, Sane, TypeOK
<1>1. ASSUME NEW p \in Registration, Arrive(p) \/ Register(p)
      PROVE  \/ Commit(r)
             \/ Lookup(r) /\ Answer(r, "created") /\ SameData(r, idem[KeyOf[r]])
                          /\ idem[KeyOf[r]] # None
  <2>1. CASE Arrive(p) \/ Lock(p) \/ ListSeats(p) \/ Buy(p)
    BY <1>t, <1>g, <2>1 DEF Arrive, Lock, ListSeats, Buy, Goto
  <2>2. CASE CheckEvent(p) \/ CacheSeats(p) \/ Refuse(p) \/ CommitClashes(p)
    BY <1>t, <1>e, <1>g, <2>2
    DEF CheckEvent, CacheSeats, Decide, Refuse, CommitClashes, Goto
  <2>3. CASE Finish(p)
    BY <1>t, <1>e, <2>3 DEF Finish, Sold
  <2>4. CASE Commit(p)
    BY <1>t, <1>g, <2>4 DEF Commit, Goto
  <2>5. CASE Lookup(p)
    <3>1. CASE pc' = [pc EXCEPT ![p] = "checking"] /\ UNCHANGED <<lock, response>>
      BY <1>t, <3>1 DEF Sold, Sane, TypeOK
    <3>2. CASE idem[KeyOf[p]] # None /\ Answer(p, Replay(p, idem[KeyOf[p]]))
      BY <1>t, <1>e, <2>5, <3>2 DEF Replay
    <3>. QED BY <2>5, <3>1, <3>2 DEF Lookup
  <2>. QED BY <1>1, <2>1, <2>2, <2>3, <2>4, <2>5 DEF Register
<1>2. ASSUME NEW c \in Cancellation, ArriveCancel(c) \/ Cancel(c) PROVE FALSE
  <2>1. c # r /\ c \in Request
    BY <1>t, RequestAssumption
  <2>. QED
    BY <1>2, <1>e, <1>g, <2>1
    DEF Cancel, ArriveCancel, ReadTicket, Unregister, DeleteCancelled, DeleteUnknown,
        FinishCancel, Goto
<1>3. ASSUME NEW q \in Request, Disturb(q) PROVE FALSE
  BY <1>3, <1>e DEF Disturb, Fails, TimesOut, LateEffect, LosesAnswer, CommitFails, Sold
<1>4. CASE Crash
  BY <1>t, <1>4 DEF Crash, Sold, Sane, TypeOK
<1>5. CASE ChangeEvent \/ ExpireSeats \/ UNCHANGED vars
  BY <1>5 DEF ChangeEvent, ExpireSeats, vars, Sold
<1>. QED BY <1>1, <1>2, <1>3, <1>4, <1>5 DEF Next

LEMMA StepHonoured ==
  ASSUME Sane, Keyed, Honoured, [Next]_vars
  PROVE  Honoured'
<1>. SUFFICES ASSUME NEW r \in Registration, Sold(r)', KeyOf[r] # None
     PROVE  idem'[KeyOf[r]] # None /\ SameData(r, idem'[KeyOf[r]])
  BY DEF Honoured, SameData
<1>k. KeyOf[r] \in Key /\ idem \in [Key -> Registration \cup {None}]
  BY KeyAssumption DEF Sane, TypeOK
<1>1. CASE idem[KeyOf[r]] # None /\ SameData(r, idem[KeyOf[r]])
  BY <1>k, <1>1, IdemKept
<1>2. CASE Commit(r)
  BY <1>k, <1>2, RequestAssumption DEF Commit, WriteRegistration, SameData, Request
<1>. QED BY <1>1, <1>2, SoldSteps DEF Honoured

\* All the 201 answers under one key name one ticket.
THEOREM OneTicketPerKey == Spec => []AnswersAgree
<1>1. Init => Honoured
  BY DEF Init, Honoured, Sold, Request
<1>2. Sane /\ Keyed /\ Honoured /\ [Next]_vars => Honoured'
  BY StepHonoured
<1>3. Honoured => AnswersAgree
  BY DEF Honoured, Sold, AnswersAgree, SameKey, SameData
<1>. QED BY <1>1, <1>2, <1>3, AlwaysKeyed, PTL DEF Spec

-----------------------------------------------------------------------------
(* Advisory locks.                                                         *)

\* Past the wait for its lock, and not yet at its end.
Served == Looked \cup {"lookup"}

Serving == \A l \in LockId : lock[l] # None => pc[lock[l]] \in Served

\* One request moves: to its end or its commit, giving up its lock, or on.
LEMMA MoveServing ==
  ASSUME Sane, Serving, NEW q \in Request, NEW to, pc' = [pc EXCEPT ![q] = to],
         \/ Unlock(q)
         \/ /\ lock' = lock
            /\ q \in Registration /\ pc[q] \in Served => to \in Served
  PROVE  Serving'
<1>t. /\ lock \in [LockId -> Registration \cup {None}]
      /\ Registration \subseteq Request
      /\ None \notin Registration
      /\ \A p \in Request : pc'[p] = IF p = q THEN to ELSE pc[p]
  BY RequestAssumption DEF Sane, TypeOK, Request
<1>1. CASE Unlock(q)
  BY <1>t, <1>1 DEF Serving, Unlock
<1>2. CASE lock' = lock /\ (q \in Registration /\ pc[q] \in Served => to \in Served)
  BY <1>t, <1>2 DEF Serving
<1>. QED BY <1>1, <1>2

LEMMA RegisterServing ==
  ASSUME Sane, Keyed, Serving, NEW r \in Registration, Arrive(r) \/ Register(r)
  PROVE  Serving'
<1>t. r \in Request
  BY DEF Request
<1>1. CASE \E what : Answer(r, what)
  BY <1>t, <1>1, MoveServing DEF Answer
<1>2. ASSUME NEW to, pc' = [pc EXCEPT ![r] = to], lock' = lock,
             pc[r] \in Served => to \in Served
      PROVE  Serving'
  BY <1>t, <1>2, MoveServing
<1>3. CASE Arrive(r) \/ ListSeats(r) \/ Buy(r)
  BY <1>2, <1>3 DEF Arrive, ListSeats, Buy, Goto, Served, Looked
<1>4. CASE Lookup(r) \/ CheckEvent(r) \/ CacheSeats(r)
  BY <1>1, <1>2, <1>4 DEF Lookup, CheckEvent, CacheSeats, Decide, Goto, Served, Looked
<1>5. CASE Refuse(r) \/ CommitClashes(r) \/ Finish(r)
  BY <1>1, <1>5 DEF Refuse, CommitClashes, Finish
<1>6. CASE Commit(r)
  BY <1>t, <1>6, MoveServing DEF Commit, Goto
<1>7. CASE Lock(r)
  <2>1. /\ lock \in [LockId -> Registration \cup {None}]
        /\ pc \in [Request -> {"new", "done"} \cup RegisterPC \cup UnregisterPC]
        /\ Registration \subseteq Request
        /\ None \notin Registration
    BY RequestAssumption DEF Sane, TypeOK, Request
  <2>2. /\ pc[r] = "locking"
        /\ pc' = [pc EXCEPT ![r] = "lookup"]
        /\ lock' = [lock EXCEPT ![LockOf[KeyOf[r]]] = r]
    BY <1>7 DEF Lock, Goto
  <2>. QED BY <1>t, <2>1, <2>2 DEF Serving, Served, Looked
<1>. QED BY <1>3, <1>4, <1>5, <1>6, <1>7 DEF Register

LEMMA StepServing ==
  ASSUME Sane, Keyed, Serving, [Next]_vars
  PROVE  Serving'
<1>1. ASSUME NEW c \in Cancellation, ArriveCancel(c) \/ Cancel(c) PROVE Serving'
  <2>1. c \in Request /\ c \notin Registration
    BY RequestAssumption DEF Request
  <2>2. CASE \E what : Answer(c, what)
    BY <2>1, <2>2, MoveServing DEF Answer
  <2>3. CASE lock' = lock /\ \E to : pc' = [pc EXCEPT ![c] = to]
    BY <2>1, <2>3, MoveServing
  <2>4. CASE ArriveCancel(c) \/ Unregister(c) \/ DeleteCancelled(c)
    BY <2>3, <2>4 DEF ArriveCancel, Unregister, DeleteCancelled, Goto
  <2>5. CASE ReadTicket(c) \/ DeleteUnknown(c) \/ FinishCancel(c)
    BY <2>2, <2>3, <2>5 DEF ReadTicket, DeleteUnknown, FinishCancel
  <2>. QED BY <1>1, <2>4, <2>5 DEF Cancel
<1>2. ASSUME NEW q \in Request, Disturb(q) PROVE Serving'
  <2>1. CASE Answer(q, "error")
    BY <2>1, MoveServing DEF Answer
  <2>2. CASE LateEffect(q)
    BY <2>2 DEF LateEffect, Serving
  <2>. QED
    BY <1>2, <2>1, <2>2 DEF Disturb, Fails, TimesOut, LosesAnswer, CommitFails
<1>3. CASE Crash \/ ChangeEvent \/ ExpireSeats \/ UNCHANGED vars
  BY <1>3 DEF Crash, ChangeEvent, ExpireSeats, vars, Serving
<1>. QED BY <1>1, <1>2, <1>3, RegisterServing DEF Next

\* No lock outlives its request, and who waits for one waits for a request that
\* waits for no lock: for any keys, hash collisions and faults there is no
\* deadlock among advisory locks.
THEOREM LocksAreServed == Spec => []LockServed
<1>1. Init => Sane /\ Keyed /\ Serving
  BY InitSane, InitKeyed DEF Init, Serving
<1>2. Sane /\ Keyed /\ Serving /\ [Next]_vars => (Sane /\ Keyed /\ Serving)'
  BY StepSane, StepKeyed, StepServing
<1>3. Sane /\ Keyed /\ Serving => LockServed
  <2>. SUFFICES ASSUME Keyed, Serving, NEW r \in Registration, pc[r] = "locking",
                       lock[LockOf[KeyOf[r]]] # None
       PROVE  pc[lock[LockOf[KeyOf[r]]]] \in Served
    BY DEF LockServed, Served, Looked
  <2>1. LockOf[KeyOf[r]] \in LockId
    BY KeyAssumption DEF Keyed, HasKey
  <2>. QED BY <2>1 DEF Serving
<1>. QED BY <1>1, <1>2, <1>3, PTL DEF Spec

-----------------------------------------------------------------------------
(* Audit rows and lost tickets.                                            *)

\* A request that has not ended was not answered.
Unheard == \A q \in Request : response[q] # "none" => pc[q] = "done"

LEMMA AnswerUnheard ==
  ASSUME Sane, Unheard, NEW q \in Request, NEW what, Answer(q, what)
  PROVE  Unheard'
  BY DEF Sane, TypeOK, Answer, Unheard

LEMMA GoUnheard ==
  ASSUME Sane, Unheard, NEW q \in Request, NEW from, NEW to, from # "done",
         Goto(q, from, to), response' = response
  PROVE  Unheard'
  BY DEF Sane, TypeOK, Goto, Unheard

LEMMA StepUnheard ==
  ASSUME Sane, Unheard, [Next]_vars
  PROVE  Unheard'
<1>1. ASSUME NEW r \in Registration, Arrive(r) \/ Register(r) PROVE Unheard'
  <2>1. r \in Request
    BY DEF Request
  <2>2. CASE \E what : Answer(r, what)
    BY <2>1, <2>2, AnswerUnheard
  <2>3. CASE response' = response /\ \E from, to : from # "done" /\ Goto(r, from, to)
    BY <2>1, <2>3, GoUnheard
  <2>4. CASE Arrive(r) \/ Lock(r) \/ ListSeats(r) \/ Buy(r) \/ Commit(r)
    BY <2>3, <2>4 DEF Arrive, Lock, ListSeats, Buy, Commit
  <2>5. CASE Lookup(r) \/ CheckEvent(r) \/ CacheSeats(r)
    BY <2>2, <2>3, <2>5 DEF Lookup, CheckEvent, CacheSeats, Decide, Goto
  <2>6. CASE Refuse(r) \/ CommitClashes(r) \/ Finish(r)
    BY <2>2, <2>6 DEF Refuse, CommitClashes, Finish
  <2>. QED BY <1>1, <2>4, <2>5, <2>6 DEF Register
<1>2. ASSUME NEW c \in Cancellation, ArriveCancel(c) \/ Cancel(c) PROVE Unheard'
  <2>1. c \in Request
    BY DEF Request
  <2>2. CASE \E what : Answer(c, what)
    BY <2>1, <2>2, AnswerUnheard
  <2>3. CASE response' = response /\ \E from, to : from # "done" /\ Goto(c, from, to)
    BY <2>1, <2>3, GoUnheard
  <2>4. CASE ArriveCancel(c) \/ Unregister(c) \/ DeleteCancelled(c)
    BY <2>3, <2>4 DEF ArriveCancel, Unregister, DeleteCancelled, Goto
  <2>5. CASE ReadTicket(c) \/ DeleteUnknown(c) \/ FinishCancel(c)
    BY <2>2, <2>3, <2>5 DEF ReadTicket, DeleteUnknown, FinishCancel, Goto
  <2>. QED BY <1>2, <2>4, <2>5 DEF Cancel
<1>3. ASSUME NEW q \in Request, Disturb(q) PROVE Unheard'
  BY <1>3, AnswerUnheard
  DEF Disturb, Fails, TimesOut, LosesAnswer, CommitFails, LateEffect, Unheard
<1>4. CASE Crash \/ ChangeEvent \/ ExpireSeats \/ UNCHANGED vars
  BY <1>4 DEF Crash, ChangeEvent, ExpireSeats, vars, Unheard
<1>. QED BY <1>1, <1>2, <1>3, <1>4 DEF Next

\* Where a request is that has committed an outbox row.
Over == {"committed", "deleted", "done"}

Blameless(s) == \A r \in blamed : SeatOf[r] # s

Begun == {q \in Request : pc[q] # "new"}

\* What is written was written by a request past its commit, an unfinished
\* request was not answered, and whoever keeps a seat against a cancellation is
\* in blame.
Backing ==
  /\ \A q \in outbox : pc[q] \in Over
  /\ \A s \in Seat : tickets[s] # None => tickets[s] \in outbox
  /\ \A c \in Cancellation : pc[c] = "kept" => ~Blameless(SeatOf[c])
  /\ Unheard
  /\ IsFiniteSet(Begun)

LEMMA InitBacking == Init => Backing
<1>. SUFFICES ASSUME Init PROVE Backing
  OBVIOUS
<1>1. Begun = {}
  BY DEF Init, Begun
<1>. QED BY <1>1, FS_EmptySet DEF Init, Backing, Unheard, Request

\* One request moves, and writes only what it is entitled to.
LEMMA MoveBacking ==
  ASSUME Sane, Backing, Unheard', NEW q \in Request, NEW to,
         pc' = [pc EXCEPT ![q] = to],
         outbox' \in {outbox, outbox \cup {q}},
         q \in outbox' => to \in Over,
         \A s \in Seat : tickets'[s] \in {None, tickets[s]} \cup outbox',
         blamed \subseteq blamed',
         q \in Cancellation /\ to = "kept" => ~Blameless(SeatOf[q])'
  PROVE  Backing'
<1>1. /\ outbox \subseteq Request
      /\ \A p \in Request : pc'[p] = IF p = q THEN to ELSE pc[p]
  BY DEF Sane, TypeOK
<1>2. \A p \in outbox' : pc'[p] \in Over
  BY <1>1 DEF Backing
<1>3. \A s \in Seat : tickets'[s] # None => tickets'[s] \in outbox'
  BY DEF Backing
<1>4. ASSUME NEW c \in Cancellation, pc'[c] = "kept" PROVE ~Blameless(SeatOf[c])'
  <2>1. CASE c = q
    BY <1>1, <1>4, <2>1
  <2>2. CASE c # q
    <3>1. ~Blameless(SeatOf[c])
      BY <1>1, <1>4, <2>2 DEF Backing, Request
    <3>. QED BY <3>1 DEF Blameless
  <2>. QED BY <2>1, <2>2
<1>5. IsFiniteSet(Begun')
  <2>1. IsFiniteSet(Begun \cup {q})
    BY FS_AddElement DEF Backing
  <2>2. Begun' \subseteq Begun \cup {q}
    BY <1>1 DEF Begun
  <2>. QED BY <2>1, <2>2, FS_Subset
<1>6. IsFiniteSet(Begun)'
  BY <1>5 DEF Begun
<1>. QED BY <1>2, <1>3, <1>4, <1>6 DEF Backing

LEMMA RegisterBacking ==
  ASSUME Sane, Backing, Unheard', NEW r \in Registration, Arrive(r) \/ Register(r)
  PROVE  Backing'
<1>t. r \in Request /\ r \notin Cancellation /\ SeatOf[r] \in Seat
      /\ tickets \in [Seat -> Registration \cup {None}]
  BY RequestAssumption, DataAssumption DEF Request, Sane, TypeOK
<1>1. ASSUME NEW to, pc' = [pc EXCEPT ![r] = to], pc[r] \in Over => to \in Over,
             UNCHANGED <<tickets, outbox>>, blamed \subseteq blamed'
      PROVE  Backing'
  BY <1>t, <1>1, MoveBacking DEF Backing
<1>2. CASE Arrive(r) \/ Lock(r) \/ ListSeats(r) \/ Buy(r)
  BY <1>1, <1>2
  DEF Arrive, Lock, ListSeats, Buy, Goto, dbVars, historyVars, Over
<1>3. CASE Lookup(r) \/ CheckEvent(r) \/ CacheSeats(r)
  BY <1>1, <1>3
  DEF Lookup, CheckEvent, CacheSeats, Decide, Answer, Goto, dbVars, historyVars, Over
<1>4. CASE Refuse(r) \/ CommitClashes(r) \/ Finish(r)
  BY <1>1, <1>4 DEF Refuse, CommitClashes, Finish, Answer, dbVars, historyVars, Over
<1>5. CASE Commit(r)
  <2>1. /\ pc' = [pc EXCEPT ![r] = "committed"]
        /\ outbox' = outbox \cup {r}
        /\ tickets' = [tickets EXCEPT ![SeatOf[r]] = r]
        /\ blamed' = blamed
    BY <1>5 DEF Commit, Goto, WriteRegistration, historyVars
  <2>. QED BY <1>t, <2>1, MoveBacking DEF Over
<1>. QED BY <1>2, <1>3, <1>4, <1>5 DEF Register

LEMMA CancelBacking ==
  ASSUME Sane, Matched, Backing, Unheard', NEW c \in Cancellation,
         ArriveCancel(c) \/ Cancel(c)
  PROVE  Backing'
<1>t. c \in Request /\ SeatOf[c] \in Seat
      /\ tickets \in [Seat -> Registration \cup {None}]
      /\ holder \in [Seat -> Registration \cup {None}]
  BY DataAssumption DEF Request, Sane, TypeOK
<1>1. ASSUME NEW to, pc' = [pc EXCEPT ![c] = to], pc[c] \in Over => to \in Over,
             to # "kept", UNCHANGED <<tickets, outbox>>, blamed \subseteq blamed'
      PROVE  Backing'
  BY <1>t, <1>1, MoveBacking DEF Backing
<1>2. CASE ArriveCancel(c) \/ ReadTicket(c) \/ FinishCancel(c)
  BY <1>1, <1>2
  DEF ArriveCancel, ReadTicket, FinishCancel, Goto, Answer, dbVars, historyVars, Over
<1>3. CASE Unregister(c)
  <2>1. pc[c] = "cancelling" /\ UNCHANGED <<tickets, outbox>> /\ blamed \subseteq blamed'
    BY <1>3 DEF Unregister, Goto, dbVars
  <2>2. CASE pc' = [pc EXCEPT ![c] = "freed"] \/ pc' = [pc EXCEPT ![c] = "unknown"]
    BY <1>1, <2>1, <2>2 DEF Over
  <2>3. CASE /\ holder[SeatOf[c]] # None
             /\ pc' = [pc EXCEPT ![c] = "kept"]
             /\ blamed' = blamed \cup {holder[SeatOf[c]]}
    <3>1. SeatOf[holder[SeatOf[c]]] = SeatOf[c]
      BY <1>t, <2>3 DEF Matched, Named
    <3>2. ~Blameless(SeatOf[c])'
      BY <2>3, <3>1 DEF Blameless
    <3>3. c \notin outbox
      BY <2>1 DEF Backing, Over
    <3>. QED BY <1>t, <2>1, <2>3, <3>2, <3>3, MoveBacking
  <2>. QED BY <1>3, <2>2, <2>3 DEF Unregister, Goto
<1>4. CASE DeleteCancelled(c) \/ DeleteUnknown(c)
  <2>1. PICK to \in {"deleted", "done"} :
          /\ pc' = [pc EXCEPT ![c] = to]
          /\ outbox' \in {outbox, outbox \cup {c}}
          /\ tickets' = [tickets EXCEPT ![SeatOf[c]] = None]
          /\ blamed' = blamed
    BY <1>4 DEF DeleteCancelled, DeleteUnknown, DeleteTicket, Answer, historyVars
  <2>. QED BY <1>t, <2>1, MoveBacking DEF Over
<1>. QED BY <1>2, <1>3, <1>4 DEF Cancel

LEMMA DisturbBacking ==
  ASSUME Sane, Backing, Unheard', NEW q \in Request, Disturb(q)
  PROVE  Backing'
<1>t. /\ SeatOf[q] \in Seat
      /\ tickets \in [Seat -> Registration \cup {None}]
  BY DataAssumption DEF Sane, TypeOK
<1>1. CASE LateEffect(q)
  <2>1. UNCHANGED <<pc, tickets, outbox>> /\ blamed \subseteq blamed'
    BY <1>1 DEF LateEffect, dbVars
  <2>2. \A s : Blameless(s)' => Blameless(s)
    BY <2>1 DEF Blameless
  <2>3. Begun' = Begun
    BY <2>1 DEF Begun
  <2>. QED BY <2>1, <2>2, <2>3 DEF Backing
<1>2. CASE Fails(q) \/ TimesOut(q) \/ LosesAnswer(q)
  <2>1. /\ pc' = [pc EXCEPT ![q] = "done"]
        /\ UNCHANGED <<tickets, outbox>>
        /\ blamed \subseteq blamed'
    BY <1>2 DEF Fails, TimesOut, LosesAnswer, Answer, dbVars, historyVars
  <2>. QED BY <2>1, MoveBacking DEF Over
<1>3. CASE CommitFails(q)
  <2>1. /\ pc' = [pc EXCEPT ![q] = "done"]
        /\ blamed \subseteq blamed'
        /\ outbox' \in {outbox, outbox \cup {q}}
    BY <1>3 DEF CommitFails, Answer, WriteRegistration, dbVars
  <2>2. \A s \in Seat : tickets'[s] \in {None, tickets[s]} \cup outbox'
    BY <1>t, <1>3 DEF CommitFails, WriteRegistration, DeleteTicket, dbVars
  <2>. QED BY <2>1, <2>2, MoveBacking DEF Over
<1>. QED BY <1>1, <1>2, <1>3 DEF Disturb

LEMMA StepBacking ==
  ASSUME Sane, Matched, Backing, [Next]_vars
  PROVE  Backing'
<1>1. Unheard'
  BY StepUnheard DEF Backing
<1>2. CASE Crash
  <2>1. /\ \A q \in Request : pc'[q] = IF pc[q] \in {"new", "done"} THEN pc[q] ELSE "done"
        /\ UNCHANGED <<tickets, outbox>>
        /\ blamed \subseteq blamed'
    BY <1>2 DEF Crash, dbVars
  <2>2. Begun' = Begun
    BY <2>1 DEF Begun
  <2>3. \A q \in outbox : pc'[q] \in Over
    BY <2>1 DEF Sane, TypeOK, Backing, Over
  <2>4. \A c \in Cancellation : pc'[c] # "kept"
    BY <2>1 DEF Request
  <2>. QED BY <1>1, <2>1, <2>2, <2>3, <2>4 DEF Backing
<1>3. CASE ChangeEvent \/ ExpireSeats \/ UNCHANGED vars
  <2>1. UNCHANGED <<tickets, outbox, pc, blamed>>
    BY <1>3 DEF ChangeEvent, ExpireSeats, vars, dbVars, historyVars
  <2>2. Begun' = Begun /\ \A s : Blameless(s)' = Blameless(s)
    BY <2>1 DEF Begun, Blameless
  <2>. QED BY <1>1, <2>1, <2>2 DEF Backing
<1>. QED
  BY <1>1, <1>2, <1>3, RegisterBacking, CancelBacking, DisturbBacking DEF Next

\* The cancellations of s with an audit row, or with a seat freed that is to
\* have one; those that may owe one; and the tickets the provider took back.
Credited(s) == {c \in Cancellation : SeatOf[c] = s /\ (c \in outbox \/ pc[c] = "freed")}
Failed(s) == {c \in Cancellation : SeatOf[c] = s /\ response[c] = "error"}
Lost(s) == {r \in Registration \cap outbox : SeatOf[r] = s /\ holder[s] # r}

Balanced(s) ==
  Blameless(s) =>
    /\ Cardinality(Credited(s)) <= Cardinality(Lost(s))
    /\ Cardinality(Lost(s)) <= Cardinality(Credited(s) \cup Failed(s))

LEMMA AllFinite ==
  ASSUME Sane, Backing, NEW s \in Seat
  PROVE  /\ IsFiniteSet(Credited(s)) /\ Cardinality(Credited(s)) \in Nat
         /\ IsFiniteSet(Lost(s)) /\ Cardinality(Lost(s)) \in Nat
         /\ IsFiniteSet(Credited(s) \cup Failed(s))
         /\ Cardinality(Credited(s) \cup Failed(s)) \in Nat
<1>1. IsFiniteSet(Begun)
  BY DEF Backing
<1>2. /\ Credited(s) \subseteq Begun
      /\ Lost(s) \subseteq Begun
      /\ Credited(s) \cup Failed(s) \subseteq Begun
  BY DEF Credited, Failed, Lost, Begun, Backing, Unheard, Over, Sane, TypeOK, Request
<1>. QED BY <1>1, <1>2, FS_Subset, FS_CardinalityType

\* A step after which s has the same lost tickets, no new credit and as many
\* who may owe one.
LEMMA StillBalanced ==
  ASSUME Sane, Backing, Sane', Backing', NEW s \in Seat, Balanced(s),
         blamed \subseteq blamed',
         Blameless(s)' =>
           /\ \A r \in Registration :
                SeatOf[r] = s => (r \in outbox' /\ holder'[s] # r
                                    <=> r \in outbox /\ holder[s] # r)
           /\ \A c \in Cancellation : SeatOf[c] = s =>
                /\ c \in outbox' \/ pc'[c] = "freed" => c \in outbox \/ pc[c] = "freed"
                /\ c \in outbox \/ pc[c] = "freed" \/ response[c] = "error" =>
                     c \in outbox' \/ pc'[c] = "freed" \/ response'[c] = "error"
  PROVE  Balanced(s)'
<1>. SUFFICES ASSUME Blameless(s)'
     PROVE  /\ Cardinality(Credited(s)') <= Cardinality(Lost(s)')
            /\ Cardinality(Lost(s)') <= Cardinality(Credited(s)' \cup Failed(s)')
  BY DEF Balanced
<1>1. Blameless(s)
  BY DEF Blameless
<1>2. Lost(s)' = Lost(s)
  BY DEF Lost
<1>3. Credited(s)' \subseteq Credited(s)
  BY DEF Credited
<1>4. Credited(s) \cup Failed(s) \subseteq Credited(s)' \cup Failed(s)'
  BY DEF Credited, Failed
<1>5. /\ IsFiniteSet(Credited(s)) /\ Cardinality(Credited(s)) \in Nat
      /\ Cardinality(Lost(s)) \in Nat
      /\ Cardinality(Credited(s) \cup Failed(s)) \in Nat
  BY AllFinite
<1>6. IsFiniteSet(Credited(s)' \cup Failed(s)')
  <2>1. IsFiniteSet(Begun') /\ Credited(s)' \cup Failed(s)' \subseteq Begun'
    BY DEF Backing, Unheard, Over, Begun, Credited, Failed, Sane, TypeOK, Request
  <2>. QED BY <2>1, FS_Subset
<1>7. /\ Cardinality(Credited(s)') <= Cardinality(Credited(s))
      /\ Cardinality(Credited(s)') \in Nat
  BY <1>3, <1>5, FS_Subset, FS_CardinalityType
<1>8. /\ Cardinality(Credited(s) \cup Failed(s)) <= Cardinality(Credited(s)' \cup Failed(s)')
      /\ Cardinality(Credited(s)' \cup Failed(s)') \in Nat
  BY <1>4, <1>6, FS_Subset, FS_CardinalityType
<1>9. /\ Cardinality(Credited(s)) <= Cardinality(Lost(s))
      /\ Cardinality(Lost(s)) <= Cardinality(Credited(s) \cup Failed(s))
  BY <1>1 DEF Balanced
<1>. QED BY <1>2, <1>5, <1>7, <1>8, <1>9

\* One request moves while the provider does nothing.
LEMMA MoveBalanced ==
  ASSUME Sane, Backing, Sane', Backing', NEW q \in Request,
         \A p \in Request \ {q} : pc'[p] = pc[p] /\ response'[p] = response[p],
         outbox' \in {outbox, outbox \cup {q}}, blamed \subseteq blamed', holder' = holder,
         q \in Registration /\ outbox' # outbox => holder[SeatOf[q]] = q \/ q \in blamed',
         q \in Cancellation /\ Blameless(SeatOf[q])' =>
           /\ q \in outbox' \/ pc'[q] = "freed" => q \in outbox \/ pc[q] = "freed"
           /\ q \in outbox \/ pc[q] = "freed" \/ response[q] = "error" =>
                q \in outbox' \/ pc'[q] = "freed" \/ response'[q] = "error",
         NEW s \in Seat, Balanced(s)
  PROVE  Balanced(s)'
<1>. SUFFICES ASSUME Blameless(s)'
     PROVE  /\ \A r \in Registration :
                 SeatOf[r] = s => (r \in outbox' /\ holder'[s] # r
                                     <=> r \in outbox /\ holder[s] # r)
            /\ \A c \in Cancellation : SeatOf[c] = s =>
                 /\ c \in outbox' \/ pc'[c] = "freed" => c \in outbox \/ pc[c] = "freed"
                 /\ c \in outbox \/ pc[c] = "freed" \/ response[c] = "error" =>
                      c \in outbox' \/ pc'[c] = "freed" \/ response'[c] = "error"
  BY StillBalanced
<1>t. Registration \subseteq Request /\ Cancellation \subseteq Request
  BY DEF Request
<1>1. ASSUME NEW r \in Registration, SeatOf[r] = s
      PROVE  r \in outbox' /\ holder'[s] # r <=> r \in outbox /\ holder[s] # r
  BY <1>1 DEF Blameless
<1>2. ASSUME NEW c \in Cancellation, SeatOf[c] = s
      PROVE  /\ c \in outbox' \/ pc'[c] = "freed" => c \in outbox \/ pc[c] = "freed"
             /\ c \in outbox \/ pc[c] = "freed" \/ response[c] = "error" =>
                  c \in outbox' \/ pc'[c] = "freed" \/ response'[c] = "error"
  BY <1>t, <1>2
<1>. QED BY <1>1, <1>2

\* An unregistration takes back the ticket of whoever has seat and row, and
\* earns a credit: both counts go up by one.
LEMMA UnregisterBalanced ==
  ASSUME Sane, Matched, Backing, Sane', Backing', NEW c \in Cancellation, Unregister(c),
         NEW s \in Seat, Balanced(s)
  PROVE  Balanced(s)'
<1>t. /\ c \in Request /\ SeatOf[c] \in Seat
      /\ holder \in [Seat -> Registration \cup {None}]
      /\ pc \in [Request -> {"new", "done"} \cup RegisterPC \cup UnregisterPC]
      /\ Registration \subseteq Request /\ Cancellation \subseteq Request
      /\ None \notin Request
  BY RequestAssumption, DataAssumption DEF Request, Sane, TypeOK
<1>1. /\ UNCHANGED <<outbox, response, tickets>>
      /\ blamed \subseteq blamed'
      /\ pc[c] = "cancelling" /\ \A p \in Request \ {c} : pc'[p] = pc[p]
  BY <1>t DEF Unregister, Goto, dbVars
<1>2. c \notin outbox /\ response[c] = "none"
  BY <1>t, <1>1 DEF Backing, Over, Unheard
<1>3. CASE holder' = holder /\ pc'[c] # "freed"
  BY <1>t, <1>1, <1>2, <1>3, MoveBalanced
<1>4. CASE /\ holder[SeatOf[c]] # None
           /\ pc' = [pc EXCEPT ![c] = "freed"]
           /\ holder' = [holder EXCEPT ![SeatOf[c]] = None]
           /\ blamed' = IF tickets[SeatOf[c]] = holder[SeatOf[c]]
                          THEN blamed ELSE blamed \cup {holder[SeatOf[c]]}
  <2>1. CASE s # SeatOf[c]
    <3>1. holder'[s] = holder[s] /\ \A d \in Cancellation : SeatOf[d] = s => pc'[d] = pc[d]
      BY <1>t, <1>1, <1>4, <2>1
    <3>. QED BY <1>1, <3>1, StillBalanced
  <2>2. CASE s = SeatOf[c] /\ tickets[s] # holder[s]
    <3>1. SeatOf[holder[s]] = s /\ holder[s] \in blamed'
      BY <1>t, <1>4, <2>2 DEF Matched, Named
    <3>. QED BY <3>1 DEF Balanced, Blameless
  <2>3. CASE s = SeatOf[c] /\ tickets[s] = holder[s]
    <3>. DEFINE r == holder[s]
    <3>1. r \in Registration \cap outbox /\ SeatOf[r] = s /\ r # None
      BY <1>t, <1>4, <2>3 DEF Matched, Named, Backing
    <3>2. blamed' = blamed /\ holder'[s] = None
      BY <1>t, <1>4, <2>3
    <3>3. Lost(s)' = Lost(s) \cup {r} /\ r \notin Lost(s)
      BY <1>t, <1>1, <3>1, <3>2 DEF Lost
    <3>4. \A d \in Cancellation : pc'[d] = IF d = c THEN "freed" ELSE pc[d]
      BY <1>t, <1>4
    <3>5. Credited(s)' = Credited(s) \cup {c} /\ Failed(s)' = Failed(s)
      BY <1>1, <2>3, <3>4 DEF Credited, Failed
    <3>6. c \notin Credited(s) \cup Failed(s)
      BY <1>1, <1>2 DEF Credited, Failed
    <3>7. Credited(s)' \cup Failed(s)' = (Credited(s) \cup Failed(s)) \cup {c}
      BY <3>5
    <3>8. /\ Cardinality(Lost(s)') = Cardinality(Lost(s)) + 1
          /\ Cardinality(Credited(s)') = Cardinality(Credited(s)) + 1
          /\ Cardinality(Credited(s)' \cup Failed(s)') = Cardinality(Credited(s) \cup Failed(s)) + 1
      BY <3>3, <3>5, <3>6, <3>7, AllFinite, FS_AddElement
    <3>9. Blameless(s)' => Blameless(s)
      BY <3>2 DEF Blameless
    <3>10. /\ Cardinality(Credited(s)) \in Nat /\ Cardinality(Lost(s)) \in Nat
           /\ Cardinality(Credited(s) \cup Failed(s)) \in Nat
      BY AllFinite
    <3>. QED BY <3>8, <3>9, <3>10 DEF Balanced
  <2>. QED BY <2>1, <2>2, <2>3
<1>5. \/ holder' = holder /\ pc'[c] # "freed"
      \/ /\ holder[SeatOf[c]] # None
         /\ pc' = [pc EXCEPT ![c] = "freed"]
         /\ holder' = [holder EXCEPT ![SeatOf[c]] = None]
         /\ blamed' = IF tickets[SeatOf[c]] = holder[SeatOf[c]]
                        THEN blamed ELSE blamed \cup {holder[SeatOf[c]]}
  BY <1>t DEF Unregister, Goto
<1>. QED BY <1>3, <1>4, <1>5

LEMMA RegisterBalanced ==
  ASSUME Sane, Matched, Backing, Sane', Backing', NEW r \in Registration,
         Arrive(r) \/ Register(r), NEW s \in Seat, Balanced(s)
  PROVE  Balanced(s)'
<1>t. /\ r \in Request /\ r \notin Cancellation /\ SeatOf[r] \in Seat
      /\ pc \in [Request -> {"new", "done"} \cup RegisterPC \cup UnregisterPC]
      /\ response \in [Request -> Response]
      /\ holder \in [Seat -> Registration \cup {None}]
      /\ None \notin Request
      /\ Registration \subseteq Request /\ Cancellation \subseteq Request
  BY RequestAssumption, DataAssumption DEF Request, Sane, TypeOK
<1>1. CASE Buy(r)
  <2>1. /\ holder[SeatOf[r]] = None
        /\ holder' = [holder EXCEPT ![SeatOf[r]] = r]
        /\ pc[r] = "buying"
        /\ \A p \in Request \ {r} : pc'[p] = pc[p]
        /\ UNCHANGED <<outbox, response>>
        /\ blamed \subseteq blamed'
    BY <1>t, <1>1 DEF Buy, Goto, dbVars
  <2>2. r \notin outbox
    BY <2>1 DEF Backing, Over
  <2>3. ASSUME NEW q \in Registration, SeatOf[q] = s, q \in outbox
        PROVE  holder'[s] # q <=> holder[s] # q
    BY <1>t, <2>1, <2>2, <2>3
  <2>. QED BY <1>t, <2>1, <2>3, StillBalanced
<1>2. CASE Commit(r)
  <2>1. /\ outbox' = outbox \cup {r} /\ holder' = holder /\ blamed' = blamed
        /\ \A p \in Request \ {r} : pc'[p] = pc[p] /\ response'[p] = response[p]
        /\ pc[r] = "sold"
    BY <1>t, <1>2 DEF Commit, Goto, WriteRegistration, providerVars, historyVars
  <2>2. holder[SeatOf[r]] = r \/ r \in blamed'
    BY <2>1 DEF Matched, SoldHeld
  <2>. QED BY <1>t, <2>1, <2>2, MoveBalanced
<1>3. ASSUME \A p \in Request \ {r} : pc'[p] = pc[p] /\ response'[p] = response[p],
             UNCHANGED <<outbox, holder>>, blamed \subseteq blamed'
      PROVE  Balanced(s)'
  BY <1>t, <1>3, MoveBalanced
<1>4. CASE Arrive(r) \/ Lock(r) \/ ListSeats(r)
  BY <1>t, <1>3, <1>4 DEF Arrive, Lock, ListSeats, Goto, dbVars, providerVars, historyVars
<1>5. CASE Lookup(r) \/ CheckEvent(r) \/ CacheSeats(r)
  BY <1>t, <1>3, <1>5
  DEF Lookup, CheckEvent, CacheSeats, Decide, Answer, Goto, dbVars, providerVars,
      historyVars
<1>6. CASE Refuse(r) \/ CommitClashes(r) \/ Finish(r)
  BY <1>t, <1>3, <1>6
  DEF Refuse, CommitClashes, Finish, Answer, dbVars, providerVars, historyVars
<1>. QED BY <1>1, <1>2, <1>4, <1>5, <1>6 DEF Register

LEMMA CancelBalanced ==
  ASSUME Sane, Matched, Backing, Sane', Backing', NEW c \in Cancellation,
         ArriveCancel(c) \/ Cancel(c), NEW s \in Seat, Balanced(s)
  PROVE  Balanced(s)'
<1>t. /\ c \in Request /\ c \notin Registration
      /\ pc \in [Request -> {"new", "done"} \cup RegisterPC \cup UnregisterPC]
      /\ response \in [Request -> Response]
  BY RequestAssumption DEF Request, Sane, TypeOK
<1>u. response[c] # "none" => pc[c] = "done"
  BY <1>t DEF Backing, Unheard
<1>1. CASE ArriveCancel(c) \/ ReadTicket(c) \/ FinishCancel(c)
  <2>1. /\ \A p \in Request \ {c} : pc'[p] = pc[p] /\ response'[p] = response[p]
        /\ UNCHANGED <<outbox, holder, blamed>>
        /\ pc[c] \in {"new", "reading", "deleted"}
        /\ pc'[c] # "freed"
    BY <1>t, <1>1
    DEF ArriveCancel, ReadTicket, FinishCancel, Goto, Answer, dbVars, providerVars,
        historyVars
  <2>2. pc[c] # "freed" /\ response[c] = "none"
    BY <1>u, <2>1
  <2>. QED BY <1>t, <2>1, <2>2, MoveBalanced
<1>2. CASE Unregister(c)
  BY <1>2, UnregisterBalanced
<1>3. CASE DeleteCancelled(c)
  <2>1. /\ \A p \in Request \ {c} : pc'[p] = pc[p] /\ response'[p] = response[p]
        /\ outbox' = outbox \cup {c}
        /\ UNCHANGED <<holder, blamed>>
        /\ pc[c] \in {"freed", "kept"}
    BY <1>t, <1>3 DEF DeleteCancelled, providerVars, historyVars
  <2>2. Blameless(SeatOf[c])' => pc[c] = "freed"
    <3>1. Blameless(SeatOf[c])' => Blameless(SeatOf[c])
      BY <2>1 DEF Blameless
    <3>. QED BY <2>1, <3>1 DEF Backing
  <2>. QED BY <1>t, <2>1, <2>2, MoveBalanced
<1>4. CASE DeleteUnknown(c)
  <2>1. /\ \A p \in Request \ {c} : pc'[p] = pc[p] /\ response'[p] = response[p]
        /\ UNCHANGED <<outbox, holder, blamed>>
        /\ pc[c] = "unknown" /\ pc'[c] # "freed"
    BY <1>t, <1>4 DEF DeleteUnknown, Answer, providerVars, historyVars
  <2>2. response[c] = "none"
    BY <1>u, <2>1
  <2>. QED BY <1>t, <2>1, <2>2, MoveBalanced
<1>. QED BY <1>1, <1>2, <1>3, <1>4 DEF Cancel

LEMMA DisturbBalanced ==
  ASSUME Sane, Matched, Backing, Sane', Backing', NEW q \in Request, Disturb(q),
         NEW s \in Seat, Balanced(s)
  PROVE  Balanced(s)'
<1>t. /\ pc \in [Request -> {"new", "done"} \cup RegisterPC \cup UnregisterPC]
      /\ response \in [Request -> Response]
      /\ holder \in [Seat -> Registration \cup {None}]
      /\ SeatOf[q] \in Seat
      /\ None \notin Request
      /\ Cancellation \subseteq Request
      /\ q \in Registration => q \in Exposed(q)
  BY RequestAssumption, DataAssumption DEF Request, Exposed, Sane, TypeOK
<1>e. Answer(q, "error") =>
        /\ \A p \in Request \ {q} : pc'[p] = pc[p] /\ response'[p] = response[p]
        /\ pc'[q] = "done" /\ response'[q] = "error"
  BY <1>t DEF Answer
<1>1. CASE Fails(q) \/ TimesOut(q) \/ LosesAnswer(q)
  <2>1. /\ Answer(q, "error")
        /\ UNCHANGED <<outbox, holder>>
        /\ blamed \subseteq blamed'
    BY <1>1 DEF Fails, TimesOut, LosesAnswer, dbVars, providerVars, historyVars
  <2>. QED BY <1>e, <2>1, MoveBalanced
<1>2. CASE CommitFails(q)
  <2>1. /\ Answer(q, "error")
        /\ holder' = holder
        /\ blamed' = blamed \cup Exposed(q)
        /\ outbox' \in {outbox, outbox \cup {q}}
        /\ pc[q] \in {"sold", "freed", "kept", "unknown"}
        /\ q \in Cancellation /\ pc[q] = "unknown" => outbox' = outbox
    BY <1>2, RequestAssumption DEF CommitFails, WriteRegistration, dbVars, providerVars
  <2>2. q \in Registration => q \in blamed'
    BY <1>t, <2>1
  <2>3. q \in Cancellation /\ Blameless(SeatOf[q])' /\ outbox' # outbox => pc[q] = "freed"
    <3>1. Blameless(SeatOf[q])' => Blameless(SeatOf[q])
      BY <2>1 DEF Blameless
    <3>2. q \in Cancellation => pc[q] # "sold"
      BY DEF Sane, Places, UnregisterPC
    <3>. QED BY <2>1, <3>1, <3>2 DEF Backing
  <2>. QED BY <1>e, <2>1, <2>2, <2>3, MoveBalanced
<1>3. CASE LateEffect(q)
  <2>1. /\ UNCHANGED <<outbox, pc, response>>
        /\ blamed' = blamed \cup Exposed(q)
        /\ \A z \in Seat \ {SeatOf[q]} : holder'[z] = holder[z]
        /\ holder'[SeatOf[q]] \in {holder[SeatOf[q]], None} \/ q \in Registration
    <3>1. /\ UNCHANGED <<outbox, pc, response>>
          /\ blamed' = blamed \cup Exposed(q)
      BY <1>3 DEF LateEffect, dbVars
    <3>2. holder' = [holder EXCEPT ![SeatOf[q]] =
                       IF q \in Cancellation THEN None ELSE IF @ = None THEN q ELSE @]
      BY <1>3 DEF LateEffect
    <3>3. \A z \in Seat \ {SeatOf[q]} : holder'[z] = holder[z]
      BY <1>t, <3>2
    <3>4. q \in Cancellation \/ q \in Registration
      BY DEF Request
    <3>5. holder'[SeatOf[q]] = IF q \in Cancellation THEN None
                              ELSE IF holder[SeatOf[q]] = None THEN q ELSE holder[SeatOf[q]]
      BY <1>t, <3>2
    <3>6. holder'[SeatOf[q]] \in {holder[SeatOf[q]], None} \/ q \in Registration
      BY <3>4, <3>5
    <3>. QED BY <3>1, <3>3, <3>6
  <2>2. CASE s # SeatOf[q]
    BY <2>1, <2>2, StillBalanced
  <2>3. CASE s = SeatOf[q] /\ q \in Registration
    BY <1>t, <2>1, <2>3 DEF Balanced, Blameless
  <2>4. CASE s = SeatOf[q] /\ holder[s] # None
    <3>1. holder[s] \in Exposed(q) /\ SeatOf[holder[s]] = s
      BY <1>t, <2>4 DEF Exposed, Matched, Named
    <3>. QED BY <2>1, <3>1 DEF Balanced, Blameless
  <2>5. CASE s = SeatOf[q] /\ holder[s] = None /\ q \notin Registration
    BY <2>1, <2>5, StillBalanced
  <2>. QED BY <2>2, <2>3, <2>4, <2>5
<1>. QED BY <1>1, <1>2, <1>3 DEF Disturb

LEMMA StepBalanced ==
  ASSUME Sane, Keyed, Matched, Backing, [Next]_vars, NEW s \in Seat, Balanced(s)
  PROVE  Balanced(s)'
<1>i. Sane' /\ Backing'
  BY StepSane, StepBacking
<1>1. CASE Crash
  <2>1. /\ UNCHANGED <<outbox, holder>> /\ blamed \subseteq blamed'
        /\ \A c \in Cancellation :
             /\ pc'[c] = "freed" => pc[c] = "freed"
             /\ pc[c] = "freed" => response'[c] = "error"
             /\ response[c] = "error" => response'[c] = "error"
    BY <1>1 DEF Crash, dbVars, providerVars, Request
  <2>. QED BY <1>i, <2>1, StillBalanced
<1>2. CASE ChangeEvent \/ ExpireSeats \/ UNCHANGED vars
  <2>1. UNCHANGED <<outbox, holder, blamed, pc, response>>
    BY <1>2 DEF ChangeEvent, ExpireSeats, vars, dbVars, providerVars, historyVars
  <2>. QED BY <1>i, <2>1, StillBalanced
<1>. QED
  BY <1>i, <1>1, <1>2, RegisterBalanced, CancelBalanced, DisturbBalanced DEF Next

\* Between the provider's books and the tables: the tickets gone from the table
\* are the lost ones, but for one whose cancellation is about to delete it.
LEMMA BalancedCounts ==
  ASSUME Sane, Matched, Backing, \A s \in Seat : Balanced(s)
  PROVE  CancelledCounted
<1>. SUFFICES ASSUME NEW s \in Seat, Blameless(s)
     PROVE  LET gone == {r \in Registration \cap outbox : SeatOf[r] = s /\ tickets[s] # r}
                rows == {c \in Cancellation \cap outbox : SeatOf[c] = s}
                due == {c \in Cancellation :
                          SeatOf[c] = s /\ (pc[c] = "freed" \/ response[c] = "error")}
            IN /\ Cardinality(rows) <= Cardinality(gone)
               /\ Cardinality(gone) <= Cardinality(rows \cup due)
  BY DEF CancelledCounted, Blameless
<1>. DEFINE gone == {r \in Registration \cap outbox : SeatOf[r] = s /\ tickets[s] # r}
            rows == {c \in Cancellation \cap outbox : SeatOf[c] = s}
            due == {c \in Cancellation :
                      SeatOf[c] = s /\ (pc[c] = "freed" \/ response[c] = "error")}
<1>t. /\ Registration \subseteq Request /\ Cancellation \subseteq Request
      /\ tickets \in [Seat -> Registration \cup {None}]
      /\ holder \in [Seat -> Registration \cup {None}]
      /\ None \notin Request
  BY RequestAssumption DEF Request, Sane, TypeOK
<1>1. /\ Cardinality(Credited(s)) <= Cardinality(Lost(s))
      /\ Cardinality(Lost(s)) <= Cardinality(Credited(s) \cup Failed(s))
  BY DEF Balanced
<1>2. rows \cup due = Credited(s) \cup Failed(s)
  BY DEF Credited, Failed
<1>3. gone \subseteq Lost(s)
  <2>. SUFFICES ASSUME NEW r \in gone, holder[s] = r PROVE FALSE
    BY DEF Lost
  <2>1. pc[r] # "sold" /\ r \notin blamed /\ holder[s] # None
    BY <1>t DEF Backing, Over, Blameless
  <2>. QED BY <2>1 DEF Matched, Holding
<1>4. Lost(s) \subseteq gone \cup {tickets[s]}
  BY DEF Lost
<1>5. ASSUME NEW r \in Lost(s), r \notin gone
      PROVE  \E c \in Credited(s) : c \notin rows
  <2>1. tickets[s] = r /\ holder[s] # r /\ r \in Registration /\ SeatOf[r] = s /\ r # None
    BY <1>t, <1>5 DEF Lost
  <2>2. PICK c \in Cancellation : SeatOf[c] = s /\ pc[c] = "freed"
    BY <2>1 DEF Matched, Row, Blameless
  <2>3. c \notin outbox
    BY <2>2 DEF Backing, Over
  <2>. QED BY <2>2, <2>3 DEF Credited
<1>6. /\ IsFiniteSet(Credited(s)) /\ Cardinality(Credited(s)) \in Nat
      /\ IsFiniteSet(Lost(s)) /\ Cardinality(Lost(s)) \in Nat
      /\ Cardinality(Credited(s) \cup Failed(s)) \in Nat
  BY AllFinite
<1>7. rows \subseteq Credited(s)
  BY DEF Credited
<1>8. /\ IsFiniteSet(gone) /\ Cardinality(gone) \in Nat
      /\ Cardinality(gone) <= Cardinality(Lost(s))
      /\ IsFiniteSet(rows) /\ Cardinality(rows) \in Nat
      /\ Cardinality(rows) <= Cardinality(Credited(s))
  BY <1>3, <1>6, <1>7, FS_Subset, FS_CardinalityType
<1>. HIDE DEF gone, rows, due
<1>9. Cardinality(rows) <= Cardinality(gone)
  <2>1. CASE Lost(s) = gone
    BY <1>1, <1>6, <1>8, <2>1
  <2>2. CASE Lost(s) # gone
    <3>1. Lost(s) = gone \cup {tickets[s]}
      BY <1>3, <1>4, <2>2
    <3>2. Cardinality(Lost(s)) <= Cardinality(gone) + 1
      <4>1. Cardinality(gone \cup {tickets[s]}) =
              IF tickets[s] \in gone THEN Cardinality(gone) ELSE Cardinality(gone) + 1
        BY <1>8, FS_AddElement
      <4>2. Cardinality(Lost(s)) = Cardinality(gone) \/ Cardinality(Lost(s)) = Cardinality(gone) + 1
        BY <3>1, <4>1
      <4>. QED BY <1>8, <4>2
    <3>3. PICK c \in Credited(s) : c \notin rows
      BY <1>3, <1>5, <2>2
    <3>4. IsFiniteSet(rows \cup {c}) /\ Cardinality(rows \cup {c}) = Cardinality(rows) + 1
      BY <1>8, <3>3, FS_AddElement
    <3>5. rows \cup {c} \subseteq Credited(s)
      BY <1>7, <3>3
    <3>6. Cardinality(rows) + 1 <= Cardinality(Credited(s))
      BY <1>6, <3>4, <3>5, FS_Subset
    <3>. QED BY <1>1, <1>6, <1>8, <3>2, <3>6
  <2>. QED BY <2>1, <2>2
<1>10. Cardinality(gone) <= Cardinality(rows \cup due)
  BY <1>1, <1>2, <1>6, <1>8
<1>. QED BY <1>9, <1>10 DEF gone, rows, due

\* The number of cancelled tickets counted from the audit rows is right for
\* every seat no fault has touched, but for cancellations that have freed the
\* seat and not committed their row yet, or failed to: for any requests.
THEOREM CancellationsCounted == Spec => []CancelledCounted
<1>1. Init => Sane /\ Keyed /\ Matched /\ Backing /\ \A s \in Seat : Balanced(s)
  <2>1. ASSUME Init, NEW s \in Seat PROVE Balanced(s)
    <3>1. Credited(s) = {} /\ Failed(s) = {} /\ Lost(s) = {}
      BY <2>1 DEF Init, Credited, Failed, Lost, Request
    <3>2. Credited(s) \cup Failed(s) = {}
      BY <3>1
    <3>. QED BY <3>1, <3>2, FS_EmptySet DEF Balanced
  <2>. QED BY <2>1, InitSane, InitKeyed, InitMatched, InitBacking
<1>2. Sane /\ Keyed /\ Matched /\ Backing /\ (\A s \in Seat : Balanced(s)) /\ [Next]_vars
        => (Sane /\ Keyed /\ Matched /\ Backing /\ \A s \in Seat : Balanced(s))'
  BY StepSane, StepKeyed, StepMatched, StepBacking, StepBalanced
<1>3. Sane /\ Matched /\ Backing /\ (\A s \in Seat : Balanced(s)) => CancelledCounted
  BY BalancedCounts
<1>. QED BY <1>1, <1>2, <1>3, PTL DEF Spec

=============================================================================
