-------------------------- MODULE KeyPromiseProofs --------------------------
(***************************************************************************)
(* Registration keeps the promise of the idempotency keys (KeyPromise) for *)
(* any requests, keys, hash collisions and faults.  On top of the layers   *)
(* of TicketsProofs: a request under way waits for its answer, the lock    *)
(* leaves one buyer per key, and Honoured says what a record answers.      *)
(***************************************************************************)
EXTENDS TicketsProofs

\* A request that is under way is, in KeyPromise, one that waits for its answer.
LEMMA StillWaiting ==
  ASSUME Sane, Unheard, NEW r \in WithKey, pc[r] # "done"
  PROVE  r \in Promise!Waiting
  BY DEF Promise!Waiting, Unheard, Told, Outcome, WithKey, Request

LEMMA PromiseTypes ==
  ASSUME Sane, Keyed
  PROVE  /\ \A r \in WithKey : r \in Request /\ r \in Registration /\ KeyOf[r] \in Key
         /\ \A k \in Key : idem[k] # None => idem[k] \in WithKey /\ KeyOf[idem[k]] = k
         /\ None \notin Registration
  BY KeyAssumption, RequestAssumption
  DEF Sane, TypeOK, Keyed, Recorded, WithKey, Request

\* Nothing that KeyPromise sees changes.
LEMMA Hidden ==
  ASSUME idem' = idem,
         \A r \in WithKey : /\ response'[r] = response[r]
                            /\ pc'[r] = "sold" <=> pc[r] = "sold"
  PROVE  UNCHANGED Promise!keyVars
<1>1. Bought' = Bought
  BY DEF Bought, WithKey
<1>2. Told' = Told
  BY DEF Told, WithKey
<1>. QED BY <1>1, <1>2 DEF Promise!keyVars

\* One registration with a key moves on, without buying.
LEMMA Onward ==
  ASSUME Sane, NEW q \in Request, NEW to, pc' = [pc EXCEPT ![q] = to],
         response' = response, idem' = idem, pc[q] # "sold", to # "sold"
  PROVE  UNCHANGED Promise!keyVars
<1>1. \A r \in WithKey : pc'[r] = "sold" <=> pc[r] = "sold"
  BY DEF Sane, TypeOK, WithKey, Request
<1>. QED BY <1>1, Hidden

\* How an answer looks to KeyPromise.
LEMMA Answered ==
  ASSUME Sane, NEW r \in WithKey, NEW what, Answer(r, what)
  PROVE  /\ Told' = [Told EXCEPT ![r] = Outcome(what)]
         /\ Bought' = Bought \ {r}
<1>1. /\ \A q \in WithKey : q \in Request
      /\ response' = [response EXCEPT ![r] = what]
      /\ pc' = [pc EXCEPT ![r] = "done"]
      /\ response \in [Request -> Response]
      /\ pc \in [Request -> {"new", "done"} \cup RegisterPC \cup UnregisterPC]
  BY DEF Answer, Sane, TypeOK, WithKey, Request
<1>2. \A q \in WithKey : /\ response'[q] = IF q = r THEN what ELSE response[q]
                         /\ pc'[q] = IF q = r THEN "done" ELSE pc[q]
  BY <1>1
<1>3. Told' = [Told EXCEPT ![r] = Outcome(what)]
  BY <1>2 DEF Told, WithKey
<1>4. Bought' = Bought \ {r}
  BY <1>2 DEF Bought, WithKey
<1>. QED BY <1>3, <1>4

LEMMA AnswersError ==
  ASSUME Sane, Unheard, NEW r \in WithKey, pc[r] # "done", Answer(r, "error"), idem' = idem
  PROVE  Promise!Fail({r})
<1>1. {r} \subseteq Promise!Waiting
  BY StillWaiting
<1>2. Told' = [q \in WithKey |-> IF q \in {r} THEN "error" ELSE Told[q]]
  <2>1. Told' = [Told EXCEPT ![r] = "error"]
    BY Answered DEF Outcome
  <2>2. Told = [q \in WithKey |-> Told[q]]
    BY DEF Told
  <2>. QED BY <2>1, <2>2
<1>3. Bought' = Bought \ {r}
  BY Answered
<1>. QED BY <1>1, <1>2, <1>3 DEF Promise!Fail

\* A 201, a 409 or a refusal is what the record, or its absence, calls for.
LEMMA Answers ==
  ASSUME Sane, Keyed, Unheard, NEW r \in WithKey, pc[r] \notin {"sold", "done"},
         NEW what, Answer(r, what), idem' = idem,
         \/ idem[KeyOf[r]] = None /\ what \in {"closed", "full", "taken"}
         \/ idem[KeyOf[r]] # None /\ what = Replay(r, idem[KeyOf[r]])
  PROVE  Promise!Reply(r)
<1>1. r \in Promise!Waiting /\ r \notin Bought
  BY StillWaiting DEF Bought
<1>2. Bought' = Bought /\ Told' = [Told EXCEPT ![r] = Outcome(what)]
  BY <1>1, Answered
<1>3. Outcome(what) = IF idem[KeyOf[r]] = None THEN "refused"
                      ELSE IF Asked[r] = Asked[idem[KeyOf[r]]] THEN "created"
                      ELSE "conflict"
  <2>1. CASE idem[KeyOf[r]] = None
    BY <2>1 DEF Outcome
  <2>2. CASE idem[KeyOf[r]] # None
    <3>1. idem[KeyOf[r]] \in WithKey
      BY <2>2, PromiseTypes
    <3>2. SameData(r, idem[KeyOf[r]]) <=> Asked[r] = Asked[idem[KeyOf[r]]]
      BY <3>1 DEF SameData, Asked
    <3>3. Outcome(what) = what /\ what = Replay(r, idem[KeyOf[r]])
      BY <2>2 DEF Outcome, Replay
    <3>. QED BY <2>2, <3>2, <3>3 DEF Replay
  <2>. QED BY <2>1, <2>2
<1>. QED BY <1>1, <1>2, <1>3 DEF Promise!Reply

\* The commit of a registration, whatever its client hears of it.
LEMMA Records ==
  ASSUME Sane, Keyed, NEW r \in WithKey, pc[r] = "sold", WriteRegistration(r),
         \A q \in WithKey \ {r} : pc'[q] = pc[q] /\ response'[q] = response[q],
         pc'[r] # "sold", response'[r] \in {response[r], "error"}
  PROVE  Promise!Record(r)
<1>1. r \in Registration /\ KeyOf[r] # None /\ idem[KeyOf[r]] = None
  BY DEF WithKey, Keyed, Unrecorded, Looked
<1>2. r \in Bought /\ Bought' = Bought \ {r}
  BY DEF Bought, WithKey
<1>3. idem' = [idem EXCEPT ![KeyOf[r]] = r]
  BY <1>1 DEF WriteRegistration
<1>4. Told' \in {Told, [Told EXCEPT ![r] = "error"]}
  <2>1. CASE response'[r] = response[r]
    BY <2>1 DEF Told, WithKey
  <2>2. CASE response'[r] = "error"
    <3>1. \A q \in WithKey : Outcome(response'[q]) = IF q = r THEN "error"
                                                     ELSE Outcome(response[q])
      BY <2>2 DEF Outcome
    <3>2. Told' = [Told EXCEPT ![r] = "error"]
      BY <3>1 DEF Told, WithKey
    <3>. QED BY <3>2
  <2>. QED BY <2>1, <2>2
<1>. QED BY <1>1, <1>2, <1>3, <1>4 DEF Promise!Record

\* The advisory lock: whoever is about to buy is the only one under its key.
LEMMA Buys ==
  ASSUME Sane, Keyed, Unheard, NEW r \in WithKey, Buy(r)
  PROVE  Promise!Buy(r)
<1>1. /\ pc[r] = "buying" /\ pc' = [pc EXCEPT ![r] = "sold"]
      /\ UNCHANGED <<idem, response>>
  BY DEF Buy, Goto, dbVars
<1>2. r \in Registration /\ KeyOf[r] # None /\ r \in Promise!Waiting
  BY <1>1, StillWaiting DEF WithKey
<1>3. idem[KeyOf[r]] = None
  BY <1>1, <1>2 DEF Keyed, Unrecorded, Looked
<1>4. ASSUME NEW q \in Bought PROVE KeyOf[q] # KeyOf[r]
  <2>1. q \in Registration /\ KeyOf[q] # None /\ pc[q] = "sold" /\ q # r
    BY <1>1 DEF Bought, WithKey
  <2>2. lock[LockOf[KeyOf[q]]] = q /\ lock[LockOf[KeyOf[r]]] = r
    BY <1>1, <1>2, <2>1 DEF Keyed, Serial, Looked
  <2>. QED BY <2>1, <2>2
<1>5. Bought' = Bought \cup {r}
  <2>1. \A q \in WithKey : pc'[q] = IF q = r THEN "sold" ELSE pc[q]
    BY <1>1 DEF Sane, TypeOK, WithKey, Request
  <2>. QED BY <2>1 DEF Bought, WithKey
<1>6. Told' = Told
  BY <1>1 DEF Told, WithKey
<1>. QED BY <1>1, <1>2, <1>3, <1>4, <1>5, <1>6 DEF Promise!Buy

LEMMA RegisterRefines ==
  ASSUME Sane, Keyed, Honoured, Unheard, NEW r \in Registration, Arrive(r) \/ Register(r)
  PROVE  \/ r \in WithKey /\ (Promise!Buy(r) \/ Promise!Record(r) \/ Promise!Reply(r)
                              \/ Promise!Fail({r}))
         \/ UNCHANGED Promise!keyVars
<1>t. r \in Request
  BY DEF Request
<1>1. CASE r \notin WithKey
  <2>1. /\ idem' = idem
        /\ \A q \in Request \ {r} : pc'[q] = pc[q] /\ response'[q] = response[q]
    <3>1. KeyOf[r] = None
      BY <1>1 DEF WithKey
    <3>2. CASE Arrive(r) \/ Lock(r) \/ ListSeats(r) \/ Buy(r) \/ Commit(r)
      BY <1>t, <3>1, <3>2
      DEF Arrive, Lock, ListSeats, Buy, Commit, WriteRegistration, Goto, dbVars, Sane, TypeOK
    <3>3. CASE Lookup(r) \/ CheckEvent(r) \/ CacheSeats(r)
      BY <1>t, <3>3 DEF Lookup, CheckEvent, CacheSeats, Decide, Answer, Goto, dbVars,
                          Sane, TypeOK
    <3>4. CASE Refuse(r) \/ CommitClashes(r) \/ Finish(r)
      BY <1>t, <3>4 DEF Refuse, CommitClashes, Finish, Answer, dbVars, Sane, TypeOK
    <3>. QED BY <3>2, <3>3, <3>4 DEF Register
  <2>2. \A q \in WithKey : q \in Request \ {r}
    BY <1>1 DEF WithKey, Request
  <2>. QED BY <2>1, <2>2, Hidden
<1>2. CASE r \in WithKey
  <2>k. KeyOf[r] # None /\ (pc[r] \in Looked => idem[KeyOf[r]] = None)
    BY <1>2 DEF WithKey, Keyed, Unrecorded
  <2>1. CASE Arrive(r) \/ Lock(r) \/ ListSeats(r)
    BY <1>t, <2>1, Onward DEF Arrive, Lock, ListSeats, Goto, dbVars
  <2>2. CASE Lookup(r)
    <3>1. pc[r] = "lookup" /\ idem' = idem
      BY <2>2 DEF Lookup, dbVars
    <3>2. CASE idem[KeyOf[r]] # None /\ Answer(r, Replay(r, idem[KeyOf[r]]))
      BY <1>2, <3>1, <3>2, Answers
    <3>3. CASE pc' = [pc EXCEPT ![r] = "checking"] /\ response' = response
      BY <1>t, <3>1, <3>3, Onward
    <3>. QED BY <1>2, <2>2, <3>2, <3>3 DEF Lookup
  <2>3. ASSUME NEW what \in {"closed", "full", "taken"}, Answer(r, what), idem' = idem,
               pc[r] \in Looked \ {"sold"}
        PROVE  Promise!Reply(r)
    BY <1>2, <2>3, <2>k, Answers DEF Looked
  <2>4. ASSUME NEW seats, Decide(r, seats), idem' = idem, pc[r] \in Looked \ {"sold"}
        PROVE  Promise!Reply(r) \/ UNCHANGED Promise!keyVars
    BY <1>t, <2>3, <2>4, Onward DEF Decide
  <2>5. CASE CheckEvent(r)
    <3>1. pc[r] = "checking" /\ idem' = idem
      BY <2>5 DEF CheckEvent, dbVars
    <3>2. CASE Goto(r, "checking", "asking") /\ response' = response
      BY <1>t, <3>1, <3>2, Onward DEF Goto
    <3>. QED BY <1>2, <2>3, <2>4, <2>5, <3>1, <3>2 DEF CheckEvent, Looked
  <2>6. CASE CacheSeats(r)
    BY <1>2, <2>4, <2>6 DEF CacheSeats, dbVars, Looked
  <2>7. CASE Buy(r)
    BY <1>2, <2>7, Buys
  <2>8. CASE Refuse(r)
    BY <1>2, <2>3, <2>8 DEF Refuse, dbVars, Looked
  <2>9. CASE Commit(r)
    <3>1. \A q \in WithKey \ {r} : pc'[q] = pc[q] /\ response'[q] = response[q]
      BY <2>9 DEF Commit, Goto
    <3>2. pc[r] = "sold" /\ pc'[r] # "sold" /\ response'[r] = response[r]
      BY <1>t, <2>9 DEF Commit, Goto, Sane, TypeOK
    <3>. QED BY <1>2, <2>9, <3>1, <3>2, Records DEF Commit
  <2>10. CASE CommitClashes(r)
    BY <1>2, <2>10, AnswersError DEF CommitClashes, dbVars
  <2>11. CASE Finish(r)
    <3>1. pc[r] = "committed" /\ Answer(r, "created") /\ idem' = idem
      BY <2>11 DEF Finish, dbVars
    <3>2. idem[KeyOf[r]] # None /\ Replay(r, idem[KeyOf[r]]) = "created"
      BY <2>k, <3>1 DEF Honoured, Sold, Replay
    <3>. QED BY <1>2, <3>1, <3>2, Answers
  <2>. QED
    BY <1>2, <2>1, <2>2, <2>5, <2>6, <2>7, <2>8, <2>9, <2>10, <2>11 DEF Register
<1>. QED BY <1>1, <1>2

LEMMA CancelRefines ==
  ASSUME Sane, NEW c \in Cancellation, ArriveCancel(c) \/ Cancel(c)
  PROVE  UNCHANGED Promise!keyVars
<1>1. \A q \in WithKey : q \in Request /\ q # c
  BY RequestAssumption DEF WithKey, Request
<1>2. /\ idem' = idem
      /\ \A q \in WithKey : pc'[q] = pc[q] /\ response'[q] = response[q]
  <2>1. CASE ArriveCancel(c) \/ Unregister(c) \/ DeleteCancelled(c)
    BY <1>1, <2>1 DEF ArriveCancel, Unregister, DeleteCancelled, Goto, dbVars,
                      Sane, TypeOK
  <2>2. CASE ReadTicket(c) \/ DeleteUnknown(c) \/ FinishCancel(c)
    BY <1>1, <2>2 DEF ReadTicket, DeleteUnknown, FinishCancel, Answer, dbVars,
                      Sane, TypeOK
  <2>. QED BY <2>1, <2>2 DEF Cancel
<1>. QED BY <1>2, Hidden

LEMMA DisturbRefines ==
  ASSUME Sane, Keyed, Unheard, NEW q \in Request, Disturb(q)
  PROVE  \/ q \in WithKey /\ (Promise!Record(q) \/ Promise!Fail({q}))
         \/ UNCHANGED Promise!keyVars
<1>1. CASE LateEffect(q)
  BY <1>1, Hidden DEF LateEffect, dbVars
<1>2. CASE Answer(q, "error") /\ idem' = idem /\ pc[q] # "done"
  <2>1. CASE q \in WithKey
    BY <1>2, <2>1, AnswersError
  <2>2. CASE q \notin WithKey
    <3>1. \A r \in WithKey : pc'[r] = pc[r] /\ response'[r] = response[r]
      BY <1>2, <2>2 DEF Answer
    <3>. QED BY <1>2, <3>1, Hidden
  <2>. QED BY <2>1, <2>2
<1>3. CASE Fails(q) \/ TimesOut(q) \/ LosesAnswer(q)
  BY <1>2, <1>3 DEF Fails, TimesOut, LosesAnswer, Calling, dbVars
<1>4. CASE CommitFails(q)
  <2>1. pc[q] # "done" /\ Answer(q, "error")
    BY <1>4 DEF CommitFails
  <2>2. CASE idem' = idem
    BY <1>2, <2>1, <2>2
  <2>3. CASE idem' # idem
    <3>1. q \in Registration /\ WriteRegistration(q) /\ KeyOf[q] # None
      BY <1>4, <2>3 DEF CommitFails, WriteRegistration, dbVars
    <3>2. pc[q] = "sold"
      BY <1>4, <3>1 DEF CommitFails, Sane, Places, RegisterPC
    <3>3. \A r \in WithKey \ {q} : pc'[r] = pc[r] /\ response'[r] = response[r]
      BY <2>1 DEF Answer
    <3>4. pc'[q] # "sold" /\ response'[q] = "error"
      BY <2>1 DEF Answer, Sane, TypeOK
    <3>. QED BY <3>1, <3>2, <3>3, <3>4, Records DEF WithKey
  <2>. QED BY <2>2, <2>3
<1>. QED BY <1>1, <1>3, <1>4 DEF Disturb

LEMMA CrashRefines ==
  ASSUME Sane, Keyed, Unheard, Crash
  PROVE  \E R \in SUBSET WithKey : Promise!Fail(R)
<1>. DEFINE R == {r \in WithKey : pc[r] \notin {"new", "done"}}
<1>1. \A r \in WithKey :
        /\ pc'[r] = IF r \in R THEN "done" ELSE pc[r]
        /\ response'[r] = IF r \in R THEN "error" ELSE response[r]
  BY DEF Crash, WithKey, Request
<1>2. R \subseteq Promise!Waiting
  BY StillWaiting
<1>3. Told' = [r \in WithKey |-> IF r \in R THEN "error" ELSE Told[r]]
  <2>1. \A r \in WithKey : Outcome(response'[r]) = IF r \in R THEN "error"
                                                   ELSE Outcome(response[r])
    BY <1>1 DEF Outcome
  <2>. QED BY <2>1 DEF Told, WithKey
<1>4. Bought' = Bought \ R
  BY <1>1 DEF Bought, WithKey
<1>5. idem' = idem
  BY DEF Crash, dbVars
<1>6. Promise!Fail(R)
  BY <1>2, <1>3, <1>4, <1>5 DEF Promise!Fail
<1>. QED BY <1>6

\* Registration keeps the promise of module KeyPromise: under every key one
\* purchase at a time, none once one is recorded, a record for ever, and no
\* answer but the one that the record, or its absence, calls for.
THEOREM KeyPromiseKept == Spec => KeepsKeyPromise
<1>1. Init => Promise!Init
  BY DEF Init, Promise!Init, Bought, Told, Outcome, WithKey, Request
<1>2. Init => Sane /\ Keyed /\ Honoured /\ Unheard
  BY InitSane, InitKeyed DEF Init, Honoured, Sold, Unheard, Request
<1>3. Sane /\ Keyed /\ Honoured /\ Unheard /\ [Next]_vars
        => (Sane /\ Keyed /\ Honoured /\ Unheard)'
  BY StepSane, StepKeyed, StepHonoured, StepUnheard
<1>4. Sane /\ Keyed /\ Honoured /\ Unheard /\ [Next]_vars
        => [Promise!Next]_(Promise!keyVars)
  <2>. SUFFICES ASSUME Sane, Keyed, Honoured, Unheard, [Next]_vars
                PROVE  Promise!Next \/ UNCHANGED Promise!keyVars
    OBVIOUS
  <2>1. ASSUME NEW r \in Registration, Arrive(r) \/ Register(r)
        PROVE  Promise!Next \/ UNCHANGED Promise!keyVars
    BY <2>1, RegisterRefines DEF Promise!Next
  <2>2. ASSUME NEW q \in Request, Disturb(q)
        PROVE  Promise!Next \/ UNCHANGED Promise!keyVars
    BY <2>2, DisturbRefines DEF Promise!Next
  <2>3. CASE Crash
    BY <2>3, CrashRefines DEF Promise!Next
  <2>4. CASE ChangeEvent \/ ExpireSeats \/ UNCHANGED vars
    BY <2>4, Hidden DEF ChangeEvent, ExpireSeats, vars, dbVars
  <2>. QED BY <2>1, <2>2, <2>3, <2>4, CancelRefines DEF Next
<1>. QED BY <1>1, <1>2, <1>3, <1>4, PTL DEF Spec, KeepsKeyPromise, Promise!Spec

=============================================================================
