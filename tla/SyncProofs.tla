----------------------------- MODULE SyncProofs -----------------------------
(***************************************************************************)
(* Theorems about the synchronisation for every set of events, calls and   *)
(* processes and every size.  Five layers:                                 *)
(*   Sane       types, and nothing is newer than the provider has it       *)
(*   Apart      an undisturbed call is the only one that is running        *)
(*   Faithful   what an undisturbed call has passed it has read or stored  *)
(*   Backed     no instant is kept that no event of the provider reaches   *)
(*   Ahead      an undisturbed call has seen, or is to be shown, an event  *)
(*              as new as the watermark                                    *)
(***************************************************************************)
EXTENDS Sync, FiniteSetTheorems, TLAPS

Within(j) ==
  /\ j.since <= now
  /\ j.newest <= now
  /\ \A v \in j.page \cup j.batch : v.changed_at <= source[v.id]

Bounded ==
  /\ \A e \in Event : stored[e] <= source[e] /\ source[e] <= now
  /\ watermark <= now
  /\ \A r \in Run : Within(job[r])

Sane == TypeOK /\ Bounded

Apart ==
  /\ \A q, r \in Active : home[q] = home[r] => q = r
  /\ \A r \in Active : job[r].alone => Active = {r}
  /\ \A r \in Active : ~job[r].alone => ~trusted

\* What an undisturbed job j holds is no older than what the table st has, and
\* the page is no older than the batch.
Fresh(j, st) ==
  /\ \A v \in j.page \cup j.batch : st[v.id] <= v.changed_at
  /\ \A b \in j.batch, p \in j.page : b.id = p.id => b.changed_at <= p.changed_at
  /\ \A v, w \in j.page : v.id = w.id => v = w

Wanted(j, e) == source[e] > 0 /\ DayOf(source[e]) >= DayOf(j.since)

Covered(j, st, e) ==
  [id |-> e, changed_at |-> source[e]] \in j.page \cup j.batch \/ st[e] = source[e]

\* Changed today behind the back of a listing by id: the next one will ask again.
Today(e) == ~byChange /\ DayOf(source[e]) >= DayOf(now)

Passed(j, st) ==
  /\ \A e \in Event : Wanted(j, e) /\ Rank(e) <= j.cursor => Covered(j, st, e) \/ Today(e)
  /\ ~j.more /\ ~byChange =>
       \A e \in Event : Wanted(j, e) /\ Rank(e) > j.cursor => Today(e)

InOrder(j) ==
  byChange => /\ j.cursor <= now
              /\ j.newest <= j.cursor
              /\ \A v \in j.page : v.changed_at <= j.cursor

Behind(j, st) ==
  trusted \/ j.since = 0 =>
    \A e \in Event : 0 < source[e] /\ DayOf(source[e]) < DayOf(j.since) => st[e] = source[e]

Faithful(j, st) == Fresh(j, st) /\ Passed(j, st) /\ InOrder(j) /\ Behind(j, st)

Inv ==
  /\ Sane
  /\ Apart
  /\ NothingSkipped
  /\ \A r \in Active : job[r].alone /\ job[r].pc # "failing" => Faithful(job[r], stored)

LEMMA DayOfType == \A t \in Nat : DayOf(t) \in Nat
  BY SizeAssumption DEF DayOf

LEMMA DayOfMonotone == \A s, t \in Nat : s <= t => DayOf(s) <= DayOf(t)
  BY SizeAssumption DEF DayOf

LEMMA DayOfZero == DayOf(0) = 0
  BY SizeAssumption DEF DayOf

LEMMA RankType == ASSUME TypeOK, NEW e \in Event PROVE Rank(e) \in Nat
  BY EventAssumption DEF TypeOK, Rank, Instant

LEMMA IdleType == Idle \in Job
  BY SizeAssumption DEF Idle, Job, Instant

LEMMA InitInv == Init => Inv
<1>. SUFFICES ASSUME Init PROVE Inv
  OBVIOUS
<1>1. Idle.batch = {} /\ Idle.page = {} /\ Idle.since = 0 /\ Idle.newest = 0 /\ Idle.pc = "idle"
  BY DEF Idle
<1>2. \A r \in Run : job[r] = Idle
  BY DEF Init
<1>3. TypeOK
  <2>1. 0 \in Instant /\ 0 \in 0 .. MaxFaults
    BY SizeAssumption DEF Instant
  <2>2. \A r \in Run : Cardinality(job[r].batch) <= BatchSize
    BY <1>1, <1>2, FS_EmptySet, SizeAssumption
  <2>3. home \in Homes /\ job \in [Run -> Job]
    BY IdleType DEF Init
  <2>. QED BY <2>1, <2>2, <2>3 DEF Init, TypeOK
<1>4. Bounded
  BY <1>1, <1>2 DEF Init, Bounded, Within
<1>5. Active = {}
  BY <1>1, <1>2 DEF Active
<1>6. NothingSkipped
  BY DEF Init, NothingSkipped, OutOfReach
<1>. QED BY <1>3, <1>4, <1>5, <1>6 DEF Inv, Sane, Apart

(* The watermark.                                                          *)

Reached(t) == t > 0 => \E e \in Event : source[e] >= t

Backed ==
  /\ Reached(watermark)
  /\ \A r \in Run : Reached(job[r].newest) /\ Reached(job[r].since)

\* A job j that completes will find an event as new as the watermark.
ToCome(j, e) == Wanted(j, e) /\ Rank(e) > j.cursor

Ahead(j) ==
  watermark > 0 =>
    \/ j.newest >= watermark
    \/ \E v \in j.page : v.changed_at >= watermark
    \/ j.more /\ \E e \in Event : ToCome(j, e) /\ source[e] >= watermark

-----------------------------------------------------------------------------
(* Types.                                                                  *)

LEMMA DisturbType ==
  ASSUME TypeOK, NEW jobs \in [Run -> Job], NEW R, Disturb(jobs, R),
         \A r \in Run : Cardinality(jobs[r].batch) <= BatchSize
  PROVE  /\ job' \in [Run -> Job]
         /\ trusted' \in BOOLEAN
         /\ \A r \in Run : Cardinality(job'[r].batch) <= BatchSize
<1>1. \A r \in Run : job'[r] = jobs[r] \/ job'[r] = [jobs[r] EXCEPT !.alone = FALSE]
  BY DEF Disturb
<1>2. \A j \in Job : /\ [j EXCEPT !.alone = FALSE] \in Job
                     /\ [j EXCEPT !.alone = FALSE].batch = j.batch
  BY DEF Job
<1>3. \A r \in Run : jobs[r] \in Job
  OBVIOUS
<1>4. \A r \in Run : job'[r] \in Job /\ job'[r].batch = jobs[r].batch
  BY <1>1, <1>2, <1>3, Zenon
<1>. QED BY <1>4 DEF Disturb, TypeOK

LEMMA CollectType ==
  ASSUME TypeOK, NEW r \in Run, NEW j \in Job, Collect(r, j)
  PROVE  /\ job' \in [Run -> Job]
         /\ \A q \in Run : Cardinality(job'[q].batch) <= BatchSize
<1>1. PICK T \in SUBSET j.page : \E n \in {j.newest} \cup {v.changed_at : v \in T} :
        /\ Cardinality(j.batch \cup T) <= BatchSize
        /\ job' = [job EXCEPT ![r] = [j EXCEPT !.page = @ \ T, !.batch = @ \cup T, !.newest = n]]
  BY DEF Collect
<1>0. PICK n \in {j.newest} \cup {v.changed_at : v \in T} :
        /\ Cardinality(j.batch \cup T) <= BatchSize
        /\ job' = [job EXCEPT ![r] = [j EXCEPT !.page = @ \ T, !.batch = @ \cup T, !.newest = n]]
  BY <1>1
<1>2. n \in Instant /\ T \in SUBSET Version
  BY DEF Job, Version
<1>3. [j EXCEPT !.page = @ \ T, !.batch = @ \cup T, !.newest = n] \in Job
  BY <1>2 DEF Job
<1>. QED BY <1>0, <1>3 DEF TypeOK, Job

LEMMA UpsertedType ==
  ASSUME TypeOK, NEW r \in Run PROVE Upserted(job[r].batch) \in [Event -> Instant]
<1>1. job[r].batch \in SUBSET Version /\ stored \in [Event -> Instant]
  BY DEF TypeOK, Job
<1>. SUFFICES ASSUME NEW e \in Event PROVE Upserted(job[r].batch)[e] \in Instant
  BY DEF Upserted
<1>2. CASE \E v \in job[r].batch : v.id = e
  <2>1. (CHOOSE v \in job[r].batch : v.id = e) \in job[r].batch
    BY <1>2
  <2>. QED BY <1>1, <1>2, <2>1 DEF Upserted, Version
<1>3. CASE ~ \E v \in job[r].batch : v.id = e
  BY <1>1, <1>3 DEF Upserted
<1>. QED BY <1>2, <1>3

LEMMA IdleAgainType ==
  ASSUME TypeOK, NEW r \in Run, job' = [job EXCEPT ![r] = Idle]
  PROVE  job' \in [Run -> Job] /\ \A q \in Run : Cardinality(job'[q].batch) <= BatchSize
<1>1. Cardinality(Idle.batch) <= BatchSize
  BY FS_EmptySet, SizeAssumption DEF Idle
<1>2. \A q \in Run : job'[q] \in {job[q], Idle}
  BY DEF TypeOK
<1>. QED BY <1>1, <1>2, IdleType DEF TypeOK

\* What the job is once it has the page S: the form in which the steps use GetPage.
Paged(r, S, last) ==
  [job[r] EXCEPT !.page = {[id |-> e, changed_at |-> source[e]] : e \in S},
                 !.more = (S # Matching(r)),
                 !.pages = @ + 1,
                 !.cursor = last]

LEMMA GetPageFacts ==
  ASSUME TypeOK, NEW r \in Run, GetPage(r)
  PROVE  \E S \in SUBSET Matching(r), last \in Nat :
           /\ IsPage(S, Matching(r))
           /\ last \in {Rank(e) : e \in S} \cup {job[r].cursor}
           /\ \A e \in S : Rank(e) <= last
           /\ Paged(r, S, last) \in Job
           /\ Collect(r, Paged(r, S, last))
<1>1. PICK S \in SUBSET Matching(r) :
        /\ IsPage(S, Matching(r))
        /\ \E last \in {Rank(e) : e \in S} \cup {job[r].cursor} :
             /\ \A e \in S : Rank(e) <= last
             /\ Collect(r, Paged(r, S, last))
  BY DEF GetPage, Paged
<1>2. PICK last \in {Rank(e) : e \in S} \cup {job[r].cursor} :
        (\A e \in S : Rank(e) <= last) /\ Collect(r, Paged(r, S, last))
  BY <1>1
<1>3. job[r] \in Job /\ job[r].pages < MaxPages
  BY DEF GetPage, PagesLeft, TypeOK
<1>4. last \in Nat
  BY <1>3, RankType DEF Matching, Job
<1>5. {[id |-> e, changed_at |-> source[e]] : e \in S} \in SUBSET Version
  BY DEF Matching, Version, TypeOK
<1>6. job[r].pages + 1 \in 0 .. MaxPages
  BY <1>3, SizeAssumption DEF Job
<1>7. Paged(r, S, last) \in Job
  BY <1>3, <1>4, <1>5, <1>6 DEF Paged, Job
<1>. QED BY <1>1, <1>2, <1>4, <1>7

LEMMA StepType == TypeOK /\ [Next]_vars => TypeOK'
<1>. SUFFICES ASSUME TypeOK, [Next]_vars PROVE TypeOK'
  OBVIOUS
<1>. USE DEF providerVars, metadata
<1>0. UNCHANGED vars => TypeOK'
  BY DEF vars, TypeOK
<1>1. ASSUME NEW e \in Event, Change(e) PROVE TypeOK'
  <2>1. now' \in Instant
    BY <1>1, SizeAssumption DEF Change, TypeOK, Instant
  <2>. QED BY <1>1, <2>1, DisturbType DEF Change, TypeOK
<1>2. ASSUME NEW r \in Run, NEW full \in BOOLEAN, Begin(r, full) PROVE TypeOK'
  <2>. DEFINE j == [Idle EXCEPT !.pc = "starting", !.since = IF full THEN 0 ELSE watermark]
  <2>0. (IF full THEN 0 ELSE watermark) \in Instant
    BY SizeAssumption DEF TypeOK, Instant
  <2>1. j \in Job /\ j.batch = {}
    BY <2>0, IdleType DEF Idle, Job
  <2>2. [job EXCEPT ![r] = j] \in [Run -> Job]
    BY <2>1 DEF TypeOK
  <2>3. \A q \in Run : Cardinality([job EXCEPT ![r] = j][q].batch) <= BatchSize
    <3>1. Cardinality(j.batch) <= BatchSize
      BY <2>1, FS_EmptySet, SizeAssumption
    <3>2. \A q \in Run : [job EXCEPT ![r] = j][q] \in {job[q], j}
      BY DEF TypeOK
    <3>. HIDE DEF j
    <3>. QED BY <3>1, <3>2 DEF TypeOK
  <2>4. PICK R : Disturb([job EXCEPT ![r] = j], R)
    BY <1>2 DEF Begin, Start
  <2>5. job' \in [Run -> Job] /\ trusted' \in BOOLEAN
        /\ \A q \in Run : Cardinality(job'[q].batch) <= BatchSize
    BY <2>2, <2>3, <2>4, DisturbType
  <2>6. UNCHANGED <<byChange, source, now, stored, watermark, status, home, faults>>
    BY <1>2 DEF Begin, Start, providerVars, metadata
  <2>. HIDE DEF j
  <2>. QED BY <2>5, <2>6 DEF TypeOK, Version, Instant
<1>3. ASSUME NEW r \in Run, MarkRunning(r) \/ TooManyPages(r) \/ FlushRefused(r) PROVE TypeOK'
  <2>1. \A j \in Job : \A pc \in {"fetching", "failing"} :
          [j EXCEPT !.pc = pc] \in Job /\ [j EXCEPT !.pc = pc].batch = j.batch
    BY DEF Job
  <2>2. PICK pc \in {"fetching", "failing"} : job' = [job EXCEPT ![r].pc = pc]
    BY <1>3 DEF MarkRunning, TooManyPages, FlushRefused
  <2>3. job' \in [Run -> Job] /\ \A q \in Run : job'[q].batch = job[q].batch
    BY <2>1, <2>2 DEF TypeOK
  <2>4. /\ UNCHANGED <<byChange, source, now, stored, watermark, home, faults, trusted>>
        /\ status' \in {status, "running"}
    BY <1>3 DEF MarkRunning, TooManyPages, FlushRefused, providerVars, metadata
  <2>. QED BY <2>3, <2>4 DEF TypeOK
<1>4. ASSUME NEW r \in Run, GetPage(r) PROVE TypeOK'
  <2>1. PICK j \in Job : Collect(r, j)
    BY <1>4, GetPageFacts
  <2>. QED BY <1>4, <2>1, CollectType DEF GetPage, TypeOK
<1>5. ASSUME NEW r \in Run, Flush(r) PROVE TypeOK'
  <2>1. [job[r] EXCEPT !.batch = {}] \in Job
    BY DEF TypeOK, Job
  <2>. QED BY <1>5, <2>1, CollectType, UpsertedType DEF Flush, TypeOK
<1>6. ASSUME NEW r \in Run, MarkSuccess(r) PROVE TypeOK'
  <2>1. NewWatermark(r) \in Instant
    BY DEF NewWatermark, TypeOK, Job
  <2>2. job' \in [Run -> Job] /\ \A q \in Run : Cardinality(job'[q].batch) <= BatchSize
    BY <1>6, IdleAgainType DEF MarkSuccess
  <2>. QED BY <1>6, <2>1, <2>2 DEF MarkSuccess, TypeOK, Job
<1>7. ASSUME NEW r \in Run, MarkFailure(r) \/ MarkFails(r) PROVE TypeOK'
  <2>1. job' \in [Run -> Job] /\ \A q \in Run : Cardinality(job'[q].batch) <= BatchSize
    BY <1>7, IdleAgainType DEF MarkFailure, MarkFails
  <2>2. CASE MarkFailure(r)
    BY <2>1, <2>2 DEF MarkFailure, TypeOK
  <2>3. CASE MarkFails(r)
    BY <2>1, <2>3, SizeAssumption DEF MarkFails, Fault, TypeOK
  <2>. QED BY <1>7, <2>2, <2>3
<1>8. ASSUME NEW r \in Run, Fails(r) PROVE TypeOK'
  <2>1. stored' \in [Event -> Instant]
    BY <1>8, UpsertedType DEF Fails, TypeOK
  <2>. QED BY <1>8, <2>1, SizeAssumption DEF Fails, Fault, TypeOK, Job
<1>9. ASSUME NEW p \in Process, Crash(p) PROVE TypeOK'
  BY <1>9, IdleType, FS_EmptySet, SizeAssumption DEF Crash, Fault, TypeOK, Idle
<1>. QED
  BY <1>0, <1>1, <1>2, <1>3, <1>4, <1>5, <1>6, <1>7, <1>8, <1>9 DEF Next, Step, AlreadyRunning

-----------------------------------------------------------------------------
(* Nothing is newer than the provider has it.                              *)

LEMMA CollectBounded ==
  ASSUME Sane, NEW r \in Run, NEW j \in Job, Within(j), Collect(r, j), UNCHANGED providerVars
  PROVE  \A q \in Run : Within(job[q])'
<1>1. PICK T \in SUBSET j.page : \E n \in {j.newest} \cup {v.changed_at : v \in T} :
        job' = [job EXCEPT ![r] = [j EXCEPT !.page = @ \ T, !.batch = @ \cup T, !.newest = n]]
  BY DEF Collect
<1>2. PICK n \in {j.newest} \cup {v.changed_at : v \in T} :
        job' = [job EXCEPT ![r] = [j EXCEPT !.page = @ \ T, !.batch = @ \cup T, !.newest = n]]
  BY <1>1
<1>3. \A v \in j.page : v \in Version /\ v.changed_at <= now
  BY DEF Within, Job, Version, Sane, TypeOK, Bounded, Instant
<1>4. n <= now
  BY <1>3 DEF Within
<1>5. /\ job'[r].since = j.since
      /\ job'[r].newest = n
      /\ job'[r].page \cup job'[r].batch = j.page \cup j.batch
  BY <1>2 DEF Sane, TypeOK, Job
<1>6. \A q \in Run \ {r} : job'[q] = job[q]
  BY <1>2 DEF Sane, TypeOK
<1>. QED BY <1>4, <1>5, <1>6 DEF Within, Sane, Bounded, providerVars

LEMMA UpsertedChoice ==
  ASSUME NEW batch, NEW e \in Event
  PROVE  \/ \E v \in batch : v.id = e /\ Upserted(batch)[e] = v.changed_at
         \/ (~ \E v \in batch : v.id = e) /\ Upserted(batch)[e] = stored[e]
<1>1. CASE \E v \in batch : v.id = e
  <2>1. (CHOOSE v \in batch : v.id = e) \in batch /\ (CHOOSE v \in batch : v.id = e).id = e
    BY <1>1
  <2>. QED BY <1>1, <2>1 DEF Upserted
<1>2. CASE ~ \E v \in batch : v.id = e
  BY <1>2 DEF Upserted
<1>. QED BY <1>1, <1>2

LEMMA UpsertedBounded ==
  ASSUME Sane, NEW r \in Run, NEW e \in Event
  PROVE  Upserted(job[r].batch)[e] <= source[e]
  BY UpsertedChoice DEF Sane, Bounded, Within

LEMMA PagedBounded ==
  ASSUME Sane, NEW r \in Run, NEW S \in SUBSET Matching(r), NEW last \in Nat,
         WantsPage(r)
  PROVE  Within(Paged(r, S, last))
<1>1. job[r] \in Job /\ Within(job[r])
  BY DEF Sane, TypeOK, Bounded
<1>2. \A v \in Paged(r, S, last).page : v.changed_at = source[v.id] /\ v.id \in Event
  BY <1>1 DEF Paged, Job, Matching
<1>3. /\ Paged(r, S, last).batch = job[r].batch
      /\ Paged(r, S, last).since = job[r].since
      /\ Paged(r, S, last).newest = job[r].newest
  BY <1>1 DEF Paged, Job
<1>. QED BY <1>1, <1>2, <1>3 DEF Within, Sane, TypeOK, Instant

LEMMA StepBounded == Sane /\ [Next]_vars => Bounded'
<1>. SUFFICES ASSUME Sane, [Next]_vars PROVE Bounded'
  OBVIOUS
<1>. USE DEF providerVars, metadata
<1>a. TypeOK' /\ TypeOK
  BY StepType DEF Sane
<1>b. Idle.page = {} /\ Idle.batch = {} /\ Idle.since = 0 /\ Idle.newest = 0
  BY DEF Idle
<1>c. ASSUME UNCHANGED <<providerVars, stored, watermark>>, \A q \in Run : Within(job[q])'
      PROVE Bounded'
  BY <1>c DEF Sane, Bounded
<1>d. ASSUME NEW r \in Run, UNCHANGED providerVars, job' = [job EXCEPT ![r] = Idle]
      PROVE \A q \in Run : Within(job[q])'
  BY <1>a, <1>b, <1>d DEF Sane, Bounded, Within, TypeOK, Instant
<1>0. UNCHANGED vars => Bounded'
  BY DEF vars, Sane, Bounded, Within
<1>1. ASSUME NEW e \in Event, Change(e) PROVE Bounded'
  <2>1. now' = now + 1 /\ source' = [source EXCEPT ![e] = now'] /\ stored' = stored /\ watermark' = watermark
    BY <1>1 DEF Change
  <2>2. \A d \in Event : source[d] <= source'[d] /\ source'[d] <= now'
    BY <1>a, <2>1 DEF Sane, Bounded, TypeOK, Instant
  <2>3. \A q \in Run : /\ job'[q].since = job[q].since /\ job'[q].newest = job[q].newest
                       /\ job'[q].page = job[q].page /\ job'[q].batch = job[q].batch
    BY <1>1, <1>a DEF Change, Disturb, TypeOK, Job
  <2>4. \A q \in Run : Within(job[q])'
    <3>. SUFFICES ASSUME NEW q \in Run PROVE Within(job[q])'
      OBVIOUS
    <3>1. Within(job[q]) /\ job[q] \in Job
      BY <1>a DEF Sane, Bounded, TypeOK
    <3>2. job'[q].since <= now' /\ job'[q].newest <= now'
      BY <1>a, <2>1, <2>3, <3>1 DEF Within, Job, TypeOK, Instant
    <3>3. \A v \in job'[q].page \cup job'[q].batch : v.changed_at <= source'[v.id]
      BY <1>a, <2>2, <2>3, <3>1 DEF Within, Job, Version, TypeOK, Instant
    <3>. QED BY <3>2, <3>3 DEF Within
  <2>. QED BY <1>a, <2>1, <2>2, <2>4 DEF Sane, Bounded, TypeOK, Instant
<1>2. ASSUME NEW r \in Run, NEW full \in BOOLEAN, Begin(r, full) PROVE Bounded'
  <2>1. UNCHANGED <<providerVars, stored, watermark>>
    BY <1>2 DEF Begin, Start
  <2>2. \A q \in Run \ {r} : /\ job'[q].since = job[q].since /\ job'[q].newest = job[q].newest
                             /\ job'[q].page = job[q].page /\ job'[q].batch = job[q].batch
    BY <1>2, <1>a DEF Begin, Start, Disturb, TypeOK, Job
  <2>3. /\ job'[r].since = IF full THEN 0 ELSE watermark
        /\ job'[r].newest = 0 /\ job'[r].page = {} /\ job'[r].batch = {}
    BY <1>2, <1>a DEF Begin, Start, Disturb, TypeOK, Job, Idle
  <2>4. \A q \in Run : Within(job[q])'
    BY <1>a, <2>1, <2>2, <2>3 DEF Sane, Bounded, Within, TypeOK, Instant
  <2>. QED BY <1>c, <2>1, <2>4
<1>3. ASSUME NEW r \in Run, MarkRunning(r) \/ TooManyPages(r) \/ FlushRefused(r) PROVE Bounded'
  <2>1. \A q \in Run : /\ job'[q].since = job[q].since /\ job'[q].newest = job[q].newest
                       /\ job'[q].page = job[q].page /\ job'[q].batch = job[q].batch
    BY <1>3, <1>a DEF MarkRunning, TooManyPages, FlushRefused, TypeOK, Job
  <2>. QED BY <1>3, <1>c, <2>1 DEF MarkRunning, TooManyPages, FlushRefused, Sane, Bounded, Within
<1>4. ASSUME NEW r \in Run, GetPage(r) PROVE Bounded'
  <2>1. PICK j \in Job : Within(j) /\ Collect(r, j)
    BY <1>4, <1>a, GetPageFacts, PagedBounded DEF GetPage
  <2>. QED BY <1>4, <1>c, <2>1, CollectBounded DEF GetPage
<1>5. ASSUME NEW r \in Run, Flush(r) PROVE Bounded'
  <2>1. [job[r] EXCEPT !.batch = {}] \in Job /\ Within([job[r] EXCEPT !.batch = {}])
    BY <1>a DEF TypeOK, Job, Sane, Bounded, Within
  <2>2. \A q \in Run : Within(job[q])'
    BY <1>5, <2>1, CollectBounded DEF Flush
  <2>. QED BY <1>5, <2>2, UpsertedBounded DEF Flush, Sane, Bounded
<1>6. ASSUME NEW r \in Run, MarkSuccess(r) PROVE Bounded'
  <2>1. NewWatermark(r) <= now
    BY DEF NewWatermark, Sane, Bounded, Within
  <2>2. \A q \in Run : Within(job[q])'
    BY <1>6, <1>d DEF MarkSuccess
  <2>. QED BY <1>6, <2>1, <2>2 DEF MarkSuccess, Sane, Bounded
<1>7. ASSUME NEW r \in Run, MarkFailure(r) \/ MarkFails(r) PROVE Bounded'
  BY <1>7, <1>c, <1>d DEF MarkFailure, MarkFails
<1>8. ASSUME NEW r \in Run, Fails(r) PROVE Bounded'
  <2>1. \A q \in Run : /\ job'[q].since = job[q].since /\ job'[q].newest = job[q].newest
                       /\ job'[q].page = job[q].page /\ job'[q].batch = job[q].batch
    BY <1>8, <1>a DEF Fails, TypeOK, Job
  <2>2. \A q \in Run : Within(job[q])'
    BY <1>8, <2>1 DEF Fails, Sane, Bounded, Within
  <2>. QED BY <1>8, <2>2, UpsertedBounded DEF Fails, Sane, Bounded
<1>9. ASSUME NEW p \in Process, Crash(p) PROVE Bounded'
  <2>1. \A q \in Run : Within(job[q])'
    BY <1>9, <1>a, <1>b DEF Crash, Sane, Bounded, Within, TypeOK, Instant
  <2>. QED BY <1>9, <1>c, <2>1 DEF Crash
<1>. QED
  BY <1>0, <1>1, <1>2, <1>3, <1>4, <1>5, <1>6, <1>7, <1>8, <1>9 DEF Next, Step, AlreadyRunning

-----------------------------------------------------------------------------
(* An undisturbed call is the only one that is running.                    *)

LEMMA StillApart ==
  ASSUME Apart, UNCHANGED home, trusted' => trusted,
         \A q \in Run : job'[q].pc # "idle" => /\ job[q].pc # "idle"
                                               /\ job'[q].alone = job[q].alone
  PROVE  Apart'
  BY DEF Apart, Active

LEMMA StepApart == Sane /\ Apart /\ [Next]_vars => Apart'
<1>. SUFFICES ASSUME Sane, Apart, [Next]_vars PROVE Apart'
  OBVIOUS
<1>a. TypeOK /\ job \in [Run -> Job]
  BY DEF Sane, TypeOK
<1>b. Idle.pc = "idle"
  BY DEF Idle
<1>0. UNCHANGED vars => Apart'
  BY StillApart DEF vars
<1>1. ASSUME NEW e \in Event, Change(e) PROVE Apart'
  <2>1. PICK R : R \in {{}, Active} /\ Disturb(job, R)
    BY <1>1 DEF Change
  <2>2. CASE R = {}
    BY <1>1, <2>1, <2>2, <1>a, StillApart DEF Change, Disturb
  <2>3. CASE R = Active /\ R # {}
    <3>1. \A q \in Run : job'[q].pc = job[q].pc /\ (q \in Active => ~job'[q].alone)
      BY <1>a, <2>1, <2>3 DEF Disturb, Job
    <3>2. ~trusted' /\ home' = home
      BY <1>1, <2>1, <2>3 DEF Disturb, Change
    <3>. QED BY <3>1, <3>2 DEF Apart, Active
  <2>. QED BY <2>1, <2>2, <2>3
<1>2. ASSUME NEW r \in Run, NEW full \in BOOLEAN, Begin(r, full) PROVE Apart'
  <2>. DEFINE j == [Idle EXCEPT !.pc = "starting", !.since = IF full THEN 0 ELSE watermark]
  <2>1. r \notin Active /\ \A q \in Active : home[q] # home[r]
    BY <1>2 DEF Begin, Locked
  <2>2. home' = home /\ Disturb([job EXCEPT ![r] = j],
                                IF Active = {} THEN {} ELSE Active \cup {r})
    BY <1>2, <2>1 DEF Begin, Start
  <2>3. j.pc = "starting" /\ j.alone
    BY DEF Idle
  <2>4. Active' = Active \cup {r}
    <3>1. \A q \in Run : job'[q].pc = IF q = r THEN "starting" ELSE job[q].pc
      BY <1>a, <2>2, <2>3 DEF Disturb, Job, Idle
    <3>. QED BY <3>1 DEF Active
  <2>5. CASE Active = {}
    <3>1. job'[r].alone
      BY <1>a, <2>2, <2>3, <2>5 DEF Disturb
    <3>. QED BY <2>4, <2>5, <3>1 DEF Apart
  <2>6. CASE Active # {}
    <3>1. \A q \in Active' : ~job'[q].alone
      BY <1>a, <2>2, <2>4, <2>6 DEF Disturb, Job, Idle, Active
    <3>2. ~trusted'
      BY <2>2, <2>6 DEF Disturb
    <3>. QED BY <2>1, <2>2, <2>4, <3>1, <3>2 DEF Apart
  <2>. QED BY <2>5, <2>6
<1>3. ASSUME NEW r \in Run, MarkRunning(r) \/ TooManyPages(r) \/ FlushRefused(r) \/ Fails(r)
      PROVE Apart'
  <2>1. home' = home /\ trusted' = trusted /\ job[r].pc # "idle"
    BY <1>3 DEF MarkRunning, TooManyPages, WantsPage, FlushRefused, Fails
  <2>2. \A q \in Run : job'[q].alone = job[q].alone /\ (q # r => job'[q].pc = job[q].pc)
    BY <1>3, <1>a DEF MarkRunning, TooManyPages, FlushRefused, Fails, Job
  <2>. QED BY <2>1, <2>2, StillApart
<1>4. ASSUME NEW r \in Run, GetPage(r) \/ Flush(r) PROVE Apart'
  <2>1. home' = home /\ trusted' = trusted
    BY <1>4 DEF GetPage, Flush
  <2>2. PICK j \in Job : j.pc = job[r].pc /\ j.alone = job[r].alone /\ Collect(r, j)
    <3>1. CASE GetPage(r)
      <4>1. PICK S \in SUBSET Matching(r), last \in Nat :
              Paged(r, S, last) \in Job /\ Collect(r, Paged(r, S, last))
        BY <3>1, <1>a, GetPageFacts
      <4>2. Paged(r, S, last).pc = job[r].pc /\ Paged(r, S, last).alone = job[r].alone
        BY <1>a DEF Paged, Job
      <4>. QED BY <4>1, <4>2
    <3>2. CASE Flush(r)
      BY <3>2, <1>a DEF Flush, Job
    <3>. QED BY <1>4, <3>1, <3>2
  <2>3. \A q \in Run : job'[q].pc = job[q].pc /\ job'[q].alone = job[q].alone
    BY <1>a, <2>2 DEF Collect, Job
  <2>. QED BY <2>1, <2>3, StillApart
<1>5. ASSUME NEW r \in Run, MarkSuccess(r) PROVE Apart'
  <2>1. r \in Active /\ home' = home /\ Active' = Active \ {r}
    BY <1>5, <1>a, <1>b DEF MarkSuccess, Fetched, Active
  <2>2. CASE job[r].alone
    BY <2>1, <2>2 DEF Apart
  <2>3. CASE ~job[r].alone
    BY <1>5, <1>a, <1>b, <2>3, StillApart DEF MarkSuccess
  <2>. QED BY <2>2, <2>3
<1>6. ASSUME NEW r \in Run, MarkFailure(r) \/ MarkFails(r) PROVE Apart'
  BY <1>6, <1>a, <1>b, StillApart DEF MarkFailure, MarkFails
<1>7. ASSUME NEW p \in Process, Crash(p) PROVE Apart'
  BY <1>7, <1>a, <1>b, StillApart DEF Crash
<1>. QED
  BY <1>0, <1>1, <1>2, <1>3, <1>4, <1>5, <1>6, <1>7 DEF Next, Step, AlreadyRunning

-----------------------------------------------------------------------------
(* What an undisturbed call has passed it holds or has stored.             *)

LEMMA CollectFaithful ==
  ASSUME Sane, NEW r \in Run, NEW j \in Job, Collect(r, j), Faithful(j, stored'),
         UNCHANGED <<providerVars, trusted>>
  PROVE  Faithful(job[r], stored)'
<1>1. PICK T \in SUBSET j.page : \E n \in {j.newest} \cup {v.changed_at : v \in T} :
        job' = [job EXCEPT ![r] = [j EXCEPT !.page = @ \ T, !.batch = @ \cup T, !.newest = n]]
  BY DEF Collect
<1>2. PICK n \in {j.newest} \cup {v.changed_at : v \in T} :
        job' = [job EXCEPT ![r] = [j EXCEPT !.page = @ \ T, !.batch = @ \cup T, !.newest = n]]
  BY <1>1
<1>3. /\ job'[r].page = j.page \ T
      /\ job'[r].batch = j.batch \cup T
      /\ job'[r].newest = n
      /\ job'[r].since = j.since
      /\ job'[r].cursor = j.cursor
      /\ job'[r].more = j.more
  BY <1>2 DEF Sane, TypeOK, Job
<1>. USE DEF providerVars
<1>4. Fresh(job[r], stored)'
  BY <1>3 DEF Faithful, Fresh
<1>5. Passed(job[r], stored)'
  BY <1>3 DEF Faithful, Passed, Wanted, Covered, Today, Rank, DayOf
<1>6. InOrder(job[r])'
  BY <1>3 DEF Faithful, InOrder
<1>7. Behind(job[r], stored)'
  BY <1>3 DEF Faithful, Behind, DayOf
<1>. QED BY <1>4, <1>5, <1>6, <1>7 DEF Faithful

LEMMA PagedFaithful ==
  ASSUME Sane, NEW r \in Run, Faithful(job[r], stored), WantsPage(r),
         NEW S \in SUBSET Matching(r), NEW last \in Nat,
         IsPage(S, Matching(r)),
         last \in {Rank(e) : e \in S} \cup {job[r].cursor},
         \A e \in S : Rank(e) <= last
  PROVE  Faithful(Paged(r, S, last), stored)
<1>. DEFINE j == Paged(r, S, last)
<1>1. job[r] \in Job /\ job[r].page = {} /\ Within(job[r]) /\ TypeOK
  BY DEF Sane, TypeOK, Bounded, WantsPage
<1>2. /\ j.page = {[id |-> e, changed_at |-> source[e]] : e \in S}
      /\ j.more = (S # Matching(r))
      /\ j.cursor = last
      /\ j.batch = job[r].batch
      /\ j.since = job[r].since
      /\ j.newest = job[r].newest
  BY <1>1 DEF Paged, Job
<1>. HIDE DEF j
<1>3. S \subseteq Event /\ \A e \in Event : Rank(e) \in Nat
  BY <1>1, RankType DEF Matching
<1>4. Fresh(j, stored)
  BY <1>1, <1>2, <1>3 DEF Faithful, Fresh, Within, Sane, Bounded
<1>5. \A e \in Event : Wanted(j, e) <=> Asked(r, e)
  BY <1>2 DEF Wanted, Asked
<1>6. ASSUME NEW e \in Event, Wanted(j, e), Rank(e) <= last
      PROVE Covered(j, stored, e) \/ Today(e)
  <2>1. CASE Rank(e) <= job[r].cursor
    BY <1>1, <1>2, <1>6, <2>1 DEF Faithful, Passed, Wanted, Covered
  <2>2. CASE Rank(e) > job[r].cursor
    <3>1. e \in Matching(r)
      BY <1>5, <1>6, <2>2 DEF Matching
    <3>2. e \in S
      BY <1>1, <1>3, <1>6, <2>2, <3>1 DEF IsPage, Job
    <3>. QED BY <1>2, <3>2 DEF Covered
  <2>. QED BY <1>1, <1>3, <2>1, <2>2 DEF Job
<1>7. ASSUME S = Matching(r), NEW e \in Event, Wanted(j, e), Rank(e) > last PROVE FALSE
  <2>1. Rank(e) > job[r].cursor
    BY <1>1, <1>3, <1>7 DEF Matching, Job
  <2>. QED BY <1>3, <1>5, <1>7, <2>1 DEF Matching
<1>8. Passed(j, stored)
  BY <1>2, <1>6, <1>7 DEF Passed
<1>9. InOrder(j)
  <2>1. \A e \in S : Rank(e) > job[r].cursor
    BY DEF Matching
  <2>2. byChange => \A e \in Event : Rank(e) = source[e]
    BY DEF Rank
  <2>3. byChange => last <= now /\ job[r].cursor <= last
    BY <1>1, <1>3, <2>1, <2>2 DEF Faithful, InOrder, Sane, Bounded, Job
  <2>4. byChange => \A v \in j.page : v.changed_at <= last
    BY <1>2, <1>3, <2>2
  <2>5. byChange => j.newest <= last
    BY <1>1, <1>2, <2>3 DEF Faithful, InOrder, Job, Instant
  <2>. QED BY <1>2, <2>3, <2>4, <2>5 DEF InOrder
<1>10. Behind(j, stored)
  BY <1>2 DEF Faithful, Behind
<1>. QED BY <1>4, <1>8, <1>9, <1>10 DEF Faithful, j

\* What a batch without repetitions does to the table.
LEMMA UpsertedFresh ==
  ASSUME Sane, NEW r \in Run, Fresh(job[r], stored), ~Repeats(job[r].batch)
  PROVE  /\ \A v \in job[r].batch : Upserted(job[r].batch)[v.id] = v.changed_at
         /\ \A e \in Event : /\ stored[e] <= Upserted(job[r].batch)[e]
                             /\ stored[e] = source[e] => Upserted(job[r].batch)[e] = source[e]
<1>1. job[r].batch \in SUBSET Version /\ stored \in [Event -> Nat] /\ source \in [Event -> Nat]
  BY DEF Sane, TypeOK, Job, Instant
<1>2. \A v \in job[r].batch : Upserted(job[r].batch)[v.id] = v.changed_at
  BY <1>1, UpsertedChoice DEF Repeats, Version
<1>3. ASSUME NEW e \in Event
      PROVE  /\ stored[e] <= Upserted(job[r].batch)[e]
             /\ stored[e] = source[e] => Upserted(job[r].batch)[e] = source[e]
  <2>1. CASE \E v \in job[r].batch : v.id = e
    <3>1. PICK v \in job[r].batch : v.id = e
      BY <2>1
    <3>2. stored[e] <= v.changed_at /\ v.changed_at <= source[e] /\ v.changed_at \in Nat
      BY <1>1, <3>1 DEF Fresh, Sane, Bounded, Within, Version, Instant
    <3>. QED BY <1>1, <1>2, <3>1, <3>2
  <2>2. CASE ~ \E v \in job[r].batch : v.id = e
    BY <1>1, <2>2 DEF Upserted
  <2>. QED BY <2>1, <2>2
<1>. QED BY <1>2, <1>3

LEMMA FlushedFaithful ==
  ASSUME Sane, NEW r \in Run, Faithful(job[r], stored), ~Repeats(job[r].batch)
  PROVE  Faithful([job[r] EXCEPT !.batch = {}], Upserted(job[r].batch))
<1>. DEFINE j == [job[r] EXCEPT !.batch = {}]
            st == Upserted(job[r].batch)
<1>1. job[r] \in Job /\ j.batch = {} /\ j.page = job[r].page /\ j.since = job[r].since
      /\ j.cursor = job[r].cursor /\ j.more = job[r].more /\ j.newest = job[r].newest
  BY DEF Sane, TypeOK, Job
<1>2. /\ \A v \in job[r].batch : st[v.id] = v.changed_at
      /\ \A e \in Event : stored[e] = source[e] => st[e] = source[e]
  BY UpsertedFresh DEF Faithful
<1>3. \A v \in j.page : st[v.id] <= v.changed_at
  <2>. SUFFICES ASSUME NEW v \in job[r].page PROVE st[v.id] <= v.changed_at
    BY <1>1
  <2>1. v.id \in Event
    BY <1>1 DEF Job, Version
  <2>. QED BY <2>1, UpsertedChoice DEF Faithful, Fresh
<1>. HIDE DEF j, st
<1>4. Fresh(j, st)
  BY <1>1, <1>3 DEF Faithful, Fresh
<1>5. \A e \in Event : Covered(job[r], stored, e) => Covered(j, st, e)
  BY <1>1, <1>2 DEF Covered
<1>6. Passed(j, st)
  BY <1>1, <1>5 DEF Faithful, Passed, Wanted
<1>7. InOrder(j) /\ Behind(j, st)
  BY <1>1, <1>2 DEF Faithful, InOrder, Behind
<1>. QED BY <1>4, <1>6, <1>7 DEF Faithful, j, st

Undisturbed(r) == r \in Active /\ job[r].alone /\ job[r].pc # "failing"

LEMMA ChangeFaithful ==
  ASSUME Inv, NEW d \in Event, Change(d), NEW r \in Run, Undisturbed(r)'
  PROVE  Faithful(job[r], stored)'
<1>1. TypeOK /\ job[r] \in Job /\ Bounded
  BY DEF Inv, Sane, TypeOK
<1>2. PICK R : /\ R = (IF byChange \/ DayOf(now') = DayOf(now) THEN {} ELSE Active)
               /\ Disturb(job, R)
  BY DEF Change
<1>3. r \notin R /\ job'[r] = job[r]
  BY <1>1, <1>2 DEF Disturb, Undisturbed, Active, TypeOK, Job
<1>4. /\ Undisturbed(r) /\ Faithful(job[r], stored)
      /\ byChange \/ DayOf(now') = DayOf(now)
      /\ trusted' => trusted
  BY <1>2, <1>3 DEF Undisturbed, Active, Inv, Disturb
<1>5. /\ now' = now + 1
      /\ source' = [source EXCEPT ![d] = now']
      /\ stored' = stored /\ byChange' = byChange
  BY DEF Change
<1>6. /\ now \in Nat /\ now' \in Nat /\ source \in [Event -> Nat] /\ stored \in [Event -> Nat]
      /\ job[r].since \in Nat /\ job[r].since <= now /\ job[r].cursor \in Nat
      /\ job[r].newest \in Nat
      /\ \A e \in Event : stored[e] <= source[e] /\ source[e] <= now
      /\ \A v \in job[r].page : v.changed_at \in Nat
  BY <1>1, <1>5 DEF TypeOK, Job, Instant, Bounded, Within, Version
<1>7. source'[d] = now' /\ \A e \in Event \ {d} : source'[e] = source[e]
  BY <1>5, <1>6
<1>8. Fresh(job[r], stored)'
  BY <1>3, <1>4, <1>5 DEF Faithful, Fresh
<1>9. DayOf(now') >= DayOf(job[r].since) /\ DayOf(now') \in Nat
  BY <1>5, <1>6, DayOfMonotone, DayOfType
<1>10. Passed(job[r], stored)'
  <2>1. CASE byChange
    <3>1. \A e \in Event : Rank(e) = source[e] /\ Rank(e)' = source'[e]
      BY <1>5, <2>1 DEF Rank
    <3>2. ~(Rank(d)' <= job[r].cursor)
      BY <1>4, <1>5, <1>6, <1>7, <2>1, <3>1 DEF Faithful, InOrder
    <3>3. \A e \in Event \ {d} : Wanted(job[r], e)' = Wanted(job[r], e)
      BY <1>3, <1>7 DEF Wanted, DayOf
    <3>. QED BY <1>3, <1>4, <1>5, <1>7, <2>1, <3>1, <3>2, <3>3
         DEF Faithful, Passed, Covered, Today
  <2>2. CASE ~byChange
    <3>1. Today(d)'
      BY <1>5, <1>7, <1>9, <2>2 DEF Today, DayOf
    <3>2. \A e \in Event \ {d} : /\ Wanted(job[r], e)' = Wanted(job[r], e)
                                 /\ Today(e)' = Today(e)
                                 /\ Rank(e)' = Rank(e)
      BY <1>3, <1>4, <1>5, <1>7, <2>2 DEF Wanted, Today, Rank, DayOf
    <3>. QED BY <1>3, <1>4, <1>5, <1>7, <2>2, <3>1, <3>2 DEF Faithful, Passed, Covered
  <2>. QED BY <2>1, <2>2
<1>11. InOrder(job[r])'
  BY <1>3, <1>4, <1>5, <1>6 DEF Faithful, InOrder
<1>12. Behind(job[r], stored)'
  <2>1. ~(DayOf(source'[d]) < DayOf(job[r].since))
    BY <1>6, <1>7, <1>9, DayOfType
  <2>. QED BY <1>3, <1>4, <1>5, <1>7, <2>1 DEF Faithful, Behind, DayOf
<1>. QED BY <1>8, <1>10, <1>11, <1>12 DEF Faithful

LEMMA BeginFaithful ==
  ASSUME Inv, NEW q \in Run, NEW full \in BOOLEAN, Begin(q, full),
         NEW r \in Run, Undisturbed(r)'
  PROVE  Faithful(job[r], stored)'
<1>. DEFINE j == [Idle EXCEPT !.pc = "starting", !.since = IF full THEN 0 ELSE watermark]
<1>1. TypeOK /\ Bounded
  BY DEF Inv, Sane
<1>2. q \notin Active /\ Disturb([job EXCEPT ![q] = j], IF Active = {} THEN {} ELSE Active \cup {q})
  BY DEF Begin, Locked, Start
<1>3. r = q /\ Active = {}
  BY <1>1, <1>2 DEF Disturb, Undisturbed, Active, TypeOK, Job, Idle
<1>4. job'[r] = j /\ trusted' = trusted /\ UNCHANGED <<providerVars, stored>>
  BY <1>1, <1>2, <1>3 DEF Disturb, TypeOK, Begin, Start
<1>5. /\ j.page = {} /\ j.batch = {} /\ j.more /\ j.cursor = 0 /\ j.newest = 0
      /\ j.since = IF full THEN 0 ELSE watermark
  BY DEF Idle
<1>. HIDE DEF j
<1>6. Fresh(job[r], stored)'
  BY <1>4, <1>5 DEF Fresh
<1>7. Passed(job[r], stored)'
  <2>1. \A e \in Event : Wanted(job[r], e)' => ~(Rank(e)' <= 0)
    <3>1. source \in [Event -> Nat] /\ \A e \in Event : e \in Nat \ {0}
      BY <1>1, EventAssumption DEF TypeOK, Instant
    <3>2. \A e \in Event : source[e] > 0 => ~(Rank(e) <= 0)
      BY <3>1 DEF Rank
    <3>. QED BY <1>4, <3>2 DEF Wanted, Rank, providerVars
  <2>. QED BY <1>4, <1>5, <2>1 DEF Passed
<1>8. InOrder(job[r])'
  BY <1>1, <1>4, <1>5 DEF InOrder, TypeOK, Instant, providerVars
<1>9. Behind(job[r], stored)'
  <2>1. \A e \in Event : ~(DayOf(source[e]) < DayOf(0))
    BY <1>1, DayOfZero, DayOfType DEF TypeOK, Instant
  <2>2. CASE j.since = 0
    BY <1>4, <2>1, <2>2 DEF Behind, DayOf, providerVars
  <2>3. CASE j.since # 0
    <3>1. j.since = watermark
      BY <1>5, <2>3
    <3>2. trusted => \A e \in Event :
            0 < source[e] /\ DayOf(source[e]) < DayOf(watermark) => stored[e] = source[e]
      BY DEF Inv, NothingSkipped, OutOfReach
    <3>. QED BY <1>4, <2>3, <3>1, <3>2 DEF Behind, DayOf, providerVars
  <2>. QED BY <2>2, <2>3
<1>. QED BY <1>6, <1>7, <1>8, <1>9 DEF Faithful

\* A step that leaves the table and the provider alone and, of the job, changes
\* nothing a listing depends on.
LEMMA SameFaithful ==
  ASSUME NEW r \in Run, Faithful(job[r], stored), trusted' => trusted \/ job[r].since = 0,
         UNCHANGED <<providerVars, stored>>,
         /\ job'[r].page = job[r].page /\ job'[r].batch = job[r].batch
         /\ job'[r].since = job[r].since /\ job'[r].cursor = job[r].cursor
         /\ job'[r].more = job[r].more /\ job'[r].newest = job[r].newest
  PROVE  Faithful(job[r], stored)'
  BY DEF Faithful, Fresh, Passed, InOrder, Behind, Wanted, Covered, Today, Rank, DayOf, providerVars

\* Whoever acts while an undisturbed call is under way is that call.
LEMMA OnlyOne ==
  ASSUME Inv, NEW r \in Run, Undisturbed(r), NEW q \in Active PROVE q = r
  BY DEF Inv, Apart, Undisturbed

LEMMA StepFaithful ==
  Inv /\ [Next]_vars => \A r \in Run : Undisturbed(r)' => Faithful(job[r], stored)'
<1>. SUFFICES ASSUME Inv, [Next]_vars, NEW r \in Run, Undisturbed(r)'
              PROVE  Faithful(job[r], stored)'
  OBVIOUS
<1>a. Sane /\ TypeOK /\ job \in [Run -> Job]
  BY DEF Inv, Sane, TypeOK
<1>b. Idle.pc = "idle"
  BY DEF Idle
<1>c. Undisturbed(r) => Faithful(job[r], stored)
  BY DEF Inv, Undisturbed
<1>0. CASE UNCHANGED vars
  BY <1>0, <1>c, SameFaithful DEF vars, providerVars, Undisturbed, Active
<1>1. ASSUME NEW e \in Event, Change(e) PROVE Faithful(job[r], stored)'
  BY <1>1, ChangeFaithful
<1>2. ASSUME NEW q \in Run, NEW full \in BOOLEAN, Begin(q, full) PROVE Faithful(job[r], stored)'
  BY <1>2, BeginFaithful
<1>3. ASSUME NEW q \in Run, MarkRunning(q) PROVE Faithful(job[r], stored)'
  <2>1. Undisturbed(r)
    BY <1>3, <1>a DEF MarkRunning, Undisturbed, Active, Job
  <2>. QED BY <1>3, <1>a, <1>c, <2>1, SameFaithful DEF MarkRunning, Job
<1>4. ASSUME NEW q \in Run, GetPage(q) PROVE Faithful(job[r], stored)'
  <2>1. PICK S \in SUBSET Matching(q), last \in Nat :
          /\ IsPage(S, Matching(q))
          /\ last \in {Rank(e) : e \in S} \cup {job[q].cursor}
          /\ \A e \in S : Rank(e) <= last
          /\ Paged(q, S, last) \in Job
          /\ Collect(q, Paged(q, S, last))
    BY <1>4, <1>a, GetPageFacts
  <2>2. Paged(q, S, last).pc = job[q].pc /\ Paged(q, S, last).alone = job[q].alone
    BY <1>a DEF Paged, Job
  <2>3. Undisturbed(r) /\ q \in Active
    BY <1>4, <1>a, <2>1, <2>2 DEF Collect, Undisturbed, Active, Job, GetPage, WantsPage
  <2>4. q = r
    BY <2>3, OnlyOne
  <2>5. stored' = stored /\ WantsPage(r) /\ UNCHANGED <<providerVars, trusted>>
    BY <1>4, <2>4 DEF GetPage
  <2>6. Faithful(Paged(r, S, last), stored)
    BY <1>a, <1>c, <2>1, <2>3, <2>4, <2>5, PagedFaithful
  <2>. QED BY <1>a, <2>1, <2>4, <2>5, <2>6, CollectFaithful
<1>5. ASSUME NEW q \in Run, Flush(q) PROVE Faithful(job[r], stored)'
  <2>. DEFINE j == [job[q] EXCEPT !.batch = {}]
  <2>1. j \in Job /\ j.pc = job[q].pc /\ j.alone = job[q].alone /\ Collect(q, j)
    BY <1>5, <1>a DEF Flush, Job
  <2>2. Undisturbed(r) /\ q \in Active
    BY <1>5, <1>a, <2>1 DEF Collect, Undisturbed, Active, Job, Flush
  <2>3. q = r
    BY <2>2, OnlyOne
  <2>4. stored' = Upserted(job[r].batch) /\ ~Repeats(job[r].batch) /\ UNCHANGED <<providerVars, trusted>>
    BY <1>5, <2>3 DEF Flush
  <2>5. Faithful(j, stored')
    BY <1>a, <1>c, <2>2, <2>3, <2>4, FlushedFaithful
  <2>. HIDE DEF j
  <2>. QED BY <1>a, <2>1, <2>3, <2>4, <2>5, CollectFaithful
<1>6. ASSUME NEW q \in Run,
             TooManyPages(q) \/ FlushRefused(q) \/ MarkSuccess(q) \/ MarkFailure(q) \/ Fails(q) \/ MarkFails(q)
      PROVE  Faithful(job[r], stored)'
  <2>1. q \in Active /\ (job'[q].pc = "failing" \/ job'[q].pc = "idle")
    BY <1>6, <1>a, <1>b DEF TooManyPages, WantsPage, FlushRefused, MarkSuccess, Fetched, MarkFailure,
                            Fails, MarkFails, Active, Job
  <2>2. r # q /\ job'[r] = job[r]
    BY <1>6, <1>a, <2>1 DEF TooManyPages, FlushRefused, MarkSuccess, MarkFailure, Fails, MarkFails,
                            Undisturbed, Active
  <2>. QED BY <2>1, <2>2, OnlyOne DEF Undisturbed, Active
<1>7. ASSUME NEW p \in Process, Crash(p) PROVE Faithful(job[r], stored)'
  <2>1. job'[r] = job[r]
    BY <1>7, <1>a, <1>b DEF Crash, Undisturbed, Active
  <2>. QED BY <1>7, <1>c, <2>1, SameFaithful DEF Crash, Undisturbed, Active
<1>. QED
  BY <1>0, <1>1, <1>2, <1>3, <1>4, <1>5, <1>6, <1>7 DEF Next, Step, AlreadyRunning, vars

-----------------------------------------------------------------------------
(* The properties.                                                         *)

\* The call that ends undisturbed has stored everything its watermark is past.
LEMMA SuccessSkipsNothing ==
  ASSUME Inv, NEW r \in Run, MarkSuccess(r), trusted',
         NEW e \in Event, OutOfReach(e)'
  PROVE  stored'[e] = source'[e]
<1>1. TypeOK /\ job[r] \in Job /\ Within(job[r]) /\ r \in Active
  BY DEF Inv, Sane, TypeOK, Bounded, MarkSuccess, Fetched, Active
<1>2. /\ watermark' = NewWatermark(r) /\ UNCHANGED <<providerVars, stored>>
      /\ job[r].page = {} /\ job[r].batch = {} /\ ~job[r].more
      /\ job[r].pc = "fetching"
  BY DEF MarkSuccess, Fetched, FlushDue
<1>3. job[r].alone /\ (trusted \/ job[r].since = 0)
  BY <1>1 DEF Inv, Apart, MarkSuccess
<1>4. Faithful(job[r], stored)
  BY <1>1, <1>2, <1>3 DEF Inv
<1>5. /\ 0 < source[e] /\ DayOf(source[e]) < DayOf(NewWatermark(r))
      /\ source[e] \in Nat /\ now \in Nat /\ job[r].since \in Nat /\ job[r].newest \in Nat
      /\ NewWatermark(r) \in {job[r].since, job[r].newest}
      /\ NewWatermark(r) <= now
  BY <1>1, <1>2 DEF OutOfReach, DayOf, providerVars, NewWatermark, TypeOK, Job, Instant, Within
<1>6. DayOf(NewWatermark(r)) <= DayOf(now)
  BY <1>5, DayOfMonotone
<1>7. ~Today(e)
  BY <1>5, <1>6, DayOfType DEF Today
<1>8. CASE DayOf(source[e]) < DayOf(job[r].since)
  BY <1>2, <1>3, <1>4, <1>5, <1>8 DEF Faithful, Behind, providerVars
<1>9. CASE DayOf(source[e]) >= DayOf(job[r].since)
  <2>1. Wanted(job[r], e)
    BY <1>5, <1>9 DEF Wanted
  <2>2. CASE Rank(e) <= job[r].cursor
    BY <1>2, <1>4, <1>7, <2>1, <2>2 DEF Faithful, Passed, Covered, providerVars
  <2>3. CASE Rank(e) > job[r].cursor
    <3>1. byChange
      BY <1>2, <1>4, <1>7, <2>1, <2>3 DEF Faithful, Passed
    <3>2. source[e] > job[r].cursor /\ job[r].newest <= job[r].cursor
      BY <1>4, <2>3, <3>1 DEF Rank, Faithful, InOrder
    <3>3. NewWatermark(r) = job[r].newest
      BY <1>5, <1>9, DayOfType DEF NewWatermark
    <3>4. job[r].newest <= source[e]
      BY <1>1, <1>5, <3>2 DEF Job
    <3>. QED BY <1>5, <3>3, <3>4, DayOfMonotone, DayOfType
  <2>. QED BY <1>1, <2>2, <2>3, RankType DEF Job
<1>. QED BY <1>5, <1>8, <1>9, DayOfType

\* What a flush may touch is already known not to be newer than the batch.
LEMMA UpsertKeeps ==
  ASSUME Inv, NEW r \in Active, job[r].pc = "fetching", ~Repeats(job[r].batch), job[r].alone
  PROVE  \A e \in Event : /\ Upserted(job[r].batch)[e] >= stored[e]
                          /\ stored[e] = source[e] => Upserted(job[r].batch)[e] = source[e]
<1>1. Sane /\ Faithful(job[r], stored) /\ r \in Run
  BY DEF Inv, Active
<1>2. \A e \in Event : stored[e] \in Nat /\ Upserted(job[r].batch)[e] \in Nat
  BY <1>1, UpsertedType DEF Sane, TypeOK, Instant
<1>. QED BY <1>1, <1>2, UpsertedFresh DEF Faithful

\* The only steps that write the table.
LEMMA Writers ==
  ASSUME Inv, [Next]_vars, stored' # stored
  PROVE  /\ \E r \in Active : /\ job[r].pc = "fetching" /\ ~Repeats(job[r].batch)
                              /\ stored' = Upserted(job[r].batch)
         /\ UNCHANGED <<providerVars, watermark, trusted>>
<1>1. ASSUME NEW r \in Run, Flush(r) \/ Fails(r)
      PROVE  /\ r \in Active /\ job[r].pc = "fetching" /\ ~Repeats(job[r].batch)
             /\ stored' = Upserted(job[r].batch)
             /\ UNCHANGED <<providerVars, watermark, trusted>>
  BY <1>1 DEF Flush, Fails, Active, metadata
<1>2. \E r \in Run : Flush(r) \/ Fails(r)
  BY DEF Next, Step, vars, AlreadyRunning, Change, Begin, Start, MarkRunning, GetPage, TooManyPages,
         FlushRefused, MarkSuccess, MarkFailure, MarkFails, Crash
<1>. QED BY <1>1, <1>2

LEMMA StepSkipsNothing == Inv /\ [Next]_vars => NothingSkipped'
<1>. SUFFICES ASSUME Inv, [Next]_vars, trusted', NEW e \in Event, OutOfReach(e)'
              PROVE  stored'[e] = source'[e]
  BY DEF NothingSkipped
<1>a. TypeOK /\ Bounded
  BY DEF Inv, Sane
<1>b. trusted /\ OutOfReach(e) => stored[e] = source[e]
  BY DEF Inv, NothingSkipped
<1>1. ASSUME trusted, UNCHANGED <<providerVars, stored, watermark>> PROVE stored'[e] = source'[e]
  BY <1>1, <1>b DEF OutOfReach, DayOf, providerVars
<1>2. CASE stored' # stored
  <2>1. PICK r \in Active : /\ job[r].pc = "fetching" /\ ~Repeats(job[r].batch)
                            /\ stored' = Upserted(job[r].batch)
    BY <1>2, Writers
  <2>2. UNCHANGED <<providerVars, watermark, trusted>>
    BY <1>2, Writers
  <2>3. job[r].alone
    BY <2>2 DEF Inv, Apart
  <2>4. stored[e] = source[e]
    BY <1>b, <2>2 DEF OutOfReach, DayOf, providerVars
  <2>. QED BY <2>1, <2>2, <2>3, <2>4, UpsertKeeps DEF providerVars
<1>3. ASSUME NEW d \in Event, Change(d) PROVE stored'[e] = source'[e]
  <2>1. now' = now + 1 /\ source' = [source EXCEPT ![d] = now'] /\ stored' = stored
        /\ watermark' = watermark /\ trusted
    BY <1>3 DEF Change, Disturb, metadata
  <2>2. CASE e = d
    <3>1. source'[e] = now' /\ watermark \in Nat /\ now' \in Nat /\ watermark <= now'
      BY <1>a, <2>1, <2>2 DEF TypeOK, Bounded, Instant
    <3>2. DayOf(watermark) <= DayOf(source'[e])
      BY <3>1, DayOfMonotone
    <3>. QED BY <2>1, <3>1, <3>2, DayOfType DEF OutOfReach, DayOf
  <2>3. CASE e # d
    BY <1>a, <1>b, <2>1, <2>3 DEF OutOfReach, DayOf, TypeOK
  <2>. QED BY <2>2, <2>3
<1>4. ASSUME NEW r \in Run, MarkSuccess(r) PROVE stored'[e] = source'[e]
  BY <1>4, SuccessSkipsNothing
<1>5. CASE stored' = stored /\ ~(\E d \in Event : Change(d)) /\ ~(\E r \in Run : MarkSuccess(r))
  <2>1. trusted /\ UNCHANGED <<providerVars, stored, watermark>>
    BY <1>5 DEF Next, Step, vars, AlreadyRunning, Begin, Start, Disturb, MarkRunning, GetPage,
         TooManyPages, Flush, FlushRefused, MarkFailure, Fails, MarkFails, Crash, metadata
  <2>. QED BY <1>1, <2>1
<1>. QED BY <1>2, <1>3, <1>4, <1>5

LEMMA StepInv == Inv /\ [Next]_vars => Inv'
<1>. SUFFICES ASSUME Inv, [Next]_vars PROVE Inv'
  OBVIOUS
<1>1. Sane' /\ Apart'
  BY StepType, StepBounded, StepApart DEF Inv, Sane
<1>2. \A r \in Active' : job'[r].alone /\ job'[r].pc # "failing" => Faithful(job[r], stored)'
  BY StepFaithful DEF Undisturbed, Active
<1>. QED BY <1>1, <1>2, StepSkipsNothing DEF Inv

LEMMA Invariance == Spec => []Inv
  BY InitInv, StepInv, PTL DEF Spec

\* The synchronisation keeps its types, a batch its size and a listing its limit
\* of pages, for any number of calls and processes.
THEOREM SyncTypes == Spec => []TypeOK
<1>1. Inv => TypeOK
  BY DEF Inv, Sane
<1>. QED BY <1>1, Invariance, PTL

\* As long as synchronisations do not overlap, no version an incremental one
\* will not ask for again is missing from the table, whatever failed meanwhile.
THEOREM SyncSkipsNothing == Spec => []NothingSkipped
<1>1. Inv => NothingSkipped
  BY DEF Inv
<1>. QED BY <1>1, Invariance, PTL

\* While every synchronisation under way is undisturbed, the upsert never puts
\* an older version over a newer one.
THEOREM SyncNeverBackwards == Spec => NeverBackwards
<1>1. Inv /\ [Next]_vars =>
        [(\A r \in Active : job[r].alone) => \A e \in Event : stored'[e] >= stored[e]]_vars
  <2>. SUFFICES ASSUME Inv, [Next]_vars, \A r \in Active : job[r].alone, NEW e \in Event
                PROVE  stored'[e] >= stored[e]
    OBVIOUS
  <2>1. CASE stored' = stored
    <3>1. stored[e] \in Nat
      BY DEF Inv, Sane, TypeOK, Instant
    <3>. QED BY <2>1, <3>1
  <2>2. CASE stored' # stored
    BY <2>2, Writers, UpsertKeeps
  <2>. QED BY <2>1, <2>2
<1>. QED BY <1>1, Invariance, PTL DEF Spec, NeverBackwards

-----------------------------------------------------------------------------
(* The watermark.                                                          *)

\* The provider's instants only grow.
LEMMA StillReached ==
  ASSUME Sane, [Next]_vars, NEW t \in Instant, Reached(t) PROVE Reached(t)'
<1>1. ASSUME NEW d \in Event, Change(d) PROVE \A e \in Event : source'[e] >= source[e]
  BY <1>1 DEF Change, Sane, TypeOK, Bounded, Instant
<1>2. CASE source' = source
  BY <1>2 DEF Reached
<1>3. CASE source' # source
  <2>1. PICK d \in Event : Change(d)
    BY <1>3 DEF Next, Step, vars, providerVars, AlreadyRunning, Begin, Start, MarkRunning, GetPage,
                TooManyPages, Flush, FlushRefused, MarkSuccess, MarkFailure, Fails, MarkFails, Crash
  <2>2. \A e \in Event : source[e] \in Instant /\ source'[e] \in Instant
    BY StepType DEF Sane, TypeOK
  <2>3. t \in Nat /\ \A e \in Event : source[e] \in Nat /\ source'[e] \in Nat
    BY <2>2 DEF Instant
  <2>4. \A e \in Event : source[e] >= t => source'[e] >= t
    BY <1>1, <2>1, <2>3
  <2>. QED BY <2>4 DEF Reached
<1>. QED BY <1>2, <1>3

\* What a job collects from a page it was given is an instant an event reaches.
LEMMA CollectReached ==
  ASSUME Sane, NEW r \in Run, NEW j \in Job, Collect(r, j), UNCHANGED providerVars,
         Within(j), Reached(j.newest)
  PROVE  /\ Reached(job'[r].newest)
         /\ job'[r].since = j.since
         /\ \A q \in Run \ {r} : job'[q] = job[q]
<1>1. PICK T \in SUBSET j.page : \E n \in {j.newest} \cup {v.changed_at : v \in T} :
        job' = [job EXCEPT ![r] = [j EXCEPT !.page = @ \ T, !.batch = @ \cup T, !.newest = n]]
  BY DEF Collect
<1>2. PICK n \in {j.newest} \cup {v.changed_at : v \in T} :
        job' = [job EXCEPT ![r] = [j EXCEPT !.page = @ \ T, !.batch = @ \cup T, !.newest = n]]
  BY <1>1
<1>3. job'[r].newest = n /\ job'[r].since = j.since /\ \A q \in Run \ {r} : job'[q] = job[q]
  BY <1>2 DEF Sane, TypeOK, Job
<1>4. ASSUME NEW v \in T PROVE Reached(v.changed_at)
  <2>1. v.id \in Event /\ v.changed_at <= source[v.id] /\ v.changed_at \in Nat
        /\ source[v.id] \in Nat
    BY DEF Job, Version, Within, Sane, TypeOK, Instant
  <2>. QED BY <2>1 DEF Reached
<1>5. Reached(n)
  BY <1>4
<1>. QED BY <1>3, <1>5

\* Whatever a step makes of the watermark and of the jobs was reached before it.
LEMMA NewMarks ==
  ASSUME Sane, Backed, [Next]_vars
  PROVE  /\ Reached(watermark')
         /\ \A r \in Run : Reached(job'[r].newest) /\ Reached(job'[r].since)
<1>a. TypeOK /\ job \in [Run -> Job] /\ \A r \in Run : Within(job[r])
  BY DEF Sane, TypeOK, Bounded
<1>b. /\ Idle.newest = 0 /\ Idle.since = 0
      /\ Reached(0)
  BY DEF Idle, Reached
<1>c. /\ Reached(watermark)
      /\ \A r \in Run : Reached(job[r].newest) /\ Reached(job[r].since)
  BY DEF Backed
<1>1. ASSUME watermark' = watermark,
             \A r \in Run : \/ job'[r].newest = job[r].newest /\ job'[r].since = job[r].since
                            \/ job'[r] = Idle
      PROVE  /\ Reached(watermark')
             /\ \A r \in Run : Reached(job'[r].newest) /\ Reached(job'[r].since)
  BY <1>b, <1>c, <1>1, Zenon
<1>2. CASE UNCHANGED vars
  BY <1>1, <1>2 DEF vars, metadata
<1>3. ASSUME NEW e \in Event, Change(e)
      PROVE  /\ watermark' = watermark
             /\ \A r \in Run : job'[r].newest = job[r].newest /\ job'[r].since = job[r].since
  BY <1>a, <1>3 DEF Change, Disturb, metadata, Job
<1>4. ASSUME NEW q \in Run, NEW full \in BOOLEAN, Begin(q, full)
      PROVE  /\ Reached(watermark')
             /\ \A r \in Run : Reached(job'[r].newest) /\ Reached(job'[r].since)
  <2>1. watermark' = watermark
    BY <1>4 DEF Begin, Start, metadata
  <2>2. \A r \in Run \ {q} : job'[r].newest = job[r].newest /\ job'[r].since = job[r].since
    BY <1>4, <1>a DEF Begin, Start, Disturb, Job
  <2>3. job'[q].newest = 0 /\ job'[q].since \in {0, watermark}
    BY <1>4, <1>a DEF Begin, Start, Disturb, Job, Idle
  <2>. QED BY <1>b, <1>c, <2>1, <2>2, <2>3, Zenon
<1>5. ASSUME NEW q \in Run, NEW j \in Job, Within(j), Collect(q, j), UNCHANGED providerVars,
             watermark' = watermark, j.newest = job[q].newest, j.since = job[q].since
      PROVE  /\ Reached(watermark')
             /\ \A r \in Run : Reached(job'[r].newest) /\ Reached(job'[r].since)
  <2>1. /\ Reached(job'[q].newest)
        /\ job'[q].since = job[q].since
        /\ \A r \in Run \ {q} : job'[r] = job[r]
    BY <1>5, <1>c, CollectReached
  <2>. QED BY <1>c, <1>5, <2>1, Zenon
<1>6. ASSUME NEW q \in Run, GetPage(q)
      PROVE  /\ Reached(watermark')
             /\ \A r \in Run : Reached(job'[r].newest) /\ Reached(job'[r].since)
  <2>1. WantsPage(q) /\ UNCHANGED providerVars /\ watermark' = watermark
    BY <1>6 DEF GetPage, metadata
  <2>2. PICK S \in SUBSET Matching(q), last \in Nat :
          Paged(q, S, last) \in Job /\ Collect(q, Paged(q, S, last))
    BY <1>6, <1>a, GetPageFacts
  <2>3. Within(Paged(q, S, last))
    BY <2>1, PagedBounded
  <2>4. Paged(q, S, last).newest = job[q].newest /\ Paged(q, S, last).since = job[q].since
    BY <1>a DEF Paged, Job
  <2>. QED BY <1>5, <2>1, <2>2, <2>3, <2>4
<1>7. ASSUME NEW q \in Run, Flush(q)
      PROVE  /\ Reached(watermark')
             /\ \A r \in Run : Reached(job'[r].newest) /\ Reached(job'[r].since)
  <2>. DEFINE j == [job[q] EXCEPT !.batch = {}]
  <2>1. /\ j \in Job /\ Within(j) /\ j.newest = job[q].newest /\ j.since = job[q].since
    BY <1>a DEF Job, Within
  <2>2. Collect(q, j) /\ UNCHANGED providerVars /\ watermark' = watermark
    BY <1>7 DEF Flush, metadata
  <2>. HIDE DEF j
  <2>. QED BY <1>5, <2>1, <2>2
<1>8. ASSUME NEW q \in Run,
             MarkRunning(q) \/ TooManyPages(q) \/ FlushRefused(q) \/ Fails(q)
      PROVE  /\ watermark' = watermark
             /\ \A r \in Run : job'[r].newest = job[r].newest /\ job'[r].since = job[r].since
  BY <1>a, <1>8 DEF MarkRunning, TooManyPages, FlushRefused, Fails, metadata, Job
<1>9. ASSUME NEW q \in Run, MarkSuccess(q)
      PROVE  /\ Reached(watermark')
             /\ \A r \in Run : Reached(job'[r].newest) /\ Reached(job'[r].since)
  <2>1. /\ watermark' = job[q].newest \/ watermark' = job[q].since
        /\ \A r \in Run : job'[r] = job[r] \/ job'[r] = Idle
    BY <1>a, <1>9 DEF MarkSuccess, NewWatermark
  <2>. QED BY <1>b, <1>c, <2>1, Zenon
<1>10. ASSUME NEW q \in Run, MarkFailure(q) \/ MarkFails(q)
       PROVE  watermark' = watermark /\ \A r \in Run : job'[r] = job[r] \/ job'[r] = Idle
  BY <1>a, <1>10 DEF MarkFailure, MarkFails, metadata
<1>11. ASSUME NEW p \in Process, Crash(p)
       PROVE  watermark' = watermark /\ \A r \in Run : job'[r] = job[r] \/ job'[r] = Idle
  BY <1>a, <1>11 DEF Crash, metadata
<1>. QED
  BY <1>1, <1>2, <1>3, <1>4, <1>6, <1>7, <1>8, <1>9, <1>10, <1>11
  DEF Next, Step, AlreadyRunning

LEMMA StepBacked == Sane /\ Backed /\ [Next]_vars => Backed'
<1>. SUFFICES ASSUME Sane, Backed, [Next]_vars PROVE Backed'
  OBVIOUS
<1>1. /\ watermark' \in Instant
      /\ \A r \in Run : job'[r].newest \in Instant /\ job'[r].since \in Instant
  BY StepType DEF Sane, TypeOK, Job
<1>2. \A t \in Instant : Reached(t) => (t > 0 => \E e \in Event : source'[e] >= t)
  BY StillReached DEF Reached
<1>3. /\ watermark' > 0 => \E e \in Event : source'[e] >= watermark'
      /\ \A r \in Run :
           /\ job'[r].newest > 0 => \E e \in Event : source'[e] >= job'[r].newest
           /\ job'[r].since > 0 => \E e \in Event : source'[e] >= job'[r].since
  BY <1>1, <1>2, NewMarks
<1>. QED BY <1>3 DEF Backed, Reached

\* An event that is to come stays so when it or another one changes.
LEMMA ChangeAhead ==
  ASSUME Sane, NEW d \in Event, Change(d), NEW r \in Run, Ahead(job[r]),
         job'[r] = job[r]
  PROVE  Ahead(job[r])'
<1>1. /\ source' = [source EXCEPT ![d] = now + 1]
      /\ byChange' = byChange /\ watermark' = watermark
  BY DEF Change, metadata
<1>2. /\ source \in [Event -> Nat] /\ now \in Nat /\ watermark \in Nat
      /\ job[r].cursor \in Nat /\ job[r].since \in Nat
      /\ \A e \in Event : source[e] <= now
  BY DEF Sane, TypeOK, Bounded, Job, Instant
<1>3. \A e \in Event : source'[e] \in Nat /\ source'[e] >= source[e]
  BY <1>1, <1>2
<1>4. ASSUME NEW e \in Event, ToCome(job[r], e), source[e] >= watermark
      PROVE  ToCome(job[r], e)' /\ source'[e] >= watermark'
  <2>1. DayOf(source'[e]) >= DayOf(job[r].since)
    <3>1. DayOf(source[e]) <= DayOf(source'[e])
      BY <1>2, <1>3, DayOfMonotone
    <3>2. DayOf(source[e]) \in Nat /\ DayOf(source'[e]) \in Nat /\ DayOf(job[r].since) \in Nat
      BY <1>2, <1>3, DayOfType
    <3>. QED BY <1>4, <3>1, <3>2 DEF ToCome, Wanted
  <2>2. Rank(e)' > job[r].cursor
    <3>1. CASE byChange
      BY <1>1, <1>2, <1>3, <1>4, <3>1 DEF ToCome, Rank
    <3>2. CASE ~byChange
      BY <1>1, <1>4, <3>2 DEF ToCome, Rank
    <3>. QED BY <3>1, <3>2
  <2>3. source'[e] > 0 /\ source'[e] >= watermark'
    BY <1>1, <1>2, <1>3, <1>4 DEF ToCome, Wanted
  <2>4. DayOf(source[e])' >= DayOf(job[r].since)'
    BY <2>1 DEF DayOf
  <2>. QED BY <2>2, <2>3, <2>4 DEF ToCome, Wanted
<1>. QED BY <1>1, <1>4 DEF Ahead

\* A new call is to be shown the event that reaches the watermark.
LEMMA BeginAhead ==
  ASSUME Sane, Backed, NEW q \in Run, NEW full \in BOOLEAN, Begin(q, full)
  PROVE  Ahead(job[q])'
<1>1. /\ job'[q].newest = 0 /\ job'[q].page = {} /\ job'[q].more /\ job'[q].cursor = 0
      /\ job'[q].since \in {0, watermark}
      /\ UNCHANGED <<providerVars, watermark>>
  BY DEF Begin, Start, Disturb, Sane, TypeOK, Job, Idle, metadata
<1>2. /\ source \in [Event -> Nat] /\ watermark \in Nat
      /\ \A e \in Event : e \in Nat \ {0}
  BY EventAssumption DEF Sane, TypeOK, Instant
<1>3. ASSUME watermark > 0 PROVE \E e \in Event : ToCome(job[q], e)' /\ source[e] >= watermark
  <2>1. PICK e \in Event : source[e] >= watermark
    BY <1>3 DEF Backed, Reached
  <2>2. Rank(e) > 0 /\ source[e] > 0
    BY <1>2, <1>3, <2>1 DEF Rank
  <2>3. DayOf(job'[q].since) <= DayOf(source[e])
    BY <1>1, <1>2, <2>1, DayOfMonotone
  <2>4. DayOf(job'[q].since) \in Nat /\ DayOf(source[e]) \in Nat
    BY <1>1, <1>2, DayOfType
  <2>5. DayOf(source[e])' >= DayOf(job[q].since)'
    BY <1>1, <2>3, <2>4 DEF DayOf, providerVars
  <2>. QED BY <1>1, <2>1, <2>2, <2>5 DEF ToCome, Wanted, Rank, providerVars
<1>. QED BY <1>1, <1>3 DEF Ahead, providerVars

LEMMA CollectAhead ==
  ASSUME Sane, NEW r \in Run, NEW j \in Job, Collect(r, j), Ahead(j),
         UNCHANGED <<providerVars, watermark>>
  PROVE  Ahead(job[r])'
<1>1. PICK T \in SUBSET j.page : \E n \in {j.newest} \cup {v.changed_at : v \in T} :
        /\ n >= j.newest
        /\ \A v \in T : n >= v.changed_at
        /\ job' = [job EXCEPT ![r] = [j EXCEPT !.page = @ \ T, !.batch = @ \cup T, !.newest = n]]
  BY DEF Collect
<1>2. PICK n \in {j.newest} \cup {v.changed_at : v \in T} :
        /\ n >= j.newest
        /\ \A v \in T : n >= v.changed_at
        /\ job' = [job EXCEPT ![r] = [j EXCEPT !.page = @ \ T, !.batch = @ \cup T, !.newest = n]]
  BY <1>1
<1>3. /\ job'[r].page = j.page \ T /\ job'[r].newest = n
      /\ job'[r].more = j.more /\ job'[r].cursor = j.cursor /\ job'[r].since = j.since
  BY <1>2 DEF Sane, TypeOK, Job
<1>4. /\ n \in Nat /\ watermark \in Nat /\ j.newest \in Nat
      /\ \A v \in j.page : v.changed_at \in Nat
  BY DEF Sane, TypeOK, Job, Version, Instant
<1>5. ASSUME j.newest >= watermark \/ \E v \in j.page : v.changed_at >= watermark
      PROVE  job'[r].newest >= watermark \/ \E v \in job'[r].page : v.changed_at >= watermark
  BY <1>2, <1>3, <1>4, <1>5
<1>6. \A e \in Event : ToCome(j, e) => ToCome(job[r], e)'
  BY <1>3 DEF ToCome, Wanted, Rank, DayOf, providerVars
<1>. QED BY <1>3, <1>5, <1>6 DEF Ahead, providerVars

\* A page has the event that is to come, or there is more.
LEMMA PagedAhead ==
  ASSUME Sane, NEW r \in Run, Ahead(job[r]), WantsPage(r),
         NEW S \in SUBSET Matching(r), NEW last \in Nat,
         IsPage(S, Matching(r)),
         last \in {Rank(e) : e \in S} \cup {job[r].cursor}
  PROVE  Ahead(Paged(r, S, last))
<1>. DEFINE j == Paged(r, S, last)
<1>1. job[r] \in Job /\ job[r].page = {} /\ TypeOK
  BY DEF Sane, TypeOK, WantsPage
<1>2. /\ j.page = {[id |-> e, changed_at |-> source[e]] : e \in S}
      /\ j.more = (S # Matching(r))
      /\ j.cursor = last
      /\ j.since = job[r].since
      /\ j.newest = job[r].newest
  BY <1>1 DEF Paged, Job
<1>. HIDE DEF j
<1>3. ASSUME NEW e \in Event, ToCome(job[r], e), source[e] >= watermark
      PROVE  \/ \E v \in j.page : v.changed_at >= watermark
             \/ j.more /\ ToCome(j, e)
  <2>1. e \in Matching(r)
    BY <1>3 DEF ToCome, Wanted, Matching, Asked
  <2>2. CASE e \in S
    <3>. DEFINE v == [id |-> e, changed_at |-> source[e]]
    <3>1. v \in j.page
      BY <1>2, <2>2
    <3>2. v.changed_at >= watermark
      BY <1>3
    <3>. QED BY <3>1, <3>2
  <2>3. CASE e \notin S
    <3>1. \A d \in S : Rank(d) < Rank(e)
      BY <2>1, <2>3 DEF IsPage
    <3>2. Rank(e) > last
      BY <1>3, <3>1, <1>1, RankType DEF ToCome, Matching, Job
    <3>. QED BY <1>2, <1>3, <2>1, <2>3, <3>2 DEF ToCome, Wanted
  <2>. QED BY <2>2, <2>3
<1>4. \/ watermark > 0 => job[r].newest >= watermark
      \/ \E e \in Event : ToCome(job[r], e) /\ source[e] >= watermark
  BY <1>1 DEF Ahead
<1>5. Ahead(j)
  BY <1>2, <1>3, <1>4 DEF Ahead
<1>. QED BY <1>5 DEF j

\* A step that changes nothing an outlook depends on.
LEMMA SameAhead ==
  ASSUME NEW r \in Run, Ahead(job[r]), UNCHANGED <<providerVars, watermark>>,
         /\ job'[r].page = job[r].page /\ job'[r].newest = job[r].newest
         /\ job'[r].since = job[r].since /\ job'[r].cursor = job[r].cursor
         /\ job'[r].more = job[r].more
  PROVE  Ahead(job[r])'
  BY DEF Ahead, ToCome, Wanted, Rank, DayOf, providerVars

Watching == \A r \in Run : Undisturbed(r) => Ahead(job[r])

LEMMA StepAhead ==
  ASSUME Inv, Backed, Watching, [Next]_vars
  PROVE  Watching'
<1>. SUFFICES ASSUME NEW r \in Run, Undisturbed(r)' PROVE Ahead(job[r])'
  BY DEF Watching, Undisturbed, Active
<1>a. Sane /\ TypeOK /\ job \in [Run -> Job]
  BY DEF Inv, Sane, TypeOK
<1>b. Idle.pc = "idle"
  BY DEF Idle
<1>c. Undisturbed(r) => Ahead(job[r])
  BY DEF Watching
<1>0. CASE UNCHANGED vars
  BY <1>0, <1>c, SameAhead DEF vars, metadata, Undisturbed, Active
<1>1. ASSUME NEW e \in Event, Change(e) PROVE Ahead(job[r])'
  <2>1. job'[r] = job[r]
    BY <1>1, <1>a DEF Change, Disturb, Undisturbed, Active, Job
  <2>2. Undisturbed(r)
    BY <2>1 DEF Undisturbed, Active
  <2>. QED BY <1>1, <1>a, <1>c, <2>1, <2>2, ChangeAhead
<1>2. ASSUME NEW q \in Run, NEW full \in BOOLEAN, Begin(q, full) PROVE Ahead(job[r])'
  <2>1. q \notin Active
    BY <1>2 DEF Begin, Locked
  <2>2. r = q
    BY <1>2, <1>a, <2>1 DEF Begin, Start, Locked, Disturb, Undisturbed, Active, Job, Idle
  <2>. QED BY <1>2, <1>a, <2>2, BeginAhead
<1>3. ASSUME NEW q \in Run, MarkRunning(q) PROVE Ahead(job[r])'
  <2>1. Undisturbed(r)
    BY <1>3, <1>a DEF MarkRunning, Undisturbed, Active, Job
  <2>. QED BY <1>3, <1>a, <1>c, <2>1, SameAhead DEF MarkRunning, Job
<1>4. ASSUME NEW q \in Run, GetPage(q) PROVE Ahead(job[r])'
  <2>1. PICK S \in SUBSET Matching(q), last \in Nat :
          /\ IsPage(S, Matching(q))
          /\ last \in {Rank(e) : e \in S} \cup {job[q].cursor}
          /\ Paged(q, S, last) \in Job
          /\ Collect(q, Paged(q, S, last))
    BY <1>4, <1>a, GetPageFacts
  <2>2. Paged(q, S, last).pc = job[q].pc /\ Paged(q, S, last).alone = job[q].alone
    BY <1>a DEF Paged, Job
  <2>3. Undisturbed(r) /\ q \in Active
    BY <1>4, <1>a, <2>1, <2>2 DEF Collect, Undisturbed, Active, Job, GetPage, WantsPage
  <2>4. q = r
    BY <2>3, OnlyOne
  <2>5. WantsPage(r) /\ UNCHANGED <<providerVars, watermark>>
    BY <1>4, <2>4 DEF GetPage, metadata
  <2>6. Ahead(Paged(r, S, last))
    BY <1>a, <1>c, <2>1, <2>3, <2>4, <2>5, PagedAhead
  <2>. QED BY <1>a, <2>1, <2>4, <2>5, <2>6, CollectAhead
<1>5. ASSUME NEW q \in Run, Flush(q) PROVE Ahead(job[r])'
  <2>. DEFINE j == [job[q] EXCEPT !.batch = {}]
  <2>1. /\ j \in Job /\ j.pc = job[q].pc /\ j.alone = job[q].alone /\ Collect(q, j)
        /\ j.page = job[q].page /\ j.newest = job[q].newest /\ j.since = job[q].since
        /\ j.cursor = job[q].cursor /\ j.more = job[q].more
    BY <1>5, <1>a DEF Flush, Job
  <2>. HIDE DEF j
  <2>2. Undisturbed(r) /\ q \in Active
    BY <1>5, <1>a, <2>1 DEF Collect, Undisturbed, Active, Job, Flush
  <2>3. q = r
    BY <2>2, OnlyOne
  <2>4. UNCHANGED <<providerVars, watermark>>
    BY <1>5 DEF Flush, metadata
  <2>5. Ahead(j)
    BY <1>c, <2>1, <2>2, <2>3 DEF Ahead, ToCome, Wanted
  <2>. QED BY <1>a, <2>1, <2>3, <2>4, <2>5, CollectAhead
<1>6. ASSUME NEW q \in Run,
             TooManyPages(q) \/ FlushRefused(q) \/ MarkSuccess(q) \/ MarkFailure(q) \/ Fails(q) \/ MarkFails(q)
      PROVE  Ahead(job[r])'
  <2>1. q \in Active /\ (job'[q].pc = "failing" \/ job'[q].pc = "idle")
    BY <1>6, <1>a, <1>b DEF TooManyPages, WantsPage, FlushRefused, MarkSuccess, Fetched, MarkFailure,
                            Fails, MarkFails, Active, Job
  <2>2. r # q /\ job'[r] = job[r]
    BY <1>6, <1>a, <2>1 DEF TooManyPages, FlushRefused, MarkSuccess, MarkFailure, Fails, MarkFails,
                            Undisturbed, Active
  <2>. QED BY <2>1, <2>2, OnlyOne DEF Undisturbed, Active
<1>7. ASSUME NEW p \in Process, Crash(p) PROVE Ahead(job[r])'
  <2>1. job'[r] = job[r]
    BY <1>7, <1>a, <1>b DEF Crash, Undisturbed, Active
  <2>. QED BY <1>7, <1>c, <2>1, SameAhead DEF Crash, Undisturbed, Active, metadata
<1>. QED
  BY <1>0, <1>1, <1>2, <1>3, <1>4, <1>5, <1>6, <1>7 DEF Next, Step, AlreadyRunning, vars

\* While every synchronisation under way is undisturbed, full and incremental
\* ones, empty ones and failures included, the watermark never goes back.
THEOREM WatermarkOnlyAdvances == Spec => WatermarkNeverBack
<1>1. Init => Inv /\ Backed /\ Watching
  <2>1. Init => Backed /\ Watching
    BY DEF Init, Backed, Reached, Idle, Watching, Undisturbed, Active
  <2>. QED BY <2>1, InitInv
<1>2. Inv /\ Backed /\ Watching /\ [Next]_vars => (Inv /\ Backed /\ Watching)'
  <2>1. Inv => Sane
    BY DEF Inv
  <2>. QED BY <2>1, StepInv, StepBacked, StepAhead
<1>3. Inv /\ Watching /\ [Next]_vars =>
        [(\A r \in Active : job[r].alone) => watermark' >= watermark]_vars
  <2>. SUFFICES ASSUME Inv, Watching, [Next]_vars, \A r \in Active : job[r].alone
                PROVE  watermark' >= watermark
    OBVIOUS
  <2>1. watermark \in Nat /\ \A r \in Run : job[r].newest \in Nat
    BY DEF Inv, Sane, TypeOK, Job, Instant
  <2>2. CASE watermark' = watermark
    BY <2>1, <2>2
  <2>3. CASE watermark' # watermark
    <3>1. PICK r \in Run : MarkSuccess(r)
      BY <2>3 DEF Next, Step, vars, metadata, AlreadyRunning, Change, Begin, Start, MarkRunning,
                  GetPage, TooManyPages, Flush, FlushRefused, MarkFailure, Fails, MarkFails, Crash
    <3>2. Undisturbed(r) /\ job[r].page = {} /\ ~job[r].more
      BY <3>1 DEF MarkSuccess, Fetched, Undisturbed, Active
    <3>3. watermark > 0 => job[r].newest >= watermark
      BY <3>2 DEF Watching, Ahead
    <3>4. watermark' = IF job[r].newest = 0 THEN job[r].since ELSE job[r].newest
      BY <3>1 DEF MarkSuccess, NewWatermark
    <3>5. job[r].since \in Nat
      BY DEF Inv, Sane, TypeOK, Job, Instant
    <3>. QED BY <2>1, <3>3, <3>4, <3>5
  <2>. QED BY <2>2, <2>3
<1>. QED BY <1>1, <1>2, <1>3, PTL DEF Spec, WatermarkNeverBack

=============================================================================
