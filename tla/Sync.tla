-------------------------------- MODULE Sync --------------------------------
(***************************************************************************)
(* Copying the provider's events into the local table: services/sync.py,   *)
(* db/repositories/sync.py, EventRepository.upsert_many, EventsPaginator,  *)
(* and who starts a synchronisation (POST /api/sync/trigger, the daily     *)
(* job, the start of the process).                                         *)
(*                                                                         *)
(* Time is the provider's clock, and a version of an event is the instant  *)
(* changed_at it was changed at; 0 stands for "never" and for the date     *)
(* sync_first_date, which come to the same.  The rest of an event is left  *)
(* out: a local row is the version it was copied from.                     *)
(*                                                                         *)
(* A call of sync runs in one of the worker processes.  The class-wide     *)
(* lock keeps the calls of one process apart and knows nothing of others.  *)
(***************************************************************************)
EXTENDS Naturals, FiniteSets

CONSTANTS
  Event,       \* the provider's events, ordered by id
  Run,         \* calls of SyncService.sync that may overlap
  Process,     \* worker processes
  Homes,       \* how calls may be spread over the processes
  DayLength,   \* instants in a day
  BatchSize,   \* settings.sync_batch_size
  MaxPages,    \* EventsPaginator.MAX_PAGES
  MaxChanges,  \* bound: changes of events
  MaxFaults    \* bound: crashes, provider errors, failed commits

ASSUME EventAssumption == Event \subseteq Nat \ {0}
ASSUME HomesAssumption == Homes \subseteq [Run -> Process]
ASSUME SizeAssumption == /\ {DayLength, BatchSize, MaxPages} \subseteq Nat \ {0}
                         /\ {MaxChanges, MaxFaults} \subseteq Nat

VARIABLES
  byChange,   \* provider: whether it lists by changed_at or by id
  source,     \* provider: source[e] is the changed_at of e, 0 before e exists
  now,        \* provider: the last instant at which something changed
  stored,     \* events table: the version of e that is stored, or 0
  watermark,  \* sync_metadata.last_changed_at
  status,     \* sync_metadata.sync_status
  home,       \* home[r]: the process the call r comes to
  job,        \* job[r]: the state of the call r
  trusted,    \* history: see Disturb
  faults      \* history: faults so far

providerVars == <<byChange, source, now>>
metadata == <<watermark, status>>
vars == <<providerVars, stored, metadata, home, job, trusted, faults>>

Instant == 0 .. MaxChanges
Version == [id : Event, changed_at : Instant]

\* Between two calls a job has no state of its own.  "alone" is history.
Idle == [pc |-> "idle", since |-> 0, cursor |-> 0, pages |-> 0, page |-> {},
         more |-> TRUE, batch |-> {}, newest |-> 0, alone |-> TRUE]

Job == [pc : {"idle", "starting", "fetching", "failing"}, since : Instant,
        cursor : Nat, pages : 0 .. MaxPages, page : SUBSET Version,
        more : BOOLEAN, batch : SUBSET Version, newest : Instant, alone : BOOLEAN]

TypeOK ==
  /\ byChange \in BOOLEAN
  /\ source \in [Event -> Instant]
  /\ now \in Instant
  /\ stored \in [Event -> Instant]
  /\ watermark \in Instant
  /\ status \in {"idle", "running", "success", "failed"}
  /\ home \in Homes
  /\ job \in [Run -> Job]
  /\ \A r \in Run : Cardinality(job[r].batch) <= BatchSize
  /\ trusted \in BOOLEAN
  /\ faults \in 0 .. MaxFaults

Init ==
  /\ byChange \in BOOLEAN
  /\ source = [e \in Event |-> 0]
  /\ now = 0
  /\ stored = [e \in Event |-> 0]
  /\ watermark = 0
  /\ status = "idle"
  /\ home \in Homes
  /\ job = [r \in Run |-> Idle]
  /\ trusted = TRUE
  /\ faults = 0

DayOf(t) == t \div DayLength

Active == {r \in Run : job[r].pc # "idle"}

\* SyncService._lock.locked() in the process of r.
Locked(r) == \E q \in Active : home[q] = home[r]

\* History: the calls of R lose their undisturbed view, and nothing vouches for
\* the watermark until a full synchronisation has run alone.
Disturb(jobs, R) ==
  /\ job' = [r \in Run |-> IF r \in R THEN [jobs[r] EXCEPT !.alone = FALSE] ELSE jobs[r]]
  /\ trusted' = (trusted /\ R = {})

-----------------------------------------------------------------------------
(* The provider.                                                           *)

\* An event appears or changes, at an instant of its own; none ever disappears,
\* so what is listed does not shrink.  A provider that lists by id disturbs whom
\* it is listing to when the day changes.
Change(e) ==
  /\ now < MaxChanges
  /\ now' = now + 1
  /\ source' = [source EXCEPT ![e] = now']
  /\ Disturb(job, IF byChange \/ DayOf(now') = DayOf(now) THEN {} ELSE Active)
  /\ UNCHANGED <<byChange, stored, metadata, home, faults>>

Rank(e) == IF byChange THEN source[e] ELSE e

\* changed_at.date(): the filter only has the day.
Asked(r, e) == source[e] > 0 /\ DayOf(source[e]) >= DayOf(job[r].since)

\* What is left to list: the next link carries the filter and a position.
Matching(r) == {e \in Event : Asked(r, e) /\ Rank(e) > job[r].cursor}

\* S is what a page shows of the events R; how many is up to the provider.
IsPage(S, R) ==
  /\ S \subseteq R
  /\ \A d \in S, e \in R \ S : Rank(d) < Rank(e)
  /\ R # {} => S # {}

-----------------------------------------------------------------------------
(* SyncService.sync: the lock, the metadata row, then page after page.     *)

Start(r, full) ==
  /\ Disturb([job EXCEPT ![r] = [Idle EXCEPT !.pc = "starting",
                                             !.since = IF full THEN 0 ELSE watermark]],
             LET others == {q \in Active : home[q] # home[r]}
             IN IF others = {} THEN {} ELSE others \cup {r})
  /\ UNCHANGED <<providerVars, stored, metadata, home, faults>>

\* Variant: nobody asks whether a synchronisation is running.
BeginUnlocked(r, full) == job[r].pc = "idle" /\ Start(r, full)

\* Variant: a row that says "running" is believed.
BeginUnlessRunning(r, full) ==
  ~Locked(r) /\ IF status = "running" THEN UNCHANGED vars ELSE Start(r, full)

\* The lock is free and the row is read.
Begin(r, full) == ~Locked(r) /\ Start(r, full)

\* SyncAlreadyRunning: 409, or a warning of the daily job.
AlreadyRunning(r) ==
  /\ job[r].pc = "idle"
  /\ Locked(r)
  /\ UNCHANGED vars

MarkRunning(r) ==
  /\ job[r].pc = "starting"
  /\ status' = "running"
  /\ job' = [job EXCEPT ![r].pc = "fetching"]
  /\ UNCHANGED <<providerVars, stored, watermark, home, trusted, faults>>

\* The generator is asked for another page once the last one is used up.
WantsPage(r) ==
  /\ job[r].pc = "fetching"
  /\ job[r].page = {} /\ job[r].more
  /\ Cardinality(job[r].batch) < BatchSize

\* Variant: one page too many.
PagesLeftOffByOne(r) == job[r].pages <= MaxPages

PagesLeft(r) == job[r].pages < MaxPages

\* The loop over the events of a page runs on until the batch is full or the
\* page used up; in which order a page lists does not matter.
Collect(r, j) ==
  \E T \in SUBSET j.page : \E n \in {j.newest} \cup {v.changed_at : v \in T} :
    /\ Cardinality(j.batch \cup T) <= BatchSize
    /\ T = j.page \/ Cardinality(j.batch \cup T) = BatchSize
    /\ n >= j.newest
    /\ \A v \in T : n >= v.changed_at
    /\ job' = [job EXCEPT ![r] = [j EXCEPT !.page = @ \ T,
                                           !.batch = @ \cup T,
                                           !.newest = n]]

GetPage(r) ==
  /\ WantsPage(r)
  /\ PagesLeft(r)
  /\ \E S \in SUBSET Matching(r) :
       /\ IsPage(S, Matching(r))
       /\ \E last \in {Rank(e) : e \in S} \cup {job[r].cursor} :
            /\ \A e \in S : Rank(e) <= last
            /\ Collect(r, [job[r] EXCEPT
                 !.page = {[id |-> e, changed_at |-> source[e]] : e \in S},
                 !.more = (S # Matching(r)),
                 !.pages = @ + 1,
                 !.cursor = last])
  /\ UNCHANGED <<providerVars, stored, metadata, home, trusted, faults>>

TooManyPages(r) ==
  /\ WantsPage(r)
  /\ ~PagesLeft(r)
  /\ job' = [job EXCEPT ![r].pc = "failing"]
  /\ UNCHANGED <<providerVars, stored, metadata, home, trusted, faults>>

FlushDue(r) ==
  \/ Cardinality(job[r].batch) = BatchSize
  \/ job[r].page = {} /\ ~job[r].more /\ job[r].batch # {}

\* One INSERT ... ON CONFLICT DO UPDATE, which takes whatever it is given but
\* refuses to touch a row twice.
Repeats(batch) == \E v, w \in batch : v.id = w.id /\ v # w

Upserted(batch) ==
  [e \in Event |-> IF \E v \in batch : v.id = e
                     THEN (CHOOSE v \in batch : v.id = e).changed_at
                     ELSE stored[e]]

Flush(r) ==
  /\ job[r].pc = "fetching"
  /\ FlushDue(r)
  /\ ~Repeats(job[r].batch)
  /\ stored' = Upserted(job[r].batch)
  /\ Collect(r, [job[r] EXCEPT !.batch = {}])
  /\ UNCHANGED <<providerVars, metadata, home, trusted, faults>>

FlushRefused(r) ==
  /\ job[r].pc = "fetching"
  /\ FlushDue(r)
  /\ Repeats(job[r].batch)
  /\ job' = [job EXCEPT ![r].pc = "failing"]
  /\ UNCHANGED <<providerVars, stored, metadata, home, trusted, faults>>

\* _fetch_and_store has returned.
Fetched(r) ==
  /\ job[r].pc = "fetching"
  /\ job[r].page = {} /\ ~job[r].more
  /\ ~FlushDue(r)

\* max_changed_at or changed_at.
NewWatermark(r) == IF job[r].newest = 0 THEN job[r].since ELSE job[r].newest

\* History: a full synchronisation that ran alone restores trust.
MarkSuccess(r) ==
  /\ Fetched(r)
  /\ status' = "success"
  /\ watermark' = NewWatermark(r)
  /\ job' = [job EXCEPT ![r] = Idle]
  /\ trusted' = (trusted \/ (job[r].alone /\ job[r].since = 0))
  /\ UNCHANGED <<providerVars, stored, home, faults>>

\* Variant: what was fetched before the failure counts.
MarkFailureKeepingProgress(r) ==
  /\ job[r].pc = "failing"
  /\ status' = "failed"
  /\ watermark' = NewWatermark(r)
  /\ job' = [job EXCEPT ![r] = Idle]
  /\ UNCHANGED <<providerVars, stored, home, trusted, faults>>

MarkFailure(r) ==
  /\ job[r].pc = "failing"
  /\ status' = "failed"
  /\ job' = [job EXCEPT ![r] = Idle]
  /\ UNCHANGED <<providerVars, stored, watermark, home, trusted, faults>>

-----------------------------------------------------------------------------
(* What goes wrong.                                                        *)

Fault ==
  /\ faults < MaxFaults
  /\ faults' = faults + 1

\* A page that does not arrive, or an upsert that raises; the upsert may have
\* been committed nevertheless.
Fails(r) ==
  /\ job[r].pc = "fetching" /\ ~Fetched(r)
  /\ Fault
  /\ \/ UNCHANGED stored
     \/ FlushDue(r) /\ ~Repeats(job[r].batch) /\ stored' = Upserted(job[r].batch)
  /\ job' = [job EXCEPT ![r].pc = "failing"]
  /\ UNCHANGED <<providerVars, metadata, home, trusted>>

\* The metadata row cannot be written: mark_running and mark_success are outside
\* the try, mark_failure is not retried, and the row keeps what it said.
MarkFails(r) ==
  /\ job[r].pc \in {"starting", "failing"} \/ Fetched(r)
  /\ Fault
  /\ job' = [job EXCEPT ![r] = Idle]
  /\ UNCHANGED <<providerVars, stored, metadata, home, trusted>>

\* A process dies, or its shutdown cancels the synchronisation.
Crash(p) ==
  /\ \E r \in Active : home[r] = p
  /\ Fault
  /\ job' = [r \in Run |-> IF home[r] = p THEN Idle ELSE job[r]]
  /\ UNCHANGED <<providerVars, stored, metadata, home, trusted>>

-----------------------------------------------------------------------------
Step(r) ==
  \/ MarkRunning(r) \/ GetPage(r) \/ TooManyPages(r)
  \/ Flush(r) \/ FlushRefused(r) \/ MarkSuccess(r) \/ MarkFailure(r)

Next ==
  \/ \E e \in Event : Change(e)
  \/ \E r \in Run : \/ \E full \in BOOLEAN : Begin(r, full)
                    \/ AlreadyRunning(r)
                    \/ Step(r)
                    \/ Fails(r) \/ MarkFails(r)
  \/ \E p \in Process : Crash(p)

Spec == Init /\ [][Next]_vars

(* The daily job starts a synchronisation when none is running, calls and  *)
(* statements return, and nobody has to press the trigger.                 *)
Fairness ==
  /\ WF_vars(\E r \in Run : Begin(r, FALSE))
  /\ \A r \in Run : WF_vars(Step(r))

FairSpec == Spec /\ Fairness

-----------------------------------------------------------------------------
(* Properties.                                                             *)

\* An incremental synchronisation will not ask for e again.
OutOfReach(e) == 0 < source[e] /\ DayOf(source[e]) < DayOf(watermark)

\* README "Последующие — только события, изменённые после last_changed_at":
\* the watermark has left no version behind that is not stored, whatever
\* changed or failed meanwhile.  Synchronisations of two processes at once, or
\* midnight under a provider that lists by id, void this until a full
\* synchronisation has run alone -- which is enough to repair everything.
NothingSkipped ==
  trusted => \A e \in Event : OutOfReach(e) => stored[e] = source[e]

\* The upsert has no guard on changed_at, so it is the lock alone that keeps
\* an older version from replacing a newer one, and only in its process.
NeverBackwards ==
  [][(\A r \in Active : job[r].alone) =>
       \A e \in Event : stored'[e] >= stored[e]]_vars

\* mark_success writes the newest changed_at it saw over the watermark without a
\* look at what is there.  While no call is disturbed by another process that
\* sets nothing back: a full run sees everything, and an incremental one asks for
\* the day of the watermark again, so that it comes up with its event or later.
\* It rests on events staying with the provider (see Change): a full listing that
\* has lost its newest event, or all of them, does set the watermark back.
WatermarkNeverBack ==
  [][(\A r \in Active : job[r].alone) => watermark' >= watermark]_vars

\* When the provider has come to rest the copy becomes exact and stays so,
\* whatever was cut short before and whatever the metadata row was left saying --
\* provided that nothing has disturbed the watermark, or that each time something
\* did, a full synchronisation (trigger?full=true) has run alone to its end since.
\* The code never starts one by itself: until somebody does, what two processes
\* left behind the watermark stays lost.
Converges == []<>trusted => <>[](stored = source)

=============================================================================
