------------------------------- MODULE Process -------------------------------
(***************************************************************************)
(* One worker process as a whole: its requests and background tasks share  *)
(* the connections of the database pool (db/session.py), wait for advisory *)
(* locks and for the two upstream services with a connection in hand, and  *)
(* are wound up by the lifespan of main.py before the HTTP clients close.  *)
(*                                                                         *)
(* A task is the sequence of what it waits for.  What it reads and writes  *)
(* is in the modules Tickets, Seats, Sync and Outbox.                      *)
(***************************************************************************)
EXTENDS Naturals, Sequences, FiniteSets

CONSTANTS
  Clicks,       \* sets of registrations, those of a set with one idempotency key
  Cancellation, \* requests that cancel a registration
  Lookup,       \* requests for the free seats of an event
  Trigger,      \* requests for a synchronisation
  PoolSize      \* pool_size + max_overflow

Registration == UNION Clicks
Request == Registration \union Cancellation \union Lookup \union Trigger
Publisher == "publisher"
Initial == "initial_sync"
Daily == "daily_sync"
Syncing == Trigger \union {Initial, Daily}
Task == Request \union {Publisher, Initial, Daily}

ASSUME PoolAssumption == PoolSize \in Nat \ {0}
\* The kinds of task are disjoint.
ASSUME KindAssumption ==
  /\ Registration \intersect (Cancellation \union Lookup \union Trigger) = {}
  /\ Cancellation \intersect (Lookup \union Trigger) = {}
  /\ Lookup \intersect Trigger = {}
  /\ Request \intersect {Publisher, Initial, Daily} = {}

VARIABLES
  phase,     \* how far the lifespan is
  at,        \* at[t]: the step the task t is at, 0 when it does not run
  connected, \* tasks that have a connection
  locked,    \* registrations that hold the advisory lock of their key
  cancelled  \* tasks that are being cancelled

vars == <<phase, at, connected, locked, cancelled>>

\* The session is opened by the first step at the database; a commit gives its
\* connection back.  One page of events, two posts of a batch.
Registering == <<"lock", "sql", "provider", "provider", "commit">>
Cancelling == <<"sql", "provider", "commit">>
LookingUp == <<"sql", "provider">>
Publishing == <<"sql", "capashino", "commit", "capashino", "commit">>
Synchronising == <<"commit", "provider", "commit", "commit">>

Program(t) ==
  CASE t \in Registration -> Registering
    [] t \in Cancellation -> Cancelling
    [] t \in Lookup -> LookingUp
    [] t = Publisher -> Publishing
    [] OTHER -> Synchronising

Steps(t) == Len(Program(t))
Running(t) == at[t] # 0
Op(t) == Program(t)[at[t]]
NeedsConnection(t) ==
  Running(t) /\ t \notin connected /\ Op(t) \in {"lock", "sql", "commit"}
PoolUsedUp == Cardinality(connected) >= PoolSize

\* pg_advisory_xact_lock, of whichever registration has the same key.
Blocked(t) == \E k \in Clicks : t \in k /\ k \intersect locked # {}

Stopping == phase \notin {"serving", "draining"}
CapashinoClosed == phase \in {"half_closed", "closed"}
ProviderClosed == phase = "closed"

TypeOK ==
  /\ phase \in {"serving", "draining", "stopping", "cancelling", "awaiting",
                "closing", "half_closed", "closed"}
  /\ at \in [Task -> Nat]
  /\ \A t \in Task : at[t] <= Steps(t)
  /\ connected \subseteq Task
  /\ locked \subseteq Registration
  /\ cancelled \subseteq Task

\* lifespan up to the yield: the first synchronisation is under way.
Init ==
  /\ phase = "serving"
  /\ at = [t \in Task |-> IF t = Initial THEN 1 ELSE 0]
  /\ connected = {}
  /\ locked = {}
  /\ cancelled = {}

-----------------------------------------------------------------------------
(* A task.                                                                 *)

Release(t) ==
  /\ connected' = connected \ {t}
  /\ locked' = locked \ {t}

\* Variant: a session that nobody closes.
EndLeaking(t) ==
  /\ at' = [at EXCEPT ![t] = 0]
  /\ locked' = locked \ {t}
  /\ cancelled' = cancelled \ {t}
  /\ UNCHANGED <<phase, connected>>

\* The response, the exception, the end of the iteration: the session closes.
End(t) ==
  /\ at' = [at EXCEPT ![t] = 0]
  /\ Release(t)
  /\ cancelled' = cancelled \ {t}
  /\ UNCHANGED phase

Advance(t) == at' = [at EXCEPT ![t] = @ + 1]

Ready(t) == Running(t) /\ t \notin cancelled /\ ~NeedsConnection(t)

\* sync: a run that finds another under way gives up at once.
Arrive(r) ==
  /\ phase = "serving"
  /\ ~Running(r)
  /\ r \in Trigger => \A s \in Syncing : ~Running(s)
  /\ at' = [at EXCEPT ![r] = 1]
  /\ UNCHANGED <<phase, connected, locked, cancelled>>

\* periodic_sync.
DailySync ==
  /\ ~Stopping
  /\ \A s \in Syncing : ~Running(s)
  /\ at' = [at EXCEPT ![Daily] = 1]
  /\ UNCHANGED <<phase, connected, locked, cancelled>>

\* while not self._stop.is_set().
Poll ==
  /\ ~Stopping
  /\ ~Running(Publisher)
  /\ at' = [at EXCEPT ![Publisher] = 1]
  /\ UNCHANGED <<phase, connected, locked, cancelled>>

Connect(t) ==
  /\ NeedsConnection(t)
  /\ t \notin cancelled
  /\ ~PoolUsedUp
  /\ connected' = connected \union {t}
  /\ UNCHANGED <<phase, at, locked, cancelled>>

Lock(t) ==
  /\ Ready(t)
  /\ Op(t) = "lock"
  /\ ~Blocked(t)
  /\ locked' = locked \union {t}
  /\ Advance(t)
  /\ UNCHANGED <<phase, connected, cancelled>>

\* A query, or a call to a service that is answered.
Wait(t) ==
  /\ Ready(t)
  /\ Op(t) \in {"sql", "provider", "capashino"}
  /\ IF at[t] = Steps(t)
       THEN End(t)
       ELSE Advance(t) /\ UNCHANGED <<phase, connected, locked, cancelled>>

\* Variant: pg_advisory_lock, which belongs to the session.
CommitKeepingLock(t) ==
  /\ Ready(t)
  /\ Op(t) = "commit"
  /\ at' = [at EXCEPT ![t] = IF @ = Steps(t) THEN 0 ELSE @ + 1]
  /\ connected' = connected \ {t}
  /\ UNCHANGED <<phase, locked, cancelled>>

Commit(t) ==
  /\ Ready(t)
  /\ Op(t) = "commit"
  /\ at' = [at EXCEPT ![t] = IF @ = Steps(t) THEN 0 ELSE @ + 1]
  /\ Release(t)
  /\ UNCHANGED <<phase, cancelled>>

\* An early return; a query or a call that fails; pool_timeout while it waits
\* for a connection.  A synchronisation notes its failure before it ends.
Fail(t) ==
  /\ Running(t)
  /\ t \notin cancelled
  /\ IF t \in Syncing /\ at[t] \in 2 .. Steps(t) - 1
       THEN /\ at' = [at EXCEPT ![t] = Steps(t)]
            /\ Release(t)
            /\ UNCHANGED <<phase, cancelled>>
       ELSE End(t)

\* CancelledError is no Exception: nothing catches it on the way out.
Unwind(t) ==
  /\ t \in cancelled
  /\ End(t)

-----------------------------------------------------------------------------
(* The lifespan after the yield.                                           *)

\* SIGTERM: the server takes no more requests.
Terminate ==
  /\ phase = "serving"
  /\ phase' = "draining"
  /\ UNCHANGED <<at, connected, locked, cancelled>>

\* Variant: an executor that leaves the running job alone.
StopLeavingDaily ==
  /\ phase = "draining"
  /\ \A r \in Request : ~Running(r)
  /\ phase' = "stopping"
  /\ UNCHANGED <<at, connected, locked, cancelled>>

\* The requests are done: scheduler.shutdown cancels its job, without waiting
\* for it, and publisher.stop sets the event.
Stop ==
  /\ phase = "draining"
  /\ \A r \in Request : ~Running(r)
  /\ phase' = "stopping"
  /\ cancelled' = cancelled \union {t \in {Daily} : Running(t)}
  /\ UNCHANGED <<at, connected, locked>>

\* The five seconds are over.
PublisherTimeout ==
  /\ phase = "stopping"
  /\ Running(Publisher)
  /\ phase' = "cancelling"
  /\ cancelled' = cancelled \union {Publisher}
  /\ UNCHANGED <<at, connected, locked>>

\* Then initial_sync_task is cancelled if it is not done, and awaited.
PublisherStopped ==
  /\ phase \in {"stopping", "cancelling"}
  /\ ~Running(Publisher)
  /\ phase' = "awaiting"
  /\ cancelled' = cancelled \union {t \in {Initial} : Running(t)}
  /\ UNCHANGED <<at, connected, locked>>

InitialSyncStopped ==
  /\ phase = "awaiting"
  /\ ~Running(Initial)
  /\ phase' = "closing"
  /\ UNCHANGED <<at, connected, locked, cancelled>>

CloseCapashino ==
  /\ phase = "closing"
  /\ phase' = "half_closed"
  /\ UNCHANGED <<at, connected, locked, cancelled>>

CloseProvider ==
  /\ phase = "half_closed"
  /\ phase' = "closed"
  /\ UNCHANGED <<at, connected, locked, cancelled>>

Shutdown == \/ Stop \/ PublisherTimeout \/ PublisherStopped \/ InitialSyncStopped
            \/ CloseCapashino \/ CloseProvider

\* The process is gone.
Exited ==
  /\ phase = "closed"
  /\ \A t \in Task : ~Running(t)
  /\ UNCHANGED vars

GoOn(t) == Connect(t) \/ Lock(t) \/ Wait(t) \/ Commit(t) \/ Unwind(t)

Next ==
  \/ \E r \in Request : Arrive(r)
  \/ DailySync \/ Poll
  \/ \E t \in Task : GoOn(t) \/ Fail(t)
  \/ Terminate \/ Shutdown \/ Exited

\* A query is answered, a call is answered or times out, the event loop gives
\* every task its turn; the pool and the lock manager serve whoever waits in
\* the order they came.  Nobody need fail, give up or arrive.
Fairness ==
  /\ \A t \in Task : SF_vars(GoOn(t))
  /\ WF_vars(Shutdown)

Spec == Init /\ [][Next]_vars /\ Fairness

-----------------------------------------------------------------------------
(* Properties.                                                             *)

\* Nothing runs into a client that is closed -- httpx would raise a
\* RuntimeError, which costs an outbox row an attempt and fails a sync: every
\* task that can still call a service is stopped before aclose.
NoUseAfterClose ==
  \A t \in Task : Running(t) /\ t \notin cancelled =>
    \A n \in at[t] .. Steps(t) :
      /\ Program(t)[n] = "capashino" => ~CapashinoClosed
      /\ Program(t)[n] = "provider" => ~ProviderClosed

CanGoOn(t) ==
  \/ t \in cancelled
  \/ ~NeedsConnection(t) /\ ~(Op(t) = "lock" /\ Blocked(t))

\* Requests keep a connection while they wait for the lock of a key and for the
\* provider: with the pool used up there is still one of them that waits for
\* neither a lock nor another connection.
PoolNeverStuck == PoolUsedUp => \E t \in connected : CanGoOn(t)

\* Every request is answered, however few connections there are and however
\* many retries of one click wait for each other, without anyone giving up.
EveryRequestEnds == \A r \in Request : Running(r) ~> ~Running(r)

\* SIGTERM leads to the end of the lifespan, whatever is under way then.
ShutdownEnds == phase = "draining" ~> phase = "closed"

=============================================================================
