---------------------------- MODULE ProcessProofs ----------------------------
(***************************************************************************)
(* No task calls a closed client and the pool is never stuck, for any      *)
(* number of requests and connections and any sharing of keys.             *)
(***************************************************************************)
EXTENDS Process, FiniteSetTheorems, TLAPS

\* Who has something runs, and who holds a lock holds a connection and has
\* got past the wait for the lock.
Holding ==
  /\ \A t \in connected : Running(t)
  /\ \A t \in locked : t \in connected /\ at[t] >= 2

PublisherGone == phase \in {"awaiting", "closing", "half_closed", "closed"}

\* What the lifespan has stopped by now.
Stopped ==
  /\ Stopping => \A r \in Request : ~Running(r)
  /\ Stopping /\ Running(Daily) => Daily \in cancelled
  /\ PublisherGone => ~Running(Publisher)
  /\ PublisherGone /\ Running(Initial) => Initial \in cancelled

Inv == TypeOK /\ Holding /\ Stopped

-----------------------------------------------------------------------------

\* The tasks of the process itself are none of the requests.
LEMMA Kinds ==
  /\ Publisher \notin Request /\ Initial \notin Request /\ Daily \notin Request
  /\ Registration \subseteq Request /\ Request \subseteq Task
  /\ Publisher \in Task /\ Initial \in Task /\ Daily \in Task
  /\ Publisher # Initial /\ Publisher # Daily /\ Initial # Daily
BY KindAssumption DEF Publisher, Initial, Daily, Request, Task

\* Every program has steps.
LEMMA Programs == \A t \in Task : Steps(t) \in Nat /\ Steps(t) >= 2
<1> SUFFICES ASSUME NEW t \in Task PROVE Steps(t) \in Nat /\ Steps(t) >= 2
  OBVIOUS
<1>1. CASE t \in Registration
  BY <1>1 DEF Steps, Program, Registering, Cancelling, LookingUp,
             Publishing, Synchronising
<1>2. CASE t \notin Registration /\ t \in Cancellation
  BY <1>2 DEF Steps, Program, Registering, Cancelling, LookingUp,
             Publishing, Synchronising
<1>3. CASE t \notin Registration /\ t \notin Cancellation /\ t \in Lookup
  BY <1>3 DEF Steps, Program, Registering, Cancelling, LookingUp,
             Publishing, Synchronising
<1>4. CASE t \notin Registration /\ t \notin Cancellation /\ t \notin Lookup
           /\ t = Publisher
  BY <1>4 DEF Steps, Program, Registering, Cancelling, LookingUp,
             Publishing, Synchronising
<1>5. CASE t \notin Registration /\ t \notin Cancellation /\ t \notin Lookup
           /\ t # Publisher
  BY <1>5 DEF Steps, Program, Registering, Cancelling, LookingUp,
             Publishing, Synchronising
<1> QED BY <1>1, <1>2, <1>3, <1>4, <1>5

\* A registration waits for its lock in its first step.
LEMMA PastTheLock ==
  ASSUME NEW t \in Registration, at[t] \in 2 .. Steps(t)
  PROVE  Op(t) # "lock"
BY DEF Op, Steps, Program, Registering, Cancelling, LookingUp,
             Publishing, Synchronising

\* Nobody else waits for a lock.
LEMMA AtTheLock ==
  ASSUME NEW t \in Task, at[t] \in 1 .. Steps(t), Op(t) = "lock"
  PROVE  t \in Registration /\ at[t] = 1
<1>1. CASE t \in Registration
  BY <1>1, PastTheLock, Programs
<1>2. CASE t \notin Registration /\ t \in Cancellation
  BY <1>2 DEF Op, Steps, Program, Registering, Cancelling, LookingUp,
             Publishing, Synchronising
<1>3. CASE t \notin Registration /\ t \notin Cancellation /\ t \in Lookup
  BY <1>3 DEF Op, Steps, Program, Registering, Cancelling, LookingUp,
             Publishing, Synchronising
<1>4. CASE t \notin Registration /\ t \notin Cancellation /\ t \notin Lookup
           /\ t = Publisher
  BY <1>4 DEF Op, Steps, Program, Registering, Cancelling, LookingUp,
             Publishing, Synchronising
<1>5. CASE t \notin Registration /\ t \notin Cancellation /\ t \notin Lookup
           /\ t # Publisher
  BY <1>5 DEF Op, Steps, Program, Registering, Cancelling, LookingUp,
             Publishing, Synchronising
<1> QED BY <1>1, <1>2, <1>3, <1>4, <1>5

LEMMA InitInv == Init => Inv
BY Kinds, Programs
   DEF Init, Inv, TypeOK, Holding, Stopped, Stopping, Running, PublisherGone

\* The end of a task disturbs nothing.
LEMMA EndInv ==
  ASSUME Inv, NEW t \in Task, End(t)
  PROVE  Inv'
<1> USE DEF Inv
<1>1. TypeOK'
  BY Programs DEF End, Release, TypeOK
<1>2. Holding'
  BY DEF End, Release, TypeOK, Holding, Running
<1>3. Stopped'
  BY Kinds DEF End, Release, TypeOK, Stopped, Stopping, Running, PublisherGone
<1> QED BY <1>1, <1>2, <1>3

\* A task that starts does so before the lifespan has stopped its kind.
LEMMA StartInv ==
  ASSUME Inv, NEW t \in Task, at' = [at EXCEPT ![t] = 1],
         UNCHANGED <<phase, connected, locked, cancelled>>,
         ~Stopping, ~Running(t)
  PROVE  Inv'
<1> USE DEF Inv
<1>1. TypeOK'
  BY Programs DEF TypeOK
<1>2. Holding'
  BY DEF TypeOK, Holding, Running
<1>3. Stopped'
  BY DEF TypeOK, Stopped, Stopping, Running, PublisherGone
<1> QED BY <1>1, <1>2, <1>3

\* A task that goes on, to a later step, ran before.
LEMMA AdvanceInv ==
  ASSUME Inv, NEW t \in Task, NEW n \in Nat, Running(t), t \notin cancelled,
         n = 0 \/ n >= 2, n <= Steps(t), at' = [at EXCEPT ![t] = n],
         UNCHANGED <<phase, cancelled>>,
         connected' \subseteq connected \union {t}, n = 0 => t \notin connected',
         locked' \subseteq locked \union {t}, locked' \subseteq Registration,
         locked' \subseteq connected', t \in locked' => n >= 2
  PROVE  Inv'
<1> USE DEF Inv
<1>1. TypeOK'
  BY DEF TypeOK
<1>2. Holding'
  BY DEF TypeOK, Holding, Running
<1>3. Stopped'
  BY Kinds DEF TypeOK, Stopped, Stopping, Running, PublisherGone
<1> QED BY <1>1, <1>2, <1>3

\* What a task does for itself.
LEMMA TaskInv ==
  ASSUME Inv, NEW t \in Task, GoOn(t) \/ Fail(t)
  PROVE  Inv'
<1> USE DEF Inv
<1>1. CASE Connect(t)
  <2>1. TypeOK'
    BY <1>1 DEF Connect, TypeOK
  <2>2. Holding'
    BY <1>1 DEF Connect, NeedsConnection, TypeOK, Holding, Running
  <2>3. Stopped'
    BY <1>1 DEF Connect, Stopped, Stopping, Running, PublisherGone
  <2> QED BY <2>1, <2>2, <2>3
<1>2. CASE Lock(t)
  <2>1. t \in Registration /\ at[t] = 1
    <3>1. at[t] \in 1 .. Steps(t) /\ Op(t) = "lock"
      BY <1>2, Programs DEF Lock, Ready, Running, TypeOK
    <3> QED BY <3>1, AtTheLock
  <2>2. t \in connected
    BY <1>2 DEF Lock, Ready, NeedsConnection
  <2>3. 2 \in Nat /\ 2 <= Steps(t)
    BY Programs
  <2>4. /\ at' = [at EXCEPT ![t] = 2] /\ Running(t) /\ t \notin cancelled
        /\ UNCHANGED <<phase, connected, cancelled>>
        /\ locked' = locked \union {t}
    BY <1>2, <2>1 DEF Lock, Ready, Advance, TypeOK
  <2>5. /\ connected' \subseteq connected \union {t}
        /\ locked' \subseteq Registration /\ locked' \subseteq connected'
    BY <2>1, <2>2, <2>4 DEF Holding, TypeOK
  <2> DEFINE n == 2
  <2>6. /\ n \in Nat /\ (n = 0 \/ n >= 2) /\ n <= Steps(t)
        /\ at' = [at EXCEPT ![t] = n]
        /\ n = 0 => t \notin connected'
        /\ locked' \subseteq locked \union {t}
        /\ t \in locked' => n >= 2
    BY <2>3, <2>4
  <2> HIDE DEF n
  <2> QED BY <2>4, <2>5, <2>6, AdvanceInv
<1>3. CASE Wait(t)
  <2>1. CASE at[t] = Steps(t)
    BY <1>3, <2>1, EndInv DEF Wait
  <2>2. CASE at[t] # Steps(t)
    <3>1. at[t] + 1 \in Nat /\ at[t] + 1 >= 2 /\ at[t] + 1 <= Steps(t)
      BY <1>3, <2>2, Programs DEF Wait, Ready, Running, TypeOK
    <3>2. /\ at' = [at EXCEPT ![t] = at[t] + 1] /\ Running(t) /\ t \notin cancelled
          /\ UNCHANGED <<phase, connected, locked, cancelled>>
      BY <1>3, <2>2 DEF Wait, Ready, Advance, TypeOK
    <3>3. /\ locked' \subseteq Registration /\ locked' \subseteq connected'
          /\ connected' \subseteq connected \union {t}
          /\ locked' \subseteq locked \union {t}
      BY <3>1, <3>2 DEF Holding, TypeOK
    <3> DEFINE n == at[t] + 1
    <3>4. /\ n \in Nat /\ (n = 0 \/ n >= 2) /\ n <= Steps(t)
          /\ at' = [at EXCEPT ![t] = n]
          /\ n = 0 => t \notin connected'
          /\ t \in locked' => n >= 2
      BY <3>1, <3>2
    <3> HIDE DEF n
    <3> QED BY <3>2, <3>3, <3>4, AdvanceInv
  <2> QED BY <2>1, <2>2
<1>4. CASE Commit(t)
  <2> DEFINE n == IF at[t] = Steps(t) THEN 0 ELSE at[t] + 1
  <2>1. n \in Nat /\ (n = 0 \/ n >= 2) /\ n <= Steps(t)
    BY <1>4, Programs DEF Commit, Ready, Running, TypeOK
  <2>2. at' = [at EXCEPT ![t] = n] /\ Running(t) /\ t \notin cancelled
    BY <1>4 DEF Commit, Ready, TypeOK
  <2>3. /\ UNCHANGED <<phase, cancelled>>
        /\ connected' = connected \ {t} /\ locked' = locked \ {t}
    BY <1>4 DEF Commit, Release
  <2> HIDE DEF n
  <2> QED BY <2>1, <2>2, <2>3, AdvanceInv DEF Holding, TypeOK
<1>5. CASE Unwind(t)
  BY <1>5, EndInv DEF Unwind
<1>6. CASE Fail(t)
  <2>1. CASE t \in Syncing /\ at[t] \in 2 .. Steps(t) - 1
    <3>1. /\ at' = [at EXCEPT ![t] = Steps(t)] /\ Running(t)
          /\ t \notin cancelled /\ UNCHANGED <<phase, cancelled>>
          /\ connected' = connected \ {t} /\ locked' = locked \ {t}
      BY <1>6, <2>1 DEF Fail, Release
    <3>2. /\ locked' \subseteq Registration /\ locked' \subseteq connected'
          /\ connected' \subseteq connected \union {t}
          /\ locked' \subseteq locked \union {t}
      BY <3>1 DEF Holding, TypeOK
    <3> DEFINE n == Steps(t)
    <3>3. /\ n \in Nat /\ (n = 0 \/ n >= 2) /\ n <= Steps(t)
          /\ at' = [at EXCEPT ![t] = n]
          /\ n = 0 => t \notin connected'
          /\ t \in locked' => n >= 2
      BY <3>1, Programs
    <3> HIDE DEF n
    <3> QED BY <3>1, <3>2, <3>3, AdvanceInv
  <2>2. CASE ~(t \in Syncing /\ at[t] \in 2 .. Steps(t) - 1)
    BY <1>6, <2>2, EndInv DEF Fail
  <2> QED BY <2>1, <2>2
<1> QED BY <1>1, <1>2, <1>3, <1>4, <1>5, <1>6 DEF GoOn

\* The lifespan stops a kind of task before it relies on that.
LEMMA LifespanInv ==
  ASSUME Inv, Terminate \/ Shutdown
  PROVE  Inv'
<1> USE DEF Inv
<1>1. TypeOK'
  BY Kinds DEF Terminate, Shutdown, Stop, PublisherTimeout, PublisherStopped,
     InitialSyncStopped, CloseCapashino, CloseProvider, TypeOK
<1>2. Holding'
  BY DEF Terminate, Shutdown, Stop, PublisherTimeout, PublisherStopped,
     InitialSyncStopped, CloseCapashino, CloseProvider, Holding, Running
<1>3. Stopped'
  BY DEF Terminate, Shutdown, Stop, PublisherTimeout, PublisherStopped,
     InitialSyncStopped, CloseCapashino, CloseProvider, Stopped, Stopping,
     Running, PublisherGone
<1> QED BY <1>1, <1>2, <1>3

LEMMA NextInv == Inv /\ [Next]_vars => Inv'
<1> SUFFICES ASSUME Inv, [Next]_vars PROVE Inv'
  OBVIOUS
<1>1. ASSUME NEW r \in Request, Arrive(r) PROVE Inv'
  BY <1>1, StartInv, Kinds DEF Arrive, Stopping
<1>2. CASE DailySync
  BY <1>2, StartInv, Kinds DEF DailySync, Syncing
<1>3. CASE Poll
  BY <1>3, StartInv, Kinds DEF Poll
<1>4. ASSUME NEW t \in Task, GoOn(t) \/ Fail(t) PROVE Inv'
  BY <1>4, TaskInv
<1>5. CASE Terminate \/ Shutdown
  BY <1>5, LifespanInv
<1>6. CASE UNCHANGED vars
  BY <1>6 DEF vars, Inv, TypeOK, Holding, Stopped, Stopping, Running, PublisherGone
<1> QED BY <1>1, <1>2, <1>3, <1>4, <1>5, <1>6 DEF Next, Exited

LEMMA SpecInv == Spec => []Inv
BY InitInv, NextInv, PTL DEF Spec

-----------------------------------------------------------------------------

\* Type correctness.
THEOREM ProcessTypes == Spec => []TypeOK
BY SpecInv, PTL DEF Inv

LEMMA InvNoUse == Inv => NoUseAfterClose
<1> SUFFICES ASSUME Inv, NEW t \in Task, Running(t), t \notin cancelled,
                    CapashinoClosed \/ ProviderClosed
             PROVE  FALSE
  BY DEF NoUseAfterClose
<1>1. Stopping /\ PublisherGone
  BY DEF CapashinoClosed, ProviderClosed, Stopping, PublisherGone
<1> QED BY <1>1 DEF Inv, Stopped, Task

\* Whatever a task still has to do, it needs no client that main.py has closed
\* (lines 70-90): requests are over, the daily job and the first
\* synchronisation are cancelled, and the publisher is over or cancelled.
THEOREM ProcessNoUseAfterClose == Spec => []NoUseAfterClose
BY SpecInv, InvNoUse, PTL

LEMMA InvPool == Inv => PoolNeverStuck
<1> SUFFICES ASSUME Inv, PoolUsedUp
             PROVE  \E t \in connected : CanGoOn(t)
  BY DEF PoolNeverStuck
<1>1. connected # {}
  BY PoolAssumption, FS_EmptySet DEF PoolUsedUp
<1>2. PICK h \in connected : TRUE
  BY <1>1
<1>3. CASE ~(Op(h) = "lock" /\ Blocked(h))
  BY <1>3 DEF CanGoOn, NeedsConnection
<1>4. CASE Blocked(h)
  <2>1. PICK u \in locked : TRUE
    BY <1>4 DEF Blocked
  <2>2. u \in connected /\ u \in Registration /\ at[u] \in 2 .. Steps(u)
    <3>1. u \in connected /\ u \in Registration /\ u \in Task /\ at[u] >= 2
      BY <2>1, Kinds DEF Inv, Holding, TypeOK
    <3>2. at[u] \in Nat /\ at[u] <= Steps(u) /\ Steps(u) \in Nat
      BY <3>1, Programs DEF Inv, TypeOK
    <3> QED BY <3>1, <3>2
  <2>3. Op(u) # "lock"
    BY <2>2, PastTheLock
  <2> QED BY <2>2, <2>3 DEF CanGoOn, NeedsConnection
<1> QED BY <1>3, <1>4

\* The used-up pool is never a deadlock, whatever its size and whoever waits
\* for which lock: one session per request, and the lock comes after it.
THEOREM ProcessPoolNeverStuck == Spec => []PoolNeverStuck
BY SpecInv, InvPool, PTL

=============================================================================
