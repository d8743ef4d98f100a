---------------------------- MODULE SeatsProofs ----------------------------
(***************************************************************************)
(* Theorems about the cached list of seats, for any number of requests and *)
(* any times to live and in transit.                                       *)
(***************************************************************************)
EXTENDS Seats, TLAPS

\* A list on its way is as old as its call at most, and so is a cached one
\* beyond its time to live.
Timely ==
  /\ cache.until <= cache.at + TTL + Transit
  /\ \A r \in Request : job[r].pc \in {"asking", "listed"} => now <= job[r].asked + Transit
  /\ \A r \in Request : job[r].pc = "asking" => job[r].asked <= now
  /\ \A r \in Request : job[r].pc = "listed" => job[r].asked <= job[r].at

\* A list no invalidation has crossed knows of the last one.
Current ==
  /\ cache.until > 0 /\ ~cache.crossed => cache.version >= told
  /\ \A r \in Request : job[r].pc = "listed" /\ ~job[r].crossed => job[r].version >= told
  /\ \A r \in Request : job[r].pc = "changed" => job[r].version <= version
  /\ told <= version

Inv == TypeOK /\ Timely /\ Current

LEMMA ConstantTypes == Empty \in List /\ Idle \in Job /\ Idle.pc = "idle"
  BY TimeAssumption DEF Empty, Idle, List, Job, Change, Instant

LEMMA InitInv == Init => Inv
  BY ConstantTypes, TimeAssumption
  DEF Init, Inv, TypeOK, Timely, Current, Empty, Idle, Instant, Change

LEMMA StepInv == Inv /\ [Next]_vars => Inv'
<1>. SUFFICES ASSUME Inv, [Next]_vars PROVE Inv'
  OBVIOUS
<1>. USE TimeAssumption, ConstantTypes DEF Inv
<1>a. /\ now \in Nat /\ version \in Nat /\ told \in Nat /\ TTL \in Nat /\ Transit \in Nat
      /\ cache.version \in Nat /\ cache.at \in Nat /\ cache.until \in Nat
      /\ \A r \in Request : job[r].asked \in Nat /\ job[r].version \in Nat /\ job[r].at \in Nat
  BY DEF TypeOK, List, Job, Instant, Change
<1>0. CASE UNCHANGED vars
  BY <1>0 DEF vars, TypeOK, Timely, Current
\* A step that brings no list into the cache or on its way.
<1>b. ASSUME UNCHANGED <<now, version, told>>, cache' \in {cache, Empty},
             job' \in [Request -> Job],
             \A r \in Request : job'[r] \in {job[r], Idle}
      PROVE  Inv'
  <2>1. TypeOK'
    BY <1>b DEF TypeOK
  <2>2. Timely'
    BY <1>a, <1>b DEF Timely, Empty
  <2>3. Current'
    BY <1>a, <1>b DEF Current, Empty
  <2>. QED BY <2>1, <2>2, <2>3
<1>1. ASSUME NEW r \in Request, Hit(r) PROVE Inv'
  BY <1>1, <1>b DEF Hit, Get, TypeOK
<1>2. ASSUME NEW r \in Request, Ask(r) PROVE Inv'
  <2>. DEFINE j == [Idle EXCEPT !.pc = "asking", !.asked = now]
  <2>1. j \in Job /\ j.pc = "asking" /\ j.asked = now
    BY DEF Job, Idle, TypeOK
  <2>2. job' = [job EXCEPT ![r] = j] /\ UNCHANGED <<now, version, cache, told>>
    BY <1>2 DEF Ask
  <2>. HIDE DEF j
  <2>3. TypeOK'
    BY <2>1, <2>2 DEF TypeOK
  <2>4. Timely'
    BY <1>a, <2>1, <2>2 DEF Timely, TypeOK
  <2>5. Current'
    BY <1>a, <2>1, <2>2 DEF Current, TypeOK
  <2>. QED BY <2>3, <2>4, <2>5
<1>3. ASSUME NEW r \in Request, MakeList(r) PROVE Inv'
  <2>1. TypeOK'
    BY <1>3 DEF MakeList, TypeOK, Job
  <2>2. Timely'
    BY <1>a, <1>3 DEF MakeList, Timely, TypeOK, Job
  <2>3. Current'
    BY <1>a, <1>3 DEF MakeList, Current, TypeOK, Job
  <2>. QED BY <2>1, <2>2, <2>3
<1>4. ASSUME NEW r \in Request, Cache(r) PROVE Inv'
  <2>1. /\ cache' = [version |-> job[r].version, at |-> job[r].at, until |-> now + TTL,
                     crossed |-> job[r].crossed]
        /\ job' = [job EXCEPT ![r] = Idle] /\ UNCHANGED <<now, version, told>>
        /\ job[r].pc = "listed"
    BY <1>4 DEF Cache, Set
  <2>2. TypeOK'
    BY <1>a, <2>1 DEF TypeOK, List, Job
  <2>3. Timely'
    BY <1>a, <2>1 DEF Timely, TypeOK
  <2>4. Current'
    BY <1>a, <2>1 DEF Current, TypeOK
  <2>. QED BY <2>2, <2>3, <2>4
<1>5. ASSUME NEW r \in Request, AskFails(r) \/ NotCommitted(r) PROVE Inv'
  BY <1>5, <1>b DEF AskFails, NotCommitted, TypeOK
<1>6. ASSUME NEW r \in Request, Sell(r) PROVE Inv'
  <2>. DEFINE j == [Idle EXCEPT !.pc = "changed", !.version = version + 1]
  <2>0. version + 1 \in Change
    BY <1>6 DEF Sell, TypeOK, Change
  <2>1. j \in Job /\ j.pc = "changed" /\ j.version = version + 1
    BY <2>0 DEF Job, Idle
  <2>2. job' = [job EXCEPT ![r] = j] /\ version' = version + 1 /\ UNCHANGED <<now, cache, told>>
    BY <1>6 DEF Sell
  <2>. HIDE DEF j
  <2>3. TypeOK'
    BY <2>0, <2>1, <2>2 DEF TypeOK
  <2>4. Timely'
    BY <1>a, <2>1, <2>2 DEF Timely, TypeOK
  <2>5. Current'
    BY <1>a, <2>1, <2>2 DEF Current, TypeOK
  <2>. QED BY <2>3, <2>4, <2>5
<1>7. ASSUME NEW r \in Request, Committed(r) PROVE Inv'
  <2>1. /\ job[r].pc = "changed" /\ cache' = Empty /\ UNCHANGED <<now, version>>
        /\ told' = IF job[r].version > told THEN job[r].version ELSE told
    BY <1>7 DEF Committed, Invalidate
  <2>2. /\ job'[r] = Idle
        /\ \A q \in Request \ {r} : job'[q] = IF job[q].pc = "listed"
                                                THEN [job[q] EXCEPT !.crossed = TRUE]
                                                ELSE job[q]
    BY <1>7 DEF Committed
  <2>3. \A q \in Request \ {r} :
          /\ job'[q] \in Job /\ job'[q].pc = job[q].pc /\ job'[q].asked = job[q].asked
          /\ job'[q].version = job[q].version /\ job'[q].at = job[q].at
          /\ job'[q].pc = "listed" => job'[q].crossed
    <3>. SUFFICES ASSUME NEW q \in Request \ {r}, job[q] \in Job
                  PROVE  /\ job'[q] \in Job /\ job'[q].pc = job[q].pc /\ job'[q].asked = job[q].asked
                         /\ job'[q].version = job[q].version /\ job'[q].at = job[q].at
                         /\ job'[q].pc = "listed" => job'[q].crossed
      BY DEF TypeOK
    <3>1. CASE job[q].pc = "listed"
      BY <2>2, <3>1 DEF Job
    <3>2. CASE job[q].pc # "listed"
      BY <2>2, <3>2
    <3>. QED BY <3>1, <3>2
  <2>4. TypeOK'
    <3>1. job' \in [Request -> Job]
      BY <1>7, <2>2, <2>3 DEF Committed
    <3>. QED BY <2>1, <3>1 DEF TypeOK, Job
  <2>5. Timely'
    BY <1>a, <2>1, <2>2, <2>3 DEF Timely, Empty
  <2>6. Current'
    BY <1>a, <2>1, <2>2, <2>3 DEF Current, Empty
  <2>. QED BY <2>4, <2>5, <2>6
<1>8. ASSUME Tick PROVE Inv'
  <2>1. TypeOK'
    BY <1>8 DEF Tick, TypeOK, Instant
  <2>2. Timely'
    BY <1>a, <1>8 DEF Tick, Timely
  <2>3. Current'
    BY <1>8 DEF Tick, Current
  <2>. QED BY <2>1, <2>2, <2>3
<1>9. ASSUME Evict \/ Crash PROVE Inv'
  BY <1>9, <1>b DEF Evict, Crash, TypeOK
<1>. QED BY <1>0, <1>1, <1>2, <1>3, <1>4, <1>5, <1>6, <1>7, <1>8, <1>9 DEF Next

LEMMA Invariance == Spec => []Inv
  BY InitInv, StepInv, PTL DEF Spec

\* Every state of the cache and its users has its type.
THEOREM SeatsTypes == Spec => []TypeOK
<1>1. Inv => TypeOK
  BY DEF Inv
<1>. QED BY <1>1, Invariance, PTL

\* A list that is served is younger than its time to live and one call.
THEOREM SeatsStayFresh == Spec => []StalenessBounded
<1>1. Inv => StalenessBounded
  BY TimeAssumption DEF Inv, TypeOK, Timely, List, Instant, StalenessBounded, Live
<1>. QED BY <1>1, Invariance, PTL

\* Only a list that was on its way when the cache was invalidated can hide a
\* purchase or a cancellation of this process.
THEOREM SeatsShowOwnChanges == Spec => []OwnChangesSeen
<1>1. Inv => OwnChangesSeen
  BY DEF Inv, TypeOK, Current, List, Instant, OwnChangesSeen, Live
<1>. QED BY <1>1, Invariance, PTL
=============================================================================
