------------------------------- MODULE Seats -------------------------------
(***************************************************************************)
(* How old a list of free seats can be: the cached list of one event in    *)
(* one worker process (services/cache.py), its readers -- GET              *)
(* /api/events/{id}/seats and the check of a registration, both through    *)
(* resolve_available_seats -- and the registrations and cancellations that *)
(* invalidate it.                                                          *)
(*                                                                         *)
(* A list stands for the instant the provider made it up and for the       *)
(* number of seats the provider had sold or freed by then.  Which seats    *)
(* are on it, and what is decided from that, is module Tickets.            *)
(***************************************************************************)
EXTENDS Naturals

CONSTANTS
  Request,     \* readers and writers under way at once
  TTL,         \* SeatsCache.ttl
  Transit,     \* the longest a call to the provider lasts, its timeout included
  MaxTime,     \* bound: instants
  MaxChanges   \* bound: seats sold or freed

ASSUME TimeAssumption == {TTL, Transit, MaxTime, MaxChanges} \subseteq Nat

VARIABLES
  now,      \* the clock
  version,  \* provider: how many seats were sold or freed
  cache,    \* the cached list, or Empty
  job,      \* job[r]: the state of the request r
  told      \* history: the last change the cache was invalidated for

vars == <<now, version, cache, job, told>>

Instant == 0 .. MaxTime
Change == 0 .. MaxChanges

\* "crossed" is history: an invalidation passed the list on its way to the cache.
List == [version : Change, at : Instant, until : Nat, crossed : BOOLEAN]
Job == [pc : {"idle", "asking", "listed", "changed"}, asked : Instant,
        version : Change, at : Instant, crossed : BOOLEAN]

Empty == [version |-> 0, at |-> 0, until |-> 0, crossed |-> FALSE]
Idle == [pc |-> "idle", asked |-> 0, version |-> 0, at |-> 0, crossed |-> FALSE]

TypeOK ==
  /\ now \in Instant
  /\ version \in Change
  /\ cache \in List
  /\ job \in [Request -> Job]
  /\ told \in Change

Init ==
  /\ now = 0
  /\ version = 0
  /\ cache = Empty
  /\ job = [r \in Request |-> Idle]
  /\ told = 0

-----------------------------------------------------------------------------
(* TTLCache.                                                               *)

\* An entry is served until its time has come.
Live == now < cache.until

\* Variant: the entry lives on as long as it is used.
GetTouching == cache' = [cache EXCEPT !.until = now + TTL]

\* get does not prolong the life of the entry.
Get == UNCHANGED cache

\* The time to live starts when the list is cached, not when it was made up.
Set(list) ==
  cache' = [version |-> list.version, at |-> list.at, until |-> now + TTL,
            crossed |-> list.crossed]

\* Variant: the key does not match, and pop has a default.
InvalidateNothing == UNCHANGED cache

Invalidate == cache' = Empty

-----------------------------------------------------------------------------
(* resolve_available_seats.                                                *)

Hit(r) ==
  /\ job[r].pc = "idle"
  /\ Live
  /\ Get
  /\ UNCHANGED <<now, version, job, told>>

Ask(r) ==
  /\ job[r].pc = "idle"
  /\ ~Live
  /\ job' = [job EXCEPT ![r] = [Idle EXCEPT !.pc = "asking", !.asked = now]]
  /\ UNCHANGED <<now, version, cache, told>>

\* The provider makes up its list.
MakeList(r) ==
  /\ job[r].pc = "asking"
  /\ job' = [job EXCEPT ![r].pc = "listed", ![r].version = version, ![r].at = now]
  /\ UNCHANGED <<now, version, cache, told>>

\* The answer is cached over whatever is there by now.
Cache(r) ==
  /\ job[r].pc = "listed"
  /\ Set(job[r])
  /\ job' = [job EXCEPT ![r] = Idle]
  /\ UNCHANGED <<now, version, told>>

\* An error, a timeout, 404: nothing is cached.
AskFails(r) ==
  /\ job[r].pc \in {"asking", "listed"}
  /\ job' = [job EXCEPT ![r] = Idle]
  /\ UNCHANGED <<now, version, cache, told>>

-----------------------------------------------------------------------------
(* A registration or a cancellation, from the provider to the commit.      *)

\* The provider sells or frees the seat.
Sell(r) ==
  /\ job[r].pc = "idle"
  /\ version < MaxChanges
  /\ version' = version + 1
  /\ job' = [job EXCEPT ![r] = [Idle EXCEPT !.pc = "changed", !.version = version + 1]]
  /\ UNCHANGED <<now, cache, told>>

\* After the commit.  History: lists still on their way have been crossed.
Committed(r) ==
  /\ job[r].pc = "changed"
  /\ Invalidate
  /\ told' = IF job[r].version > told THEN job[r].version ELSE told
  /\ job' = [q \in Request |-> IF q = r THEN Idle
                               ELSE IF job[q].pc = "listed"
                                 THEN [job[q] EXCEPT !.crossed = TRUE]
                                 ELSE job[q]]
  /\ UNCHANGED <<now, version>>

\* A lost answer, a commit that fails, a request of another process or of
\* another customer of the provider: nothing is invalidated here.
NotCommitted(r) ==
  /\ job[r].pc = "changed"
  /\ job' = [job EXCEPT ![r] = Idle]
  /\ UNCHANGED <<now, version, cache, told>>

-----------------------------------------------------------------------------
(* Time, room and the process.                                             *)

\* No call outlasts its timeout.
Tick ==
  /\ now < MaxTime
  /\ \A r \in Request :
       job[r].pc \in {"asking", "listed"} => now < job[r].asked + Transit
  /\ now' = now + 1
  /\ UNCHANGED <<version, cache, job, told>>

\* maxsize: lists of other events drive this one out.
Evict ==
  /\ cache' = Empty
  /\ UNCHANGED <<now, version, job, told>>

Crash ==
  /\ cache' = Empty
  /\ job' = [r \in Request |-> Idle]
  /\ UNCHANGED <<now, version, told>>

Next ==
  \/ \E r \in Request : \/ Hit(r) \/ Ask(r) \/ MakeList(r) \/ Cache(r) \/ AskFails(r)
                        \/ Sell(r) \/ Committed(r) \/ NotCommitted(r)
  \/ Tick \/ Evict \/ Crash

Spec == Init /\ [][Next]_vars

-----------------------------------------------------------------------------
(* Properties.                                                             *)

\* "In-memory кэш свободных мест. TTL 30 секунд": a list that is served was made
\* up by the provider less than TTL and one call ago, however often it is
\* asked for and whatever was invalidated meanwhile.
StalenessBounded == Live => now < cache.at + TTL + Transit

\* Who has bought or cancelled here sees it in the list: the cache serves no
\* list from before the last invalidation, except one that was made up before
\* it and arrived after it.
OwnChangesSeen == Live /\ ~cache.crossed => cache.version >= told

=============================================================================
