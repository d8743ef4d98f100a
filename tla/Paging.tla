------------------------------- MODULE Paging -------------------------------
(***************************************************************************)
(* Reading the list of events page by page: GET /api/events,               *)
(* EventService.list_events, EventRepository.count and events_list.        *)
(*                                                                         *)
(* A client starts at page 1 and follows the next links, while the         *)
(* synchronisation writes the table.  A request is two statements, each    *)
(* with a view of its own: the count first, then the page.  Only the rows  *)
(* the date filter lets through count, so there is no filter here.         *)
(***************************************************************************)
EXTENDS Naturals, FiniteSets

CONSTANTS
  Event,
  Time,       \* values of event_time
  PageSize,   \* page_size
  LastPage,   \* the largest page the endpoint accepts
  MaxWrites   \* bound: rows the synchronisation writes during the walk

ASSUME EventAssumption == IsFiniteSet(Event)
ASSUME TimeAssumption == Time \subseteq Nat \ {0}
ASSUME SizeAssumption == {PageSize, LastPage} \subseteq Nat \ {0} /\ MaxWrites \in Nat

VARIABLES
  event_time,  \* the table: event_time[e], or 0 while e has no row
  pc,          \* "asking", "counted", "ended" (no next link) or "refused"
  page,        \* the page asked for
  total,       \* what the count of the current request came to
  sent,        \* history: <<p, e>> once page p has shown the row e
  first,       \* history: the rows that were there when it began
  writes,      \* history: rows written since
  moved,       \* history: a row got another event_time
  late         \* history: rows that came between the last count and its page

walkVars == <<pc, page, total, sent, first>>
vars == <<event_time, walkVars, writes, moved, late>>

Present == {e \in Event : event_time[e] > 0}

TypeOK ==
  /\ event_time \in [Event -> Time \cup {0}]
  /\ pc \in {"asking", "counted", "ended", "refused"}
  /\ page \in Nat \ {0}
  /\ (page - 1) * PageSize <= total
  /\ total \in 0 .. Cardinality(Event)
  /\ sent \subseteq (1 .. page) \X Event
  /\ first \subseteq Event
  /\ writes \in 0 .. MaxWrites
  /\ moved \in BOOLEAN
  /\ late \in 0 .. writes

Init ==
  /\ event_time \in [Event -> Time \cup {0}]
  /\ pc = "asking"
  /\ page = 1
  /\ total = 0
  /\ sent = {}
  /\ first = Present
  /\ writes = 0
  /\ moved = FALSE
  /\ late = 0

\* The synchronisation inserts a row or moves it to another time.
Upsert(e, t) ==
  /\ pc \in {"asking", "counted"}
  /\ writes < MaxWrites
  /\ writes' = writes + 1
  /\ event_time' = [event_time EXCEPT ![e] = t]
  /\ moved' = (moved \/ event_time[e] \notin {0, t})
  /\ late' = IF event_time[e] = 0 /\ pc = "counted" THEN late + 1 ELSE late
  /\ UNCHANGED walkVars

Count ==
  /\ pc = "asking"
  /\ page <= LastPage
  /\ total' = Cardinality(Present)
  /\ pc' = "counted"
  /\ late' = 0
  /\ UNCHANGED <<event_time, page, sent, first, writes, moved>>

\* The validation of the query parameters refuses the request.
Refuse ==
  /\ pc = "asking"
  /\ page > LastPage
  /\ pc' = "refused"
  /\ UNCHANGED <<event_time, page, total, sent, first, writes, moved, late>>

\* Variant: the first page starts after itself.
OffsetOfNextPage == page * PageSize

Offset == (page - 1) * PageSize

\* Variant: there always is a link.
HasNextAlways == TRUE

\* Variant: the link leads to a page only if that page is full.
HasNextFullPage == (page + 1) * PageSize <= total

\* _build_page_url for page + 1.
HasNext == page * PageSize < total

\* S begins the rows R when they are ordered by event_time, up to n of them.
\* Rows of one time come in any order, and in another one next time.
Begins(S, R, n) ==
  /\ S \subseteq R
  /\ Cardinality(S) <= n
  /\ S = R \/ Cardinality(S) = n
  /\ \A s \in S, r \in R \ S : event_time[s] <= event_time[r]

List ==
  /\ pc = "counted"
  /\ \E skipped, shown \in SUBSET Present :
       /\ Begins(skipped, Present, Offset)
       /\ Begins(shown, Present \ skipped, PageSize)
       /\ sent' = sent \cup {page} \X shown
  /\ IF HasNext THEN pc' = "asking" /\ page' = page + 1
                ELSE pc' = "ended" /\ UNCHANGED page
  /\ UNCHANGED <<event_time, total, first, writes, moved, late>>

Next ==
  \/ \E e \in Event, t \in Time : Upsert(e, t)
  \/ Count
  \/ Refuse
  \/ List

Spec == Init /\ [][Next]_vars

-----------------------------------------------------------------------------
(* Properties.                                                             *)

At(t) == {e \in Present : event_time[e] = t}
Before(t) == {e \in Present : event_time[e] < t}

\* What the pages have shown of the rows at time t.
Sent(t) == {s \in sent : event_time[s[2]] = t}

\* How many of n rows lie among the first k when b others come before them.
Share(b, n, k) == IF k <= b THEN 0 ELSE IF k <= b + n THEN k - b ELSE n

\* The rows on the pages the endpoint accepts.
Reachable == LastPage * PageSize

\* A walk over a table that does not change shows of each event_time as many
\* rows as have it: a row with a time of its own exactly once.  Without a
\* tie-break in ORDER BY rows at one time may stand in for each other, one shown
\* twice and another not at all.  Whether the walk comes to its end or the link
\* to page LastPage + 1 is refused, it shows the first LastPage pages and no more.
SeenOnce ==
  pc \in {"ended", "refused"} /\ writes = 0 =>
    \A t \in Time : Cardinality(Sent(t)) =
      Share(Cardinality(Before(t)), Cardinality(At(t)), Reachable)

\* Rows that come in during the walk shift the others to later pages, but of each
\* event_time it shows at least as many rows as there were when it began.  Out of
\* sight are only those pushed beyond page LastPage and, at the end of the table,
\* at most one for each row that came between the last count and its page, since
\* the next link is made of that count.  Rows that move to another time void it.
NothingHidden ==
  pc \in {"ended", "refused"} /\ ~moved =>
    LET counted == Cardinality(Present) - late
    IN \A t \in Time : Cardinality(Sent(t)) >=
         Share(Cardinality(Before(t)), Cardinality(first \cap At(t)),
               IF counted <= Reachable THEN counted ELSE Reachable)

=============================================================================
