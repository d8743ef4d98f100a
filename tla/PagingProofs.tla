---------------------------- MODULE PagingProofs ----------------------------
(***************************************************************************)
(* Theorems about a walk through the list of events, for any number of     *)
(* rows, pages and writes.  The rows at one time take up consecutive       *)
(* places in the list, whatever their order among themselves, so a page    *)
(* has a number of them that only depends on how many come before.         *)
(***************************************************************************)
EXTENDS Paging, FiniteSetTheorems, TLAPS

\* How many rows the pages sent so far should have shown.
Done == IF pc = "ended" THEN page * PageSize ELSE Offset

Counting ==
  /\ pc \in {"counted", "ended"} => page <= LastPage
  /\ pc \in {"asking", "refused"} => page <= LastPage + 1
  /\ pc = "refused" => page > LastPage
  /\ total <= Cardinality(Present)
  /\ pc \in {"counted", "ended"} => total + late = Cardinality(Present)
  /\ pc = "ended" => total <= page * PageSize
  /\ \A s \in sent : s[2] \in Present /\ (pc # "ended" => s[1] < page)
  /\ first \subseteq Present
  /\ writes = 0 => ~moved

\* An undisturbed walk has shown exactly the share of every time,
Exact ==
  writes = 0 => \A t \in Time :
    Cardinality(Sent(t)) = Share(Cardinality(Before(t)), Cardinality(At(t)), Done)

\* and one disturbed by insertions that of the first rows at least.
Shown ==
  ~moved => \A t \in Time :
    Cardinality(Sent(t)) >=
      Share(Cardinality(Before(t)), Cardinality(first \cap At(t)), Done)

Inv == TypeOK /\ Counting /\ Exact /\ Shown

-----------------------------------------------------------------------------
(* Rows and pages.                                                         *)

LEMMA Finite ==
  ASSUME NEW S, S \subseteq Event
  PROVE  IsFiniteSet(S) /\ Cardinality(S) \in Nat
BY EventAssumption, FS_Subset, FS_CardinalityType

LEMMA Times == TypeOK => event_time \in [Event -> Nat]
<1> SUFFICES ASSUME TypeOK PROVE event_time \in [Event -> Nat]
  OBVIOUS
<1>1. event_time \in [Event -> Time \cup {0}]
  BY DEF TypeOK
<1>2. Time \cup {0} \subseteq Nat
  BY TimeAssumption
<1> QED BY <1>1, <1>2

LEMMA Smaller ==
  ASSUME NEW R, NEW S, R \subseteq S, S \subseteq Event
  PROVE  Cardinality(R) <= Cardinality(S)
BY Finite, FS_Subset

\* What the pages have shown is finite too.
LEMMA FiniteSent ==
  ASSUME TypeOK, NEW t
  PROVE  IsFiniteSet(Sent(t)) /\ Cardinality(Sent(t)) \in Nat
<1>1. page \in Nat
  BY DEF TypeOK
<1>2. IsFiniteSet(1 .. page)
  BY <1>1, FS_Interval
<1>3. IsFiniteSet((1 .. page) \X Event)
  BY <1>2, EventAssumption, FS_Product
<1>4. Sent(t) \subseteq (1 .. page) \X Event
  BY DEF Sent, TypeOK
<1> QED BY <1>3, <1>4, FS_Subset, FS_CardinalityType

\* Two parts with nothing in common.
LEMMA Parts ==
  ASSUME NEW R, NEW S, IsFiniteSet(R), IsFiniteSet(S), R \cap S = {}
  PROVE  Cardinality(R \cup S) = Cardinality(R) + Cardinality(S)
<1>1. /\ Cardinality(R \cup S) = Cardinality(R) + Cardinality(S) - Cardinality(R \cap S)
      /\ Cardinality(R) \in Nat /\ Cardinality(S) \in Nat
  BY FS_Union, FS_CardinalityType
<1>2. Cardinality(R \cap S) = 0
  BY FS_EmptySet
<1> QED BY <1>1, <1>2

\* The first n rows of R, up to ties, hold the share of every time t.
LEMMA ShareOfTheFirst ==
  ASSUME NEW R, R \subseteq Event, NEW S, NEW n \in Nat, Begins(S, R, n),
         event_time \in [Event -> Nat], NEW t \in Nat
  PROVE  Cardinality({s \in S : event_time[s] = t}) =
           Share(Cardinality({r \in R : event_time[r] < t}),
                 Cardinality({r \in R : event_time[r] = t}), n)
<1> DEFINE B == {r \in R : event_time[r] < t}
           G == {r \in R : event_time[r] = t}
           A == {s \in S : event_time[s] = t}
<1>0. /\ S \subseteq R /\ Cardinality(S) <= n /\ (S = R \/ Cardinality(S) = n)
      /\ \A s \in S, r \in R \ S : event_time[s] <= event_time[r]
      /\ \A r \in R : event_time[r] \in Nat
  BY DEF Begins
<1>1. /\ IsFiniteSet(B) /\ Cardinality(B) \in Nat
      /\ IsFiniteSet(G) /\ Cardinality(G) \in Nat
      /\ IsFiniteSet(A) /\ Cardinality(A) \in Nat
      /\ IsFiniteSet(S) /\ Cardinality(S) \in Nat
  <2>1. B \subseteq Event /\ G \subseteq Event /\ A \subseteq Event /\ S \subseteq Event
    BY <1>0
  <2> QED BY <2>1, Finite
<1>2. A \subseteq G /\ A \subseteq S /\ B \cap G = {} /\ B \subseteq Event /\ G \subseteq Event
  BY <1>0
<1>3. ASSUME NEW r \in B, r \notin S
      PROVE  Cardinality(A) = Share(Cardinality(B), Cardinality(G), n)
  <2>1. S \subseteq B /\ A = {}
    BY <1>0, <1>3
  <2>2. Cardinality(S) = n /\ Cardinality(S) <= Cardinality(B) /\ Cardinality(A) = 0
    BY <1>0, <1>2, <1>3, <2>1, Smaller, FS_EmptySet
  <2> HIDE DEF A, B, G
  <2> QED BY <1>1, <2>2 DEF Share
<1>4. ASSUME B \subseteq S, NEW r \in S, event_time[r] > t
      PROVE  Cardinality(A) = Share(Cardinality(B), Cardinality(G), n)
  <2>1. A = G /\ B \cup G \subseteq S
    BY <1>0, <1>4
  <2>2. Cardinality(B \cup G) = Cardinality(B) + Cardinality(G)
    BY <1>1, <1>2, Parts
  <2>3. S \subseteq Event
    BY <1>0
  <2>4. Cardinality(B \cup G) <= Cardinality(S)
    BY <2>1, <2>3, Smaller
  <2> HIDE DEF A, B, G
  <2> QED BY <1>0, <1>1, <2>1, <2>2, <2>4 DEF Share
<1>5. ASSUME B \subseteq S, \A r \in S : ~(event_time[r] > t)
      PROVE  Cardinality(A) = Share(Cardinality(B), Cardinality(G), n)
  <2>1. S = B \cup A /\ B \cap A = {}
    BY <1>0, <1>5
  <2>2. Cardinality(S) = Cardinality(B) + Cardinality(A)
    BY <1>1, <2>1, Parts
  <2>3. Cardinality(A) <= Cardinality(G)
    BY <1>2, Smaller
  <2>4. S = R => A = G
    OBVIOUS
  <2> HIDE DEF A, B, G
  <2> QED BY <1>0, <1>1, <2>2, <2>3, <2>4 DEF Share
<1> QED BY <1>3, <1>4, <1>5

\* What a page skips and what it shows begin the table together.
LEMMA SkippedAndShown ==
  ASSUME NEW R, R \subseteq Event, NEW o \in Nat, NEW n \in Nat, NEW skipped, NEW shown,
         Begins(skipped, R, o), Begins(shown, R \ skipped, n)
  PROVE  Begins(skipped \cup shown, R, o + n)
<1>1. /\ skipped \subseteq R /\ shown \subseteq R \ skipped
      /\ \A s \in skipped, r \in R \ skipped : event_time[s] <= event_time[r]
      /\ \A s \in shown, r \in (R \ skipped) \ shown : event_time[s] <= event_time[r]
      /\ Cardinality(skipped) <= o /\ (skipped = R \/ Cardinality(skipped) = o)
      /\ Cardinality(shown) <= n /\ (shown = R \ skipped \/ Cardinality(shown) = n)
  BY DEF Begins
<1>2. /\ IsFiniteSet(skipped) /\ Cardinality(skipped) \in Nat
      /\ IsFiniteSet(shown) /\ Cardinality(shown) \in Nat
  BY <1>1, Finite
<1>3. Cardinality(skipped \cup shown) = Cardinality(skipped) + Cardinality(shown)
  BY <1>1, <1>2, Parts
<1>4. Cardinality(skipped \cup shown) <= o + n
  BY <1>1, <1>2, <1>3
<1>5. skipped \cup shown = R \/ Cardinality(skipped \cup shown) = o + n
  BY <1>1, <1>2, <1>3
<1>6. \A s \in skipped \cup shown, r \in R \ (skipped \cup shown) :
        event_time[s] <= event_time[r]
  BY <1>1
<1> QED BY <1>1, <1>4, <1>5, <1>6 DEF Begins

\* A page shows of every time the share between its first row and its last.
LEMMA OnThePage ==
  ASSUME TypeOK, NEW o \in Nat, NEW skipped, NEW shown,
         Begins(skipped, Present, o), Begins(shown, Present \ skipped, PageSize),
         NEW t \in Nat
  PROVE  Cardinality({e \in shown : event_time[e] = t}) =
           Share(Cardinality(Before(t)), Cardinality(At(t)), o + PageSize)
             - Share(Cardinality(Before(t)), Cardinality(At(t)), o)
<1> DEFINE U == skipped \cup shown
           K == {e \in skipped : event_time[e] = t}
           H == {e \in shown : event_time[e] = t}
           V == {e \in U : event_time[e] = t}
<1>0. /\ Present \subseteq Event /\ event_time \in [Event -> Nat]
      /\ PageSize \in Nat /\ o + PageSize \in Nat
  BY Times, SizeAssumption DEF Present
<1>1. Begins(U, Present, o + PageSize)
  BY <1>0, SkippedAndShown
<1>2. /\ Cardinality(K) = Share(Cardinality(Before(t)), Cardinality(At(t)), o)
      /\ Cardinality(V) = Share(Cardinality(Before(t)), Cardinality(At(t)), o + PageSize)
  <2> HIDE DEF U
  <2> QED BY <1>0, <1>1, ShareOfTheFirst DEF Before, At
<1>3. V = K \cup H /\ K \cap H = {} /\ K \subseteq Event /\ H \subseteq Event
  BY <1>0 DEF Begins
<1>4. /\ Cardinality(V) = Cardinality(K) + Cardinality(H)
      /\ Cardinality(K) \in Nat /\ Cardinality(H) \in Nat
  BY <1>3, Finite, Parts
<1> HIDE DEF U, K, H, V
<1>5. Cardinality(H) = Cardinality(V) - Cardinality(K)
  BY <1>4
<1> QED BY <1>2, <1>5 DEF H

\* A page enters a row once.
LEMMA Entries ==
  ASSUME NEW p, NEW S, IsFiniteSet(S)
  PROVE  /\ IsFiniteSet({p} \X S)
         /\ Cardinality({p} \X S) = Cardinality(S)
<1> DEFINE f == [e \in S |-> <<p, e>>]
<1>1. f \in Bijection(S, {p} \X S)
  BY DEF Bijection, Injection, Surjection, IsInjective
<1>2. ExistsBijection(S, {p} \X S)
  BY <1>1 DEF ExistsBijection
<1> QED BY <1>2, FS_Bijection

\* A share is a number of rows.
LEMMA ShareType ==
  ASSUME NEW b \in Nat, NEW n \in Nat, NEW k \in Int
  PROVE  Share(b, n, k) \in Nat
BY DEF Share

LEMMA Shares ==
  ASSUME NEW b \in Nat, NEW n \in Nat, NEW k \in Int
  PROVE  /\ Share(b, n, k) <= n
         /\ k >= b + n => Share(b, n, k) = n
         /\ \A c \in Nat : b <= c => Share(c, n, k) <= Share(b, n, k)
         /\ \A l \in Int : k <= l => Share(b, n, k) <= Share(b, n, l)
  BY DEF Share

\* A page adds to the share of some rows at least what it adds to that of all.
LEMMA ShareGrows ==
  ASSUME NEW b \in Nat, NEW m \in Nat, NEW n \in Nat, m <= n, NEW k \in Nat,
         NEW l \in Nat, k <= l, NEW c \in Nat, c >= Share(b, m, k)
  PROVE  c + (Share(b, n, l) - Share(b, n, k)) >= Share(b, m, l)
  BY DEF Share

\* One page further.
LEMMA Pages ==
  ASSUME TypeOK
  PROVE  /\ page \in Nat /\ Offset \in Nat /\ page * PageSize \in Nat
         /\ PageSize \in Nat \ {0} /\ LastPage \in Nat
         /\ page * PageSize = Offset + PageSize
         /\ (page + 1 - 1) * PageSize = page * PageSize
<1>1. page \in Nat \ {0} /\ PageSize \in Nat \ {0}
  BY SizeAssumption DEF TypeOK
<1>2. PICK p \in Nat : page = p + 1
  BY <1>1
<1>3. p * PageSize \in Nat /\ (p + 1) * PageSize = p * PageSize + PageSize
  BY <1>1
<1>4. page - 1 = p /\ page + 1 - 1 = page
  BY <1>1, <1>2
<1> QED BY <1>1, <1>2, <1>3, <1>4, SizeAssumption DEF Offset

\* Fewer pages hold fewer rows.
LEMMA FewerPages ==
  ASSUME NEW m \in Nat, NEW n \in Nat, m <= n, NEW k \in Nat
  PROVE  m * k <= n * k
<1>1. PICK d \in Nat : n = m + d
  BY n - m \in Nat, n = m + (n - m)
<1>2. n * k = m * k + d * k /\ d * k \in Nat /\ m * k \in Nat
  BY <1>1
<1> QED BY <1>2

LEMMA InitInv == Init => Inv
<1> SUFFICES ASSUME Init PROVE Inv
  OBVIOUS
<1>0. Offset = 0 /\ Cardinality(Present) \in Nat /\ Present \subseteq Event
  <2>1. Present \subseteq Event
    BY DEF Present
  <2>2. Offset = 0 * PageSize /\ 0 * PageSize = 0
    BY SizeAssumption DEF Init, Offset
  <2> QED BY <2>1, <2>2, Finite
<1>1. TypeOK
  <2>1. (page - 1) * PageSize <= total
    BY <1>0 DEF Init, Offset
  <2>2. total \in 0 .. Cardinality(Event) /\ writes \in 0 .. MaxWrites /\ late \in 0 .. writes
    BY EventAssumption, FS_CardinalityType, SizeAssumption DEF Init
  <2>3. first \subseteq Event /\ page \in Nat \ {0} /\ sent \subseteq (1 .. page) \X Event
    BY <1>0 DEF Init
  <2> QED BY <2>1, <2>2, <2>3 DEF Init, TypeOK
<1>2. Counting
  BY <1>0, SizeAssumption DEF Init, Counting
<1>3. Done = 0
  BY <1>0 DEF Init, Done
<1>4. ASSUME NEW t \in Time
      PROVE  /\ Cardinality(Sent(t)) = 0
             /\ \A n : Share(Cardinality(Before(t)), n, Done) = 0
  <2>1. Sent(t) = {}
    BY DEF Init, Sent
  <2>2. Before(t) \subseteq Event
    BY DEF Before, Present
  <2>3. Cardinality(Before(t)) \in Nat
    BY <2>2, Finite
  <2> QED BY <1>3, <2>1, <2>3, FS_EmptySet DEF Share
<1>5. Exact
  BY <1>4 DEF Exact
<1>6. Shown
  BY <1>4 DEF Shown
<1> QED BY <1>1, <1>2, <1>5, <1>6 DEF Inv

-----------------------------------------------------------------------------
(* The steps.                                                              *)

LEMMA UpsertInv ==
  ASSUME Inv, NEW e0 \in Event, NEW t0 \in Time, Upsert(e0, t0)
  PROVE  Inv'
<1>0. /\ event_time \in [Event -> Time \cup {0}] /\ Time \subseteq Nat \ {0}
      /\ writes \in Nat /\ moved \in BOOLEAN /\ late \in Nat /\ late <= writes
      /\ total \in Nat /\ Cardinality(Event) \in Nat /\ MaxWrites \in Nat
  BY TimeAssumption, SizeAssumption, EventAssumption, FS_CardinalityType DEF Inv, TypeOK
<1>1. /\ event_time' = [event_time EXCEPT ![e0] = t0] /\ writes' = writes + 1
      /\ writes < MaxWrites
      /\ moved' = (moved \/ event_time[e0] \notin {0, t0})
      /\ late' = IF event_time[e0] = 0 /\ pc = "counted" THEN late + 1 ELSE late
      /\ pc \in {"asking", "counted"}
      /\ UNCHANGED <<pc, page, total, sent, first>>
  BY DEF Upsert, walkVars
<1>2. /\ Present \subseteq Event
      /\ Present' = Present \cup {e0}
      /\ event_time[e0] = 0 <=> e0 \notin Present
  <2>1. \A e \in Event : event_time'[e] = IF e = e0 THEN t0 ELSE event_time[e]
    BY <1>0, <1>1
  <2>2. t0 \in Nat /\ t0 > 0
    BY <1>0
  <2>3. \A e \in Event : event_time[e] \in Nat
    BY Times DEF Inv
  <2> QED BY <2>1, <2>2, <2>3 DEF Present
<1>3. TypeOK'
  <2>1. event_time' \in [Event -> Time \cup {0}] /\ writes' \in 0 .. MaxWrites
    BY <1>0, <1>1
  <2>2. moved' \in BOOLEAN /\ late' \in 0 .. writes'
    BY <1>0, <1>1
  <2> QED BY <1>1, <2>1, <2>2 DEF Inv, TypeOK
<1>4. Counting'
  <2>1. /\ IsFiniteSet(Present) /\ Cardinality(Present) \in Nat
        /\ Cardinality(Present') =
             IF e0 \in Present THEN Cardinality(Present) ELSE Cardinality(Present) + 1
    BY <1>2, Finite, FS_AddElement
  <2>2. total <= Cardinality(Present')
    BY <2>1, <1>0 DEF Inv, Counting
  <2>3. pc = "counted" => total + late' = Cardinality(Present')
    BY <1>0, <1>1, <1>2, <2>1 DEF Inv, Counting
  <2>4. first \subseteq Present' /\ writes' # 0
    BY <1>0, <1>1, <1>2 DEF Inv, Counting
  <2>5. \A s \in sent : s[2] \in Present'
    BY <1>2 DEF Inv, Counting
  <2> QED BY <1>1, <2>2, <2>3, <2>4, <2>5 DEF Inv, Counting
<1>5. Exact'
  BY <1>0, <1>1 DEF Exact
<1>6. Shown'
  <2> SUFFICES ASSUME ~moved', NEW t \in Time
               PROVE  Cardinality(Sent(t)') >=
                        Share(Cardinality(Before(t)'), Cardinality((first \cap At(t))'), Done')
    BY DEF Shown
  <2>1. ~moved /\ event_time[e0] \in {0, t0} /\ first \subseteq Present
    BY <1>0, <1>1 DEF Inv, Counting
  <2>2. \A d \in Present : event_time'[d] = event_time[d]
    BY <1>0, <1>1, <2>1 DEF Present
  <2>3. Sent(t)' = Sent(t)
    <3>1. \A s \in sent : event_time'[s[2]] = event_time[s[2]]
      BY <2>2 DEF Inv, Counting
    <3> QED BY <1>1, <3>1 DEF Sent
  <2>4. (first \cap At(t))' = first \cap At(t)
    BY <1>1, <1>2, <2>1, <2>2 DEF At
  <2>5. Before(t) \subseteq Before(t)' /\ Before(t)' \subseteq Event
    BY <1>2, <2>2 DEF Before
  <2>6. /\ Cardinality(Before(t)) <= Cardinality(Before(t)')
        /\ Cardinality(Before(t)) \in Nat /\ Cardinality(Before(t)') \in Nat
        /\ Cardinality(first \cap At(t)) \in Nat
    <3>1. first \cap At(t) \subseteq Event
      BY <1>2 DEF At
    <3> QED BY <2>5, <3>1, Smaller, Finite
  <2>7. Done' = Done /\ Done \in Nat /\ Done \in Int
    BY <1>1, Pages DEF Done, Offset, Inv
  <2>8. Share(Cardinality(Before(t)'), Cardinality(first \cap At(t)), Done)
          <= Share(Cardinality(Before(t)), Cardinality(first \cap At(t)), Done)
    BY <2>6, <2>7, Shares
  <2>9. /\ Share(Cardinality(Before(t)'), Cardinality(first \cap At(t)), Done) \in Nat
        /\ Share(Cardinality(Before(t)), Cardinality(first \cap At(t)), Done) \in Nat
        /\ Cardinality(Sent(t)) \in Nat
    BY <2>6, <2>7, ShareType, FiniteSent DEF Inv
  <2>10. Cardinality(Sent(t)) >= Share(Cardinality(Before(t)), Cardinality(first \cap At(t)), Done)
    BY <2>1 DEF Inv, Shown
  <2> HIDE DEF Inv
  <2> QED BY <2>3, <2>4, <2>7, <2>8, <2>9, <2>10
<1> QED BY <1>3, <1>4, <1>5, <1>6 DEF Inv

\* The count and the refusal leave the rows and what was shown as they are.
LEMMA CountInv ==
  ASSUME Inv, Count \/ Refuse
  PROVE  Inv'
<1>0. /\ pc = "asking" /\ pc' \in {"counted", "refused"}
      /\ pc' = "counted" => total' = Cardinality(Present) /\ page <= LastPage /\ late' = 0
      /\ pc' = "refused" => total' = total /\ page > LastPage /\ late' = late
      /\ UNCHANGED <<event_time, page, sent, first, writes, moved>>
  BY DEF Count, Refuse
<1>1. /\ Present' = Present /\ Present \subseteq Event
      /\ \A t : Before(t)' = Before(t) /\ At(t)' = At(t) /\ Sent(t)' = Sent(t)
  BY <1>0 DEF Present, Before, At, Sent
<1>2. Cardinality(Present) \in 0 .. Cardinality(Event)
  <2>1. Cardinality(Event) \in Nat
    BY EventAssumption, FS_CardinalityType
  <2> QED BY <1>1, <2>1, Finite, Smaller
<1>3. TypeOK'
  <2>1. (page - 1) * PageSize <= total'
    <3>1. Offset \in Nat /\ Offset <= total /\ total \in Nat /\ total <= Cardinality(Present)
      BY Pages DEF Inv, TypeOK, Counting, Offset
    <3> HIDE DEF Inv
    <3>2. Offset <= total'
      BY <3>1, <1>0, <1>2
    <3> QED BY <3>2 DEF Offset
  <2>2. total' \in 0 .. Cardinality(Event)
    BY <1>0, <1>2 DEF Inv, TypeOK
  <2>3. late' \in 0 .. writes
    BY <1>0 DEF Inv, TypeOK
  <2> QED BY <1>0, <2>1, <2>2, <2>3 DEF Inv, TypeOK
<1>4. Counting'
  <2>1. total' <= Cardinality(Present)
    BY <1>0, <1>2 DEF Inv, Counting
  <2>2. pc' = "counted" => total' + late' = Cardinality(Present)
    BY <1>0, <1>2
  <2>3. \A s \in sent : s[2] \in Present /\ s[1] < page
    BY <1>0 DEF Inv, Counting
  <2> QED BY <1>0, <1>1, <2>1, <2>2, <2>3 DEF Inv, Counting
<1>5. Done' = Done
  BY <1>0 DEF Done, Offset
<1>6. Exact'
  BY <1>0, <1>1, <1>5 DEF Inv, Exact
<1>7. Shown'
  BY <1>0, <1>1, <1>5 DEF Inv, Shown
<1> QED BY <1>3, <1>4, <1>6, <1>7 DEF Inv

LEMMA ListInv ==
  ASSUME Inv, List
  PROVE  Inv'
<1>1. PICK skipped \in SUBSET Present, shown \in SUBSET Present :
        /\ Begins(skipped, Present, Offset)
        /\ Begins(shown, Present \ skipped, PageSize)
        /\ sent' = sent \cup {page} \X shown
  BY DEF List
<1>2. /\ pc = "counted"
      /\ IF page * PageSize < total THEN pc' = "asking" /\ page' = page + 1
                                    ELSE pc' = "ended" /\ page' = page
      /\ UNCHANGED <<event_time, total, first, writes, moved, late>>
  BY DEF List, HasNext
<1>3. /\ Present' = Present /\ Present \subseteq Event /\ first \subseteq Present
      /\ \A t : Before(t)' = Before(t) /\ At(t)' = At(t)
  BY <1>2 DEF Present, Before, At, Inv, Counting
<1>4. /\ page \in Nat \ {0} /\ total \in Nat /\ PageSize \in Nat \ {0}
      /\ page <= LastPage /\ LastPage \in Nat
      /\ sent \subseteq (1 .. page) \X Event
      /\ \A s \in sent : s[2] \in Present /\ s[1] < page
  BY <1>2, SizeAssumption DEF Inv, TypeOK, Counting
<1>5. /\ Done = Offset /\ Offset \in Nat /\ Offset + PageSize \in Nat
      /\ page * PageSize = Offset + PageSize
  BY <1>2, Pages DEF Done, Inv
<1>6. Done' = Offset + PageSize
  <2>1. (page + 1 - 1) * PageSize = Offset + PageSize
    BY Pages DEF Inv
  <2>2. CASE page * PageSize < total
    <3>1. Offset' = (page + 1 - 1) * PageSize /\ pc' # "ended"
      <4>1. pc' = "asking" /\ page' = page + 1
        BY <1>2, <2>2
      <4>2. Offset' = (page' - 1) * PageSize
        BY DEF Offset
      <4>3. page' - 1 = page + 1 - 1
        BY <4>1, <1>4
      <4>4. Offset' = (page + 1 - 1) * PageSize
        BY <4>2, <4>3, Zenon
      <4>5. pc' # "ended"
        BY <4>1
      <4> QED BY <4>4, <4>5
    <3> QED BY <2>1, <3>1 DEF Done
  <2>3. CASE ~(page * PageSize < total)
    BY <1>2, <1>5, <2>3 DEF Done
  <2> QED BY <2>2, <2>3
\* What the page adds at one time.
<1>7. ASSUME NEW t \in Time
      PROVE  /\ Cardinality(Before(t)) \in Nat /\ Cardinality(At(t)) \in Nat
             /\ Cardinality(Sent(t)) \in Nat
             /\ Cardinality(Sent(t)') = Cardinality(Sent(t))
                  + (Share(Cardinality(Before(t)), Cardinality(At(t)), Offset + PageSize)
                     - Share(Cardinality(Before(t)), Cardinality(At(t)), Offset))
  <2> DEFINE X == {e \in shown : event_time[e] = t}
  <2>1. Before(t) \subseteq Event /\ At(t) \subseteq Event /\ X \subseteq Event /\ t \in Nat
    BY <1>3, TimeAssumption DEF Before, At
  <2>2. Sent(t)' = Sent(t) \cup ({page} \X X)
    BY <1>1, <1>2 DEF Sent
  <2>3. Sent(t) \cap ({page} \X X) = {}
    BY <1>4 DEF Sent
  <2>4. IsFiniteSet(Sent(t)) /\ Cardinality(Sent(t)) \in Nat
    BY FiniteSent DEF Inv
  <2>5. IsFiniteSet(X) /\ Cardinality(X) \in Nat
    BY <2>1, Finite
  <2>6. Cardinality(X) = Share(Cardinality(Before(t)), Cardinality(At(t)), Offset + PageSize)
                          - Share(Cardinality(Before(t)), Cardinality(At(t)), Offset)
    BY <1>1, <1>5, <2>1, OnThePage DEF Inv
  <2> HIDE DEF X
  <2>7. IsFiniteSet({page} \X X) /\ Cardinality({page} \X X) = Cardinality(X)
    BY <2>5, Entries
  <2>8. Cardinality(Sent(t)') = Cardinality(Sent(t)) + Cardinality(X)
    BY <2>2, <2>3, <2>4, <2>7, Parts
  <2> QED BY <2>1, <2>4, <2>6, <2>8, Finite
<1>8. \A s \in sent' : s \in (1 .. page) \X Event /\ s[2] \in Present /\ s[1] <= page
  <2>1. \A s \in {page} \X shown : s \in (1 .. page) \X Event /\ s[2] \in Present /\ s[1] <= page
    BY <1>1, <1>3, <1>4
  <2> QED BY <1>1, <1>4, <2>1
<1>9. TypeOK'
  <2>1. page' \in Nat \ {0} /\ page <= page'
    BY <1>2, <1>4
  <2>2. sent' \subseteq (1 .. page') \X Event
    BY <1>4, <1>8, <2>1
  <2>3. (page' - 1) * PageSize <= total
    <3>1. CASE page * PageSize < total
      BY <1>2, <1>4, <1>5, <3>1, Pages DEF Inv
    <3>2. CASE ~(page * PageSize < total)
      BY <1>2, <3>2 DEF Inv, TypeOK
    <3> QED BY <3>1, <3>2
  <2> QED BY <1>2, <2>1, <2>2, <2>3 DEF Inv, TypeOK
<1>10. Counting'
  <2>1. total <= Cardinality(Present) /\ total + late = Cardinality(Present) /\ (writes = 0 => ~moved)
    BY <1>2 DEF Inv, Counting
  <2>2. CASE page * PageSize < total
    <3>1. pc' = "asking" /\ page' = page + 1
      BY <1>2, <2>2
    <3>2. \A s \in sent' : s[2] \in Present /\ s[1] < page + 1
      BY <1>4, <1>8
    <3>3. page + 1 <= LastPage + 1
      BY <1>4
    <3> QED BY <1>2, <1>3, <2>1, <3>1, <3>2, <3>3 DEF Counting
  <2>3. CASE ~(page * PageSize < total)
    <3>1. total <= page * PageSize /\ pc' = "ended" /\ page' = page
      BY <1>2, <1>4, <1>5, <2>3
    <3> QED BY <1>2, <1>3, <1>4, <1>8, <2>1, <3>1 DEF Counting
  <2> QED BY <2>2, <2>3
<1>11. Exact'
  <2> SUFFICES ASSUME writes = 0, NEW t \in Time
               PROVE  Cardinality(Sent(t)') =
                        Share(Cardinality(Before(t)), Cardinality(At(t)), Offset + PageSize)
    BY <1>2, <1>3, <1>6 DEF Exact
  <2>1. Cardinality(Sent(t)) = Share(Cardinality(Before(t)), Cardinality(At(t)), Offset)
    BY <1>5 DEF Inv, Exact
  <2>2. Share(Cardinality(Before(t)), Cardinality(At(t)), Offset + PageSize) \in Nat
    BY <1>5, <1>7, ShareType
  <2> QED BY <1>7, <2>1, <2>2
<1>12. Shown'
  <2> SUFFICES ASSUME ~moved, NEW t \in Time
               PROVE  Cardinality(Sent(t)') >=
                        Share(Cardinality(Before(t)), Cardinality(first \cap At(t)), Offset + PageSize)
    BY <1>2, <1>3, <1>6 DEF Shown
  <2>1. Cardinality(Sent(t)) >= Share(Cardinality(Before(t)), Cardinality(first \cap At(t)), Offset)
    BY <1>5 DEF Inv, Shown
  <2>2. At(t) \subseteq Event /\ first \cap At(t) \subseteq At(t)
    BY <1>3 DEF At
  <2>3. /\ Cardinality(first \cap At(t)) \in Nat
        /\ Cardinality(first \cap At(t)) <= Cardinality(At(t))
    BY <2>2, Finite, Smaller
  <2>4. Offset <= Offset + PageSize
    BY <1>4, <1>5
  <2> QED BY <1>5, <1>7, <2>1, <2>3, <2>4, ShareGrows
<1> QED BY <1>9, <1>10, <1>11, <1>12 DEF Inv

LEMMA NextInv == Inv /\ [Next]_vars => Inv'
<1> SUFFICES ASSUME Inv, [Next]_vars PROVE Inv'
  OBVIOUS
<1>1. ASSUME NEW e \in Event, NEW t \in Time, Upsert(e, t) PROVE Inv'
  BY <1>1, UpsertInv
<1>2. CASE Count \/ Refuse
  BY <1>2, CountInv
<1>3. CASE List
  BY <1>3, ListInv
<1>4. CASE UNCHANGED vars
  BY <1>4 DEF vars, walkVars, Inv, TypeOK, Counting, Exact, Shown, Done, Offset,
     Present, Before, At, Sent
<1> QED BY <1>1, <1>2, <1>3, <1>4 DEF Next

LEMMA SpecInv == Spec => []Inv
BY InitInv, NextInv, PTL DEF Spec

-----------------------------------------------------------------------------

\* Type correctness; a page is asked for only when rows were counted before it.
THEOREM PagingTypes == Spec => []TypeOK
BY SpecInv, PTL DEF Inv

\* At the end of a walk: what it should have shown, and what it can reach.
LEMMA AtTheEnd ==
  ASSUME Inv, pc \in {"ended", "refused"}
  PROVE  /\ Done \in Nat /\ Reachable \in Nat /\ Done <= Reachable
         /\ pc = "refused" => Done = Reachable
         /\ pc = "ended" => Cardinality(Present) - late <= Done
         /\ Cardinality(Present) \in Nat /\ late \in Nat
<1>0. /\ Cardinality(Present) \in Nat /\ late \in Nat /\ total \in Nat
      /\ page \in Nat /\ LastPage \in Nat /\ PageSize \in Nat
      /\ LastPage * PageSize \in Nat
  <2>1. Present \subseteq Event
    BY DEF Present
  <2>2. LastPage \in Nat /\ PageSize \in Nat
    BY SizeAssumption
  <2>3. late \in Nat /\ total \in Nat /\ page \in Nat
    BY DEF Inv, TypeOK
  <2> QED BY <2>1, <2>2, <2>3, Finite
<1>1. CASE pc = "refused"
  <2>1. page - 1 = LastPage
    BY <1>0, <1>1 DEF Inv, Counting
  <2>2. Done = LastPage * PageSize
    BY <1>1, <2>1 DEF Done, Offset
  <2> QED BY <1>0, <1>1, <2>2 DEF Reachable
<1>2. CASE pc = "ended"
  <2>1. total + late = Cardinality(Present) /\ total <= page * PageSize /\ page <= LastPage
    BY <1>2 DEF Inv, Counting
  <2>2. page * PageSize <= LastPage * PageSize
    BY <1>0, <2>1, FewerPages
  <2>3. page * PageSize \in Nat
    BY Pages DEF Inv
  <2>4. Done = page * PageSize
    BY <1>2 DEF Done
  <2> HIDE DEF Inv
  <2> QED BY <1>0, <1>2, <2>1, <2>2, <2>3, <2>4 DEF Reachable
<1> QED BY <1>1, <1>2

\* The rows before a time, at it, and all of them.
LEMMA Rows ==
  ASSUME TypeOK, NEW t
  PROVE  /\ Cardinality(Before(t)) \in Nat /\ Cardinality(At(t)) \in Nat
         /\ t \in Nat => Cardinality(Before(t)) + Cardinality(At(t)) <= Cardinality(Present)
<1>1. /\ Before(t) \subseteq Present /\ At(t) \subseteq Present /\ Present \subseteq Event
      /\ t \in Nat => Before(t) \cap At(t) = {}
  BY DEF Before, At, Present
<1>2. /\ IsFiniteSet(Before(t)) /\ Cardinality(Before(t)) \in Nat
      /\ IsFiniteSet(At(t)) /\ Cardinality(At(t)) \in Nat
  BY <1>1, Finite
<1>3. Cardinality(Before(t) \cup At(t)) <= Cardinality(Present)
  BY <1>1, Smaller
<1>4. t \in Nat => Cardinality(Before(t) \cup At(t)) = Cardinality(Before(t)) + Cardinality(At(t))
  BY <1>1, <1>2, Parts
<1> QED BY <1>2, <1>3, <1>4

LEMMA InvSeenOnce == Inv => SeenOnce
<1> SUFFICES ASSUME Inv, pc \in {"ended", "refused"}, writes = 0, NEW t \in Time
             PROVE  Cardinality(Sent(t)) =
                      Share(Cardinality(Before(t)), Cardinality(At(t)), Reachable)
  BY DEF SeenOnce
<1>1. Cardinality(Sent(t)) = Share(Cardinality(Before(t)), Cardinality(At(t)), Done)
  BY DEF Inv, Exact
<1>2. /\ Cardinality(Before(t)) \in Nat /\ Cardinality(At(t)) \in Nat
      /\ Cardinality(Before(t)) + Cardinality(At(t)) <= Cardinality(Present)
  BY Rows, TimeAssumption DEF Inv
<1>3. late = 0
  BY DEF Inv, TypeOK
<1>4. CASE Done = Reachable
  BY <1>1, <1>4
<1>5. CASE Done # Reachable
  <2>1. /\ Done \in Nat /\ Reachable \in Nat /\ Done <= Reachable
        /\ Cardinality(Present) <= Done /\ Cardinality(Present) \in Nat
    BY <1>3, <1>5, AtTheEnd
  <2>2. /\ Done >= Cardinality(Before(t)) + Cardinality(At(t))
        /\ Reachable >= Cardinality(Before(t)) + Cardinality(At(t))
    BY <1>2, <2>1
  <2> QED BY <1>1, <1>2, <2>1, <2>2, Shares
<1> QED BY <1>4, <1>5

\* The pages of a table at rest take its rows in turn, whatever the ties, the
\* sizes and the order in which ties come up: of each event_time the walk shows
\* as many rows as have it, up to page LastPage.
THEOREM PagingSeenOnce == Spec => []SeenOnce
BY SpecInv, InvSeenOnce, PTL

LEMMA InvNothingHidden == Inv => NothingHidden
<1> DEFINE counted == Cardinality(Present) - late
           k == IF counted <= Reachable THEN counted ELSE Reachable
<1> SUFFICES ASSUME Inv, pc \in {"ended", "refused"}, ~moved, NEW t \in Time
             PROVE  Cardinality(Sent(t)) >=
                      Share(Cardinality(Before(t)), Cardinality(first \cap At(t)), k)
  BY DEF NothingHidden
<1>1. k \in Int /\ Done \in Int /\ k <= Done
  BY AtTheEnd
<1> HIDE DEF k
<1>2. Cardinality(Sent(t)) >= Share(Cardinality(Before(t)), Cardinality(first \cap At(t)), Done)
  BY DEF Inv, Shown
<1>3. Cardinality(Before(t)) \in Nat /\ Cardinality(first \cap At(t)) \in Nat
  <2>1. first \cap At(t) \subseteq Event
    BY DEF At, Present
  <2> QED BY <2>1, Rows, Finite DEF Inv
<1>4. /\ Share(Cardinality(Before(t)), Cardinality(first \cap At(t)), k)
           <= Share(Cardinality(Before(t)), Cardinality(first \cap At(t)), Done)
      /\ Share(Cardinality(Before(t)), Cardinality(first \cap At(t)), k) \in Nat
      /\ Share(Cardinality(Before(t)), Cardinality(first \cap At(t)), Done) \in Nat
  <2>1. /\ Share(Cardinality(Before(t)), Cardinality(first \cap At(t)), k) \in Nat
        /\ Share(Cardinality(Before(t)), Cardinality(first \cap At(t)), Done) \in Nat
    BY <1>1, <1>3, ShareType
  <2> QED BY <1>1, <1>3, <2>1, Shares
<1>5. Cardinality(Sent(t)) \in Nat
  BY FiniteSent DEF Inv
<1> HIDE DEF Inv
<1> QED BY <1>2, <1>4, <1>5

\* However many rows come in during the walk, it shows of each event_time at least
\* as many rows as it found when it began, ties and refused walks included; what
\* can be out of sight is beyond page LastPage, or one row at the end for each that
\* came between the last count and its page.  Rows that move void it.
THEOREM PagingNothingHidden == Spec => []NothingHidden
BY SpecInv, InvNothingHidden, PTL

=============================================================================
