----------------------------- MODULE MCTickets -----------------------------
(***************************************************************************)
(* Small worlds for Tickets: who asks for what, under which key.           *)
(***************************************************************************)
EXTENDS Tickets, TLC

CONSTANTS r1, r2, r3, r4, c1, c2, ann, bob, a, b, k1, k2, l1

\* A double click (r1, r2), another request under the same key (r3), and a
\* request for the same seat whose key hashes to the same advisory lock (r4).
ClickKey == (r1 :> k1) @@ (r2 :> k1) @@ (r3 :> k1) @@ (r4 :> k2)
ClickPerson == (r1 :> ann) @@ (r2 :> ann) @@ (r3 :> ann) @@ (r4 :> bob)
ClickSeat == (r1 :> a) @@ (r2 :> a) @@ (r3 :> b) @@ (r4 :> a)
ClickLock == (k1 :> l1) @@ (k2 :> l1)

\* A request and its repetition.
RetryKey == (r1 :> k1) @@ (r2 :> k1)
RetryPerson == (r1 :> ann) @@ (r2 :> ann)
RetrySeat == (r1 :> a) @@ (r2 :> a)
RetryLock == k1 :> l1

\* One seat bought, cancelled and bought again by somebody else.
ResaleKey == (r1 :> None) @@ (r2 :> None)
ResalePerson == (r1 :> ann) @@ (r2 :> bob)
ResaleSeat == (r1 :> a) @@ (r2 :> a) @@ (c1 :> a) @@ (c2 :> a)

NoLock == [k \in {} |-> l1]
=============================================================================
