----------------------------- MODULE KeyPromise -----------------------------
(***************************************************************************)
(* What idempotency keys promise the clients that use them, with no lock,  *)
(* session, provider or table in sight (README "Идемпотентность            *)
(* регистрации"): per key one purchase at a time, none once there is a     *)
(* recorded one, and a record that is kept for ever and decides what       *)
(* everybody is answered -- 201 to the same data, 409 to other data, and a *)
(* refusal only while there is no record.  An error promises nothing.      *)
(***************************************************************************)
CONSTANTS
  Request,   \* the requests with a key
  Key,
  KeyOf,     \* KeyOf[r]: the key of r
  Data,      \* Data[r]: what r asks for
  None

VARIABLES
  record,    \* record[k]: the request recorded under k, or None
  buying,    \* requests that have bought a seat and are yet to be recorded
  answer     \* answer[r]: "none", "created", "conflict", "refused" or "error"

keyVars == <<record, buying, answer>>

Init ==
  /\ record = [k \in Key |-> None]
  /\ buying = {}
  /\ answer = [r \in Request |-> "none"]

Waiting == {r \in Request : answer[r] = "none"}

\* A purchase: none is recorded under the key, nobody else's is under way.
Buy(r) ==
  /\ r \in Waiting
  /\ record[KeyOf[r]] = None
  /\ \A q \in buying : KeyOf[q] # KeyOf[r]
  /\ buying' = buying \cup {r}
  /\ UNCHANGED <<record, answer>>

\* The purchase is recorded; its client may not hear of it any more.
Record(r) ==
  /\ r \in buying
  /\ record[KeyOf[r]] = None
  /\ record' = [record EXCEPT ![KeyOf[r]] = r]
  /\ buying' = buying \ {r}
  /\ answer' \in {answer, [answer EXCEPT ![r] = "error"]}

\* Who has not bought anything learns what is recorded, or that nothing is.
Reply(r) ==
  /\ r \in Waiting \ buying
  /\ answer' = [answer EXCEPT ![r] =
                  IF record[KeyOf[r]] = None THEN "refused"
                  ELSE IF Data[r] = Data[record[KeyOf[r]]] THEN "created"
                  ELSE "conflict"]
  /\ UNCHANGED <<record, buying>>

\* Errors: one request fails, or all do that are under way in a process.
Fail(R) ==
  /\ R \subseteq Waiting
  /\ answer' = [r \in Request |-> IF r \in R THEN "error" ELSE answer[r]]
  /\ buying' = buying \ R
  /\ UNCHANGED record

Next ==
  \/ \E r \in Request : Buy(r) \/ Record(r) \/ Reply(r)
  \/ \E R \in SUBSET Request : Fail(R)

Spec == Init /\ [][Next]_keyVars
=============================================================================
