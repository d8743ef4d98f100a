---------------------------- MODULE OutboxProofs ----------------------------
(***************************************************************************)
(* Theorems about the outbox for every set of rows and publishers, every   *)
(* batch size and every limit.  The layers of the invariant:               *)
(*   Sane       types, and attempts below the limit while a row is pending *)
(*   Honest     what a publisher is about to commit is what Capashino did  *)
(*   Accounted  with exclusive publishers, batches are disjoint and fresh, *)
(*              and every request is paid for                              *)
(*   Locking    a publisher has its whole batch locked or nothing, and no  *)
(*              two of them have locked one row                            *)
(***************************************************************************)
EXTENDS Outbox, FiniteSetTheorems, TLAPS

Below ==
  /\ \A r \in Row : status[r] = "pending" => attempts[r] < MaxAttempts
  /\ \A w \in Worker : \A r \in todo[w] : seen[w][r] < MaxAttempts

Sane == TypeOK /\ Below

LEMMA InitSane == Init => Sane
  BY LimitAssumption DEF Init, Sane, TypeOK, Below, Status, Reply

\* What one commit does to a row of the batch, whoever else has touched it.
LEMMA RecordSane ==
  ASSUME Sane, NEW w \in Worker, NEW r \in todo[w], Record(w, r)
  PROVE  /\ status' \in [Row -> Status]
         /\ attempts' \in [Row -> 0 .. MaxAttempts]
         /\ \A q \in Row : status'[q] = "pending" => attempts'[q] < MaxAttempts
<1>1. r \in Row /\ seen[w][r] \in Nat /\ seen[w][r] < MaxAttempts
  BY LimitAssumption DEF Sane, TypeOK, Below
<1>2. CASE reply[w] = "ok"
  BY <1>1, <1>2 DEF Record, MarkSent, Sane, TypeOK, Below, Status
<1>3. CASE reply[w] # "ok"
  <2>1. AttemptLimit(w) <= MaxAttempts /\ AttemptLimit(w) \in Nat
    BY LimitAssumption DEF AttemptLimit
  <2>2. /\ attempts' = [attempts EXCEPT ![r] = seen[w][r] + 1]
        /\ status' = [status EXCEPT ![r] = IF seen[w][r] + 1 >= AttemptLimit(w)
                                             THEN "failed" ELSE @]
    BY <1>3 DEF Record, MarkFailedAttempt
  <2>3. /\ status \in [Row -> Status]
        /\ attempts \in [Row -> 0 .. MaxAttempts]
        /\ \A q \in Row : status[q] = "pending" => attempts[q] < MaxAttempts
    BY DEF Sane, TypeOK, Below
  <2>4. seen[w][r] + 1 \in 0 .. MaxAttempts
    BY <1>1, LimitAssumption
  <2>5. status' \in [Row -> Status] /\ attempts' \in [Row -> 0 .. MaxAttempts]
    BY <2>2, <2>3, <2>4 DEF Status
  <2>6. status'[r] = "pending" => attempts'[r] < MaxAttempts
    <3>1. status'[r] = "pending" => ~(seen[w][r] + 1 >= AttemptLimit(w))
      BY <1>1, <2>2, <2>3
    <3>. QED BY <1>1, <2>1, <2>2, <2>3, <3>1, LimitAssumption
  <2>7. \A q \in Row \ {r} : status'[q] = status[q] /\ attempts'[q] = attempts[q]
    BY <2>2, <2>3
  <2>. QED BY <2>3, <2>5, <2>6, <2>7
<1>. QED BY <1>2, <1>3

LEMMA StepSane == Sane /\ [Next]_vars => Sane'
<1>. SUFFICES ASSUME Sane, [Next]_vars PROVE Sane'
  OBVIOUS
<1>1. CASE UNCHANGED vars
  BY <1>1 DEF vars, tableVars, workerVars, capashinoVars, Sane, TypeOK, Below
<1>2. ASSUME NEW r \in Row, Add(r) PROVE Sane'
  BY <1>2, LimitAssumption
  DEF Add, workerVars, capashinoVars, Sane, TypeOK, Below, Status
<1>3. ASSUME NEW w \in Worker, Fetch(w) PROVE Sane'
  <2>1. PICK S \in SUBSET Row :
          /\ IsBatch(S)
          /\ todo' = [todo EXCEPT ![w] = S]
          /\ held' = [held EXCEPT ![w] = S]
          /\ seen' = [seen EXCEPT ![w] = [r \in Row |-> IF r \in S THEN attempts[r]
                                                                  ELSE 0]]
    BY <1>3 DEF Fetch
  <2>2. \A r \in S : status[r] = "pending"
    BY <2>1 DEF IsBatch, Ready, Pending
  <2>3. TypeOK'
    BY <1>3, <2>1, LimitAssumption
    DEF Fetch, tableVars, capashinoVars, Sane, TypeOK, Status, Reply
  <2>4. Below'
    <3>1. \A r \in S : attempts[r] < MaxAttempts
      BY <2>2 DEF Sane, Below
    <3>. QED BY <1>3, <2>1, <3>1 DEF Fetch, tableVars, Sane, TypeOK, Below
  <2>. QED BY <2>3, <2>4 DEF Sane
<1>4. ASSUME NEW w \in Worker, Dispatch(w) PROVE Sane'
  <2>1. PICK r \in Row : Current(w, r) /\ (Acknowledge(w, r) \/ Send(w, r))
    BY <1>4 DEF Dispatch
  <2>2. /\ UNCHANGED <<tableVars, todo, seen, held, stopping, interruptions>>
        /\ pc' = [pc EXCEPT ![w] = "marking"]
    BY <1>4 DEF Dispatch
  <2>3. CASE Acknowledge(w, r)
    BY <2>2, <2>3 DEF tableVars, Acknowledge, capashinoVars, Sane, TypeOK, Below, Reply
  <2>4. CASE Send(w, r)
    <3>1. PICK answer \in Answer :
            /\ posts' = [posts EXCEPT ![r] = @ + 1]
            /\ delivered' = IF answer \in {"created", "lost"} THEN delivered \cup {r}
                                                              ELSE delivered
            /\ rejected' = IF answer = "rejected" THEN rejected \cup {r}
                                                  ELSE rejected
            /\ reply' = [reply EXCEPT ![w] = Classify(answer)]
      BY <2>4 DEF Send
    <3>2. Classify(answer) \in Reply
      BY DEF Classify, Reply
    <3>. QED BY <2>2, <3>1, <3>2 DEF tableVars, Sane, TypeOK, Below
  <2>. QED BY <2>1, <2>3, <2>4
<1>5. ASSUME NEW w \in Worker, Mark(w) PROVE Sane'
  <2>1. PICK r \in Row :
          /\ Current(w, r)
          /\ Record(w, r)
          /\ todo' = [todo EXCEPT ![w] = @ \ {r}]
          /\ pc' = [pc EXCEPT ![w] = IF todo[w] = {r} THEN "idle" ELSE "sending"]
    BY <1>5 DEF Mark
  <2>2. r \in todo[w]
    BY <2>1 DEF Current
  <2>. QED
    BY <1>5, <2>1, <2>2, RecordSane DEF Mark, capashinoVars, Sane, TypeOK, Below, Reply
<1>6. ASSUME NEW w \in Worker, CommitFails(w) PROVE Sane'
  <2>1. /\ status' \in [Row -> Status]
        /\ attempts' \in [Row -> 0 .. MaxAttempts]
        /\ \A q \in Row : status'[q] = "pending" => attempts'[q] < MaxAttempts
    <3>1. CASE UNCHANGED tableVars
      BY <3>1 DEF tableVars, Sane, TypeOK, Below
    <3>2. CASE \E r \in Row : Current(w, r) /\ Lockable(w, r) /\ Record(w, r)
      BY <3>2, RecordSane DEF Current
    <3>. QED BY <1>6, <3>1, <3>2 DEF CommitFails
  <2>. QED
    BY <1>6, <2>1, LimitAssumption
    DEF CommitFails, LeaveBatch, Interrupted, capashinoVars, Sane, TypeOK, Below, Reply
<1>7. ASSUME NEW w \in Worker, Stop(w) PROVE Sane'
  BY <1>7, LimitAssumption DEF Stop, Interrupted, tableVars, capashinoVars, Sane, TypeOK, Below
<1>8. ASSUME NEW w \in Worker, Exit(w) PROVE Sane'
  BY <1>8 DEF Exit, LeaveBatch, tableVars, capashinoVars, Sane, TypeOK, Below, Reply
<1>9. ASSUME NEW w \in Worker, Crash(w) PROVE Sane'
  BY <1>9, LimitAssumption
  DEF Crash, Interrupted, LeaveBatch, tableVars, capashinoVars, Sane, TypeOK, Below, Reply
<1>10. ASSUME NEW w \in Worker, Restart(w) PROVE Sane'
  BY <1>10 DEF Restart, tableVars, capashinoVars, Sane, TypeOK, Below
<1>. QED
  BY <1>1, <1>2, <1>3, <1>4, <1>5, <1>6, <1>7, <1>8, <1>9, <1>10
  DEF Next, Iterate, Disturb, EmptyPoll

\* Every variable keeps its type; in particular no row ever counts more than
\* MaxAttempts attempts, even when publishers overwrite one another's count.
THEOREM TypeCorrect == Spec => []TypeOK
<1>1. Spec => []Sane
  BY InitSane, StepSane, PTL DEF Spec
<1>. QED BY <1>1, PTL DEF Sane

-----------------------------------------------------------------------------
(* What a publisher is about to commit is what happened at Capashino.      *)

Counted ==
  /\ \A r \in Row : attempts[r] <= posts[r]
  /\ \A w \in Worker : \A r \in todo[w] : seen[w][r] <= posts[r]

Answered ==
  \A w \in Worker, r \in Row : pc[w] = "marking" /\ Current(w, r) =>
    /\ reply[w] = "ok" /\ r \notin Audit => r \in delivered
    /\ reply[w] = "permanent" => r \in rejected
    /\ reply[w] # "ok" => seen[w][r] < posts[r]

Honest == SentMeansDelivered /\ NoPrematureFailure /\ Counted /\ Answered

LEMMA InitHonest == Init => Honest
  BY DEF Init, Honest, SentMeansDelivered, NoPrematureFailure, Counted, Answered

\* A commit only writes an outcome its row has earned.
LEMMA RecordHonest ==
  ASSUME Sane, Honest, NEW w \in Worker, NEW r \in Row, pc[w] = "marking",
         Current(w, r), Record(w, r)
  PROVE  /\ \A q \in Row \ Audit : status'[q] = "sent" => q \in delivered
         /\ \A q \in Row : status'[q] = "failed" =>
              q \in rejected \/ posts[q] >= MaxAttempts
         /\ \A q \in Row : attempts'[q] <= posts[q]
<1>1. /\ status \in [Row -> Status]
      /\ attempts \in [Row -> 0 .. MaxAttempts]
      /\ r \in todo[w] /\ seen[w][r] \in Nat
      /\ posts \in [Row -> Nat]
  BY LimitAssumption DEF Sane, TypeOK, Current
<1>2. CASE reply[w] = "ok"
  BY <1>1, <1>2
  DEF Record, MarkSent, Honest, SentMeansDelivered, NoPrematureFailure, Counted,
      Answered
<1>3. CASE reply[w] # "ok"
  <2>1. /\ attempts' = [attempts EXCEPT ![r] = seen[w][r] + 1]
        /\ status' = [status EXCEPT ![r] = IF seen[w][r] + 1 >= AttemptLimit(w)
                                             THEN "failed" ELSE @]
    BY <1>3 DEF Record, MarkFailedAttempt
  <2>2. /\ seen[w][r] < posts[r]
        /\ reply[w] = "permanent" => r \in rejected
    BY <1>3 DEF Honest, Answered
  <2>3. \A q \in Row \ {r} : status'[q] = status[q] /\ attempts'[q] = attempts[q]
    BY <1>1, <2>1
  <2>4. attempts'[r] <= posts[r]
    BY <1>1, <2>1, <2>2
  <2>5. status'[r] = "sent" => status[r] = "sent"
    BY <1>1, <2>1
  <2>6. status'[r] = "failed" => r \in rejected \/ posts[r] >= MaxAttempts
    <3>1. CASE seen[w][r] + 1 >= AttemptLimit(w)
      <4>1. reply[w] # "permanent" => posts[r] >= MaxAttempts
        BY <1>1, <2>2, <3>1, LimitAssumption DEF AttemptLimit
      <4>. QED BY <2>2, <4>1
    <3>2. CASE ~(seen[w][r] + 1 >= AttemptLimit(w))
      BY <1>1, <2>1, <3>2 DEF Honest, NoPrematureFailure
    <3>. QED BY <3>1, <3>2
  <2>. QED
    BY <2>3, <2>4, <2>5, <2>6
    DEF Honest, SentMeansDelivered, NoPrematureFailure, Counted
<1>. QED BY <1>2, <1>3

LEMMA StepHonest == Sane /\ Honest /\ [Next]_vars => Honest'
<1>. SUFFICES ASSUME Sane, Honest, [Next]_vars PROVE Honest'
  OBVIOUS
<1>. USE DEF Honest
<1>t. /\ status \in [Row -> Status]
      /\ attempts \in [Row -> 0 .. MaxAttempts]
      /\ pc \in [Worker -> {"down", "idle", "sending", "marking"}]
      /\ todo \in [Worker -> SUBSET Row]
      /\ seen \in [Worker -> [Row -> 0 .. MaxAttempts]]
      /\ reply \in [Worker -> Reply]
      /\ posts \in [Row -> Nat]
  BY DEF Sane, TypeOK
<1>1. CASE UNCHANGED vars
  BY <1>1
  DEF vars, tableVars, workerVars, capashinoVars, SentMeansDelivered,
      NoPrematureFailure, Counted, Answered, Current
<1>2. ASSUME NEW r \in Row, Add(r) PROVE Honest'
  <2>1. /\ status' = [status EXCEPT ![r] = "pending"]
        /\ attempts' = [attempts EXCEPT ![r] = 0]
        /\ UNCHANGED <<workerVars, capashinoVars>>
    BY <1>2 DEF Add
  <2>2. SentMeansDelivered' /\ NoPrematureFailure'
    BY <1>t, <2>1 DEF capashinoVars, SentMeansDelivered, NoPrematureFailure
  <2>3. Counted' /\ Answered'
    BY <1>t, <2>1 DEF workerVars, capashinoVars, Counted, Answered, Current
  <2>. QED BY <2>2, <2>3
<1>3. ASSUME NEW w \in Worker, Fetch(w) PROVE Honest'
  <2>1. PICK S \in SUBSET Row :
          /\ todo' = [todo EXCEPT ![w] = S]
          /\ seen' = [seen EXCEPT ![w] = [r \in Row |-> IF r \in S THEN attempts[r]
                                                                  ELSE 0]]
    BY <1>3 DEF Fetch
  <2>2. /\ pc' = [pc EXCEPT ![w] = "sending"]
        /\ UNCHANGED <<tableVars, reply, capashinoVars>>
    BY <1>3 DEF Fetch
  <2>3. SentMeansDelivered' /\ NoPrematureFailure'
    BY <2>2 DEF tableVars, capashinoVars, SentMeansDelivered, NoPrematureFailure
  <2>4. Counted'
    BY <1>t, <2>1, <2>2 DEF tableVars, capashinoVars, Counted
  <2>5. Answered'
    BY <1>t, <2>1, <2>2 DEF capashinoVars, Answered, Current
  <2>. QED BY <2>3, <2>4, <2>5
<1>4. ASSUME NEW w \in Worker, Dispatch(w) PROVE Honest'
  <2>1. PICK r \in Row : Current(w, r) /\ (Acknowledge(w, r) \/ Send(w, r))
    BY <1>4 DEF Dispatch
  <2>2. UNCHANGED <<status, attempts, todo, seen>> /\ pc' = [pc EXCEPT ![w] = "marking"]
    BY <1>4 DEF Dispatch, tableVars
  <2>3. \A q \in Row : Current(w, q) => q = r
    BY <1>t, <2>1, RowAssumption DEF Current
  <2>4. CASE Acknowledge(w, r)
    BY <1>t, <2>2, <2>3, <2>4
    DEF Acknowledge, capashinoVars, SentMeansDelivered, NoPrematureFailure, Counted,
        Answered, Current
  <2>5. CASE Send(w, r)
    <3>1. PICK answer \in Answer :
            /\ Possible(r, answer)
            /\ posts' = [posts EXCEPT ![r] = @ + 1]
            /\ delivered' = IF answer \in {"created", "lost"} THEN delivered \cup {r}
                                                              ELSE delivered
            /\ rejected' = IF answer = "rejected" THEN rejected \cup {r}
                                                  ELSE rejected
            /\ reply' = [reply EXCEPT ![w] = Classify(answer)]
      BY <2>5 DEF Send
    <3>2. delivered \subseteq delivered' /\ rejected \subseteq rejected'
      BY <3>1
    <3>3. \A q \in Row : posts[q] <= posts'[q]
      BY <1>t, <3>1
    <3>4. SentMeansDelivered'
      BY <2>2, <3>2 DEF SentMeansDelivered
    <3>5. NoPrematureFailure'
      BY <1>t, <2>2, <3>1, <3>2, <3>3, LimitAssumption DEF NoPrematureFailure
    <3>6. Counted'
      <4>1. ASSUME NEW q \in Row PROVE attempts'[q] <= posts'[q]
        BY <1>t, <2>2, <3>1 DEF Counted
      <4>2. ASSUME NEW v \in Worker, NEW q \in todo[v] PROVE seen'[v][q] <= posts'[q]
        BY <1>t, <2>2, <3>1 DEF Counted
      <4>. QED BY <2>2, <4>1, <4>2 DEF Counted
    <3>7. Answered'
      <4>1. /\ reply'[w] = "ok" => r \in delivered'
            /\ reply'[w] = "permanent" => r \in rejected'
        BY <1>t, <3>1, AnswerAssumption DEF Classify, Possible, AnswerKind
      <4>2. seen[w][r] < posts'[r]
        BY <1>t, <2>1, <3>1 DEF Counted, Current
      <4>3. ASSUME NEW v \in Worker \ {w}, NEW q \in Row, seen[v][q] < posts[q]
            PROVE  seen[v][q] < posts'[q]
        BY <1>t, <3>1, <4>3
      <4>. QED
        BY <1>t, <2>2, <2>3, <3>1, <3>2, <4>1, <4>2, <4>3 DEF Answered, Current
    <3>. QED BY <3>4, <3>5, <3>6, <3>7
  <2>. QED BY <2>1, <2>4, <2>5
<1>5. ASSUME NEW w \in Worker, Mark(w) PROVE Honest'
  <2>1. PICK r \in Row :
          /\ Current(w, r)
          /\ Record(w, r)
          /\ todo' = [todo EXCEPT ![w] = @ \ {r}]
          /\ pc' = [pc EXCEPT ![w] = IF todo[w] = {r} THEN "idle" ELSE "sending"]
    BY <1>5 DEF Mark
  <2>2. /\ pc[w] = "marking"
        /\ reply' = [reply EXCEPT ![w] = "none"]
        /\ UNCHANGED <<seen, delivered, rejected, posts>>
    BY <1>5 DEF Mark, capashinoVars
  <2>3. /\ SentMeansDelivered'
        /\ NoPrematureFailure'
        /\ \A q \in Row : attempts'[q] <= posts[q]
    BY <2>1, <2>2, RecordHonest DEF SentMeansDelivered, NoPrematureFailure
  <2>4. Counted'
    BY <1>t, <2>1, <2>2, <2>3 DEF Counted
  <2>5. Answered'
    BY <1>t, <2>1, <2>2 DEF Answered, Current
  <2>. QED BY <2>3, <2>4, <2>5
<1>6. ASSUME NEW w \in Worker, CommitFails(w) PROVE Honest'
  <2>1. /\ pc[w] = "marking"
        /\ UNCHANGED <<seen, delivered, rejected, posts>>
        /\ pc' = [pc EXCEPT ![w] = "idle"]
        /\ todo' = [todo EXCEPT ![w] = {}]
        /\ reply' = [reply EXCEPT ![w] = "none"]
    BY <1>6 DEF CommitFails, LeaveBatch, capashinoVars
  <2>2. /\ SentMeansDelivered'
        /\ NoPrematureFailure'
        /\ \A q \in Row : attempts'[q] <= posts[q]
    <3>1. CASE UNCHANGED tableVars
      BY <2>1, <3>1 DEF tableVars, SentMeansDelivered, NoPrematureFailure, Counted
    <3>2. CASE \E r \in Row : Current(w, r) /\ Lockable(w, r) /\ Record(w, r)
      BY <2>1, <3>2, RecordHonest DEF SentMeansDelivered, NoPrematureFailure
    <3>. QED BY <1>6, <3>1, <3>2 DEF CommitFails
  <2>3. Counted'
    BY <1>t, <2>1, <2>2 DEF Counted
  <2>4. Answered'
    BY <1>t, <2>1 DEF Answered, Current
  <2>. QED BY <2>2, <2>3, <2>4
<1>7. ASSUME NEW w \in Worker, Stop(w) PROVE Honest'
  BY <1>7
  DEF Stop, tableVars, capashinoVars, SentMeansDelivered, NoPrematureFailure, Counted,
      Answered, Current
<1>8. ASSUME NEW w \in Worker, Exit(w) \/ Crash(w) PROVE Honest'
  <2>1. /\ UNCHANGED <<status, attempts, seen, delivered, rejected, posts>>
        /\ pc' = [pc EXCEPT ![w] = "down"]
        /\ todo' = [todo EXCEPT ![w] = {}]
        /\ reply' = [reply EXCEPT ![w] = "none"]
    BY <1>8 DEF Exit, Crash, LeaveBatch, tableVars, capashinoVars
  <2>. QED
    BY <1>t, <2>1 DEF SentMeansDelivered, NoPrematureFailure, Counted, Answered, Current
<1>9. ASSUME NEW w \in Worker, Restart(w) PROVE Honest'
  BY <1>9, <1>t
  DEF Restart, tableVars, capashinoVars, SentMeansDelivered, NoPrematureFailure,
      Counted, Answered, Current
<1>. QED
  BY <1>1, <1>2, <1>3, <1>4, <1>5, <1>6, <1>7, <1>8, <1>9
  DEF Next, Iterate, Disturb, EmptyPoll

LEMMA AlwaysHonest == Spec => [](Sane /\ Honest)
<1>1. Init => Sane /\ Honest
  BY InitSane, InitHonest
<1>2. Sane /\ Honest /\ [Next]_vars => (Sane /\ Honest)'
  BY StepSane, StepHonest
<1>. QED BY <1>1, <1>2, PTL DEF Spec

\* At-least-once delivery, for any number of publishers with any batches: a
\* row marked sent is a row Capashino has accepted.
THEOREM Delivery == Spec => []SentMeansDelivered
  BY AlwaysHonest, PTL DEF Honest

\* No row is given up before Capashino refused it or MaxAttempts requests
\* were made for it, for any number of publishers with any batches.
THEOREM Perseverance == Spec => []NoPrematureFailure
  BY AlwaysHonest, PTL DEF Honest

-----------------------------------------------------------------------------
(* Row locks, for any publishers.                                          *)

\* A session has its whole batch locked or, from its first commit on, nothing;
\* SKIP LOCKED keeps the locked batches apart.
Locking ==
  /\ \A w \in Worker : held[w] \in {{}, todo[w]}
  /\ \A v, w \in Worker : v # w => held[v] \cap held[w] = {}

LEMMA StepLocking ==
  ASSUME Sane, Locking, [Next]_vars
  PROVE  Locking'
<1>t. todo \in [Worker -> SUBSET Row] /\ held \in [Worker -> SUBSET Row]
  BY DEF Sane, TypeOK
<1>1. ASSUME UNCHANGED <<todo, held>> PROVE Locking'
  BY <1>1 DEF Locking
<1>2. ASSUME NEW w \in Worker, held' = [held EXCEPT ![w] = {}],
             \A v \in Worker \ {w} : todo'[v] = todo[v]
      PROVE  Locking'
  BY <1>t, <1>2 DEF Locking
<1>3. ASSUME NEW w \in Worker, Fetch(w) PROVE Locking'
  <2>1. PICK S \in SUBSET Row :
          /\ IsBatch(S)
          /\ todo' = [todo EXCEPT ![w] = S]
          /\ held' = [held EXCEPT ![w] = S]
    BY <1>3 DEF Fetch
  <2>2. \A v \in Worker : S \cap held[v] = {}
    BY <2>1 DEF IsBatch, Ready, Locked
  <2>. QED BY <1>t, <2>1, <2>2 DEF Locking
<1>4. ASSUME NEW w \in Worker, Mark(w) \/ CommitFails(w) \/ Exit(w) \/ Crash(w) PROVE Locking'
  <2>1. /\ held' = [held EXCEPT ![w] = {}]
        /\ \A v \in Worker \ {w} : todo'[v] = todo[v]
    BY <1>t, <1>4 DEF Mark, CommitFails, Exit, Crash, LeaveBatch
  <2>. QED BY <1>2, <2>1
<1>5. ASSUME NEW w \in Worker, EmptyPoll(w) \/ Dispatch(w) \/ Stop(w) \/ Restart(w)
      PROVE  Locking'
  BY <1>1, <1>5 DEF EmptyPoll, Dispatch, Stop, Restart, vars, workerVars
<1>6. ASSUME NEW r \in Row, Add(r) PROVE Locking'
  BY <1>1, <1>6 DEF Add, workerVars
<1>7. CASE UNCHANGED vars
  BY <1>1, <1>7 DEF vars, workerVars
<1>. QED BY <1>3, <1>4, <1>5, <1>6, <1>7 DEF Next, Iterate, Disturb

\* Publishers never wait for each other in a circle: who waits for a row holds
\* none, for any number of publishers and however their batches overlap.
THEOREM NoPublisherDeadlock == Spec => []WaitersHoldNothing
<1>1. Init => Sane /\ Locking
  BY InitSane DEF Init, Locking
<1>2. Sane /\ Locking /\ [Next]_vars => (Sane /\ Locking)'
  BY StepSane, StepLocking
<1>3. Locking => WaitersHoldNothing
  BY DEF Locking, WaitersHoldNothing, Current, Lockable
<1>. QED BY <1>1, <1>2, <1>3, PTL DEF Spec

-----------------------------------------------------------------------------
(* Exclusive publishers: no row is in two batches, what a publisher read   *)
(* is what the table holds, and every request is accounted for.            *)

Disjoint ==
  \A v, w \in Worker : v # w => todo[v] \cap todo[w] = {}

Fresh ==
  \A w \in Worker : \A r \in todo[w] :
    status[r] = "pending" /\ seen[w][r] = attempts[r]

\* A batch of one row stays locked until it is done with.
Owned ==
  BatchSize = 1 => \A w \in Worker : /\ held[w] = todo[w]
                                     /\ \A q, r \in todo[w] : q = r

\* The outcome of a request for r is about to be committed, or is "sent".
InFlight(r) ==
  status[r] = "sent" \/ \E w \in Worker : pc[w] = "marking" /\ Current(w, r)

Paid ==
  \A r \in Row :
    /\ status[r] = "absent" => attempts[r] = 0
    /\ status[r] = "sent" => attempts[r] < MaxAttempts
    /\ posts[r] <= attempts[r] + interruptions + 1
    /\ ~InFlight(r) => posts[r] <= attempts[r] + interruptions

Accounted == Disjoint /\ Fresh /\ Owned /\ Paid

LEMMA InitAccounted == Init => Accounted
  BY DEF Init, Accounted, Disjoint, Fresh, Owned, Paid

LEMMA CurrentUnique ==
  ASSUME TypeOK, NEW w \in Worker, NEW q \in Row, NEW r \in Row,
         Current(w, q), Current(w, r)
  PROVE  q = r
<1>1. q <= r /\ r <= q
  BY DEF Current
<1>. QED BY <1>1, RowAssumption

\* A commit settles its row or counts one more attempt; no other row changes.
LEMMA RecordAccounted ==
  ASSUME Sane, Accounted, NEW w \in Worker, NEW r \in Row, Current(w, r), Record(w, r)
  PROVE  /\ \A q \in Row \ {r} : status'[q] = status[q] /\ attempts'[q] = attempts[q]
         /\ status[r] = "pending"
         /\ \/ status'[r] = "sent" /\ attempts'[r] = attempts[r]
            \/ status'[r] \in {"pending", "failed"} /\ attempts'[r] = attempts[r] + 1
<1>1. /\ status \in [Row -> Status]
      /\ attempts \in [Row -> 0 .. MaxAttempts]
      /\ status[r] = "pending"
      /\ seen[w][r] = attempts[r]
  BY DEF Sane, TypeOK, Accounted, Fresh, Current
<1>2. CASE reply[w] = "ok"
  BY <1>1, <1>2 DEF Record, MarkSent
<1>3. CASE reply[w] # "ok"
  <2>1. /\ attempts' = [attempts EXCEPT ![r] = attempts[r] + 1]
        /\ status' = [status EXCEPT ![r] = IF seen[w][r] + 1 >= AttemptLimit(w)
                                             THEN "failed" ELSE @]
    BY <1>1, <1>3 DEF Record, MarkFailedAttempt
  <2>. QED BY <1>1, <2>1
<1>. QED BY <1>2, <1>3

LEMMA StepAccounted ==
  ASSUME Exclusive, Sane, Accounted, [Next]_vars
  PROVE  Accounted'
<1>. USE DEF Accounted
<1>t. /\ TypeOK
      /\ status \in [Row -> Status]
      /\ attempts \in [Row -> 0 .. MaxAttempts]
      /\ pc \in [Worker -> {"down", "idle", "sending", "marking"}]
      /\ todo \in [Worker -> SUBSET Row]
      /\ held \in [Worker -> SUBSET Row]
      /\ seen \in [Worker -> [Row -> 0 .. MaxAttempts]]
      /\ posts \in [Row -> Nat]
      /\ interruptions \in Nat
      /\ MaxAttempts \in Nat
  BY LimitAssumption DEF Sane, TypeOK
<1>1. CASE UNCHANGED vars
  BY <1>1
  DEF vars, tableVars, workerVars, capashinoVars, Disjoint, Fresh, Owned, Paid,
      InFlight, Current
<1>2. ASSUME NEW r \in Row, Add(r) PROVE Accounted'
  <2>1. /\ status[r] = "absent"
        /\ status' = [status EXCEPT ![r] = "pending"]
        /\ attempts' = [attempts EXCEPT ![r] = 0]
        /\ UNCHANGED <<pc, todo, seen, held, posts, interruptions>>
    BY <1>2 DEF Add, workerVars, capashinoVars
  <2>2. \A w \in Worker : r \notin todo[w]
    BY <2>1 DEF Fresh
  <2>3. Disjoint' /\ Owned'
    BY <2>1 DEF Disjoint, Owned
  <2>4. Fresh'
    BY <1>t, <2>1, <2>2 DEF Fresh
  <2>5. \A q \in Row : attempts'[q] = attempts[q]
    BY <1>t, <2>1 DEF Paid
  <2>6. \A q \in Row : InFlight(q)' <=> InFlight(q)
    BY <1>t, <2>1, <2>2 DEF InFlight, Current
  <2>7. Paid'
    BY <1>t, <2>1, <2>5, <2>6 DEF Paid
  <2>. QED BY <2>3, <2>4, <2>7
<1>3. ASSUME NEW w \in Worker, Fetch(w) PROVE Accounted'
  <2>1. PICK S \in SUBSET Row :
          /\ IsBatch(S)
          /\ todo' = [todo EXCEPT ![w] = S]
          /\ held' = [held EXCEPT ![w] = S]
          /\ seen' = [seen EXCEPT ![w] = [r \in Row |-> IF r \in S THEN attempts[r]
                                                                  ELSE 0]]
    BY <1>3 DEF Fetch
  <2>2. /\ pc[w] = "idle"
        /\ pc' = [pc EXCEPT ![w] = "sending"]
        /\ UNCHANGED <<status, attempts, posts, interruptions>>
    BY <1>3 DEF Fetch, tableVars, capashinoVars
  <2>3. \A r \in S : status[r] = "pending"
    BY <2>1 DEF IsBatch, Ready, Pending
  <2>4. \A v \in Worker \ {w} : S \cap todo[v] = {}
    <3>1. CASE BatchSize = 1
      <4>1. \A v \in Worker : S \cap held[v] = {}
        BY <2>1 DEF IsBatch, Ready, Locked
      <4>. QED BY <3>1, <4>1 DEF Owned
    <3>2. CASE \A u, v \in Worker : u = v
      BY <3>2
    <3>. QED BY <3>1, <3>2 DEF Exclusive
  <2>5. BatchSize = 1 => \A q, r \in S : q = r
    <3>. SUFFICES ASSUME BatchSize = 1, NEW q \in S, NEW r \in S, q # r PROVE FALSE
      OBVIOUS
    <3>1. IsFiniteSet(S)
      BY RowAssumption, FS_Subset
    <3>2. Cardinality({q, r}) <= Cardinality(S)
      BY <3>1, FS_Subset
    <3>3. Cardinality({q, r}) = 2
      <4>1. IsFiniteSet({r}) /\ Cardinality({r}) = 1
        BY FS_Singleton
      <4>2. Cardinality({r} \cup {q}) = Cardinality({r}) + 1
        BY <4>1, FS_AddElement
      <4>3. {q, r} = {r} \cup {q}
        OBVIOUS
      <4>. QED BY <4>1, <4>2, <4>3
    <3>4. Cardinality(S) <= 1 /\ Cardinality(S) \in Nat
      BY <2>1, <3>1, FS_CardinalityType DEF IsBatch
    <3>. QED BY <3>2, <3>3, <3>4
  <2>6. Disjoint'
    BY <1>t, <2>1, <2>4 DEF Disjoint
  <2>7. Fresh'
    BY <1>t, <2>1, <2>2, <2>3 DEF Fresh
  <2>8. Owned'
    BY <1>t, <2>1, <2>5 DEF Owned
  <2>9. \A q \in Row : InFlight(q)' <=> InFlight(q)
    BY <1>t, <2>1, <2>2 DEF InFlight, Current
  <2>10. Paid'
    BY <2>2, <2>9 DEF Paid
  <2>. QED BY <2>6, <2>7, <2>8, <2>10
<1>4. ASSUME NEW w \in Worker, Dispatch(w) PROVE Accounted'
  <2>1. PICK r \in Row : Current(w, r) /\ (Acknowledge(w, r) \/ Send(w, r))
    BY <1>4 DEF Dispatch
  <2>2. /\ pc[w] = "sending"
        /\ pc' = [pc EXCEPT ![w] = "marking"]
        /\ UNCHANGED <<status, attempts, todo, seen, held, interruptions>>
    BY <1>4 DEF Dispatch, tableVars
  <2>3. Disjoint' /\ Fresh' /\ Owned'
    BY <2>2 DEF Disjoint, Fresh, Owned
  <2>4. posts' = posts \/ posts' = [posts EXCEPT ![r] = @ + 1]
    BY <2>1 DEF Acknowledge, Send, capashinoVars
  <2>5. ~InFlight(r)
    <3>1. status[r] = "pending"
      BY <2>1 DEF Fresh, Current
    <3>2. \A v \in Worker : pc[v] = "marking" => ~Current(v, r)
      BY <2>1, <2>2 DEF Disjoint, Current
    <3>. QED BY <3>1, <3>2 DEF InFlight
  <2>6. InFlight(r)'
    BY <1>t, <2>1, <2>2 DEF InFlight, Current
  <2>7. \A q \in Row : InFlight(q) => InFlight(q)'
    BY <1>t, <2>2 DEF InFlight, Current
  <2>8. Paid'
    <3>. SUFFICES ASSUME NEW q \in Row
         PROVE  /\ status[q] = "absent" => attempts[q] = 0
                /\ status[q] = "sent" => attempts[q] < MaxAttempts
                /\ posts'[q] <= attempts[q] + interruptions + 1
                /\ ~InFlight(q)' => posts'[q] <= attempts[q] + interruptions
      BY <2>2 DEF Paid
    <3>1. CASE q = r
      BY <1>t, <2>4, <2>5, <2>6, <3>1 DEF Paid
    <3>2. CASE q # r
      BY <1>t, <2>4, <2>7, <3>2 DEF Paid
    <3>. QED BY <3>1, <3>2
  <2>. QED BY <2>3, <2>8
<1>5. ASSUME NEW w \in Worker, NEW r \in Row, pc[w] = "marking", Current(w, r),
             Record(w, r) \/ UNCHANGED tableVars,
             /\ todo' = [todo EXCEPT ![w] = @ \ {r}] \/ todo' = [todo EXCEPT ![w] = {}]
             /\ held' = [held EXCEPT ![w] = {}]
             /\ pc'[w] # "marking"
             /\ \A v \in Worker \ {w} : pc'[v] = pc[v]
             /\ UNCHANGED <<seen, posts>>
             /\ interruptions' \in {interruptions, interruptions + 1}
             /\ Record(w, r) \/ interruptions' = interruptions + 1
      PROVE  Accounted'
  <2>1. /\ \A q \in Row \ {r} : status'[q] = status[q] /\ attempts'[q] = attempts[q]
        /\ status[r] = "pending"
    BY <1>5, RecordAccounted DEF tableVars, Fresh, Current
  <2>2. /\ r \in todo[w]
        /\ todo'[w] \subseteq todo[w] \ {r}
        /\ \A v \in Worker \ {w} : todo'[v] = todo[v] /\ r \notin todo[v]
    BY <1>t, <1>5 DEF Current, Disjoint
  <2>3. Disjoint'
    BY <2>2 DEF Disjoint
  <2>4. Fresh'
    BY <1>t, <1>5, <2>1, <2>2 DEF Fresh
  <2>5. Owned'
    <3>1. BatchSize = 1 => todo'[w] = {}
      BY <2>2 DEF Owned
    <3>2. held'[w] = {} /\ \A v \in Worker \ {w} : held'[v] = held[v]
      BY <1>t, <1>5
    <3>3. ASSUME BatchSize = 1, NEW v \in Worker
          PROVE  held'[v] = todo'[v] /\ \A p, q \in todo'[v] : p = q
      <4>1. CASE v = w
        BY <2>2, <3>1, <3>2, <3>3, <4>1
      <4>2. CASE v # w
        BY <2>2, <3>2, <3>3, <4>2 DEF Owned
      <4>. QED BY <4>1, <4>2
    <3>. QED BY <3>3 DEF Owned
  <2>6. ASSUME NEW q \in Row \ {r} PROVE InFlight(q) => InFlight(q)'
    <3>1. ~Current(w, q)
      BY <1>t, <1>5, CurrentUnique
    <3>2. ASSUME NEW v \in Worker \ {w}, pc[v] = "marking", Current(v, q)
          PROVE  pc'[v] = "marking" /\ Current(v, q)'
      BY <1>5, <2>2, <3>2 DEF Current
    <3>. QED BY <2>1, <3>1, <3>2 DEF InFlight
  <2>7. Paid'
    <3>1. ASSUME NEW q \in Row \ {r}
          PROVE  /\ status'[q] = "absent" => attempts'[q] = 0
                 /\ status'[q] = "sent" => attempts'[q] < MaxAttempts
                 /\ posts'[q] <= attempts'[q] + interruptions' + 1
                 /\ ~InFlight(q)' => posts'[q] <= attempts'[q] + interruptions'
      BY <1>t, <1>5, <2>1, <2>6 DEF Paid
    <3>2. /\ status'[r] = "absent" => attempts'[r] = 0
          /\ status'[r] = "sent" => attempts'[r] < MaxAttempts
          /\ posts'[r] <= attempts'[r] + interruptions' + 1
          /\ ~InFlight(r)' => posts'[r] <= attempts'[r] + interruptions'
      <4>1. attempts[r] < MaxAttempts /\ posts[r] <= attempts[r] + interruptions + 1
        BY <2>1 DEF Paid, Sane, Below
      <4>2. CASE Record(w, r)
        <5>1. \/ status'[r] = "sent" /\ attempts'[r] = attempts[r]
              \/ status'[r] \in {"pending", "failed"} /\ attempts'[r] = attempts[r] + 1
          BY <1>5, <4>2, RecordAccounted
        <5>2. status'[r] = "sent" => InFlight(r)'
          BY DEF InFlight
        <5>. QED BY <1>t, <1>5, <4>1, <5>1, <5>2
      <4>3. CASE UNCHANGED tableVars /\ interruptions' = interruptions + 1
        BY <1>t, <1>5, <2>1, <4>1, <4>3 DEF tableVars
      <4>. QED BY <1>5, <4>2, <4>3
    <3>. QED BY <3>1, <3>2 DEF Paid
  <2>. QED BY <2>3, <2>4, <2>5, <2>7
<1>6. ASSUME NEW w \in Worker, Mark(w) PROVE Accounted'
  <2>1. PICK r \in Row :
          /\ Current(w, r)
          /\ Record(w, r)
          /\ todo' = [todo EXCEPT ![w] = @ \ {r}]
          /\ pc' = [pc EXCEPT ![w] = IF todo[w] = {r} THEN "idle" ELSE "sending"]
    BY <1>6 DEF Mark
  <2>. QED BY <1>t, <1>5, <1>6, <2>1 DEF Mark, capashinoVars
<1>7. ASSUME NEW w \in Worker, CommitFails(w) PROVE Accounted'
  <2>1. /\ pc[w] = "marking"
        /\ interruptions' = interruptions + 1
        /\ pc' = [pc EXCEPT ![w] = "idle"]
        /\ todo' = [todo EXCEPT ![w] = {}]
        /\ held' = [held EXCEPT ![w] = {}]
        /\ UNCHANGED <<seen, posts>>
    BY <1>7 DEF CommitFails, Interrupted, LeaveBatch, capashinoVars
  <2>2. CASE \E r \in Row : Current(w, r) /\ Record(w, r)
    BY <1>t, <1>5, <2>1, <2>2
  <2>3. CASE UNCHANGED tableVars /\ \E r \in Row : Current(w, r)
    BY <1>t, <1>5, <2>1, <2>3
  <2>4. CASE UNCHANGED tableVars /\ ~\E r \in Row : Current(w, r)
    <3>1. Disjoint' /\ Fresh' /\ Owned'
      BY <1>t, <2>1, <2>4 DEF tableVars, Disjoint, Fresh, Owned
    <3>2. \A q \in Row : InFlight(q) => InFlight(q)'
      BY <1>t, <2>1, <2>4 DEF tableVars, InFlight, Current
    <3>. QED BY <1>t, <2>1, <2>4, <3>1, <3>2 DEF tableVars, Paid
  <2>. QED BY <1>7, <2>2, <2>3, <2>4 DEF CommitFails
<1>8. ASSUME NEW w \in Worker, Stop(w) PROVE Accounted'
  <2>1. /\ interruptions' = interruptions + 1
        /\ UNCHANGED <<status, attempts, pc, todo, seen, held, posts>>
    BY <1>8 DEF Stop, Interrupted, tableVars, capashinoVars
  <2>2. \A q \in Row : InFlight(q)' <=> InFlight(q)
    BY <2>1 DEF InFlight, Current
  <2>. QED BY <1>t, <2>1, <2>2 DEF Disjoint, Fresh, Owned, Paid
<1>9. ASSUME NEW w \in Worker, Exit(w) \/ Crash(w) PROVE Accounted'
  <2>1. /\ \/ interruptions' = interruptions /\ pc[w] = "idle"
           \/ interruptions' = interruptions + 1
        /\ UNCHANGED <<status, attempts, seen, posts>>
        /\ pc' = [pc EXCEPT ![w] = "down"]
        /\ todo' = [todo EXCEPT ![w] = {}]
        /\ held' = [held EXCEPT ![w] = {}]
    BY <1>9 DEF Exit, Crash, Interrupted, LeaveBatch, tableVars, capashinoVars
  <2>2. Disjoint' /\ Fresh' /\ Owned'
    BY <1>t, <2>1 DEF Disjoint, Fresh, Owned
  <2>3. Paid'
    <3>1. CASE interruptions' = interruptions + 1
      BY <1>t, <2>1, <3>1 DEF Paid, InFlight
    <3>2. CASE pc[w] = "idle" /\ interruptions' = interruptions
      <4>1. \A q \in Row : InFlight(q) => InFlight(q)'
        BY <1>t, <2>1, <3>2 DEF InFlight, Current
      <4>. QED BY <2>1, <3>2, <4>1 DEF Paid
    <3>. QED BY <2>1, <3>1, <3>2
  <2>. QED BY <2>2, <2>3
<1>10. ASSUME NEW w \in Worker, Restart(w) PROVE Accounted'
  <2>1. /\ UNCHANGED <<status, attempts, todo, seen, held, posts, interruptions>>
        /\ pc[w] = "down"
        /\ pc' = [pc EXCEPT ![w] = "idle"]
    BY <1>10 DEF Restart, tableVars, capashinoVars
  <2>2. \A q \in Row : InFlight(q) => InFlight(q)'
    BY <1>t, <2>1 DEF InFlight, Current
  <2>. QED BY <2>1, <2>2 DEF Disjoint, Fresh, Owned, Paid
<1>. QED
  BY <1>1, <1>2, <1>3, <1>4, <1>6, <1>7, <1>8, <1>9, <1>10
  DEF Next, Iterate, Disturb, EmptyPoll

LEMMA AlwaysAccounted ==
  ASSUME Exclusive
  PROVE  Spec => [](Sane /\ Honest /\ Accounted)
<1>1. Init => Sane /\ Honest /\ Accounted
  BY InitSane, InitHonest, InitAccounted
<1>2. Sane /\ Honest /\ Accounted /\ [Next]_vars => (Sane /\ Honest /\ Accounted)'
  BY StepSane, StepHonest, StepAccounted
<1>. QED BY <1>1, <1>2, PTL DEF Spec

\* Exclusive publishers make at most MaxAttempts requests for a row, and one
\* more for each interruption.
THEOREM BoundedPosting ==
  ASSUME Exclusive
  PROVE  Spec => []PostsBounded
<1>1. Sane /\ Accounted => PostsBounded
  <2>. SUFFICES ASSUME Sane, Accounted, NEW r \in Row
       PROVE  posts[r] <= MaxAttempts + interruptions
    BY DEF PostsBounded
  <2>1. /\ attempts[r] \in 0 .. MaxAttempts
        /\ posts[r] \in Nat
        /\ interruptions \in Nat
        /\ MaxAttempts \in Nat
    BY LimitAssumption DEF Sane, TypeOK
  <2>2. InFlight(r) => attempts[r] < MaxAttempts
    BY DEF InFlight, Accounted, Paid, Fresh, Sane, Below, Current
  <2>. QED BY <2>1, <2>2 DEF Accounted, Paid
<1>. QED BY <1>1, AlwaysAccounted, PTL

-----------------------------------------------------------------------------
(* The outbox of exclusive publishers implements OutboxPromise.            *)

\* A commit settles a pending row as it has earned, or leaves it pending.
LEMMA RecordSettles ==
  ASSUME Sane, Honest, Accounted, NEW w \in Worker, NEW r \in Row,
         pc[w] = "marking", Current(w, r), Record(w, r)
  PROVE  (status[r] = "pending" /\ Promise!Settled(r)) \/ status' = status
<1>1. /\ status \in [Row -> Status]
      /\ seen[w][r] \in Nat
      /\ posts[r] \in Nat
      /\ status[r] = "pending"
  BY LimitAssumption DEF Sane, TypeOK, Accounted, Fresh, Current
<1>2. CASE reply[w] = "ok"
  <2>1. r \in delivered \cup Audit
    BY <1>2 DEF Honest, Answered
  <2>. QED BY <1>1, <1>2, <2>1 DEF Record, MarkSent, Promise!Settled
<1>3. CASE reply[w] # "ok" /\ seen[w][r] + 1 >= AttemptLimit(w)
  <2>1. status' = [status EXCEPT ![r] = "failed"]
    BY <1>3 DEF Record, MarkFailedAttempt
  <2>2. r \in rejected \/ posts[r] >= MaxAttempts
    BY <1>1, <1>3, LimitAssumption DEF Honest, Answered, AttemptLimit
  <2>. QED BY <1>1, <2>1, <2>2 DEF Promise!Settled
<1>4. CASE reply[w] # "ok" /\ ~(seen[w][r] + 1 >= AttemptLimit(w))
  <2>1. status' = [status EXCEPT ![r] = status[r]]
    BY <1>4 DEF Record, MarkFailedAttempt
  <2>. QED BY <1>1, <2>1
<1>. QED BY <1>2, <1>3, <1>4

LEMMA StepRefines ==
  ASSUME Sane, Honest, Accounted, [Next]_vars
  PROVE  [Promise!Next]_Promise!promiseVars
<1>. USE DEF Promise!promiseVars
<1>t. /\ status \in [Row -> Status]
      /\ attempts \in [Row -> 0 .. MaxAttempts]
      /\ posts \in [Row -> Nat]
      /\ interruptions \in Nat
      /\ MaxAttempts \in Nat
  BY LimitAssumption DEF Sane, TypeOK
<1>1. CASE UNCHANGED vars
  BY <1>1 DEF vars, tableVars, workerVars, capashinoVars
<1>2. ASSUME NEW r \in Row, Add(r) PROVE Promise!Write(r)
  BY <1>2 DEF Add, capashinoVars, Promise!Write
<1>3. ASSUME NEW w \in Worker, Dispatch(w)
      PROVE  (\E r \in Row : Promise!Post(r)) \/ UNCHANGED Promise!promiseVars
  <2>1. PICK r \in Row : Current(w, r) /\ (Acknowledge(w, r) \/ Send(w, r))
    BY <1>3 DEF Dispatch
  <2>2. pc[w] = "sending" /\ UNCHANGED <<status, interruptions>>
    BY <1>3 DEF Dispatch, tableVars
  <2>3. CASE Acknowledge(w, r)
    BY <2>2, <2>3 DEF Acknowledge, capashinoVars
  <2>4. CASE Send(w, r)
    <3>1. status[r] = "pending" /\ ~InFlight(r)
      <4>1. status[r] = "pending"
        BY <2>1 DEF Accounted, Fresh, Current
      <4>2. \A v \in Worker : pc[v] = "marking" => ~Current(v, r)
        BY <2>1, <2>2 DEF Accounted, Disjoint, Current
      <4>. QED BY <4>1, <4>2 DEF InFlight
    <3>2. posts[r] < MaxAttempts + interruptions
      BY <1>t, <3>1 DEF Accounted, Paid, Sane, Below
    <3>3. /\ r \notin Audit
          /\ posts' = [posts EXCEPT ![r] = @ + 1]
          /\ delivered' \in {delivered, delivered \cup {r}}
          /\ rejected' \in {rejected, rejected \cup {r}}
      BY <2>4 DEF Send
    <3>4. Promise!Post(r)
      BY <2>2, <3>1, <3>2, <3>3 DEF Promise!Post
    <3>. QED BY <3>4
  <2>. QED BY <2>1, <2>3, <2>4
<1>4. ASSUME NEW w \in Worker, Mark(w)
      PROVE  (\E r \in Row : Promise!Settle(r)) \/ UNCHANGED Promise!promiseVars
  <2>1. PICK r \in Row : Current(w, r) /\ Record(w, r)
    BY <1>4 DEF Mark
  <2>2. pc[w] = "marking" /\ UNCHANGED <<capashinoVars, interruptions>>
    BY <1>4 DEF Mark
  <2>3. (status[r] = "pending" /\ Promise!Settled(r)) \/ status' = status
    BY <2>1, <2>2, RecordSettles
  <2>. QED BY <2>2, <2>3 DEF capashinoVars, Promise!Settle
<1>5. ASSUME NEW w \in Worker, CommitFails(w) PROVE Promise!Interrupt
  <2>1. /\ pc[w] = "marking"
        /\ interruptions' = interruptions + 1
        /\ UNCHANGED capashinoVars
    BY <1>5 DEF CommitFails, Interrupted
  <2>2. \/ status' = status
        \/ \E r \in Row : status[r] = "pending" /\ Promise!Settled(r)
    BY <1>5, <2>1, RecordSettles DEF CommitFails, tableVars
  <2>. QED BY <2>1, <2>2 DEF capashinoVars, Promise!Interrupt
<1>6. ASSUME NEW w \in Worker, Stop(w) \/ Crash(w) PROVE Promise!Interrupt
  BY <1>6 DEF Stop, Crash, Interrupted, tableVars, capashinoVars, Promise!Interrupt
<1>7. ASSUME NEW w \in Worker, Fetch(w) \/ EmptyPoll(w) \/ Exit(w) \/ Restart(w)
      PROVE  UNCHANGED Promise!promiseVars
  BY <1>7
  DEF Fetch, EmptyPoll, Exit, Restart, vars, tableVars, workerVars, capashinoVars
<1>. QED
  BY <1>1, <1>2, <1>3, <1>4, <1>5, <1>6, <1>7
  DEF Next, Iterate, Disturb, Promise!Next

\* Exclusive publishers implement the outbox's promise: rows are written once,
\* posted only while pending and within their allowance, and settled once.
THEOREM Refinement ==
  ASSUME Exclusive
  PROVE  Spec => ImplementsPromise
<1>1. Init => Promise!Init
  BY DEF Init, Promise!Init
<1>2. Sane /\ Honest /\ Accounted /\ [Next]_vars
        => [Promise!Next]_Promise!promiseVars
  BY StepRefines
<1>. QED
  BY <1>1, <1>2, AlwaysAccounted, PTL DEF Spec, ImplementsPromise, Promise!Spec

=============================================================================
