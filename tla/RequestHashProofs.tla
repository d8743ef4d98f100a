------------------------- MODULE RequestHashProofs -------------------------
(***************************************************************************)
(* What the request hash decides, for texts of any length over any letters,*)
(* the separator among them: it takes other data for the recorded ones     *)
(* only if one of the two requests has the separator in a name or address. *)
(***************************************************************************)
EXTENDS RequestHash, TLAPS

Raw == Letter \cup EventId \cup {Separator}
Plain == (Letter \cup EventId) \ {Separator}

\* Cutting at the first separator gives back what was joined.
LEMMA JoinInjective ==
  ASSUME NEW f \in Seq(Plain), NEW g \in Seq(Plain),
         NEW p \in Seq(Raw), NEW q \in Seq(Raw),
         Join(f, p) = Join(g, q)
  PROVE  f = g /\ p = q
<1> DEFINE s == Join(f, p)
<1>1. Len(f) = Len(g)
  <2>1. s[Len(f) + 1] = Separator /\ s[Len(g) + 1] = Separator
    BY DEF Join
  <2>2. ASSUME Len(f) < Len(g) PROVE FALSE
    <3>1. s[Len(f) + 1] = g[Len(f) + 1]
      <4>1. Join(g, q)[Len(f) + 1] = g[Len(f) + 1]
        BY <2>2 DEF Join
      <4> QED
        BY <4>1
    <3>2. g[Len(f) + 1] \in Plain
      BY <2>2
    <3> QED
      BY <3>1, <3>2, <2>1 DEF Plain
  <2>3. ASSUME Len(g) < Len(f) PROVE FALSE
    <3>1. s[Len(g) + 1] = f[Len(g) + 1]
      BY <2>3 DEF Join
    <3>2. f[Len(g) + 1] \in Plain
      BY <2>3
    <3> QED
      BY <3>1, <3>2, <2>1 DEF Plain
  <2> QED
    BY <2>2, <2>3
<1>2. f = g
  <2>1. \A i \in 1 .. Len(f) : s[i] = f[i] /\ s[i] = g[i]
    BY <1>1 DEF Join
  <2> QED
    BY <1>1, <2>1
<1>3. p = q
  <2>1. Len(p) = Len(q)
    <3>1. Len(s) = Len(f) + 1 + Len(p) /\ Len(s) = Len(g) + 1 + Len(q)
      BY DEF Join
    <3> QED
      BY <1>1, <3>1
  <2>2. \A i \in 1 .. Len(p) : p[i] = s[Len(f) + 1 + i] /\ q[i] = s[Len(g) + 1 + i]
    BY <2>1 DEF Join
  <2> QED
    BY <1>1, <2>1, <2>2
<1> QED
  BY <1>2, <1>3

\* A text of a request is a sequence of letters, and without the separator a
\* plain one.
LEMMA TextType ==
  ASSUME NEW max \in Nat, NEW t \in Text(max)
  PROVE  /\ t \in Seq(Raw)
         /\ (\A i \in DOMAIN t : t[i] # Separator) => t \in Seq(Plain)
<1>1. PICK n \in 1 .. max : t \in [1 .. n -> Letter]
  BY DEF Text
<1>2. n \in Nat
  OBVIOUS
<1>3. t \in [1 .. n -> Raw]
  BY <1>1 DEF Raw
<1>4. ASSUME \A i \in DOMAIN t : t[i] # Separator PROVE t \in Seq(Plain)
  <2>1. t \in [1 .. n -> Plain]
    BY <1>1, <1>4 DEF Plain
  <2> QED
    BY <1>2, <2>1
<1> QED
  BY <1>2, <1>3, <1>4

\* The hash tells requests apart that have no separator before the seat.
LEMMA HashInjective ==
  ASSUME NEW a \in Request, NEW b \in Request, Hash(a) = Hash(b),
         ~HoldsSeparator(a), ~HoldsSeparator(b)
  PROVE  a = b
<1>1. {MaxName, MaxEmail, MaxSeat} \subseteq Nat
  BY LengthAssumption
<1>2. \A s, t : s \in Seq(Plain) /\ t \in Seq(Raw) => Join(s, t) \in Seq(Raw)
  <2>1. Plain \subseteq Raw /\ Separator \in Raw
    BY DEF Plain, Raw
  <2> QED
    BY <2>1 DEF Join
<1> DEFINE Id(q) == <<q.event_id>>
           Tail1(q) == q.seat
           Tail2(q) == Join(q.email, Tail1(q))
           Tail3(q) == Join(q.last_name, Tail2(q))
           Tail4(q) == Join(q.first_name, Tail3(q))
<1>3. \A q \in {a, b} : /\ Id(q) \in Seq(Plain) /\ q.email \in Seq(Plain)
                        /\ q.first_name \in Seq(Plain) /\ q.last_name \in Seq(Plain)
                        /\ q.seat \in Seq(Raw)
  <2> SUFFICES ASSUME NEW q \in {a, b}
               PROVE  /\ Id(q) \in Seq(Plain) /\ q.email \in Seq(Plain)
                      /\ q.first_name \in Seq(Plain) /\ q.last_name \in Seq(Plain)
                      /\ q.seat \in Seq(Raw)
    OBVIOUS
  <2>1. /\ q.event_id \in EventId /\ q.email \in Text(MaxEmail)
        /\ q.first_name \in Text(MaxName) /\ q.last_name \in Text(MaxName)
        /\ q.seat \in Text(MaxSeat)
    BY DEF Request
  <2>2. \A t \in {q.first_name, q.last_name, q.email} : \A i \in DOMAIN t : t[i] # Separator
    BY DEF HoldsSeparator
  <2>3. q.event_id \in Plain
    BY <2>1, SeparatorAssumption DEF Plain
  <2> QED
    BY <1>1, <2>1, <2>2, <2>3, TextType
<1>4. \A q \in {a, b} : /\ Tail1(q) \in Seq(Raw) /\ Tail2(q) \in Seq(Raw)
                        /\ Tail3(q) \in Seq(Raw) /\ Tail4(q) \in Seq(Raw)
  BY <1>2, <1>3
<1>5. Join(Id(a), Tail4(a)) = Join(Id(b), Tail4(b))
  BY DEF Hash
<1> HIDE DEF Id, Tail1, Tail2, Tail3, Tail4
<1>6. Id(a) = Id(b) /\ Tail4(a) = Tail4(b)
  BY <1>3, <1>4, <1>5, JoinInjective, SMTT(30)
<1>7. a.first_name = b.first_name /\ Tail3(a) = Tail3(b)
  <2>1. Join(a.first_name, Tail3(a)) = Join(b.first_name, Tail3(b))
    BY <1>6 DEF Tail4
  <2> QED
    BY <1>3, <1>4, <2>1, JoinInjective, SMTT(30)
<1>8. a.last_name = b.last_name /\ Tail2(a) = Tail2(b)
  <2>1. Join(a.last_name, Tail2(a)) = Join(b.last_name, Tail2(b))
    BY <1>7 DEF Tail3
  <2> QED
    BY <1>3, <1>4, <2>1, JoinInjective, SMTT(30)
<1>9. a.email = b.email /\ Tail1(a) = Tail1(b)
  <2>1. Join(a.email, Tail1(a)) = Join(b.email, Tail1(b))
    BY <1>8 DEF Tail2
  <2> QED
    BY <1>3, <1>4, <2>1, JoinInjective, SMTT(30)
<1>10. a.event_id = b.event_id /\ a.seat = b.seat
  <2>1. \A x, y : <<x>> = <<y>> => x = y
    OBVIOUS
  <2> QED
    BY <1>6, <1>9, <2>1 DEF Tail1, Id
<1> QED
  BY <1>7, <1>8, <1>9, <1>10 DEF Request

-----------------------------------------------------------------------------
\* The recorded hash is the owner's, and the answer is what comparing says.
Recorded ==
  request_hash # <<>> => /\ owner \in Request /\ asked \in Request
                         /\ request_hash = Hash(owner)
                         /\ answer = "conflict" <=> Hash(asked) # Hash(owner)

\* README "Ключ уже был, другие данные | 409": whatever names, addresses and seats
\* are written with and however long they are, a true repetition is never refused,
\* and other data pass for the recorded ones only if one of the two requests has
\* the separator in a name or an address.
THEOREM HashMisledOnlyBySeparator == Spec => []MisledOnlyBySeparator
<1>1. Init => Recorded
  BY DEF Init, Recorded
<1>2. Recorded /\ [Next]_vars => Recorded'
  <2> SUFFICES ASSUME Recorded, [Next]_vars PROVE Recorded'
    OBVIOUS
  <2>1. ASSUME NEW q \in Request, Record(q) PROVE Recorded'
    BY <2>1 DEF Record, Recorded
  <2>2. ASSUME NEW q \in Request, Repeat(q) PROVE Recorded'
    BY <2>2 DEF Repeat, Recorded
  <2>3. CASE UNCHANGED vars
    BY <2>3 DEF vars, Recorded
  <2> QED
    BY <2>1, <2>2, <2>3 DEF Next
<1>3. Recorded => MisledOnlyBySeparator
  <2> SUFFICES ASSUME Recorded, request_hash # <<>>
               PROVE  /\ answer = "conflict" => asked # owner
                      /\ answer # "conflict" => \/ asked = owner
                                                \/ HoldsSeparator(asked)
                                                \/ HoldsSeparator(owner)
    BY DEF MisledOnlyBySeparator
  <2>1. /\ owner \in Request /\ asked \in Request
        /\ answer = "conflict" <=> Hash(asked) # Hash(owner)
    BY DEF Recorded
  <2> QED
    BY <2>1, HashInjective
<1> QED
  BY <1>1, <1>2, <1>3, PTL DEF Spec
=============================================================================
