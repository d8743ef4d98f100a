---------------------------- MODULE RequestHash ----------------------------
(***************************************************************************)
(* What "the same data" means under one idempotency key:                   *)
(* TicketService._compute_request_hash and the comparison in register.     *)
(*                                                                         *)
(* A text is a sequence of letters, one of which may be the separator: the *)
(* request schema restricts the length of a name or a seat, not its        *)
(* letters, and an address may hold a bar as well.  SHA-256 is taken to be *)
(* injective, so a hash is the text it is computed from.  event_id is a    *)
(* UUID, without a bar, and is taken for one letter.                       *)
(***************************************************************************)
EXTENDS Naturals, Sequences

CONSTANTS
  Letter,     \* what names, addresses and seats are written with
  Separator,
  EventId,
  MaxName, MaxEmail, MaxSeat   \* bounds: letters in a text of each kind

ASSUME SeparatorAssumption == Separator \notin EventId
ASSUME LengthAssumption == {MaxName, MaxEmail, MaxSeat} \subseteq Nat \ {0}

VARIABLES
  request_hash,  \* the recorded request_hash, or <<>> while the key is unused
  owner,         \* history: the request the key was recorded for
  asked,         \* the last request with the key
  answer         \* its answer

vars == <<request_hash, owner, asked, answer>>

Text(max) == UNION {[1 .. n -> Letter] : n \in 1 .. max}

Request == [event_id : EventId, first_name : Text(MaxName), last_name : Text(MaxName),
            email : Text(MaxEmail), seat : Text(MaxSeat)]

\* Variant: the texts are joined with nothing between them.
JoinBare(s, t) == s \o t

Join(s, t) == s \o <<Separator>> \o t

Hash(q) == Join(<<q.event_id>>,
             Join(q.first_name, Join(q.last_name, Join(q.email, q.seat))))

Init ==
  /\ request_hash = <<>>
  /\ owner = <<>>
  /\ asked = <<>>
  /\ answer = "none"

\* The key is new: the purchase is recorded with its hash.
Record(q) ==
  /\ request_hash = <<>>
  /\ request_hash' = Hash(q)
  /\ owner' = q
  /\ asked' = q
  /\ answer' = "created"

\* The key is known.
Repeat(q) ==
  /\ request_hash # <<>>
  /\ asked' = q
  /\ answer' = IF request_hash = Hash(q) THEN "created" ELSE "conflict"
  /\ UNCHANGED <<request_hash, owner>>

Next == \E q \in Request : Record(q) \/ Repeat(q)

Spec == Init /\ [][Next]_vars

\* README "Ключ уже был, те же данные | 201" and "Ключ уже был, другие данные |
\* 409": a request under a known key is refused if and only if its data differ.
RefusedIffDifferent ==
  request_hash # <<>> => (answer = "conflict" <=> asked # owner)

HoldsSeparator(q) ==
  \E text \in {q.first_name, q.last_name, q.email} :
    \E i \in DOMAIN text : text[i] = Separator

\* What the code keeps of that: a true repetition is never refused, and other data
\* pass for the recorded ones only if one of the two requests has the separator in
\* a name or an address.  In the seat, the last of the fields, it does no harm.
MisledOnlyBySeparator ==
  request_hash # <<>> =>
    /\ answer = "conflict" => asked # owner
    /\ answer # "conflict" => asked = owner \/ HoldsSeparator(asked) \/ HoldsSeparator(owner)

=============================================================================
