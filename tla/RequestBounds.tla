----------------------------- MODULE RequestBounds -----------------------------
(***************************************************************************)
(* The lengths of what clients write, on their way through the request     *)
(* schemas, the columns of the database and the checks of the contract,    *)
(* which do not count alike: the API and PostgreSQL count characters, the  *)
(* contract counts UTF-16 units after a trim that also takes U+FEFF.       *)
(*                                                                         *)
(* A text, stripped by the API, is the characters that the contract keeps   *)
(* (core), some of them outside the basic plane (wide), and those that only  *)
(* the contract trims (marks): U+FEFF at an end and the blanks behind it.   *)
(***************************************************************************)
EXTENDS Integers

CONSTANTS
  Cores, Wides, Marks,  \* lengths of the parts of a text
  IdLengths             \* lengths of the ids clients choose

ASSUME BoundsAssumption ==
  /\ Cores \subseteq Nat /\ Wides \subseteq Nat /\ Marks \subseteq Nat
  /\ IdLengths \subseteq Nat

VARIABLES
  request,  \* the request
  phase     \* how far it got

requestVars == <<request, phase>>

Unlimited == 2^30  \* a column of type Text

(* What each field may have: characters for the schema and the column,      *)
(* units for the contract if it is sent there; and what the handler adds to *)
(* the id of the request to make the ids of its row and of its operation.   *)
(* location stands for the texts that are only stored, anchor for the        *)
(* request that has an id and no text.                                       *)
Bounds ==
  [name         |-> [min |-> 2, max |-> 160, column |-> 160, sent |-> TRUE, ledger |-> 160, row |-> 0, operation |-> 13],
   site         |-> [min |-> 2, max |-> 160, column |-> 160, sent |-> TRUE, ledger |-> 160, row |-> 0, operation |-> 13],
   serialNumber |-> [min |-> 0, max |-> 128, column |-> 128, sent |-> TRUE, ledger |-> 128, row |-> 0, operation |-> 13],
   location     |-> [min |-> 0, max |-> 160, column |-> 160, sent |-> FALSE, ledger |-> 0, row |-> 0, operation |-> 13],
   description  |-> [min |-> 3, max |-> 4000, column |-> Unlimited, sent |-> TRUE, ledger |-> 4000, row |-> 0, operation |-> 14],
   idempotencyKey |-> [min |-> 8, max |-> 128, column |-> 128, sent |-> FALSE, ledger |-> 0, row |-> 0, operation |-> 14],
   rejection    |-> [min |-> 3, max |-> 2000, column |-> Unlimited, sent |-> TRUE, ledger |-> 2000, row |-> 0, operation |-> 13],
   retirement   |-> [min |-> 5, max |-> 2000, column |-> Unlimited, sent |-> TRUE, ledger |-> 2000, row |-> 10, operation |-> 19],
   anchor       |-> [min |-> 0, max |-> 0, column |-> 0, sent |-> FALSE, ledger |-> 0, row |-> 19, operation |-> 38]]

Fields == DOMAIN Bounds

Texts ==
  {t \in [core : Cores, wide : Wides, marks : Marks, nul : BOOLEAN] :
     t.wide =< t.core /\ (t.nul => t.core > 0)}

Requests == [field : Fields, id : IdLengths, text : Texts]

Phases == {"arrived", "unprocessable", "valid", "failed", "queued", "applied", "refused"}

RequestTypeOK == request \in Requests /\ phase \in Phases

RequestInit == request \in Requests /\ phase = "arrived"

Characters(t) == t.core + t.marks
Units(t) == t.core + t.wide
Empty(t) == Characters(t) = 0

WrongIdIsValid(n) == n >= 3                \* no longest id
WrongRequireString(t, b) == Characters(t) > 0 /\ Units(t) < b.ledger

IdIsValid(n) == n >= 3 /\ n =< 64
TextIsValid(t, b) == Characters(t) >= b.min /\ Characters(t) =< b.max

(* The columns of the row and of its operation; PostgreSQL takes no NUL. *)
Fits(r, b) ==
  /\ ~r.text.nul
  /\ Characters(r.text) =< b.column
  /\ r.id + b.row =< 64
  /\ r.id + b.operation =< 128

RequireString(t, b) == t.core > 0 /\ Units(t) =< b.ledger

(* optionalString takes an empty text for none; a required one is never     *)
(* empty here.  The gateway and the contract bound the operation's id.      *)
Endorsable(r, b) ==
  /\ r.id + b.operation =< 128
  /\ r.id + b.row =< 64
  /\ b.sent => Empty(r.text) \/ RequireString(r.text, b)

Validate ==
  LET b == Bounds[request.field]
      valid == IdIsValid(request.id) /\ TextIsValid(request.text, b) IN
  /\ phase = "arrived"
  /\ phase' = IF valid THEN "valid" ELSE "unprocessable"
  /\ UNCHANGED request

Store ==
  /\ phase = "valid"
  /\ phase' = IF Fits(request, Bounds[request.field]) THEN "queued" ELSE "failed"
  /\ UNCHANGED request

(* The worker asks again for what was refused. *)
Submit ==
  /\ phase \in {"queued", "refused"}
  /\ phase' = IF Endorsable(request, Bounds[request.field]) THEN "applied" ELSE "refused"
  /\ UNCHANGED request

RequestNext == Validate \/ Store \/ Submit

RequestSpec == RequestInit /\ [][RequestNext]_requestVars

-----------------------------------------------------------------------------
(* Properties. *)

(* What the API takes and stores, the contract takes: an operation can be   *)
(* refused for its form, and retried for ever, only because of a text that   *)
(* has more UTF-16 units than characters, or of which the trim leaves       *)
(* nothing.                                                                 *)
OnlyUnitsAreRefused ==
  phase = "refused" => Units(request.text) > Characters(request.text) \/ request.text.core = 0

(* What the schemas accept is stored, but for a NUL and for the ids that    *)
(* the handlers derive from an id that is too long for them: 54 characters  *)
(* can be retired and 45 anchored.                                          *)
OnlyDerivedIdsAreTooLong ==
  phase = "failed" =>
    \/ request.text.nul
    \/ request.field = "retirement" /\ request.id > 54
    \/ request.field = "anchor" /\ request.id > 45

(* The invariant of the proofs: what has been checked so far. *)
BoundsInv ==
  /\ RequestTypeOK
  /\ phase \in {"valid", "failed", "queued", "applied", "refused"} =>
       /\ IdIsValid(request.id)
       /\ TextIsValid(request.text, Bounds[request.field])
  /\ phase = "failed" => ~Fits(request, Bounds[request.field])
  /\ phase \in {"queued", "applied", "refused"} => Fits(request, Bounds[request.field])
  /\ phase = "refused" => ~Endorsable(request, Bounds[request.field])
=============================================================================
