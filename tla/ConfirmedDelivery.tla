--------------------------- MODULE ConfirmedDelivery ---------------------------
(***************************************************************************)
(* What the outbox promises: an operation is queued once, applied to the   *)
(* ledger at most once and only after it was queued, and confirmed only    *)
(* after it was applied; nothing of this is ever taken back, and under     *)
(* fairness every queued operation is applied and confirmed.               *)
(***************************************************************************)
CONSTANT Operations

VARIABLES
  queued,    \* operations the application has committed to
  applied,   \* operations that took effect on the ledger
  confirmed  \* operations the application knows to be applied

vars == <<queued, applied, confirmed>>

TypeOK ==
  /\ queued \subseteq Operations
  /\ applied \subseteq queued
  /\ confirmed \subseteq applied

Init ==
  /\ queued = {}
  /\ applied = {}
  /\ confirmed = {}

Queue(o) ==
  /\ o \notin queued
  /\ queued' = queued \cup {o}
  /\ UNCHANGED <<applied, confirmed>>

Apply(o) ==
  /\ o \in queued \ applied
  /\ applied' = applied \cup {o}
  /\ UNCHANGED <<queued, confirmed>>

Confirm(o) ==
  /\ o \in applied \ confirmed
  /\ confirmed' = confirmed \cup {o}
  /\ UNCHANGED <<queued, applied>>

Next == \E o \in Operations : Queue(o) \/ Apply(o) \/ Confirm(o)

Fairness == \A o \in Operations : WF_vars(Apply(o)) /\ WF_vars(Confirm(o))

Spec == Init /\ [][Next]_vars
FairSpec == Spec /\ Fairness
=============================================================================
