----------------------------- MODULE LoginLimiter -----------------------------
(***************************************************************************)
(* The limit on failed logins of auth.py, in one process of the API.  The  *)
(* handlers of logins run on several threads; the lock guards the queue of *)
(* a client, but not the verification of the password that lies between    *)
(* the check and the count.                                                *)
(*                                                                         *)
(* The deque of a client is an array that is appended to and the number of *)
(* entries popped from its front.  A client without an entry has an empty  *)
(* one (setdefault).                                                       *)
(***************************************************************************)
EXTENDS Integers, Sequences, FiniteSets

CONSTANTS
  Clients,   \* addresses logins come from
  Handlers,  \* threads that handle logins at the same time
  Limit,     \* LOGIN_RATE_LIMIT_ATTEMPTS
  Window,    \* LOGIN_RATE_LIMIT_WINDOW_SECONDS
  MaxTime,   \* bound on the clock
  None

ASSUME LimiterAssumption ==
  /\ IsFiniteSet(Handlers) /\ Handlers # {}
  /\ Limit \in Nat \ {0}
  /\ Window \in Nat \ {0}
  /\ MaxTime \in Nat
  /\ None \notin [client : Clients, time : Nat, admitted : BOOLEAN]

VARIABLES
  now,     \* time.monotonic()
  times,   \* failures of each client since its last success
  popped,  \* how many of them have left the deque
  logins   \* the login of each handler that is busy

vars == <<now, times, popped, logins>>

TypeOK ==
  /\ now \in Nat
  /\ times \in [Clients -> Seq(Nat)]
  /\ popped \in [Clients -> Nat]
  /\ logins \in [Handlers -> [client : Clients, time : Nat, admitted : BOOLEAN] \cup {None}]

Init ==
  /\ now = 0
  /\ times = [c \in Clients |-> <<>>]
  /\ popped = [c \in Clients |-> 0]
  /\ logins = [h \in Handlers |-> None]

Length(c) == Len(times[c]) - popped[c]
Expired(c, i, time) == times[c][i] + Window =< time

(* The while loop leaves the deque after popping the entries up to k.       *)
Prunes(c, time, k) ==
  /\ k \in popped[c] .. Len(times[c])
  /\ \A i \in popped[c] + 1 .. k : Expired(c, i, time)
  /\ k < Len(times[c]) => ~Expired(c, k + 1, time)

WrongFull(n) == n > Limit  \* one failure too many

Full(n) == n >= Limit

Tick ==
  /\ now < MaxTime
  /\ now' = now + 1
  /\ UNCHANGED <<times, popped, logins>>

(* enforce_login_rate_limit reads the clock before it takes the lock. *)
Arrive(h, c) ==
  /\ logins[h] = None
  /\ logins' = [logins EXCEPT ![h] = [client |-> c, time |-> now, admitted |-> FALSE]]
  /\ UNCHANGED <<now, times, popped>>

Waiting(h)   == logins[h] # None /\ ~logins[h].admitted
Verifying(h) == logins[h] # None /\ logins[h].admitted
Leave(h)     == logins' = [logins EXCEPT ![h] = None]

Admit(h) ==
  LET c == logins[h].client IN
  /\ Waiting(h)
  /\ \E k \in 0 .. Len(times[c]) :
       /\ Prunes(c, logins[h].time, k)
       /\ ~Full(Len(times[c]) - k)
       /\ popped' = [popped EXCEPT ![c] = k]
  /\ logins' = [logins EXCEPT ![h].admitted = TRUE]
  /\ UNCHANGED <<now, times>>

(* 429; the deque stays pruned. *)
Refuse(h) ==
  LET c == logins[h].client IN
  /\ Waiting(h)
  /\ \E k \in 0 .. Len(times[c]) :
       /\ Prunes(c, logins[h].time, k)
       /\ Full(Len(times[c]) - k)
       /\ popped' = [popped EXCEPT ![c] = k]
  /\ Leave(h)
  /\ UNCHANGED <<now, times>>

WrongFails(h) ==  \* the failure gets the time the login arrived at
  LET c == logins[h].client IN
  /\ Verifying(h)
  /\ times' = [times EXCEPT ![c] = Append(@, logins[h].time)]
  /\ Leave(h)
  /\ UNCHANGED <<now, popped>>

(* Wrong password, or no such active user: counted with the time at which   *)
(* the lock is held.                                                        *)
Fails(h) ==
  LET c == logins[h].client IN
  /\ Verifying(h)
  /\ times' = [times EXCEPT ![c] = Append(@, now)]
  /\ Leave(h)
  /\ UNCHANGED <<now, popped>>

(* The lookup of the user or the verification raises: nothing is counted.   *)
Errs(h) ==
  /\ Verifying(h)
  /\ Leave(h)
  /\ UNCHANGED <<now, times, popped>>

(* The entry of the client is dropped, with what others counted meanwhile. *)
Succeeds(h) ==
  LET c == logins[h].client IN
  /\ Verifying(h)
  /\ times' = [times EXCEPT ![c] = <<>>]
  /\ popped' = [popped EXCEPT ![c] = 0]
  /\ Leave(h)
  /\ UNCHANGED now

Next ==
  \/ Tick
  \/ \E h \in Handlers :
       \/ \E c \in Clients : Arrive(h, c)
       \/ Admit(h) \/ Refuse(h) \/ Fails(h) \/ Errs(h) \/ Succeeds(h)

Spec == Init /\ [][Next]_vars

-----------------------------------------------------------------------------
(* Properties.                                                             *)

Recent(c, time) == {i \in 1 .. Len(times[c]) : ~Expired(c, i, time)}
Admitted(c) == {h \in Handlers : Verifying(h) /\ logins[h].client = c}

(* In any window a client fails at most as often as the limit, and once more *)
(* for each other handler: all of them may have passed the check before one  *)
(* of them is counted (login checks, verifies, and counts).  Failures before *)
(* a success do not count, whoever had it.                                   *)
WindowIsBounded ==
  \A c \in Clients :
     Cardinality(Recent(c, now)) =< Limit + Cardinality(Handlers) - 1

(* A login is refused only while the limit is used up within the window that *)
(* ends when the login arrived: the failures are counted in the order of     *)
(* their times, so what is behind the first recent one is recent too, and a  *)
(* client that waits for a window is never refused.                          *)
RefusedOnlyWhenFull ==
  [][\A h \in Handlers :
       (Waiting(h) /\ logins'[h] = None) =>
         Cardinality(Recent(logins[h].client, logins[h].time)) >= Limit]_vars

(* The invariant of the proofs.  Of a client: its times are in order and    *)
(* past, what was popped is out of the window, and a login that was admitted *)
(* has its place in the bound before it is counted.                          *)
Ordered(c) ==
  /\ popped[c] =< Len(times[c])
  /\ \A i \in 1 .. Len(times[c]) : times[c][i] =< now
  /\ \A i, j \in 1 .. Len(times[c]) : i =< j => times[c][i] =< times[c][j]
  /\ \A i \in 1 .. popped[c] : Expired(c, i, now)

Bounded(c) == Length(c) + Cardinality(Admitted(c)) =< Limit + Cardinality(Handlers) - 1

LimiterInv ==
  /\ TypeOK
  /\ \A h \in Handlers : logins[h] # None => logins[h].time =< now
  /\ \A c \in Clients : Ordered(c) /\ Bounded(c)
=============================================================================
