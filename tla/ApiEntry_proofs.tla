----------------------------- MODULE ApiEntry_proofs -----------------------------
(***************************************************************************)
(* What a request meets before the work of its handler begins.  The limit  *)
(* on failed logins holds for any number of clients, handlers, failures    *)
(* and seconds; the bounds of the API, the database and the contract fit   *)
(* each other for texts and ids of any length.                             *)
(***************************************************************************)
EXTENDS LoginLimiter, RequestBounds, FiniteSetTheorems, TLAPS

USE LimiterAssumption

-----------------------------------------------------------------------------
(* Logins that were admitted. *)

LEMMA AdmittedCount ==
  ASSUME NEW c
  PROVE  /\ IsFiniteSet(Admitted(c))
         /\ Cardinality(Admitted(c)) \in Nat
         /\ Cardinality(Admitted(c)) =< Cardinality(Handlers)
BY FS_Subset, FS_CardinalityType DEF Admitted

LEMMA HandlersCount == Cardinality(Handlers) \in Nat /\ Cardinality(Handlers) >= 1
BY FS_CardinalityType, FS_EmptySet

LEMMA InitInv == Init => LimiterInv
<1> SUFFICES ASSUME Init
             PROVE  LimiterInv
  OBVIOUS
<1>1. TypeOK
  BY DEF Init, TypeOK
<1>2. ASSUME NEW c \in Clients
      PROVE  Ordered(c) /\ Bounded(c)
  <2>1. Admitted(c) = {}
    BY DEF Init, Admitted, Verifying
  <2>2. Len(times[c]) = 0 /\ popped[c] = 0
    BY DEF Init
  <2>3. Cardinality(Admitted(c)) = 0
    BY <2>1, FS_EmptySet
  <2>. QED  BY <2>2, <2>3, HandlersCount DEF Ordered, Bounded, Length
<1>. QED  BY <1>1, <1>2 DEF LimiterInv, Init

-----------------------------------------------------------------------------
(* Each step. *)

(* What the bound needs of a step that leaves the queues alone. *)
LEMMA SameQueues ==
  ASSUME LimiterInv, TypeOK', UNCHANGED <<times, popped>>,
         now' >= now,
         \A h \in Handlers : logins'[h] # None => logins'[h].time =< now',
         \A c \in Clients : Admitted(c)' \subseteq Admitted(c)
  PROVE  LimiterInv'
<1>1. ASSUME NEW c \in Clients
      PROVE  Ordered(c)' /\ Bounded(c)'
  <2>1. Ordered(c)'
    BY DEF LimiterInv, TypeOK, Ordered, Expired
  <2>2. Cardinality(Admitted(c)') =< Cardinality(Admitted(c))
    BY AdmittedCount, FS_Subset
  <2>3. Cardinality(Admitted(c)') \in Nat
    BY AdmittedCount, FS_Subset, FS_CardinalityType
  <2>4. Length(c)' = Length(c) /\ Length(c) \in Int
    BY DEF Length, LimiterInv, TypeOK
  <2>. QED  BY <2>1, <2>2, <2>3, <2>4, AdmittedCount, HandlersCount DEF LimiterInv, Bounded
<1>. QED  BY <1>1 DEF LimiterInv

LEMMA TickInv ==
  ASSUME LimiterInv, Tick
  PROVE  LimiterInv'
<1>1. TypeOK'
  BY DEF LimiterInv, TypeOK, Tick
<1>2. now' >= now /\ \A h \in Handlers : logins'[h] # None => logins'[h].time =< now'
  BY DEF LimiterInv, TypeOK, Tick
<1>3. \A c \in Clients : Admitted(c)' \subseteq Admitted(c)
  BY DEF Tick, Admitted, Verifying
<1>. QED  BY <1>1, <1>2, <1>3, SameQueues DEF Tick

LEMMA ArriveInv ==
  ASSUME LimiterInv, NEW h \in Handlers, NEW c \in Clients, Arrive(h, c)
  PROVE  LimiterInv'
<1>1. TypeOK'
  BY DEF LimiterInv, TypeOK, Arrive
<1>2. now' >= now /\ \A g \in Handlers : logins'[g] # None => logins'[g].time =< now'
  BY DEF LimiterInv, TypeOK, Arrive
<1>3. \A d \in Clients : Admitted(d)' \subseteq Admitted(d)
  BY DEF LimiterInv, TypeOK, Arrive, Admitted, Verifying
<1>. QED  BY <1>1, <1>2, <1>3, SameQueues DEF Arrive

(* The while loop of a login that is waiting: it pops only what is out of   *)
(* the window.                                                              *)
LEMMA PrunesOrdered ==
  ASSUME LimiterInv, NEW h \in Handlers, Waiting(h),
         NEW c \in Clients, logins[h].client = c,
         NEW k \in Nat, Prunes(c, logins[h].time, k),
         popped' = [popped EXCEPT ![c] = k],
         UNCHANGED <<now, times>>
  PROVE  /\ popped' \in [Clients -> Nat]
         /\ \A d \in Clients : Ordered(d)'
         /\ \A d \in Clients : Length(d)' =< Length(d)
         /\ \A d \in Clients : Length(d) \in Int /\ Length(d)' \in Int
         /\ Length(c)' = Len(times[c]) - k
<1>1. logins[h].time \in Nat /\ logins[h].time =< now /\ now \in Nat
  BY DEF LimiterInv, TypeOK, Waiting
<1>2. popped' \in [Clients -> Nat] /\ popped'[c] = k
  BY <1>1 DEF LimiterInv, TypeOK
<1>3. Len(times[c]) \in Nat /\ popped[c] \in Nat /\ popped[c] =< k /\ k =< Len(times[c])
  BY <1>1 DEF LimiterInv, TypeOK, Prunes
<1>4. ASSUME NEW i \in 1 .. k
      PROVE  times[c][i] + Window =< now
  <2>1. times[c][i] \in Nat
    BY <1>1, <1>3 DEF LimiterInv, TypeOK
  <2>2. CASE i =< popped[c]
    BY <1>1, <1>3, <2>2 DEF LimiterInv, Ordered, Expired
  <2>3. CASE i > popped[c]
    <3>1. i \in popped[c] + 1 .. k
      BY <1>3, <2>3
    <3>2. times[c][i] + Window =< logins[h].time
      BY <3>1 DEF Prunes, Expired
    <3>. QED  BY <1>1, <2>1, <3>2
  <2>. QED  BY <1>3, <2>2, <2>3
<1>5. Ordered(c)'
  BY <1>1, <1>2, <1>3, <1>4 DEF LimiterInv, Ordered, Expired
<1>6. \A d \in Clients \ {c} : Ordered(d)' /\ popped'[d] = popped[d]
  BY <1>1 DEF LimiterInv, TypeOK, Ordered, Expired
<1>7. \A d \in Clients : Len(times[d]) \in Nat /\ popped[d] \in Nat
  BY DEF LimiterInv, TypeOK
<1>. QED  BY <1>1, <1>2, <1>3, <1>5, <1>6, <1>7 DEF Length

LEMMA AdmitInv ==
  ASSUME LimiterInv, NEW h \in Handlers, Admit(h)
  PROVE  LimiterInv'
<1>0. PICK c \in Clients : c = logins[h].client
  BY DEF Admit, Waiting, LimiterInv, TypeOK
<1>1. PICK k \in 0 .. Len(times[c]) :
        /\ Prunes(c, logins[h].time, k)
        /\ ~Full(Len(times[c]) - k)
        /\ popped' = [popped EXCEPT ![c] = k]
  BY <1>0 DEF Admit
<1>2. Waiting(h) /\ logins' = [logins EXCEPT ![h].admitted = TRUE] /\ UNCHANGED <<now, times>>
  BY <1>0 DEF Admit
<1>3. c \in Clients /\ Len(times[c]) \in Nat /\ k \in Nat
  BY <1>1, <1>2 DEF LimiterInv, TypeOK, Waiting
<1>4. /\ popped' \in [Clients -> Nat]
      /\ \A d \in Clients : Ordered(d)'
      /\ \A d \in Clients : Length(d)' =< Length(d)
      /\ \A d \in Clients : Length(d) \in Int /\ Length(d)' \in Int
      /\ Length(c)' = Len(times[c]) - k
  BY <1>0, <1>1, <1>2, <1>3, PrunesOrdered
<1>5. TypeOK' /\ \A g \in Handlers : logins'[g] # None => logins'[g].time =< now'
  BY <1>2, <1>4 DEF LimiterInv, TypeOK, Waiting
<1>6. ASSUME NEW d \in Clients, d # c
      PROVE  Bounded(d)'
  <2>1. Admitted(d)' = Admitted(d)
    BY <1>0, <1>2, <1>6 DEF Admitted, Verifying, Waiting, LimiterInv, TypeOK
  <2>. QED  BY <1>4, <2>1, AdmittedCount, HandlersCount DEF LimiterInv, Bounded
<1>7. Bounded(c)'
  <2>1. Cardinality(Admitted(c)') \in Nat /\ Cardinality(Admitted(c)') =< Cardinality(Handlers)
    BY FS_Subset, FS_CardinalityType DEF Admitted
  <2>2. Length(c)' =< Limit - 1
    BY <1>1, <1>3, <1>4 DEF Full
  <2>. QED  BY <1>3, <1>4, <2>1, <2>2, HandlersCount DEF Bounded
<1>. QED  BY <1>4, <1>5, <1>6, <1>7 DEF LimiterInv

LEMMA RefuseInv ==
  ASSUME LimiterInv, NEW h \in Handlers, Refuse(h)
  PROVE  LimiterInv'
<1>0. PICK c \in Clients : c = logins[h].client
  BY DEF Refuse, Waiting, LimiterInv, TypeOK
<1>1. PICK k \in 0 .. Len(times[c]) :
        /\ Prunes(c, logins[h].time, k)
        /\ popped' = [popped EXCEPT ![c] = k]
  BY <1>0 DEF Refuse
<1>2. Waiting(h) /\ logins' = [logins EXCEPT ![h] = None] /\ UNCHANGED <<now, times>>
  BY DEF Refuse, Leave
<1>3. c \in Clients /\ Len(times[c]) \in Nat /\ k \in Nat
  BY <1>1, <1>2 DEF LimiterInv, TypeOK, Waiting
<1>4. /\ popped' \in [Clients -> Nat]
      /\ \A d \in Clients : Ordered(d)'
      /\ \A d \in Clients : Length(d)' =< Length(d)
      /\ \A d \in Clients : Length(d) \in Int /\ Length(d)' \in Int
  BY <1>0, <1>1, <1>2, <1>3, PrunesOrdered
<1>5. TypeOK' /\ \A g \in Handlers : logins'[g] # None => logins'[g].time =< now'
  BY <1>2, <1>4 DEF LimiterInv, TypeOK
<1>6. ASSUME NEW d \in Clients
      PROVE  Bounded(d)'
  <2>1. Admitted(d)' = Admitted(d)
    BY <1>2 DEF Admitted, Verifying, Waiting, LimiterInv, TypeOK
  <2>. QED  BY <1>4, <2>1, AdmittedCount, HandlersCount DEF LimiterInv, Bounded
<1>. QED  BY <1>4, <1>5, <1>6 DEF LimiterInv

(* A login that is counted gives up the place it had when it was admitted. *)
LEMMA FailsInv ==
  ASSUME LimiterInv, NEW h \in Handlers, Fails(h)
  PROVE  LimiterInv'
<1>0. PICK c \in Clients : c = logins[h].client
  BY DEF Fails, Verifying, LimiterInv, TypeOK
<1>1. /\ Verifying(h)
      /\ times' = [times EXCEPT ![c] = Append(@, now)]
      /\ logins' = [logins EXCEPT ![h] = None]
      /\ UNCHANGED <<now, popped>>
  BY <1>0 DEF Fails, Leave
<1>2. /\ c \in Clients /\ times[c] \in Seq(Nat) /\ now \in Nat
      /\ Len(times[c]) \in Nat /\ popped[c] \in Nat
  BY <1>1 DEF LimiterInv, TypeOK, Verifying
<1>3. times'[c] = Append(times[c], now) /\ \A d \in Clients \ {c} : times'[d] = times[d]
  BY <1>1, <1>2 DEF LimiterInv, TypeOK
<1>4. TypeOK' /\ \A g \in Handlers : logins'[g] # None => logins'[g].time =< now'
  BY <1>1, <1>2 DEF LimiterInv, TypeOK
<1>5. /\ Len(times'[c]) = Len(times[c]) + 1
      /\ \A i \in 1 .. Len(times[c]) : times'[c][i] = times[c][i]
      /\ times'[c][Len(times[c]) + 1] = now
  BY <1>2, <1>3
<1>6. Ordered(c)'
  <2>1. Ordered(c) /\ \A i \in 1 .. Len(times[c]) : times[c][i] \in Nat
    BY <1>2 DEF LimiterInv
  <2>2. popped'[c] =< Len(times'[c])
    BY <1>1, <1>2, <1>5, <2>1 DEF Ordered
  <2>3. \A i \in 1 .. Len(times'[c]) : times'[c][i] =< now
    BY <1>2, <1>5, <2>1 DEF Ordered
  <2>4. ASSUME NEW i \in 1 .. Len(times'[c]), NEW j \in 1 .. Len(times'[c]), i =< j
        PROVE  times'[c][i] =< times'[c][j]
    <3>1. CASE j = Len(times[c]) + 1
      BY <1>5, <2>3, <3>1
    <3>2. CASE j # Len(times[c]) + 1
      <4>1. i \in 1 .. Len(times[c]) /\ j \in 1 .. Len(times[c])
        BY <1>2, <1>5, <2>4, <3>2
      <4>2. times[c][i] =< times[c][j]
        BY <2>1, <2>4, <4>1 DEF Ordered
      <4>. QED  BY <1>5, <4>1, <4>2
    <3>. QED  BY <3>1, <3>2
  <2>5. ASSUME NEW i \in 1 .. popped[c]
        PROVE  times'[c][i] + Window =< now
    <3>1. times[c][i] + Window =< now /\ popped[c] =< Len(times[c])
      BY <2>1 DEF Ordered, Expired
    <3>2. i \in 1 .. Len(times[c])
      BY <1>2, <3>1
    <3>3. times'[c][i] = times[c][i]
      BY <1>5, <3>2
    <3>. QED  BY <3>1, <3>3
  <2>. QED  BY <1>1, <2>2, <2>3, <2>4, <2>5 DEF Ordered, Expired
<1>7. \A d \in Clients \ {c} : Ordered(d)'
  BY <1>1, <1>3 DEF LimiterInv, Ordered, Expired
<1>8. Bounded(c)'
  <2>1. Admitted(c)' = Admitted(c) \ {h} /\ h \in Admitted(c)
    BY <1>0, <1>1 DEF Admitted, Verifying, LimiterInv, TypeOK
  <2>2. Cardinality(Admitted(c)') = Cardinality(Admitted(c)) - 1
    BY <2>1, AdmittedCount, FS_RemoveElement
  <2>3. Length(c)' = Length(c) + 1 /\ Length(c) \in Int
    BY <1>1, <1>2, <1>5 DEF Length
  <2>. QED  BY <1>2, <2>2, <2>3, AdmittedCount, HandlersCount DEF LimiterInv, Bounded
<1>9. ASSUME NEW d \in Clients \ {c}
      PROVE  Bounded(d)'
  <2>1. Admitted(d)' = Admitted(d)
    BY <1>0, <1>1 DEF Admitted, Verifying, LimiterInv, TypeOK
  <2>2. Length(d)' = Length(d)
    BY <1>1, <1>3 DEF Length
  <2>. QED  BY <2>1, <2>2 DEF LimiterInv, Bounded
<1>. QED  BY <1>4, <1>6, <1>7, <1>8, <1>9 DEF LimiterInv

LEMMA ErrsInv ==
  ASSUME LimiterInv, NEW h \in Handlers, Errs(h)
  PROVE  LimiterInv'
<1>1. /\ TypeOK'
      /\ now' >= now
      /\ \A g \in Handlers : logins'[g] # None => logins'[g].time =< now'
  BY DEF Errs, Leave, LimiterInv, TypeOK
<1>2. \A c \in Clients : Admitted(c)' \subseteq Admitted(c)
  BY DEF Errs, Leave, LimiterInv, TypeOK, Admitted, Verifying
<1>. QED  BY <1>1, <1>2, SameQueues DEF Errs

LEMMA SucceedsInv ==
  ASSUME LimiterInv, NEW h \in Handlers, Succeeds(h)
  PROVE  LimiterInv'
<1>0. PICK c \in Clients : c = logins[h].client
  BY DEF Succeeds, Verifying, LimiterInv, TypeOK
<1>1. /\ Verifying(h)
      /\ times' = [times EXCEPT ![c] = <<>>]
      /\ popped' = [popped EXCEPT ![c] = 0]
      /\ logins' = [logins EXCEPT ![h] = None]
      /\ UNCHANGED now
  BY <1>0 DEF Succeeds, Leave
<1>2. c \in Clients
  BY <1>1 DEF LimiterInv, TypeOK, Verifying
<1>3. /\ times'[c] = <<>> /\ popped'[c] = 0
      /\ \A d \in Clients \ {c} : times'[d] = times[d] /\ popped'[d] = popped[d]
  BY <1>1, <1>2 DEF LimiterInv, TypeOK
<1>4. TypeOK' /\ \A g \in Handlers : logins'[g] # None => logins'[g].time =< now'
  BY <1>1, <1>2 DEF LimiterInv, TypeOK
<1>5. Ordered(c)'
  BY <1>3 DEF Ordered
<1>6. Bounded(c)'
  <2>1. Cardinality(Admitted(c)') \in Nat /\ Cardinality(Admitted(c)') =< Cardinality(Handlers)
    BY FS_Subset, FS_CardinalityType DEF Admitted
  <2>2. Length(c)' = 0
    BY <1>3 DEF Length
  <2>. QED  BY <2>1, <2>2, HandlersCount DEF Bounded
<1>7. ASSUME NEW d \in Clients \ {c}
      PROVE  Ordered(d)' /\ Bounded(d)'
  <2>1. Admitted(d)' = Admitted(d)
    BY <1>0, <1>1 DEF Admitted, Verifying, LimiterInv, TypeOK
  <2>2. Length(d)' = Length(d)
    BY <1>3 DEF Length
  <2>3. Ordered(d)'
    BY <1>1, <1>3 DEF LimiterInv, Ordered, Expired
  <2>. QED  BY <2>1, <2>2, <2>3 DEF LimiterInv, Bounded
<1>. QED  BY <1>4, <1>5, <1>6, <1>7 DEF LimiterInv

LEMMA NextInv == LimiterInv /\ [Next]_vars => LimiterInv'
<1> SUFFICES ASSUME LimiterInv, [Next]_vars
             PROVE  LimiterInv'
  OBVIOUS
<1>1. CASE UNCHANGED vars
  <2>1. TypeOK' /\ UNCHANGED <<now, times, popped, logins>>
    BY <1>1 DEF vars, LimiterInv, TypeOK
  <2>2. \A c \in Clients : Admitted(c)' \subseteq Admitted(c)
    BY <2>1 DEF Admitted, Verifying
  <2>. QED  BY <2>1, <2>2, SameQueues DEF LimiterInv, TypeOK
<1>. QED  BY <1>1, TickInv, ArriveInv, AdmitInv, RefuseInv, FailsInv, ErrsInv, SucceedsInv
          DEF Next

-----------------------------------------------------------------------------
(* What the invariant says of a window. *)

LEMMA TailCount ==
  ASSUME NEW k \in Nat, NEW n \in Nat, k =< n
  PROVE  IsFiniteSet(k + 1 .. n) /\ Cardinality(k + 1 .. n) = n - k
<1>1. k + 1 \in Int /\ n \in Int
  OBVIOUS
<1>2. /\ IsFiniteSet(k + 1 .. n)
      /\ Cardinality(k + 1 .. n) = IF k + 1 > n THEN 0 ELSE n - (k + 1) + 1
  BY <1>1, FS_Interval
<1>. QED  BY <1>2

LEMMA RecentIsLeft ==
  ASSUME LimiterInv
  PROVE  WindowIsBounded
<1> SUFFICES ASSUME NEW c \in Clients
             PROVE  Cardinality(Recent(c, now)) =< Limit + Cardinality(Handlers) - 1
  BY DEF WindowIsBounded
<1>1. Len(times[c]) \in Nat /\ popped[c] \in Nat /\ popped[c] =< Len(times[c])
  BY DEF LimiterInv, TypeOK, Ordered
<1>2. Recent(c, now) \subseteq popped[c] + 1 .. Len(times[c])
  BY <1>1 DEF LimiterInv, Ordered, Recent
<1>3. /\ IsFiniteSet(popped[c] + 1 .. Len(times[c]))
      /\ Cardinality(popped[c] + 1 .. Len(times[c])) = Length(c)
  BY <1>1, TailCount DEF Length
<1>4. Cardinality(Recent(c, now)) =< Length(c) /\ Cardinality(Recent(c, now)) \in Nat
  BY <1>2, <1>3, FS_Subset, FS_CardinalityType
<1>. QED  BY <1>1, <1>4, AdmittedCount, HandlersCount DEF LimiterInv, Bounded, Length

(* However many threads handle logins, a client fails in no window more     *)
(* often than the limit and once more for each other thread.                *)
THEOREM WindowIsBoundedHolds == Spec => []WindowIsBounded
BY InitInv, NextInv, RecentIsLeft, PTL DEF Spec

LEMMA RefusedIsFull ==
  ASSUME LimiterInv, NEW h \in Handlers, Refuse(h)
  PROVE  Cardinality(Recent(logins[h].client, logins[h].time)) >= Limit
<1>0. PICK c \in Clients, time \in Nat : c = logins[h].client /\ time = logins[h].time
  BY DEF LimiterInv, TypeOK, Refuse, Waiting
<1>1. PICK k \in 0 .. Len(times[c]) : Prunes(c, time, k) /\ Full(Len(times[c]) - k)
  BY <1>0 DEF Refuse
<1>2. /\ times[c] \in Seq(Nat) /\ Len(times[c]) \in Nat
      /\ k \in Nat /\ k =< Len(times[c])
  BY DEF LimiterInv, TypeOK
<1>3. k + 1 .. Len(times[c]) \subseteq Recent(c, time)
  <2> SUFFICES ASSUME NEW i \in k + 1 .. Len(times[c])
               PROVE  ~Expired(c, i, time) /\ i \in 1 .. Len(times[c])
    BY DEF Recent
  <2>1. k < Len(times[c]) /\ k + 1 \in 1 .. Len(times[c]) /\ i \in 1 .. Len(times[c])
    BY <1>2
  <2>2. ~Expired(c, k + 1, time)
    BY <1>1, <2>1 DEF Prunes
  <2>3. times[c][k + 1] =< times[c][i]
    BY <1>2, <2>1 DEF LimiterInv, Ordered
  <2>4. times[c][k + 1] \in Nat /\ times[c][i] \in Nat
    BY <1>2, <2>1
  <2>5. ~(times[c][k + 1] + Window =< time)
    BY <2>2 DEF Expired
  <2>6. ~(times[c][i] + Window =< time)
    BY <1>2, <2>3, <2>4, <2>5
  <2>. QED  BY <2>1, <2>6 DEF Expired
<1>4. Recent(c, time) \subseteq 1 .. Len(times[c])
  BY DEF Recent
<1>5. IsFiniteSet(Recent(c, time))
  <2>1. 0 + 1 .. Len(times[c]) = 1 .. Len(times[c])
    BY <1>2
  <2>2. IsFiniteSet(1 .. Len(times[c]))
    BY <1>2, <2>1, 0 =< Len(times[c]), TailCount
  <2>. QED  BY <1>4, <2>2, FS_Subset
<1>6. Cardinality(k + 1 .. Len(times[c])) =< Cardinality(Recent(c, time))
  BY <1>3, <1>5, FS_Subset
<1>7. Cardinality(k + 1 .. Len(times[c])) = Len(times[c]) - k
  BY <1>2, TailCount
<1>8. Len(times[c]) - k >= Limit
  BY <1>1 DEF Full
<1>9. Cardinality(Recent(c, time)) \in Nat
  BY <1>5, FS_CardinalityType
<1>. QED  BY <1>0, <1>2, <1>6, <1>7, <1>8, <1>9

(* A login is refused only while the window that ends with its arrival holds *)
(* as many failures as the limit, whatever other threads count meanwhile.    *)
THEOREM RefusedOnlyWhenFullHolds == Spec => RefusedOnlyWhenFull
<1> DEFINE Step ==
  \A h \in Handlers :
    (Waiting(h) /\ logins'[h] = None) =>
      Cardinality(Recent(logins[h].client, logins[h].time)) >= Limit
<1>1. LimiterInv /\ [Next]_vars => [Step]_vars
  <2> SUFFICES ASSUME LimiterInv, Next, NEW h \in Handlers, Waiting(h), logins'[h] = None
               PROVE  Refuse(h)
    BY RefusedIsFull
  <2>1. ASSUME NEW g \in Handlers,
               Admit(g) \/ Fails(g) \/ Errs(g) \/ Succeeds(g) \/ \E c \in Clients : Arrive(g, c)
        PROVE  FALSE
    <3>1. CASE g # h
      BY <2>1, <3>1 DEF Admit, Fails, Errs, Succeeds, Arrive, Leave, Waiting, LimiterInv, TypeOK
    <3>2. CASE g = h
      <4>1. Admit(h)
        BY <2>1, <3>2 DEF Fails, Errs, Succeeds, Arrive, Waiting, Verifying
      <4>2. logins'[h] = [logins[h] EXCEPT !.admitted = TRUE]
        BY <4>1 DEF Admit, LimiterInv, TypeOK
      <4>3. logins'[h] \in [client : Clients, time : Nat, admitted : BOOLEAN]
        BY <4>2 DEF LimiterInv, TypeOK, Waiting
      <4>. QED  BY <4>3
    <3>. QED  BY <3>1, <3>2
  <2>2. ASSUME NEW g \in Handlers, Refuse(g)
        PROVE  g = h
    BY <2>2 DEF Refuse, Leave, Waiting, LimiterInv, TypeOK
  <2>3. ~Tick
    BY DEF Tick, Waiting
  <2>. QED  BY <2>1, <2>2, <2>3 DEF Next
<1>. QED  BY <1>1, InitInv, NextInv, PTL DEF Spec, RefusedOnlyWhenFull

-----------------------------------------------------------------------------
(* The lengths of what clients write. *)

USE BoundsAssumption

(* What the tables of bounds have in common. *)
LEMMA BoundsAgree ==
  ASSUME NEW f \in Fields
  PROVE  /\ Bounds[f].max =< Bounds[f].column
         /\ Bounds[f].sent => Bounds[f].max =< Bounds[f].ledger
         /\ Bounds[f].max \in Nat /\ Bounds[f].column \in Nat /\ Bounds[f].ledger \in Nat
         /\ Bounds[f].operation \in 0 .. 38
         /\ Bounds[f].row = IF f = "retirement" THEN 10 ELSE IF f = "anchor" THEN 19 ELSE 0
BY DEF Fields, Bounds, Unlimited

LEMMA RequestType ==
  ASSUME request \in Requests
  PROVE  /\ request.field \in Fields
         /\ request.id \in Nat
         /\ request.text.core \in Nat /\ request.text.wide \in Nat /\ request.text.marks \in Nat
         /\ request.text.nul \in BOOLEAN
BY DEF Requests, Texts

LEMMA RequestInitInv == RequestInit => BoundsInv
BY DEF RequestInit, BoundsInv, RequestTypeOK, Phases

LEMMA RequestNextInv == BoundsInv /\ [RequestNext]_requestVars => BoundsInv'
<1> SUFFICES ASSUME BoundsInv, [RequestNext]_requestVars
             PROVE  BoundsInv'
  OBVIOUS
<1>1. CASE Validate
  BY <1>1 DEF Validate, BoundsInv, RequestTypeOK, Phases
<1>2. CASE Store
  BY <1>2 DEF Store, BoundsInv, RequestTypeOK, Phases
<1>3. CASE Submit
  BY <1>3 DEF Submit, BoundsInv, RequestTypeOK, Phases
<1>4. CASE UNCHANGED requestVars
  BY <1>4 DEF requestVars, BoundsInv, RequestTypeOK
<1>. QED  BY <1>1, <1>2, <1>3, <1>4 DEF RequestNext

LEMMA RefusedForUnits ==
  ASSUME BoundsInv
  PROVE  OnlyUnitsAreRefused
<1> SUFFICES ASSUME phase = "refused", request.text.core # 0
             PROVE  Units(request.text) > Characters(request.text)
  BY DEF OnlyUnitsAreRefused
<1> DEFINE b == Bounds[request.field]
           t == request.text
<1>1. request \in Requests /\ TextIsValid(t, b) /\ Fits(request, b) /\ ~Endorsable(request, b)
  BY DEF BoundsInv, RequestTypeOK
<1>2. b.sent /\ ~RequireString(t, b)
  BY <1>1 DEF Fits, Endorsable
<1>3. t.core > 0 /\ t.core \in Nat /\ t.wide \in Nat /\ t.marks \in Nat
  BY <1>1, RequestType
<1>4. ~(Units(t) =< b.ledger)
  BY <1>2, <1>3 DEF RequireString
<1>5. b.max =< b.ledger /\ b.max \in Nat /\ b.ledger \in Nat
  BY <1>1, <1>2, RequestType, BoundsAgree
<1>6. Characters(t) =< b.max
  BY <1>1 DEF TextIsValid
<1>. QED  BY <1>3, <1>4, <1>5, <1>6 DEF Units, Characters

(* Whatever its length, a text that the API takes and the database stores is *)
(* refused by the contract only for its UTF-16 units or because the trim     *)
(* leaves nothing of it.                                                     *)
THEOREM OnlyUnitsAreRefusedHolds == RequestSpec => []OnlyUnitsAreRefused
BY RequestInitInv, RequestNextInv, RefusedForUnits, PTL DEF RequestSpec

LEMMA FailedForIds ==
  ASSUME BoundsInv
  PROVE  OnlyDerivedIdsAreTooLong
<1> SUFFICES ASSUME phase = "failed", ~request.text.nul
             PROVE  \/ request.field = "retirement" /\ request.id > 54
                    \/ request.field = "anchor" /\ request.id > 45
  BY DEF OnlyDerivedIdsAreTooLong
<1> DEFINE b == Bounds[request.field]
           t == request.text
<1>1. /\ request \in Requests /\ IdIsValid(request.id) /\ TextIsValid(t, b)
      /\ ~Fits(request, b)
  BY DEF BoundsInv, RequestTypeOK
<1>2. /\ request.id \in Nat /\ request.id =< 64
      /\ Characters(t) \in Nat /\ Characters(t) =< b.max
  BY <1>1, RequestType DEF IdIsValid, TextIsValid, Characters
<1>3. /\ b.max =< b.column /\ b.max \in Nat /\ b.column \in Nat
      /\ b.operation \in 0 .. 38
      /\ b.row = IF request.field = "retirement" THEN 10 ELSE IF request.field = "anchor" THEN 19 ELSE 0
  BY <1>1, RequestType, BoundsAgree
<1>4. Characters(t) =< b.column /\ request.id + b.operation =< 128
  BY <1>2, <1>3
<1>5. ~(request.id + b.row =< 64)
  BY <1>1, <1>4 DEF Fits
<1>. QED  BY <1>2, <1>3, <1>5

(* Whatever the lengths, a request that the schemas take is not stored only  *)
(* for a NUL or for a derived id that is too long.                           *)
THEOREM OnlyDerivedIdsAreTooLongHolds == RequestSpec => []OnlyDerivedIdsAreTooLong
BY RequestInitInv, RequestNextInv, FailedForIds, PTL DEF RequestSpec
=================================================================================
