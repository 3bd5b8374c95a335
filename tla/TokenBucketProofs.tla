-------------------------- MODULE TokenBucketProofs --------------------------
(* Bandwidth enforcement, for every set of rates and sizes, every burst
   factor and every sequence of packets and reallocations. *)
EXTENDS TokenBucket, TLAPS

-----------------------------------------------------------------------------
(* Products. *)

LEMMA Distributes ==
    \A r, x, y \in Nat : r * (x + y) = r * x + r * y
  OBVIOUS

LEMMA ProductNat == \A r, x \in Nat : r * x \in Nat
  OBVIOUS

LEMMA ProductMonotonic ==
    ASSUME NEW r \in Nat, NEW s \in Nat, NEW x \in Nat, r <= s
    PROVE  r * x <= s * x
<1>1. PICK d \in Nat : s = r + d
  <2>1. s - r \in Nat /\ s = r + (s - r)
    OBVIOUS
  <2> QED
    BY <2>1
<1>2. s * x = r * x + d * x
  BY <1>1
<1>3. d * x \in Nat /\ r * x \in Nat
  BY <1>1, ProductNat
<1> QED
  BY <1>2, <1>3

-----------------------------------------------------------------------------
LEMMA TypeInit == Init => TypeOK
  BY BucketAssumption, ProductNat DEF Init, TypeOK, Marks

LEMMA RefilledType ==
    ASSUME TypeOK
    PROVE  /\ Refilled \in 0 .. capacity
           /\ tokens <= Refilled
           /\ Refilled <= tokens + (now - last) * rate
           /\ (now - last) * rate \in Nat
<1>1. rate \in Nat /\ capacity \in Nat /\ tokens \in 0 .. capacity
      /\ now - last \in Nat
  BY BucketAssumption DEF TypeOK
<1>2. (now - last) * rate \in Nat
  BY <1>1, ProductNat
<1> QED
  BY <1>1, <1>2 DEF Refilled, Lesser

LEMMA TypeNext == TypeOK /\ [Next]_vars => TypeOK'
<1> SUFFICES ASSUME TypeOK, [Next]_vars
             PROVE  TypeOK'
  OBVIOUS
<1>1. ASSUME NEW n \in Sizes, Consume(n)
      PROVE  TypeOK'
  <2>1. n \in Nat /\ Refilled \in 0 .. capacity
    BY BucketAssumption, RefilledType
  <2>2. tokens' \in 0 .. capacity /\ served' \in Nat /\ served <= served'
    BY <1>1, <2>1 DEF Consume, TypeOK
  <2> QED
    BY <1>1, <2>2 DEF Consume, TypeOK, Marks
<1>2. ASSUME NEW r \in Rates, UpdateRate(r)
      PROVE  TypeOK'
  <2>1. BurstFactor * r \in Nat
    BY BucketAssumption, ProductNat
  <2>2. capacity' \in Nat /\ tokens \in 0 .. capacity'
    BY <1>2, <2>1 DEF UpdateRate, Greater, TypeOK
  <2> QED
    BY <1>2, <2>2 DEF UpdateRate, TypeOK, Marks
<1>3. ASSUME Elapse
      PROVE  TypeOK'
  BY <1>3, BucketAssumption DEF Elapse, TypeOK
<1>4. CASE UNCHANGED vars
  BY <1>4 DEF vars, TypeOK
<1> QED
  BY <1>1, <1>2, <1>3, <1>4 DEF Next

(* The bucket never holds more than its capacity and its clocks are ordered:
   in particular lowering the rate keeps the tokens within the capacity. *)
THEOREM TypeCorrect == Spec => []TypeOK
  BY TypeInit, TypeNext, PTL DEF Spec

-----------------------------------------------------------------------------
(* What was let through and what is still in the bucket, against what the
   bucket was given. *)

EpochAccount ==
    served - mark.served + tokens <= mark.tokens + rate * (last - mark.last)

LEMMA EpochInit == Init => EpochAccount
<1> SUFFICES ASSUME Init
             PROVE  EpochAccount
  OBVIOUS
<1>1. rate \in Nat /\ rate * (last - mark.last) = 0
  BY BucketAssumption DEF Init
<1>2. tokens \in Nat
  BY BucketAssumption, ProductNat DEF Init
<1> QED
  BY <1>1, <1>2 DEF Init, EpochAccount

LEMMA EpochNext == TypeOK /\ EpochAccount /\ [Next]_vars => EpochAccount'
<1> SUFFICES ASSUME TypeOK, EpochAccount, [Next]_vars
             PROVE  EpochAccount'
  OBVIOUS
<1>0. /\ rate \in Nat /\ served \in Nat /\ tokens \in Nat
      /\ last \in Nat /\ now \in Nat /\ last <= now
      /\ mark.served \in Nat /\ mark.tokens \in Nat /\ mark.last \in Nat
      /\ mark.last <= last
  BY BucketAssumption DEF TypeOK, Marks
<1>1. ASSUME NEW n \in Sizes, Consume(n)
      PROVE  EpochAccount'
  <2>1. n \in Nat /\ Refilled \in Nat
        /\ Refilled <= tokens + (now - last) * rate
    BY BucketAssumption, RefilledType DEF TypeOK
  <2>2. tokens' + served' = Refilled + served
    BY <1>0, <1>1, <2>1 DEF Consume
  <2>3. rate * (now - mark.last) = rate * (last - mark.last) + rate * (now - last)
    <3>1. last - mark.last \in Nat /\ now - last \in Nat
          /\ now - mark.last = (last - mark.last) + (now - last)
      BY <1>0
    <3> QED
      BY <1>0, <3>1, Distributes
  <2>4. rate * (now - last) = (now - last) * rate
    BY <1>0
  <2>5. /\ rate * (last - mark.last) \in Int
        /\ rate * (now - last) \in Int
    BY <1>0
  <2>6. /\ mark' = mark /\ rate' = rate /\ last' = now
        /\ tokens' \in Int /\ served' \in Int
    BY <1>0, <1>1, <2>1 DEF Consume
  <2>7. (served' + tokens') - mark.served
           <= mark.tokens + rate * (now - mark.last)
    <3> DEFINE a == rate * (last - mark.last)
               b == rate * (now - last)
               c == rate * (now - mark.last)
    <3>1. a \in Int /\ b \in Int /\ c \in Int /\ c = a + b
      BY <1>0, <2>3
    <3>2. served - mark.served + tokens <= mark.tokens + a
      BY DEF EpochAccount
    <3>3. Refilled <= tokens + b
      BY <2>1, <2>4
    <3> HIDE DEF a, b, c
    <3>4. served + tokens <= (mark.tokens + mark.served) + a
      BY <1>0, <3>1, <3>2
    <3>5. served' + tokens' <= (mark.tokens + mark.served) + c
      <4>1. PICK u \in Int, v \in Int, f \in Int, x \in Int, y \in Int, in \in Int :
              /\ u = served /\ v = tokens /\ f = Refilled
              /\ x = served' /\ y = tokens'
              /\ in = mark.tokens + mark.served
        BY <1>0, <2>1, <2>6
      <4>2. PICK aa \in Int, bb \in Int, cc \in Int :
              aa = a /\ bb = b /\ cc = c
        BY <3>1
      <4>3. /\ cc = aa + bb /\ u + v <= in + aa /\ f <= v + bb /\ y + x = f + u
        BY <2>2, <3>1, <3>3, <3>4, <4>1, <4>2
      <4>4. x + y <= in + cc
        BY <4>3
      <4> QED
        BY <4>1, <4>2, <4>4
    <3>6. (served' + tokens') - mark.served <= mark.tokens + c
      BY <1>0, <2>6, <3>1, <3>5
    <3> QED
      BY <3>6 DEF c
  <2> QED
    BY <1>0, <2>6, <2>7 DEF EpochAccount
<1>2. ASSUME NEW r \in Rates, UpdateRate(r)
      PROVE  EpochAccount'
  <2>1. r \in Nat /\ r * (last - last) = 0
    BY <1>0, BucketAssumption
  <2> QED
    BY <1>0, <1>2, <2>1 DEF UpdateRate, EpochAccount
<1>3. CASE Elapse
  BY <1>3 DEF Elapse, EpochAccount
<1>4. CASE UNCHANGED vars
  BY <1>4 DEF vars, EpochAccount
<1> QED
  BY <1>1, <1>2, <1>3, <1>4 DEF Next

(* After a reallocation a slice is held to its new rate: it can spend the
   tokens it had, and what the new rate pays for the time since its last
   refill. *)
THEOREM ReallocationEnforced == Spec => []ServiceSinceRateChange
<1>1. TypeOK /\ EpochAccount => ServiceSinceRateChange
  <2> SUFFICES ASSUME TypeOK, EpochAccount
               PROVE  ServiceSinceRateChange
    OBVIOUS
  <2>1. /\ rate \in Nat /\ served \in Nat /\ tokens \in Nat
        /\ last \in Nat /\ now \in Nat /\ last <= now
        /\ mark.served \in Nat /\ mark.tokens \in Nat /\ mark.last \in Nat
        /\ mark.last <= last
    BY BucketAssumption DEF TypeOK, Marks
  <2>2. rate * (now - mark.last) = rate * (last - mark.last) + rate * (now - last)
    <3>1. last - mark.last \in Nat /\ now - last \in Nat
          /\ now - mark.last = (last - mark.last) + (now - last)
      BY <2>1
    <3> QED
      BY <2>1, <3>1, Distributes
  <2>3. rate * (now - last) \in Nat /\ rate * (last - mark.last) \in Nat
    BY <2>1, ProductNat
  <2> QED
    BY <2>1, <2>2, <2>3 DEF EpochAccount, ServiceSinceRateChange
<1> QED
  BY TypeInit, TypeNext, EpochInit, EpochNext, <1>1, PTL DEF Spec

-----------------------------------------------------------------------------
(* The whole run, against a rate top that no reallocation exceeds. *)

RunAccount(top) == served + tokens <= BurstFactor * top + top * last

LEMMA RunInit ==
    ASSUME NEW top \in Nat, \A r \in Rates : r <= top
    PROVE  Init => RunAccount(top)
<1> SUFFICES ASSUME Init
             PROVE  RunAccount(top)
  OBVIOUS
<1>1. BurstFactor * InitialRate <= BurstFactor * top
  <2>1. InitialRate \in Nat /\ InitialRate <= top /\ BurstFactor \in Nat
    BY BucketAssumption
  <2>2. InitialRate * BurstFactor <= top * BurstFactor
    BY <2>1, ProductMonotonic
  <2> QED
    BY <2>1, <2>2
<1>2. BurstFactor * InitialRate \in Nat /\ BurstFactor * top \in Nat
      /\ top * last = 0
  BY BucketAssumption, ProductNat DEF Init
<1> QED
  BY <1>1, <1>2 DEF Init, RunAccount

LEMMA RunNext ==
    ASSUME NEW top \in Nat, \A r \in Rates : r <= top
    PROVE  TypeOK /\ RunAccount(top) /\ [Next]_vars => RunAccount(top)'
<1> SUFFICES ASSUME TypeOK, RunAccount(top), [Next]_vars
             PROVE  RunAccount(top)'
  OBVIOUS
<1>0. /\ rate \in Nat /\ rate <= top /\ served \in Nat /\ tokens \in Nat
      /\ last \in Nat /\ now \in Nat /\ last <= now /\ now - last \in Nat
  BY BucketAssumption DEF TypeOK
<1>1. ASSUME NEW n \in Sizes, Consume(n)
      PROVE  RunAccount(top)'
  <2>1. n \in Nat /\ Refilled \in Nat
        /\ Refilled <= tokens + (now - last) * rate
    BY BucketAssumption, RefilledType DEF TypeOK
  <2>2. /\ tokens' + served' = Refilled + served
        /\ tokens' \in Int /\ served' \in Int /\ last' = now
    BY <1>0, <1>1, <2>1 DEF Consume
  <2>3. top * now = top * last + top * (now - last)
    <3>1. now = last + (now - last)
      BY <1>0
    <3> QED
      BY <1>0, <3>1, Distributes
  <2>4. (now - last) * rate <= top * (now - last)
    <3>1. rate * (now - last) <= top * (now - last)
      BY <1>0, ProductMonotonic
    <3> QED
      BY <1>0, <3>1
  <2> DEFINE a == top * last
             b == top * (now - last)
             c == top * now
             e == (now - last) * rate
             in == BurstFactor * top
  <2>5. a \in Int /\ b \in Int /\ c \in Int /\ e \in Int /\ in \in Int
        /\ c = a + b /\ e <= b
    BY <1>0, <2>3, <2>4, BucketAssumption
  <2>6. served + tokens <= in + a /\ Refilled <= tokens + e
    BY <2>1 DEF RunAccount
  <2>7. served' + tokens' <= in + c
    <3> HIDE DEF a, b, c, e, in
    <3>1. Refilled <= tokens + b
      BY <1>0, <2>1, <2>5, <2>6
    <3>2. PICK u \in Int, v \in Int, f \in Int, x \in Int, y \in Int :
            /\ u = served /\ v = tokens /\ f = Refilled
            /\ x = served' /\ y = tokens'
      BY <1>0, <2>1, <2>2
    <3>3. PICK aa \in Int, bb \in Int, cc \in Int, ii \in Int :
            aa = a /\ bb = b /\ cc = c /\ ii = in
      BY <2>5
    <3>4. /\ cc = aa + bb /\ u + v <= ii + aa /\ f <= v + bb /\ y + x = f + u
      BY <2>2, <2>5, <2>6, <3>1, <3>2, <3>3
    <3>5. x + y <= ii + cc
      BY <3>4
    <3> QED
      BY <3>2, <3>3, <3>5
  <2> QED
    BY <2>2, <2>7 DEF RunAccount
<1>2. ASSUME NEW r \in Rates, UpdateRate(r)
      PROVE  RunAccount(top)'
  BY <1>2 DEF UpdateRate, RunAccount
<1>3. CASE Elapse
  BY <1>3 DEF Elapse, RunAccount
<1>4. CASE UNCHANGED vars
  BY <1>4 DEF vars, RunAccount
<1> QED
  BY <1>1, <1>2, <1>3, <1>4 DEF Next

LEMMA RunBound ==
    ASSUME NEW top \in Nat, TypeOK, RunAccount(top)
    PROVE  ServiceWithin(top)
<1>1. /\ served \in Nat /\ tokens \in Nat /\ last \in Nat
      /\ now - last \in Nat /\ now \in Nat
  BY BucketAssumption DEF TypeOK
<1>2. top * now = top * last + top * (now - last)
  <2>1. now = last + (now - last)
    BY <1>1
  <2> QED
    BY <1>1, <2>1, Distributes
<1>3. top * last \in Nat /\ top * (now - last) \in Nat
      /\ BurstFactor * top \in Nat
  BY <1>1, ProductNat, BucketAssumption
<1> QED
  BY <1>1, <1>2, <1>3 DEF RunAccount, ServiceWithin

(* However often the decision engine, a rollback or an operator changes the
   rate, what a slice lets through over a run is bounded by its highest rate. *)
THEOREM RunEnforced ==
    ASSUME NEW top \in Nat, \A r \in Rates : r <= top
    PROVE  Spec => []ServiceWithin(top)
<1>1. TypeOK /\ RunAccount(top) => ServiceWithin(top)
  BY RunBound
<1>2. Init => RunAccount(top)
  BY RunInit
<1>3. TypeOK /\ RunAccount(top) /\ [Next]_vars => RunAccount(top)'
  BY RunNext
<1> QED
  BY TypeInit, TypeNext, <1>1, <1>2, <1>3, PTL DEF Spec

(* The bound the runs check: the highest rate is that of the slice's maximum. *)
THEOREM TopRateEnforced ==
    ASSUME NEW m \in Rates, \A r \in Rates : r <= m
    PROVE  Spec => []ServiceBounded
<1>1. TopRate \in Rates /\ \A r \in Rates : r <= TopRate
  BY DEF TopRate
<1>2. TopRate \in Nat
  BY <1>1, BucketAssumption
<1>3. TypeOK /\ RunAccount(TopRate) => ServiceBounded
  BY <1>2, RunBound DEF ServiceBounded
<1>4. Init => RunAccount(TopRate)
  BY <1>1, <1>2, RunInit
<1>5. TypeOK /\ RunAccount(TopRate) /\ [Next]_vars => RunAccount(TopRate)'
  BY <1>1, <1>2, RunNext
<1> QED
  BY TypeInit, TypeNext, <1>3, <1>4, <1>5, PTL DEF Spec

-----------------------------------------------------------------------------
(* The capacity never falls below a burst at the current rate. *)

BurstFits == capacity >= BurstFactor * rate

LEMMA BurstFitsInvariant ==
    /\ Init => BurstFits
    /\ TypeOK /\ BurstFits /\ [Next]_vars => BurstFits'
<1>1. Init => BurstFits
  BY BucketAssumption, ProductNat DEF Init, BurstFits
<1>2. ASSUME TypeOK, BurstFits, [Next]_vars
      PROVE  BurstFits'
  <2>1. ASSUME NEW r \in Rates, UpdateRate(r)
        PROVE  BurstFits'
    <3>1. BurstFactor * r \in Nat /\ tokens \in Nat
      BY <1>2, BucketAssumption, ProductNat DEF TypeOK
    <3> QED
      BY <2>1, <3>1 DEF UpdateRate, Greater, BurstFits
  <2>2. ASSUME NEW n \in Sizes, Consume(n)
        PROVE  BurstFits'
    BY <1>2, <2>2 DEF Consume, BurstFits
  <2>3. CASE Elapse
    BY <1>2, <2>3 DEF Elapse, BurstFits
  <2>4. CASE UNCHANGED vars
    BY <1>2, <2>4 DEF vars, BurstFits
  <2> QED
    BY <1>2, <2>1, <2>2, <2>3, <2>4 DEF Next
<1> QED
  BY <1>1, <1>2

(* A slice that was silent for BurstFactor seconds gets a full burst at its
   current rate, whatever reallocations happened in between. *)
THEOREM BurstAfterPause == Spec => []PauseRestoresBurst
<1>1. TypeOK /\ BurstFits => PauseRestoresBurst
  <2> SUFFICES ASSUME TypeOK, BurstFits, now - last >= BurstFactor
               PROVE  Refilled >= BurstFactor * rate
    BY DEF PauseRestoresBurst
  <2>1. /\ rate \in Nat /\ capacity \in Nat /\ tokens \in Nat
        /\ now - last \in Nat /\ BurstFactor \in Nat
    BY BucketAssumption DEF TypeOK
  <2>2. BurstFactor * rate <= (now - last) * rate
    BY <2>1, ProductMonotonic
  <2>3. (now - last) * rate \in Nat /\ BurstFactor * rate \in Nat
    BY <2>1, ProductNat
  <2> QED
    BY <2>1, <2>2, <2>3 DEF Refilled, Lesser, BurstFits
<1> QED
  BY TypeInit, TypeNext, BurstFitsInvariant, <1>1, PTL DEF Spec

-----------------------------------------------------------------------------
(* The lazy bucket implements the reservoir that fills with time. *)

LEMMA RefineInit == Init => Limiter!LInit
<1> SUFFICES ASSUME Init
             PROVE  Limiter!LInit
  OBVIOUS
<1>1. rate \in Nat /\ capacity \in Nat /\ (now - last) * rate = 0
  BY BucketAssumption, ProductNat DEF Init
<1>2. Refilled = capacity
  BY <1>1 DEF Init, Refilled, Lesser
<1> QED
  BY <1>2 DEF Init, Limiter!LInit

LEMMA RefineConsume ==
    ASSUME TypeOK, NEW n \in Sizes, Consume(n)
    PROVE  Limiter!Pass(n) \/ Limiter!Refuse(n)
<1>1. n \in Nat /\ Refilled \in 0 .. capacity /\ capacity \in Nat /\ rate \in Nat
      /\ now \in Nat
  BY BucketAssumption, RefilledType DEF TypeOK
<1>2. /\ tokens' = IF Refilled >= n THEN Refilled - n ELSE Refilled
      /\ last' = now /\ now' = now /\ rate' = rate /\ capacity' = capacity
      /\ verdict' = (Refilled >= n)
  BY DEF Consume
<1>3. verdict' = (Refilled >= n)
  BY <1>2
<1>4. Refilled' = tokens'
  <2>1. (now' - last') * rate' = 0
    BY <1>1, <1>2
  <2>2. tokens' \in 0 .. capacity'
    BY <1>1, <1>2
  <2> QED
    BY <1>1, <1>2, <2>1, <2>2 DEF Refilled, Lesser
<1>5. CASE Refilled >= n
  <2>1. verdict' = TRUE
    BY <1>3, <1>5, Zenon
  <2>2. Refilled' = Refilled - n
    BY <1>1, <1>2, <1>4, <1>5
  <2> QED
    BY <1>1, <1>2, <1>5, <2>1, <2>2 DEF Limiter!Pass
<1>6. CASE ~(Refilled >= n)
  <2>1. verdict' = FALSE
    <3>1. (Refilled >= n) = FALSE
      BY <1>6
    <3> QED
      BY <1>3, <3>1
  <2>2. Refilled' = Refilled
    BY <1>1, <1>2, <1>4, <1>6
  <2>3. n > Refilled
    BY <1>1, <1>6
  <2> QED
    BY <1>2, <2>1, <2>2, <2>3 DEF Limiter!Refuse
<1> QED
  BY <1>5, <1>6

LEMMA RefineElapse ==
    ASSUME TypeOK, Elapse
    PROVE  Limiter!Second
<1>1. /\ rate \in Nat /\ capacity \in Nat /\ tokens \in 0 .. capacity
      /\ now - last \in Nat /\ now \in Nat /\ last \in Nat
  BY BucketAssumption DEF TypeOK
<1>2. /\ now' = now + 1
      /\ rate' = rate /\ capacity' = capacity /\ tokens' = tokens
      /\ last' = last /\ verdict' = verdict
  BY DEF Elapse
<1>3. (now' - last') * rate' = (now - last) * rate + rate
  <2>1. now' - last' = (now - last) + 1
    BY <1>1, <1>2
  <2>2. rate * ((now - last) + 1) = rate * (now - last) + rate * 1
    BY <1>1, Distributes
  <2> QED
    BY <1>1, <1>2, <2>1, <2>2
<1>4. (now - last) * rate \in Nat
  BY <1>1, ProductNat
<1>5. Refilled' = IF Refilled + rate <= capacity THEN Refilled + rate ELSE capacity
  BY <1>1, <1>2, <1>3, <1>4 DEF Refilled, Lesser
<1> QED
  BY <1>2, <1>5 DEF Limiter!Second

LEMMA RefineUpdateRate ==
    ASSUME TypeOK, NEW r \in Rates, UpdateRate(r)
    PROVE  Limiter!ChangeRate(r)
<1>1. /\ r \in Nat /\ BurstFactor * r \in Nat /\ tokens \in 0 .. Refilled
      /\ capacity \in Nat /\ tokens \in Nat /\ now - last \in Nat
      /\ (now - last) * r \in Nat
  BY BucketAssumption, RefilledType, ProductNat DEF TypeOK
<1>2. /\ rate' = r /\ capacity' = Greater(BurstFactor * r, tokens)
      /\ tokens' = tokens /\ now' = now /\ last' = last /\ verdict' = verdict
  BY DEF UpdateRate
<1>3. capacity' = IF tokens <= BurstFactor * r THEN BurstFactor * r ELSE tokens
  BY <1>1, <1>2 DEF Greater
<1>4. Refilled' \in tokens .. capacity'
  <2>1. Refilled' = Lesser(capacity', tokens + (now - last) * r)
    BY <1>2 DEF Refilled
  <2>2. capacity' \in Nat /\ tokens <= capacity'
    BY <1>1, <1>3
  <2> QED
    BY <1>1, <2>1, <2>2 DEF Lesser
<1> QED
  BY <1>1, <1>2, <1>3, <1>4 DEF Limiter!ChangeRate

(* Every step of the code's bucket is a step of the reservoir, or one the
   reservoir does not see: refilling on demand loses and grants nothing. *)
THEOREM LazyBucketImplementsLimiter == Spec => ImplementsLimiter
<1>1. TypeOK /\ [Next]_vars => [Limiter!LNext]_(Limiter!lvars)
  <2> SUFFICES ASSUME TypeOK, [Next]_vars
               PROVE  [Limiter!LNext]_(Limiter!lvars)
    OBVIOUS
  <2>1. CASE \E n \in Sizes : Consume(n)
    BY <2>1, RefineConsume DEF Limiter!LNext
  <2>2. CASE \E r \in Rates : UpdateRate(r)
    BY <2>2, RefineUpdateRate DEF Limiter!LNext
  <2>3. CASE Elapse
    BY <2>3, RefineElapse DEF Limiter!LNext
  <2>4. CASE UNCHANGED vars
    BY <2>4 DEF vars, Limiter!lvars, Refilled
  <2> QED
    BY <2>1, <2>2, <2>3, <2>4 DEF Next
<1> QED
  BY TypeInit, TypeNext, RefineInit, <1>1, PTL
  DEF Spec, ImplementsLimiter, Limiter!LSpec

=============================================================================
