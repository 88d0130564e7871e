---------------------------- MODULE WheelProofs ----------------------------
(***************************************************************************)
(* The speed loop of a wheel, for every tuning, limit and feedforward, and *)
(* the counting of its pulses, for every order of edges, interrupts and    *)
(* reads.                                                                  *)
(***************************************************************************)
EXTENDS SpeedLoop, Encoder, TLAPS

(* The effort of the last period, from what the controller has stored.     *)
Effort(k, t, e, i) ==
  ClampTo(-MaxSpeed, MaxSpeed, SpeedFeedforward(t) + Correction(k, e, e, i))

(* With a limited sum, the stored integral is within its limits, and       *)
(* without a derivative it explains the effort.                            *)
Explained ==
  pidTarget # 0
    => /\ applied[3] = 0 => control = Effort(applied, pidTarget, error, integral)
       /\ IntegralMin < IntegralMax => integral \in IntegralMin .. IntegralMax

SpeedInv == TypeOK /\ Explained

(***************************************************************************)
(* The arithmetic                                                          *)
(***************************************************************************)
(* The division of a natural number is a natural number, and monotonic.    *)
LEMMA DivNatural ==
  ASSUME NEW a \in Nat, NEW b \in Nat \ {0}
  PROVE  /\ a \div b \in Nat
         /\ b * (a \div b) <= a
         /\ a < b * ((a \div b) + 1)
<1>1. a = (b * (a \div b)) + (a % b) /\ a % b \in 0 .. (b - 1) /\ a \div b \in Int
      BY SMT
<1> QED
    BY <1>1, SMT

LEMMA DivMonotonic ==
  ASSUME NEW a \in Nat, NEW c \in Nat, a <= c, NEW b \in Nat \ {0}
  PROVE  a \div b <= c \div b
<1> DEFINE p == a \div b
           q == c \div b
<1>1. p \in Nat /\ b * p <= a
      BY DivNatural
<1>2. q \in Nat /\ c < b * (q + 1)
      BY DivNatural
<1> HIDE DEF p, q
<1>3. b * p < b * (q + 1)
      BY <1>1, <1>2, SMT
<1>4. ASSUME p >= q + 1
      PROVE  FALSE
  <2>1. b * p >= b * (q + 1)
        BY <1>1, <1>2, <1>4, SMT
  <2> QED
      BY <1>1, <1>2, <1>3, <2>1, SMT
<1>5. p < q + 1
      BY <1>1, <1>2, <1>4, SMT
<1>6. p <= q
      BY <1>1, <1>2, <1>5, SMT
<1> QED
    BY <1>6 DEF p, q

(* Truncation towards zero is monotonic across zero as well.               *)
LEMMA QuotientMonotonic ==
  ASSUME NEW a \in Int, NEW c \in Int, a <= c, NEW b \in Nat \ {0}
  PROVE  /\ Quotient(a, b) \in Int
         /\ Quotient(a, b) <= Quotient(c, b)
<1>1. CASE a >= 0
  <2>1. a \in Nat /\ c \in Nat
        BY <1>1, SMT
  <2>2. a \div b \in Nat /\ a \div b <= c \div b /\ c \div b \in Nat
        BY <2>1, DivNatural, DivMonotonic
  <2> QED
      BY <2>1, <2>2, SMT DEF Quotient
<1>2. CASE a < 0 /\ c >= 0
  <2>1. -a \in Nat /\ c \in Nat
        BY <1>2, SMT
  <2>2. (-a) \div b \in Nat /\ c \div b \in Nat
        BY <2>1, DivNatural
  <2> QED
      BY <1>2, <2>2, SMT DEF Quotient
<1>3. CASE c < 0
  <2>1. -a \in Nat /\ -c \in Nat /\ -c <= -a
        BY <1>3, SMT
  <2>2. (-a) \div b \in Nat /\ (-c) \div b \in Nat /\ (-c) \div b <= (-a) \div b
        BY <2>1, DivNatural, DivMonotonic
  <2> QED
      BY <1>3, <2>2, SMT DEF Quotient
<1> QED
    BY <1>1, <1>2, <1>3, SMT

(* So is the clamp. *)
LEMMA ClampMonotonic ==
  ASSUME NEW low \in Int, NEW high \in Int, low <= high, NEW a \in Int, NEW c \in Int, a <= c
  PROVE  /\ ClampTo(low, high, a) \in low .. high
         /\ ClampTo(low, high, a) <= ClampTo(low, high, c)
BY SMT DEF ClampTo

(* More error and more sum never give less correction, without derivative. *)
LEMMA CorrectionMonotonic ==
  ASSUME NEW k \in Tunings, k[3] = 0,
         NEW e1 \in Int, NEW e2 \in Int, e1 <= e2, NEW i1 \in Int, NEW i2 \in Int, i1 <= i2,
         NEW l1 \in Int, NEW l2 \in Int
  PROVE  /\ Correction(k, e1, l1, i1) \in Int
         /\ Correction(k, e1, l1, i1) <= Correction(k, e2, l2, i2)
<1> USE SpeedLoopAssumption
<1>1. k[1] \in Nat /\ k[2] \in Nat
      BY SMT
<1> DEFINE r1 == k[1] * e1 + k[2] * i1 + k[3] * (e1 - l1)
           r2 == k[1] * e2 + k[2] * i2 + k[3] * (e2 - l2)
<1>2. /\ k[1] * e1 \in Int /\ k[1] * e2 \in Int /\ k[1] * e1 <= k[1] * e2
      /\ k[2] * i1 \in Int /\ k[2] * i2 \in Int /\ k[2] * i1 <= k[2] * i2
  <2>1. \A n \in Nat, x, y \in Int : x <= y => n * x \in Int /\ n * y \in Int /\ n * x <= n * y
        BY Z3
  <2> QED
      BY <1>1, <2>1
<1>3. k[3] * (e1 - l1) = 0 /\ k[3] * (e2 - l2) = 0
      BY SMT
<1>4. r1 \in Int /\ r2 \in Int /\ r1 <= r2
      BY <1>2, <1>3, SMT
<1> HIDE DEF r1, r2
<1>5. Quotient(r1, Scale) \in Int /\ Quotient(r2, Scale) \in Int
      /\ Quotient(r1, Scale) <= Quotient(r2, Scale)
      BY <1>4, QuotientMonotonic
<1>6. /\ Correction(k, e1, l1, i1) = IF OutputMin < OutputMax
                                      THEN ClampTo(OutputMin, OutputMax, Quotient(r1, Scale))
                                      ELSE Quotient(r1, Scale)
      /\ Correction(k, e2, l2, i2) = IF OutputMin < OutputMax
                                      THEN ClampTo(OutputMin, OutputMax, Quotient(r2, Scale))
                                      ELSE Quotient(r2, Scale)
      BY DEF Correction, r1, r2
<1> QED
    BY <1>5, <1>6, SMT DEF ClampTo

(* The feedforward and the correction are numbers. *)
LEMMA FeedforwardIsNumber ==
  ASSUME NEW t \in Int
  PROVE  SpeedFeedforward(t) \in Int
<1> USE SpeedLoopAssumption
<1>1. ClampTo(0, MaxSpeed, Feedforward) \in Int
      BY SMT DEF ClampTo
<1>2. t * ClampTo(0, MaxSpeed, Feedforward) \in Int
      BY <1>1, SMT
<1>3. Quotient(t * ClampTo(0, MaxSpeed, Feedforward), Rated) \in Int
      BY <1>2, QuotientMonotonic, SMT
<1> QED
    BY <1>3, SMT DEF SpeedFeedforward, ClampTo

LEMMA CorrectionIsNumber ==
  ASSUME NEW k \in Tunings, NEW e \in Int, NEW before \in Int, NEW i \in Int
  PROVE  Correction(k, e, before, i) \in Int
<1> USE SpeedLoopAssumption
<1> DEFINE r == k[1] * e + k[2] * i + k[3] * (e - before)
<1>1. k[1] \in Nat /\ k[2] \in Nat /\ k[3] \in Nat
      BY SMT
<1>2. r \in Int
      BY <1>1, SMT
<1> HIDE DEF r
<1>3. Quotient(r, Scale) \in Int
      BY <1>2, QuotientMonotonic, SMT
<1>4. Correction(k, e, before, i) = IF OutputMin < OutputMax
                                   THEN ClampTo(OutputMin, OutputMax, Quotient(r, Scale))
                                   ELSE Quotient(r, Scale)
      BY DEF Correction, r
<1> QED
    BY <1>3, <1>4, SMT DEF ClampTo

(* Nor less effort. *)
LEMMA EffortMonotonic ==
  ASSUME NEW k \in Tunings, k[3] = 0, NEW t \in Int,
         NEW e1 \in Int, NEW e2 \in Int, e1 <= e2, NEW i1 \in Int, NEW i2 \in Int, i1 <= i2
  PROVE  Effort(k, t, e1, i1) <= Effort(k, t, e2, i2)
<1> USE SpeedLoopAssumption
<1>1. SpeedFeedforward(t) \in Int
      BY FeedforwardIsNumber
<1>2. /\ Correction(k, e1, e1, i1) \in Int /\ Correction(k, e2, e2, i2) \in Int
      /\ Correction(k, e1, e1, i1) <= Correction(k, e2, e2, i2)
      BY CorrectionMonotonic
<1> QED
    BY <1>1, <1>2, SMT DEF Effort, ClampTo

(* Without derivative the earlier error does not matter. *)
LEMMA LastErrorIgnored ==
  ASSUME NEW k \in Tunings, k[3] = 0, NEW e \in Int, NEW i \in Int, NEW before \in Int
  PROVE  Correction(k, e, before, i) = Correction(k, e, e, i)
<1>1. /\ Correction(k, e, before, i) \in Int /\ Correction(k, e, e, i) \in Int
      /\ Correction(k, e, before, i) <= Correction(k, e, e, i)
      /\ Correction(k, e, e, i) <= Correction(k, e, before, i)
      BY CorrectionMonotonic
<1> QED
    BY <1>1, SMT

(* The limited sum. *)
LEMMA IntegratedBounds ==
  ASSUME NEW i \in Int, NEW e \in Int
  PROVE  /\ Integrated(i, e) \in Int
         /\ IntegralMin < IntegralMax => Integrated(i, e) \in IntegralMin .. IntegralMax
         /\ (IntegralMin < IntegralMax => i \in IntegralMin .. IntegralMax)
              => /\ 0 <= e => i <= Integrated(i, e)
                 /\ e <= 0 => Integrated(i, e) <= i
BY SpeedLoopAssumption, SMT DEF Integrated, ClampTo

(***************************************************************************)
(* The steps                                                               *)
(***************************************************************************)
(* The invariant holds initially. *)
LEMMA InitInvariant == Init => SpeedInv
BY SpeedLoopAssumption, SMT DEF Init, SpeedInv, TypeOK, Explained

(* A driven period keeps it, and leaves an effort the stored state         *)
(* explains.                                                               *)
LEMMA DriveStep ==
  ASSUME SpeedInv, NEW measured \in Deltas, Drive(measured)
  PROVE  SpeedInv'
<1> USE SpeedLoopAssumption
<1> DEFINE old == IF tuning # applied THEN 0 ELSE integral
           before == IF tuning # applied THEN 0 ELSE error
           e == target - measured
           i == Integrated(old, e)
<1>1. TypeOK
      BY DEF SpeedInv
<1>2. old \in Int /\ before \in Int /\ e \in Int
      BY <1>1, SMT DEF TypeOK
<1> HIDE DEF old, before, e
<1>3. i \in Int /\ (IntegralMin < IntegralMax => i \in IntegralMin .. IntegralMax)
      BY <1>2, IntegratedBounds
<1> HIDE DEF i
<1>4. /\ target # 0 /\ applied' = tuning /\ pidTarget' = target
      /\ error' = e /\ integral' = i /\ UNCHANGED <<target, tuning>>
      /\ control' = ClampTo(-MaxSpeed, MaxSpeed,
                            SpeedFeedforward(target) + Correction(tuning, e, before, i))
      BY DEF Drive, old, before, e, i
<1>5. tuning \in Tunings /\ target \in Targets
      BY <1>1 DEF TypeOK
<1>6. Correction(tuning, e, before, i) \in Int
      BY <1>2, <1>3, <1>5, CorrectionIsNumber
<1>7. control' \in (-MaxSpeed) .. MaxSpeed
  <2>1. SpeedFeedforward(target) \in Int
        BY <1>5, FeedforwardIsNumber
  <2>2. SpeedFeedforward(target) + Correction(tuning, e, before, i) \in Int
        BY <1>6, <2>1, SMT
  <2> QED
      BY <1>4, <2>2, SMT DEF ClampTo
<1>8. TypeOK'
      BY <1>2, <1>3, <1>4, <1>5, <1>7 DEF TypeOK
<1>9. Explained'
  <2>1. tuning[3] = 0 => Correction(tuning, e, before, i) = Correction(tuning, e, e, i)
        BY <1>2, <1>3, <1>5, LastErrorIgnored
  <2>2. tuning[3] = 0 => control' = Effort(tuning, target, e, i)
        BY <1>4, <2>1 DEF Effort
  <2> QED
      BY <1>3, <1>4, <2>2 DEF Explained, Effort, Correction, SpeedFeedforward
<1> QED
    BY <1>8, <1>9 DEF SpeedInv

(* Each action keeps the invariant. *)
LEMMA StepInvariant == SpeedInv /\ [Next]_vars => SpeedInv'
<1> SUFFICES ASSUME SpeedInv, [Next]_vars
             PROVE  SpeedInv'
    OBVIOUS
<1> USE SpeedLoopAssumption DEF SpeedInv, TypeOK, Explained, Effort, Correction, SpeedFeedforward
<1>1. CASE Rest
      BY <1>1, SMT DEF Rest, Reset
<1>2. CASE \E measured \in Deltas : Drive(measured)
      BY <1>2, DriveStep
<1>3. CASE SetTarget
      BY <1>3 DEF SetTarget, pid
<1>4. CASE Tune
      BY <1>4 DEF Tune, pid
<1>5. CASE UNCHANGED vars
      BY <1>5 DEF vars, pid
<1> QED
    BY <1>1, <1>2, <1>3, <1>4, <1>5 DEF Next, SpeedControlRun

(* The stored state of the controller explains its effort.                 *)
THEOREM SpeedLoopInvariance == Spec => []SpeedInv
<1>1. Init => SpeedInv
      BY InitInvariant
<1>2. SpeedInv /\ [Next]_vars => SpeedInv'
      BY StepInvariant
<1> QED
    BY <1>1, <1>2, PTL DEF Spec

(* The past of a wheel changes its effort only within the authority of the *)
(* integral.                                                               *)
THEOREM WindupIsBounded == Spec => []WindupBounded
<1>1. SpeedInv => WindupBounded
  <2> SUFFICES ASSUME SpeedInv, pidTarget # 0, applied[3] = 0, IntegralMin < IntegralMax
               PROVE  /\ Effort(applied, pidTarget, error, IntegralMin) <= control
                      /\ control <= Effort(applied, pidTarget, error, IntegralMax)
      BY DEF WindupBounded, Effort
  <2> USE SpeedLoopAssumption
  <2>1. /\ applied \in Tunings /\ pidTarget \in Int /\ error \in Int
        /\ integral \in Int /\ IntegralMin <= integral /\ integral <= IntegralMax
        BY SMT DEF SpeedInv, TypeOK, Explained
  <2>2. control = Effort(applied, pidTarget, error, integral)
        BY DEF SpeedInv, Explained
  <2>3. error <= error
        BY <2>1, SMT
  <2> QED
      BY <2>1, <2>2, <2>3, EffortMonotonic
<1> QED
    BY <1>1, SpeedLoopInvariance, PTL

(* A wheel that stays behind its target and gets no faster is never driven *)
(* with less effort than the period before.                                *)
THEOREM SlowWheelGetsEffort == Spec => EffortGrowsWhileSlow
<1> DEFINE Grows == pidTarget # 0 /\ pidTarget' = pidTarget /\ applied' = applied /\ applied[3] = 0
                      => /\ 0 <= error /\ error <= error' => control <= control'
                         /\ error' <= error /\ error <= 0 => control' <= control
<1>1. ASSUME SpeedInv, SpeedInv', Next
      PROVE  Grows
  <2> SUFFICES ASSUME pidTarget # 0, pidTarget' = pidTarget, applied' = applied, applied[3] = 0
               PROVE  /\ 0 <= error /\ error <= error' => control <= control'
                      /\ error' <= error /\ error <= 0 => control' <= control
      OBVIOUS
  <2> USE SpeedLoopAssumption
  <2>1. /\ applied \in Tunings /\ pidTarget \in Int
        /\ error \in Int /\ error' \in Int /\ integral \in Int /\ integral' \in Int
        BY <1>1, SMT DEF SpeedInv, TypeOK
  <2>2. control = Effort(applied, pidTarget, error, integral)
        BY <1>1 DEF SpeedInv, Explained
  <2>3. control' = Effort(applied, pidTarget, error', integral')
        BY <1>1 DEF SpeedInv, Explained, Effort, Correction, SpeedFeedforward
  <2>4. /\ 0 <= error /\ error <= error' => integral <= integral'
        /\ error' <= error /\ error <= 0 => integral' <= integral
    <3>1. CASE UNCHANGED pid
          BY <2>1, <3>1, SMT DEF pid
    <3>2. CASE \E measured \in Deltas : Drive(measured)
      <4>1. tuning = applied
            BY <3>2 DEF Drive
      <4>2. integral' = Integrated(integral, error')
            BY <3>2, <4>1 DEF Drive
      <4>3. IntegralMin < IntegralMax => integral \in IntegralMin .. IntegralMax
            BY <1>1 DEF SpeedInv, Explained
      <4>4. /\ 0 <= error' => integral <= integral'
            /\ error' <= 0 => integral' <= integral
            BY <2>1, <4>2, <4>3, IntegratedBounds
      <4> QED
          BY <2>1, <4>4, SMT
    <3> QED
        BY <1>1, <3>1, <3>2 DEF Next, SpeedControlRun, Rest, Reset, SetTarget, Tune
  <2> QED
      BY <2>1, <2>2, <2>3, <2>4, EffortMonotonic
<1>2. SpeedInv /\ SpeedInv' /\ [Next]_vars => [Grows]_vars
      BY <1>1
<1> QED
    BY <1>2, SpeedLoopInvariance, PTL DEF Spec, EffortGrowsWhileSlow

-------------------------------------------------------------------------------
(***************************************************************************)
(* The encoders                                                            *)
(***************************************************************************)
(* The position of the shaft the handler has counted.                      *)
Counted(e) == Sign(e) * total[e]

Noticed(lines, e) == \E l \in Lines : <<e, l>> \in lines

(* The handler has yet to serve the lines of this encoder it has taken.    *)
ToServe(e) == isr \in {"clear", "left", e}

(* The count is at most one edge behind the shaft, and never without an    *)
(* interrupt that will bring it up to date: an edge that falls between the *)
(* handler's reads of the lines and of the pins leaves its line pending.   *)
HandlerInv ==
  \A e \in Encoders :
    /\ previous[e] = Pins(Counted(e))
    /\ shaft[e] - Counted(e) \in -1 .. 1
    /\ shaft[e] # Counted(e)
         => Noticed(pending, e) \/ (ToServe(e) /\ Noticed(taken, e))

(* Inside the critical section the handler rests, so the count that was    *)
(* subtracted from is the count that is stored.                            *)
ReadInv ==
  /\ step # "idle" => masked
  /\ masked => isr = "idle"
  /\ step = "store" => delta = total[reading] - last[reading]
  /\ step = "return" => /\ delta = last[reading] - reported[reading]
                        /\ delta \in -DeltaMax .. DeltaMax
  /\ \A e \in Encoders :
       /\ shaft[e] - Sign(e) * last[e] \in -DeltaMax .. DeltaMax
       /\ Counted(e) - Sign(e) * last[e] \in -DeltaMax .. DeltaMax
       /\ reported[e] = last[e] \/ (step = "return" /\ e = reading)

EncoderInv == EncoderTypeOK /\ HandlerInv /\ ReadInv

LEMMA SignCases ==
  ASSUME NEW e \in Encoders, NEW n \in Int
  PROVE  \/ (Sign(e) = 1 /\ Sign(e) * n = n)
         \/ (Sign(e) = -1 /\ Sign(e) * n = -n)
  BY DEF Sign

(* The difference of the pins of neighbouring positions is their distance. *)
LEMMA QuadratureTells ==
  ASSUME NEW p \in Int, NEW q \in Int, q - p \in -1 .. 1
  PROVE  /\ Pins(p) \in 0 .. 3
         /\ Quadrature(Pins(p), Pins(q)) = q - p
<1>1. ASSUME NEW n \in Int
      PROVE  \/ n % 4 = 0 /\ (n + 1) % 4 = 1
             \/ n % 4 = 1 /\ (n + 1) % 4 = 2
             \/ n % 4 = 2 /\ (n + 1) % 4 = 3
             \/ n % 4 = 3 /\ (n + 1) % 4 = 0
  OBVIOUS
<1>2. ASSUME NEW n \in Int
      PROVE  /\ n % 4 = 0 => Pins(n) = 0
             /\ n % 4 = 1 => Pins(n) = 2
             /\ n % 4 = 2 => Pins(n) = 3
             /\ n % 4 = 3 => Pins(n) = 1
  BY DEF Pins
<1>3. ASSUME NEW n \in Int
      PROVE  <<Pins(n), Pins(n + 1)>> \in {<<0, 2>>, <<2, 3>>, <<3, 1>>, <<1, 0>>}
  <2>1. n + 1 \in Int
    OBVIOUS
  <2>2. \/ Pins(n) = 0 /\ Pins(n + 1) = 2
        \/ Pins(n) = 2 /\ Pins(n + 1) = 3
        \/ Pins(n) = 3 /\ Pins(n + 1) = 1
        \/ Pins(n) = 1 /\ Pins(n + 1) = 0
    BY <1>1, <1>2, <2>1
  <2> QED
    BY <2>2
<1>4. ASSUME NEW n \in Int
      PROVE  /\ Pins(n) \in 0 .. 3
             /\ Quadrature(Pins(n), Pins(n)) = 0
             /\ Quadrature(Pins(n), Pins(n + 1)) = 1
             /\ Quadrature(Pins(n + 1), Pins(n)) = -1
  <2>1. Pins(n) \in 0 .. 3
    BY <1>1, <1>2
  <2>2. <<Pins(n), Pins(n)>> \notin {<<0, 2>>, <<2, 3>>, <<3, 1>>, <<1, 0>>}
    OBVIOUS
  <2>3. <<Pins(n + 1), Pins(n)>> \notin {<<0, 2>>, <<2, 3>>, <<3, 1>>, <<1, 0>>}
    BY <1>3
  <2> QED
    BY <1>3, <2>1, <2>2, <2>3 DEF Quadrature
<1>5. q = p \/ q = p + 1 \/ p = q + 1
  OBVIOUS
<1> QED
  BY <1>4, <1>5

LEMMA EncoderInitInv == EncoderInit => EncoderInv
<1> SUFFICES ASSUME EncoderInit
             PROVE  EncoderInv
  OBVIOUS
<1>1. \A e \in Encoders : Counted(e) = 0 /\ Sign(e) * last[e] = 0
  BY SignCases DEF EncoderInit, Counted
<1>2. Pins(0) \in 0 .. 3
  BY QuadratureTells
<1>3. EncoderTypeOK
  BY <1>2, EncoderAssumption DEF EncoderInit, EncoderTypeOK, Encoders
<1>4. HandlerInv
  BY <1>1 DEF EncoderInit, HandlerInv
<1>5. ReadInv
  BY <1>1, EncoderAssumption DEF EncoderInit, ReadInv
<1> QED
  BY <1>3, <1>4, <1>5 DEF EncoderInv

LEMMA EncoderStepInv == EncoderInv /\ [EncoderNext]_encoderVars => EncoderInv'
<1> SUFFICES ASSUME EncoderInv, [EncoderNext]_encoderVars
             PROVE  EncoderInv'
  OBVIOUS
<1> USE DEF EncoderInv, isrVars, readVars
<1>1. /\ \A e \in Encoders : /\ total[e] \in Int /\ last[e] \in Int /\ shaft[e] \in Int
                            /\ Sign(e) \in Int /\ Counted(e) \in Int
      /\ DeltaMax \in Nat \ {0}
  BY EncoderAssumption DEF EncoderTypeOK, Sign, Counted
<1>2. ASSUME NEW e \in Encoders, NEW by \in {-1, 1}, Turn(e, by)
      PROVE  EncoderInv'
  <2>1. /\ shaft'[e] = shaft[e] + by
        /\ shaft'[e] - Counted(e) \in -1 .. 1
        /\ shaft'[e] - Sign(e) * last[e] \in -DeltaMax .. DeltaMax
        /\ \A d \in Encoders \ {e} : shaft'[d] = shaft[d]
        /\ \A d \in Encoders : Counted(d)' = Counted(d)
    BY <1>2 DEF Turn, EncoderTypeOK, Counted
  <2>2. Noticed(pending, e)' /\ \A d \in Encoders : Noticed(pending, d) => Noticed(pending, d)'
    BY <1>2 DEF Turn, Noticed, Changed, Lines
  <2>3. EncoderTypeOK'
    <3>1. <<e, Changed(shaft[e], shaft[e] + by)>> \in Encoders \X Lines
      BY DEF Changed, Lines
    <3>2. pending' \subseteq Encoders \X Lines
      BY <1>2, <3>1 DEF Turn, EncoderTypeOK
    <3>3. shaft' \in [Encoders -> Int] /\ \A d \in Encoders : shaft'[d] \in Reach[d]
      BY <1>1, <1>2, <2>1 DEF Turn, EncoderTypeOK
    <3> QED
      BY <1>2, <3>2, <3>3 DEF Turn, EncoderTypeOK
  <2>4. HandlerInv'
    BY <1>2, <2>1, <2>2 DEF Turn, HandlerInv, ToServe, Noticed
  <2>5. ReadInv'
    BY <1>2, <2>1 DEF Turn, ReadInv
  <2> QED
    BY <2>3, <2>4, <2>5
<1>3. CASE GetStatus
  <2>1. EncoderTypeOK'
    BY <1>3 DEF GetStatus, EncoderTypeOK
  <2>2. HandlerInv'
    BY <1>3 DEF GetStatus, HandlerInv, ToServe, Noticed, Counted, Encoders
  <2>3. ReadInv'
    BY <1>3 DEF GetStatus, ReadInv, Counted
  <2> QED
    BY <2>1, <2>2, <2>3
<1>10. CASE ClearStatus
  <2>1. EncoderTypeOK'
    BY <1>10 DEF ClearStatus, EncoderTypeOK, Encoders
  <2>2. ASSUME NEW e \in Encoders
        PROVE  /\ Noticed(pending, e) => Noticed(pending, e)' \/ Noticed(taken, e)
               /\ ToServe(e)'
    BY <1>10 DEF ClearStatus, ToServe, Noticed
  <2>3. HandlerInv'
    BY <1>10, <2>2 DEF ClearStatus, HandlerInv, Noticed, Counted
  <2>4. ReadInv'
    BY <1>10 DEF ClearStatus, ReadInv, Counted
  <2> QED
    BY <2>1, <2>3, <2>4
<1>4. ASSUME NEW e \in Encoders, UpdateEncoder(e)
      PROVE  EncoderInv'
  <2>1. /\ isr = e /\ step = "idle" /\ ~masked
        /\ isr' = NextUpdate(e) /\ isr' \in {"idle", "right"}
        /\ isr' = "right" => e = "left" /\ taken' = taken
        /\ UNCHANGED <<shaft, pending, last, readVars>>
    BY <1>4 DEF UpdateEncoder, NextUpdate, ReadInv, Encoders
  <2>2. \A d \in Encoders \ {e} : total'[d] = total[d] /\ previous'[d] = previous[d]
    BY <1>4 DEF UpdateEncoder, Update, EncoderTypeOK
  <2>3. CASE Noticed(taken, e)
    <3>1. /\ previous'[e] = Pins(shaft[e])
          /\ total'[e] = total[e] + Sign(e) * Quadrature(previous[e], Pins(shaft[e]))
          /\ previous' = [previous EXCEPT ![e] = Pins(shaft[e])]
          /\ total' = [total EXCEPT ![e] = @ + Sign(e) * Quadrature(previous[e], Pins(shaft[e]))]
      BY <1>4, <2>3 DEF UpdateEncoder, Update, EncoderTypeOK, Noticed
    <3>2. /\ Quadrature(previous[e], Pins(shaft[e])) = shaft[e] - Counted(e)
          /\ Pins(shaft[e]) \in 0 .. 3
      BY <1>1, QuadratureTells DEF HandlerInv
    <3>3. Counted(e)' = shaft[e] /\ total'[e] \in Int
      <4> DEFINE gap == shaft[e] - Counted(e)
      <4>1. /\ gap \in Int
            /\ total'[e] = total[e] + Sign(e) * gap
        BY <1>1, <3>1, <3>2
      <4>2. CASE Sign(e) = 1
        BY <1>1, <4>1, <4>2 DEF Counted
      <4>3. CASE Sign(e) = -1
        BY <1>1, <4>1, <4>3 DEF Counted
      <4> QED
        BY <4>2, <4>3 DEF Sign
    <3>4. EncoderTypeOK'
      BY <1>4, <2>1, <3>1, <3>2, <3>3
      DEF UpdateEncoder, NextUpdate, EncoderTypeOK, Encoders
    <3>5. ASSUME NEW d \in Encoders \ {e}, ToServe(d)
          PROVE  ToServe(d)' /\ taken' = taken
      BY <2>1, <3>5 DEF ToServe, NextUpdate, Encoders
    <3>7. HandlerInv'
      <4>1. /\ previous'[e] = Pins(Counted(e)')
            /\ shaft'[e] = Counted(e)'
        BY <2>1, <3>1, <3>3
      <4>2. ASSUME NEW d \in Encoders \ {e}
            PROVE  /\ Counted(d)' = Counted(d)
                   /\ Noticed(pending, d)' = Noticed(pending, d)
                   /\ ToServe(d) /\ Noticed(taken, d) => (ToServe(d) /\ Noticed(taken, d))'
        BY <2>1, <2>2, <3>5 DEF Counted, Noticed
      <4> QED
        BY <1>1, <2>1, <2>2, <4>1, <4>2 DEF HandlerInv
    <3>6. ReadInv'
      BY <2>1, <2>2, <3>3 DEF ReadInv, Counted
    <3> QED
      BY <3>4, <3>6, <3>7
  <2>4. CASE ~Noticed(taken, e)
    <3>1. UNCHANGED <<previous, total>>
      BY <1>4, <2>4 DEF UpdateEncoder, Noticed
    <3>2. EncoderTypeOK'
      BY <1>4, <2>1, <3>1 DEF UpdateEncoder, EncoderTypeOK, Encoders
    <3>5. ASSUME NEW d \in Encoders \ {e}, ToServe(d)
          PROVE  ToServe(d)' /\ taken' = taken
      BY <2>1, <3>5 DEF ToServe, NextUpdate, Encoders
    <3>3. HandlerInv'
      BY <2>1, <2>4, <3>1, <3>5 DEF HandlerInv, Noticed, Counted
    <3>4. ReadInv'
      BY <2>1, <3>1 DEF ReadInv, Counted
    <3> QED
      BY <3>2, <3>3, <3>4
  <2> QED
    BY <2>3, <2>4
<1>5. CASE EnterCritical
  BY <1>5 DEF EnterCritical, EncoderTypeOK, HandlerInv, ReadInv, ToServe, Noticed, Counted
<1>6. CASE TakeDelta
  <2>1. EncoderTypeOK'
    BY <1>1, <1>6 DEF TakeDelta, EncoderTypeOK
  <2>2. HandlerInv'
    BY <1>6 DEF TakeDelta, HandlerInv, ToServe, Noticed, Counted
  <2>3. ReadInv'
    BY <1>6 DEF TakeDelta, ReadInv, Counted
  <2> QED
    BY <2>1, <2>2, <2>3
<1>7. CASE StoreTotal
  <2>1. EncoderTypeOK' /\ HandlerInv'
    BY <1>7 DEF StoreTotal, EncoderTypeOK, HandlerInv, ToServe, Noticed, Counted
  <2>2. /\ reading \in Encoders /\ last'[reading] = total[reading]
        /\ \A d \in Encoders \ {reading} : last'[d] = last[d]
        /\ reported[reading] = last[reading]
        /\ delta = total[reading] - last[reading]
    BY <1>7 DEF StoreTotal, EncoderTypeOK, ReadInv
  <2>3. delta \in -DeltaMax .. DeltaMax
    <3>1. Counted(reading) - Sign(reading) * last[reading] \in -DeltaMax .. DeltaMax
      BY <2>2 DEF ReadInv
    <3>2. CASE Sign(reading) = 1
      BY <1>1, <2>2, <3>1, <3>2 DEF Counted
    <3>3. CASE Sign(reading) = -1
      BY <1>1, <2>2, <3>1, <3>3 DEF Counted
    <3> QED
      BY <3>2, <3>3 DEF Sign
  <2>4. shaft[reading] - Sign(reading) * total[reading] \in -DeltaMax .. DeltaMax
    BY <1>1, <2>2 DEF HandlerInv, Counted
  <2>5. Counted(reading) - Sign(reading) * total[reading] = 0
    BY <1>1, <2>2 DEF Counted
  <2>6. ReadInv'
    BY <1>1, <1>7, <2>2, <2>3, <2>4, <2>5 DEF StoreTotal, ReadInv, Counted
  <2> QED
    BY <2>1, <2>6
<1>8. CASE ReturnDelta
  <2>1. reading \in Encoders /\ Clamped(delta) = delta
        /\ delta = last[reading] - reported[reading] /\ reported[reading] \in Int
    BY <1>1, <1>8 DEF ReturnDelta, ReadInv, Clamped, EncoderTypeOK
  <2>2. reported' = [reported EXCEPT ![reading] = last[reading]]
    <3>1. reported' = [reported EXCEPT ![reading] = reported[reading] + delta]
      BY <1>8, <2>1 DEF ReturnDelta
    <3>2. reported[reading] + delta = last[reading]
      BY <1>1, <2>1
    <3> QED
      BY <3>1, <3>2
  <2>3. EncoderTypeOK'
    <3>1. reported' \in [Encoders -> Int]
      BY <1>1, <2>1, <2>2 DEF EncoderTypeOK
    <3>2. reading' \in Encoders
      BY <1>8 DEF ReturnDelta, Encoders
    <3>3. /\ masked' = FALSE /\ delta' = 0 /\ step' = "idle"
          /\ UNCHANGED <<shaft, previous, total, last, isrVars>>
      BY <1>8 DEF ReturnDelta
    <3>4. masked' \in BOOLEAN
      BY <3>3
    <3> QED
      BY <3>1, <3>2, <3>3, <3>4 DEF EncoderTypeOK
  <2>4. HandlerInv'
    BY <1>8 DEF ReturnDelta, HandlerInv, ToServe, Noticed, Counted
  <2>5. ReadInv'
    BY <1>8, <2>2 DEF ReturnDelta, ReadInv, Counted, EncoderTypeOK
  <2> QED
    BY <2>3, <2>4, <2>5
<1>9. CASE UNCHANGED encoderVars
  BY <1>9 DEF encoderVars, EncoderTypeOK, HandlerInv, ReadInv, ToServe, Noticed, Counted
<1> QED
  BY <1>2, <1>3, <1>4, <1>5, <1>6, <1>7, <1>8, <1>9, <1>10
  DEF EncoderNext, Interrupt, ReadDelta

THEOREM EncoderInvariance == EncoderSpec => []EncoderInv
  BY EncoderInitInv, EncoderStepInv, PTL DEF EncoderSpec

(* Every edge of a shaft is counted once and reported once, wherever edges *)
(* and interrupts fall between the reads of the lines, of the pins and of  *)
(* the count (bsp_encoder.c:128-252).                                      *)
THEOREM PulsesAreCounted == EncoderSpec => []PulsesCountOnce
<1>1. EncoderInv => PulsesCountOnce
  <2> SUFFICES ASSUME EncoderInv
               PROVE  PulsesCountOnce
    OBVIOUS
  <2>1. EveryPulseReported
    BY DEF EncoderInv, ReadInv, EveryPulseReported
  <2>2. ASSUME isr = "idle", pending = {}, NEW e \in Encoders
        PROVE  total[e] = Sign(e) * shaft[e]
    <3>1. /\ shaft[e] = Sign(e) * total[e]
          /\ total[e] \in Int
      BY <2>2 DEF EncoderInv, EncoderTypeOK, HandlerInv, ToServe, Noticed, Counted, Encoders
    <3>2. CASE Sign(e) = 1
      BY <3>1, <3>2
    <3>3. CASE Sign(e) = -1
      BY <3>1, <3>3
    <3> QED
      BY <3>2, <3>3 DEF Sign
  <2> QED
    BY <2>1, <2>2 DEF PulsesCountOnce, CountFollowsShaft
<1> QED
  BY <1>1, EncoderInvariance, PTL
=============================================================================
