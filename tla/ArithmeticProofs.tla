--------------------------- MODULE ArithmeticProofs ---------------------------
(***************************************************************************)
(* Facts about the arithmetic of the effects (Fixed) and of the motor      *)
(* (MotorControl), for every One and FullScale.                            *)
(***************************************************************************)
EXTENDS Fixed, MotorControl, TLAPS

(* Q15 arithmetic. *)

LEMMA QuotientGrows ==
    ASSUME NEW a \in Int, NEW b \in Int, NEW n \in Nat \ {0}, a <= b
    PROVE  /\ Quotient(a, n) \in Int /\ Quotient(b, n) \in Int
           /\ Quotient(a, n) <= Quotient(b, n)
           /\ a >= 0 => Quotient(a, n) >= 0
           /\ a <= 0 => Quotient(a, n) <= 0
<1>1. ASSUME NEW x \in Int, NEW y \in Int, 0 <= x, x <= y
      PROVE  x \div n \in Int /\ y \div n \in Int /\ 0 <= x \div n /\ x \div n <= y \div n
  <2>1. PICK p \in Int : p = x \div n /\ n * p <= x /\ x < n * p + n
    OBVIOUS
  <2>2. PICK q \in Int : q = y \div n /\ n * q <= y /\ y < n * q + n
    OBVIOUS
  <2>3. p <= q
    <3> SUFFICES ASSUME p >= q + 1 PROVE FALSE
      BY <2>1, <2>2
    <3>1. n * p >= n * (q + 1) /\ n * (q + 1) = n * q + n
      OBVIOUS
    <3> QED
      BY <1>1, <2>1, <2>2, <3>1
  <2>4. 0 <= p
    <3> SUFFICES ASSUME p <= -1 PROVE FALSE
      BY <2>1
    <3>1. n * p <= n * (-1) /\ n * (-1) = -n
      OBVIOUS
    <3> QED
      BY <1>1, <2>1, <3>1
  <2> QED
    BY <2>1, <2>2, <2>3, <2>4
<1>2. CASE 0 <= a
  BY <1>1, <1>2 DEF Quotient
<1>3. CASE b < 0
  BY <1>1, <1>3 DEF Quotient
<1>4. CASE a < 0 /\ 0 <= b
  BY <1>1, <1>4 DEF Quotient
<1> QED
  BY <1>2, <1>3, <1>4

\* A product keeps its sign through scaling and limiting.
LEMMA ProductGrows ==
    ASSUME NEW a \in Int, NEW b \in Int, NEW c \in Nat, a <= b
    PROVE  /\ MulQ15(a, c) \in Int /\ MulQ15(b, c) \in Int
           /\ MulQ15(a, c) <= MulQ15(b, c)
           /\ a >= 0 => MulQ15(a, c) >= 0
           /\ a <= 0 => MulQ15(a, c) <= 0
<1> DEFINE qa == Quotient(a * c, One)
           qb == Quotient(b * c, One)
<1>1. One \in Nat \ {0}
  BY OneAssumption
<1>2. a * c \in Int /\ b * c \in Int /\ a * c <= b * c
  OBVIOUS
<1>3. (a >= 0 => a * c >= 0) /\ (a <= 0 => a * c <= 0)
  OBVIOUS
<1>4. /\ qa \in Int /\ qb \in Int /\ qa <= qb
      /\ (a >= 0 => qa >= 0) /\ (a <= 0 => qa <= 0)
  BY <1>1, <1>2, <1>3, QuotientGrows
<1>5. MulQ15(a, c) = ClampQ15(qa) /\ MulQ15(b, c) = ClampQ15(qb)
  BY DEF MulQ15
<1> HIDE DEF qa, qb
<1> QED
  BY <1>1, <1>4, <1>5 DEF ClampQ15, Clamp

LEMMA ProductSign ==
    ASSUME NEW a \in Int, NEW c \in Nat
    PROVE  /\ MulQ15(a, c) \in Int
           /\ a >= 0 => MulQ15(a, c) >= 0
           /\ a <= 0 => MulQ15(a, c) <= 0
<1>1. a <= a
  OBVIOUS
<1> QED
  BY <1>1, ProductGrows

\* Division truncates: what is left is less than the divisor, on the same side.
LEMMA QuotientTruncates ==
    ASSUME NEW x \in Int, NEW n \in Nat \ {0}
    PROVE  /\ Quotient(x, n) \in Int
           /\ Abs32(Quotient(x, n)) * n <= Abs32(x)
           /\ Abs32(x) < Abs32(Quotient(x, n)) * n + n
           /\ x >= 0 => Quotient(x, n) >= 0
           /\ x <= 0 => Quotient(x, n) <= 0
           /\ Quotient(-x, n) = -Quotient(x, n)
<1> DEFINE q == Abs32(x) \div n
<1>1. Abs32(x) \in Nat /\ n \in Int /\ n > 0 /\ 0 <= 0 /\ 0 <= Abs32(x)
  BY DEF Abs32
<1>2. q \in Int /\ q * n <= Abs32(x) /\ Abs32(x) < q * n + n
  BY <1>1
<1>3. q >= 0
  <2>1. Quotient(Abs32(x), n) >= 0
    BY <1>1, QuotientGrows
  <2>2. Quotient(Abs32(x), n) = q
    BY <1>1 DEF Quotient
  <2> QED
    BY <2>1, <2>2
<1>4. Quotient(x, n) = IF x < 0 THEN -q ELSE q
  BY DEF Quotient, Abs32
<1>5. Quotient(-x, n) = IF x > 0 THEN -q ELSE q
  BY DEF Quotient, Abs32
<1>6. x = 0 => q = 0
  BY <1>1 DEF Abs32
<1> HIDE DEF q
<1>7. Abs32(Quotient(x, n)) = q
  BY <1>2, <1>3, <1>4 DEF Abs32
<1>8. x >= 0 => Quotient(x, n) >= 0
  BY <1>2, <1>3, <1>4
<1>9. x <= 0 => Quotient(x, n) <= 0
  BY <1>2, <1>3, <1>4, <1>6
<1>10. Quotient(-x, n) = -Quotient(x, n)
  BY <1>2, <1>4, <1>5, <1>6
<1>11. Quotient(x, n) \in Int
  BY <1>2, <1>4
<1> QED
  BY <1>2, <1>7, <1>8, <1>9, <1>10, <1>11

\* A share of a is no more than a.
LEMMA QuotientShare ==
    ASSUME NEW a \in Nat, NEW t \in Nat, NEW n \in Nat \ {0}, t <= n
    PROVE  Quotient(a * t, n) \in 0 .. a
<1> DEFINE q == Quotient(a * t, n)
<1>1. a * t \in Int /\ 0 <= a * t /\ a * t <= a * n /\ a * n \in Int
  OBVIOUS
<1>2. /\ q \in Int /\ Abs32(q) * n <= Abs32(a * t) /\ q >= 0
  BY <1>1, QuotientTruncates
<1>3. q * n <= a * n
  BY <1>1, <1>2 DEF Abs32
<1> HIDE DEF q
<1>4. q <= a
  <2> SUFFICES ASSUME q >= a + 1 PROVE FALSE
    BY <1>2
  <2>1. q * n >= (a + 1) * n /\ (a + 1) * n = a * n + n
    BY <1>2
  <2> QED
    BY <1>1, <1>2, <1>3, <2>1
<1> QED
  BY <1>2, <1>4 DEF q

\* The limits a product is held to.
LEMMA OneSquared == One \in Int /\ One > 0 /\ One * One \in Int /\ One * One > 0
<1>1. One \in Int /\ One > 0
  BY OneAssumption
<1> QED
  BY <1>1

\* A product is truncated, held to one, and odd.
LEMMA ProductTruncates ==
    ASSUME NEW a \in Int, NEW b \in Int
    PROVE  LET m == MulQ15(a, b)
               x == Clamp(a * b, -One * One, One * One)
           IN  /\ m \in Q15 /\ x \in Int
               /\ Abs32(m) * One <= Abs32(x) /\ Abs32(x) < Abs32(m) * One + One
               /\ x >= 0 => m >= 0
               /\ x <= 0 => m <= 0
<1> DEFINE y == a * b
           q == Quotient(y, One)
           m == MulQ15(a, b)
           x == Clamp(y, -One * One, One * One)
           s == One * One
<1>1. One \in Int /\ One > 0 /\ s \in Int /\ s > 0 /\ -One * One = -s
  BY OneSquared
<1>2. y \in Int
  OBVIOUS
<1>3. /\ q \in Int /\ Abs32(q) * One <= Abs32(y) /\ Abs32(y) < Abs32(q) * One + One
      /\ (y >= 0 => q >= 0) /\ (y <= 0 => q <= 0)
  BY <1>1, <1>2, QuotientTruncates
<1>4. m = Clamp(q, -One, One)
  BY DEF MulQ15, ClampQ15
<1>5. x = Clamp(y, -s, s)
  BY <1>1
<1>6. Abs32(q) <= One => Abs32(q) * One <= s
  BY <1>1, <1>3 DEF Abs32
<1>7. Abs32(q) >= One => Abs32(q) * One >= s
  BY <1>1, <1>3 DEF Abs32
<1>8. Abs32(q) >= One + 1 => Abs32(q) * One >= s + One
  <2> SUFFICES ASSUME Abs32(q) >= One + 1 PROVE Abs32(q) * One >= s + One
    OBVIOUS
  <2>1. Abs32(q) \in Int
    BY <1>3 DEF Abs32
  <2>2. Abs32(q) * One >= (One + 1) * One /\ (One + 1) * One = s + One
    BY <1>1, <2>1
  <2> QED
    BY <2>2
<1> DEFINE p == Abs32(q) * One
<1>9. p \in Int
  BY <1>1, <1>3 DEF Abs32
<1> HIDE DEF y, q, m, x, s
<1>10. m \in Q15 /\ x \in Int /\ (x >= 0 => m >= 0) /\ (x <= 0 => m <= 0)
  BY <1>1, <1>2, <1>3, <1>4, <1>5 DEF Clamp, Q15
<1>11. Abs32(m) * One <= Abs32(x) /\ Abs32(x) < Abs32(m) * One + One
  <2>1. CASE Abs32(q) <= One
    <3>1. m = q
      BY <1>1, <1>3, <1>4, <2>1 DEF Clamp, Abs32
    <3>2. p <= s /\ (Abs32(q) < One \/ p >= s)
      BY <1>6, <1>7, <2>1, <1>1, <1>3 DEF Abs32
    <3>3. Abs32(x) = IF Abs32(y) > s THEN s ELSE Abs32(y)
      BY <1>1, <1>2, <1>5 DEF Clamp, Abs32
    <3>4. p <= Abs32(x) /\ Abs32(x) < p + One
      <4> HIDE DEF p
      <4>1. Abs32(y) \in Int
        BY <1>2 DEF Abs32
      <4> QED
        BY <1>1, <1>3, <1>9, <3>2, <3>3, <4>1 DEF p
    <3> QED
      BY <3>1, <3>4
  <2>2. CASE Abs32(q) > One
    <3>1. Abs32(m) = One
      BY <1>1, <1>3, <1>4, <2>2 DEF Clamp, Abs32
    <3>2. Abs32(y) > s
      <4>1. p >= s + One
        BY <1>1, <1>3, <1>8, <2>2 DEF Abs32
      <4> QED
        BY <1>1, <1>2, <1>3, <1>9, <4>1 DEF Abs32
    <3>3. Abs32(x) = s
      BY <1>1, <1>2, <1>5, <3>2 DEF Clamp, Abs32
    <3> QED
      BY <1>1, <3>1, <3>3 DEF s
  <2> QED
    BY <1>1, <1>3, <2>1, <2>2 DEF Abs32
<1> QED
  BY <1>10, <1>11 DEF m, x, y

\* A product is odd in either factor.
LEMMA ProductOdd ==
    ASSUME NEW a \in Int, NEW b \in Int
    PROVE  /\ MulQ15(a, b) \in Q15 /\ MulQ15(a, b) \in Int
           /\ MulQ15(-a, b) = -MulQ15(a, b)
           /\ MulQ15(a, -b) = -MulQ15(a, b)
<1> DEFINE y == a * b
           q == Quotient(y, One)
<1>1. One \in Int /\ One > 0
  BY OneSquared
<1>2. y \in Int /\ (-a) * b = -y /\ a * (-b) = -y
  OBVIOUS
<1>3. q \in Int /\ Quotient(-y, One) = -q
  BY <1>1, <1>2, QuotientTruncates
<1>4. /\ MulQ15(a, b) = ClampQ15(q)
      /\ MulQ15(-a, b) = ClampQ15(-q)
      /\ MulQ15(a, -b) = ClampQ15(-q)
  BY <1>2, <1>3 DEF MulQ15
<1> HIDE DEF y, q
<1>5. ClampQ15(q) \in Q15 /\ ClampQ15(q) \in Int /\ ClampQ15(-q) = -ClampQ15(q)
  BY <1>1, <1>3 DEF ClampQ15, Clamp, Q15
<1> QED
  BY <1>4, <1>5

\* The magnitude of a product grows with the magnitudes of its factors.
LEMMA ProductMagnitude ==
    ASSUME NEW a \in Int, NEW b \in Int, NEW c \in Nat, NEW d \in Nat,
           Abs32(a) <= Abs32(b), c <= d
    PROVE  Abs32(MulQ15(a, c)) <= Abs32(MulQ15(b, d))
<1> DEFINE x == Abs32(a)
           y == Abs32(b)
<1>1. \A n \in Int, k \in Nat :
        /\ MulQ15(Abs32(n), k) \in Int /\ MulQ15(Abs32(n), k) >= 0
        /\ Abs32(MulQ15(n, k)) = MulQ15(Abs32(n), k)
  <2> TAKE n \in Int, k \in Nat
  <2>1. Abs32(n) \in Nat /\ Abs32(n) <= Abs32(n) /\ Abs32(n) \in {n, -n}
    BY DEF Abs32
  <2>2. MulQ15(Abs32(n), k) \in Int /\ MulQ15(Abs32(n), k) >= 0
    <3>1. \A m \in Nat : MulQ15(m, k) \in Int /\ MulQ15(m, k) >= 0
      BY ProductSign
    <3> QED
      BY <2>1, <3>1
  <2>3. MulQ15(n, k) \in {MulQ15(Abs32(n), k), -MulQ15(Abs32(n), k)}
    <3>1. k \in Int
      OBVIOUS
    <3>2. MulQ15(-n, k) = -MulQ15(n, k) /\ MulQ15(n, k) \in Int
      BY <3>1, ProductOdd, Zenon
    <3> QED
      BY <2>1, <3>2
  <2> QED
    BY <2>2, <2>3 DEF Abs32
<1>2. x \in Nat /\ y \in Nat /\ x <= y
  BY DEF Abs32
<1>3. /\ Abs32(MulQ15(a, c)) = MulQ15(x, c) /\ MulQ15(x, c) \in Int
      /\ Abs32(MulQ15(b, d)) = MulQ15(y, d) /\ MulQ15(y, d) \in Int
      /\ MulQ15(y, c) \in Int
  <2>1. y = Abs32(b) /\ x = Abs32(a)
    OBVIOUS
  <2> HIDE DEF x, y
  <2>2. MulQ15(Abs32(b), c) \in Int
    BY <1>1
  <2> QED
    BY <1>1, <2>1, <2>2
<1> HIDE DEF x, y
<1>4. MulQ15(x, c) <= MulQ15(y, c)
  BY <1>2, ProductGrows
<1>5. MulQ15(c, y) <= MulQ15(d, y)
  BY <1>2, ProductGrows
<1>6. MulQ15(c, y) = MulQ15(y, c) /\ MulQ15(d, y) = MulQ15(y, d)
  <2>1. c * y = y * c /\ d * y = y * d
    BY <1>2
  <2> QED
    BY <2>1 DEF MulQ15
<1> QED
  BY <1>3, <1>4, <1>5, <1>6

-----------------------------------------------------------------------------
(* The motor. *)

\* What the engine may return.
SignedFractions == -FullScale .. FullScale

\* The force after gain and limit stays within the limit, with its sign.
LEMMA LimitedForceRange ==
    ASSUME NEW force \in SignedFractions, NEW c \in DriveLimits
    PROVE  /\ LimitedForce(force, c) \in SignedFractions
           /\ Magnitude(LimitedForce(force, c)) \in Fractions
           /\ Magnitude(LimitedForce(force, c)) <= c.maximum_force
<1> DEFINE gained == (Magnitude(force) * c.global_gain) \div FullScale
           clamped == ClampTo(gained, 0, c.maximum_force)
<1>1. FullScale \in Nat /\ FullScale > 0
  BY FullScaleAssumption
<1>2. c.global_gain \in 0 .. FullScale /\ c.maximum_force \in 0 .. FullScale
  BY DEF DriveLimits, Fractions
<1>3. Magnitude(force) \in Nat
  BY <1>1 DEF Magnitude, SignedFractions
<1>4. Magnitude(force) * c.global_gain \in Int
  BY <1>1, <1>2, <1>3
<1>5. gained \in Int
  BY <1>1, <1>4
<1> HIDE DEF gained
<1>6. clamped \in 0 .. c.maximum_force
  BY <1>1, <1>2, <1>5 DEF ClampTo
<1>7. LimitedForce(force, c) = SignOf(force) * clamped
  BY DEF LimitedForce, gained
<1>8. SignOf(force) \in {-1, 0, 1}
  BY DEF SignOf
<1> HIDE DEF clamped
<1>9. LimitedForce(force, c) \in {-clamped, 0, clamped}
  <2>1. CASE SignOf(force) = 1
    BY <2>1, <1>1, <1>2, <1>6, <1>7
  <2>2. CASE SignOf(force) = 0
    BY <2>2, <1>1, <1>2, <1>6, <1>7
  <2>3. CASE SignOf(force) = -1
    BY <2>3, <1>1, <1>2, <1>6, <1>7
  <2> QED
    BY <1>8, <2>1, <2>2, <2>3
<1> QED
  BY <1>1, <1>2, <1>6, <1>9 DEF Magnitude, SignedFractions, Fractions

\* The target is a duty, never above the configured maximum.
LEMMA TargetDutyRange ==
    ASSUME NEW force \in SignedFractions, NEW c \in DriveLimits
    PROVE  TargetDuty(force, c) \in Fractions /\ TargetDuty(force, c) <= c.maximum_duty
<1>1. Magnitude(LimitedForce(force, c)) \in Fractions
  BY LimitedForceRange
<1>2. c.maximum_duty \in 0 .. FullScale /\ FullScale \in Nat
  BY FullScaleAssumption DEF DriveLimits, Fractions
<1> QED
  BY <1>1, <1>2 DEF TargetDuty, ClampTo, Fractions

\* The slewed duty lies between the applied duty and the target, at most one
\* slew step from the former.
LEMMA SlewedDutyRange ==
    ASSUME NEW m \in Motors, NEW force \in SignedFractions, NEW c \in DriveLimits
    PROVE  /\ SlewedDuty(m, force, c) \in Fractions
           /\ SlewedDuty(m, force, c) <= m.applied_duty + c.duty_slew_per_tick
           /\ TargetDuty(force, c) > 0 => SlewedDuty(m, force, c) > 0
<1>1. TargetDuty(force, c) \in 0 .. FullScale
  BY TargetDutyRange DEF Fractions
<1>2. /\ m.applied_duty \in 0 .. FullScale
      /\ c.duty_slew_per_tick \in 1 .. FullScale
      /\ FullScale \in Nat
  BY FullScaleAssumption DEF Motors, DriveLimits, Fractions
<1> QED
  BY <1>1, <1>2 DEF SlewedDuty, ClampTo, Fractions

\* Disabling a motor leaves a motor, with every output low.
LEMMA MotorDisableType ==
    ASSUME NEW m \in Motors
    PROVE  /\ MotorDisable(m) \in Motors
           /\ MotorDisable(m).pwm = 0 /\ MotorDisable(m).pins = 0
           /\ MotorDisable(m).initialized = m.initialized
BY FullScaleAssumption DEF MotorDisable, Motors, Directions, Phases, Fractions

\* Driving a motor leaves a motor, and an uninitialised one as it was.
LEMMA SetForceType ==
    ASSUME NEW m \in Motors, NEW force \in SignedFractions, NEW c \in DriveLimits
    PROVE  /\ SetForce(m, force, c) \in Motors
           /\ SetForce(m, force, c).initialized = m.initialized
           /\ ~m.initialized => SetForce(m, force, c) = m
<1>1. 0 \in Fractions
  BY FullScaleAssumption DEF Fractions
<1>2. SlewedDuty(m, force, c) \in Fractions
  BY SlewedDutyRange
<1>3. RequestedDirection(force, c) \in Directions
  BY DEF RequestedDirection, SignOf, Directions
<1>4. m.direction \in Directions /\ m.pending_direction \in Directions
  BY DEF Motors
<1>5. \A d \in Directions, duty \in Fractions :
        Drive(m, d, duty) \in Motors /\ Drive(m, d, duty).initialized = m.initialized
  BY DEF Drive, Motors
<1>6. /\ DriveStep(m, force, c) \in Motors
      /\ DriveStep(m, force, c).initialized = m.initialized
  <2>1. Drive(m, IF m.direction = 0 THEN RequestedDirection(force, c)
                                    ELSE m.direction,
              SlewedDuty(m, force, c)) \in Motors
    BY <1>2, <1>3, <1>4, <1>5
  <2> QED
    BY <1>1, <1>2, <1>3, <1>4, <1>5, <2>1
    DEF DriveStep, EndPeriodOne, EndPeriodTwo, BeginReversal, Motors, Phases
<1> QED
  BY <1>6 DEF SetForce

=============================================================================
