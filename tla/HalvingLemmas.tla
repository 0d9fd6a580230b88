---------------------------- MODULE HalvingLemmas ----------------------------
(***************************************************************************)
(* What the loops of calculate_loops have in common: a side is halved,     *)
(* rounded up, and the number of its parts is doubled in a 32-bit word;    *)
(* and what a recursion over numbers needs: counting up to its last one.   *)
(***************************************************************************)
EXTENDS Integers, WellFoundedInduction, TLAPS

\* Division with remainder.
LEMMA DivMod == ASSUME NEW a \in Nat, NEW n \in Nat, n > 0
  PROVE a = n * (a \div n) + (a % n) /\ a % n \in Nat /\ a % n < n /\ a \div n \in Nat
  BY Z3

\* A multiple leaves no remainder.
LEMMA Divides == ASSUME NEW d \in Nat, NEW k \in Nat, d > 0 PROVE (d * k) % d = 0
  <1> DEFINE a == d * k
             q == a \div d
             r == a % d
  <1>1. a \in Nat OBVIOUS
  <1>2. a = d * q + r /\ r \in Nat /\ r < d /\ q \in Nat BY <1>1, DivMod
  <1> HIDE DEF q, r
  <1>3. r = d * (k - q) BY <1>2
  <1>4. q \in Nat /\ k - q \in Int BY <1>2
  <1>5. ~(k - q >= 1)
    <2> SUFFICES ASSUME k - q - 1 \in Nat PROVE FALSE BY <1>4
    <2>1. r = d + d * (k - q - 1) /\ d * (k - q - 1) \in Nat BY <1>2, <1>3
    <2>2. QED BY <1>2, <2>1
  <1>6. ~(k - q <= -1)
    <2> SUFFICES ASSUME q - k - 1 \in Nat PROVE FALSE BY <1>4
    <2>1. r = -(d + d * (q - k - 1)) /\ d * (q - k - 1) \in Nat BY <1>2, <1>3
    <2>2. QED BY <1>2, <2>1
  <1>7. k - q = 0 BY <1>4, <1>5, <1>6
  <1>8. r = 0 BY <1>3, <1>7
  <1>9. QED BY <1>8 DEF r, a

\* Products of natural numbers are monotonic.
LEMMA TimesMono == ASSUME NEW a \in Nat, NEW b \in Nat, NEW c \in Nat, a <= b
  PROVE a * c <= b * c
  <1>1. PICK d \in Nat : b = a + d BY b - a \in Nat, b = a + (b - a)
  <1>2. b * c = a * c + d * c /\ d * c \in Nat BY <1>1
  <1>3. QED BY <1>2

\* While parts have several elements there are fewer of them than elements, so
\* their number can be doubled.
LEMMA NoWrap ==
  ASSUME NEW x \in Nat, x >= 2, NEW o \in Nat \ {0}, NEW d \in Nat, NEW w \in Nat, 2 * d <= w,
         (x - 1) * o < d
  PROVE (2 * o) % w = 2 * o
  <1>1. 1 * o <= (x - 1) * o BY x - 1 \in Nat, 1 <= x - 1, TimesMono
  <1>2. o < d BY <1>1, (x - 1) * o \in Nat
  <1>3. QED BY <1>2

\* A number is q * n + r, with r < n, in one way only.
LEMMA TwoDigits ==
  ASSUME NEW n \in Nat, NEW q \in Nat, NEW r \in Nat, NEW u \in Nat, NEW v \in Nat,
         r < n, v < n, q * n + r = u * n + v
  PROVE  q = u /\ r = v
  <1>1. ASSUME NEW a \in Nat, NEW b \in Nat, NEW x \in Nat, NEW y \in Nat, x < n, y < n,
               a * n + x = b * n + y
        PROVE  ~(a < b)
    <2> SUFFICES ASSUME a < b PROVE FALSE OBVIOUS
    <2>1. (a + 1) * n <= b * n BY TimesMono, a + 1 \in Nat, a + 1 <= b
    <2>2. (a + 1) * n = a * n + n /\ a * n \in Nat /\ b * n \in Nat OBVIOUS
    <2> DEFINE p == a * n
               w == b * n
    <2>3. p + n <= w /\ p \in Nat /\ w \in Nat /\ p + x = w + y BY <1>1, <2>1, <2>2
    <2> HIDE DEF p, w
    <2>4. QED BY <1>1, <2>3
  <1>2. ~(q < u) /\ ~(u < q) BY <1>1
  <1>3. q = u BY <1>2
  <1>4. q * n \in Nat /\ q * n = u * n BY <1>3
  <1>5. QED BY <1>3, <1>4

\* A number with its digits below their bounds is below the product of these.
LEMMA DigitsBound ==
  ASSUME NEW n \in Nat, NEW m \in Nat, NEW q \in Nat, NEW r \in Nat, q < m, r < n
  PROVE  q * n + r \in Nat /\ q * n + r < m * n
  <1>1. (q + 1) * n <= m * n BY TimesMono, q + 1 \in Nat, q + 1 <= m
  <1>2. (q + 1) * n = q * n + n /\ q * n \in Nat /\ m * n \in Nat OBVIOUS
  <1> DEFINE p == q * n
             w == m * n
  <1>3. p \in Nat /\ w \in Nat /\ p + n <= w BY <1>1, <1>2
  <1> HIDE DEF p, w
  <1>4. p + r \in Nat /\ p + r < w BY <1>3
  <1>5. QED BY <1>4 DEF p, w

\* Quotient and remainder of a number given that way.
LEMMA Digits ==
  ASSUME NEW n \in Nat, NEW q \in Nat, NEW r \in Nat, r < n
  PROVE  q * n + r \in Nat /\ (q * n + r) \div n = q /\ (q * n + r) % n = r
  <1> DEFINE a == q * n + r
  <1>1. a \in Nat /\ n > 0 BY q * n \in Nat
  <1>2. a = n * (a \div n) + (a % n) /\ a % n \in Nat /\ a % n < n /\ a \div n \in Nat
    BY <1>1, DivMod
  <1> DEFINE u == a \div n
             v == a % n
  <1>3. u \in Nat /\ v \in Nat /\ v < n BY <1>2
  <1>4. n * u = u * n BY <1>3
  <1>5. q * n + r = u * n + v BY <1>2, <1>4
  <1> HIDE DEF u, v
  <1>6. q = u /\ r = v BY <1>3, <1>5, TwoDigits
  <1>7. QED BY <1>1, <1>6 DEF u, v

\* Every number below a product has its two digits.
LEMMA HasDigits ==
  ASSUME NEW m \in Nat, NEW n \in Nat, NEW a \in Nat, a < m * n
  PROVE  \E q \in 0..(m - 1), r \in 0..(n - 1) : a = q * n + r
  <1>1. n > 0
    <2> SUFFICES ASSUME n = 0 PROVE FALSE OBVIOUS
    <2>1. m * n = 0 OBVIOUS
    <2>2. QED BY <2>1
  <1> DEFINE q == a \div n
             r == a % n
  <1>2. a = n * q + r /\ r \in Nat /\ r < n /\ q \in Nat BY <1>1, DivMod
  <1> HIDE DEF q, r
  <1>3. n * q = q * n BY <1>2
  <1>4. ~(m <= q)
    <2> SUFFICES ASSUME m <= q PROVE FALSE OBVIOUS
    <2>1. m * n <= q * n BY <1>2, TimesMono
    <2>2. m * n \in Nat /\ q * n \in Nat BY <1>2
    <2>3. QED BY <1>2, <1>3, <2>1, <2>2
  <1>5. q \in 0..(m - 1) /\ r \in 0..(n - 1) /\ a = q * n + r BY <1>2, <1>3, <1>4
  <1>6. QED BY <1>5

\* o parts of x elements cover d elements, and parts of x - 1 would not.  With
\* parts of h elements, half of x rounded up, and twice as many of them, this
\* still holds, and the word does not overflow.
LEMMA HalveSide ==
  ASSUME NEW x \in Nat, x >= 2, NEW o \in Nat \ {0}, NEW d \in Nat, NEW w \in Nat, 2 * d <= w,
         x * o >= d, (x - 1) * o < d,
         NEW h \in Nat \ {0}, 2 * h >= x, 2 * h <= x + 1
  PROVE (2 * o) % w \in Nat \ {0} /\ h * ((2 * o) % w) >= d /\ (h - 1) * ((2 * o) % w) < d
  <1>4. (2 * o) % w = 2 * o BY NoWrap
  <1>5. h * (2 * o) = (2 * h) * o OBVIOUS
  <1>6. (2 * h) * o >= x * o BY TimesMono
  <1>7. (h - 1) * (2 * o) = (2 * h - 2) * o OBVIOUS
  <1>8. (2 * h - 2) * o <= (x - 1) * o BY 2 * h - 2 \in Nat, x - 1 \in Nat, TimesMono
  <1>9. x * o \in Nat /\ (2 * h) * o \in Nat /\ (2 * h - 2) * o \in Int /\ (x - 1) * o \in Nat
    OBVIOUS
  <1>10. h * (2 * o) >= d /\ (h - 1) * (2 * o) < d BY <1>5, <1>6, <1>7, <1>8, <1>9
  <1>11. QED BY <1>4, <1>10

\* A number is a power of two when all its divisors but 1 are even.  Half of a
\* power of two is one.
LEMMA HalfOfPower ==
  ASSUME NEW n \in Nat, n >= 2, \A d \in 2..n : n % d = 0 => d % 2 = 0
  PROVE  /\ n % 2 = 0 /\ n = 2 * (n \div 2) /\ n \div 2 \in Nat \ {0}
         /\ \A d \in 2..(n \div 2) : (n \div 2) % d = 0 => d % 2 = 0
  <1> DEFINE h == n \div 2
  <1>1. n % n = 0 /\ n \in 2..n OBVIOUS
  <1>2. n % 2 = 0 BY <1>1
  <1>3. n = 2 * h /\ h \in Nat /\ h > 0 BY <1>2, DivMod
  <1> HIDE DEF h
  <1>4. ASSUME NEW d \in 2..h, h % d = 0 PROVE d % 2 = 0
    <2>1. d \in Nat /\ d > 0 /\ d \in 2..n BY <1>3
    <2>2. n % d = 0
      <3> DEFINE q == h \div d
      <3>1. h = d * q /\ q \in Nat BY <1>3, <1>4, <2>1, DivMod
      <3> HIDE DEF q
      <3>2. n = d * (2 * q) BY <1>3, <2>1, <3>1
      <3>3. 2 * q \in Nat BY <3>1
      <3>4. QED BY <2>1, <3>2, <3>3, Divides
    <2>3. QED BY <2>1, <2>2
  <1>5. QED BY <1>2, <1>3, <1>4 DEF h

-----------------------------------------------------------------------------
LEMMA LessIsRelated ==
  ASSUME NEW x \in Nat, NEW y \in Nat, y < x
  PROVE  <<y, x>> \in OpToRel(<, Nat)
<1>1. <<y, x>> \in Nat \X Nat OBVIOUS
<1>2. <<y, x>>[1] < <<y, x>>[2] OBVIOUS
<1> QED BY <1>1, <1>2, Zenon DEF OpToRel

\* A set of numbers that is not empty has a least one.
LEMMA LeastNumber ==
  ASSUME NEW T \in SUBSET Nat, T # {}
  PROVE  \E x \in T : \A y \in T : x <= y
<1>1. \E x \in T : \A y \in T : ~(<<y, x>> \in OpToRel(<, Nat))
  BY WFMin, NatLessThanWellFounded
<1>2. PICK x \in T : \A y \in T : ~(<<y, x>> \in OpToRel(<, Nat))
  BY <1>1, Zenon
<1>3. \A y \in T : ~(y < x)
  BY <1>2, LessIsRelated, ZenonT(20)
<1> QED BY <1>3, SMT

\* A set of numbers that has 0 and, with every number below `last`, the next
\* one too, has all numbers up to `last`.
LEMMA UpTo ==
  ASSUME NEW last \in Nat, NEW S, 0 \in S,
         \A n \in 0..(last - 1) : n \in S => n + 1 \in S
  PROVE  \A n \in 0..last : n \in S
<1> DEFINE Bad == {n \in 0..last : n \notin S}
<1> SUFFICES ASSUME Bad # {} PROVE FALSE OBVIOUS
<1>1. Bad \in SUBSET Nat OBVIOUS
<1>2. PICK x \in Bad : \A y \in Bad : x <= y
  <2> HIDE DEF Bad
  <2> QED BY <1>1, LeastNumber
<1>3. x # 0 /\ x \in 0..last /\ x \notin S OBVIOUS
<1>4. x - 1 \in 0..(last - 1) BY <1>3
<1>5. x - 1 \in S BY <1>2, <1>3, <1>4
<1> QED BY <1>3, <1>4, <1>5
=============================================================================
