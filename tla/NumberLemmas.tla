---------------------------- MODULE NumberLemmas ----------------------------
(***************************************************************************)
(* Facts about integers the other proofs rest on: least and largest        *)
(* elements, quotients and remainders.                                     *)
(***************************************************************************)
EXTENDS Integers, FiniteSetsExt, TLAPS
LOCAL INSTANCE WellFoundedInduction

(* A set of naturals has a least element: the one form of induction that   *)
(* the proofs need.                                                        *)
LEMMA LeastNatural ==
  ASSUME NEW S, S \subseteq Nat, S # {}
  PROVE  \E m \in S : \A k \in S : m <= k
<1> DEFINE R == OpToRel(<, Nat)
<1>1. IsWellFoundedOn(R, Nat)
  BY NatLessThanWellFounded
<1>2. \A x, y \in Nat : x < y => <<x, y>> \in R
  BY DEF OpToRel
<1> HIDE DEF R
<1>3. PICK x \in S : \A y \in S : ~ (<<y, x>> \in R)
  BY <1>1, WFMin
<1>4. \A y \in S : ~ (y < x)
  BY <1>2, <1>3
<1>5. \A y \in S : x <= y
  BY <1>4
<1> QED
  BY <1>5

LEMMA MinOfNaturals ==
  ASSUME NEW S, S \subseteq Nat, S # {}
  PROVE  Min(S) \in S /\ \A k \in S : Min(S) <= k
  BY LeastNatural DEF Min

(* A bounded set of integers has a largest element.                        *)
LEMMA MaxOfBounded ==
  ASSUME NEW S, S \subseteq Int, S # {}, NEW b \in Int, \A s \in S : s <= b
  PROVE  Max(S) \in S /\ \A k \in S : k <= Max(S)
<1> DEFINE T == {n \in Nat : b - n \in S}
<1>1. \A s \in S : s \in Int /\ b - s \in T /\ b - (b - s) = s
  OBVIOUS
<1>2. PICK m \in T : \A k \in T : m <= k
  <2>1. T # {}
    BY <1>1
  <2> QED
    BY <2>1, LeastNatural
<1>3. b - m \in S /\ m \in Nat
  BY <1>2
<1>4. ASSUME NEW k \in S PROVE b - m >= k
  <2>1. k \in Int /\ m <= b - k
    BY <1>1, <1>2
  <2> QED
    BY <2>1, <1>3
<1>5. Max(S) \in S /\ \A k \in S : Max(S) >= k
  BY <1>3, <1>4 DEF Max
<1> QED
  BY <1>5

LEMMA MaxOfTwo ==
  ASSUME NEW a \in Int, NEW b \in Int
  PROVE  Max({a, b}) = IF a >= b THEN a ELSE b
  BY DEF Max

LEMMA MinOfTwo ==
  ASSUME NEW a \in Int, NEW b \in Int
  PROVE  Min({a, b}) = IF a <= b THEN a ELSE b
  BY DEF Min

-----------------------------------------------------------------------------
(* Quotients and remainders                                                *)

LEMMA DivMod ==
  ASSUME NEW x \in Int, NEW n \in Nat \ {0}
  PROVE  /\ x % n \in 0..(n - 1)
         /\ x \div n \in Int
         /\ x = n * (x \div n) + (x % n)
  OBVIOUS

LEMMA SmallMod ==
  ASSUME NEW n \in Nat \ {0}, NEW x \in 0..(n - 1)
  PROVE  x % n = x
  OBVIOUS

(* Numbers less than n apart have quotients at most one apart.             *)
LEMMA Apart ==
  ASSUME NEW n \in Nat \ {0}, NEW h \in Int, NEW k \in Int,
         n * h - n * k < 2 * n
  PROVE  h <= k + 1
<1>1. ASSUME h >= k + 2 PROVE FALSE
  <2>1. n * h = n * k + n * (h - k)
    OBVIOUS
  <2>2. n * (h - k) >= n * 2
    BY <1>1
  <2> QED
    BY <2>1, <2>2
<1> QED
  BY <1>1

LEMMA NextMultiple ==
  ASSUME NEW n \in Nat \ {0}, NEW h \in Int
  PROVE  n * h \in Int /\ n * (h + 1) = n * h + n /\ n * (h - 1) = n * h - n
         /\ h * n = n * h /\ (h + 1) * n = n * h + n /\ (h - 1) * n = n * h - n
  OBVIOUS

(* The quotient of c, which is less than half of n away from low, follows  *)
(* from the remainders.                                                    *)
LEMMA NearQuotient ==
  ASSUME NEW n \in Nat \ {0}, NEW half \in Nat, n = 2 * half,
         NEW c \in Int, NEW low \in Int, low - half <= c, c < low + half
  PROVE  /\ (c % n) < (low % n) - half => c = (low \div n + 1) * n + (c % n)
         /\ (c % n) >= (low % n) + half => c = (low \div n - 1) * n + (c % n)
         /\ ~((c % n) < (low % n) - half) /\ ~((c % n) >= (low % n) + half)
              => c = (low \div n) * n + (c % n)
         /\ ~((c % n) < (low % n) - half /\ (c % n) >= (low % n) + half)
<1> DEFINE hc == c \div n
           hl == low \div n
           sc == c % n
           sl == low % n
<1>1. sc \in 0..(n - 1) /\ hc \in Int /\ c = n * hc + sc
  BY DivMod
<1>2. sl \in 0..(n - 1) /\ hl \in Int /\ low = n * hl + sl
  BY DivMod
<1> HIDE DEF hc, hl, sc, sl
<1>3. /\ n * hc \in Int /\ n * hl \in Int /\ n * (hl + 1) = n * hl + n /\ n * (hl - 1) = n * hl - n
      /\ hl * n = n * hl /\ (hl + 1) * n = n * hl + n /\ (hl - 1) * n = n * hl - n
  BY <1>1, <1>2, NextMultiple
<1>4. hc <= hl + 1 /\ hl <= hc + 1
  <2>1. n * hc - n * hl < 2 * n /\ n * hl - n * hc < 2 * n
    BY <1>1, <1>2, <1>3
  <2> QED
    BY <1>1, <1>2, <2>1, Apart
<1>5. hc \in {hl - 1, hl, hl + 1}
  BY <1>1, <1>2, <1>4
<1>6. sc < sl - half => c = (hl + 1) * n + sc
  <2>1. ASSUME sc < sl - half PROVE hc = hl + 1
    BY <1>1, <1>2, <1>3, <1>5, <2>1
  <2> QED
    BY <2>1, <1>1, <1>3
<1>7. sc >= sl + half => c = (hl - 1) * n + sc
  <2>1. ASSUME sc >= sl + half PROVE hc = hl - 1
    BY <1>1, <1>2, <1>3, <1>5, <2>1
  <2> QED
    BY <2>1, <1>1, <1>3
<1>8. ~(sc < sl - half) /\ ~(sc >= sl + half) => c = hl * n + sc
  <2>1. ASSUME ~(sc < sl - half), ~(sc >= sl + half) PROVE hc = hl
    BY <1>1, <1>2, <1>3, <1>5, <2>1
  <2> QED
    BY <2>1, <1>1, <1>3
<1>9. ~(sc < sl - half /\ sc >= sl + half)
  BY <1>1, <1>2
<1> QED
  BY <1>6, <1>7, <1>8, <1>9 DEF hl, sc, sl

(* A quotient and a remainder are the only ones of a number.               *)
LEMMA UniqueRemainder ==
  ASSUME NEW n \in Nat \ {0}, NEW q \in Int, NEW r \in 0..(n - 1)
  PROVE  (n * q + r) % n = r
<1> DEFINE x == n * q + r
           h == x \div n
<1>1. x \in Int
  OBVIOUS
<1>2. x % n \in 0..(n - 1) /\ h \in Int /\ x = n * h + (x % n)
  BY <1>1, DivMod
<1>3. ASSUME NEW a \in Int, NEW b \in Int, n * a - n * b < n PROVE a <= b
  <2> SUFFICES ASSUME a >= b + 1 PROVE FALSE
    BY <1>3
  <2>1. n * a >= n * (b + 1)
    OBVIOUS
  <2>2. n * (b + 1) = n * b + n
    OBVIOUS
  <2> QED
    BY <1>3, <2>1, <2>2
<1>4. n * q \in Int /\ n * h \in Int
  BY <1>2
<1>5. n * q - n * h < n /\ n * h - n * q < n
  BY <1>2, <1>4
<1>6. q = h
  BY <1>2, <1>3, <1>5
<1> QED
  BY <1>2, <1>6

(* Whole periods do not change a remainder.                                *)
LEMMA ModPeriod ==
  ASSUME NEW n \in Nat \ {0}, NEW x \in Int, NEW q \in Int
  PROVE  (n * q + x) % n = x % n
<1> DEFINE h == x \div n
           r == x % n
<1>1. r \in 0..(n - 1) /\ h \in Int /\ x = n * h + r
  BY DivMod
<1>2. n * q + x = n * (q + h) + r
  <2>1. n * (q + h) = n * q + n * h
    BY <1>1
  <2> QED
    BY <1>1, <2>1
<1> HIDE DEF h, r
<1>3. (n * (q + h) + r) % n = r
  BY <1>1, UniqueRemainder
<1> QED
  BY <1>2, <1>3 DEF r

LEMMA ModAdd ==
  ASSUME NEW n \in Nat \ {0}, NEW x \in Int, NEW k \in Int
  PROVE  ((x % n) + k) % n = (x + k) % n
<1> DEFINE h == x \div n
           y == (x % n) + k
<1>1. (x % n) \in Int /\ h \in Int /\ x = n * h + (x % n)
  BY DivMod
<1>2. y \in Int /\ n * h + y = x + k
  BY <1>1
<1> HIDE DEF h, y
<1>3. (n * h + y) % n = y % n
  BY <1>1, <1>2, ModPeriod, Zenon
<1> QED
  BY <1>2, <1>3 DEF y

(* A divisor of the period sees the number behind its remainder.           *)
LEMMA ModMod ==
  ASSUME NEW n \in Nat \ {0}, NEW m \in Nat \ {0}, n % m = 0, NEW x \in Int
  PROVE  (x % n) % m = x % m
<1> DEFINE h == x \div n
           g == n \div m
           y == x % n
<1>1. y \in Int /\ h \in Int /\ x = n * h + y
  BY DivMod
<1>2. g \in Int /\ n = m * g
  BY DivMod
<1>3. x = m * (g * h) + y /\ g * h \in Int
  <2>1. n * h = m * (g * h)
    BY <1>1, <1>2
  <2> QED
    BY <1>1, <1>2, <2>1
<1> HIDE DEF h, g, y
<1>4. (m * (g * h) + y) % m = y % m
  BY <1>1, <1>3, ModPeriod, Zenon
<1> QED
  BY <1>3, <1>4 DEF y

(* Different numbers less than a period apart have different remainders.   *)
LEMMA ModApart ==
  ASSUME NEW n \in Nat \ {0}, NEW x \in Int, NEW y \in Int, x # y, x - y < n, y - x < n
  PROVE  x % n # y % n
<1> SUFFICES ASSUME x % n = y % n PROVE FALSE
  OBVIOUS
<1> DEFINE a == x \div n
           b == y \div n
<1>1. /\ x % n \in Int /\ a \in Int /\ x = n * a + (x % n)
      /\ b \in Int /\ y = n * b + (y % n)
  BY DivMod
<1>2. x - y = n * (a - b)
  <2>1. n * (a - b) = n * a - n * b
    BY <1>1
  <2> QED
    BY <1>1, <2>1
<1> HIDE DEF a, b
<1>3. a - b \in Int /\ n * (a - b) < n /\ -n < n * (a - b)
  BY <1>1, <1>2
<1>4. ASSUME NEW z \in Int, n * z < n, -n < n * z PROVE z = 0
  <2>1. CASE z >= 1
    <3>1. n * z >= n * 1
      BY <2>1
    <3> QED
      BY <1>4, <3>1
  <2>2. CASE z <= -1
    <3>1. n * z <= n * (-1)
      BY <2>2
    <3> QED
      BY <1>4, <3>1
  <2> QED
    BY <2>1, <2>2
<1>5. a - b = 0
  BY <1>3, <1>4
<1> QED
  BY <1>1, <1>2, <1>5
=============================================================================
