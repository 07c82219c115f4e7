------------------------------ MODULE GremlinProofs ------------------------------
(***************************************************************************)
(* What the wire format promises for every width of its parameters, the    *)
(* code's among them, for every number of a type and in every buffer: the  *)
(* sizes asked for beforehand are those of what is written, and whatever   *)
(* is written is read again, or skipped, from wherever it stands.  And of  *)
(* every message, whatever it declares and whichever messages it contains: *)
(* it fills its buffer exactly, Unmarshal finds its fields, and what is     *)
(* read of them, in the same version or in another, is what was written.   *)
(***************************************************************************)
EXTENDS GremlinMessage, Counting

-----------------------------------------------------------------------------

(* The powers are the function their definition chooses, which exists.     *)
LEMMA PowerSteps ==
  ASSUME NEW base \in Nat
  PROVE  /\ Power(base, 0) = 1
         /\ \A n \in Nat : Power(base, n) \in Nat
         /\ \A n \in Nat \ {0} : Power(base, n) = base * Power(base, n - 1)
<1> DEFINE N == Nat
           Is(p) == p = [i \in Nat |-> IF i = 0 THEN 1 ELSE base * p[i - 1]]
           power == CHOOSE p : Is(p)
           step == [i \in Nat |-> [x \in N |-> base * x]]
<1>1. \A n : Power(base, n) = power[n]
  BY DEF Power
<1>2. PICK f : GoesOn(f, N, 1, step)
  <2> DEFINE one == 1
  <2>1. step \in [Nat -> [N -> N]] /\ one \in N
    OBVIOUS
  <2> HIDE DEF step, N, one
  <2>2. \E f : GoesOn(f, N, one, step)
    BY <2>1, StepsForever
  <2> QED BY <2>2 DEF one
<1>3. Is(f)
  <2>1. ASSUME NEW i \in Nat \ {0} PROVE f[i] = base * f[i - 1]
    <3>1. f[i - 1] \in N /\ f[i] = step[i][f[i - 1]]
      BY <1>2 DEF GoesOn
    <3> QED BY <3>1
  <2> HIDE DEF step
  <2>2. f = [i \in Nat |-> IF i = 0 THEN 1 ELSE base * f[i - 1]]
    BY <1>2, <2>1 DEF GoesOn
  <2> QED BY <2>2
<1>4. Is(power)
  BY <1>3
<1> HIDE DEF power
<1>5. power[0] = 1 /\ \A n \in Nat \ {0} : power[n] = base * power[n - 1]
  BY <1>4
<1>6. ASSUME NEW n \in Nat PROVE power[n] \in Nat
  <2> DEFINE T == {i \in 0 .. n : power[i] \in Nat}
  <2>1. 0 \in T
    BY <1>5
  <2>2. \A i \in 1 .. n : i - 1 \in T => i \in T
    BY <1>5
  <2> HIDE DEF T
  <2>3. 0 .. n \subseteq T
    BY <2>1, <2>2, UpTo
  <2> QED BY <2>3 DEF T
<1> QED BY <1>1, <1>5, <1>6

LEMMA PowerPositive ==
  ASSUME NEW base \in Nat \ {0}, NEW n \in Nat
  PROVE  Power(base, n) \in Nat \ {0}
<1> DEFINE T == {i \in 0 .. n : Power(base, i) \in Nat \ {0}}
<1>1. 0 \in T
  BY PowerSteps
<1>2. ASSUME NEW i \in 1 .. n, i - 1 \in T PROVE i \in T
  <2> DEFINE p == Power(base, i - 1)
  <2>1. p \in Nat \ {0} /\ Power(base, i) = base * p
    BY <1>2, PowerSteps
  <2> HIDE DEF p
  <2>2. base * p \in Nat \ {0}
    BY <2>1
  <2> QED BY <2>1, <2>2
<1> HIDE DEF T
<1>3. 0 .. n \subseteq T
  BY <1>1, <1>2, UpTo
<1> QED BY <1>3 DEF T

LEMMA PowerSum ==
  ASSUME NEW base \in Nat \ {0}, NEW m \in Nat, NEW n \in Nat
  PROVE  Power(base, m + n) = Power(base, m) * Power(base, n)
<1> DEFINE T == {i \in 0 .. n : Power(base, m + i) = Power(base, m) * Power(base, i)}
           a == Power(base, m)
<1>0. a \in Nat
  BY PowerPositive
<1>1. 0 \in T
  BY <1>0, PowerSteps
<1>2. ASSUME NEW i \in 1 .. n, i - 1 \in T PROVE i \in T
  <2> DEFINE p == Power(base, i - 1)
             q == Power(base, m + (i - 1))
  <2>1. p \in Nat /\ Power(base, i) = base * p
    BY PowerSteps
  <2>2. q \in Nat /\ Power(base, m + i) = base * q
    <3>1. m + i \in Nat \ {0} /\ (m + i) - 1 = m + (i - 1) /\ m + (i - 1) \in Nat
      OBVIOUS
    <3>2. Power(base, m + i) = base * Power(base, (m + i) - 1)
      BY <3>1, PowerSteps
    <3> QED BY <3>1, <3>2, PowerSteps
  <2>3. q = a * p
    BY <1>2
  <2> HIDE DEF p, q, a
  <2>4. base * (a * p) = a * (base * p)
    BY <1>0, <2>1
  <2>5. Power(base, m + i) = a * Power(base, i)
    BY <2>1, <2>2, <2>3, <2>4
  <2> QED BY <2>5 DEF a
<1> HIDE DEF T
<1>3. 0 .. n \subseteq T
  BY <1>1, <1>2, UpTo
<1> QED BY <1>3 DEF T

-----------------------------------------------------------------------------

(* One digit more of a number.                                             *)
LEMMA NextDigit ==
  ASSUME NEW v \in Nat, NEW b \in Nat \ {0}, NEW p \in Nat \ {0}
  PROVE  /\ (v \div p) % b \in 0 .. b - 1
         /\ v % (b * p) = (v % p) + ((v \div p) % b) * p
<1> DEFINE q == v \div p
           r == v % p
           h == q \div b
           d == q % b
           B == b * p
           low == d * p + r
<1>1. q \in Nat /\ r \in 0 .. p - 1 /\ v = q * p + r
  BY DivMod
<1>2. h \in Nat /\ d \in 0 .. b - 1 /\ q = h * b + d
  <2> HIDE DEF q
  <2> QED BY <1>1, DivMod
<1>3. B \in Nat \ {0}
  OBVIOUS
<1>4. v \div B \in Nat /\ v % B \in 0 .. B - 1 /\ v = (v \div B) * B + (v % B)
  <2> HIDE DEF B
  <2> QED BY <1>3, DivMod
<1> HIDE DEF q, r, h, d
<1>5. v = h * B + low
  <2>1. q * p = (h * b + d) * p
    BY <1>2
  <2>2. (h * b + d) * p = h * (b * p) + d * p
    BY <1>2
  <2> QED BY <1>1, <1>2, <2>1, <2>2
<1>6. low \in 0 .. B - 1
  <2>1. d * p \in Nat /\ (d + 1) * p <= b * p /\ (d + 1) * p = d * p + p
    BY <1>2
  <2> QED BY <1>1, <2>1
<1> HIDE DEF B, low
<1>7. v % B = low
  <2> DEFINE g == v \div B
             m == v % B
  <2>1. g \in Nat /\ m \in 0 .. B - 1 /\ g * B + m = h * B + low
    BY <1>4, <1>5
  <2> HIDE DEF g, m
  <2>2. g * B + (m + 1) = h * B + (low + 1) /\ m + 1 \in 1 .. B /\ low + 1 \in 1 .. B
    BY <1>2, <1>3, <1>6, <2>1
  <2>3. m + 1 = low + 1
    <3> DEFINE i == m + 1
               j == low + 1
    <3>1. B \in Nat \ {0} /\ g \in Nat /\ h \in Nat /\ i \in 1 .. B /\ j \in 1 .. B /\ g * B + i = h * B + j
      BY <1>2, <1>3, <2>1, <2>2
    <3> HIDE DEF i, j
    <3>2. i = j
      BY <3>1, OneWay
    <3> QED BY <3>2 DEF i, j
  <2>4. m = low
    <3> HIDE DEF low
    <3>1. low \in Nat /\ m \in Nat
      BY <1>3, <1>6, <2>1
    <3> QED BY <2>3, <3>1
  <2> QED BY <2>4 DEF m
<1> QED BY <1>1, <1>2, <1>7 DEF B, low, q, r, d

(* The sum that puts digits together exists, and grows by a digit a step.  *)
Sums(sum, digits, base) ==
    /\ sum \in [0 .. Len(digits) -> Nat] /\ sum[0] = 0
    /\ \A i \in 1 .. Len(digits) : sum[i] = sum[i - 1] + digits[i] * Power(base, i - 1)

LEMMA JoinedSteps ==
  ASSUME NEW base \in Nat, NEW n \in Nat, NEW digits \in [1 .. n -> Nat]
  PROVE  /\ Len(digits) = n
         /\ \E sum : Sums(sum, digits, base) /\ Joined(digits, base) = sum[n]
<1> DEFINE N == Nat
           l == Len(digits)
           zero == 0
           Is(s) == s = [i \in 0 .. l |->
                            IF i = 0 THEN 0 ELSE s[i - 1] + digits[i] * Power(base, i - 1)]
           sum == CHOOSE s : Is(s)
           step == [i \in 1 .. n |-> [x \in N |-> x + digits[i] * Power(base, i - 1)]]
<1>1. l = n
  OBVIOUS
<1>2. Joined(digits, base) = sum[l]
  BY DEF Joined
<1>3. \A i \in 1 .. n : digits[i] * Power(base, i - 1) \in Nat
  <2> TAKE i \in 1 .. n
  <2>1. i - 1 \in Nat /\ digits[i] \in Nat
    OBVIOUS
  <2>2. Power(base, i - 1) \in Nat
    BY <2>1, PowerSteps
  <2> QED BY <2>1, <2>2
<1>4. PICK f : Computes(f, N, zero, n, step)
  <2>1. step \in [1 .. n -> [N -> N]] /\ zero \in N
    BY <1>3
  <2> HIDE DEF step, N, zero
  <2> QED BY <2>1, StepsExist
<1>5. Sums(f, digits, base)
  <2>1. f \in [0 .. n -> Nat] /\ f[0] = 0
    BY <1>4 DEF Computes
  <2>2. ASSUME NEW i \in 1 .. n PROVE f[i] = f[i - 1] + digits[i] * Power(base, i - 1)
    <3> HIDE DEF N, step, zero, l, sum, Is
    <3>1. i - 1 \in 0 .. n /\ i \in 1 .. n
      OBVIOUS
    <3>2. f[i - 1] \in N /\ f[i] = step[i][f[i - 1]]
      BY <1>4, <3>1 DEF Computes
    <3> QED BY <3>2 DEF step
  <2> QED BY <1>1, <2>1, <2>2 DEF Sums
<1>6. Is(f)
  <2> HIDE DEF l
  <2>1. f = [i \in 0 .. l |-> IF i = 0 THEN 0 ELSE f[i - 1] + digits[i] * Power(base, i - 1)]
    BY <1>1, <1>5 DEF Sums, l
  <2> QED BY <2>1
<1>7. Is(sum)
  BY <1>6
<1> HIDE DEF sum
<1>8. Sums(sum, digits, base)
  <2>1. \A i \in 0 .. l : sum[i] = IF i = 0 THEN 0 ELSE sum[i - 1] + digits[i] * Power(base, i - 1)
    BY <1>7
  <2> DEFINE T == {i \in 0 .. n : sum[i] \in Nat}
  <2>2. 0 \in T
    BY <1>1, <2>1
  <2>3. ASSUME NEW i \in 1 .. n, i - 1 \in T PROVE i \in T
    <3> DEFINE x == digits[i] * Power(base, i - 1)
    <3>1. i \in 0 .. l /\ i # 0 /\ x \in Nat /\ sum[i - 1] \in Nat
      BY <1>1, <1>3, <2>3
    <3>2. sum[i] = sum[i - 1] + x
      BY <2>1, <3>1
    <3> HIDE DEF x
    <3> QED BY <3>1, <3>2
  <2> HIDE DEF T
  <2>4. 0 .. n \subseteq T
    BY <2>2, <2>3, UpTo
  <2>5. \A i \in 0 .. n : sum[i] \in Nat
    BY <2>4 DEF T
  <2>6. sum = [i \in 0 .. n |-> sum[i]]
    BY <1>1, <1>7
  <2>7. sum \in [0 .. n -> Nat]
    BY <2>5, <2>6
  <2>8. sum[0] = 0 /\ \A i \in 1 .. l : sum[i] = sum[i - 1] + digits[i] * Power(base, i - 1)
    <3>1. 0 \in 0 .. l /\ \A i \in 1 .. l : i \in 0 .. l /\ i # 0
      BY <1>1
    <3> QED BY <2>1, <3>1
  <2> QED BY <1>1, <2>7, <2>8 DEF Sums
<1> QED BY <1>1, <1>2, <1>8

(* What is taken apart and put together again is what the digits hold: the  *)
(* number, as far as it fits.                                              *)
THEOREM DigitsJoin ==
  ASSUME NEW base \in Nat \ {0}, NEW v \in Nat, NEW n \in Nat
  PROVE  Joined(Digits(v, base, n), base) = v % Power(base, n)
<1> DEFINE digits == Digits(v, base, n)
<1>1. digits \in [1 .. n -> Nat] /\ \A i \in 1 .. n : digits[i] = (v \div Power(base, i - 1)) % base
  <2>1. ASSUME NEW i \in 1 .. n PROVE (v \div Power(base, i - 1)) % base \in Nat
    <3> DEFINE p == Power(base, i - 1)
    <3>1. i - 1 \in Nat
      OBVIOUS
    <3>2. p \in Nat \ {0}
      BY <3>1, PowerPositive
    <3> HIDE DEF p
    <3>3. (v \div p) % base \in 0 .. base - 1
      BY <3>2, NextDigit
    <3>4. (v \div p) % base \in Nat
      BY <3>3
    <3> QED BY <3>4 DEF p
  <2> QED BY <2>1 DEF Digits
<1> HIDE DEF digits
<1>2. Len(digits) = n
  BY <1>1, JoinedSteps
<1>3. PICK sum : Sums(sum, digits, base) /\ Joined(digits, base) = sum[n]
  BY <1>1, JoinedSteps
<1> DEFINE T == {i \in 0 .. n : sum[i] = v % Power(base, i)}
<1>4. 0 \in T
  <2>1. sum[0] = 0 /\ Power(base, 0) = 1 /\ v % 1 = 0
    BY <1>3, PowerSteps DEF Sums
  <2> QED BY <2>1
<1>5. ASSUME NEW i \in 1 .. n, i - 1 \in T PROVE i \in T
  <2> DEFINE p == Power(base, i - 1)
  <2>1. p \in Nat \ {0} /\ Power(base, i) = base * p
    <3>1. i - 1 \in Nat /\ i \in Nat \ {0}
      OBVIOUS
    <3> QED BY <3>1, PowerPositive, PowerSteps
  <2>2. sum[i] = (v % p) + ((v \div p) % base) * p
    BY <1>1, <1>2, <1>3, <1>5 DEF Sums
  <2> HIDE DEF p
  <2>3. v % (base * p) = (v % p) + ((v \div p) % base) * p
    BY <2>1, NextDigit
  <2>4. sum[i] = v % Power(base, i)
    BY <2>1, <2>2, <2>3
  <2> QED BY <2>4
<1> HIDE DEF T
<1>6. 0 .. n \subseteq T
  BY <1>4, <1>5, UpTo
<1>7. sum[n] = v % Power(base, n)
  BY <1>6 DEF T
<1> QED BY <1>3, <1>7 DEF digits

(* What is put together fits into its digits, and into less when the       *)
(* highest digit is known to be low.                                       *)
LEMMA JoinedFits ==
  ASSUME NEW base \in Nat \ {0}, NEW n \in Nat \ {0}, NEW digits \in [1 .. n -> 0 .. base - 1],
         NEW top \in Nat, digits[n] < top
  PROVE  Joined(digits, base) \in Nat /\ Joined(digits, base) < top * Power(base, n - 1)
<1>1. digits \in [1 .. n -> Nat] /\ \A i \in 1 .. n : digits[i] \in 0 .. base - 1
  OBVIOUS
<1>2. Len(digits) = n /\ n - 1 \in Nat
  BY <1>1, JoinedSteps
<1>3. PICK sum : Sums(sum, digits, base) /\ Joined(digits, base) = sum[n]
  BY <1>1, JoinedSteps
<1> DEFINE T == {i \in 0 .. n - 1 : sum[i] < Power(base, i)}
<1>4. 0 \in T
  BY <1>2, <1>3, PowerSteps DEF Sums
<1>5. ASSUME NEW i \in 1 .. n
      PROVE  /\ i - 1 \in Nat /\ Power(base, i - 1) \in Nat \ {0}
             /\ Power(base, i) = base * Power(base, i - 1)
             /\ sum[i - 1] \in Nat /\ sum[i] = sum[i - 1] + digits[i] * Power(base, i - 1)
  <2>1. i - 1 \in Nat /\ i \in Nat \ {0} /\ i - 1 \in 0 .. n
    OBVIOUS
  <2>2. sum[i - 1] \in Nat /\ sum[i] = sum[i - 1] + digits[i] * Power(base, i - 1)
    BY <1>2, <1>3, <2>1 DEF Sums
  <2>3. Power(base, i - 1) \in Nat \ {0}
    BY <2>1, PowerPositive
  <2>4. Power(base, i) = base * Power(base, i - 1)
    BY <2>1, PowerSteps
  <2> QED BY <2>1, <2>2, <2>3, <2>4
<1>6. ASSUME NEW i \in 1 .. n - 1, i - 1 \in T PROVE i \in T
  <2> DEFINE p == Power(base, i - 1)
             x == sum[i - 1]
             d == digits[i]
  <2>0. i \in 1 .. n
    OBVIOUS
  <2>2. x < p /\ d \in 0 .. base - 1
    BY <1>1, <1>6, <2>0
  <2> HIDE DEF T
  <2>1. p \in Nat \ {0} /\ Power(base, i) = base * p /\ x \in Nat /\ sum[i] = x + d * p
    BY <1>5, <2>0
  <2> HIDE DEF p, x, d
  <2>3. (d + 1) * p <= base * p /\ (d + 1) * p = d * p + p /\ d * p \in Nat /\ base * p \in Nat
    BY <2>1, <2>2
  <2>4. x + d * p < base * p
    BY <2>1, <2>2, <2>3
  <2> QED BY <2>1, <2>4 DEF T
<1>7. sum[n - 1] < Power(base, n - 1)
  <2> HIDE DEF T
  <2>1. 0 .. n - 1 \subseteq T
    BY <1>2, <1>4, <1>6, UpTo
  <2> QED BY <1>2, <2>1 DEF T
<1> DEFINE p == Power(base, n - 1)
           x == sum[n - 1]
           d == digits[n]
<1>8. p \in Nat \ {0} /\ x \in Nat /\ sum[n] = x + d * p /\ x < p /\ d \in Nat /\ d < top
  BY <1>1, <1>5, <1>7
<1> HIDE DEF p, x, d
<1>9. (d + 1) * p <= top * p /\ (d + 1) * p = d * p + p /\ d * p \in Nat /\ top * p \in Nat
  BY <1>8
<1>10. x + d * p \in Nat /\ x + d * p < top * p
  BY <1>8, <1>9
<1> QED BY <1>3, <1>8, <1>10 DEF p

-----------------------------------------------------------------------------

(* The widths: a byte has one bit more than a limb, half a word and a word *)
(* have a sign bit, a word is several halves, and a varint holds it.       *)
Even(n) == n \in Nat \ {0} /\ n \div 2 \in Nat \ {0} /\ n = 2 * (n \div 2)

LEMMA PowerEven ==
  ASSUME NEW base \in Nat \ {0}, NEW n \in Nat \ {0}
  PROVE  Even(Power(2 * base, n))
<1> DEFINE b == 2 * base
           p == Power(b, n - 1)
           k == base * p
<1>1. b \in Nat \ {0} /\ n - 1 \in Nat
  OBVIOUS
<1>2. p \in Nat \ {0} /\ Power(b, n) = b * p
  <2> HIDE DEF b
  <2> QED BY <1>1, PowerPositive, PowerSteps
<1> HIDE DEF p
<1>3. k \in Nat \ {0}
  BY <1>2
<1>4. b * p = 2 * k
  BY <1>2
<1> HIDE DEF k, b
<1>5. (2 * k) \div 2 = k
  BY <1>3
<1> QED BY <1>2, <1>3, <1>4, <1>5 DEF Even, b

LEMMA Widths ==
  /\ LIMB \in Nat \ {0, 1} /\ BYTE \in Nat /\ BYTE = 2 * LIMB
  /\ LIMBS \in Nat \ {0} /\ FIX32 \in Nat \ {0} /\ FIX64 \in Nat \ {0}
  /\ Even(HALF) /\ Even(WORD)
  /\ \E k \in Nat : k >= 4 /\ WORD = k * HALF
  /\ WORD = 2 * Power(LIMB, LIMBS - 1)
<1>1. PICK bits \in 1 .. LIMB : LIMB = Power(2, bits)
  BY WireAssumption
<1>2. LIMB \in Nat \ {0, 1}
  <2>1. bits \in Nat \ {0}
    OBVIOUS
  <2>2. 2 \in Nat \ {0} /\ 1 \in Nat \ {0} /\ 2 * 1 = 2
    OBVIOUS
  <2>3. Even(Power(2, bits))
    BY <2>1, <2>2, PowerEven
  <2> QED BY <1>1, <2>3 DEF Even
<1>3. BYTE \in Nat /\ BYTE = 2 * LIMB /\ BYTE \in Nat \ {0} /\ BYTE >= 4
  BY <1>2 DEF BYTE
<1>4. LIMBS \in Nat \ {0} /\ FIX32 \in Nat \ {0} /\ FIX64 \in Nat \ {0} /\ FIX32 < FIX64
  BY WireAssumption
<1>5. Even(HALF) /\ Even(WORD)
  <2>1. LIMB \in Nat \ {0}
    BY <1>2
  <2> QED BY <1>3, <1>4, <2>1, PowerEven DEF HALF, WORD
<1>6. \E k \in Nat : k >= 4 /\ WORD = k * HALF
  <2> DEFINE more == FIX64 - FIX32
             k == Power(BYTE, more)
             p == Power(BYTE, more - 1)
  <2>1. more \in Nat \ {0} /\ more - 1 \in Nat /\ FIX64 = more + FIX32 /\ more \in Nat
    BY <1>4
  <2> HIDE DEF more
  <2>2. WORD = k * HALF
    BY <1>3, <1>4, <2>1, PowerSum DEF HALF, WORD
  <2>3. k = BYTE * p /\ p \in Nat \ {0}
    BY <1>3, <2>1, PowerSteps, PowerPositive
  <2> HIDE DEF k, p
  <2>4. BYTE * p >= 4 /\ BYTE * p \in Nat
    BY <1>3, <2>3
  <2> QED BY <2>2, <2>3, <2>4
<1> QED BY <1>2, <1>3, <1>4, <1>5, <1>6, WireAssumption

-----------------------------------------------------------------------------

LEMMA PowerGrows ==
  ASSUME NEW base \in Nat \ {0}, NEW n \in Nat, NEW m \in Nat, m <= n
  PROVE  Power(base, m) <= Power(base, n)
<1> DEFINE p == Power(base, m)
           k == n - m
           q == Power(base, k)
<1>1. k \in Nat /\ m + k = n
  OBVIOUS
<1> HIDE DEF k
<1>2. p \in Nat \ {0} /\ q \in Nat \ {0} /\ Power(base, n) = p * q
  BY <1>1, PowerPositive, PowerSum
<1> HIDE DEF p, q
<1>3. p <= p * q
  BY <1>2
<1> QED BY <1>2, <1>3 DEF p

LEMMA RemainderOf ==
  ASSUME NEW n \in Nat \ {0}, NEW d \in 0 .. n - 1
  PROVE  d % n = d /\ (d + n) % n = d
<1>1. ASSUME NEW a \in Nat, NEW g \in Nat, a = g * n + d PROVE a % n = d
  <2> DEFINE q == a \div n
             r == a % n
  <2>1. q \in Nat /\ r \in 0 .. n - 1 /\ a = q * n + r
    BY DivMod
  <2> HIDE DEF q, r
  <2>2. q * n + (r + 1) = g * n + (d + 1) /\ r + 1 \in 1 .. n /\ d + 1 \in 1 .. n
    BY <1>1, <2>1
  <2>3. r + 1 = d + 1
    BY <2>1, <2>2, OneWay
  <2> QED BY <2>1, <2>3 DEF r
<1>2. d = 0 * n + d /\ d \in Nat /\ 0 \in Nat
  OBVIOUS
<1>3. d + n = 1 * n + d /\ d + n \in Nat /\ 1 \in Nat
  OBVIOUS
<1> QED BY <1>1, <1>2, <1>3

(* The size of a varint is in range, and the number fits into it.          *)
LEMMA VarIntSize ==
  ASSUME NEW v \in 0 .. WORD - 1
  PROVE  SizeVarInt(v) \in 1 .. LIMBS /\ v < Power(LIMB, SizeVarInt(v))
<1> DEFINE S == {n \in 1 .. LIMBS : v < Power(LIMB, n) \/ n = LIMBS}
           n == SizeVarInt(v)
<1>1. S \in SUBSET Nat /\ LIMBS \in S
  BY Widths
<1>2. n \in S
  <2> HIDE DEF S
  <2>1. Min(S) \in S
    BY <1>1, MinIsLeast
  <2> QED BY <2>1 DEF SizeVarInt, S
<1>3. v < Power(LIMB, LIMBS)
  <2> DEFINE p == Power(LIMB, LIMBS - 1)
  <2>1. LIMB \in Nat \ {0, 1} /\ LIMBS \in Nat \ {0} /\ LIMBS - 1 \in Nat /\ WORD = 2 * p
    BY Widths
  <2>2. p \in Nat \ {0} /\ Power(LIMB, LIMBS) = LIMB * p
    BY <2>1, PowerPositive, PowerSteps
  <2> HIDE DEF p
  <2>3. v \in Nat /\ v < 2 * p
    BY <2>1, <2>2
  <2>4. 2 * p <= LIMB * p
    BY <2>1, <2>2
  <2> QED BY <2>1, <2>2, <2>3, <2>4
<1> HIDE DEF n
<1> QED BY <1>2, <1>3 DEF n

(* Its bytes: the digits, all but the last one marked, and the last of the *)
(* longest one the word's highest bit.                                     *)
LEMMA VarIntBytes ==
  ASSUME NEW v \in 0 .. WORD - 1, NEW n, n = SizeVarInt(v)
  PROVE  /\ VarInt(v) \in [1 .. n -> 0 .. BYTE - 1] /\ Len(VarInt(v)) = n
         /\ \A i \in 1 .. n : /\ VarInt(v)[i] % LIMB = Digits(v, LIMB, n)[i]
                              /\ VarInt(v)[i] < LIMB <=> i = n
         /\ n = LIMBS => VarInt(v)[n] < 2
<1> DEFINE limbs == Digits(v, LIMB, n)
<1>1. n \in 1 .. LIMBS /\ v < Power(LIMB, n) /\ v \in Nat
  BY VarIntSize
<1>2. LIMB \in Nat \ {0, 1} /\ BYTE = 2 * LIMB /\ LIMBS \in Nat \ {0}
  BY Widths
<1>3. VarInt(v) = [i \in 1 .. n |-> limbs[i] + IF i < n THEN LIMB ELSE 0]
  BY DEF VarInt
<1>4. ASSUME NEW i \in 1 .. n
      PROVE  limbs[i] \in 0 .. LIMB - 1 /\ limbs[i] = (v \div Power(LIMB, i - 1)) % LIMB
  <2> DEFINE p == Power(LIMB, i - 1)
  <2>1. i - 1 \in Nat
    BY <1>1
  <2>2. p \in Nat \ {0}
    BY <1>2, <2>1, PowerPositive
  <2>3. limbs[i] = (v \div p) % LIMB
    BY DEF Digits
  <2> HIDE DEF p
  <2>4. (v \div p) % LIMB \in 0 .. LIMB - 1
    BY <1>1, <1>2, <2>2, NextDigit
  <2> QED BY <2>3, <2>4 DEF p
<1> HIDE DEF limbs
<1>5. ASSUME NEW i \in 1 .. n
      PROVE  /\ VarInt(v)[i] \in 0 .. BYTE - 1 /\ VarInt(v)[i] % LIMB = limbs[i]
             /\ VarInt(v)[i] < LIMB <=> i = n
  <2>1. CASE i < n
    <3>1. VarInt(v)[i] = limbs[i] + LIMB /\ i # n
      BY <1>3, <2>1
    <3>2. (limbs[i] + LIMB) % LIMB = limbs[i]
      BY <1>2, <1>4, RemainderOf
    <3>3. limbs[i] + LIMB \in 0 .. BYTE - 1 /\ ~(limbs[i] + LIMB < LIMB)
      BY <1>2, <1>4
    <3> QED BY <3>1, <3>2, <3>3
  <2>2. CASE i = n
    <3>1. VarInt(v)[i] = limbs[i]
      BY <1>1, <1>3, <1>4, <2>2
    <3>2. limbs[i] % LIMB = limbs[i]
      BY <1>2, <1>4, RemainderOf
    <3>3. limbs[i] \in 0 .. BYTE - 1 /\ limbs[i] < LIMB
      BY <1>2, <1>4
    <3> QED BY <2>2, <3>1, <3>2, <3>3
  <2> QED BY <1>1, <2>1, <2>2
<1>6. VarInt(v) \in [1 .. n -> 0 .. BYTE - 1] /\ Len(VarInt(v)) = n
  BY <1>1, <1>3, <1>5
<1>7. ASSUME n = LIMBS PROVE VarInt(v)[n] < 2
  <2> DEFINE p == Power(LIMB, n - 1)
             q == v \div p
  <2>1. n \in 1 .. n /\ n - 1 \in Nat
    BY <1>1
  <2>2. VarInt(v)[n] = q % LIMB
    BY <1>1, <1>2, <1>3, <1>4, <2>1
  <2>3. p \in Nat \ {0} /\ WORD = 2 * p
    BY <1>2, <1>7, <2>1, Widths, PowerPositive
  <2> HIDE DEF p
  <2>4. q \in Nat /\ v % p \in 0 .. p - 1 /\ v = q * p + (v % p)
    BY <1>1, <2>3, DivMod
  <2> DEFINE r == v % p
  <2> HIDE DEF q, r
  <2>5. q < 2
    <3>1. SUFFICES ASSUME q >= 2 PROVE FALSE
      BY <2>4
    <3>2. v < 2 * p /\ r \in Nat /\ v = q * p + r
      BY <1>1, <2>3, <2>4 DEF r
    <3>3. 2 * p <= q * p /\ q * p \in Nat
      BY <2>3, <2>4, <3>1
    <3> QED BY <1>1, <2>3, <3>2, <3>3
  <2>6. q \in 0 .. LIMB - 1
    BY <1>2, <2>4, <2>5
  <2>7. q % LIMB = q
    BY <1>2, <2>6, RemainderOf
  <2> QED BY <2>2, <2>5, <2>7
<1> QED BY <1>5, <1>6, <1>7 DEF limbs

-----------------------------------------------------------------------------

(* Bytes that stand in a buffer, at an offset that counts from 0.          *)
Stands(bytes, bs, at) ==
    /\ at + Len(bytes) <= Len(bs)
    /\ \A i \in 1 .. Len(bytes) : bs[at + i] = bytes[i]

LEMMA AtOffset ==
  ASSUME NEW bs, NEW at \in Int, NEW i \in Int
  PROVE  At(bs, at + i - 1) = bs[at + i] /\ (HasNext(bs, at, i - 1) <=> at + i - 1 < Len(bs))
<1>1. (at + i - 1) + 1 = at + i /\ at + (i - 1) = at + i - 1
  OBVIOUS
<1> QED BY <1>1 DEF At, HasNext

(* The limb that ends a varint is the first one that is not marked.        *)
LEMMA LimbsFound ==
  ASSUME NEW bs \in Seq(Byte), NEW at \in Nat
  PROVE  LET n == LimbsAt(bs, at)
         IN /\ n \in 0 .. LIMBS
            /\ n # 0 => at + n <= Len(bs) /\ bs[at + n] < LIMB
            /\ \A m \in 1 .. LIMBS :
                  at + m <= Len(bs) /\ bs[at + m] < LIMB => n # 0 /\ n <= m
<1> DEFINE ends == {i \in 1 .. LIMBS : HasNext(bs, at, i - 1) /\ At(bs, at + i - 1) < LIMB}
           n == LimbsAt(bs, at)
<1>1. LIMBS \in Nat \ {0} /\ Len(bs) \in Nat
  BY Widths
<1>2. \A i \in 1 .. LIMBS : i \in ends <=> at + i <= Len(bs) /\ bs[at + i] < LIMB
  <2> TAKE i \in 1 .. LIMBS
  <2>1. i \in Int /\ at \in Int
    OBVIOUS
  <2>2. At(bs, at + i - 1) = bs[at + i] /\ (HasNext(bs, at, i - 1) <=> at + i - 1 < Len(bs))
    BY <2>1, AtOffset
  <2>3. at + i - 1 < Len(bs) <=> at + i <= Len(bs)
    BY <1>1
  <2> QED BY <2>2, <2>3
<1>3. ends \in SUBSET Nat /\ ends \subseteq 1 .. LIMBS
  OBVIOUS
<1>4. n = IF ends = {} THEN 0 ELSE Min(ends)
  BY DEF LimbsAt
<1> HIDE DEF ends, n
<1>5. CASE ends = {}
  <2>1. n = 0 /\ n \in 0 .. LIMBS
    BY <1>1, <1>4, <1>5
  <2>2. \A m \in 1 .. LIMBS : ~(at + m <= Len(bs) /\ bs[at + m] < LIMB)
    BY <1>2, <1>5
  <2> QED BY <2>1, <2>2 DEF n
<1>6. CASE ends # {}
  <2>1. n \in ends /\ \A m \in ends : n <= m
    BY <1>3, <1>4, <1>6, MinIsLeast
  <2>2. n \in 1 .. LIMBS
    BY <1>3, <2>1
  <2>3. at + n <= Len(bs) /\ bs[at + n] < LIMB
    BY <1>2, <2>1, <2>2
  <2>4. \A m \in 1 .. LIMBS : at + m <= Len(bs) /\ bs[at + m] < LIMB => n # 0 /\ n <= m
    BY <1>2, <2>1, <2>2
  <2>5. n # 0 /\ n \in 0 .. LIMBS
    BY <2>2
  <2> QED BY <2>3, <2>4, <2>5 DEF n
<1> QED BY <1>5, <1>6

(* readVarIntAt gives back what appendVarInt wrote, wherever it stands.    *)
THEOREM VarIntsAreRead ==
  ASSUME NEW v \in 0 .. WORD - 1, NEW bs \in Seq(Byte), NEW at \in Nat,
         Stands(VarInt(v), bs, at)
  PROVE  /\ LimbsAt(bs, at) = SizeVarInt(v)
         /\ ReadVarInt(bs, at) = [value |-> v, size |-> SizeVarInt(v)]
<1> DEFINE n == SizeVarInt(v)
           bytes == VarInt(v)
           limbs == [i \in 1 .. n |-> At(bs, at + i - 1) % LIMB]
<1>1. n \in 1 .. LIMBS /\ v < Power(LIMB, n) /\ v \in Nat
  BY VarIntSize
<1>2. /\ Len(bytes) = n /\ (n = LIMBS => bytes[n] < 2)
      /\ \A i \in 1 .. n : bytes[i] % LIMB = Digits(v, LIMB, n)[i] /\ (bytes[i] < LIMB <=> i = n)
  BY VarIntBytes
<1>3. LIMB \in Nat \ {0} /\ LIMBS \in Nat \ {0} /\ Len(bs) \in Nat
  BY Widths
<1> HIDE DEF n, bytes
<1>4. at + n <= Len(bs) /\ \A i \in 1 .. n : bs[at + i] = bytes[i]
  BY <1>2 DEF Stands, bytes
<1>5. LimbsAt(bs, at) = n
  <2> DEFINE m == LimbsAt(bs, at)
  <2>1. bs[at + n] < LIMB
    BY <1>1, <1>2, <1>4
  <2>2. m \in 0 .. LIMBS /\ m # 0 /\ m <= n /\ bs[at + m] < LIMB
    BY <1>1, <1>4, <2>1, LimbsFound
  <2> HIDE DEF m
  <2>3. m \in 1 .. n
    BY <1>1, <1>3, <2>2
  <2>4. bytes[m] < LIMB
    BY <1>4, <2>2, <2>3
  <2> QED BY <1>2, <2>3, <2>4 DEF m
<1>6. \A i \in 1 .. n : At(bs, at + i - 1) = bytes[i]
  <2> TAKE i \in 1 .. n
  <2>1. i \in Int /\ at \in Int
    BY <1>1
  <2> QED BY <1>4, <2>1, AtOffset
<1>7. limbs = Digits(v, LIMB, n)
  <2>1. \A i \in 1 .. n : limbs[i] = Digits(v, LIMB, n)[i]
    BY <1>2, <1>6
  <2>2. Digits(v, LIMB, n) = [i \in 1 .. n |-> Digits(v, LIMB, n)[i]]
    BY DEF Digits
  <2>3. limbs = [i \in 1 .. n |-> limbs[i]]
    OBVIOUS
  <2> HIDE DEF limbs
  <2> QED BY <2>1, <2>2, <2>3
<1> HIDE DEF limbs
<1>8. Joined(limbs, LIMB) = v
  <2> DEFINE p == Power(LIMB, n)
  <2>1. n \in Nat /\ p \in Nat \ {0} /\ v < p
    BY <1>1, <1>3, PowerPositive
  <2>2. Joined(limbs, LIMB) = v % p
    BY <1>1, <1>3, <1>7, <2>1, DigitsJoin
  <2> HIDE DEF p
  <2>3. v \in 0 .. p - 1
    BY <1>1, <2>1
  <2>4. v % p = v
    BY <2>1, <2>3, RemainderOf
  <2> QED BY <2>2, <2>4
<1>9. ~(n = 0 \/ (n = LIMBS /\ At(bs, at + n - 1) >= 2))
  <2>1. n \in 1 .. n /\ n # 0
    BY <1>1
  <2>2. ASSUME n = LIMBS PROVE bytes[n] < 2 /\ bytes[n] \in Int
    <3>1. VarInt(v)[n] \in 0 .. BYTE - 1
      BY <2>1, VarIntBytes DEF n
    <3> QED BY <1>2, <2>2, <3>1 DEF bytes
  <2>3. ASSUME n = LIMBS PROVE ~(At(bs, at + n - 1) >= 2)
    <3>1. At(bs, at + n - 1) = bytes[n]
      BY <1>6, <2>1
    <3> QED BY <2>2, <2>3, <3>1
  <2> QED BY <2>1, <2>3
<1>10. VarIntOf(bs, at, n) = [value |-> Joined(limbs, LIMB), size |-> n]
  BY <1>9 DEF VarIntOf, limbs
<1>11. ReadVarInt(bs, at) = VarIntOf(bs, at, n)
  BY <1>5 DEF ReadVarInt
<1> QED BY <1>5, <1>8, <1>10, <1>11 DEF n

(* No bytes whatever make readVarIntAt's word overflow, and it never looks *)
(* behind the end of the buffer: it fails, or the number fits.             *)
THEOREM NoVarIntOverflows ==
  ASSUME NEW bs \in Seq(Byte), NEW at \in Nat
  PROVE  LET n == ReadVarInt(bs, at)
         IN \/ n = [value |-> 0, size |-> -1]
            \/ n.value \in 0 .. WORD - 1 /\ n.size \in 1 .. LIMBS /\ at + n.size <= Len(bs)
<1> DEFINE n == LimbsAt(bs, at)
           limbs == [i \in 1 .. n |-> At(bs, at + i - 1) % LIMB]
<1>1. LIMB \in Nat \ {0, 1} /\ LIMBS \in Nat \ {0} /\ Len(bs) \in Nat /\ BYTE = 2 * LIMB
  BY Widths
<1>2. n \in 0 .. LIMBS /\ (n # 0 => at + n <= Len(bs) /\ bs[at + n] < LIMB)
  BY LimbsFound
<1>3. ReadVarInt(bs, at) = VarIntOf(bs, at, n)
  BY DEF ReadVarInt
<1> HIDE DEF n
<1>4. CASE n = 0 \/ (n = LIMBS /\ At(bs, at + n - 1) >= 2)
  <2>1. VarIntOf(bs, at, n) = [value |-> 0, size |-> -1]
    BY <1>4 DEF VarIntOf
  <2> QED BY <1>3, <2>1
<1>5. CASE ~(n = 0 \/ (n = LIMBS /\ At(bs, at + n - 1) >= 2))
  <2>1. VarIntOf(bs, at, n) = [value |-> Joined(limbs, LIMB), size |-> n]
    BY <1>5 DEF VarIntOf
  <2>2. n \in Nat \ {0} /\ n - 1 \in Nat /\ at + n <= Len(bs) /\ n \in 1 .. n
    BY <1>1, <1>2, <1>5
  <2>3. ASSUME NEW i \in 1 .. n
        PROVE  At(bs, at + i - 1) = bs[at + i] /\ bs[at + i] \in 0 .. BYTE - 1
    <3> DEFINE j == at + i
    <3>1. i \in Int /\ at \in Int /\ j \in 1 .. Len(bs)
      BY <1>1, <2>2
    <3>2. At(bs, at + i - 1) = bs[j]
      BY <3>1, AtOffset
    <3> HIDE DEF j
    <3>3. bs[j] \in Byte
      BY <3>1
    <3> QED BY <3>2, <3>3 DEF j, Byte
  <2>4. limbs \in [1 .. n -> 0 .. LIMB - 1]
    <3>1. ASSUME NEW i \in 1 .. n PROVE At(bs, at + i - 1) % LIMB \in 0 .. LIMB - 1
      <4> DEFINE x == At(bs, at + i - 1)
      <4>1. x \in Nat
        BY <2>3, <1>1
      <4> HIDE DEF x
      <4>2. x % LIMB \in 0 .. LIMB - 1
        BY <1>1, <4>1, DivMod
      <4> QED BY <4>2 DEF x
    <3> QED BY <3>1
  <2>5. limbs[n] = bs[at + n] /\ bs[at + n] \in 0 .. LIMB - 1
    <3> DEFINE x == bs[at + n]
    <3>1. limbs[n] = At(bs, at + n - 1) % LIMB
      BY <2>2
    <3>2. At(bs, at + n - 1) = x /\ x \in 0 .. BYTE - 1 /\ x < LIMB
      BY <1>2, <2>2, <2>3
    <3> HIDE DEF limbs, x
    <3>3. x \in 0 .. LIMB - 1
      BY <1>1, <3>2
    <3>4. x % LIMB = x
      BY <1>1, <3>3, RemainderOf
    <3> QED BY <3>1, <3>2, <3>3, <3>4 DEF x
  <2> DEFINE p == Power(LIMB, n - 1)
  <2>6. p \in Nat \ {0}
    BY <1>1, <2>2, PowerPositive
  <2> HIDE DEF limbs
  <2>7. Joined(limbs, LIMB) \in 0 .. WORD - 1
    <3>1. CASE n = LIMBS
      <4>1. ~(At(bs, at + n - 1) >= 2) /\ At(bs, at + n - 1) = bs[at + n]
        BY <1>5, <2>2, <2>3, <3>1
      <4>2. limbs[n] < 2
        BY <2>5, <4>1
      <4>3. Joined(limbs, LIMB) \in Nat /\ Joined(limbs, LIMB) < 2 * p
        BY <1>1, <2>2, <2>4, <4>2, JoinedFits
      <4>4. WORD = 2 * p
        BY <3>1, Widths
      <4> HIDE DEF p
      <4> QED BY <2>6, <4>3, <4>4
    <3>2. CASE n # LIMBS
      <4> DEFINE top == Power(LIMB, LIMBS - 1)
      <4>1. limbs[n] < LIMB
        BY <1>1, <2>5
      <4>2. Joined(limbs, LIMB) \in Nat /\ Joined(limbs, LIMB) < LIMB * p
        BY <1>1, <2>2, <2>4, <4>1, JoinedFits
      <4>3. Power(LIMB, n) = LIMB * p
        BY <1>1, <2>2, PowerSteps
      <4>4. n <= LIMBS - 1 /\ LIMBS - 1 \in Nat
        BY <1>1, <1>2, <3>2
      <4>5. Power(LIMB, n) <= top /\ top \in Nat \ {0} /\ WORD = 2 * top
        BY <1>1, <2>2, <4>4, PowerGrows, PowerPositive, Widths
      <4> HIDE DEF p, top
      <4> QED BY <1>1, <2>6, <4>2, <4>3, <4>5
    <3> QED BY <3>1, <3>2
  <2>8. n \in 1 .. LIMBS
    BY <1>1, <1>2, <2>2
  <2> QED BY <1>3, <2>1, <2>2, <2>7, <2>8
<1> QED BY <1>4, <1>5

-----------------------------------------------------------------------------

(* Fixed numbers: their bytes, and that they are read as they were written. *)
LEMMA FixedBytes ==
  ASSUME NEW v \in Nat, NEW n \in Nat \ {0}
  PROVE  FixedInt(v, n) \in [1 .. n -> 0 .. BYTE - 1] /\ Len(FixedInt(v, n)) = n
<1>1. BYTE \in Nat \ {0}
  BY Widths
<1>2. ASSUME NEW i \in 1 .. n PROVE (v \div Power(BYTE, i - 1)) % BYTE \in 0 .. BYTE - 1
  <2> DEFINE p == Power(BYTE, i - 1)
  <2>1. i - 1 \in Nat
    OBVIOUS
  <2>2. p \in Nat \ {0}
    BY <1>1, <2>1, PowerPositive
  <2> HIDE DEF p
  <2>3. (v \div p) % BYTE \in 0 .. BYTE - 1
    BY <1>1, <2>2, NextDigit
  <2> QED BY <2>3 DEF p
<1>3. FixedInt(v, n) = [i \in 1 .. n |-> (v \div Power(BYTE, i - 1)) % BYTE]
  BY DEF FixedInt, Digits
<1> QED BY <1>2, <1>3

LEMMA FixedIsRead ==
  ASSUME NEW n \in Nat \ {0}, NEW v \in 0 .. Power(BYTE, n) - 1, NEW bs \in Seq(Byte),
         NEW at \in Nat, Stands(FixedInt(v, n), bs, at)
  PROVE  ReadFixed(bs, at, n) = v
<1> DEFINE bytes == FixedInt(v, n)
           p == Power(BYTE, n)
<1>1. BYTE \in Nat \ {0} /\ n \in Nat /\ v \in Nat
  BY Widths
<1>2. p \in Nat \ {0} /\ v \in 0 .. p - 1
  BY <1>1, PowerPositive
<1>3. Len(bytes) = n
  BY <1>1, FixedBytes
<1>4. bytes = Digits(v, BYTE, n)
  BY DEF FixedInt
<1> HIDE DEF bytes, p
<1>5. \A i \in 1 .. n : At(bs, at + i - 1) = bytes[i]
  <2> TAKE i \in 1 .. n
  <2>1. i \in Int /\ at \in Int
    OBVIOUS
  <2>2. bs[at + i] = bytes[i]
    BY <1>3 DEF Stands, bytes
  <2> QED BY <2>1, <2>2, AtOffset
<1>6. ReadFixed(bs, at, n) = Joined(bytes, BYTE)
  <2>1. bytes = [i \in 1 .. n |-> bytes[i]]
    BY <1>4 DEF Digits
  <2>2. bytes = [i \in 1 .. n |-> At(bs, at + i - 1)]
    BY <1>5, <2>1
  <2> QED BY <2>2 DEF ReadFixed
<1>7. Joined(bytes, BYTE) = v % p
  BY <1>1, <1>4, DigitsJoin DEF p
<1>8. v % p = v
  BY <1>2, RemainderOf
<1> QED BY <1>6, <1>7, <1>8

(* Twos complement: a signed number is a remainder that Signed turns back.  *)
LEMMA TwosComplement ==
  ASSUME NEW m, Even(m), NEW x \in SignedOf(m)
  PROVE  x % m \in 0 .. m - 1 /\ Signed(x % m, m) = x
<1> DEFINE h == m \div 2
<1>1. m \in Nat \ {0} /\ h \in Nat \ {0} /\ m = 2 * h /\ x \in -h .. h - 1
  BY DEF Even, SignedOf
<1> HIDE DEF h
<1>2. CASE x >= 0
  <2>1. x \in 0 .. m - 1 /\ x < h
    BY <1>1, <1>2
  <2>2. x % m = x
    BY <1>1, <2>1, RemainderOf
  <2> QED BY <2>1, <2>2 DEF Signed, h
<1>3. CASE x < 0
  <2> DEFINE d == x + m
  <2>1. d \in 0 .. m - 1 /\ ~(d < h) /\ d - m = x
    BY <1>1, <1>3
  <2>2. x % m = d
    BY <1>1, <1>3
  <2> HIDE DEF d
  <2> QED BY <2>1, <2>2 DEF Signed, h
<1> QED BY <1>1, <1>2, <1>3

(* A number of half the width, extended to the word, keeps its low half.   *)
LEMMA HalfOfWord ==
  ASSUME NEW x \in Int
  PROVE  (x % WORD) % HALF = x % HALF /\ x % WORD \in 0 .. WORD - 1
<1>1. PICK k \in Nat : k >= 4 /\ WORD = k * HALF
  BY Widths
<1>2. HALF \in Nat \ {0} /\ WORD \in Nat \ {0}
  BY Widths DEF Even
<1>3. x % WORD \in 0 .. WORD - 1 /\ x = (x \div WORD) * WORD + (x % WORD) /\ x \div WORD \in Int
  BY <1>2
<1> DEFINE g == x \div WORD
           w == x % WORD
           q == w \div HALF
           r == w % HALF
           a == x \div HALF
           b == x % HALF
<1>4. q \in Nat /\ r \in 0 .. HALF - 1 /\ w = q * HALF + r
  <2>1. w \in Nat
    BY <1>2, <1>3
  <2> HIDE DEF w
  <2> QED BY <1>2, <2>1, DivMod
<1>5. a \in Int /\ b \in 0 .. HALF - 1 /\ x = a * HALF + b
  BY <1>2
<1>6. g \in Int /\ x = g * WORD + w
  BY <1>3
<1> HIDE DEF g, w, q, r, a, b
<1>7. g * WORD = (g * k) * HALF
  BY <1>1, <1>2, <1>6
<1> DEFINE c == g * k + q
<1>8. c \in Int /\ c * HALF = (g * k) * HALF + q * HALF
  BY <1>2, <1>4, <1>6
<1> HIDE DEF c
<1>9. c * HALF + r = a * HALF + b
  BY <1>1, <1>2, <1>4, <1>5, <1>6, <1>7, <1>8
<1>10. r = b
  <2>1. CASE c < a
    <3>1. (c + 1) * HALF <= a * HALF /\ (c + 1) * HALF = c * HALF + HALF
      BY <1>2, <1>5, <1>8, <2>1
    <3> QED BY <1>2, <1>4, <1>5, <1>8, <1>9, <3>1
  <2>2. CASE a < c
    <3>1. (a + 1) * HALF <= c * HALF /\ (a + 1) * HALF = a * HALF + HALF
      BY <1>2, <1>5, <1>8, <2>2
    <3> QED BY <1>2, <1>4, <1>5, <1>8, <1>9, <3>1
  <2>3. CASE a = c
    BY <1>2, <1>4, <1>5, <1>8, <1>9, <2>3
  <2> QED BY <1>5, <1>8, <2>1, <2>2, <2>3
<1> QED BY <1>3, <1>10 DEF r, b, w

(* The zigzag encoding goes both ways, and stays within the word.          *)
LEMMA ZigZagBothWays ==
  ASSUME NEW m, Even(m), NEW x \in SignedOf(m)
  PROVE  UnZigZag(ZigZag(x)) = x /\ ZigZag(x) \in 0 .. m - 1
<1> DEFINE h == m \div 2
<1>1. h \in Nat \ {0} /\ m = 2 * h /\ x \in -h .. h - 1
  BY DEF Even, SignedOf
<1> HIDE DEF h
<1>2. CASE x >= 0
  <2>1. (2 * x) % 2 = 0 /\ (2 * x) \div 2 = x
    BY <1>1, <1>2
  <2>2. 2 * x \in 0 .. m - 1
    BY <1>1, <1>2
  <2> QED BY <1>2, <2>1, <2>2 DEF ZigZag, UnZigZag
<1>3. CASE x < 0
  <2> DEFINE z == -2 * x - 1
             k == -x - 1
  <2>1. k \in Nat /\ z = 2 * k + 1 /\ -k - 1 = x
    BY <1>1, <1>3
  <2>2. z \in 0 .. m - 1
    BY <1>1, <1>3
  <2> HIDE DEF z, k
  <2>3. z % 2 = 1 /\ z \div 2 = k
    BY <2>1
  <2>4. ZigZag(x) = z
    BY <1>1, <1>3 DEF ZigZag, z
  <2>5. UnZigZag(z) = -k - 1
    BY <2>3 DEF UnZigZag
  <2> QED BY <2>1, <2>2, <2>4, <2>5
<1> QED BY <1>1, <1>2, <1>3

-----------------------------------------------------------------------------

(* The number a value is written as, and that Number makes the value of it *)
(* again, type by type.                                                    *)
Coded(t, x) ==
    CASE t \in ZigZags -> ZigZag(x)
      [] t \in Fixed32s -> x % HALF
      [] OTHER -> x % WORD

LEMMA NumberBack ==
  ASSUME NEW t \in ScalarTypes, t # "bytes", NEW x \in GoValues(t)
  PROVE  /\ Number(t, Coded(t, x)) = x
         /\ Coded(t, x) \in 0 .. WORD - 1
         /\ t \in Fixed32s => Coded(t, x) \in 0 .. HALF - 1
<1>1. Even(HALF) /\ Even(WORD) /\ \E k \in Nat : k >= 4 /\ WORD = k * HALF
  BY Widths
<1>2. HALF \in Nat \ {0} /\ WORD \in Nat \ {0}
  BY <1>1 DEF Even
<1>3. 4 * HALF <= WORD /\ HALF >= 2
  <2>1. PICK k \in Nat : k >= 4 /\ WORD = k * HALF
    BY <1>1
  <2>2. 4 * HALF <= k * HALF
    BY <1>2, <2>1
  <2>3. HALF >= 2
    BY <1>1 DEF Even
  <2> QED BY <2>1, <2>2, <2>3
<1>4. CASE t \in {"int64", "sfixed64"}
  <2>1. x \in SignedOf(WORD)
    BY <1>4 DEF GoValues
  <2>2. Coded(t, x) = x % WORD /\ t \notin Fixed32s
    BY <1>4 DEF Coded, ZigZags, Fixed32s
  <2>3. Number(t, x % WORD) = Signed(x % WORD, WORD)
    BY <1>4 DEF Number
  <2> QED BY <1>1, <2>1, <2>2, <2>3, TwosComplement
<1>5. CASE t \in {"int32", "enum"}
  <2>1. x \in SignedOf(HALF) /\ x \in Int
    BY <1>5 DEF GoValues, SignedOf
  <2>2. Coded(t, x) = x % WORD /\ t \notin Fixed32s
    BY <1>5 DEF Coded, ZigZags, Fixed32s
  <2>3. Number(t, x % WORD) = Signed((x % WORD) % HALF, HALF)
    BY <1>5 DEF Number
  <2>4. (x % WORD) % HALF = x % HALF /\ x % WORD \in 0 .. WORD - 1
    BY <2>1, HalfOfWord
  <2>5. Signed(x % HALF, HALF) = x
    BY <1>1, <2>1, TwosComplement
  <2> QED BY <2>2, <2>3, <2>4, <2>5
<1>6. CASE t = "uint32"
  <2>1. x \in 0 .. HALF - 1 /\ x \in Int
    BY <1>2, <1>6 DEF GoValues
  <2>2. Coded(t, x) = x % WORD /\ t \notin Fixed32s
    BY <1>6 DEF Coded, ZigZags, Fixed32s
  <2>3. Number(t, x % WORD) = (x % WORD) % HALF
    BY <1>6 DEF Number
  <2>4. (x % WORD) % HALF = x % HALF /\ x % WORD \in 0 .. WORD - 1
    BY <2>1, HalfOfWord
  <2>5. x % HALF = x
    BY <1>2, <2>1, RemainderOf
  <2> QED BY <2>2, <2>3, <2>4, <2>5
<1>7. CASE t \in {"uint64", "fixed64"}
  <2>1. x \in 0 .. WORD - 1
    BY <1>7 DEF GoValues
  <2>2. Coded(t, x) = x % WORD /\ t \notin Fixed32s
    BY <1>7 DEF Coded, ZigZags, Fixed32s
  <2>3. Number(t, x % WORD) = x % WORD
    BY <1>7 DEF Number
  <2>4. x % WORD = x
    BY <1>2, <2>1, RemainderOf
  <2> QED BY <2>1, <2>2, <2>3, <2>4
<1>8. CASE t = "bool"
  <2>1. x \in {0, 1} /\ x \in 0 .. WORD - 1
    BY <1>2, <1>3, <1>8 DEF GoValues
  <2>2. Coded(t, x) = x % WORD /\ t \notin Fixed32s
    BY <1>8 DEF Coded, ZigZags, Fixed32s
  <2>3. Number(t, x % WORD) = IF x % WORD # 0 THEN 1 ELSE 0
    BY <1>8 DEF Number
  <2>4. x % WORD = x
    BY <1>2, <2>1, RemainderOf
  <2> QED BY <2>1, <2>2, <2>3, <2>4
<1>9. CASE t = "fixed32"
  <2>1. x \in 0 .. HALF - 1
    BY <1>9 DEF GoValues
  <2>2. Coded(t, x) = x % HALF
    BY <1>9 DEF Coded, ZigZags, Fixed32s
  <2>3. Number(t, x % HALF) = x % HALF
    BY <1>9 DEF Number
  <2>4. x % HALF = x
    BY <1>2, <2>1, RemainderOf
  <2>5. x \in 0 .. WORD - 1
    BY <1>2, <1>3, <2>1
  <2> QED BY <2>1, <2>2, <2>3, <2>4, <2>5
<1>10. CASE t = "sfixed32"
  <2>1. x \in SignedOf(HALF)
    BY <1>10 DEF GoValues
  <2>2. Coded(t, x) = x % HALF
    BY <1>10 DEF Coded, ZigZags, Fixed32s
  <2>3. Number(t, x % HALF) = Signed(x % HALF, HALF)
    BY <1>10 DEF Number
  <2>4. x % HALF \in 0 .. HALF - 1 /\ Signed(x % HALF, HALF) = x
    BY <1>1, <2>1, TwosComplement
  <2>5. x % HALF \in 0 .. WORD - 1
    BY <1>2, <1>3, <2>4
  <2> QED BY <2>2, <2>3, <2>4, <2>5
<1>11. CASE t = "sint32"
  <2>1. x \in SignedOf(HALF)
    BY <1>11 DEF GoValues
  <2>2. Coded(t, x) = ZigZag(x) /\ t \notin Fixed32s
    BY <1>11 DEF Coded, ZigZags, Fixed32s
  <2>3. Number(t, ZigZag(x)) = Signed(UnZigZag(ZigZag(x)) % HALF, HALF)
    BY <1>11 DEF Number
  <2>4. UnZigZag(ZigZag(x)) = x /\ ZigZag(x) \in 0 .. HALF - 1
    BY <1>1, <2>1, ZigZagBothWays
  <2>5. Signed(x % HALF, HALF) = x
    BY <1>1, <2>1, TwosComplement
  <2>6. ZigZag(x) \in 0 .. WORD - 1
    BY <1>2, <1>3, <2>4
  <2> QED BY <2>2, <2>3, <2>4, <2>5, <2>6
<1>12. CASE t = "sint64"
  <2>1. x \in SignedOf(WORD)
    BY <1>12 DEF GoValues
  <2>2. Coded(t, x) = ZigZag(x) /\ t \notin Fixed32s
    BY <1>12 DEF Coded, ZigZags, Fixed32s
  <2>3. Number(t, ZigZag(x)) = UnZigZag(ZigZag(x))
    BY <1>12 DEF Number
  <2>4. UnZigZag(ZigZag(x)) = x /\ ZigZag(x) \in 0 .. WORD - 1
    BY <1>1, <2>1, ZigZagBothWays
  <2> QED BY <2>2, <2>3, <2>4
<1>13. t \in {"int64", "sfixed64", "int32", "enum", "uint32", "uint64", "fixed64", "bool",
              "fixed32", "sfixed32", "sint32", "sint64"}
  BY DEF ScalarTypes, Fixed32s, Fixed64s, ZigZags
<1> QED BY <1>4, <1>5, <1>6, <1>7, <1>8, <1>9, <1>10, <1>11, <1>12, <1>13

-----------------------------------------------------------------------------

(* The four ways a value is written.                                       *)
VarInts == {"bool", "uint32", "uint64", "int32", "int64", "enum"} \cup ZigZags

LEMMA Ways ==
  ASSUME NEW t \in ScalarTypes
  PROVE  t = "bytes" \/ t \in VarInts \/ t \in Fixed32s \/ t \in Fixed64s
BY DEF ScalarTypes, VarInts

LEMMA AsVarInt ==
  ASSUME NEW t \in VarInts, NEW x
  PROVE  /\ t \in ScalarTypes /\ t # "bytes" /\ WireType(t) = VarIntType
         /\ Payload(t, x) = VarInt(Coded(t, x))
         /\ t # "bool" => PayloadSize(t, x) = SizeVarInt(Coded(t, x))
         /\ t = "bool" => PayloadSize(t, x) = 1 /\ Coded(t, x) = x % WORD
         /\ \A bs, at : Read(t, bs, at) = ReadNumber(t, ReadVarInt(bs, at))
<1>1. CASE t \in ZigZags
  BY <1>1 DEF ZigZags, ScalarTypes, Fixed32s, Fixed64s, WireType, Payload, PayloadSize, Coded, Read
<1>2. CASE t \in {"bool", "uint32", "uint64", "int32", "int64", "enum"}
  BY <1>2 DEF ZigZags, ScalarTypes, Fixed32s, Fixed64s, WireType, Payload, PayloadSize, Coded, Read
<1> QED BY <1>1, <1>2 DEF VarInts

LEMMA AsFixed32 ==
  ASSUME NEW t \in Fixed32s, NEW x
  PROVE  /\ t \in ScalarTypes /\ t # "bytes" /\ WireType(t) = Fixed32Type
         /\ Payload(t, x) = FixedInt(Coded(t, x), FIX32) /\ PayloadSize(t, x) = FIX32
         /\ \A bs, at : Read(t, bs, at) = [value |-> Number(t, ReadFixed(bs, at, FIX32)), size |-> FIX32]
BY DEF ZigZags, ScalarTypes, Fixed32s, Fixed64s, WireType, Payload, PayloadSize, Coded, Read

LEMMA AsFixed64 ==
  ASSUME NEW t \in Fixed64s, NEW x
  PROVE  /\ t \in ScalarTypes /\ t # "bytes" /\ WireType(t) = Fixed64Type
         /\ Payload(t, x) = FixedInt(Coded(t, x), FIX64) /\ PayloadSize(t, x) = FIX64
         /\ \A bs, at : Read(t, bs, at) = [value |-> Number(t, ReadFixed(bs, at, FIX64)), size |-> FIX64]
BY DEF ZigZags, ScalarTypes, Fixed32s, Fixed64s, WireType, Payload, PayloadSize, Coded, Read

LEMMA AsBytes ==
  ASSUME NEW t, t = "bytes", NEW x
  PROVE  /\ t \notin VarInts /\ t \notin Fixed32s /\ t \notin Fixed64s /\ WireType(t) = BytesType
         /\ Payload(t, x) = VarInt(Len(x)) \o x
         /\ PayloadSize(t, x) = Len(x) + SizeVarInt(Len(x))
         /\ \A bs, at : Read(t, bs, at) = BytesOf(bs, at, ReadVarInt(bs, at))
         /\ x \in GoValues(t) => x \in Seq(Byte) /\ Len(x) \in 0 .. WORD - 1
<1>1. t \notin VarInts /\ t \notin Fixed32s /\ t \notin Fixed64s /\ t \notin ZigZags /\ t # "bool"
  BY DEF VarInts, ZigZags, Fixed32s, Fixed64s
<1>2. WireType(t) = BytesType
  BY <1>1 DEF WireType
<1>3. Payload(t, x) = VarInt(Len(x)) \o x
  BY <1>1 DEF Payload
<1>4. PayloadSize(t, x) = Len(x) + SizeVarInt(Len(x))
  BY <1>1 DEF PayloadSize
<1>5. \A bs, at : Read(t, bs, at) = BytesOf(bs, at, ReadVarInt(bs, at))
  BY <1>1 DEF Read, ReadBytes
<1>6. ASSUME x \in GoValues(t) PROVE x \in Seq(Byte) /\ Len(x) \in 0 .. WORD - 1
  <2>1. GoValues(t) = {y \in Seq(Byte) : Len(y) < WORD}
    BY DEF GoValues
  <2>2. x \in Seq(Byte) /\ Len(x) < WORD /\ Len(x) \in Nat
    BY <1>6, <2>1
  <2>3. WORD \in Nat
    BY Widths DEF Even
  <2> QED BY <2>2, <2>3
<1> QED BY <1>1, <1>2, <1>3, <1>4, <1>5, <1>6

(* A number below the value of a limb takes one.                           *)
LEMMA OneLimb ==
  ASSUME NEW v \in 0 .. LIMB - 1
  PROVE  SizeVarInt(v) = 1
<1> DEFINE S == {n \in 1 .. LIMBS : v < Power(LIMB, n) \/ n = LIMBS}
<1>1. LIMB \in Nat /\ LIMBS \in Nat \ {0}
  BY Widths
<1>2. Power(LIMB, 1) = LIMB
  <2>1. 1 \in Nat \ {0} /\ 1 - 1 = 0
    OBVIOUS
  <2>2. Power(LIMB, 1) = LIMB * Power(LIMB, 1 - 1) /\ Power(LIMB, 0) = 1
    BY <1>1, <2>1, PowerSteps
  <2> QED BY <1>1, <2>1, <2>2
<1>3. 1 \in S /\ S \in SUBSET Nat /\ S \subseteq 1 .. LIMBS
  BY <1>1, <1>2
<1> HIDE DEF S
<1>4. Min(S) \in S /\ Min(S) <= 1
  BY <1>3, MinIsLeast
<1> DEFINE k == Min(S)
<1>5. k \in 1 .. LIMBS /\ k <= 1
  BY <1>3, <1>4
<1> HIDE DEF k
<1>6. k = 1
  BY <1>1, <1>5
<1> QED BY <1>6 DEF SizeVarInt, S, k

LEMMA VarIntTypes ==
  ASSUME NEW v \in 0 .. WORD - 1
  PROVE  VarInt(v) \in Seq(Byte) /\ Len(VarInt(v)) = SizeVarInt(v) /\ SizeVarInt(v) \in Nat \ {0}
<1> DEFINE n == SizeVarInt(v)
<1>1. n \in 1 .. LIMBS /\ LIMBS \in Nat
  BY VarIntSize, Widths
<1>2. n \in Nat \ {0}
  BY <1>1
<1>3. VarInt(v) \in [1 .. n -> Byte] /\ Len(VarInt(v)) = n
  BY VarIntBytes DEF Byte
<1> HIDE DEF n
<1> QED BY <1>2, <1>3 DEF n

(* What Size... says beforehand is what Append... takes, for every value   *)
(* of every type, at every boundary of the encodings: the bytes that a     *)
(* message's buffer is made with are exactly filled.                       *)
THEOREM SizesAreExact ==
  ASSUME NEW t \in ScalarTypes, NEW x \in GoValues(t)
  PROVE  /\ Payload(t, x) \in Seq(Byte)
         /\ Len(Payload(t, x)) = PayloadSize(t, x)
         /\ PayloadSize(t, x) \in Nat
<1>1. CASE t = "bytes"
  <2> DEFINE v == Len(x)
  <2>1. /\ x \in Seq(Byte) /\ v \in 0 .. WORD - 1
        /\ Payload(t, x) = VarInt(v) \o x /\ PayloadSize(t, x) = v + SizeVarInt(v)
    BY <1>1, AsBytes
  <2>2. v \in Nat
    BY <2>1
  <2> DEFINE prefix == VarInt(v)
             n == SizeVarInt(v)
  <2>3. prefix \in Seq(Byte) /\ Len(prefix) = n /\ n \in Nat
    BY <2>1, VarIntTypes
  <2> HIDE DEF prefix, n
  <2>4. prefix \o x \in Seq(Byte) /\ Len(prefix \o x) = Len(prefix) + Len(x)
    BY <2>1, <2>3, ConcatProperties
  <2> HIDE DEF v
  <2>5. Len(prefix \o x) = v + n /\ v + n \in Nat
    BY <2>2, <2>3, <2>4 DEF v
  <2> QED BY <2>1, <2>4, <2>5 DEF prefix, n
<1>2. CASE t \in VarInts
  <2> DEFINE v == Coded(t, x)
  <2>1. v \in 0 .. WORD - 1
    BY <1>2, AsVarInt, NumberBack
  <2>2. VarInt(v) \in Seq(Byte) /\ Len(VarInt(v)) = SizeVarInt(v) /\ SizeVarInt(v) \in Nat
    BY <2>1, VarIntTypes
  <2>3. Payload(t, x) = VarInt(v)
    BY <1>2, AsVarInt
  <2>4. PayloadSize(t, x) = SizeVarInt(v)
    <3>1. CASE t = "bool"
      <4>1. x \in {0, 1} /\ PayloadSize(t, x) = 1 /\ v = x % WORD
        BY <1>2, <3>1, AsVarInt DEF GoValues
      <4>2. WORD \in Nat \ {0} /\ WORD >= 2 /\ LIMB \in Nat \ {0, 1}
        BY Widths DEF Even
      <4>3. x \in 0 .. WORD - 1 /\ x \in 0 .. LIMB - 1
        BY <4>1, <4>2
      <4>4. x % WORD = x
        BY <4>2, <4>3, RemainderOf
      <4>5. SizeVarInt(x) = 1
        BY <4>3, OneLimb
      <4> QED BY <4>1, <4>4, <4>5
    <3>2. CASE t # "bool"
      BY <1>2, <3>2, AsVarInt
    <3> QED BY <3>1, <3>2
  <2> QED BY <2>2, <2>3, <2>4
<1>3. ASSUME NEW v \in Nat, NEW n \in Nat \ {0}
      PROVE  FixedInt(v, n) \in Seq(Byte) /\ Len(FixedInt(v, n)) = n
  <2>1. FixedInt(v, n) \in [1 .. n -> Byte] /\ Len(FixedInt(v, n)) = n
    BY FixedBytes DEF Byte
  <2> QED BY <2>1
<1>4. CASE t \in Fixed32s
  <2> DEFINE v == Coded(t, x)
  <2>1. v \in Nat /\ FIX32 \in Nat \ {0}
    BY <1>4, AsFixed32, NumberBack, Widths
  <2>2. FixedInt(v, FIX32) \in Seq(Byte) /\ Len(FixedInt(v, FIX32)) = FIX32
    BY <1>3, <2>1
  <2>3. Payload(t, x) = FixedInt(v, FIX32) /\ PayloadSize(t, x) = FIX32
    BY <1>4, AsFixed32
  <2> QED BY <2>1, <2>2, <2>3
<1>5. CASE t \in Fixed64s
  <2> DEFINE v == Coded(t, x)
  <2>1. v \in Nat /\ FIX64 \in Nat \ {0}
    BY <1>5, AsFixed64, NumberBack, Widths
  <2>2. FixedInt(v, FIX64) \in Seq(Byte) /\ Len(FixedInt(v, FIX64)) = FIX64
    BY <1>3, <2>1
  <2>3. Payload(t, x) = FixedInt(v, FIX64) /\ PayloadSize(t, x) = FIX64
    BY <1>5, AsFixed64
  <2> QED BY <2>1, <2>2, <2>3
<1> QED BY <1>1, <1>2, <1>4, <1>5, Ways

(* The parts of what stands in a buffer stand there too.                   *)
LEMMA PartsStand ==
  ASSUME NEW S, NEW a \in Seq(S), NEW b \in Seq(S), NEW bs \in Seq(S), NEW at \in Nat,
         Stands(a \o b, bs, at)
  PROVE  Stands(a, bs, at) /\ Stands(b, bs, at + Len(a))
<1> DEFINE m == Len(a)
           n == Len(b)
           both == a \o b
<1>1. m \in Nat /\ n \in Nat /\ Len(bs) \in Nat
  OBVIOUS
<1>2. /\ Len(both) = m + n
      /\ \A i \in 1 .. m + n : both[i] = IF i <= m THEN a[i] ELSE b[i - m]
  OBVIOUS
<1> HIDE DEF both, m, n
<1>3. at + (m + n) <= Len(bs) /\ \A i \in 1 .. m + n : bs[at + i] = both[i]
  BY <1>2 DEF Stands, both
<1>4. at + m <= Len(bs) /\ (at + m) + n <= Len(bs)
  BY <1>1, <1>3
<1>5. \A i \in 1 .. m : bs[at + i] = a[i]
  BY <1>1, <1>2, <1>3
<1>6. ASSUME NEW i \in 1 .. n PROVE bs[(at + m) + i] = b[i]
  <2>1. m + i \in 1 .. m + n /\ ~(m + i <= m) /\ (m + i) - m = i /\ at + (m + i) = (at + m) + i
    BY <1>1
  <2>2. both[m + i] = b[i]
    BY <1>2, <2>1
  <2>3. bs[at + (m + i)] = both[m + i]
    BY <1>3, <2>1
  <2> QED BY <2>1, <2>2, <2>3
<1> QED BY <1>4, <1>5, <1>6 DEF Stands, m, n

(* What Read... and SizedRead... give back is what Append... was given, of *)
(* whatever type it is and wherever it stands in a buffer.                 *)
THEOREM ReadsWhatWasAppended ==
  ASSUME NEW t \in ScalarTypes, NEW x \in GoValues(t), NEW bs \in Seq(Byte), NEW at \in Nat,
         Stands(Payload(t, x), bs, at)
  PROVE  Read(t, bs, at) = [value |-> x, size |-> PayloadSize(t, x)]
<1>1. CASE t = "bytes"
  <2> DEFINE v == Len(x)
             n == SizeVarInt(v)
             prefix == VarInt(v)
  <2>1. /\ x \in Seq(Byte) /\ v \in 0 .. WORD - 1
        /\ Payload(t, x) = prefix \o x /\ PayloadSize(t, x) = v + n
        /\ Read(t, bs, at) = BytesOf(bs, at, ReadVarInt(bs, at))
    BY <1>1, AsBytes
  <2>2. v \in Nat /\ Len(bs) \in Nat
    BY <2>1
  <2>3. prefix \in Seq(Byte) /\ Len(prefix) = n /\ n \in Nat
    BY <2>1, VarIntTypes
  <2>4. Stands(prefix, bs, at) /\ Stands(x, bs, at + Len(prefix))
    <3>1. Stands(prefix \o x, bs, at)
      BY <2>1
    <3> HIDE DEF prefix
    <3> QED BY <2>1, <2>3, <3>1, PartsStand
  <2>5. ReadVarInt(bs, at) = [value |-> v, size |-> n]
    BY <2>1, <2>4, VarIntsAreRead
  <2> HIDE DEF prefix, n
  <2> DEFINE from == at + n + 1
             to == at + n + v
             part == SubSeq(bs, from, to)
  <2>6. Read(t, bs, at) = [value |-> part, size |-> n + v]
    BY <2>1, <2>5 DEF BytesOf
  <2>7. /\ (at + n) + v <= Len(bs)
        /\ \A i \in 1 .. v : bs[(at + n) + i] = x[i]
    BY <2>3, <2>4 DEF Stands
  <2>8. part = x
    <3>1. x = [i \in 1 .. v |-> x[i]]
      BY <2>1
    <3> HIDE DEF v
    <3>2. part = [i \in 1 .. v |-> bs[(at + n) + i]]
      <4>1. from \in 1 .. Len(bs) + 1 /\ to \in from - 1 .. Len(bs)
        BY <2>2, <2>3, <2>7
      <4>2. to - from + 1 = v /\ \A i \in 1 .. v : from + i - 1 = (at + n) + i
        BY <2>2, <2>3
      <4> HIDE DEF from, to
      <4>3. part = [i \in 1 .. to - from + 1 |-> bs[from + i - 1]]
        BY <4>1
      <4> HIDE DEF part
      <4> QED BY <4>2, <4>3
    <3> QED BY <2>7, <3>1, <3>2
  <2>9. n + v = v + n
    BY <2>2, <2>3
  <2> QED BY <2>1, <2>6, <2>8, <2>9
<1>2. CASE t \in VarInts
  <2> DEFINE v == Coded(t, x)
             n == SizeVarInt(v)
  <2>1. v \in 0 .. WORD - 1 /\ Number(t, v) = x
    BY <1>2, AsVarInt, NumberBack
  <2>2. Stands(VarInt(v), bs, at)
    BY <1>2, AsVarInt
  <2>3. ReadVarInt(bs, at) = [value |-> v, size |-> n]
    BY <2>1, <2>2, VarIntsAreRead
  <2>4. PayloadSize(t, x) = n
    <3>1. Len(Payload(t, x)) = PayloadSize(t, x) /\ Payload(t, x) = VarInt(v)
      BY <1>2, AsVarInt, SizesAreExact
    <3> QED BY <2>1, <3>1, VarIntTypes
  <2>5. Read(t, bs, at) = ReadNumber(t, ReadVarInt(bs, at))
    BY <1>2, AsVarInt
  <2> HIDE DEF v, n
  <2>6. ReadNumber(t, [value |-> v, size |-> n]) = [value |-> Number(t, v), size |-> n]
    BY DEF ReadNumber
  <2> QED BY <2>1, <2>3, <2>4, <2>5, <2>6
<1>3. CASE t \in Fixed32s
  <2> DEFINE v == Coded(t, x)
  <2>1. v \in 0 .. Power(BYTE, FIX32) - 1 /\ Number(t, v) = x
    BY <1>3, AsFixed32, NumberBack DEF HALF
  <2>2. Stands(FixedInt(v, FIX32), bs, at)
    BY <1>3, AsFixed32
  <2>3. FIX32 \in Nat \ {0}
    BY Widths
  <2>4. ReadFixed(bs, at, FIX32) = v
    BY <2>1, <2>2, <2>3, FixedIsRead
  <2> QED BY <1>3, <2>1, <2>4, AsFixed32
<1>4. CASE t \in Fixed64s
  <2> DEFINE v == Coded(t, x)
  <2>1. v \in 0 .. Power(BYTE, FIX64) - 1 /\ Number(t, v) = x
    BY <1>4, AsFixed64, NumberBack DEF WORD
  <2>2. Stands(FixedInt(v, FIX64), bs, at)
    BY <1>4, AsFixed64
  <2>3. FIX64 \in Nat \ {0}
    BY Widths
  <2>4. ReadFixed(bs, at, FIX64) = v
    BY <2>1, <2>2, <2>3, FixedIsRead
  <2> QED BY <1>4, <2>1, <2>4, AsFixed64
<1> QED BY <1>1, <1>2, <1>3, <1>4, Ways

(* SkipData lands exactly behind a value of whatever type, so that a       *)
(* program that does not know a field goes on where the next one starts.   *)
THEOREM SkipLandsBehind ==
  ASSUME NEW t \in ScalarTypes, NEW x \in GoValues(t), NEW bs \in Seq(Byte), NEW at \in Nat,
         Stands(Payload(t, x), bs, at)
  PROVE  Skip(bs, at, WireType(t)) = at + PayloadSize(t, x)
<1> USE DEF VarIntType, Fixed64Type, BytesType, StartGroupType, Fixed32Type
<1>1. ASSUME WireType(t) # StartGroupType
      PROVE  Skip(bs, at, WireType(t)) = SkipValue(bs, at, WireType(t))
  BY <1>1 DEF Skip
<1>2. CASE t = "bytes"
  <2> DEFINE v == Len(x)
             n == SizeVarInt(v)
             prefix == VarInt(v)
  <2>1. /\ x \in Seq(Byte) /\ v \in 0 .. WORD - 1 /\ WireType(t) = BytesType
        /\ Payload(t, x) = prefix \o x /\ PayloadSize(t, x) = v + n
    BY <1>2, AsBytes
  <2>2. prefix \in Seq(Byte) /\ Len(prefix) = n /\ n \in Nat /\ v \in Nat
    BY <2>1, VarIntTypes
  <2>3. Stands(prefix, bs, at)
    <3>1. Stands(prefix \o x, bs, at)
      BY <2>1
    <3> HIDE DEF prefix
    <3> QED BY <2>1, <2>2, <3>1, PartsStand
  <2>4. ReadVarInt(bs, at) = [value |-> v, size |-> n]
    BY <2>1, <2>3, VarIntsAreRead
  <2> HIDE DEF prefix, n, v
  <2>5. SkipValue(bs, at, BytesType) = Behind(at, ReadVarInt(bs, at))
    BY DEF SkipValue
  <2>6. Behind(at, [value |-> v, size |-> n]) = at + n + v
    BY <2>2 DEF Behind
  <2>7. at + n + v = at + (v + n)
    BY <2>2
  <2>8. WireType(t) # StartGroupType
    BY <2>1
  <2> QED BY <1>1, <2>1, <2>4, <2>5, <2>6, <2>7, <2>8
<1>3. CASE t \in VarInts
  <2> DEFINE v == Coded(t, x)
             n == SizeVarInt(v)
  <2>1. v \in 0 .. WORD - 1
    BY <1>3, AsVarInt, NumberBack
  <2>2. Stands(VarInt(v), bs, at) /\ WireType(t) = VarIntType
    BY <1>3, AsVarInt
  <2>3. LimbsAt(bs, at) = n /\ n \in Nat \ {0}
    BY <2>1, <2>2, VarIntsAreRead, VarIntTypes
  <2>4. PayloadSize(t, x) = n
    <3>1. Len(Payload(t, x)) = PayloadSize(t, x) /\ Payload(t, x) = VarInt(v)
      BY <1>3, AsVarInt, SizesAreExact
    <3> QED BY <2>1, <3>1, VarIntTypes
  <2> HIDE DEF v, n
  <2>5. SkipValue(bs, at, VarIntType) = AfterVarInt(bs, at, LimbsAt(bs, at))
    BY DEF SkipValue
  <2>6. AfterVarInt(bs, at, n) = at + n
    BY <2>3 DEF AfterVarInt
  <2>7. WireType(t) # StartGroupType
    BY <2>2
  <2> QED BY <1>1, <2>2, <2>3, <2>4, <2>5, <2>6, <2>7
<1>4. CASE t \in Fixed32s
  <2>1. WireType(t) = Fixed32Type /\ PayloadSize(t, x) = FIX32
    BY <1>4, AsFixed32
  <2>2. SkipValue(bs, at, Fixed32Type) = at + FIX32
    BY DEF SkipValue
  <2> QED BY <1>1, <2>1, <2>2
<1>5. CASE t \in Fixed64s
  <2>1. WireType(t) = Fixed64Type /\ PayloadSize(t, x) = FIX64
    BY <1>5, AsFixed64
  <2>2. SkipValue(bs, at, Fixed64Type) = at + FIX64
    BY DEF SkipValue
  <2> QED BY <1>1, <2>1, <2>2
<1> QED BY <1>2, <1>3, <1>4, <1>5, Ways

-----------------------------------------------------------------------------

(* A limb has some number of bits, so that a power of it below 8 is a      *)
(* power of two, and any other is a multiple of 8.                         *)
LEMMA LimbsHaveBits ==
  ASSUME NEW m \in Nat
  PROVE  \E bits \in Nat : Power(LIMB, m) = Power(2, bits)
<1>1. PICK b \in 1 .. LIMB : LIMB = Power(2, b)
  BY WireAssumption
<1>2. LIMB \in Nat /\ b \in Nat /\ 2 \in Nat \ {0}
  BY Widths
<1> DEFINE T == {i \in 0 .. m : \E bits \in Nat : Power(LIMB, i) = Power(2, bits)}
<1>3. 0 \in T
  <2>1. Power(LIMB, 0) = 1 /\ Power(2, 0) = 1 /\ 0 \in 0 .. m
    BY <1>2, PowerSteps
  <2> QED BY <2>1
<1>4. ASSUME NEW i \in 1 .. m, i - 1 \in T PROVE i \in T
  <2>1. PICK g \in Nat : Power(LIMB, i - 1) = Power(2, g)
    BY <1>4
  <2>2. i \in Nat \ {0} /\ i \in 0 .. m
    OBVIOUS
  <2>3. Power(LIMB, i) = LIMB * Power(LIMB, i - 1)
    BY <1>2, <2>2, PowerSteps
  <2>4. Power(2, b + g) = Power(2, b) * Power(2, g) /\ b + g \in Nat
    BY <1>2, PowerSum
  <2>5. Power(LIMB, i) = Power(2, b + g)
    BY <1>1, <2>1, <2>3, <2>4
  <2> QED BY <2>2, <2>4, <2>5
<1> HIDE DEF T
<1>5. 0 .. m \subseteq T
  BY <1>3, <1>4, UpTo
<1>6. m \in T
  BY <1>5
<1> QED BY <1>6 DEF T

LEMMA EightsOrLess ==
  ASSUME NEW bits \in Nat
  PROVE  Power(2, bits) \in Nat /\ (Power(2, bits) < 8 \/ \E k \in Nat : Power(2, bits) = 8 * k)
<1>1. Power(2, 0) = 1 /\ Power(2, 1) = 2 /\ Power(2, 2) = 4 /\ Power(2, 3) = 8
  <2>1. /\ 2 \in Nat /\ 1 \in Nat \ {0} /\ 2 \in Nat \ {0} /\ 3 \in Nat \ {0}
        /\ 1 - 1 = 0 /\ 2 - 1 = 1 /\ 3 - 1 = 2
    OBVIOUS
  <2>2. Power(2, 0) = 1 /\ \A n \in Nat \ {0} : Power(2, n) = 2 * Power(2, n - 1)
    BY <2>1, PowerSteps
  <2>3. Power(2, 1) = 2 * Power(2, 0)
    BY <2>1, <2>2
  <2>4. Power(2, 2) = 2 * Power(2, 1)
    BY <2>1, <2>2
  <2>5. Power(2, 3) = 2 * Power(2, 2)
    BY <2>1, <2>2
  <2> QED BY <2>2, <2>3, <2>4, <2>5
<1>2. Power(2, bits) \in Nat
  BY PowerSteps
<1>3. CASE bits < 3
  <2>1. bits = 0 \/ bits = 1 \/ bits = 2
    BY <1>3
  <2> QED BY <1>1, <1>2, <2>1
<1>4. CASE bits >= 3
  <2> DEFINE g == bits - 3
             k == Power(2, g)
  <2>1. g \in Nat /\ bits = 3 + g
    BY <1>4
  <2> HIDE DEF g
  <2>2. k \in Nat /\ Power(2, 3 + g) = Power(2, 3) * k
    <3>1. 2 \in Nat \ {0} /\ 3 \in Nat
      OBVIOUS
    <3> QED BY <2>1, <3>1, PowerSum, PowerSteps
  <2> QED BY <1>1, <1>2, <2>1, <2>2
<1> QED BY <1>3, <1>4

(* What a tag holds.                                                       *)
TagValue(number, type) == number * 8 + type

LEMMA TagFits ==
  ASSUME NEW number \in FieldNumbers, NEW type \in 0 .. 7
  PROVE  /\ TagValue(number, type) \in 0 .. WORD - 1
         /\ TagValue(number, type) \div 8 = number /\ TagValue(number, type) % 8 = type
<1> DEFINE h == HALF \div 2
<1>1. h \in Nat \ {0} /\ HALF = 2 * h /\ HALF \in Nat
  BY Widths DEF Even
<1>2. PICK k \in Nat : k >= 4 /\ WORD = k * HALF
  BY Widths
<1>3. 4 * HALF <= k * HALF
  BY <1>1, <1>2
<1>4. number \in 1 .. h - 1
  BY DEF FieldNumbers
<1> HIDE DEF h
<1>5. number * 8 + type \in 0 .. WORD - 1
  BY <1>1, <1>2, <1>3, <1>4
<1>6. (number * 8 + type) \div 8 = number /\ (number * 8 + type) % 8 = type
  BY <1>1, <1>4
<1> QED BY <1>5, <1>6 DEF TagValue

(* SizeTag may leave the wire type out: no power of a limb lies between    *)
(* the tags of one field.                                                  *)
THEOREM TagSizeIsExact ==
  ASSUME NEW number \in FieldNumbers, NEW type \in 0 .. 7
  PROVE  SizeVarInt(TagValue(number, type)) = SizeTag(number)
<1> DEFINE v == TagValue(number, type)
           w == number * 8
<1>1. ASSUME NEW m \in 1 .. LIMBS PROVE v < Power(LIMB, m) <=> w < Power(LIMB, m)
  <2>1. m \in Nat /\ number \in Nat \ {0}
    BY Widths DEF FieldNumbers, Even
  <2>2. PICK bits \in Nat : Power(LIMB, m) = Power(2, bits)
    BY <2>1, LimbsHaveBits
  <2> DEFINE p == Power(LIMB, m)
  <2>3. p \in Nat /\ (p < 8 \/ \E k \in Nat : p = 8 * k)
    BY <2>2, EightsOrLess
  <2> HIDE DEF p
  <2>4. CASE p < 8
    BY <2>1, <2>3, <2>4 DEF TagValue, p
  <2>5. CASE \E k \in Nat : p = 8 * k
    <3>1. PICK k \in Nat : p = 8 * k
      BY <2>5
    <3>2. number * 8 < 8 * k <=> number * 8 + type < 8 * k
      BY <2>1
    <3> QED BY <3>1, <3>2 DEF TagValue, p
  <2> QED BY <2>3, <2>4, <2>5
<1> HIDE DEF v, w
<1>2. {m \in 1 .. LIMBS : v < Power(LIMB, m) \/ m = LIMBS}
        = {m \in 1 .. LIMBS : w < Power(LIMB, m) \/ m = LIMBS}
  BY <1>1
<1>3. SizeVarInt(v) = SizeVarInt(w)
  BY <1>2 DEF SizeVarInt
<1> QED BY <1>3 DEF SizeTag, v, w

(* A tag is read wherever it stands.                                       *)
LEMMA TagIsRead ==
  ASSUME NEW number \in FieldNumbers, NEW type \in 0 .. 7
  PROVE  /\ Tag(number, type) \in Seq(Byte) /\ Len(Tag(number, type)) = SizeTag(number)
         /\ SizeTag(number) \in Nat \ {0}
         /\ \A bs \in Seq(Byte), at \in Nat :
               Stands(Tag(number, type), bs, at) =>
                  ReadTag(bs, at) = [number |-> number, type |-> type, size |-> SizeTag(number)]
<1> DEFINE v == TagValue(number, type)
           n == SizeTag(number)
           front == Tag(number, type)
<1>1. v \in 0 .. WORD - 1 /\ v \div 8 = number /\ v % 8 = type /\ SizeVarInt(v) = n
  BY TagFits, TagSizeIsExact
<1>2. front = VarInt(v)
  BY DEF Tag, TagValue
<1>3. front \in Seq(Byte) /\ Len(front) = n /\ n \in Nat \ {0}
  BY <1>1, <1>2, VarIntTypes
<1> HIDE DEF front, v, n
<1>4. ASSUME NEW bs \in Seq(Byte), NEW at \in Nat, Stands(front, bs, at)
      PROVE  ReadTag(bs, at) = [number |-> number, type |-> type, size |-> n]
  <2>1. ReadVarInt(bs, at) = [value |-> v, size |-> n]
    BY <1>1, <1>2, <1>4, VarIntsAreRead
  <2>2. ~(n < 0) /\ ~(number > (HALF \div 2) - 1)
    <3>1. number <= (HALF \div 2) - 1 /\ HALF \div 2 \in Nat /\ number \in Nat
      BY Widths DEF FieldNumbers, Even
    <3> QED BY <1>3, <3>1
  <2>3. TagOf([value |-> v, size |-> n]) = [number |-> number, type |-> type, size |-> n]
    BY <1>1, <2>2 DEF TagOf
  <2> QED BY <2>1, <2>3 DEF ReadTag
<1> QED BY <1>3, <1>4 DEF front, n

(* A field as a whole, its tag and its value, wherever it stands: the size *)
(* computed beforehand is what it takes, the tag tells its number and its  *)
(* wire type, the value behind it is read back, and who skips it is where  *)
(* the next field starts.                                                  *)
FieldOf(number, t, x) == Tag(number, WireType(t)) \o Payload(t, x)

THEOREM FieldIsRead ==
  ASSUME NEW number \in FieldNumbers, NEW t \in ScalarTypes, NEW x \in GoValues(t),
         NEW bs \in Seq(Byte), NEW at \in Nat, Stands(FieldOf(number, t, x), bs, at)
  PROVE  LET tag == ReadTag(bs, at)
         IN /\ Len(FieldOf(number, t, x)) = SizeTag(number) + PayloadSize(t, x)
            /\ tag = [number |-> number, type |-> WireType(t), size |-> SizeTag(number)]
            /\ Read(t, bs, at + tag.size) = [value |-> x, size |-> PayloadSize(t, x)]
            /\ Skip(bs, at + tag.size, tag.type) = at + Len(FieldOf(number, t, x))
<1> DEFINE type == WireType(t)
           n == SizeTag(number)
           front == Tag(number, type)
           back == Payload(t, x)
<1>1. type \in 0 .. 7
  BY DEF WireType, Fixed32Type, Fixed64Type, BytesType, VarIntType
<1>4. front \in Seq(Byte) /\ Len(front) = n /\ n \in Nat
  BY <1>1, TagIsRead
<1>5. back \in Seq(Byte) /\ Len(back) = PayloadSize(t, x) /\ PayloadSize(t, x) \in Nat
  BY SizesAreExact
<1>6. FieldOf(number, t, x) = front \o back
  BY DEF FieldOf
<1> HIDE DEF front, back, n, type
<1>7. Len(front \o back) = n + PayloadSize(t, x)
  BY <1>4, <1>5, ConcatProperties
<1>8. Stands(front, bs, at) /\ Stands(back, bs, at + n)
  BY <1>4, <1>5, <1>6, PartsStand
<1>9. ReadTag(bs, at) = [number |-> number, type |-> type, size |-> n]
  BY <1>1, <1>8, TagIsRead DEF front, n
<1>10. at + n \in Nat
  BY <1>4
<1>11. Read(t, bs, at + n) = [value |-> x, size |-> PayloadSize(t, x)]
  BY <1>8, <1>10, ReadsWhatWasAppended DEF back
<1>12. Skip(bs, at + n, type) = (at + n) + PayloadSize(t, x)
  BY <1>8, <1>10, SkipLandsBehind DEF back, type
<1>13. (at + n) + PayloadSize(t, x) = at + (n + PayloadSize(t, x))
  BY <1>4, <1>5
<1> QED BY <1>6, <1>7, <1>9, <1>11, <1>12, <1>13 DEF n, type

-----------------------------------------------------------------------------

(***************************************************************************)
(* Sizes.  Those of the messages are the function their definition         *)
(* chooses, which exists as a message is deeper than those within it.      *)
(***************************************************************************)

LEMMA SeqFacts ==
  ASSUME NEW x, IsSeq(x)
  PROVE  /\ Len(x) \in Nat /\ DOMAIN x = 1 .. Len(x)
         /\ \A S : (\A i \in DOMAIN x : x[i] \in S) => x \in Seq(S)
<1>1. x \in Seq(Range(x))
  BY DEF IsSeq
<1> DEFINE R == Range(x)
<1> HIDE DEF R
<1>2. x \in Seq(R)
  BY <1>1 DEF R
<1>3. Len(x) \in Nat /\ DOMAIN x = 1 .. Len(x) /\ x \in [1 .. Len(x) -> R]
  BY <1>2
<1>4. ASSUME NEW S, \A i \in DOMAIN x : x[i] \in S PROVE x \in Seq(S)
  <2>1. x \in [1 .. Len(x) -> S]
    BY <1>3, <1>4
  <2> QED BY <1>3, <2>1
<1> QED BY <1>3, <1>4

LEMMA TypeFacts ==
  ASSUME NEW type \in Types
  PROVE  /\ Depth[type] \in Nat /\ IsSeq(Fields[type])
         /\ \A i \in DOMAIN Fields[type] :
               LET f == Fields[type][i]
               IN Declared(f, Depth[type]) /\ f.number \in Numbers(type) /\ Field(type, f.number) = f
<1> DEFINE fields == Fields[type]
<1>1. /\ Depth[type] \in Nat /\ IsSeq(fields)
      /\ \A i, j \in DOMAIN fields : fields[i].number = fields[j].number => i = j
      /\ \A i \in DOMAIN fields : Declared(fields[i], Depth[type])
  BY MessageAssumption
<1>2. ASSUME NEW i \in DOMAIN fields
      PROVE  fields[i].number \in Numbers(type) /\ Field(type, fields[i].number) = fields[i]
  <2> DEFINE j == CHOOSE j \in DOMAIN fields : fields[j].number = fields[i].number
  <2>1. j \in DOMAIN fields /\ fields[j].number = fields[i].number
    OBVIOUS
  <2>2. j = i
    BY <1>1, <2>1
  <2>3. Field(type, fields[i].number) = fields[j]
    BY DEF Field
  <2> QED BY <2>2, <2>3 DEF Numbers
<1> QED BY <1>1, <1>2

LEMMA SizeVarIntIsNat ==
  ASSUME NEW v
  PROVE  SizeVarInt(v) \in Nat
<1> DEFINE S == {n \in 1 .. LIMBS : v < Power(LIMB, n) \/ n = LIMBS}
<1>1. LIMBS \in S /\ S \in SUBSET Nat
  BY Widths
<1> HIDE DEF S
<1>2. Min(S) \in S
  BY <1>1, MinIsLeast
<1> QED BY <1>1, <1>2 DEF SizeVarInt, S

(* What is known of the messages that are not as deep.                     *)
SizesBelow(sizes, d) == \A s \in Messages : Depth[s.of] < d => sizes[s] \in Nat
AgreeBelow(g, h, d) == \A s \in Messages : Depth[s.of] < d => g[s] = h[s]
Shallow(f, d) == Scalar(f) \/ Depth[f.of] < d

LEMMA SizeOneIsNat ==
  ASSUME NEW f, NEW x, NEW d, Shallow(f, d), Holds(f, x), NEW sizes, SizesBelow(sizes, d)
  PROVE  SizeOne(sizes, f, x) \in Nat
<1>1. SizeTag(f.number) \in Nat
  BY SizeVarIntIsNat DEF SizeTag
<1>2. CASE Scalar(f)
  <2>1. f.of \in ScalarTypes /\ x \in GoValues(f.of)
    BY <1>2 DEF Scalar, Holds
  <2>2. PayloadSize(f.of, x) \in Nat
    BY <2>1, SizesAreExact
  <2> QED BY <1>1, <1>2, <2>2 DEF SizeOne
<1>3. CASE ~Scalar(f)
  <2> DEFINE s == MessageOf(f.of, x)
  <2>1. s \in Messages /\ s.of = f.of
    BY <1>3 DEF Holds, MessageOf
  <2>2. sizes[s] \in Nat
    BY <1>3, <2>1 DEF Shallow, SizesBelow
  <2>3. SizeVarInt(sizes[s]) \in Nat
    BY SizeVarIntIsNat
  <2> QED BY <1>1, <1>3, <2>2, <2>3 DEF SizeOne, Prefixed
<1> QED BY <1>2, <1>3

LEMMA SizeOneAgrees ==
  ASSUME NEW f, NEW x, NEW d, Shallow(f, d), Holds(f, x), NEW g, NEW h, AgreeBelow(g, h, d)
  PROVE  SizeOne(g, f, x) = SizeOne(h, f, x)
<1>1. CASE Scalar(f)
  BY <1>1 DEF SizeOne
<1>2. CASE ~Scalar(f)
  <2>1. MessageOf(f.of, x) \in Messages /\ MessageOf(f.of, x).of = f.of
    BY <1>2 DEF Holds, MessageOf
  <2>2. g[MessageOf(f.of, x)] = h[MessageOf(f.of, x)]
    BY <1>2, <2>1 DEF Shallow, AgreeBelow
  <2> QED BY <1>2, <2>2 DEF SizeOne
<1> QED BY <1>1, <1>2

(* The key and the value of a map's entry are fields too.                  *)
LEMMA EntryFacts ==
  ASSUME NEW f, NEW d, Declared(f, d), f.shape = "map", NEW x, HoldsAll(f, x), NEW k \in DOMAIN x
  PROVE  /\ Shallow(KeyField(f), d) /\ Holds(KeyField(f), k) /\ Scalar(KeyField(f))
         /\ Shallow(ValueField(f), d) /\ Holds(ValueField(f), x[k])
         /\ IsFiniteSet(DOMAIN x)
<1>1. f.key \in ScalarTypes /\ Shallow(f, d)
  BY DEF Declared, Shallow
<1>2. IsFiniteSet(DOMAIN x) /\ k \in GoValues(f.key) /\ Holds(f, x[k])
  BY DEF HoldsAll
<1>3. KeyField(f).of = f.key /\ ValueField(f).of = f.of
  BY DEF KeyField, ValueField
<1> QED BY <1>1, <1>2, <1>3 DEF Shallow, Scalar, Holds

(* The shapes, one by one.                                                 *)
LEMMA Shapes ==
  ASSUME NEW f, NEW d, Declared(f, d), NEW x, HoldsAll(f, x)
  PROVE  /\ Shallow(f, d)
         /\ \/ f.shape = "one" /\ Holds(f, x)
            \/ f.shape = "packed" /\ Scalar(f) /\ IsSeq(x) /\ \A i \in DOMAIN x : Holds(f, x[i])
            \/ f.shape = "list" /\ IsSeq(x) /\ \A i \in DOMAIN x : Holds(f, x[i])
            \/ f.shape = "map" /\ IsFiniteSet(DOMAIN x)
<1>1. f.shape = "one" => Holds(f, x)
  BY DEF HoldsAll
<1>2. f.shape \in {"packed", "list"} => IsSeq(x) /\ \A i \in DOMAIN x : Holds(f, x[i])
  BY DEF HoldsAll
<1>3. f.shape = "map" => IsFiniteSet(DOMAIN x)
  BY DEF HoldsAll
<1> QED BY <1>1, <1>2, <1>3 DEF Declared, Shallow

LEMMA SizeOfShapes ==
  ASSUME NEW f, NEW x, IsNotEmpty(f, x), NEW sizes
  PROVE  /\ f.shape = "one" => SizeField(sizes, f, x) = SizeOne(sizes, f, x)
         /\ f.shape = "packed" => SizeField(sizes, f, x) = SizePacked(sizes, f, x)
         /\ f.shape = "list" => SizeField(sizes, f, x) = SizeList(sizes, f, x)
         /\ f.shape = "map" => SizeField(sizes, f, x) = SizeMap(sizes, f, x)
BY DEF SizeField

LEMMA LengthIsNumber ==
  ASSUME NEW x, IsSeq(x)
  PROVE  IsFiniteSet(DOMAIN x) /\ Len(x) \in Nat /\ (Len(x) = 1 => 1 \in DOMAIN x)
<1>1. Len(x) \in Nat /\ DOMAIN x = 1 .. Len(x)
  BY SeqFacts
<1>2. IsFiniteSet(1 .. Len(x))
  BY <1>1, FS_Interval
<1> QED BY <1>1, <1>2

LEMMA PayloadSizesIsNat ==
  ASSUME NEW f, Scalar(f), NEW x, IsSeq(x), \A i \in DOMAIN x : Holds(f, x[i])
  PROVE  PayloadSizes(f, x) \in Nat
<1> DEFINE sum == [i \in DOMAIN x |-> PayloadSize(f.of, x[i])]
<1>1. ASSUME NEW i \in DOMAIN x PROVE PayloadSize(f.of, x[i]) \in Nat
  BY SizesAreExact DEF Scalar, Holds
<1>2. sum \in [DOMAIN x -> Nat] /\ IsFiniteSet(DOMAIN x)
  BY <1>1, LengthIsNumber
<1>3. SumFunction(sum) \in Nat
  <2> HIDE DEF sum
  <2> QED BY <1>2, SumIsNat
<1> QED BY <1>3 DEF PayloadSizes

LEMMA SizeFieldIsNat ==
  ASSUME NEW f, NEW x, NEW d, Declared(f, d), HoldsAll(f, x), NEW sizes, SizesBelow(sizes, d)
  PROVE  SizeField(sizes, f, x) \in Nat
<1>1. CASE ~IsNotEmpty(f, x)
  BY <1>1 DEF SizeField
<1>2. CASE IsNotEmpty(f, x) /\ f.shape = "one"
  <2>1. Shallow(f, d) /\ Holds(f, x)
    BY <1>2, Shapes
  <2>2. SizeOne(sizes, f, x) \in Nat
    BY <2>1, SizeOneIsNat
  <2> QED BY <1>2, <2>2, SizeOfShapes
<1>3. CASE IsNotEmpty(f, x) /\ f.shape = "packed"
  <2>1. Shallow(f, d) /\ Scalar(f) /\ IsSeq(x) /\ \A i \in DOMAIN x : Holds(f, x[i])
    BY <1>3, Shapes
  <2>2. Len(x) = 1 => SizeOne(sizes, f, x[1]) \in Nat
    <3>1. Len(x) = 1 => Holds(f, x[1])
      BY <2>1, LengthIsNumber
    <3> QED BY <2>1, <3>1, SizeOneIsNat
  <2>3. PayloadSizes(f, x) \in Nat
    BY <2>1, PayloadSizesIsNat
  <2>4. SizeTag(f.number) \in Nat /\ SizeVarInt(PayloadSizes(f, x)) \in Nat
    BY SizeVarIntIsNat DEF SizeTag
  <2>5. SizePacked(sizes, f, x) \in Nat
    <3>1. CASE Len(x) = 0
      BY <3>1 DEF SizePacked
    <3>2. CASE Len(x) = 1
      BY <2>2, <3>2 DEF SizePacked
    <3>3. CASE Len(x) # 0 /\ Len(x) # 1
      BY <2>3, <2>4, <3>3 DEF SizePacked, Prefixed
    <3> QED BY <3>1, <3>2, <3>3
  <2> QED BY <1>3, <2>5, SizeOfShapes
<1>4. CASE IsNotEmpty(f, x) /\ f.shape = "list"
  <2>1. Shallow(f, d) /\ IsSeq(x) /\ \A i \in DOMAIN x : Holds(f, x[i])
    BY <1>4, Shapes
  <2> DEFINE sum == [i \in DOMAIN x |-> SizeOne(sizes, f, x[i])]
  <2>2. sum \in [DOMAIN x -> Nat] /\ IsFiniteSet(DOMAIN x)
    BY <2>1, SizeOneIsNat, LengthIsNumber
  <2>3. SumFunction(sum) \in Nat
    <3> HIDE DEF sum
    <3> QED BY <2>2, SumIsNat
  <2>4. SizeList(sizes, f, x) \in Nat
    BY <2>3 DEF SizeList
  <2> QED BY <1>4, <2>4, SizeOfShapes
<1>5. CASE IsNotEmpty(f, x) /\ f.shape = "map"
  <2> DEFINE sum == [k \in DOMAIN x |-> SizeTag(f.number) + Prefixed(SizeEntry(sizes, f, k, x[k]))]
  <2>1. ASSUME NEW k \in DOMAIN x
        PROVE  SizeTag(f.number) + Prefixed(SizeEntry(sizes, f, k, x[k])) \in Nat
    <3>1. SizeOne(sizes, KeyField(f), k) \in Nat /\ SizeOne(sizes, ValueField(f), x[k]) \in Nat
      BY <1>5, EntryFacts, SizeOneIsNat
    <3>2. SizeEntry(sizes, f, k, x[k]) \in Nat
      BY <3>1 DEF SizeEntry
    <3>3. SizeTag(f.number) \in Nat /\ SizeVarInt(SizeEntry(sizes, f, k, x[k])) \in Nat
      BY SizeVarIntIsNat DEF SizeTag
    <3> QED BY <3>2, <3>3 DEF Prefixed
  <2>2. sum \in [DOMAIN x -> Nat] /\ IsFiniteSet(DOMAIN x)
    BY <1>5, <2>1, Shapes
  <2>3. SumFunction(sum) \in Nat
    <3> HIDE DEF sum
    <3> QED BY <2>2, SumIsNat
  <2>4. SizeMap(sizes, f, x) \in Nat
    BY <2>3 DEF SizeMap
  <2> QED BY <1>5, <2>4, SizeOfShapes
<1> QED BY <1>1, <1>2, <1>3, <1>4, <1>5, Shapes

LEMMA SizeFieldAgrees ==
  ASSUME NEW f, NEW x, NEW d, Declared(f, d), HoldsAll(f, x), NEW g, NEW h, AgreeBelow(g, h, d)
  PROVE  SizeField(g, f, x) = SizeField(h, f, x)
<1>1. CASE ~IsNotEmpty(f, x)
  BY <1>1 DEF SizeField
<1>2. CASE IsNotEmpty(f, x) /\ f.shape = "one"
  <2>1. SizeOne(g, f, x) = SizeOne(h, f, x)
    BY <1>2, Shapes, SizeOneAgrees
  <2> QED BY <1>2, <2>1, SizeOfShapes
<1>3. CASE IsNotEmpty(f, x) /\ f.shape = "packed"
  <2>1. Len(x) = 1 => SizeOne(g, f, x[1]) = SizeOne(h, f, x[1])
    <3>1. Shallow(f, d) /\ (Len(x) = 1 => Holds(f, x[1]))
      BY <1>3, Shapes, LengthIsNumber
    <3> QED BY <3>1, SizeOneAgrees
  <2>2. SizePacked(g, f, x) = SizePacked(h, f, x)
    <3>1. CASE Len(x) = 0
      BY <3>1 DEF SizePacked
    <3>2. CASE Len(x) = 1
      BY <2>1, <3>2 DEF SizePacked
    <3>3. CASE Len(x) # 0 /\ Len(x) # 1
      BY <3>3 DEF SizePacked
    <3> QED BY <3>1, <3>2, <3>3
  <2> QED BY <1>3, <2>2, SizeOfShapes
<1>4. CASE IsNotEmpty(f, x) /\ f.shape = "list"
  <2>1. \A i \in DOMAIN x : SizeOne(g, f, x[i]) = SizeOne(h, f, x[i])
    BY <1>4, Shapes, SizeOneAgrees
  <2>2. SizeList(g, f, x) = SizeList(h, f, x)
    BY <2>1 DEF SizeList
  <2> QED BY <1>4, <2>2, SizeOfShapes
<1>5. CASE IsNotEmpty(f, x) /\ f.shape = "map"
  <2>1. \A k \in DOMAIN x : SizeEntry(g, f, k, x[k]) = SizeEntry(h, f, k, x[k])
    <3> TAKE k \in DOMAIN x
    <3>1. /\ SizeOne(g, KeyField(f), k) = SizeOne(h, KeyField(f), k)
          /\ SizeOne(g, ValueField(f), x[k]) = SizeOne(h, ValueField(f), x[k])
      BY <1>5, EntryFacts, SizeOneAgrees
    <3> QED BY <3>1 DEF SizeEntry
  <2>2. SizeMap(g, f, x) = SizeMap(h, f, x)
    BY <2>1 DEF SizeMap
  <2> QED BY <1>5, <2>2, SizeOfShapes
<1> QED BY <1>1, <1>2, <1>3, <1>4, <1>5, Shapes

(* A message, as one of those it is about or as one within others.         *)
LEMMA MessageFacts ==
  ASSUME NEW m, IsMessage(m)
  PROVE  /\ m.of \in Types /\ Depth[m.of] \in Nat /\ IsSeq(Fields[m.of])
         /\ IsFiniteSet(DOMAIN Fields[m.of])
         /\ m.struct # Nothing =>
               \A i \in DOMAIN Fields[m.of] :
                  LET f == Fields[m.of][i]
                  IN Declared(f, Depth[m.of]) /\ HoldsAll(f, m.struct[f.number])
<1>1. m.of \in Types
  BY DEF IsMessage
<1>2. Depth[m.of] \in Nat /\ IsSeq(Fields[m.of])
  BY <1>1, TypeFacts
<1>3. ASSUME m.struct # Nothing, NEW i \in DOMAIN Fields[m.of]
      PROVE  LET f == Fields[m.of][i]
             IN Declared(f, Depth[m.of]) /\ HoldsAll(f, m.struct[f.number])
  <2> DEFINE f == Fields[m.of][i]
  <2>1. Declared(f, Depth[m.of]) /\ f.number \in Numbers(m.of) /\ Field(m.of, f.number) = f
    BY <1>1, TypeFacts
  <2>2. HoldsAll(Field(m.of, f.number), m.struct[f.number])
    BY <1>3, <2>1 DEF IsMessage
  <2> QED BY <2>1, <2>2
<1> QED BY <1>1, <1>2, <1>3, LengthIsNumber

LEMMA SizeFieldsAreNats ==
  ASSUME NEW m, IsMessage(m), m.struct # Nothing, NEW sizes, SizesBelow(sizes, Depth[m.of])
  PROVE  /\ [i \in DOMAIN Fields[m.of] |->
               LET f == Fields[m.of][i] IN SizeField(sizes, f, m.struct[f.number])]
                  \in [DOMAIN Fields[m.of] -> Nat]
         /\ SizeFields(sizes, m) \in Nat
<1> DEFINE D == DOMAIN Fields[m.of]
           sum == [i \in D |-> LET f == Fields[m.of][i] IN SizeField(sizes, f, m.struct[f.number])]
<1>1. ASSUME NEW i \in D
      PROVE  SizeField(sizes, Fields[m.of][i], m.struct[Fields[m.of][i].number]) \in Nat
  BY MessageFacts, SizeFieldIsNat
<1>2. sum \in [D -> Nat]
  BY <1>1
<1>3. SumFunction(sum) \in Nat
  <2> HIDE DEF sum
  <2>1. IsFiniteSet(D)
    BY MessageFacts
  <2> QED BY <1>2, <2>1, SumIsNat
<1>4. SizeFields(sizes, m) = SumFunction(sum)
  BY DEF SizeFields
<1> QED BY <1>2, <1>3, <1>4

LEMMA SizeFieldsAgree ==
  ASSUME NEW m, IsMessage(m), NEW g, NEW h, AgreeBelow(g, h, Depth[m.of])
  PROVE  SizeFields(g, m) = SizeFields(h, m)
<1>1. CASE m.struct = Nothing
  BY <1>1 DEF SizeFields
<1>2. CASE m.struct # Nothing
  <2>1. ASSUME NEW i \in DOMAIN Fields[m.of]
        PROVE  SizeField(g, Fields[m.of][i], m.struct[Fields[m.of][i].number])
                 = SizeField(h, Fields[m.of][i], m.struct[Fields[m.of][i].number])
    BY <1>2, MessageFacts, SizeFieldAgrees
  <2> QED BY <1>2, <2>1 DEF SizeFields
<1> QED BY <1>1, <1>2

LEMMA NilSize ==
  ASSUME NEW m, m.struct = Nothing, NEW sizes
  PROVE  SizeFields(sizes, m) = 0
BY DEF SizeFields

LEMMA NestedMessages ==
  /\ \A m \in Messages : IsMessage(m)
  /\ [m \in Messages |-> Depth[m.of]] \in [Messages -> Nat]
<1>1. ASSUME NEW m \in Messages PROVE IsMessage(m) /\ Depth[m.of] \in Nat
  <2>1. IsMessage(m)
    BY MessageAssumption
  <2> QED BY <2>1, MessageFacts
<1> QED BY <1>1

LEMMA ContentSizes ==
  \A m \in Messages : ContentSize[m] \in Nat /\ ContentSize[m] = SizeFields(ContentSize, m)
<1> DEFINE Is(c) == c = [m \in Messages |-> SizeFields(c, m)]
           M == Messages
           depth == [m \in M |-> Depth[m.of]]
           N == Nat
           R == [m \in M |-> N]
           F == Selections(M, N, R)
           G == [g \in F |-> [m \in M |-> SizeFields(g, m)]]
           base == [m \in M |-> 0]
<1>1. depth \in [M -> N] /\ \A m \in M : IsMessage(m) /\ depth[m] = Depth[m.of]
  BY NestedMessages
<1>2. ASSUME NEW g, NEW m \in M, \A s \in M : depth[s] < depth[m] => g[s] \in N
      PROVE  SizeFields(g, m) \in N
  <2>1. SizesBelow(g, Depth[m.of])
    BY <1>1, <1>2 DEF SizesBelow
  <2> QED BY <1>1, <2>1, SizeFieldsAreNats, NilSize
<1>3. ASSUME NEW g, NEW h, NEW m \in M, \A s \in M : depth[s] < depth[m] => g[s] = h[s]
      PROVE  SizeFields(g, m) = SizeFields(h, m)
  <2>1. AgreeBelow(g, h, Depth[m.of])
    BY <1>1, <1>3 DEF AgreeBelow
  <2> QED BY <1>1, <2>1, SizeFieldsAgree
<1>4. \A g \in F : g \in [M -> N] /\ \A m \in M : G[g][m] = SizeFields(g, m)
  BY DEF Selections
<1>5. G \in [F -> F] /\ base \in F
  <2>1. ASSUME NEW g \in F PROVE G[g] \in F
    <3>1. \A m \in M : SizeFields(g, m) \in N
      BY <1>2, <1>4
    <3> HIDE DEF N
    <3> QED BY <3>1 DEF Selections
  <2>2. base \in F
    BY DEF Selections
  <2>3. G = [g \in F |-> G[g]]
    OBVIOUS
  <2> HIDE DEF F, G
  <2> QED BY <2>1, <2>2, <2>3
<1>6. Recursive(G, F, M, depth)
  <2> HIDE DEF F, G, depth, M, N
  <2> QED BY <1>3, <1>4 DEF Recursive
<1>7. PICK c \in F : \A m \in M : c[m] = G[c][m]
  <2>1. F = Selections(M, N, R)
    OBVIOUS
  <2>2. depth \in [M -> Nat]
    BY <1>1
  <2> HIDE DEF F, G, depth, M, N, base, R
  <2> QED BY <1>5, <1>6, <2>1, <2>2, RecursionExists
<1>8. Is(c)
  <2>1. c \in [M -> N] /\ \A m \in M : c[m] = SizeFields(c, m)
    BY <1>4, <1>7
  <2> QED BY <2>1
<1>9. Is(ContentSize)
  <2>1. ContentSize = CHOOSE ContentSize_1 : Is(ContentSize_1)
    BY DEF ContentSize
  <2> HIDE DEF Is
  <2> QED BY <1>8, <2>1
<1>10. \A m \in M : ContentSize[m] = SizeFields(ContentSize, m)
  BY <1>9
<1> DEFINE P == {m \in M : ContentSize[m] \in N}
<1>11. ASSUME NEW m \in M, \A s \in M : depth[s] < depth[m] => s \in P PROVE m \in P
  <2>1. SizeFields(ContentSize, m) \in N
    BY <1>2, <1>11
  <2> QED BY <1>10, <2>1
<1>12. M \subseteq P
  <2>1. depth \in [M -> Nat]
    BY <1>1
  <2> HIDE DEF P, M, depth
  <2> QED BY <1>11, <2>1, DepthInduction
<1> QED BY <1>10, <1>12

(***************************************************************************)
(* Fields on the wire.                                                     *)
(***************************************************************************)

(* Bytes that are one whole field: wherever they stand, the tag is read,   *)
(* and who skips what follows it is where they end.                        *)
IsField(b, n, type) ==
    /\ b \in Seq(Byte) /\ Len(b) \in Nat \ {0} /\ n \in FieldNumbers
    /\ \A bs \in Seq(Byte), at \in Nat :
          Stands(b, bs, at) =>
             /\ ReadTag(bs, at) = [number |-> n, type |-> type, size |-> SizeTag(n)]
             /\ Skip(bs, at + SizeTag(n), type) = at + Len(b)

LEMMA FieldsStand ==
  ASSUME NEW n \in FieldNumbers, NEW t \in ScalarTypes, NEW x \in GoValues(t)
  PROVE  /\ IsField(FieldOf(n, t, x), n, WireType(t))
         /\ Len(FieldOf(n, t, x)) = SizeTag(n) + PayloadSize(t, x)
<1> DEFINE front == Tag(n, WireType(t))
           back == Payload(t, x)
           b == FieldOf(n, t, x)
<1>1. WireType(t) \in 0 .. 7
  BY DEF WireType, Fixed32Type, Fixed64Type, BytesType, VarIntType
<1>2. front \in Seq(Byte) /\ Len(front) = SizeTag(n) /\ SizeTag(n) \in Nat \ {0}
  <2> DEFINE v == TagValue(n, WireType(t))
  <2>1. v \in 0 .. WORD - 1 /\ SizeVarInt(v) = SizeTag(n)
    BY <1>1, TagFits, TagSizeIsExact
  <2>2. front = VarInt(v)
    BY DEF Tag, TagValue
  <2> HIDE DEF v, front
  <2> QED BY <2>1, <2>2, VarIntTypes
<1>3. back \in Seq(Byte) /\ Len(back) = PayloadSize(t, x) /\ PayloadSize(t, x) \in Nat
  BY SizesAreExact
<1>4. b = front \o back
  BY DEF FieldOf
<1> HIDE DEF front, back, b
<1>5. b \in Seq(Byte) /\ Len(b) = SizeTag(n) + PayloadSize(t, x)
  BY <1>2, <1>3, <1>4, ConcatProperties
<1>6. ASSUME NEW bs \in Seq(Byte), NEW at \in Nat, Stands(b, bs, at)
      PROVE  /\ ReadTag(bs, at) = [number |-> n, type |-> WireType(t), size |-> SizeTag(n)]
             /\ Skip(bs, at + SizeTag(n), WireType(t)) = at + Len(b)
  <2> DEFINE tag == ReadTag(bs, at)
  <2>1. /\ tag = [number |-> n, type |-> WireType(t), size |-> SizeTag(n)]
        /\ Skip(bs, at + tag.size, tag.type) = at + Len(b)
    BY <1>6, FieldIsRead DEF b
  <2>2. tag.size = SizeTag(n) /\ tag.type = WireType(t)
    BY <2>1
  <2> QED BY <2>1, <2>2
<1>7. Len(b) \in Nat \ {0}
  BY <1>2, <1>3, <1>5
<1>8. IsField(b, n, WireType(t))
  BY <1>5, <1>6, <1>7 DEF IsField
<1> QED BY <1>5, <1>8 DEF b

(* Whatever is written behind its length.                                  *)
LEMMA PrefixedIsField ==
  ASSUME NEW n \in FieldNumbers, NEW y \in Seq(Byte), NEW l, l = Len(y), l < WORD
  PROVE  LET b == (Tag(n, BytesType) \o VarInt(l)) \o y
         IN /\ b = FieldOf(n, "bytes", y)
            /\ IsField(b, n, BytesType) /\ Len(b) = SizeTag(n) + Prefixed(l)
<1> DEFINE t == "bytes"
<1>1. t \in ScalarTypes /\ y \in GoValues(t) /\ l \in 0 .. WORD - 1
  <2>1. WORD \in Nat
    BY Widths DEF Even
  <2> QED BY <2>1 DEF ScalarTypes, GoValues
<1>2. WireType(t) = BytesType /\ Payload(t, y) = VarInt(l) \o y /\ PayloadSize(t, y) = l + SizeVarInt(l)
  BY AsBytes
<1>3. Tag(n, BytesType) \in Seq(Byte) /\ VarInt(l) \in Seq(Byte)
  <2>1. TagValue(n, BytesType) \in 0 .. WORD - 1
    <3>1. BytesType \in 0 .. 7
      BY DEF BytesType
    <3> QED BY <3>1, TagFits
  <2> QED BY <1>1, <2>1, VarIntTypes DEF Tag, TagValue
<1>4. (Tag(n, BytesType) \o VarInt(l)) \o y = FieldOf(n, t, y)
  <2>1. (Tag(n, BytesType) \o VarInt(l)) \o y = Tag(n, BytesType) \o (VarInt(l) \o y)
    BY <1>3, ConcatAssociative
  <2> QED BY <1>2, <2>1 DEF FieldOf
<1>5. Prefixed(l) = PayloadSize(t, y)
  <2>1. SizeVarInt(l) \in Nat
    BY SizeVarIntIsNat
  <2> QED BY <1>1, <1>2, <2>1 DEF Prefixed
<1>6. IsField(FieldOf(n, t, y), n, BytesType) /\ Len(FieldOf(n, t, y)) = SizeTag(n) + Prefixed(l)
  BY <1>1, <1>2, <1>5, FieldsStand
<1> QED BY <1>4, <1>6

BytesBelow(bytes, d) ==
    \A s \in Messages : Depth[s.of] < d => bytes[s] \in Seq(Byte) /\ Len(bytes[s]) = ContentSize[s]
WireOf(f) == IF Scalar(f) THEN WireType(f.of) ELSE BytesType

LEMMA OneIsField ==
  ASSUME NEW f, f.number \in FieldNumbers, NEW x, NEW d, Shallow(f, d), Holds(f, x),
         NEW bytes, BytesBelow(bytes, d)
  PROVE  /\ IsField(WriteOne(bytes, f, x), f.number, WireOf(f))
         /\ Len(WriteOne(bytes, f, x)) = SizeOne(ContentSize, f, x)
<1>1. CASE Scalar(f)
  <2>1. f.of \in ScalarTypes /\ x \in GoValues(f.of)
    BY <1>1 DEF Scalar, Holds
  <2>2. WriteOne(bytes, f, x) = FieldOf(f.number, f.of, x) /\ WireOf(f) = WireType(f.of)
    BY <1>1 DEF WriteOne, FieldOf, WireOf
  <2>3. SizeOne(ContentSize, f, x) = SizeTag(f.number) + PayloadSize(f.of, x)
    BY <1>1 DEF SizeOne
  <2> QED BY <2>1, <2>2, <2>3, FieldsStand
<1>2. CASE ~Scalar(f)
  <2> DEFINE s == MessageOf(f.of, x)
             y == bytes[s]
             l == ContentSize[s]
  <2>1. s \in Messages /\ s.of = f.of
    BY <1>2 DEF Holds, MessageOf
  <2>2. y \in Seq(Byte) /\ Len(y) = l
    BY <1>2, <2>1 DEF Shallow, BytesBelow
  <2>3. l < WORD
    BY <2>1, SizeAssumption
  <2>4. WriteOne(bytes, f, x) = (Tag(f.number, BytesType) \o VarInt(l)) \o y /\ WireOf(f) = BytesType
    BY <1>2 DEF WriteOne, WireOf
  <2>5. SizeOne(ContentSize, f, x) = SizeTag(f.number) + Prefixed(l)
    BY <1>2 DEF SizeOne
  <2> HIDE DEF s, y, l
  <2> QED BY <2>2, <2>3, <2>4, <2>5, PrefixedIsField
<1> QED BY <1>1, <1>2

(* The fields of a list, and the entries of a packed one.                  *)
AreFields(pieces) ==
    pieces \in Seq(Seq(Byte)) /\ \A i \in 1 .. Len(pieces) : \E n, type : IsField(pieces[i], n, type)
Named(pieces, n) == \A i \in 1 .. Len(pieces) : \E type : IsField(pieces[i], n, type)

LEMMA FlattenFew ==
  ASSUME NEW T
  PROVE  /\ FlattenSeq(<<>>) = <<>>
         /\ \A b \in Seq(T) : FlattenSeq(<<b>>) = b
<1>1. FlattenSeq(<<>>) = <<>>
  BY DEF FlattenSeq
<1>2. ASSUME NEW b \in Seq(T) PROVE FlattenSeq(<<b>>) = b
  <2> DEFINE seqs == <<b>>
  <2>1. seqs \in Seq(Seq(T)) /\ Len(seqs) = 1 /\ seqs[1] = b
    OBVIOUS
  <2> HIDE DEF seqs
  <2>2. PICK off : Offsets(off, seqs)
    BY <2>1, OffsetsExist
  <2> DEFINE flat == FlattenSeq(seqs)
  <2>3. flat \in Seq(T) /\ Flat(flat, off, seqs, 1)
    BY <2>1, <2>2, FlattenFacts
  <2>4. off[0] = 0 /\ off[1] = off[1 - 1] + Len(b) /\ 1 - 1 = 0
    BY <2>1, <2>2 DEF Offsets
  <2> HIDE DEF flat
  <2>5. Len(b) \in Nat /\ Len(flat) = Len(b)
    BY <2>3, <2>4 DEF Flat
  <2>6. ASSUME NEW k \in 1 .. Len(b) PROVE flat[k] = b[k]
    <3>1. 1 \in 1 .. 1 /\ k \in 1 .. Len(seqs[1])
      BY <2>1
    <3>2. flat[off[1 - 1] + k] = seqs[1][k]
      BY <2>3, <3>1 DEF Flat
    <3>3. off[1 - 1] + k = k
      BY <2>4
    <3> QED BY <2>1, <3>2, <3>3
  <2> QED BY <2>3, <2>5, <2>6, SeqEqual DEF flat, seqs
<1> QED BY <1>1, <1>2

LEMMA InOrder ==
  ASSUME NEW n \in Nat
  PROVE  Enumerates([i \in 1 .. n |-> i], n, 1 .. n)
BY DEF Enumerates

LEMMA PackedBytes ==
  ASSUME NEW f, Scalar(f), NEW x, IsSeq(x), \A i \in DOMAIN x : Holds(f, x[i])
  PROVE  LET y == FlattenSeq([i \in DOMAIN x |-> Payload(f.of, x[i])])
         IN y \in Seq(Byte) /\ Len(y) = PayloadSizes(f, x)
<1> DEFINE n == Len(x)
           seqs == [i \in DOMAIN x |-> Payload(f.of, x[i])]
           sum == [i \in DOMAIN x |-> PayloadSize(f.of, x[i])]
           order == [i \in 1 .. n |-> i]
<1>1. n \in Nat /\ DOMAIN x = 1 .. n
  BY SeqFacts
<1>2. ASSUME NEW i \in DOMAIN x
      PROVE  /\ Payload(f.of, x[i]) \in Seq(Byte) /\ PayloadSize(f.of, x[i]) \in Nat
             /\ Len(Payload(f.of, x[i])) = PayloadSize(f.of, x[i])
  BY SizesAreExact DEF Scalar, Holds
<1>3. seqs \in Seq(Seq(Byte)) /\ Len(seqs) = n /\ \A i \in 1 .. n : Len(seqs[i]) = sum[order[i]]
  BY <1>1, <1>2
<1>4. sum \in [1 .. n -> Nat]
  BY <1>1, <1>2
<1>5. Enumerates(order, n, 1 .. n)
  BY <1>1, InOrder
<1>6. PayloadSizes(f, x) = SumFunction(sum)
  BY DEF PayloadSizes
<1> DEFINE S == 1 .. n
<1>7. FlattenSeq(seqs) \in Seq(Byte) /\ Len(FlattenSeq(seqs)) = SumFunction(sum)
  <2>1. sum \in [S -> Nat] /\ Enumerates(order, Len(seqs), S)
    BY <1>3, <1>4, <1>5
  <2>2. \A i \in 1 .. Len(seqs) : Len(seqs[i]) = sum[order[i]]
    BY <1>3
  <2> HIDE DEF seqs, sum, order, n, S
  <2> QED BY <1>3, <2>1, <2>2, FlattenLength
<1> QED BY <1>6, <1>7 DEF seqs

LEMMA NoField == AreFields(<<>>) /\ FlattenSeq(<<>>) = <<>> /\ Len(<<>>) = 0
<1>1. <<>> \in Seq(Seq(Byte)) /\ Len(<<>>) = 0
  OBVIOUS
<1>2. AreFields(<<>>)
  BY <1>1 DEF AreFields
<1> QED BY <1>1, <1>2, FlattenFew

LEMMA OnlyField ==
  ASSUME NEW b, NEW n, NEW type, IsField(b, n, type)
  PROVE  AreFields(<<b>>) /\ FlattenSeq(<<b>>) = b /\ Named(<<b>>, n)
<1> DEFINE pieces == <<b>>
<1>1. b \in Seq(Byte)
  BY DEF IsField
<1>2. pieces \in Seq(Seq(Byte)) /\ Len(pieces) = 1 /\ \A i \in 1 .. Len(pieces) : pieces[i] = b
  BY <1>1
<1> HIDE DEF pieces
<1>3. AreFields(pieces) /\ Named(pieces, n)
  BY <1>2 DEF AreFields, Named
<1> QED BY <1>1, <1>3, FlattenFew DEF pieces

LEMMA PackedAreFields ==
  ASSUME NEW f, f.number \in FieldNumbers, Scalar(f), NEW x, IsSeq(x),
         \A i \in DOMAIN x : Holds(f, x[i]), PayloadSizes(f, x) < WORD, NEW bytes
  PROVE  /\ AreFields(WritePacked(bytes, f, x)) /\ Named(WritePacked(bytes, f, x), f.number)
         /\ Len(FlattenSeq(WritePacked(bytes, f, x))) = SizePacked(ContentSize, f, x)
<1>1. Len(x) \in Nat
  BY LengthIsNumber
<1>2. CASE Len(x) = 0
  <2>1. WritePacked(bytes, f, x) = <<>> /\ SizePacked(ContentSize, f, x) = 0
    BY <1>2 DEF WritePacked, SizePacked
  <2>2. Named(<<>>, f.number)
    BY NoField DEF Named
  <2> QED BY <2>1, <2>2, NoField
<1>3. CASE Len(x) = 1
  <2> DEFINE b == WriteOne(bytes, f, x[1])
  <2>1. WritePacked(bytes, f, x) = <<b>> /\ SizePacked(ContentSize, f, x) = SizeOne(ContentSize, f, x[1])
    BY <1>3 DEF WritePacked, SizePacked
  <2>2. Holds(f, x[1]) /\ f.of \in ScalarTypes /\ x[1] \in GoValues(f.of)
    BY <1>3, LengthIsNumber DEF Holds, Scalar
  <2>3. b = FieldOf(f.number, f.of, x[1])
    BY DEF WriteOne, FieldOf
  <2>4. SizeOne(ContentSize, f, x[1]) = SizeTag(f.number) + PayloadSize(f.of, x[1])
    BY DEF SizeOne
  <2>5. IsField(b, f.number, WireType(f.of)) /\ Len(b) = SizeOne(ContentSize, f, x[1])
    BY <2>2, <2>3, <2>4, FieldsStand
  <2> HIDE DEF b
  <2> QED BY <2>1, <2>5, OnlyField
<1>4. CASE Len(x) # 0 /\ Len(x) # 1
  <2> DEFINE l == PayloadSizes(f, x)
             y == FlattenSeq([i \in DOMAIN x |-> Payload(f.of, x[i])])
             b == (Tag(f.number, BytesType) \o VarInt(l)) \o y
  <2>1. WritePacked(bytes, f, x) = <<b>> /\ SizePacked(ContentSize, f, x) = SizeTag(f.number) + Prefixed(l)
    BY <1>4 DEF WritePacked, SizePacked
  <2>2. y \in Seq(Byte) /\ l = Len(y)
    BY PackedBytes
  <2> HIDE DEF y, l
  <2>3. IsField(b, f.number, BytesType) /\ Len(b) = SizeTag(f.number) + Prefixed(l)
    BY <2>2, PrefixedIsField DEF l
  <2> HIDE DEF b
  <2> QED BY <2>1, <2>3, OnlyField
<1> QED BY <1>2, <1>3, <1>4

LEMMA PiecesLength ==
  ASSUME NEW pieces \in Seq(Seq(Byte)), NEW S, NEW f \in [S -> Nat], NEW order,
         Enumerates(order, Len(pieces), S), \A i \in 1 .. Len(pieces) : Len(pieces[i]) = f[order[i]]
  PROVE  FlattenSeq(pieces) \in Seq(Byte) /\ Len(FlattenSeq(pieces)) = SumFunction(f)
<1> DEFINE T == Byte
<1>1. pieces \in Seq(Seq(T))
  OBVIOUS
<1> HIDE DEF T
<1>2. FlattenSeq(pieces) \in Seq(T) /\ Len(FlattenSeq(pieces)) = SumFunction(f)
  BY <1>1, FlattenLength, ZenonT(30)
<1> QED BY <1>2 DEF T

LEMMA ListIsFields ==
  ASSUME NEW f, f.number \in FieldNumbers, NEW d, Shallow(f, d), NEW x, IsSeq(x),
         \A i \in DOMAIN x : Holds(f, x[i]), NEW bytes, BytesBelow(bytes, d)
  PROVE  /\ AreFields(WriteList(bytes, f, x))
         /\ Len(FlattenSeq(WriteList(bytes, f, x))) = SizeList(ContentSize, f, x)
         /\ Named(WriteList(bytes, f, x), f.number)
<1> DEFINE n == Len(x)
           S == 1 .. n
           pieces == WriteList(bytes, f, x)
           sum == [i \in DOMAIN x |-> SizeOne(ContentSize, f, x[i])]
           order == [i \in S |-> i]
<1>1. n \in Nat /\ DOMAIN x = S
  BY SeqFacts
<1>2. ASSUME NEW i \in DOMAIN x
      PROVE  /\ IsField(WriteOne(bytes, f, x[i]), f.number, WireOf(f))
             /\ WriteOne(bytes, f, x[i]) \in Seq(Byte)
             /\ Len(WriteOne(bytes, f, x[i])) = SizeOne(ContentSize, f, x[i])
  <2>1. /\ IsField(WriteOne(bytes, f, x[i]), f.number, WireOf(f))
        /\ Len(WriteOne(bytes, f, x[i])) = SizeOne(ContentSize, f, x[i])
    BY OneIsField
  <2> QED BY <2>1 DEF IsField
<1>3. /\ pieces \in Seq(Seq(Byte)) /\ Len(pieces) = n
      /\ \A i \in 1 .. n : pieces[i] = WriteOne(bytes, f, x[i])
  BY <1>1, <1>2 DEF WriteList
<1>4. AreFields(pieces) /\ Named(pieces, f.number)
  <2> HIDE DEF pieces
  <2> QED BY <1>1, <1>2, <1>3 DEF AreFields, Named
<1>5. sum \in [S -> Nat]
  <2>1. ASSUME NEW i \in DOMAIN x PROVE SizeOne(ContentSize, f, x[i]) \in Nat
    <3>1. Len(WriteOne(bytes, f, x[i])) \in Nat
      BY <1>2
    <3> QED BY <1>2, <3>1
  <2> QED BY <1>1, <2>1
<1>6. \A i \in 1 .. Len(pieces) : Len(pieces[i]) = sum[order[i]]
  <2>1. \A i \in 1 .. n : order[i] = i /\ sum[i] = SizeOne(ContentSize, f, x[i])
    BY <1>1
  <2> HIDE DEF pieces, sum, order
  <2> QED BY <1>1, <1>2, <1>3, <2>1
<1>7. Enumerates(order, Len(pieces), S)
  BY <1>1, <1>3, InOrder
<1>8. SizeList(ContentSize, f, x) = SumFunction(sum)
  BY DEF SizeList
<1> HIDE DEF pieces, sum, order, n, S
<1>9. Len(FlattenSeq(pieces)) = SumFunction(sum)
  BY <1>3, <1>5, <1>6, <1>7, PiecesLength
<1> QED BY <1>4, <1>8, <1>9 DEF pieces

(* Whatever order Go takes the entries of a map in, and there is one.      *)
LEMMA OrderFacts ==
  ASSUME NEW S, IsFiniteSet(S)
  PROVE  /\ \A order \in SetToSeqs(S) : \E n \in Nat : Enumerates(order, n, S)
         /\ SetToSeqs(S) # {}
<1> DEFINE n == Cardinality(S)
           D == 1 .. n
<1>1. n \in Nat /\ ExistsBijection(D, S)
  BY FS_CardinalityType
<1>2. IsFiniteSet(D) /\ Cardinality(D) = n
  <2> HIDE DEF n
  <2>1. IsFiniteSet(1 .. n) /\ Cardinality(1 .. n) = n
    BY <1>1, FS_Interval
  <2> QED BY <2>1
<1>3. ASSUME NEW order \in SetToSeqs(S) PROVE Enumerates(order, n, S)
  <2>1. order \in [D -> S] /\ \A i, j \in D : order[i] = order[j] => i = j
    BY DEF SetToSeqs
  <2>2. order \in Injection(D, S)
    BY <2>1 DEF Injection, IsInjective
  <2>3. order \in Surjection(D, S)
    <3> HIDE DEF D, n
    <3> QED BY <1>2, <2>2, FS_Injection DEF n
  <2>4. \A x \in S : \E i \in D : order[i] = x
    BY <2>3 DEF Surjection
  <2> QED BY <2>1, <2>4 DEF Enumerates
<1>4. SetToSeqs(S) # {}
  <2>1. PICK b \in Bijection(D, S) : TRUE
    BY <1>1 DEF ExistsBijection
  <2>2. b \in [D -> S] /\ \A i, j \in D : b[i] = b[j] => i = j
    BY <2>1 DEF Bijection, Injection, IsInjective
  <2>3. b \in SetToSeqs(S)
    BY <2>2 DEF SetToSeqs
  <2> QED BY <2>3
<1> QED BY <1>1, <1>3, <1>4

LEMMA MapIsFields ==
  ASSUME NEW f, NEW d, Declared(f, d), f.shape = "map", NEW x, HoldsAll(f, x),
         \A k \in DOMAIN x : SizeEntry(ContentSize, f, k, x[k]) < WORD,
         NEW bytes, BytesBelow(bytes, d), NEW order \in SetToSeqs(DOMAIN x)
  PROVE  /\ AreFields(WriteMap(bytes, f, x, order))
         /\ Len(FlattenSeq(WriteMap(bytes, f, x, order))) = SizeMap(ContentSize, f, x)
         /\ Named(WriteMap(bytes, f, x, order), f.number)
<1> DEFINE S == DOMAIN x
           size_(k) == SizeEntry(ContentSize, f, k, x[k])
           whole(k) == SizeTag(f.number) + Prefixed(size_(k))
           pieces == WriteMap(bytes, f, x, order)
           sum == [k \in S |-> whole(k)]
<1>1. ASSUME NEW k \in S
      PROVE  /\ IsField(WriteEntry(bytes, f, k, x[k]), f.number, BytesType)
             /\ WriteEntry(bytes, f, k, x[k]) \in Seq(Byte)
             /\ Len(WriteEntry(bytes, f, k, x[k])) = whole(k) /\ whole(k) \in Nat
  <2> DEFINE a == WriteOne(bytes, KeyField(f), k)
             b == WriteOne(bytes, ValueField(f), x[k])
             y == a \o b
             l == size_(k)
             front == Tag(f.number, BytesType) \o VarInt(l)
  <2>0. 1 \in FieldNumbers /\ 2 \in FieldNumbers
    BY MessageAssumption
  <2>1. /\ a \in Seq(Byte) /\ Len(a) = SizeOne(ContentSize, KeyField(f), k) /\ Len(a) \in Nat
        /\ b \in Seq(Byte) /\ Len(b) = SizeOne(ContentSize, ValueField(f), x[k]) /\ Len(b) \in Nat
    <3>1. KeyField(f).number \in FieldNumbers /\ ValueField(f).number \in FieldNumbers
      BY <2>0 DEF KeyField, ValueField
    <3>2. IsField(a, KeyField(f).number, WireOf(KeyField(f))) /\ Len(a) = SizeOne(ContentSize, KeyField(f), k)
      BY <3>1, EntryFacts, OneIsField
    <3>3. IsField(b, ValueField(f).number, WireOf(ValueField(f)))
            /\ Len(b) = SizeOne(ContentSize, ValueField(f), x[k])
      BY <3>1, EntryFacts, OneIsField
    <3> QED BY <3>2, <3>3 DEF IsField
  <2>2. l = Len(a) + Len(b)
    BY <2>1 DEF SizeEntry
  <2>3. y \in Seq(Byte) /\ Len(y) = l /\ l \in Nat /\ l < WORD
    <3> HIDE DEF a, b, l
    <3>1. y \in Seq(Byte) /\ Len(y) = Len(a) + Len(b)
      BY <2>1, ConcatProperties
    <3>2. l < WORD
      BY DEF l
    <3> QED BY <2>1, <2>2, <3>1, <3>2
  <2>4. front \in Seq(Byte)
    <3>1. l \in 0 .. WORD - 1
      <4> HIDE DEF l
      <4>1. WORD \in Nat
        BY Widths DEF Even
      <4> QED BY <2>3, <4>1
    <3>2. f.number \in FieldNumbers
      BY DEF Declared
    <3>3. Tag(f.number, BytesType) \in Seq(Byte) /\ VarInt(l) \in Seq(Byte)
      <4>1. BytesType \in 0 .. 7
        BY DEF BytesType
      <4>2. TagValue(f.number, BytesType) \in 0 .. WORD - 1
        BY <3>2, <4>1, TagFits
      <4> HIDE DEF l
      <4> QED BY <3>1, <4>2, VarIntTypes DEF Tag, TagValue
    <3> HIDE DEF l
    <3> QED BY <3>3, ConcatProperties
  <2>5. WriteEntry(bytes, f, k, x[k]) = front \o y
    <3>1. WriteEntry(bytes, f, k, x[k]) = (front \o a) \o b
      BY DEF WriteEntry
    <3> HIDE DEF front, a, b
    <3>2. a \in Seq(Byte) /\ b \in Seq(Byte)
      BY <2>1
    <3>3. (front \o a) \o b = front \o (a \o b)
      BY <2>4, <3>2, ConcatAssociative
    <3> QED BY <3>1, <3>3
  <2>6. f.number \in FieldNumbers
    BY DEF Declared
  <2> HIDE DEF y, l
  <2>7. IsField(front \o y, f.number, BytesType) /\ Len(front \o y) = SizeTag(f.number) + Prefixed(l)
    BY <2>3, <2>6, PrefixedIsField
  <2>8. front \o y \in Seq(Byte) /\ Len(front \o y) \in Nat
    BY <2>7 DEF IsField
  <2> QED BY <2>5, <2>7, <2>8 DEF l
<1>2. PICK n \in Nat : Enumerates(order, n, S)
  <2>1. IsFiniteSet(S)
    BY Shapes
  <2> QED BY <2>1, OrderFacts
<1>3. order \in [1 .. n -> S]
  BY <1>2 DEF Enumerates
<1>4. /\ pieces \in Seq(Seq(Byte)) /\ Len(pieces) = n
      /\ \A i \in 1 .. n : pieces[i] = WriteEntry(bytes, f, order[i], x[order[i]])
  BY <1>1, <1>3 DEF WriteMap
<1>5. AreFields(pieces) /\ Named(pieces, f.number)
  <2> HIDE DEF pieces
  <2> QED BY <1>1, <1>3, <1>4 DEF AreFields, Named
<1>6. sum \in [S -> Nat]
  BY <1>1
<1>7. \A i \in 1 .. Len(pieces) : Len(pieces[i]) = sum[order[i]]
  <2> TAKE i \in 1 .. Len(pieces)
  <2>1. i \in 1 .. n /\ order[i] \in S
    BY <1>3, <1>4
  <2>2. sum[order[i]] = whole(order[i])
    BY <2>1
  <2> HIDE DEF pieces, sum, whole, S
  <2> QED BY <1>1, <1>4, <2>1, <2>2
<1>8. SizeMap(ContentSize, f, x) = SumFunction(sum)
  BY DEF SizeMap
<1>9. Enumerates(order, Len(pieces), S)
  BY <1>2, <1>4
<1> HIDE DEF pieces, sum, S
<1>10. Len(FlattenSeq(pieces)) = SumFunction(sum)
  BY <1>4, <1>6, <1>7, <1>9, PiecesLength
<1> QED BY <1>5, <1>8, <1>10 DEF pieces

FieldFits(f, x) ==
    /\ f.shape = "packed" => PayloadSizes(f, x) < WORD
    /\ f.shape = "map" => \A k \in DOMAIN x : SizeEntry(ContentSize, f, k, x[k]) < WORD

LEMMA WriteOfShapes ==
  ASSUME NEW f, NEW x, IsNotEmpty(f, x), NEW bytes, NEW order
  PROVE  /\ f.shape = "one" => WriteField(bytes, f, x, order) = <<WriteOne(bytes, f, x)>>
         /\ f.shape = "packed" => WriteField(bytes, f, x, order) = WritePacked(bytes, f, x)
         /\ f.shape = "list" => WriteField(bytes, f, x, order) = WriteList(bytes, f, x)
         /\ f.shape = "map" => WriteField(bytes, f, x, order) = WriteMap(bytes, f, x, order)
BY DEF WriteField

(* What a field appends is fields on the wire, as long as its size says.   *)
LEMMA FieldIsWritten ==
  ASSUME NEW f, NEW d, Declared(f, d), NEW x, HoldsAll(f, x), FieldFits(f, x),
         NEW bytes, BytesBelow(bytes, d), NEW order \in Orders(f, x)
  PROVE  /\ AreFields(WriteField(bytes, f, x, order))
         /\ Len(FlattenSeq(WriteField(bytes, f, x, order))) = SizeField(ContentSize, f, x)
         /\ Named(WriteField(bytes, f, x, order), f.number)
<1>0. f.number \in FieldNumbers /\ Shallow(f, d)
  BY Shapes DEF Declared
<1>1. CASE ~IsNotEmpty(f, x)
  <2>1. WriteField(bytes, f, x, order) = <<>> /\ SizeField(ContentSize, f, x) = 0
    BY <1>1 DEF WriteField, SizeField
  <2>2. Named(<<>>, f.number)
    BY NoField DEF Named
  <2> QED BY <2>1, <2>2, NoField
<1>2. CASE IsNotEmpty(f, x) /\ f.shape = "one"
  <2>1. /\ IsField(WriteOne(bytes, f, x), f.number, WireOf(f))
        /\ Len(WriteOne(bytes, f, x)) = SizeOne(ContentSize, f, x)
    BY <1>0, <1>2, Shapes, OneIsField
  <2>2. WriteField(bytes, f, x, order) = <<WriteOne(bytes, f, x)>>
          /\ SizeField(ContentSize, f, x) = SizeOne(ContentSize, f, x)
    BY <1>2, WriteOfShapes, SizeOfShapes
  <2> QED BY <2>1, <2>2, OnlyField
<1>3. CASE IsNotEmpty(f, x) /\ f.shape = "packed"
  <2>1. Scalar(f) /\ IsSeq(x) /\ (\A i \in DOMAIN x : Holds(f, x[i])) /\ PayloadSizes(f, x) < WORD
    BY <1>3, Shapes DEF FieldFits
  <2>2. /\ AreFields(WritePacked(bytes, f, x))
        /\ Len(FlattenSeq(WritePacked(bytes, f, x))) = SizePacked(ContentSize, f, x)
        /\ Named(WritePacked(bytes, f, x), f.number)
    BY <1>0, <2>1, PackedAreFields
  <2> QED BY <1>3, <2>2, WriteOfShapes, SizeOfShapes
<1>4. CASE IsNotEmpty(f, x) /\ f.shape = "list"
  <2>1. IsSeq(x) /\ \A i \in DOMAIN x : Holds(f, x[i])
    BY <1>4, Shapes
  <2>2. /\ AreFields(WriteList(bytes, f, x))
        /\ Len(FlattenSeq(WriteList(bytes, f, x))) = SizeList(ContentSize, f, x)
        /\ Named(WriteList(bytes, f, x), f.number)
    BY <1>0, <2>1, ListIsFields
  <2> QED BY <1>4, <2>2, WriteOfShapes, SizeOfShapes
<1>5. CASE IsNotEmpty(f, x) /\ f.shape = "map"
  <2>1. order \in SetToSeqs(DOMAIN x) /\ \A k \in DOMAIN x : SizeEntry(ContentSize, f, k, x[k]) < WORD
    BY <1>5 DEF Orders, FieldFits
  <2>2. /\ AreFields(WriteMap(bytes, f, x, order))
        /\ Len(FlattenSeq(WriteMap(bytes, f, x, order))) = SizeMap(ContentSize, f, x)
        /\ Named(WriteMap(bytes, f, x, order), f.number)
    BY <1>5, <2>1, MapIsFields
  <2> QED BY <1>5, <2>2, WriteOfShapes, SizeOfShapes
<1> QED BY <1>1, <1>2, <1>3, <1>4, <1>5, Shapes

LEMMA SomeOrder ==
  ASSUME NEW f, NEW d, Declared(f, d), NEW x, HoldsAll(f, x)
  PROVE  (CHOOSE order \in Orders(f, x) : TRUE) \in Orders(f, x)
<1>1. Orders(f, x) # {}
  <2>1. f.shape = "map" => IsFiniteSet(DOMAIN x)
    BY Shapes
  <2> QED BY <2>1, OrderFacts DEF Orders
<1> QED BY <1>1

LEMMA WriteOneAgrees ==
  ASSUME NEW f, NEW x, NEW d, Shallow(f, d), Holds(f, x), NEW g, NEW h, AgreeBelow(g, h, d)
  PROVE  WriteOne(g, f, x) = WriteOne(h, f, x)
<1>1. CASE Scalar(f)
  BY <1>1 DEF WriteOne
<1>2. CASE ~Scalar(f)
  <2>1. MessageOf(f.of, x) \in Messages /\ MessageOf(f.of, x).of = f.of
    BY <1>2 DEF Holds, MessageOf
  <2>2. g[MessageOf(f.of, x)] = h[MessageOf(f.of, x)]
    BY <1>2, <2>1 DEF Shallow, AgreeBelow
  <2> QED BY <1>2, <2>2 DEF WriteOne
<1> QED BY <1>1, <1>2

LEMMA WriteFieldAgrees ==
  ASSUME NEW f, NEW x, NEW d, Declared(f, d), HoldsAll(f, x), NEW order \in Orders(f, x),
         NEW g, NEW h, AgreeBelow(g, h, d)
  PROVE  WriteField(g, f, x, order) = WriteField(h, f, x, order)
<1>1. CASE ~IsNotEmpty(f, x)
  BY <1>1 DEF WriteField
<1>2. CASE IsNotEmpty(f, x) /\ f.shape = "one"
  <2>1. WriteOne(g, f, x) = WriteOne(h, f, x)
    BY <1>2, Shapes, WriteOneAgrees
  <2> QED BY <1>2, <2>1, WriteOfShapes
<1>3. CASE IsNotEmpty(f, x) /\ f.shape = "packed"
  <2>1. Len(x) = 1 => WriteOne(g, f, x[1]) = WriteOne(h, f, x[1])
    <3>1. Shallow(f, d) /\ (Len(x) = 1 => Holds(f, x[1]))
      BY <1>3, Shapes, LengthIsNumber
    <3> QED BY <3>1, WriteOneAgrees
  <2>2. WritePacked(g, f, x) = WritePacked(h, f, x)
    <3>1. CASE Len(x) = 0
      BY <3>1 DEF WritePacked
    <3>2. CASE Len(x) = 1
      BY <2>1, <3>2 DEF WritePacked
    <3>3. CASE Len(x) # 0 /\ Len(x) # 1
      BY <3>3 DEF WritePacked
    <3> QED BY <3>1, <3>2, <3>3
  <2> QED BY <1>3, <2>2, WriteOfShapes
<1>4. CASE IsNotEmpty(f, x) /\ f.shape = "list"
  <2>1. \A i \in DOMAIN x : WriteOne(g, f, x[i]) = WriteOne(h, f, x[i])
    BY <1>4, Shapes, WriteOneAgrees
  <2>2. WriteList(g, f, x) = WriteList(h, f, x)
    BY <2>1 DEF WriteList
  <2> QED BY <1>4, <2>2, WriteOfShapes
<1>5. CASE IsNotEmpty(f, x) /\ f.shape = "map"
  <2>1. \A k \in DOMAIN x : WriteEntry(g, f, k, x[k]) = WriteEntry(h, f, k, x[k])
    <3> TAKE k \in DOMAIN x
    <3>1. /\ WriteOne(g, KeyField(f), k) = WriteOne(h, KeyField(f), k)
          /\ WriteOne(g, ValueField(f), x[k]) = WriteOne(h, ValueField(f), x[k])
      BY <1>5, EntryFacts, WriteOneAgrees
    <3> QED BY <3>1 DEF WriteEntry
  <2>2. \A i \in DOMAIN order : order[i] \in DOMAIN x
    <3>1. order \in SetToSeqs(DOMAIN x)
      BY <1>5 DEF Orders
    <3> QED BY <3>1 DEF SetToSeqs
  <2>3. WriteMap(g, f, x, order) = WriteMap(h, f, x, order)
    BY <2>1, <2>2 DEF WriteMap
  <2> QED BY <1>5, <2>3, WriteOfShapes
<1> QED BY <1>1, <1>2, <1>3, <1>4, <1>5, Shapes

(* A message's fields, one after another.                                  *)
LEMMA FitFacts ==
  ASSUME NEW m, IsMessage(m), SizesFit(m), m.struct # Nothing, NEW i \in DOMAIN Fields[m.of]
  PROVE  FieldFits(Fields[m.of][i], m.struct[Fields[m.of][i].number])
<1> DEFINE f == Fields[m.of][i]
<1>1. f.number \in Numbers(m.of) /\ Field(m.of, f.number) = f
  BY MessageFacts, TypeFacts
<1> QED BY <1>1 DEF SizesFit, FieldFits

LEMMA PiecesAreBytes ==
  ASSUME NEW pieces, AreFields(pieces)
  PROVE  FlattenSeq(pieces) \in Seq(Byte) /\ Len(FlattenSeq(pieces)) \in Nat
<1> DEFINE T == Byte
<1>1. pieces \in Seq(Seq(T))
  BY DEF AreFields
<1>2. FlattenSeq(pieces) \in Seq(T)
  <2> HIDE DEF T
  <2>1. PICK off : Offsets(off, pieces)
    BY <1>1, OffsetsExist
  <2> QED BY <1>1, <2>1, FlattenFacts
<1> QED BY <1>2

LEMMA FieldsAreWritten ==
  ASSUME NEW m, IsMessage(m), SizesFit(m), NEW bytes, BytesBelow(bytes, Depth[m.of])
  PROVE  /\ WriteFields(bytes, m) \in Seq(Byte)
         /\ Len(WriteFields(bytes, m)) = SizeFields(ContentSize, m)
<1>1. CASE m.struct = Nothing
  BY <1>1 DEF WriteFields, SizeFields
<1>2. CASE m.struct # Nothing
  <2> DEFINE n == Len(Fields[m.of])
             S == 1 .. n
             order == [i \in 1 .. n |-> i]
             f(i) == Fields[m.of][i]
             x(i) == m.struct[f(i).number]
             some(i) == CHOOSE o \in Orders(f(i), x(i)) : TRUE
             written(i) == FlattenSeq(WriteField(bytes, f(i), x(i), some(i)))
             seqs == [i \in DOMAIN Fields[m.of] |-> written(i)]
             size_(i) == SizeField(ContentSize, f(i), x(i))
             sum == [i \in DOMAIN Fields[m.of] |-> size_(i)]
  <2>1. n \in Nat /\ DOMAIN Fields[m.of] = S
    BY MessageFacts, SeqFacts
  <2>3. WriteFields(bytes, m) = FlattenSeq(seqs)
    BY <1>2 DEF WriteFields
  <2>4. SizeFields(ContentSize, m) = SumFunction(sum)
    BY <1>2 DEF SizeFields
  <2> HIDE DEF written, size_, some, f, x
  <2>2. ASSUME NEW i \in S
        PROVE  /\ written(i) \in Seq(Byte) /\ Len(written(i)) = size_(i)
               /\ Len(written(i)) \in Nat
    <3> DEFINE g == f(i)
               y == x(i)
               o == some(i)
    <3>0. /\ written(i) = FlattenSeq(WriteField(bytes, g, y, o))
          /\ size_(i) = SizeField(ContentSize, g, y)
      BY DEF written, size_
    <3>1. i \in DOMAIN Fields[m.of]
      BY <2>1
    <3>2. Declared(g, Depth[m.of]) /\ HoldsAll(g, y) /\ FieldFits(g, y)
      BY <1>2, <3>1, MessageFacts, FitFacts DEF f, x
    <3>3. o \in Orders(g, y)
      BY <3>2, SomeOrder DEF some
    <3> HIDE DEF g, y, o
    <3>4. /\ AreFields(WriteField(bytes, g, y, o))
          /\ Len(FlattenSeq(WriteField(bytes, g, y, o))) = SizeField(ContentSize, g, y)
      BY <3>2, <3>3, FieldIsWritten
    <3>5. /\ FlattenSeq(WriteField(bytes, g, y, o)) \in Seq(Byte)
          /\ Len(FlattenSeq(WriteField(bytes, g, y, o))) \in Nat
      BY <3>4, PiecesAreBytes
    <3> QED BY <3>0, <3>4, <3>5
  <2>5. seqs \in Seq(Seq(Byte)) /\ Len(seqs) = n /\ \A i \in S : seqs[i] = written(i)
    BY <2>1, <2>2
  <2>6. sum \in [S -> Nat] /\ \A i \in S : sum[i] = Len(written(i)) /\ order[i] = i
    BY <2>1, <2>2
  <2>7. Enumerates(order, Len(seqs), S)
    BY <2>1, <2>5, InOrder
  <2>8. \A i \in 1 .. Len(seqs) : Len(seqs[i]) = sum[order[i]]
    <3> HIDE DEF seqs, sum, order
    <3> QED BY <2>5, <2>6
  <2> HIDE DEF seqs, sum, order, S, n
  <2>9. FlattenSeq(seqs) \in Seq(Byte) /\ Len(FlattenSeq(seqs)) = SumFunction(sum)
    BY <2>5, <2>6, <2>7, <2>8, PiecesLength
  <2> QED BY <2>3, <2>4, <2>9
<1> QED BY <1>1, <1>2

LEMMA WriteFieldsAgree ==
  ASSUME NEW m, IsMessage(m), NEW g, NEW h, AgreeBelow(g, h, Depth[m.of])
  PROVE  WriteFields(g, m) = WriteFields(h, m)
<1>1. CASE m.struct = Nothing
  BY <1>1 DEF WriteFields
<1>2. CASE m.struct # Nothing
  <2> DEFINE f(i) == Fields[m.of][i]
             x(i) == m.struct[f(i).number]
             some(i) == CHOOSE o \in Orders(f(i), x(i)) : TRUE
             written(bytes, i) == FlattenSeq(WriteField(bytes, f(i), x(i), some(i)))
  <2>2. \A bytes : WriteFields(bytes, m) = FlattenSeq([i \in DOMAIN Fields[m.of] |-> written(bytes, i)])
    BY <1>2 DEF WriteFields
  <2> HIDE DEF written, some, f, x
  <2>1. ASSUME NEW i \in DOMAIN Fields[m.of] PROVE written(g, i) = written(h, i)
    <3> DEFINE w == f(i)
               y == x(i)
               o == some(i)
    <3>0. \A bytes : written(bytes, i) = FlattenSeq(WriteField(bytes, w, y, o))
      BY DEF written
    <3>1. Declared(w, Depth[m.of]) /\ HoldsAll(w, y)
      BY <1>2, MessageFacts DEF f, x
    <3>2. o \in Orders(w, y)
      BY <3>1, SomeOrder DEF some
    <3> HIDE DEF w, y, o
    <3>3. WriteField(g, w, y, o) = WriteField(h, w, y, o)
      BY <3>1, <3>2, WriteFieldAgrees
    <3> QED BY <3>0, <3>3
  <2>3. [i \in DOMAIN Fields[m.of] |-> written(g, i)] = [i \in DOMAIN Fields[m.of] |-> written(h, i)]
    BY <2>1
  <2> QED BY <2>2, <2>3
<1> QED BY <1>1, <1>2

LEMMA AllBytes ==
  \A m \in Messages :
     Bytes[m] \in Seq(Byte) /\ Len(Bytes[m]) = ContentSize[m] /\ Bytes[m] = WriteFields(Bytes, m)
<1> DEFINE Is(c) == c = [m \in Messages |-> WriteFields(c, m)]
           M == Messages
           depth == [m \in M |-> Depth[m.of]]
           N == Nat
           U == Seq(Byte)
           R == [m \in M |-> {b \in U : Len(b) = ContentSize[m]}]
           F == Selections(M, U, R)
           G == [g \in F |-> [m \in M |-> WriteFields(g, m)]]
           base == [m \in M |-> [i \in 1 .. ContentSize[m] |-> 0]]
<1>0. depth \in [M -> N] /\ \A m \in M : IsMessage(m) /\ depth[m] = Depth[m.of]
  BY NestedMessages
<1>1. \A m \in M : SizesFit(m)
  BY SizeAssumption
<1>2. ASSUME NEW g, NEW m \in M, \A s \in M : depth[s] < depth[m] => g[s] \in R[s]
      PROVE  WriteFields(g, m) \in R[m]
  <2>1. BytesBelow(g, Depth[m.of])
    BY <1>0, <1>2 DEF BytesBelow
  <2>2. WriteFields(g, m) \in U /\ Len(WriteFields(g, m)) = SizeFields(ContentSize, m)
    BY <1>0, <1>1, <2>1, FieldsAreWritten
  <2> QED BY <2>2, ContentSizes
<1>3. ASSUME NEW g, NEW h, NEW m \in M, \A s \in M : depth[s] < depth[m] => g[s] = h[s]
      PROVE  WriteFields(g, m) = WriteFields(h, m)
  <2>1. AgreeBelow(g, h, Depth[m.of])
    BY <1>0, <1>3 DEF AgreeBelow
  <2> QED BY <1>0, <2>1, WriteFieldsAgree
<1>4. \A g \in F : g \in [M -> U] /\ \A m \in M : g[m] \in R[m] /\ G[g][m] = WriteFields(g, m)
  BY DEF Selections
<1>5. G \in [F -> F] /\ base \in F
  <2>1. ASSUME NEW g \in F PROVE G[g] \in F
    <3>1. \A m \in M : WriteFields(g, m) \in R[m]
      BY <1>2, <1>4
    <3>2. \A m \in M : R[m] \subseteq U
      OBVIOUS
    <3>3. G[g] = [m \in M |-> WriteFields(g, m)]
      OBVIOUS
    <3> HIDE DEF U, R, G
    <3> QED BY <3>1, <3>2, <3>3 DEF Selections
  <2>2. base \in F
    <3>1. 0 \in Byte
      BY Widths DEF Byte
    <3>2. ASSUME NEW m \in M PROVE base[m] \in R[m] /\ R[m] \subseteq U /\ base[m] \in U
      <4>1. ContentSize[m] \in Nat
        BY ContentSizes
      <4> DEFINE c == ContentSize[m]
                 b == [i \in 1 .. c |-> 0]
      <4> HIDE DEF c
      <4>2. b \in Seq(Byte) /\ Len(b) = c
        BY <3>1, <4>1 DEF c
      <4> QED BY <4>2 DEF c
    <3>3. base = [m \in M |-> base[m]]
      OBVIOUS
    <3> HIDE DEF U, R, base
    <3> QED BY <3>2, <3>3 DEF Selections
  <2>3. G = [g \in F |-> G[g]]
    OBVIOUS
  <2> HIDE DEF F, G
  <2> QED BY <2>1, <2>2, <2>3
<1>6. Recursive(G, F, M, depth)
  <2> HIDE DEF F, G, depth, M, N, U, R
  <2> QED BY <1>3, <1>4 DEF Recursive
<1>7. PICK c \in F : \A m \in M : c[m] = G[c][m]
  <2>1. F = Selections(M, U, R)
    OBVIOUS
  <2>2. depth \in [M -> Nat]
    BY <1>0
  <2> HIDE DEF F, G, depth, M, N, U, base, R
  <2> QED BY <1>5, <1>6, <2>1, <2>2, RecursionExists
<1>8. Is(c)
  <2>1. c \in [M -> U] /\ \A m \in M : c[m] = WriteFields(c, m)
    BY <1>4, <1>7
  <2> HIDE DEF U
  <2> QED BY <2>1
<1>9. Is(Bytes)
  <2>1. Bytes = CHOOSE Bytes_1 : Is(Bytes_1)
    BY DEF Bytes
  <2> HIDE DEF Is
  <2> QED BY <1>8, <2>1
<1>10. \A m \in M : Bytes[m] = WriteFields(Bytes, m)
  BY <1>9
<1> DEFINE P == {m \in M : Bytes[m] \in R[m]}
<1>11. ASSUME NEW m \in M, \A s \in M : depth[s] < depth[m] => s \in P PROVE m \in P
  <2>1. WriteFields(Bytes, m) \in R[m]
    <3> HIDE DEF R
    <3> QED BY <1>2, <1>11
  <2> QED BY <1>10, <2>1
<1>12. M \subseteq P
  <2>1. depth \in [M -> Nat]
    BY <1>0
  <2> HIDE DEF P, M, depth
  <2> QED BY <1>11, <2>1, DepthInduction
<1> QED BY <1>10, <1>12

(***************************************************************************)
(* Skipping goes forward, in groups too.                                   *)
(***************************************************************************)

LEMMA TagSizes ==
  ASSUME NEW bs \in Seq(Byte), NEW at \in Nat
  PROVE  LET tag == ReadTag(bs, at)
         IN tag.size = -1 \/ (tag.size \in Nat \ {0} /\ at + tag.size <= Len(bs))
<1> DEFINE n == ReadVarInt(bs, at)
           tag == ReadTag(bs, at)
<1>1. n.size = -1 \/ (n.size \in Nat \ {0} /\ at + n.size <= Len(bs))
  <2>1. \/ n = [value |-> 0, size |-> -1]
        \/ n.value \in 0 .. WORD - 1 /\ n.size \in 1 .. LIMBS /\ at + n.size <= Len(bs)
    BY NoVarIntOverflows
  <2> HIDE DEF n
  <2> QED BY <2>1, Widths
<1>2. tag.size = -1 \/ tag.size = n.size
  BY DEF ReadTag, TagOf
<1> QED BY <1>1, <1>2

LEMMA SkipValueForward ==
  ASSUME NEW bs \in Seq(Byte), NEW at \in Nat, NEW type
  PROVE  LET o == SkipValue(bs, at, type) IN o = -1 \/ (o \in Nat /\ o >= at)
<1> DEFINE n == ReadVarInt(bs, at)
           l == LimbsAt(bs, at)
<1>1. AfterVarInt(bs, at, l) = -1 \/ (AfterVarInt(bs, at, l) \in Nat /\ AfterVarInt(bs, at, l) >= at)
  <2>1. l \in Nat /\ LIMBS \in Nat
    <3>1. l \in 0 .. LIMBS
      BY LimbsFound
    <3> HIDE DEF l
    <3> QED BY <3>1, Widths
  <2> HIDE DEF l
  <2> QED BY <2>1 DEF AfterVarInt
<1>2. Behind(at, n) = -1 \/ (Behind(at, n) \in Nat /\ Behind(at, n) >= at)
  <2>1. \/ n = [value |-> 0, size |-> -1]
        \/ n.value \in 0 .. WORD - 1 /\ n.size \in 1 .. LIMBS /\ at + n.size <= Len(bs)
    BY NoVarIntOverflows
  <2> HIDE DEF n
  <2>2. n.size < 0 \/ (n.value \in Nat /\ n.size \in Nat)
    BY <2>1, Widths DEF Even
  <2> QED BY <2>2 DEF Behind
<1>3. /\ at + FIX32 \in Nat /\ at + FIX32 >= at
      /\ at + FIX64 \in Nat /\ at + FIX64 >= at
  BY Widths
<1>4. SkipValue(bs, at, type) \in
        {AfterVarInt(bs, at, l), at + FIX32, at + FIX64, Behind(at, n), -1}
  BY DEF SkipValue, VarIntType, Fixed32Type, Fixed64Type, BytesType
<1> QED BY <1>1, <1>2, <1>3, <1>4

(* Where the group that goes on at an offset ends: the function that       *)
(* SkipData's recursion stands for, which exists as every tag takes a byte. *)
EndOf(end, bs, o) ==
    LET tag == ReadTag(bs, o)
        next_ == IF tag.type = StartGroupType THEN end[o + tag.size]
                 ELSE SkipValue(bs, o + tag.size, tag.type)
    IN IF tag.size < 0 THEN -1
       ELSE IF tag.type = EndGroupType THEN o + tag.size
       ELSE IF next_ < 0 THEN -1
       ELSE end[next_]
Later(o) == {-1} \cup {i \in Nat : i > o}
Left(bs, o) == IF o < Len(bs) THEN Len(bs) - o ELSE 0

LEMMA EndIsLater ==
  ASSUME NEW bs \in Seq(Byte), NEW o \in Nat, NEW g,
         \A i \in Nat : Left(bs, i) < Left(bs, o) => g[i] \in Later(i)
  PROVE  /\ EndOf(g, bs, o) \in Later(o)
         /\ \A h : (\A i \in Nat : Left(bs, i) < Left(bs, o) => g[i] = h[i])
                      => EndOf(g, bs, o) = EndOf(h, bs, o)
<1> DEFINE tag == ReadTag(bs, o)
           from == o + tag.size
           next_(f) == IF tag.type = StartGroupType THEN f[from] ELSE SkipValue(bs, from, tag.type)
<1>1. \A f : EndOf(f, bs, o) = IF tag.size < 0 THEN -1
                                ELSE IF tag.type = EndGroupType THEN from
                                ELSE IF next_(f) < 0 THEN -1
                                ELSE f[next_(f)]
  BY DEF EndOf
<1>2. tag.size = -1 \/ (tag.size \in Nat \ {0} /\ o + tag.size <= Len(bs))
  BY TagSizes
<1>3. CASE tag.size = -1
  <2>1. \A f : EndOf(f, bs, o) = -1
    <3> HIDE DEF tag, next_
    <3> QED BY <1>1, <1>3
  <2> QED BY <2>1 DEF Later
<1>4. CASE tag.size \in Nat \ {0} /\ o + tag.size <= Len(bs)
  <2>0. Len(bs) \in Nat
    OBVIOUS
  <2>1. from \in Nat /\ from > o /\ o < Len(bs) /\ ~(tag.size < 0)
    <3> HIDE DEF tag
    <3> QED BY <1>4, <2>0
  <2>2. \A i \in Nat : i > o => Left(bs, i) < Left(bs, o)
    BY <2>0, <2>1 DEF Left
  <2>3. \A i \in Nat : i > o => g[i] \in Later(i)
    BY <2>2
  <2>4. next_(g) \in Later(o)
    <3>1. g[from] \in Later(o)
      <4> HIDE DEF from
      <4>1. g[from] \in Later(from)
        BY <2>1, <2>3
      <4> QED BY <2>1, <4>1 DEF Later
    <3>2. SkipValue(bs, from, tag.type) = -1
            \/ (SkipValue(bs, from, tag.type) \in Nat /\ SkipValue(bs, from, tag.type) >= from)
      <4> HIDE DEF from, tag
      <4> QED BY <2>1, SkipValueForward
    <3>3. SkipValue(bs, from, tag.type) \in Later(o)
      <4> DEFINE s == SkipValue(bs, from, tag.type)
      <4> HIDE DEF s, from, tag
      <4>1. s = -1 \/ (s \in Nat /\ s >= from)
        BY <3>2 DEF s
      <4>2. s \in Later(o)
        BY <2>1, <4>1 DEF Later
      <4> QED BY <4>2 DEF s
    <3> QED BY <3>1, <3>3
  <2>5. ASSUME NEW h, \A i \in Nat : Left(bs, i) < Left(bs, o) => g[i] = h[i]
        PROVE  next_(h) = next_(g) /\ (~(next_(g) < 0) => h[next_(g)] = g[next_(g)])
    <3>1. \A i \in Nat : i > o => g[i] = h[i]
      BY <2>2, <2>5
    <3>2. next_(h) = next_(g)
      <4>1. h[from] = g[from]
        <5> HIDE DEF from
        <5> QED BY <2>1, <3>1
      <4> QED BY <4>1
    <3> HIDE DEF next_
    <3> QED BY <2>4, <3>1, <3>2 DEF Later
  <2> HIDE DEF tag, from, next_
  <2>6. EndOf(g, bs, o) \in Later(o)
    <3>1. from \in Later(o) /\ -1 \in Later(o)
      BY <2>1 DEF Later
    <3>2. ASSUME ~(next_(g) < 0) PROVE g[next_(g)] \in Later(o)
      <4>1. next_(g) \in Nat /\ next_(g) > o
        BY <2>4, <3>2 DEF Later
      <4>2. g[next_(g)] \in Later(next_(g))
        BY <2>3, <4>1
      <4> QED BY <4>1, <4>2 DEF Later
    <3> QED BY <1>1, <3>1, <3>2
  <2>7. ASSUME NEW h, \A i \in Nat : Left(bs, i) < Left(bs, o) => g[i] = h[i]
        PROVE  EndOf(g, bs, o) = EndOf(h, bs, o)
    <3>1. next_(h) = next_(g) /\ (~(next_(g) < 0) => h[next_(g)] = g[next_(g)])
      BY <2>5, <2>7
    <3> QED BY <1>1, <3>1
  <2> QED BY <2>6, <2>7
<1> QED BY <1>2, <1>3, <1>4

LEMMA GroupEnds ==
  ASSUME NEW bs \in Seq(Byte)
  PROVE  \E end : /\ \A o \in Nat : end[o] \in Later(o) /\ end[o] = EndOf(end, bs, o)
                  /\ \A from : Skip(bs, from, StartGroupType) = end[from]
<1> DEFINE M == Nat
           U == Int
           Is(f) == f = [o \in Nat |-> EndOf(f, bs, o)]
           end == CHOOSE f : Is(f)
           depth == [o \in M |-> Left(bs, o)]
           R == [o \in M |-> Later(o)]
           F == Selections(M, U, R)
           G == [g \in F |-> [o \in M |-> EndOf(g, bs, o)]]
           base == [o \in M |-> -1]
<1>1. \A from : Skip(bs, from, StartGroupType) = end[from]
  BY DEF Skip, EndOf
<1>2. depth \in [M -> Nat] /\ \A o \in M : depth[o] = Left(bs, o)
  BY DEF Left
<1>3. ASSUME NEW g, NEW o \in M, \A i \in M : depth[i] < depth[o] => g[i] \in Later(i)
      PROVE  /\ EndOf(g, bs, o) \in Later(o)
             /\ \A h : (\A i \in M : depth[i] < depth[o] => g[i] = h[i])
                          => EndOf(g, bs, o) = EndOf(h, bs, o)
  <2>1. \A i \in Nat : Left(bs, i) < Left(bs, o) => g[i] \in Later(i)
    BY <1>2, <1>3
  <2>2. /\ EndOf(g, bs, o) \in Later(o)
        /\ \A h : (\A i \in Nat : Left(bs, i) < Left(bs, o) => g[i] = h[i])
                     => EndOf(g, bs, o) = EndOf(h, bs, o)
    BY <2>1, EndIsLater
  <2> QED BY <1>2, <2>2
<1>4. \A g \in F : g \in [M -> U] /\ \A o \in M : g[o] \in Later(o) /\ G[g][o] = EndOf(g, bs, o)
  BY DEF Selections
<1>5. G \in [F -> F] /\ base \in F
  <2>1. ASSUME NEW g \in F PROVE G[g] \in F
    <3>1. \A o \in M : EndOf(g, bs, o) \in R[o]
      BY <1>3, <1>4
    <3>2. \A o \in M : R[o] \subseteq U
      BY DEF Later
    <3>3. G[g] = [o \in M |-> EndOf(g, bs, o)]
      OBVIOUS
    <3> HIDE DEF U, M, R, G
    <3> QED BY <3>1, <3>2, <3>3 DEF Selections
  <2>2. base \in F
    <3>1. \A o \in M : R[o] = Later(o)
      OBVIOUS
    <3> HIDE DEF R
    <3> QED BY <3>1 DEF Selections, Later
  <2>3. G = [g \in F |-> G[g]]
    OBVIOUS
  <2> HIDE DEF F, G
  <2> QED BY <2>1, <2>2, <2>3
<1>6. Recursive(G, F, M, depth)
  <2> HIDE DEF F, G, depth, M, U, R
  <2>1. ASSUME NEW g \in F, NEW h \in F, NEW o \in M, \A i \in M : depth[i] < depth[o] => g[i] = h[i]
        PROVE  G[g][o] = G[h][o]
    BY <1>3, <1>4, <2>1
  <2> QED BY <2>1 DEF Recursive
<1>7. PICK c \in F : \A o \in M : c[o] = G[c][o]
  <2>1. F = Selections(M, U, R)
    OBVIOUS
  <2>2. depth \in [M -> Nat]
    BY <1>2
  <2>3. G \in [F -> F]
    BY <1>5
  <2>5. base \in F
    BY <1>5
  <2> HIDE DEF F, G, depth, M, U, base, R
  <2>4. \E f \in F : \A m \in M : f[m] = G[f][m]
    BY <1>6, <2>1, <2>2, <2>3, <2>5, RecursionExists, SMTT(60)
  <2> QED BY <2>4
<1>8. Is(c)
  <2>1. c \in [M -> U] /\ \A o \in M : c[o] = EndOf(c, bs, o)
    BY <1>4, <1>7
  <2> HIDE DEF U
  <2> QED BY <2>1
<1>9. Is(end)
  <2> HIDE DEF Is
  <2> QED BY <1>8
<1>10. \A o \in M : end[o] = EndOf(end, bs, o)
  <2> HIDE DEF end
  <2> QED BY <1>9
<1> DEFINE P == {o \in M : end[o] \in Later(o)}
<1> HIDE DEF end
<1>11. ASSUME NEW o \in M, \A i \in M : depth[i] < depth[o] => i \in P PROVE o \in P
  <2>1. EndOf(end, bs, o) \in Later(o)
    <3>1. \A i \in M : depth[i] < depth[o] => end[i] \in Later(i)
      BY <1>11
    <3> QED BY <1>3, <3>1
  <2> QED BY <1>10, <2>1
<1>12. M \subseteq P
  <2> HIDE DEF P, M, depth
  <2> QED BY <1>2, <1>11, DepthInduction
<1> QED BY <1>1, <1>10, <1>12

(* A group, with another within and numbers that look like its end.        *)
LEMMA FourBytes ==
  FixedInt(EndGroupType, FIX32) \in Seq(Byte) /\ Len(FixedInt(EndGroupType, FIX32)) = FIX32
<1>1. FIX32 \in Nat \ {0} /\ EndGroupType \in Nat
  BY Widths DEF EndGroupType
<1>2. FixedInt(EndGroupType, FIX32) \in [1 .. FIX32 -> Byte] /\ Len(FixedInt(EndGroupType, FIX32)) = FIX32
  BY <1>1, FixedBytes DEF Byte
<1> QED BY <1>1, <1>2

LEMMA GroupIsField ==
  ASSUME NEW n \in FieldNumbers
  PROVE  IsField(Group(n), n, StartGroupType)
<1> DEFINE a == Tag(n, StartGroupType)
           z == Tag(n, EndGroupType)
           f == Tag(1, Fixed32Type)
           v == FixedInt(EndGroupType, FIX32)
           l == SizeTag(n)
           k == SizeTag(1)
           B == Byte
           two == a \o a
           three == two \o z
           four == three \o f
           five == four \o v
           b == five \o z
<1>0. StartGroupType \in 0 .. 7 /\ EndGroupType \in 0 .. 7 /\ Fixed32Type \in 0 .. 7 /\ 1 \in FieldNumbers
  BY MessageAssumption DEF StartGroupType, EndGroupType, Fixed32Type
<1>1. /\ a \in Seq(B) /\ z \in Seq(B) /\ f \in Seq(B) /\ v \in Seq(B)
      /\ Len(a) = l /\ Len(z) = l /\ Len(f) = k /\ Len(v) = FIX32
      /\ l \in Nat \ {0} /\ k \in Nat \ {0} /\ FIX32 \in Nat
  BY <1>0, TagIsRead, FourBytes, Widths
<1>2. b = Group(n)
  BY DEF Group
<1>3. ASSUME NEW bs \in Seq(B), NEW at \in Nat
      PROVE  /\ Stands(a, bs, at) => ReadTag(bs, at) = [number |-> n, type |-> StartGroupType, size |-> l]
             /\ Stands(z, bs, at) => ReadTag(bs, at) = [number |-> n, type |-> EndGroupType, size |-> l]
             /\ Stands(f, bs, at) => ReadTag(bs, at) = [number |-> 1, type |-> Fixed32Type, size |-> k]
  BY <1>0, TagIsRead
<1> HIDE DEF a, z, f, v, l, k, B
<1>4. two \in Seq(B) /\ Len(two) = l + l
  BY <1>1, ConcatProperties
<1> HIDE DEF two
<1>5. three \in Seq(B) /\ Len(three) = (l + l) + l
  <2>1. two \in Seq(B) /\ z \in Seq(B)
    BY <1>1, <1>4
  <2>2. two \o z \in Seq(B) /\ Len(two \o z) = Len(two) + Len(z)
    BY <2>1, ConcatProperties
  <2> QED BY <1>1, <1>4, <2>2
<1> HIDE DEF three
<1>6. four \in Seq(B) /\ Len(four) = ((l + l) + l) + k
  <2>1. three \in Seq(B) /\ f \in Seq(B)
    BY <1>1, <1>5
  <2>2. three \o f \in Seq(B) /\ Len(three \o f) = Len(three) + Len(f)
    BY <2>1, ConcatProperties
  <2> QED BY <1>1, <1>5, <2>2
<1> HIDE DEF four
<1>7. five \in Seq(B) /\ Len(five) = (((l + l) + l) + k) + FIX32
  <2>1. four \in Seq(B) /\ v \in Seq(B)
    BY <1>1, <1>6
  <2>2. four \o v \in Seq(B) /\ Len(four \o v) = Len(four) + Len(v)
    BY <2>1, ConcatProperties
  <2> QED BY <1>1, <1>6, <2>2
<1> HIDE DEF five
<1>8. b \in Seq(B) /\ Len(b) = ((((l + l) + l) + k) + FIX32) + l
  <2>1. z \in Seq(B) /\ five \in Seq(B)
    BY <1>1, <1>7
  <2>2. five \o z \in Seq(B) /\ Len(five \o z) = Len(five) + Len(z)
    BY <2>1, ConcatProperties
  <2> HIDE DEF b
  <2>3. Len(b) = Len(five) + Len(z)
    BY <2>2 DEF b
  <2> QED BY <1>1, <1>7, <2>2, <2>3 DEF b
<1>9. ASSUME NEW bs \in Seq(B), NEW at \in Nat, Stands(b, bs, at)
      PROVE  /\ ReadTag(bs, at) = [number |-> n, type |-> StartGroupType, size |-> l]
             /\ Skip(bs, at + l, StartGroupType) = at + Len(b)
  <2> DEFINE o1 == at + l
             o2 == at + (l + l)
             o3 == at + ((l + l) + l)
             o4 == at + ((((l + l) + l) + k) + FIX32)
  <2>1. Stands(five, bs, at) /\ Stands(z, bs, o4)
    BY <1>1, <1>7, <1>9, PartsStand
  <2>2. Stands(four, bs, at)
    BY <1>1, <1>6, <2>1, PartsStand DEF five
  <2>3. Stands(three, bs, at) /\ Stands(f, bs, o3)
    BY <1>1, <1>5, <2>2, PartsStand DEF four
  <2>4. Stands(two, bs, at) /\ Stands(z, bs, o2)
    BY <1>1, <1>4, <2>3, PartsStand DEF three
  <2>5. Stands(a, bs, at) /\ Stands(a, bs, o1)
    BY <1>1, <2>4, PartsStand DEF two
  <2>6. /\ o1 \in Nat /\ o2 \in Nat /\ o3 \in Nat /\ o4 \in Nat
        /\ o1 + l = o2 /\ o2 + l = o3 /\ (o3 + k) + FIX32 = o4 /\ o4 + l = at + Len(b)
    BY <1>1, <1>8
  <2> HIDE DEF o1, o2, o3, o4, b
  <2>7. PICK end : /\ \A o \in Nat : end[o] \in Later(o) /\ end[o] = EndOf(end, bs, o)
                   /\ \A from : Skip(bs, from, StartGroupType) = end[from]
    BY GroupEnds DEF B
  <2> USE DEF StartGroupType, EndGroupType, Fixed32Type, BytesType, VarIntType, Fixed64Type
  <2>8. end[o4] = at + Len(b)
    <3>1. ReadTag(bs, o4) = [number |-> n, type |-> EndGroupType, size |-> l]
      BY <1>3, <2>1, <2>6
    <3>2. EndOf(end, bs, o4) = o4 + l
      BY <1>1, <3>1 DEF EndOf
    <3> QED BY <2>6, <2>7, <3>2
  <2>9. end[o3] = end[o4]
    <3>1. ReadTag(bs, o3) = [number |-> 1, type |-> Fixed32Type, size |-> k]
      BY <1>3, <2>3, <2>6
    <3>2. SkipValue(bs, o3 + k, Fixed32Type) = o4
      BY <2>6 DEF SkipValue
    <3>3. EndOf(end, bs, o3) = end[o4]
      BY <1>1, <2>6, <3>1, <3>2 DEF EndOf
    <3> QED BY <2>6, <2>7, <3>3
  <2>10. end[o2] = o3
    <3>1. ReadTag(bs, o2) = [number |-> n, type |-> EndGroupType, size |-> l]
      BY <1>3, <2>4, <2>6
    <3>2. EndOf(end, bs, o2) = o2 + l
      BY <1>1, <3>1 DEF EndOf
    <3> QED BY <2>6, <2>7, <3>2
  <2>11. end[o1] = end[o3]
    <3>1. ReadTag(bs, o1) = [number |-> n, type |-> StartGroupType, size |-> l]
      BY <1>3, <2>5, <2>6
    <3>2. end[o1 + l] = o3 /\ ~(o3 < 0) /\ ~(l < 0)
      <4>1. ~(o3 < 0) /\ ~(l < 0)
        BY <1>1, <2>6
      <4>2. o1 + l = o2
        BY <2>6
      <4> QED BY <2>10, <4>1, <4>2
    <3>3. EndOf(end, bs, o1) = IF l < 0 THEN -1 ELSE IF end[o1 + l] < 0 THEN -1 ELSE end[end[o1 + l]]
      <4>1. \A t : t = [number |-> n, type |-> StartGroupType, size |-> l] => t.size = l /\ t.type = 3
        OBVIOUS
      <4> DEFINE t == ReadTag(bs, o1)
      <4>2. t.size = l /\ t.type = 3
        BY <3>1, <4>1
      <4>3. EndOf(end, bs, o1) =
              IF t.size < 0 THEN -1
              ELSE IF t.type = 4 THEN o1 + t.size
              ELSE IF (IF t.type = 3 THEN end[o1 + t.size] ELSE SkipValue(bs, o1 + t.size, t.type)) < 0
              THEN -1
              ELSE end[IF t.type = 3 THEN end[o1 + t.size] ELSE SkipValue(bs, o1 + t.size, t.type)]
        BY DEF EndOf
      <4> HIDE DEF t
      <4> QED BY <4>2, <4>3
    <3>4. EndOf(end, bs, o1) = end[o3]
      BY <3>2, <3>3
    <3> QED BY <2>6, <2>7, <3>4
  <2>12. Skip(bs, o1, StartGroupType) = at + Len(b)
    BY <2>7, <2>8, <2>9, <2>11
  <2> QED BY <1>3, <2>5, <2>12 DEF o1
<1>10. Len(b) \in Nat \ {0}
  BY <1>1, <1>8
<1> HIDE DEF b
<1>11. IsField(b, n, StartGroupType)
  BY <1>8, <1>9, <1>10 DEF IsField, B, l
<1> QED BY <1>2, <1>11

(***************************************************************************)
(* What another library writes.                                            *)
(***************************************************************************)

LEMMA AnySeq ==
  ASSUME NEW S, NEW x \in Seq(S)
  PROVE  IsSeq(x)
<1>1. \A i \in DOMAIN x : x[i] \in Range(x)
  BY DEF Range
<1> DEFINE R == Range(x)
<1> HIDE DEF R
<1>2. x = [i \in 1 .. Len(x) |-> x[i]] /\ Len(x) \in Nat /\ \A i \in 1 .. Len(x) : x[i] \in R
  BY <1>1 DEF R
<1>3. x \in Seq(R)
  BY <1>2
<1> QED BY <1>3 DEF IsSeq, R

LEMMA PartOfSeq ==
  ASSUME NEW x, IsSeq(x), NEW a \in Nat \ {0}, NEW b \in Nat, b <= Len(x), a <= b + 1
  PROVE  LET y == SubSeq(x, a, b)
         IN /\ IsSeq(y) /\ Len(y) = b - a + 1
            /\ \A i \in DOMAIN y : a + i - 1 \in DOMAIN x /\ y[i] = x[a + i - 1]
<1> DEFINE R == Range(x)
           y == SubSeq(x, a, b)
<1>1. x \in Seq(R)
  BY DEF IsSeq
<1> HIDE DEF R
<1>2. y \in Seq(R) /\ Len(y) = b - a + 1 /\ \A i \in 1 .. b - a + 1 : y[i] = x[a + i - 1]
  BY <1>1
<1>3. \A i \in 1 .. b - a + 1 : a + i - 1 \in 1 .. Len(x)
  BY <1>1
<1> HIDE DEF y
<1>4. DOMAIN y = 1 .. b - a + 1 /\ DOMAIN x = 1 .. Len(x)
  BY <1>1, <1>2
<1> QED BY <1>2, <1>3, <1>4, AnySeq DEF y

LEMMA BothAreFields ==
  ASSUME NEW p, NEW q, AreFields(p), AreFields(q)
  PROVE  AreFields(p \o q) /\ \A n : Named(p, n) /\ Named(q, n) => Named(p \o q, n)
<1> DEFINE S == Seq(Byte)
<1>1. p \in Seq(S) /\ q \in Seq(S)
  BY DEF AreFields
<1> HIDE DEF S
<1>2. /\ p \o q \in Seq(S) /\ Len(p \o q) = Len(p) + Len(q) /\ Len(p) \in Nat /\ Len(q) \in Nat
      /\ \A i \in 1 .. Len(p) + Len(q) : (p \o q)[i] = IF i <= Len(p) THEN p[i] ELSE q[i - Len(p)]
  BY <1>1, ConcatProperties
<1>3. ASSUME NEW i \in 1 .. Len(p \o q)
      PROVE  \/ i \in 1 .. Len(p) /\ (p \o q)[i] = p[i]
             \/ i - Len(p) \in 1 .. Len(q) /\ (p \o q)[i] = q[i - Len(p)]
  <2>1. CASE i <= Len(p)
    BY <1>2, <2>1
  <2>2. CASE ~(i <= Len(p))
    BY <1>2, <2>2
  <2> QED BY <2>1, <2>2
<1>4. ASSUME NEW i \in 1 .. Len(p \o q) PROVE \E n, type : IsField((p \o q)[i], n, type)
  BY <1>3 DEF AreFields
<1>5. ASSUME NEW n, Named(p, n), Named(q, n) PROVE Named(p \o q, n)
  BY <1>3, <1>5 DEF Named
<1> QED BY <1>2, <1>4, <1>5 DEF AreFields, S

LEMMA FewerPayloads ==
  ASSUME NEW f, Scalar(f), NEW x, IsSeq(x), \A i \in DOMAIN x : Holds(f, x[i]), NEW k \in 0 .. Len(x)
  PROVE  LET y == SubSeq(x, 1, k)
         IN IsSeq(y) /\ (\A i \in DOMAIN y : Holds(f, y[i])) /\ PayloadSizes(f, y) <= PayloadSizes(f, x)
<1> DEFINE n == Len(x)
           y == SubSeq(x, 1, k)
           sum == [i \in DOMAIN x |-> PayloadSize(f.of, x[i])]
           less == [i \in DOMAIN y |-> PayloadSize(f.of, y[i])]
<1>1. n \in Nat /\ DOMAIN x = 1 .. n
  BY SeqFacts
<1>2. IsSeq(y) /\ Len(y) = k /\ \A i \in 1 .. k : y[i] = x[i] /\ i \in DOMAIN x
  <2>1. k \in Nat /\ k <= Len(x) /\ 1 \in Nat \ {0} /\ 1 <= k + 1
    BY <1>1
  <2>2. /\ IsSeq(y) /\ Len(y) = k - 1 + 1
        /\ \A i \in DOMAIN y : 1 + i - 1 \in DOMAIN x /\ y[i] = x[1 + i - 1]
    BY <2>1, PartOfSeq
  <2> HIDE DEF y
  <2>3. DOMAIN y = 1 .. k /\ Len(y) = k
    BY <2>1, <2>2, SeqFacts
  <2>4. \A i \in 1 .. k : 1 + i - 1 = i
    OBVIOUS
  <2> QED BY <2>2, <2>3, <2>4
<1>3. DOMAIN y = 1 .. k
  <2> HIDE DEF y
  <2> QED BY <1>2, SeqFacts
<1>4. \A i \in DOMAIN x : PayloadSize(f.of, x[i]) \in Nat
  BY SizesAreExact DEF Scalar, Holds
<1>5. sum \in [1 .. n -> Nat]
  BY <1>1, <1>4
<1>6. less = [i \in 1 .. k |-> sum[i]]
  <2>1. \A i \in 1 .. k : PayloadSize(f.of, y[i]) = sum[i]
    <3> HIDE DEF y
    <3> QED BY <1>2
  <2> HIDE DEF sum, y
  <2> QED BY <1>3, <2>1
<1>7. SumFunction(less) = PartialSum(sum, k) /\ SumFunction(sum) = PayloadSizes(f, x)
  <2>1. SumFunction(less) = PartialSum(sum, k)
    <3> HIDE DEF less, sum
    <3> QED BY <1>6 DEF PartialSum
  <2> QED BY <2>1 DEF PayloadSizes
<1>8. SumFunction(less) = PayloadSizes(f, y)
  BY DEF PayloadSizes
<1>9. PartialSum(sum, k) <= SumFunction(sum)
  <2>1. k \in 0 .. n
    OBVIOUS
  <2> HIDE DEF sum, n
  <2> QED BY <1>1, <1>5, <2>1, PartialSums
<1>10. \A i \in DOMAIN y : Holds(f, y[i])
  <2> HIDE DEF y
  <2> QED BY <1>2, <1>3
<1> HIDE DEF less, sum, y
<1> QED BY <1>2, <1>7, <1>8, <1>9, <1>10 DEF y

LEMMA BytesEverywhere == \A d : BytesBelow(Bytes, d)
BY AllBytes DEF BytesBelow

LEMMA ForeignAreFields ==
  ASSUME exchange \in DOMAIN Exchanges, NEW f, NEW d, Declared(f, d), NEW x, HoldsAll(f, x),
         FieldFits(f, x), NEW pieces \in ForeignPieces(f, x)
  PROVE  AreFields(pieces) /\ (f.shape = "packed" => Named(pieces, f.number))
<1>0. f.number \in FieldNumbers /\ Shallow(f, d)
  BY Shapes DEF Declared
<1>1. CASE f.shape = "one"
  <2> DEFINE a == WriteOne(Bytes, f, x)
             b == WriteOne(Bytes, f, f.default)
             g == Group(e.unknown)
  <2>1. IsField(a, f.number, WireOf(f)) /\ IsField(b, f.number, WireOf(f))
    <3>1. Holds(f, x) /\ Holds(f, f.default)
      BY <1>1, Shapes DEF Declared
    <3> QED BY <1>0, <3>1, OneIsField, BytesEverywhere
  <2>2. IsField(g, e.unknown, StartGroupType)
    <3>1. e.unknown \in FieldNumbers
      BY MessageAssumption DEF e
    <3> QED BY <3>1, GroupIsField
  <2>3. pieces \in {<<a>>, <<b, a>>, <<g, a>>}
    BY <1>1 DEF ForeignPieces
  <2>4. \A p \in Seq(Byte) : <<p, a>> = <<p>> \o <<a>>
    OBVIOUS
  <2> HIDE DEF a, b, g
  <2>5. AreFields(<<a>>) /\ AreFields(<<b>>) /\ AreFields(<<g>>)
    BY <2>1, <2>2, OnlyField
  <2>6. AreFields(<<b>> \o <<a>>) /\ AreFields(<<g>> \o <<a>>)
    BY <2>5, BothAreFields
  <2>7. b \in Seq(Byte) /\ g \in Seq(Byte)
    BY <2>1, <2>2 DEF IsField
  <2>8. <<b, a>> = <<b>> \o <<a>> /\ <<g, a>> = <<g>> \o <<a>>
    BY <2>4, <2>7
  <2> QED BY <1>1, <2>3, <2>5, <2>6, <2>8
<1>2. CASE f.shape = "packed"
  <2>1. Scalar(f) /\ IsSeq(x) /\ (\A i \in DOMAIN x : Holds(f, x[i])) /\ PayloadSizes(f, x) < WORD
    BY <1>2, Shapes DEF FieldFits
  <2>2. PICK k \in 0 .. Len(x) :
           pieces = WritePacked(Bytes, f, SubSeq(x, 1, k)) \o WriteList(Bytes, f, SubSeq(x, k + 1, Len(x)))
    BY <1>2 DEF ForeignPieces
  <2> DEFINE y == SubSeq(x, 1, k)
             z == SubSeq(x, k + 1, Len(x))
  <2>3. AreFields(WritePacked(Bytes, f, y)) /\ Named(WritePacked(Bytes, f, y), f.number)
    <3>1. IsSeq(y) /\ (\A i \in DOMAIN y : Holds(f, y[i])) /\ PayloadSizes(f, y) <= PayloadSizes(f, x)
      BY <2>1, FewerPayloads
    <3> HIDE DEF y
    <3>2. PayloadSizes(f, y) < WORD
      <4>1. PayloadSizes(f, y) \in Nat /\ PayloadSizes(f, x) \in Nat /\ WORD \in Nat
        BY <2>1, <3>1, PayloadSizesIsNat, Widths DEF Even
      <4> QED BY <2>1, <3>1, <4>1
    <3> QED BY <1>0, <2>1, <3>1, <3>2, PackedAreFields
  <2>4. AreFields(WriteList(Bytes, f, z)) /\ Named(WriteList(Bytes, f, z), f.number)
    <3>1. IsSeq(z) /\ \A i \in DOMAIN z : Holds(f, z[i])
      <4> DEFINE l == Len(x)
      <4>1. l \in Nat
        BY <2>1, LengthIsNumber
      <4>2. k + 1 \in Nat \ {0} /\ l <= Len(x) /\ k + 1 <= l + 1
        BY <4>1
      <4> QED BY <2>1, <4>1, <4>2, PartOfSeq
    <3> HIDE DEF z
    <3> QED BY <1>0, <3>1, ListIsFields, BytesEverywhere
  <2> HIDE DEF y, z
  <2> QED BY <2>2, <2>3, <2>4, BothAreFields DEF y, z
<1>3. CASE f.shape \notin {"one", "packed"}
  <2>1. PICK order \in Orders(f, x) : pieces = WriteField(Bytes, f, x, order)
    BY <1>3 DEF ForeignPieces
  <2> QED BY <1>3, <2>1, FieldIsWritten, BytesEverywhere
<1> QED BY <1>1, <1>2, <1>3

(***************************************************************************)
(* The buffer is a chain of fields: where one ends, and the buffer does    *)
(* not, another starts.                                                    *)
(***************************************************************************)
FieldFrom(bs, at, n, type, end) ==
    \E b : IsField(b, n, type) /\ Stands(b, bs, at) /\ end = at + Len(b)
Chain(bs, from) ==
    /\ bs \in Seq(Byte) /\ from \subseteq 0 .. Len(bs)
    /\ 0 \in from \cup {Len(bs)}
    /\ \A at \in from : \E n, type : \E end \in from \cup {Len(bs)} : FieldFrom(bs, at, n, type, end)

LEMMA AppendedFields ==
  ASSUME NEW bs, NEW from, Chain(bs, from), NEW pieces, AreFields(pieces)
  PROVE  Chain(bs \o FlattenSeq(pieces),
               from \cup {Len(bs) + Len(FlattenSeq(SubSeq(pieces, 1, i - 1))) : i \in DOMAIN pieces})
<1> DEFINE T == Byte
           flat == FlattenSeq(pieces)
           all == bs \o flat
           l == Len(bs)
           m == Len(pieces)
           add == {l + Len(FlattenSeq(SubSeq(pieces, 1, i - 1))) : i \in DOMAIN pieces}
           ends == from \cup add \cup {Len(all)}
<1>1. pieces \in Seq(Seq(T)) /\ m \in Nat /\ DOMAIN pieces = 1 .. m
  BY DEF AreFields
<1>2. bs \in Seq(T) /\ l \in Nat
  BY DEF Chain
<1>3. \A b, n, type : IsField(b, n, type) => b \in Seq(T) /\ Len(b) \in Nat
  BY DEF IsField
<1> HIDE DEF T
<1>4. PICK off : Offsets(off, pieces)
  BY <1>1, OffsetsExist
<1>5. flat \in Seq(T) /\ Flat(flat, off, pieces, m)
  BY <1>1, <1>4, FlattenFacts
<1> HIDE DEF flat
<1>6. off \in [0 .. m -> Nat] /\ off[0] = 0 /\ \A i \in 1 .. m : off[i] = off[i - 1] + Len(pieces[i])
  BY <1>4 DEF Offsets
<1>7. Len(flat) = off[m]
  BY <1>5 DEF Flat
<1>8. /\ all \in Seq(T) /\ Len(all) = l + off[m] /\ off[m] \in Nat
      /\ \A i \in 1 .. l : all[i] = bs[i]
      /\ \A i \in 1 .. off[m] : all[l + i] = flat[i]
  <2>1. off[m] \in Nat
    BY <1>1, <1>6
  <2>2. /\ all \in Seq(T) /\ Len(all) = Len(bs) + Len(flat)
        /\ \A i \in 1 .. Len(bs) + Len(flat) : all[i] = IF i <= Len(bs) THEN bs[i] ELSE flat[i - Len(bs)]
    BY <1>2, <1>5, ConcatProperties
  <2> HIDE DEF all, l
  <2>3. ASSUME NEW i \in 1 .. l PROVE all[i] = bs[i]
    <3>1. i \in 1 .. Len(bs) + Len(flat) /\ i <= Len(bs)
      BY <1>2, <1>7, <2>1 DEF l
    <3> QED BY <2>2, <3>1
  <2>4. ASSUME NEW i \in 1 .. off[m] PROVE all[l + i] = flat[i]
    <3>1. l + i \in 1 .. Len(bs) + Len(flat) /\ ~(l + i <= Len(bs)) /\ (l + i) - Len(bs) = i
      BY <1>2, <1>7, <2>1 DEF l
    <3> DEFINE p == l + i
    <3> HIDE DEF p
    <3>2. p \in 1 .. Len(bs) + Len(flat) /\ ~(p <= Len(bs)) /\ p - Len(bs) = i
      BY <3>1 DEF p
    <3>3. all[p] = flat[i]
      BY <2>2, <3>2
    <3> QED BY <3>3 DEF p
  <2> QED BY <1>7, <2>1, <2>2, <2>3, <2>4 DEF l
<1>9. add = {l + off[i - 1] : i \in 1 .. m}
  <2>1. ASSUME NEW i \in 1 .. m PROVE Len(FlattenSeq(SubSeq(pieces, 1, i - 1))) = off[i - 1]
    <3>1. i - 1 \in 0 .. Len(pieces)
      BY <1>1
    <3> QED BY <1>1, <1>4, <3>1, FlattenPart
  <2> HIDE DEF l, m
  <2> QED BY <1>1, <2>1
<1>20. \A i \in 1 .. m : Len(pieces[i]) \in Nat
  BY <1>1
<1>25. \A i \in 1 .. m : \E n, type : IsField(pieces[i], n, type)
  BY DEF AreFields
<1>26. l = Len(bs)
  OBVIOUS
<1> HIDE DEF l, m, add
<1>24. \A i \in 1 .. m : i - 1 \in 0 .. m /\ i \in 0 .. m
  BY <1>1
<1>21. \A i \in 0 .. m : off[i] \in Nat
  BY <1>6
<1>22. l + off[m] \in ends
  BY <1>8
<1>23. add \subseteq ends /\ from \subseteq ends
  OBVIOUS
<1> HIDE DEF ends
<1>10. ASSUME NEW i \in 0 .. m PROVE l + off[i] \in ends /\ l + off[i] \in 0 .. Len(all)
  <2>1. l + off[i] \in ends
    <3>1. CASE i = m
      BY <1>22, <3>1
    <3>2. CASE i # m
      <4>1. i + 1 \in 1 .. m /\ (i + 1) - 1 = i
        BY <1>1, <3>2
      <4> DEFINE j == i + 1
      <4> HIDE DEF j
      <4>2. j \in 1 .. m /\ j - 1 = i
        BY <4>1 DEF j
      <4>3. l + off[j - 1] \in add
        BY <1>9, <4>2
      <4> QED BY <1>23, <4>2, <4>3
    <3> QED BY <3>1, <3>2
  <2>2. off[i] <= off[m] /\ off[i] \in Nat
    <3> DEFINE rest == m - i
               E == {k \in 0 .. rest : off[i] <= off[i + k]}
    <3>1. rest \in Nat /\ i + rest = m /\ off[i] \in Nat
      BY <1>1, <1>21
    <3>2. 0 \in E
      BY <3>1
    <3>3. ASSUME NEW k \in 1 .. rest, k - 1 \in E PROVE k \in E
      <4>1. i + k \in 1 .. m /\ (i + k) - 1 = i + (k - 1) /\ i + (k - 1) \in 0 .. m
        BY <1>1
      <4>2. Len(pieces[i + k]) \in Nat /\ off[i + (k - 1)] \in Nat
        BY <1>20, <1>21, <4>1
      <4>3. off[i + k] = off[i + (k - 1)] + Len(pieces[i + k])
        BY <1>6, <4>1
      <4>4. off[i] <= off[i + k]
        BY <3>1, <3>3, <4>2, <4>3
      <4> QED BY <4>4
    <3> HIDE DEF E, rest
    <3>4. 0 .. rest \subseteq E
      BY <3>1, <3>2, <3>3, UpTo
    <3>5. rest \in E
      BY <3>1, <3>4
    <3> QED BY <3>1, <3>5 DEF E
  <2> QED BY <1>2, <1>8, <2>1, <2>2
<1> HIDE DEF all
<1>11. ASSUME NEW i \in 1 .. m
       PROVE  \E n, type : \E end \in ends : FieldFrom(all, l + off[i - 1], n, type, end)
  <2>1. PICK n, type : IsField(pieces[i], n, type)
    BY <1>25
  <2>2. Stands(pieces[i], all, l + off[i - 1])
    <3> DEFINE b == pieces[i]
               at == off[i - 1]
    <3>6. i - 1 \in 0 .. m /\ i \in 1 .. m
      BY <1>24
    <3>1. b \in Seq(T) /\ Len(b) \in Nat /\ at \in Nat /\ off[i] = at + Len(b)
      BY <1>3, <1>6, <1>21, <2>1, <3>6
    <3>2. l + off[i] <= Len(all)
      <4>1. i \in 0 .. m
        OBVIOUS
      <4>2. l + off[i] \in 0 .. Len(all)
        BY <1>10, <4>1
      <4> QED BY <4>2
    <3>3. (l + at) + Len(b) <= Len(all)
      <4> HIDE DEF b, at
      <4> QED BY <1>2, <3>1, <3>2
    <3>4. ASSUME NEW k \in 1 .. Len(b) PROVE all[(l + at) + k] = b[k]
      <4>1. at + k \in 1 .. Len(flat) /\ flat[at + k] = b[k]
        BY <1>5, <3>4 DEF Flat
      <4> HIDE DEF b, at
      <4>2. (l + at) + k = l + (at + k) /\ at + k \in 1 .. off[m]
        BY <1>2, <1>7, <3>1, <4>1
      <4>3. all[l + (at + k)] = flat[at + k]
        BY <1>8, <4>2
      <4> QED BY <4>1, <4>2, <4>3
    <3> HIDE DEF b, at
    <3>5. Stands(b, all, l + at)
      BY <3>3, <3>4 DEF Stands
    <3> QED BY <3>5 DEF b, at
  <2>3. l + off[i] = (l + off[i - 1]) + Len(pieces[i]) /\ l + off[i] \in ends
    <3>1. i \in 0 .. m /\ i - 1 \in 0 .. m /\ Len(pieces[i]) \in Nat
      BY <1>20, <1>24
    <3>2. off[i] = off[i - 1] + Len(pieces[i]) /\ off[i - 1] \in Nat
      BY <1>6, <3>1
    <3>3. l + off[i] \in ends
      BY <1>10, <3>1
    <3> QED BY <1>2, <3>1, <3>2, <3>3
  <2> QED BY <2>1, <2>2, <2>3 DEF FieldFrom
<1>12. from \cup {l} \subseteq ends
  <2>1. 0 \in 0 .. m /\ l + off[0] = l
    BY <1>1, <1>2, <1>6
  <2>2. l + off[0] \in ends
    BY <1>10, <2>1
  <2> QED BY <1>23, <2>1, <2>2
<1>13. ASSUME NEW at \in from
       PROVE  \E n, type : \E end \in ends : FieldFrom(all, at, n, type, end)
  <2>1. PICK n, type : \E end \in from \cup {l} : FieldFrom(bs, at, n, type, end)
    BY DEF Chain, l
  <2>2. PICK end \in from \cup {l} : FieldFrom(bs, at, n, type, end)
    BY <2>1
  <2>3. PICK b : IsField(b, n, type) /\ Stands(b, bs, at) /\ end = at + Len(b)
    BY <2>2 DEF FieldFrom
  <2>4. at \in Nat /\ Len(b) \in Nat
    BY <1>2, <1>3, <1>26, <2>3 DEF Chain
  <2>5. at + Len(b) <= l /\ \A i \in 1 .. Len(b) : bs[at + i] = b[i]
    BY <1>26, <2>3 DEF Stands
  <2>6. \A i \in 1 .. Len(b) : at + i \in 1 .. l
    BY <1>2, <2>4, <2>5
  <2>7. at + Len(b) <= Len(all)
    BY <1>2, <1>8, <2>4, <2>5
  <2>8. Stands(b, all, at)
    BY <1>8, <2>5, <2>6, <2>7 DEF Stands
  <2> QED BY <1>12, <2>2, <2>3, <2>8 DEF FieldFrom
<1>14. from \cup add \subseteq 0 .. Len(all)
  <2>1. from \subseteq 0 .. Len(all)
    <3>1. from \subseteq 0 .. l
      BY <1>26 DEF Chain
    <3>2. 0 .. l \subseteq 0 .. Len(all)
      BY <1>2, <1>8
    <3> QED BY <3>1, <3>2
  <2>2. \A i \in 1 .. m : l + off[i - 1] \in 0 .. Len(all)
    <3> TAKE i \in 1 .. m
    <3>1. i - 1 \in 0 .. m
      BY <1>24
    <3> QED BY <1>10, <3>1
  <2> QED BY <1>9, <2>1, <2>2
<1>15. 0 \in ends
  BY <1>12 DEF Chain, l
<1>16. \A at \in from \cup add : \E n, type : \E end \in ends : FieldFrom(all, at, n, type, end)
  <2>1. ASSUME NEW at \in add PROVE \E n, type : \E end \in ends : FieldFrom(all, at, n, type, end)
    <3>1. PICK i \in 1 .. m : at = l + off[i - 1]
      BY <1>9
    <3> QED BY <1>11, <3>1
  <2> QED BY <1>13, <2>1
<1>17. all \in Seq(Byte)
  BY <1>8 DEF T
<1>18. Chain(all, from \cup add)
  BY <1>14, <1>15, <1>16, <1>17 DEF Chain, ends
<1> QED BY <1>18 DEF all, flat, add, l

LEMMA Appending ==
  ASSUME Chain(buf, starts), NEW pieces, AreFields(pieces), AppendAll(pieces)
  PROVE  Chain(buf', starts') /\ Len(buf') = Len(buf) + Len(FlattenSeq(pieces))
<1>1. /\ buf' = buf \o FlattenSeq(pieces)
      /\ starts' = starts \cup {Len(buf) + Len(FlattenSeq(SubSeq(pieces, 1, i - 1))) : i \in DOMAIN pieces}
  BY DEF AppendAll
<1>2. Chain(buf', starts')
  BY <1>1, AppendedFields
<1>3. Len(buf') = Len(buf) + Len(FlattenSeq(pieces))
  <2> DEFINE T == Byte
  <2>1. buf \in Seq(T) /\ FlattenSeq(pieces) \in Seq(T)
    BY PiecesAreBytes DEF Chain
  <2> HIDE DEF T
  <2> QED BY <1>1, <2>1, ConcatProperties
<1> QED BY <1>2, <1>3

(* What an exchange writes.                                                *)
FieldSizes(k) ==
    LET w == Exchanges[k].writer
    IN [i \in 1 .. Len(Fields[w]) |->
          SizeField(ContentSize, Fields[w][i], Exchanges[k].struct[Fields[w][i].number])]

LEMMA ExchangeFacts ==
  ASSUME NEW k \in DOMAIN Exchanges
  PROVE  LET w == Exchanges[k].writer
             n == Len(Fields[w])
         IN /\ n \in Nat /\ FieldSizes(k) \in [1 .. n -> Nat]
            /\ SizeFields(ContentSize, Message(k)) = SumFunction(FieldSizes(k))
            /\ \A i \in 1 .. n :
                  LET f == Fields[w][i]
                      x == Exchanges[k].struct[f.number]
                  IN Declared(f, Depth[w]) /\ HoldsAll(f, x) /\ FieldFits(f, x)
<1> DEFINE w == Exchanges[k].writer
           v == Exchanges[k].struct
           n == Len(Fields[w])
           msg == Message(k)
<1>1. IsMessage(msg) /\ v # Nothing /\ SizesFit(msg)
  BY MessageAssumption, SizeAssumption DEF Message
<1>2. msg.of = w /\ msg.struct = v
  BY DEF Message, MessageOf
<1> HIDE DEF msg, w, v
<1>3. IsSeq(Fields[w])
  BY <1>1, <1>2, MessageFacts
<1>4. n \in Nat /\ DOMAIN Fields[w] = 1 .. n
  BY <1>3, SeqFacts
<1>5. ASSUME NEW i \in 1 .. n
      PROVE  LET f == Fields[w][i]
                 x == v[f.number]
             IN Declared(f, Depth[w]) /\ HoldsAll(f, x) /\ FieldFits(f, x)
  <2>1. i \in DOMAIN Fields[msg.of] /\ msg.struct # Nothing
    BY <1>1, <1>2, <1>4
  <2>2. /\ Declared(Fields[msg.of][i], Depth[msg.of])
        /\ HoldsAll(Fields[msg.of][i], msg.struct[Fields[msg.of][i].number])
    BY <1>1, <2>1, MessageFacts
  <2>3. FieldFits(Fields[msg.of][i], msg.struct[Fields[msg.of][i].number])
    BY <1>1, <2>1, FitFacts
  <2> QED BY <1>2, <2>2, <2>3
<1>6. FieldSizes(k) = [i \in 1 .. n |-> SizeField(ContentSize, Fields[w][i], v[Fields[w][i].number])]
  BY DEF FieldSizes, w, v
<1>7. SizesBelow(ContentSize, Depth[w])
  BY ContentSizes DEF SizesBelow
<1>8. \A i \in 1 .. n : SizeField(ContentSize, Fields[w][i], v[Fields[w][i].number]) \in Nat
  BY <1>5, <1>7, SizeFieldIsNat
<1>9. FieldSizes(k) \in [1 .. n -> Nat]
  BY <1>6, <1>8
<1>10. SizeFields(ContentSize, msg) = SumFunction(FieldSizes(k))
  BY <1>1, <1>2, <1>4, <1>6 DEF SizeFields
<1> QED BY <1>4, <1>5, <1>9, <1>10 DEF msg, w, v

(***************************************************************************)
(* The buffer is the fields written so far, as long as they were to be,    *)
(* and Unmarshal stands where one of them starts.                          *)
(***************************************************************************)
Marshalling ==
    /\ exchange \in DOMAIN Exchanges
    /\ stage \in {"marshal", "unmarshal", "read"}
    /\ next \in 1 .. Len(Fields[e.writer]) + 1
    /\ stage # "marshal" => next = Len(Fields[e.writer]) + 1
    /\ size = SizeFields(ContentSize, Message(exchange))
    /\ Chain(buf, starts)
    /\ ~e.foreign => Len(buf) = PartialSum(FieldSizes(exchange), next - 1)
Scanning ==
    /\ ~scan.failed
    /\ stage = "marshal" => scan.offset = 0
    /\ stage = "unmarshal" => scan.offset \in starts \cup {Len(buf)}
    /\ stage = "read" => scan.offset = Len(buf)
IInv == Marshalling /\ Scanning

LEMMA InvariantImplies == IInv => SizeIsExact /\ OffsetsAreFieldStarts
<1> SUFFICES ASSUME IInv PROVE SizeIsExact /\ OffsetsAreFieldStarts
  OBVIOUS
<1> DEFINE n == Len(Fields[e.writer])
           sizes == FieldSizes(exchange)
<1>1. OffsetsAreFieldStarts
  BY DEF IInv, Scanning, OffsetsAreFieldStarts
<1>2. n \in Nat /\ sizes \in [1 .. n -> Nat] /\ size = SumFunction(sizes)
  BY ExchangeFacts DEF IInv, Marshalling, e
<1>3. next \in 1 .. n + 1 /\ (stage # "marshal" => next = n + 1)
  BY DEF IInv, Marshalling
<1>4. ASSUME ~e.foreign PROVE Len(buf) <= size /\ (stage # "marshal" => Len(buf) = size)
  <2>1. Len(buf) = PartialSum(sizes, next - 1)
    BY <1>4 DEF IInv, Marshalling
  <2> HIDE DEF sizes, n
  <2> DEFINE k == next - 1
  <2>2. k \in 0 .. n /\ (stage # "marshal" => k = n)
    BY <1>2, <1>3
  <2> HIDE DEF k
  <2>3. PartialSum(sizes, k) <= SumFunction(sizes) /\ PartialSum(sizes, n) = SumFunction(sizes)
    BY <1>2, <2>2, PartialSums
  <2>4. Len(buf) = PartialSum(sizes, k)
    BY <2>1 DEF k
  <2> QED BY <1>2, <2>2, <2>3, <2>4
<1>5. SizeIsExact
  BY <1>4 DEF SizeIsExact
<1> QED BY <1>1, <1>5

LEMMA InvariantInit == Init => IInv
<1> SUFFICES ASSUME Init PROVE IInv
  OBVIOUS
<1> DEFINE n == Len(Fields[e.writer])
           sizes == FieldSizes(exchange)
<1>1. exchange \in DOMAIN Exchanges /\ stage = "marshal" /\ next = 1 /\ buf = <<>> /\ starts = {}
  BY DEF Init
<1>2. n \in Nat /\ sizes \in [1 .. n -> Nat]
  BY <1>1, ExchangeFacts DEF e
<1>3. PartialSum(sizes, next - 1) = 0
  <2> HIDE DEF n, sizes
  <2>1. PartialSum(sizes, 0) = 0
    BY <1>2, PartialSums
  <2> QED BY <1>1, <2>1
<1>4. next \in 1 .. n + 1
  BY <1>1, <1>2
<1>5. Chain(buf, starts)
  BY <1>1 DEF Chain
<1>6. Marshalling
  BY <1>1, <1>3, <1>4, <1>5 DEF Init, Marshalling
<1>7. Scanning
  BY <1>1 DEF Init, Scanning, NewReader
<1> QED BY <1>6, <1>7 DEF IInv

LEMMA StartsAreFields ==
  ASSUME Chain(buf, starts), NEW at \in starts
  PROVE  LET tag == ReadTag(buf, at)
         IN /\ tag.size \in Nat /\ at \in Nat
            /\ Skip(buf, at + tag.size, tag.type) \in starts \cup {Len(buf)}
            /\ starts \cup {Len(buf)} \subseteq Nat
<1>1. buf \in Seq(Byte) /\ starts \subseteq 0 .. Len(buf)
  BY DEF Chain
<1>2. Len(buf) \in Nat
  <2> DEFINE T == Byte
  <2>1. buf \in Seq(T)
    BY <1>1
  <2> HIDE DEF T
  <2> QED BY <2>1
<1>3. at \in Nat /\ starts \cup {Len(buf)} \subseteq Nat
  <2> DEFINE l == Len(buf)
  <2>1. l \in Nat /\ starts \subseteq 0 .. l
    BY <1>1, <1>2
  <2> HIDE DEF l
  <2>2. starts \subseteq Nat /\ {l} \subseteq Nat
    BY <2>1
  <2> QED BY <2>2 DEF l
<1>8. PICK n, type : \E end \in starts \cup {Len(buf)} : FieldFrom(buf, at, n, type, end)
  BY DEF Chain
<1>4. PICK end \in starts \cup {Len(buf)} : FieldFrom(buf, at, n, type, end)
  BY <1>8
<1>5. PICK b : IsField(b, n, type) /\ Stands(b, buf, at) /\ end = at + Len(b)
  BY <1>4 DEF FieldFrom
<1>6. /\ ReadTag(buf, at) = [number |-> n, type |-> type, size |-> SizeTag(n)]
      /\ Skip(buf, at + SizeTag(n), type) = end
  BY <1>1, <1>3, <1>5 DEF IsField
<1>7. SizeTag(n) \in Nat
  <2>1. n \in FieldNumbers
    BY <1>5 DEF IsField
  <2>2. 0 \in 0 .. 7
    OBVIOUS
  <2> QED BY <2>1, <2>2, TagIsRead
<1> QED BY <1>3, <1>6, <1>7

LEMMA InvariantMarshal == IInv /\ Marshal => IInv'
<1> SUFFICES ASSUME IInv, Marshal PROVE IInv'
  OBVIOUS
<1> DEFINE w == e.writer
           f == Fields[w][next]
           x == e.struct[f.number]
           n == Len(Fields[w])
           sizes == FieldSizes(exchange)
<1>1. /\ exchange \in DOMAIN Exchanges /\ next \in 1 .. n + 1 /\ Chain(buf, starts)
      /\ size = SizeFields(ContentSize, Message(exchange))
      /\ ~e.foreign => Len(buf) = PartialSum(sizes, next - 1)
  BY DEF IInv, Marshalling
<1>2. /\ stage = "marshal" /\ next <= n /\ next' = next + 1
      /\ exchange' = exchange /\ stage' = stage /\ size' = size /\ scan' = scan
  BY DEF Marshal
<1>3. PICK order \in Orders(f, x) : AppendAll(WriteField(Bytes, f, x, order))
  BY DEF Marshal
<1>4. n \in Nat /\ sizes \in [1 .. n -> Nat]
  BY <1>1, ExchangeFacts DEF e
<1>5. next \in 1 .. n /\ next' \in 1 .. n + 1 /\ next' - 1 = next
  <2> HIDE DEF n
  <2> QED BY <1>1, <1>2, <1>4
<1>6. Declared(f, Depth[w]) /\ HoldsAll(f, x) /\ FieldFits(f, x)
  BY <1>1, <1>5, ExchangeFacts DEF e
<1> DEFINE pieces == WriteField(Bytes, f, x, order)
<1>7. AreFields(pieces) /\ Len(FlattenSeq(pieces)) = SizeField(ContentSize, f, x)
  <2> HIDE DEF f, x
  <2> QED BY <1>3, <1>6, BytesEverywhere, FieldIsWritten
<1>8. sizes[next] = SizeField(ContentSize, f, x)
  BY <1>5 DEF FieldSizes, e
<1> HIDE DEF pieces
<1>9. Chain(buf', starts') /\ Len(buf') = Len(buf) + Len(FlattenSeq(pieces))
  <2>1. AppendAll(pieces)
    BY <1>3 DEF pieces
  <2> QED BY <1>1, <1>7, <2>1, Appending
<1>10. ~e.foreign => Len(buf') = PartialSum(sizes, next)
  <2>1. PartialSum(sizes, next) = PartialSum(sizes, next - 1) + sizes[next]
    <3> HIDE DEF sizes, n
    <3> QED BY <1>4, <1>5, PartialSums
  <2> QED BY <1>1, <1>7, <1>8, <1>9, <2>1
<1>11. Marshalling'
  <2>1. e' = e
    BY <1>2 DEF e
  <2> QED BY <1>1, <1>2, <1>5, <1>9, <1>10, <2>1 DEF Marshalling
<1>12. Scanning'
  BY <1>2 DEF IInv, Scanning
<1> QED BY <1>11, <1>12 DEF IInv

LEMMA InvariantMarshalElsewhere == IInv /\ MarshalElsewhere => IInv'
<1> SUFFICES ASSUME IInv, MarshalElsewhere PROVE IInv'
  OBVIOUS
<1> DEFINE w == e.writer
           f == Fields[w][next]
           x == e.struct[f.number]
           n == Len(Fields[w])
<1>1. /\ exchange \in DOMAIN Exchanges /\ next \in 1 .. n + 1 /\ Chain(buf, starts)
      /\ size = SizeFields(ContentSize, Message(exchange))
  BY DEF IInv, Marshalling
<1>2. /\ e.foreign /\ stage = "marshal" /\ next <= n /\ next' = next + 1
      /\ exchange' = exchange /\ stage' = stage /\ size' = size /\ scan' = scan
  BY DEF MarshalElsewhere
<1>3. PICK pieces \in ForeignPieces(f, x) : AppendAll(pieces)
  BY DEF MarshalElsewhere
<1>4. n \in Nat
  BY <1>1, ExchangeFacts DEF e
<1>5. next \in 1 .. n /\ next' \in 1 .. n + 1
  <2> HIDE DEF n
  <2> QED BY <1>1, <1>2, <1>4
<1>6. Declared(f, Depth[w]) /\ HoldsAll(f, x) /\ FieldFits(f, x)
  BY <1>1, <1>5, ExchangeFacts DEF e
<1>7. AreFields(pieces)
  <2> HIDE DEF f, x
  <2> QED BY <1>1, <1>3, <1>6, ForeignAreFields
<1>8. Chain(buf', starts')
  BY <1>1, <1>3, <1>7, Appending
<1>9. Marshalling'
  <2>1. e' = e
    BY <1>2 DEF e
  <2> QED BY <1>1, <1>2, <1>5, <1>8, <2>1 DEF Marshalling
<1>10. Scanning'
  BY <1>2 DEF IInv, Scanning
<1> QED BY <1>9, <1>10 DEF IInv

LEMMA InvariantSend == IInv /\ Send => IInv'
<1> SUFFICES ASSUME IInv, Send PROVE IInv'
  OBVIOUS
<1> DEFINE n == Len(Fields[e.writer])
<1>1. /\ stage = "marshal" /\ next > n /\ stage' = "unmarshal"
      /\ UNCHANGED <<exchange, next, size, buf, starts, scan>> /\ e' = e
  BY DEF Send, e
<1>2. next = n + 1
  <2>1. next \in 1 .. n + 1 /\ n \in Nat
    BY ExchangeFacts DEF IInv, Marshalling, e
  <2> HIDE DEF n
  <2> QED BY <1>1, <2>1
<1>3. Marshalling'
  BY <1>1, <1>2 DEF IInv, Marshalling
<1>4. Scanning'
  <2>1. scan.offset = 0 /\ ~scan.failed /\ 0 \in starts \cup {Len(buf)}
    BY <1>1 DEF IInv, Marshalling, Scanning, Chain
  <2> QED BY <1>1, <2>1 DEF Scanning
<1> QED BY <1>3, <1>4 DEF IInv

LEMMA InvariantUnmarshal == IInv /\ Unmarshal => IInv'
<1> SUFFICES ASSUME IInv, Unmarshal PROVE IInv'
  OBVIOUS
<1> DEFINE at == scan.offset
           tag == ReadTag(buf, at)
           after == Skip(buf, at + tag.size, tag.type)
<1>1. /\ stage = "unmarshal" /\ Goes(buf, scan) /\ scan' = Turn(e.reader, buf, scan)
      /\ UNCHANGED <<exchange, stage, next, size, buf, starts>> /\ e' = e
  BY DEF Unmarshal, e
<1>2. at \in starts \cup {Len(buf)} /\ Chain(buf, starts)
  BY <1>1 DEF IInv, Marshalling, Scanning
<1>3. at \in starts
  <2>1. at + 0 < Len(buf)
    BY <1>1 DEF Goes, HasNext
  <2>2. ~(Len(buf) + 0 < Len(buf))
    <3> DEFINE T == Byte
    <3>1. buf \in Seq(T)
      BY <1>2 DEF Chain
    <3> HIDE DEF T
    <3> QED BY <3>1
  <2> QED BY <1>2, <2>1, <2>2
<1>4. tag.size \in Nat /\ after \in starts \cup {Len(buf)} /\ after \in Nat
  BY <1>2, <1>3, StartsAreFields
<1>5. ~(tag.size < 0) /\ ~(after < 0)
  <2> HIDE DEF tag, after
  <2> QED BY <1>4
<1>6. scan'.offset = after /\ ~scan'.failed
  BY <1>1, <1>5 DEF Turn
<1>7. Marshalling'
  BY <1>1 DEF IInv, Marshalling
<1>8. Scanning'
  BY <1>1, <1>4, <1>6 DEF Scanning
<1> QED BY <1>7, <1>8 DEF IInv

LEMMA InvariantUnmarshalled == IInv /\ Unmarshalled => IInv'
<1> SUFFICES ASSUME IInv, Unmarshalled PROVE IInv'
  OBVIOUS
<1> DEFINE at == scan.offset
<1>1. /\ stage = "unmarshal" /\ ~Goes(buf, scan) /\ ~scan.failed /\ stage' = "read"
      /\ UNCHANGED <<exchange, next, size, buf, starts, scan>> /\ e' = e
  BY DEF Unmarshalled, e, IInv, Scanning
<1>2. at \in starts \cup {Len(buf)} /\ Chain(buf, starts) /\ next = Len(Fields[e.writer]) + 1
  BY <1>1 DEF IInv, Marshalling, Scanning
<1>3. at = Len(buf)
  <2>1. ~(at + 0 < Len(buf))
    BY <1>1 DEF Goes, HasNext
  <2> DEFINE T == Byte
             l == Len(buf)
  <2>2. buf \in Seq(T) /\ starts \subseteq 0 .. l
    BY <1>2 DEF Chain
  <2> HIDE DEF T
  <2>3. l \in Nat
    BY <2>2
  <2>4. at \in 0 .. l
    <3> HIDE DEF l
    <3>1. at \in starts \/ at = l
      BY <1>2 DEF l
    <3>2. l \in 0 .. l
      BY <2>3
    <3> HIDE DEF at
    <3> QED BY <2>2, <3>1, <3>2
  <2> HIDE DEF at
  <2> QED BY <2>1, <2>3, <2>4
<1>4. Marshalling'
  BY <1>1, <1>2 DEF IInv, Marshalling
<1>5. Scanning'
  BY <1>1, <1>3 DEF Scanning
<1> QED BY <1>4, <1>5 DEF IInv

LEMMA InvariantGet == ASSUME NEW n, IInv, Get(n) PROVE IInv'
<1>1. UNCHANGED <<exchange, stage, next, size, buf, starts, scan>> /\ e' = e
  BY DEF Get, e
<1> QED BY <1>1 DEF IInv, Marshalling, Scanning

LEMMA InvariantNext == IInv /\ [Next]_vars => IInv'
<1> SUFFICES ASSUME IInv, [Next]_vars PROVE IInv'
  OBVIOUS
<1>1. CASE UNCHANGED vars
  <2>1. e' = e
    BY <1>1 DEF vars, e
  <2> QED BY <1>1, <2>1 DEF vars, IInv, Marshalling, Scanning
<1>2. ASSUME NEW n \in Numbers(e.reader), Get(n) PROVE IInv'
  BY <1>2, InvariantGet
<1> QED BY <1>1, <1>2, InvariantMarshal, InvariantMarshalElsewhere, InvariantSend,
           InvariantUnmarshal, InvariantUnmarshalled DEF Next

LEMMA Invariant == Spec => []IInv
<1> QED BY InvariantInit, InvariantNext, PTL DEF Spec

(* Nothing is ever appended past the capacity the generated code computed  *)
(* beforehand, and a message that is written whole fills it to the byte:   *)
(* for every declaration, every struct and every width, and whatever order *)
(* Go takes the entries of its maps in.                                    *)
THEOREM BufferIsExact == Spec => []SizeIsExact
<1> QED BY Invariant, InvariantImplies, PTL

(* Unmarshal never fails on what either library wrote, whether or not the  *)
(* reader knows the fields: each turn of its loop lands on the start of    *)
(* another field, and the last on the end of the buffer.                   *)
THEOREM UnmarshalStaysOnFields == Spec => []OffsetsAreFieldStarts
<1> QED BY Invariant, InvariantImplies, PTL

-----------------------------------------------------------------------------

(***************************************************************************)
(* Scanning: what Unmarshal remembers of a sequence of fields.             *)
(***************************************************************************)

(* The number and the wire type of a field on the wire.                    *)
Num(b) == ReadTag(b, 0).number
Wire(b) == ReadTag(b, 0).type

LEMMA FieldNames ==
  ASSUME NEW b, NEW n, NEW type, IsField(b, n, type)
  PROVE  Num(b) = n /\ Wire(b) = type /\ b \in Seq(Byte) /\ Len(b) \in Nat \ {0} /\ n \in FieldNumbers
<1>1. b \in Seq(Byte) /\ Len(b) \in Nat \ {0} /\ n \in FieldNumbers
  BY DEF IsField
<1>2. Stands(b, b, 0)
  <2>1. \A i \in 1 .. Len(b) : 0 + i = i
    BY <1>1
  <2>2. 0 + Len(b) <= Len(b)
    BY <1>1
  <2> QED BY <2>1, <2>2 DEF Stands
<1>3. ReadTag(b, 0) = [number |-> n, type |-> type, size |-> SizeTag(n)]
  <2>1. 0 \in Nat
    OBVIOUS
  <2> QED BY <1>1, <1>2, <2>1 DEF IsField
<1> QED BY <1>1, <1>3 DEF Num, Wire

(* Where the parts of a sequence of sequences stand in all of it.          *)
LEMMA PartsOfAll ==
  ASSUME NEW T, NEW pieces \in Seq(Seq(T)), NEW off, Offsets(off, pieces),
         \A i \in 1 .. Len(pieces) : Len(pieces[i]) \in Nat \ {0}
  PROVE  LET bs == FlattenSeq(pieces)
         IN /\ Len(pieces) \in Nat /\ bs \in Seq(T) /\ Len(bs) \in Nat
            /\ Len(bs) = off[Len(pieces)] /\ off[0] = 0
            /\ \A i \in 0 .. Len(pieces) : off[i] \in Nat /\ off[i] >= i
            /\ \A i \in 1 .. Len(pieces) :
                  /\ Stands(pieces[i], bs, off[i - 1]) /\ off[i] = off[i - 1] + Len(pieces[i])
                  /\ off[i - 1] < Len(bs)
<1> DEFINE bs == FlattenSeq(pieces)
           m == Len(pieces)
<1>1. pieces \in Seq(Seq(T)) /\ m \in Nat
  OBVIOUS
<1>2. \A i \in 1 .. m : Len(pieces[i]) \in Nat \ {0}
  OBVIOUS
<1>3. bs \in Seq(T) /\ Flat(bs, off, pieces, m)
  BY <1>1, FlattenFacts
<1>4. Len(bs) \in Nat
  <2> HIDE DEF bs
  <2> QED BY <1>3
<1> HIDE DEF bs, m
<1>5. off \in [0 .. m -> Nat] /\ off[0] = 0 /\ \A i \in 1 .. m : off[i] = off[i - 1] + Len(pieces[i])
  BY DEF Offsets, m
<1>6. ASSUME NEW i \in 1 .. m PROVE Stands(pieces[i], bs, off[i - 1]) /\ off[i - 1] < Len(bs)
  <2> DEFINE l == Len(pieces[i])
             at == off[i - 1]
  <2>1. l \in Nat \ {0} /\ at \in Nat
    <3>1. i - 1 \in 0 .. m
      BY <1>1
    <3> QED BY <1>2, <1>5, <3>1
  <2>2. \A k \in 1 .. l : at + k \in 1 .. Len(bs) /\ bs[at + k] = pieces[i][k]
    BY <1>3 DEF Flat
  <2> HIDE DEF l, at
  <2>3. l \in 1 .. l
    BY <2>1
  <2>4. at + l \in 1 .. Len(bs)
    BY <2>2, <2>3
  <2>5. at + l <= Len(bs) /\ at < Len(bs)
    BY <1>4, <2>1, <2>4
  <2> QED BY <2>2, <2>5 DEF Stands, l, at
<1> DEFINE E == {i \in 0 .. m : off[i] >= i}
<1>7. 0 .. m \subseteq E
  <2>1. 0 \in E
    BY <1>1, <1>5
  <2>2. ASSUME NEW i \in 1 .. m, i - 1 \in E PROVE i \in E
    <3>1. i - 1 \in 0 .. m /\ i \in 0 .. m
      BY <1>1
    <3>2. off[i - 1] \in Nat /\ off[i - 1] >= i - 1 /\ off[i] = off[i - 1] + Len(pieces[i])
          /\ Len(pieces[i]) \in Nat \ {0}
      BY <1>2, <1>5, <2>2, <3>1
    <3> QED BY <3>1, <3>2
  <2> HIDE DEF E
  <2> QED BY <1>1, <2>1, <2>2, UpTo
<1>8. Len(bs) = off[m]
  BY <1>3 DEF Flat
<1> QED BY <1>1, <1>3, <1>4, <1>5, <1>6, <1>7, <1>8 DEF bs, m

(* Where the fields of a sequence stand in their bytes.                    *)
LEMMA PiecesStand ==
  ASSUME NEW pieces, AreFields(pieces), NEW off, Offsets(off, pieces)
  PROVE  LET bs == FlattenSeq(pieces)
         IN /\ Len(pieces) \in Nat /\ bs \in Seq(Byte) /\ Len(bs) \in Nat
            /\ Len(bs) = off[Len(pieces)] /\ off[0] = 0
            /\ \A i \in 0 .. Len(pieces) : off[i] \in Nat /\ off[i] >= i
            /\ \A i \in 1 .. Len(pieces) :
                  /\ Stands(pieces[i], bs, off[i - 1]) /\ off[i] = off[i - 1] + Len(pieces[i])
                  /\ IsField(pieces[i], Num(pieces[i]), Wire(pieces[i]))
                  /\ off[i - 1] < Len(bs)
<1> DEFINE T == Byte
           bs == FlattenSeq(pieces)
           m == Len(pieces)
<1>1. pieces \in Seq(Seq(T)) /\ m \in Nat
  BY DEF AreFields
<1>2. ASSUME NEW i \in 1 .. m
      PROVE  /\ IsField(pieces[i], Num(pieces[i]), Wire(pieces[i]))
             /\ Len(pieces[i]) \in Nat \ {0}
  <2>1. PICK n, type : IsField(pieces[i], n, type)
    BY DEF AreFields
  <2> QED BY <2>1, FieldNames
<1> HIDE DEF T
<1>3. \A i \in 1 .. m : Len(pieces[i]) \in Nat \ {0}
  BY <1>2
<1>4. /\ m \in Nat /\ bs \in Seq(T) /\ Len(bs) \in Nat /\ Len(bs) = off[m] /\ off[0] = 0
      /\ \A i \in 0 .. m : off[i] \in Nat /\ off[i] >= i
      /\ \A i \in 1 .. m : /\ Stands(pieces[i], bs, off[i - 1]) /\ off[i] = off[i - 1] + Len(pieces[i])
                           /\ off[i - 1] < Len(bs)
  BY <1>1, <1>3, PartsOfAll
<1> HIDE DEF bs, m
<1> QED BY <1>2, <1>4 DEF T, bs, m

(* The place of a field: where its value is, and its wire type.  A single  *)
(* field is where it was seen last.                                        *)
Place(pieces, off, i) == <<off[i - 1] + SizeTag(Num(pieces[i])), Wire(pieces[i])>>
Kept(shape, places) ==
    IF shape = "one" THEN IF places = <<>> THEN <<>> ELSE <<places[Len(places)]>> ELSE places

(* The first k fields that have a number are c fields behind the lo-th.    *)
Span(pieces, k, n, lo, c) == {i \in 1 .. k : Num(pieces[i]) = n} = lo + 1 .. lo + c
Found(type, pieces, off, k, known) ==
    /\ known = [n \in Numbers(type) |-> known[n]]
    /\ \A n \in Numbers(type), lo \in Nat, c \in Nat :
          Span(pieces, k, n, lo, c) =>
             known[n] = Kept(Field(type, n).shape, [i \in 1 .. c |-> Place(pieces, off, lo + i)])
ScannedTo(type, pieces, off, k, r) ==
    r.offset = off[k] /\ r.failed = FALSE /\ Found(type, pieces, off, k, r.offsets)

LEMMA OneMore ==
  ASSUME NEW S, NEW c \in Nat \ {0}, NEW g \in [1 .. c -> S]
  PROVE  Append([i \in 1 .. c - 1 |-> g[i]], g[c]) = [i \in 1 .. c |-> g[i]]
<1> DEFINE s == [i \in 1 .. c - 1 |-> g[i]]
           t == [i \in 1 .. c |-> g[i]]
<1>1. s \in Seq(S) /\ Len(s) = c - 1 /\ g[c] \in S
  OBVIOUS
<1>2. t \in Seq(S) /\ Len(t) = c /\ \A i \in 1 .. c : t[i] = g[i]
  OBVIOUS
<1>3. \A i \in 1 .. c - 1 : s[i] = g[i]
  OBVIOUS
<1> HIDE DEF s, t
<1>4. /\ Append(s, g[c]) \in Seq(S) /\ Len(Append(s, g[c])) = Len(s) + 1
      /\ \A i \in 1 .. Len(s) : Append(s, g[c])[i] = s[i]
      /\ Append(s, g[c])[Len(s) + 1] = g[c]
  BY <1>1, AppendProperties
<1>5. Len(s) + 1 = c
  BY <1>1
<1>6. ASSUME NEW i \in 1 .. c PROVE Append(s, g[c])[i] = t[i]
  <2>1. CASE i = c
    BY <1>2, <1>4, <1>5, <2>1
  <2>2. CASE i # c
    <3>1. i \in 1 .. c - 1
      BY <2>2
    <3> QED BY <1>1, <1>2, <1>3, <1>4, <3>1
  <2> QED BY <2>1, <2>2
<1>7. Append(s, g[c]) = t
  BY <1>2, <1>4, <1>5, <1>6, SeqEqual
<1> QED BY <1>7 DEF s, t

LEMMA KeptOnce ==
  ASSUME NEW c \in Nat, NEW S, NEW g \in [1 .. c -> S], NEW shape
  PROVE  Kept(shape, g) = IF shape = "one" THEN IF c = 0 THEN <<>> ELSE <<g[c]>> ELSE g
<1>1. Len(g) = c /\ (g = <<>> <=> c = 0)
  <2>1. g \in Seq(S) /\ Len(g) = c
    OBVIOUS
  <2>2. g = <<>> <=> Len(g) = 0
    BY <2>1, EmptySeq
  <2> QED BY <2>1, <2>2
<1> QED BY <1>1 DEF Kept

LEMMA SavedPlaces ==
  ASSUME NEW type, NEW pieces, NEW off, NEW k \in Nat \ {0}, NEW known,
         Found(type, pieces, off, k - 1, known)
  PROVE  Found(type, pieces, off, k,
               Save(type, known, Num(pieces[k]), off[k - 1] + SizeTag(Num(pieces[k])), Wire(pieces[k])))
<1> DEFINE name == Num(pieces[k])
           here == Place(pieces, off, k)
           P(i) == Place(pieces, off, i)
           new == Save(type, known, name, off[k - 1] + SizeTag(name), Wire(pieces[k]))
<1>1. /\ name \notin Numbers(type) => new = known
      /\ name \in Numbers(type) =>
            new = [known EXCEPT ![name] =
                      IF Field(type, name).shape = "one" THEN <<here>> ELSE Append(@, here)]
  BY DEF Save, Place
<1>2. known = [n \in Numbers(type) |-> known[n]]
  BY DEF Found
<1> HIDE DEF new, here, name
<1>3. /\ new = [n \in Numbers(type) |-> new[n]]
      /\ \A n \in Numbers(type) :
            /\ n # name => new[n] = known[n]
            /\ n = name => new[n] = IF Field(type, n).shape = "one" THEN <<here>>
                                    ELSE Append(known[n], here)
  BY <1>1, <1>2
<1>4. ASSUME NEW n \in Numbers(type), NEW lo \in Nat, NEW c \in Nat, Span(pieces, k, n, lo, c)
      PROVE  new[n] = Kept(Field(type, n).shape, [i \in 1 .. c |-> Place(pieces, off, lo + i)])
  <2> DEFINE N(i) == Num(pieces[i])
             shape == Field(type, n).shape
  <2>1. {i \in 1 .. k : N(i) = n} = lo + 1 .. lo + c
    BY <1>4 DEF Span
  <2>2. N(k) = name
    BY DEF name
  <2>3. \A a \in Nat : (({i \in 1 .. k - 1 : N(i) = n} = lo + 1 .. lo + a) =>
           known[n] = Kept(shape, [i \in 1 .. a |-> P(lo + i)]))
    BY DEF Found, Span
  <2> HIDE DEF N, P, shape
  <2>4. CASE name # n
    <3>1. {i \in 1 .. k - 1 : N(i) = n} = {i \in 1 .. k : N(i) = n}
      BY <2>2, <2>4
    <3> QED BY <1>3, <2>1, <2>3, <2>4, <3>1 DEF P, shape
  <2>5. CASE name = n
    <3>1. k \in lo + 1 .. lo + c
      BY <2>1, <2>2, <2>5
    <3>2. c # 0 /\ lo + c \in lo + 1 .. lo + c
      BY <3>1
    <3>3. lo + c \in 1 .. k
      BY <2>1, <3>2
    <3>4. k = lo + c /\ c - 1 \in Nat
      BY <3>1, <3>2, <3>3
    <3>5. {i \in 1 .. k - 1 : N(i) = n} = lo + 1 .. lo + (c - 1)
      <4>1. \A i : i \in 1 .. k /\ N(i) = n <=> i \in lo + 1 .. lo + c
        BY <2>1
      <4>2. \A i : i \in 1 .. k - 1 <=> i \in 1 .. k /\ i # k
        OBVIOUS
      <4>3. \A i : i \in lo + 1 .. lo + (c - 1) <=> i \in lo + 1 .. lo + c /\ i # k
        BY <3>4
      <4> QED BY <4>1, <4>2, <4>3
    <3>6. known[n] = Kept(shape, [i \in 1 .. c - 1 |-> P(lo + i)])
      BY <2>3, <3>4, <3>5
    <3> DEFINE Q(i) == P(lo + i)
               g == [i \in 1 .. c |-> Q(i)]
               S == {Q(i) : i \in 1 .. c}
    <3>7. here = Q(c)
      BY <3>4 DEF here, P
    <3>8. new[n] = IF shape = "one" THEN <<Q(c)>> ELSE Append(known[n], Q(c))
      BY <1>3, <2>5, <3>7 DEF shape
    <3>9. known[n] = Kept(shape, [i \in 1 .. c - 1 |-> Q(i)])
      BY <3>6
    <3>10. Append([i \in 1 .. c - 1 |-> Q(i)], Q(c)) = [i \in 1 .. c |-> Q(i)]
      <4>1. g \in [1 .. c -> S] /\ c \in Nat \ {0} /\ c \in 1 .. c
        BY <3>2
      <4>2. \A i \in 1 .. c : g[i] = Q(i)
        OBVIOUS
      <4>3. [i \in 1 .. c - 1 |-> g[i]] = [i \in 1 .. c - 1 |-> Q(i)]
        <5> HIDE DEF Q
        <5> QED OBVIOUS
      <4>4. [i \in 1 .. c |-> g[i]] = [i \in 1 .. c |-> Q(i)] /\ g[c] = Q(c)
        <5> HIDE DEF Q
        <5> QED BY <4>1
      <4> HIDE DEF g, S, Q
      <4>5. Append([i \in 1 .. c - 1 |-> g[i]], g[c]) = [i \in 1 .. c |-> g[i]]
        BY <4>1, OneMore
      <4> QED BY <4>3, <4>4, <4>5
    <3>11. Kept(shape, g) = IF shape = "one" THEN <<Q(c)>> ELSE g
      <4>1. g \in [1 .. c -> S] /\ c \in Nat /\ g[c] = Q(c)
        BY <3>2
      <4> HIDE DEF g, S, Q
      <4>2. Kept(shape, g) = IF shape = "one" THEN IF c = 0 THEN <<>> ELSE <<g[c]>> ELSE g
        BY <4>1, KeptOnce
      <4> QED BY <3>2, <4>1, <4>2
    <3>13. g = [i \in 1 .. c |-> Q(i)]
      OBVIOUS
    <3> HIDE DEF Q, g
    <3>12. new[n] = Kept(shape, [i \in 1 .. c |-> Q(i)])
      BY <3>8, <3>9, <3>10, <3>11, <3>13 DEF Kept
    <3> QED BY <3>12 DEF Q, P, shape
  <2> QED BY <2>4, <2>5
<1>5. Found(type, pieces, off, k, new)
  BY <1>3, <1>4 DEF Found
<1> QED BY <1>5 DEF new, name

(* A turn of the loop finds the next field.                                *)
LEMMA TurnFinds ==
  ASSUME NEW type, NEW pieces, AreFields(pieces), NEW off, Offsets(off, pieces),
         NEW k \in 1 .. Len(pieces), NEW r, ScannedTo(type, pieces, off, k - 1, r)
  PROVE  LET bs == FlattenSeq(pieces)
         IN Goes(bs, r) /\ ScannedTo(type, pieces, off, k, Turn(type, bs, r))
<1> DEFINE bs == FlattenSeq(pieces)
           b == pieces[k]
           n == Num(b)
           wire == Wire(b)
           at == off[k - 1]
           l == SizeTag(n)
<1>1. /\ Len(pieces) \in Nat /\ bs \in Seq(Byte) /\ Len(bs) \in Nat /\ off[k] = at + Len(b)
      /\ Stands(b, bs, at) /\ IsField(b, n, wire) /\ at < Len(bs)
  BY PiecesStand
<1>2. at \in Nat /\ off[k] \in Nat
  <2>1. k - 1 \in 0 .. Len(pieces) /\ k \in 0 .. Len(pieces)
    BY <1>1
  <2> QED BY <2>1, PiecesStand
<1> HIDE DEF bs, at
<1>3. r.offset = at /\ r.failed = FALSE /\ Found(type, pieces, off, k - 1, r.offsets)
  BY DEF ScannedTo, at
<1>4. Goes(bs, r)
  <2>1. at + 0 < Len(bs)
    BY <1>1, <1>2
  <2> QED BY <1>3, <2>1 DEF Goes, HasNext
<1>5. /\ ReadTag(bs, at) = [number |-> n, type |-> wire, size |-> l]
      /\ Skip(bs, at + l, wire) = off[k]
  BY <1>1, <1>2 DEF IsField
<1>6. ~(l < 0) /\ ~(off[k] < 0)
  <2>1. n \in FieldNumbers /\ 0 \in 0 .. 7
    BY <1>1, FieldNames
  <2>2. l \in Nat
    BY <2>1, TagIsRead
  <2> HIDE DEF l
  <2> QED BY <1>2, <2>2
<1> HIDE DEF l, n, wire, b
<1>7. Turn(type, bs, r) = [offset |-> off[k], offsets |-> Save(type, r.offsets, n, at + l, wire), failed |-> FALSE]
  <2> DEFINE tag == ReadTag(bs, at)
             after == Skip(bs, at + tag.size, tag.type)
  <2>1. tag.size = l /\ tag.type = wire /\ tag.number = n /\ after = off[k]
    BY <1>5
  <2> HIDE DEF tag, after
  <2>2. Turn(type, bs, r)
          = IF tag.size < 0 THEN [r EXCEPT !.failed = TRUE]
            ELSE [offset |-> after, offsets |-> Save(type, r.offsets, tag.number, at + tag.size, tag.type),
                  failed |-> after < 0]
    BY <1>3 DEF Turn, tag, after
  <2> HIDE DEF n, wire, l
  <2>3. (tag.size < 0) = FALSE /\ (after < 0) = FALSE
    BY <1>6, <2>1
  <2> QED BY <2>1, <2>2, <2>3
<1>8. Found(type, pieces, off, k, Save(type, r.offsets, n, at + l, wire))
  <2>1. k \in Nat \ {0}
    BY <1>1
  <2> QED BY <1>3, <2>1, SavedPlaces DEF l, n, wire, b, at
<1> QED BY <1>4, <1>7, <1>8 DEF ScannedTo, bs

LEMMA NothingFound ==
  ASSUME NEW type, NEW pieces, NEW off, off[0] = 0
  PROVE  ScannedTo(type, pieces, off, 0, NewReader(type))
<1> DEFINE known == [n \in Numbers(type) |-> <<>>]
<1>1. NewReader(type) = [offset |-> 0, offsets |-> known, failed |-> FALSE]
  BY DEF NewReader
<1>2. ASSUME NEW n \in Numbers(type), NEW lo \in Nat, NEW c \in Nat, Span(pieces, 0, n, lo, c)
      PROVE  known[n] = Kept(Field(type, n).shape, [i \in 1 .. c |-> Place(pieces, off, lo + i)])
  <2>1. c = 0
    <3>1. lo + c \notin lo + 1 .. lo + c
      BY <1>2 DEF Span
    <3> QED BY <3>1
  <2>2. [i \in 1 .. c |-> Place(pieces, off, lo + i)] = <<>>
    BY <2>1
  <2> QED BY <2>2 DEF Kept
<1> QED BY <1>1, <1>2 DEF ScannedTo, Found

(* A nested message's fields are found by one loop.                        *)
LEMMA ScanFinds ==
  ASSUME NEW type, NEW pieces, AreFields(pieces), NEW off, Offsets(off, pieces)
  PROVE  \E r : /\ ScannedTo(type, pieces, off, Len(pieces), r)
                /\ Scan(type, FlattenSeq(pieces)) = r.offsets
<1> DEFINE bs == FlattenSeq(pieces)
           l == Len(bs)
           m == Len(pieces)
           start == NewReader(type)
           Step(r) == IF Goes(bs, r) THEN Turn(type, bs, r) ELSE r
           Is(f, n) == f = [k \in 0 .. n |-> IF k = 0 THEN start ELSE Step(f[k - 1])]
           s == CHOOSE f : Is(f, l)
<1>1. /\ m \in Nat /\ l \in Nat /\ off[0] = 0 /\ l = off[m] /\ m <= l
  <2>1. /\ m \in Nat /\ l \in Nat /\ off[0] = 0 /\ l = off[m]
        /\ \A i \in 0 .. m : off[i] \in Nat /\ off[i] >= i
    BY PiecesStand
  <2> HIDE DEF m, l
  <2>2. m \in 0 .. m
    BY <2>1
  <2> QED BY <2>1, <2>2
<1>2. Scan(type, bs) = s[l].offsets
  BY DEF Scan, Loop
<1> HIDE DEF start, Step, l
<1> DEFINE E == {n \in 0 .. l : \E f : Is(f, n)}
<1>3. 0 \in E
  <2> DEFINE f == [k \in 0 .. 0 |-> start]
  <2>1. f = [k \in 0 .. 0 |-> IF k = 0 THEN start ELSE Step(f[k - 1])]
    OBVIOUS
  <2>2. Is(f, 0) /\ 0 \in 0 .. l
    BY <1>1, <2>1
  <2> HIDE DEF f, Is
  <2> QED BY <2>2
<1>4. ASSUME NEW n \in 1 .. l, n - 1 \in E PROVE n \in E
  <2>1. PICK f : Is(f, n - 1)
    BY <1>4
  <2> DEFINE g == [k \in 0 .. n |-> IF k = n THEN Step(f[n - 1]) ELSE f[k]]
  <2>2. ASSUME NEW k \in 0 .. n PROVE g[k] = IF k = 0 THEN start ELSE Step(g[k - 1])
    <3>1. CASE k = 0
      <4>1. k \in 0 .. n - 1 /\ k # n
        BY <1>1, <3>1
      <4> QED BY <2>1, <3>1, <4>1
    <3>2. CASE k = n
      <4>1. n - 1 \in 0 .. n /\ n - 1 # n /\ n # 0
        BY <1>1
      <4> QED BY <3>2, <4>1
    <3>3. CASE k # 0 /\ k # n
      <4>1. k \in 0 .. n - 1 /\ k - 1 \in 0 .. n /\ k - 1 # n
        BY <1>1, <3>3
      <4>2. f[k] = Step(f[k - 1])
        BY <2>1, <3>3, <4>1
      <4>3. g[k] = f[k] /\ g[k - 1] = f[k - 1]
        BY <3>3, <4>1
      <4> QED BY <3>3, <4>2, <4>3
    <3> QED BY <3>1, <3>2, <3>3
  <2>3. g = [k \in 0 .. n |-> g[k]]
    OBVIOUS
  <2> HIDE DEF g
  <2>4. Is(g, n)
    BY <2>2, <2>3
  <2>5. n \in 0 .. l
    BY <1>1
  <2> QED BY <2>4, <2>5
<1>5. Is(s, l)
  <2> HIDE DEF E
  <2>1. 0 .. l \subseteq E
    BY <1>1, <1>3, <1>4, UpTo
  <2>2. l \in E
    BY <1>1, <2>1
  <2>3. \E f : Is(f, l)
    BY <2>2 DEF E
  <2> HIDE DEF Is
  <2> QED BY <2>3
<1> HIDE DEF s
<1>6. s[0] = start /\ \A k \in 1 .. l : s[k] = Step(s[k - 1])
  <2>1. \A k \in 0 .. l : s[k] = IF k = 0 THEN start ELSE Step(s[k - 1])
    BY <1>5
  <2>2. 0 \in 0 .. l /\ \A k \in 1 .. l : k \in 0 .. l /\ k # 0
    BY <1>1
  <2> QED BY <2>1, <2>2
<1> DEFINE j(k) == IF k <= m THEN k ELSE m
           R == {k \in 0 .. l : ScannedTo(type, pieces, off, j(k), s[k])}
<1>7. 0 \in R
  <2>1. ScannedTo(type, pieces, off, 0, start)
    BY <1>1, NothingFound DEF start
  <2>2. j(0) = 0
    BY <1>1
  <2> HIDE DEF j
  <2> QED BY <1>1, <1>6, <2>1, <2>2
<1>8. ASSUME NEW k \in 1 .. l, k - 1 \in R PROVE k \in R
  <2>1. ScannedTo(type, pieces, off, j(k - 1), s[k - 1]) /\ s[k] = Step(s[k - 1]) /\ k \in 0 .. l
    BY <1>1, <1>6, <1>8
  <2>2. CASE k <= m
    <3>1. j(k - 1) = k - 1 /\ j(k) = k /\ k \in 1 .. m
      BY <1>1, <2>2
    <3> HIDE DEF j, m, bs
    <3>2. ScannedTo(type, pieces, off, k - 1, s[k - 1])
      BY <2>1, <3>1
    <3>3. Goes(bs, s[k - 1]) /\ ScannedTo(type, pieces, off, k, Turn(type, bs, s[k - 1]))
      BY <3>1, <3>2, TurnFinds DEF m, bs
    <3> QED BY <2>1, <3>1, <3>3 DEF Step
  <2>3. CASE ~(k <= m)
    <3>1. j(k - 1) = m /\ j(k) = m
      BY <1>1, <2>3
    <3> HIDE DEF j, m, bs
    <3>2. s[k - 1].offset = l
      BY <1>1, <2>1, <3>1 DEF ScannedTo
    <3>3. ~Goes(bs, s[k - 1])
      <4>1. ~(l + 0 < l)
        BY <1>1
      <4> QED BY <3>2, <4>1 DEF Goes, HasNext, l
    <3>4. s[k] = s[k - 1]
      BY <2>1, <3>3 DEF Step
    <3> QED BY <2>1, <3>1, <3>4
  <2> QED BY <2>2, <2>3
<1>9. ScannedTo(type, pieces, off, m, s[l])
  <2>1. j(l) = m
    BY <1>1
  <2> HIDE DEF R, j
  <2>2. 0 .. l \subseteq R
    BY <1>1, <1>7, <1>8, UpTo
  <2>3. l \in R
    BY <1>1, <2>2
  <2> QED BY <2>1, <2>3 DEF R
<1> QED BY <1>2, <1>9

(***************************************************************************)
(* What stands together: the fields on the wire that one field was written *)
(* as, and where they are remembered.                                      *)
(***************************************************************************)
Block(pieces, n, P) ==
    /\ P \in Seq(Seq(Byte))
    /\ \E lo \in Nat : /\ Span(pieces, Len(pieces), n, lo, Len(P))
                       /\ \A i \in 1 .. Len(P) : pieces[lo + i] = P[i]
Spot(P, n, ats, i) == <<ats[i] + SizeTag(n), Wire(P[i])>>
Located(P, n, shape, bs, known) ==
    \E ats \in [1 .. Len(P) -> Nat] :
        /\ \A i \in 1 .. Len(P) : Stands(P[i], bs, ats[i])
        /\ known = Kept(shape, [i \in 1 .. Len(P) |-> Spot(P, n, ats, i)])

LEMMA BlockIsLocated ==
  ASSUME NEW type, NEW pieces, AreFields(pieces), NEW off, Offsets(off, pieces),
         NEW r, ScannedTo(type, pieces, off, Len(pieces), r), NEW n \in Numbers(type),
         NEW P, Block(pieces, n, P)
  PROVE  Located(P, n, Field(type, n).shape, FlattenSeq(pieces), r.offsets[n])
<1> DEFINE bs == FlattenSeq(pieces)
           c == Len(P)
           m == Len(pieces)
           shape == Field(type, n).shape
           known == r.offsets
<1>1. PICK lo \in Nat : Span(pieces, m, n, lo, c) /\ \A i \in 1 .. c : pieces[lo + i] = P[i]
  BY DEF Block
<1>2. c \in Nat
  <2> DEFINE S == Seq(Byte)
  <2>1. P \in Seq(S)
    BY DEF Block
  <2> HIDE DEF S
  <2> QED BY <2>1
<1>3. known[n] = Kept(shape, [i \in 1 .. c |-> Place(pieces, off, lo + i)])
  BY <1>1, <1>2 DEF ScannedTo, Found
<1> HIDE DEF c, m, shape, bs
<1> DEFINE ats == [i \in 1 .. c |-> off[(lo + i) - 1]]
<1>4. ASSUME NEW i \in 1 .. c
      PROVE  /\ off[(lo + i) - 1] \in Nat /\ Stands(P[i], bs, off[(lo + i) - 1])
             /\ Place(pieces, off, lo + i) = <<off[(lo + i) - 1] + SizeTag(n), Wire(P[i])>>
  <2>1. lo + i \in lo + 1 .. lo + c
    BY <1>2
  <2>2. lo + i \in 1 .. m /\ Num(pieces[lo + i]) = n /\ pieces[lo + i] = P[i]
    BY <1>1, <2>1 DEF Span
  <2> DEFINE k == lo + i
  <2> HIDE DEF k
  <2>3. k \in 1 .. m /\ Num(pieces[k]) = n /\ pieces[k] = P[i]
    BY <2>2 DEF k
  <2>4. m \in Nat /\ Stands(pieces[k], bs, off[k - 1]) /\ \A a \in 0 .. m : off[a] \in Nat
    BY <2>3, PiecesStand DEF m, bs
  <2>5. off[k - 1] \in Nat
    BY <2>3, <2>4
  <2>6. Place(pieces, off, k) = <<off[k - 1] + SizeTag(n), Wire(P[i])>>
    BY <2>3 DEF Place
  <2> QED BY <2>3, <2>4, <2>5, <2>6 DEF k
<1>5. ats \in [1 .. c -> Nat] /\ \A i \in 1 .. c : ats[i] = off[(lo + i) - 1]
  BY <1>4
<1> HIDE DEF ats
<1>6. [i \in 1 .. c |-> Place(pieces, off, lo + i)] = [i \in 1 .. c |-> Spot(P, n, ats, i)]
  BY <1>4, <1>5 DEF Spot
<1>7. \A i \in 1 .. c : Stands(P[i], bs, ats[i])
  BY <1>4, <1>5
<1>8. Located(P, n, shape, bs, known[n])
  <2>1. known[n] = Kept(shape, [i \in 1 .. c |-> Spot(P, n, ats, i)])
    BY <1>3, <1>6
  <2> QED BY <1>5, <1>7, <2>1 DEF Located, c
<1> QED BY <1>8 DEF bs, shape

LEMMA Joining ==
  ASSUME NEW p, AreFields(p), NEW q, AreFields(q)
  PROVE  /\ Len(p) \in Nat /\ Len(q) \in Nat /\ Len(p \o q) = Len(p) + Len(q)
         /\ \A i \in 1 .. Len(p) : (p \o q)[i] = p[i]
         /\ \A i \in 1 .. Len(q) : (p \o q)[Len(p) + i] = q[i]
         /\ FlattenSeq(p \o q) = FlattenSeq(p) \o FlattenSeq(q)
<1> DEFINE S == Seq(Byte)
           m == Len(p)
           n == Len(q)
           c == p \o q
<1>1. p \in Seq(S) /\ q \in Seq(S)
  BY DEF AreFields
<1>2. FlattenSeq(c) = FlattenSeq(p) \o FlattenSeq(q)
  <2> DEFINE T == Byte
  <2>1. p \in Seq(Seq(T)) /\ q \in Seq(Seq(T))
    BY <1>1
  <2> HIDE DEF T
  <2> QED BY <2>1, FlattenBoth
<1> HIDE DEF S
<1>3. /\ c \in Seq(S) /\ Len(c) = m + n /\ m \in Nat /\ n \in Nat
      /\ \A i \in 1 .. m + n : c[i] = IF i <= m THEN p[i] ELSE q[i - m]
  BY <1>1, ConcatProperties
<1> HIDE DEF c, m, n
<1>4. \A i \in 1 .. n : m + i \in 1 .. m + n /\ ~(m + i <= m) /\ (m + i) - m = i
  BY <1>3
<1>5. \A i \in 1 .. m : i \in 1 .. m + n /\ i <= m
  BY <1>3
<1> QED BY <1>2, <1>3, <1>4, <1>5 DEF c, m, n

LEMMA BlockStays ==
  ASSUME NEW p, AreFields(p), NEW q, AreFields(q), NEW n, NEW P, Block(p, n, P),
         \A i \in 1 .. Len(q) : Num(q[i]) # n
  PROVE  Block(p \o q, n, P)
<1> DEFINE l == Len(p)
           k == Len(q)
           c == p \o q
           d == Len(P)
           N(i) == Num(c[i])
           M(i) == Num(p[i])
<1>1. PICK lo \in Nat : Span(p, l, n, lo, d) /\ \A i \in 1 .. d : p[lo + i] = P[i]
  BY DEF Block
<1>2. /\ l \in Nat /\ k \in Nat /\ Len(c) = l + k
      /\ \A i \in 1 .. l : c[i] = p[i]
      /\ \A i \in 1 .. k : c[l + i] = q[i]
  BY Joining
<1>7. \A i \in 1 .. l : N(i) = M(i)
  BY <1>2
<1>8. \A i \in 1 .. k : N(l + i) # n
  BY <1>2
<1>9. {i \in 1 .. l : M(i) = n} = lo + 1 .. lo + d
  BY <1>1 DEF Span
<1> HIDE DEF c, l, k, N, M
<1>3. {i \in 1 .. l + k : N(i) = n} = lo + 1 .. lo + d
  <2>1. ASSUME NEW i \in 1 .. l + k, ~(i \in 1 .. l) PROVE N(i) # n
    <3>1. i - l \in 1 .. k /\ l + (i - l) = i
      BY <1>2, <2>1
    <3> QED BY <1>8, <3>1
  <2>2. {i \in 1 .. l + k : N(i) = n} = {i \in 1 .. l : M(i) = n}
    <3>1. \A i \in 1 .. l : i \in 1 .. l + k
      BY <1>2
    <3> QED BY <1>7, <2>1, <3>1
  <2> QED BY <1>9, <2>2
<1>4. Span(c, Len(c), n, lo, d)
  BY <1>2, <1>3 DEF Span, N
<1>5. \A i \in 1 .. d : c[lo + i] = P[i]
  <2> TAKE i \in 1 .. d
  <2>1. d \in Nat
    <3> DEFINE S == Seq(Byte)
    <3>1. P \in Seq(S)
      BY DEF Block
    <3> HIDE DEF S
    <3> QED BY <3>1
  <2> HIDE DEF d
  <2>2. lo + i \in lo + 1 .. lo + d
    BY <2>1
  <2>3. lo + i \in 1 .. l
    BY <1>9, <2>2
  <2> QED BY <1>1, <1>2, <2>3
<1> QED BY <1>4, <1>5 DEF Block, c

LEMMA BlockComes ==
  ASSUME NEW p, AreFields(p), NEW q, AreFields(q), NEW n, NEW P, Block(q, n, P),
         \A i \in 1 .. Len(p) : Num(p[i]) # n
  PROVE  Block(p \o q, n, P)
<1> DEFINE l == Len(p)
           k == Len(q)
           c == p \o q
           d == Len(P)
           N(i) == Num(c[i])
           M(i) == Num(q[i])
<1>1. PICK lo \in Nat : Span(q, k, n, lo, d) /\ \A i \in 1 .. d : q[lo + i] = P[i]
  BY DEF Block
<1>2. /\ l \in Nat /\ k \in Nat /\ Len(c) = l + k
      /\ \A i \in 1 .. l : c[i] = p[i]
      /\ \A i \in 1 .. k : c[l + i] = q[i]
  BY Joining
<1>6. d \in Nat
  <2> DEFINE S == Seq(Byte)
  <2>1. P \in Seq(S)
    BY DEF Block
  <2> HIDE DEF S
  <2> QED BY <2>1
<1>7. \A i \in 1 .. l : N(i) # n
  BY <1>2
<1>8. \A i \in 1 .. k : N(l + i) = M(i)
  BY <1>2
<1>9. {i \in 1 .. k : M(i) = n} = lo + 1 .. lo + d
  BY <1>1 DEF Span
<1> DEFINE up == l + lo
<1> HIDE DEF c, l, k, N, M, d
<1>3. {i \in 1 .. l + k : N(i) = n} = up + 1 .. up + d
  <2>1. ASSUME NEW i \in 1 .. l + k, N(i) = n PROVE i \in up + 1 .. up + d
    <3>1. ~(i \in 1 .. l)
      BY <1>7, <2>1
    <3>2. i - l \in 1 .. k /\ l + (i - l) = i
      BY <1>2, <3>1
    <3>3. i - l \in lo + 1 .. lo + d
      BY <1>8, <1>9, <2>1, <3>2
    <3> QED BY <1>2, <1>6, <3>3
  <2>2. ASSUME NEW i \in up + 1 .. up + d PROVE i \in 1 .. l + k /\ N(i) = n
    <3> DEFINE a == i - l
    <3>1. a \in lo + 1 .. lo + d /\ l + a = i
      BY <1>2, <1>6
    <3> HIDE DEF a
    <3>2. a \in 1 .. k /\ M(a) = n
      BY <1>9, <3>1
    <3>3. N(l + a) = n /\ l + a \in 1 .. l + k
      BY <1>2, <1>8, <3>2
    <3> QED BY <3>1, <3>3
  <2> HIDE DEF up
  <2> QED BY <2>1, <2>2
<1>4. Span(c, Len(c), n, up, d)
  BY <1>2, <1>3 DEF Span, N
<1>5. \A i \in 1 .. d : c[up + i] = P[i]
  <2> TAKE i \in 1 .. d
  <2>1. lo + i \in lo + 1 .. lo + d
    BY <1>6
  <2>2. lo + i \in 1 .. k
    BY <1>9, <2>1
  <2>3. c[l + (lo + i)] = q[lo + i] /\ q[lo + i] = P[i]
    BY <1>1, <1>2, <2>2 DEF d
  <2>4. l + (lo + i) = up + i
    BY <1>2
  <2> QED BY <2>3, <2>4
<1>10. up \in Nat
  BY <1>2
<1> QED BY <1>4, <1>5, <1>10 DEF Block, c, d

(***************************************************************************)
(* What is read before nested messages are decoded.                        *)
(***************************************************************************)
Raw(f, x) == IF Scalar(f) THEN x ELSE Bytes[MessageOf(f.of, x)]
RawAll(f, x) == IF f.shape = "one" THEN Raw(f, x) ELSE [i \in DOMAIN x |-> Raw(f, x[i])]
RawRead(f, bs, known) ==
    CASE f.shape = "one" -> IF known = <<>> THEN f.default ELSE ReadOne(f, bs, known[1][1]).value
      [] f.shape = "packed" ->
            FlattenSeq([i \in DOMAIN known |-> ReadPacked(f, bs, known[i][1], known[i][2])])
      [] f.shape = "list" -> [i \in DOMAIN known |-> ReadOne(f, bs, known[i][1]).value]
      [] f.shape = "map" -> ReadMap(f, bs, known)
Decoded(nested, f, raw) ==
    IF f.shape = "one" THEN Decode(nested, f, raw) ELSE [i \in DOMAIN raw |-> Decode(nested, f, raw[i])]

LEMMA ReadInTwo ==
  ASSUME NEW f, f.shape \in {"one", "packed", "list", "map"}, NEW nested, NEW bs, NEW known
  PROVE  ReadField(nested, f, bs, known) = Decoded(nested, f, RawRead(f, bs, known))
<1>1. CASE f.shape = "one"
  BY <1>1 DEF ReadField, Decoded, RawRead
<1>2. CASE f.shape = "packed"
  BY <1>2 DEF ReadField, Decoded, RawRead
<1>3. CASE f.shape = "list"
  BY <1>3 DEF ReadField, Decoded, RawRead
<1>4. CASE f.shape = "map"
  BY <1>4 DEF ReadField, Decoded, RawRead
<1> QED BY <1>1, <1>2, <1>3, <1>4

(* Any reader that knows the field reads the value back from its fields on *)
(* the wire, wherever they stand.                                          *)
Carries(f, x, P) ==
    \A g : SameField(f, g) =>
       \A bs \in Seq(Byte) : \A known :
          Located(P, f.number, f.shape, bs, known) => RawRead(g, bs, known) = RawAll(f, x)

(* The first j fields of a message, as a type reads them.                  *)
WroteTo(m, j, n) == \E q \in 1 .. j : Fields[m.of][q].number = n
Written(m, type, j, pieces) ==
    /\ AreFields(pieces)
    /\ \A n \in Numbers(type) :
          \E P : /\ Block(pieces, n, P)
                 /\ IF WroteTo(m, j, n) THEN Carries(Field(m.of, n), m.struct[n], P) ELSE P = <<>>
Adds(f, x, type, more) ==
    /\ AreFields(more)
    /\ \A i \in 1 .. Len(more) : Num(more[i]) = f.number \/ Num(more[i]) \notin Numbers(type)
    /\ f.number \in Numbers(type) => \E P : Block(more, f.number, P) /\ Carries(f, x, P)

LEMMA NoBlock ==
  ASSUME NEW pieces, NEW n, Block(pieces, n, <<>>), AreFields(pieces)
  PROVE  \A i \in 1 .. Len(pieces) : Num(pieces[i]) # n
<1>1. PICK lo \in Nat : Span(pieces, Len(pieces), n, lo, Len(<<>>))
  BY DEF Block
<1>2. lo + 1 .. lo + Len(<<>>) = {}
  <2>1. Len(<<>>) = 0
    BY NoField
  <2>2. lo + 1 .. lo + 0 = {}
    OBVIOUS
  <2> QED BY <2>1, <2>2
<1> QED BY <1>1, <1>2 DEF Span

LEMMA WrittenNone ==
  ASSUME NEW m, NEW type
  PROVE  Written(m, type, 0, <<>>)
<1>1. AreFields(<<>>) /\ Len(<<>>) = 0
  BY NoField
<1>2. ASSUME NEW n \in Numbers(type) PROVE Block(<<>>, n, <<>>) /\ ~WroteTo(m, 0, n)
  <2>1. ~WroteTo(m, 0, n)
    BY DEF WroteTo
  <2>2. <<>> \in Seq(Seq(Byte))
    OBVIOUS
  <2>3. {i \in 1 .. 0 : Num(<<>>[i]) = n} = 0 + 1 .. 0 + 0
    OBVIOUS
  <2>4. Span(<<>>, Len(<<>>), n, 0, Len(<<>>))
    BY <1>1, <2>3 DEF Span
  <2>5. \A i \in 1 .. Len(<<>>) : <<>>[0 + i] = <<>>[i]
    BY <1>1
  <2>6. 0 \in Nat
    OBVIOUS
  <2> QED BY <2>1, <2>2, <2>4, <2>5, <2>6 DEF Block
<1> QED BY <1>1, <1>2 DEF Written

LEMMA WrittenNext ==
  ASSUME NEW m, m.of \in Types, NEW type, NEW j \in 1 .. Len(Fields[m.of]), NEW pieces,
         Written(m, type, j - 1, pieces), NEW more,
         Adds(Fields[m.of][j], m.struct[Fields[m.of][j].number], type, more)
  PROVE  Written(m, type, j, pieces \o more)
<1> DEFINE fields == Fields[m.of]
           f == fields[j]
           x == m.struct[f.number]
           all == pieces \o more
<1>1. /\ Len(fields) \in Nat /\ DOMAIN fields = 1 .. Len(fields)
      /\ \A i \in DOMAIN fields : Field(m.of, fields[i].number) = fields[i]
      /\ \A i, k \in DOMAIN fields : fields[i].number = fields[k].number => i = k
  <2>1. IsSeq(fields) /\ \A i \in DOMAIN fields : Field(m.of, fields[i].number) = fields[i]
    BY TypeFacts
  <2>2. \A i, k \in DOMAIN fields : fields[i].number = fields[k].number => i = k
    BY MessageAssumption
  <2> QED BY <2>1, <2>2, SeqFacts
<1>2. AreFields(pieces) /\ AreFields(more)
  BY DEF Written, Adds
<1> HIDE DEF fields
<1>3. ASSUME NEW n \in Numbers(type)
      PROVE  \E P : /\ Block(all, n, P)
                    /\ IF WroteTo(m, j, n) THEN Carries(Field(m.of, n), m.struct[n], P) ELSE P = <<>>
  <2>1. PICK P : /\ Block(pieces, n, P)
                 /\ IF WroteTo(m, j - 1, n) THEN Carries(Field(m.of, n), m.struct[n], P) ELSE P = <<>>
    BY DEF Written
  <2>2. WroteTo(m, j, n) <=> WroteTo(m, j - 1, n) \/ f.number = n
    <3>1. \A q : q \in 1 .. j <=> q \in 1 .. j - 1 \/ q = j
      BY <1>1
    <3> QED BY <3>1 DEF WroteTo, fields
  <2>3. CASE f.number # n
    <3>1. \A i \in 1 .. Len(more) : Num(more[i]) # n
      BY <2>3 DEF Adds, fields
    <3>2. Block(all, n, P)
      BY <1>2, <2>1, <3>1, BlockStays
    <3> QED BY <2>1, <2>2, <2>3, <3>2
  <2>4. CASE f.number = n
    <3>1. ~WroteTo(m, j - 1, n)
      <4>1. ASSUME NEW q \in 1 .. j - 1 PROVE fields[q].number # n
        <5>1. q \in DOMAIN fields /\ j \in DOMAIN fields /\ q # j
          BY <1>1 DEF fields
        <5> QED BY <1>1, <2>4, <5>1
      <4> QED BY <4>1 DEF WroteTo, fields
    <3>2. \A i \in 1 .. Len(pieces) : Num(pieces[i]) # n
      BY <1>2, <2>1, <3>1, NoBlock
    <3>3. PICK Q : Block(more, n, Q) /\ Carries(f, x, Q)
      BY <2>4 DEF Adds, fields
    <3>4. Block(all, n, Q)
      BY <1>2, <3>2, <3>3, BlockComes
    <3>5. Field(m.of, n) = f
      BY <1>1, <2>4 DEF fields
    <3> QED BY <2>2, <2>4, <3>3, <3>4, <3>5
  <2> QED BY <2>3, <2>4
<1>4. AreFields(all)
  BY <1>2, BothAreFields
<1> QED BY <1>3, <1>4 DEF Written

(***************************************************************************)
(* One value.                                                              *)
(***************************************************************************)
RawType(f) == IF Scalar(f) THEN f.of ELSE "bytes"

LEMMA OneAsField ==
  ASSUME NEW f, f.number \in FieldNumbers, NEW x, Holds(f, x)
  PROVE  /\ RawType(f) \in ScalarTypes /\ Raw(f, x) \in GoValues(RawType(f))
         /\ WriteOne(Bytes, f, x) = FieldOf(f.number, RawType(f), Raw(f, x))
<1>1. CASE Scalar(f)
  BY <1>1 DEF Scalar, Holds, Raw, RawType, WriteOne, FieldOf
<1>2. CASE ~Scalar(f)
  <2> DEFINE s == MessageOf(f.of, x)
             y == Bytes[s]
             l == ContentSize[s]
             n == f.number
  <2>1. s \in Messages
    BY <1>2 DEF Holds
  <2>2. y \in Seq(Byte) /\ l = Len(y) /\ l < WORD
    BY <2>1, AllBytes, SizeAssumption
  <2>3. WriteOne(Bytes, f, x) = (Tag(n, BytesType) \o VarInt(l)) \o y
    BY <1>2 DEF WriteOne
  <2>4. Raw(f, x) = y /\ RawType(f) = "bytes"
    BY <1>2 DEF Raw, RawType
  <2>5. "bytes" \in ScalarTypes /\ y \in GoValues("bytes")
    BY <2>2 DEF ScalarTypes, GoValues
  <2>6. n \in FieldNumbers
    OBVIOUS
  <2> HIDE DEF y, l, n
  <2>7. (Tag(n, BytesType) \o VarInt(l)) \o y = FieldOf(n, "bytes", y)
    BY <2>2, <2>6, PrefixedIsField
  <2> QED BY <2>3, <2>4, <2>5, <2>7 DEF n
<1> QED BY <1>1, <1>2

(* A reader of the same field, and one of the same type.                   *)
SameType(f, g) == IF Scalar(f) THEN g.of = f.of ELSE ~Scalar(g)

LEMMA OneIsReadRaw ==
  ASSUME NEW f, f.number \in FieldNumbers, NEW x, Holds(f, x), NEW g, SameType(f, g),
         NEW bs \in Seq(Byte), NEW at \in Nat, Stands(WriteOne(Bytes, f, x), bs, at)
  PROVE  LET size_ == PayloadSize(RawType(f), Raw(f, x))
         IN /\ ReadOne(g, bs, at + SizeTag(f.number)) = [value |-> Raw(f, x), size |-> size_]
            /\ Len(WriteOne(Bytes, f, x)) = SizeTag(f.number) + size_
            /\ size_ \in Nat /\ SizeTag(f.number) \in Nat \ {0}
            /\ ReadTag(bs, at) = [number |-> f.number, type |-> WireOf(f), size |-> SizeTag(f.number)]
<1> DEFINE t == RawType(f)
           v == Raw(f, x)
           n == f.number
           b == FieldOf(n, t, v)
           tag == ReadTag(bs, at)
<1>1. t \in ScalarTypes /\ v \in GoValues(t) /\ WriteOne(Bytes, f, x) = b /\ n \in FieldNumbers
  BY OneAsField
<1>2. Stands(b, bs, at)
  BY <1>1
<1>3. WireOf(f) = WireType(t)
  <2>1. WireType("bytes") = BytesType
    BY DEF WireType, Fixed32s, Fixed64s
  <2> QED BY <2>1 DEF WireOf, RawType
<1>4. \A c, o : ReadOne(g, c, o) = Read(t, c, o)
  BY DEF ReadOne, RawType, SameType, Scalar
<1>5. PayloadSize(t, v) \in Nat
  BY <1>1, SizesAreExact
<1>6. SizeTag(n) \in Nat \ {0}
  <2>1. 0 \in 0 .. 7
    OBVIOUS
  <2> QED BY <1>1, <2>1, TagIsRead
<1> HIDE DEF t, v, n, b
<1>7. /\ Len(FieldOf(n, t, v)) = SizeTag(n) + PayloadSize(t, v)
      /\ tag = [number |-> n, type |-> WireType(t), size |-> SizeTag(n)]
      /\ Read(t, bs, at + tag.size) = [value |-> v, size |-> PayloadSize(t, v)]
  BY <1>1, <1>2, FieldIsRead DEF b
<1>8. tag.size = SizeTag(n)
  BY <1>7
<1> QED BY <1>1, <1>3, <1>4, <1>5, <1>6, <1>7, <1>8 DEF t, v, n, b

LEMMA SameFields ==
  ASSUME NEW f, NEW g, SameField(f, g)
  PROVE  g.shape = f.shape /\ Unset(g) = Unset(f) /\ SameType(f, g) /\ (f.shape = "map" => g.key = f.key)
BY DEF SameField, SameType

LEMMA CarriesOne ==
  ASSUME NEW f, f.number \in FieldNumbers, f.shape = "one", NEW x, Holds(f, x), NEW P \in Seq(Seq(Byte)),
         Len(P) # 0, P[Len(P)] = WriteOne(Bytes, f, x)
  PROVE  Carries(f, x, P)
<1> DEFINE c == Len(P)
           n == f.number
<1>1. c \in Nat /\ c \in 1 .. c
  <2> DEFINE S == Seq(Byte)
  <2>1. P \in Seq(S)
    OBVIOUS
  <2> HIDE DEF S
  <2>2. c \in Nat
    BY <2>1
  <2> QED BY <2>2
<1>2. ASSUME NEW g, SameField(f, g), NEW bs \in Seq(Byte), NEW known, Located(P, n, f.shape, bs, known)
      PROVE  RawRead(g, bs, known) = RawAll(f, x)
  <2>1. g.shape = "one" /\ SameType(f, g)
    BY <1>2, SameFields
  <2>2. PICK ats \in [1 .. c -> Nat] :
           /\ \A i \in 1 .. c : Stands(P[i], bs, ats[i])
           /\ known = Kept("one", [i \in 1 .. c |-> Spot(P, n, ats, i)])
    BY <1>2 DEF Located
  <2> DEFINE places == [i \in 1 .. c |-> Spot(P, n, ats, i)]
             S == {Spot(P, n, ats, i) : i \in 1 .. c}
             at == ats[c]
  <2>3. Kept("one", places) = <<places[c]>>
    <3>1. places \in [1 .. c -> S]
      OBVIOUS
    <3> HIDE DEF places, S, c
    <3>2. Kept("one", places) = IF "one" = "one" THEN IF c = 0 THEN <<>> ELSE <<places[c]>> ELSE places
      BY <1>1, <3>1, KeptOnce
    <3> QED BY <3>2 DEF c
  <2>4. places[c] = Spot(P, n, ats, c)
    BY <1>1
  <2>5. at \in Nat /\ Stands(WriteOne(Bytes, f, x), bs, at)
    BY <1>1, <2>2
  <2>6. ReadOne(g, bs, at + SizeTag(n)).value = Raw(f, x)
    <3>1. ReadOne(g, bs, at + SizeTag(n)) = [value |-> Raw(f, x), size |-> PayloadSize(RawType(f), Raw(f, x))]
      BY <1>2, <2>1, <2>5, OneIsReadRaw
    <3> QED BY <3>1
  <2>7. known = <<Spot(P, n, ats, c)>>
    BY <2>2, <2>3, <2>4
  <2>8. known # <<>> /\ known[1][1] = at + SizeTag(n)
    BY <2>7 DEF Spot
  <2>9. RawRead(g, bs, known) = ReadOne(g, bs, known[1][1]).value
    BY <2>1, <2>8 DEF RawRead
  <2> QED BY <2>6, <2>8, <2>9 DEF RawAll
<1> QED BY <1>2 DEF Carries

LEMMA NilBytes ==
  ASSUME NEW m \in Messages, m.struct = Nothing
  PROVE  Bytes[m] = <<>>
<1>1. Bytes[m] = WriteFields(Bytes, m)
  BY AllBytes
<1> QED BY <1>1 DEF WriteFields

(* What was not written is what it is by default.                          *)
LEMMA NothingRead ==
  ASSUME NEW g, g.shape \in {"one", "packed", "list", "map"}, NEW bs, NEW known,
         NEW n, Located(<<>>, n, g.shape, bs, known)
  PROVE  RawRead(g, bs, known) = Unset(g)
<1>1. known = <<>>
  <2>1. PICK ats : known = Kept(g.shape, [i \in 1 .. Len(<<>>) |-> Spot(<<>>, n, ats, i)])
    BY DEF Located
  <2>2. [i \in 1 .. Len(<<>>) |-> Spot(<<>>, n, ats, i)] = <<>>
    OBVIOUS
  <2> QED BY <2>1, <2>2 DEF Kept
<1>2. CASE g.shape = "one"
  BY <1>1, <1>2 DEF RawRead, Unset
<1>3. CASE g.shape = "packed"
  <2>1. RawRead(g, bs, known) = FlattenSeq(<<>>)
    BY <1>1, <1>3 DEF RawRead
  <2> QED BY <1>3, <2>1, NoField DEF Unset, Nothing
<1>4. CASE g.shape = "list"
  BY <1>1, <1>4 DEF RawRead, Unset, Nothing
<1>5. CASE g.shape = "map"
  <2> DEFINE K == {entry[1] : entry \in Range(<<>>)}
             h(k) == <<>>[Max({i \in DOMAIN <<>> : <<>>[i][1] = k})][2]
  <2>1. RawRead(g, bs, known) = GoMap(<<>>)
    BY <1>1, <1>5 DEF RawRead, ReadMap
  <2>2. GoMap(<<>>) = [k \in K |-> h(k)]
    BY DEF GoMap
  <2>3. K = {}
    BY DEF Range
  <2> HIDE DEF K, h
  <2>4. GoMap(<<>>) = <<>>
    BY <2>2, <2>3
  <2> QED BY <1>5, <2>1, <2>4 DEF Unset, Nothing
<1> QED BY <1>2, <1>3, <1>4, <1>5

LEMMA CarriesUnset ==
  ASSUME NEW f, NEW d, Declared(f, d), NEW x, x = Unset(f)
  PROVE  Carries(f, x, <<>>)
<1>1. ASSUME NEW g, SameField(f, g), NEW bs \in Seq(Byte), NEW known, Located(<<>>, f.number, f.shape, bs, known)
      PROVE  RawRead(g, bs, known) = RawAll(f, x)
  <2>1. g.shape = f.shape /\ Unset(g) = x /\ SameType(f, g)
    BY <1>1, SameFields
  <2>2. f.shape \in {"one", "packed", "list", "map"}
    BY DEF Declared
  <2>3. RawRead(g, bs, known) = x
    BY <1>1, <2>1, <2>2, NothingRead
  <2>4. CASE f.shape = "one"
    <3>1. RawAll(f, x) = Raw(f, x)
      BY <2>4 DEF RawAll
    <3>2. CASE Scalar(f)
      BY <2>3, <3>1, <3>2 DEF Raw
    <3>3. CASE ~Scalar(f)
      <4>1. x = Nothing /\ Holds(f, x)
        BY <2>4, <3>3 DEF Declared, Unset
      <4>2. MessageOf(f.of, x) \in Messages /\ MessageOf(f.of, x).struct = Nothing
        BY <3>3, <4>1 DEF Holds, MessageOf
      <4>3. Bytes[MessageOf(f.of, x)] = <<>>
        BY <4>2, NilBytes
      <4> QED BY <2>3, <3>1, <3>3, <4>1, <4>3 DEF Raw, Nothing
    <3> QED BY <3>2, <3>3
  <2>5. CASE f.shape # "one"
    <3>1. x = <<>>
      BY <2>5 DEF Unset, Nothing
    <3>2. RawAll(f, x) = <<>>
      BY <2>5, <3>1 DEF RawAll
    <3> QED BY <2>3, <3>1, <3>2
  <2> QED BY <2>4, <2>5
<1> QED BY <1>1 DEF Carries

LEMMA CarriesList ==
  ASSUME NEW f, NEW d, Declared(f, d), f.shape = "list", NEW x, HoldsAll(f, x)
  PROVE  Carries(f, x, WriteList(Bytes, f, x))
<1> DEFINE P == WriteList(Bytes, f, x)
           c == Len(x)
           n == f.number
<1>1. IsSeq(x) /\ (\A i \in DOMAIN x : Holds(f, x[i])) /\ n \in FieldNumbers /\ Shallow(f, d)
  BY Shapes DEF Declared
<1>2. c \in Nat /\ DOMAIN x = 1 .. c
  BY <1>1, SeqFacts
<1>3. AreFields(P)
  BY <1>1, ListIsFields, BytesEverywhere
<1>4. P = [i \in 1 .. c |-> WriteOne(Bytes, f, x[i])]
  BY <1>2 DEF WriteList
<1> HIDE DEF P
<1>5. Len(P) = c /\ \A i \in 1 .. c : P[i] = WriteOne(Bytes, f, x[i])
  <2> HIDE DEF c
  <2>1. \A i \in 1 .. c : P[i] = WriteOne(Bytes, f, x[i])
    BY <1>4
  <2>2. c \in Nat
    BY <1>2
  <2> DEFINE S == {WriteOne(Bytes, f, x[i]) : i \in 1 .. c}
  <2>3. P \in [1 .. c -> S]
    BY <1>4
  <2> HIDE DEF S
  <2>4. Len(P) = c
    BY <2>2, <2>3
  <2> QED BY <2>1, <2>4
<1>6. ASSUME NEW g, SameField(f, g), NEW bs \in Seq(Byte), NEW known, Located(P, n, f.shape, bs, known)
      PROVE  RawRead(g, bs, known) = RawAll(f, x)
  <2>1. g.shape = "list" /\ SameType(f, g)
    BY <1>6, SameFields
  <2>2. PICK ats \in [1 .. c -> Nat] :
           /\ \A i \in 1 .. c : Stands(P[i], bs, ats[i])
           /\ known = Kept("list", [i \in 1 .. c |-> Spot(P, n, ats, i)])
    BY <1>5, <1>6 DEF Located
  <2>3. known = [i \in 1 .. c |-> Spot(P, n, ats, i)]
    BY <2>2 DEF Kept
  <2> HIDE DEF c, n
  <2>4. ASSUME NEW i \in 1 .. c PROVE ReadOne(g, bs, known[i][1]).value = Raw(f, x[i])
    <3>1. known[i][1] = ats[i] + SizeTag(n) /\ ats[i] \in Nat
      <4>1. known[i] = Spot(P, n, ats, i)
        BY <2>3
      <4>2. Spot(P, n, ats, i)[1] = ats[i] + SizeTag(n)
        BY DEF Spot
      <4>3. ats[i] \in Nat
        BY <2>2
      <4> QED BY <4>1, <4>2, <4>3
    <3>2. Holds(f, x[i]) /\ Stands(WriteOne(Bytes, f, x[i]), bs, ats[i])
      BY <1>1, <1>2, <1>5, <2>2
    <3>3. ReadOne(g, bs, ats[i] + SizeTag(n)) = [value |-> Raw(f, x[i]), size |-> PayloadSize(RawType(f), Raw(f, x[i]))]
      BY <1>1, <2>1, <3>1, <3>2, OneIsReadRaw DEF n
    <3> QED BY <3>1, <3>3
  <2>5. RawRead(g, bs, known) = [i \in DOMAIN known |-> ReadOne(g, bs, known[i][1]).value]
    BY <2>1 DEF RawRead
  <2>6. RawAll(f, x) = [i \in DOMAIN x |-> Raw(f, x[i])]
    BY DEF RawAll
  <2>7. DOMAIN known = 1 .. c
    BY <2>3
  <2> QED BY <1>2, <2>4, <2>5, <2>6, <2>7
<1> QED BY <1>6 DEF Carries, P, n

(* What a loop ends with, if each of its states follows from another.      *)
LEMMA LoopFollows ==
  ASSUME NEW n \in Nat, NEW f, NEW s, f[0] = s[0],
         \A i \in 1 .. n : f[i - 1] = s[i - 1] => f[i] = s[i]
  PROVE  f[n] = s[n]
<1> DEFINE E == {i \in 0 .. n : f[i] = s[i]}
<1>1. 0 \in E
  OBVIOUS
<1>2. ASSUME NEW i \in 1 .. n, i - 1 \in E PROVE i \in E
  BY <1>2
<1> HIDE DEF E
<1>3. 0 .. n \subseteq E
  BY <1>1, <1>2, UpTo
<1>4. n \in E
  BY <1>3
<1> QED BY <1>4 DEF E

(* Where the parts of a map's entry stand.                                 *)
LEMMA EntryStands ==
  ASSUME NEW f, f.number \in FieldNumbers, NEW k, Holds(KeyField(f), k),
         NEW v, Holds(ValueField(f), v), NEW z, z = SizeEntry(ContentSize, f, k, v), z < WORD,
         NEW bs \in Seq(Byte), NEW at \in Nat, Stands(WriteEntry(Bytes, f, k, v), bs, at)
  PROVE  LET a == WriteOne(Bytes, KeyField(f), k)
             b == WriteOne(Bytes, ValueField(f), v)
             from == (at + SizeTag(f.number)) + SizeVarInt(z)
         IN /\ Len(a) \in Nat \ {0} /\ Len(b) \in Nat \ {0} /\ z = Len(a) + Len(b)
            /\ from \in Nat /\ at + SizeTag(f.number) \in Nat
            /\ ReadVarInt(bs, at + SizeTag(f.number)) = [value |-> z, size |-> SizeVarInt(z)]
            /\ Stands(a, bs, from) /\ Stands(b, bs, from + Len(a))
<1> DEFINE a == WriteOne(Bytes, KeyField(f), k)
           b == WriteOne(Bytes, ValueField(f), v)
           t == Tag(f.number, BytesType)
           w == VarInt(z)
           B == Byte
<1>1. KeyField(f).number = 1 /\ ValueField(f).number = 2 /\ 1 \in FieldNumbers /\ 2 \in FieldNumbers
  BY MessageAssumption DEF KeyField, ValueField
<1>2. /\ a \in Seq(B) /\ Len(a) \in Nat \ {0} /\ Len(a) = SizeOne(ContentSize, KeyField(f), k)
      /\ b \in Seq(B) /\ Len(b) \in Nat \ {0} /\ Len(b) = SizeOne(ContentSize, ValueField(f), v)
  <2>1. ASSUME NEW h, h.number \in FieldNumbers, NEW y, Holds(h, y)
        PROVE  /\ WriteOne(Bytes, h, y) \in Seq(Byte) /\ Len(WriteOne(Bytes, h, y)) \in Nat \ {0}
               /\ Len(WriteOne(Bytes, h, y)) = SizeOne(ContentSize, h, y)
    <3> DEFINE dd == IF Scalar(h) THEN 0 ELSE Depth[h.of] + 1
    <3>1. Shallow(h, dd)
      <4>1. CASE Scalar(h)
        BY <4>1 DEF Shallow
      <4>2. CASE ~Scalar(h)
        <5>1. MessageOf(h.of, y) \in Messages
          BY <2>1, <4>2 DEF Holds
        <5>2. MessageOf(h.of, y).of \in Types
          BY <5>1, NestedMessages, MessageFacts
        <5>3. Depth[h.of] \in Nat
          BY <5>2, TypeFacts DEF MessageOf
        <5> QED BY <4>2, <5>3 DEF Shallow
      <4> QED BY <4>1, <4>2
    <3> HIDE DEF dd
    <3>2. /\ IsField(WriteOne(Bytes, h, y), h.number, WireOf(h))
          /\ Len(WriteOne(Bytes, h, y)) = SizeOne(ContentSize, h, y)
      BY <2>1, <3>1, OneIsField, BytesEverywhere
    <3> QED BY <3>2 DEF IsField
  <2> QED BY <1>1, <2>1
<1>3. z = Len(a) + Len(b)
  BY <1>2 DEF SizeEntry
<1>4. z \in 0 .. WORD - 1
  <2>1. WORD \in Nat
    BY Widths DEF Even
  <2> HIDE DEF a, b
  <2> QED BY <1>2, <1>3, <2>1
<1>5. t \in Seq(B) /\ Len(t) = SizeTag(f.number) /\ SizeTag(f.number) \in Nat
  <2>1. BytesType \in 0 .. 7
    BY DEF BytesType
  <2> QED BY <2>1, TagIsRead
<1>6. w \in Seq(B) /\ Len(w) = SizeVarInt(z) /\ SizeVarInt(z) \in Nat
  BY <1>4, VarIntTypes
<1>7. WriteEntry(Bytes, f, k, v) = ((t \o w) \o a) \o b
  BY DEF WriteEntry
<1>8. bs \in Seq(B)
  OBVIOUS
<1> HIDE DEF a, b, t, w, B
<1>9. /\ t \o w \in Seq(B) /\ Len(t \o w) = Len(t) + Len(w)
      /\ (t \o w) \o a \in Seq(B) /\ Len((t \o w) \o a) = (Len(t) + Len(w)) + Len(a)
  <2> DEFINE tw == t \o w
  <2>1. tw \in Seq(B) /\ Len(tw) = Len(t) + Len(w)
    BY <1>5, <1>6, ConcatProperties
  <2> HIDE DEF tw
  <2>2. tw \o a \in Seq(B) /\ Len(tw \o a) = Len(tw) + Len(a)
    BY <1>2, <2>1, ConcatProperties
  <2> QED BY <2>1, <2>2 DEF tw
<1>10. Stands(((t \o w) \o a) \o b, bs, at)
  BY <1>7
<1>11. Stands((t \o w) \o a, bs, at) /\ Stands(b, bs, at + Len((t \o w) \o a))
  BY <1>2, <1>8, <1>9, <1>10, PartsStand
<1>12. Stands(t \o w, bs, at) /\ Stands(a, bs, at + Len(t \o w))
  BY <1>2, <1>8, <1>9, <1>11, PartsStand
<1>13. Stands(t, bs, at) /\ Stands(w, bs, at + Len(t))
  BY <1>5, <1>6, <1>8, <1>12, PartsStand
<1>14. at + SizeTag(f.number) \in Nat /\ (at + SizeTag(f.number)) + SizeVarInt(z) \in Nat
  BY <1>5, <1>6
<1>15. ReadVarInt(bs, at + SizeTag(f.number)) = [value |-> z, size |-> SizeVarInt(z)]
  <2>1. Stands(w, bs, at + SizeTag(f.number))
    BY <1>5, <1>13
  <2> QED BY <1>4, <1>14, <2>1, VarIntsAreRead DEF w
<1>16. /\ at + Len(t \o w) = (at + SizeTag(f.number)) + SizeVarInt(z)
       /\ at + Len((t \o w) \o a) = ((at + SizeTag(f.number)) + SizeVarInt(z)) + Len(a)
  <2> DEFINE lt == SizeTag(f.number)
             lw == SizeVarInt(z)
             la == Len(a)
  <2>1. lt \in Nat /\ lw \in Nat /\ la \in Nat
    BY <1>2, <1>5, <1>6
  <2>2. Len(t \o w) = lt + lw /\ Len((t \o w) \o a) = (lt + lw) + la
    BY <1>5, <1>6, <1>9
  <2> HIDE DEF lt, lw, la
  <2>3. at + (lt + lw) = (at + lt) + lw /\ at + ((lt + lw) + la) = ((at + lt) + lw) + la
    BY <2>1
  <2> QED BY <2>2, <2>3 DEF lt, lw, la
<1> QED BY <1>2, <1>3, <1>11, <1>12, <1>14, <1>15, <1>16 DEF a, b

(* A reader of the entries reads the key and the value of each.            *)
LEMMA EntryIsRead ==
  ASSUME NEW f, f.number \in FieldNumbers, Scalar(KeyField(f)), NEW k, Holds(KeyField(f), k),
         NEW v, Holds(ValueField(f), v), SizeEntry(ContentSize, f, k, v) < WORD,
         NEW g, SameType(f, g), g.key = f.key,
         NEW bs \in Seq(Byte), NEW at \in Nat, Stands(WriteEntry(Bytes, f, k, v), bs, at)
  PROVE  ReadEntry(g, bs, at + SizeTag(f.number)) = <<k, Raw(f, v)>>
<1> DEFINE z == SizeEntry(ContentSize, f, k, v)
           o == at + SizeTag(f.number)
           a == WriteOne(Bytes, KeyField(f), k)
           b == WriteOne(Bytes, ValueField(f), v)
           from == o + SizeVarInt(z)
           la == Len(a)
           lb == Len(b)
           y == Raw(f, v)
           keyTag == SizeTag(1)
           keySize == PayloadSize(RawType(KeyField(f)), k)
           valueTag == SizeTag(2)
           valueSize == PayloadSize(RawType(ValueField(f)), y)
<1>1. /\ la \in Nat \ {0} /\ lb \in Nat \ {0} /\ z = la + lb /\ from \in Nat /\ o \in Nat
      /\ ReadVarInt(bs, o) = [value |-> z, size |-> SizeVarInt(z)]
      /\ Stands(a, bs, from) /\ Stands(b, bs, from + la)
  BY EntryStands
<1>2. /\ KeyField(f).number = 1 /\ ValueField(f).number = 2 /\ 1 \in FieldNumbers /\ 2 \in FieldNumbers
      /\ SameType(KeyField(f), KeyField(g)) /\ SameType(ValueField(f), ValueField(g))
      /\ Raw(KeyField(f), k) = k /\ Raw(ValueField(f), v) = y
  <2>1. KeyField(f).number = 1 /\ ValueField(f).number = 2 /\ 1 \in FieldNumbers /\ 2 \in FieldNumbers
    BY MessageAssumption DEF KeyField, ValueField
  <2>2. SameType(KeyField(f), KeyField(g)) /\ SameType(ValueField(f), ValueField(g))
    BY DEF SameType, KeyField, ValueField, Scalar
  <2>3. Raw(KeyField(f), k) = k
    BY DEF Raw
  <2>4. Raw(ValueField(f), v) = y
    BY DEF Raw, ValueField, Scalar
  <2> QED BY <2>1, <2>2, <2>3, <2>4
<1>3. /\ ReadTag(bs, from).number = 1 /\ ReadTag(bs, from).size = keyTag
      /\ ReadOne(KeyField(g), bs, from + keyTag) = [value |-> k, size |-> keySize]
      /\ la = keyTag + keySize /\ keySize \in Nat /\ keyTag \in Nat
  <2>1. /\ ReadOne(KeyField(g), bs, from + keyTag) = [value |-> k, size |-> keySize]
        /\ la = keyTag + keySize /\ keySize \in Nat /\ keyTag \in Nat
        /\ ReadTag(bs, from) = [number |-> 1, type |-> WireOf(KeyField(f)), size |-> keyTag]
    <3> HIDE DEF from
    <3>1. from \in Nat /\ Stands(a, bs, from)
      BY <1>1
    <3> QED BY <1>2, <3>1, OneIsReadRaw
  <2> HIDE DEF from, keyTag, keySize
  <2> QED BY <2>1
<1>4. /\ ReadTag(bs, from + la).number = 2 /\ ReadTag(bs, from + la).size = valueTag
      /\ ReadOne(ValueField(g), bs, (from + la) + valueTag) = [value |-> y, size |-> valueSize]
      /\ lb = valueTag + valueSize /\ valueSize \in Nat /\ valueTag \in Nat
  <2> DEFINE behind == from + la
  <2>1. /\ ReadOne(ValueField(g), bs, behind + valueTag) = [value |-> y, size |-> valueSize]
        /\ lb = valueTag + valueSize /\ valueSize \in Nat /\ valueTag \in Nat
        /\ ReadTag(bs, behind) = [number |-> 2, type |-> WireOf(ValueField(f)), size |-> valueTag]
    <3>1. behind \in Nat /\ Stands(b, bs, behind)
      <4> HIDE DEF from, la
      <4> QED BY <1>1
    <3> HIDE DEF behind
    <3> QED BY <1>2, <3>1, OneIsReadRaw
  <2> HIDE DEF behind, valueTag, valueSize
  <2> QED BY <2>1 DEF behind
<1> DEFINE zero == <<ZeroOf(g.key), ZeroOf(g.of)>>
           start == [at |-> from, entry |-> zero]
           keyRead == [at |-> from + la, entry |-> <<k, zero[2]>>]
           bothRead == [at |-> from + z, entry |-> <<k, y>>]
           Step(r) ==
             LET tag == ReadTag(bs, r.at)
                 begin == r.at + tag.size
                 one == ReadOne(IF tag.number = 1 THEN KeyField(g) ELSE ValueField(g), bs, begin)
             IN IF r.at >= from + z THEN r
                ELSE IF tag.number \in {1, 2}
                THEN [at |-> begin + one.size, entry |-> [r.entry EXCEPT ![tag.number] = one.value]]
                ELSE [r EXCEPT !.at = Skip(bs, begin, tag.type)]
           Is(h) == h = [i \in 0 .. z |-> IF i = 0 THEN start ELSE Step(h[i - 1])]
           c == CHOOSE h : Is(h)
           s == [i \in 0 .. z |-> IF i = 0 THEN start ELSE IF i = 1 THEN keyRead ELSE bothRead]
<1>5. ReadEntry(g, bs, o) = c[z].entry
  <2> HIDE DEF z, o
  <2>1. ReadVarInt(bs, o).value = z /\ ReadVarInt(bs, o).size = SizeVarInt(z)
    BY <1>1
  <2> QED BY <2>1 DEF ReadEntry, Loop
<1> HIDE DEF z, o, a, b, from, la, lb, y, keyTag, keySize, valueTag, valueSize
<1>6. Step(start) = keyRead
  <2>1. ~(from >= from + z)
    BY <1>1
  <2>2. (from + keyTag) + keySize = from + la
    BY <1>1, <1>3
  <2>3. [zero EXCEPT ![1] = k] = <<k, zero[2]>>
    OBVIOUS
  <2> HIDE DEF zero
  <2>4. start.at = from /\ start.entry = zero
    OBVIOUS
  <2> HIDE DEF start
  <2>5. /\ ReadTag(bs, start.at).number = 1 /\ start.at + ReadTag(bs, start.at).size = from + keyTag
        /\ ReadOne(KeyField(g), bs, from + keyTag).value = k
        /\ ReadOne(KeyField(g), bs, from + keyTag).size = keySize
    BY <1>3, <2>4
  <2>6. Step(start) = [at |-> (from + keyTag) + keySize, entry |-> [zero EXCEPT ![1] = k]]
    BY <2>1, <2>4, <2>5
  <2> QED BY <2>2, <2>3, <2>6
<1>7. Step(keyRead) = bothRead
  <2>1. ~(from + la >= from + z)
    BY <1>1
  <2>2. ((from + la) + valueTag) + valueSize = from + z
    BY <1>1, <1>4
  <2>3. [<<k, zero[2]>> EXCEPT ![2] = y] = <<k, y>>
    OBVIOUS
  <2> HIDE DEF zero
  <2>4. keyRead.at = from + la /\ keyRead.entry = <<k, zero[2]>>
    OBVIOUS
  <2> HIDE DEF keyRead
  <2> QED BY <1>4, <2>1, <2>2, <2>3, <2>4
<1>8. Step(bothRead) = bothRead
  <2>1. from + z >= from + z
    BY <1>1
  <2> QED BY <2>1
<1> HIDE DEF Step, start, keyRead, bothRead
<1>9. z \in Nat /\ 0 \in 0 .. z /\ z \in 0 .. z /\ z # 0 /\ z # 1
  BY <1>1
<1>10. s[0] = start /\ s[z] = bothRead
  BY <1>9
<1>11. ASSUME NEW i \in 1 .. z PROVE s[i] = Step(s[i - 1])
  <2>1. i \in 0 .. z /\ i - 1 \in 0 .. z /\ i # 0
    BY <1>9
  <2>2. CASE i = 1
    BY <1>6, <2>1, <2>2
  <2>3. CASE i = 2
    BY <1>7, <2>1, <2>3
  <2>4. CASE i # 1 /\ i # 2
    <3>1. i - 1 # 0 /\ i - 1 # 1
      BY <1>9, <2>4
    <3> QED BY <1>8, <2>1, <2>4, <3>1
  <2> QED BY <2>2, <2>3, <2>4
<1>12. s = [i \in 0 .. z |-> s[i]]
  OBVIOUS
<1> HIDE DEF s
<1>13. Is(s)
  <2>1. \A i \in 0 .. z : s[i] = IF i = 0 THEN start ELSE Step(s[i - 1])
    <3> TAKE i \in 0 .. z
    <3>1. i = 0 \/ (i \in 1 .. z /\ i # 0)
      BY <1>9
    <3> QED BY <1>10, <1>11, <3>1
  <2> QED BY <1>12, <2>1
<1>14. Is(c)
  <2> HIDE DEF Is
  <2> QED BY <1>13
<1> HIDE DEF c
<1>15. c[0] = start /\ \A i \in 1 .. z : c[i] = Step(c[i - 1])
  <2>1. \A i \in 0 .. z : c[i] = IF i = 0 THEN start ELSE Step(c[i - 1])
    BY <1>14
  <2>2. \A i \in 1 .. z : i \in 0 .. z /\ i # 0
    BY <1>9
  <2> QED BY <1>9, <2>1, <2>2
<1>16. c[z] = s[z]
  <2>1. c[0] = s[0]
    BY <1>10, <1>15
  <2>2. \A i \in 1 .. z : c[i - 1] = s[i - 1] => c[i] = s[i]
    BY <1>11, <1>15
  <2> QED BY <1>9, <2>1, <2>2, LoopFollows
<1>17. bothRead.entry = <<k, y>>
  BY DEF bothRead
<1> QED BY <1>5, <1>10, <1>16, <1>17 DEF o, y

(* Entries with different keys make the map they were taken from.          *)
Entries(order, n, y) == [i \in 1 .. n |-> <<order[i], y[order[i]]>>]

LEMMA GoMapOfAll ==
  ASSUME NEW S, NEW n, NEW order, Enumerates(order, n, S), NEW T, NEW y \in [S -> T]
  PROVE  GoMap(Entries(order, n, y)) = y
<1> DEFINE entries == Entries(order, n, y)
           K == {entry[1] : entry \in Range(entries)}
           h(k) == entries[Max({i \in DOMAIN entries : entries[i][1] = k})][2]
<1>1. GoMap(entries) = [k \in K |-> h(k)]
  BY DEF GoMap
<1>2. /\ DOMAIN entries = 1 .. n
      /\ \A i \in 1 .. n : entries[i][1] = order[i] /\ entries[i][2] = y[order[i]]
  BY DEF Entries
<1> HIDE DEF entries
<1>3. /\ \A i \in 1 .. n : order[i] \in S
      /\ \A i, j \in 1 .. n : order[i] = order[j] => i = j
      /\ \A k \in S : \E i \in 1 .. n : order[i] = k
  BY DEF Enumerates
<1>4. K = S
  <2>1. K = {entries[i][1] : i \in DOMAIN entries}
    BY DEF Range
  <2>2. K = {order[i] : i \in 1 .. n}
    <3> HIDE DEF K
    <3> QED BY <1>2, <2>1
  <2> HIDE DEF K
  <2> QED BY <1>3, <2>2
<1>5. ASSUME NEW k \in S PROVE h(k) = y[k]
  <2> DEFINE D == {i \in DOMAIN entries : entries[i][1] = k}
  <2>1. PICK i \in 1 .. n : order[i] = k
    BY <1>3
  <2>2. D = {i}
    BY <1>2, <1>3, <2>1
  <2> HIDE DEF D
  <2>3. Max(D) = i
    <3>1. Max(D) = CHOOSE j \in {i} : \A l \in {i} : j >= l
      BY <2>2 DEF Max
    <3>2. i >= i
      OBVIOUS
    <3> QED BY <3>1, <3>2
  <2>4. h(k) = entries[i][2]
    BY <2>3 DEF D
  <2> QED BY <1>2, <2>1, <2>4
<1> HIDE DEF K, h
<1> QED BY <1>1, <1>4, <1>5 DEF entries

LEMMA CarriesMap ==
  ASSUME NEW f, NEW d, Declared(f, d), f.shape = "map", NEW x, HoldsAll(f, x),
         \A k \in DOMAIN x : SizeEntry(ContentSize, f, k, x[k]) < WORD,
         NEW order \in SetToSeqs(DOMAIN x)
  PROVE  Carries(f, x, WriteMap(Bytes, f, x, order))
<1> DEFINE P == WriteMap(Bytes, f, x, order)
           S == DOMAIN x
           n == f.number
           y == [k \in S |-> Raw(f, x[k])]
<1>1. n \in FieldNumbers
  BY DEF Declared
<1>2. PICK c \in Nat : Enumerates(order, c, S)
  <2>1. IsFiniteSet(S)
    BY Shapes
  <2> QED BY <2>1, OrderFacts
<1>3. order \in [1 .. c -> S]
  BY <1>2 DEF Enumerates
<1>4. \A k \in S : Holds(KeyField(f), k) /\ Scalar(KeyField(f)) /\ Holds(ValueField(f), x[k])
  BY EntryFacts
<1>5. P = [i \in 1 .. c |-> WriteEntry(Bytes, f, order[i], x[order[i]])]
  BY <1>3 DEF WriteMap
<1> HIDE DEF P, S, n, y
<1>6. Len(P) = c /\ \A i \in 1 .. c : P[i] = WriteEntry(Bytes, f, order[i], x[order[i]])
  <2>1. \A i \in 1 .. c : P[i] = WriteEntry(Bytes, f, order[i], x[order[i]])
    BY <1>5
  <2> DEFINE T == {WriteEntry(Bytes, f, order[i], x[order[i]]) : i \in 1 .. c}
  <2>2. P \in [1 .. c -> T]
    BY <1>5
  <2> HIDE DEF T
  <2>3. Len(P) = c
    BY <1>2, <2>2
  <2> QED BY <2>1, <2>3
<1>7. ASSUME NEW g, SameField(f, g), NEW bs \in Seq(Byte), NEW known, Located(P, n, f.shape, bs, known)
      PROVE  RawRead(g, bs, known) = RawAll(f, x)
  <2>1. g.shape = "map" /\ SameType(f, g) /\ g.key = f.key
    BY <1>7, SameFields
  <2>2. PICK ats \in [1 .. c -> Nat] :
           /\ \A i \in 1 .. c : Stands(P[i], bs, ats[i])
           /\ known = Kept("map", [i \in 1 .. c |-> Spot(P, n, ats, i)])
    BY <1>6, <1>7 DEF Located
  <2>3. known = [i \in 1 .. c |-> Spot(P, n, ats, i)]
    BY <2>2 DEF Kept
  <2>4. ASSUME NEW i \in 1 .. c PROVE ReadEntry(g, bs, known[i][1]) = <<order[i], y[order[i]]>>
    <3> DEFINE k == order[i]
               v == x[k]
               at == ats[i]
    <3>1. known[i][1] = at + SizeTag(n) /\ at \in Nat
      <4>1. known[i] = Spot(P, n, ats, i)
        BY <2>3
      <4>2. Spot(P, n, ats, i)[1] = at + SizeTag(n)
        BY DEF Spot
      <4>3. at \in Nat
        BY <2>2
      <4> QED BY <4>1, <4>2, <4>3
    <3>2. k \in S
      BY <1>3
    <3>3. Holds(KeyField(f), k) /\ Scalar(KeyField(f)) /\ Holds(ValueField(f), v)
      BY <1>4, <3>2
    <3>4. SizeEntry(ContentSize, f, k, v) < WORD
      BY <3>2 DEF S
    <3>5. Stands(WriteEntry(Bytes, f, k, v), bs, at)
      BY <1>6, <2>2
    <3>6. y[k] = Raw(f, v)
      BY <3>2 DEF y
    <3> HIDE DEF k, v, at
    <3>7. ReadEntry(g, bs, at + SizeTag(n)) = <<k, Raw(f, v)>>
      BY <1>1, <2>1, <3>1, <3>3, <3>4, <3>5, EntryIsRead DEF n
    <3> QED BY <3>1, <3>6, <3>7 DEF k
  <2>5. DOMAIN known = 1 .. c
    BY <2>3
  <2> DEFINE entries == [i \in DOMAIN known |-> ReadEntry(g, bs, known[i][1])]
  <2>6. RawRead(g, bs, known) = GoMap(entries)
    BY <2>1 DEF RawRead, ReadMap
  <2>7. entries = Entries(order, c, y)
    BY <2>4, <2>5 DEF Entries
  <2> HIDE DEF entries
  <2>8. GoMap(Entries(order, c, y)) = y
    <3> DEFINE T == {Raw(f, x[k]) : k \in S}
    <3>1. y \in [S -> T]
      BY DEF y
    <3> HIDE DEF T
    <3> QED BY <1>2, <3>1, GoMapOfAll
  <2>9. RawAll(f, x) = y
    BY DEF RawAll, y, S
  <2> QED BY <2>6, <2>7, <2>8, <2>9
<1> QED BY <1>7 DEF Carries, P, n

(***************************************************************************)
(* A packed list.                                                          *)
(***************************************************************************)
LEMMA StandsWithin ==
  ASSUME NEW a, NEW b, NEW bs, NEW i \in Nat, NEW at \in Nat, Len(a) \in Nat, Len(b) \in Nat,
         Len(bs) \in Nat, Stands(a, b, i), Stands(b, bs, at)
  PROVE  Stands(a, bs, at + i)
<1> DEFINE la == Len(a)
           lb == Len(b)
<1>1. i + la <= lb /\ (\A k \in 1 .. la : b[i + k] = a[k]) /\ at + lb <= Len(bs)
      /\ (\A k \in 1 .. lb : bs[at + k] = b[k])
  BY DEF Stands
<1>2. la \in Nat /\ lb \in Nat
  OBVIOUS
<1> HIDE DEF la, lb
<1>3. (at + i) + la <= Len(bs)
  BY <1>1, <1>2
<1>4. ASSUME NEW k \in 1 .. la PROVE bs[(at + i) + k] = a[k]
  <2>1. i + k \in 1 .. lb
    BY <1>1, <1>2
  <2>2. bs[at + (i + k)] = b[i + k] /\ b[i + k] = a[k]
    BY <1>1, <2>1
  <2>3. at + (i + k) = (at + i) + k
    OBVIOUS
  <2> QED BY <2>2, <2>3
<1> QED BY <1>3, <1>4 DEF Stands, la

LEMMA PayloadTakesBytes ==
  ASSUME NEW t \in ScalarTypes, t # "bytes", NEW x \in GoValues(t)
  PROVE  PayloadSize(t, x) \in Nat \ {0}
<1>1. CASE t \in VarInts
  <2>1. Coded(t, x) \in 0 .. WORD - 1
    BY NumberBack
  <2>2. SizeVarInt(Coded(t, x)) \in Nat \ {0}
    BY <2>1, VarIntTypes
  <2> QED BY <1>1, <2>2, AsVarInt
<1>2. CASE t \in Fixed32s
  BY <1>2, AsFixed32, Widths
<1>3. CASE t \in Fixed64s
  BY <1>3, AsFixed64, Widths
<1> QED BY <1>1, <1>2, <1>3, Ways

Prefix(x, j) == [i \in 1 .. j |-> x[i]]

PrefixesOf(x, c) ==
    /\ Prefix(x, 0) = <<>> /\ Prefix(x, c) = x
    /\ \A j \in 1 .. c : Append(Prefix(x, j - 1), x[j]) = Prefix(x, j)

LEMMA PrefixSteps ==
  ASSUME NEW c \in Nat, NEW S, NEW x \in [1 .. c -> S]
  PROVE  PrefixesOf(x, c)
<1>1. Prefix(x, 0) = <<>> /\ Prefix(x, c) = x
  BY DEF Prefix
<1>2. ASSUME NEW j \in 1 .. c PROVE Append(Prefix(x, j - 1), x[j]) = Prefix(x, j)
  <2> DEFINE h == Prefix(x, j)
  <2>1. j \in Nat \ {0} /\ h \in [1 .. j -> S] /\ h[j] = x[j]
    BY DEF Prefix
  <2>2. [i \in 1 .. j |-> h[i]] = h
    BY DEF Prefix
  <2>3. [i \in 1 .. j - 1 |-> h[i]] = Prefix(x, j - 1)
    BY DEF Prefix
  <2> HIDE DEF h
  <2>4. Append([i \in 1 .. j - 1 |-> h[i]], h[j]) = [i \in 1 .. j |-> h[i]]
    BY <2>1, OneMore
  <2> QED BY <2>1, <2>2, <2>3, <2>4 DEF h
<1> QED BY <1>1, <1>2 DEF PrefixesOf

LEMMA PackedIsRead ==
  ASSUME NEW f, Scalar(f), f.of # "bytes", NEW x, IsSeq(x), \A i \in DOMAIN x : Holds(f, x[i]),
         NEW g, SameType(f, g), NEW bs \in Seq(Byte), NEW body \in Nat,
         Stands(FlattenSeq([i \in DOMAIN x |-> Payload(f.of, x[i])]), bs, body),
         NEW o \in Nat, NEW l \in Nat, ReadVarInt(bs, o) = [value |-> PayloadSizes(f, x), size |-> l],
         body = o + l
  PROVE  ReadPacked(g, bs, o, BytesType) = x
<1> DEFINE t == f.of
           m == Len(x)
           pieces == [i \in DOMAIN x |-> Payload(t, x[i])]
           B == Byte
           all == FlattenSeq(pieces)
           z == PayloadSizes(f, x)
           S == GoValues(t)
<1>1. m \in Nat /\ DOMAIN x = 1 .. m /\ x \in [1 .. m -> S]
  <2>1. m \in Nat /\ DOMAIN x = 1 .. m
    BY SeqFacts
  <2>2. \A i \in 1 .. m : x[i] \in S
    BY <2>1 DEF Holds
  <2>3. x \in Seq(S)
    BY <2>1, <2>2, SeqFacts
  <2> HIDE DEF S, m
  <2>4. x \in [1 .. Len(x) -> S]
    BY <2>3
  <2> QED BY <2>4 DEF m
<1>25. /\ Prefix(x, 0) = <<>> /\ Prefix(x, m) = x
       /\ \A i \in 1 .. m : Append(Prefix(x, i - 1), x[i]) = Prefix(x, i)
  <2> HIDE DEF m, S
  <2> DEFINE N == Nat
  <2>1. m \in N /\ x \in [1 .. m -> S]
    BY <1>1
  <2>2. \A c_ \in N : \A S_ : \A x_ \in [1 .. c_ -> S_] : PrefixesOf(x_, c_)
    BY PrefixSteps
  <2> HIDE DEF N
  <2>3. PrefixesOf(x, m)
    BY <2>1, <2>2
  <2> QED BY <2>3 DEF PrefixesOf
<1>2. t \in ScalarTypes
  BY DEF Scalar
<1>3. ASSUME NEW i \in 1 .. m
      PROVE  /\ x[i] \in S /\ Payload(t, x[i]) \in Seq(B)
             /\ Len(Payload(t, x[i])) = PayloadSize(t, x[i]) /\ PayloadSize(t, x[i]) \in Nat \ {0}
  <2>1. x[i] \in S
    BY <1>1
  <2> QED BY <1>2, <2>1, SizesAreExact, PayloadTakesBytes
<1>4. z = Len(all) /\ all \in Seq(B)
  BY PackedBytes
<1> HIDE DEF t, m, B, z, S
<1>5. pieces \in Seq(Seq(B)) /\ Len(pieces) = m /\ \A i \in 1 .. m : pieces[i] = Payload(t, x[i])
  BY <1>1, <1>3
<1> HIDE DEF pieces
<1>6. PICK off : Offsets(off, pieces)
  BY <1>5, OffsetsExist
<1>7. \A i \in 1 .. Len(pieces) : Len(pieces[i]) \in Nat \ {0}
  BY <1>3, <1>5
<1>8. /\ Len(all) \in Nat /\ Len(all) = off[m] /\ off[0] = 0
      /\ \A i \in 0 .. m : off[i] \in Nat /\ off[i] >= i
      /\ \A i \in 1 .. m : /\ Stands(pieces[i], all, off[i - 1]) /\ off[i] = off[i - 1] + Len(pieces[i])
                           /\ off[i - 1] < Len(all)
  <2>1. /\ Len(all) \in Nat /\ Len(all) = off[Len(pieces)] /\ off[0] = 0
        /\ \A i \in 0 .. Len(pieces) : off[i] \in Nat /\ off[i] >= i
        /\ \A i \in 1 .. Len(pieces) :
              /\ Stands(pieces[i], all, off[i - 1]) /\ off[i] = off[i - 1] + Len(pieces[i])
              /\ off[i - 1] < Len(all)
    BY <1>5, <1>6, <1>7, PartsOfAll
  <2> HIDE DEF all
  <2> QED BY <1>5, <2>1
<1>9. Stands(all, bs, body)
  BY DEF pieces, t
<1> HIDE DEF all
<1>10. z \in Nat /\ z = off[m] /\ m <= z
  <2>1. m \in 0 .. m
    BY <1>1
  <2> QED BY <1>4, <1>8, <2>1
<1>11. ASSUME NEW i \in 1 .. m
       PROVE  /\ ReadOne(g, bs, body + off[i - 1]).value = x[i]
              /\ (body + off[i - 1]) + ReadOne(g, bs, body + off[i - 1]).size = body + off[i]
              /\ ~(body + off[i - 1] >= body + z)
  <2> DEFINE at == off[i - 1]
             v == x[i]
  <2>1. i - 1 \in 0 .. m
    BY <1>1
  <2>2. at \in Nat /\ off[i] = at + PayloadSize(t, v) /\ at < z /\ Stands(Payload(t, v), all, at)
    BY <1>3, <1>4, <1>5, <1>8, <2>1
  <2>3. v \in S /\ Len(Payload(t, v)) \in Nat /\ PayloadSize(t, v) \in Nat
    BY <1>3
  <2> HIDE DEF at, v
  <2>4. body + at \in Nat /\ (body + at) + PayloadSize(t, v) = body + off[i] /\ ~(body + at >= body + z)
    BY <1>10, <2>2, <2>3
  <2>5. Stands(Payload(t, v), bs, body + at)
    <3>1. Len(all) \in Nat /\ Len(bs) \in Nat
      BY <1>8
    <3> HIDE DEF all
    <3> QED BY <1>9, <2>2, <2>3, <3>1, StandsWithin
  <2>6. Read(t, bs, body + at) = [value |-> v, size |-> PayloadSize(t, v)]
    BY <1>2, <2>3, <2>4, <2>5, ReadsWhatWasAppended DEF S
  <2>7. ReadOne(g, bs, body + at) = Read(t, bs, body + at)
    BY DEF ReadOne, SameType, Scalar, t
  <2> QED BY <2>4, <2>6, <2>7 DEF at, v
<1> DEFINE start == [at |-> body, values |-> <<>>]
           Step(r) ==
             LET one == ReadOne(g, bs, r.at)
             IN IF r.at >= body + z THEN r
                ELSE [at |-> r.at + one.size, values |-> Append(r.values, one.value)]
           Is(h) == h = [i \in 0 .. z |-> IF i = 0 THEN start ELSE Step(h[i - 1])]
           c == CHOOSE h : Is(h)
           j(i) == IF i <= m THEN i ELSE m
           state(i) == [at |-> body + off[i], values |-> Prefix(x, i)]
           s == [i \in 0 .. z |-> state(j(i))]
<1>12. ReadPacked(g, bs, o, BytesType) = c[z].values
  <2>1. ReadVarInt(bs, o).value = z /\ ReadVarInt(bs, o).size = l
    BY DEF z
  <2>2. o + ReadVarInt(bs, o).size = body
    BY <2>1
  <2> QED BY <2>1, <2>2 DEF ReadPacked, Loop
<1>13. ASSUME NEW i \in 1 .. m PROVE Step(state(i - 1)) = state(i)
  <2> DEFINE r == state(i - 1)
  <2>1. r.at = body + off[i - 1] /\ r.values = Prefix(x, i - 1)
    OBVIOUS
  <2>2. Append(Prefix(x, i - 1), x[i]) = Prefix(x, i)
    BY <1>25
  <2> HIDE DEF r
  <2>3. Step(r) = [at |-> body + off[i], values |-> Prefix(x, i)]
    BY <1>11, <2>1, <2>2
  <2> QED BY <2>3 DEF r
<1>14. Step(state(m)) = state(m)
  <2>1. body + off[m] >= body + z
    BY <1>10
  <2> QED BY <2>1
<1>15. start = state(0)
  <2>1. Prefix(x, 0) = <<>> /\ body + off[0] = body
    BY <1>8, <1>25
  <2> QED BY <2>1
<1>16. state(m).values = x
  BY <1>25
<1> HIDE DEF Step, start, state
<1>17. z \in Nat /\ 0 \in 0 .. z /\ z \in 0 .. z /\ j(0) = 0 /\ j(z) = m
  BY <1>1, <1>10
<1>18. s[0] = start /\ s[z] = state(m)
  BY <1>15, <1>17
<1>19. ASSUME NEW i \in 1 .. z PROVE s[i] = Step(s[i - 1])
  <2>1. i \in 0 .. z /\ i - 1 \in 0 .. z
    BY <1>17
  <2>2. CASE i <= m
    <3>1. i \in 1 .. m /\ j(i) = i /\ j(i - 1) = i - 1
      BY <1>1, <2>2
    <3> QED BY <1>13, <2>1, <3>1
  <2>3. CASE ~(i <= m)
    <3>1. j(i) = m /\ j(i - 1) = m
      BY <1>1, <2>3
    <3> QED BY <1>14, <2>1, <3>1
  <2> QED BY <2>2, <2>3
<1>20. s = [i \in 0 .. z |-> s[i]]
  OBVIOUS
<1> HIDE DEF s, j
<1>21. Is(s)
  <2>1. \A i \in 0 .. z : s[i] = IF i = 0 THEN start ELSE Step(s[i - 1])
    <3> TAKE i \in 0 .. z
    <3>1. i = 0 \/ (i \in 1 .. z /\ i # 0)
      BY <1>17
    <3> QED BY <1>18, <1>19, <3>1
  <2> QED BY <1>20, <2>1
<1>22. Is(c)
  <2> HIDE DEF Is
  <2> QED BY <1>21
<1> HIDE DEF c
<1>23. c[0] = start /\ \A i \in 1 .. z : c[i] = Step(c[i - 1])
  <2>1. \A i \in 0 .. z : c[i] = IF i = 0 THEN start ELSE Step(c[i - 1])
    BY <1>22
  <2>2. \A i \in 1 .. z : i \in 0 .. z /\ i # 0
    BY <1>17
  <2> QED BY <1>17, <2>1, <2>2
<1>24. c[z] = s[z]
  <2>1. c[0] = s[0]
    BY <1>18, <1>23
  <2>2. \A i \in 1 .. z : c[i - 1] = s[i - 1] => c[i] = s[i]
    BY <1>19, <1>23
  <2> QED BY <1>17, <2>1, <2>2, LoopFollows
<1> QED BY <1>12, <1>16, <1>18, <1>24

(* Fields on the wire that are read as a list, part after part.            *)
ReadAsPart(f, b, part) ==
    \A g : SameType(f, g) =>
       \A bs \in Seq(Byte) : \A at \in Nat :
          Stands(b, bs, at) => ReadPacked(g, bs, at + SizeTag(f.number), Wire(b)) = part
PackedAs(f, P, x) ==
    /\ P \in Seq(Seq(Byte))
    /\ \E parts \in Seq(Seq(GoValues(f.of))) :
          /\ Len(parts) = Len(P) /\ FlattenSeq(parts) = x
          /\ \A i \in 1 .. Len(P) : ReadAsPart(f, P[i], parts[i])

LEMMA PackedNone ==
  ASSUME NEW f
  PROVE  PackedAs(f, <<>>, <<>>)
<1>1. Len(<<>>) = 0 /\ FlattenSeq(<<>>) = <<>>
  BY NoField
<1>2. <<>> \in Seq(Seq(GoValues(f.of))) /\ <<>> \in Seq(Seq(Byte))
  OBVIOUS
<1>3. \A i \in 1 .. Len(<<>>) : ReadAsPart(f, <<>>[i], <<>>[i])
  BY <1>1
<1> QED BY <1>1, <1>2, <1>3 DEF PackedAs

LEMMA PackedOne ==
  ASSUME NEW f, NEW b \in Seq(Byte), NEW x \in Seq(GoValues(f.of)), ReadAsPart(f, b, x)
  PROVE  PackedAs(f, <<b>>, x)
<1> DEFINE S == GoValues(f.of)
           T == Seq(Byte)
           parts == <<x>>
           P == <<b>>
<1>1. FlattenSeq(parts) = x
  <2>1. x \in Seq(S)
    OBVIOUS
  <2> HIDE DEF S
  <2> QED BY <2>1, FlattenFew
<1>2. b \in T
  OBVIOUS
<1> HIDE DEF S, T
<1>3. Len(parts) = 1 /\ Len(P) = 1 /\ parts[1] = x /\ P[1] = b
  OBVIOUS
<1>4. parts \in Seq(Seq(S)) /\ P \in Seq(T)
  <2>1. x \in Seq(S)
    BY DEF S
  <2> QED BY <1>2, <2>1
<1> HIDE DEF parts, P
<1>5. \A i \in 1 .. Len(P) : ReadAsPart(f, P[i], parts[i])
  BY <1>3
<1>6. PackedAs(f, P, x)
  BY <1>1, <1>3, <1>4, <1>5 DEF PackedAs, S, T
<1> QED BY <1>6 DEF P

LEMMA PackedBoth ==
  ASSUME NEW f, NEW P, NEW Q, NEW x, NEW y, PackedAs(f, P, x), PackedAs(f, Q, y)
  PROVE  PackedAs(f, P \o Q, x \o y)
<1> DEFINE S == GoValues(f.of)
           T == Seq(Byte)
           all == P \o Q
<1>1. P \in Seq(T) /\ Q \in Seq(T)
  BY DEF PackedAs
<1>2. PICK a \in Seq(Seq(S)) :
         /\ Len(a) = Len(P) /\ FlattenSeq(a) = x
         /\ \A i \in 1 .. Len(P) : ReadAsPart(f, P[i], a[i])
  BY DEF PackedAs
<1>3. PICK b \in Seq(Seq(S)) :
         /\ Len(b) = Len(Q) /\ FlattenSeq(b) = y
         /\ \A i \in 1 .. Len(Q) : ReadAsPart(f, Q[i], b[i])
  BY DEF PackedAs
<1> DEFINE U == Seq(S)
           parts == a \o b
<1>4. FlattenSeq(parts) = x \o y
  <2> HIDE DEF S
  <2>1. FlattenSeq(parts) = FlattenSeq(a) \o FlattenSeq(b)
    BY FlattenBoth
  <2> QED BY <1>2, <1>3, <2>1
<1>5. a \in Seq(U) /\ b \in Seq(U)
  OBVIOUS
<1> HIDE DEF U, S, T
<1>6. /\ parts \in Seq(U) /\ Len(parts) = Len(a) + Len(b)
      /\ \A i \in 1 .. Len(a) + Len(b) : parts[i] = IF i <= Len(a) THEN a[i] ELSE b[i - Len(a)]
  BY <1>5, ConcatProperties
<1>7. /\ all \in Seq(T) /\ Len(all) = Len(P) + Len(Q)
      /\ \A i \in 1 .. Len(P) + Len(Q) : all[i] = IF i <= Len(P) THEN P[i] ELSE Q[i - Len(P)]
  BY <1>1, ConcatProperties
<1>8. Len(P) \in Nat /\ Len(Q) \in Nat
  BY <1>1
<1> HIDE DEF parts, all
<1>9. ASSUME NEW i \in 1 .. Len(all) PROVE ReadAsPart(f, all[i], parts[i])
  <2>1. CASE i <= Len(P)
    <3>1. i \in 1 .. Len(P) /\ all[i] = P[i] /\ parts[i] = a[i]
      BY <1>2, <1>3, <1>6, <1>7, <1>8, <2>1
    <3> QED BY <1>2, <3>1
  <2>2. CASE ~(i <= Len(P))
    <3>1. i - Len(P) \in 1 .. Len(Q)
      BY <1>7, <1>8, <2>2
    <3>2. all[i] = Q[i - Len(P)] /\ parts[i] = b[i - Len(P)]
      BY <1>2, <1>3, <1>6, <1>7, <1>8, <2>2
    <3> QED BY <1>3, <3>1, <3>2
  <2> QED BY <2>1, <2>2
<1>10. Len(parts) = Len(all)
  BY <1>2, <1>3, <1>6, <1>7
<1>11. PackedAs(f, all, x \o y)
  BY <1>4, <1>6, <1>7, <1>9, <1>10 DEF PackedAs, S, T, U
<1> QED BY <1>11 DEF all

LEMMA PackedCarries ==
  ASSUME NEW f, f.shape = "packed", Scalar(f), NEW x, IsSeq(x), NEW P, PackedAs(f, P, x)
  PROVE  Carries(f, x, P)
<1> DEFINE c == Len(P)
           n == f.number
<1>1. PICK parts :
         /\ Len(parts) = c /\ FlattenSeq(parts) = x /\ parts \in Seq(Seq(GoValues(f.of)))
         /\ \A i \in 1 .. c : ReadAsPart(f, P[i], parts[i])
  BY DEF PackedAs
<1>2. c \in Nat /\ parts = [i \in 1 .. c |-> parts[i]]
  <2> DEFINE U == Seq(GoValues(f.of))
  <2>1. parts \in Seq(U) /\ Len(parts) = c
    BY <1>1
  <2> HIDE DEF U, c
  <2> QED BY <2>1
<1>3. ASSUME NEW g, SameField(f, g), NEW bs \in Seq(Byte), NEW known, Located(P, n, f.shape, bs, known)
      PROVE  RawRead(g, bs, known) = RawAll(f, x)
  <2>1. g.shape = "packed" /\ SameType(f, g)
    BY <1>3, SameFields
  <2>2. PICK ats \in [1 .. c -> Nat] :
           /\ \A i \in 1 .. c : Stands(P[i], bs, ats[i])
           /\ known = Kept("packed", [i \in 1 .. c |-> Spot(P, n, ats, i)])
    BY <1>3 DEF Located
  <2>3. known = [i \in 1 .. c |-> Spot(P, n, ats, i)]
    BY <2>2 DEF Kept
  <2> HIDE DEF c, n
  <2>4. ASSUME NEW i \in 1 .. c PROVE ReadPacked(g, bs, known[i][1], known[i][2]) = parts[i]
    <3>1. known[i] = Spot(P, n, ats, i)
      BY <2>3
    <3>2. Spot(P, n, ats, i)[1] = ats[i] + SizeTag(n) /\ Spot(P, n, ats, i)[2] = Wire(P[i])
      BY DEF Spot
    <3>3. ats[i] \in Nat /\ Stands(P[i], bs, ats[i])
      BY <2>2
    <3>4. ReadAsPart(f, P[i], parts[i])
      BY <1>1
    <3>5. ReadPacked(g, bs, ats[i] + SizeTag(n), Wire(P[i])) = parts[i]
      BY <2>1, <3>3, <3>4 DEF ReadAsPart, n
    <3> QED BY <3>1, <3>2, <3>5
  <2>5. DOMAIN known = 1 .. c
    BY <2>3
  <2> DEFINE read == [i \in DOMAIN known |-> ReadPacked(g, bs, known[i][1], known[i][2])]
  <2>6. RawRead(g, bs, known) = FlattenSeq(read)
    BY <2>1 DEF RawRead
  <2>7. read = parts
    BY <1>2, <2>4, <2>5
  <2>8. RawAll(f, x) = x
    <3>1. RawAll(f, x) = [i \in DOMAIN x |-> x[i]]
      BY DEF RawAll, Raw
    <3>2. x = [i \in DOMAIN x |-> x[i]]
      <4> DEFINE U == Range(x)
      <4>1. x \in Seq(U)
        BY DEF IsSeq
      <4> HIDE DEF U
      <4> QED BY <4>1
    <3> QED BY <3>1, <3>2
  <2> HIDE DEF read
  <2> QED BY <1>1, <2>6, <2>7, <2>8
<1> QED BY <1>3 DEF Carries, n

LEMMA OneInList ==
  ASSUME NEW f, f.number \in FieldNumbers, Scalar(f), f.of # "bytes", NEW y, Holds(f, y)
  PROVE  /\ WriteOne(Bytes, f, y) \in Seq(Byte) /\ y \in GoValues(f.of)
         /\ ReadAsPart(f, WriteOne(Bytes, f, y), <<y>>)
<1> DEFINE b == WriteOne(Bytes, f, y)
           n == f.number
<1>1. Shallow(f, 0)
  BY DEF Shallow
<1>2. IsField(b, n, WireOf(f))
  BY <1>1, BytesEverywhere, OneIsField
<1>3. Wire(b) = WireType(f.of) /\ b \in Seq(Byte)
  BY <1>2, FieldNames DEF WireOf
<1>4. WireType(f.of) # BytesType
  BY DEF WireType, BytesType, VarIntType, Fixed32Type, Fixed64Type
<1>5. ASSUME NEW g, SameType(f, g), NEW bs \in Seq(Byte), NEW at \in Nat, Stands(b, bs, at)
      PROVE  ReadPacked(g, bs, at + SizeTag(n), Wire(b)) = <<y>>
  <2>1. ReadOne(g, bs, at + SizeTag(n)) = [value |-> Raw(f, y), size |-> PayloadSize(RawType(f), Raw(f, y))]
    BY <1>5, OneIsReadRaw
  <2>2. Raw(f, y) = y
    BY DEF Raw
  <2>3. ReadPacked(g, bs, at + SizeTag(n), Wire(b)) = <<ReadOne(g, bs, at + SizeTag(n)).value>>
    BY <1>3, <1>4 DEF ReadPacked
  <2> QED BY <2>1, <2>2, <2>3
<1> QED BY <1>3, <1>5 DEF ReadAsPart, Holds

LEMMA AllInOne ==
  ASSUME NEW f, f.number \in FieldNumbers, Scalar(f), f.of # "bytes", NEW x, IsSeq(x),
         \A i \in DOMAIN x : Holds(f, x[i]), PayloadSizes(f, x) < WORD
  PROVE  LET b == Tag(f.number, BytesType) \o VarInt(PayloadSizes(f, x))
                  \o FlattenSeq([i \in DOMAIN x |-> Payload(f.of, x[i])])
         IN b \in Seq(Byte) /\ ReadAsPart(f, b, x)
<1> DEFINE n == f.number
           z == PayloadSizes(f, x)
           t == Tag(n, BytesType)
           w == VarInt(z)
           all == FlattenSeq([i \in DOMAIN x |-> Payload(f.of, x[i])])
           b == (t \o w) \o all
           B == Byte
<1>1. all \in Seq(B) /\ Len(all) = z /\ z \in Nat
  BY PackedBytes, PayloadSizesIsNat
<1>2. z \in 0 .. WORD - 1
  <2>1. WORD \in Nat /\ z < WORD
    BY Widths DEF Even
  <2> HIDE DEF z
  <2> QED BY <1>1, <2>1
<1>3. IsField(b, n, BytesType)
  <2>1. z = Len(all) /\ z < WORD /\ n \in FieldNumbers /\ all \in Seq(Byte)
    BY <1>1
  <2> HIDE DEF z, all, n
  <2> QED BY <2>1, PrefixedIsField
<1>4. Wire(b) = BytesType /\ b \in Seq(B)
  <2> HIDE DEF b
  <2> QED BY <1>3, FieldNames
<1>5. t \in Seq(B) /\ Len(t) = SizeTag(n) /\ SizeTag(n) \in Nat
  <2>1. BytesType \in 0 .. 7
    BY DEF BytesType
  <2> QED BY <2>1, TagIsRead
<1>6. w \in Seq(B) /\ Len(w) = SizeVarInt(z) /\ SizeVarInt(z) \in Nat
  <2> HIDE DEF z
  <2> QED BY <1>2, VarIntTypes
<1>7. ASSUME NEW g, SameType(f, g), NEW bs \in Seq(Byte), NEW at \in Nat, Stands(b, bs, at)
      PROVE  ReadPacked(g, bs, at + SizeTag(n), Wire(b)) = x
  <2>1. Stands(b, bs, at) /\ bs \in Seq(B)
    BY <1>7
  <2> DEFINE tw == t \o w
             o == at + SizeTag(n)
             l == SizeVarInt(z)
             body == o + l
  <2> HIDE DEF t, w, all, z, B, n, l
  <2>2. tw \in Seq(B) /\ Len(tw) = Len(t) + Len(w)
    BY <1>5, <1>6, ConcatProperties
  <2>3. Stands(tw, bs, at) /\ Stands(all, bs, at + Len(tw))
    <3> HIDE DEF tw
    <3>1. Stands(tw \o all, bs, at)
      BY <2>1 DEF tw
    <3> QED BY <1>1, <2>1, <2>2, <3>1, PartsStand
  <2>4. Stands(t, bs, at) /\ Stands(w, bs, at + Len(t))
    BY <1>5, <1>6, <2>1, <2>3, PartsStand
  <2>5. o \in Nat /\ l \in Nat /\ body \in Nat /\ at + Len(tw) = body /\ at + Len(t) = o
    BY <1>5, <1>6, <2>2 DEF l
  <2> HIDE DEF tw, o, body
  <2>6. ReadVarInt(bs, o) = [value |-> z, size |-> l]
    <3>1. Stands(w, bs, o)
      BY <2>4, <2>5
    <3> QED BY <1>2, <2>5, <3>1, VarIntsAreRead DEF w, l
  <2>7. Stands(all, bs, body)
    BY <2>3, <2>5
  <2>8. ReadPacked(g, bs, o, BytesType) = x
    <3>1. body = o + l /\ ReadVarInt(bs, o) = [value |-> PayloadSizes(f, x), size |-> l]
      BY <2>6 DEF body, z
    <3>2. Stands(FlattenSeq([i \in DOMAIN x |-> Payload(f.of, x[i])]), bs, body)
      BY <2>7 DEF all
    <3> QED BY <1>7, <2>5, <3>1, <3>2, PackedIsRead
  <2> QED BY <1>4, <2>8 DEF o
<1>8. b \in Seq(Byte) /\ ReadAsPart(f, b, x)
  <2> HIDE DEF b
  <2> QED BY <1>4, <1>7 DEF ReadAsPart, n
<1> QED BY <1>8

LEMMA EachInList ==
  ASSUME NEW f, f.number \in FieldNumbers, Scalar(f), f.of # "bytes", NEW x, IsSeq(x),
         \A i \in DOMAIN x : Holds(f, x[i])
  PROVE  PackedAs(f, WriteList(Bytes, f, x), x)
<1> DEFINE c == Len(x)
           S == GoValues(f.of)
           P == WriteList(Bytes, f, x)
           parts == [i \in 1 .. c |-> <<x[i]>>]
           off == [i \in 0 .. c |-> i]
<1>1. c \in Nat /\ DOMAIN x = 1 .. c
  BY SeqFacts
<1>2. \A i \in 1 .. c : x[i] \in S
  BY <1>1 DEF Holds
<1>3. x \in Seq(S)
  BY <1>1, <1>2, SeqFacts
<1>4. ASSUME NEW i \in 1 .. c
      PROVE  WriteOne(Bytes, f, x[i]) \in Seq(Byte) /\ ReadAsPart(f, WriteOne(Bytes, f, x[i]), <<x[i]>>)
  BY <1>1, OneInList
<1>5. P \in Seq(Seq(Byte)) /\ Len(P) = c /\ \A i \in 1 .. c : P[i] = WriteOne(Bytes, f, x[i])
  <2> DEFINE T == Seq(Byte)
             h(i) == WriteOne(Bytes, f, x[i])
  <2>1. P = [i \in 1 .. c |-> h(i)] /\ \A i \in 1 .. c : h(i) \in T
    BY <1>1, <1>4 DEF WriteList
  <2> HIDE DEF P, T, h, c
  <2>2. P \in [1 .. c -> T] /\ \A i \in 1 .. c : P[i] = h(i)
    BY <2>1
  <2>3. P \in Seq(T) /\ Len(P) = c
    BY <1>1, <2>2
  <2> QED BY <2>2, <2>3 DEF T, h
<1> HIDE DEF c, S, P
<1>6. /\ parts \in Seq(Seq(S)) /\ Len(parts) = c
      /\ \A i \in 1 .. c : parts[i] = <<x[i]>> /\ Len(parts[i]) = 1 /\ parts[i][1] = x[i]
  <2>1. \A i \in 1 .. c : parts[i] = <<x[i]>> /\ Len(parts[i]) = 1 /\ parts[i][1] = x[i]
    OBVIOUS
  <2> DEFINE T == Seq(S)
  <2>2. \A i \in 1 .. c : <<x[i]>> \in T
    BY <1>2
  <2> HIDE DEF T
  <2>3. parts \in [1 .. c -> T]
    BY <2>2
  <2> HIDE DEF parts
  <2>4. parts \in Seq(T) /\ Len(parts) = c
    BY <1>1, <2>3
  <2> QED BY <2>1, <2>4 DEF T
<1> HIDE DEF parts
<1>7. /\ off \in [0 .. c -> Nat] /\ off[0] = 0 /\ off[c] = c
      /\ \A i \in 1 .. c : off[i] = off[i - 1] + 1 /\ off[i - 1] = i - 1
  BY <1>1
<1> HIDE DEF off
<1>8. Offsets(off, parts)
  BY <1>6, <1>7 DEF Offsets
<1>9. Flat(x, off, parts, c)
  <2>1. Len(x) = off[c]
    BY <1>7 DEF c
  <2>2. ASSUME NEW i \in 1 .. c, NEW k \in 1 .. Len(parts[i])
        PROVE  off[i - 1] + k \in 1 .. Len(x) /\ x[off[i - 1] + k] = parts[i][k]
    <3>1. k = 1
      <4>1. Len(parts[i]) = 1
        BY <1>6
      <4> QED BY <4>1
    <3>2. off[i - 1] + k = i
      BY <1>1, <1>7, <3>1
    <3> QED BY <1>6, <3>1, <3>2 DEF c
  <2>3. ASSUME NEW p \in 1 .. Len(x) PROVE \E i \in 1 .. c : \E k \in 1 .. Len(parts[i]) : p = off[i - 1] + k
    <3>1. p \in 1 .. c /\ 1 \in 1 .. Len(parts[p])
      BY <1>6 DEF c
    <3>2. p = off[p - 1] + 1
      BY <1>1, <1>7, <3>1
    <3> QED BY <3>1, <3>2
  <2> QED BY <2>1, <2>2, <2>3 DEF Flat
<1>10. FlattenSeq(parts) = x
  <2>1. FlattenSeq(parts) \in Seq(S) /\ Flat(FlattenSeq(parts), off, parts, c)
    BY <1>6, <1>8, FlattenFacts
  <2> QED BY <1>3, <1>9, <2>1, FlatUnique
<1>11. \A i \in 1 .. Len(P) : ReadAsPart(f, P[i], parts[i])
  BY <1>4, <1>5, <1>6
<1> QED BY <1>5, <1>6, <1>10, <1>11 DEF PackedAs, P, S

LEMMA PackedIsWritten ==
  ASSUME NEW f, f.number \in FieldNumbers, Scalar(f), f.of # "bytes", NEW x, IsSeq(x),
         \A i \in DOMAIN x : Holds(f, x[i]), PayloadSizes(f, x) < WORD
  PROVE  PackedAs(f, WritePacked(Bytes, f, x), x)
<1> DEFINE S == GoValues(f.of)
<1>1. Len(x) \in Nat /\ DOMAIN x = 1 .. Len(x)
  BY SeqFacts
<1>2. x \in Seq(S)
  <2>1. \A i \in DOMAIN x : x[i] \in S
    BY DEF Holds
  <2> QED BY <2>1, SeqFacts
<1>3. CASE Len(x) = 0
  <2>1. x = <<>>
    <3> HIDE DEF S
    <3> QED BY <1>2, <1>3, EmptySeq
  <2>2. WritePacked(Bytes, f, x) = <<>>
    BY <1>3 DEF WritePacked
  <2> QED BY <2>1, <2>2, PackedNone
<1>4. CASE Len(x) = 1
  <2> DEFINE y == x[1]
  <2>1. x = <<y>>
    <3> HIDE DEF S
    <3> QED BY <1>2, <1>4
  <2>2. WritePacked(Bytes, f, x) = <<WriteOne(Bytes, f, y)>>
    BY <1>4 DEF WritePacked
  <2>3. Holds(f, y)
    BY <1>1, <1>4
  <2>4. WriteOne(Bytes, f, y) \in Seq(Byte) /\ ReadAsPart(f, WriteOne(Bytes, f, y), x)
    <3> HIDE DEF y
    <3> QED BY <2>1, <2>3, OneInList
  <2>5. PackedAs(f, <<WriteOne(Bytes, f, y)>>, x)
    <3> HIDE DEF y
    <3> QED BY <1>2, <2>4, PackedOne
  <2> QED BY <2>2, <2>5
<1>5. CASE Len(x) # 0 /\ Len(x) # 1
  <2> DEFINE b == Tag(f.number, BytesType) \o VarInt(PayloadSizes(f, x))
                  \o FlattenSeq([i \in DOMAIN x |-> Payload(f.of, x[i])])
  <2>1. WritePacked(Bytes, f, x) = <<b>>
    BY <1>5 DEF WritePacked
  <2>2. b \in Seq(Byte) /\ ReadAsPart(f, b, x)
    BY AllInOne
  <2>3. PackedAs(f, <<b>>, x)
    <3> HIDE DEF b
    <3> QED BY <1>2, <2>2, PackedOne
  <2> QED BY <2>1, <2>3
<1> QED BY <1>3, <1>4, <1>5

LEMMA CarriesPacked ==
  ASSUME NEW f, NEW d, Declared(f, d), f.shape = "packed", NEW x, HoldsAll(f, x), PayloadSizes(f, x) < WORD
  PROVE  Carries(f, x, WritePacked(Bytes, f, x))
<1>1. /\ f.number \in FieldNumbers /\ Scalar(f) /\ f.of # "bytes" /\ IsSeq(x)
      /\ \A i \in DOMAIN x : Holds(f, x[i])
  BY Shapes DEF Declared
<1>2. PackedAs(f, WritePacked(Bytes, f, x), x)
  BY <1>1, PackedIsWritten
<1> QED BY <1>1, <1>2, PackedCarries

(* Packed in part.                                                         *)
LEMMA PartsOfList ==
  ASSUME NEW S, NEW x \in Seq(S), NEW k \in 0 .. Len(x)
  PROVE  SubSeq(x, 1, k) \o SubSeq(x, k + 1, Len(x)) = x
<1> DEFINE a == SubSeq(x, 1, k)
           b == SubSeq(x, k + 1, Len(x))
           c == a \o b
           n == Len(x)
<1>1. n \in Nat /\ \A i \in 1 .. n : x[i] \in S
  OBVIOUS
<1>2. a \in Seq(S) /\ Len(a) = k /\ \A i \in 1 .. k : a[i] = x[i]
  OBVIOUS
<1>3. b \in Seq(S) /\ Len(b) = n - k /\ \A i \in 1 .. n - k : b[i] = x[k + i]
  <2>1. \A i \in 1 .. n - k : (k + 1) + i - 1 = k + i /\ k + i \in 1 .. n
    BY <1>1
  <2> QED BY <1>1, <2>1
<1> HIDE DEF a, b, n
<1>4. /\ c \in Seq(S) /\ Len(c) = Len(a) + Len(b)
      /\ \A i \in 1 .. Len(a) + Len(b) : c[i] = IF i <= Len(a) THEN a[i] ELSE b[i - Len(a)]
  BY <1>2, <1>3, ConcatProperties
<1>5. k \in 0 .. n
  BY DEF n
<1> HIDE DEF c
<1>6. Len(c) = n
  BY <1>1, <1>2, <1>3, <1>4, <1>5
<1>7. ASSUME NEW i \in 1 .. n PROVE c[i] = x[i]
  <2>1. c[i] = IF i <= k THEN a[i] ELSE b[i - k]
    BY <1>1, <1>2, <1>3, <1>4, <1>5, <1>6
  <2>2. CASE i <= k
    <3>1. i \in 1 .. k
      BY <1>5, <2>2
    <3> QED BY <1>2, <2>1, <2>2, <3>1
  <2>3. CASE ~(i <= k)
    <3>1. i - k \in 1 .. n - k /\ k + (i - k) = i
      BY <1>1, <1>5, <2>3
    <3> QED BY <1>3, <2>1, <2>3, <3>1
  <2> QED BY <2>2, <2>3
<1>8. c = x
  BY <1>4, <1>6, <1>7, SeqEqual DEF n
<1> QED BY <1>8 DEF a, b, c

LEMMA CarriesPackedInPart ==
  ASSUME NEW f, NEW d, Declared(f, d), f.shape = "packed", NEW x, HoldsAll(f, x), PayloadSizes(f, x) < WORD,
         NEW k \in 0 .. Len(x)
  PROVE  Carries(f, x, WritePacked(Bytes, f, SubSeq(x, 1, k)) \o WriteList(Bytes, f, SubSeq(x, k + 1, Len(x))))
<1> DEFINE S == GoValues(f.of)
           a == SubSeq(x, 1, k)
           b == SubSeq(x, k + 1, Len(x))
           P == WritePacked(Bytes, f, a)
           Q == WriteList(Bytes, f, b)
<1>1. /\ f.number \in FieldNumbers /\ Scalar(f) /\ f.of # "bytes" /\ IsSeq(x)
      /\ \A i \in DOMAIN x : Holds(f, x[i])
  BY Shapes DEF Declared
<1>2. Len(x) \in Nat /\ DOMAIN x = 1 .. Len(x) /\ x \in Seq(S)
  <2>1. \A i \in DOMAIN x : x[i] \in S
    BY <1>1 DEF Holds
  <2> QED BY <1>1, <2>1, SeqFacts
<1>3. IsSeq(a) /\ (\A i \in DOMAIN a : Holds(f, a[i])) /\ PayloadSizes(f, a) <= PayloadSizes(f, x)
  BY <1>1, FewerPayloads
<1>4. PayloadSizes(f, a) < WORD
  <2>1. PayloadSizes(f, a) \in Nat /\ PayloadSizes(f, x) \in Nat /\ WORD \in Nat
    BY <1>1, <1>3, PayloadSizesIsNat, Widths DEF Even
  <2> DEFINE za == PayloadSizes(f, a)
             zx == PayloadSizes(f, x)
  <2>2. za <= zx /\ zx < WORD /\ za \in Nat /\ zx \in Nat
    BY <1>3, <2>1
  <2> HIDE DEF za, zx
  <2>3. za < WORD
    BY <2>1, <2>2
  <2> QED BY <2>3 DEF za
<1>5. IsSeq(b) /\ \A i \in DOMAIN b : Holds(f, b[i])
  <2> DEFINE l == Len(x)
             k1 == k + 1
  <2>1. k1 \in Nat \ {0} /\ l \in Nat /\ l <= Len(x) /\ k1 <= l + 1
    BY <1>2
  <2> HIDE DEF k1, l
  <2>2. IsSeq(SubSeq(x, k1, l))
        /\ \A i \in DOMAIN SubSeq(x, k1, l) :
              k1 + i - 1 \in DOMAIN x /\ SubSeq(x, k1, l)[i] = x[k1 + i - 1]
    BY <1>1, <2>1, PartOfSeq
  <2> QED BY <1>1, <2>2 DEF k1, l
<1> HIDE DEF a, b
<1>6. PackedAs(f, P, a) /\ PackedAs(f, Q, b)
  BY <1>1, <1>3, <1>4, <1>5, PackedIsWritten, EachInList
<1>7. a \o b = x
  <2> HIDE DEF S
  <2> QED BY <1>2, PartsOfList DEF a, b
<1> HIDE DEF P, Q
<1>8. PackedAs(f, P \o Q, x)
  <2>1. PackedAs(f, P \o Q, a \o b)
    BY <1>6, PackedBoth
  <2> QED BY <1>7, <2>1
<1>9. Carries(f, x, P \o Q)
  BY <1>1, <1>8, PackedCarries
<1> QED BY <1>9 DEF P, Q, a, b

(***************************************************************************)
(* What a field adds to the message.                                       *)
(***************************************************************************)
LEMMA BlockAlone ==
  ASSUME NEW P, AreFields(P), NEW n, Named(P, n)
  PROVE  Block(P, n, P) /\ \A i \in 1 .. Len(P) : Num(P[i]) = n
<1> DEFINE c == Len(P)
<1>1. P \in Seq(Seq(Byte)) /\ c \in Nat
  <2> DEFINE S == Seq(Byte)
  <2>1. P \in Seq(S)
    BY DEF AreFields
  <2> HIDE DEF S
  <2> QED BY <2>1 DEF S
<1>2. ASSUME NEW i \in 1 .. c PROVE Num(P[i]) = n
  <2>1. PICK type : IsField(P[i], n, type)
    BY DEF Named
  <2> QED BY <2>1, FieldNames
<1> HIDE DEF c
<1>3. {i \in 1 .. c : Num(P[i]) = n} = 0 + 1 .. 0 + c
  BY <1>1, <1>2
<1>4. Span(P, Len(P), n, 0, Len(P))
  BY <1>3 DEF Span, c
<1>5. \A i \in 1 .. Len(P) : P[0 + i] = P[i]
  OBVIOUS
<1>6. 0 \in Nat
  OBVIOUS
<1> QED BY <1>1, <1>2, <1>4, <1>5, <1>6 DEF Block, c

LEMMA FieldAdds ==
  ASSUME NEW f, NEW d, Declared(f, d), NEW x, HoldsAll(f, x), FieldFits(f, x),
         NEW order \in Orders(f, x), NEW type
  PROVE  Adds(f, x, type, WriteField(Bytes, f, x, order))
<1> DEFINE P == WriteField(Bytes, f, x, order)
<1>1. AreFields(P) /\ Named(P, f.number)
  BY FieldIsWritten, BytesEverywhere
<1>2. Block(P, f.number, P) /\ \A i \in 1 .. Len(P) : Num(P[i]) = f.number
  <2> HIDE DEF P
  <2> QED BY <1>1, BlockAlone
<1>3. Carries(f, x, P)
  <2>1. CASE ~IsNotEmpty(f, x)
    <3>1. x = Unset(f) /\ P = <<>>
      BY <2>1 DEF IsNotEmpty, WriteField
    <3> HIDE DEF P
    <3> QED BY <3>1, CarriesUnset
  <2>2. CASE IsNotEmpty(f, x) /\ f.shape = "one"
    <3> DEFINE b == WriteOne(Bytes, f, x)
    <3>1. P = <<b>>
      BY <2>2, WriteOfShapes
    <3> HIDE DEF P, b
    <3>2. Len(P) # 0 /\ P[Len(P)] = b
      BY <3>1
    <3>3. P \in Seq(Seq(Byte)) /\ f.number \in FieldNumbers /\ Holds(f, x)
      BY <1>1, <2>2, Shapes DEF AreFields, Declared
    <3> QED BY <2>2, <3>2, <3>3, CarriesOne DEF b
  <2>3. CASE IsNotEmpty(f, x) /\ f.shape = "packed"
    <3>1. P = WritePacked(Bytes, f, x) /\ PayloadSizes(f, x) < WORD
      BY <2>3, WriteOfShapes DEF FieldFits
    <3> HIDE DEF P
    <3>2. Carries(f, x, WritePacked(Bytes, f, x))
      BY <2>3, <3>1, CarriesPacked
    <3> QED BY <3>1, <3>2
  <2>4. CASE IsNotEmpty(f, x) /\ f.shape = "list"
    <3>1. P = WriteList(Bytes, f, x)
      BY <2>4, WriteOfShapes
    <3> HIDE DEF P
    <3>2. Carries(f, x, WriteList(Bytes, f, x))
      BY <2>4, CarriesList
    <3> QED BY <3>1, <3>2
  <2>5. CASE IsNotEmpty(f, x) /\ f.shape = "map"
    <3>1. P = WriteMap(Bytes, f, x, order)
      BY <2>5, WriteOfShapes
    <3>2. order \in SetToSeqs(DOMAIN x) /\ \A k \in DOMAIN x : SizeEntry(ContentSize, f, k, x[k]) < WORD
      BY <2>5 DEF Orders, FieldFits
    <3> HIDE DEF P
    <3>3. Carries(f, x, WriteMap(Bytes, f, x, order))
      BY <2>5, <3>2, CarriesMap
    <3> QED BY <3>1, <3>3
  <2> QED BY <2>1, <2>2, <2>3, <2>4, <2>5, Shapes
<1> HIDE DEF P
<1>4. Adds(f, x, type, P)
  BY <1>1, <1>2, <1>3 DEF Adds
<1> QED BY <1>4 DEF P

LEMMA ForeignAdds ==
  ASSUME exchange \in DOMAIN Exchanges, NEW f, NEW d, Declared(f, d), NEW x, HoldsAll(f, x),
         FieldFits(f, x), NEW pieces \in ForeignPieces(f, x)
  PROVE  Adds(f, x, e.reader, pieces)
<1> DEFINE n == f.number
<1>0. n \in FieldNumbers /\ Shallow(f, d)
  BY Shapes DEF Declared
<1>1. AreFields(pieces)
  BY ForeignAreFields
<1>2. CASE f.shape = "one"
  <2> DEFINE a == WriteOne(Bytes, f, x)
             b == WriteOne(Bytes, f, f.default)
             g == Group(e.unknown)
  <2>1. IsField(a, n, WireOf(f)) /\ IsField(b, n, WireOf(f)) /\ Holds(f, x)
    <3>1. Holds(f, x) /\ Holds(f, f.default)
      BY <1>2, Shapes DEF Declared
    <3> QED BY <1>0, <3>1, OneIsField, BytesEverywhere
  <2>2. e.unknown \in FieldNumbers /\ e.unknown \notin Numbers(e.reader)
    BY MessageAssumption DEF e
  <2>3. IsField(g, e.unknown, StartGroupType)
    BY <2>2, GroupIsField
  <2>4. pieces \in {<<a>>, <<b, a>>, <<g, a>>}
    BY <1>2 DEF ForeignPieces
  <2>5. Num(a) = n /\ Num(b) = n /\ Num(g) = e.unknown /\ a \in Seq(Byte) /\ b \in Seq(Byte)
    BY <2>1, <2>3, FieldNames
  <2>6. f.number \in FieldNumbers /\ Holds(f, x)
    BY <1>0, <2>1
  <2> HIDE DEF a, b, g, n
  <2>7. CASE pieces = <<a>> \/ pieces = <<b, a>>
    <3>1. Len(pieces) \in {1, 2} /\ pieces[Len(pieces)] = a /\ \A i \in 1 .. Len(pieces) : pieces[i] \in {a, b}
      <4>1. (\A i \in 1 .. 1 : i = 1) /\ \A i \in 1 .. 2 : i = 1 \/ i = 2
        OBVIOUS
      <4>2. CASE pieces = <<a>>
        <5>1. Len(pieces) = 1 /\ pieces[1] = a
          BY <4>2
        <5> QED BY <4>1, <5>1
      <4>3. CASE pieces = <<b, a>>
        <5>1. Len(pieces) = 2 /\ pieces[1] = b /\ pieces[2] = a
          BY <4>3
        <5> QED BY <4>1, <5>1
      <4> QED BY <2>7, <4>2, <4>3
    <3>2. Named(pieces, n)
      BY <2>1, <3>1 DEF Named
    <3>3. Block(pieces, n, pieces) /\ \A i \in 1 .. Len(pieces) : Num(pieces[i]) = n
      BY <1>1, <3>2, BlockAlone
    <3>4. pieces \in Seq(Seq(Byte)) /\ Len(pieces) # 0
      <4>1. Len(pieces) # 0
        BY <3>1
      <4> QED BY <1>1, <4>1 DEF AreFields
    <3>5. Carries(f, x, pieces)
      BY <1>2, <2>6, <3>1, <3>4, CarriesOne DEF a
    <3> QED BY <1>1, <3>3, <3>5 DEF Adds, n
  <2>8. CASE pieces = <<g, a>>
    <3> DEFINE P == <<a>>
    <3>1. Len(pieces) = 2 /\ pieces[1] = g /\ pieces[2] = a
      BY <2>8
    <3>2. P \in Seq(Seq(Byte)) /\ Len(P) = 1 /\ P[1] = a
      BY <2>5
    <3> HIDE DEF P
    <3>3. Carries(f, x, P)
      <4>1. P \in Seq(Seq(Byte)) /\ Len(P) # 0
        BY <3>2
      <4> QED BY <1>2, <2>6, <3>2, <4>1, CarriesOne DEF a
    <3>4. ASSUME n \in Numbers(e.reader) PROVE Block(pieces, n, P)
      <4>1. n # e.unknown
        BY <2>2, <3>4
      <4>2. {i \in 1 .. 2 : Num(pieces[i]) = n} = 1 + 1 .. 1 + 1
        <5>1. \A i \in 1 .. 2 : i = 1 \/ i = 2
          OBVIOUS
        <5>2. Num(pieces[1]) # n /\ Num(pieces[2]) = n
          BY <2>5, <3>1, <4>1
        <5> QED BY <5>1, <5>2
      <4>3. Span(pieces, Len(pieces), n, 1, Len(P))
        BY <3>1, <3>2, <4>2 DEF Span
      <4>4. \A i \in 1 .. Len(P) : pieces[1 + i] = P[i]
        <5>1. \A i \in 1 .. 1 : i = 1
          OBVIOUS
        <5> QED BY <3>1, <3>2, <5>1
      <4>5. 1 \in Nat
        OBVIOUS
      <4> QED BY <3>2, <4>3, <4>4, <4>5 DEF Block
    <3>5. \A i \in 1 .. Len(pieces) : Num(pieces[i]) = n \/ Num(pieces[i]) \notin Numbers(e.reader)
      <4>1. \A i \in 1 .. 2 : i = 1 \/ i = 2
        OBVIOUS
      <4> QED BY <2>2, <2>5, <3>1, <4>1
    <3> QED BY <1>1, <3>3, <3>4, <3>5 DEF Adds, n
  <2> QED BY <2>4, <2>7, <2>8
<1>3. CASE f.shape = "packed"
  <2>1. PayloadSizes(f, x) < WORD /\ Scalar(f) /\ IsSeq(x) /\ (\A i \in DOMAIN x : Holds(f, x[i])) /\ f.of # "bytes"
    BY <1>3, Shapes DEF FieldFits, Declared
  <2>2. PICK k \in 0 .. Len(x) :
           pieces = WritePacked(Bytes, f, SubSeq(x, 1, k)) \o WriteList(Bytes, f, SubSeq(x, k + 1, Len(x)))
    BY <1>3 DEF ForeignPieces
  <2>3. Carries(f, x, pieces)
    BY <1>3, <2>1, <2>2, CarriesPackedInPart
  <2>4. Named(pieces, n)
    BY <1>3, ForeignAreFields
  <2>5. Block(pieces, n, pieces) /\ \A i \in 1 .. Len(pieces) : Num(pieces[i]) = n
    BY <1>1, <2>4, BlockAlone
  <2> QED BY <1>1, <2>3, <2>5 DEF Adds
<1>4. CASE f.shape \notin {"one", "packed"}
  <2>1. PICK order \in Orders(f, x) : pieces = WriteField(Bytes, f, x, order)
    BY <1>4 DEF ForeignPieces
  <2> QED BY <2>1, FieldAdds
<1> QED BY <1>2, <1>3, <1>4

(***************************************************************************)
(* A message is written as the fields of its own.                          *)
(***************************************************************************)
LEMMA NotEmptyIsWritten ==
  ASSUME NEW f, NEW d, Declared(f, d), NEW x, HoldsAll(f, x), NEW order \in Orders(f, x)
  PROVE  WriteField(Bytes, f, x, order) = <<>> <=> ~IsNotEmpty(f, x)
<1> DEFINE P == WriteField(Bytes, f, x, order)
<1>1. CASE ~IsNotEmpty(f, x)
  BY <1>1 DEF WriteField
<1>2. CASE IsNotEmpty(f, x) /\ f.shape = "one"
  BY <1>2, WriteOfShapes
<1>3. CASE IsNotEmpty(f, x) /\ f.shape \in {"packed", "list", "map"}
  <2>1. x # <<>>
    BY <1>3 DEF IsNotEmpty, Declared, Unset, Nothing
  <2>2. CASE f.shape \in {"packed", "list"}
    <3>1. IsSeq(x) /\ Len(x) \in Nat /\ DOMAIN x = 1 .. Len(x)
      BY <2>2, Shapes, SeqFacts
    <3>2. Len(x) # 0
      <4> DEFINE U == Range(x)
      <4>1. x \in Seq(U)
        BY <3>1 DEF IsSeq
      <4> HIDE DEF U
      <4> QED BY <2>1, <4>1, EmptySeq
    <3>3. CASE f.shape = "packed"
      <4>1. P = WritePacked(Bytes, f, x)
        BY <1>3, <3>3, WriteOfShapes
      <4>2. WritePacked(Bytes, f, x) # <<>>
        BY <3>2 DEF WritePacked
      <4> QED BY <1>3, <4>1, <4>2
    <3>4. CASE f.shape = "list"
      <4>1. P = WriteList(Bytes, f, x)
        BY <1>3, <3>4, WriteOfShapes
      <4>2. 1 \in DOMAIN WriteList(Bytes, f, x)
        BY <3>1, <3>2 DEF WriteList
      <4>3. 1 \notin DOMAIN <<>>
        OBVIOUS
      <4> HIDE DEF P
      <4>4. P # <<>>
        BY <4>1, <4>2, <4>3
      <4> QED BY <1>3, <4>4 DEF P
    <3> QED BY <2>2, <3>3, <3>4
  <2>3. CASE f.shape = "map"
    <3>1. IsFiniteSet(DOMAIN x) /\ x \in [DOMAIN x -> Range(x)] /\ order \in SetToSeqs(DOMAIN x)
      BY <2>3 DEF HoldsAll, Orders
    <3>2. PICK n \in Nat : Enumerates(order, n, DOMAIN x)
      BY <3>1, OrderFacts
    <3>3. DOMAIN x # {}
      <4> SUFFICES ASSUME DOMAIN x = {} PROVE FALSE
        OBVIOUS
      <4> DEFINE R == Range(x)
      <4>1. x \in [{} -> R]
        BY <3>1
      <4> HIDE DEF R
      <4>2. \A y, z : y \in [{} -> R] /\ z \in [{} -> R] => y = z
        OBVIOUS
      <4>3. <<>> \in [{} -> R]
        OBVIOUS
      <4> QED BY <2>1, <4>1, <4>2, <4>3
    <3>4. 1 \in DOMAIN order
      BY <3>2, <3>3 DEF Enumerates
    <3>5. P = WriteMap(Bytes, f, x, order)
      BY <1>3, <2>3, WriteOfShapes
    <3>6. 1 \in DOMAIN WriteMap(Bytes, f, x, order)
      BY <3>4 DEF WriteMap
    <3>7. 1 \notin DOMAIN <<>>
      OBVIOUS
    <3> HIDE DEF P
    <3>8. P # <<>>
      BY <3>5, <3>6, <3>7
    <3> QED BY <1>3, <3>8 DEF P
  <2> QED BY <1>3, <2>2, <2>3
<1> QED BY <1>1, <1>2, <1>3 DEF Declared

(* What is written of each field of a nested message.                      *)
PiecesOf(m, i) ==
    LET f == Fields[m.of][i]
        x == m.struct[f.number]
    IN WriteField(Bytes, f, x, CHOOSE order \in Orders(f, x) : TRUE)

LEMMA PiecesOfField ==
  ASSUME NEW m \in Messages, m.struct # Nothing, NEW i \in 1 .. Len(Fields[m.of]), NEW type
  PROVE  LET f == Fields[m.of][i]
             x == m.struct[f.number]
         IN /\ Adds(f, x, type, PiecesOf(m, i)) /\ (PiecesOf(m, i) = <<>> <=> ~IsNotEmpty(f, x))
<1> DEFINE f == Fields[m.of][i]
           x == m.struct[f.number]
           order == CHOOSE order_ \in Orders(f, x) : TRUE
<1>1. IsMessage(m) /\ SizesFit(m)
  BY NestedMessages, SizeAssumption
<1>2. i \in DOMAIN Fields[m.of]
  <2>1. IsSeq(Fields[m.of])
    BY <1>1, MessageFacts
  <2> QED BY <2>1, SeqFacts
<1>3. Declared(f, Depth[m.of]) /\ HoldsAll(f, x)
  BY <1>1, <1>2, MessageFacts
<1>4. FieldFits(f, x)
  BY <1>1, <1>2, FitFacts
<1>5. PiecesOf(m, i) = WriteField(Bytes, f, x, order)
  BY DEF PiecesOf
<1> HIDE DEF f, x
<1>6. order \in Orders(f, x)
  BY <1>3, SomeOrder
<1> HIDE DEF order
<1>7. Adds(f, x, type, WriteField(Bytes, f, x, order))
  BY <1>3, <1>4, <1>6, FieldAdds
<1>8. WriteField(Bytes, f, x, order) = <<>> <=> ~IsNotEmpty(f, x)
  BY <1>3, <1>6, NotEmptyIsWritten
<1> QED BY <1>5, <1>7, <1>8 DEF f, x

LEMMA MessageIsWritten ==
  ASSUME NEW m \in Messages, m.struct # Nothing, NEW type
  PROVE  \E pieces : /\ Written(m, type, Len(Fields[m.of]), pieces)
                     /\ Bytes[m] = FlattenSeq(pieces)
                     /\ pieces = <<>> <=> SaysNothing(m)
<1> DEFINE fields == Fields[m.of]
           c == Len(fields)
           S == Seq(Byte)
           part(i) == FlattenSeq(PiecesOf(m, i))
           parts == [i \in 1 .. c |-> part(i)]
<1>1. /\ m.of \in Types /\ c \in Nat /\ DOMAIN fields = 1 .. c
      /\ \A i \in 1 .. c : fields[i].number \in Numbers(m.of) /\ Field(m.of, fields[i].number) = fields[i]
  <2>1. m.of \in Types
    BY NestedMessages, MessageFacts
  <2>2. IsSeq(fields)
    BY <2>1, TypeFacts
  <2>3. c \in Nat /\ DOMAIN fields = 1 .. c
    BY <2>2, SeqFacts
  <2> QED BY <2>1, <2>3, TypeFacts
<1> HIDE DEF c
<1>2. ASSUME NEW i \in 1 .. c
      PROVE  /\ Adds(fields[i], m.struct[fields[i].number], type, PiecesOf(m, i))
             /\ PiecesOf(m, i) = <<>> <=> ~IsNotEmpty(fields[i], m.struct[fields[i].number])
  <2>1. i \in 1 .. Len(fields)
    BY DEF c
  <2> QED BY <2>1, PiecesOfField
<1>3. \A i \in 1 .. c : AreFields(PiecesOf(m, i)) /\ part(i) \in S
  BY <1>2, PiecesAreBytes DEF Adds
<1>4. Bytes[m] = FlattenSeq(parts)
  <2>1. Bytes[m] = WriteFields(Bytes, m)
    BY AllBytes
  <2>2. WriteFields(Bytes, m) = FlattenSeq([i \in DOMAIN fields |-> part(i)])
    BY DEF WriteFields, PiecesOf
  <2> QED BY <1>1, <2>1, <2>2
<1> HIDE DEF S, part
<1>5. parts \in [1 .. c -> S] /\ \A i \in 1 .. c : parts[i] = part(i)
  BY <1>3
<1> HIDE DEF parts
<1>6. /\ Prefix(parts, 0) = <<>> /\ Prefix(parts, c) = parts
      /\ \A i \in 1 .. c : Append(Prefix(parts, i - 1), parts[i]) = Prefix(parts, i)
  <2> DEFINE N == Nat
  <2>1. c \in N
    BY <1>1
  <2>2. \A c_ \in N : \A S_ : \A x_ \in [1 .. c_ -> S_] : PrefixesOf(x_, c_)
    BY PrefixSteps
  <2> HIDE DEF N
  <2>3. PrefixesOf(parts, c)
    BY <1>5, <2>1, <2>2
  <2> QED BY <2>3 DEF PrefixesOf
<1> DEFINE Empty(j) == \A i \in 1 .. j : PiecesOf(m, i) = <<>>
           E == {j \in 0 .. c : \E pieces :
                    /\ Written(m, type, j, pieces) /\ FlattenSeq(pieces) = FlattenSeq(Prefix(parts, j))
                    /\ pieces = <<>> <=> Empty(j)}
<1>7. 0 \in E
  <2>1. Written(m, type, 0, <<>>)
    BY WrittenNone
  <2>2. Empty(0) /\ 0 \in 0 .. c
    BY <1>1
  <2> HIDE DEF Empty
  <2> QED BY <1>6, <2>1, <2>2
<1>8. ASSUME NEW j \in 1 .. c, j - 1 \in E PROVE j \in E
  <2> DEFINE more == PiecesOf(m, j)
  <2>1. PICK pieces : /\ Written(m, type, j - 1, pieces)
                      /\ FlattenSeq(pieces) = FlattenSeq(Prefix(parts, j - 1))
                      /\ pieces = <<>> <=> Empty(j - 1)
    BY <1>8
  <2>2. AreFields(pieces) /\ AreFields(more)
    BY <1>3, <2>1 DEF Written
  <2>3. Written(m, type, j, pieces \o more)
    <3>1. j \in 1 .. Len(Fields[m.of])
      BY DEF c
    <3>2. Adds(Fields[m.of][j], m.struct[Fields[m.of][j].number], type, more)
      BY <1>2
    <3> HIDE DEF more
    <3> QED BY <1>1, <2>1, <3>1, <3>2, WrittenNext
  <2>4. /\ FlattenSeq(pieces \o more) = FlattenSeq(pieces) \o FlattenSeq(more)
        /\ Len(pieces \o more) = Len(pieces) + Len(more) /\ Len(pieces) \in Nat /\ Len(more) \in Nat
    <3> HIDE DEF more
    <3> QED BY <2>2, Joining
  <2>5. FlattenSeq(Prefix(parts, j)) = FlattenSeq(Prefix(parts, j - 1)) \o parts[j]
    <3> DEFINE B == Byte
               a == Prefix(parts, j - 1)
               b == parts[j]
               T == Seq(B)
    <3>1. b \in Seq(B)
      BY <1>5 DEF S
    <3>2. a \in Seq(Seq(B))
      <4>1. j - 1 \in Nat /\ \A i \in 1 .. j - 1 : i \in 1 .. c
        BY <1>1
      <4>2. \A i \in 1 .. j - 1 : parts[i] \in T
        BY <1>5, <4>1 DEF S
      <4> HIDE DEF T
      <4>3. a \in [1 .. j - 1 -> T]
        BY <4>2 DEF Prefix
      <4> HIDE DEF a
      <4>4. a \in Seq(T)
        BY <4>1, <4>3
      <4> QED BY <4>4 DEF T
    <3>3. Append(a, b) = Prefix(parts, j)
      BY <1>6
    <3> HIDE DEF a, b, B
    <3>4. Append(a, b) = a \o <<b>> /\ <<b>> \in Seq(Seq(B))
      <4>1. b \in T /\ a \in Seq(T)
        BY <3>1, <3>2
      <4> HIDE DEF T
      <4>2. Append(a, b) = a \o <<b>> /\ <<b>> \in Seq(T)
        BY <4>1
      <4> QED BY <4>2 DEF T
    <3>5. FlattenSeq(a \o <<b>>) = FlattenSeq(a) \o FlattenSeq(<<b>>)
      BY <3>2, <3>4, FlattenBoth
    <3>6. FlattenSeq(<<b>>) = b
      BY <3>1, FlattenFew
    <3> QED BY <3>3, <3>4, <3>5, <3>6 DEF a, b
  <2>6. FlattenSeq(pieces \o more) = FlattenSeq(Prefix(parts, j))
    BY <1>5, <2>1, <2>4, <2>5 DEF part
  <2>7. pieces \o more = <<>> <=> Empty(j)
    <3>1. Empty(j) <=> Empty(j - 1) /\ more = <<>>
      <4>1. \A i : i \in 1 .. j <=> i \in 1 .. j - 1 \/ i = j
        BY <1>1
      <4> QED BY <4>1
    <3> HIDE DEF more, Empty
    <3>2. /\ pieces = <<>> <=> Len(pieces) = 0
          /\ more = <<>> <=> Len(more) = 0
          /\ pieces \o more = <<>> <=> Len(pieces \o more) = 0
      <4> DEFINE T == Seq(Byte)
                 all == pieces \o more
      <4>1. pieces \in Seq(T) /\ more \in Seq(T)
        BY <2>2 DEF AreFields
      <4> HIDE DEF T
      <4>2. all \in Seq(T)
        BY <4>1, ConcatProperties
      <4> HIDE DEF all
      <4>3. (pieces = <<>> <=> Len(pieces) = 0) /\ (more = <<>> <=> Len(more) = 0)
            /\ (all = <<>> <=> Len(all) = 0)
        BY <4>1, <4>2, EmptySeq
      <4> QED BY <4>3 DEF all
    <3> QED BY <2>1, <2>4, <3>1, <3>2
  <2>8. j \in 0 .. c
    BY <1>1
  <2> HIDE DEF more, Empty
  <2> QED BY <2>3, <2>6, <2>7, <2>8
<1>9. c \in E
  <2> HIDE DEF E
  <2>1. 0 .. c \subseteq E
    BY <1>1, <1>7, <1>8, UpTo
  <2> QED BY <1>1, <2>1
<1>10. Empty(c) <=> SaysNothing(m)
  <2>1. SaysNothing(m) <=> \A n \in Numbers(m.of) : ~IsNotEmpty(Field(m.of, n), m.struct[n])
    BY DEF SaysNothing
  <2>2. Empty(c) <=> \A i \in 1 .. c : ~IsNotEmpty(fields[i], m.struct[fields[i].number])
    BY <1>2
  <2>3. Numbers(m.of) = {fields[i].number : i \in 1 .. c}
    BY <1>1 DEF Numbers
  <2> HIDE DEF fields, Empty
  <2> QED BY <1>1, <2>1, <2>2, <2>3 DEF fields
<1>11. PICK pieces : /\ Written(m, type, c, pieces) /\ FlattenSeq(pieces) = FlattenSeq(Prefix(parts, c))
                     /\ pieces = <<>> <=> Empty(c)
  BY <1>9
<1> HIDE DEF Empty, E
<1> QED BY <1>4, <1>6, <1>10, <1>11 DEF c

(***************************************************************************)
(* Reading a message, with what is nested in it.                           *)
(***************************************************************************)
(* A field of the type that reads: as it was written, if it was.           *)
LEMMA WrittenIsRead ==
  ASSUME NEW m, m.of \in Types, NEW type, <<m.of, type>> \in Versions,
         NEW pieces, Written(m, type, Len(Fields[m.of]), pieces), NEW off, Offsets(off, pieces),
         NEW r, ScannedTo(type, pieces, off, Len(pieces), r), NEW n \in Numbers(type)
  PROVE  LET g == Field(type, n)
         IN RawRead(g, FlattenSeq(pieces), r.offsets[n])
               = IF n \in Numbers(m.of) THEN RawAll(Field(m.of, n), m.struct[n]) ELSE Unset(g)
<1> DEFINE g == Field(type, n)
           f == Field(m.of, n)
           bs == FlattenSeq(pieces)
           known == r.offsets[n]
           count == Len(Fields[m.of])
<1>1. PICK P : /\ Block(pieces, n, P)
               /\ IF WroteTo(m, count, n) THEN Carries(f, m.struct[n], P) ELSE P = <<>>
  BY DEF Written
<1>2. AreFields(pieces) /\ bs \in Seq(Byte)
  <2>1. AreFields(pieces)
    BY DEF Written
  <2> QED BY <2>1, PiecesAreBytes
<1>3. Located(P, n, g.shape, bs, known)
  BY <1>1, <1>2, BlockIsLocated
<1>4. WroteTo(m, count, n) <=> n \in Numbers(m.of)
  <2>1. DOMAIN Fields[m.of] = 1 .. count
    BY TypeFacts, SeqFacts
  <2> HIDE DEF count
  <2> QED BY <2>1 DEF WroteTo, Numbers
<1>5. type \in Types /\ g.number = n /\ g.shape \in {"one", "packed", "list", "map"}
  <2>1. type \in Types
    BY VersionAssumption
  <2>2. PICK i \in DOMAIN Fields[type] : n = Fields[type][i].number
    BY DEF Numbers
  <2>3. g = Fields[type][i] /\ Declared(g, Depth[type])
    BY <2>1, <2>2, TypeFacts
  <2> QED BY <2>1, <2>2, <2>3 DEF Declared
<1>6. CASE n \in Numbers(m.of)
  <2>1. SameField(f, g)
    <3> DEFINE v == <<m.of, type>>
    <3>1. v \in Versions /\ v[1] = m.of /\ v[2] = type
      OBVIOUS
    <3> HIDE DEF v
    <3>2. n \in Numbers(v[1]) \cap Numbers(v[2])
      BY <1>6, <3>1
    <3>3. SameField(Field(v[1], n), Field(v[2], n))
      BY <3>1, <3>2, VersionAssumption
    <3> QED BY <3>1, <3>3
  <2>2. f.number = n
    <3>1. PICK i \in DOMAIN Fields[m.of] : n = Fields[m.of][i].number
      BY <1>6 DEF Numbers
    <3>2. f = Fields[m.of][i]
      BY <3>1, TypeFacts
    <3> QED BY <3>1, <3>2
  <2> HIDE DEF f, g, bs, known, count
  <2>3. f.shape = g.shape /\ Carries(f, m.struct[n], P)
    BY <1>1, <1>4, <1>6, <2>1, SameFields
  <2>4. Located(P, f.number, f.shape, bs, known)
    BY <1>3, <2>2, <2>3
  <2>5. RawRead(g, bs, known) = RawAll(f, m.struct[n])
    BY <1>2, <2>1, <2>3, <2>4 DEF Carries
  <2> QED BY <1>6, <2>5 DEF f, g, bs, known
<1>7. CASE n \notin Numbers(m.of)
  <2> HIDE DEF f, g, bs, known, count
  <2>1. Located(<<>>, g.number, g.shape, bs, known)
    BY <1>1, <1>3, <1>4, <1>5, <1>7
  <2>2. RawRead(g, bs, known) = Unset(g)
    BY <1>5, <2>1, NothingRead
  <2> QED BY <1>7, <2>2 DEF g, bs, known
<1> QED BY <1>6, <1>7

(* Nested messages of a depth less than d are read as what they say.       *)
Agree(nested, says, d) ==
    \A m \in Messages, type \in Types :
        <<m.of, type>> \in Versions /\ Depth[type] < d /\ ~SaysNothing(m) =>
            nested[type][Bytes[m]] = says[m][type]

LEMMA NoBytesSayNothing ==
  ASSUME NEW m \in Messages
  PROVE  Bytes[m] = <<>> <=> SaysNothing(m)
<1>1. CASE m.struct = Nothing
  BY <1>1, NilBytes DEF SaysNothing
<1>2. CASE m.struct # Nothing
  <2>1. PICK pieces : /\ Written(m, m.of, Len(Fields[m.of]), pieces) /\ Bytes[m] = FlattenSeq(pieces)
                      /\ pieces = <<>> <=> SaysNothing(m)
    BY <1>2, MessageIsWritten
  <2> DEFINE bs == FlattenSeq(pieces)
             S == Seq(Byte)
             T == Byte
  <2>2. AreFields(pieces) /\ pieces \in Seq(S) /\ pieces \in Seq(Seq(T))
    BY <2>1 DEF Written, AreFields
  <2>3. PICK off : Offsets(off, pieces)
    <3> HIDE DEF T
    <3> QED BY <2>2, OffsetsExist
  <2>4. Len(pieces) \in Nat /\ bs \in S /\ Len(bs) = off[Len(pieces)]
        /\ \A i \in 0 .. Len(pieces) : off[i] \in Nat /\ off[i] >= i
    BY <2>2, <2>3, PiecesStand
  <2> HIDE DEF S
  <2>5. pieces = <<>> <=> Len(pieces) = 0
    BY <2>2, EmptySeq
  <2>6. bs = <<>> => Len(pieces) = 0
    <3> DEFINE c == Len(pieces)
    <3>1. c \in 0 .. c
      BY <2>4
    <3>2. off[c] \in Nat /\ off[c] >= c /\ Len(bs) = off[c] /\ c \in Nat
      BY <2>4, <3>1
    <3>3. bs = <<>> => Len(bs) = 0
      BY NoField
    <3> HIDE DEF bs, c
    <3>4. bs = <<>> => c = 0
      BY <3>2, <3>3
    <3> QED BY <3>4 DEF c
  <2>7. pieces = <<>> => bs = <<>>
    BY NoField
  <2> HIDE DEF bs
  <2> QED BY <2>1, <2>5, <2>6, <2>7 DEF bs
<1> QED BY <1>1, <1>2

LEMMA OneIsDecoded ==
  ASSUME NEW w, NEW r, SameField(w, r), NEW x, Holds(w, x),
         NEW d, Scalar(r) \/ (r.of \in Types /\ Depth[r.of] < d),
         NEW nested, NEW says, Agree(nested, says, d)
  PROVE  Decode(nested, r, Raw(w, x)) = SaysOne(says, w, r, x)
<1>1. CASE Scalar(w)
  <2>1. Scalar(r)
    BY <1>1 DEF SameField, Scalar
  <2> QED BY <1>1, <2>1 DEF Decode, Raw, SaysOne
<1>2. CASE ~Scalar(w)
  <2> DEFINE m == MessageOf(w.of, x)
  <2>1. m \in Messages /\ m.of = w.of
    BY <1>2 DEF Holds, MessageOf
  <2>2. ~Scalar(r) /\ <<w.of, r.of>> \in Versions
    BY <1>2 DEF SameField
  <2>3. Raw(w, x) = Bytes[m]
    BY <1>2 DEF Raw
  <2>4. SaysOne(says, w, r, x) = IF SaysNothing(m) THEN Nothing ELSE says[m][r.of]
    BY <1>2 DEF SaysOne
  <2> HIDE DEF m
  <2>5. Decode(nested, r, Bytes[m]) = IF SaysNothing(m) THEN Nothing ELSE nested[r.of][Bytes[m]]
    BY <2>1, <2>2, NoBytesSayNothing DEF Decode
  <2>6. ~SaysNothing(m) => nested[r.of][Bytes[m]] = says[m][r.of]
    BY <2>1, <2>2 DEF Agree
  <2> QED BY <2>3, <2>4, <2>5, <2>6
<1> QED BY <1>1, <1>2

LEMMA FieldIsDecoded ==
  ASSUME NEW m, IsMessage(m), m.struct # Nothing, NEW type, <<m.of, type>> \in Versions,
         NEW n \in Numbers(type), NEW nested, NEW says, Agree(nested, says, Depth[type])
  PROVE  LET g == Field(type, n)
         IN Decoded(nested, g, IF n \in Numbers(m.of) THEN RawAll(Field(m.of, n), m.struct[n]) ELSE Unset(g))
               = SaysField(says, m, g)
<1> DEFINE g == Field(type, n)
           f == Field(m.of, n)
           x == m.struct[n]
<1>1. /\ type \in Types /\ m.of \in Types /\ g.number = n /\ Declared(g, Depth[type])
  <2>1. type \in Types
    BY VersionAssumption
  <2>2. PICK i \in DOMAIN Fields[type] : n = Fields[type][i].number
    BY DEF Numbers
  <2>3. g = Fields[type][i] /\ Declared(g, Depth[type])
    BY <2>1, <2>2, TypeFacts
  <2> QED BY <2>1, <2>2, <2>3, MessageFacts
<1>2. CASE n \in Numbers(m.of)
  <2>1. SameField(f, g)
    <3> DEFINE v == <<m.of, type>>
    <3>1. v \in Versions /\ v[1] = m.of /\ v[2] = type
      OBVIOUS
    <3> HIDE DEF v
    <3>2. n \in Numbers(v[1]) \cap Numbers(v[2])
      BY <1>2, <3>1
    <3>3. SameField(Field(v[1], n), Field(v[2], n))
      BY <3>1, <3>2, VersionAssumption
    <3> QED BY <3>1, <3>3
  <2>2. HoldsAll(f, x) /\ Declared(f, Depth[m.of])
    <3>1. PICK i \in DOMAIN Fields[m.of] : n = Fields[m.of][i].number
      BY <1>2 DEF Numbers
    <3>2. f = Fields[m.of][i]
      BY <1>1, <3>1, TypeFacts
    <3> QED BY <3>1, <3>2, MessageFacts
  <2>3. SaysField(says, m, g) = IF g.shape = "one" THEN SaysOne(says, f, g, x)
                                ELSE [i \in DOMAIN x |-> SaysOne(says, f, g, x[i])]
    BY <1>1, <1>2 DEF SaysField
  <2> HIDE DEF f, g, x
  <2>4. g.shape = f.shape /\ (Scalar(g) \/ (g.of \in Types /\ Depth[g.of] < Depth[type]))
    BY <1>1, <2>1, SameFields DEF Declared
  <2>5. CASE g.shape = "one"
    <3>1. Holds(f, x)
      BY <2>2, <2>4, <2>5, Shapes
    <3>2. Decode(nested, g, Raw(f, x)) = SaysOne(says, f, g, x)
      BY <2>1, <2>4, <3>1, OneIsDecoded
    <3>3. Decoded(nested, g, RawAll(f, x)) = Decode(nested, g, Raw(f, x))
      BY <2>4, <2>5 DEF Decoded, RawAll
    <3> QED BY <1>2, <2>3, <2>5, <3>2, <3>3 DEF f, g, x
  <2>6. CASE g.shape # "one"
    <3>1. \A i \in DOMAIN x : Holds(f, x[i])
      BY <2>2, <2>4, <2>6, Shapes DEF HoldsAll
    <3>2. ASSUME NEW i \in DOMAIN x PROVE Decode(nested, g, Raw(f, x[i])) = SaysOne(says, f, g, x[i])
      <4> DEFINE y == x[i]
                 d == Depth[type]
      <4>1. Holds(f, y) /\ (Scalar(g) \/ (g.of \in Types /\ Depth[g.of] < d)) /\ Agree(nested, says, d)
        BY <2>4, <3>1
      <4> HIDE DEF y, d
      <4>2. Decode(nested, g, Raw(f, y)) = SaysOne(says, f, g, y)
        BY <2>1, <4>1, OneIsDecoded
      <4> QED BY <4>2 DEF y
    <3> DEFINE raw == [i \in DOMAIN x |-> Raw(f, x[i])]
    <3>3. Decoded(nested, g, RawAll(f, x)) = [i \in DOMAIN raw |-> Decode(nested, g, raw[i])]
      BY <2>4, <2>6 DEF Decoded, RawAll
    <3>4. DOMAIN raw = DOMAIN x /\ \A i \in DOMAIN x : raw[i] = Raw(f, x[i])
      OBVIOUS
    <3> HIDE DEF raw
    <3>5. [i \in DOMAIN raw |-> Decode(nested, g, raw[i])] = [i \in DOMAIN x |-> SaysOne(says, f, g, x[i])]
      BY <3>2, <3>4
    <3> QED BY <1>2, <2>3, <2>6, <3>3, <3>5 DEF f, g, x
  <2> QED BY <2>5, <2>6
<1>3. CASE n \notin Numbers(m.of)
  <2>1. SaysField(says, m, g) = Unset(g)
    BY <1>1, <1>3 DEF SaysField
  <2>2. Decoded(nested, g, Unset(g)) = Unset(g)
    <3> HIDE DEF g
    <3>1. CASE g.shape = "one" /\ Scalar(g)
      BY <3>1 DEF Decoded, Decode
    <3>2. CASE g.shape = "one" /\ ~Scalar(g)
      <4>1. Unset(g) = Nothing
        BY <1>1, <3>2 DEF Unset, Declared
      <4> QED BY <3>2, <4>1 DEF Decoded, Decode, Nothing
    <3>3. CASE g.shape # "one"
      <4>1. Unset(g) = <<>>
        BY <3>3 DEF Unset, Nothing
      <4> QED BY <3>3, <4>1 DEF Decoded
    <3> QED BY <3>1, <3>2, <3>3
  <2> QED BY <1>3, <2>1, <2>2
<1> QED BY <1>2, <1>3

(* All of a message is in the bytes, and has been found in them.           *)
Arrived(m, type, bs, found) ==
    \E pieces, off, r :
        /\ Written(m, type, Len(Fields[m.of]), pieces) /\ bs = FlattenSeq(pieces)
        /\ Offsets(off, pieces) /\ ScannedTo(type, pieces, off, Len(pieces), r) /\ found = r.offsets

ReadsBack(nested, says, m, type, bs, found) ==
    \A n \in Numbers(type) :
        ReadField(nested, Field(type, n), bs, found[n]) = SaysField(says, m, Field(type, n))

LEMMA FieldsAreReadBack ==
  ASSUME NEW m, IsMessage(m), m.struct # Nothing, NEW type, <<m.of, type>> \in Versions,
         NEW bs, NEW found, Arrived(m, type, bs, found),
         NEW nested, NEW says, Agree(nested, says, Depth[type])
  PROVE  ReadsBack(nested, says, m, type, bs, found)
<1> SUFFICES ASSUME NEW n \in Numbers(type)
             PROVE  ReadField(nested, Field(type, n), bs, found[n]) = SaysField(says, m, Field(type, n))
  BY DEF ReadsBack
<1>5. PICK pieces, off, r :
         /\ Written(m, type, Len(Fields[m.of]), pieces) /\ bs = FlattenSeq(pieces)
         /\ Offsets(off, pieces) /\ ScannedTo(type, pieces, off, Len(pieces), r) /\ found = r.offsets
  BY DEF Arrived
<1> DEFINE g == Field(type, n)
           known == r.offsets[n]
           raw == IF n \in Numbers(m.of) THEN RawAll(Field(m.of, n), m.struct[n]) ELSE Unset(g)
<1>1. g.shape \in {"one", "packed", "list", "map"}
  <2>1. type \in Types
    BY VersionAssumption
  <2>2. PICK i \in DOMAIN Fields[type] : n = Fields[type][i].number
    BY DEF Numbers
  <2>3. g = Fields[type][i] /\ Declared(g, Depth[type])
    BY <2>1, <2>2, TypeFacts
  <2> QED BY <2>3 DEF Declared
<1>2. RawRead(g, bs, known) = raw
  <2>1. m.of \in Types
    BY MessageFacts
  <2>2. RawRead(g, FlattenSeq(pieces), known) = raw
    BY <1>5, <2>1, WrittenIsRead
  <2> QED BY <1>5, <2>2
<1>3. Decoded(nested, g, raw) = SaysField(says, m, g)
  BY FieldIsDecoded
<1> HIDE DEF g, known, raw
<1>4. ReadField(nested, g, bs, known) = Decoded(nested, g, raw)
  BY <1>1, <1>2, ReadInTwo
<1>6. known = found[n]
  BY <1>5 DEF known
<1> QED BY <1>3, <1>4, <1>6 DEF g

(***************************************************************************)
(* The values of every depth, read and written, exist.                     *)
(***************************************************************************)
ReadDeeper(nested) == [type \in Types |-> [bytes \in Seq(Byte) |-> ReadFields(nested, type, bytes)]]
SayDeeper(says) ==
    [m \in Messages |-> [type \in Types |-> [n \in Numbers(type) |-> SaysField(says, m, Field(type, n))]]]
BothDeeper(both) == <<ReadDeeper(both[1]), SayDeeper(both[2])>>
Deepens(f, n) == f[0] = << <<>>, <<>> >> /\ \A k \in 1 .. n : f[k] = BothDeeper(f[k - 1])

LEMMA EveryDepth == \A n \in Nat : \E f : Deepens(f, n)
<1> TAKE n \in Nat
<1> DEFINE E == {k \in 0 .. n : \E f : Deepens(f, k)}
<1>1. 0 \in E
  <2> DEFINE f == [k \in 0 .. 0 |-> << <<>>, <<>> >>]
  <2>1. f[0] = << <<>>, <<>> >> /\ \A k : k \notin 1 .. 0
    OBVIOUS
  <2> HIDE DEF f
  <2>2. Deepens(f, 0) /\ 0 \in 0 .. n
    BY <2>1 DEF Deepens
  <2> QED BY <2>2
<1>2. ASSUME NEW k \in 1 .. n, k - 1 \in E PROVE k \in E
  <2>1. PICK f : Deepens(f, k - 1)
    BY <1>2
  <2> DEFINE g == [i \in 0 .. k |-> IF i = k THEN BothDeeper(f[k - 1]) ELSE f[i]]
  <2>2. \A i \in 0 .. k : g[i] = IF i = k THEN BothDeeper(f[k - 1]) ELSE f[i]
    OBVIOUS
  <2> HIDE DEF g
  <2>3. 0 \in 0 .. k /\ 0 # k /\ k \in 0 .. n
    OBVIOUS
  <2>4. ASSUME NEW i \in 1 .. k PROVE g[i] = BothDeeper(g[i - 1])
    <3>1. i \in 0 .. k /\ i - 1 \in 0 .. k /\ i - 1 # k /\ (i # k => i \in 1 .. k - 1)
      OBVIOUS
    <3>2. g[i - 1] = f[i - 1]
      BY <2>2, <3>1
    <3>3. i # k => f[i] = BothDeeper(f[i - 1])
      BY <2>1, <3>1 DEF Deepens
    <3> QED BY <2>2, <3>1, <3>2, <3>3
  <2>5. Deepens(g, k)
    BY <2>1, <2>2, <2>3, <2>4 DEF Deepens
  <2> QED BY <2>3, <2>5
<1>3. 0 .. n \subseteq E
  <2> HIDE DEF E
  <2> QED BY <1>1, <1>2, UpTo
<1>4. n \in E
  BY <1>3
<1> QED BY <1>4

LEMMA OneValueADepth ==
  ASSUME NEW n \in Nat, NEW f, Deepens(f, n), NEW g, Deepens(g, n + 1)
  PROVE  f[n] = g[n]
<1> DEFINE E == {k \in 0 .. n : f[k] = g[k]}
<1>1. 0 \in E
  BY DEF Deepens
<1>2. ASSUME NEW k \in 1 .. n, k - 1 \in E PROVE k \in E
  <2>1. k \in 1 .. n + 1 /\ k \in 0 .. n
    OBVIOUS
  <2> QED BY <1>2, <2>1 DEF Deepens
<1>3. 0 .. n \subseteq E
  <2> HIDE DEF E
  <2> QED BY <1>1, <1>2, UpTo
<1> QED BY <1>3

LEMMA DepthByDepth ==
  /\ \A d \in Nat : Nested[d] = IF d = 0 THEN <<>> ELSE ReadDeeper(Nested[d - 1])
  /\ \A d \in Nat : Says[d] = IF d = 0 THEN <<>> ELSE SayDeeper(Says[d - 1])
<1> DEFINE all(n) == CHOOSE f : Deepens(f, n)
           F == [n \in Nat |-> all(n)[n]]
<1>1. \A n \in Nat : Deepens(all(n), n)
  BY EveryDepth
<1> HIDE DEF all
<1>2. F[0] = << <<>>, <<>> >>
  BY <1>1 DEF Deepens
<1>3. ASSUME NEW n \in Nat, n # 0 PROVE F[n] = BothDeeper(F[n - 1])
  <2>1. n - 1 \in Nat /\ (n - 1) + 1 = n /\ n \in 1 .. n
    BY <1>3
  <2>2. Deepens(all(n), n) /\ Deepens(all(n - 1), n - 1)
    BY <1>1, <2>1
  <2>3. all(n)[n] = BothDeeper(all(n)[n - 1])
    BY <2>1, <2>2 DEF Deepens
  <2>4. Deepens(all(n), (n - 1) + 1)
    BY <2>1, <2>2
  <2>5. all(n - 1)[n - 1] = all(n)[n - 1]
    BY <2>1, <2>2, <2>4, OneValueADepth
  <2> QED BY <2>1, <2>3, <2>5
<1>4. \A n \in Nat : n # 0 => n - 1 \in Nat
  OBVIOUS
<1> HIDE DEF F
<1>5. \A d \in Nat : Nested[d] = IF d = 0 THEN <<>> ELSE ReadDeeper(Nested[d - 1])
  <2> DEFINE Is(h) == h = [d \in Nat |-> IF d = 0 THEN <<>> ELSE ReadDeeper(h[d - 1])]
             h1 == [d \in Nat |-> F[d][1]]
  <2>1. Is(h1)
    <3>1. ASSUME NEW d \in Nat PROVE F[d][1] = IF d = 0 THEN <<>> ELSE ReadDeeper(h1[d - 1])
      <4>1. d # 0 => h1[d - 1] = F[d - 1][1]
        BY <1>4
      <4> QED BY <1>2, <1>3, <4>1 DEF BothDeeper
    <3> QED BY <3>1
  <2>2. Nested = CHOOSE h : Is(h)
    BY DEF Nested, ReadDeeper
  <2> HIDE DEF h1
  <2>3. Is(Nested)
    <3> HIDE DEF Is
    <3> QED BY <2>1, <2>2
  <2> QED BY <2>3
<1>6. \A d \in Nat : Says[d] = IF d = 0 THEN <<>> ELSE SayDeeper(Says[d - 1])
  <2> DEFINE Is(h) == h = [d \in Nat |-> IF d = 0 THEN <<>> ELSE SayDeeper(h[d - 1])]
             h2 == [d \in Nat |-> F[d][2]]
  <2>1. Is(h2)
    <3>1. ASSUME NEW d \in Nat PROVE F[d][2] = IF d = 0 THEN <<>> ELSE SayDeeper(h2[d - 1])
      <4>1. d # 0 => h2[d - 1] = F[d - 1][2]
        BY <1>4
      <4> QED BY <1>2, <1>3, <4>1 DEF BothDeeper
    <3> QED BY <3>1
  <2>2. Says = CHOOSE h : Is(h)
    BY DEF Says, SayDeeper
  <2> HIDE DEF h2
  <2>3. Is(Says)
    <3> HIDE DEF Is
    <3> QED BY <2>1, <2>2
  <2> QED BY <2>3
<1> QED BY <1>5, <1>6

(* A nested message is read as what it says, to any depth.                 *)
LEMMA NestedIsRead ==
  ASSUME NEW d \in Nat
  PROVE  Agree(Nested[d], Says[d], d)
<1> DEFINE E == {k \in 0 .. d : Agree(Nested[k], Says[k], k)}
<1>1. 0 \in E
  <2>1. ASSUME NEW type \in Types PROVE ~(Depth[type] < 0)
    <3>1. Depth[type] \in Nat
      BY TypeFacts
    <3> QED BY <3>1
  <2>2. 0 \in 0 .. d
    OBVIOUS
  <2> QED BY <2>1, <2>2 DEF Agree
<1>2. ASSUME NEW k \in 1 .. d, k - 1 \in E PROVE k \in E
  <2> DEFINE nested == Nested[k - 1]
             says == Says[k - 1]
  <2>1. k \in 0 .. d /\ k \in Nat /\ k # 0
    OBVIOUS
  <2>2. Nested[k] = ReadDeeper(nested) /\ Says[k] = SayDeeper(says)
    BY <2>1, DepthByDepth
  <2>3. Agree(nested, says, k - 1)
    BY <1>2
  <2> HIDE DEF nested, says
  <2>4. ASSUME NEW m \in Messages, NEW type \in Types, <<m.of, type>> \in Versions, Depth[type] < k,
               ~SaysNothing(m)
        PROVE  Nested[k][type][Bytes[m]] = Says[k][m][type]
    <3> DEFINE bs == Bytes[m]
               known == Scan(type, bs)
    <3>1. bs \in Seq(Byte)
      BY AllBytes
    <3>2. Nested[k][type][bs] = ReadFields(nested, type, bs)
      <4> DEFINE S == Seq(Byte)
      <4>1. Nested[k] = [t \in Types |-> [b \in S |-> ReadFields(nested, t, b)]]
        BY <2>2 DEF ReadDeeper
      <4>2. bs \in S
        BY <3>1
      <4> HIDE DEF S, bs
      <4> QED BY <4>1, <4>2
    <3>3. Says[k][m][type] = [n \in Numbers(type) |-> SaysField(says, m, Field(type, n))]
      BY <2>2 DEF SayDeeper
    <3>4. Agree(nested, says, Depth[type])
      <4>1. Depth[type] \in Nat /\ Depth[type] <= k - 1
        <5>1. Depth[type] \in Nat
          BY TypeFacts
        <5> QED BY <2>1, <2>4, <5>1
      <4>2. ASSUME NEW t \in Types, Depth[t] < Depth[type] PROVE Depth[t] < k - 1
        <5>1. Depth[t] \in Nat
          BY TypeFacts
        <5> QED BY <2>1, <4>1, <4>2, <5>1
      <4> QED BY <2>3, <4>2 DEF Agree
    <3>5. IsMessage(m) /\ m.struct # Nothing
      <4>1. m.struct # Nothing
        BY <2>4 DEF SaysNothing
      <4> QED BY <4>1, NestedMessages
    <3>6. PICK pieces : Written(m, type, Len(Fields[m.of]), pieces) /\ bs = FlattenSeq(pieces)
      BY <3>5, MessageIsWritten
    <3>7. PICK off : Offsets(off, pieces)
      <4> DEFINE T == Byte
      <4>1. pieces \in Seq(Seq(T))
        BY <3>6 DEF Written, AreFields
      <4> HIDE DEF T
      <4> QED BY <4>1, OffsetsExist
    <3>8. Arrived(m, type, bs, known)
      <4>1. AreFields(pieces)
        BY <3>6 DEF Written
      <4>2. PICK r : ScannedTo(type, pieces, off, Len(pieces), r) /\ known = r.offsets
        BY <3>6, <3>7, <4>1, ScanFinds
      <4> HIDE DEF known, bs
      <4> QED BY <3>6, <3>7, <4>2 DEF Arrived
    <3>9. ASSUME NEW n \in Numbers(type)
          PROVE  ReadField(nested, Field(type, n), bs, known[n]) = SaysField(says, m, Field(type, n))
      <4>1. <<m.of, type>> \in Versions
        BY <2>4
      <4>2. IsMessage(m)
        BY <3>5
      <4>3. m.struct # Nothing
        BY <3>5
      <4> HIDE DEF bs, known
      <4>4. ReadsBack(nested, says, m, type, bs, known)
        BY <3>4, <3>8, <4>1, <4>2, <4>3, FieldsAreReadBack
      <4> QED BY <4>4 DEF ReadsBack
    <3>10. ReadFields(nested, type, bs)
              = [n \in Numbers(type) |-> ReadField(nested, Field(type, n), bs, known[n])]
      BY DEF ReadFields
    <3> QED BY <3>2, <3>3, <3>9, <3>10
  <2> QED BY <2>1, <2>4 DEF Agree
<1>3. 0 .. d \subseteq E
  <2> HIDE DEF E
  <2> QED BY <1>1, <1>2, UpTo
<1>4. d \in E
  BY <1>3
<1> QED BY <1>4

(***************************************************************************)
(* The buffer is what the fields so far were written as, the scan has      *)
(* found the first of them in it, and what was asked for is what was said. *)
(***************************************************************************)
Carried ==
    \E pieces :
        /\ Written(Message(exchange), e.reader, next - 1, pieces) /\ buf = FlattenSeq(pieces)
        /\ stage = "marshal" => scan = NewReader(e.reader)
        /\ stage # "marshal" =>
              \E off, k : /\ Offsets(off, pieces) /\ k \in 0 .. Len(pieces)
                          /\ ScannedTo(e.reader, pieces, off, k, scan)
                          /\ stage = "read" => k = Len(pieces)
Asked ==
    /\ stage # "read" => data = <<>>
    /\ DOMAIN data \subseteq Numbers(e.reader)
    /\ ReadsWhatWasWritten
RInv == Carried /\ Asked

LEMMA MessageSent ==
  ASSUME exchange \in DOMAIN Exchanges
  PROVE  LET m == Message(exchange)
         IN /\ m.of = e.writer /\ m.struct = e.struct /\ m.struct # Nothing /\ IsMessage(m)
            /\ <<m.of, e.reader>> \in Versions /\ m.of \in Types /\ Depth[e.reader] \in Nat
<1> DEFINE m == Message(exchange)
           k == exchange
<1>1. m.of = e.writer /\ m.struct = e.struct
  BY DEF Message, MessageOf, e
<1>2. /\ IsMessage(MessageOf(Exchanges[k].writer, Exchanges[k].struct)) /\ Exchanges[k].struct # Nothing
      /\ <<Exchanges[k].writer, Exchanges[k].reader>> \in Versions
  BY MessageAssumption
<1>3. IsMessage(m) /\ m.struct # Nothing /\ <<m.of, e.reader>> \in Versions
  BY <1>1, <1>2 DEF Message, e
<1> HIDE DEF m
<1>4. m.of \in Types
  BY <1>3, MessageFacts
<1>5. Depth[e.reader] \in Nat
  <2>1. e.reader \in Types
    BY <1>3, VersionAssumption
  <2> QED BY <2>1, TypeFacts
<1> QED BY <1>1, <1>3, <1>4, <1>5 DEF m

LEMMA ReadInit == Init => RInv
<1> SUFFICES ASSUME Init PROVE RInv
  OBVIOUS
<1>1. next - 1 = 0 /\ buf = <<>> /\ stage = "marshal" /\ scan = NewReader(e.reader) /\ data = <<>>
  BY DEF Init
<1>2. Written(Message(exchange), e.reader, 0, <<>>)
  BY WrittenNone
<1>3. buf = FlattenSeq(<<>>)
  BY <1>1, NoField
<1>4. Carried
  BY <1>1, <1>2, <1>3 DEF Carried
<1>5. Asked
  <2>1. DOMAIN data = {}
    BY <1>1
  <2> QED BY <1>1, <2>1 DEF Asked, ReadsWhatWasWritten
<1> QED BY <1>4, <1>5 DEF RInv

LEMMA NothingAsked ==
  ASSUME stage' # "read", data' = <<>>
  PROVE  Asked'
<1>1. DOMAIN data' = {}
  OBVIOUS
<1> QED BY <1>1 DEF Asked, ReadsWhatWasWritten

LEMMA CarriedOn ==
  ASSUME exchange \in DOMAIN Exchanges, Carried, stage = "marshal", next \in 1 .. Len(Fields[e.writer]),
         NEW more, Adds(Fields[e.writer][next], e.struct[Fields[e.writer][next].number], e.reader, more),
         AppendAll(more), next' = next + 1, UNCHANGED <<exchange, stage, scan>>
  PROVE  Carried'
<1> DEFINE m == Message(exchange)
<1>1. PICK pieces : /\ Written(m, e.reader, next - 1, pieces) /\ buf = FlattenSeq(pieces)
                    /\ scan = NewReader(e.reader)
  BY DEF Carried
<1>2. m.of = e.writer /\ m.struct = e.struct /\ m.of \in Types
  BY MessageSent
<1>3. Message(exchange)' = m /\ e' = e
  BY DEF e
<1> HIDE DEF m
<1>4. Written(m, e.reader, next, pieces \o more)
  <2>1. next \in 1 .. Len(Fields[m.of])
    BY <1>2
  <2>2. Adds(Fields[m.of][next], m.struct[Fields[m.of][next].number], e.reader, more)
    BY <1>2
  <2> QED BY <1>1, <1>2, <2>1, <2>2, WrittenNext
<1>5. buf' = FlattenSeq(pieces \o more)
  <2>1. AreFields(pieces) /\ AreFields(more)
    BY <1>1 DEF Written, Adds
  <2>2. FlattenSeq(pieces \o more) = FlattenSeq(pieces) \o FlattenSeq(more)
    BY <2>1, Joining
  <2>3. buf' = buf \o FlattenSeq(more)
    BY DEF AppendAll
  <2> QED BY <1>1, <2>2, <2>3
<1>6. next' - 1 = next
  <2> DEFINE c == Len(Fields[e.writer])
  <2> HIDE DEF c
  <2>1. next \in 1 .. c
    BY DEF c
  <2>2. next \in Int
    BY <2>1
  <2> QED BY <2>2
<1> QED BY <1>1, <1>3, <1>4, <1>5, <1>6 DEF Carried

LEMMA ReadMarshal == IInv /\ RInv /\ Marshal => RInv'
<1> SUFFICES ASSUME IInv, RInv, Marshal PROVE RInv'
  OBVIOUS
<1> DEFINE w == e.writer
           f == Fields[w][next]
           x == e.struct[f.number]
           c == Len(Fields[w])
<1>1. exchange \in DOMAIN Exchanges /\ next \in 1 .. c + 1 /\ c \in Nat
  BY ExchangeFacts DEF IInv, Marshalling, e
<1>2. /\ stage = "marshal" /\ next <= c /\ next' = next + 1
      /\ UNCHANGED <<exchange, stage, scan, data>>
  BY DEF Marshal
<1>3. PICK order \in Orders(f, x) : AppendAll(WriteField(Bytes, f, x, order))
  BY DEF Marshal
<1>4. next \in 1 .. c
  <2> HIDE DEF c
  <2> QED BY <1>1, <1>2
<1>5. Declared(f, Depth[w]) /\ HoldsAll(f, x) /\ FieldFits(f, x)
  BY <1>1, <1>4, ExchangeFacts DEF e
<1> DEFINE more == WriteField(Bytes, f, x, order)
<1>6. Adds(f, x, e.reader, more)
  <2> HIDE DEF f, x
  <2> QED BY <1>3, <1>5, FieldAdds
<1>7. AppendAll(more)
  BY <1>3
<1> HIDE DEF more
<1>8. Carried'
  BY <1>1, <1>2, <1>4, <1>6, <1>7, CarriedOn DEF RInv
<1>9. Asked'
  <2>1. data' = <<>> /\ stage' # "read"
    BY <1>2 DEF RInv, Asked
  <2> QED BY <2>1, NothingAsked
<1> QED BY <1>8, <1>9 DEF RInv

LEMMA ReadMarshalElsewhere == IInv /\ RInv /\ MarshalElsewhere => RInv'
<1> SUFFICES ASSUME IInv, RInv, MarshalElsewhere PROVE RInv'
  OBVIOUS
<1> DEFINE w == e.writer
           f == Fields[w][next]
           x == e.struct[f.number]
           c == Len(Fields[w])
<1>1. exchange \in DOMAIN Exchanges /\ next \in 1 .. c + 1 /\ c \in Nat
  BY ExchangeFacts DEF IInv, Marshalling, e
<1>2. /\ stage = "marshal" /\ next <= c /\ next' = next + 1
      /\ UNCHANGED <<exchange, stage, scan, data>>
  BY DEF MarshalElsewhere
<1>3. PICK pieces \in ForeignPieces(f, x) : AppendAll(pieces)
  BY DEF MarshalElsewhere
<1>4. next \in 1 .. c
  <2> HIDE DEF c
  <2> QED BY <1>1, <1>2
<1>5. Declared(f, Depth[w]) /\ HoldsAll(f, x) /\ FieldFits(f, x)
  BY <1>1, <1>4, ExchangeFacts DEF e
<1>6. Adds(f, x, e.reader, pieces)
  <2> HIDE DEF f, x
  <2> QED BY <1>1, <1>3, <1>5, ForeignAdds
<1>8. Carried'
  BY <1>1, <1>2, <1>3, <1>4, <1>6, CarriedOn DEF RInv
<1>9. Asked'
  <2>1. data' = <<>> /\ stage' # "read"
    BY <1>2 DEF RInv, Asked
  <2> QED BY <2>1, NothingAsked
<1> QED BY <1>8, <1>9 DEF RInv

LEMMA ReadSend == IInv /\ RInv /\ Send => RInv'
<1> SUFFICES ASSUME IInv, RInv, Send PROVE RInv'
  OBVIOUS
<1>1. stage = "marshal" /\ stage' = "unmarshal" /\ UNCHANGED <<exchange, next, buf, scan, data>> /\ e' = e
  BY DEF Send, e
<1>2. PICK pieces : /\ Written(Message(exchange), e.reader, next - 1, pieces) /\ buf = FlattenSeq(pieces)
                    /\ scan = NewReader(e.reader)
  BY <1>1 DEF RInv, Carried
<1>3. PICK off : Offsets(off, pieces)
  <2> DEFINE T == Byte
  <2>1. pieces \in Seq(Seq(T))
    BY <1>2 DEF Written, AreFields
  <2> HIDE DEF T
  <2> QED BY <2>1, OffsetsExist
<1>4. 0 \in 0 .. Len(pieces) /\ off[0] = 0
  <2>1. Len(pieces) \in Nat /\ off[0] = 0
    BY <1>2, <1>3, PiecesStand DEF Written
  <2> QED BY <2>1
<1>5. ScannedTo(e.reader, pieces, off, 0, scan)
  BY <1>2, <1>4, NothingFound
<1>6. Carried'
  BY <1>1, <1>2, <1>3, <1>4, <1>5 DEF Carried
<1>7. Asked'
  <2>1. data' = <<>> /\ stage' # "read"
    BY <1>1 DEF RInv, Asked
  <2> QED BY <2>1, NothingAsked
<1> QED BY <1>6, <1>7 DEF RInv

LEMMA Scanned ==
  ASSUME IInv, RInv, stage = "unmarshal"
  PROVE  \E pieces, off, k :
            /\ Written(Message(exchange), e.reader, next - 1, pieces) /\ buf = FlattenSeq(pieces)
            /\ Offsets(off, pieces) /\ Len(pieces) \in Nat /\ k \in 0 .. Len(pieces)
            /\ ScannedTo(e.reader, pieces, off, k, scan)
            /\ k # Len(pieces) => /\ Goes(buf, scan) /\ k + 1 \in 1 .. Len(pieces)
                                  /\ ScannedTo(e.reader, pieces, off, k + 1, Turn(e.reader, buf, scan))
            /\ k = Len(pieces) => ~Goes(buf, scan)
<1>1. PICK pieces : /\ Written(Message(exchange), e.reader, next - 1, pieces) /\ buf = FlattenSeq(pieces)
                    /\ \E off, k : /\ Offsets(off, pieces) /\ k \in 0 .. Len(pieces)
                                   /\ ScannedTo(e.reader, pieces, off, k, scan)
  BY DEF RInv, Carried
<1>2. PICK off, k : /\ Offsets(off, pieces) /\ k \in 0 .. Len(pieces)
                    /\ ScannedTo(e.reader, pieces, off, k, scan)
  BY <1>1
<1>3. AreFields(pieces)
  BY <1>1 DEF Written
<1>4. Len(pieces) \in Nat /\ Len(buf) = off[Len(pieces)] /\ Len(buf) \in Nat
  BY <1>1, <1>2, <1>3, PiecesStand
<1> DEFINE c == Len(pieces)
           type == e.reader
<1>5. ASSUME k # c
      PROVE  Goes(buf, scan) /\ k + 1 \in 1 .. c /\ ScannedTo(type, pieces, off, k + 1, Turn(type, buf, scan))
  <2>1. k + 1 \in 1 .. c /\ (k + 1) - 1 = k
    <3> HIDE DEF c
    <3>1. k \in 0 .. c /\ c \in Nat
      BY <1>2, <1>4 DEF c
    <3> QED BY <1>5, <3>1
  <2> DEFINE next1 == k + 1
  <2>2. next1 \in 1 .. Len(pieces)
    BY <2>1
  <2>3. ScannedTo(type, pieces, off, next1 - 1, scan)
    BY <1>2, <2>1
  <2> HIDE DEF next1, type, c
  <2>4. Goes(FlattenSeq(pieces), scan) /\ ScannedTo(type, pieces, off, next1, Turn(type, FlattenSeq(pieces), scan))
    BY <1>2, <1>3, <2>2, <2>3, TurnFinds
  <2> QED BY <1>1, <2>1, <2>4 DEF next1
<1>6. ASSUME k = c PROVE ~Goes(buf, scan)
  <2> DEFINE l == Len(buf)
  <2>1. scan.offset = l
    BY <1>2, <1>4, <1>6 DEF ScannedTo
  <2>2. ~(l + 0 < l)
    <3>1. l \in Nat
      BY <1>4
    <3> HIDE DEF l
    <3> QED BY <3>1
  <2> QED BY <2>1, <2>2 DEF Goes, HasNext
<1> QED BY <1>1, <1>2, <1>4, <1>5, <1>6

LEMMA ReadUnmarshal == IInv /\ RInv /\ Unmarshal => RInv'
<1> SUFFICES ASSUME IInv, RInv, Unmarshal PROVE RInv'
  OBVIOUS
<1>1. /\ stage = "unmarshal" /\ Goes(buf, scan) /\ scan' = Turn(e.reader, buf, scan)
      /\ UNCHANGED <<exchange, stage, next, buf, data>> /\ e' = e
  BY DEF Unmarshal, e
<1>2. PICK pieces, off, k :
            /\ Written(Message(exchange), e.reader, next - 1, pieces) /\ buf = FlattenSeq(pieces)
            /\ Offsets(off, pieces) /\ Len(pieces) \in Nat /\ k \in 0 .. Len(pieces)
            /\ k # Len(pieces) => /\ k + 1 \in 1 .. Len(pieces)
                                  /\ ScannedTo(e.reader, pieces, off, k + 1, Turn(e.reader, buf, scan))
            /\ k = Len(pieces) => ~Goes(buf, scan)
  BY <1>1, Scanned
<1>3. k + 1 \in 0 .. Len(pieces) /\ ScannedTo(e.reader, pieces, off, k + 1, scan')
  <2> DEFINE c == Len(pieces)
  <2>1. k + 1 \in 1 .. c /\ c \in Nat /\ ScannedTo(e.reader, pieces, off, k + 1, scan')
    BY <1>1, <1>2
  <2> HIDE DEF c
  <2>2. k + 1 \in 0 .. c
    BY <2>1
  <2> QED BY <2>1, <2>2 DEF c
<1>4. Carried'
  BY <1>1, <1>2, <1>3 DEF Carried
<1>5. Asked'
  <2>1. data' = <<>> /\ stage' # "read"
    BY <1>1 DEF RInv, Asked
  <2> QED BY <2>1, NothingAsked
<1> QED BY <1>4, <1>5 DEF RInv

LEMMA ReadUnmarshalled == IInv /\ RInv /\ Unmarshalled => RInv'
<1> SUFFICES ASSUME IInv, RInv, Unmarshalled PROVE RInv'
  OBVIOUS
<1>1. /\ stage = "unmarshal" /\ ~Goes(buf, scan) /\ stage' \in {"read", "error"}
      /\ UNCHANGED <<exchange, next, buf, scan, data>> /\ e' = e
  BY DEF Unmarshalled, e
<1>2. PICK pieces, off, k :
            /\ Written(Message(exchange), e.reader, next - 1, pieces) /\ buf = FlattenSeq(pieces)
            /\ Offsets(off, pieces) /\ k \in 0 .. Len(pieces)
            /\ ScannedTo(e.reader, pieces, off, k, scan)
            /\ k # Len(pieces) => Goes(buf, scan)
  BY <1>1, Scanned
<1>3. Carried'
  BY <1>1, <1>2 DEF Carried
<1>4. data = <<>> /\ UNCHANGED data
  BY <1>1 DEF RInv, Asked
<1>5. Asked'
  <2>1. DOMAIN data' = {} /\ data' = <<>>
    BY <1>4
  <2> QED BY <2>1 DEF Asked, ReadsWhatWasWritten
<1> QED BY <1>3, <1>5 DEF RInv

LEMMA ReadGet == ASSUME NEW n \in Numbers(e.reader), IInv, RInv, Get(n) PROVE RInv'
<1> DEFINE m == Message(exchange)
           type == e.reader
           d == Depth[type]
           says == Says[d]
           nested == Nested[d]
           value == ReadField(nested, Field(type, n), buf, scan.offsets[n])
<1>1. /\ stage = "read" /\ UNCHANGED <<exchange, stage, next, buf, scan>> /\ e' = e
      /\ data' = [k \in DOMAIN data \cup {n} |-> IF k = n THEN value ELSE data[k]]
  BY DEF Get, e
<1>2. /\ m.of = e.writer /\ m.struct # Nothing /\ IsMessage(m) /\ <<m.of, type>> \in Versions /\ d \in Nat
  BY MessageSent DEF IInv, Marshalling
<1>3. next - 1 = Len(Fields[m.of])
  <2> DEFINE c == Len(Fields[e.writer])
  <2>1. next = c + 1 /\ c \in Nat
    BY <1>1, ExchangeFacts DEF IInv, Marshalling, e
  <2> HIDE DEF c
  <2>2. next - 1 = c
    BY <2>1
  <2> QED BY <1>2, <2>2 DEF c
<1>4. Arrived(m, type, buf, scan.offsets)
  <2>1. PICK pieces : /\ Written(m, type, next - 1, pieces) /\ buf = FlattenSeq(pieces)
                      /\ \E off, k : /\ Offsets(off, pieces) /\ k = Len(pieces)
                                     /\ ScannedTo(type, pieces, off, k, scan)
    BY <1>1 DEF RInv, Carried
  <2>2. PICK off : Offsets(off, pieces) /\ ScannedTo(type, pieces, off, Len(pieces), scan)
    BY <2>1
  <2> HIDE DEF m, type
  <2>3. Written(m, type, Len(Fields[m.of]), pieces)
    BY <1>3, <2>1
  <2> QED BY <2>1, <2>2, <2>3 DEF Arrived
<1>5. Agree(nested, says, d)
  BY <1>2, NestedIsRead
<1>6. value = SaysField(says, m, Field(type, n))
  <2> DEFINE found == scan.offsets
  <2>1. ReadsBack(nested, says, m, type, buf, found)
    <3>1. IsMessage(m) /\ m.struct # Nothing
      BY <1>2
    <3>2. <<m.of, type>> \in Versions
      BY <1>2
    <3>3. Agree(nested, says, Depth[type])
      BY <1>5
    <3>4. Arrived(m, type, buf, found)
      BY <1>4
    <3> HIDE DEF m, type, says, nested, found
    <3> QED BY <3>1, <3>2, <3>3, <3>4, FieldsAreReadBack
  <2> QED BY <2>1 DEF ReadsBack
<1>7. \A k \in DOMAIN data : data[k] = SaysField(says, m, Field(type, k))
  BY DEF RInv, Asked, ReadsWhatWasWritten
<1>8. Message(exchange)' = m
  BY <1>1
<1>9. DOMAIN data \subseteq Numbers(type)
  BY DEF RInv, Asked
<1>10. Carried'
  BY <1>1, <1>8 DEF RInv, Carried
<1> HIDE DEF value
<1>11. /\ DOMAIN data' = DOMAIN data \cup {n}
       /\ \A k \in DOMAIN data \cup {n} : data'[k] = IF k = n THEN value ELSE data[k]
  BY <1>1
<1>12. \A k \in DOMAIN data' : data'[k] = SaysField(says, m, Field(type, k))
  BY <1>6, <1>7, <1>11
<1>13. Asked'
  <2>1. stage' = "read" /\ DOMAIN data' \subseteq Numbers(type)
    BY <1>1, <1>9, <1>11
  <2>2. ReadsWhatWasWritten'
    BY <1>1, <1>8, <1>12 DEF ReadsWhatWasWritten
  <2> QED BY <1>1, <2>1, <2>2 DEF Asked
<1> QED BY <1>10, <1>13 DEF RInv

LEMMA ReadNext == IInv /\ RInv /\ [Next]_vars => RInv'
<1> SUFFICES ASSUME IInv, RInv, [Next]_vars PROVE RInv'
  OBVIOUS
<1>1. CASE UNCHANGED vars
  <2>1. e' = e
    BY <1>1 DEF vars, e
  <2>2. Message(exchange)' = Message(exchange)
    BY <1>1 DEF vars
  <2> QED BY <1>1, <2>1, <2>2 DEF vars, RInv, Carried, Asked, ReadsWhatWasWritten
<1>2. ASSUME NEW n \in Numbers(e.reader), Get(n) PROVE RInv'
  BY <1>2, ReadGet
<1> QED BY <1>1, <1>2, ReadMarshal, ReadMarshalElsewhere, ReadSend, ReadUnmarshal, ReadUnmarshalled DEF Next

(* Whatever is read from a message, and in whatever order, has the value   *)
(* that was written: for every declaration in every pair of versions, with *)
(* messages nested in fields, lists and maps to any depth, whichever of    *)
(* the two libraries wrote it, in whatever order the entries of maps went, *)
(* and with fields the reader does not know in between.                    *)
THEOREM WhatIsWrittenIsRead == Spec => []ReadsWhatWasWritten
<1>1. Init => RInv
  BY ReadInit
<1>2. IInv /\ RInv /\ [Next]_vars => RInv'
  BY ReadNext
<1>3. RInv => ReadsWhatWasWritten
  BY DEF RInv, Asked
<1> QED BY Invariant, <1>1, <1>2, <1>3, PTL DEF Spec

=============================================================================
