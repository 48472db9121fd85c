---- MODULE StateCodec_proofs ----
(***************************************************************************)
(* Proofs about StateCodec, for any byte base and any field widths.        *)
(***************************************************************************)
EXTENDS StateCodec, TLAPS, WellFoundedInduction

----
(* Induction over the naturals, stated for sets *)

\* A non-empty set of naturals has a least member.
LEMMA LeastMember ==
  ASSUME NEW T, T \subseteq Nat, T # {}
  PROVE  \E x \in T : \A y \in T : x <= y
<1>1. PICK x \in T : \A y \in T : ~ (<<y, x>> \in OpToRel(<, Nat))
  BY NatLessThanWellFounded, WFMin
<1>2. ASSUME NEW y \in T PROVE x <= y
  <2>1. y < x => <<y, x>> \in OpToRel(<, Nat)
    BY DEF OpToRel
  <2>2. ~ (y < x)
    BY <1>1, <2>1, Zenon
  <2> QED
    BY <2>2
<1> QED
  BY <1>2

\* A set that has 0 and with each natural the next one has them all.
LEMMA Induction ==
  ASSUME NEW S, 0 \in S, \A n \in Nat : n \in S => n + 1 \in S
  PROVE  \A n \in Nat : n \in S
<1> DEFINE T == Nat \ S
<1> SUFFICES ASSUME T # {} PROVE FALSE
  OBVIOUS
<1>1. PICK x \in T : \A y \in T : x <= y
  BY LeastMember
<1>2. x \in Nat /\ x # 0 /\ x - 1 \in Nat /\ (x - 1) + 1 = x
  OBVIOUS
<1>3. x - 1 \in S
  BY <1>1, <1>2
<1> QED
  BY <1>2, <1>3

\* f follows the recursion with start a and steps st up to n.
Follows(f, a, st, n) == f[0] = a /\ \A k \in 0 .. n - 1 : f[k + 1] = st[k][f[k]]

\* Two functions that follow the same recursion agree.
LEMMA FollowsUnique ==
  ASSUME NEW a, NEW st, NEW f, NEW g, NEW n \in Nat,
         Follows(f, a, st, n), Follows(g, a, st, n)
  PROVE  \A k \in 0 .. n : f[k] = g[k]
<1> DEFINE S == {k \in Nat : k <= n => f[k] = g[k]}
<1>1. 0 \in S
  BY DEF Follows
<1>2. ASSUME NEW k \in Nat, k \in S PROVE k + 1 \in S
  <2> SUFFICES ASSUME k + 1 <= n PROVE f[k + 1] = g[k + 1]
    OBVIOUS
  <2>1. k \in 0 .. n - 1 /\ f[k] = g[k]
    BY <1>2
  <2> QED
    BY <2>1 DEF Follows
<1>3. \A k \in Nat : k \in S
  <2> HIDE DEF S
  <2> QED
    BY <1>1, <1>2, Induction
<1> QED
  BY <1>3

\* Primitive recursion: every start and every step function over the integers
\* have a function that follows them.
LEMMA Recursion ==
  ASSUME NEW a \in Int, NEW st \in [Nat -> [Int -> Int]]
  PROVE  \E f \in [Nat -> Int] : f[0] = a /\ \A k \in Nat : f[k + 1] = st[k][f[k]]
<1> DEFINE Up(n) == {f \in [Nat -> Int] : Follows(f, a, st, n)}
           S == {n \in Nat : Up(n) # {}}
<1>1. 0 \in S
  <2>1. [k \in Nat |-> a] \in Up(0)
    BY DEF Follows
  <2> QED
    BY <2>1
<1>2. ASSUME NEW n \in Nat, n \in S PROVE n + 1 \in S
  <2>1. PICK f \in [Nat -> Int] : Follows(f, a, st, n)
    BY <1>2
  <2> DEFINE g == [f EXCEPT ![n + 1] = st[n][f[n]]]
  <2>2. g \in [Nat -> Int] /\ g[n + 1] = st[n][f[n]] /\ \A k \in Nat : k <= n => g[k] = f[k]
    OBVIOUS
  <2>3. g[0] = a
    BY <2>1, <2>2 DEF Follows
  <2>4. ASSUME NEW k \in 0 .. n PROVE g[k + 1] = st[k][g[k]]
    <3>1. CASE k = n
      BY <2>2, <3>1
    <3>2. CASE k # n
      <4>1. k \in 0 .. n - 1 /\ k \in Nat /\ k <= n /\ k + 1 \in Nat /\ k + 1 <= n
        BY <3>2
      <4>2. f[k + 1] = st[k][f[k]]
        BY <2>1, <4>1 DEF Follows
      <4> HIDE DEF g
      <4> QED
        BY <2>2, <4>1, <4>2
    <3> QED
      BY <3>1, <3>2
  <2>5. Follows(g, a, st, n + 1)
    <3> HIDE DEF g
    <3> QED
      BY <2>3, <2>4 DEF Follows
  <2>6. g \in Up(n + 1)
    BY <2>2, <2>5, Zenon
  <2> HIDE DEF Up, g
  <2>7. Up(n + 1) # {} /\ n + 1 \in Nat
    BY <2>6
  <2> QED
    BY <2>7
<1>3. \A n \in Nat : n \in S
  <2> HIDE DEF S
  <2> QED
    BY <1>1, <1>2, Induction
<1> DEFINE c == [n \in Nat |-> CHOOSE f \in [Nat -> Int] : Follows(f, a, st, n)]
           h == [n \in Nat |-> c[n][n]]
<1>4. \A n \in Nat : c[n] \in [Nat -> Int] /\ Follows(c[n], a, st, n)
  BY <1>3, Zenon
<1> HIDE DEF c
<1>5. h \in [Nat -> Int] /\ h[0] = a
  BY <1>4 DEF Follows
<1>6. ASSUME NEW k \in Nat PROVE h[k + 1] = st[k][h[k]]
  <2>1. c[k + 1][k + 1] = st[k][c[k + 1][k]]
    BY <1>4 DEF Follows
  <2>2. Follows(c[k], a, st, k) /\ Follows(c[k + 1], a, st, k)
    <3>1. k + 1 \in Nat /\ \A i \in 0 .. k - 1 : i \in 0 .. (k + 1) - 1
      OBVIOUS
    <3>2. Follows(c[k + 1], a, st, k + 1)
      BY <1>4, <3>1
    <3> QED
      BY <1>4, <3>1, <3>2, Zenon DEF Follows
  <2>3. c[k + 1][k] = c[k][k]
    BY <2>2, FollowsUnique
  <2> QED
    BY <2>1, <2>3
<1> QED
  BY <1>5, <1>6

----
(* Powers and sums *)

\* Pow is what its recursive definition says.
LEMMA PowFacts ==
  /\ Pow[0] = 1
  /\ \A n \in Nat : Pow[n + 1] = Base * Pow[n]
  /\ \A n \in Nat : Pow[n] \in Nat \ {0}
<1>b. Base \in Nat \ {0}
  BY CodecAssumption
<1> DEFINE st == [k \in Nat |-> [v \in Int |-> Base * v]]
<1>1. st \in [Nat -> [Int -> Int]]
  BY <1>b
<1>2. PICK f \in [Nat -> Int] : f[0] = 1 /\ \A k \in Nat : f[k + 1] = st[k][f[k]]
  <2> HIDE DEF st
  <2>1. 1 \in Int
    OBVIOUS
  <2> QED
    BY <1>1, <2>1, Recursion, Zenon
<1>3. \A n \in Nat : f[n] = IF n = 0 THEN 1 ELSE Base * f[n - 1]
  <2> SUFFICES ASSUME NEW n \in Nat, n # 0 PROVE f[n] = Base * f[n - 1]
    BY <1>2
  <2>1. n - 1 \in Nat /\ (n - 1) + 1 = n
    OBVIOUS
  <2> QED
    BY <1>2, <2>1
<1>4. f = [n \in Nat |-> IF n = 0 THEN 1 ELSE Base * f[n - 1]]
  BY <1>3
<1>5. Pow = [n \in Nat |-> IF n = 0 THEN 1 ELSE Base * Pow[n - 1]]
  BY <1>4, Zenon DEF Pow
<1>6. Pow[0] = 1
  BY <1>5
<1>7. ASSUME NEW n \in Nat PROVE Pow[n + 1] = Base * Pow[n]
  <2>1. n + 1 \in Nat /\ n + 1 # 0 /\ (n + 1) - 1 = n
    OBVIOUS
  <2>2. Pow[n + 1] = IF n + 1 = 0 THEN 1 ELSE Base * Pow[(n + 1) - 1]
    BY <1>5, <2>1, Zenon
  <2> QED
    BY <2>1, <2>2
<1> DEFINE S == {n \in Nat : Pow[n] \in Nat \ {0}}
<1>8. 0 \in S
  BY <1>6
<1>9. ASSUME NEW n \in Nat, n \in S PROVE n + 1 \in S
  <2>1. Pow[n] \in Nat \ {0} /\ Pow[n + 1] = Base * Pow[n]
    BY <1>7, <1>9
  <2>2. \A x, y \in Nat \ {0} : x * y \in Nat \ {0}
    OBVIOUS
  <2> QED
    BY <1>b, <2>1, <2>2
<1>10. \A n \in Nat : n \in S
  <2> HIDE DEF S
  <2> QED
    BY <1>8, <1>9, Induction
<1> QED
  BY <1>6, <1>7, <1>10

\* FromLeBytes is the last of the partial sums of its bytes.
LEMMA SumFacts ==
  ASSUME NEW b \in Seq(Byte)
  PROVE  \E sum \in [0 .. Len(b) -> Int] :
           /\ sum[0] = 0
           /\ \A i \in 1 .. Len(b) : sum[i] = sum[i - 1] + b[i] * Pow[i - 1]
           /\ FromLeBytes(b) = sum[Len(b)]
<1> DEFINE w == [k \in Nat |-> IF k + 1 \in DOMAIN b THEN b[k + 1] * Pow[k] ELSE 0]
           st == [k \in Nat |-> [v \in Int |-> v + w[k]]]
<1>0. /\ Len(b) \in Nat /\ DOMAIN b = 1 .. Len(b) /\ Byte \subseteq Nat
      /\ \A i \in 1 .. Len(b) : b[i] \in Nat
  BY CodecAssumption DEF Byte
<1>1. w \in [Nat -> Int]
  <2>1. \A k \in Nat : k + 1 \in DOMAIN b => b[k + 1] \in Nat /\ Pow[k] \in Nat
    BY <1>0, PowFacts
  <2>2. \A x, y \in Nat : x * y \in Int
    OBVIOUS
  <2> QED
    BY <2>1, <2>2
<1>2. st \in [Nat -> [Int -> Int]]
  <2> HIDE DEF w
  <2> QED
    BY <1>1
<1>3. PICK f \in [Nat -> Int] : f[0] = 0 /\ \A k \in Nat : f[k + 1] = st[k][f[k]]
  <2> HIDE DEF st
  <2>1. 0 \in Int
    OBVIOUS
  <2> QED
    BY <1>2, <2>1, Recursion, Zenon
<1>4. \A i \in 1 .. Len(b) : f[i] = f[i - 1] + b[i] * Pow[i - 1]
  <2> SUFFICES ASSUME NEW i \in 1 .. Len(b) PROVE f[i] = f[i - 1] + b[i] * Pow[i - 1]
    OBVIOUS
  <2>1. i - 1 \in Nat /\ (i - 1) + 1 = i /\ i \in DOMAIN b
    BY <1>0
  <2>2. w[i - 1] = b[i] * Pow[i - 1]
    BY <2>1
  <2>3. f[i] = st[i - 1][f[i - 1]] /\ f[i - 1] \in Int
    BY <1>3, <2>1
  <2> HIDE DEF w
  <2> QED
    BY <2>1, <2>2, <2>3
<1> DEFINE g == [i \in 0 .. Len(b) |-> f[i]]
<1>5. \A i \in 0 .. Len(b) : g[i] = IF i = 0 THEN 0 ELSE g[i - 1] + b[i] * Pow[i - 1]
  <2> SUFFICES ASSUME NEW i \in 0 .. Len(b)
               PROVE  g[i] = IF i = 0 THEN 0 ELSE g[i - 1] + b[i] * Pow[i - 1]
    OBVIOUS
  <2>1. i # 0 => i \in 1 .. Len(b) /\ i - 1 \in 0 .. Len(b)
    BY <1>0
  <2> QED
    BY <1>3, <1>4, <2>1
<1>6. \E s : s = [i \in 0 .. Len(b) |-> IF i = 0 THEN 0 ELSE s[i - 1] + b[i] * Pow[i - 1]]
  <2>1. g = [i \in 0 .. Len(b) |-> IF i = 0 THEN 0 ELSE g[i - 1] + b[i] * Pow[i - 1]]
    BY <1>5, Zenon
  <2> QED
    BY <2>1, Zenon
<1>7. PICK s : /\ s = [i \in 0 .. Len(b) |-> IF i = 0 THEN 0 ELSE s[i - 1] + b[i] * Pow[i - 1]]
               /\ FromLeBytes(b) = s[Len(b)]
  BY <1>6, Zenon DEF FromLeBytes
<1>8. /\ s[0] = 0
      /\ \A i \in 1 .. Len(b) : s[i] = s[i - 1] + b[i] * Pow[i - 1]
  <2>1. \A i \in 0 .. Len(b) : s[i] = IF i = 0 THEN 0 ELSE s[i - 1] + b[i] * Pow[i - 1]
    BY <1>7, Zenon
  <2>2. 0 \in 0 .. Len(b) /\ \A i \in 1 .. Len(b) : i \in 0 .. Len(b) /\ i # 0
    BY <1>0
  <2> QED
    BY <2>1, <2>2, Zenon
<1> DEFINE S == {i \in Nat : i <= Len(b) => s[i] = f[i]}
<1>9. 0 \in S
  BY <1>3, <1>8
<1>10. ASSUME NEW i \in Nat, i \in S PROVE i + 1 \in S
  <2> SUFFICES ASSUME i + 1 <= Len(b) PROVE s[i + 1] = f[i + 1]
    OBVIOUS
  <2>1. i + 1 \in 1 .. Len(b) /\ (i + 1) - 1 = i /\ s[i] = f[i]
    BY <1>0, <1>10
  <2> QED
    BY <1>4, <1>8, <2>1, Zenon
<1>11. \A i \in Nat : i \in S
  <2> HIDE DEF S
  <2> QED
    BY <1>9, <1>10, Induction
<1>12. s \in [0 .. Len(b) -> Int]
  <2>1. \A i \in 0 .. Len(b) : s[i] = f[i] /\ f[i] \in Int
    BY <1>0, <1>11
  <2>2. ASSUME NEW i \in 0 .. Len(b)
        PROVE  (IF i = 0 THEN 0 ELSE s[i - 1] + b[i] * Pow[i - 1]) \in Int
    <3>1. s[i] = IF i = 0 THEN 0 ELSE s[i - 1] + b[i] * Pow[i - 1]
      BY <1>7, Zenon
    <3> QED
      BY <2>1, <3>1, Zenon
  <2>3. [i \in 0 .. Len(b) |-> IF i = 0 THEN 0 ELSE s[i - 1] + b[i] * Pow[i - 1]]
          \in [0 .. Len(b) -> Int]
    BY <2>2, Zenon
  <2> QED
    BY <1>7, <2>3, Zenon
<1> QED
  BY <1>7, <1>8, <1>12

----
(* Quotients and remainders *)

\* Multiplication is monotonic.
LEMMA TimesMono ==
  ASSUME NEW a \in Nat, NEW b \in Nat, NEW k \in Nat, a <= b
  PROVE  a * k \in Nat /\ b * k \in Nat /\ a * k <= b * k
OBVIOUS

\* What \div and % compute.
LEMMA DivMod ==
  ASSUME NEW a \in Nat, NEW b \in Nat \ {0}
  PROVE  /\ a \div b \in Nat /\ a % b \in 0 .. b - 1
         /\ a = (a \div b) * b + (a % b)
<1>1. a \div b \in Nat /\ a % b \in 0 .. b - 1 /\ a % b = a - (a \div b) * b
  OBVIOUS
<1>2. (a \div b) * b \in Nat
  BY <1>1
<1> QED
  BY <1>1, <1>2

\* There is one remainder.
LEMMA ModUnique ==
  ASSUME NEW q \in Nat, NEW b \in Nat \ {0}, NEW r \in 0 .. b - 1
  PROVE  (q * b + r) % b = r
<1> DEFINE a == q * b + r
           x == a \div b
           t == a % b
<1>1. a \in Nat
  OBVIOUS
<1>2. x \in Nat /\ t \in 0 .. b - 1 /\ a = x * b + t
  BY <1>1, DivMod
<1> HIDE DEF x, t
<1>3. ~ (x >= q + 1)
  <2> SUFFICES ASSUME x >= q + 1 PROVE FALSE
    OBVIOUS
  <2>1. (q + 1) * b <= x * b /\ (q + 1) * b = q * b + b /\ q * b \in Nat /\ x * b \in Nat
    BY <1>2, TimesMono
  <2> QED
    BY <1>2, <2>1
<1>4. ~ (q >= x + 1)
  <2> SUFFICES ASSUME q >= x + 1 PROVE FALSE
    OBVIOUS
  <2>1. (x + 1) * b <= q * b /\ (x + 1) * b = x * b + b /\ q * b \in Nat /\ x * b \in Nat
    BY <1>2, TimesMono
  <2> QED
    BY <1>2, <2>1
<1>5. x = q
  BY <1>2, <1>3, <1>4
<1>6. t = r
  <2>1. q * b \in Nat /\ q * b + r = q * b + t
    BY <1>2, <1>5
  <2> QED
    BY <1>2, <2>1
<1> QED
  BY <1>6 DEF t

\* One more digit: its place value is added to the remainder.
LEMMA DigitStep ==
  ASSUME NEW u \in Nat, NEW p \in Nat \ {0}, NEW c \in Nat \ {0}
  PROVE  u % (c * p) = (u % p) + ((u \div p) % c) * p
<1> DEFINE q == u \div p
           r == u % p
           x == q \div c
           d == q % c
<1>1. q \in Nat /\ r \in 0 .. p - 1 /\ u = q * p + r
  BY DivMod
<1>2. x \in Nat /\ d \in 0 .. c - 1 /\ q = x * c + d
  BY <1>1, DivMod
<1> HIDE DEF q, r, x, d
<1>3. c * p \in Nat \ {0} /\ d * p \in Nat
  BY <1>2
<1>4. d * p + r \in 0 .. c * p - 1
  <2>1. d * p <= (c - 1) * p /\ (c - 1) * p = c * p - p
    BY <1>2, TimesMono
  <2> QED
    BY <1>1, <1>3, <2>1
<1>5. u = x * (c * p) + (d * p + r)
  <2>1. (x * c + d) * p = x * (c * p) + d * p
    BY <1>2
  <2>2. x * (c * p) \in Nat
    BY <1>2, <1>3
  <2> QED
    BY <1>1, <1>2, <1>3, <2>1, <2>2
<1>6. u % (c * p) = d * p + r
  BY <1>2, <1>3, <1>4, <1>5, ModUnique
<1> QED
  BY <1>1, <1>3, <1>6 DEF q, r, d

----
(* Numbers and their bytes *)

\* What from_le_bytes reads fits the width it was read from.
LEMMA FromLeBytesRange ==
  ASSUME NEW b \in Seq(Byte)
  PROVE  FromLeBytes(b) \in 0 .. Pow[Len(b)] - 1
<1>b. Base \in Nat \ {0} /\ Len(b) \in Nat
  BY CodecAssumption
<1>1. PICK sum \in [0 .. Len(b) -> Int] :
        /\ sum[0] = 0
        /\ \A i \in 1 .. Len(b) : sum[i] = sum[i - 1] + b[i] * Pow[i - 1]
        /\ FromLeBytes(b) = sum[Len(b)]
  BY SumFacts
<1> DEFINE S == {i \in Nat : i <= Len(b) => sum[i] \in 0 .. Pow[i] - 1}
<1>2. 0 \in S
  <2>1. Pow[0] = 1 /\ 0 \in 0 .. 1 - 1
    BY PowFacts
  <2> QED
    BY <1>1, <2>1
<1>3. ASSUME NEW i \in Nat, i \in S PROVE i + 1 \in S
  <2> SUFFICES ASSUME i + 1 <= Len(b) PROVE sum[i + 1] \in 0 .. Pow[i + 1] - 1
    OBVIOUS
  <2> DEFINE p == Pow[i]
             d == b[i + 1]
  <2>1. i + 1 \in 1 .. Len(b) /\ (i + 1) - 1 = i /\ sum[i] \in 0 .. p - 1
    BY <1>b, <1>3
  <2>2. sum[i + 1] = sum[i] + d * p
    BY <1>1, <2>1
  <2>3. d \in 0 .. Base - 1
    BY <1>b, <2>1 DEF Byte
  <2>4. p \in Nat \ {0} /\ Pow[i + 1] = Base * p
    BY PowFacts
  <2> HIDE DEF p, d
  <2>5. d * p <= (Base - 1) * p /\ (Base - 1) * p = Base * p - p /\ d * p \in Nat /\ Base * p \in Nat
    BY <1>b, <2>3, <2>4, TimesMono
  <2> QED
    BY <2>1, <2>2, <2>4, <2>5
<1>4. \A i \in Nat : i \in S
  <2> HIDE DEF S
  <2> QED
    BY <1>2, <1>3, Induction
<1> QED
  BY <1>b, <1>1, <1>4

\* to_le_bytes yields bytes.
LEMMA ToLeBytesType ==
  ASSUME NEW v \in Int, NEW n \in Nat
  PROVE  /\ v % Pow[n] \in 0 .. Pow[n] - 1
         /\ ToLeBytes(v, n) \in Seq(Byte) /\ Len(ToLeBytes(v, n)) = n
         /\ ToLeBytes(v, n) = [i \in 1 .. n |-> ((v % Pow[n]) \div Pow[i - 1]) % Base]
<1>1. Pow[n] \in Nat \ {0} /\ Base \in Nat \ {0}
  BY PowFacts, CodecAssumption
<1>2. v % Pow[n] \in 0 .. Pow[n] - 1
  BY <1>1
<1> DEFINE u == v % Pow[n]
<1> HIDE DEF u
<1>3. \A i \in 1 .. n : (u \div Pow[i - 1]) % Base \in Byte
  <2> SUFFICES ASSUME NEW i \in 1 .. n PROVE (u \div Pow[i - 1]) % Base \in Byte
    OBVIOUS
  <2>1. Pow[i - 1] \in Nat \ {0} /\ u \in Nat
    BY <1>1, <1>2, PowFacts DEF u
  <2>2. u \div Pow[i - 1] \in Nat
    BY <2>1, DivMod
  <2> QED
    BY <1>1, <2>2, DivMod DEF Byte
<1>4. ToLeBytes(v, n) = [i \in 1 .. n |-> (u \div Pow[i - 1]) % Base]
  BY DEF ToLeBytes, u
<1>5. ToLeBytes(v, n) \in [1 .. n -> Byte]
  BY <1>3, <1>4
<1> QED
  BY <1>2, <1>5 DEF ToLeBytes

\* from_le_bytes undoes to_le_bytes, up to the width.
LEMMA BytesRoundTrip ==
  ASSUME NEW v \in Int, NEW n \in Nat
  PROVE  FromLeBytes(ToLeBytes(v, n)) = v % Pow[n]
<1> DEFINE u == v % Pow[n]
           b == ToLeBytes(v, n)
<1>1. /\ u \in Nat /\ u < Pow[n] /\ b \in Seq(Byte) /\ Len(b) = n
      /\ \A i \in 1 .. n : b[i] = (u \div Pow[i - 1]) % Base
      /\ Base \in Nat \ {0}
  <2>1. /\ u \in 0 .. Pow[n] - 1 /\ b \in Seq(Byte) /\ Len(b) = n
        /\ b = [i \in 1 .. n |-> (u \div Pow[i - 1]) % Base]
    BY ToLeBytesType, Zenon
  <2>2. Pow[n] \in Nat /\ Base \in Nat \ {0}
    BY PowFacts, CodecAssumption
  <2> HIDE DEF u, b
  <2> QED
    BY <2>1, <2>2
<1> HIDE DEF u, b
<1>2. PICK sum \in [0 .. n -> Int] :
        /\ sum[0] = 0
        /\ \A i \in 1 .. n : sum[i] = sum[i - 1] + b[i] * Pow[i - 1]
        /\ FromLeBytes(b) = sum[n]
  BY <1>1, SumFacts
<1> DEFINE S == {i \in Nat : i <= n => sum[i] = u % Pow[i]}
<1>3. 0 \in S
  <2>1. u % 1 = 0
    BY <1>1
  <2> QED
    BY <1>2, <2>1, PowFacts
<1>4. ASSUME NEW i \in Nat, i \in S PROVE i + 1 \in S
  <2> SUFFICES ASSUME i + 1 <= n PROVE sum[i + 1] = u % Pow[i + 1]
    OBVIOUS
  <2>1. i + 1 \in 1 .. n /\ (i + 1) - 1 = i /\ sum[i] = u % Pow[i]
    BY <1>4
  <2>2. sum[i + 1] = (u % Pow[i]) + ((u \div Pow[i]) % Base) * Pow[i]
    BY <1>1, <1>2, <2>1
  <2>3. Pow[i] \in Nat \ {0} /\ Pow[i + 1] = Base * Pow[i]
    BY PowFacts
  <2>4. u % (Base * Pow[i]) = (u % Pow[i]) + ((u \div Pow[i]) % Base) * Pow[i]
    BY <1>1, <2>3, DigitStep, Zenon
  <2> QED
    BY <2>2, <2>3, <2>4, Zenon
<1>5. \A i \in Nat : i \in S
  <2> HIDE DEF S
  <2> QED
    BY <1>3, <1>4, Induction
<1>6. u % Pow[n] = u
  <2>1. Pow[n] \in Nat \ {0} /\ u \in Nat /\ u < Pow[n]
    BY <1>1, PowFacts
  <2>2. ASSUME NEW x \in Nat, NEW p \in Nat \ {0}, x < p PROVE x % p = x
    BY <2>2
  <2> QED
    BY <2>1, <2>2, Zenon
<1> QED
  BY <1>2, <1>5, <1>6 DEF u, b

----
(* The decoder, case by case *)

\* What the layout can represent: fire times of FireBytes bytes and sound ids
\* whose length fits the length field.
Storable ==
  [armed : BOOLEAN,
   next_fire : {v \in Int : Signed(v % Pow[FireBytes], FireBytes) = v} \cup {None},
   sound : {id \in Seq(Byte) : Utf8(id) /\ Len(id) < Pow[LenBytes]} \cup {None}]

LenField(b, at) == FromLeBytes(SubSeq(b, at + 1, at + LenBytes))

IdField(b, at) == SubSeq(b, at + LenBytes + 1, at + LenBytes + LenField(b, at))

\* The sound field is whole and well formed.
HasId(b, at) ==
  /\ b[at] = 1
  /\ Len(b) >= at + LenBytes
  /\ Len(b) >= at + LenBytes + LenField(b, at)
  /\ Utf8(IdField(b, at))

\* decode_body_v1 from the sound tag on.
LEMMA DecodeSoundCases ==
  ASSUME NEW b \in Seq(Byte), NEW at \in Nat \ {0}, NEW armed, NEW fire
  PROVE  LET d == DecodeSound(b, at, armed, fire)
             R(x) == [armed |-> armed, next_fire |-> fire, sound |-> x]
         IN /\ at > Len(b) => d = R(None)
            /\ at <= Len(b) /\ b[at] = 0 => d = R(None)
            /\ at <= Len(b) /\ HasId(b, at) => d = R(IdField(b, at))
            /\ at <= Len(b) /\ b[at] # 0 /\ ~HasId(b, at) => d = Corrupted
<1> DEFINE d == DecodeSound(b, at, armed, fire)
           R(x) == [armed |-> armed, next_fire |-> fire, sound |-> x]
<1>1. /\ DOMAIN b = 1 .. Len(b) /\ Len(b) \in Nat
      /\ \A i \in DOMAIN b : b[i] \in Int /\ b[i] # None
      /\ None # 0 /\ None # 1
  BY AbsentAssumption, CodecAssumption DEF Byte
<1>2. /\ at > Len(b) => Get(b, at) = None
      /\ at <= Len(b) => Get(b, at) = b[at] /\ b[at] # None
  BY <1>1 DEF Get
<1>3. ASSUME Get(b, at) \in {0, None} PROVE d = R(None)
  BY <1>1, <1>3 DEF DecodeSound
<1>4. ASSUME Get(b, at) = 1, HasId(b, at) PROVE d = R(IdField(b, at))
  BY <1>1, <1>4 DEF DecodeSound, HasId, LenField, IdField
<1>5. ASSUME Get(b, at) \notin {0, None}, ~ (Get(b, at) = 1 /\ HasId(b, at)), Get(b, at) = b[at]
      PROVE  d = Corrupted
  BY <1>5 DEF DecodeSound, HasId, LenField, IdField
<1> HIDE DEF d, R
<1>6. HasId(b, at) => b[at] = 1
  BY DEF HasId
<1> QED
  BY <1>1, <1>2, <1>3, <1>4, <1>5, <1>6, Zenon DEF d, R

FireField(b) == Signed(FromLeBytes(SubSeq(b, 3, 2 + FireBytes)), FireBytes)

\* decode_body_v1 up to the sound tag.
LEMMA DecodeBodyCases ==
  ASSUME NEW b \in Seq(Byte)
  PROVE  LET armed == b[1] # 0
         IN /\ Len(b) = 0 => DecodeBody(b) = Default
            /\ Len(b) = 1 => DecodeBody(b) = [Default EXCEPT !.armed = armed]
            /\ Len(b) >= 2 /\ b[2] = 0 => DecodeBody(b) = DecodeSound(b, 3, armed, None)
            /\ Len(b) >= 2 /\ b[2] = 1 /\ Len(b) >= 2 + FireBytes =>
                 DecodeBody(b) = DecodeSound(b, 3 + FireBytes, armed, FireField(b))
            /\ Len(b) >= 2 /\ b[2] # 0 /\ ~ (b[2] = 1 /\ Len(b) >= 2 + FireBytes) =>
                 DecodeBody(b) = Corrupted
<1> DEFINE armed == b[1] # 0
           d == DecodeBody(b)
<1>1. /\ DOMAIN b = 1 .. Len(b) /\ Len(b) \in Nat
      /\ \A i \in DOMAIN b : b[i] \in Int /\ b[i] # None
      /\ None # 0 /\ None # 1
      /\ b = <<>> <=> Len(b) = 0
  BY AbsentAssumption, CodecAssumption DEF Byte
<1>2. \A i \in {1, 2} : /\ i > Len(b) => Get(b, i) = None
                        /\ i <= Len(b) => Get(b, i) = b[i] /\ b[i] # None
  BY <1>1 DEF Get
<1>3. FireBytes \in Nat /\ (2 + FireBytes) + 1 = 3 + FireBytes
  BY CodecAssumption
<1>4. ASSUME b = <<>> PROVE d = Default
  <2>1. Get(b, 1) = None /\ Get(b, 2) = None
    BY <1>1, <1>2, <1>4
  <2> QED
    BY <1>1, <1>4, <2>1 DEF DecodeBody
<1>5. ASSUME b # <<>>, Get(b, 1) # None, Get(b, 2) = None PROVE d = [Default EXCEPT !.armed = armed]
  BY <1>1, <1>5 DEF DecodeBody
<1>6. ASSUME b # <<>>, Get(b, 2) = 0 PROVE d = DecodeSound(b, 3, armed, None)
  BY <1>1, <1>6 DEF DecodeBody
<1>7. ASSUME b # <<>>, Get(b, 2) = 1, Len(b) >= 2 + FireBytes
      PROVE  d = DecodeSound(b, 3 + FireBytes, armed, FireField(b))
  BY <1>1, <1>3, <1>7 DEF DecodeBody, FireField
<1>8. ASSUME b # <<>>, Get(b, 2) # None, Get(b, 2) # 0, ~ (Get(b, 2) = 1 /\ Len(b) >= 2 + FireBytes)
      PROVE  d = Corrupted
  BY <1>1, <1>8 DEF DecodeBody
<1> HIDE DEF armed, d
<1>9. /\ Len(b) = 1 => b # <<>> /\ Get(b, 1) # None /\ Get(b, 2) = None
      /\ Len(b) >= 2 => b # <<>> /\ Get(b, 2) = b[2] /\ b[2] # None
  BY <1>1, <1>2
<1> QED
  BY <1>1, <1>4, <1>5, <1>6, <1>7, <1>8, <1>9, Zenon DEF armed, d

\* A slice between two cursors.
LEMMA Slice ==
  ASSUME NEW b \in Seq(Byte), NEW i \in Nat, NEW n \in Nat, i + n <= Len(b)
  PROVE  /\ SubSeq(b, i + 1, i + n) \in Seq(Byte)
         /\ Len(SubSeq(b, i + 1, i + n)) = n
         /\ SubSeq(b, i + 1, i + n) = [k \in 1 .. n |-> b[i + k]]
<1>1. /\ Len(b) \in Nat /\ DOMAIN b = 1 .. Len(b) /\ \A k \in DOMAIN b : b[k] \in Byte
  OBVIOUS
<1>2. SubSeq(b, i + 1, i + n) = [k \in 1 .. n |-> b[i + k]]
  <2>1. SubSeq(b, i + 1, i + n) = [k \in 1 .. (1 + (i + n) - (i + 1)) |-> b[k + (i + 1) - 1]]
    OBVIOUS
  <2>2. 1 + (i + n) - (i + 1) = n /\ \A k \in 1 .. n : k + (i + 1) - 1 = i + k
    OBVIOUS
  <2> QED
    BY <2>1, <2>2
<1>3. [k \in 1 .. n |-> b[i + k]] \in [1 .. n -> Byte]
  BY <1>1
<1> QED
  BY <1>2, <1>3

\* The number read as a two's complement is stored as the same bytes again.
LEMMA SignedStorable ==
  ASSUME NEW n \in Nat, NEW u \in 0 .. Pow[n] - 1
  PROVE  Signed(u, n) \in Int /\ Signed(u, n) % Pow[n] = u
<1>1. Pow[n] \in Nat \ {0} /\ u \in Nat /\ u < Pow[n]
  BY PowFacts
<1>2. CASE 2 * u >= Pow[n]
  <2>1. Signed(u, n) = u - Pow[n]
    BY <1>2 DEF Signed
  <2>2. \A p \in Nat \ {0} : \A x \in Nat : x < p => (x - p) % p = x
    OBVIOUS
  <2> QED
    BY <1>1, <2>1, <2>2
<1>3. CASE ~ (2 * u >= Pow[n])
  <2>1. Signed(u, n) = u
    BY <1>3 DEF Signed
  <2>2. \A p \in Nat \ {0} : \A x \in Nat : x < p => x % p = x
    OBVIOUS
  <2> QED
    BY <1>1, <2>1, <2>2
<1> QED
  BY <1>2, <1>3

\* Whatever is decoded can be stored again.
LEMMA DecodedIsStorable ==
  ASSUME NEW b \in Seq(Byte), DecodeBody(b) # Corrupted
  PROVE  DecodeBody(b) \in Storable
<1>0. LenBytes \in Nat \ {0} /\ FireBytes \in Nat \ {0} /\ Len(b) \in Nat
  BY CodecAssumption
<1>1. ASSUME NEW at \in Nat \ {0}, NEW armed \in BOOLEAN,
             NEW fire \in {v \in Int : Signed(v % Pow[FireBytes], FireBytes) = v} \cup {None},
             DecodeSound(b, at, armed, fire) # Corrupted
      PROVE  DecodeSound(b, at, armed, fire) \in Storable
  <2>1. CASE DecodeSound(b, at, armed, fire)
               = [armed |-> armed, next_fire |-> fire, sound |-> None]
    BY <1>1, <2>1 DEF Storable
  <2>2. CASE /\ at <= Len(b) /\ HasId(b, at)
             /\ DecodeSound(b, at, armed, fire)
                  = [armed |-> armed, next_fire |-> fire, sound |-> IdField(b, at)]
    <3> DEFINE l == LenField(b, at)
    <3>1. l \in 0 .. Pow[LenBytes] - 1
      <4>1. /\ SubSeq(b, at + 1, at + LenBytes) \in Seq(Byte)
            /\ Len(SubSeq(b, at + 1, at + LenBytes)) = LenBytes
        BY <1>0, <2>2, Slice DEF HasId
      <4> QED
        BY <4>1, FromLeBytesRange DEF LenField
    <3>2. l \in Nat /\ l < Pow[LenBytes] /\ (at + LenBytes) + l <= Len(b) /\ at + LenBytes \in Nat
      <4>1. Len(b) >= at + LenBytes + l /\ Pow[LenBytes] \in Nat
        BY <1>0, <2>2, PowFacts DEF HasId
      <4> HIDE DEF l
      <4> QED
        BY <1>0, <3>1, <4>1
    <3> HIDE DEF l
    <3>3. IdField(b, at) \in Seq(Byte) /\ Len(IdField(b, at)) = l
      <4>1. IdField(b, at) = SubSeq(b, (at + LenBytes) + 1, (at + LenBytes) + l)
        BY DEF IdField, l
      <4> QED
        <5>1. /\ SubSeq(b, (at + LenBytes) + 1, (at + LenBytes) + l) \in Seq(Byte)
              /\ Len(SubSeq(b, (at + LenBytes) + 1, (at + LenBytes) + l)) = l
          BY <3>2, Slice
        <5> QED
          BY <4>1, <5>1, Zenon
    <3>4. IdField(b, at) \in {id \in Seq(Byte) : Utf8(id) /\ Len(id) < Pow[LenBytes]}
      BY <2>2, <3>2, <3>3 DEF HasId
    <3> QED
      BY <2>2, <3>4 DEF Storable
  <2> QED
    BY <1>0, <1>1, <2>1, <2>2, DecodeSoundCases DEF HasId
<1> DEFINE armed == b[1] # 0
<1>2. armed \in BOOLEAN
  OBVIOUS
<1> HIDE DEF armed
<1>3. CASE Len(b) = 0
  <2>1. DecodeBody(b) = Default
    BY <1>3, DecodeBodyCases, Zenon
  <2> QED
    BY <2>1 DEF Default, Storable
<1>4. CASE Len(b) = 1
  <2>1. DecodeBody(b) = [Default EXCEPT !.armed = armed]
    BY <1>4, DecodeBodyCases DEF armed
  <2> QED
    BY <1>2, <2>1 DEF Default, Storable
<1>5. CASE Len(b) >= 2 /\ b[2] = 0
  <2>1. DecodeBody(b) = DecodeSound(b, 3, armed, None)
    BY <1>5, DecodeBodyCases DEF armed
  <2>2. 3 \in Nat \ {0}
    OBVIOUS
  <2>3. None \in {v \in Int : Signed(v % Pow[FireBytes], FireBytes) = v} \cup {None}
    BY Zenon
  <2> QED
    BY <1>1, <1>2, <2>1, <2>2, <2>3, Zenon
<1>6. CASE Len(b) >= 2 /\ b[2] = 1 /\ Len(b) >= 2 + FireBytes
  <2>1. DecodeBody(b) = DecodeSound(b, 3 + FireBytes, armed, FireField(b))
    BY <1>6, DecodeBodyCases DEF armed
  <2> DEFINE u == FromLeBytes(SubSeq(b, 3, 2 + FireBytes))
  <2>2. u \in 0 .. Pow[FireBytes] - 1
    <3>1. /\ SubSeq(b, 2 + 1, 2 + FireBytes) \in Seq(Byte)
          /\ Len(SubSeq(b, 2 + 1, 2 + FireBytes)) = FireBytes
      BY <1>0, <1>6, Slice
    <3>2. 2 + 1 = 3
      OBVIOUS
    <3>3. SubSeq(b, 3, 2 + FireBytes) \in Seq(Byte) /\ Len(SubSeq(b, 3, 2 + FireBytes)) = FireBytes
      BY <3>1, <3>2, Zenon
    <3> QED
      BY <3>3, FromLeBytesRange, Zenon
  <2> HIDE DEF u
  <2>3. FireField(b) \in Int /\ FireField(b) % Pow[FireBytes] = u /\ FireField(b) = Signed(u, FireBytes)
    BY <1>0, <2>2, SignedStorable DEF FireField, u
  <2>4. FireField(b) \in {v \in Int : Signed(v % Pow[FireBytes], FireBytes) = v}
    BY <2>3
  <2> QED
    BY <1>0, <1>1, <1>2, <2>1, <2>4
<1> QED
  <2>1. \A n \in Nat : n = 0 \/ n = 1 \/ n >= 2
    OBVIOUS
  <2>2. ~ (Len(b) >= 2 /\ b[2] # 0 /\ ~ (b[2] = 1 /\ Len(b) >= 2 + FireBytes))
    BY DecodeBodyCases, Zenon
  <2> QED
    BY <1>0, <1>3, <1>4, <1>5, <1>6, <2>1, <2>2, Zenon

----
(* The encoder, field by field *)

\* Two fields, one behind the other.
LEMMA Concat ==
  ASSUME NEW x \in Seq(Byte), NEW y \in Seq(Byte)
  PROVE  /\ x \o y \in Seq(Byte)
         /\ Len(x) \in Nat /\ Len(y) \in Nat /\ Len(x \o y) = Len(x) + Len(y)
         /\ \A i \in 1 .. Len(x) : (x \o y)[i] = x[i]
         /\ \A i \in 1 .. Len(y) : (x \o y)[Len(x) + i] = y[i]
OBVIOUS

\* A tag.
LEMMA OneByte ==
  ASSUME NEW t \in {0, 1}
  PROVE  <<t>> \in Seq(Byte) /\ Len(<<t>>) = 1 /\ <<t>>[1] = t
BY CodecAssumption DEF Byte

\* A tag and the field behind it.
LEMMA Tagged ==
  ASSUME NEW y \in Seq(Byte)
  PROVE  /\ <<1>> \o y \in Seq(Byte) /\ Len(<<1>> \o y) = 1 + Len(y) /\ Len(y) \in Nat
         /\ (<<1>> \o y)[1] = 1
         /\ \A i \in 1 .. Len(y) : (<<1>> \o y)[1 + i] = y[i]
<1>1. <<1>> \in Seq(Byte) /\ Len(<<1>>) = 1 /\ <<1>>[1] = 1
  BY OneByte
<1>2. 1 \in 1 .. 1
  OBVIOUS
<1> QED
  BY <1>1, <1>2, Concat

FirePart(s) ==
  IF s.next_fire = None THEN <<0>> ELSE <<1>> \o ToLeBytes(s.next_fire, FireBytes)

\* How many bytes next_fire takes behind its tag.
FireWidth(s) == IF s.next_fire = None THEN 0 ELSE FireBytes

\* next_fire in the encoding.
LEMMA FirePartFacts ==
  ASSUME NEW s \in Storable
  PROVE  /\ FirePart(s) \in Seq(Byte) /\ FireWidth(s) \in Nat
         /\ Len(FirePart(s)) = 1 + FireWidth(s)
         /\ FirePart(s)[1] = IF s.next_fire = None THEN 0 ELSE 1
         /\ s.next_fire # None =>
              /\ s.next_fire \in Int /\ FireWidth(s) = FireBytes
              /\ \A i \in 1 .. FireBytes :
                   FirePart(s)[1 + i] = ToLeBytes(s.next_fire, FireBytes)[i]
<1>0. FireBytes \in Nat
  BY CodecAssumption
<1>1. CASE s.next_fire = None
  <2>1. FirePart(s) = <<0>> /\ FireWidth(s) = 0
    BY <1>1 DEF FirePart, FireWidth
  <2> QED
    BY <1>1, <2>1, OneByte
<1>2. CASE s.next_fire # None
  <2> DEFINE y == ToLeBytes(s.next_fire, FireBytes)
  <2>1. s.next_fire \in Int
    BY <1>2 DEF Storable
  <2>2. y \in Seq(Byte) /\ Len(y) = FireBytes
    BY <1>0, <2>1, ToLeBytesType, Zenon
  <2>3. FirePart(s) = <<1>> \o y /\ FireWidth(s) = FireBytes
    BY <1>2 DEF FirePart, FireWidth
  <2> HIDE DEF y
  <2>4. /\ FirePart(s) \in Seq(Byte) /\ Len(FirePart(s)) = 1 + FireBytes /\ FirePart(s)[1] = 1
        /\ \A i \in 1 .. FireBytes : FirePart(s)[1 + i] = y[i]
    BY <2>2, <2>3, Tagged
  <2> QED
    BY <1>0, <1>2, <2>1, <2>3, <2>4 DEF y
<1> QED
  BY <1>1, <1>2

SoundPart(s) ==
  IF s.sound = None THEN <<0>>
  ELSE <<1>> \o (ToLeBytes(Len(s.sound), LenBytes) \o s.sound)

\* The sound in the encoding.
LEMMA SoundPartFacts ==
  ASSUME NEW s \in Storable
  PROVE  /\ SoundPart(s) \in Seq(Byte)
         /\ SoundPart(s)[1] = IF s.sound = None THEN 0 ELSE 1
         /\ s.sound = None => Len(SoundPart(s)) = 1
         /\ s.sound # None =>
              /\ s.sound \in Seq(Byte) /\ Utf8(s.sound) /\ Len(s.sound) < Pow[LenBytes]
              /\ Len(SoundPart(s)) = 1 + LenBytes + Len(s.sound)
              /\ \A i \in 1 .. LenBytes :
                   SoundPart(s)[1 + i] = ToLeBytes(Len(s.sound), LenBytes)[i]
              /\ \A i \in 1 .. Len(s.sound) : SoundPart(s)[1 + LenBytes + i] = s.sound[i]
<1>0. LenBytes \in Nat
  BY CodecAssumption
<1>1. CASE s.sound = None
  <2>1. SoundPart(s) = <<0>>
    BY <1>1 DEF SoundPart
  <2> QED
    BY <1>1, <2>1, OneByte
<1>2. CASE s.sound # None
  <2> DEFINE y == ToLeBytes(Len(s.sound), LenBytes)
             z == s.sound
  <2>1. z \in Seq(Byte) /\ Utf8(z) /\ Len(z) < Pow[LenBytes] /\ Len(z) \in Nat
    BY <1>2 DEF Storable
  <2>2. y \in Seq(Byte) /\ Len(y) = LenBytes
    <3>1. Len(z) \in Int
      BY <2>1
    <3> QED
      BY <1>0, <3>1, ToLeBytesType, Zenon
  <2>3. SoundPart(s) = <<1>> \o (y \o z)
    BY <1>2 DEF SoundPart
  <2> HIDE DEF y, z
  <2>4. /\ y \o z \in Seq(Byte) /\ Len(y \o z) = LenBytes + Len(z)
        /\ \A i \in 1 .. LenBytes : (y \o z)[i] = y[i]
        /\ \A i \in 1 .. Len(z) : (y \o z)[LenBytes + i] = z[i]
    BY <2>1, <2>2, Concat
  <2>5. /\ SoundPart(s) \in Seq(Byte) /\ Len(SoundPart(s)) = 1 + (LenBytes + Len(z))
        /\ SoundPart(s)[1] = 1
        /\ \A i \in 1 .. (LenBytes + Len(z)) : SoundPart(s)[1 + i] = (y \o z)[i]
    BY <2>3, <2>4, Tagged
  <2>6. \A i \in 1 .. LenBytes : SoundPart(s)[1 + i] = y[i]
    BY <1>0, <2>1, <2>4, <2>5
  <2>7. \A i \in 1 .. Len(z) : SoundPart(s)[1 + LenBytes + i] = z[i]
    <3> SUFFICES ASSUME NEW i \in 1 .. Len(z) PROVE SoundPart(s)[1 + LenBytes + i] = z[i]
      OBVIOUS
    <3>1. LenBytes + i \in 1 .. (LenBytes + Len(z)) /\ 1 + LenBytes + i = 1 + (LenBytes + i)
      BY <1>0, <2>1
    <3> QED
      BY <2>4, <2>5, <3>1
  <2>8. Len(SoundPart(s)) = 1 + LenBytes + Len(z)
    BY <1>0, <2>1, <2>5
  <2> QED
    BY <1>2, <2>1, <2>5, <2>6, <2>7, <2>8 DEF y, z
<1> QED
  BY <1>1, <1>2

\* encode_body_v1 writes the armed byte, next_fire and the sound, in this order.
LEMMA BodyParts ==
  ASSUME NEW s \in Storable
  PROVE  EncodeBody(s) = (<<IF s.armed THEN 1 ELSE 0>> \o FirePart(s)) \o SoundPart(s)
<1>1. s.sound # None => SoundBytes(s.sound) = s.sound
  BY SoundPartFacts DEF SoundBytes
<1>2. s.sound # None =>
        (<<1>> \o ToLeBytes(Len(s.sound), LenBytes)) \o s.sound
          = <<1>> \o (ToLeBytes(Len(s.sound), LenBytes) \o s.sound)
  <2> SUFFICES ASSUME s.sound # None
               PROVE  (<<1>> \o ToLeBytes(Len(s.sound), LenBytes)) \o s.sound
                        = <<1>> \o (ToLeBytes(Len(s.sound), LenBytes) \o s.sound)
    OBVIOUS
  <2>1. s.sound \in Seq(Byte) /\ <<1>> \in Seq(Byte)
    BY SoundPartFacts, OneByte
  <2>2. ToLeBytes(Len(s.sound), LenBytes) \in Seq(Byte)
    <3>1. Len(s.sound) \in Int /\ LenBytes \in Nat
      BY <2>1, CodecAssumption
    <3> QED
      BY <3>1, ToLeBytesType, Zenon
  <2>3. \A x, y, z \in Seq(Byte) : (x \o y) \o z = x \o (y \o z)
    OBVIOUS
  <2> QED
    BY <2>1, <2>2, <2>3
<1> QED
  BY <1>1, <1>2, Zenon DEF EncodeBody, FirePart, SoundPart

\* Where the tag of the sound is.
SoundAt(s) == 3 + FireWidth(s)

\* The bytes of an encoded body.
LEMMA BodyLayout ==
  ASSUME NEW s \in Storable
  PROVE  LET e == EncodeBody(s)
             at == SoundAt(s)
         IN /\ e \in Seq(Byte) /\ at \in Nat /\ at >= 3 /\ Len(e) \in Nat /\ Len(e) >= at
            /\ e[1] = IF s.armed THEN 1 ELSE 0
            /\ e[2] = IF s.next_fire = None THEN 0 ELSE 1
            /\ s.next_fire # None =>
                 \A i \in 1 .. FireBytes : e[2 + i] = ToLeBytes(s.next_fire, FireBytes)[i]
            /\ e[at] = IF s.sound = None THEN 0 ELSE 1
            /\ s.sound = None => Len(e) = at
            /\ s.sound # None =>
                 /\ Len(e) = at + LenBytes + Len(s.sound)
                 /\ \A i \in 1 .. LenBytes : e[at + i] = ToLeBytes(Len(s.sound), LenBytes)[i]
                 /\ \A i \in 1 .. Len(s.sound) : e[at + LenBytes + i] = s.sound[i]
<1> DEFINE e == EncodeBody(s)
           at == SoundAt(s)
           a == IF s.armed THEN 1 ELSE 0
           f == FirePart(s)
           z == SoundPart(s)
           h == <<a>> \o f
<1>1. <<a>> \in Seq(Byte) /\ Len(<<a>>) = 1 /\ <<a>>[1] = a
  BY OneByte
<1>2. f \in Seq(Byte) /\ FireWidth(s) \in Nat /\ Len(f) = 1 + FireWidth(s)
  BY FirePartFacts
<1>3. z \in Seq(Byte) /\ Len(z) \in Nat /\ Len(z) >= 1
  <2>1. s.sound # None => Len(s.sound) \in Nat /\ LenBytes \in Nat
    BY SoundPartFacts, CodecAssumption
  <2> QED
    BY <2>1, SoundPartFacts
<1>4. e = h \o z
  BY BodyParts
<1> HIDE DEF a, f, z, e
<1>5. /\ h \in Seq(Byte) /\ Len(h) = 2 + FireWidth(s)
      /\ h[1] = a /\ \A i \in 1 .. (1 + FireWidth(s)) : h[1 + i] = f[i]
  <2>1. /\ h \in Seq(Byte) /\ Len(h) = 1 + (1 + FireWidth(s))
        /\ \A i \in 1 .. 1 : h[i] = <<a>>[i]
        /\ \A i \in 1 .. (1 + FireWidth(s)) : h[1 + i] = f[i]
    BY <1>1, <1>2, Concat
  <2> HIDE DEF h
  <2> QED
    BY <1>1, <1>2, <2>1
<1> HIDE DEF h
<1>6. /\ e \in Seq(Byte) /\ Len(e) = (2 + FireWidth(s)) + Len(z)
      /\ \A i \in 1 .. (2 + FireWidth(s)) : e[i] = h[i]
      /\ \A i \in 1 .. Len(z) : e[(2 + FireWidth(s)) + i] = z[i]
  <2>1. /\ e \in Seq(Byte) /\ Len(e) = Len(h) + Len(z)
        /\ \A i \in 1 .. Len(h) : e[i] = h[i]
        /\ \A i \in 1 .. Len(z) : e[Len(h) + i] = z[i]
    BY <1>3, <1>4, <1>5, Concat, Zenon
  <2> QED
    BY <1>5, <2>1, Zenon
<1>7. at = 3 + FireWidth(s)
  BY DEF SoundAt
<1> HIDE DEF at
<1>8. at \in Nat /\ at >= 3 /\ Len(e) \in Nat /\ Len(e) = (at - 1) + Len(z) /\ Len(e) >= at
  BY <1>2, <1>3, <1>6, <1>7
<1>9. e[1] = a
  <2>1. 1 \in 1 .. (2 + FireWidth(s))
    BY <1>2
  <2> QED
    BY <1>5, <1>6, <2>1
<1>10. \A i \in 1 .. (1 + FireWidth(s)) : e[1 + i] = f[i]
  <2>1. \A i \in 1 .. (1 + FireWidth(s)) : 1 + i \in 1 .. (2 + FireWidth(s))
    BY <1>2
  <2> QED
    BY <1>5, <1>6, <2>1
<1>11. e[2] = f[1]
  <2>1. 1 \in 1 .. (1 + FireWidth(s)) /\ 1 + 1 = 2
    BY <1>2
  <2> QED
    BY <1>10, <2>1, Zenon
<1>12. s.next_fire # None =>
         \A i \in 1 .. FireBytes : e[2 + i] = ToLeBytes(s.next_fire, FireBytes)[i]
  <2> SUFFICES ASSUME s.next_fire # None, NEW i \in 1 .. FireBytes
               PROVE  e[2 + i] = ToLeBytes(s.next_fire, FireBytes)[i]
    OBVIOUS
  <2>1. FireWidth(s) = FireBytes /\ f[1 + i] = ToLeBytes(s.next_fire, FireBytes)[i]
    BY FirePartFacts DEF f
  <2>2. 1 + i \in 1 .. (1 + FireWidth(s)) /\ 1 + (1 + i) = 2 + i
    BY <1>2, <2>1
  <2> QED
    BY <1>10, <2>1, <2>2, Zenon
<1>13. \A i \in 0 .. (Len(z) - 1) : e[at + i] = z[1 + i]
  <2> SUFFICES ASSUME NEW i \in 0 .. (Len(z) - 1) PROVE e[at + i] = z[1 + i]
    OBVIOUS
  <2>1. 1 + i \in 1 .. Len(z) /\ (2 + FireWidth(s)) + (1 + i) = at + i
    BY <1>2, <1>3, <1>7
  <2> QED
    BY <1>6, <2>1, Zenon
<1>14. e[at] = z[1]
  <2>1. 0 \in 0 .. (Len(z) - 1) /\ at + 0 = at /\ 1 + 0 = 1
    BY <1>3, <1>8
  <2> QED
    BY <1>13, <2>1, Zenon
<1>15. s.sound # None =>
         /\ Len(e) = at + LenBytes + Len(s.sound)
         /\ \A i \in 1 .. LenBytes : e[at + i] = ToLeBytes(Len(s.sound), LenBytes)[i]
         /\ \A i \in 1 .. Len(s.sound) : e[at + LenBytes + i] = s.sound[i]
  <2> SUFFICES ASSUME s.sound # None
               PROVE  /\ Len(e) = at + LenBytes + Len(s.sound)
                      /\ \A i \in 1 .. LenBytes :
                           e[at + i] = ToLeBytes(Len(s.sound), LenBytes)[i]
                      /\ \A i \in 1 .. Len(s.sound) : e[at + LenBytes + i] = s.sound[i]
    OBVIOUS
  <2> DEFINE n == Len(s.sound)
  <2>1. n \in Nat /\ LenBytes \in Nat /\ Len(z) = 1 + LenBytes + n
    <3>1. s.sound \in Seq(Byte) /\ Len(z) = 1 + LenBytes + n
      BY SoundPartFacts, Zenon DEF z
    <3>2. n \in Nat
      BY <3>1
    <3> QED
      BY <3>1, <3>2, CodecAssumption
  <2>2. /\ \A i \in 1 .. LenBytes : z[1 + i] = ToLeBytes(Len(s.sound), LenBytes)[i]
        /\ \A i \in 1 .. n : z[1 + LenBytes + i] = s.sound[i]
    BY SoundPartFacts DEF z
  <2>3. ASSUME NEW i \in 1 .. LenBytes PROVE e[at + i] = z[1 + i]
    <3>1. i \in 0 .. (Len(z) - 1)
      <4> HIDE DEF n
      <4> QED
        BY <2>1
    <3> QED
      BY <1>13, <3>1, Zenon
  <2>4. ASSUME NEW i \in 1 .. n PROVE e[at + LenBytes + i] = z[1 + LenBytes + i]
    <3> HIDE DEF n
    <3>1. /\ LenBytes + i \in 0 .. (Len(z) - 1)
          /\ at + (LenBytes + i) = at + LenBytes + i
          /\ 1 + (LenBytes + i) = 1 + LenBytes + i
      BY <1>8, <2>1
    <3>2. e[at + (LenBytes + i)] = z[1 + (LenBytes + i)]
      BY <1>13, <3>1, Zenon
    <3> QED
      BY <3>1, <3>2, Zenon
  <2>5. Len(e) = at + LenBytes + n
    <3> HIDE DEF n
    <3> QED
      BY <1>8, <2>1
  <2> QED
    BY <2>2, <2>3, <2>4, <2>5, Zenon
<1>16. s.sound = None => Len(e) = at
  <2>1. s.sound = None => Len(z) = 1
    BY SoundPartFacts, Zenon DEF z
  <2>2. \A x \in Nat : (x - 1) + 1 = x
    OBVIOUS
  <2> QED
    BY <1>8, <2>1, <2>2, Zenon
<1>17. f[1] = IF s.next_fire = None THEN 0 ELSE 1
  BY FirePartFacts DEF f
<1>18. z[1] = IF s.sound = None THEN 0 ELSE 1
  BY SoundPartFacts DEF z
<1> QED
  BY <1>6, <1>8, <1>9, <1>11, <1>12, <1>14, <1>15, <1>16, <1>17, <1>18, Zenon DEF e, at, a

----
(* What is read back from an encoding, whole or cut off *)

\* p is what is left of e.
Cut(p, e) ==
  /\ p \in Seq(Byte) /\ Len(p) \in Nat /\ Len(p) <= Len(e)
  /\ \A i \in 1 .. Len(p) : p[i] = e[i]

\* The sound of a cut body: the one that was encoded, none, or an error.
LEMMA CutSound ==
  ASSUME NEW s \in Storable, NEW p, Cut(p, EncodeBody(s)), NEW armed, NEW fire
  PROVE  LET d == DecodeSound(p, SoundAt(s), armed, fire)
             R(x) == [armed |-> armed, next_fire |-> fire, sound |-> x]
         IN /\ d \in {Corrupted, R(None), R(s.sound)}
            /\ Len(p) = Len(EncodeBody(s)) => d = R(s.sound)
<1> DEFINE e == EncodeBody(s)
           at == SoundAt(s)
           d == DecodeSound(p, at, armed, fire)
           R(x) == [armed |-> armed, next_fire |-> fire, sound |-> x]
<1> SUFFICES d \in {Corrupted, R(None), R(s.sound)} /\ (Len(p) = Len(e) => d = R(s.sound))
  OBVIOUS
<1>1. /\ at \in Nat \ {0} /\ Len(e) \in Nat /\ Len(e) >= at
      /\ e[at] = IF s.sound = None THEN 0 ELSE 1
      /\ s.sound = None => Len(e) = at
  <2>1. /\ at \in Nat /\ at >= 3 /\ Len(e) \in Nat /\ Len(e) >= at
        /\ e[at] = IF s.sound = None THEN 0 ELSE 1
        /\ s.sound = None => Len(e) = at
    BY BodyLayout, Zenon
  <2> HIDE DEF e, at
  <2> QED
    BY <2>1
<1>2. /\ p \in Seq(Byte) /\ Len(p) \in Nat /\ Len(p) <= Len(e)
      /\ \A i \in 1 .. Len(p) : p[i] = e[i]
  BY DEF Cut
<1>3. /\ at > Len(p) => d = R(None)
      /\ at <= Len(p) /\ p[at] = 0 => d = R(None)
      /\ at <= Len(p) /\ HasId(p, at) => d = R(IdField(p, at))
      /\ at <= Len(p) /\ p[at] # 0 /\ ~HasId(p, at) => d = Corrupted
  <2> HIDE DEF at
  <2> QED
    BY <1>1, <1>2, DecodeSoundCases
<1>4. s.sound # None =>
        /\ Len(e) = at + LenBytes + Len(s.sound)
        /\ \A i \in 1 .. LenBytes : e[at + i] = ToLeBytes(Len(s.sound), LenBytes)[i]
        /\ \A i \in 1 .. Len(s.sound) : e[at + LenBytes + i] = s.sound[i]
  BY BodyLayout, Zenon
<1> HIDE DEF e, at, d, R
<1>5. at <= Len(p) => p[at] = e[at]
  BY <1>1, <1>2
<1>6. CASE at > Len(p)
  BY <1>1, <1>2, <1>3, <1>6
<1>7. CASE at <= Len(p) /\ s.sound = None
  BY <1>1, <1>3, <1>5, <1>7
<1>8. CASE at <= Len(p) /\ s.sound # None
  <2> DEFINE n == Len(s.sound)
  <2>1. p[at] = 1 /\ LenBytes \in Nat
    BY <1>1, <1>5, <1>8, CodecAssumption
  <2>2. s.sound \in Seq(Byte) /\ Utf8(s.sound) /\ n < Pow[LenBytes]
    BY <1>8, SoundPartFacts, Zenon
  <2>3. n \in Nat /\ Pow[LenBytes] \in Nat \ {0}
    <3>1. n \in Nat
      BY <2>2
    <3> QED
      BY <2>1, <3>1, PowFacts
  <2>4. Len(e) = at + LenBytes + n
    BY <1>4, <1>8, Zenon
  <2> DEFINE y == ToLeBytes(n, LenBytes)
  <2>y. y = [i \in 1 .. LenBytes |-> y[i]] /\ FromLeBytes(y) = n
    <3>1. n \in Int
      BY <2>3
    <3>2. y = [i \in 1 .. LenBytes |-> ((n % Pow[LenBytes]) \div Pow[i - 1]) % Base]
      BY <2>1, <3>1, ToLeBytesType, Zenon
    <3>3. FromLeBytes(y) = n % Pow[LenBytes]
      BY <2>1, <3>1, BytesRoundTrip, Zenon
    <3>4. \A x, w \in Nat : w # 0 /\ x < w => x % w = x
      OBVIOUS
    <3>5. n % Pow[LenBytes] = n
      <4> HIDE DEF n
      <4> QED
        BY <2>2, <2>3, <3>4
    <3> QED
      BY <3>2, <3>3, <3>5, Zenon
  <2>5. \A i \in 1 .. LenBytes : e[at + i] = y[i]
    BY <1>4, <1>8, Zenon
  <2>6. \A i \in 1 .. n : e[at + LenBytes + i] = s.sound[i]
    BY <1>4, <1>8, Zenon
  <2> HIDE DEF n, y
  <2>7. ASSUME Len(p) >= at + LenBytes PROVE LenField(p, at) = n
    <3>1. SubSeq(p, at + 1, at + LenBytes) = [i \in 1 .. LenBytes |-> p[at + i]]
      BY <1>1, <1>2, <2>1, <2>7, Slice
    <3>2. \A i \in 1 .. LenBytes : p[at + i] = y[i]
      <4>1. \A i \in 1 .. LenBytes : at + i \in 1 .. Len(p)
        BY <1>1, <1>2, <2>1, <2>7
      <4> QED
        BY <1>2, <2>5, <4>1, Zenon
    <3>3. SubSeq(p, at + 1, at + LenBytes) = y
      BY <2>y, <3>1, <3>2, Zenon
    <3> QED
      BY <2>y, <3>3, Zenon DEF LenField
  <2>8. CASE Len(p) < Len(e)
    <3>1. ~HasId(p, at)
      <4>1. CASE Len(p) < at + LenBytes
        BY <1>1, <1>2, <2>1, <4>1 DEF HasId
      <4>2. CASE Len(p) >= at + LenBytes
        <5>1. LenField(p, at) = n
          BY <2>7, <4>2
        <5>2. Len(p) < at + LenBytes + n
          BY <2>4, <2>8
        <5> QED
          BY <1>1, <1>2, <2>1, <2>3, <5>1, <5>2 DEF HasId
      <4> QED
        BY <1>1, <1>2, <2>1, <4>1, <4>2
    <3> QED
      BY <1>2, <1>3, <1>8, <2>1, <2>8, <3>1
  <2>9. CASE Len(p) = Len(e)
    <3>1. Len(p) = (at + LenBytes) + n /\ Len(p) >= at + LenBytes /\ at + LenBytes \in Nat
      BY <1>1, <2>1, <2>3, <2>4, <2>9
    <3>2. LenField(p, at) = n
      BY <2>7, <3>1
    <3>3. IdField(p, at) = [i \in 1 .. n |-> p[(at + LenBytes) + i]]
      <4>1. IdField(p, at) = SubSeq(p, (at + LenBytes) + 1, (at + LenBytes) + n)
        BY <3>2, Zenon DEF IdField
      <4>2. (at + LenBytes) + n <= Len(p)
        BY <1>2, <3>1
      <4>3. SubSeq(p, (at + LenBytes) + 1, (at + LenBytes) + n)
              = [i \in 1 .. n |-> p[(at + LenBytes) + i]]
        BY <1>2, <2>3, <3>1, <4>2, Slice
      <4> QED
        BY <4>1, <4>3, Zenon
    <3>4. \A i \in 1 .. n : p[(at + LenBytes) + i] = s.sound[i]
      <4>1. \A i \in 1 .. n : (at + LenBytes) + i \in 1 .. Len(p)
        BY <2>3, <3>1
      <4> QED
        BY <1>2, <2>6, <4>1, Zenon
    <3>5. IdField(p, at) = s.sound
      <4>1. s.sound = [i \in 1 .. n |-> s.sound[i]]
        BY <2>2 DEF n
      <4> QED
        BY <3>3, <3>4, <4>1, Zenon
    <3>6. HasId(p, at)
      BY <2>1, <2>2, <2>3, <3>1, <3>2, <3>5 DEF HasId
    <3> QED
      BY <1>3, <1>8, <2>9, <3>5, <3>6, Zenon
  <2> QED
    BY <1>1, <1>2, <2>8, <2>9
<1> QED
  BY <1>1, <1>2, <1>6, <1>7, <1>8

\* d is what may come of the remains p of an encoding e of s.
ReadBack(d, s, p, e) ==
  /\ d # Corrupted => d.next_fire \in {None, s.next_fire} /\ d.sound \in {None, s.sound}
  /\ Len(p) = Len(e) => d = s

\* d is not armed unless s was.
KeptArmed(d, s) == d # Corrupted => (d.armed => s.armed)

\* A state that lost its fields.
LEMMA FieldsLost ==
  ASSUME NEW s, NEW p, NEW e, NEW a, Len(p) # Len(e)
  PROVE  /\ ReadBack(Corrupted, s, p, e)
         /\ ReadBack(Default, s, p, e)
         /\ ReadBack([Default EXCEPT !.armed = a], s, p, e)
BY DEF ReadBack, Default

\* A cut body yields what was encoded, less than that, or an error.
LEMMA CutBody ==
  ASSUME NEW s \in Storable, NEW p, Cut(p, EncodeBody(s))
  PROVE  ReadBack(DecodeBody(p), s, p, EncodeBody(s)) /\ KeptArmed(DecodeBody(p), s)
<1> DEFINE e == EncodeBody(s)
           at == SoundAt(s)
           a == p[1] # 0
           d == DecodeBody(p)
<1>1. /\ Len(e) \in Nat /\ Len(e) >= at /\ at \in Nat /\ at >= 3
      /\ e[1] = IF s.armed THEN 1 ELSE 0
      /\ e[2] = IF s.next_fire = None THEN 0 ELSE 1
      /\ s.next_fire # None =>
           \A i \in 1 .. FireBytes : e[2 + i] = ToLeBytes(s.next_fire, FireBytes)[i]
  BY BodyLayout, Zenon
<1>2. /\ p \in Seq(Byte) /\ Len(p) \in Nat /\ Len(p) <= Len(e)
      /\ \A i \in 1 .. Len(p) : p[i] = e[i]
  BY DEF Cut
<1>3. /\ Len(p) = 0 => d = Default
      /\ Len(p) = 1 => d = [Default EXCEPT !.armed = a]
      /\ Len(p) >= 2 /\ p[2] = 0 => d = DecodeSound(p, 3, a, None)
      /\ Len(p) >= 2 /\ p[2] = 1 /\ Len(p) >= 2 + FireBytes =>
           d = DecodeSound(p, 3 + FireBytes, a, FireField(p))
      /\ Len(p) >= 2 /\ p[2] # 0 /\ ~ (p[2] = 1 /\ Len(p) >= 2 + FireBytes) => d = Corrupted
  BY <1>2, DecodeBodyCases, Zenon
<1>4. FireBytes \in Nat /\ at = 3 + FireWidth(s)
  BY CodecAssumption DEF SoundAt
<1> HIDE DEF e, at, a, d
<1>5. Len(p) >= 1 => a = s.armed
  <2>1. Len(p) >= 1 => p[1] = e[1]
    BY <1>2
  <2>2. s.armed \in BOOLEAN
    BY DEF Storable
  <2> QED
    BY <1>1, <2>1, <2>2 DEF a
<1>6. CASE Len(p) < 2
  <2>1. Len(p) # Len(e)
    BY <1>1, <1>2, <1>6
  <2>2. \A n \in Nat : n < 2 => n = 0 \/ n = 1
    OBVIOUS
  <2>3. d = Default \/ d = [Default EXCEPT !.armed = a]
    BY <1>2, <1>3, <1>6, <2>2, Zenon
  <2>4. ReadBack(Default, s, p, e) /\ ReadBack([Default EXCEPT !.armed = a], s, p, e)
    BY <2>1, FieldsLost
  <2>5. KeptArmed(Default, s)
    BY DEF KeptArmed, Default
  <2>6. Len(p) = 1 => KeptArmed([Default EXCEPT !.armed = a], s)
    <3>1. [Default EXCEPT !.armed = a].armed = a
      BY DEF Default
    <3>2. Len(p) = 1 => a = s.armed
      BY <1>5
    <3> QED
      BY <3>1, <3>2, Zenon DEF KeptArmed
  <2>7. Len(p) = 0 => d = Default
    BY <1>3, Zenon
  <2> QED
    BY <1>2, <1>6, <2>2, <2>3, <2>4, <2>5, <2>6, <2>7, Zenon DEF e, d
<1>7. ASSUME Len(p) >= 2, d = DecodeSound(p, at, a, s.next_fire)
      PROVE  ReadBack(d, s, p, e) /\ KeptArmed(d, s)
  <2> DEFINE R(x) == [armed |-> a, next_fire |-> s.next_fire, sound |-> x]
  <2>1. d \in {Corrupted, R(None), R(s.sound)} /\ (Len(p) = Len(e) => d = R(s.sound))
    <3>1. /\ DecodeSound(p, SoundAt(s), a, s.next_fire) \in {Corrupted, R(None), R(s.sound)}
          /\ Len(p) = Len(EncodeBody(s)) => DecodeSound(p, SoundAt(s), a, s.next_fire) = R(s.sound)
      BY CutSound
    <3> HIDE DEF R
    <3> QED
      BY <1>7, <3>1, Zenon DEF e, at
  <2>2. R(s.sound) = s
    BY <1>2, <1>5, <1>7 DEF Storable
  <2>3. \A x : R(x).next_fire = s.next_fire /\ R(x).sound = x /\ R(x).armed = a
    OBVIOUS
  <2>4. a = s.armed
    BY <1>2, <1>5, <1>7
  <2> HIDE DEF R
  <2> QED
    BY <2>1, <2>2, <2>3, <2>4, Zenon DEF ReadBack, KeptArmed
<1>8. CASE Len(p) >= 2 /\ s.next_fire = None
  <2>1. p[2] = 0 /\ at = 3
    <3>1. p[2] = e[2]
      BY <1>2, <1>8
    <3> QED
      BY <1>1, <1>4, <1>8, <3>1 DEF FireWidth
  <2> QED
    BY <1>3, <1>7, <1>8, <2>1, Zenon DEF d, e
<1>9. CASE Len(p) >= 2 /\ s.next_fire # None
  <2>1. p[2] = 1 /\ at = 3 + FireBytes
    <3>1. p[2] = e[2]
      BY <1>2, <1>9
    <3> QED
      BY <1>1, <1>4, <1>9, <3>1 DEF FireWidth
  <2>2. CASE Len(p) < 2 + FireBytes
    <3>1. d = Corrupted
      BY <1>2, <1>3, <1>4, <1>9, <2>1, <2>2
    <3>2. Len(p) # Len(e)
      BY <1>1, <1>2, <1>4, <2>1, <2>2
    <3> QED
      BY <3>1, <3>2, FieldsLost, Zenon DEF d, e, KeptArmed
  <2>3. CASE Len(p) >= 2 + FireBytes
    <3> DEFINE v == s.next_fire
               y == ToLeBytes(v, FireBytes)
    <3>1. v \in Int /\ Signed(v % Pow[FireBytes], FireBytes) = v
      BY <1>9 DEF Storable
    <3>2. /\ y = [i \in 1 .. FireBytes |-> ((v % Pow[FireBytes]) \div Pow[i - 1]) % Base]
          /\ FromLeBytes(y) = v % Pow[FireBytes]
      BY <1>4, <3>1, ToLeBytesType, BytesRoundTrip, Zenon
    <3>3. \A i \in 1 .. FireBytes : e[2 + i] = y[i]
      BY <1>1, <1>9, Zenon
    <3>4. y = [i \in 1 .. FireBytes |-> y[i]]
      BY <3>2, Zenon
    <3> HIDE DEF v, y
    <3>5. SubSeq(p, 3, 2 + FireBytes) = y
      <4>1. SubSeq(p, 2 + 1, 2 + FireBytes) = [i \in 1 .. FireBytes |-> p[2 + i]]
        BY <1>2, <1>4, <2>3, Slice
      <4>2. 2 + 1 = 3 /\ \A i \in 1 .. FireBytes : 2 + i \in 1 .. Len(p)
        BY <1>2, <1>4, <2>3
      <4>3. \A i \in 1 .. FireBytes : p[2 + i] = y[i]
        BY <1>2, <3>3, <4>2, Zenon
      <4> QED
        BY <3>4, <4>1, <4>2, <4>3, Zenon
    <3>6. FireField(p) = v
      BY <3>1, <3>2, <3>5, Zenon DEF FireField
    <3>7. d = DecodeSound(p, at, a, s.next_fire)
      BY <1>3, <1>9, <2>1, <2>3, <3>6, Zenon DEF v
    <3> QED
      BY <1>7, <1>9, <3>7, Zenon DEF d, e
  <2> QED
    BY <1>2, <1>4, <2>2, <2>3
<1> QED
  BY <1>2, <1>6, <1>8, <1>9

\* A body without prefix is never taken for the versioned form: its first byte
\* is a Boolean.
LEMMA CutLegacy ==
  ASSUME NEW s \in Storable, NEW p, Cut(p, EncodeBody(s))
  PROVE  ReadBack(DecodeState(p), s, p, EncodeBody(s)) /\ KeptArmed(DecodeState(p), s)
<1>1. p \in Seq(Byte) /\ Len(p) \in Nat /\ \A i \in 1 .. Len(p) : p[i] = EncodeBody(s)[i]
  BY DEF Cut
<1>2. EncodeBody(s)[1] = IF s.armed THEN 1 ELSE 0
  BY BodyLayout, Zenon
<1>3. ASSUME Len(p) >= 3 PROVE SubSeq(p, 1, 2) # SCHEMA_MAGIC
  <2>1. p[1] # Base - 2
    <3>1. p[1] = EncodeBody(s)[1]
      BY <1>1, <1>3
    <3> QED
      BY <1>2, <3>1, CodecAssumption
  <2>2. SubSeq(p, 1, 2)[1] = p[1]
    BY <1>1, <1>3
  <2>3. SCHEMA_MAGIC[1] = Base - 2
    BY DEF SCHEMA_MAGIC
  <2> QED
    BY <2>1, <2>2, <2>3, Zenon
<1>4. DecodeState(p) = DecodeBody(p)
  BY <1>3, Zenon DEF DecodeState
<1> QED
  BY <1>4, CutBody, Zenon

Prefix == SCHEMA_MAGIC \o <<SCHEMA_VERSION>>

\* The prefix of the versioned form.
LEMMA PrefixFacts ==
  /\ Prefix \in Seq(Byte) /\ Len(Prefix) = 3
  /\ Prefix[1] = Base - 2 /\ Prefix[2] = Base - 1 /\ Prefix[3] = 1
<1>1. Base - 2 \in Byte /\ Base - 1 \in Byte /\ 1 \in Byte
  BY CodecAssumption DEF Byte
<1> DEFINE x == SCHEMA_MAGIC
           y == <<SCHEMA_VERSION>>
<1>2. x \in Seq(Byte) /\ Len(x) = 2 /\ x[1] = Base - 2 /\ x[2] = Base - 1
  BY <1>1 DEF SCHEMA_MAGIC
<1>3. y \in Seq(Byte) /\ Len(y) = 1 /\ y[1] = 1
  BY <1>1 DEF SCHEMA_VERSION
<1> HIDE DEF x, y
<1>4. /\ x \o y \in Seq(Byte) /\ Len(x \o y) = 2 + 1
      /\ \A i \in 1 .. 2 : (x \o y)[i] = x[i]
      /\ \A i \in 1 .. 1 : (x \o y)[2 + i] = y[i]
  <2>1. /\ x \o y \in Seq(Byte) /\ Len(x \o y) = Len(x) + Len(y)
        /\ \A i \in 1 .. Len(x) : (x \o y)[i] = x[i]
        /\ \A i \in 1 .. Len(y) : (x \o y)[Len(x) + i] = y[i]
    BY <1>2, <1>3, Concat, Zenon
  <2> QED
    BY <1>2, <1>3, <2>1, Zenon
<1>5. 1 \in 1 .. 2 /\ 2 \in 1 .. 2 /\ 1 \in 1 .. 1 /\ 2 + 1 = 3
  OBVIOUS
<1>6. Prefix = x \o y
  BY DEF Prefix, x, y
<1> QED
  BY <1>2, <1>3, <1>4, <1>5, <1>6, Zenon

\* A cut value of the versioned form.  Its first byte alone passes for a legacy
\* body that is armed.
LEMMA CutState ==
  ASSUME NEW s \in Storable, NEW p, Cut(p, EncodeState(s))
  PROVE  /\ ReadBack(DecodeState(p), s, p, EncodeState(s))
         /\ KeptArmed(DecodeState(p), s) \/ p = <<SCHEMA_MAGIC[1]>>
<1> DEFINE e == EncodeState(s)
           w == EncodeBody(s)
<1>1. w \in Seq(Byte) /\ Len(w) \in Nat
  BY BodyLayout, Zenon
<1>2. e = Prefix \o w
  BY DEF EncodeState, Prefix
<1> HIDE DEF e, w
<1>3. /\ e \in Seq(Byte) /\ Len(e) = 3 + Len(w)
      /\ e[1] = Base - 2 /\ e[2] = Base - 1 /\ e[3] = 1
      /\ \A i \in 1 .. Len(w) : e[3 + i] = w[i]
  <2>1. /\ e \in Seq(Byte) /\ Len(e) = 3 + Len(w)
        /\ \A i \in 1 .. 3 : e[i] = Prefix[i]
        /\ \A i \in 1 .. Len(w) : e[3 + i] = w[i]
    <3>1. /\ e \in Seq(Byte) /\ Len(e) = Len(Prefix) + Len(w)
          /\ \A i \in 1 .. Len(Prefix) : e[i] = Prefix[i]
          /\ \A i \in 1 .. Len(w) : e[Len(Prefix) + i] = w[i]
      BY <1>1, <1>2, PrefixFacts, Concat, Zenon
    <3> QED
      BY <3>1, PrefixFacts, Zenon
  <2>2. 1 \in 1 .. 3 /\ 2 \in 1 .. 3 /\ 3 \in 1 .. 3
    OBVIOUS
  <2> QED
    BY <2>1, <2>2, PrefixFacts, Zenon
<1>4. /\ p \in Seq(Byte) /\ Len(p) \in Nat /\ Len(p) <= Len(e)
      /\ \A i \in 1 .. Len(p) : p[i] = e[i]
  BY DEF Cut, e
<1>5. CASE Len(p) >= 3
  <2>1. p[1] = Base - 2 /\ p[2] = Base - 1 /\ p[3] = 1
    BY <1>3, <1>4, <1>5
  <2>2. SubSeq(p, 1, 2) = SCHEMA_MAGIC
    <3>1. SubSeq(p, 0 + 1, 0 + 2) \in Seq(Byte) /\ Len(SubSeq(p, 0 + 1, 0 + 2)) = 2
          /\ SubSeq(p, 0 + 1, 0 + 2) = [k \in 1 .. 2 |-> p[0 + k]]
      BY <1>4, <1>5, Slice
    <3>2. 0 + 1 = 1 /\ 0 + 2 = 2 /\ \A k \in 1 .. 2 : 0 + k = k /\ (k = 1 \/ k = 2)
      OBVIOUS
    <3>3. SubSeq(p, 1, 2) = [k \in 1 .. 2 |-> p[k]]
      BY <3>1, <3>2, Zenon
    <3>4. SCHEMA_MAGIC = [k \in 1 .. 2 |-> SCHEMA_MAGIC[k]]
      BY DEF SCHEMA_MAGIC
    <3>5. SCHEMA_MAGIC[1] = Base - 2 /\ SCHEMA_MAGIC[2] = Base - 1
      BY DEF SCHEMA_MAGIC
    <3>6. \A k \in 1 .. 2 : p[k] = SCHEMA_MAGIC[k]
      BY <2>1, <3>2, <3>5, Zenon
    <3> QED
      BY <3>3, <3>4, <3>6, Zenon
  <2> DEFINE n == Len(p) - 3
             q == SubSeq(p, 4, Len(p))
  <2>3. n \in Nat /\ 3 + n = Len(p) /\ 3 + 1 = 4 /\ n <= Len(w)
    BY <1>1, <1>3, <1>4, <1>5
  <2>4. DecodeState(p) = DecodeBody(q)
    BY <1>5, <2>1, <2>2 DEF DecodeState, SCHEMA_VERSION
  <2>5. q \in Seq(Byte) /\ Len(q) = n /\ q = [i \in 1 .. n |-> p[3 + i]]
    <3> HIDE DEF n
    <3>1. /\ SubSeq(p, 3 + 1, 3 + n) \in Seq(Byte) /\ Len(SubSeq(p, 3 + 1, 3 + n)) = n
          /\ SubSeq(p, 3 + 1, 3 + n) = [i \in 1 .. n |-> p[3 + i]]
      BY <1>4, <2>3, Slice
    <3> QED
      BY <2>3, <3>1, Zenon
  <2> HIDE DEF n, q
  <2>6. Cut(q, w)
    <3>1. \A i \in 1 .. n : i \in 1 .. Len(w) /\ 3 + i \in 1 .. Len(p)
      BY <1>1, <1>4, <2>3
    <3>2. \A i \in 1 .. n : q[i] = w[i]
      BY <1>3, <1>4, <2>5, <3>1, Zenon
    <3> QED
      BY <2>3, <2>5, <3>2, Zenon DEF Cut
  <2>7. ReadBack(DecodeBody(q), s, q, w) /\ KeptArmed(DecodeBody(q), s)
    BY <2>6, CutBody, Zenon DEF w
  <2>8. Len(p) = Len(e) => Len(q) = Len(w)
    BY <1>1, <1>3, <1>4, <2>3, <2>5
  <2> QED
    BY <2>4, <2>7, <2>8, Zenon DEF ReadBack, e
<1>6. CASE Len(p) < 3
  <2>1. Len(p) # Len(e)
    BY <1>1, <1>3, <1>4, <1>6
  <2>2. DecodeState(p) = DecodeBody(p)
    BY <1>4, <1>6 DEF DecodeState
  <2>3. \A n \in Nat : n < 3 => n = 0 \/ n = 1 \/ n = 2
    OBVIOUS
  <2>4. Len(p) = 2 => /\ Len(p) >= 2 /\ p[2] # 0 /\ p[2] # 1
    <3>1. Len(p) = 2 => p[2] = e[2]
      BY <1>4
    <3> QED
      BY <1>3, <1>4, <3>1, CodecAssumption
  <2> DEFINE a == p[1] # 0
  <2>5. \/ DecodeBody(p) = Default
        \/ DecodeBody(p) = [Default EXCEPT !.armed = a]
        \/ DecodeBody(p) = Corrupted
    BY <1>4, <1>6, <2>3, <2>4, DecodeBodyCases, Zenon
  <2> HIDE DEF a
  <2>6. /\ ReadBack(Default, s, p, e) /\ ReadBack([Default EXCEPT !.armed = a], s, p, e)
        /\ ReadBack(Corrupted, s, p, e)
    BY <2>1, FieldsLost
  <2> QED
    <3>1. KeptArmed(Default, s) /\ KeptArmed(Corrupted, s)
      BY DEF KeptArmed, Default
    <3>2. Len(p) = 1 => p = <<SCHEMA_MAGIC[1]>>
      <4>1. Len(p) = 1 => p[1] = Base - 2
        BY <1>3, <1>4
      <4> QED
        BY <1>4, <4>1 DEF SCHEMA_MAGIC
    <3>3. /\ Len(p) = 0 => DecodeBody(p) = Default
          /\ Len(p) = 2 => DecodeBody(p) = Corrupted
      BY <1>4, <2>4, DecodeBodyCases, Zenon
    <3> QED
      BY <1>4, <1>6, <2>2, <2>3, <2>5, <2>6, <3>1, <3>2, <3>3, Zenon DEF e
<1> QED
  BY <1>4, <1>5, <1>6

\* The encodings are byte strings, and whole ones are not cut.
LEMMA EncodedType ==
  ASSUME NEW s \in Storable
  PROVE  /\ EncodeBody(s) \in Seq(Byte) /\ Cut(EncodeBody(s), EncodeBody(s))
         /\ EncodeState(s) \in Seq(Byte) /\ Cut(EncodeState(s), EncodeState(s))
<1>1. EncodeBody(s) \in Seq(Byte)
  BY BodyLayout, Zenon
<1>2. EncodeState(s) = Prefix \o EncodeBody(s)
  BY DEF EncodeState, Prefix
<1>3. EncodeState(s) \in Seq(Byte)
  BY <1>1, <1>2, PrefixFacts, Concat
<1>4. \A e \in Seq(Byte) : Cut(e, e)
  BY DEF Cut
<1> QED
  BY <1>1, <1>3, <1>4

\* What the layout can represent survives a save and a load.
LEMMA StorableRoundTrip ==
  ASSUME NEW s \in Storable
  PROVE  DecodeState(EncodeState(s)) = s /\ DecodeState(EncodeBody(s)) = s
BY EncodedType, CutState, CutLegacy, Zenon DEF ReadBack

\* Every state of the daemon is one of these.
LEMMA PersistedIsStorable == PersistedState \subseteq Storable
<1>1. LenBytes \in Nat /\ FireBytes \in Nat /\ MaxSound \in Nat /\ MaxSound < Pow[LenBytes]
  BY CodecAssumption
<1>2. Pow[FireBytes] \in Nat \ {0} /\ Pow[LenBytes] \in Nat
  BY <1>1, PowFacts
<1>3. ASSUME NEW v \in Fire PROVE v \in Int /\ Signed(v % Pow[FireBytes], FireBytes) = v
  <2> DEFINE p == Pow[FireBytes]
             k == p \div 2
  <2>1. k \in Nat /\ 2 * k <= p /\ v \in Int /\ -k <= v /\ v <= k - 1
    BY <1>2, <1>3 DEF Fire
  <2>2. CASE v >= 0
    <3>1. v % p = v /\ ~ (2 * v >= p)
      <4> HIDE DEF k
      <4> QED
        BY <1>2, <2>1, <2>2
    <3> QED
      BY <2>1, <3>1, Zenon DEF Signed
  <2>3. CASE v < 0
    <3>1. v % p = v + p /\ 2 * (v + p) >= p /\ (v + p) - p = v
      <4> HIDE DEF k
      <4> QED
        BY <1>2, <2>1, <2>3
    <3> QED
      BY <2>1, <3>1, Zenon DEF Signed
  <2> QED
    BY <2>1, <2>2, <2>3
<1>4. ASSUME NEW id \in SoundId PROVE id \in Seq(Byte) /\ Utf8(id) /\ Len(id) < Pow[LenBytes]
  <2>1. PICK n \in 0 .. MaxSound : id \in [1 .. n -> Byte]
    BY <1>4 DEF SoundId
  <2>2. n \in Nat /\ id \in Seq(Byte) /\ Len(id) = n
    BY <1>1, <2>1
  <2>3. n < Pow[LenBytes]
    BY <1>1, <1>2, <2>1
  <2> QED
    BY <1>4, <2>2, <2>3 DEF SoundId
<1> QED
  BY <1>3, <1>4 DEF PersistedState, Storable

----
(* The stored value *)

\* raw is a byte string, and as long as it is known whose encoding it is, it is
\* that encoding, of either layout, whole or cut.
IInv ==
  /\ raw \in Seq(Byte) /\ cut \in BOOLEAN
  /\ saved = None => ~cut
  /\ saved # None =>
       /\ saved \in PersistedState
       /\ \E e \in {EncodeState(saved), EncodeBody(saved)} :
            Cut(raw, e) /\ (~cut => Len(raw) = Len(e))

\* Nothing is stored at the start.
LEMMA InitInv == Init => IInv
<1>1. <<>> \in Seq(Byte)
  OBVIOUS
<1> QED
  BY <1>1 DEF Init, IInv

\* Saves, damage and foreign values keep the invariant.
LEMMA NextInv ==
  ASSUME IInv, [Next]_vars
  PROVE  IInv'
<1>1. ASSUME NEW s \in PersistedState, Save(s) \/ LegacySave(s) PROVE IInv'
  <2> DEFINE e == raw'
  <2>1. s \in Storable /\ s # None
    BY PersistedIsStorable, AbsentAssumption
  <2>2. e \in {EncodeState(s), EncodeBody(s)} /\ saved' = s /\ cut' = FALSE
    BY <1>1, Zenon DEF Save, LegacySave
  <2>3. e \in Seq(Byte) /\ Cut(e, e)
    BY <2>1, <2>2, EncodedType, Zenon
  <2> QED
    BY <1>1, <2>1, <2>2, <2>3, Zenon DEF IInv
<1>2. CASE Truncate
  <2>1. PICK n \in 0 .. Len(raw) - 1 : raw' = SubSeq(raw, 1, n)
    BY <1>2 DEF Truncate
  <2>2. saved # None /\ saved' = saved /\ cut' = TRUE
    BY <1>2 DEF Truncate
  <2>3. PICK e \in {EncodeState(saved), EncodeBody(saved)} : Cut(raw, e)
    BY <2>2, Zenon DEF IInv
  <2>4. /\ raw \in Seq(Byte) /\ Len(raw) \in Nat /\ n \in Nat /\ n <= Len(raw)
        /\ 0 + 1 = 1 /\ 0 + n = n /\ 0 \in Nat
        /\ \A i \in 1 .. n : i \in 1 .. Len(raw) /\ 0 + i = i
    BY <2>1, <2>3 DEF Cut
  <2>5. raw' \in Seq(Byte) /\ Len(raw') = n /\ raw' = [i \in 1 .. n |-> raw[0 + i]]
    <3>1. /\ SubSeq(raw, 0 + 1, 0 + n) \in Seq(Byte) /\ Len(SubSeq(raw, 0 + 1, 0 + n)) = n
          /\ SubSeq(raw, 0 + 1, 0 + n) = [i \in 1 .. n |-> raw[0 + i]]
      BY <2>4, Slice
    <3> QED
      BY <2>1, <2>4, <3>1, Zenon
  <2>6. \A i \in 1 .. n : raw'[i] = e[i]
    BY <2>3, <2>4, <2>5, Zenon DEF Cut
  <2>7. n <= Len(e)
    <3>1. e \in Seq(Byte)
      <4>1. saved \in Storable
        BY <2>2, PersistedIsStorable, Zenon DEF IInv
      <4> QED
        BY <2>3, <4>1, EncodedType, Zenon
    <3> QED
      BY <2>3, <2>4, <3>1 DEF Cut
  <2>8. Cut(raw', e)
    BY <2>4, <2>5, <2>6, <2>7, Zenon DEF Cut
  <2> QED
    BY <2>2, <2>3, <2>5, <2>8, Zenon DEF IInv
<1>3. ASSUME NEW b \in Byte, Foreign(b) PROVE IInv'
  <2>1. raw' = Append(raw, b) /\ saved = None /\ UNCHANGED <<saved, cut>>
    BY <1>3 DEF Foreign
  <2>2. raw' \in Seq(Byte)
    BY <2>1 DEF IInv
  <2> QED
    BY <2>1, <2>2, Zenon DEF IInv
<1>4. CASE UNCHANGED vars
  BY <1>4, Zenon DEF IInv, vars, Cut
<1> QED
  BY <1>1, <1>2, <1>3, <1>4 DEF Next

\* The three properties follow from the invariant.
LEMMA InvRoundTrip == IInv => RoundTrip
<1> SUFFICES ASSUME IInv, saved # None, ~cut PROVE DecodeState(raw) = saved
  BY DEF RoundTrip
<1>1. saved \in Storable
  BY PersistedIsStorable, Zenon DEF IInv
<1>2. PICK e \in {EncodeState(saved), EncodeBody(saved)} : Cut(raw, e) /\ Len(raw) = Len(e)
  BY Zenon DEF IInv
<1> QED
  BY <1>1, <1>2, CutState, CutLegacy, Zenon DEF ReadBack

LEMMA InvCanonical == IInv => DecodeIsCanonical
<1> DEFINE s == DecodeState(raw)
<1> SUFFICES ASSUME IInv, s # Corrupted
             PROVE  (s.sound # None => Utf8(s.sound)) /\ DecodeState(EncodeState(s)) = s
  BY DEF DecodeIsCanonical
<1>1. raw \in Seq(Byte)
  BY DEF IInv
<1>2. s \in Storable
  <2>1. CASE Len(raw) >= 3 /\ SubSeq(raw, 1, 2) = SCHEMA_MAGIC
    <3>1. s = DecodeBody(SubSeq(raw, 4, Len(raw)))
      BY <2>1, Zenon DEF DecodeState
    <3>2. SubSeq(raw, 4, Len(raw)) \in Seq(Byte)
      BY <1>1, <2>1
    <3> QED
      BY <3>1, <3>2, DecodedIsStorable, Zenon
  <2>2. CASE ~ (Len(raw) >= 3 /\ SubSeq(raw, 1, 2) = SCHEMA_MAGIC)
    <3>1. s = DecodeBody(raw)
      BY <2>2, Zenon DEF DecodeState
    <3> QED
      BY <1>1, <3>1, DecodedIsStorable, Zenon
  <2> QED
    BY <2>1, <2>2
<1> HIDE DEF s
<1>3. s.sound # None => Utf8(s.sound)
  BY <1>2 DEF Storable
<1> QED
  BY <1>2, <1>3, StorableRoundTrip

LEMMA InvTruncation == IInv => TruncationInventsNothing
<1> DEFINE s == DecodeState(raw)
<1> SUFFICES ASSUME IInv, cut, s # Corrupted
             PROVE  /\ s.next_fire \in {None, saved.next_fire}
                    /\ s.sound \in {None, saved.sound}
                    /\ s.armed => saved.armed \/ raw = <<SCHEMA_MAGIC[1]>>
  BY DEF TruncationInventsNothing
<1>1. saved # None /\ saved \in Storable
  BY PersistedIsStorable, Zenon DEF IInv
<1>2. PICK e \in {EncodeState(saved), EncodeBody(saved)} : Cut(raw, e)
  BY <1>1, Zenon DEF IInv
<1>3. ReadBack(s, saved, raw, e) /\ (KeptArmed(s, saved) \/ raw = <<SCHEMA_MAGIC[1]>>)
  BY <1>1, <1>2, CutState, CutLegacy, Zenon
<1> QED
  BY <1>3, Zenon DEF ReadBack, KeptArmed

\* encode_state and decode_state are inverse on every state the daemon can hold,
\* in the versioned layout and in the legacy one, for any byte base, any width
\* of the fire time and of the length, and every sound id that fits the length.
THEOREM SavedIsLoaded == Spec => []RoundTrip
BY InitInv, NextInv, InvRoundTrip, PTL DEF Spec

\* Every byte string that decode_state accepts, written by whomever and however
\* long, gives a state with a well-formed sound id that the next save keeps.
THEOREM AcceptedIsCanonical == Spec => []DecodeIsCanonical
BY InitInv, NextInv, InvCanonical, PTL DEF Spec

\* A value that lost its tail anywhere, once or often, gives no fire time and no
\* sound but the saved ones, and is armed only if the saved state was, or if
\* nothing but the first byte of the magic is left.
THEOREM DamageInventsNothing == Spec => []TruncationInventsNothing
BY InitInv, NextInv, InvTruncation, PTL DEF Spec
====
