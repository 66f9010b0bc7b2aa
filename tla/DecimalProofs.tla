---------------------------- MODULE DecimalProofs ----------------------------
(***************************************************************************)
(* The decimal algorithms, proved for amounts of any length: comparison    *)
(* and multiplication agree with what the digits mean, digit by digit, in  *)
(* units of any place that is fine enough.                                 *)
(*                                                                         *)
(* A recursive function is the choice of a function that satisfies its     *)
(* equation, so each is first shown to exist (PrefixRecursion,             *)
(* Recursion), and is known from then on by its equation.                  *)
(***************************************************************************)
EXTENDS Decimals, SequenceTheorems, WellFoundedInduction, TLAPS

-----------------------------------------------------------------------------
(* Induction and recursion on the naturals. *)

\* A set with zero that has with each natural number the next has them all.
LEMMA SetInduction ==
    ASSUME NEW S, 0 \in S, \A n \in Nat : n \in S => n + 1 \in S
    PROVE  Nat \subseteq S
<1> DEFINE T == Nat \ S
           Less == OpToRel(<, Nat)
<1>1. ASSUME T # {} PROVE FALSE
  <2>1. PICK m \in T : \A y \in T : ~ (<<y, m>> \in Less)
    <3> HIDE DEF T, Less
    <3>1. IsWellFoundedOn(Less, Nat)
      BY NatLessThanWellFounded DEF Less
    <3>2. T \subseteq Nat
      BY DEF T
    <3> QED
      BY <1>1, <3>1, <3>2, WFMin
  <2>2. m \in Nat /\ m # 0 /\ m - 1 \in Nat
    OBVIOUS
  <2>3. m - 1 \notin S
    BY <2>2
  <2>4. <<m - 1, m>> \in Less
    BY <2>2 DEF OpToRel
  <2> QED
    BY <2>1, <2>2, <2>3, <2>4
<1> QED
  BY <1>1

\* Likewise with every number for which it has all smaller ones.
LEMMA StrongInduction ==
    ASSUME NEW S, \A n \in Nat : (\A m \in 0 .. n - 1 : m \in S) => n \in S
    PROVE  Nat \subseteq S
<1> DEFINE T == {n \in Nat : \A m \in 0 .. n : m \in S}
<1>1. 0 \in T
  OBVIOUS
<1>2. ASSUME NEW n \in Nat, n \in T PROVE n + 1 \in T
  <2>1. \A m \in 0 .. n : m \in S
    BY <1>2
  <2>2. n + 1 \in S
    BY <2>1
  <2> QED
    BY <2>1, <2>2
<1>3. Nat \subseteq T
  <2> HIDE DEF T
  <2> QED
    BY <1>1, <1>2, SetInduction
<1> QED
  BY <1>3

\* What is b at zero and then g of the value before: along an interval, and
\* throughout the naturals.
Along(V, b, n, g) ==
    {f \in [0 .. n -> V] : f[0] = b /\ \A i \in 1 .. n : f[i] = g[i][f[i - 1]]}

Throughout(V, b, g) ==
    {f \in [Nat -> V] :
       f[0] = b /\ \A i \in Nat \ {0} : f[i] = g[i][f[i - 1]]}

LEMMA PrefixRecursion ==
    ASSUME NEW V, NEW b \in V, NEW n \in Nat, NEW g \in [1 .. n -> [V -> V]]
    PROVE  Along(V, b, n, g) # {}
<1> DEFINE Solves(f, k) ==
             /\ f \in [0 .. k -> V] /\ f[0] = b
             /\ \A i \in 1 .. k : f[i] = g[i][f[i - 1]]
           S == {k \in Nat : k <= n => \E f : Solves(f, k)}
<1>1. 0 \in S
  <2>1. Solves([i \in 0 .. 0 |-> b], 0)
    OBVIOUS
  <2> HIDE DEF Solves
  <2> QED
    BY <2>1
<1>2. ASSUME NEW k \in Nat, k \in S PROVE k + 1 \in S
  <2> SUFFICES ASSUME k + 1 <= n PROVE \E f : Solves(f, k + 1)
    OBVIOUS
  <2>1. PICK f : Solves(f, k)
    BY <1>2
  <2> DEFINE h == [i \in 0 .. k + 1 |->
                     IF i = k + 1 THEN g[i][f[k]] ELSE f[i]]
  <2>2. g[k + 1][f[k]] \in V
    BY <2>1
  <2>3. h \in [0 .. k + 1 -> V] /\ h[0] = b
    BY <2>1, <2>2
  <2>4. ASSUME NEW i \in 1 .. k + 1 PROVE h[i] = g[i][h[i - 1]]
    <3>1. h[i - 1] = f[i - 1]
      OBVIOUS
    <3> QED
      BY <2>1, <3>1
  <2>5. Solves(h, k + 1)
    BY <2>3, <2>4
  <2> HIDE DEF Solves
  <2> QED
    BY <2>5
<1>3. n \in S
  <2> HIDE DEF S
  <2> QED
    BY <1>1, <1>2, SetInduction
<1> QED
  BY <1>3 DEF Along

LEMMA Recursion ==
    ASSUME NEW V, NEW b \in V, NEW g \in [Nat -> [V -> V]]
    PROVE  Throughout(V, b, g) # {}
<1> DEFINE Upto(n) == {f \in [0 .. n -> V] :
                         f[0] = b /\ \A i \in 1 .. n : f[i] = g[i][f[i - 1]]}
           chosen(n) == (CHOOSE h \in Upto(n) : TRUE)[n]
           f == [n \in Nat |-> chosen(n)]
<1>1. ASSUME NEW n \in Nat PROVE Upto(n) # {}
  <2> DEFINE r == [i \in 1 .. n |-> g[i]]
  <2>1. r \in [1 .. n -> [V -> V]] /\ \A i \in 1 .. n : r[i] = g[i]
    OBVIOUS
  <2> HIDE DEF r
  <2>2. Along(V, b, n, r) # {}
    BY <2>1, PrefixRecursion
  <2> QED
    BY <2>1, <2>2 DEF Along
<1>2. ASSUME NEW n \in Nat, NEW m \in Nat, NEW h \in Upto(n), NEW k \in Upto(m)
      PROVE  \A i \in Nat : i <= n /\ i <= m => h[i] = k[i]
  <2> DEFINE S == {i \in Nat : i <= n /\ i <= m => h[i] = k[i]}
  <2>1. 0 \in S
    OBVIOUS
  <2>2. ASSUME NEW i \in Nat, i \in S PROVE i + 1 \in S
    <3> SUFFICES ASSUME i + 1 <= n, i + 1 <= m PROVE h[i + 1] = k[i + 1]
      OBVIOUS
    <3>1. h[i] = k[i]
      BY <2>2
    <3>2. h[i + 1] = g[i + 1][h[(i + 1) - 1]]
      OBVIOUS
    <3>3. k[i + 1] = g[i + 1][k[(i + 1) - 1]]
      OBVIOUS
    <3> QED
      BY <3>1, <3>2, <3>3
  <2>3. Nat \subseteq S
    <3> HIDE DEF S
    <3> QED
      BY <2>1, <2>2, SetInduction
  <2> QED
    BY <2>3
<1>3. ASSUME NEW n \in Nat, NEW h \in Upto(n), NEW i \in 0 .. n
      PROVE  f[i] = h[i]
  <2> DEFINE c == CHOOSE k \in Upto(i) : TRUE
  <2>1. c \in Upto(i)
    <3> HIDE DEF Upto
    <3> QED
      BY <1>1
  <2>2. f[i] = c[i]
    OBVIOUS
  <2> HIDE DEF c, Upto, f
  <2> QED
    BY <1>2, <2>1, <2>2
<1>4. ASSUME NEW n \in Nat
      PROVE  /\ f[n] \in V
             /\ f[n] = IF n = 0 THEN b ELSE g[n][f[n - 1]]
  <2>1. PICK h \in Upto(n) : TRUE
    BY <1>1
  <2>2. f[n] = h[n] /\ (n # 0 => f[n - 1] = h[n - 1])
    <3> HIDE DEF Upto, f
    <3> QED
      BY <1>3
  <2> HIDE DEF f
  <2> QED
    BY <2>2
<1>5. f = [n \in Nat |-> f[n]]
  <2> HIDE DEF chosen
  <2> QED
    OBVIOUS
<1> HIDE DEF f
<1>6. f \in [Nat -> V]
  BY <1>4, <1>5
<1> QED
  BY <1>4, <1>6 DEF Throughout

-----------------------------------------------------------------------------
(* Powers of ten. *)

LEMMA Pow10Is ==
    /\ Pow10 \in [Nat -> Nat \ {0}]
    /\ Pow10[0] = 1
    /\ \A n \in Nat : Pow10[n + 1] = 10 * Pow10[n]
<1> DEFINE Solves(p) == p = [n \in Nat |-> IF n = 0 THEN 1 ELSE 10 * p[n - 1]]
           Positive == Nat \ {0}
           ten == [n \in Nat |-> [v \in Positive |-> 10 * v]]
<1>1. \E p : Solves(p)
  <2>1. ten \in [Nat -> [Positive -> Positive]] /\ 1 \in Positive
    OBVIOUS
  <2>2. \A n \in Nat, v \in Positive : ten[n][v] = 10 * v
    OBVIOUS
  <2>3. Throughout(Positive, 1, ten) # {}
    <3> HIDE DEF ten, Positive
    <3> QED
      BY <2>1, Recursion
  <2> HIDE DEF ten
  <2>4. PICK p \in [Nat -> Positive] :
          p[0] = 1 /\ \A n \in Nat \ {0} : p[n] = ten[n][p[n - 1]]
    BY <2>3 DEF Throughout
  <2>5. ASSUME NEW n \in Nat PROVE p[n] = IF n = 0 THEN 1 ELSE 10 * p[n - 1]
    <3>1. ASSUME n # 0 PROVE p[n] = 10 * p[n - 1]
      <4>1. n - 1 \in Nat /\ p[n - 1] \in Positive
        BY <3>1
      <4>2. ten[n][p[n - 1]] = 10 * p[n - 1]
        BY <2>2, <4>1
      <4> QED
        BY <2>4, <3>1, <4>2
    <3> QED
      BY <2>4, <3>1
  <2>6. p = [n \in Nat |-> p[n]]
    OBVIOUS
  <2>7. Solves(p)
    BY <2>5, <2>6
  <2> QED
    BY <2>7
<1>2. Solves(Pow10)
  <2>1. Pow10 = CHOOSE p : Solves(p)
    BY DEF Pow10
  <2> HIDE DEF Solves
  <2> QED
    BY <1>1, <2>1
<1>3. Pow10[0] = 1 /\ \A n \in Nat : Pow10[n + 1] = 10 * Pow10[n]
  BY <1>2
<1>4. \A n \in Nat : Pow10[n] \in Nat \ {0}
  <2> DEFINE S == {n \in Nat : Pow10[n] \in Nat \ {0}}
  <2>1. 0 \in S /\ \A n \in Nat : n \in S => n + 1 \in S
    BY <1>3
  <2> HIDE DEF S
  <2>2. Nat \subseteq S
    BY <2>1, SetInduction
  <2> QED
    BY <2>2 DEF S
<1> QED
  BY <1>2, <1>3, <1>4

LEMMA Pow10Int ==
    ASSUME NEW n \in Nat
    PROVE  Pow10[n] \in Int /\ Pow10[n] > 0
BY Pow10Is

LEMMA TimesTen ==
    ASSUME NEW x \in Int, NEW y \in Int
    PROVE  10 * (x * y) = x * (10 * y) /\ 10 * (x * y) = (10 * x) * y
OBVIOUS

LEMMA Pow10Sum ==
    ASSUME NEW m \in Nat, NEW n \in Nat
    PROVE  Pow10[m + n] = Pow10[m] * Pow10[n]
<1> DEFINE S == {k \in Nat : Pow10[m + k] = Pow10[m] * Pow10[k]}
<1>1. 0 \in S
  BY Pow10Is
<1>2. ASSUME NEW k \in Nat, k \in S PROVE k + 1 \in S
  <2>1. Pow10[m + k + 1] = 10 * Pow10[m + k] /\ Pow10[k + 1] = 10 * Pow10[k]
    BY Pow10Is
  <2>2. Pow10[m] \in Int /\ Pow10[k] \in Int
    BY Pow10Is
  <2>3. 10 * (Pow10[m] * Pow10[k]) = Pow10[m] * (10 * Pow10[k])
    BY <2>2, TimesTen
  <2>4. Pow10[m + (k + 1)] = Pow10[m] * Pow10[k + 1]
    BY <1>2, <2>1, <2>3
  <2> QED
    BY <2>4
<1>3. Nat \subseteq S
  <2> HIDE DEF S
  <2> QED
    BY <1>1, <1>2, SetInduction
<1> QED
  BY <1>3

-----------------------------------------------------------------------------
(* BigInt of a sequence of digits. *)

\* What the prefixes of the digits are read as.
Reads(f, digits) ==
    /\ f \in [0 .. Len(digits) -> Nat] /\ f[0] = 0
    /\ \A i \in 1 .. Len(digits) : f[i] = 10 * f[i - 1] + digits[i]

LEMMA BigIntReads ==
    ASSUME NEW digits \in Digits
    PROVE  \E f : Reads(f, digits) /\ BigInt(digits) = f[Len(digits)]
<1> DEFINE n == Len(digits)
           Solves(f) == f = [i \in 0 .. n |->
                               IF i = 0 THEN 0 ELSE 10 * f[i - 1] + digits[i]]
           next == [i \in 1 .. n |-> [v \in Nat |-> 10 * v + digits[i]]]
<1>1. n \in Nat /\ \A i \in 1 .. n : digits[i] \in Nat
  BY DEF Digits
<1>2. next \in [1 .. n -> [Nat -> Nat]]
  BY <1>1
<1>3. \A i \in 1 .. n, v \in Nat : next[i][v] = 10 * v + digits[i]
  OBVIOUS
<1>4. Along(Nat, 0, n, next) # {}
  <2> HIDE DEF n, next
  <2> QED
    BY <1>1, <1>2, PrefixRecursion
<1> HIDE DEF next
<1>5. PICK p \in [0 .. n -> Nat] :
        p[0] = 0 /\ \A i \in 1 .. n : p[i] = next[i][p[i - 1]]
  BY <1>4 DEF Along
<1>6. \E f : Solves(f)
  <2>1. ASSUME NEW i \in 0 .. n
        PROVE  p[i] = IF i = 0 THEN 0 ELSE 10 * p[i - 1] + digits[i]
    <3>1. ASSUME i # 0 PROVE p[i] = 10 * p[i - 1] + digits[i]
      <4>1. i \in 1 .. n /\ p[i - 1] \in Nat
        BY <1>1, <3>1
      <4> QED
        BY <1>3, <1>5, <4>1
    <3> QED
      BY <1>5, <3>1
  <2>2. p = [i \in 0 .. n |-> p[i]]
    OBVIOUS
  <2>3. Solves(p)
    BY <2>1, <2>2
  <2> QED
    BY <2>3
<1> DEFINE read == CHOOSE f : Solves(f)
<1>7. Solves(read)
  <2> HIDE DEF Solves
  <2> QED
    BY <1>6
<1>8. BigInt(digits) = read[n]
  BY DEF BigInt
<1> HIDE DEF read
<1>9. /\ read[0] = 0
      /\ \A i \in 1 .. n : read[i] = 10 * read[i - 1] + digits[i]
  BY <1>1, <1>7
<1>10. \A i \in 0 .. n : read[i] \in Nat
  <2> DEFINE S == {i \in Nat : i <= n => read[i] \in Nat}
  <2>1. 0 \in S
    BY <1>9
  <2>2. ASSUME NEW i \in Nat, i \in S PROVE i + 1 \in S
    <3> SUFFICES ASSUME i + 1 <= n PROVE read[i + 1] \in Nat
      OBVIOUS
    <3>1. i + 1 \in 1 .. n /\ read[i] \in Nat
      BY <1>1, <2>2
    <3>2. read[i + 1] = 10 * read[(i + 1) - 1] + digits[i + 1]
      BY <1>9, <3>1
    <3>3. digits[i + 1] \in Nat
      BY <1>1, <3>1
    <3> HIDE DEF n
    <3> QED
      BY <3>1, <3>2, <3>3
  <2>3. Nat \subseteq S
    <3> HIDE DEF S
    <3> QED
      BY <2>1, <2>2, SetInduction
  <2> QED
    BY <2>3
<1>11. Reads(read, digits)
  BY <1>7, <1>9, <1>10 DEF Reads
<1> QED
  BY <1>8, <1>11

LEMMA BigIntNat ==
    ASSUME NEW digits \in Digits
    PROVE  BigInt(digits) \in Nat
<1>1. PICK f : Reads(f, digits) /\ BigInt(digits) = f[Len(digits)]
  BY BigIntReads
<1>2. Len(digits) \in 0 .. Len(digits)
  BY DEF Digits
<1> QED
  BY <1>1, <1>2 DEF Reads

\* Digits that are read from a value of zero on are read the same wherever
\* they stand.
LEMMA ReadsShifted ==
    ASSUME NEW d \in Digits, NEW e \in Digits, NEW f, NEW g,
           Reads(f, d), Reads(g, e), NEW n \in Nat, n + Len(d) <= Len(e),
           g[n] = 0, \A i \in 1 .. Len(d) : e[n + i] = d[i]
    PROVE  g[n + Len(d)] = f[Len(d)]
<1> DEFINE S == {i \in Nat : i <= Len(d) => g[n + i] = f[i]}
<1>1. Len(d) \in Nat /\ Len(e) \in Nat
  BY DEF Digits
<1>2. 0 \in S
  BY DEF Reads
<1>3. ASSUME NEW i \in Nat, i \in S PROVE i + 1 \in S
  <2> SUFFICES ASSUME i + 1 <= Len(d) PROVE g[n + (i + 1)] = f[i + 1]
    OBVIOUS
  <2>1. i + 1 \in 1 .. Len(d) /\ n + i + 1 \in 1 .. Len(e)
    BY <1>1
  <2>2. f[i + 1] = 10 * f[(i + 1) - 1] + d[i + 1]
    BY <2>1 DEF Reads
  <2>3. g[n + i + 1] = 10 * g[(n + i + 1) - 1] + e[n + i + 1]
    BY <2>1 DEF Reads
  <2>4. g[n + i] = f[i] /\ e[n + (i + 1)] = d[i + 1]
    BY <1>1, <1>3, <2>1
  <2> QED
    BY <2>2, <2>3, <2>4
<1>4. Nat \subseteq S
  <2> HIDE DEF S
  <2> QED
    BY <1>2, <1>3, SetInduction
<1> QED
  BY <1>1, <1>4

\* One digit more.
LEMMA BigIntAppend ==
    ASSUME NEW s \in Digits, NEW c \in 0 .. 9
    PROVE  BigInt(Append(s, c)) = 10 * BigInt(s) + c
<1> DEFINE t == Append(s, c)
<1>1. /\ t \in Digits /\ Len(t) = Len(s) + 1 /\ Len(s) \in Nat
      /\ t[Len(s) + 1] = c
      /\ \A i \in 1 .. Len(s) : t[i] = s[i]
  BY DEF Digits
<1> HIDE DEF t
<1>2. PICK f : Reads(f, s) /\ BigInt(s) = f[Len(s)]
  BY BigIntReads
<1>3. PICK g : Reads(g, t) /\ BigInt(t) = g[Len(t)]
  BY <1>1, BigIntReads
<1>4. g[0 + Len(s)] = f[Len(s)]
  <2>1. 0 + Len(s) <= Len(t) /\ \A i \in 1 .. Len(s) : t[0 + i] = s[i]
    BY <1>1
  <2>2. g[0] = 0
    BY <1>3 DEF Reads
  <2> QED
    BY <1>1, <1>2, <1>3, <2>1, <2>2, ReadsShifted
<1>5. g[Len(s) + 1] = 10 * g[(Len(s) + 1) - 1] + t[Len(s) + 1]
  <2>1. Len(s) + 1 \in 1 .. Len(t)
    BY <1>1
  <2> QED
    BY <1>3, <2>1 DEF Reads
<1>6. BigInt(t) = 10 * BigInt(s) + c
  BY <1>1, <1>2, <1>3, <1>4, <1>5
<1> QED
  BY <1>6 DEF t

\* Zeros in front.
LEMMA ZerosAre ==
    ASSUME NEW n \in Int
    PROVE  /\ Zeros(n) \in Digits /\ \A i \in 1 .. n : Zeros(n)[i] = 0
           /\ Len(Zeros(n)) = IF n < 0 THEN 0 ELSE n
<1>1. CASE n \in Nat
  <2>1. Zeros(n) \in [1 .. n -> 0 .. 9]
    BY DEF Zeros
  <2>2. Zeros(n) \in Seq(0 .. 9) /\ Len(Zeros(n)) = n
    BY <1>1, <2>1 DEF Zeros
  <2> QED
    BY <1>1, <2>2 DEF Zeros, Digits
<1>2. CASE n < 0
  <2>1. 1 .. n = 1 .. 0
    BY <1>2
  <2>2. Zeros(n) = [i \in 1 .. 0 |-> 0]
    BY <2>1 DEF Zeros
  <2>3. Zeros(n) \in Seq(0 .. 9) /\ Len(Zeros(n)) = 0
    BY <2>2
  <2> QED
    BY <1>2, <2>1, <2>3 DEF Digits
<1> QED
  BY <1>1, <1>2

LEMMA BigIntPadded ==
    ASSUME NEW s \in Digits, NEW z \in Digits,
           \A i \in 1 .. Len(z) : z[i] = 0
    PROVE  BigInt(z \o s) = BigInt(s)
<1> DEFINE t == z \o s
           n == Len(z)
<1>1. /\ t \in Digits /\ Len(t) = n + Len(s)
      /\ n \in Nat /\ Len(s) \in Nat
      /\ \A i \in 1 .. n : t[i] = 0
      /\ \A i \in 1 .. Len(s) : t[n + i] = s[i]
  BY DEF Digits
<1> HIDE DEF t, n
<1>2. PICK f : Reads(f, s) /\ BigInt(s) = f[Len(s)]
  BY BigIntReads
<1>3. PICK g : Reads(g, t) /\ BigInt(t) = g[Len(t)]
  BY <1>1, BigIntReads
<1>4. g[n] = 0
  <2> DEFINE S == {i \in Nat : i <= n => g[i] = 0}
  <2>1. 0 \in S
    BY <1>3 DEF Reads
  <2>2. ASSUME NEW i \in Nat, i \in S PROVE i + 1 \in S
    <3> SUFFICES ASSUME i + 1 <= n PROVE g[i + 1] = 0
      OBVIOUS
    <3>1. i + 1 \in 1 .. Len(t) /\ i + 1 \in 1 .. n
      BY <1>1
    <3>2. g[i + 1] = 10 * g[(i + 1) - 1] + t[i + 1]
      BY <1>3, <3>1 DEF Reads
    <3>3. t[i + 1] = 0 /\ g[i] = 0
      BY <1>1, <2>2, <3>1
    <3> QED
      BY <3>2, <3>3
  <2>3. Nat \subseteq S
    <3> HIDE DEF S
    <3> QED
      BY <2>1, <2>2, SetInduction
  <2> QED
    BY <1>1, <2>3
<1>5. g[n + Len(s)] = f[Len(s)]
  <2>1. n + Len(s) <= Len(t)
    BY <1>1
  <2>2. t \in Digits /\ n \in Nat /\ \A i \in 1 .. Len(s) : t[n + i] = s[i]
    BY <1>1
  <2>3. Reads(f, s) /\ Reads(g, t)
    BY <1>2, <1>3
  <2> QED
    BY <1>4, <2>1, <2>2, <2>3, ReadsShifted
<1>6. BigInt(t) = BigInt(s)
  BY <1>1, <1>2, <1>3, <1>5
<1> QED
  BY <1>6 DEF t

-----------------------------------------------------------------------------
(* The numeral of a number. *)

Numbers == Digits \ {<<>>}

LEMMA DivTen ==
    ASSUME NEW n \in Nat
    PROVE  /\ n \div 10 \in Nat /\ n % 10 \in 0 .. 9
           /\ n = 10 * (n \div 10) + (n % 10)
           /\ n >= 10 => n \div 10 < n
OBVIOUS

LEMMA NumeralIs ==
    /\ Numeral \in [Nat -> Numbers]
    /\ \A n \in Nat : Numeral[n] = IF n < 10 THEN <<n>>
                                   ELSE Append(Numeral[n \div 10], n % 10)
<1> DEFINE written(m, h) == IF m < 10 THEN <<m>>
                                      ELSE Append(h[m \div 10], m % 10)
           Solves(h) == h = [m \in Nat |-> written(m, h)]
           V == [Nat -> Numbers]
           b == [m \in Nat |-> <<0>>]
           g == [k \in Nat |-> [h \in V |->
                   [m \in Nat |-> IF m = k - 1 THEN written(m, h) ELSE h[m]]]]
<1>1. ASSUME NEW m \in Nat, NEW h \in V PROVE written(m, h) \in Numbers
  <2>1. CASE m < 10
    <3>1. m \in 0 .. 9
      BY <2>1
    <3>2. <<m>> \in Seq(0 .. 9) /\ <<m>> # <<>>
      BY <3>1
    <3> QED
      BY <2>1, <3>2 DEF Numbers, Digits
  <2>2. CASE m >= 10
    <3>1. h[m \div 10] \in Numbers /\ m % 10 \in 0 .. 9
      BY DivTen
    <3>2. h[m \div 10] \in Seq(0 .. 9)
      BY <3>1 DEF Numbers, Digits
    <3>3. Append(h[m \div 10], m % 10) \in Numbers
      <4> DEFINE s == h[m \div 10]
                 c == m % 10
      <4>1. s \in Seq(0 .. 9) /\ c \in 0 .. 9
        BY <3>1, <3>2
      <4> HIDE DEF s, c
      <4>2. Append(s, c) \in Seq(0 .. 9) /\ Append(s, c) # <<>>
        BY <4>1
      <4> QED
        BY <4>2 DEF Numbers, Digits, s, c
    <3> QED
      BY <2>2, <3>3
  <2> QED
    BY <2>1, <2>2
<1>2. b \in V
  <2>1. <<0>> \in Numbers
    BY DEF Numbers, Digits
  <2> QED
    BY <2>1
<1>3. g \in [Nat -> [V -> V]]
  <2>1. ASSUME NEW k \in Nat, NEW h \in V
        PROVE  [m \in Nat |-> IF m = k - 1 THEN written(m, h) ELSE h[m]] \in V
    <3> HIDE DEF written
    <3> QED
      BY <1>1
  <2> HIDE DEF V, written
  <2> QED
    BY <2>1
<1>4. ASSUME NEW k \in Nat, NEW h \in V, NEW m \in Nat
      PROVE  g[k][h][m] = IF m = k - 1 THEN written(m, h) ELSE h[m]
  <2> HIDE DEF V, written
  <2> QED
    OBVIOUS
<1>5. Throughout(V, b, g) # {}
  <2> HIDE DEF V, b, g
  <2> QED
    BY <1>2, <1>3, Recursion
<1>6. PICK T \in [Nat -> V] :
        T[0] = b /\ \A k \in Nat \ {0} : T[k] = g[k][T[k - 1]]
  <2> HIDE DEF V, b, g
  <2> QED
    BY <1>5 DEF Throughout
<1>7. ASSUME NEW k \in Nat, NEW m \in Nat
      PROVE  T[k + 1][m] = IF m = k THEN written(m, T[k]) ELSE T[k][m]
  <2>1. T[k] \in V
    OBVIOUS
  <2>2. T[k + 1] = g[k + 1][T[(k + 1) - 1]]
    <3> HIDE DEF g, V
    <3> QED
      BY <1>6
  <2> HIDE DEF g, V, written
  <2> QED
    BY <1>4, <2>1, <2>2
<1> HIDE DEF g, b
<1> DEFINE N == [m \in Nat |-> T[m + 1][m]]
<1>8. ASSUME NEW m \in Nat, NEW k \in Nat, m < k PROVE T[k][m] = N[m]
  <2> DEFINE S == {j \in Nat : T[m + 1 + j][m] = N[m]}
  <2>1. 0 \in S
    OBVIOUS
  <2>2. ASSUME NEW j \in Nat, j \in S PROVE j + 1 \in S
    <3>1. T[(m + 1 + j) + 1][m] = T[m + 1 + j][m]
      <4> HIDE DEF written
      <4> QED
        BY <1>7
    <3> QED
      BY <2>2, <3>1
  <2>3. Nat \subseteq S
    <3> HIDE DEF S
    <3> QED
      BY <2>1, <2>2, SetInduction
  <2>4. k - (m + 1) \in Nat
    BY <1>8
  <2>5. k - (m + 1) \in S
    <3> HIDE DEF S
    <3> QED
      BY <2>3, <2>4
  <2>6. m + 1 + (k - (m + 1)) = k
    OBVIOUS
  <2> HIDE DEF N
  <2> QED
    BY <2>5, <2>6
<1>9. ASSUME NEW m \in Nat PROVE N[m] = written(m, N) /\ N[m] \in Numbers
  <2>1. N[m] = written(m, T[m])
    <3> HIDE DEF written
    <3> QED
      BY <1>7
  <2>2. m >= 10 => T[m][m \div 10] = N[m \div 10]
    BY <1>8, DivTen
  <2>3. N[m] = written(m, N)
    <3> HIDE DEF N
    <3> QED
      BY <2>1, <2>2
  <2>4. T[m] \in V
    OBVIOUS
  <2>5. written(m, T[m]) \in Numbers
    <3> HIDE DEF written, V
    <3> QED
      BY <1>1, <2>4
  <2> HIDE DEF N, written
  <2> QED
    BY <2>1, <2>3, <2>5
<1>10. Solves(N)
  <2>1. N = [m \in Nat |-> N[m]]
    OBVIOUS
  <2> HIDE DEF N, written
  <2> QED
    BY <1>9, <2>1
<1>11. Solves(Numeral)
  <2>1. Numeral = CHOOSE h : Solves(h)
    BY DEF Numeral
  <2> HIDE DEF Solves, N
  <2> QED
    BY <1>10, <2>1
<1>12. \A n \in Nat : Numeral[n] = written(n, Numeral)
  <2> HIDE DEF written
  <2> QED
    BY <1>11
<1>13. \A n \in Nat : Numeral[n] \in Numbers
  <2> DEFINE S == {n \in Nat : Numeral[n] \in Numbers}
  <2>1. ASSUME NEW n \in Nat, \A m \in 0 .. n - 1 : m \in S PROVE n \in S
    <3> DEFINE h == [m \in Nat |-> IF m < n THEN Numeral[m] ELSE <<0>>]
    <3>1. <<0>> \in Numbers
      BY DEF Numbers, Digits
    <3>2. h \in V
      BY <2>1, <3>1
    <3>3. written(n, h) \in Numbers
      <4> HIDE DEF written, h
      <4> QED
        BY <1>1, <3>2
    <3>4. n >= 10 => h[n \div 10] = Numeral[n \div 10]
      BY DivTen
    <3>5. written(n, h) = written(n, Numeral)
      <4> HIDE DEF h
      <4> QED
        BY <3>4
    <3> HIDE DEF written, h
    <3> QED
      BY <1>12, <3>3, <3>5
  <2>2. Nat \subseteq S
    <3> HIDE DEF S
    <3> QED
      BY <2>1, StrongInduction
  <2> QED
    BY <2>2
<1>14. Numeral = [n \in Nat |-> Numeral[n]]
  <2> HIDE DEF written
  <2> QED
    BY <1>11
<1>15. Numeral \in [Nat -> Numbers]
  BY <1>13, <1>14
<1> QED
  BY <1>12, <1>15

\* A number is read back from its numeral.
LEMMA BigIntNumeral ==
    ASSUME NEW n \in Nat
    PROVE  Numeral[n] \in Digits /\ Len(Numeral[n]) > 0
           /\ BigInt(Numeral[n]) = n
<1> DEFINE S == {k \in Nat : BigInt(Numeral[k]) = k}
<1>1. BigInt(<<>>) = 0 /\ <<>> \in Digits
  <2>1. <<>> \in Digits
    BY DEF Digits
  <2>2. PICK f : Reads(f, <<>>) /\ BigInt(<<>>) = f[Len(<<>>)]
    BY <2>1, BigIntReads
  <2> QED
    BY <2>1, <2>2 DEF Reads
<1>2. ASSUME NEW k \in Nat, \A m \in 0 .. k - 1 : m \in S PROVE k \in S
  <2>1. CASE k < 10
    <3>1. k \in 0 .. 9 /\ <<k>> = Append(<<>>, k)
      BY <2>1
    <3>2. BigInt(<<k>>) = 10 * BigInt(<<>>) + k
      BY <1>1, <3>1, BigIntAppend
    <3>3. BigInt(<<k>>) = k
      BY <1>1, <3>2
    <3> QED
      BY <2>1, <3>3, NumeralIs
  <2>2. CASE k >= 10
    <3> DEFINE q == k \div 10
               r == k % 10
    <3>1. q \in Nat /\ r \in 0 .. 9 /\ k = 10 * q + r /\ q < k
      BY <2>2, DivTen
    <3>2. Numeral[k] = Append(Numeral[q], r) /\ Numeral[q] \in Digits
      BY <2>2, <3>1, NumeralIs DEF Numbers
    <3> HIDE DEF q, r
    <3>3. BigInt(Numeral[q]) = q
      BY <1>2, <3>1
    <3>4. BigInt(Numeral[k]) = 10 * BigInt(Numeral[q]) + r
      BY <3>1, <3>2, BigIntAppend
    <3> QED
      BY <3>1, <3>3, <3>4
  <2> QED
    BY <2>1, <2>2
<1>3. Nat \subseteq S
  <2> HIDE DEF S
  <2> QED
    BY <1>2, StrongInduction
<1>4. Numeral[n] \in Digits /\ Numeral[n] # <<>>
  BY NumeralIs DEF Numbers
<1>5. Len(Numeral[n]) > 0
  BY <1>4 DEF Digits
<1> QED
  BY <1>3, <1>4, <1>5

-----------------------------------------------------------------------------
(* What a decimal means. *)

\* The integer its digits make, without regard to the point.
Scaled(a) == IF a.negative THEN -BigInt(a.whole \o a.fraction)
                           ELSE BigInt(a.whole \o a.fraction)

LEMMA DecimalDigits ==
    ASSUME NEW a \in Decimal
    PROVE  /\ a.negative \in BOOLEAN
           /\ a.whole \in Digits /\ a.fraction \in Digits
           /\ a.whole \o a.fraction \in Digits
           /\ Len(a.whole) \in Nat /\ Len(a.fraction) \in Nat
           /\ Len(a.whole \o a.fraction) = Len(a.whole) + Len(a.fraction)
           /\ BigInt(a.whole \o a.fraction) \in Nat /\ Scaled(a) \in Int
<1>1. /\ a.negative \in BOOLEAN
      /\ a.whole \in Seq(0 .. 9) /\ a.fraction \in Seq(0 .. 9)
  BY DEF Decimal, Digits
<1>2. /\ Len(a.whole) \in Nat /\ Len(a.fraction) \in Nat
      /\ a.whole \o a.fraction \in Seq(0 .. 9)
      /\ Len(a.whole \o a.fraction) = Len(a.whole) + Len(a.fraction)
  BY <1>1
<1>3. BigInt(a.whole \o a.fraction) \in Nat
  BY <1>2, BigIntNat DEF Digits
<1>4. Scaled(a) \in Int
  BY <1>1, <1>3 DEF Scaled
<1> QED
  BY <1>1, <1>2, <1>3, <1>4 DEF Digits

LEMMA Collect ==
    ASSUME NEW x \in Int, NEW d \in Int, NEW y \in Int
    PROVE  x * (10 * y) + d * y = (10 * x + d) * y
OBVIOUS

\* The sums over the first digits.
Weighed(digits, top) ==
    CHOOSE s : s = [i \in 0 .. Len(digits) |->
                      IF i = 0 THEN 0
                      ELSE s[i - 1] + digits[i] * Pow10[top - i]]

LEMMA WeighedIs ==
    ASSUME NEW digits \in Digits, NEW top \in Nat, Len(digits) <= top
    PROVE  /\ Weighed(digits, top)[0] = 0
           /\ \A i \in 1 .. Len(digits) :
                Weighed(digits, top)[i] =
                  Weighed(digits, top)[i - 1] + digits[i] * Pow10[top - i]
<1> DEFINE n == Len(digits)
           term == [i \in 1 .. n |-> digits[i] * Pow10[top - i]]
           next == [i \in 1 .. n |-> [v \in Int |-> v + term[i]]]
           Solves(s) == s = [i \in 0 .. n |-> IF i = 0 THEN 0
                               ELSE s[i - 1] + digits[i] * Pow10[top - i]]
<1>1. n \in Nat /\ \A i \in 1 .. n : digits[i] \in Int /\ top - i \in Nat
  BY DEF Digits
<1>2. /\ \A i \in 1 .. n : term[i] \in Int
      /\ \A i \in 1 .. n : term[i] = digits[i] * Pow10[top - i]
  <2> HIDE DEF n
  <2>1. \A i \in 1 .. n : Pow10[top - i] \in Int
    BY <1>1, Pow10Is
  <2> QED
    BY <1>1, <2>1
<1> HIDE DEF term
<1>3. next \in [1 .. n -> [Int -> Int]]
  <2> HIDE DEF n
  <2> QED
    BY <1>2
<1>4. \A i \in 1 .. n, v \in Int : next[i][v] = v + term[i]
  OBVIOUS
<1>5. Along(Int, 0, n, next) # {}
  <2> HIDE DEF n, next
  <2>1. 0 \in Int
    OBVIOUS
  <2> QED
    BY <1>1, <1>3, <2>1, PrefixRecursion
<1> HIDE DEF next
<1>6. PICK p \in [0 .. n -> Int] :
        p[0] = 0 /\ \A i \in 1 .. n : p[i] = next[i][p[i - 1]]
  BY <1>5 DEF Along
<1>7. ASSUME NEW i \in 0 .. n
      PROVE  p[i] = IF i = 0 THEN 0 ELSE p[i - 1] + digits[i] * Pow10[top - i]
  <2> HIDE DEF n
  <2>1. ASSUME i # 0 PROVE p[i] = p[i - 1] + digits[i] * Pow10[top - i]
    <3>1. i \in 1 .. n /\ p[i - 1] \in Int
      BY <1>1, <2>1
    <3>2. next[i][p[i - 1]] = p[i - 1] + term[i]
      BY <1>4, <3>1
    <3> QED
      BY <1>2, <1>6, <3>1, <3>2
  <2> QED
    BY <1>6, <2>1
<1>8. p = [i \in 0 .. n |-> p[i]]
  OBVIOUS
<1>9. Solves(p)
  BY <1>7, <1>8
<1>10. Weighed(digits, top) = CHOOSE s : Solves(s)
  BY DEF Weighed
<1>11. Solves(Weighed(digits, top))
  <2> HIDE DEF Solves
  <2> QED
    BY <1>9, <1>10
<1> QED
  BY <1>1, <1>11

LEMMA WeighedSum ==
    ASSUME NEW digits \in Digits, NEW top \in Nat, Len(digits) <= top
    PROVE  DigitSum(digits, top) = BigInt(digits) * Pow10[top - Len(digits)]
<1> DEFINE n == Len(digits)
           s == Weighed(digits, top)
<1>1. n \in Nat /\ \A i \in 1 .. n : digits[i] \in Int
  BY DEF Digits
<1>2. s[0] = 0 /\ \A i \in 1 .. n :
                     s[i] = s[i - 1] + digits[i] * Pow10[top - i]
  BY WeighedIs
<1>3. PICK f : Reads(f, digits) /\ BigInt(digits) = f[n]
  BY BigIntReads
<1>4. /\ f[0] = 0 /\ \A i \in 0 .. n : f[i] \in Int
      /\ \A i \in 1 .. n : f[i] = 10 * f[i - 1] + digits[i]
  BY <1>3 DEF Reads
<1> HIDE DEF n, s
<1>5. n <= top
  BY DEF n
<1>6. \A i \in 0 .. n : top - i \in Nat /\ Pow10[top - i] \in Int
  <2>1. \A i \in 0 .. n : top - i \in Nat
    BY <1>1, <1>5
  <2> QED
    BY <2>1, Pow10Is
<1> DEFINE S == {i \in Nat : i <= n => s[i] = f[i] * Pow10[top - i]}
<1>7. 0 \in S
  <2>1. Pow10[top - 0] \in Int
    BY <1>1, <1>6
  <2> QED
    BY <1>2, <1>4, <2>1
<1>8. ASSUME NEW i \in Nat, i \in S PROVE i + 1 \in S
  <2> SUFFICES ASSUME i + 1 <= n
               PROVE  s[i + 1] = f[i + 1] * Pow10[top - (i + 1)]
    OBVIOUS
  <2>1. i \in 0 .. n /\ i + 1 \in 1 .. n /\ i + 1 \in 0 .. n
    BY <1>1
  <2>2. s[i + 1] = s[(i + 1) - 1] + digits[i + 1] * Pow10[top - (i + 1)]
    BY <1>2, <2>1
  <2>3. f[i + 1] = 10 * f[(i + 1) - 1] + digits[i + 1]
    BY <1>4, <2>1
  <2>4. Pow10[top - i] = 10 * Pow10[top - (i + 1)]
    <3>1. top - (i + 1) \in Nat /\ (top - (i + 1)) + 1 = top - i
      BY <1>6, <2>1
    <3> QED
      BY <3>1, Pow10Is
  <2>5. s[i] = f[i] * Pow10[top - i]
    BY <1>8, <2>1
  <2>6. /\ f[i] \in Int /\ digits[i + 1] \in Int
        /\ Pow10[top - (i + 1)] \in Int
    BY <1>1, <1>4, <1>6, <2>1
  <2>7. s[i + 1] = f[i] * (10 * Pow10[top - (i + 1)])
                     + digits[i + 1] * Pow10[top - (i + 1)]
    BY <2>2, <2>4, <2>5
  <2>8. f[i + 1] = 10 * f[i] + digits[i + 1]
    BY <2>3
  <2> QED
    BY <2>6, <2>7, <2>8, Collect
<1>9. Nat \subseteq S
  <2> HIDE DEF S
  <2> QED
    BY <1>7, <1>8, SetInduction
<1>10. s[n] = f[n] * Pow10[top - n]
  BY <1>1, <1>9
<1>11. DigitSum(digits, top) = s[n]
  BY DEF DigitSum, Weighed, n, s
<1> QED
  BY <1>3, <1>10, <1>11 DEF n

LEMMA MinusTimes ==
    ASSUME NEW x \in Int, NEW y \in Int
    PROVE  -(x * y) = (-x) * y
OBVIOUS

\* Counted digit by digit it is that integer, moved to the place.
LEMMA UnitsAre ==
    ASSUME NEW a \in Decimal, NEW places \in Nat, Len(a.fraction) <= places
    PROVE  Units(a, places) = Scaled(a) * Pow10[places - Len(a.fraction)]
<1> DEFINE digits == a.whole \o a.fraction
           top == places + Len(a.whole)
           sum == DigitSum(digits, top)
           power == Pow10[places - Len(a.fraction)]
<1>1. digits \in Digits /\ top \in Nat /\ BigInt(digits) \in Int
  BY DecimalDigits
<1>2. Len(digits) <= top /\ top - Len(digits) = places - Len(a.fraction)
  <2>1. /\ Len(digits) = Len(a.whole) + Len(a.fraction)
        /\ Len(a.whole) \in Nat /\ Len(a.fraction) \in Nat
    BY DecimalDigits
  <2> HIDE DEF digits
  <2> QED
    BY <2>1
<1>3. Units(a, places) = IF a.negative THEN -sum ELSE sum
  BY DEF Units
<1>4. Scaled(a) = IF a.negative THEN -BigInt(digits) ELSE BigInt(digits)
  BY DEF Scaled
<1>5. power \in Int
  <2>1. places - Len(a.fraction) \in Nat
    BY DecimalDigits
  <2> QED
    BY <2>1, Pow10Int
<1>6. sum = BigInt(digits) * power
  <2> HIDE DEF digits, top
  <2> QED
    BY <1>1, <1>2, WeighedSum
<1> HIDE DEF digits, top, sum, power
<1>7. Units(a, places) = Scaled(a) * power
  BY <1>1, <1>3, <1>4, <1>5, <1>6, MinusTimes
<1> QED
  BY <1>7 DEF power

-----------------------------------------------------------------------------
(* Comparison. *)

LEMMA ToScaledIs ==
    ASSUME NEW a \in Decimal, NEW scale \in Nat, Len(a.fraction) <= scale
    PROVE  /\ ToScaled(a, scale) = Scaled(a) * Pow10[scale - Len(a.fraction)]
           /\ ToScaled(a, scale) \in Int
<1> DEFINE magnitude == BigInt(a.whole \o a.fraction)
           power == Pow10[scale - Len(a.fraction)]
<1>1. magnitude \in Int
  BY DecimalDigits
<1>2. power \in Int
  <2>1. scale - Len(a.fraction) \in Nat
    BY DecimalDigits
  <2> QED
    BY <2>1, Pow10Int
<1>3. ToScaled(a, scale) = IF a.negative THEN -(magnitude * power)
                                         ELSE magnitude * power
  BY DEF ToScaled
<1>4. Scaled(a) = IF a.negative THEN -magnitude ELSE magnitude
  BY DEF Scaled
<1> HIDE DEF magnitude, power
<1>5. ToScaled(a, scale) = Scaled(a) * power
  BY <1>1, <1>2, <1>3, <1>4, MinusTimes
<1>6. ToScaled(a, scale) \in Int
  BY <1>1, <1>2, <1>3
<1> QED
  BY <1>5, <1>6 DEF power

LEMMA TimesAssociates ==
    ASSUME NEW x \in Int, NEW y \in Int, NEW z \in Int
    PROVE  (x * y) * z = x * (y * z)
OBVIOUS

\* A finer place multiplies.
LEMMA FinerUnits ==
    ASSUME NEW a \in Decimal, NEW scale \in Nat, NEW places \in Nat,
           Len(a.fraction) <= scale, scale <= places
    PROVE  Units(a, places) = ToScaled(a, scale) * Pow10[places - scale]
<1> DEFINE m == scale - Len(a.fraction)
           n == places - scale
           top == places - Len(a.fraction)
<1>1. m \in Nat /\ n \in Nat /\ top = m + n /\ Len(a.fraction) <= places
  BY DecimalDigits
<1>2. ToScaled(a, scale) = Scaled(a) * Pow10[m]
  BY ToScaledIs
<1>3. Units(a, places) = Scaled(a) * Pow10[top]
  BY <1>1, UnitsAre
<1> HIDE DEF m, n, top
<1>4. Pow10[top] = Pow10[m] * Pow10[n]
  BY <1>1, Pow10Sum
<1>5. Scaled(a) \in Int /\ Pow10[m] \in Int /\ Pow10[n] \in Int
  BY <1>1, DecimalDigits, Pow10Int
<1>6. Units(a, places) = ToScaled(a, scale) * Pow10[n]
  BY <1>2, <1>3, <1>4, <1>5, TimesAssociates
<1> QED
  BY <1>6 DEF n

LEMMA TimesPositive ==
    ASSUME NEW x \in Int, NEW y \in Int, NEW z \in Int, z > 0
    PROVE  x < y <=> x * z < y * z
<1>1. (y - x) * z = y * z - x * z
  OBVIOUS
<1>2. \A d \in Int : d > 0 => d * z > 0
  OBVIOUS
<1>3. \A d \in Int : d <= 0 => d * z <= 0
  OBVIOUS
<1>4. x * z \in Int /\ y * z \in Int /\ y - x \in Int
  OBVIOUS
<1>5. CASE x < y
  <2>1. (y - x) * z > 0
    BY <1>2, <1>4, <1>5
  <2> QED
    BY <1>1, <1>4, <1>5, <2>1
<1>6. CASE ~(x < y)
  <2>1. (y - x) * z <= 0
    BY <1>3, <1>4, <1>6
  <2> QED
    BY <1>1, <1>4, <1>6, <2>1
<1> QED
  BY <1>5, <1>6

\* compareDecimal orders two amounts as their digits do, however many of them
\* there are and wherever their points stand.
THEOREM CompareExact ==
    ASSUME NEW a \in Decimal, NEW b \in Decimal, NEW places \in Nat,
           Len(a.fraction) <= places, Len(b.fraction) <= places
    PROVE  CompareDecimal(a, b) = Sign(Units(a, places), Units(b, places))
<1> DEFINE scale == CommonScale(a, b)
           left == ToScaled(a, scale)
           right == ToScaled(b, scale)
           power == Pow10[places - scale]
<1>1. /\ scale \in Nat /\ scale <= places
      /\ Len(a.fraction) <= scale /\ Len(b.fraction) <= scale
  BY DecimalDigits DEF CommonScale
<1> HIDE DEF scale
<1>2. left \in Int /\ right \in Int
  BY <1>1, ToScaledIs
<1>3. power \in Int /\ power > 0
  <2>1. places - scale \in Nat
    BY <1>1
  <2> QED
    BY <2>1, Pow10Int
<1>4. Units(a, places) = left * power /\ Units(b, places) = right * power
  BY <1>1, FinerUnits
<1>5. CompareDecimal(a, b) = Sign(left, right)
  BY DEF CompareDecimal, scale
<1> HIDE DEF left, right, power
<1>6. /\ left < right <=> left * power < right * power
      /\ right < left <=> right * power < left * power
  BY <1>2, <1>3, TimesPositive
<1>7. left * power \in Int /\ right * power \in Int
  BY <1>2, <1>3
<1>8. Sign(left, right) = Sign(left * power, right * power)
  BY <1>2, <1>6, <1>7 DEF Sign
<1> QED
  BY <1>4, <1>5, <1>8

-----------------------------------------------------------------------------
(* Multiplication. *)

LEMMA PadStartIs ==
    ASSUME NEW digits \in Digits, NEW scale \in Nat
    PROVE  /\ PadStart(digits, scale) \in Digits
           /\ Len(PadStart(digits, scale)) > scale
           /\ BigInt(PadStart(digits, scale)) = BigInt(digits)
<1> DEFINE z == Zeros(scale + 1 - Len(digits))
<1>1. Len(digits) \in Nat /\ scale + 1 - Len(digits) \in Int
  BY DEF Digits
<1>2. /\ z \in Digits /\ \A i \in 1 .. scale + 1 - Len(digits) : z[i] = 0
      /\ Len(z) = IF scale + 1 - Len(digits) < 0 THEN 0
                   ELSE scale + 1 - Len(digits)
  BY <1>1, ZerosAre
<1>3. PadStart(digits, scale) = z \o digits
  BY DEF PadStart
<1> HIDE DEF z
<1>4. z \o digits \in Digits /\ Len(z \o digits) = Len(z) + Len(digits)
  BY <1>2 DEF Digits
<1>5. Len(z) + Len(digits) > scale
  BY <1>1, <1>2
<1>6. \A i \in 1 .. Len(z) : z[i] = 0
  BY <1>1, <1>2
<1>7. BigInt(z \o digits) = BigInt(digits)
  BY <1>2, <1>6, BigIntPadded
<1> QED
  BY <1>3, <1>4, <1>5, <1>7

\* A split at the point is put together again.
LEMMA SplitJoins ==
    ASSUME NEW s \in Digits, NEW k \in 1 .. Len(s)
    PROVE  /\ SubSeq(s, 1, k) \in Digits \ {<<>>}
           /\ SubSeq(s, k + 1, Len(s)) \in Digits
           /\ Len(SubSeq(s, k + 1, Len(s))) = Len(s) - k
           /\ SubSeq(s, 1, k) \o SubSeq(s, k + 1, Len(s)) = s
<1>1. s \in Seq(0 .. 9) /\ Len(s) \in Nat /\ k \in Nat
  BY DEF Digits
<1> DEFINE x == SubSeq(s, 1, k)
           y == SubSeq(s, k + 1, Len(s))
<1>2. /\ x \in Seq(0 .. 9) /\ Len(x) = k
      /\ \A i \in 1 .. k : x[i] = s[i]
  BY <1>1
<1>3. /\ y \in Seq(0 .. 9) /\ Len(y) = Len(s) - k
      /\ \A i \in 1 .. Len(s) - k : y[i] = s[k + i]
  BY <1>1
<1> HIDE DEF x, y
<1>4. x # <<>>
  BY <1>1, <1>2
<1>5. x \o y \in Seq(0 .. 9) /\ Len(x \o y) = Len(s)
  <2>1. x \o y \in Seq(0 .. 9) /\ Len(x \o y) = Len(x) + Len(y)
    BY <1>2, <1>3
  <2>2. Len(x) + Len(y) = Len(s)
    BY <1>1, <1>2, <1>3
  <2> QED
    BY <2>1, <2>2
<1>6. ASSUME NEW i \in 1 .. Len(s) PROVE (x \o y)[i] = s[i]
  <2>1. i \in Nat
    BY <1>1
  <2>2. CASE i <= k
    <3>1. i \in 1 .. k
      BY <1>1, <2>1, <2>2
    <3>2. (x \o y)[i] = x[i]
      BY <1>1, <1>2, <1>3, <3>1
    <3> QED
      BY <1>2, <3>1, <3>2
  <2>3. CASE i > k
    <3>1. i - k \in 1 .. Len(s) - k /\ k + (i - k) = i
      BY <1>1, <2>1, <2>3
    <3>2. (x \o y)[i] = y[i - k]
      BY <1>1, <1>2, <1>3, <2>1, <2>3
    <3> QED
      BY <1>3, <3>1, <3>2
  <2>4. i <= k \/ i > k
    BY <1>1, <2>1
  <2> QED
    BY <2>2, <2>3, <2>4
<1>7. x \o y = s
  <2> DEFINE t == x \o y
  <2>1. /\ t \in Seq(0 .. 9) /\ Len(t) = Len(s)
        /\ \A i \in 1 .. Len(s) : t[i] = s[i]
    BY <1>5, <1>6
  <2> HIDE DEF t
  <2>2. t = s
    BY <1>1, <2>1, SeqEqual
  <2> QED
    BY <2>2 DEF t
<1> QED
  BY <1>2, <1>3, <1>4, <1>7 DEF x, y, Digits

\* What is written out means what was to be written.
LEMMA FormatIs ==
    ASSUME NEW scaled \in Int, NEW scale \in Nat
    PROVE  /\ Format(scaled, scale) \in Decimal
           /\ Len(Format(scaled, scale).fraction) = scale
           /\ Scaled(Format(scaled, scale)) = scaled
<1> DEFINE size == IF scaled < 0 THEN -scaled ELSE scaled
           digits == PadStart(Numeral[size], scale)
           point == Len(digits) - scale
           whole == SubSeq(digits, 1, point)
           fraction == SubSeq(digits, point + 1, Len(digits))
           negative == scaled < 0
           made == [negative |-> negative, whole |-> whole,
                    fraction |-> fraction]
<1>1. size \in Nat /\ scaled = IF negative THEN -size ELSE size
  OBVIOUS
<1>2. Format(scaled, scale) = made
  BY DEF Format
<1> HIDE DEF size, negative
<1>3. /\ digits \in Digits /\ Len(digits) > scale /\ BigInt(digits) = size
  <2>1. Numeral[size] \in Digits /\ BigInt(Numeral[size]) = size
    BY <1>1, BigIntNumeral
  <2> QED
    BY <2>1, PadStartIs
<1> HIDE DEF digits
<1>4. Len(digits) \in Nat /\ point \in 1 .. Len(digits)
  <2>1. Len(digits) \in Nat
    BY <1>3 DEF Digits
  <2> QED
    BY <1>3, <2>1
<1>5. Len(digits) - point = scale
  BY <1>4
<1> HIDE DEF point
<1>6. /\ whole \in Digits \ {<<>>} /\ fraction \in Digits
      /\ Len(fraction) = Len(digits) - point /\ whole \o fraction = digits
  BY <1>3, <1>4, SplitJoins
<1> HIDE DEF whole, fraction
<1>7. negative \in BOOLEAN
  BY DEF negative
<1>8. /\ made.negative = negative /\ made.whole = whole
      /\ made.fraction = fraction /\ made \in Decimal
  BY <1>6, <1>7 DEF Decimal
<1> HIDE DEF made
<1>9. Scaled(made) = scaled
  BY <1>1, <1>3, <1>6, <1>8 DEF Scaled
<1> QED
  BY <1>2, <1>5, <1>6, <1>8, <1>9

LEMMA ProductOfProducts ==
    ASSUME NEW x \in Int, NEW y \in Int, NEW m \in Int, NEW n \in Int
    PROVE  (x * y) * (m * n) = (x * m) * (y * n)
<1>1. (x * y) * (m * n) = x * (y * (m * n))
  OBVIOUS
<1>2. y * (m * n) = m * (y * n)
  OBVIOUS
<1>3. (x * m) * (y * n) = x * (m * (y * n))
  OBVIOUS
<1> QED
  BY <1>1, <1>2, <1>3

\* multiplyDecimal is exact: counted at places fine enough for the factors, the
\* amount it writes out is worth the product of what the factors are worth.
THEOREM MultiplyExact ==
    ASSUME NEW a \in Decimal, NEW b \in Decimal, NEW p \in Nat, NEW q \in Nat,
           Len(a.fraction) <= p, Len(b.fraction) <= q
    PROVE  /\ MultiplyDecimal(a, b) \in Decimal
           /\ Len(MultiplyDecimal(a, b).fraction) <= p + q
           /\ Units(MultiplyDecimal(a, b), p + q) = Units(a, p) * Units(b, q)
<1> DEFINE x == BigInt(a.whole \o a.fraction)
           y == BigInt(b.whole \o b.fraction)
           product == IF a.negative # b.negative THEN -(x * y) ELSE x * y
           scale == Len(a.fraction) + Len(b.fraction)
           made == Format(product, scale)
           m == p - Len(a.fraction)
           n == q - Len(b.fraction)
           top == p + q - scale
<1>1. MultiplyDecimal(a, b) = made
  BY DEF MultiplyDecimal
<1>2. /\ m \in Nat /\ n \in Nat /\ top = m + n
      /\ scale \in Nat /\ scale <= p + q
  <2> DEFINE i == Len(a.fraction)
             j == Len(b.fraction)
  <2>1. i \in Nat /\ j \in Nat /\ i <= p /\ j <= q
    BY DecimalDigits
  <2> HIDE DEF i, j
  <2>2. /\ p - i \in Nat /\ q - j \in Nat
        /\ p + q - (i + j) = (p - i) + (q - j)
        /\ i + j \in Nat /\ i + j <= p + q
    BY <2>1
  <2> QED
    BY <2>2 DEF i, j
<1>3. /\ x \in Int /\ y \in Int
      /\ a.negative \in BOOLEAN /\ b.negative \in BOOLEAN
      /\ Scaled(a) = IF a.negative THEN -x ELSE x
      /\ Scaled(b) = IF b.negative THEN -y ELSE y
  BY DecimalDigits DEF Scaled
<1>4. /\ Units(a, p) = Scaled(a) * Pow10[m]
      /\ Units(b, q) = Scaled(b) * Pow10[n]
  BY UnitsAre
<1> HIDE DEF x, y
<1>5. product \in Int
  BY <1>3
<1>6. product = Scaled(a) * Scaled(b)
  <2>1. /\ (-x) * y = -(x * y) /\ x * (-y) = -(x * y)
        /\ (-x) * (-y) = x * y
    BY <1>3
  <2> QED
    BY <1>3, <2>1
<1> HIDE DEF product, scale
<1>7. made \in Decimal /\ Len(made.fraction) = scale /\ Scaled(made) = product
  BY <1>2, <1>5, FormatIs
<1> HIDE DEF made, m, n
<1>8. Units(made, p + q) = product * Pow10[top]
  BY <1>2, <1>7, UnitsAre
<1> HIDE DEF top
<1>9. Pow10[top] = Pow10[m] * Pow10[n]
  BY <1>2, Pow10Sum
<1>10. /\ Scaled(a) \in Int /\ Scaled(b) \in Int
       /\ Pow10[m] \in Int /\ Pow10[n] \in Int
  BY <1>2, DecimalDigits, Pow10Int
<1>11. Units(made, p + q) = Units(a, p) * Units(b, q)
  BY <1>4, <1>6, <1>8, <1>9, <1>10, ProductOfProducts
<1>12. Len(made.fraction) <= p + q
  BY <1>2, <1>7
<1> QED
  BY <1>1, <1>7, <1>11, <1>12
=============================================================================
