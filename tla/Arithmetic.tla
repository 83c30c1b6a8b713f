----------------------------- MODULE Arithmetic -----------------------------
(***************************************************************************)
(* Facts of arithmetic for the proofs about the list and the pools.  The   *)
(* library's induction theorems are stated of operators; here induction is *)
(* the least element of a set of natural numbers.                          *)
(***************************************************************************)
EXTENDS Integers, FiniteSets, FiniteSetTheorems, WellFoundedInduction, TLAPS

\* Every nonempty set of natural numbers has a least element.
LEMMA LeastNat ==
  ASSUME NEW T, T \subseteq Nat, T # {}
  PROVE  \E x \in T : \A y \in T : x <= y
<1>1. PICK x \in T : \A y \in T : ~(<<y, x>> \in OpToRel(<, Nat))
  BY NatLessThanWellFounded, WFMin
<1>2. \A y \in T : ~(y < x)
  BY <1>1 DEF OpToRel
<1> QED
  BY <1>2

\* Induction: a set that holds 0 and the successors of its elements.
LEMMA Induction ==
  ASSUME NEW T, 0 \in T, \A k \in Nat : k \in T => k + 1 \in T
  PROVE  Nat \subseteq T
<1> SUFFICES ASSUME NEW m \in Nat, m \notin T PROVE FALSE
  OBVIOUS
<1> DEFINE U == {k \in Nat : k \notin T}
<1>1. PICK x \in U : \A y \in U : x <= y
  BY LeastNat
<1>2. x # 0 /\ x - 1 \in Nat /\ x - 1 \notin U
  BY <1>1
<1> QED
  BY <1>1, <1>2

\* The same as far as n.
LEMMA InductionUpTo ==
  ASSUME NEW n \in Nat, NEW T, 0 \in T, \A k \in 0 .. n - 1 : k \in T => k + 1 \in T
  PROVE  0 .. n \subseteq T
<1> DEFINE U == {k \in Nat : k <= n => k \in T}
<1>1. Nat \subseteq U
  <2>1. 0 \in U /\ \A k \in Nat : k \in U => k + 1 \in U
    OBVIOUS
  <2> HIDE DEF U
  <2> QED
    BY <2>1, Induction
<1> QED
  BY <1>1

\* There is a function over 0 .. n that begins with b and goes on by steps.
Continued(n, S, b, step) ==
  \E s \in [0 .. n -> S] :
    s[0] = b /\ \A i \in 1 .. n : s[i] = step[<<i, s[i - 1]>>]

\* Recursion over 0 .. n: a first value and a step give a function.
LEMMA Recursion ==
  ASSUME NEW n \in Nat, NEW S, NEW b \in S, NEW step \in [(1 .. n) \X S -> S]
  PROVE  Continued(n, S, b, step)
<1> DEFINE OK(m, s) == s \in [0 .. m -> S] /\ s[0] = b
                         /\ \A i \in 1 .. m : s[i] = step[<<i, s[i - 1]>>]
           T == {m \in 0 .. n : \E s : OK(m, s)}
<1>1. 0 \in T
  <2>1. OK(0, [i \in 0 .. 0 |-> b])
    OBVIOUS
  <2> HIDE DEF OK
  <2> QED
    BY <2>1
<1>2. ASSUME NEW m \in 0 .. n - 1, m \in T PROVE m + 1 \in T
  <2>1. PICK s : OK(m, s)
    BY <1>2
  <2> DEFINE r == [i \in 0 .. m + 1 |-> IF i <= m THEN s[i] ELSE step[<<i, s[m]>>]]
  <2>2. s[m] \in S /\ m + 1 \in 1 .. n
    BY <2>1
  <2>3. r \in [0 .. m + 1 -> S] /\ r[0] = b
    BY <2>1, <2>2
  <2>4. ASSUME NEW i \in 1 .. m + 1 PROVE r[i] = step[<<i, r[i - 1]>>]
    BY <2>1
  <2>5. OK(m + 1, r)
    BY <2>3, <2>4
  <2> HIDE DEF OK, r
  <2> QED
    BY <2>5
<1>3. n \in T
  <2> HIDE DEF T
  <2> QED
    BY <1>1, <1>2, InductionUpTo
<1> QED
  BY <1>3 DEF Continued

\* A loop over D: from r it ends with out[r] when r is in done, and goes on with
\* next[r] otherwise.  Some measure m of r decreases.
Decreases(D, S, done, out, next, m) ==
  /\ out \in [D -> S] /\ next \in [D -> D] /\ m \in [D -> Nat]
  /\ \A r \in D \ done : m[next[r]] < m[r]

\* There is a function that the loop computes.
Computable(D, S, done, out, next) ==
  \E f \in [D -> S] : \A r \in D : f[r] = IF r \in done THEN out[r] ELSE f[next[r]]

\* A loop with a decreasing measure computes a function.
LEMMA Loop ==
  ASSUME NEW D, NEW S, NEW done, NEW out, NEW next, NEW m,
         Decreases(D, S, done, out, next, m)
  PROVE  Computable(D, S, done, out, next)
<1> USE DEF Decreases
<1> DEFINE Below(k) == {r \in D : m[r] <= k}
           OK(k, f) == /\ f \in [Below(k) -> S]
                       /\ \A r \in Below(k) :
                            f[r] = IF r \in done THEN out[r] ELSE f[next[r]]
           F(k) == CHOOSE f : OK(k, f)
           g == [r \in D |-> F(m[r])[r]]
<1>1. ASSUME NEW n \in Nat PROVE \E f : OK(n, f)
  <2> DEFINE T == {k \in 0 .. n : \E f : OK(k, f)}
  <2>1. 0 \in T
    <3>1. Below(0) \subseteq done
      OBVIOUS
    <3>2. OK(0, [r \in Below(0) |-> out[r]])
      BY <3>1
    <3> HIDE DEF OK
    <3> QED
      BY <3>2
  <2>2. ASSUME NEW k \in 0 .. n - 1, k \in T PROVE k + 1 \in T
    <3>1. PICK f : OK(k, f)
      BY <2>2
    <3> DEFINE h == [r \in Below(k + 1) |-> IF r \in done THEN out[r] ELSE f[next[r]]]
    <3>2. ASSUME NEW r \in Below(k + 1), r \notin done PROVE next[r] \in Below(k)
      BY <3>2
    <3>3. h \in [Below(k + 1) -> S]
      BY <3>1, <3>2
    <3>4. ASSUME NEW r \in Below(k + 1)
          PROVE  h[r] = IF r \in done THEN out[r] ELSE h[next[r]]
      <4>1. CASE r \in done
        BY <4>1
      <4>2. CASE r \notin done
        <5>1. next[r] \in Below(k) /\ next[r] \in Below(k + 1)
          BY <3>2, <4>2
        <5>2. h[r] = f[next[r]]
          BY <4>2
        <5>3. f[next[r]] = h[next[r]]
          BY <3>1, <5>1
        <5> QED
          BY <4>2, <5>2, <5>3
      <4> QED
        BY <4>1, <4>2
    <3>5. OK(k + 1, h)
      BY <3>3, <3>4
    <3> HIDE DEF OK, h
    <3> QED
      BY <3>5
  <2>3. n \in T
    <3> HIDE DEF T
    <3> QED
      BY <2>1, <2>2, InductionUpTo
  <2> QED
    BY <2>3
<1>2. ASSUME NEW j \in Nat, NEW k \in Nat, NEW f, NEW h, OK(j, f), OK(k, h),
             NEW r \in Below(j) \cap Below(k)
      PROVE  f[r] = h[r]
  <2> DEFINE U == {i \in Nat : \E q \in Below(j) \cap Below(k) : m[q] = i /\ f[q] # h[q]}
  <2>1. SUFFICES ASSUME f[r] # h[r] PROVE FALSE
    OBVIOUS
  <2>2. U # {}
    BY <2>1
  <2>3. PICK i \in U : \A x \in U : i <= x
    BY <2>2, LeastNat
  <2>4. PICK q \in Below(j) \cap Below(k) : m[q] = i /\ f[q] # h[q]
    BY <2>3
  <2>5. q \notin done
    BY <1>2, <2>4
  <2>6. m[next[q]] < m[q] /\ next[q] \in Below(j) \cap Below(k)
    BY <2>4, <2>5
  <2>7. f[next[q]] # h[next[q]]
    BY <1>2, <2>4, <2>5
  <2>8. m[next[q]] \in U
    BY <2>6, <2>7
  <2> QED
    BY <2>3, <2>4, <2>6, <2>8
<1>3. ASSUME NEW r \in D PROVE m[r] \in Nat /\ r \in Below(m[r]) /\ OK(m[r], F(m[r]))
  <2>1. m[r] \in Nat /\ r \in Below(m[r])
    OBVIOUS
  <2>2. \E f : OK(m[r], f)
    BY <1>1, <2>1
  <2> HIDE DEF OK, Below
  <2> QED
    BY <2>1, <2>2
<1>4. ASSUME NEW r \in D
      PROVE  /\ g[r] = F(m[r])[r]
             /\ F(m[r])[r] \in S
             /\ F(m[r])[r] = IF r \in done THEN out[r] ELSE F(m[r])[next[r]]
  <2>1. OK(m[r], F(m[r])) /\ r \in Below(m[r])
    BY <1>3
  <2> HIDE DEF F
  <2> QED
    BY <2>1
<1>5. ASSUME NEW r \in D \ done
      PROVE  F(m[r])[next[r]] = F(m[next[r]])[next[r]]
  <2>1. m[r] \in Nat /\ m[next[r]] \in Nat /\ next[r] \in Below(m[r]) \cap Below(m[next[r]])
    OBVIOUS
  <2> HIDE DEF F, OK, Below
  <2>2. OK(m[r], F(m[r])) /\ OK(m[next[r]], F(m[next[r]]))
    BY <1>3
  <2> QED
    BY <1>2, <2>1, <2>2
<1>6. g \in [D -> S]
  <2> HIDE DEF F
  <2> QED
    BY <1>4
<1>7. ASSUME NEW r \in D PROVE g[r] = IF r \in done THEN out[r] ELSE g[next[r]]
  <2> HIDE DEF F, g
  <2>1. CASE r \in done
    BY <1>4, <2>1
  <2>2. CASE r \notin done
    <3>1. next[r] \in D
      OBVIOUS
    <3>2. g[next[r]] = F(m[next[r]])[next[r]]
      BY <1>4, <3>1
    <3> QED
      BY <1>4, <1>5, <2>2, <3>2
  <2> QED
    BY <2>1, <2>2
<1> HIDE DEF g
<1> QED
  BY <1>6, <1>7 DEF Computable

----------------------------------------------------------------------------
\* The powers of two, by counting subsets: 2^(k + 1) is twice 2^k.
LEMMA PowerPlusOne == ASSUME NEW k \in Nat PROVE 2^(k + 1) = 2 * 2^k /\ 2^k \in Nat
<1> DEFINE S == 1 .. k
           x == k + 1
           P == SUBSET S
           Q == {T \cup {x} : T \in P}
           f == [T \in P |-> T \cup {x}]
<1>0. IsFiniteSet(S) /\ Cardinality(S) = k 
  BY FS_Interval
<1>3. x \notin S
  OBVIOUS
<1> HIDE DEF S
<1>1. IsFiniteSet(S \cup {x}) /\ Cardinality(S \cup {x}) = k + 1
  BY <1>0, <1>3, FS_AddElement
<1> HIDE DEF x
<1>2. IsFiniteSet(P) /\ Cardinality(P) = 2^k /\ Cardinality(SUBSET (S \cup {x})) = 2^(k + 1)
  BY <1>1, <1>0, FS_SUBSET
<1>4. f \in Bijection(P, Q)
  <2>1. f \in [P -> Q]
    OBVIOUS
  <2>2. \A a, b \in P : f[a] = f[b] => a = b
    BY <1>3
  <2>3. \A q \in Q : \E a \in P : f[a] = q
    OBVIOUS
  <2> HIDE DEF f, P, Q
  <2> QED
    BY <2>1, <2>2, <2>3 DEF Bijection, Injection, Surjection, IsInjective
<1>5. IsFiniteSet(Q) /\ Cardinality(Q) = Cardinality(P)
  BY <1>2, <1>4, FS_Bijection DEF ExistsBijection
<1>6. SUBSET (S \cup {x}) = P \cup Q
  <2>1. ASSUME NEW T \in SUBSET (S \cup {x}), x \in T PROVE T \in Q
    <3>1. T \ {x} \in P /\ T = (T \ {x}) \cup {x}
      BY <2>1
    <3> QED BY <3>1
  <2> QED BY <2>1
<1>7. P \cap Q = {}
  BY <1>3
<1> HIDE DEF P, Q
<1>9. Cardinality(P) \in Nat
  BY <1>2, FS_CardinalityType
<1>8. Cardinality(P \cup Q) = Cardinality(P) + Cardinality(Q)
  <2>1. Cardinality(P \cap Q) = 0
    BY <1>7, FS_EmptySet
  <2>2. Cardinality(P \cup Q) = Cardinality(P) + Cardinality(Q) - Cardinality(P \cap Q)
    BY <1>2, <1>5, FS_Union
  <2> QED
    BY <1>5, <1>9, <2>1, <2>2
<1>10. Cardinality(P \cup Q) = 2 * Cardinality(P)
  BY <1>5, <1>8, <1>9
<1>11. Cardinality(P \cup Q) = 2 ^ (k + 1)
  BY <1>2, <1>6
<1>12. 2^k \in Nat
  BY <1>2, <1>9, Zenon
<1> QED
  BY <1>2, <1>10, <1>11, <1>12

\* They are positive, beyond their exponents, and ascend.
LEMMA Powers ==
  /\ 2^0 = 1
  /\ \A k \in Nat : 2^k \in Nat /\ k < 2^k
<1> DEFINE T == {k \in Nat : 2^k \in Nat /\ k < 2^k}
<1>1. 2^0 = 1
  OBVIOUS
<1>2. 0 \in T
  BY <1>1
<1>3. ASSUME NEW k \in Nat, k \in T PROVE k + 1 \in T
  <2>1. 2^(k + 1) = 2 * 2^k
    BY PowerPlusOne
  <2> QED
    BY <1>3, <2>1
<1>4. Nat \subseteq T
  <2> HIDE DEF T
  <2> QED
    BY <1>2, <1>3, Induction
<1> QED
  BY <1>1, <1>4

\* A larger exponent gives a larger power.
LEMMA PowersAscend ==
  ASSUME NEW j \in Nat, NEW k \in Nat, j <= k
  PROVE  2^j <= 2^k
<1> DEFINE T == {m \in Nat : 2^j <= 2^(j + m)}
<1>1. 0 \in T
  BY Powers
<1>2. ASSUME NEW m \in Nat, m \in T PROVE m + 1 \in T
  <2>1. 2^((j + m) + 1) = 2 * 2^(j + m) /\ 2^(j + m) \in Nat /\ 2^j \in Nat
    BY PowerPlusOne, Powers
  <2>2. (j + m) + 1 = j + (m + 1)
    OBVIOUS
  <2> QED
    BY <1>2, <2>1, <2>2
<1>3. k - j \in T
  <2> HIDE DEF T
  <2> QED
    BY <1>1, <1>2, Induction
<1> QED
  BY <1>3
\* Powers of sums are products.
LEMMA PowerSum ==
  ASSUME NEW j \in Nat, NEW k \in Nat
  PROVE  2^(j + k) = 2^j * 2^k
<1> DEFINE T == {m \in Nat : 2^(j + m) = 2^j * 2^m}
<1>1. 0 \in T
  <2>1. 2^j \in Nat /\ 2^0 = 1 /\ j + 0 = j
    BY Powers
  <2>2. 2^j * 2^0 = 2^j
    BY <2>1
  <2>3. 2^(j + 0) = 2^j
    BY <2>1, Zenon
  <2> QED
    BY <2>2, <2>3
<1>2. ASSUME NEW m \in Nat, m \in T PROVE m + 1 \in T
  <2>1. 2^((j + m) + 1) = 2 * 2^(j + m) /\ 2^(m + 1) = 2 * 2^m
    BY PowerPlusOne
  <2>2. 2^(j + m) = 2^j * 2^m /\ 2^j \in Nat /\ 2^m \in Nat
    BY <1>2, Powers
  <2>3. \A a, b, c \in Nat : c = a * b => 2 * c = a * (2 * b)
    OBVIOUS
  <2>4. 2^(j + m) \in Nat
    BY <2>2
  <2>5. 2 * 2^(j + m) = 2^j * (2 * 2^m)
    BY <2>2, <2>3, <2>4
  <2>6. (j + m) + 1 = j + (m + 1)
    OBVIOUS
  <2>7. 2^(j + (m + 1)) = 2 * 2^(j + m)
    BY <2>1, <2>6, Zenon
  <2>8. 2^(j + (m + 1)) = 2^j * 2^(m + 1)
    BY <2>1, <2>5, <2>7, Zenon
  <2> QED
    BY <2>8
<1>3. Nat \subseteq T
  <2> HIDE DEF T
  <2> QED
    BY <1>1, <1>2, Induction
<1> QED
  BY <1>3

----------------------------------------------------------------------------
\* A number lies in the multiple of a that division finds, and in no other.
LEMMA Division ==
  ASSUME NEW i \in Nat, NEW a \in Nat \ {0}
  PROVE  /\ i \div a \in Nat
         /\ (i \div a) * a <= i /\ i < (i \div a) * a + a
         /\ \A q \in Nat : q * a <= i => q <= i \div a
         /\ \A q \in Nat : i < q * a => i \div a < q
         /\ \A q \in Nat : q * a <= i /\ i < q * a + a => i \div a = q
<1>1. /\ i \div a \in Nat
      /\ (i \div a) * a <= i /\ i < (i \div a) * a + a
  OBVIOUS
<1>2. ASSUME NEW p \in Nat, NEW q \in Nat, p < q PROVE p * a + a <= q * a
  <2>1. PICK d \in Nat : q = (p + 1) + d
    <3>1. q - (p + 1) \in Nat /\ q = (p + 1) + (q - (p + 1))
      BY <1>2
    <3> QED
      BY <3>1
  <2>2. q * a = p * a + a + d * a /\ d * a \in Nat
    BY <2>1
  <2> QED
    BY <2>2
<1>3. ASSUME NEW q \in Nat, q * a <= i PROVE q <= i \div a
  BY <1>1, <1>2, <1>3
<1>4. ASSUME NEW q \in Nat, i < q * a PROVE i \div a < q
  BY <1>1, <1>2, <1>4
<1>5. ASSUME NEW q \in Nat, q * a <= i, i < q * a + a PROVE i \div a = q
  BY <1>1, <1>2, <1>5
<1> QED
  BY <1>1, <1>3, <1>4, <1>5

\* As many times as a number fits, the quotient is at least.
LEMMA DivisionReaches ==
  ASSUME NEW i \in Nat, NEW a \in Nat \ {0}, NEW q \in Nat, q * a <= i
  PROVE  q <= i \div a
<1>1. \A p \in Nat : p * a <= i => p <= i \div a
  BY Division
<1> QED
  BY <1>1

\* Division keeps the order.
LEMMA DivisionAscends ==
  ASSUME NEW i \in Nat, NEW k \in Nat, NEW a \in Nat \ {0}, i <= k
  PROVE  i \div a <= k \div a
<1>1. (i \div a) * a <= i /\ i \div a \in Nat
  BY Division
<1>2. (i \div a) * a <= k
  BY <1>1
<1> QED
  BY <1>1, <1>2, Division

\* Counting modulo w: a reduction on the way changes nothing, nor does a full turn.
LEMMA Modulus ==
  ASSUME NEW w \in Nat \ {0}, NEW x \in Int, NEW y \in Int
  PROVE  /\ x % w \in 0 .. w - 1
         /\ ((x % w) + y) % w = (x + y) % w
         /\ ((x + w) + y) % w = (x + y) % w
<1>1. \A z \in Int : \E q \in Int : \E r \in 0 .. w - 1 : z = q * w + r /\ z % w = r
  <2> SUFFICES ASSUME NEW z \in Int
               PROVE  \E q \in Int : \E r \in 0 .. w - 1 : z = q * w + r /\ z % w = r
    OBVIOUS
  <2>1. z \div w \in Int /\ z % w \in 0 .. w - 1 /\ z = (z \div w) * w + (z % w)
    OBVIOUS
  <2> QED
    BY <2>1
<1>2. \A q \in Int, r \in 0 .. w - 1 : (q * w + r) % w = r
  OBVIOUS
<1>3. \A p, q \in Int : p * w \in Int /\ p * w + q * w = (p + q) * w
  OBVIOUS
<1>4. PICK p \in Int : \E r \in 0 .. w - 1 : x = p * w + r /\ x % w = r
  BY <1>1
<1>5. PICK r \in 0 .. w - 1 : x = p * w + r /\ x % w = r
  BY <1>4
<1>6. PICK q \in Int : \E e \in 0 .. w - 1 : r + y = q * w + e /\ (r + y) % w = e
  BY <1>1, r + y \in Int
<1>7. PICK e \in 0 .. w - 1 : r + y = q * w + e /\ (r + y) % w = e
  BY <1>6
<1>8. x + y = (p + q) * w + e
  BY <1>3, <1>5, <1>7
<1>9. (x + w) + y = (p + q + 1) * w + e
  <2>1. 1 * w = w /\ (p + q) * w + 1 * w = (p + q + 1) * w /\ (p + q) * w \in Int
    BY <1>3
  <2> QED
    BY <1>8, <2>1
<1>10. (x + y) % w = e /\ ((x + w) + y) % w = e
  <2>1. PICK a \in Int, b \in Int : a = p + q /\ b = p + q + 1
    OBVIOUS
  <2>2. x + y = a * w + e /\ (x + w) + y = b * w + e
    BY <1>8, <1>9, <2>1
  <2>3. (a * w + e) % w = e /\ (b * w + e) % w = e
    BY <1>2
  <2> QED
    BY <2>2, <2>3
<1> QED
  BY <1>5, <1>7, <1>10
=============================================================================
